------------------------------- MODULE Blocks -------------------------------
(***************************************************************************)
(* The contents of files: the free bitmap, bmap, readi, writei and itrunc  *)
(* of kernel/fs.c, the chunked write and the shared offset of              *)
(* kernel/file.c, on an image that mkfs/mkfs.c has made.  A byte and an    *)
(* entry of an indirect block are both one cell of a block, so that        *)
(* NINDIRECT = BSIZE.  A process takes a step for each turn of the loop of *)
(* writei; what it does there is under the locks of its inode and of the   *)
(* bitmap.  The log is the one Journal specifies: when the last operation  *)
(* in progress ends, what is on disk is committed (see Log).               *)
(***************************************************************************)
EXTENDS Integers, Sequences, FiniteSets, FiniteSetsExt

CONSTANTS WProc,         \* processes
          BFile,         \* inodes of regular files
          OpenFile,      \* struct file: processes may share one
          ipof,          \* the inode of an open file
          NoWriter,      \* the holder of a lock that is free
          BSIZE,         \* cells of a block
          NDIRECT,
          NBLK,          \* data blocks
          OPBLOCKS,
          WUINT,         \* 2^32: offsets and sizes are unsigned
          Lengths,       \* how many bytes mkfs may have put in the files
          WSizes, RSizes,   \* the n of write and read
          MaxWrites, MaxFsCrashes   \* bounds on the calls and on the crashes

NINDIRECT == BSIZE
MAXFILE == NDIRECT + NINDIRECT
Blk == 1 .. NBLK

(* A process writes its own number over and over; the files of mkfs hold   *)
(* another.  Such a byte could be taken for a block number.                *)
ASSUME BlocksAssumption ==
    /\ WProc \subseteq Nat \ {0} /\ WProc # {} /\ ipof \in [OpenFile -> BFile]
    /\ BSIZE \in Nat \ {0} /\ NDIRECT \in Nat \ {0} /\ OPBLOCKS \in Nat

MkByte == Max(WProc) + 1
Cell == 0 .. Max({MkByte, NBLK})

VARIABLES
    image,       \* the disk as the log presents it: free, blk and ino
    saved,       \* the image of the last commit
    incore,      \* the inodes in memory: addrs and size
    wheld,        \* the process that has the inode locked
    off,         \* f->off
    op,          \* the processes between begin_op and end_op
    logged,      \* the blocks a process has log_written in its operation
    job,         \* the call a process is in
    writes, fscrashes

imagevars == <<image, saved>>
wvars == <<image, saved, incore, wheld, off, op, logged, job, writes, fscrashes>>

Zeroes == [k \in 0 .. BSIZE - 1 |-> 0]
NoAddrs == [k \in 0 .. NDIRECT |-> 0]
Idle == [pc |-> "user", f |-> NoWriter, n |-> 0, i |-> 0, n1 |-> 0, tot |-> 0]

-----------------------------------------------------------------------------
(* mkfs.  The map of block fbn of file f: freeblock is handed out in order. *)
mkfs_slot(m, f, k) ==
    IF m.ino[f].addrs[k] # 0 THEN m
    ELSE [m EXCEPT !.ino[f].addrs[k] = m.freeblock, !.freeblock = @ + 1]

mkfs_map(m, f, fbn) ==
    IF fbn < NDIRECT
    THEN LET s == mkfs_slot(m, f, fbn) IN [s |-> s, x |-> s.ino[f].addrs[fbn]]
    ELSE LET s == mkfs_slot(m, f, NDIRECT)
             a == s.ino[f].addrs[NDIRECT]
         IN IF s.blk[a][fbn - NDIRECT] # 0
            THEN [s |-> s, x |-> s.blk[a][fbn - NDIRECT]]
            ELSE [s |-> [s EXCEPT !.blk[a][fbn - NDIRECT] = s.freeblock,
                                  !.freeblock = @ + 1],
                  x |-> s.freeblock]

(* iappend: n bytes at the end of f, a block at a time. *)
RECURSIVE iappend(_, _, _)
iappend(m, f, n) ==
    IF n = 0 THEN m
    ELSE LET size == m.ino[f].size
             fbn == size \div BSIZE
             at == mkfs_map(m, f, fbn)
             n1 == Min({n, (fbn + 1) * BSIZE - size})
         IN iappend([at.s EXCEPT
                        !.blk[at.x] = [k \in DOMAIN @ |->
                            IF k >= size % BSIZE /\ k < (size % BSIZE) + n1
                            THEN MkByte ELSE @[k]],
                        !.ino[f].size = @ + n1],
                    f, n - n1)

(* main, ialloc and balloc: the files one after the other, then the bitmap, *)
(* in which all the blocks below freeblock are in use.                     *)
RECURSIVE mkfs(_, _, _)
mkfs(m, S, len) ==
    IF S = {} THEN [free |-> m.freeblock .. NBLK, blk |-> m.blk, ino |-> m.ino]
    ELSE LET f == CHOOSE g \in S : TRUE IN mkfs(iappend(m, f, len[f]), S \ {f}, len)

BlocksInit ==
    /\ \E len \in Lengths :
        image = mkfs([freeblock |-> 1, blk |-> [b \in Blk |-> Zeroes],
                      ino |-> [f \in BFile |-> [addrs |-> NoAddrs, size |-> 0]]],
                     BFile, len)
    /\ saved = image
    /\ incore = image.ino
    /\ wheld = [f \in BFile |-> NoWriter]
    /\ off = [o \in OpenFile |-> 0]
    /\ op = {}
    /\ logged = [p \in WProc |-> {}]
    /\ job = [p \in WProc |-> Idle]
    /\ writes = 0 /\ fscrashes = 0

-----------------------------------------------------------------------------
(* g is what an operation works on: the image, the inode ip in memory, the *)
(* blocks log_written, and the block number the last step came up with.    *)
Work(p, f) == [d |-> image, ip |-> incore[f], log |-> logged[p], addr |-> 0]
Bitmap == 0      \* the bitmap block, and the block of the inodes
Dinode == -1

bzero(g, b) == [g EXCEPT !.d.blk[b] = Zeroes, !.log = @ \cup {b}]

(* balloc: the lowest free block, zeroed; 0 if there is none. *)
balloc(g) ==
    IF g.d.free = {} THEN [g EXCEPT !.addr = 0]
    ELSE LET b == Min(g.d.free) IN
         bzero([g EXCEPT !.d.free = @ \ {b}, !.log = @ \cup {Bitmap}, !.addr = b], b)

bfree(d, S) == [d EXCEPT !.free = @ \cup S]

(* bmap, for an address in the inode. *)
slot(g, k) ==
    IF g.ip.addrs[k] # 0 THEN [g EXCEPT !.addr = g.ip.addrs[k]]
    ELSE LET h == balloc(g) IN [h EXCEPT !.ip.addrs[k] = h.addr]

(* bmap, for an address in the indirect block a. *)
indirect(g, a, k) ==
    IF g.d.blk[a][k] # 0 THEN [g EXCEPT !.addr = g.d.blk[a][k]]
    ELSE LET h == balloc(g) IN
         IF h.addr = 0 THEN h
         ELSE [h EXCEPT !.d.blk[a][k] = h.addr, !.log = @ \cup {a}]

bmap(g, bn) ==
    IF bn < NDIRECT THEN slot(g, bn)
    ELSE LET h == slot(g, NDIRECT) IN
         IF h.addr = 0 THEN h ELSE indirect(h, h.addr, bn - NDIRECT)

(* The blocks that itrunc finds from the inode ip. *)
BlocksOf(d, ip) ==
    ({ip.addrs[k] : k \in 0 .. NDIRECT}
        \cup IF ip.addrs[NDIRECT] = 0 THEN {}
             ELSE {d.blk[ip.addrs[NDIRECT]][k] : k \in 0 .. NINDIRECT - 1}) \ {0}

-----------------------------------------------------------------------------
(* readi and writei: how much of the rest is in the block of o. *)
span(o, rest) == Min({rest, BSIZE - (o % BSIZE)})

(* readi, the loop: from o to the end e, the part in each block at a time. *)
RECURSIVE readblocks(_, _, _)
readblocks(g, o, e) ==
    IF o >= e THEN << >>
    ELSE LET h == bmap(g, o \div BSIZE)
             m == span(o, e - o)
         IN IF h.addr = 0 THEN << >>
            ELSE [k \in 1 .. m |-> h.d.blk[h.addr][(o % BSIZE) + k - 1]]
                    \o readblocks(h, o + m, e)

(* readi: how far a read of n bytes goes.  n may be a negative int. *)
readend(size, o, n) ==
    IF o > size \/ (o + n) % WUINT < o THEN o
    ELSE Min({o + n, size})

(* readi: what a read of n bytes through o returns. *)
readi(o, n) ==
    LET ip == incore[ipof[o]] IN
    readblocks([d |-> image, ip |-> ip, log |-> {}, addr |-> 0],
               off[o], readend(ip.size, off[o], n))

fileread(p, o, n) ==
    /\ job[p] = Idle /\ wheld[ipof[o]] = NoWriter /\ writes < MaxWrites
    /\ off' = [off EXCEPT ![o] = @ + Len(readi(o, n))]
    /\ writes' = writes + 1
    /\ UNCHANGED <<imagevars, incore, wheld, op, logged, job, fscrashes>>

-----------------------------------------------------------------------------
(* Variant: the whole write in one operation. *)
chunk_all(n) == n

(* filewrite: the most a transaction has room for. *)
chunk(n) == Min({n, ((OPBLOCKS - 1 - 1 - 2) \div 2) * BSIZE})

(* begin_op, when the log has room, for a call j. *)
Begin(p, j) ==
    /\ op' = op \cup {p}
    /\ job' = [job EXCEPT ![p] = [j EXCEPT !.n1 = chunk(j.n - j.i), !.tot = 0]]
    /\ UNCHANGED <<imagevars, incore, wheld, off, logged, fscrashes>>

(* filewrite, and open with O_TRUNC, up to the first begin_op. *)
filewrite(p, o, n) ==
    /\ job[p] = Idle /\ writes < MaxWrites
    /\ Begin(p, [Idle EXCEPT !.pc = "lock", !.f = o, !.n = n])
    /\ writes' = writes + 1

open_trunc(p, o) ==
    /\ job[p] = Idle /\ writes < MaxWrites
    /\ Begin(p, [Idle EXCEPT !.pc = "trunc", !.f = o])
    /\ writes' = writes + 1

(* filewrite: the next turn of the loop. *)
fs_begin_op(p) ==
    /\ job[p].pc = "begin"
    /\ Begin(p, [job[p] EXCEPT !.pc = "lock"])
    /\ UNCHANGED writes

(* writei: its first two checks fail.  -1 is not n1. *)
writei_refuse(p) ==
    LET f == ipof[job[p].f] o == off[job[p].f] IN
    /\ job[p].pc = "lock" /\ wheld[f] = NoWriter
    /\ o > incore[f].size \/ o + job[p].n1 > MAXFILE * BSIZE
    /\ job' = [job EXCEPT ![p].pc = "end", ![p].tot = -1]
    /\ UNCHANGED <<imagevars, incore, wheld, off, op, logged, writes, fscrashes>>

(* filewrite locks the inode; writei accepts. *)
writei_start(p) ==
    LET f == ipof[job[p].f] o == off[job[p].f] IN
    /\ job[p].pc = "lock" /\ wheld[f] = NoWriter
    /\ o <= incore[f].size /\ o + job[p].n1 <= MAXFILE * BSIZE
    /\ wheld' = [wheld EXCEPT ![f] = p]
    /\ job' = [job EXCEPT ![p].pc = "loop"]
    /\ UNCHANGED <<imagevars, incore, off, op, logged, writes, fscrashes>>

(* Variant: the bytes go to the start of the block. *)
copied_start(blk, o, m, p) == [k \in DOMAIN blk |-> IF k < m THEN p ELSE blk[k]]

copied(blk, o, m, p) == [k \in DOMAIN blk |->
    IF o % BSIZE <= k /\ k < (o % BSIZE) + m THEN p ELSE blk[k]]

(* writei: copy to the part of one block. *)
writei_block(p) ==
    LET f == ipof[job[p].f]
        o == off[job[p].f] + job[p].tot
        g == bmap(Work(p, f), o \div BSIZE)
        m == span(o, job[p].n1 - job[p].tot)
    IN
    /\ job[p].pc = "loop" /\ job[p].tot < job[p].n1
    /\ g.addr # 0
    /\ image' = [g.d EXCEPT !.blk[g.addr] = copied(@, o, m, p)]
    /\ incore' = [incore EXCEPT ![f] = g.ip]
    /\ logged' = [logged EXCEPT ![p] = g.log \cup {g.addr}]
    /\ job' = [job EXCEPT ![p].tot = @ + m]
    /\ UNCHANGED <<saved, wheld, off, op, writes, fscrashes>>

iupdate(d, f, ip) == [d EXCEPT !.ino[f] = ip]

(* Variant: the size is what it would be if all had been written. *)
newsize_asked(size, o, rest) == Max({size, o + rest})

newsize(size, o, rest) == Max({size, o})

(* writei: the loop ends, because all is written, the disk is full, or the *)
(* source is not mapped; then filewrite moves the offset and unlocks.      *)
writei_end(p) ==
    LET f == ipof[job[p].f]
        o == off[job[p].f] + job[p].tot
        w == Work(p, f)
        g == IF job[p].tot = job[p].n1 THEN w ELSE bmap(w, o \div BSIZE)
        ip == [g.ip EXCEPT !.size = newsize(@, o, job[p].n1 - job[p].tot)]
    IN
    /\ job[p].pc = "loop"
    /\ incore' = [incore EXCEPT ![f] = ip]
    /\ image' = iupdate(g.d, f, ip)
    /\ logged' = [logged EXCEPT ![p] = g.log \cup {Dinode}]
    /\ off' = [off EXCEPT ![job[p].f] = o]
    /\ wheld' = [wheld EXCEPT ![f] = NoWriter]
    /\ job' = [job EXCEPT ![p].pc = "end"]
    /\ UNCHANGED <<saved, op, writes, fscrashes>>

(* open with O_TRUNC: itrunc. *)
itrunc(p) ==
    LET f == ipof[job[p].f]
        ip == [addrs |-> NoAddrs, size |-> 0]
    IN
    /\ job[p].pc = "trunc" /\ wheld[f] = NoWriter
    /\ incore' = [incore EXCEPT ![f] = ip]
    /\ image' = iupdate(bfree(image, BlocksOf(image, incore[f])), f, ip)
    /\ logged' = [logged EXCEPT ![p] = {Bitmap, Dinode}]
    /\ job' = [job EXCEPT ![p].pc = "end"]
    /\ UNCHANGED <<saved, wheld, off, op, writes, fscrashes>>

(* end_op, and the end of a turn of the loop of filewrite. *)
fs_end_op(p) ==
    LET done == job[p].i + job[p].tot IN
    /\ job[p].pc = "end"
    /\ op' = op \ {p}
    /\ saved' = IF op' = {} THEN image ELSE saved
    /\ logged' = [logged EXCEPT ![p] = {}]
    /\ job' = [job EXCEPT ![p] =
                IF job[p].tot # job[p].n1 \/ done = job[p].n THEN Idle
                ELSE [@ EXCEPT !.pc = "begin", !.i = done]]
    /\ UNCHANGED <<image, incore, wheld, off, writes, fscrashes>>

(* A crash: the log brings back what was committed, memory is lost. *)
crash ==
    /\ fscrashes < MaxFsCrashes
    /\ image' = saved
    /\ incore' = saved.ino
    /\ wheld' = [f \in BFile |-> NoWriter]
    /\ off' = [o \in OpenFile |-> 0]
    /\ op' = {}
    /\ logged' = [p \in WProc |-> {}]
    /\ job' = [p \in WProc |-> Idle]
    /\ fscrashes' = fscrashes + 1
    /\ UNCHANGED <<saved, writes>>

(* The calls the bound allows have been made. *)
AllWritten == (\A p \in WProc : job[p] = Idle) /\ UNCHANGED wvars

BlocksNext ==
    \/ \E p \in WProc :
        \/ \E o \in OpenFile : \/ open_trunc(p, o)
                               \/ \E n \in WSizes : filewrite(p, o, n)
                               \/ \E n \in RSizes : fileread(p, o, n)
        \/ fs_begin_op(p) \/ writei_refuse(p) \/ writei_start(p) \/ writei_block(p)
        \/ writei_end(p) \/ itrunc(p) \/ fs_end_op(p)
    \/ crash
    \/ AllWritten

BlocksSpec == BlocksInit /\ [][BlocksNext]_wvars

-----------------------------------------------------------------------------
(* The image, the inodes and the calls have their types. *)
BlocksTypeOK ==
    LET Ino == [addrs : [0 .. NDIRECT -> 0 .. NBLK], size : 0 .. MAXFILE * BSIZE]
        Img(d) == /\ d.free \subseteq Blk
                  /\ d.blk \in [Blk -> [0 .. BSIZE - 1 -> Cell]]
                  /\ d.ino \in [BFile -> Ino]
    IN
    /\ Img(image) /\ Img(saved) /\ incore \in [BFile -> Ino]
    /\ wheld \in [BFile -> WProc \cup {NoWriter}]
    /\ off \in [OpenFile -> 0 .. MAXFILE * BSIZE]
    /\ op \subseteq WProc
    /\ \A p \in WProc : job[p].tot \in -1 .. job[p].n1 /\ job[p].i <= job[p].n

(* The address of block bn of inode ip, by the definition in fs.h. *)
AddrOf(d, ip, bn) ==
    IF bn < NDIRECT THEN ip.addrs[bn]
    ELSE IF ip.addrs[NDIRECT] = 0 THEN 0
    ELSE d.blk[ip.addrs[NDIRECT]][bn - NDIRECT]

(* The first bytes of an inode, one by one. *)
Text(d, ip, size) ==
    [j \in 1 .. size |->
        LET b == AddrOf(d, ip, (j - 1) \div BSIZE)
        IN IF b = 0 THEN 0 ELSE d.blk[b][(j - 1) % BSIZE]]

(* The addresses of the inodes that are not 0: <<inode, index, block>>. *)
BlockAt(d, ip, k) == IF k = MAXFILE THEN ip.addrs[NDIRECT] ELSE AddrOf(d, ip, k)
Addresses(d, ino) ==
    UNION {{<<f, k, BlockAt(d, ino[f], k)>> :
        k \in {k \in 0 .. MAXFILE : BlockAt(d, ino[f], k) # 0}} : f \in BFile}

(* The bitmap is exact: a block is free, or it is the one block of one     *)
(* address of one inode; balloc, bmap and itrunc leak none and share none. *)
(* In memory this holds after every turn of writei, whatever fails; on     *)
(* disk, it is what a crash finds, so every commit has the inode that goes *)
(* with the bitmap.                                                        *)
Exact(d, A) == /\ {a[3] : a \in A} = Blk \ d.free
               /\ Cardinality(A) = NBLK - Cardinality(d.free)
BitmapIsExact == /\ Exact(image, Addresses(image, incore))
                 /\ Exact(saved, Addresses(saved, saved.ino))

(* Below its size a file has no hole, even after a write that fails half   *)
(* way, so readi never has bmap allocate, outside of any operation.        *)
NoHoles ==
    \A f \in BFile : \A j \in 1 .. incore[f].size :
        AddrOf(image, incore[f], (j - 1) \div BSIZE) # 0

(* filewrite splits a write so that no operation logs more blocks than     *)
(* begin_op has reserved for it, aligned or not, direct or indirect.       *)
ChunkFitsTheLog == \A p \in WProc : Cardinality(logged[p]) <= OPBLOCKS

(* A read returns the bytes of the file from the offset on, as many as it  *)
(* asks for and the file has: the loop of readi over the blocks misses     *)
(* none and never goes past the end, even for a negative n, an offset      *)
(* beyond the size, and a file that is being written through another.      *)
ReadsWhatIsThere ==
    \A o \in OpenFile, n \in RSizes : wheld[ipof[o]] = NoWriter =>
        LET t == Text(image, incore[ipof[o]], incore[ipof[o]].size)
            r == readi(o, n)
        IN /\ r = SubSeq(t, off[o] + 1, off[o] + Len(r))
           /\ n < WUINT \div 2 => Len(r) = Max({0, Min({n, Len(t) - off[o]})})

(* What writei has written through o since the offset was last moved, and *)
(* the size f will have.                                                   *)
Written(o) == Max({0} \cup {job[p].tot : p \in {q \in WProc :
                                job[q].pc = "loop" /\ job[q].f = o}})
SizeNow(f) == Max({incore[f].size} \cup {off[o] + Written(o) : o \in {q \in OpenFile :
                                ipof[q] = f /\ Written(q) > 0}})

(* To its users a file is a sequence of bytes: each turn of the loop of    *)
(* writei puts its bytes at the position the open file has just then and   *)
(* changes nothing else, whoever writes, fills the disk, truncates or      *)
(* reads in between; and a crash brings back the last commit.              *)
FS == INSTANCE Files WITH
        File <- BFile, Handle <- OpenFile, fileof <- ipof, Char <- Cell,
        text <- [f \in BFile |-> Text(image, incore[f], SizeNow(f))],
        pos <- [o \in OpenFile |-> off[o] + Written(o)],
        stable <- [f \in BFile |-> Text(saved, saved.ino[f], saved.ino[f].size)]
ImplementsFiles ==
    FS!FilesInit /\ [][wvars' = wvars \/ FS!FilesNext]_(FS!filesvars)

(* fs.c, balloc, bfree, bmap, itrunc, readi and writei: the bitmap says    *)
(* exactly which blocks files use, files have no holes, and a read returns *)
(* what is there.                                                          *)
BlocksAreExact == BlocksTypeOK /\ BitmapIsExact /\ NoHoles /\ ReadsWhatIsThere
=============================================================================
