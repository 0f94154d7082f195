--------------------------------- MODULE Fs ---------------------------------
(***************************************************************************)
(* The name space of kernel/fs.c and kernel/sysfile.c: the inode table,    *)
(* directories and path lookup, and the system calls open, close, link,    *)
(* unlink, mkdir, mknod and chdir, made by several processes at once, with *)
(* crashes.                                                                *)
(*                                                                         *)
(* A process runs a stack of labels.  What a call does while it holds a    *)
(* single inode lock and does not wait is one action, except that every    *)
(* critical section of itable.lock is an action of its own.  Locks that    *)
(* are held while the call waits for another one are fields of the table.  *)
(* The log is what Journal specifies: a crash undoes the calls that        *)
(* overlap since the last moment at which none was running.                *)
(*                                                                         *)
(* A directory is a function from names to inode numbers, and its size in  *)
(* entries; an inode that is no directory has no content here (Blocks      *)
(* is about that part).                                                    *)
(***************************************************************************)
EXTENDS Integers, Sequences, FiniteSets, FiniteSetsExt

CONSTANTS Proc, Nobody,
          NINODE,       \* entries of the inode table
          ninodes,      \* inodes on disk
          NBLOCKS,      \* data blocks on disk
          DPB,          \* directory entries in a block
          Name,         \* file names other than "." and ".."
          Files0, Dirs0,\* the files and empty directories in the root at first
          Calls,        \* the system calls that processes may make
          MaxCalls, MaxCrashes

Slot == 1 .. NINODE
Inum == 1 .. ninodes
ROOTINO == 1
AllName == Name \cup {".", ".."}

ASSUME FsAssumption ==
    /\ NINODE \in Nat \ {0} /\ ninodes \in Nat \ {0}
    /\ NBLOCKS \in Nat /\ DPB \in Nat \ {0, 1}
    /\ Files0 \subseteq Name /\ Dirs0 \subseteq Name /\ Files0 \cap Dirs0 = {}
    /\ Nobody \notin Proc /\ {".", ".."} \cap Name = {}
    /\ \A c \in Calls : c.op \in {"open", "close", "link", "unlink", "mkdir",
                                  "mknod", "chdir"}

VARIABLES
    disk,        \* the inodes on disk, directory contents included
    nfree,       \* free data blocks in the bitmap
    durable,     \* disk and nfree as a crash would leave them
    outstanding, \* file system calls inside begin_op ... end_op
    itable,      \* the inode table
    cwd, file,   \* each process's current directory, and its open file or 0
    stack,       \* what each process still has to do
    l,           \* the local variables of its calls
    calls, crashes

diskvars == <<disk, nfree>>
vars == <<disk, nfree, durable, outstanding, itable, cwd, file, stack, l, calls,
          crashes>>

NoEntries == [n \in AllName |-> 0]

(* A zeroed disk inode of the given type. *)
dinode(type) == [type |-> type, nlink |-> 0, size |-> 0, ents |-> NoEntries]

Blocks(size) == (size + DPB - 1) \div DPB
BlocksInUse(d) == MapThenSumSet(LAMBDA i : Blocks(d[i].size), Inum)

(* The root that mkfs writes, with Files0, and Dirs0 made by earlier calls. *)
Disk0 ==
    LET f == CHOOSE f \in [Files0 \cup Dirs0 -> Inum \ {ROOTINO}] :
                 \A m, n \in DOMAIN f : f[m] = f[n] => m = n
        root == [n \in AllName |-> IF n \in DOMAIN f THEN f[n]
                                   ELSE IF n \in Name THEN 0 ELSE ROOTINO]
        dir(i) == [n \in AllName |-> CASE n = "." -> i [] n = ".." -> ROOTINO
                                       [] OTHER -> 0]
    IN [i \in Inum |->
        CASE i = ROOTINO -> [type |-> "dir", nlink |-> 1 + Cardinality(Dirs0),
                             size |-> 2 + Cardinality(DOMAIN f), ents |-> root]
          [] \E n \in Dirs0 : f[n] = i ->
                 [type |-> "dir", nlink |-> 1, size |-> 2, ents |-> dir(i)]
          [] \E n \in Files0 : f[n] = i -> [dinode("file") EXCEPT !.nlink = 1]
          [] OTHER -> dinode("free")]

(* The table after boot: all processes are in the root directory. *)
itable0 ==
    [s \in Slot |->
        [inum |-> IF s = 1 THEN ROOTINO ELSE 0,
         ref |-> IF s = 1 THEN Cardinality(Proc) ELSE 0,
         valid |-> FALSE, lock |-> Nobody, type |-> "free", nlink |-> 0, size |-> 0]]

(* path, parent: namex's arguments; cur: its result; put: iput's argument.  *)
(* cur, ip, dp and put each own a reference when they are not 0.           *)
NoLocals == [call |-> Nobody, path |-> <<>>, parent |-> FALSE, name |-> ".",
             cur |-> 0, ip |-> 0, dp |-> 0, put |-> 0]

Boot ==
    /\ outstanding' = 0
    /\ itable' = itable0
    /\ cwd' = [p \in Proc |-> 1]
    /\ file' = [p \in Proc |-> 0]
    /\ stack' = [p \in Proc |-> <<>>]
    /\ l' = [p \in Proc |-> NoLocals]

Init ==
    /\ disk = Disk0
    /\ nfree = NBLOCKS - BlocksInUse(Disk0)
    /\ durable = [disk |-> disk, nfree |-> nfree]
    /\ outstanding = 0
    /\ itable = itable0
    /\ cwd = [p \in Proc |-> 1]
    /\ file = [p \in Proc |-> 0]
    /\ stack = [p \in Proc |-> <<>>]
    /\ l = [p \in Proc |-> NoLocals]
    /\ calls = 0 /\ crashes = 0

-----------------------------------------------------------------------------
(* The operations on inodes, on a record g of the table t, the disk d and  *)
(* the free blocks b.                                                      *)
G == [t |-> itable, d |-> disk, b |-> nfree]

Becomes(g) == itable' = g.t /\ disk' = g.d /\ nfree' = g.b

(* ilock's copy of the disk inode, unless the entry is valid. *)
Loaded(g, s) ==
    LET e == g.t[s]  d == g.d[e.inum]
    IN IF e.valid THEN e
       ELSE [e EXCEPT !.valid = TRUE, !.type = d.type, !.nlink = d.nlink,
                      !.size = d.size]

load(g, s) == [g EXCEPT !.t[s] = Loaded(g, s)]

ilock(g, s, p) == [g EXCEPT !.t[s] = [Loaded(g, s) EXCEPT !.lock = p]]

iunlock(g, s) == [g EXCEPT !.t[s].lock = Nobody]

iupdate(g, s) ==
    LET e == g.t[s]
    IN [g EXCEPT !.d[e.inum] = [@ EXCEPT !.type = e.type, !.nlink = e.nlink,
                                         !.size = e.size]]

(* ip->nlink += k; iupdate(ip). *)
addlink(g, s, k) == iupdate([g EXCEPT !.t[s].nlink = @ + k], s)

itrunc(g, s) ==
    LET i == g.t[s].inum
    IN iupdate([g EXCEPT !.b = @ + Blocks(g.t[s].size), !.t[s].size = 0,
                         !.d[i].ents = NoEntries], s)

InTable(t, i) == {s \in Slot : t[s].ref > 0 /\ t[s].inum = i}

Empty(t) == {s \in Slot : t[s].ref = 0}

(* The entry that iget returns; the table is never full within the bounds  *)
(* of NINODE, or iget would panic.                                         *)
iget(t, i) == IF InTable(t, i) # {} THEN Min(InTable(t, i)) ELSE Min(Empty(t))

(* Variant: a recycled entry keeps its valid flag. *)
igot_valid(g, i) ==
    LET s == iget(g.t, i)
    IN IF g.t[s].ref > 0 THEN [g EXCEPT !.t[s].ref = @ + 1]
       ELSE [g EXCEPT !.t[s] = [@ EXCEPT !.inum = i, !.ref = 1]]

(* What iget does to the table. *)
igot(g, i) ==
    LET s == iget(g.t, i)
    IN IF g.t[s].ref > 0 THEN [g EXCEPT !.t[s].ref = @ + 1]
       ELSE [g EXCEPT !.t[s] = [@ EXCEPT !.inum = i, !.ref = 1, !.valid = FALSE]]

Entry(g, s, n) == g.d[g.t[s].inum].ents[n]

(* dirlink must append, since no entry of the directory is free. *)
Appends(g, s) == Cardinality({n \in AllName : Entry(g, s, n) # 0}) >= g.t[s].size

NeedsBlock(g, s) == Appends(g, s) /\ g.t[s].size % DPB = 0

(* dirlink succeeds: the name is new, and there is room.  The reference    *)
(* that its dirlookup takes to a file of that name is given back at once.  *)
CanLink(g, s, n) == Entry(g, s, n) = 0 /\ (NeedsBlock(g, s) => g.b > 0)

dirlink(g, s, n, i) ==
    iupdate([g EXCEPT !.b = IF NeedsBlock(g, s) THEN @ - 1 ELSE @,
                      !.t[s].size = IF Appends(g, s) THEN @ + 1 ELSE @,
                      !.d[g.t[s].inum].ents[n] = i], s)

isdirempty(g, s) == \A n \in Name : Entry(g, s, n) = 0

-----------------------------------------------------------------------------
(* Control.  *)
At(p, label) == stack[p] # <<>> /\ Head(stack[p]) = label

Jump(p, labels) == stack' = [stack EXCEPT ![p] = labels \o Tail(@)]

Goto(p, labels) == stack' = [stack EXCEPT ![p] = labels]

Locals(p, r) == l' = [l EXCEPT ![p] = r]

(* iput(s), then end_op and return. *)
PutAndEnd(p, r) == Locals(p, r) /\ Goto(p, <<"iput", "end">>)

(* The entry that process p must lock before it can go on, or 0. *)
Target(p) ==
    IF stack[p] = <<>> THEN 0
    ELSE CASE Head(stack[p]) = "namex" ->
                  IF l[p].path.names = <<>> THEN 0 ELSE l[p].cur
           [] Head(stack[p]) \in {"link1", "link2", "unlink1", "create", "open1",
                                  "chdir1"} -> l[p].cur
           [] Head(stack[p]) \in {"create2", "create3", "unlink2", "linkbad"} -> l[p].ip
           [] OTHER -> 0

NoType(s) == ~itable[s].valid /\ disk[itable[s].inum].type = "free"

(* p can lock s, and finds an allocated inode: in panic() it would stop.   *)
Lockable(p, label, s) ==
    At(p, label) /\ s # 0 /\ itable[s].lock = Nobody /\ ~NoType(s)

Rest == <<durable, outstanding, cwd, file, calls, crashes>>

(* What each call does after begin_op. *)
Body(c) ==
    CASE c.op = "open" -> <<"namex0", IF c.creat THEN "create" ELSE "open1", "open2", "end">>
      [] c.op \in {"mkdir", "mknod"} -> <<"namex0", "create", "mk2", "end">>
      [] c.op = "close" -> <<"iput", "end">>
      [] OTHER -> <<"namex0", c.op \o "1", "end">>

(* A process enters the kernel with call c, and passes begin_op. *)
syscall(p, c) ==
    /\ stack[p] = <<>>
    /\ calls < MaxCalls
    /\ c.op = "close" => file[p] # 0
    /\ calls' = calls + 1
    /\ outstanding' = outstanding + 1
    /\ stack' = [stack EXCEPT ![p] = Body(c)]
    /\ Locals(p, [NoLocals EXCEPT !.call = c,
                    !.path = IF c.op = "close" THEN <<>> ELSE c.path,
                    !.parent = c.op \in {"unlink", "mkdir", "mknod"}
                               \/ (c.op = "open" /\ c.creat),
                    !.put = IF c.op = "close" THEN file[p] ELSE 0])
    /\ file' = IF c.op = "close" THEN [file EXCEPT ![p] = 0] ELSE file
    /\ UNCHANGED <<diskvars, durable, itable, cwd, crashes>>

(* end_op: the last of the overlapping calls commits them all. *)
end_op(p) ==
    /\ At(p, "end")
    /\ outstanding' = outstanding - 1
    /\ durable' = IF outstanding = 1 THEN [disk |-> disk, nfree |-> nfree] ELSE durable
    /\ Goto(p, <<>>)
    /\ Locals(p, NoLocals)
    /\ UNCHANGED <<diskvars, itable, cwd, file, calls, crashes>>

(* Variant: iput relies on no other call being in progress. *)
Frees_alone(e) == (e.ref = 1 \/ outstanding = 1) /\ e.valid /\ e.nlink = 0

(* iput's condition for truncating and freeing the inode. *)
Frees(e) == e.ref = 1 /\ e.valid /\ e.nlink = 0

iput_free(p) ==
    LET s == l[p].put IN
    /\ At(p, "iput") /\ Frees(itable[s])
    /\ itable' = [itable EXCEPT ![s].lock = p]
    /\ Jump(p, <<"iput2">>)
    /\ UNCHANGED <<diskvars, l, Rest>>

(* itrunc(ip); ip->type = 0; iupdate(ip); ip->valid = 0; releasesleep. *)
freed(g, s) ==
    iunlock([iupdate([itrunc(g, s) EXCEPT !.t[s].type = "free"], s)
                EXCEPT !.t[s].valid = FALSE], s)

iput_trunc(p) ==
    /\ At(p, "iput2")
    /\ Becomes(freed(G, l[p].put))
    /\ Jump(p, <<"iput3">>)
    /\ UNCHANGED <<l, Rest>>

(* ip->ref--. *)
iput_drop(p) ==
    LET s == l[p].put IN
    /\ \/ At(p, "iput") /\ ~Frees(itable[s])
       \/ At(p, "iput3")
    /\ itable' = [itable EXCEPT ![s].ref = @ - 1]
    /\ Locals(p, [l[p] EXCEPT !.put = 0])
    /\ Jump(p, <<>>)
    /\ UNCHANGED <<diskvars, Rest>>

-----------------------------------------------------------------------------
(* namex: iget(ROOTDEV, ROOTINO) or idup(myproc()->cwd). *)
namex_start(p) ==
    LET s == IF l[p].path.abs THEN iget(itable, ROOTINO) ELSE cwd[p] IN
    /\ At(p, "namex0")
    /\ Becomes(igot(G, IF l[p].path.abs THEN ROOTINO ELSE itable[s].inum))
    /\ Locals(p, [l[p] EXCEPT !.cur = s])
    /\ Jump(p, <<"namex">>)
    /\ UNCHANGED Rest

(* No element is left in the path. *)
namex_end(p) ==
    /\ At(p, "namex") /\ l[p].path.names = <<>>
    /\ IF l[p].parent
       THEN /\ Locals(p, [l[p] EXCEPT !.cur = 0, !.put = l[p].cur])
            /\ Jump(p, <<"iput">>)
       ELSE l' = l /\ Jump(p, <<>>)
    /\ UNCHANGED <<diskvars, itable, Rest>>

(* One iteration: the inode is no directory, or it is the parent asked     *)
(* for, or it lacks the name, or the walk goes on with the entry found.    *)
namex_step(p) ==
    LET s == l[p].cur
        names == l[p].path.names
        g == load(G, s)
        isdir == g.t[s].type = "dir"
        last == l[p].parent /\ Len(names) = 1
        next == Entry(g, s, Head(names))
    IN
    /\ Lockable(p, "namex", s) /\ names # <<>>
    /\ \/ /\ ~isdir \/ (~last /\ next = 0)
          /\ Becomes(g)
          /\ Locals(p, [l[p] EXCEPT !.cur = 0, !.put = s])
          /\ Jump(p, <<"iput">>)
       \/ /\ isdir /\ last
          /\ Becomes(g)
          /\ Locals(p, [l[p] EXCEPT !.name = Head(names)])
          /\ Jump(p, <<>>)
       \/ /\ isdir /\ ~last /\ next # 0
          /\ Becomes(igot(g, next))
          /\ Locals(p, [l[p] EXCEPT !.cur = iget(g.t, next), !.put = s,
                                    !.path.names = Tail(names)])
          /\ Jump(p, <<"iput", "namex">>)
    /\ UNCHANGED Rest

(* namei or nameiparent returned 0: the call fails. *)
notfound(p) ==
    /\ l[p].cur = 0
    /\ \/ /\ \E label \in {"link1", "unlink1", "create", "open1", "chdir1"} : At(p, label)
          /\ Goto(p, <<"end">>)
       \/ At(p, "link2") /\ Goto(p, <<"linkbad", "end">>)
    /\ UNCHANGED <<diskvars, itable, l, Rest>>

-----------------------------------------------------------------------------
(* Variant: the link is not counted. *)
linkcount_not(g, s) == g

linkcount(g, s) == addlink(g, s, 1)

(* sys_link: count the new link before it exists. *)
link1(p) ==
    LET s == l[p].cur  g == load(G, s) IN
    /\ Lockable(p, "link1", s)
    /\ \/ /\ g.t[s].type = "dir"
          /\ Becomes(g)
          /\ PutAndEnd(p, [l[p] EXCEPT !.cur = 0, !.put = s])
       \/ /\ g.t[s].type # "dir"
          /\ Becomes(linkcount(g, s))
          /\ Locals(p, [l[p] EXCEPT !.cur = 0, !.ip = s, !.path = l[p].call.new,
                                    !.parent = TRUE])
          /\ Goto(p, <<"namex0", "link2", "end">>)
    /\ UNCHANGED Rest

link2(p) ==
    LET s == l[p].cur  g == load(G, s)  n == l[p].name IN
    /\ Lockable(p, "link2", s)
    /\ IF CanLink(g, s, n)
       THEN /\ Becomes(dirlink(g, s, n, itable[l[p].ip].inum))
            /\ Goto(p, <<"iput", "link3", "end">>)
       ELSE Becomes(g) /\ Goto(p, <<"iput", "linkbad", "end">>)
    /\ Locals(p, [l[p] EXCEPT !.cur = 0, !.put = s])
    /\ UNCHANGED Rest

link3(p) ==
    /\ At(p, "link3")
    /\ PutAndEnd(p, [l[p] EXCEPT !.ip = 0, !.put = l[p].ip])
    /\ UNCHANGED <<diskvars, itable, Rest>>

(* bad: take the link back. *)
linkbad(p) ==
    LET s == l[p].ip IN
    /\ Lockable(p, "linkbad", s)
    /\ Becomes(addlink(load(G, s), s, -1))
    /\ PutAndEnd(p, [l[p] EXCEPT !.ip = 0, !.put = s])
    /\ UNCHANGED Rest

-----------------------------------------------------------------------------
(* Variant: "." can be unlinked. *)
MayUnlink_dot(n) == n # ".."

MayUnlink(n) == n \notin {".", ".."}

(* sys_unlink: lock the parent and look the name up. *)
unlink1(p) ==
    LET s == l[p].cur  g == load(G, s)  i == Entry(g, s, l[p].name) IN
    /\ Lockable(p, "unlink1", s)
    /\ IF MayUnlink(l[p].name) /\ i # 0
       THEN /\ Becomes(ilock(igot(g, i), s, p))
            /\ Locals(p, [l[p] EXCEPT !.cur = 0, !.dp = s, !.ip = iget(g.t, i)])
            /\ Goto(p, <<"unlink2", "end">>)
       ELSE Becomes(g) /\ PutAndEnd(p, [l[p] EXCEPT !.cur = 0, !.put = s])
    /\ UNCHANGED Rest

(* Clear the entry; a directory's ".." no longer counts for its parent. *)
unlink2(p) ==
    LET s == l[p].ip  d == l[p].dp  g == ilock(G, s, p)
        cleared == [g EXCEPT !.d[g.t[d].inum].ents[l[p].name] = 0]
        isdir == g.t[s].type = "dir"
    IN
    /\ Lockable(p, "unlink2", s)
    /\ g.t[s].nlink >= 1             \* or panic("unlink: nlink < 1")
    /\ \/ /\ isdir /\ ~isdirempty(g, s)
          /\ Becomes(load(G, s))
          /\ Locals(p, [l[p] EXCEPT !.ip = 0, !.put = s])
          /\ Goto(p, <<"iput", "putdp", "end">>)
       \/ /\ ~isdir \/ isdirempty(g, s)
          /\ Becomes(iunlock(IF isdir THEN addlink(cleared, d, -1) ELSE cleared, d))
          /\ Locals(p, [l[p] EXCEPT !.dp = 0, !.put = d])
          /\ Goto(p, <<"iput", "unlink3", "end">>)
    /\ UNCHANGED Rest

unlink3(p) ==
    LET s == l[p].ip IN
    /\ At(p, "unlink3")
    /\ Becomes(iunlock(addlink(G, s, -1), s))
    /\ PutAndEnd(p, [l[p] EXCEPT !.ip = 0, !.put = s])
    /\ UNCHANGED Rest

(* iunlockput(dp) on the error paths of unlink and create. *)
putdp(p) ==
    /\ At(p, "putdp")
    /\ Becomes(iunlock(G, l[p].dp))
    /\ PutAndEnd(p, [l[p] EXCEPT !.dp = 0, !.put = l[p].dp])
    /\ UNCHANGED Rest

-----------------------------------------------------------------------------
(* create: find the file, or allocate an inode and keep the parent locked. *)
create(p) ==
    LET s == l[p].cur  g == load(G, s)  i == Entry(g, s, l[p].name)
        type == CASE l[p].call.op = "mkdir" -> "dir" [] l[p].call.op = "mknod" -> "dev"
                  [] OTHER -> "file"
        free == {j \in Inum : disk[j].type = "free"}
    IN
    /\ Lockable(p, "create", s)
    /\ \/ /\ i # 0
          /\ Becomes(igot(g, i))
          /\ Locals(p, [l[p] EXCEPT !.cur = 0, !.put = s, !.ip = iget(g.t, i)])
          /\ Jump(p, <<"iput", "create2">>)
       \/ /\ i = 0 /\ free = {}
          /\ Becomes(g)
          /\ PutAndEnd(p, [l[p] EXCEPT !.cur = 0, !.put = s])
       \/ /\ i = 0
          /\ \E j \in free :
                LET h == ilock([g EXCEPT !.d[j] = dinode(type)], s, p) IN
                /\ Becomes(igot(h, j))
                /\ Locals(p, [l[p] EXCEPT !.cur = 0, !.dp = s, !.ip = iget(h.t, j)])
          /\ Jump(p, <<"create3">>)
    /\ UNCHANGED Rest

(* The name exists: open may use it, mkdir and mknod may not. *)
create2(p) ==
    LET s == l[p].ip  g == ilock(G, s, p) IN
    /\ Lockable(p, "create2", s)
    /\ IF l[p].call.op = "open" /\ g.t[s].type \in {"file", "dev"}
       THEN Becomes(g) /\ Jump(p, <<>>) /\ l' = l
       ELSE /\ Becomes(load(G, s))
            /\ PutAndEnd(p, [l[p] EXCEPT !.ip = 0, !.put = s])
    /\ UNCHANGED Rest

(* The inode with "." and "..", when both fit. *)
withdots(g, s, d) == dirlink(dirlink(g, s, ".", g.t[s].inum), s, "..", g.t[d].inum)

(* fail: ip->nlink = 0; iupdate(ip); iunlock(ip). *)
undone(g, s) == iunlock(iupdate([g EXCEPT !.t[s].nlink = 0], s), s)

create3(p) ==
    LET s == l[p].ip  d == l[p].dp  n == l[p].name
        made == addlink(ilock(G, s, p), s, 1)
        isdir == l[p].call.op = "mkdir"
        dots == isdir => CanLink(made, s, ".")
        full == IF isdir /\ dots THEN withdots(made, s, d) ELSE made
        linked == dirlink(full, d, n, made.t[s].inum)
    IN
    /\ Lockable(p, "create3", s)
    /\ IF dots /\ CanLink(full, d, n)
       THEN /\ Becomes(iunlock(IF isdir THEN addlink(linked, d, 1) ELSE linked, d))
            /\ Locals(p, [l[p] EXCEPT !.dp = 0, !.put = d])
            /\ Jump(p, <<"iput">>)
       ELSE /\ Becomes(undone(full, s))
            /\ Locals(p, [l[p] EXCEPT !.ip = 0, !.put = s])
            /\ Goto(p, <<"iput", "putdp", "end">>)
    /\ UNCHANGED Rest

(* sys_open without O_CREATE: a directory can only be read. *)
open1(p) ==
    LET s == l[p].cur  g == ilock(G, s, p) IN
    /\ Lockable(p, "open1", s)
    /\ IF g.t[s].type = "dir" /\ ~l[p].call.rdonly
       THEN Becomes(load(G, s)) /\ PutAndEnd(p, [l[p] EXCEPT !.cur = 0, !.put = s])
       ELSE /\ Becomes(g)
            /\ Locals(p, [l[p] EXCEPT !.cur = 0, !.ip = s])
            /\ Jump(p, <<>>)
    /\ UNCHANGED Rest

(* filealloc and fdalloc: a process has one descriptor here.  A device may *)
(* have a bad major number.                                                *)
open2(p) ==
    LET s == l[p].ip IN
    /\ At(p, "open2")
    /\ Becomes(iunlock(G, s))
    /\ \/ /\ file[p] # 0 \/ itable[s].type = "dev"
          /\ PutAndEnd(p, [l[p] EXCEPT !.ip = 0, !.put = s])
          /\ UNCHANGED file
       \/ /\ file[p] = 0
          /\ file' = [file EXCEPT ![p] = s]
          /\ Locals(p, [l[p] EXCEPT !.ip = 0])
          /\ Jump(p, <<>>)
    /\ UNCHANGED <<durable, outstanding, cwd, calls, crashes>>

(* sys_mkdir, sys_mknod: iunlockput(ip). *)
mk2(p) ==
    /\ At(p, "mk2")
    /\ Becomes(iunlock(G, l[p].ip))
    /\ PutAndEnd(p, [l[p] EXCEPT !.ip = 0, !.put = l[p].ip])
    /\ UNCHANGED Rest

(* sys_chdir: the old directory is put.  p->cwd, which is set last, is     *)
(* seen by p alone.                                                        *)
chdir1(p) ==
    LET s == l[p].cur  g == load(G, s) IN
    /\ Lockable(p, "chdir1", s)
    /\ Becomes(g)
    /\ IF g.t[s].type # "dir"
       THEN PutAndEnd(p, [l[p] EXCEPT !.cur = 0, !.put = s]) /\ UNCHANGED cwd
       ELSE /\ PutAndEnd(p, [l[p] EXCEPT !.cur = 0, !.put = cwd[p]])
            /\ cwd' = [cwd EXCEPT ![p] = s]
    /\ UNCHANGED <<durable, outstanding, file, calls, crashes>>

-----------------------------------------------------------------------------
(* The machine stops, and recovers the log when it starts again. *)
Crash ==
    /\ crashes < MaxCrashes
    /\ crashes' = crashes + 1
    /\ disk' = durable.disk /\ nfree' = durable.nfree
    /\ Boot
    /\ UNCHANGED <<durable, calls>>

(* The bound on the calls is reached. *)
Finished ==
    /\ calls = MaxCalls /\ \A p \in Proc : stack[p] = <<>>
    /\ UNCHANGED vars

Next ==
    \/ \E p \in Proc :
          \/ \E c \in Calls : syscall(p, c)
          \/ end_op(p) \/ iput_free(p) \/ iput_trunc(p) \/ iput_drop(p)
          \/ namex_start(p) \/ namex_end(p) \/ namex_step(p) \/ notfound(p)
          \/ link1(p) \/ link2(p) \/ link3(p) \/ linkbad(p)
          \/ unlink1(p) \/ unlink2(p) \/ unlink3(p) \/ putdp(p)
          \/ create(p) \/ create2(p) \/ create3(p)
          \/ open1(p) \/ open2(p) \/ mk2(p) \/ chdir1(p)
    \/ Crash
    \/ Finished

Spec == Init /\ [][Next]_vars

-----------------------------------------------------------------------------
TypeOK ==
    LET Type == {"free", "file", "dir", "dev"}
        Disk == [Inum -> [type : Type, nlink : Nat, size : Nat,
                          ents : [AllName -> 0 .. ninodes]]]
    IN
    /\ disk \in Disk /\ durable.disk \in Disk
    /\ nfree \in 0 .. NBLOCKS /\ durable.nfree \in 0 .. NBLOCKS
    /\ outstanding = Cardinality({p \in Proc : stack[p] # <<>>})
    /\ itable \in [Slot -> [inum : 0 .. ninodes, ref : Nat, valid : BOOLEAN,
                            lock : Proc \cup {Nobody}, type : Type, nlink : Nat,
                            size : Nat]]
    /\ cwd \in [Proc -> Slot] /\ file \in [Proc -> 0 .. NINODE]
    /\ \A p \in Proc : {l[p].cur, l[p].ip, l[p].dp, l[p].put} \subseteq 0 .. NINODE

(* iget never makes a second entry for an inode that is in use, whatever   *)
(* lookups, allocations and iputs overlap: else two processes would hold   *)
(* "the" lock of one inode.                                                *)
OneEntryPerInode ==
    \A s, t \in Slot :
        itable[s].ref > 0 /\ itable[t].ref > 0 /\ itable[s].inum = itable[t].inum => s = t

(* ip->ref counts exactly the pointers to the entry: current directories,  *)
(* open files, and what the running calls hold; so that every path through *)
(* the calls, errors included, gives back what it took.                    *)
RefIsExact ==
    \A s \in Slot :
        itable[s].ref = MapThenSumSet(LAMBDA p :
            Cardinality({f \in {"cur", "ip", "dp", "put"} : l[p][f] = s})
            + (IF cwd[p] = s THEN 1 ELSE 0) + (IF file[p] = s THEN 1 ELSE 0), Proc)

(* An entry that is in use and valid agrees with the inode on disk: no     *)
(* change is missing its iupdate, and an inode that was freed and          *)
(* allocated anew is read again.                                           *)
CacheIsCurrent ==
    \A s \in Slot : LET e == itable[s] IN
        e.ref > 0 /\ e.valid =>
            /\ e.type = disk[e.inum].type
            /\ e.nlink = disk[e.inum].nlink
            /\ e.size = disk[e.inum].size

(* The directory entries that name inode i. *)
Links(d, i) == {x \in Inum \X Name : d[x[1]].type = "dir" /\ d[x[1]].ents[x[2]] = i}

(* Every entry of a directory names an allocated inode whose link count    *)
(* covers all entries that name it, at every moment and after a crash at   *)
(* any moment.                                                             *)
EntriesNeverDangle ==
    \A d \in {disk, durable.disk}, i \in Inum :
        Links(d, i) # {} => /\ d[i].type # "free"
                            /\ d[i].nlink >= Cardinality(Links(d, i))

(* The bitmap has exactly the blocks of the directories, at every moment   *)
(* and after a crash: none leaks and none is in two places.                *)
BlocksAreConserved ==
    /\ nfree + BlocksInUse(disk) = NBLOCKS
    /\ durable.nfree + BlocksInUse(durable.disk) = NBLOCKS

Waits(p) == IF Target(p) = 0 THEN Nobody ELSE itable[Target(p)].lock

(* No processes wait for each other's inode locks, nor one for its own, in *)
(* lookups, create and unlink.                                             *)
NoCyclicWait ==
    \A S \in SUBSET Proc \ {{}} : \E p \in S : Waits(p) \notin S

(* iput's claim that its acquiresleep cannot block: nobody has the lock of *)
(* an entry with one reference.                                            *)
IputNeverBlocks ==
    \A p \in Proc : At(p, "iput") /\ Frees(itable[l[p].put]) =>
        itable[l[p].put].lock = Nobody

(* An inode that is some process's open file or current directory is not   *)
(* freed, even when it has been unlinked.                                  *)
OpenFilesSurvive ==
    [][crashes' = crashes =>
        \A p \in Proc : \A s \in ({cwd[p], file[p]} \cap {cwd'[p], file'[p]}) \ {0} :
            disk'[itable[s].inum].type # "free"]_vars

(* When no call is running, an inode that has no link and no reference is  *)
(* free; only a crash can leave one behind.                                *)
UnlinkedIsFreed ==
    crashes = 0 /\ outstanding = 0 =>
        \A i \in Inum : disk[i].nlink = 0 /\ InTable(itable, i) = {} => disk[i].type = "free"

(* ilock never finds an inode that is not allocated: it would panic.       *)
IlockFindsAnInode == \A p \in Proc : Target(p) # 0 => ~NoType(Target(p))

(* fs.c, the inode table: it has one entry per inode, its counts and its   *)
(* cached copies are exact, and the steps that rely on this (iput locking  *)
(* the last reference, ilock reading an allocated inode) never block or    *)
(* panic.                                                                  *)
TableIsCoherent ==
    /\ TypeOK /\ OneEntryPerInode /\ RefIsExact /\ CacheIsCurrent
    /\ IputNeverBlocks /\ IlockFindsAnInode

(* fs.c and sysfile.c: on disk, directory entries name allocated inodes    *)
(* and every block is either free or in one file, in the state now and in  *)
(* the one a crash would bring back.                                       *)
DiskIsConsistent == EntriesNeverDangle /\ BlocksAreConserved
=============================================================================
