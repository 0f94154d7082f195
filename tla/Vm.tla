---------------------------------- MODULE Vm --------------------------------
(***************************************************************************)
(* User memory: the page allocator of kernel/kalloc.c, the page tables of  *)
(* kernel/vm.c, and the calls that make, change and free an address space: *)
(* fork, exec, sbrk and exit with wait.  The functions of vm.c are         *)
(* operators from a memory m to a memory; a panic is recorded in it.  A    *)
(* call is one action: only the allocator is shared between processes, and *)
(* what other processes take from it only moves the point where a call     *)
(* runs out of memory.                                                     *)
(***************************************************************************)
EXTENDS Integers, Sequences, FiniteSets

CONSTANTS VProc, first,     \* processes, and the one userinit makes
          NPAGES,           \* physical pages
          LEVELS, FANOUT,   \* 3 and 512: levels and entries of a page table
          PGSIZE, USERSTACK,
          Images,           \* files to exec: sequences of program headers
          Growths,          \* the n of sbrk
          Stores,           \* the addresses a user program stores to
          MaxVmCalls        \* bound: calls

(* Physical memory ends before a process can grow into its trapframe.      *)
ASSUME VmAssumption ==
    /\ first \in VProc /\ LEVELS > 0 /\ FANOUT > 1 /\ PGSIZE > 0
    /\ NPAGES > 0 /\ NPAGES < FANOUT ^ LEVELS - 2

VARIABLES
    vm,          \* mem: the contents of the pages; free; panic: messages
    space,       \* process -> pagetable, trapframe (pages) and sz, or NoSpace
    vmcalls      \* calls so far

vmvars == <<vm, space, vmcalls>>

Page == 1 .. NPAGES
trampoline == NPAGES + 1
NVA == FANOUT ^ LEVELS
MAXVA == NVA * PGSIZE
TRAMPOLINE == NVA - 1
TRAPFRAME == NVA - 2
NoPTE == [pa |-> 0, flags |-> {}]
NoSpace == [pagetable |-> 0, trapframe |-> 0, sz |-> 0]

(* PGROUNDUP(n) / PGSIZE *)
RoundUp(n) == (n + PGSIZE - 1) \div PGSIZE
PX(level, vpn) == (vpn \div FANOUT ^ level) % FANOUT
Filled(byte) == [i \in 0 .. PGSIZE - 1 |-> byte]
Panic(m, msg) == [m EXCEPT !.panic = @ \cup {msg}]

-----------------------------------------------------------------------------
(* kalloc.c.  Which free page kalloc takes does not matter: the lowest.    *)
kfree(m, pa) ==
    IF pa \notin Page \/ pa \in m.free THEN Panic(m, "kfree")
    ELSE [m EXCEPT !.mem[pa] = Filled(1), !.free = @ \cup {pa}]

Taken(m, pa) == [m |-> [m EXCEPT !.mem[pa] = Filled(5), !.free = @ \ {pa}], pa |-> pa]
kalloc(m) ==
    IF m.free = {} THEN [m |-> m, pa |-> 0]
    ELSE Taken(m, CHOOSE x \in m.free : \A y \in m.free : x <= y)

(* walk: the last table on the way to an address, 0 if there is none.      *)
(* WalkFrom starts at a table of some level, WalkNew allocates the next.   *)
NewTable == [i \in 0 .. FANOUT - 1 |-> NoPTE]

RECURSIVE WalkFrom(_, _, _, _, _)
WalkNew(k, table, vpn, level) ==
    IF k.pa = 0 THEN [m |-> k.m, table |-> 0]
    ELSE WalkFrom([k.m EXCEPT !.mem[k.pa] = NewTable,
                              !.mem[table][PX(level, vpn)] = [pa |-> k.pa, flags |-> {}]],
                  k.pa, vpn, TRUE, level - 1)
WalkFrom(m, table, vpn, alloc, level) ==
    IF level = 0 THEN [m |-> m, table |-> table]
    ELSE IF m.mem[table][PX(level, vpn)] # NoPTE
    THEN WalkFrom(m, m.mem[table][PX(level, vpn)].pa, vpn, alloc, level - 1)
    ELSE IF alloc THEN WalkNew(kalloc(m), table, vpn, level)
    ELSE [m |-> m, table |-> 0]

walk(m, pagetable, vpn, alloc) == WalkFrom(m, pagetable, vpn, alloc, LEVELS - 1)

(* The entry for an address in the last table. *)
In(m, table, vpn) == IF table = 0 THEN NoPTE ELSE m.mem[table][PX(0, vpn)]
Entry(m, pagetable, vpn) == In(m, walk(m, pagetable, vpn, FALSE).table, vpn)
SetEntry(m, pagetable, vpn, pte) ==
    [m EXCEPT !.mem[walk(m, pagetable, vpn, FALSE).table][PX(0, vpn)] = pte]

UserPage(pte) == IF "U" \in pte.flags THEN pte.pa ELSE 0
walkaddr(m, pagetable, vpn) ==
    IF vpn >= NVA THEN 0 ELSE UserPage(Entry(m, pagetable, vpn))

(* mappages of one page, once walk has found its table. *)
MapIn(w, vpn, pte) ==
    IF w.table = 0 THEN [m |-> w.m, ok |-> FALSE]
    ELSE IF In(w.m, w.table, vpn) # NoPTE THEN [m |-> Panic(w.m, "remap"), ok |-> FALSE]
    ELSE [m |-> [w.m EXCEPT !.mem[w.table][PX(0, vpn)] = pte], ok |-> TRUE]

mappages(m, pagetable, vpn, pa, perm) ==
    MapIn(walk(m, pagetable, vpn, TRUE), vpn, [pa |-> pa, flags |-> perm])

(* uvmunmap of one page, and of npages. *)
Unmap(m, pagetable, vpn, pte, do_free) ==
    IF pte = NoPTE THEN Panic(m, "uvmunmap")
    ELSE SetEntry(IF do_free THEN kfree(m, pte.pa) ELSE m, pagetable, vpn, NoPTE)

RECURSIVE uvmunmap(_, _, _, _, _)
uvmunmap(m, pagetable, vpn, npages, do_free) ==
    IF npages = 0 THEN m
    ELSE uvmunmap(Unmap(m, pagetable, vpn, Entry(m, pagetable, vpn), do_free),
                  pagetable, vpn + 1, npages - 1, do_free)

Cleared(k) == IF k.pa = 0 THEN k ELSE [k EXCEPT !.m.mem[k.pa] = NewTable]
uvmcreate(m) == Cleared(kalloc(m))

(* Sizes are in bytes; uvmdealloc's result is left to its callers. *)
uvmdealloc(m, pagetable, oldsz, newsz) ==
    IF newsz >= oldsz \/ RoundUp(newsz) >= RoundUp(oldsz) THEN m
    ELSE uvmunmap(m, pagetable, RoundUp(newsz), RoundUp(oldsz) - RoundUp(newsz), TRUE)

Undone(m, pagetable, vpn, oldvpn) == uvmdealloc(m, pagetable, vpn * PGSIZE, oldvpn * PGSIZE)

(* Variant: the page is not cleared. *)
Zeroed_not(m, pa) == m

(* memset(mem, 0, PGSIZE) *)
Zeroed(m, pa) == [m EXCEPT !.mem[pa] = Filled(0)]

(* uvmalloc from a page on; k is what kalloc gave, t what mappages did. *)
RECURSIVE AllocFrom(_, _, _, _, _, _)
AllocTo(t, pa, pagetable, vpn, oldvpn, newsz, perm) ==
    IF t.ok THEN AllocFrom(t.m, pagetable, vpn + 1, oldvpn, newsz, perm)
    ELSE [m |-> Undone(kfree(t.m, pa), pagetable, vpn, oldvpn), sz |-> 0]
AllocPage(k, pagetable, vpn, oldvpn, newsz, perm) ==
    IF k.pa = 0 THEN [m |-> Undone(k.m, pagetable, vpn, oldvpn), sz |-> 0]
    ELSE AllocTo(mappages(Zeroed(k.m, k.pa), pagetable, vpn, k.pa, perm),
                 k.pa, pagetable, vpn, oldvpn, newsz, perm)
AllocFrom(m, pagetable, vpn, oldvpn, newsz, perm) ==
    IF vpn * PGSIZE >= newsz THEN [m |-> m, sz |-> newsz]
    ELSE AllocPage(kalloc(m), pagetable, vpn, oldvpn, newsz, perm)

uvmalloc(m, pagetable, oldsz, newsz, xperm) ==
    IF newsz < oldsz THEN [m |-> m, sz |-> oldsz]
    ELSE AllocFrom(m, pagetable, RoundUp(oldsz), RoundUp(oldsz), newsz, {"R", "U"} \cup xperm)

(* freewalk: the entries from i on, then the table. *)
RECURSIVE FreeWalk(_, _, _)
Below(m, pte) ==
    IF pte = NoPTE THEN m
    ELSE IF "R" \in pte.flags THEN Panic(m, "freewalk")
    ELSE FreeWalk(m, pte.pa, 0)
FreeWalk(m, table, i) ==
    IF i = FANOUT THEN kfree(m, table)
    ELSE FreeWalk(Below(m, m.mem[table][i]), table, i + 1)

uvmfree(m, pagetable, sz) ==
    FreeWalk(uvmunmap(m, pagetable, 0, RoundUp(sz), TRUE), pagetable, 0)

(* Variant: every page is a copy of the first. *)
Source_first(vpn) == 0

Source(vpn) == vpn

(* uvmcopy from a page on: its entry pte, the copy in k, mapped in t. *)
RECURSIVE CopyFrom(_, _, _, _, _)
CopyTo(t, pa, old, new, vpn, sz) ==
    IF t.ok THEN CopyFrom(t.m, old, new, vpn + 1, sz)
    ELSE [m |-> uvmunmap(kfree(t.m, pa), new, 0, vpn, TRUE), ok |-> FALSE]
CopyPage(k, pte, old, new, vpn, sz) ==
    IF k.pa = 0 THEN [m |-> uvmunmap(k.m, new, 0, vpn, TRUE), ok |-> FALSE]
    ELSE CopyTo(mappages([k.m EXCEPT !.mem[k.pa] = k.m.mem[pte.pa]], new, vpn, k.pa, pte.flags),
                k.pa, old, new, vpn, sz)
CopyEntry(m, pte, old, new, vpn, sz) ==
    IF pte = NoPTE THEN [m |-> Panic(m, "uvmcopy"), ok |-> FALSE]
    ELSE CopyPage(kalloc(m), pte, old, new, vpn, sz)
CopyFrom(m, old, new, vpn, sz) ==
    IF vpn * PGSIZE >= sz THEN [m |-> m, ok |-> TRUE]
    ELSE CopyEntry(m, Entry(m, old, Source(vpn)), old, new, vpn, sz)

uvmcopy(m, old, new, sz) == CopyFrom(m, old, new, 0, sz)

ClearUser(m, pagetable, vpn, pte) ==
    SetEntry(m, pagetable, vpn, [pte EXCEPT !.flags = @ \ {"U"}])
uvmclear(m, pagetable, vpn) == ClearUser(m, pagetable, vpn, Entry(m, pagetable, vpn))

-----------------------------------------------------------------------------
(* Copies between kernel and user, a page at a time. *)

(* What is left of the page, or of the copy. *)
Room(va, len) == LET n == PGSIZE - (va % PGSIZE) IN IF n > len THEN len ELSE n

NextVA(va) == (va \div PGSIZE + 1) * PGSIZE

(* copyout into the page of pte, of the n bytes there is room for. *)
RECURSIVE copyout(_, _, _, _)
Stored(page, o, n, src) ==
    [i \in 0 .. PGSIZE - 1 |-> IF i \in o .. o + n - 1 THEN src[i - o + 1] ELSE page[i]]
CopyoutPage(m, pte, pagetable, dstva, src, n) ==
    IF ~({"U", "W"} \subseteq pte.flags) THEN [m |-> m, ok |-> FALSE]
    ELSE copyout([m EXCEPT !.mem[pte.pa] = Stored(@, dstva % PGSIZE, n, src)],
                 pagetable, NextVA(dstva), SubSeq(src, n + 1, Len(src)))
copyout(m, pagetable, dstva, src) ==
    IF src = <<>> THEN [m |-> m, ok |-> TRUE]
    ELSE IF dstva >= MAXVA THEN [m |-> m, ok |-> FALSE]
    ELSE CopyoutPage(m, Entry(m, pagetable, dstva \div PGSIZE), pagetable, dstva, src,
                     Room(dstva, Len(src)))

(* The n bytes of a page from an address on. *)
Bytes(m, pa, va, n) == [i \in 1 .. n |-> m.mem[pa][(va % PGSIZE) + i - 1]]

(* copyin: the bytes copied, with ok FALSE for -1. *)
RECURSIVE copyin(_, _, _, _)
CopyinPage(m, pa, pagetable, srcva, len, n) ==
    IF pa = 0 THEN [ok |-> FALSE, bytes |-> <<>>]
    ELSE [copyin(m, pagetable, NextVA(srcva), len - n) EXCEPT !.bytes = Bytes(m, pa, srcva, n) \o @]
copyin(m, pagetable, srcva, len) ==
    IF len = 0 THEN [ok |-> TRUE, bytes |-> <<>>]
    ELSE CopyinPage(m, walkaddr(m, pagetable, srcva \div PGSIZE), pagetable, srcva, len,
                    Room(srcva, len))

(* copyinstr: a string is cut after its first NUL. *)
RECURSIVE copyinstr(_, _, _, _)
UpToNul(bytes) ==
    SubSeq(bytes, 1, CHOOSE i \in DOMAIN bytes : bytes[i] = 0 /\ \A j \in 1 .. i - 1 : bytes[j] # 0)
CopyinstrPage(m, bytes, pagetable, srcva, max) ==
    IF \E i \in DOMAIN bytes : bytes[i] = 0 THEN [ok |-> TRUE, bytes |-> UpToNul(bytes)]
    ELSE [copyinstr(m, pagetable, NextVA(srcva), max - Len(bytes)) EXCEPT !.bytes = bytes \o @]
copyinstr(m, pagetable, srcva, max) ==
    IF max = 0 \/ walkaddr(m, pagetable, srcva \div PGSIZE) = 0
    THEN [ok |-> FALSE, bytes |-> <<>>]
    ELSE CopyinstrPage(m, Bytes(m, walkaddr(m, pagetable, srcva \div PGSIZE), srcva, Room(srcva, max)),
                       pagetable, srcva, max)

-----------------------------------------------------------------------------
(* proc_pagetable: the root, with the trampoline in t and the trapframe in *)
(* f mapped.                                                               *)
RootFrame(f, root) ==
    IF f.ok THEN [m |-> f.m, pa |-> root]
    ELSE [m |-> uvmfree(uvmunmap(f.m, root, TRAMPOLINE, 1, FALSE), root, 0), pa |-> 0]
RootTrampoline(t, root, tf) ==
    IF t.ok THEN RootFrame(mappages(t.m, root, TRAPFRAME, tf, {"R", "W"}), root)
    ELSE [m |-> uvmfree(t.m, root, 0), pa |-> 0]
Root(c, tf) ==
    IF c.pa = 0 THEN c
    ELSE RootTrampoline(mappages(c.m, c.pa, TRAMPOLINE, trampoline, {"R"}), c.pa, tf)
proc_pagetable(m, tf) == Root(uvmcreate(m), tf)

proc_freepagetable(m, pagetable, sz) ==
    uvmfree(uvmunmap(uvmunmap(m, pagetable, TRAMPOLINE, 1, FALSE), pagetable, TRAPFRAME, 1, FALSE),
            pagetable, sz)

FreeSpace(m, s) ==
    IF s.pagetable = 0 THEN m ELSE proc_freepagetable(m, s.pagetable, s.sz)

(* Variant: the trapframe is not freed. *)
freeproc_frame(m, s) == FreeSpace(m, s)

freeproc(m, s) == FreeSpace(kfree(m, s.trapframe), s)

(* allocproc: the memory and the new space, NoSpace if it fails. *)
SpaceWith(t, tf) ==
    IF t.pa = 0 THEN [m |-> freeproc(t.m, [NoSpace EXCEPT !.trapframe = tf]), space |-> NoSpace]
    ELSE [m |-> t.m, space |-> [pagetable |-> t.pa, trapframe |-> tf, sz |-> 0]]
WithFrame(k) ==
    IF k.pa = 0 THEN [m |-> k.m, space |-> NoSpace]
    ELSE SpaceWith(proc_pagetable(k.m, k.pa), k.pa)
allocproc(m) == WithFrame(kalloc(m))

(* userinit and uvmfirst, on the pages freerange has freed. *)
VmInit ==
    \E a \in {allocproc([mem |-> [pa \in Page |-> Filled(1)], free |-> Page, panic |-> {}])} :
    \E k \in {kalloc(a.m)} :
       /\ vm = mappages(Zeroed(k.m, k.pa), a.space.pagetable, 0, k.pa, {"R", "W", "U"}).m
       /\ space = [p \in VProc |-> IF p = first THEN [a.space EXCEPT !.sz = PGSIZE] ELSE NoSpace]
       /\ vmcalls = 0

Lives(p) == space[p] # NoSpace

vm_fork(p, q) ==
    /\ Lives(p) /\ ~Lives(q)
    /\ \E a \in {allocproc(vm)} :
       IF a.space = NoSpace THEN vm' = a.m /\ UNCHANGED space
       ELSE \E c \in {uvmcopy(a.m, space[p].pagetable, a.space.pagetable, space[p].sz)} :
            IF c.ok
            THEN vm' = c.m /\ space' = [space EXCEPT ![q] = [a.space EXCEPT !.sz = space[p].sz]]
            ELSE vm' = freeproc(c.m, a.space) /\ UNCHANGED space

(* sys_sbrk and growproc.  sz + n is unsigned: below 0 it is huge, and     *)
(* uvmdealloc does nothing.                                                *)
vm_sbrk(p, n) ==
    /\ Lives(p)
    /\ \E s \in {space[p]} :
       \/ /\ n > 0
          /\ \E a \in {uvmalloc(vm, s.pagetable, s.sz, s.sz + n, {"W"})} :
                /\ vm' = a.m
                /\ space' = IF a.sz = 0 THEN space ELSE [space EXCEPT ![p].sz = a.sz]
       \/ /\ n < 0 /\ s.sz + n >= 0
          /\ vm' = uvmdealloc(vm, s.pagetable, s.sz, s.sz + n)
          /\ space' = [space EXCEPT ![p].sz = s.sz + n]
       \/ n < 0 /\ s.sz + n < 0 /\ UNCHANGED <<vm, space>>

(* loadseg from byte i of the segment on, pa being its page: filesz bytes  *)
(* of the file, unless it is short.                                        *)
RECURSIVE LoadFrom(_, _, _, _)
LoadPage(m, pa, pagetable, ph, i, n) ==
    IF pa = 0 THEN [m |-> Panic(m, "loadseg"), ok |-> FALSE]
    ELSE IF ph.short /\ i + n = ph.filesz THEN [m |-> m, ok |-> FALSE]
    ELSE LoadFrom([m EXCEPT !.mem[pa] = Stored(@, 0, n, [j \in 1 .. n |-> ph.byte])],
                  pagetable, ph, i + n)
LoadFrom(m, pagetable, ph, i) ==
    IF i >= ph.filesz THEN [m |-> m, ok |-> TRUE]
    ELSE LoadPage(m, walkaddr(m, pagetable, (ph.vaddr + i) \div PGSIZE), pagetable, ph, i,
                  Room(i, ph.filesz - i))

(* The loop of exec over the program headers, from number i; a is what     *)
(* uvmalloc gave.                                                          *)
Valid(ph) == ph.memsz >= ph.filesz /\ ph.vaddr % PGSIZE = 0

RECURSIVE Segments(_, _, _, _, _)

SegmentsNext(l, pagetable, image, i, sz) ==
    IF l.ok THEN Segments(l.m, pagetable, image, i + 1, sz)
    ELSE [m |-> l.m, sz |-> sz, ok |-> FALSE]

SegmentLoad(a, pagetable, image, i, sz) ==
    IF a.sz = 0 THEN [m |-> a.m, sz |-> sz, ok |-> FALSE]
    ELSE SegmentsNext(LoadFrom(a.m, pagetable, image[i], 0), pagetable, image, i, a.sz)
Segments(m, pagetable, image, i, sz) ==
    IF i > Len(image) THEN [m |-> m, sz |-> sz, ok |-> TRUE]
    ELSE IF ~Valid(image[i]) THEN [m |-> m, sz |-> sz, ok |-> FALSE]
    ELSE SegmentLoad(uvmalloc(m, pagetable, sz, image[i].vaddr + image[i].memsz, image[i].flags),
                     pagetable, image, i, sz)

(* The stack of exec, above base: a guard page, then the arguments, which  *)
(* take args bytes.                                                        *)
Pushed(a, pagetable, base, args) ==
    IF a.sz = 0 THEN [m |-> a.m, sz |-> base, ok |-> FALSE]
    ELSE IF args > USERSTACK * PGSIZE
    THEN [m |-> uvmclear(a.m, pagetable, base \div PGSIZE), sz |-> a.sz, ok |-> FALSE]
    ELSE [m |-> copyout(uvmclear(a.m, pagetable, base \div PGSIZE), pagetable, a.sz - args,
                        [i \in 1 .. args |-> 3]).m, sz |-> a.sz, ok |-> TRUE]
Stack(g, pagetable, base, args) ==
    IF ~g.ok THEN g
    ELSE Pushed(uvmalloc(g.m, pagetable, base, base + (USERSTACK + 1) * PGSIZE, {"W"}),
                pagetable, base, args)

(* exec: the new image is complete in g, or its page table is freed. *)
vm_exec(p, image, args) ==
    /\ Lives(p)
    /\ \E t \in {proc_pagetable(vm, space[p].trapframe)} :
       IF t.pa = 0 THEN vm' = t.m /\ UNCHANGED space
       ELSE \E s \in {Segments(t.m, t.pa, image, 1, 0)} :
            \E g \in {Stack(s, t.pa, RoundUp(s.sz) * PGSIZE, args)} :
            IF g.ok
            THEN /\ vm' = proc_freepagetable(g.m, space[p].pagetable, space[p].sz)
                 /\ space' = [space EXCEPT ![p].pagetable = t.pa, ![p].sz = g.sz]
            ELSE vm' = proc_freepagetable(g.m, t.pa, g.sz) /\ UNCHANGED space

(* exit, and the wait that frees the slot; the first process never exits. *)
vm_exit(p) ==
    /\ Lives(p) /\ p # first
    /\ vm' = freeproc(vm, space[p])
    /\ space' = [space EXCEPT ![p] = NoSpace]

(* A store of the program itself, or a copyout into it. *)
vm_store(p, va) ==
    /\ Lives(p)
    /\ \E c \in {copyout(vm, space[p].pagetable, va, <<9>>)} : c.ok /\ vm' = c.m
    /\ UNCHANGED space

VmNext ==
    /\ vmcalls < MaxVmCalls /\ vmcalls' = vmcalls + 1
    /\ \E p \in VProc :
       \/ \E q \in VProc : vm_fork(p, q)
       \/ \E n \in Growths : vm_sbrk(p, n)
       \/ \E image \in Images, args \in {1, USERSTACK * PGSIZE + 1} : vm_exec(p, image, args)
       \/ vm_exit(p)
       \/ \E va \in Stores : vm_store(p, va)

VmSpec == VmInit /\ [][VmNext]_vmvars

-----------------------------------------------------------------------------
(* kalloc.c, vm.c, exec.c: none of the panics is reached: no page is freed *)
(* twice, mapped over, or missing when it is unmapped or copied, and no    *)
(* user page is left when a page table is freed, also on the error paths.  *)
VmNeverPanics == vm.panic = {}

(* The entries in use of the tables of a page table: (table, index). *)
RECURSIVE Entries(_, _)
Entries(table, level) ==
    LET used == {i \in 0 .. FANOUT - 1 : vm.mem[table][i] # NoPTE}
    IN  {<<table, i>> : i \in used} \cup
        IF level = 0 THEN {} ELSE UNION {Entries(vm.mem[table][i].pa, level - 1) : i \in used}

(* kalloc.c: every page is free or has exactly one owner: it is one        *)
(* process's page table, a lower table of it, or a page it maps.  No page  *)
(* is leaked by a call that fails, and none is shared.                     *)
PagesAreConserved ==
    LET live == {p \in VProc : Lives(p)}
        E == UNION {Entries(space[p].pagetable, LEVELS - 1) : p \in live}
        owned == {e \in E : vm.mem[e[1]][e[2]].pa # trampoline}
    IN  /\ {space[p].pagetable : p \in live} \cup {vm.mem[e[1]][e[2]].pa : e \in owned}
               = Page \ vm.free
        /\ Cardinality(live) + Cardinality(owned) = Cardinality(Page \ vm.free)

(* proc.h, sz: a process maps the pages below sz, the trapframe and the    *)
(* trampoline, and nothing else.                                           *)
SizeIsMapped ==
    \A p \in VProc : Lives(p) =>
       {vpn \in 0 .. NVA - 1 : Entry(vm, space[p].pagetable, vpn) # NoPTE}
           = (0 .. RoundUp(space[p].sz) - 1) \cup {TRAPFRAME, TRAMPOLINE}

(* The bytes a process can read; -1 where it cannot. *)
Image(p) ==
    [va \in 0 .. MAXVA - 1 |->
        LET pa == IF Lives(p) THEN walkaddr(vm, space[p].pagetable, va \div PGSIZE) ELSE 0
        IN  IF pa = 0 THEN -1 ELSE vm.mem[pa][va % PGSIZE]]

(* vm.c, uvmalloc and uvmcopy: a process never reads what kalloc and kfree *)
(* fill pages with, so neither a page it was given uncleared nor one that  *)
(* was freed under it.                                                     *)
NoJunkIsVisible ==
    \A p \in {x \in VProc : Lives(x)} :
       \A va \in 0 .. MAXVA - 1 : Image(p)[va] \notin {1, 5}

(* proc.c, fork; exec.c: a step changes the memory of one process only,    *)
(* and one that makes a process makes it a copy of another.                *)
Isolation ==
    [][/\ \E p \in VProc : \A q \in VProc \ {p} :
             Lives(q) \/ Lives(q)' => Image(q)' = Image(q)
       /\ \A q \in VProc : (~Lives(q) /\ Lives(q)') =>
             \E p \in VProc \ {q} : Image(q)' = Image(p)]_vmvars

(* vm.c, copyin, copyinstr, copyout, over page boundaries: a copy is of    *)
(* exactly the bytes asked for if the process may access all of them, and  *)
(* otherwise fails; a string ends at its first NUL, which must be among    *)
(* the first max bytes.                                                    *)
UserCopiesAreExact ==
    \A p \in {x \in VProc : Lives(x)} :
       LET image == Image(p)
           at(va) == IF va < MAXVA THEN image[va] ELSE -1
           pt == space[p].pagetable
       IN  \A va \in 0 .. space[p].sz + PGSIZE, len \in 0 .. PGSIZE + 1 :
             LET bytes == [i \in 1 .. len |-> at(va + i - 1)]
                 ok == \A i \in 1 .. len : bytes[i] # -1
                 ends == {n \in 1 .. len : bytes[n] = 0 /\ \A i \in 1 .. n - 1 : bytes[i] \notin {0, -1}}
                 out == copyout(vm, pt, va, [i \in 1 .. len |-> 4])
                 str == copyinstr(vm, pt, va, len)
             IN  /\ LET in == copyin(vm, pt, va, len)
                    IN  in.ok = ok /\ (ok => in.bytes = bytes)
                 /\ str.ok = (ends # {})
                 /\ \A n \in ends : str.bytes = SubSeq(bytes, 1, n)
                 /\ out.ok => ok /\ copyin(out.m, pt, va, len).bytes = [i \in 1 .. len |-> 4]

(* kalloc.c, vm.c, exec.c and proc.c: no call panics, each page has one    *)
(* owner or is on the free list, whichever allocation fails, and p->sz is  *)
(* what is mapped.                                                         *)
MemoryIsConserved == VmNeverPanics /\ PagesAreConserved /\ SizeIsMapped

(* vm.c: a process never sees what an earlier owner of a page left there,  *)
(* and copyin, copyout and copyinstr move exactly the bytes asked for      *)
(* across page boundaries or report an error.                              *)
UserMemoryIsExact == NoJunkIsVisible /\ UserCopiesAreExact
=============================================================================
