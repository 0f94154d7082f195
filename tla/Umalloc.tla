------------------------------- MODULE Umalloc ------------------------------
(***************************************************************************)
(* The allocator of user programs, user/umalloc.c: a circular list of free *)
(* blocks in the order of their addresses.  Memory is counted in units of  *)
(* a Header; address 0 is base, the heap follows it.                       *)
(***************************************************************************)
EXTENDS Integers, FiniteSets

CONSTANTS HEAP,         \* bound: units the process can get
          CORE,         \* 4096: units morecore asks for at least
          Requests      \* sizes asked for, in units

ASSUME UmallocAssumption == HEAP \in Nat /\ CORE \in Nat \ {0} /\ Requests \subseteq Nat

VARIABLES
    hdr,         \* address -> ptr and size of a Header
    freep,       \* -1 before the first call
    brk,         \* the end of the process's memory
    inuse,       \* blocks (addresses of headers) the program holds
    core         \* history: units that morecore has got

umvars == <<hdr, freep, brk, inuse, core>>

(* An address that is not that of a block; what is left there is not read. *)
NoHdr == [ptr |-> 0, size |-> 0]

UmallocInit ==
    /\ hdr = [a \in 0 .. HEAP |-> NoHdr]
    /\ freep = -1
    /\ brk = 1
    /\ inuse = {} /\ core = {}

(* The loop of free stops at p. *)
Here(h, p, bp) ==
    \/ bp > p /\ bp < h[p].ptr
    \/ p >= h[p].ptr /\ (bp > p \/ bp < h[p].ptr)

RECURSIVE Place(_, _, _)
Place(h, p, bp) == IF Here(h, p, bp) THEN p ELSE Place(h, h[p].ptr, bp)

(* bp and q, the free block after it; p, the one before it, and bp. *)
JoinUp(h, bp, q) ==
    IF bp + h[bp].size = q
    THEN [h EXCEPT ![bp] = [ptr |-> h[q].ptr, size |-> @.size + h[q].size], ![q] = NoHdr]
    ELSE [h EXCEPT ![bp].ptr = q]

JoinDown(h, p, bp) ==
    IF p + h[p].size = bp
    THEN [h EXCEPT ![p] = [ptr |-> h[bp].ptr, size |-> @.size + h[bp].size], ![bp] = NoHdr]
    ELSE [h EXCEPT ![p].ptr = bp]

FreeAt(h, p, bp) == [hdr |-> JoinDown(JoinUp(h, bp, h[p].ptr), p, bp), freep |-> p]
Free(h, fp, bp) == FreeAt(h, Place(h, fp, bp), bp)

free(bp) ==
    /\ bp \in inuse
    /\ \E r \in {Free(hdr, freep, bp)} : hdr' = r.hdr /\ freep' = r.freep
    /\ inuse' = inuse \ {bp}
    /\ UNCHANGED <<brk, core>>

(* Variant: the block keeps its size. *)
Carve_size(h, prev, p, n) ==
    [hdr |-> [h EXCEPT ![p + h[p].size - n].size = n], at |-> p + h[p].size - n]

(* The block p is taken from the list, or n units from its end. *)
Carve(h, prev, p, n) ==
    IF h[p].size = n THEN [hdr |-> [h EXCEPT ![prev].ptr = h[p].ptr, ![p].ptr = 0], at |-> p]
    ELSE LET at == p + h[p].size - n
         IN  [hdr |-> [h EXCEPT ![p].size = @ - n, ![at].size = n], at |-> at]

(* The loop of malloc over the list: the block before one that is large    *)
(* enough; -1 if it gets back to fp.                                       *)
RECURSIVE Find(_, _, _, _)
Find(h, fp, prev, n) ==
    IF h[h[prev].ptr].size >= n THEN prev
    ELSE IF h[prev].ptr = fp THEN -1
    ELSE Find(h, fp, h[prev].ptr, n)

(* morecore: the block is freed into the list. *)
Units(n) == IF n < CORE THEN CORE ELSE n
More(h, fp, n) == Free([h EXCEPT ![brk].size = Units(n)], fp, brk)

(* malloc: the list is base alone before the first call.  After morecore   *)
(* the search goes on from freep.                                          *)
malloc(n) ==
    \E fp \in {IF freep = -1 THEN 0 ELSE freep} :
    \E prev \in {Find(hdr, fp, fp, n)} :
       \/ /\ prev # -1
          /\ \E c \in {Carve(hdr, prev, hdr[prev].ptr, n)} :
                hdr' = c.hdr /\ inuse' = inuse \cup {c.at}
          /\ freep' = prev
          /\ UNCHANGED <<brk, core>>
       \/ /\ prev = -1 /\ brk + Units(n) <= HEAP + 1
          /\ \E m \in {More(hdr, fp, n)} : \E q \in {Find(m.hdr, m.freep, m.freep, n)} :
             \E c \in {Carve(m.hdr, q, m.hdr[q].ptr, n)} :
                hdr' = c.hdr /\ inuse' = inuse \cup {c.at} /\ freep' = q
          /\ brk' = brk + Units(n)
          /\ core' = core \cup (brk .. brk + Units(n) - 1)
       \/ /\ prev = -1 /\ brk + Units(n) > HEAP + 1
          /\ freep' = fp
          /\ UNCHANGED <<hdr, brk, inuse, core>>

(* The program's own sbrk: the next memory morecore gets is not adjacent. *)
sbrk == brk < HEAP /\ brk' = brk + 1 /\ UNCHANGED <<hdr, freep, inuse, core>>

UmallocNext == (\E n \in Requests : malloc(n)) \/ (\E bp \in inuse : free(bp)) \/ sbrk

UmallocSpec == UmallocInit /\ [][UmallocNext]_umvars

-----------------------------------------------------------------------------
(* The blocks of the free list. *)
RECURSIVE ListFrom(_, _)
ListFrom(a, seen) == IF a \in seen THEN seen ELSE ListFrom(hdr[a].ptr, seen \cup {a})
FreeList == ListFrom(0, {}) \ {0}
Extent(a) == a .. a + hdr[a].size - 1

(* umalloc.c: the memory it has got is divided exactly into the blocks in  *)
(* use and the free ones: no two overlap, so nothing is handed out twice,  *)
(* and none is lost.                                                       *)
HeapIsPartitioned ==
    /\ core = UNION {Extent(a) : a \in inuse \cup FreeList}
    /\ \A a, b \in inuse \cup FreeList : a # b => Extent(a) \cap Extent(b) = {}

(* umalloc.c: the list is circular in the order of addresses, freep is on  *)
(* it, and neighbours are joined, so memory that is free again can serve   *)
(* as large a request as before.                                           *)
FreeListInOrder ==
    /\ freep # -1 => freep \in FreeList \cup {0}
    /\ \A a \in FreeList \cup {0} :
          LET above == {b \in FreeList : b > a}
          IN  hdr[a].ptr = IF above = {} THEN 0 ELSE CHOOSE b \in above : \A c \in above : b <= c
    /\ \A a, b \in FreeList : a + hdr[a].size # b

(* umalloc.c: after every malloc and free the heap is partitioned into the *)
(* blocks handed out and those of an ordered, joined free list.            *)
HeapIsSound == HeapIsPartitioned /\ FreeListInOrder
=============================================================================
