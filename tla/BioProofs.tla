----------------------------- MODULE BioProofs ------------------------------
(***************************************************************************)
(* Proofs about Bio for any number of processes, buffers, blocks and       *)
(* values: the invariants that TLC checks on a small instance follow from  *)
(* the inductive invariant IInv.                                           *)
(***************************************************************************)
EXTENDS Bio, TLAPS, FiniteSetTheorems

Holding == {"bread", "using", "dirty"}

(* Where a process is tells what it has. *)
UseInv ==
    /\ \A p \in Proc : /\ pc[p] = "idle" <=> buf[p] = Nobody
                       /\ pc[p] = "idle" <=> want[p] = Nobody
    /\ \A b \in Buf : locked[b] # Nobody =>
           pc[locked[b]] \in Holding /\ buf[locked[b]] = b
    /\ \A p \in asleep : pc[p] = "acquiresleep"

Users(b) == {p \in Proc : buf[p] = b}

(* Where the current value of a block is: in the buffer that holds the     *)
(* block, if there is one, and on disk unless that buffer is pinned or its *)
(* lock holder is about to write it.                                       *)
UsersHaveRead == \A p \in Proc : pc[p] \in {"using", "dirty"} => valid[buf[p]]

BufferIsCurrent ==
    \A b \in Buf : valid[b] => blockno[b] # Nobody /\ data[b] = current[blockno[b]]

DiskIsCurrent ==
    \A k \in Block : (\A b \in Buf : blockno[b] = k => ~valid[b]) => disk[k] = current[k]

Dirty(b) == \E p \in Proc : pc[p] = "dirty" /\ buf[p] = b

CleanIsOnDisk ==
    \A b \in Buf : valid[b] /\ b \notin pinned /\ ~Dirty(b) => disk[blockno[b]] = data[b]

DataInv == /\ UsersHaveRead /\ BufferIsCurrent /\ DiskIsCurrent /\ CleanIsOnDisk
           /\ \A b \in pinned : valid[b]

IInv == /\ TypeOK /\ OneBufferPerBlock /\ KeepsItsBlock /\ UseInv
        /\ RefcntIsExact /\ NoLostWakeup /\ DataInv

-----------------------------------------------------------------------------
(* The number of buffers, and of users of a buffer, is a natural number. *)
LEMMA Counts ==
    /\ NBUF \in Nat
    /\ \A b : IsFiniteSet(Users(b)) /\ Cardinality(Users(b)) \in Nat
  <1>1. NBUF \in Nat
    BY BioAssumption, FS_CardinalityType, Zenon DEF NBUF
  <1>2. ASSUME NEW b PROVE IsFiniteSet(Users(b)) /\ Cardinality(Users(b)) \in Nat
    BY BioAssumption, FS_Subset, FS_CardinalityType, Zenon DEF Users
  <1>. QED  BY <1>1, <1>2, Zenon

(* A buffer without references has no user and is not pinned, which is     *)
(* what lets bget recycle it.                                              *)
LEMMA UnusedHasNoUser ==
    ASSUME TypeOK, RefcntIsExact, NEW b \in Buf, Unused(b)
    PROVE  b \notin pinned /\ \A p \in Proc : buf[p] # b
  <1>1. refcnt[b] = Cardinality(Users(b)) + (IF b \in pinned THEN 1 ELSE 0)
    BY Zenon DEF RefcntIsExact, Users
  <1>2. Cardinality(Users(b)) = 0 /\ b \notin pinned
    BY <1>1, Counts DEF Unused
  <1>3. Users(b) = {}
    BY <1>2, Counts, FS_EmptySet, Zenon
  <1>. QED  BY <1>2, <1>3, Zenon DEF Users

(* A process that gets buffer c adds itself to its users. *)
LEMMA OneMoreUser ==
    ASSUME TypeOK, RefcntIsExact, NEW p \in Proc, NEW c \in Buf, buf[p] = Nobody,
           buf' = [buf EXCEPT ![p] = c], refcnt' = [refcnt EXCEPT ![c] = @ + 1],
           pinned' = pinned
    PROVE  RefcntIsExact'
  <1> SUFFICES ASSUME NEW b \in Buf
               PROVE  refcnt'[b] = Cardinality(Users(b)') + (IF b \in pinned THEN 1 ELSE 0)
    BY Zenon DEF RefcntIsExact, Users
  <1>1. refcnt[b] = Cardinality(Users(b)) + (IF b \in pinned THEN 1 ELSE 0)
    BY Zenon DEF RefcntIsExact, Users
  <1>2. CASE b = c
    <2>1. Users(b)' = Users(b) \cup {p} /\ p \notin Users(b)
      BY <1>2, BioAssumption DEF Users, TypeOK
    <2>2. Cardinality(Users(b)') = Cardinality(Users(b)) + 1
      BY <2>1, Counts, FS_AddElement, Zenon
    <2>. QED  BY <1>1, <1>2, <2>2, Counts DEF TypeOK
  <1>3. CASE b # c
    <2>1. Users(b)' = Users(b)
      BY <1>3, BioAssumption, Zenon DEF Users, TypeOK
    <2>. QED  BY <1>1, <1>3, <2>1, Zenon DEF TypeOK
  <1>. QED  BY <1>2, <1>3, Zenon

(* A process that gives its buffer back leaves its users. *)
LEMMA OneUserLess ==
    ASSUME TypeOK, RefcntIsExact, NEW p \in Proc, NEW c \in Buf, buf[p] = c,
           buf' = [buf EXCEPT ![p] = Nobody], refcnt' = [refcnt EXCEPT ![c] = @ - 1],
           pinned' = pinned
    PROVE  RefcntIsExact' /\ refcnt[c] - 1 \in Nat
  <1>1. ASSUME NEW b \in Buf
        PROVE  refcnt[b] = Cardinality(Users(b)) + (IF b \in pinned THEN 1 ELSE 0)
    BY Zenon DEF RefcntIsExact, Users
  <1>2. Users(c)' = Users(c) \ {p} /\ p \in Users(c)
    BY BioAssumption, Zenon DEF Users, TypeOK
  <1>3. Cardinality(Users(c)') = Cardinality(Users(c)) - 1
    <2>1. IsFiniteSet(Users(c))
      BY Counts, Zenon
    <2>2. Cardinality(Users(c) \ {p}) = Cardinality(Users(c)) - 1
      BY <1>2, <2>1, FS_RemoveElement, Zenon
    <2>. QED  BY <1>2, <2>2, Zenon
  <1>4. Cardinality(Users(c)) # 0
    BY <1>2, Counts, FS_EmptySet, Zenon
  <1>5. refcnt[c] - 1 \in Nat
    <2>1. Cardinality(Users(c)) \in Nat /\ Cardinality(Users(c)) > 0
      BY <1>4, Counts
    <2>2. CASE c \in pinned
      BY <1>1, <2>1, <2>2
    <2>3. CASE c \notin pinned
      BY <1>1, <2>1, <2>3
    <2>. QED  BY <2>2, <2>3, Zenon
  <1>6. ASSUME NEW b \in Buf
        PROVE  refcnt'[b] = Cardinality(Users(b)') + (IF b \in pinned THEN 1 ELSE 0)
    <2>1. CASE b = c
      BY <1>1, <1>3, <2>1, Counts DEF TypeOK
    <2>2. CASE b # c
      <3>1. Users(b)' = Users(b)
        BY <2>2, BioAssumption, Zenon DEF Users, TypeOK
      <3>. QED  BY <1>1, <2>2, <3>1, Zenon DEF TypeOK
    <2>. QED  BY <2>1, <2>2, Zenon
  <1>. QED  BY <1>5, <1>6, Zenon DEF RefcntIsExact, Users

-----------------------------------------------------------------------------
(* The invariant holds initially. *)
LEMMA InitIInv == Init => IInv
  <1> SUFFICES ASSUME Init PROVE IInv
    BY Zenon
  <1>1. TypeOK
    BY Counts, Zenon DEF Init, TypeOK, PC
  <1>2. RefcntIsExact
    <2>1. ASSUME NEW b \in Buf PROVE Users(b) = {}
      BY BioAssumption, Zenon DEF Init, Users
    <2>2. ASSUME NEW b \in Buf
          PROVE  refcnt[b] = Cardinality(Users(b)) + (IF b \in pinned THEN 1 ELSE 0)
      BY <2>1, FS_EmptySet DEF Init
    <2>. QED  BY <2>2, Zenon DEF RefcntIsExact, Users
  <1>3. OneBufferPerBlock /\ KeepsItsBlock /\ UseInv /\ NoLostWakeup
    BY BioAssumption, Zenon DEF Init, OneBufferPerBlock, KeepsItsBlock, UseInv,
       NoLostWakeup
  <1>4. DataInv
    BY Zenon DEF Init, DataInv, UsersHaveRead, BufferIsCurrent, DiskIsCurrent,
       CleanIsOnDisk
  <1>. QED  BY <1>1, <1>2, <1>3, <1>4, Zenon DEF IInv

(* bget finds the block in the cache. *)
LEMMA HitIInv ==
    ASSUME IInv, NEW p \in Proc, NEW k \in Block, bget_hit(p, k)
    PROVE  IInv'
  <1> PICK c \in Cached(k) : /\ refcnt' = [refcnt EXCEPT ![c] = @ + 1]
                             /\ buf' = [buf EXCEPT ![p] = c]
    BY Zenon DEF bget_hit
  <1>c. c \in Buf /\ blockno[c] = k /\ c # Nobody /\ k # Nobody /\ buf[p] = Nobody
    BY BioAssumption, Zenon DEF IInv, UseInv, bget_hit, Cached
  <1>1. TypeOK'
    BY <1>c DEF IInv, TypeOK, PC, bget_hit, Goto
  <1>2. OneBufferPerBlock'
    BY <1>c, Zenon DEF IInv, TypeOK, OneBufferPerBlock, bget_hit, Goto
  <1>3. KeepsItsBlock'
    BY <1>c DEF IInv, TypeOK, KeepsItsBlock, UseInv, Holding, bget_hit, Goto
  <1>4. UseInv'
    BY <1>c DEF IInv, TypeOK, KeepsItsBlock, UseInv, Holding, NoLostWakeup,
       bget_hit, Goto
  <1>5. RefcntIsExact'
    BY <1>c, OneMoreUser, ZenonT(30) DEF IInv, bget_hit
  <1>6. NoLostWakeup'
    BY <1>c, Zenon DEF IInv, TypeOK, KeepsItsBlock, UseInv, NoLostWakeup, bget_hit, Goto
  <1>7. DataInv'
    <2>1. UsersHaveRead'
      BY <1>c DEF IInv, DataInv, TypeOK, KeepsItsBlock, UseInv, Holding,
         UsersHaveRead, bget_hit, Goto
    <2>2. BufferIsCurrent'
      BY <1>c, Zenon DEF IInv, DataInv, TypeOK, KeepsItsBlock, UseInv, Holding,
         BufferIsCurrent, OneBufferPerBlock, DiskIsCurrent, bget_hit, Goto
    <2>3. DiskIsCurrent'
      BY <1>c, Zenon DEF IInv, DataInv, TypeOK, KeepsItsBlock, UseInv, Holding,
         DiskIsCurrent, OneBufferPerBlock, BufferIsCurrent, CleanIsOnDisk,
         UsersHaveRead, Dirty, bget_hit, Goto
    <2>4. CleanIsOnDisk'
      BY <1>c, Zenon DEF IInv, DataInv, TypeOK, KeepsItsBlock, UseInv, Holding,
         CleanIsOnDisk, Dirty, BufferIsCurrent, DiskIsCurrent, OneBufferPerBlock,
         UsersHaveRead, bget_hit, Goto
    <2>5. (\A b \in pinned : valid[b])'
      BY <1>c, Zenon DEF IInv, DataInv, TypeOK, KeepsItsBlock, UseInv, Holding,
         UsersHaveRead, bget_hit, Goto
    <2>. QED  BY <2>1, <2>2, <2>3, <2>4, <2>5, Zenon DEF DataInv
  <1>. QED  BY <1>1, <1>2, <1>3, <1>4, <1>5, <1>6, <1>7, Zenon DEF IInv

(* bget recycles a buffer. *)
LEMMA RecycleIInv ==
    ASSUME IInv, NEW p \in Proc, NEW k \in Block, bget_recycle(p, k)
    PROVE  IInv'
  <1> PICK j \in 1 .. NBUF :
            /\ Unused(list[j])
            /\ blockno' = [blockno EXCEPT ![list[j]] = k]
            /\ valid' = Stale(list[j])
            /\ refcnt' = [refcnt EXCEPT ![list[j]] = 1]
            /\ buf' = [buf EXCEPT ![p] = list[j]]
    BY Zenon DEF bget_recycle
  <1> DEFINE c == list[j]
  <1>c. c \in Buf /\ c # Nobody /\ k # Nobody /\ buf[p] = Nobody
    <2>1. c \in Buf
      BY Zenon DEF IInv, TypeOK
    <2>2. buf[p] = Nobody
      BY Zenon DEF IInv, UseInv, bget_recycle
    <2>. QED  BY <2>1, <2>2, BioAssumption, Zenon
  <1>d. c \notin pinned /\ \A q \in Proc : buf[q] # c
    BY <1>c, UnusedHasNoUser, Zenon DEF IInv
  <1>e. /\ blockno' = [blockno EXCEPT ![c] = k]
        /\ valid' = [valid EXCEPT ![c] = FALSE]
        /\ refcnt' = [refcnt EXCEPT ![c] = @ + 1]
        /\ refcnt[c] = 0
        /\ buf' = [buf EXCEPT ![p] = c]
    BY <1>c DEF IInv, TypeOK, Unused, Stale
  <1>f. \A b \in Buf : blockno[b] # k
    BY Zenon DEF bget_recycle, Cached
  <1> HIDE DEF c
  <1>1. TypeOK'
    BY <1>c, <1>e DEF IInv, TypeOK, PC, bget_recycle, Goto
  <1>2. OneBufferPerBlock'
    BY <1>c, <1>d, <1>e, <1>f DEF IInv, TypeOK, OneBufferPerBlock, bget_recycle, Goto
  <1>3. KeepsItsBlock'
    BY <1>c, <1>d, <1>e, <1>f DEF IInv, TypeOK, KeepsItsBlock, UseInv, Holding,
       bget_recycle, Goto
  <1>4. UseInv'
    BY <1>c, <1>d, <1>e, <1>f DEF IInv, TypeOK, KeepsItsBlock, UseInv, Holding,
       NoLostWakeup, bget_recycle, Goto
  <1>5. RefcntIsExact'
    BY <1>c, <1>e, OneMoreUser, ZenonT(30) DEF IInv, bget_recycle
  <1>6. NoLostWakeup'
    BY <1>c, <1>d, <1>e, <1>f DEF IInv, TypeOK, KeepsItsBlock, UseInv, NoLostWakeup,
       bget_recycle, Goto
  <1>7. DataInv'
    <2>1. UsersHaveRead'
      BY <1>c, <1>d, <1>e, <1>f DEF IInv, DataInv, TypeOK, KeepsItsBlock, UseInv,
         Holding, UsersHaveRead, bget_recycle, Goto
    <2>2. BufferIsCurrent'
      BY <1>c, <1>d, <1>e, <1>f DEF IInv, DataInv, TypeOK, KeepsItsBlock, UseInv,
         Holding, BufferIsCurrent, OneBufferPerBlock, DiskIsCurrent, bget_recycle,
         Goto
    <2>3. DiskIsCurrent'
      <3> SUFFICES ASSUME NEW h \in Block, \A b \in Buf : blockno'[b] = h => ~valid'[b]
                   PROVE  disk[h] = current[h]
        BY Zenon DEF DiskIsCurrent, bget_recycle
      <3>1. ASSUME NEW b \in Buf, b # c, blockno[b] = h PROVE ~valid[b]
        BY <1>e, <3>1, Zenon DEF IInv, TypeOK
      <3>2. CASE blockno[c] = h /\ valid[c]
        BY <1>c, <1>d, <3>2, Zenon DEF IInv, DataInv, BufferIsCurrent,
           CleanIsOnDisk, Dirty
      <3>3. CASE ~(blockno[c] = h /\ valid[c])
        BY <3>1, <3>3, Zenon DEF IInv, DataInv, DiskIsCurrent
      <3>. QED  BY <3>2, <3>3, ZenonT(30)
    <2>4. CleanIsOnDisk'
      BY <1>c, <1>d, <1>e, <1>f, SMTT(30) DEF IInv, DataInv, TypeOK, KeepsItsBlock,
         UseInv, Holding, CleanIsOnDisk, Dirty, BufferIsCurrent, DiskIsCurrent,
         OneBufferPerBlock, UsersHaveRead, bget_recycle, Goto
    <2>5. (\A b \in pinned : valid[b])'
      BY <1>c, <1>d, <1>e, <1>f DEF IInv, DataInv, TypeOK, KeepsItsBlock, UseInv,
         Holding, UsersHaveRead, bget_recycle, Goto
    <2>. QED  BY <2>1, <2>2, <2>3, <2>4, <2>5, Zenon DEF DataInv
  <1>. QED  BY <1>1, <1>2, <1>3, <1>4, <1>5, <1>6, <1>7, Zenon DEF IInv

(* acquiresleep takes the lock or sleeps. *)
LEMMA AcquiresleepIInv ==
    ASSUME IInv, NEW p \in Proc, acquiresleep(p)
    PROVE  IInv'
  <1>b. buf[p] \in Buf /\ buf[p] # Nobody /\ p # Nobody
    BY BioAssumption, Zenon DEF IInv, TypeOK, KeepsItsBlock, PC, acquiresleep
  <1>1. TypeOK' /\ OneBufferPerBlock' /\ RefcntIsExact'
    <2>1. TypeOK'
      BY <1>b, ZenonT(30) DEF IInv, TypeOK, PC, acquiresleep, Goto, bufvars
    <2>2. OneBufferPerBlock'
      BY Zenon DEF IInv, OneBufferPerBlock, acquiresleep, bufvars
    <2>3. RefcntIsExact'
      BY Zenon DEF IInv, RefcntIsExact, acquiresleep, bufvars
    <2>. QED  BY <2>1, <2>2, <2>3, Zenon
  <1>2. DataInv'
    BY <1>b DEF IInv, TypeOK, PC, DataInv, UsersHaveRead, BufferIsCurrent,
       DiskIsCurrent, CleanIsOnDisk, Dirty, acquiresleep, Goto, bufvars
  <1>3. NoLostWakeup'
    <2> SUFFICES ASSUME NEW q \in asleep' PROVE locked'[buf[q]] # Nobody
      BY Zenon DEF NoLostWakeup, acquiresleep
    <2>1. CASE locked[buf[p]] = Nobody
      <3>1. /\ q \in asleep /\ locked[buf[q]] # Nobody
            /\ locked' = [locked EXCEPT ![buf[p]] = p]
        BY <2>1, Zenon DEF IInv, NoLostWakeup, acquiresleep
      <3>2. buf[q] \in Buf
        BY <3>1 DEF IInv, TypeOK, UseInv
      <3>. QED  BY <1>b, <2>1, <3>1, <3>2, Zenon DEF IInv, TypeOK
    <2>2. CASE locked[buf[p]] # Nobody
      BY <2>2, Zenon DEF IInv, NoLostWakeup, acquiresleep
    <2>. QED  BY <2>1, <2>2, Zenon
  <1>4. KeepsItsBlock' /\ UseInv'
    <2>1. CASE locked[buf[p]] = Nobody
      <3>1. /\ locked' = [locked EXCEPT ![buf[p]] = p]
            /\ pc' = [pc EXCEPT ![p] = "bread"] /\ pc[p] = "acquiresleep" /\ p \notin asleep
            /\ UNCHANGED <<blockno, asleep, buf, want>>
        BY <2>1, Zenon DEF acquiresleep, Goto, bufvars
      <3>2. KeepsItsBlock'
        <4>1. ASSUME NEW q \in Proc, pc'[q] \in {"bread", "using", "dirty"}
              PROVE  locked'[buf[q]] = q
          <5>1. CASE q = p
            BY <1>b, <3>1, <5>1, Zenon DEF IInv, TypeOK
          <5>2. CASE q # p
            <6>1. locked[buf[q]] = q /\ buf[q] \in Buf /\ q # Nobody
              BY <3>1, <4>1, <5>2, BioAssumption DEF IInv, TypeOK, KeepsItsBlock
            <6>. QED  BY <2>1, <3>1, <6>1, Zenon DEF IInv, TypeOK
          <5>. QED  BY <5>1, <5>2, Zenon
        <4>2. ASSUME NEW q \in Proc, pc'[q] # "idle"
              PROVE  buf[q] # Nobody /\ blockno[buf[q]] = want[q]
          BY <3>1, <4>2, Zenon DEF IInv, TypeOK, KeepsItsBlock
        <4>. QED  BY <3>1, <4>1, <4>2, Zenon DEF KeepsItsBlock
      <3>3. ASSUME NEW b \in Buf, locked'[b] # Nobody
            PROVE  pc'[locked'[b]] \in Holding /\ buf[locked'[b]] = b
        <4>1. CASE b = buf[p]
          BY <3>1, <4>1, Zenon DEF IInv, TypeOK, Holding
        <4>2. CASE b # buf[p]
          <5>1. /\ locked'[b] = locked[b] /\ locked[b] \in Proc
                /\ pc[locked[b]] \in Holding /\ buf[locked[b]] = b
            BY <3>1, <3>3, <4>2 DEF IInv, TypeOK, UseInv
          <5>. QED  BY <3>1, <4>2, <5>1, Zenon DEF IInv, TypeOK
        <4>. QED  BY <4>1, <4>2, Zenon
      <3>4. UseInv'
        BY <3>1, <3>3 DEF IInv, TypeOK, UseInv
      <3>. QED  BY <3>2, <3>4, Zenon
    <2>2. CASE locked[buf[p]] # Nobody
      BY <2>2 DEF IInv, TypeOK, KeepsItsBlock, UseInv, acquiresleep, bufvars
    <2>. QED  BY <2>1, <2>2, Zenon
  <1>. QED  BY <1>1, <1>2, <1>3, <1>4, Zenon DEF IInv

(* While a process that has the lock of its buffer keeps it, and nobody    *)
(* gets another buffer or lock, everybody has what they had: this covers   *)
(* bread, changes of the data, bwrite, bpin and bunpin.                    *)
LEMMA StillHolding ==
    ASSUME IInv, UNCHANGED <<blockno, locked, asleep, buf, want>>,
           \A q \in Proc : pc'[q] = pc[q] \/ (pc[q] \in Holding /\ pc'[q] \in Holding)
    PROVE  /\ OneBufferPerBlock' /\ KeepsItsBlock'
           /\ UseInv' /\ NoLostWakeup'
  <1>1. OneBufferPerBlock' /\ NoLostWakeup'
    BY Zenon DEF IInv, OneBufferPerBlock, NoLostWakeup
  <1>2. KeepsItsBlock'
    BY Zenon DEF IInv, KeepsItsBlock, Holding
  <1>3. UseInv'
    <2>1. \A b \in Buf : locked[b] # Nobody => locked[b] \in Proc
      BY Zenon DEF IInv, TypeOK
    <2>2. asleep \subseteq Proc
      BY Zenon DEF IInv, TypeOK
    <2>. QED  BY <2>1, <2>2 DEF IInv, UseInv, Holding
  <1>. QED  BY <1>1, <1>2, <1>3, Zenon

(* bread reads the block. *)
LEMMA BreadIInv ==
    ASSUME IInv, NEW p \in Proc, bread(p)
    PROVE  IInv'
  <1>b. /\ buf[p] \in Buf /\ buf[p] # Nobody /\ locked[buf[p]] = p
        /\ blockno[buf[p]] = want[p] /\ want[p] \in Block /\ want[p] # Nobody
    BY BioAssumption DEF IInv, TypeOK, KeepsItsBlock, UseInv, bread
  <1>1. TypeOK'
    <2>1. disk[blockno[buf[p]]] \in Value
      BY <1>b, Zenon DEF IInv, TypeOK
    <2>2. data' \in [Buf -> Value] /\ valid' \in [Buf -> BOOLEAN]
      BY <1>b, <2>1, ZenonT(30) DEF IInv, TypeOK, bread
    <2>3. pc' \in [Proc -> PC]
      BY Zenon DEF IInv, TypeOK, PC, bread, Goto
    <2>4. UNCHANGED <<list, blockno, refcnt, locked, asleep, disk, buf, want, pinned,
                      current, panicked>>
      BY Zenon DEF bread
    <2>. QED  BY <2>2, <2>3, <2>4, Zenon DEF IInv, TypeOK
  <1>2. OneBufferPerBlock' /\ KeepsItsBlock' /\ UseInv' /\ NoLostWakeup'
    <2>1. \A q \in Proc : pc'[q] = pc[q] \/ (pc[q] \in Holding /\ pc'[q] \in Holding)
      BY Zenon DEF IInv, TypeOK, Holding, bread, Goto
    <2>2. UNCHANGED <<blockno, locked, asleep, buf, want>>
      BY Zenon DEF bread
    <2>. QED  BY <2>1, <2>2, StillHolding, Zenon
  <1>3. RefcntIsExact'
    BY Zenon DEF IInv, bread, RefcntIsExact
  <1>4. DataInv'
    <2>1. CASE valid[buf[p]]
      BY <1>b, <2>1 DEF IInv, TypeOK, DataInv, UsersHaveRead, BufferIsCurrent,
         DiskIsCurrent, CleanIsOnDisk, Dirty, bread, Goto
    <2>2. CASE ~valid[buf[p]]
      <3>1. /\ data' = [data EXCEPT ![buf[p]] = disk[want[p]]]
            /\ valid' = [valid EXCEPT ![buf[p]] = TRUE]
            /\ pc' = [pc EXCEPT ![p] = "using"] /\ pc[p] = "bread"
            /\ UNCHANGED <<blockno, disk, buf, pinned, current>>
        BY <1>b, <2>2, Zenon DEF bread, Goto
      <3>2. disk[want[p]] = current[want[p]]
        BY <1>b, <2>2 DEF IInv, TypeOK, OneBufferPerBlock, DataInv, DiskIsCurrent
      <3>3. UsersHaveRead'
        BY <1>b, <3>1 DEF IInv, TypeOK, UseInv, DataInv, UsersHaveRead
      <3>4. BufferIsCurrent'
        BY <1>b, <3>1, <3>2 DEF IInv, TypeOK, DataInv, BufferIsCurrent
      <3>5. DiskIsCurrent'
        BY <1>b, <3>1, <3>2, Zenon DEF IInv, TypeOK, DataInv, DiskIsCurrent
      <3>6. CleanIsOnDisk'
        BY <1>b, <3>1, <3>2 DEF IInv, TypeOK, DataInv, CleanIsOnDisk, Dirty
      <3>7. (\A b \in pinned : valid[b])'
        BY <1>b, <3>1, Zenon DEF IInv, TypeOK, DataInv
      <3>. QED  BY <3>3, <3>4, <3>5, <3>6, <3>7 DEF DataInv
    <2>. QED  BY <2>1, <2>2, Zenon
  <1>. QED  BY <1>1, <1>2, <1>3, <1>4, Zenon DEF IInv

(* The lock holder changes the data. *)
LEMMA StoreIInv ==
    ASSUME IInv, NEW p \in Proc, NEW v \in Value, store(p, v)
    PROVE  IInv'
  <1>b. /\ buf[p] \in Buf /\ buf[p] # Nobody /\ locked[buf[p]] = p
        /\ blockno[buf[p]] = want[p] /\ want[p] \in Block /\ want[p] # Nobody
    BY BioAssumption DEF IInv, TypeOK, KeepsItsBlock, UseInv, store
  <1>1. TypeOK'
    BY <1>b, Zenon DEF IInv, TypeOK, PC, store, Goto
  <1>2. OneBufferPerBlock' /\ KeepsItsBlock' /\ UseInv' /\ NoLostWakeup'
    <2>1. \A q \in Proc : pc'[q] = pc[q] \/ (pc[q] \in Holding /\ pc'[q] \in Holding)
      BY Zenon DEF IInv, TypeOK, Holding, store, Goto
    <2>2. UNCHANGED <<blockno, locked, asleep, buf, want>>
      BY Zenon DEF store
    <2>. QED  BY <2>1, <2>2, StillHolding, Zenon
  <1>3. RefcntIsExact'
    BY Zenon DEF IInv, store, RefcntIsExact
  <1>4. DataInv'
    <2>1. UsersHaveRead'
      BY <1>b, BioAssumption, SMTT(30) DEF IInv, DataInv, TypeOK, KeepsItsBlock,
         UseInv, Holding, UsersHaveRead, store, Goto
    <2>2. BufferIsCurrent'
      BY <1>b, BioAssumption, SMTT(30) DEF IInv, DataInv, TypeOK, KeepsItsBlock,
         UseInv, Holding, BufferIsCurrent, OneBufferPerBlock, DiskIsCurrent, store,
         Goto
    <2>3. DiskIsCurrent'
      BY <1>b, BioAssumption, SMTT(30) DEF IInv, DataInv, TypeOK, KeepsItsBlock, UseInv,
         Holding, DiskIsCurrent, OneBufferPerBlock, BufferIsCurrent, CleanIsOnDisk,
         UsersHaveRead, Dirty, store, Goto
    <2>4. CleanIsOnDisk'
      BY <1>b, BioAssumption DEF IInv, DataInv, TypeOK, KeepsItsBlock, UseInv,
         Holding, CleanIsOnDisk, Dirty, BufferIsCurrent, DiskIsCurrent,
         OneBufferPerBlock, UsersHaveRead, store, Goto
    <2>5. (\A b \in pinned : valid[b])'
      BY <1>b, BioAssumption, Zenon DEF IInv, DataInv, TypeOK, KeepsItsBlock,
         UseInv, Holding, UsersHaveRead, store, Goto
    <2>. QED  BY <2>1, <2>2, <2>3, <2>4, <2>5, Zenon DEF DataInv
  <1>. QED  BY <1>1, <1>2, <1>3, <1>4, Zenon DEF IInv

(* bwrite writes the block. *)
LEMMA BwriteIInv ==
    ASSUME IInv, NEW p \in Proc, bwrite(p)
    PROVE  IInv'
  <1>b. /\ buf[p] \in Buf /\ buf[p] # Nobody /\ locked[buf[p]] = p
        /\ blockno[buf[p]] = want[p] /\ want[p] \in Block /\ want[p] # Nobody
    BY BioAssumption DEF IInv, TypeOK, KeepsItsBlock, UseInv, bwrite
  <1>1. TypeOK'
    BY <1>b, Zenon DEF IInv, TypeOK, PC, bwrite, Goto, bufvars
  <1>2. OneBufferPerBlock' /\ KeepsItsBlock' /\ UseInv' /\ NoLostWakeup'
    <2>1. \A q \in Proc : pc'[q] = pc[q] \/ (pc[q] \in Holding /\ pc'[q] \in Holding)
      BY Zenon DEF IInv, TypeOK, Holding, bwrite, Goto
    <2>2. UNCHANGED <<blockno, locked, asleep, buf, want>>
      BY Zenon DEF bwrite, bufvars
    <2>. QED  BY <2>1, <2>2, StillHolding
  <1>3. RefcntIsExact'
    BY Zenon DEF IInv, bwrite, RefcntIsExact, bufvars
  <1>4. DataInv'
    <2>1. UsersHaveRead'
      BY <1>b, BioAssumption DEF IInv, DataInv, TypeOK, KeepsItsBlock, UseInv, Holding,
         UsersHaveRead, bwrite, Goto, bufvars
    <2>2. BufferIsCurrent'
      BY <1>b, BioAssumption, ZenonT(30) DEF IInv, DataInv, TypeOK, KeepsItsBlock,
         UseInv, Holding, BufferIsCurrent, OneBufferPerBlock, DiskIsCurrent, bwrite,
         Goto, bufvars
    <2>3. DiskIsCurrent'
      BY <1>b, BioAssumption, SMTT(30) DEF IInv, DataInv, TypeOK, KeepsItsBlock,
         UseInv, Holding, DiskIsCurrent, OneBufferPerBlock, BufferIsCurrent,
         CleanIsOnDisk, UsersHaveRead, Dirty, bwrite, Goto, bufvars
    <2>4. CleanIsOnDisk'
      BY <1>b, BioAssumption DEF IInv, DataInv, TypeOK, KeepsItsBlock, UseInv,
         Holding, CleanIsOnDisk, Dirty, BufferIsCurrent, DiskIsCurrent,
         OneBufferPerBlock, UsersHaveRead, bwrite, Goto, bufvars
    <2>5. (\A b \in pinned : valid[b])'
      BY <1>b, BioAssumption, Zenon DEF IInv, DataInv, TypeOK, KeepsItsBlock,
         UseInv, Holding, UsersHaveRead, bwrite, Goto, bufvars
    <2>. QED  BY <2>1, <2>2, <2>3, <2>4, <2>5, ZenonT(30) DEF DataInv
  <1>. QED  BY <1>1, <1>2, <1>3, <1>4 DEF IInv

(* log_write pins the buffer. *)
LEMMA BpinIInv ==
    ASSUME IInv, NEW p \in Proc, bpin(p)
    PROVE  IInv'
  <1>b. /\ buf[p] \in Buf /\ buf[p] # Nobody /\ locked[buf[p]] = p
        /\ blockno[buf[p]] = want[p] /\ want[p] \in Block /\ want[p] # Nobody
    BY BioAssumption DEF IInv, TypeOK, KeepsItsBlock, UseInv, bpin
  <1>1. TypeOK'
    BY <1>b DEF IInv, TypeOK, PC, bpin, Goto, Pin
  <1>2. OneBufferPerBlock' /\ KeepsItsBlock' /\ UseInv' /\ NoLostWakeup'
    <2>1. \A q \in Proc : pc'[q] = pc[q] \/ (pc[q] \in Holding /\ pc'[q] \in Holding)
      BY Zenon DEF IInv, TypeOK, Holding, bpin, Goto
    <2>2. UNCHANGED <<blockno, locked, asleep, buf, want>>
      BY Zenon DEF bpin
    <2>. QED  BY <2>1, <2>2, StillHolding
  <1>3. RefcntIsExact'
    <2>1. ASSUME NEW b \in Buf
          PROVE  refcnt'[b] = Cardinality(Users(b)) + (IF b \in pinned' THEN 1 ELSE 0)
      <3>1. /\ Cardinality(Users(b)) \in Nat
            /\ refcnt[b] = Cardinality(Users(b)) + (IF b \in pinned THEN 1 ELSE 0)
        BY Counts, ZenonT(30) DEF IInv, RefcntIsExact, Users
      <3>. QED  BY <1>b, <3>1 DEF IInv, TypeOK, bpin, Pin
    <2>2. buf' = buf
      BY Zenon DEF bpin
    <2>. QED  BY <2>1, <2>2 DEF RefcntIsExact, Users
  <1>4. DataInv'
    <2>1. UsersHaveRead'
      BY <1>b, BioAssumption, SMTT(30) DEF IInv, DataInv, TypeOK, KeepsItsBlock,
         UseInv, Holding, UsersHaveRead, bpin, Goto, Pin
    <2>2. BufferIsCurrent'
      BY <1>b, BioAssumption, Zenon DEF IInv, DataInv, TypeOK, KeepsItsBlock,
         UseInv, Holding, BufferIsCurrent, OneBufferPerBlock, DiskIsCurrent, bpin,
         Goto, Pin
    <2>3. DiskIsCurrent'
      BY <1>b, BioAssumption, ZenonT(30) DEF IInv, DataInv, TypeOK, KeepsItsBlock,
         UseInv, Holding, DiskIsCurrent, OneBufferPerBlock, BufferIsCurrent,
         CleanIsOnDisk, UsersHaveRead, Dirty, bpin, Goto, Pin
    <2>4. CleanIsOnDisk'
      BY <1>b, BioAssumption DEF IInv, DataInv, TypeOK, KeepsItsBlock, UseInv,
         Holding, CleanIsOnDisk, Dirty, BufferIsCurrent, DiskIsCurrent,
         OneBufferPerBlock, UsersHaveRead, bpin, Goto, Pin
    <2>5. (\A b \in pinned : valid[b])'
      BY <1>b, BioAssumption DEF IInv, DataInv, TypeOK, KeepsItsBlock, UseInv, Holding,
         UsersHaveRead, bpin, Goto, Pin
    <2>. QED  BY <2>1, <2>2, <2>3, <2>4, <2>5, SMTT(30) DEF DataInv
  <1>. QED  BY <1>1, <1>2, <1>3, <1>4 DEF IInv

(* install_trans unpins the buffer. *)
LEMMA BunpinIInv ==
    ASSUME IInv, NEW p \in Proc, bunpin(p)
    PROVE  IInv'
  <1>b. /\ buf[p] \in Buf /\ buf[p] # Nobody /\ locked[buf[p]] = p
        /\ blockno[buf[p]] = want[p] /\ want[p] \in Block /\ want[p] # Nobody
    BY BioAssumption DEF IInv, TypeOK, KeepsItsBlock, UseInv, bunpin
  <1>u. refcnt[buf[p]] - 1 \in Nat
    <2>1. /\ Cardinality(Users(buf[p])) \in Nat
          /\ refcnt[buf[p]] = Cardinality(Users(buf[p])) + 1
      BY <1>b, Counts, ZenonT(30) DEF IInv, RefcntIsExact, Users, bunpin
    <2>. QED  BY <2>1, SMTT(30)
  <1>1. TypeOK'
    BY <1>b, <1>u, Zenon DEF IInv, TypeOK, PC, bunpin, Goto
  <1>2. OneBufferPerBlock' /\ KeepsItsBlock' /\ UseInv' /\ NoLostWakeup'
    <2>1. \A q \in Proc : pc'[q] = pc[q] \/ (pc[q] \in Holding /\ pc'[q] \in Holding)
      BY Zenon DEF bunpin
    <2>2. UNCHANGED <<blockno, locked, asleep, buf, want>>
      BY Zenon DEF bunpin
    <2>. QED  BY <2>1, <2>2, StillHolding
  <1>3. RefcntIsExact'
    <2>1. ASSUME NEW b \in Buf
          PROVE  refcnt'[b] = Cardinality(Users(b)) + (IF b \in pinned' THEN 1 ELSE 0)
      <3>1. /\ Cardinality(Users(b)) \in Nat
            /\ refcnt[b] = Cardinality(Users(b)) + (IF b \in pinned THEN 1 ELSE 0)
        BY Counts, ZenonT(30) DEF IInv, RefcntIsExact, Users
      <3>. QED  BY <1>b, <3>1, SMTT(30) DEF IInv, TypeOK, bunpin
    <2>2. buf' = buf
      BY ZenonT(30) DEF bunpin
    <2>. QED  BY <2>1, <2>2, ZenonT(30) DEF RefcntIsExact, Users
  <1>4. DataInv'
    <2>1. UsersHaveRead'
      BY <1>b, BioAssumption, ZenonT(30) DEF IInv, DataInv, TypeOK, KeepsItsBlock,
         UseInv, Holding, UsersHaveRead, bunpin, Goto
    <2>2. BufferIsCurrent'
      BY <1>b, BioAssumption, ZenonT(30) DEF IInv, DataInv, TypeOK, KeepsItsBlock,
         UseInv, Holding, BufferIsCurrent, OneBufferPerBlock, DiskIsCurrent, bunpin,
         Goto
    <2>3. DiskIsCurrent'
      BY <1>b, BioAssumption, ZenonT(30) DEF IInv, DataInv, TypeOK, KeepsItsBlock,
         UseInv, Holding, DiskIsCurrent, OneBufferPerBlock, BufferIsCurrent,
         CleanIsOnDisk, UsersHaveRead, Dirty, bunpin, Goto
    <2>4. CleanIsOnDisk'
      BY <1>b, BioAssumption, SMTT(30) DEF IInv, DataInv, TypeOK, KeepsItsBlock,
         UseInv, Holding, CleanIsOnDisk, Dirty, BufferIsCurrent, DiskIsCurrent,
         OneBufferPerBlock, UsersHaveRead, bunpin, Goto
    <2>5. (\A b \in pinned : valid[b])'
      BY <1>b, BioAssumption, ZenonT(30) DEF IInv, DataInv, TypeOK, KeepsItsBlock,
         UseInv, Holding, UsersHaveRead, bunpin, Goto
    <2>. QED  BY <2>1, <2>2, <2>3, <2>4, <2>5, SMTT(30) DEF DataInv
  <1>. QED  BY <1>1, <1>2, <1>3, <1>4 DEF IInv

(* brelse releases the sleep-lock. *)
LEMMA ReleasesleepIInv ==
    ASSUME IInv, NEW p \in Proc, releasesleep(p)
    PROVE  IInv'
  <1>b. /\ buf[p] \in Buf /\ buf[p] # Nobody /\ locked[buf[p]] = p
        /\ blockno[buf[p]] = want[p] /\ want[p] \in Block /\ want[p] # Nobody
    BY BioAssumption, SMTT(30) DEF IInv, TypeOK, KeepsItsBlock, UseInv, releasesleep
  <1>1. TypeOK'
    BY <1>b, Zenon DEF IInv, TypeOK, PC, releasesleep, Goto, Woken, bufvars
  <1>2. OneBufferPerBlock'
    BY <1>b, BioAssumption, ZenonT(30) DEF IInv, TypeOK, OneBufferPerBlock,
       releasesleep, Goto, Woken, bufvars
  <1>c. /\ \A q \in Proc : pc'[q] = IF q = p THEN "brelse" ELSE pc[q]
        /\ \A b \in Buf : locked'[b] = IF b = buf[p] THEN Nobody ELSE locked[b]
        /\ asleep' \subseteq asleep /\ pc[p] = "using"
        /\ UNCHANGED <<blockno, buf, want>>
    BY <1>b, Zenon DEF IInv, TypeOK, releasesleep, Goto, bufvars
  <1>3. KeepsItsBlock'
    <2>1. \A q \in Proc \ {p} : pc[q] \in Holding => buf[q] \in Buf /\ buf[q] # buf[p]
      BY <1>b, BioAssumption, Zenon DEF IInv, TypeOK, KeepsItsBlock, Holding
    <2>. QED  BY <1>b, <1>c, <2>1, Zenon DEF IInv, KeepsItsBlock, Holding
  <1>4. UseInv'
    <2>1. \A b \in Buf : locked[b] # Nobody => locked[b] \in Proc
      BY Zenon DEF IInv, TypeOK
    <2>2. \A q \in Proc : (pc'[q] = "idle") <=> (pc[q] = "idle")
      BY <1>c
    <2>3. \A b \in Buf : locked'[b] # Nobody =>
              pc'[locked'[b]] \in Holding /\ buf[locked'[b]] = b
      BY <1>b, <1>c, <2>1 DEF IInv, UseInv
    <2>4. \A q \in asleep' : pc'[q] = "acquiresleep"
      BY <1>c, Zenon DEF IInv, TypeOK, UseInv
    <2>. QED  BY <1>c, <2>2, <2>3, <2>4, Zenon DEF IInv, UseInv
  <1>5. RefcntIsExact'
    BY ZenonT(30) DEF IInv, releasesleep, RefcntIsExact, bufvars
  <1>6. NoLostWakeup'
    <2>1. \A q \in asleep' : q \in asleep /\ buf[q] # buf[p]
      BY Zenon DEF releasesleep, Woken
    <2>2. \A q \in asleep : buf[q] \in Buf
      BY BioAssumption, Zenon DEF IInv, TypeOK, UseInv, KeepsItsBlock
    <2>. QED  BY <1>c, <2>1, <2>2, Zenon DEF IInv, NoLostWakeup
  <1>7. DataInv'
    <2>1. UsersHaveRead'
      <3>1. valid' = valid
        BY Zenon DEF releasesleep, bufvars
      <3>. QED  BY <1>c, <3>1 DEF IInv, DataInv, UsersHaveRead
    <2>2. BufferIsCurrent'
      BY <1>b, BioAssumption, ZenonT(30) DEF IInv, DataInv, TypeOK, KeepsItsBlock,
         UseInv, Holding, BufferIsCurrent, OneBufferPerBlock, DiskIsCurrent,
         releasesleep, Goto, Woken, bufvars
    <2>3. DiskIsCurrent'
      BY <1>b, BioAssumption, ZenonT(30) DEF IInv, DataInv, TypeOK, KeepsItsBlock,
         UseInv, Holding, DiskIsCurrent, OneBufferPerBlock, BufferIsCurrent,
         CleanIsOnDisk, UsersHaveRead, Dirty, releasesleep, Goto, Woken, bufvars
    <2>4. CleanIsOnDisk'
      BY <1>b, BioAssumption, SMTT(30) DEF IInv, DataInv, TypeOK, KeepsItsBlock, UseInv,
         Holding, CleanIsOnDisk, Dirty, BufferIsCurrent, DiskIsCurrent,
         OneBufferPerBlock, UsersHaveRead, releasesleep, Goto, Woken, bufvars
    <2>5. (\A b \in pinned : valid[b])'
      BY <1>b, BioAssumption, Zenon DEF IInv, DataInv, TypeOK, KeepsItsBlock,
         UseInv, Holding, UsersHaveRead, releasesleep, Goto, Woken, bufvars
    <2>. QED  BY <2>1, <2>2, <2>3, <2>4, <2>5, SMTT(30) DEF DataInv
  <1>. QED  BY <1>1, <1>2, <1>3, <1>4, <1>5, <1>6, <1>7, Zenon DEF IInv

(* Moving a buffer to the head of the list keeps the list a permutation. *)
LEMMA MoveToHeadType ==
    ASSUME list \in [1 .. NBUF -> Buf], Range(list) = Buf, NEW b \in Buf
    PROVE  MoveToHead(b) \in [1 .. NBUF -> Buf] /\ Range(MoveToHead(b)) = Buf
  <1> DEFINE j == CHOOSE j \in 1 .. NBUF : list[j] = b
             l == MoveToHead(b)
  <1>1. j \in 1 .. NBUF /\ list[j] = b /\ NBUF \in Nat
    BY Counts, Zenon DEF Range
  <1>2. l = [k \in 1 .. NBUF |-> IF k = 1 THEN b ELSE IF k <= j THEN list[k - 1] ELSE list[k]]
    BY Zenon DEF MoveToHead
  <1> HIDE DEF j, l
  <1>3. l \in [1 .. NBUF -> Buf]
    BY <1>1, <1>2
  <1>4. ASSUME NEW c \in Buf PROVE \E k \in 1 .. NBUF : l[k] = c
    <2>1. PICK m \in 1 .. NBUF : list[m] = c
      BY Zenon DEF Range
    <2>2. CASE m = j
      BY <1>1, <1>2, <2>1, <2>2
    <2>3. CASE m < j
      <3>1. m + 1 \in 1 .. NBUF /\ l[m + 1] = c
        BY <1>1, <1>2, <2>1, <2>3
      <3>. QED  BY <3>1, Zenon
    <2>4. CASE m > j
      BY <1>1, <1>2, <2>1, <2>4
    <2>. QED  BY <1>1, <2>2, <2>3, <2>4
  <1>5. Range(l) = Buf
    BY <1>3, <1>4, ZenonT(30) DEF Range
  <1>. QED  BY <1>3, <1>5, Zenon DEF l

(* brelse drops the reference. *)
LEMMA BrelseIInv ==
    ASSUME IInv, NEW p \in Proc, brelse(p)
    PROVE  IInv'
  <1>b. buf[p] \in Buf /\ buf[p] # Nobody /\ \A b \in Buf : locked[b] # p
    <2>1. buf[p] \in Buf /\ buf[p] # Nobody
      BY BioAssumption, Zenon DEF IInv, TypeOK, KeepsItsBlock, brelse
    <2>2. ASSUME NEW b \in Buf, locked[b] = p PROVE FALSE
      <3>1. p # Nobody
        BY BioAssumption, ZenonT(30)
      <3>2. pc[p] \in Holding
        BY <2>2, <3>1, Zenon DEF IInv, UseInv
      <3>. QED  BY <3>2, Zenon DEF Holding, brelse
    <2>. QED  BY <2>1, <2>2, Zenon
  <1>u. RefcntIsExact' /\ refcnt[buf[p]] - 1 \in Nat
    BY <1>b, OneUserLess, ZenonT(30) DEF IInv, brelse
  <1>l. list' \in [1 .. NBUF -> Buf] /\ Range(list') = Buf
    BY <1>b, MoveToHeadType, ZenonT(30) DEF IInv, TypeOK, brelse
  <1>1. TypeOK'
    BY <1>b, <1>u, <1>l, ZenonT(30) DEF IInv, TypeOK, PC, brelse, Goto
  <1>2. OneBufferPerBlock'
    BY <1>b, BioAssumption, ZenonT(30) DEF IInv, TypeOK, OneBufferPerBlock, brelse, Goto
  <1>c. /\ \A q \in Proc \ {p} : pc'[q] = pc[q] /\ buf'[q] = buf[q] /\ want'[q] = want[q]
        /\ pc'[p] = "idle" /\ UNCHANGED <<blockno, locked, valid>>
    BY Zenon DEF IInv, TypeOK, brelse, Goto
  <1>3. KeepsItsBlock'
    BY <1>c DEF IInv, KeepsItsBlock
  <1>4. UseInv'
    BY <1>b, BioAssumption DEF IInv, TypeOK, KeepsItsBlock, UseInv, Holding,
       NoLostWakeup, brelse, Goto
  <1>5. RefcntIsExact'
    BY <1>u, ZenonT(30)
  <1>6. NoLostWakeup'
    <2>1. asleep' = asleep /\ pc[p] = "brelse"
      BY Zenon DEF brelse
    <2>2. \A q \in asleep : q \in Proc \ {p}
      BY <2>1, Zenon DEF IInv, TypeOK, UseInv
    <2>. QED  BY <1>c, <2>1, <2>2, Zenon DEF IInv, NoLostWakeup
  <1>7. DataInv'
    <2>1. UsersHaveRead'
      BY <1>c, Zenon DEF IInv, DataInv, UsersHaveRead
    <2>2. BufferIsCurrent'
      BY <1>b, BioAssumption, ZenonT(30) DEF IInv, DataInv, TypeOK, KeepsItsBlock,
         UseInv, Holding, BufferIsCurrent, OneBufferPerBlock, DiskIsCurrent, brelse,
         Goto
    <2>3. DiskIsCurrent'
      BY <1>b, BioAssumption, ZenonT(30) DEF IInv, DataInv, TypeOK, KeepsItsBlock,
         UseInv, Holding, DiskIsCurrent, OneBufferPerBlock, BufferIsCurrent,
         CleanIsOnDisk, UsersHaveRead, Dirty, brelse, Goto
    <2>4. CleanIsOnDisk'
      BY <1>b, BioAssumption, ZenonT(30) DEF IInv, DataInv, TypeOK, KeepsItsBlock,
         UseInv, Holding, CleanIsOnDisk, Dirty, BufferIsCurrent, DiskIsCurrent,
         OneBufferPerBlock, UsersHaveRead, brelse, Goto
    <2>5. (\A b \in pinned : valid[b])'
      BY <1>b, BioAssumption, Zenon DEF IInv, DataInv, TypeOK, KeepsItsBlock,
         UseInv, Holding, UsersHaveRead, brelse, Goto
    <2>. QED  BY <2>1, <2>2, <2>3, <2>4, <2>5, SMTT(30) DEF DataInv
  <1>. QED  BY <1>1, <1>2, <1>3, <1>4, <1>5, <1>6, <1>7, SMTT(30) DEF IInv

(* A panic, and the steps that change nothing. *)
LEMMA StutterIInv ==
    ASSUME IInv, UNCHANGED <<list, bufvars, locked, asleep, disk, pc, buf, want, pinned, current>>,
           panicked' \in BOOLEAN
    PROVE  IInv'
  <1> USE DEF IInv, bufvars
  <1>1. TypeOK'
    BY Zenon DEF TypeOK
  <1>2. OneBufferPerBlock'
    BY Zenon DEF OneBufferPerBlock
  <1>3. KeepsItsBlock'
    BY Zenon DEF KeepsItsBlock
  <1>4. UseInv'
    BY Zenon DEF UseInv
  <1>5. RefcntIsExact'
    BY Zenon DEF RefcntIsExact
  <1>6. NoLostWakeup'
    BY Zenon DEF NoLostWakeup
  <1>7. DataInv'
    <2>1. UsersHaveRead' /\ (\A b \in pinned : valid[b])'
      BY Zenon DEF DataInv, UsersHaveRead
    <2>2. BufferIsCurrent'
      BY Zenon DEF DataInv, BufferIsCurrent
    <2>3. DiskIsCurrent'
      BY Zenon DEF DataInv, DiskIsCurrent
    <2>4. CleanIsOnDisk'
      BY Zenon DEF DataInv, CleanIsOnDisk, Dirty
    <2>. QED  BY <2>1, <2>2, <2>3, <2>4, Zenon DEF DataInv
  <1>. QED  BY <1>1, <1>2, <1>3, <1>4, <1>5, <1>6, <1>7, Zenon

(* Every step of the cache keeps the invariant. *)
LEMMA NextIInv == IInv /\ [Next]_vars => IInv'
  <1> SUFFICES ASSUME IInv, [Next]_vars PROVE IInv'
    BY Zenon
  <1>1. ASSUME NEW p \in Proc, NEW k \in Block, bget_hit(p, k) PROVE IInv'
    BY <1>1, HitIInv
  <1>2. ASSUME NEW p \in Proc, NEW k \in Block, bget_recycle(p, k) PROVE IInv'
    BY <1>2, RecycleIInv
  <1>3. ASSUME NEW p \in Proc, NEW k \in Block, bget_panic(p, k) PROVE IInv'
    BY <1>3, StutterIInv, Zenon DEF bget_panic
  <1>4. ASSUME NEW p \in Proc, acquiresleep(p) PROVE IInv'
    BY <1>4, AcquiresleepIInv
  <1>5. ASSUME NEW p \in Proc, bread(p) PROVE IInv'
    BY <1>5, BreadIInv, ZenonT(30)
  <1>6. ASSUME NEW p \in Proc, NEW v \in Value, store(p, v) PROVE IInv'
    BY <1>6, StoreIInv, ZenonT(30)
  <1>7. ASSUME NEW p \in Proc, bwrite(p) PROVE IInv'
    BY <1>7, BwriteIInv, SMTT(30)
  <1>8. ASSUME NEW p \in Proc, bpin(p) PROVE IInv'
    BY <1>8, BpinIInv, SMTT(30)
  <1>9. ASSUME NEW p \in Proc, bunpin(p) PROVE IInv'
    BY <1>9, BunpinIInv, SMTT(30)
  <1>10. ASSUME NEW p \in Proc, releasesleep(p) PROVE IInv'
    BY <1>10, ReleasesleepIInv, SMTT(30)
  <1>11. ASSUME NEW p \in Proc, brelse(p) PROVE IInv'
    BY <1>11, BrelseIInv, SMTT(30)
  <1>12. CASE Stopped \/ UNCHANGED vars
    BY <1>12, StutterIInv, Zenon DEF Stopped, vars, IInv, TypeOK
  <1>. QED  BY <1>1, <1>2, <1>3, <1>4, <1>5, <1>6, <1>7, <1>8, <1>9, <1>10, <1>11,
               <1>12, Zenon DEF Next

(* IInv is an invariant of the buffer cache. *)
THEOREM InductiveInvariant == Spec => []IInv
  BY InitIInv, NextIInv, PTL DEF Spec

(* The LRU list stays a permutation of the buffers under brelse's          *)
(* relinking, and every field keeps its type.                              *)
THEOREM TypeCorrect == Spec => []TypeOK
  <1>1. IInv => TypeOK
    BY Zenon DEF IInv
  <1>. QED  BY <1>1, InductiveInvariant, PTL

(* bget never gives a block a second buffer. *)
THEOREM BlocksHaveOneBuffer == Spec => []OneBufferPerBlock
  <1>1. IInv => OneBufferPerBlock
    BY Zenon DEF IInv
  <1>. QED  BY <1>1, InductiveInvariant, PTL

(* Between bget and brelse a buffer is not recycled and its lock excludes  *)
(* the others.                                                             *)
THEOREM BuffersKeepTheirBlock == Spec => []KeepsItsBlock
  <1>1. IInv => KeepsItsBlock
    BY Zenon DEF IInv
  <1>. QED  BY <1>1, InductiveInvariant, PTL

(* bread returns what was last stored in the block. *)
THEOREM ReadsSeeTheLastStore == Spec => []ReadsAreCurrent
  <1>1. IInv => ReadsAreCurrent
    <2> SUFFICES ASSUME IInv, NEW p \in Proc, pc[p] \in {"using", "dirty"}
                 PROVE  data[buf[p]] = current[want[p]]
      BY Zenon DEF ReadsAreCurrent
    <2>1. buf[p] \in Buf /\ blockno[buf[p]] = want[p]
      BY Zenon DEF IInv, TypeOK, KeepsItsBlock
    <2>. QED  BY <2>1, Zenon DEF IInv, DataInv, UsersHaveRead, BufferIsCurrent
  <1>. QED  BY <1>1, InductiveInvariant, PTL

(* The reference counts of bget, brelse, bpin and bunpin are exact. *)
THEOREM RefcntCountsUsers == Spec => []RefcntIsExact
  <1>1. IInv => RefcntIsExact
    BY Zenon DEF IInv
  <1>. QED  BY <1>1, InductiveInvariant, PTL

(* releasesleep leaves nobody asleep on a free lock. *)
THEOREM NoWakeupIsLost == Spec => []NoLostWakeup
  <1>1. IInv => NoLostWakeup
    BY Zenon DEF IInv
  <1>. QED  BY <1>1, InductiveInvariant, PTL
=============================================================================
