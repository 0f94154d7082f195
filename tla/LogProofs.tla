----------------------------- MODULE LogProofs -----------------------------
(***************************************************************************)
(* Proofs of the properties of Log.  The initial state, begin_op, end_op   *)
(* and a crash satisfy IInv too, so it holds of every reachable state, and *)
(* so do the invariants and the action property that it implies.  Then     *)
(* what the log promises its callers: that it implements the atomic        *)
(* journal, step by step, that what end_op has committed is durable, and   *)
(* that begin_op's reservation keeps log_write from panicking, when        *)
(* operations write enough fewer blocks than begin_op reserves for them.   *)
(***************************************************************************)
EXTENDS LogInvariant, FiniteSetTheorems

(* Counting the processes inside an operation. *)
LEMMA InOpFinite == IsFiniteSet(InOp)
  BY ConstAssumption, FS_Subset, Zenon DEF InOp

-----------------------------------------------------------------------------
(* log_write refuses a block, even one that is absorbed, once the log      *)
(* holds log.size - 1 blocks; so an operation must keep that many of its   *)
(* reserved blocks unused.  For a disk made by mkfs (log.size = LOGSIZE)   *)
(* this says OpBlocks <= MAXOPBLOCKS - 2.                                  *)
EnoughSlack == /\ OpBlocks < MAXOPBLOCKS
               /\ LOGSIZE + OpBlocks + 2 <= MAXOPBLOCKS + LogBlocks

(* The reserved blocks that the operations under way have not used. *)
Slack == {x \in InOp \X (1 .. MAXOPBLOCKS) : x[2] > Cardinality(wrote[x[1]])}

(* Used and reserved blocks together fit in the log. *)
SpaceInv ==
    /\ \A p \in InOp : /\ IsFiniteSet(wrote[p])
                       /\ wrote[p] \subseteq Range(lh)
                       /\ Cardinality(wrote[p]) <= OpBlocks
    /\ Len(lh) + Cardinality(Slack) <= LOGSIZE
    /\ ~panicked

(* The slack is finite, and at most MAXOPBLOCKS for each operation. *)
LEMMA SlackBound ==
    /\ IsFiniteSet(Slack)
    /\ Cardinality(Slack) \in Nat
    /\ Cardinality(Slack) <= Cardinality(InOp) * MAXOPBLOCKS
<1>1. IsFiniteSet(1 .. MAXOPBLOCKS) /\ Cardinality(1 .. MAXOPBLOCKS) = MAXOPBLOCKS
  BY ConstAssumption, FS_Interval
<1>2. /\ IsFiniteSet(InOp \X (1 .. MAXOPBLOCKS))
      /\ Cardinality(InOp \X (1 .. MAXOPBLOCKS)) = Cardinality(InOp) * MAXOPBLOCKS
  BY <1>1, InOpFinite, FS_Product, Zenon
<1>3. Slack \subseteq InOp \X (1 .. MAXOPBLOCKS)
  BY Zenon DEF Slack
<1> QED
  BY <1>2, <1>3, FS_Subset, FS_CardinalityType, Zenon

(* The same after a step. *)
LEMMA SlackBoundNext ==
    /\ IsFiniteSet(Slack')
    /\ Cardinality(Slack') \in Nat
    /\ Cardinality(Slack') <= Cardinality(InOp') * MAXOPBLOCKS
<1>0. IsFiniteSet(InOp')
  BY ConstAssumption, FS_Subset DEF InOp
<1>1. IsFiniteSet(1 .. MAXOPBLOCKS) /\ Cardinality(1 .. MAXOPBLOCKS) = MAXOPBLOCKS
  BY ConstAssumption, FS_Interval, SMTT(30)
<1>2. /\ IsFiniteSet(InOp' \X (1 .. MAXOPBLOCKS))
      /\ Cardinality(InOp' \X (1 .. MAXOPBLOCKS)) = Cardinality(InOp') * MAXOPBLOCKS
  BY <1>0, <1>1, FS_Product, Zenon
<1>3. Slack' \subseteq InOp' \X (1 .. MAXOPBLOCKS)
  BY Zenon DEF Slack
<1> QED
  BY <1>2, <1>3, FS_Subset, FS_CardinalityType, Zenon

(* An operation that has logged k blocks holds MAXOPBLOCKS - k in reserve. *)
LEMMA OwnSlack ==
    ASSUME NEW p \in InOp, IsFiniteSet(wrote[p]),
           Cardinality(wrote[p]) <= MAXOPBLOCKS
    PROVE  Cardinality(Slack) >= MAXOPBLOCKS - Cardinality(wrote[p])
<1> DEFINE k == Cardinality(wrote[p])
           own == {p} \X (k + 1 .. MAXOPBLOCKS)
<1>0. k \in Nat /\ MAXOPBLOCKS \in Nat /\ k <= MAXOPBLOCKS
  BY FS_CardinalityType, ConstAssumption, Zenon
<1> HIDE DEF k
<1>1. IsFiniteSet(k + 1 .. MAXOPBLOCKS) /\ Cardinality(k + 1 .. MAXOPBLOCKS) = MAXOPBLOCKS - k
  <2>1. k + 1 \in Int /\ MAXOPBLOCKS \in Int
    BY <1>0
  <2>2. /\ IsFiniteSet(k + 1 .. MAXOPBLOCKS)
        /\ Cardinality(k + 1 .. MAXOPBLOCKS)
               = IF k + 1 > MAXOPBLOCKS THEN 0 ELSE MAXOPBLOCKS - (k + 1) + 1
    BY <2>1, FS_Interval, Zenon
  <2> QED
    BY <1>0, <2>2
<1>2. IsFiniteSet({p}) /\ Cardinality({p}) = 1
  BY FS_Singleton, Zenon
<1>3. IsFiniteSet(own) /\ Cardinality(own) = MAXOPBLOCKS - k
  <2>1. /\ IsFiniteSet(own)
        /\ Cardinality(own) = Cardinality({p}) * Cardinality(k + 1 .. MAXOPBLOCKS)
    BY <1>1, <1>2, FS_Product, Zenon
  <2> QED
    BY <1>0, <1>1, <1>2, <2>1
<1>4. own \subseteq Slack
  BY <1>0 DEF Slack, k
<1>5. Cardinality(own) <= Cardinality(Slack)
  BY <1>4, SlackBound, FS_Subset, Zenon
<1> QED
  BY <1>0, <1>3, <1>5, SlackBound, Zenon DEF k

(* log_write does not panic: the caller's own slack keeps the log short of *)
(* the limit.                                                              *)
LEMMA LogWriteFits ==
    ASSUME EnoughSlack, IInv, SpaceInv,
           NEW p \in Proc, NEW b \in Block, NEW v \in Value, log_write(p, b, v)
    PROVE  ~(TooBig \/ outstanding < 1)
<1>1. p \in InOp
  BY Zenon DEF log_write, InOp
<1>2. /\ Cardinality(wrote[p]) \in Nat /\ Cardinality(wrote[p]) <= OpBlocks
      /\ IsFiniteSet(wrote[p])
  BY <1>1, FS_CardinalityType, Zenon DEF SpaceInv
<1>3. Cardinality(Slack) >= MAXOPBLOCKS - Cardinality(wrote[p])
  BY <1>1, <1>2, OwnSlack, ConstAssumption
<1>4. Len(lh) + Cardinality(Slack) <= LOGSIZE /\ Len(lh) \in Nat
  BY DEF SpaceInv, IInv, TypeOK
<1>5. ~TooBig
  <2>1. Cardinality(Slack) \in Nat
    BY SlackBound, Zenon
  <2> QED
    BY <1>2, <1>3, <1>4, <2>1, ConstAssumption DEF TooBig, EnoughSlack
<1>6. outstanding >= 1
  <2>1. outstanding = Cardinality(InOp) /\ outstanding \in Nat
    BY Zenon DEF IInv, CommitIsExclusive, TypeOK
  <2> QED
    BY <1>1, <2>1, InOpFinite, FS_EmptySet
<1> QED
  BY <1>5, <1>6 DEF IInv, TypeOK

(* The new reservation fits, by begin_op's own test. *)
LEMMA BeginKeepsSpace ==
    ASSUME IInv, SpaceInv, NEW p \in Proc, begin_op_enter(p), IInv'
    PROVE  SpaceInv'
<1>1. /\ lh' = lh /\ panicked' = panicked
      /\ outstanding' = outstanding + 1
      /\ wrote' = [wrote EXCEPT ![p] = {}]
      /\ InOp' = InOp \cup {p}
      /\ Len(lh) + (outstanding + 1) * MAXOPBLOCKS <= LOGSIZE
  BY ConstAssumption DEF begin_op_enter, MustWait, LogFull, InOp, IInv, TypeOK
<1>2. Len(lh') + Cardinality(Slack') <= LOGSIZE
  <2>1. Cardinality(InOp') = outstanding + 1
    BY <1>1, Zenon DEF IInv, CommitIsExclusive
  <2>2. Cardinality(Slack') <= (outstanding + 1) * MAXOPBLOCKS /\ Cardinality(Slack') \in Nat
    BY <2>1, SlackBoundNext, Zenon
  <2>3. (outstanding + 1) * MAXOPBLOCKS \in Nat /\ Len(lh) \in Nat
    BY ConstAssumption DEF IInv, TypeOK
  <2> QED
    BY <1>1, <2>2, <2>3, ConstAssumption
<1>3. \A q \in InOp' : /\ IsFiniteSet(wrote'[q])
                       /\ wrote'[q] \subseteq Range(lh')
                       /\ Cardinality(wrote'[q]) <= OpBlocks
  BY <1>1, FS_EmptySet, ConstAssumption DEF SpaceInv, IInv, TypeOK, InOp
<1> QED
  BY <1>1, <1>2, <1>3, Zenon DEF SpaceInv

(* A block that is new to the log uses up one reserved block of its        *)
(* operation; an absorbed one uses up one or none.                         *)
LEMMA LogWriteKeepsSpace ==
    ASSUME EnoughSlack, IInv, SpaceInv,
           NEW p \in Proc, NEW b \in Block, NEW v \in Value, log_write(p, b, v)
    PROVE  SpaceInv'
<1>0. ~(TooBig \/ outstanding < 1)
  BY LogWriteFits, Zenon
<1>1. /\ panicked' = panicked /\ InOp' = InOp /\ p \in InOp
      /\ wrote' = [wrote EXCEPT ![p] = @ \cup {b}]
      /\ lh' = IF b \in Range(lh) THEN lh ELSE Append(lh, b)
      /\ Cardinality(wrote[p] \cup {b}) <= OpBlocks
  BY <1>0, Zenon DEF log_write, InOp, Absorbed
<1>2. Len(lh) \in Nat /\ LOGSIZE \in Nat /\ lh \in Seq(Block)
  BY ConstAssumption DEF IInv, TypeOK
<1>3. Range(lh') = Range(lh) \cup {b} /\ (b \notin Range(lh) => Len(lh') = Len(lh) + 1)
  <2>1. CASE b \in Range(lh)
    BY <1>1, <2>1, Zenon
  <2>2. CASE b \notin Range(lh)
    <3>1. lh' = Append(lh, b)
      BY <1>1, <2>2, Zenon
    <3>2. /\ lh' \in Seq(Block) /\ Len(lh') = Len(lh) + 1
          /\ \A i \in 1 .. Len(lh) : lh'[i] = lh[i]
          /\ lh'[Len(lh) + 1] = b
      BY <1>2, <3>1
    <3> QED
      BY <1>2, <3>2 DEF Range
  <2> QED
    BY <2>1, <2>2, Zenon
<1>4. wrote'[p] = wrote[p] \cup {b} /\ \A q \in InOp \ {p} : wrote'[q] = wrote[q]
  BY <1>1, Zenon DEF IInv, TypeOK, InOp
<1>5. /\ IsFiniteSet(wrote[p]) /\ IsFiniteSet(wrote'[p])
      /\ Cardinality(wrote[p]) \in Nat
      /\ Cardinality(wrote'[p]) =
             IF b \in wrote[p] THEN Cardinality(wrote[p]) ELSE Cardinality(wrote[p]) + 1
  <2>1. IsFiniteSet(wrote[p])
    BY <1>1, Zenon DEF SpaceInv
  <2>2. /\ IsFiniteSet(wrote[p] \cup {b})
        /\ Cardinality(wrote[p] \cup {b}) =
               IF b \in wrote[p] THEN Cardinality(wrote[p]) ELSE Cardinality(wrote[p]) + 1
    BY <2>1, FS_AddElement, ZenonT(30)
  <2>3. Cardinality(wrote[p]) \in Nat
    BY <2>1, FS_CardinalityType, Zenon
  <2> QED
    BY <1>4, <2>1, <2>2, <2>3, Zenon
<1>6. \A q \in InOp' : /\ IsFiniteSet(wrote'[q])
                       /\ wrote'[q] \subseteq Range(lh')
                       /\ Cardinality(wrote'[q]) <= OpBlocks
  BY <1>1, <1>3, <1>4, <1>5, Zenon DEF SpaceInv
<1>7. Len(lh') + Cardinality(Slack') <= LOGSIZE
  <2> DEFINE used == <<p, Cardinality(wrote[p]) + 1>>
  <2>1. CASE b \in wrote[p]
    <3>1. wrote'[p] = wrote[p] /\ b \in Range(lh)
      BY <1>1, <1>4, <2>1, Zenon DEF SpaceInv
    <3>2. Slack' = Slack
      BY <1>1, <1>4, <3>1, ZenonT(30) DEF Slack
    <3> QED
      BY <1>1, <3>1, <3>2 DEF SpaceInv
  <2>2. CASE b \notin wrote[p]
    <3>1. Cardinality(wrote[p]) + 1 <= OpBlocks
      BY <1>1, <1>4, <1>5, <2>2, Zenon
    <3>2. used \in Slack
      BY <1>1, <1>5, <3>1, ConstAssumption DEF Slack
    <3>3. Slack' \subseteq Slack \ {used}
      <4> SUFFICES ASSUME NEW x \in Slack' PROVE x \in Slack /\ x # used
        BY Zenon
      <4>1. /\ x \in InOp \X (1 .. MAXOPBLOCKS)
            /\ x[2] > Cardinality(wrote'[x[1]])
        BY <1>1, Zenon DEF Slack
      <4>2. CASE x[1] = p
        BY <1>5, <2>2, <4>1, <4>2 DEF Slack
      <4>3. CASE x[1] # p
        BY <1>4, <4>1, <4>3 DEF Slack
      <4> QED
        BY <4>2, <4>3, Zenon
    <3>4. Cardinality(Slack') <= Cardinality(Slack) - 1
      <4>1. /\ IsFiniteSet(Slack \ {used})
            /\ Cardinality(Slack \ {used}) = Cardinality(Slack) - 1
        BY <3>2, SlackBound, FS_RemoveElement, Zenon
      <4> QED
        BY <3>3, <4>1, FS_Subset
    <3>5. Len(lh') <= Len(lh) + 1 /\ Len(lh') \in Nat
      BY <1>1, <1>2, <1>3
    <3> QED
      BY <1>2, <3>4, <3>5, SlackBound, SlackBoundNext DEF SpaceInv
  <2> QED
    BY <2>1, <2>2, Zenon
<1> QED
  BY <1>1, <1>6, <1>7, Zenon DEF SpaceInv

(* An operation that ends gives its unused reservation back. *)
LEMMA EndKeepsSpace ==
    ASSUME IInv, SpaceInv, NEW p \in Proc, end_op(p)
    PROVE  SpaceInv'
<1>1. ~committing /\ pc[p] = "op"
  BY OpMeansNoStage, Zenon DEF end_op
<1>2. /\ lh' = lh /\ panicked' = panicked
      /\ wrote' = [wrote EXCEPT ![p] = {}]
      /\ InOp' = InOp \ {p}
  BY <1>1, Zenon DEF end_op, InOp, Wakeup, IInv, TypeOK
<1>3. \A q \in InOp' : wrote'[q] = wrote[q]
  BY <1>2, Zenon DEF IInv, TypeOK, InOp
<1>4. Slack' \subseteq Slack
  BY <1>2, <1>3, Zenon DEF Slack
<1>5. Cardinality(Slack') <= Cardinality(Slack)
  BY <1>4, SlackBound, FS_Subset, Zenon
<1>6. Len(lh) \in Nat /\ LOGSIZE \in Nat
  BY ConstAssumption DEF IInv, TypeOK
<1>7. Len(lh') + Cardinality(Slack') <= LOGSIZE
  BY <1>2, <1>5, <1>6, SlackBound, SlackBoundNext DEF SpaceInv
<1> QED
  BY <1>2, <1>3, <1>7, Zenon DEF SpaceInv

(* Without operations there is no slack, and log.lh has its bounded type. *)
LEMMA NoOpsFits ==
    ASSUME IInv', InOp' = {}, ~panicked'
    PROVE  SpaceInv'
<1>1. Slack' = {}
  BY Zenon DEF Slack
<1>2. Cardinality(Slack') = 0
  BY <1>1, FS_EmptySet, Zenon
<1> QED
  BY <1>2, ConstAssumption DEF SpaceInv, IInv, TypeOK

(* A step that leaves operations, their blocks and log.lh alone. *)
LEMMA SameOpsFit ==
    ASSUME SpaceInv, UNCHANGED <<pc, wrote, lh, panicked>>
    PROVE  SpaceInv'
<1>1. InOp' = InOp
  BY Zenon DEF InOp
<1>2. Slack' = Slack
  BY <1>1, Zenon DEF Slack
<1> QED
  BY <1>1, <1>2, Zenon DEF SpaceInv

-----------------------------------------------------------------------------
(* end_op starts a commit only when the last operation ends. *)
LEMMA EndOpStep ==
    ASSUME NEW p \in Proc, IInv, end_op(p)
    PROVE  IInv'
<1> USE DEF IInv, diskvars, bufvars, lockvars, procvars, stepvars
<1>0. /\ stage = "none" /\ ~committing /\ ~recovering
      /\ dhead = <<>> /\ Range(dhead) = {} /\ ToInstall = Range(lh)
  BY OpMeansNoStage, Zenon DEF end_op
<1>1. /\ UNCHANGED <<disk, dlog, dhead, cache, pins, lh, recovering, panicked>>
      /\ outstanding' = outstanding - 1
      /\ wrote' = [wrote EXCEPT ![p] = {}]
      /\ ~panicked
      /\ pc[p] = "op"
  BY <1>0, Zenon DEF end_op, Running
<1>2. outstanding \in Nat \ {0} /\ outstanding = Cardinality(InOp)
  <2>1. p \in InOp
    BY <1>1, Zenon DEF InOp
  <2> QED
    BY <2>1, InOpFinite, FS_EmptySet, Zenon DEF CommitIsExclusive, TypeOK
<1>3. ASSUME NEW x, x # "op", pc' = [pc EXCEPT ![p] = x]
      PROVE  InOp' = InOp \ {p} /\ outstanding' = Cardinality(InOp')
  <2>1. InOp' = InOp \ {p} /\ p \in InOp
    BY <1>1, <1>3, Zenon DEF InOp, TypeOK
  <2>2. Cardinality(InOp') = Cardinality(InOp) - 1
    BY <2>1, InOpFinite, FS_RemoveElement, Zenon
  <2> QED
    BY <1>1, <1>2, <2>1, <2>2, Zenon
<1>4. CASE DoCommit
  <2>1. /\ committing' = TRUE
        /\ pc' = [pc EXCEPT ![p] = "commit"]
        /\ stage' = IF Len(lh) > 0 THEN "write_log" ELSE "finish"
        /\ tail' = 1
    BY <1>0, <1>4, Zenon DEF end_op, SomethingLogged
  <2>2. outstanding' = 0
    BY <1>1, <1>4, Zenon DEF DoCommit
  <2>3. TypeOK'
    BY <1>1, <2>1, <2>2, ConstAssumption DEF TypeOK, PC, Stage
  <2>4. StageInv'
    <3>1. Len(lh) \in Nat /\ (~(Len(lh) > 0) => lh = <<>>)
      BY DEF TypeOK
    <3> QED
      BY <1>0, <1>1, <2>1, <3>1 DEF StageInv, Installing
  <2>5. HeadInv' /\ DiskInv'
    <3>1. HeadInv'
      BY <1>0, <1>1, <2>1 DEF HeadInv, Installing, Writing
    <3>2. DiskInv'
      BY <1>0, <1>1, <2>1, ZenonT(30) DEF DiskInv, Installing
    <3> QED
      BY <3>1, <3>2, Zenon
  <2>6. CacheInv'
    BY <1>0, <1>1, <2>1 DEF CacheInv, Installing, Writing
  <2>7. CommitIsExclusive'
    <3>1. InOp' = {}
      <4>1. Cardinality(InOp') = 0 /\ IsFiniteSet(InOp')
        BY <1>3, <2>1, <2>2, InOpFinite, FS_Subset, ZenonT(30)
      <4> QED
        BY <4>1, FS_EmptySet, Zenon
    <3> QED
      BY <1>0, <1>3, <2>1, <3>1, Zenon DEF CommitIsExclusive, TypeOK
  <2>8. PinnedUntilInstalled'
    BY <1>0, <1>1, <2>1, Zenon DEF PinnedUntilInstalled, ToInstall
  <2>9. NoLostWakeup'
    BY <2>1, Zenon DEF NoLostWakeup, MustWait
  <2> QED
    BY <2>3, <2>4, <2>5, <2>6, <2>7, <2>8, <2>9, Zenon
<1>5. CASE ~DoCommit
  <2>1. /\ UNCHANGED <<committing, stage, tail>>
        /\ pc' = Wakeup([pc EXCEPT ![p] = "idle"])
    BY <1>0, <1>5, Zenon DEF end_op
  <2>2. /\ pc' \in [Proc -> PC]
        /\ \A q \in Proc : pc'[q] # "waiting"
        /\ \A q \in Proc : pc'[q] = "commit" <=> pc[q] = "commit"
        /\ InOp' = InOp \ {p} /\ p \in InOp
    BY <1>1, <2>1 DEF TypeOK, PC, Wakeup, InOp
  <2>3. outstanding' = Cardinality(InOp')
    BY <1>1, <1>2, <2>2, InOpFinite, FS_RemoveElement, Zenon
  <2>4. TypeOK'
    <3>1. outstanding' \in Nat /\ wrote' \in [Proc -> SUBSET Block]
      BY <1>1, <1>2 DEF TypeOK
    <3> QED
      BY <1>1, <2>1, <2>2, <3>1, Zenon DEF TypeOK
  <2>5. StageInv'
    BY <1>0, <1>1, <2>1, Zenon DEF StageInv, Installing
  <2>6. HeadInv' /\ DiskInv' /\ CacheInv' /\ PinnedUntilInstalled'
    <3>1. HeadInv'
      BY <1>1, <2>1, SMTT(30) DEF HeadInv
    <3>2. DiskInv'
      BY <1>1, <2>1, Zenon DEF DiskInv
    <3>3. CacheInv'
      BY <1>1, <2>1, ZenonT(30) DEF CacheInv
    <3>4. PinnedUntilInstalled'
      BY <1>1, <2>1 DEF PinnedUntilInstalled, ToInstall
    <3> QED
      BY <3>1, <3>2, <3>3, <3>4, Zenon
  <2>7. CommitIsExclusive'
    BY <1>0, <2>1, <2>2, <2>3, Zenon DEF CommitIsExclusive
  <2>8. NoLostWakeup'
    BY <2>2, Zenon DEF NoLostWakeup
  <2> QED
    BY <2>4, <2>5, <2>6, <2>7, <2>8, Zenon
<1> QED
  BY <1>4, <1>5, Zenon

(* begin_op lets an operation in: nobody is committing, so none is disturbed. *)
LEMMA BeginEnterStep ==
    ASSUME NEW p \in Proc, IInv, begin_op_enter(p)
    PROVE  IInv'
<1> USE DEF IInv, diskvars, bufvars, lockvars, procvars, stepvars
<1>1. TypeOK'
  BY DEF begin_op_enter, TypeOK, PC
<1>2. StageInv'
  BY Zenon DEF begin_op_enter, StageInv, Running
<1>3. HeadInv' /\ DiskInv' /\ CacheInv'
  BY DEF begin_op_enter, HeadInv, DiskInv, CacheInv
<1>4. CommitIsExclusive'
  <2>1. InOp' = InOp \cup {p} /\ p \notin InOp
    BY Zenon DEF begin_op_enter, InOp, TypeOK
  <2>2. Cardinality(InOp') = Cardinality(InOp) + 1
    BY <2>1, InOpFinite, FS_AddElement, ZenonT(30)
  <2> QED
    BY <2>1, <2>2, Zenon DEF begin_op_enter, CommitIsExclusive, TypeOK, MustWait
<1>5. PinnedUntilInstalled'
  BY Zenon DEF begin_op_enter, PinnedUntilInstalled, ToInstall
<1>6. NoLostWakeup'
  BY Zenon DEF begin_op_enter, NoLostWakeup, TypeOK
<1> QED
  BY <1>1, <1>2, <1>3, <1>4, <1>5, <1>6, Zenon

(* The initial state, a fresh file system about to boot, satisfies IInv. *)
LEMMA InitIInv == Init => IInv
<1> SUFFICES ASSUME Init PROVE IInv
  OBVIOUS
<1>1. PICK d \in [Block -> Value] : LogInit(d)
  BY DEF Init
<1>2. TypeOK
  <2>1. disk \in [Block -> Value \cup {Torn}] /\ dlog \in [Slot -> Value \cup {Torn}]
    BY <1>1, Zenon DEF LogInit
  <2>2. dhead \in Seq(Block) /\ Len(dhead) <= LOGSIZE /\ lh \in Seq(Block)
    BY <1>1, ConstAssumption DEF LogInit
  <2>3. cache \in [Block -> Value \cup {NoBuf}] /\ pins \in [Block -> Nat]
    BY <1>1, Zenon DEF LogInit
  <2>4. pc \in [Proc -> PC] /\ wrote \in [Proc -> SUBSET Block]
    BY <1>1, Zenon DEF LogInit, PC
  <2>5. outstanding \in Nat /\ tail \in 1 .. LOGSIZE + 1
    BY <1>1, ConstAssumption DEF LogInit
  <2>6. /\ committing \in BOOLEAN /\ recovering \in BOOLEAN /\ panicked \in BOOLEAN
        /\ stage \in Stage
    BY <1>1, Zenon DEF LogInit, Stage
  <2>7. Len(lh) <= LOGSIZE
    BY <1>1, ConstAssumption DEF LogInit
  <2> QED
    BY <2>1, <2>2, <2>3, <2>4, <2>5, <2>6, <2>7, Zenon DEF TypeOK
<1>3. StageInv
  BY <1>1, Zenon DEF LogInit, StageInv, Installing
<1>4. HeadInv
  BY <1>1 DEF LogInit, HeadInv, Installing, Writing
<1>5. DiskInv
  BY <1>1, Zenon DEF LogInit, DiskInv, Installing
<1>6. CacheInv
  BY <1>1, Zenon DEF LogInit, CacheInv, Installing, Writing
<1>7. CommitIsExclusive
  <2>1. InOp = {}
    BY <1>1, Zenon DEF LogInit, InOp
  <2> QED
    BY <1>1, <2>1, FS_EmptySet, Zenon DEF LogInit, CommitIsExclusive
<1>8. PinnedUntilInstalled /\ NoLostWakeup
  BY <1>1, Zenon DEF LogInit, PinnedUntilInstalled, NoLostWakeup
<1> QED
  BY <1>2, <1>3, <1>4, <1>5, <1>6, <1>7, <1>8, Zenon DEF IInv

(* A crash leaves the disk, and recovery can start from any stage. *)
LEMMA CrashStep ==
    ASSUME IInv, Crash
    PROVE  IInv'
<1> USE DEF IInv, diskvars
<1>1. Len(lh') = 0 /\ LOGSIZE \in Nat /\ lh' \in Seq(Block)
  BY ConstAssumption DEF Crash
<1>2. TypeOK'
  <2>1. /\ cache' \in [Block -> Value \cup {NoBuf}] /\ pins' \in [Block -> Nat]
        /\ pc' \in [Proc -> PC] /\ wrote' \in [Proc -> SUBSET Block]
    BY Zenon DEF Crash, PC
  <2>2. /\ outstanding' \in Nat /\ tail' \in 1 .. LOGSIZE + 1 /\ Len(lh') <= LOGSIZE
    BY <1>1 DEF Crash
  <2>3. /\ committing' \in BOOLEAN /\ recovering' \in BOOLEAN /\ panicked' \in BOOLEAN
        /\ stage' \in Stage
    BY Zenon DEF Crash, Stage
  <2>4. UNCHANGED <<disk, dlog, dhead>>
    BY Zenon DEF Crash
  <2> QED
    BY <1>1, <2>1, <2>2, <2>3, <2>4, Zenon DEF TypeOK
<1>3. StageInv'
  BY Zenon DEF Crash, StageInv, Installing
<1>4. HeadInv' /\ DiskInv' /\ CacheInv'
  <2>1. HeadInv'
    BY <1>1 DEF Crash, HeadInv, Installing, Writing
  <2>2. DiskInv'
    BY Zenon DEF Crash, DiskInv, Installing
  <2>3. CacheInv'
    BY <1>1, Zenon DEF Crash, CacheInv, Installing, Writing
  <2> QED
    BY <2>1, <2>2, <2>3, Zenon
<1>5. CommitIsExclusive'
  <2>1. InOp' = {}
    BY Zenon DEF Crash, InOp
  <2> QED
    BY <2>1, FS_EmptySet, Zenon DEF Crash, CommitIsExclusive
<1>6. PinnedUntilInstalled' /\ NoLostWakeup'
  BY Zenon DEF Crash, PinnedUntilInstalled, NoLostWakeup
<1> QED
  BY <1>2, <1>3, <1>4, <1>5, <1>6, Zenon

(* Every step preserves the invariant. *)
LEMMA NextIInv == IInv /\ [Next]_vars => IInv'
<1> SUFFICES ASSUME IInv, [Next]_vars PROVE IInv'
  BY Zenon
<1>1. CASE UNCHANGED vars
  <2>0. /\ TypeOK /\ StageInv /\ HeadInv /\ DiskInv /\ CacheInv
        /\ CommitIsExclusive /\ PinnedUntilInstalled /\ NoLostWakeup
    BY Zenon DEF IInv
  <2> USE <1>1, <2>0 DEF vars
  <2>1. TypeOK'
    BY Zenon DEF TypeOK
  <2>2. StageInv'
    BY Zenon DEF StageInv
  <2>3. HeadInv'
    BY SMTT(30) DEF HeadInv
  <2>4. DiskInv'
    BY Zenon DEF DiskInv
  <2>5. CacheInv'
    BY Zenon DEF CacheInv
  <2>6. CommitIsExclusive'
    BY Zenon DEF CommitIsExclusive, InOp
  <2>7. PinnedUntilInstalled'
    BY Zenon DEF PinnedUntilInstalled, ToInstall
  <2>8. NoLostWakeup'
    BY Zenon DEF NoLostWakeup, MustWait, LogFull
  <2> QED
    BY <2>1, <2>2, <2>3, <2>4, <2>5, <2>6, <2>7, <2>8, ZenonT(30) DEF IInv
<1>2. CASE \E p \in Proc : begin_op(p) \/ end_op(p) \/ end_op_finish(p)
  BY <1>2, BeginSleepStep, BeginEnterStep, EndOpStep, EndFinishStep, Zenon DEF begin_op
<1>3. CASE \E p \in Proc, b \in Block, v \in Value : log_write(p, b, v)
  BY <1>3, LogWriteStep, Zenon
<1>4. CASE DiskStep
  BY <1>4, WriteLogStep, WriteLogIOStep, InstallStep, InstallIOStep,
     WriteHeadStep, ClearHeadStep, ReadHeadStep, Zenon DEF DiskStep
<1>5. CASE \E b \in Block : bread(b) \/ bget_recycle(b)
  BY <1>5, BreadStep, RecycleStep, Zenon
<1>6. CASE Crash
  BY <1>6, CrashStep
<1> QED
  BY <1>1, <1>2, <1>3, <1>4, <1>5, <1>6, Zenon DEF Next

(* Every reachable state of the log, crashes included, satisfies IInv. *)
THEOREM InductiveInvariant == Spec => []IInv
<1> QED
  BY InitIInv, NextIInv, PTL DEF Spec

-----------------------------------------------------------------------------
(* The variables of log.c and of the blocks it handles keep their types:   *)
(* no pin count becomes negative, log.lh never outgrows its array.         *)
THEOREM TypeCorrect == Spec => []TypeOK
  BY InductiveInvariant, PTL DEF IInv

(* No commit overlaps an operation or another commit. *)
THEOREM ExclusiveCommit == Spec => []CommitIsExclusive
  BY InductiveInvariant, PTL DEF IInv

(* A logged block stays cached and pinned until it is installed. *)
THEOREM LoggedStaysPinned == Spec => []PinnedUntilInstalled
  BY InductiveInvariant, PTL DEF IInv

(* No process sleeps in begin_op on a condition that is false. *)
THEOREM NoWakeupIsLost == Spec => []NoLostWakeup
  BY InductiveInvariant, PTL DEF IInv

(* A step changes a home block on disk only to tear it or to complete it,  *)
(* while the header lists it and its slot is complete.                     *)
LEMMA WriteAheadStep ==
    IInv /\ [Next]_vars =>
        [\A b \in Block :
            disk'[b] # disk[b] =>
                \E i \in 1 .. Len(dhead) :
                    /\ dhead[i] = b
                    /\ dlog[i] # Torn
                    /\ disk'[b] \in {Torn, dlog[i]}]_vars
<1> SUFFICES ASSUME IInv, Next, NEW b \in Block, disk'[b] # disk[b]
             PROVE  \E i \in 1 .. Len(dhead) : /\ dhead[i] = b
                                               /\ dlog[i] # Torn
                                               /\ disk'[b] \in {Torn, dlog[i]}
  BY Zenon DEF vars
<1>1. PICK c \in Block : install_trans(c) \/ install_trans_io(c)
  BY Zenon DEF Next, begin_op, DiskStep, begin_op_sleep, begin_op_enter, log_write,
         end_op, end_op_finish, write_log, write_log_io, write_head, clear_head,
         read_head, bread, bget_recycle, Crash, diskvars
<1>2. /\ stage \in Installing /\ tail \in 1 .. Len(lh) /\ dhead = lh /\ lh[tail] = c
  BY <1>1, Zenon DEF IInv, StageInv, HeadInv, Installing, install_trans,
     install_trans_io
<1>3. dlog[tail] \in Value
  BY <1>2, SlotIsComplete, ZenonT(30)
<1>4. disk'[c] \in {Torn, dlog[tail]} /\ (b # c => disk'[b] = disk[b])
  BY <1>1, <1>2 DEF install_trans, install_trans_io, IInv, TypeOK, CacheInv
<1> QED
  BY <1>2, <1>3, <1>4, ValueAssumption, Zenon

(* The write-ahead rule holds in every behaviour. *)
THEOREM WritesAhead == Spec => WriteAhead
  BY InductiveInvariant, WriteAheadStep, PTL DEF Spec, WriteAhead

-----------------------------------------------------------------------------
(* Every step keeps the space invariant. *)
LEMMA NextSpaceInv ==
    ASSUME EnoughSlack
    PROVE  IInv /\ IInv' /\ SpaceInv /\ [Next]_vars => SpaceInv'
<1> SUFFICES ASSUME IInv, IInv', SpaceInv, [Next]_vars PROVE SpaceInv'
  BY Zenon
<1> USE DEF diskvars, bufvars, lockvars, procvars, stepvars
<1>1. CASE UNCHANGED vars
  BY <1>1, SameOpsFit, Zenon DEF vars
<1>2. ASSUME NEW p \in Proc, begin_op_sleep(p) PROVE SpaceInv'
  <2>1. InOp' = InOp /\ UNCHANGED <<wrote, lh, panicked>>
    BY <1>2, Zenon DEF begin_op_sleep, InOp, IInv, TypeOK
  <2>2. Slack' = Slack
    BY <2>1, ZenonT(30) DEF Slack
  <2> QED
    BY <2>1, <2>2, ZenonT(30) DEF SpaceInv
<1>3. ASSUME NEW p \in Proc, end_op_finish(p) PROVE SpaceInv'
  <2>1. InOp' = InOp /\ UNCHANGED <<wrote, lh, panicked>>
    BY <1>3, Zenon DEF end_op_finish, InOp, Wakeup, IInv, TypeOK
  <2>2. Slack' = Slack
    BY <2>1, SMTT(30) DEF Slack
  <2> QED
    BY <2>1, <2>2, SMTT(30) DEF SpaceInv
<1>4. CASE \E p \in Proc, b \in Block, v \in Value : log_write(p, b, v)
  BY <1>4, LogWriteKeepsSpace, Zenon
<1>5. CASE clear_head \/ read_head
  <2>1. ~panicked' /\ UNCHANGED pc
    BY <1>5, SMTT(30) DEF clear_head, read_head, SpaceInv
  <2>2. InOp = {}
    BY <1>5, Zenon DEF clear_head, read_head, InOp, IInv, StageInv, CommitIsExclusive
  <2>3. InOp' = {}
    BY <2>1, <2>2, ZenonT(30) DEF InOp
  <2> QED
    BY <2>1, <2>3, NoOpsFits, Zenon
<1>6. CASE write_head \/ \E b \in Block :
               \/ write_log(b) \/ write_log_io(b) \/ install_trans(b)
               \/ install_trans_io(b) \/ bread(b) \/ bget_recycle(b)
  BY <1>6, SameOpsFit, Zenon DEF write_head, write_log, write_log_io, install_trans,
     install_trans_io, bread, bget_recycle
<1>7. CASE Crash
  <2>1. ~panicked' /\ InOp' = {}
    BY <1>7, Zenon DEF Crash, InOp
  <2> QED
    BY <2>1, NoOpsFits, Zenon
<1> QED
  BY <1>1, <1>2, <1>3, <1>4, <1>5, <1>6, <1>7, BeginKeepsSpace, EndKeepsSpace, Zenon
  DEF Next, begin_op, DiskStep

(* When operations stay within EnoughSlack no call of log_write or end_op  *)
(* panics, for any number of processes and any sizes of the log.           *)
THEOREM NeverPanics ==
    ASSUME EnoughSlack
    PROVE  Spec => []NoPanic
<1>1. Init => SpaceInv
  <2> SUFFICES ASSUME Init PROVE SpaceInv
    BY Zenon
  <2>1. PICK d \in [Block -> Value] : LogInit(d)
    BY Zenon DEF Init
  <2>2. InOp = {} /\ ~panicked
    BY <2>1, Zenon DEF LogInit, InOp
  <2>3. Slack = {} /\ Cardinality(Slack) = 0
    BY <2>2, FS_EmptySet, Zenon DEF Slack
  <2> QED
    BY <2>2, <2>3, InitIInv, ConstAssumption DEF SpaceInv, IInv, TypeOK
<1>2. IInv /\ IInv' /\ SpaceInv /\ [Next]_vars => SpaceInv'
  BY NextSpaceInv, Zenon
<1>3. SpaceInv => NoPanic
  BY Zenon DEF SpaceInv, NoPanic
<1> QED
  BY <1>1, <1>2, <1>3, InductiveInvariant, PTL DEF Spec

-----------------------------------------------------------------------------
(* A fresh disk is an initial state of the journal. *)
LEMMA InitRefines == Init => J!Init
<1> SUFFICES ASSUME Init PROVE J!Init
  BY ZenonT(30)
<1>1. PICK d \in [Block -> Value] : LogInit(d)
  BY ZenonT(30) DEF Init
<1>2. recovering /\ InOp = {}
  BY <1>1, Zenon DEF LogInit, InOp
<1>3. Recovered \in [Block -> Value]
  BY InitIInv, RecoveredFacts, Zenon
<1> QED
  BY <1>2, <1>3, Zenon DEF J!Init

(* One lemma per action: it is a step of the journal or leaves it alone. *)
LEMMA BeginRefines ==
    ASSUME IInv, NEW p \in Proc, begin_op(p)
    PROVE  [J!Next]_J!vars
<1> USE DEF diskvars, bufvars, lockvars, procvars, stepvars
<1>1. UNCHANGED <<disk, dlog, dhead, cache, recovering>>
  BY Zenon DEF begin_op, begin_op_sleep, begin_op_enter
<1>2. Recovered' = Recovered /\ View' = View
  BY <1>1, Zenon DEF Recovered, View
<1>3. CASE begin_op_sleep(p)
  <2>1. InOp' = InOp
    BY <1>3, Zenon DEF begin_op_sleep, InOp, IInv, TypeOK
  <2> QED
    BY <1>1, <1>2, <2>1, Stutters, ZenonT(30) DEF MemBar
<1>4. CASE begin_op_enter(p)
  <2>1. InOp' = InOp \cup {p} /\ p \notin InOp
    BY <1>4, Zenon DEF begin_op_enter, InOp, IInv, TypeOK
  <2>2. J!Begin(p)
    BY <1>1, <1>2, <2>1, Zenon DEF J!Begin
  <2> QED
    BY <2>2, Zenon DEF J!Next
<1> QED
  BY <1>3, <1>4, Zenon DEF begin_op

(* log_write is a Write of the journal (or, if it panics, a Write too). *)
LEMMA LogWriteRefines ==
    ASSUME IInv, NEW p \in Proc, NEW b \in Block, NEW v \in Value, log_write(p, b, v)
    PROVE  [J!Next]_J!vars
<1>1. /\ UNCHANGED <<disk, dlog, dhead, pc, recovering>>
      /\ cache' = [cache EXCEPT ![b] = v]
      /\ pc[p] = "op" /\ ~recovering
  BY ZenonT(30) DEF log_write, diskvars, stepvars, Running
<1>2. Recovered' = Recovered /\ InOp' = InOp /\ p \in InOp
  BY <1>1, Zenon DEF Recovered, InOp
<1>3. View' = [View EXCEPT ![b] = v]
  BY <1>1, ValueAssumption, Zenon DEF View, IInv, TypeOK
<1>4. J!Write(p, b, v)
  BY <1>1, <1>2, <1>3, Zenon DEF J!Write
<1> QED
  BY <1>4, ZenonT(30) DEF J!Next

(* end_op is an End of the journal, whether or not it starts a commit. *)
LEMMA EndOpRefines ==
    ASSUME IInv, NEW p \in Proc, end_op(p)
    PROVE  [J!Next]_J!vars
<1>1. UNCHANGED <<disk, dlog, dhead, cache, recovering>> /\ pc[p] = "op"
  BY Zenon DEF end_op, diskvars, bufvars
<1>2. Recovered' = Recovered /\ View' = View /\ p \in InOp
  BY <1>1, Zenon DEF Recovered, View, InOp
<1>3. ~committing
  BY <1>1, OpMeansNoStage, ZenonT(30)
<1>4. InOp' = InOp \ {p}
  BY <1>1, <1>3, Zenon DEF end_op, InOp, IInv, TypeOK, Wakeup
<1>5. J!End(p)
  BY <1>1, <1>2, <1>4, Zenon DEF J!End
<1> QED
  BY <1>5, Zenon DEF J!Next

(* Filling the slots of the log is invisible: no header lists them yet. *)
LEMMA WriteLogRefines ==
    ASSUME IInv, NEW b \in Block, write_log(b) \/ write_log_io(b)
    PROVE  [J!Next]_J!vars
<1>1. /\ UNCHANGED <<disk, dhead, pc, recovering>>
      /\ stage \in Writing /\ ~recovering
      /\ tail \in 1 .. Len(lh) /\ lh[tail] = b
  BY Zenon DEF write_log, write_log_io, procvars, Writing, IInv, StageInv, Installing
<1>2. dhead = <<>>
  BY <1>1, Zenon DEF IInv, HeadInv
<1>3. Recovered' = Recovered
  BY <1>1, <1>2, RecoveredUnchanged
<1>4. cache[b] # NoBuf
  BY <1>1, UncachedIsInstalled, Zenon DEF Writing, Installing
<1>5. cache' = cache
  BY <1>4, Zenon DEF write_log, write_log_io, bufvars, View, IInv, TypeOK
<1>6. View' = View /\ InOp' = InOp
  BY <1>1, <1>5 DEF View, InOp
<1> QED
  BY <1>1, <1>3, <1>6, Stutters, ZenonT(30) DEF MemBar

(* Reading a block in, or recycling a buffer that nobody references. *)
LEMMA BufferRefines ==
    ASSUME IInv, NEW b \in Block, bread(b) \/ bget_recycle(b)
    PROVE  [J!Next]_J!vars
<1>1. UNCHANGED <<disk, dlog, dhead, pc, recovering>> /\ ~panicked
  BY ZenonT(30) DEF bread, bget_recycle, diskvars, procvars, stepvars, Running
<1>2. Recovered' = Recovered /\ InOp' = InOp
  BY <1>1, Zenon DEF Recovered, InOp
<1>3. CASE bread(b)
  <2>1. View' = View
    BY <1>1, <1>3, Zenon DEF bread, View, IInv, TypeOK
  <2> QED
    BY <1>1, <1>2, <2>1, Stutters, ZenonT(30) DEF MemBar
<1>4. CASE bget_recycle(b)
  <2>1. ~recovering => cache[b] \in {NoBuf, disk[b]}
    <3> SUFFICES ASSUME ~recovering, cache[b] # NoBuf PROVE cache[b] = disk[b]
      BY Zenon
    <3>1. b \notin ToInstall
      BY <1>4, SMTT(30) DEF bget_recycle, IInv, PinnedUntilInstalled
    <3>2. CASE b \notin Range(lh)
      BY <1>1, <3>2, ZenonT(30) DEF IInv, CacheInv
    <3>3. CASE b \in Range(lh)
      <4>1. PICK i \in 1 .. Len(lh) : lh[i] = b
        BY <3>3, RangeFacts, ZenonT(30) DEF IInv
      <4>2. stage \in Installing /\ i \in 1 .. tail - 1
        <5>1. stage \in Installing
          BY <3>1, <3>3, Zenon DEF ToInstall, Installing
        <5>2. i \notin tail .. Len(lh)
          BY <3>1, <4>1, <5>1, Zenon DEF ToInstall, Installing
        <5>3. tail \in Int /\ Len(lh) \in Int
          BY DEF IInv, TypeOK
        <5> QED
          BY <4>1, <5>1, <5>2, <5>3
      <4> QED
        BY <4>1, <4>2, ZenonT(30) DEF IInv, CacheInv, DiskInv
    <3> QED
      BY <3>2, <3>3, Zenon
  <2>2. ~recovering => View' = View
    BY <1>1, <1>4, <2>1, Zenon DEF bget_recycle, View, IInv, TypeOK
  <2> QED
    BY <1>1, <1>2, <2>2, Stutters, Zenon DEF MemBar
<1> QED
  BY <1>3, <1>4, Zenon

(* A crash loses exactly what recovery would not find. *)
LEMMA CrashRefines ==
    ASSUME Crash
    PROVE  [J!Next]_J!vars
<1>1. Recovered' = Recovered /\ recovering' /\ InOp' = {}
  BY Zenon DEF Crash, diskvars, Recovered, InOp
<1>2. J!Crash
  BY <1>1, Zenon DEF J!Crash
<1> QED
  BY <1>2, Zenon DEF J!Next

(* The end of a commit, and the start of recovery. *)
LEMMA FlagRefines ==
    ASSUME IInv, read_head \/ \E p \in Proc : end_op_finish(p)
    PROVE  [J!Next]_J!vars
<1>1. UNCHANGED <<disk, dlog, dhead, cache, recovering>>
  BY Zenon DEF read_head, end_op_finish, diskvars, bufvars
<1>2. Recovered' = Recovered /\ View' = View
  <2>1. Recovered' = Recovered
    BY <1>1, ZenonT(30) DEF Recovered
  <2>2. View' = View
    BY <1>1, ZenonT(30) DEF View
  <2> QED
    BY <2>1, <2>2
<1>3. InOp' = InOp
  BY Zenon DEF read_head, end_op_finish, procvars, InOp, Wakeup, IInv, TypeOK
<1> QED
  BY <1>1, <1>2, <1>3, Stutters, Zenon DEF MemBar

(* Every step of the log is a step of the journal or leaves it alone. *)
LEMMA NextRefines == IInv /\ IInv' /\ [Next]_vars => [J!Next]_J!vars
<1> SUFFICES ASSUME IInv, IInv', [Next]_vars PROVE [J!Next]_J!vars
  BY Zenon
<1>1. CASE UNCHANGED vars
  <2>1. Recovered' = Recovered /\ View' = View /\ InOp' = InOp /\ recovering' = recovering
    BY <1>1, Zenon DEF vars, Recovered, View, InOp
  <2> QED
    BY <2>1, Stutters, ZenonT(30) DEF MemBar
<1>2. CASE \E p \in Proc : begin_op(p) \/ end_op(p) \/ end_op_finish(p)
  BY <1>2, BeginRefines, EndOpRefines, FlagRefines, Zenon
<1>3. CASE \E p \in Proc, b \in Block, v \in Value : log_write(p, b, v)
  BY <1>3, LogWriteRefines, Zenon
<1>4. CASE DiskStep
  BY <1>4, WriteLogRefines, WriteHeadRefines, InstallRefines, ClearHeadRefines,
     FlagRefines, Zenon DEF DiskStep
<1>5. CASE \E b \in Block : bread(b) \/ bget_recycle(b)
  BY <1>5, BufferRefines, Zenon
<1>6. CASE Crash
  BY <1>6, CrashRefines, Zenon
<1> QED
  BY <1>1, <1>2, <1>3, <1>4, <1>5, <1>6, ZenonT(30) DEF Next

(* log.c implements the atomic journal, whatever the number of processes   *)
(* and blocks, the sizes of the log, and the moments of the crashes.       *)
THEOREM LogImplementsJournal == Spec => ImplementsJournal
  BY InitRefines, NextRefines, InductiveInvariant, PTL
  DEF Spec, ImplementsJournal, J!Spec

(* When a commit is over and nothing crashed, what is durable is the view. *)
LEMMA DurableStep ==
    IInv /\ [Next]_vars =>
        [\A p \in Proc :
            (pc[p] = "commit" /\ pc'[p] = "idle" /\ ~recovering')
                => Recovered' = View']_vars
<1> SUFFICES ASSUME IInv, Next, NEW p \in Proc,
                    pc[p] = "commit", pc'[p] = "idle", ~recovering'
             PROVE  Recovered' = View'
  BY Zenon DEF vars
<1>1. committing /\ \A q \in Proc : pc[q] # "op"
  BY DEF IInv, CommitIsExclusive, InOp
<1>2. PICK q \in Proc : begin_op(q) \/ end_op_finish(q)
  BY <1>1, Zenon DEF Next, DiskStep, log_write, end_op, write_log, write_log_io,
         write_head, install_trans, install_trans_io, clear_head, read_head, bread,
         bget_recycle, Crash, procvars, IInv, TypeOK
<1>3. end_op_finish(q)
  BY <1>2, ZenonT(30) DEF begin_op, begin_op_sleep, begin_op_enter, IInv, TypeOK
<1>4. /\ UNCHANGED <<disk, dlog, dhead, cache>>
      /\ lh = <<>> /\ dhead = <<>> /\ ~recovering /\ ~panicked
  BY <1>3, ZenonT(30) DEF end_op_finish, diskvars, bufvars, Running, IInv, StageInv,
     HeadInv
<1>5. \A b \in Block : Recovered'[b] = disk[b] /\ View'[b] = disk[b]
  BY <1>4, ViewOutsideLog DEF Recovered, Range, View
<1> QED
  BY <1>5, Zenon DEF Recovered, View

(* An operation whose end_op committed survives any later crash. *)
THEOREM CommittedIsDurable == Spec => DurableOnReturn
  BY DurableStep, InductiveInvariant, PTL DEF Spec, DurableOnReturn
=============================================================================
