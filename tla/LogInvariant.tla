--------------------------- MODULE LogInvariant ---------------------------
(***************************************************************************)
(* The inductive invariant IInv of Log, for any number of processes and    *)
(* blocks and any sizes.  First, that the steps that move data refine the  *)
(* atomic journal; then, that the steps of the commit and of recovery,     *)
(* log_write and the buffer cache preserve IInv.  LogProofs has the steps  *)
(* that count operations, and what follows from the invariant.             *)
(***************************************************************************)
EXTENDS Log, TLAPS

Writing == {"write_log", "write_log_io", "write_head"}
Installing == {"install", "install_io", "clear_head"}

(* Which stages go with which flags, and where the loop variable is. *)
StageInv ==
    /\ recovering => /\ stage \in {"read_head"} \cup Installing
                     /\ ~committing /\ ~panicked
                     /\ outstanding = 0
                     /\ pc = [p \in Proc |-> "idle"]
    /\ ~recovering => /\ stage # "read_head"
                      /\ committing <=> stage # "none"
    /\ stage \in {"write_log", "write_log_io", "install", "install_io"}
           => tail \in 1 .. Len(lh)
    /\ stage \in {"write_head", "clear_head"} => tail = Len(lh) + 1
    /\ stage = "write_head" => Len(lh) > 0
    /\ stage \in {"read_head", "finish"} => lh = <<>>
    /\ panicked => ~committing

(* The header on disk is empty until the commit point, and equal to log.lh *)
(* from there until it is erased; the slots it lists are complete; a block *)
(* appears once.                                                           *)
HeadInv ==
    /\ stage \in Installing => dhead = lh
    /\ stage \in {"none", "finish"} \cup Writing => dhead = <<>>
    /\ \A i, j \in 1 .. Len(lh) : lh[i] = lh[j] => i = j
    /\ \A i, j \in 1 .. Len(dhead) : dhead[i] = dhead[j] => i = j
    /\ \A i \in 1 .. Len(dhead) : dlog[i] \in Value

(* Only a block that the header lists can be torn, and the blocks already  *)
(* installed equal their slots.                                            *)
DiskInv ==
    /\ \A b \in Block : b \notin Range(dhead) => disk[b] \in Value
    /\ stage \in Installing => \A i \in 1 .. tail - 1 : disk[lh[i]] = dlog[i]

(* What the cache holds, in the running system and during recovery. *)
CacheInv ==
    /\ ~recovering /\ ~panicked =>
           \A b \in Block : b \notin Range(lh) => cache[b] \in {NoBuf, disk[b]}
    /\ stage \in Writing => \A i \in 1 .. tail - 1 : dlog[i] = cache[lh[i]]
    /\ stage \in Installing =>
           \A i \in 1 .. tail - 1 : cache[lh[i]] \in {NoBuf, dlog[i]}
    /\ stage \in Installing /\ ~recovering =>
           \A i \in tail .. Len(lh) : cache[lh[i]] = dlog[i]
    /\ stage = "install_io" => cache[lh[tail]] = dlog[tail]
    /\ recovering => \A b \in Block : pins[b] = 0
    /\ recovering => \A b \in Block :
           \/ cache[b] = NoBuf
           \/ \E i \in 1 .. tail : i <= Len(lh) /\ lh[i] = b

IInv == /\ TypeOK
        /\ StageInv
        /\ HeadInv
        /\ DiskInv
        /\ CacheInv
        /\ CommitIsExclusive
        /\ PinnedUntilInstalled
        /\ NoLostWakeup

-----------------------------------------------------------------------------
(* A block is in log.lh, or in the header on disk, iff some entry is it. *)
LEMMA RangeFacts ==
    ASSUME TypeOK
    PROVE  /\ \A b : b \in Range(lh) <=> \E i \in 1 .. Len(lh) : lh[i] = b
           /\ \A b : b \in Range(dhead) <=> \E i \in 1 .. Len(dhead) : dhead[i] = b
           /\ \A i \in 1 .. Len(lh) : lh[i] \in Block
           /\ \A i \in 1 .. Len(dhead) : dhead[i] \in Block
  BY DEF TypeOK, Range

(* What install_trans reads from a slot is a complete block. *)
LEMMA SlotIsComplete ==
    ASSUME IInv, stage \in Installing
    PROVE  \A i \in 1 .. Len(lh) : dlog[i] \in Value
  BY Zenon DEF IInv, HeadInv

(* A block of the transaction that has no buffer is already installed. *)
LEMMA UncachedIsInstalled ==
    ASSUME IInv, ~recovering, NEW i \in 1 .. Len(lh), cache[lh[i]] = NoBuf
    PROVE  stage \in Installing /\ i < tail
<1>1. lh[i] \notin ToInstall
  BY RangeFacts, Zenon DEF IInv, PinnedUntilInstalled
<1>2. stage \in Installing
  BY <1>1, RangeFacts, Zenon DEF IInv, ToInstall, Installing
<1> QED
  BY <1>1, <1>2 DEF ToInstall, Installing, IInv, TypeOK

(* In the running system a block without buffer is complete on disk. *)
LEMMA UncachedIsComplete ==
    ASSUME IInv, ~recovering, NEW b \in Block, cache[b] = NoBuf
    PROVE  disk[b] \in Value
<1>1. CASE b \notin Range(dhead)
  BY <1>1, Zenon DEF IInv, DiskInv
<1>2. CASE b \in Range(dhead)
  <2>1. stage \in Installing /\ dhead = lh
    <3>1. dhead # <<>>
      BY <1>2, RangeFacts DEF IInv
    <3>2. stage \in Stage /\ stage # "read_head"
      BY Zenon DEF IInv, TypeOK, StageInv
    <3>3. stage \notin {"none", "finish"} \cup Writing
      BY <3>1, Zenon DEF IInv, HeadInv
    <3>4. stage \in Installing
      BY <3>2, <3>3, Zenon DEF Stage, Installing, Writing
    <3> QED
      BY <3>4, Zenon DEF IInv, HeadInv
  <2>2. PICK i \in 1 .. Len(lh) : lh[i] = b
    BY <1>2, <2>1, RangeFacts, Zenon DEF IInv
  <2>3. i < tail
    BY <2>2, UncachedIsInstalled, Zenon
  <2>4. disk[b] = dlog[i]
    BY <2>1, <2>2, <2>3 DEF IInv, DiskInv, TypeOK
  <2> QED
    BY <2>1, <2>4, SlotIsComplete, Zenon
<1> QED
  BY <1>1, <1>2, Zenon

(* While a process is inside an operation no disk step is under way. *)
LEMMA OpMeansNoStage ==
    ASSUME IInv, NEW p \in Proc, pc[p] = "op"
    PROVE  /\ stage = "none" /\ ~committing /\ ~recovering
           /\ dhead = <<>> /\ Range(dhead) = {} /\ ToInstall = Range(lh)
<1>1. ~committing
  BY Zenon DEF IInv, CommitIsExclusive, InOp
<1>2. ~recovering
  BY Zenon DEF IInv, StageInv
<1>3. stage = "none"
  BY <1>1, <1>2, Zenon DEF IInv, StageInv
<1> QED
  BY <1>1, <1>2, <1>3 DEF IInv, HeadInv, ToInstall, Range

(* In a header without repetitions an entry is the last one for its block. *)
LEMMA LastEntryUnique ==
    ASSUME NEW d \in Seq(Block), NEW i \in 1 .. Len(d),
           \A j, k \in 1 .. Len(d) : d[j] = d[k] => j = k
    PROVE  LastEntry(d, d[i]) = i
<1> DEFINE Last(k) == /\ d[k] = d[i]
                      /\ \A j \in k + 1 .. Len(d) : d[j] # d[i]
<1>1. Last(i) /\ \A k \in 1 .. Len(d) : Last(k) => k = i
  OBVIOUS
<1> QED
  BY <1>1, Zenon DEF LastEntry

(* As a block is listed once, LastEntry is the slot it is listed at. *)
LEMMA LastSlot ==
    ASSUME IInv, NEW i \in 1 .. Len(dhead)
    PROVE  LastEntry(dhead, dhead[i]) = i
  BY LastEntryUnique, Zenon DEF IInv, HeadInv, TypeOK

(* What recovery would make of the disk, slot by slot. *)
LEMMA RecoveredFacts ==
    ASSUME IInv
    PROVE  /\ \A i \in 1 .. Len(dhead) : Recovered[dhead[i]] = dlog[i]
           /\ \A b \in Block : b \notin Range(dhead) => Recovered[b] = disk[b]
           /\ Recovered \in [Block -> Value]
<1>1. \A i \in 1 .. Len(dhead) : Recovered[dhead[i]] = dlog[i]
  <2> SUFFICES ASSUME NEW i \in 1 .. Len(dhead) PROVE Recovered[dhead[i]] = dlog[i]
    BY Zenon
  <2>1. dhead[i] \in Block /\ dhead[i] \in Range(dhead)
    BY RangeFacts, Zenon DEF IInv
  <2> QED
    BY <2>1, LastSlot, Zenon DEF Recovered
<1>2. \A b \in Block : b \notin Range(dhead) => Recovered[b] = disk[b]
  BY Zenon DEF Recovered
<1>3. \A b \in Block : Recovered[b] \in Value
  BY <1>1, <1>2, RangeFacts DEF IInv, HeadInv, DiskInv
<1> QED
  BY <1>1, <1>2, <1>3, Zenon DEF Recovered

(* Torn or rewritten home blocks that the header lists do not matter to    *)
(* recovery, nor do slots that it does not list.                           *)
LEMMA RecoveredUnchanged ==
    ASSUME IInv, dhead' = dhead,
           \A b \in Block : b \notin Range(dhead) => disk'[b] = disk[b],
           \A i \in 1 .. Len(dhead) : dlog'[i] = dlog[i]
    PROVE  Recovered' = Recovered
<1>1. \A b \in Block : Recovered'[b] = Recovered[b]
  <2> SUFFICES ASSUME NEW b \in Block PROVE Recovered'[b] = Recovered[b]
    BY Zenon
  <2>1. CASE b \in Range(dhead)
    <3>1. PICK i \in 1 .. Len(dhead) : dhead[i] = b
      BY <2>1, RangeFacts, Zenon DEF IInv
    <3>2. Recovered[b] = dlog[i]
      BY <3>1, RecoveredFacts, Zenon
    <3>3. Recovered'[b] = dlog'[i]
      BY <2>1, <3>1, LastSlot, Zenon DEF Recovered
    <3> QED
      BY <3>2, <3>3, Zenon
  <2>2. CASE b \notin Range(dhead)
    <3>1. b \notin Range(dhead')
      BY <2>2, Zenon
    <3> QED
      BY <2>2, <3>1, Zenon DEF Recovered
  <2> QED
    BY <2>1, <2>2, Zenon
<1> QED
  BY <1>1, Zenon DEF Recovered

(* The journal's mem under the refinement mapping. *)
MemBar == IF recovering THEN Recovered ELSE View

(* In the running system, a block outside the transaction reads as on disk. *)
LEMMA ViewOutsideLog ==
    ASSUME IInv, ~recovering, ~panicked, NEW b \in Block, b \notin Range(lh)
    PROVE  View[b] = disk[b]
  BY Zenon DEF IInv, CacheInv, View

(* The journal is untouched when the view, the recovered disk and the set  *)
(* of open operations are.                                                 *)
LEMMA Stutters ==
    ASSUME MemBar' = MemBar, Recovered' = Recovered, InOp' = InOp
    PROVE  UNCHANGED J!vars
  BY Zenon DEF J!vars, MemBar

(* The header makes the whole view durable at once: the journal's Commit. *)
LEMMA WriteHeadRefines ==
    ASSUME IInv, write_head, IInv'
    PROVE  [J!Next]_J!vars
<1>1. /\ UNCHANGED <<disk, dlog, cache, pc, recovering, lh>>
      /\ stage = "write_head" /\ ~recovering /\ ~panicked
      /\ dhead' = lh /\ tail = Len(lh) + 1
  BY Zenon DEF write_head, bufvars, procvars, IInv, StageInv, Installing
<1>2. View' = View /\ InOp' = InOp
  BY <1>1, Zenon DEF View, InOp
<1>3. InOp = {}
  BY <1>1, Zenon DEF IInv, StageInv, CommitIsExclusive
<1>4. \A b \in Block : Recovered'[b] = View[b]
  <2> SUFFICES ASSUME NEW b \in Block PROVE Recovered'[b] = View[b]
    BY Zenon
  <2>1. CASE b \in Range(lh)
    <3>1. PICK i \in 1 .. Len(lh) : lh[i] = b
      BY <2>1, RangeFacts, Zenon DEF IInv
    <3>2. LastEntry(lh, b) = i
      <4>1. LastEntry(lh, lh[i]) = i
        BY LastEntryUnique, Zenon DEF IInv, HeadInv, TypeOK
      <4> QED
        BY <3>1, <4>1, Zenon
    <3>3. Recovered'[b] = dlog[i]
      BY <1>1, <2>1, <3>2, Zenon DEF Recovered
    <3>4. dlog[i] = cache[b]
      <4>1. i \in 1 .. tail - 1
        BY <1>1 DEF IInv, TypeOK
      <4> QED
        BY <1>1, <3>1, <4>1, Zenon DEF IInv, CacheInv, Writing
    <3>5. cache[b] # NoBuf
      BY <1>1, <3>1, UncachedIsInstalled, Zenon DEF Installing
    <3> QED
      BY <3>3, <3>4, <3>5, Zenon DEF View
  <2>2. CASE b \notin Range(lh)
    <3>1. Recovered'[b] = disk[b]
      BY <1>1, <2>2, Zenon DEF Recovered
    <3> QED
      BY <1>1, <2>2, <3>1, ViewOutsideLog, Zenon
  <2> QED
    BY <2>1, <2>2, Zenon
<1>5. Recovered' = View
  BY <1>4, Zenon DEF Recovered, View
<1>6. J!Commit
  BY <1>1, <1>2, <1>3, <1>5, Zenon DEF J!Commit
<1> QED
  BY <1>6, Zenon DEF J!Next

(* Installing a block changes neither what recovery finds nor the view. *)
LEMMA InstallRefines ==
    ASSUME IInv, NEW b \in Block, install_trans(b) \/ install_trans_io(b)
    PROVE  [J!Next]_J!vars
<1>1. /\ UNCHANGED <<dlog, dhead, pc, recovering>>
      /\ stage \in Installing /\ dhead = lh
      /\ tail \in 1 .. Len(lh) /\ lh[tail] = b
      /\ \A c \in Block : c # b => disk'[c] = disk[c] /\ cache'[c] = cache[c]
  BY Zenon DEF install_trans, install_trans_io, procvars, Installing, IInv, StageInv,
         HeadInv, TypeOK
<1>2. b \in Range(dhead) /\ dlog[tail] \in Value
  BY <1>1, RangeFacts, SlotIsComplete, Zenon DEF IInv
<1>3. Recovered' = Recovered
  BY <1>1, <1>2, RecoveredUnchanged, Zenon
<1>4. ~recovering => cache[b] = dlog[tail]
  <2>1. tail \in tail .. Len(lh)
    BY <1>1 DEF IInv, TypeOK
  <2> QED
    BY <1>1, <2>1, Zenon DEF IInv, CacheInv
<1>5. cache'[b] = dlog[tail]
  BY <1>1, Zenon DEF install_trans, install_trans_io, IInv, CacheInv, TypeOK
<1>6. ~recovering => View' = View
  BY <1>1, <1>2, <1>4, <1>5, ValueAssumption DEF View
<1> QED
  BY <1>1, <1>3, <1>6, Stutters, Zenon DEF MemBar, InOp

(* When the header is erased every block it listed is in its home. *)
LEMMA ClearHeadRefines ==
    ASSUME IInv, clear_head
    PROVE  [J!Next]_J!vars
<1>1. /\ UNCHANGED <<disk, dlog, cache, pc>>
      /\ stage = "clear_head" /\ dhead = lh /\ tail = Len(lh) + 1
      /\ dhead' = <<>> /\ ~recovering' /\ ~panicked
  BY Zenon DEF clear_head, bufvars, procvars, IInv, StageInv, HeadInv, Installing
<1>2. \A i \in 1 .. Len(lh) : /\ disk[lh[i]] = dlog[i]
                              /\ cache[lh[i]] \in {NoBuf, dlog[i]}
  BY <1>1 DEF IInv, DiskInv, CacheInv, Installing, TypeOK
<1>3. Recovered' = [b \in Block |-> disk[b]]
  BY <1>1 DEF Recovered, Range
<1>4. \A b \in Block : Recovered[b] = disk[b]
  BY <1>1, <1>2, RecoveredFacts, RangeFacts DEF IInv
<1>5. Recovered' = Recovered
  BY <1>3, <1>4, Zenon DEF Recovered
<1>6. View' = View /\ InOp' = InOp
  BY <1>1, Zenon DEF View, InOp
<1>7. recovering => View = Recovered
  <2> SUFFICES ASSUME recovering, NEW b \in Block PROVE cache[b] \in {NoBuf, disk[b]}
    BY <1>4, Zenon DEF View, Recovered
  <2>1. CASE b \in Range(lh)
    BY <1>2, <2>1, RangeFacts DEF IInv
  <2>2. CASE b \notin Range(lh)
    BY <2>2, RangeFacts DEF IInv, CacheInv, TypeOK
  <2> QED
    BY <2>1, <2>2, Zenon
<1> QED
  BY <1>1, <1>5, <1>6, <1>7, Stutters, Zenon DEF MemBar

-----------------------------------------------------------------------------

(* install_trans may tear a home block, since the header lists it. *)
LEMMA InstallStep ==
    ASSUME NEW b \in Block, IInv, install_trans(b)
    PROVE  IInv'
<1> USE DEF IInv, diskvars, bufvars, lockvars, procvars, stepvars
<1>1. /\ UNCHANGED <<dlog, dhead, pins, lh, outstanding, committing, pc, wrote,
                     tail, recovering, panicked>>
      /\ stage = "install" /\ stage' = "install_io"
      /\ cache' = [cache EXCEPT ![b] = dlog[tail]]
      /\ disk' = [disk EXCEPT ![b] = Torn]
      /\ tail \in 1 .. Len(lh) /\ b = lh[tail] /\ dhead = lh
  BY Zenon DEF install_trans, StageInv, HeadInv, Installing
<1>2. dlog[tail] \in Value /\ b \in Range(dhead)
  BY <1>1, SlotIsComplete, RangeFacts, Zenon DEF Installing
<1>3. \A i \in 1 .. Len(lh) : /\ lh[i] \in Block
                              /\ i # tail => lh[i] # b
  BY <1>1, RangeFacts DEF HeadInv
<1>4. TypeOK'
  BY <1>1, <1>2, Zenon DEF TypeOK, Stage
<1>5. StageInv' /\ HeadInv'
  BY <1>1 DEF StageInv, HeadInv, Installing, Writing
<1>6. DiskInv'
  <2>1. \A c \in Block : c \notin Range(dhead) => disk'[c] \in Value
    BY <1>1, <1>2, Zenon DEF DiskInv, TypeOK
  <2>2. \A i \in 1 .. tail - 1 : disk'[lh[i]] = dlog[i]
    BY <1>1, <1>3 DEF DiskInv, Installing, TypeOK
  <2> QED
    BY <1>1, <2>1, <2>2, Zenon DEF DiskInv
<1>7. CacheInv'
  <2>1. ~recovering => \A c \in Block : c \notin Range(lh) => cache'[c] \in {NoBuf, disk'[c]}
    BY <1>1, <1>2 DEF CacheInv, TypeOK, install_trans
  <2>2. \A i \in 1 .. tail - 1 : cache'[lh[i]] \in {NoBuf, dlog[i]}
    BY <1>1, <1>3 DEF CacheInv, Installing, TypeOK
  <2>3. ~recovering => \A i \in tail .. Len(lh) : cache'[lh[i]] = dlog[i]
    BY <1>1, <1>3 DEF CacheInv, Installing, TypeOK
  <2>4. cache'[lh[tail]] = dlog[tail]
    BY <1>1, Zenon DEF TypeOK
  <2>5. recovering => \A c \in Block :
            \/ cache'[c] = NoBuf
            \/ \E i \in 1 .. tail : i <= Len(lh) /\ lh[i] = c
    BY <1>1 DEF CacheInv, TypeOK
  <2> QED
    BY <1>1, <2>1, <2>2, <2>3, <2>4, <2>5 DEF CacheInv, Writing
<1>8. CommitIsExclusive' /\ NoLostWakeup'
  BY <1>1, Zenon DEF CommitIsExclusive, InOp, NoLostWakeup, MustWait, LogFull
<1>9. PinnedUntilInstalled'
  <2>1. ToInstall' = ToInstall
    BY <1>1, Zenon DEF ToInstall
  <2> QED
    BY <1>1, <1>2, <2>1, ValueAssumption, Zenon DEF PinnedUntilInstalled, TypeOK
<1> QED
  BY <1>4, <1>5, <1>6, <1>7, <1>8, <1>9

(* install_trans completes a home block and unpins its buffer. *)
LEMMA InstallIOStep ==
    ASSUME NEW b \in Block, IInv, install_trans_io(b)
    PROVE  IInv'
<1> USE DEF IInv, diskvars, bufvars, lockvars, procvars, stepvars
<1>1. /\ UNCHANGED <<dlog, dhead, cache, lh, outstanding, committing, pc, wrote,
                     recovering, panicked>>
      /\ stage = "install_io"
      /\ stage' = IF tail < Len(lh) THEN "install" ELSE "clear_head"
      /\ disk' = [disk EXCEPT ![b] = cache[b]]
      /\ pins' = Unpinned(b)
      /\ tail' = tail + 1
      /\ tail \in 1 .. Len(lh) /\ b = lh[tail] /\ dhead = lh
      /\ cache[b] = dlog[tail]
  BY Zenon DEF install_trans_io, StageInv, HeadInv, CacheInv, Installing
<1>2. dlog[tail] \in Value /\ b \in Range(dhead)
  BY <1>1, SlotIsComplete, RangeFacts, Zenon DEF Installing
<1>3. \A i \in 1 .. Len(lh) : /\ lh[i] \in Block
                              /\ i # tail => lh[i] # b
  BY <1>1, RangeFacts DEF HeadInv
<1>4. Len(lh) \in Nat /\ Len(lh) <= LOGSIZE /\ LOGSIZE \in Nat
  BY ConstAssumption DEF TypeOK
<1>5. ToInstall = {lh[i] : i \in tail .. Len(lh)} /\ b \in ToInstall
  BY <1>1, <1>4 DEF ToInstall
<1>6. ToInstall' = ToInstall \ {b}
  <2>1. ToInstall' = {lh[i] : i \in tail + 1 .. Len(lh)}
    BY <1>1, <1>4, ZenonT(30) DEF ToInstall
  <2>2. \A i \in tail .. Len(lh) : i = tail \/ i \in tail + 1 .. Len(lh)
    BY <1>1, <1>4
  <2>3. \A i \in tail + 1 .. Len(lh) :
            i \in 1 .. Len(lh) /\ i \in tail .. Len(lh) /\ i # tail
    BY <1>1, <1>4
  <2> QED
    BY <1>1, <1>3, <1>5, <2>1, <2>2, <2>3, ZenonT(30)
<1>7. pins' \in [Block -> Nat]
  <2>1. pins \in [Block -> Nat] /\ b \in Block
    BY <1>1, <1>3, Zenon DEF TypeOK
  <2>2. ~recovering => pins[b] > 0
    BY <1>5, <2>1 DEF PinnedUntilInstalled
  <2> QED
    BY <1>1, <2>1, <2>2 DEF Unpinned
<1>8. TypeOK'
  <2>1. disk' \in [Block -> Value \cup {Torn}]
    BY <1>1, <1>2, Zenon DEF TypeOK
  <2>2. tail' \in 1 .. LOGSIZE + 1
    BY <1>1, <1>4
  <2>3. stage' \in Stage
    BY <1>1, Zenon DEF Stage
  <2> QED
    BY <1>1, <1>7, <2>1, <2>2, <2>3, ZenonT(30) DEF TypeOK
<1>9. StageInv' /\ HeadInv'
  BY <1>1, <1>4, SMTT(30) DEF StageInv, HeadInv, Installing, Writing
<1>10. DiskInv'
  <2>1. \A c \in Block : c \notin Range(dhead) => disk'[c] \in Value
    BY <1>1, <1>2, Zenon DEF DiskInv, TypeOK
  <2>2. \A i \in 1 .. tail' - 1 : disk'[lh[i]] = dlog[i]
    <3> SUFFICES ASSUME NEW i \in 1 .. tail' - 1
                 PROVE  disk'[lh[i]] = dlog[i]
      BY Zenon
    <3>1. i = tail \/ i \in 1 .. tail - 1
      BY <1>1, <1>4
    <3>2. CASE i = tail
      BY <1>1, <1>2, <3>2, Zenon DEF TypeOK
    <3>3. CASE i \in 1 .. tail - 1
      BY <1>1, <1>3, <3>3 DEF DiskInv, Installing, TypeOK
    <3> QED
      BY <3>1, <3>2, <3>3, Zenon
  <2> QED
    BY <1>1, <2>1, <2>2, Zenon DEF DiskInv
<1>11. CacheInv'
  <2>1. ~recovering /\ ~panicked =>
            \A c \in Block : c \notin Range(lh) => cache'[c] \in {NoBuf, disk'[c]}
    BY <1>1, <1>2, Zenon DEF CacheInv, TypeOK
  <2>2. \A i \in 1 .. tail' - 1 : cache'[lh[i]] \in {NoBuf, dlog[i]}
    <3> SUFFICES ASSUME NEW i \in 1 .. tail' - 1
                 PROVE  cache[lh[i]] \in {NoBuf, dlog[i]}
      BY <1>1, Zenon
    <3>1. i \in 1 .. tail - 1 \/ i = tail
      BY <1>1, <1>4
    <3>2. CASE i \in 1 .. tail - 1
      BY <1>1, <3>2, Zenon DEF CacheInv, Installing
    <3>3. CASE i = tail
      BY <1>1, <3>3, Zenon
    <3> QED
      BY <3>1, <3>2, <3>3, Zenon
  <2>3. ~recovering => \A i \in tail' .. Len(lh) : cache'[lh[i]] = dlog[i]
    <3> SUFFICES ASSUME ~recovering, NEW i \in tail' .. Len(lh)
                 PROVE  cache[lh[i]] = dlog[i]
      BY <1>1, Zenon
    <3>1. i \in tail .. Len(lh)
      BY <1>1, <1>4
    <3> QED
      BY <1>1, <3>1, Zenon DEF CacheInv, Installing
  <2>4. recovering => \A c \in Block :
            \/ cache'[c] = NoBuf
            \/ \E i \in 1 .. tail' : i <= Len(lh) /\ lh[i] = c
    BY <1>1, <1>4 DEF CacheInv
  <2> QED
    BY <1>1, <2>1, <2>2, <2>3, <2>4, Zenon DEF CacheInv, Writing, Unpinned
<1>12. CommitIsExclusive' /\ NoLostWakeup'
  BY <1>1, Zenon DEF CommitIsExclusive, InOp, NoLostWakeup, MustWait, LogFull
<1>13. PinnedUntilInstalled'
  BY <1>1, <1>5, <1>6 DEF PinnedUntilInstalled, Unpinned, TypeOK
<1> QED
  BY <1>8, <1>9, <1>10, <1>11, <1>12, <1>13, ZenonT(30)

(* The header is erased when every block is installed. *)
LEMMA ClearHeadStep ==
    ASSUME IInv, clear_head
    PROVE  IInv'
<1> USE DEF IInv, diskvars, bufvars, lockvars, procvars, stepvars
<1>1. /\ UNCHANGED <<disk, dlog, cache, pins, outstanding, committing, pc, wrote,
                     panicked>>
      /\ stage = "clear_head"
      /\ stage' = IF recovering THEN "none" ELSE "finish"
      /\ lh' = <<>> /\ dhead' = <<>> /\ recovering' = FALSE
      /\ tail = Len(lh) + 1 /\ tail' = 1 /\ dhead = lh
  BY Zenon DEF clear_head, StageInv, HeadInv, Installing
<1>2. Len(lh) \in Nat /\ LOGSIZE \in Nat
  BY ConstAssumption DEF TypeOK
<1>3. /\ Len(lh') = 0 /\ lh' \in Seq(Block)
      /\ Range(lh)' = {} /\ Range(dhead)' = {} /\ ToInstall' = {}
  BY <1>1 DEF Range, ToInstall
<1>4. TypeOK'
  <2>1. stage' \in Stage /\ tail' \in 1 .. LOGSIZE + 1 /\ Len(lh') <= LOGSIZE
    BY <1>1, <1>2, <1>3 DEF Stage
  <2> QED
    BY <1>1, <1>3, <2>1, Zenon DEF TypeOK
<1>5. StageInv'
  BY <1>1, <1>3, Zenon DEF StageInv, Installing
<1>6. HeadInv'
  BY <1>1, <1>3 DEF HeadInv, Installing
<1>7. \A i \in 1 .. Len(lh) : /\ disk[lh[i]] = dlog[i] /\ dlog[i] \in Value
                              /\ cache[lh[i]] \in {NoBuf, dlog[i]}
  BY <1>1, <1>2, SlotIsComplete DEF DiskInv, CacheInv, Installing
<1>8. \A b \in Block : disk[b] \in Value
  <2> SUFFICES ASSUME NEW b \in Block PROVE disk[b] \in Value
    BY Zenon
  <2>1. CASE b \in Range(dhead)
    BY <1>1, <1>7, <2>1, RangeFacts
  <2>2. CASE b \notin Range(dhead)
    BY <2>2, Zenon DEF DiskInv
  <2> QED
    BY <2>1, <2>2, Zenon
<1>9. DiskInv'
  BY <1>1, <1>8, Zenon DEF DiskInv, Installing
<1>10. \A b \in Block : cache[b] \in {NoBuf, disk[b]}
  <2> SUFFICES ASSUME NEW b \in Block PROVE cache[b] \in {NoBuf, disk[b]}
    BY Zenon
  <2>1. CASE b \in Range(lh)
    BY <1>7, <2>1, RangeFacts
  <2>2. CASE b \notin Range(lh) /\ recovering
    BY <2>2, RangeFacts, SMTT(30) DEF CacheInv, TypeOK
  <2>3. CASE b \notin Range(lh) /\ ~recovering
    BY <2>3, Zenon DEF CacheInv, clear_head
  <2> QED
    BY <2>1, <2>2, <2>3, Zenon
<1>11. CacheInv'
  BY <1>1, <1>10, Zenon DEF CacheInv, Installing, Writing
<1>12. CommitIsExclusive'
  BY <1>1, Zenon DEF CommitIsExclusive, InOp
<1>13. PinnedUntilInstalled'
  <2>1. ~recovering => \A b \in Block : pins[b] = 0
    BY <1>1, <1>2 DEF PinnedUntilInstalled, ToInstall
  <2>2. recovering => \A b \in Block : pins[b] = 0
    BY Zenon DEF CacheInv
  <2> QED
    BY <1>1, <1>3, <2>1, <2>2, Zenon DEF PinnedUntilInstalled
<1>14. NoLostWakeup'
  <2>1. CASE recovering
    BY <1>1, <2>1, Zenon DEF NoLostWakeup, StageInv
  <2>2. CASE ~recovering
    BY <1>1, <2>2, Zenon DEF NoLostWakeup, MustWait, StageInv
  <2> QED
    BY <2>1, <2>2, Zenon
<1> QED
  BY <1>4, <1>5, <1>6, <1>9, <1>11, <1>12, <1>13, <1>14, Zenon

(* read_head: recovery starts from what the header on disk lists. *)
LEMMA ReadHeadStep ==
    ASSUME IInv, read_head
    PROVE  IInv'
<1> USE DEF IInv, diskvars, bufvars, lockvars, procvars, stepvars
<1>1. /\ UNCHANGED <<disk, dlog, dhead, cache, pins, outstanding, committing, pc,
                     wrote, recovering, panicked>>
      /\ stage = "read_head"
      /\ stage' = IF Len(dhead) > 0 THEN "install" ELSE "clear_head"
      /\ lh = <<>> /\ lh' = dhead
      /\ tail' = 1
      /\ recovering
  BY Zenon DEF read_head, StageInv
<1>2. Len(dhead) \in Nat /\ Len(dhead) <= LOGSIZE /\ LOGSIZE \in Nat
  BY ConstAssumption DEF TypeOK
<1>3. TypeOK'
  <2>1. stage' \in Stage /\ tail' \in 1 .. LOGSIZE + 1
    BY <1>1, <1>2 DEF Stage
  <2> QED
    BY <1>1, <2>1, Zenon DEF TypeOK
<1>4. StageInv'
  BY <1>1, <1>2 DEF StageInv, Installing
<1>5. HeadInv' /\ DiskInv'
  <2>1. HeadInv'
    BY <1>1 DEF HeadInv, Installing, Writing
  <2>2. DiskInv'
    BY <1>1 DEF DiskInv, Installing
  <2> QED
    BY <2>1, <2>2, Zenon
<1>6. \A b \in Block : cache[b] = NoBuf
  <2>1. Len(lh) = 0
    BY <1>1, Zenon
  <2> QED
    BY <1>1, <2>1 DEF CacheInv, TypeOK
<1>7. CacheInv'
  <2>1. recovering' => \A b \in Block : pins'[b] = 0
    BY <1>1, Zenon DEF CacheInv
  <2> QED
    BY <1>1, <1>6, <2>1 DEF CacheInv, Installing, Writing
<1>8. CommitIsExclusive' /\ PinnedUntilInstalled'
  BY <1>1, Zenon DEF CommitIsExclusive, InOp, PinnedUntilInstalled
<1>9. NoLostWakeup'
  BY <1>1, Zenon DEF NoLostWakeup, StageInv
<1> QED
  BY <1>3, <1>4, <1>5, <1>7, <1>8, <1>9, Zenon

(* A reader caches a block that is complete on disk. *)
LEMMA BreadStep ==
    ASSUME NEW b \in Block, IInv, bread(b)
    PROVE  IInv'
<1> USE DEF IInv, diskvars, bufvars, lockvars, procvars, stepvars
<1>1. /\ UNCHANGED <<disk, dlog, dhead, pins, lh, outstanding, committing, pc,
                     wrote, stage, tail, recovering, panicked>>
      /\ cache[b] = NoBuf
      /\ cache' = [cache EXCEPT ![b] = disk[b]]
      /\ ~recovering
  BY Zenon DEF bread, Running
<1>2. disk[b] \in Value
  BY <1>1, UncachedIsComplete, Zenon
<1>3. TypeOK'
  BY <1>1, <1>2, Zenon DEF TypeOK
<1>4. StageInv' /\ HeadInv' /\ DiskInv'
  <2>1. StageInv'
    BY <1>1, Zenon DEF StageInv
  <2>2. HeadInv'
    BY <1>1 DEF HeadInv
  <2>3. DiskInv'
    BY <1>1, Zenon DEF DiskInv
  <2> QED
    BY <2>1, <2>2, <2>3
<1>5. \A i \in 1 .. Len(lh) :
          /\ lh[i] \in Block
          /\ lh[i] = b => stage \in Installing /\ i < tail /\ disk[b] = dlog[i]
  BY <1>1, RangeFacts, UncachedIsInstalled DEF DiskInv, TypeOK
<1>6. CacheInv'
  <2>1. ~panicked =>
            \A c \in Block : c \notin Range(lh) => cache'[c] \in {NoBuf, disk[c]}
    BY <1>1, Zenon DEF CacheInv, TypeOK
  <2>2. stage \in Writing => \A i \in 1 .. tail - 1 : dlog[i] = cache'[lh[i]]
    <3> SUFFICES ASSUME stage \in Writing, NEW i \in 1 .. tail - 1
                 PROVE  dlog[i] = cache'[lh[i]]
      OBVIOUS
    <3>1. i \in 1 .. Len(lh)
      BY DEF StageInv, Writing, TypeOK
    <3> QED
      BY <1>1, <1>5, <3>1, Zenon DEF CacheInv, TypeOK, Writing, Installing
  <2>3. stage \in Installing =>
            /\ \A i \in 1 .. tail - 1 : cache'[lh[i]] \in {NoBuf, dlog[i]}
            /\ \A i \in tail .. Len(lh) : cache'[lh[i]] = dlog[i]
    <3> SUFFICES ASSUME stage \in Installing
                 PROVE  /\ \A i \in 1 .. tail - 1 : cache'[lh[i]] \in {NoBuf, dlog[i]}
                        /\ \A i \in tail .. Len(lh) : cache'[lh[i]] = dlog[i]
      BY Zenon
    <3>1. tail - 1 <= Len(lh) /\ tail \in Nat \ {0} /\ Len(lh) \in Nat
      BY DEF StageInv, Installing, TypeOK
    <3> QED
      <4>1. \A i \in 1 .. tail - 1 : i \in 1 .. Len(lh)
        BY <3>1
      <4>2. \A i \in tail .. Len(lh) : i \in 1 .. Len(lh) /\ lh[i] # b
        BY <1>5, <3>1
      <4>3. \A i \in 1 .. tail - 1 : cache'[lh[i]] \in {NoBuf, dlog[i]}
        BY <1>1, <1>5, <4>1, ZenonT(30) DEF CacheInv, TypeOK
      <4>4. \A i \in tail .. Len(lh) : cache'[lh[i]] = dlog[i]
        BY <1>1, <1>5, <4>2, ZenonT(30) DEF CacheInv, TypeOK
      <4> QED
        BY <4>3, <4>4, Zenon
  <2>4. stage = "install_io" => cache'[lh[tail]] = dlog[tail]
    BY <2>3, <1>1 DEF StageInv, Installing, TypeOK
  <2> QED
    BY <1>1, <2>1, <2>2, <2>3, <2>4, ZenonT(30) DEF CacheInv
<1>7. CommitIsExclusive' /\ NoLostWakeup'
  BY <1>1, ZenonT(30) DEF CommitIsExclusive, InOp, NoLostWakeup, MustWait, LogFull
<1>8. PinnedUntilInstalled'
  BY <1>1, <1>2, ValueAssumption DEF PinnedUntilInstalled, ToInstall, TypeOK
<1> QED
  BY <1>3, <1>4, <1>6, <1>7, <1>8

(* bget recycles only a buffer that the log does not need. *)
LEMMA RecycleStep ==
    ASSUME NEW b \in Block, IInv, bget_recycle(b)
    PROVE  IInv'
<1> USE DEF IInv, diskvars, bufvars, lockvars, procvars, stepvars
<1>1. /\ UNCHANGED <<disk, dlog, dhead, pins, lh, outstanding, committing, pc,
                     wrote, stage, tail, recovering, panicked>>
      /\ cache' = [cache EXCEPT ![b] = NoBuf]
      /\ pins[b] = 0
      /\ ~InUse(b)
  BY Zenon DEF bget_recycle
<1>2. TypeOK'
  BY <1>1, Zenon DEF TypeOK
<1>3. StageInv' /\ HeadInv' /\ DiskInv'
  <2>1. StageInv'
    BY <1>1, Zenon DEF StageInv
  <2>2. HeadInv'
    BY <1>1 DEF HeadInv
  <2>3. DiskInv'
    BY <1>1, Zenon DEF DiskInv
  <2> QED
    BY <2>1, <2>2, <2>3, ZenonT(30)
<1>4. ~recovering => b \notin ToInstall
  BY <1>1, SMTT(30) DEF PinnedUntilInstalled
<1>5. CacheInv'
  <2>1. ~recovering /\ ~panicked =>
            \A c \in Block : c \notin Range(lh) => cache'[c] \in {NoBuf, disk[c]}
    BY <1>1, ZenonT(30) DEF CacheInv, TypeOK
  <2>2. stage \in Writing => \A i \in 1 .. tail - 1 : dlog[i] = cache'[lh[i]]
    <3> SUFFICES ASSUME stage \in Writing, NEW i \in 1 .. tail - 1
                 PROVE  dlog[i] = cache'[lh[i]]
      BY ZenonT(30)
    <3>1. i \in 1 .. Len(lh) /\ ~recovering
      BY SMTT(30) DEF StageInv, Writing, Installing, TypeOK
    <3>2. lh[i] # b
      BY <1>4, <3>1, RangeFacts, ZenonT(30) DEF ToInstall, Writing
    <3> QED
      BY <1>1, <3>1, <3>2, RangeFacts, Zenon DEF CacheInv, TypeOK
  <2>3. stage \in Installing =>
            \A i \in 1 .. tail - 1 : cache'[lh[i]] \in {NoBuf, dlog[i]}
    <3> SUFFICES ASSUME stage \in Installing, NEW i \in 1 .. tail - 1
                 PROVE  cache'[lh[i]] \in {NoBuf, dlog[i]}
      BY Zenon
    <3>1. i \in 1 .. Len(lh)
      BY SMTT(30) DEF StageInv, Installing, TypeOK
    <3> QED
      BY <1>1, <3>1, RangeFacts, Zenon DEF CacheInv, TypeOK
  <2>4. stage \in Installing /\ ~recovering =>
            \A i \in tail .. Len(lh) : cache'[lh[i]] = dlog[i]
    <3> SUFFICES ASSUME stage \in Installing, ~recovering, NEW i \in tail .. Len(lh)
                 PROVE  cache'[lh[i]] = dlog[i]
      BY Zenon
    <3>1. i \in 1 .. Len(lh)
      BY DEF TypeOK
    <3>2. lh[i] # b
      BY <1>4, <3>1, Zenon DEF ToInstall, Installing
    <3> QED
      BY <1>1, <3>1, <3>2, RangeFacts, Zenon DEF CacheInv, TypeOK
  <2>5. stage = "install_io" => cache'[lh[tail]] = dlog[tail]
    BY <1>1, RangeFacts, Zenon DEF CacheInv, TypeOK, InUse, StageInv
  <2>6. recovering => \A c \in Block :
            \/ cache'[c] = NoBuf
            \/ \E i \in 1 .. tail : i <= Len(lh) /\ lh[i] = c
    BY <1>1, Zenon DEF CacheInv, TypeOK
  <2>7. recovering => \A c \in Block : pins[c] = 0
    BY Zenon DEF CacheInv
  <2>8. UNCHANGED <<disk, dlog, pins, lh, stage, tail, recovering, panicked>>
    BY <1>1, Zenon
  <2> HIDE DEF IInv
  <2> QED
    BY <2>1, <2>2, <2>3, <2>4, <2>5, <2>6, <2>7, <2>8, Zenon DEF CacheInv
<1>6. CommitIsExclusive' /\ NoLostWakeup'
  BY <1>1, Zenon DEF CommitIsExclusive, InOp, NoLostWakeup, MustWait, LogFull
<1>7. PinnedUntilInstalled'
  <2>1. ToInstall' = ToInstall
    BY <1>1, Zenon DEF ToInstall
  <2>2. \A c \in Block : c # b => cache'[c] = cache[c]
    BY <1>1, Zenon DEF TypeOK
  <2> QED
    BY <1>1, <1>4, <2>1, <2>2, Zenon DEF PinnedUntilInstalled
<1> QED
  BY <1>2, <1>3, <1>5, <1>6, <1>7, ZenonT(30)

(* One lemma per action: the action preserves IInv. *)
LEMMA BeginSleepStep ==
    ASSUME NEW p \in Proc, IInv, begin_op_sleep(p)
    PROVE  IInv'
<1> USE DEF IInv, diskvars, bufvars, lockvars, procvars, stepvars
<1>1. TypeOK'
  BY Zenon DEF begin_op_sleep, TypeOK, PC
<1>2. StageInv'
  BY ZenonT(30) DEF begin_op_sleep, StageInv, Running
<1>3. HeadInv' /\ DiskInv' /\ CacheInv'
  BY DEF begin_op_sleep, HeadInv, DiskInv, CacheInv
<1>4. CommitIsExclusive'
  <2>1. InOp' = InOp
    BY Zenon DEF begin_op_sleep, InOp, TypeOK
  <2> QED
    BY <2>1, Zenon DEF begin_op_sleep, CommitIsExclusive, TypeOK
<1>5. PinnedUntilInstalled'
  BY Zenon DEF begin_op_sleep, PinnedUntilInstalled, ToInstall
<1>6. NoLostWakeup'
  BY Zenon DEF begin_op_sleep, NoLostWakeup, MustWait, LogFull, TypeOK
<1> QED
  BY <1>1, <1>2, <1>3, <1>4, <1>5, <1>6, Zenon

(* log_write appends and pins a new block, or absorbs a known one. *)
LEMMA LogWriteStep ==
    ASSUME NEW p \in Proc, NEW b \in Block, NEW v \in Value, IInv, log_write(p, b, v)
    PROVE  IInv'
<1> USE DEF IInv, diskvars, bufvars, lockvars, procvars, stepvars
<1>0. /\ stage = "none" /\ ~committing /\ ~recovering
      /\ dhead = <<>> /\ Range(dhead) = {} /\ ToInstall = Range(lh)
  BY OpMeansNoStage, Zenon DEF log_write
<1>1. /\ UNCHANGED <<disk, dlog, dhead, outstanding, committing, pc, stage, tail,
                     recovering>>
      /\ cache' = [cache EXCEPT ![b] = v]
  BY Zenon DEF log_write
<1>2. CASE TooBig \/ outstanding < 1
  <2>1. panicked' /\ UNCHANGED <<lh, pins, wrote>>
    BY <1>2, Zenon DEF log_write
  <2>2. TypeOK'
    BY <1>1, <2>1, Zenon DEF TypeOK
  <2>3. StageInv' /\ HeadInv' /\ DiskInv'
    <3>1. StageInv'
      BY <1>0, <1>1, <2>1, ZenonT(30) DEF StageInv, Installing
    <3>2. HeadInv' /\ DiskInv'
      BY <1>0, <1>1, <2>1 DEF HeadInv, DiskInv, Installing, Writing
    <3>. QED BY <3>1, <3>2, Zenon
  <2>4. CacheInv'
    BY <1>0, <1>1, <2>1, Zenon DEF CacheInv, Installing, Writing
  <2>5. CommitIsExclusive' /\ NoLostWakeup'
    BY <1>1, <2>1, Zenon DEF CommitIsExclusive, InOp, NoLostWakeup, MustWait, LogFull
  <2>6. PinnedUntilInstalled'
    BY <1>0, <1>1, <2>1, ValueAssumption, Zenon DEF PinnedUntilInstalled, ToInstall,
       TypeOK
  <2> QED
    BY <2>2, <2>3, <2>4, <2>5, <2>6, Zenon
<1>3. CASE ~(TooBig \/ outstanding < 1)
  <2>1. /\ UNCHANGED panicked
        /\ wrote' = [wrote EXCEPT ![p] = @ \cup {b}]
        /\ lh' = IF Absorbed(b) THEN lh ELSE Append(lh, b)
        /\ pins' = Pinned(b)
    BY <1>3 DEF log_write
  <2>2. lh \in Seq(Block) /\ Len(lh) < LOGSIZE /\ LOGSIZE \in Nat /\ Len(lh) \in Nat
    BY <1>3, ConstAssumption DEF TooBig, TypeOK
  <2>3. /\ lh' \in Seq(Block) /\ Len(lh') <= LOGSIZE /\ Len(lh') >= Len(lh)
        /\ Range(lh)' = Range(lh) \cup {b}
        /\ \A i, j \in 1 .. Len(lh') : lh'[i] = lh'[j] => i = j
    <3>1. CASE Absorbed(b)
      BY <2>1, <2>2, <3>1 DEF Absorbed, HeadInv
    <3>2. CASE ~Absorbed(b)
      <4>1. lh' = Append(lh, b)
        BY <2>1, <3>2, ZenonT(30)
      <4>2. /\ lh' \in Seq(Block) /\ Len(lh') = Len(lh) + 1
            /\ \A i \in 1 .. Len(lh) : lh'[i] = lh[i]
            /\ lh'[Len(lh) + 1] = b
        BY <4>1, <2>2
      <4>3. \A i \in 1 .. Len(lh) : lh[i] # b
        BY <3>2, RangeFacts, Zenon DEF Absorbed
      <4>4. \A i, j \in 1 .. Len(lh') : lh'[i] = lh'[j] => i = j
        BY <2>2, <4>2, <4>3 DEF HeadInv
      <4>5. Range(lh)' = Range(lh) \cup {b}
        BY <2>2, <4>2 DEF Range
      <4> QED
        BY <2>2, <4>2, <4>4, <4>5
    <3> QED
      BY <3>1, <3>2, Zenon
  <2>4. pins' \in [Block -> Nat]
    BY <2>1 DEF Pinned, TypeOK
  <2>5. TypeOK'
    BY <1>1, <2>1, <2>3, <2>4, Zenon DEF TypeOK
  <2>6. StageInv'
    BY <1>0, <1>1, <2>1, ZenonT(30) DEF StageInv, Installing
  <2>7. HeadInv' /\ DiskInv'
    BY <1>0, <1>1, <2>3 DEF HeadInv, DiskInv, Installing, Writing
  <2>8. CacheInv'
    BY <1>0, <1>1, <2>1, <2>3, Zenon DEF CacheInv, TypeOK, Installing, Writing, Range
  <2>9. CommitIsExclusive'
    BY <1>1, Zenon DEF CommitIsExclusive, InOp
  <2>10. PinnedUntilInstalled'
    <3>1. ToInstall' = Range(lh) \cup {b}
      BY <1>0, <1>1, <2>3, Zenon DEF ToInstall
    <3> QED
      BY <1>0, <1>1, <2>1, <3>1, ValueAssumption
      DEF PinnedUntilInstalled, Pinned, Absorbed, TypeOK
  <2>11. NoLostWakeup'
    BY <1>1, <2>2, <2>3, ConstAssumption DEF NoLostWakeup, MustWait, LogFull, TypeOK
  <2> QED
    BY <2>5, <2>6, <2>7, <2>8, <2>9, <2>10, <2>11, ZenonT(30)
<1> QED
  BY <1>2, <1>3, Zenon

(* write_log starts a slot of the log, which the header does not list yet. *)
LEMMA WriteLogStep ==
    ASSUME NEW b \in Block, IInv, write_log(b)
    PROVE  IInv'
<1> USE DEF IInv, diskvars, bufvars, lockvars, procvars, stepvars
<1>1. /\ UNCHANGED <<disk, dhead, pins, lh, outstanding, committing, pc, wrote,
                     tail, recovering, panicked>>
      /\ stage = "write_log" /\ stage' = "write_log_io"
      /\ dlog' = [dlog EXCEPT ![tail] = Torn]
      /\ tail \in 1 .. Len(lh) /\ b = lh[tail]
      /\ ~recovering
  BY Zenon DEF write_log, StageInv, Installing
<1>2. cache[b] # NoBuf
  BY <1>1, UncachedIsInstalled, Zenon DEF Installing
<1>3. cache' = cache
  BY <1>2, Zenon DEF write_log, View, TypeOK
<1>4. TypeOK'
  BY <1>1, <1>3, ZenonT(30) DEF TypeOK, Stage
<1>5. StageInv' /\ HeadInv' /\ DiskInv'
  <2>1. StageInv'
    BY <1>1, Zenon DEF StageInv, Installing, Writing
  <2>2. HeadInv'
    BY <1>1 DEF HeadInv, Installing, Writing
  <2>3. DiskInv'
    BY <1>1 DEF DiskInv, Installing
  <2> QED
    BY <2>1, <2>2, <2>3
<1>6. CacheInv'
  <2>1. stage \in Writing /\ stage' \notin Installing /\ stage' # "install_io"
    BY <1>1, Zenon DEF Writing, Installing
  <2>2. \A i \in 1 .. tail - 1 : dlog'[i] = dlog[i]
    BY <1>1 DEF TypeOK
  <2> QED
    BY <1>1, <1>3, <2>1, <2>2, ZenonT(30) DEF CacheInv
<1>7. CommitIsExclusive' /\ NoLostWakeup'
  BY <1>1, ZenonT(30) DEF CommitIsExclusive, InOp, NoLostWakeup, MustWait, LogFull
<1>8. PinnedUntilInstalled'
  BY <1>1, <1>3, Zenon DEF PinnedUntilInstalled, ToInstall
<1> QED
  BY <1>4, <1>5, <1>6, <1>7, <1>8, SMTT(30)

(* write_log completes a slot with the cached contents. *)
LEMMA WriteLogIOStep ==
    ASSUME NEW b \in Block, IInv, write_log_io(b)
    PROVE  IInv'
<1> USE DEF IInv, diskvars, bufvars, lockvars, procvars, stepvars
<1>1. /\ UNCHANGED <<disk, dhead, cache, pins, lh, outstanding, committing, pc,
                     wrote, recovering, panicked>>
      /\ stage = "write_log_io"
      /\ stage' = IF tail < Len(lh) THEN "write_log" ELSE "write_head"
      /\ dlog' = [dlog EXCEPT ![tail] = cache[b]]
      /\ tail' = tail + 1
      /\ tail \in 1 .. Len(lh) /\ b = lh[tail]
      /\ ~recovering
  BY Zenon DEF write_log_io, StageInv, Installing
<1>2. cache[b] \in Value
  BY <1>1, UncachedIsInstalled, Zenon DEF Installing, TypeOK
<1>3. Len(lh) \in Nat /\ Len(lh) <= LOGSIZE /\ LOGSIZE \in Nat
  BY ConstAssumption, SMTT(30) DEF TypeOK
<1>4. TypeOK'
  <2>1. dlog' \in [Slot -> Value \cup {Torn}]
    BY <1>1, <1>2, Zenon DEF TypeOK
  <2>2. tail' \in 1 .. LOGSIZE + 1
    <3>1. tail' = tail + 1 /\ tail \in 1 .. Len(lh)
      BY <1>1, Zenon
    <3>. QED BY <1>3, <3>1
  <2>3. stage' \in Stage
    BY <1>1, Zenon DEF Stage
  <2> QED
    BY <1>1, <2>1, <2>2, <2>3, Zenon DEF TypeOK
<1>5. StageInv' /\ HeadInv' /\ DiskInv'
  <2>1. StageInv'
    BY <1>1, <1>3 DEF StageInv, Installing, Writing
  <2>2. HeadInv'
    BY <1>1, SMTT(30) DEF HeadInv, Installing, Writing
  <2>3. DiskInv'
    BY <1>1, <1>3, Zenon DEF DiskInv, Installing, Writing
  <2>. QED BY <2>1, <2>2, <2>3, SMTT(30)
<1>6. CacheInv'
  <2>1. \A i \in 1 .. tail' - 1 : dlog'[i] = cache[lh[i]]
    BY <1>1, <1>3 DEF CacheInv, Writing, TypeOK, Slot
  <2> QED
    BY <1>1, <2>1, ZenonT(30) DEF CacheInv, Installing, Writing
<1>7. CommitIsExclusive' /\ NoLostWakeup'
  BY <1>1, Zenon DEF CommitIsExclusive, InOp, NoLostWakeup, MustWait, LogFull
<1>8. PinnedUntilInstalled'
  BY <1>1, Zenon DEF PinnedUntilInstalled, ToInstall
<1> QED
  BY <1>4, <1>5, <1>6, <1>7, <1>8, SMTT(30)

(* write_head: every slot is complete when the header lists it. *)
LEMMA WriteHeadStep ==
    ASSUME IInv, write_head
    PROVE  IInv'
<1> USE DEF IInv, diskvars, bufvars, lockvars, procvars, stepvars
<1>1. /\ UNCHANGED <<disk, dlog, cache, pins, lh, outstanding, committing, pc,
                     wrote, recovering, panicked>>
      /\ stage = "write_head" /\ stage' = "install"
      /\ tail = Len(lh) + 1 /\ tail' = 1
      /\ dhead = <<>> /\ dhead' = lh
      /\ ~recovering
  BY Zenon DEF write_head, StageInv, HeadInv, Installing, Writing
<1>2. Len(lh) \in Nat \ {0} /\ Len(lh) <= LOGSIZE /\ LOGSIZE \in Nat
  BY <1>1, ConstAssumption DEF TypeOK, StageInv
<1>3. \A i \in 1 .. Len(lh) : dlog[i] = cache[lh[i]] /\ dlog[i] \in Value
  <2> SUFFICES ASSUME NEW i \in 1 .. Len(lh)
               PROVE  dlog[i] = cache[lh[i]] /\ dlog[i] \in Value
    BY ZenonT(30)
  <2>1. dlog[i] = cache[lh[i]]
    BY <1>1, <1>2 DEF CacheInv, Writing
  <2>2. cache[lh[i]] # NoBuf /\ lh[i] \in Block
    BY <1>1, UncachedIsInstalled, RangeFacts, Zenon DEF Installing
  <2> QED
    BY <2>1, <2>2, ZenonT(30) DEF TypeOK
<1>4. TypeOK'
  BY <1>1, <1>2 DEF TypeOK, Stage
<1>5. StageInv'
  BY <1>1, <1>2 DEF StageInv, Installing
<1>6. HeadInv'
  BY <1>1, <1>2, <1>3 DEF HeadInv, Installing, Writing
<1>7. DiskInv'
  BY <1>1, SMTT(30) DEF DiskInv, Installing, Range
<1>8. CacheInv'
  BY <1>1, <1>2, <1>3 DEF CacheInv, Installing, Writing
<1>9. CommitIsExclusive' /\ NoLostWakeup'
  BY <1>1, ZenonT(30) DEF CommitIsExclusive, InOp, NoLostWakeup, MustWait, LogFull
<1>10. PinnedUntilInstalled'
  <2>1. ToInstall' = ToInstall
    BY <1>1, <1>2, RangeFacts DEF ToInstall
  <2> QED
    BY <1>1, <2>1, Zenon DEF PinnedUntilInstalled
<1> QED
  BY <1>4, <1>5, <1>6, <1>7, <1>8, <1>9, <1>10, Zenon

(* end_op clears committing and wakes the sleepers of begin_op. *)
LEMMA EndFinishStep ==
    ASSUME NEW p \in Proc, IInv, end_op_finish(p)
    PROVE  IInv'
<1> USE DEF IInv, diskvars, bufvars, lockvars, procvars, stepvars
<1>1. /\ UNCHANGED <<disk, dlog, dhead, cache, pins, lh, outstanding, wrote, tail,
                     recovering, panicked>>
      /\ stage = "finish" /\ stage' = "none"
      /\ committing /\ committing' = FALSE
      /\ pc[p] = "commit"
      /\ pc' = Wakeup([pc EXCEPT ![p] = "idle"])
      /\ lh = <<>> /\ dhead = <<>> /\ ~recovering
  BY Zenon DEF end_op_finish, StageInv, HeadInv, Running
<1>2. /\ pc' \in [Proc -> PC]
      /\ \A q \in Proc : pc'[q] # "waiting"
      /\ \A q \in Proc : pc'[q] = "commit" <=> (pc[q] = "commit" /\ q # p)
      /\ \A q \in Proc : pc'[q] = "op" <=> pc[q] = "op"
  BY <1>1, Zenon DEF TypeOK, PC, Wakeup
<1>3. InOp' = InOp
  BY <1>2, Zenon DEF InOp
<1>4. TypeOK'
  BY <1>1, <1>2, Zenon DEF TypeOK, Stage
<1>5. StageInv' /\ HeadInv' /\ DiskInv' /\ CacheInv'
  <2>1. StageInv'
    BY <1>1, Zenon DEF StageInv, Installing
  <2>2. HeadInv'
    BY <1>1 DEF HeadInv, Installing
  <2>3. DiskInv'
    BY <1>1, ZenonT(30) DEF DiskInv, Installing
  <2>4. CacheInv'
    BY <1>1, Zenon DEF CacheInv, Installing, Writing
  <2> QED
    BY <2>1, <2>2, <2>3, <2>4, Zenon
<1>6. CommitIsExclusive'
  BY <1>1, <1>2, <1>3, Zenon DEF CommitIsExclusive
<1>7. PinnedUntilInstalled'
  BY <1>1, Zenon DEF PinnedUntilInstalled, ToInstall
<1>8. NoLostWakeup'
  BY <1>2, Zenon DEF NoLostWakeup
<1> QED
  BY <1>4, <1>5, <1>6, <1>7, <1>8, ZenonT(30)

===========================================================================
