-------------------------------- MODULE Bio ---------------------------------
(***************************************************************************)
(* The buffer cache of kernel/bio.c, with the sleep-locks of sleeplock.c   *)
(* on its buffers.  A section under bcache.lock or under a sleep-lock's    *)
(* spinlock is one action.  A process uses one buffer at a time: bread,    *)
(* then any of changing it, bwrite, bpin and bunpin, then brelse.          *)
(***************************************************************************)
EXTENDS Integers, FiniteSets, Functions

CONSTANTS Proc, Buf, Block, Value,
          Nobody     \* no process, no buffer, no block

ASSUME BioAssumption ==
    /\ IsFiniteSet(Proc) /\ IsFiniteSet(Buf)
    /\ Nobody \notin Proc \cup Buf \cup Block

VARIABLES
    list,      \* bcache.head: the buffers, most recently used first
    blockno, valid, refcnt, data,   \* the fields of struct buf
    locked,    \* b->lock: the process that holds the sleep-lock
    asleep,    \* the processes that sleep in acquiresleep
    disk,      \* the blocks on disk (virtio_disk.c)
    pc,
    buf,       \* the buffer a process has got from bget
    want,      \* the block it has asked for
    pinned,    \* the buffers that the log has pinned with bpin
    current,   \* what was last stored in each block by a process that locked it
    panicked   \* bget found no buffer; it keeps bcache.lock for ever

bufvars == <<blockno, valid, refcnt, data>>
vars == <<list, bufvars, locked, asleep, disk, pc, buf, want, pinned, current,
          panicked>>

NBUF == Cardinality(Buf)

PC == {"idle", "acquiresleep", "bread", "using", "dirty", "brelse"}

(* binit: every buffer is pushed at the head of the list; their order does *)
(* not matter.                                                             *)
Init ==
    /\ list \in {l \in [1 .. NBUF -> Buf] : Range(l) = Buf}
    /\ blockno = [b \in Buf |-> Nobody]
    /\ valid = [b \in Buf |-> FALSE]
    /\ refcnt = [b \in Buf |-> 0]
    /\ disk \in [Block -> Value]
    /\ \E v \in Value : data = [b \in Buf |-> v]
    /\ locked = [b \in Buf |-> Nobody]
    /\ asleep = {}
    /\ pc = [p \in Proc |-> "idle"]
    /\ buf = [p \in Proc |-> Nobody]
    /\ want = [p \in Proc |-> Nobody]
    /\ pinned = {}
    /\ current = disk
    /\ panicked = FALSE

Goto(p, l) == pc' = [pc EXCEPT ![p] = l]

-----------------------------------------------------------------------------
(* The buffers that hold block k. *)
Cached(k) == {b \in Buf : blockno[b] = k}

(* Variant: a buffer somebody still refers to is recycled. *)
Unused_unlocked(b) == locked[b] = Nobody

Unused(b) == refcnt[b] = 0

(* Variant: b->valid is not cleared. *)
Stale_kept(b) == valid

Stale(b) == [valid EXCEPT ![b] = FALSE]

(* bget: the block is cached. *)
bget_hit(p, k) ==
    /\ pc[p] = "idle" /\ ~panicked
    /\ \E b \in Cached(k) :
          /\ refcnt' = [refcnt EXCEPT ![b] = @ + 1]
          /\ buf' = [buf EXCEPT ![p] = b]
    /\ want' = [want EXCEPT ![p] = k]
    /\ Goto(p, "acquiresleep")
    /\ UNCHANGED <<list, blockno, valid, data, locked, asleep, disk, pinned,
                   current, panicked>>

(* bget: recycle the least recently used buffer with no references. *)
bget_recycle(p, k) ==
    /\ pc[p] = "idle" /\ ~panicked
    /\ Cached(k) = {}
    /\ \E j \in 1 .. NBUF :
          LET b == list[j] IN
          /\ Unused(b)
          /\ \A h \in 1 .. NBUF : h > j => ~Unused(list[h])
          /\ blockno' = [blockno EXCEPT ![b] = k]
          /\ valid' = Stale(b)
          /\ refcnt' = [refcnt EXCEPT ![b] = 1]
          /\ buf' = [buf EXCEPT ![p] = b]
    /\ want' = [want EXCEPT ![p] = k]
    /\ Goto(p, "acquiresleep")
    /\ UNCHANGED <<list, data, locked, asleep, disk, pinned, current, panicked>>

bget_panic(p, k) ==
    /\ pc[p] = "idle" /\ ~panicked
    /\ Cached(k) = {}
    /\ \A b \in Buf : ~Unused(b)
    /\ panicked' = TRUE
    /\ UNCHANGED <<list, bufvars, locked, asleep, disk, pc, buf, want, pinned,
                   current>>

-----------------------------------------------------------------------------
(* acquiresleep: take the lock, or sleep on it. *)
acquiresleep(p) ==
    /\ pc[p] = "acquiresleep" /\ p \notin asleep
    /\ IF locked[buf[p]] = Nobody
       THEN /\ locked' = [locked EXCEPT ![buf[p]] = p]
            /\ Goto(p, "bread")
            /\ UNCHANGED asleep
       ELSE /\ asleep' = asleep \cup {p}
            /\ UNCHANGED <<locked, pc>>
    /\ UNCHANGED <<list, bufvars, disk, buf, want, pinned, current, panicked>>

(* bread: read the block from disk unless the buffer has it. *)
bread(p) ==
    LET b == buf[p] IN
    /\ pc[p] = "bread"
    /\ IF valid[b] THEN UNCHANGED <<data, valid>>
                   ELSE /\ data' = [data EXCEPT ![b] = disk[blockno[b]]]
                        /\ valid' = [valid EXCEPT ![b] = TRUE]
    /\ Goto(p, "using")
    /\ UNCHANGED <<list, blockno, refcnt, locked, asleep, disk, buf, want, pinned,
                   current, panicked>>

(* The holder of the lock changes the data; it calls bwrite, or log_write, *)
(* which pins the buffer, before it calls brelse.                          *)
store(p, v) ==
    /\ pc[p] \in {"using", "dirty"}
    /\ data' = [data EXCEPT ![buf[p]] = v]
    /\ current' = [current EXCEPT ![want[p]] = v]
    /\ Goto(p, IF buf[p] \in pinned THEN "using" ELSE "dirty")
    /\ UNCHANGED <<list, blockno, valid, refcnt, locked, asleep, disk, buf, want,
                   pinned, panicked>>

bwrite(p) ==
    /\ pc[p] \in {"using", "dirty"}
    /\ disk' = [disk EXCEPT ![blockno[buf[p]]] = data[buf[p]]]
    /\ Goto(p, "using")
    /\ UNCHANGED <<list, bufvars, locked, asleep, buf, want, pinned, current,
                   panicked>>

Pin(b) == refcnt' = [refcnt EXCEPT ![b] = @ + 1]

bpin(p) ==
    /\ pc[p] \in {"using", "dirty"}
    /\ buf[p] \notin pinned /\ ~panicked
    /\ Pin(buf[p])
    /\ pinned' = pinned \cup {buf[p]}
    /\ Goto(p, "using")
    /\ UNCHANGED <<list, blockno, valid, data, locked, asleep, disk, buf, want,
                   current, panicked>>

(* install_trans: write the pinned buffer to its home block, then bunpin. *)
bunpin(p) ==
    LET b == buf[p] IN
    /\ pc[p] = "using"
    /\ b \in pinned /\ ~panicked
    /\ disk[blockno[b]] = data[b]
    /\ refcnt' = [refcnt EXCEPT ![b] = @ - 1]
    /\ pinned' = pinned \ {b}
    /\ UNCHANGED <<list, blockno, valid, data, locked, asleep, disk, pc, buf, want,
                   current, panicked>>

-----------------------------------------------------------------------------
(* wakeup(lk): the processes that sleep on the lock of b. *)
Woken(b) == {q \in asleep : buf[q] = b}

(* brelse: releasesleep(&b->lock). *)
releasesleep(p) ==
    /\ pc[p] = "using"
    /\ locked' = [locked EXCEPT ![buf[p]] = Nobody]
    /\ asleep' = asleep \ Woken(buf[p])
    /\ Goto(p, "brelse")
    /\ UNCHANGED <<list, bufvars, disk, buf, want, pinned, current, panicked>>

(* Unlink b and link it again at the head of the list. *)
MoveToHead(b) ==
    LET j == CHOOSE j \in 1 .. NBUF : list[j] = b
    IN [k \in 1 .. NBUF |-> IF k = 1 THEN b ELSE IF k <= j THEN list[k - 1] ELSE list[k]]

(* brelse: drop the reference; the last one moves the buffer to the head.  *)
brelse(p) ==
    LET b == buf[p] IN
    /\ pc[p] = "brelse" /\ ~panicked
    /\ refcnt' = [refcnt EXCEPT ![b] = @ - 1]
    /\ list' = IF refcnt[b] = 1 THEN MoveToHead(b) ELSE list
    /\ buf' = [buf EXCEPT ![p] = Nobody]
    /\ want' = [want EXCEPT ![p] = Nobody]
    /\ Goto(p, "idle")
    /\ UNCHANGED <<blockno, valid, data, locked, asleep, disk, pinned, current,
                   panicked>>

Stopped == panicked /\ UNCHANGED vars

Next ==
    \/ \E p \in Proc :
          \/ \E k \in Block : bget_hit(p, k) \/ bget_recycle(p, k) \/ bget_panic(p, k)
          \/ acquiresleep(p) \/ bread(p) \/ bwrite(p) \/ bpin(p) \/ bunpin(p)
          \/ releasesleep(p) \/ brelse(p)
          \/ \E v \in Value : store(p, v)
    \/ Stopped

Spec == Init /\ [][Next]_vars

-----------------------------------------------------------------------------
(* The list is a permutation of the buffers, and the fields have their     *)
(* types.                                                                  *)
TypeOK ==
    /\ list \in [1 .. NBUF -> Buf] /\ Range(list) = Buf
    /\ blockno \in [Buf -> Block \cup {Nobody}]
    /\ valid \in [Buf -> BOOLEAN]
    /\ refcnt \in [Buf -> Nat]
    /\ data \in [Buf -> Value]
    /\ locked \in [Buf -> Proc \cup {Nobody}]
    /\ asleep \subseteq Proc
    /\ disk \in [Block -> Value]
    /\ pc \in [Proc -> PC]
    /\ buf \in [Proc -> Buf \cup {Nobody}]
    /\ want \in [Proc -> Block \cup {Nobody}]
    /\ pinned \subseteq Buf
    /\ current \in [Block -> Value]
    /\ panicked \in BOOLEAN

(* No block is cached in two buffers, however calls of bget interleave. *)
OneBufferPerBlock ==
    \A b, c \in Buf : blockno[b] = blockno[c] /\ blockno[b] # Nobody => b = c

(* From bget to brelse a process has the block it asked for: the buffer is *)
(* not recycled while the process waits for its lock, and is locked by it  *)
(* alone from then on.                                                     *)
KeepsItsBlock ==
    \A p \in Proc :
        /\ pc[p] # "idle" => buf[p] # Nobody /\ blockno[buf[p]] = want[p]
        /\ pc[p] \in {"bread", "using", "dirty"} => locked[buf[p]] = p

(* What bread returns, and the lock holder sees, is what was last stored   *)
(* in the block by anybody: neither recycling nor pinning loses an update. *)
ReadsAreCurrent ==
    \A p \in Proc : pc[p] \in {"using", "dirty"} => data[buf[p]] = current[want[p]]

(* b->refcnt is the number of processes between bget and brelse of b, and  *)
(* one more while the log has it pinned; so it never underflows.           *)
RefcntIsExact ==
    \A b \in Buf : refcnt[b] = Cardinality({p \in Proc : buf[p] = b})
                                + (IF b \in pinned THEN 1 ELSE 0)

(* Nobody sleeps in acquiresleep on a buffer that is not locked. *)
NoLostWakeup == \A p \in asleep : locked[buf[p]] # Nobody
=============================================================================
