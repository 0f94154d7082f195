-------------------------------- MODULE Log --------------------------------
(***************************************************************************)
(* The write-ahead log of kernel/log.c: begin_op, log_write, end_op, the   *)
(* group commit, the installation of a committed transaction, and the      *)
(* recovery at boot, with crashes at any moment.                           *)
(*                                                                         *)
(* A critical section of log.lock is one action: the lock is a spin lock   *)
(* and no code sleeps while it holds it.  commit() runs outside the lock,  *)
(* so each of its disk writes is an action of its own.  A block is two     *)
(* disk sectors (BSIZE 1024), so writing one takes two actions, and        *)
(* between them the block on disk is Torn.  The log header is 124 bytes,   *)
(* within one sector, so it is written in one action.                      *)
(*                                                                         *)
(* The buffer cache appears as what it holds: the cached contents of a     *)
(* block, its pins (bpin, bunpin), and eviction of any block that nobody   *)
(* references.                                                             *)
(***************************************************************************)
EXTENDS Integers, Sequences, FiniteSets, Functions

CONSTANTS Proc,         \* processes that make file system calls
          Block,        \* home blocks of the file system
          Value,        \* contents of a block
          NoBuf,        \* the block has no buffer in the cache
          Torn,         \* contents of a block half written at a crash
          MAXOPBLOCKS,  \* log blocks that begin_op reserves for an operation
          LOGSIZE,      \* log blocks that begin_op hands out in total
          LogBlocks,    \* log.size: blocks of the log on disk, header included
          OpBlocks      \* distinct blocks an operation really writes, at most

ASSUME ConstAssumption ==
    /\ MAXOPBLOCKS \in Nat \ {0}
    /\ LOGSIZE \in Nat
    /\ LogBlocks \in Nat
    /\ OpBlocks \in 0 .. MAXOPBLOCKS
    /\ IsFiniteSet(Proc)

ASSUME ValueAssumption == NoBuf \notin Value /\ Torn \notin Value /\ NoBuf # Torn

VARIABLES
    disk,        \* home blocks on disk
    dlog,        \* the data blocks of the log on disk, slot i at log.start + i
    dhead,       \* the log header on disk: the block numbers it lists
    cache,       \* buffer contents of each home block, NoBuf when not cached
    pins,        \* references that log_write holds on each buffer
    lh,          \* log.lh: the block numbers logged so far
    outstanding, \* log.outstanding
    committing,  \* log.committing
    pc,          \* where each process is
    wrote,       \* the blocks that each process's current operation has logged
    stage,       \* next disk step of commit() or of recover_from_log()
    tail,        \* the loop variable of write_log and install_trans
    recovering,  \* install_trans's parameter: is this the recovery at boot?
    panicked     \* some process holds log.lock forever, in panic()

diskvars == <<disk, dlog, dhead>>
bufvars == <<cache, pins>>
lockvars == <<outstanding, committing>>
procvars == <<pc, wrote>>
stepvars == <<stage, tail, recovering>>
vars == <<disk, dlog, dhead, cache, pins, lh, outstanding, committing, pc,
          wrote, stage, tail, recovering, panicked>>

Slot == 1 .. LOGSIZE

PC == {"idle",      \* outside the file system
       "waiting",   \* asleep on &log in begin_op
       "woken",     \* in begin_op, woken up, about to look again
       "op",        \* between begin_op and end_op
       "commit"}    \* in end_op, inside commit()

Stage == {"none",                          \* no disk step to do
          "read_head",                     \* recovery is about to start
          "write_log", "write_log_io",     \* about to write, or writing, a slot
          "write_head",                    \* about to write the header
          "install", "install_io",         \* about to write, or writing, home
          "clear_head",                    \* about to erase the header
          "finish"}                        \* commit() has returned

-----------------------------------------------------------------------------
(* What a read of block b returns: the cached buffer, or the disk. *)
View == [b \in Block |-> IF cache[b] = NoBuf THEN disk[b] ELSE cache[b]]

(* The buffer of block b is locked by the thread that is writing it. *)
InUse(b) == /\ stage \in {"write_log_io", "install_io"}
            /\ lh[tail] = b

(* The kernel has booted and holds no panicked lock. *)
Running == ~recovering /\ ~panicked

LogInit(d) ==
    /\ disk = d
    /\ \E zero \in Value : dlog = [i \in Slot |-> zero]
    /\ dhead = <<>>
    /\ cache = [b \in Block |-> NoBuf]
    /\ pins = [b \in Block |-> 0]
    /\ lh = <<>>
    /\ outstanding = 0
    /\ committing = FALSE
    /\ pc = [p \in Proc |-> "idle"]
    /\ wrote = [p \in Proc |-> {}]
    /\ stage = "read_head"
    /\ tail = 1
    /\ recovering = TRUE
    /\ panicked = FALSE

(* mkfs writes the file system and an empty log; the machine boots. *)
Init == \E d \in [Block -> Value] : LogInit(d)

-----------------------------------------------------------------------------
(* Variant: the wakeup is forgotten. *)
Wakeup_lost(f) == f

(* wakeup(&log): every process asleep in begin_op looks again. *)
Wakeup(f) == [q \in Proc |-> IF f[q] = "waiting" THEN "woken" ELSE f[q]]

(* Variant: the caller's own reservation is not counted. *)
LogFull_off_by_one == Len(lh) + outstanding * MAXOPBLOCKS > LOGSIZE

(* This operation might exhaust the space of the log. *)
LogFull == Len(lh) + (outstanding + 1) * MAXOPBLOCKS > LOGSIZE

MustWait == committing \/ LogFull

begin_op_sleep(p) ==
    /\ Running
    /\ pc[p] \in {"idle", "woken"}
    /\ MustWait
    /\ pc' = [pc EXCEPT ![p] = "waiting"]
    /\ UNCHANGED <<diskvars, bufvars, lh, lockvars, wrote, stepvars, panicked>>

begin_op_enter(p) ==
    /\ Running
    /\ pc[p] \in {"idle", "woken"}
    /\ ~MustWait
    /\ outstanding' = outstanding + 1
    /\ pc' = [pc EXCEPT ![p] = "op"]
    /\ wrote' = [wrote EXCEPT ![p] = {}]
    /\ UNCHANGED <<diskvars, bufvars, lh, committing, stepvars, panicked>>

(* log_write's panics; the panicking process keeps log.lock. *)
TooBig == Len(lh) >= LOGSIZE \/ Len(lh) >= LogBlocks - 1

(* Log absorption: block b is already part of the transaction. *)
Absorbed(b) == b \in Range(lh)

Pinned(b) == IF Absorbed(b) THEN pins ELSE [pins EXCEPT ![b] = @ + 1]

(* An operation reads block b, gives it contents v, and calls log_write.   *)
(* The buffer is locked from bread to brelse, and no commit can begin      *)
(* while the operation is outstanding, so this is one step.                *)
log_write(p, b, v) ==
    /\ Running
    /\ pc[p] = "op"
    /\ ~InUse(b)
    /\ Cardinality(wrote[p] \cup {b}) <= OpBlocks
    /\ cache' = [cache EXCEPT ![b] = v]
    /\ IF TooBig \/ outstanding < 1
       THEN /\ panicked' = TRUE
            /\ UNCHANGED <<lh, pins, wrote>>
       ELSE /\ lh' = IF Absorbed(b) THEN lh ELSE Append(lh, b)
            /\ pins' = Pinned(b)
            /\ wrote' = [wrote EXCEPT ![p] = @ \cup {b}]
            /\ UNCHANGED panicked
    /\ UNCHANGED <<diskvars, lockvars, pc, stepvars>>

(* Variant: no commit for a transaction of one block. *)
SomethingLogged_off_by_one == Len(lh) > 1

(* The operation that ends is the last one outstanding. *)
DoCommit == outstanding - 1 = 0

(* commit() has something to write. *)
SomethingLogged == Len(lh) > 0

end_op(p) ==
    /\ Running
    /\ pc[p] = "op"
    /\ outstanding' = outstanding - 1
    /\ wrote' = [wrote EXCEPT ![p] = {}]
    /\ IF committing
       THEN /\ panicked' = TRUE
            /\ UNCHANGED <<committing, pc, stage, tail>>
       ELSE /\ UNCHANGED panicked
            /\ IF DoCommit
               THEN /\ committing' = TRUE
                    /\ pc' = [pc EXCEPT ![p] = "commit"]
                    /\ stage' = IF SomethingLogged THEN "write_log" ELSE "finish"
                    /\ tail' = 1
               ELSE /\ pc' = Wakeup([pc EXCEPT ![p] = "idle"])
                    /\ UNCHANGED <<committing, stage, tail>>
    /\ UNCHANGED <<diskvars, bufvars, lh, recovering>>

-----------------------------------------------------------------------------
(* write_log: copy the cached block lh[tail] to its slot of the log. *)
write_log(b) ==
    /\ ~panicked
    /\ stage = "write_log"
    /\ b = lh[tail]
    /\ cache' = [cache EXCEPT ![b] = View[b]]
    /\ dlog' = [dlog EXCEPT ![tail] = Torn]
    /\ stage' = "write_log_io"
    /\ UNCHANGED <<disk, dhead, pins, lh, lockvars, procvars, tail, recovering,
                   panicked>>

write_log_io(b) ==
    /\ ~panicked
    /\ stage = "write_log_io"
    /\ b = lh[tail]
    /\ dlog' = [dlog EXCEPT ![tail] = cache[b]]
    /\ tail' = tail + 1
    /\ stage' = IF tail < Len(lh) THEN "write_log" ELSE "write_head"
    /\ UNCHANGED <<disk, dhead, bufvars, lh, lockvars, procvars, recovering,
                   panicked>>

(* write_head with the whole transaction: the commit point. *)
write_head ==
    /\ ~panicked
    /\ stage = "write_head"
    /\ dhead' = lh
    /\ tail' = 1
    /\ stage' = "install"
    /\ UNCHANGED <<disk, dlog, bufvars, lh, lockvars, procvars, recovering,
                   panicked>>

Unpinned(b) == IF recovering THEN pins ELSE [pins EXCEPT ![b] = @ - 1]

(* install_trans: copy slot tail to the home of block lh[tail].  The home  *)
(* buffer gets the data too; it is unpinned unless this is the recovery.   *)
install_trans(b) ==
    /\ ~panicked
    /\ stage = "install"
    /\ b = lh[tail]
    /\ cache' = [cache EXCEPT ![b] = dlog[tail]]
    /\ disk' = [disk EXCEPT ![b] = Torn]
    /\ stage' = "install_io"
    /\ UNCHANGED <<dlog, dhead, pins, lh, lockvars, procvars, tail, recovering,
                   panicked>>

install_trans_io(b) ==
    /\ ~panicked
    /\ stage = "install_io"
    /\ b = lh[tail]
    /\ disk' = [disk EXCEPT ![b] = cache[b]]
    /\ pins' = Unpinned(b)
    /\ tail' = tail + 1
    /\ stage' = IF tail < Len(lh) THEN "install" ELSE "clear_head"
    /\ UNCHANGED <<dlog, dhead, cache, lh, lockvars, procvars, recovering,
                   panicked>>

(* log.lh.n = 0 and write_head: the transaction is erased from the log. *)
clear_head ==
    /\ ~panicked
    /\ stage = "clear_head"
    /\ lh' = <<>>
    /\ dhead' = <<>>
    /\ tail' = 1
    /\ stage' = IF recovering THEN "none" ELSE "finish"
    /\ recovering' = FALSE
    /\ UNCHANGED <<disk, dlog, bufvars, lockvars, procvars, panicked>>

(* The end of end_op, after commit() has returned. *)
end_op_finish(p) ==
    /\ Running
    /\ pc[p] = "commit"
    /\ stage = "finish"
    /\ committing' = FALSE
    /\ pc' = Wakeup([pc EXCEPT ![p] = "idle"])
    /\ stage' = "none"
    /\ UNCHANGED <<diskvars, bufvars, lh, outstanding, wrote, tail, recovering,
                   panicked>>

-----------------------------------------------------------------------------
(* Variant: recovery erases the log without replaying it. *)
read_head_no_replay ==
    /\ stage = "read_head"
    /\ lh' = <<>>
    /\ tail' = 1
    /\ stage' = "clear_head"
    /\ UNCHANGED <<diskvars, bufvars, lockvars, procvars, recovering, panicked>>

(* recover_from_log begins: read_head, then install_trans(1) or, when the  *)
(* header is empty, straight to the final write_head.                      *)
read_head ==
    /\ stage = "read_head"
    /\ lh' = dhead
    /\ tail' = 1
    /\ stage' = IF Len(dhead) > 0 THEN "install" ELSE "clear_head"
    /\ UNCHANGED <<diskvars, bufvars, lockvars, procvars, recovering, panicked>>

(* A reader brings block b into the cache. *)
bread(b) ==
    /\ Running
    /\ ~InUse(b)
    /\ cache[b] = NoBuf
    /\ cache' = [cache EXCEPT ![b] = disk[b]]
    /\ UNCHANGED <<diskvars, pins, lh, lockvars, procvars, stepvars, panicked>>

(* bget recycles the buffer of a block that nobody references. *)
bget_recycle(b) ==
    /\ ~panicked
    /\ ~InUse(b)
    /\ cache[b] # NoBuf
    /\ pins[b] = 0
    /\ cache' = [cache EXCEPT ![b] = NoBuf]
    /\ UNCHANGED <<diskvars, pins, lh, lockvars, procvars, stepvars, panicked>>

(* The machine stops, at any moment, and boots again. *)
Crash ==
    /\ cache' = [b \in Block |-> NoBuf]
    /\ pins' = [b \in Block |-> 0]
    /\ lh' = <<>>
    /\ outstanding' = 0
    /\ committing' = FALSE
    /\ pc' = [p \in Proc |-> "idle"]
    /\ wrote' = [p \in Proc |-> {}]
    /\ stage' = "read_head"
    /\ tail' = 1
    /\ recovering' = TRUE
    /\ panicked' = FALSE
    /\ UNCHANGED diskvars

-----------------------------------------------------------------------------
DiskStep == \/ \E b \in Block : \/ write_log(b) \/ write_log_io(b)
                                \/ install_trans(b) \/ install_trans_io(b)
            \/ write_head
            \/ clear_head
            \/ read_head

begin_op(p) == begin_op_sleep(p) \/ begin_op_enter(p)

Next == \/ \E p \in Proc : begin_op(p) \/ end_op(p) \/ end_op_finish(p)
        \/ \E p \in Proc, b \in Block, v \in Value : log_write(p, b, v)
        \/ DiskStep
        \/ \E b \in Block : bread(b) \/ bget_recycle(b)
        \/ Crash

Spec == Init /\ [][Next]_vars

(* Fairness.  The disk answers every request and the committing process    *)
(* is scheduled; an operation is a finite stretch of kernel code, so it    *)
(* reaches end_op; a process that was woken up is scheduled again.         *)
FairSpec ==
    /\ Spec
    /\ WF_vars(DiskStep)
    /\ \A p \in Proc : /\ WF_vars(end_op(p))
                        /\ WF_vars(end_op_finish(p))
                        /\ WF_vars(pc[p] = "woken" /\ begin_op(p))

-----------------------------------------------------------------------------
(* Every variable has its type; in particular no pin count is negative and *)
(* log.lh never outgrows the on-disk log.                                  *)
TypeOK ==
    /\ disk \in [Block -> Value \cup {Torn}]
    /\ dlog \in [Slot -> Value \cup {Torn}]
    /\ dhead \in Seq(Block) /\ Len(dhead) <= LOGSIZE
    /\ cache \in [Block -> Value \cup {NoBuf}]
    /\ pins \in [Block -> Nat]
    /\ lh \in Seq(Block) /\ Len(lh) <= LOGSIZE
    /\ outstanding \in Nat
    /\ committing \in BOOLEAN
    /\ pc \in [Proc -> PC]
    /\ wrote \in [Proc -> SUBSET Block]
    /\ stage \in Stage
    /\ tail \in 1 .. LOGSIZE + 1
    /\ recovering \in BOOLEAN
    /\ panicked \in BOOLEAN

InOp == {p \in Proc : pc[p] = "op"}

(* A commit is exclusive: while log.committing is set no process is inside *)
(* an operation, exactly one process runs commit(), and otherwise none     *)
(* does; outstanding counts the processes inside an operation, so the two  *)
(* panics "log.committing" and "log_write outside of trans" cannot happen. *)
CommitIsExclusive ==
    /\ outstanding = Cardinality(InOp)
    /\ committing => InOp = {} /\ \E p \in Proc : pc[p] = "commit"
    /\ \A p, q \in Proc : pc[p] = "commit" /\ pc[q] = "commit" => p = q
    /\ \A p \in Proc : pc[p] = "commit" => committing

(* The blocks of the transaction that are not installed yet. *)
ToInstall ==
    IF stage \in {"install", "install_io", "clear_head"}
    THEN {lh[i] : i \in tail .. Len(lh)}
    ELSE Range(lh)

(* A block that log_write has recorded stays in the cache, pinned exactly  *)
(* once, until install_trans has put it in its home location; no other     *)
(* block is pinned, so bunpin gives back every reference that bpin took.   *)
PinnedUntilInstalled ==
    ~recovering =>
        \A b \in Block : /\ pins[b] = IF b \in ToInstall THEN 1 ELSE 0
                         /\ b \in ToInstall => cache[b] # NoBuf

(* Nobody sleeps in begin_op without a reason: whenever the condition that *)
(* begin_op sleeps on becomes false, end_op has woken up the sleepers.     *)
NoLostWakeup ==
    \A p \in Proc : pc[p] = "waiting" => MustWait

(* The space that begin_op reserves is enough: log_write never panics with *)
(* "too big a transaction", nor end_op or log_write with another message.  *)
NoPanic == ~panicked

(* The write-ahead rule: a home block on disk changes only while the       *)
(* header on disk lists it, with its new contents complete in the log.     *)
WriteAhead ==
    [][\A b \in Block :
          disk'[b] # disk[b] =>
              \E i \in 1 .. Len(dhead) :
                  /\ dhead[i] = b
                  /\ dlog[i] # Torn
                  /\ disk'[b] \in {Torn, dlog[i]}]_vars

(* The last entry of header d for block b, the one that is replayed last. *)
LastEntry(d, b) == CHOOSE i \in 1 .. Len(d) :
                      /\ d[i] = b
                      /\ \A j \in i + 1 .. Len(d) : d[j] # b

(* What recover_from_log makes of the disk: the blocks that the header     *)
(* lists are replaced by their slots of the log.                           *)
Recovered ==
    [b \in Block |-> IF b \in Range(dhead) THEN dlog[LastEntry(dhead, b)]
                                           ELSE disk[b]]

(* When end_op returns from a commit, the contents that every block has at *)
(* that moment would survive a crash: the operations are durable.          *)
DurableOnReturn ==
    [][\A p \in Proc :
          (pc[p] = "commit" /\ pc'[p] = "idle" /\ ~recovering')
              => Recovered' = View']_vars

J == INSTANCE Journal WITH
         mem <- IF recovering THEN Recovered ELSE View,
         durable <- Recovered,
         open <- InOp

(* The log implements the atomic journal: whatever the interleaving of     *)
(* operations and commit steps, and wherever a crash or a crash during     *)
(* recovery falls, the recovered disk holds the updates of all operations  *)
(* up to some moment when none was half done, and no update is ever lost   *)
(* from the view of the running system.                                    *)
ImplementsJournal == J!Spec

(* A process that sleeps in begin_op is woken up eventually. *)
WaitersAreWoken ==
    \A p \in Proc : (pc[p] = "waiting") ~> (pc[p] # "waiting")
=============================================================================
