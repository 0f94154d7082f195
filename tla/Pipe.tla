-------------------------------- MODULE Pipe --------------------------------
(***************************************************************************)
(* kernel/pipe.c: the processes that hold the ends of one pipe, from       *)
(* pipealloc to the last pipeclose.  pi->lock is a variable: a call holds  *)
(* it from acquire to sleep or return, and every byte is an action, since  *)
(* kill does not take that lock.  sleep and wakeup are atomic here, which  *)
(* is what Proc shows of p->lock.                                          *)
(***************************************************************************)
EXTENDS Integers, Sequences, FiniteSets

CONSTANTS Reader, Writer,  \* the processes with the read, the write end open
          Byte,
          NoHolder,
          PIPESIZE,
          UINT,            \* 2^32: nread and nwrite are unsigned ints
          Sizes,           \* the byte counts of the reads and writes
          Killable         \* the processes that may be killed

ASSUME PipeAssumption ==
    /\ PIPESIZE \in Nat \ {0} /\ UINT \in Nat
    /\ UINT > PIPESIZE /\ UINT % PIPESIZE = 0
    /\ Sizes \subseteq Nat
    /\ Reader \cap Writer = {} /\ NoHolder \notin Reader \cup Writer
    /\ Killable \subseteq Reader \cup Writer

VARIABLES
    pipedata, nread, nwrite, readopen, writeopen, lock,  \* struct pipe
    frees,      \* how often the page has been given to kfree
    users,      \* the processes that have an end of the pipe open
    pkilled,
    pchan,       \* what each process sleeps on: "none", "nread" or "nwrite"
    ppc, done, n,   \* where it is; bytes done; bytes asked for
    ch          \* piperead's local variable

pipevars == <<pipedata, nread, nwrite>>
endvars == <<readopen, writeopen, frees, users>>
pvars == <<pipevars, endvars, lock, pkilled, pchan, ppc, done, n, ch>>

Process == Reader \cup Writer

(* pipealloc; the processes share the two files after fork. *)
PipeInit ==
    /\ pipedata \in [0 .. PIPESIZE - 1 -> Byte]
    /\ nread = 0 /\ nwrite = 0
    /\ readopen = TRUE /\ writeopen = TRUE
    /\ lock = NoHolder
    /\ frees = 0
    /\ users = Process
    /\ pkilled = {}
    /\ pchan = [t \in Process |-> "none"]
    /\ ppc = [t \in Process |-> "user"]
    /\ done = [t \in Process |-> 0]
    /\ n = [t \in Process |-> 0]
    /\ ch \in [Reader -> Byte]

-----------------------------------------------------------------------------
Empty == nread = nwrite

(* Variant: the comparison that lets a writer overrun the buffer. *)
Full_late == nwrite = (nread + PIPESIZE + 1) % UINT

Full == nwrite = (nread + PIPESIZE) % UINT

PipeInc(k) == (k + 1) % UINT

Count(t) == done' = [done EXCEPT ![t] = @ + 1]

PipeGoto(t, l) == ppc' = [ppc EXCEPT ![t] = l]

(* wakeup(c): what the processes sleep on afterwards. *)
pwakeup(c) == [t \in Process |-> IF pchan[t] = c THEN "none" ELSE pchan[t]]

(* Variant: the wakeup is forgotten. *)
WakeReaders_not == UNCHANGED pchan

WakeReaders == pchan' = pwakeup("nread")
WakeWriters == pchan' = pwakeup("nwrite")

Release == lock' = NoHolder

(* The call returns to user space. *)
Return(t) == /\ Release
             /\ PipeGoto(t, "user")
             /\ done' = [done EXCEPT ![t] = 0]
             /\ n' = [n EXCEPT ![t] = 0]

(* Thread t is in the loop of its call, with pi->lock. *)
Holds(t, l) == lock = t /\ ppc[t] = l

-----------------------------------------------------------------------------
(* A system call, by a process that has not been killed. *)
pipecall(t, m) ==
    /\ ppc[t] = "user" /\ t \in users \ pkilled
    /\ PipeGoto(t, IF t \in Writer THEN "write" ELSE "read")
    /\ n' = [n EXCEPT ![t] = m]
    /\ UNCHANGED <<pipevars, endvars, lock, pkilled, pchan, done, ch>>

(* acquire(&pi->lock), at the start of a call or at the end of sleep. *)
acquire(t) ==
    /\ ppc[t] \in {"write", "read"}
    /\ pchan[t] = "none"
    /\ lock = NoHolder
    /\ lock' = t
    /\ PipeGoto(t, IF t \in Writer THEN "writing" ELSE "checking")
    /\ UNCHANGED <<pipevars, endvars, pkilled, pchan, done, n, ch>>

(* sleep(&pi->nwrite or &pi->nread, &pi->lock). *)
sleep(t) ==
    /\ Holds(t, "sleep")
    /\ pchan' = [pchan EXCEPT ![t] = IF t \in Writer THEN "nwrite" ELSE "nread"]
    /\ Release
    /\ PipeGoto(t, IF t \in Writer THEN "write" ELSE "read")
    /\ UNCHANGED <<pipevars, endvars, pkilled, done, n, ch>>

(* kill: another process sets p->killed, and ends any sleep. *)
pkill(t) ==
    /\ t \in Killable \ pkilled
    /\ pkilled' = pkilled \cup {t}
    /\ pchan' = [pchan EXCEPT ![t] = "none"]
    /\ UNCHANGED <<pipevars, endvars, lock, ppc, done, n, ch>>

-----------------------------------------------------------------------------
(* pipewrite: no reader is left, or the writer has been killed. *)
pipewrite_abort(t) ==
    /\ Holds(t, "writing") /\ done[t] < n[t]
    /\ ~readopen \/ t \in pkilled
    /\ Return(t)
    /\ UNCHANGED <<pipevars, endvars, pkilled, pchan, ch>>

(* pipewrite: full, so wake the readers and sleep. *)
pipewrite_full(t) ==
    /\ Holds(t, "writing") /\ done[t] < n[t]
    /\ readopen /\ t \notin pkilled
    /\ Full
    /\ WakeReaders
    /\ PipeGoto(t, "sleep")
    /\ UNCHANGED <<pipevars, endvars, lock, pkilled, done, n, ch>>

(* pipewrite: copy one byte. *)
pipewrite_byte(t, b) ==
    /\ Holds(t, "writing") /\ done[t] < n[t]
    /\ readopen /\ t \notin pkilled
    /\ ~Full
    /\ pipedata' = [pipedata EXCEPT ![nwrite % PIPESIZE] = b]
    /\ nwrite' = PipeInc(nwrite)
    /\ Count(t)
    /\ UNCHANGED <<nread, endvars, lock, pkilled, pchan, ppc, n, ch>>

(* pipewrite: all is written, or copyin failed. *)
pipewrite_return(t) ==
    /\ Holds(t, "writing")
    /\ done[t] < n[t] => readopen /\ t \notin pkilled /\ ~Full
    /\ WakeReaders
    /\ Return(t)
    /\ UNCHANGED <<pipevars, endvars, pkilled, ch>>

-----------------------------------------------------------------------------
MustWait == Empty /\ writeopen

(* piperead: empty, so return if killed and sleep otherwise. *)
piperead_wait(t) ==
    /\ Holds(t, "checking")
    /\ MustWait
    /\ IF t \in pkilled THEN Return(t)
                       ELSE PipeGoto(t, "sleep") /\ UNCHANGED <<lock, done, n>>
    /\ UNCHANGED <<pipevars, endvars, pkilled, pchan, ch>>

piperead_start(t) ==
    /\ Holds(t, "checking")
    /\ ~MustWait
    /\ PipeGoto(t, "reading")
    /\ UNCHANGED <<pipevars, endvars, lock, pkilled, pchan, done, n, ch>>

(* piperead: take one byte; it is lost, and the call ends, if copyout      *)
(* fails.                                                                  *)
piperead_byte(t) ==
    /\ Holds(t, "reading")
    /\ done[t] < n[t] /\ ~Empty
    /\ ch' = [ch EXCEPT ![t] = pipedata[nread % PIPESIZE]]
    /\ nread' = PipeInc(nread)
    /\ \/ /\ Count(t)
          /\ UNCHANGED <<pchan, lock, ppc, n>>
       \/ /\ WakeWriters
          /\ Return(t)
    /\ UNCHANGED <<pipedata, nwrite, endvars, pkilled>>

piperead_return(t) ==
    /\ Holds(t, "reading")
    /\ done[t] = n[t] \/ Empty
    /\ WakeWriters
    /\ Return(t)
    /\ UNCHANGED <<pipevars, endvars, pkilled, ch>>

-----------------------------------------------------------------------------
(* Variant: pipeclose frees when either end is closed. *)
BothClosed_either(r, v) == ~r \/ ~v

BothClosed(r, v) == ~r /\ ~v

(* close, or exit: fileclose drops a reference, and the last one of an end *)
(* calls pipeclose.                                                        *)
pipe_close(t) ==
    /\ ppc[t] = "user" /\ t \in users
    /\ users' = users \ {t}
    /\ IF t \in Writer
       THEN IF users' \cap Writer = {}
            THEN /\ lock = NoHolder
                 /\ writeopen' = FALSE
                 /\ WakeReaders
                 /\ frees' = IF BothClosed(readopen, FALSE) THEN frees + 1 ELSE frees
                 /\ UNCHANGED readopen
            ELSE UNCHANGED <<readopen, writeopen, frees, pchan>>
       ELSE IF users' \cap Reader = {}
            THEN /\ lock = NoHolder
                 /\ readopen' = FALSE
                 /\ WakeWriters
                 /\ frees' = IF BothClosed(FALSE, writeopen) THEN frees + 1 ELSE frees
                 /\ UNCHANGED writeopen
            ELSE UNCHANGED <<readopen, writeopen, frees, pchan>>
    /\ UNCHANGED <<pipevars, lock, pkilled, ppc, done, n, ch>>

(* What process t does once it has started a call. *)
Step(t) ==
    \/ acquire(t) \/ sleep(t)
    \/ t \in Writer /\ (\/ pipewrite_abort(t) \/ pipewrite_full(t) \/ pipewrite_return(t)
                        \/ \E b \in Byte : pipewrite_byte(t, b))
    \/ t \in Reader /\ (\/ piperead_wait(t) \/ piperead_start(t) \/ piperead_byte(t)
                        \/ piperead_return(t))

(* Both ends are closed and the page has been freed. *)
Gone == users = {} /\ UNCHANGED pvars

PipeNext ==
    \/ \E t \in Process : \/ Step(t) \/ pkill(t) \/ pipe_close(t)
                          \/ \E m \in Sizes : pipecall(t, m)
    \/ Gone

PipeSpec == PipeInit /\ [][PipeNext]_pvars

-----------------------------------------------------------------------------
(* The fields of the pipe and the locals of the calls have their types. *)
PipeTypeOK ==
    /\ pipedata \in [0 .. PIPESIZE - 1 -> Byte]
    /\ nread \in 0 .. UINT - 1 /\ nwrite \in 0 .. UINT - 1
    /\ readopen \in BOOLEAN /\ writeopen \in BOOLEAN
    /\ lock \in Process \cup {NoHolder}
    /\ frees \in 0 .. 1
    /\ users \subseteq Process /\ pkilled \subseteq Process
    /\ pchan \in [Process -> {"none", "nread", "nwrite"}]
    /\ ppc \in [Process -> {"user", "write", "writing", "read", "checking",
                           "reading", "sleep"}]
    /\ n \in [Process -> Sizes \cup {0}]
    /\ \A t \in Process : done[t] \in 0 .. n[t]
    /\ ch \in [Reader -> Byte]

(* The bytes between nread and nwrite, across the wrap of the counters. *)
Contents == [k \in 1 .. (nwrite - nread) % UINT |->
                pipedata[((nread + k - 1) % UINT) % PIPESIZE]]

(* The pipe is a bounded queue, whatever readers and writers do at once:   *)
(* pipewrite and piperead lose, repeat and reorder no byte, and the wrap   *)
(* of nread and nwrite at 2^32 does not show.                              *)
F == INSTANCE Fifo WITH queue <- Contents, Capacity <- PIPESIZE
ImplementsFifo == F!Spec

(* While pi->lock is free, a writer sleeps in pipewrite only if the pipe   *)
(* is full and a reader is left: the wakeups of piperead and pipeclose     *)
(* are never missed.                                                       *)
WritersSleepOnlyIfFull ==
    lock = NoHolder /\ (\E t \in Process : pchan[t] = "nwrite") => Full /\ readopen

(* While pi->lock is free, a reader sleeps in piperead only if the pipe is *)
(* empty and a writer is left: the wakeups of pipewrite and pipeclose are  *)
(* never missed.                                                           *)
ReadersSleepOnlyIfEmpty ==
    lock = NoHolder /\ (\E t \in Process : pchan[t] = "nread") => Empty /\ writeopen

(* A read for at least one byte that ends without having taken one, by a   *)
(* reader that is not killed, is the end of file: every byte written has   *)
(* been read and every write end is closed.                                *)
ZeroIsEndOfFile ==
    [][\A t \in Reader :
        /\ ppc[t] \in {"checking", "reading"} /\ ppc'[t] = "user"
        /\ done[t] = 0 /\ n[t] > 0 /\ nread' = nread /\ t \notin pkilled
        => Empty /\ ~writeopen]_pvars

(* The page is freed once, by whichever end is closed last, and no call    *)
(* uses the pipe after that.                                               *)
FreedByTheLastClose ==
    /\ frees = IF readopen \/ writeopen THEN 0 ELSE 1
    /\ frees > 0 => \A t \in Process : ppc[t] = "user" /\ pchan[t] = "none"

(* While the readers keep reading or close, every write of a sole writer   *)
(* ends, however often the pipe fills up.                                  *)
WritesEnd == \A t \in Writer : ppc[t] # "user" ~> ppc[t] = "user"

(* pipe.c, piperead and pipewrite: no wakeup is lost on either side. While *)
(* pi->lock is free a writer sleeps only on a full pipe and a reader only  *)
(* on an empty one whose write end is open.                                *)
NoLostPipeWakeup == WritersSleepOnlyIfFull /\ ReadersSleepOnlyIfEmpty
=============================================================================
