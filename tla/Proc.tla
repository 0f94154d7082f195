-------------------------------- MODULE Proc --------------------------------
(***************************************************************************)
(* The process table of kernel/proc.c: fork, exit, wait, kill, yield,      *)
(* sleep, wakeup and the per-CPU scheduler, with p->lock and wait_lock.    *)
(*                                                                         *)
(* Each slot of proc[] is a kernel thread with a pc; a thread takes a step *)
(* only while some CPU runs it.  A section under one p->lock that neither  *)
(* sleeps nor acquires wait_lock is one action, enabled when the lock is   *)
(* free.  The lock is a variable because it is held across swtch: from the *)
(* scheduler until the thread releases it, and from sleep, yield or exit   *)
(* until the scheduler does.  The loops over proc[] visit one slot per     *)
(* action, so every other thread can run between two slots.                *)
(***************************************************************************)
EXTENDS Integers, FiniteSets

CONSTANTS NPROC,     \* slots of the process table
          CPU,       \* the harts
          Nobody,    \* no process: a null pointer, a free lock, an idle CPU
          MAXPID,    \* bound: fork is not called once this pid is used
          KillPids   \* the pids that programs pass to kill

ASSUME NPROCAssumption == NPROC \in Nat \ {0}
ASSUME MAXPIDAssumption == MAXPID \in Nat \ {0}
ASSUME KillPidsAssumption == KillPids \subseteq Nat

Slot == 1 .. NPROC
initproc == 1

ASSUME NobodyAssumption == Nobody \notin Slot

VARIABLES
    state, pid, parent, chan,  \* the fields of struct proc
    killed,      \* the processes whose p->killed is set
    nextpid,
    locked,      \* the processes whose p->lock is held across a swtch
    wait_lock,   \* the thread that holds wait_lock
    cpu,         \* c->proc
    pc,          \* where each kernel thread is
    ret,         \* where a thread that yields goes on
    i, w,        \* loop variables: over proc[] in a call, and in wakeup
    havekids,    \* the threads whose local variable havekids is 1 (wait)
    target       \* kill's argument

idvars == <<pid, parent, nextpid>>
lockvars == <<locked, wait_lock, cpu>>
localvars == <<i, w, havekids, target>>
vars == <<state, chan, killed, idvars, lockvars, pc, ret, localvars>>

State == {"UNUSED", "USED", "SLEEPING", "RUNNABLE", "RUNNING", "ZOMBIE"}

(* Where the thread holds no lock, so that a timer interrupt makes it yield. *)
Preemptible == {"yield", "trap", "fork", "fork_parent", "fork_run", "exit",
                "wait", "kill", "panic"}
(* Where the thread is when it runs again: it releases p->lock first. *)
Resuming == {"forkret", "resume_yield", "resume_wait"}
(* Where the thread has changed p->state and is about to call swtch. *)
Leaving == {"swtch_yield", "swtch_wait", "swtch_exit"}
PC == Preemptible \cup Resuming \cup Leaving \cup
      {"unused", "user", "reparent", "reparent_wakeup", "exit_wakeup",
       "exit_zombie", "wait_scan", "wait_check", "wait_sleep"}

(* procinit and userinit: the first process is ready to run. *)
Init ==
    /\ state = [p \in Slot |-> IF p = initproc THEN "RUNNABLE" ELSE "UNUSED"]
    /\ pid = [p \in Slot |-> IF p = initproc THEN 1 ELSE 0]
    /\ nextpid = 2
    /\ parent = [p \in Slot |-> Nobody]
    /\ chan = [p \in Slot |-> Nobody]
    /\ killed = {}
    /\ locked = {}
    /\ wait_lock = Nobody
    /\ cpu = [c \in CPU |-> Nobody]
    /\ pc = [p \in Slot |-> IF p = initproc THEN "forkret" ELSE "unused"]
    /\ ret = [p \in Slot |-> "user"]
    /\ i = [p \in Slot |-> 1]
    /\ w = [p \in Slot |-> 1]
    /\ havekids = {}
    /\ target = [p \in Slot |-> 0]

-----------------------------------------------------------------------------
OnCPU(p) == \E c \in CPU : cpu[c] = p

(* Thread p runs and is at l. *)
At(p, l) == OnCPU(p) /\ pc[p] = l

Goto(p, l) == pc' = [pc EXCEPT ![p] = l]

Free(p) == p \notin locked

Lock(p) == Free(p) /\ locked' = locked \cup {p}
Unlock(p) == locked' = locked \ {p}

(* Variant: wait_lock is not released. *)
ReleaseWaitLock_forgotten == UNCHANGED wait_lock

ReleaseWaitLock == wait_lock' = Nobody

(* The loops over proc[]: the next slot, and the first after the last. *)
Succ(q) == IF q < NPROC THEN q + 1 ELSE 1

-----------------------------------------------------------------------------
(* scheduler: a CPU finds a RUNNABLE process and switches to it, with its  *)
(* lock held.                                                              *)
scheduler(c, p) ==
    /\ cpu[c] = Nobody
    /\ state[p] = "RUNNABLE"
    /\ Lock(p)
    /\ state' = [state EXCEPT ![p] = "RUNNING"]
    /\ cpu' = [cpu EXCEPT ![c] = p]
    /\ UNCHANGED <<chan, killed, idvars, wait_lock, pc, ret, localvars>>

(* The thread runs again: forkret, the end of yield, the end of sleep. *)
resume(p) ==
    /\ OnCPU(p)
    /\ pc[p] \in Resuming
    /\ chan' = [chan EXCEPT ![p] = IF pc[p] = "resume_wait" THEN Nobody ELSE @]
    /\ Unlock(p)
    /\ Goto(p, IF pc[p] = "resume_wait" THEN "wait" ELSE ret[p])
    /\ ret' = [ret EXCEPT ![p] = "user"]
    /\ UNCHANGED <<state, killed, idvars, wait_lock, cpu, localvars>>

(* sched: swtch to the scheduler of this CPU, which releases p->lock. *)
sched(c, p) ==
    /\ cpu[c] = p
    /\ pc[p] \in Leaving
    /\ cpu' = [cpu EXCEPT ![c] = Nobody]
    /\ Unlock(p)
    /\ Goto(p, CASE pc[p] = "swtch_yield" -> "resume_yield"
                 [] pc[p] = "swtch_wait" -> "resume_wait"
                 [] pc[p] = "swtch_exit" -> "unused")
    /\ UNCHANGED <<state, chan, killed, idvars, wait_lock, ret, localvars>>

(* yield: from usertrap, or from kerneltrap wherever interrupts are on. *)
yield(p) ==
    /\ OnCPU(p)
    /\ pc[p] \in Preemptible
    /\ Lock(p)
    /\ state' = [state EXCEPT ![p] = "RUNNABLE"]
    /\ ret' = [ret EXCEPT ![p] = IF pc[p] = "yield" THEN "user" ELSE pc[p]]
    /\ Goto(p, "swtch_yield")
    /\ UNCHANGED <<chan, killed, idvars, wait_lock, cpu, localvars>>

-----------------------------------------------------------------------------
(* usertrap: a timer interrupt or a system call, unless p has been killed. *)
trap(p, l, k) ==
    /\ At(p, "user")
    /\ Free(p)
    /\ p \notin killed
    /\ Goto(p, l)
    /\ target' = [target EXCEPT ![p] = k]
    /\ UNCHANGED <<state, chan, killed, idvars, lockvars, ret, i, w, havekids>>

timer(p) == trap(p, "yield", 0)
sys_fork(p) == nextpid <= MAXPID /\ trap(p, "fork", 0)
sys_exit(p) == trap(p, "exit", 0)
sys_wait(p) == trap(p, "wait", 0)
sys_kill(p) == \E k \in KillPids : trap(p, "kill", k)

(* usertrap, any other exception: setkilled and exit. *)
fault(p) ==
    /\ At(p, "user")
    /\ Free(p)
    /\ killed' = killed \cup {p}
    /\ Goto(p, "exit")
    /\ UNCHANGED <<state, chan, idvars, lockvars, ret, localvars>>

(* usertrap: a killed process exits, when it enters the kernel or on its   *)
(* way back to user space after a system call.                             *)
usertrap(p) ==
    /\ At(p, "trap") \/ (At(p, "user") /\ p \in killed)
    /\ Free(p)
    /\ Goto(p, IF p \in killed THEN "exit" ELSE "user")
    /\ i' = [i EXCEPT ![p] = 1]
    /\ target' = [target EXCEPT ![p] = 0]
    /\ havekids' = havekids \ {p}
    /\ UNCHANGED <<state, chan, killed, idvars, lockvars, ret, w>>

-----------------------------------------------------------------------------
(* On to the next slot, or to l at the end of the table. *)
NextSlot(p, l) ==
    /\ i' = [i EXCEPT ![p] = Succ(@)]
    /\ Goto(p, IF i[p] < NPROC THEN pc[p] ELSE l)

(* Variant: nothing is freed. *)
freeproc_nothing(q) == UNCHANGED <<state, pid, parent, chan, killed>>

(* freeproc, with p->lock held. *)
freeproc(q) ==
    /\ state' = [state EXCEPT ![q] = "UNUSED"]
    /\ pid' = [pid EXCEPT ![q] = 0]
    /\ parent' = [parent EXCEPT ![q] = Nobody]
    /\ chan' = [chan EXCEPT ![q] = Nobody]
    /\ killed' = killed \ {q}

(* allocproc: one slot.  When it is unused, all of fork up to the release  *)
(* of np->lock, where the allocation of memory may fail.                   *)
allocproc(p) ==
    LET q == i[p] IN
    /\ At(p, "fork")
    /\ Free(q)
    /\ \/ /\ state[q] # "UNUSED"
          /\ NextSlot(p, "trap")
          /\ UNCHANGED <<state, chan, killed, idvars>>
       \/ /\ state[q] = "UNUSED"
          /\ nextpid' = nextpid + 1
          /\ state' = [state EXCEPT ![q] = "USED"]
          /\ pid' = [pid EXCEPT ![q] = nextpid]
          /\ Goto(p, "fork_parent")
          /\ UNCHANGED <<parent, chan, killed, i>>
       \/ /\ state[q] = "UNUSED"
          /\ nextpid' = nextpid + 1
          /\ freeproc(q)
          /\ Goto(p, "trap")
          /\ UNCHANGED i
    /\ UNCHANGED <<lockvars, ret, w, havekids, target>>

(* fork: np->parent = p, under wait_lock. *)
fork_parent(p) ==
    /\ At(p, "fork_parent")
    /\ wait_lock = Nobody
    /\ parent' = [parent EXCEPT ![i[p]] = p]
    /\ Goto(p, "fork_run")
    /\ UNCHANGED <<state, chan, killed, pid, nextpid, lockvars, ret, localvars>>

(* fork: np->state = RUNNABLE, under np->lock. *)
fork_run(p) ==
    /\ At(p, "fork_run")
    /\ Free(i[p])
    /\ state' = [state EXCEPT ![i[p]] = "RUNNABLE"]
    /\ pc' = [pc EXCEPT ![p] = "trap", ![i[p]] = "forkret"]
    /\ UNCHANGED <<chan, killed, idvars, lockvars, ret, localvars>>

-----------------------------------------------------------------------------
(* wakeup(ch): one slot; p goes on at l after the last. *)
wakeup(p, ch, l) ==
    LET q == w[p] IN
    /\ q # p => Free(q)
    /\ state' = [state EXCEPT ![q] = IF q # p /\ @ = "SLEEPING" /\ chan[q] = ch
                                     THEN "RUNNABLE" ELSE @]
    /\ w' = [w EXCEPT ![p] = Succ(@)]
    /\ Goto(p, IF q < NPROC THEN pc[p] ELSE l)
    /\ UNCHANGED <<chan, killed, idvars, lockvars, ret, i, havekids, target>>

(* exit: acquire wait_lock; init must not exit. *)
exit(p) ==
    /\ At(p, "exit")
    /\ IF p = initproc
       THEN Goto(p, "panic") /\ UNCHANGED wait_lock
       ELSE wait_lock = Nobody /\ wait_lock' = p /\ Goto(p, "reparent")
    /\ UNCHANGED <<state, chan, killed, idvars, locked, cpu, ret, localvars>>

(* reparent: one slot; an abandoned child goes to init, which is woken. *)
reparent(p) ==
    LET q == i[p] IN
    /\ At(p, "reparent")
    /\ IF parent[q] = p
       THEN /\ parent' = [parent EXCEPT ![q] = initproc]
            /\ Goto(p, "reparent_wakeup")
            /\ UNCHANGED i
       ELSE /\ NextSlot(p, "exit_wakeup")
            /\ UNCHANGED parent
    /\ UNCHANGED <<state, chan, killed, pid, nextpid, lockvars, ret, w, havekids,
                   target>>

reparent_wakeup(p) == At(p, "reparent_wakeup") /\ wakeup(p, initproc, "reparent")

exit_wakeup(p) == At(p, "exit_wakeup") /\ wakeup(p, parent[p], "exit_zombie")

(* exit: become a zombie, release wait_lock, and on to sched. *)
exit_zombie(p) ==
    /\ At(p, "exit_zombie")
    /\ Lock(p)
    /\ state' = [state EXCEPT ![p] = "ZOMBIE"]
    /\ ReleaseWaitLock
    /\ Goto(p, "swtch_exit")
    /\ UNCHANGED <<chan, killed, idvars, cpu, ret, localvars>>

-----------------------------------------------------------------------------
(* wait, or the end of sleep in it: acquire wait_lock and start a scan. *)
wait(p) ==
    /\ At(p, "wait")
    /\ wait_lock = Nobody
    /\ wait_lock' = p
    /\ i' = [i EXCEPT ![p] = 1]
    /\ havekids' = havekids \ {p}
    /\ Goto(p, "wait_scan")
    /\ UNCHANGED <<state, chan, killed, idvars, locked, cpu, ret, w, target>>

(* Variant: wait reads the state of a child without its lock. *)
ChildIs_unlocked(p, q, zombie) == parent[q] = p /\ (state[q] = "ZOMBIE" <=> zombie)

ChildIs(p, q, zombie) ==
    parent[q] = p /\ Free(q) /\ (state[q] = "ZOMBIE" <=> zombie)

SeenKids(p, q) == IF parent[q] = p THEN havekids \cup {p} ELSE havekids

(* wait: one slot.  Not a child; a child that is alive; or a zombie, which *)
(* is freed unless the copy of its status to user memory fails (init       *)
(* passes no address for it).                                              *)
wait_scan(p) ==
    LET q == i[p] IN
    /\ At(p, "wait_scan")
    /\ \/ /\ parent[q] # p \/ ChildIs(p, q, FALSE)
          /\ havekids' = SeenKids(p, q)
          /\ NextSlot(p, "wait_check")
          /\ UNCHANGED <<state, chan, killed, pid, parent, wait_lock>>
       \/ /\ ChildIs(p, q, TRUE)
          /\ \/ freeproc(q)
             \/ p # initproc /\ UNCHANGED <<state, chan, killed, pid, parent>>
          /\ ReleaseWaitLock
          /\ Goto(p, "trap")
          /\ UNCHANGED <<i, havekids>>
    /\ UNCHANGED <<nextpid, locked, cpu, ret, w, target>>

(* Variant: wait releases wait_lock before it sleeps. *)
wait_check_unlocked(p) ==
    /\ At(p, "wait_check")
    /\ Free(p)
    /\ ReleaseWaitLock
    /\ Goto(p, IF p \notin havekids \/ p \in killed THEN "trap" ELSE "wait_sleep")
    /\ UNCHANGED <<state, chan, killed, idvars, locked, cpu, ret, localvars>>

(* wait: without children, or killed, there is nothing to wait for. *)
wait_check(p) ==
    /\ At(p, "wait_check")
    /\ Free(p)
    /\ IF p \notin havekids \/ p \in killed
       THEN ReleaseWaitLock /\ Goto(p, "trap")
       ELSE Goto(p, "wait_sleep") /\ UNCHANGED wait_lock
    /\ UNCHANGED <<state, chan, killed, idvars, locked, cpu, ret, localvars>>

(* sleep(p, &wait_lock), up to sched. *)
wait_sleep(p) ==
    /\ At(p, "wait_sleep")
    /\ Lock(p)
    /\ ReleaseWaitLock
    /\ chan' = [chan EXCEPT ![p] = p]
    /\ state' = [state EXCEPT ![p] = "SLEEPING"]
    /\ Goto(p, "swtch_wait")
    /\ UNCHANGED <<killed, idvars, cpu, ret, localvars>>

(* kill: one slot. *)
kill(p) ==
    LET q == i[p] IN
    /\ At(p, "kill")
    /\ Free(q)
    /\ IF pid[q] = target[p]
       THEN /\ killed' = killed \cup {q}
            /\ state' = [state EXCEPT ![q] = IF @ = "SLEEPING" THEN "RUNNABLE" ELSE @]
            /\ Goto(p, "trap")
            /\ UNCHANGED i
       ELSE /\ NextSlot(p, "trap")
            /\ UNCHANGED <<killed, state>>
    /\ UNCHANGED <<chan, idvars, lockvars, ret, w, havekids, target>>

-----------------------------------------------------------------------------
(* The steps of the kernel thread p between two context switches. *)
Kernel(p) ==
    \/ usertrap(p)
    \/ allocproc(p) \/ fork_parent(p) \/ fork_run(p)
    \/ exit(p) \/ reparent(p) \/ reparent_wakeup(p) \/ exit_wakeup(p) \/ exit_zombie(p)
    \/ wait(p) \/ wait_scan(p) \/ wait_check(p) \/ wait_sleep(p)
    \/ kill(p)

(* What the timer, or the program it runs, may make process p do next. *)
User(p) ==
    timer(p) \/ fault(p) \/ sys_fork(p) \/ sys_exit(p) \/ sys_wait(p) \/ sys_kill(p)

Next == \/ \E c \in CPU, p \in Slot : scheduler(c, p) \/ sched(c, p)
        \/ \E p \in Slot : resume(p) \/ Kernel(p) \/ yield(p) \/ User(p)

Spec == Init /\ [][Next]_vars

(* The scheduler's loop reaches every process again and again, a context   *)
(* switch completes, a thread that can take a step in the kernel does, the *)
(* timer interrupts again and again whoever runs, and init calls wait in a *)
(* loop.                                                                   *)
Fairness ==
    /\ \A p \in Slot : /\ SF_vars(\E c \in CPU : scheduler(c, p))
                       /\ SF_vars(Kernel(p))
    /\ WF_vars(\E p \in Slot : resume(p) \/ \E c \in CPU : sched(c, p))
    /\ SF_vars(\E p \in Slot : timer(p) \/ yield(p))
    /\ SF_vars(sys_wait(initproc))

FairSpec == Spec /\ Fairness

-----------------------------------------------------------------------------
(* The fields, locks and locals have their types. *)
TypeOK ==
    /\ state \in [Slot -> State]
    /\ pid \in [Slot -> Nat]
    /\ parent \in [Slot -> Slot \cup {Nobody}]
    /\ chan \in [Slot -> Slot \cup {Nobody}]
    /\ killed \subseteq Slot
    /\ nextpid \in Nat
    /\ locked \subseteq Slot
    /\ wait_lock \in Slot \cup {Nobody}
    /\ cpu \in [CPU -> Slot \cup {Nobody}]
    /\ pc \in [Slot -> PC]
    /\ ret \in [Slot -> Preemptible \cup {"user"}]
    /\ i \in [Slot -> Slot]
    /\ w \in [Slot -> Slot]
    /\ havekids \subseteq Slot
    /\ target \in [Slot -> Nat]

(* No two CPUs run one process, hence use one kernel stack; and once its   *)
(* lock is free, a process is RUNNING exactly if a CPU runs it (the reason *)
(* why sched is called with p->lock held, proc.c sched and scheduler).     *)
RunsOnOneCPU ==
    /\ \A c, d \in CPU : cpu[c] = cpu[d] /\ cpu[c] # Nobody => c = d
    /\ \A p \in Slot : p \notin locked => (OnCPU(p) <=> state[p] = "RUNNING")

(* sched never panics: whoever calls it holds p->lock and no other lock,   *)
(* and is no longer RUNNING.                                               *)
SchedAsserts ==
    \A p \in Slot : pc[p] \in Leaving =>
        p \in locked /\ wait_lock # p /\ state[p] # "RUNNING"

(* While wait_lock is free, every process but init has a parent that has   *)
(* not exited and can still wait for it: exit reparents before it turns    *)
(* into a zombie, and wait frees only zombies.                             *)
HasLiveParent ==
    wait_lock = Nobody =>
        \A p \in Slot \ {initproc} : state[p] \notin {"UNUSED", "USED"} =>
            /\ parent[p] \in Slot
            /\ state[parent[p]] \notin {"UNUSED", "USED", "ZOMBIE"}

(* While wait_lock is free, no parent sleeps in wait beside a zombie       *)
(* child: the wakeup of exit, and the one of reparent, are never missed.   *)
NoMissedExit ==
    wait_lock = Nobody =>
        \A p, q \in Slot : parent[q] = p /\ state[q] = "ZOMBIE" => state[p] # "SLEEPING"

(* When wait has scanned the table, havekids says whether the caller has   *)
(* children now, those that exiting processes left to it included.         *)
HavekidsIsAccurate ==
    \A p \in Slot : pc[p] = "wait_check" =>
        (p \in havekids <=> \E q \in Slot : parent[q] = p)

(* wait frees a zombie, and fork takes a slot, only when no CPU is running *)
(* on its kernel stack any more: exit keeps p->lock until after swtch.     *)
FreedStackIsIdle ==
    [][\A q \in Slot : state'[q] # state[q] /\ state'[q] \in {"UNUSED", "USED"} =>
            ~OnCPU(q) /\ pc[q] = "unused"]_vars

Exiting(p) == \/ state[p] = "ZOMBIE"
              \/ pc[p] \in {"exit", "reparent", "reparent_wakeup", "exit_wakeup",
                            "exit_zombie", "panic"}
              \/ pc[p] \in {"swtch_yield", "resume_yield"} /\ ret[p] \in {"exit", "panic"}

(* Apart from one that is exiting after a fault of its own, a process is   *)
(* marked killed only if its pid is passed to kill: a new process never    *)
(* inherits the mark of one that had its slot before.                      *)
OnlyTheNamedAreKilled == \A p \in killed : pid[p] \in KillPids \/ Exiting(p)

(* A zombie that init has to wait for is eventually reaped, unless init    *)
(* itself exits, which is a panic.                                         *)
ZombiesAreReaped ==
    \A q \in Slot \ {initproc} :
        state[q] = "ZOMBIE" /\ parent[q] = initproc
            ~> state[q] = "UNUSED" \/ Exiting(initproc)

(* proc.c, scheduler, sched, swtch and yield: a process runs on one hart   *)
(* at a time, and the checks of sched never panic.                         *)
SwitchesAreSafe == RunsOnOneCPU /\ SchedAsserts

(* proc.c, wait, exit and reparent: a process has a parent that can wait   *)
(* for it, that parent never sleeps through its exit, and wait says there  *)
(* are no children only when there are none.                               *)
WaitIsReliable == HasLiveParent /\ NoMissedExit /\ HavekidsIsAccurate
=============================================================================
