--------------------------- MODULE ProcInvariant ----------------------------
(***************************************************************************)
(* The inductive invariant of Proc, for any number of processes and CPUs,  *)
(* and the proof that exit, wait, kill and the later steps of fork, most   *)
(* of which run under wait_lock, preserve it.  ProcProofs has the other    *)
(* actions and the theorems.                                               *)
(***************************************************************************)
EXTENDS Proc, TLAPS

(* Where a thread that yielded is, before and after the switch. *)
Yielded == {"swtch_yield", "resume_yield"}

(* Where thread p is, seen through an interrupt that made it yield. *)
Pos(p) == IF pc[p] \in Yielded THEN ret[p] ELSE pc[p]

(* No two CPUs run one process. *)
Single == \A c, d \in CPU : cpu[c] = cpu[d] /\ cpu[c] # Nobody => c = d

(* p->lock, p->state, the CPU that runs p and the place where p's saved    *)
(* registers go on fit together, before, during and after each swtch.      *)
Away == Resuming \cup Leaving \cup {"unused"}
Switching(p) ==
    \/ pc[p] \in Resuming /\ state[p] = "RUNNING"
    \/ pc[p] = "swtch_yield" /\ state[p] = "RUNNABLE"
    \/ pc[p] = "swtch_wait" /\ state[p] = "SLEEPING"
    \/ pc[p] = "swtch_exit" /\ state[p] = "ZOMBIE"
Saved(p) ==
    \/ pc[p] = "unused" /\ state[p] \in {"UNUSED", "USED", "ZOMBIE"}
    \/ pc[p] \in Resuming /\ state[p] = "RUNNABLE"
    \/ pc[p] = "resume_wait" /\ state[p] = "SLEEPING"
Placed ==
    \A p \in Slot :
        /\ p \in locked => OnCPU(p) /\ Switching(p)
        /\ p \notin locked /\ OnCPU(p) => state[p] = "RUNNING" /\ pc[p] \notin Away
        /\ p \notin locked /\ ~OnCPU(p) => Saved(p)

(* The saved position, and the loop variables between two loops. *)
AtFirst == {"unused", "forkret", "user", "yield", "exit", "panic", "exit_wakeup",
            "exit_zombie", "swtch_exit"}
Locals ==
    \A p \in Slot :
        /\ pc[p] \notin Yielded => ret[p] = "user"
        /\ Pos(p) \in AtFirst => i[p] = 1
        /\ pc[p] \notin {"reparent_wakeup", "exit_wakeup"} => w[p] = 1

(* wait_lock is held through reparent and exit, and through the scan of wait. *)
ExitHeld == {"reparent", "reparent_wakeup", "exit_wakeup", "exit_zombie"}
WaitHeld == {"wait_scan", "wait_check", "wait_sleep"}
LockHeld == \A p \in Slot : wait_lock = p <=> pc[p] \in ExitHeld \cup WaitHeld

(* The slot that a fork has taken is USED and is its own, and once the     *)
(* parent is set it is the caller.                                         *)
Forking(p) == Pos(p) \in {"fork_parent", "fork_run"}
Forks ==
    /\ \A p \in Slot : Forking(p) => state[i[p]] = "USED"
    /\ \A p, q \in Slot : Forking(p) /\ Forking(q) /\ i[p] = i[q] => p = q
    /\ \A p \in Slot : Pos(p) = "fork_run" => parent[i[p]] = p

(* Every process but init has a living parent. *)
Living == {"SLEEPING", "RUNNABLE", "RUNNING"}
Family ==
    /\ parent[initproc] = Nobody /\ state[initproc] \in Living
    /\ \A p \in Slot : pc[p] \in ExitHeld => p # initproc
    /\ \A p \in Slot : state[p] = "UNUSED" => parent[p] = Nobody
    /\ \A p \in Slot : parent[p] # p
    /\ \A p \in Slot \ {initproc} : state[p] \notin {"UNUSED", "USED"} =>
           parent[p] \in Slot /\ state[parent[p]] \in Living

(* exit leaves no children behind. *)
Childless ==
    \A p, q \in Slot :
        /\ pc[p] \in {"reparent", "reparent_wakeup"} /\ q < i[p] => parent[q] # p
        /\ pc[p] \in {"exit_wakeup", "exit_zombie"} => parent[q] # p

(* A process sleeps in wait on its own channel, and the one that exits     *)
(* wakes its parent before it becomes a zombie, and init before it leaves  *)
(* zombies to it.                                                          *)
Woken ==
    /\ \A p \in Slot : state[p] = "SLEEPING" => chan[p] = p
    /\ \A p \in Slot :
           pc[p] = "exit_zombie" \/ (pc[p] = "exit_wakeup" /\ parent[p] < w[p]) =>
               state[parent[p]] # "SLEEPING"
    /\ \A p, q \in Slot :
           parent[q] = p /\ state[q] = "ZOMBIE" /\ state[p] = "SLEEPING" =>
               p = initproc /\ \E x \in Slot : pc[x] = "reparent_wakeup" /\ w[x] = 1

(* The slots that wait has scanned: havekids tells whether one of them is  *)
(* a child, and no child among them is a zombie.                           *)
Scanned ==
    \A p \in Slot :
        /\ pc[p] = "wait_scan" =>
              /\ p \in havekids <=> \E q \in Slot : q < i[p] /\ parent[q] = p
              /\ \A q \in Slot : q < i[p] /\ parent[q] = p => state[q] # "ZOMBIE"
        /\ pc[p] = "wait_check" => (p \in havekids <=> \E q \in Slot : parent[q] = p)
        /\ pc[p] \in {"wait_check", "wait_sleep"} =>
              \A q \in Slot : parent[q] = p => state[q] # "ZOMBIE"

(* Who is marked killed was named in a call of kill, or has faulted. *)
Named ==
    /\ \A p \in Slot : Pos(p) = "kill" => target[p] \in KillPids
    /\ \A p \in Slot : state[p] = "UNUSED" => pid[p] = 0 /\ p \notin killed
    /\ OnlyTheNamedAreKilled

ProcInv == /\ TypeOK /\ Single /\ Placed /\ Locals /\ LockHeld
           /\ Forks /\ Family /\ Childless /\ Woken /\ Scanned

-----------------------------------------------------------------------------
(* The table proc[]: a loop that goes from slot to slot visits each one,   *)
(* and the slots below the next one are those below this one and this one. *)
LEMMA Slots ==
    /\ initproc \in Slot /\ 1 \in Slot /\ Slot \subseteq Nat /\ Nobody \notin Slot
    /\ \A q \in Slot : Succ(q) \in Slot
    /\ \A q \in Slot : q < NPROC =>
          Succ(q) = q + 1 /\ \A r \in Slot : r < q + 1 <=> r < q \/ r = q
    /\ \A q \in Slot : ~(q < NPROC) =>
             Succ(q) = 1 /\ q = NPROC /\ \A r \in Slot : r < q \/ r = q
    /\ \A q \in Slot : ~(q < 1)
  BY NPROCAssumption, NobodyAssumption DEF Slot, initproc, Succ

(* A thread between two swtches runs with its lock free. *)
LEMMA Acting ==
    ASSUME Placed, Locals, NEW p \in Slot, OnCPU(p), pc[p] \notin Away
    PROVE  /\ p \notin locked /\ state[p] = "RUNNING" /\ Pos(p) = pc[p]
           /\ ret[p] = "user"
  BY Zenon DEF Placed, Switching, Locals, Away, Leaving, Resuming, Pos, Yielded

(* On to the next slot of the table, or to l after the last. *)
LEMMA SlotByslot ==
    ASSUME TypeOK, NEW p \in Slot, NEW l \in PC, NextSlot(p, l)
    PROVE  /\ i' \in [Slot -> Slot] /\ pc' \in [Slot -> PC]
           /\ \A q \in Slot \ {p} : i'[q] = i[q] /\ pc'[q] = pc[q]
           /\ \/ i[p] < NPROC /\ pc' = pc /\ i'[p] = i[p] + 1
              \/ ~(i[p] < NPROC) /\ pc'[p] = l /\ i'[p] = 1
  <1>1. i[p] \in Slot /\ Succ(i[p]) \in Slot
    BY Slots, Zenon DEF TypeOK
  <1>2. i' = [i EXCEPT ![p] = Succ(i[p])]
    BY Zenon DEF NextSlot
  <1>3. CASE i[p] < NPROC
    <2>1. pc' = pc
      BY <1>3, Zenon DEF TypeOK, NextSlot, Goto
    <2>2. Succ(i[p]) = i[p] + 1
      BY <1>1, <1>3, Slots, Zenon
    <2>. QED  BY <1>1, <1>2, <1>3, <2>1, <2>2, Zenon DEF TypeOK
  <1>4. CASE ~(i[p] < NPROC)
    <2>1. pc' = [pc EXCEPT ![p] = l]
      BY <1>4, Zenon DEF NextSlot, Goto
    <2>2. Succ(i[p]) = 1
      BY <1>1, <1>4, Slots, Zenon
    <2>. QED  BY <1>1, <1>2, <1>4, <2>1, <2>2, Zenon DEF TypeOK
  <1>. QED  BY <1>3, <1>4, Zenon

(* wakeup visits slot w[p]: it makes a sleeper on ch RUNNABLE. *)
LEMMA Wakes ==
    ASSUME TypeOK, NEW p \in Slot, NEW ch, NEW l \in PC, wakeup(p, ch, l)
    PROVE  /\ w' \in [Slot -> Slot] /\ pc' \in [Slot -> PC]
           /\ \A q \in Slot \ {p} : w'[q] = w[q] /\ pc'[q] = pc[q]
           /\ \/ w[p] < NPROC /\ pc' = pc /\ w'[p] = w[p] + 1
              \/ ~(w[p] < NPROC) /\ pc'[p] = l /\ w'[p] = 1
           /\ state' \in [Slot -> State]
           /\ \A q \in Slot :
                  IF q = w[p] /\ q # p /\ state[q] = "SLEEPING" /\ chan[q] = ch
                  THEN q \notin locked /\ state'[q] = "RUNNABLE"
                  ELSE state'[q] = state[q]
  <1>1. w[p] \in Slot /\ Succ(w[p]) \in Slot
    BY Slots, Zenon DEF TypeOK
  <1>2. w' = [w EXCEPT ![p] = Succ(w[p])]
    BY Zenon DEF wakeup
  <1>3. CASE w[p] < NPROC
    <2>1. pc' = pc
      BY <1>3, Zenon DEF TypeOK, wakeup, Goto
    <2>2. Succ(w[p]) = w[p] + 1
      BY <1>1, <1>3, Slots, Zenon
    <2>. QED  BY <1>1, <1>2, <1>3, <2>1, <2>2 DEF TypeOK, wakeup, Free, State
  <1>4. CASE ~(w[p] < NPROC)
    <2>1. pc' = [pc EXCEPT ![p] = l]
      BY <1>4, Zenon DEF wakeup, Goto
    <2>2. Succ(w[p]) = 1
      BY <1>1, <1>4, Slots, Zenon
    <2>. QED  BY <1>1, <1>2, <1>4, <2>1, <2>2 DEF TypeOK, wakeup, Free, State
  <1>. QED  BY <1>3, <1>4, Zenon

(* A process in exit has a parent of its own that lives. *)
LEMMA ExitHasParent ==
    ASSUME ProcInv, NEW p \in Slot, pc[p] \in ExitHeld
    PROVE  /\ p # initproc /\ state[p] = "RUNNING" /\ wait_lock = p
           /\ parent[p] \in Slot /\ parent[p] # p /\ state[parent[p]] \in Living
  <1>1. state[p] = "RUNNING"
    BY Zenon DEF ProcInv, Placed, Switching, Saved, ExitHeld, Away, Resuming, Leaving
  <1>. QED  BY <1>1, Zenon DEF ProcInv, Family, LockHeld

(* What a step may do without disturbing a fork that is under way. *)
LEMMA ForksKept ==
    ASSUME TypeOK, Forks,
           \A r \in Slot : Forking(r)' =>
                 Forking(r) /\ Pos(r)' = Pos(r) /\ i'[r] = i[r],
           \A r \in Slot : state[r] = "USED" => state'[r] = "USED",
           \A r \in Slot : Pos(r) = "fork_run" => parent'[i[r]] = parent[i[r]]
    PROVE  Forks'
  <1>1. \A r \in Slot : i[r] \in Slot
    BY Zenon DEF TypeOK
  <1>2. \A r \in Slot : Pos(r)' = "fork_run" => Forking(r)'
    BY Zenon DEF Forking
  <1>. QED  BY <1>1, <1>2 DEF Forks

(* What a step may do without letting a parent sleep beside a zombie. *)
LEMMA WokenKept ==
    ASSUME ProcInv,
           \A r \in Slot : state'[r] = "SLEEPING" =>
                              state[r] = "SLEEPING" /\ chan'[r] = chan[r],
           \A r \in Slot : state'[r] = "ZOMBIE" =>
                              state[r] = "ZOMBIE" /\ parent'[r] = parent[r],
           \A r \in Slot : pc'[r] \in {"exit_wakeup", "exit_zombie"} =>
                              /\ pc'[r] = pc[r] /\ w'[r] = w[r]
                              /\ parent'[r] = parent[r],
           \A r \in Slot : pc[r] = "reparent_wakeup" => pc'[r] = pc[r] /\ w'[r] = w[r]
    PROVE  Woken'
  <1>1. \A r \in Slot : pc[r] \in {"exit_wakeup", "exit_zombie"} => parent[r] \in Slot
    BY ExitHasParent, Zenon DEF ExitHeld
  <1>2. Woken
    BY Zenon DEF ProcInv
  <1>. QED  BY <1>1, <1>2 DEF Woken

-----------------------------------------------------------------------------
(* fork makes the child RUNNABLE: it has a parent that lives, the caller. *)
LEMMA fork_run_inv ==
    ASSUME ProcInv, NEW p \in Slot, fork_run(p)
    PROVE  ProcInv'
  <1> USE Slots DEF ProcInv
  <1> DEFINE q == i[p]
  <1>0. /\ OnCPU(p) /\ pc[p] = "fork_run" /\ q \in Slot /\ q \notin locked
        /\ p \notin locked /\ state[p] = "RUNNING" /\ Pos(p) = pc[p]
        /\ ret[p] = "user"
    BY Acting, Zenon
       DEF fork_run, At, Free, Away, TypeOK, Preemptible, Resuming, Leaving
  <1>a. /\ state[q] = "USED" /\ parent[q] = p /\ q # p
        /\ ~OnCPU(q) /\ pc[q] = "unused" /\ Pos(q) = "unused"
        /\ i[q] = 1 /\ w[q] = 1 /\ ret[q] = "user"
    <2>1. state[q] = "USED" /\ parent[q] = p /\ q # p
      BY <1>0, Zenon DEF Forks, Forking
    <2>2. ~OnCPU(q) /\ pc[q] = "unused"
      BY <1>0, <2>1, Zenon DEF Placed, Saved
    <2>. QED  BY <1>0, <2>1, <2>2, Zenon DEF Pos, Yielded, Locals, AtFirst
  <1>b. /\ state' = [state EXCEPT ![q] = "RUNNABLE"]
        /\ pc' \in [Slot -> PC] /\ pc'[p] = "trap" /\ pc'[q] = "forkret"
        /\ \A r \in Slot \ {p, q} : pc'[r] = pc[r]
    BY <1>0, <1>a DEF fork_run, TypeOK, PC, Preemptible, Resuming
  <1>c. UNCHANGED <<chan, parent, wait_lock, locked, cpu, ret, i, w, havekids>>
    BY Zenon DEF fork_run, idvars, lockvars, localvars
  <1>1. TypeOK'
    BY <1>0, Zenon
       DEF TypeOK, fork_run, At, Free, idvars, lockvars, localvars, PC, State,
           Preemptible, Resuming, Leaving
  <1>2. Single'
    BY <1>0, Zenon DEF Single, fork_run, At, Free, lockvars, OnCPU
  <1>3. Placed'
    <2>1. \A r \in Slot : OnCPU(r)' = OnCPU(r)
      BY <1>c, Zenon DEF OnCPU
    <2>2. state'[q] = "RUNNABLE" /\ \A r \in Slot \ {q} : state'[r] = state[r]
      BY <1>0, <1>b DEF TypeOK
    <2>. QED  BY <1>0, <1>a, <1>b, <1>c, <2>1, <2>2
              DEF Placed, Switching, Saved, Away, Resuming, Leaving
  <1>4. Locals'
    BY <1>0, <1>a, <1>b, <1>c DEF Locals, Pos, Yielded, AtFirst
  <1>5. LockHeld'
    BY <1>0, <1>a, <1>b, <1>c, Zenon DEF LockHeld, ExitHeld, WaitHeld
  <1>6. Forks'
    BY <1>0
      DEF Forks, fork_run, At, Free, TypeOK, Forking, Pos, Yielded, idvars,
           localvars, Preemptible
  <1>7. Family'
    BY <1>0
      DEF Family, fork_run, At, Free, TypeOK, ExitHeld, Living, idvars,
           Forks, Forking, Preemptible
  <1>8. Childless'
    BY <1>0
      DEF Childless, fork_run, At, Free, TypeOK, Pos, idvars, localvars,
           Preemptible
  <1>9. Woken'
    <2>1. state'[q] = "RUNNABLE" /\ \A r \in Slot \ {q} : state'[r] = state[r]
      BY <1>0, <1>b, SMTT(30) DEF TypeOK
    <2>. QED  BY <1>0, <1>a, <1>b, <1>c, <2>1, WokenKept
  <1>10. Scanned'
    BY <1>0
      DEF Scanned, fork_run, At, Free, TypeOK, idvars, localvars, Preemptible
  <1>. QED  BY <1>1, <1>2, <1>3, <1>4, <1>5, <1>6, <1>7, <1>8, <1>9, <1>10

(* fork sets np->parent under wait_lock, when no reparent is under way     *)
(* that could miss the new child.                                          *)
LEMMA fork_parent_inv ==
    ASSUME ProcInv, NEW p \in Slot, fork_parent(p)
    PROVE  ProcInv'
  <1> USE Slots DEF ProcInv
  <1>0. p \notin locked /\ state[p] = "RUNNING" /\ Pos(p) = pc[p] /\ ret[p] = "user"
    BY Acting, Zenon DEF fork_parent, At, Away, Resuming, Leaving
  <1>1. TypeOK'
    BY <1>0, Zenon
       DEF TypeOK, fork_parent, At, Goto, lockvars, localvars, PC, State,
           Preemptible, Resuming, Leaving
  <1>2. Single'
    BY <1>0, Zenon DEF Single, fork_parent, At, Goto, lockvars, OnCPU
  <1>3. Placed'
    BY <1>0
       DEF Placed, fork_parent, At, Goto, TypeOK, OnCPU, Switching, Saved,
           Away, lockvars, Preemptible, Resuming, Leaving
  <1>4. Locals'
    BY <1>0
       DEF Locals, fork_parent, At, Goto, TypeOK, Pos, Yielded, AtFirst,
           localvars, Preemptible
  <1>5. LockHeld'
    BY <1>0
      DEF LockHeld, fork_parent, At, Goto, TypeOK, ExitHeld, WaitHeld,
           lockvars, Preemptible
  <1>6. Forks'
    BY <1>0
      DEF Forks, fork_parent, At, Goto, TypeOK, Forking, Pos, Yielded,
           localvars, Preemptible
  <1>7. Family'
    BY <1>0
       DEF Family, fork_parent, At, Goto, TypeOK, ExitHeld, Living, Forks,
           Forking, Preemptible
  <1>8. Childless'
    BY <1>0
       DEF Childless, fork_parent, At, Goto, TypeOK, Pos, localvars, Preemptible
  <1>9. Woken'
    BY <1>0 DEF Woken, fork_parent, At, Goto, TypeOK, localvars, Preemptible
  <1>10. Scanned'
    <2>1. \A r \in Slot : pc[r] \notin WaitHeld
      BY DEF fork_parent, LockHeld
    <2>2. \A r \in Slot : pc'[r] \notin WaitHeld
      BY <2>1, Zenon DEF fork_parent, Goto, TypeOK, WaitHeld
    <2>. QED  BY <2>2 DEF Scanned, WaitHeld
  <1>. QED  BY <1>1, <1>2, <1>3, <1>4, <1>5, <1>6, <1>7, <1>8, <1>9, <1>10, ZenonT(30)

(* reparent, one slot: a child goes to init, and init is woken next, so    *)
(* that it cannot sleep beside a zombie it has inherited.                  *)
LEMMA reparent_inv ==
    ASSUME ProcInv, NEW p \in Slot, reparent(p)
    PROVE  ProcInv'
  <1> USE Slots DEF ProcInv
  <1> DEFINE q == i[p]
  <1>0. /\ OnCPU(p) /\ pc[p] = "reparent" /\ q \in Slot /\ p # initproc
        /\ p \notin locked /\ state[p] = "RUNNING" /\ Pos(p) = pc[p]
        /\ ret[p] = "user"
    BY Acting, Zenon
      DEF reparent, At, Away, TypeOK, Family, ExitHeld, Resuming, Leaving
  <1>b. /\ i' \in [Slot -> Slot] /\ pc' \in [Slot -> PC]
        /\ \A r \in Slot \ {p} : i'[r] = i[r] /\ pc'[r] = pc[r]
        /\ \/ /\ parent[q] = p /\ parent' = [parent EXCEPT ![q] = initproc]
              /\ pc'[p] = "reparent_wakeup" /\ i'[p] = q
           \/ /\ parent[q] # p /\ parent' = parent
              /\ \/ q < NPROC /\ pc'[p] = "reparent" /\ i'[p] = q + 1
                 \/ ~(q < NPROC) /\ pc'[p] = "exit_wakeup" /\ i'[p] = 1
    <2>1. "reparent_wakeup" \in PC /\ "exit_wakeup" \in PC
      BY Zenon DEF PC
    <2>2. CASE parent[q] = p
      BY <1>0, <2>1, <2>2 DEF reparent, Goto, TypeOK
    <2>3. CASE parent[q] # p
      BY <1>0, <2>1, <2>3, SlotByslot, Zenon DEF reparent, TypeOK
    <2>. QED  BY <2>2, <2>3, Zenon
  <1>c. UNCHANGED <<state, chan, wait_lock, locked, cpu, ret, w, havekids>>
    BY Zenon DEF reparent, lockvars
  <1>1. TypeOK'
    BY <1>0, <1>b, <1>c DEF reparent, TypeOK
  <1>2. Single'
    BY <1>0, Zenon DEF Single, reparent, At, NextSlot, Goto, lockvars, OnCPU
  <1>3. Placed'
    BY <1>0, <1>b, <1>c
      DEF Placed, OnCPU, Switching, Saved, Away, Resuming, Leaving
  <1>4. Locals'
    BY <1>0, <1>b, <1>c DEF Locals, Pos, Yielded, AtFirst
  <1>5. LockHeld'
    BY <1>0, <1>b, <1>c, Zenon DEF LockHeld, ExitHeld, WaitHeld
  <1>6. Forks'
    <2>1. \A r \in Slot : Forking(r)' =>
              Forking(r) /\ Pos(r)' = Pos(r) /\ i'[r] = i[r]
      BY <1>0, <1>b, <1>c, Zenon DEF Forking, Pos, Yielded
    <2>2. \A r \in Slot : state[r] = "USED" => state'[r] = "USED"
      BY <1>b, <1>c, Zenon
    <2>3. \A r \in Slot : Pos(r) = "fork_run" => parent'[i[r]] = parent[i[r]]
      <3> SUFFICES ASSUME NEW r \in Slot, Pos(r) = "fork_run"
                   PROVE  parent'[i[r]] = parent[i[r]]
        BY Zenon
      <3>1. i[r] \in Slot /\ parent[i[r]] = r /\ r # p
        BY <1>0, Zenon DEF Forks, TypeOK
      <3>. QED  BY <1>b, <3>1, ZenonT(30) DEF TypeOK
    <2>. QED  BY <2>1, <2>2, <2>3, ForksKept, Zenon
  <1>7. Family'
    BY <1>0, <1>b, <1>c DEF Family, ExitHeld, Living, TypeOK
  <1>8. Childless'
    <2>1. \A r \in Slot : pc[r] \in {"reparent", "reparent_wakeup"} => r # initproc
      BY Zenon DEF Family, ExitHeld
    <2>2. \A r \in Slot : \/ parent'[r] = parent[r]
                          \/ r = q /\ parent[q] = p /\ parent'[r] = initproc
      BY <1>0, <1>b DEF TypeOK
    <2>3. \A r \in Slot : r < q => parent[r] # p
      BY <1>0, Zenon DEF Childless
    <2>4. \A r, s \in Slot : r # p /\ pc'[r] \in ExitHeld =>
              parent'[s] # r \/ parent[s] = r
      BY <1>0, <1>b, <2>2, ExitHasParent
    <2>5. \A s \in Slot : pc'[p] = "reparent" /\ s < i'[p] => parent'[s] # p
      <3>1. \A s \in Slot : s < q + 1 => s < q \/ s = q
        BY <1>0, Zenon
      <3>. QED  BY <1>0, <1>b, <2>3, <3>1
    <2>6. \A s \in Slot : pc'[p] = "reparent_wakeup" /\ s < i'[p] => parent'[s] # p
      BY <1>0, <1>b, <2>2, <2>3, Zenon
    <2>7. \A s \in Slot : pc'[p] \in {"exit_wakeup", "exit_zombie"} => parent'[s] # p
      BY <1>0, <1>b, <2>3, Zenon
    <2>. QED  BY <1>b, <2>4, <2>5, <2>6, <2>7 DEF Childless, ExitHeld
  <1>9. Woken'
    <2>1. \A r \in Slot : r # p => pc[r] \notin ExitHeld
      BY <1>0 DEF LockHeld, ExitHeld
    <2>5. parent[p] \in Slot /\ parent[p] # p
      BY <1>0, ExitHasParent, Zenon DEF ExitHeld
    <2>2. w[p] = 1 /\ ~(parent[p] < 1) /\ parent'[p] = parent[p]
      BY <1>0, <1>b, <2>5, ZenonT(30) DEF Locals, TypeOK
    <2>3. CASE parent[q] = p
      BY <1>0, <1>b, <1>c, <2>1, <2>2, <2>3 DEF Woken, ExitHeld, TypeOK
    <2>4. CASE parent[q] # p
      BY <1>0, <1>b, <1>c, <2>1, <2>2, <2>4 DEF Woken, ExitHeld
    <2>. QED  BY <2>3, <2>4, Zenon
  <1>10. Scanned'
    BY <1>0, <1>b, <1>c DEF Scanned, LockHeld, ExitHeld, WaitHeld, TypeOK
  <1>. QED  BY <1>1, <1>2, <1>3, <1>4, <1>5, <1>6, <1>7, <1>8, <1>9, <1>10, SMTT(30)

(* reparent, the wakeup of init, one slot: init's own slot is the first    *)
(* that the loop visits.                                                   *)
LEMMA reparent_wakeup_inv ==
    ASSUME ProcInv, NEW p \in Slot, reparent_wakeup(p)
    PROVE  ProcInv'
  <1> USE Slots DEF ProcInv
  <1>0. /\ OnCPU(p) /\ pc[p] = "reparent_wakeup" /\ p \notin locked
        /\ state[p] = "RUNNING"
        /\ Pos(p) = pc[p] /\ ret[p] = "user" /\ p # initproc /\ parent[p] \in Slot
        /\ parent[p] # p /\ wait_lock = p
    BY Acting, ExitHasParent, Zenon
       DEF reparent_wakeup, At, Away, ExitHeld, Resuming, Leaving
  <1>b. /\ w' \in [Slot -> Slot] /\ pc' \in [Slot -> PC]
        /\ \A q \in Slot \ {p} : w'[q] = w[q] /\ pc'[q] = pc[q]
        /\ \/ w[p] < NPROC /\ pc'[p] = pc[p] /\ w'[p] = w[p] + 1
           \/ ~(w[p] < NPROC) /\ pc'[p] = "reparent" /\ w'[p] = 1
        /\ state' \in [Slot -> State]
        /\ \A q \in Slot :
               IF q = w[p] /\ q # p /\ state[q] = "SLEEPING" /\ chan[q] = initproc
               THEN q \notin locked /\ state'[q] = "RUNNABLE"
               ELSE state'[q] = state[q]
    <2>1. "reparent" \in PC
      BY Zenon DEF PC
    <2>. QED  BY <2>1, Wakes DEF reparent_wakeup
  <1>c. UNCHANGED <<chan, killed, pid, parent, nextpid, locked, wait_lock, cpu, ret, i,
                    havekids, target>>
    BY Zenon DEF reparent_wakeup, wakeup, idvars, lockvars
  <1>d. \A q \in Slot : \/ state'[q] = state[q]
                        \/ /\ state[q] = "SLEEPING" /\ state'[q] = "RUNNABLE"
                           /\ q \notin locked
    BY <1>b, Zenon
  <1>e. \A q \in Slot \ {p} : pc[q] \notin ExitHeld \cup WaitHeld
    BY <1>0, Zenon DEF LockHeld
  <1>1. TypeOK'
    BY <1>b, <1>c, Zenon DEF TypeOK
  <1>2. Single'
    BY <1>c DEF Single
  <1>3. Placed'
    BY <1>0, <1>b, <1>c, <1>d
       DEF Placed, OnCPU, Switching, Saved, Away, Resuming, Leaving
  <1>4. Locals'
    BY <1>0, <1>b, <1>c DEF Locals, Pos, Yielded, AtFirst
  <1>5. LockHeld'
    BY <1>0, <1>b, <1>c, Zenon DEF LockHeld, ExitHeld, WaitHeld
  <1>6. Forks'
    <2>1. \A r \in Slot : Forking(r)' =>
              Forking(r) /\ Pos(r)' = Pos(r) /\ i'[r] = i[r]
      BY <1>0, <1>b, <1>c, Zenon DEF Forking, Pos, Yielded
    <2>. QED  BY <1>c, <1>d, <2>1, ForksKept
  <1>7. Family'
    <2>1. \A r \in Slot : /\ state[r] \in Living => state'[r] \in Living
                          /\ state'[r] \in {"UNUSED", "USED"} <=>
                               state[r] \in {"UNUSED", "USED"}
                          /\ state'[r] = "UNUSED" => state[r] = "UNUSED"
      BY <1>d DEF Living
    <2>. QED  BY <1>0, <1>b, <1>c, <2>1, Zenon DEF Family, ExitHeld
  <1>8. Childless'
    BY <1>0, <1>b, <1>c DEF Childless
  <1>9. Woken'
    <2>1. \A r \in Slot : pc'[r] \notin {"exit_wakeup", "exit_zombie"}
      BY <1>0, <1>b, <1>e DEF ExitHeld
    <2>2. \A r \in Slot : state'[r] = "SLEEPING" =>
              state[r] = "SLEEPING" /\ chan'[r] = r
      BY <1>c, <1>d DEF Woken
    <2>3. ASSUME NEW r \in Slot, NEW s \in Slot,
                 parent[s] = r, state'[s] = "ZOMBIE", state'[r] = "SLEEPING"
          PROVE  FALSE
      <3>1. state[s] = "ZOMBIE" /\ state[r] = "SLEEPING" /\ chan[r] = r
        BY <2>2, <2>3, <1>c, <1>d, Zenon
      <3>2. r = initproc /\ \E x \in Slot : pc[x] = "reparent_wakeup" /\ w[x] = 1
        BY <2>3, <3>1, Zenon DEF Woken
      <3>3. w[p] = initproc
        BY <1>e, <3>2, Zenon DEF ExitHeld, initproc
      <3>. QED  BY <1>0, <1>b, <2>3, <3>1, <3>2, <3>3
    <2>. QED  BY <1>c, <2>1, <2>2, <2>3, Zenon DEF Woken
  <1>10. Scanned'
    BY <1>0, <1>b, <1>c, <1>d DEF Scanned
  <1>. QED  BY <1>1, <1>2, <1>3, <1>4, <1>5, <1>6, <1>7, <1>8, <1>9, <1>10, SMTT(30)

(* exit, the wakeup of the parent, one slot: once the loop has passed the  *)
(* parent, it does not sleep.                                              *)
LEMMA exit_wakeup_inv ==
    ASSUME ProcInv, NEW p \in Slot, exit_wakeup(p)
    PROVE  ProcInv'
  <1> USE Slots DEF ProcInv
  <1>0. /\ OnCPU(p) /\ pc[p] = "exit_wakeup" /\ p \notin locked
        /\ state[p] = "RUNNING"
        /\ Pos(p) = pc[p] /\ ret[p] = "user" /\ p # initproc /\ parent[p] \in Slot
        /\ parent[p] # p /\ wait_lock = p
    BY Acting, ExitHasParent, Zenon
       DEF exit_wakeup, At, Away, ExitHeld, Resuming, Leaving
  <1>b. /\ w' \in [Slot -> Slot] /\ pc' \in [Slot -> PC]
        /\ \A q \in Slot \ {p} : w'[q] = w[q] /\ pc'[q] = pc[q]
        /\ \/ w[p] < NPROC /\ pc'[p] = pc[p] /\ w'[p] = w[p] + 1
           \/ ~(w[p] < NPROC) /\ pc'[p] = "exit_zombie" /\ w'[p] = 1
        /\ state' \in [Slot -> State]
        /\ \A q \in Slot :
               IF q = w[p] /\ q # p /\ state[q] = "SLEEPING" /\ chan[q] = parent[p]
               THEN q \notin locked /\ state'[q] = "RUNNABLE"
               ELSE state'[q] = state[q]
    <2>1. "exit_zombie" \in PC
      BY Zenon DEF PC
    <2>. QED  BY <2>1, Wakes DEF exit_wakeup
  <1>c. UNCHANGED <<chan, killed, pid, parent, nextpid, locked, wait_lock, cpu, ret, i,
                    havekids, target>>
    BY Zenon DEF exit_wakeup, wakeup, idvars, lockvars
  <1>d. \A q \in Slot : \/ state'[q] = state[q]
                        \/ /\ state[q] = "SLEEPING" /\ state'[q] = "RUNNABLE"
                           /\ q \notin locked
    BY <1>b, Zenon
  <1>e. \A q \in Slot \ {p} : pc[q] \notin ExitHeld \cup WaitHeld
    BY <1>0, Zenon DEF LockHeld
  <1>1. TypeOK'
    BY <1>b, <1>c, ZenonT(30) DEF TypeOK
  <1>2. Single'
    BY <1>c, ZenonT(30) DEF Single
  <1>3. Placed'
    BY <1>0, <1>b, <1>c, <1>d
       DEF Placed, OnCPU, Switching, Saved, Away, Resuming, Leaving
  <1>4. Locals'
    BY <1>0, <1>b, <1>c DEF Locals, Pos, Yielded, AtFirst
  <1>5. LockHeld'
    BY <1>0, <1>b, <1>c, Zenon DEF LockHeld, ExitHeld, WaitHeld
  <1>6. Forks'
    <2>1. \A r \in Slot : Forking(r)' =>
              Forking(r) /\ Pos(r)' = Pos(r) /\ i'[r] = i[r]
      BY <1>0, <1>b, <1>c, Zenon DEF Forking, Pos, Yielded
    <2>. QED  BY <1>c, <1>d, <2>1, ForksKept, ZenonT(30)
  <1>7. Family'
    <2>1. \A r \in Slot : /\ state[r] \in Living => state'[r] \in Living
                          /\ state'[r] \in {"UNUSED", "USED"} <=>
                               state[r] \in {"UNUSED", "USED"}
                          /\ state'[r] = "UNUSED" => state[r] = "UNUSED"
      BY <1>d, ZenonT(30) DEF Living
    <2>. QED  BY <1>0, <1>b, <1>c, <2>1, Zenon DEF Family, ExitHeld
  <1>8. Childless'
    BY <1>0, <1>b, <1>c DEF Childless
  <1>9. Woken'
    <2>1. \A r \in Slot : pc[r] # "reparent_wakeup"
      BY <1>0, <1>e, Zenon DEF ExitHeld
    <2>2. \A r \in Slot : state'[r] = "SLEEPING" =>
              state[r] = "SLEEPING" /\ chan'[r] = r
      BY <1>c, <1>d, SMTT(30) DEF Woken
    <2>3. ASSUME NEW r \in Slot, NEW s \in Slot,
                 parent[s] = r, state'[s] = "ZOMBIE", state'[r] = "SLEEPING"
          PROVE  FALSE
      BY <1>d, <2>1, <2>2, <2>3 DEF Woken
    <2>4. ASSUME state'[parent[p]] = "SLEEPING",
                 pc'[p] = "exit_zombie" \/ parent[p] < w'[p]
          PROVE  FALSE
      <3>1. /\ state[parent[p]] = "SLEEPING"
            /\ chan[parent[p]] = parent[p] /\ parent[p] # w[p]
        BY <1>0, <1>b, <1>c, <2>2, <2>4, Zenon
      <3>2. ~(parent[p] < w[p])
        BY <1>0, <3>1, Zenon DEF Woken
      <3>3. w[p] \in Slot
        BY Zenon DEF TypeOK
      <3>4. CASE w[p] < NPROC
        <4>1. parent[p] \in Nat /\ w[p] \in Nat
          BY <1>0, <3>3, Zenon
        <4>2. parent[p] < w[p] + 1
          BY <1>0, <1>b, <2>4, <3>4, Zenon
        <4>. QED  BY <3>1, <3>2, <4>1, <4>2
      <3>5. CASE ~(w[p] < NPROC)
        BY <1>0, <3>1, <3>2, <3>3, <3>5, ZenonT(30)
      <3>. QED  BY <3>4, <3>5, Zenon
    <2>5. \A r \in Slot \ {p} : pc'[r] \notin {"exit_wakeup", "exit_zombie"}
      BY <1>b, <1>e, Zenon DEF ExitHeld
    <2>. QED  BY <1>c, <2>2, <2>3, <2>4, <2>5 DEF Woken
  <1>10. Scanned'
    BY <1>0, <1>b, <1>c, <1>d, SMTT(30) DEF Scanned
  <1>. QED  BY <1>1, <1>2, <1>3, <1>4, <1>5, <1>6, <1>7, <1>8, <1>9, <1>10, SMTT(30)

(* wait, one slot: havekids is right about the slots seen so far; a zombie *)
(* that is freed has no children and no CPU.                               *)
LEMMA wait_scan_inv ==
    ASSUME ProcInv, NEW p \in Slot, wait_scan(p)
    PROVE  ProcInv'
  <1> USE Slots DEF ProcInv
  <1> DEFINE q == i[p]
  <1>0. /\ OnCPU(p) /\ pc[p] = "wait_scan" /\ q \in Slot /\ wait_lock = p
        /\ p \notin locked /\ state[p] = "RUNNING" /\ Pos(p) = pc[p]
        /\ ret[p] = "user"
    BY Acting, ZenonT(30)
      DEF wait_scan, At, Away, TypeOK, LockHeld, WaitHeld, Resuming, Leaving
  <1> DEFINE Passes ==
               /\ parent[q] # p \/ state[q] # "ZOMBIE"
               /\ havekids' = SeenKids(p, q) /\ NextSlot(p, "wait_check")
               /\ UNCHANGED <<state, chan, killed, pid, parent, wait_lock>>
             Returns == /\ parent[q] = p /\ state[q] = "ZOMBIE" /\ q \notin locked
                        /\ wait_lock' = Nobody /\ Goto(p, "trap")
                        /\ UNCHANGED <<i, havekids>>
             Frees == Returns /\ freeproc(q)
             Fails == Returns /\ UNCHANGED <<state, chan, killed, pid, parent>>
  <1>a. Passes \/ Frees \/ Fails
    BY Zenon DEF wait_scan, ChildIs, Free, ReleaseWaitLock
  <1>b. UNCHANGED <<nextpid, locked, cpu, ret, w, target>>
    BY Zenon DEF wait_scan
  <1>c. Passes => /\ i' \in [Slot -> Slot] /\ pc' \in [Slot -> PC]
                  /\ \A r \in Slot \ {p} : i'[r] = i[r] /\ pc'[r] = pc[r]
                  /\ \/ q < NPROC /\ pc'[p] = "wait_scan" /\ i'[p] = q + 1
                     \/ ~(q < NPROC) /\ pc'[p] = "wait_check" /\ i'[p] = 1
    <2>1. "wait_check" \in PC
      BY Zenon DEF PC
    <2>. QED  BY <1>0, <2>1, SlotByslot, Zenon
  <1>d. Returns => /\ pc' \in [Slot -> PC] /\ pc'[p] = "trap" /\ i' = i
                   /\ \A r \in Slot \ {p} : pc'[r] = pc[r]
    <2>1. "trap" \in PC
      BY Zenon DEF PC, Preemptible
    <2>. QED  BY <2>1 DEF Goto, TypeOK
  <1>e. Frees => /\ q # initproc /\ q # p
                 /\ state' \in [Slot -> State]
                 /\ parent' \in [Slot -> Slot \cup {Nobody}]
                 /\ chan' \in [Slot -> Slot \cup {Nobody}] /\ pid' \in [Slot -> Nat]
                 /\ killed' \subseteq Slot
                 /\ state'[q] = "UNUSED" /\ parent'[q] = Nobody
                 /\ \A r \in Slot \ {q} : /\ state'[r] = state[r]
                                          /\ parent'[r] = parent[r]
                                          /\ chan'[r] = chan[r]
    <2> HAVE Frees
    <2>1. q # initproc /\ q # p /\ "UNUSED" \in State
      BY <1>0, Zenon DEF Family, Living, State
    <2>2. /\ state' = [state EXCEPT ![q] = "UNUSED"] /\ pid' = [pid EXCEPT ![q] = 0]
          /\ parent' = [parent EXCEPT ![q] = Nobody]
          /\ chan' = [chan EXCEPT ![q] = Nobody] /\ killed' = killed \ {q}
      BY Zenon DEF freeproc
    <2>3. q \in Slot
      BY <1>0, Zenon
    <2> HIDE DEF Frees, Returns, q
    <2>4. /\ state' \in [Slot -> State] /\ state'[q] = "UNUSED"
          /\ \A r \in Slot \ {q} : state'[r] = state[r]
      BY <2>1, <2>2, <2>3 DEF TypeOK
    <2>5. /\ parent' \in [Slot -> Slot \cup {Nobody}] /\ parent'[q] = Nobody
          /\ \A r \in Slot \ {q} : parent'[r] = parent[r]
      BY <2>2, <2>3 DEF TypeOK
    <2>6. /\ chan' \in [Slot -> Slot \cup {Nobody}] /\ pid' \in [Slot -> Nat]
          /\ killed' \subseteq Slot /\ \A r \in Slot \ {q} : chan'[r] = chan[r]
      BY <2>2, <2>3 DEF TypeOK
    <2>. QED  BY <2>1, <2>4, <2>5, <2>6, Zenon
  <1> HIDE DEF Frees, Fails
  <1>1. TypeOK'
    <2>1. CASE Passes
      BY <1>0, <1>b, <1>c, <2>1, SMTT(30) DEF TypeOK, SeenKids
    <2>2. CASE Frees
      BY <1>b, <1>d, <1>e, <2>2, ZenonT(30) DEF TypeOK, Frees
    <2>3. CASE Fails
      BY <1>b, <1>d, <2>3, ZenonT(30) DEF TypeOK, Fails
    <2>. QED  BY <1>a, <2>1, <2>2, <2>3, Zenon
  <1>2. Single'
    BY <1>0, ZenonT(30)
      DEF Single, wait_scan, At, NextSlot, freeproc, ChildIs, SeenKids,
           ReleaseWaitLock, Goto, Free, OnCPU
  <1>3. Placed'
    BY <1>0, SMTT(30)
      DEF Placed, wait_scan, At, NextSlot, freeproc, ChildIs, SeenKids,
           ReleaseWaitLock, Goto, Free, TypeOK, OnCPU, Switching, Saved, Away,
           Preemptible, Resuming, Leaving
  <1>4. Locals'
    BY <1>0, SMTT(30)
       DEF Locals, wait_scan, At, NextSlot, freeproc, ChildIs, SeenKids,
           ReleaseWaitLock, Goto, Free, TypeOK, Pos, Yielded, AtFirst,
           Preemptible
  <1>5. LockHeld'
    BY <1>0, SMTT(30)
     DEF LockHeld, wait_scan, At, NextSlot, freeproc, ChildIs, SeenKids,
           ReleaseWaitLock, Goto, Free, TypeOK, ExitHeld, WaitHeld, Preemptible
  <1>6. Forks'
    <2>1. \A r \in Slot : Forking(r)' =>
              Forking(r) /\ Pos(r)' = Pos(r) /\ i'[r] = i[r]
      <3>1. \A r \in Slot \ {p} : pc'[r] = pc[r] /\ i'[r] = i[r]
        BY <1>a, <1>c, <1>d, Zenon DEF Frees, Fails
      <3>2. pc'[p] \in {"wait_scan", "wait_check", "trap"}
        BY <1>a, <1>c, <1>d, Zenon DEF Frees, Fails
      <3>. QED  BY <1>b, <3>1, <3>2, Zenon DEF Forking, Pos, Yielded
    <2>2. \A r \in Slot : state[r] = "USED" => state'[r] = "USED"
      BY <1>a, <1>e, Zenon DEF Frees, Fails
    <2>3. \A r \in Slot : Pos(r) = "fork_run" => parent'[i[r]] = parent[i[r]]
      <3>1. \A r \in Slot : state[r] = "USED" => parent'[r] = parent[r]
        BY <1>a, <1>e, Zenon DEF Frees, Fails
      <3>. QED  BY <3>1, Zenon DEF Forks, Forking, TypeOK
    <2>. QED  BY <2>1, <2>2, <2>3, ForksKept, ZenonT(30)
  <1>7. Family'
    <2>1. \A r \in Slot : pc'[r] \in ExitHeld => pc[r] \in ExitHeld
      BY <1>a, <1>c, <1>d, Zenon DEF Frees, Fails, ExitHeld
    <2>2. CASE UNCHANGED <<state, parent>>
      BY <2>1, <2>2, Zenon DEF Family
    <2>3. CASE Frees
      <3>1. state[q] = "ZOMBIE"
        BY <2>3, Zenon DEF Frees
      <3>2. \A r \in Slot \ {initproc, q} : state[r] \notin {"UNUSED", "USED"} =>
                parent[r] \in Slot \ {q} /\ state[parent[r]] \in Living
        BY <3>1, Zenon DEF Family, Living
      <3>3. \A r \in Slot \ {initproc} : state'[r] \notin {"UNUSED", "USED"} =>
                parent'[r] \in Slot /\ state'[parent'[r]] \in Living
        BY <1>e, <2>3, <3>2, ZenonT(30)
      <3>4. parent'[initproc] = Nobody /\ state'[initproc] \in Living
        BY <1>e, <2>3, Zenon DEF Family
      <3>5. \A r \in Slot : /\ state'[r] = "UNUSED" => parent'[r] = Nobody
                            /\ parent'[r] # r
        BY <1>e, <2>3 DEF Family
      <3>. QED  BY <2>1, <3>3, <3>4, <3>5, ZenonT(30) DEF Family
    <2>. QED  BY <1>a, <2>2, <2>3, ZenonT(30) DEF Fails
  <1>8. Childless'
    BY <1>0
       DEF Childless, wait_scan, At, NextSlot, freeproc, ChildIs, SeenKids,
           ReleaseWaitLock, Goto, Free, TypeOK, Pos, ExitHeld, Preemptible
  <1>9. Woken'
    <2>1. \A r \in Slot : state'[r] = "SLEEPING" =>
              state[r] = "SLEEPING" /\ chan'[r] = chan[r]
      BY <1>a, <1>e, Zenon DEF Frees, Fails
    <2>2. \A r \in Slot : state'[r] = "ZOMBIE" =>
              state[r] = "ZOMBIE" /\ parent'[r] = parent[r]
      BY <1>a, <1>e, Zenon DEF Frees, Fails
    <2>3. \A r \in Slot : pc[r] \notin ExitHeld
      BY <1>0, Zenon DEF LockHeld, ExitHeld, WaitHeld
    <2>4. \A r \in Slot : pc'[r] \notin ExitHeld
      BY <1>a, <1>c, <1>d, <2>3, ZenonT(30) DEF Frees, Fails, ExitHeld
    <2>. QED  BY <2>1, <2>2, <2>3, <2>4, WokenKept, Zenon DEF ExitHeld
  <1>10. Scanned'
    <2>1. \A r \in Slot \ {p} : pc[r] \notin WaitHeld
      BY <1>0, ZenonT(30) DEF LockHeld
    <2>2. \A r \in Slot \ {p} : pc'[r] \notin WaitHeld
      BY <1>a, <1>c, <1>d, <2>1, Zenon DEF Frees, Fails
    <2>3. CASE pc'[p] = "trap"
      BY <2>2, <2>3, Zenon DEF Scanned, WaitHeld
    <2>4. CASE Passes
      <3>1. /\ p \in havekids <=> \E r \in Slot : r < q /\ parent[r] = p
            /\ \A r \in Slot : r < q /\ parent[r] = p => state[r] # "ZOMBIE"
        BY <1>0, Zenon DEF Scanned
      <3>2. p \in havekids' <=> p \in havekids \/ parent[q] = p
        BY <2>4 DEF SeenKids
      <3>3. \A r \in Slot : r < q + 1 <=> r < q \/ r = q
        <4>1. q \in Nat
          BY <1>0, Zenon
        <4> HIDE DEF q
        <4>. QED  BY <4>1
      <3>4. /\ p \in havekids' <=> \E r \in Slot : r < q + 1 /\ parent[r] = p
            /\ \A r \in Slot : r < q + 1 /\ parent[r] = p => state[r] # "ZOMBIE"
        BY <1>0, <2>4, <3>1, <3>2, <3>3, Zenon
      <3>5. CASE q < NPROC
        <4>1. /\ pc'[p] = "wait_scan" /\ i'[p] = q + 1
              /\ state' = state /\ parent' = parent
          BY <1>c, <2>4, <3>5, Zenon
        <4>. QED  BY <2>2, <3>4, <4>1 DEF Scanned, WaitHeld
      <3>6. CASE ~(q < NPROC)
        <4>1. pc'[p] = "wait_check" /\ state' = state /\ parent' = parent
          BY <1>c, <2>4, <3>6, Zenon
        <4>2. \A r \in Slot : r < q + 1
          BY <1>0, <3>6, <3>3, ZenonT(30)
        <4>. QED  BY <2>2, <3>4, <4>1, <4>2 DEF Scanned, WaitHeld
      <3>. QED  BY <3>5, <3>6, Zenon
    <2>. QED  BY <1>a, <1>d, <2>3, <2>4 DEF Frees, Fails
  <1>. QED  BY <1>1, <1>2, <1>3, <1>4, <1>5, <1>6, <1>7, <1>8, <1>9, <1>10, SMTT(30)

(* kill, one slot: a sleeper that is made RUNNABLE is one that a CPU has   *)
(* left, and no scan or exit depends on its sleeping.                      *)
LEMMA kill_inv ==
    ASSUME ProcInv, NEW p \in Slot, kill(p)
    PROVE  ProcInv'
  <1> USE Slots DEF ProcInv
  <1> DEFINE q == i[p]
  <1>0. /\ OnCPU(p) /\ pc[p] = "kill" /\ q \in Slot /\ q \notin locked
        /\ p \notin locked /\ state[p] = "RUNNING" /\ Pos(p) = pc[p]
        /\ ret[p] = "user"
    BY Acting, ZenonT(30) DEF kill, At, Free, Away, TypeOK, Preemptible, Resuming,
       Leaving
  <1>b. /\ i' \in [Slot -> Slot] /\ pc' \in [Slot -> PC]
        /\ \A r \in Slot \ {p} : i'[r] = i[r] /\ pc'[r] = pc[r]
        /\ pc'[p] \in {"kill", "trap"}
        /\ state' \in [Slot -> State] /\ killed' \subseteq Slot
        /\ \A r \in Slot : \/ state'[r] = state[r]
                           \/ r = q /\ state[r] = "SLEEPING" /\ state'[r] = "RUNNABLE"
    <2>1. "trap" \in PC /\ "RUNNABLE" \in State
      BY ZenonT(30) DEF PC, Preemptible, State
    <2>2. CASE pid[q] = target[p]
      <3>1. /\ state' = [state EXCEPT ![q] = IF state[q] = "SLEEPING"
                                             THEN "RUNNABLE" ELSE state[q]]
            /\ pc' = [pc EXCEPT ![p] = "trap"] /\ i' = i /\ killed' = killed \cup {q}
        BY <2>2, Zenon DEF kill, Goto
      <3>2. state' \in [Slot -> State] /\ killed' \subseteq Slot
        BY <1>0, <2>1, <3>1, ZenonT(30) DEF TypeOK
      <3>3. \A r \in Slot : \/ state'[r] = state[r]
                            \/ r = q /\ state[r] = "SLEEPING" /\ state'[r] = "RUNNABLE"
        BY <1>0, <3>1, Zenon DEF TypeOK
      <3>. QED  BY <1>0, <2>1, <3>1, <3>2, <3>3, SMTT(30) DEF TypeOK
    <2>3. CASE pid[q] # target[p]
      BY <1>0, <2>1, <2>3, SlotByslot, ZenonT(30) DEF kill, TypeOK
    <2>. QED  BY <2>2, <2>3, Zenon
  <1>c. UNCHANGED <<parent, chan, wait_lock, locked, cpu, ret, w, havekids>>
    BY Zenon DEF kill, lockvars, idvars
  <1>1. TypeOK'
    BY <1>b, <1>c DEF kill, TypeOK, idvars
  <1>2. Single'
    BY <1>0, ZenonT(30) DEF Single, kill, At, NextSlot, Goto, Free, lockvars, OnCPU
  <1>3. Placed'
    BY <1>0, <1>b, <1>c
      DEF Placed, OnCPU, Switching, Saved, Away, Resuming, Leaving
  <1>4. Locals'
    BY <1>0, <1>b, <1>c DEF Locals, Pos, Yielded, AtFirst
  <1>5. LockHeld'
    BY <1>0, <1>b, <1>c DEF LockHeld, ExitHeld, WaitHeld
  <1>6. Forks'
    <2>1. \A r \in Slot : Forking(r)' =>
              Forking(r) /\ Pos(r)' = Pos(r) /\ i'[r] = i[r]
      BY <1>0, <1>b, <1>c, Zenon DEF Forking, Pos, Yielded
    <2>2. \A r \in Slot : state[r] = "USED" => state'[r] = "USED"
      BY <1>b, <1>c, Zenon
    <2>3. \A r \in Slot : Pos(r) = "fork_run" => parent'[i[r]] = parent[i[r]]
      BY <1>0, <1>b, <1>c, Zenon DEF Forks, TypeOK
    <2>. QED  BY <2>1, <2>2, <2>3, ForksKept, ZenonT(30)
  <1>7. Family'
    <2>1. \A r \in Slot : /\ state[r] \in Living => state'[r] \in Living
                          /\ state'[r] \in {"UNUSED", "USED"} <=>
                               state[r] \in {"UNUSED", "USED"}
                          /\ state'[r] = "UNUSED" => state[r] = "UNUSED"
      <3> SUFFICES ASSUME NEW r \in Slot
                   PROVE  /\ state[r] \in Living => state'[r] \in Living
                          /\ state'[r] \in {"UNUSED", "USED"} <=>
                               state[r] \in {"UNUSED", "USED"}
                          /\ state'[r] = "UNUSED" => state[r] = "UNUSED"
        BY Zenon
      <3>1. CASE state'[r] = state[r]
        BY <3>1, Zenon
      <3>2. CASE state[r] = "SLEEPING" /\ state'[r] = "RUNNABLE"
        BY <3>2, ZenonT(30) DEF Living
      <3>. QED  BY <1>b, <3>1, <3>2, Zenon
    <2>. QED  BY <1>0, <1>b, <1>c, <2>1, ZenonT(30) DEF Family, ExitHeld
  <1>8. Childless'
    BY <1>0, <1>b, <1>c DEF Childless, TypeOK
  <1>9. Woken'
    BY <1>0, <1>b, <1>c, WokenKept, ZenonT(30)
  <1>10. Scanned'
    <2>1. \A r \in Slot : state'[r] = "ZOMBIE" => state[r] = "ZOMBIE"
      BY <1>b, Zenon
    <2>2. \A r \in Slot : pc'[r] \in WaitHeld => pc'[r] = pc[r] /\ i'[r] = i[r]
      BY <1>b, Zenon DEF WaitHeld
    <2>. QED  BY <1>c, <2>1, <2>2 DEF Scanned, WaitHeld
  <1>. QED  BY <1>1, <1>2, <1>3, <1>4, <1>5, <1>6, <1>7, <1>8, <1>9, <1>10, SMTT(30)

(* exit takes wait_lock, and keeps it until the process is a zombie; init  *)
(* panics instead.                                                         *)
LEMMA exit_inv ==
    ASSUME ProcInv, NEW p \in Slot, exit(p)
    PROVE  ProcInv'
  <1> USE Slots DEF ProcInv
  <1>0. p \notin locked /\ state[p] = "RUNNING" /\ Pos(p) = pc[p] /\ ret[p] = "user"
    BY Acting, ZenonT(30) DEF exit, At, Away, Resuming, Leaving
  <1>1. TypeOK'
    BY <1>0
       DEF TypeOK, exit, At, Goto, idvars, localvars, PC, State, Preemptible,
           Resuming, Leaving
  <1>2. Single'
    BY <1>0, ZenonT(30) DEF Single, exit, At, Goto, OnCPU
  <1>3. Placed'
    BY <1>0, SMTT(30)
      DEF Placed, exit, At, Goto, TypeOK, OnCPU, Switching, Saved, Away,
           Preemptible, Resuming, Leaving
  <1>4. Locals'
    BY <1>0
       DEF Locals, exit, At, Goto, TypeOK, Pos, Yielded, AtFirst, localvars,
           Preemptible
  <1>5. LockHeld'
    BY <1>0, SMTT(30)
      DEF LockHeld, exit, At, Goto, TypeOK, ExitHeld, WaitHeld, Preemptible
  <1>6. Forks'
    BY <1>0, SMTT(30)
      DEF Forks, exit, At, Goto, TypeOK, Forking, Pos, Yielded, idvars,
           localvars, Preemptible
  <1>7. Family'
    BY <1>0, SMTT(30)
       DEF Family, exit, At, Goto, TypeOK, ExitHeld, Living, idvars, Forks,
           Forking, Preemptible
  <1>8. Childless'
    <2>1. i[p] = 1
      BY <1>0, ZenonT(30) DEF exit, At, Locals, AtFirst
    <2>. QED  BY <2>1, SMTT(30) DEF Childless, exit, At, Goto, TypeOK, idvars, localvars
  <1>9. Woken'
    BY <1>0, SMTT(30) DEF Woken, exit, At, Goto, TypeOK, idvars, localvars, Preemptible
  <1>10. Scanned'
    BY <1>0, SMTT(30) DEF Scanned, exit, At, Goto, TypeOK, idvars, localvars,
       Preemptible
  <1>. QED  BY <1>1, <1>2, <1>3, <1>4, <1>5, <1>6, <1>7, <1>8, <1>9, <1>10, SMTT(30)

(* exit: the process becomes a zombie when it has no children and its      *)
(* parent is awake, and only then releases wait_lock.                      *)
LEMMA exit_zombie_inv ==
    ASSUME ProcInv, NEW p \in Slot, exit_zombie(p)
    PROVE  ProcInv'
  <1> USE Slots DEF ProcInv
  <1>0. /\ OnCPU(p) /\ pc[p] = "exit_zombie" /\ p \notin locked
        /\ state[p] = "RUNNING"
        /\ Pos(p) = pc[p] /\ ret[p] = "user" /\ p # initproc /\ parent[p] \in Slot
        /\ parent[p] # p /\ wait_lock = p
    BY Acting, ExitHasParent, Zenon
       DEF exit_zombie, At, Away, ExitHeld, Resuming, Leaving
  <1>a. /\ state'[p] = "ZOMBIE" /\ pc'[p] = "swtch_exit"
        /\ \A r \in Slot \ {p} : state'[r] = state[r] /\ pc'[r] = pc[r]
        /\ UNCHANGED <<chan, parent, ret, i, w, havekids>> /\ wait_lock' = Nobody
    BY DEF exit_zombie, Goto, ReleaseWaitLock, TypeOK, idvars, localvars
  <1>b. \A r \in Slot : parent[r] # p
    BY <1>0, ZenonT(30) DEF Childless
  <1>1. TypeOK'
    BY <1>0, Zenon
       DEF TypeOK, exit_zombie, At, ReleaseWaitLock, Goto, Free, Lock, idvars,
           localvars, PC, State, Preemptible, Resuming, Leaving
  <1>2. Single'
    BY <1>0, ZenonT(30)
       DEF Single, exit_zombie, At, ReleaseWaitLock, Goto, Free, Lock, OnCPU
  <1>3. Placed'
    BY <1>0, SMTT(30)
       DEF Placed, exit_zombie, At, ReleaseWaitLock, Goto, Free, Lock, TypeOK,
           OnCPU, Switching, Saved, Away, Preemptible, Resuming, Leaving
  <1>4. Locals'
    BY <1>0, <1>a DEF Locals, Pos, Yielded, AtFirst
  <1>5. LockHeld'
    BY <1>0, <1>a, NobodyAssumption, Zenon DEF LockHeld, ExitHeld, WaitHeld
  <1>6. Forks'
    <2>1. \A r \in Slot : Forking(r)' => Forking(r) /\ Pos(r)' = Pos(r) /\ i'[r] = i[r]
      BY <1>0, <1>a, Zenon DEF Forking, Pos, Yielded
    <2>2. \A r \in Slot : state[r] = "USED" => state'[r] = "USED"
      BY <1>0, <1>a, Zenon
    <2>3. parent' = parent
      BY <1>a, Zenon
    <2>. QED  BY <2>1, <2>2, <2>3, ForksKept, ZenonT(30)
  <1>7. Family'
    <2>1. \A r \in Slot : state'[r] \notin {"UNUSED", "USED"} =>
              state[r] \notin {"UNUSED", "USED"}
      BY <1>0, <1>a, Zenon
    <2>2. \A r \in Slot \ {p} : state[r] \in Living => state'[r] \in Living
      BY <1>a, Zenon
    <2>3. \A r \in Slot \ {initproc} : state'[r] \notin {"UNUSED", "USED"} =>
              parent[r] \in Slot /\ state'[parent[r]] \in Living
      BY <1>b, <2>1, <2>2, ZenonT(30) DEF Family
    <2>. QED  BY <1>0, <1>a, <2>2, <2>3 DEF Family, ExitHeld
  <1>8. Childless'
    BY <1>0, <1>a DEF Childless, ExitHeld
  <1>9. Woken'
    BY <1>0
       DEF Woken, exit_zombie, At, ReleaseWaitLock, Goto, Free, Lock, TypeOK,
           idvars, localvars, Preemptible
  <1>10. Scanned'
    <2>1. \A r \in Slot : pc'[r] \notin WaitHeld
      BY <1>0, <1>a, Zenon DEF LockHeld, WaitHeld
    <2>. QED  BY <2>1, ZenonT(30) DEF Scanned, WaitHeld
  <1>. QED  BY <1>1, <1>2, <1>3, <1>4, <1>5, <1>6, <1>7, <1>8, <1>9, <1>10, SMTT(30)

(* wait takes wait_lock and starts a scan, with havekids = 0. *)
LEMMA wait_inv ==
    ASSUME ProcInv, NEW p \in Slot, wait(p)
    PROVE  ProcInv'
  <1> USE Slots DEF ProcInv
  <1>0. p \notin locked /\ state[p] = "RUNNING" /\ Pos(p) = pc[p] /\ ret[p] = "user"
    BY Acting, Zenon DEF wait, At, Away, Resuming, Leaving
  <1>1. TypeOK'
    BY <1>0, Zenon
       DEF TypeOK, wait, At, Goto, idvars, PC, State, Preemptible, Resuming,
           Leaving
  <1>2. Single'
    BY <1>0, ZenonT(30) DEF Single, wait, At, Goto, OnCPU
  <1>3. Placed'
    BY <1>0, SMTT(30)
       DEF Placed, wait, At, Goto, TypeOK, OnCPU, Switching, Saved, Away,
           Preemptible, Resuming, Leaving
  <1>4. Locals'
    BY <1>0, SMTT(30)
       DEF Locals, wait, At, Goto, TypeOK, Pos, Yielded, AtFirst, Preemptible
  <1>5. LockHeld'
    BY <1>0, SMTT(30)
       DEF LockHeld, wait, At, Goto, TypeOK, ExitHeld, WaitHeld, Preemptible
  <1>6. Forks'
    BY <1>0, SMTT(30)
       DEF Forks, wait, At, Goto, TypeOK, Forking, Pos, Yielded, idvars,
           Preemptible
  <1>7. Family'
    BY <1>0, Zenon
       DEF Family, wait, At, Goto, TypeOK, ExitHeld, Living, idvars, Forks,
           Forking, Preemptible
  <1>8. Childless'
    BY <1>0, SMTT(30) DEF Childless, wait, At, Goto, TypeOK, Pos, idvars, Preemptible
  <1>9. Woken'
    BY <1>0, SMTT(30) DEF Woken, wait, At, Goto, TypeOK, idvars, Preemptible
  <1>10. Scanned'
    BY <1>0, SMTT(30) DEF Scanned, wait, At, Goto, TypeOK, idvars, Preemptible
  <1>. QED  BY <1>1, <1>2, <1>3, <1>4, <1>5, <1>6, <1>7, <1>8, <1>9, <1>10, SMTT(30)

(* wait, after the scan: the caller gives up or goes to sleep, still with  *)
(* wait_lock, so no child has become a zombie since.                       *)
LEMMA wait_check_inv ==
    ASSUME ProcInv, NEW p \in Slot, wait_check(p)
    PROVE  ProcInv'
  <1> USE Slots DEF ProcInv
  <1>0. p \notin locked /\ state[p] = "RUNNING" /\ Pos(p) = pc[p] /\ ret[p] = "user"
    BY Acting, ZenonT(30) DEF wait_check, At, Away, Resuming, Leaving
  <1>a. /\ pc[p] = "wait_check" /\ pc'[p] \in {"trap", "wait_sleep"}
        /\ \A r \in Slot \ {p} : pc'[r] = pc[r]
        /\ wait_lock' = IF pc'[p] = "trap" THEN Nobody ELSE wait_lock
        /\ UNCHANGED <<state, chan, parent, ret, i, w, havekids>>
    BY DEF wait_check, At, ReleaseWaitLock, Goto, TypeOK, idvars, localvars
  <1>1. TypeOK'
    BY <1>0
       DEF TypeOK, wait_check, At, ReleaseWaitLock, Goto, Free, idvars,
           localvars, PC, State, Preemptible, Resuming, Leaving
  <1>2. Single'
    BY <1>0, ZenonT(30) DEF Single, wait_check, At, ReleaseWaitLock, Goto, Free, OnCPU
  <1>3. Placed'
    BY <1>0, SMTT(30)
       DEF Placed, wait_check, At, ReleaseWaitLock, Goto, Free, TypeOK, OnCPU,
           Switching, Saved, Away, Preemptible, Resuming, Leaving
  <1>4. Locals'
    BY <1>0, <1>a, ZenonT(30) DEF Locals, Pos, Yielded, AtFirst
  <1>5. LockHeld'
    BY <1>a, NobodyAssumption, Zenon DEF LockHeld, ExitHeld, WaitHeld
  <1>6. Forks'
    BY <1>a DEF Forks, Forking, Pos, Yielded
  <1>7. Family'
    BY <1>a, Zenon DEF Family, ExitHeld
  <1>8. Childless'
    BY <1>a, Zenon DEF Childless
  <1>9. Woken'
    BY <1>a DEF Woken
  <1>10. Scanned'
    BY <1>a DEF Scanned
  <1>. QED  BY <1>1, <1>2, <1>3, <1>4, <1>5, <1>6, <1>7, <1>8, <1>9, <1>10, SMTT(30)

(* sleep in wait: wait_lock is released when the caller is SLEEPING on its *)
(* own channel, so an exit finds it there.                                 *)
LEMMA wait_sleep_inv ==
    ASSUME ProcInv, NEW p \in Slot, wait_sleep(p)
    PROVE  ProcInv'
  <1> USE Slots DEF ProcInv
  <1>0. p \notin locked /\ state[p] = "RUNNING" /\ Pos(p) = pc[p] /\ ret[p] = "user"
    BY Acting, ZenonT(30) DEF wait_sleep, At, Away, Resuming, Leaving
  <1>1. TypeOK'
    BY <1>0, Zenon
       DEF TypeOK, wait_sleep, At, ReleaseWaitLock, Goto, Free, Lock, idvars,
           localvars, PC, State, Preemptible, Resuming, Leaving
  <1>2. Single'
    BY <1>0, ZenonT(30) DEF Single, wait_sleep, At, ReleaseWaitLock, Goto, Free, Lock,
       OnCPU
  <1>3. Placed'
    BY <1>0, SMTT(30)
      DEF Placed, wait_sleep, At, ReleaseWaitLock, Goto, Free, Lock, TypeOK,
           OnCPU, Switching, Saved, Away, Preemptible, Resuming, Leaving
  <1>4. Locals'
    BY <1>0, SMTT(30)
       DEF Locals, wait_sleep, At, ReleaseWaitLock, Goto, Free, Lock, TypeOK,
           Pos, Yielded, AtFirst, localvars, Preemptible
  <1>5. LockHeld'
    BY <1>0, SMTT(30)
      DEF LockHeld, wait_sleep, At, ReleaseWaitLock, Goto, Free, Lock,
           TypeOK, ExitHeld, WaitHeld, Preemptible
  <1>6. Forks'
    BY <1>0, SMTT(30)
      DEF Forks, wait_sleep, At, ReleaseWaitLock, Goto, Free, Lock, TypeOK,
           Forking, Pos, Yielded, idvars, localvars, Preemptible
  <1>7. Family'
    BY <1>0, SMTT(30)
      DEF Family, wait_sleep, At, ReleaseWaitLock, Goto, Free, Lock, TypeOK,
           ExitHeld, Living, idvars, Forks, Forking, Preemptible
  <1>8. Childless'
    BY <1>0, Zenon
       DEF Childless, wait_sleep, At, ReleaseWaitLock, Goto, Free, Lock,
           TypeOK, Pos, idvars, localvars, ExitHeld, Preemptible
  <1>9. Woken'
    <2>1. /\ state'[p] = "SLEEPING" /\ chan'[p] = p /\ pc'[p] = "swtch_wait"
          /\ \A r \in Slot \ {p} :
                state'[r] = state[r] /\ chan'[r] = chan[r] /\ pc'[r] = pc[r]
          /\ UNCHANGED <<parent, w>> /\ pc[p] = "wait_sleep"
      BY DEF wait_sleep, At, Goto, TypeOK, idvars, localvars
    <2>2. \A r \in Slot : pc[r] \notin ExitHeld
      BY <2>1, Zenon DEF LockHeld, ExitHeld, WaitHeld
    <2>3. \A r \in Slot : pc'[r] \notin ExitHeld
      BY <2>1, <2>2, Zenon DEF ExitHeld
    <2>4. \A r \in Slot : parent[r] = p => state[r] # "ZOMBIE"
      BY <2>1, ZenonT(30) DEF Scanned
    <2>. QED  BY <2>1, <2>2, <2>3, <2>4, SMTT(30) DEF Woken, ExitHeld
  <1>10. Scanned'
    BY <1>0
      DEF Scanned, wait_sleep, At, ReleaseWaitLock, Goto, Free, Lock, TypeOK,
           idvars, localvars, Preemptible
  <1>. QED  BY <1>1, <1>2, <1>3, <1>4, <1>5, <1>6, <1>7, <1>8, <1>9, <1>10, SMTT(30)

=============================================================================
