----------------------------- MODULE ProcProofs -----------------------------
(***************************************************************************)
(* Proofs about Proc for any number of processes and CPUs: every step      *)
(* keeps the mark of kill with those who were named; the actions that      *)
(* ProcInvariant leaves out preserve its invariant too, so it holds of     *)
(* every reachable state; and what follows.                                *)
(***************************************************************************)
EXTENDS ProcInvariant

(* Where a process is on its way through exit, or has panicked in it. *)
InExit == ExitHeld \cup {"exit", "panic"}

(* Exiting says the same through an interrupt in exit. *)
LEMMA ExitingIs ==
    ASSUME TypeOK, NEW p \in Slot
    PROVE  Exiting(p) <=> state[p] = "ZOMBIE" \/ Pos(p) \in InExit
  BY Zenon DEF TypeOK, Exiting, Pos, InExit, ExitHeld, Yielded, Preemptible

(* And so after a step. *)
LEMMA ExitingIsNext ==
    ASSUME TypeOK', NEW p \in Slot
    PROVE  Exiting(p)' <=> state'[p] = "ZOMBIE" \/ Pos(p)' \in InExit
  BY Zenon DEF TypeOK, Exiting, Pos, InExit, ExitHeld, Yielded, Preemptible

(* A step that marks nobody, and neither gives out nor frees a slot, keeps *)
(* the marks with those who were named.                                    *)
LEMMA NamedKept ==
    ASSUME TypeOK, TypeOK', Named, pid' = pid, killed' = killed,
           \A r \in Slot : Pos(r)' = "kill" => target'[r] \in KillPids,
           \A r \in Slot : state'[r] = "UNUSED" => state[r] = "UNUSED",
           \A r \in Slot : state[r] = "ZOMBIE" => state'[r] = "ZOMBIE",
           \A r \in Slot : Pos(r) \in InExit =>
                 Pos(r)' \in InExit \/ state'[r] = "ZOMBIE"
    PROVE  Named'
  <1>1. \A r \in Slot : Exiting(r) => Exiting(r)'
    BY ExitingIs, ExitingIsNext, Zenon
  <1>. QED  BY <1>1, Zenon DEF Named, OnlyTheNamedAreKilled, TypeOK

(* And so does a thread that only moves on, from one place to another. *)
LEMMA NamedMoves ==
    ASSUME TypeOK, TypeOK', Named, NEW p \in Slot, NEW l,
           pid' = pid, killed' = killed, pc' = [pc EXCEPT ![p] = l], ret' = ret,
           pc[p] \notin Yielded, l \notin Yielded,
           l = "kill" => target'[p] \in KillPids,
           \A r \in Slot \ {p} : target'[r] = target[r],
           pc[p] \in InExit => l \in InExit \/ state'[p] = "ZOMBIE",
           \A r \in Slot : \/ state'[r] = state[r]
                           \/ state[r] # "ZOMBIE" /\ state'[r] # "UNUSED"
    PROVE  Named'
  <1>1. pc \in [Slot -> PC] /\ ret' = ret
    BY Zenon DEF TypeOK
  <1>2. \A r \in Slot \ {p} : Pos(r)' = Pos(r)
    BY <1>1, Zenon DEF Pos
  <1>3. Pos(p) = pc[p] /\ Pos(p)' = l
    BY <1>1, Zenon DEF Pos
  <1>4. \A r \in Slot : Pos(r)' = "kill" => target'[r] \in KillPids
    BY <1>2, <1>3, Zenon DEF Named
  <1>5. \A r \in Slot : Pos(r) \in InExit =>
            Pos(r)' \in InExit \/ state'[r] = "ZOMBIE"
    BY <1>2, <1>3, Zenon
  <1>6. \A r \in Slot : /\ state'[r] = "UNUSED" => state[r] = "UNUSED"
                        /\ state[r] = "ZOMBIE" => state'[r] = "ZOMBIE"
    BY Zenon
  <1>. QED  BY <1>4, <1>5, <1>6, NamedKept, Zenon

(* kill(pid): the one it marks has the pid that was named. *)
LEMMA kill_named ==
    ASSUME 0 \notin KillPids, ProcInv, ProcInv', Named,
           NEW p \in Slot, kill(p)
    PROVE  Named'
  <1>t. TypeOK /\ TypeOK' /\ Placed /\ Locals
    BY DEF ProcInv
  <1> USE <1>t
  <1>1. p \notin locked /\ state[p] = "RUNNING" /\ Pos(p) = pc[p] /\ ret[p] = "user"
    BY Acting, Zenon DEF kill, At, Away, Resuming, Leaving
  <1>2. /\ \A r \in Slot \ {p} : Pos(r)' = Pos(r)
        /\ pc[p] = "kill" /\ Pos(p)' \in {"kill", "trap"}
        /\ \A r \in Slot : \/ state'[r] = state[r]
                           \/ state[r] = "SLEEPING" /\ state'[r] = "RUNNABLE"
        /\ UNCHANGED <<pid, target>>
    BY <1>1, SMTT(30)
       DEF kill, At, Goto, NextSlot, TypeOK, Pos, Yielded, idvars
  <1>3. \A r \in Slot : Exiting(r) => Exiting(r)'
    BY <1>1, <1>2, ExitingIs, ExitingIsNext, Zenon DEF InExit, ExitHeld
  <1>4. target[p] \in KillPids /\ i[p] \in Slot
    BY <1>1, <1>2, Zenon DEF Named, TypeOK
  <1>5. killed' = killed \/ (killed' = killed \cup {i[p]} /\ pid[i[p]] = target[p])
    BY Zenon DEF kill
  <1>6. \A r \in Slot : state'[r] = "UNUSED" =>
            state[r] = "UNUSED" /\ pid[r] = 0 /\ r \notin killed
    BY <1>2, Zenon DEF Named
  <1>7. \A r \in Slot : Pos(r)' = "kill" => target'[r] \in KillPids
    BY <1>1, <1>2, Zenon DEF Named
  <1>8. OnlyTheNamedAreKilled'
    BY <1>2, <1>3, <1>4, <1>5 DEF Named, OnlyTheNamedAreKilled, TypeOK
  <1>. QED  BY <1>2, <1>4, <1>5, <1>6, <1>7, <1>8, Zenon DEF Named

(* allocproc: the slot it hands out with a new pid is unmarked. *)
LEMMA allocproc_named ==
    ASSUME 0 \notin KillPids, ProcInv, ProcInv', Named,
           NEW p \in Slot, allocproc(p)
    PROVE  Named'
  <1>t. TypeOK /\ TypeOK' /\ Placed /\ Locals
    BY ZenonT(30) DEF ProcInv
  <1> USE <1>t
  <1>1. p \notin locked /\ state[p] = "RUNNING" /\ Pos(p) = pc[p] /\ ret[p] = "user"
    BY Acting, Zenon DEF allocproc, At, Away, Resuming, Leaving
  <1>2. /\ \A r \in Slot \ {p} : Pos(r)' = Pos(r)
        /\ pc[p] = "fork" /\ Pos(p)' \in {"fork", "trap", "fork_parent"}
        /\ target' = target
    BY <1>1, SMTT(30) DEF allocproc, At, Goto, NextSlot, TypeOK, Pos, Yielded
  <1>3. /\ \A r \in Slot : \/ state'[r] = state[r]
                           \/ state[r] = "UNUSED" /\ state'[r] = "USED"
        /\ \A r \in Slot : \/ pid'[r] = pid[r]
                           \/ /\ state[r] = "UNUSED"
                              /\ state'[r] = "USED" \/ pid'[r] = 0
        /\ killed' \subseteq killed
    BY SMTT(30) DEF allocproc, freeproc, TypeOK, idvars
  <1>4. \A r \in Slot : Exiting(r) => Exiting(r)'
    BY <1>1, <1>2, <1>3, ExitingIs, ExitingIsNext, Zenon DEF InExit, ExitHeld
  <1>5. \A r \in Slot : state'[r] = "UNUSED" => pid'[r] = 0 /\ r \notin killed'
    BY <1>3, Zenon DEF Named
  <1>6. \A r \in Slot : Pos(r)' = "kill" => target'[r] \in KillPids
    BY <1>1, <1>2, Zenon DEF Named
  <1>7. OnlyTheNamedAreKilled'
    BY <1>4, <1>3, Zenon DEF Named, OnlyTheNamedAreKilled, TypeOK
  <1>. QED  BY <1>5, <1>6, <1>7 DEF Named

(* wait: freeproc clears the mark together with the pid. *)
LEMMA wait_scan_named ==
    ASSUME 0 \notin KillPids, ProcInv, ProcInv', Named,
           NEW p \in Slot, wait_scan(p)
    PROVE  Named'
  <1>t. TypeOK /\ TypeOK' /\ Placed /\ Locals
    BY SMTT(30) DEF ProcInv
  <1> USE <1>t
  <1>1. p \notin locked /\ state[p] = "RUNNING" /\ Pos(p) = pc[p] /\ ret[p] = "user"
    BY Acting, Zenon DEF wait_scan, At, Away, Resuming, Leaving
  <1>2. /\ \A r \in Slot \ {p} : Pos(r)' = Pos(r)
        /\ pc[p] = "wait_scan"
        /\ Pos(p)' \in {"wait_scan", "wait_check", "trap"} /\ target' = target
    <2>1. pc[p] = "wait_scan" /\ target' = target /\ ret' = ret
      BY Zenon DEF wait_scan, At
    <2>2. \E l \in {"wait_scan", "wait_check", "trap"} : pc' = [pc EXCEPT ![p] = l]
      BY <2>1, Zenon DEF wait_scan, Goto, NextSlot
    <2>. QED  BY <1>1, <2>1, <2>2, Zenon DEF TypeOK, Pos, Yielded
  <1>3. \/ UNCHANGED <<state, pid, killed>>
        \/ \E q \in Slot : /\ state' = [state EXCEPT ![q] = "UNUSED"]
                           /\ pid' = [pid EXCEPT ![q] = 0]
                           /\ killed' = killed \ {q}
    BY Zenon DEF wait_scan, freeproc, TypeOK
  <1>4. \A r \in killed' : Exiting(r) => Exiting(r)'
    <2>1. \A r \in killed' : r \in Slot /\ state'[r] = state[r]
      BY <1>3, ZenonT(30) DEF TypeOK
    <2>. QED  BY <1>1, <1>2, <2>1, ExitingIs, ExitingIsNext, Zenon DEF InExit, ExitHeld
  <1>5. \A r \in Slot : state'[r] = "UNUSED" => pid'[r] = 0 /\ r \notin killed'
    BY <1>3 DEF Named, TypeOK
  <1>6. \A r \in Slot : Pos(r)' = "kill" => target'[r] \in KillPids
    BY <1>1, <1>2, Zenon DEF Named
  <1>7. OnlyTheNamedAreKilled'
    BY <1>4, <1>3, Zenon DEF Named, OnlyTheNamedAreKilled, TypeOK
  <1>. QED  BY <1>5, <1>6, <1>7, ZenonT(30) DEF Named

(* Every step keeps the mark p->killed with those who were named in a kill *)
(* or exit after a fault: kill marks the one whose pid it was given,       *)
(* freeproc takes the mark away with the pid, and a pid that fork hands    *)
(* out belongs to an unmarked slot.                                        *)
LEMMA NamedStep ==
    ASSUME 0 \notin KillPids, ProcInv, ProcInv', Named, [Next]_vars
    PROVE  Named'
  <1>t. TypeOK /\ TypeOK' /\ Placed /\ Locals
    BY Zenon DEF ProcInv
  <1> USE <1>t
  <1>f. /\ state \in [Slot -> State] /\ pc \in [Slot -> PC]
        /\ ret \in [Slot -> Preemptible \cup {"user"}] /\ i \in [Slot -> Slot]
        /\ target \in [Slot -> Nat]
    BY Zenon DEF TypeOK
  <1>a. ASSUME NEW p \in Slot, OnCPU(p), pc[p] \notin Away
        PROVE  /\ p \notin locked /\ state[p] = "RUNNING"
               /\ Pos(p) = pc[p] /\ ret[p] = "user"
    BY <1>a, Acting, Zenon
  <1>1. ASSUME NEW c \in CPU, NEW p \in Slot, scheduler(c, p)
        PROVE  Named'
    <2>1. /\ state[p] = "RUNNABLE" /\ state' = [state EXCEPT ![p] = "RUNNING"]
          /\ UNCHANGED <<pid, killed, pc, ret, target>>
      BY <1>1, Zenon DEF scheduler, idvars, localvars
    <2>2. \A r \in Slot : /\ state'[r] = "UNUSED" => state[r] = "UNUSED"
                          /\ state[r] = "ZOMBIE" => state'[r] = "ZOMBIE"
      BY <1>f, <2>1, Zenon
    <2>3. \A r \in Slot : Pos(r)' = Pos(r)
      BY <2>1, Zenon DEF Pos
    <2>4. \A r \in Slot : Pos(r)' = "kill" => target'[r] \in KillPids
      BY <2>1, <2>3, Zenon DEF Named
    <2>. QED  BY <2>1, <2>2, <2>3, <2>4, NamedKept, Zenon
  <1>2. ASSUME NEW c \in CPU, NEW p \in Slot, sched(c, p)
        PROVE  Named'
    <2>1. pc[p] \in Leaving /\ UNCHANGED <<state, pid, killed, ret, target>>
      BY <1>2, Zenon DEF sched, idvars, localvars
    <2>2. \/ pc[p] = "swtch_yield" /\ pc' = [pc EXCEPT ![p] = "resume_yield"]
          \/ pc[p] = "swtch_wait" /\ pc' = [pc EXCEPT ![p] = "resume_wait"]
          \/ pc[p] = "swtch_exit" /\ pc' = [pc EXCEPT ![p] = "unused"]
      BY <1>2, <2>1, Zenon DEF sched, Goto, Leaving
    <2>3. \A r \in Slot \ {p} : Pos(r)' = Pos(r)
      BY <1>f, <2>1, <2>2, Zenon DEF Pos
    <2>4. Pos(p)' = Pos(p) \/ (Pos(p) \notin InExit /\ Pos(p)' # "kill")
      BY <1>f, <2>1, <2>2, Zenon DEF Pos, Yielded, InExit, ExitHeld
    <2>5. \A r \in Slot : Pos(r)' = "kill" => target'[r] \in KillPids
      BY <2>1, <2>3, <2>4, Zenon DEF Named
    <2>. QED  BY <2>1, <2>3, <2>4, <2>5, NamedKept, Zenon
  <1>3. ASSUME NEW p \in Slot, resume(p)
        PROVE  Named'
    <2>1. /\ pc[p] \in Resuming /\ UNCHANGED <<state, pid, killed, target>>
          /\ ret' = [ret EXCEPT ![p] = "user"]
          /\ pc' = [pc EXCEPT ![p] = IF pc[p] = "resume_wait" THEN "wait" ELSE ret[p]]
      BY <1>3, Zenon DEF resume, Goto, idvars, localvars
    <2>2. ret[p] \notin Yielded /\ (pc[p] \notin Yielded => ret[p] = "user")
      <3>1. ret[p] \in Preemptible \cup {"user"}
        BY <1>f, Zenon
      <3>2. ret[p] \notin Yielded
        BY <3>1, Zenon DEF Preemptible, Yielded
      <3>. QED  BY <3>2, Zenon DEF Locals
    <2>3. \A r \in Slot \ {p} : Pos(r)' = Pos(r)
      BY <1>f, <2>1, Zenon DEF Pos
    <2>4. \/ Pos(p)' = Pos(p)
          \/ pc[p] = "resume_wait" /\ Pos(p)' = "wait" /\ Pos(p) = pc[p]
          \/ pc[p] = "forkret" /\ Pos(p)' = "user" /\ Pos(p) = pc[p]
      BY <1>f, <2>1, <2>2, Zenon DEF Pos, Yielded, Resuming
    <2>5. \A r \in Slot : Pos(r)' = "kill" => target'[r] \in KillPids
      BY <2>1, <2>3, <2>4, Zenon DEF Named
    <2>6. \A r \in Slot : Pos(r) \in InExit => Pos(r)' \in InExit
      BY <2>3, <2>4, Zenon DEF InExit, ExitHeld
    <2>. QED  BY <2>1, <2>5, <2>6, NamedKept, Zenon
  <1>4. ASSUME NEW p \in Slot, yield(p)
        PROVE  Named'
    <2>1. /\ OnCPU(p) /\ pc[p] \in Preemptible /\ UNCHANGED <<pid, killed, target>>
          /\ state' = [state EXCEPT ![p] = "RUNNABLE"]
          /\ ret' = [ret EXCEPT ![p] = IF pc[p] = "yield" THEN "user" ELSE pc[p]]
          /\ pc' = [pc EXCEPT ![p] = "swtch_yield"]
      BY <1>4, Zenon DEF yield, Goto, idvars, localvars
    <2>2. state[p] = "RUNNING" /\ Pos(p) = pc[p]
      BY <1>a, <2>1, Zenon DEF Away, Preemptible, Resuming, Leaving
    <2>3. \A r \in Slot \ {p} : Pos(r)' = Pos(r)
      BY <1>f, <2>1, Zenon DEF Pos
    <2>4. Pos(p)' = Pos(p) \/ (Pos(p) = "yield" /\ Pos(p)' = "user")
      BY <1>f, <2>1, <2>2, Zenon DEF Pos, Yielded
    <2>5. \A r \in Slot : Pos(r)' = "kill" => target'[r] \in KillPids
      BY <2>1, <2>3, <2>4, Zenon DEF Named
    <2>6. \A r \in Slot : Pos(r) \in InExit => Pos(r)' \in InExit
      BY <2>3, <2>4, Zenon DEF InExit, ExitHeld
    <2>7. \A r \in Slot : /\ state'[r] = "UNUSED" => state[r] = "UNUSED"
                          /\ state[r] = "ZOMBIE" => state'[r] = "ZOMBIE"
      BY <1>f, <2>1, <2>2, Zenon
    <2>. QED  BY <2>1, <2>5, <2>6, <2>7, NamedKept, Zenon
  <1>5. ASSUME NEW p \in Slot, NEW l \in {"yield", "fork", "exit", "wait"},
               trap(p, l, 0)
        PROVE  Named'
    <2>1. /\ pc[p] = "user" /\ pc' = [pc EXCEPT ![p] = l]
          /\ target' = [target EXCEPT ![p] = 0]
          /\ UNCHANGED <<state, pid, killed, ret>>
      BY <1>5, Zenon DEF trap, At, Goto, idvars
    <2>2. \A r \in Slot \ {p} : target'[r] = target[r]
      BY <1>f, <2>1, Zenon
    <2>3. /\ pc[p] \notin Yielded /\ l \notin Yielded /\ l # "kill"
          /\ pc[p] \in InExit => l \in InExit
      BY <2>1, Zenon DEF Yielded, InExit, ExitHeld
    <2>. QED  BY <2>1, <2>2, <2>3, NamedMoves, Zenon
  <1>6. ASSUME NEW p \in Slot, sys_kill(p)
        PROVE  Named'
    <2>1. PICK k \in KillPids : trap(p, "kill", k)
      BY <1>6, Zenon DEF sys_kill
    <2>2. /\ pc[p] = "user" /\ pc' = [pc EXCEPT ![p] = "kill"]
          /\ target' = [target EXCEPT ![p] = k]
          /\ UNCHANGED <<state, pid, killed, ret>>
      BY <2>1, Zenon DEF trap, At, Goto, idvars
    <2>3. target'[p] = k /\ \A r \in Slot \ {p} : target'[r] = target[r]
      BY <1>f, <2>2, Zenon
    <2>4. pc[p] \notin Yielded /\ pc[p] \notin InExit /\ "kill" \notin Yielded
      BY <2>2, Zenon DEF Yielded, InExit, ExitHeld
    <2>. QED  BY <2>2, <2>3, <2>4, NamedMoves, Zenon
  <1>7. ASSUME NEW p \in Slot, usertrap(p)
        PROVE  Named'
    <2>1. /\ pc[p] \in {"trap", "user"} /\ target' = [target EXCEPT ![p] = 0]
          /\ UNCHANGED <<state, pid, killed, ret>>
      BY <1>7, Zenon DEF usertrap, At, idvars
    <2>2. PICK l \in {"exit", "user"} : pc' = [pc EXCEPT ![p] = l]
      BY <1>7, Zenon DEF usertrap, Goto
    <2>3. \A r \in Slot \ {p} : target'[r] = target[r]
      BY <1>f, <2>1, Zenon
    <2>4. /\ pc[p] \notin Yielded /\ l \notin Yielded /\ l # "kill"
          /\ pc[p] \in InExit => l \in InExit
      BY <2>1, <2>2, Zenon DEF Yielded, InExit, ExitHeld
    <2>. QED  BY <2>1, <2>2, <2>3, <2>4, NamedMoves, Zenon
  <1>9. ASSUME NEW p \in Slot, fork_run(p)
        PROVE  Named'
    <2>1. /\ OnCPU(p) /\ pc[p] = "fork_run" /\ Free(i[p])
          /\ state' = [state EXCEPT ![i[p]] = "RUNNABLE"]
          /\ pc' = [pc EXCEPT ![p] = "trap", ![i[p]] = "forkret"]
          /\ UNCHANGED <<pid, killed, ret, target>>
      BY <1>9, Zenon DEF fork_run, At, idvars, localvars
    <2>2. state[p] = "RUNNING" /\ Pos(p) = pc[p] /\ i[p] \in Slot
      BY <1>a, <1>f, <2>1, Zenon DEF Away, Resuming, Leaving
    <2>3. state[i[p]] = "USED" /\ i[p] # p
      BY <2>1, <2>2, Zenon DEF ProcInv, Forks, Forking
    <2>4. Pos(i[p]) = "unused"
      BY <2>1, <2>2, <2>3, Zenon DEF Placed, Free, Saved, Pos, Yielded
    <2>5. \A r \in Slot : \/ Pos(r)' = Pos(r)
                          \/ r = p /\ Pos(r) = "fork_run" /\ Pos(r)' = "trap"
                          \/ r = i[p] /\ Pos(r) = "unused" /\ Pos(r)' = "forkret"
      BY <1>f, <2>1, <2>2, <2>3, <2>4, Zenon DEF Pos, Yielded
    <2>6. \A r \in Slot : Pos(r)' = "kill" => target'[r] \in KillPids
      BY <2>1, <2>5, Zenon DEF Named
    <2>7. \A r \in Slot : Pos(r) \in InExit => Pos(r)' \in InExit
      BY <2>5, Zenon DEF InExit, ExitHeld
    <2>8. \A r \in Slot : /\ state'[r] = "UNUSED" => state[r] = "UNUSED"
                          /\ state[r] = "ZOMBIE" => state'[r] = "ZOMBIE"
      BY <1>f, <2>1, <2>2, <2>3, Zenon
    <2>. QED  BY <2>1, <2>6, <2>7, <2>8, NamedKept, Zenon
  <1>8. ASSUME NEW p \in Slot,
                fork_parent(p) \/ exit(p) \/ reparent(p) \/ wait(p) \/ wait_check(p)
        PROVE  Named'
    <2>1. UNCHANGED <<state, pid, killed, ret, target>>
      BY <1>8, Zenon DEF fork_parent, exit, reparent, wait, wait_check, idvars,
         localvars
    <2>2. \/ pc[p] = "fork_parent" /\ Goto(p, "fork_run")
          \/ pc[p] = "exit" /\ (Goto(p, "panic") \/ Goto(p, "reparent"))
          \/ pc[p] = "reparent" /\ \E l \in ExitHeld : Goto(p, l)
          \/ pc[p] = "wait" /\ Goto(p, "wait_scan")
          \/ pc[p] = "wait_check" /\ (Goto(p, "trap") \/ Goto(p, "wait_sleep"))
      <3>1. reparent(p) => pc[p] = "reparent" /\ \E l \in ExitHeld : Goto(p, l)
        BY Zenon DEF reparent, At, NextSlot, ExitHeld
      <3>. QED  BY <1>8, <3>1, Zenon DEF fork_parent, exit, wait, wait_check, At
    <2>3. PICK l : /\ pc' = [pc EXCEPT ![p] = l] /\ l \notin Yielded /\ l # "kill"
                   /\ pc[p] \in InExit => l \in InExit
      BY <2>2 DEF Goto, Yielded, InExit, ExitHeld
    <2>4. pc[p] \notin Yielded
      BY <2>2, Zenon DEF Yielded
    <2>. QED  BY <2>1, <2>3, <2>4, NamedMoves, Zenon
  <1>10. ASSUME NEW p \in Slot, NEW ch, NEW k \in ExitHeld, pc[p] \in ExitHeld,
                wakeup(p, ch, k)
        PROVE  Named'
    <2>1. UNCHANGED <<pid, killed, ret, target>>
      BY <1>10, Zenon DEF wakeup, idvars
    <2>2. PICK l \in ExitHeld : pc' = [pc EXCEPT ![p] = l]
      BY <1>10, Zenon DEF wakeup, Goto
    <2>3. \A r \in Slot : \/ state'[r] = state[r]
                          \/ state[r] # "ZOMBIE" /\ state'[r] # "UNUSED"
      BY <1>10, <1>f, Zenon DEF wakeup
    <2>4. /\ pc[p] \notin Yielded /\ l \notin Yielded /\ l # "kill"
          /\ pc[p] \in InExit => l \in InExit
      BY <1>10, <2>2, Zenon DEF Yielded, InExit, ExitHeld
    <2>. QED  BY <2>1, <2>2, <2>3, <2>4, NamedMoves, Zenon
  <1>11. ASSUME NEW p \in Slot, exit_zombie(p)
        PROVE  Named'
    <2>1. /\ OnCPU(p) /\ pc[p] = "exit_zombie"
          /\ state' = [state EXCEPT ![p] = "ZOMBIE"]
          /\ pc' = [pc EXCEPT ![p] = "swtch_exit"]
          /\ UNCHANGED <<pid, killed, ret, target>>
      BY <1>11, Zenon DEF exit_zombie, At, Goto, idvars, localvars
    <2>0. state[p] = "RUNNING"
      BY <1>a, <2>1, Zenon DEF Away, Resuming, Leaving
    <2>2. \A r \in Slot : \/ state'[r] = state[r]
                          \/ state[r] # "ZOMBIE" /\ state'[r] # "UNUSED"
      BY <1>f, <2>0, <2>1, Zenon
    <2>3. state'[p] = "ZOMBIE"
      BY <1>f, <2>1, Zenon
    <2>4. pc[p] \notin Yielded /\ "swtch_exit" \notin Yielded /\ "swtch_exit" # "kill"
      BY <2>1, Zenon DEF Yielded
    <2>. QED  BY <2>1, <2>2, <2>3, <2>4, NamedMoves, Zenon
  <1>12. ASSUME NEW p \in Slot, wait_sleep(p)
        PROVE  Named'
    <2>1. /\ OnCPU(p) /\ pc[p] = "wait_sleep"
          /\ state' = [state EXCEPT ![p] = "SLEEPING"]
          /\ pc' = [pc EXCEPT ![p] = "swtch_wait"]
          /\ UNCHANGED <<pid, killed, ret, target>>
      BY <1>12, Zenon DEF wait_sleep, At, Goto, idvars, localvars
    <2>2. state[p] = "RUNNING"
      BY <1>a, <2>1, Zenon DEF Away, Resuming, Leaving
    <2>3. \A r \in Slot : \/ state'[r] = state[r]
                          \/ state[r] # "ZOMBIE" /\ state'[r] # "UNUSED"
      BY <1>f, <2>1, <2>2, Zenon
    <2>4. /\ pc[p] \notin Yielded /\ pc[p] \notin InExit
          /\ "swtch_wait" \notin Yielded /\ "swtch_wait" # "kill"
      BY <2>1, Zenon DEF Yielded, InExit, ExitHeld
    <2>. QED  BY <2>1, <2>3, <2>4, NamedMoves, Zenon
  <1>13. ASSUME NEW p \in Slot, fault(p)
        PROVE  Named'
    <2>1. p \notin locked /\ state[p] = "RUNNING" /\ Pos(p) = pc[p] /\ ret[p] = "user"
      BY <1>13, <1>a, ZenonT(30) DEF fault, At, Away, Resuming, Leaving
    <2>2. /\ killed' = killed \cup {p} /\ Pos(p)' = "exit"
          /\ \A r \in Slot \ {p} : Pos(r)' = Pos(r)
          /\ UNCHANGED <<state, pid, target>>
      BY <1>13, <2>1, Zenon
         DEF fault, At, Goto, TypeOK, Pos, Yielded, idvars, localvars
    <2>3. \A r \in Slot : Exiting(r) => Exiting(r)'
      BY <2>2, ExitingIs, ExitingIsNext, Zenon DEF InExit
    <2>4. Exiting(p)'
      BY <2>2, ExitingIsNext, Zenon DEF InExit
    <2>. QED  BY <2>1, <2>2, <2>3, <2>4, Zenon DEF Named, OnlyTheNamedAreKilled, TypeOK
  <1>14. CASE UNCHANGED vars
    BY <1>14, NamedKept, Zenon DEF vars, idvars, localvars, Named, Pos
  <1>15. ASSUME NEW p \in Slot, User(p)
        PROVE  Named'
    BY <1>15, <1>5, <1>6, <1>13, Zenon DEF User, timer, sys_fork, sys_exit, sys_wait
  <1>16. ASSUME NEW p \in Slot, Kernel(p)
        PROVE  Named'
    <2>1. reparent_wakeup(p) \/ exit_wakeup(p) => Named'
      BY <1>10, Zenon DEF reparent_wakeup, exit_wakeup, At, ExitHeld
    <2>. QED  BY <1>16, <1>7, <1>8, <1>9, <1>11, <1>12, <2>1,
              kill_named, allocproc_named, wait_scan_named, Zenon
              DEF Kernel
  <1>. QED  BY <1>1, <1>2, <1>3, <1>4, <1>14, <1>15, <1>16, Zenon DEF Next

-----------------------------------------------------------------------------
(* Only allocproc and freeproc take or free a slot, with its lock held and *)
(* nobody on its stack.                                                    *)
LEMMA FreesIdle ==
    ASSUME ProcInv, [Next]_vars, NEW q \in Slot,
           state'[q] # state[q], state'[q] \in {"UNUSED", "USED"}
    PROVE  ~OnCPU(q) /\ pc[q] = "unused"
  <1> USE DEF ProcInv
  <1>1. q \notin locked /\ state[q] \in {"UNUSED", "ZOMBIE"}
    <2>1. ASSUME NEW p \in Slot, allocproc(p) \/ wait_scan(p)
          PROVE  q \notin locked /\ state[q] \in {"UNUSED", "ZOMBIE"}
      BY <2>1 DEF TypeOK, allocproc, wait_scan, freeproc, ChildIs, Free
    <2>2. ASSUME NEW p \in Slot, reparent_wakeup(p) \/ exit_wakeup(p)
          PROVE  FALSE
      BY <2>2 DEF reparent_wakeup, exit_wakeup, wakeup, TypeOK
    <2>3. ASSUME NEW p \in Slot,
                 \/ fork_run(p) \/ exit_zombie(p) \/ wait_sleep(p) \/ kill(p)
          PROVE  FALSE
      BY <2>3, Zenon DEF TypeOK, fork_run, exit_zombie, wait_sleep, kill
    <2>4. ASSUME NEW p \in Slot,
                 \/ usertrap(p) \/ fork_parent(p) \/ exit(p)
                 \/ reparent(p) \/ wait(p) \/ wait_check(p)
          PROVE  FALSE
      BY <2>4, Zenon DEF usertrap, fork_parent, exit, reparent, wait, wait_check
    <2>5. ASSUME NEW p \in Slot, User(p) \/ resume(p) \/ yield(p)
          PROVE  FALSE
      BY <2>5, Zenon
        DEF TypeOK, User, timer, sys_fork, sys_exit, sys_wait, sys_kill,
             trap, fault, resume, yield
    <2>6. ASSUME NEW p \in Slot, NEW c \in CPU, scheduler(c, p) \/ sched(c, p)
          PROVE  FALSE
      BY <2>6, Zenon DEF TypeOK, scheduler, sched
    <2>7. CASE UNCHANGED vars
      BY <2>7, Zenon DEF vars
    <2>. QED  BY <2>1, <2>2, <2>3, <2>4, <2>5, <2>6, <2>7, ZenonT(30) DEF Next, Kernel
  <1>2. Placed
    BY Zenon
  <1>3. (~OnCPU(q) => Saved(q)) /\ (OnCPU(q) => state[q] = "RUNNING")
    BY <1>1, <1>2, Zenon DEF Placed
  <1>. QED  BY <1>1, <1>3, ZenonT(30) DEF Saved

(* procinit and userinit: one process, which waits to run for the first    *)
(* time.                                                                   *)
LEMMA ProcInitially == Init => ProcInv
  <1> SUFFICES ASSUME Init PROVE ProcInv
    BY Zenon
  <1> USE Slots DEF Init
  <1>1. TypeOK
    BY Zenon DEF TypeOK, State, PC, Preemptible, Resuming
  <1>2. Single /\ LockHeld
    BY Zenon DEF Single, LockHeld, ExitHeld, WaitHeld
  <1>3. \A p \in Slot : ~OnCPU(p) /\ p \notin locked
    BY Zenon DEF OnCPU
  <1>4. Placed
    BY <1>3, Zenon DEF Placed, Saved, Resuming
  <1>5. Locals /\ Forks
    BY Zenon DEF Locals, Forks, Forking, Pos, Yielded
  <1>6. Family
    BY Zenon DEF Family, ExitHeld, Living
  <1>7. Childless /\ Woken /\ Scanned
    BY Zenon DEF Childless, Woken, Scanned
  <1>. QED  BY <1>1, <1>2, <1>4, <1>5, <1>6, <1>7, Zenon DEF ProcInv

(* A step that changes nothing. *)
LEMMA ProcStutters ==
    ASSUME ProcInv, UNCHANGED vars
    PROVE  ProcInv'
  <1>1. UNCHANGED <<state, pid, parent, chan, killed, nextpid, locked, wait_lock,
                    cpu, pc, ret, i, w, havekids, target>>
    BY Zenon DEF vars, idvars, lockvars, localvars
  <1>2. TypeOK'
    BY <1>1, Zenon DEF ProcInv, TypeOK
  <1>3. Single' /\ Placed'
    BY <1>1 DEF ProcInv, Single, Placed, OnCPU, Switching, Saved
  <1>4. Locals' /\ LockHeld' /\ Forks'
    BY <1>1 DEF ProcInv, Locals, LockHeld, Forks, Forking, Pos
  <1>5. Family' /\ Childless'
    BY <1>1, Zenon DEF ProcInv, Family, Childless
  <1>6. Woken' /\ Scanned'
    BY <1>1 DEF ProcInv, Woken, Scanned
  <1>. QED  BY <1>2, <1>3, <1>4, <1>5, <1>6, Zenon DEF ProcInv

(* What the invariant says of scheduler, sched and yield. *)
LEMMA SwitchesSafely == ProcInv => SwitchesAreSafe
  <1> SUFFICES ASSUME ProcInv PROVE RunsOnOneCPU /\ SchedAsserts
    BY Zenon DEF SwitchesAreSafe
  <1>1. RunsOnOneCPU
    BY Zenon DEF ProcInv, Single, Placed, Saved, RunsOnOneCPU
  <1>2. SchedAsserts
    <2> SUFFICES ASSUME NEW p \in Slot, pc[p] \in Leaving
                 PROVE  p \in locked /\ wait_lock # p /\ state[p] # "RUNNING"
      BY Zenon DEF SchedAsserts
    <2>1. p \in locked /\ Switching(p)
      BY Zenon DEF ProcInv, Placed, Saved, Away, Leaving, Resuming
    <2>. QED  BY <2>1, Zenon
                 DEF Switching, Leaving, Resuming, ProcInv, LockHeld,
                     ExitHeld, WaitHeld
  <1>. QED  BY <1>1, <1>2, Zenon

(* What the invariant says of exit, reparent and wait. *)
LEMMA WaitsReliably == ProcInv => WaitIsReliable
  <1> SUFFICES ASSUME ProcInv
               PROVE  HasLiveParent /\ NoMissedExit /\ HavekidsIsAccurate
    BY Zenon DEF WaitIsReliable
  <1>1. HasLiveParent
    BY Zenon DEF ProcInv, Family, Living, HasLiveParent
  <1>2. NoMissedExit
    BY Slots DEF ProcInv, Woken, LockHeld, ExitHeld, NoMissedExit
  <1>3. HavekidsIsAccurate
    BY Zenon DEF ProcInv, Scanned, HavekidsIsAccurate
  <1>. QED  BY <1>1, <1>2, <1>3, Zenon

-----------------------------------------------------------------------------
(* allocproc: the slot that becomes USED was UNUSED, so no other fork has  *)
(* it and no process has it as a parent.                                   *)
LEMMA allocproc_inv ==
    ASSUME ProcInv, NEW p \in Slot, allocproc(p)
    PROVE  ProcInv'
  <1> USE Slots DEF ProcInv
  <1> DEFINE q == i[p]
             Skips == /\ NextSlot(p, "trap")
                      /\ UNCHANGED <<state, chan, killed, idvars>>
             Takes == /\ state[q] = "UNUSED" /\ nextpid' = nextpid + 1
                      /\ state' = [state EXCEPT ![q] = "USED"]
                      /\ pid' = [pid EXCEPT ![q] = nextpid]
                      /\ Goto(p, "fork_parent")
                      /\ UNCHANGED <<parent, chan, killed, i>>
             Fails == /\ state[q] = "UNUSED" /\ nextpid' = nextpid + 1
                      /\ freeproc(q) /\ Goto(p, "trap") /\ UNCHANGED i
  <1>0. /\ OnCPU(p) /\ pc[p] = "fork" /\ q \in Slot /\ q \notin locked
        /\ p \notin locked /\ state[p] = "RUNNING" /\ Pos(p) = pc[p]
        /\ ret[p] = "user"
    BY Acting, Zenon
       DEF allocproc, At, Free, Away, TypeOK, Preemptible, Resuming, Leaving
  <1>a. Skips \/ Takes \/ Fails
    BY Zenon DEF allocproc
  <1>f. ASSUME Fails
        PROVE  /\ UNCHANGED <<state, parent, i>> /\ pc' = [pc EXCEPT ![p] = "trap"]
               /\ chan' = [chan EXCEPT ![q] = Nobody] /\ pid' = [pid EXCEPT ![q] = 0]
               /\ killed' = killed \ {q}
    <2>1. state[q] = "UNUSED" /\ parent[q] = Nobody
      BY <1>f, <1>0, Zenon DEF Family
    <2>2. /\ state' = [state EXCEPT ![q] = "UNUSED"]
          /\ parent' = [parent EXCEPT ![q] = Nobody]
      BY <1>f, Zenon DEF freeproc
    <2>3. state' = state /\ parent' = parent
      BY <2>1, <2>2 DEF TypeOK
    <2>. QED  BY <1>f, <2>3, Zenon DEF freeproc, Goto
  <1>t. ASSUME Takes
        PROVE  /\ state[q] = "UNUSED" /\ state' = [state EXCEPT ![q] = "USED"]
               /\ pc' = [pc EXCEPT ![p] = "fork_parent"]
               /\ UNCHANGED <<parent, chan, killed, i>>
    BY <1>t, Zenon DEF Goto
  <1>s. ASSUME Skips
        PROVE  /\ UNCHANGED <<state, parent, chan, killed, pid>>
               /\ pc'[p] \in {"fork", "trap"}
               /\ i' \in [Slot -> Slot] /\ pc' \in [Slot -> PC]
               /\ \A r \in Slot \ {p} : i'[r] = i[r] /\ pc'[r] = pc[r]
    <2>1. "trap" \in PC
      BY Zenon DEF PC, Preemptible
    <2>. QED  BY <1>s, <1>0, <2>1, SlotByslot, Zenon DEF idvars
  <1>b. /\ i' \in [Slot -> Slot] /\ pc' \in [Slot -> PC]
        /\ \A r \in Slot \ {p} : i'[r] = i[r] /\ pc'[r] = pc[r]
        /\ pc'[p] \in {"fork", "fork_parent", "trap"}
        /\ \/ pc'[p] = "fork_parent" /\ state[q] = "UNUSED" /\ i'[p] = q
              /\ state' = [state EXCEPT ![q] = "USED"]
           \/ pc'[p] # "fork_parent" /\ state' = state
        /\ chan' \in [Slot -> Slot \cup {Nobody}]
        /\ \A r \in Slot : state[r] # "UNUSED" => chan'[r] = chan[r]
    <2>1. "trap" \in PC /\ "fork_parent" \in PC
      BY Zenon DEF PC, Preemptible
    <2>2. CASE Skips
      BY <1>s, <2>2, Zenon DEF TypeOK
    <2>3. CASE Takes
      BY <1>t, <2>1, <2>3, SMTT(30) DEF TypeOK
    <2>4. CASE Fails
      BY <1>f, <1>0, <2>1, <2>4, SMTT(30) DEF TypeOK
    <2> HIDE DEF Skips, Takes, Fails
    <2>. QED  BY <1>a, <2>2, <2>3, <2>4, Zenon
  <1>c. UNCHANGED <<parent, wait_lock, locked, cpu, ret, w, havekids, target>>
    BY <1>a, <1>f, Zenon DEF allocproc, lockvars, idvars
  <1>d. \A r \in Slot : \/ state'[r] = state[r]
                        \/ state[r] = "UNUSED" /\ state'[r] = "USED"
    <2>1. \/ state' = state
          \/ state[q] = "UNUSED" /\ state' = [state EXCEPT ![q] = "USED"]
      BY <1>b, Zenon
    <2>. QED  BY <1>0, <2>1 DEF TypeOK
  <1>1. TypeOK'
    <2>1. CASE Skips
      BY <1>b, <1>c, <1>s, <2>1, ZenonT(30) DEF TypeOK, idvars
    <2>2. CASE Takes
      BY <1>b, <1>c, <1>0, <2>2, SMTT(30) DEF TypeOK, State
    <2>3. CASE Fails
      <3>1. nextpid' \in Nat /\ pid' \in [Slot -> Nat] /\ killed' \subseteq Slot
        <4>1. nextpid' = nextpid + 1 /\ q \in Slot
          BY <1>0, <2>3, ZenonT(30)
        <4>2. pid' = [pid EXCEPT ![q] = 0] /\ killed' = killed \ {q}
          BY <1>f, <2>3, Zenon
        <4> HIDE DEF Fails, q
        <4>. QED  BY <4>1, <4>2 DEF TypeOK
      <3>. QED  BY <1>b, <1>c, <1>f, <2>3, <3>1 DEF TypeOK
    <2> HIDE DEF Skips, Takes, Fails
    <2>. QED  BY <1>a, <2>1, <2>2, <2>3, ZenonT(30)
  <1>2. Single'
    BY <1>0
       DEF Single, allocproc, At, NextSlot, freeproc, Goto, Free, lockvars,
           OnCPU
  <1>3. Placed'
    <2>1. \A r \in Slot : OnCPU(r)' = OnCPU(r)
      BY <1>c, ZenonT(30) DEF OnCPU
    <2>2. CASE pc'[p] = "fork_parent"
      <3>1. state[q] = "UNUSED" /\ q # p /\ ~OnCPU(q) /\ pc[q] = "unused"
        BY <1>0, <1>b, <2>2, Zenon DEF Placed, Saved
      <3>2. state'[q] = "USED" /\ \A r \in Slot : r # q => state'[r] = state[r]
        BY <1>0, <1>b, <2>2, SMTT(30) DEF TypeOK
      <3>. QED  BY <1>0, <1>b, <1>c, <2>1, <2>2, <3>1, <3>2
                DEF Placed, Switching, Saved, Away, Resuming, Leaving
    <2>3. CASE pc'[p] # "fork_parent"
      BY <1>0, <1>b, <1>c, <2>1, <2>3, SMTT(30)
         DEF Placed, Switching, Saved, Away, Resuming, Leaving
    <2>. QED  BY <2>2, <2>3, Zenon
  <1>4. Locals'
    BY <1>0, <1>b, <1>c DEF Locals, Pos, Yielded, AtFirst
  <1>5. LockHeld'
    BY <1>0, <1>b, <1>c, Zenon DEF LockHeld, ExitHeld, WaitHeld
  <1>6. Forks'
    <2>1. CASE pc'[p] # "fork_parent"
      <3>1. \A r \in Slot : Forking(r)' =>
                Forking(r) /\ Pos(r)' = Pos(r) /\ i'[r] = i[r]
        BY <1>0, <1>b, <1>c, <2>1, Zenon DEF Forking, Pos, Yielded
      <3>. QED  BY <1>b, <1>c, <2>1, <3>1, ForksKept, Zenon
    <2>2. CASE pc'[p] = "fork_parent"
      <3>1. \A r \in Slot \ {p} :
                Pos(r)' = Pos(r) /\ Forking(r)' = Forking(r) /\ i'[r] = i[r]
        BY <1>b, <1>c, Zenon DEF Forking, Pos, Yielded
      <3>2. Pos(p)' = "fork_parent" /\ i'[p] = q
        BY <1>0, <1>b, <1>c, <2>2, ZenonT(30) DEF Pos, Yielded
      <3>3. state[q] = "UNUSED" /\ state'[q] = "USED"
            /\ \A r \in Slot : state[r] = "USED" => state'[r] = "USED" /\ r # q
        BY <1>0, <1>b, <2>2 DEF TypeOK
      <3>4. \A r \in Slot \ {p} : Forking(r) => state[i[r]] = "USED" /\ i[r] \in Slot
        BY Zenon DEF Forks, TypeOK
      <3>5. \A r \in Slot \ {p} : Pos(r) = "fork_run" => parent[i[r]] = r
        BY Zenon DEF Forks
      <3>6. \A r, s \in Slot \ {p} : Forking(r) /\ Forking(s) /\ i[r] = i[s] => r = s
        BY Zenon DEF Forks
      <3>7. \A r \in Slot : Forking(r)' => state'[i'[r]] = "USED"
        <4> SUFFICES ASSUME NEW r \in Slot, Forking(r)' PROVE state'[i'[r]] = "USED"
          BY Zenon
        <4>1. CASE r = p
          BY <3>2, <3>3, <4>1, Zenon
        <4>2. CASE r # p
          BY <3>1, <3>3, <3>4, <4>2, ZenonT(30)
        <4>. QED  BY <4>1, <4>2, Zenon
      <3>8. \A r, s \in Slot : Forking(r)' /\ Forking(s)' /\ i'[r] = i'[s] => r = s
        BY <3>1, <3>2, <3>3, <3>4, <3>6
      <3>9. \A r \in Slot : Pos(r)' = "fork_run" => parent'[i'[r]] = r
        BY <1>c, <3>1, <3>2, <3>5, ZenonT(30)
      <3>. QED  BY <3>7, <3>8, <3>9, Zenon DEF Forks
    <2>. QED  BY <2>1, <2>2, Zenon
  <1>7. Family'
    <2>1. \A r \in Slot : /\ state[r] \in Living => state'[r] \in Living
                          /\ state'[r] \in {"UNUSED", "USED"} <=>
                               state[r] \in {"UNUSED", "USED"}
                          /\ state'[r] = "UNUSED" => state[r] = "UNUSED"
      BY <1>d, ZenonT(30) DEF Living
    <2>. QED  BY <1>0, <1>b, <1>c, <2>1, ZenonT(30) DEF Family, ExitHeld
  <1>8. Childless'
    BY <1>0, <1>b, <1>c, SMTT(30) DEF Childless, TypeOK
  <1>9. Woken'
    BY <1>0, <1>b, <1>c, <1>d, WokenKept, ZenonT(30)
  <1>10. Scanned'
    BY <1>0, <1>b, <1>c DEF Scanned, TypeOK
  <1>. QED  BY <1>1, <1>2, <1>3, <1>4, <1>5, <1>6, <1>7, <1>8, <1>9, <1>10, SMTT(30)

(* scheduler: it locks a RUNNABLE process, which no CPU runs, and switches *)
(* to where that process stopped.                                          *)
LEMMA scheduler_inv ==
    ASSUME ProcInv, NEW c \in CPU, NEW p \in Slot, scheduler(c, p)
    PROVE  ProcInv'
  <1> USE Slots DEF ProcInv
  <1>1. TypeOK'
    BY Zenon DEF TypeOK, scheduler, Free, Lock, idvars, localvars, PC, State,
           Preemptible, Resuming, Leaving
  <1>2. Single'
    BY SMTT(30) DEF Single, Placed, TypeOK, scheduler, Lock, Free, OnCPU
  <1>3. Placed'
    BY DEF Placed, scheduler, Free, Lock, TypeOK, OnCPU, Switching, Saved,
           Away, Preemptible, Resuming, Leaving
  <1>4. Locals'
    BY Zenon DEF Locals, scheduler, Free, Lock, TypeOK, Pos, Yielded, AtFirst,
           localvars, Preemptible
  <1>5. LockHeld'
    BY ZenonT(30) DEF LockHeld, scheduler, Free, Lock, TypeOK, ExitHeld, WaitHeld,
           Preemptible
  <1>6. Forks'
    BY SMTT(30) DEF Forks, scheduler, Free, Lock, TypeOK, Forking, Pos, Yielded,
           idvars, localvars, Preemptible
  <1>7. Family'
    BY DEF Family, scheduler, Free, Lock, TypeOK, ExitHeld, Living, idvars,
           Forks, Forking, Preemptible
  <1>8. Childless'
    BY ZenonT(30) DEF Childless, scheduler, Free, Lock, TypeOK, Pos, idvars, localvars,
           Preemptible
  <1>9. Woken'
    BY SMTT(30) DEF Woken, scheduler, Free, Lock, TypeOK, idvars, localvars, Preemptible
  <1>10. Scanned'
    BY DEF Scanned, scheduler, Free, Lock, TypeOK, idvars, localvars,
           Preemptible
  <1>. QED  BY <1>1, <1>2, <1>3, <1>4, <1>5, <1>6, <1>7, <1>8, <1>9, <1>10, ZenonT(30)

(* sched: the CPU gives the thread up with p->lock held, and its registers *)
(* say where it goes on; only then is the lock free.                       *)
LEMMA sched_inv ==
    ASSUME ProcInv, NEW c \in CPU, NEW p \in Slot, sched(c, p)
    PROVE  ProcInv'
  <1> USE Slots DEF ProcInv
  <1>1. TypeOK'
    BY Zenon DEF TypeOK, sched, Goto, Unlock, idvars, localvars, PC, State,
           Preemptible, Resuming, Leaving
  <1>2. Single'
    BY DEF Single, sched, Goto, Unlock, OnCPU
  <1>3. Placed'
    <2>1. p \in locked /\ Switching(p) /\ cpu' = [cpu EXCEPT ![c] = Nobody]
      BY Zenon DEF sched, Placed, OnCPU, Away, Resuming, Leaving
    <2>2. ~OnCPU(p)' /\ \A q \in Slot : q # p => OnCPU(q)' = OnCPU(q)
      BY <2>1 DEF sched, OnCPU, Single, TypeOK
    <2>3. \A q \in Slot : q # p => pc'[q] = pc[q]
      BY DEF sched, Goto, TypeOK
    <2>4. Saved(p)'
      BY <2>1, Zenon DEF sched, Goto, TypeOK, Switching, Saved, Resuming, Leaving
    <2>. QED  BY <2>1, <2>2, <2>3, <2>4
                 DEF Placed, sched, Unlock, Switching, Saved
  <1>4. Locals'
    BY DEF Locals, sched, Goto, Unlock, TypeOK, Pos, Yielded, AtFirst,
           localvars, Preemptible, Leaving
  <1>5. LockHeld'
    BY DEF LockHeld, sched, Goto, Unlock, TypeOK, ExitHeld, WaitHeld,
           Preemptible, Leaving
  <1>6. Forks'
    BY DEF Forks, sched, Goto, Unlock, TypeOK, Forking, Pos, Yielded, idvars,
           localvars, Preemptible, Leaving
  <1>7. Family'
    BY DEF Family, sched, Goto, Unlock, TypeOK, ExitHeld, Living, idvars,
           Forks, Forking, Preemptible, Leaving
  <1>8. Childless'
    BY DEF Childless, sched, Goto, Unlock, TypeOK, Pos, idvars, localvars,
           Preemptible, Leaving
  <1>9. Woken'
    BY DEF Woken, sched, Goto, Unlock, TypeOK, idvars, localvars, Preemptible,
           Leaving
  <1>10. Scanned'
    BY SMTT(30) DEF Scanned, sched, Goto, Unlock, TypeOK, idvars, localvars,
           Preemptible, Leaving
  <1>. QED  BY <1>1, <1>2, <1>3, <1>4, <1>5, <1>6, <1>7, <1>8, <1>9, <1>10, SMTT(30)

(* forkret and the ends of yield and sleep: the thread that runs again     *)
(* releases the p->lock that the scheduler took.                           *)
LEMMA resume_inv ==
    ASSUME ProcInv, NEW p \in Slot, resume(p)
    PROVE  ProcInv'
  <1> USE Slots DEF ProcInv
  <1>0. p \in locked /\ state[p] = "RUNNING"
    BY Zenon DEF resume, Placed, Switching, Away, Resuming, Leaving
  <1>1. TypeOK'
    BY <1>0, Zenon
       DEF TypeOK, resume, Goto, Unlock, idvars, localvars, PC, State,
           Preemptible, Resuming, Leaving
  <1>2. Single'
    BY <1>0, ZenonT(30) DEF Single, resume, Goto, Unlock, OnCPU
  <1>3. Placed'
    BY <1>0, SMTT(30)
       DEF Placed, resume, Goto, Unlock, TypeOK, OnCPU, Switching, Saved,
           Away, Preemptible, Resuming, Leaving
  <1>4. Locals'
    BY <1>0
       DEF Locals, resume, Goto, Unlock, TypeOK, Pos, Yielded, AtFirst,
           localvars, Preemptible, Resuming
  <1>5. LockHeld'
    BY <1>0, ZenonT(30)
       DEF LockHeld, resume, Goto, Unlock, TypeOK, ExitHeld, WaitHeld,
           Preemptible, Resuming
  <1>6. Forks'
    BY <1>0, SMTT(30)
       DEF Forks, Locals, resume, Goto, TypeOK, Forking, Pos, Yielded, idvars,
           localvars, Preemptible, Resuming
  <1>7. Family'
    BY <1>0, ZenonT(30)
       DEF Family, resume, Goto, Unlock, TypeOK, ExitHeld, Living, idvars,
           Forks, Forking, Preemptible, Resuming
  <1>8. Childless'
    BY <1>0, ZenonT(30)
       DEF Childless, resume, Goto, Unlock, TypeOK, Pos, idvars, localvars,
           Preemptible, Resuming
  <1>9. Woken'
    BY <1>0, SMTT(30)
       DEF Woken, resume, Goto, TypeOK, idvars, localvars, Preemptible, Resuming
  <1>10. Scanned'
    BY <1>0, SMTT(30)
       DEF Scanned, resume, Goto, Unlock, TypeOK, idvars, localvars,
           Preemptible, Resuming
  <1>. QED  BY <1>1, <1>2, <1>3, <1>4, <1>5, <1>6, <1>7, <1>8, <1>9, <1>10, ZenonT(30)

(* yield: the caller holds no lock, so a process that becomes RUNNABLE is  *)
(* not in the middle of exit or of a scan in wait.                         *)
LEMMA yield_inv ==
    ASSUME ProcInv, NEW p \in Slot, yield(p)
    PROVE  ProcInv'
  <1> USE Slots DEF ProcInv
  <1>0. p \notin locked /\ state[p] = "RUNNING" /\ Pos(p) = pc[p] /\ ret[p] = "user"
    BY Acting, Zenon DEF yield, Away, Preemptible, Resuming, Leaving
  <1>a. /\ pc'[p] = "swtch_yield" /\ pc[p] \in Preemptible
        /\ state'[p] = "RUNNABLE"
        /\ ret'[p] = IF pc[p] = "yield" THEN "user" ELSE pc[p]
        /\ \A r \in Slot \ {p} : pc'[r] = pc[r] /\ ret'[r] = ret[r] /\ state'[r] = state[r]
        /\ UNCHANGED <<chan, parent, wait_lock, i, w, havekids>>
    BY DEF yield, Goto, TypeOK, idvars, localvars
  <1>1. TypeOK'
    BY <1>0, Zenon
       DEF TypeOK, yield, Goto, Free, Lock, idvars, localvars, PC, State,
           Preemptible, Resuming, Leaving
  <1>2. Single'
    BY <1>0, ZenonT(30) DEF Single, yield, Goto, Free, Lock, OnCPU
  <1>3. Placed'
    BY <1>0, SMTT(30)
       DEF Placed, yield, Goto, Free, Lock, TypeOK, OnCPU, Switching, Saved,
           Away, Preemptible, Resuming, Leaving
  <1>4. Locals'
    BY <1>0, <1>a DEF Locals, Pos, Yielded, AtFirst, Preemptible
  <1>5. LockHeld'
    BY <1>0, ZenonT(30)
       DEF LockHeld, yield, Goto, Free, Lock, TypeOK, ExitHeld, WaitHeld,
           Preemptible
  <1>6. Forks'
    <2>1. \A r \in Slot : Forking(r)' => Forking(r) /\ Pos(r)' = Pos(r) /\ i'[r] = i[r]
      BY <1>0, <1>a, Zenon DEF Forking, Pos, Yielded
    <2>2. \A r \in Slot : state[r] = "USED" => state'[r] = "USED"
      BY <1>0, <1>a, Zenon
    <2>3. parent' = parent
      BY <1>a, Zenon
    <2>. QED  BY <2>1, <2>2, <2>3, ForksKept, ZenonT(30)
  <1>7. Family'
    BY <1>0, ZenonT(30)
       DEF Family, yield, Goto, Free, Lock, TypeOK, ExitHeld, Living, idvars,
           Forks, Forking, Preemptible
  <1>8. Childless'
    BY <1>0, ZenonT(30)
       DEF Childless, yield, Goto, Free, Lock, TypeOK, Pos, idvars, localvars,
           Preemptible
  <1>9. Woken'
    <2>1. /\ \A r \in Slot : state'[r] = "SLEEPING" =>
                 state[r] = "SLEEPING" /\ chan'[r] = chan[r]
          /\ \A r \in Slot : state'[r] = "ZOMBIE" =>
                 state[r] = "ZOMBIE" /\ parent'[r] = parent[r]
      BY <1>a, Zenon
    <2>2. /\ \A r \in Slot : pc'[r] \in {"exit_wakeup", "exit_zombie"} =>
                 pc'[r] = pc[r] /\ w'[r] = w[r] /\ parent'[r] = parent[r]
          /\ \A r \in Slot : pc[r] = "reparent_wakeup" => pc'[r] = pc[r] /\ w'[r] = w[r]
      BY <1>a, Zenon DEF Preemptible
    <2>. QED  BY <2>1, <2>2, WokenKept, ZenonT(30)
  <1>10. Scanned'
    BY <1>0, <1>a DEF Scanned, Preemptible
  <1>. QED  BY <1>1, <1>2, <1>3, <1>4, <1>5, <1>6, <1>7, <1>8, <1>9, <1>10, SMTT(30)

(* usertrap's steps take a thread that holds no lock from one such place   *)
(* to another, with its loop over the table, if any, at its start.         *)
LEMMA Traps ==
    ASSUME ProcInv, NEW p \in Slot, OnCPU(p), pc[p] \in {"user", "trap"},
           NEW l \in {"user", "yield", "fork", "exit", "wait", "kill"},
           pc' = [pc EXCEPT ![p] = l], i' = [i EXCEPT ![p] = 1],
           target' \in [Slot -> Nat], killed' \subseteq Slot,
           havekids' \in {havekids, havekids \ {p}},
           UNCHANGED <<state, chan, idvars, lockvars, ret, w>>
    PROVE  ProcInv'
  <1> USE Slots DEF ProcInv
  <1>0. p \notin locked /\ state[p] = "RUNNING" /\ Pos(p) = pc[p] /\ ret[p] = "user"
    BY Acting, Zenon DEF Away, Resuming, Leaving
  <1>t. pc \in [Slot -> PC] /\ i \in [Slot -> Slot]
    BY Zenon DEF TypeOK
  <1>p. \A r \in Slot \ {p} : pc'[r] = pc[r] /\ i'[r] = i[r] /\ Pos(r)' = Pos(r)
    BY <1>t, Zenon DEF Pos
  <1>q. pc'[p] = l /\ i'[p] = 1 /\ Pos(p)' = l
    BY <1>t, SMTT(30) DEF Pos, Yielded
  <1>1. TypeOK'
    BY <1>0, Zenon DEF TypeOK, idvars, lockvars, PC, Preemptible
  <1>2. Single'
    BY ZenonT(30) DEF Single, lockvars
  <1>3. Placed'
    BY <1>0, <1>p, <1>q, SMTT(30)
       DEF Placed, OnCPU, Switching, Saved, Away, lockvars, Resuming, Leaving
  <1>4. Locals'
    BY <1>0, <1>p, <1>q, ZenonT(30) DEF Locals, Yielded
  <1>5. LockHeld'
    BY <1>p, <1>q, ZenonT(30) DEF LockHeld, ExitHeld, WaitHeld, lockvars
  <1>6. Forks'
    BY <1>0, <1>p, <1>q, SMTT(30) DEF Forks, Forking, idvars
  <1>7. Family'
    BY <1>p, <1>q, ZenonT(30) DEF Family, ExitHeld, idvars
  <1>8. Childless'
    BY <1>p, <1>q, ZenonT(30) DEF Childless, idvars
  <1>9. Woken'
    BY <1>p, <1>q, SMTT(30) DEF Woken, idvars
  <1>10. Scanned'
    BY <1>p, <1>q DEF Scanned, idvars
  <1>. QED  BY <1>1, <1>2, <1>3, <1>4, <1>5, <1>6, <1>7, <1>8, <1>9, <1>10, ZenonT(30)

(* A thread in user space has its loop variable at the start. *)
LEMMA UserLoop ==
    ASSUME ProcInv, NEW p \in Slot, pc[p] = "user"
    PROVE  i = [i EXCEPT ![p] = 1]
  <1>1. i \in [Slot -> Slot] /\ i[p] = 1
    BY Zenon DEF ProcInv, TypeOK, Locals, Pos, Yielded, AtFirst
  <1>. QED  BY <1>1, Zenon

(* A system call or a timer interrupt begins, with the loop variables as   *)
(* usertrap left them.                                                     *)
LEMMA trap_inv ==
    ASSUME ProcInv, NEW p \in Slot, NEW k \in Nat,
           NEW l \in {"yield", "fork", "exit", "wait", "kill"}, trap(p, l, k)
    PROVE  ProcInv'
  <1>1. target' \in [Slot -> Nat] /\ killed' \subseteq Slot
    BY Zenon DEF trap, ProcInv, TypeOK
  <1>. QED  BY <1>1, Traps, UserLoop, Zenon DEF trap, At, Goto

(* usertrap, any other exception: the process marks itself killed and goes *)
(* to exit.                                                                *)
LEMMA fault_inv ==
    ASSUME ProcInv, NEW p \in Slot, fault(p)
    PROVE  ProcInv'
  <1>1. target' \in [Slot -> Nat] /\ killed' \subseteq Slot
    BY Zenon DEF fault, localvars, ProcInv, TypeOK
  <1>. QED  BY <1>1, Traps, UserLoop, Zenon DEF fault, At, Goto, localvars

(* The way back from a system call: a killed process goes to exit instead. *)
LEMMA usertrap_inv ==
    ASSUME ProcInv, NEW p \in Slot, usertrap(p)
    PROVE  ProcInv'
  <1>1. target' \in [Slot -> Nat] /\ killed' \subseteq Slot
    BY Zenon DEF usertrap, ProcInv, TypeOK
  <1>. QED  BY <1>1, Traps, Zenon DEF usertrap, At, Goto

-----------------------------------------------------------------------------
(* The lock, the state, the CPU and the saved position of every process    *)
(* fit together, wait_lock covers what wait and exit read and change, and  *)
(* every process but init has a living parent.                             *)
THEOREM ProcInductive == Spec => []ProcInv
  <1>1. ProcInv /\ [Next]_vars => ProcInv'
    <2> SUFFICES ASSUME ProcInv, [Next]_vars PROVE ProcInv'
      BY Zenon
    <2>1. ASSUME NEW p \in Slot, User(p) PROVE ProcInv'
      BY <2>1, trap_inv, fault_inv, KillPidsAssumption, Zenon
         DEF User, timer, sys_fork, sys_exit, sys_wait, sys_kill
    <2>2. ASSUME NEW p \in Slot, Kernel(p) PROVE ProcInv'
      BY <2>2, usertrap_inv, allocproc_inv, fork_parent_inv, fork_run_inv, exit_inv,
         reparent_inv, reparent_wakeup_inv, exit_wakeup_inv, exit_zombie_inv,
         wait_inv, wait_scan_inv, wait_check_inv, wait_sleep_inv, kill_inv, Zenon
         DEF Kernel
    <2>3. CASE UNCHANGED vars
      BY <2>3, ProcStutters, Zenon
    <2>. QED  BY <2>1, <2>2, <2>3, scheduler_inv, sched_inv, resume_inv,
                 yield_inv, Zenon
              DEF Next
  <1>. QED  BY <1>1, ProcInitially, PTL DEF Spec

(* scheduler, sched and yield: a process runs on one CPU at a time, its    *)
(* state tells whether one runs it, and the checks of sched never panic.   *)
THEOREM SafeSwitches == Spec => []SwitchesAreSafe
  BY SwitchesSafely, ProcInductive, PTL

(* exit, reparent and wait: whenever wait_lock is free a process has a     *)
(* parent that can wait for it, no parent sleeps beside a zombie child,    *)
(* and havekids is right when wait looks at it.                            *)
THEOREM ReliableWait == Spec => []WaitIsReliable
  BY WaitsReliably, ProcInductive, PTL

(* allocproc and freeproc: a slot is taken or freed only when no CPU is on *)
(* its kernel stack.                                                       *)
THEOREM FreedStacksAreIdle == Spec => FreedStackIsIdle
  <1>1. ProcInv /\ [Next]_vars =>
          [\A q \in Slot : state'[q] # state[q] /\ state'[q] \in {"UNUSED", "USED"} =>
               ~OnCPU(q) /\ pc[q] = "unused"]_vars
    BY FreesIdle, Zenon
  <1>. QED  BY <1>1, ProcInductive, PTL DEF Spec, FreedStackIsIdle

(* kill: if 0 is never passed to it, a process is marked only if it was    *)
(* named, or exits after a fault; the mark does not outlive the process.   *)
THEOREM KillsTheNamed ==
    ASSUME 0 \notin KillPids
    PROVE  Spec => []OnlyTheNamedAreKilled
  <1>1. Init => Named
    BY Slots DEF Init, Named, OnlyTheNamedAreKilled, Pos, Yielded
  <1>2. ProcInv /\ ProcInv' /\ Named /\ [Next]_vars => Named'
    BY NamedStep, Zenon
  <1>3. Named => OnlyTheNamedAreKilled
    BY Zenon DEF Named
  <1>. QED  BY <1>1, <1>2, <1>3, ProcInductive, PTL DEF Spec

=============================================================================
