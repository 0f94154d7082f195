------------------------------- MODULE MCLive -------------------------------
(***************************************************************************)
(* What must eventually happen in a pipe, the disk driver, the console,    *)
(* the clock and the shell, under the fairness of each.  They have no      *)
(* state in common; each behaviour is one of theirs (part says which), and *)
(* the others stay as they were at first.  The same names stand for the    *)
(* threads of all of them, so that a fairness condition is about a thread. *)
(***************************************************************************)
EXTENDS Pipe, VirtioDisk, Console, Clock, Shell

VARIABLE part

(* A key is typed while a process writes; two processes write. *)
LiveBudgets == {[keys |-> 1, reads |-> 1, writes |-> 1],
                [keys |-> 0, reads |-> 0, writes |-> 2]}

-----------------------------------------------------------------------------
(* Command lines. *)
cat == [type |-> "EXEC", reads |-> TRUE]
echo == [type |-> "EXEC", reads |-> FALSE]
PipeCmd(a, b) == [type |-> "PIPE", left |-> a, right |-> b]
Redir(fd, c) == [type |-> "REDIR", fd |-> fd, cmd |-> c]
List(a, b) == [type |-> "LIST", left |-> a, right |-> b]
Back(c) == [type |-> "BACK", cmd |-> c]

(* echo | cat > f;  cat < f & ; echo;  echo | cat | cat.                    *)
MCCommands ==
    {PipeCmd(echo, Redir(1, cat)),
     List(Back(Redir(0, cat)), echo),
     PipeCmd(echo, PipeCmd(cat, cat))}

-----------------------------------------------------------------------------
livevars == <<part, pvars, vvars, convars, clkvars, shvars>>

LiveInit ==
    /\ part \in {"pipe", "virtio", "console", "clock", "shell"}
    /\ PipeInit /\ VirtioInit /\ ConsoleInit /\ ClockInit /\ ShellInit
    /\ part # "console" => budget = CHOOSE m \in Budgets : TRUE
    /\ part # "pipe" => \A j \in DOMAIN pipedata, t \in Reader :
                           pipedata[j] = ch[t] /\ ch[t] = CHOOSE c \in Byte : TRUE

(* A step of one part. *)
OfPipe(A) == part = "pipe" /\ A /\ UNCHANGED <<part, vvars, convars, clkvars, shvars>>
OfVirtio(A) == part = "virtio" /\ A /\ UNCHANGED <<part, pvars, convars, clkvars, shvars>>
OfConsole(A) == part = "console" /\ A /\ UNCHANGED <<part, pvars, vvars, clkvars, shvars>>
OfClock(A) == part = "clock" /\ A /\ UNCHANGED <<part, pvars, vvars, convars, shvars>>
OfShell(A) == part = "shell" /\ A /\ UNCHANGED <<part, pvars, vvars, convars, clkvars>>

LiveNext ==
    \/ OfPipe(PipeNext) \/ OfVirtio(VirtioNext) \/ OfConsole(ConsoleNext)
    \/ OfClock(ClockNext) \/ OfShell(ShellNext)

-----------------------------------------------------------------------------
(* A thread that can go on in the kernel again and again, because it has   *)
(* been woken or the lock it spins for is free, does: the scheduler and    *)
(* the timer see to that.                                                  *)
Thread == Process \cup IOProc \cup CProc \cup Sleeper

Advances(t) ==
    \/ OfPipe(t \in Process /\ Step(t))
    \/ OfVirtio(t \in IOProc /\ finish(t))
    \/ OfConsole(t \in CProc /\ ConStep(t))
    \/ OfClock(t \in Sleeper /\ sleep_return(t))

(* An interrupt that is raised again and again is taken, and the echo,     *)
(* which polls, sees the UART idle if it often is.                         *)
Interrupts == OfVirtio(intr_start) \/ OfConsole(Interrupt)
Polls == OfConsole(uartputc_sync)

(* A handler goes on to its end, and the devices do what they are asked:   *)
(* the disk takes and completes every request, the UART sends, and the     *)
(* clock ticks.  The programs of the shell run.                            *)
Handles == OfVirtio(intr_one \/ intr_end) \/ OfConsole(TxStep) \/ OfClock(clockintr)
Devices == OfVirtio(dev_take) \/ OfConsole(Transmit)
Serves(k) ==
    \/ OfVirtio(k \in Desc /\ dev_complete(k))
    \/ OfShell(k \in FProc /\ ShellStep(k))

(* The readers of a pipe go on reading until they close it. *)
Reads(t) == OfPipe(pipe_close(t) \/ \E m \in Sizes : pipecall(t, m))

LiveSpec ==
    /\ LiveInit /\ [][LiveNext]_livevars
    /\ \A t \in Thread : SF_livevars(Advances(t))
    /\ SF_livevars(Interrupts) /\ SF_livevars(Polls)
    /\ WF_livevars(Handles) /\ WF_livevars(Devices)
    /\ \A k \in Desc \cup FProc : WF_livevars(Serves(k))
    /\ \A t \in Reader : WF_livevars(Reads(t))

(* A system call that may sleep returns: a pipewrite while the readers     *)
(* read on, a disk request, a console read or write, and sys_sleep.        *)
CallsReturn == WritesEnd /\ RequestsReturn /\ ConsoleCallsEnd /\ SleepersReturn
=============================================================================
