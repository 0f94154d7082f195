-------------------------------- MODULE Clock -------------------------------
(***************************************************************************)
(* The clock: clockintr of kernel/trap.c, which every CPU gets and the     *)
(* first one counts, and sys_sleep of kernel/sysproc.c.  A section under   *)
(* tickslock is one action.                                                *)
(***************************************************************************)
EXTENDS Integers

CONSTANTS Sleeper,
          Naps,         \* the n of sleep; with n <= 0 it returns at once
          TUINT,        \* 2^32: ticks wraps
          TKillable,    \* the processes that may be killed
          MaxTicks      \* bound on the history variable elapsed

ASSUME ClockAssumption ==
    /\ TUINT \in Nat \ {0} /\ MaxTicks \in Nat
    /\ Naps \subseteq 1 .. TUINT - 1 /\ Naps \subseteq 1 .. MaxTicks

VARIABLES
    ticks,
    nap,         \* the n of a process, 0 outside of sleep
    ticks0,
    tchan,       \* a process sleeps on &ticks
    tkilled,
    elapsed      \* history: the ticks since the call

clkvars == <<ticks, nap, ticks0, tchan, tkilled, elapsed>>

ClockInit ==
    /\ ticks = 0
    /\ nap = [p \in Sleeper |-> 0] /\ ticks0 = [p \in Sleeper |-> 0]
    /\ tchan = [p \in Sleeper |-> FALSE] /\ tkilled = {}
    /\ elapsed = [p \in Sleeper |-> 0]

(* sys_sleep, up to the first sleep; a killed process has no next call. *)
sys_sleep(p, n) ==
    /\ nap[p] = 0 /\ p \notin tkilled
    /\ nap' = [nap EXCEPT ![p] = n]
    /\ ticks0' = [ticks0 EXCEPT ![p] = ticks]
    /\ tchan' = [tchan EXCEPT ![p] = TRUE]
    /\ elapsed' = [elapsed EXCEPT ![p] = 0]
    /\ UNCHANGED <<ticks, tkilled>>

(* Variant: compare with the time of the end. *)
Expired_end(p) == ticks >= (ticks0[p] + nap[p]) % TUINT

Expired(p) == (ticks - ticks0[p]) % TUINT >= nap[p]

(* sys_sleep: the process runs again.  It returns 0, or -1, or sleeps on. *)
sleep_return(p) ==
    /\ nap[p] > 0 /\ ~tchan[p]
    /\ Expired(p) \/ p \in tkilled
    /\ nap' = [nap EXCEPT ![p] = 0]
    /\ UNCHANGED <<ticks, ticks0, tchan, tkilled, elapsed>>

sleep_on(p) ==
    /\ nap[p] > 0 /\ ~tchan[p]
    /\ ~Expired(p) /\ p \notin tkilled
    /\ tchan' = [tchan EXCEPT ![p] = TRUE]
    /\ UNCHANGED <<ticks, nap, ticks0, tkilled, elapsed>>

(* Variant: the clock wakes nobody. *)
TickWakes_not == tchan

TickWakes == [p \in Sleeper |-> FALSE]

(* clockintr, on CPU 0. *)
clockintr ==
    /\ ticks' = (ticks + 1) % TUINT
    /\ tchan' = TickWakes
    /\ elapsed' = [p \in Sleeper |-> IF elapsed[p] < MaxTicks THEN elapsed[p] + 1
                                     ELSE elapsed[p]]
    /\ UNCHANGED <<nap, ticks0, tkilled>>

ClockKill(p) ==
    /\ p \in TKillable \ tkilled
    /\ tkilled' = tkilled \cup {p}
    /\ tchan' = [tchan EXCEPT ![p] = FALSE]
    /\ UNCHANGED <<ticks, nap, ticks0, elapsed>>

ClockNext ==
    \/ clockintr
    \/ \E p \in Sleeper : \/ sleep_return(p) \/ sleep_on(p) \/ ClockKill(p)
                          \/ \E n \in Naps : sys_sleep(p, n)

ClockSpec == ClockInit /\ [][ClockNext]_clkvars

-----------------------------------------------------------------------------
(* sleep(n) returns no sooner than n ticks later, unless the process is    *)
(* killed, also when ticks wraps in between.                               *)
SleepsLongEnough ==
    [][\A p \in Sleeper : nap[p] > 0 /\ nap'[p] = 0 /\ p \notin tkilled =>
            elapsed[p] >= nap[p]]_clkvars

(* sleep(n) returns. *)
SleepersReturn == \A p \in Sleeper : nap[p] > 0 ~> nap[p] = 0
=============================================================================
