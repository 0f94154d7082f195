------------------------------ MODULE Spinlock ------------------------------
(***************************************************************************)
(* Spinlocks and interrupts, kernel/spinlock.c: on each CPU a kernel       *)
(* thread, and on top of it the interrupt handler that kerneltrap runs,    *)
(* acquire and release locks.  The steps of acquire and release are those  *)
(* that another CPU, or an interrupt, can come between.                    *)
(***************************************************************************)
EXTENDS Integers, FiniteSets

CONSTANTS CPU, NoCPU,
          Lock       \* locks are numbers, acquired in increasing order

ASSUME SpinAssumption == Lock \subseteq Int /\ NoCPU \notin CPU

VARIABLES
    word, lkcpu,     \* lk->locked, lk->cpu
    noff, intena,    \* of struct cpu
    sie,             \* sstatus.SIE: the interrupts of a CPU are on
    base,            \* what the thread of a CPU has last set them to
    trap,            \* the CPUs that are in kerneltrap
    at, lk, old,     \* where a thread or handler is, its lk, its old
    has              \* the locks it has

cpuvars == <<noff, intena, sie, base, trap>>
slvars == <<word, lkcpu, cpuvars, at, lk, old, has>>

Ctx == CPU \X {"thread", "handler"}
Cur(c) == <<c, IF c \in trap THEN "handler" ELSE "thread">>

SpinInit ==
    /\ word = [l \in Lock |-> 0] /\ lkcpu = [l \in Lock |-> NoCPU]
    /\ noff = [c \in CPU |-> 0] /\ intena = [c \in CPU |-> FALSE]
    /\ sie \in [CPU -> BOOLEAN] /\ base = sie /\ trap = {}
    /\ at = [x \in Ctx |-> "run"] /\ has = [x \in Ctx |-> {}]
    /\ (\E l \in Lock : lk = [x \in Ctx |-> l]) /\ old = [x \in Ctx |-> FALSE]

GoesTo(x, l) == at' = [at EXCEPT ![x] = l]

holding(c, l) == word[l] = 1 /\ lkcpu[l] = c

(* acquire(l), up to the look at SIE in push_off. *)
acquire_call(c, x, l) ==
    /\ at[x] = "run" /\ \A k \in has[x] : k < l
    /\ GoesTo(x, "push")
    /\ lk' = [lk EXCEPT ![x] = l]
    /\ old' = [old EXCEPT ![x] = sie[c]]
    /\ UNCHANGED <<word, lkcpu, cpuvars, has>>

(* Variant: push_off leaves the interrupts on. *)
SIEOff_not(c) == sie[c]

SIEOff(c) == FALSE

(* Variant: every push_off saves the interrupt state. *)
Outermost_any(c) == TRUE

Outermost(c) == noff[c] = 0

(* The rest of push_off. *)
push_off(c, x) ==
    /\ at[x] = "push"
    /\ IF Outermost(c)
       THEN /\ sie' = [sie EXCEPT ![c] = SIEOff(c)]
            /\ intena' = [intena EXCEPT ![c] = old[x]]
       ELSE UNCHANGED <<sie, intena>>
    /\ noff' = [noff EXCEPT ![c] = @ + 1]
    /\ GoesTo(x, "spin")
    /\ UNCHANGED <<word, lkcpu, base, trap, lk, old, has>>

(* Variant: the word is first read, then written. *)
acquire_swap_plain(c, x) ==
    /\ \/ at[x] = "spin" /\ word[lk[x]] = 0 /\ GoesTo(x, "swap") /\ UNCHANGED word
       \/ at[x] = "swap" /\ word' = [word EXCEPT ![lk[x]] = 1] /\ GoesTo(x, "own")
    /\ UNCHANGED <<lkcpu, cpuvars, lk, old, has>>

(* The atomic swap finds the lock free. *)
acquire_swap(c, x) ==
    /\ at[x] = "spin" /\ word[lk[x]] = 0
    /\ word' = [word EXCEPT ![lk[x]] = 1]
    /\ GoesTo(x, "own")
    /\ UNCHANGED <<lkcpu, cpuvars, lk, old, has>>

acquire_done(c, x) ==
    /\ at[x] = "own"
    /\ lkcpu' = [lkcpu EXCEPT ![lk[x]] = c]
    /\ has' = [has EXCEPT ![x] = @ \cup {lk[x]}]
    /\ GoesTo(x, "run")
    /\ UNCHANGED <<word, cpuvars, lk, old>>

(* release(l): it checks that it holds the lock, clears lk->cpu, and only  *)
(* then lets others have it.                                               *)
release_call(c, x, l) ==
    /\ at[x] = "run" /\ l \in has[x]
    /\ GoesTo(x, "clear")
    /\ lk' = [lk EXCEPT ![x] = l]
    /\ UNCHANGED <<word, lkcpu, cpuvars, old, has>>

release_clear(c, x) ==
    /\ at[x] = "clear"
    /\ lkcpu' = [lkcpu EXCEPT ![lk[x]] = NoCPU]
    /\ GoesTo(x, "unlock")
    /\ UNCHANGED <<word, cpuvars, lk, old, has>>

release_unlock(c, x) ==
    /\ at[x] = "unlock"
    /\ word' = [word EXCEPT ![lk[x]] = 0]
    /\ has' = [has EXCEPT ![x] = @ \ {lk[x]}]
    /\ GoesTo(x, "pop")
    /\ UNCHANGED <<lkcpu, cpuvars, lk, old>>

pop_off(c, x) ==
    /\ at[x] = "pop"
    /\ noff' = [noff EXCEPT ![c] = @ - 1]
    /\ sie' = [sie EXCEPT ![c] = @ \/ (noff[c] = 1 /\ intena[c])]
    /\ GoesTo(x, "run")
    /\ UNCHANGED <<word, lkcpu, intena, base, trap, lk, old, has>>

(* An interrupt, kerneltrap, and its return, which sets SIE again. *)
kerneltrap(c) ==
    /\ sie[c]
    /\ sie' = [sie EXCEPT ![c] = FALSE]
    /\ trap' = trap \cup {c}
    /\ UNCHANGED <<word, lkcpu, noff, intena, base, at, lk, old, has>>

kerneltrap_return(c) ==
    /\ c \in trap /\ at[Cur(c)] = "run" /\ has[Cur(c)] = {}
    /\ trap' = trap \ {c}
    /\ sie' = [sie EXCEPT ![c] = TRUE]
    /\ UNCHANGED <<word, lkcpu, noff, intena, base, at, lk, old, has>>

(* The thread itself turns interrupts on or off: intr_on, intr_off. *)
intr_set(c) ==
    /\ c \notin trap /\ at[Cur(c)] = "run" /\ has[Cur(c)] = {}
    /\ sie' = [sie EXCEPT ![c] = ~@] /\ base' = [base EXCEPT ![c] = ~@]
    /\ UNCHANGED <<word, lkcpu, noff, intena, trap, at, lk, old, has>>

SpinStep(c, x) ==
    \/ \E l \in Lock : acquire_call(c, x, l) \/ release_call(c, x, l)
    \/ push_off(c, x) \/ acquire_swap(c, x) \/ acquire_done(c, x)
    \/ release_clear(c, x) \/ release_unlock(c, x) \/ pop_off(c, x)

SpinNext == \E c \in CPU : \/ SpinStep(c, Cur(c))
                           \/ kerneltrap(c) \/ kerneltrap_return(c) \/ intr_set(c)

SpinSpec == SpinInit /\ [][SpinNext]_slvars

-----------------------------------------------------------------------------
(* No two threads or handlers, on one CPU or on two, have a lock at once. *)
MutualExclusion == \A x, y \in Ctx : x # y => has[x] \cap has[y] = {}

(* The panics of spinlock.c never happen: a CPU that is about to wait for  *)
(* a lock does not hold it, as it would if a handler could interrupt a     *)
(* thread that has it; one that releases a lock is seen to hold it; and    *)
(* pop_off finds interrupts off and a push_off to undo.                    *)
NeverPanics ==
    \A c \in CPU : LET x == Cur(c) IN
        /\ at[x] = "spin" => ~holding(c, lk[x])
        /\ at[x] = "clear" => holding(c, lk[x])
        /\ at[x] = "pop" => ~sie[c] /\ noff[c] >= 1

(* Once all its locks are released, interrupts are as the thread had set   *)
(* them, through nested locks and the handler's use of noff and intena.    *)
InterruptsRestored ==
    \A c \in CPU : c \notin trap /\ at[Cur(c)] = "run" /\ has[Cur(c)] = {} =>
        sie[c] = base[c] /\ noff[c] = 0
=============================================================================
