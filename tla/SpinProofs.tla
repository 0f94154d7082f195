----------------------------- MODULE SpinProofs -----------------------------
(***************************************************************************)
(* Proofs about Spinlock for any number of CPUs and locks: the lock is     *)
(* exclusive, the panics of spinlock.c do not happen, and interrupts come  *)
(* back as they were.  All three follow from the inductive invariant       *)
(* SpinInv.  At the end, about Clock, that sys_sleep sleeps long enough.   *)
(***************************************************************************)
EXTENDS Spinlock, Clock, TLAPS, FiniteSetTheorems

(* The two contexts of a CPU: the thread it runs and the interrupt handler. *)
T(c) == <<c, "thread">>
H(c) == <<c, "handler">>

(* The words, flags, counters and positions have their types. *)
SpinTypeOK ==
    /\ word \in [Lock -> {0, 1}] /\ lkcpu \in [Lock -> CPU \cup {NoCPU}]
    /\ noff \in [CPU -> Nat] /\ intena \in [CPU -> BOOLEAN]
    /\ sie \in [CPU -> BOOLEAN] /\ base \in [CPU -> BOOLEAN]
    /\ trap \subseteq CPU
    /\ at \in [Ctx -> {"run", "push", "spin", "own", "clear", "unlock", "pop"}]
    /\ lk \in [Ctx -> Lock] /\ old \in [Ctx -> BOOLEAN]
    /\ has \in [Ctx -> SUBSET Lock]

(* x has lock l, or has just swapped 1 into its word. *)
Owns(x, l) == l \in has[x] \/ (at[x] = "own" /\ lk[x] = l)

(* x has lock l but has already cleared lk->cpu. *)
Leaves(x, l) == at[x] = "unlock" /\ lk[x] = l

(* A lock has at most one owner, and its word says so. *)
Exclusive ==
    \A x \in Ctx, l \in Lock : Owns(x, l) =>
        word[l] = 1 /\ \A y \in Ctx : Owns(y, l) => x = y

(* lk->cpu names the CPU of the owner between acquire and release, and     *)
(* nobody else.                                                            *)
Marked == \A x \in Ctx : \A l \in has[x] : lkcpu[l] = x[1] \/ Leaves(x, l)
OnlyMarked ==
    \A l \in Lock : lkcpu[l] # NoCPU =>
        \E x \in Ctx : x[1] = lkcpu[l] /\ l \in has[x] /\ ~Leaves(x, l)

(* Locks are taken in order, and only locks one has are released. *)
Ordered ==
    \A x \in Ctx :
        /\ at[x] \in {"push", "spin", "own"} => \A k \in has[x] : k < lk[x]
        /\ at[x] \in {"clear", "unlock"} => lk[x] \in has[x]

(* Whichever of thread and handler does not run has no lock: an interrupt  *)
(* comes at a moment when the thread has none.                             *)
Quiet ==
    \A c \in CPU :
        /\ c \notin trap => at[H(c)] = "run" /\ has[H(c)] = {}
        /\ c \in trap => at[T(c)] \in {"run", "push"} /\ has[T(c)] = {}

(* noff counts the locks that the one that runs has or is about to have. *)
Between == {"spin", "own", "pop"}
Counted ==
    /\ \A x \in Ctx : IsFiniteSet(has[x])
    /\ \A c \in CPU : noff[c] = Cardinality(has[Cur(c)])
                                 + (IF at[Cur(c)] \in Between THEN 1 ELSE 0)

(* While noff is positive interrupts are off and intena says what they     *)
(* were; old says so between the look at SIE and push_off.                 *)
Masked ==
    \A c \in CPU :
        /\ c \in trap => ~sie[c] /\ base[c] /\ (noff[c] > 0 => ~intena[c])
        /\ c \notin trap /\ noff[c] = 0 => sie[c] = base[c]
        /\ c \notin trap /\ noff[c] > 0 => ~sie[c] /\ intena[c] = base[c]
        /\ at[T(c)] = "push" /\ has[T(c)] = {} => old[T(c)] = base[c]
        /\ at[H(c)] = "push" => ~old[H(c)]

SpinInv == /\ SpinTypeOK /\ Exclusive /\ Marked /\ OnlyMarked /\ Ordered
           /\ Quiet /\ Counted /\ Masked

-----------------------------------------------------------------------------
(* A context is the thread or the handler of its CPU. *)
LEMMA Contexts ==
    /\ \A c \in CPU : /\ T(c) \in Ctx /\ T(c)[1] = c
                      /\ H(c) \in Ctx /\ H(c)[1] = c /\ T(c) # H(c)
                      /\ Cur(c) = IF c \in trap THEN H(c) ELSE T(c)
    /\ \A x \in Ctx : x[1] \in CPU /\ (x = T(x[1]) \/ x = H(x[1]))
  BY DEF Ctx, T, H, Cur

(* The one that runs on a CPU is a context of that CPU, and only that one  *)
(* can have a lock.                                                        *)
LEMMA Running ==
    ASSUME NEW c \in CPU
    PROVE  /\ Cur(c) \in Ctx /\ Cur(c)[1] = c
           /\ \A d \in CPU : d # c => Cur(d) # Cur(c)
           /\ Quiet => \A y \in Ctx : y[1] = c /\ y # Cur(c) =>
                           has[y] = {} /\ at[y] \in {"run", "push"}
  BY Contexts DEF Quiet

(* With no lock and no call between its halves a CPU has noff 0, and with  *)
(* noff 0 it has none.                                                     *)
LEMMA Zero ==
    ASSUME SpinTypeOK, Counted, NEW c \in CPU
    PROVE  noff[c] = 0 <=> has[Cur(c)] = {} /\ at[Cur(c)] \notin Between
  <1>1. Cardinality(has[Cur(c)]) \in Nat
          /\ (Cardinality(has[Cur(c)]) = 0 <=> has[Cur(c)] = {})
    BY Running, FS_CardinalityType, FS_EmptySet, Zenon DEF Counted
  <1>. QED  BY <1>1 DEF Counted

(* A step that leaves a CPU's interrupt state alone, and brings nobody to  *)
(* push_off, leaves the relation between that state and base.              *)
LEMMA MaskedKept ==
    ASSUME Masked, UNCHANGED <<cpuvars, old>>,
           \A y \in Ctx : at'[y] = "push" => at[y] = "push" /\ has'[y] = has[y]
    PROVE  Masked'
  <1>1. \A c \in CPU : T(c) \in Ctx /\ H(c) \in Ctx
    BY Contexts, Zenon
  <1>. QED  BY <1>1, Zenon DEF Masked, cpuvars

(* initlock and the boot: no lock is held, and no CPU has masked its       *)
(* interrupts on account of one.                                           *)
LEMMA SpinInitially == SpinInit => SpinInv
  <1> SUFFICES ASSUME SpinInit PROVE SpinInv
    BY Zenon
  <1>1. SpinTypeOK
    BY SpinAssumption, Zenon DEF SpinInit, SpinTypeOK
  <1>2. Exclusive /\ Marked /\ OnlyMarked /\ Ordered
    BY Zenon DEF SpinInit, Exclusive, Marked, OnlyMarked, Ordered, Owns
  <1>3. Quiet
    BY Contexts, Zenon DEF SpinInit, Quiet
  <1>5. Masked
    <2> SUFFICES ASSUME NEW c \in CPU
                 PROVE  /\ c \notin trap /\ noff[c] = 0 /\ sie[c] = base[c]
                        /\ at[T(c)] = "run" /\ at[H(c)] = "run"
      BY DEF Masked
    <2>. QED  BY Contexts, Zenon DEF SpinInit
  <1>4. Counted
    BY Contexts, FS_EmptySet DEF SpinInit, Counted, Between
  <1>. QED  BY <1>1, <1>2, <1>3, <1>4, <1>5, Zenon DEF SpinInv

-----------------------------------------------------------------------------
(* acquire begins: the thread that calls it has looked at SIE but has not  *)
(* turned it off, so old is what its interrupts are.                       *)
LEMMA acquire_call_inv ==
    ASSUME SpinInv, NEW c \in CPU, NEW x, x = Cur(c), NEW l \in Lock,
           acquire_call(c, x, l)
    PROVE  SpinInv'
  <1> USE SpinAssumption DEF SpinInv
  <1>0. x \in Ctx /\ x[1] = c /\ (\A d \in CPU : Cur(d)' = Cur(d))
          /\ \A d \in CPU : d # c => Cur(d) # x
    BY Running, Zenon DEF Cur, acquire_call, cpuvars
  <1>1. SpinTypeOK'
    BY <1>0, Zenon DEF SpinTypeOK, acquire_call, GoesTo, cpuvars
  <1>2. Exclusive'
    BY <1>0 DEF SpinTypeOK, Exclusive, Owns, acquire_call, GoesTo
  <1>3. Marked'
    BY <1>0, ZenonT(30) DEF SpinTypeOK, Marked, Leaves, acquire_call, GoesTo
  <1>4. OnlyMarked'
    BY <1>0, Zenon DEF SpinTypeOK, OnlyMarked, Leaves, acquire_call, GoesTo
  <1>5. Ordered'
    BY <1>0, Zenon DEF SpinTypeOK, Ordered, acquire_call, GoesTo
  <1>6. Quiet'
    BY <1>0, Contexts DEF SpinTypeOK, Quiet, acquire_call, GoesTo, cpuvars
  <1>7. Counted'
    BY <1>0, Running
       DEF SpinTypeOK, Counted, Between, acquire_call, GoesTo, cpuvars
  <1>8. Masked'
    <2> SUFFICES ASSUME NEW d \in CPU
                 PROVE  /\ d \in trap' => ~sie'[d] /\ base'[d]
                             /\ (noff'[d] > 0 => ~intena'[d])
                        /\ d \notin trap' /\ noff'[d] = 0 => sie'[d] = base'[d]
                        /\ d \notin trap' /\ noff'[d] > 0 => ~sie'[d]
                             /\ intena'[d] = base'[d]
                        /\ at'[T(d)] = "push" /\ has'[T(d)] = {}
                             => old'[T(d)] = base'[d]
                        /\ at'[H(d)] = "push" => ~old'[H(d)]
      BY Zenon DEF Masked, T, H
    <2>1. T(d) \in Ctx /\ H(d) \in Ctx /\ T(d) # H(d)
            /\ x = IF c \in trap THEN H(c) ELSE T(c)
      BY Contexts, Zenon
    <2>2. d # c => x # T(d) /\ x # H(d)
      BY <1>0, Contexts, Zenon
    <2>3. CASE d # c
      BY <1>0, <2>1, <2>2, <2>3, Zenon
         DEF SpinTypeOK, Masked, acquire_call, GoesTo, cpuvars
    <2>4. CASE d = c
      <3>1. noff[c] = 0 <=> has[x] = {} /\ at[x] \notin Between
        BY Zero, Zenon
      <3>2. noff[c] \in Nat /\ sie[c] \in BOOLEAN
              /\ intena[c] \in BOOLEAN /\ base[c] \in BOOLEAN
        BY Zenon DEF SpinTypeOK
      <3>3. CASE c \in trap
        BY <1>0, <2>1, <2>4, <3>1, <3>2, <3>3
           DEF SpinTypeOK, Masked, Between, acquire_call, GoesTo, cpuvars
      <3>4. CASE c \notin trap
        BY <1>0, <2>1, <2>4, <3>1, <3>2, <3>4, Zenon
           DEF SpinTypeOK, Masked, Between, acquire_call, GoesTo, cpuvars
      <3>. QED  BY <3>3, <3>4, Zenon
    <2>. QED  BY <2>3, <2>4, Zenon
  <1>. QED  BY <1>1, <1>2, <1>3, <1>4, <1>5, <1>6, <1>7, <1>8

(* release begins: only a lock that the caller has is released, so         *)
(* holding(lk) is true.                                                    *)
LEMMA release_call_inv ==
    ASSUME SpinInv, NEW c \in CPU, NEW x, x = Cur(c), NEW l \in Lock,
           release_call(c, x, l)
    PROVE  SpinInv'
  <1> USE SpinAssumption DEF SpinInv
  <1>0. x \in Ctx /\ x[1] = c /\ (\A d \in CPU : Cur(d)' = Cur(d))
          /\ \A d \in CPU : d # c => Cur(d) # x
    BY Running, Zenon DEF Cur, release_call, cpuvars
  <1>1. SpinTypeOK'
    BY <1>0, Zenon DEF SpinTypeOK, release_call, GoesTo, cpuvars
  <1>2. Exclusive'
    BY <1>0 DEF SpinTypeOK, Exclusive, Owns, release_call, GoesTo
  <1>3. Marked'
    BY <1>0, ZenonT(30) DEF SpinTypeOK, Marked, Leaves, release_call, GoesTo
  <1>4. OnlyMarked'
    BY <1>0, Zenon DEF SpinTypeOK, OnlyMarked, Leaves, release_call, GoesTo
  <1>5. Ordered'
    BY <1>0, Zenon DEF SpinTypeOK, Ordered, release_call, GoesTo
  <1>6. Quiet'
    BY <1>0, Contexts, Zenon DEF SpinTypeOK, Quiet, release_call, GoesTo, cpuvars
  <1>7. Counted'
    BY <1>0, Running
       DEF SpinTypeOK, Counted, Between, release_call, GoesTo, cpuvars
  <1>8. Masked'
    <2>1. \A y \in Ctx : at'[y] = "push" => at[y] = "push" /\ has'[y] = has[y]
      BY <1>0, Zenon DEF SpinTypeOK, release_call, GoesTo
    <2>. QED  BY <2>1, MaskedKept, Zenon DEF release_call
  <1>. QED  BY <1>1, <1>2, <1>3, <1>4, <1>5, <1>6, <1>7, <1>8, ZenonT(30)

(* push_off: interrupts go off, and the outermost call alone records in    *)
(* intena what they were.                                                  *)
LEMMA push_off_inv ==
    ASSUME SpinInv, NEW c \in CPU, NEW x, x = Cur(c), push_off(c, x)
    PROVE  SpinInv'
  <1> USE SpinAssumption DEF SpinInv
  <1>0. x \in Ctx /\ x[1] = c /\ (\A d \in CPU : Cur(d)' = Cur(d))
          /\ \A d \in CPU : d # c => Cur(d) # x
    BY Running, Zenon DEF Cur, push_off, cpuvars
  <1>1. SpinTypeOK'
    <2>1. sie' \in [CPU -> BOOLEAN] /\ intena' \in [CPU -> BOOLEAN]
      <3>1. old[x] \in BOOLEAN
        BY <1>0, Zenon DEF SpinTypeOK
      <3>. QED  BY <3>1, Zenon DEF SpinTypeOK, push_off, SIEOff
    <2>2. noff' \in [CPU -> Nat]
      BY DEF SpinTypeOK, push_off
    <2>3. at' \in [Ctx -> {"run", "push", "spin", "own", "clear", "unlock",
            "pop"}]
      BY <1>0, Zenon DEF SpinTypeOK, push_off, GoesTo
    <2>4. UNCHANGED <<word, lkcpu, base, trap, lk, old, has>>
      BY Zenon DEF push_off
    <2>. QED  BY <2>1, <2>2, <2>3, <2>4, Zenon DEF SpinTypeOK
  <1>2. Exclusive'
    BY <1>0 DEF SpinTypeOK, Exclusive, Owns, push_off, Outermost, SIEOff, GoesTo
  <1>3. Marked'
    BY <1>0, ZenonT(30) DEF SpinTypeOK, Marked, Leaves, push_off, Outermost, SIEOff,
       GoesTo
  <1>4. OnlyMarked'
    BY <1>0, Zenon
      DEF SpinTypeOK, OnlyMarked, Leaves, push_off, Outermost, SIEOff, GoesTo
  <1>5. Ordered'
    BY <1>0, Zenon DEF SpinTypeOK, Ordered, push_off, Outermost, SIEOff, GoesTo
  <1>6. Quiet'
    BY <1>0, Contexts
       DEF SpinTypeOK, Quiet, push_off, Outermost, SIEOff, GoesTo, cpuvars
  <1>7. Counted'
    <2>1. ASSUME NEW y \in Ctx PROVE IsFiniteSet(has'[y])
      BY <2>1, Zenon DEF Counted, push_off
    <2>2. ASSUME NEW d \in CPU, d # c
          PROVE  has'[Cur(d)] = has[Cur(d)] /\ at'[Cur(d)] = at[Cur(d)]
                   /\ noff'[d] = noff[d]
      BY <1>0, <2>2, Running DEF SpinTypeOK, push_off, GoesTo, cpuvars
    <2>3. noff'[c] = Cardinality(has'[x]) + (IF at'[x] \in Between THEN 1 ELSE 0)
      <3>1. Cardinality(has[x]) \in Nat
        BY <1>0, FS_CardinalityType, SMTT(30) DEF Counted
      <3>. QED  BY <1>0, <3>1 DEF SpinTypeOK, Counted, Between, push_off, GoesTo
    <2>. QED  BY <1>0, <2>1, <2>2, <2>3 DEF Counted
  <1>8. Masked'
    <2> SUFFICES ASSUME NEW d \in CPU
                 PROVE  /\ d \in trap' => ~sie'[d] /\ base'[d]
                             /\ (noff'[d] > 0 => ~intena'[d])
                        /\ d \notin trap' /\ noff'[d] = 0 => sie'[d] = base'[d]
                        /\ d \notin trap' /\ noff'[d] > 0 => ~sie'[d]
                             /\ intena'[d] = base'[d]
                        /\ at'[T(d)] = "push" /\ has'[T(d)] = {}
                             => old'[T(d)] = base'[d]
                        /\ at'[H(d)] = "push" => ~old'[H(d)]
      BY Zenon DEF Masked, T, H
    <2>1. T(d) \in Ctx /\ H(d) \in Ctx /\ T(d) # H(d)
            /\ x = IF c \in trap THEN H(c) ELSE T(c)
      BY Contexts, Zenon
    <2>2. d # c => x # T(d) /\ x # H(d)
      BY <1>0, Contexts, Zenon
    <2>3. CASE d # c
      BY <1>0, <2>1, <2>2, <2>3
         DEF SpinTypeOK, Masked, push_off, GoesTo, cpuvars, Outermost, SIEOff
    <2>4. CASE d = c
      <3>1. noff[c] = 0 <=> has[x] = {} /\ at[x] \notin Between
        BY Zero, Zenon
      <3>2. noff[c] \in Nat /\ sie[c] \in BOOLEAN
              /\ intena[c] \in BOOLEAN /\ base[c] \in BOOLEAN
        BY Zenon DEF SpinTypeOK
      <3>3. CASE c \in trap
        BY <1>0, <2>1, <2>4, <3>1, <3>2, <3>3, SMTT(30)
           DEF SpinTypeOK, Masked, Between, push_off, GoesTo, cpuvars,
               Outermost, SIEOff
      <3>4. CASE c \notin trap
        BY <1>0, <2>1, <2>4, <3>1, <3>2, <3>4, SMTT(30)
           DEF SpinTypeOK, Masked, Between, push_off, GoesTo, cpuvars,
               Outermost, SIEOff
      <3>. QED  BY <3>3, <3>4, Zenon
    <2>. QED  BY <2>3, <2>4, Zenon
  <1>. QED  BY <1>1, <1>2, <1>3, <1>4, <1>5, <1>6, <1>7, <1>8

(* acquire, amoswap: whoever finds 0 in the word becomes the only owner;   *)
(* whoever finds 1 goes on spinning.                                       *)
LEMMA acquire_swap_inv ==
    ASSUME SpinInv, NEW c \in CPU, NEW x, x = Cur(c), acquire_swap(c, x)
    PROVE  SpinInv'
  <1> USE SpinAssumption DEF SpinInv
  <1>0. x \in Ctx /\ x[1] = c /\ (\A d \in CPU : Cur(d)' = Cur(d))
          /\ \A d \in CPU : d # c => Cur(d) # x
    BY Running, Zenon DEF Cur, acquire_swap, cpuvars
  <1>1. SpinTypeOK'
    BY <1>0, Zenon DEF SpinTypeOK, acquire_swap, GoesTo, cpuvars
  <1>2. Exclusive'
    BY <1>0 DEF SpinTypeOK, Exclusive, Owns, acquire_swap, GoesTo
  <1>3. Marked'
    BY <1>0, ZenonT(30) DEF SpinTypeOK, Marked, Leaves, acquire_swap, GoesTo
  <1>4. OnlyMarked'
    BY <1>0, Zenon DEF SpinTypeOK, OnlyMarked, Leaves, acquire_swap, GoesTo
  <1>5. Ordered'
    BY <1>0, Zenon DEF SpinTypeOK, Ordered, acquire_swap, GoesTo
  <1>6. Quiet'
    BY <1>0, Contexts DEF SpinTypeOK, Quiet, acquire_swap, GoesTo, cpuvars
  <1>7. Counted'
    BY <1>0, Running
       DEF SpinTypeOK, Counted, Between, acquire_swap, GoesTo, cpuvars
  <1>8. Masked'
    <2>1. \A y \in Ctx : at'[y] = "push" => at[y] = "push" /\ has'[y] = has[y]
      BY <1>0, ZenonT(30) DEF SpinTypeOK, acquire_swap, GoesTo
    <2>. QED  BY <2>1, MaskedKept, Zenon DEF acquire_swap
  <1>. QED  BY <1>1, <1>2, <1>3, <1>4, <1>5, <1>6, <1>7, <1>8, ZenonT(30)

(* acquire, lk->cpu = mycpu(): the mark follows the swap, and noff counts  *)
(* one more lock that the caller has.                                      *)
LEMMA acquire_done_inv ==
    ASSUME SpinInv, NEW c \in CPU, NEW x, x = Cur(c), acquire_done(c, x)
    PROVE  SpinInv'
  <1> USE SpinAssumption DEF SpinInv
  <1>0. x \in Ctx /\ x[1] = c /\ (\A d \in CPU : Cur(d)' = Cur(d))
          /\ \A d \in CPU : d # c => Cur(d) # x
    BY Running, Zenon DEF Cur, acquire_done, cpuvars
  <1>1. SpinTypeOK'
    BY <1>0 DEF SpinTypeOK, acquire_done, GoesTo, cpuvars
  <1>2. Exclusive'
    BY <1>0 DEF SpinTypeOK, Exclusive, Owns, acquire_done, GoesTo
  <1>3. Marked'
    <2>1. lk[x] \in Lock /\ \A y \in Ctx : lk[x] \in has[y] => y = x
      BY <1>0, Zenon DEF SpinTypeOK, Exclusive, Owns, acquire_done
    <2>. QED  BY <1>0, <2>1 DEF SpinTypeOK, Marked, Leaves, acquire_done, GoesTo
  <1>4. OnlyMarked'
    BY <1>0 DEF SpinTypeOK, OnlyMarked, Leaves, acquire_done, GoesTo
  <1>5. Ordered'
    BY <1>0, Zenon DEF SpinTypeOK, Ordered, acquire_done, GoesTo
  <1>6. Quiet'
    BY <1>0, Contexts DEF SpinTypeOK, Quiet, acquire_done, GoesTo, cpuvars
  <1>7. Counted'
    <2>1. ASSUME NEW y \in Ctx PROVE IsFiniteSet(has'[y])
      BY <1>0, <2>1, FS_AddElement, ZenonT(30) DEF SpinTypeOK, Counted, acquire_done
    <2>2. ASSUME NEW d \in CPU, d # c
          PROVE  has'[Cur(d)] = has[Cur(d)] /\ at'[Cur(d)] = at[Cur(d)]
                   /\ noff'[d] = noff[d]
      BY <1>0, <2>2, Running, Zenon DEF SpinTypeOK, acquire_done, GoesTo, cpuvars
    <2>3. noff'[c] = Cardinality(has'[x]) + (IF at'[x] \in Between THEN 1 ELSE 0)
      <3>0. at[x] = "own" /\ lk[x] \in Int /\ IsFiniteSet(has[x])
              /\ has'[x] = has[x] \cup {lk[x]}
        BY <1>0, Zenon DEF SpinTypeOK, Counted, acquire_done
      <3>1. lk[x] \notin has[x]
        BY <1>0, <3>0 DEF Ordered
      <3>2. Cardinality(has[x] \cup {lk[x]}) = Cardinality(has[x]) + 1
        BY <3>0, <3>1, FS_AddElement, Zenon
      <3>. QED  BY <1>0, <3>0, <3>2
                   DEF SpinTypeOK, Counted, Between, acquire_done, GoesTo,
                       cpuvars
    <2>. QED  BY <1>0, <2>1, <2>2, <2>3, SMTT(30) DEF Counted
  <1>8. Masked'
    <2>1. \A y \in Ctx : at'[y] = "push" => at[y] = "push" /\ has'[y] = has[y]
      BY <1>0, Zenon DEF SpinTypeOK, acquire_done, GoesTo
    <2>. QED  BY <2>1, MaskedKept, Zenon DEF acquire_done
  <1>. QED  BY <1>1, <1>2, <1>3, <1>4, <1>5, <1>6, <1>7, <1>8, SMTT(30)

(* release, lk->cpu = 0: the mark goes before the word is cleared, while   *)
(* nobody else can have set it.                                            *)
LEMMA release_clear_inv ==
    ASSUME SpinInv, NEW c \in CPU, NEW x, x = Cur(c), release_clear(c, x)
    PROVE  SpinInv'
  <1> USE SpinAssumption DEF SpinInv
  <1>0. x \in Ctx /\ x[1] = c /\ (\A d \in CPU : Cur(d)' = Cur(d))
          /\ \A d \in CPU : d # c => Cur(d) # x
    BY Running, Zenon DEF Cur, release_clear, cpuvars
  <1>1. SpinTypeOK'
    BY <1>0, Zenon DEF SpinTypeOK, release_clear, GoesTo, cpuvars
  <1>2. Exclusive'
    BY <1>0 DEF SpinTypeOK, Exclusive, Owns, release_clear, GoesTo
  <1>3. Marked'
    <2>1. lk[x] \in Lock /\ \A y \in Ctx : lk[x] \in has[y] => y = x
      BY <1>0, Zenon DEF SpinTypeOK, Exclusive, Ordered, Owns, release_clear
    <2>. QED  BY <1>0, <2>1
                 DEF SpinTypeOK, Marked, Leaves, release_clear, GoesTo
  <1>4. OnlyMarked'
    BY <1>0 DEF SpinTypeOK, OnlyMarked, Leaves, release_clear, GoesTo
  <1>5. Ordered'
    BY <1>0, Zenon DEF SpinTypeOK, Ordered, release_clear, GoesTo
  <1>6. Quiet'
    BY <1>0, Contexts, Zenon DEF SpinTypeOK, Quiet, release_clear, GoesTo, cpuvars
  <1>7. Counted'
    BY <1>0, Running
       DEF SpinTypeOK, Counted, Between, release_clear, GoesTo, cpuvars
  <1>8. Masked'
    <2>1. \A y \in Ctx : at'[y] = "push" => at[y] = "push" /\ has'[y] = has[y]
      BY <1>0, ZenonT(30) DEF SpinTypeOK, release_clear, GoesTo
    <2>. QED  BY <2>1, MaskedKept, Zenon DEF release_clear
  <1>. QED  BY <1>1, <1>2, <1>3, <1>4, <1>5, <1>6, <1>7, <1>8, SMTT(30)

(* release, amoswap of 0: the lock leaves its only owner, whose push_off   *)
(* is still counted until pop_off.                                         *)
LEMMA release_unlock_inv ==
    ASSUME SpinInv, NEW c \in CPU, NEW x, x = Cur(c), release_unlock(c, x)
    PROVE  SpinInv'
  <1> USE SpinAssumption DEF SpinInv
  <1>0. x \in Ctx /\ x[1] = c /\ (\A d \in CPU : Cur(d)' = Cur(d))
          /\ \A d \in CPU : d # c => Cur(d) # x
    BY Running, Zenon DEF Cur, release_unlock, cpuvars
  <1>1. SpinTypeOK'
    BY <1>0, Zenon DEF SpinTypeOK, release_unlock, GoesTo, cpuvars
  <1>2. Exclusive'
    <2>1. lk[x] \in Lock /\ \A y \in Ctx : Owns(y, lk[x]) => y = x
      BY <1>0, Zenon DEF SpinTypeOK, Exclusive, Ordered, Owns, release_unlock
    <2>2. ASSUME NEW y \in Ctx, NEW l \in Lock, Owns(y, l)'
          PROVE  Owns(y, l) /\ l # lk[x]
      BY <1>0, <2>1, <2>2 DEF SpinTypeOK, Owns, release_unlock, GoesTo
    <2>. QED  BY <1>0, <2>2 DEF SpinTypeOK, Exclusive, release_unlock
  <1>3. Marked'
    <2> SUFFICES ASSUME NEW y \in Ctx, NEW l \in has'[y]
                 PROVE  lkcpu[l] = y[1] \/ (at'[y] = "unlock" /\ lk[y] = l)
      BY Zenon DEF Marked, Leaves, release_unlock
    <2>1. CASE y = x
      <3>1. l \in has[x] /\ l # lk[x]
        BY <1>0, <2>1, Zenon DEF SpinTypeOK, release_unlock
      <3>. QED  BY <1>0, <2>1, <3>1, Zenon DEF Marked, Leaves
    <2>2. CASE y # x
      <3>1. l \in has[y] /\ at'[y] = at[y]
        BY <1>0, <2>2, Zenon DEF SpinTypeOK, release_unlock, GoesTo
      <3>. QED  BY <3>1, Zenon DEF Marked, Leaves
    <2>. QED  BY <2>1, <2>2, Zenon
  <1>4. OnlyMarked'
    BY <1>0, Zenon DEF SpinTypeOK, OnlyMarked, Leaves, release_unlock, GoesTo
  <1>5. Ordered'
    BY <1>0, Zenon DEF SpinTypeOK, Ordered, release_unlock, GoesTo
  <1>6. Quiet'
    BY <1>0, Contexts DEF SpinTypeOK, Quiet, release_unlock, GoesTo, cpuvars
  <1>7. Counted'
    <2>1. ASSUME NEW y \in Ctx PROVE IsFiniteSet(has'[y])
      <3>1. IsFiniteSet(has[y]) /\ (has'[y] = has[y]
              \/ has'[y] = has[y] \ {lk[x]})
        BY <1>0, Zenon DEF SpinTypeOK, Counted, release_unlock
      <3>. QED  BY <3>1, FS_Subset, Zenon
    <2>2. ASSUME NEW d \in CPU, d # c
          PROVE  has'[Cur(d)] = has[Cur(d)] /\ at'[Cur(d)] = at[Cur(d)]
                   /\ noff'[d] = noff[d]
      BY <1>0, <2>2, Running, Zenon DEF SpinTypeOK, release_unlock, GoesTo, cpuvars
    <2>3. noff'[c] = Cardinality(has'[x]) + (IF at'[x] \in Between THEN 1 ELSE 0)
      <3>1. lk[x] \in has[x] /\ IsFiniteSet(has[x])
              /\ has'[x] = has[x] \ {lk[x]}
        BY <1>0, Zenon DEF SpinTypeOK, Ordered, Counted, release_unlock
      <3>2. Cardinality(has[x] \ {lk[x]}) = Cardinality(has[x]) - 1
        BY <3>1, FS_RemoveElement, Zenon
      <3>3. Cardinality(has[x]) \in Nat
        BY <1>0, FS_CardinalityType, ZenonT(30) DEF Counted
      <3>. QED  BY <1>0, <3>1, <3>2, <3>3, SMTT(30)
                   DEF SpinTypeOK, Counted, Between, release_unlock, GoesTo,
                       cpuvars
    <2>. QED  BY <1>0, <2>1, <2>2, <2>3, SMTT(30) DEF Counted
  <1>8. Masked'
    <2>1. \A y \in Ctx : at'[y] = "push" => at[y] = "push" /\ has'[y] = has[y]
      BY <1>0, Zenon DEF SpinTypeOK, release_unlock, GoesTo
    <2>. QED  BY <2>1, MaskedKept, Zenon DEF release_unlock
  <1>. QED  BY <1>1, <1>2, <1>3, <1>4, <1>5, <1>6, <1>7, <1>8, SMTT(30)

(* pop_off: the call that brings noff back to 0 restores what push_off     *)
(* recorded; an inner one leaves interrupts off.                           *)
LEMMA pop_off_inv ==
    ASSUME SpinInv, NEW c \in CPU, NEW x, x = Cur(c), pop_off(c, x)
    PROVE  SpinInv'
  <1> USE SpinAssumption DEF SpinInv
  <1>0. x \in Ctx /\ x[1] = c /\ (\A d \in CPU : Cur(d)' = Cur(d))
          /\ \A d \in CPU : d # c => Cur(d) # x
    BY Running, Zenon DEF Cur, pop_off, cpuvars
  <1>1. SpinTypeOK'
    <2>1. noff[c] - 1 \in Nat
      BY <1>0, Zero DEF SpinTypeOK, Between, pop_off
    <2>2. sie' \in [CPU -> BOOLEAN]
      BY Zenon DEF SpinTypeOK, pop_off
    <2>. QED  BY <1>0, <2>1, <2>2, Zenon DEF SpinTypeOK, pop_off, GoesTo
  <1>2. Exclusive'
    BY <1>0 DEF SpinTypeOK, Exclusive, Owns, pop_off, GoesTo
  <1>3. Marked'
    BY <1>0, ZenonT(30) DEF SpinTypeOK, Marked, Leaves, pop_off, GoesTo
  <1>4. OnlyMarked'
    BY <1>0, Zenon DEF SpinTypeOK, OnlyMarked, Leaves, pop_off, GoesTo
  <1>5. Ordered'
    BY <1>0, Zenon DEF SpinTypeOK, Ordered, pop_off, GoesTo
  <1>6. Quiet'
    BY <1>0, Contexts, ZenonT(30) DEF SpinTypeOK, Quiet, pop_off, GoesTo, cpuvars
  <1>7. Counted'
    <2>1. ASSUME NEW y \in Ctx PROVE IsFiniteSet(has'[y])
      BY <2>1, Zenon DEF Counted, pop_off
    <2>2. ASSUME NEW d \in CPU, d # c
          PROVE  has'[Cur(d)] = has[Cur(d)] /\ at'[Cur(d)] = at[Cur(d)]
                   /\ noff'[d] = noff[d]
      BY <1>0, <2>2, Running DEF SpinTypeOK, pop_off, GoesTo, cpuvars
    <2>3. noff'[c] = Cardinality(has'[x]) + (IF at'[x] \in Between THEN 1 ELSE 0)
      BY <1>0, FS_CardinalityType, SMTT(30)
         DEF SpinTypeOK, Counted, Between, pop_off, GoesTo
    <2>. QED  BY <1>0, <2>1, <2>2, <2>3, SMTT(30) DEF Counted
  <1>8. Masked'
    BY <1>0, Contexts, Zero DEF SpinTypeOK, Masked, pop_off, GoesTo, cpuvars
  <1>. QED  BY <1>1, <1>2, <1>3, <1>4, <1>5, <1>6, <1>7, <1>8, SMTT(30)

(* An interrupt finds a thread without locks, since they would mask it. *)
LEMMA kerneltrap_inv ==
    ASSUME SpinInv, NEW c \in CPU, kerneltrap(c)
    PROVE  SpinInv'
  <1> USE DEF SpinInv
  <1>0. /\ c \notin trap /\ sie[c] = TRUE /\ base[c] = TRUE /\ noff[c] = 0
        /\ trap' = trap \cup {c}
    BY DEF SpinTypeOK, Masked, kerneltrap
  <1>1. SpinTypeOK'
    BY Zenon DEF SpinTypeOK, kerneltrap
  <1>2. Exclusive' /\ Marked' /\ OnlyMarked' /\ Ordered'
    <2>1. UNCHANGED <<word, lkcpu, at, lk, has>>
      BY Zenon DEF kerneltrap
    <2>. QED  BY <2>1 DEF Exclusive, Marked, OnlyMarked, Ordered, Owns, Leaves
  <1>3. has[T(c)] = {} /\ at[T(c)] \in {"run", "push"}
    BY <1>0, Zero, Contexts DEF SpinTypeOK, Ordered, Between
  <1>4. Quiet'
    BY <1>0, <1>3, Contexts, ZenonT(30) DEF Quiet, kerneltrap, T, H
  <1>5. at[H(c)] = "run" /\ has[H(c)] = {}
    BY <1>0, Zenon DEF Quiet
  <1>6. Counted'
    <2>1. ASSUME NEW d \in CPU, d # c PROVE Cur(d)' = Cur(d)
      BY <1>0, <2>1, Zenon DEF Cur
    <2>2. Cur(c)' = H(c)
      BY <1>0, ZenonT(30) DEF Cur, H
    <2>3. noff[c] = Cardinality(has[H(c)]) + (IF at[H(c)] \in Between THEN 1 ELSE 0)
      BY <1>0, <1>5, FS_EmptySet, SMTT(30) DEF Between
    <2>. QED  BY <2>1, <2>2, <2>3, ZenonT(30) DEF Counted, kerneltrap
  <1>7. Masked'
    <2> SUFFICES ASSUME NEW d \in CPU
                 PROVE  /\ d \in trap' => ~sie'[d] /\ base[d]
                             /\ (noff[d] > 0 => ~intena[d])
                        /\ d \notin trap' /\ noff[d] = 0 => sie'[d] = base[d]
                        /\ d \notin trap' /\ noff[d] > 0 => ~sie'[d]
                             /\ intena[d] = base[d]
                        /\ at[T(d)] = "push" /\ has[T(d)] = {}
                             => old[T(d)] = base[d]
                        /\ at[H(d)] = "push" => ~old[H(d)]
      BY ZenonT(30) DEF Masked, T, H, kerneltrap
    <2>1. CASE d = c
      BY <1>0, <1>5, <2>1, Zenon DEF SpinTypeOK, Masked, kerneltrap
    <2>2. CASE d # c
      BY <1>0, <2>2, Zenon DEF SpinTypeOK, Masked, kerneltrap
    <2>. QED  BY <2>1, <2>2
  <1>. QED  BY <1>1, <1>2, <1>4, <1>6, <1>7

(* The handler has no lock when it returns, so noff is 0 again. *)
LEMMA kerneltrap_return_inv ==
    ASSUME SpinInv, NEW c \in CPU, kerneltrap_return(c)
    PROVE  SpinInv'
  <1> USE DEF SpinInv
  <1>0. /\ c \in trap /\ base[c] = TRUE /\ noff[c] = 0
        /\ trap' = trap \ {c} /\ at[H(c)] = "run" /\ has[H(c)] = {}
    BY Zero, Contexts, ZenonT(30) DEF SpinTypeOK, Masked, Between, kerneltrap_return
  <1>1. SpinTypeOK'
    BY Zenon DEF SpinTypeOK, kerneltrap_return
  <1>2. Exclusive' /\ Marked' /\ OnlyMarked' /\ Ordered'
    <2>1. UNCHANGED <<word, lkcpu, at, lk, has>>
      BY Zenon DEF kerneltrap_return
    <2>. QED  BY <2>1, SMTT(30) DEF Exclusive, Marked, OnlyMarked, Ordered, Owns, Leaves
  <1>3. has[T(c)] = {} /\ at[T(c)] \in {"run", "push"}
    BY <1>0, Zenon DEF Quiet
  <1>4. Quiet'
    BY <1>0, Contexts, Zenon DEF Quiet, kerneltrap_return, T, H
  <1>6. Counted'
    <2>1. ASSUME NEW d \in CPU, d # c PROVE Cur(d)' = Cur(d)
      BY <1>0, <2>1, Zenon DEF Cur
    <2>2. Cur(c)' = T(c)
      BY <1>0, Zenon DEF Cur, T
    <2>3. noff[c] = Cardinality(has[T(c)]) + (IF at[T(c)] \in Between THEN 1 ELSE 0)
      BY <1>0, <1>3, FS_EmptySet DEF Between
    <2>. QED  BY <2>1, <2>2, <2>3, Zenon DEF Counted, kerneltrap_return
  <1>7. Masked'
    <2> SUFFICES ASSUME NEW d \in CPU
                 PROVE  /\ d \in trap' => ~sie'[d] /\ base[d]
                             /\ (noff[d] > 0 => ~intena[d])
                        /\ d \notin trap' /\ noff[d] = 0 => sie'[d] = base[d]
                        /\ d \notin trap' /\ noff[d] > 0 => ~sie'[d]
                             /\ intena[d] = base[d]
                        /\ at[T(d)] = "push" /\ has[T(d)] = {}
                             => old[T(d)] = base[d]
                        /\ at[H(d)] = "push" => ~old[H(d)]
      BY Zenon DEF Masked, T, H, kerneltrap_return
    <2>1. CASE d = c
      <3>1. sie'[c] = TRUE
        BY Zenon DEF SpinTypeOK, kerneltrap_return
      <3>2. at[T(c)] = "push" /\ has[T(c)] = {} => old[T(c)] = base[c]
        BY Zenon DEF Masked
      <3>3. c \notin trap' /\ ~(noff[c] > 0) /\ at[H(c)] # "push"
        BY <1>0, SMTT(30)
      <3>. QED  BY <1>0, <2>1, <3>1, <3>2, <3>3, Zenon
    <2>2. CASE d # c
      BY <1>0, <2>2, Zenon DEF SpinTypeOK, Masked, kerneltrap_return
    <2>. QED  BY <2>1, <2>2, ZenonT(30)
  <1>. QED  BY <1>1, <1>2, <1>4, <1>6, <1>7, ZenonT(30)

(* The thread changes its interrupts only while it has no lock. *)
LEMMA intr_set_inv ==
    ASSUME SpinInv, NEW c \in CPU, intr_set(c)
    PROVE  SpinInv'
  <1> USE DEF SpinInv
  <1>0. c \notin trap /\ noff[c] = 0 /\ at[T(c)] = "run" /\ trap' = trap
    BY Zero, Contexts, Zenon DEF Between, intr_set
  <1>1. SpinTypeOK'
    BY Zenon DEF SpinTypeOK, intr_set
  <1>2. Exclusive' /\ Marked' /\ OnlyMarked' /\ Ordered'
    <2>1. UNCHANGED <<word, lkcpu, at, lk, has>>
      BY Zenon DEF intr_set
    <2>. QED  BY <2>1, SMTT(30) DEF Exclusive, Marked, OnlyMarked, Ordered, Owns, Leaves
  <1>3. Quiet'
    BY Zenon DEF Quiet, intr_set, T, H
  <1>4. Counted'
    BY ZenonT(30) DEF Counted, intr_set, Cur
  <1>5. Masked'
    <2> SUFFICES ASSUME NEW d \in CPU
                 PROVE  /\ d \in trap => ~sie'[d] /\ base'[d]
                             /\ (noff[d] > 0 => ~intena[d])
                        /\ d \notin trap /\ noff[d] = 0 => sie'[d] = base'[d]
                        /\ d \notin trap /\ noff[d] > 0 => ~sie'[d]
                             /\ intena[d] = base'[d]
                        /\ at[T(d)] = "push" /\ has[T(d)] = {}
                             => old[T(d)] = base'[d]
                        /\ at[H(d)] = "push" => ~old[H(d)]
      BY Zenon DEF Masked, T, H, intr_set
    <2>1. CASE d = c
      BY <1>0, <2>1 DEF SpinTypeOK, Masked, intr_set
    <2>2. CASE d # c
      BY <2>2, Zenon DEF SpinTypeOK, Masked, intr_set
    <2>. QED  BY <2>1, <2>2, Zenon
  <1>. QED  BY <1>1, <1>2, <1>3, <1>4, <1>5, SMTT(30)

-----------------------------------------------------------------------------
(* Where a thread or handler stands in acquire, release, push_off and      *)
(* pop_off determines who owns which lock, what lk->cpu and noff are, and  *)
(* whether interrupts are on.                                              *)
THEOREM SpinInductive == SpinSpec => []SpinInv
  <1>1. SpinInv /\ [SpinNext]_slvars => SpinInv'
    <2> SUFFICES ASSUME SpinInv, [SpinNext]_slvars PROVE SpinInv'
      BY Zenon
    <2>1. ASSUME NEW c \in CPU, SpinStep(c, Cur(c)) PROVE SpinInv'
      BY <2>1, acquire_call_inv, release_call_inv, push_off_inv,
         acquire_swap_inv, acquire_done_inv, release_clear_inv,
         release_unlock_inv, pop_off_inv, ZenonT(30) DEF SpinStep
    <2>2. CASE UNCHANGED slvars
      BY <2>2
         DEF slvars, cpuvars, SpinInv, SpinTypeOK, Exclusive, Marked,
             OnlyMarked, Ordered, Quiet, Counted, Masked, Owns, Leaves, Cur
    <2>. QED  BY <2>1, <2>2, kerneltrap_inv, kerneltrap_return_inv, intr_set_inv, Zenon
                 DEF SpinNext
  <1>. QED  BY <1>1, SpinInitially, PTL DEF SpinSpec

(* acquire and release: no two threads or handlers, on one CPU or on two,  *)
(* ever have a lock at once.                                               *)
THEOREM LocksAreExclusive == SpinSpec => []MutualExclusion
  <1>1. SpinInv => MutualExclusion
    BY Zenon DEF SpinInv, SpinTypeOK, Exclusive, Owns, MutualExclusion
  <1>. QED  BY <1>1, SpinInductive, PTL

(* spinlock.c: acquire, release and pop_off never panic, whichever         *)
(* interrupts arrive in between.                                           *)
THEOREM SpinlocksNeverPanic == SpinSpec => []NeverPanics
  <1>1. SpinInv => NeverPanics
    <2> SUFFICES ASSUME SpinInv, NEW c \in CPU
                 PROVE  /\ at[Cur(c)] = "spin" => ~holding(c, lk[Cur(c)])
                        /\ at[Cur(c)] = "clear" => holding(c, lk[Cur(c)])
                        /\ at[Cur(c)] = "pop" => ~sie[c] /\ noff[c] >= 1
      BY Zenon DEF NeverPanics
    <2> USE DEF SpinInv
    <2>0. Cur(c) \in Ctx /\ Cur(c)[1] = c /\ lk[Cur(c)] \in Lock
      BY Running, Zenon DEF SpinTypeOK
    <2>1. ASSUME at[Cur(c)] = "spin", lkcpu[lk[Cur(c)]] = c PROVE FALSE
      <3>1. PICK y \in Ctx : y[1] = c /\ lk[Cur(c)] \in has[y]
        BY <2>0, <2>1, SpinAssumption, ZenonT(30) DEF OnlyMarked
      <3>2. y = Cur(c)
        BY <3>1, Running, Zenon
      <3>3. lk[Cur(c)] < lk[Cur(c)] /\ lk[Cur(c)] \in Int
        BY <2>0, <2>1, <3>1, <3>2, SpinAssumption, Zenon DEF Ordered
      <3>. QED  BY <3>3
    <2>2. ASSUME at[Cur(c)] = "clear" PROVE holding(c, lk[Cur(c)])
      BY <2>0, <2>2, Zenon DEF Ordered, Marked, Leaves, Exclusive, Owns, holding
    <2>3. ASSUME at[Cur(c)] = "pop" PROVE ~sie[c] /\ noff[c] >= 1
      <3>1. noff[c] # 0 /\ noff[c] \in Nat
        BY <2>3, Zero, Zenon DEF Between, SpinTypeOK
      <3>. QED  BY <3>1 DEF Masked
    <2>. QED  BY <2>1, <2>2, <2>3, Zenon DEF holding
  <1>. QED  BY <1>1, SpinInductive, PTL

(* push_off and pop_off: once a thread has released all its locks,         *)
(* interrupts are as it had set them.                                      *)
THEOREM InterruptsComeBack == SpinSpec => []InterruptsRestored
  <1>1. SpinInv => InterruptsRestored
    BY Zero, Zenon DEF SpinInv, Between, Masked, InterruptsRestored
  <1>. QED  BY <1>1, SpinInductive, PTL

-----------------------------------------------------------------------------
(* A process in sleep has slept for as many ticks as its subtraction says, *)
(* up to the width of ticks.                                               *)
ClockInv ==
    /\ ticks \in 0 .. TUINT - 1
    /\ nap \in [Sleeper -> Naps \cup {0}]
    /\ ticks0 \in [Sleeper -> 0 .. TUINT - 1]
    /\ elapsed \in [Sleeper -> 0 .. MaxTicks]
    /\ \A p \in Sleeper : nap[p] > 0 =>
           elapsed[p] = MaxTicks \/ (ticks - ticks0[p]) % TUINT = elapsed[p] % TUINT

(* The unsigned arithmetic of ticks: the remainder of a multiple and a     *)
(* smaller number is that number.                                          *)
LEMMA ModIs ==
    ASSUME NEW d \in Nat \ {0}, NEW q \in Int, NEW r \in 0 .. d - 1
    PROVE  (d * q + r) % d = r
  OBVIOUS

(* Every number is a multiple of TUINT and a remainder below it. *)
LEMMA ModParts ==
    ASSUME NEW d \in Nat \ {0}, NEW a \in Int
    PROVE  a \div d \in Int /\ a % d \in 0 .. d - 1 /\ a = d * (a \div d) + (a % d)
  OBVIOUS

(* ticks++: the unsigned difference and the count of ticks advance         *)
(* together, also when ticks wraps around.                                 *)
LEMMA TickAdvances ==
    ASSUME NEW d \in Nat \ {0}, NEW a \in 0 .. d - 1, NEW b \in 0 .. d - 1,
           NEW e \in Nat, (a - b) % d = e % d
    PROVE  (((a + 1) % d) - b) % d = (e + 1) % d
  <1>1. (e + 1) % d = IF (e % d) + 1 < d THEN (e % d) + 1 ELSE 0
    <2> DEFINE q == e \div d
               r == e % d
    <2>1. q \in Int /\ r \in 0 .. d - 1 /\ e = d * q + r
      BY ModParts
    <2> HIDE DEF q, r
    <2>2. CASE r + 1 < d
      <3>1. (d * q + (r + 1)) % d = r + 1
        BY <2>1, <2>2, ModIs
      <3>2. d * q + (r + 1) = e + 1
        BY <2>1
      <3>. QED  BY <2>2, <3>1, <3>2, Zenon DEF r
    <2>3. CASE r + 1 = d
      <3>1. (d * (q + 1) + 0) % d = 0
        BY <2>1, ModIs
      <3>2. d * (q + 1) + 0 = e + 1
        BY <2>1, <2>3
      <3>. QED  BY <2>3, <3>1, <3>2 DEF r
    <2>. QED  BY <2>1, <2>2, <2>3
  <1>2. (a + 1) % d = IF a + 1 < d THEN a + 1 ELSE 0
    OBVIOUS
  <1>3. (a - b) % d = IF a >= b THEN a - b ELSE a - b + d
    OBVIOUS
  <1> DEFINE c == (a + 1) % d
  <1>4. c \in 0 .. d - 1
    BY <1>2
  <1> HIDE DEF c
  <1>5. (c - b) % d = IF c >= b THEN c - b ELSE c - b + d
    BY <1>4
  <1>. QED  BY <1>1, <1>2, <1>3, <1>5 DEF c

(* sys_sleep and clockintr: the subtraction in sys_sleep's loop keeps      *)
(* measuring the time slept.                                               *)
THEOREM ClockInductive == ClockSpec => []ClockInv
  <1> USE ClockAssumption
  <1>1. ClockInit => ClockInv
    BY DEF ClockInit, ClockInv
  <1>2. ClockInv /\ [ClockNext]_clkvars => ClockInv'
    <2> SUFFICES ASSUME ClockInv, [ClockNext]_clkvars PROVE ClockInv'
      BY Zenon
    <2>1. CASE clockintr
      <3>1. ticks' \in 0 .. TUINT - 1
        BY <2>1 DEF clockintr, ClockInv
      <3>2. elapsed' \in [Sleeper -> 0 .. MaxTicks]
        BY <2>1 DEF clockintr, ClockInv
      <3>3. ASSUME NEW p \in Sleeper, nap[p] > 0
            PROVE  \/ elapsed'[p] = MaxTicks
                   \/ (ticks' - ticks0[p]) % TUINT = elapsed'[p] % TUINT
        <4>1. CASE elapsed[p] = MaxTicks
          BY <2>1, <4>1 DEF clockintr, ClockInv
        <4>2. CASE elapsed[p] # MaxTicks
          <5>1. elapsed'[p] = elapsed[p] + 1 /\ ticks' = (ticks + 1) % TUINT
            BY <2>1, <4>2 DEF clockintr, ClockInv
          <5>2. /\ ticks \in 0 .. TUINT - 1 /\ ticks0[p] \in 0 .. TUINT - 1
                /\ elapsed[p] \in Nat
                /\ (ticks - ticks0[p]) % TUINT = elapsed[p] % TUINT
            BY <3>3, <4>2 DEF ClockInv
          <5>3. TUINT \in Nat \ {0}
            BY Zenon
          <5>4. (((ticks + 1) % TUINT) - ticks0[p]) % TUINT = (elapsed[p] + 1) % TUINT
            BY <5>2, <5>3, TickAdvances, Zenon
          <5>. QED  BY <5>1, <5>4, Zenon
        <4>. QED  BY <4>1, <4>2, Zenon
      <3>. QED  BY <2>1, <3>1, <3>2, <3>3, Zenon DEF clockintr, ClockInv
    <2>2. ASSUME NEW p \in Sleeper, NEW m \in Naps, sys_sleep(p, m)
          PROVE  ClockInv'
      <3>1. (ticks - ticks) % TUINT = 0 % TUINT
        BY DEF ClockInv
      <3>. QED  BY <2>2, <3>1 DEF sys_sleep, ClockInv
    <2>3. ASSUME NEW p \in Sleeper, sleep_return(p)
          PROVE  ClockInv'
      BY <2>3, Zenon DEF sleep_return, ClockInv
    <2>4. ASSUME NEW p \in Sleeper, sleep_on(p) \/ ClockKill(p)
          PROVE  ClockInv'
      BY <2>4, Zenon DEF sleep_on, ClockKill, ClockInv
    <2>5. CASE UNCHANGED clkvars
      BY <2>5, Zenon DEF clkvars, ClockInv
    <2>. QED  BY <2>1, <2>2, <2>3, <2>4, <2>5, Zenon DEF ClockNext
  <1>. QED  BY <1>1, <1>2, PTL DEF ClockSpec

(* sys_sleep: sleep(n) returns no sooner than n ticks later, unless the    *)
(* process is killed, whatever the width of ticks and wherever it wraps.   *)
THEOREM SleepIsLongEnough == ClockSpec => SleepsLongEnough
  <1> USE ClockAssumption
  <1>1. ASSUME ClockInv, [ClockNext]_clkvars, NEW p \in Sleeper,
               nap[p] > 0, nap'[p] = 0, p \notin tkilled
        PROVE  elapsed[p] >= nap[p]
    <2>1. sleep_return(p)
      <3>1. ~clockintr /\ ~UNCHANGED clkvars
        BY <1>1 DEF clockintr, clkvars
      <3>2. PICK q \in Sleeper : \/ sleep_return(q) \/ sleep_on(q) \/ ClockKill(q)
                                 \/ \E m \in Naps : sys_sleep(q, m)
        BY <1>1, <3>1, Zenon DEF ClockNext
      <3>3. ~sleep_on(q) /\ ~ClockKill(q)
        BY <1>1 DEF sleep_on, ClockKill
      <3>4. ASSUME NEW m \in Naps, sys_sleep(q, m) PROVE FALSE
        BY <1>1, <3>4 DEF sys_sleep, ClockInv
      <3>5. sleep_return(q)
        BY <3>2, <3>3, <3>4, Zenon
      <3>6. nap' = [nap EXCEPT ![q] = 0]
        BY <3>5, Zenon DEF sleep_return
      <3>7. CASE q # p
        <4>1. nap'[p] = nap[p]
          BY <3>6, <3>7 DEF ClockInv
        <4>2. ~(0 > 0)
          BY SMTT(30)
        <4>. QED  BY <1>1, <4>1, <4>2, Zenon
      <3>. QED  BY <3>5, <3>7, Zenon
    <2>2. (ticks - ticks0[p]) % TUINT >= nap[p]
      BY <1>1, <2>1, Zenon DEF sleep_return, Expired
    <2>3. nap[p] \in 1 .. MaxTicks /\ elapsed[p] \in Nat
      <3>1. nap[p] \in Naps \cup {0} /\ elapsed[p] \in 0 .. MaxTicks
        BY <1>1, Zenon DEF ClockInv
      <3>2. nap[p] # 0
        <4>1. ~(0 > 0)
          OBVIOUS
        <4>. QED  BY <1>1, <4>1, Zenon
      <3>3. nap[p] \in 1 .. MaxTicks
        BY <3>1, <3>2, Zenon
      <3>. QED  BY <3>1, <3>3
    <2>4. elapsed[p] % TUINT <= elapsed[p]
      BY <2>3
    <2>. QED  BY <1>1, <2>2, <2>3, <2>4 DEF ClockInv
  <1>2. ClockInv /\ [ClockNext]_clkvars =>
          [\A p \in Sleeper : nap[p] > 0 /\ nap'[p] = 0 /\ p \notin tkilled =>
              elapsed[p] >= nap[p]]_clkvars
    BY <1>1, Zenon
  <1>. QED  BY <1>2, ClockInductive, PTL DEF ClockSpec, SleepsLongEnough
=============================================================================
