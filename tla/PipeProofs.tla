----------------------------- MODULE PipeProofs -----------------------------
(***************************************************************************)
(* Proofs about Pipe for any number of readers and writers, any buffer     *)
(* size and any width of the counters that is a multiple of it.            *)
(***************************************************************************)
EXTENDS Pipe, SequenceTheorems, TLAPS

-----------------------------------------------------------------------------
(* The C operator % on unsigned operands: the remainder lies below the     *)
(* divisor.                                                                *)
LEMMA ModRange ==
    ASSUME NEW d \in Nat \ {0}, NEW a \in Int
    PROVE  a % d \in 0 .. d - 1
  OBVIOUS

(* A sum of a multiple of the divisor and a remainder has that remainder. *)
LEMMA ModIs ==
    ASSUME NEW d \in Nat \ {0}, NEW q \in Int, NEW r \in 0 .. d - 1
    PROVE  (d * q + r) % d = r
  OBVIOUS

(* A number is its quotient times the divisor, plus its remainder. *)
LEMMA ModParts ==
    ASSUME NEW d \in Nat \ {0}, NEW a \in Int
    PROVE  a \div d \in Int /\ a = d * (a \div d) + (a % d)
  OBVIOUS

(* One addition or subtraction wraps around at most once, as the unsigned  *)
(* counters of struct pipe do.                                             *)
LEMMA ModNear ==
    ASSUME NEW d \in Nat \ {0}, NEW a \in Int
    PROVE  /\ 0 <= a /\ a < d => a % d = a
           /\ d <= a /\ a < 2 * d => a % d = a - d
           /\ -d <= a /\ a < 0 => a % d = a + d
  OBVIOUS

(* A counter that wraps at a multiple of PIPESIZE still indexes data[] as  *)
(* one that does not wrap would: the index nwrite % PIPESIZE.              *)
LEMMA ModMod ==
    ASSUME NEW p \in Nat \ {0}, NEW u \in Nat \ {0}, u % p = 0,
           NEW a \in 0 .. 2 * u - 1
    PROVE  (a % u) % p = a % p
  <1>1. CASE a < u
    <2>1. a % u = a
      BY <1>1
    <2>. QED BY <2>1, Zenon
  <1>2. CASE a >= u
    <2>1. a % u = a - u
      BY <1>2
    <2> DEFINE i == a \div p
               j == u \div p
               r == a % p
    <2>2. j \in Int /\ i \in Int /\ r \in 0 .. p - 1
      BY ModParts, ModRange
    <2>3. u = p * j /\ a = p * i + r
      BY ModParts
    <2> HIDE DEF i, j, r
    <2>4. a - u = p * (i - j) + r
      BY <2>2, <2>3
    <2>5. (p * (i - j) + r) % p = r
      BY <2>2, ModIs
    <2>. QED BY <2>1, <2>4, <2>5, Zenon DEF r
  <1>. QED BY <1>1, <1>2

(* Numbers less than the divisor apart have different remainders: the      *)
(* bytes of one buffer's length lie in different places of data[].         *)
LEMMA ModDistinct ==
    ASSUME NEW p \in Nat \ {0}, NEW a \in Int, NEW b \in Int, a < b, b < a + p
    PROVE  a % p # b % p
  <1> SUFFICES ASSUME a % p = b % p PROVE FALSE
    BY Zenon
  <1> DEFINE i == a \div p
             j == b \div p
             r == a % p
  <1>1. i \in Int /\ j \in Int /\ r \in 0 .. p - 1
    BY ModParts, ModRange, Zenon
  <1>2. a = p * i + r /\ b = p * j + r
    BY ModParts, Zenon
  <1> HIDE DEF i, j, r
  <1>3. b - a = p * (j - i)
    BY <1>1, <1>2
  <1>4. (p * (j - i) + 0) % p = 0
    BY <1>1, ModIs
  <1>5. (b - a) % p = b - a
    OBVIOUS
  <1>. QED BY <1>1, <1>3, <1>4, <1>5

-----------------------------------------------------------------------------
(* How many bytes are in the pipe. *)
cnt == (nwrite - nread) % UINT

(* nwrite - nread, computed in unsigned arithmetic, is the distance        *)
(* between the counters even after one of them has wrapped around.         *)
LEMMA RingCount ==
    ASSUME nread \in 0 .. UINT - 1, nwrite \in 0 .. UINT - 1
    PROVE  /\ cnt \in 0 .. UINT - 1
           /\ cnt = IF nwrite >= nread THEN nwrite - nread
                                       ELSE nwrite - nread + UINT
           /\ Empty <=> cnt = 0
           /\ Full <=> cnt = PIPESIZE
           /\ nwrite = (nread + cnt) % UINT
  <1> USE PipeAssumption
  <1>1. cnt = IF nwrite >= nread THEN nwrite - nread ELSE nwrite - nread + UINT
    BY DEF cnt
  <1>2. cnt \in 0 .. UINT - 1
    BY <1>1
  <1>3. (nread + PIPESIZE) % UINT = IF nread + PIPESIZE < UINT THEN nread + PIPESIZE
                                    ELSE nread + PIPESIZE - UINT
    OBVIOUS
  <1>4. (nread + cnt) % UINT = IF nread + cnt < UINT THEN nread + cnt
                                                     ELSE nread + cnt - UINT
    BY <1>2
  <1>5. Full <=> cnt = PIPESIZE
    BY <1>1, <1>3 DEF Full
  <1>6. nwrite = (nread + cnt) % UINT
    BY <1>1, <1>4
  <1>. QED  BY <1>1, <1>2, <1>5, <1>6 DEF Empty

(* pipewrite, nwrite++: one byte more, also when nwrite wraps around. *)
LEMMA RingPut ==
    ASSUME nread \in 0 .. UINT - 1, nwrite \in 0 .. UINT - 1, cnt < PIPESIZE
    PROVE  PipeInc(nwrite) \in 0 .. UINT - 1
             /\ (PipeInc(nwrite) - nread) % UINT = cnt + 1
  <1> USE PipeAssumption
  <1>1. PipeInc(nwrite) = IF nwrite + 1 < UINT THEN nwrite + 1 ELSE 0
    BY DEF PipeInc
  <1>2. cnt = IF nwrite >= nread THEN nwrite - nread ELSE nwrite - nread + UINT
    BY RingCount, Zenon
  <1>3. CASE PipeInc(nwrite) >= nread
    BY <1>1, <1>2, <1>3
  <1>4. CASE PipeInc(nwrite) < nread
    <2>1. (PipeInc(nwrite) - nread) % UINT = PipeInc(nwrite) - nread + UINT
      BY <1>1, <1>4
    <2>. QED  BY <1>1, <1>2, <1>4, <2>1
  <1>. QED  BY <1>1, <1>3, <1>4

(* piperead, nread++: one byte fewer, also when nread wraps around. *)
LEMMA RingTake ==
    ASSUME nread \in 0 .. UINT - 1, nwrite \in 0 .. UINT - 1, cnt > 0
    PROVE  PipeInc(nread) \in 0 .. UINT - 1
             /\ (nwrite - PipeInc(nread)) % UINT = cnt - 1
  <1> USE PipeAssumption
  <1>1. PipeInc(nread) = IF nread + 1 < UINT THEN nread + 1 ELSE 0
    BY DEF PipeInc
  <1>2. cnt = IF nwrite >= nread THEN nwrite - nread ELSE nwrite - nread + UINT
    BY RingCount, Zenon
  <1>3. CASE nwrite >= PipeInc(nread)
    BY <1>1, <1>2, <1>3
  <1>4. CASE nwrite < PipeInc(nread)
    <2>1. (nwrite - PipeInc(nread)) % UINT = nwrite - PipeInc(nread) + UINT
      BY <1>1, <1>4
    <2>. QED  BY <1>1, <1>2, <1>4, <2>1
  <1>. QED  BY <1>1, <1>3, <1>4

(* The bytes of the pipe are at different places of the buffer, and the    *)
(* next one goes to a place that none of them has.                         *)
Place(k) == ((nread + k - 1) % UINT) % PIPESIZE

(* The bytes in the pipe lie in the buffer, each in a place of its own,    *)
(* and nwrite % PIPESIZE is the place after the last.                      *)
LEMMA Places ==
    ASSUME nread \in 0 .. UINT - 1, nwrite \in 0 .. UINT - 1, cnt <= PIPESIZE
    PROVE  /\ \A k \in 1 .. cnt : Place(k) \in 0 .. PIPESIZE - 1
           /\ nwrite % PIPESIZE \in 0 .. PIPESIZE - 1
           /\ nwrite % PIPESIZE = Place(cnt + 1)
           /\ cnt < PIPESIZE => \A k \in 1 .. cnt : Place(k) # nwrite % PIPESIZE
           /\ Place(1) = nread % PIPESIZE
  <1> USE PipeAssumption
  <1>1. cnt \in 0 .. UINT - 1 /\ nwrite = (nread + cnt) % UINT
    BY RingCount, Zenon
  <1>2. ASSUME NEW k \in 1 .. cnt + 1
        PROVE  Place(k) = (nread + k - 1) % PIPESIZE
                 /\ Place(k) \in 0 .. PIPESIZE - 1
    <2> DEFINE a == nread + k - 1
    <2>1. a \in 0 .. 2 * UINT - 1 /\ UINT \in Nat \ {0}
      BY <1>1
    <2> HIDE DEF a
    <2>2. (a % UINT) % PIPESIZE = a % PIPESIZE
      BY <2>1, ModMod, ZenonT(30)
    <2>3. a % PIPESIZE \in 0 .. PIPESIZE - 1
      BY <2>1
    <2>. QED  BY <2>2, <2>3, Zenon DEF Place, a
  <1>3. nwrite % PIPESIZE = Place(cnt + 1)
    BY <1>1 DEF Place
  <1>4. ASSUME cnt < PIPESIZE, NEW k \in 1 .. cnt
        PROVE  Place(k) # Place(cnt + 1)
    <2>1. Place(k) = (nread + k - 1) % PIPESIZE
            /\ Place(cnt + 1) = (nread + cnt) % PIPESIZE
      BY <1>1, <1>2
    <2> DEFINE a == nread + k - 1
               b == nread + cnt
    <2>2. a \in Int /\ b \in Int /\ a < b /\ b < a + PIPESIZE
      BY <1>1, <1>4
    <2> HIDE DEF a, b
    <2>3. a % PIPESIZE # b % PIPESIZE
      BY <2>2, ModDistinct, Zenon
    <2>. QED  BY <2>1, <2>3, Zenon DEF a, b
  <1>5. nread % UINT = nread
    OBVIOUS
  <1>6. Place(1) = nread % PIPESIZE
    BY <1>5 DEF Place
  <1>. QED  BY <1>1, <1>2, <1>3, <1>4, <1>6

-----------------------------------------------------------------------------
InLoop == {"writing", "checking", "reading", "sleep"}

(* The calls of the two kinds of process, and pi->lock: the process in the *)
(* loop of its call has it, and one that sleeps does not.                  *)
Held ==
    /\ done \in [Process -> Nat]
    /\ \A t \in Process : ppc[t] = "user" => done[t] = 0
    /\ \A t \in Process : lock = t <=> ppc[t] \in InLoop
    /\ \A t \in Writer : /\ ppc[t] \notin {"read", "checking", "reading"}
                         /\ pchan[t] # "nread"
    /\ \A t \in Reader : /\ ppc[t] \notin {"write", "writing"}
                         /\ pchan[t] # "nwrite"
    /\ \A t \in Process : pchan[t] # "none" => ppc[t] \in {"write", "read"}

(* A process in a call has its end open, and an end that a process has     *)
(* open is not closed.                                                     *)
EndsOpen ==
    /\ \A t \in Process : ppc[t] # "user" => t \in users
    /\ \A t \in users : /\ t \in Reader => readopen
                        /\ t \in Writer => writeopen
    /\ frees = IF readopen \/ writeopen THEN 0 ELSE 1

(* nwrite is at most PIPESIZE ahead of nread. *)
Bounded == (nwrite - nread) % UINT <= PIPESIZE

(* A writer that is about to sleep, or asleep, finds the pipe full, unless *)
(* a reader is taking bytes out and is going to wake it.                   *)
WritersWait ==
    /\ \A t \in Writer : ppc[t] = "sleep" => Full /\ readopen
    /\ (\E t \in Writer : pchan[t] = "nwrite") =>
           (Full /\ readopen) \/ (\E r \in Reader : ppc[r] = "reading")

(* The same for a reader, and a read that has got nothing yet has          *)
(* something to get, or is at the end of the file.                         *)
ReadersWait ==
    /\ \A t \in Reader : ppc[t] = "sleep" => MustWait
    /\ \A t \in Reader : ppc[t] = "reading" /\ done[t] = 0 => ~MustWait

PipeInv ==
    PipeTypeOK /\ Held /\ EndsOpen /\ Bounded /\ WritersWait /\ ReadersWait

(* As long as no writer is killed, readers that sleep find the pipe empty, *)
(* unless a writer is putting bytes in and is going to wake them.          *)
ReadersWoken ==
    /\ pkilled \cap Writer = {}
    /\ (\E t \in Reader : pchan[t] = "nread") =>
           MustWait \/ (\E w \in Writer : ppc[w] = "writing")

-----------------------------------------------------------------------------
(* pipealloc: an empty pipe with both ends open, and nobody in a call. *)
LEMMA PipeInitially == PipeInit => PipeInv
  <1> SUFFICES ASSUME PipeInit PROVE PipeInv
    OBVIOUS
  <1> USE PipeAssumption DEF PipeInit
  <1>1. PipeTypeOK
    BY DEF PipeTypeOK, Process
  <1>2. Held
    BY Zenon DEF Held, Process, InLoop
  <1>3. EndsOpen /\ WritersWait /\ ReadersWait
    BY Zenon DEF EndsOpen, WritersWait, ReadersWait, Process
  <1>4. Bounded
    <2>1. cnt = 0
      BY RingCount DEF Empty
    <2>. QED  BY <2>1 DEF Bounded, cnt
  <1>. QED  BY <1>1, <1>2, <1>3, <1>4, Zenon DEF PipeInv

(* The lengths passed to read and write, and the 0 of a call not yet made, *)
(* are natural numbers.                                                    *)
LEMMA SizesAreNat == \A k \in Sizes \cup {0} : k \in Nat
  BY PipeAssumption

(* A byte more does not exceed what was asked for. *)
LEMMA OneByteMore ==
    ASSUME PipeTypeOK, Held, NEW t \in Process, done[t] < n[t], Count(t)
    PROVE  \A p \in Process : done'[p] \in 0 .. n[p]
  <1> SUFFICES ASSUME NEW p \in Process PROVE done'[p] \in 0 .. n[p]
    BY Zenon
  <1>1. n[p] \in Nat /\ done[p] \in 0 .. n[p] /\ done[p] \in Nat
    <2>1. n[p] \in Nat
      <3>1. n[p] \in Sizes \cup {0}
        BY Zenon DEF PipeTypeOK
      <3>. QED  BY <3>1, SizesAreNat, Zenon
    <2>. QED  BY <2>1, Zenon DEF PipeTypeOK, Held
  <1>2. done'[p] = IF p = t THEN done[p] + 1 ELSE done[p]
    BY Zenon DEF Held, Count
  <1>. QED  BY <1>1, <1>2

(* A call of read or write begins, while the caller's end is open. *)
LEMMA pipecall_inv ==
    ASSUME PipeInv, NEW t \in Process, NEW m \in Sizes, pipecall(t, m)
    PROVE  PipeInv'
  <1> USE PipeAssumption DEF PipeInv, Process
  <1>1. PipeTypeOK'
    BY DEF PipeTypeOK, Held, pipecall, PipeGoto, pipevars, endvars
  <1>2. Held'
    BY DEF Held, InLoop, PipeTypeOK, pipecall, PipeGoto, pipevars, endvars
  <1>3. EndsOpen'
    BY DEF EndsOpen, PipeTypeOK, Held, pipecall, PipeGoto, pipevars, endvars
  <1>4. Bounded'
    BY Zenon DEF Bounded, pipecall, PipeGoto, pipevars, endvars
  <1>5. WritersWait'
    BY Zenon DEF WritersWait, Full, PipeTypeOK, Held, InLoop, EndsOpen, pipecall,
           PipeGoto, pipevars, endvars
  <1>6. ReadersWait'
    BY Zenon DEF ReadersWait, MustWait, Empty, PipeTypeOK, Held, InLoop, EndsOpen,
           pipecall, PipeGoto, pipevars, endvars
  <1>. QED  BY <1>1, <1>2, <1>3, <1>4, <1>5, <1>6, Zenon

(* A thread enters pipewrite or piperead, or comes back from sleep: it     *)
(* acquires pi->lock, which nobody held.                                   *)
LEMMA acquire_inv ==
    ASSUME PipeInv, NEW t \in Process, acquire(t)
    PROVE  PipeInv'
  <1> USE PipeAssumption DEF PipeInv, Process
  <1>1. PipeTypeOK'
    BY Zenon DEF PipeTypeOK, Held, acquire, PipeGoto, pipevars, endvars
  <1>2. Held'
    BY DEF Held, InLoop, PipeTypeOK, acquire, PipeGoto, pipevars, endvars
  <1>3. EndsOpen'
    BY Zenon DEF EndsOpen, PipeTypeOK, Held, acquire, PipeGoto, pipevars, endvars
  <1>4. Bounded'
    BY Zenon DEF Bounded, acquire, PipeGoto, pipevars, endvars
  <1>5. WritersWait'
    BY Zenon DEF WritersWait, Full, PipeTypeOK, Held, InLoop, EndsOpen, acquire,
           PipeGoto, pipevars, endvars
  <1>6. ReadersWait'
    BY Zenon DEF ReadersWait, MustWait, Empty, PipeTypeOK, Held, InLoop, EndsOpen,
           acquire, PipeGoto, pipevars, endvars
  <1>. QED  BY <1>1, <1>2, <1>3, <1>4, <1>5, <1>6

(* sleep gives pi->lock up only after the thread is on its channel, so     *)
(* nothing that it waits for can have happened in between.                 *)
LEMMA sleep_inv ==
    ASSUME PipeInv, NEW t \in Process, sleep(t)
    PROVE  PipeInv'
  <1> USE PipeAssumption DEF PipeInv, Process
  <1>1. PipeTypeOK'
    BY Zenon DEF PipeTypeOK, Held, sleep, PipeGoto, Holds, Release, pipevars, endvars
  <1>2. Held'
    BY DEF Held, InLoop, PipeTypeOK, sleep, PipeGoto, Holds, Release,
           pipevars, endvars
  <1>3. EndsOpen'
    BY Zenon DEF EndsOpen, PipeTypeOK, Held, sleep, PipeGoto, Holds, Release,
           pipevars, endvars
  <1>4. Bounded'
    BY Zenon DEF Bounded, sleep, PipeGoto, Holds, Release, pipevars, endvars
  <1>5. WritersWait'
    BY Zenon DEF WritersWait, Full, PipeTypeOK, Held, InLoop, EndsOpen, sleep,
           PipeGoto, Holds, Release, pipevars, endvars
  <1>6. ReadersWait'
    BY Zenon DEF ReadersWait, MustWait, Empty, PipeTypeOK, Held, InLoop, EndsOpen,
           sleep, PipeGoto, Holds, Release, pipevars, endvars
  <1>. QED  BY <1>1, <1>2, <1>3, <1>4, <1>5, <1>6, ZenonT(30)

(* kill marks the victim and takes it off the channel it sleeps on; what   *)
(* the others wait for stays.                                              *)
LEMMA pkill_inv ==
    ASSUME PipeInv, NEW t \in Process, pkill(t)
    PROVE  PipeInv'
  <1> USE PipeAssumption DEF PipeInv, Process
  <1>1. PipeTypeOK'
    BY DEF PipeTypeOK, Held, pkill, pipevars, endvars
  <1>2. Held'
    BY Zenon DEF Held, InLoop, PipeTypeOK, pkill, pipevars, endvars
  <1>3. EndsOpen'
    BY Zenon DEF EndsOpen, PipeTypeOK, Held, pkill, pipevars, endvars
  <1>4. Bounded'
    BY Zenon DEF Bounded, pkill, pipevars, endvars
  <1>5. WritersWait'
    BY Zenon DEF WritersWait, Full, PipeTypeOK, Held, InLoop, EndsOpen, pkill,
           pipevars, endvars
  <1>6. ReadersWait'
    BY Zenon DEF ReadersWait, MustWait, Empty, PipeTypeOK, Held, InLoop, EndsOpen,
           pkill, pipevars, endvars
  <1>. QED  BY <1>1, <1>2, <1>3, <1>4, <1>5, <1>6, ZenonT(30)

(* pipewrite gives up when the reader has gone or the caller is killed,    *)
(* without touching the buffer.                                            *)
LEMMA pipewrite_abort_inv ==
    ASSUME PipeInv, NEW t \in Writer, pipewrite_abort(t)
    PROVE  PipeInv'
  <1> USE PipeAssumption DEF PipeInv, Process
  <1>1. PipeTypeOK'
    BY DEF PipeTypeOK, Held, pipewrite_abort, Holds, Return, Release,
           PipeGoto, pipevars, endvars
  <1>2. Held'
    BY DEF Held, InLoop, PipeTypeOK, pipewrite_abort, Holds, Return, Release,
           PipeGoto, pipevars, endvars
  <1>3. EndsOpen'
    BY Zenon DEF EndsOpen, PipeTypeOK, Held, pipewrite_abort, Holds, Return,
           Release, PipeGoto, pipevars, endvars
  <1>4. Bounded'
    BY Zenon DEF Bounded, pipewrite_abort, Holds, Return, Release, PipeGoto,
           pipevars, endvars
  <1>5. WritersWait'
    BY Zenon DEF WritersWait, Full, PipeTypeOK, Held, InLoop, EndsOpen,
           pipewrite_abort, Holds, Return, Release, PipeGoto, pipevars, endvars
  <1>6. ReadersWait'
    BY Zenon DEF ReadersWait, MustWait, Empty, PipeTypeOK, Held, InLoop, EndsOpen,
           pipewrite_abort, Holds, Return, Release, PipeGoto, pipevars, endvars
  <1>. QED  BY <1>1, <1>2, <1>3, <1>4, <1>5, <1>6

(* pipewrite finds the buffer full: it wakes the readers before it goes to *)
(* sleep.                                                                  *)
LEMMA pipewrite_full_inv ==
    ASSUME PipeInv, NEW t \in Writer, pipewrite_full(t)
    PROVE  PipeInv'
  <1> USE PipeAssumption DEF PipeInv, Process
  <1>1. PipeTypeOK'
    BY Zenon DEF PipeTypeOK, Held, pipewrite_full, Holds, WakeReaders, pwakeup,
           PipeGoto, pipevars, endvars
  <1>2. Held'
    BY Zenon DEF Held, InLoop, PipeTypeOK, pipewrite_full, Holds, WakeReaders,
           pwakeup, PipeGoto, pipevars, endvars
  <1>3. EndsOpen'
    BY Zenon DEF EndsOpen, PipeTypeOK, Held, pipewrite_full, Holds, WakeReaders,
           pwakeup, PipeGoto, pipevars, endvars
  <1>4. Bounded'
    BY Zenon DEF Bounded, pipewrite_full, Holds, WakeReaders, pwakeup, PipeGoto,
           pipevars, endvars
  <1>5. WritersWait'
    BY Zenon DEF WritersWait, Full, PipeTypeOK, Held, InLoop, EndsOpen,
           pipewrite_full, Holds, WakeReaders, pwakeup, PipeGoto, pipevars,
           endvars
  <1>6. ReadersWait'
    BY Zenon DEF ReadersWait, MustWait, Empty, PipeTypeOK, Held, InLoop, EndsOpen,
           pipewrite_full, Holds, WakeReaders, pwakeup, PipeGoto, pipevars,
           endvars
  <1>. QED  BY <1>1, <1>2, <1>3, <1>4, <1>5, <1>6, ZenonT(30)

(* pipewrite stores a byte in a buffer that is not full, so at most        *)
(* PIPESIZE bytes are in it.                                               *)
LEMMA pipewrite_byte_inv ==
    ASSUME PipeInv, NEW t \in Writer, NEW b \in Byte, pipewrite_byte(t, b)
    PROVE  PipeInv'
  <1> USE PipeAssumption DEF PipeInv, Process
  <1>0. cnt < PIPESIZE /\ nwrite' = PipeInc(nwrite) /\ nread' = nread
    <2>1. cnt # PIPESIZE /\ cnt <= PIPESIZE /\ cnt \in Nat
      BY RingCount DEF PipeTypeOK, Bounded, cnt, pipewrite_byte
    <2>. QED  BY <2>1 DEF pipewrite_byte
  <1>1. PipeTypeOK'
    <2>1. nwrite' \in 0 .. UINT - 1
      BY <1>0, RingPut, Zenon DEF PipeTypeOK
    <2>2. pipedata' \in [0 .. PIPESIZE - 1 -> Byte]
      BY Zenon DEF PipeTypeOK, pipewrite_byte
    <2>3. \A p \in Process : done'[p] \in 0 .. n[p]
      BY OneByteMore, Zenon DEF pipewrite_byte
    <2>. QED  BY <2>1, <2>2, <2>3, Zenon DEF PipeTypeOK, pipewrite_byte, endvars
  <1>2. Held'
    BY DEF Held, InLoop, PipeTypeOK, pipewrite_byte, Holds, Count, pipevars,
           endvars
  <1>3. EndsOpen'
    BY Zenon DEF EndsOpen, PipeTypeOK, Held, pipewrite_byte, Holds, Count, pipevars,
           endvars
  <1>4. Bounded'
    <2>1. (nwrite' - nread') % UINT = cnt + 1
      BY <1>0, RingPut, Zenon DEF PipeTypeOK
    <2>2. cnt \in Int
      BY RingCount DEF PipeTypeOK
    <2>. QED  BY <1>0, <2>1, <2>2 DEF Bounded
  <1>5. WritersWait'
    BY Zenon DEF WritersWait, Full, PipeTypeOK, Held, InLoop, EndsOpen,
           pipewrite_byte, Holds, Count, pipevars, endvars
  <1>6. ReadersWait'
    BY Zenon DEF ReadersWait, MustWait, Empty, PipeTypeOK, Held, InLoop, EndsOpen,
           pipewrite_byte, Holds, Count, pipevars, endvars
  <1>. QED  BY <1>1, <1>2, <1>3, <1>4, <1>5, <1>6, Zenon

(* pipewrite has written all: it wakes the readers and releases pi->lock. *)
LEMMA pipewrite_return_inv ==
    ASSUME PipeInv, NEW t \in Writer, pipewrite_return(t)
    PROVE  PipeInv'
  <1> USE PipeAssumption DEF PipeInv, Process
  <1>1. PipeTypeOK'
    BY DEF PipeTypeOK, Held, pipewrite_return, Holds, WakeReaders, pwakeup,
           Return, Release, PipeGoto, pipevars, endvars
  <1>2. Held'
    BY DEF Held, InLoop, PipeTypeOK, pipewrite_return, Holds, WakeReaders,
           pwakeup, Return, Release, PipeGoto, pipevars, endvars
  <1>3. EndsOpen'
    BY Zenon DEF EndsOpen, PipeTypeOK, Held, pipewrite_return, Holds, WakeReaders,
           pwakeup, Return, Release, PipeGoto, pipevars, endvars
  <1>4. Bounded'
    BY Zenon DEF Bounded, pipewrite_return, Holds, WakeReaders, pwakeup, Return,
           Release, PipeGoto, pipevars, endvars
  <1>5. WritersWait'
    BY Zenon DEF WritersWait, Full, PipeTypeOK, Held, InLoop, EndsOpen,
           pipewrite_return, Holds, WakeReaders, pwakeup, Return, Release,
           PipeGoto, pipevars, endvars
  <1>6. ReadersWait'
    BY Zenon DEF ReadersWait, MustWait, Empty, PipeTypeOK, Held, InLoop, EndsOpen,
           pipewrite_return, Holds, WakeReaders, pwakeup, Return, Release,
           PipeGoto, pipevars, endvars
  <1>. QED  BY <1>1, <1>2, <1>3, <1>4, <1>5, <1>6, ZenonT(30)

(* piperead finds the pipe empty and a writer left: it returns if killed   *)
(* and is about to sleep if not.                                           *)
LEMMA piperead_wait_inv ==
    ASSUME PipeInv, NEW t \in Reader, piperead_wait(t)
    PROVE  PipeInv'
  <1> USE PipeAssumption DEF PipeInv, Process
  <1>0. \/ Return(t)
        \/ PipeGoto(t, "sleep") /\ UNCHANGED <<lock, done, n>>
    BY Zenon DEF piperead_wait
  <1>1. PipeTypeOK'
    <2>1. CASE Return(t)
      BY <2>1
         DEF PipeTypeOK, Held, piperead_wait, Return, Release, PipeGoto,
             pipevars, endvars
    <2>2. CASE PipeGoto(t, "sleep") /\ UNCHANGED <<lock, done, n>>
      BY <2>2, Zenon DEF PipeTypeOK, Held, piperead_wait, PipeGoto, pipevars, endvars
    <2>. QED  BY <1>0, <2>1, <2>2, Zenon
  <1>2. Held'
    <2>1. CASE Return(t)
      BY <2>1
         DEF Held, InLoop, PipeTypeOK, piperead_wait, Holds, Return, Release,
             PipeGoto
    <2>2. CASE PipeGoto(t, "sleep") /\ UNCHANGED <<lock, done, n>>
      BY <2>2, Zenon DEF Held, InLoop, PipeTypeOK, piperead_wait, Holds, PipeGoto
    <2>. QED  BY <1>0, <2>1, <2>2, Zenon
  <1>3. EndsOpen'
    BY DEF EndsOpen, PipeTypeOK, Held, piperead_wait, Holds, Return, Release,
           PipeGoto, pipevars, endvars
  <1>4. Bounded'
    BY Zenon DEF Bounded, piperead_wait, Holds, Return, Release, PipeGoto, pipevars,
           endvars
  <1>5. WritersWait'
    BY DEF WritersWait, Full, PipeTypeOK, Held, InLoop, EndsOpen,
           piperead_wait, Holds, Return, Release, PipeGoto, pipevars, endvars
  <1>6. ReadersWait'
    BY DEF ReadersWait, MustWait, Empty, PipeTypeOK, Held, InLoop, EndsOpen,
           piperead_wait, Holds, Return, Release, PipeGoto, pipevars, endvars
  <1>. QED  BY <1>1, <1>2, <1>3, <1>4, <1>5, <1>6

(* piperead leaves its loop: there are bytes, or no writer is left. *)
LEMMA piperead_start_inv ==
    ASSUME PipeInv, NEW t \in Reader, piperead_start(t)
    PROVE  PipeInv'
  <1> USE PipeAssumption DEF PipeInv, Process
  <1>1. PipeTypeOK'
    BY Zenon DEF PipeTypeOK, Held, piperead_start, Holds, PipeGoto, pipevars, endvars
  <1>2. Held'
    BY Zenon DEF Held, InLoop, PipeTypeOK, piperead_start, Holds, PipeGoto,
           pipevars, endvars
  <1>3. EndsOpen'
    BY Zenon DEF EndsOpen, PipeTypeOK, Held, piperead_start, Holds, PipeGoto,
           pipevars, endvars
  <1>4. Bounded'
    BY Zenon DEF Bounded, piperead_start, Holds, PipeGoto, pipevars, endvars
  <1>5. WritersWait'
    BY Zenon DEF WritersWait, Full, PipeTypeOK, Held, InLoop, EndsOpen,
           piperead_start, Holds, PipeGoto, pipevars, endvars
  <1>6. ReadersWait'
    BY Zenon DEF ReadersWait, MustWait, Empty, PipeTypeOK, Held, InLoop, EndsOpen,
           piperead_start, Holds, PipeGoto, pipevars, endvars
  <1>. QED  BY <1>1, <1>2, <1>3, <1>4, <1>5, <1>6, ZenonT(30)

(* piperead takes a byte from a buffer that is not empty; if it cannot be  *)
(* copied out, the call ends and the writers are woken.                    *)
LEMMA piperead_byte_inv ==
    ASSUME PipeInv, NEW t \in Reader, piperead_byte(t)
    PROVE  PipeInv'
  <1> USE PipeAssumption DEF PipeInv, Process
  <1> DEFINE Copied == Count(t) /\ UNCHANGED <<pchan, lock, ppc, n>>
             Fails == WakeWriters /\ Return(t)
  <1>0. /\ Copied \/ Fails
        /\ cnt > 0 /\ nread' = PipeInc(nread) /\ nwrite' = nwrite
    BY RingCount DEF PipeTypeOK, piperead_byte
  <1>1. PipeTypeOK'
    <2>1. nread' \in 0 .. UINT - 1
      BY <1>0, RingTake, Zenon DEF PipeTypeOK
    <2>2. ch' \in [Reader -> Byte]
      <3>1. nread % PIPESIZE \in 0 .. PIPESIZE - 1
        BY DEF PipeTypeOK
      <3>. QED  BY <3>1, Zenon DEF PipeTypeOK, piperead_byte
    <2>3. UNCHANGED <<pipedata, nwrite, endvars, pkilled>> /\ done[t] < n[t]
      BY Zenon DEF piperead_byte
    <2>4. CASE Copied
      <3>1. \A p \in Process : done'[p] \in 0 .. n[p]
        BY <2>3, <2>4, OneByteMore, ZenonT(30)
      <3>. QED  BY <2>1, <2>2, <2>3, <2>4, <3>1, ZenonT(30) DEF PipeTypeOK, endvars
    <2>5. CASE Fails
      BY <2>1, <2>2, <2>3, <2>5
         DEF PipeTypeOK, Held, WakeWriters, pwakeup, Return, Release,
                                    PipeGoto, endvars
    <2>. QED  BY <1>0, <2>4, <2>5, Zenon
  <1>2. Held'
    <2>1. CASE Copied
      BY <2>1 DEF Held, InLoop, PipeTypeOK, piperead_byte, Holds, Count
    <2>2. CASE Fails
      BY <2>2
         DEF Held, InLoop, PipeTypeOK, piperead_byte, Holds, WakeWriters,
             pwakeup, Return,
                  Release, PipeGoto
    <2>. QED  BY <1>0, <2>1, <2>2, Zenon
  <1>3. EndsOpen'
    BY DEF EndsOpen, PipeTypeOK, Held, piperead_byte, Holds, Count,
           WakeWriters, pwakeup, Return, Release, PipeGoto, pipevars, endvars
  <1>4. Bounded'
    <2>1. (nwrite' - nread') % UINT = cnt - 1
      BY <1>0, RingTake, Zenon DEF PipeTypeOK
    <2>2. cnt \in Int /\ cnt <= PIPESIZE
      BY RingCount DEF PipeTypeOK, Bounded, cnt
    <2>. QED  BY <2>1, <2>2 DEF Bounded
  <1>5. WritersWait'
    BY DEF WritersWait, Full, PipeTypeOK, Held, InLoop, EndsOpen,
           piperead_byte, Holds, Count, WakeWriters, pwakeup, Return, Release,
           PipeGoto, pipevars, endvars
  <1>6. ReadersWait'
    BY DEF ReadersWait, MustWait, Empty, PipeTypeOK, Held, InLoop, EndsOpen,
           piperead_byte, Holds, Count, WakeWriters, pwakeup, Return, Release,
           PipeGoto, pipevars, endvars
  <1>. QED  BY <1>1, <1>2, <1>3, <1>4, <1>5, <1>6, ZenonT(30)

(* piperead has what it asked for or finds the pipe empty: it wakes the    *)
(* writers and releases pi->lock.                                          *)
LEMMA piperead_return_inv ==
    ASSUME PipeInv, NEW t \in Reader, piperead_return(t)
    PROVE  PipeInv'
  <1> USE PipeAssumption DEF PipeInv, Process
  <1>1. PipeTypeOK'
    BY DEF PipeTypeOK, Held, piperead_return, Holds, WakeWriters, pwakeup,
           Return, Release, PipeGoto, pipevars, endvars
  <1>2. Held'
    BY DEF Held, InLoop, PipeTypeOK, piperead_return, Holds, WakeWriters,
           pwakeup, Return, Release, PipeGoto, pipevars, endvars
  <1>3. EndsOpen'
    BY Zenon DEF EndsOpen, PipeTypeOK, Held, piperead_return, Holds, WakeWriters,
           pwakeup, Return, Release, PipeGoto, pipevars, endvars
  <1>4. Bounded'
    BY Zenon DEF Bounded, piperead_return, Holds, WakeWriters, pwakeup, Return,
           Release, PipeGoto, pipevars, endvars
  <1>5. WritersWait'
    BY Zenon DEF WritersWait, Full, PipeTypeOK, Held, InLoop, EndsOpen,
           piperead_return, Holds, WakeWriters, pwakeup, Return, Release,
           PipeGoto, pipevars, endvars
  <1>6. ReadersWait'
    BY Zenon DEF ReadersWait, MustWait, Empty, PipeTypeOK, Held, InLoop, EndsOpen,
           piperead_return, Holds, WakeWriters, pwakeup, Return, Release,
           PipeGoto, pipevars, endvars
  <1>. QED  BY <1>1, <1>2, <1>3, <1>4, <1>5, <1>6, SMTT(30)

(* pipeclose closes one end and wakes those who wait at the other; the     *)
(* call that closes the second end frees the pipe.                         *)
LEMMA pipe_close_inv ==
    ASSUME PipeInv, NEW t \in Process, pipe_close(t)
    PROVE  PipeInv'
  <1> USE PipeAssumption DEF PipeInv, Process
  <1>1. PipeTypeOK'
    <2>1. frees' \in 0 .. 1
      BY DEF EndsOpen, PipeTypeOK, pipe_close, BothClosed
    <2>2. pchan' \in [Process -> {"none", "nread", "nwrite"}]
      <3>1. pchan' = pchan \/ pchan' = pwakeup("nread")
              \/ pchan' = pwakeup("nwrite")
        BY Zenon DEF pipe_close, WakeReaders, WakeWriters
      <3>. QED  BY <3>1, Zenon DEF PipeTypeOK, pwakeup
    <2>3. readopen' \in BOOLEAN /\ writeopen' \in BOOLEAN
            /\ users' \subseteq Process
      BY ZenonT(30) DEF PipeTypeOK, pipe_close
    <2>. QED  BY <2>1, <2>2, <2>3, Zenon DEF PipeTypeOK, pipe_close, pipevars
  <1>2. Held'
    BY DEF Held, InLoop, PipeTypeOK, pipe_close, WakeReaders, WakeWriters,
           pwakeup, BothClosed, pipevars, endvars
  <1>3. EndsOpen'
    BY DEF EndsOpen, PipeTypeOK, Held, pipe_close, WakeReaders, WakeWriters,
           pwakeup, BothClosed, pipevars, endvars
  <1>4. Bounded'
    BY Zenon DEF Bounded, pipe_close, WakeReaders, WakeWriters, pwakeup, BothClosed,
           pipevars, endvars
  <1>5. WritersWait'
    BY DEF WritersWait, Full, PipeTypeOK, Held, InLoop, EndsOpen, pipe_close,
           WakeReaders, WakeWriters, pwakeup, BothClosed, pipevars, endvars
  <1>6. ReadersWait'
    BY DEF ReadersWait, MustWait, Empty, PipeTypeOK, Held, InLoop, EndsOpen,
           pipe_close, WakeReaders, WakeWriters, pwakeup, BothClosed,
           pipevars, endvars
  <1>. QED  BY <1>1, <1>2, <1>3, <1>4, <1>5, <1>6, SMTT(30)

-----------------------------------------------------------------------------
(* pipe.c: the counters stay within PIPESIZE of each other, the process in *)
(* the loop of a call has pi->lock, and one that sleeps has a reason to.   *)
THEOREM PipeInductive == PipeSpec => []PipeInv
  <1>1. PipeInv /\ [PipeNext]_pvars => PipeInv'
    <2> SUFFICES ASSUME PipeInv, [PipeNext]_pvars PROVE PipeInv'
      BY Zenon
    <2>1. ASSUME NEW t \in Process, Step(t) PROVE PipeInv'
      BY <2>1, acquire_inv, sleep_inv, pipewrite_abort_inv, pipewrite_full_inv,
         pipewrite_return_inv, pipewrite_byte_inv, piperead_wait_inv,
           piperead_start_inv,
         piperead_byte_inv, piperead_return_inv, ZenonT(30) DEF Step
    <2>2. CASE UNCHANGED pvars
      BY <2>2, Zenon
         DEF pvars, pipevars, endvars, PipeInv, PipeTypeOK, Held, EndsOpen,
             Bounded,
                  WritersWait, ReadersWait, Full, MustWait, Empty
    <2>. QED  BY <2>1, <2>2, pkill_inv, pipe_close_inv, pipecall_inv, Zenon
                 DEF PipeNext, Gone
  <1>. QED  BY <1>1, PipeInitially, PTL DEF PipeSpec

(* pipeclose frees the page once, with the last close, and no call is in   *)
(* the pipe then.                                                          *)
THEOREM LastCloseFrees == PipeSpec => []FreedByTheLastClose
  <1>1. PipeInv => FreedByTheLastClose
    <2> SUFFICES ASSUME PipeInv PROVE FreedByTheLastClose
      BY Zenon
    <2>1. ASSUME frees > 0, NEW t \in Process
          PROVE  ppc[t] = "user" /\ pchan[t] = "none"
      BY <2>1 DEF PipeInv, EndsOpen, Held, Process
    <2>. QED  BY <2>1, Zenon DEF PipeInv, EndsOpen, FreedByTheLastClose
  <1>. QED  BY <1>1, PipeInductive, PTL

(* piperead returns 0 for a read of at least one byte, by a process that   *)
(* is not killed, only when the pipe is empty and has no write end.        *)
THEOREM ZeroMeansEnd == PipeSpec => ZeroIsEndOfFile
  <1> DEFINE Ends(t) == /\ ppc[t] \in {"checking", "reading"} /\ ppc'[t] = "user"
                        /\ done[t] = 0 /\ n[t] > 0 /\ nread' = nread
                           /\ t \notin pkilled
  <1>1. ASSUME PipeInv, [PipeNext]_pvars, NEW t \in Reader, Ends(t)
        PROVE  Empty /\ ~writeopen
    <2>1. lock = t /\ t \in Process
      BY <1>1, Zenon DEF PipeInv, Held, InLoop, Process
    <2>2. ppc' # ppc
      BY <1>1, Zenon
    <2>3. ASSUME NEW p \in Process, p # t, \/ Step(p) \/ pkill(p)
                   \/ pipe_close(p)
                                            \/ \E m \in Sizes : pipecall(p, m)
          PROVE  FALSE
      <3>1. ~Step(p)
        BY <2>1, <2>3, PipeAssumption, ZenonT(30)
           DEF Step, acquire, sleep, Holds, Process, pipewrite_abort,
               pipewrite_full, pipewrite_byte,
               pipewrite_return, piperead_wait, piperead_start, piperead_byte,
                 piperead_return
      <3>2. ppc'[t] = ppc[t]
        BY <1>1, <2>1, <2>3, <3>1, ZenonT(30)
           DEF PipeInv, PipeTypeOK, pkill, pipe_close, pipecall, PipeGoto
      <3>. QED  BY <1>1, <3>2, Zenon
    <2>4. piperead_return(t)
      <3>1. PipeInc(nread) # nread
        <4>1. PipeInc(nread) = IF nread + 1 < UINT THEN nread + 1 ELSE 0
          <5>1. nread \in 0 .. UINT - 1
            BY <1>1, Zenon DEF PipeInv, PipeTypeOK
          <5>. QED  BY <5>1, PipeAssumption DEF PipeInc
        <4>. QED  BY <1>1, <4>1, PipeAssumption DEF PipeInv, PipeTypeOK
      <3>2. Step(t)
        BY <1>1, <2>1, <2>2, <2>3, Zenon
           DEF PipeNext, Gone, pvars, pkill, pipe_close, pipecall
      <3>3. t \notin Writer
        BY PipeAssumption, Zenon
      <3>. QED  BY <1>1, <3>1, <3>2, <3>3, ZenonT(30)
                DEF PipeInv, PipeTypeOK, Process, Step, acquire, sleep, Holds,
                    PipeGoto, piperead_wait, piperead_start,
                    piperead_byte
    <2>. QED  BY <1>1, <2>4
                 DEF piperead_return, Holds, PipeInv, PipeTypeOK, ReadersWait,
                     MustWait
  <1>2. PipeInv /\ [PipeNext]_pvars =>
          [\A t \in Reader : Ends(t) => Empty /\ ~writeopen]_pvars
    BY <1>1, Zenon
  <1>. QED  BY <1>2, PipeInductive, PTL DEF PipeSpec, ZeroIsEndOfFile

-----------------------------------------------------------------------------
(* piperead, pipewrite and pipeclose: if no writer can be killed, no       *)
(* wakeup is lost.  pipewrite returns without a wakeup when its process    *)
(* has been killed, which is why the theorem needs the assumption.         *)
THEOREM NoPipeWakeupIsLost ==
    ASSUME Killable \cap Writer = {}
    PROVE  PipeSpec => []NoLostPipeWakeup
  <1>1. PipeInit => ReadersWoken
    BY Zenon DEF PipeInit, ReadersWoken, Process
  <1>2. ASSUME PipeInv, ReadersWoken, [PipeNext]_pvars PROVE ReadersWoken'
    <2> USE <1>2, PipeAssumption DEF PipeInv, Process
    <2>0. UNCHANGED pkilled \/ \E t \in Killable : pkilled' = pkilled \cup {t}
      BY ZenonT(30) DEF PipeNext, Gone, Step, pvars, pkill, acquire, sleep, pipe_close,
             pipecall,
             pipewrite_abort, pipewrite_full, pipewrite_byte, pipewrite_return,
             piperead_wait, piperead_start, piperead_byte, piperead_return
    <2>1. pkilled' \cap Writer = {}
      BY <2>0, Zenon DEF ReadersWoken
    <2> SUFFICES ASSUME NEW r \in Reader, pchan'[r] = "nread"
                 PROVE  MustWait' \/ \E w \in Writer : ppc'[w] = "writing"
      BY <2>1, Zenon DEF ReadersWoken
    <2>2. ASSUME NEW t \in Process, acquire(t)
          PROVE  MustWait' \/ \E w \in Writer : ppc'[w] = "writing"
      BY <2>2, Zenon
         DEF ReadersWoken, MustWait, Empty, PipeTypeOK, acquire, PipeGoto,
             pipevars, endvars, Held, InLoop
    <2>3. ASSUME NEW t \in Process, sleep(t)
          PROVE  MustWait' \/ \E w \in Writer : ppc'[w] = "writing"
      BY <2>3, Zenon
         DEF ReadersWoken, ReadersWait, MustWait, Empty, PipeTypeOK, sleep,
             Holds, PipeGoto, pipevars, endvars, Held, InLoop
    <2>4. ASSUME NEW t \in Writer, pipewrite_abort(t)
                   \/ pipewrite_full(t) \/ pipewrite_return(t)
          PROVE  FALSE
      <3>1. pipewrite_abort(t)
        BY <2>4, Zenon DEF pipewrite_full, pipewrite_return, WakeReaders, pwakeup
      <3>2. ~readopen
        BY <3>1, Zenon DEF pipewrite_abort, ReadersWoken
      <3>3. r \in users
        BY <3>1, Zenon DEF pipewrite_abort, Held, EndsOpen
      <3>. QED  BY <3>2, <3>3, Zenon DEF EndsOpen
    <2>5. ASSUME NEW t \in Writer, NEW b \in Byte, pipewrite_byte(t, b)
          PROVE  ppc'[t] = "writing"
      BY <2>5, Zenon DEF pipewrite_byte, Holds
    <2>6. ASSUME NEW t \in Reader, piperead_wait(t) \/ piperead_start(t)
                   \/ piperead_return(t) \/ piperead_byte(t)
          PROVE  MustWait'
      <3>1. lock = t /\ pchan[r] = "nread"
        BY <2>6
           DEF piperead_wait, piperead_start, piperead_return, piperead_byte,
               Holds, WakeWriters, pwakeup, PipeTypeOK
      <3>2. MustWait
        BY <3>1, ZenonT(30) DEF ReadersWoken, Held, InLoop
      <3>. QED  BY <2>6, <3>2, ZenonT(30)
                   DEF MustWait, Empty, piperead_wait, piperead_start,
                       piperead_return, piperead_byte, pipevars, endvars
    <2>7. ASSUME NEW t \in Process, pkill(t)
          PROVE  MustWait' \/ \E w \in Writer : ppc'[w] = "writing"
      BY <2>7, Zenon
         DEF ReadersWoken, MustWait, Empty, PipeTypeOK, pkill, pipevars, endvars
    <2>8. ASSUME NEW t \in Process, pipe_close(t)
          PROVE  MustWait' \/ \E w \in Writer : ppc'[w] = "writing"
      <3>1. \/ pchan' = pwakeup("nread")
            \/ writeopen' = writeopen /\ (pchan' = pchan
                 \/ pchan' = pwakeup("nwrite"))
        BY <2>8, ZenonT(30) DEF pipe_close, WakeReaders, WakeWriters
      <3>2. writeopen' = writeopen /\ pchan[r] = "nread"
        BY <3>1, Zenon DEF PipeTypeOK, pwakeup
      <3>. QED  BY <2>8, <3>2, ZenonT(30)
                   DEF ReadersWoken, MustWait, Empty, pipe_close, pipevars
    <2>9. ASSUME NEW t \in Process, NEW m \in Sizes, pipecall(t, m)
          PROVE  MustWait' \/ \E w \in Writer : ppc'[w] = "writing"
      BY <2>9, Zenon
         DEF ReadersWoken, MustWait, Empty, PipeTypeOK, pipecall, PipeGoto,
             pipevars, endvars
    <2>10. CASE UNCHANGED pvars
      BY <2>10, Zenon DEF ReadersWoken, MustWait, Empty, pvars, pipevars, endvars
    <2>. QED  BY <2>2, <2>3, <2>4, <2>5, <2>6, <2>7, <2>8, <2>9, <2>10, ZenonT(30)
                 DEF PipeNext, Step, Gone
  <1>3. PipeInv /\ ReadersWoken => NoLostPipeWakeup
    BY PipeAssumption
       DEF PipeInv, PipeTypeOK, Held, InLoop, WritersWait, ReadersWoken,
           NoLostPipeWakeup, Process,
           WritersSleepOnlyIfFull, ReadersSleepOnlyIfEmpty, MustWait
  <1>. QED  BY <1>1, <1>2, <1>3, PipeInductive, PTL DEF PipeSpec

-----------------------------------------------------------------------------
(* The queue that the buffer and the counters stand for. *)
Queue == /\ Contents \in Seq(Byte) /\ Len(Contents) = cnt
         /\ \A k \in 1 .. cnt : Contents[k] = pipedata[Place(k)]

(* Contents reads the bytes from nread up to nwrite, in the places where   *)
(* pipewrite stored them.                                                  *)
LEMMA ContentsIs == PipeTypeOK /\ Bounded => Queue
  <1> SUFFICES ASSUME PipeTypeOK, Bounded PROVE Queue
    BY Zenon
  <1>1. cnt \in Nat /\ \A k \in 1 .. cnt : Place(k) \in 0 .. PIPESIZE - 1
    BY RingCount, Places DEF PipeTypeOK, Bounded, cnt
  <1>2. Contents = [k \in 1 .. cnt |-> pipedata[Place(k)]]
    BY Zenon DEF Contents, Place, cnt
  <1>3. \A k \in 1 .. cnt : pipedata[Place(k)] \in Byte
    BY <1>1, Zenon DEF PipeTypeOK
  <1> HIDE DEF Place, cnt
  <1>4. Contents \in [1 .. cnt -> Byte]
    BY <1>2, <1>3, Zenon
  <1>5. Contents \in Seq(Byte) /\ Len(Contents) = cnt
    BY <1>1, <1>4, SeqDef
  <1>. QED  BY <1>2, <1>5, ZenonT(30) DEF Queue

(* pipewrite puts a byte at the end of it. *)
LEMMA ContentsPut ==
    ASSUME PipeTypeOK, PipeTypeOK', Bounded, Bounded', cnt < PIPESIZE,
           NEW b \in Byte,
           pipedata' = [pipedata EXCEPT ![nwrite % PIPESIZE] = b],
           nwrite' = PipeInc(nwrite), nread' = nread
    PROVE  Contents' = Append(Contents, b)
  <1>1. cnt' = cnt + 1 /\ cnt \in Nat
    BY RingPut, RingCount DEF PipeTypeOK, cnt
  <1>2. /\ Contents \in Seq(Byte) /\ Len(Contents) = cnt
        /\ \A k \in 1 .. cnt : Contents[k] = pipedata[Place(k)]
    BY ContentsIs, Zenon DEF Queue
  <1>3. /\ Contents' \in Seq(Byte) /\ Len(Contents') = cnt + 1
        /\ \A k \in 1 .. cnt + 1 : Contents'[k] = pipedata'[Place(k)]
    <2>1. /\ Contents' \in Seq(Byte) /\ Len(Contents') = cnt'
          /\ \A k \in 1 .. cnt' : Contents'[k] = pipedata'[Place(k)']
      <3>1. Queue'
        BY ContentsIs, PTL
      <3>. QED  BY <3>1, Zenon DEF Queue
    <2>2. ASSUME NEW k PROVE Place(k)' = Place(k)
      BY ZenonT(30) DEF Place
    <2>. QED  BY <1>1, <2>1, <2>2, Zenon
  <1>4. /\ nwrite % PIPESIZE = Place(cnt + 1)
             /\ nwrite % PIPESIZE \in 0 .. PIPESIZE - 1
        /\ \A k \in 1 .. cnt : Place(k) # nwrite % PIPESIZE
             /\ Place(k) \in 0 .. PIPESIZE - 1
    BY Places, ZenonT(30) DEF PipeTypeOK, Bounded, cnt
  <1> DEFINE w == nwrite % PIPESIZE
  <1>5. /\ Append(Contents, b) \in Seq(Byte) /\ Len(Append(Contents,
             b)) = cnt + 1
        /\ Append(Contents, b)[cnt + 1] = b
        /\ \A k \in 1 .. cnt : Append(Contents, b)[k] = Contents[k]
    BY <1>2, AppendProperties
  <1>6. ASSUME NEW k \in 1 .. cnt + 1
        PROVE  Contents'[k] = Append(Contents, b)[k]
    <2>1. pipedata'[Place(k)] = IF Place(k) = w THEN b ELSE pipedata[Place(k)]
      <3>1. Place(k) \in 0 .. PIPESIZE - 1
        BY <1>1, <1>4
      <3>. QED  BY <3>1, Zenon DEF PipeTypeOK
    <2>2. CASE k = cnt + 1
      BY <1>3, <1>4, <1>5, <2>1, <2>2, Zenon
    <2>3. CASE k \in 1 .. cnt
      BY <1>2, <1>3, <1>4, <1>5, <2>1, <2>3, Zenon
    <2>4. k = cnt + 1 \/ k \in 1 .. cnt
      BY <1>1
    <2>. QED  BY <2>2, <2>3, <2>4, ZenonT(30)
  <1> HIDE DEF w, cnt
  <1>. QED  BY <1>3, <1>5, <1>6, SeqEqual, Zenon

(* piperead takes the byte at its head. *)
LEMMA ContentsTake ==
    ASSUME PipeTypeOK, PipeTypeOK', Bounded, Bounded', cnt > 0,
           pipedata' = pipedata, nread' = PipeInc(nread), nwrite' = nwrite
    PROVE  /\ Contents # <<>> /\ Head(Contents) = pipedata[nread % PIPESIZE]
           /\ Contents' = Tail(Contents)
  <1>1. cnt' = cnt - 1 /\ cnt \in Nat
    BY RingTake, RingCount DEF PipeTypeOK, cnt
  <1>2. /\ Contents \in Seq(Byte) /\ Len(Contents) = cnt
        /\ \A k \in 1 .. cnt : Contents[k] = pipedata[Place(k)]
    BY ContentsIs, Zenon DEF Queue
  <1>3. /\ Contents' \in Seq(Byte) /\ Len(Contents') = cnt - 1
        /\ \A k \in 1 .. cnt - 1 : Contents'[k] = pipedata[Place(k)']
    <2>1. /\ Contents' \in Seq(Byte) /\ Len(Contents') = cnt'
          /\ \A k \in 1 .. cnt' : Contents'[k] = pipedata'[Place(k)']
      <3>1. Queue'
        BY ContentsIs, PTL
      <3>. QED  BY <3>1, Zenon DEF Queue
    <2>. QED  BY <1>1, <2>1, Zenon
  <1>4. ASSUME NEW k \in 1 .. cnt - 1 PROVE Place(k)' = Place(k + 1)
    <2>0. nread \in 0 .. UINT - 1 /\ cnt \in 0 .. UINT - 1
            /\ k \in 1 .. UINT - 1
      BY RingCount, PipeAssumption, SMTT(30) DEF PipeTypeOK
    <2>1. nread' = IF nread + 1 < UINT THEN nread + 1 ELSE 0
      BY <2>0, PipeAssumption DEF PipeInc
    <2>2. (nread' + k - 1) % UINT = (nread + (k + 1) - 1) % UINT
      <3>1. CASE nread + 1 < UINT
        BY <2>0, <2>1, <3>1, PipeAssumption
      <3>2. CASE nread + 1 >= UINT
        <4>1. nread' + k - 1 = k - 1 /\ nread + (k + 1) - 1 = UINT + (k - 1)
          BY <2>0, <2>1, <3>2, PipeAssumption
        <4>2. (k - 1) % UINT = (UINT + (k - 1)) % UINT
          BY <2>0, PipeAssumption
        <4>. QED  BY <4>1, <4>2, Zenon
      <3>. QED  BY <2>0, <3>1, <3>2, PipeAssumption
    <2>. QED  BY <2>2, Zenon DEF Place
  <1> HIDE DEF cnt
  <1>5. Contents # <<>> /\ Head(Contents) = Contents[1]
    BY <1>1, <1>2, EmptySeq
  <1>6. /\ Tail(Contents) \in Seq(Byte) /\ Len(Tail(Contents)) = cnt - 1
        /\ \A k \in 1 .. cnt - 1 : Tail(Contents)[k] = Contents[k + 1]
    BY <1>2, <1>5, HeadTailProperties, SMTT(30)
  <1>7. Place(1) = nread % PIPESIZE
    BY Places, Zenon DEF PipeTypeOK, Bounded, cnt
  <1>8. \A k \in 1 .. cnt - 1 : Contents'[k] = Tail(Contents)[k]
    BY <1>1, <1>2, <1>3, <1>4, <1>6
  <1>9. Contents' = Tail(Contents)
    BY <1>3, <1>6, <1>8, SeqEqual, Zenon
  <1>. QED  BY <1>1, <1>2, <1>5, <1>7, <1>9, SMTT(30)

(* pipewrite, piperead and pipeclose: to its processes a pipe is a bounded *)
(* queue of bytes, for every size of the buffer and every width of the     *)
(* counters that is a multiple of it.                                      *)
THEOREM PipeImplementsFifo == PipeSpec => ImplementsFifo
  <1>1. PipeInit => F!Init
    <2> SUFFICES ASSUME PipeInit PROVE F!Init
      BY ZenonT(30)
    <2>1. Queue /\ cnt = 0
      BY PipeInitially, ContentsIs, RingCount, ZenonT(30)
         DEF PipeInv, PipeTypeOK, PipeInit, Empty
    <2>2. Contents = <<>>
      BY <2>1, EmptySeq, Zenon DEF Queue
    <2>. QED  BY <2>2, Zenon DEF PipeInit, F!Init
  <1>2. ASSUME PipeInv, PipeInv', [PipeNext]_pvars PROVE [F!Next]_(F!vars)
    <2> USE <1>2, PipeAssumption DEF PipeInv
    <2> DEFINE Same == UNCHANGED <<pipedata, nread, nwrite,
                                   readopen, writeopen, ch>>
    <2>0. ASSUME Same PROVE UNCHANGED F!vars
      BY <2>0, Zenon DEF F!vars, Contents
    <2>1. ASSUME NEW t \in Writer, NEW b \in Byte, pipewrite_byte(t, b)
          PROVE  F!Put(b)
      <3>1. cnt < PIPESIZE
        <4>1. cnt \in 0 .. UINT - 1 /\ (Full <=> cnt = PIPESIZE)
          BY RingCount, Zenon DEF PipeTypeOK
        <4>2. ~Full
          BY <2>1, Zenon DEF pipewrite_byte
        <4>3. cnt <= PIPESIZE
          BY Zenon DEF Bounded, cnt
        <4>. QED  BY <4>1, <4>2, <4>3
      <3>2. Contents' = Append(Contents, b)
        BY <2>1, <3>1, ContentsPut, ZenonT(30) DEF pipewrite_byte
      <3>3. Len(Contents) < PIPESIZE
        BY <3>1, ContentsIs, Zenon DEF Queue
      <3>4. readopen /\ writeopen
        <4>1. readopen /\ ppc[t] = "writing" /\ t \in Process
          BY <2>1, Zenon DEF pipewrite_byte, Holds, Process
        <4>. QED  BY <4>1, Zenon DEF EndsOpen
      <3>. QED  BY <2>1, <3>2, <3>3, <3>4, Zenon DEF F!Put, pipewrite_byte, endvars
    <2>2. ASSUME NEW t \in Reader, piperead_byte(t) PROVE F!Take(t)
      <3>1. cnt > 0
        <4>1. cnt \in 0 .. UINT - 1 /\ (Empty <=> cnt = 0)
          BY RingCount, Zenon DEF PipeTypeOK
        <4>2. ~Empty
          BY <2>2, Zenon DEF piperead_byte
        <4>. QED  BY <4>1, <4>2
      <3>2. /\ Contents # <<>> /\ Head(Contents) = pipedata[nread % PIPESIZE]
            /\ Contents' = Tail(Contents)
        BY <2>2, <3>1, ContentsTake, ZenonT(30) DEF piperead_byte
      <3>3. readopen
        BY <2>2, Zenon DEF piperead_byte, Holds, EndsOpen, Process
      <3>. QED  BY <2>2, <3>2, <3>3, ZenonT(30) DEF F!Take, piperead_byte, endvars
    <2>3. ASSUME NEW t \in Process, pipe_close(t)
          PROVE  F!Close \/ UNCHANGED F!vars
      <3>1. Contents' = Contents /\ ch' = ch
        BY <2>3, Zenon DEF Contents, pipe_close, pipevars
      <3>2. \/ t \in Writer /\ writeopen' = FALSE /\ readopen' = readopen
            \/ t \notin Writer /\ readopen' = FALSE /\ writeopen' = writeopen
            \/ UNCHANGED <<readopen, writeopen>>
        BY <2>3, ZenonT(30) DEF pipe_close
      <3>3. (t \in Writer => writeopen) /\ (t \notin Writer => readopen)
        BY <2>3, ZenonT(30) DEF pipe_close, EndsOpen, Process
      <3>. QED  BY <3>1, <3>2, <3>3, ZenonT(30) DEF F!Close, F!vars
    <2>4. ASSUME NEW t \in Process, acquire(t) \/ sleep(t) \/ pkill(t)
                   \/ \E m \in Sizes : pipecall(t, m)
          PROVE  Same
      BY <2>4, Zenon DEF acquire, sleep, pkill, pipecall, pipevars, endvars
    <2>5. ASSUME NEW t \in Writer, pipewrite_abort(t)
                   \/ pipewrite_full(t) \/ pipewrite_return(t)
          PROVE  Same
      BY <2>5, ZenonT(30)
         DEF pipewrite_abort, pipewrite_full, pipewrite_return, pipevars,
             endvars
    <2>6. ASSUME NEW t \in Reader, piperead_wait(t) \/ piperead_start(t)
                   \/ piperead_return(t)
          PROVE  Same
      BY <2>6, Zenon
         DEF piperead_wait, piperead_start, piperead_return, pipevars, endvars
    <2>7. CASE UNCHANGED pvars
      BY <2>7, <2>0, Zenon DEF pvars, pipevars, endvars
    <2> HIDE DEF Same
    <2>8. ASSUME NEW t \in Process, Step(t) PROVE [F!Next]_(F!vars)
      BY <2>0, <2>1, <2>2, <2>4, <2>5, <2>6, <2>8, Zenon DEF Step, F!Next
    <2>. QED  BY <2>0, <2>3, <2>4, <2>7, <2>8, Zenon DEF PipeNext, Gone, F!Next
  <1>. QED  BY <1>1, <1>2, PipeInductive, PTL
               DEF PipeSpec, ImplementsFifo, F!Spec
=============================================================================
