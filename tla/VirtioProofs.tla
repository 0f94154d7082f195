---------------------------- MODULE VirtioProofs ----------------------------
(***************************************************************************)
(* Proofs about virtio_disk.c for any number of processes, any number of   *)
(* descriptors and any width of the ring indices.  First the arithmetic of *)
(* an index that wraps, then rings as sets of entries (QueuePut and        *)
(* QueueTake hide the indices from there on), chains of descriptors, the   *)
(* inductive invariant VirtioInv with one lemma per action, and what       *)
(* follows from it.                                                        *)
(***************************************************************************)
EXTENDS VirtioDisk, FiniteSetTheorems, TLAPS

-----------------------------------------------------------------------------
(* A sum of a multiple of the divisor and a remainder has that remainder. *)
LEMMA ModIs ==
    ASSUME NEW d \in Nat \ {0}, NEW q \in Int, NEW r \in 0 .. d - 1
    PROVE  (d * q + r) % d = r
  OBVIOUS

(* A number is its quotient times the divisor, plus its remainder. *)
LEMMA ModParts ==
    ASSUME NEW d \in Nat \ {0}, NEW a \in Int
    PROVE  /\ a \div d \in Int /\ a % d \in 0 .. d - 1
           /\ a = d * (a \div d) + (a % d)
  OBVIOUS

(* A multiple of NUM makes no difference to idx % NUM, so an index that    *)
(* wraps around at 2^16 still finds its entry.                             *)
LEMMA ModShift ==
    ASSUME NEW d \in Nat \ {0}, NEW u \in Nat, u % d = 0, NEW a \in Int
    PROVE  (a + u) % d = a % d
  <1> DEFINE i == a \div d
             j == u \div d
             r == a % d
  <1>1. i \in Int /\ j \in Int /\ r \in 0 .. d - 1 /\ a = d * i + r /\ u = d * j
    BY ModParts
  <1> HIDE DEF i, j, r
  <1>2. a + u = d * (i + j) + r /\ i + j \in Int
    BY <1>1
  <1>3. (d * (i + j) + r) % d = r
    BY <1>1, <1>2, ModIs, Zenon
  <1>. QED BY <1>2, <1>3, Zenon DEF r

(* Numbers less than the divisor apart have different remainders: the      *)
(* requests of one ring are in different entries.                          *)
LEMMA ModDistinct ==
    ASSUME NEW d \in Nat \ {0}, NEW a \in Int, NEW b \in Int, a < b, b < a + d
    PROVE  a % d # b % d
  <1> SUFFICES ASSUME a % d = b % d PROVE FALSE
    BY Zenon
  <1> DEFINE i == a \div d
             j == b \div d
             r == a % d
  <1>1. i \in Int /\ j \in Int /\ r \in 0 .. d - 1 /\ a = d * i + r /\ b = d * j + r
    BY ModParts, Zenon
  <1> HIDE DEF i, j, r
  <1>2. b - a = d * (j - i) /\ j - i \in Int
    BY <1>1
  <1>3. (d * (j - i) + 0) % d = 0
    BY <1>2, ModIs
  <1>4. (b - a) % d = b - a
    OBVIOUS
  <1>. QED BY <1>2, <1>3, <1>4

-----------------------------------------------------------------------------
Index == 0 .. UINT16 - 1

(* The width of the indices is a multiple of NUM. *)
LEMMA Width == NUM \in Nat \ {0} /\ UINT16 \in Nat \ {0} /\ UINT16 % NUM = 0 /\ UINT16 > NUM
  BY VirtioAssumption

(* The ring has a descriptor 0, the value head has before any request. *)
LEMMA ZeroIsDesc == 0 \in Desc
  BY Width DEF Desc

(* The difference of two indices in unsigned arithmetic is their distance  *)
(* even after one of them has wrapped around.                              *)
LEMMA AheadIs ==
    ASSUME NEW i \in Index, NEW j \in Index
    PROVE  /\ Ahead(i, j) = IF j >= i THEN j - i ELSE j - i + UINT16
           /\ Ahead(i, j) \in 0 .. UINT16 - 1
           /\ Ahead(i, j) = 0 <=> i = j
           /\ j % NUM = (i + Ahead(i, j)) % NUM
           /\ RingInc(j) = IF j + 1 < UINT16 THEN j + 1 ELSE 0
           /\ RingInc(j) \in Index
  <1> USE Width DEF Index
  <1>1. Ahead(i, j) = IF j >= i THEN j - i ELSE j - i + UINT16
    BY DEF Ahead
  <1>2. i + Ahead(i, j) = j \/ i + Ahead(i, j) = j + UINT16
    BY <1>1
  <1>3. (j + UINT16) % NUM = j % NUM
    <2>1. NUM \in Nat \ {0} /\ UINT16 \in Nat /\ UINT16 % NUM = 0 /\ j \in Int
      OBVIOUS
    <2>. QED BY <2>1, ModShift, Zenon
  <1>4. RingInc(j) = IF j + 1 < UINT16 THEN j + 1 ELSE 0
    BY DEF RingInc
  <1>. QED BY <1>1, <1>2, <1>3, <1>4

(* avail->idx += 1 in virtio_disk_rw, used->idx += 1 in the device: one    *)
(* entry more, and one that was not in use.                                *)
LEMMA RingPut ==
    ASSUME NEW i \in Index, NEW j \in Index, Ahead(i, j) < NUM
    PROVE  /\ Ahead(i, RingInc(j)) = Ahead(i, j) + 1
           /\ j % NUM \in Desc /\ j % NUM \notin Entries(i, j)
           /\ Entries(i, RingInc(j)) = Entries(i, j) \cup {j % NUM}
  <1> DEFINE n == Ahead(i, j)
  <1>1. /\ n \in 0 .. NUM - 1 /\ i \in Int /\ NUM \in Nat \ {0}
        /\ j % NUM = (i + n) % NUM
    <2>1. j % NUM = (i + n) % NUM
      BY AheadIs, Zenon
    <2>2. n \in 0 .. UINT16 - 1 /\ i \in Int
      BY AheadIs DEF Index
    <2>. QED BY <2>1, <2>2, Width
  <1>2. Ahead(i, RingInc(j)) = n + 1
    <2>1. RingInc(j) = (IF j + 1 < UINT16 THEN j + 1 ELSE 0) /\ RingInc(j) \in Index
      BY AheadIs, Zenon
    <2>2. n = IF j >= i THEN j - i ELSE j - i + UINT16
      BY AheadIs, Zenon
    <2>3. Ahead(i, RingInc(j)) = IF RingInc(j) >= i THEN RingInc(j) - i
                                                    ELSE RingInc(j) - i + UINT16
      BY <2>1, AheadIs, Zenon
    <2>. QED BY <1>1, <2>1, <2>2, <2>3, Width DEF Index
  <1>3. j % NUM \in Desc
    BY Width DEF Desc, Index
  <1> HIDE DEF n
  <1>4. ASSUME NEW k \in 0 .. n - 1
        PROVE  (i + k) % NUM # (i + n) % NUM
    <2>1. i + k \in Int /\ i + n \in Int /\ i + k < i + n /\ i + n < (i + k) + NUM
      BY <1>1
    <2>. QED BY <1>1, <2>1, ModDistinct, Zenon
  <1>5. Entries(i, j) = {(i + k) % NUM : k \in 0 .. n - 1}
    BY Zenon DEF Entries, n
  <1>6. Entries(i, RingInc(j)) = {(i + k) % NUM : k \in 0 .. n}
    BY <1>1, <1>2 DEF Entries
  <1>7. 0 .. n = (0 .. n - 1) \cup {n}
    BY <1>1
  <1>. QED BY <1>1, <1>2, <1>3, <1>4, <1>5, <1>6, <1>7, Zenon DEF n

(* disk.used_idx += 1 in virtio_disk_intr, and the device's own index into *)
(* the avail ring: one entry less, the first.                              *)
LEMMA RingTake ==
    ASSUME NEW i \in Index, NEW j \in Index, i # j, Ahead(i, j) <= NUM
    PROVE  /\ Ahead(RingInc(i), j) = Ahead(i, j) - 1
           /\ i % NUM \in Entries(i, j)
           /\ Entries(RingInc(i), j) = Entries(i, j) \ {i % NUM}
  <1> DEFINE n == Ahead(i, j)
  <1>1. n \in 1 .. NUM /\ i \in Int /\ NUM \in Nat \ {0}
    BY AheadIs, Width DEF Index
  <1>2. Ahead(RingInc(i), j) = n - 1
    <2>1. RingInc(i) = (IF i + 1 < UINT16 THEN i + 1 ELSE 0) /\ RingInc(i) \in Index
      BY AheadIs, Zenon
    <2>2. n = IF j >= i THEN j - i ELSE j - i + UINT16
      BY AheadIs, Zenon
    <2>3. Ahead(RingInc(i), j) = IF j >= RingInc(i) THEN j - RingInc(i)
                                                    ELSE j - RingInc(i) + UINT16
      BY <2>1, AheadIs, Zenon
    <2>. QED BY <1>1, <2>1, <2>2, <2>3, Width DEF Index
  <1> HIDE DEF n
  <1>3. ASSUME NEW k \in 0 .. n - 2
        PROVE  (RingInc(i) + k) % NUM = (i + (k + 1)) % NUM
    <2>1. RingInc(i) = i + 1 \/ RingInc(i) + UINT16 = i + 1
      BY AheadIs, Width DEF Index
    <2>2. RingInc(i) \in Int /\ UINT16 \in Nat /\ UINT16 % NUM = 0
      BY AheadIs, Width DEF Index
    <2>3. ((RingInc(i) + k) + UINT16) % NUM = (RingInc(i) + k) % NUM
      <3>1. RingInc(i) + k \in Int
        BY <1>1, <2>2
      <3>. QED BY <1>1, <2>2, <3>1, ModShift, Zenon
    <2>4. RingInc(i) + k = i + (k + 1) \/ (RingInc(i) + k) + UINT16 = i + (k + 1)
      BY <1>1, <2>1, <2>2
    <2>. QED BY <2>3, <2>4, Zenon
  <1>4. ASSUME NEW k \in 1 .. n - 1
        PROVE  (i + k) % NUM # i % NUM
    <2>1. i + k \in Int /\ i < i + k /\ i + k < i + NUM
      BY <1>1
    <2>. QED BY <1>1, <2>1, ModDistinct, Zenon
  <1>5. Entries(i, j) = {(i + k) % NUM : k \in 0 .. n - 1}
    BY Zenon DEF Entries, n
  <1>6. Entries(RingInc(i), j) = {(i + k) % NUM : k \in 1 .. n - 1}
    <2>1. Entries(RingInc(i), j) = {(RingInc(i) + k) % NUM : k \in 0 .. n - 2}
      BY <1>1, <1>2 DEF Entries
    <2>2. ASSUME NEW k \in 1 .. n - 1
          PROVE  k - 1 \in 0 .. n - 2 /\ (RingInc(i) + (k - 1)) % NUM = (i + k) % NUM
      <3>1. k - 1 \in 0 .. n - 2 /\ (k - 1) + 1 = k
        BY <1>1
      <3>. QED BY <1>3, <3>1, Zenon
    <2>3. ASSUME NEW k \in 0 .. n - 2
          PROVE  k + 1 \in 1 .. n - 1 /\ (RingInc(i) + k) % NUM = (i + (k + 1)) % NUM
      BY <1>1, <1>3
    <2>. QED BY <2>1, <2>2, <2>3
  <1>7. 0 .. n - 1 = {0} \cup (1 .. n - 1) /\ (i + 0) % NUM = i % NUM
    BY <1>1
  <1>. QED BY <1>2, <1>4, <1>5, <1>6, <1>7 DEF n

(* When NUM requests are in a ring, every entry holds one. *)
LEMMA RingFull ==
    ASSUME NEW i \in Index, NEW j \in Index, Ahead(i, j) = NUM
    PROVE  Entries(i, j) = Desc
  <1>1. i \in Int /\ NUM \in Nat \ {0}
    BY Width DEF Index
  <1>2. ASSUME NEW s \in Desc
        PROVE  \E k \in 0 .. NUM - 1 : s = (i + k) % NUM
    <2> DEFINE q == (s - i) \div NUM
               k == (s - i) % NUM
    <2>1. q \in Int /\ k \in 0 .. NUM - 1 /\ s - i = NUM * q + k /\ s \in 0 .. NUM - 1
      <3>1. s \in 0 .. NUM - 1 /\ s - i \in Int
        BY <1>1 DEF Desc
      <3>2. /\ (s - i) \div NUM \in Int /\ (s - i) % NUM \in 0 .. NUM - 1
            /\ s - i = NUM * ((s - i) \div NUM) + ((s - i) % NUM)
        BY <1>1, <3>1, ModParts, Zenon
      <3>. QED BY <3>1, <3>2, Zenon
    <2> HIDE DEF q, k
    <2>2. i + k = NUM * (-q) + s /\ -q \in Int
      BY <1>1, <2>1
    <2>3. (NUM * (-q) + s) % NUM = s
      BY <1>1, <2>1, <2>2, ModIs, Zenon
    <2>. QED BY <2>1, <2>2, <2>3, Zenon
  <1>3. ASSUME NEW k \in 0 .. NUM - 1 PROVE (i + k) % NUM \in Desc
    BY <1>1 DEF Desc
  <1>. QED BY <1>2, <1>3 DEF Entries

-----------------------------------------------------------------------------
(* A ring from i up to j, no chain in it twice, and one with x added. *)
IsRing(f, i, j) ==
    /\ f \in [Desc -> Desc] /\ i \in Index /\ j \in Index
    /\ Ahead(i, j) <= NUM /\ OnceEach(f, i, j)
Put(f, j, x) == [f EXCEPT ![j % NUM] = x]

(* NUM chains cannot be in a ring once each, if one descriptor starts none *)
(* of them: there are only NUM descriptors.                                *)
LEMMA QueueRoom ==
    ASSUME NEW f \in [Desc -> Desc], NEW i \in Index, NEW j \in Index,
           Ahead(i, j) <= NUM, OnceEach(f, i, j),
           NEW x \in Desc, x \notin Queue(f, i, j)
    PROVE  Ahead(i, j) < NUM
  <1> SUFFICES ASSUME Ahead(i, j) = NUM PROVE FALSE
    BY AheadIs, Width
  <1>1. Entries(i, j) = Desc
    BY RingFull, Zenon
  <1>2. IsFiniteSet(Desc) /\ Cardinality(Desc) = NUM
    BY FS_Interval, Width DEF Desc
  <1>3. IsFiniteSet(Desc \ {x}) /\ Cardinality(Desc \ {x}) = NUM - 1
    BY <1>2, FS_RemoveElement, Zenon
  <1>4. f \in [Desc -> Desc \ {x}]
    BY <1>1, Zenon DEF Queue
  <1>5. \A s, t \in Desc : f[s] = f[t] => s = t
    BY <1>1, Zenon DEF OnceEach
  <1>6. f \in Injection(Desc, Desc \ {x})
    BY <1>4, <1>5, Zenon DEF Injection, IsInjective
  <1>7. Cardinality(Desc) <= Cardinality(Desc \ {x})
    BY <1>3, <1>6, FS_Injection, Zenon
  <1>. QED BY <1>2, <1>3, <1>7, Width

(* A chain that is not in a ring yet is put in it. *)
LEMMA QueuePut ==
    ASSUME NEW f, NEW i, NEW j, IsRing(f, i, j), NEW x \in Desc, x \notin Queue(f, i, j)
    PROVE  /\ IsRing(Put(f, j, x), i, RingInc(j))
           /\ Queue(Put(f, j, x), i, RingInc(j)) = Queue(f, i, j) \cup {x}
  <1> DEFINE g == Put(f, j, x)
  <1> USE DEF IsRing
  <1>1. Ahead(i, j) < NUM
    BY QueueRoom, Zenon
  <1>2. /\ Ahead(i, RingInc(j)) = Ahead(i, j) + 1
        /\ j % NUM \in Desc /\ j % NUM \notin Entries(i, j)
        /\ Entries(i, RingInc(j)) = Entries(i, j) \cup {j % NUM}
    BY <1>1, RingPut, Zenon
  <1>3. Ahead(i, RingInc(j)) <= NUM /\ RingInc(j) \in Index
    BY <1>1, <1>2, AheadIs, Width
  <1>4. g \in [Desc -> Desc] /\ g[j % NUM] = x
    BY <1>2, Zenon DEF Put
  <1>5. \A s \in Entries(i, j) : g[s] = f[s]
    BY <1>2 DEF Put
  <1> HIDE DEF g
  <1>6. OnceEach(g, i, RingInc(j))
    BY <1>2, <1>4, <1>5, Zenon DEF OnceEach, Queue
  <1>7. Queue(g, i, RingInc(j)) = Queue(f, i, j) \cup {x}
    BY <1>2, <1>4, <1>5 DEF Queue
  <1>. QED BY <1>3, <1>4, <1>6, <1>7, Zenon DEF g

(* The first chain of a ring is taken from it. *)
LEMMA QueueTake ==
    ASSUME NEW f, NEW i, NEW j, IsRing(f, i, j), i # j
    PROVE  /\ IsRing(f, RingInc(i), j)
           /\ f[i % NUM] \in Queue(f, i, j)
           /\ Queue(f, RingInc(i), j) = Queue(f, i, j) \ {f[i % NUM]}
  <1> USE DEF IsRing
  <1>1. /\ Ahead(RingInc(i), j) = Ahead(i, j) - 1
        /\ i % NUM \in Entries(i, j)
        /\ Entries(RingInc(i), j) = Entries(i, j) \ {i % NUM}
    BY RingTake, Zenon
  <1>2. Ahead(RingInc(i), j) <= NUM /\ RingInc(i) \in Index
    BY <1>1, AheadIs, Width
  <1>3. OnceEach(f, RingInc(i), j)
    BY <1>1, Zenon DEF OnceEach
  <1>4. f[i % NUM] \in Queue(f, i, j)
    BY <1>1, Zenon DEF Queue
  <1>5. Queue(f, RingInc(i), j) = Queue(f, i, j) \ {f[i % NUM]}
    BY <1>1, Zenon DEF Queue, OnceEach
  <1>. QED BY <1>2, <1>3, <1>4, <1>5, Zenon

-----------------------------------------------------------------------------
(* The second and the third descriptor of the chain of p, and the chain. *)
D1(p) == desc[head[p]].next
D2(p) == desc[D1(p)].next
Mine(p) == {head[p], D1(p), D2(p)}

(* What alloc3_desc and the formatting in virtio_disk_rw have made for p. *)
HasChain(p) ==
    /\ D1(p) \in Desc /\ D2(p) \in Desc
    /\ head[p] # D1(p) /\ head[p] # D2(p) /\ D1(p) # D2(p)
    /\ desc[D2(p)].next = NoProc
    /\ desc[head[p]].buf = NoProc /\ desc[D1(p)].buf = p /\ desc[D2(p)].buf = NoProc
    /\ info[head[p]] = p
    /\ Mine(p) \cap free = {}

(* Chains are complete and apart, and a descriptor in none is free. *)
ChainsInv ==
    /\ \A p \in Waiting : HasChain(p)
    /\ \A p, q \in Waiting : p # q => Mine(p) \cap Mine(q) = {}
    /\ \A d \in Desc : d \notin free => \E p \in Waiting : d \in Mine(p)

(* No ring holds more than it has entries. *)
RingsFit ==
    /\ Ahead(dev_idx, avail_idx) <= NUM
    /\ Ahead(used_idx, used_head) <= NUM

(* Requests that are not pending, or in the used ring, have been served. *)
ServedInv ==
    /\ bdisk \subseteq Waiting
    /\ \A p \in Waiting : p \notin bdisk => p \in served
    /\ \A d \in Completed : info[d] \in served

(* Sleepers have a reason to sleep, also while the handler runs. *)
SleepInv ==
    \A p \in IOProc : /\ vchan[p] = "buf" => p \in bdisk
                      /\ vchan[p] = "free" => Cardinality(free) < 3

VirtioInv ==
    /\ VirtioTypeOK /\ ChainsInv /\ RequestsAreTracked /\ RingsFit
    /\ ServedInv /\ SleepInv /\ NoLostInterrupt

-----------------------------------------------------------------------------
(* alloc_desc finds a free descriptor if there is one. *)
LEMMA AllocDesc ==
    ASSUME NEW S \in SUBSET Desc, S # {}
    PROVE  alloc_desc(S) \in S
  <1>1. S \subseteq Nat
    BY Width DEF Desc
  <1>2. PICK d \in S : \A e \in S : ~(<<e, d>> \in OpToRel(<, Nat))
    BY <1>1, NatLessThanWellFounded, WFMin, Zenon
  <1>3. ASSUME NEW e \in S PROVE d <= e
    <2>1. d \in Nat /\ e \in Nat
      BY <1>1, Zenon
    <2>2. e < d => <<e, d>> \in OpToRel(<, Nat)
      BY <2>1, Zenon DEF OpToRel
    <2>3. ~(e < d)
      BY <1>2, <2>2, Zenon
    <2>. QED BY <2>1, <2>3
  <1>. QED BY <1>3, Zenon DEF alloc_desc

(* alloc3_desc, when three descriptors are free, gets three different ones. *)
LEMMA ThreeFree ==
    ASSUME free \subseteq Desc, Enough,
           NEW d0, d0 = alloc_desc(free),
           NEW d1, d1 = alloc_desc(free \ {d0}),
           NEW d2, d2 = alloc_desc(free \ {d0, d1})
    PROVE  /\ d0 \in free /\ d1 \in free /\ d2 \in free
           /\ d0 # d1 /\ d0 # d2 /\ d1 # d2
  <1>1. IsFiniteSet(Desc)
    BY FS_Interval, Width DEF Desc
  <1>2. IsFiniteSet(free) /\ Cardinality(free) \in Nat /\ Cardinality(free) >= 3
    BY <1>1, FS_Subset, FS_CardinalityType, Zenon DEF Enough
  <1>3. Cardinality({}) = 0
    BY FS_EmptySet, Zenon
  <1>4. d0 \in free
    BY <1>2, <1>3, AllocDesc
  <1>5. /\ IsFiniteSet(free \ {d0})
        /\ Cardinality(free \ {d0}) = Cardinality(free) - 1
    BY <1>2, <1>4, FS_RemoveElement, Zenon
  <1>6. d1 \in free \ {d0}
    BY <1>2, <1>3, <1>5, AllocDesc
  <1>7. Cardinality((free \ {d0}) \ {d1}) = Cardinality(free) - 2
    <2>1. Cardinality((free \ {d0}) \ {d1}) = Cardinality(free \ {d0}) - 1
      BY <1>5, <1>6, FS_RemoveElement, Zenon
    <2>. QED BY <1>2, <1>5, <2>1
  <1>8. free \ {d0, d1} = (free \ {d0}) \ {d1}
    BY Zenon
  <1>9. d2 \in free \ {d0, d1}
    BY <1>2, <1>3, <1>7, <1>8, AllocDesc
  <1>. QED BY <1>4, <1>6, <1>9, Zenon

(* A set with fewer than three elements has none with more. *)
LEMMA FewerFree ==
    ASSUME free \subseteq Desc, Cardinality(free) < 3, NEW T, T \subseteq free
    PROVE  Cardinality(T) < 3
  <1>1. IsFiniteSet(Desc)
    BY FS_Interval, Width DEF Desc
  <1>2. IsFiniteSet(free)
    BY <1>1, FS_Subset, Zenon
  <1>3. IsFiniteSet(T) /\ Cardinality(T) <= Cardinality(free)
    BY <1>2, FS_Subset, Zenon
  <1>. QED BY <1>2, <1>3, FS_CardinalityType

(* The loop of free_chain, and the device, follow the chain to its end. *)
LEMMA ChainIs ==
    ASSUME NEW p \in IOProc, HasChain(p)
    PROVE  Chain(head[p]) = Mine(p)
  <1>1. NoProc \notin Desc
    BY VirtioAssumption, Zenon DEF Desc
  <1>. QED BY <1>1, Zenon DEF HasChain, Chain, Mine, D1, D2

(* A chain has three descriptors. *)
LEMMA ChainHasThree ==
    ASSUME NEW p \in IOProc, HasChain(p)
    PROVE  Cardinality(Mine(p)) = 3
  <1>1. D2(p) \notin {} /\ D1(p) \notin {D2(p)} /\ head[p] \notin {D1(p), D2(p)}
    BY Zenon DEF HasChain
  <1>2. IsFiniteSet({D2(p)}) /\ Cardinality({D2(p)}) = 1
    BY FS_Singleton, Zenon
  <1>3. {D1(p), D2(p)} = {D2(p)} \cup {D1(p)} /\ Mine(p) = {D1(p), D2(p)} \cup {head[p]}
    BY Zenon DEF Mine
  <1>4. IsFiniteSet({D1(p), D2(p)}) /\ Cardinality({D1(p), D2(p)}) = 2
    BY <1>1, <1>2, <1>3, FS_AddElement
  <1>. QED BY <1>1, <1>3, <1>4, FS_AddElement

(* A chain stays as it is when its descriptors do and none becomes free. *)
LEMMA ChainKept ==
    ASSUME NEW p \in IOProc, HasChain(p), head'[p] = head[p],
           \A d \in Mine(p) : desc'[d] = desc[d] /\ d \notin free',
           info'[head[p]] = info[head[p]]
    PROVE  HasChain(p)' /\ Mine(p)' = Mine(p)
  <1>1. head[p] \in Mine(p) /\ D1(p) \in Mine(p) /\ D2(p) \in Mine(p)
    BY Zenon DEF Mine
  <1>2. D1(p)' = D1(p)
    BY <1>1, Zenon DEF D1
  <1>3. D2(p)' = D2(p)
    BY <1>1, <1>2, Zenon DEF D2
  <1>4. Mine(p)' = Mine(p)
    BY <1>2, <1>3, Zenon DEF Mine
  <1>5. Mine(p) \cap free' = {}
    BY Zenon
  <1>. QED BY <1>1, <1>2, <1>3, <1>4, <1>5, Zenon DEF HasChain

(* A pending request names its process in info[], and its head is its own. *)
LEMMA Pend ==
    ASSUME VirtioInv
    PROVE  /\ \A d \in Todo \cup dev_busy \cup Completed :
                  /\ d \in Desc \ free
                  /\ info[d] \in bdisk /\ info[d] \in Waiting /\ head[info[d]] = d
           /\ \A p, q \in Waiting : head[p] = head[q] => p = q
           /\ \A p \in Waiting : head[p] \in Desc \ free /\ info[head[p]] = p
           /\ bdisk \subseteq Waiting /\ Waiting \subseteq IOProc
  <1>1. Waiting \subseteq IOProc /\ bdisk \subseteq Waiting
    BY Zenon DEF Waiting, VirtioInv, ServedInv
  <1>2. \A p \in Waiting : head[p] \in Desc \ free /\ info[head[p]] = p
    BY <1>1, Zenon DEF VirtioInv, ChainsInv, HasChain, Mine, VirtioTypeOK
  <1>3. \A p, q \in Waiting : head[p] = head[q] => p = q
    BY <1>2, Zenon
  <1>4. Todo \cup dev_busy \cup Completed = {head[p] : p \in bdisk}
    BY Zenon DEF VirtioInv, RequestsAreTracked
  <1>. QED BY <1>1, <1>2, <1>3, <1>4

-----------------------------------------------------------------------------
(* Steps that touch no chain keep the chains. *)
LEMMA SameChains ==
    ASSUME ChainsInv, UNCHANGED <<free, desc, info, head>>, Waiting' = Waiting
    PROVE  ChainsInv'
  BY ZenonT(30) DEF ChainsInv, HasChain, Mine, D1, D2

(* Steps that touch no ring keep the rings. *)
LEMMA SameRings ==
    ASSUME RequestsAreTracked, RingsFit,
           UNCHANGED <<avail, avail_idx, dev_idx, dev_busy, used, used_idx, used_head>>,
           {head[p] : p \in bdisk}' = {head[p] : p \in bdisk}
    PROVE  RequestsAreTracked' /\ RingsFit' /\ Todo' = Todo /\ Completed' = Completed
  <1>1. Todo' = Todo /\ Completed' = Completed
    BY DEF Todo, Completed, Queue, Entries, Ahead
  <1>2. /\ OnceEach(avail, dev_idx, avail_idx)' = OnceEach(avail, dev_idx, avail_idx)
        /\ OnceEach(used, used_idx, used_head)' = OnceEach(used, used_idx, used_head)
    BY DEF OnceEach, Entries, Ahead
  <1>3. RingsFit'
    BY Zenon DEF RingsFit, Ahead
  <1>4. RequestsAreTracked'
    BY <1>1, <1>2, Zenon DEF RequestsAreTracked
  <1>. QED BY <1>1, <1>3, <1>4, Zenon

(* virtio_disk_init. *)
LEMMA VirtioInitially == VirtioInit => VirtioInv
  <1> SUFFICES ASSUME VirtioInit PROVE VirtioInv
    BY Zenon
  <1> USE DEF VirtioInit
  <1>1. VirtioTypeOK
    <2>1. 0 \in Desc
      BY ZeroIsDesc, Zenon
    <2>2. avail \in [Desc -> Desc] /\ used \in [Desc -> Desc] /\ head \in [IOProc -> Desc]
      BY <2>1, Zenon
    <2>3. desc \in [Desc -> [next : Desc \cup {NoProc}, buf : IOProc \cup {NoProc}]]
      BY Zenon DEF NoDesc
    <2>4. {avail_idx, used_head, used_idx, dev_idx} \subseteq 0 .. UINT16 - 1
      BY VirtioAssumption, Zenon
    <2>. QED BY <2>2, <2>3, <2>4, Zenon DEF VirtioTypeOK
  <1>2. Waiting = {}
    BY Zenon DEF Waiting
  <1>3. ChainsInv
    BY <1>2, Zenon DEF ChainsInv
  <1>4. FirstIdx \in Index
    BY VirtioAssumption, Zenon DEF Index
  <1>5. Ahead(FirstIdx, FirstIdx) = 0
    BY <1>4, AheadIs, Zenon
  <1>6. Entries(FirstIdx, FirstIdx) = {}
    BY <1>5 DEF Entries
  <1>7. Todo = {} /\ Completed = {}
    BY <1>6, Zenon DEF Todo, Completed, Queue
  <1>8. RequestsAreTracked
    BY <1>6, <1>7, Zenon DEF RequestsAreTracked, OnceEach
  <1>9. RingsFit
    BY <1>5, Width DEF RingsFit
  <1>10. ServedInv
    BY <1>2, <1>7, Zenon DEF ServedInv
  <1>11. SleepInv /\ NoLostInterrupt
    BY Zenon DEF SleepInv, NoLostInterrupt
  <1>. QED BY <1>1, <1>3, <1>8, <1>9, <1>10, <1>11, Zenon DEF VirtioInv

(* The next request of a process starts as not served. *)
LEMMA vcall_inv ==
    ASSUME NEW p \in IOProc, VirtioInv, vcall(p)
    PROVE  VirtioInv'
  <1>1. /\ UNCHANGED <<free, desc, info, avail, avail_idx, used, used_head, dev_idx,
                       dev_busy, dev_intr, bdisk, vchan, head, used_idx, handling>>
        /\ vpc[p] = "idle" /\ vpc' = [vpc EXCEPT ![p] = "rw"]
        /\ served' = served \ {p}
    BY Zenon DEF vcall, drvvars, VirtioGoto
  <1>2. VirtioTypeOK'
    BY <1>1, Zenon DEF VirtioInv, VirtioTypeOK
  <1>3. Waiting' = Waiting /\ p \notin Waiting
    BY <1>1, Zenon DEF Waiting, VirtioInv, VirtioTypeOK
  <1>4. ChainsInv'
    BY <1>1, <1>3, SameChains, Zenon DEF VirtioInv
  <1>5. RequestsAreTracked' /\ RingsFit' /\ Completed' = Completed
    BY <1>1, SameRings, Zenon DEF VirtioInv
  <1>6. \A d \in Completed : info[d] # p
    BY <1>3, Pend
  <1>7. ServedInv'
    BY <1>1, <1>3, <1>5, <1>6, Zenon DEF VirtioInv, ServedInv
  <1>8. SleepInv' /\ NoLostInterrupt'
    BY <1>1, Zenon DEF VirtioInv, SleepInv, NoLostInterrupt
  <1>. QED BY <1>2, <1>4, <1>5, <1>7, <1>8, Zenon DEF VirtioInv

(* Steps that only put a process to sleep or wake it: alloc3_fail, again,  *)
(* vkill, and intr_start and intr_end, which touch no process.             *)
LEMMA SleepOnly ==
    ASSUME VirtioInv,
           UNCHANGED <<free, desc, info, avail, avail_idx, used, used_head, dev_idx,
                       dev_busy, served, bdisk, vpc, head, used_idx>>,
           vchan' \in [IOProc -> {"none", "free", "buf"}],
           handling' \in BOOLEAN, dev_intr' \in BOOLEAN
    PROVE  /\ VirtioTypeOK' /\ ChainsInv' /\ RequestsAreTracked' /\ RingsFit'
           /\ ServedInv'
  <1>1. VirtioTypeOK'
    BY Zenon DEF VirtioInv, VirtioTypeOK
  <1>2. Waiting' = Waiting
    BY Zenon DEF Waiting
  <1>3. ChainsInv'
    BY <1>2, SameChains, Zenon DEF VirtioInv
  <1>4. RequestsAreTracked' /\ RingsFit' /\ Completed' = Completed
    BY SameRings, Zenon DEF VirtioInv
  <1>5. ServedInv'
    BY <1>2, <1>4, Zenon DEF VirtioInv, ServedInv
  <1>. QED BY <1>1, <1>3, <1>4, <1>5, Zenon

(* A process sleeps for descriptors only while fewer than three are free. *)
LEMMA alloc3_fail_inv ==
    ASSUME NEW p \in IOProc, VirtioInv, alloc3_fail(p)
    PROVE  VirtioInv'
  <1>1. /\ UNCHANGED <<free, desc, info, avail, avail_idx, used, used_head, dev_idx,
                       dev_busy, dev_intr, served, bdisk, vpc, head, used_idx, handling>>
        /\ ~Enough
        /\ vchan' = [IF free = {} THEN vchan ELSE vwakeup("free", {p}) EXCEPT ![p] = "free"]
    BY Zenon DEF alloc3_fail, drvvars, devvars
  <1>2. IsFiniteSet(free)
    <2>1. IsFiniteSet(Desc)
      BY FS_Interval, Width DEF Desc
    <2>. QED BY <2>1, FS_Subset, Zenon DEF VirtioInv, VirtioTypeOK
  <1>3. Cardinality(free) < 3
    BY <1>1, <1>2, FS_CardinalityType DEF Enough
  <1>4. /\ vchan' \in [IOProc -> {"none", "free", "buf"}]
        /\ \A q \in IOProc : vchan'[q] \in {vchan[q], "none", "free"}
    BY <1>1, Zenon DEF VirtioInv, VirtioTypeOK, vwakeup
  <1>5. SleepInv'
    BY <1>1, <1>3, <1>4, Zenon DEF VirtioInv, SleepInv
  <1>6. NoLostInterrupt' /\ handling' \in BOOLEAN /\ dev_intr' \in BOOLEAN
    BY <1>1, Zenon DEF VirtioInv, VirtioTypeOK, NoLostInterrupt
  <1>. QED BY <1>1, <1>4, <1>5, <1>6, SleepOnly, ZenonT(30) DEF VirtioInv

(* A process that was woken early sleeps again, its request still pending; *)
(* a process that is killed wakes up.                                      *)
LEMMA again_inv ==
    ASSUME NEW p \in IOProc, VirtioInv, again(p) \/ vkill(p)
    PROVE  VirtioInv'
  <1>1. /\ UNCHANGED <<free, desc, info, avail, avail_idx, used, used_head, dev_idx,
                       dev_busy, dev_intr, served, bdisk, vpc, head, used_idx, handling>>
        /\ \/ p \in bdisk /\ vchan' = [vchan EXCEPT ![p] = "buf"]
           \/ vchan' = [vchan EXCEPT ![p] = "none"]
    BY Zenon DEF again, vkill, Pending, drvvars, devvars
  <1>2. vchan' \in [IOProc -> {"none", "free", "buf"}]
    BY <1>1, Zenon DEF VirtioInv, VirtioTypeOK
  <1>3. SleepInv'
    BY <1>1, <1>2, Zenon DEF VirtioInv, SleepInv, VirtioTypeOK
  <1>4. NoLostInterrupt' /\ handling' \in BOOLEAN /\ dev_intr' \in BOOLEAN
    BY <1>1, Zenon DEF VirtioInv, VirtioTypeOK, NoLostInterrupt
  <1>. QED BY <1>1, <1>2, <1>3, <1>4, SleepOnly, Zenon DEF VirtioInv

(* The handler acknowledges before it looks at the ring, and returns only  *)
(* when it has seen the whole ring.                                        *)
LEMMA intr_inv ==
    ASSUME VirtioInv, intr_start \/ intr_end
    PROVE  VirtioInv'
  <1>1. /\ UNCHANGED <<free, desc, info, avail, avail_idx, used, used_head, dev_idx,
                       dev_busy, served, bdisk, vpc, vchan, head, used_idx>>
        /\ \/ handling' = TRUE /\ dev_intr' = FALSE
           \/ used_idx = used_head /\ handling' = FALSE /\ dev_intr' = dev_intr
    BY Zenon DEF intr_start, intr_end, Drained, drvvars, devvars, procvars
  <1>2. /\ vchan' \in [IOProc -> {"none", "free", "buf"}]
        /\ handling' \in BOOLEAN /\ dev_intr' \in BOOLEAN
    BY <1>1, Zenon DEF VirtioInv, VirtioTypeOK
  <1>3. SleepInv' /\ NoLostInterrupt'
    BY <1>1, Zenon DEF VirtioInv, SleepInv, NoLostInterrupt
  <1>. QED BY <1>1, <1>2, <1>3, SleepOnly, Zenon DEF VirtioInv

-----------------------------------------------------------------------------
(* The rings as the queue lemmas see them. *)
LEMMA Rings ==
    ASSUME VirtioInv
    PROVE  IsRing(avail, dev_idx, avail_idx) /\ IsRing(used, used_idx, used_head)
  BY Zenon DEF VirtioInv, VirtioTypeOK, RingsFit, RequestsAreTracked, Index, IsRing

(* The device takes the first chain of the avail ring. *)
LEMMA dev_take_inv ==
    ASSUME VirtioInv, dev_take
    PROVE  VirtioInv'
  <1> DEFINE x == avail[dev_idx % NUM]
  <1>1. /\ UNCHANGED <<free, desc, info, avail, avail_idx, used, used_head, dev_intr,
                       served, bdisk, vchan, vpc, head, used_idx, handling>>
        /\ dev_idx # avail_idx /\ dev_idx' = RingInc(dev_idx)
        /\ dev_busy' = dev_busy \cup {x}
    BY Zenon DEF dev_take, drvvars, procvars
  <1>2. /\ IsRing(avail, dev_idx', avail_idx)
        /\ x \in Todo
        /\ Queue(avail, dev_idx', avail_idx) = Todo \ {x}
    BY <1>1, Rings, QueueTake, Zenon DEF Todo
  <1>3. Todo' = Todo \ {x}
    BY <1>1, <1>2, Zenon DEF Todo
  <1>4. Completed' = Completed /\ {head[p] : p \in bdisk}' = {head[p] : p \in bdisk}
    BY <1>1, Zenon DEF Completed, Queue, Entries, Ahead
  <1>5. x \in Desc
    BY <1>2, Pend, Zenon
  <1> HIDE DEF x
  <1>6. VirtioTypeOK'
    BY <1>1, <1>2, <1>5 DEF VirtioInv, VirtioTypeOK, Index, IsRing
  <1>7. Waiting' = Waiting
    BY <1>1, Zenon DEF Waiting
  <1>8. ChainsInv'
    BY <1>1, <1>7, SameChains, Zenon DEF VirtioInv
  <1>9. RequestsAreTracked'
    <2>1. OnceEach(avail, dev_idx, avail_idx)' /\ OnceEach(used, used_idx, used_head)'
      BY <1>1, <1>2, Rings, Zenon DEF IsRing
    <2>. QED BY <1>1, <1>2, <1>3, <1>4, <2>1 DEF VirtioInv, RequestsAreTracked
  <1>10. RingsFit'
    BY <1>1, <1>2, Zenon DEF VirtioInv, RingsFit, IsRing
  <1>11. ServedInv'
    BY <1>1, <1>4, <1>7, Zenon DEF VirtioInv, ServedInv
  <1>12. SleepInv' /\ NoLostInterrupt'
    BY <1>1, Zenon DEF VirtioInv, SleepInv, NoLostInterrupt
  <1>. QED BY <1>6, <1>8, <1>9, <1>10, <1>11, <1>12 DEF VirtioInv

(* The device transfers the buffer that the chain names, which is that of  *)
(* the process that waits for it, then puts the chain in the used ring.    *)
LEMMA dev_complete_inv ==
    ASSUME NEW d \in Desc, VirtioInv, dev_complete(d)
    PROVE  VirtioInv'
  <1> DEFINE p == info[d]
  <1>1. /\ UNCHANGED <<free, desc, info, avail, avail_idx, dev_idx, bdisk, vchan, vpc,
                       head, used_idx, handling>>
        /\ d \in dev_busy /\ dev_busy' = dev_busy \ {d}
        /\ used' = [used EXCEPT ![used_head % NUM] = d]
        /\ used_head' = RingInc(used_head) /\ dev_intr' = TRUE
        /\ served' = served \cup ({desc[e].buf : e \in Chain(d)} \ {NoProc})
    BY Zenon DEF dev_complete, drvvars, procvars
  <1>2. p \in bdisk /\ p \in Waiting /\ head[p] = d /\ p \in IOProc
    BY <1>1, Pend, Zenon
  <1> HIDE DEF p
  <1>3. {desc[e].buf : e \in Chain(d)} \ {NoProc} = {p}
    <2>1. HasChain(p) /\ NoProc # p
      BY <1>2, VirtioAssumption, Zenon DEF VirtioInv, ChainsInv
    <2>2. Chain(d) = Mine(p)
      BY <1>2, <2>1, ChainIs, Zenon
    <2>. QED BY <1>2, <2>1, <2>2, Zenon DEF HasChain, Mine
  <1>4. d \notin Completed
    BY <1>1, Zenon DEF VirtioInv, RequestsAreTracked
  <1>5. /\ IsRing(used', used_idx, used_head')
        /\ Queue(used', used_idx, used_head') = Completed \cup {d}
    <2>1. d \notin Queue(used, used_idx, used_head)
      BY <1>4, Zenon DEF Completed
    <2>2. used' = Put(used, used_head, d) /\ used_head' = RingInc(used_head)
      BY <1>1, Zenon DEF Put
    <2>. QED BY <2>1, <2>2, Rings, QueuePut DEF Completed
  <1>6. Completed' = Completed \cup {d}
    BY <1>1, <1>5, Zenon DEF Completed
  <1>7. Todo' = Todo /\ {head[q] : q \in bdisk}' = {head[q] : q \in bdisk}
    BY <1>1, Zenon DEF Todo, Queue, Entries, Ahead
  <1>8. VirtioTypeOK'
    <2>1. served' \subseteq IOProc
      BY <1>1, <1>2, <1>3, Zenon DEF VirtioInv, VirtioTypeOK
    <2>2. /\ UNCHANGED <<free, desc, info, avail, avail_idx, dev_idx, bdisk, vchan, vpc,
                         head, used_idx, handling>>
          /\ dev_busy' \subseteq dev_busy /\ dev_intr' = TRUE
      BY <1>1, Zenon
    <2>. QED BY <1>5, <2>1, <2>2 DEF VirtioInv, VirtioTypeOK, Index, IsRing
  <1>9. Waiting' = Waiting
    BY <1>1, ZenonT(30) DEF Waiting
  <1>10. ChainsInv'
    BY <1>1, <1>9, SameChains, ZenonT(30) DEF VirtioInv
  <1>11. RequestsAreTracked'
    <2>1. OnceEach(avail, dev_idx, avail_idx)' /\ OnceEach(used, used_idx, used_head)'
      <3>1. OnceEach(avail, dev_idx, avail_idx)' = OnceEach(avail, dev_idx, avail_idx)
        BY <1>1 DEF OnceEach, Entries, Ahead
      <3>. QED BY <1>1, <1>5, <3>1, Rings, ZenonT(30) DEF IsRing
    <2>. QED BY <1>1, <1>4, <1>6, <1>7, <2>1, ZenonT(30) DEF VirtioInv,
                RequestsAreTracked
  <1>12. RingsFit'
    BY <1>1, <1>5, Zenon DEF VirtioInv, RingsFit, IsRing
  <1>13. ServedInv'
    BY <1>1, <1>3, <1>6, <1>9, Zenon DEF VirtioInv, ServedInv, p
  <1>14. SleepInv' /\ NoLostInterrupt'
    BY <1>1, Zenon DEF VirtioInv, SleepInv, NoLostInterrupt
  <1>. QED BY <1>8, <1>10, <1>11, <1>12, <1>13, <1>14, ZenonT(30) DEF VirtioInv

(* virtio_disk_intr takes the first chain of the used ring; its request is *)
(* the pending request of the process it wakes.                            *)
LEMMA intr_one_inv ==
    ASSUME VirtioInv, intr_one
    PROVE  VirtioInv'
  <1> DEFINE x == used[used_idx % NUM]
             p == info[x]
  <1>1. /\ UNCHANGED <<free, desc, info, avail, avail_idx, used, used_head, dev_idx,
                       dev_busy, dev_intr, served, vpc, head, handling>>
        /\ handling /\ used_idx # used_head /\ used_idx' = RingInc(used_idx)
        /\ bdisk' = bdisk \ {p} /\ vchan' = [vchan EXCEPT ![p] = "none"]
    BY Zenon DEF intr_one, UsedEntry, DiskDone, WakeBuf, drvvars, devvars
  <1>2. /\ IsRing(used, used_idx', used_head)
        /\ x \in Completed
        /\ Queue(used, used_idx', used_head) = Completed \ {x}
    BY <1>1, Rings, QueueTake, ZenonT(30) DEF Completed
  <1>3. p \in bdisk /\ p \in Waiting /\ head[p] = x /\ p \in IOProc
    BY <1>2, Pend, ZenonT(30)
  <1>4. p \in served
    BY <1>2, Zenon DEF VirtioInv, ServedInv
  <1> HIDE DEF x, p
  <1>5. Completed' = Completed \ {x}
    BY <1>1, <1>2, Zenon DEF Completed
  <1>6. Todo' = Todo
    BY <1>1, Zenon DEF Todo, Queue, Entries, Ahead
  <1>7. {head[q] : q \in bdisk}' = {head[q] : q \in bdisk} \ {x}
    <2>1. \A q \in bdisk : head[q] = x <=> q = p
      BY <1>3, Pend, Zenon
    <2>. QED BY <1>1, <2>1, Zenon
  <1>8. VirtioTypeOK'
    BY <1>1, <1>2, <1>3 DEF VirtioInv, VirtioTypeOK, Index, IsRing
  <1>9. Waiting' = Waiting
    BY <1>1, Zenon DEF Waiting
  <1>10. ChainsInv'
    BY <1>1, <1>9, SameChains, ZenonT(30) DEF VirtioInv
  <1>11. RequestsAreTracked'
    <2>1. OnceEach(avail, dev_idx, avail_idx)' /\ OnceEach(used, used_idx, used_head)'
      <3>1. OnceEach(avail, dev_idx, avail_idx)' = OnceEach(avail, dev_idx, avail_idx)
        BY <1>1 DEF OnceEach, Entries, Ahead
      <3>. QED BY <1>1, <1>2, <3>1, Rings, Zenon DEF IsRing
    <2>. QED BY <1>1, <1>2, <1>5, <1>6, <1>7, <2>1 DEF VirtioInv, RequestsAreTracked
  <1>12. RingsFit'
    BY <1>1, <1>2, Zenon DEF VirtioInv, RingsFit, IsRing
  <1>13. ServedInv'
    BY <1>1, <1>4, <1>5, <1>9, Zenon DEF VirtioInv, ServedInv
  <1>14. SleepInv' /\ NoLostInterrupt'
    BY <1>1, <1>3, Zenon DEF VirtioInv, SleepInv, NoLostInterrupt, VirtioTypeOK
  <1>. QED BY <1>8, <1>10, <1>11, <1>12, <1>13, <1>14, ZenonT(30) DEF VirtioInv

-----------------------------------------------------------------------------
(* virtio_disk_rw: the three descriptors were free, so the new chain is    *)
(* apart from all others, and its head is in no ring.                      *)
LEMMA submit_inv ==
    ASSUME NEW p \in IOProc, VirtioInv, submit(p)
    PROVE  VirtioInv'
  <1>1. PICK d0, d1, d2 :
        /\ d0 = alloc_desc(free) /\ d1 = alloc_desc(free \ {d0})
        /\ d2 = alloc_desc(free \ {d0, d1})
        /\ Enough /\ vpc[p] = "rw"
        /\ free' = free \ {d0, d1, d2}
        /\ desc' = [desc EXCEPT ![d0] = [next |-> d1, buf |-> NoProc],
                                ![d1] = [next |-> d2, buf |-> p],
                                ![d2] = NoDesc]
        /\ info' = [info EXCEPT ![d0] = p]
        /\ bdisk' = bdisk \cup {p}
        /\ avail' = [avail EXCEPT ![avail_idx % NUM] = d0]
        /\ avail_idx' = RingInc(avail_idx)
        /\ head' = [head EXCEPT ![p] = d0]
        /\ vchan' = [vchan EXCEPT ![p] = "buf"]
        /\ vpc' = [vpc EXCEPT ![p] = "wait"]
        /\ UNCHANGED <<used, used_head, dev_idx, dev_busy, dev_intr, served, used_idx,
                       handling>>
    BY Zenon DEF submit, Ready, VirtioGoto, devvars
  <1>2. /\ d0 \in free /\ d1 \in free /\ d2 \in free
        /\ d0 # d1 /\ d0 # d2 /\ d1 # d2
        /\ free \subseteq Desc
    BY <1>1, ThreeFree, Zenon DEF VirtioInv, VirtioTypeOK
  <1>3. /\ desc'[d0] = [next |-> d1, buf |-> NoProc]
        /\ desc'[d1] = [next |-> d2, buf |-> p]
        /\ desc'[d2] = NoDesc
        /\ \A d \in Desc \ free : desc'[d] = desc[d] /\ info'[d] = info[d]
        /\ info'[d0] = p
        /\ head'[p] = d0 /\ \A q \in IOProc \ {p} : head'[q] = head[q]
    BY <1>1, <1>2, ZenonT(30) DEF VirtioInv, VirtioTypeOK
  <1>4. Waiting' = Waiting \cup {p} /\ p \notin Waiting /\ Waiting \subseteq IOProc
    BY <1>1, ZenonT(30) DEF Waiting, VirtioInv, VirtioTypeOK
  <1>5. VirtioTypeOK'
    <2>1. /\ desc' \in [Desc -> [next : Desc \cup {NoProc}, buf : IOProc \cup {NoProc}]]
          /\ info' \in [Desc -> IOProc \cup {NoProc}]
      BY <1>1, <1>2, ZenonT(30) DEF VirtioInv, VirtioTypeOK, NoDesc
    <2>2. avail' \in [Desc -> Desc] /\ head' \in [IOProc -> Desc] /\ free' \subseteq Desc
      BY <1>1, <1>2, ZenonT(30) DEF VirtioInv, VirtioTypeOK
    <2>3. avail_idx' \in 0 .. UINT16 - 1
      BY <1>1, AheadIs, ZenonT(30) DEF VirtioInv, VirtioTypeOK, Index
    <2>4. /\ vchan' \in [IOProc -> {"none", "free", "buf"}]
          /\ vpc' \in [IOProc -> {"idle", "rw", "wait"}]
          /\ bdisk' \subseteq IOProc
      BY <1>1, ZenonT(30) DEF VirtioInv, VirtioTypeOK
    <2>5. UNCHANGED <<used, used_head, dev_idx, dev_busy, dev_intr, served, used_idx,
                      handling>>
      BY <1>1, ZenonT(30)
    <2>. QED BY <2>1, <2>2, <2>3, <2>4, <2>5 DEF VirtioInv, VirtioTypeOK
  <1>6. ASSUME NEW q \in Waiting
        PROVE  HasChain(q)' /\ Mine(q)' = Mine(q) /\ Mine(q) \subseteq Desc \ free
    <2>1. HasChain(q) /\ q \in IOProc /\ q # p
      BY <1>4, Zenon DEF VirtioInv, ChainsInv
    <2>2. Mine(q) \subseteq Desc \ free
      BY <2>1, Zenon DEF HasChain, Mine, VirtioInv, VirtioTypeOK
    <2>3. /\ \A d \in Mine(q) : desc'[d] = desc[d] /\ d \notin free'
          /\ info'[head[q]] = info[head[q]] /\ head'[q] = head[q]
      BY <1>1, <1>3, <2>1, <2>2, ZenonT(30) DEF Mine
    <2>. QED BY <2>1, <2>2, <2>3, ChainKept, Zenon
  <1>7. HasChain(p)' /\ Mine(p)' = {d0, d1, d2}
    <2>1. D1(p)' = d1 /\ D2(p)' = d2
      BY <1>3 DEF D1, D2
    <2>2. Mine(p)' = {d0, d1, d2}
      BY <1>3, <2>1, ZenonT(30) DEF Mine
    <2>3. d0 \notin free' /\ d1 \notin free' /\ d2 \notin free'
      BY <1>1, ZenonT(30)
    <2>. QED BY <1>2, <1>3, <2>1, <2>2, <2>3 DEF HasChain, NoDesc
  <1>8. ChainsInv'
    <2>1. \A q \in Waiting' : HasChain(q)'
      BY <1>4, <1>6, <1>7, Zenon
    <2>2. ASSUME NEW q \in Waiting', NEW r \in Waiting', q # r
          PROVE  Mine(q)' \cap Mine(r)' = {}
      BY <1>2, <1>4, <1>6, <1>7, <2>2 DEF VirtioInv, ChainsInv
    <2>3. ASSUME NEW d \in Desc, d \notin free'
          PROVE  \E q \in Waiting' : d \in Mine(q)'
      <3>1. d \notin free \/ d \in {d0, d1, d2}
        BY <1>1, <2>3, Zenon
      <3>2. d \notin free => \E q \in Waiting : d \in Mine(q)
        BY Zenon DEF VirtioInv, ChainsInv
      <3>. QED BY <1>4, <1>6, <1>7, <3>1, <3>2, Zenon
    <2>. QED BY <2>1, <2>2, <2>3, SMTT(30) DEF ChainsInv
  <1>9. d0 \notin Todo /\ d0 \notin dev_busy /\ d0 \notin Completed
    BY <1>2, Pend, Zenon
  <1>10. /\ IsRing(avail', dev_idx, avail_idx')
         /\ Queue(avail', dev_idx, avail_idx') = Todo \cup {d0}
    <2>1. d0 \notin Queue(avail, dev_idx, avail_idx) /\ d0 \in Desc
      BY <1>2, <1>9, ZenonT(30) DEF Todo
    <2>2. avail' = Put(avail, avail_idx, d0) /\ avail_idx' = RingInc(avail_idx)
      BY <1>1, Zenon DEF Put
    <2>. QED BY <2>1, <2>2, Rings, QueuePut DEF Todo
  <1>11. Todo' = Todo \cup {d0}
    BY <1>1, <1>10, ZenonT(30) DEF Todo
  <1>12. Completed' = Completed
    BY <1>1, ZenonT(30) DEF Completed, Queue, Entries, Ahead
  <1>13. {head[q] : q \in bdisk}' = {head[q] : q \in bdisk} \cup {d0}
    <2>1. \A q \in bdisk : q \in IOProc \ {p}
      BY <1>4, Pend, Zenon
    <2>. QED BY <1>1, <1>3, <2>1, SMTT(30)
  <1>14. RequestsAreTracked'
    <2>1. OnceEach(avail, dev_idx, avail_idx)' /\ OnceEach(used, used_idx, used_head)'
      <3>1. OnceEach(used, used_idx, used_head)' = OnceEach(used, used_idx, used_head)
        BY <1>1, ZenonT(30)
      <3>. QED BY <1>1, <1>10, <3>1, Rings DEF IsRing
    <2>2. dev_busy' = dev_busy
      BY <1>1, ZenonT(30)
    <2>. QED BY <1>9, <1>11, <1>12, <1>13, <2>1, <2>2, ZenonT(30) DEF VirtioInv,
                RequestsAreTracked
  <1>15. RingsFit'
    BY <1>1, <1>10, Zenon DEF VirtioInv, RingsFit, IsRing
  <1>16. ServedInv'
    <2>1. \A d \in Completed : info'[d] = info[d]
      BY <1>3, Pend, Zenon
    <2>2. bdisk' = bdisk \cup {p} /\ served' = served
      BY <1>1, Zenon
    <2>3. ServedInv
      BY Zenon DEF VirtioInv
    <2>. QED BY <1>4, <1>12, <2>1, <2>2, <2>3, Zenon DEF ServedInv
  <1>17. SleepInv'
    <2>1. Cardinality(free) < 3 => Cardinality(free') < 3
      BY <1>1, <1>2, FewerFree, ZenonT(30)
    <2>2. ASSUME NEW q \in IOProc
          PROVE  /\ vchan'[q] = "buf" => q \in bdisk'
                 /\ vchan'[q] = "free" => Cardinality(free') < 3
      BY <1>1, <2>1, Zenon DEF VirtioInv, VirtioTypeOK, SleepInv
    <2>. QED BY <2>2, Zenon DEF SleepInv
  <1>18. NoLostInterrupt'
    BY <1>1, Zenon DEF VirtioInv, NoLostInterrupt
  <1>. QED BY <1>5, <1>8, <1>14, <1>15, <1>16, <1>17, <1>18, Zenon DEF VirtioInv

(* virtio_disk_rw returns: free_chain gives back just its own chain, which *)
(* is in no ring any more.                                                 *)
LEMMA finish_inv ==
    ASSUME NEW p \in IOProc, VirtioInv, finish(p)
    PROVE  VirtioInv'
  <1>1. /\ vpc[p] = "wait" /\ p \notin bdisk
        /\ info' = [info EXCEPT ![head[p]] = NoProc]
        /\ free' = free \cup Chain(head[p])
        /\ desc' = [d \in Desc |-> IF d \in Chain(head[p]) THEN NoDesc ELSE desc[d]]
        /\ vchan' = vwakeup("free", {p})
        /\ vchan[p] = "none"
        /\ head' = [head EXCEPT ![p] = 0]
        /\ vpc' = [vpc EXCEPT ![p] = "idle"]
        /\ UNCHANGED <<avail, avail_idx, used, used_head, dev_idx, dev_busy, dev_intr,
                       served, bdisk, used_idx, handling>>
    BY ZenonT(30) DEF finish, Ready, Pending, Freed, VirtioGoto, devvars
  <1>2. /\ Waiting' = Waiting \ {p} /\ p \in Waiting /\ Waiting \subseteq IOProc
        /\ bdisk \subseteq Waiting
    BY <1>1, Zenon DEF Waiting, VirtioInv, VirtioTypeOK, ServedInv
  <1>3. /\ HasChain(p) /\ Chain(head[p]) = Mine(p) /\ Mine(p) \subseteq Desc
        /\ head[p] \in Mine(p)
    <2>1. HasChain(p)
      BY <1>2, Zenon DEF VirtioInv, ChainsInv
    <2>. QED BY <2>1, ChainIs, ZenonT(30) DEF HasChain, Mine, VirtioInv, VirtioTypeOK
  <1>4. /\ \A d \in Desc : d \notin Mine(p) => desc'[d] = desc[d] /\ info'[d] = info[d]
        /\ \A q \in IOProc \ {p} : head'[q] = head[q]
        /\ free' = free \cup Mine(p)
    BY <1>1, <1>3 DEF VirtioInv, VirtioTypeOK
  <1>5. VirtioTypeOK'
    <2>1. /\ desc' \in [Desc -> [next : Desc \cup {NoProc}, buf : IOProc \cup {NoProc}]]
          /\ info' \in [Desc -> IOProc \cup {NoProc}]
      BY <1>1, Zenon DEF VirtioInv, VirtioTypeOK, NoDesc
    <2>2. 0 \in Desc
      BY ZeroIsDesc, Zenon
    <2>3. head' \in [IOProc -> Desc] /\ free' \subseteq Desc
      BY <1>1, <1>3, <1>4, <2>2, ZenonT(30) DEF VirtioInv, VirtioTypeOK
    <2>4. /\ vchan' \in [IOProc -> {"none", "free", "buf"}]
          /\ vpc' \in [IOProc -> {"idle", "rw", "wait"}]
      BY <1>1, Zenon DEF VirtioInv, VirtioTypeOK, vwakeup
    <2>. QED BY <1>1, <2>1, <2>3, <2>4, ZenonT(30) DEF VirtioInv, VirtioTypeOK
  <1>6. ASSUME NEW q \in Waiting, q # p
        PROVE  HasChain(q)' /\ Mine(q)' = Mine(q)
    <2>1. HasChain(q) /\ q \in IOProc /\ Mine(q) \cap Mine(p) = {} /\ Mine(q) \cap free = {}
      BY <1>2, <1>6, ZenonT(30) DEF VirtioInv, ChainsInv, HasChain
    <2>2. Mine(q) \subseteq Desc /\ head[q] \in Mine(q)
      BY <2>1, ZenonT(30) DEF HasChain, Mine, VirtioInv, VirtioTypeOK
    <2>3. /\ \A d \in Mine(q) : desc'[d] = desc[d] /\ d \notin free'
          /\ info'[head[q]] = info[head[q]] /\ head'[q] = head[q]
      BY <1>4, <1>6, <2>1, <2>2
    <2>. QED BY <2>1, <2>3, ChainKept, ZenonT(30)
  <1>7. ChainsInv'
    <2>1. \A q \in Waiting' : HasChain(q)'
      BY <1>2, <1>6, Zenon
    <2>2. ASSUME NEW q \in Waiting', NEW r \in Waiting', q # r
          PROVE  Mine(q)' \cap Mine(r)' = {}
      <3>1. q \in Waiting \ {p} /\ r \in Waiting \ {p}
        BY <1>2, Zenon
      <3>2. Mine(q)' = Mine(q) /\ Mine(r)' = Mine(r)
        BY <1>6, <3>1, Zenon
      <3>3. Mine(q) \cap Mine(r) = {}
        BY <2>2, <3>1, Zenon DEF VirtioInv, ChainsInv
      <3>. QED BY <3>2, <3>3, Zenon
    <2>3. ASSUME NEW d \in Desc, d \notin free'
          PROVE  \E q \in Waiting' : d \in Mine(q)'
      <3>1. d \notin free /\ d \notin Mine(p)
        BY <1>4, <2>3, Zenon
      <3>2. PICK q \in Waiting : d \in Mine(q)
        BY <3>1, Zenon DEF VirtioInv, ChainsInv
      <3>3. q \in Waiting' /\ q # p
        BY <1>2, <3>1, <3>2, ZenonT(30)
      <3>. QED BY <1>6, <3>2, <3>3, ZenonT(30)
    <2>. QED BY <2>1, <2>2, <2>3, ZenonT(30) DEF ChainsInv
  <1>8. {head[q] : q \in bdisk}' = {head[q] : q \in bdisk}
    BY <1>1, <1>2, <1>4, SMTT(30)
  <1>9. RequestsAreTracked' /\ RingsFit' /\ Completed' = Completed
    BY <1>1, <1>8, SameRings, ZenonT(30) DEF VirtioInv
  <1>10. ServedInv'
    <2>1. \A d \in Completed : d # head[p] /\ d \in Desc
      BY <1>1, <1>2, Pend, ZenonT(30)
    <2>2. \A d \in Completed : info'[d] = info[d]
      BY <1>1, <2>1, ZenonT(30) DEF VirtioInv, VirtioTypeOK
    <2>. QED BY <1>1, <1>2, <1>9, <2>2, SMTT(30) DEF VirtioInv, ServedInv
  <1>11. SleepInv'
    BY <1>1, Zenon DEF VirtioInv, VirtioTypeOK, SleepInv, vwakeup
  <1>12. NoLostInterrupt'
    BY <1>1, Zenon DEF VirtioInv, NoLostInterrupt
  <1>. QED BY <1>5, <1>7, <1>9, <1>10, <1>11, <1>12, ZenonT(30) DEF VirtioInv

-----------------------------------------------------------------------------
(* Every step of the driver, the handler and the device keeps VirtioInv. *)
LEMMA VirtioStep == VirtioInv /\ [VirtioNext]_vvars => VirtioInv'
  <1> SUFFICES ASSUME VirtioInv, [VirtioNext]_vvars PROVE VirtioInv'
    BY Zenon
  <1>1. CASE \E p \in IOProc : vcall(p) \/ vkill(p) \/ Driver(p)
    <2> PICK p \in IOProc : vcall(p) \/ vkill(p) \/ Driver(p)
      BY <1>1, Zenon
    <2>. QED BY vcall_inv, again_inv, alloc3_fail_inv, submit_inv, finish_inv, Zenon
             DEF Driver
  <1>2. CASE Intr
    BY <1>2, intr_inv, intr_one_inv, Zenon DEF Intr
  <1>3. CASE Device
    BY <1>3, dev_take_inv, dev_complete_inv, Zenon DEF Device
  <1>4. CASE UNCHANGED vvars
    <2>1. UNCHANGED <<free, desc, info, avail, avail_idx, used, used_head, dev_idx,
                      dev_busy, dev_intr, served, bdisk, vchan, vpc, head, used_idx,
                      handling>>
      BY <1>4, Zenon DEF vvars, drvvars, devvars, procvars
    <2>2. /\ vchan' \in [IOProc -> {"none", "free", "buf"}]
          /\ handling' \in BOOLEAN /\ dev_intr' \in BOOLEAN
      BY <2>1, Zenon DEF VirtioInv, VirtioTypeOK
    <2>3. SleepInv' /\ NoLostInterrupt'
      BY <2>1, Zenon DEF VirtioInv, SleepInv, NoLostInterrupt
    <2>. QED BY <2>1, <2>2, <2>3, SleepOnly, Zenon DEF VirtioInv
  <1>. QED BY <1>1, <1>2, <1>3, <1>4, Zenon DEF VirtioNext, VirtioQuiet

(* VirtioInv holds in every reachable state of the driver and the device,  *)
(* for any number of processes, descriptors and requests.                  *)
THEOREM VirtioInductive == VirtioSpec => []VirtioInv
  BY VirtioInitially, VirtioStep, PTL DEF VirtioSpec

(* alloc3_desc, free_chain, the two rings and the interrupt handler:       *)
(* descriptors are free or in one chain, a request is in one place once,   *)
(* the driver takes each completion once, and no interrupt or wakeup is    *)
(* lost.                                                                   *)
THEOREM SoundRings == VirtioSpec => []RingsAreSound
  <1>1. VirtioInv => RingsAreSound
    <2> SUFFICES ASSUME VirtioInv PROVE RingsAreSound
      BY Zenon
    <2>1. ASSUME NEW p \in Waiting
          PROVE  /\ HasChain(p) /\ Chain(head[p]) = Mine(p)
                 /\ Mine(p) \cap free = {} /\ Mine(p) \subseteq Desc
                 /\ Cardinality(Mine(p)) = 3
      <3>1. HasChain(p) /\ p \in IOProc
        BY Pend, Zenon DEF VirtioInv, ChainsInv
      <3>. QED BY <3>1, ChainIs, ChainHasThree, ZenonT(30)
              DEF HasChain, Mine, VirtioInv, VirtioTypeOK
    <2>2. DescriptorsAreConserved
      <3>1. \A p \in Waiting : Chain(head[p]) \cap free = {} /\ Cardinality(Chain(head[p])) = 3
        BY <2>1, Zenon
      <3>2. \A p, q \in Waiting : p # q => Chain(head[p]) \cap Chain(head[q]) = {}
        BY <2>1, Zenon DEF VirtioInv, ChainsInv
      <3>3. free \cup UNION {Chain(head[p]) : p \in Waiting} = Desc
        <4>1. free \subseteq Desc
          BY Zenon DEF VirtioInv, VirtioTypeOK
        <4>2. \A d \in Desc : d \notin free => \E p \in Waiting : d \in Chain(head[p])
          BY <2>1 DEF VirtioInv, ChainsInv
        <4>. QED BY <2>1, <4>1, <4>2, Zenon
      <3>. QED BY <3>1, <3>2, <3>3, Zenon DEF DescriptorsAreConserved
    <2>3. CompletionsAreFresh
      <3> SUFFICES ASSUME used_idx # used_head
                   PROVE  info[UsedEntry] \in Waiting \cap bdisk
        BY Zenon DEF CompletionsAreFresh
      <3>1. UsedEntry \in Completed
        BY Rings, QueueTake, Zenon DEF UsedEntry, Completed
      <3>. QED BY <3>1, Pend, Zenon
    <2>4. NoLostDiskWakeup
      BY Zenon DEF VirtioInv, SleepInv, NoLostDiskWakeup
    <2>. QED BY <2>2, <2>3, <2>4, Zenon DEF RingsAreSound, VirtioInv
  <1>. QED BY <1>1, VirtioInductive, PTL

(* A process leaves virtio_disk_rw only after the device has transferred   *)
(* its own buffer, however completions, interrupts and kills interleave.   *)
THEOREM ReturnsServed == VirtioSpec => DoneMeansServed
  <1>1. ASSUME VirtioInv, [VirtioNext]_vvars
        PROVE  \A p \in IOProc : vpc[p] = "wait" /\ vpc'[p] = "idle" => p \in served
    <2> SUFFICES ASSUME NEW p \in IOProc, vpc[p] = "wait", vpc'[p] = "idle", p \notin served
                 PROVE  FALSE
      BY Zenon
    <2>1. p \in bdisk /\ vpc \in [IOProc -> {"idle", "rw", "wait"}]
      BY <1>1, Zenon DEF VirtioInv, VirtioTypeOK, ServedInv, Waiting
    <2>2. vpc' # vpc
      BY <2>1, Zenon
    <2>3. PICK q \in IOProc : vcall(q) \/ submit(q) \/ finish(q)
      BY <1>1, <2>2, ZenonT(30) DEF VirtioNext, Driver, vkill, alloc3_fail, again,
         Intr, intr_start, intr_one, intr_end, Device, dev_take, dev_complete,
         VirtioQuiet, vvars, procvars
    <2>4. finish(q) /\ q = p
      BY <2>1, <2>3, ZenonT(30) DEF vcall, submit, finish, VirtioGoto, Ready
    <2>. QED BY <2>1, <2>4, Zenon DEF finish, Pending
  <1>2. VirtioInv /\ [VirtioNext]_vvars =>
            [\A p \in IOProc : vpc[p] = "wait" /\ vpc'[p] = "idle" => p \in served]_vvars
    BY <1>1, Zenon
  <1>. QED BY <1>2, VirtioInductive, PTL DEF VirtioSpec, DoneMeansServed

=============================================================================
