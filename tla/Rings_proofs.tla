---------------------------- MODULE Rings_proofs ----------------------------
(***************************************************************************)
(* Proofs about the receive rings: that dpdk_init gives each of them to    *)
(* one capture thread and each port to one receive lcore (DpdkInit, for    *)
(* any ports, speeds, weights, options and lcores), and that a ring with   *)
(* one receive lcore and one capture thread is the bounded queue they take *)
(* it for (RxRing, for any size of the ring, any wrap of its indices and   *)
(* any number of packets).                                                 *)
(***************************************************************************)
EXTENDS DpdkInit, RxRing, DataTheorems, SequenceTheorems, TLAPS

-----------------------------------------------------------------------------
(* Counting up to n *)

LEMMA Climb ==
    ASSUME NEW n \in Nat, NEW T, 0 \in T, \A k \in 0 .. n - 1 : k \in T => k + 1 \in T
    PROVE  0 .. n \subseteq T
<1> DEFINE Bad == {k \in 0 .. n : k \notin T}
<1>1. SUFFICES ASSUME Bad # {} PROVE FALSE
  OBVIOUS
<1>2. IsFiniteSet(Bad) /\ \A k \in Bad : k \in Int
  <2>1. Bad \subseteq 0 .. n /\ IsFiniteSet(0 .. n)
    BY FS_Interval
  <2> QED
    BY <2>1, FS_Subset
<1>3. PICK k \in Bad : \A i \in Bad : k <= i
  BY <1>1, <1>2, FiniteHasLeast
<1>4. k \in 0 .. n /\ k \notin T /\ k # 0
  OBVIOUS
<1>5. k - 1 \in 0 .. n - 1 /\ k - 1 \notin Bad /\ (k - 1) + 1 = k
  BY <1>3, <1>4
<1> QED
  BY <1>4, <1>5

-----------------------------------------------------------------------------
(* The sums over the ports before one *)

LEMMA BelowIs == \A f, n : SumBelow(f, n) = Sum(f, 0 .. n - 1)
BY DEF SumBelow, Sum

LEMMA BelowNone ==
    ASSUME NEW f
    PROVE  SumBelow(f, 0) = 0
<1>1. 0 .. 0 - 1 = {}
  OBVIOUS
<1> QED
  BY <1>1, SumEmpty DEF SumBelow, Sum

LEMMA BelowStep ==
    ASSUME NEW f, NEW n \in Nat, \A i \in 0 .. n : f[i] \in Nat
    PROVE  /\ SumBelow(f, n) \in Nat /\ SumBelow(f, n + 1) \in Nat
           /\ SumBelow(f, n + 1) = SumBelow(f, n) + f[n]
<1>1. IsFiniteSet(0 .. n) /\ IsFiniteSet(0 .. n - 1) /\ n \in 0 .. n
  BY FS_Interval
<1>2. Sum(f, 0 .. n) = f[n] + Sum(f, (0 .. n) \ {n})
  BY <1>1, SumRemove
<1>3. (0 .. n) \ {n} = 0 .. n - 1 /\ n + 1 - 1 = n
  OBVIOUS
<1>4. Sum(f, 0 .. n - 1) \in Nat /\ f[n] \in Nat
  BY <1>1, SumType
<1>5. SumBelow(f, n) = Sum(f, 0 .. n - 1)
  BY BelowIs
<1>6. SumBelow(f, n + 1) = Sum(f, 0 .. n)
  <2>1. SumBelow(f, n + 1) = Sum(f, 0 .. n + 1 - 1)
    BY BelowIs
  <2> QED
    BY <1>3, <2>1
<1> DEFINE a == Sum(f, 0 .. n - 1)
<1>7. Sum(f, 0 .. n) = f[n] + a
  BY <1>2, <1>3
<1>8. a \in Nat
  BY <1>4
<1> HIDE DEF a
<1> QED
  BY <1>4, <1>5, <1>6, <1>7, <1>8 DEF a

LEMMA BelowMono ==
    ASSUME NEW f, NEW n \in Nat, \A i \in 0 .. n - 1 : f[i] \in Nat
    PROVE  /\ \A k \in 0 .. n : SumBelow(f, k) \in Nat
           /\ \A j, k \in 0 .. n : j <= k => SumBelow(f, j) <= SumBelow(f, k)
           /\ \A k \in 0 .. n - 1 : SumBelow(f, k + 1) = SumBelow(f, k) + f[k]
<1>1. ASSUME NEW k \in 0 .. n - 1
      PROVE  /\ SumBelow(f, k) \in Nat /\ SumBelow(f, k + 1) \in Nat
             /\ SumBelow(f, k + 1) = SumBelow(f, k) + f[k]
  <2>1. k \in Nat /\ \A i \in 0 .. k : f[i] \in Nat
    OBVIOUS
  <2> QED
    BY <2>1, BelowStep
<1>2. \A k \in 0 .. n : SumBelow(f, k) \in Nat
  <2> TAKE k \in 0 .. n
  <2>1. CASE k = 0
    BY <2>1, BelowNone
  <2>2. CASE k # 0
    <3>1. k - 1 \in 0 .. n - 1 /\ (k - 1) + 1 = k
      BY <2>2
    <3> QED
      BY <1>1, <3>1
  <2> QED
    BY <2>1, <2>2
<1>3. ASSUME NEW j \in 0 .. n PROVE \A k \in 0 .. n : j <= k => SumBelow(f, j) <= SumBelow(f, k)
  <2> DEFINE T == {k \in 0 .. n : j <= k => SumBelow(f, j) <= SumBelow(f, k)}
  <2>1. 0 \in T
    <3>1. j <= 0 => j = 0
      OBVIOUS
    <3>2. SumBelow(f, 0) \in Nat
      BY <1>2
    <3> QED
      BY <3>1, <3>2
  <2>2. ASSUME NEW k \in 0 .. n - 1, k \in T PROVE k + 1 \in T
    <3>1. SumBelow(f, k + 1) = SumBelow(f, k) + f[k] /\ f[k] \in Nat
      BY <1>1
    <3>2. k + 1 \in 0 .. n /\ (j <= k + 1 => j <= k \/ j = k + 1)
      OBVIOUS
    <3>3. {SumBelow(f, j), SumBelow(f, k), SumBelow(f, k + 1)} \subseteq Nat
      BY <1>2, <3>2
    <3> QED
      BY <2>2, <3>1, <3>2, <3>3
  <2>3. 0 .. n \subseteq T
    <3> HIDE DEF T
    <3> QED
      BY <2>1, <2>2, Climb
  <2> QED
    BY <2>3
<1> QED
  BY <1>1, <1>2, <1>3

(* Each number below the whole sum belongs to one port. *)
LEMMA BelowFinds ==
    ASSUME NEW f, NEW n \in Nat, \A i \in 0 .. n - 1 : f[i] \in Nat,
           NEW m \in 0 .. SumBelow(f, n) - 1
    PROVE  \E p \in 0 .. n - 1 : SumBelow(f, p) <= m /\ m < SumBelow(f, p + 1)
<1>1. SUFFICES ASSUME \A p \in 0 .. n - 1 : ~ (SumBelow(f, p) <= m /\ m < SumBelow(f, p + 1))
               PROVE  FALSE
  OBVIOUS
<1> DEFINE T == {k \in 0 .. n : SumBelow(f, k) <= m}
<1>2. \A k \in 0 .. n : SumBelow(f, k) \in Nat
  BY BelowMono
<1>3. m \in Nat
  BY <1>2
<1>4. 0 \in T
  BY <1>3, BelowNone
<1>5. ASSUME NEW k \in 0 .. n - 1, k \in T PROVE k + 1 \in T
  <2>1. k + 1 \in 0 .. n
    OBVIOUS
  <2> QED
    BY <1>1, <1>2, <1>3, <1>5, <2>1
<1>6. n \in T
  <2> HIDE DEF T
  <2>1. 0 .. n \subseteq T
    BY <1>4, <1>5, Climb
  <2> QED
    BY <2>1
<1> QED
  BY <1>2, <1>3, <1>6

-----------------------------------------------------------------------------
(* Rings dealt out along the list *)

Nodes == [speed : Speeds, port : Port]

LEMMA DealtAll ==
    ASSUME nb_ports \in Nat, sort \in Seq(Nodes), sort # <<>>, NEW k \in Nat
    PROVE  /\ \A p : Dealt(k, p) \in 0 .. k
           /\ SumBelow([p \in Port |-> Dealt(k, p)], nb_ports) = k
<1> DEFINE Turn(i) == sort[(i % Len(sort)) + 1].port
           At(p) == {i \in 0 .. k - 1 : Turn(i) = p}
           Before(m) == {i \in 0 .. k - 1 : Turn(i) < m}
           f == [p \in Port |-> Dealt(k, p)]
<1>1. ASSUME NEW i \in 0 .. k - 1 PROVE Turn(i) \in Port
  <2>1. Len(sort) \in Nat \ {0} /\ \A j \in 1 .. Len(sort) : sort[j] \in Nodes
    BY LenProperties, ElementOfSeq, EmptySeq
  <2>2. i % Len(sort) \in 0 .. Len(sort) - 1
    BY <2>1, Division
  <2>3. (i % Len(sort)) + 1 \in 1 .. Len(sort)
    BY <2>1, <2>2
  <2> QED
    BY <2>1, <2>3 DEF Nodes
<1>2. \A p : Dealt(k, p) = Cardinality(At(p))
  BY DEF Dealt
<1> HIDE DEF Turn
<1>3. IsFiniteSet(0 .. k - 1) /\ Cardinality(0 .. k - 1) = k
  BY SizeIs
<1>4. \A p : Dealt(k, p) \in 0 .. k /\ IsFiniteSet(At(p))
  <2> TAKE p
  <2>1. At(p) \in SUBSET (0 .. k - 1)
    OBVIOUS
  <2> HIDE DEF At
  <2>2. IsFiniteSet(At(p)) /\ Cardinality(At(p)) <= k
    BY <1>3, <2>1, FS_Subset
  <2>3. Cardinality(At(p)) \in Nat
    BY <2>2, FS_CardinalityType
  <2> QED
    BY <1>2, <2>2, <2>3
<1>5. \A m : IsFiniteSet(Before(m)) /\ Cardinality(Before(m)) \in Nat
  <2> TAKE m
  <2>1. Before(m) \in SUBSET (0 .. k - 1)
    OBVIOUS
  <2> HIDE DEF Before
  <2> QED
    BY <1>3, <2>1, FS_Subset, FS_CardinalityType
<1>6. \A i \in 0 .. nb_ports - 1 : f[i] = Dealt(k, i) /\ f[i] \in Nat
  <2> TAKE i \in 0 .. nb_ports - 1
  <2>1. f[i] = Dealt(k, i)
    BY DEF Port
  <2> HIDE DEF f, At
  <2>2. Dealt(k, i) \in 0 .. k
    BY <1>4
  <2>3. \A j \in 0 .. k : j \in Nat
    OBVIOUS
  <2> QED
    BY <2>1, <2>2, <2>3
<1> DEFINE T == {m \in 0 .. nb_ports : SumBelow(f, m) = Cardinality(Before(m))}
<1>7. 0 \in T
  <2>1. Before(0) = {}
    BY <1>1 DEF Port
  <2> HIDE DEF Before, f
  <2>2. SumBelow(f, 0) = 0 /\ Cardinality(Before(0)) = 0
    BY <2>1, BelowNone, FS_EmptySet
  <2> QED
    BY <2>2
<1>8. ASSUME NEW m \in 0 .. nb_ports - 1, m \in T PROVE m + 1 \in T
  <2>1. Before(m + 1) = Before(m) \cup At(m) /\ Before(m) \cap At(m) = {}
    BY <1>1 DEF Port
  <2> HIDE DEF Before, At, f
  <2>2. Cardinality(Before(m + 1)) = Cardinality(Before(m)) + Cardinality(At(m)) - 0
    BY <1>4, <1>5, <2>1, FS_Union, FS_EmptySet
  <2>3. SumBelow(f, m + 1) = SumBelow(f, m) + f[m]
    BY <1>6, BelowMono
  <2>4. f[m] = Cardinality(At(m)) /\ f[m] \in Nat
    BY <1>2, <1>6
  <2>5. SumBelow(f, m + 1) = Cardinality(Before(m + 1))
    BY <1>5, <1>8, <2>2, <2>3, <2>4
  <2> QED
    BY <2>5
<1>9. nb_ports \in T
  <2> HIDE DEF T
  <2>1. 0 .. nb_ports \subseteq T
    BY <1>7, <1>8, Climb
  <2> QED
    BY <2>1
<1>10. Before(nb_ports) = 0 .. k - 1
  BY <1>1 DEF Port
<1> QED
  BY <1>3, <1>4, <1>9, <1>10

-----------------------------------------------------------------------------
(* Shares by weight *)

LEMMA QuotientLeast ==
    ASSUME NEW x \in Nat, NEW d \in Nat \ {0}, NEW y \in Nat, y * d <= x
    PROVE  y <= x \div d
<1> DEFINE q == x \div d
<1>1. q \in Nat /\ x % d \in 0 .. d - 1 /\ x = d * q + (x % d)
  BY Division
<1> HIDE DEF q
<1>2. SUFFICES ASSUME q < y PROVE FALSE
  BY <1>1 DEF q
<1>3. q * d + d <= y * d /\ y * d \in Nat /\ q * d \in Nat
  BY <1>1, <1>2, Products
<1>4. q * d = d * q
  BY <1>1, SMT
<1> DEFINE a == q * d
           b == y * d
           r == x % d
<1>5. a + d <= b /\ b <= x /\ x = a + r /\ r \in 0 .. d - 1 /\ a \in Nat /\ b \in Nat
  BY <1>1, <1>3, <1>4
<1> HIDE DEF a, b, r
<1> QED
  BY <1>5

LEMMA FloorSum ==
    ASSUME NEW n \in Nat, NEW w, \A p \in 0 .. n - 1 : w[p] \in Nat,
           NEW R \in Nat, NEW d \in Nat \ {0},
           NEW f, \A p \in 0 .. n - 1 : f[p] = (w[p] * R) \div d
    PROVE  /\ \A p \in 0 .. n - 1 : f[p] \in Nat
           /\ SumBelow(f, n) >= SumBelow(w, n) * (R \div d)
<1> DEFINE q == R \div d
           r == R % d
<1>1. q \in Nat /\ r \in 0 .. d - 1 /\ R = d * q + r
  BY Division
<1> HIDE DEF q, r
<1>2. ASSUME NEW p \in 0 .. n - 1 PROVE f[p] \in Nat /\ w[p] * q <= f[p] /\ w[p] * q \in Nat
  <2> DEFINE v == w[p]
  <2>1. v \in Nat /\ f[p] = (v * R) \div d
    OBVIOUS
  <2> HIDE DEF v
  <2>2. v * R \in Nat /\ v * q \in Nat
    BY <1>1, <2>1, Products
  <2>3. (v * q) * d <= v * R
    <3>1. v * R = (v * q) * d + v * r
      BY <1>1, <2>1, SMT
    <3>2. v * r \in Nat /\ (v * q) * d \in Nat
      BY <1>1, <2>1, <2>2, Products
    <3> DEFINE a == (v * q) * d
               b == v * r
    <3> HIDE DEF a, b
    <3>3. v * R = a + b /\ a \in Nat /\ b \in Nat
      BY <3>1, <3>2 DEF a, b
    <3>4. a <= v * R
      BY <3>3
    <3> QED
      BY <3>4 DEF a
  <2>4. v * q <= (v * R) \div d
    BY <2>2, <2>3, QuotientLeast
  <2>5. (v * R) \div d \in Nat
    BY <2>2, Division
  <2> QED
    BY <2>1, <2>2, <2>4, <2>5 DEF v
<1> DEFINE T == {k \in 0 .. n : SumBelow(w, k) * q <= SumBelow(f, k)}
<1>3. \A k \in 0 .. n : SumBelow(w, k) \in Nat /\ SumBelow(f, k) \in Nat
  BY <1>2, BelowMono
<1>4. 0 \in T
  <2>1. SumBelow(w, 0) = 0 /\ SumBelow(f, 0) = 0 /\ 0 * q = 0
    BY <1>1, BelowNone
  <2> QED
    BY <2>1
<1>5. ASSUME NEW k \in 0 .. n - 1, k \in T PROVE k + 1 \in T
  <2>1. SumBelow(w, k + 1) = SumBelow(w, k) + w[k] /\ SumBelow(f, k + 1) = SumBelow(f, k) + f[k]
    BY <1>2, BelowMono
  <2> DEFINE a == SumBelow(w, k)
             b == SumBelow(f, k)
             v == w[k]
  <2>2. a \in Nat /\ b \in Nat /\ v \in Nat /\ a * q <= b
    BY <1>3, <1>5
  <2>3. v * q <= f[k] /\ f[k] \in Nat /\ v * q \in Nat
    BY <1>2
  <2>4. (a + v) * q = a * q + v * q /\ a * q \in Nat
    BY <1>1, <2>2, Products
  <2> HIDE DEF a, b, v
  <2>5. (a + v) * q <= b + f[k]
    BY <2>2, <2>3, <2>4
  <2>6. SumBelow(w, k + 1) * q <= SumBelow(f, k + 1)
    BY <2>1, <2>5 DEF a, b, v
  <2> QED
    BY <2>6
<1>6. n \in T
  <2> HIDE DEF T
  <2>1. 0 .. n \subseteq T
    BY <1>4, <1>5, Climb
  <2> QED
    BY <2>1
<1>7. SumBelow(w, n) * q <= SumBelow(f, n) /\ SumBelow(w, n) * q \in Nat
  BY <1>1, <1>3, <1>6, Products
<1> QED
  BY <1>2, <1>3, <1>7 DEF q

(* The constants, as the proofs use them. *)
LEMMA Confs ==
    /\ NbPorts \subseteq Nat /\ RingNums \subseteq Nat \ {0}
    /\ \A s \in DOMAIN Weight : Weight[s] \in Nat \ {0}
    /\ \A s \in DOMAIN QueueNum : QueueNum[s] \in Nat
    /\ {MAX_CORE_SIZE, CORE_SIZE, HalfWord, MaxQueues} \subseteq Nat
    /\ MAX_CORE_SIZE > 0 /\ 2 * MAX_CORE_SIZE < HalfWord
    /\ \A s \in DOMAIN Weight, n \in RingNums : (Weight[s] + 1) * n < HalfWord
BY ConfAssumption

(* What get_port_ringnum works on *)
Shareable ==
    /\ nb_ports \in Nat \ {0} /\ ring_num \in RingNums
    /\ DOMAIN Weight # {}
    /\ sort \in Seq(Nodes) /\ sort # <<>>
    /\ weight \in Nat /\ weight_sum \in Nat \ {0}

(* A share fits the 16 bits it is kept in, *)
LEMMA ShareType ==
    ASSUME Shareable, NEW p \in Port
    PROVE  Share(p) \in Short
<1>1. /\ HalfWord \in Nat \ {0} /\ weight_sum \in Nat \ {0} /\ nb_ports \in Nat
      /\ ring_num \in Nat \ {0}
      /\ \A s \in DOMAIN Weight : Weight[s] \in Nat /\ (Weight[s] + 1) * ring_num < HalfWord
  BY Confs DEF Shareable
<1>2. ring_num < HalfWord
  <2>1. PICK s \in DOMAIN Weight : Weight[s] \in Nat /\ (Weight[s] + 1) * ring_num < HalfWord
    BY <1>1 DEF Shareable
  <2>2. (Weight[s] + 1) * ring_num = Weight[s] * ring_num + 1 * ring_num
        /\ 1 * ring_num = ring_num /\ Weight[s] * ring_num \in Nat
    BY <1>1, <2>1, Products
  <2> DEFINE x == Weight[s] * ring_num
  <2> HIDE DEF x
  <2>3. x \in Nat /\ (Weight[s] + 1) * ring_num = x + ring_num
    BY <2>2 DEF x
  <2> QED
    BY <1>1, <2>1, <2>3
<1>3. Dealt(ring_num, p) \in 0 .. ring_num
  BY <1>1, DealtAll DEF Shareable
<1>4. Dealt(ring_num % weight_sum, p) \in Nat
  <2> DEFINE k == ring_num % weight_sum
  <2>1. k \in 0 .. weight_sum - 1
    BY <1>1, Division
  <2> HIDE DEF k
  <2>2. k \in Nat
    BY <1>1, <2>1
  <2>3. Dealt(k, p) \in 0 .. k
    BY <1>1, <2>2, DealtAll DEF Shareable
  <2> QED
    BY <2>2, <2>3 DEF k
<1>5. Weighed(p) \in Int
  <2>1. ASSUME Known(link[p]) PROVE (Weight[link[p]] * ring_num) \div weight_sum \in Nat
    <3>1. Weight[link[p]] * ring_num \in Nat
      BY <1>1, <2>1, Products DEF Known
    <3> QED
      BY <1>1, <3>1, Division
  <2>2. ring_num \div weight_sum \in Nat
    BY <1>1, Division
  <2> DEFINE a == (Weight[link[p]] * ring_num) \div weight_sum
             b == ring_num \div weight_sum
  <2>3. Weighed(p) = IF Known(link[p]) THEN a ELSE HalfWord - b
    BY DEF Weighed
  <2> HIDE DEF a, b
  <2>4. (Known(link[p]) => a \in Nat) /\ b \in Nat
    BY <2>1, <2>2 DEF a, b
  <2> QED
    BY <1>1, <2>3, <2>4
<1> DEFINE y == Weighed(p) + (IF nb_ports = 1 THEN 0 ELSE Dealt(ring_num % weight_sum, p))
<1>6. y \in Int
  BY <1>4, <1>5
<1>7. Share(p) = IF weight > ring_num THEN Dealt(ring_num, p) ELSE y % HalfWord
  BY DEF Share
<1> HIDE DEF y
<1>8. y % HalfWord \in 0 .. HalfWord - 1
  BY <1>1, <1>6
<1> QED
  BY <1>1, <1>2, <1>3, <1>7, <1>8 DEF Short

(* and is what the weight of a known speed makes it. *)
LEMMA ShareKnown ==
    ASSUME Shareable, NEW p \in Port, Known(link[p])
    PROVE  Share(p) = IF weight > ring_num THEN Dealt(ring_num, p)
                      ELSE (Weight[link[p]] * ring_num) \div weight_sum
                             + (IF nb_ports = 1 THEN 0 ELSE Dealt(ring_num % weight_sum, p))
<1> DEFINE w == Weight[link[p]]
           k == ring_num % weight_sum
           q == (w * ring_num) \div weight_sum
<1>1. ring_num \in Nat \ {0} /\ w \in Nat \ {0} /\ (w + 1) * ring_num < HalfWord
      /\ weight_sum \in Nat \ {0} /\ nb_ports \in Nat /\ HalfWord \in Nat
  BY Confs DEF Shareable, Known
<1>2. k \in Nat /\ k <= ring_num
  <2>1. ring_num \div weight_sum \in Nat /\ k \in 0 .. weight_sum - 1
        /\ ring_num = weight_sum * (ring_num \div weight_sum) + k
    BY <1>1, Division
  <2>2. weight_sum * (ring_num \div weight_sum) \in Nat
    BY <1>1, <2>1, Products
  <2> DEFINE a == weight_sum * (ring_num \div weight_sum)
  <2> HIDE DEF a, k
  <2>3. a \in Nat /\ k \in Nat /\ ring_num = a + k
    BY <1>1, <2>1, <2>2 DEF a
  <2> QED
    BY <1>1, <2>3
<1> HIDE DEF k
<1>3. Dealt(ring_num, p) \in 0 .. ring_num /\ Dealt(k, p) \in 0 .. k
  BY <1>1, <1>2, DealtAll DEF Shareable
<1>4. w * ring_num \in Nat /\ (w + 1) * ring_num = w * ring_num + ring_num
      /\ q \in Nat /\ q <= w * ring_num
  <2> DEFINE x == w * ring_num
  <2>1. x \in Nat /\ (w + 1) * ring_num = x + 1 * ring_num /\ 1 * ring_num = ring_num
    BY <1>1, Products
  <2> HIDE DEF x
  <2>2. q = x \div weight_sum
    BY DEF x
  <2>3. x \div weight_sum \in Nat /\ x \div weight_sum <= x
    <3>1. x \div weight_sum \in Nat /\ x % weight_sum \in 0 .. weight_sum - 1
          /\ x = weight_sum * (x \div weight_sum) + (x % weight_sum)
      BY <1>1, <2>1, Division
    <3> DEFINE y == x \div weight_sum
    <3>2. y <= weight_sum * y
      <4>1. weight_sum - 1 \in Nat /\ y \in Nat /\ (weight_sum - 1) + 1 = weight_sum
        BY <1>1, <3>1
      <4> HIDE DEF y
      <4>2. (weight_sum - 1) * y \in Nat
            /\ ((weight_sum - 1) + 1) * y = (weight_sum - 1) * y + 1 * y
        BY <4>1, Products
      <4>3. weight_sum * y = (weight_sum - 1) * y + y
        BY <4>1, <4>2
      <4> DEFINE b == (weight_sum - 1) * y
      <4> HIDE DEF b
      <4>4. b \in Nat /\ weight_sum * y = b + y
        BY <4>2, <4>3 DEF b
      <4> QED
        BY <4>1, <4>4
    <3>3. weight_sum * y \in Nat
      BY <1>1, <3>1, Products
    <3> DEFINE b == weight_sum * y
               r == x % weight_sum
    <3> HIDE DEF b, r
    <3>4. b \in Nat /\ r \in Nat /\ x = b + r
      BY <1>1, <3>1, <3>3 DEF b, r
    <3>5. y <= b
      BY <3>2 DEF b
    <3> HIDE DEF y
    <3>6. y <= x
      BY <3>1, <3>4, <3>5 DEF y
    <3> QED
      BY <3>1, <3>6 DEF y
  <2> QED
    BY <2>1, <2>2, <2>3 DEF x
<1>5. Share(p) = IF weight > ring_num THEN Dealt(ring_num, p)
                 ELSE (q + (IF nb_ports = 1 THEN 0 ELSE Dealt(k, p))) % HalfWord
  BY DEF Share, Weighed, k
<1> DEFINE x == w * ring_num
           d == Dealt(k, p)
           e == Dealt(ring_num, p)
<1>6. /\ x \in Nat /\ q \in Nat /\ q <= x /\ x + ring_num < HalfWord
      /\ d \in 0 .. ring_num /\ e \in 0 .. ring_num
  <2>1. d \in 0 .. ring_num
    <3>1. d \in 0 .. k
      BY <1>3
    <3> HIDE DEF d
    <3> QED
      BY <1>1, <1>2, <3>1
  <2> HIDE DEF d
  <2> QED
    BY <1>1, <1>3, <1>4, <2>1
<1> DEFINE y == q + (IF nb_ports = 1 THEN 0 ELSE d)
<1>7. Share(p) = IF weight > ring_num THEN e ELSE y % HalfWord
  BY <1>5
<1>8. y \in Nat /\ y < HalfWord
  <2> HIDE DEF x, d, e, q
  <2> QED
    BY <1>1, <1>6
<1>9. y % HalfWord = y
  <2> HIDE DEF y
  <2> QED
    BY <1>1, <1>8
<1>10. Share(p) = IF weight > ring_num THEN e ELSE y
  BY <1>7, <1>9
<1> QED
  BY <1>10 DEF k

(* While the speeds are those that were added up, no ring is left over.    *)
LEMMA SharesCover ==
    ASSUME Shareable, \A p \in Port : Known(link[p]),
           weight_sum = SumBelow([p \in Port |-> Weight[link[p]]], nb_ports)
    PROVE  /\ SumBelow([p \in Port |-> Share(p)], nb_ports) >= ring_num
           /\ nb_ports = 1 => SumBelow([p \in Port |-> Share(p)], nb_ports) = ring_num
<1> DEFINE w == [p \in Port |-> Weight[link[p]]]
           R == ring_num
           d == weight_sum
           h == [p \in Port |-> Share(p)]
           k == R % d
<1>1. R \in Nat \ {0} /\ d \in Nat \ {0} /\ nb_ports \in Nat \ {0} /\ HalfWord \in Nat
      /\ \A p \in Port : w[p] \in Nat
  BY Confs DEF Shareable, Known
<1>2. \A p \in Port : h[p] \in Nat /\ h[p] = Share(p)
  <2> TAKE p \in Port
  <2>1. Share(p) \in Short
    BY ShareType
  <2> QED
    BY <1>1, <2>1 DEF Short
<1>3. CASE weight > R
  <2> DEFINE g == [p \in Port |-> Dealt(R, p)]
  <2>1. h = g
    BY <1>3, ShareKnown
  <2>2. SumBelow(g, nb_ports) = R
    BY <1>1, DealtAll DEF Shareable
  <2> HIDE DEF h, g
  <2> QED
    BY <1>1, <2>1, <2>2 DEF h
<1>4. CASE ~ (weight > R) /\ nb_ports = 1
  <2>1. 0 \in Port /\ 0 .. nb_ports - 1 = {0} /\ 0 .. 1 - 1 = {0}
    BY <1>4 DEF Port
  <2>2. SumBelow(w, 1) = w[0]
    <3>1. SumBelow(w, 0 + 1) = SumBelow(w, 0) + w[0] /\ w[0] \in Nat
      <4>1. \A i \in 0 .. 1 - 1 : w[i] \in Nat
        BY <1>1, <2>1
      <4> HIDE DEF w
      <4> QED
        BY <2>1, <4>1, BelowMono
    <3> HIDE DEF w
    <3> QED
      BY <3>1, BelowNone
  <2>3. SumBelow(h, 1) = h[0]
    <3>1. SumBelow(h, 0 + 1) = SumBelow(h, 0) + h[0] /\ h[0] \in Nat
      <4>1. \A i \in 0 .. 1 - 1 : h[i] \in Nat
        BY <1>2, <2>1
      <4> HIDE DEF h
      <4> QED
        BY <2>1, <4>1, BelowMono
    <3> HIDE DEF h
    <3> QED
      BY <3>1, BelowNone
  <2>4. d = Weight[link[0]]
    BY <1>4, <2>1, <2>2
  <2>5. h[0] = (d * R) \div d
    <3>1. h[0] = (Weight[link[0]] * R) \div d + 0
      BY <1>2, <1>4, <2>1, ShareKnown
    <3>2. d * R \in Nat
      BY <1>1, Products
    <3>3. (d * R) \div d \in Nat
      BY <1>1, <3>2, Division
    <3> QED
      BY <2>4, <3>1, <3>3
  <2>6. (d * R) \div d = R
    BY <1>1, SMT
  <2> HIDE DEF h
  <2> QED
    BY <1>1, <1>4, <2>3, <2>5, <2>6 DEF h
<1>5. CASE ~ (weight > R) /\ nb_ports # 1
  <2> DEFINE f == [p \in Port |-> (w[p] * R) \div d]
             g == [p \in Port |-> Dealt(k, p)]
  <2>1. k \in Nat /\ R \div d \in Nat /\ R = d * (R \div d) + k
    <3>1. k \in 0 .. d - 1 /\ R \div d \in Nat /\ R = d * (R \div d) + k
      BY <1>1, Division
    <3>2. \A j \in 0 .. d - 1 : j \in Nat
      BY <1>1
    <3> HIDE DEF k, d
    <3> QED
      BY <3>1, <3>2
  <2>2. SumBelow(g, nb_ports) = k /\ \A p \in Port : g[p] \in Nat
    <3> HIDE DEF k
    <3>1. SumBelow(g, nb_ports) = k /\ \A p : Dealt(k, p) \in 0 .. k
      BY <1>1, <2>1, DealtAll DEF Shareable
    <3> QED
      BY <2>1, <3>1
  <2>3. Port = 0 .. nb_ports - 1
    BY DEF Port
  <2>4. /\ \A p \in Port : f[p] \in Nat
        /\ SumBelow(f, nb_ports) >= SumBelow(w, nb_ports) * (R \div d)
    <3>1. \A p \in 0 .. nb_ports - 1 : w[p] \in Nat /\ f[p] = (w[p] * R) \div d
      BY <1>1, <2>3
    <3> HIDE DEF w, f, R, d
    <3> QED
      BY <1>1, <2>3, <3>1, FloorSum
  <2>5. \A p \in Port : h[p] = f[p] + g[p]
    BY <1>2, <1>5, ShareKnown
  <2> HIDE DEF f, g, h
  <2>6. SumBelow(h, nb_ports) = SumBelow(f, nb_ports) + SumBelow(g, nb_ports)
    <3> DEFINE P == 0 .. nb_ports - 1
    <3>1. IsFiniteSet(P)
      BY <1>1, SizeIs
    <3>2. \A p \in P : f[p] \in Nat /\ g[p] \in Nat /\ h[p] = f[p] + g[p]
      BY <2>2, <2>3, <2>4, <2>5
    <3> HIDE DEF P
    <3>3. Sum(h, P) = Sum(f, P) + Sum(g, P)
      BY <3>1, <3>2, SumPlus
    <3> QED
      BY <3>3, BelowIs DEF P
  <2>7. SumBelow(f, nb_ports) \in Nat
    <3>1. \A p \in 0 .. nb_ports - 1 : f[p] \in Nat
      BY <2>3, <2>4
    <3>2. nb_ports \in Nat /\ nb_ports \in 0 .. nb_ports
      BY <1>1
    <3> QED
      BY <3>1, <3>2, BelowMono
  <2>8. SumBelow(f, nb_ports) >= d * (R \div d) /\ d * (R \div d) \in Nat
    BY <1>1, <2>1, <2>4, Products
  <2> DEFINE a == d * (R \div d)
             b == SumBelow(f, nb_ports)
  <2> HIDE DEF a, b, k
  <2>9. SumBelow(h, nb_ports) = b + k /\ R = a + k /\ b >= a /\ a \in Nat /\ b \in Nat /\ k \in Nat
    BY <2>1, <2>2, <2>6, <2>7, <2>8 DEF a, b
  <2>10. SumBelow(h, nb_ports) >= R
    BY <2>9
  <2> QED
    BY <1>5, <2>10 DEF h
<1> QED
  BY <1>3, <1>4, <1>5

-----------------------------------------------------------------------------
(* The pairs of ports and indices, in turn *)

LEMMA NthIs ==
    ASSUME nb_ports \in Nat \ {0}, NEW f, \A p \in Port : f[p] \in Nat, NEW k \in Nat
    PROVE  /\ Nth(f, k) \in Port \X Nat
           /\ Nth(f, k)[2] = 0 \/ Nth(f, k)[2] < f[Nth(f, k)[1]]
           /\ k < SumBelow(f, nb_ports) =>
                 /\ Nth(f, k)[2] < f[Nth(f, k)[1]]
                 /\ k = SumBelow(f, Nth(f, k)[1]) + Nth(f, k)[2]
           /\ ~ (k < SumBelow(f, nb_ports)) => Nth(f, k) = <<0, 0>>
<1> DEFINE Has(p) == SumBelow(f, p) <= k /\ k < SumBelow(f, p + 1)
<1>1. /\ Port = 0 .. nb_ports - 1 /\ 0 \in Port /\ \A p \in Port : p \in Nat
      /\ \A p \in 0 .. nb_ports - 1 : p + 1 \in 0 .. nb_ports /\ p \in 0 .. nb_ports
  BY DEF Port
<1>2. /\ \A p \in 0 .. nb_ports : SumBelow(f, p) \in Nat
      /\ \A p \in 0 .. nb_ports - 1 : SumBelow(f, p + 1) = SumBelow(f, p) + f[p]
      /\ \A i, j \in 0 .. nb_ports : i <= j => SumBelow(f, i) <= SumBelow(f, j)
  BY <1>1, BelowMono
<1>3. CASE \E p \in Port : Has(p)
  <2> DEFINE p == CHOOSE p \in Port : Has(p)
             i == k - SumBelow(f, p)
  <2>1. p \in Port /\ Has(p)
    BY <1>3
  <2>2. Nth(f, k) = <<p, i>>
    BY <1>3 DEF Nth
  <2> HIDE DEF p
  <2>3. SumBelow(f, p) \in Nat /\ SumBelow(f, p + 1) = SumBelow(f, p) + f[p] /\ f[p] \in Nat
        /\ SumBelow(f, p + 1) \in Nat /\ SumBelow(f, p + 1) <= SumBelow(f, nb_ports)
        /\ SumBelow(f, nb_ports) \in Nat
    <3>1. p + 1 \in 0 .. nb_ports /\ nb_ports \in 0 .. nb_ports /\ p + 1 <= nb_ports
          /\ p \in 0 .. nb_ports /\ p \in 0 .. nb_ports - 1
      BY <1>1, <2>1
    <3> QED
      BY <1>2, <2>1, <3>1
  <2>4. i \in Nat /\ i < f[p] /\ k = SumBelow(f, p) + i /\ k < SumBelow(f, nb_ports)
    BY <2>1, <2>3
  <2> HIDE DEF i
  <2>5. Nth(f, k)[1] = p /\ Nth(f, k)[2] = i
    BY <2>2
  <2> QED
    BY <2>1, <2>2, <2>4, <2>5
<1>4. CASE ~ \E p \in Port : Has(p)
  <2>1. Nth(f, k) = <<0, 0>>
    BY <1>4 DEF Nth
  <2>2. ~ (k < SumBelow(f, nb_ports))
    <3>1. SUFFICES ASSUME k < SumBelow(f, nb_ports) PROVE FALSE
      OBVIOUS
    <3>2. nb_ports \in 0 .. nb_ports
      BY <1>1
    <3>3. k \in 0 .. SumBelow(f, nb_ports) - 1
      BY <1>2, <3>1, <3>2
    <3>4. \E p \in 0 .. nb_ports - 1 : Has(p)
      BY <1>1, <3>3, BelowFinds
    <3> QED
      BY <1>1, <1>4, <3>4
  <2> QED
    BY <1>1, <2>1, <2>2
<1> QED
  BY <1>3, <1>4

(* No pair comes twice. *)
LEMMA NthOnce ==
    ASSUME nb_ports \in Nat \ {0}, NEW f, \A p \in Port : f[p] \in Nat,
           NEW j \in Nat, NEW k \in Nat,
           j < SumBelow(f, nb_ports), k < SumBelow(f, nb_ports), Nth(f, j) = Nth(f, k)
    PROVE  j = k
<1>1. /\ j = SumBelow(f, Nth(f, j)[1]) + Nth(f, j)[2]
      /\ k = SumBelow(f, Nth(f, k)[1]) + Nth(f, k)[2]
  BY NthIs
<1> QED
  BY <1>1

-----------------------------------------------------------------------------
(* The list of ports by speed *)

LEMMA AddNodeType ==
    ASSUME NEW list \in Seq(Nodes), list # <<>>, NEW node \in Nodes
    PROVE  AddNode(list, node) \in Seq(Nodes) /\ AddNode(list, node) # <<>>
<1> DEFINE I == {j \in 1 .. Len(list) : list[j].speed <= node.speed}
           i == SelectInSeq(list, LAMBDA n : n.speed <= node.speed)
<1>1. Len(list) \in Nat \ {0} /\ \A j \in 1 .. Len(list) : list[j] \in Nodes
  BY LenProperties, ElementOfSeq, EmptySeq
<1>2. i = IF I # {} THEN Min(I) ELSE 0
  BY DEF SelectInSeq
<1>3. i \in 0 .. Len(list)
  <2>1. CASE I # {}
    <3>1. I \in SUBSET (1 .. Len(list)) /\ IsFiniteSet(1 .. Len(list))
      BY <1>1, FS_Interval
    <3>2. IsFiniteSet(I) /\ \A x \in I : x \in Int
      BY <3>1, FS_Subset
    <3> HIDE DEF I
    <3>3. \E q \in I : \A r \in I : q <= r
      BY <2>1, <3>2, FiniteHasLeast
    <3>4. Min(I) \in I
      BY <3>3 DEF Min
    <3> QED
      BY <1>1, <1>2, <2>1, <3>1, <3>4
  <2>2. CASE I = {}
    BY <1>1, <1>2, <2>2
  <2> QED
    BY <2>1, <2>2
<1>4. AddNode(list, node) = CASE i = 0 -> Append(list, node)
                              [] i = 1 -> list
                              [] OTHER -> InsertAt(list, i, node)
  BY DEF AddNode
<1> HIDE DEF i
<1>5. CASE i = 0
  BY <1>4, <1>5, AppendProperties
<1>6. CASE i = 1
  BY <1>4, <1>6
<1>7. CASE i \notin {0, 1}
  <2> DEFINE a == SubSeq(list, 1, i - 1)
             b == SubSeq(list, i, Len(list))
  <2>1. i \in Int /\ i - 1 \in Int /\ Len(list) \in Int /\ i \in 1 .. Len(list)
    BY <1>1, <1>3, <1>7
  <2>2. a \in Seq(Nodes)
    <3>1. \A j \in 1 .. i - 1 : list[j] \in Nodes
      BY <1>1, <1>3
    <3> QED
      BY <2>1, <3>1, SubSeqProperties
  <2>3. b \in Seq(Nodes)
    <3>1. \A j \in i .. Len(list) : list[j] \in Nodes
      BY <1>1, <2>1
    <3> QED
      BY <2>1, <3>1, SubSeqProperties
  <2>4. AddNode(list, node) = a \o <<node>> \o b
    BY <1>4, <1>7 DEF InsertAt
  <2> HIDE DEF a, b
  <2> DEFINE c == a \o <<node>>
  <2>5. <<node>> \in Seq(Nodes) /\ Len(<<node>>) = 1
    OBVIOUS
  <2>6. c \in Seq(Nodes) /\ Len(c) = Len(a) + 1
    BY <2>2, <2>5, JoinIs
  <2> HIDE DEF c
  <2>7. c \o b \in Seq(Nodes) /\ Len(c \o b) = Len(c) + Len(b)
    BY <2>3, <2>6, JoinIs
  <2>8. Len(a) \in Nat /\ Len(b) \in Nat
    BY <2>2, <2>3, LenProperties
  <2>9. Len(c \o b) # 0
    BY <2>6, <2>7, <2>8
  <2> QED
    BY <2>4, <2>7, <2>9, EmptySeq DEF c
<1> QED
  BY <1>5, <1>6, <1>7

FirstUpTo(g, k) ==
    g = [n \in 0 .. k |-> IF n = 0 THEN <<Node(0)>> ELSE AddNode(g[n - 1], Node(n))]

LEMMA FirstExists ==
    ASSUME NEW n \in Nat
    PROVE  \E g : FirstUpTo(g, n)
<1> DEFINE T == {k \in 0 .. n : \E g : FirstUpTo(g, k)}
<1>1. 0 \in T
  <2>1. FirstUpTo([j \in 0 .. 0 |-> <<Node(0)>>], 0)
    BY DEF FirstUpTo
  <2> QED
    BY <2>1
<1>2. ASSUME NEW k \in 0 .. n - 1, k \in T PROVE k + 1 \in T
  <2>1. PICK f : FirstUpTo(f, k)
    BY <1>2
  <2> DEFINE g == [j \in 0 .. k + 1 |-> IF j = k + 1 THEN AddNode(f[k], Node(k + 1)) ELSE f[j]]
  <2>2. \A j \in 0 .. k : f[j] = IF j = 0 THEN <<Node(0)>> ELSE AddNode(f[j - 1], Node(j))
    BY <2>1 DEF FirstUpTo
  <2>3. \A j \in 0 .. k + 1 : g[j] = IF j = 0 THEN <<Node(0)>> ELSE AddNode(g[j - 1], Node(j))
    <3> TAKE j \in 0 .. k + 1
    <3>1. CASE j = k + 1
      <4>1. j - 1 = k /\ k \in 0 .. k + 1 /\ k # k + 1 /\ j # 0
        BY <3>1
      <4> QED
        BY <3>1, <4>1
    <3>2. CASE j # k + 1
      <4>1. j \in 0 .. k /\ (j # 0 => j - 1 \in 0 .. k + 1 /\ j - 1 # k + 1)
        BY <3>2
      <4> QED
        BY <2>2, <3>2, <4>1
    <3> QED
      BY <3>1, <3>2
  <2>4. g = [j \in 0 .. k + 1 |-> g[j]]
    OBVIOUS
  <2> HIDE DEF g
  <2>5. FirstUpTo(g, k + 1)
    BY <2>3, <2>4 DEF FirstUpTo
  <2> QED
    BY <2>5
<1>3. n \in T
  <2> HIDE DEF T
  <2>1. 0 .. n \subseteq T
    BY <1>1, <1>2, Climb
  <2> QED
    BY <2>1
<1> QED
  BY <1>3

LEMMA SortedType ==
    ASSUME nb_ports \in Nat \ {0}, link \in [Port -> Speeds]
    PROVE  Sorted \in Seq(Nodes) /\ Sorted # <<>>
<1> DEFINE n == nb_ports - 1
           g == CHOOSE g : FirstUpTo(g, n)
<1>1. n \in Nat /\ n = nb_ports - 1 /\ Port = 0 .. n
  BY DEF Port
<1>2. Sorted = g[n]
  BY DEF Sorted, FirstUpTo
<1>3. FirstUpTo(g, n)
  <2>1. \E f : FirstUpTo(f, n)
    BY <1>1, FirstExists
  <2> QED
    BY <2>1
<1> HIDE DEF g, n
<1>4. \A j \in 0 .. n : g[j] = IF j = 0 THEN <<Node(0)>> ELSE AddNode(g[j - 1], Node(j))
  BY <1>3 DEF FirstUpTo
<1>5. \A j \in 0 .. n : Node(j) \in Nodes
  BY <1>1 DEF Node, Nodes
<1> DEFINE T == {k \in 0 .. n : g[k] \in Seq(Nodes) /\ g[k] # <<>>}
<1>6. 0 \in T
  <2>1. g[0] = <<Node(0)>> /\ Node(0) \in Nodes
    BY <1>1, <1>4, <1>5
  <2>2. \A x \in Nodes : <<x>> \in Seq(Nodes) /\ <<x>> # <<>>
    OBVIOUS
  <2>3. g[0] \in Seq(Nodes) /\ g[0] # <<>>
    BY <2>1, <2>2
  <2> QED
    BY <1>1, <2>3
<1>7. ASSUME NEW k \in 0 .. n - 1, k \in T PROVE k + 1 \in T
  <2>1. k + 1 \in 0 .. n /\ (k + 1) - 1 = k /\ k + 1 # 0
    BY <1>1
  <2>2. g[k + 1] = AddNode(g[k], Node(k + 1)) /\ Node(k + 1) \in Nodes
    BY <1>4, <1>5, <2>1
  <2>3. g[k + 1] \in Seq(Nodes) /\ g[k + 1] # <<>>
    BY <1>7, <2>2, AddNodeType
  <2> QED
    BY <2>1, <2>3
<1>8. n \in T
  <2> HIDE DEF T
  <2>1. 0 .. n \subseteq T
    BY <1>1, <1>6, <1>7, Climb
  <2> QED
    BY <1>1, <2>1
<1> QED
  BY <1>2, <1>8

-----------------------------------------------------------------------------
(***************************************************************************)
(* The invariant: what each step of dpdk_init has found out. Weights are   *)
(* added up for links that are known; while these keep their speeds there  *)
(* are rings for all threads; the numbers of queues are as the mode says;  *)
(* the assignments are those of the loops over all ports.                  *)
(***************************************************************************)
Shared   == {"queues", "threads", "cores", "ports", "rings", "launched"}
Counted  == {"threads", "cores", "ports", "rings", "launched"}
Threaded == {"cores", "ports", "rings", "launched"}
Bound    == {"ports", "rings", "launched"}

Weights == [p \in Port |-> Weight[link[p]]]
Threads == [k \in 0 .. ring_num - 1 |-> <<Entry(k), Entry(MAX_CORE_SIZE + k)>>]
Ports   == [c \in start .. end |-> CorePort(c, end)]
Queues  == [c \in start .. end |-> CoreQueue(c)]
NoQueues == [p \in Port |-> 0]

SumsRight ==
    stage = "share" \/ stage \in Shared =>
        /\ nb_ports <= ring_num
        /\ steady => \A p \in Port : Known(link[p])
        /\ nb_ports > 0 => /\ weight_sum > 0 /\ sort # <<>> /\ DOMAIN Weight # {}
                           /\ steady => weight_sum = SumBelow(Weights, nb_ports)
SharesRight ==
    stage \in Shared =>
        /\ nb_ports > 0
        /\ steady => RingTotal >= ring_num /\ (nb_ports = 1 => RingTotal = ring_num)
QueuesRight ==
    /\ stage \notin Counted \/ queue_mode = 0 => port_queuenum = NoQueues
    /\ stage \in Counted /\ queue_mode = 2 => port_queuenum = port_ringnum
ThreadsRight == stage \in Threaded => thread_info = Threads
CoresRight ==
    stage \in Bound =>
        /\ thread_mode # 0 /\ end = start + Length - 1
        /\ core_portnum = Ports /\ core_queuenum = Queues

IInv ==
    /\ TypeOK /\ start < MAX_CORE_SIZE
    /\ SumsRight /\ SharesRight /\ QueuesRight /\ ThreadsRight /\ CoresRight

(* What depends on nothing but the shares *)
LEMMA SameShares ==
    ASSUME nb_ports' = nb_ports, ring_num' = ring_num
    PROVE  /\ Port' = Port /\ NoQueues' = NoQueues
           /\ link' = link => Weights' = Weights
           /\ port_ringnum' = port_ringnum => RingTotal' = RingTotal /\ Threads' = Threads
<1>1. Port' = Port
  BY DEF Port
<1>2. NoQueues' = NoQueues
  BY <1>1 DEF NoQueues
<1>3. link' = link => Weights' = Weights
  BY <1>1 DEF Weights
<1>4. ASSUME port_ringnum' = port_ringnum PROVE RingTotal' = RingTotal /\ Threads' = Threads
  <2>1. RingTotal' = RingTotal
    BY <1>4 DEF RingTotal, SumBelow, FoldFunctionOnSet, MapThenFoldSet
  <2>2. Threads' = Threads
    BY <1>1, <1>4, <2>1 DEF Threads, Entry, Nth, SumBelow, FoldFunctionOnSet, MapThenFoldSet
  <2> QED
    BY <2>1, <2>2
<1> QED
  BY <1>1, <1>2, <1>3, <1>4

LEMMA SameCores ==
    ASSUME nb_ports' = nb_ports, ring_num' = ring_num, port_ringnum' = port_ringnum,
           port_queuenum' = port_queuenum, start' = start, end' = end,
           thread_mode' = thread_mode
    PROVE  Length' = Length /\ Ports' = Ports /\ Queues' = Queues
<1>1. Port' = Port
  BY DEF Port
<1>2. Length' = Length
  BY DEF Length
<1>3. Ports' = Ports
  BY <1>1 DEF Ports, CorePort, Nth, SumBelow, FoldFunctionOnSet, MapThenFoldSet
<1>4. Queues' = Queues
  BY <1>1 DEF Queues, CoreQueue, Nth, SumBelow, FoldFunctionOnSet, MapThenFoldSet
<1> QED
  BY <1>2, <1>3, <1>4

LEMMA InitInv == Init => IInv
<1> SUFFICES ASSUME Init PROVE IInv
  OBVIOUS
<1>1. nb_ports \in Nat /\ ring_num \in Nat \ {0} /\ 0 \in Short /\ HalfWord \in Nat
      /\ nb_ports \in NbPorts /\ ring_num \in RingNums
  BY Confs DEF Init, Short
<1>2. <<>> \in Seq([speed : Speeds, port : Port])
  OBVIOUS
<1>3. TypeOK
  BY <1>1, <1>2 DEF Init, TypeOK
<1>4. start < MAX_CORE_SIZE
  BY Confs DEF Init
<1>5. SumsRight /\ SharesRight /\ QueuesRight /\ ThreadsRight /\ CoresRight
  BY DEF Init, SumsRight, SharesRight, QueuesRight, ThreadsRight, CoresRight, Shared, Counted,
         Threaded, Bound, NoQueues
<1> QED
  BY <1>3, <1>4, <1>5 DEF IInv

-----------------------------------------------------------------------------
(* Each step keeps the invariant *)

(* The process ends, or goes on for ever. *)
LEMMA KeptAtEnd ==
    ASSUME IInv, process' \in {process, "exited", "crashed", "overrun"}, stage' = stage,
           UNCHANGED <<linkVars, envVars, argVars, sumVars, portVars, mapVars, runVars>>
    PROVE  IInv'
<1>1. /\ stage' = stage /\ link' = link /\ steady' = steady /\ args' = args
      /\ nb_ports' = nb_ports /\ ring_num' = ring_num /\ enabled' = enabled
      /\ thread_mode' = thread_mode /\ queue_mode' = queue_mode /\ start' = start
      /\ weight' = weight /\ weight_sum' = weight_sum /\ sort' = sort
      /\ port_ringnum' = port_ringnum /\ port_queuenum' = port_queuenum
      /\ end' = end /\ thread_info' = thread_info /\ core_portnum' = core_portnum
      /\ core_queuenum' = core_queuenum /\ started' = started /\ created' = created
  BY DEF linkVars, envVars, argVars, sumVars, portVars, mapVars, runVars
<1>2. /\ Port' = Port /\ NoQueues' = NoQueues /\ Weights' = Weights
      /\ RingTotal' = RingTotal /\ Threads' = Threads
      /\ Length' = Length /\ Ports' = Ports /\ Queues' = Queues
  BY <1>1, SameShares, SameCores
<1>3. TypeOK'
  BY <1>1, <1>2 DEF IInv, TypeOK, Short
<1>4. SumsRight' /\ SharesRight' /\ QueuesRight' /\ ThreadsRight' /\ CoresRight'
  <2>1. Weights' = Weights /\ SumBelow(Weights, nb_ports)' = SumBelow(Weights, nb_ports)
    BY <1>1, <1>2 DEF SumBelow, FoldFunctionOnSet, MapThenFoldSet
  <2>2. SumsRight'
    BY <1>1, <1>2, <2>1 DEF IInv, SumsRight, Known
  <2> QED
    BY <1>1, <1>2, <2>2 DEF IInv, SharesRight, QueuesRight, ThreadsRight, CoresRight
<1> QED
  BY <1>1, <1>3, <1>4 DEF IInv

LEMMA KeepParse == ASSUME IInv, ParseArgs PROVE IInv'
<1>1. CASE Exit("exited") /\ UNCHANGED argVars
  BY <1>1, KeptAtEnd DEF ParseArgs, Exit
<1>2. CASE ~ArgsRefused /\ Continue("sum")
  <2>1. /\ stage = "args" /\ stage' = "sum" /\ process' = process
        /\ enabled' = PortMask
        /\ thread_mode' = ParseMode(args.m) /\ queue_mode' = ParseMode(args.M)
        /\ start' = (IF args.S = -1 THEN 0 ELSE ParseStart(args.S))
        /\ link' = link /\ steady' = steady /\ args' = args
        /\ nb_ports' = nb_ports /\ ring_num' = ring_num
        /\ weight' = weight /\ weight_sum' = weight_sum /\ sort' = sort
        /\ port_ringnum' = port_ringnum /\ port_queuenum' = port_queuenum
        /\ end' = end /\ thread_info' = thread_info /\ core_portnum' = core_portnum
        /\ core_queuenum' = core_queuenum /\ started' = started /\ created' = created
    BY <1>2 DEF ParseArgs, Exit, Continue, linkVars, envVars, sumVars, portVars, mapVars, runVars
  <2>2. Port' = Port /\ NoQueues' = NoQueues
    BY <2>1, SameShares
  <2>3. args \in Arg
    BY ConfAssumption DEF IInv, TypeOK
  <2>4. start' \in Short /\ start' < MAX_CORE_SIZE
    <3>1. args.S \in Nat \cup {-1}
      BY <2>3 DEF Arg
    <3>2. MAX_CORE_SIZE \in Nat /\ MAX_CORE_SIZE > 0 /\ HalfWord \in Nat
          /\ 2 * MAX_CORE_SIZE < HalfWord
      BY Confs
    <3> QED
      BY <2>1, <3>1, <3>2 DEF ParseStart, Short
  <2>5. enabled' \subseteq Nat
    <3>1. args.ports \in SUBSET Nat
      BY <2>3 DEF Arg
    <3>2. Port \subseteq Nat
      BY DEF Port
    <3> QED
      BY <2>1, <3>1, <3>2 DEF PortMask
  <2>6. {thread_mode', queue_mode'} \subseteq {0, 1, 2}
    BY <2>1 DEF ParseMode
  <2>7. TypeOK'
    BY <2>1, <2>2, <2>4, <2>5, <2>6 DEF IInv, TypeOK, Short
  <2>8. port_queuenum' = NoQueues'
    BY <2>1, <2>2 DEF IInv, QueuesRight, Counted
  <2>9. SumsRight' /\ SharesRight' /\ QueuesRight' /\ ThreadsRight' /\ CoresRight'
    BY <2>1, <2>8 DEF SumsRight, SharesRight, QueuesRight, ThreadsRight, CoresRight,
         Shared, Counted, Threaded, Bound
  <2> QED
    BY <2>4, <2>7, <2>9 DEF IInv
<1> QED
  BY <1>1, <1>2 DEF ParseArgs

LEMMA KeepSum == ASSUME IInv, SumWeights PROVE IInv'
<1>1. CASE Exit("exited") /\ UNCHANGED sumVars
  BY <1>1, KeptAtEnd DEF SumWeights, Exit
<1>2. CASE nb_ports <= ring_num /\ (\A p \in Port : Known(link[p])) /\ Continue("share")
  <2>1. /\ stage = "sum" /\ stage' = "share" /\ process' = process
        /\ weight' = (IF nb_ports = 0 THEN 0 ELSE Weight[link[nb_ports - 1]])
        /\ weight_sum' = SumBelow(Weights, nb_ports)
        /\ sort' = (IF nb_ports = 0 THEN <<>> ELSE Sorted)
        /\ enabled' = enabled
        /\ thread_mode' = thread_mode /\ queue_mode' = queue_mode /\ start' = start
        /\ link' = link /\ steady' = steady /\ args' = args
        /\ nb_ports' = nb_ports /\ ring_num' = ring_num
        /\ port_ringnum' = port_ringnum /\ port_queuenum' = port_queuenum
        /\ end' = end /\ thread_info' = thread_info /\ core_portnum' = core_portnum
        /\ core_queuenum' = core_queuenum /\ started' = started /\ created' = created
    <3>1. nb_ports \in Nat /\ ring_num \in Nat
      BY Confs DEF IInv, TypeOK
    <3> QED
      BY <1>2, <3>1 DEF SumWeights, Exit, Continue, linkVars, envVars, argVars, portVars,
           mapVars, runVars, Weights
  <2>2. Port' = Port /\ NoQueues' = NoQueues /\ Weights' = Weights
    BY <2>1, SameShares
  <2>3. nb_ports \in Nat /\ link \in [Port -> Speeds]
    BY Confs DEF IInv, TypeOK
  <2>4. \A p \in Port : Weights[p] \in Nat \ {0}
    BY <1>2, Confs DEF Known, Weights
  <2>5. /\ SumBelow(Weights, nb_ports) \in Nat
        /\ nb_ports > 0 => SumBelow(Weights, nb_ports) > 0
    <3> DEFINE w == Weights
    <3>1. \A p \in 0 .. nb_ports - 1 : w[p] \in Nat \ {0}
      BY <2>4 DEF Port
    <3> HIDE DEF w
    <3>2. \A k \in 0 .. nb_ports : SumBelow(w, k) \in Nat
      BY <2>3, <3>1, BelowMono
    <3>3. ASSUME nb_ports > 0 PROVE SumBelow(w, nb_ports) > 0
      <4>1. nb_ports - 1 \in 0 .. nb_ports - 1 /\ (nb_ports - 1) + 1 = nb_ports
            /\ nb_ports - 1 \in 0 .. nb_ports
        BY <2>3, <3>3
      <4>2. SumBelow(w, (nb_ports - 1) + 1) = SumBelow(w, nb_ports - 1) + w[nb_ports - 1]
        BY <2>3, <3>1, <4>1, BelowMono
      <4>3. SumBelow(w, nb_ports - 1) \in Nat /\ w[nb_ports - 1] \in Nat \ {0}
        BY <3>1, <3>2, <4>1
      <4> QED
        BY <4>1, <4>2, <4>3
    <3> QED
      BY <2>3, <3>2, <3>3 DEF w
  <2>6. weight' \in Nat
    <3>1. nb_ports # 0 => nb_ports - 1 \in Port
      BY <2>3 DEF Port
    <3> QED
      BY <1>2, <2>1, <3>1, Confs DEF Known
  <2>7. sort' \in Seq([speed : Speeds, port : Port]) /\ (nb_ports > 0 => sort' # <<>>)
    <3>1. CASE nb_ports = 0
      <4>1. <<>> \in Seq([speed : Speeds, port : Port])
        OBVIOUS
      <4> QED
        BY <2>1, <3>1, <4>1
    <3>2. CASE nb_ports # 0
      BY <2>1, <2>3, <3>2, SortedType DEF Nodes
    <3> QED
      BY <3>1, <3>2
  <2>8. TypeOK'
    <3>1. sort' \in Seq([speed : Speeds, port : Port'])
      BY <2>2, <2>7
    <3> QED
      BY <2>1, <2>2, <2>5, <2>6, <3>1 DEF IInv, TypeOK, Short
  <2>9. SumsRight'
    <3>4. nb_ports > 0 => DOMAIN Weight # {}
      <4>1. nb_ports \in Nat
        BY Confs DEF IInv, TypeOK
      <4>2. nb_ports > 0 => 0 \in Port
        BY <4>1 DEF Port
      <4> QED
        BY <1>2, <4>2 DEF Known
    <3>1. weight_sum' = SumBelow(Weights, nb_ports)'
      BY <2>1, <2>2 DEF SumBelow, FoldFunctionOnSet, MapThenFoldSet
    <3>2. nb_ports' > 0 => weight_sum' > 0 /\ sort' # <<>>
      BY <2>1, <2>5, <2>7
    <3>3. nb_ports' <= ring_num' /\ \A p \in Port' : Known(link[p])'
      BY <1>2, <2>1, <2>2 DEF Known
    <3> QED
      BY <2>1, <3>1, <3>2, <3>3, <3>4 DEF SumsRight
  <2>10. port_queuenum' = NoQueues'
    BY <2>1, <2>2 DEF IInv, QueuesRight, Counted
  <2>11. SharesRight' /\ QueuesRight' /\ ThreadsRight' /\ CoresRight'
    BY <2>1, <2>10 DEF SharesRight, QueuesRight, ThreadsRight, CoresRight,
         Shared, Counted, Threaded, Bound
  <2> QED
    BY <2>1, <2>8, <2>9, <2>11 DEF IInv
<1> QED
  BY <1>1, <1>2 DEF SumWeights

LEMMA KeepShares == ASSUME IInv, ShareRings PROVE IInv'
<1>1. CASE Exit("crashed") /\ UNCHANGED port_ringnum
  BY <1>1, KeptAtEnd DEF ShareRings, Exit, portVars
<1>2. CASE nb_ports > 0 /\ Continue("queues")
  <2>1. /\ stage = "share" /\ stage' = "queues" /\ process' = process
        /\ port_ringnum' = [p \in Port |-> Share(p)]
        /\ enabled' = enabled
        /\ thread_mode' = thread_mode /\ queue_mode' = queue_mode /\ start' = start
        /\ weight' = weight /\ weight_sum' = weight_sum /\ sort' = sort
        /\ link' = link /\ steady' = steady /\ args' = args
        /\ nb_ports' = nb_ports /\ ring_num' = ring_num /\ port_queuenum' = port_queuenum
        /\ end' = end /\ thread_info' = thread_info /\ core_portnum' = core_portnum
        /\ core_queuenum' = core_queuenum /\ started' = started /\ created' = created
    <3>1. ShareRings /\ ~ (nb_ports = 0)
      BY <1>2
    <3> QED
      BY <1>2, <3>1 DEF ShareRings, Exit, Continue, linkVars, envVars, argVars, sumVars, mapVars,
           runVars
  <2>2. Port' = Port /\ NoQueues' = NoQueues /\ Weights' = Weights
    BY <2>1, SameShares
  <2>3. /\ Shareable
        /\ steady => \A p \in Port : Known(link[p])
        /\ steady => weight_sum = SumBelow([p \in Port |-> Weight[link[p]]], nb_ports)
    <3>1. nb_ports \in Nat /\ ring_num \in RingNums
          /\ sort \in Seq([speed : Speeds, port : Port]) /\ weight \in Nat /\ weight_sum \in Nat
      BY Confs DEF IInv, TypeOK
    <3>2. SumsRight
      BY DEF IInv
    <3>3. /\ steady => \A p \in Port : Known(link[p])
          /\ weight_sum > 0 /\ sort # <<>> /\ DOMAIN Weight # {}
          /\ steady => weight_sum = SumBelow(Weights, nb_ports)
      BY <1>2, <2>1, <3>2 DEF SumsRight
    <3> QED
      BY <1>2, <3>1, <3>3 DEF Shareable, Nodes, Weights
  <2>4. port_ringnum' \in [Port -> Short]
    BY <2>1, <2>3, ShareType
  <2>5. TypeOK'
    BY <2>1, <2>2, <2>4 DEF IInv, TypeOK, Short
  <2>6. SumsRight'
    <3>1. SumBelow(Weights, nb_ports)' = SumBelow(Weights, nb_ports)
      BY <2>1, <2>2 DEF SumBelow, FoldFunctionOnSet, MapThenFoldSet
    <3> QED
      BY <2>1, <2>2, <3>1 DEF IInv, SumsRight, Known
  <2>7. SharesRight'
    <3>1. RingTotal' = SumBelow([p \in Port |-> Share(p)], nb_ports)
      BY <2>1 DEF RingTotal, SumBelow, FoldFunctionOnSet, MapThenFoldSet
    <3>2. steady => RingTotal' >= ring_num /\ (nb_ports = 1 => RingTotal' = ring_num)
      BY <2>3, <3>1, SharesCover
    <3> QED
      BY <1>2, <2>1, <3>2 DEF SharesRight
  <2>8. port_queuenum' = NoQueues'
    BY <2>1, <2>2 DEF IInv, QueuesRight, Counted
  <2>9. QueuesRight' /\ ThreadsRight' /\ CoresRight'
    BY <2>1, <2>8 DEF QueuesRight, ThreadsRight, CoresRight, Counted, Threaded, Bound
  <2> QED
    BY <2>1, <2>5, <2>6, <2>7, <2>9 DEF IInv
<1> QED
  BY <1>1, <1>2 DEF ShareRings

LEMMA KeepQueues == ASSUME IInv, CountQueues PROVE IInv'
<1>1. /\ stage = "queues" /\ stage' = "threads" /\ process' = process
      /\ port_queuenum' = (CASE queue_mode = 1 -> [p \in Port |-> FindQueue(link[p])]
                             [] queue_mode = 2 -> port_ringnum
                             [] OTHER          -> port_queuenum)
      /\ enabled' = enabled
      /\ thread_mode' = thread_mode /\ queue_mode' = queue_mode /\ start' = start
      /\ weight' = weight /\ weight_sum' = weight_sum /\ sort' = sort
      /\ link' = link /\ steady' = steady /\ args' = args
      /\ nb_ports' = nb_ports /\ ring_num' = ring_num /\ port_ringnum' = port_ringnum
      /\ end' = end /\ thread_info' = thread_info /\ core_portnum' = core_portnum
      /\ core_queuenum' = core_queuenum /\ started' = started /\ created' = created
  BY DEF CountQueues, Continue, linkVars, envVars, argVars, sumVars, mapVars, runVars
<1>2. Port' = Port /\ NoQueues' = NoQueues /\ Weights' = Weights /\ RingTotal' = RingTotal
  BY <1>1, SameShares
<1>3. \A p \in Port : FindQueue(link[p]) \in Short
  <2> TAKE p \in Port
  <2>1. HalfWord \in Nat \ {0} /\ link[p] \in Nat
        /\ \A s \in DOMAIN QueueNum : QueueNum[s] \in Nat
    <3>1. HalfWord \in Nat \ {0}
      BY Confs
    <3>2. link \in [Port -> Speeds] /\ Speeds \subseteq Nat
      BY ConfAssumption DEF IInv, TypeOK
    <3>3. \A s \in DOMAIN QueueNum : QueueNum[s] \in Nat
      BY ConfAssumption
    <3> QED
      BY <3>1, <3>2, <3>3
  <2>2. \A n \in Nat : n % HalfWord \in 0 .. HalfWord - 1
    BY <2>1, Division
  <2>3. HalfWord - 1 \in 0 .. HalfWord - 1
    BY <2>1
  <2> QED
    BY <2>1, <2>2, <2>3 DEF FindQueue, Short
<1>4. port_queuenum' \in [Port -> Short]
  <2>1. port_queuenum \in [Port -> Short] /\ port_ringnum \in [Port -> Short]
    BY DEF IInv, TypeOK
  <2> QED
    BY <1>1, <1>3, <2>1
<1>5. TypeOK'
  BY <1>1, <1>2, <1>4 DEF IInv, TypeOK, Short
<1>6. SumsRight'
  <2>1. SumBelow(Weights, nb_ports)' = SumBelow(Weights, nb_ports)
    BY <1>1, <1>2 DEF SumBelow, FoldFunctionOnSet, MapThenFoldSet
  <2> QED
    BY <1>1, <1>2, <2>1 DEF IInv, SumsRight, Known, Shared
<1>7. SharesRight'
  BY <1>1, <1>2 DEF IInv, SharesRight, Shared
<1>8. QueuesRight'
  BY <1>1, <1>2 DEF IInv, QueuesRight, Counted
<1>9. ThreadsRight' /\ CoresRight'
  BY <1>1 DEF ThreadsRight, CoresRight, Threaded, Bound
<1> QED
  BY <1>1, <1>5, <1>6, <1>7, <1>8, <1>9 DEF IInv

(* What the steps from here on find *)
LEMMA PortsThere ==
    ASSUME IInv, stage \in Shared
    PROVE  /\ nb_ports \in Nat \ {0} /\ ring_num \in Nat \ {0} /\ HalfWord \in Nat
           /\ \A p \in Port : /\ port_ringnum[p] \in Nat /\ port_ringnum[p] \in Short
                              /\ port_queuenum[p] \in Nat /\ port_queuenum[p] \in Short
<1>1. nb_ports \in Nat /\ ring_num \in Nat \ {0} /\ HalfWord \in Nat
      /\ port_ringnum \in [Port -> Short] /\ port_queuenum \in [Port -> Short]
  BY Confs DEF IInv, TypeOK
<1>2. nb_ports > 0
  BY DEF IInv, SharesRight
<1>3. \A x \in Short : x \in Nat
  BY <1>1 DEF Short
<1> QED
  BY <1>1, <1>2, <1>3

LEMMA KeepThreads == ASSUME IInv, AssignThreads PROVE IInv'
<1>0. CASE Exit("overrun") /\ UNCHANGED thread_info
  BY <1>0, KeptAtEnd DEF AssignThreads, Exit, mapVars
<1> SUFFICES ASSUME Continue("cores"), thread_info' = Threads PROVE IInv'
  BY <1>0 DEF AssignThreads, Threads
<1>1. /\ stage = "threads" /\ stage' = "cores" /\ process' = process
      /\ thread_info' = Threads
      /\ enabled' = enabled
      /\ thread_mode' = thread_mode /\ queue_mode' = queue_mode /\ start' = start
      /\ weight' = weight /\ weight_sum' = weight_sum /\ sort' = sort
      /\ link' = link /\ steady' = steady /\ args' = args
      /\ nb_ports' = nb_ports /\ ring_num' = ring_num /\ port_ringnum' = port_ringnum
      /\ port_queuenum' = port_queuenum /\ end' = end /\ core_portnum' = core_portnum
      /\ core_queuenum' = core_queuenum /\ started' = started /\ created' = created
  BY DEF AssignThreads, Threads, Continue, linkVars, envVars, argVars, sumVars, portVars, runVars
<1>2. /\ Port' = Port /\ NoQueues' = NoQueues /\ Weights' = Weights
      /\ RingTotal' = RingTotal /\ Threads' = Threads
  BY <1>1, SameShares
<1>3. thread_info' \in [0 .. ring_num - 1 -> Nat \X Nat]
  <2>1. ASSUME NEW i \in Nat PROVE Entry(i) \in Nat
    <3>1. MAX_CORE_SIZE \in Nat /\ \A p \in Port : p \in Nat
      BY Confs DEF Port
    <3>2. \A k \in Nat : Nth(port_ringnum, k) \in Port \X Nat
      BY <1>1, PortsThere, NthIs DEF Shared
    <3>3. CASE i < MAX_CORE_SIZE \/ i < RingTotal
      BY <3>1, <3>2, <3>3 DEF Entry
    <3>4. CASE ~ (i < MAX_CORE_SIZE \/ i < RingTotal)
      <4>1. i - MAX_CORE_SIZE \in Nat
        BY <3>1, <3>4
      <4> QED
        BY <3>1, <3>2, <3>4, <4>1 DEF Entry
    <3> QED
      BY <3>3, <3>4
  <2>2. MAX_CORE_SIZE \in Nat
    BY Confs
  <2>3. \A k \in 0 .. ring_num - 1 : k \in Nat /\ MAX_CORE_SIZE + k \in Nat
    BY <2>2
  <2> QED
    BY <1>1, <2>1, <2>3 DEF Threads
<1>4. TypeOK'
  BY <1>1, <1>2, <1>3 DEF IInv, TypeOK, Short
<1>5. SumsRight'
  <2>1. SumBelow(Weights, nb_ports)' = SumBelow(Weights, nb_ports)
    BY <1>1, <1>2 DEF SumBelow, FoldFunctionOnSet, MapThenFoldSet
  <2> QED
    BY <1>1, <1>2, <2>1 DEF IInv, SumsRight, Known, Shared
<1>6. SharesRight' /\ QueuesRight' /\ ThreadsRight' /\ CoresRight'
  BY <1>1, <1>2 DEF IInv, SharesRight, QueuesRight, ThreadsRight, CoresRight, Shared, Counted,
       Threaded, Bound
<1> QED
  BY <1>1, <1>4, <1>5, <1>6 DEF IInv

(* The lcores of the ports in thread mode 1 *)
LEMMA Halves ==
    ASSUME NEW n \in Nat, NEW s \in Nat
    PROVE  (s + (s + 2 * n - 1) + 1) \div 2 = s + n
<1>1. s + (s + 2 * n - 1) + 1 = 2 * (s + n)
  OBVIOUS
<1>2. (2 * (s + n)) \div 2 = s + n
  OBVIOUS
<1> QED
  BY <1>1, <1>2

LEMMA CoreValues ==
    ASSUME nb_ports \in Nat \ {0}, ring_num \in Nat \ {0}, start \in Nat,
           thread_mode \in {1, 2}, \A p \in Port : port_ringnum[p] \in Nat,
           NEW c \in start .. start + Length - 1
    PROVE  /\ CorePort(c, start + Length - 1) \in Port
           /\ thread_mode = 1 /\ c < start + nb_ports =>
                 CorePort(c, start + Length - 1) = c - start
           /\ thread_mode = 1 /\ c >= start + nb_ports =>
                 CorePort(c, start + Length - 1) = c - (start + nb_ports)
           /\ thread_mode = 2 /\ c >= start + nb_ports =>
                 CorePort(c, start + Length - 1) = Nth(port_ringnum, c - start - nb_ports)[1]
<1>1. Port = 0 .. nb_ports - 1
  BY DEF Port
<1>2. CASE thread_mode = 1
  <2>1. Length = 2 * nb_ports
    BY <1>2 DEF Length
  <2>2. (start + (start + Length - 1) + 1) \div 2 = start + nb_ports
    BY <2>1, Halves
  <2>3. CorePort(c, start + Length - 1) =
          IF c < start + nb_ports THEN c - start ELSE c - (start + nb_ports)
    BY <1>2, <2>1, <2>2 DEF CorePort
  <2> QED
    BY <1>1, <1>2, <2>1, <2>3
<1>3. CASE thread_mode = 2
  <2> DEFINE k == c - start
  <2>1. Length = ring_num + nb_ports
    BY <1>3 DEF Length
  <2>2. k \in Nat /\ (k >= nb_ports <=> c >= start + nb_ports)
    BY <2>1
  <2>3. CorePort(c, start + Length - 1) =
          IF k < nb_ports THEN k ELSE Nth(port_ringnum, k - nb_ports)[1]
    BY <1>3, <2>2 DEF CorePort
  <2>4. ASSUME k >= nb_ports PROVE Nth(port_ringnum, k - nb_ports)[1] \in Port
    <3>1. k - nb_ports \in Nat
      BY <2>2, <2>4
    <3>2. Nth(port_ringnum, k - nb_ports) \in Port \X Nat
      BY <3>1, NthIs
    <3> QED
      BY <3>2
  <2> QED
    BY <1>1, <1>3, <2>2, <2>3, <2>4
<1> QED
  BY <1>2, <1>3

LEMMA KeepCores == ASSUME IInv, BindCores PROVE IInv'
<1>1. CASE Exit("exited") /\ UNCHANGED <<end, core_portnum, core_queuenum>>
  BY <1>1, KeptAtEnd DEF BindCores, Exit, mapVars
<1>2. CASE Exit("overrun") /\ UNCHANGED <<end, core_portnum, core_queuenum>>
  BY <1>2, KeptAtEnd DEF BindCores, Exit, mapVars
<1>3. CASE thread_mode # 0 /\ Length <= MAX_CORE_SIZE /\ ~ QueuesOverrun /\ Continue("ports")
  <2> DEFINE last == start + Length - 1
  <2>1. /\ stage = "cores" /\ stage' = "ports" /\ process' = process
        /\ thread_mode # 0 /\ Length <= MAX_CORE_SIZE
        /\ end' = last
        /\ core_portnum' = [c \in start .. last |-> CorePort(c, last)]
        /\ core_queuenum' = [c \in start .. last |-> CoreQueue(c)]
        /\ enabled' = enabled
        /\ thread_mode' = thread_mode /\ queue_mode' = queue_mode /\ start' = start
        /\ weight' = weight /\ weight_sum' = weight_sum /\ sort' = sort
        /\ link' = link /\ steady' = steady /\ args' = args
        /\ nb_ports' = nb_ports /\ ring_num' = ring_num /\ port_ringnum' = port_ringnum
        /\ port_queuenum' = port_queuenum /\ thread_info' = thread_info
        /\ started' = started /\ created' = created
    BY <1>3 DEF BindCores, Exit, Continue, linkVars, envVars, argVars, sumVars, portVars, runVars
  <2>2. /\ Port' = Port /\ NoQueues' = NoQueues /\ Weights' = Weights
        /\ RingTotal' = RingTotal /\ Threads' = Threads
    BY <2>1, SameShares
  <2>3. /\ nb_ports \in Nat \ {0} /\ ring_num \in Nat \ {0} /\ HalfWord \in Nat
        /\ \A p \in Port : /\ port_ringnum[p] \in Nat /\ port_ringnum[p] \in Short
                           /\ port_queuenum[p] \in Nat /\ port_queuenum[p] \in Short
    BY <2>1, PortsThere DEF Shared
  <2>4. start \in Nat /\ start < MAX_CORE_SIZE /\ thread_mode \in {1, 2}
        /\ MAX_CORE_SIZE \in Nat /\ 2 * MAX_CORE_SIZE < HalfWord
    <3>1. start \in Short /\ thread_mode \in {0, 1, 2} /\ start < MAX_CORE_SIZE
      BY DEF IInv, TypeOK
    <3> QED
      BY <2>1, <3>1, Confs DEF Short
  <2>5. Length \in Nat \ {0}
    BY <2>3, <2>4 DEF Length
  <2>6. last \in Short
    BY <2>1, <2>3, <2>4, <2>5 DEF Short
  <2>7. core_portnum' \in [start .. last -> Port]
    <3>1. \A c \in start .. last : CorePort(c, last) \in Port
      BY <2>3, <2>4, CoreValues
    <3> QED
      BY <2>1, <3>1
  <2>8. core_queuenum' \in [start .. last -> Short]
    <3>1. ASSUME NEW c \in start .. last PROVE CoreQueue(c) \in Short
      <4> DEFINE x == Nth(port_queuenum, c - start)
      <4>1. c - start \in Nat
        BY <2>4, <2>5
      <4>2. x \in Port \X Nat /\ (x[2] = 0 \/ x[2] < port_queuenum[x[1]])
        BY <2>3, <4>1, NthIs
      <4>3. CoreQueue(c) = x[2]
        BY DEF CoreQueue
      <4> HIDE DEF x
      <4>4. x[1] \in Port /\ x[2] \in Nat
        BY <4>2
      <4>5. port_queuenum[x[1]] \in 0 .. HalfWord - 1 /\ 0 < HalfWord
        BY <2>3, <2>4, <4>4 DEF Short
      <4> QED
        BY <2>3, <4>2, <4>3, <4>4, <4>5 DEF Short
    <3> QED
      BY <2>1, <3>1
  <2>9. TypeOK'
    <3>1. core_portnum' \in [start' .. end' -> Port' \cup {0}]
          /\ core_queuenum' \in [start' .. end' -> Short]
      <4>1. [start .. last -> Port] \subseteq [start .. last -> Port \cup {0}]
        OBVIOUS
      <4> QED
        BY <2>1, <2>2, <2>7, <2>8, <4>1
    <3>2. thread_info' \in [0 .. ring_num' - 1 -> Nat \X Nat]
      BY <2>1, <2>2 DEF IInv, TypeOK
    <3>3. Short' = Short /\ end' \in Short
      BY <2>1, <2>6 DEF Short
    <3> QED
      BY <2>1, <2>2, <3>1, <3>2, <3>3 DEF IInv, TypeOK
  <2>10. SumsRight'
    <3>1. SumBelow(Weights, nb_ports)' = SumBelow(Weights, nb_ports)
      BY <2>1, <2>2 DEF SumBelow, FoldFunctionOnSet, MapThenFoldSet
    <3> QED
      BY <2>1, <2>2, <3>1 DEF IInv, SumsRight, Known, Shared
  <2>11. SharesRight' /\ QueuesRight' /\ ThreadsRight'
    BY <2>1, <2>2 DEF IInv, SharesRight, QueuesRight, ThreadsRight, Shared, Counted, Threaded
  <2>12. CoresRight'
    <3>1. Length' = Length
      BY <2>1 DEF Length
    <3>2. Ports' = core_portnum'
      BY <2>1, <2>2 DEF Ports, CorePort, Nth, SumBelow, FoldFunctionOnSet, MapThenFoldSet
    <3>3. Queues' = core_queuenum'
      BY <2>1, <2>2 DEF Queues, CoreQueue, Nth, SumBelow, FoldFunctionOnSet, MapThenFoldSet
    <3> QED
      BY <2>1, <3>1, <3>2, <3>3 DEF CoresRight
  <2> QED
    BY <2>1, <2>9, <2>10, <2>11, <2>12 DEF IInv
<1> QED
  BY <1>1, <1>2, <1>3 DEF BindCores

(* The steps that change nothing the assignments are made from *)
LEMMA KeptAfter ==
    ASSUME IInv, stage \in Bound, stage' \in Bound, process' = process,
           started' \subseteq Port, created' \subseteq Port \X Nat,
           UNCHANGED <<linkVars, envVars, argVars, sumVars, portVars, mapVars>>
    PROVE  IInv'
<1>1. /\ link' = link /\ steady' = steady /\ args' = args
      /\ nb_ports' = nb_ports /\ ring_num' = ring_num /\ enabled' = enabled
      /\ thread_mode' = thread_mode /\ queue_mode' = queue_mode /\ start' = start
      /\ weight' = weight /\ weight_sum' = weight_sum /\ sort' = sort
      /\ port_ringnum' = port_ringnum /\ port_queuenum' = port_queuenum
      /\ end' = end /\ thread_info' = thread_info /\ core_portnum' = core_portnum
      /\ core_queuenum' = core_queuenum
  BY DEF linkVars, envVars, argVars, sumVars, portVars, mapVars
<1>2. /\ Port' = Port /\ NoQueues' = NoQueues /\ Weights' = Weights
      /\ RingTotal' = RingTotal /\ Threads' = Threads
      /\ Length' = Length /\ Ports' = Ports /\ Queues' = Queues
  BY <1>1, SameShares, SameCores
<1>3. TypeOK'
  <2>1. started' \subseteq Port' /\ created' \subseteq Port' \X Nat
    BY <1>2
  <2>2. stage' \in {"args", "sum", "share", "queues", "threads", "cores", "ports", "rings",
                    "launched"}
    BY DEF Bound
  <2> QED
    BY <1>1, <1>2, <2>1, <2>2 DEF IInv, TypeOK, Short, Bound
<1>4. SumsRight'
  <2>1. SumBelow(Weights, nb_ports)' = SumBelow(Weights, nb_ports)
    BY <1>1, <1>2 DEF SumBelow, FoldFunctionOnSet, MapThenFoldSet
  <2> QED
    BY <1>1, <1>2, <2>1 DEF IInv, SumsRight, Known, Shared, Bound
<1>5. SharesRight' /\ QueuesRight' /\ ThreadsRight' /\ CoresRight'
  BY <1>1, <1>2 DEF IInv, SharesRight, QueuesRight, ThreadsRight, CoresRight, Shared, Counted,
       Threaded, Bound
<1> QED
  BY <1>1, <1>3, <1>4, <1>5 DEF IInv

LEMMA KeepPorts == ASSUME IInv, StartPorts PROVE IInv'
<1>1. CASE Exit("exited") /\ UNCHANGED started
  BY <1>1, KeptAtEnd DEF StartPorts, Exit, runVars
<1>2. CASE Continue("rings") /\ started' = enabled \cap Port
  <2>1. stage = "ports" /\ stage' = "rings" /\ process' = process /\ created' = created
        /\ UNCHANGED <<linkVars, envVars, argVars, sumVars, portVars, mapVars>>
    BY <1>2 DEF StartPorts, Continue
  <2>2. created' \subseteq Port \X Nat /\ started' \subseteq Port
    BY <1>2, <2>1 DEF IInv, TypeOK
  <2>3. stage \in Bound /\ stage' \in Bound
    BY <2>1 DEF Bound
  <2> QED
    BY <2>1, <2>2, <2>3, KeptAfter
<1> QED
  BY <1>1, <1>2 DEF StartPorts

LEMMA KeepRings == ASSUME IInv, InitRings PROVE IInv'
<1>1. stage = "rings" /\ stage' = "launched" /\ process' = process /\ started' = started
      /\ UNCHANGED <<linkVars, envVars, argVars, sumVars, portVars, mapVars>>
  BY DEF InitRings, Continue
<1>2. Rings \subseteq Port \X Nat
  <2>1. 0 .. RingTotal - 1 \subseteq Nat
    OBVIOUS
  <2> QED
    BY <2>1 DEF Rings
<1>3. created' \subseteq Port \X Nat
  BY <1>2 DEF InitRings
<1>4. started' \subseteq Port
  BY <1>1 DEF IInv, TypeOK
<1>5. stage \in Bound /\ stage' \in Bound
  BY <1>1 DEF Bound
<1> QED
  BY <1>1, <1>3, <1>4, <1>5, KeptAfter

LEMMA KeepLink ==
    ASSUME IInv, NEW p \in Port, NEW speed \in Speeds, LinkChange(p, speed)
    PROVE  IInv'
<1>1. /\ stage \in {"share", "queues"} /\ stage' = stage /\ process' = process
      /\ link' = [link EXCEPT ![p] = speed] /\ steady' = FALSE /\ args' = args
      /\ nb_ports' = nb_ports /\ ring_num' = ring_num /\ enabled' = enabled
      /\ thread_mode' = thread_mode /\ queue_mode' = queue_mode /\ start' = start
      /\ weight' = weight /\ weight_sum' = weight_sum /\ sort' = sort
      /\ port_ringnum' = port_ringnum /\ port_queuenum' = port_queuenum
      /\ end' = end /\ thread_info' = thread_info /\ core_portnum' = core_portnum
      /\ core_queuenum' = core_queuenum /\ started' = started /\ created' = created
  BY DEF LinkChange, envVars, argVars, sumVars, portVars, mapVars, runVars
<1>2. Port' = Port /\ NoQueues' = NoQueues
  BY <1>1, SameShares
<1>3. link \in [Port -> Speeds]
  BY DEF IInv, TypeOK
<1>4. link' \in [Port -> Speeds]
  BY <1>1, <1>3
<1>5. TypeOK'
  BY <1>1, <1>2, <1>4 DEF IInv, TypeOK, Short
<1>6. SumsRight'
  <2>1. /\ nb_ports <= ring_num
        /\ nb_ports > 0 => weight_sum > 0 /\ sort # <<>> /\ DOMAIN Weight # {}
    BY <1>1 DEF IInv, SumsRight, Shared
  <2> QED
    BY <1>1, <2>1 DEF SumsRight
<1>7. SharesRight'
  BY <1>1 DEF IInv, SharesRight
<1>8. QueuesRight' /\ ThreadsRight' /\ CoresRight'
  BY <1>1, <1>2 DEF IInv, QueuesRight, ThreadsRight, CoresRight, Counted, Threaded, Bound
<1> QED
  BY <1>1, <1>5, <1>6, <1>7, <1>8 DEF IInv

LEMMA InvNext == IInv /\ [Next]_vars => IInv'
<1> SUFFICES ASSUME IInv, [Next]_vars PROVE IInv'
  OBVIOUS
<1>1. CASE ParseArgs
  BY <1>1, KeepParse
<1>2. CASE SumWeights
  BY <1>2, KeepSum
<1>3. CASE ShareRings
  BY <1>3, KeepShares
<1>4. CASE CountQueues
  BY <1>4, KeepQueues
<1>5. CASE AssignThreads
  BY <1>5, KeepThreads
<1>6. CASE BindCores
  BY <1>6, KeepCores
<1>7. CASE StartPorts
  BY <1>7, KeepPorts
<1>8. CASE InitRings
  BY <1>8, KeepRings
<1>9. CASE \E p \in Port, speed \in Speeds : LinkChange(p, speed)
  BY <1>9, KeepLink
<1>10. CASE UNCHANGED vars
  BY <1>10, KeptAtEnd DEF vars
<1> QED
  BY <1>1, <1>2, <1>3, <1>4, <1>5, <1>6, <1>7, <1>8, <1>9, <1>10 DEF Next, Launched

THEOREM InvAlways == Spec => []IInv
<1> QED
  BY InitInv, InvNext, PTL DEF Spec

-----------------------------------------------------------------------------
(* What the invariant says of the lcores and threads that are launched *)

LEMMA AtLaunch ==
    ASSUME IInv, Launch
    PROVE  /\ nb_ports \in Nat \ {0} /\ ring_num \in Nat \ {0} /\ start \in Nat
           /\ Port = 0 .. nb_ports - 1
           /\ \A p \in Port : port_ringnum[p] \in Nat /\ port_queuenum[p] \in Nat
           /\ steady => RingTotal >= ring_num /\ (nb_ports = 1 => RingTotal = ring_num)
           /\ thread_info = Threads
           /\ thread_mode \in {1, 2} /\ queue_mode \in {0, 1, 2}
           /\ end = start + Length - 1
           /\ core_portnum = Ports /\ core_queuenum = Queues
           /\ queue_mode = 0 => port_queuenum = NoQueues
           /\ queue_mode = 2 => port_queuenum = port_ringnum
<1>1. stage = "launched"
  BY DEF Launch
<1>2. /\ nb_ports \in Nat \ {0} /\ ring_num \in Nat \ {0} /\ HalfWord \in Nat
      /\ \A p \in Port : port_ringnum[p] \in Nat /\ port_queuenum[p] \in Nat
  BY <1>1, PortsThere DEF Shared
<1>3. steady => RingTotal >= ring_num /\ (nb_ports = 1 => RingTotal = ring_num)
  BY <1>1 DEF IInv, SharesRight, Shared
<1>4. thread_info = Threads
  BY <1>1 DEF IInv, ThreadsRight, Threaded
<1>5. /\ thread_mode # 0 /\ end = start + Length - 1
      /\ core_portnum = Ports /\ core_queuenum = Queues
  BY <1>1 DEF IInv, CoresRight, Bound
<1>6. /\ queue_mode = 0 => port_queuenum = NoQueues
      /\ queue_mode = 2 => port_queuenum = port_ringnum
  BY <1>1 DEF IInv, QueuesRight, Counted
<1>7. thread_mode \in {0, 1, 2} /\ queue_mode \in {0, 1, 2} /\ start \in Short
  BY DEF IInv, TypeOK
<1>8. start \in Nat
  BY <1>2, <1>7 DEF Short
<1> QED
  BY <1>2, <1>3, <1>4, <1>5, <1>6, <1>7, <1>8 DEF Port

(* Each thread has a ring of its own. *)
LEMMA ThreadsDistinct == ASSUME IInv PROVE ThreadsOwnRing
<1>1. SUFFICES ASSUME Launch, steady, RingTotal <= MAX_CORE_SIZE
               PROVE  LET owned == {thread_info[k] : k \in DOMAIN thread_info}
                      IN  /\ \A j, k \in DOMAIN thread_info :
                                 thread_info[j] = thread_info[k] => j = k
                          /\ owned \subseteq Rings
                          /\ nb_ports = 1 => owned = Rings
  BY DEF ThreadsOwnRing, Alone, IInv
<1> DEFINE f == port_ringnum
           owned == {thread_info[k] : k \in DOMAIN thread_info}
<1>2. /\ nb_ports \in Nat \ {0} /\ ring_num \in Nat \ {0} /\ Port = 0 .. nb_ports - 1
      /\ \A p \in Port : f[p] \in Nat
      /\ RingTotal >= ring_num /\ (nb_ports = 1 => RingTotal = ring_num)
      /\ thread_info = [k \in 0 .. ring_num - 1 |-> <<Entry(k), Entry(MAX_CORE_SIZE + k)>>]
      /\ MAX_CORE_SIZE \in Nat
  BY <1>1, AtLaunch, Confs DEF Threads
<1>3. /\ \A p \in 0 .. nb_ports : SumBelow(f, p) \in Nat
      /\ \A p \in 0 .. nb_ports - 1 : SumBelow(f, p + 1) = SumBelow(f, p) + f[p]
      /\ \A i, j \in 0 .. nb_ports : i <= j => SumBelow(f, i) <= SumBelow(f, j)
  BY <1>2, BelowMono
<1>4. RingTotal = SumBelow(f, nb_ports) /\ RingTotal \in Nat
  <2>1. nb_ports \in 0 .. nb_ports
    BY <1>2
  <2> QED
    BY <1>3, <2>1 DEF RingTotal
<1>5. ASSUME NEW k \in 0 .. ring_num - 1
      PROVE  k \in Nat /\ k < SumBelow(f, nb_ports) /\ thread_info[k] = Nth(f, k)
  <2>1. k \in Nat /\ k < RingTotal /\ k < MAX_CORE_SIZE /\ MAX_CORE_SIZE + k \in Nat
        /\ ~ (MAX_CORE_SIZE + k < MAX_CORE_SIZE) /\ ~ (MAX_CORE_SIZE + k < RingTotal)
        /\ (MAX_CORE_SIZE + k) - MAX_CORE_SIZE = k
    BY <1>1, <1>2, <1>4
  <2>2. Nth(f, k) \in Port \X Nat
    BY <1>2, <2>1, NthIs
  <2>3. Entry(k) = Nth(f, k)[1] /\ Entry(MAX_CORE_SIZE + k) = Nth(f, k)[2]
    BY <2>1 DEF Entry
  <2>4. Nth(f, k) = <<Nth(f, k)[1], Nth(f, k)[2]>>
    BY <2>2
  <2> QED
    BY <1>2, <1>4, <2>1, <2>3, <2>4
<1> HIDE DEF f
<1>6. \A j, k \in DOMAIN thread_info : thread_info[j] = thread_info[k] => j = k
  <2> SUFFICES ASSUME NEW j \in 0 .. ring_num - 1, NEW k \in 0 .. ring_num - 1,
                      thread_info[j] = thread_info[k]
               PROVE  j = k
    BY <1>2
  <2> QED
    BY <1>2, <1>5, NthOnce
<1>7. owned \subseteq Rings
  <2> SUFFICES ASSUME NEW k \in 0 .. ring_num - 1 PROVE thread_info[k] \in Rings
    BY <1>2
  <2> DEFINE x == Nth(f, k)
  <2>1. thread_info[k] = x /\ x \in Port \X Nat /\ x[2] < f[x[1]]
    BY <1>2, <1>5, NthIs
  <2> HIDE DEF x
  <2>2. x[1] \in Port /\ x[2] \in Nat
    BY <2>1
  <2>3. f[x[1]] <= RingTotal
    <3>1. x[1] \in 0 .. nb_ports - 1 /\ x[1] \in 0 .. nb_ports /\ x[1] + 1 \in 0 .. nb_ports
          /\ nb_ports \in 0 .. nb_ports /\ x[1] + 1 <= nb_ports
      BY <1>2, <2>2
    <3>2. SumBelow(f, x[1] + 1) = SumBelow(f, x[1]) + f[x[1]]
          /\ SumBelow(f, x[1]) \in Nat /\ SumBelow(f, x[1] + 1) <= SumBelow(f, nb_ports)
          /\ SumBelow(f, nb_ports) \in Nat /\ f[x[1]] \in Nat
      BY <1>2, <1>3, <2>2, <3>1
    <3> QED
      BY <1>4, <3>2
  <2>4. x[2] \in 0 .. RingTotal - 1
    BY <1>2, <1>4, <2>1, <2>2, <2>3
  <2>5. x = <<x[1], x[2]>>
    BY <2>1
  <2> QED
    BY <2>1, <2>2, <2>4, <2>5 DEF Rings, f
<1>8. ASSUME nb_ports = 1 PROVE owned = Rings
  <2>1. Port = {0}
    BY <1>2, <1>8
  <2> SUFFICES ASSUME NEW x \in Rings PROVE x \in owned
    BY <1>7
  <2> DEFINE i == x[2]
  <2>2. x = <<0, i>> /\ i \in 0 .. RingTotal - 1 /\ RingTotal = ring_num
    BY <1>2, <1>8, <2>1 DEF Rings
  <2> HIDE DEF i
  <2>3. i \in 0 .. ring_num - 1
    BY <2>2
  <2> DEFINE y == Nth(f, i)
  <2>4. y \in Port \X Nat /\ i = SumBelow(f, y[1]) + y[2] /\ thread_info[i] = y
    BY <1>2, <1>5, <2>3, NthIs
  <2> HIDE DEF y
  <2>5. y = <<0, y[2]>> /\ y[1] = 0 /\ y[2] \in Nat
    BY <2>1, <2>4
  <2>6. i = y[2]
    BY <2>4, <2>5, BelowNone
  <2>7. thread_info[i] = x /\ i \in DOMAIN thread_info
    BY <1>2, <2>2, <2>3, <2>4, <2>5, <2>6
  <2> QED
    BY <2>7
<1> QED
  BY <1>6, <1>7, <1>8

(* In thread mode 1 each port has one lcore of each kind. *)
LEMMA ModeOneServes ==
    ASSUME IInv, Launch, thread_mode = 1, AllLcores, NEW p \in Port
    PROVE  /\ Serve(TxLcores, p) = {start + p}
           /\ RxLcores = start + nb_ports .. end
           /\ Serve(RxLcores, p) = {start + nb_ports + p} /\ start + nb_ports + p \in RxLcores
           /\ start + p \in TxLcores
<1>1. /\ nb_ports \in Nat \ {0} /\ ring_num \in Nat \ {0} /\ start \in Nat
      /\ Port = 0 .. nb_ports - 1
      /\ \A q \in Port : port_ringnum[q] \in Nat
      /\ end = start + Length - 1 /\ core_portnum = Ports
  BY AtLaunch
<1>2. Length = 2 * nb_ports /\ end = start + 2 * nb_ports - 1 /\ p \in Nat /\ p < nb_ports
  BY <1>1 DEF Length
<1>3. \A c \in SlaveLcores : c \in Nat
  BY ConfAssumption
<1>4. start .. end \subseteq SlaveLcores
  BY DEF AllLcores
<1>5. ASSUME NEW c \in start .. end
      PROVE  core_portnum[c] = IF c < start + nb_ports THEN c - start ELSE c - (start + nb_ports)
  <2>1. core_portnum[c] = CorePort(c, end)
    BY <1>1 DEF Ports
  <2>2. c \in start .. start + Length - 1
    BY <1>1
  <2>3. /\ c < start + nb_ports => CorePort(c, end) = c - start
        /\ c >= start + nb_ports => CorePort(c, end) = c - (start + nb_ports)
    BY <1>1, <2>2, CoreValues
  <2> QED
    BY <1>1, <2>1, <2>3
<1>6. /\ \A c : c \in TxLcores <=> c \in start .. start + nb_ports - 1
      /\ \A c : c \in RxLcores <=> c \in start + nb_ports .. end
  <2>1. \A c \in start .. end : c \in SlaveLcores
    BY <1>4
  <2>2. start .. start + nb_ports - 1 \subseteq start .. end
        /\ start + nb_ports .. end \subseteq start .. end
    BY <1>1, <1>2
  <2>3. \A c : c \in TxLcores => c \in start .. start + nb_ports - 1
    BY <1>1, <1>3 DEF TxLcores
  <2>4. \A c \in start .. start + nb_ports - 1 : c \in TxLcores
    BY <1>1, <2>1, <2>2 DEF TxLcores
  <2>5. \A c : c \in RxLcores => c \in start + nb_ports .. end
    BY <1>1, <1>2, <1>3 DEF RxLcores
  <2>6. \A c \in start + nb_ports .. end : c \in RxLcores
    BY <1>1, <1>2, <2>1, <2>2 DEF RxLcores
  <2> QED
    BY <2>3, <2>4, <2>5, <2>6
<1>7. Serve(TxLcores, p) = {start + p}
  <2>1. \A c \in TxLcores : core_portnum[c] = c - start /\ c \in Int
    BY <1>1, <1>2, <1>5, <1>6
  <2>2. start + p \in TxLcores
    BY <1>1, <1>2, <1>6
  <2>3. \A c \in TxLcores : core_portnum[c] = p <=> c = start + p
    BY <1>1, <1>2, <2>1
  <2> QED
    BY <2>2, <2>3 DEF Serve
<1>8. Serve(RxLcores, p) = {start + nb_ports + p}
  <2>1. \A c \in RxLcores : core_portnum[c] = c - (start + nb_ports) /\ c \in Int
    BY <1>1, <1>2, <1>5, <1>6
  <2>2. start + nb_ports + p \in RxLcores
    BY <1>1, <1>2, <1>6
  <2>3. \A c \in RxLcores : core_portnum[c] = p <=> c = start + nb_ports + p
    BY <1>1, <1>2, <2>1
  <2> QED
    BY <2>2, <2>3 DEF Serve
<1>9. RxLcores = start + nb_ports .. end
  BY <1>6
<1> QED
  BY <1>1, <1>2, <1>6, <1>7, <1>8, <1>9

(* In thread mode 2 the lcores after those for sending are for the rings. *)
LEMMA ModeTwoLcores ==
    ASSUME IInv, Launch, thread_mode = 2, AllLcores
    PROVE  /\ RxLcores = start + nb_ports .. start + nb_ports + ring_num - 1
           /\ Cardinality(RxLcores) = ring_num
<1>1. /\ nb_ports \in Nat \ {0} /\ ring_num \in Nat \ {0} /\ start \in Nat
      /\ end = start + Length - 1
  BY AtLaunch
<1>2. end = start + nb_ports + ring_num - 1
  BY <1>1 DEF Length
<1>3. start + nb_ports .. end \subseteq SlaveLcores
  BY <1>1 DEF AllLcores
<1>4. RxLcores = start + nb_ports .. end
  <2>1. \A c \in SlaveLcores : c \in Int
    BY ConfAssumption
  <2> QED
    BY <1>1, <1>2, <1>3, <2>1 DEF RxLcores
<1>5. Cardinality(start + nb_ports .. end) = ring_num
  <2>1. start + nb_ports \in Int /\ end \in Int /\ start + nb_ports <= end
        /\ end - (start + nb_ports) + 1 = ring_num
    BY <1>1, <1>2
  <2> QED
    BY <2>1, FS_Interval
<1> QED
  BY <1>1, <1>2, <1>4, <1>5

(* A single NIC has each receive queue polled by one lcore. *)
LEMMA SinglePolled == ASSUME IInv, nb_ports = 1, steady PROVE QueuePolledOnce
<1>1. SUFFICES ASSUME Launch, AllLcores, ~ (thread_mode = 2 /\ queue_mode = 1),
                      NEW p \in Port, NEW q \in 0 .. port_queuenum[p] - 1
               PROVE  \E c \in RxLcores : {d \in RxLcores : <<p, q>> \in Polled(d)} = {c}
  BY DEF QueuePolledOnce
<1>2. /\ ring_num \in Nat \ {0} /\ start \in Nat
      /\ Port = {0} /\ p = 0
      /\ port_ringnum[0] \in Nat /\ port_queuenum[0] \in Nat
      /\ \A o \in Port : port_ringnum[o] \in Nat /\ port_queuenum[o] \in Nat
      /\ RingTotal = ring_num
      /\ thread_mode \in {1, 2} /\ queue_mode \in {0, 1, 2}
      /\ end = start + Length - 1
      /\ core_portnum = Ports /\ core_queuenum = Queues
      /\ queue_mode = 0 => port_queuenum = NoQueues
      /\ queue_mode = 2 => port_queuenum = port_ringnum
  <2>1. 0 .. 1 - 1 = {0}
    OBVIOUS
  <2> QED
    BY <1>1, <2>1, AtLaunch
<1>3. \A f : (\A o \in Port : f[o] \in Nat) => SumBelow(f, 1) = f[0]
  <2> TAKE f
  <2>1. HAVE \A o \in Port : f[o] \in Nat
  <2>2. 0 .. 1 - 1 = {0} /\ 0 \in 0 .. 1 - 1 /\ 0 + 1 = 1 /\ 1 \in Nat
    OBVIOUS
  <2>3. \A o \in 0 .. 1 - 1 : f[o] \in Nat
    BY <1>2, <2>1, <2>2
  <2>4. SumBelow(f, 0 + 1) = SumBelow(f, 0) + f[0]
    BY <2>2, <2>3, BelowMono
  <2>5. f[0] \in Nat
    BY <2>2, <2>3
  <2> QED
    BY <2>2, <2>4, <2>5, BelowNone
<1>4. port_ringnum[0] = ring_num
  BY <1>2, <1>3 DEF RingTotal
<1>5. queue_mode # 0
  BY <1>1, <1>2 DEF NoQueues
<1>6. ASSUME NEW c \in start .. end PROVE core_portnum[c] = 0
  <2>1. CorePort(c, end) \in Port
    BY <1>2, <1>6, CoreValues
  <2> QED
    BY <1>2, <2>1 DEF Ports
<1>7. CASE thread_mode = 1
  <2>1. RxLcores = start + 1 .. end /\ end = start + 1 /\ start + 1 \in start .. end
    BY <1>1, <1>2, <1>7, ModeOneServes DEF Length
  <2>2. RxLcores = {start + 1}
    BY <1>2, <2>1
  <2>3. Polled(start + 1) = {0} \X (0 .. port_queuenum[0] - 1)
    BY <1>2, <1>4, <1>6, <1>7, <2>1 DEF Polled
  <2>4. <<p, q>> \in Polled(start + 1)
    BY <1>2, <2>3
  <2>5. {d \in RxLcores : <<p, q>> \in Polled(d)} = {start + 1}
    BY <2>2, <2>4
  <2> QED
    BY <2>2, <2>5
<1>8. CASE thread_mode = 2
  <2>1. queue_mode = 2 /\ port_queuenum[0] = ring_num
    BY <1>1, <1>2, <1>4, <1>5, <1>8
  <2>2. RxLcores = start + 1 .. start + ring_num /\ end = start + ring_num
    <3>1. start + 1 + ring_num - 1 = start + ring_num
      BY <1>2
    <3>2. Length = ring_num + 1
      BY <1>8 DEF Length
    <3> QED
      BY <1>1, <1>2, <1>8, <3>1, <3>2, ModeTwoLcores
  <2>3. ASSUME NEW d \in RxLcores
        PROVE  Polled(d) = {<<0, IF d - start < ring_num THEN d - start ELSE 0>>}
    <3> DEFINE k == d - start
               x == Nth(port_queuenum, k)
    <3>1. d \in start .. end /\ k \in Nat /\ d \in Int
      BY <1>2, <2>2
    <3>2. core_queuenum[d] = x[2]
      BY <1>2, <3>1 DEF Queues, CoreQueue
    <3>3. Polled(d) = {<<0, x[2]>>}
      BY <1>2, <1>4, <1>6, <1>8, <2>1, <3>1, <3>2 DEF Polled
    <3>4. SumBelow(port_queuenum, 1) = ring_num
      BY <1>2, <1>3, <2>1
    <3> HIDE DEF k
    <3>5. /\ x \in Port \X Nat
          /\ k < ring_num => k = SumBelow(port_queuenum, x[1]) + x[2]
          /\ ~ (k < ring_num) => x = <<0, 0>>
      <4>1. 1 \in Nat \ {0}
        OBVIOUS
      <4> QED
        BY <1>2, <3>1, <3>4, <4>1, NthIs
    <3> HIDE DEF x
    <3>6. x[1] = 0 /\ x[2] \in Nat
      BY <1>2, <3>5
    <3>7. k < ring_num => x[2] = k
      BY <3>5, <3>6, BelowNone
    <3>8. ~ (k < ring_num) => x[2] = 0
      BY <3>5
    <3> QED
      BY <3>3, <3>7, <3>8 DEF k
  <2> DEFINE c == IF q = 0 THEN start + ring_num ELSE start + q
  <2>4. c \in RxLcores /\ q \in Nat /\ q < ring_num
    BY <1>2, <2>1, <2>2
  <2>5. ASSUME NEW d \in RxLcores PROVE <<p, q>> \in Polled(d) <=> d = c
    <3>1. d \in Int /\ d - start \in 1 .. ring_num
      BY <1>2, <2>2
    <3>2. <<p, q>> \in Polled(d) <=> q = IF d - start < ring_num THEN d - start ELSE 0
      BY <1>2, <2>3
    <3> QED
      BY <1>2, <2>4, <3>1, <3>2
  <2> HIDE DEF c
  <2>6. {d \in RxLcores : <<p, q>> \in Polled(d)} = {c}
    BY <2>4, <2>5
  <2> QED
    BY <2>4, <2>6
<1> QED
  BY <1>2, <1>7, <1>8

LEMMA PortsServed == ASSUME IInv PROVE PortServedOnce
<1>1. ASSUME Launch, thread_mode = 1, AllLcores, NEW p \in Port
      PROVE  /\ \E c \in TxLcores : Serve(TxLcores, p) = {c}
             /\ \E c \in RxLcores : Serve(RxLcores, p) = {c}
  BY <1>1, ModeOneServes
<1>2. ASSUME nb_ports = 1, steady PROVE QueuePolledOnce
  BY <1>2, SinglePolled
<1>3. ASSUME nb_ports = 1, steady, Launch, AllLcores, thread_mode = 2
      PROVE  Cardinality(RxLcores) = RingTotal
  <2>1. RingTotal = ring_num
    BY <1>3, AtLaunch
  <2> QED
    BY <1>3, <2>1, ModeTwoLcores
<1> QED
  BY <1>1, <1>2, <1>3 DEF PortServedOnce

(***************************************************************************)
(* No two capture threads drain the same ring, and each drains a ring that *)
(* its port has, for any ports, speeds, weights and threads: the quotients *)
(* of get_port_ringnum and the remainder it deals out never add up to      *)
(* fewer rings than there are threads.                                     *)
(***************************************************************************)
THEOREM OneThreadPerRing == Spec => []ThreadsOwnRing
<1> QED
  BY InvAlways, ThreadsDistinct, PTL

(***************************************************************************)
(* In thread mode 1 each port has one lcore that sends and one that        *)
(* receives, so that its rings have a single producer, and a single NIC    *)
(* has each queue polled once, for any lcores, -S and numbers of rings.    *)
(***************************************************************************)
THEOREM OneLcorePerPort == Spec => []PortServedOnce
<1> QED
  BY InvAlways, PortsServed, PTL

-----------------------------------------------------------------------------
(* Arithmetic modulo Wrap and modulo Size *)

(* There is one way to divide with a remainder. *)
LEMMA ModUnique ==
    ASSUME NEW x \in Int, NEW m \in Nat \ {0}, NEW q \in Int, NEW r \in 0 .. m - 1,
           x = q * m + r
    PROVE  x % m = r
<1> DEFINE s == x % m
           d == x \div m
<1>1. s \in 0 .. m - 1 /\ d \in Int /\ x = d * m + s
  BY SMT
<1> HIDE DEF s, d
<1>2. (d - q) * m = r - s
  BY <1>1, SMT
<1>3. CASE d - q >= 1
  <2>1. (d - q) * m >= m
    BY <1>1, <1>3, SMT
  <2> QED
    BY <1>1, <1>2, <2>1
<1>4. CASE d - q <= -1
  <2>1. (d - q) * m <= -m
    BY <1>1, <1>4, SMT
  <2> QED
    BY <1>1, <1>2, <2>1
<1>5. CASE d - q = 0
  <2>1. (d - q) * m = 0
    BY <1>5, SMT
  <2> QED
    BY <1>1, <1>2, <2>1 DEF s
<1> QED
  BY <1>1, <1>3, <1>4, <1>5

(* A whole number of Size slots makes no difference. *)
LEMMA ModShift ==
    ASSUME NEW x \in Int, NEW m \in Nat \ {0}, NEW k \in Int
    PROVE  (x + k * m) % m = x % m /\ x % m \in 0 .. m - 1
<1> DEFINE r == x % m
           q == x \div m
<1>1. r \in 0 .. m - 1 /\ q \in Int /\ x = q * m + r
  BY SMT
<1> HIDE DEF r, q
<1>2. x + k * m = (q + k) * m + r /\ q + k \in Int /\ x + k * m \in Int
  BY <1>1, SMT
<1> QED
  BY <1>1, <1>2, ModUnique DEF r

(* The sizes, as the proofs use them. *)
LEMMA Sizes ==
    /\ Size \in Nat \ {0} /\ Num \in Nat \ {0} /\ MaxSend \in Nat \ {0}
    /\ Wrap \in Nat /\ Size < Wrap
    /\ \E k \in Nat : Wrap = k * Size
<1>1. Size \in Nat \ {0} /\ Num \in Nat \ {0} /\ MaxSend \in Nat \ {0}
  BY RingAssumption DEF RingAssumption
<1>2. PICK k \in 2 .. Wrap : Wrap = k * Size
  BY RingAssumption DEF RingAssumption
<1>3. k \in Nat /\ k >= 2
  BY <1>2
<1>4. k * Size \in Nat /\ k * Size > Size
  BY <1>1, <1>3, SMT
<1> QED
  BY <1>1, <1>2, <1>3, <1>4

(* The distance from one index to another, and an index moved on. *)
LEMMA DistanceIs ==
    ASSUME NEW a \in Index, NEW b \in Index
    PROVE  /\ Distance(a, b) = IF a <= b THEN b - a ELSE b - a + Wrap
           /\ Distance(a, b) \in Index
<1>1. Wrap \in Nat \ {0} /\ a \in 0 .. Wrap - 1 /\ b \in 0 .. Wrap - 1
  BY Sizes DEF Index
<1>2. CASE a <= b
  <2>1. b - a = 0 * Wrap + (b - a) /\ b - a \in 0 .. Wrap - 1
    BY <1>1, <1>2
  <2> QED
    BY <1>1, <1>2, <2>1, ModUnique DEF Distance, Index
<1>3. CASE ~(a <= b)
  <2>1. b - a = (-1) * Wrap + (b - a + Wrap) /\ b - a + Wrap \in 0 .. Wrap - 1
    BY <1>1, <1>3
  <2>2. (b - a) % Wrap = b - a + Wrap
    BY <1>1, <2>1, ModUnique
  <2> QED
    BY <1>1, <1>3, <2>1, <2>2 DEF Distance, Index
<1> QED
  BY <1>2, <1>3

LEMMA AddIs ==
    ASSUME NEW a \in Index, NEW n \in 0 .. Size
    PROVE  /\ Add(a, n) = IF a + n < Wrap THEN a + n ELSE a + n - Wrap
           /\ Add(a, n) \in Index
<1>1. Wrap \in Nat \ {0} /\ a \in 0 .. Wrap - 1 /\ Size \in Nat /\ Size < Wrap
  BY Sizes DEF Index
<1>2. CASE a + n < Wrap
  <2>1. a + n = 0 * Wrap + (a + n) /\ a + n \in 0 .. Wrap - 1
    BY <1>1, <1>2
  <2> QED
    BY <1>1, <1>2, <2>1, ModUnique DEF Add, Index
<1>3. CASE ~(a + n < Wrap)
  <2>1. a + n = 1 * Wrap + (a + n - Wrap) /\ a + n - Wrap \in 0 .. Wrap - 1
    BY <1>1, <1>3
  <2>2. (a + n) % Wrap = a + n - Wrap
    BY <1>1, <2>1, ModUnique
  <2> QED
    BY <1>1, <1>3, <2>1, <2>2 DEF Add, Index
<1> QED
  BY <1>2, <1>3

(* The room a producer finds is what its distance leaves of Size - 1. *)
LEMMA FreeIs ==
    ASSUME NEW h \in Index, cons_tail \in Index, Distance(cons_tail, h) <= Size - 1
    PROVE  Free(h) = Size - 1 - Distance(cons_tail, h)
<1>1. /\ Wrap \in Nat \ {0} /\ Size \in Nat \ {0} /\ Size < Wrap
      /\ h \in 0 .. Wrap - 1 /\ cons_tail \in 0 .. Wrap - 1
  BY Sizes DEF Index
<1> DEFINE d == Distance(cons_tail, h)
<1>2. d = (IF cons_tail <= h THEN h - cons_tail ELSE h - cons_tail + Wrap)
      /\ d \in 0 .. Wrap - 1
  BY DistanceIs DEF Index
<1>3. d <= Size - 1
  OBVIOUS
<1> HIDE DEF d
<1>4. Size - 1 - d \in 0 .. Wrap - 1
  BY <1>1, <1>2, <1>3
<1>5. CASE cons_tail <= h
  <2>1. Size - 1 + cons_tail - h = 0 * Wrap + (Size - 1 - d)
    BY <1>1, <1>2, <1>5
  <2>2. Size - 1 + cons_tail - h \in Int
    BY <1>1
  <2>3. (Size - 1 + cons_tail - h) % Wrap = Size - 1 - d
    BY <1>1, <1>4, <2>1, <2>2, ModUnique
  <2> QED
    BY <2>3 DEF Free, d
<1>6. CASE ~(cons_tail <= h)
  <2>1. Size - 1 + cons_tail - h = 1 * Wrap + (Size - 1 - d)
    BY <1>1, <1>2, <1>6
  <2>2. Size - 1 + cons_tail - h \in Int
    BY <1>1
  <2>3. (Size - 1 + cons_tail - h) % Wrap = Size - 1 - d
    BY <1>1, <1>4, <2>1, <2>2, ModUnique
  <2> QED
    BY <2>3 DEF Free, d
<1> QED
  BY <1>5, <1>6

-----------------------------------------------------------------------------
(* The slots *)

(* Counting on from an index that has been moved on. *)
LEMMA SlotOn ==
    ASSUME NEW a \in Index, NEW b \in Index, NEW i \in Int
    PROVE  (b + i) % Size = (a + Distance(a, b) + i) % Size
<1>1. Size \in Nat \ {0} /\ Wrap \in Nat
  BY Sizes
<1>2. PICK k \in Nat : Wrap = k * Size
  BY Sizes
<1>3. a \in Int /\ b \in Int
  BY <1>1 DEF Index
<1>4. ((b + i) + k * Size) % Size = (b + i) % Size
  <2>1. b + i \in Int
    BY <1>3
  <2> QED
    BY <1>1, <2>1, ModShift
<1>5. a + Distance(a, b) = (IF a <= b THEN b ELSE b + Wrap)
  BY <1>1, <1>3, DistanceIs
<1>6. a + Distance(a, b) + i = (IF a <= b THEN b + i ELSE (b + i) + Wrap)
  BY <1>1, <1>3, <1>5
<1> QED
  BY <1>2, <1>4, <1>6

(* The slot at a distance from an index is the slot of the index there. *)
LEMMA SlotAt ==
    ASSUME NEW a \in Index, NEW b \in Index
    PROVE  (a + Distance(a, b)) % Size = b % Size
<1>1. (b + 0) % Size = (a + Distance(a, b) + 0) % Size
  BY SlotOn
<1>2. b + 0 = b /\ a + Distance(a, b) + 0 = a + Distance(a, b)
  BY Sizes, DistanceIs DEF Index
<1> QED
  BY <1>1, <1>2

LEMMA SlotType ==
    ASSUME NEW x \in Int
    PROVE  x % Size \in Slot
BY Sizes, ModShift DEF Slot

(* Less than Size apart, two slots are different ones. *)
LEMMA SlotsDiffer ==
    ASSUME NEW x \in Int, NEW d \in 1 .. Size - 1
    PROVE  (x + d) % Size # x % Size
<1> DEFINE r == x % Size
           q == x \div Size
<1>1. Size \in Nat \ {0}
  BY Sizes
<1>2. r \in 0 .. Size - 1 /\ q \in Int /\ x = q * Size + r
  BY <1>1, SMT
<1> HIDE DEF r, q
<1>3. CASE r + d < Size
  <2>1. x + d = q * Size + (r + d) /\ r + d \in 0 .. Size - 1
    BY <1>1, <1>2, <1>3
  <2>2. (x + d) % Size = r + d
    BY <1>1, <1>2, <2>1, ModUnique
  <2> QED
    BY <1>1, <1>2, <2>2 DEF r
<1>4. CASE ~(r + d < Size)
  <2>1. x + d = (q + 1) * Size + (r + d - Size) /\ r + d - Size \in 0 .. Size - 1
    BY <1>1, <1>2, <1>4, SMT
  <2>2. x + d \in Int /\ q + 1 \in Int
    BY <1>2
  <2>3. (x + d) % Size = r + d - Size
    BY <1>1, <2>1, <2>2, ModUnique
  <2> QED
    BY <1>1, <1>2, <2>3 DEF r
<1> QED
  BY <1>3, <1>4

(* An index moved on is that much further, unless it comes round. *)
LEMMA DistanceOn ==
    ASSUME NEW a \in Index, NEW b \in Index, NEW n \in 0 .. Size,
           Distance(a, b) + n < Wrap
    PROVE  Distance(a, Add(b, n)) = Distance(a, b) + n
<1>1. Wrap \in Nat /\ Size \in Nat /\ a \in 0 .. Wrap - 1 /\ b \in 0 .. Wrap - 1
  BY Sizes DEF Index
<1>2. Distance(a, b) = IF a <= b THEN b - a ELSE b - a + Wrap
  BY DistanceIs
<1> DEFINE c == Add(b, n)
<1>3. c = (IF b + n < Wrap THEN b + n ELSE b + n - Wrap) /\ c \in Index
  BY AddIs
<1> HIDE DEF c
<1>4. Distance(a, c) = IF a <= c THEN c - a ELSE c - a + Wrap
  BY <1>3, DistanceIs
<1> QED
  BY <1>1, <1>2, <1>3, <1>4 DEF c

(* From an index in between it is that much less far. *)
LEMMA DistanceFrom ==
    ASSUME NEW a \in Index, NEW b \in Index, NEW c \in Index,
           Distance(a, b) <= Distance(a, c)
    PROVE  Distance(b, c) = Distance(a, c) - Distance(a, b)
<1>1. /\ Wrap \in Nat /\ a \in 0 .. Wrap - 1 /\ b \in 0 .. Wrap - 1 /\ c \in 0 .. Wrap - 1
  BY Sizes DEF Index
<1>2. /\ Distance(a, b) = IF a <= b THEN b - a ELSE b - a + Wrap
      /\ Distance(a, c) = IF a <= c THEN c - a ELSE c - a + Wrap
      /\ Distance(b, c) = IF b <= c THEN c - b ELSE c - b + Wrap
  BY DistanceIs
<1> QED
  BY <1>1, <1>2

(* An index is no distance from itself, and only from itself. *)
LEMMA DistanceZero ==
    ASSUME NEW a \in Index, NEW b \in Index
    PROVE  Distance(a, b) = 0 <=> a = b
<1>1. Wrap \in Nat /\ a \in 0 .. Wrap - 1 /\ b \in 0 .. Wrap - 1
  BY Sizes DEF Index
<1>2. Distance(a, b) = IF a <= b THEN b - a ELSE b - a + Wrap
  BY DistanceIs
<1> QED
  BY <1>1, <1>2

-----------------------------------------------------------------------------
(* The inductive invariant *)

Order ==
    /\ Distance(cons_tail, cons_head) <= Distance(cons_tail, prod_tail)
    /\ Distance(cons_tail, prod_tail) <= Distance(cons_tail, prod_head)
    /\ Distance(cons_tail, prod_head) <= Size - 1

(* What a producer has read and reserved is what the ring has. *)
ProducerPlace ==
    \A p \in Producer :
        /\ ppc[p] = "idle" => prod_head = prod_tail
        /\ ppc[p] = "reserve" => head[p] = prod_head /\ prod_head = prod_tail
        /\ ppc[p] \in {"write", "publish"} =>
              head[p] = prod_tail /\ prod_head = Add(prod_tail, 1)
        /\ ppc[p] # "idle" =>
              Distance(cons_tail, prod_tail) <= Size - 2 /\ sent[p] \in 1 .. MaxSend
        /\ ppc[p] = "publish" => slots[prod_tail % Size] = <<p, sent[p]>>

(* The consumer has a burst in hand exactly inside its call. *)
ConsumerPlace ==
    /\ cpc = "idle" => cons_head = cons_tail
    /\ cpc # "idle" => Distance(cons_tail, cons_head) >= 1
    /\ cpc # "release" => batch = <<>>
    /\ cpc = "release" =>
          batch = [i \in 1 .. Distance(cons_tail, cons_head) |->
                      slots[(cons_tail + i - 1) % Size]]

RingInv == RingTypeOK /\ Order /\ ProducerPlace /\ ConsumerPlace

LEMMA RingStarts == RingInit => RingInv
<1> SUFFICES ASSUME RingInit PROVE RingInv
  OBVIOUS
<1>1. 0 \in Index /\ Size \in Nat \ {0} /\ MaxSend \in Nat \ {0}
  BY Sizes DEF Index
<1>2. Distance(0, 0) = 0
  BY <1>1, DistanceZero
<1>3. RingTypeOK
  BY <1>1, EmptySeq DEF RingInit, RingTypeOK, Empty
<1>4. Order /\ ProducerPlace /\ ConsumerPlace
  BY <1>1, <1>2 DEF RingInit, Order, ProducerPlace, ConsumerPlace
<1> QED
  BY <1>3, <1>4 DEF RingInv

(* The types of what the steps compute with. *)
LEMMA RingTypes ==
    ASSUME RingTypeOK
    PROVE  /\ prod_head \in Index /\ prod_tail \in Index
           /\ cons_head \in Index /\ cons_tail \in Index
           /\ Distance(cons_tail, cons_head) \in Nat
           /\ Distance(cons_tail, prod_tail) \in Nat
           /\ Distance(cons_tail, prod_head) \in Nat
<1>1. /\ prod_head \in Index /\ prod_tail \in Index
      /\ cons_head \in Index /\ cons_tail \in Index
  BY DEF RingTypeOK
<1>2. Index \subseteq Nat
  BY Sizes DEF Index
<1> QED
  BY <1>1, <1>2, DistanceIs

(* A run of slots is a sequence of what slots hold. *)
LEMMA RunType ==
    ASSUME slots \in [Slot -> Packet \cup {Empty}], NEW a \in Index, NEW n \in Nat
    PROVE  /\ [i \in 1 .. n |-> slots[(a + i - 1) % Size]] \in Seq(Packet \cup {Empty})
           /\ Len([i \in 1 .. n |-> slots[(a + i - 1) % Size]]) = n
<1> DEFINE run == [i \in 1 .. n |-> slots[(a + i - 1) % Size]]
<1>1. a \in Int
  BY Sizes DEF Index
<1>2. \A i \in 1 .. n : (a + i - 1) % Size \in Slot
  BY <1>1, SlotType
<1>3. run \in [1 .. n -> Packet \cup {Empty}]
  BY <1>2
<1>4. run \in Seq(Packet \cup {Empty})
  BY <1>3, SeqDef
<1>5. Len(run) = n
  BY <1>4, LenProperties
<1> QED
  BY <1>4, <1>5

(* The slot behind prod_tail is none of those between the tails. *)
LEMMA NotOverwritten ==
    ASSUME slots \in [Slot -> Packet \cup {Empty}],
           cons_tail \in Index, prod_tail \in Index,
           Distance(cons_tail, prod_tail) <= Size - 2, NEW x,
           slots' = [slots EXCEPT ![prod_tail % Size] = x]
    PROVE  \A i \in 1 .. Distance(cons_tail, prod_tail) :
               slots'[(cons_tail + i - 1) % Size] = slots[(cons_tail + i - 1) % Size]
<1> SUFFICES ASSUME NEW i \in 1 .. Distance(cons_tail, prod_tail)
             PROVE  slots'[(cons_tail + i - 1) % Size] = slots[(cons_tail + i - 1) % Size]
  OBVIOUS
<1>1. /\ Size \in Nat \ {0} /\ Wrap \in Nat /\ cons_tail \in 0 .. Wrap - 1
      /\ Distance(cons_tail, prod_tail) \in 0 .. Wrap - 1
  BY Sizes, DistanceIs DEF Index
<1> DEFINE at == cons_tail + i - 1
           d  == Distance(cons_tail, prod_tail) - (i - 1)
<1>2. at \in Int /\ d \in 1 .. Size - 1 /\ at + d = cons_tail + Distance(cons_tail, prod_tail)
  BY <1>1
<1>3. (cons_tail + Distance(cons_tail, prod_tail)) % Size = prod_tail % Size
  BY SlotAt
<1>4. at % Size \in Slot
  BY <1>2, SlotType
<1> HIDE DEF d, at
<1>5. (at + d) % Size # at % Size
  BY <1>2, SlotsDiffer
<1>6. at % Size # prod_tail % Size
  BY <1>2, <1>3, <1>5
<1>7. slots'[at % Size] = slots[at % Size]
  BY <1>4, <1>6
<1> QED
  BY <1>7 DEF at

-----------------------------------------------------------------------------
(* Each step keeps the invariant *)

(* The producer's steps; with one producer, what holds for it holds for all. *)
LEMMA ProducerKeeps ==
    ASSUME RingInv, NEW p \in Producer, Producer = {p}, ProducerStep(p)
    PROVE  RingInv'
<1>1. RingTypeOK /\ Order /\ ProducerPlace /\ ConsumerPlace
  BY DEF RingInv
<1>2. /\ prod_head \in Index /\ prod_tail \in Index /\ cons_tail \in Index
      /\ Distance(cons_tail, prod_tail) \in Nat /\ Distance(cons_tail, prod_head) \in Nat
      /\ Distance(cons_tail, cons_head) \in Nat
  BY <1>1, RingTypes
<1>3. Size \in Nat \ {0} /\ MaxSend \in Nat \ {0} /\ Size < Wrap /\ Wrap \in Nat
  BY Sizes
<1>4. CASE ReadHead(p)
  <2>1. UNCHANGED <<sharedVars, consVars>> /\ ppc[p] = "idle"
    BY <1>4 DEF ReadHead
  <2>2. Free(prod_head) = Size - 1 - Distance(cons_tail, prod_head)
    BY <1>1, <1>2, FreeIs DEF Order
  <2>3. sent[p] \in 0 .. MaxSend /\ sent[p] < MaxSend
        /\ sent' = [sent EXCEPT ![p] = @ + 1]
    BY <1>1, <1>4 DEF ReadHead, RingTypeOK
  <2>4. sent[p] + 1 \in 1 .. MaxSend
    BY <1>3, <2>3
  <2>5. <<p, sent[p] + 1>> \in Packet
    BY <2>4 DEF Packet
  <2>6. RingTypeOK'
    BY <1>1, <1>2, <1>4, <2>1, <2>3, <2>4, <2>5 DEF RingTypeOK, ReadHead, sharedVars, consVars
  <2>7. Order' /\ ConsumerPlace'
    BY <1>1, <2>1 DEF Order, ConsumerPlace, sharedVars, consVars
  <2>8. ProducerPlace'
    BY <1>1, <1>2, <1>3, <1>4, <2>1, <2>2, <2>3, <2>4
    DEF RingTypeOK, ProducerPlace, ReadHead, sharedVars
  <2> QED
    BY <2>6, <2>7, <2>8 DEF RingInv
<1>5. CASE ReserveSlot(p)
  <2>1. /\ ppc[p] = "reserve" /\ prod_head' = Add(head[p], 1)
        /\ ppc' = [ppc EXCEPT ![p] = "write"]
        /\ UNCHANGED <<slots, prod_tail, cons_head, cons_tail, head, sent, refused, consVars>>
    BY <1>5 DEF ReserveSlot
  <2>2. /\ head[p] = prod_tail /\ prod_head = prod_tail
        /\ Distance(cons_tail, prod_tail) <= Size - 2
    BY <1>1, <2>1 DEF ProducerPlace
  <2>3. prod_head' = Add(prod_tail, 1) /\ Add(prod_tail, 1) \in Index
    BY <1>2, <1>3, <2>1, <2>2, AddIs
  <2>4. Distance(cons_tail, Add(prod_tail, 1)) = Distance(cons_tail, prod_tail) + 1
    BY <1>2, <1>3, <2>2, DistanceOn
  <2>5. RingTypeOK'
    BY <1>1, <2>1, <2>3 DEF RingTypeOK, consVars
  <2>6. Order'
    BY <1>1, <1>2, <1>3, <2>1, <2>2, <2>3, <2>4 DEF Order
  <2>7. ConsumerPlace'
    BY <1>1, <2>1 DEF ConsumerPlace, consVars
  <2>8. ProducerPlace'
    BY <1>1, <2>1, <2>2, <2>3 DEF ProducerPlace, RingTypeOK
  <2> QED
    BY <2>5, <2>6, <2>7, <2>8 DEF RingInv
<1>6. CASE WriteSlot(p)
  <2>1. /\ ppc[p] = "write" /\ slots' = [slots EXCEPT ![head[p] % Size] = <<p, sent[p]>>]
        /\ ppc' = [ppc EXCEPT ![p] = "publish"]
        /\ UNCHANGED <<prod_head, prod_tail, cons_head, cons_tail, head, sent, refused,
                       consVars>>
    BY <1>6 DEF WriteSlot
  <2>2. /\ head[p] = prod_tail /\ prod_head = Add(prod_tail, 1)
        /\ Distance(cons_tail, prod_tail) <= Size - 2 /\ sent[p] \in 1 .. MaxSend
    BY <1>1, <2>1 DEF ProducerPlace
  <2>3. prod_tail % Size \in Slot
    BY <1>2, <1>3, SlotType DEF Index
  <2>4. <<p, sent[p]>> \in Packet
    BY <2>2 DEF Packet
  <2>5. RingTypeOK'
    BY <1>1, <2>1, <2>2, <2>3, <2>4 DEF RingTypeOK, consVars
  <2>6. Order'
    BY <1>1, <2>1 DEF Order
  <2>7. ProducerPlace'
    BY <1>1, <2>1, <2>2, <2>3 DEF ProducerPlace, RingTypeOK
  <2>8. \A i \in 1 .. Distance(cons_tail, prod_tail) :
            slots'[(cons_tail + i - 1) % Size] = slots[(cons_tail + i - 1) % Size]
    BY <1>1, <1>2, <2>1, <2>2, NotOverwritten DEF RingTypeOK
  <2>9. ConsumerPlace'
    <3>1. UNCHANGED <<cpc, batch, cons_head, cons_tail>>
      BY <2>1 DEF consVars
    <3>2. CASE cpc # "release"
      BY <1>1, <3>1, <3>2 DEF ConsumerPlace
    <3>3. CASE cpc = "release"
      <4>1. \A i \in 1 .. Distance(cons_tail, cons_head) :
                i \in 1 .. Distance(cons_tail, prod_tail)
        BY <1>1, <1>2 DEF Order
      <4>2. batch = [i \in 1 .. Distance(cons_tail, cons_head) |->
                        slots'[(cons_tail + i - 1) % Size]]
        BY <1>1, <2>8, <3>3, <4>1 DEF ConsumerPlace
      <4> QED
        BY <1>1, <3>1, <3>3, <4>2 DEF ConsumerPlace
    <3> QED
      BY <3>2, <3>3
  <2> QED
    BY <2>5, <2>6, <2>7, <2>9 DEF RingInv
<1>7. CASE PublishTail(p)
  <2>1. /\ ppc[p] = "publish" /\ prod_tail' = Add(head[p], 1)
        /\ ppc' = [ppc EXCEPT ![p] = "idle"]
        /\ UNCHANGED <<slots, prod_head, cons_head, cons_tail, head, sent, refused, consVars>>
    BY <1>7 DEF PublishTail
  <2>2. prod_tail' = prod_head
    BY <1>1, <2>1 DEF ProducerPlace
  <2>3. RingTypeOK'
    BY <1>1, <1>2, <2>1, <2>2 DEF RingTypeOK, consVars
  <2>4. Order'
    BY <1>1, <1>2, <2>1, <2>2 DEF Order
  <2>5. ConsumerPlace'
    BY <1>1, <2>1 DEF ConsumerPlace, consVars
  <2>6. ProducerPlace'
    BY <1>1, <2>1, <2>2 DEF ProducerPlace, RingTypeOK
  <2> QED
    BY <2>3, <2>4, <2>5, <2>6 DEF RingInv
<1> QED
  BY <1>4, <1>5, <1>6, <1>7 DEF ProducerStep

(* The consumer's steps, with the producer wherever it is. *)
LEMMA ConsumerKeeps ==
    ASSUME RingInv, ConsumerStep
    PROVE  RingInv'
<1>1. RingTypeOK /\ Order /\ ProducerPlace /\ ConsumerPlace
  BY DEF RingInv
<1>2. /\ prod_head \in Index /\ prod_tail \in Index
      /\ cons_tail \in Index /\ cons_head \in Index
      /\ Distance(cons_tail, prod_tail) \in Nat /\ Distance(cons_tail, prod_head) \in Nat
      /\ Distance(cons_tail, cons_head) \in Nat
  BY <1>1, RingTypes
<1>3. Size \in Nat \ {0} /\ Num \in Nat \ {0} /\ Size < Wrap /\ Wrap \in Nat
  BY Sizes
<1>4. CASE ReserveBurst
  <2> DEFINE entries == Distance(cons_head, prod_tail)
             n       == IF entries < Num THEN entries ELSE Num
  <2>1. /\ cpc = "idle" /\ n > 0 /\ cons_head' = Add(cons_head, n) /\ cpc' = "copy"
        /\ UNCHANGED <<slots, prod_head, prod_tail, cons_tail, prodVars, batch, taken>>
    BY <1>4 DEF ReserveBurst
  <2>2. cons_head = cons_tail /\ batch = <<>>
    BY <1>1, <2>1 DEF ConsumerPlace
  <2>3. entries = Distance(cons_tail, prod_tail)
    BY <2>2
  <2> HIDE DEF entries
  <2>4. n \in 1 .. Distance(cons_tail, prod_tail) /\ n \in 0 .. Size
    BY <1>1, <1>2, <1>3, <2>1, <2>3 DEF Order
  <2> HIDE DEF n
  <2>5. Distance(cons_tail, cons_head) = 0
    BY <1>2, <2>2, DistanceZero
  <2>6. cons_head' \in Index
    BY <1>2, <2>1, <2>4, AddIs
  <2>7. Distance(cons_tail, Add(cons_head, n)) = n
    BY <1>1, <1>2, <1>3, <2>4, <2>5, DistanceOn DEF Order
  <2>8. RingTypeOK'
    BY <1>1, <2>1, <2>6 DEF RingTypeOK, prodVars
  <2>9. Order'
    BY <1>1, <1>2, <2>1, <2>4, <2>7 DEF Order
  <2>10. ProducerPlace'
    BY <1>1, <2>1 DEF ProducerPlace, prodVars
  <2>11. ConsumerPlace'
    BY <2>1, <2>2, <2>4, <2>7 DEF ConsumerPlace
  <2> QED
    BY <2>8, <2>9, <2>10, <2>11 DEF RingInv
<1>5. CASE CopyBurst
  <2>1. /\ cpc = "copy" /\ cpc' = "release"
        /\ batch' = [i \in 1 .. Distance(cons_tail, cons_head) |->
                        slots[(cons_tail + i - 1) % Size]]
        /\ UNCHANGED <<sharedVars, prodVars, taken>>
    BY <1>5 DEF CopyBurst
  <2>2. batch' \in Seq(Packet \cup {Empty})
    BY <1>1, <1>2, <2>1, RunType DEF RingTypeOK
  <2>3. RingTypeOK'
    BY <1>1, <2>1, <2>2 DEF RingTypeOK, sharedVars, prodVars
  <2>4. Order' /\ ProducerPlace'
    BY <1>1, <2>1 DEF Order, ProducerPlace, sharedVars, prodVars
  <2>5. ConsumerPlace'
    BY <1>1, <2>1 DEF ConsumerPlace, sharedVars
  <2> QED
    BY <2>3, <2>4, <2>5 DEF RingInv
<1>6. CASE ReleaseSlots
  <2>1. /\ cpc = "release" /\ cons_tail' = cons_head /\ taken' = taken \o batch
        /\ batch' = <<>> /\ cpc' = "idle"
        /\ UNCHANGED <<slots, prod_head, prod_tail, cons_head, prodVars>>
    BY <1>6 DEF ReleaseSlots
  <2>2. /\ Distance(cons_head, prod_tail)
             = Distance(cons_tail, prod_tail) - Distance(cons_tail, cons_head)
        /\ Distance(cons_head, prod_head)
             = Distance(cons_tail, prod_head) - Distance(cons_tail, cons_head)
    BY <1>1, <1>2, DistanceFrom DEF Order
  <2>3. Distance(cons_head, cons_head) = 0
    BY <1>2, DistanceZero
  <2>4. taken \o batch \in Seq(Packet \cup {Empty})
    BY <1>1, ConcatProperties DEF RingTypeOK
  <2>5. RingTypeOK'
    BY <1>1, <1>2, <2>1, <2>4, EmptySeq DEF RingTypeOK, prodVars
  <2>6. Order'
    BY <1>1, <1>2, <1>3, <2>1, <2>2, <2>3 DEF Order
  <2>7. ProducerPlace'
    BY <1>1, <1>2, <1>3, <2>1, <2>2 DEF ProducerPlace, prodVars
  <2>8. ConsumerPlace'
    BY <2>1 DEF ConsumerPlace
  <2> QED
    BY <2>5, <2>6, <2>7, <2>8 DEF RingInv
<1> QED
  BY <1>4, <1>5, <1>6 DEF ConsumerStep

LEMMA RingStep ==
    ASSUME NEW p, Producer = {p}
    PROVE  RingInv /\ [RingNext]_ringVars => RingInv'
<1> SUFFICES ASSUME RingInv, [RingNext]_ringVars PROVE RingInv'
  OBVIOUS
<1>1. CASE UNCHANGED ringVars
  BY <1>1 DEF RingInv, RingTypeOK, Order, ProducerPlace, ConsumerPlace, ringVars, sharedVars, prodVars,
              consVars
<1> QED
  BY <1>1, ProducerKeeps, ConsumerKeeps DEF RingNext, PollEmpty

(***************************************************************************)
(* With one receive lcore, as in thread mode 1, the indices of a ring keep *)
(* their order across any wrap, and every variable keeps its type.         *)
(***************************************************************************)
THEOREM IndicesInOrder ==
    ASSUME NEW lcore, Producer = {lcore}
    PROVE  RingSpec => []IndexOrder
<1>1. RingInit => RingInv
  BY RingStarts
<1>2. RingInv /\ [RingNext]_ringVars => RingInv'
  BY RingStep
<1>3. RingInv => IndexOrder
  BY DEF RingInv, Order, IndexOrder
<1> QED
  BY <1>1, <1>2, <1>3, PTL DEF RingSpec

-----------------------------------------------------------------------------
(* The ring implements the queue *)

(* What waits between the tails, as a sequence. *)
LEMMA QueuedType ==
    ASSUME RingTypeOK
    PROVE  /\ Queued \in Seq(Packet \cup {Empty})
           /\ Len(Queued) = Distance(cons_tail, prod_tail)
           /\ \A i \in 1 .. Distance(cons_tail, prod_tail) :
                 Queued[i] = slots[(cons_tail + i - 1) % Size]
<1>1. cons_tail \in Index /\ Distance(cons_tail, prod_tail) \in Nat
  BY RingTypes
<1>2. slots \in [Slot -> Packet \cup {Empty}]
  BY DEF RingTypeOK
<1> QED
  BY <1>1, <1>2, RunType DEF Queued

(* A step that leaves the tails and what is between them. *)
LEMMA NothingQueued ==
    ASSUME RingTypeOK, UNCHANGED <<prod_tail, cons_tail, taken>>,
           \A i \in 1 .. Distance(cons_tail, prod_tail) :
               slots'[(cons_tail + i - 1) % Size] = slots[(cons_tail + i - 1) % Size]
    PROVE  UNCHANGED <<Queued, taken>>
BY DEF Queued

(* The store of prod_tail puts the producer's packet in the queue. *)
LEMMA PublishPuts ==
    ASSUME RingInv, RingInv', NEW p \in Producer, PublishTail(p)
    PROVE  Fifo!Put(<<p, sent[p]>>) /\ <<p, sent[p]>> \in Packet
<1> DEFINE n == Distance(cons_tail, prod_tail)
           x == <<p, sent[p]>>
<1>1. /\ prod_tail \in Index /\ cons_tail \in Index /\ n \in Nat
      /\ Size \in Nat \ {0} /\ Size < Wrap /\ Wrap \in Nat
  BY RingTypes, Sizes DEF RingInv
<1>2. /\ ppc[p] = "publish" /\ prod_tail' = Add(head[p], 1) /\ head[p] = prod_tail
      /\ UNCHANGED <<slots, cons_tail, taken>>
      /\ n <= Size - 2 /\ sent[p] \in 1 .. MaxSend /\ slots[prod_tail % Size] = x
  BY DEF PublishTail, RingInv, ProducerPlace, consVars
<1>3. x \in Packet
  BY <1>2 DEF Packet
<1>4. Distance(cons_tail, prod_tail') = n + 1
  BY <1>1, <1>2, DistanceOn
<1>5. /\ Queued \in Seq(Packet \cup {Empty}) /\ Len(Queued) = n
      /\ \A i \in 1 .. n : Queued[i] = slots[(cons_tail + i - 1) % Size]
  BY QueuedType DEF RingInv
<1>6. /\ Queued' \in Seq(Packet \cup {Empty}) /\ Len(Queued') = n + 1
      /\ \A i \in 1 .. n + 1 : Queued'[i] = slots[(cons_tail + i - 1) % Size]
  <2>1. Queued' = [i \in 1 .. n + 1 |-> slots[(cons_tail + i - 1) % Size]]
    BY <1>2, <1>4 DEF Queued
  <2>2. slots \in [Slot -> Packet \cup {Empty}]
    BY DEF RingInv, RingTypeOK
  <2>3. n + 1 \in Nat
    BY <1>1
  <2> HIDE DEF n
  <2> QED
    BY <1>1, <2>1, <2>2, <2>3, RunType
<1>7. (cons_tail + n) % Size = prod_tail % Size
  BY <1>1, SlotAt
<1>8. cons_tail + (n + 1) - 1 = cons_tail + n
  BY <1>1 DEF Index
<1>9. Queued'[n + 1] = x
  BY <1>1, <1>2, <1>6, <1>7, <1>8
<1>10. /\ Append(Queued, x) \in Seq(Packet \cup {Empty}) /\ Len(Append(Queued, x)) = n + 1
       /\ \A i \in 1 .. n : Append(Queued, x)[i] = Queued[i]
       /\ Append(Queued, x)[n + 1] = x
  BY <1>3, <1>5, AppendProperties
<1> HIDE DEF n, x
<1>11. \A i \in 1 .. n + 1 : Queued'[i] = Append(Queued, x)[i]
  BY <1>1, <1>5, <1>6, <1>9, <1>10
<1>12. Queued' = Append(Queued, x)
  BY <1>1, <1>6, <1>10, <1>11, SeqEqual
<1>13. Len(Queued) < Size - 1
  BY <1>1, <1>2, <1>5
<1> QED
  BY <1>2, <1>3, <1>12, <1>13 DEF Fifo!Put, x

(* The store of cons_tail takes the consumer's burst out of it. *)
LEMMA ReleaseTakes ==
    ASSUME RingInv, RingInv', ReleaseSlots
    PROVE  \E n \in 1 .. Len(Queued) : Fifo!Take(n)
<1> DEFINE n == Distance(cons_tail, cons_head)
           m == Distance(cons_tail, prod_tail)
           rest == SubSeq(Queued, n + 1, Len(Queued))
           first == SubSeq(Queued, 1, n)
<1>1. /\ prod_tail \in Index /\ cons_tail \in Index /\ cons_head \in Index
      /\ n \in Nat /\ m \in Nat
      /\ Size \in Nat \ {0} /\ Wrap \in Nat
  BY RingTypes, Sizes DEF RingInv
<1>2. /\ cpc = "release" /\ cons_tail' = cons_head /\ taken' = taken \o batch
      /\ UNCHANGED <<slots, prod_tail>>
      /\ n >= 1 /\ n <= m
      /\ batch = [i \in 1 .. n |-> slots[(cons_tail + i - 1) % Size]]
      /\ slots \in [Slot -> Packet \cup {Empty}]
  BY DEF ReleaseSlots, RingInv, ConsumerPlace, Order, RingTypeOK
<1>3. Distance(cons_head, prod_tail) = m - n
  BY <1>1, <1>2, DistanceFrom
<1>4. /\ Queued \in Seq(Packet \cup {Empty}) /\ Len(Queued) = m
      /\ \A i \in 1 .. m : Queued[i] = slots[(cons_tail + i - 1) % Size]
  BY QueuedType DEF RingInv
<1>5. /\ Queued' \in Seq(Packet \cup {Empty}) /\ Len(Queued') = m - n
      /\ \A i \in 1 .. m - n : Queued'[i] = slots[(cons_head + i - 1) % Size]
  <2>1. Queued' = [i \in 1 .. m - n |-> slots[(cons_head + i - 1) % Size]]
    BY <1>2, <1>3 DEF Queued
  <2>2. m - n \in Nat
    BY <1>1, <1>2
  <2> HIDE DEF m, n
  <2> QED
    BY <1>1, <1>2, <2>1, <2>2, RunType
<1>6. \A i \in 1 .. m : Queued[i] \in Packet \cup {Empty}
  BY <1>4, ElementOfSeq
<1>7. batch \in Seq(Packet \cup {Empty}) /\ Len(batch) = n
  BY <1>1, <1>2, RunType
<1> HIDE DEF n, m
<1>8. /\ first \in Seq(Packet \cup {Empty}) /\ Len(first) = n
      /\ \A i \in 1 .. n : first[i] = Queued[i]
  BY <1>1, <1>2, <1>6, SubSeqProperties
<1>9. batch = first
  <2>1. \A i \in 1 .. n : batch[i] = first[i]
    BY <1>1, <1>2, <1>4, <1>8
  <2> HIDE DEF first
  <2> QED
    BY <1>7, <1>8, <2>1, SeqEqual
<1>10. /\ rest \in Seq(Packet \cup {Empty}) /\ Len(rest) = m - n
       /\ \A i \in 1 .. m - n : rest[i] = Queued[n + i]
  <2>1. \A i \in n + 1 .. m : Queued[i] \in Packet \cup {Empty}
    BY <1>1, <1>2, <1>6
  <2>2. n + 1 \in Int /\ m \in Int /\ Len(Queued) = m
    BY <1>1, <1>4
  <2>3. /\ rest \in Seq(Packet \cup {Empty})
        /\ Len(rest) = IF n + 1 <= m THEN m - (n + 1) + 1 ELSE 0
        /\ \A i \in 1 .. m - (n + 1) + 1 : rest[i] = Queued[n + 1 + i - 1]
    BY <2>1, <2>2, SubSeqProperties
  <2> HIDE DEF rest
  <2> QED
    BY <1>1, <1>2, <2>3
<1>11. ASSUME NEW i \in 1 .. m - n
       PROVE  Queued'[i] = rest[i]
  <2>1. n + i \in 1 .. m
    BY <1>1, <1>2
  <2>2. (cons_head + (i - 1)) % Size = (cons_tail + n + (i - 1)) % Size
    BY <1>1, SlotOn DEF n
  <2>3. cons_head + (i - 1) = cons_head + i - 1
        /\ cons_tail + n + (i - 1) = cons_tail + (n + i) - 1
    BY <1>1 DEF Index
  <2>4. Queued'[i] = slots[(cons_head + i - 1) % Size]
    BY <1>5
  <2>5. Queued[n + i] = slots[(cons_tail + (n + i) - 1) % Size]
    BY <1>4, <2>1
  <2>6. rest[i] = Queued[n + i]
    BY <1>10
  <2> HIDE DEF rest
  <2> QED
    BY <2>2, <2>3, <2>4, <2>5, <2>6
<1>12. Queued' = rest
  <2> HIDE DEF rest
  <2> QED
    BY <1>5, <1>10, <1>11, SeqEqual
<1>13. n \in 1 .. Len(Queued)
  BY <1>1, <1>2, <1>4
<1>14. Fifo!Take(n)
  BY <1>2, <1>9, <1>12 DEF Fifo!Take
<1> QED
  BY <1>13, <1>14

LEMMA StepImplements ==
    ASSUME NEW p, Producer = {p}, RingInv, RingInv', [RingNext]_ringVars
    PROVE  [Fifo!Next]_<<Queued, taken>>
<1>0. RingTypeOK
  BY DEF RingInv
<1>1. CASE PublishTail(p)
  BY <1>1, PublishPuts DEF Fifo!Next
<1>2. CASE ReleaseSlots
  BY <1>2, ReleaseTakes DEF Fifo!Next
<1>3. CASE WriteSlot(p)
  <2>1. /\ slots' = [slots EXCEPT ![prod_tail % Size] = <<p, sent[p]>>]
        /\ Distance(cons_tail, prod_tail) <= Size - 2
        /\ UNCHANGED <<prod_tail, cons_tail, taken>>
    BY <1>3 DEF WriteSlot, RingInv, ProducerPlace, consVars
  <2>2. prod_tail \in Index /\ cons_tail \in Index /\ slots \in [Slot -> Packet \cup {Empty}]
    BY <1>0, RingTypes DEF RingTypeOK
  <2> QED
    BY <1>0, <2>1, <2>2, NotOverwritten, NothingQueued
<1>4. CASE ReadHead(p) \/ ReserveSlot(p) \/ ReserveBurst \/ CopyBurst \/ PollEmpty
             \/ UNCHANGED ringVars
  <2>1. UNCHANGED <<slots, prod_tail, cons_tail, taken>>
    BY <1>4 DEF ReadHead, ReserveSlot, ReserveBurst, CopyBurst, PollEmpty, ringVars, sharedVars,
                consVars
  <2> QED
    BY <1>0, <2>1, NothingQueued
<1> QED
  BY <1>1, <1>2, <1>3, <1>4 DEF RingNext, ProducerStep, ConsumerStep

(***************************************************************************)
(* With one receive lcore a ring is the bounded queue that slaveCoreRx and *)
(* dpdk_masterRx take it for: packets come out once each, in the order in  *)
(* which they went in, and nothing else does.                              *)
(***************************************************************************)
THEOREM RingIsQueue ==
    ASSUME NEW lcore, Producer = {lcore}
    PROVE  RingSpec => ImplementsQueue
<1>1. RingInit => RingInv
  BY RingStarts
<1>2. RingInv /\ [RingNext]_ringVars => RingInv'
  BY RingStep
<1>3. RingInit => Fifo!Init
  <2> SUFFICES ASSUME RingInit PROVE Fifo!Init
    OBVIOUS
  <2>1. RingTypeOK
    BY <1>1 DEF RingInv
  <2>2. cons_tail = 0 /\ prod_tail = 0 /\ taken = <<>> /\ 0 \in Index
    BY Sizes DEF RingInit, Index
  <2>3. Queued \in Seq(Packet \cup {Empty}) /\ Len(Queued) = 0
    BY <2>1, <2>2, QueuedType, DistanceZero
  <2>4. Queued = <<>>
    BY <2>3, EmptySeq
  <2> QED
    BY <2>2, <2>4 DEF Fifo!Init
<1>4. RingInv /\ RingInv' /\ [RingNext]_ringVars => [Fifo!Next]_<<Queued, taken>>
  BY StepImplements
<1> QED
  BY <1>1, <1>2, <1>3, <1>4, PTL DEF RingSpec, ImplementsQueue, Fifo!Spec
=============================================================================
