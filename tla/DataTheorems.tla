---------------------------- MODULE DataTheorems ----------------------------
(***************************************************************************)
(* Facts about the data of the models that several proofs rest on:         *)
(* division, ranks in a set of numbers, what the operations on queues do   *)
(* to the set of their elements, and the sum of the values of a function   *)
(* over a finite set, the fold that the models use for totals.             *)
(***************************************************************************)
EXTENDS Integers, Sequences, FiniteSets, Functions, FiniteSetTheorems, FunctionTheorems,
        SequenceTheorems, TLAPS

-----------------------------------------------------------------------------
(* Division *)

(* What the quotient and the remainder are. *)
LEMMA Division ==
    ASSUME NEW a \in Nat, NEW b \in Nat \ {0}
    PROVE  a \div b \in Nat /\ a % b \in 0 .. b - 1 /\ a = b * (a \div b) + (a % b)
BY SMT

LEMMA Products ==
    ASSUME NEW a \in Nat, NEW b \in Nat, NEW c \in Nat
    PROVE  /\ a * c \in Nat
           /\ a < b => a * c + c <= b * c
           /\ (a + b) * c = a * c + b * c
           /\ a * (c + 1) = a * c + a
<1>1. a * c \in Nat /\ b * c \in Nat
  BY SMT
<1>2. (a + b) * c = a * c + b * c /\ a * (c + 1) = a * c + a
  BY SMT
<1>3. ASSUME a < b PROVE a * c + c <= b * c
  <2>1. PICK d \in Nat : b = (a + 1) + d
    <3>1. b - (a + 1) \in Nat /\ b = (a + 1) + (b - (a + 1))
      BY <1>3, SMT
    <3> QED
      BY <3>1
  <2>2. b * c = (a + 1) * c + d * c /\ (a + 1) * c = a * c + c /\ d * c \in Nat
    BY <2>1, SMT
  <2> QED
    BY <1>1, <2>2, SMT
<1> QED
  BY <1>1, <1>2, <1>3

(* The quotient of what is less than c shares of b is less than c. *)
LEMMA Quotient ==
    ASSUME NEW a \in Nat, NEW b \in Nat \ {0}, NEW c \in Nat, a < c * b
    PROVE  a \div b \in 0 .. c - 1
<1> DEFINE q == a \div b
<1>1. q \in Nat /\ a % b \in 0 .. b - 1 /\ a = b * q + (a % b)
  BY Division
<1> HIDE DEF q
<1>2. b * q = q * b /\ q * b \in Nat /\ c * b \in Nat
  BY <1>1, SMT
<1>3. ASSUME c <= q PROVE FALSE
  <2>1. CASE c = q
    BY <1>1, <1>2, <2>1, SMT
  <2>2. CASE c < q
    <3>1. c * b + b <= q * b
      BY <1>1, <2>2, Products
    <3> QED
      BY <1>1, <1>2, <3>1, SMT
  <2> QED
    BY <1>1, <1>3, <2>1, <2>2, SMT
<1> QED
  BY <1>1, <1>3, SMT DEF q

(* The next position, around *)
LEMMA ModNext ==
    ASSUME NEW n \in Nat, NEW i \in 0 .. n - 1
    PROVE  (i + 1) % n = IF i + 1 < n THEN i + 1 ELSE 0
<1>1. CASE i + 1 < n
  BY <1>1, SMT
<1>2. CASE i + 1 = n
  BY <1>2, SMT
<1> QED
  BY <1>1, <1>2

-----------------------------------------------------------------------------
(* The ranks of the numbers of a finite set *)

LEMMA SizeIs ==
    ASSUME NEW n \in Nat
    PROVE  Cardinality(0 .. n - 1) = n /\ IsFiniteSet(0 .. n - 1)
<1>1. n - 1 \in Int /\ 0 \in Int
  OBVIOUS
<1>2. IsFiniteSet(0 .. n - 1) /\ Cardinality(0 .. n - 1) = IF 0 > n - 1 THEN 0 ELSE (n - 1) - 0 + 1
  BY <1>1, FS_Interval
<1> QED
  BY <1>2

(* In a finite set of numbers each rank up to its size is some number's. *)
Rank(K, i) == Cardinality({j \in K : j < i})

LEMMA Ranks ==
    ASSUME NEW K, IsFiniteSet(K), K \subseteq Int
    PROVE  /\ \A i \in K : Rank(K, i) \in 0 .. Cardinality(K) - 1
           /\ \A k \in 0 .. Cardinality(K) - 1 : \E i \in K : Rank(K, i) = k
           /\ \A i, j \in K : Rank(K, i) = Rank(K, j) => i = j
<1> DEFINE f == [i \in K |-> Rank(K, i)]
           n == Cardinality(K)
<1>1. IsFiniteSet(K) /\ n \in Nat /\ K \subseteq Int
  BY FS_CardinalityType
<1>2. ASSUME NEW i \in K PROVE Rank(K, i) \in 0 .. n - 1
  <2> DEFINE L == {j \in K : j < i}
  <2>1. L \in SUBSET K /\ i \notin L
    BY <1>1
  <2> HIDE DEF L
  <2>2. IsFiniteSet(L) /\ Cardinality(L) <= n /\ (n = Cardinality(L) => K = L)
    BY <1>1, <2>1, FS_Subset
  <2>3. Cardinality(L) \in Nat
    BY <2>2, FS_CardinalityType
  <2> QED
    BY <1>1, <2>1, <2>2, <2>3 DEF Rank, L
<1>3. ASSUME NEW i \in K, NEW j \in K, i < j PROVE Rank(K, i) # Rank(K, j)
  <2> DEFINE L == {m \in K : m < i}
             M == {m \in K : m < j}
  <2>1. i \in Int /\ j \in Int /\ \A m \in K : m \in Int /\ (m < i => m < j)
    BY <1>1, <1>3
  <2>2. L \in SUBSET M /\ i \in M /\ i \notin L /\ M \in SUBSET K
    <3>1. L \subseteq M
      BY <2>1
    <3>2. i \in M
      BY <1>3
    <3>3. i \notin L
      BY <2>1
    <3> QED
      BY <3>1, <3>2, <3>3
  <2> HIDE DEF L, M
  <2>3. IsFiniteSet(M)
    BY <1>1, <2>2, FS_Subset
  <2>4. Cardinality(M) = Cardinality(L) => M = L
    BY <2>2, <2>3, FS_Subset
  <2> QED
    BY <2>2, <2>4 DEF Rank, L, M
<1>8. \A i, j \in K : Rank(K, i) = Rank(K, j) => i = j
  <2>1. TAKE i \in K, j \in K
  <2>2. i < j \/ j < i \/ i = j
    BY <1>1
  <2> QED
    BY <1>3, <2>2
<1>4. f \in Injection(K, 0 .. n - 1)
  <2>1. f \in [K -> 0 .. n - 1]
    BY <1>2
  <2>2. \A i, j \in K : f[i] = f[j] => i = j
    BY <1>8
  <2> HIDE DEF f
  <2> QED
    BY <2>1, <2>2, Fun_IsInj
<1>5. IsFiniteSet(0 .. n - 1) /\ Cardinality(0 .. n - 1) = n
  BY <1>1, SizeIs
<1> HIDE DEF n
<1>6. f \in Surjection(K, 0 .. n - 1)
  <2>1. Cardinality(K) = Cardinality(0 .. n - 1)
    BY <1>5 DEF n
  <2> HIDE DEF f
  <2> QED
    BY <1>4, <1>5, <2>1, FS_Injection
<1>7. \A k \in 0 .. n - 1 : \E i \in K : f[i] = k
  BY <1>6, Fun_SurjectionProperties DEF Surjection
<1> QED
  BY <1>2, <1>7, <1>8 DEF n

-----------------------------------------------------------------------------
(* Queues: the elements of a sequence *)

LEMMA RangeEmpty == Range(<<>>) = {}
BY DEF Range

LEMMA RangeIs ==
    ASSUME NEW S, NEW s \in Seq(S)
    PROVE  /\ Range(s) = {s[i] : i \in 1 .. Len(s)}
           /\ \A i \in 1 .. Len(s) : s[i] \in Range(s)
           /\ Range(s) \subseteq S
BY LenProperties, ElementOfSeq DEF Range

(* Putting an element in *)
LEMMA RangeAppend ==
    ASSUME NEW S, NEW s \in Seq(S), NEW e \in S
    PROVE  Range(Append(s, e)) = Range(s) \cup {e}
<1> DEFINE t == Append(s, e)
<1>1. /\ t \in Seq(S) /\ Len(t) = Len(s) + 1 /\ Len(s) \in Nat
      /\ \A i \in 1 .. Len(s) : t[i] = s[i]
      /\ t[Len(s) + 1] = e
  BY AppendProperties, LenProperties
<1> HIDE DEF t
<1>2. Range(t) = {t[i] : i \in 1 .. Len(t)} /\ Range(s) = {s[i] : i \in 1 .. Len(s)}
  BY <1>1, RangeIs
<1>3. ASSUME NEW x \in Range(t) PROVE x \in Range(s) \cup {e}
  <2>1. PICK i \in 1 .. Len(s) + 1 : x = t[i]
    BY <1>1, <1>2
  <2>2. i = Len(s) + 1 \/ i \in 1 .. Len(s)
    BY <1>1
  <2> QED
    BY <1>1, <1>2, <2>1, <2>2
<1>4. ASSUME NEW x \in Range(s) \cup {e} PROVE x \in Range(t)
  <2>1. CASE x = e
    <3>1. Len(s) + 1 \in 1 .. Len(t)
      BY <1>1
    <3> QED
      BY <1>1, <1>2, <2>1, <3>1
  <2>2. CASE x \in Range(s)
    <3>1. PICK i \in 1 .. Len(s) : x = s[i]
      BY <1>2, <2>2
    <3>2. i \in 1 .. Len(t)
      BY <1>1
    <3> QED
      BY <1>1, <1>2, <3>1, <3>2
  <2> QED
    BY <2>1, <2>2
<1> QED
  BY <1>3, <1>4 DEF t

(* Taking the first element off *)
LEMMA RangeHeadTail ==
    ASSUME NEW S, NEW s \in Seq(S), s # <<>>
    PROVE  Range(s) = {Head(s)} \cup Range(Tail(s))
<1> DEFINE t == Tail(s)
<1>1. /\ t \in Seq(S) /\ Len(t) = Len(s) - 1 /\ Len(s) \in Nat \ {0}
      /\ \A i \in 1 .. Len(t) : t[i] = s[i + 1]
      /\ Head(s) = s[1]
  BY HeadTailProperties, EmptySeq
<1> HIDE DEF t
<1>2. Range(t) = {t[i] : i \in 1 .. Len(t)} /\ Range(s) = {s[i] : i \in 1 .. Len(s)}
  BY <1>1, RangeIs
<1>3. ASSUME NEW x \in Range(s) PROVE x \in {Head(s)} \cup Range(t)
  <2>1. PICK i \in 1 .. Len(s) : x = s[i]
    BY <1>2
  <2>2. CASE i = 1
    BY <1>1, <2>1, <2>2
  <2>3. CASE i # 1
    <3>1. i - 1 \in 1 .. Len(t) /\ (i - 1) + 1 = i
      BY <1>1, <2>3
    <3>2. t[i - 1] = s[i]
      BY <1>1, <3>1
    <3> QED
      BY <1>2, <2>1, <3>1, <3>2
  <2> QED
    BY <2>2, <2>3
<1>4. ASSUME NEW x \in {Head(s)} \cup Range(t) PROVE x \in Range(s)
  <2>1. CASE x = Head(s)
    <3>1. 1 \in 1 .. Len(s)
      BY <1>1
    <3> QED
      BY <1>1, <1>2, <2>1, <3>1
  <2>2. CASE x \in Range(t)
    <3>1. PICK i \in 1 .. Len(t) : x = t[i]
      BY <1>2, <2>2
    <3>2. i + 1 \in 1 .. Len(s)
      BY <1>1
    <3> QED
      BY <1>1, <1>2, <3>1, <3>2
  <2> QED
    BY <2>1, <2>2
<1> QED
  BY <1>3, <1>4 DEF t

(* Cutting a queue in two *)
LEMMA CutIs ==
    ASSUME NEW S, NEW s \in Seq(S), NEW n \in 0 .. Len(s)
    PROVE  LET t == SubSeq(s, 1, n)
               u == SubSeq(s, n + 1, Len(s))
           IN  /\ t \in Seq(S) /\ Len(t) = n /\ \A i \in 1 .. n : t[i] = s[i]
               /\ u \in Seq(S) /\ Len(u) = Len(s) - n
               /\ \A i \in 1 .. Len(s) - n : u[i] = s[n + i]
<1> DEFINE t == SubSeq(s, 1, n)
           u == SubSeq(s, n + 1, Len(s))
<1>1. Len(s) \in Nat /\ \A i \in 1 .. Len(s) : s[i] \in S
  BY LenProperties, ElementOfSeq
<1>2. /\ t \in Seq(S) /\ Len(t) = IF 1 <= n THEN n - 1 + 1 ELSE 0
      /\ \A i \in 1 .. n - 1 + 1 : t[i] = s[1 + i - 1]
  BY <1>1, SubSeqProperties
<1>3. /\ u \in Seq(S) /\ Len(u) = IF n + 1 <= Len(s) THEN Len(s) - (n + 1) + 1 ELSE 0
      /\ \A i \in 1 .. Len(s) - (n + 1) + 1 : u[i] = s[n + 1 + i - 1]
  <2>1. n + 1 \in Int /\ Len(s) \in Int /\ \A i \in n + 1 .. Len(s) : s[i] \in S
    BY <1>1
  <2> QED
    BY <2>1, SubSeqProperties
<1> HIDE DEF t, u
<1>4. Len(t) = n /\ \A i \in 1 .. n : t[i] = s[i]
  BY <1>1, <1>2
<1>5. Len(u) = Len(s) - n /\ \A i \in 1 .. Len(s) - n : u[i] = s[n + i]
  BY <1>1, <1>3
<1> QED
  BY <1>2, <1>3, <1>4, <1>5 DEF t, u

LEMMA RangeCut ==
    ASSUME NEW S, NEW s \in Seq(S), NEW n \in 0 .. Len(s)
    PROVE  Range(s) = Range(SubSeq(s, 1, n)) \cup Range(SubSeq(s, n + 1, Len(s)))
<1> DEFINE t == SubSeq(s, 1, n)
           u == SubSeq(s, n + 1, Len(s))
<1>1. /\ t \in Seq(S) /\ Len(t) = n /\ \A i \in 1 .. n : t[i] = s[i]
      /\ u \in Seq(S) /\ Len(u) = Len(s) - n
      /\ \A i \in 1 .. Len(s) - n : u[i] = s[n + i]
      /\ Len(s) \in Nat
  BY CutIs, LenProperties
<1> HIDE DEF t, u
<1>2. /\ Range(t) = {t[i] : i \in 1 .. n} /\ Range(s) = {s[i] : i \in 1 .. Len(s)}
      /\ Range(u) = {u[i] : i \in 1 .. Len(s) - n}
  BY <1>1, RangeIs
<1>3. ASSUME NEW x \in Range(s) PROVE x \in Range(t) \cup Range(u)
  <2>1. PICK i \in 1 .. Len(s) : x = s[i]
    BY <1>2
  <2>2. CASE i <= n
    <3>1. i \in 1 .. n
      BY <2>2
    <3> QED
      BY <1>1, <1>2, <2>1, <3>1
  <2>3. CASE i > n
    <3>1. i - n \in 1 .. Len(s) - n /\ n + (i - n) = i
      BY <1>1, <2>3
    <3>2. u[i - n] = s[i]
      BY <1>1, <3>1
    <3> QED
      BY <1>2, <2>1, <3>1, <3>2
  <2> QED
    BY <1>1, <2>2, <2>3
<1>4. Range(t) \subseteq Range(s)
  <2>1. \A i \in 1 .. n : i \in 1 .. Len(s)
    BY <1>1
  <2> QED
    BY <1>1, <1>2, <2>1
<1>5. Range(u) \subseteq Range(s)
  <2>1. \A i \in 1 .. Len(s) - n : n + i \in 1 .. Len(s)
    BY <1>1
  <2> QED
    BY <1>1, <1>2, <2>1
<1> QED
  BY <1>3, <1>4, <1>5 DEF t, u

(* Putting one queue behind another *)
LEMMA JoinIs ==
    ASSUME NEW S, NEW s \in Seq(S), NEW t \in Seq(S)
    PROVE  /\ s \o t \in Seq(S) /\ Len(s \o t) = Len(s) + Len(t)
           /\ \A i \in 1 .. Len(s) : (s \o t)[i] = s[i]
           /\ \A i \in 1 .. Len(t) : (s \o t)[Len(s) + i] = t[i]
<1> DEFINE u == s \o t
<1>1. Len(s) \in Nat /\ Len(t) \in Nat
  BY LenProperties
<1>2. /\ u \in Seq(S) /\ Len(u) = Len(s) + Len(t)
      /\ \A i \in 1 .. Len(s) + Len(t) : u[i] = IF i <= Len(s) THEN s[i] ELSE t[i - Len(s)]
  BY ConcatProperties
<1> HIDE DEF u
<1>3. \A i \in 1 .. Len(s) : u[i] = s[i]
  BY <1>1, <1>2
<1>4. ASSUME NEW i \in 1 .. Len(t) PROVE u[Len(s) + i] = t[i]
  <2> DEFINE j == Len(s) + i
  <2>1. j \in 1 .. Len(s) + Len(t) /\ ~(j <= Len(s)) /\ j - Len(s) = i
    BY <1>1
  <2> HIDE DEF j
  <2>2. u[j] = t[i]
    BY <1>2, <2>1
  <2> QED
    BY <2>2 DEF j
<1> QED
  BY <1>2, <1>3, <1>4 DEF u

LEMMA RangeJoin ==
    ASSUME NEW S, NEW s \in Seq(S), NEW t \in Seq(S)
    PROVE  Range(s \o t) = Range(s) \cup Range(t)
<1> DEFINE u == s \o t
<1>1. /\ u \in Seq(S) /\ Len(u) = Len(s) + Len(t)
      /\ \A i \in 1 .. Len(s) : u[i] = s[i]
      /\ \A i \in 1 .. Len(t) : u[Len(s) + i] = t[i]
      /\ Len(s) \in Nat /\ Len(t) \in Nat
  BY JoinIs, LenProperties
<1> HIDE DEF u
<1>2. /\ Range(s) = {s[i] : i \in 1 .. Len(s)} /\ Range(t) = {t[i] : i \in 1 .. Len(t)}
      /\ Range(u) = {u[i] : i \in 1 .. Len(u)}
  BY <1>1, RangeIs
<1>3. ASSUME NEW x \in Range(u) PROVE x \in Range(s) \cup Range(t)
  <2>1. PICK i \in 1 .. Len(u) : x = u[i]
    BY <1>2
  <2>2. CASE i <= Len(s)
    BY <1>1, <1>2, <2>1, <2>2
  <2>3. CASE ~(i <= Len(s))
    <3>1. i - Len(s) \in 1 .. Len(t) /\ Len(s) + (i - Len(s)) = i
      BY <1>1, <2>3
    <3>2. u[i] = t[i - Len(s)]
      BY <1>1, <3>1
    <3> QED
      BY <1>2, <2>1, <3>1, <3>2
  <2> QED
    BY <2>2, <2>3
<1>4. Range(s) \subseteq Range(u)
  <2>1. \A i \in 1 .. Len(s) : i \in 1 .. Len(u)
    BY <1>1
  <2> QED
    BY <1>1, <1>2, <2>1
<1>5. Range(t) \subseteq Range(u)
  <2>1. \A i \in 1 .. Len(t) : Len(s) + i \in 1 .. Len(u)
    BY <1>1
  <2> QED
    BY <1>1, <1>2, <2>1
<1> QED
  BY <1>3, <1>4, <1>5 DEF u

(* Cutting what is left of a queue, in its own terms *)
LEMMA CutOfRest ==
    ASSUME NEW S, NEW s \in Seq(S), NEW n \in 0 .. Len(s), NEW m \in 0 .. Len(s) - n
    PROVE  LET u == SubSeq(s, n + 1, Len(s))
           IN  /\ SubSeq(s, n + 1, n + m) = SubSeq(u, 1, m)
               /\ SubSeq(s, n + m + 1, Len(s)) = SubSeq(u, m + 1, Len(u))
<1> DEFINE u == SubSeq(s, n + 1, Len(s))
           a == SubSeq(s, n + 1, n + m)
           b == SubSeq(s, n + m + 1, Len(s))
           c == SubSeq(u, 1, m)
           d == SubSeq(u, m + 1, Len(u))
<1>1. Len(s) \in Nat /\ \A i \in 1 .. Len(s) : s[i] \in S
  BY LenProperties, ElementOfSeq
<1>2. u \in Seq(S) /\ Len(u) = Len(s) - n /\ \A i \in 1 .. Len(s) - n : u[i] = s[n + i]
  BY CutIs
<1>3. m \in 0 .. Len(u)
  BY <1>2
<1>4. /\ c \in Seq(S) /\ Len(c) = m /\ \A i \in 1 .. m : c[i] = u[i]
      /\ d \in Seq(S) /\ Len(d) = Len(u) - m /\ \A i \in 1 .. Len(u) - m : d[i] = u[m + i]
  <2> HIDE DEF u
  <2> QED
    BY <1>2, <1>3, CutIs
<1>5. /\ a \in Seq(S) /\ Len(a) = m /\ \A i \in 1 .. m : a[i] = s[n + i]
  <2>1. n + 1 \in Int /\ n + m \in Int /\ \A i \in n + 1 .. n + m : s[i] \in S
    BY <1>1
  <2>2. /\ a \in Seq(S) /\ Len(a) = IF n + 1 <= n + m THEN n + m - (n + 1) + 1 ELSE 0
        /\ \A i \in 1 .. n + m - (n + 1) + 1 : a[i] = s[n + 1 + i - 1]
    BY <2>1, SubSeqProperties
  <2> HIDE DEF a
  <2> QED
    BY <1>1, <2>2
<1>6. /\ b \in Seq(S) /\ Len(b) = Len(s) - n - m
      /\ \A i \in 1 .. Len(s) - n - m : b[i] = s[n + m + i]
  <2>1. n + m \in 0 .. Len(s)
    BY <1>1
  <2> QED
    BY <1>1, <2>1, CutIs
<1> HIDE DEF a, b, c, d, u
<1>7. a = c
  <2>1. ASSUME NEW i \in 1 .. m PROVE a[i] = c[i]
    <3>1. i \in 1 .. Len(s) - n
      BY <1>1
    <3> QED
      BY <1>2, <1>4, <1>5, <3>1
  <2> QED
    BY <1>4, <1>5, <2>1, SeqEqual
<1>8. b = d
  <2>1. Len(b) = Len(d)
    BY <1>1, <1>2, <1>4, <1>6
  <2>2. ASSUME NEW i \in 1 .. Len(b) PROVE b[i] = d[i]
    <3>1. /\ i \in 1 .. Len(s) - n - m /\ i \in 1 .. Len(u) - m
          /\ m + i \in 1 .. Len(s) - n /\ n + (m + i) = n + m + i
      BY <1>1, <1>2, <1>6
    <3> QED
      BY <1>2, <1>4, <1>6, <3>1
  <2> QED
    BY <1>4, <1>6, <2>1, <2>2, SeqEqual
<1> QED
  BY <1>7, <1>8 DEF a, b, c, d, u

-----------------------------------------------------------------------------
(* Sums: the fold and its recursion *)

Sum(f, S) == FoldFunctionOnSet(+, 0, f, S)

(* The element the fold takes first, and what the function it is made of   *)
(* satisfies.                                                              *)
Pick(s) == CHOOSE x \in s : TRUE
Sums(g, f, S) ==
    g = [s \in SUBSET S |-> IF s = {} THEN 0 ELSE f[Pick(s)] + g[s \ {Pick(s)}]]

LEMMA SumIs ==
    ASSUME NEW f, NEW S
    PROVE  Sum(f, S) = (CHOOSE g : Sums(g, f, S))[S]
BY DEF Sum, FoldFunctionOnSet, MapThenFoldSet, Sums, Pick

(* Among sets of subsets of a finite set there is always a smallest one. *)
LEMMA MinimalSubset ==
    ASSUME NEW S, IsFiniteSet(S), NEW B, B \subseteq SUBSET S, B # {}
    PROVE  \E T \in B : \A U \in B : U \subseteq T => U = T
<1>1. B \subseteq FiniteSubsetsOf(S)
  BY FS_FiniteSubsetsOfFinite
<1>2. IsWellFoundedOn(StrictSubsetOrdering(S), FiniteSubsetsOf(S))
  BY FS_StrictSubsetOrderingWellFounded
<1>3. PICK T \in B : \A U \in B : ~ (<<U, T>> \in StrictSubsetOrdering(S))
  BY <1>1, <1>2, WFMin
<1>4. ASSUME NEW U \in B, U \subseteq T PROVE U = T
  BY <1>3, <1>4 DEF StrictSubsetOrdering
<1> QED
  BY <1>4

(* A finite set of integers has a least element. *)
LEMMA FiniteHasLeast ==
    ASSUME NEW S, IsFiniteSet(S), S # {}, \A x \in S : x \in Int
    PROVE  \E q \in S : \A r \in S : q <= r
<1> DEFINE UpTo(q) == {r \in S : r <= q}
           Sets == {T \in SUBSET S : \E q \in S : T = UpTo(q)}
<1>1. Sets # {}
  OBVIOUS
<1>2. PICK T \in Sets : \A U \in Sets : U \subseteq T => U = T
  <2> Sets \subseteq SUBSET S
    OBVIOUS
  <2> HIDE DEF Sets
  <2> QED
    BY <1>1, MinimalSubset
<1>3. PICK q \in S : T = UpTo(q)
  BY <1>2
<1>4. ASSUME NEW r \in S, ~(q <= r) PROVE FALSE
  <2>1. ASSUME NEW x \in S, x <= r PROVE x <= q
    BY <1>4, <2>1
  <2>2. UpTo(r) \subseteq UpTo(q)
    BY <2>1
  <2>3. UpTo(r) = UpTo(q)
    BY <1>2, <1>3, <2>2
  <2>4. q \in UpTo(r)
    BY <2>3
  <2> QED
    BY <1>4, <2>4
<1> QED
  BY <1>4

LEMMA PickIn == \A s : s # {} => Pick(s) \in s
BY DEF Pick

-----------------------------------------------------------------------------
(* The recursion has a solution, and only one *)

(* Two solutions agree where they overlap. *)
LEMMA SumsAgree ==
    ASSUME NEW f, NEW S, IsFiniteSet(S), NEW T \in SUBSET S, NEW U \in SUBSET S,
           NEW g, NEW h, Sums(g, f, T), Sums(h, f, U),
           NEW v \in (SUBSET T) \cap (SUBSET U)
    PROVE  g[v] = h[v]
<1> DEFINE Bad == {w \in SUBSET S : w \subseteq T /\ w \subseteq U /\ g[w] # h[w]}
<1>1. SUFFICES ASSUME Bad # {} PROVE FALSE
  OBVIOUS
<1>2. PICK w \in Bad : \A x \in Bad : x \subseteq w => x = w
  <2> Bad \subseteq SUBSET S
    OBVIOUS
  <2> HIDE DEF Bad
  <2> QED
    BY <1>1, MinimalSubset
<1>3. CASE w = {}
  <2>1. g[{}] = 0 /\ h[{}] = 0
    BY DEF Sums
  <2> QED
    BY <1>3, <2>1
<1>4. CASE w # {}
  <2> DEFINE u == w \ {Pick(w)}
  <2>1. u \subseteq w /\ u # w
    BY <1>4, PickIn
  <2>2. u \notin Bad
    BY <1>2, <2>1
  <2>3. g[u] = h[u]
    BY <2>1, <2>2
  <2>4. g[w] = f[Pick(w)] + g[u]
    BY <1>4 DEF Sums
  <2>5. h[w] = f[Pick(w)] + h[u]
    BY <1>4 DEF Sums
  <2> QED
    BY <2>3, <2>4, <2>5
<1> QED
  BY <1>3, <1>4

LEMMA SumsExist ==
    ASSUME NEW f, NEW S, IsFiniteSet(S)
    PROVE  \E g : Sums(g, f, S)
<1> DEFINE Bad == {T \in SUBSET S : ~ \E g : Sums(g, f, T)}
<1>1. SUFFICES ASSUME Bad # {} PROVE FALSE
  OBVIOUS
<1>2. PICK T \in Bad : \A U \in Bad : U \subseteq T => U = T
  <2> Bad \subseteq SUBSET S
    OBVIOUS
  <2> HIDE DEF Bad
  <2> QED
    BY <1>1, MinimalSubset
<1> DEFINE Of(u)  == CHOOSE g : Sums(g, f, u)
           Val(u) == Of(u)[u]
           g      == [u \in SUBSET T |-> IF u = {} THEN 0 ELSE f[Pick(u)] + Val(u \ {Pick(u)})]
<1>3. ASSUME NEW u \in SUBSET T, u # T
      PROVE  Sums(Of(u), f, u)
  <2>1. u \notin Bad /\ u \in SUBSET S
    BY <1>2, <1>3
  <2>2. \E h : Sums(h, f, u)
    BY <2>1
  <2> QED
    BY <2>2
<1>4. ASSUME NEW u \in SUBSET T, u # {}
      PROVE  g[u \ {Pick(u)}] = Val(u \ {Pick(u)})
  <2> DEFINE v == u \ {Pick(u)}
             w == v \ {Pick(v)}
  <2>1. v \in SUBSET T /\ v # T /\ v \in SUBSET S
    BY <1>4, PickIn
  <2>2. Sums(Of(v), f, v)
    BY <1>3, <2>1
  <2> HIDE DEF v, Of
  <2>3. CASE v = {}
    <3>1. Of(v)[v] = 0
      BY <2>2, <2>3 DEF Sums
    <3> QED
      BY <2>1, <2>3, <3>1 DEF v
  <2>4. CASE v # {}
    <3>1. w \in SUBSET v /\ w # v
      BY <2>4, PickIn
    <3>2. w \in SUBSET T /\ w # T /\ w \in SUBSET S
      BY <2>1, <3>1
    <3>3. Sums(Of(w), f, w)
      BY <1>3, <3>2
    <3>4. Of(v)[w] = Of(w)[w]
      <4>1. w \in (SUBSET v) \cap (SUBSET w)
        BY <3>1
      <4> HIDE DEF w
      <4> QED
        BY <2>1, <2>2, <3>2, <3>3, <4>1, SumsAgree
    <3>5. Of(v)[v] = f[Pick(v)] + Of(v)[w]
      BY <2>2, <2>4 DEF Sums
    <3>6. g[v] = f[Pick(v)] + Of(w)[w]
      BY <2>1, <2>4
    <3> QED
      BY <3>4, <3>5, <3>6 DEF v
  <2> QED
    BY <2>3, <2>4
<1>5. Sums(g, f, T)
  <2>1. ASSUME NEW u \in SUBSET T
        PROVE  g[u] = IF u = {} THEN 0 ELSE f[Pick(u)] + g[u \ {Pick(u)}]
    <3>1. g[u] = IF u = {} THEN 0 ELSE f[Pick(u)] + Val(u \ {Pick(u)})
      OBVIOUS
    <3>2. u # {} => g[u \ {Pick(u)}] = Val(u \ {Pick(u)})
      BY <1>4
    <3> HIDE DEF g, Val
    <3> QED
      BY <3>1, <3>2
  <2>2. g = [u \in SUBSET T |-> g[u]]
    OBVIOUS
  <2> HIDE DEF g
  <2>3. g = [u \in SUBSET T |-> IF u = {} THEN 0 ELSE f[Pick(u)] + g[u \ {Pick(u)}]]
    BY <2>1, <2>2
  <2> QED
    BY <2>3 DEF Sums
<1> QED
  BY <1>2, <1>5

-----------------------------------------------------------------------------
(* Sums *)

LEMMA SumEmpty ==
    ASSUME NEW f
    PROVE  Sum(f, {}) = 0
<1>1. Sums(CHOOSE g : Sums(g, f, {}), f, {})
  BY SumsExist, FS_EmptySet
<1> QED
  BY <1>1, SumIs DEF Sums

(* The sum is the value of a solution. *)
LEMMA SumValue ==
    ASSUME NEW f, NEW S, IsFiniteSet(S)
    PROVE  \E g : Sums(g, f, S) /\ Sum(f, S) = g[S]
BY SumsExist, SumIs

(* The fold, one step on *)
LEMMA SumPick ==
    ASSUME NEW f, NEW S, IsFiniteSet(S), S # {}
    PROVE  Sum(f, S) = f[Pick(S)] + Sum(f, S \ {Pick(S)})
<1> DEFINE T == S \ {Pick(S)}
<1>1. IsFiniteSet(T) /\ T \in SUBSET S
  BY FS_RemoveElement
<1>2. PICK g : Sums(g, f, S) /\ Sum(f, S) = g[S]
  BY SumValue
<1>3. PICK h : Sums(h, f, T) /\ Sum(f, T) = h[T]
  <2> HIDE DEF T
  <2> QED
    BY <1>1, SumValue
<1>4. g[T] = h[T]
  <2>1. T \in (SUBSET S) \cap (SUBSET T) /\ S \in SUBSET S
    BY <1>1
  <2> HIDE DEF T
  <2> QED
    BY <1>1, <1>2, <1>3, <2>1, SumsAgree
<1>5. g[S] = f[Pick(S)] + g[T]
  BY <1>2 DEF Sums
<1> QED
  BY <1>2, <1>3, <1>4, <1>5

-----------------------------------------------------------------------------
(* What the sum does not depend on, and how it changes *)

(* Functions equal on a set have the same sum over it. *)
LEMMA SumSame ==
    ASSUME NEW f, NEW g, NEW S, IsFiniteSet(S), \A x \in S : f[x] = g[x]
    PROVE  Sum(f, S) = Sum(g, S)
<1> DEFINE Bad == {T \in SUBSET S : Sum(f, T) # Sum(g, T)}
<1>1. SUFFICES ASSUME Bad # {} PROVE FALSE
  OBVIOUS
<1>2. PICK T \in Bad : \A U \in Bad : U \subseteq T => U = T
  <2> Bad \subseteq SUBSET S
    OBVIOUS
  <2> HIDE DEF Bad
  <2> QED
    BY <1>1, MinimalSubset
<1>3. T # {}
  BY SumEmpty
<1>4. Pick(T) \in T /\ IsFiniteSet(T)
  BY <1>3, PickIn, FS_Subset
<1>5. T \ {Pick(T)} \notin Bad
  BY <1>2, <1>4
<1>6. Sum(f, T \ {Pick(T)}) = Sum(g, T \ {Pick(T)})
  BY <1>5
<1>7. f[Pick(T)] = g[Pick(T)]
  BY <1>4
<1> QED
  BY <1>3, <1>4, <1>6, <1>7, SumPick

(* The sum of natural numbers is one. *)
LEMMA SumType ==
    ASSUME NEW f, NEW S, IsFiniteSet(S), \A x \in S : f[x] \in Nat
    PROVE  Sum(f, S) \in Nat
<1> DEFINE Bad == {T \in SUBSET S : Sum(f, T) \notin Nat}
<1>1. SUFFICES ASSUME Bad # {} PROVE FALSE
  OBVIOUS
<1>2. PICK T \in Bad : \A U \in Bad : U \subseteq T => U = T
  <2> Bad \subseteq SUBSET S
    OBVIOUS
  <2> HIDE DEF Bad
  <2> QED
    BY <1>1, MinimalSubset
<1>3. T # {}
  BY SumEmpty
<1>4. Pick(T) \in T /\ IsFiniteSet(T)
  BY <1>3, PickIn, FS_Subset
<1>5. T \ {Pick(T)} \notin Bad
  BY <1>2, <1>4
<1>6. Sum(f, T \ {Pick(T)}) \in Nat
  BY <1>5
<1>7. f[Pick(T)] \in Nat
  BY <1>4
<1>8. Sum(f, T) = f[Pick(T)] + Sum(f, T \ {Pick(T)})
  BY <1>3, <1>4, SumPick
<1> QED
  BY <1>6, <1>7, <1>8

(* Any element may be taken out of a sum. *)
LEMMA SumRemove ==
    ASSUME NEW f, NEW S, IsFiniteSet(S), \A x \in S : f[x] \in Nat, NEW a \in S
    PROVE  Sum(f, S) = f[a] + Sum(f, S \ {a})
<1> DEFINE Bad == {T \in SUBSET S : \E x \in T : Sum(f, T) # f[x] + Sum(f, T \ {x})}
<1>1. SUFFICES ASSUME Bad # {} PROVE FALSE
  OBVIOUS
<1>2. PICK T \in Bad : \A U \in Bad : U \subseteq T => U = T
  <2> Bad \subseteq SUBSET S
    OBVIOUS
  <2> HIDE DEF Bad
  <2> QED
    BY <1>1, MinimalSubset
<1>3. PICK x \in T : Sum(f, T) # f[x] + Sum(f, T \ {x})
  OBVIOUS
<1> DEFINE y == Pick(T)
           U == T \ {y}
           V == T \ {x}
           W == U \ {x}
<1>4. y \in T /\ IsFiniteSet(T) /\ T \subseteq S /\ T # {}
  BY PickIn, FS_Subset
<1>5. Sum(f, T) = f[y] + Sum(f, U)
  BY <1>4, SumPick
<1>6. x # y
  BY <1>3, <1>5
<1>7. U \notin Bad /\ x \in U /\ V \notin Bad /\ y \in V
  BY <1>2, <1>4, <1>6
<1>8. Sum(f, U) = f[x] + Sum(f, W)
  BY <1>4, <1>7
<1>9. Sum(f, V) = f[y] + Sum(f, V \ {y})
  BY <1>4, <1>7
<1>10. V \ {y} = W
  OBVIOUS
<1>11. f[x] \in Nat /\ f[y] \in Nat
  BY <1>4
<1>12. Sum(f, W) \in Nat
  <2>1. IsFiniteSet(W) /\ W \subseteq S
    BY <1>4, FS_Subset
  <2> HIDE DEF W
  <2> QED
    BY <2>1, SumType
<1> HIDE DEF y, U, V, W
<1>13. Sum(f, T) = f[y] + (f[x] + Sum(f, W))
  BY <1>5, <1>8
<1>14. Sum(f, T \ {x}) = f[y] + Sum(f, W)
  BY <1>9, <1>10 DEF V
<1> QED
  BY <1>3, <1>11, <1>12, <1>13, <1>14

(* Where one value changes, the sum changes by as much. *)
LEMMA SumUpdate ==
    ASSUME NEW f, NEW g, NEW S, IsFiniteSet(S), NEW a \in S,
           \A x \in S : f[x] \in Nat /\ g[x] \in Nat,
           \A x \in S \ {a} : g[x] = f[x]
    PROVE  Sum(g, S) = Sum(f, S) + g[a] - f[a]
<1>1. Sum(f, S) = f[a] + Sum(f, S \ {a})
  BY SumRemove
<1>2. Sum(g, S) = g[a] + Sum(g, S \ {a})
  BY SumRemove
<1>3. IsFiniteSet(S \ {a})
  BY FS_Subset
<1>4. Sum(f, S \ {a}) = Sum(g, S \ {a})
  BY <1>3, SumSame
<1>5. Sum(f, S \ {a}) \in Nat
  BY <1>3, SumType
<1>6. f[a] \in Nat /\ g[a] \in Nat
  OBVIOUS
<1> QED
  BY <1>1, <1>2, <1>4, <1>5, <1>6

(* Sums add up value by value. *)
LEMMA SumPlus ==
    ASSUME NEW f, NEW g, NEW h, NEW S, IsFiniteSet(S),
           \A x \in S : f[x] \in Nat /\ g[x] \in Nat /\ h[x] = f[x] + g[x]
    PROVE  Sum(h, S) = Sum(f, S) + Sum(g, S)
<1> DEFINE Bad == {T \in SUBSET S : Sum(h, T) # Sum(f, T) + Sum(g, T)}
<1>1. SUFFICES ASSUME Bad # {} PROVE FALSE
  OBVIOUS
<1>2. PICK T \in Bad : \A U \in Bad : U \subseteq T => U = T
  <2> Bad \subseteq SUBSET S
    OBVIOUS
  <2> HIDE DEF Bad
  <2> QED
    BY <1>1, MinimalSubset
<1>3. T # {}
  <2>1. Sum(h, {}) = Sum(f, {}) + Sum(g, {})
    BY SumEmpty
  <2> QED
    BY <2>1
<1> DEFINE y == Pick(T)
           U == T \ {y}
<1>4. y \in T /\ y \in S /\ IsFiniteSet(T)
  BY <1>3, PickIn, FS_Subset
<1>5. U \notin Bad
  BY <1>2, <1>4
<1>6. Sum(h, U) = Sum(f, U) + Sum(g, U)
  BY <1>5
<1>7. f[y] \in Nat /\ g[y] \in Nat /\ h[y] = f[y] + g[y]
  BY <1>4
<1>8. /\ Sum(f, T) = f[y] + Sum(f, U) /\ Sum(g, T) = g[y] + Sum(g, U)
      /\ Sum(h, T) = h[y] + Sum(h, U)
  BY <1>3, <1>4, SumPick
<1>9. Sum(f, U) \in Nat /\ Sum(g, U) \in Nat
  <2>1. IsFiniteSet(U) /\ U \subseteq S
    BY <1>4, FS_Subset
  <2> HIDE DEF U
  <2> QED
    BY <2>1, SumType
<1>10. Sum(h, T) # Sum(f, T) + Sum(g, T)
  OBVIOUS
<1> HIDE DEF y, U
<1> QED
  BY <1>6, <1>7, <1>8, <1>9, <1>10

(* A sum of smaller values is smaller. *)
LEMMA SumMono ==
    ASSUME NEW f, NEW g, NEW S, IsFiniteSet(S),
           \A x \in S : f[x] \in Nat /\ g[x] \in Nat /\ f[x] <= g[x]
    PROVE  Sum(f, S) <= Sum(g, S)
<1> DEFINE d == [x \in S |-> g[x] - f[x]]
<1>1. \A x \in S : d[x] \in Nat /\ g[x] = f[x] + d[x]
  OBVIOUS
<1> HIDE DEF d
<1>2. Sum(g, S) = Sum(f, S) + Sum(d, S)
  BY <1>1, SumPlus
<1>3. Sum(f, S) \in Nat /\ Sum(d, S) \in Nat
  BY <1>1, SumType
<1> QED
  BY <1>2, <1>3

(* A sum is zero when all its values are. *)
LEMMA SumZero ==
    ASSUME NEW f, NEW S, IsFiniteSet(S), \A x \in S : f[x] = 0
    PROVE  Sum(f, S) = 0
<1> DEFINE Bad == {T \in SUBSET S : Sum(f, T) # 0}
<1>1. SUFFICES ASSUME Bad # {} PROVE FALSE
  OBVIOUS
<1>2. PICK T \in Bad : \A U \in Bad : U \subseteq T => U = T
  <2> Bad \subseteq SUBSET S
    OBVIOUS
  <2> HIDE DEF Bad
  <2> QED
    BY <1>1, MinimalSubset
<1>3. T # {}
  BY SumEmpty
<1>4. Pick(T) \in T /\ IsFiniteSet(T)
  BY <1>3, PickIn, FS_Subset
<1>5. Sum(f, T \ {Pick(T)}) = 0
  BY <1>2, <1>4
<1>6. Sum(f, T) = f[Pick(T)] + Sum(f, T \ {Pick(T)})
  BY <1>3, <1>4, SumPick
<1>7. f[Pick(T)] = 0
  BY <1>4
<1> QED
  BY <1>5, <1>6, <1>7

-----------------------------------------------------------------------------
(* Sums along a sequence *)

LEMMA IntervalFinite ==
    ASSUME NEW n \in Int
    PROVE  IsFiniteSet(1 .. n)
BY FS_Interval

LEMMA SumStep ==
    ASSUME NEW f, NEW n \in Nat, \A i \in 1 .. n + 1 : f[i] \in Nat
    PROVE  Sum(f, 1 .. n + 1) = Sum(f, 1 .. n) + f[n + 1]
<1>1. IsFiniteSet(1 .. n + 1) /\ n + 1 \in 1 .. n + 1
  BY IntervalFinite
<1>2. (1 .. n + 1) \ {n + 1} = 1 .. n
  OBVIOUS
<1>3. Sum(f, 1 .. n + 1) = f[n + 1] + Sum(f, (1 .. n + 1) \ {n + 1})
  BY <1>1, SumRemove
<1>4. IsFiniteSet(1 .. n) /\ \A i \in 1 .. n : f[i] \in Nat
  BY IntervalFinite
<1>5. Sum(f, 1 .. n) \in Nat /\ f[n + 1] \in Nat
  BY <1>1, <1>4, SumType
<1>6. Sum(f, 1 .. n + 1) = f[n + 1] + Sum(f, 1 .. n)
  BY <1>2, <1>3
<1> QED
  BY <1>5, <1>6

LEMMA PrefixMono ==
    ASSUME NEW f, NEW n \in Nat, \A i \in 1 .. n : f[i] \in Nat, NEW m \in 0 .. n
    PROVE  /\ Sum(f, 1 .. m) \in Nat /\ Sum(f, 1 .. n) \in Nat
           /\ Sum(f, 1 .. m) <= Sum(f, 1 .. n)
<1> DEFINE Bad == {k \in m .. n : ~ Sum(f, 1 .. m) <= Sum(f, 1 .. k)}
<1>1. \A k \in 0 .. n : Sum(f, 1 .. k) \in Nat
  <2> TAKE k \in 0 .. n
  <2>1. IsFiniteSet(1 .. k) /\ \A i \in 1 .. k : f[i] \in Nat
    BY IntervalFinite
  <2> QED
    BY <2>1, SumType
<1>2. ASSUME Bad # {} PROVE FALSE
  <2>1. IsFiniteSet(Bad) /\ \A k \in Bad : k \in Int
    <3>1. Bad \subseteq m .. n /\ IsFiniteSet(m .. n)
      BY FS_Interval
    <3> QED
      BY <3>1, FS_Subset
  <2>2. PICK k \in Bad : \A l \in Bad : k <= l
    BY <1>2, <2>1, FiniteHasLeast
  <2>3. k # m
    BY <1>1, <2>2
  <2>4. k - 1 \in m .. n /\ k - 1 \notin Bad /\ k - 1 \in Nat /\ (k - 1) + 1 = k
    BY <2>2, <2>3
  <2>5. \A i \in 1 .. (k - 1) + 1 : f[i] \in Nat
    BY <2>4
  <2>6. Sum(f, 1 .. (k - 1) + 1) = Sum(f, 1 .. k - 1) + f[(k - 1) + 1]
    BY <2>4, <2>5, SumStep
  <2>7. Sum(f, 1 .. k) = Sum(f, 1 .. k - 1) + f[k] /\ f[k] \in Nat
    BY <2>4, <2>5, <2>6
  <2> QED
    BY <1>1, <2>2, <2>4, <2>7
<1> QED
  BY <1>1, <1>2

(* Each number up to the sum belongs to one element. *)
LEMMA PrefixFinds ==
    ASSUME NEW f, NEW n \in Nat, \A i \in 1 .. n : f[i] \in Nat,
           NEW m \in 1 .. Sum(f, 1 .. n)
    PROVE  \E j \in 1 .. n : Sum(f, 1 .. j - 1) < m /\ m <= Sum(f, 1 .. j)
<1> DEFINE Reached == {j \in 0 .. n : m <= Sum(f, 1 .. j)}
<1>1. \A k \in 0 .. n : Sum(f, 1 .. k) \in Nat
  <2> TAKE k \in 0 .. n
  <2> QED
    BY PrefixMono
<1>2. n \in Reached
  BY <1>1
<1>3. IsFiniteSet(Reached) /\ \A k \in Reached : k \in Int
  <2>1. Reached \subseteq 0 .. n /\ IsFiniteSet(0 .. n)
    BY FS_Interval
  <2> QED
    BY <2>1, FS_Subset
<1>4. PICK j \in Reached : \A k \in Reached : j <= k
  BY <1>2, <1>3, FiniteHasLeast
<1>5. Sum(f, 1 .. 0) = 0
  <2>1. 1 .. 0 = {}
    OBVIOUS
  <2> QED
    BY <2>1, SumEmpty
<1>6. j # 0
  BY <1>4, <1>5
<1>7. j \in 1 .. n /\ j - 1 \in 0 .. n /\ j - 1 \notin Reached
  BY <1>4, <1>6
<1> QED
  BY <1>1, <1>4, <1>7

(* The sum of a sequence without its head *)
LEMMA SumTail ==
    ASSUME NEW f, NEW g, NEW n \in Nat, \A i \in 1 .. n + 1 : f[i] \in Nat,
           \A i \in 1 .. n : g[i] = f[i + 1]
    PROVE  Sum(f, 1 .. n + 1) = f[1] + Sum(g, 1 .. n)
<1> DEFINE Bad == {k \in 0 .. n : Sum(f, 1 .. k + 1) # f[1] + Sum(g, 1 .. k)}
<1>1. \A i \in 1 .. n : g[i] \in Nat
  OBVIOUS
<1>2. Sum(f, 1 .. 0) = 0 /\ Sum(g, 1 .. 0) = 0
  <2>1. 1 .. 0 = {}
    OBVIOUS
  <2> QED
    BY <2>1, SumEmpty
<1>3. SUFFICES ASSUME Bad # {} PROVE FALSE
  OBVIOUS
<1>4. IsFiniteSet(Bad) /\ \A k \in Bad : k \in Int
  <2>1. Bad \subseteq 0 .. n /\ IsFiniteSet(0 .. n)
    BY FS_Interval
  <2> QED
    BY <2>1, FS_Subset
<1>5. PICK k \in Bad : \A l \in Bad : k <= l
  BY <1>3, <1>4, FiniteHasLeast
<1>6. \A l \in 0 .. n : Sum(f, 1 .. l + 1) = Sum(f, 1 .. l) + f[l + 1]
  <2> TAKE l \in 0 .. n
  <2>1. l \in Nat /\ \A i \in 1 .. l + 1 : f[i] \in Nat
    OBVIOUS
  <2> QED
    BY <2>1, SumStep
<1>7. k # 0
  <2>1. 0 \in 0 .. n /\ 0 + 1 = 1 /\ 1 \in 1 .. n + 1
    OBVIOUS
  <2>2. Sum(f, 1 .. 0 + 1) = Sum(f, 1 .. 0) + f[0 + 1] /\ f[1] \in Nat
    BY <1>6, <2>1
  <2>3. Sum(f, 1 .. 0 + 1) = f[1] + Sum(g, 1 .. 0)
    BY <1>2, <2>1, <2>2
  <2> QED
    BY <1>5, <2>3
<1>8. k - 1 \in 0 .. n /\ k - 1 \notin Bad /\ (k - 1) + 1 = k /\ k \in 1 .. n
  BY <1>5, <1>7
<1>9. Sum(f, 1 .. k) = f[1] + Sum(g, 1 .. k - 1)
  BY <1>8
<1>10. Sum(g, 1 .. k) = Sum(g, 1 .. k - 1) + g[k]
  <2>1. k - 1 \in Nat /\ \A i \in 1 .. (k - 1) + 1 : g[i] \in Nat
    BY <1>1, <1>8
  <2>2. Sum(g, 1 .. (k - 1) + 1) = Sum(g, 1 .. k - 1) + g[(k - 1) + 1]
    BY <2>1, SumStep
  <2> QED
    BY <1>8, <2>2
<1>11. Sum(f, 1 .. k + 1) = Sum(f, 1 .. k) + f[k + 1]
  BY <1>5, <1>6
<1>12. Sum(g, 1 .. k - 1) \in Nat /\ g[k] \in Nat /\ g[k] = f[k + 1] /\ f[1] \in Nat
  BY <1>1, <1>8, PrefixMono
<1> QED
  BY <1>5, <1>9, <1>10, <1>11, <1>12
=============================================================================
