--------------------------- MODULE TxPath_proofs -----------------------------
(***************************************************************************)
(* Proofs about the transmit path, for any shape of the port, any sizes of *)
(* the burst, the rings and the pool, and any number of packets: each      *)
(* packet that was cloned is in one place, the packets of a ring leave in  *)
(* order, and the lcore's counter is right.                                *)
(***************************************************************************)
EXTENDS TxPath, DataTheorems

Ring == 0 .. ring_num - 1
Sent == [n : Nat, r : Nat]

(* The types, and where the loops may be *)
Typed ==
    /\ ring_num \in Nat \ {0} /\ queue_num \in Nat \ {0} /\ <<ring_num, queue_num>> \in Shapes
    /\ apc \in {"idle", "clone", "while", "try", "enqueue"}
    /\ cpc \in {"test", "dequeue", "transmit"}
    /\ batch \in Nat /\ times \in Nat /\ i \in 0 .. times /\ outOfMem \in BOOLEAN
    /\ tmp \in Seq(Nat) /\ nb_distributed \in 0 .. Len(tmp) /\ target \in Nat
    /\ cloned \in Nat /\ lost \subseteq 1 .. cloned /\ failures \in Nat
    /\ txring \in [Ring -> Seq(Nat)]
    /\ \A r \in Ring : Len(txring[r]) <= RingSize
    /\ ring \in Ring /\ queue \in 0 .. queue_num - 1
    /\ bufs \in Seq(Nat) /\ v_tx \in 0 .. Len(bufs)
    /\ txsize \in Nat
    /\ wire \in Seq(Sent) /\ completed \in 0 .. Len(wire)
    /\ pool \in Nat
    /\ process \in {"run", "crashed"}

Places ==
    /\ apc \in {"idle", "clone"} => nb_distributed = 0
    /\ apc = "idle" => tmp = <<>>
    /\ apc = "clone" => i < times
    /\ Range(tmp) \subseteq 1 .. cloned
    /\ apc \in {"try", "enqueue"} => target \in Ring
    /\ cpc # "transmit" => bufs = <<>> /\ v_tx = 0

TypeInv == Typed /\ Places

-----------------------------------------------------------------------------

LEMMA Constants ==
    /\ Burst \in Nat \ {0} /\ RingSize \in Nat \ {0} /\ NumMbufs \in Nat \ {0}
    /\ Traffic \in Nat \ {0} /\ Times \subseteq Nat \ {0}
    /\ \A s \in Shapes : s[1] \in Nat \ {0} /\ s[2] \in Nat \ {0} /\ s = <<s[1], s[2]>>
BY TxAssumption

LEMMA EmptyIs == \A S : <<>> \in Seq(S) /\ Len(<<>>) = 0
BY EmptySeq

LEMMA TypeInit == Init => TypeInv
<1> SUFFICES ASSUME Init PROVE TypeInv
  OBVIOUS
<1>1. ring_num \in Nat \ {0} /\ queue_num \in Nat \ {0} /\ <<ring_num, queue_num>> \in Shapes
  <2>1. PICK s \in Shapes : ring_num = s[1] /\ queue_num = s[2]
    BY DEF Init
  <2> QED
    BY <2>1, Constants
<1>2. ring \in Ring /\ queue \in 0 .. queue_num - 1
  BY <1>1 DEF Init, Ring
<1>3. /\ txring \in [Ring -> Seq(Nat)] /\ \A r \in Ring : Len(txring[r]) <= RingSize
      /\ tmp \in Seq(Nat) /\ bufs \in Seq(Nat) /\ wire \in Seq(Sent)
      /\ Len(tmp) = 0 /\ Len(bufs) = 0 /\ Len(wire) = 0
  BY EmptyIs, Constants DEF Init, Ring
<1>4. /\ i \in 0 .. times /\ nb_distributed \in 0 .. Len(tmp) /\ v_tx \in 0 .. Len(bufs)
      /\ completed \in 0 .. Len(wire) /\ pool \in Nat /\ batch \in Nat /\ lost \subseteq 1 .. cloned
      /\ process = "run" /\ apc = "idle" /\ cpc = "test" /\ times \in Nat /\ outOfMem = FALSE
      /\ target \in Nat /\ cloned \in Nat /\ failures \in Nat /\ txsize \in Nat
  BY <1>3, Constants DEF Init
<1>5. Typed
  BY <1>1, <1>2, <1>3, <1>4 DEF Typed
<1>6. Places
  BY RangeEmpty DEF Init, Places
<1> QED
  BY <1>5, <1>6 DEF TypeInv

(* The lcore's turn stays in its loops. *)
LEMMA TurnIs ==
    ASSUME Typed, NextTurn
    PROVE  ring' \in Ring /\ queue' \in 0 .. queue_num - 1
<1>1. ring_num \in Nat \ {0} /\ queue_num \in Nat \ {0} /\ ring \in 0 .. ring_num - 1
      /\ queue \in 0 .. queue_num - 1
  BY DEF Typed, Ring
<1>2. \A a \in Nat, b \in Nat \ {0} : a % b \in 0 .. b - 1
  BY SMT
<1>3. (queue + 1) % queue_num \in 0 .. queue_num - 1 /\ (ring + 1) % ring_num \in 0 .. ring_num - 1
  BY <1>1, <1>2
<1> QED
  BY <1>1, <1>3 DEF NextTurn, Ring

(* The burst of the application: what it takes from tmp, and what it leaves *)
Piece == Smaller(ToSend, FreeCount(target))
Burst1 == SubSeq(NextOut, 1, Piece)

LEMMA PieceIs ==
    ASSUME Typed, target \in Ring
    PROVE  /\ Piece \in 0 .. Len(tmp) - nb_distributed
           /\ Piece <= RingSize - Len(txring[target])
           /\ Burst1 = SubSeq(tmp, nb_distributed + 1, nb_distributed + Piece)
           /\ Burst1 \in Seq(Nat) /\ Len(Burst1) = Piece
<1> DEFINE n == nb_distributed
           L == Len(tmp)
           a == NextOut
<1>1. /\ L \in Nat /\ n \in 0 .. L /\ txring[target] \in Seq(Nat)
      /\ \A j \in 1 .. L : tmp[j] \in Nat
      /\ Len(txring[target]) \in Nat /\ Len(txring[target]) <= RingSize
  BY LenProperties, ElementOfSeq DEF Typed
<1>2. ToSend \in 0 .. L - n
  BY <1>1, Constants DEF ToSend, Smaller
<1>3. /\ Piece \in 0 .. L - n /\ Piece <= RingSize - Len(txring[target])
      /\ Piece \in 0 .. ToSend
  BY <1>1, <1>2, Constants DEF Piece, Smaller, FreeCount
<1>4. tmp \in Seq(Nat)
  BY DEF Typed
<1> DEFINE u == SubSeq(tmp, n + 1, L)
<1>5. a = SubSeq(u, 1, ToSend) /\ SubSeq(tmp, n + 1, n + Piece) = SubSeq(u, 1, Piece)
  BY <1>1, <1>2, <1>3, <1>4, CutOfRest DEF NextOut
<1>6. u \in Seq(Nat) /\ Len(u) = L - n
  BY <1>1, <1>4, CutIs
<1> HIDE DEF u, L, n
<1>7. ToSend \in 0 .. Len(u) /\ Piece \in 0 .. Len(u)
  BY <1>2, <1>3, <1>6
<1> DEFINE b == SubSeq(u, 1, ToSend)
           c == SubSeq(u, 1, Piece)
           d == SubSeq(b, 1, Piece)
<1>8. /\ b \in Seq(Nat) /\ Len(b) = ToSend /\ \A j \in 1 .. ToSend : b[j] = u[j]
      /\ c \in Seq(Nat) /\ Len(c) = Piece /\ \A j \in 1 .. Piece : c[j] = u[j]
  BY <1>6, <1>7, CutIs
<1>9. Piece \in 0 .. Len(b)
  BY <1>3, <1>8
<1> HIDE DEF b
<1>10. d \in Seq(Nat) /\ Len(d) = Piece /\ \A j \in 1 .. Piece : d[j] = b[j]
  BY <1>8, <1>9, CutIs
<1> HIDE DEF c, d
<1>11. d = c
  <2>1. ASSUME NEW j \in 1 .. Piece PROVE d[j] = c[j]
    <3>1. j \in 1 .. ToSend
      BY <1>2, <1>3
    <3> QED
      BY <1>8, <1>10, <3>1
  <2> QED
    BY <1>8, <1>10, <2>1, SeqEqual
<1>12. Burst1 = d
  BY <1>5 DEF Burst1, b, d
<1> QED
  BY <1>3, <1>5, <1>8, <1>11, <1>12 DEF c, n, L

(* The lcore's burst, and the ring it comes from *)
Got == Smaller(Burst, Len(txring[ring]))

LEMMA GotIs ==
    ASSUME Typed
    PROVE  /\ Got \in 0 .. Len(txring[ring]) /\ txring[ring] \in Seq(Nat)
           /\ Len(txring[ring]) \in Nat
<1>1. txring[ring] \in Seq(Nat)
  BY DEF Typed
<1>2. Len(txring[ring]) \in Nat
  BY <1>1, LenProperties
<1> QED
  BY <1>1, <1>2, Constants DEF Got, Smaller

(* What the NIC takes of it *)
Pairs(s, r) == [j \in 1 .. Len(s) |-> [n |-> s[j], r |-> r]]

LEMMA PairsIs ==
    ASSUME NEW s \in Seq(Nat), NEW r \in Nat
    PROVE  /\ Pairs(s, r) \in Seq(Sent) /\ Len(Pairs(s, r)) = Len(s)
           /\ \A j \in 1 .. Len(s) : Pairs(s, r)[j].n = s[j] /\ Pairs(s, r)[j].r = r
<1>1. Len(s) \in Nat /\ \A j \in 1 .. Len(s) : s[j] \in Nat
  BY LenProperties, ElementOfSeq
<1>2. Pairs(s, r) \in [1 .. Len(s) -> Sent]
  BY <1>1 DEF Pairs, Sent
<1> QED
  BY <1>1, <1>2 DEF Pairs, Sent

LEMMA OfferedIs ==
    ASSUME Typed, NEW k \in Nat, k <= Len(bufs) - v_tx
    PROVE  /\ Offered(k) \in Seq(Nat) /\ Len(Offered(k)) = k
           /\ [j \in 1 .. k |-> [n |-> Offered(k)[j], r |-> ring]] = Pairs(Offered(k), ring)
<1>1. bufs \in Seq(Nat) /\ v_tx \in 0 .. Len(bufs) /\ Len(bufs) \in Nat
  BY LenProperties DEF Typed
<1> DEFINE u == SubSeq(bufs, v_tx + 1, Len(bufs))
<1>2. k \in 0 .. Len(bufs) - v_tx
  BY <1>1
<1>3. Offered(k) = SubSeq(u, 1, k)
  BY <1>1, <1>2, CutOfRest DEF Offered
<1>4. u \in Seq(Nat) /\ Len(u) = Len(bufs) - v_tx
  BY <1>1, CutIs
<1>5. k \in 0 .. Len(u)
  BY <1>2, <1>4
<1> HIDE DEF u
<1>6. SubSeq(u, 1, k) \in Seq(Nat) /\ Len(SubSeq(u, 1, k)) = k
  BY <1>4, <1>5, CutIs
<1> QED
  BY <1>3, <1>6 DEF Pairs

-----------------------------------------------------------------------------
(* What the application does keeps the types. *)

LEMMA TypeCall ==
    ASSUME TypeInv, NEW n \in Nat \ {0}, NEW size \in Nat, Call(n, size)
    PROVE  TypeInv'
<1>1. /\ UNCHANGED <<shapeVars, outOfMem, cloned, lost, failures, distVars, txring, coreVars,
                     nicVars, pool, process>>
      /\ apc = "idle" /\ apc' = "clone" /\ batch' = size /\ times' = n /\ i' = 0 /\ tmp' = <<>>
  BY DEF Call
<1>2. tmp' = tmp
  BY <1>1 DEF TypeInv, Places
<1>3. i' \in 0 .. times' /\ batch' \in Nat /\ times' \in Nat
  BY <1>1
<1>4. Typed'
  BY <1>1, <1>2, <1>3 DEF TypeInv, Typed, Ring, shapeVars, distVars, coreVars, nicVars
<1>5. Places'
  BY <1>1, <1>2 DEF TypeInv, Places, Ring, shapeVars, distVars, coreVars, nicVars
<1> QED
  BY <1>4, <1>5 DEF TypeInv

LEMMA TypeClone ==
    ASSUME TypeInv, Clone
    PROVE  TypeInv'
<1>1. /\ UNCHANGED <<shapeVars, batch, times, outOfMem, lost, failures, target, txring, coreVars,
                     nicVars, process>>
      /\ apc = "clone" /\ pool > 0 /\ pool' = pool - 1 /\ cloned' = cloned + 1
      /\ tmp' = Append(tmp, cloned + 1) /\ i' = i + 1 /\ nb_distributed' = 0
      /\ \/ apc' = "clone" /\ i + 1 < times
         \/ apc' = "while"
  BY DEF Clone
<1>2. /\ cloned \in Nat /\ pool \in Nat /\ i \in 0 .. times /\ times \in Nat /\ i < times
      /\ lost \subseteq 1 .. cloned /\ tmp \in Seq(Nat)
  BY <1>1 DEF TypeInv, Typed, Places
<1>3. /\ pool' \in Nat /\ cloned' \in Nat /\ i' \in 0 .. times'
  BY <1>1, <1>2
<1>4. lost' \subseteq 1 .. cloned'
  BY <1>1, <1>2
<1>5. tmp' \in Seq(Nat) /\ nb_distributed' \in 0 .. Len(tmp')
  <2>1. cloned + 1 \in Nat /\ Len(tmp) \in Nat
    BY <1>2, LenProperties
  <2>2. tmp' \in Seq(Nat) /\ Len(tmp') = Len(tmp) + 1
    BY <1>1, <1>2, <2>1, AppendProperties
  <2> QED
    BY <1>1, <2>1, <2>2
<1>6. Typed'
  BY <1>1, <1>3, <1>4, <1>5 DEF TypeInv, Typed, Ring, shapeVars, coreVars, nicVars
<1>7. Range(tmp') \subseteq 1 .. cloned'
  <2>1. Range(tmp') = Range(tmp) \cup {cloned + 1}
    BY <1>1, <1>2, RangeAppend
  <2> QED
    BY <1>1, <1>2, <2>1 DEF TypeInv, Places
<1>8. Places'
  BY <1>1, <1>7 DEF TypeInv, Places, Ring, shapeVars, coreVars, nicVars
<1> QED
  BY <1>6, <1>8 DEF TypeInv

(* The clones of a call that ran out of memory, and the one that is lost *)
LEMMA FrontIs ==
    ASSUME NEW s \in Seq(Nat), s # <<>>
    PROVE  /\ Len(s) \in Nat \ {0} /\ s[Len(s)] \in Nat
           /\ SubSeq(s, 1, Len(s) - 1) \in Seq(Nat) /\ Len(SubSeq(s, 1, Len(s) - 1)) = Len(s) - 1
           /\ \A j \in 1 .. Len(s) - 1 : SubSeq(s, 1, Len(s) - 1)[j] = s[j]
           /\ Range(s) = Range(SubSeq(s, 1, Len(s) - 1)) \cup {s[Len(s)]}
<1>1. Len(s) \in Nat \ {0} /\ Len(s) - 1 \in 0 .. Len(s) /\ Len(s) \in 1 .. Len(s)
  BY EmptySeq
<1> DEFINE m == Len(s) - 1
           f == SubSeq(s, 1, m)
<1>2. f \in Seq(Nat) /\ Len(f) = m /\ \A j \in 1 .. m : f[j] = s[j]
  <2>1. m \in 0 .. Len(s)
    BY <1>1
  <2> HIDE DEF m
  <2> QED
    BY <2>1, CutIs
<1>3. s[Len(s)] \in Nat
  BY <1>1, ElementOfSeq
<1>4. \A j \in 1 .. Len(s) : j \in 1 .. m \/ j = Len(s)
  BY <1>1
<1>5. \A j \in 1 .. m : j \in 1 .. Len(s)
  BY <1>1
<1> HIDE DEF f, m
<1>6. Range(s) = {s[j] : j \in 1 .. Len(s)} /\ Range(f) = {f[j] : j \in 1 .. m}
  BY <1>2, RangeIs
<1>7. \A x : x \in Range(s) <=> x \in Range(f) \cup {s[Len(s)]}
  <2>1. ASSUME NEW x \in Range(s) PROVE x \in Range(f) \cup {s[Len(s)]}
    <3>1. PICK j \in 1 .. Len(s) : x = s[j]
      BY <1>6
    <3> QED
      BY <1>2, <1>4, <1>6, <3>1
  <2>2. ASSUME NEW x \in Range(f) PROVE x \in Range(s)
    <3>1. PICK j \in 1 .. m : x = f[j]
      BY <1>6
    <3> QED
      BY <1>2, <1>5, <1>6, <3>1
  <2>3. s[Len(s)] \in Range(s)
    BY <1>1, <1>6
  <2> QED
    BY <2>1, <2>2, <2>3
<1> QED
  BY <1>1, <1>2, <1>3, <1>7 DEF f, m

LEMMA TypeCloneFails ==
    ASSUME TypeInv, CloneFails
    PROVE  TypeInv'
<1>1. /\ UNCHANGED <<shapeVars, batch, times, i, cloned, failures, target, txring, coreVars,
                     nicVars, pool, process>>
      /\ apc = "clone" /\ apc' = "while" /\ nb_distributed' = 0 /\ outOfMem' = TRUE
  BY DEF CloneFails
<1>2. /\ tmp' \in Seq(Nat) /\ Range(tmp') \subseteq 1 .. cloned /\ lost' \subseteq 1 .. cloned
  <2>1. tmp \in Seq(Nat) /\ Range(tmp) \subseteq 1 .. cloned /\ lost \subseteq 1 .. cloned
    BY DEF TypeInv, Typed, Places
  <2>2. CASE tmp = <<>>
    BY <2>1, <2>2 DEF CloneFails
  <2>3. CASE tmp # <<>>
    <3>1. tmp' = SubSeq(tmp, 1, Len(tmp) - 1) /\ lost' = lost \cup {tmp[Len(tmp)]}
      BY <2>3 DEF CloneFails
    <3> QED
      BY <2>1, <2>3, <3>1, FrontIs
  <2> QED
    BY <2>2, <2>3
<1>3. nb_distributed' \in 0 .. Len(tmp')
  <2>1. Len(tmp') \in Nat
    BY <1>2, LenProperties
  <2> QED
    BY <1>1, <2>1
<1>4. Typed'
  BY <1>1, <1>2, <1>3 DEF TypeInv, Typed, Ring, shapeVars, coreVars, nicVars
<1>5. Places'
  BY <1>1, <1>2 DEF TypeInv, Places, Ring, shapeVars, coreVars, nicVars
<1> QED
  BY <1>4, <1>5 DEF TypeInv

LEMMA TypeDistributed ==
    ASSUME TypeInv, TestDistributed
    PROVE  TypeInv'
<1>1. /\ UNCHANGED <<shapeVars, batch, times, i, cloned, lost, txring, coreVars, nicVars, pool,
                     process>>
      /\ apc = "while"
  BY DEF TestDistributed
<1>2. CASE nb_distributed < Len(tmp)
  <2>1. target' = 0 /\ apc' = "try" /\ UNCHANGED <<tmp, nb_distributed, outOfMem, failures>>
    BY <1>2 DEF TestDistributed, TypeInv, Typed
  <2>2. 0 \in Ring /\ ring_num' = ring_num
    BY <1>1 DEF TypeInv, Typed, Ring, shapeVars
  <2>3. Typed'
    BY <1>1, <2>1 DEF TypeInv, Typed, Ring, shapeVars, coreVars, nicVars
  <2>4. Places'
    BY <1>1, <2>1, <2>2 DEF TypeInv, Places, Ring, shapeVars, coreVars, nicVars
  <2> QED
    BY <2>3, <2>4 DEF TypeInv
<1>3. CASE ~(nb_distributed < Len(tmp))
  <2>1. /\ tmp' = <<>> /\ nb_distributed' = 0 /\ target' = target /\ outOfMem' = FALSE
        /\ apc' = IF outOfMem \/ i >= times THEN "idle" ELSE "clone"
        /\ failures' = IF outOfMem THEN failures + 1 ELSE failures
    BY <1>3 DEF TestDistributed
  <2>2. tmp' \in Seq(Nat) /\ Range(tmp') = {} /\ nb_distributed' \in 0 .. Len(tmp')
    BY <2>1, EmptyIs, RangeEmpty
  <2>3. failures' \in Nat
    BY <2>1 DEF TypeInv, Typed
  <2>4. apc' = "clone" => i < times
    BY <2>1 DEF TypeInv, Typed
  <2>5. apc' \in {"idle", "clone"}
    BY <2>1
  <2>6. Typed'
    BY <1>1, <2>1, <2>2, <2>3, <2>5 DEF TypeInv, Typed, Ring, shapeVars, coreVars, nicVars
  <2>7. Places'
    BY <1>1, <2>1, <2>2, <2>4, <2>5 DEF TypeInv, Places, Ring, shapeVars, coreVars, nicVars
  <2> QED
    BY <2>6, <2>7 DEF TypeInv
<1> QED
  BY <1>2, <1>3

LEMMA TargetIs ==
    ASSUME Typed, NextTarget, target \in Ring, ring_num' = ring_num
    PROVE  /\ target' \in Nat /\ apc' \in {"try", "while"}
           /\ apc' = "try" => target' \in Ring'
BY DEF Typed, NextTarget, Ring

LEMMA TypeTryRing ==
    ASSUME TypeInv, TryRing
    PROVE  TypeInv'
<1>1. /\ UNCHANGED <<shapeVars, callVars, nb_distributed, txring, coreVars, nicVars, pool, process>>
      /\ apc = "try" /\ target \in Ring
      /\ NextTarget \/ (apc' = "enqueue" /\ target' = target)
  BY DEF TryRing, TypeInv, Places
<1>2. target' \in Nat /\ apc' \in {"try", "while", "enqueue"}
      /\ (apc' \in {"try", "enqueue"} => target' \in Ring')
  <2>1. CASE NextTarget
    BY <1>1, <2>1, TargetIs DEF TypeInv, shapeVars
  <2>2. CASE apc' = "enqueue" /\ target' = target
    BY <1>1, <2>2 DEF TypeInv, Typed, shapeVars, Ring
  <2> QED
    BY <1>1, <2>1, <2>2
<1>3. Typed'
  BY <1>1, <1>2 DEF TypeInv, Typed, Ring, shapeVars, callVars, coreVars, nicVars
<1>4. Places'
  BY <1>1, <1>2 DEF TypeInv, Places, Ring, shapeVars, callVars, coreVars, nicVars
<1> QED
  BY <1>3, <1>4 DEF TypeInv

LEMMA DistributeIs ==
    ASSUME TypeInv, Distribute
    PROVE  /\ UNCHANGED <<shapeVars, callVars, coreVars, nicVars, pool, process>>
           /\ apc = "enqueue" /\ target \in Ring /\ NextTarget
           /\ txring' = [txring EXCEPT ![target] = txring[target] \o Burst1]
           /\ nb_distributed' = nb_distributed + Piece
           /\ txring[target] \in Seq(Nat)
<1>1. apc = "enqueue" /\ target \in Ring /\ txring[target] \in Seq(Nat)
  BY DEF Distribute, TypeInv, Typed, Places
<1>2. Len(Burst1) = Piece
  BY <1>1, PieceIs DEF TypeInv
<1> QED
  BY <1>1, <1>2 DEF Distribute, Burst1, Piece

LEMMA TypeDistribute ==
    ASSUME TypeInv, Distribute
    PROVE  TypeInv'
<1>1. /\ UNCHANGED <<shapeVars, callVars, coreVars, nicVars, pool, process>>
      /\ apc = "enqueue" /\ target \in Ring /\ NextTarget
      /\ txring' = [txring EXCEPT ![target] = txring[target] \o Burst1]
      /\ nb_distributed' = nb_distributed + Piece
      /\ txring[target] \in Seq(Nat)
  BY DistributeIs
<1>2. /\ Piece \in 0 .. Len(tmp) - nb_distributed /\ Piece <= RingSize - Len(txring[target])
      /\ Burst1 \in Seq(Nat) /\ Len(Burst1) = Piece
  BY <1>1, PieceIs DEF TypeInv
<1>3. txring[target] \o Burst1 \in Seq(Nat) /\ Len(txring[target] \o Burst1) <= RingSize
  <2>1. Len(txring[target]) \in Nat
    BY <1>1, LenProperties
  <2>2. /\ txring[target] \o Burst1 \in Seq(Nat)
        /\ Len(txring[target] \o Burst1) = Len(txring[target]) + Piece
    BY <1>1, <1>2, ConcatProperties
  <2> QED
    BY <1>2, <2>1, <2>2, Constants
<1>4. txring' \in [Ring -> Seq(Nat)] /\ \A r \in Ring : Len(txring'[r]) <= RingSize
  <2> DEFINE q == txring[target] \o Burst1
  <2>1. q \in Seq(Nat) /\ Len(q) <= RingSize /\ txring' = [txring EXCEPT ![target] = q]
    BY <1>1, <1>3
  <2> HIDE DEF q
  <2> QED
    BY <1>1, <2>1 DEF TypeInv, Typed
<1>5. nb_distributed' \in 0 .. Len(tmp)
  <2>1. Len(tmp) \in Nat /\ nb_distributed \in 0 .. Len(tmp)
    BY LenProperties DEF TypeInv, Typed
  <2> QED
    BY <1>1, <1>2, <2>1
<1>6. /\ target' \in Nat /\ apc' \in {"try", "while"}
      /\ apc' = "try" => target' \in Ring'
  BY <1>1, TargetIs DEF TypeInv, shapeVars
<1>7. Typed'
  BY <1>1, <1>4, <1>5, <1>6 DEF TypeInv, Typed, Ring, shapeVars, callVars, coreVars, nicVars
<1>8. Places'
  BY <1>1, <1>6 DEF TypeInv, Places, Ring, shapeVars, callVars, coreVars, nicVars
<1> QED
  BY <1>7, <1>8 DEF TypeInv

-----------------------------------------------------------------------------
(* What the lcore and the NIC do keeps the types. *)

LEMMA TypeTestEmpty ==
    ASSUME TypeInv, TestEmpty
    PROVE  TypeInv'
<1>1. /\ UNCHANGED <<shapeVars, apc, callVars, distVars, txring, bufs, v_tx, txsize, nicVars, pool>>
      /\ cpc = "test" /\ cpc' \in {"test", "dequeue"} /\ process' \in {"run", "crashed"}
      /\ NextTurn \/ UNCHANGED <<ring, queue>>
  BY DEF TestEmpty, TypeInv, Typed
<1>2. ring' \in Ring /\ queue' \in 0 .. queue_num - 1
  BY <1>1, TurnIs DEF TypeInv, Typed
<1>3. Typed'
  BY <1>1, <1>2 DEF TypeInv, Typed, Ring, shapeVars, callVars, distVars, nicVars
<1>4. Places'
  BY <1>1 DEF TypeInv, Places, Ring, shapeVars, callVars, distVars, nicVars
<1> QED
  BY <1>3, <1>4 DEF TypeInv

LEMMA DequeueIs ==
    ASSUME TypeInv, DequeueBurst
    PROVE  /\ UNCHANGED <<shapeVars, apc, callVars, distVars, txsize, nicVars, pool, process>>
           /\ cpc = "dequeue" /\ bufs = <<>> /\ v_tx = 0 /\ v_tx' = 0
           /\ txring' = [txring EXCEPT ![ring] = SubSeq(txring[ring], Got + 1, Len(txring[ring]))]
           /\ bufs' = SubSeq(txring[ring], 1, Got)
           /\ bufs' \in Seq(Nat) /\ Len(bufs') = Got /\ Got \in 0 .. Len(txring[ring])
           /\ SubSeq(txring[ring], Got + 1, Len(txring[ring])) \in Seq(Nat)
           /\ Len(SubSeq(txring[ring], Got + 1, Len(txring[ring]))) = Len(txring[ring]) - Got
           /\ txring[ring] \in Seq(Nat) /\ Len(txring[ring]) \in Nat
           /\ \/ Got > 0 /\ cpc' = "transmit" /\ UNCHANGED <<ring, queue>>
              \/ Got = 0 /\ cpc' = "test" /\ NextTurn
<1>1. /\ Got \in 0 .. Len(txring[ring]) /\ txring[ring] \in Seq(Nat) /\ Len(txring[ring]) \in Nat
  BY GotIs DEF TypeInv
<1>2. /\ SubSeq(txring[ring], 1, Got) \in Seq(Nat) /\ Len(SubSeq(txring[ring], 1, Got)) = Got
      /\ SubSeq(txring[ring], Got + 1, Len(txring[ring])) \in Seq(Nat)
      /\ Len(SubSeq(txring[ring], Got + 1, Len(txring[ring]))) = Len(txring[ring]) - Got
  <2> DEFINE s == txring[ring]
  <2>1. s \in Seq(Nat) /\ Got \in 0 .. Len(s)
    BY <1>1
  <2> HIDE DEF s
  <2>2. /\ SubSeq(s, 1, Got) \in Seq(Nat) /\ Len(SubSeq(s, 1, Got)) = Got
        /\ SubSeq(s, Got + 1, Len(s)) \in Seq(Nat)
        /\ Len(SubSeq(s, Got + 1, Len(s))) = Len(s) - Got
    BY <2>1, CutIs
  <2> QED
    BY <2>2 DEF s
<1>3. /\ UNCHANGED <<shapeVars, apc, callVars, distVars, txsize, nicVars, pool, process>>
      /\ cpc = "dequeue" /\ v_tx' = 0
      /\ txring' = [txring EXCEPT ![ring] = SubSeq(txring[ring], Got + 1, Len(txring[ring]))]
      /\ bufs' = SubSeq(txring[ring], 1, Got)
      /\ \/ Got > 0 /\ cpc' = "transmit" /\ UNCHANGED <<ring, queue>>
         \/ Got = 0 /\ cpc' = "test" /\ NextTurn
  BY DEF DequeueBurst, Got
<1>4. bufs = <<>> /\ v_tx = 0
  BY <1>3 DEF TypeInv, Places
<1> QED
  BY <1>1, <1>2, <1>3, <1>4

LEMMA TypeDequeue ==
    ASSUME TypeInv, DequeueBurst
    PROVE  TypeInv'
<1> DEFINE q == SubSeq(txring[ring], Got + 1, Len(txring[ring]))
<1>1. /\ UNCHANGED <<shapeVars, apc, callVars, distVars, txsize, nicVars, pool, process>>
      /\ v_tx' = 0 /\ txring' = [txring EXCEPT ![ring] = q] /\ q \in Seq(Nat)
      /\ bufs' \in Seq(Nat) /\ Len(bufs') = Got /\ Got \in Nat
      /\ Len(q) = Len(txring[ring]) - Got /\ Len(txring[ring]) \in Nat
      /\ \/ Got > 0 /\ cpc' = "transmit" /\ UNCHANGED <<ring, queue>>
         \/ Got = 0 /\ cpc' = "test" /\ NextTurn
  BY DequeueIs
<1> HIDE DEF q
<1>2. ring' \in Ring /\ queue' \in 0 .. queue_num - 1
  BY <1>1, TurnIs DEF TypeInv, Typed
<1>3. txring' \in [Ring -> Seq(Nat)] /\ \A r \in Ring : Len(txring'[r]) <= RingSize
  <2>1. ring \in Ring /\ Len(txring[ring]) <= RingSize
    BY DEF TypeInv, Typed
  <2>2. Len(q) <= RingSize
    BY <1>1, <2>1, Constants
  <2> QED
    BY <1>1, <2>1, <2>2 DEF TypeInv, Typed
<1>4. v_tx' \in 0 .. Len(bufs')
  BY <1>1
<1>5. cpc' \in {"test", "transmit"}
  BY <1>1
<1>6. Typed'
  BY <1>1, <1>2, <1>3, <1>4, <1>5 DEF TypeInv, Typed, Ring, shapeVars, callVars, distVars, nicVars
<1>7. cpc' # "transmit" => bufs' = <<>>
  <2> SUFFICES ASSUME Got = 0 PROVE bufs' = <<>>
    BY <1>1
  <2> QED
    BY <1>1, EmptySeq
<1>8. Places'
  BY <1>1, <1>7 DEF TypeInv, Places, Ring, shapeVars, callVars, distVars, nicVars
<1> QED
  BY <1>6, <1>8 DEF TypeInv

LEMMA TxBurstIs ==
    ASSUME TypeInv, NEW k \in Nat, TxBurst(k)
    PROVE  /\ UNCHANGED <<shapeVars, apc, callVars, distVars, txring, completed, pool, process>>
           /\ cpc = "transmit" /\ k <= Len(bufs) - v_tx
           /\ wire' = wire \o Pairs(Offered(k), ring)
           /\ Pairs(Offered(k), ring) \in Seq(Sent) /\ Len(Pairs(Offered(k), ring)) = k
           /\ Offered(k) \in Seq(Nat) /\ Len(Offered(k)) = k
           /\ wire' \in Seq(Sent) /\ Len(wire') = Len(wire) + k /\ Len(wire) \in Nat
           /\ wire \in Seq(Sent) /\ ring \in Nat /\ ring \in Ring
           /\ bufs \in Seq(Nat) /\ v_tx \in 0 .. Len(bufs) /\ Len(bufs) \in Nat
           /\ \/ /\ v_tx + k < Len(bufs) /\ v_tx' = v_tx + k /\ txsize' = txsize
                 /\ UNCHANGED <<cpc, bufs, ring, queue>>
              \/ /\ v_tx + k = Len(bufs) /\ cpc' = "test" /\ v_tx' = 0 /\ bufs' = <<>>
                 /\ txsize' = txsize + Len(bufs) /\ NextTurn
<1>1. /\ bufs \in Seq(Nat) /\ v_tx \in 0 .. Len(bufs) /\ wire \in Seq(Sent) /\ ring \in Nat
      /\ Len(bufs) \in Nat /\ Len(wire) \in Nat /\ ring \in Ring /\ txsize \in Nat
  BY LenProperties DEF TypeInv, Typed, Ring
<1>2. /\ UNCHANGED <<shapeVars, apc, callVars, distVars, txring, completed, pool, process>>
      /\ cpc = "transmit" /\ k <= Len(bufs) - v_tx
      /\ wire' = wire \o [j \in 1 .. k |-> [n |-> Offered(k)[j], r |-> ring]]
      /\ txsize' = txsize + Counted(k)
      /\ \/ /\ v_tx + k < Len(bufs) /\ v_tx' = v_tx + k
            /\ UNCHANGED <<cpc, bufs, ring, queue>>
         \/ /\ v_tx + k = Len(bufs) /\ cpc' = "test" /\ v_tx' = 0 /\ bufs' = <<>>
            /\ NextTurn
  BY DEF TxBurst
<1>3. /\ Offered(k) \in Seq(Nat) /\ Len(Offered(k)) = k
      /\ [j \in 1 .. k |-> [n |-> Offered(k)[j], r |-> ring]] = Pairs(Offered(k), ring)
  BY <1>2, OfferedIs DEF TypeInv
<1>4. Pairs(Offered(k), ring) \in Seq(Sent) /\ Len(Pairs(Offered(k), ring)) = k
  BY <1>1, <1>3, PairsIs
<1>5. wire' \in Seq(Sent) /\ Len(wire') = Len(wire) + k
  BY <1>1, <1>2, <1>3, <1>4, ConcatProperties
<1>6. /\ v_tx + k < Len(bufs) => Counted(k) = 0
      /\ v_tx + k = Len(bufs) => Counted(k) = Len(bufs)
  BY <1>1 DEF Counted
<1>7. /\ v_tx + k < Len(bufs) => txsize' = txsize
      /\ v_tx + k = Len(bufs) => txsize' = txsize + Len(bufs)
  BY <1>1, <1>2, <1>6
<1> QED
  BY <1>1, <1>2, <1>3, <1>4, <1>5, <1>7

LEMMA TypeTxBurst ==
    ASSUME TypeInv, NEW k \in Nat, TxBurst(k)
    PROVE  TypeInv'
<1>1. /\ UNCHANGED <<shapeVars, apc, callVars, distVars, txring, completed, pool, process>>
      /\ cpc = "transmit"
      /\ wire' \in Seq(Sent) /\ Len(wire') = Len(wire) + k /\ Len(wire) \in Nat
      /\ bufs \in Seq(Nat) /\ v_tx \in 0 .. Len(bufs) /\ Len(bufs) \in Nat
      /\ \/ /\ v_tx + k < Len(bufs) /\ v_tx' = v_tx + k /\ txsize' = txsize
            /\ UNCHANGED <<cpc, bufs, ring, queue>>
         \/ /\ v_tx + k = Len(bufs) /\ cpc' = "test" /\ v_tx' = 0 /\ bufs' = <<>>
            /\ txsize' = txsize + Len(bufs) /\ NextTurn
  BY TxBurstIs
<1>2. ring' \in Ring /\ queue' \in 0 .. queue_num - 1
  BY <1>1, TurnIs DEF TypeInv, Typed
<1>3. bufs' \in Seq(Nat) /\ v_tx' \in 0 .. Len(bufs')
  <2>1. CASE v_tx + k < Len(bufs)
    <3>1. v_tx' = v_tx + k /\ bufs' = bufs
      BY <1>1, <2>1
    <3> QED
      BY <1>1, <2>1, <3>1
  <2>2. CASE bufs' = <<>> /\ v_tx' = 0
    BY <2>2, EmptyIs
  <2> QED
    BY <1>1, <2>1, <2>2
<1>4. txsize' \in Nat /\ completed' \in 0 .. Len(wire') /\ cpc' \in {"test", "transmit"}
  <2>1. txsize \in Nat /\ completed \in 0 .. Len(wire)
    BY DEF TypeInv, Typed
  <2>2. txsize' \in Nat
    BY <1>1, <2>1
  <2>3. completed' \in 0 .. Len(wire')
    BY <1>1, <2>1
  <2>4. cpc' \in {"test", "transmit"}
    BY <1>1
  <2> QED
    BY <2>2, <2>3, <2>4
<1>5. Typed'
  BY <1>1, <1>2, <1>3, <1>4 DEF TypeInv, Typed, Ring, shapeVars, callVars, distVars
<1>6. Places'
  BY <1>1 DEF TypeInv, Places, Ring, shapeVars, callVars, distVars
<1> QED
  BY <1>5, <1>6 DEF TypeInv

LEMMA TypeNicFree ==
    ASSUME TypeInv, NicFree
    PROVE  TypeInv'
<1>1. /\ UNCHANGED <<shapeVars, apc, callVars, distVars, txring, coreVars, wire, process>>
      /\ completed < Len(wire) /\ completed' = completed + 1 /\ pool' = pool + 1
  BY DEF NicFree
<1>2. completed' \in 0 .. Len(wire) /\ pool' \in Nat
  <2>1. Len(wire) \in Nat /\ completed \in 0 .. Len(wire) /\ pool \in Nat
    BY LenProperties DEF TypeInv, Typed
  <2> QED
    BY <1>1, <2>1
<1>3. Typed'
  BY <1>1, <1>2 DEF TypeInv, Typed, Ring, shapeVars, callVars, distVars, coreVars
<1>4. Places'
  BY <1>1 DEF TypeInv, Places, Ring, shapeVars, callVars, distVars, coreVars
<1> QED
  BY <1>3, <1>4 DEF TypeInv

LEMMA TypeSame ==
    ASSUME TypeInv, UNCHANGED vars
    PROVE  TypeInv'
BY DEF TypeInv, Typed, Places, Ring, vars, shapeVars, callVars, distVars, coreVars, nicVars

(* The calls of Next *)
LEMMA CallsAre ==
    /\ \A n \in Times : SendPacket(n) => n \in Nat \ {0} /\ Burst \in Nat /\ Call(n, Burst)
    /\ ReadTraffic => Traffic \in Nat \ {0} /\ Call(Traffic, Traffic)
BY Constants DEF SendPacket, ReadTraffic

LEMMA BurstsAre == 0 .. Burst \subseteq Nat
BY Constants

LEMMA TypeInvariant == Spec => []TypeInv
<1>1. TypeInv /\ [Next]_vars => TypeInv'
  <2> SUFFICES ASSUME TypeInv, [Next]_vars PROVE TypeInv'
    OBVIOUS
  <2>1. CASE \E n \in Times : SendPacket(n)
    BY <2>1, CallsAre, TypeCall
  <2>2. CASE ReadTraffic
    BY <2>2, CallsAre, TypeCall
  <2>3. CASE AppStep
    BY <2>3, TypeClone, TypeCloneFails, TypeDistributed, TypeTryRing, TypeDistribute DEF AppStep
  <2>4. CASE TestEmpty \/ DequeueBurst \/ NicFree
    BY <2>4, TypeTestEmpty, TypeDequeue, TypeNicFree
  <2>5. CASE \E k \in 0 .. Burst : TxBurst(k)
    BY <2>5, BurstsAre, TypeTxBurst
  <2>6. CASE Crashed \/ UNCHANGED vars
    BY <2>6, TypeSame DEF Crashed
  <2> QED
    BY <2>1, <2>2, <2>3, <2>4, <2>5, <2>6 DEF Next
<1> QED
  BY <1>1, TypeInit, PTL DEF Spec

-----------------------------------------------------------------------------
(* Where the packets are, and how a step moves them: from the front of one *)
(* queue to the end of another                                             *)

LEMMA WholeIs ==
    ASSUME NEW s \in Seq(Nat)
    PROVE  SubSeq(s, 1, Len(s)) = s /\ SubSeq(s, Len(s) + 1, Len(s)) = <<>>
<1>1. Len(s) \in Nat /\ Len(s) \in 0 .. Len(s) /\ 0 \in 0 .. Len(s)
  BY LenProperties
<1> DEFINE t == SubSeq(s, 1, Len(s))
           u == SubSeq(s, Len(s) + 1, Len(s))
<1>2. /\ t \in Seq(Nat) /\ Len(t) = Len(s) /\ \A j \in 1 .. Len(s) : t[j] = s[j]
      /\ u \in Seq(Nat) /\ Len(u) = Len(s) - Len(s)
  BY <1>1, CutIs
<1> HIDE DEF t, u
<1>3. t = s
  BY <1>2, SeqEqual
<1>4. Len(u) = 0
  BY <1>1, <1>2
<1>5. u = <<>>
  BY <1>2, <1>4, EmptySeq
<1> QED
  BY <1>3, <1>5 DEF t, u

LEMMA InCallIs ==
    ASSUME Typed
    PROVE  /\ InCall \in Seq(Nat) /\ Len(InCall) = Len(tmp) - nb_distributed /\ Len(InCall) \in Nat
           /\ nb_distributed = 0 => InCall = tmp
           /\ nb_distributed >= Len(tmp) => InCall = <<>>
<1>1. tmp \in Seq(Nat) /\ nb_distributed \in 0 .. Len(tmp) /\ Len(tmp) \in Nat
  BY LenProperties DEF Typed
<1>2. InCall \in Seq(Nat) /\ Len(InCall) = Len(tmp) - nb_distributed
  BY <1>1, CutIs DEF InCall
<1>3. nb_distributed = 0 => InCall = tmp
  BY <1>1, WholeIs DEF InCall
<1>4. nb_distributed >= Len(tmp) => Len(InCall) = 0
  BY <1>1, <1>2
<1> QED
  BY <1>1, <1>2, <1>3, <1>4, EmptySeq

LEMMA InCoreIs ==
    ASSUME Typed
    PROVE  /\ InCore \in Seq(Nat) /\ Len(InCore) = Len(bufs) - v_tx /\ Len(InCore) \in Nat
           /\ v_tx = 0 => InCore = bufs
<1>1. bufs \in Seq(Nat) /\ v_tx \in 0 .. Len(bufs) /\ Len(bufs) \in Nat
  BY LenProperties DEF Typed
<1>2. InCore \in Seq(Nat) /\ Len(InCore) = Len(bufs) - v_tx
  BY <1>1, CutIs DEF InCore
<1>3. v_tx = 0 => InCore = bufs
  BY <1>1, WholeIs DEF InCore
<1> QED
  BY <1>1, <1>2, <1>3

(* Clones are made behind the others. *)
LEMMA CloneMoves ==
    ASSUME TypeInv, TypeInv', Clone
    PROVE  /\ InCall = tmp /\ InCall' = tmp' /\ tmp' = Append(tmp, cloned + 1)
           /\ cloned' = cloned + 1 /\ apc = "clone" /\ tmp \in Seq(Nat) /\ cloned + 1 \in Nat
           /\ UNCHANGED <<InCore, ring, txring, wire, v_tx, txsize, lost, completed, shapeVars>>
           /\ pool' = pool - 1
<1>1. nb_distributed = 0
  BY DEF Clone, TypeInv, Places
<1>2. InCall = tmp
  BY <1>1, InCallIs DEF TypeInv
<1>3. InCall' = tmp'
  <2>1. nb_distributed' = 0
    BY DEF Clone
  <2>2. tmp' \in Seq(Nat)
    BY DEF TypeInv, Typed
  <2> QED
    BY <2>1, <2>2, WholeIs DEF InCall
<1> QED
  BY <1>2, <1>3 DEF Clone, InCore, coreVars, nicVars, TypeInv, Typed

LEMMA CloneFailsMoves ==
    ASSUME TypeInv, TypeInv', CloneFails
    PROVE  /\ InCall = tmp /\ InCall' = tmp' /\ apc = "clone" /\ apc' = "while" /\ tmp \in Seq(Nat)
           /\ \/ tmp = <<>> /\ tmp' = <<>> /\ lost' = lost
              \/ /\ tmp # <<>> /\ tmp' = SubSeq(tmp, 1, Len(tmp) - 1)
                 /\ lost' = lost \cup {tmp[Len(tmp)]}
           /\ UNCHANGED <<InCore, ring, txring, wire, v_tx, txsize, cloned, completed, pool,
                          shapeVars>>
<1>1. nb_distributed = 0
  BY DEF CloneFails, TypeInv, Places
<1>2. InCall = tmp
  BY <1>1, InCallIs DEF TypeInv
<1>3. InCall' = tmp'
  <2>1. nb_distributed' = 0
    BY DEF CloneFails
  <2>2. tmp' \in Seq(Nat)
    BY DEF TypeInv, Typed
  <2> QED
    BY <2>1, <2>2, WholeIs DEF InCall
<1> QED
  BY <1>2, <1>3 DEF CloneFails, InCore, coreVars, nicVars, TypeInv, Typed

(* A burst goes into a ring. *)
LEMMA DistributeMoves ==
    ASSUME TypeInv, TypeInv', Distribute
    PROVE  /\ target \in Ring /\ Piece \in 0 .. Len(InCall) /\ InCall \in Seq(Nat)
           /\ txring' = [txring EXCEPT ![target] = txring[target] \o SubSeq(InCall, 1, Piece)]
           /\ InCall' = SubSeq(InCall, Piece + 1, Len(InCall))
           /\ txring[target] \in Seq(Nat)
           /\ UNCHANGED <<InCore, ring, wire, v_tx, txsize, lost, cloned, completed, pool,
                          shapeVars>>
           /\ apc' # "clone"
<1>1. /\ UNCHANGED <<shapeVars, callVars, coreVars, nicVars, pool, process>>
      /\ apc = "enqueue" /\ target \in Ring /\ NextTarget
      /\ txring' = [txring EXCEPT ![target] = txring[target] \o Burst1]
      /\ nb_distributed' = nb_distributed + Piece
      /\ txring[target] \in Seq(Nat)
  BY DistributeIs
<1>2. /\ Piece \in 0 .. Len(tmp) - nb_distributed
      /\ Burst1 = SubSeq(tmp, nb_distributed + 1, nb_distributed + Piece)
  BY <1>1, PieceIs DEF TypeInv
<1>3. /\ tmp \in Seq(Nat) /\ nb_distributed \in 0 .. Len(tmp)
      /\ InCall \in Seq(Nat) /\ Len(InCall) = Len(tmp) - nb_distributed
  BY InCallIs DEF TypeInv, Typed
<1>4. /\ SubSeq(tmp, nb_distributed + 1, nb_distributed + Piece) = SubSeq(InCall, 1, Piece)
      /\ SubSeq(tmp, nb_distributed + Piece + 1, Len(tmp)) = SubSeq(InCall, Piece + 1, Len(InCall))
  BY <1>2, <1>3, CutOfRest DEF InCall
<1>5. tmp' = tmp
  BY <1>1 DEF callVars
<1>6. InCall' = SubSeq(tmp, nb_distributed + Piece + 1, Len(tmp))
  BY <1>1, <1>5 DEF InCall
<1>7. apc' # "clone"
  BY <1>1 DEF NextTarget
<1>8. UNCHANGED <<InCore, ring, wire, v_tx, txsize, lost, cloned, completed>>
  BY <1>1 DEF InCore, callVars, coreVars, nicVars
<1> QED
  BY <1>1, <1>2, <1>3, <1>4, <1>6, <1>7, <1>8

(* A burst leaves a ring for the lcore. *)
LEMMA DequeueMoves ==
    ASSUME TypeInv, TypeInv', DequeueBurst
    PROVE  /\ ring \in Ring /\ Got \in 0 .. Len(txring[ring]) /\ txring[ring] \in Seq(Nat)
           /\ txring' = [txring EXCEPT ![ring] = SubSeq(txring[ring], Got + 1, Len(txring[ring]))]
           /\ InCore = <<>> /\ InCore' = SubSeq(txring[ring], 1, Got)
           /\ ring' = ring \/ InCore' = <<>>
           /\ ring' \in Ring
           /\ v_tx = 0 /\ v_tx' = 0
           /\ UNCHANGED <<apc, tmp, InCall, wire, txsize, lost, cloned, completed, pool, shapeVars>>
<1>1. /\ UNCHANGED <<shapeVars, apc, callVars, distVars, txsize, nicVars, pool, process>>
      /\ cpc = "dequeue" /\ bufs = <<>> /\ v_tx = 0 /\ v_tx' = 0
      /\ txring' = [txring EXCEPT ![ring] = SubSeq(txring[ring], Got + 1, Len(txring[ring]))]
      /\ bufs' = SubSeq(txring[ring], 1, Got)
      /\ bufs' \in Seq(Nat) /\ Len(bufs') = Got /\ Got \in 0 .. Len(txring[ring])
      /\ txring[ring] \in Seq(Nat) /\ Len(txring[ring]) \in Nat
      /\ \/ Got > 0 /\ cpc' = "transmit" /\ UNCHANGED <<ring, queue>>
         \/ Got = 0 /\ cpc' = "test" /\ NextTurn
  BY DequeueIs
<1>2. InCore = <<>>
  BY <1>1, InCoreIs DEF TypeInv
<1>3. InCore' = bufs'
  BY <1>1, WholeIs DEF InCore
<1>4. Got = 0 => bufs' = <<>>
  BY <1>1, EmptySeq
<1>5. ring \in Ring /\ ring' \in Ring
  <2>1. ring \in Ring
    BY DEF TypeInv, Typed
  <2>2. ring' \in Ring
    BY <1>1, <2>1, TurnIs DEF TypeInv
  <2> QED
    BY <2>1, <2>2
<1>6. UNCHANGED <<tmp, InCall, wire, lost, cloned, completed>>
  BY <1>1 DEF InCall, callVars, distVars, nicVars
<1> QED
  BY <1>1, <1>2, <1>3, <1>4, <1>5, <1>6

(* The NIC takes the front of the burst. *)
LEMMA TxBurstMoves ==
    ASSUME TypeInv, TypeInv', NEW k \in Nat, TxBurst(k)
    PROVE  /\ ring \in Ring /\ k \in 0 .. Len(InCore) /\ InCore \in Seq(Nat)
           /\ wire' = wire \o Pairs(SubSeq(InCore, 1, k), ring)
           /\ SubSeq(InCore, 1, k) \in Seq(Nat) /\ Len(SubSeq(InCore, 1, k)) = k
           /\ InCore' = SubSeq(InCore, k + 1, Len(InCore))
           /\ ring' = ring \/ InCore' = <<>>
           /\ ring' \in Ring
           /\ UNCHANGED <<apc, tmp, InCall, txring, lost, cloned, completed, pool, shapeVars>>
           /\ txsize = Len(wire) - v_tx => txsize' = Len(wire') - v_tx'
           /\ Len(wire') = Len(wire) + k
<1>1. /\ UNCHANGED <<shapeVars, apc, callVars, distVars, txring, completed, pool, process>>
      /\ k <= Len(bufs) - v_tx
      /\ wire' = wire \o Pairs(Offered(k), ring)
      /\ Len(wire') = Len(wire) + k /\ Len(wire) \in Nat
      /\ ring \in Ring
      /\ bufs \in Seq(Nat) /\ v_tx \in 0 .. Len(bufs) /\ Len(bufs) \in Nat
      /\ \/ /\ v_tx + k < Len(bufs) /\ v_tx' = v_tx + k /\ txsize' = txsize
            /\ UNCHANGED <<cpc, bufs, ring, queue>>
         \/ /\ v_tx + k = Len(bufs) /\ cpc' = "test" /\ v_tx' = 0 /\ bufs' = <<>>
            /\ txsize' = txsize + Len(bufs) /\ NextTurn
  BY TxBurstIs
<1>2. InCore \in Seq(Nat) /\ Len(InCore) = Len(bufs) - v_tx
  BY InCoreIs DEF TypeInv
<1>3. k \in 0 .. Len(bufs) - v_tx /\ k \in 0 .. Len(InCore)
  BY <1>1, <1>2
<1>4. /\ Offered(k) = SubSeq(InCore, 1, k)
      /\ SubSeq(bufs, v_tx + k + 1, Len(bufs)) = SubSeq(InCore, k + 1, Len(InCore))
  BY <1>1, <1>3, CutOfRest DEF Offered, InCore
<1>5. SubSeq(InCore, 1, k) \in Seq(Nat) /\ Len(SubSeq(InCore, 1, k)) = k
  BY <1>2, <1>3, CutIs
<1>6. ring' \in Ring
  BY <1>1, TurnIs DEF TypeInv
<1>7. /\ InCore' = SubSeq(InCore, k + 1, Len(InCore))
      /\ ring' = ring \/ InCore' = <<>>
  <2>1. CASE v_tx + k < Len(bufs) /\ v_tx' = v_tx + k /\ UNCHANGED <<cpc, bufs, ring, queue>>
    <3>1. InCore' = SubSeq(bufs, v_tx + k + 1, Len(bufs))
      BY <2>1 DEF InCore
    <3> QED
      BY <1>4, <2>1, <3>1
  <2>2. CASE v_tx + k = Len(bufs) /\ v_tx' = 0 /\ bufs' = <<>>
    <3>1. InCore' = <<>>
      <4>1. <<>> \in Seq(Nat)
        BY EmptyIs
      <4>2. SubSeq(<<>>, 1, Len(<<>>)) = <<>>
        BY <4>1, WholeIs
      <4>3. v_tx' + 1 = 1
        BY <2>2
      <4> QED
        BY <2>2, <4>2, <4>3 DEF InCore
    <3>2. k = Len(InCore)
      BY <1>1, <1>2, <2>2
    <3>3. SubSeq(InCore, k + 1, Len(InCore)) = <<>>
      BY <1>2, <3>2, WholeIs
    <3> QED
      BY <3>1, <3>3
  <2> QED
    BY <1>1, <2>1, <2>2
<1>8. txsize = Len(wire) - v_tx => txsize' = Len(wire') - v_tx'
  <2> SUFFICES ASSUME txsize = Len(wire) - v_tx PROVE txsize' = Len(wire') - v_tx'
    OBVIOUS
  <2>1. Len(wire') = Len(wire) + k /\ Len(wire) \in Nat /\ v_tx \in Nat /\ Len(bufs) \in Nat
    BY <1>1
  <2>2. CASE v_tx' = v_tx + k /\ txsize' = txsize
    BY <2>1, <2>2
  <2>3. CASE v_tx + k = Len(bufs) /\ v_tx' = 0 /\ txsize' = txsize + Len(bufs)
    BY <2>1, <2>3
  <2> QED
    BY <1>1, <2>2, <2>3
<1>9. UNCHANGED <<tmp, InCall, lost, cloned>>
  BY <1>1 DEF InCall, callVars, distVars
<1> QED
  BY <1>1, <1>2, <1>3, <1>4, <1>5, <1>6, <1>7, <1>8, <1>9

(* The other steps move nothing. *)
LEMMA OthersMove ==
    ASSUME TypeInv, TypeInv',
           \/ \E n \in Nat, size \in Nat : Call(n, size)
           \/ TestDistributed \/ TryRing \/ TestEmpty \/ NicFree \/ UNCHANGED vars
    PROVE  /\ UNCHANGED <<InCall, InCore, txring, wire, v_tx, txsize, lost, cloned, shapeVars>>
           /\ pool' - completed' = pool - completed
           /\ ring' = ring \/ InCore = <<>>
           /\ ring' \in Ring
           /\ apc' = "clone" => (apc = "clone" /\ tmp' = tmp) \/ tmp' = <<>>
<1>1. CASE \E n \in Nat, size \in Nat : Call(n, size)
  <2>1. /\ UNCHANGED <<shapeVars, cloned, lost, distVars, txring, coreVars, nicVars, pool>>
        /\ tmp' = <<>> /\ tmp = <<>>
    BY <1>1 DEF Call, TypeInv, Places
  <2> QED
    BY <2>1 DEF InCall, InCore, distVars, coreVars, nicVars, TypeInv, Typed, Ring, shapeVars
<1>2. CASE TestDistributed
  <2>1. /\ UNCHANGED <<shapeVars, cloned, lost, txring, coreVars, nicVars, pool>>
        /\ apc' = "clone" => tmp' = <<>>
    BY <1>2 DEF TestDistributed
  <2>2. InCall' = InCall
    <3>1. CASE UNCHANGED <<tmp, nb_distributed>>
      BY <3>1 DEF InCall
    <3>2. CASE nb_distributed >= Len(tmp) /\ tmp' = <<>> /\ nb_distributed' = 0
      <4>1. InCall = <<>>
        BY <3>2, InCallIs DEF TypeInv
      <4>2. <<>> \in Seq(Nat)
        BY EmptyIs
      <4>3. SubSeq(<<>>, 1, Len(<<>>)) = <<>>
        BY <4>2, WholeIs
      <4>4. nb_distributed' + 1 = 1
        BY <3>2
      <4> QED
        BY <3>2, <4>1, <4>3, <4>4 DEF InCall
    <3> QED
      BY <1>2, <3>1, <3>2 DEF TestDistributed
  <2> QED
    BY <2>1, <2>2 DEF InCore, coreVars, nicVars, TypeInv, Typed, Ring, shapeVars
<1>3. CASE TryRing
  <2>1. /\ UNCHANGED <<shapeVars, callVars, nb_distributed, txring, coreVars, nicVars, pool>>
        /\ apc' # "clone"
    BY <1>3 DEF TryRing, NextTarget
  <2> QED
    BY <2>1 DEF InCall, InCore, callVars, coreVars, nicVars, TypeInv, Typed, Ring, shapeVars
<1>4. CASE TestEmpty
  <2>1. /\ UNCHANGED <<shapeVars, apc, callVars, distVars, txring, bufs, v_tx, txsize, nicVars, pool>>
        /\ cpc = "test"
        /\ NextTurn \/ UNCHANGED <<ring, queue>>
    BY <1>4 DEF TestEmpty
  <2>2. bufs = <<>> /\ v_tx = 0 /\ ring \in Ring
    BY <1>4 DEF TestEmpty, TypeInv, Typed, Places
  <2>3. InCore = <<>>
    BY <2>2, InCoreIs DEF TypeInv
  <2>4. ring' \in Ring
    BY <2>1, <2>2, TurnIs DEF TypeInv
  <2> QED
    BY <2>1, <2>3, <2>4 DEF InCall, InCore, callVars, distVars, nicVars
<1>5. CASE NicFree
  <2>1. /\ UNCHANGED <<shapeVars, apc, callVars, distVars, txring, coreVars, wire>>
        /\ completed' = completed + 1 /\ pool' = pool + 1
    BY <1>5 DEF NicFree
  <2>2. completed \in Nat /\ pool \in Nat
    BY DEF TypeInv, Typed
  <2>3. pool' - completed' = pool - completed
    BY <2>1, <2>2
  <2> QED
    BY <2>1, <2>3 DEF InCall, InCore, callVars, distVars, coreVars, TypeInv, Typed, Ring, shapeVars
<1>6. CASE UNCHANGED vars
  BY <1>6 DEF vars, InCall, InCore, callVars, distVars, coreVars, nicVars, TypeInv, Typed, Ring, shapeVars
<1> QED
  BY <1>1, <1>2, <1>3, <1>4, <1>5, <1>6

-----------------------------------------------------------------------------
(* What is on the wire *)

Names(w) == {w[j].n : j \in 1 .. Len(w)}
NamesOf(w, r) == {w[j].n : j \in {k \in 1 .. Len(w) : w[k].r = r}}
InOrder(w) == \A j, k \in 1 .. Len(w) : j < k /\ w[j].r = w[k].r => w[j].n < w[k].n

Sorted(s) == \A j, k \in 1 .. Len(s) : j < k => s[j] < s[k]
Below(S, T) == \A x \in S, y \in T : x < y

LEMMA WireIs ==
    ASSUME Typed
    PROVE  DOMAIN wire = 1 .. Len(wire) /\ OnWire = Names(wire) /\ (RingOrder <=> InOrder(wire))
<1>1. wire \in Seq(Sent) /\ DOMAIN wire = 1 .. Len(wire)
  BY LenProperties DEF Typed
<1> QED
  BY <1>1 DEF OnWire, Names, RingOrder, InOrder

(* A burst of s from ring r joins it. *)
LEMMA WireGrows ==
    ASSUME NEW w \in Seq(Sent), NEW s \in Seq(Nat), NEW r \in Nat
    PROVE  LET g == w \o Pairs(s, r)
           IN  /\ Names(g) = Names(w) \cup Range(s)
               /\ NamesOf(g, r) = NamesOf(w, r) \cup Range(s)
               /\ \A q \in Nat \ {r} : NamesOf(g, q) = NamesOf(w, q)
               /\ InOrder(w) /\ Sorted(s) /\ Below(NamesOf(w, r), Range(s)) => InOrder(g)
<1> DEFINE p == Pairs(s, r)
           g == w \o p
           L == Len(w)
           N == Len(s)
<1>1. p \in Seq(Sent) /\ Len(p) = N /\ \A j \in 1 .. N : p[j].n = s[j] /\ p[j].r = r
  BY PairsIs
<1>2. /\ L \in Nat /\ N \in Nat /\ \A j \in 1 .. N : s[j] \in Nat
      /\ Range(s) = {s[j] : j \in 1 .. N}
  BY LenProperties, ElementOfSeq, RangeIs
<1> HIDE DEF p
<1>3. /\ Len(g) = L + N /\ \A j \in 1 .. L : g[j] = w[j]
      /\ \A j \in 1 .. N : g[L + j] = p[j]
  <2>1. /\ Len(w \o p) = Len(w) + Len(p) /\ \A j \in 1 .. Len(w) : (w \o p)[j] = w[j]
        /\ \A j \in 1 .. Len(p) : (w \o p)[Len(w) + j] = p[j]
    <3>1. w \in Seq(Sent) /\ p \in Seq(Sent)
      BY <1>1
    <3> HIDE DEF g, L, N
    <3> QED
      BY <3>1, JoinIs
  <2> QED
    BY <1>1, <2>1
<1> HIDE DEF g, L, N
<1>4. /\ \A j \in 1 .. L : j \in 1 .. Len(g)
      /\ \A j \in 1 .. N : L + j \in 1 .. Len(g) /\ g[L + j].n = s[j] /\ g[L + j].r = r
  <2>1. \A j \in 1 .. L : j \in 1 .. Len(g)
    BY <1>2, <1>3
  <2>2. \A j \in 1 .. N : L + j \in 1 .. Len(g)
    BY <1>2, <1>3
  <2>3. \A j \in 1 .. N : g[L + j].n = s[j] /\ g[L + j].r = r
    BY <1>1, <1>3
  <2> QED
    BY <2>1, <2>2, <2>3
<1>5. ASSUME NEW j \in 1 .. Len(g)
      PROVE  j \in 1 .. L \/ \E k \in 1 .. N : j = L + k
  <2>1. CASE j <= L
    BY <1>2, <1>3, <2>1
  <2>2. CASE ~(j <= L)
    <3>1. j - L \in 1 .. N /\ j = L + (j - L)
      BY <1>2, <1>3, <2>2
    <3> QED
      BY <3>1
  <2> QED
    BY <2>1, <2>2
<1>6. \A x : x \in Names(g) <=> x \in Names(w) \cup Range(s)
  <2>1. ASSUME NEW x \in Names(g) PROVE x \in Names(w) \cup Range(s)
    <3>1. PICK j \in 1 .. Len(g) : x = g[j].n
      BY DEF Names
    <3>2. CASE j \in 1 .. L
      BY <1>3, <3>1, <3>2 DEF Names, L
    <3>3. CASE \E k \in 1 .. N : j = L + k
      BY <1>2, <1>4, <3>1, <3>3
    <3> QED
      BY <1>5, <3>2, <3>3
  <2>2. ASSUME NEW x \in Names(w) PROVE x \in Names(g)
    <3>1. PICK j \in 1 .. L : x = w[j].n
      BY DEF Names, L
    <3>2. x = g[j].n /\ j \in 1 .. Len(g)
      BY <1>3, <1>4, <3>1
    <3> QED
      BY <3>2 DEF Names
  <2>3. ASSUME NEW x \in Range(s) PROVE x \in Names(g)
    <3>1. PICK j \in 1 .. N : x = s[j]
      BY <1>2
    <3>2. x = g[L + j].n /\ L + j \in 1 .. Len(g)
      BY <1>4, <3>1
    <3> QED
      BY <3>2 DEF Names
  <2> QED
    BY <2>1, <2>2, <2>3
<1>7. ASSUME NEW q \in Nat, NEW x
      PROVE  x \in NamesOf(g, q) <=> x \in NamesOf(w, q) \/ (q = r /\ x \in Range(s))
  <2>1. ASSUME x \in NamesOf(g, q) PROVE x \in NamesOf(w, q) \/ (q = r /\ x \in Range(s))
    <3>1. PICK j \in 1 .. Len(g) : x = g[j].n /\ g[j].r = q
      BY <2>1 DEF NamesOf
    <3>2. CASE j \in 1 .. L
      <4>1. x = w[j].n /\ w[j].r = q
        BY <1>3, <3>1, <3>2
      <4> QED
        BY <3>2, <4>1 DEF NamesOf, L
    <3>3. CASE \E k \in 1 .. N : j = L + k
      BY <1>2, <1>4, <3>1, <3>3
    <3> QED
      BY <1>5, <3>2, <3>3
  <2>2. ASSUME x \in NamesOf(w, q) PROVE x \in NamesOf(g, q)
    <3>1. PICK j \in 1 .. L : x = w[j].n /\ w[j].r = q
      BY <2>2 DEF NamesOf, L
    <3>2. x = g[j].n /\ g[j].r = q /\ j \in 1 .. Len(g)
      BY <1>3, <1>4, <3>1
    <3> QED
      BY <3>2 DEF NamesOf
  <2>3. ASSUME q = r, x \in Range(s) PROVE x \in NamesOf(g, q)
    <3>1. PICK j \in 1 .. N : x = s[j]
      BY <1>2, <2>3
    <3>2. x = g[L + j].n /\ g[L + j].r = q /\ L + j \in 1 .. Len(g)
      BY <1>4, <2>3, <3>1
    <3> QED
      BY <3>2 DEF NamesOf
  <2> QED
    BY <2>1, <2>2, <2>3
<1>8. ASSUME InOrder(w), Sorted(s), Below(NamesOf(w, r), Range(s))
      PROVE  InOrder(g)
  <2> SUFFICES ASSUME NEW j \in 1 .. Len(g), NEW k \in 1 .. Len(g), j < k, g[j].r = g[k].r
               PROVE  g[j].n < g[k].n
    BY DEF InOrder
  <2>1. CASE j \in 1 .. L /\ k \in 1 .. L
    BY <1>3, <1>8, <2>1 DEF InOrder, L
  <2>2. CASE j \in 1 .. L /\ \E b \in 1 .. N : k = L + b
    <3>1. PICK b \in 1 .. N : k = L + b
      BY <2>2
    <3>2. g[j] = w[j] /\ g[k].n = s[b] /\ g[k].r = r
      BY <1>3, <1>4, <2>2, <3>1
    <3>3. w[j].n \in NamesOf(w, r) /\ s[b] \in Range(s)
      BY <1>2, <2>2, <3>2 DEF NamesOf, L
    <3> QED
      BY <1>8, <3>2, <3>3 DEF Below
  <2>3. CASE (\E a \in 1 .. N : j = L + a) /\ (\E b \in 1 .. N : k = L + b)
    <3>1. PICK a \in 1 .. N, b \in 1 .. N : j = L + a /\ k = L + b
      BY <2>3
    <3>2. a < b
      BY <1>2, <3>1
    <3>3. s[a] < s[b]
      BY <1>8, <3>2 DEF Sorted, N
    <3> QED
      BY <1>4, <3>1, <3>3
  <2>4. ~(k \in 1 .. L /\ \E a \in 1 .. N : j = L + a)
    BY <1>2
  <2> QED
    BY <1>5, <2>1, <2>2, <2>3, <2>4
<1>9. /\ NamesOf(g, r) = NamesOf(w, r) \cup Range(s)
      /\ \A q \in Nat \ {r} : NamesOf(g, q) = NamesOf(w, q)
  BY <1>7
<1> QED
  BY <1>6, <1>8, <1>9 DEF g, p

-----------------------------------------------------------------------------
(* Every packet is in one place. *)

Lens == [r \in Ring |-> Len(txring[r])]
AllThere == Range(InCall) \cup InRings \cup Range(InCore) \cup OnWire \cup lost = 1 .. cloned
Numbers ==
    Len(InCall) + Sum(Lens, Ring) + Len(InCore) + Len(wire) + Cardinality(lost) = cloned

(* The clone that is lost when a call gives up is not one that was lost before. *)
LostFirst == apc = "clone" => Below(lost, Range(tmp))

CountInv ==
    /\ AllThere /\ Numbers /\ LostFirst
    /\ pool = NumMbufs - cloned + completed
    /\ txsize = Len(wire) - v_tx

LEMMA RingSet ==
    ASSUME Typed
    PROVE  /\ IsFiniteSet(Ring) /\ Rings = Ring /\ \A r \in Ring : Lens[r] \in Nat
           /\ \A x : x \in InRings <=> \E r \in Ring : x \in Range(txring[r])
<1>1. ring_num \in Nat /\ DOMAIN txring = Ring /\ \A r \in Ring : txring[r] \in Seq(Nat)
  BY DEF Typed
<1>2. IsFiniteSet(Ring)
  BY <1>1, FS_Interval DEF Ring
<1>3. \A r \in Ring : Lens[r] \in Nat
  BY <1>1, LenProperties DEF Lens
<1>4. \A x : x \in InRings <=> \E r \in Ring : x \in Range(txring[r])
  BY <1>1 DEF InRings, Rings
<1> QED
  BY <1>1, <1>2, <1>3, <1>4 DEF Rings

LEMMA LostIs ==
    ASSUME Typed
    PROVE  /\ IsFiniteSet(lost) /\ Cardinality(lost) \in Nat
           /\ \A x \in lost : x \in Nat
           /\ \A x : x \notin lost => Cardinality(lost \cup {x}) = Cardinality(lost) + 1
<1>1. lost \subseteq 1 .. cloned /\ cloned \in Nat
  BY DEF Typed
<1>2. IsFiniteSet(lost)
  <2>1. IsFiniteSet(1 .. cloned)
    BY <1>1, FS_Interval
  <2> QED
    BY <1>1, <2>1, FS_Subset
<1> QED
  BY <1>1, <1>2, FS_CardinalityType, FS_AddElement

LEMMA CountInit ==
    ASSUME Init, TypeInv
    PROVE  CountInv
<1>1. tmp = <<>> /\ bufs = <<>> /\ wire = <<>> /\ nb_distributed = 0 /\ v_tx = 0 /\ lost = {}
      /\ cloned = 0 /\ txsize = 0 /\ completed = 0 /\ pool = NumMbufs /\ apc = "idle"
  BY DEF Init
<1>2. InCall = <<>> /\ InCore = <<>>
  BY <1>1, InCallIs, InCoreIs DEF TypeInv
<1>3. \A r \in Ring : txring[r] = <<>> /\ Lens[r] = 0
  <2>1. \A r \in Ring : txring[r] = <<>>
    BY DEF Init, Ring
  <2> QED
    BY <2>1, EmptyIs DEF Lens
<1>4. Sum(Lens, Ring) = 0
  <2> HIDE DEF Lens
  <2> QED
    BY <1>3, RingSet, SumZero DEF TypeInv
<1>5. InRings = {} /\ OnWire = {}
  <2>1. \A x : x \notin InRings
    BY <1>3, RingSet, RangeEmpty DEF TypeInv
  <2>2. Len(wire) = 0
    BY <1>1, EmptyIs
  <2>3. Names(wire) = {}
    BY <2>2 DEF Names
  <2> QED
    BY <2>1, <2>3, WireIs DEF TypeInv
<1>6. Cardinality(lost) = 0
  BY <1>1, FS_EmptySet
<1>7. AllThere
  BY <1>1, <1>2, <1>5, RangeEmpty DEF AllThere
<1>8. Numbers
  <2>1. Len(InCall) = 0 /\ Len(InCore) = 0 /\ Len(wire) = 0
    BY <1>1, <1>2, EmptyIs
  <2> QED
    BY <1>1, <1>4, <1>6, <2>1 DEF Numbers
<1>9. LostFirst
  BY <1>1 DEF LostFirst
<1>10. txsize = Len(wire) - v_tx /\ pool = NumMbufs - cloned + completed
  <2>1. Len(wire) = 0
    BY <1>1, EmptyIs
  <2> QED
    BY <1>1, <2>1, Constants
<1> QED
  BY <1>7, <1>8, <1>9, <1>10 DEF CountInv

LEMMA CountClone ==
    ASSUME TypeInv, TypeInv', CountInv, Clone
    PROVE  CountInv'
<1>1. /\ InCall = tmp /\ InCall' = tmp' /\ tmp' = Append(tmp, cloned + 1)
      /\ cloned' = cloned + 1 /\ apc = "clone" /\ tmp \in Seq(Nat) /\ cloned + 1 \in Nat
      /\ UNCHANGED <<InCore, ring, txring, wire, v_tx, txsize, lost, completed, shapeVars>>
      /\ pool' = pool - 1
  BY CloneMoves
<1>2. Range(tmp') = Range(tmp) \cup {cloned + 1} /\ Len(tmp') = Len(tmp) + 1
  BY <1>1, RangeAppend, AppendProperties
<1>3. cloned \in Nat /\ lost \subseteq 1 .. cloned /\ UNCHANGED <<InRings, OnWire, Ring, Lens>>
  BY <1>1 DEF TypeInv, Typed, InRings, Rings, OnWire, Ring, Lens, shapeVars
<1>4. AllThere'
  <2>1. 1 .. cloned + 1 = (1 .. cloned) \cup {cloned + 1}
    BY <1>3
  <2> QED
    BY <1>1, <1>2, <1>3, <2>1 DEF AllThere, CountInv
<1>5. Numbers'
  <2>1. /\ Sum(Lens, Ring)' = Sum(Lens, Ring) /\ Sum(Lens, Ring) \in Nat
    <3>1. Sum(Lens, Ring) \in Nat
      <4>1. IsFiniteSet(Ring) /\ \A r \in Ring : Lens[r] \in Nat
        BY RingSet DEF TypeInv
      <4> HIDE DEF Lens
      <4> QED
        BY <4>1, SumType
    <3>2. Sum(Lens, Ring)' = Sum(Lens, Ring)
      BY <1>3
    <3> QED
      BY <3>1, <3>2
  <2>2. Len(InCall)' = Len(InCall) + 1 /\ Len(InCall) \in Nat
    BY <1>1, <1>2, InCallIs DEF TypeInv
  <2>3. Len(InCore) \in Nat /\ Len(wire) \in Nat /\ Cardinality(lost) \in Nat
    BY InCoreIs, LostIs, LenProperties DEF TypeInv, Typed
  <2>4. UNCHANGED <<InCore, wire, lost>> /\ cloned' = cloned + 1
    BY <1>1, <1>3
  <2>5. Len(InCall) + Sum(Lens, Ring) + Len(InCore) + Len(wire) + Cardinality(lost) = cloned
    BY DEF Numbers, CountInv
  <2> QED
    BY <2>1, <2>2, <2>3, <2>4, <2>5 DEF Numbers
<1>6. LostFirst'
  <2>1. Below(lost, Range(tmp))
    BY <1>1 DEF CountInv, LostFirst
  <2>2. \A x \in lost : x < cloned + 1
    BY <1>3
  <2> QED
    BY <1>1, <1>2, <2>1, <2>2 DEF LostFirst, Below
<1>7. pool' = NumMbufs - cloned' + completed'
  <2>1. pool \in Nat /\ completed \in Nat
    BY DEF TypeInv, Typed
  <2> QED
    BY <1>1, <1>3, <2>1, Constants DEF CountInv
<1>8. txsize' = Len(wire') - v_tx'
  BY <1>1 DEF CountInv
<1> QED
  BY <1>4, <1>5, <1>6, <1>7, <1>8 DEF CountInv

LEMMA SumLens ==
    ASSUME Typed
    PROVE  Sum(Lens, Ring) \in Nat
<1>1. IsFiniteSet(Ring) /\ \A r \in Ring : Lens[r] \in Nat
  BY RingSet
<1> HIDE DEF Lens
<1> QED
  BY <1>1, SumType

LEMMA CountCloneFails ==
    ASSUME TypeInv, TypeInv', CountInv, CloneFails
    PROVE  CountInv'
<1>1. /\ InCall = tmp /\ InCall' = tmp' /\ apc = "clone" /\ apc' = "while" /\ tmp \in Seq(Nat)
      /\ \/ tmp = <<>> /\ tmp' = <<>> /\ lost' = lost
         \/ /\ tmp # <<>> /\ tmp' = SubSeq(tmp, 1, Len(tmp) - 1)
            /\ lost' = lost \cup {tmp[Len(tmp)]}
      /\ UNCHANGED <<InCore, ring, txring, wire, v_tx, txsize, cloned, completed, pool, shapeVars>>
  BY CloneFailsMoves
<1>2. UNCHANGED <<InRings, OnWire, Ring, Lens>>
  BY <1>1 DEF InRings, Rings, OnWire, Ring, Lens, shapeVars
<1>3. UNCHANGED Sum(Lens, Ring)
  BY <1>2
<1>4. LostFirst' /\ pool' = NumMbufs - cloned' + completed' /\ txsize' = Len(wire') - v_tx'
  BY <1>1 DEF LostFirst, CountInv
<1>5. CASE tmp = <<>> /\ tmp' = <<>> /\ lost' = lost
  <2>1. InCall' = InCall
    BY <1>1, <1>5
  <2> QED
    BY <1>1, <1>2, <1>3, <1>4, <1>5, <2>1 DEF CountInv, AllThere, Numbers
<1>6. CASE /\ tmp # <<>> /\ tmp' = SubSeq(tmp, 1, Len(tmp) - 1)
           /\ lost' = lost \cup {tmp[Len(tmp)]}
  <2> DEFINE e == tmp[Len(tmp)]
  <2>1. /\ Len(tmp) \in Nat \ {0} /\ e \in Nat /\ Len(tmp') = Len(tmp) - 1
        /\ Range(tmp) = Range(tmp') \cup {e}
    BY <1>1, <1>6, FrontIs
  <2>2. e \notin lost
    <3>1. Below(lost, Range(tmp)) /\ e \in Range(tmp)
      BY <1>1, <2>1 DEF CountInv, LostFirst
    <3>2. ~(e < e)
      BY <2>1
    <3> HIDE DEF e
    <3> QED
      BY <3>1, <3>2 DEF Below
  <2>3. Cardinality(lost') = Cardinality(lost) + 1 /\ Cardinality(lost) \in Nat
    BY <1>6, <2>2, LostIs DEF TypeInv
  <2> HIDE DEF e
  <2>4. AllThere'
    BY <1>1, <1>2, <1>6, <2>1 DEF AllThere, CountInv, e
  <2>5. Numbers'
    <3>1. Len(InCore) \in Nat /\ Len(wire) \in Nat /\ Sum(Lens, Ring) \in Nat
      BY InCoreIs, SumLens, LenProperties DEF TypeInv, Typed
    <3>2. Len(InCall)' = Len(InCall) - 1 /\ Len(InCall) \in Nat
      BY <1>1, <2>1
    <3> QED
      BY <1>1, <1>3, <2>3, <3>1, <3>2 DEF Numbers, CountInv
  <2> QED
    BY <1>4, <2>4, <2>5, <1>1 DEF CountInv
<1> QED
  BY <1>1, <1>5, <1>6

(* A ring is changed. *)
LEMMA RingChanged ==
    ASSUME Typed, Typed', NEW a \in Ring, NEW q, txring' = [txring EXCEPT ![a] = q],
           q \in Seq(Nat), UNCHANGED shapeVars
    PROVE  /\ Sum(Lens, Ring)' = Sum(Lens, Ring) + Len(q) - Len(txring[a])
           /\ Ring' = Ring /\ txring'[a] = q /\ \A r \in Ring \ {a} : txring'[r] = txring[r]
           /\ \A x : x \in InRings <=> x \in Range(txring[a])
                                         \/ \E r \in Ring \ {a} : x \in Range(txring[r])
           /\ \A x : x \in InRings' <=> x \in Range(q)
                                         \/ \E r \in Ring \ {a} : x \in Range(txring[r])
           /\ Len(txring[a]) \in Nat /\ Len(q) \in Nat
<1>1. Ring' = Ring
  BY DEF Ring, shapeVars
<1>2. txring'[a] = q /\ \A r \in Ring \ {a} : txring'[r] = txring[r]
  BY DEF Typed
<1>3. /\ IsFiniteSet(Ring) /\ \A r \in Ring : Lens[r] \in Nat
      /\ \A r \in Ring : Lens'[r] \in Nat
      /\ \A x : x \in InRings <=> \E r \in Ring : x \in Range(txring[r])
      /\ \A x : x \in InRings' <=> \E r \in Ring : x \in Range(txring'[r])
  <2>1. /\ IsFiniteSet(Ring) /\ \A r \in Ring : Lens[r] \in Nat
        /\ \A x : x \in InRings <=> \E r \in Ring : x \in Range(txring[r])
    BY RingSet
  <2>2. DOMAIN txring' = Ring /\ \A r \in Ring : txring'[r] \in Seq(Nat)
    BY <1>1 DEF Typed
  <2>3. \A r \in Ring : Lens'[r] \in Nat
    BY <1>1, <2>2, LenProperties DEF Lens
  <2>4. \A x : x \in InRings' <=> \E r \in Ring : x \in Range(txring'[r])
    BY <2>2 DEF InRings, Rings
  <2> QED
    BY <2>1, <2>3, <2>4
<1>4. Lens'[a] = Len(q) /\ Lens[a] = Len(txring[a]) /\ \A r \in Ring \ {a} : Lens'[r] = Lens[r]
  BY <1>1, <1>2 DEF Lens
<1>5. Sum(Lens', Ring) = Sum(Lens, Ring) + Lens'[a] - Lens[a]
  <2>1. \A r \in Ring : Lens[r] \in Nat /\ Lens'[r] \in Nat
    BY <1>3
  <2>2. \A r \in Ring \ {a} : Lens'[r] = Lens[r]
    BY <1>4
  <2> HIDE DEF Lens
  <2> QED
    BY <1>3, <2>1, <2>2, SumUpdate
<1>6. Sum(Lens, Ring)' = Sum(Lens', Ring)
  BY <1>1
<1>7. Len(txring[a]) \in Nat /\ Len(q) \in Nat
  BY LenProperties DEF Typed
<1> QED
  BY <1>1, <1>2, <1>3, <1>4, <1>5, <1>6, <1>7

LEMMA CountDistribute ==
    ASSUME TypeInv, TypeInv', CountInv, Distribute
    PROVE  CountInv'
<1> DEFINE a == target
           f == SubSeq(InCall, 1, Piece)
           g == SubSeq(InCall, Piece + 1, Len(InCall))
           q == txring[a] \o f
<1>1. /\ a \in Ring /\ Piece \in 0 .. Len(InCall) /\ InCall \in Seq(Nat)
      /\ txring' = [txring EXCEPT ![a] = q] /\ InCall' = g /\ txring[a] \in Seq(Nat)
      /\ UNCHANGED <<InCore, ring, wire, v_tx, txsize, lost, cloned, completed, pool, shapeVars>>
      /\ apc' # "clone"
  BY DistributeMoves
<1>2. /\ f \in Seq(Nat) /\ g \in Seq(Nat) /\ Len(f) = Piece /\ Len(g) = Len(InCall) - Piece
      /\ Range(InCall) = Range(f) \cup Range(g) /\ Len(InCall) \in Nat
  BY <1>1, CutIs, RangeCut, LenProperties
<1> HIDE DEF f, g
<1>3. q \in Seq(Nat) /\ Len(q) = Len(txring[a]) + Len(f) /\ Range(q) = Range(txring[a]) \cup Range(f)
  <2>1. txring[a] \in Seq(Nat) /\ f \in Seq(Nat)
    BY <1>1, <1>2
  <2> HIDE DEF a
  <2> QED
    BY <2>1, JoinIs, RangeJoin
<1> HIDE DEF q, a
<1>4. /\ Sum(Lens, Ring)' = Sum(Lens, Ring) + Len(q) - Len(txring[a])
      /\ \A x : x \in InRings <=> x \in Range(txring[a])
                                    \/ \E r \in Ring \ {a} : x \in Range(txring[r])
      /\ \A x : x \in InRings' <=> x \in Range(q)
                                    \/ \E r \in Ring \ {a} : x \in Range(txring[r])
      /\ Len(txring[a]) \in Nat
  BY <1>1, <1>3, RingChanged DEF TypeInv
<1>5. OnWire' = OnWire
  BY <1>1 DEF OnWire
<1>6. Range(InCall)' \cup InRings' = Range(InCall) \cup InRings
  BY <1>1, <1>2, <1>3, <1>4
<1>7. AllThere'
  BY <1>1, <1>5, <1>6 DEF AllThere, CountInv
<1>8. Numbers'
  <2>1. Len(InCore) \in Nat /\ Len(wire) \in Nat /\ Sum(Lens, Ring) \in Nat /\ Cardinality(lost) \in Nat
    BY InCoreIs, SumLens, LostIs, LenProperties DEF TypeInv, Typed
  <2>2. Len(InCall)' + Sum(Lens, Ring)' = Len(InCall) + Sum(Lens, Ring)
    BY <1>1, <1>2, <1>3, <1>4, <2>1
  <2>3. Len(InCall)' \in Nat /\ Sum(Lens, Ring)' \in Nat
    BY <1>1, <1>2, <1>3, <1>4, <2>1, LenProperties, SumLens DEF TypeInv
  <2> QED
    BY <1>1, <1>2, <2>1, <2>2, <2>3 DEF Numbers, CountInv
<1> QED
  BY <1>1, <1>7, <1>8 DEF CountInv, LostFirst

LEMMA CountDequeue ==
    ASSUME TypeInv, TypeInv', CountInv, DequeueBurst
    PROVE  CountInv'
<1> DEFINE s == txring[ring]
           f == SubSeq(s, 1, Got)
           g == SubSeq(s, Got + 1, Len(s))
<1>1. /\ ring \in Ring /\ Got \in 0 .. Len(s) /\ s \in Seq(Nat)
      /\ txring' = [txring EXCEPT ![ring] = g] /\ InCore = <<>> /\ InCore' = f
      /\ v_tx = 0 /\ v_tx' = 0
      /\ UNCHANGED <<apc, tmp, InCall, wire, txsize, lost, cloned, completed, pool, shapeVars>>
  BY DequeueMoves
<1>2. /\ f \in Seq(Nat) /\ g \in Seq(Nat) /\ Len(f) = Got /\ Len(g) = Len(s) - Got
      /\ Range(s) = Range(f) \cup Range(g)
  <2>1. /\ f \in Seq(Nat) /\ g \in Seq(Nat) /\ Len(f) = Got /\ Len(g) = Len(s) - Got
    BY <1>1, CutIs
  <2>2. Range(s) = Range(f) \cup Range(g)
    BY <1>1, RangeCut
  <2> QED
    BY <2>1, <2>2
<1> HIDE DEF f, g
<1>3. /\ Sum(Lens, Ring)' = Sum(Lens, Ring) + Len(g) - Len(s)
      /\ \A x : x \in InRings <=> x \in Range(s)
                                    \/ \E r \in Ring \ {ring} : x \in Range(txring[r])
      /\ \A x : x \in InRings' <=> x \in Range(g)
                                    \/ \E r \in Ring \ {ring} : x \in Range(txring[r])
      /\ Len(s) \in Nat
  BY <1>1, <1>2, RingChanged DEF TypeInv
<1>4. Range(InCore) = {} /\ Len(InCore) = 0 /\ OnWire' = OnWire
  BY <1>1, RangeEmpty, EmptyIs DEF OnWire
<1>5. Range(InCore)' \cup InRings' = Range(InCore) \cup InRings
  BY <1>1, <1>2, <1>3, <1>4
<1>6. AllThere'
  BY <1>1, <1>4, <1>5 DEF AllThere, CountInv
<1> HIDE DEF s
<1>7. Numbers'
  <2>1. /\ Len(InCall) \in Nat /\ Len(wire) \in Nat /\ Sum(Lens, Ring) \in Nat
        /\ Cardinality(lost) \in Nat /\ Got \in Nat
    <3>1. Got \in Nat
      BY <1>1, <1>3
    <3>2. Len(wire) \in Nat
      BY LenProperties DEF TypeInv, Typed
    <3> QED
      BY <3>1, <3>2, InCallIs, SumLens, LostIs DEF TypeInv
  <2>2. Len(InCore)' = Got /\ Sum(Lens, Ring)' = Sum(Lens, Ring) - Got
    BY <1>1, <1>2, <1>3, <2>1
  <2> QED
    BY <1>1, <1>4, <2>1, <2>2 DEF Numbers, CountInv
<1> QED
  BY <1>1, <1>6, <1>7 DEF CountInv, LostFirst

LEMMA CountTxBurst ==
    ASSUME TypeInv, TypeInv', CountInv, NEW k \in Nat, TxBurst(k)
    PROVE  CountInv'
<1> DEFINE f == SubSeq(InCore, 1, k)
           g == SubSeq(InCore, k + 1, Len(InCore))
<1>1. /\ ring \in Ring /\ k \in 0 .. Len(InCore) /\ InCore \in Seq(Nat)
      /\ wire' = wire \o Pairs(f, ring) /\ InCore' = g
      /\ UNCHANGED <<apc, tmp, InCall, txring, lost, cloned, completed, pool, shapeVars>>
      /\ txsize = Len(wire) - v_tx => txsize' = Len(wire') - v_tx'
      /\ Len(wire') = Len(wire) + k
  BY TxBurstMoves
<1>2. /\ f \in Seq(Nat) /\ Len(g) = Len(InCore) - k /\ Range(InCore) = Range(f) \cup Range(g)
  BY <1>1, CutIs, RangeCut
<1> HIDE DEF f, g
<1>3. OnWire' = OnWire \cup Range(f)
  <2>1. wire \in Seq(Sent) /\ ring \in Nat
    BY <1>1 DEF TypeInv, Typed, Ring
  <2>2. Names(wire') = Names(wire) \cup Range(f)
    BY <1>1, <1>2, <2>1, WireGrows
  <2>3. OnWire = Names(wire)
    BY WireIs DEF TypeInv
  <2>4. OnWire' = Names(wire')
    <3>1. wire' \in Seq(Sent)
      BY DEF TypeInv, Typed
    <3> QED
      BY <3>1, LenProperties DEF OnWire, Names
  <2> QED
    BY <2>2, <2>3, <2>4
<1>4. UNCHANGED <<InRings, Ring, Lens>>
  BY <1>1 DEF InRings, Rings, Ring, Lens, shapeVars
<1>5. AllThere'
  BY <1>1, <1>2, <1>3, <1>4 DEF AllThere, CountInv
<1>6. Numbers'
  <2>1. /\ Len(InCall) \in Nat /\ Len(wire) \in Nat /\ Sum(Lens, Ring) \in Nat
        /\ Cardinality(lost) \in Nat /\ Len(InCore) \in Nat
    BY InCallIs, InCoreIs, SumLens, LostIs, LenProperties DEF TypeInv, Typed
  <2>2. Sum(Lens, Ring)' = Sum(Lens, Ring)
    BY <1>4
  <2> QED
    BY <1>1, <1>2, <2>1, <2>2 DEF Numbers, CountInv
<1> QED
  BY <1>1, <1>5, <1>6 DEF CountInv, LostFirst

LEMMA CountOthers ==
    ASSUME TypeInv, TypeInv', CountInv,
           \/ \E n \in Nat, size \in Nat : Call(n, size)
           \/ TestDistributed \/ TryRing \/ TestEmpty \/ NicFree \/ UNCHANGED vars
    PROVE  CountInv'
<1>1. /\ UNCHANGED <<InCall, InCore, txring, wire, v_tx, txsize, lost, cloned, shapeVars>>
      /\ pool' - completed' = pool - completed
      /\ apc' = "clone" => (apc = "clone" /\ tmp' = tmp) \/ tmp' = <<>>
  BY OthersMove
<1>2. UNCHANGED <<InRings, OnWire, Ring, Lens>>
  BY <1>1 DEF InRings, Rings, OnWire, Ring, Lens, shapeVars
<1>3. UNCHANGED Sum(Lens, Ring)
  BY <1>2
<1>4. AllThere' /\ Numbers'
  BY <1>1, <1>2, <1>3 DEF AllThere, Numbers, CountInv
<1>5. LostFirst'
  BY <1>1, RangeEmpty DEF LostFirst, CountInv, Below
<1>6. pool' = NumMbufs - cloned' + completed'
  <2>1. /\ pool \in Nat /\ completed \in Nat /\ cloned \in Nat
        /\ pool' \in Nat /\ completed' \in Nat
    BY DEF TypeInv, Typed
  <2> QED
    BY <1>1, <2>1, Constants DEF CountInv
<1> QED
  BY <1>1, <1>4, <1>5, <1>6 DEF CountInv

-----------------------------------------------------------------------------
(* The packets of a ring leave in the order they were made: each place has *)
(* them in order, and what is further on was made before.                  *)

CallLast == Sorted(InCall) /\ Below(InRings \cup Range(InCore) \cup OnWire, Range(InCall))
CoreOrder ==
    /\ Sorted(InCore)
    /\ Below(NamesOf(wire, ring), Range(InCore)) /\ Below(Range(InCore), Range(txring[ring]))
RingsOrder == \A r \in Ring : Sorted(txring[r]) /\ Below(NamesOf(wire, r), Range(txring[r]))

OrderInv == CallLast /\ CoreOrder /\ RingsOrder /\ InOrder(wire)

LEMMA SortedEmpty == Sorted(<<>>)
BY EmptyIs DEF Sorted

LEMMA SortedCut ==
    ASSUME NEW s \in Seq(Nat), NEW m \in 0 .. Len(s), Sorted(s)
    PROVE  LET f == SubSeq(s, 1, m)
               g == SubSeq(s, m + 1, Len(s))
           IN  Sorted(f) /\ Sorted(g) /\ Below(Range(f), Range(g))
<1> DEFINE f == SubSeq(s, 1, m)
           g == SubSeq(s, m + 1, Len(s))
<1>1. /\ f \in Seq(Nat) /\ Len(f) = m /\ \A j \in 1 .. m : f[j] = s[j]
      /\ g \in Seq(Nat) /\ Len(g) = Len(s) - m /\ \A j \in 1 .. Len(s) - m : g[j] = s[m + j]
      /\ Len(s) \in Nat
  BY CutIs, LenProperties
<1> HIDE DEF f, g
<1>2. \A j, k \in 1 .. Len(s) : j < k => s[j] < s[k]
  BY DEF Sorted
<1>3. Sorted(f)
  <2> SUFFICES ASSUME NEW j \in 1 .. m, NEW k \in 1 .. m, j < k PROVE f[j] < f[k]
    BY <1>1 DEF Sorted
  <2>1. j \in 1 .. Len(s) /\ k \in 1 .. Len(s)
    BY <1>1
  <2> QED
    BY <1>1, <1>2, <2>1
<1>4. Sorted(g)
  <2> SUFFICES ASSUME NEW j \in 1 .. Len(s) - m, NEW k \in 1 .. Len(s) - m, j < k
               PROVE  g[j] < g[k]
    BY <1>1 DEF Sorted
  <2> DEFINE a == m + j
             b == m + k
  <2>1. a \in 1 .. Len(s) /\ b \in 1 .. Len(s) /\ a < b
    BY <1>1
  <2>2. g[j] = s[a] /\ g[k] = s[b]
    BY <1>1
  <2> HIDE DEF a, b
  <2> QED
    BY <1>2, <2>1, <2>2
<1>5. Below(Range(f), Range(g))
  <2>1. Range(f) = {f[j] : j \in 1 .. m} /\ Range(g) = {g[j] : j \in 1 .. Len(s) - m}
    BY <1>1, RangeIs
  <2> SUFFICES ASSUME NEW j \in 1 .. m, NEW k \in 1 .. Len(s) - m PROVE f[j] < g[k]
    BY <2>1 DEF Below
  <2> DEFINE b == m + k
  <2>2. j \in 1 .. Len(s) /\ b \in 1 .. Len(s) /\ j < b
    BY <1>1
  <2>3. f[j] = s[j] /\ g[k] = s[b]
    BY <1>1
  <2> HIDE DEF b
  <2> QED
    BY <1>2, <2>2, <2>3
<1> QED
  BY <1>3, <1>4, <1>5 DEF f, g

LEMMA SortedJoin ==
    ASSUME NEW s \in Seq(Nat), NEW t \in Seq(Nat), Sorted(s), Sorted(t), Below(Range(s), Range(t))
    PROVE  Sorted(s \o t)
<1> DEFINE u == s \o t
           L == Len(s)
<1>1. /\ Len(u) = L + Len(t) /\ \A j \in 1 .. L : u[j] = s[j]
      /\ \A j \in 1 .. Len(t) : u[L + j] = t[j]
      /\ L \in Nat /\ Len(t) \in Nat
  BY JoinIs, LenProperties
<1>2. Range(s) = {s[j] : j \in 1 .. L} /\ Range(t) = {t[j] : j \in 1 .. Len(t)}
  BY RangeIs
<1> HIDE DEF u
<1> SUFFICES ASSUME NEW j \in 1 .. Len(u), NEW k \in 1 .. Len(u), j < k PROVE u[j] < u[k]
  BY DEF Sorted, u
<1>3. CASE j <= L /\ k <= L
  BY <1>1, <1>3 DEF Sorted
<1>4. CASE j <= L /\ ~(k <= L)
  <2>1. j \in 1 .. L /\ k - L \in 1 .. Len(t) /\ k = L + (k - L)
    BY <1>1, <1>4
  <2>2. u[j] = s[j] /\ u[k] = t[k - L]
    BY <1>1, <2>1
  <2>3. u[j] \in Range(s) /\ u[k] \in Range(t)
    BY <1>2, <2>1, <2>2
  <2> QED
    BY <2>3 DEF Below
<1>5. CASE ~(j <= L)
  <2>1. /\ j - L \in 1 .. Len(t) /\ j = L + (j - L)
        /\ k - L \in 1 .. Len(t) /\ k = L + (k - L) /\ j - L < k - L
    BY <1>1, <1>5
  <2>2. u[j] = t[j - L] /\ u[k] = t[k - L]
    BY <1>1, <2>1
  <2>3. t[j - L] < t[k - L]
    <3> DEFINE a == j - L
               b == k - L
    <3>1. a \in 1 .. Len(t) /\ b \in 1 .. Len(t) /\ a < b
      BY <2>1
    <3> HIDE DEF a, b
    <3>2. t[a] < t[b]
      BY <3>1 DEF Sorted
    <3> QED
      BY <3>2 DEF a, b
  <2> QED
    BY <2>2, <2>3
<1> QED
  BY <1>3, <1>4, <1>5

LEMMA SortedAppend ==
    ASSUME NEW s \in Seq(Nat), NEW e \in Nat, Sorted(s), \A x \in Range(s) : x < e
    PROVE  Sorted(Append(s, e))
<1> DEFINE u == Append(s, e)
<1>1. /\ Len(u) = Len(s) + 1 /\ \A j \in 1 .. Len(s) : u[j] = s[j]
      /\ u[Len(s) + 1] = e /\ Len(s) \in Nat
  BY AppendProperties, LenProperties
<1>2. Range(s) = {s[j] : j \in 1 .. Len(s)}
  BY RangeIs
<1> HIDE DEF u
<1> SUFFICES ASSUME NEW j \in 1 .. Len(u), NEW k \in 1 .. Len(u), j < k PROVE u[j] < u[k]
  BY DEF Sorted, u
<1>3. j \in 1 .. Len(s)
  BY <1>1
<1>4. CASE k = Len(s) + 1
  <2>1. u[j] \in Range(s)
    BY <1>1, <1>2, <1>3
  <2> QED
    BY <1>1, <1>4, <2>1
<1>5. CASE k \in 1 .. Len(s)
  BY <1>1, <1>3, <1>5 DEF Sorted
<1>6. k = Len(s) + 1 \/ k \in 1 .. Len(s)
  BY <1>1
<1> QED
  BY <1>4, <1>5, <1>6

(* A ring's names are names, and its packets are in the rings. *)
LEMMA PartsIn ==
    ASSUME Typed, NEW r \in Ring
    PROVE  NamesOf(wire, r) \subseteq OnWire /\ Range(txring[r]) \subseteq InRings
<1>1. NamesOf(wire, r) \subseteq Names(wire)
  BY DEF NamesOf, Names
<1> QED
  BY <1>1, WireIs, RingSet

LEMMA OrderInit ==
    ASSUME Init, TypeInv
    PROVE  OrderInv
<1>1. tmp = <<>> /\ bufs = <<>> /\ wire = <<>> /\ nb_distributed = 0 /\ v_tx = 0
      /\ ring \in Ring /\ \A r \in Ring : txring[r] = <<>>
  BY DEF Init, TypeInv, Typed, Ring
<1>2. InCall = <<>> /\ InCore = <<>>
  BY <1>1, InCallIs, InCoreIs DEF TypeInv
<1>3. Range(<<>>) = {} /\ Sorted(<<>>)
  BY RangeEmpty, SortedEmpty
<1>4. CallLast /\ CoreOrder /\ RingsOrder
  BY <1>1, <1>2, <1>3 DEF CallLast, CoreOrder, RingsOrder, Below
<1>5. InOrder(wire)
  <2>1. Len(wire) = 0
    BY <1>1, EmptyIs
  <2> QED
    BY <2>1 DEF InOrder
<1> QED
  BY <1>4, <1>5 DEF OrderInv

LEMMA OrderClone ==
    ASSUME TypeInv, TypeInv', CountInv, OrderInv, Clone
    PROVE  OrderInv'
<1>1. /\ InCall = tmp /\ InCall' = tmp' /\ tmp' = Append(tmp, cloned + 1)
      /\ tmp \in Seq(Nat) /\ cloned + 1 \in Nat
      /\ UNCHANGED <<InCore, ring, txring, wire, shapeVars>>
  BY CloneMoves
<1>2. Range(InCall)' = Range(InCall) \cup {cloned + 1}
  BY <1>1, RangeAppend
<1>3. UNCHANGED <<InRings, OnWire, Ring>>
  BY <1>1 DEF InRings, Rings, OnWire, Ring, shapeVars
<1>4. \A x \in Range(InCall) \cup InRings \cup Range(InCore) \cup OnWire : x < cloned + 1
  <2>1. cloned \in Nat
    BY DEF TypeInv, Typed
  <2>2. \A x \in 1 .. cloned : x < cloned + 1
    BY <2>1
  <2> QED
    BY <2>2 DEF CountInv, AllThere
<1>5. Sorted(InCall)'
  <2>1. Sorted(tmp) /\ \A x \in Range(tmp) : x < cloned + 1
    BY <1>1, <1>4 DEF OrderInv, CallLast
  <2>2. Sorted(tmp')
    BY <1>1, <2>1, SortedAppend
  <2> QED
    BY <1>1, <2>2
<1>6. CallLast'
  BY <1>1, <1>2, <1>3, <1>4, <1>5 DEF OrderInv, CallLast, Below
<1> QED
  BY <1>1, <1>3, <1>6 DEF OrderInv, CoreOrder, RingsOrder

LEMMA OrderCloneFails ==
    ASSUME TypeInv, TypeInv', OrderInv, CloneFails
    PROVE  OrderInv'
<1>1. /\ InCall = tmp /\ InCall' = tmp' /\ tmp \in Seq(Nat)
      /\ \/ tmp = <<>> /\ tmp' = <<>>
         \/ tmp # <<>> /\ tmp' = SubSeq(tmp, 1, Len(tmp) - 1)
      /\ UNCHANGED <<InCore, ring, txring, wire, shapeVars>>
  BY CloneFailsMoves
<1>2. UNCHANGED <<InRings, OnWire, Ring>>
  BY <1>1 DEF InRings, Rings, OnWire, Ring, shapeVars
<1>3. Sorted(tmp)
  BY <1>1 DEF OrderInv, CallLast
<1>4. Sorted(tmp') /\ Range(tmp') \subseteq Range(tmp)
  <2>1. CASE tmp # <<>> /\ tmp' = SubSeq(tmp, 1, Len(tmp) - 1)
    <3>1. Len(tmp) - 1 \in 0 .. Len(tmp)
      BY <1>1, <2>1, EmptySeq
    <3>2. Sorted(tmp')
      BY <1>1, <1>3, <2>1, <3>1, SortedCut
    <3>3. Range(tmp) = Range(tmp') \cup {tmp[Len(tmp)]}
      BY <1>1, <2>1, FrontIs
    <3> QED
      BY <3>2, <3>3
  <2> QED
    BY <1>1, <1>3, <2>1
<1>5. CallLast'
  BY <1>1, <1>2, <1>4 DEF OrderInv, CallLast, Below
<1> QED
  BY <1>1, <1>2, <1>5 DEF OrderInv, CoreOrder, RingsOrder

LEMMA OrderDistribute ==
    ASSUME TypeInv, TypeInv', OrderInv, Distribute
    PROVE  OrderInv'
<1> DEFINE a == target
           f == SubSeq(InCall, 1, Piece)
           g == SubSeq(InCall, Piece + 1, Len(InCall))
           old == txring[a]
           q == old \o f
<1>1. /\ a \in Ring /\ Piece \in 0 .. Len(InCall) /\ InCall \in Seq(Nat)
      /\ txring' = [txring EXCEPT ![a] = q] /\ InCall' = g /\ old \in Seq(Nat)
      /\ UNCHANGED <<InCore, ring, wire, shapeVars>>
  BY DistributeMoves
<1>2. /\ f \in Seq(Nat) /\ Range(InCall) = Range(f) \cup Range(g)
      /\ Sorted(f) /\ Sorted(g) /\ Below(Range(f), Range(g))
  <2>1. Sorted(InCall)
    BY DEF OrderInv, CallLast
  <2> QED
    BY <1>1, <2>1, CutIs, RangeCut, SortedCut
<1>3. Below(InRings \cup Range(InCore) \cup OnWire, Range(f) \cup Range(g))
  BY <1>2 DEF OrderInv, CallLast
<1>4. ring \in Ring /\ ring' = ring /\ OnWire' = OnWire
  BY <1>1 DEF TypeInv, Typed, OnWire
<1> HIDE DEF f, g
<1>5. /\ Range(old) \subseteq InRings /\ NamesOf(wire, a) \subseteq OnWire
      /\ Sorted(old) /\ Below(NamesOf(wire, a), Range(old))
  BY <1>1, PartsIn DEF TypeInv, OrderInv, RingsOrder
<1> HIDE DEF old
<1>6. q \in Seq(Nat) /\ Range(q) = Range(old) \cup Range(f)
  BY <1>1, <1>2, JoinIs, RangeJoin
<1>7. Sorted(q)
  <2>1. Below(Range(old), Range(f))
    BY <1>3, <1>5 DEF Below
  <2> QED
    BY <1>1, <1>2, <1>5, <2>1, SortedJoin
<1> HIDE DEF q, a
<1>8. /\ Ring' = Ring /\ txring'[a] = q /\ \A r \in Ring \ {a} : txring'[r] = txring[r]
      /\ \A x : x \in InRings <=> x \in Range(txring[a])
                                    \/ \E r \in Ring \ {a} : x \in Range(txring[r])
      /\ \A x : x \in InRings' <=> x \in Range(q)
                                    \/ \E r \in Ring \ {a} : x \in Range(txring[r])
  BY <1>1, <1>6, RingChanged DEF TypeInv
<1>9. \A x \in InRings' : x \in InRings \/ x \in Range(f)
  BY <1>6, <1>8 DEF old
<1>10. CallLast'
  <2>1. Below(InRings' \cup Range(InCore) \cup OnWire, Range(g))
    BY <1>2, <1>3, <1>9 DEF Below
  <2> QED
    BY <1>1, <1>2, <1>4, <2>1 DEF CallLast
<1>11. CoreOrder'
  <2>1. Below(Range(InCore), Range(txring'[ring]))
    <3>1. Below(Range(InCore), Range(txring[ring]))
      BY DEF OrderInv, CoreOrder
    <3>2. CASE ring = a
      BY <1>3, <1>6, <1>8, <3>1, <3>2 DEF Below, old
    <3>3. CASE ring # a
      BY <1>4, <1>8, <3>1, <3>3
    <3> QED
      BY <3>2, <3>3
  <2> QED
    BY <1>1, <1>4, <2>1 DEF OrderInv, CoreOrder
<1>12. RingsOrder'
  <2>1. Sorted(q) /\ Below(NamesOf(wire, a), Range(q))
    BY <1>3, <1>5, <1>6, <1>7 DEF Below
  <2>2. \A r \in Ring : Sorted(txring'[r]) /\ Below(NamesOf(wire, r), Range(txring'[r]))
    BY <1>8, <2>1 DEF OrderInv, RingsOrder
  <2> QED
    BY <1>1, <1>8, <2>2 DEF RingsOrder
<1> QED
  BY <1>1, <1>10, <1>11, <1>12 DEF OrderInv

LEMMA OrderDequeue ==
    ASSUME TypeInv, TypeInv', OrderInv, DequeueBurst
    PROVE  OrderInv'
<1> DEFINE s == txring[ring]
           f == SubSeq(s, 1, Got)
           g == SubSeq(s, Got + 1, Len(s))
<1>1. /\ ring \in Ring /\ Got \in 0 .. Len(s) /\ s \in Seq(Nat)
      /\ txring' = [txring EXCEPT ![ring] = g] /\ InCore = <<>> /\ InCore' = f
      /\ ring' = ring \/ InCore' = <<>>
      /\ UNCHANGED <<InCall, wire, shapeVars>>
  BY DequeueMoves
<1>2. Sorted(s) /\ Below(NamesOf(wire, ring), Range(s))
  BY <1>1 DEF OrderInv, RingsOrder
<1>3. /\ g \in Seq(Nat) /\ Range(s) = Range(f) \cup Range(g)
      /\ Sorted(f) /\ Sorted(g) /\ Below(Range(f), Range(g))
  BY <1>1, <1>2, CutIs, RangeCut, SortedCut
<1> HIDE DEF f, g
<1>4. /\ Ring' = Ring /\ txring'[ring] = g /\ \A r \in Ring \ {ring} : txring'[r] = txring[r]
      /\ \A x : x \in InRings <=> x \in Range(s)
                                    \/ \E r \in Ring \ {ring} : x \in Range(txring[r])
      /\ \A x : x \in InRings' <=> x \in Range(g)
                                    \/ \E r \in Ring \ {ring} : x \in Range(txring[r])
  BY <1>1, <1>3, RingChanged DEF TypeInv
<1>5. OnWire' = OnWire
  BY <1>1 DEF OnWire
<1>6. CallLast'
  <2>1. InRings' \cup Range(InCore)' \subseteq InRings
    BY <1>1, <1>3, <1>4
  <2> QED
    BY <1>1, <1>5, <2>1 DEF OrderInv, CallLast, Below
<1>7. CoreOrder'
  <2>1. CASE InCore' = <<>>
    BY <2>1, RangeEmpty, SortedEmpty DEF CoreOrder, Below
  <2>2. CASE ring' = ring
    <3>1. Below(NamesOf(wire, ring), Range(f)) /\ Below(Range(f), Range(txring'[ring]))
      BY <1>2, <1>3, <1>4 DEF Below
    <3> QED
      BY <1>1, <1>3, <2>2, <3>1 DEF CoreOrder
  <2> QED
    BY <1>1, <2>1, <2>2
<1>8. RingsOrder'
  <2>1. Sorted(g) /\ Below(NamesOf(wire, ring), Range(g))
    BY <1>2, <1>3 DEF Below
  <2>2. \A r \in Ring : Sorted(txring'[r]) /\ Below(NamesOf(wire, r), Range(txring'[r]))
    BY <1>4, <2>1 DEF OrderInv, RingsOrder
  <2> QED
    BY <1>1, <1>4, <2>2 DEF RingsOrder
<1> QED
  BY <1>1, <1>6, <1>7, <1>8 DEF OrderInv

LEMMA OrderTxBurst ==
    ASSUME TypeInv, TypeInv', OrderInv, NEW k \in Nat, TxBurst(k)
    PROVE  OrderInv'
<1> DEFINE f == SubSeq(InCore, 1, k)
           g == SubSeq(InCore, k + 1, Len(InCore))
<1>1. /\ ring \in Ring /\ k \in 0 .. Len(InCore) /\ InCore \in Seq(Nat)
      /\ wire' = wire \o Pairs(f, ring) /\ InCore' = g
      /\ ring' = ring \/ InCore' = <<>>
      /\ UNCHANGED <<InCall, txring, shapeVars>>
  BY TxBurstMoves
<1>2. /\ Sorted(InCore) /\ Below(NamesOf(wire, ring), Range(InCore))
      /\ Below(Range(InCore), Range(txring[ring]))
  BY DEF OrderInv, CoreOrder
<1>3. /\ f \in Seq(Nat) /\ Range(InCore) = Range(f) \cup Range(g)
      /\ Sorted(f) /\ Sorted(g) /\ Below(Range(f), Range(g))
  BY <1>1, <1>2, CutIs, RangeCut, SortedCut
<1> HIDE DEF f, g
<1>4. wire \in Seq(Sent) /\ ring \in Nat /\ Ring \subseteq Nat
  BY <1>1 DEF TypeInv, Typed, Ring
<1>5. Below(NamesOf(wire, ring), Range(f)) /\ InOrder(wire)
  BY <1>2, <1>3 DEF Below, OrderInv
<1>6. /\ Names(wire') = Names(wire) \cup Range(f)
      /\ NamesOf(wire', ring) = NamesOf(wire, ring) \cup Range(f)
      /\ \A r \in Nat \ {ring} : NamesOf(wire', r) = NamesOf(wire, r)
      /\ InOrder(wire')
  BY <1>1, <1>3, <1>4, <1>5, WireGrows
<1>7. OnWire' = OnWire \cup Range(f)
  <2>1. wire' \in Seq(Sent)
    BY DEF TypeInv, Typed
  <2>2. OnWire' = Names(wire')
    BY <2>1, LenProperties DEF OnWire, Names
  <2> QED
    BY <1>6, <2>2, WireIs DEF TypeInv
<1>8. UNCHANGED <<InRings, Ring>>
  BY <1>1 DEF InRings, Rings, Ring, shapeVars
<1>9. CallLast'
  <2>1. Range(InCore)' \cup OnWire' = Range(InCore) \cup OnWire
    BY <1>1, <1>3, <1>7
  <2> QED
    BY <1>1, <1>8, <2>1 DEF OrderInv, CallLast, Below
<1>10. CoreOrder'
  <2>1. CASE InCore' = <<>>
    BY <2>1, RangeEmpty, SortedEmpty DEF CoreOrder, Below
  <2>2. CASE ring' = ring
    <3>1. Below(NamesOf(wire', ring), Range(g)) /\ Below(Range(g), Range(txring[ring]))
      BY <1>2, <1>3, <1>6 DEF Below
    <3> QED
      BY <1>1, <1>3, <2>2, <3>1 DEF CoreOrder
  <2> QED
    BY <1>1, <2>1, <2>2
<1>11. RingsOrder'
  <2>1. Below(NamesOf(wire', ring), Range(txring[ring]))
    <3>1. Below(NamesOf(wire, ring), Range(txring[ring]))
      BY <1>1 DEF OrderInv, RingsOrder
    <3> QED
      BY <1>2, <1>3, <1>6, <3>1 DEF Below
  <2>2. \A r \in Ring : Sorted(txring[r]) /\ Below(NamesOf(wire', r), Range(txring[r]))
    <3> SUFFICES ASSUME NEW r \in Ring
                 PROVE  Sorted(txring[r]) /\ Below(NamesOf(wire', r), Range(txring[r]))
      OBVIOUS
    <3>1. CASE r = ring
      BY <2>1, <3>1 DEF OrderInv, RingsOrder
    <3>2. CASE r # ring
      <4>1. NamesOf(wire', r) = NamesOf(wire, r)
        BY <1>4, <1>6, <3>2
      <4> QED
        BY <4>1 DEF OrderInv, RingsOrder
    <3> QED
      BY <3>1, <3>2
  <2> QED
    BY <1>1, <1>8, <2>2 DEF RingsOrder
<1> QED
  BY <1>6, <1>9, <1>10, <1>11 DEF OrderInv

LEMMA OrderOthers ==
    ASSUME TypeInv, TypeInv', OrderInv,
           \/ \E n \in Nat, size \in Nat : Call(n, size)
           \/ TestDistributed \/ TryRing \/ TestEmpty \/ NicFree \/ UNCHANGED vars
    PROVE  OrderInv'
<1>1. /\ UNCHANGED <<InCall, InCore, txring, wire, shapeVars>>
      /\ ring' = ring \/ InCore = <<>>
  BY OthersMove
<1>2. UNCHANGED <<InRings, OnWire, Ring>>
  BY <1>1 DEF InRings, Rings, OnWire, Ring, shapeVars
<1>3. CoreOrder'
  <2>1. CASE InCore = <<>>
    <3>1. InCore' = <<>>
      BY <1>1, <2>1
    <3> QED
      BY <3>1, RangeEmpty, SortedEmpty DEF CoreOrder, Below
  <2>2. CASE ring' = ring
    BY <1>1, <2>2 DEF OrderInv, CoreOrder
  <2> QED
    BY <1>1, <2>1, <2>2
<1> QED
  BY <1>1, <1>2, <1>3 DEF OrderInv, CallLast, RingsOrder

-----------------------------------------------------------------------------

IInv == TypeInv /\ CountInv /\ OrderInv

LEMMA Invariant == Spec => []IInv
<1>1. Init /\ TypeInv => IInv
  BY CountInit, OrderInit DEF IInv
<1>2. IInv /\ TypeInv' /\ [Next]_vars => IInv'
  <2> SUFFICES ASSUME TypeInv, TypeInv', CountInv, OrderInv, [Next]_vars
               PROVE  CountInv' /\ OrderInv'
    BY DEF IInv
  <2>1. CASE Clone
    BY <2>1, CountClone, OrderClone
  <2>2. CASE CloneFails
    BY <2>2, CountCloneFails, OrderCloneFails
  <2>3. CASE Distribute
    BY <2>3, CountDistribute, OrderDistribute
  <2>4. CASE DequeueBurst
    BY <2>4, CountDequeue, OrderDequeue
  <2>5. CASE \E k \in 0 .. Burst : TxBurst(k)
    BY <2>5, BurstsAre, CountTxBurst, OrderTxBurst
  <2>6. CASE (\E n \in Times : SendPacket(n)) \/ ReadTraffic
    <3>1. \E n \in Nat, size \in Nat : Call(n, size)
      BY <2>6, CallsAre
    <3> QED
      BY <3>1, CountOthers, OrderOthers
  <2>7. CASE TestDistributed \/ TryRing \/ TestEmpty \/ NicFree \/ UNCHANGED vars
    BY <2>7, CountOthers, OrderOthers
  <2> QED
    BY <2>1, <2>2, <2>3, <2>4, <2>5, <2>6, <2>7 DEF Next, AppStep, Crashed
<1> QED
  BY <1>1, <1>2, TypeInvariant, PTL DEF Spec

LEMMA InvariantGives == IInv => EachPacketOnce
<1> SUFFICES ASSUME TypeInv, CountInv, OrderInv PROVE EachPacketOnce
  BY DEF IInv
<1>1. /\ DOMAIN txring = Ring /\ Rings = Ring /\ \A r \in Ring : Len(txring[r]) \in Nat
  <2>1. DOMAIN txring = Ring /\ \A r \in Ring : txring[r] \in Seq(Nat)
    BY DEF TypeInv, Typed
  <2> QED
    BY <2>1, LenProperties DEF Rings
<1>2. /\ Len(InCall) \in Nat /\ Sum(Lens, Ring) \in Nat /\ Len(InCore) \in Nat
      /\ Len(wire) \in Nat /\ Cardinality(lost) \in Nat
  BY InCallIs, InCoreIs, SumLens, LostIs, LenProperties DEF TypeInv, Typed
<1>3. pool \in 0 .. NumMbufs
  <2>1. Len(wire) <= cloned
    BY <1>2 DEF CountInv, Numbers
  <2>2. pool \in Nat /\ completed \in 0 .. Len(wire) /\ cloned \in Nat
    BY DEF TypeInv, Typed
  <2>3. pool = NumMbufs - cloned + completed
    BY DEF CountInv
  <2> QED
    BY <1>2, <2>1, <2>2, <2>3, Constants
<1>4. TypeOK
  <2>1. \A r \in Rings : Len(txring[r]) \in 0 .. RingSize
    BY <1>1, Constants DEF TypeInv, Typed
  <2> QED
    BY <1>1, <1>3, <2>1 DEF TypeInv, Typed, Places, TypeOK, Ring
<1>5. OnePlace
  <2>1. [r \in Rings |-> Len(txring[r])] = Lens /\ DOMAIN Lens = Ring
    BY <1>1 DEF Lens
  <2>2. FoldFunction(+, 0, [r \in Rings |-> Len(txring[r])]) = Sum(Lens, Ring)
    BY <2>1 DEF FoldFunction, Sum
  <2> QED
    BY <2>2 DEF OnePlace, CountInv, AllThere, Numbers
<1>6. RingOrder
  BY WireIs DEF TypeInv, OrderInv
<1> QED
  BY <1>4, <1>5, <1>6 DEF EachPacketOnce, CountInv

(***************************************************************************)
(* Whatever the shape of the port, the sizes and the number of packets,    *)
(* however little the NIC takes and wherever a call runs out of memory: no *)
(* packet is sent twice, dropped on the way or overtaken in its ring, the  *)
(* pool's count is right, and so is the port's counter.                    *)
(***************************************************************************)
THEOREM PacketsAreSentOnce == Spec => []EachPacketOnce
BY Invariant, InvariantGives, PTL
=============================================================================
