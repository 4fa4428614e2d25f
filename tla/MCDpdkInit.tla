----------------------------- MODULE MCDpdkInit -----------------------------
(* Instances of DpdkInit for TLC. *)
EXTENDS DpdkInit

(* conf/port_infomation.txt *)
FileSpeeds == {0, 10000, 100000}
FileWeight == [s \in FileSpeeds |-> CASE s = 0 -> 1 [] s = 10000 -> 2 [] s = 100000 -> 5]
FileQueueNum == [s \in FileSpeeds |-> 1]

(* The same file with more than one queue for 10 Gbit/s. *)
WideQueueNum == [s \in FileSpeeds |-> IF s = 10000 THEN 2 ELSE 1]

(* Speeds that the file has, and one it has not *)
AllSpeeds == FileSpeeds \cup {1000}
SlowSpeeds == {0, 10000}

Line(p, ports, S, m, M, q) == [p |-> p, ports |-> ports, S |-> S, m |-> m, M |-> M, q |-> q]

(* conf/dpdk.xml with the modes it describes, *)
Good(m, M) == Line("mask", 0 .. 3, 3, m, M, FALSE)
TwoTwo == {Good("2", "2")}
OneOne == {Good("1", "1")}

(* and each option left out, wrong, or at a limit *)
ModeArg == {"absent", "1", "2", "bad"}
AllArgs ==
    {Good(m, M) : m \in ModeArg, M \in ModeArg}
      \cup {Line(p, {0}, S, "1", "2", q) :
              p \in {"absent", "invalid", "mask"}, S \in {-1, 0, 79, 80}, q \in BOOLEAN}
=============================================================================
