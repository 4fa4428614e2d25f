------------------------------ MODULE DpdkInit ------------------------------
(***************************************************************************)
(* dpdk_init, up to the launch of the slave lcores: the arguments          *)
(* (l2fwd_parse_args), the assignment of rings and receive queues to ports *)
(* and of ports, rings and queues to capture threads and lcores            *)
(* (choice_init), the start of the ports (port_init) and of the rings      *)
(* (initRing), and which lcore then runs slaveCoreTx or slaveCoreRx on     *)
(* what (mainLoop).                                                        *)
(*                                                                         *)
(* ctx->port_list is the identity and is left out. The division by         *)
(* weight_sum is exact here and in double in the code: the two agree for   *)
(* every assignment of weights 1, 2 and 5 to up to ten ports.              *)
(***************************************************************************)
EXTENDS Integers, Sequences, FiniteSets, SequencesExt

CONSTANTS
    NbPorts,        \* how many NICs there may be
    RingNums,       \* values for the Thread_num of the caller
    Speeds,         \* link speeds, in Mbit/s
    Unsteady,       \* the NICs whose link may change its speed (bounds the states)
    Weight,         \* port_infomation.txt: the weight of the speeds it has
    QueueNum,       \* port_infomation.txt: the queue_num of these speeds
    Args,           \* command lines: records of the options -p -S -m -M -q
    SlaveLcores,    \* the lcores of the coremask, without the master
    MAX_CORE_SIZE,  \* 80
    CORE_SIZE,      \* 1024
    HalfWord,       \* 2^16, the modulus of uint16_t
    MaxQueues       \* receive queues a NIC can have

Absent == "absent"
Arg == [p : {Absent, "invalid", "mask"}, ports : SUBSET Nat,
        S : Nat \cup {-1}, m : {Absent, "1", "2", "bad"}, M : {Absent, "1", "2", "bad"},
        q : BOOLEAN]

(***************************************************************************)
(* The last two lines: lcores, and the rings of a port, fit a uint16_t. A  *)
(* port has at most ring_num rings times its weight, and at most ring_num  *)
(* of those that are left over.                                            *)
(***************************************************************************)
ASSUME ConfAssumption ==
    /\ NbPorts \subseteq Nat /\ RingNums \subseteq Nat \ {0} /\ Args \subseteq Arg
    /\ DOMAIN Weight \subseteq Nat /\ DOMAIN QueueNum = DOMAIN Weight
    /\ \A s \in DOMAIN Weight : Weight[s] \in Nat \ {0} /\ QueueNum[s] \in Nat
    /\ Speeds \subseteq Nat /\ SlaveLcores \subseteq Nat
    /\ {MAX_CORE_SIZE, CORE_SIZE, HalfWord, MaxQueues} \subseteq Nat
    /\ MAX_CORE_SIZE > 0 /\ 2 * MAX_CORE_SIZE < HalfWord
    /\ \A s \in DOMAIN Weight, n \in RingNums : (Weight[s] + 1) * n < HalfWord

VARIABLES
    stage,          \* how far dpdk_init is
    process,        \* "run", or how the process ended
    args,           \* the command line
    nb_ports, link, \* the NICs and the speed of each one's link
    steady,         \* no link has changed its speed since the start
    ring_num, enabled, thread_mode, queue_mode, start, end,             \* of ctx
    weight, weight_sum, sort,   \* locals of get_port_ringnum
    port_ringnum, port_queuenum,                \* of ctx, per port
    thread_info,    \* what each thread finds in ctx->thread_portnum and thread_ringnum
    core_portnum, core_queuenum,                \* of ctx, per lcore
    started,        \* the ports that port_init has started
    created         \* the receive rings that rte_ring_create has made

linkVars == <<link, steady>>
envVars  == <<args, nb_ports, ring_num>>
argVars  == <<enabled, thread_mode, queue_mode, start>>
sumVars  == <<weight, weight_sum, sort>>
portVars == <<port_ringnum, port_queuenum>>
mapVars  == <<end, thread_info, core_portnum, core_queuenum>>
runVars  == <<started, created>>
vars == <<stage, process, linkVars, envVars, argVars, sumVars, portVars, mapVars, runVars>>

Port == 0 .. nb_ports - 1

(* sum of f[0] .. f[n - 1] *)
SumBelow(f, n) == FoldFunctionOnSet(+, 0, f, 0 .. n - 1)
RingTotal == SumBelow(port_ringnum, nb_ports)

Init ==
    /\ stage = "args"
    /\ process = "run"
    /\ args \in Args
    /\ nb_ports \in NbPorts
    /\ link \in [Port -> Speeds]
    /\ steady = TRUE
    /\ ring_num \in RingNums
    /\ enabled = {} /\ thread_mode = 0 /\ queue_mode = 0 /\ start = 0 /\ end = 0
    /\ weight = 0 /\ weight_sum = 0 /\ sort = <<>>
    /\ port_ringnum = [p \in Port |-> 0]
    /\ port_queuenum = [p \in Port |-> 0]
    /\ thread_info = <<>>
    /\ core_portnum = <<>> /\ core_queuenum = <<>>
    /\ started = {} /\ created = {}

Exit(how) == process' = how /\ UNCHANGED stage
Continue(next) == stage' = next /\ UNCHANGED process

-----------------------------------------------------------------------------
(* l2fwd_parse_args *)

ParseMode(a) == CASE a = "1" -> 1 [] a = "2" -> 2 [] OTHER -> 0
ParseStart(s) == IF s >= MAX_CORE_SIZE THEN 0 ELSE s

(***************************************************************************)
(* The mask of enabled ports. l2fwd_parse_portmask answers -1 to what is   *)
(* no mask, and as a mask that is every port.                              *)
(***************************************************************************)
PortMask == CASE args.p = Absent -> {}
              [] args.p = "mask" -> args.ports
              [] OTHER           -> Port

ArgsRefused ==
    \/ args.m # Absent /\ ParseMode(args.m) = 0
    \/ args.M # Absent /\ ParseMode(args.M) = 0
    \/ args.S # -1 /\ ParseStart(args.S) = 0
    \/ args.q

ParseArgs ==
    /\ process = "run"
    /\ stage = "args"
    /\ \/ /\ ArgsRefused
          /\ Exit("exited")
          /\ UNCHANGED argVars
       \/ /\ ~ArgsRefused
          /\ Continue("sum")
          /\ enabled' = PortMask
          /\ thread_mode' = ParseMode(args.m)
          /\ queue_mode' = ParseMode(args.M)
          /\ start' = IF args.S = -1 THEN 0 ELSE ParseStart(args.S)
    /\ UNCHANGED <<linkVars, envVars, sumVars, portVars, mapVars, runVars>>

-----------------------------------------------------------------------------
(* get_port_ringnum *)

(* find_weight *)
Known(speed) == speed \in DOMAIN Weight

(***************************************************************************)
(* addNode, as seen from the head its caller keeps: a node that belongs    *)
(* before the head is not reached from there.                              *)
(***************************************************************************)
AddNode(list, node) ==
    LET i == SelectInSeq(list, LAMBDA n : n.speed <= node.speed)
    IN  CASE i = 0 -> Append(list, node)
          [] i = 1 -> list
          [] OTHER -> InsertAt(list, i, node)

Node(p) == [speed |-> link[p], port |-> p]
Sorted ==
    LET first[n \in 0 .. nb_ports - 1] ==
            IF n = 0 THEN <<Node(0)>> ELSE AddNode(first[n - 1], Node(n))
    IN  first[nb_ports - 1]

(* The first loop: the speeds are read, the weights added up. *)
SumWeights ==
    /\ process = "run"
    /\ stage = "sum"
    /\ \/ /\ nb_ports > ring_num \/ \E p \in Port : ~Known(link[p])
          /\ Exit("exited")
          /\ UNCHANGED sumVars
       \/ /\ nb_ports <= ring_num /\ \A p \in Port : Known(link[p])
          /\ Continue("share")
          /\ weight' = IF nb_ports = 0 THEN 0 ELSE Weight[link[nb_ports - 1]]
          /\ weight_sum' = SumBelow([p \in Port |-> Weight[link[p]]], nb_ports)
          /\ sort' = IF nb_ports = 0 THEN <<>> ELSE Sorted
    /\ UNCHANGED <<linkVars, envVars, argVars, portVars, mapVars, runVars>>

(* How many of k rings, dealt out one by one along the list, port p gets. *)
Dealt(k, p) == Cardinality({i \in 0 .. k - 1 : sort[(i % Len(sort)) + 1].port = p})

(***************************************************************************)
(* What the weights give port p. The second find_weight is not checked:    *)
(* the -1 of an unknown speed makes a negative share, which x86-64 brings  *)
(* into a uint16_t modulo 2^16.                                            *)
(***************************************************************************)
Weighed(p) ==
    IF Known(link[p]) THEN (Weight[link[p]] * ring_num) \div weight_sum
    ELSE HalfWord - ring_num \div weight_sum

(* Mutant: the rings that the weights leave over are not dealt out. *)
ShareFloor(p) ==
    IF weight > ring_num THEN Dealt(ring_num, p) ELSE Weighed(p) % HalfWord

Share(p) ==
    IF weight > ring_num THEN Dealt(ring_num, p)
    ELSE (Weighed(p) + (IF nb_ports = 1 THEN 0 ELSE Dealt(ring_num % weight_sum, p)))
           % HalfWord

(***************************************************************************)
(* The rest: the speeds are read again. Without any port the remainder by  *)
(* weight_sum divides by zero.                                             *)
(***************************************************************************)
ShareRings ==
    /\ process = "run"
    /\ stage = "share"
    /\ \/ /\ nb_ports = 0
          /\ Exit("crashed")
          /\ UNCHANGED port_ringnum
       \/ /\ nb_ports > 0
          /\ Continue("queues")
          /\ port_ringnum' = [p \in Port |-> Share(p)]
    /\ UNCHANGED <<linkVars, envVars, argVars, sumVars, port_queuenum, mapVars, runVars>>

-----------------------------------------------------------------------------
(* The rest of choice_init *)

(* find_queue by way of two uint16_t: -1 becomes 65535, which is not -1. *)
FindQueue(speed) ==
    LET short == speed % HalfWord
    IN  IF short \in DOMAIN QueueNum THEN QueueNum[short] % HalfWord ELSE HalfWord - 1

(* get_port_queuenum; with no -M the numbers stay zero. *)
CountQueues ==
    /\ process = "run"
    /\ stage = "queues"
    /\ Continue("threads")
    /\ port_queuenum' = CASE queue_mode = 1 -> [p \in Port |-> FindQueue(link[p])]
                          [] queue_mode = 2 -> port_ringnum
                          [] OTHER          -> port_queuenum
    /\ UNCHANGED <<linkVars, envVars, argVars, sumVars, port_ringnum, mapVars, runVars>>

(***************************************************************************)
(* The k-th pair (port, index) when each port p has f[p] of them in turn,  *)
(* or (0, 0), what calloc left there, when there are fewer.                *)
(***************************************************************************)
Nth(f, k) ==
    IF \E p \in Port : SumBelow(f, p) <= k /\ k < SumBelow(f, p + 1)
    THEN LET p == CHOOSE p \in Port : SumBelow(f, p) <= k /\ k < SumBelow(f, p + 1)
         IN  <<p, k - SumBelow(f, p)>>
    ELSE <<0, 0>>

(***************************************************************************)
(* thread_portnum and the entries after it: first those of thread_ringnum, *)
(* as its index MAX_CORE_SIZE is the first of them, then the padding at    *)
(* the end of the structure. The k-th share is written to the entries k    *)
(* and MAX_CORE_SIZE + k, so a later share overwrites an earlier one.      *)
(***************************************************************************)
Entry(i) ==
    IF i < MAX_CORE_SIZE \/ i < RingTotal THEN Nth(port_ringnum, i)[1]
    ELSE Nth(port_ringnum, i - MAX_CORE_SIZE)[2]
Padding == 2

(* get_thread_portinfo, as the threads there are read it *)
AssignThreads ==
    /\ process = "run"
    /\ stage = "threads"
    /\ \/ /\ RingTotal > MAX_CORE_SIZE + Padding \/ ring_num > MAX_CORE_SIZE + Padding
          /\ Exit("overrun")
          /\ UNCHANGED thread_info
       \/ /\ RingTotal <= MAX_CORE_SIZE + Padding /\ ring_num <= MAX_CORE_SIZE + Padding
          /\ Continue("cores")
          /\ thread_info' = [k \in 0 .. ring_num - 1 |-> <<Entry(k), Entry(MAX_CORE_SIZE + k)>>]
    /\ UNCHANGED <<linkVars, envVars, argVars, sumVars, portVars, end, core_portnum,
                   core_queuenum, runVars>>

(* Mutant: one lcore for each port in thread mode 1. *)
LengthOfPorts == IF thread_mode = 1 THEN nb_ports ELSE ring_num + nb_ports

(* bind_core_length *)
Length == IF thread_mode = 1 THEN 2 * nb_ports ELSE ring_num + nb_ports

(* get_core_portnum: the lcores for sending, then those for receiving. *)
CorePort(core, last) ==
    LET k   == core - start
        mid == (start + last + 1) \div 2
    IN  CASE thread_mode = 1 /\ core < mid    -> k
          [] thread_mode = 1 /\ core >= mid   -> core - mid
          [] thread_mode = 2 /\ k < nb_ports  -> k
          [] thread_mode = 2 /\ k >= nb_ports -> Nth(port_ringnum, k - nb_ports)[1]

(* get_core_queuenum: the queues of all ports in turn, from the first lcore. *)
CoreQueue(core) == Nth(port_queuenum, core - start)[2]
QueuesOverrun == start + SumBelow(port_queuenum, nb_ports) > CORE_SIZE

(***************************************************************************)
(* bind_core_length, get_core_portnum and get_core_queuenum. What they     *)
(* assign to lcores outside start .. end, mainLoop does not look at.       *)
(* core_queuenum past its end overwrites what follows: "overrun".          *)
(***************************************************************************)
BindCores ==
    LET last == start + Length - 1
    IN  /\ process = "run"
        /\ stage = "cores"
        /\ \/ /\ thread_mode = 0 \/ Length > MAX_CORE_SIZE
              /\ Exit("exited")
              /\ UNCHANGED <<end, core_portnum, core_queuenum>>
           \/ /\ thread_mode # 0 /\ Length <= MAX_CORE_SIZE /\ QueuesOverrun
              /\ Exit("overrun")
              /\ UNCHANGED <<end, core_portnum, core_queuenum>>
           \/ /\ thread_mode # 0 /\ Length <= MAX_CORE_SIZE /\ ~QueuesOverrun
              /\ Continue("ports")
              /\ end' = last
              /\ core_portnum' = [c \in start .. last |-> CorePort(c, last)]
              /\ core_queuenum' = [c \in start .. last |-> CoreQueue(c)]
        /\ UNCHANGED <<linkVars, envVars, argVars, sumVars, portVars, thread_info, runVars>>

-----------------------------------------------------------------------------
(* The rest of dpdk_init *)

(* port_init of the enabled ports; a port that cannot be started ends it. *)
StartPorts ==
    LET ports == enabled \cap Port
    IN  /\ process = "run"
        /\ stage = "ports"
        /\ \/ /\ ports # {}
              /\ Exit("exited")
              /\ UNCHANGED started
           \/ /\ \A p \in ports : port_queuenum[p] <= MaxQueues
              /\ Continue("rings")
              /\ started' = ports
        /\ UNCHANGED <<linkVars, envVars, argVars, sumVars, portVars, mapVars, created>>

Rings == {x \in Port \X (0 .. RingTotal - 1) : x[2] < port_ringnum[x[1]]}

(* initRing for each ring; that it failed is not looked at. *)
InitRings ==
    /\ process = "run"
    /\ stage = "rings"
    /\ Continue("launched")
    /\ \/ created' = Rings
       \/ \E x \in Rings : created' = Rings \ {x}
    /\ UNCHANGED <<linkVars, envVars, argVars, sumVars, portVars, mapVars, started>>

(***************************************************************************)
(* The speed of a link changes, to any. The three loops over the ports     *)
(* read the speed of each port once and of no other port with it, so a     *)
(* change in the middle of a loop is one before or after it; before the    *)
(* first loop it is another initial speed, after the last nobody looks.    *)
(***************************************************************************)
LinkChange(p, speed) ==
    /\ process = "run"
    /\ stage \in {"share", "queues"}
    /\ p \in Unsteady
    /\ link' = [link EXCEPT ![p] = speed]
    /\ steady' = FALSE
    /\ UNCHANGED <<stage, process, envVars, argVars, sumVars, portVars, mapVars, runVars>>

(* Initialisation is over: mainLoop runs for ever. *)
Launched ==
    /\ process # "run" \/ stage = "launched"
    /\ UNCHANGED vars

Next == \/ ParseArgs \/ SumWeights \/ ShareRings \/ CountQueues \/ AssignThreads
        \/ BindCores \/ StartPorts \/ InitRings
        \/ \E p \in Port, speed \in Speeds : LinkChange(p, speed)
        \/ Launched

Spec == Init /\ [][Next]_vars

-----------------------------------------------------------------------------
(* mainLoop: what the lcores do once they are launched *)

TxLcores == {c \in SlaveLcores : start <= c /\ c < start + nb_ports}
RxLcores == {c \in SlaveLcores : start + nb_ports <= c /\ c <= end}

(* The receive queues slaveCoreRx polls on an lcore. *)
Polled(c) ==
    LET p == core_portnum[c]
    IN  IF port_ringnum[p] = 0 THEN {}
        ELSE IF queue_mode = 2 /\ thread_mode = 2 THEN {<<p, core_queuenum[c]>>}
        ELSE {p} \X (0 .. port_queuenum[p] - 1)

Launch == stage = "launched" /\ process = "run"
AllLcores == start .. end \subseteq SlaveLcores

-----------------------------------------------------------------------------
(* Properties *)

Short == 0 .. HalfWord - 1

(* Every variable keeps its type. *)
TypeOK ==
    /\ stage \in {"args", "sum", "share", "queues", "threads", "cores", "ports", "rings",
                  "launched"}
    /\ process \in {"run", "exited", "crashed", "overrun"}
    /\ args \in Args /\ nb_ports \in NbPorts /\ ring_num \in RingNums
    /\ link \in [Port -> Speeds] /\ steady \in BOOLEAN
    /\ enabled \subseteq Nat
    /\ {thread_mode, queue_mode} \subseteq {0, 1, 2}
    /\ {start, end} \subseteq Short
    /\ weight \in Nat /\ weight_sum \in Nat
    /\ sort \in Seq([speed : Speeds, port : Port])
    /\ port_ringnum \in [Port -> Short] /\ port_queuenum \in [Port -> Short]
    /\ stage \in {"cores", "ports", "rings", "launched"} =>
         thread_info \in [0 .. ring_num - 1 -> Nat \X Nat]
    /\ stage \in {"ports", "rings", "launched"} =>
         /\ core_portnum \in [start .. end -> Port \cup {0}]
         /\ core_queuenum \in [start .. end -> Short]
    /\ started \subseteq Port /\ created \subseteq Port \X Nat

(***************************************************************************)
(* No two capture threads drain the same ring (initRing makes them         *)
(* single-consumer), and each drains a ring that its port has: while the   *)
(* links keep their speeds, the weights never hand out fewer rings than    *)
(* there are threads; and with a single NIC every ring that slaveCoreRx    *)
(* distributes to has its thread. Every variable keeps its type. Not so    *)
(* when the weights hand out more rings than the tables have entries,      *)
(* which get_thread_portinfo does not look at: then thread_portnum and     *)
(* thread_ringnum overlap, and two threads may drain one ring.             *)
(***************************************************************************)
Alone == \A j, k \in DOMAIN thread_info : thread_info[j] = thread_info[k] => j = k

ThreadsOwnRing ==
    /\ TypeOK
    /\ Launch /\ steady /\ RingTotal <= MAX_CORE_SIZE =>
          LET owned == {thread_info[k] : k \in DOMAIN thread_info}
          IN  /\ Alone
              /\ owned \subseteq Rings
              /\ nb_ports = 1 => owned = Rings

(***************************************************************************)
(* "Bind the corresponding network card queue number to different cores":  *)
(* every receive queue is polled by exactly one lcore (the poll is not     *)
(* safe from two), unless each of several lcores is to poll all queues     *)
(* (-m 2 with -M 1).                                                       *)
(***************************************************************************)
QueuePolledOnce ==
    Launch /\ AllLcores /\ ~(thread_mode = 2 /\ queue_mode = 1) =>
        \A p \in Port : \A q \in 0 .. port_queuenum[p] - 1 :
            \E c \in RxLcores : {d \in RxLcores : <<p, q>> \in Polled(d)} = {c}

(***************************************************************************)
(* In thread mode 1 each port has exactly one lcore that runs slaveCoreTx  *)
(* and exactly one that runs slaveCoreRx, whatever the links do: the       *)
(* halves get_core_portnum makes are the halves mainLoop tells apart, so   *)
(* that each receive ring has a single producer. A single NIC has every    *)
(* queue polled once, and in thread mode 2 as many receive lcores as rings *)
(* (conf/dpdk.xml: "thread num equals to ring Number").                    *)
(***************************************************************************)
Serve(lcores, p) == {c \in lcores : core_portnum[c] = p}
PortServedOnce ==
    /\ Launch /\ thread_mode = 1 /\ AllLcores =>
          \A p \in Port :
              /\ \E c \in TxLcores : Serve(TxLcores, p) = {c}
              /\ \E c \in RxLcores : Serve(RxLcores, p) = {c}
    /\ nb_ports = 1 /\ steady =>
          /\ QueuePolledOnce
          /\ Launch /\ AllLcores /\ thread_mode = 2 => Cardinality(RxLcores) = RingTotal
=============================================================================
