---------------------------- MODULE PortSession -----------------------------
(***************************************************************************)
(* testpmd, as it is built into the capture library: the life of its ports *)
(* (start_port, stop_port, close_port, attach_port, detach_port), of its   *)
(* forwarding configuration, and of a forwarding session                   *)
(* (start_packet_forwarding, stop_packet_forwarding, pmd_test_exit), as    *)
(* the command thread runs one command after another while the forwarding  *)
(* lcores run their streams.                                               *)
(*                                                                         *)
(* A step of the command thread is a command, or what it does between two  *)
(* points where it can fail or wait; a command that is refused changes     *)
(* nothing and is left out. What an lcore does in a burst is not modelled, *)
(* only which streams it does it on. DCB, bonding and NUMA mode (which no  *)
(* code of this tree turns on) are left out.                               *)
(***************************************************************************)
EXTENDS FwdConfig, Sequences, FiniteSets

CONSTANTS
    Port,           \* port ids, 0 .. RTE_MAX_ETHPORTS - 1
    ProbedPorts,    \* the sets of ports that may have been probed at the start
    nb_lcores,      \* forwarding lcores
    Topologies,     \* values of port_topology
    Engines,        \* the modes among "io", "rxonly", "txonly", "icmpecho" in use
    PortLists,      \* port lists the user may set
    QueueNums,      \* queue numbers the user may set
    MaxQueues,      \* dev_info.max_rx_queues and max_tx_queues
    Sockets,        \* sockets a device may be on, below max_socket
    MaxChanges      \* bound on the settings made and the ports added and removed

ASSUME SessionAssumption ==
    /\ IsFiniteSet(Port) /\ Port = 0 .. Cardinality(Port) - 1 /\ Port # {}
    /\ \A P \in ProbedPorts : P \subseteq Port /\ P = 0 .. Cardinality(P) - 1
    /\ nb_lcores \in Nat \ {0} /\ MaxQueues \in Nat \ {0} /\ MaxChanges \in Nat
    /\ Engines \subseteq {"io", "rxonly", "txonly", "icmpecho"} /\ "io" \in Engines
    /\ Topologies \subseteq {"paired", "chained", "loop"}
    /\ QueueNums \subseteq Nat /\ Sockets \subseteq Nat
    /\ PortLists \subseteq Seq(Port)
    /\ \A list \in PortLists : \A i, j \in 1 .. Len(list) : list[i] = list[j] => i = j

Lcore == 0 .. nb_lcores - 1
Pools == {0}        \* without NUMA, init_config creates the pool of socket 0

VARIABLES
    enabled,                \* the ports with ports[p].enabled
    port_status, need_reconfig, need_reconfig_queues, socket_id,  \* of ports[p]
    queues,                 \* queues[p]: the queues its device was set up with
    fwd_ports_ids, nb_cfg_ports, nb_fwd_ports, nb_cfg_lcores, nb_fwd_lcores,
    nb_rxq, nb_txq, cur_fwd_eng, port_topology,
    cur_fwd_config,         \* with fwd_eng left to fwd_eng
    fwd_eng,                \* cur_fwd_config.fwd_eng
    fwd_streams,            \* the array, of nb_fwd_streams streams
    fwd_lcores,             \* the stream_idx and stream_nb of each lcore
    stopped,                \* the lcores whose stopped is set
    running,                \* the lcores inside run_pkt_fwd_on_lcore
    view,                   \* view[l]: the streams lcore l read when it began
    freed,                  \* running lcores whose array of streams was freed
    test_done,
    cmd,                    \* what the command thread is doing
    todo,                   \* the ports start_port has still to start
    resized,                \* the configuration was set up again in a session
    gap,                    \* the default was set while port ids had a gap
    changes,                \* how many were made
    process                 \* "run", or how the process ended

portVars  == <<port_status, need_reconfig, need_reconfig_queues, queues>>
listVars  == <<fwd_ports_ids, nb_cfg_ports, nb_fwd_ports>>
numVars   == <<nb_cfg_lcores, nb_fwd_lcores>>
queueVars == <<nb_rxq, nb_txq>>
cfgVars   == <<cur_fwd_config, fwd_eng, fwd_streams, fwd_lcores>>
lcoreVars == <<stopped, running, view>>
settingVars == <<listVars, numVars, queueVars, cur_fwd_eng, port_topology, cfgVars>>
vars == <<enabled, portVars, socket_id, listVars, numVars, queueVars, cur_fwd_eng,
          port_topology, cfgVars, lcoreVars, freed, test_done, cmd, todo, resized,
          gap, changes, process>>

NoQueues == [rx |-> 0, tx |-> 0]
ZeroStream == Stream(0, 0, 0, 0)    \* rte_zmalloc

(* The state that init_port, set_def_fwd_config and init_config build. No  *)
(* code of this tree calls the first and the last: ports would be NULL.    *)
Init ==
    /\ enabled \in ProbedPorts
    /\ port_status = [p \in Port |-> "stopped"]
    /\ need_reconfig = enabled
    /\ need_reconfig_queues = enabled
    /\ socket_id = [p \in Port |-> 0]
    /\ queues = [p \in Port |-> NoQueues]
    /\ fwd_ports_ids = [i \in Port |-> IF i \in enabled THEN i ELSE 0]
    /\ nb_cfg_ports = Cardinality(enabled)
    /\ nb_fwd_ports = Cardinality(enabled)
    /\ nb_cfg_lcores = nb_lcores
    /\ nb_fwd_lcores = 1
    /\ nb_rxq = 1 /\ nb_txq = 1
    /\ cur_fwd_eng = "io"
    /\ port_topology \in Topologies
    /\ cur_fwd_config = ConfigOf("io", nb_fwd_ports, 1, 1, 1)
    /\ fwd_eng = "io"
    /\ fwd_streams = StreamsOf("io", port_topology, fwd_ports_ids, nb_fwd_ports, 1, 1)
    /\ fwd_lcores = [l \in Lcore |-> IF l = 0 THEN Share(0, nb_fwd_ports) ELSE Share(0, 0)]
    /\ stopped = {}
    /\ running = {} /\ freed = {}
    /\ view = [l \in Lcore |-> Share(0, 0)]
    /\ test_done = 1
    /\ cmd = "prompt"
    /\ todo = {}
    /\ resized = FALSE /\ gap = FALSE
    /\ changes = 0
    /\ process = "run"

Running == process = "run"

(* The prompt takes a command. *)
Command ==
    /\ Running
    /\ cmd = "prompt"

Change == Command /\ changes < MaxChanges /\ changes' = changes + 1
Keep   == UNCHANGED changes

-----------------------------------------------------------------------------
(* fwd_config_setup, with the settings as the command leaves them *)

NewConfig == ConfigOf(cur_fwd_eng', nb_fwd_ports', nb_fwd_lcores', nb_rxq', nb_txq')
NewStreams == StreamsOf(cur_fwd_eng', port_topology, fwd_ports_ids', nb_fwd_ports',
                        nb_rxq', nb_txq')
ArraySize == Cardinality(DOMAIN fwd_streams)

(* init_fwd_streams returns before it looks at the array. *)
TooManyQueues ==
    enabled # {} /\ (nb_rxq' > MaxQueues \/ nb_txq' > MaxQueues)

NewSize ==
    IF TooManyQueues THEN ArraySize ELSE Cardinality(enabled) * Greater(nb_rxq', nb_txq')

(* The code divides by zero, or takes a stream past the end of the array. *)
SetupFaults ==
    \/ DividesByZero(NewConfig.nb_fwd_streams, NewConfig.nb_fwd_lcores)
    \/ NewConfig.nb_fwd_streams > NewSize

NewArray ==
    IF NewSize = ArraySize THEN fwd_streams ELSE [s \in 0 .. NewSize - 1 |-> ZeroStream]

FwdConfigSetup ==
    IF SetupFaults
    THEN /\ process' = "crashed"
         /\ UNCHANGED <<cfgVars, socket_id, freed>>
    ELSE /\ cur_fwd_config' = NewConfig
         /\ fwd_eng' = cur_fwd_eng'
         /\ fwd_streams' = [s \in DOMAIN NewArray |->
                IF s \in DOMAIN NewStreams THEN NewStreams[s] ELSE NewArray[s]]
         /\ LET new == EachLcore(NewConfig.nb_fwd_streams, NewConfig.nb_fwd_lcores)
            IN  fwd_lcores' = [l \in Lcore |->
                                  IF l \in DOMAIN new THEN new[l] ELSE fwd_lcores[l]]
         /\ socket_id' = IF TooManyQueues THEN socket_id
                         ELSE [p \in Port |-> IF p \in enabled THEN 0 ELSE socket_id[p]]
         /\ freed' = IF NewSize = ArraySize THEN freed ELSE running
         /\ UNCHANGED process

(* What the commands that set up the configuration again have in common. *)
SetUpAgain ==
    /\ FwdConfigSetup
    /\ resized' = (resized \/ test_done = 0)
    /\ UNCHANGED <<enabled, port_status, queues, port_topology, lcoreVars, test_done,
                   cmd, todo>>

-----------------------------------------------------------------------------
(* Settings *)

(* set portlist, set portmask *)
SetFwdPortsList(list) ==
    /\ Change
    /\ test_done = 1
    /\ Len(list) > 0
    /\ IF \A i \in 1 .. Len(list) : list[i] \in enabled
       THEN /\ fwd_ports_ids' = [i \in Port |-> IF i < Len(list) THEN list[i + 1]
                                                ELSE fwd_ports_ids[i]]
            /\ nb_cfg_ports' = Len(list)
            /\ nb_fwd_ports' = Len(list)
            /\ gap' = FALSE
       ELSE UNCHANGED <<listVars, gap>>
    /\ UNCHANGED <<need_reconfig, need_reconfig_queues, numVars, queueVars, cur_fwd_eng>>
    /\ SetUpAgain

(* set corelist, set coremask: nb_lc forwarding lcores *)
SetFwdLcoresList(nb_lc) ==
    /\ Change
    /\ test_done = 1
    /\ nb_cfg_lcores' = nb_lc
    /\ nb_fwd_lcores' = nb_lc
    /\ UNCHANGED <<gap, need_reconfig, need_reconfig_queues, listVars, queueVars, cur_fwd_eng>>
    /\ SetUpAgain

(* set nbport: also in the middle of a session *)
SetFwdPortsNumber(nb_pt) ==
    /\ Change
    /\ nb_fwd_ports' = IF nb_pt > nb_cfg_ports THEN nb_fwd_ports ELSE nb_pt
    /\ UNCHANGED <<gap, need_reconfig, need_reconfig_queues, fwd_ports_ids, nb_cfg_ports,
                   numVars, queueVars, cur_fwd_eng>>
    /\ SetUpAgain

(* Mutant: more lcores than were configured. *)
SetFwdLcoresNumberUnchecked(nb_lc) ==
    /\ Change
    /\ nb_fwd_lcores' = nb_lc
    /\ UNCHANGED <<gap, need_reconfig, need_reconfig_queues, listVars, nb_cfg_lcores,
                   queueVars, cur_fwd_eng>>
    /\ SetUpAgain

(* set nbcore: also in the middle of a session *)
SetFwdLcoresNumber(nb_lc) ==
    /\ Change
    /\ nb_fwd_lcores' = IF nb_lc > nb_cfg_lcores THEN nb_fwd_lcores ELSE nb_lc
    /\ UNCHANGED <<gap, need_reconfig, need_reconfig_queues, listVars, nb_cfg_lcores,
                   queueVars, cur_fwd_eng>>
    /\ SetUpAgain

AllPortsStopped == \A p \in enabled : port_status[p] = "stopped"
AllPortsStarted == \A p \in enabled : port_status[p] = "started"

(* port config all rxq, txq; and rxd, txd, which leave both numbers *)
ConfigQueues(rx, tx) ==
    /\ Change
    /\ AllPortsStopped
    /\ rx > 0 \/ tx > 0
    /\ nb_rxq' = rx /\ nb_txq' = tx
    /\ need_reconfig' = need_reconfig \cup enabled
    /\ need_reconfig_queues' = need_reconfig_queues \cup enabled
    /\ UNCHANGED <<gap, listVars, numVars, cur_fwd_eng>>
    /\ SetUpAgain

(* A command is for one port, or with RTE_PORT_ALL for those there are. *)
OneOrAll == {{p} : p \in Port} \cup {Port}
There(pids) == pids \cap enabled

(* Other settings of a device (speed, rx mode, thresholds, filters) *)
ReconfigDevice(pids) ==
    /\ Change
    /\ There(pids) # {}
    /\ \A p \in There(pids) : port_status[p] = "stopped"
    /\ need_reconfig' = need_reconfig \cup There(pids)
    /\ need_reconfig_queues' = need_reconfig_queues \cup There(pids)
    /\ UNCHANGED <<enabled, port_status, queues, socket_id, settingVars, lcoreVars, freed,
                   test_done, cmd, todo, resized, gap, process>>

(* set default: also in a session. Ports 0 to nb_ports - 1, there or not. *)
SetDefault ==
    LET nb_ports == Cardinality(enabled)
    IN  /\ Change
        /\ nb_cfg_lcores' = nb_lcores
        /\ nb_fwd_lcores' = 1
        /\ fwd_ports_ids' = [i \in Port |-> IF i < nb_ports THEN i ELSE fwd_ports_ids[i]]
        /\ nb_cfg_ports' = nb_ports
        /\ nb_fwd_ports' = nb_ports
        /\ gap' = (gap \/ enabled # 0 .. nb_ports - 1)
        /\ UNCHANGED <<enabled, portVars, socket_id, queueVars, cur_fwd_eng, port_topology,
                       cfgVars, lcoreVars, freed, test_done, cmd, todo, resized, process>>

(* set fwd: the session that runs keeps its engine. *)
SetFwdMode(eng) ==
    /\ Change
    /\ cur_fwd_eng' = eng
    /\ UNCHANGED <<gap, enabled, portVars, socket_id, listVars, numVars, queueVars,
                   port_topology, cfgVars, lcoreVars, freed, test_done, cmd, todo,
                   resized, process>>

-----------------------------------------------------------------------------
(* Ports *)

(* port start: the ports are started one after the other. *)
StartPort(pids) ==
    /\ Command
    /\ Keep
    /\ There(pids) # {}
    /\ cmd' = "start"
    /\ todo' = There(pids)
    /\ UNCHANGED <<enabled, portVars, socket_id, settingVars, lcoreVars, freed,
                   test_done, resized, gap, process>>

NextPort == CHOOSE p \in todo : \A o \in todo : p <= o
Starting == Running /\ cmd = "start" /\ todo # {}
DevStep == Keep /\ UNCHANGED <<enabled, socket_id, settingVars, lcoreVars, freed, test_done,
                       resized, gap, process>>
GoOn  == todo' = todo \ {NextPort} /\ UNCHANGED cmd
Abort == todo' = {} /\ UNCHANGED cmd

PortNotStopped ==
    /\ Starting
    /\ port_status[NextPort] # "stopped"
    /\ GoOn
    /\ UNCHANGED portVars
    /\ DevStep

(* rte_eth_dev_configure fails; it is tried again the next time. *)
ConfigureFails ==
    /\ Starting
    /\ port_status[NextPort] = "stopped"
    /\ NextPort \in need_reconfig
    /\ Abort
    /\ UNCHANGED portVars
    /\ DevStep

(* rte_eth_dev_configure succeeds, or is not called. *)
Configures == NextPort \in need_reconfig => nb_rxq <= MaxQueues /\ nb_txq <= MaxQueues

(* The queues a device has once it was configured, if it had to be. *)
Configured(p) == IF p \in need_reconfig THEN NoQueues ELSE queues[p]

(* Mutant: the queues are not set up again the next time. *)
QueueSetupFailsForGood ==
    /\ Starting
    /\ port_status[NextPort] = "stopped"
    /\ Configures
    /\ NextPort \in need_reconfig_queues
    /\ nb_txq > 0 \/ (nb_rxq > 0 /\ socket_id[NextPort] \in Pools)
    /\ need_reconfig' = need_reconfig \ {NextPort}
    /\ need_reconfig_queues' = need_reconfig_queues \ {NextPort}
    /\ queues' = [queues EXCEPT ![NextPort] = Configured(NextPort)]
    /\ Abort
    /\ UNCHANGED port_status
    /\ DevStep

(* rte_eth_tx_queue_setup or rte_eth_rx_queue_setup fails. *)
QueueSetupFails ==
    /\ Starting
    /\ port_status[NextPort] = "stopped"
    /\ Configures
    /\ NextPort \in need_reconfig_queues
    /\ nb_txq > 0 \/ (nb_rxq > 0 /\ socket_id[NextPort] \in Pools)
    /\ need_reconfig' = need_reconfig \ {NextPort}
    /\ queues' = [queues EXCEPT ![NextPort] = Configured(NextPort)]
    /\ Abort
    /\ UNCHANGED <<port_status, need_reconfig_queues>>
    /\ DevStep

(* mbuf_pool_find finds no pool: the port is left as it is being handled. *)
NoMempool ==
    /\ Starting
    /\ port_status[NextPort] = "stopped"
    /\ Configures
    /\ NextPort \in need_reconfig_queues
    /\ nb_rxq > 0
    /\ socket_id[NextPort] \notin Pools
    /\ need_reconfig' = need_reconfig \ {NextPort}
    /\ need_reconfig_queues' = need_reconfig_queues \ {NextPort}
    /\ queues' = [queues EXCEPT ![NextPort] = [rx |-> 0, tx |-> nb_txq]]
    /\ port_status' = [port_status EXCEPT ![NextPort] = "handling"]
    /\ Abort
    /\ DevStep

(* Everything up to rte_eth_dev_start, which may fail too. *)
StartDevice(status) ==
    /\ Starting
    /\ port_status[NextPort] = "stopped"
    /\ Configures
    /\ NextPort \in need_reconfig_queues /\ nb_rxq > 0 => socket_id[NextPort] \in Pools
    /\ need_reconfig' = need_reconfig \ {NextPort}
    /\ need_reconfig_queues' = need_reconfig_queues \ {NextPort}
    /\ queues' = [queues EXCEPT ![NextPort] =
                     IF NextPort \in need_reconfig_queues
                     THEN [rx |-> nb_rxq, tx |-> nb_txq] ELSE Configured(NextPort)]
    /\ port_status' = [port_status EXCEPT ![NextPort] = status]
    /\ GoOn
    /\ DevStep

StartDone ==
    /\ Running
    /\ cmd = "start"
    /\ todo = {}
    /\ cmd' = "prompt"
    /\ UNCHANGED todo
    /\ UNCHANGED portVars
    /\ DevStep

StartPorts == \/ PortNotStopped \/ ConfigureFails \/ QueueSetupFails \/ NoMempool
              \/ StartDevice("started") \/ StartDevice("stopped") \/ StartDone

PortCommand == UNCHANGED <<lcoreVars, freed, test_done, cmd, todo, resized, gap, process>>

Forwarding == {fwd_ports_ids[i] : i \in 0 .. nb_fwd_ports - 1}

(* Mutant: every port may be stopped and closed in a session. *)
UnusedAny == Port

(* port_is_forwarding: as the lists are now, not as the session began *)
Unused == {p \in Port : p \notin Forwarding \/ test_done = 1}

(* port stop *)
StopPort(pids) ==
    /\ Command
    /\ Keep
    /\ There(pids) # {}
    /\ port_status' = [p \in Port |->
          IF p \in There(pids) \cap Unused /\ port_status[p] = "started" THEN "stopped"
          ELSE port_status[p]]
    /\ UNCHANGED <<enabled, need_reconfig, need_reconfig_queues, queues, socket_id,
                   settingVars>>
    /\ PortCommand

(* port close *)
ClosePort(pids) ==
    /\ Command
    /\ Keep
    /\ There(pids) # {}
    /\ LET closing == {p \in There(pids) \cap Unused : port_status[p] = "stopped"}
       IN  /\ port_status' = [p \in Port |->
                                 IF p \in closing THEN "closed" ELSE port_status[p]]
           /\ queues' = [p \in Port |-> IF p \in closing THEN NoQueues ELSE queues[p]]
    /\ UNCHANGED <<enabled, need_reconfig, need_reconfig_queues, socket_id, settingVars>>
    /\ PortCommand

(* update_fwd_ports: the positions that stay, closed up, then the new port *)
Kept == {i \in Port : i < nb_fwd_ports /\ fwd_ports_ids[i] \in enabled'}
KeptAt(k) == CHOOSE i \in Kept : Cardinality({j \in Kept : j < i}) = k
UpdateFwdPorts(new) ==
    LET nb == Cardinality(Kept)
    IN  /\ fwd_ports_ids' = [i \in Port |->
              IF i < nb THEN fwd_ports_ids[KeptAt(i)]
              ELSE IF i = nb /\ new # {} THEN CHOOSE p \in new : TRUE
              ELSE fwd_ports_ids[i]]
        /\ nb_fwd_ports' = nb + Cardinality(new)
        /\ nb_cfg_ports' = nb + Cardinality(new)

listUpdate == UNCHANGED <<numVars, queueVars, cur_fwd_eng, port_topology, cfgVars>>

(* port attach: the device gets the first free port id. A list that names  *)
(* a port twice may be full, and the new port is written past its end.     *)
AttachPort(socket) ==
    /\ Change
    /\ Port \ enabled # {}
    /\ LET p == CHOOSE p \in Port \ enabled : \A o \in Port \ enabled : p <= o
       IN  /\ enabled' = enabled \cup {p}
           /\ need_reconfig' = need_reconfig \cup {p}
           /\ need_reconfig_queues' = need_reconfig_queues \cup {p}
           /\ socket_id' = [socket_id EXCEPT ![p] = socket]
           /\ port_status' = [port_status EXCEPT ![p] = "stopped"]
           /\ queues' = [queues EXCEPT ![p] = NoQueues]
           /\ IF Cardinality(Kept) \in Port
              THEN UpdateFwdPorts({p}) /\ UNCHANGED process
              ELSE process' = "crashed" /\ UNCHANGED listVars
    /\ listUpdate
    /\ UNCHANGED <<lcoreVars, freed, test_done, cmd, todo, resized, gap>>

(* port detach: the port must be closed. *)
DetachPort(p) ==
    /\ Change
    /\ p \in enabled
    /\ port_status[p] = "closed"
    /\ enabled' = enabled \ {p}
    /\ UpdateFwdPorts({})
    /\ UNCHANGED <<portVars, socket_id>>
    /\ listUpdate
    /\ PortCommand

-----------------------------------------------------------------------------
(* A forwarding session *)

(* The engine and the numbers of queues do not go together: rte_exit. *)
WrongEngine ==
    CASE cur_fwd_eng = "rxonly" -> nb_rxq = 0
      [] cur_fwd_eng = "txonly" -> nb_txq = 0
      [] OTHER -> nb_rxq = 0 \/ nb_txq = 0

StartExits ==
    /\ Command
    /\ Keep
    /\ WrongEngine
    /\ process' = "rte_exit"
    /\ UNCHANGED <<enabled, portVars, socket_id, settingVars, lcoreVars, freed,
                   test_done, cmd, todo, resized, gap>>

(* launch_packet_forwarding *)
Launch ==
    /\ running' = 0 .. cur_fwd_config'.nb_fwd_lcores - 1
    /\ stopped' = stopped \ running'
    /\ view' = [l \in Lcore |-> IF l \in running' THEN fwd_lcores'[l] ELSE view[l]]

(* start; start tx_first, which first has each lcore send a burst *)
StartPacketForwarding(next) ==
    /\ Command
    /\ Keep
    /\ ~WrongEngine
    /\ AllPortsStarted
    /\ test_done = 1
    /\ UNCHANGED <<gap, listVars, numVars, queueVars, cur_fwd_eng>>
    /\ FwdConfigSetup
    /\ test_done' = 0
    /\ resized' = FALSE
    /\ IF SetupFaults THEN UNCHANGED lcoreVars ELSE Launch
    /\ cmd' = next
    /\ UNCHANGED <<enabled, portVars, port_topology, todo>>

Idle == Keep /\ UNCHANGED <<enabled, portVars, socket_id, settingVars, todo, resized, gap>>

TxFirstDone ==
    /\ Running
    /\ cmd = "first"
    /\ running = {}
    /\ UNCHANGED <<cur_fwd_config, fwd_lcores>>
    /\ Launch
    /\ cmd' = "prompt"
    /\ UNCHANGED <<freed, test_done, process>>
    /\ Idle

(* Mutant: the last lcore is not told. *)
TellAllButLast(next) ==
    /\ Command
    /\ Keep
    /\ test_done = 0
    /\ stopped' = stopped \cup 0 .. cur_fwd_config.nb_fwd_lcores - 2
    /\ cmd' = next
    /\ UNCHANGED <<enabled, portVars, socket_id, settingVars, running, view, freed,
                   test_done, todo, resized, gap, process>>

(* stop, and the exit of the program: the lcores are told to stop. *)
TellLcoresToStop(next) ==
    /\ Command
    /\ Keep
    /\ test_done = 0
    /\ stopped' = stopped \cup 0 .. cur_fwd_config.nb_fwd_lcores - 1
    /\ cmd' = next
    /\ UNCHANGED <<enabled, portVars, socket_id, settingVars, running, view, freed,
                   test_done, todo, resized, gap, process>>

(* rte_eal_mp_wait_lcore *)
ForwardingStopped ==
    /\ Running
    /\ cmd = "stop"
    /\ running = {}
    /\ test_done' = 1
    /\ cmd' = "prompt"
    /\ UNCHANGED <<lcoreVars, freed, process>>
    /\ Idle

(* pmd_test_exit without a session *)
ExitIdle ==
    /\ Command
    /\ Keep
    /\ test_done = 1
    /\ cmd' = "exit"
    /\ UNCHANGED <<enabled, portVars, socket_id, settingVars, lcoreVars, freed, test_done,
                   todo, resized, gap, process>>

(* pmd_test_exit: the session is over, every port is stopped and closed. *)
ShutDown ==
    /\ Running
    /\ Keep
    /\ cmd = "exit"
    /\ running = {}
    /\ test_done' = 1
    /\ port_status' = [p \in Port |->
          IF p \in enabled /\ port_status[p] \in {"started", "stopped"}
          THEN "closed" ELSE port_status[p]]
    /\ process' = "exited"
    /\ UNCHANGED <<enabled, need_reconfig, need_reconfig_queues, queues, socket_id,
                   settingVars, lcoreVars, freed, cmd, todo, resized, gap>>

(* run_pkt_fwd_on_lcore: after a burst of each stream, unless stopped, again *)
LcoreReturns(l) ==
    /\ Running
    /\ l \in running
    /\ l \in stopped \/ cmd = "first"
    /\ running' = running \ {l}
    /\ freed' = freed \ {l}
    /\ view' = [view EXCEPT ![l] = Share(0, 0)]
    /\ UNCHANGED <<stopped, test_done, cmd, process>>
    /\ Idle

(* A burst of a stream that was freed *)
UseOfFreed(l) ==
    /\ Running
    /\ l \in freed
    /\ process' = "crashed"
    /\ UNCHANGED <<lcoreVars, freed, test_done, cmd>>
    /\ Idle

CmdStep == StartPorts \/ TxFirstDone \/ ForwardingStopped \/ ShutDown

Prompt ==
    \/ \E list \in PortLists : SetFwdPortsList(list)
    \/ \E n \in 1 .. nb_lcores : SetFwdLcoresList(n)
    \/ \E n \in 0 .. Cardinality(Port) : SetFwdPortsNumber(n)
    \/ \E n \in 0 .. nb_lcores : SetFwdLcoresNumber(n)
    \/ \E n \in QueueNums : ConfigQueues(n, nb_txq) \/ ConfigQueues(nb_rxq, n)
    \/ \E eng \in Engines : SetFwdMode(eng)
    \/ SetDefault
    \/ \E pids \in OneOrAll :
          ReconfigDevice(pids) \/ StartPort(pids) \/ StopPort(pids) \/ ClosePort(pids)
    \/ \E s \in Sockets : AttachPort(s)
    \/ \E p \in Port : DetachPort(p)
    \/ StartExits
    \/ \E next \in {"prompt", "first"} : StartPacketForwarding(next)
    \/ \E next \in {"stop", "exit"} : TellLcoresToStop(next)
    \/ ExitIdle

(* The process has ended; or the command thread waits for lcores, which    *)
(* may be for ever (StopReturns).                                          *)
Waits == cmd \in {"first", "stop", "exit"} /\ running # {}
Ended == (~Running \/ Waits) /\ UNCHANGED vars

Next == Prompt \/ CmdStep \/ (\E l \in Lcore : LcoreReturns(l) \/ UseOfFreed(l)) \/ Ended

Spec == Init /\ [][Next]_vars

(* A command that was begun goes on, and so do the lcores. *)
FairSpec == Spec /\ WF_vars(CmdStep) /\ \A l \in Lcore : WF_vars(LcoreReturns(l))

-----------------------------------------------------------------------------
(* Properties *)

ShareType == [stream_idx : Nat, stream_nb : Nat]

(* Every variable keeps its type; the lists do not outgrow their arrays. *)
TypeOK ==
    /\ enabled \subseteq Port /\ need_reconfig \subseteq Port
    /\ need_reconfig_queues \subseteq Port
    /\ port_status \in [Port -> {"stopped", "started", "closed", "handling"}]
    /\ socket_id \in [Port -> Sockets \cup {0}]
    /\ queues \in [Port -> [rx : Nat, tx : Nat]]
    /\ fwd_ports_ids \in [Port -> Port]
    /\ {nb_cfg_ports, nb_fwd_ports} \subseteq 0 .. Cardinality(Port)
    /\ {nb_cfg_lcores, nb_fwd_lcores} \subseteq 0 .. nb_lcores
    /\ {nb_rxq, nb_txq} \subseteq Nat
    /\ {cur_fwd_eng, fwd_eng} \subseteq Engines /\ port_topology \in Topologies
    /\ cur_fwd_config \in [nb_fwd_lcores : 0 .. nb_lcores, nb_fwd_ports : Nat,
                           nb_fwd_streams : Nat]
    /\ \A s \in DOMAIN fwd_streams :
          fwd_streams[s] \in [rx_port : Port, rx_queue : Nat, tx_port : Port, tx_queue : Nat]
    /\ fwd_lcores \in [Lcore -> ShareType] /\ view \in [Lcore -> ShareType]
    /\ stopped \subseteq Lcore /\ running \subseteq Lcore /\ freed \subseteq Lcore
    /\ test_done \in {0, 1}
    /\ cmd \in {"prompt", "start", "first", "stop", "exit"}
    /\ todo \subseteq enabled
    /\ resized \in BOOLEAN /\ gap \in BOOLEAN /\ changes \in 0 .. MaxChanges
    /\ process \in {"run", "crashed", "rte_exit", "exited"}

(***************************************************************************)
(* What dpdk.c says of the configuration: nb_fwd_lcores <= nb_cfg_lcores   *)
(* <= nb_lcores and nb_fwd_ports <= nb_cfg_ports <= nb_ports, through      *)
(* attaching, detaching and every setting; and the ports in the lists are  *)
(* distinct and there, so that each is served once. That ends when the     *)
(* default is set after a port but the last was detached (gap). Every      *)
(* variable keeps its type.                                                *)
(***************************************************************************)
ConfiguredWithinProbed ==
    /\ TypeOK
    /\ nb_fwd_lcores <= nb_cfg_lcores /\ nb_cfg_lcores <= nb_lcores
    /\ nb_fwd_ports <= nb_cfg_ports
    /\ ~gap =>
          /\ nb_cfg_ports <= Cardinality(enabled)
          /\ \A i, j \in 0 .. nb_cfg_ports - 1 :
                /\ fwd_ports_ids[i] \in enabled
                /\ fwd_ports_ids[i] = fwd_ports_ids[j] => i = j

(* Of the configuration last set up: the lcore l has stream s. *)
Has(l, s) == InShare(s, fwd_lcores[l])

(***************************************************************************)
(* A queue of a NIC must not be used by two lcores at a time: no two       *)
(* streams poll one receive queue or send to one transmit queue. Except,   *)
(* as simple_fwd_config_setup warns, for an odd number of paired ports;    *)
(* or after a gap, which gets a port into the list twice. A process that   *)
(* crashed in the middle of setting them up promises nothing.              *)
(***************************************************************************)
OddPairs ==
    /\ port_topology = "paired" /\ cur_fwd_config.nb_fwd_ports % 2 = 1
    /\ cur_fwd_config.nb_fwd_streams = cur_fwd_config.nb_fwd_ports
OneStreamPerQueue ==
    ~gap /\ process # "crashed" => \A s, t \in 0 .. cur_fwd_config.nb_fwd_streams - 1 :
        LET a == fwd_streams[s]
            b == fwd_streams[t]
        IN  s # t =>
              /\ <<a.rx_port, a.rx_queue>> # <<b.rx_port, b.rx_queue>>
              /\ OddPairs \/ <<a.tx_port, a.tx_queue>> # <<b.tx_port, b.tx_queue>>

(***************************************************************************)
(* setup_fwd_config_of_each_lcore leaves no stream out and gives none to   *)
(* two lcores, and no lcore a stream that is not there; with one stream    *)
(* for a queue, each queue has one lcore.                                  *)
(***************************************************************************)
StreamsDivided ==
    LET lcores == 0 .. cur_fwd_config.nb_fwd_lcores - 1
    IN  /\ OneStreamPerQueue
        /\ \A s \in 0 .. cur_fwd_config.nb_fwd_streams - 1 :
              Cardinality({l \in lcores : Has(l, s)}) = 1
        /\ \A l \in lcores :
              fwd_lcores[l].stream_idx + fwd_lcores[l].stream_nb
                  <= cur_fwd_config.nb_fwd_streams

(***************************************************************************)
(* A port is started only with its queues set up, as many as are           *)
(* configured: whatever failed before, and whatever was configured since.  *)
(***************************************************************************)
StartedPortsReady ==
    \A p \in enabled :
        port_status[p] = "started" => queues[p] = [rx |-> nb_rxq, tx |-> nb_txq]

(* The streams that running lcores have *)
InUse == UNION {view[l].stream_idx .. view[l].stream_idx + view[l].stream_nb - 1 :
                   l \in running}

Ready(p) == p \in enabled /\ port_status[p] = "started"

Receives == cmd # "first" /\ fwd_eng # "txonly"
Sends    == cmd = "first" \/ fwd_eng # "rxonly"

(* icmpecho has a queue to answer on, and tx_first one to send on. *)
AnswersFit == /\ fwd_eng = "icmpecho" => nb_rxq <= nb_txq
              /\ cmd = "first" => nb_txq > 0

(***************************************************************************)
(* An lcore runs only streams that are there, between ports that are       *)
(* started and queues that are set up, whatever the user stops, closes,    *)
(* attaches, detaches or sets meanwhile. Setting nbport or nbcore in a     *)
(* session voids this (resized), as do the default with ports missing      *)
(* (gap) and answering on more queues than there are to send on, or a      *)
(* first burst with none (AnswersFit).                                     *)
(***************************************************************************)
StreamsUsable ==
    ~resized /\ ~gap /\ AnswersFit =>
        /\ freed = {} /\ InUse \subseteq DOMAIN fwd_streams
        /\ \A s \in InUse :
              LET fs == fwd_streams[s]
              IN  /\ Ready(fs.rx_port) /\ Ready(fs.tx_port)
                  /\ Receives => fs.rx_queue < queues[fs.rx_port].rx
                  /\ Sends => fs.tx_queue < queues[fs.tx_port].tx

(***************************************************************************)
(* A command gets past its wait for the lcores: stop and the exit of the   *)
(* program, unless the configuration was set up again in the session, and  *)
(* start tx_first.                                                         *)
(***************************************************************************)
CommandsReturn ==
    /\ (cmd \in {"stop", "exit"} /\ ~resized) ~> (cmd = "prompt" \/ ~Running)
    /\ cmd = "first" ~> (cmd = "prompt" \/ ~Running)
=============================================================================
