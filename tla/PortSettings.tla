---------------------------- MODULE PortSettings ----------------------------
(***************************************************************************)
(* testpmd: what the user sets, what the program records of it for each    *)
(* port (dev_conf, rx_conf and tx_conf of struct rte_port), and what the   *)
(* devices were last configured with. A setting reaches a device late: the *)
(* command writes globals and records, asks for the port to be configured  *)
(* again (need_reconfig, need_reconfig_queues), and start_port does it.    *)
(* DCB, bonding and the flow director write the same records on their own. *)
(*                                                                         *)
(* The command thread is the only actor; the devices accept or refuse. A   *)
(* command for all ports that goes port by port is modelled by the one for *)
(* a port. What forwarding does is in PortSession and FwdEngines.          *)
(***************************************************************************)
EXTENDS Integers, Sequences, FiniteSets, Functions

CONSTANTS
    Port,               \* port ids below RTE_MAX_ETHPORTS
    Probed,             \* the ports there are at the start
    QueueNums,          \* numbers of queues the user may set
    RxModes,            \* values of rx_mode, "plain" among them; its max_rx_pkt_len is never 0
    ExtendModes,        \* those with hw_vlan_extend
    Threshes,           \* values of the queue thresholds, "default" among them
    dev_info,           \* max_queues, nb_queues, max_vfs, vmdq_pool_base of each device
    num_tcs,            \* traffic classes a DCB command asks for
    nb_fwd_lcores,
    McAddrs,            \* multicast addresses
    MCAST_POOL_INC,
    MaxChanges          \* bound on the commands that neither start, stop nor remove

ASSUME SettingsAssumption ==
    /\ Port \subseteq Nat /\ IsFiniteSet(Port)
    /\ Probed \subseteq Port /\ Probed # {}
    /\ QueueNums \subseteq Nat
    /\ "plain" \in RxModes /\ "zero" \notin RxModes
    /\ ExtendModes \subseteq RxModes \ {"plain"}
    /\ "default" \in Threshes
    /\ dev_info \in [Port -> [max_queues : Nat \ {0}, nb_queues : Nat, max_vfs : Nat,
                              vmdq_pool_base : Nat]]
    /\ num_tcs \in Nat \ {0} /\ nb_fwd_lcores \in Nat \ {0}
    /\ MCAST_POOL_INC \in Nat \ {0} /\ MaxChanges \in Nat

VARIABLES
    enabled,                    \* the ports with ports[p].enabled
    port_status,
    bonded, slave_flag,         \* the bonded devices; the ports that are slaves of one
    need_reconfig, need_reconfig_queues,
    dev_conf,                   \* dev_conf[p]: the record for rte_eth_dev_configure
    q_conf,                     \* rx_conf and tx_conf of ports[p]
    device,                     \* what the device of p was configured with
    nb_rxq, nb_txq, rx_mode, thresh,
    dcb_config, dcb_test, dcb_flag,
    fwd_ports, test_done,
    tx_ol_flags, tx_vlan_id_outer, \* VLAN insertion; whether there is an outer tag
    qmap,                       \* the tables of queue statistics mappings
    mapping_enabled,
    mc_addr_pool, mc_capacity,  \* multicast addresses recorded, and room for them
    mc_filter,                  \* those the device was given
    untold,     \* records rewritten, or devices configured, behind the flags' back
    behind,     \* ports the last settings passed by
    unsynced,   \* devices that did not take the list of multicast addresses
    changes

life     == <<enabled, port_status, bonded, slave_flag>>
flags    == <<need_reconfig, need_reconfig_queues, untold>>
records  == <<dev_conf, q_conf, mapping_enabled>>
globals  == <<nb_rxq, nb_txq, rx_mode, thresh>>
dcb      == <<dcb_config, dcb_test, dcb_flag>>
session  == <<fwd_ports, test_done>>
tags     == <<tx_ol_flags, tx_vlan_id_outer>>
mcast    == <<mc_addr_pool, mc_capacity, mc_filter, unsynced>>
vars == <<life, flags, records, device, globals, dcb, session, tags, qmap, mcast,
          behind, changes>>

Direction == {"rx", "tx"}
FlowTypes == {"none", "tcp"}    \* "none": RTE_ETH_FLOW_UNKNOWN

(* A struct rte_eth_conf, of which these parts tell settings apart *)
ZeroConf == [speed |-> "auto", rxmode |-> "zero", mq |-> "none", txmq |-> "none",
             fdir |-> {}]
NotConfigured == [conf |-> ZeroConf, rx |-> 0, tx |-> 0, queues |-> "none", extend |-> FALSE]

RxMq(n) == IF n > 1 THEN "rss" ELSE "none"

Init ==
    /\ enabled = Probed
    /\ port_status = [p \in Port |-> "stopped"]
    /\ bonded = {} /\ slave_flag = {}
    /\ need_reconfig = Probed /\ need_reconfig_queues = Probed
    /\ nb_rxq = 1 /\ nb_txq = 1
    /\ rx_mode = "plain" /\ thresh = "default"
    /\ dev_conf = [p \in Port |-> IF p \in Probed THEN [ZeroConf EXCEPT !.rxmode = "plain"]
                                  ELSE ZeroConf]
    /\ q_conf = [p \in Port |-> IF p \in Probed THEN "default" ELSE "none"]
    /\ device = [p \in Port |-> NotConfigured]
    /\ dcb_config = 0 /\ dcb_test = 0 /\ dcb_flag = {}
    /\ fwd_ports = Probed /\ test_done = 1
    /\ tx_ol_flags = [p \in Port |-> {}] /\ tx_vlan_id_outer = {}
    /\ qmap = [d \in Direction |-> <<>>]
    /\ mapping_enabled = [d \in Direction |-> {}]
    /\ mc_addr_pool = [p \in Port |-> <<>>] /\ mc_capacity = [p \in Port |-> 0]
    /\ mc_filter = [p \in Port |-> {}]
    /\ untold = {} /\ behind = {} /\ unsynced = {}
    /\ changes = 0

Change == changes < MaxChanges /\ changes' = changes + 1

(* Mutant: one port that is stopped is enough. *)
SomePortStopped == \E p \in enabled : port_status[p] = "stopped" \/ p \in slave_flag

AllPortsStopped == \A p \in enabled : port_status[p] = "stopped" \/ p \in slave_flag
AllPortsStarted == \A p \in enabled : port_status[p] = "started" \/ p \in slave_flag

-----------------------------------------------------------------------------
(* init_port_config, with the globals as the command leaves them *)

Mapped(d, p, nb) == \E i \in DOMAIN qmap[d] : qmap[d][i].port = p /\ qmap[d][i].queue < nb

(* A device that supports no mappings (-ENOTSUP) has them disabled; any    *)
(* other refusal ends the program, and is left out.                        *)
MapStatsRegisters(pids) ==
    LET mapped(d) == {p \in pids : Mapped(d, p, IF d = "rx" THEN nb_rxq' ELSE nb_txq')}
    IN  \E no_rx \in SUBSET mapped("rx"), no_tx \in SUBSET mapped("tx") :
            mapping_enabled' = [d \in Direction |->
                (mapping_enabled[d] \cup mapped(d)) \ (IF d = "rx" THEN no_rx ELSE no_tx)]

InitedConf(p) ==
    [dev_conf[p] EXCEPT !.rxmode = rx_mode', !.fdir = {},
                        !.mq = IF p \in dcb_flag THEN "none" ELSE RxMq(nb_rxq')]

InitPortConfig(pids) ==
    /\ dev_conf' = [p \in Port |-> IF p \in pids THEN InitedConf(p) ELSE dev_conf[p]]
    /\ q_conf' = [p \in Port |-> IF p \in pids THEN thresh' ELSE q_conf[p]]
    /\ MapStatsRegisters(pids)

Rewritten == {p \in Port : dev_conf'[p] # dev_conf[p] \/ q_conf'[p] # q_conf[p]}

(* Mutant: asks for the device, not for its queues. *)
ReconfigDeviceOnly(pids) ==
    /\ need_reconfig' = need_reconfig \cup pids
    /\ UNCHANGED need_reconfig_queues
    /\ untold' = untold \ (pids \ slave_flag)

(* cmd_reconfig_device_queue(id, 1, 1) *)
ReconfigDeviceQueue(pids) ==
    /\ need_reconfig' = need_reconfig \cup pids
    /\ need_reconfig_queues' = need_reconfig_queues \cup pids
    /\ untold' = untold \ (pids \ slave_flag)

(* What the commands that want all ports stopped have in common *)
SettingForAll ==
    /\ Change
    /\ AllPortsStopped
    /\ UNCHANGED <<life, device, dcb, session, tags, qmap, mcast>>

(* Slaves need not be stopped, and are configured by the bonding driver. *)
PassedBy == enabled \cap slave_flag

ForAllPorts ==
    /\ InitPortConfig(enabled)
    /\ ReconfigDeviceQueue(enabled)
    /\ behind' = PassedBy

(* port config all speed, port config X speed *)
ConfigSpeed(pids, speed) ==
    /\ SettingForAll
    /\ dev_conf' = [p \in Port |-> IF p \in pids THEN [dev_conf[p] EXCEPT !.speed = speed]
                                   ELSE dev_conf[p]]
    /\ ReconfigDeviceQueue(enabled)
    /\ UNCHANGED <<q_conf, mapping_enabled, globals, behind>>

(* port config all rxq, txq; rxd and txd leave both numbers *)
ConfigRxTx(rx, tx) ==
    /\ SettingForAll
    /\ rx > 0 \/ tx > 0
    /\ nb_rxq' = rx /\ nb_txq' = tx
    /\ UNCHANGED <<rx_mode, thresh>>
    /\ ForAllPorts

(* port config all max-pkt-len; the length there is already changes nothing *)
ConfigMaxPktLen(mode) ==
    /\ SettingForAll
    /\ mode # rx_mode
    /\ rx_mode' = mode
    /\ UNCHANGED <<nb_rxq, nb_txq, thresh>>
    /\ ForAllPorts

(* port config all crc-strip, scatter, rx-cksum, hw-vlan... on or off *)
ConfigRxModeFlag(mode) ==
    /\ SettingForAll
    /\ rx_mode' = mode
    /\ UNCHANGED <<nb_rxq, nb_txq, thresh>>
    /\ ForAllPorts

(* port config all txpt, ..., rxwt, txfreet, txrst, rxfreet, txqflags, drop-en *)
ConfigThresh(value) ==
    /\ SettingForAll
    /\ thresh' = value
    /\ UNCHANGED <<nb_rxq, nb_txq, rx_mode>>
    /\ ForAllPorts

-----------------------------------------------------------------------------
(* Settings of a port on its own *)

(* What the commands of the flow director have in common; the record of    *)
(* the port becomes fdir. "port_id > nb_ports" lets a port through that is *)
(* not there.                                                              *)
FdirSet(p, fdir) ==
    /\ Change
    /\ p <= Cardinality(enabled)
    /\ port_status[p] = "stopped"
    /\ dev_conf' = [dev_conf EXCEPT ![p].fdir = fdir]
    /\ ReconfigDeviceQueue({p} \cap enabled)
    /\ UNCHANGED <<life, q_conf, mapping_enabled, device, globals, dcb, session, tags,
                   qmap, mcast, behind>>

(* flow_director_mask *)
FdirMask(p) == FdirSet(p, dev_conf[p].fdir \cup {"mask"})

(* fdir_set_flex_mask, fdir_set_flex_payload: a type has one entry. *)
SetFlexMask(fdir, type) == fdir \cup {type}
SetFlexPayload(fdir) == fdir \cup {"payload"}

(* flow_director_flex_mask, for no type of flows, which clears the table,  *)
(* or for all that the device supports, or one of them; only a device that *)
(* is there tells which.                                                   *)
FdirFlexMask(p, type) ==
    /\ p \in enabled
    /\ FdirSet(p, IF type = "none" THEN (dev_conf[p].fdir \ FlowTypes) \cup {"none"}
                  ELSE SetFlexMask(dev_conf[p].fdir, type))

(* flow_director_flex_payload *)
FdirFlexPayload(p) == FdirSet(p, SetFlexPayload(dev_conf[p].fdir))

(* What rte_eth_dev_info_get tells init_port_dcb_config of a port *)
DcbQueues(p, vt) ==
    IF p \notin enabled THEN 0      \* left zero
    ELSE IF vt
    THEN IF dev_info[p].max_vfs > 0 THEN dev_info[p].nb_queues ELSE dev_info[p].max_queues
    ELSE IF dev_info[p].vmdq_pool_base = 0 THEN dev_info[p].max_queues ELSE num_tcs

DcbConf(vt) == [ZeroConf EXCEPT !.rxmode = "dcb", !.mq = "dcb", !.txmq = "dcb"]

DcbAllowed(p) == port_status[p] = "stopped" /\ nb_fwd_lcores >= num_tcs

(* The device is configured first, without queues; a failure is ignored. *)
DcbConfigures(p, vt) ==
    device' = [device EXCEPT ![p] =
        [conf |-> DcbConf(vt), rx |-> 0, tx |-> 0, queues |-> "none", extend |-> FALSE]]

(* init_port_dcb_config gives up: nothing is asked to be undone. *)
ConfigDcbFails(p, vt) ==
    /\ Change
    /\ DcbAllowed(p)
    /\ dcb_config' = 1
    /\ \/ /\ vt
          /\ p \in enabled
          /\ dev_info[p].vmdq_pool_base > 0
          /\ \/ UNCHANGED <<device, untold>>
             \/ DcbConfigures(p, vt) /\ untold' = untold \cup {p}
          /\ behind' = behind \cup {p}
       \/ /\ ~vt                        \* rte_eth_dev_rss_hash_conf_get
          /\ UNCHANGED <<device, untold, behind>>
    /\ UNCHANGED <<life, need_reconfig, need_reconfig_queues, records, globals, dcb_test,
                   dcb_flag, session, tags, qmap, mcast>>

(* port config X dcb vt on or off *)
ConfigDcb(p, vt) ==
    /\ Change
    /\ DcbAllowed(p)
    /\ ~(vt /\ p \in enabled /\ dev_info[p].vmdq_pool_base > 0)
    /\ p \notin enabled => vt
    /\ dcb_config' = 1
    /\ IF p \in enabled THEN DcbConfigures(p, vt) \/ UNCHANGED device ELSE UNCHANGED device
    /\ nb_rxq' = DcbQueues(p, vt) /\ nb_txq' = nb_rxq'
    /\ thresh' = "dcb"
    /\ UNCHANGED rx_mode
    /\ dev_conf' = [dev_conf EXCEPT ![p] = DcbConf(vt)]
    /\ q_conf' = [q_conf EXCEPT ![p] = "dcb"]
    /\ MapStatsRegisters({p})
    /\ dcb_flag' = dcb_flag \cup {p}
    /\ ReconfigDeviceQueue({p} \cap enabled)
    /\ behind' = behind \cup enabled
    /\ UNCHANGED <<life, dcb_test, session, tags, qmap, mcast>>

-----------------------------------------------------------------------------
(* Starting and stopping *)

TestsDcb == dcb_test' = IF dcb_config = 1 THEN 1 ELSE dcb_test

(* rte_eth_dev_configure, if it is asked for *)
Configured(p) ==
    IF p \in need_reconfig
    THEN [conf |-> dev_conf[p], rx |-> nb_rxq, tx |-> nb_txq, queues |-> "none",
          extend |-> dev_conf[p].rxmode \in ExtendModes]
    ELSE device[p]

(* The device refuses queues it was not configured for. *)
QueuesFit(p) == nb_rxq <= Configured(p).rx /\ nb_txq <= Configured(p).tx

SetUp(p) ==
    IF p \in need_reconfig_queues THEN [Configured(p) EXCEPT !.queues = q_conf[p]]
    ELSE Configured(p)

StartFrame ==
    UNCHANGED <<enabled, bonded, slave_flag, untold, records, globals, dcb_config, dcb_flag,
                session, tags, qmap, mcast, behind, changes>>

StartTries(p) ==
    /\ p \in enabled
    /\ TestsDcb
    /\ port_status[p] = "stopped"
    /\ p \in need_reconfig => nb_rxq <= dev_info[p].max_queues /\ nb_txq <= dev_info[p].max_queues

(* The port is not stopped, or rte_eth_dev_configure fails: asked for again. *)
StartRefused(p) ==
    /\ p \in enabled
    /\ TestsDcb
    /\ port_status[p] # "stopped" \/ p \in need_reconfig
    /\ UNCHANGED <<port_status, need_reconfig, need_reconfig_queues, device>>
    /\ StartFrame

(* A queue cannot be set up: the queues are asked for again. *)
QueueSetupFails(p) ==
    /\ StartTries(p)
    /\ p \in need_reconfig_queues
    /\ device' = [device EXCEPT ![p] = [Configured(p) EXCEPT !.queues = "none"]]
    /\ need_reconfig' = need_reconfig \ {p}
    /\ UNCHANGED <<port_status, need_reconfig_queues>>
    /\ StartFrame

(* There is no mempool for the receive queues: start_port returns as it is *)
(* then, with the port RTE_PORT_HANDLING and its queues not asked for any  *)
(* more. Nothing sets a port back that is HANDLING.                        *)
NoMempool(p) ==
    /\ StartTries(p)
    /\ p \in need_reconfig_queues
    /\ nb_rxq > 0 /\ nb_txq <= Configured(p).tx
    /\ device' = [device EXCEPT ![p] = [Configured(p) EXCEPT !.queues = "none"]]
    /\ port_status' = [port_status EXCEPT ![p] = "handling"]
    /\ need_reconfig' = need_reconfig \ {p}
    /\ need_reconfig_queues' = need_reconfig_queues \ {p}
    /\ StartFrame

(* start_port: the device starts, or (rte_eth_dev_start fails) stays stopped. *)
StartPort(p) ==
    /\ StartTries(p)
    /\ p \in need_reconfig_queues => QueuesFit(p)
    /\ device' = [device EXCEPT ![p] = SetUp(p)]
    /\ port_status' \in {port_status, [port_status EXCEPT ![p] = "started"]}
    /\ need_reconfig' = need_reconfig \ {p}
    /\ need_reconfig_queues' = need_reconfig_queues \ {p}
    /\ StartFrame

(* stop_port: before anything else, leaves the test of DCB. *)
StopPort(p) ==
    /\ IF dcb_test = 1 THEN dcb_test' = 0 /\ dcb_config' = 0
                       ELSE UNCHANGED <<dcb_test, dcb_config>>
    /\ port_status' =
          IF /\ p \in enabled /\ port_status[p] = "started"
             /\ ~(p \in fwd_ports /\ test_done = 0)
             /\ p \notin slave_flag
          THEN [port_status EXCEPT ![p] = "stopped"] ELSE port_status
    /\ UNCHANGED <<enabled, bonded, slave_flag, flags, records, device, globals, dcb_flag,
                   session, tags, qmap, mcast, behind, changes>>

(* close_port and detach_port *)
ClosePort(p) ==
    /\ p \in enabled \ slave_flag
    /\ ~(p \in fwd_ports /\ test_done = 0)
    /\ port_status[p] = "stopped"
    /\ port_status' = [port_status EXCEPT ![p] = "closed"]
    /\ UNCHANGED <<enabled, bonded, slave_flag, flags, records, device, globals, dcb, session, tags,
                   qmap, mcast, behind, changes>>

DetachPort(p) ==
    /\ p \in enabled
    /\ port_status[p] = "closed"
    /\ enabled' = enabled \ {p}
    /\ bonded' = bonded \ {p}
    /\ fwd_ports' = fwd_ports \ {p}
    /\ device' = [device EXCEPT ![p] = NotConfigured]
    /\ mc_filter' = [mc_filter EXCEPT ![p] = {}]
    /\ UNCHANGED <<port_status, slave_flag, flags, records, globals, dcb, test_done, tags,
                   qmap, mc_addr_pool, mc_capacity, unsynced, behind, changes>>

(* reconfig: the port is asked to be configured, the records of all ports  *)
(* there are written again.                                                *)
Reconfig(p, pids) ==
    /\ need_reconfig' = need_reconfig \cup {p}
    /\ need_reconfig_queues' = need_reconfig_queues \cup {p}
    /\ UNCHANGED globals
    /\ InitPortConfig(pids)
    /\ untold' = (untold \cup Rewritten) \ {p}
    /\ behind' = behind \ {p}

(* attach_port: what was recorded of an earlier port with this id is kept. *)
AttachPort ==
    LET p == CHOOSE q \in Port \ enabled : \A r \in Port \ enabled : q <= r
    IN  /\ Change
        /\ enabled # Port
        /\ enabled' = enabled \cup {p}
        /\ Reconfig(p, enabled')
        /\ port_status' = [port_status EXCEPT ![p] = "stopped"]
        /\ fwd_ports' = fwd_ports \cup {p}
        /\ unsynced' = unsynced \cup {p}
        /\ UNCHANGED <<bonded, slave_flag, device, dcb, test_done, tags, qmap, mc_addr_pool,
                       mc_capacity, mc_filter>>

(* create bonded device: enabled only after the records were written. *)
CreateBondedDevice ==
    LET p == CHOOSE q \in Port \ enabled : \A r \in Port \ enabled : q <= r
    IN  /\ Change
        /\ test_done = 1
        /\ enabled # Port
        /\ Reconfig(p, enabled)
        /\ enabled' = enabled \cup {p}
        /\ bonded' = bonded \cup {p}
        /\ unsynced' = unsynced \cup {p}
        /\ UNCHANGED <<port_status, slave_flag, device, dcb, session, tags, qmap,
                       mc_addr_pool, mc_capacity, mc_filter>>

(* add and remove bonding slave, set bonding primary: init_port_config,    *)
(* with no port stopped and none asked to be configured again. The bonding *)
(* driver configures the slaves as it likes.                               *)
BondingSlave(p, slaves) ==
    /\ Change
    /\ p \in enabled \ bonded
    /\ p \in slaves \cup slave_flag
    /\ bonded \cap enabled # {}
    /\ UNCHANGED globals
    /\ InitPortConfig(enabled)
    /\ untold' = untold \cup Rewritten \cup {p}
    /\ behind' = behind \cup {p}
    /\ slave_flag' = slaves
    /\ UNCHANGED <<enabled, bonded, port_status, need_reconfig, need_reconfig_queues, device,
                   dcb, session, tags, qmap, mcast>>

-----------------------------------------------------------------------------
(* A session *)

(* set portlist, set portmask *)
SetFwdPorts(pids) ==
    /\ Change
    /\ test_done = 1
    /\ pids \subseteq enabled
    /\ fwd_ports' = pids
    /\ UNCHANGED <<life, flags, records, device, globals, dcb, test_done, tags, qmap, mcast,
                   behind>>

StartForwarding ==
    /\ nb_rxq > 0 /\ nb_txq > 0
    /\ AllPortsStarted
    /\ test_done = 1
    /\ dcb_test = 1 => fwd_ports \subseteq dcb_flag /\ nb_fwd_lcores > 1
    /\ test_done' = 0
    /\ UNCHANGED <<nb_rxq, nb_txq>>
    /\ MapStatsRegisters(fwd_ports)
    /\ UNCHANGED <<life, flags, dev_conf, q_conf, device, rx_mode, thresh, dcb, fwd_ports,
                   tags, qmap, mcast, behind, changes>>

StopForwarding ==
    /\ test_done = 0
    /\ test_done' = 1
    /\ UNCHANGED <<life, flags, records, device, globals, dcb, fwd_ports, tags, qmap, mcast,
                   behind, changes>>

-----------------------------------------------------------------------------
(* Settings that no session and no status forbids *)

Aside == Change /\ UNCHANGED <<life, flags, dev_conf, q_conf, globals, dcb, session, behind>>

(* vlan set qinq: on the device, until it is configured again *)
VlanExtendSet(p, on) ==
    /\ Aside
    /\ p \in enabled
    /\ device' = [device EXCEPT ![p].extend = on]
    /\ UNCHANGED <<mapping_enabled, tags, qmap, mcast>>

(* tx_vlan set with one tag *)
TxVlanSet(p) ==
    /\ Aside
    /\ p \in enabled
    /\ ~device[p].extend
    /\ tx_ol_flags' = [tx_ol_flags EXCEPT ![p] = {"INSERT_VLAN"}]
    /\ tx_vlan_id_outer' = tx_vlan_id_outer \ {p}
    /\ UNCHANGED <<device, mapping_enabled, qmap, mcast>>

(* tx_vlan set with two *)
TxQinqSet(p) ==
    /\ Aside
    /\ p \in enabled
    /\ device[p].extend
    /\ tx_ol_flags' = [tx_ol_flags EXCEPT ![p] = {"INSERT_QINQ"}]
    /\ tx_vlan_id_outer' = tx_vlan_id_outer \cup {p}
    /\ UNCHANGED <<device, mapping_enabled, qmap, mcast>>

TxVlanReset(p) ==
    /\ Aside
    /\ p \in enabled
    /\ tx_ol_flags' = [tx_ol_flags EXCEPT ![p] = {}]
    /\ tx_vlan_id_outer' = tx_vlan_id_outer \ {p}
    /\ UNCHANGED <<device, mapping_enabled, qmap, mcast>>

(* set stat_qmap: an entry for a port and a queue is found again. *)
SetQmap(d, p, q) ==
    LET table == qmap[d]
        entry == [port |-> p, queue |-> q]
    IN  /\ Aside
        /\ p \in enabled
        /\ q < (IF d = "rx" THEN nb_rxq ELSE nb_txq)
        /\ qmap' = [qmap EXCEPT ![d] = IF entry \in Range(table) THEN table
                                       ELSE Append(table, entry)]
        /\ UNCHANGED <<device, mapping_enabled, tags, mcast>>

(* eth_port_multicast_addr_list_set: the device may refuse. *)
McListSet(p) ==
    \/ /\ mc_filter' = [mc_filter EXCEPT ![p] = Range(mc_addr_pool'[p])]
       /\ unsynced' = unsynced \ {p}
    \/ /\ unsynced' = unsynced \cup {p}
       /\ UNCHANGED mc_filter

McFrame == UNCHANGED <<device, mapping_enabled, tags, qmap>>

(* Mutant: the pool grows only when it is more than full. *)
PoolExtendLate(nb, room) == IF nb % MCAST_POOL_INC # 1 THEN room ELSE nb + MCAST_POOL_INC

(* mcast_addr_pool_extend: the room there is for one more address *)
PoolExtend(nb, room) == IF nb % MCAST_POOL_INC # 0 THEN room ELSE nb + MCAST_POOL_INC

(* mcast_addr add; if there is no memory for a larger pool, nothing changes *)
McastAdd(p, addr) ==
    /\ Aside
    /\ p \in enabled
    /\ addr \notin Range(mc_addr_pool[p])
    /\ mc_capacity' = [mc_capacity EXCEPT ![p] = PoolExtend(Len(mc_addr_pool[p]), @)]
    /\ mc_addr_pool' = [mc_addr_pool EXCEPT ![p] = Append(@, addr)]
    /\ McListSet(p)
    /\ McFrame

(* mcast_addr remove: compacts the pool, frees it when it is empty. *)
McastRemove(p, addr) ==
    /\ Aside
    /\ p \in enabled
    /\ \E i \in DOMAIN mc_addr_pool[p] :
          /\ mc_addr_pool[p][i] = addr
          /\ \A j \in 1 .. i - 1 : mc_addr_pool[p][j] # addr
          /\ mc_addr_pool' = [mc_addr_pool EXCEPT ![p] =
                                SubSeq(@, 1, i - 1) \o SubSeq(@, i + 1, Len(@))]
    /\ mc_capacity' = [mc_capacity EXCEPT ![p] = IF mc_addr_pool'[p] = <<>> THEN 0 ELSE @]
    /\ McListSet(p)
    /\ McFrame

-----------------------------------------------------------------------------
Settings ==
    \/ \E pids \in {{p} : p \in enabled} \cup {enabled}, s \in {"auto", "fixed"} :
          ConfigSpeed(pids, s)
    \/ \E n \in QueueNums : ConfigRxTx(n, nb_txq) \/ ConfigRxTx(nb_rxq, n)
    \/ \E m \in RxModes : ConfigMaxPktLen(m) \/ ConfigRxModeFlag(m)
    \/ \E t \in Threshes : ConfigThresh(t)
    \/ \E p \in Port :
          FdirMask(p) \/ FdirFlexPayload(p) \/ \E type \in FlowTypes : FdirFlexMask(p, type)
    \/ \E p \in Port, vt \in BOOLEAN : ConfigDcb(p, vt) \/ ConfigDcbFails(p, vt)

Ports ==
    \/ \E p \in Port : \/ StartPort(p) \/ StartRefused(p)
                       \/ QueueSetupFails(p) \/ NoMempool(p) \/ StopPort(p) \/ ClosePort(p) \/ DetachPort(p)
    \/ AttachPort \/ CreateBondedDevice
    \/ \E p \in Port : \/ BondingSlave(p, slave_flag \cup {p})
                       \/ BondingSlave(p, slave_flag \ {p})

Sides ==
    \/ \E p \in Port :
          \/ \E on \in BOOLEAN : VlanExtendSet(p, on)
          \/ TxVlanSet(p) \/ TxQinqSet(p) \/ TxVlanReset(p)
          \/ \E d \in Direction, q \in QueueNums : SetQmap(d, p, q)
          \/ \E a \in McAddrs : McastAdd(p, a) \/ McastRemove(p, a)

Next ==
    \/ Settings \/ Ports \/ Sides
    \/ \E pids \in SUBSET enabled : SetFwdPorts(pids)
    \/ StartForwarding \/ StopForwarding

Spec == Init /\ [][Next]_vars

-----------------------------------------------------------------------------
(* Properties *)

Modes == RxModes \cup {"zero", "dcb"}
ConfType == [speed : {"auto", "fixed"}, rxmode : Modes, mq : {"none", "rss", "dcb"},
             txmq : {"none", "dcb"}, fdir : SUBSET (FlowTypes \cup {"mask", "payload"})]
QConfs == Threshes \cup {"none", "dcb"}

(* Every variable keeps its type; no device is configured for more queues  *)
(* than it has, whatever nb_rxq and nb_txq were set to.                    *)
TypeOK ==
    /\ enabled \subseteq Port /\ bonded \subseteq enabled /\ slave_flag \subseteq Port /\ dcb_flag \subseteq Port
    /\ port_status \in [Port -> {"stopped", "handling", "started", "closed"}]
    /\ need_reconfig \subseteq Port /\ need_reconfig_queues \subseteq Port
    /\ dev_conf \in [Port -> ConfType] /\ q_conf \in [Port -> QConfs]
    /\ device \in [Port -> [conf : ConfType, rx : Nat, tx : Nat, queues : QConfs,
                            extend : BOOLEAN]]
    /\ \A p \in Port : {device[p].rx, device[p].tx} \subseteq 0 .. dev_info[p].max_queues
    /\ {nb_rxq, nb_txq} \subseteq Nat /\ rx_mode \in RxModes /\ thresh \in QConfs
    /\ {dcb_config, dcb_test, test_done} \subseteq {0, 1}
    /\ fwd_ports \subseteq Port
    /\ tx_ol_flags \in [Port -> SUBSET {"INSERT_VLAN", "INSERT_QINQ"}]
    /\ tx_vlan_id_outer \subseteq Port
    /\ \A d \in Direction : mapping_enabled[d] \subseteq Port
    /\ \A p \in Port : mc_capacity[p] \in Nat
    /\ changes \in 0 .. MaxChanges

(***************************************************************************)
(* The flags tell start_port all it has to do: a port that is not asked to *)
(* be configured again has a device that was configured from its record,   *)
(* queues included, whatever failed in between; a device is never asked    *)
(* for without its queues. There are two exceptions. A port without a      *)
(* mempool for its queues (NoMempool) has neither the queues nor the flag, *)
(* and stays HANDLING, so that no start_port takes it up again. Attaching, *)
(* bonding and a DCB command that fails change records or devices without  *)
(* setting the flags (untold).                                             *)
(***************************************************************************)
FlagsCover ==
    /\ need_reconfig \cap enabled \subseteq need_reconfig_queues
    /\ \A p \in enabled \ untold :
          /\ p \notin need_reconfig => device[p].conf = dev_conf[p]
          /\ p \notin need_reconfig_queues =>
                port_status[p] = "handling" \/ device[p].queues = q_conf[p]

(***************************************************************************)
(* A started port runs with the settings the program shows: the rx mode,   *)
(* the numbers of queues, their thresholds, and RSS if there are several.  *)
(* Not so the ports that a setting passed by (behind: started slaves, all  *)
(* ports when one is configured for DCB), DCB ports, and a bonded device   *)
(* that was started before anything wrote its record.                      *)
(***************************************************************************)
SettingsInForce ==
    \A p \in enabled \ (behind \cup dcb_flag) :
        LET dev == device[p]
        IN  port_status[p] = "started" /\ dev.conf.rxmode # "zero" =>
                /\ dev.conf.rxmode = rx_mode /\ dev.conf.mq = RxMq(nb_rxq)
                /\ dev.rx = nb_rxq /\ dev.tx = nb_txq
                /\ dev.queues = thresh

(***************************************************************************)
(* The tables on the side stay true over any sequence of commands: a port  *)
(* never inserts both kinds of tags, nor an outer tag without QinQ; a      *)
(* queue has one statistics mapping, and a port whose mappings are enabled *)
(* has one; the pool of multicast addresses has room for what it holds, no *)
(* address twice, is freed when empty, and is what the device filters      *)
(* unless the device refused it or is new. Every variable keeps its type.  *)
(***************************************************************************)
TablesConsistent ==
    /\ TypeOK
    /\ \A p \in Port :
          /\ Cardinality(tx_ol_flags[p]) <= 1
          /\ p \in tx_vlan_id_outer <=> "INSERT_QINQ" \in tx_ol_flags[p]
          /\ Len(mc_addr_pool[p]) <= mc_capacity[p]
          /\ mc_capacity[p] = 0 <=> mc_addr_pool[p] = <<>>
          /\ IsInjective(mc_addr_pool[p])
          /\ p \in enabled \ unsynced => mc_filter[p] = Range(mc_addr_pool[p])
    /\ \A d \in Direction :
          /\ IsInjective(qmap[d])
          /\ \A p \in mapping_enabled[d] : \E i \in DOMAIN qmap[d] : qmap[d][i].port = p
=============================================================================
