------------------------ MODULE PortSettings_proofs ------------------------
(***************************************************************************)
(* Proofs about PortSettings, for any number of ports, any devices and any *)
(* number of commands: the tables on the side stay consistent, the flags   *)
(* tell start_port all it has to do, and a started port runs with the      *)
(* settings the program shows.                                             *)
(***************************************************************************)
EXTENDS PortSettings, DataTheorems

-----------------------------------------------------------------------------
(* Types *)

DeviceType == [conf : ConfType, rx : Nat, tx : Nat, queues : QConfs, extend : BOOLEAN]
Entry == [port : Port, queue : Nat]
Status == {"stopped", "handling", "started", "closed"}

LifeType ==
    /\ enabled \subseteq Port /\ bonded \subseteq enabled /\ slave_flag \subseteq Port
    /\ port_status \in [Port -> Status]
FlagType == need_reconfig \subseteq Port /\ need_reconfig_queues \subseteq Port
RecordType ==
    /\ dev_conf \in [Port -> ConfType] /\ q_conf \in [Port -> QConfs]
    /\ mapping_enabled \in [Direction -> SUBSET Port]
DevicesType ==
    /\ device \in [Port -> DeviceType]
    /\ \A p \in Port : /\ device[p].rx \in 0 .. dev_info[p].max_queues
                       /\ device[p].tx \in 0 .. dev_info[p].max_queues
GlobalType == nb_rxq \in Nat /\ nb_txq \in Nat /\ rx_mode \in RxModes /\ thresh \in QConfs
DcbType == dcb_config \in {0, 1} /\ dcb_test \in {0, 1} /\ dcb_flag \subseteq Port
SessionType == fwd_ports \subseteq Port /\ test_done \in {0, 1}
TagType ==
    /\ tx_ol_flags \in [Port -> SUBSET {"INSERT_VLAN", "INSERT_QINQ"}]
    /\ tx_vlan_id_outer \subseteq Port
QmapType == qmap \in [Direction -> Seq(Entry)]
McastType ==
    /\ mc_addr_pool \in [Port -> Seq(McAddrs)] /\ mc_capacity \in [Port -> Nat]
    /\ mc_filter \in [Port -> SUBSET McAddrs]
ChangesType == changes \in 0 .. MaxChanges

TypeInv ==
    /\ LifeType /\ FlagType /\ RecordType /\ DevicesType /\ GlobalType /\ DcbType
    /\ SessionType /\ TagType /\ QmapType /\ McastType /\ ChangesType

LEMMA TypeIs == TypeInv => TypeOK
<1> SUFFICES ASSUME TypeInv PROVE TypeOK
  OBVIOUS
<1>1. /\ \A d \in Direction : mapping_enabled[d] \subseteq Port
      /\ \A p \in Port : mc_capacity[p] \in Nat
  BY DEF TypeInv, RecordType, McastType
<1>2. /\ device \in [Port -> DeviceType]
      /\ \A p \in Port : {device[p].rx, device[p].tx} \subseteq 0 .. dev_info[p].max_queues
  BY DEF TypeInv, DevicesType
<1>3. {nb_rxq, nb_txq} \subseteq Nat /\ {dcb_config, dcb_test, test_done} \subseteq {0, 1}
  BY DEF TypeInv, GlobalType, DcbType, SessionType
<1> QED
  BY <1>1, <1>2, <1>3
  DEF TypeInv, TypeOK, LifeType, FlagType, RecordType, GlobalType, DcbType, SessionType,
      TagType, ChangesType, DeviceType, Status

(* What a step leaves alone keeps its type. *)
LEMMA PartsSame ==
    ASSUME TypeInv
    PROVE  /\ UNCHANGED life => LifeType'
           /\ UNCHANGED <<need_reconfig, need_reconfig_queues>> => FlagType'
           /\ UNCHANGED records => RecordType'
           /\ UNCHANGED device => DevicesType'
           /\ UNCHANGED globals => GlobalType'
           /\ UNCHANGED dcb => DcbType'
           /\ UNCHANGED session => SessionType'
           /\ UNCHANGED tags => TagType'
           /\ UNCHANGED qmap => QmapType'
           /\ UNCHANGED mcast => McastType'
           /\ UNCHANGED changes \/ Change => ChangesType'
<1> USE DEF TypeInv
<1>1. UNCHANGED life => LifeType'
  BY DEF LifeType, life
<1>2. UNCHANGED <<need_reconfig, need_reconfig_queues>> => FlagType'
  BY DEF FlagType
<1>3. UNCHANGED records => RecordType'
  BY DEF RecordType, records
<1>4. UNCHANGED device => DevicesType'
  BY DEF DevicesType
<1>5. UNCHANGED globals => GlobalType'
  BY DEF GlobalType, globals
<1>6. UNCHANGED dcb => DcbType'
  BY DEF DcbType, dcb
<1>7. UNCHANGED session => SessionType'
  BY DEF SessionType, session
<1>8. UNCHANGED tags => TagType'
  BY DEF TagType, tags
<1>9. UNCHANGED qmap => QmapType'
  BY DEF QmapType
<1>10. UNCHANGED mcast => McastType'
  BY DEF McastType, mcast
<1>11. UNCHANGED changes \/ Change => ChangesType'
  BY SettingsAssumption DEF ChangesType, Change, SettingsAssumption
<1> QED
  BY <1>1, <1>2, <1>3, <1>4, <1>5, <1>6, <1>7, <1>8, <1>9, <1>10, <1>11

(* The first free port id is one. *)
FreePort == CHOOSE q \in Port \ enabled : \A r \in Port \ enabled : q <= r

LEMMA FreePortIs ==
    ASSUME enabled \subseteq Port, enabled # Port
    PROVE  FreePort \in Port \ enabled
<1>1. IsFiniteSet(Port) /\ Port \ enabled \in SUBSET Port
  BY SettingsAssumption DEF SettingsAssumption
<1>2. IsFiniteSet(Port \ enabled)
  BY <1>1, FS_Subset
<1>3. Port \ enabled # {}
  OBVIOUS
<1>4. Port \ enabled \in SUBSET Int
  BY SettingsAssumption DEF SettingsAssumption
<1> QED
  BY <1>2, <1>3, <1>4, FiniteHasLeast DEF FreePort

-----------------------------------------------------------------------------
(* The invariants *)

(* A port inserts one kind of tag at most, an outer one for QinQ alone. *)
Tags ==
    \A p \in Port :
        /\ tx_ol_flags[p] \in {{}, {"INSERT_VLAN"}, {"INSERT_QINQ"}}
        /\ p \in tx_vlan_id_outer <=> "INSERT_QINQ" \in tx_ol_flags[p]

(* A queue has one entry in a table; only ports with one are enabled. *)
Mappings ==
    \A d \in Direction :
        /\ IsInjective(qmap[d])
        /\ \A p \in mapping_enabled[d] : \E i \in DOMAIN qmap[d] : qmap[d][i].port = p

(* The pool of addresses consists of whole chunks, so that there is room   *)
(* after an address unless the last chunk is full.                         *)
Pools ==
    \A p \in Port :
        /\ Len(mc_addr_pool[p]) <= mc_capacity[p]
        /\ mc_capacity[p] % MCAST_POOL_INC = 0
        /\ mc_capacity[p] = 0 <=> mc_addr_pool[p] = <<>>
        /\ IsInjective(mc_addr_pool[p])
        /\ p \in enabled \ unsynced => mc_filter[p] = Range(mc_addr_pool[p])

TableInv == TypeInv /\ Tags /\ Mappings /\ Pools

(* A port that is not there is not started, and its device has nothing; if *)
(* it was never there, neither has its record, which only DCB may write    *)
(* meanwhile. A detached one was closed, and stays so until it is attached *)
(* again: bonding does not open it.                                        *)
Absent ==
    \A p \in Port \ enabled :
        /\ device[p] = NotConfigured
        /\ port_status[p] # "started"
        /\ port_status[p] = "closed" \/ p \in dcb_flag \/ dev_conf[p].rxmode = "zero"

(* The ports that the settings shown are for *)
Fresh ==
    {p \in enabled \ (behind \cup dcb_flag) : port_status[p] \notin {"closed", "handling"}}

Written(p) == dev_conf[p].rxmode # "zero"
RunsWith(p) == device[p].conf.rxmode # "zero"

(* The record of such a port, once written, has the settings shown. *)
RecordShown(p) ==
    /\ Written(p) => /\ dev_conf[p].rxmode = rx_mode /\ dev_conf[p].mq = RxMq(nb_rxq)
                     /\ q_conf[p] = thresh
    /\ RunsWith(p) => Written(p)

(* Its device has them too, if it is started or not to be configured again. *)
DeviceShown(p) ==
    RunsWith(p) =>
        /\ port_status[p] = "started" \/ p \notin need_reconfig =>
              /\ device[p].conf.rxmode = rx_mode /\ device[p].conf.mq = RxMq(nb_rxq)
              /\ device[p].rx = nb_rxq /\ device[p].tx = nb_txq
        /\ port_status[p] = "started" \/ p \notin need_reconfig_queues =>
              device[p].queues = thresh

Shown == \A p \in Fresh : RecordShown(p) /\ DeviceShown(p)

SettingInv == Absent /\ Shown

-----------------------------------------------------------------------------
(* The kinds of steps *)

FdirItems == FlowTypes \cup {"mask", "payload"}

(* A setting that writes the records of all ports *)
ConfigAll ==
    /\ SettingForAll /\ ForAllPorts
    /\ nb_rxq' \in Nat /\ nb_txq' \in Nat /\ rx_mode' \in RxModes /\ thresh' \in QConfs

LEMMA ConfParts ==
    ASSUME NEW c \in ConfType
    PROVE  /\ c.speed \in {"auto", "fixed"} /\ c.rxmode \in Modes
           /\ c.mq \in {"none", "rss", "dcb"} /\ c.txmq \in {"none", "dcb"}
           /\ c.fdir \in SUBSET FdirItems
           /\ c = [speed |-> c.speed, rxmode |-> c.rxmode, mq |-> c.mq, txmq |-> c.txmq,
                   fdir |-> c.fdir]
BY DEF ConfType, FdirItems

LEMMA StepKinds ==
    ASSUME TypeInv, Next
    PROVE  \/ ConfigAll
           \/ \E pids \in SUBSET enabled : \E s \in {"auto", "fixed"} : ConfigSpeed(pids, s)
           \/ \E p \in Port : \E f \in SUBSET FdirItems : FdirSet(p, f)
           \/ \E p \in Port : \E vt \in BOOLEAN : ConfigDcb(p, vt) \/ ConfigDcbFails(p, vt)
           \/ Ports \/ Sides
           \/ \E pids \in SUBSET enabled : SetFwdPorts(pids)
           \/ StartForwarding \/ StopForwarding
<1> /\ nb_rxq \in Nat /\ nb_txq \in Nat /\ rx_mode \in RxModes /\ thresh \in QConfs
    /\ dev_conf \in [Port -> ConfType] /\ enabled \subseteq Port
  BY DEF TypeInv, GlobalType, RecordType, LifeType
<1>1. CASE \E pids \in {{p} : p \in enabled} \cup {enabled}, s \in {"auto", "fixed"} :
              ConfigSpeed(pids, s)
  BY <1>1
<1>2. CASE \E n \in QueueNums : ConfigRxTx(n, nb_txq) \/ ConfigRxTx(nb_rxq, n)
  BY <1>2, SettingsAssumption DEF SettingsAssumption, ConfigRxTx, ConfigAll
<1>3. CASE \E m \in RxModes : ConfigMaxPktLen(m) \/ ConfigRxModeFlag(m)
  BY <1>3 DEF ConfigMaxPktLen, ConfigRxModeFlag, ConfigAll
<1>4. CASE \E t \in Threshes : ConfigThresh(t)
  BY <1>4 DEF ConfigThresh, ConfigAll, QConfs
<1>5. CASE \E p \in Port :
              FdirMask(p) \/ FdirFlexPayload(p) \/ \E type \in FlowTypes : FdirFlexMask(p, type)
  <2>1. PICK p \in Port :
              FdirMask(p) \/ FdirFlexPayload(p) \/ \E type \in FlowTypes : FdirFlexMask(p, type)
    BY <1>5
  <2>2. dev_conf[p].fdir \in SUBSET FdirItems
    BY ConfParts
  <2>3. CASE FdirMask(p)
    BY <2>2, <2>3 DEF FdirMask, FdirItems
  <2>4. CASE FdirFlexPayload(p)
    BY <2>2, <2>4 DEF FdirFlexPayload, SetFlexPayload, FdirItems
  <2>5. CASE \E type \in FlowTypes : FdirFlexMask(p, type)
    <3>1. PICK type \in FlowTypes : FdirFlexMask(p, type)
      BY <2>5
    <3>2. CASE type = "none"
      BY <2>2, <3>1, <3>2 DEF FdirFlexMask, FdirItems
    <3>3. CASE type # "none"
      BY <2>2, <3>1, <3>3 DEF FdirFlexMask, SetFlexMask, FdirItems
    <3> QED
      BY <3>2, <3>3
  <2> QED
    BY <2>1, <2>3, <2>4, <2>5
<1>6. CASE \E p \in Port, vt \in BOOLEAN : ConfigDcb(p, vt) \/ ConfigDcbFails(p, vt)
  BY <1>6
<1> QED
  BY <1>1, <1>2, <1>3, <1>4, <1>5, <1>6 DEF Next, Settings

-----------------------------------------------------------------------------
(* Types are kept *)

LEMMA NotConfiguredType ==
    NotConfigured \in DeviceType /\ NotConfigured.rx = 0 /\ NotConfigured.tx = 0
<1>1. ZeroConf \in ConfType
  BY DEF ZeroConf, ConfType, Modes
<1> QED
  BY <1>1 DEF NotConfigured, DeviceType, QConfs

LEMMA InitType == Init => TypeInv
<1> SUFFICES ASSUME Init PROVE TypeInv
  OBVIOUS
<1> USE SettingsAssumption DEF SettingsAssumption
<1>1. ZeroConf \in ConfType /\ [ZeroConf EXCEPT !.rxmode = "plain"] \in ConfType
  BY DEF ZeroConf, ConfType, Modes
<1>2. NotConfigured \in DeviceType /\ NotConfigured.rx = 0 /\ NotConfigured.tx = 0
  BY NotConfiguredType
<1>3. dev_conf \in [Port -> ConfType]
  BY <1>1 DEF Init
<1>4. device \in [Port -> DeviceType] /\ \A p \in Port : {device[p].rx, device[p].tx} \subseteq 0 .. dev_info[p].max_queues
  BY <1>2 DEF Init
<1>5. <<>> \in Seq(Entry) /\ <<>> \in Seq(McAddrs)
  OBVIOUS
<1>6. LifeType /\ FlagType /\ GlobalType /\ DcbType /\ SessionType
  <2>1. /\ enabled \subseteq Port /\ bonded \subseteq enabled /\ slave_flag \subseteq Port
        /\ port_status \in [Port -> Status]
    BY DEF Init, Status
  <2>2. /\ need_reconfig \subseteq Port /\ need_reconfig_queues \subseteq Port
        /\ fwd_ports \subseteq Port /\ dcb_flag \subseteq Port
    BY DEF Init
  <2>3. /\ nb_rxq \in Nat /\ nb_txq \in Nat /\ rx_mode \in RxModes /\ thresh \in QConfs
        /\ dcb_config \in {0, 1} /\ dcb_test \in {0, 1} /\ test_done \in {0, 1}
    BY DEF Init, QConfs
  <2> QED
    BY <2>1, <2>2, <2>3 DEF LifeType, FlagType, GlobalType, DcbType, SessionType
<1>7. RecordType /\ DevicesType
  <2>1. /\ q_conf \in [Port -> QConfs] /\ mapping_enabled \in [Direction -> SUBSET Port]
    BY DEF Init, QConfs
  <2> QED
    BY <1>3, <1>4, <2>1 DEF RecordType, DevicesType
<1>8. TagType /\ QmapType /\ McastType /\ ChangesType
  BY <1>5 DEF Init, TagType, QmapType, McastType, ChangesType
<1> QED
  BY <1>6, <1>7, <1>8 DEF TypeInv

(* What init_port_config leaves in the records is one. *)
LEMMA InitPortConfigType ==
    ASSUME TypeInv, NEW pids \in SUBSET Port, InitPortConfig(pids),
           nb_rxq' \in Nat, rx_mode' \in RxModes, thresh' \in QConfs
    PROVE  /\ dev_conf' \in [Port -> ConfType] /\ q_conf' \in [Port -> QConfs]
           /\ mapping_enabled' \in [Direction -> SUBSET Port]
<1>1. /\ dev_conf \in [Port -> ConfType] /\ q_conf \in [Port -> QConfs]
      /\ mapping_enabled \in [Direction -> SUBSET Port]
  BY DEF TypeInv, RecordType
<1>2. ASSUME NEW p \in Port PROVE InitedConf(p) \in ConfType
  <2> DEFINE c == dev_conf[p]
             mq == IF p \in dcb_flag THEN "none" ELSE RxMq(nb_rxq')
  <2>1. c \in ConfType /\ rx_mode' \in Modes /\ {} \in SUBSET FdirItems
    BY <1>1 DEF Modes
  <2>2. mq \in {"none", "rss", "dcb"}
    BY DEF RxMq
  <2>3. InitedConf(p) = [c EXCEPT !.rxmode = rx_mode', !.fdir = {}, !.mq = mq]
    BY DEF InitedConf
  <2> HIDE DEF c, mq
  <2> QED
    BY <2>1, <2>2, <2>3 DEF ConfType, FdirItems
<1>3. dev_conf' \in [Port -> ConfType]
  BY <1>1, <1>2 DEF InitPortConfig
<1>4. q_conf' \in [Port -> QConfs]
  BY <1>1 DEF InitPortConfig
<1>5. mapping_enabled' \in [Direction -> SUBSET Port]
  BY <1>1 DEF InitPortConfig, MapStatsRegisters
<1> QED
  BY <1>3, <1>4, <1>5

LEMMA ConfiguredType ==
    ASSUME TypeInv, NEW p \in Port, StartTries(p)
    PROVE  /\ Configured(p) \in DeviceType /\ SetUp(p) \in DeviceType
           /\ Configured(p).rx \in 0 .. dev_info[p].max_queues
           /\ Configured(p).tx \in 0 .. dev_info[p].max_queues
           /\ SetUp(p).rx = Configured(p).rx /\ SetUp(p).tx = Configured(p).tx
           /\ SetUp(p).conf = Configured(p).conf
           /\ [Configured(p) EXCEPT !.queues = "none"] \in DeviceType
           /\ SetUp(p).queues = IF p \in need_reconfig_queues THEN q_conf[p]
                                ELSE Configured(p).queues
<1>1. /\ dev_conf[p] \in ConfType /\ q_conf[p] \in QConfs /\ device[p] \in DeviceType
      /\ nb_rxq \in Nat /\ nb_txq \in Nat
      /\ device[p].rx \in 0 .. dev_info[p].max_queues
      /\ device[p].tx \in 0 .. dev_info[p].max_queues
      /\ dev_info[p].max_queues \in Nat
  BY SettingsAssumption
  DEF TypeInv, RecordType, DevicesType, GlobalType, DeviceType, SettingsAssumption
<1> DEFINE c == Configured(p)
<1>2. p \in need_reconfig =>
        /\ c = [conf |-> dev_conf[p], rx |-> nb_rxq, tx |-> nb_txq, queues |-> "none",
                extend |-> dev_conf[p].rxmode \in ExtendModes]
        /\ nb_rxq <= dev_info[p].max_queues /\ nb_txq <= dev_info[p].max_queues
  BY DEF Configured, StartTries
<1>3. p \notin need_reconfig => c = device[p]
  BY DEF Configured
<1> HIDE DEF c
<1>4. /\ c \in DeviceType /\ c.rx \in 0 .. dev_info[p].max_queues
      /\ c.tx \in 0 .. dev_info[p].max_queues
  <2>1. CASE p \in need_reconfig
    <3>1. PICK b \in BOOLEAN : b = (dev_conf[p].rxmode \in ExtendModes)
      <4>1. CASE dev_conf[p].rxmode \in ExtendModes
        <5>1. TRUE = (dev_conf[p].rxmode \in ExtendModes)
          BY <4>1
        <5> QED
          BY <5>1
      <4>2. CASE dev_conf[p].rxmode \notin ExtendModes
        <5>1. FALSE = (dev_conf[p].rxmode \in ExtendModes)
          BY <4>2
        <5> QED
          BY <5>1
      <4> QED
        BY <4>1, <4>2
    <3>2. c = [conf |-> dev_conf[p], rx |-> nb_rxq, tx |-> nb_txq, queues |-> "none",
               extend |-> b]
      BY <1>2, <2>1, <3>1
    <3>3. nb_rxq \in 0 .. dev_info[p].max_queues /\ nb_txq \in 0 .. dev_info[p].max_queues
      BY <1>1, <1>2, <2>1
    <3> QED
      BY <1>1, <3>2, <3>3 DEF DeviceType, QConfs
  <2>2. CASE p \notin need_reconfig
    BY <1>1, <1>3, <2>2
  <2> QED
    BY <2>1, <2>2
<1>5. "none" \in QConfs
  BY DEF QConfs
<1>6. ASSUME NEW q \in QConfs
      PROVE  /\ [c EXCEPT !.queues = q] \in DeviceType
             /\ [c EXCEPT !.queues = q].rx = c.rx /\ [c EXCEPT !.queues = q].tx = c.tx
             /\ [c EXCEPT !.queues = q].conf = c.conf
             /\ [c EXCEPT !.queues = q].queues = q
  BY <1>4 DEF DeviceType
<1>7. SetUp(p) = IF p \in need_reconfig_queues THEN [c EXCEPT !.queues = q_conf[p]] ELSE c
  BY DEF SetUp, c
<1>8. /\ SetUp(p) \in DeviceType
      /\ SetUp(p).rx = c.rx /\ SetUp(p).tx = c.tx /\ SetUp(p).conf = c.conf
      /\ SetUp(p).queues = IF p \in need_reconfig_queues THEN q_conf[p] ELSE c.queues
  <2>1. CASE p \in need_reconfig_queues
    BY <1>1, <1>6, <1>7, <2>1
  <2>2. CASE p \notin need_reconfig_queues
    BY <1>4, <1>7, <2>2
  <2> QED
    BY <2>1, <2>2
<1> QED
  BY <1>4, <1>5, <1>6, <1>8 DEF c

LEMMA ConfigType ==
    ASSUME TypeInv
    PROVE  /\ ConfigAll => TypeInv'
           /\ \A pids \in SUBSET enabled : \A s \in {"auto", "fixed"} :
                 ConfigSpeed(pids, s) => TypeInv'
           /\ \A p \in Port : \A f \in SUBSET FdirItems : FdirSet(p, f) => TypeInv'
<1>0. /\ enabled \subseteq Port /\ dev_conf \in [Port -> ConfType]
      /\ need_reconfig \subseteq Port /\ need_reconfig_queues \subseteq Port
  BY DEF TypeInv, LifeType, RecordType, FlagType
<1>1. ASSUME NEW pids \in SUBSET Port, ReconfigDeviceQueue(pids) PROVE FlagType'
  BY <1>0, <1>1 DEF ReconfigDeviceQueue, FlagType
<1>2. ASSUME ConfigAll PROVE TypeInv'
  <2>1. /\ UNCHANGED <<life, device, dcb, session, tags, qmap, mcast>> /\ Change
        /\ InitPortConfig(enabled) /\ ReconfigDeviceQueue(enabled) /\ GlobalType'
    BY <1>2 DEF ConfigAll, SettingForAll, ForAllPorts, GlobalType
  <2>2. RecordType'
    BY <1>0, <2>1, InitPortConfigType DEF GlobalType, RecordType
  <2> QED
    BY <1>0, <1>1, <2>1, <2>2, PartsSame DEF TypeInv
<1>3. ASSUME NEW pids \in SUBSET enabled, NEW s \in {"auto", "fixed"}, ConfigSpeed(pids, s)
      PROVE  TypeInv'
  <2>1. /\ UNCHANGED <<life, device, dcb, session, tags, qmap, mcast, globals>> /\ Change
        /\ ReconfigDeviceQueue(enabled) /\ UNCHANGED <<q_conf, mapping_enabled>>
        /\ dev_conf' = [p \in Port |-> IF p \in pids THEN [dev_conf[p] EXCEPT !.speed = s]
                                       ELSE dev_conf[p]]
    BY <1>3 DEF ConfigSpeed, SettingForAll
  <2>2. \A p \in Port : [dev_conf[p] EXCEPT !.speed = s] \in ConfType
    BY <1>0 DEF ConfType
  <2>3. RecordType'
    BY <1>0, <2>1, <2>2 DEF TypeInv, RecordType
  <2> QED
    BY <1>0, <1>1, <2>1, <2>3, PartsSame DEF TypeInv
<1>4. ASSUME NEW p \in Port, NEW f \in SUBSET FdirItems, FdirSet(p, f) PROVE TypeInv'
  <2>1. /\ UNCHANGED <<life, device, dcb, session, tags, qmap, mcast, globals>> /\ Change
        /\ ReconfigDeviceQueue({p} \cap enabled) /\ UNCHANGED <<q_conf, mapping_enabled>>
        /\ dev_conf' = [dev_conf EXCEPT ![p] = [dev_conf[p] EXCEPT !.fdir = f]]
    BY <1>0, <1>4 DEF FdirSet
  <2>2. [dev_conf[p] EXCEPT !.fdir = f] \in ConfType
    BY <1>0 DEF ConfType, FdirItems
  <2>3. RecordType'
    BY <1>0, <2>1, <2>2 DEF TypeInv, RecordType
  <2>4. FlagType'
    BY <1>0, <1>1, <2>1
  <2> QED
    BY <2>1, <2>3, <2>4, PartsSame DEF TypeInv
<1> QED
  BY <1>2, <1>3, <1>4

LEMMA DcbConfType ==
    ASSUME NEW vt \in BOOLEAN
    PROVE  /\ DcbConf(vt) \in ConfType /\ DcbConf(vt).rxmode = "dcb"
           /\ [conf |-> DcbConf(vt), rx |-> 0, tx |-> 0, queues |-> "none", extend |-> FALSE]
                 \in DeviceType
<1> DEFINE z == ZeroConf
<1>0. /\ z \in ConfType /\ z.speed = "auto" /\ z.fdir = {}
  BY DEF ZeroConf, ConfType, Modes
<1> HIDE DEF z
<1>1. DcbConf(vt) = [z EXCEPT !.rxmode = "dcb", !.mq = "dcb", !.txmq = "dcb"]
  BY DEF DcbConf, z
<1>2. /\ DcbConf(vt) \in ConfType /\ DcbConf(vt).rxmode = "dcb"
  BY <1>0, <1>1 DEF ConfType, Modes
<1> QED
  BY <1>2 DEF DeviceType, QConfs

LEMMA DcbConfiguresType ==
    ASSUME TypeInv, NEW p \in Port, NEW vt \in BOOLEAN, DcbConfigures(p, vt)
    PROVE  DevicesType'
<1> DEFINE d == [conf |-> DcbConf(vt), rx |-> 0, tx |-> 0, queues |-> "none", extend |-> FALSE]
<1>1. d \in DeviceType /\ d.rx = 0 /\ d.tx = 0
  BY DcbConfType
<1>2. device' = [device EXCEPT ![p] = d]
  BY DEF DcbConfigures
<1> HIDE DEF d
<1>3. /\ device' \in [Port -> DeviceType] /\ device'[p] = d
      /\ \A q \in Port \ {p} : device'[q] = device[q]
  BY <1>1, <1>2 DEF TypeInv, DevicesType
<1>4. dev_info[p].max_queues \in Nat
  BY SettingsAssumption DEF SettingsAssumption
<1>5. d.rx \in 0 .. dev_info[p].max_queues /\ d.tx \in 0 .. dev_info[p].max_queues
  BY <1>1, <1>4
<1> QED
  BY <1>3, <1>5 DEF TypeInv, DevicesType

LEMMA DcbStepType ==
    ASSUME TypeInv, NEW p \in Port, NEW vt \in BOOLEAN,
           ConfigDcb(p, vt) \/ ConfigDcbFails(p, vt)
    PROVE  TypeInv'
<1>0. /\ enabled \subseteq Port /\ dev_conf \in [Port -> ConfType] /\ rx_mode \in RxModes
      /\ q_conf \in [Port -> QConfs] /\ mapping_enabled \in [Direction -> SUBSET Port]
      /\ need_reconfig \subseteq Port /\ need_reconfig_queues \subseteq Port
      /\ dcb_flag \subseteq Port /\ dcb_config \in {0, 1} /\ dcb_test \in {0, 1}
  BY DEF TypeInv, LifeType, RecordType, FlagType, GlobalType, DcbType
<1>1. CASE ConfigDcbFails(p, vt)
  <2>1. UNCHANGED device \/ DcbConfigures(p, vt)
    BY <1>1 DEF ConfigDcbFails
  <2>2. /\ dcb_config' = 1 /\ UNCHANGED <<dcb_test, dcb_flag>> /\ Change
        /\ UNCHANGED <<life, need_reconfig, need_reconfig_queues, records, globals, session,
                       tags, qmap, mcast>>
    BY <1>1 DEF ConfigDcbFails
  <2>3. DcbType'
    BY <1>0, <2>2 DEF DcbType
  <2>4. DevicesType'
    BY <2>1, PartsSame, DcbConfiguresType
  <2> QED
    BY <2>2, <2>3, <2>4, PartsSame DEF TypeInv
<1>2. CASE ConfigDcb(p, vt)
  <2>1. UNCHANGED device \/ DcbConfigures(p, vt)
    BY <1>2 DEF ConfigDcb
  <2>2. /\ dcb_config' = 1 /\ UNCHANGED dcb_test /\ dcb_flag' = dcb_flag \cup {p} /\ Change
        /\ UNCHANGED <<life, session, tags, qmap, mcast>>
    BY <1>2 DEF ConfigDcb
  <2>3. /\ nb_rxq' = DcbQueues(p, vt) /\ nb_txq' = nb_rxq' /\ thresh' = "dcb"
        /\ UNCHANGED rx_mode
        /\ dev_conf' = [dev_conf EXCEPT ![p] = DcbConf(vt)]
        /\ q_conf' = [q_conf EXCEPT ![p] = "dcb"]
        /\ MapStatsRegisters({p}) /\ ReconfigDeviceQueue({p} \cap enabled)
    BY <1>2 DEF ConfigDcb
  <2>4. DcbType'
    BY <1>0, <2>2 DEF DcbType
  <2>5. DcbQueues(p, vt) \in Nat
    BY SettingsAssumption DEF DcbQueues, SettingsAssumption
  <2>6. GlobalType'
    BY <1>0, <2>3, <2>5 DEF GlobalType, QConfs
  <2>7. mapping_enabled' \in [Direction -> SUBSET Port]
    BY <1>0, <2>3 DEF MapStatsRegisters
  <2>8. RecordType'
    BY <1>0, <2>3, <2>7, DcbConfType DEF RecordType, QConfs
  <2>9. FlagType'
    BY <1>0, <2>3 DEF FlagType, ReconfigDeviceQueue
  <2>10. DevicesType'
    BY <2>1, PartsSame, DcbConfiguresType
  <2> QED
    BY <2>2, <2>4, <2>6, <2>8, <2>9, <2>10, PartsSame DEF TypeInv
<1> QED
  BY <1>1, <1>2

(* Starting: raw effects *)
LEMMA StartsType ==
    ASSUME TypeInv, NEW p \in Port,
           StartPort(p) \/ StartRefused(p) \/ QueueSetupFails(p) \/ NoMempool(p)
    PROVE  TypeInv'
<1>0. /\ port_status \in [Port -> Status] /\ enabled \subseteq Port
      /\ bonded \subseteq enabled /\ slave_flag \subseteq Port
      /\ need_reconfig \subseteq Port /\ need_reconfig_queues \subseteq Port
      /\ dcb_flag \subseteq Port /\ dcb_config \in {0, 1} /\ dcb_test \in {0, 1}
      /\ device \in [Port -> DeviceType]
      /\ \A q \in Port : /\ device[q].rx \in 0 .. dev_info[q].max_queues
                         /\ device[q].tx \in 0 .. dev_info[q].max_queues
  BY DEF TypeInv, LifeType, FlagType, DcbType, DevicesType
<1>1. /\ TestsDcb
      /\ UNCHANGED <<enabled, bonded, slave_flag, untold, records, globals, dcb_config,
                     dcb_flag, session, tags, qmap, mcast, behind, changes>>
  BY DEF StartPort, StartRefused, QueueSetupFails, NoMempool, StartTries, StartFrame
<1>2. DcbType'
  BY <1>0, <1>1 DEF TestsDcb, DcbType
<1>3. UNCHANGED <<port_status, need_reconfig, need_reconfig_queues, device>>
      => LifeType' /\ FlagType' /\ DevicesType'
  BY <1>1, PartsSame DEF life
<1>4. CASE StartRefused(p)
  BY <1>1, <1>2, <1>3, <1>4, PartsSame DEF StartRefused, TypeInv
<1>5. CASE StartPort(p) \/ QueueSetupFails(p) \/ NoMempool(p)
  <2>1. PICK d \in {SetUp(p), [Configured(p) EXCEPT !.queues = "none"]} :
              device' = [device EXCEPT ![p] = d]
    BY <1>5 DEF StartPort, QueueSetupFails, NoMempool
  <2>2. StartTries(p)
    BY <1>5 DEF StartPort, QueueSetupFails, NoMempool
  <2>3. /\ d \in DeviceType
        /\ d.rx \in 0 .. dev_info[p].max_queues /\ d.tx \in 0 .. dev_info[p].max_queues
    <3> DEFINE c == Configured(p)
               u == SetUp(p)
               e == [c EXCEPT !.queues = "none"]
    <3>1. /\ c \in DeviceType /\ u \in DeviceType /\ e \in DeviceType
          /\ c.rx \in 0 .. dev_info[p].max_queues /\ c.tx \in 0 .. dev_info[p].max_queues
          /\ u.rx = c.rx /\ u.tx = c.tx
      BY <2>2, ConfiguredType
    <3>2. d = u \/ d = e
      BY <2>1
    <3> HIDE DEF c, u
    <3>3. e.rx = c.rx /\ e.tx = c.tx
      BY <3>1 DEF DeviceType
    <3> QED
      BY <3>1, <3>2, <3>3
  <2>4. DevicesType'
    BY <1>0, <2>1, <2>3 DEF DevicesType
  <2>5. /\ \/ port_status' = port_status
           \/ \E s \in {"started", "handling"} : port_status' = [port_status EXCEPT ![p] = s]
        /\ need_reconfig' = need_reconfig \ {p}
        /\ need_reconfig_queues' \in {need_reconfig_queues, need_reconfig_queues \ {p}}
    BY <1>5 DEF StartPort, QueueSetupFails, NoMempool
  <2>6. LifeType' /\ FlagType'
    BY <1>0, <1>1, <2>5 DEF LifeType, FlagType, Status
  <2> QED
    BY <1>1, <1>2, <2>4, <2>6, PartsSame DEF TypeInv
<1> QED
  BY <1>4, <1>5

LEMMA PortsType ==
    ASSUME TypeInv, Ports
    PROVE  TypeInv'
<1>0. /\ port_status \in [Port -> Status] /\ enabled \subseteq Port
      /\ bonded \subseteq enabled /\ slave_flag \subseteq Port
      /\ need_reconfig \subseteq Port /\ need_reconfig_queues \subseteq Port
      /\ dcb_flag \subseteq Port /\ dcb_config \in {0, 1} /\ dcb_test \in {0, 1}
      /\ device \in [Port -> DeviceType]
      /\ \A q \in Port : /\ device[q].rx \in 0 .. dev_info[q].max_queues
                         /\ device[q].tx \in 0 .. dev_info[q].max_queues
      /\ fwd_ports \subseteq Port /\ test_done \in {0, 1}
      /\ mc_filter \in [Port -> SUBSET McAddrs]
      /\ nb_rxq \in Nat /\ nb_txq \in Nat /\ rx_mode \in RxModes /\ thresh \in QConfs
  BY DEF TypeInv, LifeType, FlagType, DcbType, DevicesType, SessionType, McastType, GlobalType
<1>1. ASSUME NEW p \in Port, StopPort(p) PROVE TypeInv'
  <2>1. /\ port_status' \in {port_status, [port_status EXCEPT ![p] = "stopped"]}
        /\ UNCHANGED <<enabled, bonded, slave_flag, flags, records, device, globals,
                       session, tags, qmap, mcast, behind, changes>>
    BY <1>1 DEF StopPort
  <2>2. LifeType'
    BY <1>0, <2>1 DEF LifeType, Status
  <2>3. DcbType'
    BY <1>0, <1>1 DEF StopPort, DcbType
  <2> QED
    BY <2>1, <2>2, <2>3, PartsSame DEF TypeInv, flags
<1>2. ASSUME NEW p \in Port, ClosePort(p) PROVE TypeInv'
  <2>1. /\ port_status' = [port_status EXCEPT ![p] = "closed"]
        /\ UNCHANGED <<enabled, bonded, slave_flag, flags, records, device, globals, dcb,
                       session, tags, qmap, mcast, behind, changes>>
    BY <1>2 DEF ClosePort
  <2>2. LifeType'
    BY <1>0, <2>1 DEF LifeType, Status
  <2> QED
    BY <2>1, <2>2, PartsSame DEF TypeInv, flags
<1>3. ASSUME NEW p \in Port, DetachPort(p) PROVE TypeInv'
  <2>1. /\ enabled' = enabled \ {p} /\ bonded' = bonded \ {p} /\ fwd_ports' = fwd_ports \ {p}
        /\ device' = [device EXCEPT ![p] = NotConfigured]
        /\ mc_filter' = [mc_filter EXCEPT ![p] = {}]
        /\ UNCHANGED <<port_status, slave_flag, flags, records, globals, dcb, test_done, tags,
                       qmap, mc_addr_pool, mc_capacity, unsynced, behind, changes>>
    BY <1>3 DEF DetachPort
  <2>2. LifeType' /\ SessionType'
    BY <1>0, <2>1 DEF LifeType, SessionType
  <2>3. McastType'
    BY <1>0, <2>1 DEF TypeInv, McastType
  <2>4. /\ NotConfigured \in DeviceType /\ NotConfigured.rx = 0 /\ NotConfigured.tx = 0
        /\ dev_info[p].max_queues \in Nat
    BY NotConfiguredType, SettingsAssumption DEF SettingsAssumption
  <2>5. DevicesType'
    BY <1>0, <2>1, <2>4 DEF DevicesType
  <2> QED
    BY <2>1, <2>2, <2>3, <2>5, PartsSame DEF TypeInv, flags
<1>4. ASSUME NEW p \in Port, NEW pids \in SUBSET Port, Reconfig(p, pids)
      PROVE  FlagType' /\ RecordType' /\ GlobalType'
  <2>1. /\ need_reconfig' = need_reconfig \cup {p}
        /\ need_reconfig_queues' = need_reconfig_queues \cup {p}
        /\ UNCHANGED globals /\ InitPortConfig(pids)
    BY <1>4 DEF Reconfig
  <2>2. RecordType'
    BY <1>0, <2>1, InitPortConfigType DEF RecordType, globals
  <2> QED
    BY <1>0, <2>1, <2>2, PartsSame DEF FlagType
<1>5. ASSUME AttachPort PROVE TypeInv'
  <2> DEFINE p == FreePort
  <2>1. /\ enabled' = enabled \cup {p} /\ Reconfig(p, enabled') /\ enabled # Port /\ Change
        /\ port_status' = [port_status EXCEPT ![p] = "stopped"]
        /\ fwd_ports' = fwd_ports \cup {p}
        /\ UNCHANGED <<bonded, slave_flag, device, dcb, test_done, tags, qmap, mc_addr_pool,
                       mc_capacity, mc_filter>>
    BY <1>5 DEF AttachPort, FreePort
  <2>2. p \in Port
    BY <1>0, <2>1, FreePortIs
  <2> HIDE DEF p
  <2>3. FlagType' /\ RecordType' /\ GlobalType'
    BY <1>0, <1>4, <2>1, <2>2
  <2>4. LifeType' /\ SessionType'
    BY <1>0, <2>1, <2>2 DEF LifeType, SessionType, Status
  <2>5. McastType'
    BY <2>1 DEF TypeInv, McastType
  <2> QED
    BY <2>1, <2>3, <2>4, <2>5, PartsSame DEF TypeInv
<1>6. ASSUME CreateBondedDevice PROVE TypeInv'
  <2> DEFINE p == FreePort
  <2>1. /\ enabled' = enabled \cup {p} /\ Reconfig(p, enabled) /\ enabled # Port /\ Change
        /\ bonded' = bonded \cup {p}
        /\ UNCHANGED <<port_status, slave_flag, device, dcb, session, tags, qmap,
                       mc_addr_pool, mc_capacity, mc_filter>>
    BY <1>6 DEF CreateBondedDevice, FreePort
  <2>2. p \in Port
    BY <1>0, <2>1, FreePortIs
  <2> HIDE DEF p
  <2>3. FlagType' /\ RecordType' /\ GlobalType'
    BY <1>0, <1>4, <2>1, <2>2
  <2>4. LifeType'
    BY <1>0, <2>1, <2>2 DEF LifeType
  <2>5. McastType'
    BY <2>1 DEF TypeInv, McastType
  <2> QED
    BY <2>1, <2>3, <2>4, <2>5, PartsSame DEF TypeInv
<1>7. ASSUME NEW p \in Port, NEW slaves \in SUBSET Port, BondingSlave(p, slaves) PROVE TypeInv'
  <2>1. /\ UNCHANGED globals /\ InitPortConfig(enabled) /\ slave_flag' = slaves /\ Change
        /\ UNCHANGED <<enabled, bonded, port_status, need_reconfig, need_reconfig_queues,
                       device, dcb, session, tags, qmap, mcast>>
    BY <1>7 DEF BondingSlave
  <2>2. RecordType'
    BY <1>0, <2>1, InitPortConfigType DEF RecordType, globals
  <2>3. LifeType'
    BY <1>0, <2>1 DEF LifeType
  <2> QED
    BY <2>1, <2>2, <2>3, PartsSame DEF TypeInv
<1>8. \A p \in Port : slave_flag \cup {p} \in SUBSET Port /\ slave_flag \ {p} \in SUBSET Port
  BY <1>0
<1> QED
  BY <1>1, <1>2, <1>3, <1>5, <1>6, <1>7, <1>8, StartsType DEF Ports

-----------------------------------------------------------------------------
(* The tables as sequences *)

(* The pool without its i-th address, closed up *)
Without(s, i) == SubSeq(s, 1, i - 1) \o SubSeq(s, i + 1, Len(s))

LEMMA WithoutIs ==
    ASSUME NEW S, NEW s \in Seq(S), NEW i \in 1 .. Len(s)
    PROVE  /\ Without(s, i) \in Seq(S) /\ Len(Without(s, i)) = Len(s) - 1
           /\ \A j \in 1 .. i - 1 : Without(s, i)[j] = s[j]
           /\ \A j \in i .. Len(s) - 1 : Without(s, i)[j] = s[j + 1]
<1> DEFINE a == SubSeq(s, 1, i - 1)
           b == SubSeq(s, i + 1, Len(s))
           t == a \o b
<1>1. Len(s) \in Nat /\ i - 1 \in 0 .. Len(s) /\ i \in 0 .. Len(s)
  BY LenProperties
<1>2. a \in Seq(S) /\ Len(a) = i - 1 /\ \A j \in 1 .. i - 1 : a[j] = s[j]
  BY <1>1, CutIs
<1>3. b \in Seq(S) /\ Len(b) = Len(s) - i /\ \A j \in 1 .. Len(s) - i : b[j] = s[i + j]
  BY <1>1, CutIs
<1> HIDE DEF a, b
<1>4. /\ t \in Seq(S) /\ Len(t) = Len(a) + Len(b)
      /\ \A j \in 1 .. Len(a) : t[j] = a[j]
      /\ \A j \in 1 .. Len(b) : t[Len(a) + j] = b[j]
  <2>1. a \in Seq(S) /\ b \in Seq(S)
    BY <1>2, <1>3
  <2> QED
    BY ONLY <2>1, JoinIs
<1> HIDE DEF t
<1>5. Len(t) = Len(s) - 1 /\ \A j \in 1 .. i - 1 : t[j] = s[j]
  BY <1>1, <1>2, <1>3, <1>4
<1>6. ASSUME NEW j \in i .. Len(s) - 1 PROVE t[j] = s[j + 1]
  <2> DEFINE k == j - (i - 1)
  <2>1. k \in 1 .. Len(s) - i /\ j = (i - 1) + k /\ i + k = j + 1
    BY <1>1
  <2> HIDE DEF k
  <2>2. t[(i - 1) + k] = b[k] /\ b[k] = s[i + k]
    BY <1>2, <1>3, <1>4, <2>1
  <2> QED
    BY <2>1, <2>2
<1>7. t = Without(s, i)
  BY DEF t, a, b, Without
<1> QED
  BY <1>4, <1>5, <1>6, <1>7

LEMMA WithoutInjective ==
    ASSUME NEW S, NEW s \in Seq(S), NEW i \in 1 .. Len(s), IsInjective(s)
    PROVE  IsInjective(Without(s, i))
<1> DEFINE t == Without(s, i)
           At(j) == IF j < i THEN j ELSE j + 1
<1>1. /\ t \in Seq(S) /\ Len(t) = Len(s) - 1 /\ Len(s) \in Nat
      /\ \A j \in 1 .. i - 1 : t[j] = s[j]
      /\ \A j \in i .. Len(s) - 1 : t[j] = s[j + 1]
  BY WithoutIs, LenProperties
<1> HIDE DEF t
<1>2. DOMAIN t = 1 .. Len(s) - 1 /\ DOMAIN s = 1 .. Len(s)
  BY <1>1, LenProperties
<1>3. ASSUME NEW j \in 1 .. Len(s) - 1 PROVE At(j) \in 1 .. Len(s) /\ t[j] = s[At(j)]
  <2>1. CASE j < i
    BY <1>1, <2>1
  <2>2. CASE ~(j < i)
    BY <1>1, <2>2
  <2> QED
    BY <2>1, <2>2
<1>4. ASSUME NEW j \in 1 .. Len(s) - 1, NEW k \in 1 .. Len(s) - 1, t[j] = t[k] PROVE j = k
  <2>1. At(j) = At(k)
    BY <1>2, <1>3, <1>4 DEF IsInjective
  <2> QED
    BY <1>1, <2>1
<1> QED
  BY <1>2, <1>4 DEF IsInjective, t

LEMMA InjectiveAppended ==
    ASSUME NEW S, NEW s \in Seq(S), NEW e \in S, IsInjective(s), e \notin Range(s)
    PROVE  IsInjective(Append(s, e))
<1> DEFINE t == Append(s, e)
<1>1. /\ t \in Seq(S) /\ Len(t) = Len(s) + 1 /\ Len(s) \in Nat
      /\ \A i \in 1 .. Len(s) : t[i] = s[i]
      /\ t[Len(s) + 1] = e
  BY AppendProperties, LenProperties
<1> HIDE DEF t
<1>2. DOMAIN t = 1 .. Len(s) + 1 /\ DOMAIN s = 1 .. Len(s)
  BY <1>1, LenProperties
<1>3. \A i \in 1 .. Len(s) : s[i] # e
  BY RangeIs
<1> QED
  BY <1>1, <1>2, <1>3 DEF IsInjective, t

LEMMA EmptyInjective == IsInjective(<<>>)
BY DEF IsInjective

LEMMA SidesEffects ==
    ASSUME TypeInv, Sides
    PROVE  /\ Aside
           /\ \E p \in Port :
                \/ /\ p \in enabled /\ \E on \in BOOLEAN : device' = [device EXCEPT ![p].extend = on]
                   /\ UNCHANGED <<mapping_enabled, tags, qmap, mcast>>
                \/ /\ UNCHANGED <<device, mapping_enabled, qmap, mcast>>
                   /\ TxVlanSet(p) \/ TxQinqSet(p) \/ TxVlanReset(p)
                \/ /\ UNCHANGED <<device, mapping_enabled, tags, mcast>>
                   /\ \E d \in Direction, q \in QueueNums : SetQmap(d, p, q)
                \/ /\ McFrame
                   /\ \E a \in McAddrs : McastAdd(p, a) \/ McastRemove(p, a)
<1>1. PICK p \in Port :
          \/ \E on \in BOOLEAN : VlanExtendSet(p, on)
          \/ TxVlanSet(p) \/ TxQinqSet(p) \/ TxVlanReset(p)
          \/ \E d \in Direction, q \in QueueNums : SetQmap(d, p, q)
          \/ \E a \in McAddrs : McastAdd(p, a) \/ McastRemove(p, a)
  BY DEF Sides
<1>2. CASE \E on \in BOOLEAN : VlanExtendSet(p, on)
  BY <1>2 DEF VlanExtendSet
<1>3. CASE TxVlanSet(p) \/ TxQinqSet(p) \/ TxVlanReset(p)
  BY <1>3 DEF TxVlanSet, TxQinqSet, TxVlanReset
<1>4. CASE \E d \in Direction, q \in QueueNums : SetQmap(d, p, q)
  BY <1>4 DEF SetQmap
<1>5. CASE \E a \in McAddrs : McastAdd(p, a) \/ McastRemove(p, a)
  BY <1>5 DEF McastAdd, McastRemove
<1> QED
  BY <1>1, <1>2, <1>3, <1>4, <1>5

LEMMA EntryType ==
    ASSUME NEW p \in Port, NEW q \in QueueNums
    PROVE  [port |-> p, queue |-> q] \in Entry
BY SettingsAssumption DEF SettingsAssumption, Entry

LEMMA SidesType ==
    ASSUME TypeInv, Sides
    PROVE  TypeInv'
<1>1. Aside
  BY SidesEffects
<1>2. PICK p \in Port :
                \/ /\ p \in enabled /\ \E on \in BOOLEAN : device' = [device EXCEPT ![p].extend = on]
                   /\ UNCHANGED <<mapping_enabled, tags, qmap, mcast>>
                \/ /\ UNCHANGED <<device, mapping_enabled, qmap, mcast>>
                   /\ TxVlanSet(p) \/ TxQinqSet(p) \/ TxVlanReset(p)
                \/ /\ UNCHANGED <<device, mapping_enabled, tags, mcast>>
                   /\ \E d \in Direction, q \in QueueNums : SetQmap(d, p, q)
                \/ /\ McFrame
                   /\ \E a \in McAddrs : McastAdd(p, a) \/ McastRemove(p, a)
  BY SidesEffects
<1>3. /\ LifeType' /\ FlagType' /\ GlobalType' /\ DcbType' /\ SessionType' /\ ChangesType'
  BY <1>1, PartsSame DEF Aside, flags
<1>4. UNCHANGED mapping_enabled => RecordType'
  BY <1>1, PartsSame DEF Aside, records
<1>5. CASE /\ \E on \in BOOLEAN : device' = [device EXCEPT ![p].extend = on]
           /\ UNCHANGED <<mapping_enabled, tags, qmap, mcast>>
  <2>1. PICK on \in BOOLEAN : device' = [device EXCEPT ![p] = [device[p] EXCEPT !.extend = on]]
    BY <1>5 DEF TypeInv, DevicesType
  <2> DEFINE d == [device[p] EXCEPT !.extend = on]
  <2>2. /\ d \in DeviceType /\ d.rx = device[p].rx /\ d.tx = device[p].tx
    BY DEF TypeInv, DevicesType, DeviceType
  <2>3. device' = [device EXCEPT ![p] = d]
    BY <2>1
  <2> HIDE DEF d
  <2>4. DevicesType'
    BY <2>2, <2>3 DEF TypeInv, DevicesType
  <2> QED
    BY <1>3, <1>4, <1>5, <2>4, PartsSame DEF TypeInv
<1>6. CASE /\ UNCHANGED <<device, mapping_enabled, qmap, mcast>>
           /\ TxVlanSet(p) \/ TxQinqSet(p) \/ TxVlanReset(p)
  <2>1. /\ tx_ol_flags' \in {[tx_ol_flags EXCEPT ![p] = {}],
                             [tx_ol_flags EXCEPT ![p] = {"INSERT_VLAN"}],
                             [tx_ol_flags EXCEPT ![p] = {"INSERT_QINQ"}]}
        /\ tx_vlan_id_outer' \in {tx_vlan_id_outer \ {p}, tx_vlan_id_outer \cup {p}}
    BY <1>6 DEF TxVlanSet, TxQinqSet, TxVlanReset
  <2>2. TagType'
    BY <2>1 DEF TypeInv, TagType
  <2> QED
    BY <1>3, <1>4, <1>6, <2>2, PartsSame DEF TypeInv
<1>7. CASE /\ UNCHANGED <<device, mapping_enabled, tags, mcast>>
           /\ \E d \in Direction, q \in QueueNums : SetQmap(d, p, q)
  <2>1. PICK d \in Direction, q \in QueueNums : SetQmap(d, p, q)
    BY <1>7
  <2> DEFINE e == [port |-> p, queue |-> q]
  <2>2. qmap' = [qmap EXCEPT ![d] = IF e \in Range(qmap[d]) THEN qmap[d] ELSE Append(qmap[d], e)]
    BY <2>1 DEF SetQmap
  <2>3. e \in Entry
    BY EntryType
  <2> HIDE DEF e
  <2>4. Append(qmap[d], e) \in Seq(Entry) /\ qmap[d] \in Seq(Entry)
    BY <2>3, AppendProperties DEF TypeInv, QmapType
  <2>5. QmapType'
    BY <2>2, <2>4 DEF TypeInv, QmapType
  <2> QED
    BY <1>3, <1>4, <1>7, <2>5, PartsSame DEF TypeInv
<1>8. CASE McFrame /\ \E a \in McAddrs : McastAdd(p, a) \/ McastRemove(p, a)
  <2>1. PICK a \in McAddrs : McastAdd(p, a) \/ McastRemove(p, a)
    BY <1>8
  <2> DEFINE pool == mc_addr_pool[p]
  <2>2. pool \in Seq(McAddrs) /\ mc_capacity[p] \in Nat /\ Len(pool) \in Nat
        /\ MCAST_POOL_INC \in Nat \ {0}
    BY LenProperties, SettingsAssumption DEF TypeInv, McastType, SettingsAssumption
  <2>3. \E n \in Nat : mc_capacity' = [mc_capacity EXCEPT ![p] = n]
    <3>1. CASE McastAdd(p, a)
      <4>1. mc_capacity' = [mc_capacity EXCEPT ![p] = PoolExtend(Len(pool), mc_capacity[p])]
        BY <3>1 DEF McastAdd
      <4>2. PoolExtend(Len(pool), mc_capacity[p]) \in Nat
        <5>1. PoolExtend(Len(pool), mc_capacity[p]) \in {mc_capacity[p], Len(pool) + MCAST_POOL_INC}
          BY Zenon DEF PoolExtend
        <5> QED
          BY <2>2, <5>1
      <4> QED
        BY <4>1, <4>2
    <3>2. CASE McastRemove(p, a)
      <4>1. mc_capacity' = [mc_capacity EXCEPT ![p] =
                              IF mc_addr_pool'[p] = <<>> THEN 0 ELSE mc_capacity[p]]
        BY <3>2 DEF McastRemove
      <4> QED
        BY <2>2, <4>1
    <3> QED
      BY <2>1, <3>1, <3>2
  <2>4. \E t \in Seq(McAddrs) : mc_addr_pool' = [mc_addr_pool EXCEPT ![p] = t]
    <3>1. CASE McastAdd(p, a)
      <4>1. mc_addr_pool' = [mc_addr_pool EXCEPT ![p] = Append(pool, a)]
        BY <3>1 DEF McastAdd
      <4>2. Append(pool, a) \in Seq(McAddrs)
        BY <2>2, AppendProperties
      <4> QED
        BY <4>1, <4>2
    <3>2. CASE McastRemove(p, a)
      <4>1. PICK i \in DOMAIN pool : mc_addr_pool' = [mc_addr_pool EXCEPT ![p] = Without(pool, i)]
        BY <3>2 DEF McastRemove, Without
      <4>2. i \in 1 .. Len(pool)
        BY <2>2, LenProperties
      <4>3. Without(pool, i) \in Seq(McAddrs)
        BY <2>2, <4>2, WithoutIs
      <4> QED
        BY <4>1, <4>3
    <3> QED
      BY <2>1, <3>1, <3>2
  <2>5. mc_filter' \in [Port -> SUBSET McAddrs]
    <3>1. PICK t \in Seq(McAddrs) : mc_addr_pool' = [mc_addr_pool EXCEPT ![p] = t]
      BY <2>4
    <3>2. mc_addr_pool'[p] = t /\ Range(t) \subseteq McAddrs
      BY <3>1, RangeIs DEF TypeInv, McastType
    <3>3. McListSet(p)
      BY <2>1 DEF McastAdd, McastRemove
    <3> QED
      BY <3>2, <3>3 DEF McListSet, TypeInv, McastType
  <2> HIDE DEF pool
  <2>6. McastType'
    BY <2>3, <2>4, <2>5 DEF TypeInv, McastType
  <2> QED
    BY <1>3, <1>4, <1>8, <2>6, PartsSame DEF TypeInv, McFrame
<1> QED
  BY <1>2, <1>5, <1>6, <1>7, <1>8

LEMMA TypeStep ==
    ASSUME TypeInv, [Next]_vars
    PROVE  TypeInv'
<1>1. CASE UNCHANGED vars
  <2>1. /\ UNCHANGED <<life, need_reconfig, need_reconfig_queues, records, device>>
        /\ UNCHANGED <<globals, dcb, session, tags, qmap, mcast, changes>>
    BY <1>1 DEF vars, flags
  <2> QED
    BY <2>1, PartsSame DEF TypeInv
<1>2. ASSUME NEW pids \in SUBSET enabled, SetFwdPorts(pids) PROVE TypeInv'
  <2>1. /\ UNCHANGED <<life, flags, records, device, globals, dcb, test_done, tags, qmap, mcast,
                       behind>>
        /\ fwd_ports' = pids /\ Change
    BY <1>2 DEF SetFwdPorts
  <2>2. SessionType'
    BY <2>1 DEF TypeInv, SessionType, LifeType
  <2> QED
    BY <2>1, <2>2, PartsSame DEF TypeInv, flags
<1>3. CASE StartForwarding
  <2>1. /\ UNCHANGED <<life, flags, dev_conf, q_conf, device, dcb, fwd_ports, tags, qmap, mcast,
                       changes>>
        /\ UNCHANGED <<nb_rxq, nb_txq, rx_mode, thresh>>
        /\ test_done' = 0 /\ MapStatsRegisters(fwd_ports)
    BY <1>3 DEF StartForwarding
  <2>2. SessionType' /\ GlobalType'
    BY <2>1, PartsSame DEF TypeInv, SessionType, globals
  <2>3. RecordType'
    BY <2>1 DEF TypeInv, RecordType, MapStatsRegisters, SessionType
  <2> QED
    BY <2>1, <2>2, <2>3, PartsSame DEF TypeInv, flags
<1>4. CASE StopForwarding
  <2>1. /\ UNCHANGED <<life, flags, records, device, globals, dcb, fwd_ports, tags, qmap, mcast,
                       changes>>
        /\ test_done' = 1
    BY <1>4 DEF StopForwarding
  <2>2. SessionType'
    BY <2>1 DEF TypeInv, SessionType
  <2> QED
    BY <2>1, <2>2, PartsSame DEF TypeInv, flags
<1> QED
  BY <1>1, <1>2, <1>3, <1>4, StepKinds, ConfigType, DcbStepType, PortsType, SidesType

-----------------------------------------------------------------------------
(* The tables stay consistent *)

(* Only a few steps write the tags. *)
LEMMA TagsStep ==
    ASSUME TypeInv, Tags, [Next]_vars
    PROVE  Tags'
<1>1. \/ UNCHANGED tags
      \/ \E p \in Port : TxVlanSet(p) \/ TxQinqSet(p) \/ TxVlanReset(p)
  <2>1. CASE UNCHANGED vars
    BY <2>1 DEF vars
  <2>2. CASE Ports
    BY <2>2 DEF Ports, StartPort, StartRefused, QueueSetupFails, NoMempool, StartFrame, StopPort,
                ClosePort, DetachPort, AttachPort, CreateBondedDevice, BondingSlave
  <2>3. CASE Sides
    <3>1. PICK p \in Port :
                UNCHANGED tags \/ TxVlanSet(p) \/ TxQinqSet(p) \/ TxVlanReset(p)
      BY <2>3, SidesEffects DEF McFrame
    <3> QED
      BY <3>1
  <2>4. CASE ~Ports /\ ~Sides /\ Next
    BY <2>4, StepKinds DEF ConfigAll, SettingForAll, ConfigSpeed, FdirSet, ConfigDcb,
       ConfigDcbFails, SetFwdPorts, StartForwarding, StopForwarding
  <2> QED
    BY <2>1, <2>2, <2>3, <2>4
<1>2. CASE UNCHANGED tags
  BY <1>2 DEF Tags, tags
<1>3. ASSUME NEW p \in Port, TxVlanSet(p) \/ TxQinqSet(p) \/ TxVlanReset(p) PROVE Tags'
  <2> tx_ol_flags \in [Port -> SUBSET {"INSERT_VLAN", "INSERT_QINQ"}]
    BY DEF TypeInv, TagType
  <2>1. CASE TxVlanSet(p)
    <3>1. /\ tx_ol_flags' = [tx_ol_flags EXCEPT ![p] = {"INSERT_VLAN"}]
          /\ tx_vlan_id_outer' = tx_vlan_id_outer \ {p}
      BY <2>1 DEF TxVlanSet
    <3> QED
      BY <3>1 DEF Tags
  <2>2. CASE TxQinqSet(p)
    <3>1. /\ tx_ol_flags' = [tx_ol_flags EXCEPT ![p] = {"INSERT_QINQ"}]
          /\ tx_vlan_id_outer' = tx_vlan_id_outer \cup {p}
      BY <2>2 DEF TxQinqSet
    <3> QED
      BY <3>1 DEF Tags
  <2>3. CASE TxVlanReset(p)
    <3>1. /\ tx_ol_flags' = [tx_ol_flags EXCEPT ![p] = {}]
          /\ tx_vlan_id_outer' = tx_vlan_id_outer \ {p}
      BY <2>3 DEF TxVlanReset
    <3> QED
      BY <3>1 DEF Tags
  <2> QED
    BY <1>3, <2>1, <2>2, <2>3
<1> QED
  BY <1>1, <1>2, <1>3

(* Mappings are enabled for ports of a table alone. *)
LEMMA MappingsStep ==
    ASSUME TypeInv, Mappings, [Next]_vars
    PROVE  Mappings'
<1>0. /\ mapping_enabled \in [Direction -> SUBSET Port] /\ qmap \in [Direction -> Seq(Entry)]
      /\ enabled \subseteq Port /\ fwd_ports \subseteq Port
  BY DEF TypeInv, RecordType, QmapType, LifeType, SessionType
<1>1. \/ UNCHANGED <<qmap, mapping_enabled>>
      \/ UNCHANGED qmap /\ \E pids \in SUBSET Port : MapStatsRegisters(pids)
      \/ /\ UNCHANGED mapping_enabled
         /\ \E p \in Port : \E d \in Direction : \E q \in QueueNums : SetQmap(d, p, q)
  <2>1. CASE UNCHANGED vars
    BY <2>1 DEF vars, records
  <2>2. CASE Ports
    <3>1. CASE \E p \in Port : \/ StartPort(p) \/ StartRefused(p)
                               \/ QueueSetupFails(p) \/ NoMempool(p)
                               \/ StopPort(p) \/ ClosePort(p) \/ DetachPort(p)
      BY <3>1 DEF StartPort, StartRefused, QueueSetupFails, NoMempool, StartFrame, StopPort,
                  ClosePort, DetachPort, records
    <3>2. CASE AttachPort
      <4>1. UNCHANGED qmap /\ enabled' = enabled \cup {FreePort} /\ Reconfig(FreePort, enabled')
            /\ enabled # Port
        BY <3>2 DEF AttachPort, FreePort
      <4> QED
        BY <1>0, <4>1, FreePortIs DEF Reconfig, InitPortConfig
    <3>3. CASE CreateBondedDevice
      <4>1. UNCHANGED qmap /\ Reconfig(FreePort, enabled)
        BY <3>3 DEF CreateBondedDevice, FreePort
      <4> QED
        BY <1>0, <4>1 DEF Reconfig, InitPortConfig
    <3>4. CASE \E p \in Port : \/ BondingSlave(p, slave_flag \cup {p})
                               \/ BondingSlave(p, slave_flag \ {p})
      BY <1>0, <3>4 DEF BondingSlave, InitPortConfig
    <3> QED
      BY <2>2, <3>1, <3>2, <3>3, <3>4 DEF Ports
  <2>3. CASE Sides
    <3>1. PICK p \in Port :
                \/ UNCHANGED <<mapping_enabled, qmap>>
                \/ /\ UNCHANGED mapping_enabled
                   /\ \E d \in Direction, q \in QueueNums : SetQmap(d, p, q)
      BY <2>3, SidesEffects DEF McFrame
    <3> QED
      BY <3>1
  <2>4. CASE ConfigAll
    BY <1>0, <2>4 DEF ConfigAll, SettingForAll, ForAllPorts, InitPortConfig
  <2>5. CASE \E p \in Port : \E vt \in BOOLEAN : ConfigDcb(p, vt) \/ ConfigDcbFails(p, vt)
    BY <1>0, <2>5 DEF ConfigDcb, ConfigDcbFails, records
  <2>6. CASE StartForwarding
    BY <1>0, <2>6 DEF StartForwarding
  <2>7. CASE \/ \E pids \in SUBSET enabled : \E s \in {"auto", "fixed"} : ConfigSpeed(pids, s)
             \/ \E p \in Port : \E f \in SUBSET FdirItems : FdirSet(p, f)
             \/ \E pids \in SUBSET enabled : SetFwdPorts(pids)
             \/ StopForwarding
    BY <2>7 DEF SettingForAll, ConfigSpeed, FdirSet, SetFwdPorts, StopForwarding, records
  <2> QED
    BY <2>1, <2>2, <2>3, <2>4, <2>5, <2>6, <2>7, StepKinds
<1>2. CASE UNCHANGED <<qmap, mapping_enabled>>
  BY <1>2 DEF Mappings
<1>3. ASSUME UNCHANGED qmap, NEW pids \in SUBSET Port, MapStatsRegisters(pids) PROVE Mappings'
  <2>1. ASSUME NEW d \in Direction, NEW p \in mapping_enabled'[d]
        PROVE  \E i \in DOMAIN qmap[d] : qmap[d][i].port = p
    <3>1. p \in mapping_enabled[d] \/ \E nb : Mapped(d, p, nb)
      BY <1>3 DEF MapStatsRegisters
    <3> QED
      BY <3>1 DEF Mappings, Mapped
  <2> QED
    BY <1>3, <2>1 DEF Mappings
<1>4. ASSUME UNCHANGED mapping_enabled, NEW p \in Port, NEW d \in Direction,
             NEW q \in QueueNums, SetQmap(d, p, q)
      PROVE  Mappings'
  <2> DEFINE e == [port |-> p, queue |-> q]
             t == IF e \in Range(qmap[d]) THEN qmap[d] ELSE Append(qmap[d], e)
  <2>1. qmap' = [qmap EXCEPT ![d] = t]
    BY <1>4 DEF SetQmap
  <2>2. e \in Entry /\ qmap[d] \in Seq(Entry)
    BY <1>0, EntryType
  <2> HIDE DEF e
  <2>3. /\ IsInjective(t) /\ DOMAIN qmap[d] \subseteq DOMAIN t
        /\ \A i \in DOMAIN qmap[d] : t[i] = qmap[d][i]
    <3>1. CASE e \in Range(qmap[d])
      BY <3>1 DEF Mappings
    <3>2. CASE e \notin Range(qmap[d])
      <4> DEFINE s == qmap[d]
                 u == Append(s, e)
      <4>1. IsInjective(u)
        BY <2>2, <3>2, InjectiveAppended DEF Mappings
      <4>2. /\ u \in Seq(Entry) /\ Len(u) = Len(s) + 1 /\ Len(s) \in Nat
            /\ \A i \in 1 .. Len(s) : u[i] = s[i]
            /\ DOMAIN s = 1 .. Len(s)
        BY <2>2, AppendProperties, LenProperties
      <4>3. t = u
        BY <3>2
      <4> HIDE DEF t, u
      <4>4. DOMAIN u = 1 .. Len(s) + 1
        BY <4>2, LenProperties
      <4> QED
        BY <4>1, <4>2, <4>3, <4>4
    <3> QED
      BY <3>1, <3>2
  <2> HIDE DEF t
  <2>4. ASSUME NEW c \in Direction
        PROVE  /\ IsInjective(qmap'[c])
               /\ \A r \in mapping_enabled[c] : \E i \in DOMAIN qmap'[c] : qmap'[c][i].port = r
    <3>1. CASE c = d
      <4>1. qmap'[c] = t
        BY <1>0, <2>1, <3>1
      <4> QED
        BY <2>3, <3>1, <4>1 DEF Mappings
    <3>2. CASE c # d
      <4>1. qmap'[c] = qmap[c]
        BY <1>0, <2>1, <3>2
      <4> QED
        BY <4>1 DEF Mappings
    <3> QED
      BY <3>1, <3>2
  <2> QED
    BY <1>4, <2>4 DEF Mappings
<1> QED
  BY <1>1, <1>2, <1>3, <1>4

LEMMA Multiple ==
    ASSUME NEW n \in Nat, NEW m \in Nat \ {0}, NEW k \in Nat, n = m * k
    PROVE  n % m = 0
OBVIOUS

LEMMA ChunkMore ==
    ASSUME NEW n \in Nat, NEW m \in Nat \ {0}, n % m = 0
    PROVE  (n + m) % m = 0
<1> DEFINE k == n \div m
<1>1. k \in Nat /\ n = m * k
  OBVIOUS
<1> HIDE DEF k
<1>2. n + m = m * (k + 1)
  BY <1>1
<1> QED
  BY <1>1, <1>2, Multiple

(* The pool of a port stays whole, and its device is told of it. *)
PoolOK(p) ==
    /\ Len(mc_addr_pool[p]) <= mc_capacity[p]
    /\ mc_capacity[p] % MCAST_POOL_INC = 0
    /\ mc_capacity[p] = 0 <=> mc_addr_pool[p] = <<>>
    /\ IsInjective(mc_addr_pool[p])

Filters(p) == p \in enabled \ unsynced => mc_filter[p] = Range(mc_addr_pool[p])

(* There is room for one more: a pool that is full consists of whole chunks. *)
LEMMA PoolExtended ==
    ASSUME NEW n \in Nat, NEW c \in Nat, n <= c, c % MCAST_POOL_INC = 0
    PROVE  /\ PoolExtend(n, c) \in Nat /\ n + 1 <= PoolExtend(n, c)
           /\ PoolExtend(n, c) % MCAST_POOL_INC = 0
<1> DEFINE d == PoolExtend(n, c)
<1>1. MCAST_POOL_INC \in Nat \ {0}
  BY SettingsAssumption DEF SettingsAssumption
<1>2. CASE n % MCAST_POOL_INC # 0
  <2>1. d = c
    BY <1>2, Zenon DEF PoolExtend
  <2>2. n # c
    BY <1>2, Zenon
  <2> HIDE DEF d
  <2>3. d \in Nat /\ n + 1 <= d
    BY <2>1, <2>2
  <2>4. d % MCAST_POOL_INC = 0
    BY <2>1, Zenon
  <2> QED
    BY <2>3, <2>4, Zenon DEF d
<1>3. CASE n % MCAST_POOL_INC = 0
  <2>1. d = n + MCAST_POOL_INC
    BY <1>3, Zenon DEF PoolExtend
  <2>2. (n + MCAST_POOL_INC) % MCAST_POOL_INC = 0
    BY <1>1, <1>3, ChunkMore, Zenon
  <2> HIDE DEF d
  <2>3. d \in Nat /\ n + 1 <= d
    BY <1>1, <2>1
  <2>4. d % MCAST_POOL_INC = 0
    BY <2>1, <2>2, Zenon
  <2> QED
    BY <2>3, <2>4, Zenon DEF d
<1> QED
  BY <1>2, <1>3

(* mcast_addr *)
LEMMA McastStep ==
    ASSUME TypeInv, Pools, NEW p \in Port, NEW a \in McAddrs,
           McastAdd(p, a) \/ McastRemove(p, a)
    PROVE  Pools'
<1> DEFINE pool == mc_addr_pool[p]
           cap == mc_capacity[p]
           new == mc_addr_pool'[p]
           room == mc_capacity'[p]
<1>0. /\ mc_addr_pool \in [Port -> Seq(McAddrs)] /\ mc_capacity \in [Port -> Nat]
      /\ mc_filter \in [Port -> SUBSET McAddrs]
  BY DEF TypeInv, McastType
<1>1. /\ pool \in Seq(McAddrs) /\ cap \in Nat /\ Len(pool) \in Nat
      /\ MCAST_POOL_INC \in Nat \ {0}
  BY <1>0, LenProperties, SettingsAssumption DEF SettingsAssumption
<1>2. /\ Len(pool) <= cap /\ cap % MCAST_POOL_INC = 0 /\ IsInjective(pool)
      /\ cap = 0 <=> pool = <<>>
  BY DEF Pools
<1>3. /\ \A q \in Port \ {p} : /\ mc_addr_pool'[q] = mc_addr_pool[q]
                               /\ mc_capacity'[q] = mc_capacity[q]
      /\ McListSet(p) /\ UNCHANGED enabled
  BY <1>0 DEF McastAdd, McastRemove, Aside, life
<1>4. \A q \in Port \ {p} : PoolOK(q)' /\ Filters(q)'
  <2>1. \A q \in Port \ {p} : /\ mc_filter'[q] = mc_filter[q]
                              /\ q \in unsynced' <=> q \in unsynced
    BY <1>0, <1>3 DEF McListSet
  <2> QED
    BY <1>3, <2>1 DEF Pools, PoolOK, Filters
<1>5. Filters(p)'
  BY <1>0, <1>3 DEF McListSet, Filters
<1>6. ASSUME McastAdd(p, a) PROVE PoolOK(p)'
  <2>1. /\ new = Append(pool, a) /\ room = PoolExtend(Len(pool), cap)
        /\ a \notin Range(pool)
    BY <1>0, <1>6 DEF McastAdd
  <2>2. IsInjective(new)
    BY <1>1, <1>2, <2>1, InjectiveAppended
  <2>3. Len(new) = Len(pool) + 1 /\ new # <<>>
    BY <1>1, <2>1, AppendProperties
  <2>4. room \in Nat /\ Len(pool) + 1 <= room /\ room % MCAST_POOL_INC = 0
    <3> DEFINE n == Len(pool)
               d == PoolExtend(n, cap)
    <3>1. n \in Nat /\ cap \in Nat /\ n <= cap /\ cap % MCAST_POOL_INC = 0
      BY <1>1, <1>2, Zenon
    <3>2. room = d
      BY <2>1, Zenon
    <3> HIDE DEF n, cap
    <3>3. d \in Nat /\ n + 1 <= d /\ d % MCAST_POOL_INC = 0
      BY ONLY <3>1, PoolExtended, Zenon
    <3> HIDE DEF d, room
    <3> QED
      BY <3>2, <3>3, Zenon DEF n
  <2> HIDE DEF new, room, pool, cap
  <2>5. Len(new) <= room /\ room # 0
    BY <1>1, <2>3, <2>4
  <2> QED
    BY <2>2, <2>3, <2>4, <2>5, Zenon DEF PoolOK, new, room
<1>7. ASSUME McastRemove(p, a) PROVE PoolOK(p)'
  <2>1. PICK i \in DOMAIN pool : new = Without(pool, i)
    BY <1>0, <1>7 DEF McastRemove, Without
  <2>2. room = IF new = <<>> THEN 0 ELSE cap
    BY <1>0, <1>7 DEF McastRemove
  <2>3. i \in 1 .. Len(pool)
    BY <1>1, <2>1, LenProperties
  <2>4. new \in Seq(McAddrs) /\ Len(new) = Len(pool) - 1
    BY <1>1, <2>1, <2>3, WithoutIs
  <2>5. IsInjective(new)
    BY <1>1, <1>2, <2>1, <2>3, WithoutInjective
  <2>6. new = <<>> => Len(new) = 0
    BY EmptySeq
  <2>7. pool # <<>>
    BY <1>1, <2>3, EmptySeq
  <2> HIDE DEF new, room, pool, cap
  <2>8. CASE new = <<>>
    <3>1. room = 0 /\ Len(new) <= room
      BY <2>2, <2>6, <2>8
    <3>2. 0 % MCAST_POOL_INC = 0
      BY <1>1
    <3>3. room % MCAST_POOL_INC = 0
      BY <3>1, <3>2, Zenon
    <3> QED
      BY <2>5, <2>8, <3>1, <3>3, Zenon DEF PoolOK, new, room
  <2>9. CASE new # <<>>
    <3>1. room = cap /\ Len(new) <= room /\ room # 0
      BY <1>1, <1>2, <2>2, <2>3, <2>4, <2>7, <2>9
    <3>2. room % MCAST_POOL_INC = 0
      BY <1>2, <3>1, Zenon
    <3> QED
      BY <2>5, <2>9, <3>1, <3>2, Zenon DEF PoolOK, new, room
  <2> QED
    BY <2>8, <2>9
<1>8. PoolOK(p)'
  BY <1>6, <1>7
<1> QED
  BY <1>4, <1>5, <1>8 DEF Pools, PoolOK, Filters

LEMMA PoolsStep ==
    ASSUME TypeInv, Pools, [Next]_vars
    PROVE  Pools'
<1>1. \/ UNCHANGED <<enabled, mcast>>
      \/ /\ UNCHANGED <<mc_addr_pool, mc_capacity>>
         /\ \E p \in Port : DetachPort(p)
      \/ AttachPort \/ CreateBondedDevice
      \/ \E p \in Port : \E a \in McAddrs : McastAdd(p, a) \/ McastRemove(p, a)
  <2>1. CASE UNCHANGED vars
    BY <2>1 DEF vars, life
  <2>2. CASE Ports
    BY <2>2 DEF Ports, StartPort, StartRefused, QueueSetupFails, NoMempool, StartFrame, StopPort,
                ClosePort, DetachPort, BondingSlave
  <2>3. CASE Sides
    <3>1. UNCHANGED enabled
      BY <2>3, SidesEffects DEF Aside, life
    <3>2. PICK p \in Port :
              \/ UNCHANGED mcast
              \/ \E a \in McAddrs : McastAdd(p, a) \/ McastRemove(p, a)
      BY <2>3, SidesEffects
    <3> QED
      BY <3>1, <3>2
  <2>4. CASE ~Ports /\ ~Sides /\ Next
    BY <2>4, StepKinds DEF ConfigAll, SettingForAll, ConfigSpeed, FdirSet, ConfigDcb,
       ConfigDcbFails, SetFwdPorts, StartForwarding, StopForwarding, life
  <2> QED
    BY <2>1, <2>2, <2>3, <2>4
<1>2. CASE UNCHANGED <<enabled, mcast>>
  BY <1>2 DEF Pools, mcast
<1>3. ASSUME NEW p \in Port, DetachPort(p) PROVE Pools'
  <2>1. /\ enabled' = enabled \ {p} /\ mc_filter' = [mc_filter EXCEPT ![p] = {}]
        /\ UNCHANGED <<mc_addr_pool, mc_capacity, unsynced>>
    BY <1>3 DEF DetachPort
  <2>2. \A q \in Port \ {p} : mc_filter'[q] = mc_filter[q]
    BY <2>1 DEF TypeInv, McastType
  <2> QED
    BY <2>1, <2>2 DEF Pools
<1>4. CASE AttachPort \/ CreateBondedDevice
  <2>1. /\ enabled' = enabled \cup {FreePort} /\ unsynced' = unsynced \cup {FreePort}
        /\ UNCHANGED <<mc_addr_pool, mc_capacity, mc_filter>>
    BY <1>4 DEF AttachPort, CreateBondedDevice, FreePort
  <2> QED
    BY <2>1 DEF Pools
<1> QED
  BY <1>1, <1>2, <1>3, <1>4, McastStep

LEMMA TableInit == Init => TableInv
<1> SUFFICES ASSUME Init PROVE TableInv
  OBVIOUS
<1>1. Tags
  BY DEF Init, Tags
<1>2. Mappings
  BY EmptyInjective DEF Init, Mappings
<1>3. Pools
  <2>1. 0 % MCAST_POOL_INC = 0
    BY SettingsAssumption DEF SettingsAssumption
  <2>2. Len(<<>>) = 0 /\ Range(<<>>) = {}
    BY RangeEmpty
  <2> QED
    BY <2>1, <2>2, EmptyInjective DEF Init, Pools
<1> QED
  BY <1>1, <1>2, <1>3, InitType DEF TableInv

LEMMA TableStep ==
    ASSUME TableInv, [Next]_vars
    PROVE  TableInv'
BY TypeStep, TagsStep, MappingsStep, PoolsStep DEF TableInv

LEMMA TableSafe == TableInv => TablesConsistent
<1> SUFFICES ASSUME TableInv PROVE TablesConsistent
  OBVIOUS
<1>1. ASSUME NEW p \in Port
      PROVE  /\ Cardinality(tx_ol_flags[p]) <= 1
             /\ p \in tx_vlan_id_outer <=> "INSERT_QINQ" \in tx_ol_flags[p]
  <2>1. tx_ol_flags[p] = {} \/ \E x : tx_ol_flags[p] = {x}
    BY DEF TableInv, Tags
  <2>2. Cardinality(tx_ol_flags[p]) = 0 \/ Cardinality(tx_ol_flags[p]) = 1
    BY <2>1, FS_EmptySet, FS_Singleton, Zenon
  <2>3. Cardinality(tx_ol_flags[p]) <= 1
    BY <2>2
  <2> QED
    BY <2>3 DEF TableInv, Tags
<1> QED
  BY <1>1, TypeIs DEF TableInv, Mappings, Pools, TablesConsistent

(***************************************************************************)
(* The tables the commands keep on the side (tx_ol_flags and               *)
(* tx_vlan_id_outer of a port, the queue statistics mappings, the pool of  *)
(* multicast addresses of mcast_addr_pool_extend) stay consistent over     *)
(* every sequence of commands, and every variable keeps its type.          *)
(***************************************************************************)
THEOREM TablesStayConsistent == Spec => []TablesConsistent
<1>1. Init => TableInv
  BY TableInit
<1>2. TableInv /\ [Next]_vars => TableInv'
  BY TableStep
<1>3. TableInv => TablesConsistent
  BY TableSafe
<1> QED
  BY <1>1, <1>2, <1>3, PTL DEF Spec

-----------------------------------------------------------------------------
(* The flags tell start_port all it has to do *)

(* What a port's flags promise *)
Told(p) ==
    /\ p \in need_reconfig => p \in need_reconfig_queues
    /\ p \notin untold =>
          /\ p \notin need_reconfig => device[p].conf = dev_conf[p]
          /\ p \notin need_reconfig_queues =>
                port_status[p] = "handling" \/ device[p].queues = q_conf[p]

LEMMA FlagsAre == FlagsCover <=> \A p \in enabled : Told(p)
BY DEF FlagsCover, Told

LEMMA FlagsAreNext == FlagsCover' <=> \A p \in enabled' : Told(p)'
BY DEF FlagsCover, Told

(* Of a port that a step does nothing to *)
Spared(p) ==
    /\ p \in need_reconfig' <=> p \in need_reconfig
    /\ p \in need_reconfig_queues' <=> p \in need_reconfig_queues
    /\ p \in untold => p \in untold'
    /\ port_status[p] = "handling" => port_status'[p] = "handling"
    /\ device'[p].conf = device[p].conf /\ device'[p].queues = device[p].queues
    /\ p \notin untold' => dev_conf'[p] = dev_conf[p] /\ q_conf'[p] = q_conf[p]

LEMMA ToldStill ==
    ASSUME NEW p, Told(p), Spared(p)
    PROVE  Told(p)'
BY DEF Told, Spared

LEMMA ToldAnew ==
    ASSUME NEW p, p \in need_reconfig', p \in need_reconfig_queues'
    PROVE  Told(p)'
BY DEF Told

(* The commands *)
LEMMA FlagsConfig ==
    ASSUME TypeInv, FlagsCover,
           \/ ConfigAll
           \/ \E pids \in SUBSET enabled : \E s \in {"auto", "fixed"} : ConfigSpeed(pids, s)
           \/ \E p \in Port : \E f \in SUBSET FdirItems : FdirSet(p, f)
           \/ \E p \in Port : \E vt \in BOOLEAN : ConfigDcb(p, vt) \/ ConfigDcbFails(p, vt)
    PROVE  FlagsCover'
<1>0. /\ enabled \subseteq Port /\ dev_conf \in [Port -> ConfType] /\ q_conf \in [Port -> QConfs]
      /\ device \in [Port -> DeviceType]
  BY DEF TypeInv, LifeType, RecordType, DevicesType
<1>1. CASE \/ ConfigAll
           \/ \E pids \in SUBSET enabled : \E s \in {"auto", "fixed"} : ConfigSpeed(pids, s)
  <2>1. UNCHANGED enabled /\ ReconfigDeviceQueue(enabled)
    BY <1>1 DEF ConfigAll, ConfigSpeed, SettingForAll, ForAllPorts, life
  <2>2. \A p \in enabled : p \in need_reconfig' /\ p \in need_reconfig_queues'
    BY <2>1 DEF ReconfigDeviceQueue
  <2> QED
    BY <2>1, <2>2, ToldAnew, FlagsAreNext
<1>2. ASSUME NEW p \in Port, NEW pids \in SUBSET {p}, ReconfigDeviceQueue(pids),
             UNCHANGED <<enabled, port_status>>, p \in enabled => p \in pids,
             \A q \in Port \ {p} : /\ device'[q] = device[q] /\ dev_conf'[q] = dev_conf[q]
                                   /\ q_conf'[q] = q_conf[q]
      PROVE  FlagsCover'
  <2>1. ASSUME NEW q \in enabled PROVE Told(q)'
    <3>1. CASE q = p
      BY <1>2, <3>1, ToldAnew DEF ReconfigDeviceQueue
    <3>2. CASE q # p
      <4>1. Spared(q)
        BY <1>0, <1>2, <3>2 DEF ReconfigDeviceQueue, Spared
      <4> QED
        BY <4>1, ToldStill, FlagsAre
    <3> QED
      BY <3>1, <3>2
  <2> QED
    BY <1>2, <2>1, FlagsAreNext
<1>3. ASSUME NEW p \in Port, NEW f \in SUBSET FdirItems, FdirSet(p, f) PROVE FlagsCover'
  <2>1. /\ UNCHANGED <<enabled, port_status, device, q_conf>>
        /\ ReconfigDeviceQueue({p} \cap enabled)
        /\ \A q \in Port \ {p} : dev_conf'[q] = dev_conf[q]
    BY <1>0, <1>3 DEF FdirSet, life
  <2> QED
    BY <1>2, <2>1
<1>4. ASSUME NEW p \in Port, NEW vt \in BOOLEAN, ConfigDcb(p, vt) PROVE FlagsCover'
  <2>1. /\ UNCHANGED <<enabled, port_status>> /\ ReconfigDeviceQueue({p} \cap enabled)
        /\ \A q \in Port \ {p} : dev_conf'[q] = dev_conf[q] /\ q_conf'[q] = q_conf[q]
    BY <1>0, <1>4 DEF ConfigDcb, life
  <2>2. \A q \in Port \ {p} : device'[q] = device[q]
    BY <1>0, <1>4 DEF ConfigDcb, DcbConfigures
  <2> QED
    BY <1>2, <2>1, <2>2
<1>5. ASSUME NEW p \in Port, NEW vt \in BOOLEAN, ConfigDcbFails(p, vt) PROVE FlagsCover'
  <2>1. UNCHANGED <<enabled, port_status, need_reconfig, need_reconfig_queues, dev_conf, q_conf>>
    BY <1>5 DEF ConfigDcbFails, life, records
  <2>2. \/ UNCHANGED <<device, untold>>
        \/ DcbConfigures(p, vt) /\ untold' = untold \cup {p}
    BY <1>5 DEF ConfigDcbFails
  <2>3. CASE UNCHANGED <<device, untold>>
    BY <2>1, <2>3 DEF FlagsCover
  <2>4. CASE DcbConfigures(p, vt) /\ untold' = untold \cup {p}
    <3>1. \A q \in Port \ {p} : device'[q] = device[q]
      BY <1>0, <2>4 DEF DcbConfigures
    <3> QED
      BY <1>0, <2>1, <2>4, <3>1 DEF FlagsCover
  <2> QED
    BY <2>2, <2>3, <2>4
<1> QED
  BY <1>1, <1>3, <1>4, <1>5

(* start_port, whatever fails *)
LEMMA FlagsStart ==
    ASSUME TypeInv, FlagsCover, NEW p \in Port,
           StartPort(p) \/ QueueSetupFails(p) \/ NoMempool(p)
    PROVE  FlagsCover'
<1>0. /\ enabled \subseteq Port /\ device \in [Port -> DeviceType]
      /\ port_status \in [Port -> Status]
  BY DEF TypeInv, LifeType, DevicesType
<1> DEFINE c == Configured(p)
           u == SetUp(p)
           e == [c EXCEPT !.queues = "none"]
<1>1. /\ StartTries(p) /\ need_reconfig' = need_reconfig \ {p} /\ p \in enabled
      /\ UNCHANGED <<enabled, untold, dev_conf, q_conf>>
  BY DEF StartPort, QueueSetupFails, NoMempool, StartTries, StartFrame, records
<1>2. \/ /\ need_reconfig_queues' = need_reconfig_queues \ {p}
         /\ device' = [device EXCEPT ![p] = u]
      \/ /\ p \in need_reconfig_queues /\ device' = [device EXCEPT ![p] = e]
         /\ \/ UNCHANGED need_reconfig_queues
            \/ /\ need_reconfig_queues' = need_reconfig_queues \ {p}
               /\ port_status' = [port_status EXCEPT ![p] = "handling"]
  BY DEF StartPort, QueueSetupFails, NoMempool
<1>3. /\ c \in DeviceType /\ u \in DeviceType /\ e \in DeviceType /\ u.conf = c.conf
      /\ u.queues = IF p \in need_reconfig_queues THEN q_conf[p] ELSE c.queues
  BY <1>1, ConfiguredType
<1>4. /\ p \in need_reconfig => c.conf = dev_conf[p]
      /\ p \notin need_reconfig => c = device[p]
  BY DEF Configured
<1> HIDE DEF c, u
<1>5. e.conf = c.conf
  BY <1>3 DEF DeviceType
<1> HIDE DEF e
<1>6. Told(p)
  BY <1>1, FlagsAre
<1>9. /\ port_status[p] = "stopped"
      /\ \A q \in Port \ {p} : port_status'[q] = port_status[q]
  BY <1>0, <1>1 DEF StartTries, StartPort, QueueSetupFails, NoMempool
<1>7. Told(p)'
  <2>1. CASE /\ need_reconfig_queues' = need_reconfig_queues \ {p}
             /\ device' = [device EXCEPT ![p] = u]
    <3>1. device'[p] = u
      BY <1>0, <2>1
    <3> QED
      BY <1>1, <1>3, <1>4, <1>6, <1>9, <2>1, <3>1 DEF Told
  <2>2. CASE /\ p \in need_reconfig_queues /\ device' = [device EXCEPT ![p] = e]
             /\ \/ UNCHANGED need_reconfig_queues
                \/ /\ need_reconfig_queues' = need_reconfig_queues \ {p}
                   /\ port_status' = [port_status EXCEPT ![p] = "handling"]
    <3>1. device'[p] = e /\ (UNCHANGED need_reconfig_queues \/ port_status'[p] = "handling")
      BY <1>0, <2>2
    <3> QED
      BY <1>1, <1>4, <1>5, <1>6, <2>2, <3>1 DEF Told
  <2> QED
    BY <1>2, <2>1, <2>2
<1>8. ASSUME NEW q \in enabled \ {p} PROVE Told(q)'
  <2>1. device'[q] = device[q]
    BY <1>0, <1>2
  <2>2. Spared(q)
    BY <1>0, <1>1, <1>2, <1>9, <2>1 DEF Spared
  <2> QED
    BY <2>2, ToldStill, FlagsAre
<1> QED
  BY <1>1, <1>7, <1>8, FlagsAreNext

(* reconfig leaves the other ports as they were, or counts them as untold. *)
LEMMA FlagsReconfig ==
    ASSUME TypeInv, FlagsCover, NEW p \in Port, NEW pids, Reconfig(p, pids),
           enabled' = enabled \cup {p}, UNCHANGED device,
           \A q \in Port \ {p} : port_status'[q] = port_status[q]
    PROVE  FlagsCover'
<1>0. /\ need_reconfig' = need_reconfig \cup {p}
      /\ need_reconfig_queues' = need_reconfig_queues \cup {p}
      /\ untold' = (untold \cup Rewritten) \ {p}
      /\ enabled \subseteq Port
  BY DEF Reconfig, TypeInv, LifeType
<1>1. Told(p)'
  BY <1>0, ToldAnew
<1>2. ASSUME NEW q \in enabled \ {p} PROVE Told(q)'
  <2>1. Spared(q)
    BY <1>0 DEF Spared, Rewritten
  <2> QED
    BY <2>1, ToldStill, FlagsAre
<1> QED
  BY <1>1, <1>2, FlagsAreNext

LEMMA FlagsPorts ==
    ASSUME TypeInv, FlagsCover, Ports
    PROVE  FlagsCover'
<1>0. /\ enabled \subseteq Port /\ device \in [Port -> DeviceType]
      /\ port_status \in [Port -> Status]
  BY DEF TypeInv, LifeType, DevicesType
<1>1. ASSUME NEW p \in Port, StartRefused(p) \/ StopPort(p) \/ ClosePort(p) PROVE FlagsCover'
  <2>1. UNCHANGED <<enabled, need_reconfig, need_reconfig_queues, untold, dev_conf, q_conf,
                    device>>
    BY <1>1 DEF StartRefused, StartFrame, StopPort, ClosePort, flags, records
  <2>2. \/ UNCHANGED port_status
        \/ /\ port_status[p] # "handling"
           /\ \E s \in Status : port_status' = [port_status EXCEPT ![p] = s]
    BY <1>1 DEF StartRefused, StopPort, ClosePort, Status
  <2>3. \A q \in enabled : port_status[q] = "handling" => port_status'[q] = "handling"
    BY <1>0, <2>2
  <2> QED
    BY <2>1, <2>3 DEF FlagsCover
<1>2. ASSUME NEW p \in Port, DetachPort(p) PROVE FlagsCover'
  <2>1. /\ UNCHANGED <<need_reconfig, need_reconfig_queues, untold, dev_conf, q_conf,
                       port_status>>
        /\ enabled' = enabled \ {p} /\ \A q \in Port \ {p} : device'[q] = device[q]
    BY <1>0, <1>2 DEF DetachPort, flags, records
  <2> QED
    BY <1>0, <2>1 DEF FlagsCover
<1>3. CASE AttachPort
  <2>1. /\ enabled' = enabled \cup {FreePort} /\ Reconfig(FreePort, enabled') /\ enabled # Port
        /\ UNCHANGED device /\ \A q \in Port \ {FreePort} : port_status'[q] = port_status[q]
    BY <1>0, <1>3 DEF AttachPort, FreePort
  <2> QED
    BY <1>0, <2>1, FreePortIs, FlagsReconfig
<1>4. CASE CreateBondedDevice
  <2>1. /\ enabled' = enabled \cup {FreePort} /\ Reconfig(FreePort, enabled) /\ enabled # Port
        /\ UNCHANGED <<device, port_status>>
    BY <1>4 DEF CreateBondedDevice, FreePort
  <2> QED
    BY <1>0, <2>1, FreePortIs, FlagsReconfig
<1>5. ASSUME NEW p \in Port, NEW slaves, BondingSlave(p, slaves) PROVE FlagsCover'
  <2>1. /\ UNCHANGED <<enabled, port_status, need_reconfig, need_reconfig_queues, device>>
        /\ untold' = untold \cup Rewritten \cup {p}
    BY <1>5 DEF BondingSlave
  <2>2. \A q \in enabled : Spared(q)
    BY <1>0, <2>1 DEF Spared, Rewritten
  <2> QED
    BY <2>1, <2>2, ToldStill, FlagsAre, FlagsAreNext
<1> QED
  BY <1>1, <1>2, <1>3, <1>4, <1>5, FlagsStart DEF Ports

LEMMA FlagsStep ==
    ASSUME TypeInv, FlagsCover, [Next]_vars
    PROVE  FlagsCover'
<1>1. CASE UNCHANGED vars
  <2>1. UNCHANGED <<enabled, port_status, need_reconfig, need_reconfig_queues, untold,
                    dev_conf, q_conf, device>>
    BY <1>1 DEF vars, life, flags, records
  <2> QED
    BY <2>1 DEF FlagsCover
<1>2. CASE \/ \E pids \in SUBSET enabled : SetFwdPorts(pids)
           \/ StartForwarding \/ StopForwarding
  <2>1. UNCHANGED <<enabled, port_status, need_reconfig, need_reconfig_queues, untold,
                    dev_conf, q_conf, device>>
    BY <1>2 DEF SetFwdPorts, StartForwarding, StopForwarding, life, flags, records
  <2> QED
    BY <2>1 DEF FlagsCover
<1>3. CASE Sides
  <2>1. UNCHANGED <<enabled, port_status, need_reconfig, need_reconfig_queues, untold,
                    dev_conf, q_conf>>
    BY <1>3, SidesEffects DEF Aside, life, flags
  <2>2. /\ enabled \subseteq Port /\ device \in [Port -> DeviceType]
    BY DEF TypeInv, LifeType, DevicesType
  <2>3. PICK p \in Port :
            \/ UNCHANGED device
            \/ \E on \in BOOLEAN : device' = [device EXCEPT ![p].extend = on]
    BY <1>3, SidesEffects DEF McFrame
  <2>4. \A q \in Port : /\ device'[q].conf = device[q].conf
                        /\ device'[q].queues = device[q].queues
    <3>1. CASE UNCHANGED device
      BY <3>1
    <3>2. ASSUME NEW on \in BOOLEAN, device' = [device EXCEPT ![p].extend = on]
          PROVE  \A q \in Port : /\ device'[q].conf = device[q].conf
                                 /\ device'[q].queues = device[q].queues
      <4>1. device[p] \in DeviceType
        BY <2>2
      <4>2. /\ [device[p] EXCEPT !.extend = on].conf = device[p].conf
            /\ [device[p] EXCEPT !.extend = on].queues = device[p].queues
        BY <4>1 DEF DeviceType
      <4>3. device' = [device EXCEPT ![p] = [device[p] EXCEPT !.extend = on]]
        BY <2>2, <3>2
      <4> QED
        BY <2>2, <4>2, <4>3
    <3> QED
      BY <2>3, <3>1, <3>2
  <2> QED
    BY <2>1, <2>2, <2>4 DEF FlagsCover
<1> QED
  BY <1>1, <1>2, <1>3, StepKinds, FlagsConfig, FlagsPorts

(***************************************************************************)
(* The flags need_reconfig and need_reconfig_queues tell start_port all it *)
(* has to do, after any commands and any failures of theirs.               *)
(***************************************************************************)
THEOREM FlagsTellStart == Spec => []FlagsCover
<1>1. Init => TypeInv /\ FlagsCover
  <2>1. Init => FlagsCover
    BY SettingsAssumption DEF Init, FlagsCover, SettingsAssumption
  <2> QED
    BY <2>1, InitType
<1>2. TypeInv /\ FlagsCover /\ [Next]_vars => (TypeInv /\ FlagsCover)'
  BY TypeStep, FlagsStep
<1> QED
  BY <1>1, <1>2, PTL DEF Spec

-----------------------------------------------------------------------------
(* A started port runs with the settings shown *)

(* Of a port whose settings a step leaves alone, or asks for once more *)
Kept(p) ==
    /\ p \in Fresh' => p \in Fresh
    /\ dev_conf'[p].rxmode = dev_conf[p].rxmode /\ dev_conf'[p].mq = dev_conf[p].mq
    /\ q_conf'[p] = q_conf[p]
    /\ device'[p].conf = device[p].conf /\ device'[p].queues = device[p].queues
    /\ device'[p].rx = device[p].rx /\ device'[p].tx = device[p].tx
    /\ port_status'[p] = "started" => port_status[p] = "started"
    /\ p \in need_reconfig => p \in need_reconfig'
    /\ p \in need_reconfig_queues => p \in need_reconfig_queues'

LEMMA KeptShown ==
    ASSUME Shown, NEW p \in Fresh', Kept(p), UNCHANGED globals
    PROVE  RecordShown(p)' /\ DeviceShown(p)'
<1> USE DEF globals
<1>1. RecordShown(p) /\ DeviceShown(p)
  BY DEF Shown, Kept
<1>2. RecordShown(p)'
  BY <1>1 DEF RecordShown, Written, RunsWith, Kept, RxMq
<1>3. DeviceShown(p)'
  BY <1>1 DEF DeviceShown, RunsWith, Kept, RxMq
<1> QED
  BY <1>2, <1>3

(* What init_port_config writes is what is shown. *)
LEMMA WrittenShown ==
    ASSUME TypeInv, NEW p \in Port, NEW pids, InitPortConfig(pids), p \in pids, p \notin dcb_flag,
           rx_mode' \in RxModes
    PROVE  RecordShown(p)' /\ Written(p)'
<1>1. dev_conf'[p] = InitedConf(p) /\ q_conf'[p] = thresh' /\ dev_conf[p] \in ConfType
  BY DEF InitPortConfig, TypeInv, RecordType
<1>2. InitedConf(p).rxmode = rx_mode' /\ InitedConf(p).mq = RxMq(nb_rxq')
  BY <1>1 DEF InitedConf, ConfType
<1>3. rx_mode' # "zero"
  BY SettingsAssumption DEF SettingsAssumption
<1> QED
  BY <1>1, <1>2, <1>3 DEF RecordShown, Written, RxMq

LEMMA AbsentStill ==
    ASSUME Absent, UNCHANGED <<enabled, port_status>>,
           \A p \in Port \ enabled :
              /\ device'[p] = device[p]
              /\ dev_conf'[p] = dev_conf[p] \/ p \in dcb_flag'
              /\ p \in dcb_flag => p \in dcb_flag'
    PROVE  Absent'
BY DEF Absent

(* The commands *)
LEMMA ShownConfig ==
    ASSUME TypeInv, SettingInv,
           \/ ConfigAll
           \/ \E pids \in SUBSET enabled : \E s \in {"auto", "fixed"} : ConfigSpeed(pids, s)
           \/ \E p \in Port : \E f \in SUBSET FdirItems : FdirSet(p, f)
           \/ \E p \in Port : \E vt \in BOOLEAN : ConfigDcb(p, vt) \/ ConfigDcbFails(p, vt)
    PROVE  SettingInv'
<1>0. /\ enabled \subseteq Port /\ dev_conf \in [Port -> ConfType] /\ q_conf \in [Port -> QConfs]
      /\ device \in [Port -> DeviceType] /\ Absent /\ Shown
  BY DEF TypeInv, LifeType, RecordType, DevicesType, SettingInv
<1>1. CASE ConfigAll
  <2>1. /\ UNCHANGED <<enabled, port_status, slave_flag, device, dcb_flag>> /\ AllPortsStopped
        /\ InitPortConfig(enabled) /\ ReconfigDeviceQueue(enabled) /\ behind' = PassedBy
        /\ rx_mode' \in RxModes
    BY <1>1 DEF ConfigAll, SettingForAll, ForAllPorts, life, dcb
  <2>2. Absent'
    BY <1>0, <2>1, AbsentStill DEF InitPortConfig
  <2>3. ASSUME NEW p \in Fresh' PROVE RecordShown(p)' /\ DeviceShown(p)'
    <3>1. /\ p \in enabled /\ p \notin dcb_flag /\ port_status'[p] = "stopped"
          /\ p \in need_reconfig' /\ p \in need_reconfig_queues'
      BY <2>1 DEF Fresh, PassedBy, AllPortsStopped, ReconfigDeviceQueue
    <3>2. RecordShown(p)'
      BY <1>0, <2>1, <3>1, WrittenShown
    <3>3. DeviceShown(p)'
      BY <3>1 DEF DeviceShown
    <3> QED
      BY <3>2, <3>3
  <2> QED
    BY <2>2, <2>3 DEF SettingInv, Shown
<1>2. ASSUME NEW pids \in SUBSET enabled, NEW s \in {"auto", "fixed"}, ConfigSpeed(pids, s)
      PROVE  SettingInv'
  <2>1. /\ UNCHANGED <<enabled, port_status, device, dcb_flag, q_conf, globals, behind>>
        /\ need_reconfig \subseteq need_reconfig'
        /\ need_reconfig_queues \subseteq need_reconfig_queues'
        /\ dev_conf' = [p \in Port |-> IF p \in pids THEN [dev_conf[p] EXCEPT !.speed = s]
                                       ELSE dev_conf[p]]
    BY <1>2 DEF ConfigSpeed, SettingForAll, ReconfigDeviceQueue, life, dcb
  <2>2. Absent'
    BY <1>0, <2>1, AbsentStill
  <2>3. ASSUME NEW p \in Fresh' PROVE Kept(p)
    <3>1. p \in Fresh /\ p \in Port
      BY <1>0, <2>1 DEF Fresh
    <3>2. dev_conf'[p].rxmode = dev_conf[p].rxmode /\ dev_conf'[p].mq = dev_conf[p].mq
      BY <1>0, <2>1, <3>1 DEF ConfType
    <3> QED
      BY <2>1, <3>1, <3>2 DEF Kept
  <2> QED
    BY <1>0, <2>1, <2>2, <2>3, KeptShown DEF SettingInv, Shown
<1>3. ASSUME NEW p \in Port, NEW f \in SUBSET FdirItems, FdirSet(p, f) PROVE SettingInv'
  <2>1. /\ UNCHANGED <<enabled, port_status, device, dcb_flag, q_conf, globals, behind>>
        /\ need_reconfig \subseteq need_reconfig'
        /\ need_reconfig_queues \subseteq need_reconfig_queues'
        /\ dev_conf' = [dev_conf EXCEPT ![p] = [dev_conf[p] EXCEPT !.fdir = f]]
    BY <1>0, <1>3 DEF FdirSet, ReconfigDeviceQueue, life, dcb
  <2>2. \A q \in Port : dev_conf'[q].rxmode = dev_conf[q].rxmode
                        /\ dev_conf'[q].mq = dev_conf[q].mq
    BY <1>0, <2>1 DEF ConfType
  <2>3. Absent'
    BY <1>0, <2>1, <2>2 DEF Absent
  <2>4. ASSUME NEW q \in Fresh' PROVE Kept(q)
    <3>1. q \in Fresh /\ q \in Port
      BY <1>0, <2>1 DEF Fresh
    <3> QED
      BY <2>1, <2>2, <3>1 DEF Kept
  <2> QED
    BY <1>0, <2>1, <2>3, <2>4, KeptShown DEF SettingInv, Shown
<1>4. ASSUME NEW p \in Port, NEW vt \in BOOLEAN, ConfigDcb(p, vt) PROVE SettingInv'
  <2>1. /\ UNCHANGED <<enabled, port_status>> /\ behind' = behind \cup enabled
        /\ dcb_flag' = dcb_flag \cup {p}
        /\ \A q \in Port \ {p} : dev_conf'[q] = dev_conf[q]
    BY <1>0, <1>4 DEF ConfigDcb, life
  <2>2. \A q \in Port \ enabled : device'[q] = device[q]
    BY <1>0, <1>4 DEF ConfigDcb, DcbConfigures
  <2>3. Absent'
    BY <1>0, <2>1, <2>2, AbsentStill
  <2>4. Fresh' = {}
    BY <2>1 DEF Fresh
  <2> QED
    BY <2>3, <2>4 DEF SettingInv, Shown
<1>5. ASSUME NEW p \in Port, NEW vt \in BOOLEAN, ConfigDcbFails(p, vt) PROVE SettingInv'
  <2>1. UNCHANGED <<enabled, port_status, need_reconfig, need_reconfig_queues, dev_conf, q_conf,
                    globals, dcb_flag>>
    BY <1>5 DEF ConfigDcbFails, life, records
  <2>2. \/ UNCHANGED <<device, behind>>
        \/ /\ p \in enabled /\ behind' = behind \cup {p}
           /\ UNCHANGED device \/ DcbConfigures(p, vt)
    BY <1>5 DEF ConfigDcbFails
  <2>3. \A q \in Port : q # p \/ p \notin behind' \/ q \notin enabled => device'[q] = device[q]
    BY <1>0, <2>2 DEF DcbConfigures
  <2>4. Absent'
    BY <1>0, <2>1, <2>3, AbsentStill
  <2>5. ASSUME NEW q \in Fresh' PROVE Kept(q)
    <3>1. q \in Fresh /\ q \in Port /\ q \notin behind'
      BY <1>0, <2>1, <2>2 DEF Fresh
    <3>2. device'[q] = device[q]
      BY <2>3, <3>1
    <3> QED
      BY <2>1, <3>1, <3>2 DEF Kept
  <2> QED
    BY <1>0, <2>1, <2>4, <2>5, KeptShown DEF SettingInv, Shown
<1> QED
  BY <1>1, <1>2, <1>3, <1>4, <1>5

(* start_port, whatever fails *)
LEMMA ShownStart ==
    ASSUME TypeInv, FlagsCover, SettingInv, NEW p \in Port,
           StartPort(p) \/ QueueSetupFails(p) \/ NoMempool(p)
    PROVE  SettingInv'
<1>0. /\ enabled \subseteq Port /\ device \in [Port -> DeviceType] /\ Absent /\ Shown
      /\ port_status \in [Port -> Status] /\ dev_conf[p] \in ConfType
  BY DEF TypeInv, LifeType, DevicesType, RecordType, SettingInv
<1> DEFINE c == Configured(p)
           u == SetUp(p)
           e == [c EXCEPT !.queues = "none"]
<1>1. /\ StartTries(p) /\ need_reconfig' = need_reconfig \ {p}
      /\ p \in enabled /\ port_status[p] = "stopped"
      /\ UNCHANGED <<enabled, dev_conf, q_conf, globals, dcb_flag, behind>>
  BY DEF StartPort, QueueSetupFails, NoMempool, StartTries, StartFrame, records
<1>2. \/ /\ need_reconfig_queues' = need_reconfig_queues \ {p}
         /\ device' = [device EXCEPT ![p] = u]
         /\ port_status' \in {port_status, [port_status EXCEPT ![p] = "started"]}
      \/ /\ p \in need_reconfig_queues /\ device' = [device EXCEPT ![p] = e]
         /\ \/ UNCHANGED <<need_reconfig_queues, port_status>>
            \/ /\ need_reconfig_queues' = need_reconfig_queues \ {p}
               /\ port_status' = [port_status EXCEPT ![p] = "handling"]
  BY DEF StartPort, QueueSetupFails, NoMempool
<1>3. /\ c \in DeviceType /\ u \in DeviceType /\ e \in DeviceType
      /\ u.conf = c.conf /\ u.rx = c.rx /\ u.tx = c.tx
      /\ u.queues = IF p \in need_reconfig_queues THEN q_conf[p] ELSE c.queues
  BY <1>1, ConfiguredType
<1>4. /\ p \in need_reconfig => c.conf = dev_conf[p] /\ c.rx = nb_rxq /\ c.tx = nb_txq
      /\ p \notin need_reconfig => c = device[p]
  BY DEF Configured
<1> HIDE DEF c, u
<1>5. e.conf = c.conf /\ e.rx = c.rx /\ e.tx = c.tx
  BY <1>3 DEF DeviceType
<1> HIDE DEF e
<1>6. \A q \in Port \ {p} : device'[q] = device[q] /\ port_status'[q] = port_status[q]
  BY <1>0, <1>2
<1>7. Absent'
  BY <1>0, <1>1, <1>6 DEF Absent
<1>8. ASSUME NEW q \in Fresh', q # p PROVE RecordShown(q)' /\ DeviceShown(q)'
  <2>1. q \in Fresh /\ q \in Port
    BY <1>0, <1>1, <1>6, <1>8 DEF Fresh
  <2>2. Kept(q)
    BY <1>1, <1>2, <1>6, <1>8, <2>1 DEF Kept
  <2> QED
    BY <1>0, <1>1, <2>2, KeptShown
<1>9. ASSUME p \in Fresh' PROVE RecordShown(p)' /\ DeviceShown(p)'
  <2>1. p \in Fresh /\ RecordShown(p) /\ DeviceShown(p)
    BY <1>0, <1>1, <1>9 DEF Fresh, Shown
  <2>2. p \in need_reconfig => p \in need_reconfig_queues
    BY <1>1 DEF FlagsCover
  <2>3. /\ device'[p].conf = c.conf /\ device'[p].rx = c.rx /\ device'[p].tx = c.tx
    BY <1>0, <1>2, <1>3, <1>5
  <2>4. c.conf.rxmode # "zero" =>
           /\ Written(p)
           /\ c.conf.rxmode = rx_mode /\ c.conf.mq = RxMq(nb_rxq)
           /\ c.rx = nb_rxq /\ c.tx = nb_txq
    BY <1>4, <2>1 DEF RecordShown, DeviceShown, Written, RunsWith
  <2>5. RecordShown(p)'
    BY <1>1, <2>1, <2>3, <2>4 DEF RecordShown, Written, RunsWith, globals, RxMq
  <2>6. CASE /\ need_reconfig_queues' = need_reconfig_queues \ {p}
             /\ device' = [device EXCEPT ![p] = u]
    <3>1. device'[p].queues = u.queues
      BY <1>0, <2>6
    <3>2. c.conf.rxmode # "zero" => u.queues = thresh
      BY <1>3, <1>4, <2>1, <2>2, <2>4 DEF RecordShown, DeviceShown, RunsWith
    <3> QED
      BY <1>1, <2>3, <2>4, <2>5, <3>1, <3>2 DEF DeviceShown, RunsWith, globals, RxMq
  <2>7. CASE p \in need_reconfig_queues /\ UNCHANGED <<need_reconfig_queues, port_status>>
    BY <1>1, <2>3, <2>4, <2>5, <2>7 DEF DeviceShown, RunsWith, globals, RxMq
  <2>8. CASE port_status' = [port_status EXCEPT ![p] = "handling"]
    BY <1>0, <1>9, <2>8 DEF Fresh
  <2> QED
    BY <1>2, <2>6, <2>7, <2>8
<1> QED
  BY <1>7, <1>8, <1>9 DEF SettingInv, Shown

(* attach_port, create bonded device: the other ports keep theirs, or are  *)
(* written what is shown.                                                  *)
LEMMA ShownReconfig ==
    ASSUME TypeInv, SettingInv, NEW p \in Port \ enabled, NEW pids \in SUBSET Port,
           Reconfig(p, pids), enabled \subseteq pids, pids \subseteq enabled \cup {p},
           enabled' = enabled \cup {p},
           \A q \in Port \ {p} : port_status'[q] = port_status[q],
           p \in pids \/ UNCHANGED port_status, UNCHANGED <<device, dcb_flag>>
    PROVE  SettingInv'
<1>0. /\ enabled \subseteq Port /\ Absent /\ Shown
      /\ UNCHANGED globals /\ InitPortConfig(pids) /\ behind' = behind \ {p}
      /\ need_reconfig' = need_reconfig \cup {p}
      /\ need_reconfig_queues' = need_reconfig_queues \cup {p}
      /\ rx_mode' \in RxModes
  BY DEF TypeInv, LifeType, SettingInv, Reconfig, GlobalType, globals
<1>1. \A q \in Port \ pids : dev_conf'[q] = dev_conf[q]
  BY <1>0 DEF InitPortConfig
<1>2. Absent'
  BY <1>0, <1>1 DEF Absent
<1>3. ASSUME NEW q \in Fresh', q # p PROVE RecordShown(q)' /\ DeviceShown(q)'
  <2>1. q \in Fresh /\ q \in pids /\ q \in Port /\ q \notin dcb_flag
    BY <1>0, <1>3 DEF Fresh
  <2>2. RecordShown(q)'
    BY <1>0, <2>1, WrittenShown
  <2>3. DeviceShown(q)
    BY <1>0, <2>1 DEF Shown
  <2>4. DeviceShown(q)'
    BY <1>0, <1>3, <2>1, <2>3 DEF DeviceShown, RunsWith, globals, RxMq
  <2> QED
    BY <2>2, <2>4
<1>4. ASSUME p \in Fresh' PROVE RecordShown(p)' /\ DeviceShown(p)'
  <2>1. device'[p] = NotConfigured /\ ~RunsWith(p)'
    BY <1>0 DEF Absent, NotConfigured, ZeroConf, RunsWith
  <2>2. p \notin dcb_flag /\ port_status'[p] # "closed"
    BY <1>4 DEF Fresh
  <2>3. RecordShown(p)'
    <3>1. CASE p \in pids
      BY <1>0, <2>2, <3>1, WrittenShown
    <3>2. CASE p \notin pids
      BY <1>0, <1>1, <2>1, <2>2, <3>2 DEF Absent, RecordShown, Written
    <3> QED
      BY <3>1, <3>2
  <2> QED
    BY <2>1, <2>3 DEF DeviceShown
<1> QED
  BY <1>2, <1>3, <1>4 DEF SettingInv, Shown

LEMMA ShownPorts ==
    ASSUME TypeInv, FlagsCover, SettingInv, Ports
    PROVE  SettingInv'
<1>0. /\ enabled \subseteq Port /\ device \in [Port -> DeviceType] /\ Absent /\ Shown
      /\ port_status \in [Port -> Status]
  BY DEF TypeInv, LifeType, DevicesType, SettingInv
<1>1. ASSUME NEW p \in Port, StartRefused(p) \/ StopPort(p) \/ ClosePort(p) PROVE SettingInv'
  <2>1. UNCHANGED <<enabled, need_reconfig, need_reconfig_queues, dev_conf, q_conf, device,
                    globals, dcb_flag, behind>>
    BY <1>1 DEF StartRefused, StartFrame, StopPort, ClosePort, flags, records, dcb
  <2>2. \/ UNCHANGED port_status
        \/ /\ p \in enabled /\ port_status[p] = "started"
           /\ port_status' = [port_status EXCEPT ![p] = "stopped"]
        \/ /\ p \in enabled /\ port_status' = [port_status EXCEPT ![p] = "closed"]
    BY <1>1 DEF StartRefused, StopPort, ClosePort
  <2>3. Absent'
    BY <1>0, <2>1, <2>2 DEF Absent
  <2>4. ASSUME NEW q \in Fresh' PROVE Kept(q)
    <3>1. q \in Fresh /\ (port_status'[q] = "started" => port_status[q] = "started")
      BY <1>0, <2>1, <2>2 DEF Fresh
    <3> QED
      BY <2>1, <3>1 DEF Kept
  <2> QED
    BY <1>0, <2>1, <2>3, <2>4, KeptShown DEF SettingInv, Shown
<1>2. ASSUME NEW p \in Port, DetachPort(p) PROVE SettingInv'
  <2>1. /\ UNCHANGED <<need_reconfig, need_reconfig_queues, dev_conf, q_conf, port_status,
                       globals, dcb_flag, behind>>
        /\ port_status[p] = "closed" /\ enabled' = enabled \ {p}
        /\ device' = [device EXCEPT ![p] = NotConfigured]
    BY <1>2 DEF DetachPort, flags, records, dcb
  <2>2. Absent'
    BY <1>0, <2>1 DEF Absent
  <2>3. ASSUME NEW q \in Fresh' PROVE Kept(q)
    <3>1. q \in Fresh /\ device'[q] = device[q]
      BY <1>0, <2>1 DEF Fresh
    <3> QED
      BY <2>1, <3>1 DEF Kept
  <2> QED
    BY <1>0, <2>1, <2>2, <2>3, KeptShown DEF SettingInv, Shown
<1>3. CASE AttachPort
  <2> DEFINE p == FreePort
  <2>1. /\ enabled' = enabled \cup {p} /\ Reconfig(p, enabled') /\ enabled # Port
        /\ port_status' = [port_status EXCEPT ![p] = "stopped"] /\ UNCHANGED <<device, dcb_flag>>
    BY <1>3 DEF AttachPort, FreePort, dcb
  <2>2. p \in Port \ enabled
    BY <1>0, <2>1, FreePortIs
  <2> HIDE DEF p
  <2> QED
    BY <1>0, <2>1, <2>2, ShownReconfig
<1>4. CASE CreateBondedDevice
  <2> DEFINE p == FreePort
  <2>1. /\ enabled' = enabled \cup {p} /\ Reconfig(p, enabled) /\ enabled # Port
        /\ UNCHANGED <<device, dcb_flag, port_status>>
    BY <1>4 DEF CreateBondedDevice, FreePort, dcb
  <2>2. p \in Port \ enabled
    BY <1>0, <2>1, FreePortIs
  <2> HIDE DEF p
  <2> QED
    BY <1>0, <2>1, <2>2, ShownReconfig
<1>5. ASSUME NEW p \in Port, NEW slaves, BondingSlave(p, slaves) PROVE SettingInv'
  <2>1. /\ UNCHANGED <<enabled, port_status, need_reconfig, need_reconfig_queues, device,
                       dcb_flag, globals>>
        /\ InitPortConfig(enabled) /\ behind' = behind \cup {p} /\ rx_mode' \in RxModes
    BY <1>5 DEF BondingSlave, dcb, globals, TypeInv, GlobalType
  <2>2. Absent'
    BY <1>0, <2>1, AbsentStill DEF InitPortConfig
  <2>3. ASSUME NEW q \in Fresh' PROVE RecordShown(q)' /\ DeviceShown(q)'
    <3>1. q \in Fresh /\ q \in enabled /\ q \in Port /\ q \notin dcb_flag
      BY <1>0, <2>1 DEF Fresh
    <3>2. RecordShown(q)'
      BY <2>1, <3>1, WrittenShown
    <3>3. DeviceShown(q)
      BY <1>0, <3>1 DEF Shown
    <3>4. DeviceShown(q)'
      BY <2>1, <3>3 DEF DeviceShown, RunsWith, globals, RxMq
    <3> QED
      BY <3>2, <3>4
  <2> QED
    BY <2>2, <2>3 DEF SettingInv, Shown
<1> QED
  BY <1>1, <1>2, <1>3, <1>4, <1>5, ShownStart DEF Ports

LEMMA ShownStep ==
    ASSUME TypeInv, FlagsCover, SettingInv, [Next]_vars
    PROVE  SettingInv'
<1>0. /\ enabled \subseteq Port /\ device \in [Port -> DeviceType] /\ Absent /\ Shown
  BY DEF TypeInv, LifeType, DevicesType, SettingInv
<1>1. CASE \/ UNCHANGED vars
           \/ \E pids \in SUBSET enabled : SetFwdPorts(pids)
           \/ StartForwarding \/ StopForwarding \/ Sides
  <2>1. UNCHANGED <<enabled, port_status, need_reconfig, need_reconfig_queues, dev_conf, q_conf,
                    dcb_flag, globals, behind>>
    <3>1. CASE UNCHANGED vars
      BY <3>1 DEF vars, life, flags, records, dcb
    <3>2. CASE Sides
      BY <3>2, SidesEffects DEF Aside, life, flags, dcb
    <3>3. CASE \/ \E pids \in SUBSET enabled : SetFwdPorts(pids)
               \/ StartForwarding \/ StopForwarding
      BY <3>3 DEF SetFwdPorts, StartForwarding, StopForwarding, life, flags, records, dcb, globals
    <3> QED
      BY <1>1, <3>1, <3>2, <3>3
  <2>2. \/ UNCHANGED device
        \/ \E p \in enabled : \E on \in BOOLEAN : device' = [device EXCEPT ![p].extend = on]
    <3>1. CASE UNCHANGED vars
      BY <3>1 DEF vars
    <3>2. CASE Sides
      <4>1. PICK p \in Port :
                \/ UNCHANGED device
                \/ p \in enabled /\ \E on \in BOOLEAN : device' = [device EXCEPT ![p].extend = on]
        BY <3>2, SidesEffects DEF McFrame
      <4> QED
        BY <4>1
    <3>3. CASE \/ \E pids \in SUBSET enabled : SetFwdPorts(pids)
               \/ StartForwarding \/ StopForwarding
      BY <3>3 DEF SetFwdPorts, StartForwarding, StopForwarding
    <3> QED
      BY <1>1, <3>1, <3>2, <3>3
  <2>3. /\ \A q \in Port \ enabled : device'[q] = device[q]
        /\ \A q \in enabled :
              /\ device'[q].conf = device[q].conf /\ device'[q].queues = device[q].queues
              /\ device'[q].rx = device[q].rx /\ device'[q].tx = device[q].tx
    <3>1. CASE UNCHANGED device
      BY <3>1
    <3>2. CASE \E p \in enabled : \E on \in BOOLEAN : device' = [device EXCEPT ![p].extend = on]
      <4>1. PICK p \in enabled, on \in BOOLEAN :
                device' = [device EXCEPT ![p] = [device[p] EXCEPT !.extend = on]]
        BY <1>0, <3>2
      <4> DEFINE d == [device[p] EXCEPT !.extend = on]
      <4>2. /\ d.conf = device[p].conf /\ d.queues = device[p].queues
            /\ d.rx = device[p].rx /\ d.tx = device[p].tx
        BY <1>0 DEF DeviceType
      <4>3. device' = [device EXCEPT ![p] = d]
        BY <4>1
      <4> HIDE DEF d
      <4> QED
        BY <1>0, <4>2, <4>3
    <3> QED
      BY <2>2, <3>1, <3>2
  <2>4. Absent'
    BY <1>0, <2>1, <2>3, AbsentStill
  <2>5. ASSUME NEW q \in Fresh' PROVE Kept(q)
    <3>1. q \in Fresh /\ q \in enabled
      BY <2>1 DEF Fresh
    <3> QED
      BY <2>1, <2>3, <3>1 DEF Kept
  <2> QED
    BY <1>0, <2>1, <2>4, <2>5, KeptShown DEF SettingInv, Shown
<1> QED
  BY <1>1, StepKinds, ShownConfig, ShownPorts

LEMMA ShownInit == Init => SettingInv
<1> SUFFICES ASSUME Init PROVE SettingInv
  OBVIOUS
<1>1. \A p \in Port : device[p] = NotConfigured /\ ~RunsWith(p) /\ port_status[p] = "stopped"
  BY DEF Init, NotConfigured, ZeroConf, RunsWith
<1>2. \A p \in Port : IF p \in Probed
        THEN /\ dev_conf[p].rxmode = rx_mode /\ dev_conf[p].mq = RxMq(nb_rxq)
             /\ q_conf[p] = thresh
        ELSE dev_conf[p].rxmode = "zero"
  BY DEF Init, ZeroConf, RxMq
<1>3. Absent
  BY <1>1, <1>2 DEF Init, Absent
<1>4. Fresh \subseteq Port
  BY SettingsAssumption DEF Init, Fresh, SettingsAssumption
<1>5. Shown
  BY <1>1, <1>2, <1>4 DEF Init, Shown, Fresh, RecordShown, DeviceShown
<1> QED
  BY <1>3, <1>5 DEF SettingInv

LEMMA SettingSafe == SettingInv => SettingsInForce
<1> SUFFICES ASSUME SettingInv, NEW p \in enabled \ (behind \cup dcb_flag),
                    port_status[p] = "started", device[p].conf.rxmode # "zero"
             PROVE  /\ device[p].conf.rxmode = rx_mode /\ device[p].conf.mq = RxMq(nb_rxq)
                    /\ device[p].rx = nb_rxq /\ device[p].tx = nb_txq
                    /\ device[p].queues = thresh
  BY DEF SettingsInForce
<1>1. p \in Fresh /\ RunsWith(p)
  BY DEF Fresh, RunsWith
<1> QED
  BY <1>1 DEF SettingInv, Shown, DeviceShown

(***************************************************************************)
(* A port that is started runs with the settings the program shows (the rx *)
(* mode, the numbers of queues, RSS, the thresholds), whatever was set,    *)
(* attached, bonded, closed or refused before: a setting is written to     *)
(* every record, asks for every port, and wants all ports stopped.         *)
(***************************************************************************)
THEOREM SettingsAreInForce == Spec => []SettingsInForce
<1> DEFINE Inv == TypeInv /\ FlagsCover /\ SettingInv
<1>1. Init => Inv
  <2>1. Init => FlagsCover
    BY SettingsAssumption DEF Init, FlagsCover, SettingsAssumption
  <2> QED
    BY <2>1, InitType, ShownInit
<1>2. Inv /\ [Next]_vars => Inv'
  BY TypeStep, FlagsStep, ShownStep
<1>3. Inv => SettingsInForce
  BY SettingSafe
<1> QED
  BY <1>1, <1>2, <1>3, PTL DEF Spec
=============================================================================
