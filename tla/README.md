# A TLA+ model of platform2's packet capture

This directory specifies the capture program under `src/platform-tyq2`: what its threads,
lcores, rings, callbacks and signal handlers do to the packets they pass on, checked with TLC
on small instances. The safety properties of the receive path, the ring, initialisation, the
transmit path, the libpcap capture and of testpmd's sessions, settings and engines are also
proved with TLAPS, for every size; those of cJSON, and all liveness, are model-checked only.
File names below are relative to `src/platform-tyq2` (`dpdk.c` is `src/CaptureDpdk/dpdk.c`).

| module | what it is | checked by |
|---|---|---|
| `CapturePath` | the DPDK receive path of a port, from NIC to dump file, with start and stop | `capture_save`, `capture_live` |
| `CapturePath_proofs` | theorems about `CapturePath` | tlapm |
| `RxRing` | one `rte_ring` as `initRing` makes it, load by load and store by store | `ring_single` |
| `PacketQueue` | abstract: the bounded queue a ring is taken for | refined by `RxRing` in `ring_single` |
| `DpdkInit` | arguments, shares of rings and queues, who runs what | `init_all`, `init_queues` |
| `Rings_proofs` | theorems about `DpdkInit`: who has which ring and port; and about `RxRing`: its indices, and that it implements `PacketQueue` | tlapm |
| `TxPath` | the transmit path of a port | `tx_port` |
| `TxPath_proofs` | theorem about `TxPath` | tlapm |
| `PcapCapture` | the libpcap capture, with its signals, hash, shared dumper and the one file of all dumpers | `pcap_two` |
| `PcapCapture_proofs` | theorems about `PcapCapture` | tlapm |
| `FwdConfig` | testpmd's forwarding configuration: streams, and their shares for the lcores | with `PortSession` |
| `PortSession` | testpmd's ports and forwarding sessions, and the commands that lead to them | `pmd_session` |
| `PortSession_proofs` | theorems about `FwdConfig` and `PortSession` | tlapm |
| `PortSettings` | testpmd's settings: what is recorded, what devices were configured with, DCB and bonding, the tables on the side | `settings` |
| `PortSettings_proofs` | theorems about `PortSettings` | tlapm |
| `FwdEngines` | testpmd's forwarding engines: bursts, retries, counters, mbufs | `engines`, `engines_flowgen` |
| `FwdEngines_proofs` | theorems about `FwdEngines` | tlapm |
| `CsumOffload` | the checksums of testpmd's csum engine, for a packet and a configuration | with `FwdEngines` |
| `CJson` | cJSON's items in a heap whose allocations fail | `cjson` |
| `CJsonText` | cJSON's parser, printer and minifier | `cjson` |
| `ItemLists` | abstract: the sequences cJSON's lists stand for | refined by `CJson` in `cjson` |
| `DataTheorems` | lemmas the proofs share: sequences as queues, sums over finite sets, division, ranks | tlapm |
| `MC*` | values for the constants of the above | |

## 1. The system

`apps/CaptureTest.c` reads `conf/initial.xml` (capture library, save or not, NICs) and runs one
of two captures.

**DPDK capture** (`DpdkTest.c` on top of `dpdk.c`, `choice.c`, `hash.c`, `structure.c`). 
`dpdk_init` parses the arguments of `conf/dpdk.xml`, shares rings and receive queues among the
NICs by link speed, binds them to capture threads and lcores, starts the NICs, creates the
rings and launches the lcores. From then on:

    NIC queues --rte_eth_rx_burst--> slaveCoreRx --rte_ring--> dpdk_masterRx/sendQueue2 --> dump file
    dpdk_sendPacket --> dpdk_masterTx_a --rte_ring--> slaveCoreTx --rte_eth_tx_burst--> NIC

The receiving and sending lcores loop for ever; capture threads (pthreads) run until
`timeflag` is cleared; `dpdk_finish` runs as SIGINT's handler, clears `timeflag`, joins the
threads, closes the dump file, prints the totals and exits.

**libpcap capture** (`pcapTest.c`, `pcapHash.h`). A thread per NIC runs `pcap_loop`; its
callback counts and dumps under two mutexes. SIGINT's handler sends each thread SIGUSR1, whose
handler looks the thread's device up in a hash, breaks the loop and closes the device.

**testpmd** (the second half of `dpdk.c`, `config.c`, `cmdline.c`, the engines `iofwd.c` ...).
DPDK's test application, built into the same library. Its entry points (`init_port`,
`init_config`, `prompt`) are exported but have no caller in this tree; the only path that
reaches it is `dpdk_statis_data -> force_quit -> pmd_test_exit -> prompt_exit`, with
`ports` NULL and nothing to stop. The models of it begin in the state `init_config` would
leave, and stand for the library as a caller with an `init_port` of its own would use it.

### Components, their state, operations and what makes them correct

| component | state | operations | interacts by | correct when |
|---|---|---|---|---|
| receive lcore (`slaveCoreRx`) | its position in the queue/ring loop, its burst, counters of `ctx` | poll, distribute, enqueue | rings, mbuf pool, counters read by main | every mbuf has one owner; every packet is counted once; a flow keeps one ring and its order |
| capture threads (`sendQueue2`, `dpdk_masterRx`) | burst in hand | dequeue, save, free | rings, `mutexDumper`, dump file, `timeflag` | records do not mix; what is taken is saved before the file closes |
| main thread (`dpdk_test`, `dpdk_finish`, `dpdk_statis_data`) | `timeflag`, dumper, total | start, stop, print | joins; SIGINT | stop ends; the total covers what was saved |
| rings (`initRing`, `rte_ring`) | slots and four indices | enqueue, dequeue | shared memory without locks | a FIFO queue, for the producers and consumers its flags allow |
| initialisation (`l2fwd_parse_args`, `choice_init`, `port_init`, `initRing`, `mainLoop`) | `ctx`: rings, queues, ports of each thread and lcore | the steps of `dpdk_init` | link speeds that may change meanwhile | every ring has one capture thread, every queue one lcore, every port one sender |
| transmit (`dpdk_sendPacket`, `dpdk_masterTx_a`, `slaveCoreTx`) | batch, offsets, `txsize` | clone, distribute, retry | rings, pool, NIC that takes part of a burst | each packet is sent once and in order; calls return |
| libpcap threads, callbacks, handlers | device hash, dumper, totals, pending signals | open, register, loop, count, dump, stop | mutexes, `HASH_ADD` without one, SIGUSR1 | totals are sums; saved packets are in the file; stop ends |
| shared-memory statistics (`shmdata.c`) | mirrors of the counters | copy | System V shared memory | not modelled: written only |
| wrappers, readers (`mydaqc.c`, `CaptureTest.c`, `json.c`, `tools.c`) | none to speak of | forward a call, read a file | | not modelled but for `dofile`; what a setting makes the rest do is |
| testpmd: ports, configuration and sessions (`dpdk.c`, `config.c`, `cmdline.c`) | `ports`, `fwd_ports_ids`, `fwd_streams`, `fwd_lcores`, `test_done` | start, stop, close, attach, detach, settings; start and stop forwarding | one command thread, lcores with a flag each | lcores run only streams that are ready; every stream has one lcore; a session can be stopped |
| testpmd: settings of ports (`dpdk.c`, `config.c`, `cmdline.c`) | a record for each port, global settings, flags, DCB and bonding state, VLAN, statistics and multicast tables | the commands that set them, `start_port` | one command thread, devices that accept or refuse | a started device has the settings shown; the flags ask for all that is missing; tables agree with devices |
| testpmd: engines (`iofwd.c` ...) | a stream each, `next_flow` and the settings shared | one burst: receive or make, change, send, offer again, count, free | NIC, pool, settings that change under way | mbufs are conserved, counters account for every packet, what is sent is what the engine says, every burst ends |
| cJSON (`cJSON.c`, used by `json.c` and `choice.c`) | trees of items, linked both ways; strings; buffers | create, add, reference, detach, insert, replace, duplicate, compare, delete; parse, print, minify | an allocator that fails | no pointer dangles, each item and string has one owner, buffers are not overrun, what is printed is parsed as the same |
| uthash, build tree | | | | vendored or generated, not modelled |

What is hard here: lcores, pthreads and signal handlers share state with few locks; a ring is
safe only for the flags it was created with; mbufs come from a pool that leaks never refill;
several computations of the same split (rings over ports, queues over lcores) have to agree;
SIGINT may come at any step of any of it. `PROJECT.json` lists each such hazard at its line
with the properties that would catch it.

## 2. Modules and code

### CapturePath
One port, thread mode 1 (one receive lcore for the port). State: the NIC's queues `nic`, the
`pool`, the lcore (`slot` is its position in the nested loop over queues and rings, `bufs` its
burst, `rxpc` its place), the rings, the threads (`tpc`, `mbuf2`), `mutexDumper`, the `file`,
the counters of `ctx`, the main thread (`mainpc`, `timeflag`, `dumper`, `count_rx`).

* `RxIdle`, `RxBurst`, `RxBefore`, `RxEnqueue`, `RxAfter`: `slaveCoreRx`. The counter before
  the enqueue, the enqueue and the counter after it are three steps, since `dpdk_statis_data`
  reads the counters meanwhile. A failing enqueue is ignored as in dpdk.c:1238-1239: the packet
  goes to `overrun`, whose mbufs nobody owns.
* `TestTimeflag`, `MasterRx`, `TestSave`, `LockDumper`, `DumpHeader`, `DumpData`, `FreeMbuf`:
  `sendQueue2`. `pcap_dump` writes a record header and then its data, hence two steps. The
  `daq_free` is inside the test for saving (DpdkTest.c:111-119), so a thread that does not save
  frees nothing (`unfreed`).
* `OpenDumper` ... `InstallHandler`: `dpdk_test`; `Sigint` ... `StatisQueue`: `dpdk_finish` and
  `dpdk_statis_data`, which read one counter at a time. SIGINT before the handler is installed
  kills the process. A second SIGINT is not modelled.
* `save` has two parts: what `conf[1]` says and what `sendQueue2` reads in the global of the
  same name, which the parameter of `dpdk_test` hides. Which of the two symbols the dynamic
  linker binds, and whether it is mapped, depends on the build, so the model takes every
  combination.

### RxRing and PacketQueue
`rte_ring` is DPDK's; `RxRing` models what `RING_F_SP_ENQ | RING_F_SC_DEQ` (dpdk.c:659) make of
it: the producer reads its head, reserves, writes, publishes, with nothing to stop a second
producer in between. `CapturePath` and `TxPath` treat an enqueue or a dequeue as one step;
`ring_single` justifies this for one producer and one consumer. With two producers (`Producer`
a set of two) both can read the same head, and one packet overwrites the other.

### DpdkInit
One action per step of `dpdk_init`, in order: `ParseArgs`, `SumWeights`, `ShareRings`
(`get_port_ringnum`), `CountQueues` (`get_port_queuenum`), `AssignThreads`, `BindCores`,
`StartPorts`, `InitRings`. `LinkChange` gives a link any speed, known or not, between two loops
over the ports; within a loop each port's speed is read once, so a change there is one before or
after the loop. `stage` says how far it is, `process` how it ended (`Exit`). `TxLcores`,
`RxLcores` and `Polled` are `mainLoop`. 16-bit counters are kept as such (`HalfWord`): a speed
that does not fit gives 65535 queues, and a speed that becomes unknown after it was added up
gives a negative share modulo 2^16. `Entry` is the memory of `thread_portnum`, `thread_ringnum`
and the structure's padding, one behind the other, as `get_thread_portinfo` leaves it; what it
writes beyond that is `process = "overrun"`.

### TxPath
One port and one sending thread. `SendPacket`, `Clone`, `CloneFails`: `dpdk_sendPacket`;
`ReadTraffic`: a round of `dpdk_testReadTraffic` (which tries again while the pool is empty);
`TestDistributed`, `TryRing`, `Distribute`: `dpdk_masterTx_a`, whose read of a ring's room and
enqueue are two steps; `TestEmpty`, `DequeueBurst`, `TxBurst`: `slaveCoreTx`, where the NIC
takes any number of the packets offered and the rest is offered again. `slaveCoreTx` tests the
ring of its queue and dequeues from the ring of its outer loop (dpdk.c:1054-1058), and so does
the model; a queue without a ring is a NULL pointer, hence `process = "crashed"`.

### PcapCapture
`OpenLive` ... `WriteTotal`: `capturePacket` and its callback. `HASH_ADD` is a read and a write
(`AddRead`, `AddInsert`), as is `packet_num_tot += `. `CaptureFinish` is the SIGUSR1 handler,
which runs on its thread between any two of its steps; `UseClosed` is a `pcap_loop` on a device
that was closed. `CreateThread` ... `ExitProcess`: `libpcap_test`, `finish` and its `exit(0)`. A
dumper is a `FILE` of its own on the one `PcapTest.pcap`: `saved[d]` is what went through thread
d's dumper, in pieces, `flushed[d]` how far that has left its buffer, and `file` says for each
place which dumper wrote it last. Opening the file empties it and leaves the offsets of the
dumpers that were opened before; `WriteOut` writes at the dumper's own offset, over what is there
or past the end; stdio keeps at most `BufferSize` pieces, and `exit` writes out the rest of every
dumper that was replaced (`ExitFlush`). The shared pointer is loaded in `LockDumper` (`through`)
and may be replaced before `pcap_dump` is over. Where SIGUSR1 finds no device the main thread
waits for ever (`Waiting`).

### FwdConfig and PortSession
`FwdConfig` has no state: `ConfigOf` and `StreamsOf` are what `simple_fwd_config_setup`,
`rss_fwd_config_setup` and `icmp_echo_config_setup` make of the settings, `EachLcore` is
`setup_fwd_config_of_each_lcore`. An odd number of paired ports is wired as the code wires it,
differently in the simple (`SimplePeer`) and the RSS configuration (`TopologyTxPort`).

`PortSession` is the command thread and the forwarding lcores. A command that finishes at once is
an action (`SetFwdPortsList` ... `DetachPort`, with the guards of its handler and of the function
it calls); `port start` goes through its ports one by one (`StartPorts`), for `start_port` may
fail at each of four calls of DPDK and returns from the middle of the loop; `start`, `start
tx_first`, `stop` and the exit wait for the lcores (`cmd`). `FwdConfigSetup` is
`fwd_config_setup` with `init_fwd_streams`, a part of each command that calls it: a change of the
number of streams frees the array, and lcores inside `run_pkt_fwd_on_lcore` keep a pointer into
it (`freed`, `UseOfFreed`). `process = "crashed"` stands for what is undefined from there on: a
division by zero, an index past the array (also `fwd_ports_ids`, when a port is attached while
the list, with a port in it twice, is full: dpdk.c:2504-2514), a use of freed memory. Three of
the variables are there for the properties alone: `view`, the streams an lcore read when it
began, is local to the lcore; `resized` remembers that the configuration was set up again in a
session, `gap` that `set default` was given while a port id before the last was free. A refused
command changes nothing and is left out. The lcores are taken to belong to testpmd: where
`mainLoop` occupies them `rte_eal_remote_launch` fails, and `stop` waits for the capture.

### PortSettings
The command thread and the devices. Each port has a record (`dev_conf`, `q_conf`), two flags that
ask `start_port` to configure the device or its queues again, and the `device` with what it was
last given. `ConfigRxTx`, `ConfigRxModeFlag`, `ConfigThresh` ... are the `port config` commands:
they write the globals, let `init_port_config` write every record anew (`InitPortConfig`) and set
the flags (`ReconfigDeviceQueue`). `StartPort` is `start_port`, which may be refused by the
device or fail at its queues (`QueueSetupFails`), flags as they are left there, or find no
mempool for them (`NoMempool`), after which the port stays HANDLING. A device may support no
statistics mappings (`MapStatsRegisters`). `ConfigDcb` is `init_port_dcb_config` with its two
calls of the device, `Reconfig` what an attached port or a bonded device goes through,
`BondingSlave` adding and removing slaves. `TxVlanSet` ... `TxVlanReset`, `SetQmap`, `McastAdd`
and `McastRemove` keep tables; the device may refuse a list of addresses, and removing one closes
the pool up as `memmove` does. The rx mode "zero" is that of a record nobody wrote: no setting
gives it, since `max_rx_pkt_len` is never set below `ETHER_MIN_LEN` (dpdk.c:235,
cmdline.c:1313-1320). `FdirMask`, `FdirFlexMask` and `FdirFlexPayload` write the flow director's
masks into a record, which `InitPortConfig` overwrites and `start_port` hands over only when the
flag is up. `untold`, `behind` and `unsynced` are there for the properties alone and name the
ports whose record or device changed behind the flags' back. A command that goes through all
ports one by one is modelled by the one for a port; a command that is refused changes nothing and
is left out.

### FwdEngines and CsumOffload
An action for what an lcore does between two calls of DPDK, and for each access to what another
thread writes: `RxBurst`, the engine's work on the burst (csum's packet by packet, since settings
may change between two), `TxBurst` and each `Retry`, in which the NIC takes any part, then
counting and freeing (`EndBurst`). txonly reads the first length (`TxPacket`), the number of
segments (`TxSplit`) and each further length when it has an mbuf for it (`TxSegment`), then
writes the headers (`TxHeaders`) or has found the pool empty (`TxSegmentFails`). flowgen reads
`next_flow`, counts and writes it (`FlowPacket`, `CountFlow`, `NextFlow`), and where packets were
not sent subtracts, writes, tests, adds and writes again (`EndBurst`, `BackOut`, `BackedOut`,
`AddFlows`): a plain int, so that a read may also give what the lcore has of it in a register
(`Reads`). A packet keeps its mbufs, their lengths, the kind it came as and what the engine made
of it. The mbufs it has are the free ones of the pool in the order of its segments; which part of
the array is the lcore's, `HeldAt` says for each place. The lcores share the pool, the settings
(`SetCsum`, `SetParseTunnel`, `SetTso`, `SetTunnelTso` change one flag or size at a time) and
`next_flow`. `set txpkts` looks at what it is given (`SetTxPkts`), writes each length
(`SetTxPktLength`) and then their sum and number (`SetTxPktNumber`, config.c:1732-1736). `torn`
are the streams whose packet was begun before a set txpkts ended and goes on after it was
accepted, `recycled` are packets sent although their mbufs were free, `crashed` holds the two
ways in which an lcore does not return: headers written past a segment, and an index of 8 bits
over a longer burst. The index's range is `UINT8` in the instance, no more than the longest burst
as 256 is less than 512.

`CsumOffload` has no state: `Parse` is what the engine finds out about the headers of a packet,
starting from what it found out about the one before (`info` is cleared once for a burst),
`Checksums` which of them it computes, leaves to the NIC or does not touch, and `Right` when
that is right for the packet, stated from what the flags mean. `Right` has three exceptions, each
with a name: SCTP is left at 0 unless the NIC computes it (`NoCrc`, csumonly.c:412); an outer UDP
checksum computed here is wrong where the NIC still writes an inner one, as the comments at 763
and 785 say (`InnerInHw`); and an IP-in-IP packet after a VXLAN packet of the same burst
(`StaleOuter`).

### CJson, CJsonText and ItemLists
`CJson` is the heap: a function from addresses to items with `child`, `next`, `prev`, the owner
of the text, the name. Every function of the library is an operator from memory to memory
(`Create`, `AddToArray`, `Reference`, `DetachItem`, `ReplaceItem`, `Duplicate`, `Parse` ...) that
the action of a call (`CallCreate`, `CallAddToArray` ...) takes whole, for a client that keeps to
the rules of cJSON.h. Any allocation of a call may be the one that fails, after which the call
undoes what it did. `Delete`, `Duplicate`, `Compare` and the parser recur over the tree as the
code does. `ItemLists` knows sequences only, and `CJson` implements it with the lists followed
by `next` from `child`: each call changes one sequence as its name says, or none.

`CJsonText` has one variable, the text `dofile` reads. Parsing, printing and minifying are
operators over sequences of bytes that return what is written and how much room was asked for.
`parse_string` is two passes, as in the code: `FindEnd` and `Allocation`, then `Unescape`.
`Room` is what `ensure` asks for before each piece, `Written` when it is satisfied.
`MCCJson` runs both modules: texts are read and done with before the first call of the library,
so that every text meets every operator.

## 3. Runs

| run | question | result |
|---|---|---|
| `capture_save` | do mbufs, counters, flow order, dump file and total stay right with full rings, an empty pool and SIGINT at any step? | holds: `MbufConservation`, `RingAccounting`, `FlowOrder`, `DumpWellFormed`, `ClosedDumpComplete`, `CountRxCovers` |
| `capture_live` | is every received packet handled, does a stop end? | holds under fairness: `ReceivedIsHandled`, `FinishEnds` |
| `ring_single` | is a ring with one producer and one consumer a queue? | holds: refines `PacketQueue`; `IndexOrder`, `EveryPacketArrives` |
| `init_all` | do threads, rings, ports and lcores fit together for every argument and speed? | holds: `ThreadsOwnRing`, `PortServedOnce` (thread mode 1, or one NIC) |
| `init_queues` | is every queue polled by one lcore in mode 2/2? | violated, `QueuePolledOnce` |
| `tx_port` | is what is cloned sent once and in order, is it sent at all, and do calls return? | holds: `EachPacketOnce`, `TestedRingsDrain`; `CallsReturn`, which names the call that does not |
| `pcap_two` | totals, saved packets and stop, with two NICs that may fail | holds: `TotalIsSum`, `SavedTail`, `StopEnds` |
| `pmd_session` | with any sequence of commands and failures: are sessions sound, and can they be stopped? | holds, but for the cases the properties name: `ConfiguredWithinProbed`, `StreamsDivided`, `StartedPortsReady`, `StreamsUsable`, `CommandsReturn` |
| `settings` | does a started device run with what the program shows, whichever start or setting failed before, and do the tables agree? | holds, but for the ports the properties name: `FlagsCover`, `SettingsInForce`, `TablesConsistent` |
| `engines` | is every packet accounted for, sent as the engine says and only once, with a NIC that takes part, a dry pool and settings that change? | holds: `MbufConservation`, `CountersAgree`, `SentAsMade`, `LcoresSurvive`, `BurstsEnd` |
| `engines_flowgen` | is what flowgen received discarded? | violated, `ReceivedDiscarded` |
| `cjson` | does the library keep its trees, strings and buffers whole over any four calls with failing allocations, and does text survive printing and parsing? | holds: `Forest`, `StringsOwned`, `CompareAgrees`, `ListsAreSequences`; `StringsFit`, `RoundTrip`, `PrintFits` |

Each module has a type invariant; but for `CapturePath`'s, it is the first conjunct of another
invariant of its run. `MbufConservation` of `CapturePath` counts the leaked mbufs too: it says
that the two places named leak and no other does, not that nothing leaks.

### The disagreements with a run
* `init_queues`: `get_core_queuenum` numbers the queues from the first lcore that sends,
  `get_core_portnum` counts the receiving ones (choice.c:158).
* `engines_flowgen`: flowgen's retries count the packets received instead of those made
  (flowgen.c:214). When the pool gave fewer than were received, the array of the burst still
  holds mbufs that were received and freed, and the NIC is offered them; flowgen.c:113 says
  "Received traffic is simply discarded".

### What the code does and the models repeat without a run of their own
* saving: `dpdk_test(char conf[][N])` hides the global `conf` that `sendQueue2` reads
  (DpdkTest.c:53, 111, 166), although `conf/initial.xml:2` promises that 1 saves;
* rings: in queue and thread mode 2 several lcores of a port enqueue to any of its rings
  (dpdk.c:1164-1187), which `initRing` makes single-producer (659);
* full ring: the enqueue's result is ignored (dpdk.c:1238-1239), although 1450 speaks of what
  was "actually enqueued"; the pool never gets the mbuf back;
* not saving frees no packet (DpdkTest.c:111-119), so the pool runs dry; and `pcap_dump_close`
  is then called with NULL (DpdkTest.c:76, pcapTest.c:82);
* threads: with NICs of 10 Gbit/s and of no link and 80 rings, truncation and remainder hand out
  81. `get_thread_portinfo` looks at neither `ring_num` nor `MAX_CORE_SIZE` (choice.c:201-216): its
  `thread_portnum[80]` is `thread_ringnum[0]`, and thread 0 drains the ring of thread 1.
  `ThreadsOwnRing` therefore says what it says for up to `MAX_CORE_SIZE` rings handed out;
* the libpcap file: every thread opens `PcapTest.pcap` anew (pcapTest.c:46) and the dumpers that
  were replaced go on writing at their own offsets, at `exit(0)` at the latest (87): with two NICs
  the file has gaps and parts of records, although `conf/initial.xml:2` says "1 for saving as pcap
  format file". `SavedTail` says what is there all the same;
* `addNode` changes its own copy of the head, so ports at the front of the list are lost
  (structure.c:27); shares and remainder need not add up to `ring_num` (choice.c:58-73); without
  a port the remainder divides by zero (choice.c:64); without `-p` every port is taken
  (dpdk.c:354, 488); the documented `-q` is refused (340 against 475);
* `port_init` skips a port that `mainLoop` still polls (838-840); `initRing`'s result is ignored
  (871-874);
* `dpdk_sendPacket` leaks a clone when the pool is empty (`j - 1`, dpdk.c:1412); with what is
  leaked, and what is in a ring that is not drained, the pool may never again have a round of
  `dpdk_testReadTraffic`, which then spins for ever (1645; `Starved` in `CallsReturn`). It also
  gives `dpdk_masterTx_a` a port for a thread number (1417; dpdk.h:125); `dpdk_ringEnqueue` and
  `dpdk_ringDequeue` have their bodies swapped (1780-1788);
* SIGUSR1 before the device is registered leaves `finish` waiting (pcapTest.c:59, 80); SIGINT
  between the two calls of `signal` kills the process (112-113).
* testpmd: `set nbport` and `set nbcore` set the configuration up again in the middle of a
  session (cmdline.c:2666-2671; every other such command looks at `test_done` or at the ports
  first). If there are fewer lcores in it, `stop_packet_forwarding` does not tell the others to
  stop (dpdk.c:2665) and waits for them for ever (`resized` in `CommandsReturn`);
* testpmd: `set default` lists the ports 0 to `nb_ports` - 1 whether they are there or not
  (dpdk.c:1843-1853), so that after a detach a missing port is forwarded, a port in use can be
  closed, and one that comes back is in the list twice (`gap`), so that one more attach writes
  past the end of `fwd_ports_ids` (2513-2514); `nbcore` 0 divides by zero (config.c:1122), as
  does icmpecho without a transmit queue; more queues than a device has leave `fwd_streams` as it
  was (dpdk.c:2095) and the configuration indexes past it; icmpecho answers on transmit queues it
  may not have; a port whose socket has no mbuf pool stays HANDLING, with neither its queues nor
  a flag that asks for them, and can be neither started, closed nor detached (dpdk.c:2938-2959;
  named in `FlagsCover`);
* testpmd, settings: `stop_port` clears `dcb_test` whichever port it stops (dpdk.c:3026), after
  which `start_packet_forwarding` starts a session of DCB ports and others although it says "In
  DCB mode, all forwarding ports must be configured in this mode" (2564); `init_port_config`
  overwrites the rx mode of a DCB port and the flow director's masks (3408); configuring DCB sets
  the numbers of queues for all ports (3602) and, when it fails, leaves a device without queues
  that no flag asks for; attaching or bonding rewrites the records of other ports without
  setting their flags; a bonded device may be started before anything wrote its record; a new
  configuration turns off the VLAN extension that `tx_qinq_set` asked for; a re-attached device is
  not given the multicast addresses that are listed for it;
* testpmd, engines: `next_flow` is shared by the lcores, which test, add to and write it apart
  (flowgen.c:227-229): it may be negative, or pass the table, when another one reads it; icmpecho
  counts a burst with 8 bits (icmpecho.c:325); the segments drawn for txonly, or read while `set
  txpkts` writes them (txonly.c:234-249), may be shorter than its headers, and the length in its
  IP header is that of the start; an outer UDP checksum is computed although the NIC still writes
  an inner one (csumonly.c:763, which says so); SCTP leaves with a checksum of 0 where the NIC does
  not compute it (412), although 625 says "reprocess the checksum of all supported layers"; `parse_encap_ip` leaves the outer protocol of the
  packet before (csumonly.c:300); SCTP over IPv6 reads its length where IPv4 has it;
* cJSON: the reference of `cJSON_AddItemReferenceToObject` is lost when its key cannot be copied
  (cJSON.c:2073); `replace_item_in_object` does not look at whether the key was copied and leaves
  a member without a name, and renames the replacement even when there is nothing to replace
  (2348-2364); an object with a name twice differs from its own copy (3061); appending through a
  reference writes into the items it shows; an invalid `\u` escape reads as 0 and ends the
  string (612); Minify takes the quote after an escaped backslash for an escaped one (2808).

## 4. Bounds

* `capture_save`: rings of two packets, bursts of two, pool of three, four packets of two flows
  on two queues and two rings: enough for a full ring, an empty pool, a full receive queue, a
  packet in each place at once, and two threads between the two writes of a record.
  `capture_live` takes ring size 1 and two packets, one of them not IP; liveness needs no more
  to meet a full ring. The addresses of one flow add up to more than `Word`.
* `ring_single`: four slots (three usable), indices modulo 8, ten packets: the indices wrap,
  the ring is full, empty and partly full at each position.
* `init_all`: 0-3 NICs, every speed of `conf/port_infomation.txt` and one it does not have, ring
  numbers 1, 2, 3, 5 and 80 (the limit), all modes, `-S` at -1, 0, 79 and 80. The link of the first
  NIC may change (`Unsteady`), to any of the speeds and any number of times. The file is given
  two queues for 10 Gbit/s, as the same file may, so that a port has several.
* `tx_port`: bursts of two, rings of two, calls of four packets; eight clones in all, so that
  two calls follow each other, and thirteen on the port with a ring that nobody drains: there a
  clone is lost, that ring is full and `dpdk_testReadTraffic` is called once more, with which the
  pool of 6 is one short of the round's four, for good (`Starved`). The pool has room for a
  round's clones and a full ring. `MaxFailures` bounds the calls that find the pool empty.
* `pcap_two`: two NICs of two packets, the least for a shared total, hash and dumper;
  the second packet of a NIC is longer than the first, so that records of two dumpers overlap in
  part, and stdio may keep two pieces of a file, so that a dumper may hold all of a record, a
  part of one, or nothing.
* `pmd_session`: two ports of which one or both are there at first, two lcores, devices of three
  queues, queue numbers 0, 1, 3 and 4: a session without one of the directions, with one stream,
  with streams that two lcores share evenly and not (three, six), and a device asked for too
  much. Sessions and port commands are not bounded; settings, attach and detach are three in a
  run (`MaxChanges`), enough for detach, attach and `set default` in any order around a session.
  To fill the list with a port twice and attach another takes five, so that this crash is met by
  the proofs only.
  Only `port_topology = paired` is run, the one value the tree sets.
* `settings`: two ports, one of them there at first, the other to be attached or made a bonded
  device, with different numbers of queues and pools; numbers of queues that fit, that do not,
  and 0; two rx modes and thresholds; three multicast addresses with chunks of two. Starts,
  stops, closes and detaches are not bounded; three other commands in a run, enough for a
  setting, a DCB command or slave, and an attach in any order around failed starts.
* `engines`: one engine at a time; bursts of at most two packets, and a pool of two (flowgen),
  three (txonly) or four mbufs, so that a burst finds the pool dry, a copy fails half way, and
  flowgen makes fewer than it received; one retry; two flows. Two lcores with a burst each for io
  (the pool) and flowgen (the pool and `next_flow`), else one with two bursts, csum with one of
  two packets, of which the second follows a first of each kind. Two commands against txonly, so
  that a set txpkts, of lengths that would do alone, overlaps a packet of another and a set
  txsplit; one against the others but flowgen, which none concerns. Headers: each protocol, each
  tunnel, each case of a missing checksum, four configurations. An 8-bit index is one of two
  values against bursts of two.
* `cjson`: five items, two names that differ in case, four calls of which each may find memory
  for 0 to 7 allocations. Four calls make two containers, put one item in each, and then
  detach, replace or refer to it. Some ten thousand texts: all strings of up to four chunks of
  escapes, surrogates and quotes, all of up to three tokens, and nested arrays and objects to
  beyond the nesting limit (3); numbers of up to three characters, as against 63.
* Integers: addresses (`Word`), ring indices (`Wrap`) and the 16-bit counters of `choice.c`
  (`HalfWord`) wrap. The 64-bit statistics do not: the bounds on packets stand for them.

## 5. Fairness

* `CapturePath!Fairness`: weak fairness of the lcore, of each thread and of main. Lcores are
  pinned and pthreads are scheduled by the kernel; none can be held up for ever while enabled.
  `LockDumper` needs no more than weak fairness for `FinishEnds`: once `timeflag` is cleared each
  thread stops after its burst, so the others give up the mutex for good. Arrivals and SIGINT
  are not fair: they need not happen.
* `RxRing`: the consumer and each producer, for the same reason.
* `TxPath!Fairness`: the application and the lcore; and that the NIC, offered a burst again and
  again, in the end takes some of it and gives its mbufs back, without which
  `while (v_tx < tmp)` has no end. See the comment at `Fairness` there.
* `PcapCapture`: each thread and main. That a NIC delivers a packet is not assumed.

* `FwdEngines!Spec`: each lcore goes on with the burst it has begun. The NIC may take nothing
  for ever: `BurstsEnd` holds all the same, for retries are bounded.
* `PortSettings` and `CJson`: none; they have safety properties and a refinement only.
* `PortSession!FairSpec`: the command thread goes on with a command it has begun, and a lcore
  that was told to stop finishes its burst. That anybody types a command is not assumed.

`StopEnds` has the condition that every thread has registered its device, or is past its loop,
when `finish` starts: without it the stop can hang as listed above.

## 6. Proofs

Every theorem holds for all values of the constants that satisfy the `ASSUME` of its module
(`SizeAssumption`, `ConfAssumption`, `RingAssumption`, `SettingsAssumption` ...), and nothing
else: that sizes are natural numbers and sets of ports finite, and what relations the code gives
between them (a transmit burst fits a ring, no more capture threads than rings, no port twice in
a list). A theorem about behaviours is proved from an inductive invariant: the initial states
have it, each action keeps it (a lemma for each action or process, with a step for each conjunct
it can disturb), and it implies the property. The invariants are stated in the module of the
proofs, in layers: a layer may use those below it.

| module | theorem | property |
|---|---|---|
| `CapturePath_proofs` | `TypeCorrect`, `DumpFileWellFormed` | `TypeOK`, `DumpWellFormed` |
| | `FlowsKeepOrder`, `MbufsAreConserved` | `FlowOrder`, `MbufConservation` |
| | `RingsAreAccounted`, `ClosedFileIsComplete`, `PrintedTotalCovers` | `RingAccounting`, `ClosedDumpComplete`, `CountRxCovers` |
| `Rings_proofs` | `OneThreadPerRing`, `OneLcorePerPort` | `ThreadsOwnRing`, `PortServedOnce` |
| | `IndicesInOrder`, `RingIsQueue` | `IndexOrder`, `ImplementsQueue` |
| `TxPath_proofs` | `PacketsAreSentOnce` | `EachPacketOnce` |
| `PcapCapture_proofs` | `TotalIsRight`, `FileHasTheLast` | `TotalIsSum`, `SavedTail` |
| `PortSession_proofs` | `EveryStreamHasLcore`, `NoStreamTwice`, `SharesThere`, `OneStreamForEachQueue` | of the operators |
| | `PortsStartReady`, `ListsStayWithin`, `StreamsAreDivided`, `SessionsUseWhatIsThere` | `StartedPortsReady`, `ConfiguredWithinProbed`, `StreamsDivided`, `StreamsUsable` |
| `PortSettings_proofs` | `TablesStayConsistent`, `FlagsTellStart`, `SettingsAreInForce` | `TablesConsistent`, `FlagsCover`, `SettingsInForce` |
| `FwdEngines_proofs` | `Types` | the types of every engine |
| | `Conservation`, `Agreement`, `Sent`, `Survive` | `MbufConservation`, `CountersAgree`, `SentAsMade`, `LcoresSurvive` |

### DataTheorems
What a queue does to a sequence (append, take the head, cut a burst off, join two) and to the
set of its elements; and sums of a function over a finite set (`Sum`, as the models' totals are
defined): the sum of the empty set, of one element more, of a function changed at one place, of
two functions. The library's induction theorems take an operator as a parameter, which the
provers cannot instantiate, so finite sets are handled by a least counterexample: a non-empty
set of finite sets has a minimal one by inclusion (`MinimalSubset`), from which `SumsExist` and
`SumsAgree` show that the recursive function behind `Sum` is what it should be. Over the numbers
from 1 to n a sum grows with n, and in it each total is found (`PrefixFinds`). `Division` and what
follows from it are facts about quotients and remainders by a number that is not known, which the
SMT solver does not find; `Ranks` counts the members of a finite set of numbers in order.

### CapturePath
* `IInv`. `TypeOK` alone is not inductive: `RxBefore` takes the head of `bufs`, which must then
  not be empty (`InBurst`), and `CreateThread` and `JoinThread` index threads by `next`, which
  stays in range only while main is creating or joining (`Starting`, `Stopping`). For the file,
  `Holder` says that a thread at one of the places under the lock is the owner of `mutexDumper`,
  and `LastRecord` that the file's length is odd exactly while the owner is between its writes,
  the last entry then being the header of its packet. `DivMod`, `DivLess` and `SlotType` bound
  the position in the double loop, away from the rest, for the arithmetic is not linear.
* `FlowInv`. A flow keeps to one queue, ring and thread (`Routed`); each list is sorted by
  arrival within a flow (`ListsSorted`), and a place further on the way has earlier packets
  (`Staged`, `WrittenFirst`, `WrittenInOrder`). `WrittenInOrder` speaks of the headers and of
  the data apart: between the two writes the packet is in the file and still in the thread's
  hand. For the mbufs, what was lost is held nowhere else (`LostApart`), and a new packet has a
  number that none before it has (`Numbered`), so that sets of packets may be counted.
* `CountInv`. What a queue counted was counted before an enqueue or is in hand (`RxBooks`); each
  record in the file is two entries of a packet taken off a ring, with the halves still to write
  (`DumpBooks`); `Joined` says which threads have ended when main closes the file; `AddingUp`
  bounds the total while the lcore counts on: from above by the queues read so far, from below
  with those still to be read. A counter that was read never grows back into the total, which is
  why the theorem gives bounds and not an equation.

### DpdkInit and RxRing
`Rings_proofs` has both: that `dpdk_init` gives each ring to one capture thread and, in thread
mode 1, to one receive lcore, and what a ring is for one of each.

*Initialisation.* `IInv` says what each step has found out: `SumsRight` that the weights are
those of known links, and their sum that of the links, while these keep their speeds;
`SharesRight` that there are then no fewer rings than threads; `QueuesRight`, `ThreadsRight` and
`CoresRight` that what was assigned is what the modes and loops say. A change of speed during the
shares ends only what is claimed for steady links. The one step that is hard is `ShareRings`
(`SharesCover`). Either the rings are dealt out one by one along the list, which a count of the
list's positions shows to miss none (`DealtAll`); or each port gets its quotient, which add up to
at least the largest multiple of the sum of the weights that the number of threads has room for
(`QuotientLeast`, `FloorSum`), and the remainder is dealt out. That the list is not empty and has
only ports is all that is needed of it (`SortedType`): a port that `addNode` loses is no thread's
loss. `ShareKnown` says that the share of a known speed does not wrap. The quotients are exact,
as in the model; weights other than the 1, 2 and 5 of the file, for which the code's double might
fall short of a whole number, are beyond it. `NthIs` and `NthOnce` then say that the pairs given
out in turn are different ones, each of a ring there is, and `Entry` that they are the pairs
found as long as there are no more of them than entries. For the lcores, `Halves` shows that the
middle `get_core_portnum` computes is the bound between `mainLoop`'s two kinds. `ConfAssumption`
says besides types that numbers of rings fit 16 bits, as they do for weights up to 5 and ten
thousand threads.

*A ring.* With one producer (the theorems' hypothesis; with two the ring loses packets, see
section 2). The invariant `RingInv` orders the four indices by their distance from the consumer's
tail, modulo any word that is a multiple of the ring's size and at least twice as long (`Order`),
and says what the producer and the consumer have read, reserved or copied at each of their places
(`ProducerPlace`, `ConsumerPlace`). `RingIsQueue` shows the refinement step by step: publishing
appends to the abstract queue, releasing takes from it, every other load and store is a stutter.
The fairness of the abstract queue is not part of it.

### TxPath
`TypeInv` bounds the places of the loops (`Places`). `CountInv` says that the packets in the
call, the rings, the lcore's burst, on the wire and lost are all that were cloned (`AllThere`)
and, added up, no more than were cloned (`Numbers`), so that no packet is in two places.
`OrderInv` says that a call's packets are later than all that went before, and each ring's later
than those of the ring on the wire. What is on the wire is compared ring by ring: rings overtake
each other.

### PcapCapture
`SumInv`: `mutexPacketNum` is held exactly by the thread that adds (`Locked`), so what it has
read is still there when it writes (`Loaded`), and the total is the sum over the threads that
are done (`Summed`). `SaveInv`: through the present dumper went each NIC's last packets, without
a gap, and all of them for the thread that opened it (`FileTail`); a dumper that is opened while
a thread dumps through another stays empty until that one lets go of the mutex (`Held`,
`Late`); what has left the present dumper's buffer is at its place in the file, where no
replaced dumper reaches (`Written`); and `finish` has emptied that buffer or faulted
(`Closing`). The sizes of records and of the buffer are any.

### FwdConfig and PortSession
A share begins at `First(l)` and has `Count(l)` streams; `Ordered` says that it ends before the
next lcore's begins, which gives `NoStreamTwice` and, with `Total` (the share after the last one
begins at `nb_fs`), `SharesThere`; `EveryStreamHasLcore` needs the lcore named, by one division
among the plain shares and another among those with one more stream. All three are for any
number of lcores and at least as many streams, which is what the configurations ask for.
`OneStreamForEachQueue` goes through the three configurations: a stream's ports and queue, by
division and remainder, tell which stream it is, and no two ports have the same peer unless an
odd number of them is paired. The ports listed must be distinct, as `set portlist` sees to
(cmdline.c:2523-2537).

`PortSession_proofs` carries that through the commands. `ReadyInv`: a port that may be started
has its queues or a flag that asks for them (`Prepared`), and a started one needs nothing
(`StartedSet`). `ListInv`: the ports listed are there, each once, unless `set default` met a gap
(`ListedOnce`). `CfgInv`: the shares are those of `EachLcore` for the streams there are
(`Shared`), which do not exceed the array (`InArray`). `LcoreInv`: without a session no lcore
runs (`Quiet`), and in one each runs its share of the present configuration (`Views`).
`SessionInv`: the streams of a session are between ports in use, which cannot be stopped or
closed, and queues that are configured (`Session`). The exceptions the properties name (`gap`,
`resized`, a crash) are those of section 3 and no others.

### PortSettings
`TableInv` strengthens `TablesConsistent`: an outer tag goes with QinQ alone; a port has mappings
enabled only with an entry; the pool of addresses has room for whole chunks, without which adding
one at the end of the last chunk would write past it. `FlagsCover` is inductive with the types:
`Told` says it of one port, and each kind of command spares a port, or tells it anew; the port
without a mempool is told nothing, and none of the commands takes it out of HANDLING (`Spared`).
For `SettingsInForce` the record has to be followed too (`SettingInv`): of a port that no setting
passed by, the record once written has the settings shown, and the device has them if it is
started or not to be configured again. A port that is not there has no device and is not started
(`Absent`); otherwise an attach would bring back a device of before.

### FwdEngines
`TypeInv` says what a burst holds and how far it is at each place of an lcore (`Place`), which
depends on the engine: csum carries what it knows of the headers from one packet to the next,
flowgen keeps what it received in the array behind what it makes, icmpecho closes the replies
up. With it go the settings of segments, whose number and lengths disagree while set txpkts is
half way, and what `CopiedLens` makes of a packet: that a copy has all of the bytes, in segments
of the lengths drawn, is shown by the sums of its prefixes.

* `Survive`: the segments that are set hold the headers, and so do those being set, of which the
  ones written are in the array (`SegsHold`); the lengths that a packet has already are still those
  of the array if it is not torn, and it will have as many as are set if they are not drawn
  (`PacketsHold`). When the headers are written the two together are enough bytes.
* `Conservation`: `Conserve` states it of a pool, a NIC and the bursts, so that one lemma for
  each way to change them serves the eight engines: mbufs come from the pool, go back to it, move
  to the NIC, or stay with the lcore in other packets. Packets of one burst are told apart by
  their position, for two may look the same. As long as nothing was recycled the sent part of a
  burst is the NIC's and the rest the lcore's; what flowgen makes after a retry that offered
  freed mbufs is not claimed. Nor is anything of the value of `next_flow`, which several lcores
  may bring anywhere.
* `Agreement`: `Balanced` has for each place of an lcore what is counted already and what is to
  be. For flowgen `FlowsFollow` says, of an lcore that no other has begun beside, that the flow
  it is at (`next_flow`, or where it has not written that yet, what it will write: `Current`) and
  the packets counted for it agree modulo the number of flows; that it is of the table, or
  negative while packets are taken back; and that what the lcore has in a register is what
  `next_flow` is.
* `Sent`: `Ready` says of each packet that may be offered what `SentAsMade` says of those that
  were, at the place where the engine is done with it (`ReadyAt`) and what it was before (`Raw`);
  `Unset` and `Drafts` that the settings of txonly and the packet it makes are those of the start
  while no command was given. That the checksums are right is a case analysis over what arrives
  and what is known of the packet before; the bad outcomes are the three exceptions of `Right`.

### What the attempts to prove have shown
* `AttachPort` with a full list wrote outside the list in the model too; the code does so, and
  the model now says `crashed`. TLC's bound on changes is too small to meet it.
* `OneStreamPerQueue` says nothing of a process that crashed while setting streams up.
* the lists of ports given to `set portlist` are free of duplicates, which `PortLists` has to
  say; else two streams poll one queue.
* "zero" must not be a mode that can be set, or a record nobody wrote looks like one that was.
* sets of packets do not tell whether two packets of a burst share an mbuf when they are the
  same record: `MbufConservation` now speaks of the positions of the array (`HeldAt`).
* the lists given to `set txpkts` and what arrives must be sequences of lengths; that the first
  segment set holds the headers and that a received segment fits an mbuf are facts of the code's
  start and of the driver, and are assumptions now.

### What is only model-checked, and why
Liveness (`FinishEnds`, `ReceivedIsHandled`, `EveryPacketArrives`, `StopEnds`, `CallsReturn`,
`TestedRingsDrain`, `CommandsReturn`, `BurstsEnd`) and ENABLED are out of the prover's reach. So
is what a recursive operator computes for every input, with it all of `CJson`, `CJsonText` and
the refinement of `ItemLists`.

## 7. Not modelled, and the plan

Not modelled: `shmdata.c`, wrappers, readers but for `dofile`, uthash and the build, as in
section 1; in `CapturePath`, the receive lcore of thread mode 2 and the statistics in shared
memory; in `PcapCapture`, the statistics printed; in `DpdkInit`, the DPDK EAL itself; in
`PortSession`, the start and stop of single queues (cmdline.c:1765) and DCB's own configuration
of streams (config.c:1298); in `PortSettings`, the many settings that are one call of DPDK and
change nothing of testpmd (MTU, MAC addresses, filters other than the flow director's masks, rate
limits); in `FwdEngines`, what is in
a packet beyond what `SentAsMade` tells apart, and the IEEE 1588 engine, which the build leaves
out; in `CJson` and `CJsonText`, `cJSON_SetValuestring` and the other calls that write one field,
allocators set by `cJSON_InitHooks`, fractions and exponents, and depth beyond the nesting limit
(Delete, Duplicate and printing have no limit). Of cmdline.c, most is tables of the parser and
displays. What an out-of-range index does to memory is outside every model.

Next, in this order:

1. `PortSession`: the start and stop of single queues, and DCB's streams.
2. `CapturePath` with several receive lcores, composed with `RxRing`.
