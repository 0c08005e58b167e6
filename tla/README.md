# virtioscsi.device in TLA+

A TLA+ model of the AmigaOS 4 driver `virtioscsi.device`: model-checked with TLC, and every part of it
(virtqueue, request pipeline, task lifecycle, message port, initialisation and release, commands) proved about
with TLAPS for every value of the constants.

Paths such as `unit_task.c:587` are relative to `src/src/` (C files), `src/src/virtio/`
(`virtio_*.c`, `virtqueue.c`), `src/src/pci/`, `src/src/exec_cmds/`, `src/src/scsi_cmds/` and
`src/include/` (headers).

## 1. The system

The driver publishes every SCSI disk behind one VirtIO SCSI PCI function as an Exec unit.
Filesystems send it `IORequest`s; one task per open unit turns them into VirtIO requests.
All units share one request queue (VQ2), one interrupt and one semaphore (`io_lock`).

| Component | State | Operations | Interacts with |
|---|---|---|---|
| **Open, Close, Expunge** (`Open.c`, `Close.c`, `Expunge.c`) | `lib_OpenCnt`, `LIBF_DELEXP`, per unit `open_count` | open a unit and start its task, close it and stop the task, expunge now or later | start/shutdown handshakes with the unit task |
| **BeginIO, AbortIO** (`BeginIO.c`) | held requests `changeint_req`, `remove_req`; the task's message port | answer at once, hold, queue; remove from the queue | `PutMsg` to the unit task, `port_mutex` |
| **Unit task** (`unit_task.c`) | `task`, `io_port`, `io_wait_task`, `task_shutdown`; pre-allocated DMA buffers | wait, harvest, dispatch a batch, kick once; drain on exit | signals from clients, ISR and other tasks |
| **Request pipeline** (`virtio_scsi_io.c`: Submit, Kick, Harvest, `complete_inflight_slot`) | per unit 16 slots `inflight[]`, a free list through `inflight_next`, `inflight_count`; shared `occupied_count`, `active_units_mask` | submit, kick, harvest for all units, complete a slot | `io_lock`, request ring, other units' slots |
| **Synchronous path** (`VirtIOSCSI_DoIO`) | slot 0's buffers, `doio_pending_cookie` | submit, wait, drain, hand over foreign completions, retry, give up | request ring, other tasks' DoIO |
| **Virtqueue** (`virtqueue.c`) | descriptor table with free list, avail and used ring, `last_used_idx`, `cookies[]`, indirect tables | AddBuf, Kick, GetBuf | the device, lock-free |
| **Interrupt handler** (`virtio_irq.c`) | none of its own | read ISR, signal `io_wait_task` of active units | `active_units_mask`, read without lock |
| **Initialisation** (`Init.c`, `virtio_init.c`, `pci/*`) | libraries, BARs, `modern_mode`, `vqs[]`, the device's status and features | open libraries, find the device, choose legacy or modern mode, negotiate, set up queues; undo all of it | PCI bus, virtqueue, interrupt server |
| **Unit discovery** (`unit_discovery.c`) | the unit table, the INQUIRY buffer | probe every address | DoIO in polling mode |
| **DMA pre-allocation** (`preallocate_unit_dma`, `free_unit_dma`) | ten objects for each of 16 slots, aliases of slot 0 | obtain, roll back, free | Open and Close, DoIO |
| **Capacity and geometry** (`scsi_cdb_helpers.c`, `exec_cmds/`, `ns_cmds/`) | cached capacity, shape of the partition table | READ CAPACITY, RDB probe, geometry, track count, CDBs | DoIO, whoever rewrites block 0 |
| **Command emulation** (`scsi_cmds/`) | the caller's `SCSICmd` | INQUIRY, VPD, LOG SENSE, ATA pass-through, pass-through | DoIO |

What makes this code hard to test:

* **A completion is taken by whoever looks.** Every task drains the shared ring. A request may be
  completed by its own unit's Harvest, by another unit's, or inside somebody's DoIO.
* **Work is split around the lock.** Harvest takes a completion under `io_lock`, completes it
  without, and frees the slot under it again; counters are stale in between.
* **The ISR and the device take no lock.** The ISR reads `active_units_mask` while tasks write it; the
  device may see a request before the driver has finished its bookkeeping.
* **Wakeups are counted, suppressed and cleared.** EVENT_IDX suppresses interrupts, DoIO clears
  its signal when it returns and counts wakeups instead of time.
* **Handshakes.** Start and shutdown of a task exchange signals with an `Open` or `Close` that
  blocks all others.
* **Release paths.** Init and the start of a unit obtain dozens of things in turn; every failure
  releases a different prefix of them, by hand.
* **A lock that only one side takes.** The unit task and AbortIO share `port_mutex`; `PutMsg`
  does not take it.
* **Answers in pieces.** Capacity and partition table are read by several commands while the disk's
  contents change; clients use result structures again.
* **Byte order.** The same `next` field is native on the free list and little-endian in a chain.

What makes each part correct:

| Part | Properties |
|---|---|
| Pipeline | slots neither lost nor given out twice, counters exact, one reply per request, no mapping left behind, units with counted requests in the mask |
| Pipeline and DoIO | the client gets the device's answer to *its* command; no lost wakeup; every request is replied |
| Descriptor table | free list and chains intact, nothing leaks |
| Virtqueue | behaves as a ring of requests; uses the table only with published heads; every completion is returned |
| Message port | the list stays linked, an aborting client never leaves it; it behaves as an abortable FIFO |
| Initialisation | all or nothing; released in order, once, and never under the device; driver and device agree; Init returns |
| DMA pre-allocation | all or nothing for every slot; no buffer freed while mapped |
| Commands | capacity, CDBs and geometry exact or clamped, never truncated; nothing answered from an old table or an old command; answers fit the buffer |
| Lifecycle | handshakes end; an open unit has a running task; no task touches a unit after the last close; every request is replied once; no buffer is freed under the device |

`PROJECT.json` lists the hazards line by line with the properties meant to catch them.

## 2. Modules

```
  DriverInit (extends UnitDma)      UnitCommands (extends ScsiCommand)
  UnitLifecycle                     PortQueue --implements--> FifoPort      (proved)
                      ScsiIO  (extends RequestRing)
                          |
                      RequestRing          abstract: what AddBuf/Kick/GetBuf promise
                          ^  implemented by                                 (proved)
                      VirtQueue  (extends DescTable)
                          |  implements DescTable too                       (proved)
                      DescTable

  proofs:  ScsiIOProofs <- ScsiIOSlotProofs        DescTableProofs <- VirtQueueProofs
           UnitLifecycleProofs   PortQueueProofs   DriverInitProofs   UnitCommandsProofs
```

The modules divide the driver by what can interfere: `DriverInit` is the time before any task runs
(and after the last), `UnitLifecycle` the coming and going of a task, `ScsiIO` the tasks at work, `PortQueue` how
requests reach them, `UnitCommands` what a task makes of each command. Where one
stands on another the promise is a module of its own (`RequestRing` for the queue, `FifoPort` for the
port: `ScsiIO` and `UnitLifecycle` treat the port as a sequence with an atomic removal).

### RequestRing
The promise of `virtqueue.c` to its callers: `cookies` by head, `posted` (published, not
notified), `dev` (at the device), `used` (completions not yet taken), and the indices the EVENT_IDX
rule needs. `AddBuf`, `Kick`, `GetBuf`, `SetUsedEvent` are the driver's calls; `GetBadId` is GetBuf on an
out-of-range id (NULL in `used`). The device is external: `DevicePoll`, `DeviceUse`,
`DeviceUseBad`, `DeviceNotify`.

### ScsiIO
The I/O engine, extending RequestRing (the ring is part of its state). One process per unit; `pc[u]` says where the
unit task stands. A section under `io_lock` is one step unless ISR or device can see its middle:
between AddBuf and the bookkeeping (`s_count`, `d_kick`) and between the last GetBuf of a Harvest
and the coalescing store (`h_coalesce`) the step is split and `io_lock` names the holder.

| Actions | Code |
|---|---|
| `BeginIO`, `AbortIO` | clients, `BeginIO.c:201-355` |
| `TaskWake`, `GetMsg`, `DispatchReply`, `KickBatch` | `UnitTask_Entry`'s loop, `UnitTask_Dispatch` |
| `SubmitPop`, `SubmitPrepare`, `SubmitAddBuf`, `SubmitCount`, `SubmitRelease` | `VirtIOSCSI_Submit` |
| `HarvestGetBuf`, `HarvestRoute`, `HarvestSignal`, `HarvestCoalesce` | `VirtIOSCSI_Harvest` |
| `CompleteStatus` (in the Route steps), `CompleteFree`, `CompleteReply` | `complete_inflight_slot` |
| `DoIOTry` ... `DoIODone` | `VirtIOSCSI_DoIO`, interrupt-driven form |
| `InterruptHandler`, `DeviceComplete`, `Device` | ISR; device (external) |

Data: a request is a model value of class Block, Sync or Quick; a response buffer holds one of a
few outcomes; `resp` after a reset reads as success, as the zeroed structure does in the
code. The cookie of a buffer is `<<unit, slot>>`: DoIO's cookie is slot 0's, as in the code. `req_id`
keeps the encoding `unit_num << 16 | slot`, and DoIO's constant 1, because routing decodes it.
History variables `publisher`, `answer` and `timed_out` serve the properties only.

`timed_out`: the bookkeeping properties are stated for behaviours in which no DoIO has given up.
After one has, a late completion carries the cookie of slot 0 and may be taken for a
pipelined request (see section 5).

### DescTable
`virtqueue.c` below the rings: `desc[]`, `free_head`, `num_free`, `cookies[]`,
`indirect_tables[]`. AddBuf and GetBuf are broken up descriptor by descriptor (`AddBufEnter`,
`AddBufTable`, `AddBufNoTable`, `AddBufDirect`, `AddBufRing`, `AddBufIdx`; `GetBufTake`, `GetBufFree`,
`GetBufDone`), so that the invariants also speak of the states in between. `vr16` is kept: chain fields
are in the device's byte order, free-list links are native. History: `published`, the chain a
descriptor belongs to (`where`), how many follow it there (`rank`), and `outs`.

### VirtQueue
DescTable with avail and used ring, wrapping 16-bit indices, every shared field as stored,
and a concurrent device. `StartDrain`, `GetEmpty`, `GetUsed`, `GetBadId`, `GetEnd` are the loop of
`VirtIOSCSI_Harvest` around GetBuf, and `CompletionsReturned` is a claim about that loop. DoIO's makes the same calls, so
the safety properties cover it too, but it stops at its own cookie; what it leaves in the ring is modelled in `ScsiIO`
(`DoIODrain`, `DoIOClear`). Two refinements are checked and proved: of RequestRing (mapping `Ring` at the end of the
module) and of DescTable (identity).

### UnitLifecycle
One unit from its first open to the expunge. Three kinds of processes: the Open, Close or Expunge in
progress (`mpc`; Exec runs one at a time), the unit task (`tpc`), and clients in BeginIO
(`cpc`). What happens to a request inside the task is reduced to: queued, in a slot, in DoIO, at
the device. Modelled step by step: `UnitTask_Start` and `UnitTask_Shutdown`, `UnitTask_Entry` with its failure paths, its loop and
its drains in order, and `TD_ADDCHANGEINT`/`TD_REMOVE`/`TD_REMCHANGEINT` with check, reply and store
as the two steps the code allows to be interleaved.

`BreakTask` reads `unit->task` in a step of its own, after `task_shutdown` was set; a NULL task loses
the signal. The end of a task is three steps: `ClearTask` captures the receiver of the exit signal and clears `unit->task`, `NotifyExit`
sends the signal, `TaskReturns` leaves the driver's code. `leaving` says which of the last two are ahead; the manager does not see it, so
Open, Close and Expunge may pass, and a new task start, meanwhile. A caller without a free signal bit looks at `unit->task`
and sleeps for `CTRL_C` in turns (`SleepForExit`, `WokenByBreak`); `mbreak` are the callers with a `CTRL_C` pending. `load`, chosen at the start from `Loads`, is the environment: whether clients wait for their I/O
before they close (`orderly`), whether `AllocSignal` can fail in the task (`signalsRunOut`) or in a closing client (`callersWithout`), whether DoIO may give
up, and which field each held request goes to. `DeviceBuffersLive` is
stated for orderly clients and loads in which no DoIO gives up (the request it gives up is
replied, so its sender may close while the device still has the buffers); the handshake properties for starts with signal bits (`SoundStarts`), see section 5.

### PortQueue and FifoPort
`PortQueue` is the list behind `io_port`: `ln_Succ` and `ln_Pred` of every node, the two end nodes of
Exec's `List`, `port_mutex`. `BeginIO` is `PutMsg` (under Exec's own protection, not under `port_mutex`), `BeginGet`,
`GetMsg`, `EndGet` the task's loop, `AbortIO` ... `AbortReply` the walk node by node and the `Remove` in
two steps, its reads and its writes. A replied request is linked into its client's reply port, so its `ln_Succ` leads off the
list. `queue` is history: the requests in the list, in order; `ListIntact` says the nodes are linked that way. `FifoPort` is the promise: send, receive the oldest, or catch a waiting
request. `PutMsgInRemove` says whether a `PutMsg` may fall between the two halves of `Remove`; Exec's `Remove` is short but not
atomic, so this is an assumption the code makes (section 5).

### UnitDma
`preallocate_unit_dma` and `free_unit_dma`, one step per call of Exec. `held` is the ledger Exec
would keep, `fields` what the driver's structures say; the code decides by `fields`, the properties are about `held`. A release path is
a sequence `todo` that is worked off from the front, so that the order of releases is part of
the behaviour. `FailPath` gives the path of each failing call, as the code has it.

### DriverInit
`_manager_Init` to `_manager_Expunge`, extending `UnitDma` (same ledger; `OpenAndClose` composes the two).

| Actions | Code |
|---|---|
| `OpenExpansion`, `GetIPCI`, `OpenUtility`, `GetIUtility` | `_manager_Init` |
| `FindDevice`, `GetBars`, `DetectModernVirtIO` | `pci_discovery.c`, `pci_modern_detect.c` |
| `ResetDevice`, `NegotiateFeatures`, `SelectQueue`, `AllocateQueue`, `PublishQueue`, `DriverOk` | `InitVirtIOSCSI`, `InitVirtIOSCSI_Modern`, `VirtQueue_Allocate` |
| `InstallVirtIOInterrupt` | `virtio_irq.c` |
| `AllocInquiry`, `NextProbe`, `Identify` | `DiscoverUnits` |
| `TempAlloc`, `MapRequest`, `MapResponse`, `BeginTry`, `AddProbe`, `PollTakes`, `PollTimesOut`, `CheckProbe` | `VirtIOSCSI_DoIO` without a unit |
| `Expunge`, `CleanupVirtIOSCSI`, `GiveBack` | `Expunge.c`, the failure path of Init |
| `DeviceAnswers` | device (external) |

`hw` is the machine: which device, what its bridge forwards, what firmware left in the command register and
in BAR 5, queues, features, and what answers at each address. Legacy and modern mode share the actions; `modern_mode` selects what
differs (features, registers, whether FEATURES_OK may be refused). `timedOut` is history: properties about probes are stated
for scans without a timeout, except `ProbeMemoryLives`, which `late_inquiry` violates.

### ScsiCommand and UnitCommands
`ScsiCommand` has the `HD_SCSICMD` handlers as operators from a command and the caller's structure to the
structure after it. `UnitCommands` runs commands one after another on one unit: `BlockIO` builds the CDB byte by byte,
`GetGeometry`, `ReadCapacity10`, `ReadCapacity16` are `ensure_geometry_cached` with a step per disk command, `GetNumTracks`,
`Probe`, `ReadBlock0`, `ReadPartition`, `ReportTracks` the RDB probe, `ScsiCmd` and `Inline` the rest. `Repartition` (external)
rewrites block 0 or the partition block between any two steps. Widths are kept but
scaled: a byte has `ByteBase` values. `Addressed` reads a CDB as the disk does and is the reference for
`CdbExact`. A caller is either a mounter or an `HD_SCSICMD` tool (`client`): the two share
no state but the caches, which `HD_SCSICMD` does not touch. `wrapped` is history: the blocks per cylinder of the cached table, by
its header or by its partition block, exceed 32 bits, so that the products of the driver's two checks may wrap and the checks say nothing.

## 3. Runs

All runs: `tlc -workers 2 -config <cfg> <module>`. Deadlock checking is off where the system may
come to rest (clients have a finite set of requests); the queue runs keep it on.

| Run | Checks | Shows |
|---|---|---|
| `event_idx` | `EveryRequestReplied` | One unit, three slots, interrupt coalescing: no threshold loses the last completion. |
| `doio` | `TypeOK`, `SlotPartition`, `CountsExact`, `RepliedOnce`, `MaskCoversPipeline`, `TruthfulReplies`, `NoLostWakeup` | DoIO on one unit beside two pipelined requests on the other: inline harvest, stash, retry on CHECK CONDITION, failing StartDMA and AddBuf, aborts. Bookkeeping, answers and wakeups survive. |
| `two_doio` | `EveryRequestReplied` | DoIO on both units, each handing the other's completion over, before a polling device. |
| `virtqueue` | `TypeOK`, `FreeListIntact`, `ChainsIntact`, `NothingLeaks`, `ImplementsRequestRing`, `ImplementsDescTable`, `CompletionsReturned` | The whole queue, direct, indirect and fallback, with swapped fields, against a polling device that may return bad ids. |
| `lifecycle` | `LTypeOK`, `NoOrphan`, `OpenMeansRunning`, `ClosedMeansStopped`, `DeviceBuffersLive`, `ManagerReturns`, `EveryIoReplied` | Two clients in any order of open, I/O, hold, close, expunge; starts fail; three loads: hasty clients and a DoIO that gives up; polite clients, one of which may have no signal bit when it closes; polite clients and a task without signal bits. |
| `port_queue` | `PortInv` (`PortTypeOK`, `ListIntact`, `WalkInside`), `PortIsFifo`, `EveryRequestReplied` | Three clients send and abort while the task drains; one sends again. Deadlock is checked (an AbortIO may always be called). |
| `bring_up` | `InitAllOrNothing`, `ReleasesSound` (`InitTypeOK`, `ReleaseOrder`, `NothingReleasedTwice`), `PreallocAllOrNothing`, `MappedMemoryLives`, `DeviceMemoryLives`, `DeviceAgrees`, `UnitTableExact`, `InitReturns` | Seven machines, every call may fail, probes are retried or time out, units are opened and closed, the driver is expunged. |
| `commands` | `CachesSound` (`CommandsTypeOK`, `CapacityExact`, `RdbFits`), `CdbExact`, `SizeReported`, `TracksFresh`, `ScsiAnswerSound` (`ScsiAnswerTruthful`, `AnswerFits`) | Disks around every width limit, tables that change under the probe, one of them with products that wrap, a caller that uses its structures again. |
| `coalescing` | violates `NoLostWakeup` | see section 5 |
| `no_slot` | violates `TruthfulReplies` | see section 5 |
| `late_inquiry` | violates `ProbeMemoryLives` | see section 5 |
| `log_sense` | violates `AnswerInBuffer` | see section 5 |

**Bounds.**
Two units are the least in which a completion is taken by a foreign task, and a task's code
depends on no more than one other unit at a time. Two slots are the least with an order
on the free list and a slot other than 0; `event_idx` has three so that a coalesced threshold can
be overtaken in the middle. A ring of two or three heads is full within the runs. `IdxMod` and `Word` are
small so that indices wrap several times; the arithmetic is that of `% 2^16`. The byte
swap is bit reversal on three bits, an involution that, like `bswap16`, moves every index in use (`Num` = 2: a
native link taken for a swapped one leads out of the table or to the wrong descriptor).
`virtqueue` has one cookie value: the cookie is stored and fetched by head, and heads are distinguished. `MaxWakes`
is large enough for every wakeup another task can cause, so DoIO gives up only where that is the question; `MaxTries` is 2
so that both a retry and the last attempt occur. In `doio` the device always answers
CHECK CONDITION: a response that was reset and not yet written reads as success, so this is the answer that tells a
premature or foreign completion from the right one, and every synchronous command is retried. `lifecycle` has two
clients, each with one I/O request, and two held requests: the least for a close beside an open and for a full field; one
task at a time may stand between the clearing of `unit->task` and its return (`ClearTask`). `port_queue` has three
requests: a node with two neighbours can be removed while a fourth step sends one again. In `bring_up` two slots are the
least whose roll-back meets a complete and a half-built slot, two entries in the unit table and three disks overflow it, two
tries are a retry and the last one, and only the first probe may time out, so that the next one meets its late answer; the
seven machines are the platforms the sources name and their odd neighbours (`MCMachines`). In `commands` a byte has two values, so that disks of 15, 16 and 17 blocks
stand on both sides of `2^32`, and those of 60 and 68 on both sides of what 32-bit cylinders can hold; requests straddle 16-bit counts and 32-bit
addresses at both block sizes; LOG SENSE comes with buffers shorter and longer than what it asks for.

No passing run of ScsiIO gives one unit both block requests and synchronous commands: the code does not survive that (section 5). For
the bookkeeping, whose properties hold there too, the theorems of section 4 have no such restriction.

**Fairness.** `ScsiIO!Fairness`: weak fairness for each task (Exec runs a ready task; a task blocked
on `io_lock` is served in order of arrival and every holder releases it), for the interrupt, and for the device (it
answers what it was notified of and then decides about the interrupt). Clients
owe nothing. `VQFairness`: calls in progress finish; `SF` for the drain and the calls in it because they compete for
`io_lock`, which is FIFO, with callers of AddBuf. `UnitLifecycle!Fairness`: manager,
task and device make progress, a client inside BeginIO and a task that has cleared `unit->task` leave it. `PortQueue!FairSpec`: every task that can run
runs, the unit task gets `port_mutex` in its turn (`SF`; Exec's mutexes queue their waiters) and finishes what it took
(`ScsiIO`). `DriverInit!FairSpec`: Init runs on, and a device that was given queues answers; a probe may time out only where
`Slow` lets it.

## 4. Proofs

`tlapm <module>`. Every theorem holds for every value of the constants that satisfies the module's assumptions.

| Module | Theorem | States |
|---|---|---|
| `DescTableProofs` | `DescInvariant` | `Spec => []DescInv` (inductive invariant) |
| | `TypeCorrect`, `FreeListSafe`, `ChainsSafe`, `NoLeak` | `TypeOK`, `FreeListIntact`, `ChainsIntact`, `NothingLeaks` |
| `VirtQueueProofs` | `VQInvariant` | `VQSpec => [](DescInv /\ RingsInv)` |
| | `RefinesDescTable` | `VQSpec => ImplementsDescTable` |
| | `VQTableSafe` | the four properties of the table, of the whole queue |
| | `RefinesRequestRing` | `VQSpec => ImplementsRequestRing` |
| `ScsiIOProofs` | `BasicInvariant` | `Spec => []BasicInv` (types, locations, lock, ring) |
| | `ScsiIOTypeCorrect`, `MaskSafe` | `TypeOK`, `MaskCoversPipeline` |
| `ScsiIOSlotProofs` | `SlotInvariant`, `SlotsSafe` | `SlotInv`, `SlotPartition` |
| | `CountsSafe` | `CountsExact` |
| | `RequestInvariant`, `RepliedOnceSafe` | `RequestInv`, `RepliedOnce` |
| | `TruthfulUnlessShared` | `Spec /\ []SlotZeroIdle => [](~timed_out => TruthfulReplies)` |
| | `TruthfulIfKeptApart` | `KeptApart` implies `Spec => [](~timed_out => TruthfulReplies)` |
| `UnitLifecycleProofs` | `ControlInvariant` | `Spec => []ControlInv` |
| | `LifecycleTypeCorrect`, `RunningSafe`, `StoppedSafe` | `LTypeOK`, `OpenMeansRunning`, `ClosedMeansStopped` |
| | `IoInvariant`, `BuffersSafe` | `IoInv`, `DeviceBuffersLive` |
| | `HoldInvariant`, `NoOrphanSafe` | `SingleHolder` implies `Spec => []HoldInv`, `Spec => []NoOrphan` |
| `PortQueueProofs` | `PortInvariant`, `PortSafe` | `~PutMsgInRemove` implies `Spec => []IndInv`, `Spec => []PortInv` |
| | `PortRefinesFifo` | `~PutMsgInRemove` implies `Spec => PortIsFifo` |
| `DriverInitProofs` | `DriverInvariant` | `Spec => []DriverInv` (the books, what each station holds, what the device knows) |
| | `InitAlwaysAllOrNothing`, `ReleasesAlwaysSound` | `InitAllOrNothing`, `ReleasesSound` |
| | `PreallocAlwaysAllOrNothing`, `MappedMemoryAlwaysLives` | `PreallocAllOrNothing`, `MappedMemoryLives` |
| | `DeviceMemoryAlwaysLives`, `DeviceAlwaysAgrees`, `UnitTableAlwaysExact` | `DeviceMemoryLives`, `DeviceAgrees`, `UnitTableExact` |
| `UnitCommandsProofs` | `CommandsInvariant` | `Spec => []CommandsInv` |
| | `CachesAlwaysSound`, `TracksAlwaysFresh`, `SizeAlwaysReported` | `CachesSound`, `TracksFresh`, `SizeReported` |
| | `CdbAlwaysExact`, `ScsiAnswersAlwaysSound` | `CdbExact`, `ScsiAnswerSound` |

**Assumptions.** `DescAssumption` (the queue has room for the longest request and its size fits a ring field; `NULL`
is no number), `SwapAssumption` (the byte swap is an involution on words and keeps 0), `VirtQueueAssumption` (the number of index
values is a multiple of the queue size, both being powers of two), `RingAssumption`, `ScsiIOAssumption`,
`LifecycleAssumption`, `PortAssumption`, `UnitDmaAssumption` (a unit has slots), `DriverInitAssumption` (a machine has some of the
two BARs, answers INQUIRY at each address in one of three ways, and its request queue some room; any bridge, firmware,
features and queues will do), `CommandsAssumption` (disks, blocks, tables and requests fit their fields; nothing about products; the cap on cylinders is a power of two), `IdAssumption`. TLC evaluates each in
the runs. Some theorems have a hypothesis beside them, and section 5 has the behaviour that breaks the property without it:
`SingleHolder`: the change-notification requests of a field come from one client (BeginIO takes no lock between the
reply of the old and the store of the new one); `~PutMsgInRemove`: a `PutMsg` does not fall between the halves of a `Remove`;
`SlotZeroIdle`: no DoIO starts while a request of the pipeline occupies slot 0, whose buffers both use; `KeptApart`, on the constants, implies
it: a unit is sent either block requests, at most `MAX_INFLIGHT`, or synchronous commands (the instance of run `doio` is one).
Inside the properties of ScsiIO stands `~timed_out` (no DoIO gave up), inside those of UnitLifecycle the load
(`SoundStarts`, `orderly`, `doioGivesUp`).

None of the properties is inductive. What each invariant adds, and why it is needed:

* **DescTable.** `FreeListIntact` says the free descriptors are one list, but giving a chain back walks links that belong
  to the *chain*; that those lead through it, each descriptor once, and end where the flags say, has to be known too, in
  the device's byte order. `DescInv` adds `Owned` (a descriptor not free belongs to a request somebody holds), `Places` (no two
  descriptors of a list have one rank), `Links` (a link leads to the rank below, except the last one of a growing chain, which
  leads to the top of the free list), `EndMarks` (NEXT is set exactly above rank 0), `HeldChains` and `CallState`.
  The history variable `rank` replaces an induction along the list.
* **VirtQueue.** GetBuf believes the id in a used entry. That it is published, and will not come back, follows because every
  head is in at most one of: the entries of the avail ring, the device's hands, the entries of the used ring (`AvailOK`,
  `UsedOK`). That no entry is overwritten unread is a count (`Counted`): entries and heads at the device are
  never more than published heads, so neither index laps the other. Distances of indices are
  taken modulo the index range (`Push`, `Pop`, `Fresh`, `PosDiffer`); that a ring position is not hit twice within one lap
  needs the range to be a multiple of the queue size. The refinement of RequestRing adds `CookiesOK`, and
  writes the ring between two indices as a set (`Slice`) or sequence (`Reports`).
* **ScsiIO.** A published cookie is one *token*: in the ring, in the hands of a task that took it, or stashed.
  A slot is freed once because its cookie is one token; the exception is slot 0, whose cookie DoIO publishes a second time, and
  there the invariant shows that `req_id` no longer names the slot, so no completion frees it (`SlotInv`). For replies,
  `RequestInv` says a request not answered is in one place: the port, the dispatcher, a slot, or one task about to reply.
  For their truth, `AnswerInv` gives the buffers of each token an `Owner` (the request in the slot, or the one whose DoIO is under way) and
  says that the head was published for that request and that, once the head is in the used ring, the response buffer holds the
  device's answer to it, through routing, stash and retry. It survives every step but the one that writes a header into buffers under
  way, and that is DoIO's on slot 0: `SlotZeroIdle`. Under `KeptApart` that never happens, because `VirtIOSCSI_Submit` cannot run out of
  slots (an injection of the slots into the unit's requests other than the one in hand, `SlotLeft`) and so never falls back to DoIO.
* **UnitLifecycle.** `ControlInv` says, for every station of the manager and of the task, what of the unit exists, and
  that the exit signal is pending, or on its way in a leaving task, only while somebody waits for it: nothing less excludes that a stale
  signal ends a wait early. The `CTRL_C` of the fallback has no such owner; there the caller looks at `unit->task` again. `IoInv` puts each request in one place and `HoldInv` each held one.
* **PortQueue.** `ListIntact` alone does not survive a walk. `WalkInv` says a walk stands on a node that is not past the
  request it looks for, and that a `Remove` still has the right neighbours; `MutexInv` why nobody else removes meanwhile.
* **DriverInit, UnitDma.** None of the properties survives the first step of a release path: what they promise holds when the
  path is worked off. So the proof keeps books. `Rest` is what will be held then, and `DriverInv` says for every station of Init, of
  the scan, of the queue set-up and of the unit's start exactly what is in it (`LibRest`, `QueueRest`, `TempRest`, `UnitRest`,
  `SlotRest`). `Users` is the table of what is built on what; a release path is a `Plan` if every entry is held, comes once,
  and comes after its users. `ReleaseOK` then does all of the release steps at once: giving back the first entry of a plan leaves a
  plan, the foundations of what is left, and the same `Rest`. What remains is one lemma per release path of the code: that the
  calls it lists, in its order, are a plan for what its station holds (`PlanConcat` puts paths together; `FailPathPlan` covers the ten
  failure paths of a slot, `QueueFailPlan` the six of a queue, `CleanupPlan` the reset path of Init and Expunge). `Device` says which
  registers the writes reach: memory cycles that passed the probe in `DetectModernVirtIO` pass until the end, because
  `EnableMemory` leaves a command register alone in which the bit is set. `Calm` says that without a timeout the device has at most the chain of the probe under way.
* **UnitCommands.** `CommandsInv` adds to the properties what a command in progress has behind it (`Stations`), that a
  cached partition table is one whose header was on the disk while the command ran, and, unless its products wrapped, one whose cylinders
  fit 32 bits and the disk (`RdbInv`; `wrapped` is set as soon as the header or the partition block has a larger one), and what a
  report can be (`Reported`). `CdbExact` needs arithmetic that holds for every byte width: a number below `ByteBase^n` is the sum of
  the bytes the CDB has of it (`TwoBytes` to `EightBytes`, from `DivModUnique`). `SizeReported` needs the least power of two that
  brings the cylinders under the cap (`LeastNat`, by well-founded induction).

Not proved, model-checked only:

* all liveness (`EveryRequestReplied`, `CompletionsReturned`, `ManagerReturns`, `EveryIoReplied`, `InitReturns`): out of the prover's reach;
* `NoLostWakeup`: not true of every instance (run `coalescing`), so the run shows the part that holds;
* `ProbeMemoryLives` and `AnswerInBuffer`: runs `late_inquiry` and `log_sense` show that they are false.

Every other invariant and every refinement the runs check is stated by a theorem.

## 5. Where code and comments disagree

Found while modelling, each reproduced by a run:

* **`coalescing`** (`virtio_scsi_io.c:1084`). Harvest computes `used_event` from `occupied_count`, which still
  counts a request another task has taken off the ring and not yet freed. The threshold is one completion too far;
  the comment at line 1097 relies on a GetBuf that happened before the store. The last completion raises no interrupt.
* **`no_slot`** (`unit_task.c:652`). Without a free slot the request goes through DoIO on slot 0's buffers, which are at
  the device by definition. The comment at `virtio_scsi_io.c:706` asks the caller to queue it.
* **`late_inquiry`** (`unit_discovery.c:119`). A probe that times out leaves its buffers to the device on purpose
  (`virtio_scsi_io.c:645`) and expects Init to fail. The scan goes on instead, with the same INQUIRY buffer, and frees it at the end. The next probe also
  takes the late cookie for its own (`:570`), so that a disk can be registered at the wrong address (`UnitTableExact` without `timedOut = {}`).

* **`log_sense`** (`scsi_log_sense.c:97`). LOG SENSE cuts its page to the CDB's allocation length and copies it without a look at
  `scsi_Length`; every other emulated command checks the buffer (`scsi_inquiry.c:9`). `AnswerFits`, which the passing run checks and
  the theorem proves, leaves out a LOG SENSE that asks for more than its buffer holds.

The model shows more of them; each is one change of a configuration or of a property away:

| Change | Property violated | Reason |
|---|---|---|
| `ScsiIO_doio.cfg` with `DevicePolls = TRUE` | `NoLostWakeup` | Submit publishes a request before it sets the unit's bit in `active_units_mask` (`virtio_scsi_io.c:918`); a device that does not wait for the notify completes it in between and the ISR signals nobody; `virtioscsi.h:74` calls the races on the mask benign |
| `ScsiIO_no_slot.cfg` with `Block = {q1}`, `Sync = {q2}` | `TruthfulReplies` | any synchronous command while slot 0 is in flight, same cause as `no_slot` |
| `ScsiIO_no_slot.cfg` with `Block = {q1, q3}`, `Sync = {q2}` and the constraint `cur[0] \in Sync => inflight[0][0] = NULL` (a synchronous command only with slot 0 idle) | `NoLostWakeup` | the last pipelined request takes the unit's bit out of `active_units_mask` (`virtio_scsi_io.c:203`) while the unit's DoIO, which `inflight_count` does not count, is at the device; the ISR signals nobody and DoIO waits for ever, where `virtioscsi.h:72` says the bit stands for pending requests |
| the same, at rest with `pc[0] = "wait"` | `NoLostWakeup` | DoIO leaves its loop at its own cookie and then drops the signal of a completion that came after it (`virtio_scsi_io.c:563`, "clear any extra signals that arrived"); the pipelined request stays in the used ring until the next interrupt |
| `ScsiIO_doio.cfg` with `Block = {q3}`, `Sync = {q1, q2}`, `Direct = {}`, `MaxWakes = 2` | `TruthfulReplies` | a completion after DoIO gave up is taken for the answer to the next command (`virtio_scsi_io.c:589` calls it harmless) |
| `VirtQueue.cfg`, `CompletionsReturned` without `BehindBadId` | `CompletionsReturned` | GetBuf returns NULL for a bad id although the ring has advanced (`virtqueue.c:348`), the loop ends, `used_event` is stale: the completions behind it are stranded until a Harvest with another cause |
| `UnitLifecycle.cfg` with `Loads <- RivalLoads`, `ClientOf <- TwoHolders`, `Io = {}` | `NoOrphan` | two clients' `TD_ADDCHANGEINT` interleave between check and store (`BeginIO.c:53`); one request is overwritten and never replied |
| `UnitLifecycle.cfg`, `OpenMeansRunning` without `SoundStarts` | `OpenMeansRunning` | without a signal bit the task signals its parent before it takes the port back (`unit_task.c:351`) |
| `UnitLifecycle.cfg` with `doioGivesUp` in `Polite` | `DeviceBuffersLive` | the last close frees buffers of a command DoIO gave up on (`unit_task.c:606`) |
| `UnitLifecycle.cfg` with invariant `inflight_count = Cardinality(inflight)` | that | with hasty clients the shutdown drain clears slots but no counts (`unit_task.c:428`), and the next opener inherits them; `virtioscsi.h:200` calls it the count of occupied slots |
| `UnitLifecycle.cfg` with invariant `expunged => leaving = "no"` | that | Close and Expunge may return, and the driver be unloaded, while its task has the exit signal or its return ahead (`unit_task.c:492-496`); `unit_task.h:32` says UnitTask_Shutdown "Blocks until the task has fully exited". In the fallback the signal may then reach a caller that is gone |
| `PortQueue.cfg` with `PutMsgInRemove = TRUE` | `PortInv` (`ListIntact`) | `PutMsg` does not take `port_mutex`; if it falls between the reads and the writes of AbortIO's `Remove` (`BeginIO.c:343`) the new message is unlinked |
| `UnitCommands.cfg`, `SizeReported` with `chs = disk.blocks` always | `SizeReported` | cylinders times sectors is less than the disk when the count exceeds 32 bits and is not a multiple of 256, where `cmd_td_getgeometry.c:45` promises an exact product |
| `UnitCommands.cfg`, `RdbFits` without `~wrapped` | `CachesSound` | the product of the check in 64 bits (`scsi_cdb_helpers.c:287`) and that of the shapes in 32 (`:348`) wrap, and a table larger than the disk is accepted, where `:285` says "factor into something <= total_blocks" |
| `UnitCommands.cfg`, `CdbExact` without `issued.known` | `CdbExact` | block I/O before the first geometry query assumes 512-byte blocks (`unit_task.c:626`) |

Smaller remarks:

* `virtioscsi.h:171` says the stash is written under `io_lock`; Harvest writes it without (`virtio_scsi_io.c:1037`).
* `unit_task.c:587` captures `unit->task` "before it clears itself", but after `task_shutdown` was set; a task at the end
  of a round can be gone by then (harmless: `ManagerReturns` holds).
* Without an interrupt server (`Init.c:92` goes on in "polling mode") DoIO polls but nothing wakes the unit task for pipelined
  requests.
* `cmd_td_getnumtracks.c:9` says it reports the shape TD_GETGEOMETRY uses, and `scsi_cdb_helpers.c:193` that the table is probed on every
  TD_GETGEOMETRY; only TD_GETNUMTRACKS looks at the partition table.
* A failed pass-through reports `io_Actual` as if everything was transferred; the error paths of LOG SENSE and READ CAPACITY
  leave `scsi_Actual` as it was; pass-through commands that end
  in CHECK CONDITION never fill the sense buffer.
* The command register is left alone when only one of MEMORY and MASTER is set (`pci_modern_detect.c:139`); the probe then
  falls back to legacy mode, or works without bus mastering.
* `Handle_NS_TD_IO64` is never called; if it were, NSCMD_ETD_READ64 would be a write.

## 6. What is not modelled

* Register offsets and accessors (`virtio_pci_modern.h`, the `mmio` macros) and the memory layout of a ring: data, no control.
* The walk over PCI capabilities: its outcome is part of the machine (`hw.common`).
* How user data is split into DMA segments and bounced: the mapping succeeds or fails.
* Contents of emulated pages (INQUIRY strings, SMART attributes, log parameters): only their lengths.
* A client that calls BeginIO during its own CloseDevice, or without having the unit open: a client error BeginIO does not guard
  against (`Begin`), so no request arrives while the last close takes the port away.
* The driver after an Init without interrupt server (see above).
* ScsiIO has units open throughout and a device without bad ids; UnitLifecycle has one unit; UnitCommands has one
  unit whose commands do not overlap (the unit task runs them one by one).
* `device.c` (constant tables), `cmd_names.c` and all debug output; `Handle_NS_TD_IO64`, which nothing calls; tests, installer and tools.

## 7. Where it stands

Every component that changes state is modelled, and every property of a passing run is proved, where section 4 says so under a
hypothesis, except liveness and `NoLostWakeup`.

What could follow, in order of worth:

1. **Runs without an interrupt server**: the unit task polls nothing then (section 5); a model of that mode would say which
   requests are never replied.
2. **Block I/O and synchronous commands on one unit**: once the driver keeps the two apart (section 5), `NoLostWakeup` and
   `TruthfulReplies` should hold there as well, and `SlotZeroIdle` would follow.
3. **UnitLifecycle and DriverInit together**: an expunge may find a unit's task still leaving (section 5), where
   `DriverInit` takes it for gone (`dma_pc = "idle"`).
