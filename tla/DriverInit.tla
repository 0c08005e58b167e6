----------------------------- MODULE DriverInit -----------------------------
(***************************************************************************)
(* The driver from _manager_Init to _manager_Expunge: libraries, PCI       *)
(* discovery and the choice between legacy and modern VirtIO               *)
(* (pci_discovery.c, pci_modern_detect.c), device and queue set-up         *)
(* (virtio_init.c, VirtQueue_Allocate), the interrupt server, the scan for *)
(* units (unit_discovery.c with the discovery path of VirtIOSCSI_DoIO),    *)
(* the buffers of an open unit (UnitDma) and the way back.                 *)
(*                                                                         *)
(* Every call that obtains something may fail.  hw is the machine the      *)
(* driver finds itself on; it and the device are external.                 *)
(***************************************************************************)
EXTENDS UnitDma

CONSTANTS
  MAX_UNITS,     \* entries of devBase->units (8)
  Tries,         \* attempts of one DoIO (3)
  Slow,          \* probes the device may leave unanswered for 500000 polls
  Machines       \* the machines to start on: records like hw below

ASSUME DriverInitAssumption ==
  /\ MAX_UNITS \in Nat \ {0} /\ Tries \in Nat \ {0}
  /\ Slow \subseteq Nat
  /\ \A m \in Machines : /\ m.bars \subseteq {"bar0", "bar4"} /\ m.common \in BOOLEAN
                         /\ m.luns \in Seq({"disk", "other", "absent"}) /\ m.room \in Nat

VARIABLES
  \* The machine: id ("transitional", "modern_only", "none"), bars it gives,
  \* common (a COMMON_CFG capability in an available BAR), transparent (the
  \* bridge forwards memory cycles), bar5 (the high half of BAR 4: "zero",
  \* "ones" or some "high" address),
  \* features, queues (indices with q_max > 0), room (requests the request
  \* queue has descriptors for), luns (what answers at each address: "disk",
  \* "other" or "absent").
  hw,
  pci_cmd, bar5,               \* configuration space
  modern_mode, common_cfg_base,
  ipc,           \* where Init, the driver, or Expunge is
  q, qstage,     \* queue loop, and the next call of VirtQueue_Allocate
  vqflags,       \* modern, use_indirect, use_event_idx of each vqs[q]
  \* The device: its status register, queues it was given, features it agreed.
  status, enabled, negotiated,
  units,         \* the probe each registered unit was found by
  probe, tries,  \* address of the scan, and tries left in its DoIO
  inqData,       \* what the INQUIRY buffer says
  resp,          \* response buffer of each probe
  pending, used, \* chains the device has, and cookies it has returned
  timedOut       \* probes that gave up

machineVars == <<hw, pci_cmd, bar5, modern_mode, common_cfg_base>>
queueVars == <<q, qstage, vqflags>>
deviceVars == <<status, enabled, negotiated>>
scanVars == <<units, probe, tries, inqData, resp, pending, used, timedOut>>
initVars == <<machineVars, ipc, queueVars, deviceVars, scanVars>>
vars == <<ledgerVars, dmaVars, initVars>>

Queues == 0 .. 2
Probes == 1 .. Len(hw.luns)

Lib(names) == Of(names, NULL)
One(n) == <<n, NULL>>

Init ==
  /\ hw \in Machines
  /\ pci_cmd = hw.cmd /\ bar5 = hw.bar5
  /\ modern_mode = FALSE /\ common_cfg_base = FALSE
  /\ ipc = "expansion"
  /\ q = 0 /\ qstage = 1
  /\ vqflags = [n \in Queues |-> {}]
  /\ status = "reset" /\ enabled = {} /\ negotiated = {}
  /\ units = <<>> /\ probe = 0 /\ tries = 0
  /\ inqData = "disk"
  /\ resp = [p \in Probes |-> "ok"]
  /\ pending = {} /\ used = <<>> /\ timedOut = {}
  /\ held = {} /\ fields = {} /\ todo = <<>>
  /\ DmaInit

---------------------------------------------------------------------------
\* A step of the driver: it waits until a release path has been worked off.
At(pc) == ipc = pc /\ todo = <<>>

\* A call that obtains r; when it fails, undo is released and the driver
\* continues at bad.
Acquire(r, good, undo, bad) ==
  \/ Grant(r) /\ ipc' = good /\ UNCHANGED todo
  \/ todo' = undo /\ ipc' = bad /\ UNCHANGED <<held, fields>>

\* What Init releases once the PCI device was found, for the call that failed.
ReleaseBars == IfSet("bar0", NULL) \o IfSet("bar4", NULL) \o IfSet("pciDevice", NULL)
ReleaseIPCI == Lib(<<"IPCI", "ExpansionBase">>)
ReleaseAll == ReleaseBars \o Lib(<<"IUtility", "UtilityBase">>) \o ReleaseIPCI

OpenExpansion ==
  /\ At("expansion")
  /\ Acquire(One("ExpansionBase"), "ipci", <<>>, "failed")
  /\ UNCHANGED <<dmaVars, machineVars, queueVars, deviceVars, scanVars>>

GetIPCI ==
  /\ At("ipci")
  /\ Acquire(One("IPCI"), "find", Lib(<<"ExpansionBase">>), "failed")
  /\ UNCHANGED <<dmaVars, machineVars, queueVars, deviceVars, scanVars>>

\* DiscoverVirtIOSCSI: 0x1004, then 0x1048; a high half of BAR 4 that a sizing
\* probe left as all ones is zeroed before the ranges are asked for.
FindDevice ==
  /\ At("find")
  /\ IF hw.id = "none"
     THEN /\ todo' = ReleaseIPCI /\ ipc' = "failed"
          /\ UNCHANGED <<held, fields, bar5>>
     ELSE /\ Grant(One("pciDevice")) /\ ipc' = "bars"
          /\ bar5' = IF bar5 = "ones" THEN "zero" ELSE bar5
          /\ UNCHANGED todo
  /\ UNCHANGED <<dmaVars, hw, pci_cmd, modern_mode, common_cfg_base,
                 queueVars, deviceVars, scanVars>>

\* GetResourceRange of BAR 0 and BAR 4, either of which may be missing.
GetBars ==
  /\ At("bars")
  /\ LET got == {One(b) : b \in hw.bars}
     IN held' = held \cup got /\ fields' = fields \cup got
  /\ ipc' = "detect"
  /\ UNCHANGED <<todo, dmaVars, machineVars, queueVars, deviceVars, scanVars>>

\* Whether memory cycles reach the device's registers.
MmioWorks(cmd) == hw.transparent /\ bar5 = "zero" /\ "MEMORY" \in cmd

\* PCI_COMMAND is left alone as soon as one of the two bits is set.
EnableMemory(cmd) ==
  IF cmd \cap {"MEMORY", "MASTER"} = {} THEN {"MEMORY", "MASTER"} ELSE cmd

ProbeSkipped(cmd) == TRUE                    \* mutant: capabilities believed
\* ACKNOWLEDGE written to the status register reads back.
ProbeMmio(cmd) == MmioWorks(cmd)

\* DetectModernVirtIO: the capability walk, then the probe of the status
\* register, which leaves a reachable device reset.
DetectModernVirtIO ==
  /\ At("detect")
  /\ common_cfg_base' = hw.common
  /\ pci_cmd' = IF hw.common THEN EnableMemory(pci_cmd) ELSE pci_cmd
  /\ modern_mode' = (hw.common /\ ProbeMmio(pci_cmd'))
  /\ ipc' = "utility"
  /\ UNCHANGED <<ledgerVars, dmaVars, hw, bar5, queueVars, deviceVars, scanVars>>

OpenUtility ==
  /\ At("utility")
  /\ Acquire(One("UtilityBase"), "iutility",
             ReleaseBars \o ReleaseIPCI, "failed")
  /\ UNCHANGED <<dmaVars, machineVars, queueVars, deviceVars, scanVars>>

GetIUtility ==
  /\ At("iutility")
  /\ Acquire(One("IUtility"), "reset",
             ReleaseBars \o Lib(<<"UtilityBase">>) \o ReleaseIPCI, "failed")
  /\ UNCHANGED <<dmaVars, machineVars, queueVars, deviceVars, scanVars>>

---------------------------------------------------------------------------
\* InitVirtIOSCSI and InitVirtIOSCSI_Modern.

\* A write to a device register arrives on the path the mode selects.
Reaches ==
  IF modern_mode THEN MmioWorks(pci_cmd) ELSE One("bar0") \in held

\* Reset, ACKNOWLEDGE, DRIVER.  Legacy mode has no registers without BAR 0.
ResetDevice ==
  /\ At("reset")
  /\ pci_cmd' = IF modern_mode THEN EnableMemory(pci_cmd) ELSE pci_cmd
  /\ IF ~modern_mode /\ One("bar0") \notin fields
     THEN ipc' = "cleanup" /\ UNCHANGED status
     ELSE /\ ipc' = "features"
          /\ status' = IF Reaches THEN "driver" ELSE status
  /\ q' = 0
  /\ UNCHANGED <<ledgerVars, dmaVars, hw, bar5, modern_mode, common_cfg_base,
                 qstage, vqflags, enabled, negotiated, scanVars>>

\* Indirect descriptors only in modern mode, where both sides are little-endian.
AcceptedFeatures ==
  hw.features \cap IF modern_mode THEN {"INDIRECT_DESC", "EVENT_IDX"}
                   ELSE {"EVENT_IDX"}

\* Legacy has no FEATURES_OK; a modern device may reject what was chosen.
NegotiateFeatures ==
  /\ At("features")
  /\ \/ /\ negotiated' = AcceptedFeatures
        /\ status' = IF modern_mode THEN "features_ok" ELSE status
        /\ ipc' = "queue"
     \/ /\ modern_mode
        /\ status' = "failed" /\ ipc' = "cleanup"
        /\ UNCHANGED negotiated
  /\ UNCHANGED <<ledgerVars, dmaVars, machineVars, queueVars, enabled, scanVars>>

\* One round of the queue loop; a queue of size 0 is skipped.
SelectQueue ==
  /\ At("queue")
  /\ IF q \notin Queues THEN ipc' = "driver_ok" /\ UNCHANGED <<q, qstage>>
     ELSE IF q \in hw.queues THEN ipc' = "qalloc" /\ qstage' = 1 /\ UNCHANGED q
     ELSE q' = q + 1 /\ UNCHANGED <<ipc, qstage>>
  /\ UNCHANGED <<ledgerVars, dmaVars, machineVars, vqflags, deviceVars, scanVars>>

QueueStages == <<"raw", "vq", "cookies", "indirect_tables", "vring", "vring_dma">>

\* VirtQueue_Free without and with a live mapping of the ring.
VirtQueue_Free(n) == Of(<<"indirect_tables", "cookies", "raw", "vq">>, n)
FreeMapped(n) == Of(<<"vring">>, n) \o VirtQueue_Free(n)

QueueForgotten(st) ==                        \* mutant: only vqs are freed
  CASE st = "raw" -> <<>>
    [] st = "vq"  -> Of(<<"raw">>, q)
    [] st = "cookies" -> Of(<<"raw", "vq">>, q)
    [] st = "indirect_tables" -> Of(<<"cookies", "raw", "vq">>, q)
    [] st = "vring" -> <<>>
    [] st = "vring_dma" -> <<>>

QueueFailPath(st) ==
  CASE st = "raw" -> <<>>
    [] st = "vq"  -> Of(<<"raw">>, q)
    [] st = "cookies" -> Of(<<"raw", "vq">>, q)
    [] st = "indirect_tables" -> Of(<<"cookies", "raw", "vq">>, q)
    [] st = "vring" -> VirtQueue_Free(q)
    [] st = "vring_dma" -> FreeMapped(q)

\* VirtQueue_Allocate, StartDMA of the ring and its entry list.  A queue that
\* fails half-way is not in vqs yet and is freed here.
AllocateQueue ==
  /\ At("qalloc") /\ qstage \in DOMAIN QueueStages
  /\ Acquire(<<QueueStages[qstage], q>>, "qalloc",
             QueueFailPath(QueueStages[qstage]), "cleanup")
  /\ qstage' = qstage + 1
  /\ UNCHANGED <<dmaVars, machineVars, q, vqflags, deviceVars, scanVars>>

\* The entry list goes back, the mapping stays; the device gets the address
\* and the queue goes to vqs.
PublishQueue ==
  /\ At("qalloc") /\ qstage \notin DOMAIN QueueStages
  /\ todo' = Of(<<"vring_dma">>, q)
  /\ enabled' = IF Reaches THEN enabled \cup {q} ELSE enabled
  /\ vqflags' = [vqflags EXCEPT ![q] =
       {"vqs"} \cup (IF modern_mode THEN {"modern"} ELSE {})
               \cup (AcceptedFeatures \ IF q = 1 THEN {"INDIRECT_DESC"} ELSE {})]
  /\ q' = q + 1 /\ ipc' = "queue"
  /\ UNCHANGED <<held, fields, dmaVars, machineVars, qstage, status, negotiated,
                 scanVars>>

DriverOk ==
  /\ At("driver_ok")
  /\ status' = IF Reaches THEN "driver_ok" ELSE status
  /\ ipc' = "irq"
  /\ UNCHANGED <<ledgerVars, dmaVars, machineVars, queueVars, enabled, negotiated,
                 scanVars>>

\* MapInterrupt and AddIntServer; a failure is not fatal.
InstallVirtIOInterrupt ==
  /\ At("irq")
  /\ Acquire(One("irq"), "scan", <<>>, "scan")
  /\ UNCHANGED <<dmaVars, machineVars, queueVars, deviceVars, scanVars>>

---------------------------------------------------------------------------
\* DiscoverUnits, and VirtIOSCSI_DoIO with unit = NULL.

AllocInquiry ==
  /\ At("scan")
  /\ Acquire(One("inqData"), "probe", <<>>, "up")
  /\ UNCHANGED <<dmaVars, machineVars, queueVars, deviceVars, scanVars>>

RoomForUnit == Len(units) < MAX_UNITS

\* The next address, up to the last one or a full table; without a request
\* queue DoIO fails at once.  At the end the INQUIRY buffer goes back.
NextProbe ==
  /\ At("probe")
  /\ IF probe + 1 \in Probes /\ RoomForUnit
     THEN /\ probe' = probe + 1
          /\ ipc' = IF "vqs" \in vqflags[2] THEN "temp" ELSE "probe"
          /\ UNCHANGED todo
     ELSE /\ todo' = Lib(<<"inqData">>) /\ ipc' = "up"
          /\ UNCHANGED probe
  /\ tries' = 0
  /\ UNCHANGED <<held, fields, dmaVars, machineVars, queueVars, deviceVars, units,
                 inqData, resp, pending, used, timedOut>>

Mine(names) == Of(names, probe)
ReleaseTemp == Mine(<<"resp_map", "req_map", "resp_cmd", "req_cmd">>)

\* Both buffers are asked for before either is looked at.
TempAlloc ==
  /\ At("temp")
  /\ \E got \in SUBSET {"req_cmd", "resp_cmd"} :
       LET mine == {<<n, probe>> : n \in got}
       IN /\ held' = held \cup mine /\ fields' = fields \cup mine
          /\ IF got = {"req_cmd", "resp_cmd"}
             THEN ipc' = "map_req" /\ UNCHANGED todo
             ELSE /\ ipc' = "probe"
                  /\ todo' = (IF "req_cmd" \in got THEN Mine(<<"req_cmd">>) ELSE <<>>)
                         \o (IF "resp_cmd" \in got THEN Mine(<<"resp_cmd">>) ELSE <<>>)
  /\ tries' = Tries
  /\ UNCHANGED <<dmaVars, machineVars, queueVars, deviceVars, units, probe,
                 inqData, resp, pending, used, timedOut>>

MapRequest ==
  /\ At("map_req")
  /\ Acquire(<<"req_map", probe>>, "map_resp",
             Mine(<<"req_cmd", "resp_cmd">>), "probe")
  /\ UNCHANGED <<dmaVars, machineVars, queueVars, deviceVars, scanVars>>

MapResponse ==
  /\ At("map_resp")
  /\ Acquire(<<"resp_map", probe>>, "try",
             Mine(<<"req_map", "req_cmd", "resp_cmd">>), "probe")
  /\ UNCHANGED <<dmaVars, machineVars, queueVars, deviceVars, scanVars>>

TriesLeftKept == tries                       \* mutant: no attempt is counted
TriesLeft == tries - 1

\* An attempt: the response is zeroed (which reads as success), the INQUIRY
\* buffer mapped.
BeginTry ==
  /\ At("try")
  /\ tries' = TriesLeft
  /\ resp' = [resp EXCEPT ![probe] = "ok"]
  /\ Acquire(<<"data_map", probe>>, "add", ReleaseTemp, "probe")
  /\ UNCHANGED <<dmaVars, machineVars, queueVars, deviceVars, units, probe,
                 inqData, pending, used, timedOut>>

\* AddBuf and the kick, or no descriptors left.
AddProbe ==
  /\ At("add")
  /\ IF Cardinality(pending) + Len(used) < hw.room
     THEN /\ pending' = pending \cup {probe}
          /\ ipc' = "poll" /\ UNCHANGED todo
     ELSE /\ todo' = Mine(<<"data_map">>) \o ReleaseTemp
          /\ ipc' = "probe" /\ UNCHANGED pending
  /\ UNCHANGED <<held, fields, dmaVars, machineVars, queueVars, deviceVars, units,
                 probe, tries, inqData, resp, used, timedOut>>

\* GetBuf returned a cookie; nothing compares it with this attempt's req_cmd.
PollTakes ==
  /\ At("poll") /\ used # <<>>
  /\ used' = Tail(used)
  /\ todo' = Mine(<<"data_map">>)
  /\ ipc' = "check"
  /\ UNCHANGED <<held, fields, dmaVars, machineVars, queueVars, deviceVars, units,
                 probe, tries, inqData, resp, pending, timedOut>>

\* 500000 polls without a cookie: buffers and mappings are left as they are.
PollTimesOut ==
  /\ At("poll") /\ used = <<>> /\ probe \in Slow
  /\ timedOut' = timedOut \cup {probe}
  /\ ipc' = "probe"
  /\ UNCHANGED <<ledgerVars, dmaVars, machineVars, queueVars, deviceVars, units,
                 probe, tries, inqData, resp, pending, used>>

AcceptsErrors(r) == r # "check"              \* mutant: response not looked at
Accepts(r) == r = "ok"

\* CHECK CONDITION is tried again while tries are left; any other bad answer
\* ends the probe.
CheckProbe ==
  /\ At("check")
  /\ IF resp[probe] = "check" /\ tries > 0
     THEN ipc' = "try" /\ UNCHANGED todo
     ELSE /\ ipc' = IF Accepts(resp[probe]) THEN "identify" ELSE "probe"
          /\ todo' = ReleaseTemp
  /\ UNCHANGED <<held, fields, dmaVars, machineVars, queueVars, deviceVars, scanVars>>

\* Disks and CD-ROMs with qualifier other than 3 become units.
Identify ==
  /\ At("identify")
  /\ IF inqData = "disk"
     THEN /\ Acquire(<<"unit", Len(units)>>, "probe", <<>>, "probe")
          /\ units' = IF held' # held THEN Append(units, probe) ELSE units
     ELSE ipc' = "probe" /\ UNCHANGED <<ledgerVars, units>>
  /\ UNCHANGED <<dmaVars, machineVars, queueVars, deviceVars, probe, tries,
                 inqData, resp, pending, used, timedOut>>

\* The device answers a probe, at any time and in any order.
DeviceAnswers ==
  /\ status = "driver_ok" /\ 2 \in enabled
  /\ \E p \in pending, r \in {"ok", "check", "bad"} :
       /\ resp' = [resp EXCEPT ![p] = r]
       /\ inqData' = IF r = "ok" THEN hw.luns[p] ELSE inqData
       /\ pending' = pending \ {p}
       /\ used' = Append(used, p)
  /\ UNCHANGED <<ledgerVars, dmaVars, machineVars, ipc, queueVars, deviceVars,
                 units, probe, tries, timedOut>>

---------------------------------------------------------------------------
\* While the driver is up a unit may be opened and closed (UnitDma).
OpenAndClose ==
  /\ At("up") /\ units # <<>>
  /\ DmaNext
  /\ UNCHANGED initVars

\* _manager_Expunge of a driver nobody has open: the interrupt server goes
\* first.
Expunge ==
  /\ At("up") /\ dma_pc = "idle"
  /\ todo' = IfSet("irq", NULL)
  /\ ipc' = "expunge"
  /\ UNCHANGED <<held, fields, dmaVars, machineVars, queueVars, deviceVars, scanVars>>

LegacyResetOnly ==                           \* mutant: no reset in modern mode
  IF ~modern_mode /\ One("bar0") \in fields
  THEN /\ status' = "reset" /\ enabled' = {}
       /\ pending' = {} /\ used' = <<>>
  ELSE UNCHANGED <<status, enabled, pending, used>>

\* A reset ends all DMA: the device forgets its queues.
ResetWritten ==
  IF (modern_mode /\ common_cfg_base) \/ One("bar0") \in fields
  THEN /\ status' = "reset" /\ enabled' = {}
       /\ pending' = {} /\ used' = <<>>
  ELSE UNCHANGED <<status, enabled, pending, used>>

FreeQueue(n) == IF "vqs" \in vqflags[n] THEN FreeMapped(n) ELSE <<>>
FreeQueues == FreeQueue(0) \o FreeQueue(1) \o FreeQueue(2)
FreeUnits == [n \in DOMAIN units |-> <<"unit", n - 1>>]

\* CleanupVirtIOSCSI and what follows it, in a failing Init and in Expunge.
CleanupVirtIOSCSI ==
  /\ ipc \in {"cleanup", "expunge"} /\ todo = <<>>
  /\ ResetWritten
  /\ vqflags' = [n \in Queues |-> {}]
  /\ IF ipc = "cleanup"
     THEN todo' = FreeQueues \o ReleaseAll /\ ipc' = "failed"
     ELSE todo' = FreeQueues \o FreeUnits \o ReleaseAll /\ ipc' = "expunged"
  /\ UNCHANGED <<held, fields, dmaVars, machineVars, q, qstage, negotiated, units,
                 probe, tries, inqData, resp, timedOut>>

GiveBack == Release /\ UNCHANGED <<dmaVars, initVars>>

InitSteps ==
  \/ OpenExpansion \/ GetIPCI \/ FindDevice \/ GetBars \/ DetectModernVirtIO
  \/ OpenUtility \/ GetIUtility
  \/ ResetDevice \/ NegotiateFeatures \/ SelectQueue \/ AllocateQueue
  \/ PublishQueue \/ DriverOk \/ InstallVirtIOInterrupt
  \/ AllocInquiry \/ NextProbe \/ TempAlloc \/ MapRequest \/ MapResponse
  \/ BeginTry \/ AddProbe \/ PollTakes \/ PollTimesOut \/ CheckProbe \/ Identify
  \/ CleanupVirtIOSCSI \/ GiveBack

Next == InitSteps \/ DeviceAnswers \/ OpenAndClose \/ Expunge

Spec == Init /\ [][Next]_vars
FairSpec == Spec /\ WF_vars(InitSteps) /\ WF_vars(DeviceAnswers)
---------------------------------------------------------------------------
\* PROPERTIES

Gone == ipc \in {"failed", "expunged"} /\ todo = <<>>
Leaked == {<<n, p>> : n \in {"req_cmd", "resp_cmd", "req_map", "resp_map", "data_map"},
                      p \in timedOut}

InitTypeOK ==
  /\ DmaTypeOK
  /\ q \in 0 .. 3 /\ qstage \in 1 .. Len(QueueStages) + 1
  /\ status \in {"reset", "driver", "features_ok", "failed", "driver_ok"}
  /\ enabled \subseteq Queues
  /\ Len(units) <= MAX_UNITS
  /\ probe \in 0 .. Len(hw.luns) /\ tries \in 0 .. Tries
  /\ inqData \in {"disk", "other", "absent"}
  /\ pending \subseteq Probes
  /\ Cardinality(pending) + Len(used) <= hw.room

\* Init gives everything back or keeps everything: whichever call of library
\* opening, PCI discovery, queue set-up or scan fails, a driver whose Init
\* returned NULL holds nothing, and one that was expunged holds nothing but
\* the buffers a timed-out probe leaks on purpose; the device is reset and
\* knows no queue (Init.c, virtio_init.c, unit_discovery.c, Expunge.c).
InitAllOrNothing ==
  Gone => held = Leaked /\ enabled = {} /\ (ipc = "failed" => timedOut = {})

\* Nothing is released before what is built on it: interfaces before their
\* libraries, BARs before the PCI device, the interrupt server before the
\* device registers it reads, mappings before their memory (the order of the
\* failure paths of Init.c and virtio_init.c, VirtQueue_Free, Expunge.c).
ReleaseOrder ==
  LET needs(a, b) == a \in held => b \in held
  IN /\ \A x \in {<<"IPCI", "ExpansionBase">>, <<"IUtility", "UtilityBase">>,
                  <<"pciDevice", "IPCI">>, <<"bar0", "pciDevice">>,
                  <<"bar4", "pciDevice">>, <<"irq", "pciDevice">>} :
          needs(One(x[1]), One(x[2]))
     /\ ~modern_mode => needs(One("irq"), One("bar0"))
     /\ \A n \in Queues : needs(<<"vring", n>>, <<"raw", n>>)
     /\ \A p \in Probes : /\ needs(<<"req_map", p>>, <<"req_cmd", p>>)
                          /\ needs(<<"resp_map", p>>, <<"resp_cmd", p>>)

\* Whatever fails, and in whatever order: everything given back was obtained,
\* is given back once and after what depends on it, and no table or loop of the
\* driver runs past its end (the failure paths of Init.c, virtio_init.c,
\* virtqueue.c, unit_discovery.c and unit_task.c, and Expunge.c).
ReleasesSound == InitTypeOK /\ ReleaseOrder /\ NothingReleasedTwice

\* Whatever the device was told to read or write exists: the rings of every
\* queue it was given, and what a probe's chain points to.  Without a timeout
\* this holds through every failure, retry and roll-back (CleanupVirtIOSCSI
\* resets before it frees; DoIO frees after the answer).
ProbeMemoryLives ==
  \A p \in pending :
    {<<"req_cmd", p>>, <<"resp_cmd", p>>, <<"req_map", p>>, <<"resp_map", p>>,
     <<"data_map", p>>, One("inqData")} \subseteq held
DeviceMemoryLives ==
  /\ \A n \in enabled : {<<"raw", n>>, <<"vring", n>>} \subseteq held
  /\ timedOut = {} => ProbeMemoryLives

\* A driver that went past DRIVER_OK has a device that knows it: the writes
\* went the way this machine's bridge forwards, the device has every queue the
\* driver has, and a queue uses indirect descriptors or used_event only as
\* negotiated and little-endian fields only in modern mode
\* (DetectModernVirtIO's probe, InitVirtIOSCSI, InitVirtIOSCSI_Modern).
DeviceAgrees ==
  ipc \in {"irq", "scan", "probe", "temp", "map_req", "map_resp", "try", "add", "poll",
           "check", "identify", "up"} =>
    /\ status = "driver_ok"
    /\ enabled = {n \in Queues : "vqs" \in vqflags[n]}
    /\ \A n \in enabled :
         /\ vqflags[n] \ {"vqs", "modern"} \subseteq negotiated
         /\ ("modern" \in vqflags[n]) = modern_mode
         /\ "INDIRECT_DESC" \in vqflags[n] => modern_mode

\* Without a timeout the unit table is right: units are found in address
\* order, each at an address where a disk answered, each with its structure;
\* neither a stale INQUIRY buffer nor a failed probe makes a unit
\* (DiscoverUnits, DoIO's retries).
UnitTableExact ==
  /\ timedOut = {} => \A i \in DOMAIN units : hw.luns[units[i]] = "disk"
  /\ \A i, j \in DOMAIN units : i < j => units[i] < units[j]
  /\ ipc # "expunged" =>
       \A n \in 0 .. MAX_UNITS : <<"unit", n>> \in held <=> n < Len(units)

\* Init returns, on every machine and whatever fails: the queue loop, the
\* retries and the scan end (given that the driver keeps running and that a
\* device answers unless the probe may time out).
InitReturns == <>(Gone \/ ipc = "up")
=============================================================================
