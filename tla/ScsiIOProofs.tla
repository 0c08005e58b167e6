----------------------------- MODULE ScsiIOProofs -----------------------------
(***************************************************************************)
(* Proofs about ScsiIO, for every number of units, slots, ring heads and   *)
(* requests: types, the lock, the ring, the interrupt handler's mask.      *)
(***************************************************************************)
EXTENDS ScsiIO, FiniteSetTheorems, SequenceTheorems, TLAPS

-----------------------------------------------------------------------------
(* The inductive invariant *)

Submitting == {"s_prepare", "s_add", "s_count", "s_release"}
Routing == {"h_route", "d_route", "d_stash"}
Completing == {"c_free", "c_reply"}

\* The task is in the wait loop of VirtIOSCSI_DoIO, inline completions included.
InLoop(u) ==
  \/ pc[u] \in {"d_check", "d_drain", "d_route", "d_stash", "d_wait"}
  \/ pc[u] \in Completing /\ ret[u] = "d_drain"

\* UnitTask_Dispatch works on a request it took from the port.
AtRequest(u) ==
  \/ pc[u] \in Submitting \cup {"s_pop", "reply", "d_try", "d_add", "d_kick",
                                "d_clear", "d_done"}
  \/ InLoop(u)

\* What the local variables of a unit task hold at each location.
LocalAt(u) ==
  /\ pc[u] \in Routing \cup {"h_signal", "c_free"} => cookie[u] \in Cookies
  /\ pc[u] \in Submitting => slot[u] \in Slots
  /\ pc[u] \in Submitting \cup {"s_pop", "d_try"} => tries[u] > 0
  /\ InLoop(u) => wakes[u] > 0
  /\ pc[u] \notin Completing => ret[u] = "h_get"
  /\ pc[u] # "d_clear" => ~own[u]
  /\ AtRequest(u) => cur[u] \in Requests
  /\ pc[u] \in Completing => done[u] \in Requests

LocalOK == \A u \in Units : LocalAt(u)

\* io_lock is held between two steps exactly where the code holds it there.
LockOK ==
  \A u \in Units : pc[u] \in {"s_count", "d_kick", "h_coalesce"} <=> io_lock = u

InUsed(h) == \E i \in 1 .. Len(used) : used[i] = h

\* A head has a cookie exactly while it is in one of: the avail ring, the
\* device's hands, the used ring; and it is there once.
RingOK ==
  /\ RingTypeOK
  /\ used \in Seq(Heads)
  /\ \A h \in Heads : cookies[h] # NULL <=> h \in posted \/ h \in dev \/ InUsed(h)
  /\ \A h \in posted : h \notin dev
  /\ \A i \in 1 .. Len(used) : used[i] \notin posted /\ used[i] \notin dev
  /\ \A i, j \in 1 .. Len(used) : used[i] = used[j] => i = j

\* The parts of a task's state that its own steps alone change.
Locals(u) ==
  <<pc[u], cur[u], slot[u], cookie[u], done[u], ret[u], tries[u], wakes[u], own[u]>>

BasicInv == TypeOK /\ LocalOK /\ LockOK /\ RingOK

\* Slots are numbered from 0 (virtioscsi.h, inflight[MAX_INFLIGHT]).
LEMMA SlotsNat == MAX_INFLIGHT \in Nat /\ MAX_INFLIGHT >= 2 /\ Slots \subseteq Nat
<1>1. MAX_INFLIGHT \in 2 .. Tag - 1
  BY ScsiIOAssumption
<1>2. Tag \in Nat
  BY DEF Tag
<1>3. MAX_INFLIGHT \in Nat /\ MAX_INFLIGHT >= 2
  BY <1>1, <1>2
<1> QED
  BY <1>3 DEF Slots

-----------------------------------------------------------------------------
(* The ring operations *)

\* VirtQueue_AddBuf on a free head.
LEMMA AddBufRing ==
  ASSUME RingOK, NEW h \in Heads, NEW c \in Cookies, AddBuf(h, c)
  PROVE  RingOK'
  BY RingAssumption DEF RingOK, RingTypeOK, AddBuf, InUsed

\* VirtQueue_Kick shows the device every posted head and moves none.
LEMMA KickRing ==
  ASSUME RingOK, Kick
  PROVE  RingOK'
  BY DEF RingOK, RingTypeOK, Kick, InUsed

\* VirtQueue_GetBuf returns a cookie and frees its head.
LEMMA GetBufRing ==
  ASSUME RingOK, GetBuf
  PROVE  RingOK' /\ Returned \in Cookies
<1>1. /\ used # <<>> /\ Len(used) \in Nat /\ Len(used) > 0
      /\ Head(used) = used[1] /\ Head(used) \in Heads
  BY DEF RingOK, GetBuf
<1>2. /\ used' \in Seq(Heads) /\ Len(used') = Len(used) - 1
      /\ \A i \in 1 .. Len(used') : used'[i] = used[i + 1]
  BY <1>1 DEF RingOK, GetBuf
<1>3. ASSUME NEW h \in Heads
      PROVE  InUsed(h)' <=> InUsed(h) /\ h # Head(used)
  <2>1. ASSUME NEW i \in 1 .. Len(used'), used'[i] = h
        PROVE  InUsed(h) /\ h # Head(used)
    BY <1>1, <1>2, <2>1 DEF RingOK, InUsed
  <2>2. ASSUME NEW i \in 1 .. Len(used), used[i] = h, h # Head(used)
        PROVE  InUsed(h)'
    <3>1. i - 1 \in 1 .. Len(used') /\ used'[i - 1] = h
      BY <1>1, <1>2, <2>2
    <3>2. QED
      BY <3>1 DEF InUsed
  <2>3. QED
    BY <2>1, <2>2 DEF InUsed
<1>4. RingTypeOK'
  BY <1>1, <1>2, RingAssumption DEF RingOK, RingTypeOK, GetBuf, Inc, BaselineEvent, Idx
<1>5. \A i \in 1 .. Len(used') : used'[i] \in Heads /\ used'[i] # Head(used)
  BY SMTT(30), <1>1, <1>2 DEF RingOK
<1>6. RingOK'
  BY <1>1, <1>2, <1>3, <1>4, <1>5 DEF RingOK, RingTypeOK, GetBuf
<1>7. QED
  BY <1>1, <1>6 DEF RingOK, RingTypeOK, InUsed, Returned

\* A store to used_event.
LEMMA SetUsedEventRing ==
  ASSUME RingOK, NEW e \in Idx, SetUsedEvent(e)
  PROVE  RingOK'
  BY DEF RingOK, RingTypeOK, SetUsedEvent, InUsed

\* The device picks a request up.
LEMMA DevicePollRing ==
  ASSUME RingOK, NEW h \in Heads, DevicePoll(h)
  PROVE  RingOK'
  BY DEF RingOK, RingTypeOK, DevicePoll, InUsed

\* The device completes a request.
LEMMA DeviceUseRing ==
  ASSUME RingOK, NEW h \in Heads, DeviceUse(h)
  PROVE  RingOK'
<1>1. /\ used' \in Seq(Heads) /\ Len(used') = Len(used) + 1 /\ Len(used) \in Nat
      /\ used'[Len(used) + 1] = h
      /\ \A i \in 1 .. Len(used) : used'[i] = used[i]
  BY DEF RingOK, DeviceUse, DeviceReport
<1>2. \A k \in Heads : InUsed(k)' <=> InUsed(k) \/ k = h
  BY <1>1 DEF InUsed
<1>3. h \in dev /\ h \notin posted /\ ~InUsed(h) /\ cookies[h] # NULL
  BY DEF RingOK, DeviceUse, DeviceReport, InUsed
<1>4. RingTypeOK'
  BY <1>1 DEF RingOK, RingTypeOK, DeviceUse, DeviceReport
<1>5. \A i, j \in 1 .. Len(used') : used'[i] = used'[j] => i = j
  BY <1>1, <1>3 DEF RingOK, InUsed
<1>6. \A i \in 1 .. Len(used') : used'[i] \notin posted' /\ used'[i] \notin dev'
  BY <1>1, <1>3 DEF RingOK, InUsed, DeviceUse, DeviceReport
<1>7. QED
  BY <1>1, <1>2, <1>3, <1>4, <1>5, <1>6 DEF RingOK, DeviceUse, DeviceReport

\* The device decides on an interrupt; the driver acknowledges one.
LEMMA InterruptRing ==
  ASSUME RingOK, DeviceNotify \/ Acknowledge
  PROVE  RingOK'
<1>1. used_idx \in Idx
  BY RingAssumption DEF RingOK, RingTypeOK, used_idx, Idx
<1>2. QED
  BY <1>1 DEF RingOK, RingTypeOK, DeviceNotify, Acknowledge, InUsed

\* A step that leaves the ring alone.
LEMMA RingUnchanged ==
  ASSUME RingOK, UNCHANGED ringVars
  PROVE  RingOK'
  BY DEF RingOK, RingTypeOK, ringVars, InUsed

\* The head AddBuf takes is free.
LEMMA FreeHeadFree == ~RingFull => FreeHead \in Heads /\ cookies[FreeHead] = NULL
  BY DEF RingFull, FreeHead

\* used_event for a batch of n completions is a ring index
\* (VirtIOSCSI_HarvestAll's coalescing).
LEMMA CoalescedInRange == \A n \in Nat : RingTypeOK => CoalescedEvent(n) \in Idx
  BY RingAssumption DEF CoalescedEvent, Idx, RingTypeOK

\* DoIO's own command header has a cookie: that of slot 0.
LEMMA ReqBufCookie == \A u \in Units : req_buf(u) \in Cookies
  BY ScsiIOAssumption DEF req_buf, Slots

\* Popping the stack of free slots yields a slot.
LEMMA SlotSeq == \A q \in Seq(Slots) : q # <<>> => Head(q) \in Slots /\ Tail(q) \in Seq(Slots)
  OBVIOUS

\* A store to inflight[] keeps its type.
LEMMA SetInflight ==
  ASSUME UnitTypeOK, NEW u \in Units, NEW s \in Slots, NEW e \in Requests \cup {NULL},
         inflight' = inflight \/ inflight' = [inflight EXCEPT ![u][s] = e]
  PROVE  inflight' \in [Units -> [Slots -> Requests \cup {NULL}]]
<1>1. CASE inflight' = inflight
  BY <1>1 DEF UnitTypeOK
<1>2. CASE inflight' = [inflight EXCEPT ![u][s] = e]
  BY <1>2 DEF UnitTypeOK
<1>3. QED
  BY <1>1, <1>2

\* A store to a slot's DMA mapping keeps its type.
LEMMA SetDma ==
  ASSUME UnitTypeOK, NEW u \in Units, NEW s \in Slots, NEW e \in BOOLEAN,
         dma' = dma \/ dma' = [dma EXCEPT ![u][s] = e]
  PROVE  dma' \in [Units -> [Slots -> BOOLEAN]]
<1>1. CASE dma' = dma
  BY <1>1 DEF UnitTypeOK
<1>2. CASE dma' = [dma EXCEPT ![u][s] = e]
  BY <1>2 DEF UnitTypeOK
<1>3. QED
  BY <1>1, <1>2

\* Pushing a slot on the stack of free slots.
LEMMA PushFreeSeq == \A q \in Seq(Slots), s \in Slots : <<s>> \o q \in Seq(Slots)
  OBVIOUS

\* map_scsi_error answers every outcome with an io_Error.
LEMMA MapError == \A o \in Outcomes \cup {"good"} : map_scsi_error(o) \in Errors
  BY ScsiIOAssumption DEF map_scsi_error, Errors

\* A completion that the id check accepts names an occupied slot.
LEMMA RoutedCookie ==
  ASSUME NEW c, Routed(c)
  PROVE  /\ c[1] \in Units /\ c[2] \in Slots /\ c = <<c[1], c[2]>> /\ c \in Cookies
         /\ inflight[c[1]][c[2]] # NULL
  BY ScsiIOAssumption DEF Routed

\* AbortIO's Remove takes one position out of the port's list.
LEMMA RemoveSeq ==
  ASSUME NEW q \in Seq(Requests), NEW i \in DOMAIN q
  PROVE  /\ Remove(q, i) \in Seq(Requests)
         /\ Len(Remove(q, i)) = Len(q) - 1
         /\ \A j \in 1 .. Len(q) - 1 : Remove(q, i)[j] = IF j < i THEN q[j] ELSE q[j + 1]
<1>1. /\ Len(q) \in Nat /\ Len(q) > 0 /\ DOMAIN q = 1 .. Len(q)
      /\ \A j \in 1 .. Len(q) : q[j] \in Requests
  OBVIOUS
<1>2. Remove(q, i) \in [1 .. Len(q) - 1 -> Requests]
  BY <1>1 DEF Remove
<1>3. QED
  BY <1>1, <1>2 DEF Remove

\* GetMsg on a port that is not empty yields a request.
LEMMA PortHead == \A q \in Seq(Requests) : q # <<>> => Head(q) \in Requests /\ Tail(q) \in Seq(Requests)
  OBVIOUS

\* The two outcomes of GetMsg.
LEMMA GetMsgCases ==
  ASSUME BasicInv, NEW u \in Units, GetMsg(u)
  PROVE  \/ /\ io_port[u] # <<>> /\ Head(io_port[u]) \in Requests
            /\ cur' = [cur EXCEPT ![u] = Head(io_port[u])]
            /\ io_port' = [io_port EXCEPT ![u] = Tail(@)]
            /\ tries' = [tries EXCEPT ![u] = MaxTries]
            /\ \E l \in {"s_pop", "d_try", "reply"} : Goto(u, l)
         \/ /\ \E l \in {"kick", "wait"} : Goto(u, l)
            /\ UNCHANGED <<cur, io_port, tries>>
<1>1. io_port[u] # <<>> => Head(io_port[u]) \in Requests
  BY PortHead DEF BasicInv, TypeOK, SharedTypeOK
<1>2. QED
  BY <1>1 DEF GetMsg, Requests

-----------------------------------------------------------------------------
(* Every step of a unit task preserves the types *)

\* A task leaves the ring in order.
LEMMA TaskRing ==
  ASSUME BasicInv, NEW u \in Units, Task(u)
  PROVE  RingOK'
<1> USE DEF BasicInv
<1>1. CASE \/ TaskWake(u) \/ GetMsg(u) \/ DispatchReply(u) \/ SubmitPop(u)
           \/ SubmitPrepare(u) \/ SubmitCount(u) \/ SubmitRelease(u)
           \/ HarvestRoute(u) \/ HarvestSignal(u) \/ CompleteFree(u)
           \/ CompleteReply(u) \/ DoIOTry(u) \/ DoIORoute(u)
           \/ DoIOStash(u) \/ DoIOWait(u) \/ DoIOClear(u) \/ DoIODone(u)
  BY <1>1, RingUnchanged
     DEF TaskWake, GetMsg, DispatchReply, SubmitPop, SubmitPrepare,
         SubmitCount, SubmitRelease, HarvestRoute, HarvestSignal,
         CompleteFree, CompleteReply, DoIOTry, DoIORoute, DoIOStash,
         DoIOWait, DoIOClear, DoIODone
<1>2. CASE KickBatch(u)
  BY <1>2, KickRing DEF KickBatch
<1>3. CASE SubmitAddBuf(u)
  BY <1>3, AddBufRing, FreeHeadFree, RingUnchanged, ScsiIOAssumption
     DEF SubmitAddBuf, LocalOK, LocalAt, Submitting
<1>4. CASE HarvestGetBuf(u)
  BY <1>4, GetBufRing, RingUnchanged DEF HarvestGetBuf
<1>5. CASE HarvestCoalesce(u)
  BY <1>5, SetUsedEventRing, RingUnchanged, CoalescedInRange
     DEF HarvestCoalesce, TypeOK, UnitTypeOK
<1>6. CASE DoIOAddBuf(u)
  BY <1>6, AddBufRing, FreeHeadFree, RingUnchanged, ReqBufCookie DEF DoIOAddBuf
<1>7. CASE DoIOKick(u)
  BY <1>7, KickRing DEF DoIOKick
<1>8. CASE DoIODrain(u)
  BY <1>8, GetBufRing, RingUnchanged DEF DoIODrain
<1>9. QED
  BY <1>1, <1>2, <1>3, <1>4, <1>5, <1>6, <1>7, <1>8 DEF Task

\* The units' bookkeeping.
LEMMA TaskUnits ==
  ASSUME BasicInv, NEW u \in Units, Task(u)
  PROVE  UnitTypeOK'
<1> USE DEF BasicInv, TypeOK, UnitTypeOK
<1>1. CASE \/ TaskWake(u) \/ GetMsg(u) \/ DispatchReply(u) \/ KickBatch(u)
           \/ HarvestGetBuf(u) \/ HarvestCoalesce(u) \/ HarvestSignal(u)
           \/ CompleteReply(u) \/ DoIOTry(u) \/ DoIOAddBuf(u)
           \/ DoIODrain(u) \/ DoIOStash(u) \/ DoIOWait(u) \/ DoIOClear(u)
  BY <1>1
     DEF TaskWake, GetMsg, DispatchReply, KickBatch, HarvestGetBuf,
         HarvestCoalesce, HarvestSignal, CompleteReply, DoIOTry,
         DoIOAddBuf, DoIODrain, DoIOStash, DoIOWait, DoIOClear, unitVars
<1>2. CASE SubmitPop(u)
  <2>1. free_list[u] # <<>> => Tail(free_list[u]) \in Seq(Slots)
    BY SlotSeq
  <2>2. free_list' \in [Units -> Seq(Slots)]
    BY <1>2, <2>1 DEF SubmitPop
  <2>3. QED
    BY <1>2, <2>2 DEF SubmitPop
<1>3. CASE SubmitPrepare(u)
  <2>1. slot[u] \in Slots /\ cur[u] \in Requests \cup {NULL}
    BY <1>3 DEF SubmitPrepare, LocalOK, LocalAt, Submitting, AtRequest
  <2>2. inflight' \in [Units -> [Slots -> Requests \cup {NULL}]]
    <3>1. inflight' = inflight \/ inflight' = [inflight EXCEPT ![u][slot[u]] = cur[u]]
      BY <1>3 DEF SubmitPrepare
    <3>2. QED
      BY <2>1, <3>1, SetInflight
  <2>3. dma' \in [Units -> [Slots -> BOOLEAN]]
    <3>1. dma' = dma \/ dma' = [dma EXCEPT ![u][slot[u]] = cur[u] \in Direct]
      BY <1>3 DEF SubmitPrepare
    <3>2. (cur[u] \in Direct) \in BOOLEAN
      OBVIOUS
    <3>3. QED
      BY <2>1, <3>1, <3>2, SetDma
  <2>4. QED
    BY <1>3, <2>2, <2>3 DEF SubmitPrepare
<1>4. CASE SubmitAddBuf(u)
  <2>1. slot[u] \in Slots
    BY <1>4 DEF SubmitAddBuf, LocalOK, LocalAt, Submitting
  <2>2. inflight' \in [Units -> [Slots -> Requests \cup {NULL}]]
    <3>1. inflight' = inflight \/ inflight' = [inflight EXCEPT ![u][slot[u]] = NULL]
      BY <1>4 DEF SubmitAddBuf
    <3>2. QED
      BY <2>1, <3>1, SetInflight
  <2>3. dma' \in [Units -> [Slots -> BOOLEAN]]
    <3>1. dma' = dma \/ dma' = [dma EXCEPT ![u][slot[u]] = FALSE]
      BY <1>4 DEF SubmitAddBuf
    <3>2. QED
      BY <2>1, <3>1, SetDma
  <2>4. QED
    BY <1>4, <2>2, <2>3 DEF SubmitAddBuf
<1>5. CASE SubmitCount(u)
  BY <1>5 DEF SubmitCount, Activate
<1>6. CASE SubmitRelease(u)
  BY <1>6, PushFreeSeq DEF SubmitRelease, PushFree, LocalOK, LocalAt, Submitting
<1>7. CASE HarvestRoute(u)
  <2>1. CASE dma' = dma
    BY <2>1, <1>7 DEF HarvestRoute
  <2>2. CASE Routed(cookie[u]) /\ CompleteStatus(u)
    <3>1. cookie[u][1] \in Units /\ cookie[u][2] \in Slots
      BY <2>2, RoutedCookie
    <3>2. dma' \in [Units -> [Slots -> BOOLEAN]]
      BY <2>2, <3>1, SetDma DEF CompleteStatus
    <3>3. QED
      BY <1>7, <3>2 DEF HarvestRoute
  <2>3. QED
    BY <1>7, <2>1, <2>2 DEF HarvestRoute
<1>8. CASE CompleteFree(u)
  <2>1. cookie[u][1] \in Units /\ cookie[u][2] \in Slots
    BY <1>8, ScsiIOAssumption DEF CompleteFree, LocalOK, LocalAt
  <2>2. inflight' \in [Units -> [Slots -> Requests \cup {NULL}]]
    BY <1>8, <2>1, SetInflight DEF CompleteFree
  <2>3. free_list' \in [Units -> Seq(Slots)]
    BY <1>8, <2>1, PushFreeSeq DEF CompleteFree, PushFree
  <2>4. inflight_count' \in [Units -> Nat] /\ occupied_count' \in Nat
    BY <1>8, <2>1 DEF CompleteFree, Decrement
  <2>5. active_units_mask' \in SUBSET Units
    BY <1>8 DEF CompleteFree, DeactivateIdle
  <2>6. QED
    BY <1>8, <2>2, <2>3, <2>4, <2>5 DEF CompleteFree
<1>9. CASE DoIOKick(u)
  BY <1>9 DEF DoIOKick, Activate
<1>10. CASE DoIORoute(u)
  <2>1. CASE dma' = dma
    BY <2>1, <1>10 DEF DoIORoute
  <2>2. CASE Routed(cookie[u]) /\ CompleteStatus(u)
    <3>1. cookie[u][1] \in Units /\ cookie[u][2] \in Slots
      BY <2>2, RoutedCookie
    <3>2. dma' \in [Units -> [Slots -> BOOLEAN]]
      BY <2>2, <3>1, SetDma DEF CompleteStatus
    <3>3. QED
      BY <1>10, <3>2 DEF DoIORoute
  <2>3. QED
    BY <1>10, <2>1, <2>2 DEF DoIORoute
<1>11. CASE DoIODone(u)
  BY <1>11 DEF DoIODone, DeactivateIdle
<1>12. QED
  BY <1>1, <1>2, <1>3, <1>4, <1>5, <1>6, <1>7, <1>8, <1>9, <1>10, <1>11 DEF Task

\* The request and response buffers.
LEMMA TaskBufs ==
  ASSUME BasicInv, NEW u \in Units, Task(u)
  PROVE  BufTypeOK'
<1> USE DEF BasicInv, TypeOK, BufTypeOK
<1>1. CASE \/ TaskWake(u) \/ GetMsg(u) \/ DispatchReply(u) \/ KickBatch(u)
           \/ SubmitPop(u) \/ SubmitAddBuf(u) \/ SubmitCount(u)
           \/ SubmitRelease(u) \/ HarvestGetBuf(u) \/ HarvestCoalesce(u)
           \/ HarvestRoute(u) \/ HarvestSignal(u) \/ CompleteFree(u)
           \/ CompleteReply(u) \/ DoIOAddBuf(u) \/ DoIOKick(u)
           \/ DoIODrain(u) \/ DoIORoute(u) \/ DoIOStash(u) \/ DoIOWait(u)
           \/ DoIOClear(u) \/ DoIODone(u)
  BY <1>1
     DEF TaskWake, GetMsg, DispatchReply, KickBatch, SubmitPop,
         SubmitAddBuf, SubmitCount, SubmitRelease, HarvestGetBuf,
         HarvestCoalesce, HarvestRoute, HarvestSignal, CompleteFree,
         CompleteReply, DoIOAddBuf, DoIOKick, DoIODrain, DoIORoute,
         DoIOStash, DoIOWait, DoIOClear, DoIODone, bufVars
<1>2. CASE SubmitPrepare(u)
  <2>1. slot[u] \in Slots /\ u \in Nat
    BY <1>2, ScsiIOAssumption DEF SubmitPrepare, LocalOK, LocalAt, Submitting
  <2>2. EncodeId(u, slot[u]) \in Nat
    <3>1. slot[u] \in Nat
      BY <2>1, SlotsNat
    <3>2. \A a, b \in Nat : a * 65536 + b \in Nat
      OBVIOUS
    <3> QED
      BY <2>1, <3>1, <3>2 DEF EncodeId, Tag
  <2>3. QED
    BY <1>2, <2>2 DEF SubmitPrepare
<1>3. CASE DoIOTry(u)
  BY <1>3 DEF DoIOTry
<1>4. QED
  BY <1>1, <1>2, <1>3 DEF Task

\* What clients see of their requests keeps its type: a request is answered
\* with an io_Error that exists.
LEMMA TaskClients ==
  ASSUME BasicInv, NEW u \in Units, Task(u)
  PROVE  ClientTypeOK'
<1> USE DEF BasicInv, TypeOK, ClientTypeOK
<1>1. CASE \/ TaskWake(u) \/ GetMsg(u) \/ KickBatch(u) \/ SubmitPop(u)
           \/ SubmitPrepare(u) \/ SubmitAddBuf(u) \/ SubmitCount(u)
           \/ SubmitRelease(u) \/ HarvestGetBuf(u) \/ HarvestCoalesce(u)
           \/ HarvestRoute(u) \/ HarvestSignal(u) \/ CompleteFree(u)
           \/ DoIOTry(u) \/ DoIOAddBuf(u) \/ DoIOKick(u) \/ DoIODrain(u)
           \/ DoIORoute(u) \/ DoIOStash(u) \/ DoIOWait(u) \/ DoIOClear(u)
           \/ DoIODone(u)
  BY <1>1
     DEF TaskWake, GetMsg, KickBatch, SubmitPop, SubmitPrepare,
         SubmitAddBuf, SubmitCount, SubmitRelease, HarvestGetBuf,
         HarvestCoalesce, HarvestRoute, HarvestSignal, CompleteFree,
         DoIOTry, DoIOAddBuf, DoIOKick, DoIODrain, DoIORoute, DoIOStash,
         DoIOWait, DoIOClear, DoIODone, clientVars
<1>2. CASE DispatchReply(u)
  <2>1. rc[u] \in Errors /\ cur[u] \in Requests
    BY <1>2 DEF DispatchReply, TaskTypeOK, LocalOK, LocalAt, AtRequest, Completing
  <2>2. QED
    BY <1>2, <2>1 DEF DispatchReply, ReplyMsg
<1>3. CASE CompleteReply(u)
  <2>1. derr[u] \in Errors /\ done[u] \in Requests
    BY <1>3 DEF CompleteReply, TaskTypeOK, LocalOK, LocalAt, AtRequest, Completing
  <2>2. QED
    BY <1>3, <2>1 DEF CompleteReply, ReplyMsg
<1>4. QED
  BY <1>1, <1>2, <1>3 DEF Task

\* The history variables.
LEMMA TaskHist ==
  ASSUME BasicInv, NEW u \in Units, Task(u)
  PROVE  HistTypeOK'
<1> USE DEF BasicInv, TypeOK, HistTypeOK, TaskTypeOK
<1>1. CASE \/ TaskWake(u) \/ GetMsg(u) \/ DispatchReply(u) \/ KickBatch(u)
           \/ SubmitPop(u) \/ SubmitPrepare(u) \/ SubmitCount(u)
           \/ SubmitRelease(u) \/ HarvestCoalesce(u) \/ HarvestRoute(u)
           \/ HarvestSignal(u) \/ CompleteFree(u) \/ CompleteReply(u)
           \/ DoIOTry(u) \/ DoIOKick(u) \/ DoIORoute(u) \/ DoIOStash(u)
           \/ DoIOWait(u) \/ DoIODone(u)
  BY <1>1
     DEF TaskWake, GetMsg, DispatchReply, KickBatch, SubmitPop,
         SubmitPrepare, SubmitCount, SubmitRelease, HarvestCoalesce,
         HarvestRoute, HarvestSignal, CompleteFree, CompleteReply,
         DoIOTry, DoIOKick, DoIORoute, DoIOStash, DoIOWait, DoIODone,
         histVars
<1>2. CASE SubmitAddBuf(u)
  BY <1>2 DEF SubmitAddBuf
<1>3. CASE HarvestGetBuf(u)
  BY <1>3 DEF HarvestGetBuf
<1>4. CASE DoIOAddBuf(u)
  BY <1>4 DEF DoIOAddBuf
<1>5. CASE DoIODrain(u)
  BY <1>5 DEF DoIODrain
<1>6. CASE DoIOClear(u)
  BY <1>6 DEF DoIOClear
<1>7. QED
  BY <1>1, <1>2, <1>3, <1>4, <1>5, <1>6 DEF Task

\* The local variables of the running task keep their types.
LEMMA TaskLocals ==
  ASSUME BasicInv, NEW u \in Units, Task(u)
  PROVE  TaskTypeOK'
<1> USE DEF BasicInv, TypeOK, TaskTypeOK
<1>1. CASE \/ SubmitRelease(u) \/ HarvestCoalesce(u) \/ DoIODone(u)
  BY <1>1 DEF SubmitRelease, HarvestCoalesce, DoIODone, taskVars
<1>2. CASE TaskWake(u)
  BY <1>2 DEF TaskWake, SharedTypeOK
<1>3. CASE GetMsg(u)
  <2>1. io_port[u] # <<>> => Head(io_port[u]) \in Requests
    BY PortHead DEF SharedTypeOK
  <2>2. cur' \in [Units -> Requests \cup {NULL}]
    BY <1>3, <2>1 DEF GetMsg
  <2>3. tries' \in [Units -> 0 .. MaxTries]
    <3>1. MaxTries \in 0 .. MaxTries
      BY ScsiIOAssumption
    <3>2. tries' = tries \/ tries' = [tries EXCEPT ![u] = MaxTries]
      BY <1>3 DEF GetMsg
    <3>3. QED
      BY <3>1, <3>2
  <2>4. woken' \in [Units -> SUBSET {"port", "irq"}]
    BY <1>3 DEF GetMsg
  <2>5. QED
    BY <1>3, <2>2, <2>3, <2>4 DEF GetMsg
<1>4. CASE DispatchReply(u)
  BY <1>4, ScsiIOAssumption DEF DispatchReply, Errors
<1>5. CASE KickBatch(u)
  BY <1>5 DEF KickBatch
<1>6. CASE SubmitPop(u)
  <2>1. free_list[u] # <<>> => Head(free_list[u]) \in Slots
    BY SlotSeq DEF UnitTypeOK
  <2>2. slot' \in [Units -> Slots \cup {NULL}]
    BY <1>6, <2>1 DEF SubmitPop
  <2>3. QED
    BY <1>6, <2>2 DEF SubmitPop
<1>7. CASE SubmitPrepare(u)
  BY <1>7 DEF SubmitPrepare, Errors
<1>8. CASE SubmitAddBuf(u)
  BY <1>8 DEF SubmitAddBuf, Errors
<1>9. CASE SubmitCount(u)
  BY <1>9, ScsiIOAssumption DEF SubmitCount
<1>10. CASE HarvestGetBuf(u)
  <2>1. cookie' \in [Units -> Cookies \cup {NULL}]
    BY <1>10, GetBufRing DEF HarvestGetBuf
  <2>2. QED
    BY <1>10, <2>1 DEF HarvestGetBuf
<1>11. CASE HarvestRoute(u)
  <2>1. ASSUME Routed(cookie[u]), CompleteStatus(u)
        PROVE  done' \in [Units -> Requests \cup {NULL}] /\ derr' \in [Units -> Errors]
    <3>1. /\ cookie[u][1] \in Units /\ cookie[u][2] \in Slots
          /\ <<cookie[u][1], cookie[u][2]>> \in Cookies
      BY <2>1, RoutedCookie
    <3>2. inflight[cookie[u][1]][cookie[u][2]] \in Requests \cup {NULL}
      BY <3>1 DEF UnitTypeOK
    <3>3. map_scsi_error(resp[<<cookie[u][1], cookie[u][2]>>]) \in Errors
      BY <3>1, MapError DEF BufTypeOK
    <3>4. QED
      BY <2>1, <3>2, <3>3 DEF CompleteStatus
  <2>2. QED
    BY <1>11, <2>1 DEF HarvestRoute
<1>12. CASE HarvestSignal(u)
  BY <1>12 DEF HarvestSignal
<1>13. CASE CompleteFree(u)
  BY <1>13 DEF CompleteFree
<1>14. CASE CompleteReply(u)
  BY <1>14 DEF CompleteReply, Errors
<1>15. CASE DoIOTry(u)
  <2>1. tries' \in [Units -> 0 .. MaxTries]
    BY <1>15, ScsiIOAssumption DEF DoIOTry, LocalOK, LocalAt
  <2>2. QED
    BY <1>15, <2>1 DEF DoIOTry, Errors
<1>16. CASE DoIOAddBuf(u)
  BY <1>16 DEF DoIOAddBuf, Errors
<1>17. CASE DoIOKick(u)
  BY <1>17, ScsiIOAssumption DEF DoIOKick
<1>18. CASE DoIODrain(u)
  <2>1. GetBuf => Returned \in Cookies
    BY GetBufRing
  <2>2. cookie' \in [Units -> Cookies \cup {NULL}]
    BY <1>18, <2>1 DEF DoIODrain
  <2>3. own' \in [Units -> BOOLEAN]
    BY <1>18 DEF DoIODrain
  <2>4. QED
    BY <1>18, <2>2, <2>3 DEF DoIODrain
<1>19. CASE DoIORoute(u)
  <2>1. ASSUME Routed(cookie[u]), CompleteStatus(u)
        PROVE  done' \in [Units -> Requests \cup {NULL}] /\ derr' \in [Units -> Errors]
    <3>1. /\ cookie[u][1] \in Units /\ cookie[u][2] \in Slots
          /\ <<cookie[u][1], cookie[u][2]>> \in Cookies
      BY <2>1, RoutedCookie
    <3>2. inflight[cookie[u][1]][cookie[u][2]] \in Requests \cup {NULL}
      BY <3>1 DEF UnitTypeOK
    <3>3. map_scsi_error(resp[<<cookie[u][1], cookie[u][2]>>]) \in Errors
      BY <3>1, MapError DEF BufTypeOK
    <3>4. QED
      BY <2>1, <3>2, <3>3 DEF CompleteStatus
  <2>2. QED
    BY <1>19, <2>1 DEF DoIORoute
<1>20. CASE DoIOStash(u)
  BY <1>20 DEF DoIOStash
<1>21. CASE DoIOWait(u)
  <2>1. wakes' \in [Units -> 0 .. MaxWakes]
    BY <1>21, ScsiIOAssumption DEF DoIOWait, LocalOK, LocalAt, InLoop
  <2>2. QED
    BY <1>21, <2>1 DEF DoIOWait
<1>22. CASE DoIOClear(u)
  <2>1. map_scsi_error(resp[req_buf(u)]) \in Errors /\ "IOERR_SELFTEST" \in Errors
    BY MapError, ReqBufCookie DEF BufTypeOK, Errors
  <2>2. /\ wakes' \in [Units -> 0 .. MaxWakes] /\ own' \in [Units -> BOOLEAN]
        /\ rc' \in [Units -> Errors]
    BY <1>22, <2>1, ScsiIOAssumption DEF DoIOClear
  <2>3. QED
    BY <1>22, <2>2 DEF DoIOClear
<1>23. QED
  BY <1>1, <1>2, <1>3, <1>4, <1>5, <1>6, <1>7, <1>8, <1>9, <1>10, <1>11,
     <1>12, <1>13, <1>14, <1>15, <1>16, <1>17, <1>18, <1>19, <1>20,
     <1>21, <1>22 DEF Task

\* What tasks share (ports, signals, lock, stashed cookies, locations) keeps
\* its type.
LEMMA TaskShared ==
  ASSUME BasicInv, NEW u \in Units, Task(u)
  PROVE  SharedTypeOK'
<1> USE DEF BasicInv, TypeOK, SharedTypeOK, Goto, Locations
<1>1. CASE TaskWake(u)
  BY <1>1 DEF TaskWake
<1>2. CASE GetMsg(u)
  <2>1. CASE /\ io_port[u] # <<>>
             /\ io_port' = [io_port EXCEPT ![u] = Tail(@)]
             /\ \E l \in {"s_pop", "d_try", "reply"} : Goto(u, l)
    <3>1. io_port' \in [Units -> Seq(Requests)]
      BY <2>1, PortHead
    <3>2. pc' \in [Units -> Locations]
      BY <2>1
    <3>3. QED
      BY <1>2, <3>1, <3>2 DEF GetMsg
  <2>2. CASE UNCHANGED io_port /\ \E l \in {"kick", "wait"} : Goto(u, l)
    <3>1. pc' \in [Units -> Locations]
      BY <2>2
    <3>2. QED
      BY <1>2, <2>2, <3>1 DEF GetMsg
  <2>3. QED
    BY <1>2, <2>1, <2>2, GetMsgCases
<1>3. CASE DispatchReply(u)
  BY <1>3 DEF DispatchReply
<1>4. CASE KickBatch(u)
  BY <1>4 DEF KickBatch, LockedStep
<1>5. CASE SubmitPop(u)
  BY <1>5 DEF SubmitPop, LockedStep
<1>6. CASE SubmitPrepare(u)
  BY <1>6 DEF SubmitPrepare
<1>7. CASE SubmitAddBuf(u)
  BY <1>7 DEF SubmitAddBuf
<1>8. CASE SubmitCount(u)
  BY <1>8 DEF SubmitCount
<1>9. CASE SubmitRelease(u)
  BY <1>9 DEF SubmitRelease, LockedStep
<1>10. CASE HarvestGetBuf(u)
  BY <1>10 DEF HarvestGetBuf
<1>11. CASE HarvestCoalesce(u)
  BY <1>11 DEF HarvestCoalesce
<1>12. CASE HarvestRoute(u)
  <2>1. pc' \in [Units -> Locations]
    BY ZenonT(40), <1>12 DEF HarvestRoute, CompleteStatus
  <2>2. doio_pending_cookie' \in [Units -> Cookies \cup {NULL}]
    <3>1. cookie[u] \in Cookies
      BY <1>12 DEF HarvestRoute, LocalOK, LocalAt, Routing
    <3>2. CASE Stash(cookie[u])
      BY <3>1, <3>2 DEF Stash
    <3>3. CASE UNCHANGED doio_pending_cookie
      BY <3>3
    <3>4. QED
      BY <1>12, <3>2, <3>3 DEF HarvestRoute
  <2>3. QED
    BY <1>12, <2>1, <2>2 DEF HarvestRoute
<1>13. CASE HarvestSignal(u)
  BY <1>13 DEF HarvestSignal, Signal
<1>14. CASE CompleteFree(u)
  BY <1>14 DEF CompleteFree, LockedStep
<1>15. CASE CompleteReply(u)
  BY <1>15 DEF CompleteReply, TaskTypeOK
<1>16. CASE DoIOTry(u)
  BY <1>16 DEF DoIOTry
<1>17. CASE DoIOAddBuf(u)
  BY <1>17 DEF DoIOAddBuf
<1>18. CASE DoIOKick(u)
  BY <1>18 DEF DoIOKick
<1>19. CASE DoIODrain(u)
  BY <1>19 DEF DoIODrain, LockedStep
<1>20. CASE DoIORoute(u)
  BY <1>20 DEF DoIORoute, CompleteStatus
<1>21. CASE DoIOStash(u)
  <2>1. cookie[u] \in Cookies
    BY <1>21 DEF DoIOStash, LocalOK, LocalAt, Routing
  <2>2. CASE Stash(cookie[u]) /\ Signal(cookie[u][1], "irq")
    <3>1. doio_pending_cookie' \in [Units -> Cookies \cup {NULL}]
      BY <2>1, <2>2 DEF Stash
    <3>2. sigs' \in [Units -> SUBSET {"port", "irq"}]
      BY <2>1, <2>2 DEF Signal
    <3>3. QED
      BY <1>21, <3>1, <3>2 DEF DoIOStash, LockedStep
  <2>3. CASE UNCHANGED <<doio_pending_cookie, sigs>>
    BY <1>21, <2>3 DEF DoIOStash, LockedStep
  <2>4. QED
    BY <1>21, <2>2, <2>3 DEF DoIOStash
<1>22. CASE DoIOWait(u)
  BY <1>22 DEF DoIOWait
<1>23. CASE DoIOClear(u)
  BY <1>23 DEF DoIOClear
<1>24. CASE DoIODone(u)
  BY <1>24 DEF DoIODone, LockedStep
<1>25. QED
  BY <1>1, <1>2, <1>3, <1>4, <1>5, <1>6, <1>7, <1>8, <1>9, <1>10, <1>11,
     <1>12, <1>13, <1>14, <1>15, <1>16, <1>17, <1>18, <1>19, <1>20,
     <1>21, <1>22, <1>23, <1>24 DEF Task

\* A task changes no other task's locals.
LEMMA TaskFrame ==
  ASSUME BasicInv, NEW u \in Units, Task(u), NEW v \in Units, v # u
  PROVE  Locals(v)' = Locals(v)
<1> USE DEF BasicInv, TypeOK, SharedTypeOK, TaskTypeOK, Goto, Locals, taskVars
<1>1. CASE TaskWake(u)
  BY <1>1 DEF TaskWake
<1>2. CASE GetMsg(u)
  BY <1>2 DEF GetMsg
<1>3. CASE DispatchReply(u)
  BY <1>3 DEF DispatchReply
<1>4. CASE KickBatch(u)
  BY <1>4 DEF KickBatch
<1>5. CASE SubmitPop(u)
  BY <1>5 DEF SubmitPop
<1>6. CASE SubmitPrepare(u)
  BY <1>6 DEF SubmitPrepare
<1>7. CASE SubmitAddBuf(u)
  BY <1>7 DEF SubmitAddBuf
<1>8. CASE SubmitCount(u)
  BY <1>8 DEF SubmitCount
<1>9. CASE SubmitRelease(u)
  BY <1>9 DEF SubmitRelease
<1>10. CASE HarvestGetBuf(u)
  BY <1>10 DEF HarvestGetBuf
<1>11. CASE HarvestCoalesce(u)
  BY <1>11 DEF HarvestCoalesce
<1>12. CASE HarvestRoute(u)
  BY <1>12 DEF HarvestRoute, CompleteStatus
<1>13. CASE HarvestSignal(u)
  BY <1>13 DEF HarvestSignal
<1>14. CASE CompleteFree(u)
  BY <1>14 DEF CompleteFree
<1>15. CASE CompleteReply(u)
  BY <1>15 DEF CompleteReply
<1>16. CASE DoIOTry(u)
  BY <1>16 DEF DoIOTry
<1>17. CASE DoIOAddBuf(u)
  BY <1>17 DEF DoIOAddBuf
<1>18. CASE DoIOKick(u)
  BY <1>18 DEF DoIOKick
<1>19. CASE DoIODrain(u)
  BY <1>19 DEF DoIODrain
<1>20. CASE DoIORoute(u)
  BY <1>20 DEF DoIORoute, CompleteStatus
<1>21. CASE DoIOStash(u)
  BY <1>21 DEF DoIOStash
<1>22. CASE DoIOWait(u)
  BY <1>22 DEF DoIOWait
<1>23. CASE DoIOClear(u)
  BY <1>23 DEF DoIOClear
<1>24. CASE DoIODone(u)
  BY <1>24 DEF DoIODone
<1>25. QED
  BY <1>1, <1>2, <1>3, <1>4, <1>5, <1>6, <1>7, <1>8, <1>9, <1>10, <1>11,
     <1>12, <1>13, <1>14, <1>15, <1>16, <1>17, <1>18, <1>19, <1>20,
     <1>21, <1>22, <1>23, <1>24 DEF Task

\* After each step the local variables hold what the code at the next location
\* relies on: Submit has a slot, a router a cookie, a completion the request it
\* will answer.
LEMMA TaskLocalAt ==
  ASSUME BasicInv, NEW u \in Units, Task(u)
  PROVE  LocalAt(u)'
<1> USE DEF BasicInv, TypeOK, SharedTypeOK, TaskTypeOK, Goto, LocalOK, LocalAt, taskVars,
  Submitting, Routing, Completing, InLoop, AtRequest
<1>1. CASE TaskWake(u)
  BY <1>1 DEF TaskWake
<1>2. CASE GetMsg(u)
  <2>1. ret' = ret /\ own' = own /\ pc[u] = "getmsg"
    BY <1>2 DEF GetMsg
  <2>2. CASE /\ Head(io_port[u]) \in Requests
             /\ cur' = [cur EXCEPT ![u] = Head(io_port[u])]
             /\ tries' = [tries EXCEPT ![u] = MaxTries]
             /\ \E l \in {"s_pop", "d_try", "reply"} : Goto(u, l)
    BY <2>1, <2>2, ScsiIOAssumption
  <2>3. CASE \E l \in {"kick", "wait"} : Goto(u, l)
    BY <2>1, <2>3
  <2>4. QED
    BY <1>2, <2>2, <2>3, GetMsgCases
<1>3. CASE DispatchReply(u)
  BY <1>3 DEF DispatchReply
<1>4. CASE KickBatch(u)
  BY <1>4 DEF KickBatch
<1>5. CASE SubmitPop(u)
  <2>1. free_list[u] # <<>> => Head(free_list[u]) \in Slots
    BY SlotSeq DEF UnitTypeOK
  <2>2. QED
    BY <1>5, <2>1 DEF SubmitPop
<1>6. CASE SubmitPrepare(u)
  BY <1>6 DEF SubmitPrepare
<1>7. CASE SubmitAddBuf(u)
  BY <1>7 DEF SubmitAddBuf
<1>8. CASE SubmitCount(u)
  BY <1>8 DEF SubmitCount
<1>9. CASE SubmitRelease(u)
  BY <1>9 DEF SubmitRelease
<1>10. CASE HarvestGetBuf(u)
  <2>1. GetBuf => Returned \in Cookies
    BY GetBufRing
  <2>2. QED
    BY <1>10, <2>1 DEF HarvestGetBuf
<1>11. CASE HarvestCoalesce(u)
  BY <1>11 DEF HarvestCoalesce
<1>12. CASE HarvestRoute(u)
  <2>1. CASE Routed(cookie[u]) /\ CompleteStatus(u)
    <3>1. inflight[cookie[u][1]][cookie[u][2]] \in Requests
      BY <2>1, RoutedCookie DEF UnitTypeOK
    <3>2. QED
      BY <1>12, <2>1, <3>1 DEF HarvestRoute, CompleteStatus
  <2>2. CASE ~Routed(cookie[u])
    BY <1>12, <2>2 DEF HarvestRoute
  <2>3. QED
    BY <1>12, <2>1, <2>2 DEF HarvestRoute
<1>13. CASE HarvestSignal(u)
  BY <1>13 DEF HarvestSignal
<1>14. CASE CompleteFree(u)
  BY <1>14 DEF CompleteFree
<1>15. CASE CompleteReply(u)
  BY <1>15 DEF CompleteReply
<1>16. CASE DoIOTry(u)
  BY <1>16 DEF DoIOTry
<1>17. CASE DoIOAddBuf(u)
  BY <1>17 DEF DoIOAddBuf
<1>18. CASE DoIOKick(u)
  BY <1>18, ScsiIOAssumption DEF DoIOKick
<1>19. CASE DoIODrain(u)
  <2>1. GetBuf => Returned \in Cookies
    BY GetBufRing
  <2>2. QED
    BY <1>19, <2>1 DEF DoIODrain
<1>20. CASE DoIORoute(u)
  <2>1. CASE Routed(cookie[u]) /\ CompleteStatus(u)
    <3>1. inflight[cookie[u][1]][cookie[u][2]] \in Requests
      BY <2>1, RoutedCookie DEF UnitTypeOK
    <3>2. QED
      BY <1>20, <2>1, <3>1 DEF DoIORoute, CompleteStatus
  <2>2. CASE ~Routed(cookie[u])
    BY <1>20, <2>2 DEF DoIORoute
  <2>3. QED
    BY <1>20, <2>1, <2>2 DEF DoIORoute
<1>21. CASE DoIOStash(u)
  BY <1>21 DEF DoIOStash
<1>22. CASE DoIOWait(u)
  BY <1>22, ScsiIOAssumption DEF DoIOWait
<1>23. CASE DoIOClear(u)
  BY <1>23 DEF DoIOClear
<1>24. CASE DoIODone(u)
  BY <1>24 DEF DoIODone
<1>25. QED
  BY <1>1, <1>2, <1>3, <1>4, <1>5, <1>6, <1>7, <1>8, <1>9, <1>10, <1>11,
     <1>12, <1>13, <1>14, <1>15, <1>16, <1>17, <1>18, <1>19, <1>20,
     <1>21, <1>22, <1>23, <1>24 DEF Task

\* io_lock is taken and released in pairs: no step leaves it held where the
\* code does not hold it, nor releases another task's lock.
LEMMA TaskLock ==
  ASSUME BasicInv, NEW u \in Units, Task(u)
  PROVE  LockOK'
<1> USE DEF BasicInv, TypeOK, SharedTypeOK, Goto, LockOK, LockedStep, LockFree
<1>1. CASE TaskWake(u)
  BY <1>1 DEF TaskWake
<1>2. CASE GetMsg(u)
  <2>1. io_lock' = io_lock /\ pc[u] = "getmsg"
    BY <1>2 DEF GetMsg
  <2>2. \E l \in {"s_pop", "d_try", "reply", "kick", "wait"} : Goto(u, l)
    BY <1>2, GetMsgCases
  <2>3. QED
    BY <2>1, <2>2
<1>3. CASE DispatchReply(u)
  BY <1>3 DEF DispatchReply
<1>4. CASE KickBatch(u)
  BY <1>4 DEF KickBatch
<1>5. CASE SubmitPop(u)
  BY <1>5 DEF SubmitPop
<1>6. CASE SubmitPrepare(u)
  BY <1>6 DEF SubmitPrepare
<1>7. CASE SubmitAddBuf(u)
  BY <1>7, ScsiIOAssumption DEF SubmitAddBuf
<1>8. CASE SubmitCount(u)
  BY <1>8, ScsiIOAssumption DEF SubmitCount
<1>9. CASE SubmitRelease(u)
  BY <1>9 DEF SubmitRelease
<1>10. CASE HarvestGetBuf(u)
  BY <1>10, ScsiIOAssumption DEF HarvestGetBuf
<1>11. CASE HarvestCoalesce(u)
  BY <1>11, ScsiIOAssumption DEF HarvestCoalesce
<1>12. CASE HarvestRoute(u)
  BY <1>12, ScsiIOAssumption DEF HarvestRoute, CompleteStatus
<1>13. CASE HarvestSignal(u)
  BY <1>13 DEF HarvestSignal
<1>14. CASE CompleteFree(u)
  BY <1>14 DEF CompleteFree
<1>15. CASE CompleteReply(u)
  BY <1>15, ScsiIOAssumption DEF CompleteReply, TaskTypeOK
<1>16. CASE DoIOTry(u)
  BY <1>16 DEF DoIOTry
<1>17. CASE DoIOAddBuf(u)
  BY <1>17, ScsiIOAssumption DEF DoIOAddBuf
<1>18. CASE DoIOKick(u)
  BY <1>18, ScsiIOAssumption DEF DoIOKick
<1>19. CASE DoIODrain(u)
  BY <1>19 DEF DoIODrain
<1>20. CASE DoIORoute(u)
  BY <1>20, ScsiIOAssumption DEF DoIORoute, CompleteStatus
<1>21. CASE DoIOStash(u)
  BY <1>21 DEF DoIOStash
<1>22. CASE DoIOWait(u)
  BY <1>22 DEF DoIOWait
<1>23. CASE DoIOClear(u)
  BY <1>23 DEF DoIOClear
<1>24. CASE DoIODone(u)
  BY <1>24 DEF DoIODone
<1>25. QED
  BY <1>1, <1>2, <1>3, <1>4, <1>5, <1>6, <1>7, <1>8, <1>9, <1>10, <1>11,
     <1>12, <1>13, <1>14, <1>15, <1>16, <1>17, <1>18, <1>19, <1>20,
     <1>21, <1>22, <1>23, <1>24 DEF Task

-----------------------------------------------------------------------------
(* Clients, device and interrupt handler *)

\* The steps outside the unit tasks.
Environment ==
  \/ \E r \in Requests : BeginIO(r) \/ AbortIO(r)
  \/ InterruptHandler
  \/ \E h \in Heads, o \in Outcomes : DeviceComplete(h, o)
  \/ Device

\* A step is one of the environment or one of a unit task.
LEMMA NextCases == Next => Environment \/ \E u \in Units : Task(u)
  BY DEF Next, Environment

\* They leave the tasks and the units' bookkeeping alone.
LEMMA EnvironmentFrame ==
  ASSUME Environment
  PROVE  /\ UNCHANGED <<unitVars, taskVars, pc, doio_pending_cookie, io_lock, req_id, timed_out>>
         /\ cookies' = cookies
<1>1. CASE \E r \in Requests : BeginIO(r) \/ AbortIO(r)
  BY <1>1 DEF BeginIO, AbortIO, bufVars, histVars, ringVars
<1>2. CASE InterruptHandler
  BY <1>2 DEF InterruptHandler, bufVars, histVars, Acknowledge
<1>3. CASE \E h \in Heads, o \in Outcomes : DeviceComplete(h, o)
  BY <1>3 DEF DeviceComplete, DeviceUse, DeviceReport
<1>4. CASE Device
  BY <1>4 DEF Device, bufVars, histVars, DevicePoll, DeviceNotify
<1>5. QED
  BY <1>1, <1>2, <1>3, <1>4 DEF Environment

\* They keep the ring in order.
LEMMA EnvironmentRing ==
  ASSUME BasicInv, Environment
  PROVE  RingOK'
<1> USE DEF BasicInv
<1>1. CASE \E r \in Requests : BeginIO(r) \/ AbortIO(r)
  BY <1>1, RingUnchanged DEF BeginIO, AbortIO
<1>2. CASE InterruptHandler
  BY <1>2, InterruptRing DEF InterruptHandler
<1>3. CASE \E h \in Heads, o \in Outcomes : DeviceComplete(h, o)
  BY <1>3, DeviceUseRing DEF DeviceComplete
<1>4. CASE Device
  BY <1>4, DevicePollRing, InterruptRing DEF Device
<1>5. QED
  BY <1>1, <1>2, <1>3, <1>4 DEF Environment

\* Clients, device and interrupt handler keep the types.
LEMMA EnvironmentTypes ==
  ASSUME BasicInv, Environment
  PROVE  TypeOK'
<1> USE DEF BasicInv, TypeOK
<1>1. RingTypeOK'
  BY EnvironmentRing DEF RingOK
<1>2. UnitTypeOK'
  BY EnvironmentFrame DEF UnitTypeOK, unitVars
<1>3. TaskTypeOK'
  BY EnvironmentFrame DEF TaskTypeOK, taskVars
<1>4. CASE \E r \in Requests : BeginIO(r)
  <2>1. PICK r \in Requests : BeginIO(r)
    BY <1>4
  <2>2. io_port' \in [Units -> Seq(Requests)]
    <3>1. UnitOf[r] \in Units
      BY ScsiIOAssumption
    <3>2. Append(io_port[UnitOf[r]], r) \in Seq(Requests)
      BY <3>1 DEF SharedTypeOK
    <3>3. QED
      BY <2>1, <3>1, <3>2 DEF BeginIO, SharedTypeOK
  <2>3. sigs' \in [Units -> SUBSET {"port", "irq"}]
    BY <2>1 DEF BeginIO, SharedTypeOK, Signal
  <2>4. SharedTypeOK'
    BY <2>1, <2>2, <2>3 DEF BeginIO, SharedTypeOK
  <2>5. BufTypeOK' /\ ClientTypeOK' /\ HistTypeOK'
    BY <2>1 DEF BeginIO, BufTypeOK, ClientTypeOK, HistTypeOK, bufVars, histVars
  <2>6. QED
    BY <1>1, <1>2, <1>3, <2>4, <2>5
<1>5. CASE \E r \in Requests : AbortIO(r)
  <2>1. PICK r \in Requests : AbortIO(r)
    BY <1>5
  <2>2. PICK i \in DOMAIN io_port[UnitOf[r]] :
               io_port' = [io_port EXCEPT ![UnitOf[r]] = Remove(@, i)]
    BY <2>1 DEF AbortIO
  <2>3. io_port' \in [Units -> Seq(Requests)]
    BY <2>2, RemoveSeq, ScsiIOAssumption DEF SharedTypeOK
  <2>4. SharedTypeOK'
    BY <2>1, <2>3 DEF AbortIO, SharedTypeOK
  <2>5. BufTypeOK' /\ HistTypeOK'
    BY <2>1 DEF AbortIO, BufTypeOK, HistTypeOK, bufVars, histVars
  <2>6. ClientTypeOK'
    BY <2>1 DEF AbortIO, ReplyMsg, ClientTypeOK, Errors
  <2>7. QED
    BY <1>1, <1>2, <1>3, <2>4, <2>5, <2>6
<1>6. CASE InterruptHandler
  BY <1>1, <1>2, <1>3, <1>6
     DEF InterruptHandler, SharedTypeOK, BufTypeOK, ClientTypeOK, HistTypeOK, bufVars,
         clientVars, histVars
<1>7. CASE \E h \in Heads, o \in Outcomes : DeviceComplete(h, o)
  <2>1. PICK h \in Heads, o \in Outcomes : DeviceComplete(h, o)
    BY <1>7
  <2>2. resp' \in [Cookies -> Outcomes \cup {"good"}]
    BY <2>1 DEF DeviceComplete, BufTypeOK
  <2>3. answer' \in [Requests -> Outcomes \cup {NULL}]
    BY <2>1 DEF DeviceComplete, HistTypeOK
  <2>4. QED
    BY <1>1, <1>2, <1>3, <2>1, <2>2, <2>3
       DEF DeviceComplete, SharedTypeOK, BufTypeOK, ClientTypeOK, HistTypeOK, clientVars
<1>8. CASE Device
  BY <1>1, <1>2, <1>3, <1>8
     DEF Device, SharedTypeOK, BufTypeOK, ClientTypeOK, HistTypeOK, bufVars, clientVars,
       histVars
<1>9. QED
  BY <1>4, <1>5, <1>6, <1>7, <1>8 DEF Environment

-----------------------------------------------------------------------------
(* BasicInv is an invariant *)

\* The state after the units were set up: all slots free, the ring empty.
LEMMA BasicInit == Init => BasicInv
<1> SUFFICES ASSUME Init PROVE BasicInv
  OBVIOUS
<1>1. RingOK
  <2>1. 0 \in Idx
    BY RingAssumption, FS_CardinalityType DEF Idx
  <2>2. RingTypeOK
    <3>1. <<>> \in Seq(Heads \cup {NULL})
      OBVIOUS
    <3>2. QED
      BY <2>1, <3>1 DEF Init, RingInit, RingTypeOK
  <2>3. Len(used) = 0 /\ used \in Seq(Heads)
    BY DEF Init, RingInit
  <2>4. QED
    BY <2>2, <2>3 DEF Init, RingInit, RingOK, InUsed
<1>2. UnitTypeOK
  <2>1. [i \in 1 .. MAX_INFLIGHT |-> i - 1] \in Seq(Slots)
    BY SlotsNat DEF Slots
  <2>2. QED
    BY <2>1 DEF Init, UnitTypeOK
<1>3. BufTypeOK /\ ClientTypeOK /\ HistTypeOK
  BY DEF Init, BufTypeOK, ClientTypeOK, HistTypeOK
<1>4. TaskTypeOK
  BY ScsiIOAssumption DEF Init, TaskTypeOK, Errors
<1>5. SharedTypeOK
  BY DEF Init, SharedTypeOK, Locations
<1>6. LocalOK /\ LockOK
  BY ScsiIOAssumption
     DEF Init, LocalOK, LocalAt, LockOK, Submitting, Routing, Completing, InLoop, AtRequest
<1>7. QED
  BY <1>1, <1>2, <1>3, <1>4, <1>5, <1>6 DEF BasicInv, TypeOK, RingOK

\* Every step keeps types, local variables, lock and ring in order.
LEMMA BasicStep == BasicInv /\ [Next]_vars => BasicInv'
<1> SUFFICES ASSUME BasicInv, [Next]_vars PROVE BasicInv'
  OBVIOUS
<1>1. CASE Environment
  <2>1. LocalOK' /\ LockOK'
    BY <1>1, EnvironmentFrame
       DEF BasicInv, LocalOK, LocalAt, LockOK, InLoop, AtRequest, taskVars
  <2>2. QED
    BY <1>1, <2>1, EnvironmentRing, EnvironmentTypes DEF BasicInv
<1>2. ASSUME NEW u \in Units, Task(u)
      PROVE  BasicInv'
  <2>1. RingOK'
    BY <1>2, TaskRing
  <2>2. TypeOK'
    BY <1>2, <2>1, TaskUnits, TaskBufs, TaskClients, TaskHist, TaskLocals, TaskShared
       DEF TypeOK, RingOK
  <2>3. ASSUME NEW v \in Units, v # u
        PROVE  LocalAt(v)'
    <3>1. Locals(v)' = Locals(v)
      BY <1>2, <2>3, TaskFrame
    <3>2. QED
      BY <3>1 DEF BasicInv, LocalOK, LocalAt, Locals, InLoop, AtRequest
  <2>4. LocalOK'
    BY <1>2, <2>3, TaskLocalAt DEF LocalOK
  <2>5. QED
    BY <1>2, <2>1, <2>2, <2>4, TaskLock DEF BasicInv
<1>3. CASE UNCHANGED vars
  <2>1. RingOK'
    BY <1>3, RingUnchanged DEF vars, BasicInv
  <2>2. TypeOK'
    BY <1>3 DEF vars, BasicInv, TypeOK, RingTypeOK, UnitTypeOK, BufTypeOK, ClientTypeOK,
       HistTypeOK, TaskTypeOK, SharedTypeOK, ringVars, unitVars, bufVars, clientVars, histVars,
       taskVars
  <2>3. LocalOK' /\ LockOK'
    BY <1>3 DEF vars, BasicInv, LocalOK, LocalAt, LockOK, InLoop, AtRequest, taskVars
  <2>4. QED
    BY <2>1, <2>2, <2>3 DEF BasicInv
<1>4. QED
  BY <1>1, <1>2, <1>3, NextCases

\* Whatever tasks, clients, device and interrupt handler do, io_lock is held
\* where the code says so, the ring holds each head once, and a task's local
\* variables fit its location.
THEOREM BasicInvariant == Spec => []BasicInv
  BY BasicInit, BasicStep, PTL DEF Spec

\* TypeOK, for every number of units, slots, ring heads and requests: no free
\* list, counter, cookie or port leaves its range (virtio_scsi_io.c).
THEOREM ScsiIOTypeCorrect == Spec => []TypeOK
<1>1. BasicInv => TypeOK
  BY DEF BasicInv
<1>2. QED
  BY <1>1, BasicInvariant, PTL

-----------------------------------------------------------------------------
(* The interrupt handler's mask *)

\* A task that frees the last slot of a unit clears its bit under io_lock, and
\* DoIO clears its own bit only while nothing is in flight.
LEMMA MaskTask ==
  ASSUME BasicInv, MaskCoversPipeline, NEW u \in Units, Task(u)
  PROVE  MaskCoversPipeline'
<1> USE DEF BasicInv, TypeOK, UnitTypeOK, MaskCoversPipeline
<1>1. CASE \/ TaskWake(u) \/ GetMsg(u) \/ DispatchReply(u) \/ KickBatch(u)
           \/ SubmitPop(u) \/ SubmitPrepare(u) \/ SubmitAddBuf(u)
           \/ SubmitRelease(u) \/ HarvestGetBuf(u) \/ HarvestCoalesce(u)
           \/ HarvestRoute(u) \/ HarvestSignal(u) \/ CompleteReply(u)
           \/ DoIOTry(u) \/ DoIOAddBuf(u) \/ DoIODrain(u) \/ DoIORoute(u)
           \/ DoIOStash(u) \/ DoIOWait(u) \/ DoIOClear(u)
  BY <1>1
     DEF unitVars, TaskWake, GetMsg, DispatchReply, KickBatch, SubmitPop,
         SubmitPrepare, SubmitAddBuf, SubmitRelease, HarvestGetBuf,
         HarvestCoalesce, HarvestRoute, HarvestSignal, CompleteReply,
         DoIOTry, DoIOAddBuf, DoIODrain, DoIORoute, DoIOStash, DoIOWait,
         DoIOClear
<1>2. CASE SubmitCount(u)
  BY <1>2 DEF SubmitCount, Activate
<1>3. CASE CompleteFree(u)
  <2>1. /\ cookie[u][1] \in Units
        /\ inflight_count' = [inflight_count EXCEPT ![cookie[u][1]] = Decrement(@)]
    BY <1>3, ScsiIOAssumption DEF CompleteFree, LocalOK, LocalAt
  <2>2. CASE inflight_count[cookie[u][1]] > 0
    BY <1>3, <2>1, <2>2 DEF CompleteFree, DeactivateIdle, Decrement
  <2>3. CASE ~(inflight_count[cookie[u][1]] > 0)
    BY <1>3, <2>1, <2>3 DEF CompleteFree, Decrement
  <2>4. QED
    BY <2>2, <2>3
<1>4. CASE DoIOKick(u)
  BY <1>4 DEF DoIOKick, Activate
<1>5. CASE DoIODone(u)
  <2>1. CASE UNCHANGED active_units_mask
    BY <1>5, <2>1 DEF DoIODone
  <2>2. CASE PipelineIdle(u) /\ DeactivateIdle(u, 0)
    BY <1>5, <2>2 DEF DoIODone, DeactivateIdle, PipelineIdle
  <2>3. QED
    BY <1>5, <2>1, <2>2 DEF DoIODone
<1>6. QED
  BY <1>1, <1>2, <1>3, <1>4, <1>5 DEF Task

\* MaskCoversPipeline, for every number of units and slots: a unit with
\* requests counted in flight (inflight_count) is in active_units_mask, whoever
\* completes them; Submit counts a request with the mask, after AddBuf.
THEOREM MaskSafe == Spec => []MaskCoversPipeline
<1>1. Init => MaskCoversPipeline
  BY DEF Init, MaskCoversPipeline
<1>2. BasicInv /\ MaskCoversPipeline /\ [Next]_vars => MaskCoversPipeline'
  <2> SUFFICES ASSUME BasicInv, MaskCoversPipeline, [Next]_vars
               PROVE  MaskCoversPipeline'
    OBVIOUS
  <2>1. CASE Environment
    BY <2>1, EnvironmentFrame DEF MaskCoversPipeline, unitVars
  <2>2. CASE UNCHANGED vars
    BY <2>2 DEF vars, MaskCoversPipeline, unitVars
  <2>3. QED
    BY <2>1, <2>2, MaskTask, NextCases
<1>3. QED
  BY <1>1, <1>2, BasicInvariant, PTL DEF Spec

=============================================================================
