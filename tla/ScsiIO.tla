-------------------------------- MODULE ScsiIO --------------------------------
(***************************************************************************)
(* The I/O engine of virtioscsi.device: every unit task runs the event     *)
(* loop of src/src/unit_task.c and, from it, the asynchronous pipeline     *)
(* (VirtIOSCSI_Submit, VirtIOSCSI_Kick, VirtIOSCSI_Harvest,                *)
(* complete_inflight_slot) and the synchronous path (VirtIOSCSI_DoIO) of   *)
(* src/src/virtio/virtio_scsi_io.c, against one request ring shared by all *)
(* units, with clients queueing and aborting requests and the interrupt    *)
(* handler of src/src/virtio/virtio_irq.c waking the tasks.                *)
(*                                                                         *)
(* A section under io_lock is one step, except where the device or the     *)
(* interrupt handler, which take no lock, can see its middle: there the    *)
(* step is split and io_lock names its holder in between.  Code outside    *)
(* io_lock is one step between two accesses to shared state.               *)
(*                                                                         *)
(* The units are open throughout; module UnitLifecycle covers start and    *)
(* shutdown.                                                               *)
(***************************************************************************)
EXTENDS RequestRing

CONSTANTS
  Units,         \* unit_num of the units, 0 .. MAX_UNITS-1
  MAX_INFLIGHT,  \* pipeline slots of a unit (16)
  Block,         \* CMD_READ / CMD_WRITE and their 64-bit forms
  Sync,          \* commands that issue one VirtIOSCSI_DoIO
  Quick,         \* queued commands answered without I/O (CMD_UPDATE, ...)
  Direct,        \* the Block requests above BOUNCE_BUF_SIZE: StartDMA per call
  UnitOf,        \* the unit a request is sent to
  Outcomes,      \* what the device may answer
  DmaMayFail,    \* StartDMA may fail
  MaxTries,      \* attempts of DoIO on CHECK CONDITION (3)
  MaxWakes       \* wakeups DoIO grants one attempt (retries, 50)

Requests == Block \cup Sync \cup Quick
Slots == 0 .. MAX_INFLIGHT - 1
Tag == 65536       \* req_cmd->id = unit_num << 16 | slot

ASSUME ScsiIOAssumption ==
  /\ IsFiniteSet(Units) /\ Units # {} /\ Units \subseteq Nat
  /\ MAX_INFLIGHT \in 2 .. Tag - 1
  /\ Cookies = Units \X Slots
  /\ IdxMod > Cardinality(Heads)
  /\ Block \cap Sync = {} /\ Quick \cap (Block \cup Sync) = {}
  /\ Direct \subseteq Block
  /\ NULL \notin Requests \cup Units /\ NULL \notin Outcomes
  /\ UnitOf \in [Requests -> Units]
  /\ Outcomes \subseteq {"good", "recovered", "check", "busy", "fail"}
  /\ DmaMayFail \in BOOLEAN
  /\ MaxTries \in Nat \ {0} /\ MaxWakes \in Nat \ {0}

VARIABLES
  \* struct VirtIOUSCSIDevUnit
  inflight,        \* inflight[slot].ioreq (cookie is set and cleared with it)
  dma,             \* inflight[slot].dma_list # NULL: the data is StartDMA-mapped
  free_list,       \* free_head / inflight_next: the stack of free slots
  inflight_count,
  doio_pending_cookie,
  io_port,         \* queued requests
  sigs,            \* pending signals of the unit task: "port", "irq"
  \* the request and response buffers, by cookie
  req_id,          \* req_cmd->id
  resp,            \* resp_cmd; a reset response reads as success
  \* struct VirtIOSCSIBase
  io_lock,         \* holder of the semaphore, or NULL
  occupied_count,
  active_units_mask,
  \* local variables of the unit tasks
  pc, woken, need_kick, cur, slot, cookie, done, derr, ret, rc, tries, wakes,
  own,
  \* the clients' view
  sent, replies, result,
  \* history: who published a head, what the device answered to a request,
  \* and whether some DoIO ever gave up on its command
  publisher, answer, timed_out

unitVars   == <<inflight, dma, free_list, inflight_count, occupied_count,
                active_units_mask>>
bufVars    == <<req_id, resp>>
clientVars == <<sent, replies, result>>
histVars   == <<publisher, answer, timed_out>>
taskVars   == <<woken, need_kick, cur, slot, cookie, done, derr, ret, rc,
                tries, wakes, own>>
vars == <<ringVars, unitVars, bufVars, clientVars, histVars, taskVars, pc,
          doio_pending_cookie, io_port, sigs, io_lock>>

Locations ==
  {"wait", "h_get", "h_coalesce", "h_route", "h_signal", "c_free",
   "c_reply", "getmsg", "s_pop", "s_prepare", "s_add", "s_count", "s_release",
   "reply", "kick", "d_try", "d_add", "d_kick", "d_check", "d_drain", "d_route",
   "d_stash", "d_wait", "d_clear", "d_done"}

Errors == {"none", "IOERR_ABORTED", "IOERR_SELFTEST", "HFERR_DMA",
           "TDERR_NotSpecified", "HFERR_BadStatus", "SENSE"}

UnitTypeOK ==
  /\ inflight \in [Units -> [Slots -> Requests \cup {NULL}]]
  /\ dma \in [Units -> [Slots -> BOOLEAN]]
  /\ free_list \in [Units -> Seq(Slots)]
  /\ inflight_count \in [Units -> Nat]
  /\ occupied_count \in Nat
  /\ active_units_mask \in SUBSET Units

BufTypeOK ==
  /\ req_id \in [Cookies -> Nat]
  /\ resp \in [Cookies -> Outcomes \cup {"good"}]

ClientTypeOK ==
  /\ sent \in SUBSET Requests
  /\ replies \in [Requests -> Nat]
  /\ result \in [Requests -> Errors \cup {NULL}]

HistTypeOK ==
  /\ publisher \in [Heads -> Requests \cup {NULL}]
  /\ answer \in [Requests -> Outcomes \cup {NULL}]
  /\ timed_out \in BOOLEAN

TaskTypeOK ==
  /\ woken \in [Units -> SUBSET {"port", "irq"}]
  /\ need_kick \in [Units -> BOOLEAN]
  /\ cur \in [Units -> Requests \cup {NULL}]
  /\ slot \in [Units -> Slots \cup {NULL}]
  /\ cookie \in [Units -> Cookies \cup {NULL}]
  /\ done \in [Units -> Requests \cup {NULL}]
  /\ derr \in [Units -> Errors]
  /\ ret \in [Units -> {"h_get", "d_drain"}]
  /\ rc \in [Units -> Errors]
  /\ tries \in [Units -> 0 .. MaxTries]
  /\ wakes \in [Units -> 0 .. MaxWakes]
  /\ own \in [Units -> BOOLEAN]

SharedTypeOK ==
  /\ pc \in [Units -> Locations]
  /\ doio_pending_cookie \in [Units -> Cookies \cup {NULL}]
  /\ io_port \in [Units -> Seq(Requests)]
  /\ sigs \in [Units -> SUBSET {"port", "irq"}]
  /\ io_lock \in Units \cup {NULL}

TypeOK ==
  /\ RingTypeOK /\ UnitTypeOK /\ BufTypeOK /\ ClientTypeOK /\ HistTypeOK
  /\ TaskTypeOK /\ SharedTypeOK

\* preallocate_unit_dma chains the slots 0, 1, ..; DiscoverUnits and
\* UnitTask_Entry leave everything else clear and the task in its Wait.
Init ==
  /\ RingInit
  /\ inflight = [u \in Units |-> [s \in Slots |-> NULL]]
  /\ dma = [u \in Units |-> [s \in Slots |-> FALSE]]
  /\ free_list = [u \in Units |-> [i \in 1 .. MAX_INFLIGHT |-> i - 1]]
  /\ inflight_count = [u \in Units |-> 0]
  /\ occupied_count = 0
  /\ active_units_mask = {}
  /\ doio_pending_cookie = [u \in Units |-> NULL]
  /\ io_port = [u \in Units |-> <<>>]
  /\ sigs = [u \in Units |-> {}]
  /\ req_id = [c \in Cookies |-> 0]
  /\ resp = [c \in Cookies |-> "good"]
  /\ io_lock = NULL
  /\ pc = [u \in Units |-> "wait"]
  /\ woken = [u \in Units |-> {}]
  /\ need_kick = [u \in Units |-> FALSE]
  /\ cur = [u \in Units |-> NULL]
  /\ slot = [u \in Units |-> NULL]
  /\ cookie = [u \in Units |-> NULL]
  /\ done = [u \in Units |-> NULL]
  /\ derr = [u \in Units |-> "none"]
  /\ ret = [u \in Units |-> "h_get"]
  /\ rc = [u \in Units |-> "none"]
  /\ tries = [u \in Units |-> 0]
  /\ wakes = [u \in Units |-> 0]
  /\ own = [u \in Units |-> FALSE]
  /\ sent = {}
  /\ replies = [r \in Requests |-> 0]
  /\ result = [r \in Requests |-> NULL]
  /\ publisher = [h \in Heads |-> NULL]
  /\ answer = [r \in Requests |-> NULL]
  /\ timed_out = FALSE

-----------------------------------------------------------------------------
(* Helpers *)

Goto(u, l) == pc' = [pc EXCEPT ![u] = l]

LockFree == io_lock = NULL

\* ObtainSemaphore followed by ReleaseSemaphore within one step.
LockedStep == LockFree /\ UNCHANGED io_lock

Signal(u, s) == sigs' = [sigs EXCEPT ![u] = @ \cup {s}]

ReplyMsg(r, e) ==
  /\ replies' = [replies EXCEPT ![r] = @ + 1]
  /\ result' = [result EXCEPT ![r] = e]
  /\ UNCHANGED sent

\* A slot returns to the head of its unit's free list.
PushFreeUnlinked(w, s) == free_list' = [free_list EXCEPT ![w] = <<s>>]
PushFree(w, s) == free_list' = [free_list EXCEPT ![w] = <<s>> \o @]

\* The counters never go below zero.
DecrementAboveOne(n) == IF n > 1 THEN n - 1 ELSE n
Decrement(n) == IF n > 0 THEN n - 1 ELSE n

\* active_units_mask |= 1 << unit_num
ActivateForgotten(u) == UNCHANGED active_units_mask
Activate(u) == active_units_mask' = active_units_mask \cup {u}

\* active_units_mask after unit w is left with n requests in flight.
DeactivateEarly(w, n) ==
  active_units_mask' = IF n <= 1 THEN active_units_mask \ {w} ELSE active_units_mask
DeactivateIdle(w, n) ==
  active_units_mask' = IF n = 0 THEN active_units_mask \ {w} ELSE active_units_mask

\* The message at place i leaves a port's list (Exec's Remove).
RemoveForgotten(q, i) == q
Remove(q, i) == [j \in 1 .. Len(q) - 1 |-> IF j < i THEN q[j] ELSE q[j + 1]]

\* req_buf and resp_buf of the synchronous path are slot 0's buffers.
req_buf(u) == <<u, 0>>

\* Which free head AddBuf takes is of no consequence to its callers.
FreeHead == CHOOSE h \in Heads : cookies[h] = NULL

\* map_scsi_error.  "recovered" is CHECK CONDITION with sense key 0 or 1.
map_scsi_error(o) ==
  CASE o \in {"good", "recovered"} -> "none"
    [] o = "check" -> "SENSE"
    [] o = "busy" -> "HFERR_BadStatus"
    [] o = "fail" -> "TDERR_NotSpecified"

\* req_cmd->id of a pipelined request.
EncodeId(u, s) == u * Tag + s

\* The slot a completed cookie is routed to: the unit and slot decoded from
\* req_cmd->id, if that slot is occupied and holds this very cookie.
Routed(c) ==
  LET u == req_id[c] \div Tag
      s == req_id[c] % Tag
  IN  /\ u \in Units /\ s \in Slots
      /\ <<u, s>> = c
      /\ inflight[u][s] # NULL

\* The cookie handed back is the one this unit's DoIO waits for.
AnySlotZero(u, c) == c[2] = 0
OwnCookie(u, c) == c = req_buf(u)

\* A completion taken off the ring on behalf of another unit's DoIO.
StashDropped(c) == UNCHANGED doio_pending_cookie
Stash(c) == doio_pending_cookie' = [doio_pending_cookie EXCEPT ![c[1]] = c]

-----------------------------------------------------------------------------
(* Clients *)

\* _manager_BeginIO, queued commands: PutMsg to the unit task's port.
BeginIO(r) ==
  /\ r \notin sent
  /\ sent' = sent \cup {r}
  /\ io_port' = [io_port EXCEPT ![UnitOf[r]] = Append(@, r)]
  /\ Signal(UnitOf[r], "port")
  /\ UNCHANGED <<ringVars, unitVars, bufVars, replies, result, histVars,
                 taskVars, pc, doio_pending_cookie, io_lock>>

\* _manager_AbortIO: a request still queued is removed and replied; one the
\* task has already taken is left alone (IOERR_NOCMD).
AbortIO(r) ==
  /\ \E i \in DOMAIN io_port[UnitOf[r]] :
       /\ io_port[UnitOf[r]][i] = r
       /\ io_port' = [io_port EXCEPT ![UnitOf[r]] = Remove(@, i)]
  /\ ReplyMsg(r, "IOERR_ABORTED")
  /\ UNCHANGED <<ringVars, unitVars, bufVars, histVars, taskVars, pc,
                 doio_pending_cookie, sigs, io_lock>>

-----------------------------------------------------------------------------
(* UnitTask_Entry: the event loop *)

\* Wait returns and clears the signals it waited for; an interrupt is
\* harvested before new requests are taken.
TaskWake(u) ==
  /\ pc[u] = "wait"
  /\ sigs[u] # {}
  /\ woken' = [woken EXCEPT ![u] = sigs[u]]
  /\ sigs' = [sigs EXCEPT ![u] = {}]
  /\ Goto(u, IF "irq" \in sigs[u] THEN "h_get" ELSE "getmsg")
  /\ UNCHANGED <<ringVars, unitVars, bufVars, clientVars, histVars, need_kick,
                 cur, slot, cookie, done, derr, ret, rc, tries, wakes, own,
                 doio_pending_cookie, io_port, io_lock>>

\* One turn of the dispatch loop: GetMsg and the switch of UnitTask_Dispatch,
\* or, the port empty, the end of the batch.
GetMsg(u) ==
  /\ pc[u] = "getmsg"
  /\ \/ /\ "port" \in woken[u] /\ io_port[u] # <<>>
        /\ cur' = [cur EXCEPT ![u] = Head(io_port[u])]
        /\ io_port' = [io_port EXCEPT ![u] = Tail(@)]
        /\ tries' = [tries EXCEPT ![u] = MaxTries]
        /\ Goto(u, CASE Head(io_port[u]) \in Block -> "s_pop"
                     [] Head(io_port[u]) \in Sync  -> "d_try"
                     [] Head(io_port[u]) \in Quick -> "reply")
        /\ UNCHANGED woken
     \/ /\ "port" \notin woken[u] \/ io_port[u] = <<>>
        /\ woken' = [woken EXCEPT ![u] = {}]
        /\ Goto(u, IF need_kick[u] THEN "kick" ELSE "wait")
        /\ UNCHANGED <<cur, io_port, tries>>
  /\ UNCHANGED <<ringVars, unitVars, bufVars, clientVars, histVars, need_kick,
                 slot, cookie, done, derr, ret, rc, wakes, own,
                 doio_pending_cookie, sigs, io_lock>>

\* The synchronous end of UnitTask_Dispatch: reply what was not submitted.
DispatchReply(u) ==
  /\ pc[u] = "reply"
  /\ ReplyMsg(cur[u], rc[u])
  /\ cur' = [cur EXCEPT ![u] = NULL]
  /\ rc' = [rc EXCEPT ![u] = "none"]
  /\ tries' = [tries EXCEPT ![u] = 0]
  /\ Goto(u, "getmsg")
  /\ UNCHANGED <<ringVars, unitVars, bufVars, histVars, woken, need_kick, slot,
                 cookie, done, derr, ret, wakes, own, doio_pending_cookie, io_port,
                 sigs, io_lock>>

\* VirtIOSCSI_Kick: one notify for the whole batch.
KickBatch(u) ==
  /\ pc[u] = "kick"
  /\ LockedStep
  /\ Kick
  /\ need_kick' = [need_kick EXCEPT ![u] = FALSE]
  /\ Goto(u, "wait")
  /\ UNCHANGED <<unitVars, bufVars, clientVars, histVars, woken, cur, slot,
                 cookie, done, derr, ret, rc, tries, wakes, own,
                 doio_pending_cookie, io_port, sigs>>

-----------------------------------------------------------------------------
(* VirtIOSCSI_Submit *)

\* Pop a free slot; with none left submit_block_io falls back to DoIO.
SubmitPop(u) ==
  /\ pc[u] = "s_pop"
  /\ LockedStep
  /\ \/ /\ free_list[u] # <<>>
        /\ slot' = [slot EXCEPT ![u] = Head(free_list[u])]
        /\ free_list' = [free_list EXCEPT ![u] = Tail(@)]
        /\ Goto(u, "s_prepare")
     \/ /\ free_list[u] = <<>>
        /\ Goto(u, "d_try")
        /\ UNCHANGED <<slot, free_list>>
  /\ UNCHANGED <<ringVars, inflight, dma, inflight_count, occupied_count,
                 active_units_mask, bufVars, clientVars, histVars, woken,
                 need_kick, cur, cookie, done, derr, ret, rc, tries, wakes, own,
                 doio_pending_cookie, io_port, sigs>>

\* Reset the response, fill the header, map the data (bounce or direct), mark
\* the slot.  A failing StartDMA, or a chain above MAX_SG_ENTRIES, unmaps and
\* gives the slot back.
SubmitPrepare(u) ==
  LET s == slot[u] IN
  /\ pc[u] = "s_prepare"
  /\ resp' = [resp EXCEPT ![<<u, s>>] = "good"]
  /\ req_id' = [req_id EXCEPT ![<<u, s>>] = EncodeId(u, s)]
  /\ \/ /\ dma' = [dma EXCEPT ![u][s] = cur[u] \in Direct]
        /\ inflight' = [inflight EXCEPT ![u][s] = cur[u]]
        /\ Goto(u, "s_add")
        /\ UNCHANGED rc
     \/ /\ DmaMayFail /\ cur[u] \in Direct
        /\ rc' = [rc EXCEPT ![u] = "HFERR_DMA"]
        /\ Goto(u, "s_release")
        /\ UNCHANGED <<dma, inflight>>
  /\ UNCHANGED <<ringVars, free_list, inflight_count, occupied_count,
                 active_units_mask, clientVars, histVars, woken, need_kick, cur,
                 slot, cookie, done, derr, ret, tries, wakes, own,
                 doio_pending_cookie, io_port, sigs, io_lock>>

\* AddBuf under io_lock.  On success the lock is kept for SubmitCount; on
\* failure the slot's marks are rolled back.
SubmitAddBuf(u) ==
  LET s == slot[u] IN
  /\ pc[u] = "s_add"
  /\ LockFree
  /\ \/ /\ ~RingFull
        /\ AddBuf(FreeHead, <<u, s>>)
        /\ publisher' = [publisher EXCEPT ![FreeHead] = cur[u]]
        /\ io_lock' = u
        /\ Goto(u, "s_count")
        /\ UNCHANGED <<inflight, dma, rc>>
     \/ /\ MayReject
        /\ inflight' = [inflight EXCEPT ![u][s] = NULL]
        /\ dma' = [dma EXCEPT ![u][s] = FALSE]
        /\ rc' = [rc EXCEPT ![u] = "TDERR_NotSpecified"]
        /\ Goto(u, "s_release")
        /\ UNCHANGED <<ringVars, publisher, io_lock>>
  /\ UNCHANGED <<free_list, inflight_count, occupied_count, active_units_mask,
                 bufVars, clientVars, answer, timed_out, woken, need_kick, cur,
                 slot, cookie, done, derr, ret, tries, wakes, own,
                 doio_pending_cookie, io_port, sigs>>

\* The occupancy bookkeeping that follows a successful AddBuf.
SubmitCount(u) ==
  /\ pc[u] = "s_count"
  /\ occupied_count' = occupied_count + 1
  /\ inflight_count' = [inflight_count EXCEPT ![u] = @ + 1]
  /\ Activate(u)
  /\ io_lock' = NULL
  /\ need_kick' = [need_kick EXCEPT ![u] = TRUE]
  /\ cur' = [cur EXCEPT ![u] = NULL]
  /\ slot' = [slot EXCEPT ![u] = NULL]
  /\ tries' = [tries EXCEPT ![u] = 0]
  /\ Goto(u, "getmsg")
  /\ UNCHANGED <<ringVars, inflight, dma, free_list, bufVars, clientVars,
                 histVars, woken, cookie, done, derr, ret, rc, wakes, own,
                 doio_pending_cookie, io_port, sigs>>

\* submit_release_slot on the failure paths.
SubmitRelease(u) ==
  /\ pc[u] = "s_release"
  /\ LockedStep
  /\ PushFree(u, slot[u])
  /\ slot' = [slot EXCEPT ![u] = NULL]
  /\ Goto(u, "reply")
  /\ UNCHANGED <<ringVars, inflight, dma, inflight_count, occupied_count,
                 active_units_mask, bufVars, clientVars, histVars, woken,
                 need_kick, cur, cookie, done, derr, ret, rc, tries, wakes, own,
                 doio_pending_cookie, io_port, sigs>>

-----------------------------------------------------------------------------
(* complete_inflight_slot, called by Harvest and by DoIO *)

\* Before the lock: the request, its status, bounce read-back and EndDMA.
\* Nothing else touches the slot meanwhile, so routing and this are one step.
CompleteStatus(u) ==
  LET w == cookie[u][1]
      s == cookie[u][2]
  IN
  /\ done' = [done EXCEPT ![u] = inflight[w][s]]
  /\ derr' = [derr EXCEPT ![u] = map_scsi_error(resp[<<w, s>>])]
  /\ dma' = [dma EXCEPT ![w][s] = FALSE]
  /\ Goto(u, "c_free")

\* Under io_lock: free the slot.  Decrements are guarded against zero; the
\* unit's bit in the mask goes with its last pipelined request.
CompleteFree(u) ==
  LET w == cookie[u][1]
      s == cookie[u][2]
  IN
  /\ pc[u] = "c_free"
  /\ LockedStep
  /\ inflight' = [inflight EXCEPT ![w][s] = NULL]
  /\ PushFree(w, s)
  /\ occupied_count' = Decrement(occupied_count)
  /\ inflight_count' = [inflight_count EXCEPT ![w] = Decrement(@)]
  /\ IF inflight_count[w] > 0 THEN DeactivateIdle(w, Decrement(inflight_count[w]))
                              ELSE UNCHANGED active_units_mask
  /\ cookie' = [cookie EXCEPT ![u] = NULL]
  /\ Goto(u, "c_reply")
  /\ UNCHANGED <<ringVars, dma, bufVars, clientVars, histVars, woken, need_kick,
                 cur, slot, done, derr, ret, rc, tries, wakes, own,
                 doio_pending_cookie, io_port, sigs>>

\* ReplyMsg, then back to the caller's loop.
CompleteReply(u) ==
  /\ pc[u] = "c_reply"
  /\ ReplyMsg(done[u], derr[u])
  /\ done' = [done EXCEPT ![u] = NULL]
  /\ derr' = [derr EXCEPT ![u] = "none"]
  /\ ret' = [ret EXCEPT ![u] = "h_get"]
  /\ Goto(u, ret[u])
  /\ UNCHANGED <<ringVars, unitVars, bufVars, histVars, woken, need_kick, cur,
                 slot, cookie, rc, tries, wakes, own, doio_pending_cookie,
                 io_port, sigs, io_lock>>

-----------------------------------------------------------------------------
(* VirtIOSCSI_Harvest *)

\* GetBuf under io_lock.  A completion is taken out of the lock; an empty ring
\* ends the drain with the lock still held.
HarvestGetBuf(u) ==
  /\ pc[u] = "h_get"
  /\ LockFree
  /\ \/ /\ GetBuf
        /\ cookie' = [cookie EXCEPT ![u] = Returned]
        /\ publisher' = [publisher EXCEPT ![Head(used)] = NULL]
        /\ Goto(u, "h_route")
        /\ UNCHANGED io_lock
     \/ /\ used = <<>>
        /\ io_lock' = u
        /\ Goto(u, "h_coalesce")
        /\ UNCHANGED <<ringVars, cookie, publisher>>
  /\ UNCHANGED <<unitVars, bufVars, clientVars, answer, timed_out, woken,
                 need_kick, cur, slot, done, derr, ret, rc, tries, wakes, own,
                 doio_pending_cookie, io_port, sigs>>

\* used_event so that the n-th completion from here interrupts.
CoalescedOffByOne(n) == (last_used_idx + n) % IdxMod
CoalescedEvent(n) == (last_used_idx + n - 1) % IdxMod

\* Interrupt coalescing, then release io_lock.
HarvestCoalesce(u) ==
  /\ pc[u] = "h_coalesce"
  /\ IF UseEventIdx /\ occupied_count >= 2
     THEN SetUsedEvent(CoalescedEvent(occupied_count))
     ELSE UNCHANGED ringVars
  /\ io_lock' = NULL
  /\ Goto(u, "getmsg")
  /\ UNCHANGED <<unitVars, bufVars, clientVars, histVars, taskVars,
                 doio_pending_cookie, io_port, sigs>>

\* Without the lock: a pipelined request is completed; a cookie that is some
\* unit's req_buf is stashed for that unit's DoIO.
HarvestRoute(u) ==
  LET c == cookie[u] IN
  /\ pc[u] = "h_route"
  /\ \/ /\ Routed(c)
        /\ CompleteStatus(u)
        /\ UNCHANGED <<cookie, doio_pending_cookie>>
     \/ /\ ~Routed(c)
        /\ IF c = req_buf(c[1])
           THEN /\ Stash(c)
                /\ Goto(u, "h_signal")
                /\ UNCHANGED cookie
           ELSE /\ cookie' = [cookie EXCEPT ![u] = NULL]
                /\ Goto(u, "h_get")
                /\ UNCHANGED doio_pending_cookie
        /\ UNCHANGED <<done, derr, dma>>
  /\ UNCHANGED <<ringVars, inflight, free_list, inflight_count, occupied_count,
                 active_units_mask, bufVars, clientVars, histVars, woken,
                 need_kick, cur, slot, ret, rc, tries, wakes, own, io_port,
                 sigs, io_lock>>

\* Signal the task whose DoIO cookie was stashed.
HarvestSignal(u) ==
  /\ pc[u] = "h_signal"
  /\ Signal(cookie[u][1], "irq")
  /\ cookie' = [cookie EXCEPT ![u] = NULL]
  /\ Goto(u, "h_get")
  /\ UNCHANGED <<ringVars, unitVars, bufVars, clientVars, histVars, woken,
                 need_kick, cur, slot, done, derr, ret, rc, tries, wakes, own,
                 doio_pending_cookie, io_port, io_lock>>

-----------------------------------------------------------------------------
(* VirtIOSCSI_DoIO, in the unit's own task *)

\* Top of an attempt: reset the response, overwrite the header (id = 1), map
\* the data buffer.
DoIOTry(u) ==
  /\ pc[u] = "d_try"
  /\ tries' = [tries EXCEPT ![u] = @ - 1]
  /\ resp' = [resp EXCEPT ![req_buf(u)] = "good"]
  /\ req_id' = [req_id EXCEPT ![req_buf(u)] = 1]
  /\ \/ /\ Goto(u, "d_add")
        /\ UNCHANGED rc
     \/ /\ DmaMayFail
        /\ rc' = [rc EXCEPT ![u] = "HFERR_DMA"]
        /\ Goto(u, "d_done")
  /\ UNCHANGED <<ringVars, unitVars, clientVars, histVars, woken, need_kick,
                 cur, slot, cookie, done, derr, ret, wakes, own,
                 doio_pending_cookie, io_port, sigs, io_lock>>

DoIOAddBuf(u) ==
  /\ pc[u] = "d_add"
  /\ LockFree
  /\ \/ /\ ~RingFull
        /\ AddBuf(FreeHead, req_buf(u))
        /\ publisher' = [publisher EXCEPT ![FreeHead] = cur[u]]
        /\ io_lock' = u
        /\ Goto(u, "d_kick")
        /\ UNCHANGED rc
     \/ /\ MayReject
        /\ rc' = [rc EXCEPT ![u] = "TDERR_NotSpecified"]
        /\ Goto(u, "d_done")
        /\ UNCHANGED <<ringVars, publisher, io_lock>>
  /\ UNCHANGED <<unitVars, bufVars, clientVars, answer, timed_out, woken,
                 need_kick, cur, slot, cookie, done, derr, ret, tries, wakes,
                 own, doio_pending_cookie, io_port, sigs>>

\* Still under io_lock: mark the unit active, notify.
DoIOKick(u) ==
  /\ pc[u] = "d_kick"
  /\ Activate(u)
  /\ Kick
  /\ io_lock' = NULL
  /\ wakes' = [wakes EXCEPT ![u] = MaxWakes]
  /\ own' = [own EXCEPT ![u] = FALSE]
  /\ Goto(u, "d_check")
  /\ UNCHANGED <<inflight, dma, free_list, inflight_count, occupied_count,
                 bufVars, clientVars, histVars, woken, need_kick, cur, slot,
                 cookie, done, derr, ret, rc, tries, doio_pending_cookie,
                 io_port, sigs>>

\* Under io_lock: first the stash (at the top of a wakeup only), then the ring
\* until it is empty or hands back the own cookie.
DoIODrain(u) ==
  LET stashed == pc[u] = "d_check" /\ doio_pending_cookie[u] = req_buf(u) IN
  /\ pc[u] \in {"d_check", "d_drain"}
  /\ LockedStep
  /\ \/ /\ stashed
        /\ doio_pending_cookie' = [doio_pending_cookie EXCEPT ![u] = NULL]
        /\ own' = [own EXCEPT ![u] = TRUE]
        /\ Goto(u, "d_clear")
        /\ UNCHANGED <<ringVars, cookie, publisher>>
     \/ /\ ~stashed
        /\ GetBuf
        /\ publisher' = [publisher EXCEPT ![Head(used)] = NULL]
        /\ IF OwnCookie(u, Returned)
           THEN /\ own' = [own EXCEPT ![u] = TRUE]
                /\ Goto(u, "d_clear")
                /\ UNCHANGED cookie
           ELSE /\ cookie' = [cookie EXCEPT ![u] = Returned]
                /\ Goto(u, "d_route")
                /\ UNCHANGED own
        /\ UNCHANGED doio_pending_cookie
     \/ /\ ~stashed
        /\ used = <<>>
        /\ Goto(u, "d_wait")
        /\ UNCHANGED <<ringVars, cookie, own, doio_pending_cookie, publisher>>
  /\ UNCHANGED <<unitVars, bufVars, clientVars, answer, timed_out, woken,
                 need_kick, cur, slot, done, derr, ret, rc, tries, wakes,
                 io_port, sigs>>

\* A completion that is not the own one: complete it inline, or look for the
\* DoIO it belongs to.
DoIORoute(u) ==
  /\ pc[u] = "d_route"
  /\ \/ /\ Routed(cookie[u])
        /\ CompleteStatus(u)
        /\ ret' = [ret EXCEPT ![u] = "d_drain"]
     \/ /\ ~Routed(cookie[u])
        /\ Goto(u, "d_stash")
        /\ UNCHANGED <<done, derr, dma, ret>>
  /\ UNCHANGED <<ringVars, inflight, free_list, inflight_count, occupied_count,
                 active_units_mask, bufVars, clientVars, histVars, woken,
                 need_kick, cur, slot, cookie, rc, tries, wakes, own,
                 doio_pending_cookie, io_port, sigs, io_lock>>

\* Under io_lock: stash and signal.
DoIOStash(u) ==
  LET c == cookie[u] IN
  /\ pc[u] = "d_stash"
  /\ LockedStep
  /\ IF c = req_buf(c[1])
     THEN /\ Stash(c)
          /\ Signal(c[1], "irq")
     ELSE UNCHANGED <<doio_pending_cookie, sigs>>
  /\ cookie' = [cookie EXCEPT ![u] = NULL]
  /\ Goto(u, "d_drain")
  /\ UNCHANGED <<ringVars, unitVars, bufVars, clientVars, histVars, woken,
                 need_kick, cur, slot, done, derr, ret, rc, tries, wakes, own,
                 io_port>>

\* Wait(sig_mask) returns; the last wakeup of the budget ends the loop without
\* another look at the ring.
DoIOWait(u) ==
  /\ pc[u] = "d_wait"
  /\ "irq" \in sigs[u]
  /\ sigs' = [sigs EXCEPT ![u] = @ \ {"irq"}]
  /\ wakes' = [wakes EXCEPT ![u] = @ - 1]
  /\ Goto(u, IF wakes[u] > 1 THEN "d_check" ELSE "d_clear")
  /\ UNCHANGED <<ringVars, unitVars, bufVars, clientVars, histVars, woken,
                 need_kick, cur, slot, cookie, done, derr, ret, rc, tries, own,
                 doio_pending_cookie, io_port, io_lock>>

\* SetSignal(0, sig_mask) drops any further wakeup; then the outcome of the
\* attempt: timeout, retry on CHECK CONDITION, or a result.
DoIOClear(u) ==
  LET o == resp[req_buf(u)] IN
  /\ pc[u] = "d_clear"
  /\ sigs' = [sigs EXCEPT ![u] = @ \ {"irq"}]
  /\ wakes' = [wakes EXCEPT ![u] = 0]
  /\ own' = [own EXCEPT ![u] = FALSE]
  /\ IF own[u] /\ o \in {"recovered", "check"} /\ tries[u] > 0
     THEN /\ Goto(u, "d_try")
          /\ UNCHANGED rc
     ELSE /\ Goto(u, "d_done")
          /\ rc' = [rc EXCEPT ![u] = IF own[u] THEN map_scsi_error(o)
                                               ELSE "IOERR_SELFTEST"]
  /\ timed_out' = (timed_out \/ ~own[u])
  /\ UNCHANGED <<ringVars, unitVars, bufVars, clientVars, publisher, answer,
                 woken, need_kick, cur, slot, cookie, done, derr, ret, tries,
                 doio_pending_cookie, io_port, io_lock>>

\* Whether the unit's bit in the mask may go: not while the pipeline needs it.
PipelineIdle(u) == inflight_count[u] = 0

\* The unit's bit in the mask goes unless the pipeline still needs it.  Only the
\* unit's own task raises inflight_count, so the re-check under io_lock agrees.
DoIODone(u) ==
  /\ pc[u] = "d_done"
  /\ \/ /\ ~PipelineIdle(u)
        /\ UNCHANGED <<io_lock, active_units_mask>>
     \/ /\ PipelineIdle(u)
        /\ LockedStep
        /\ DeactivateIdle(u, 0)
  /\ Goto(u, "reply")
  /\ UNCHANGED <<ringVars, inflight, dma, free_list, inflight_count,
                 occupied_count, bufVars, clientVars, histVars, taskVars,
                 doio_pending_cookie, io_port, sigs>>

-----------------------------------------------------------------------------
(* Interrupt handler and device *)

\* VirtIOSCSI_InterruptHandler: acknowledge, then signal every active unit.
InterruptHandler ==
  /\ Acknowledge
  /\ sigs' = [u \in Units |-> IF u \in active_units_mask
                              THEN sigs[u] \cup {"irq"} ELSE sigs[u]]
  /\ UNCHANGED <<unitVars, bufVars, clientVars, histVars, taskVars, pc,
                 doio_pending_cookie, io_port, io_lock>>

\* The device writes the response buffer the head's chain points at and puts
\* the head in the used ring.
DeviceComplete(h, o) ==
  /\ DeviceUse(h)
  /\ resp' = [resp EXCEPT ![cookies[h]] = o]
  /\ answer' = [answer EXCEPT ![publisher[h]] = o]
  /\ UNCHANGED <<unitVars, req_id, clientVars, publisher, timed_out, taskVars,
                 pc, doio_pending_cookie, io_port, sigs, io_lock>>

Device ==
  /\ \/ \E h \in Heads : DevicePoll(h)
     \/ DeviceNotify
  /\ UNCHANGED <<unitVars, bufVars, clientVars, histVars, taskVars, pc,
                 doio_pending_cookie, io_port, sigs, io_lock>>

-----------------------------------------------------------------------------
Task(u) ==
  \/ TaskWake(u) \/ GetMsg(u) \/ DispatchReply(u) \/ KickBatch(u)
  \/ SubmitPop(u) \/ SubmitPrepare(u) \/ SubmitAddBuf(u) \/ SubmitCount(u)
  \/ SubmitRelease(u)
  \/ HarvestGetBuf(u) \/ HarvestCoalesce(u) \/ HarvestRoute(u)
  \/ HarvestSignal(u) \/ CompleteFree(u) \/ CompleteReply(u)
  \/ DoIOTry(u) \/ DoIOAddBuf(u) \/ DoIOKick(u) \/ DoIODrain(u)
  \/ DoIORoute(u) \/ DoIOStash(u) \/ DoIOWait(u) \/ DoIOClear(u)
  \/ DoIODone(u)

Next ==
  \/ \E r \in Requests : BeginIO(r) \/ AbortIO(r)
  \/ \E u \in Units : Task(u)
  \/ InterruptHandler
  \/ \E h \in Heads, o \in Outcomes : DeviceComplete(h, o)
  \/ Device

Spec == Init /\ [][Next]_vars

\* The scheduler runs every ready task, the device answers every request it
\* was notified of and decides on the interrupt, the interrupt is delivered.
\* Clients are not obliged to send anything.
Fairness ==
  /\ \A u \in Units : WF_vars(Task(u))
  /\ WF_vars(InterruptHandler)
  /\ \A h \in Heads : WF_vars(\E o \in Outcomes : DeviceComplete(h, o))
  /\ WF_vars(Device /\ DeviceNotify)

FairSpec == Spec /\ Fairness

-----------------------------------------------------------------------------
(* Properties *)

FreeSlots(u) == {free_list[u][i] : i \in DOMAIN free_list[u]}

\* The slot VirtIOSCSI_Submit holds between its pop and its bookkeeping.
Preparing(u) ==
  IF pc[u] \in {"s_prepare", "s_add", "s_count", "s_release"} THEN {slot[u]} ELSE {}

Occupied(u) == {s \in Slots : inflight[u][s] # NULL}

\* Slots whose request is counted as in flight.
Counted(u) == Occupied(u) \ Preparing(u)

\* Slots are neither lost nor handed out twice: a slot is on its unit's free
\* list, once, exactly when no request occupies it and Submit does not hold it
\* -- whichever tasks complete the unit's requests (virtio_scsi_io.c:183); and
\* no data mapping made by Submit outlives the request in its slot.
\* A DoIO that gave up voids this: the answer may then be taken for another's.
SlotPartition ==
  ~timed_out => \A u \in Units :
    /\ \A i, j \in DOMAIN free_list[u] : free_list[u][i] = free_list[u][j] => i = j
    /\ FreeSlots(u) = Slots \ (Occupied(u) \cup Preparing(u))
    /\ \A s \in Slots : dma[u][s] => s \in Occupied(u)

\* No lost update of the counters that steer interrupt coalescing and the
\* active mask: both equal the number of requests submitted and not yet freed
\* (virtio_scsi_io.c:183-191).
CountsExact ==
  ~timed_out =>
    /\ \A u \in Units : inflight_count[u] = Cardinality(Counted(u))
    /\ occupied_count =
         Cardinality({c \in Units \X Slots : c[2] \in Counted(c[1])})

\* Every request is answered at most once, whoever harvests, aborts or stashes
\* its completion.
RepliedOnce == ~timed_out => \A r \in Requests : replies[r] <= 1

\* The interrupt handler reads active_units_mask without the lock; a unit with
\* requests counted in flight is always in it, whichever task completes one of
\* them or ends a DoIO.  A request is counted with the mask, after AddBuf has
\* shown it to the device: the window between the two is out of its sight.
MaskCoversPipeline ==
  \A u \in Units : inflight_count[u] > 0 => u \in active_units_mask

\* A success or a SCSI status reported to a client is what the device answered
\* to that client's command.
TruthfulReplies ==
  \A r \in Block \cup Sync :
    replies[r] > 0 /\ result[r] \in {"none", "SENSE", "HFERR_BadStatus"}
      => answer[r] # NULL /\ result[r] = map_scsi_error(answer[r])

\* Everybody waits for a signal and the device has nothing left to say.
Quiescent ==
  /\ \A u \in Units : \/ pc[u] = "wait" /\ sigs[u] = {}
                      \/ pc[u] = "d_wait" /\ "irq" \notin sigs[u]
  /\ dev = {} /\ ~isr /\ signalled_used = used_idx

\* No lost wakeup: when everything has come to rest no request is pending.
NoLostWakeup == Quiescent => \A r \in sent : replies[r] > 0

\* Every queued request is eventually replied.
EveryRequestReplied == \A r \in Requests : r \in sent ~> replies[r] > 0
=============================================================================
