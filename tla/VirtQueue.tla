------------------------------ MODULE VirtQueue ------------------------------
(***************************************************************************)
(* src/src/virtio/virtqueue.c as a whole: the descriptor table (module     *)
(* DescTable) with the avail ring that carries heads to the device, the    *)
(* used ring that carries them back, free-running uint16 indices, the      *)
(* device's byte order in every ring field, and the EVENT_IDX word.        *)
(*                                                                         *)
(* It implements module RequestRing, on which the I/O engine is modelled.  *)
(* The device is external; it runs concurrently with the driver's calls.   *)
(***************************************************************************)
EXTENDS DescTable, Sequences

CONSTANTS
  UseEventIdx,   \* vq->use_event_idx
  DevicePolls,   \* the device may look at the avail ring without a notify
  BadIds         \* the device may return an out-of-range descriptor id

ASSUME VirtQueueAssumption ==
  /\ Word % Num = 0
  /\ UseEventIdx \in BOOLEAN /\ DevicePolls \in BOOLEAN /\ BadIds \in BOOLEAN

VARIABLES
  \* the shared rings, every field as stored
  avail_idx, avail_ring, used_event, used_idx, used_ring,
  last_used_idx,   \* vq->last_used_idx
  \* the device: next avail entry to read, how far it was notified, the heads
  \* it works on, the used->idx it last decided an interrupt for, ISR bit 0
  seen, notified, dev, signalled_used, isr,
  \* the callers of GetBuf: a task has been signalled, a task is in its loop
  wake, draining

callers == <<wake, draining>>
ringVars == <<avail_idx, avail_ring, used_event, used_idx, used_ring,
              last_used_idx, seen, notified, dev, signalled_used, isr, callers>>
vqVars == <<dtVars, ringVars>>

VQInit ==
  /\ Init
  /\ avail_idx = 0 /\ used_idx = 0 /\ used_event = 0
  /\ avail_ring = [i \in Descs |-> 0] /\ used_ring = [i \in Descs |-> 0]
  /\ last_used_idx = 0
  /\ seen = 0 /\ notified = 0 /\ dev = {} /\ signalled_used = 0 /\ isr = FALSE
  /\ wake = FALSE /\ draining = FALSE

-----------------------------------------------------------------------------
\* The increment of a uint16 index.
Inc(i) == (i + 1) % Word

\* The place of a free-running index in a ring.
RingPos(i) == i % Num

\* Where the next avail entry goes.
AvailPosRaw == RingPos(avail_idx)
AvailPos == RingPos(vr16(avail_idx))

\* used_event as stored.
UsedEventRaw(i) == i
UsedEvent(i) == vr16(i)

\* The id of the next used entry (a uint32 in the code; ids fit a Word here).
UsedId == vr16(used_ring[RingPos(last_used_idx)])
UsedPending == last_used_idx # vr16(used_idx)

(* Driver *)

\* The parts of VirtQueue_AddBuf and VirtQueue_GetBuf that stay within the
\* descriptor table.
TableStep ==
  /\ \/ \E c \in Cookies, s \in Shapes : AddBufEnter(c, s[1], s[2])
     \/ AddBufTable \/ AddBufNoTable \/ AddBufDirect \/ GetBufFree
  /\ UNCHANGED ringVars

PublishRing ==
  /\ AddBufRing
  /\ avail_ring' = [avail_ring EXCEPT ![AvailPos] = vr16(head)]
  /\ UNCHANGED <<avail_idx, used_event, used_idx, used_ring, last_used_idx,
                 seen, notified, dev, signalled_used, isr, callers>>

\* After the barrier.
PublishIdx ==
  /\ AddBufIdx
  /\ avail_idx' = vr16(Inc(vr16(avail_idx)))
  /\ UNCHANGED <<avail_ring, used_event, used_idx, used_ring, last_used_idx,
                 seen, notified, dev, signalled_used, isr, callers>>

\* VirtQueue_Kick: unconditional.
Kick ==
  /\ pc = "idle"
  /\ notified' = vr16(avail_idx)
  /\ UNCHANGED <<dtVars, avail_idx, avail_ring, used_event, used_idx,
                 used_ring, last_used_idx, seen, dev, signalled_used, isr, callers>>

\* VirtIOSCSI_Harvest enters its loop around GetBuf: its task was signalled by
\* the interrupt handler, or woke for another reason (a new request).  DoIO's
\* loop, which stops at its own cookie, makes the same calls of GetBuf; what it
\* leaves in the used ring, and who is told, is in module ScsiIO.
StartDrain ==
  /\ pc = "idle"
  /\ ~draining
  /\ draining' = TRUE
  /\ wake' = FALSE
  /\ UNCHANGED <<dtVars, avail_idx, avail_ring, used_event, used_idx, used_ring,
                 last_used_idx, seen, notified, dev, signalled_used, isr>>

\* NULL, the used ring has not advanced: the loop ends.
GetEmpty ==
  /\ pc = "idle"
  /\ draining
  /\ ~UsedPending
  /\ draining' = FALSE
  /\ UNCHANGED <<dtVars, avail_idx, avail_ring, used_event, used_idx, used_ring,
                 last_used_idx, seen, notified, dev, signalled_used, isr, wake>>

GetUsed ==
  /\ draining
  /\ UsedPending
  /\ UsedId < Num
  /\ GetBufTake(UsedId)
  /\ UNCHANGED ringVars

\* An id out of range: the entry is consumed, and NULL ends the caller's loop.
GetBadId ==
  /\ pc = "idle"
  /\ draining
  /\ UsedPending
  /\ UsedId >= Num
  /\ last_used_idx' = Inc(last_used_idx)
  /\ draining' = FALSE
  /\ UNCHANGED <<dtVars, avail_idx, avail_ring, used_event, used_idx, used_ring,
                 seen, notified, dev, signalled_used, isr, wake>>

\* The end of GetBuf: last_used_idx advances, and with EVENT_IDX used_event
\* asks for an interrupt on the very next completion.
GetEnd ==
  /\ GetBufDone
  /\ last_used_idx' = Inc(last_used_idx)
  /\ used_event' = IF UseEventIdx THEN UsedEvent(Inc(last_used_idx)) ELSE used_event
  /\ UNCHANGED <<avail_idx, avail_ring, used_idx, used_ring, seen, notified,
                 dev, signalled_used, isr, callers>>

-----------------------------------------------------------------------------
(* Device (external) *)

\* Take the next published head; one that polls may run ahead of the notify.
DeviceTake ==
  /\ \/ seen # notified
     \/ DevicePolls /\ seen # vr16(avail_idx)
  /\ dev' = dev \cup {vr16(avail_ring[RingPos(seen)])}
  /\ seen' = Inc(seen)
  /\ notified' = IF seen = notified THEN Inc(seen) ELSE notified
  /\ UNCHANGED <<dtVars, avail_idx, avail_ring, used_event, used_idx,
                 used_ring, last_used_idx, signalled_used, isr, callers>>

\* Finish the request under head h and report it as id.  No batch without an
\* interrupt decision is larger than the queue.
DeviceReport(h, id) ==
  /\ h \in dev
  /\ (vr16(used_idx) - signalled_used) % Word < Num
  /\ dev' = dev \ {h}
  /\ used_ring' = [used_ring EXCEPT ![RingPos(vr16(used_idx))] = vr16(id)]
  /\ used_idx' = vr16(Inc(vr16(used_idx)))
  /\ UNCHANGED <<dtVars, avail_idx, avail_ring, used_event, last_used_idx,
                 seen, notified, signalled_used, isr, callers>>

DeviceUse(h) == DeviceReport(h, h)

DeviceUseBad(h) == BadIds /\ DeviceReport(h, Num)

\* (new_used - used_event - 1) < (new_used - old_used), in uint16.
NeedEvent(event, new, old) == (new - event - 1) % Word < (new - old) % Word

DeviceNotify ==
  LET new == vr16(used_idx) IN
  /\ signalled_used # new
  /\ signalled_used' = new
  /\ isr' = (isr \/ ~UseEventIdx \/ NeedEvent(vr16(used_event), new, signalled_used))
  /\ UNCHANGED <<dtVars, avail_idx, avail_ring, used_event, used_idx,
                 used_ring, last_used_idx, seen, notified, dev, callers>>

\* The interrupt handler reads the ISR register, which clears it, and signals.
Acknowledge ==
  /\ isr
  /\ isr' = FALSE
  /\ wake' = TRUE
  /\ UNCHANGED <<dtVars, avail_idx, avail_ring, used_event, used_idx, used_ring,
                 last_used_idx, seen, notified, dev, signalled_used, draining>>

-----------------------------------------------------------------------------
Publish == PublishRing \/ PublishIdx
Consume == GetUsed \/ GetBadId \/ GetEmpty \/ GetEnd

VQNext ==
  \/ TableStep
  \/ Publish
  \/ Kick
  \/ StartDrain
  \/ Consume
  \/ DeviceTake
  \/ \E h \in Descs : DeviceUse(h) \/ DeviceUseBad(h)
  \/ DeviceNotify
  \/ Acknowledge

VQSpec == VQInit /\ [][VQNext]_vqVars

\* A call once entered runs to its end; a signalled task runs; the tasks in the
\* loop share io_lock first come first served with the callers of AddBuf; the
\* device decides about every used entry, and a raised interrupt is handled.
VQFairness ==
  /\ WF_vqVars(TableStep /\ pc # "idle")
  /\ WF_vqVars(Publish)
  /\ SF_vqVars(StartDrain /\ wake)
  /\ SF_vqVars(Consume)
  /\ WF_vqVars(DeviceNotify)
  /\ WF_vqVars(Acknowledge)

VQFairSpec == VQSpec /\ VQFairness

-----------------------------------------------------------------------------
(* Properties *)

\* The values in ring between two free-running indices.
Between(ring, from, to) ==
  [i \in 1 .. (to - from) % Word |-> vr16(ring[RingPos((from + i - 1) % Word)])]

Entries(s) == {s[i] : i \in DOMAIN s}

Used == Between(used_ring, last_used_idx, vr16(used_idx))

\* A cookie counts from the store to avail->idx up to the end of GetBuf.
RingCookies ==
  [h \in Descs |-> IF h = head /\ pc \in {"ring", "idx"} THEN NULL
                   ELSE IF h = head /\ pc \in {"free", "done"} THEN cookie
                   ELSE cookies[h]]

Ring == INSTANCE RequestRing WITH
  Heads <- Descs, IdxMod <- Word,
  cookies <- RingCookies,
  posted <- Entries(Between(avail_ring, notified, vr16(avail_idx))),
  dev <- dev \cup Entries(Between(avail_ring, seen, notified)),
  used <- [i \in DOMAIN Used |-> IF Used[i] < Num THEN Used[i] ELSE NULL],
  used_event <- vr16(used_event)

\* With descriptors, byte order and wrapping indices, the queue still behaves
\* as the request ring the I/O engine is modelled on: what was published under
\* a head comes back once, with its cookie, in the order of completion.
ImplementsRequestRing == Ring!RingSpec

\* The rings hand GetBuf only heads that are published, each of them once: the
\* descriptor table is used as module DescTable assumes.
ImplementsDescTable == Spec

\* The last entry taken had an id out of range: GetBuf returned before it set
\* used_event, and until another entry is taken no completion need raise an
\* interrupt.
BehindBadId == vr16(used_ring[RingPos((last_used_idx - 1) % Word)]) >= Num

\* "Returns the cookie for a completed buffer, or NULL if the used ring hasn't
\* advanced" (virtqueue.c:348): the loop of Harvest, which ends at NULL, leaves
\* nothing behind that no interrupt will announce, so every completion is
\* returned in the end -- but for those behind a bad id, as long as no task
\* harvests for another reason.
CompletionsReturned ==
  \A h \in Descs : h \in Entries(Used) ~> h \notin Entries(Used) \/ BehindBadId
=============================================================================
