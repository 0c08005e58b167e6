----------------------------- MODULE RequestRing -----------------------------
(***************************************************************************)
(* What the I/O engine relies on of VirtIO request queue VQ2               *)
(* (src/src/virtio/virtqueue.c): a request is published under a head, the  *)
(* device completes published requests in any order, the driver takes the  *)
(* completions in the order of the used ring, and the interrupt decision   *)
(* follows VIRTIO_F_EVENT_IDX.  Descriptors, the avail ring's layout and   *)
(* endianness are below this level (module VirtQueue).                     *)
(*                                                                         *)
(* The device is external: it is modelled from what virtqueue.c and        *)
(* virtio_irq.c expect of it.                                              *)
(***************************************************************************)
EXTENDS Integers, Sequences, FiniteSets

CONSTANTS
  Heads,        \* descriptor heads: the number of requests the ring can hold
  Cookies,      \* what a caller gets back: the address of its request buffer
  NULL,
  IdxMod,       \* ring indices are uint16: 65536 in the code
  UseEventIdx,  \* vq->use_event_idx: VIRTIO_F_EVENT_IDX was negotiated
  DevicePolls   \* the device may look at the avail ring without a notify

ASSUME RingAssumption ==
  /\ IsFiniteSet(Heads) /\ Heads # {}
  /\ NULL \notin Heads \cup Cookies
  /\ IdxMod \in Nat /\ IdxMod > Cardinality(Heads)
  /\ UseEventIdx \in BOOLEAN /\ DevicePolls \in BOOLEAN

VARIABLES
  cookies,        \* vq->cookies: NULL for a head that is not in use
  posted,         \* heads in the avail ring the device was not notified of
  dev,            \* heads the device is working on
  used,           \* used-ring entries between last_used_idx and used->idx; NULL
                  \* is an entry with an out-of-range id
  last_used_idx,
  used_event,     \* avail->ring[num]: interrupt threshold, written by driver
  signalled_used, \* the used->idx the device last decided an interrupt for
  isr             \* bit 0 of the ISR register: the interrupt line is raised

ringVars == <<cookies, posted, dev, used, last_used_idx, used_event,
              signalled_used, isr>>

Idx == 0 .. IdxMod - 1

RingTypeOK ==
  /\ cookies \in [Heads -> Cookies \cup {NULL}]
  /\ posted \in SUBSET Heads
  /\ dev \in SUBSET Heads
  /\ used \in Seq(Heads \cup {NULL})
  /\ last_used_idx \in Idx
  /\ used_event \in Idx
  /\ signalled_used \in Idx
  /\ isr \in BOOLEAN

\* VirtQueue_Allocate: every descriptor free, all indices zero.
RingInit ==
  /\ cookies = [h \in Heads |-> NULL]
  /\ posted = {}
  /\ dev = {}
  /\ used = <<>>
  /\ last_used_idx = 0
  /\ used_event = 0
  /\ signalled_used = 0
  /\ isr = FALSE

used_idx == (last_used_idx + Len(used)) % IdxMod

-----------------------------------------------------------------------------
(* Driver side: every caller holds io_lock. *)

RingFull == \A h \in Heads : cookies[h] # NULL

\* VirtQueue_AddBuf returns -1 for want of free descriptors.  How many it needs
\* depends on the request, and it takes from one to all of them: this can happen
\* whenever some request is outstanding, and must when there is no head left.
MayReject == \E h \in Heads : cookies[h] # NULL

\* VirtQueue_AddBuf, success: the cookie is stored under the head and the
\* head is published in the avail ring.
AddBuf(h, c) ==
  /\ cookies[h] = NULL
  /\ cookies' = [cookies EXCEPT ![h] = c]
  /\ posted' = posted \cup {h}
  /\ UNCHANGED <<dev, used, last_used_idx, used_event, signalled_used, isr>>

\* VirtQueue_Kick: the notify is unconditional and covers the whole avail ring.
Kick ==
  /\ dev' = dev \cup posted
  /\ posted' = {}
  /\ UNCHANGED <<cookies, used, last_used_idx, used_event, signalled_used, isr>>

\* The cookie VirtQueue_GetBuf is about to return.
Returned == cookies[Head(used)]

\* The increment of a uint16 index.
IncNoWrap(i) == i + 1
Inc(i) == (i + 1) % IdxMod

\* The used_event GetBuf leaves behind: interrupt on the very next completion.
BaselineEvent == Inc(last_used_idx)

\* VirtQueue_GetBuf, non-empty ring: consume one used entry, free its head.
GetBuf ==
  /\ used # <<>> /\ Head(used) # NULL
  /\ cookies' = [cookies EXCEPT ![Head(used)] = NULL]
  /\ used' = Tail(used)
  /\ last_used_idx' = Inc(last_used_idx)
  /\ used_event' = IF UseEventIdx THEN BaselineEvent ELSE used_event
  /\ UNCHANGED <<posted, dev, signalled_used, isr>>

\* VirtQueue_GetBuf, out-of-range id: the entry is consumed and NULL returned;
\* nothing is freed and used_event stays.
GetBadId ==
  /\ used # <<>> /\ Head(used) = NULL
  /\ used' = Tail(used)
  /\ last_used_idx' = Inc(last_used_idx)
  /\ UNCHANGED <<cookies, posted, dev, used_event, signalled_used, isr>>

\* A store to avail->ring[num].
SetUsedEvent(e) ==
  /\ used_event' = e
  /\ UNCHANGED <<cookies, posted, dev, used, last_used_idx, signalled_used, isr>>

-----------------------------------------------------------------------------
(* Device side (external). *)

\* A device that polls the avail ring picks a request up before the notify.
DevicePoll(h) ==
  /\ DevicePolls
  /\ h \in posted
  /\ posted' = posted \ {h}
  /\ dev' = dev \cup {h}
  /\ UNCHANGED <<cookies, used, last_used_idx, used_event, signalled_used, isr>>

\* The batch of completions the device has not decided an interrupt for: at
\* most as many as the ring holds requests.
Undecided == (used_idx - signalled_used) % IdxMod

\* A request finishes: its head, or an id out of range, enters the used ring.
DeviceReport(h, id) ==
  /\ h \in dev
  /\ Undecided < Cardinality(Heads)
  /\ dev' = dev \ {h}
  /\ used' = Append(used, id)
  /\ UNCHANGED <<cookies, posted, last_used_idx, used_event, signalled_used, isr>>

DeviceUse(h) == DeviceReport(h, h)
DeviceUseBad(h) == DeviceReport(h, NULL)

\* (new_used - used_event - 1) < (new_used - old_used), in uint16.
NeedEvent(event, new, old) ==
  (new - event - 1) % IdxMod < (new - old) % IdxMod

\* After one or more completions the device decides whether to interrupt.
DeviceNotify ==
  /\ signalled_used # used_idx
  /\ signalled_used' = used_idx
  /\ isr' = (isr \/ ~UseEventIdx \/ NeedEvent(used_event, used_idx, signalled_used))
  /\ UNCHANGED <<cookies, posted, dev, used, last_used_idx, used_event>>

\* The driver's read of the ISR register acknowledges the interrupt.
Acknowledge ==
  /\ isr
  /\ isr' = FALSE
  /\ UNCHANGED <<cookies, posted, dev, used, last_used_idx, used_event,
                 signalled_used>>

-----------------------------------------------------------------------------
(* The ring on its own, under any use the callers make of it. *)
RingNext ==
  \/ \E h \in Heads, c \in Cookies : AddBuf(h, c)
  \/ Kick
  \/ GetBuf \/ GetBadId
  \/ \E e \in Idx : SetUsedEvent(e)
  \/ \E h \in Heads : DevicePoll(h) \/ DeviceUse(h) \/ DeviceUseBad(h)
  \/ DeviceNotify
  \/ Acknowledge

RingSpec == RingInit /\ [][RingNext]_ringVars
=============================================================================
