------------------------------ MODULE DescTable ------------------------------
(***************************************************************************)
(* The descriptor management of src/src/virtio/virtqueue.c: the free list  *)
(* threaded through desc[].next, the chains VirtQueue_AddBuf cuts off it   *)
(* one descriptor at a time, the one-descriptor form of                    *)
(* VIRTIO_F_INDIRECT_DESC with its fallback, and the walk that gives a     *)
(* chain back in VirtQueue_GetBuf.                                         *)
(*                                                                         *)
(* Every caller holds io_lock, so one driver task at a time is in here; pc *)
(* says where.  Links of the free list are native, links of a chain are in *)
(* the device's byte order: vr16 is kept.  The rings that carry the heads  *)
(* to the device and back are in module VirtQueue; here the device hands   *)
(* back each published head once.                                          *)
(***************************************************************************)
EXTENDS Integers, FiniteSets

CONSTANTS
  Num,          \* vq->num, the queue size
  MaxSeg,       \* longest scatter-gather list a caller passes
  Shapes,       \* the <<out_num, out_num + in_num>> callers pass
  Cookies,
  NULL,
  UseIndirect,  \* vq->use_indirect: VIRTIO_F_INDIRECT_DESC was negotiated
  Modern,       \* vq->modern: ring fields are little-endian
  Word,         \* a ring field is a uint16: 65536
  bswap16(_)    \* __builtin_bswap16

Descs == 0 .. Num - 1
Words == 0 .. Word - 1
TableAddr == MaxSeg   \* an indirect table, unlike any segment 0 .. MaxSeg-1

ASSUME DescAssumption ==
  /\ Num \in Nat /\ Word \in Nat /\ MaxSeg \in Nat
  /\ 0 < MaxSeg /\ MaxSeg <= Num /\ Num < Word /\ 8 <= Word
  /\ Shapes \subseteq (0 .. MaxSeg) \X (1 .. MaxSeg)
  /\ \A s \in Shapes : s[1] <= s[2]
  /\ UseIndirect \in BOOLEAN /\ Modern \in BOOLEAN
  /\ NULL \notin Cookies /\ NULL \notin Int

ASSUME SwapAssumption ==
  /\ bswap16(0) = 0
  /\ \A v \in Words : bswap16(v) \in Words /\ bswap16(bswap16(v)) = v

VARIABLES
  desc_addr,        \* desc[i].addr/len: the segment it points at, TableAddr, NULL
  desc_flags, desc_next,
  free_head, num_free,
  cookies,
  indirect_tables,  \* indirect_tables[i] # NULL
  \* the call in progress and its local variables
  pc, head, idx, n, out_num, total, cookie, freed,
  \* history: the heads the device holds; the head of the chain a descriptor
  \* belongs to (NULL: the free list); how many descriptors follow it there;
  \* and the out_num a chain was built with
  published, where, rank, outs

descVars == <<desc_addr, desc_flags, desc_next>>
locals   == <<head, idx, n, out_num, total, cookie, freed>>
dtVars   == <<descVars, free_head, num_free, cookies, indirect_tables, pc,
              locals, published, where, rank, outs>>

TypeOK ==
  /\ desc_addr \in [Descs -> 0 .. MaxSeg \cup {NULL}]
  /\ desc_flags \in [Descs -> Words]
  /\ desc_next \in [Descs -> Words]
  /\ free_head \in Words
  /\ num_free \in 0 .. Num
  /\ cookies \in [Descs -> Cookies \cup {NULL}]
  /\ indirect_tables \in [Descs -> BOOLEAN]
  /\ pc \in {"idle", "table", "direct", "ring", "idx", "free", "done"}
  /\ head \in Words
  /\ idx \in Words
  /\ n \in 0 .. MaxSeg
  /\ out_num \in 0 .. MaxSeg
  /\ total \in 0 .. MaxSeg
  /\ cookie \in Cookies \cup {NULL}
  /\ freed \in 0 .. Num
  /\ published \in SUBSET Descs
  /\ where \in [Descs -> Descs \cup {NULL}]
  /\ rank \in [Descs -> 0 .. Num - 1]
  /\ outs \in [Descs -> 0 .. MaxSeg]

\* VirtQueue_Allocate: each descriptor points to the next, the last to 0.
Init ==
  /\ desc_addr = [d \in Descs |-> NULL]
  /\ desc_flags = [d \in Descs |-> 0]
  /\ desc_next = [d \in Descs |-> IF d = Num - 1 THEN 0 ELSE d + 1]
  /\ free_head = 0
  /\ num_free = Num
  /\ cookies = [d \in Descs |-> NULL]
  /\ indirect_tables = [d \in Descs |-> FALSE]
  /\ pc = "idle"
  /\ head = 0 /\ idx = 0 /\ n = 0 /\ out_num = 0 /\ total = 0
  /\ cookie = NULL /\ freed = 0
  /\ published = {}
  /\ where = [d \in Descs |-> NULL]
  /\ rank = [d \in Descs |-> Num - 1 - d]
  /\ outs = [d \in Descs |-> 0]

-----------------------------------------------------------------------------
vr16(v) == IF Modern THEN bswap16(v) ELSE v

\* VRING_DESC_F_NEXT = 1, VRING_DESC_F_WRITE = 2, VRING_DESC_F_INDIRECT = 4
HasNext(f) == f % 2 = 1
ChainFlags(k) == (IF k >= out_num THEN 2 ELSE 0) + (IF k < total - 1 THEN 1 ELSE 0)

Return ==
  /\ pc' = "idle"
  /\ head' = 0 /\ idx' = 0 /\ n' = 0 /\ out_num' = 0 /\ total' = 0
  /\ cookie' = NULL /\ freed' = 0

-----------------------------------------------------------------------------
(* VirtQueue_AddBuf *)

Indirect(k) == UseIndirect /\ k > 1

\* Enough free descriptors for this form of the request.
Room(k) == IF Indirect(k) THEN num_free >= 1 ELSE num_free >= k

\* The call, with room: remember the head of the chain to be.
AddBufEnter(c, o, k) ==
  /\ pc = "idle"
  /\ Room(k)
  /\ cookie' = c /\ out_num' = o /\ total' = k
  /\ head' = free_head /\ idx' = free_head
  /\ pc' = IF Indirect(k) THEN "table" ELSE "direct"
  /\ UNCHANGED <<descVars, free_head, num_free, cookies, indirect_tables, n,
                 freed, published, where, rank, outs>>

\* An indirect table was allocated, filled and mapped: one descriptor points
\* at it.
AddBufTable ==
  /\ pc = "table"
  /\ desc_addr' = [desc_addr EXCEPT ![head] = TableAddr]
  /\ desc_flags' = [desc_flags EXCEPT ![head] = vr16(4)]
  /\ desc_next' = [desc_next EXCEPT ![head] = 0]
  /\ free_head' = desc_next[head]
  /\ num_free' = num_free - 1
  /\ cookies' = [cookies EXCEPT ![head] = cookie]
  /\ indirect_tables' = [indirect_tables EXCEPT ![head] = TRUE]
  /\ pc' = "ring"
  /\ where' = [where EXCEPT ![head] = head]
  /\ rank' = [rank EXCEPT ![head] = 0]
  /\ outs' = [outs EXCEPT ![head] = out_num]
  /\ UNCHANGED <<locals, published>>

\* The direct form of the request needs a descriptor per segment.
FallbackUnchecked == TRUE
FallbackRoom == num_free >= total

\* No memory or no mapping for the table: the direct path if there is room,
\* else -1.
AddBufNoTable ==
  /\ pc = "table"
  /\ IF FallbackRoom
     THEN pc' = "direct" /\ UNCHANGED locals
     ELSE Return
  /\ UNCHANGED <<descVars, free_head, num_free, cookies, indirect_tables,
                 published, where, rank, outs>>

\* The link to the next descriptor of a chain, as the device reads it.
ChainLinkNative(next) == next
ChainLink(next) == vr16(next)

\* One iteration of the direct loop: descriptor idx takes segment n.  All but
\* the last keep their link, in the device's byte order; the last one's link is
\* the new head of the free list.
AddBufDirect ==
  LET next == desc_next[idx] IN
  /\ pc = "direct"
  /\ desc_addr' = [desc_addr EXCEPT ![idx] = n]
  /\ desc_flags' = [desc_flags EXCEPT ![idx] = vr16(ChainFlags(n))]
  /\ where' = [where EXCEPT ![idx] = head]
  /\ rank' = [rank EXCEPT ![idx] = total - 1 - n]
  /\ outs' = [outs EXCEPT ![head] = out_num]
  /\ n' = n + 1
  /\ \/ /\ n < total - 1
        /\ desc_next' = [desc_next EXCEPT ![idx] = ChainLink(next)]
        /\ idx' = next
        /\ UNCHANGED <<free_head, num_free, cookies, indirect_tables, pc>>
     \/ /\ n = total - 1
        /\ free_head' = next
        /\ num_free' = num_free - total
        /\ cookies' = [cookies EXCEPT ![head] = cookie]
        /\ indirect_tables' = [indirect_tables EXCEPT ![head] = FALSE]
        /\ pc' = "ring"
        /\ UNCHANGED <<desc_next, idx>>
  /\ UNCHANGED <<head, out_num, total, cookie, freed, published>>

\* avail->ring[avail_idx % num] = head
AddBufRing ==
  /\ pc = "ring"
  /\ pc' = "idx"
  /\ UNCHANGED <<descVars, free_head, num_free, cookies, indirect_tables,
                 locals, published, where, rank, outs>>

\* avail->idx advances: the device may see the chain from here on.
AddBufIdx ==
  /\ pc = "idx"
  /\ Return
  /\ published' = published \cup {head}
  /\ UNCHANGED <<descVars, free_head, num_free, cookies, indirect_tables,
                 where, rank, outs>>

-----------------------------------------------------------------------------
(* VirtQueue_GetBuf *)

\* The link to the next descriptor of the free list: native.
FreeLinkSwapped(next) == vr16(next)
FreeLink(next) == next

\* Descriptor d goes to the head of the free list.
FreeDesc(d) ==
  /\ desc_addr' = [desc_addr EXCEPT ![d] = NULL]
  /\ desc_flags' = [desc_flags EXCEPT ![d] = 0]
  /\ desc_next' = [desc_next EXCEPT ![d] = FreeLink(free_head)]
  /\ free_head' = d
  /\ freed' = freed + 1
  /\ where' = [where EXCEPT ![d] = NULL]
  /\ rank' = [rank EXCEPT ![d] = num_free + freed]

\* A used entry for head id: take the cookie; an indirect request gives its
\* table and its one descriptor back at once.
GetBufTake(id) ==
  /\ pc = "idle"
  /\ published' = published \ {id}
  /\ cookie' = cookies[id]
  /\ cookies' = [cookies EXCEPT ![id] = NULL]
  /\ indirect_tables' = [indirect_tables EXCEPT ![id] = FALSE]
  /\ head' = id
  /\ idx' = id
  /\ \/ /\ indirect_tables[id]
        /\ FreeDesc(id)
        /\ pc' = "done"
     \/ /\ ~indirect_tables[id]
        /\ pc' = "free"
        /\ UNCHANGED <<descVars, free_head, freed, where, rank>>
  /\ outs' = [outs EXCEPT ![id] = 0]
  /\ UNCHANGED <<num_free, n, out_num, total>>

\* One iteration of the walk: both fields are read before they are cleared.
GetBufFree ==
  LET next == vr16(desc_next[idx]) IN
  /\ pc = "free"
  /\ FreeDesc(idx)
  /\ IF HasNext(vr16(desc_flags[idx]))
     THEN idx' = next /\ UNCHANGED pc
     ELSE pc' = "done" /\ UNCHANGED idx
  /\ UNCHANGED <<num_free, cookies, indirect_tables, head, n, out_num, total,
                 cookie, published, outs>>

\* num_free once freed descriptors are back.
CountHeadOnly == num_free + 1
CountFreed == num_free + freed

GetBufDone ==
  /\ pc = "done"
  /\ num_free' = CountFreed
  /\ Return
  /\ UNCHANGED <<descVars, free_head, cookies, indirect_tables, published,
                 where, rank, outs>>

-----------------------------------------------------------------------------
AddBuf ==
  \/ \E c \in Cookies, s \in Shapes : AddBufEnter(c, s[1], s[2])
  \/ AddBufTable \/ AddBufNoTable \/ AddBufDirect \/ AddBufRing \/ AddBufIdx

\* The device hands back heads it was given, each once.
GetBuf == (\E id \in published : GetBufTake(id)) \/ GetBufFree \/ GetBufDone

Next == AddBuf \/ GetBuf

Spec == Init /\ [][Next]_dtVars
-----------------------------------------------------------------------------
(* Properties *)

\* Descriptors on the free list, counting those the call in progress has taken
\* or given back but not yet accounted for in num_free.
FreeCount == num_free - (IF pc = "direct" THEN n ELSE 0) + freed

\* The first of them.
Top == IF pc = "direct" THEN idx ELSE free_head

IsFree(d) == where[d] = NULL

\* The m descriptors that w leaves free form one list: it starts at top, each
\* link of nx leads to the one whose rank is next lower, down to rank 0.
ThreadsFree(w, r, nx, m, top) ==
  /\ m > 0 => top \in Descs /\ w[top] = NULL /\ r[top] = m - 1
  /\ \A d \in Descs : w[d] = NULL => r[d] < m
  /\ \A d, e \in Descs : w[d] = NULL /\ w[e] = NULL /\ r[d] = r[e] => d = e
  /\ \A d \in Descs : w[d] = NULL /\ r[d] > 0 =>
       nx[d] \in Descs /\ w[nx[d]] = NULL /\ r[nx[d]] = r[d] - 1

\* Following desc[].next from the head passes every free descriptor exactly
\* once, and num_free says how many there are: no descriptor is listed twice
\* or lost, whatever was added and freed in whatever order, and no link of a
\* device chain in the device's byte order leaks into the list.
FreeListIntact ==
  /\ FreeCount = Cardinality({d \in Descs : IsFree(d)})
  /\ ThreadsFree(where, rank, desc_next, FreeCount, Top)

\* What the device reads from a published head on is the request as it was
\* submitted: the descriptors are chained by NEXT and next, in the device's
\* byte order, up to the last one, each with its own segment, WRITE exactly
\* for the IN segments -- until GetBuf takes the head back.
ChainsIntact ==
  \A h \in published :
    /\ where[h] = h
    /\ cookies[h] # NULL
    /\ IF indirect_tables[h]
       THEN desc_addr[h] = TableAddr /\ vr16(desc_flags[h]) = 4 /\ rank[h] = 0
       ELSE \A d \in Descs : where[d] = h =>
              /\ rank[d] <= rank[h]
              /\ rank[d] = rank[h] => d = h
              /\ desc_addr[d] = rank[h] - rank[d]
              /\ vr16(desc_flags[d]) = (IF desc_addr[d] >= outs[h] THEN 2 ELSE 0)
                                     + (IF rank[d] > 0 THEN 1 ELSE 0)
              /\ rank[d] > 0 =>
                   LET e == vr16(desc_next[d]) IN
                   e \in Descs /\ where[e] = h /\ rank[e] = rank[d] - 1

\* However many requests came and went: once the device has handed everything
\* back, all descriptors are free again, so an idle queue takes any request.
NothingLeaks == pc = "idle" /\ published = {} => num_free = Num

-----------------------------------------------------------------------------
(* The inductive invariant behind them *)

\* Heads with a complete chain, and heads that own descriptors at all.
Held == published \cup (IF pc \in {"ring", "idx"} THEN {head} ELSE {})
Owners == published \cup (IF pc \in {"direct", "ring", "idx", "free"} THEN {head} ELSE {})

\* A descriptor not on the free list belongs to a request somebody still holds.
Owned == \A d \in Descs : ~IsFree(d) => where[d] \in Owners

\* No two descriptors of one list have the same place.
Places == \A d, e \in Descs : where[d] = where[e] /\ rank[d] = rank[e] => d = e

\* The descriptor written last while a chain is being built: its link goes to
\* the descriptor that will be next, still on the free list.
Growing(d) == pc = "direct" /\ where[d] = head /\ rank[d] = total - n

Links ==
  \A d \in Descs : ~IsFree(d) /\ rank[d] > 0 =>
    LET e == vr16(desc_next[d]) IN
    IF Growing(d) THEN e = idx
                  ELSE e \in Descs /\ where[e] = where[d] /\ rank[e] = rank[d] - 1

EndMarks ==
  \A d \in Descs : ~IsFree(d) => (HasNext(vr16(desc_flags[d])) <=> rank[d] > 0)

\* Segment and flags of descriptor d in a chain of k + 1 with o OUT segments.
Segment(d, k, o) ==
  /\ rank[d] <= k
  /\ desc_addr[d] = k - rank[d]
  /\ vr16(desc_flags[d]) = (IF desc_addr[d] >= o THEN 2 ELSE 0)
                         + (IF rank[d] > 0 THEN 1 ELSE 0)

HeldChains ==
  \A h \in Held :
    /\ where[h] = h
    /\ cookies[h] # NULL
    /\ IF indirect_tables[h]
       THEN /\ desc_addr[h] = TableAddr /\ vr16(desc_flags[h]) = 4 /\ rank[h] = 0
            /\ \A d \in Descs : where[d] = h => d = h
       ELSE \A d \in Descs : where[d] = h => Segment(d, rank[h], outs[h])

\* Where the call in progress stands.
CallState ==
  /\ pc \in {"idle", "table"} => n = 0
  /\ pc \notin {"free", "done"} => freed = 0
  /\ pc \in {"table", "direct", "ring", "idx"} => cookie # NULL
  /\ pc \in {"direct", "ring", "idx", "free"} => head \in Descs /\ head \notin published
  /\ pc = "table" => num_free >= 1 /\ head = free_head /\ idx = free_head /\ total >= 1
  /\ pc = "direct" =>
       /\ n < total /\ total <= num_free
       /\ IF n = 0 THEN idx = head
                   ELSE where[head] = head /\ rank[head] = total - 1 /\ outs[head] = out_num
       /\ \A d \in Descs : where[d] = head =>
            rank[d] >= total - n /\ Segment(d, total - 1, out_num)
  /\ pc = "free" =>
       /\ idx \in Descs /\ where[idx] = head
       /\ \A d \in Descs : where[d] = head => rank[d] <= rank[idx]

DescInv ==
  /\ TypeOK /\ FreeListIntact /\ Owned /\ Places /\ Links /\ EndMarks
  /\ HeldChains /\ CallState
=============================================================================
