--------------------------- MODULE VirtQueueProofs ---------------------------
(***************************************************************************)
(* Proofs about VirtQueue, for every queue size, index width, byte order   *)
(* and set of request shapes: the avail and used rings hand GetBuf only    *)
(* heads that are published, each once, so the descriptor table is used as *)
(* DescTable assumes and its theorems hold of the whole queue.             *)
(*                                                                         *)
(* The argument counts.  Entries of the two rings and the heads in the     *)
(* device's hands are never more than the published heads, so no entry is  *)
(* overwritten before it is read and no index laps another, though all of  *)
(* them wrap; and each head is in one of the three places.                 *)
(*                                                                         *)
(* So VirtQueue implements RequestRing, what the I/O engine assumes of     *)
(* VQ2.  Between two indices the avail ring is the set of its entries and  *)
(* the used ring the sequence of them; each step of the queue is one step  *)
(* of the abstract ring on those, or none.                                 *)
(***************************************************************************)
EXTENDS VirtQueue, DescTableProofs, SequenceTheorems

-----------------------------------------------------------------------------
(* The inductive invariant *)

\* How far index b is ahead of index a.
Dist(a, b) == (b - a) % Word

\* avail->idx and used->idx as the driver and the device read them, and the
\* entries under a free-running index.
Avail == vr16(avail_idx)
UsedIdx == vr16(used_idx)
AvailHead(k) == vr16(avail_ring[RingPos(k)])
UsedHead(k) == vr16(used_ring[RingPos(k)])

\* Index k is one of a ring's entries from index a up to b.
Within(a, k, b) == Dist(a, k) < Dist(a, b)
OnAvail(k) == Within(seen, k, Avail)

\* GetBuf has taken the head of the used entry and not yet stepped over it.
InGet == pc \in {"free", "done"}
OnUsed(k) == Within(last_used_idx, k, UsedIdx) /\ ~(InGet /\ k = last_used_idx)

RingsTypeOK ==
  /\ avail_idx \in Words /\ used_idx \in Words /\ used_event \in Words
  /\ last_used_idx \in Words /\ seen \in Words /\ notified \in Words
  /\ signalled_used \in Words
  /\ avail_ring \in [Descs -> Words] /\ used_ring \in [Descs -> Words]
  /\ dev \subseteq published
  /\ isr \in BOOLEAN /\ wake \in BOOLEAN /\ draining \in BOOLEAN

\* An entry of the avail ring is a published head the device has not taken.
AvailOK ==
  /\ \A k \in Words : OnAvail(k) => AvailHead(k) \in published \ dev
  /\ \A j, k \in Words : OnAvail(j) /\ OnAvail(k) /\ AvailHead(j) = AvailHead(k) => j = k
  /\ Dist(seen, notified) <= Dist(seen, Avail)
  /\ pc = "idx" => AvailHead(Avail) = head

\* An entry of the used ring is a published head the device has finished with,
\* or an id that GetBuf refuses.
UsedOK ==
  /\ \A k \in Words : OnUsed(k) /\ UsedHead(k) < Num =>
       /\ UsedHead(k) \in published \ dev
       /\ \A j \in Words : OnAvail(j) => AvailHead(j) # UsedHead(k)
  /\ \A j, k \in Words :
       OnUsed(j) /\ OnUsed(k) /\ UsedHead(j) < Num /\ UsedHead(j) = UsedHead(k) => j = k
  /\ InGet => /\ Dist(last_used_idx, UsedIdx) > 0
              /\ head \in Descs /\ head \notin published

\* Nothing is carried that was not published.
Counted ==
  Dist(last_used_idx, UsedIdx) + Cardinality(dev) + Dist(seen, Avail)
    <= Cardinality(published) + (IF InGet THEN 1 ELSE 0)

RingsInv == RingsTypeOK /\ AvailOK /\ UsedOK /\ Counted

-----------------------------------------------------------------------------
(* Indices that wrap *)

\* A distance is the difference of the indices, or that plus a full turn.
LEMMA DistIs ==
  ASSUME NEW a \in Words, NEW b \in Words
  PROVE  /\ Dist(a, b) = IF b >= a THEN b - a ELSE (b - a) + Word
         /\ Dist(a, b) \in 0 .. Word - 1
<1>1. Word \in Nat /\ Word > 0
  BY DescAssumption
<1>2. CASE b >= a
  <2>1. b - a \in 0 .. Word - 1
    BY <1>1, <1>2 DEF Words
  <2>2. (b - a) % Word = b - a
    BY <1>1, <2>1
  <2> QED
    BY <1>2, <2>1, <2>2 DEF Dist
<1>3. CASE ~(b >= a)
  <2>1. (b - a) + Word \in 0 .. Word - 1
    BY <1>1, <1>3 DEF Words
  <2>2. b - a = (0 - 1) * Word + ((b - a) + Word) /\ b - a \in Int
    BY <1>1 DEF Words
  <2>3. (b - a) % Word = (b - a) + Word
    BY <1>1, <2>1, <2>2
  <2> QED
    BY <1>3, <2>1, <2>3 DEF Dist
<1> QED
  BY <1>2, <1>3

\* The increment of a uint16 index.
LEMMA IncIs ==
  ASSUME NEW a \in Words
  PROVE  Inc(a) \in Words /\ Inc(a) = IF a = Word - 1 THEN 0 ELSE a + 1
<1>1. Word \in Nat /\ Word > 0
  BY DescAssumption
<1>2. CASE a = Word - 1
  BY <1>1, <1>2 DEF Inc, Words
<1>3. CASE a # Word - 1
  <2>1. a + 1 \in 0 .. Word - 1
    BY <1>1, <1>3 DEF Words
  <2>2. (a + 1) % Word = a + 1
    BY <1>1, <2>1
  <2> QED
    BY <1>3, <2>1, <2>2 DEF Inc, Words
<1> QED
  BY <1>2, <1>3

\* A ring position belongs to the ring.
LEMMA RingPosIs == \A a \in Words : RingPos(a) \in Descs
<1>1. Num \in Nat /\ Num > 0
  BY DescAssumption
<1> SUFFICES ASSUME NEW a \in Words PROVE a % Num \in 0 .. Num - 1
  BY DEF RingPos, Descs
<1>2. a \in Int
  BY DEF Words
<1> QED
  BY <1>1, <1>2

\* Indices less than a queue size apart, the wrap included, have different
\* places in the ring: the index range is a multiple of the queue size.
LEMMA PosDiffer ==
  ASSUME NEW i \in Words, NEW j \in Words, Dist(i, j) < Num, RingPos(i) = RingPos(j)
  PROVE  i = j
<1>1. Word \in Nat /\ Num \in Nat /\ Num > 0 /\ Word % Num = 0 /\ i \in Nat /\ j \in Nat
      /\ i < Word /\ j < Word
  BY DescAssumption, VirtQueueAssumption DEF Words
<1>2. \A x \in Nat : \E q \in Int : x = q * Num + (x % Num)
  <2> SUFFICES ASSUME NEW x \in Nat PROVE \E q \in Int : x = q * Num + (x % Num)
    OBVIOUS
  <2>1. x \div Num \in Int /\ x = (x \div Num) * Num + (x % Num)
    BY <1>1
  <2> QED
    BY <2>1
<1>3. PICK K \in Int : Word = K * Num
  BY <1>1, <1>2
<1>4. PICK p \in Int : i = p * Num + (i % Num)
  BY <1>1, <1>2
<1>5. PICK q \in Int : j = q * Num + (j % Num)
  BY <1>1, <1>2
<1>6. i % Num = j % Num /\ i % Num \in Int
  BY <1>1 DEF RingPos
<1>7. \A m \in Int : m * Num \in 0 .. Num - 1 => m = 0
  <2> SUFFICES ASSUME NEW m \in Int, m * Num \in 0 .. Num - 1 PROVE m = 0
    OBVIOUS
  <2>1. CASE m >= 1
    BY <1>1, <2>1
  <2>2. CASE m <= -1
    BY <1>1, <2>2
  <2> QED
    BY <2>1, <2>2
<1>8. CASE j >= i
  <2>1. j - i = (q - p) * Num
    BY <1>1, <1>4, <1>5, <1>6
  <2>2. j - i \in 0 .. Num - 1
    BY <1>1, <1>8, DistIs
  <2>3. q - p = 0
    BY <1>7, <2>1, <2>2
  <2> QED
    BY <1>1, <2>1, <2>3
<1>9. CASE ~(j >= i)
  <2>1. (j - i) + Word = ((q - p) + K) * Num
    BY <1>1, <1>3, <1>4, <1>5, <1>6
  <2>2. (j - i) + Word \in 0 .. Num - 1 /\ (j - i) + Word > 0
    BY <1>1, <1>9, DistIs
  <2>3. (q - p) + K = 0
    BY <1>7, <2>1, <2>2
  <2> QED
    BY <1>1, <2>1, <2>2, <2>3
<1> QED
  BY <1>1, <1>8, <1>9

\* An index that advances takes one more entry in.
LEMMA Push ==
  ASSUME NEW a \in Words, NEW b \in Words, Dist(a, b) + 1 < Word
  PROVE  /\ Inc(b) \in Words
         /\ Dist(a, Inc(b)) = Dist(a, b) + 1
         /\ ~Within(a, b, b)
         /\ \A k \in Words : Within(a, k, Inc(b)) <=> Within(a, k, b) \/ k = b
<1>1. Word \in Nat /\ Word > 0 /\ a \in 0 .. Word - 1 /\ b \in 0 .. Word - 1
  BY DescAssumption DEF Words
<1>2. Inc(b) \in Words /\ Inc(b) \in 0 .. Word - 1 /\ Inc(b) = IF b = Word - 1 THEN 0 ELSE b + 1
  BY IncIs DEF Words
<1>3. Dist(a, b) = IF b >= a THEN b - a ELSE (b - a) + Word
  BY DistIs
<1>4. Dist(a, Inc(b)) = IF Inc(b) >= a THEN Inc(b) - a ELSE (Inc(b) - a) + Word
  BY <1>2, DistIs
<1>5. Dist(a, Inc(b)) = Dist(a, b) + 1
  BY <1>1, <1>2, <1>3, <1>4
<1>6. ASSUME NEW k \in Words
      PROVE  Dist(a, k) < Dist(a, b) + 1 <=> Dist(a, k) < Dist(a, b) \/ k = b
  <2>1. Dist(a, k) = (IF k >= a THEN k - a ELSE (k - a) + Word) /\ k \in 0 .. Word - 1
    BY DistIs DEF Words
  <2> QED
    BY <1>1, <1>3, <2>1
<1> QED
  BY <1>1, <1>2, <1>3, <1>5, <1>6 DEF Within

\* An index that is stepped over gives one entry up.
LEMMA Pop ==
  ASSUME NEW a \in Words, NEW b \in Words, Dist(a, b) > 0
  PROVE  /\ Inc(a) \in Words
         /\ Dist(Inc(a), b) = Dist(a, b) - 1
         /\ Within(a, a, b)
         /\ \A k \in Words : Within(Inc(a), k, b) <=> Within(a, k, b) /\ k # a
<1>1. Word \in Nat /\ Word > 0 /\ a \in 0 .. Word - 1 /\ b \in 0 .. Word - 1
  BY DescAssumption DEF Words
<1>2. Inc(a) \in Words /\ Inc(a) \in 0 .. Word - 1 /\ Inc(a) = IF a = Word - 1 THEN 0 ELSE a + 1
  BY IncIs DEF Words
<1>3. Dist(a, b) = (IF b >= a THEN b - a ELSE (b - a) + Word) /\ Dist(a, a) = 0
  BY <1>1, DistIs
<1>4. Dist(Inc(a), b) = IF b >= Inc(a) THEN b - Inc(a) ELSE (b - Inc(a)) + Word
  BY <1>2, DistIs
<1>5. Dist(Inc(a), b) = Dist(a, b) - 1
  BY <1>1, <1>2, <1>3, <1>4
<1>6. ASSUME NEW k \in Words
      PROVE  Dist(Inc(a), k) < Dist(a, b) - 1 <=> Dist(a, k) < Dist(a, b) /\ k # a
  <2>1. /\ Dist(a, k) = (IF k >= a THEN k - a ELSE (k - a) + Word) /\ k \in 0 .. Word - 1
        /\ Dist(Inc(a), k) = IF k >= Inc(a) THEN k - Inc(a) ELSE (k - Inc(a)) + Word
    BY <1>2, DistIs DEF Words
  <2> QED
    BY <1>1, <1>2, <1>3, <2>1
<1> QED
  BY <1>2, <1>3, <1>5, <1>6 DEF Within

\* The next entry to be written is none of those still to be read.
LEMMA Fresh ==
  ASSUME NEW a \in Words, NEW b \in Words, Dist(a, b) < Num
  PROVE  \A k \in Words : Within(a, k, b) => RingPos(k) # RingPos(b)
<1> SUFFICES ASSUME NEW k \in Words, Within(a, k, b), RingPos(k) = RingPos(b) PROVE FALSE
  OBVIOUS
<1>1. Word \in Nat /\ Num \in Nat /\ k \in 0 .. Word - 1 /\ a \in 0 .. Word - 1 /\ b \in 0 .. Word - 1
  BY DescAssumption DEF Words
<1>2. /\ Dist(a, b) = IF b >= a THEN b - a ELSE (b - a) + Word
      /\ Dist(a, k) = IF k >= a THEN k - a ELSE (k - a) + Word
      /\ Dist(k, b) = IF b >= k THEN b - k ELSE (b - k) + Word
  BY DistIs
<1>3. Dist(k, b) < Num /\ k # b
  BY <1>1, <1>2 DEF Within
<1> QED
  BY <1>3, PosDiffer

\* Distances are naturals, and different indices are apart.
LEMMA Apart ==
  ASSUME NEW a \in Words, NEW b \in Words
  PROVE  Dist(a, b) \in Nat /\ (a # b => Dist(a, b) > 0)
<1>1. Word \in Nat /\ a \in 0 .. Word - 1 /\ b \in 0 .. Word - 1
  BY DescAssumption DEF Words
<1>2. Dist(a, b) = (IF b >= a THEN b - a ELSE (b - a) + Word) /\ Dist(a, b) \in 0 .. Word - 1
  BY DistIs
<1> QED
  BY <1>1, <1>2

-----------------------------------------------------------------------------
(* The rings *)

\* The indices and ring entries are words; there are at most Num heads.
LEMMA RingFacts ==
  ASSUME RingsInv, DescInv
  PROVE  /\ Avail \in Words /\ UsedIdx \in Words
         /\ \A k \in Words : AvailHead(k) \in Words /\ UsedHead(k) \in Words
         /\ IsFiniteSet(published) /\ IsFiniteSet(dev)
         /\ Cardinality(published) \in Nat /\ Cardinality(dev) \in Nat
         /\ Cardinality(published) <= Num
         /\ \A h \in Descs \ published : Cardinality(published) + 1 <= Num
         /\ Num \in Nat /\ Word \in Nat /\ 0 < Num /\ Num < Word /\ Descs \subseteq Words
         /\ Dist(seen, Avail) \in Nat /\ Dist(last_used_idx, UsedIdx) \in Nat
<1>1. Avail \in Words /\ UsedIdx \in Words
      /\ \A k \in Words : AvailHead(k) \in Words /\ UsedHead(k) \in Words
  BY SwapTwice, RingPosIs DEF RingsInv, RingsTypeOK, Avail, UsedIdx, AvailHead, UsedHead
<1>2. published \subseteq Descs /\ dev \subseteq published
  BY DEF DescInv, TypeOK, RingsInv, RingsTypeOK
<1>3. /\ IsFiniteSet(published) /\ IsFiniteSet(dev)
      /\ Cardinality(published) \in Nat /\ Cardinality(dev) \in Nat
      /\ Cardinality(published) <= Num
  BY <1>2, DescsFinite, FS_Subset, FS_CardinalityType
<1>4. ASSUME NEW h \in Descs \ published
      PROVE  Cardinality(published) + 1 <= Num
  <2>1. published \cup {h} \subseteq Descs
    BY <1>2
  <2>2. Cardinality(published \cup {h}) <= Num
    BY <2>1, DescsFinite, FS_Subset
  <2>3. Cardinality(published \cup {h}) = Cardinality(published) + 1
    BY <1>3, FS_AddElement
  <2> QED
    BY <2>2, <2>3
<1>5. Num \in Nat /\ Word \in Nat /\ 0 < Num /\ Num < Word /\ Descs \subseteq Words
  BY DescAssumption DEF Descs, Words
<1>6. Dist(seen, Avail) \in Nat /\ Dist(last_used_idx, UsedIdx) \in Nat
  BY <1>1, <1>5, DistIs DEF RingsInv, RingsTypeOK
<1> QED
  BY <1>1, <1>3, <1>4, <1>5, <1>6

\* A step that moves no head: rings and published heads stay, the call in
\* progress neither takes a used entry nor is about to store avail->idx.
LEMMA Unmoved ==
  ASSUME RingsInv, RingsTypeOK', notified' = notified \/ notified' = Avail,
         UNCHANGED <<avail_idx, avail_ring, used_idx, used_ring, last_used_idx, seen, dev,
                     published>>,
         pc' = "idx" => pc = "idx" /\ head' = head,
         InGet' <=> InGet, InGet => head' = head
  PROVE  RingsInv'
<1>1. /\ \A k : AvailHead(k)' = AvailHead(k) /\ UsedHead(k)' = UsedHead(k)
      /\ Avail' = Avail /\ UsedIdx' = UsedIdx
  BY DEF AvailHead, UsedHead, Avail, UsedIdx
<1>2. /\ \A k : OnAvail(k)' <=> OnAvail(k)
      /\ \A k : OnUsed(k)' <=> OnUsed(k)
  BY <1>1 DEF OnAvail, OnUsed, Within, Dist
<1>3. Dist(seen, Avail)' = Dist(seen, Avail)
      /\ Dist(last_used_idx, UsedIdx)' = Dist(last_used_idx, UsedIdx)
  BY <1>1 DEF Dist
<1>4. Dist(seen, notified)' <= Dist(seen, Avail)'
  <2>1. CASE notified' = notified
    BY <1>1, <2>1 DEF RingsInv, AvailOK, Dist
  <2>2. CASE notified' = Avail
    <3>1. Dist(seen, notified)' = Dist(seen, Avail)
      BY <2>2 DEF Dist
    <3>2. Dist(seen, Avail) \in Int
      <4>1. Avail \in Words /\ seen \in Words
        BY SwapTwice DEF Avail, RingsInv, RingsTypeOK
      <4> QED
        BY <4>1, DistIs
    <3> QED
      BY <1>3, <3>1, <3>2
  <2> QED
    BY <2>1, <2>2
<1>5. AvailOK'
  BY <1>1, <1>2, <1>4 DEF RingsInv, AvailOK
<1>6. UsedOK'
  BY <1>1, <1>2, <1>3 DEF RingsInv, UsedOK
<1>7. Counted'
  BY <1>3 DEF RingsInv, Counted
<1> QED
  BY <1>5, <1>6, <1>7 DEF RingsInv

\* The steps inside the descriptor table.
LEMMA TableRings ==
  ASSUME RingsInv, DescInv, TableStep
  PROVE  RingsInv'
<1>1. UNCHANGED ringVars /\ RingsTypeOK' /\ UNCHANGED published
  BY DEF TableStep, RingsInv, RingsTypeOK, ringVars, callers, AddBufEnter, AddBufTable,
         AddBufNoTable, AddBufDirect, GetBufFree
<1>2. pc' # "idx" /\ (InGet' <=> InGet) /\ (InGet => head' = head)
  <2>1. CASE \E c \in Cookies, s \in Shapes : AddBufEnter(c, s[1], s[2])
    BY <2>1 DEF AddBufEnter, InGet
  <2>2. CASE AddBufTable \/ AddBufNoTable
    BY <2>2 DEF AddBufTable, AddBufNoTable, Return, InGet
  <2>3. CASE AddBufDirect
    BY <2>3 DEF AddBufDirect, InGet
  <2>4. CASE GetBufFree
    BY <2>4 DEF GetBufFree, FreeDesc, InGet
  <2> QED
    BY <2>1, <2>2, <2>3, <2>4 DEF TableStep
<1> QED
  BY <1>1, <1>2, Unmoved DEF ringVars

\* The calls and the interrupt path that touch no ring entry.
LEMMA CallerRings ==
  ASSUME RingsInv, DescInv,
         Kick \/ StartDrain \/ GetEmpty \/ DeviceNotify \/ Acknowledge
  PROVE  RingsInv' /\ UNCHANGED dtVars
<1>1. /\ UNCHANGED dtVars
      /\ UNCHANGED <<avail_idx, avail_ring, used_idx, used_ring, last_used_idx, seen, dev>>
      /\ notified' = notified \/ notified' = Avail
  BY DEF Kick, StartDrain, GetEmpty, DeviceNotify, Acknowledge, callers, Avail
<1>2. UNCHANGED <<published, pc, head>>
  BY <1>1 DEF dtVars, locals
<1>3. RingsTypeOK'
  <2>1. used_event' = used_event
    BY DEF Kick, StartDrain, GetEmpty, DeviceNotify, Acknowledge, callers
  <2>2. signalled_used' \in Words /\ isr' \in BOOLEAN
    BY RingFacts DEF Kick, StartDrain, GetEmpty, DeviceNotify, Acknowledge, callers, RingsInv,
                     RingsTypeOK, UsedIdx
  <2>3. wake' \in BOOLEAN /\ draining' \in BOOLEAN
    BY DEF Kick, StartDrain, GetEmpty, DeviceNotify, Acknowledge, callers, RingsInv, RingsTypeOK
  <2> QED
    BY <1>1, <1>2, <2>1, <2>2, <2>3, RingFacts DEF RingsInv, RingsTypeOK
<1>4. InGet' <=> InGet
  BY <1>2 DEF InGet
<1> QED
  BY <1>1, <1>2, <1>3, <1>4, Unmoved

\* avail->ring[avail->idx % num] = head overwrites no entry the device has yet
\* to read: the head is not published, so the ring has room.
LEMMA PublishRingRings ==
  ASSUME RingsInv, DescInv, PublishRing
  PROVE  RingsInv'
<1>1. /\ pc = "ring" /\ pc' = "idx" /\ UNCHANGED <<head, published>>
      /\ avail_ring' = [avail_ring EXCEPT ![RingPos(Avail)] = vr16(head)]
      /\ UNCHANGED <<avail_idx, used_event, used_idx, used_ring, last_used_idx,
                     seen, notified, dev, signalled_used, isr, wake, draining>>
  BY DEF PublishRing, AddBufRing, locals, callers, AvailPos, Avail
<1>2. head \in Descs /\ head \notin published /\ ~InGet /\ ~InGet'
  BY <1>1 DEF DescInv, CallState, InGet
<1>3. Dist(seen, Avail) < Num
  BY <1>2, RingFacts DEF RingsInv, Counted
<1>4. vr16(head) \in Words /\ vr16(vr16(head)) = head /\ RingPos(Avail) \in Descs
  BY <1>2, RingFacts, RingPosIs, SwapTwice
<1>5. RingsTypeOK'
  BY <1>1, <1>4 DEF RingsInv, RingsTypeOK
<1>6. /\ Avail' = Avail /\ UsedIdx' = UsedIdx
      /\ \A k \in Words : UsedHead(k)' = UsedHead(k)
      /\ \A k \in Words : OnAvail(k) => AvailHead(k)' = AvailHead(k)
  <2>1. Avail' = Avail /\ UsedIdx' = UsedIdx /\ \A k \in Words : UsedHead(k)' = UsedHead(k)
    BY <1>1 DEF Avail, UsedIdx, UsedHead
  <2>2. ASSUME NEW k \in Words, OnAvail(k) PROVE AvailHead(k)' = AvailHead(k)
    <3>1. RingPos(k) # RingPos(Avail) /\ RingPos(k) \in Descs
      BY <1>3, <2>2, Fresh, RingFacts, RingPosIs DEF OnAvail, RingsInv, RingsTypeOK
    <3> QED
      BY <1>1, <3>1 DEF AvailHead, RingsInv, RingsTypeOK
  <2> QED
    BY <2>1, <2>2
<1>7. /\ \A k : OnAvail(k)' <=> OnAvail(k)
      /\ \A k : OnUsed(k)' <=> OnUsed(k)
  BY <1>1, <1>2, <1>6 DEF OnAvail, OnUsed, Within, Dist
<1>8. AvailOK'
  <2>1. AvailHead(Avail)' = head
    <3>1. AvailHead(Avail)' = vr16(avail_ring'[RingPos(Avail)])
      BY <1>6 DEF AvailHead
    <3> QED
      BY <1>1, <1>4, <3>1 DEF RingsInv, RingsTypeOK
  <2>2. Dist(seen, notified)' = Dist(seen, notified) /\ Dist(seen, Avail)' = Dist(seen, Avail)
    BY <1>1, <1>6 DEF Dist
  <2> QED
    BY <1>1, <1>6, <1>7, <2>1, <2>2 DEF RingsInv, AvailOK
<1>9. UsedOK'
  BY <1>1, <1>2, <1>6, <1>7 DEF RingsInv, UsedOK
<1>10. Counted'
  BY <1>1, <1>2, <1>6 DEF RingsInv, Counted, Dist
<1> QED
  BY <1>5, <1>8, <1>9, <1>10 DEF RingsInv

\* The store to avail->idx makes the entry visible and the head published.
LEMMA PublishIdxRings ==
  ASSUME RingsInv, DescInv, PublishIdx
  PROVE  RingsInv'
<1>1. /\ pc = "idx" /\ pc' = "idle" /\ published' = published \cup {head}
      /\ avail_idx' = vr16(Inc(Avail))
      /\ UNCHANGED <<avail_ring, used_event, used_idx, used_ring, last_used_idx,
                     seen, notified, dev, signalled_used, isr, wake, draining>>
  BY DEF PublishIdx, AddBufIdx, Return, callers, Avail
<1>2. head \in Descs /\ head \notin published /\ ~InGet /\ ~InGet' /\ AvailHead(Avail) = head
  BY <1>1 DEF DescInv, CallState, InGet, RingsInv, AvailOK
<1>3. Dist(seen, Avail) + 1 < Word
  BY <1>2, RingFacts DEF RingsInv, Counted
<1>4. /\ Inc(Avail) \in Words /\ Dist(seen, Inc(Avail)) = Dist(seen, Avail) + 1
      /\ ~Within(seen, Avail, Avail)
      /\ \A k \in Words : Within(seen, k, Inc(Avail)) <=> Within(seen, k, Avail) \/ k = Avail
  BY <1>3, Push, RingFacts DEF RingsInv, RingsTypeOK
<1>5. /\ Avail' = Inc(Avail) /\ avail_idx' \in Words /\ UsedIdx' = UsedIdx
      /\ \A k : AvailHead(k)' = AvailHead(k) /\ UsedHead(k)' = UsedHead(k)
  BY <1>1, <1>4, SwapTwice DEF Avail, UsedIdx, AvailHead, UsedHead
<1>6. RingsTypeOK'
  BY <1>1, <1>5 DEF RingsInv, RingsTypeOK
<1>7. /\ \A k \in Words : OnAvail(k)' <=> OnAvail(k) \/ k = Avail
      /\ \A k : OnUsed(k)' <=> OnUsed(k)
  BY <1>1, <1>2, <1>4, <1>5 DEF OnAvail, OnUsed, Within, Dist
<1>8. Dist(seen, Avail)' = Dist(seen, Avail) + 1
      /\ Dist(last_used_idx, UsedIdx)' = Dist(last_used_idx, UsedIdx)
      /\ Dist(seen, notified)' = Dist(seen, notified)
  BY <1>1, <1>4, <1>5 DEF Dist
<1>9. AvailOK'
  <2>1. \A k \in Words : OnAvail(k)' => AvailHead(k) \in published' \ dev
    BY <1>1, <1>2, <1>7 DEF RingsInv, AvailOK, RingsTypeOK
  <2>2. \A j, k \in Words : OnAvail(j)' /\ OnAvail(k)' /\ AvailHead(j) = AvailHead(k) => j = k
    BY <1>2, <1>7 DEF RingsInv, AvailOK
  <2>3. Dist(seen, notified) <= Dist(seen, Avail) + 1
    <3>1. Dist(seen, notified) \in Int
      BY DistIs DEF RingsInv, RingsTypeOK
    <3> QED
      BY <3>1, RingFacts DEF RingsInv, AvailOK
  <2> QED
    BY <1>1, <1>5, <1>8, <2>1, <2>2, <2>3 DEF AvailOK
<1>10. UsedOK'
  <2>1. ASSUME NEW k \in Words, OnUsed(k), UsedHead(k) < Num
        PROVE  /\ UsedHead(k) \in published' \ dev
               /\ \A j \in Words : OnAvail(j)' => AvailHead(j) # UsedHead(k)
    BY <1>1, <1>2, <1>7, <2>1 DEF RingsInv, UsedOK
  <2> QED
    BY <1>1, <1>2, <1>5, <1>7, <2>1 DEF RingsInv, UsedOK
<1>11. Counted'
  <2>1. Cardinality(published') = Cardinality(published) + 1
    BY <1>1, <1>2, RingFacts, FS_AddElement
  <2> QED
    BY <1>1, <1>2, <1>8, <2>1, RingFacts DEF RingsInv, Counted
<1> QED
  BY <1>6, <1>9, <1>10, <1>11 DEF RingsInv

\* GetBuf takes the next used entry: its head is published and in no other
\* entry of either ring, nor with the device.
LEMMA GetUsedRings ==
  ASSUME RingsInv, DescInv, GetUsed
  PROVE  RingsInv' /\ UsedId \in published
<1>1. /\ pc = "idle" /\ pc' \in {"free", "done"} /\ head' = UsedId
      /\ published' = published \ {UsedId} /\ UNCHANGED ringVars
      /\ UsedPending /\ UsedId < Num
  BY DEF GetUsed, GetBufTake
<1>2. ~InGet /\ InGet' /\ pc' # "idx"
  BY <1>1 DEF InGet
<1>3. UsedId = UsedHead(last_used_idx) /\ last_used_idx \in Words /\ UsedIdx \in Words
  BY RingFacts DEF UsedId, UsedHead, RingsInv, RingsTypeOK
<1>4. Dist(last_used_idx, UsedIdx) > 0
  <2>1. last_used_idx # UsedIdx
    BY <1>1 DEF UsedPending, UsedIdx
  <2> QED
    BY <1>3, <2>1, Apart
<1>5. OnUsed(last_used_idx)
  BY <1>2, <1>3, <1>4, Pop DEF OnUsed
<1>6. /\ UsedId \in published \ dev
      /\ \A j \in Words : OnAvail(j) => AvailHead(j) # UsedId
      /\ \A k \in Words : OnUsed(k) /\ UsedHead(k) < Num /\ UsedHead(k) = UsedId => k = last_used_idx
  BY <1>1, <1>3, <1>5 DEF RingsInv, UsedOK
<1>7. UsedId \in Descs
  BY <1>6 DEF DescInv, TypeOK
<1>8. /\ \A k : AvailHead(k)' = AvailHead(k) /\ UsedHead(k)' = UsedHead(k)
      /\ Avail' = Avail /\ UsedIdx' = UsedIdx
      /\ UNCHANGED <<last_used_idx, seen, notified, dev>>
  BY <1>1 DEF AvailHead, UsedHead, Avail, UsedIdx, ringVars
<1>9. /\ \A k : OnAvail(k)' <=> OnAvail(k)
      /\ \A k : OnUsed(k)' <=> OnUsed(k) /\ k # last_used_idx
  BY <1>2, <1>8 DEF OnAvail, OnUsed, Within, Dist
<1>10. /\ Dist(seen, Avail)' = Dist(seen, Avail) /\ Dist(seen, notified)' = Dist(seen, notified)
       /\ Dist(last_used_idx, UsedIdx)' = Dist(last_used_idx, UsedIdx)
  BY <1>8 DEF Dist
<1>11. RingsTypeOK'
  BY <1>1, <1>6 DEF RingsInv, RingsTypeOK, ringVars, callers
<1>12. AvailOK'
  BY <1>1, <1>2, <1>6, <1>8, <1>9, <1>10 DEF RingsInv, AvailOK
<1>13. UsedOK'
  <2>1. ASSUME NEW k \in Words, OnUsed(k), k # last_used_idx, UsedHead(k) < Num
        PROVE  /\ UsedHead(k) \in published' \ dev
               /\ \A j \in Words : OnAvail(j) => AvailHead(j) # UsedHead(k)
    BY <1>1, <1>6, <2>1 DEF RingsInv, UsedOK
  <2> QED
    BY <1>1, <1>4, <1>7, <1>8, <1>9, <1>10, <2>1 DEF RingsInv, UsedOK
<1>14. Counted'
  <2>1. Cardinality(published') = Cardinality(published) - 1
    BY <1>1, <1>6, RingFacts, FS_RemoveElement
  <2> QED
    BY <1>2, <1>8, <1>10, <2>1, RingFacts DEF RingsInv, Counted
<1> QED
  BY <1>6, <1>11, <1>12, <1>13, <1>14 DEF RingsInv

\* last_used_idx steps over an entry GetBuf has done with.
LEMMA StepOver ==
  ASSUME RingsInv, DescInv, Dist(last_used_idx, UsedIdx) > 0,
         InGet \/ UsedHead(last_used_idx) >= Num, pc' = "idle",
         last_used_idx' = Inc(last_used_idx), used_event' \in Words, draining' \in BOOLEAN,
         UNCHANGED <<avail_idx, avail_ring, used_idx, used_ring, seen, notified, dev,
                     signalled_used, isr, wake, published>>
  PROVE  RingsInv'
<1>1. /\ Inc(last_used_idx) \in Words
      /\ Dist(Inc(last_used_idx), UsedIdx) = Dist(last_used_idx, UsedIdx) - 1
      /\ \A k \in Words : Within(Inc(last_used_idx), k, UsedIdx)
                            <=> Within(last_used_idx, k, UsedIdx) /\ k # last_used_idx
  BY Pop, RingFacts DEF RingsInv, RingsTypeOK
<1>2. /\ \A k : AvailHead(k)' = AvailHead(k) /\ UsedHead(k)' = UsedHead(k)
      /\ Avail' = Avail /\ UsedIdx' = UsedIdx /\ ~InGet'
  BY DEF AvailHead, UsedHead, Avail, UsedIdx, InGet
<1>3. /\ \A k \in Words : OnAvail(k)' <=> OnAvail(k)
      /\ \A k \in Words : OnUsed(k)' <=> Within(last_used_idx, k, UsedIdx) /\ k # last_used_idx
  BY <1>1, <1>2 DEF OnAvail, OnUsed, Within, Dist
<1>4. /\ Dist(seen, Avail)' = Dist(seen, Avail) /\ Dist(seen, notified)' = Dist(seen, notified)
      /\ Dist(last_used_idx, UsedIdx)' = Dist(last_used_idx, UsedIdx) - 1
  BY <1>1, <1>2 DEF Dist
<1>5. RingsTypeOK'
  BY <1>1 DEF RingsInv, RingsTypeOK
<1>6. AvailOK'
  BY <1>2, <1>3, <1>4 DEF RingsInv, AvailOK
<1>7. \A k \in Words : OnUsed(k)' => OnUsed(k)
  BY <1>3 DEF OnUsed
<1>8. UsedOK'
  BY <1>2, <1>3, <1>7 DEF RingsInv, UsedOK
<1>9. Counted'
  BY <1>2, <1>4, RingFacts DEF RingsInv, Counted
<1> QED
  BY <1>5, <1>6, <1>8, <1>9 DEF RingsInv

\* The end of GetBuf, and its refusal of an id out of range.
LEMMA GetEndRings ==
  ASSUME RingsInv, DescInv, GetEnd \/ GetBadId
  PROVE  RingsInv'
<1>1. CASE GetEnd
  <2>1. /\ pc = "done" /\ pc' = "idle" /\ last_used_idx' = Inc(last_used_idx)
        /\ used_event' = (IF UseEventIdx THEN vr16(Inc(last_used_idx)) ELSE used_event)
        /\ UNCHANGED <<avail_idx, avail_ring, used_idx, used_ring, seen, notified, dev,
                       signalled_used, isr, wake, draining, published>>
    BY <1>1 DEF GetEnd, GetBufDone, Return, callers, UsedEvent
  <2>2. InGet /\ Dist(last_used_idx, UsedIdx) > 0
    BY <2>1 DEF InGet, RingsInv, UsedOK
  <2>3. used_event' \in Words
    BY <2>1, IncIs, SwapTwice DEF RingsInv, RingsTypeOK
  <2>4. draining' \in BOOLEAN
    BY <2>1 DEF RingsInv, RingsTypeOK
  <2> QED
    BY <2>1, <2>2, <2>3, <2>4, StepOver
<1>2. CASE GetBadId
  <2>1. /\ pc = "idle" /\ last_used_idx' = Inc(last_used_idx) /\ UNCHANGED dtVars
        /\ draining' = FALSE /\ UsedPending /\ UsedId >= Num
        /\ UNCHANGED <<avail_idx, avail_ring, used_event, used_idx, used_ring, seen, notified,
                       dev, signalled_used, isr, wake>>
    BY <1>2 DEF GetBadId
  <2>2. pc' = "idle" /\ published' = published
    BY <2>1 DEF dtVars
  <2>3. UsedHead(last_used_idx) >= Num /\ last_used_idx # UsedIdx
    BY <2>1 DEF UsedId, UsedHead, UsedPending, UsedIdx
  <2>4. Dist(last_used_idx, UsedIdx) > 0
    BY <2>3, Apart, RingFacts DEF RingsInv, RingsTypeOK
  <2>5. used_event' \in Words
    BY <2>1 DEF RingsInv, RingsTypeOK
  <2> QED
    BY <2>1, <2>2, <2>3, <2>4, <2>5, StepOver
<1> QED
  BY <1>1, <1>2

\* The device takes the next avail entry: a head it does not hold yet.
LEMMA DeviceTakeRings ==
  ASSUME RingsInv, DescInv, DeviceTake
  PROVE  RingsInv'
<1>1. /\ seen # notified \/ seen # Avail
      /\ dev' = dev \cup {AvailHead(seen)} /\ seen' = Inc(seen)
      /\ notified' = (IF seen = notified THEN Inc(seen) ELSE notified)
      /\ UNCHANGED <<avail_idx, avail_ring, used_event, used_idx, used_ring, last_used_idx,
                     signalled_used, isr, wake, draining, pc, head, published>>
  BY DEF DeviceTake, Avail, AvailHead, callers, dtVars, locals
<1>2. seen \in Words /\ notified \in Words /\ Avail \in Words
  BY RingFacts DEF RingsInv, RingsTypeOK
<1>3. /\ Dist(seen, notified) \in Nat /\ (seen # notified => Dist(seen, notified) > 0)
      /\ Dist(seen, Avail) \in Nat /\ (seen # Avail => Dist(seen, Avail) > 0)
  BY <1>2, Apart
<1>4. Dist(seen, Avail) > 0
  BY <1>1, <1>3 DEF RingsInv, AvailOK
<1>5. /\ Inc(seen) \in Words /\ Dist(Inc(seen), Avail) = Dist(seen, Avail) - 1
      /\ Within(seen, seen, Avail)
      /\ \A k \in Words : Within(Inc(seen), k, Avail) <=> Within(seen, k, Avail) /\ k # seen
  BY <1>2, <1>4, Pop
<1>6. OnAvail(seen) /\ AvailHead(seen) \in published \ dev
  BY <1>2, <1>5 DEF OnAvail, RingsInv, AvailOK
<1>7. /\ \A k : AvailHead(k)' = AvailHead(k) /\ UsedHead(k)' = UsedHead(k)
      /\ Avail' = Avail /\ UsedIdx' = UsedIdx /\ (InGet' <=> InGet)
  BY <1>1 DEF AvailHead, UsedHead, Avail, UsedIdx, InGet
<1>8. /\ \A k \in Words : OnAvail(k)' <=> OnAvail(k) /\ k # seen
      /\ \A k : OnUsed(k)' <=> OnUsed(k)
  BY <1>1, <1>5, <1>7 DEF OnAvail, OnUsed, Within, Dist
<1>9. /\ Dist(seen, Avail)' = Dist(seen, Avail) - 1
      /\ Dist(last_used_idx, UsedIdx)' = Dist(last_used_idx, UsedIdx)
  BY <1>1, <1>5, <1>7 DEF Dist
<1>10. Dist(seen, notified)' <= Dist(seen, Avail)'
  <2>1. CASE seen = notified
    <3>1. Dist(seen, notified)' = Dist(Inc(seen), Inc(seen))
      BY <1>1, <2>1 DEF Dist
    <3>2. Dist(Inc(seen), Inc(seen)) = 0
      BY <1>5, DistIs DEF Words
    <3> QED
      BY <1>3, <1>4, <1>9, <3>1, <3>2
  <2>2. CASE seen # notified
    <3>1. Dist(seen, notified)' = Dist(Inc(seen), notified)
      BY <1>1, <2>2 DEF Dist
    <3>2. Dist(Inc(seen), notified) = Dist(seen, notified) - 1
      BY <1>2, <1>3, <2>2, Pop
    <3> QED
      BY <1>3, <1>9, <3>1, <3>2 DEF RingsInv, AvailOK
  <2> QED
    BY <2>1, <2>2
<1>11. RingsTypeOK'
  BY <1>1, <1>2, <1>5, <1>6 DEF RingsInv, RingsTypeOK
<1>12. AvailOK'
  <2>1. ASSUME NEW k \in Words, OnAvail(k), k # seen PROVE AvailHead(k) \in published \ dev'
    BY <1>1, <1>2, <1>6, <2>1 DEF RingsInv, AvailOK
  <2>2. \A k \in Words : OnAvail(k)' => AvailHead(k)' \in published' \ dev'
    BY <1>1, <1>7, <1>8, <2>1
  <2>3. \A j, k \in Words :
          OnAvail(j)' /\ OnAvail(k)' /\ AvailHead(j)' = AvailHead(k)' => j = k
    BY <1>7, <1>8 DEF RingsInv, AvailOK
  <2>4. pc' = "idx" => AvailHead(Avail)' = head'
    <3>1. AvailHead(Avail)' = AvailHead(Avail)
      BY <1>1, <1>7 DEF AvailHead
    <3> QED
      BY <1>1, <3>1 DEF RingsInv, AvailOK
  <2> QED
    BY <1>10, <2>2, <2>3, <2>4 DEF AvailOK
<1>13. UsedOK'
  <2>1. ASSUME NEW k \in Words, OnUsed(k), UsedHead(k) < Num
        PROVE  UsedHead(k) \in published \ dev'
    BY <1>1, <1>2, <1>6, <2>1 DEF RingsInv, UsedOK
  <2> QED
    BY <1>1, <1>7, <1>8, <1>9, <2>1 DEF RingsInv, UsedOK
<1>14. Counted'
  <2>1. Cardinality(dev') = Cardinality(dev) + 1
    BY <1>1, <1>6, RingFacts, FS_AddElement
  <2> QED
    BY <1>1, <1>7, <1>9, <2>1, RingFacts DEF RingsInv, Counted
<1> QED
  BY <1>11, <1>12, <1>13, <1>14 DEF RingsInv

\* The used ring has room for what the device finishes.
LEMMA UsedRoom ==
  ASSUME RingsInv, DescInv, NEW h \in dev
  PROVE  Dist(last_used_idx, UsedIdx) < Num
<1>1. Cardinality(dev) >= 1
  <2>1. Cardinality(dev \ {h}) = Cardinality(dev) - 1 /\ Cardinality(dev \ {h}) \in Nat
    BY RingFacts, FS_RemoveElement, FS_CardinalityType
  <2> QED
    BY <2>1, RingFacts
<1>2. CASE InGet
  <2>1. Cardinality(published) + 1 <= Num
    BY <1>2, RingFacts DEF RingsInv, UsedOK
  <2> QED
    BY <1>1, <1>2, <2>1, RingFacts DEF RingsInv, Counted
<1>3. CASE ~InGet
  BY <1>1, <1>3, RingFacts DEF RingsInv, Counted
<1> QED
  BY <1>2, <1>3

\* The device reports a head it held, or an id out of range in its stead.
LEMMA DeviceReportRings ==
  ASSUME RingsInv, DescInv, NEW h, NEW id, id = h \/ id = Num, DeviceReport(h, id)
  PROVE  RingsInv'
<1>1. /\ h \in dev /\ dev' = dev \ {h}
      /\ used_ring' = [used_ring EXCEPT ![RingPos(UsedIdx)] = vr16(id)]
      /\ used_idx' = vr16(Inc(UsedIdx))
      /\ UNCHANGED <<avail_idx, avail_ring, used_event, last_used_idx, seen, notified,
                     signalled_used, isr, wake, draining, pc, head, published>>
  BY DEF DeviceReport, UsedIdx, callers, dtVars, locals
<1>2. last_used_idx \in Words /\ UsedIdx \in Words /\ Dist(last_used_idx, UsedIdx) < Num
  BY <1>1, RingFacts, UsedRoom DEF RingsInv, RingsTypeOK
<1>3. id \in Words /\ h \in Words
  BY <1>1, RingFacts DEF RingsInv, RingsTypeOK, DescInv, TypeOK, Words
<1>4. vr16(id) \in Words /\ vr16(vr16(id)) = id /\ RingPos(UsedIdx) \in Descs
  BY <1>2, <1>3, SwapTwice, RingPosIs
<1>5. /\ Inc(UsedIdx) \in Words
      /\ Dist(last_used_idx, Inc(UsedIdx)) = Dist(last_used_idx, UsedIdx) + 1
      /\ ~Within(last_used_idx, UsedIdx, UsedIdx)
      /\ \A k \in Words : Within(last_used_idx, k, Inc(UsedIdx))
                            <=> Within(last_used_idx, k, UsedIdx) \/ k = UsedIdx
  <2>1. Dist(last_used_idx, UsedIdx) + 1 < Word
    BY <1>2, RingFacts
  <2> QED
    BY <1>2, <2>1, Push
<1>6. /\ Avail' = Avail /\ UsedIdx' = Inc(UsedIdx) /\ used_idx' \in Words /\ (InGet' <=> InGet)
      /\ \A k : AvailHead(k)' = AvailHead(k)
  BY <1>1, <1>5, SwapTwice DEF Avail, UsedIdx, AvailHead, InGet
<1>7. InGet => last_used_idx # UsedIdx
  BY <1>2, DistIs DEF RingsInv, UsedOK, Words
<1>8. /\ \A k : OnAvail(k)' <=> OnAvail(k)
      /\ \A k \in Words : OnUsed(k)' <=> OnUsed(k) \/ k = UsedIdx
  <2>1. \A k : OnAvail(k)' <=> OnAvail(k)
    BY <1>1, <1>6 DEF OnAvail, Within, Dist
  <2>2. ASSUME NEW k \in Words PROVE OnUsed(k)' <=> OnUsed(k) \/ k = UsedIdx
    <3>1. Within(last_used_idx, k, UsedIdx)' <=> Within(last_used_idx, k, Inc(UsedIdx))
      BY <1>1, <1>6 DEF Within, Dist
    <3> QED
      BY <1>1, <1>5, <1>6, <1>7, <3>1 DEF OnUsed
  <2> QED
    BY <2>1, <2>2
<1>9. /\ \A k \in Words : OnUsed(k) => UsedHead(k)' = UsedHead(k)
      /\ UsedHead(UsedIdx) \in Words
      /\ \A k \in Words : k = UsedIdx => UsedHead(k)' = id
  <2>1. ASSUME NEW k \in Words, OnUsed(k) PROVE UsedHead(k)' = UsedHead(k)
    <3>1. RingPos(k) # RingPos(UsedIdx) /\ RingPos(k) \in Descs
      BY <1>2, <2>1, Fresh, RingPosIs DEF OnUsed
    <3> QED
      BY <1>1, <3>1 DEF UsedHead, RingsInv, RingsTypeOK
  <2>2. ASSUME NEW k \in Words, k = UsedIdx PROVE UsedHead(k)' = id
    <3>1. UsedHead(k)' = vr16(used_ring'[RingPos(k)])
      BY DEF UsedHead
    <3> QED
      BY <1>1, <1>4, <2>2, <3>1 DEF RingsInv, RingsTypeOK
  <2> QED
    BY <1>2, <2>1, <2>2, RingFacts
<1>10. /\ Dist(seen, Avail)' = Dist(seen, Avail) /\ Dist(seen, notified)' = Dist(seen, notified)
       /\ Dist(last_used_idx, UsedIdx)' = Dist(last_used_idx, UsedIdx) + 1
  BY <1>1, <1>5, <1>6 DEF Dist
<1>11. h \in published /\ \A k \in Words : OnUsed(k) /\ UsedHead(k) < Num => UsedHead(k) # h
  BY <1>1 DEF RingsInv, RingsTypeOK, UsedOK
<1>12. RingsTypeOK'
  BY <1>1, <1>4, <1>6 DEF RingsInv, RingsTypeOK
<1>13. AvailOK'
  <2>1. AvailHead(Avail)' = AvailHead(Avail)
    BY <1>1, <1>6 DEF AvailHead
  <2> QED
    BY <1>1, <1>6, <1>8, <1>10, <2>1 DEF RingsInv, AvailOK
<1>14. UsedOK'
  <2>1. id < Num => id = h
    BY RingFacts
  <2>2. ASSUME NEW k \in Words, OnUsed(k)', UsedHead(k)' < Num
        PROVE  /\ UsedHead(k)' \in published' \ dev'
               /\ \A j \in Words : OnAvail(j)' => AvailHead(j)' # UsedHead(k)'
    <3>1. CASE OnUsed(k)
      BY <1>1, <1>6, <1>8, <1>9, <2>2, <3>1 DEF RingsInv, UsedOK
    <3>2. CASE k = UsedIdx
      <4>1. UsedHead(k)' = h
        BY <1>9, <2>1, <2>2, <3>2
      <4> QED
        BY <1>1, <1>6, <1>8, <1>11, <4>1 DEF RingsInv, AvailOK
    <3> QED
      BY <1>8, <2>2, <3>1, <3>2
  <2>3. ASSUME NEW j \in Words, NEW k \in Words, OnUsed(j)', OnUsed(k)',
               UsedHead(j)' < Num, UsedHead(j)' = UsedHead(k)'
        PROVE  j = k
    <3>1. CASE OnUsed(j) /\ OnUsed(k)
      BY <1>9, <2>3, <3>1 DEF RingsInv, UsedOK
    <3>2. CASE OnUsed(j) /\ k = UsedIdx
      BY <1>9, <1>11, <2>1, <2>3, <3>2
    <3>3. CASE OnUsed(k) /\ j = UsedIdx
      BY <1>9, <1>11, <2>1, <2>3, <3>3
    <3> QED
      BY <1>8, <2>3, <3>1, <3>2, <3>3
  <2>4. InGet' => Dist(last_used_idx, UsedIdx)' > 0 /\ head' \in Descs /\ head' \notin published'
    BY <1>1, <1>6, <1>10, RingFacts DEF RingsInv, UsedOK
  <2> QED
    BY <2>2, <2>3, <2>4 DEF UsedOK
<1>15. Counted'
  <2>1. Cardinality(dev') = Cardinality(dev) - 1
    BY <1>1, RingFacts, FS_RemoveElement
  <2> QED
    BY <1>1, <1>6, <1>10, <2>1, RingFacts DEF RingsInv, Counted
<1> QED
  BY <1>12, <1>13, <1>14, <1>15 DEF RingsInv

\* VirtQueue_Allocate: all indices zero, nothing carried.
LEMMA RingsInit == VQInit => RingsInv
<1> SUFFICES ASSUME VQInit PROVE RingsInv
  OBVIOUS
<1>1. Word \in Nat /\ 0 \in Words /\ 0 < Word
  BY DescAssumption DEF Words
<1>2. vr16(0) = 0
  BY SwapAssumption DEF vr16
<1>3. Avail = 0 /\ UsedIdx = 0 /\ seen = 0 /\ notified = 0 /\ last_used_idx = 0
  BY <1>2 DEF VQInit, Avail, UsedIdx
<1>4. Dist(0, 0) = 0 /\ \A k \in Words : Dist(0, k) \in Nat
  BY <1>1, Apart, DistIs
<1>5. \A k \in Words : ~OnAvail(k) /\ ~OnUsed(k)
  BY <1>3, <1>4 DEF OnAvail, OnUsed, Within
<1>6. pc = "idle" /\ ~InGet /\ published = {} /\ dev = {}
  BY DEF VQInit, Init, InGet
<1>7. RingsTypeOK
  BY <1>1, <1>6 DEF VQInit, RingsTypeOK
<1>8. AvailOK
  BY <1>3, <1>4, <1>5, <1>6 DEF AvailOK
<1>9. UsedOK
  BY <1>5, <1>6 DEF UsedOK
<1>10. Counted
  BY <1>3, <1>4, <1>6, FS_EmptySet DEF Counted
<1> QED
  BY <1>7, <1>8, <1>9, <1>10 DEF RingsInv

\* No step of the driver or the device breaks the rings.
LEMMA RingsStep == RingsInv /\ DescInv /\ [VQNext]_vqVars => RingsInv'
<1> SUFFICES ASSUME RingsInv, DescInv, [VQNext]_vqVars PROVE RingsInv'
  OBVIOUS
<1>1. CASE TableStep
  BY <1>1, TableRings
<1>2. CASE Publish
  BY <1>2, PublishRingRings, PublishIdxRings DEF Publish
<1>3. CASE Kick \/ StartDrain \/ GetEmpty \/ DeviceNotify \/ Acknowledge
  BY <1>3, CallerRings
<1>4. CASE GetUsed
  BY <1>4, GetUsedRings
<1>5. CASE GetEnd \/ GetBadId
  BY <1>5, GetEndRings
<1>6. CASE DeviceTake
  BY <1>6, DeviceTakeRings
<1>7. CASE \E h \in Descs : DeviceUse(h) \/ DeviceUseBad(h)
  <2>1. PICK h \in Descs : DeviceReport(h, h) \/ DeviceReport(h, Num)
    BY <1>7 DEF DeviceUse, DeviceUseBad
  <2> QED
    BY <2>1, DeviceReportRings
<1>8. CASE UNCHANGED vqVars
  <2>1. UNCHANGED <<dtVars, ringVars>>
    BY <1>8 DEF vqVars
  <2>2. UNCHANGED <<published, pc, head>>
    BY <2>1 DEF dtVars, locals
  <2>3. RingsTypeOK'
    BY <2>1, <2>2 DEF RingsInv, RingsTypeOK, ringVars, callers
  <2>4. InGet' <=> InGet
    BY <2>2 DEF InGet
  <2> QED
    BY <2>1, <2>2, <2>3, <2>4, Unmoved DEF ringVars
<1> QED
  BY <1>1, <1>2, <1>3, <1>4, <1>5, <1>6, <1>7, <1>8 DEF VQNext, Consume

\* Every step of the queue is a step of the descriptor table, or none: what
\* GetBuf takes off the used ring is a published head.
LEMMA TableSimulation == RingsInv /\ DescInv /\ [VQNext]_vqVars => [Next]_dtVars
<1> SUFFICES ASSUME RingsInv, DescInv, [VQNext]_vqVars PROVE [Next]_dtVars
  OBVIOUS
<1>1. CASE TableStep
  BY <1>1 DEF TableStep, Next, AddBuf, GetBuf
<1>2. CASE Publish
  BY <1>2 DEF Publish, PublishRing, PublishIdx, Next, AddBuf
<1>3. CASE Kick \/ StartDrain \/ GetEmpty \/ DeviceNotify \/ Acknowledge
  BY <1>3, CallerRings
<1>4. CASE GetUsed
  <2>1. UsedId \in published /\ GetBufTake(UsedId)
    BY <1>4, GetUsedRings DEF GetUsed
  <2> QED
    BY <2>1 DEF Next, GetBuf
<1>5. CASE GetEnd
  BY <1>5 DEF GetEnd, Next, GetBuf
<1>6. CASE GetBadId \/ DeviceTake
  BY <1>6 DEF GetBadId, DeviceTake
<1>7. CASE \E h \in Descs : DeviceUse(h) \/ DeviceUseBad(h)
  BY <1>7 DEF DeviceUse, DeviceUseBad, DeviceReport
<1>8. CASE UNCHANGED vqVars
  BY <1>8 DEF vqVars
<1> QED
  BY <1>1, <1>2, <1>3, <1>4, <1>5, <1>6, <1>7, <1>8 DEF VQNext, Consume

-----------------------------------------------------------------------------
(* Theorems *)

\* The descriptor table and the rings stay well formed together, for every
\* queue size, index width, byte order, set of request shapes, and a device
\* that may poll, reorder completions and return ids out of range.
THEOREM VQInvariant == VQSpec => [](DescInv /\ RingsInv)
<1>1. VQInit => DescInv /\ RingsInv
  BY InitInv, RingsInit DEF VQInit
<1>2. DescInv /\ RingsInv /\ [VQNext]_vqVars => (DescInv /\ RingsInv)'
  <2> SUFFICES ASSUME DescInv, RingsInv, [VQNext]_vqVars PROVE DescInv' /\ RingsInv'
    OBVIOUS
  <2>1. DescInv'
    BY TableSimulation, NextInv
  <2>2. RingsInv'
    BY RingsStep
  <2> QED
    BY <2>1, <2>2
<1> QED
  BY <1>1, <1>2, PTL DEF VQSpec

\* virtqueue.c with its rings uses the descriptor table the way module
\* DescTable assumes: GetBuf is handed published heads only, each once.
THEOREM RefinesDescTable == VQSpec => ImplementsDescTable
<1>1. VQInit => Init
  BY DEF VQInit
<1>2. DescInv /\ RingsInv /\ [VQNext]_vqVars => [Next]_dtVars
  BY TableSimulation
<1> QED
  BY <1>1, <1>2, VQInvariant, PTL DEF VQSpec, ImplementsDescTable, Spec

\* So the whole of virtqueue.c keeps its free list, its published chains and
\* its descriptors, whatever the device does.
THEOREM VQTableSafe == VQSpec => [](TypeOK /\ FreeListIntact /\ ChainsIntact /\ NothingLeaks)
  BY RefinesDescTable, TypeCorrect, FreeListSafe, ChainsSafe, NoLeak, PTL DEF ImplementsDescTable


-----------------------------------------------------------------------------
(* Slices of a ring *)

\* The heads in a ring from index a up to b.
Slice(ring, a, b) == {vr16(ring[RingPos(k)]) : k \in {x \in Words : Within(a, x, b)}}

\* An id as GetBuf judges it.
Judged(id) == IF id < Num THEN id ELSE NULL

\* The ids in a ring from index a up to b, in order.
Reports(ring, a, b) ==
  [i \in 1 .. Dist(a, b) |-> Judged(vr16(ring[RingPos((a + (i - 1)) % Word)]))]

\* Counting j entries on from index a.
LEMMA AtIs ==
  ASSUME NEW a \in Words, NEW j \in 0 .. Word - 1
  PROVE  /\ (a + j) % Word = IF a + j < Word THEN a + j ELSE (a + j) - Word
         /\ (a + j) % Word \in Words
         /\ Dist(a, (a + j) % Word) = j
<1>1. Word \in Nat /\ Word > 0 /\ a \in 0 .. Word - 1
  BY DescAssumption DEF Words
<1>2. (a + j) % Word = IF a + j < Word THEN a + j ELSE (a + j) - Word
  <2>1. CASE a + j < Word
    BY <1>1, <2>1
  <2>2. CASE ~(a + j < Word)
    <3>1. (a + j) - Word \in 0 .. Word - 1 /\ a + j = 1 * Word + ((a + j) - Word)
      BY <1>1, <2>2
    <3>2. (a + j) % Word = (a + j) - Word
      BY <1>1, <3>1
    <3> QED
      BY <2>2, <3>2
  <2> QED
    BY <2>1, <2>2
<1>3. (a + j) % Word \in Words
  BY <1>1, <1>2 DEF Words
<1>4. PICK k \in Words : k = (a + j) % Word
  BY <1>3
<1>5. Dist(a, k) = IF k >= a THEN k - a ELSE (k - a) + Word
  BY DistIs
<1>6. Dist(a, k) = j
  BY <1>1, <1>2, <1>4, <1>5
<1> QED
  BY <1>2, <1>3, <1>4, <1>6

\* An index is found by counting on from another.
LEMMA AtDist ==
  ASSUME NEW a \in Words, NEW k \in Words
  PROVE  (a + Dist(a, k)) % Word = k
<1>1. Word \in Nat /\ Word > 0 /\ a \in 0 .. Word - 1 /\ k \in 0 .. Word - 1
  BY DescAssumption DEF Words
<1>2. /\ Dist(a, k) = (IF k >= a THEN k - a ELSE (k - a) + Word)
      /\ Dist(a, k) \in 0 .. Word - 1
  BY DistIs
<1>3. PICK j \in 0 .. Word - 1 : j = Dist(a, k)
  BY <1>2
<1>4. (a + j) % Word = IF a + j < Word THEN a + j ELSE (a + j) - Word
  BY AtIs
<1>5. (a + j) % Word = k
  BY <1>1, <1>2, <1>3, <1>4
<1> QED
  BY <1>3, <1>5

\* Counting on from the next index.
LEMMA AtInc ==
  ASSUME NEW a \in Words, NEW j \in Nat, j + 1 < Word
  PROVE  (Inc(a) + j) % Word = (a + (j + 1)) % Word
<1>1. Word \in Nat /\ Word > 0 /\ a \in 0 .. Word - 1 /\ j \in 0 .. Word - 1 /\ j + 1 \in 0 .. Word - 1
  BY DescAssumption DEF Words
<1>2. Inc(a) \in Words /\ Inc(a) = IF a = Word - 1 THEN 0 ELSE a + 1
  BY IncIs
<1>3. (Inc(a) + j) % Word = IF Inc(a) + j < Word THEN Inc(a) + j ELSE (Inc(a) + j) - Word
  BY <1>1, <1>2, AtIs
<1>4. PICK m \in 0 .. Word - 1 : m = j + 1
  BY <1>1
<1>5. (a + m) % Word = IF a + m < Word THEN a + m ELSE (a + m) - Word
  BY AtIs
<1>6. (Inc(a) + j) % Word = (a + m) % Word
  BY <1>1, <1>2, <1>3, <1>4, <1>5
<1> QED
  BY <1>4, <1>6

\* The entries of Between are those of the slice.
LEMMA BetweenSet ==
  ASSUME NEW ring \in [Descs -> Words], NEW a \in Words, NEW b \in Words
  PROVE  Entries(Between(ring, a, b)) = Slice(ring, a, b)
<1>1. Word \in Nat /\ a \in Int /\ Dist(a, b) \in 0 .. Word - 1
  BY DescAssumption, DistIs DEF Words
<1>2. /\ DOMAIN Between(ring, a, b) = 1 .. Dist(a, b)
      /\ \A i \in 1 .. Dist(a, b) :
           Between(ring, a, b)[i] = vr16(ring[RingPos((a + (i - 1)) % Word)])
  <2>1. Between(ring, a, b) = [i \in 1 .. Dist(a, b) |-> vr16(ring[RingPos((a + i - 1) % Word)])]
    BY DEF Between, Dist
  <2>2. \A i \in 1 .. Dist(a, b) : a + i - 1 = a + (i - 1)
    BY <1>1
  <2> QED
    BY <2>1, <2>2
<1>3. ASSUME NEW i \in 1 .. Dist(a, b)
      PROVE  \E k \in Words : Within(a, k, b) /\ k = (a + (i - 1)) % Word
  <2>1. PICK j \in 0 .. Word - 1 : j = i - 1
    BY <1>1
  <2>2. (a + j) % Word \in Words /\ Dist(a, (a + j) % Word) = j
    BY AtIs
  <2>3. j < Dist(a, b)
    BY <1>1, <2>1
  <2> QED
    BY <2>1, <2>2, <2>3 DEF Within
<1>4. ASSUME NEW k \in Words, Within(a, k, b)
      PROVE  \E i \in 1 .. Dist(a, b) : k = (a + (i - 1)) % Word
  <2>1. Dist(a, k) \in Nat /\ Dist(a, k) < Dist(a, b)
    BY <1>4, Apart DEF Within
  <2>2. PICK i \in 1 .. Dist(a, b) : i - 1 = Dist(a, k)
    <3>1. Dist(a, k) + 1 \in 1 .. Dist(a, b) /\ (Dist(a, k) + 1) - 1 = Dist(a, k)
      BY <1>1, <2>1
    <3> QED
      BY <3>1
  <2> QED
    BY <2>2, AtDist
<1>5. ASSUME NEW x \in Entries(Between(ring, a, b)) PROVE x \in Slice(ring, a, b)
  <2>1. PICK i \in 1 .. Dist(a, b) : x = vr16(ring[RingPos((a + (i - 1)) % Word)])
    BY <1>2 DEF Entries
  <2> QED
    BY <1>3, <2>1 DEF Slice
<1>6. ASSUME NEW x \in Slice(ring, a, b) PROVE x \in Entries(Between(ring, a, b))
  <2>1. PICK k \in Words : Within(a, k, b) /\ x = vr16(ring[RingPos(k)])
    BY DEF Slice
  <2> QED
    BY <1>2, <1>4, <2>1 DEF Entries
<1> QED
  BY <1>5, <1>6

\* A slice of nothing.
LEMMA SliceEmpty == \A ring : \A a \in Words : Slice(ring, a, a) = {}
<1> SUFFICES ASSUME NEW ring, NEW a \in Words PROVE Slice(ring, a, a) = {}
  OBVIOUS
<1>1. Word \in Nat /\ a \in Int
  BY DescAssumption DEF Words
<1>2. Dist(a, a) = 0
  BY <1>1, DistIs
<1>3. \A x \in Words : ~Within(a, x, a)
  BY <1>2, Apart DEF Within
<1> QED
  BY <1>3 DEF Slice

\* A slice takes in the entry its end steps over.
LEMMA SlicePush ==
  ASSUME NEW ring, NEW a \in Words, NEW b \in Words, Dist(a, b) + 1 < Word
  PROVE  Slice(ring, a, Inc(b)) = Slice(ring, a, b) \cup {vr16(ring[RingPos(b)])}
  BY Push DEF Slice

\* And gives up the one its beginning steps over.
LEMMA SlicePop ==
  ASSUME NEW ring, NEW a \in Words, NEW b \in Words, Dist(a, b) > 0
  PROVE  Slice(ring, a, b) = Slice(ring, Inc(a), b) \cup {vr16(ring[RingPos(a)])}
  BY Pop DEF Slice

\* A slice is cut at any index inside it.
LEMMA SliceSplit ==
  ASSUME NEW ring, NEW a \in Words, NEW m \in Words, NEW b \in Words, Dist(a, m) <= Dist(a, b)
  PROVE  /\ Slice(ring, a, b) = Slice(ring, a, m) \cup Slice(ring, m, b)
         /\ Dist(m, b) <= Dist(a, b)
         /\ \A k \in Words : Within(m, k, b) => Within(a, k, b)
         /\ \A k \in Words : Within(a, k, m) => Within(a, k, b)
<1>1. Word \in Nat /\ a \in 0 .. Word - 1 /\ m \in 0 .. Word - 1 /\ b \in 0 .. Word - 1
  BY DescAssumption DEF Words
<1>2. /\ Dist(a, m) = IF m >= a THEN m - a ELSE (m - a) + Word
      /\ Dist(a, b) = IF b >= a THEN b - a ELSE (b - a) + Word
      /\ Dist(m, b) = IF b >= m THEN b - m ELSE (b - m) + Word
  BY DistIs
<1>3. Dist(m, b) <= Dist(a, b)
  BY <1>1, <1>2
<1>4. ASSUME NEW k \in Words
      PROVE  Within(a, k, b) <=> Within(a, k, m) \/ Within(m, k, b)
  <2>1. /\ k \in 0 .. Word - 1
        /\ Dist(a, k) = IF k >= a THEN k - a ELSE (k - a) + Word
        /\ Dist(m, k) = IF k >= m THEN k - m ELSE (k - m) + Word
    BY DistIs DEF Words
  <2> QED
    BY <1>1, <1>2, <2>1 DEF Within
<1> QED
  BY <1>3, <1>4 DEF Slice

\* A slice depends on its own entries only.
LEMMA SliceSame ==
  ASSUME NEW r, NEW s, NEW a, NEW b,
         \A k \in Words : Within(a, k, b) => r[RingPos(k)] = s[RingPos(k)]
  PROVE  Slice(r, a, b) = Slice(s, a, b)
  BY DEF Slice

\* The reports are a sequence of heads and refused ids.
LEMMA ReportsSeq ==
  ASSUME NEW ring \in [Descs -> Words], NEW a \in Words, NEW b \in Words
  PROVE  /\ Reports(ring, a, b) \in Seq(Descs \cup {NULL})
         /\ Len(Reports(ring, a, b)) = Dist(a, b)
<1>1. Dist(a, b) \in Nat /\ Word \in Nat /\ Dist(a, b) < Word /\ Num \in Nat
  BY DescAssumption, DistIs, Apart
<1>2. ASSUME NEW i \in 1 .. Dist(a, b)
      PROVE  Judged(vr16(ring[RingPos((a + (i - 1)) % Word)])) \in Descs \cup {NULL}
  <2>1. PICK j \in 0 .. Word - 1 : j = i - 1
    BY <1>1
  <2>2. (a + j) % Word \in Words
    BY AtIs
  <2>3. vr16(ring[RingPos((a + j) % Word)]) \in Words
    BY <2>2, RingPosIs, SwapTwice
  <2> QED
    BY <1>1, <2>1, <2>3 DEF Judged, Words, Descs
<1>3. Reports(ring, a, b) \in [1 .. Dist(a, b) -> Descs \cup {NULL}]
  BY <1>2 DEF Reports
<1>4. Reports(ring, a, b) \in Seq(Descs \cup {NULL})
  BY <1>1, <1>3, SeqDef
<1>5. DOMAIN Reports(ring, a, b) = 1 .. Dist(a, b)
  BY DEF Reports
<1> QED
  BY <1>1, <1>4, <1>5, LenProperties

\* The first report, and the others once last_used_idx has stepped over it.
LEMMA ReportsPop ==
  ASSUME NEW ring \in [Descs -> Words], NEW a \in Words, NEW b \in Words, Dist(a, b) > 0
  PROVE  /\ Reports(ring, a, b) # << >>
         /\ Head(Reports(ring, a, b)) = Judged(vr16(ring[RingPos(a)]))
         /\ Tail(Reports(ring, a, b)) = Reports(ring, Inc(a), b)
<1>1. Dist(a, b) \in Nat /\ Word \in Nat /\ Dist(a, b) < Word
  BY DescAssumption, DistIs, Apart
<1>2. Inc(a) \in Words /\ Dist(Inc(a), b) = Dist(a, b) - 1
  BY Pop
<1>3. PICK s \in Seq(Descs \cup {NULL}) : s = Reports(ring, a, b) /\ Len(s) = Dist(a, b)
  BY ReportsSeq
<1>4. PICK t \in Seq(Descs \cup {NULL}) : t = Reports(ring, Inc(a), b) /\ Len(t) = Dist(a, b) - 1
  BY <1>2, ReportsSeq
<1>5. s # << >>
  BY <1>1, <1>3, EmptySeq
<1>6. Head(s) = Judged(vr16(ring[RingPos(a)]))
  <2>1. s[1] = Judged(vr16(ring[RingPos((a + (1 - 1)) % Word)]))
    BY <1>1, <1>3 DEF Reports
  <2>2. (a + (1 - 1)) % Word = a
    <3>1. 0 \in 0 .. Word - 1 /\ a \in 0 .. Word - 1 /\ 1 - 1 = 0
      BY <1>1 DEF Words
    <3>2. a % Word = a /\ a + (1 - 1) = a
      BY <1>1, <3>1
    <3> QED
      BY <3>1, <3>2
  <2>3. Head(s) = s[1]
    BY <1>5
  <2> QED
    BY <2>1, <2>2, <2>3
<1>7. Tail(s) \in Seq(Descs \cup {NULL}) /\ Len(Tail(s)) = Len(t)
      /\ \A i \in 1 .. Len(t) : Tail(s)[i] = s[i + 1]
  BY <1>3, <1>4, <1>5, HeadTailProperties
<1>8. ASSUME NEW i \in 1 .. Len(t) PROVE s[i + 1] = t[i]
  <2>1. i + 1 \in 1 .. Dist(a, b) /\ i \in 1 .. Dist(Inc(a), b)
    BY <1>1, <1>2, <1>4
  <2>2. PICK j \in Nat : j = i - 1 /\ (i + 1) - 1 = j + 1 /\ j + 1 < Word
    <3>1. i - 1 \in Nat /\ (i + 1) - 1 = (i - 1) + 1 /\ (i - 1) + 1 < Word
      BY <1>1, <1>4
    <3> QED
      BY <3>1
  <2>3. s[i + 1] = Judged(vr16(ring[RingPos((a + ((i + 1) - 1)) % Word)]))
    BY <1>3, <2>1 DEF Reports
  <2>4. t[i] = Judged(vr16(ring[RingPos((Inc(a) + (i - 1)) % Word)]))
    BY <1>4, <2>1 DEF Reports
  <2>5. (Inc(a) + j) % Word = (a + (j + 1)) % Word
    BY <2>2, AtInc
  <2> QED
    BY <2>2, <2>3, <2>4, <2>5
<1>9. Tail(s) = t
  <2>1. \A i \in 1 .. Len(Tail(s)) : Tail(s)[i] = t[i]
    BY <1>7, <1>8
  <2> QED
    BY <1>7, <2>1, SeqEqual
<1> QED
  BY <1>3, <1>4, <1>5, <1>6, <1>9

\* A report is appended.
LEMMA ReportsPush ==
  ASSUME NEW ring \in [Descs -> Words], NEW new \in [Descs -> Words],
         NEW a \in Words, NEW b \in Words, Dist(a, b) + 1 < Word,
         \A k \in Words : Within(a, k, b) => new[RingPos(k)] = ring[RingPos(k)]
  PROVE  Reports(new, a, Inc(b)) = Append(Reports(ring, a, b), Judged(vr16(new[RingPos(b)])))
<1>1. Dist(a, b) \in Nat /\ Word \in Nat
  BY DescAssumption, Apart
<1>2. Inc(b) \in Words /\ Dist(a, Inc(b)) = Dist(a, b) + 1
  BY Push
<1>3. PICK s \in Seq(Descs \cup {NULL}) : s = Reports(ring, a, b) /\ Len(s) = Dist(a, b)
  BY ReportsSeq
<1>4. PICK t \in Seq(Descs \cup {NULL}) : t = Reports(new, a, Inc(b)) /\ Len(t) = Dist(a, b) + 1
  <2>1. /\ Reports(new, a, Inc(b)) \in Seq(Descs \cup {NULL})
        /\ Len(Reports(new, a, Inc(b))) = Dist(a, Inc(b))
    <3>1. PICK c \in Words : c = Inc(b)
      BY <1>2
    <3>2. /\ Reports(new, a, c) \in Seq(Descs \cup {NULL})
          /\ Len(Reports(new, a, c)) = Dist(a, c)
      BY ReportsSeq
    <3> QED
      BY <3>1, <3>2
  <2> QED
    BY <1>2, <2>1
<1>5. PICK e \in Descs \cup {NULL} : e = Judged(vr16(new[RingPos(b)]))
  <2>1. PICK x \in Words : x = vr16(new[RingPos(b)])
    BY RingPosIs, SwapTwice
  <2>2. Judged(x) \in Descs \cup {NULL}
    BY DescAssumption DEF Judged, Words, Descs
  <2> QED
    BY <2>1, <2>2
<1>6. /\ Append(s, e) \in Seq(Descs \cup {NULL}) /\ Len(Append(s, e)) = Len(t)
      /\ \A i \in 1 .. Len(s) : Append(s, e)[i] = s[i]
      /\ Append(s, e)[Len(s) + 1] = e
  BY <1>3, <1>4, AppendProperties
<1>7. ASSUME NEW i \in 1 .. Len(s) PROVE t[i] = s[i]
  <2>1. i \in 1 .. Dist(a, b) /\ i \in 1 .. Dist(a, Inc(b))
    BY <1>1, <1>2, <1>3
  <2>2. t[i] = Judged(vr16(new[RingPos((a + (i - 1)) % Word)]))
        /\ s[i] = Judged(vr16(ring[RingPos((a + (i - 1)) % Word)]))
    BY <1>3, <1>4, <2>1 DEF Reports
  <2>3. PICK j \in 0 .. Word - 1 : j = i - 1 /\ j < Dist(a, b)
    BY <1>1, <2>1
  <2>4. (a + j) % Word \in Words /\ Dist(a, (a + j) % Word) = j
    BY AtIs
  <2>5. Within(a, (a + (i - 1)) % Word, b) /\ (a + (i - 1)) % Word \in Words
    BY <2>3, <2>4 DEF Within
  <2> QED
    BY <2>2, <2>5
<1>8. t[Len(s) + 1] = e
  <2>1. Len(s) + 1 \in 1 .. Dist(a, Inc(b)) /\ (Len(s) + 1) - 1 = Dist(a, b)
    BY <1>1, <1>2, <1>3
  <2>2. t[Len(s) + 1] = Judged(vr16(new[RingPos((a + ((Len(s) + 1) - 1)) % Word)]))
    BY <1>4, <2>1 DEF Reports
  <2>3. (a + Dist(a, b)) % Word = b
    BY AtDist
  <2> QED
    BY <1>5, <2>1, <2>2, <2>3
<1>9. \A i \in 1 .. Len(Append(s, e)) : Append(s, e)[i] = t[i]
  BY <1>1, <1>3, <1>4, <1>6, <1>7, <1>8
<1>10. Append(s, e) = t
  BY <1>4, <1>6, <1>9, SeqEqual
<1> QED
  BY <1>3, <1>4, <1>5, <1>10

-----------------------------------------------------------------------------
(* The cookies *)

\* vq->cookies holds a cookie under the heads in use and nowhere else; GetBuf
\* is at the entry whose head it took.
CookiesOK ==
  /\ \A h \in Descs : h \notin Held => cookies[h] = NULL
  /\ pc \in {"ring", "idx"} => cookies[head] = cookie
  /\ InGet => UsedHead(last_used_idx) = head

QueueInv == DescInv /\ RingsInv /\ CookiesOK

\* The steps of the descriptor table keep the cookies.
LEMMA TableCookies ==
  ASSUME QueueInv, TableStep
  PROVE  CookiesOK'
<1>1. UNCHANGED <<published, used_ring, last_used_idx>> /\ \A k : UsedHead(k)' = UsedHead(k)
  BY DEF TableStep, ringVars, UsedHead, AddBufEnter, AddBufTable, AddBufNoTable, AddBufDirect,
         GetBufFree
<1>2. UsedHead(last_used_idx)' = UsedHead(last_used_idx)
  BY <1>1 DEF UsedHead
<1>3. cookies \in [Descs -> Cookies \cup {NULL}] /\ CookiesOK
  BY DEF QueueInv, DescInv, TypeOK
<1>4. CASE (\E c \in Cookies, s \in Shapes : AddBufEnter(c, s[1], s[2])) \/ AddBufNoTable
  <2>1. cookies' = cookies /\ pc \in {"idle", "table"} /\ pc' \in {"idle", "table", "direct"}
    BY <1>4 DEF AddBufEnter, AddBufNoTable, Return
  <2> QED
    BY <1>1, <1>3, <2>1 DEF CookiesOK, Held, InGet
<1>5. CASE AddBufTable
  <2>1. /\ pc = "table" /\ pc' = "ring" /\ UNCHANGED <<head, cookie>>
        /\ cookies' = [cookies EXCEPT ![head] = cookie] /\ head \in Descs
    <3>1. pc = "table" /\ pc' = "ring" /\ UNCHANGED <<head, cookie>>
          /\ cookies' = [cookies EXCEPT ![head] = cookie]
      BY <1>5 DEF AddBufTable, locals
    <3>2. num_free >= 1 /\ head = free_head /\ freed = 0 /\ num_free \in Nat
      BY <3>1 DEF QueueInv, DescInv, CallState, TypeOK
    <3>3. FreeCount > 0 /\ Top = free_head
      BY <3>1, <3>2 DEF FreeCount, Top
    <3> QED
      BY <3>1, <3>2, <3>3 DEF QueueInv, DescInv, FreeListIntact, ThreadsFree
  <2> QED
    BY <1>1, <1>3, <2>1 DEF CookiesOK, Held, InGet
<1>6. CASE AddBufDirect
  <2>1. pc = "direct" /\ UNCHANGED <<head, cookie>> /\ head \in Descs
    BY <1>6 DEF AddBufDirect, QueueInv, DescInv, CallState
  <2>2. CASE cookies' = cookies /\ pc' = pc
    BY <1>1, <1>3, <2>1, <2>2 DEF CookiesOK, Held, InGet
  <2>3. CASE cookies' = [cookies EXCEPT ![head] = cookie] /\ pc' = "ring"
    BY <1>1, <1>3, <2>1, <2>3 DEF CookiesOK, Held, InGet
  <2> QED
    BY <1>6, <2>2, <2>3 DEF AddBufDirect
<1>7. CASE GetBufFree
  <2>1. pc = "free" /\ pc' \in {"free", "done"} /\ UNCHANGED <<head, cookies>>
    BY <1>7 DEF GetBufFree
  <2> QED
    BY <1>1, <1>2, <1>3, <2>1 DEF CookiesOK, Held, InGet
<1> QED
  BY <1>4, <1>5, <1>6, <1>7 DEF TableStep

\* The steps that publish a head keep them.
LEMMA PublishCookies ==
  ASSUME QueueInv, Publish
  PROVE  CookiesOK'
<1>1. CookiesOK /\ cookies' = cookies
  BY DEF QueueInv, Publish, PublishRing, PublishIdx, AddBufRing, AddBufIdx
<1>2. CASE PublishRing
  <2>1. pc = "ring" /\ pc' = "idx" /\ UNCHANGED <<head, cookie, published>>
    BY <1>2 DEF PublishRing, AddBufRing, locals
  <2> QED
    BY <1>1, <2>1 DEF CookiesOK, Held, InGet
<1>3. CASE PublishIdx
  <2>1. pc = "idx" /\ pc' = "idle" /\ published' = published \cup {head}
    BY <1>3 DEF PublishIdx, AddBufIdx, Return
  <2> QED
    BY <1>1, <2>1 DEF CookiesOK, Held, InGet
<1> QED
  BY <1>2, <1>3 DEF Publish

\* GetBuf takes the cookie out.
LEMMA GetCookies ==
  ASSUME QueueInv, GetUsed \/ GetEnd
  PROVE  CookiesOK'
<1>1. CookiesOK /\ cookies \in [Descs -> Cookies \cup {NULL}]
  BY DEF QueueInv, DescInv, TypeOK
<1>2. CASE GetUsed
  <2>1. /\ pc = "idle" /\ pc' \in {"free", "done"} /\ head' = UsedId
        /\ published' = published \ {UsedId} /\ UNCHANGED <<used_ring, last_used_idx>>
        /\ cookies' = [cookies EXCEPT ![UsedId] = NULL]
    BY <1>2 DEF GetUsed, GetBufTake, ringVars
  <2>2. UsedHead(last_used_idx)' = UsedId
    BY <2>1 DEF UsedHead, UsedId
  <2> QED
    BY <1>1, <2>1, <2>2 DEF CookiesOK, Held, InGet
<1>3. CASE GetEnd
  <2>1. pc = "done" /\ pc' = "idle" /\ UNCHANGED <<cookies, published>>
    BY <1>3 DEF GetEnd, GetBufDone, Return
  <2> QED
    BY <1>1, <2>1 DEF CookiesOK, Held, InGet
<1> QED
  BY <1>2, <1>3

\* The other steps leave the table alone, and the used entry GetBuf is at.
LEMMA OtherCookies ==
  ASSUME QueueInv, UNCHANGED dtVars,
         InGet => UsedHead(last_used_idx)' = UsedHead(last_used_idx)
  PROVE  CookiesOK'
<1>1. UNCHANGED <<cookies, published, pc, head, cookie>>
  BY DEF dtVars, locals
<1> QED
  BY <1>1 DEF QueueInv, CookiesOK, Held, InGet

\* The device writes no used entry GetBuf is at.
LEMMA DeviceReportCookies ==
  ASSUME QueueInv, NEW h, NEW id, DeviceReport(h, id)
  PROVE  CookiesOK'
<1>1. /\ h \in dev /\ UNCHANGED dtVars /\ last_used_idx' = last_used_idx
      /\ used_ring' = [used_ring EXCEPT ![RingPos(UsedIdx)] = vr16(id)]
  BY DEF DeviceReport, UsedIdx
<1>2. ASSUME InGet PROVE UsedHead(last_used_idx)' = UsedHead(last_used_idx)
  <2>1. last_used_idx \in Words /\ UsedIdx \in Words
    BY RingFacts DEF QueueInv, RingsInv, RingsTypeOK
  <2>2. Dist(last_used_idx, UsedIdx) < Num /\ Dist(last_used_idx, UsedIdx) > 0
    BY <1>1, <1>2, UsedRoom DEF QueueInv, RingsInv, UsedOK
  <2>3. RingPos(last_used_idx) # RingPos(UsedIdx) /\ RingPos(last_used_idx) \in Descs
    BY <2>1, <2>2, Pop, Fresh, RingPosIs
  <2> QED
    BY <1>1, <2>3 DEF UsedHead, QueueInv, RingsInv, RingsTypeOK
<1> QED
  BY <1>1, <1>2, OtherCookies

\* Every step keeps the cookies.
LEMMA CookiesStep == QueueInv /\ [VQNext]_vqVars => CookiesOK'
<1> SUFFICES ASSUME QueueInv, [VQNext]_vqVars PROVE CookiesOK'
  OBVIOUS
<1>1. CASE TableStep
  BY <1>1, TableCookies
<1>2. CASE Publish
  BY <1>2, PublishCookies
<1>3. CASE GetUsed \/ GetEnd
  BY <1>3, GetCookies
<1>4. CASE GetBadId
  <2>1. UNCHANGED dtVars /\ ~InGet
    BY <1>4 DEF GetBadId, InGet
  <2> QED
    BY <2>1, OtherCookies
<1>5. CASE Kick \/ StartDrain \/ GetEmpty \/ DeviceNotify \/ Acknowledge \/ DeviceTake
           \/ UNCHANGED vqVars
  <2>1. UNCHANGED <<dtVars, used_ring, last_used_idx>>
    BY <1>5 DEF Kick, StartDrain, GetEmpty, DeviceNotify, Acknowledge, DeviceTake, vqVars, ringVars
  <2>2. UsedHead(last_used_idx)' = UsedHead(last_used_idx)
    BY <2>1 DEF UsedHead
  <2> QED
    BY <2>1, <2>2, OtherCookies
<1>6. CASE \E h \in Descs : DeviceUse(h) \/ DeviceUseBad(h)
  <2>1. PICK h \in Descs : DeviceReport(h, h) \/ DeviceReport(h, Num)
    BY <1>6 DEF DeviceUse, DeviceUseBad
  <2> QED
    BY <2>1, DeviceReportCookies
<1> QED
  BY <1>1, <1>2, <1>3, <1>4, <1>5, <1>6 DEF VQNext, Consume

\* The invariant of the refinement.
LEMMA QueueInvariant == VQSpec => []QueueInv
<1>1. VQInit => CookiesOK
  BY DEF VQInit, Init, CookiesOK, Held, InGet
<1>2. VQInit => QueueInv
  BY <1>1, InitInv, RingsInit DEF VQInit, QueueInv
<1>3. QueueInv /\ [VQNext]_vqVars => QueueInv'
  <2> SUFFICES ASSUME QueueInv, [VQNext]_vqVars PROVE QueueInv'
    OBVIOUS
  <2>1. DescInv /\ RingsInv
    BY DEF QueueInv
  <2>2. DescInv'
    BY <2>1, TableSimulation, NextInv
  <2>3. RingsInv'
    BY <2>1, RingsStep
  <2>4. CookiesOK'
    BY CookiesStep
  <2> QED
    BY <2>2, <2>3, <2>4 DEF QueueInv
<1> QED
  BY <1>2, <1>3, PTL DEF VQSpec

-----------------------------------------------------------------------------
(* The refinement mapping *)

PostedBar == Entries(Between(avail_ring, notified, vr16(avail_idx)))
DevBar == dev \cup Entries(Between(avail_ring, seen, notified))
UsedBar == [i \in DOMAIN Used |-> IF Used[i] < Num THEN Used[i] ELSE NULL]

\* The mapping in terms of slices.
LEMMA Bars ==
  RingsInv => /\ PostedBar = Slice(avail_ring, notified, Avail)
              /\ DevBar = dev \cup Slice(avail_ring, seen, notified)
              /\ UsedBar = Reports(used_ring, last_used_idx, UsedIdx)
<1> SUFFICES ASSUME RingsInv
             PROVE  /\ PostedBar = Slice(avail_ring, notified, Avail)
                    /\ DevBar = dev \cup Slice(avail_ring, seen, notified)
                    /\ UsedBar = Reports(used_ring, last_used_idx, UsedIdx)
  OBVIOUS
<1>1. /\ avail_ring \in [Descs -> Words] /\ used_ring \in [Descs -> Words]
      /\ notified \in Words /\ seen \in Words /\ last_used_idx \in Words
      /\ Avail \in Words /\ UsedIdx \in Words
  BY SwapTwice DEF RingsInv, RingsTypeOK, Avail, UsedIdx
<1>2. PostedBar = Slice(avail_ring, notified, Avail)
  BY <1>1, BetweenSet DEF PostedBar, Avail
<1>3. DevBar = dev \cup Slice(avail_ring, seen, notified)
  BY <1>1, BetweenSet DEF DevBar
<1>4. UsedBar = Reports(used_ring, last_used_idx, UsedIdx)
  <2>1. Dist(last_used_idx, UsedIdx) \in Nat /\ last_used_idx \in Int
    BY <1>1, Apart DEF Words
  <2>2. Used = [i \in 1 .. Dist(last_used_idx, UsedIdx)
                  |-> vr16(used_ring[RingPos((last_used_idx + i - 1) % Word)])]
    BY DEF Used, Between, Dist, UsedIdx
  <2>3. \A i \in 1 .. Dist(last_used_idx, UsedIdx) :
          last_used_idx + i - 1 = last_used_idx + (i - 1)
    BY <2>1
  <2>4. /\ DOMAIN Used = 1 .. Dist(last_used_idx, UsedIdx)
        /\ \A i \in 1 .. Dist(last_used_idx, UsedIdx) :
             Used[i] = vr16(used_ring[RingPos((last_used_idx + (i - 1)) % Word)])
    BY <2>2, <2>3
  <2> QED
    BY <2>4 DEF UsedBar, Reports, Judged
<1> QED
  BY <1>2, <1>3, <1>4

\* The same after a step.
LEMMA BarsNext ==
  RingsInv' => /\ PostedBar' = Slice(avail_ring', notified', Avail')
               /\ DevBar' = dev' \cup Slice(avail_ring', seen', notified')
               /\ UsedBar' = Reports(used_ring', last_used_idx', UsedIdx')
<1>1. (RingsInv => /\ PostedBar = Slice(avail_ring, notified, Avail)
                   /\ DevBar = dev \cup Slice(avail_ring, seen, notified)
                   /\ UsedBar = Reports(used_ring, last_used_idx, UsedIdx))'
  BY Bars, PTL
<1> QED
  BY <1>1 DEF Slice, Reports, Judged, vr16, RingPos, Within, Dist

\* A step the abstract ring does not see.
LEMMA Hidden ==
  ASSUME UNCHANGED <<RingCookies, PostedBar, DevBar, UsedBar>>,
         UNCHANGED <<last_used_idx, used_event, signalled_used, isr>>
  PROVE  UNCHANGED Ring!ringVars
  BY DEF Ring!ringVars, PostedBar, DevBar, UsedBar

\* What the mapping shows of the rings depends on the rings alone.
LEMMA RingsFixed ==
  ASSUME UNCHANGED <<avail_idx, avail_ring, used_idx, used_ring, last_used_idx, seen, notified,
                     dev>>
  PROVE  UNCHANGED <<PostedBar, DevBar, UsedBar>>
  BY DEF PostedBar, DevBar, UsedBar, Used, Between, Entries

\* Outside AddBuf's last stores and GetBuf the cookies are those of the table.
LEMMA CookiesFixed ==
  ASSUME UNCHANGED dtVars PROVE RingCookies' = RingCookies
  BY DEF dtVars, locals, RingCookies

-----------------------------------------------------------------------------
(* Step simulation *)

\* The work on descriptors is hidden: a cookie under a head that is not yet
\* published, or whose used entry is not yet stepped over, is not moved.
LEMMA TableHidden ==
  ASSUME QueueInv, TableStep
  PROVE  UNCHANGED Ring!ringVars
<1>1. UNCHANGED <<PostedBar, DevBar, UsedBar, last_used_idx, used_event, signalled_used, isr>>
  BY RingsFixed DEF TableStep, ringVars
<1>2. cookies \in [Descs -> Cookies \cup {NULL}] /\ CookiesOK
  BY DEF QueueInv, DescInv, TypeOK
<1>3. RingCookies' = RingCookies
  <2>1. CASE (\E c \in Cookies, s \in Shapes : AddBufEnter(c, s[1], s[2])) \/ AddBufNoTable
    <3>1. cookies' = cookies /\ pc \in {"idle", "table"} /\ pc' \in {"idle", "table", "direct"}
      BY <2>1 DEF AddBufEnter, AddBufNoTable, Return
    <3> QED
      BY <3>1 DEF RingCookies
  <2>2. CASE AddBufTable \/ AddBufDirect
    <3>1. pc \in {"table", "direct"} /\ head' = head
          /\ \/ cookies' = cookies /\ pc' = pc
             \/ cookies' = [cookies EXCEPT ![head] = cookie] /\ pc' = "ring"
      BY <2>2 DEF AddBufTable, AddBufDirect, locals
    <3>2. head \in Descs => cookies[head] = NULL
      <4>1. head \notin published \/ head \notin Descs
        <5>1. CASE pc = "direct"
          BY <5>1 DEF QueueInv, DescInv, CallState
        <5>2. CASE pc = "table"
          <6>1. num_free >= 1 /\ head = free_head /\ freed = 0 /\ num_free \in Nat
            BY <5>2 DEF QueueInv, DescInv, CallState, TypeOK
          <6>2. FreeCount > 0 /\ Top = head
            BY <5>2, <6>1 DEF FreeCount, Top
          <6>3. where[head] = NULL
            BY <6>2 DEF QueueInv, DescInv, FreeListIntact, ThreadsFree
          <6>4. \A h \in published : where[h] # NULL
            BY DescAssumption DEF QueueInv, DescInv, HeldChains, Held, TypeOK, Descs
          <6> QED
            BY <6>3, <6>4
        <5> QED
          BY <3>1, <5>1, <5>2
      <4> QED
        BY <1>2, <3>1, <4>1 DEF CookiesOK, Held
    <3>3. CASE cookies' = cookies /\ pc' = pc
      BY <3>1, <3>3 DEF RingCookies
    <3>4. CASE cookies' = [cookies EXCEPT ![head] = cookie] /\ pc' = "ring"
      <4>1. \A h \in Descs : RingCookies[h] = cookies[h]
        BY <3>1 DEF RingCookies
      <4>2. \A h \in Descs : RingCookies'[h] = IF h = head THEN NULL ELSE cookies'[h]
        BY <3>1, <3>4 DEF RingCookies
      <4>3. \A h \in Descs : RingCookies'[h] = RingCookies[h]
        BY <1>2, <3>2, <3>4, <4>1, <4>2
      <4> QED
        BY <4>3 DEF RingCookies
    <3> QED
      BY <3>1, <3>3, <3>4
  <2>3. CASE GetBufFree
    <3>1. pc = "free" /\ pc' \in {"free", "done"} /\ UNCHANGED <<head, cookies, cookie>>
      BY <2>3 DEF GetBufFree
    <3> QED
      BY <3>1 DEF RingCookies
  <2> QED
    BY <2>1, <2>2, <2>3 DEF TableStep
<1> QED
  BY <1>1, <1>3, Hidden

\* The store to avail->ring is hidden: it is behind avail->idx.
LEMMA PublishRingHidden ==
  ASSUME QueueInv, QueueInv', PublishRing
  PROVE  UNCHANGED Ring!ringVars
<1>1. /\ pc = "ring" /\ pc' = "idx" /\ UNCHANGED <<head, cookies, cookie>>
      /\ avail_ring' = [avail_ring EXCEPT ![RingPos(Avail)] = vr16(head)]
      /\ UNCHANGED <<avail_idx, used_event, used_idx, used_ring, last_used_idx,
                     seen, notified, dev, signalled_used, isr>>
  BY DEF PublishRing, AddBufRing, locals, AvailPos, Avail
<1>2. RingCookies' = RingCookies
  BY <1>1 DEF RingCookies
<1>3. Avail' = Avail /\ UsedIdx' = UsedIdx /\ RingsInv /\ RingsInv'
  BY <1>1 DEF Avail, UsedIdx, QueueInv
<1>4. Avail \in Words /\ seen \in Words /\ notified \in Words /\ avail_ring \in [Descs -> Words]
      /\ Dist(seen, notified) <= Dist(seen, Avail)
  BY RingFacts DEF QueueInv, RingsInv, RingsTypeOK, AvailOK
<1>5. Dist(seen, Avail) < Num
  <2>1. head \in Descs \ published /\ ~InGet
    BY <1>1 DEF QueueInv, DescInv, CallState, InGet
  <2> QED
    BY <2>1, RingFacts DEF QueueInv, RingsInv, Counted
<1>6. \A k \in Words : Within(seen, k, Avail) => avail_ring'[RingPos(k)] = avail_ring[RingPos(k)]
  <2>1. \A k \in Words : Within(seen, k, Avail) =>
          RingPos(k) # RingPos(Avail) /\ RingPos(k) \in Descs
    BY <1>4, <1>5, Fresh, RingPosIs
  <2> QED
    BY <1>1, <1>4, <2>1
<1>7. /\ \A k \in Words : Within(notified, k, Avail) => Within(seen, k, Avail)
      /\ \A k \in Words : Within(seen, k, notified) => Within(seen, k, Avail)
  BY <1>4, SliceSplit
<1>8. Slice(avail_ring', notified, Avail) = Slice(avail_ring, notified, Avail)
  BY <1>6, <1>7, SliceSame
<1>9. Slice(avail_ring', seen, notified) = Slice(avail_ring, seen, notified)
  BY <1>6, <1>7, SliceSame
<1>10. PostedBar' = PostedBar /\ DevBar' = DevBar
  BY <1>1, <1>3, <1>8, <1>9, Bars, BarsNext
<1>11. UsedBar' = UsedBar
  BY <1>1 DEF UsedBar, Used, Between
<1> QED
  BY <1>1, <1>2, <1>10, <1>11, Hidden

\* The store to avail->idx is AddBuf of the abstract ring.
LEMMA PublishIdxAdds ==
  ASSUME QueueInv, QueueInv', PublishIdx
  PROVE  Ring!AddBuf(head, cookie) /\ head \in Descs /\ cookie \in Cookies
<1>1. /\ pc = "idx" /\ pc' = "idle" /\ cookies' = cookies
      /\ avail_idx' = vr16(Inc(Avail))
      /\ UNCHANGED <<avail_ring, used_event, used_idx, used_ring, last_used_idx,
                     seen, notified, dev, signalled_used, isr>>
  BY DEF PublishIdx, AddBufIdx, Return, Avail
<1>2. head \in Descs /\ cookie \in Cookies /\ cookies[head] = cookie /\ head \notin published
  BY <1>1 DEF QueueInv, DescInv, CallState, TypeOK, CookiesOK
<1>3. RingCookies[head] = NULL /\ RingCookies' = [RingCookies EXCEPT ![head] = cookie]
  <2>1. \A h \in Descs : RingCookies[h] = IF h = head THEN NULL ELSE cookies[h]
    BY <1>1 DEF RingCookies
  <2>2. \A h \in Descs : RingCookies'[h] = cookies[h]
    BY <1>1 DEF RingCookies
  <2>3. DOMAIN RingCookies = Descs /\ RingCookies' = [h \in Descs |-> RingCookies'[h]]
        /\ RingCookies = [h \in Descs |-> RingCookies[h]]
    BY DEF RingCookies
  <2> QED
    BY <1>2, <2>1, <2>2, <2>3
<1>4. Avail \in Words /\ seen \in Words /\ notified \in Words /\ RingsInv /\ RingsInv'
      /\ Dist(seen, notified) <= Dist(seen, Avail)
  BY RingFacts DEF QueueInv, RingsInv, RingsTypeOK, AvailOK
<1>5. Dist(notified, Avail) + 1 < Word
  <2>1. ~InGet /\ head \in Descs \ published
    BY <1>1, <1>2 DEF InGet
  <2>2. Dist(seen, Avail) < Num /\ Num < Word /\ Num \in Nat /\ Word \in Nat
    BY <2>1, RingFacts DEF QueueInv, RingsInv, Counted
  <2>3. Dist(notified, Avail) <= Dist(seen, Avail) /\ Dist(notified, Avail) \in Nat
        /\ Dist(seen, Avail) \in Nat
    BY <1>4, SliceSplit, Apart
  <2> QED
    BY <2>2, <2>3
<1>6. Slice(avail_ring, notified, Inc(Avail))
        = Slice(avail_ring, notified, Avail) \cup {AvailHead(Avail)}
  BY <1>4, <1>5, SlicePush DEF AvailHead
<1>7. Avail' = Inc(Avail)
  <2>1. Inc(Avail) \in Words
    BY <1>4, IncIs
  <2> QED
    BY <1>1, <2>1, SwapTwice DEF Avail
<1>8. AvailHead(Avail) = head
  BY <1>1 DEF QueueInv, RingsInv, AvailOK
<1>9. PostedBar' = PostedBar \cup {head}
  BY <1>1, <1>4, <1>6, <1>7, <1>8, Bars, BarsNext
<1>10. DevBar' = DevBar /\ UsedBar' = UsedBar
  BY <1>1 DEF DevBar, UsedBar, Used, Between
<1> QED
  BY <1>1, <1>2, <1>3, <1>9, <1>10 DEF Ring!AddBuf, PostedBar, DevBar, UsedBar

\* VirtQueue_Kick is Kick of the abstract ring.
LEMMA KickKicks ==
  ASSUME QueueInv, QueueInv', Kick
  PROVE  Ring!Kick
<1>1. /\ notified' = Avail /\ UNCHANGED dtVars
      /\ UNCHANGED <<avail_idx, avail_ring, used_event, used_idx, used_ring, last_used_idx,
                     seen, dev, signalled_used, isr>>
  BY DEF Kick, Avail
<1>2. Avail \in Words /\ seen \in Words /\ notified \in Words /\ RingsInv /\ RingsInv'
      /\ Avail' = Avail /\ Dist(seen, notified) <= Dist(seen, Avail)
  BY <1>1, RingFacts DEF QueueInv, RingsInv, RingsTypeOK, AvailOK, Avail
<1>3. PostedBar' = {}
  BY <1>1, <1>2, BarsNext, SliceEmpty
<1>4. DevBar' = DevBar \cup PostedBar
  <2>1. Slice(avail_ring, seen, Avail)
          = Slice(avail_ring, seen, notified) \cup Slice(avail_ring, notified, Avail)
    BY <1>2, SliceSplit
  <2>2. DevBar' = dev \cup Slice(avail_ring, seen, Avail)
    BY <1>1, <1>2, BarsNext
  <2> QED
    BY <1>2, <2>1, <2>2, Bars
<1>5. UsedBar' = UsedBar /\ RingCookies' = RingCookies
  BY <1>1, CookiesFixed DEF UsedBar, Used, Between
<1> QED
  BY <1>1, <1>3, <1>4, <1>5 DEF Ring!Kick, PostedBar, DevBar, UsedBar

\* GetBuf's first part is hidden: the abstract ring keeps the cookie until the
\* used entry is stepped over.
LEMMA GetUsedHidden ==
  ASSUME QueueInv, GetUsed
  PROVE  UNCHANGED Ring!ringVars
<1>1. /\ pc = "idle" /\ pc' \in {"free", "done"} /\ head' = UsedId /\ cookie' = cookies[UsedId]
      /\ cookies' = [cookies EXCEPT ![UsedId] = NULL] /\ UNCHANGED ringVars
  BY DEF GetUsed, GetBufTake
<1>2. UNCHANGED <<PostedBar, DevBar, UsedBar, last_used_idx, used_event, signalled_used, isr>>
  BY <1>1, RingsFixed DEF ringVars
<1>3. RingCookies' = RingCookies
  <2>1. cookies \in [Descs -> Cookies \cup {NULL}]
    BY DEF QueueInv, DescInv, TypeOK
  <2>2. \A h \in Descs : RingCookies[h] = cookies[h]
    BY <1>1 DEF RingCookies
  <2>3. \A h \in Descs : RingCookies'[h] = IF h = UsedId THEN cookies[UsedId] ELSE cookies'[h]
    BY <1>1 DEF RingCookies
  <2>4. \A h \in Descs : RingCookies'[h] = RingCookies[h]
    BY <1>1, <2>1, <2>2, <2>3
  <2> QED
    BY <2>4 DEF RingCookies
<1> QED
  BY <1>2, <1>3, Hidden

\* The abstract counterpart of stepping over the first used entry.
LEMMA UsedStep ==
  ASSUME QueueInv, QueueInv', Dist(last_used_idx, UsedIdx) > 0,
         last_used_idx' = Inc(last_used_idx), UNCHANGED <<used_idx, used_ring>>
  PROVE  /\ UsedBar # << >>
         /\ Head(UsedBar) = Judged(UsedHead(last_used_idx))
         /\ UsedBar' = Tail(UsedBar)
<1>1. /\ used_ring \in [Descs -> Words] /\ last_used_idx \in Words /\ UsedIdx \in Words
      /\ RingsInv /\ RingsInv' /\ UsedIdx' = UsedIdx
  BY RingFacts DEF QueueInv, RingsInv, RingsTypeOK, UsedIdx
<1>2. UsedBar = Reports(used_ring, last_used_idx, UsedIdx)
      /\ UsedBar' = Reports(used_ring, Inc(last_used_idx), UsedIdx)
  BY <1>1, Bars, BarsNext
<1> QED
  BY <1>1, <1>2, ReportsPop DEF UsedHead

\* The end of GetBuf is GetBuf of the abstract ring: the cookie goes with the
\* oldest completion, and used_event asks for the next.
LEMMA GetEndGets ==
  ASSUME QueueInv, QueueInv', GetEnd
  PROVE  Ring!GetBuf
<1>1. /\ pc = "done" /\ pc' = "idle" /\ last_used_idx' = Inc(last_used_idx) /\ cookies' = cookies
      /\ used_event' = (IF UseEventIdx THEN vr16(Inc(last_used_idx)) ELSE used_event)
      /\ UNCHANGED <<avail_idx, avail_ring, used_idx, used_ring, seen, notified, dev,
                     signalled_used, isr>>
  BY DEF GetEnd, GetBufDone, Return, UsedEvent
<1>2. /\ InGet /\ Dist(last_used_idx, UsedIdx) > 0 /\ head \in Descs /\ head \notin published
      /\ UsedHead(last_used_idx) = head /\ last_used_idx \in Words
  BY <1>1 DEF InGet, QueueInv, RingsInv, RingsTypeOK, UsedOK, CookiesOK
<1>3. Judged(head) = head /\ head # NULL
  BY <1>2, DescAssumption DEF Judged, Descs
<1>4. UsedBar # << >> /\ Head(UsedBar) = head /\ UsedBar' = Tail(UsedBar)
  BY <1>1, <1>2, <1>3, UsedStep
<1>5. RingCookies' = [RingCookies EXCEPT ![head] = NULL]
  <2>1. cookies[head] = NULL
    BY <1>1, <1>2 DEF QueueInv, CookiesOK, Held
  <2>2. \A h \in Descs : h # head => RingCookies[h] = cookies[h]
    BY <1>1 DEF RingCookies
  <2>3. \A h \in Descs : RingCookies'[h] = cookies[h]
    BY <1>1 DEF RingCookies
  <2>4. DOMAIN RingCookies = Descs /\ RingCookies' = [h \in Descs |-> RingCookies'[h]]
        /\ RingCookies = [h \in Descs |-> RingCookies[h]]
    BY DEF RingCookies
  <2> QED
    BY <1>2, <2>1, <2>2, <2>3, <2>4
<1>6. vr16(used_event') = (IF UseEventIdx THEN Inc(last_used_idx) ELSE vr16(used_event))
  <2>1. Inc(last_used_idx) \in Words
    BY <1>2, IncIs
  <2> QED
    BY <1>1, <2>1, SwapTwice
<1>7. PostedBar' = PostedBar /\ DevBar' = DevBar
  BY <1>1 DEF PostedBar, DevBar, Between
<1>8. Ring!Inc(last_used_idx) = Inc(last_used_idx)
  BY DEF Ring!Inc, Inc
<1>9. vr16(used_event)' = vr16(used_event')
  BY DEF vr16
<1> QED
  BY <1>1, <1>3, <1>4, <1>5, <1>6, <1>7, <1>8, <1>9
     DEF Ring!GetBuf, Ring!BaselineEvent, PostedBar, DevBar, UsedBar

\* The refusal of an id is GetBadId of the abstract ring.
LEMMA GetBadIdGets ==
  ASSUME QueueInv, QueueInv', GetBadId
  PROVE  Ring!GetBadId
<1>1. /\ last_used_idx' = Inc(last_used_idx) /\ UNCHANGED dtVars /\ UsedPending /\ UsedId >= Num
      /\ UNCHANGED <<avail_idx, avail_ring, used_event, used_idx, used_ring, seen, notified,
                     dev, signalled_used, isr>>
  BY DEF GetBadId
<1>2. last_used_idx \in Words /\ UsedIdx \in Words /\ UsedHead(last_used_idx) \in Words
  BY RingFacts DEF QueueInv, RingsInv, RingsTypeOK
<1>3. Dist(last_used_idx, UsedIdx) > 0
  BY <1>1, <1>2, Apart DEF UsedPending, UsedIdx
<1>4. Judged(UsedHead(last_used_idx)) = NULL
  <2>1. UsedHead(last_used_idx) >= Num
    BY <1>1 DEF UsedId, UsedHead
  <2>2. ~(UsedHead(last_used_idx) < Num)
    BY <1>2, <2>1, DescAssumption DEF Words
  <2> QED
    BY <2>2 DEF Judged
<1>5. UsedBar # << >> /\ Head(UsedBar) = NULL /\ UsedBar' = Tail(UsedBar)
  BY <1>1, <1>3, <1>4, UsedStep
<1>6. PostedBar' = PostedBar /\ DevBar' = DevBar /\ RingCookies' = RingCookies
  BY <1>1, CookiesFixed DEF PostedBar, DevBar, Between
<1>7. Ring!Inc(last_used_idx) = Inc(last_used_idx)
  BY DEF Ring!Inc, Inc
<1> QED
  BY <1>1, <1>5, <1>6, <1>7 DEF Ring!GetBadId, PostedBar, DevBar, UsedBar

\* A device that takes what it was notified of is hidden; one that runs ahead
\* of the notify is DevicePoll of the abstract ring.
LEMMA DeviceTakePolls ==
  ASSUME QueueInv, QueueInv', DeviceTake
  PROVE  UNCHANGED Ring!ringVars \/ \E h \in Descs : Ring!DevicePoll(h)
<1>1. /\ seen # notified \/ (DevicePolls /\ seen # Avail)
      /\ dev' = dev \cup {AvailHead(seen)} /\ seen' = Inc(seen)
      /\ notified' = (IF seen = notified THEN Inc(seen) ELSE notified)
      /\ UNCHANGED <<avail_idx, avail_ring, used_event, used_idx, used_ring, last_used_idx,
                     signalled_used, isr>>
      /\ UNCHANGED dtVars
  BY DEF DeviceTake, Avail, AvailHead
<1>2. seen \in Words /\ notified \in Words /\ Avail \in Words /\ Avail' = Avail
      /\ RingsInv /\ RingsInv'
  BY <1>1, RingFacts DEF QueueInv, RingsInv, RingsTypeOK, Avail
<1>3. UsedBar' = UsedBar /\ RingCookies' = RingCookies
  BY <1>1, CookiesFixed DEF UsedBar, Used, Between
<1>4. /\ PostedBar' = Slice(avail_ring, notified', Avail)
      /\ DevBar' = dev' \cup Slice(avail_ring, Inc(seen), notified')
      /\ PostedBar = Slice(avail_ring, notified, Avail)
      /\ DevBar = dev \cup Slice(avail_ring, seen, notified)
  BY <1>1, <1>2, Bars, BarsNext
<1>5. CASE seen # notified
  <2>1. notified' = notified /\ Dist(seen, notified) > 0
    BY <1>1, <1>2, <1>5, Apart
  <2>2. Slice(avail_ring, seen, notified) = Slice(avail_ring, Inc(seen), notified) \cup {AvailHead(seen)}
    BY <1>2, <2>1, SlicePop DEF AvailHead
  <2>3. PostedBar' = PostedBar /\ DevBar' = DevBar
    BY <1>1, <1>4, <2>1, <2>2
  <2> QED
    BY <1>1, <1>3, <2>3, Hidden
<1>6. CASE seen = notified
  <2>1. notified' = Inc(seen) /\ Dist(seen, Avail) > 0 /\ DevicePolls
    BY <1>1, <1>2, <1>6, Apart
  <2>2. /\ Inc(seen) \in Words /\ Within(seen, seen, Avail)
        /\ \A k \in Words : Within(Inc(seen), k, Avail) <=> Within(seen, k, Avail) /\ k # seen
    BY <1>2, <2>1, Pop
  <2>3. Slice(avail_ring, seen, Avail) = Slice(avail_ring, Inc(seen), Avail) \cup {AvailHead(seen)}
    BY <1>2, <2>1, SlicePop DEF AvailHead
  <2>4. AvailHead(seen) \notin Slice(avail_ring, Inc(seen), Avail)
    <3> SUFFICES ASSUME AvailHead(seen) \in Slice(avail_ring, Inc(seen), Avail) PROVE FALSE
      OBVIOUS
    <3>1. PICK k \in Words : Within(Inc(seen), k, Avail) /\ AvailHead(seen) = AvailHead(k)
      BY DEF Slice, AvailHead
    <3>2. OnAvail(k) /\ OnAvail(seen) /\ k # seen
      BY <2>2, <3>1 DEF OnAvail
    <3> QED
      BY <1>2, <3>1, <3>2 DEF RingsInv, AvailOK
  <2>5. AvailHead(seen) \in Descs
    <3>1. OnAvail(seen)
      BY <2>2 DEF OnAvail
    <3> QED
      BY <1>2, <3>1 DEF QueueInv, RingsInv, AvailOK, DescInv, TypeOK
  <2>6. AvailHead(seen) \in PostedBar /\ PostedBar' = PostedBar \ {AvailHead(seen)}
    BY <1>4, <1>6, <2>1, <2>3, <2>4
  <2>7. DevBar' = DevBar \cup {AvailHead(seen)}
    <3>1. Slice(avail_ring, seen, notified) = {} /\ Slice(avail_ring, Inc(seen), notified') = {}
      BY <1>2, <1>6, <2>1, <2>2, SliceEmpty
    <3> QED
      BY <1>1, <1>4, <3>1
  <2>8. Ring!DevicePoll(AvailHead(seen))
    BY <1>1, <1>3, <2>1, <2>6, <2>7 DEF Ring!DevicePoll, PostedBar, DevBar, UsedBar
  <2> QED
    BY <2>5, <2>8
<1> QED
  BY <1>5, <1>6

\* used->idx as the abstract ring derives it.
LEMMA UsedIdxBar == QueueInv => Ring!used_idx = UsedIdx
<1> SUFFICES ASSUME QueueInv PROVE Ring!used_idx = UsedIdx
  OBVIOUS
<1>1. /\ used_ring \in [Descs -> Words] /\ last_used_idx \in Words /\ UsedIdx \in Words
  BY RingFacts DEF QueueInv, RingsInv, RingsTypeOK
<1>2. UsedBar = Reports(used_ring, last_used_idx, UsedIdx)
  BY Bars DEF QueueInv
<1>3. Len(UsedBar) = Dist(last_used_idx, UsedIdx)
  BY <1>1, <1>2, ReportsSeq
<1>4. (last_used_idx + Len(UsedBar)) % Word = UsedIdx
  BY <1>1, <1>3, AtDist
<1> QED
  BY <1>4 DEF Ring!used_idx, UsedBar

\* A completion is DeviceReport of the abstract ring.
LEMMA DeviceReportReports ==
  ASSUME QueueInv, QueueInv', NEW h, NEW id, id = h \/ id = Num, DeviceReport(h, id)
  PROVE  Ring!DeviceReport(h, Judged(id)) /\ h \in Descs
<1>1. /\ h \in dev /\ dev' = dev \ {h} /\ (UsedIdx - signalled_used) % Word < Num
      /\ used_ring' = [used_ring EXCEPT ![RingPos(UsedIdx)] = vr16(id)]
      /\ used_idx' = vr16(Inc(UsedIdx)) /\ UNCHANGED dtVars
      /\ UNCHANGED <<avail_idx, avail_ring, used_event, last_used_idx, seen, notified,
                     signalled_used, isr>>
  BY DEF DeviceReport, UsedIdx
<1>2. /\ last_used_idx \in Words /\ UsedIdx \in Words /\ Dist(last_used_idx, UsedIdx) < Num
      /\ used_ring \in [Descs -> Words] /\ used_ring' \in [Descs -> Words]
      /\ RingsInv /\ RingsInv' /\ h \in Descs /\ Num < Word /\ Num \in Nat /\ Word \in Nat
  BY <1>1, RingFacts, UsedRoom DEF QueueInv, RingsInv, RingsTypeOK, DescInv, TypeOK
<1>3. id \in Words /\ RingPos(UsedIdx) \in Descs
  <2>1. h \in Words /\ Num \in Words
    BY <1>2 DEF Words, Descs
  <2> QED
    BY <1>2, <2>1, RingPosIs
<1>4. vr16(used_ring'[RingPos(UsedIdx)]) = id
  BY <1>1, <1>2, <1>3, SwapTwice
<1>5. UsedIdx' = Inc(UsedIdx)
  <2>1. Inc(UsedIdx) \in Words
    BY <1>2, IncIs
  <2> QED
    BY <1>1, <2>1, SwapTwice DEF UsedIdx
<1>6. \A k \in Words : Within(last_used_idx, k, UsedIdx) =>
        used_ring'[RingPos(k)] = used_ring[RingPos(k)]
  <2>1. \A k \in Words : Within(last_used_idx, k, UsedIdx) =>
          RingPos(k) # RingPos(UsedIdx) /\ RingPos(k) \in Descs
    BY <1>2, Fresh, RingPosIs
  <2> QED
    BY <1>1, <1>2, <2>1
<1>7. UsedBar' = Append(UsedBar, Judged(id))
  <2>1. Dist(last_used_idx, UsedIdx) + 1 < Word
    BY <1>2, Apart
  <2>2. Reports(used_ring', last_used_idx, Inc(UsedIdx))
          = Append(Reports(used_ring, last_used_idx, UsedIdx),
                   Judged(vr16(used_ring'[RingPos(UsedIdx)])))
    BY <1>2, <1>6, <2>1, ReportsPush
  <2> QED
    BY <1>1, <1>2, <1>4, <1>5, <2>2, Bars, BarsNext
<1>8. h \in DevBar /\ DevBar' = DevBar \ {h}
  <2>1. h \notin Slice(avail_ring, seen, notified)
    <3> SUFFICES ASSUME h \in Slice(avail_ring, seen, notified) PROVE FALSE
      OBVIOUS
    <3>1. PICK k \in Words : Within(seen, k, notified) /\ h = AvailHead(k)
      BY DEF Slice, AvailHead
    <3>2. seen \in Words /\ notified \in Words /\ Avail \in Words
          /\ Dist(seen, notified) <= Dist(seen, Avail)
      BY RingFacts DEF QueueInv, RingsInv, RingsTypeOK, AvailOK
    <3>3. OnAvail(k)
      BY <3>1, <3>2, SliceSplit DEF OnAvail
    <3> QED
      BY <1>1, <3>1, <3>3 DEF QueueInv, RingsInv, AvailOK
  <2>2. DevBar = dev \cup Slice(avail_ring, seen, notified)
        /\ DevBar' = (dev \ {h}) \cup Slice(avail_ring, seen, notified)
    BY <1>1, <1>2, Bars, BarsNext
  <2> QED
    BY <1>1, <2>1, <2>2
<1>9. PostedBar' = PostedBar /\ RingCookies' = RingCookies
  BY <1>1, CookiesFixed DEF PostedBar, Between
<1>10. Ring!Undecided < Ring!Cardinality(Descs)
  <2>1. Ring!Cardinality(Descs) = Cardinality(Descs)
    BY Zenon DEF Ring!Cardinality, Cardinality
  <2> QED
    BY <1>1, <2>1, UsedIdxBar, DescsFinite DEF Ring!Undecided
<1>11. UNCHANGED <<last_used_idx, vr16(used_event), signalled_used, isr>>
  BY <1>1 DEF vr16
<1>12. Ring!DeviceReport(h, Judged(id))
  BY <1>7, <1>8, <1>9, <1>10, <1>11 DEF Ring!DeviceReport, PostedBar, DevBar, UsedBar
<1> QED
  BY <1>2, <1>12

\* The interrupt decision and its acknowledgement are the abstract ring's.
LEMMA InterruptSteps ==
  ASSUME QueueInv
  PROVE  (DeviceNotify => Ring!DeviceNotify) /\ (Acknowledge => Ring!Acknowledge)
<1>1. ASSUME DeviceNotify \/ Acknowledge
      PROVE  UNCHANGED <<RingCookies, PostedBar, DevBar, UsedBar, last_used_idx, used_event>>
  <2>1. UNCHANGED dtVars /\ UNCHANGED <<avail_idx, avail_ring, used_idx, used_ring,
                                       last_used_idx, seen, notified, dev, used_event>>
    BY <1>1 DEF DeviceNotify, Acknowledge
  <2> QED
    BY <2>1, CookiesFixed, RingsFixed
<1>2. ASSUME DeviceNotify PROVE Ring!DeviceNotify
  <2>1. /\ signalled_used # UsedIdx /\ signalled_used' = UsedIdx
        /\ isr' = (isr \/ ~UseEventIdx \/ NeedEvent(vr16(used_event), UsedIdx, signalled_used))
    BY <1>2 DEF DeviceNotify, UsedIdx
  <2>2. Ring!used_idx = UsedIdx
    BY UsedIdxBar
  <2>3. Ring!NeedEvent(vr16(used_event), UsedIdx, signalled_used)
          = NeedEvent(vr16(used_event), UsedIdx, signalled_used)
    BY DEF Ring!NeedEvent, NeedEvent
  <2> QED
    BY <1>1, <1>2, <2>1, <2>2, <2>3 DEF Ring!DeviceNotify, PostedBar, DevBar, UsedBar
<1>3. ASSUME Acknowledge PROVE Ring!Acknowledge
  <2>1. isr /\ isr' = FALSE /\ signalled_used' = signalled_used
    BY <1>3 DEF Acknowledge
  <2> QED
    BY <1>1, <1>3, <2>1 DEF Ring!Acknowledge, PostedBar, DevBar, UsedBar
<1> QED
  BY <1>2, <1>3

\* Every step of the queue is a step of the abstract ring, or none.
LEMMA RingSimulation ==
  ASSUME QueueInv, QueueInv', [VQNext]_vqVars
  PROVE  [Ring!RingNext]_(Ring!ringVars)
<1>1. CASE TableStep
  BY <1>1, TableHidden
<1>2. CASE PublishRing
  BY <1>2, PublishRingHidden
<1>3. CASE PublishIdx
  <2>1. Ring!AddBuf(head, cookie) /\ head \in Descs /\ cookie \in Cookies
    BY <1>3, PublishIdxAdds
  <2> QED
    BY <2>1 DEF Ring!RingNext
<1>4. CASE Kick
  BY <1>4, KickKicks DEF Ring!RingNext
<1>5. CASE StartDrain \/ GetEmpty \/ UNCHANGED vqVars
  <2>1. UNCHANGED dtVars /\ UNCHANGED <<avail_idx, avail_ring, used_event, used_idx, used_ring,
                               last_used_idx, seen, notified, dev, signalled_used, isr>>
    BY <1>5 DEF StartDrain, GetEmpty, vqVars, ringVars
  <2> QED
    BY <2>1, CookiesFixed, RingsFixed, Hidden
<1>6. CASE GetUsed
  BY <1>6, GetUsedHidden
<1>7. CASE GetEnd
  BY <1>7, GetEndGets DEF Ring!RingNext
<1>8. CASE GetBadId
  BY <1>8, GetBadIdGets DEF Ring!RingNext
<1>9. CASE DeviceTake
  BY <1>9, DeviceTakePolls DEF Ring!RingNext
<1>10. CASE \E h \in Descs : DeviceUse(h) \/ DeviceUseBad(h)
  <2>1. PICK h \in Descs : DeviceReport(h, h) \/ DeviceReport(h, Num)
    BY <1>10 DEF DeviceUse, DeviceUseBad
  <2>2. Ring!DeviceReport(h, Judged(h)) \/ Ring!DeviceReport(h, Judged(Num))
    BY <2>1, DeviceReportReports
  <2>3. Judged(h) = h /\ Judged(Num) = NULL
    BY DescAssumption DEF Judged, Descs
  <2>4. Ring!DeviceUse(h) \/ Ring!DeviceUseBad(h)
    BY <2>2, <2>3 DEF Ring!DeviceUse, Ring!DeviceUseBad
  <2> QED
    BY <2>4 DEF Ring!RingNext
<1>11. CASE DeviceNotify \/ Acknowledge
  BY <1>11, InterruptSteps DEF Ring!RingNext
<1> QED
  BY <1>1, <1>2, <1>3, <1>4, <1>5, <1>6, <1>7, <1>8, <1>9, <1>10, <1>11
     DEF VQNext, Consume, Publish

\* A new queue is a new abstract ring.
LEMMA RingStart == VQInit => Ring!RingInit
<1> SUFFICES ASSUME VQInit PROVE Ring!RingInit
  OBVIOUS
<1>1. vr16(0) = 0 /\ 0 \in Words
  BY SwapAssumption, DescAssumption DEF vr16, Words
<1>2. RingsInv /\ QueueInv
  BY InitInv, RingsInit DEF VQInit, QueueInv, Init, CookiesOK, Held, InGet
<1>3. Avail = 0 /\ UsedIdx = 0 /\ seen = 0 /\ notified = 0 /\ last_used_idx = 0 /\ dev = {}
  BY <1>1 DEF VQInit, Avail, UsedIdx
<1>4. PostedBar = {} /\ DevBar = {}
  BY <1>1, <1>2, <1>3, Bars, SliceEmpty
<1>5. UsedBar = << >>
  <2>1. UsedBar \in Seq(Descs \cup {NULL}) /\ Len(UsedBar) = Dist(0, 0)
    <3>1. used_ring \in [Descs -> Words] /\ UsedBar = Reports(used_ring, 0, 0)
      BY <1>2, <1>3, Bars DEF RingsInv, RingsTypeOK
    <3> QED
      BY <1>1, <3>1, ReportsSeq
  <2>2. Dist(0, 0) = 0
    BY <1>1, DistIs
  <2> QED
    BY <2>1, <2>2, EmptySeq
<1>6. RingCookies = [h \in Descs |-> NULL]
  BY DEF VQInit, Init, RingCookies
<1>7. vr16(used_event) = 0 /\ signalled_used = 0 /\ isr = FALSE
  BY <1>1 DEF VQInit
<1> QED
  BY <1>3, <1>4, <1>5, <1>6, <1>7 DEF Ring!RingInit, PostedBar, DevBar, UsedBar

\* virtqueue.c implements the request ring the I/O engine is modelled on: with
\* descriptors, either byte order, indices that wrap and a device that runs
\* concurrently, what was published under a head comes back once, with its
\* cookie, in the order of completion, and the interrupt decision is made on
\* the used_event the driver meant.
THEOREM RefinesRequestRing == VQSpec => ImplementsRequestRing
<1>1. QueueInv /\ QueueInv' /\ [VQNext]_vqVars => [Ring!RingNext]_(Ring!ringVars)
  BY RingSimulation
<1> QED
  BY <1>1, RingStart, QueueInvariant, PTL DEF VQSpec, ImplementsRequestRing, Ring!RingSpec

====
