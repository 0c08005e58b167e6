--------------------------- MODULE DescTableProofs ---------------------------
(***************************************************************************)
(* Proofs about DescTable, for every queue size, every set of request      *)
(* shapes and every byte order.                                            *)
(***************************************************************************)
EXTENDS DescTable, FiniteSetTheorems, TLAPS

-----------------------------------------------------------------------------
(* Lemmas about the operators *)

\* Swapping twice is the identity, and a swapped word is a word.
LEMMA SwapTwice == \A v \in Words : vr16(v) \in Words /\ vr16(vr16(v)) = v
  BY SwapAssumption DEF vr16

\* NEXT is the lowest bit of the flags AddBuf writes.
LEMMA NextBit ==
  /\ HasNext(1) /\ HasNext(3)
  /\ ~HasNext(0) /\ ~HasNext(2) /\ ~HasNext(4)
  BY DEF HasNext

\* There are Num descriptors (vq->num).
LEMMA DescsFinite == IsFiniteSet(Descs) /\ Cardinality(Descs) = Num
<1>1. 0 \in Int /\ Num - 1 \in Int /\ Num >= 1
  BY DescAssumption
<1>2. QED
  BY <1>1, FS_Interval, DescAssumption DEF Descs

\* Descriptors an assignment w of descriptors to chains leaves free.
FreeIn(w) == {d \in Descs : w[d] = NULL}

\* The free descriptors are a finite set.
LEMMA FreeInFinite ==
  ASSUME NEW w \in [Descs -> Descs \cup {NULL}]
  PROVE  /\ IsFiniteSet(FreeIn(w))
         /\ Cardinality(FreeIn(w)) \in Nat
         /\ Cardinality(FreeIn(w)) <= Num
<1>1. FreeIn(w) \subseteq Descs
  BY DEF FreeIn
<1>2. QED
  BY <1>1, DescsFinite, FS_Subset, FS_CardinalityType

\* Taking a descriptor off the free list leaves one less.
LEMMA FreeInTake ==
  ASSUME NEW w \in [Descs -> Descs \cup {NULL}], NEW d \in Descs, w[d] = NULL,
         NEW h \in Descs
  PROVE  Cardinality(FreeIn([w EXCEPT ![d] = h])) = Cardinality(FreeIn(w)) - 1
<1>1. NULL \notin Descs
  BY DescAssumption DEF Descs
<1>2. FreeIn([w EXCEPT ![d] = h]) = FreeIn(w) \ {d}
  BY <1>1 DEF FreeIn
<1>3. d \in FreeIn(w)
  BY DEF FreeIn
<1>4. QED
  BY <1>2, <1>3, FreeInFinite, FS_RemoveElement

\* Giving one back leaves one more, and there was room for it.
LEMMA FreeInGive ==
  ASSUME NEW w \in [Descs -> Descs \cup {NULL}], NEW d \in Descs, w[d] # NULL
  PROVE  /\ Cardinality(FreeIn([w EXCEPT ![d] = NULL])) = Cardinality(FreeIn(w)) + 1
         /\ Cardinality(FreeIn(w)) < Num
<1>1. FreeIn([w EXCEPT ![d] = NULL]) = FreeIn(w) \cup {d}
  BY DEF FreeIn
<1>2. d \notin FreeIn(w)
  BY DEF FreeIn
<1>3. Cardinality(FreeIn([w EXCEPT ![d] = NULL])) = Cardinality(FreeIn(w)) + 1
  BY <1>1, <1>2, FreeInFinite, FS_AddElement
<1>4. [w EXCEPT ![d] = NULL] \in [Descs -> Descs \cup {NULL}]
  OBVIOUS
<1>5. Cardinality(FreeIn([w EXCEPT ![d] = NULL])) <= Num
  BY <1>4, FreeInFinite
<1>6. QED
  BY <1>3, <1>5, FreeInFinite, DescAssumption

\* The first free descriptor is taken; whatever is stored in it, the list goes
\* on where its link led.
LEMMA TakeTop ==
  ASSUME NEW w \in [Descs -> Descs \cup {NULL}], NEW r \in [Descs -> Nat],
         NEW nx, NEW w2, NEW r2, NEW nx2, NEW m \in Nat, m > 0, NEW top,
         ThreadsFree(w, r, nx, m, top),
         w2[top] # NULL,
         \A d \in Descs : d # top => w2[d] = w[d] /\ r2[d] = r[d] /\ nx2[d] = nx[d]
  PROVE  ThreadsFree(w2, r2, nx2, m - 1, nx[top])
<1>1. top \in Descs /\ w[top] = NULL /\ r[top] = m - 1
  BY DEF ThreadsFree
<1>2. \A d \in Descs : w2[d] = NULL => d # top /\ w[d] = NULL /\ r2[d] = r[d] /\ nx2[d] = nx[d]
  OBVIOUS
<1>3. \A d \in Descs : w2[d] = NULL => r[d] < m - 1
  BY <1>1, <1>2 DEF ThreadsFree
<1>4. ASSUME NEW d \in Descs, w2[d] = NULL, r[d] > 0
      PROVE  nx[d] \in Descs /\ nx[d] # top /\ w2[nx[d]] = NULL /\ r2[nx[d]] = r[d] - 1
  <2>1. nx[d] \in Descs /\ w[nx[d]] = NULL /\ r[nx[d]] = r[d] - 1
    BY <1>2, <1>4 DEF ThreadsFree
  <2>2. nx[d] # top
    BY <1>1, <1>3, <1>4, <2>1
  <2>3. QED
    BY <2>1, <2>2
<1>5. ASSUME m - 1 > 0
      PROVE  nx[top] \in Descs /\ w2[nx[top]] = NULL /\ r2[nx[top]] = m - 2
  <2>1. nx[top] \in Descs /\ w[nx[top]] = NULL /\ r[nx[top]] = r[top] - 1
    BY <1>1, <1>5 DEF ThreadsFree
  <2>2. QED
    BY <1>1, <2>1
<1>6. \A d, e \in Descs : w2[d] = NULL /\ w2[e] = NULL /\ r2[d] = r2[e] => d = e
  BY <1>2 DEF ThreadsFree
<1>7. QED
  BY <1>2, <1>3, <1>4, <1>5, <1>6 DEF ThreadsFree

-----------------------------------------------------------------------------
(* DescInv is an invariant *)

\* VirtQueue_Allocate establishes the invariant.
LEMMA InitInv == Init => DescInv
<1> SUFFICES ASSUME Init PROVE DescInv
  OBVIOUS
<1>1. TypeOK
  BY DescAssumption DEF Init, TypeOK, Descs, Words
<1>2. {d \in Descs : IsFree(d)} = Descs
  BY DEF Init, IsFree
<1>3. FreeListIntact
  <2>1. FreeCount = Num
    BY DescAssumption DEF Init, FreeCount
  <2>2. FreeCount = Cardinality({d \in Descs : IsFree(d)})
    BY <1>2, <2>1, DescsFinite
  <2>3. Top \in Descs /\ IsFree(Top) /\ rank[Top] = Num - 1
    BY DescAssumption DEF Init, Top, IsFree, Descs
  <2>4. \A d \in Descs : rank[d] \in Int /\ rank[d] < Num
    BY DescAssumption DEF Init, Descs
  <2>5. \A d, e \in Descs : rank[d] = rank[e] => d = e
    BY DescAssumption DEF Init, Descs
  <2>6. \A d \in Descs : rank[d] > 0 =>
          desc_next[d] \in Descs /\ rank[desc_next[d]] = rank[d] - 1
    BY DescAssumption DEF Init, Descs
  <2>7. \A d \in Descs : IsFree(d)
    BY DEF Init, IsFree
  <2>8. QED
    BY <2>1, <2>2, <2>3, <2>4, <2>5, <2>6, <2>7 DEF FreeListIntact, ThreadsFree, IsFree
<1>4. Owned /\ Links /\ EndMarks
  BY DEF Init, Owned, Links, EndMarks, IsFree
<1>5. Places
  BY DescAssumption DEF Init, Places, Descs
<1>6. HeldChains
  BY DEF Init, HeldChains, Held
<1>7. CallState
  BY DEF Init, CallState
<1>8. QED
  BY <1>1, <1>3, <1>4, <1>5, <1>6, <1>7 DEF DescInv

\* What every step may use of the state before it.
LEMMA BeforeStep ==
  ASSUME DescInv
  PROVE  /\ NULL \notin Descs
         /\ Descs \subseteq Words
         /\ FreeCount = Cardinality(FreeIn(where))
         /\ FreeCount \in 0 .. Num
<1>1. NULL \notin Descs /\ Descs \subseteq Words
  BY DescAssumption DEF Descs, Words
<1>2. {d \in Descs : IsFree(d)} = FreeIn(where)
  BY DEF FreeIn, IsFree
<1>3. FreeCount = Cardinality(FreeIn(where))
  BY <1>2 DEF DescInv, FreeListIntact
<1>4. QED
  BY <1>1, <1>3, FreeInFinite, DescAssumption DEF DescInv, TypeOK

\* VirtQueue_AddBuf, the check for room.
LEMMA EnterInv ==
  ASSUME DescInv, NEW c \in Cookies, NEW s \in Shapes, AddBufEnter(c, s[1], s[2])
  PROVE  DescInv'
<1>0. s[1] \in 0 .. MaxSeg /\ s[2] \in 1 .. MaxSeg
  BY DescAssumption
<1>1. num_free >= 1 /\ FreeCount = num_free /\ Top = free_head
  BY <1>0 DEF AddBufEnter, Room, DescInv, TypeOK, CallState, FreeCount, Top
<1>2. free_head \in Descs /\ IsFree(free_head)
  BY <1>1, DescAssumption DEF DescInv, FreeListIntact, ThreadsFree, TypeOK, IsFree
<1>3. TypeOK'
  BY <1>0 DEF DescInv, TypeOK, AddBufEnter, descVars
<1>4. FreeListIntact'
  BY <1>1 DEF DescInv, TypeOK, AddBufEnter, descVars, FreeListIntact, FreeCount, Top, IsFree, CallState
<1>5. Owned' /\ Places' /\ EndMarks'
  BY DEF DescInv, AddBufEnter, descVars, Owned, Owners, IsFree, Places, EndMarks
<1>6. \A d \in Descs : where[d] # free_head
  BY <1>2, BeforeStep DEF DescInv, Owned, Owners, HeldChains, Held, IsFree, AddBufEnter
<1>7. Links'
  BY <1>6 DEF DescInv, AddBufEnter, descVars, Links, IsFree, Growing
<1>8. HeldChains'
  BY DEF DescInv, AddBufEnter, descVars, HeldChains, Held, Segment
<1>9. CallState'
  BY <1>0, <1>1, <1>2, <1>6, BeforeStep, DescAssumption
     DEF DescInv, AddBufEnter, descVars, CallState, Room, Indirect, TypeOK, HeldChains, Held, IsFree
<1>10. QED
  BY <1>3, <1>4, <1>5, <1>7, <1>8, <1>9 DEF DescInv

\* VirtQueue_AddBuf, the fallback from an indirect table to the direct path.
LEMMA NoTableInv ==
  ASSUME DescInv, AddBufNoTable
  PROVE  DescInv'
<1>1. free_head \in Descs /\ IsFree(free_head) /\ head = free_head /\ idx = free_head
  BY DescAssumption
     DEF AddBufNoTable, DescInv, FreeListIntact, ThreadsFree, FreeCount, Top, TypeOK, CallState, IsFree
<1>2. \A d \in Descs : where[d] # free_head
  BY <1>1, BeforeStep DEF DescInv, Owned, Owners, HeldChains, Held, IsFree, AddBufNoTable
<1>3. TypeOK'
  BY DescAssumption DEF DescInv, TypeOK, AddBufNoTable, Return, locals, descVars, Words
<1>4. FreeListIntact'
  BY <1>1 DEF DescInv, TypeOK, AddBufNoTable, Return, locals, descVars, FreeListIntact,
              FreeCount, Top, IsFree, CallState
<1>5. Owned' /\ Places' /\ EndMarks'
  BY DEF DescInv, AddBufNoTable, descVars, Owned, Owners, IsFree, Places, EndMarks,
         Return, locals
<1>6. Links'
  BY <1>1, <1>2 DEF DescInv, AddBufNoTable, Return, locals, descVars, Links, IsFree, Growing
<1>7. HeldChains'
  BY DEF DescInv, AddBufNoTable, Return, locals, descVars, HeldChains, Held, Segment
<1>8. CallState'
  BY <1>1, <1>2, BeforeStep, DescAssumption
     DEF DescInv, AddBufNoTable, FallbackRoom, Return, locals, descVars, CallState, TypeOK, HeldChains,
         Held, IsFree
<1>9. QED
  BY <1>3, <1>4, <1>5, <1>6, <1>7, <1>8 DEF DescInv

\* VirtQueue_AddBuf, the indirect form: one descriptor leaves the free list.
LEMMA TableInv ==
  ASSUME DescInv, AddBufTable
  PROVE  DescInv'
<1>1. /\ head \in Descs /\ IsFree(head) /\ rank[head] = FreeCount - 1
      /\ FreeCount = num_free /\ num_free >= 1 /\ num_free \in Nat
  BY DescAssumption
     DEF AddBufTable, DescInv, FreeListIntact, ThreadsFree, FreeCount, Top, TypeOK, CallState, IsFree
<1>2. (\A d \in Descs : where[d] # head) /\ head \notin published
  BY <1>1, BeforeStep DEF DescInv, Owned, Owners, HeldChains, Held, IsFree, AddBufTable
<1>3. TypeOK'
  BY <1>1, SwapTwice, DescAssumption
     DEF DescInv, TypeOK, AddBufTable, locals, Words, TableAddr
<1>4. FreeListIntact'
  <2>1. FreeCount' = FreeCount - 1
    BY <1>1 DEF AddBufTable, FreeCount, locals, DescInv, CallState
  <2>2. FreeCount' = Cardinality({d \in Descs : IsFree(d)})'
    <3>1. Cardinality(FreeIn([where EXCEPT ![head] = head])) = Cardinality(FreeIn(where)) - 1
      BY <1>1, FreeInTake DEF DescInv, TypeOK, IsFree
    <3>2. {d \in Descs : IsFree(d)}' = FreeIn([where EXCEPT ![head] = head])
      BY DEF AddBufTable, FreeIn, IsFree
    <3>3. QED
      BY <2>1, <3>1, <3>2, BeforeStep
  <2>3. ThreadsFree(where, rank, desc_next, FreeCount, head)
    BY DEF DescInv, FreeListIntact, AddBufTable, Top, CallState
  <2>4. ThreadsFree(where', rank', desc_next', FreeCount - 1, desc_next[head])
    <3>1. where'[head] # NULL
      BY <1>1, BeforeStep DEF AddBufTable, DescInv, TypeOK
    <3>2. \A d \in Descs : d # head =>
            where'[d] = where[d] /\ rank'[d] = rank[d] /\ desc_next'[d] = desc_next[d]
      BY DEF AddBufTable, DescInv, TypeOK
    <3>3. rank \in [Descs -> Nat] /\ where \in [Descs -> Descs \cup {NULL}]
      BY DEF DescInv, TypeOK
    <3>4. FreeCount \in Nat /\ FreeCount > 0
      BY <1>1
    <3>5. QED
      BY <2>3, <3>1, <3>2, <3>3, <3>4, TakeTop, Zenon
  <2>5. Top' = desc_next[head]
    BY DEF AddBufTable, Top
  <2>6. QED
    BY <2>1, <2>2, <2>4, <2>5 DEF FreeListIntact
<1>5. Owned' /\ Places'
  BY <1>1, <1>2, BeforeStep
     DEF DescInv, AddBufTable, Owned, Owners, IsFree, Places, TypeOK, locals
<1>6. EndMarks' /\ Links'
  BY <1>1, <1>2, BeforeStep, SwapTwice, NextBit, DescAssumption
     DEF DescInv, AddBufTable, EndMarks, Links, Growing, IsFree, TypeOK, Words
<1>7. HeldChains'
  BY <1>1, <1>2, BeforeStep, SwapTwice, DescAssumption
     DEF DescInv, AddBufTable, HeldChains, Held, Segment, TypeOK, Words, locals, CallState
<1>8. CallState'
  BY <1>1, <1>2 DEF DescInv, AddBufTable, CallState, locals
<1>9. QED
  BY <1>3, <1>4, <1>5, <1>6, <1>7, <1>8 DEF DescInv

\* VirtQueue_AddBuf, one round of the direct loop: the top of the free list
\* becomes the next descriptor of the chain.
LEMMA DirectInv ==
  ASSUME DescInv, AddBufDirect
  PROVE  DescInv'
<1>1. /\ head \in Descs /\ head \notin published
      /\ n \in Nat /\ total \in Nat /\ num_free \in Nat /\ out_num \in Nat
      /\ n < total /\ total <= num_free /\ total <= MaxSeg
      /\ FreeCount = num_free - n /\ Top = idx
  BY DescAssumption DEF AddBufDirect, DescInv, TypeOK, CallState, FreeCount, Top
<1>2. idx \in Descs /\ where[idx] = NULL
  BY <1>1 DEF DescInv, FreeListIntact, ThreadsFree
<1>3. /\ \A d \in Descs : d # idx =>
            /\ where'[d] = where[d] /\ rank'[d] = rank[d] /\ desc_next'[d] = desc_next[d]
            /\ desc_addr'[d] = desc_addr[d] /\ desc_flags'[d] = desc_flags[d]
      /\ where'[idx] = head /\ rank'[idx] = total - 1 - n /\ desc_addr'[idx] = n
      /\ desc_flags'[idx] = vr16(ChainFlags(n)) /\ outs'[head] = out_num
  BY <1>1, <1>2 DEF AddBufDirect, DescInv, TypeOK
<1>4. ChainFlags(n) \in 0 .. 3 /\ ChainFlags(n) \in Words
  BY <1>1, DescAssumption DEF ChainFlags, Words
<1>5. vr16(desc_flags'[idx]) = ChainFlags(n)
  BY <1>3, <1>4, SwapTwice
<1>6. TypeOK'
  <2>1. total - 1 - n \in 0 .. Num - 1 /\ n \in 0 .. MaxSeg /\ n + 1 \in 0 .. MaxSeg
        /\ num_free - total \in 0 .. Num
    BY <1>1, DescAssumption DEF DescInv, TypeOK
  <2>2. vr16(ChainFlags(n)) \in Words /\ desc_next[idx] \in Words
        /\ ChainLink(desc_next[idx]) \in Words
    BY <1>2, <1>4, SwapTwice DEF DescInv, TypeOK, ChainLink
  <2>3. QED
    BY ZenonT(40), <1>1, <1>2, <2>1, <2>2 DEF DescInv, TypeOK, AddBufDirect
<1>7. FreeListIntact'
  <2>1. FreeCount' = FreeCount - 1 /\ Top' = desc_next[idx]
    BY <1>1 DEF AddBufDirect, FreeCount, Top, DescInv, CallState
  <2>2. FreeCount' = Cardinality({d \in Descs : IsFree(d)})'
    <3>1. Cardinality(FreeIn([where EXCEPT ![idx] = head])) = Cardinality(FreeIn(where)) - 1
      BY <1>1, <1>2, FreeInTake DEF DescInv, TypeOK
    <3>2. {d \in Descs : IsFree(d)}' = FreeIn([where EXCEPT ![idx] = head])
      BY DEF AddBufDirect, FreeIn, IsFree
    <3>3. QED
      BY <2>1, <3>1, <3>2, BeforeStep
  <2>3. ThreadsFree(where, rank, desc_next, FreeCount, idx)
    BY <1>1 DEF DescInv, FreeListIntact
  <2>4. where'[idx] # NULL
    BY <1>1, <1>3, BeforeStep
  <2>5. rank \in [Descs -> Nat] /\ where \in [Descs -> Descs \cup {NULL}]
    BY DEF DescInv, TypeOK
  <2>6. FreeCount \in Nat /\ FreeCount > 0
    BY <1>1
  <2>7. ThreadsFree(where', rank', desc_next', FreeCount - 1, desc_next[idx])
    BY <1>3, <2>3, <2>4, <2>5, <2>6, TakeTop, Zenon
  <2>8. QED
    BY <2>1, <2>2, <2>7 DEF FreeListIntact
<1>8. Owned'
  BY <1>1, <1>3 DEF DescInv, Owned, Owners, IsFree, AddBufDirect
<1>9. \A d \in Descs : where[d] = head => rank[d] >= total - n
  BY DEF DescInv, CallState, AddBufDirect
<1>10. \A d \in Descs : rank[d] \in Nat
  BY DEF DescInv, TypeOK
<1>11. Places'
  BY <1>1, <1>3, <1>9, <1>10 DEF DescInv, Places
<1>12. Links'
  <2> SUFFICES ASSUME NEW d \in Descs, ~IsFree(d)', rank'[d] > 0
               PROVE  LET e == vr16(desc_next'[d]) IN
                      IF Growing(d)' THEN e = idx'
                      ELSE e \in Descs /\ where'[e] = where'[d] /\ rank'[e] = rank'[d] - 1
    BY DEF Links
  <2>1. CASE d = idx
    <3>1. n < total - 1
      BY <1>1, <1>3, <2>1
    <3>2. desc_next'[idx] = vr16(desc_next[idx]) /\ idx' = desc_next[idx] /\ pc' = "direct"
          /\ n' = n + 1 /\ total' = total /\ head' = head
      BY <1>1, <1>2, <3>1 DEF AddBufDirect, ChainLink, DescInv, TypeOK
    <3>3. vr16(desc_next'[idx]) = idx'
      BY <1>2, <3>2, SwapTwice DEF DescInv, TypeOK
    <3>4. Growing(d)'
      BY <1>1, <1>3, <2>1, <3>2 DEF Growing
    <3>5. QED
      BY <2>1, <3>3, <3>4
  <2>2. CASE d # idx /\ where[d] = head /\ rank[d] = total - n
    <3>1. vr16(desc_next[d]) = idx
      BY <1>1, <1>2, <1>3, <2>2, BeforeStep DEF DescInv, Links, Growing, AddBufDirect, IsFree
    <3>2. ~Growing(d)'
      BY <1>1, <1>3, <2>2 DEF Growing, AddBufDirect
    <3>3. QED
      BY <1>1, <1>2, <1>3, <2>2, <3>1, <3>2
  <2>3. CASE d # idx /\ ~(where[d] = head /\ rank[d] = total - n)
    <3>1. ~Growing(d) /\ where[d] # NULL /\ rank[d] > 0
      BY <1>3, <2>3 DEF Growing, IsFree
    <3>2. vr16(desc_next[d]) \in Descs /\ where[vr16(desc_next[d])] = where[d]
          /\ rank[vr16(desc_next[d])] = rank[d] - 1
      BY <3>1 DEF DescInv, Links, IsFree
    <3>3. vr16(desc_next[d]) # idx
      BY <1>2, <3>1, <3>2
    <3>4. ~Growing(d)'
      BY <1>1, <1>3, <1>9, <1>10, <2>3 DEF Growing, AddBufDirect
    <3>5. QED
      BY <1>3, <2>3, <3>2, <3>3, <3>4
  <2>4. QED
    BY <2>1, <2>2, <2>3
<1>13. EndMarks'
  <2>1. HasNext(ChainFlags(n)) <=> n < total - 1
    BY <1>1, NextBit DEF ChainFlags
  <2>2. QED
    BY <1>1, <1>3, <1>5, <2>1 DEF DescInv, EndMarks, IsFree
<1>14. ASSUME NEW d \in Descs, d = idx
       PROVE  Segment(d, total - 1, out_num)'
  <2>1. total' = total /\ out_num' = out_num
    BY DEF AddBufDirect
  <2>2. rank'[d] <= total - 1 /\ desc_addr'[d] = total - 1 - rank'[d]
    BY <1>1, <1>3, <1>14
  <2>3. vr16(desc_flags'[d]) = (IF desc_addr'[d] >= out_num THEN 2 ELSE 0)
                             + (IF rank'[d] > 0 THEN 1 ELSE 0)
    BY <1>1, <1>3, <1>5, <1>14 DEF ChainFlags
  <2>4. QED
    BY <2>1, <2>2, <2>3 DEF Segment
<1>15. \A d \in Descs : where'[d] = head => Segment(d, total - 1, out_num)'
  <2>1. total' = total /\ out_num' = out_num
    BY DEF AddBufDirect
  <2>2. \A d \in Descs : where[d] = head => Segment(d, total - 1, out_num)
    BY DEF DescInv, CallState, AddBufDirect
  <2>3. ASSUME NEW d \in Descs, d # idx, where'[d] = head
        PROVE  Segment(d, total - 1, out_num)'
    BY <1>3, <2>1, <2>2, <2>3 DEF Segment
  <2>4. QED
    BY <1>14, <2>3
<1>16. where'[head] = head /\ rank'[head] = total - 1
  <2>1. CASE n = 0
    BY <1>1, <1>3, <2>1 DEF DescInv, CallState, AddBufDirect
  <2>2. CASE n # 0
    <3>1. where[head] = head /\ rank[head] = total - 1
      BY <2>2 DEF DescInv, CallState, AddBufDirect
    <3>2. head # idx
      BY <1>1, <1>2, <3>1, BeforeStep
    <3>3. QED
      BY <1>1, <1>3, <3>1, <3>2
  <2>3. QED
    BY <2>1, <2>2
<1>17. HeldChains'
  <2> SUFFICES ASSUME NEW h \in Held'
               PROVE  /\ where'[h] = h /\ cookies'[h] # NULL
                      /\ IF indirect_tables'[h]
                         THEN /\ desc_addr'[h] = TableAddr /\ vr16(desc_flags'[h]) = 4 /\ rank'[h] = 0
                              /\ \A d \in Descs : where'[d] = h => d = h
                         ELSE \A d \in Descs : where'[d] = h => Segment(d, rank[h], outs[h])'
    BY DEF HeldChains
  <2>1. CASE h = head
    <3>1. n = total - 1 /\ cookies'[head] = cookie /\ ~indirect_tables'[head]
      BY <1>1, <2>1 DEF AddBufDirect, Held, DescInv, TypeOK
    <3>2. cookies'[h] # NULL
      BY <2>1, <3>1 DEF AddBufDirect, DescInv, CallState
    <3>3. \A d \in Descs : where'[d] = h => Segment(d, rank[h], outs[h])'
      BY <1>3, <1>15, <1>16, <2>1 DEF Segment, AddBufDirect
    <3>4. QED
      BY <1>16, <2>1, <3>1, <3>2, <3>3
  <2>2. CASE h # head
    <3>1. h \in published /\ h \in Descs
      BY <2>2 DEF AddBufDirect, Held, DescInv, TypeOK
    <3>2. where[h] = h /\ h # idx
      BY <1>2, <3>1, BeforeStep DEF DescInv, HeldChains, Held
    <3>3. \A d \in Descs : where'[d] = h => d # idx /\ where[d] = h
      BY <1>3, <2>2
    <3>4. cookies'[h] = cookies[h] /\ indirect_tables'[h] = indirect_tables[h] /\ outs'[h] = outs[h]
      BY <2>2, <3>1 DEF AddBufDirect, DescInv, TypeOK
    <3>5. QED
      BY <1>3, <3>1, <3>2, <3>3, <3>4 DEF DescInv, HeldChains, Held, Segment
  <2>3. QED
    BY <2>1, <2>2
<1>18. CallState'
  <2>1. /\ head' = head /\ total' = total /\ out_num' = out_num /\ n' = n + 1
        /\ cookie' = cookie /\ freed' = freed /\ published' = published
        /\ pc' \in {"direct", "ring"} /\ cookie # NULL /\ freed = 0
        /\ pc' = "direct" => n < total - 1 /\ num_free' = num_free
    BY <1>1 DEF AddBufDirect, DescInv, CallState
  <2>2. \A d \in Descs : where'[d] = head => rank'[d] >= total - (n + 1)
    BY <1>1, <1>3, <1>9, <1>10
  <2>3. QED
    BY <1>1, <1>3, <1>15, <1>16, <2>1, <2>2 DEF CallState
<1>19. QED
  BY <1>6, <1>7, <1>8, <1>11, <1>12, <1>13, <1>17, <1>18 DEF DescInv

\* VirtQueue_AddBuf, the store to the avail ring.
LEMMA RingInv ==
  ASSUME DescInv, AddBufRing
  PROVE  DescInv'
<1>1. TypeOK'
  BY DEF DescInv, TypeOK, AddBufRing, descVars, locals
<1>2. FreeListIntact'
  BY DEF DescInv, FreeListIntact, FreeCount, Top, IsFree, AddBufRing, descVars, locals
<1>3. Owned' /\ Places' /\ Links' /\ EndMarks'
  BY DEF DescInv, AddBufRing, descVars, locals, Owned, Owners, Places, Links, EndMarks,
         IsFree, Growing
<1>4. HeldChains'
  BY DEF DescInv, AddBufRing, descVars, locals, HeldChains, Held, Segment
<1>5. CallState'
  BY DEF DescInv, AddBufRing, descVars, locals, CallState
<1>6. QED
  BY <1>1, <1>2, <1>3, <1>4, <1>5 DEF DescInv

\* VirtQueue_AddBuf, the store to avail->idx: the chain is the device's.
LEMMA IdxInv ==
  ASSUME DescInv, AddBufIdx
  PROVE  DescInv'
<1>1. TypeOK'
  BY DescAssumption DEF DescInv, TypeOK, AddBufIdx, Return, descVars, CallState, Words
<1>2. FreeListIntact'
  BY DEF DescInv, FreeListIntact, FreeCount, Top, IsFree, AddBufIdx, Return, descVars,
         CallState, TypeOK
<1>3. Owned' /\ Places' /\ Links' /\ EndMarks'
  BY DEF DescInv, AddBufIdx, Return, descVars, Owned, Owners, Places, Links, EndMarks,
         IsFree, Growing
<1>4. HeldChains'
  BY DEF DescInv, AddBufIdx, Return, descVars, HeldChains, Held, Segment
<1>5. CallState'
  BY DEF DescInv, AddBufIdx, Return, CallState
<1>6. QED
  BY <1>1, <1>2, <1>3, <1>4, <1>5 DEF DescInv

\* VirtQueue_GetBuf, num_free takes in what the walk freed.
LEMMA DoneInv ==
  ASSUME DescInv, GetBufDone
  PROVE  DescInv'
<1>1. num_free + freed \in 0 .. Num /\ FreeCount = num_free + freed
  BY BeforeStep DEF GetBufDone, FreeCount, DescInv, TypeOK
<1>2. TypeOK'
  BY <1>1, DescAssumption DEF DescInv, TypeOK, GetBufDone, CountFreed, Return, descVars, Words
<1>3. FreeListIntact'
  BY <1>1 DEF DescInv, FreeListIntact, FreeCount, Top, IsFree, GetBufDone, CountFreed, Return,
              descVars
<1>4. Owned' /\ Places' /\ Links' /\ EndMarks'
  BY DEF DescInv, GetBufDone, Return, descVars, Owned, Owners, Places, Links, EndMarks,
         IsFree, Growing
<1>5. HeldChains'
  BY DEF DescInv, GetBufDone, Return, descVars, HeldChains, Held, Segment
<1>6. CallState'
  BY DEF DescInv, GetBufDone, Return, CallState
<1>7. QED
  BY <1>2, <1>3, <1>4, <1>5, <1>6 DEF DescInv

\* A descriptor of a chain goes back to the free list.
LEMMA FreeDescList ==
  ASSUME DescInv, NEW d \in Descs, where[d] # NULL, FreeDesc(d),
         pc \in {"idle", "free"}, pc' \in {"free", "done"}, num_free' = num_free
  PROVE  /\ FreeListIntact'
         /\ rank' \in [Descs -> 0 .. Num - 1] /\ freed' \in 0 .. Num
         /\ \A e \in Descs : e # d =>
              /\ where'[e] = where[e] /\ rank'[e] = rank[e] /\ desc_next'[e] = desc_next[e]
              /\ desc_addr'[e] = desc_addr[e] /\ desc_flags'[e] = desc_flags[e]
         /\ where'[d] = NULL
<1>1. FreeCount = num_free + freed /\ Top = free_head
  BY DEF FreeCount, Top, DescInv, TypeOK
<1>2. FreeCount' = FreeCount + 1 /\ Top' = d
  BY <1>1 DEF FreeCount, Top, FreeDesc, DescInv, TypeOK
<1>3. /\ Cardinality(FreeIn([where EXCEPT ![d] = NULL])) = Cardinality(FreeIn(where)) + 1
      /\ Cardinality(FreeIn(where)) < Num
  BY FreeInGive DEF DescInv, TypeOK
<1>4. FreeCount \in Nat /\ FreeCount < Num
  BY <1>3, BeforeStep
<1>5. FreeCount' = Cardinality({e \in Descs : IsFree(e)})'
  <2>1. {e \in Descs : IsFree(e)}' = FreeIn([where EXCEPT ![d] = NULL])
    BY DEF FreeDesc, FreeIn, IsFree
  <2>2. QED
    BY <1>2, <1>3, <2>1, BeforeStep
<1>6. /\ \A e \in Descs : e # d =>
           /\ where'[e] = where[e] /\ rank'[e] = rank[e] /\ desc_next'[e] = desc_next[e]
           /\ desc_addr'[e] = desc_addr[e] /\ desc_flags'[e] = desc_flags[e]
      /\ where'[d] = NULL /\ rank'[d] = FreeCount /\ desc_next'[d] = free_head
  BY <1>1 DEF FreeDesc, FreeLink, DescInv, TypeOK
<1>7. ThreadsFree(where, rank, desc_next, FreeCount, free_head)
  BY <1>1 DEF DescInv, FreeListIntact
<1>8. rank \in [Descs -> Nat] /\ where \in [Descs -> Descs \cup {NULL}]
  BY DEF DescInv, TypeOK
<1>9. ThreadsFree(where', rank', desc_next', FreeCount + 1, d)
  <2>1. \A e \in Descs : where'[e] = NULL /\ e # d =>
          where[e] = NULL /\ rank'[e] = rank[e] /\ desc_next'[e] = desc_next[e] /\ rank[e] < FreeCount
    BY <1>6, <1>7 DEF ThreadsFree
  <2>2. \A e \in Descs : where'[e] = NULL => rank'[e] < FreeCount + 1
    BY <1>4, <1>6, <1>8, <2>1
  <2>3. \A e, f \in Descs : where'[e] = NULL /\ where'[f] = NULL /\ rank'[e] = rank'[f] => e = f
    BY <1>6, <1>7, <1>8, <2>1 DEF ThreadsFree
  <2>4. ASSUME NEW e \in Descs, where'[e] = NULL, rank'[e] > 0
        PROVE  /\ desc_next'[e] \in Descs /\ where'[desc_next'[e]] = NULL
               /\ rank'[desc_next'[e]] = rank'[e] - 1
    <3>1. CASE e = d
      <4>1. free_head \in Descs /\ where[free_head] = NULL /\ rank[free_head] = FreeCount - 1
        BY <1>4, <1>6, <1>7, <2>4, <3>1 DEF ThreadsFree
      <4>2. QED
        BY <1>6, <3>1, <4>1
    <3>2. CASE e # d
      <4>1. where[e] = NULL /\ rank'[e] = rank[e] /\ desc_next'[e] = desc_next[e]
        BY <2>1, <2>4, <3>2
      <4>2. desc_next[e] \in Descs /\ where[desc_next[e]] = NULL /\ rank[desc_next[e]] = rank[e] - 1
        BY <1>7, <2>4, <4>1 DEF ThreadsFree
      <4>3. QED
        BY <1>6, <4>1, <4>2
    <3>3. QED
      BY <3>1, <3>2
  <2>5. QED
    BY <1>4, <1>6, <2>2, <2>3, <2>4 DEF ThreadsFree
<1>10. FreeListIntact'
  BY <1>2, <1>5, <1>9 DEF FreeListIntact
<1>11. rank' \in [Descs -> 0 .. Num - 1] /\ freed' \in 0 .. Num
  BY <1>1, <1>4, DescAssumption DEF FreeDesc, DescInv, TypeOK
<1>12. QED
  BY <1>6, <1>10, <1>11

\* VirtQueue_GetBuf, one round of the walk: a descriptor of the chain becomes
\* the top of the free list.
LEMMA FreeInv ==
  ASSUME DescInv, GetBufFree
  PROVE  DescInv'
<1>1. /\ idx \in Descs /\ where[idx] = head /\ head \in Descs /\ head \notin published
      /\ \A d \in Descs : where[d] = head => rank[d] <= rank[idx]
      /\ rank[idx] \in Nat
  BY DEF GetBufFree, DescInv, CallState, TypeOK
<1>2. FreeDesc(idx) /\ where[idx] # NULL /\ pc = "free" /\ pc' \in {"free", "done"}
      /\ num_free' = num_free
  BY <1>1, BeforeStep DEF GetBufFree
<1>3. /\ FreeListIntact'
      /\ rank' \in [Descs -> 0 .. Num - 1] /\ freed' \in 0 .. Num
      /\ \A e \in Descs : e # idx =>
           /\ where'[e] = where[e] /\ rank'[e] = rank[e] /\ desc_next'[e] = desc_next[e]
           /\ desc_addr'[e] = desc_addr[e] /\ desc_flags'[e] = desc_flags[e]
      /\ where'[idx] = NULL
  BY <1>1, <1>2, FreeDescList
<1>4. HasNext(vr16(desc_flags[idx])) <=> rank[idx] > 0
  BY <1>1, <1>2 DEF DescInv, EndMarks, IsFree
<1>5. rank[idx] > 0 => /\ vr16(desc_next[idx]) \in Descs
                       /\ where[vr16(desc_next[idx])] = head
                       /\ rank[vr16(desc_next[idx])] = rank[idx] - 1
  BY <1>1, <1>2 DEF DescInv, Links, IsFree, Growing
<1>6. \A d \in Descs : rank[d] \in Nat
  BY DEF DescInv, TypeOK
<1>7. \A d \in Descs : where[d] = head /\ d # idx => rank[d] < rank[idx]
  BY <1>1, <1>6 DEF DescInv, Places
<1>8. TypeOK'
  <2>1. desc_next[idx] \in Words /\ vr16(desc_next[idx]) \in Words
    BY <1>1, SwapTwice DEF DescInv, TypeOK
  <2>2. QED
    BY <1>1, <1>3, <2>1, BeforeStep, DescAssumption
       DEF DescInv, TypeOK, GetBufFree, FreeDesc, FreeLink, Words
<1>9. Owned'
  <2>1. \A d \in Descs : where'[d] = head => rank[idx] > 0
    BY <1>2, <1>3, <1>6, <1>7, <1>1
  <2>2. \A d \in Descs : where'[d] # NULL => d # idx /\ where[d] = where'[d]
    BY <1>3
  <2>3. QED
    BY <1>1, <1>2, <1>4, <2>1, <2>2 DEF DescInv, Owned, Owners, IsFree, GetBufFree
<1>10. Places'
  <2>1. \A d, e \in Descs : where'[d] = where'[e] /\ rank'[d] = rank'[e] /\ where'[d] # NULL => d = e
    BY <1>3 DEF DescInv, Places
  <2>2. \A d, e \in Descs : where'[d] = NULL /\ where'[e] = NULL /\ rank'[d] = rank'[e] => d = e
    BY <1>3 DEF FreeListIntact, ThreadsFree
  <2>3. QED
    BY <2>1, <2>2 DEF Places
<1>11. Links'
  <2> SUFFICES ASSUME NEW d \in Descs, where'[d] # NULL, rank'[d] > 0
               PROVE  LET e == vr16(desc_next'[d]) IN
                      e \in Descs /\ where'[e] = where'[d] /\ rank'[e] = rank'[d] - 1
    BY <1>2 DEF Links, Growing, IsFree
  <2>1. d # idx /\ where[d] # NULL /\ rank[d] > 0
    BY <1>3
  <2>2. vr16(desc_next[d]) \in Descs /\ where[vr16(desc_next[d])] = where[d]
        /\ rank[vr16(desc_next[d])] = rank[d] - 1
    BY <1>2, <2>1 DEF DescInv, Links, IsFree, Growing
  <2>3. vr16(desc_next[d]) # idx
    BY <1>1, <1>6, <1>7, <2>1, <2>2
  <2>4. QED
    BY <1>3, <2>1, <2>2, <2>3
<1>12. EndMarks'
  BY <1>3 DEF DescInv, EndMarks, IsFree
<1>13. HeldChains'
  <2>1. Held' = published /\ Held = published
    BY <1>2 DEF Held, GetBufFree
  <2>2. \A h \in published : h \in Descs /\ h # idx /\ (\A d \in Descs : where'[d] = h => d # idx /\ where[d] = h)
    BY <1>1, <1>3, <2>1, BeforeStep DEF DescInv, HeldChains, TypeOK
  <2>3. cookies' = cookies /\ indirect_tables' = indirect_tables /\ outs' = outs
    BY DEF GetBufFree
  <2>4. QED
    BY <1>3, <2>1, <2>2, <2>3 DEF DescInv, HeldChains, Segment
<1>14. CallState'
  <2>1. pc' = "free" => rank[idx] > 0 /\ idx' = vr16(desc_next[idx])
    BY <1>2, <1>4 DEF GetBufFree
  <2>2. pc' = "free" => idx' \in Descs /\ idx' # idx /\ where'[idx'] = head /\ rank'[idx'] = rank[idx] - 1
    BY <1>1, <1>3, <1>5, <1>6, <2>1
  <2>3. pc' = "free" => \A d \in Descs : where'[d] = head => rank'[d] <= rank[idx] - 1
    BY <1>1, <1>2, <1>3, <1>6, <1>7
  <2>4. head' = head /\ published' = published
    BY DEF GetBufFree
  <2>5. QED
    BY <1>1, <1>2, <2>2, <2>3, <2>4 DEF CallState
<1>15. QED
  BY <1>3, <1>8, <1>9, <1>10, <1>11, <1>12, <1>13, <1>14 DEF DescInv

\* The device hands a head back: its chain, complete until then, has no owner
\* but the walk that frees it, or is freed at once.
LEMMA TakeInv ==
  ASSUME DescInv, NEW id \in published, GetBufTake(id)
  PROVE  DescInv'
<1>1. /\ id \in Descs /\ id \in Held /\ where[id] = id /\ cookies[id] # NULL
      /\ pc = "idle" /\ freed = 0 /\ n = 0 /\ Held = published /\ Owners = published
      /\ num_free' = num_free
  BY DEF GetBufTake, DescInv, TypeOK, HeldChains, Held, Owners, CallState
<1>2. where[id] # NULL
  BY <1>1, BeforeStep
<1>3. /\ \A h \in Descs : h # id => /\ cookies'[h] = cookies[h] /\ outs'[h] = outs[h]
                                   /\ indirect_tables'[h] = indirect_tables[h]
      /\ published' = published \ {id} /\ head' = id /\ idx' = id
  BY <1>1 DEF GetBufTake, DescInv, TypeOK
<1>4. CASE indirect_tables[id]
  <2>1. FreeDesc(id) /\ pc' = "done"
    BY <1>4 DEF GetBufTake
  <2>2. /\ FreeListIntact'
        /\ rank' \in [Descs -> 0 .. Num - 1] /\ freed' \in 0 .. Num
        /\ \A e \in Descs : e # id =>
             /\ where'[e] = where[e] /\ rank'[e] = rank[e] /\ desc_next'[e] = desc_next[e]
             /\ desc_addr'[e] = desc_addr[e] /\ desc_flags'[e] = desc_flags[e]
        /\ where'[id] = NULL
    BY <1>1, <1>2, <2>1, FreeDescList
  <2>3. \A d \in Descs : where[d] = id => d = id
    BY <1>1, <1>4 DEF DescInv, HeldChains
  <2>4. \A d \in Descs : where'[d] # NULL => d # id /\ where[d] = where'[d] /\ where[d] # id
    BY <2>2, <2>3
  <2>5. TypeOK'
    BY <1>1, <2>1, <2>2, BeforeStep, DescAssumption
       DEF DescInv, TypeOK, GetBufTake, FreeDesc, FreeLink, Words
  <2>6. Owned'
    BY <1>1, <1>3, <2>1, <2>4 DEF DescInv, Owned, Owners, IsFree
  <2>7. Places'
    <3>1. \A d, e \in Descs : where'[d] = where'[e] /\ rank'[d] = rank'[e] /\ where'[d] # NULL => d = e
      BY <2>2, <2>4 DEF DescInv, Places
    <3>2. \A d, e \in Descs : where'[d] = NULL /\ where'[e] = NULL /\ rank'[d] = rank'[e] => d = e
      BY <2>2 DEF FreeListIntact, ThreadsFree
    <3>3. QED
      BY <3>1, <3>2 DEF Places
  <2>8. Links'
    <3> SUFFICES ASSUME NEW d \in Descs, where'[d] # NULL, rank'[d] > 0
                 PROVE  LET e == vr16(desc_next'[d]) IN
                        e \in Descs /\ where'[e] = where'[d] /\ rank'[e] = rank'[d] - 1
      BY <2>1 DEF Links, Growing, IsFree
    <3>1. d # id /\ where[d] # NULL /\ where[d] # id /\ rank[d] > 0
      BY <2>2, <2>4
    <3>2. vr16(desc_next[d]) \in Descs /\ where[vr16(desc_next[d])] = where[d]
          /\ rank[vr16(desc_next[d])] = rank[d] - 1
      BY <1>1, <3>1 DEF DescInv, Links, IsFree, Growing
    <3>3. vr16(desc_next[d]) # id
      BY <1>1, <3>1, <3>2
    <3>4. QED
      BY <2>2, <3>1, <3>2, <3>3
  <2>9. EndMarks'
    BY <2>2, <2>4 DEF DescInv, EndMarks, IsFree
  <2>10. HeldChains'
    <3>1. Held' = published \ {id}
      BY <1>3, <2>1 DEF Held
    <3>2. \A h \in published \ {id} : h \in Descs /\ h \in Held /\ h # id
      BY <1>1 DEF DescInv, TypeOK
    <3>3. \A h \in published \ {id}, d \in Descs : where'[d] = h => d # id /\ where[d] = h
      BY <2>4, <3>2, BeforeStep
    <3>4. QED
      BY <1>3, <2>2, <3>1, <3>2, <3>3 DEF DescInv, HeldChains, Segment
  <2>11. CallState'
    BY <2>1 DEF CallState
  <2>12. QED
    BY <2>2, <2>5, <2>6, <2>7, <2>8, <2>9, <2>10, <2>11 DEF DescInv
<1>5. CASE ~indirect_tables[id]
  <2>1. pc' = "free" /\ UNCHANGED <<descVars, free_head, freed, where, rank>>
    BY <1>5 DEF GetBufTake
  <2>2. TypeOK'
    BY <1>1, <2>1, BeforeStep DEF DescInv, TypeOK, GetBufTake, descVars
  <2>3. FreeListIntact'
    BY <1>1, <2>1 DEF DescInv, FreeListIntact, FreeCount, Top, IsFree, descVars
  <2>4. Owned' /\ Places' /\ EndMarks'
    BY <1>1, <1>3, <2>1 DEF DescInv, Owned, Owners, Places, EndMarks, IsFree, descVars
  <2>5. Links'
    BY <1>1, <2>1 DEF DescInv, Links, Growing, IsFree, descVars
  <2>6. HeldChains'
    <3>1. Held' = published \ {id}
      BY <1>3, <2>1 DEF Held
    <3>2. \A h \in published \ {id} : h \in Descs /\ h \in Held /\ h # id
      BY <1>1 DEF DescInv, TypeOK
    <3>3. QED
      BY <1>3, <2>1, <3>1, <3>2 DEF DescInv, HeldChains, Segment, descVars
  <2>7. \A d \in Descs : where[d] = id => rank[d] <= rank[id]
    BY <1>1, <1>5 DEF DescInv, HeldChains, Segment
  <2>8. CallState'
    BY <1>1, <1>3, <2>1, <2>7 DEF CallState
  <2>9. QED
    BY <2>2, <2>3, <2>4, <2>5, <2>6, <2>8 DEF DescInv
<1>6. QED
  BY <1>4, <1>5

\* A step that changes nothing.
LEMMA StutterInv ==
  ASSUME DescInv, UNCHANGED dtVars
  PROVE  DescInv'
<1>1. TypeOK' /\ FreeListIntact' /\ Owned' /\ Places'
  BY DEF DescInv, dtVars, descVars, locals, TypeOK, FreeListIntact, FreeCount, Top, IsFree,
         Owned, Owners, Places
<1>2. Links' /\ EndMarks'
  BY DEF DescInv, dtVars, descVars, locals, IsFree, Growing, Links, EndMarks
<1>3. HeldChains' /\ CallState'
  BY DEF DescInv, dtVars, descVars, locals, HeldChains, Held, Segment, CallState
<1>4. QED
  BY <1>1, <1>2, <1>3 DEF DescInv

\* Every step of AddBuf and GetBuf keeps the invariant.
LEMMA NextInv == DescInv /\ [Next]_dtVars => DescInv'
<1> SUFFICES ASSUME DescInv, [Next]_dtVars PROVE DescInv'
  OBVIOUS
<1>1. ASSUME NEW c \in Cookies, NEW s \in Shapes, AddBufEnter(c, s[1], s[2]) PROVE DescInv'
  BY <1>1, EnterInv
<1>2. CASE AddBufTable
  BY <1>2, TableInv
<1>3. CASE AddBufNoTable
  BY <1>3, NoTableInv
<1>4. CASE AddBufDirect
  BY <1>4, DirectInv
<1>5. CASE AddBufRing
  BY <1>5, RingInv
<1>6. CASE AddBufIdx
  BY <1>6, IdxInv
<1>7. ASSUME NEW id \in published, GetBufTake(id) PROVE DescInv'
  BY <1>7, TakeInv
<1>8. CASE GetBufFree
  BY <1>8, FreeInv
<1>9. CASE GetBufDone
  BY <1>9, DoneInv
<1>10. CASE UNCHANGED dtVars
  BY <1>10, StutterInv
<1>11. QED
  BY <1>1, <1>2, <1>3, <1>4, <1>5, <1>6, <1>7, <1>8, <1>9, <1>10 DEF Next, AddBuf, GetBuf

-----------------------------------------------------------------------------
(* The theorems *)

\* VirtQueue_AddBuf and VirtQueue_GetBuf keep the inductive invariant, in
\* whatever order requests come and the device hands heads back.
THEOREM DescInvariant == Spec => []DescInv
<1>1. QED
  BY InitInv, NextInv, PTL DEF Spec

\* Every index AddBuf and GetBuf store or follow is a 16-bit word, num_free
\* stays within the queue size and the walk never counts more than the queue.
THEOREM TypeCorrect == Spec => []TypeOK
<1>1. DescInv => TypeOK
  BY DEF DescInv
<1>2. QED
  BY <1>1, DescInvariant, PTL

\* The free list of virtqueue.c visits every free descriptor exactly once and
\* num_free counts them, for every queue size and both byte orders.
THEOREM FreeListSafe == Spec => []FreeListIntact
<1>1. DescInv => FreeListIntact
  BY DEF DescInv
<1>2. QED
  BY <1>1, DescInvariant, PTL

\* A chain the device may read is the request AddBuf was given, until GetBuf
\* takes it back, whatever happens to other descriptors meanwhile.
THEOREM ChainsSafe == Spec => []ChainsIntact
<1>1. ASSUME DescInv, NEW h \in published
      PROVE  /\ where[h] = h
             /\ cookies[h] # NULL
             /\ IF indirect_tables[h]
                THEN desc_addr[h] = TableAddr /\ vr16(desc_flags[h]) = 4 /\ rank[h] = 0
                ELSE \A d \in Descs : where[d] = h =>
                       /\ Segment(d, rank[h], outs[h])
                       /\ rank[d] = rank[h] => d = h
                       /\ rank[d] > 0 =>
                            LET e == vr16(desc_next[d]) IN
                            e \in Descs /\ where[e] = h /\ rank[e] = rank[d] - 1
  <2>1. h \in Held /\ h \in Descs /\ h # NULL
    BY <1>1, BeforeStep DEF Held, DescInv, TypeOK
  <2>2. pc = "direct" => h # head
    BY <1>1 DEF DescInv, CallState
  <2>3. \A d \in Descs : where[d] = h => ~Growing(d) /\ ~IsFree(d)
    BY <2>1, <2>2 DEF Growing, IsFree
  <2>4. \A d \in Descs : where[d] = h /\ rank[d] > 0 =>
          LET e == vr16(desc_next[d]) IN
          e \in Descs /\ where[e] = h /\ rank[e] = rank[d] - 1
    BY <1>1, <2>3 DEF DescInv, Links
  <2>5. where[h] = h
    BY <1>1, <2>1 DEF DescInv, HeldChains
  <2>6. \A d \in Descs : where[d] = h /\ rank[d] = rank[h] => d = h
    BY <1>1, <2>1, <2>5 DEF DescInv, Places
  <2>7. QED
    BY <1>1, <2>1, <2>4, <2>6 DEF DescInv, HeldChains
<1>2. DescInv => ChainsIntact
  BY <1>1 DEF ChainsIntact, Segment
<1>3. QED
  BY <1>2, DescInvariant, PTL

\* Once the device has handed every head back and no call is in progress, all
\* descriptors VirtQueue_Allocate set up are free again.
THEOREM NoLeak == Spec => []NothingLeaks
<1>1. ASSUME DescInv, pc = "idle", published = {} PROVE num_free = Num
  <2>1. \A d \in Descs : where[d] = NULL
    BY <1>1 DEF DescInv, Owned, Owners, IsFree
  <2>2. FreeIn(where) = Descs
    BY <2>1 DEF FreeIn
  <2>3. FreeCount = Num
    BY <1>1, <2>2, BeforeStep, DescsFinite
  <2>4. FreeCount = num_free
    BY <1>1 DEF FreeCount, DescInv, CallState, TypeOK
  <2>5. QED
    BY <2>3, <2>4
<1>2. DescInv => NothingLeaks
  BY <1>1 DEF NothingLeaks
<1>3. QED
  BY <1>2, DescInvariant, PTL
=============================================================================
