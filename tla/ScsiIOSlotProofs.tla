--------------------------- MODULE ScsiIOSlotProofs ---------------------------
(***************************************************************************)
(* Proofs about the pipeline slots of ScsiIO and the requests they carry:  *)
(* no slot is lost or handed out twice, the occupancy counters are exact,  *)
(* a request is answered at most once, and with what the device answered.  *)
(*                                                                         *)
(* The argument follows the cookie.  A published cookie is a token that is *)
(* in the ring, in the hands of a task that has not routed it yet, or      *)
(* stashed for a DoIO.  A slot is freed once because its cookie is one     *)
(* token; the exception is slot 0, whose cookie DoIO publishes too.  Then  *)
(* req_id no longer names the slot, and no completion can free it.  A      *)
(* request is answered by whoever takes its slot or finds it refused, and  *)
(* only one of them can.  It is answered truthfully because the buffers of *)
(* a token belong to one request, unless a DoIO takes those of slot 0.     *)
(***************************************************************************)
EXTENDS ScsiIOProofs

-----------------------------------------------------------------------------
(* The inductive invariant *)

\* Task w took the completion <<u, s>> off the ring and has not routed it yet.
Holds(w, u, s) == pc[w] \in Routing /\ cookie[w] = <<u, s>>

\* Task w is about to free the slot.
Frees(w, u, s) == pc[w] = "c_free" /\ cookie[w] = <<u, s>>
Freed(u, s) == \E w \in Units : Frees(w, u, s)

Stashed(u, s) == doio_pending_cookie[u] = <<u, s>>

NoToken(u, s) ==
  /\ \A h \in Heads : cookies[h] # <<u, s>>
  /\ \A w \in Units : ~Holds(w, u, s)
  /\ ~Stashed(u, s)

OneToken(u, s) ==
  /\ \A h, k \in Heads : cookies[h] = <<u, s>> /\ cookies[k] = <<u, s>> => h = k
  /\ \A w, v \in Units : Holds(w, u, s) /\ Holds(v, u, s) => w = v
  /\ \A h \in Heads, w \in Units : ~(cookies[h] = <<u, s>> /\ Holds(w, u, s))
  /\ Stashed(u, s) => /\ \A h \in Heads : cookies[h] # <<u, s>>
                      /\ \A w \in Units : ~Holds(w, u, s)

\* req_cmd->id names the slot: no DoIO has overwritten it since the Submit.
OwnId(u, s) == req_id[<<u, s>>] = EncodeId(u, s)

\* The unit's DoIO has published its command and not seen it come back.
Awaits(u) == InLoop(u) \/ pc[u] = "d_kick" \/ (pc[u] = "d_clear" /\ ~own[u])

\* VirtIOSCSI_Submit holds the slot.
Prep(u, s) == pc[u] \in Submitting /\ slot[u] = s

\* Only slot 0's id is ever overwritten under a request.
Alias(u, s) == inflight[u][s] # NULL /\ ~OwnId(u, s) => s = 0

\* A slot that a completion may free, or that is free, has at most one token.
Single(u, s) == OwnId(u, s) \/ inflight[u][s] = NULL \/ Freed(u, s) => OneToken(u, s)

\* A slot that is free, or about to be, has none, save the one of a DoIO.
Spent(u, s) ==
  inflight[u][s] = NULL \/ Freed(u, s) =>
    NoToken(u, s) \/ (~OwnId(u, s) /\ s = 0 /\ Awaits(u))

\* Nobody else knows a slot that Submit is preparing.
Prepared(u, s) ==
  Prep(u, s) =>
    /\ pc[u] # "s_count" => NoToken(u, s)
    /\ \A w \in Units : ~Holds(w, u, s) /\ ~Frees(w, u, s)
    /\ pc[u] \in {"s_add", "s_count"} => OwnId(u, s) /\ inflight[u][s] = cur[u]
    /\ pc[u] \in {"s_prepare", "s_release"} => inflight[u][s] = NULL

\* One task frees a slot, and the slot is occupied by the request it replies.
Freeing(u, s) ==
  /\ \A w \in Units : Frees(w, u, s) =>
       inflight[u][s] # NULL /\ ~dma[u][s] /\ done[w] = inflight[u][s]
  /\ \A w, v \in Units : Frees(w, u, s) /\ Frees(v, u, s) => w = v

SlotOK(u, s) ==
  Alias(u, s) /\ Single(u, s) /\ Spent(u, s) /\ Prepared(u, s) /\ Freeing(u, s)

\* While a DoIO is between its header and its answer the id is not slot 0's.
DoIOId(u) == Awaits(u) \/ pc[u] \in {"d_add", "d_clear"} => ~OwnId(u, 0)

\* Every cookie is accounted for, as long as no DoIO gave up on its command.
TokenInv ==
  ~timed_out => /\ \A u \in Units, s \in Slots : SlotOK(u, s)
                /\ \A u \in Units : DoIOId(u)

\* Membership and distinctness, for the stack of free slots.
On(q, s) == \E i \in 1 .. Len(q) : q[i] = s
Distinct(q) == \A i, j \in 1 .. Len(q) : q[i] = q[j] => i = j

\* The free list holds, once, the slots that no request occupies and that
\* Submit does not hold; a mapping belongs to a request.
FreeOK(u) ==
  /\ Distinct(free_list[u])
  /\ \A s \in Slots : On(free_list[u], s) <=> inflight[u][s] = NULL /\ ~Prep(u, s)
  /\ \A s \in Slots : dma[u][s] => inflight[u][s] # NULL

SlotInv == TokenInv /\ (~timed_out => \A u \in Units : FreeOK(u))

-----------------------------------------------------------------------------
(* Steps that move no cookie *)

\* A task's step that TokenInv does not see.
QuietTask(w) ==
  /\ (pc[w] \in Routing)' = (pc[w] \in Routing)
  /\ (pc[w] = "c_free")' = (pc[w] = "c_free")
  /\ pc[w] \in Routing \cup {"c_free"} => cookie'[w] = cookie[w]
  /\ pc[w] = "c_free" => done'[w] = done[w]
  /\ (pc[w] \in Submitting)' = (pc[w] \in Submitting)
  /\ pc[w] \in Submitting => pc'[w] = pc[w] /\ slot'[w] = slot[w] /\ cur'[w] = cur[w]
  /\ Awaits(w)' = Awaits(w)
  /\ pc'[w] \in {"d_add", "d_clear"} => Awaits(w) \/ pc[w] \in {"d_add", "d_clear"}

\* No cookie moves, no slot or id changes.
Still == UNCHANGED <<inflight, dma, req_id, cookies, doio_pending_cookie, timed_out>>

\* A step that moves no cookie preserves TokenInv.
LEMMA QuietSlots ==
  ASSUME TokenInv, Still, \A w \in Units : QuietTask(w)
  PROVE  TokenInv'
<1> USE DEF Still, QuietTask
<1> SUFFICES ASSUME ~timed_out PROVE TokenInv'
  BY DEF TokenInv
<1>1. ASSUME NEW u \in Units, NEW s \in Slots
      PROVE  SlotOK(u, s)'
  <2>0. SlotOK(u, s)
    BY DEF TokenInv
  <2>1. /\ \A w \in Units : Holds(w, u, s)' = Holds(w, u, s) /\ Frees(w, u, s)' = Frees(w, u, s)
        /\ Stashed(u, s)' = Stashed(u, s) /\ OwnId(u, s)' = OwnId(u, s)
        /\ Prep(u, s)' = Prep(u, s)
    BY DEF Holds, Frees, Stashed, OwnId, Prep, EncodeId
  <2>2. NoToken(u, s)' = NoToken(u, s) /\ OneToken(u, s)' = OneToken(u, s) /\ Freed(u, s)' = Freed(u, s)
    BY <2>1 DEF NoToken, OneToken, Freed
  <2>3. Alias(u, s)' /\ Single(u, s)' /\ Spent(u, s)'
    BY <2>0, <2>1, <2>2 DEF SlotOK, Alias, Single, Spent
  <2>4. Prepared(u, s)'
    BY <2>0, <2>1, <2>2 DEF SlotOK, Prepared, Prep, Submitting
  <2>5. Freeing(u, s)'
    BY <2>0, <2>1, <2>2 DEF SlotOK, Freeing, Frees
  <2>6. QED
    BY <2>3, <2>4, <2>5 DEF SlotOK
<1>2. ASSUME NEW u \in Units
      PROVE  DoIOId(u)'
  BY DEF TokenInv, DoIOId, OwnId, EncodeId
<1>3. QED
  BY <1>1, <1>2 DEF TokenInv

\* The other tasks' locals during a step of u.
OthersSame(u) ==
  \A v \in Units : v # u =>
    /\ pc'[v] = pc[v] /\ cookie'[v] = cookie[v] /\ slot'[v] = slot[v]
    /\ cur'[v] = cur[v] /\ done'[v] = done[v] /\ ret'[v] = ret[v] /\ own'[v] = own[v]

\* A step of task u leaves the local variables of the others alone.
LEMMA Others ==
  ASSUME BasicInv, NEW u \in Units, Task(u)
  PROVE  OthersSame(u)
  BY TaskFrame DEF Locals, OthersSame

\* A step of u that moves no cookie.
LEMMA QuietStep ==
  ASSUME BasicInv, TokenInv, NEW u \in Units, Task(u), Still, QuietTask(u)
  PROVE  TokenInv'
<1>1. ASSUME NEW v \in Units, v # u
      PROVE  QuietTask(v)
  BY <1>1, Others DEF OthersSame, QuietTask, Awaits, InLoop
<1>2. QED
  BY <1>1, QuietSlots

\* The steps that move no cookie.
LEMMA QuietActions ==
  ASSUME BasicInv, TokenInv, NEW u \in Units, Task(u),
         TaskWake(u) \/ GetMsg(u) \/ DispatchReply(u) \/ KickBatch(u)
         \/ HarvestCoalesce(u) \/ HarvestSignal(u) \/ CompleteReply(u) \/ DoIOKick(u)
         \/ DoIOWait(u) \/ DoIODone(u)
  PROVE  TokenInv'
<1> USE DEF BasicInv, TypeOK, SharedTypeOK, TaskTypeOK, Still, QuietTask, Awaits, InLoop,
        Submitting, Routing, Completing, LocalOK, LocalAt, AtRequest, Goto
<1>0. ASSUME Still, QuietTask(u)
      PROVE  TokenInv'
  BY <1>0, QuietStep
<1>1. CASE TaskWake(u)
  <2>1. Still
    BY <1>1 DEF TaskWake, unitVars, bufVars, histVars, ringVars, Kick, SetUsedEvent
  <2>2. QuietTask(u)
    BY <1>1 DEF TaskWake, taskVars
  <2>3. QED
    BY <1>0, <2>1, <2>2
<1>2. CASE GetMsg(u)
  <2>1. Still
    BY <1>2 DEF GetMsg, unitVars, bufVars, histVars, ringVars, Kick, SetUsedEvent
  <2>2. QuietTask(u)
    <3>1. pc[u] = "getmsg" /\ own'[u] = own[u] /\ ret'[u] = ret[u]
      BY <1>2 DEF GetMsg
    <3>2. PICK l \in {"s_pop", "d_try", "reply", "kick", "wait"} : pc' = [pc EXCEPT ![u] = l]
      BY <1>2, GetMsgCases
    <3>3. pc'[u] \in {"s_pop", "d_try", "reply", "kick", "wait"}
      BY <3>2
    <3>4. QED
      BY <3>1, <3>3
  <2>3. QED
    BY <1>0, <2>1, <2>2
<1>3. CASE DispatchReply(u)
  <2>1. Still
    BY <1>3 DEF DispatchReply, unitVars, bufVars, histVars, ringVars, Kick, SetUsedEvent
  <2>2. QuietTask(u)
    BY <1>3 DEF DispatchReply, taskVars
  <2>3. QED
    BY <1>0, <2>1, <2>2
<1>4. CASE KickBatch(u)
  <2>1. Still
    BY <1>4 DEF KickBatch, unitVars, bufVars, histVars, ringVars, Kick, SetUsedEvent
  <2>2. QuietTask(u)
    BY <1>4 DEF KickBatch, taskVars
  <2>3. QED
    BY <1>0, <2>1, <2>2
<1>5. CASE HarvestCoalesce(u)
  <2>1. Still
    BY <1>5 DEF HarvestCoalesce, unitVars, bufVars, histVars, ringVars, Kick, SetUsedEvent
  <2>2. QuietTask(u)
    BY <1>5 DEF HarvestCoalesce, taskVars
  <2>3. QED
    BY <1>0, <2>1, <2>2
<1>6. CASE HarvestSignal(u)
  <2>1. Still
    BY <1>6 DEF HarvestSignal, unitVars, bufVars, histVars, ringVars, Kick, SetUsedEvent
  <2>2. QuietTask(u)
    BY <1>6 DEF HarvestSignal, taskVars
  <2>3. QED
    BY <1>0, <2>1, <2>2
<1>7. CASE CompleteReply(u)
  <2>1. Still
    BY <1>7 DEF CompleteReply, unitVars, bufVars, histVars, ringVars, Kick, SetUsedEvent
  <2>2. QuietTask(u)
    BY <1>7 DEF CompleteReply, taskVars
  <2>3. QED
    BY <1>0, <2>1, <2>2
<1>8. CASE DoIOKick(u)
  <2>1. Still
    BY <1>8 DEF DoIOKick, unitVars, bufVars, histVars, ringVars, Kick, SetUsedEvent
  <2>2. QuietTask(u)
    BY <1>8 DEF DoIOKick, taskVars
  <2>3. QED
    BY <1>0, <2>1, <2>2
<1>9. CASE DoIOWait(u)
  <2>1. Still
    BY <1>9 DEF DoIOWait, unitVars, bufVars, histVars, ringVars, Kick, SetUsedEvent
  <2>2. QuietTask(u)
    BY <1>9 DEF DoIOWait, taskVars
  <2>3. QED
    BY <1>0, <2>1, <2>2
<1>10. CASE DoIODone(u)
  <2>1. Still
    BY <1>10 DEF DoIODone, unitVars, bufVars, histVars, ringVars, Kick, SetUsedEvent
  <2>2. QuietTask(u)
    BY <1>10 DEF DoIODone, taskVars
  <2>3. QED
    BY <1>0, <2>1, <2>2
<1>11. QED
  BY <1>1, <1>2, <1>3, <1>4, <1>5, <1>6, <1>7, <1>8, <1>9, <1>10

-----------------------------------------------------------------------------
(* Steps that move a cookie, take or give a slot *)

\* Cookie c is stored under the free head k.
Published(k, c) ==
  /\ cookies[k] = NULL /\ cookies'[k] = c
  /\ \A h \in Heads \ {k} : cookies'[h] = cookies[h]

\* Cookie c comes off the ring with its head k.
Taken(k, c) ==
  /\ cookies[k] = c /\ cookies'[k] = NULL
  /\ \A h \in Heads \ {k} : cookies'[h] = cookies[h]

\* A slot whose cookie appears nowhere it was not.
LEMMA SlotUnmoved ==
  ASSUME NEW x \in Units, NEW s \in Slots, SlotOK(x, s),
         \A h \in Heads : cookies'[h] = <<x, s>> => cookies[h] = <<x, s>>,
         \A w \in Units : /\ Holds(w, x, s)' => Holds(w, x, s)
                          /\ Frees(w, x, s)' => Frees(w, x, s) /\ done'[w] = done[w],
         Stashed(x, s)' => Stashed(x, s), OwnId(x, s)' = OwnId(x, s),
         s = 0 => Awaits(x)' = Awaits(x),
         inflight'[x][s] = inflight[x][s], dma'[x][s] => dma[x][s],
         Prep(x, s)' => Prep(x, s) /\ pc'[x] = pc[x] /\ cur'[x] = cur[x]
  PROVE  SlotOK(x, s)'
<1>1. NoToken(x, s) => NoToken(x, s)'
  BY DEF NoToken
<1>2. OneToken(x, s) => OneToken(x, s)'
  BY DEF OneToken
<1>3. Freed(x, s)' => Freed(x, s)
  BY DEF Freed
<1>4. Alias(x, s)' /\ Single(x, s)' /\ Spent(x, s)'
  BY <1>1, <1>2, <1>3 DEF SlotOK, Alias, Single, Spent
<1>5. Prepared(x, s)'
  BY <1>1 DEF SlotOK, Prepared
<1>6. Freeing(x, s)'
  BY DEF SlotOK, Freeing
<1>7. QED
  BY <1>4, <1>5, <1>6 DEF SlotOK

\* VirtIOSCSI_Submit takes a free slot: nobody knows it.
LEMMA PopTokens ==
  ASSUME BasicInv, SlotInv, NEW u \in Units, Task(u), SubmitPop(u), ~timed_out
  PROVE  TokenInv'
<1>1. CASE free_list[u] = <<>>
  <2>1. Still /\ QuietTask(u)
    BY <1>1 DEF SubmitPop, Still, QuietTask, bufVars, histVars, ringVars, BasicInv, TypeOK,
       SharedTypeOK, Goto, Awaits, InLoop, Submitting, Routing, Completing
  <2>2. QED
    BY <2>1, QuietStep DEF SlotInv
<1>2. CASE free_list[u] # <<>>
  <2> DEFINE t == Head(free_list[u])
  <2>1. /\ pc[u] = "s_pop" /\ pc'[u] = "s_prepare" /\ slot'[u] = t /\ t \in Slots
        /\ Still
    BY <1>2, SlotSeq DEF SubmitPop, Still, bufVars, histVars, ringVars, BasicInv, TypeOK,
       SharedTypeOK, UnitTypeOK, TaskTypeOK, Goto
  <2>2. On(free_list[u], t)
    BY <1>2 DEF On, BasicInv, TypeOK, UnitTypeOK
  <2>3. inflight[u][t] = NULL
    BY <2>1, <2>2 DEF SlotInv, FreeOK
  <2>4. ASSUME NEW x \in Units, NEW s \in Slots
        PROVE  SlotOK(x, s)'
    <3>1. SlotOK(x, s) /\ SlotOK(u, t)
      BY <2>1 DEF SlotInv, TokenInv
    <3>2. /\ \A w \in Units : Holds(w, x, s)' = Holds(w, x, s) /\ Frees(w, x, s)' = Frees(w, x, s)
          /\ Stashed(x, s)' = Stashed(x, s) /\ OwnId(x, s)' = OwnId(x, s)
          /\ Awaits(x)' = Awaits(x)
      BY <2>1, Others DEF OthersSame, Holds, Frees, Stashed, OwnId, EncodeId, Still, Awaits,
        InLoop, Routing,
         Completing
    <3>3. NoToken(x, s)' = NoToken(x, s) /\ OneToken(x, s)' = OneToken(x, s) /\ Freed(x, s)' = Freed(x, s)
      BY <2>1, <3>2 DEF NoToken, OneToken, Freed, Still
    <3>4. Alias(x, s)' /\ Single(x, s)' /\ Spent(x, s)'
      BY <2>1, <3>1, <3>2, <3>3 DEF SlotOK, Alias, Single, Spent, Still
    <3>5. Prepared(x, s)'
      <4>1. CASE x = u /\ s = t
        <5>1. NoToken(u, t) /\ \A w \in Units : ~Frees(w, u, t)
          BY <2>1, <2>3, <3>1 DEF SlotOK, Spent, Freeing, Awaits, InLoop, Completing
        <5>2. QED
          BY <2>1, <2>3, <3>2, <3>3, <4>1, <5>1 DEF Prepared, NoToken, Still
      <4>2. CASE ~(x = u /\ s = t)
        BY <2>1, <3>1, <3>2, <3>3, <4>2, Others DEF OthersSame, SlotOK, Prepared, Prep,
          Still, Submitting
      <4>3. QED
        BY <4>1, <4>2
    <3>6. Freeing(x, s)'
      BY <2>1, <3>1, <3>2, Others DEF OthersSame, SlotOK, Freeing, Frees, Still
    <3>7. QED
      BY <3>4, <3>5, <3>6 DEF SlotOK
  <2>5. ASSUME NEW x \in Units
        PROVE  DoIOId(x)'
    BY <2>1, Others DEF OthersSame, SlotInv, TokenInv, DoIOId, OwnId, EncodeId, Still,
      Awaits, InLoop, Completing
  <2>6. QED
    BY <2>4, <2>5 DEF TokenInv
<1>3. QED
  BY <1>1, <1>2

\* Submit fills slot t in: req_cmd->id names it again.
LEMMA PrepareTokens ==
  ASSUME BasicInv, TokenInv, ~timed_out, NEW u \in Units, Task(u), SubmitPrepare(u)
  PROVE  TokenInv'
<1> DEFINE t == slot[u]
<1>1. /\ pc[u] = "s_prepare" /\ pc'[u] \in {"s_add", "s_release"} /\ t \in Slots /\ slot'[u] = t
      /\ cur'[u] = cur[u] /\ <<u, t>> \in Cookies
  BY ScsiIOAssumption DEF SubmitPrepare, BasicInv, TypeOK, SharedTypeOK, TaskTypeOK, Goto,
    LocalOK, LocalAt, Submitting
<1>2. /\ req_id' = [req_id EXCEPT ![<<u, t>>] = EncodeId(u, t)]
      /\ UNCHANGED <<cookies, doio_pending_cookie>>
  BY DEF SubmitPrepare, ringVars
<1>3. OthersSame(u)
  BY Others
<1>4. /\ pc'[u] = "s_add" => inflight'[u][t] = cur[u]
      /\ pc'[u] = "s_release" => inflight'[u][t] = inflight[u][t]
      /\ \A x \in Units, s \in Slots : <<x, s>> # <<u, t>> =>
           inflight'[x][s] = inflight[x][s] /\ dma'[x][s] = dma[x][s]
  <2>1. CASE /\ dma' = [dma EXCEPT ![u][t] = cur[u] \in Direct]
             /\ inflight' = [inflight EXCEPT ![u][t] = cur[u]]
             /\ Goto(u, "s_add")
    BY <1>1, <2>1 DEF BasicInv, TypeOK, UnitTypeOK, SharedTypeOK, Goto
  <2>2. CASE Goto(u, "s_release") /\ UNCHANGED <<dma, inflight>>
    BY <1>1, <2>2 DEF BasicInv, TypeOK, SharedTypeOK, Goto
  <2>3. QED
    BY <2>1, <2>2 DEF SubmitPrepare
<1>5. ASSUME NEW x \in Units, NEW s \in Slots
      PROVE  SlotOK(x, s)'
  <2>1. SlotOK(x, s) /\ SlotOK(u, t)
    BY <1>1 DEF TokenInv
  <2>2. /\ \A w \in Units : Holds(w, x, s)' = Holds(w, x, s) /\ Frees(w, x, s)' = Frees(w, x, s)
        /\ Stashed(x, s)' = Stashed(x, s) /\ Awaits(x)' = Awaits(x)
        /\ Prep(x, s)' = Prep(x, s)
    BY <1>1, <1>2, <1>3 DEF OthersSame, Holds, Frees, Stashed, Awaits, InLoop, Prep, Routing,
      Completing, Submitting
  <2>3. NoToken(x, s)' = NoToken(x, s) /\ OneToken(x, s)' = OneToken(x, s) /\ Freed(x, s)' = Freed(x, s)
    BY <1>2, <2>2 DEF NoToken, OneToken, Freed
  <2>4. CASE x = u /\ s = t
    <3>1. /\ Prep(u, t) /\ NoToken(u, t) /\ \A w \in Units : ~Holds(w, u, t) /\ ~Frees(w, u, t)
          /\ inflight[u][t] = NULL
      BY <1>1, <2>1 DEF SlotOK, Prepared, Prep, Submitting
    <3>2. OwnId(u, t)'
      BY <1>1, <1>2 DEF OwnId, BasicInv, TypeOK, BufTypeOK, EncodeId
    <3>3. OneToken(u, t)
      BY <3>1 DEF NoToken, OneToken
    <3>4. QED
      BY <1>1, <1>4, <2>2, <2>3, <2>4, <3>1, <3>2, <3>3 DEF SlotOK, Alias, Single, Spent,
        Prepared, Freeing
  <2>5. CASE ~(x = u /\ s = t)
    <3>1. OwnId(x, s)' = OwnId(x, s) /\ inflight'[x][s] = inflight[x][s] /\ dma'[x][s] = dma[x][s]
      BY <1>2, <1>4, <2>5, ScsiIOAssumption DEF OwnId, EncodeId, BasicInv, TypeOK, BufTypeOK
    <3>2. Prepared(x, s)'
      BY <1>1, <1>3, <2>1, <2>2, <2>3, <2>5, <3>1 DEF SlotOK, Prepared, Prep, OthersSame
    <3>3. Freeing(x, s)'
      BY <1>1, <1>3, <2>1, <2>2, <3>1 DEF SlotOK, Freeing, Frees, OthersSame
    <3>4. QED
      BY <2>1, <2>2, <2>3, <3>1, <3>2, <3>3 DEF SlotOK, Alias, Single, Spent
  <2>6. QED
    BY <2>4, <2>5
<1>6. ASSUME NEW x \in Units
      PROVE  DoIOId(x)'
  <2>1. x # u => OwnId(x, 0)' = OwnId(x, 0)
    BY <1>2, ReqBufCookie DEF OwnId, EncodeId, BasicInv, TypeOK, BufTypeOK, req_buf
  <2>2. QED
    BY <1>1, <1>3, <2>1 DEF OthersSame, TokenInv, DoIOId, Awaits, InLoop, Completing
<1>7. QED
  BY <1>5, <1>6 DEF TokenInv

\* AddBuf publishes slot t's cookie, or is refused and the slot is unmarked.
LEMMA SubmitAddTokens ==
  ASSUME BasicInv, TokenInv, ~timed_out, NEW u \in Units, Task(u), SubmitAddBuf(u)
  PROVE  TokenInv'
<1> DEFINE t == slot[u]
<1>1. /\ pc[u] = "s_add" /\ pc'[u] \in {"s_count", "s_release"} /\ t \in Slots /\ slot'[u] = t
      /\ cur'[u] = cur[u] /\ <<u, t>> \in Cookies
  BY ScsiIOAssumption DEF SubmitAddBuf, BasicInv, TypeOK, SharedTypeOK, TaskTypeOK, Goto,
    LocalOK, LocalAt, Submitting
<1>2. UNCHANGED <<req_id, doio_pending_cookie>>
  BY DEF SubmitAddBuf, bufVars
<1>3. OthersSame(u)
  BY Others
<1>4. /\ pc'[u] = "s_count" => /\ inflight'[u][t] = inflight[u][t]
                               /\ \E k \in Heads : Published(k, <<u, t>>)
      /\ pc'[u] = "s_release" => inflight'[u][t] = NULL /\ ~dma'[u][t] /\ UNCHANGED cookies
      /\ \A x \in Units, s \in Slots : <<x, s>> # <<u, t>> =>
           inflight'[x][s] = inflight[x][s] /\ dma'[x][s] = dma[x][s]
  <2>1. CASE ~RingFull /\ AddBuf(FreeHead, <<u, t>>) /\ Goto(u, "s_count") /\ UNCHANGED <<inflight, dma>>
    <3>1. Published(FreeHead, <<u, t>>) /\ FreeHead \in Heads
      BY <2>1, FreeHeadFree DEF AddBuf, BasicInv, RingOK, RingTypeOK, Published
    <3>2. pc'[u] = "s_count"
      BY <2>1 DEF Goto, BasicInv, TypeOK, SharedTypeOK
    <3>3. QED
      BY <2>1, <3>1, <3>2
  <2>2. CASE /\ inflight' = [inflight EXCEPT ![u][t] = NULL]
             /\ dma' = [dma EXCEPT ![u][t] = FALSE]
             /\ Goto(u, "s_release")
             /\ UNCHANGED ringVars
    BY <1>1, <2>2 DEF BasicInv, TypeOK, UnitTypeOK, SharedTypeOK, Goto, ringVars
  <2>3. QED
    BY <2>1, <2>2 DEF SubmitAddBuf
<1>5. ASSUME NEW x \in Units, NEW s \in Slots
      PROVE  SlotOK(x, s)'
  <2>1. SlotOK(x, s) /\ SlotOK(u, t)
    BY <1>1 DEF TokenInv
  <2>2. /\ \A w \in Units : Holds(w, x, s)' = Holds(w, x, s) /\ Frees(w, x, s)' = Frees(w, x, s)
        /\ Stashed(x, s)' = Stashed(x, s) /\ Awaits(x)' = Awaits(x)
        /\ Prep(x, s)' = Prep(x, s) /\ OwnId(x, s)' = OwnId(x, s)
        /\ Freed(x, s)' = Freed(x, s)
    BY <1>1, <1>2, <1>3 DEF OthersSame, Holds, Frees, Freed, Stashed, Awaits, InLoop, Prep,
      Routing, Completing,
       Submitting, OwnId, EncodeId
  <2>3. CASE x = u /\ s = t
    <3>1. /\ Prep(u, t) /\ NoToken(u, t) /\ \A w \in Units : ~Holds(w, u, t) /\ ~Frees(w, u, t)
          /\ inflight[u][t] = cur[u] /\ OwnId(u, t) /\ cur[u] # NULL
      BY <1>1, <2>1, ScsiIOAssumption DEF SlotOK, Prepared, Prep, Submitting, BasicInv,
        LocalOK, LocalAt, AtRequest
    <3>2. CASE pc'[u] = "s_count"
      <4>1. OneToken(x, s)'
        BY <1>4, <2>2, <2>3, <3>1, <3>2 DEF NoToken, OneToken, Published
      <4>2. QED
        BY <1>1, <1>4, <2>2, <2>3, <3>1, <3>2, <4>1 DEF SlotOK, Alias, Single, Spent,
          Prepared, Freeing, Freed
    <3>3. CASE pc'[u] = "s_release"
      <4>1. NoToken(x, s)' /\ OneToken(x, s)'
        BY <1>1, <1>4, <2>2, <2>3, <3>1, <3>3 DEF NoToken, OneToken
      <4>2. QED
        BY <1>1, <1>4, <2>2, <2>3, <3>1, <3>3, <4>1 DEF SlotOK, Alias, Single, Spent,
          Prepared, Freeing
    <3>4. QED
      BY <1>1, <3>2, <3>3
  <2>4. CASE ~(x = u /\ s = t)
    <3>1. inflight'[x][s] = inflight[x][s] /\ dma'[x][s] = dma[x][s]
      BY <1>4, <2>4
    <3>2. \A h \in Heads : cookies'[h] = <<x, s>> <=> cookies[h] = <<x, s>>
      <4>1. <<x, s>> # NULL /\ <<x, s>> # <<u, t>>
        BY <2>4, RingAssumption, ScsiIOAssumption
      <4>2. QED
        BY <1>1, <1>4, <4>1 DEF Published
    <3>3. QED
      BY ZenonT(40), <1>1, <1>3, <2>1, <2>2, <2>4, <3>1, <3>2, SlotUnmoved
         DEF OthersSame, Frees, Prep, Submitting
  <2>5. QED
    BY <2>3, <2>4
<1>6. ASSUME NEW x \in Units
      PROVE  DoIOId(x)'
  BY <1>1, <1>2, <1>3 DEF OthersSame, TokenInv, DoIOId, Awaits, InLoop, Completing, OwnId,
    EncodeId
<1>7. QED
  BY <1>5, <1>6 DEF TokenInv

\* Submit is done with slot t: it counts as in flight, or goes back to the list.
LEMMA LeaveTokens ==
  ASSUME BasicInv, TokenInv, ~timed_out, NEW u \in Units, Task(u), SubmitCount(u) \/ SubmitRelease(u)
  PROVE  TokenInv'
<1>1. Still /\ pc[u] \in Submitting /\ pc'[u] \in {"getmsg", "reply"}
  BY DEF SubmitCount, SubmitRelease, Still, bufVars, histVars, ringVars, Submitting,
    BasicInv, TypeOK, SharedTypeOK, Goto
<1>2. OthersSame(u)
  BY Others
<1>3. ASSUME NEW x \in Units, NEW s \in Slots
      PROVE  SlotOK(x, s)'
  <2>1. SlotOK(x, s)
    BY DEF TokenInv
  <2>2. /\ \A w \in Units : Holds(w, x, s)' = Holds(w, x, s) /\ Frees(w, x, s)' = Frees(w, x, s)
        /\ Stashed(x, s)' = Stashed(x, s) /\ Awaits(x)' = Awaits(x)
        /\ OwnId(x, s)' = OwnId(x, s)
    BY <1>1, <1>2 DEF Still, OthersSame, Holds, Frees, Stashed, Awaits, InLoop, Routing,
      Completing,
       Submitting, OwnId, EncodeId
  <2>3. NoToken(x, s)' = NoToken(x, s) /\ OneToken(x, s)' = OneToken(x, s) /\ Freed(x, s)' = Freed(x, s)
    BY <1>1, <2>2 DEF NoToken, OneToken, Freed, Still
  <2>4. Prepared(x, s)'
    BY <1>1, <1>2, <2>1, <2>2, <2>3 DEF SlotOK, Prepared, Prep, OthersSame, Still,
      Submitting
  <2>5. Freeing(x, s)'
    BY <1>1, <1>2, <2>1, <2>2 DEF SlotOK, Freeing, Frees, OthersSame, Still, Submitting
  <2>6. QED
    BY <1>1, <2>1, <2>2, <2>3, <2>4, <2>5 DEF SlotOK, Alias, Single, Spent, Still
<1>4. ASSUME NEW x \in Units
      PROVE  DoIOId(x)'
  BY <1>1, <1>2 DEF OthersSame, TokenInv, DoIOId, Awaits, InLoop, Completing, OwnId,
    EncodeId, Still
<1>5. QED
  BY <1>3, <1>4 DEF TokenInv

\* The conditions of SlotUnmoved, save those on inflight, dma and req_id, hold for
\* a slot that is not the cookie task u works on.
LEMMA ElsewhereUnmoved ==
  ASSUME BasicInv, NEW u \in Units, Task(u), NEW x \in Units, NEW s \in Slots, SlotOK(x, s),
         cookie[u] # <<x, s>> \/ pc[u] \notin Routing \cup {"c_free"},
         cookie'[u] # <<x, s>> \/ pc'[u] \notin Routing \cup {"c_free"},
         pc'[u] \notin Submitting,
         \A h \in Heads : cookies'[h] = <<x, s>> => cookies[h] = <<x, s>>,
         Stashed(x, s)' => Stashed(x, s),
         OwnId(x, s)' = OwnId(x, s),
         <<x, s>> = <<u, 0>> => Awaits(u)' = Awaits(u),
         inflight'[x][s] = inflight[x][s], dma'[x][s] => dma[x][s]
  PROVE  SlotOK(x, s)'
<1>1. OthersSame(u)
  BY Others
<1>2. \A w \in Units : /\ Holds(w, x, s)' => Holds(w, x, s)
                       /\ Frees(w, x, s)' => Frees(w, x, s) /\ done'[w] = done[w]
  BY <1>1 DEF OthersSame, Holds, Frees
<1>3. s = 0 => Awaits(x)' = Awaits(x)
  BY <1>1 DEF OthersSame, Awaits, InLoop
<1>4. Prep(x, s)' => Prep(x, s) /\ pc'[x] = pc[x] /\ cur'[x] = cur[x]
  BY <1>1 DEF OthersSame, Prep
<1>5. QED
  BY <1>2, <1>3, <1>4, SlotUnmoved

\* A completion goes from the ring into the hands of task u.
LEMMA TakeTokens ==
  ASSUME BasicInv, TokenInv, ~timed_out, NEW u \in Units, Task(u), LockFree,
         NEW k \in Heads, NEW c \in Cookies, Taken(k, c), cookie'[u] = c,
         \/ pc[u] = "h_get" /\ pc'[u] = "h_route"
         \/ pc[u] \in {"d_check", "d_drain"} /\ pc'[u] = "d_route",
         UNCHANGED <<inflight, dma, req_id, doio_pending_cookie>>
  PROVE  TokenInv'
<1>1. OthersSame(u)
  BY Others
<1>2. Awaits(u)' = Awaits(u)
  BY DEF Awaits, InLoop, Completing
<1>3. ASSUME NEW x \in Units, NEW s \in Slots
      PROVE  SlotOK(x, s)'
  <2>1. SlotOK(x, s)
    BY DEF TokenInv
  <2>2. Stashed(x, s)' = Stashed(x, s) /\ OwnId(x, s)' = OwnId(x, s)
    BY DEF Stashed, OwnId, EncodeId
  <2>3. CASE c # <<x, s>>
    <3>1. \A h \in Heads : cookies'[h] = <<x, s>> => cookies[h] = <<x, s>>
      BY RingAssumption, ScsiIOAssumption DEF Taken
    <3>2. QED
      BY <1>2, <2>1, <2>2, <2>3, <3>1, ElsewhereUnmoved DEF Routing, Submitting
  <2>4. CASE c = <<x, s>>
    <3>1. /\ \A w \in Units : Frees(w, x, s)' = Frees(w, x, s)
          /\ \A w \in Units : Holds(w, x, s)' <=> Holds(w, x, s) \/ w = u
          /\ Prep(x, s)' = Prep(x, s) /\ Freed(x, s)' = Freed(x, s) /\ Awaits(x)' = Awaits(x)
      BY <1>1, <1>2, <2>4 DEF OthersSame, Frees, Holds, Prep, Freed, Routing, Submitting,
        Awaits, InLoop
    <3>2. OneToken(x, s) => OneToken(x, s)'
      BY <2>2, <2>4, <3>1, RingAssumption DEF OneToken, Taken
    <3>3. ~NoToken(x, s)
      BY <2>4 DEF NoToken, Taken
    <3>4. ~Prep(x, s)
      <4>1. Prep(x, s) => pc[x] = "s_count"
        BY <2>1, <3>3 DEF SlotOK, Prepared
      <4>2. pc[x] # "s_count"
        BY ScsiIOAssumption DEF BasicInv, LockOK, LockFree
      <4>3. QED
        BY <4>1, <4>2
    <3>5. Alias(x, s)' /\ Single(x, s)' /\ Spent(x, s)' /\ Prepared(x, s)'
      BY <2>1, <2>2, <3>1, <3>2, <3>3, <3>4 DEF SlotOK, Alias, Single, Spent, Prepared
    <3>6. \A w \in Units : Frees(w, x, s) => done'[w] = done[w]
      BY <1>1 DEF OthersSame, Frees
    <3>7. Freeing(x, s)'
      BY <2>1, <3>1, <3>6 DEF SlotOK, Freeing
    <3>8. QED
      BY <3>5, <3>7 DEF SlotOK
  <2>5. QED
    BY <2>3, <2>4
<1>4. ASSUME NEW x \in Units
      PROVE  DoIOId(x)'
  BY <1>1, <1>2 DEF OthersSame, TokenInv, DoIOId, Awaits, InLoop, OwnId, EncodeId
<1>5. QED
  BY <1>3, <1>4 DEF TokenInv

\* A cookie names a unit and a slot.
LEMMA CookiePair == \A c \in Cookies : \E y \in Units, t \in Slots : c = <<y, t>>
<1>1. \A c \in Units \X Slots : c[1] \in Units /\ c[2] \in Slots /\ c = <<c[1], c[2]>>
  OBVIOUS
<1>2. Cookies = Units \X Slots
  BY ScsiIOAssumption
<1>3. QED
  BY <1>1, <1>2, Zenon

\* A routed completion names its slot: req_cmd->id is the one Submit wrote.
LEMMA RoutedOwn ==
  ASSUME NEW x \in Units, NEW s \in Slots, Routed(<<x, s>>), BufTypeOK
  PROVE  OwnId(x, s) /\ inflight[x][s] # NULL
<1>1. <<x, s>> \in Cookies /\ req_id[<<x, s>>] \in Nat
  BY ScsiIOAssumption DEF BufTypeOK
<1>2. /\ req_id[<<x, s>>] \div Tag = x /\ req_id[<<x, s>>] % Tag = s
      /\ inflight[x][s] # NULL
  BY DEF Routed
<1>3. \A n \in Nat : n = (n \div 65536) * 65536 + (n % 65536)
  OBVIOUS
<1>4. QED
  BY <1>1, <1>2, <1>3 DEF OwnId, EncodeId, Tag

\* Task u routes a completion to its slot and is about to free it.
LEMMA RouteTokens ==
  ASSUME BasicInv, TokenInv, ~timed_out, NEW u \in Units, Task(u),
         pc[u] \in {"h_route", "d_route"}, Routed(cookie[u]), CompleteStatus(u),
         cookie'[u] = cookie[u], InLoop(u)' = InLoop(u),
         UNCHANGED <<inflight, req_id, cookies, doio_pending_cookie>>
  PROVE  TokenInv'
<1>1. OthersSame(u)
  BY Others
<1>2. PICK y \in Units, t \in Slots : cookie[u] = <<y, t>>
  BY CookiePair DEF BasicInv, LocalOK, LocalAt, Routing
<1>3. pc'[u] = "c_free" /\ done'[u] = inflight[y][t]
  BY <1>2 DEF CompleteStatus, Goto, BasicInv, TypeOK, SharedTypeOK, TaskTypeOK
<1>4. /\ ~dma'[y][t]
      /\ \A x \in Units, s \in Slots : <<x, s>> # <<y, t>> => dma'[x][s] = dma[x][s]
  <2>1. dma' = [dma EXCEPT ![y][t] = FALSE]
    BY <1>2 DEF CompleteStatus
  <2>2. QED
    BY <2>1 DEF BasicInv, TypeOK, UnitTypeOK
<1>5. Awaits(u)' = Awaits(u)
  BY <1>3 DEF Awaits
<1>6. OwnId(y, t) /\ inflight[y][t] # NULL
  BY <1>2, RoutedOwn DEF BasicInv, TypeOK
<1>7. ASSUME NEW x \in Units, NEW s \in Slots
      PROVE  SlotOK(x, s)'
  <2>1. SlotOK(x, s)
    BY DEF TokenInv
  <2>2. Stashed(x, s)' = Stashed(x, s) /\ OwnId(x, s)' = OwnId(x, s)
    BY DEF Stashed, OwnId, EncodeId
  <2>3. CASE <<x, s>> # <<y, t>>
    BY <1>2, <1>3, <1>4, <1>5, <2>1, <2>2, <2>3, ElsewhereUnmoved DEF Submitting
  <2>4. CASE x = y /\ s = t
    <3>1. Holds(u, x, s) /\ ~NoToken(x, s)
      BY <1>2, <2>4 DEF Holds, NoToken, Routing
    <3>2. /\ ~Freed(x, s) /\ ~Prep(x, s) /\ OneToken(x, s)
      BY <1>6, <2>1, <2>4, <3>1 DEF SlotOK, Spent, Prepared, Single
    <3>3. /\ \A w \in Units : Frees(w, x, s)' <=> w = u
          /\ \A w \in Units : ~Holds(w, x, s)'
      BY <1>1, <1>2, <1>3, <2>4, <3>1, <3>2 DEF OthersSame, Frees, Freed, Holds, OneToken,
        Routing
    <3>4. ~Prep(x, s)'
      BY <1>1, <1>3, <3>2 DEF OthersSame, Prep, Submitting
    <3>5. NoToken(x, s)' /\ OneToken(x, s)'
      BY <2>2, <3>1, <3>2, <3>3 DEF NoToken, OneToken
    <3>6. QED
      BY <1>3, <1>4, <1>6, <2>2, <2>4, <3>3, <3>4, <3>5 DEF SlotOK, Alias, Single, Spent,
        Prepared, Freeing
  <2>5. QED
    BY <2>3, <2>4
<1>8. ASSUME NEW x \in Units
      PROVE  DoIOId(x)'
  BY <1>1, <1>3, <1>5 DEF OthersSame, TokenInv, DoIOId, Awaits, InLoop, OwnId, EncodeId
<1>9. QED
  BY <1>7, <1>8 DEF TokenInv

\* A completion no slot claims is stashed for a DoIO, or dropped.
LEMMA StashTokens ==
  ASSUME BasicInv, TokenInv, ~timed_out, NEW u \in Units, Task(u),
         pc[u] \in Routing, pc'[u] \in {"h_signal", "h_get", "d_drain"},
         InLoop(u)' = InLoop(u),
         \/ cookie[u] = req_buf(cookie[u][1]) /\ Stash(cookie[u])
         \/ UNCHANGED doio_pending_cookie,
         UNCHANGED <<inflight, dma, req_id, cookies>>
  PROVE  TokenInv'
<1>1. OthersSame(u)
  BY Others
<1>2. PICK y \in Units, t \in Slots : cookie[u] = <<y, t>>
  BY CookiePair DEF BasicInv, LocalOK, LocalAt
<1>3. Awaits(u)' = Awaits(u)
  BY DEF Awaits, Routing
<1>4. /\ \A x \in Units : doio_pending_cookie'[x] # <<y, t>> =>
           doio_pending_cookie'[x] = doio_pending_cookie[x]
  <2>1. CASE cookie[u] = req_buf(cookie[u][1]) /\ Stash(cookie[u])
    BY <1>2, <2>1 DEF Stash, BasicInv, TypeOK, SharedTypeOK
  <2>2. CASE UNCHANGED doio_pending_cookie
    BY <2>2
  <2>3. QED
    BY <2>1, <2>2
<1>5. ASSUME NEW x \in Units, NEW s \in Slots
      PROVE  SlotOK(x, s)'
  <2>1. SlotOK(x, s)
    BY DEF TokenInv
  <2>2. OwnId(x, s)' = OwnId(x, s)
    BY DEF OwnId, EncodeId
  <2>3. CASE <<x, s>> # <<y, t>>
    <3>1. Stashed(x, s)' => Stashed(x, s)
      BY <1>4, <2>3 DEF Stashed
    <3>2. QED
      BY <1>2, <1>3, <2>1, <2>2, <2>3, <3>1, ElsewhereUnmoved DEF Routing, Submitting
  <2>4. CASE x = y /\ s = t
    <3>1. Holds(u, x, s) /\ ~NoToken(x, s)
      BY <1>2, <2>4 DEF Holds, NoToken
    <3>2. ~Prep(x, s)
      BY <2>1, <3>1 DEF SlotOK, Prepared
    <3>3. ~Prep(x, s)'
      BY <1>1, <3>2 DEF OthersSame, Prep, Submitting
    <3>4. \A w \in Units : Holds(w, x, s)' <=> Holds(w, x, s) /\ w # u
      BY <1>1 DEF OthersSame, Holds, Routing
    <3>5. \A w \in Units : Frees(w, x, s)' = Frees(w, x, s) /\ (Frees(w, x, s) => done'[w] = done[w])
      BY <1>1 DEF OthersSame, Frees, Routing
    <3>6. OneToken(x, s) => OneToken(x, s)'
      BY <3>1, <3>4 DEF OneToken
    <3>7. Freed(x, s)' = Freed(x, s) /\ Awaits(x)' = Awaits(x)
      BY <1>1, <1>3, <3>5 DEF Freed, OthersSame, Awaits, InLoop
    <3>8. Alias(x, s)' /\ Single(x, s)' /\ Spent(x, s)' /\ Prepared(x, s)'
      BY <2>1, <2>2, <3>1, <3>3, <3>6, <3>7 DEF SlotOK, Alias, Single, Spent, Prepared
    <3>9. Freeing(x, s)'
      BY <2>1, <3>5 DEF SlotOK, Freeing
    <3>10. QED
      BY <3>8, <3>9 DEF SlotOK
  <2>5. QED
    BY <2>3, <2>4
<1>6. ASSUME NEW x \in Units
      PROVE  DoIOId(x)'
  BY <1>1, <1>3 DEF OthersSame, TokenInv, DoIOId, Awaits, InLoop, OwnId, EncodeId
<1>7. QED
  BY <1>5, <1>6 DEF TokenInv

\* The slot of the routed completion is freed.
LEMMA FreeTokens ==
  ASSUME BasicInv, TokenInv, ~timed_out, NEW u \in Units, Task(u), CompleteFree(u)
  PROVE  TokenInv'
<1>1. OthersSame(u)
  BY Others
<1>2. pc[u] = "c_free" /\ pc'[u] = "c_reply" /\ ret'[u] = ret[u]
  BY DEF CompleteFree, Goto, BasicInv, TypeOK, SharedTypeOK
<1>3. PICK y \in Units, t \in Slots : cookie[u] = <<y, t>>
  BY <1>2, CookiePair DEF BasicInv, LocalOK, LocalAt
<1>4. /\ inflight'[y][t] = NULL
      /\ \A x \in Units, s \in Slots : <<x, s>> # <<y, t>> => inflight'[x][s] = inflight[x][s]
  BY <1>3 DEF CompleteFree, BasicInv, TypeOK, UnitTypeOK
<1>5. UNCHANGED <<cookies, dma, req_id, doio_pending_cookie>>
  BY DEF CompleteFree, ringVars, bufVars
<1>6. Awaits(u)' = Awaits(u)
  BY <1>2 DEF Awaits, InLoop, Completing
<1>7. ASSUME NEW x \in Units, NEW s \in Slots
      PROVE  SlotOK(x, s)'
  <2>1. SlotOK(x, s)
    BY DEF TokenInv
  <2>2. Stashed(x, s)' = Stashed(x, s) /\ OwnId(x, s)' = OwnId(x, s)
    BY <1>5 DEF Stashed, OwnId, EncodeId
  <2>3. CASE <<x, s>> # <<y, t>>
    BY <1>2, <1>3, <1>4, <1>5, <1>6, <2>1, <2>2, <2>3, ElsewhereUnmoved DEF Submitting,
      Routing
  <2>4. CASE x = y /\ s = t
    <3>1. Frees(u, x, s) /\ Freed(x, s)
      BY <1>2, <1>3, <2>4 DEF Frees, Freed
    <3>2. \A w \in Units : Holds(w, x, s)' = Holds(w, x, s)
      BY <1>1, <1>2 DEF OthersSame, Holds, Routing
    <3>3. \A w \in Units : ~Frees(w, x, s)'
      BY <1>1, <1>2, <2>1, <3>1 DEF OthersSame, Frees, SlotOK, Freeing
    <3>4. ~Prep(x, s) /\ ~Prep(x, s)'
      BY <1>1, <1>2, <2>1, <3>1 DEF SlotOK, Prepared, OthersSame, Prep, Submitting
    <3>5. /\ NoToken(x, s)' = NoToken(x, s) /\ OneToken(x, s)' = OneToken(x, s)
          /\ Awaits(x)' = Awaits(x)
      BY <1>1, <1>5, <1>6, <2>2, <3>2 DEF NoToken, OneToken, OthersSame, Awaits, InLoop
    <3>6. QED
      BY <1>4, <2>1, <2>2, <2>4, <3>1, <3>3, <3>4, <3>5
      DEF SlotOK, Alias, Single, Spent, Prepared, Freeing
  <2>5. QED
    BY <2>3, <2>4
<1>8. ASSUME NEW x \in Units
      PROVE  DoIOId(x)'
  BY <1>1, <1>2, <1>5, <1>6 DEF OthersSame, TokenInv, DoIOId, Awaits, InLoop, OwnId,
    EncodeId
<1>9. QED
  BY <1>7, <1>8 DEF TokenInv

\* DoIO overwrites the header of slot 0: no completion can be routed to it now.
LEMMA TryTokens ==
  ASSUME BasicInv, TokenInv, ~timed_out, NEW u \in Units, Task(u), DoIOTry(u)
  PROVE  TokenInv'
<1>1. OthersSame(u)
  BY Others
<1>2. pc[u] = "d_try" /\ pc'[u] \in {"d_add", "d_done"}
  BY DEF DoIOTry, Goto, BasicInv, TypeOK, SharedTypeOK
<1>3. UNCHANGED <<inflight, dma, cookies, doio_pending_cookie>>
  BY DEF DoIOTry, ringVars, unitVars
<1>4. /\ ~OwnId(u, 0)'
      /\ \A x \in Units, s \in Slots : <<x, s>> # <<u, 0>> => OwnId(x, s)' = OwnId(x, s)
  <2>1. req_id' = [req_id EXCEPT ![<<u, 0>>] = 1] /\ u \in Nat
    BY ScsiIOAssumption DEF DoIOTry, req_buf
  <2>2. <<u, 0>> \in Cookies /\ \A x \in Units, s \in Slots : <<x, s>> \in Cookies
    BY ReqBufCookie, ScsiIOAssumption DEF req_buf
  <2>3. req_id \in [Cookies -> Nat]
    BY DEF BasicInv, TypeOK, BufTypeOK
  <2>4. u * 65536 + 0 # 1
    BY <2>1
  <2>5. QED
    BY <2>1, <2>2, <2>3, <2>4 DEF OwnId, EncodeId, Tag
<1>5. ~Awaits(u) /\ ~Awaits(u)'
  BY <1>2 DEF Awaits, InLoop, Completing
<1>6. ASSUME NEW x \in Units, NEW s \in Slots
      PROVE  SlotOK(x, s)'
  <2>1. SlotOK(x, s)
    BY DEF TokenInv
  <2>2. Stashed(x, s)' = Stashed(x, s)
    BY <1>3 DEF Stashed
  <2>3. CASE <<x, s>> # <<u, 0>>
    BY <1>2, <1>3, <1>4, <1>5, <2>1, <2>2, <2>3, ElsewhereUnmoved DEF Submitting, Routing
  <2>4. CASE x = u /\ s = 0
    <3>1. \A w \in Units : Holds(w, x, s)' = Holds(w, x, s)
      BY <1>1, <1>2 DEF OthersSame, Holds, Routing
    <3>2. \A w \in Units : Frees(w, x, s)' = Frees(w, x, s) /\ (Frees(w, x, s) => done'[w] = done[w])
      BY <1>1, <1>2 DEF OthersSame, Frees
    <3>3. ~Prep(x, s)'
      BY <1>2, <2>4 DEF Prep, Submitting
    <3>4. /\ NoToken(x, s)' = NoToken(x, s) /\ OneToken(x, s)' = OneToken(x, s)
          /\ Freed(x, s)' = Freed(x, s)
      BY <1>3, <2>2, <3>1, <3>2 DEF NoToken, OneToken, Freed
    <3>5. ~OwnId(x, s)'
      BY <1>4, <2>4
    <3>6. Alias(x, s)' /\ Single(x, s)' /\ Spent(x, s)' /\ Prepared(x, s)'
      BY <1>3, <1>5, <2>1, <2>4, <3>3, <3>4, <3>5 DEF SlotOK, Alias, Single, Spent, Prepared
    <3>7. Freeing(x, s)'
      BY <1>3, <2>1, <3>2 DEF SlotOK, Freeing
    <3>8. QED
      BY <3>6, <3>7 DEF SlotOK
  <2>5. QED
    BY <2>3, <2>4
<1>7. ASSUME NEW x \in Units
      PROVE  DoIOId(x)'
  <2>1. 0 \in Slots
    BY ScsiIOAssumption DEF Slots
  <2>2. QED
    BY <1>1, <1>4, <2>1 DEF OthersSame, TokenInv, DoIOId, Awaits, InLoop
<1>8. QED
  BY <1>6, <1>7 DEF TokenInv

\* DoIO publishes slot 0's cookie.
LEMMA DoIOAddTokens ==
  ASSUME BasicInv, TokenInv, ~timed_out, NEW u \in Units, Task(u), DoIOAddBuf(u)
  PROVE  TokenInv'
<1>1. OthersSame(u)
  BY Others
<1>2. /\ pc[u] = "d_add"
      /\ UNCHANGED <<inflight, dma, req_id, doio_pending_cookie, timed_out>>
  BY DEF DoIOAddBuf, unitVars, bufVars
<1>3. CASE Goto(u, "d_done") /\ UNCHANGED ringVars
  <2>1. pc'[u] = "d_done"
    BY <1>3 DEF Goto, BasicInv, TypeOK, SharedTypeOK
  <2>2. Still /\ QuietTask(u)
    BY <1>2, <1>3, <2>1 DEF Still, QuietTask, ringVars, Awaits, InLoop, Submitting, Routing,
      Completing
  <2>3. QED
    BY <2>2, QuietStep
<1>4. CASE ~RingFull /\ AddBuf(FreeHead, req_buf(u)) /\ Goto(u, "d_kick")
  <2>1. PICK k \in Heads : Published(k, <<u, 0>>)
    BY <1>4, FreeHeadFree DEF AddBuf, BasicInv, RingOK, RingTypeOK, Published, req_buf
  <2>2. pc'[u] = "d_kick"
    BY <1>4 DEF Goto, BasicInv, TypeOK, SharedTypeOK
  <2>3. ~Awaits(u) /\ Awaits(u)' /\ ~OwnId(u, 0)
    BY <1>2, <2>2 DEF Awaits, InLoop, Completing, TokenInv, DoIOId
  <2>4. ASSUME NEW x \in Units, NEW s \in Slots
        PROVE  SlotOK(x, s)'
    <3>1. SlotOK(x, s)
      BY DEF TokenInv
    <3>2. Stashed(x, s)' = Stashed(x, s) /\ OwnId(x, s)' = OwnId(x, s)
      BY <1>2 DEF Stashed, OwnId, EncodeId
    <3>3. CASE <<x, s>> # <<u, 0>>
      <4>1. \A h \in Heads : cookies'[h] = <<x, s>> => cookies[h] = <<x, s>>
        BY <2>1, <3>3 DEF Published
      <4>2. QED
        BY <1>2, <2>2, <3>1, <3>2, <3>3, <4>1, ElsewhereUnmoved DEF Submitting, Routing
    <3>4. CASE x = u /\ s = 0
      <4>1. \A w \in Units : Holds(w, x, s)' = Holds(w, x, s)
        BY <1>1, <1>2, <2>2 DEF OthersSame, Holds, Routing
      <4>2. \A w \in Units : Frees(w, x, s)' = Frees(w, x, s) /\ (Frees(w, x, s) => done'[w] = done[w])
        BY <1>1, <1>2, <2>2 DEF OthersSame, Frees
      <4>3. ~Prep(x, s)'
        BY <2>2, <3>4 DEF Prep, Submitting
      <4>4. /\ NoToken(x, s) => OneToken(x, s)'
        BY <2>1, <3>2, <3>4, <4>1 DEF NoToken, OneToken, Published
      <4>5. Freed(x, s)' = Freed(x, s)
        BY <4>2 DEF Freed
      <4>6. Alias(x, s)' /\ Single(x, s)' /\ Spent(x, s)' /\ Prepared(x, s)'
        BY <1>2, <2>3, <3>1, <3>2, <3>4, <4>3, <4>4, <4>5 DEF SlotOK, Alias, Single, Spent,
          Prepared
      <4>7. Freeing(x, s)'
        BY <1>2, <3>1, <4>2 DEF SlotOK, Freeing
      <4>8. QED
        BY <4>6, <4>7 DEF SlotOK
    <3>5. QED
      BY <3>3, <3>4
  <2>5. ASSUME NEW x \in Units
        PROVE  DoIOId(x)'
    BY <1>1, <1>2, <2>2 DEF OthersSame, TokenInv, DoIOId, Awaits, InLoop, OwnId, EncodeId
  <2>6. QED
    BY <2>4, <2>5 DEF TokenInv
<1>5. QED
  BY <1>3, <1>4 DEF DoIOAddBuf

\* DoIO has its answer: slot 0's cookie comes from the stash or off the ring.
LEMMA ConsumeTokens ==
  ASSUME BasicInv, TokenInv, ~timed_out, NEW u \in Units, Task(u),
         pc[u] \in {"d_check", "d_drain"}, pc'[u] = "d_clear", own'[u],
         \/ /\ doio_pending_cookie[u] = <<u, 0>>
            /\ doio_pending_cookie' = [doio_pending_cookie EXCEPT ![u] = NULL]
            /\ UNCHANGED cookies
         \/ /\ \E k \in Heads : Taken(k, <<u, 0>>)
            /\ UNCHANGED doio_pending_cookie,
         UNCHANGED <<inflight, dma, req_id>>
  PROVE  TokenInv'
<1>1. OthersSame(u)
  BY Others
<1>2. Awaits(u) /\ ~Awaits(u)' /\ ~OwnId(u, 0)
  BY DEF Awaits, InLoop, Completing, TokenInv, DoIOId
<1>3. /\ \A x \in Units : doio_pending_cookie'[x] # NULL => doio_pending_cookie'[x] = doio_pending_cookie[x]
      /\ \A h \in Heads : cookies'[h] # NULL => cookies'[h] = cookies[h]
  <2>1. CASE /\ doio_pending_cookie' = [doio_pending_cookie EXCEPT ![u] = NULL]
             /\ UNCHANGED cookies
    BY <2>1 DEF BasicInv, TypeOK, SharedTypeOK
  <2>2. CASE /\ \E k \in Heads : Taken(k, <<u, 0>>)
             /\ UNCHANGED doio_pending_cookie
    BY <2>2 DEF Taken
  <2>3. QED
    BY <2>1, <2>2
<1>4. \/ Stashed(u, 0) /\ ~Stashed(u, 0)' /\ UNCHANGED cookies
      \/ (\E k \in Heads : Taken(k, <<u, 0>>)) /\ UNCHANGED doio_pending_cookie
  BY RingAssumption, ReqBufCookie DEF Stashed, BasicInv, TypeOK, SharedTypeOK, req_buf
<1>5. ASSUME NEW x \in Units, NEW s \in Slots
      PROVE  SlotOK(x, s)'
  <2>1. SlotOK(x, s) /\ <<x, s>> # NULL
    BY RingAssumption, ScsiIOAssumption DEF TokenInv
  <2>2. OwnId(x, s)' = OwnId(x, s) /\ (Stashed(x, s)' => Stashed(x, s))
    BY <1>3, <2>1 DEF Stashed, OwnId, EncodeId
  <2>3. \A h \in Heads : cookies'[h] = <<x, s>> => cookies[h] = <<x, s>>
    BY <1>3, <2>1
  <2>4. CASE <<x, s>> # <<u, 0>>
    BY <2>1, <2>2, <2>3, <2>4, ElsewhereUnmoved DEF Submitting, Routing
  <2>5. CASE x = u /\ s = 0
    <3>1. \A w \in Units : Holds(w, x, s)' = Holds(w, x, s)
      BY <1>1 DEF OthersSame, Holds, Routing
    <3>2. \A w \in Units : Frees(w, x, s)' = Frees(w, x, s) /\ (Frees(w, x, s) => done'[w] = done[w])
      BY <1>1 DEF OthersSame, Frees
    <3>3. ~Prep(x, s)'
      BY <2>5 DEF Prep, Submitting
    <3>4. OneToken(x, s) => NoToken(x, s)'
      BY <1>4, <2>1, <2>2, <2>5, <3>1 DEF NoToken, OneToken, Taken, Stashed
    <3>5. NoToken(x, s)' => OneToken(x, s)'
      BY DEF NoToken, OneToken
    <3>6. Freed(x, s)' = Freed(x, s)
      BY <3>2 DEF Freed
    <3>7. Alias(x, s)' /\ Single(x, s)' /\ Spent(x, s)' /\ Prepared(x, s)'
      BY <1>2, <2>1, <2>2, <2>5, <3>3, <3>4, <3>5, <3>6 DEF SlotOK, Alias, Single, Spent,
        Prepared
    <3>8. Freeing(x, s)'
      BY <2>1, <3>2 DEF SlotOK, Freeing
    <3>9. QED
      BY <3>7, <3>8 DEF SlotOK
  <2>6. QED
    BY <2>4, <2>5
<1>6. ASSUME NEW x \in Units
      PROVE  DoIOId(x)'
  BY <1>1, <1>2 DEF OthersSame, TokenInv, DoIOId, Awaits, InLoop, OwnId, EncodeId
<1>7. QED
  BY <1>5, <1>6 DEF TokenInv

\* A DoIO that gave up is never forgotten.
LEMMA TimedOutStays ==
  ASSUME NEW u \in Units, Task(u), timed_out
  PROVE  timed_out'
<1> USE DEF histVars
<1>1. CASE DoIOClear(u)
  BY <1>1 DEF DoIOClear
<1>2. CASE \/ TaskWake(u) \/ GetMsg(u) \/ DispatchReply(u) \/ KickBatch(u) \/ SubmitPop(u)
           \/ SubmitPrepare(u) \/ SubmitAddBuf(u) \/ SubmitCount(u) \/ SubmitRelease(u)
  BY <1>2, Zenon DEF TaskWake, GetMsg, DispatchReply, KickBatch, SubmitPop, SubmitPrepare,
    SubmitAddBuf,
     SubmitCount, SubmitRelease
<1>3. CASE \/ HarvestGetBuf(u) \/ HarvestCoalesce(u) \/ HarvestRoute(u) \/ HarvestSignal(u)
           \/ CompleteFree(u) \/ CompleteReply(u)
  BY <1>3, Zenon DEF HarvestGetBuf, HarvestCoalesce, HarvestRoute, HarvestSignal,
    CompleteFree, CompleteReply
<1>4. CASE \/ DoIOTry(u) \/ DoIOAddBuf(u) \/ DoIOKick(u) \/ DoIODrain(u) \/ DoIORoute(u)
           \/ DoIOStash(u) \/ DoIOWait(u) \/ DoIODone(u)
  BY <1>4, Zenon DEF DoIOTry, DoIOAddBuf, DoIOKick, DoIODrain, DoIORoute, DoIOStash,
    DoIOWait, DoIODone
<1>5. QED
  BY <1>1, <1>2, <1>3, <1>4 DEF Task

\* GetBuf frees the head of the cookie it returns.
LEMMA GetBufTakes ==
  ASSUME BasicInv, GetBuf
  PROVE  Head(used) \in Heads /\ Returned \in Cookies /\ Taken(Head(used), Returned)
<1>1. Returned \in Cookies /\ Head(used) \in Heads
  BY GetBufRing DEF BasicInv, RingOK, GetBuf
<1>2. QED
  BY <1>1 DEF GetBuf, Returned, Taken, BasicInv, RingOK, RingTypeOK

\* The steps of VirtIOSCSI_Harvest that take or route a completion.
LEMMA HarvestTokens ==
  ASSUME BasicInv, TokenInv, ~timed_out, NEW u \in Units, Task(u), HarvestGetBuf(u) \/ HarvestRoute(u)
  PROVE  TokenInv'
<1> USE DEF BasicInv, TypeOK, SharedTypeOK, TaskTypeOK, Goto
<1>1. CASE HarvestGetBuf(u)
  <2>1. /\ pc[u] = "h_get" /\ LockFree
        /\ UNCHANGED <<inflight, dma, req_id, doio_pending_cookie, timed_out>>
    BY <1>1 DEF HarvestGetBuf, unitVars, bufVars
  <2>2. CASE GetBuf /\ cookie' = [cookie EXCEPT ![u] = Returned] /\ Goto(u, "h_route")
    <3>1. cookie'[u] = Returned /\ pc'[u] = "h_route"
      BY <2>2
    <3>2. QED
      BY <2>1, <2>2, <3>1, GetBufTakes, TakeTokens
  <2>3. CASE Goto(u, "h_coalesce") /\ UNCHANGED ringVars
    <3>1. Still /\ QuietTask(u)
      BY <2>1, <2>3 DEF Still, QuietTask, ringVars, Awaits, InLoop, Submitting, Routing,
        Completing
    <3>2. QED
      BY <3>1, QuietStep
  <2>4. QED
    BY <1>1, <2>2, <2>3 DEF HarvestGetBuf
<1>2. CASE HarvestRoute(u)
  <2>1. /\ pc[u] = "h_route" /\ ret'[u] = ret[u]
        /\ UNCHANGED <<inflight, req_id, cookies, timed_out>>
    BY <1>2 DEF HarvestRoute, ringVars, bufVars, histVars
  <2>2. ret[u] = "h_get"
    BY <2>1 DEF LocalOK, LocalAt, Completing
  <2>3. CASE Routed(cookie[u]) /\ CompleteStatus(u) /\ UNCHANGED <<cookie, doio_pending_cookie>>
    <3>1. pc'[u] = "c_free"
      BY <2>3 DEF CompleteStatus
    <3>2. InLoop(u)' = InLoop(u)
      BY <2>1, <2>2, <3>1 DEF InLoop, Completing
    <3>3. QED
      BY <2>1, <2>3, <3>2, RouteTokens
  <2>4. CASE /\ ~Routed(cookie[u])
             /\ cookie[u] = req_buf(cookie[u][1]) /\ Stash(cookie[u]) /\ Goto(u, "h_signal")
             /\ UNCHANGED dma
    <3>1. pc'[u] = "h_signal" /\ InLoop(u)' = InLoop(u)
      BY <2>1, <2>4 DEF InLoop, Completing
    <3>2. QED
      BY <2>1, <2>4, <3>1, StashTokens DEF Routing
  <2>5. CASE /\ ~Routed(cookie[u]) /\ Goto(u, "h_get")
             /\ UNCHANGED <<doio_pending_cookie, dma>>
    <3>1. pc'[u] = "h_get" /\ InLoop(u)' = InLoop(u)
      BY <2>1, <2>5 DEF InLoop, Completing
    <3>2. QED
      BY <2>1, <2>5, <3>1, StashTokens DEF Routing
  <2>6. QED
    BY <1>2, <2>3, <2>4, <2>5 DEF HarvestRoute
<1>3. QED
  BY <1>1, <1>2

\* The steps of VirtIOSCSI_DoIO that take, route, stash or give up on a completion.
LEMMA DoIOTokens ==
  ASSUME BasicInv, TokenInv, ~timed_out, NEW u \in Units, Task(u),
         DoIODrain(u) \/ DoIORoute(u) \/ DoIOStash(u) \/ DoIOClear(u)
  PROVE  TokenInv'
<1> USE DEF BasicInv, TypeOK, SharedTypeOK, TaskTypeOK, Goto
<1>1. CASE DoIODrain(u)
  <2>1. /\ pc[u] \in {"d_check", "d_drain"} /\ LockFree
        /\ UNCHANGED <<inflight, dma, req_id, timed_out>>
    BY <1>1 DEF DoIODrain, LockedStep, unitVars, bufVars
  <2>2. CASE /\ doio_pending_cookie[u] = req_buf(u)
             /\ doio_pending_cookie' = [doio_pending_cookie EXCEPT ![u] = NULL]
             /\ own' = [own EXCEPT ![u] = TRUE]
             /\ Goto(u, "d_clear")
             /\ UNCHANGED ringVars
    <3>1. pc'[u] = "d_clear" /\ own'[u]
      BY <2>2
    <3>2. QED
      BY <2>1, <2>2, <3>1, ConsumeTokens DEF ringVars, req_buf
  <2>3. CASE /\ GetBuf /\ OwnCookie(u, Returned)
             /\ own' = [own EXCEPT ![u] = TRUE]
             /\ Goto(u, "d_clear")
             /\ UNCHANGED doio_pending_cookie
    <3>1. pc'[u] = "d_clear" /\ own'[u]
      BY <2>3
    <3>2. \E k \in Heads : Taken(k, <<u, 0>>)
      BY <2>3, GetBufTakes DEF OwnCookie, req_buf
    <3>3. QED
      BY <2>1, <2>3, <3>1, <3>2, ConsumeTokens
  <2>4. CASE /\ GetBuf
             /\ cookie' = [cookie EXCEPT ![u] = Returned]
             /\ Goto(u, "d_route")
             /\ UNCHANGED doio_pending_cookie
    <3>1. cookie'[u] = Returned /\ pc'[u] = "d_route"
      BY <2>4
    <3>2. QED
      BY <2>1, <2>4, <3>1, GetBufTakes, TakeTokens
  <2>5. CASE Goto(u, "d_wait") /\ UNCHANGED <<ringVars, doio_pending_cookie>>
    <3>1. Still /\ QuietTask(u)
      BY <2>1, <2>5 DEF Still, QuietTask, ringVars, Awaits, InLoop, Submitting, Routing,
        Completing
    <3>2. QED
      BY <3>1, QuietStep
  <2>6. QED
    BY <1>1, <2>2, <2>3, <2>4, <2>5 DEF DoIODrain
<1>2. CASE DoIORoute(u)
  <2>1. /\ pc[u] = "d_route"
        /\ UNCHANGED <<inflight, req_id, cookies, cookie, doio_pending_cookie, timed_out>>
    BY <1>2 DEF DoIORoute, ringVars, bufVars, histVars
  <2>2. CASE Routed(cookie[u]) /\ CompleteStatus(u) /\ ret' = [ret EXCEPT ![u] = "d_drain"]
    <3>1. pc'[u] = "c_free" /\ ret'[u] = "d_drain"
      BY <2>2 DEF CompleteStatus
    <3>2. InLoop(u)' = InLoop(u)
      BY <2>1, <3>1 DEF InLoop, Completing
    <3>3. QED
      BY <2>1, <2>2, <3>2, RouteTokens
  <2>3. CASE Goto(u, "d_stash") /\ UNCHANGED dma
    <3>1. Still /\ QuietTask(u)
      BY <2>1, <2>3 DEF Still, QuietTask, Awaits, InLoop, Submitting, Routing, Completing
    <3>2. QED
      BY <3>1, QuietStep
  <2>4. QED
    BY <1>2, <2>2, <2>3 DEF DoIORoute
<1>3. CASE DoIOStash(u)
  <2>1. /\ pc[u] = "d_stash" /\ pc'[u] = "d_drain"
        /\ UNCHANGED <<inflight, dma, req_id, cookies, timed_out>>
        /\ \/ cookie[u] = req_buf(cookie[u][1]) /\ Stash(cookie[u])
           \/ UNCHANGED doio_pending_cookie
    BY <1>3 DEF DoIOStash, ringVars, unitVars, bufVars, histVars
  <2>2. InLoop(u)' = InLoop(u)
    BY <2>1 DEF InLoop
  <2>3. QED
    BY <2>1, <2>2, StashTokens DEF Routing
<1>4. CASE DoIOClear(u)
  <2>1. CASE ~own[u]
    <3>1. timed_out'
      BY <1>4, <2>1 DEF DoIOClear
    <3>2. QED
      BY <3>1 DEF TokenInv
  <2>2. CASE own[u]
    <3>1. pc[u] = "d_clear" /\ pc'[u] \in {"d_try", "d_done"}
      BY <1>4 DEF DoIOClear
    <3>2. Still
      BY <1>4, <2>2 DEF DoIOClear, Still, ringVars, unitVars, bufVars, HistTypeOK
    <3>3. QuietTask(u)
      BY <2>2, <3>1 DEF QuietTask, Awaits, InLoop, Submitting, Routing, Completing
    <3>4. QED
      BY <3>2, <3>3, QuietStep
  <2>3. QED
    BY <2>1, <2>2
<1>5. QED
  BY <1>1, <1>2, <1>3, <1>4

\* Every step of a unit task keeps the cookies accounted for.
LEMMA TaskTokens ==
  ASSUME BasicInv, SlotInv, NEW u \in Units, Task(u)
  PROVE  TokenInv'
<1>1. CASE timed_out
  BY <1>1, TimedOutStays DEF TokenInv
<1>2. CASE ~timed_out
  <2>1. TokenInv
    BY DEF SlotInv
  <2>2. QED
    BY <1>2, <2>1, QuietActions, PopTokens, PrepareTokens, SubmitAddTokens, LeaveTokens,
      HarvestTokens,
       FreeTokens, TryTokens, DoIOAddTokens, DoIOTokens DEF Task
<1>3. QED
  BY <1>1, <1>2

-----------------------------------------------------------------------------
(* The free list *)

\* A slot pushed on a list it is not on.
LEMMA PushOne ==
  ASSUME NEW q \in Seq(Slots), NEW t \in Slots, Distinct(q), ~On(q, t)
  PROVE  /\ Distinct(<<t>> \o q)
         /\ \A s \in Slots : On(<<t>> \o q, s) <=> On(q, s) \/ s = t
<1> DEFINE p == <<t>> \o q
<1>1. /\ Len(q) \in Nat /\ Len(p) = Len(q) + 1 /\ p[1] = t
      /\ \A i \in 1 .. Len(q) : p[i + 1] = q[i]
  OBVIOUS
<1>2. \A i \in 2 .. Len(p) : i - 1 \in 1 .. Len(q) /\ p[i] = q[i - 1]
  BY <1>1
<1> HIDE DEF p
<1>3. Distinct(p)
  BY SMTT(30), <1>1, <1>2 DEF Distinct, On
<1>4. ASSUME NEW s \in Slots
      PROVE  On(p, s) <=> On(q, s) \/ s = t
  <2>1. On(q, s) => On(p, s)
    BY <1>1 DEF On
  <2>2. s = t => On(p, s)
    BY <1>1 DEF On
  <2>3. On(p, s) => On(q, s) \/ s = t
    BY <1>1, <1>2 DEF On
  <2>4. QED
    BY <2>1, <2>2, <2>3
<1>5. QED
  BY <1>3, <1>4 DEF p

\* A slot popped off a list.
LEMMA PopOne ==
  ASSUME NEW q \in Seq(Slots), q # <<>>, Distinct(q)
  PROVE  /\ Head(q) \in Slots /\ Distinct(Tail(q)) /\ On(q, Head(q))
         /\ \A s \in Slots : On(Tail(q), s) <=> On(q, s) /\ s # Head(q)
<1> DEFINE p == Tail(q)
           h == Head(q)
<1>1. /\ Len(q) \in Nat /\ Len(q) > 0 /\ Len(p) = Len(q) - 1 /\ q[1] = h /\ h \in Slots
      /\ \A i \in 1 .. Len(p) : i + 1 \in 1 .. Len(q) /\ p[i] = q[i + 1]
  OBVIOUS
<1>2. \A i \in 2 .. Len(q) : i - 1 \in 1 .. Len(p) /\ p[i - 1] = q[i]
  BY <1>1
<1> HIDE DEF p, h
<1>3. Distinct(p)
  BY <1>1, <1>2 DEF Distinct
<1>4. On(q, h)
  BY <1>1 DEF On
<1>5. ASSUME NEW s \in Slots
      PROVE  On(p, s) <=> On(q, s) /\ s # h
  <2>1. On(q, s) /\ s # h => On(p, s)
    BY <1>1, <1>2 DEF On
  <2>2. On(p, s) => On(q, s) /\ s # h
    BY <1>1, <1>2 DEF On, Distinct
  <2>3. QED
    BY <2>1, <2>2
<1>6. QED
  BY <1>1, <1>3, <1>4, <1>5 DEF p, h

\* A unit whose free list a step leaves alone.
LEMMA FreeUnmoved ==
  ASSUME NEW x \in Units, FreeOK(x), free_list'[x] = free_list[x],
         \A s \in Slots : /\ inflight'[x][s] = inflight[x][s]
                          /\ Prep(x, s)' = Prep(x, s)
                          /\ dma'[x][s] => dma[x][s]
  PROVE  FreeOK(x)'
  BY DEF FreeOK

\* The steps that neither take nor free a slot.
LEMMA FreeQuiet ==
  ASSUME BasicInv, NEW u \in Units, Task(u),
         ~SubmitPop(u), ~SubmitPrepare(u), ~SubmitAddBuf(u), ~SubmitCount(u), ~SubmitRelease(u),
         ~CompleteFree(u)
  PROVE  /\ UNCHANGED <<free_list, inflight>>
         /\ \A x \in Units, s \in Slots : dma'[x][s] => dma[x][s]
         /\ \A s \in Slots : ~Prep(u, s) /\ ~Prep(u, s)'
<1> USE DEF BasicInv, TypeOK, SharedTypeOK, Goto, Prep, Submitting, unitVars
<1>1. CASE TaskWake(u)
  BY <1>1 DEF TaskWake
<1>2. CASE GetMsg(u)
  <2>1. pc[u] = "getmsg" /\ UNCHANGED <<free_list, inflight, dma>>
    BY <1>2 DEF GetMsg
  <2>2. PICK l \in {"s_pop", "d_try", "reply", "kick", "wait"} : pc' = [pc EXCEPT ![u] = l]
    BY <1>2, GetMsgCases
  <2>3. QED
    BY <2>1, <2>2
<1>3. CASE DispatchReply(u) \/ KickBatch(u)
  BY <1>3 DEF DispatchReply, KickBatch
<1>4. CASE HarvestGetBuf(u) \/ HarvestCoalesce(u)
  BY <1>4 DEF HarvestGetBuf, HarvestCoalesce
<1>5. CASE HarvestSignal(u) \/ DoIOWait(u)
  BY <1>5 DEF HarvestSignal, DoIOWait
<1>6. CASE CompleteReply(u)
  <2>1. ret[u] \in {"h_get", "d_drain"}
    BY DEF TaskTypeOK
  <2>2. QED
    BY <1>6, <2>1 DEF CompleteReply
<1>7. CASE DoIOTry(u) \/ DoIOAddBuf(u)
  BY <1>7 DEF DoIOTry, DoIOAddBuf
<1>8. CASE DoIOKick(u) \/ DoIODone(u)
  BY <1>8 DEF DoIOKick, DoIODone
<1>9. CASE DoIODrain(u) \/ DoIOStash(u) \/ DoIOClear(u)
  BY <1>9 DEF DoIODrain, DoIOStash, DoIOClear
<1>10. CASE HarvestRoute(u) \/ DoIORoute(u)
  <2>1. /\ pc[u] \in {"h_route", "d_route"} /\ UNCHANGED <<free_list, inflight>>
        /\ \/ CompleteStatus(u)
           \/ UNCHANGED dma /\ \E l \in {"h_signal", "h_get", "d_stash"} : Goto(u, l)
    BY <1>10 DEF HarvestRoute, DoIORoute
  <2>2. CASE UNCHANGED dma /\ \E l \in {"h_signal", "h_get", "d_stash"} : Goto(u, l)
    BY <2>1, <2>2
  <2>3. CASE CompleteStatus(u)
    <3>1. PICK y \in Units, t \in Slots : cookie[u] = <<y, t>>
      BY <2>1, CookiePair DEF LocalOK, LocalAt, Routing
    <3>2. dma' = [dma EXCEPT ![y][t] = FALSE] /\ Goto(u, "c_free")
      BY <2>3, <3>1 DEF CompleteStatus
    <3>3. \A x \in Units, s \in Slots : dma'[x][s] => dma[x][s]
      BY <3>2 DEF UnitTypeOK
    <3>4. QED
      BY <2>1, <3>2, <3>3
  <2>4. QED
    BY <2>1, <2>2, <2>3
<1>11. QED
  BY <1>1, <1>2, <1>3, <1>4, <1>5, <1>6, <1>7, <1>8, <1>9, <1>10 DEF Task

\* The other units' Submit is not touched by a step of u.
LEMMA OthersPrep ==
  ASSUME BasicInv, NEW u \in Units, Task(u)
  PROVE  \A x \in Units, s \in Slots : x # u => Prep(x, s)' = Prep(x, s)
  BY Others DEF OthersSame, Prep

\* VirtIOSCSI_Submit's steps keep the free list exact.
LEMMA SubmitFree ==
  ASSUME BasicInv, SlotInv, ~timed_out, NEW u \in Units, Task(u),
         SubmitPop(u) \/ SubmitPrepare(u) \/ SubmitAddBuf(u) \/ SubmitCount(u) \/ SubmitRelease(u)
  PROVE  \A x \in Units : FreeOK(x)'
<1> USE DEF BasicInv, TypeOK, SharedTypeOK, UnitTypeOK, TaskTypeOK, Goto
<1>1. /\ \A x \in Units : FreeOK(x)
      /\ \A s \in Slots : SlotOK(u, s)
  BY DEF SlotInv, TokenInv
<1>2. SUFFICES FreeOK(u)'
  <2>1. ASSUME NEW x \in Units, x # u
        PROVE  /\ free_list'[x] = free_list[x]
               /\ \A s \in Slots : inflight'[x][s] = inflight[x][s] /\ dma'[x][s] = dma[x][s]
    <3>1. CASE SubmitPop(u) \/ SubmitCount(u) \/ SubmitRelease(u)
      BY <2>1, <3>1 DEF SubmitPop, SubmitCount, SubmitRelease, PushFree
    <3>2. CASE SubmitPrepare(u)
      BY <2>1, <3>2 DEF SubmitPrepare
    <3>3. CASE SubmitAddBuf(u)
      BY <2>1, <3>3 DEF SubmitAddBuf
    <3>4. QED
      BY <3>1, <3>2, <3>3
  <2> HIDE DEF BasicInv
  <2>2. ASSUME NEW x \in Units, x # u
        PROVE  FreeOK(x)'
    BY <1>1, <2>1, <2>2, OthersPrep, FreeUnmoved
  <2>3. QED
    BY <1>2, <2>2
<1>3. CASE SubmitPop(u)
  <2>1. CASE free_list[u] = <<>>
    <3>1. pc[u] = "s_pop" /\ pc'[u] = "d_try" /\ UNCHANGED <<free_list, inflight, dma>>
      BY <1>3, <2>1 DEF SubmitPop
    <3>2. QED
      BY <1>1, <3>1, FreeUnmoved DEF Prep, Submitting
  <2>2. CASE free_list[u] # <<>>
    <3>1. /\ pc[u] = "s_pop" /\ pc'[u] = "s_prepare" /\ UNCHANGED <<inflight, dma>>
          /\ free_list'[u] = Tail(free_list[u]) /\ slot'[u] = Head(free_list[u])
      BY <1>3, <2>2 DEF SubmitPop
    <3>2. /\ Distinct(Tail(free_list[u])) /\ Head(free_list[u]) \in Slots
          /\ \A s \in Slots : On(Tail(free_list[u]), s) <=> On(free_list[u], s) /\ s # Head(free_list[u])
      BY <1>1, <2>2, PopOne DEF FreeOK
    <3>3. \A s \in Slots : ~Prep(u, s) /\ (Prep(u, s)' <=> s = Head(free_list[u]))
      BY <3>1 DEF Prep, Submitting
    <3>4. QED
      BY <1>1, <3>1, <3>2, <3>3 DEF FreeOK
  <2>3. QED
    BY <2>1, <2>2
<1>4. CASE SubmitPrepare(u)
  <2>0. /\ pc[u] = "s_prepare" /\ pc'[u] \in {"s_add", "s_release"}
        /\ slot'[u] = slot[u] /\ free_list'[u] = free_list[u]
    BY <1>4 DEF SubmitPrepare
  <2>1. slot[u] \in Slots /\ cur[u] # NULL
    BY <2>0, ScsiIOAssumption DEF LocalOK, LocalAt, Submitting, AtRequest
  <2>2. /\ inflight'[u][slot[u]] = NULL => dma'[u][slot[u]] = dma[u][slot[u]] /\ inflight[u][slot[u]] = NULL
        /\ \A s \in Slots : s # slot[u] => inflight'[u][s] = inflight[u][s] /\ dma'[u][s] = dma[u][s]
    <3>1. CASE /\ dma' = [dma EXCEPT ![u][slot[u]] = cur[u] \in Direct]
               /\ inflight' = [inflight EXCEPT ![u][slot[u]] = cur[u]]
      BY <2>1, <3>1
    <3>2. CASE UNCHANGED <<dma, inflight>>
      BY <3>2
    <3>3. QED
      BY <1>4, <3>1, <3>2 DEF SubmitPrepare
  <2>3. \A s \in Slots : (Prep(u, s) <=> s = slot[u]) /\ (Prep(u, s)' <=> s = slot[u])
    BY <2>0, <2>1 DEF Prep, Submitting
  <2> HIDE DEF BasicInv
  <2>4. ~On(free_list[u], slot[u])
    BY <1>1, <2>1, <2>3 DEF FreeOK
  <2>5. QED
    BY <1>1, <2>0, <2>1, <2>2, <2>3, <2>4 DEF FreeOK
<1>5. CASE SubmitAddBuf(u)
  <2>1. /\ pc[u] = "s_add" /\ pc'[u] \in {"s_count", "s_release"}
        /\ slot[u] \in Slots /\ slot'[u] = slot[u] /\ free_list'[u] = free_list[u]
    BY <1>5 DEF SubmitAddBuf, LocalOK, LocalAt, Submitting
  <2>2. /\ dma'[u][slot[u]] => dma[u][slot[u]] /\ inflight'[u][slot[u]] = inflight[u][slot[u]]
        /\ \A s \in Slots : s # slot[u] => inflight'[u][s] = inflight[u][s] /\ dma'[u][s] = dma[u][s]
    <3>1. CASE /\ dma' = [dma EXCEPT ![u][slot[u]] = FALSE]
               /\ inflight' = [inflight EXCEPT ![u][slot[u]] = NULL]
      BY <2>1, <3>1
    <3>2. CASE UNCHANGED <<dma, inflight>>
      BY <3>2
    <3>3. QED
      BY <1>5, <3>1, <3>2 DEF SubmitAddBuf
  <2>3. \A s \in Slots : (Prep(u, s) <=> s = slot[u]) /\ (Prep(u, s)' <=> s = slot[u])
    BY <2>1 DEF Prep, Submitting
  <2> HIDE DEF BasicInv
  <2>4. ~On(free_list[u], slot[u])
    BY <1>1, <2>1, <2>3 DEF FreeOK
  <2>5. QED
    BY <1>1, <2>1, <2>2, <2>3, <2>4 DEF FreeOK
<1>6. CASE SubmitCount(u)
  <2>1. /\ pc[u] = "s_count" /\ pc'[u] = "getmsg" /\ UNCHANGED <<inflight, dma, free_list>>
        /\ slot[u] \in Slots /\ cur[u] # NULL
    BY <1>6, ScsiIOAssumption DEF SubmitCount, LocalOK, LocalAt, Submitting, AtRequest
  <2>2. \A s \in Slots : (Prep(u, s) <=> s = slot[u]) /\ ~Prep(u, s)'
    BY <2>1 DEF Prep, Submitting
  <2>3. inflight[u][slot[u]] # NULL
    BY <1>1, <2>1, <2>2 DEF SlotOK, Prepared
  <2>4. QED
    BY <1>1, <2>1, <2>2, <2>3 DEF FreeOK
<1>7. CASE SubmitRelease(u)
  <2>1. /\ pc[u] = "s_release" /\ pc'[u] = "reply" /\ UNCHANGED <<inflight, dma>>
        /\ slot[u] \in Slots /\ free_list'[u] = <<slot[u]>> \o free_list[u]
    BY <1>7 DEF SubmitRelease, PushFree, LocalOK, LocalAt, Submitting
  <2>2. \A s \in Slots : (Prep(u, s) <=> s = slot[u]) /\ ~Prep(u, s)'
    BY <2>1 DEF Prep, Submitting
  <2>3. inflight[u][slot[u]] = NULL /\ ~On(free_list[u], slot[u])
    BY <1>1, <2>1, <2>2 DEF SlotOK, Prepared, FreeOK
  <2>4. /\ Distinct(free_list'[u])
        /\ \A s \in Slots : On(free_list'[u], s) <=> On(free_list[u], s) \/ s = slot[u]
    BY <1>1, <2>1, <2>3, PushOne DEF FreeOK
  <2>5. QED
    BY <1>1, <2>1, <2>2, <2>3, <2>4 DEF FreeOK
<1>8. QED
  BY <1>3, <1>4, <1>5, <1>6, <1>7

\* complete_inflight_slot frees an occupied slot that no mapping belongs to.
LEMMA CompleteFreeOK ==
  ASSUME BasicInv, SlotInv, ~timed_out, NEW u \in Units, Task(u), CompleteFree(u)
  PROVE  \A x \in Units : FreeOK(x)'
<1> USE DEF BasicInv, TypeOK, SharedTypeOK, UnitTypeOK, Goto
<1>1. pc[u] = "c_free" /\ pc'[u] = "c_reply"
  BY DEF CompleteFree
<1>2. PICK y \in Units, t \in Slots : cookie[u] = <<y, t>>
  BY <1>1, CookiePair DEF LocalOK, LocalAt
<1>3. /\ inflight' = [inflight EXCEPT ![y][t] = NULL] /\ UNCHANGED dma
      /\ free_list' = [free_list EXCEPT ![y] = <<t>> \o @]
  BY <1>2 DEF CompleteFree, PushFree
<1>4. SlotOK(y, t) /\ \A x \in Units : FreeOK(x)
  BY DEF SlotInv, TokenInv
<1>5. Frees(u, y, t)
  BY <1>1, <1>2 DEF Frees
<1>6. inflight[y][t] # NULL /\ ~dma[y][t] /\ ~Prep(y, t)
  BY <1>4, <1>5 DEF SlotOK, Freeing, Prepared
<1>7. \A x \in Units, s \in Slots : Prep(x, s)' = Prep(x, s)
  BY <1>1, OthersPrep DEF Prep, Submitting
<1>8. ~On(free_list[y], t)
  BY <1>4, <1>6 DEF FreeOK
<1>9. /\ Distinct(free_list'[y])
      /\ \A s \in Slots : On(free_list'[y], s) <=> On(free_list[y], s) \/ s = t
  BY <1>3, <1>4, <1>8, PushOne DEF FreeOK
<1>10. /\ inflight'[y][t] = NULL
       /\ \A s \in Slots : s # t => inflight'[y][s] = inflight[y][s]
       /\ \A x \in Units : x # y => inflight'[x] = inflight[x] /\ free_list'[x] = free_list[x]
  BY <1>3
<1> HIDE DEF BasicInv
<1>11. FreeOK(y)'
  BY <1>3, <1>4, <1>6, <1>7, <1>9, <1>10 DEF FreeOK
<1>12. \A x \in Units : x # y => FreeOK(x)'
  BY <1>3, <1>4, <1>7, <1>10, FreeUnmoved
<1>13. QED
  BY <1>11, <1>12

\* Every step of a unit task.
LEMMA TaskFree ==
  ASSUME BasicInv, SlotInv, ~timed_out, NEW u \in Units, Task(u)
  PROVE  \A x \in Units : FreeOK(x)'
<1>1. CASE SubmitPop(u) \/ SubmitPrepare(u) \/ SubmitAddBuf(u) \/ SubmitCount(u) \/ SubmitRelease(u)
  BY <1>1, SubmitFree
<1>2. CASE CompleteFree(u)
  BY <1>2, CompleteFreeOK
<1>3. CASE /\ ~SubmitPop(u) /\ ~SubmitPrepare(u) /\ ~SubmitAddBuf(u) /\ ~SubmitCount(u) /\ ~SubmitRelease(u)
           /\ ~CompleteFree(u)
  <2>1. \A x \in Units : FreeOK(x)
    BY DEF SlotInv
  <2>2. /\ UNCHANGED <<free_list, inflight>>
        /\ \A x \in Units, s \in Slots : dma'[x][s] => dma[x][s]
        /\ \A s \in Slots : ~Prep(u, s) /\ ~Prep(u, s)'
    BY <1>3, FreeQuiet
  <2>3. ASSUME NEW x \in Units, NEW s \in Slots
        PROVE  Prep(x, s)' = Prep(x, s)
    <3>1. CASE x = u
      BY <2>2, <3>1 DEF Prep
    <3>2. CASE x # u
      BY <3>2, OthersPrep
    <3>3. QED
      BY <3>1, <3>2
  <2>4. QED
    BY <2>1, <2>2, <2>3, FreeUnmoved
<1>4. QED
  BY <1>1, <1>2, <1>3

\* Clients, interrupt handler and device touch no slot and no cookie.
LEMMA EnvironmentSlots ==
  ASSUME BasicInv, SlotInv, Environment
  PROVE  SlotInv'
<1>1. Still /\ UNCHANGED free_list /\ \A u \in Units : Locals(u)' = Locals(u)
  BY EnvironmentFrame DEF Still, unitVars, taskVars, Locals
<1>2. \A u \in Units : QuietTask(u)
  BY <1>1 DEF Locals, QuietTask, Awaits, InLoop
<1>3. TokenInv'
  BY <1>1, <1>2, QuietSlots DEF SlotInv
<1>4. ASSUME ~timed_out
      PROVE  \A x \in Units : FreeOK(x)'
  <2>1. \A x \in Units, s \in Slots : Prep(x, s)' = Prep(x, s)
    BY <1>1 DEF Locals, Prep
  <2>2. QED
    BY <1>1, <1>4, <2>1, FreeUnmoved DEF SlotInv, Still
<1>5. QED
  BY <1>1, <1>3, <1>4 DEF SlotInv, Still

\* At the start every slot is on its unit's free list.
LEMMA SlotInit == Init => SlotInv
<1> SUFFICES ASSUME Init PROVE SlotInv
  OBVIOUS
<1>1. /\ cookies = [h \in Heads |-> NULL] /\ doio_pending_cookie = [u \in Units |-> NULL]
      /\ pc = [u \in Units |-> "wait"] /\ inflight = [u \in Units |-> [s \in Slots |-> NULL]]
      /\ dma = [u \in Units |-> [s \in Slots |-> FALSE]]
      /\ free_list = [u \in Units |-> [i \in 1 .. MAX_INFLIGHT |-> i - 1]]
  BY DEF Init, RingInit
<1>2. ASSUME NEW u \in Units, NEW s \in Slots
      PROVE  SlotOK(u, s)
  <2>1. <<u, s>> # NULL
    BY RingAssumption, ScsiIOAssumption
  <2>2. NoToken(u, s) /\ OneToken(u, s) /\ \A w \in Units : ~Frees(w, u, s)
    BY <1>1, <2>1 DEF NoToken, OneToken, Holds, Stashed, Frees, Routing
  <2>3. QED
    BY <1>1, <2>2 DEF SlotOK, Alias, Single, Spent, Prepared, Prep, Freeing, Submitting
<1>3. ASSUME NEW u \in Units
      PROVE  DoIOId(u)
  BY <1>1 DEF DoIOId, Awaits, InLoop, Completing
<1>4. ASSUME NEW u \in Units
      PROVE  FreeOK(u)
  <2>1. MAX_INFLIGHT \in Nat
    BY ScsiIOAssumption
  <2>2. /\ Len(free_list[u]) = MAX_INFLIGHT
        /\ \A i \in 1 .. MAX_INFLIGHT : free_list[u][i] = i - 1
    BY <1>1, <2>1
  <2>3. Distinct(free_list[u])
    BY <2>1, <2>2 DEF Distinct
  <2>4. ASSUME NEW s \in Slots
        PROVE  On(free_list[u], s)
    <3>1. s + 1 \in 1 .. Len(free_list[u]) /\ free_list[u][s + 1] = s
      BY <2>1, <2>2 DEF Slots
    <3>2. QED
      BY <3>1 DEF On
  <2>5. QED
    BY <1>1, <2>3, <2>4 DEF FreeOK, Prep, Submitting
<1>5. QED
  BY <1>2, <1>3, <1>4 DEF SlotInv, TokenInv

\* Every step keeps the cookies and the free lists accounted for.
LEMMA SlotStep == BasicInv /\ SlotInv /\ [Next]_vars => SlotInv'
<1> SUFFICES ASSUME BasicInv, SlotInv, [Next]_vars PROVE SlotInv'
  OBVIOUS
<1>1. CASE Environment
  BY <1>1, EnvironmentSlots
<1>2. ASSUME NEW u \in Units, Task(u)
      PROVE  SlotInv'
  <2>1. CASE timed_out
    BY <1>2, <2>1, TaskTokens, TimedOutStays DEF SlotInv
  <2>2. CASE ~timed_out
    BY <1>2, <2>2, TaskTokens, TaskFree DEF SlotInv
  <2>3. QED
    BY <2>1, <2>2
<1>3. CASE UNCHANGED vars
  <2>1. Still /\ UNCHANGED free_list /\ \A u \in Units : Locals(u)' = Locals(u)
    BY <1>3 DEF vars, Still, Locals, unitVars, bufVars, ringVars, histVars, taskVars
  <2>2. \A u \in Units : QuietTask(u)
    BY <2>1 DEF Locals, QuietTask, Awaits, InLoop
  <2>3. TokenInv'
    BY <2>1, <2>2, QuietSlots DEF SlotInv
  <2>4. \A x \in Units, s \in Slots : Prep(x, s)' = Prep(x, s)
    BY <2>1 DEF Locals, Prep
  <2>5. ~timed_out => \A x \in Units : FreeOK(x)'
    BY <2>1, <2>4, FreeUnmoved DEF SlotInv, Still
  <2>6. QED
    BY <2>1, <2>3, <2>5 DEF SlotInv, Still
<1>4. QED
  BY <1>1, <1>2, <1>3, NextCases

\* A published cookie is one token, and the free list holds what no request and
\* no Submit has, as long as no DoIO gave up on its command (VirtIOSCSI_Submit,
\* HarvestAll, complete_inflight_slot and VirtIOSCSI_DoIO, in any
\* interleaving).
THEOREM SlotInvariant == Spec => []SlotInv
  BY SlotInit, SlotStep, BasicInvariant, PTL DEF Spec

\* SlotPartition, for every number of units and slots: no slot is lost, handed
\* out twice or freed twice, though completions of one unit are harvested by
\* another's task and DoIO reuses slot 0's header (virtio_scsi_io.c).
THEOREM SlotsSafe == Spec => []SlotPartition
<1>1. BasicInv /\ SlotInv => SlotPartition
  <2> SUFFICES ASSUME BasicInv, SlotInv, ~timed_out, NEW u \in Units
               PROVE  /\ \A i, j \in DOMAIN free_list[u] : free_list[u][i] = free_list[u][j] => i = j
                      /\ FreeSlots(u) = Slots \ (Occupied(u) \cup Preparing(u))
                      /\ \A s \in Slots : dma[u][s] => s \in Occupied(u)
    BY DEF SlotPartition
  <2>1. FreeOK(u)
    BY DEF SlotInv
  <2>2. free_list[u] \in Seq(Slots) /\ DOMAIN free_list[u] = 1 .. Len(free_list[u])
    BY DEF BasicInv, TypeOK, UnitTypeOK
  <2>3. \A s \in Slots : s \in Preparing(u) <=> Prep(u, s)
    BY DEF Preparing, Prep, Submitting
  <2>4. FreeSlots(u) \subseteq Slots
    BY <2>2 DEF FreeSlots
  <2>5. \A s \in Slots : s \in FreeSlots(u) <=> On(free_list[u], s)
    BY <2>2 DEF FreeSlots, On
  <2>6. QED
    BY <2>1, <2>2, <2>3, <2>4, <2>5 DEF FreeOK, Distinct, Occupied
<1>2. QED
  BY <1>1, BasicInvariant, SlotInvariant, PTL

-----------------------------------------------------------------------------
(* The occupancy counters *)

\* The request in slot s was submitted and its slot is not freed yet.
InPipe(u, s) == inflight[u][s] # NULL /\ ~Prep(u, s)

Pipeline == {c \in Units \X Slots : c[2] \in Counted(c[1])}

\* Counted is the set of slots in the pipeline.
LEMMA CountedPipe == \A u \in Units, s \in Slots : s \in Counted(u) <=> InPipe(u, s)
  BY DEF Counted, Occupied, Preparing, InPipe, Prep, Submitting

\* A unit's slots and the whole pipeline can be counted.
LEMMA CountedFinite ==
  /\ \A u \in Units : Counted(u) \subseteq Slots /\ IsFiniteSet(Counted(u))
  /\ Pipeline \subseteq Units \X Slots /\ IsFiniteSet(Pipeline)
<1>1. IsFiniteSet(Slots)
  BY SlotsNat, FS_Interval DEF Slots
<1>2. IsFiniteSet(Units \X Slots)
  BY <1>1, ScsiIOAssumption, FS_Product
<1>3. \A u \in Units : Counted(u) \subseteq Slots
  BY DEF Counted, Occupied
<1>4. Pipeline \subseteq Units \X Slots
  BY DEF Pipeline
<1>5. QED
  BY <1>1, <1>2, <1>3, <1>4, FS_Subset

\* The steps other than SubmitCount and CompleteFree.
LEMMA CountQuiet ==
  ASSUME BasicInv, SlotInv, ~timed_out, NEW u \in Units, Task(u), ~SubmitCount(u), ~CompleteFree(u)
  PROVE  /\ UNCHANGED <<inflight_count, occupied_count>>
         /\ \A x \in Units, s \in Slots : InPipe(x, s)' = InPipe(x, s)
<1>1. UNCHANGED <<inflight_count, occupied_count>>
  <2> USE DEF unitVars
  <2>1. CASE \/ TaskWake(u) \/ GetMsg(u) \/ DispatchReply(u) \/ KickBatch(u) \/ SubmitPop(u)
             \/ SubmitPrepare(u) \/ SubmitAddBuf(u) \/ SubmitRelease(u)
    BY <2>1, Zenon DEF TaskWake, GetMsg, DispatchReply, KickBatch, SubmitPop, SubmitPrepare,
      SubmitAddBuf,
       SubmitRelease
  <2>2. CASE \/ HarvestGetBuf(u) \/ HarvestCoalesce(u) \/ HarvestRoute(u) \/ HarvestSignal(u)
             \/ CompleteReply(u)
    BY <2>2, Zenon DEF HarvestGetBuf, HarvestCoalesce, HarvestRoute, HarvestSignal,
      CompleteReply
  <2>3. CASE \/ DoIOTry(u) \/ DoIOAddBuf(u) \/ DoIOKick(u) \/ DoIODrain(u) \/ DoIORoute(u)
             \/ DoIOStash(u) \/ DoIOWait(u) \/ DoIODone(u) \/ DoIOClear(u)
    BY <2>3, Zenon DEF DoIOTry, DoIOAddBuf, DoIOKick, DoIODrain, DoIORoute, DoIOStash,
      DoIOWait, DoIODone,
       DoIOClear
  <2>4. QED
    BY <2>1, <2>2, <2>3 DEF Task
<1>2. ASSUME NEW x \in Units, NEW s \in Slots
      PROVE  InPipe(x, s)' = InPipe(x, s)
  <2>1. SlotOK(x, s) /\ FreeOK(x)
    BY DEF SlotInv, TokenInv
  <2>2. CASE SubmitPop(u)
    <3>1. inflight' = inflight /\ pc[u] = "s_pop"
      BY <2>2 DEF SubmitPop
    <3>2. CASE x # u
      BY <3>1, <3>2, OthersPrep DEF InPipe
    <3>3. CASE x = u
      <4>1. CASE free_list[u] = <<>>
        BY <2>2, <3>1, <3>3, <4>1 DEF SubmitPop, InPipe, Prep, Goto, BasicInv, TypeOK,
          SharedTypeOK, Submitting
      <4>2. CASE free_list[u] # <<>>
        <5>1. free_list[u] \in Seq(Slots) /\ slot'[u] = Head(free_list[u])
          BY <2>2, <4>2 DEF SubmitPop, BasicInv, TypeOK, UnitTypeOK, TaskTypeOK
        <5>2. Head(free_list[u]) \in Slots /\ On(free_list[u], Head(free_list[u]))
          BY <2>1, <3>3, <4>2, <5>1, PopOne DEF FreeOK
        <5>3. inflight[u][Head(free_list[u])] = NULL
          BY <2>1, <3>3, <5>2 DEF FreeOK
        <5>4. QED
          BY <3>1, <3>3, <5>1, <5>3 DEF InPipe, Prep, Submitting
      <4>3. QED
        BY <4>1, <4>2
    <3>4. QED
      BY <3>2, <3>3
  <2>3. CASE SubmitPrepare(u) \/ SubmitAddBuf(u)
    <3>1. /\ pc[u] \in Submitting /\ pc'[u] \in Submitting /\ slot'[u] = slot[u]
      BY <2>3 DEF SubmitPrepare, SubmitAddBuf, Goto, Submitting, BasicInv, TypeOK,
        SharedTypeOK
    <3>2. slot[u] \in Slots
      BY <3>1 DEF BasicInv, LocalOK, LocalAt
    <3>3. <<x, s>> # <<u, slot[u]>> => inflight'[x][s] = inflight[x][s]
      <4>1. CASE \E r \in Requests \cup {NULL} : inflight' = [inflight EXCEPT ![u][slot[u]] = r]
        BY <3>2, <4>1 DEF BasicInv, TypeOK, UnitTypeOK
      <4>2. CASE UNCHANGED inflight
        BY <4>2
      <4>3. QED
        BY <2>3, <4>1, <4>2 DEF SubmitPrepare, SubmitAddBuf, BasicInv, TypeOK, TaskTypeOK
    <3>4. Prep(u, slot[u]) /\ (x = u => Prep(x, s)' = Prep(x, s))
      BY <3>1, <3>2 DEF Prep
    <3>5. Prep(x, s)' = Prep(x, s)
      BY <3>4, OthersPrep
    <3>6. CASE x = u /\ s = slot[u]
      BY <3>4, <3>5, <3>6 DEF InPipe
    <3>7. CASE <<x, s>> # <<u, slot[u]>>
      BY <3>3, <3>5, <3>7 DEF InPipe
    <3>8. QED
      BY <3>6, <3>7
  <2>4. CASE SubmitRelease(u)
    <3>1. pc[u] = "s_release" /\ pc'[u] = "reply" /\ inflight' = inflight
      BY <2>4 DEF SubmitRelease, Goto, BasicInv, TypeOK, SharedTypeOK
    <3>2. CASE x # u
      BY <3>1, <3>2, OthersPrep DEF InPipe
    <3>3. CASE x = u
      BY <2>1, <3>1, <3>3 DEF SlotOK, Prepared, InPipe, Prep, Submitting
    <3>4. QED
      BY <3>2, <3>3
  <2>5. CASE ~SubmitPop(u) /\ ~SubmitPrepare(u) /\ ~SubmitAddBuf(u) /\ ~SubmitRelease(u)
    <3>1. UNCHANGED inflight /\ \A t \in Slots : ~Prep(u, t) /\ ~Prep(u, t)'
      BY <2>5, FreeQuiet
    <3>2. CASE x # u
      BY <3>1, <3>2, OthersPrep DEF InPipe
    <3>3. CASE x = u
      BY <3>1, <3>3 DEF InPipe
    <3>4. QED
      BY <3>2, <3>3
  <2>6. QED
    BY <2>2, <2>3, <2>4, <2>5
<1>3. QED
  BY <1>1, <1>2

\* A step that leaves pipeline and counters alone.
LEMMA CountUnmoved ==
  ASSUME CountsExact, UNCHANGED <<inflight_count, occupied_count>>, ~timed_out,
         \A x \in Units, s \in Slots : InPipe(x, s)' = InPipe(x, s)
  PROVE  CountsExact'
<1>1. ASSUME NEW x \in Units
      PROVE  Counted(x)' = Counted(x)
  <2>1. Counted(x) \subseteq Slots /\ Counted(x)' \subseteq Slots
    BY DEF Counted, Occupied
  <2>2. \A s \in Slots : (s \in Counted(x) <=> InPipe(x, s)) /\ (s \in Counted(x)' <=> InPipe(x, s)')
    BY DEF Counted, Occupied, Preparing, InPipe, Prep, Submitting
  <2>3. QED
    BY <2>1, <2>2
<1>2. Pipeline' = Pipeline
  BY <1>1 DEF Pipeline
<1>3. QED
  BY <1>1, <1>2 DEF CountsExact, Pipeline

\* The pipeline is where the steps of the primed state look for it, too.
LEMMA CountedPipePrime == \A u \in Units, s \in Slots : s \in Counted(u)' <=> InPipe(u, s)'
  BY DEF Counted, Occupied, Preparing, InPipe, Prep, Submitting

\* SubmitCount counts the slot it leaves.
LEMMA CountAdd ==
  ASSUME BasicInv, SlotInv, CountsExact, ~timed_out, NEW u \in Units, Task(u), SubmitCount(u)
  PROVE  CountsExact'
<1> DEFINE t == slot[u]
<1>1. /\ pc[u] = "s_count" /\ pc'[u] = "getmsg" /\ UNCHANGED inflight
      /\ occupied_count' = occupied_count + 1
      /\ inflight_count' = [inflight_count EXCEPT ![u] = @ + 1]
  BY DEF SubmitCount, Goto, BasicInv, TypeOK, SharedTypeOK
<1>2. t \in Slots /\ cur[u] # NULL
  BY <1>1, ScsiIOAssumption DEF BasicInv, LocalOK, LocalAt, Submitting, AtRequest
<1>3. inflight[u][t] # NULL /\ Prep(u, t)
  BY <1>1, <1>2 DEF SlotInv, TokenInv, SlotOK, Prepared, Prep, Submitting
<1>4. /\ \A x \in Units, s \in Slots : InPipe(x, s)' <=> InPipe(x, s) \/ (x = u /\ s = t)
      /\ ~InPipe(u, t)
  BY <1>1, <1>2, <1>3, OthersPrep DEF InPipe, Prep, Submitting
<1> HIDE DEF t
<1>5. /\ Counted(u)' = Counted(u) \cup {t} /\ t \notin Counted(u)
      /\ \A x \in Units : x # u => Counted(x)' = Counted(x)
  <2>1. \A x \in Units : Counted(x) \subseteq Slots /\ Counted(x)' \subseteq Slots
    BY DEF Counted, Occupied
  <2>2. QED
    BY <1>2, <1>4, <2>1, CountedPipe, CountedPipePrime
<1>6. Pipeline' = Pipeline \cup {<<u, t>>} /\ <<u, t>> \notin Pipeline
  BY <1>2, <1>5 DEF Pipeline
<1>7. /\ \A x \in Units : IsFiniteSet(Counted(x)) /\ IsFiniteSet(Pipeline)
  BY CountedFinite
<1>8. /\ Cardinality(Counted(u)') = Cardinality(Counted(u)) + 1
      /\ Cardinality(Pipeline') = Cardinality(Pipeline) + 1
  BY <1>5, <1>6, <1>7, FS_AddElement
<1>9. /\ \A x \in Units : inflight_count[x] = Cardinality(Counted(x))
      /\ occupied_count = Cardinality(Pipeline)
  BY DEF CountsExact, Pipeline
<1>10. \A x \in Units : inflight_count'[x] = Cardinality(Counted(x)')
  BY <1>1, <1>5, <1>8, <1>9 DEF BasicInv, TypeOK, UnitTypeOK
<1>11. occupied_count' = Cardinality(Pipeline')
  BY <1>1, <1>8, <1>9
<1>12. QED
  BY <1>10, <1>11 DEF CountsExact, Pipeline

\* complete_inflight_slot takes a counted slot away; no counter stops at zero.
LEMMA CountRemove ==
  ASSUME BasicInv, SlotInv, CountsExact, ~timed_out, NEW u \in Units, Task(u), CompleteFree(u)
  PROVE  CountsExact'
<1>1. pc[u] = "c_free" /\ pc'[u] = "c_reply" /\ occupied_count' = Decrement(occupied_count)
  BY DEF CompleteFree, Goto, BasicInv, TypeOK, SharedTypeOK
<1>2. PICK y \in Units, t \in Slots : cookie[u] = <<y, t>>
  BY <1>1, CookiePair DEF BasicInv, LocalOK, LocalAt
<1>3. /\ inflight' = [inflight EXCEPT ![y][t] = NULL]
      /\ inflight_count' = [inflight_count EXCEPT ![y] = Decrement(@)]
  BY <1>2 DEF CompleteFree
<1>4. inflight[y][t] # NULL /\ ~Prep(y, t)
  <2>1. Frees(u, y, t)
    BY <1>1, <1>2 DEF Frees
  <2>2. SlotOK(y, t)
    BY DEF SlotInv, TokenInv
  <2>3. QED
    BY <2>1, <2>2 DEF SlotOK, Freeing, Prepared
<1>5. \A x \in Units, s \in Slots : Prep(x, s)' = Prep(x, s)
  BY <1>1, OthersPrep DEF Prep, Submitting
<1>6. /\ inflight'[y][t] = NULL
      /\ \A x \in Units, s \in Slots : <<x, s>> # <<y, t>> => inflight'[x][s] = inflight[x][s]
  BY <1>3 DEF BasicInv, TypeOK, UnitTypeOK
<1>7. /\ \A x \in Units, s \in Slots : InPipe(x, s)' <=> InPipe(x, s) /\ ~(x = y /\ s = t)
      /\ InPipe(y, t)
  BY <1>4, <1>5, <1>6 DEF InPipe
<1>8. /\ Counted(y)' = Counted(y) \ {t} /\ t \in Counted(y)
      /\ \A x \in Units : x # y => Counted(x)' = Counted(x)
  <2>1. \A x \in Units : Counted(x) \subseteq Slots /\ Counted(x)' \subseteq Slots
    BY DEF Counted, Occupied
  <2>2. QED
    BY <1>7, <2>1, CountedPipe, CountedPipePrime
<1>9. Pipeline' = Pipeline \ {<<y, t>>} /\ <<y, t>> \in Pipeline
  BY <1>8 DEF Pipeline
<1>10. /\ \A x \in Units : IsFiniteSet(Counted(x)) /\ IsFiniteSet(Pipeline)
  BY CountedFinite
<1>11. /\ Cardinality(Counted(y)') = Cardinality(Counted(y)) - 1 /\ Cardinality(Counted(y)) \in Nat
       /\ Cardinality(Pipeline') = Cardinality(Pipeline) - 1 /\ Cardinality(Pipeline) \in Nat
       /\ Cardinality(Counted(y)') \in Nat /\ Cardinality(Pipeline') \in Nat
  <2>1. IsFiniteSet(Counted(y)') /\ IsFiniteSet(Pipeline')
    BY <1>8, <1>9, <1>10, FS_RemoveElement
  <2>2. QED
    BY <1>8, <1>9, <1>10, <2>1, FS_RemoveElement, FS_CardinalityType
<1>12. /\ \A x \in Units : inflight_count[x] = Cardinality(Counted(x))
       /\ occupied_count = Cardinality(Pipeline)
  BY DEF CountsExact, Pipeline
<1>13. \A x \in Units : inflight_count'[x] = Cardinality(Counted(x)')
  <2>1. inflight_count'[y] = Cardinality(Counted(y)')
    BY <1>3, <1>11, <1>12 DEF Decrement, BasicInv, TypeOK, UnitTypeOK
  <2>2. QED
    BY <1>3, <1>8, <1>12, <2>1 DEF BasicInv, TypeOK, UnitTypeOK
<1>14. occupied_count' = Cardinality(Pipeline')
  BY <1>1, <1>11, <1>12 DEF Decrement
<1>15. QED
  BY <1>13, <1>14 DEF CountsExact, Pipeline

\* No request is in the pipeline at the start.
LEMMA CountInit == Init => CountsExact
<1> SUFFICES ASSUME Init PROVE CountsExact
  OBVIOUS
<1>1. \A u \in Units : Counted(u) = {} /\ inflight_count[u] = 0
  BY DEF Init, Counted, Occupied
<1>2. {c \in Units \X Slots : c[2] \in Counted(c[1])} = {} /\ occupied_count = 0
  BY <1>1 DEF Init
<1>3. QED
  BY <1>1, <1>2, FS_EmptySet DEF CountsExact

\* Every step keeps the counters exact.
LEMMA CountStep == BasicInv /\ SlotInv /\ CountsExact /\ [Next]_vars => CountsExact'
<1> SUFFICES ASSUME BasicInv, SlotInv, CountsExact, [Next]_vars PROVE CountsExact'
  OBVIOUS
<1>1. ASSUME UNCHANGED <<unitVars, timed_out>>, \A x \in Units, s \in Slots : Prep(x, s)' = Prep(x, s)
      PROVE  CountsExact'
  <2>1. CASE timed_out
    BY <1>1, <2>1 DEF CountsExact
  <2>2. CASE ~timed_out
    BY <1>1, <2>2, CountUnmoved DEF unitVars, InPipe
  <2>3. QED
    BY <2>1, <2>2
<1>2. CASE Environment
  BY <1>1, <1>2, EnvironmentFrame DEF Prep, taskVars
<1>3. CASE UNCHANGED vars
  BY <1>1, <1>3 DEF vars, Prep, taskVars, histVars
<1>4. ASSUME NEW u \in Units, Task(u)
      PROVE  CountsExact'
  <2>1. CASE timed_out
    BY <1>4, <2>1, TimedOutStays DEF CountsExact
  <2>2. CASE ~timed_out
    BY <1>4, <2>2, CountAdd, CountRemove, CountQuiet, CountUnmoved
  <2>3. QED
    BY <2>1, <2>2
<1>5. QED
  BY <1>2, <1>3, <1>4, NextCases

\* CountsExact, for every number of units and slots: inflight_count and the
\* controller's occupied_count, raised after the ring was filled and lowered by
\* whichever task frees the slot, are what the slots say.
THEOREM CountsSafe == Spec => []CountsExact
  BY CountInit, CountStep, BasicInvariant, SlotInvariant, PTL DEF Spec

-----------------------------------------------------------------------------
(* A request is answered at most once *)

\* The places of a request that was sent and not answered yet: its unit's port,
\* the hands of UnitTask_Dispatch, a slot of the pipeline, and the hands of a task
\* that freed its slot.
Queued(r) == On(io_port[UnitOf[r]], r)
Current(r) == AtRequest(UnitOf[r]) /\ cur[UnitOf[r]] = r
Piped(r, s) == InPipe(UnitOf[r], s) /\ inflight[UnitOf[r]][s] = r
Replying(w, r) == pc[w] = "c_reply" /\ done[w] = r

Live(r) == r \in sent /\ replies[r] = 0

\* A request is in one place at a time, and only while it is live.
ReqOK(r) ==
  /\ Queued(r) => /\ Live(r) /\ ~Current(r)
                  /\ \A s \in Slots : ~Piped(r, s)
                  /\ \A w \in Units : ~Replying(w, r)
  /\ Current(r) => /\ Live(r)
                   /\ \A s \in Slots : ~Piped(r, s)
                   /\ \A w \in Units : ~Replying(w, r)
  /\ \A s \in Slots : Piped(r, s) => Live(r) /\ \A w \in Units : ~Replying(w, r)
  /\ \A s, t \in Slots : Piped(r, s) /\ Piped(r, t) => s = t
  /\ \A w \in Units : Replying(w, r) => Live(r)
  /\ \A w, v \in Units : Replying(w, r) /\ Replying(v, r) => w = v
  /\ r \notin sent => replies[r] = 0
  /\ replies[r] <= 1

\* Unit u works on requests that were sent to it.
HomeOK(u) ==
  /\ Distinct(io_port[u])
  /\ \A r \in Requests : On(io_port[u], r) => UnitOf[r] = u
  /\ AtRequest(u) => UnitOf[cur[u]] = u
  /\ \A s \in Slots : InPipe(u, s) => UnitOf[inflight[u][s]] = u

RequestInv ==
  ~timed_out => (\A r \in Requests : ReqOK(r)) /\ (\A u \in Units : HomeOK(u))

\* A request that is nowhere it was not.
LEMMA ReqUnmoved ==
  ASSUME NEW r \in Requests, ReqOK(r),
         Queued(r)' => Queued(r), Current(r)' => Current(r),
         \A s \in Slots : Piped(r, s)' => Piped(r, s),
         \A w \in Units : Replying(w, r)' => Replying(w, r),
         (r \in sent)' = (r \in sent), replies'[r] = replies[r]
  PROVE  ReqOK(r)'
  BY DEF ReqOK, Live

\* A request that has just been answered.
LEMMA ReqAnswered ==
  ASSUME NEW r \in Requests, ReqOK(r), ClientTypeOK,
         ~Queued(r)', ~Current(r)', \A s \in Slots : ~Piped(r, s)', \A w \in Units : ~Replying(w, r)',
         Live(r), replies'[r] = replies[r] + 1, UNCHANGED sent
  PROVE  ReqOK(r)'
  BY DEF ReqOK, Live

\* The head of a port's list.
LEMMA PortPop ==
  ASSUME NEW q \in Seq(Requests), q # <<>>, Distinct(q)
  PROVE  /\ Head(q) \in Requests /\ Distinct(Tail(q)) /\ On(q, Head(q))
         /\ \A r \in Requests : On(Tail(q), r) <=> On(q, r) /\ r # Head(q)
<1> DEFINE p == Tail(q)
           h == Head(q)
<1>1. /\ Len(q) \in Nat /\ Len(q) > 0 /\ Len(p) = Len(q) - 1 /\ q[1] = h /\ h \in Requests
      /\ \A i \in 1 .. Len(p) : i + 1 \in 1 .. Len(q) /\ p[i] = q[i + 1]
  OBVIOUS
<1>2. \A i \in 2 .. Len(q) : i - 1 \in 1 .. Len(p) /\ p[i - 1] = q[i]
  BY <1>1
<1> HIDE DEF p, h
<1>3. Distinct(p)
  BY <1>1, <1>2 DEF Distinct
<1>4. On(q, h)
  BY <1>1 DEF On
<1>5. ASSUME NEW r \in Requests
      PROVE  On(p, r) <=> On(q, r) /\ r # h
  <2>1. On(q, r) /\ r # h => On(p, r)
    BY <1>1, <1>2 DEF On
  <2>2. On(p, r) => On(q, r) /\ r # h
    BY <1>1, <1>2 DEF On, Distinct
  <2>3. QED
    BY <2>1, <2>2
<1>6. QED
  BY <1>1, <1>3, <1>4, <1>5 DEF p, h

\* A request appended to a port's list.
LEMMA PortAppend ==
  ASSUME NEW q \in Seq(Requests), NEW n \in Requests, Distinct(q), ~On(q, n)
  PROVE  /\ Distinct(Append(q, n))
         /\ \A r \in Requests : On(Append(q, n), r) <=> On(q, r) \/ r = n
<1> DEFINE p == Append(q, n)
<1>1. /\ Len(q) \in Nat /\ Len(p) = Len(q) + 1 /\ p[Len(p)] = n
      /\ \A i \in 1 .. Len(q) : p[i] = q[i]
  OBVIOUS
<1> HIDE DEF p
<1>2. Distinct(p)
  BY <1>1 DEF Distinct, On
<1>3. \A r \in Requests : On(p, r) <=> On(q, r) \/ r = n
  BY <1>1 DEF On
<1>4. QED
  BY <1>2, <1>3 DEF p

\* A request removed from a port's list.
LEMMA PortRemove ==
  ASSUME NEW q \in Seq(Requests), NEW i \in 1 .. Len(q), Distinct(q)
  PROVE  /\ Distinct(Remove(q, i))
         /\ \A r \in Requests : On(Remove(q, i), r) <=> On(q, r) /\ r # q[i]
<1> DEFINE p == Remove(q, i)
<1>1. /\ Len(q) \in Nat /\ Len(p) = Len(q) - 1
      /\ \A j \in 1 .. Len(p) : p[j] = IF j < i THEN q[j] ELSE q[j + 1]
  BY DEF Remove
<1> HIDE DEF p
<1>2. Distinct(p)
  BY SMTT(30), <1>1 DEF Distinct
<1>3. ASSUME NEW r \in Requests
      PROVE  On(p, r) <=> On(q, r) /\ r # q[i]
  <2>1. ASSUME NEW j \in 1 .. Len(p), p[j] = r
        PROVE  On(q, r) /\ r # q[i]
    BY <1>1, <2>1 DEF On, Distinct
  <2>2. ASSUME NEW k \in 1 .. Len(q), q[k] = r, r # q[i]
        PROVE  On(p, r)
    <3>1. CASE k < i
      BY <1>1, <2>2, <3>1 DEF On
    <3>2. CASE k > i
      <4>1. k - 1 \in 1 .. Len(p) /\ p[k - 1] = r
        BY <1>1, <2>2, <3>2
      <4>2. QED
        BY <4>1 DEF On
    <3>3. QED
      BY <2>2, <3>1, <3>2
  <2>3. QED
    BY <2>1, <2>2 DEF On
<1>4. QED
  BY <1>2, <1>3 DEF p

\* The request in a slot of the pipeline stays the same.
LEMMA PipeSame ==
  ASSUME BasicInv, NEW u \in Units, Task(u), ~CompleteFree(u),
         NEW x \in Units, NEW s \in Slots, ~Prep(x, s)'
  PROVE  inflight'[x][s] = inflight[x][s]
<1>1. CASE SubmitPop(u) \/ SubmitCount(u) \/ SubmitRelease(u)
  BY <1>1 DEF SubmitPop, SubmitCount, SubmitRelease
<1>2. CASE SubmitPrepare(u) \/ SubmitAddBuf(u)
  <2>1. /\ pc[u] \in Submitting /\ pc'[u] \in Submitting /\ slot'[u] = slot[u]
    BY <1>2 DEF SubmitPrepare, SubmitAddBuf, Goto, Submitting, BasicInv, TypeOK,
      SharedTypeOK
  <2>2. slot[u] \in Slots /\ <<x, s>> # <<u, slot[u]>>
    BY <2>1 DEF BasicInv, LocalOK, LocalAt, Prep
  <2>3. CASE \E r \in Requests \cup {NULL} : inflight' = [inflight EXCEPT ![u][slot[u]] = r]
    BY <2>2, <2>3 DEF BasicInv, TypeOK, UnitTypeOK
  <2>4. CASE UNCHANGED inflight
    BY <2>4
  <2>5. QED
    BY <1>2, <2>3, <2>4 DEF SubmitPrepare, SubmitAddBuf, BasicInv, TypeOK, TaskTypeOK
<1>3. CASE ~SubmitPop(u) /\ ~SubmitPrepare(u) /\ ~SubmitAddBuf(u) /\ ~SubmitCount(u) /\ ~SubmitRelease(u)
  BY <1>3, FreeQuiet
<1>4. QED
  BY <1>1, <1>2, <1>3

\* A step of u that moves no request.
QuietRequest(u) ==
  /\ (AtRequest(u)' <=> AtRequest(u)) /\ (AtRequest(u) => cur'[u] = cur[u])
  /\ pc'[u] # "c_reply"
  /\ UNCHANGED <<io_port, sent, replies>>

\* The steps that move no request.
LEMMA RequestQuiet ==
  ASSUME BasicInv, NEW u \in Units, Task(u),
         ~GetMsg(u), ~DispatchReply(u), ~SubmitCount(u), ~CompleteFree(u), ~CompleteReply(u)
  PROVE  QuietRequest(u)
<1> USE DEF BasicInv, TypeOK, SharedTypeOK, Goto, AtRequest, InLoop, Submitting, Completing,
  clientVars,
            taskVars, QuietRequest
<1>1. CASE TaskWake(u) \/ KickBatch(u)
  BY <1>1 DEF TaskWake, KickBatch
<1>2. CASE SubmitPop(u) \/ SubmitRelease(u)
  BY <1>2 DEF SubmitPop, SubmitRelease
<1>3. CASE SubmitPrepare(u) \/ SubmitAddBuf(u)
  BY <1>3 DEF SubmitPrepare, SubmitAddBuf
<1>4. CASE HarvestGetBuf(u) \/ HarvestCoalesce(u)
  BY <1>4 DEF HarvestGetBuf, HarvestCoalesce
<1>5. CASE HarvestRoute(u)
  <2>1. ret'[u] = ret[u] /\ pc[u] = "h_route"
    BY <1>5 DEF HarvestRoute
  <2>2. ret[u] = "h_get"
    BY <2>1 DEF LocalOK, LocalAt
  <2>3. QED
    BY <1>5, <2>1, <2>2 DEF HarvestRoute, CompleteStatus
<1>6. CASE HarvestSignal(u) \/ DoIOTry(u)
  BY <1>6 DEF HarvestSignal, DoIOTry
<1>7. CASE DoIOAddBuf(u) \/ DoIOKick(u)
  BY <1>7 DEF DoIOAddBuf, DoIOKick
<1>8. CASE DoIODrain(u) \/ DoIOStash(u)
  BY <1>8 DEF DoIODrain, DoIOStash
<1>9. CASE DoIORoute(u)
  <2>1. /\ pc[u] = "d_route" /\ UNCHANGED <<cur, io_port, sent, replies>>
        /\ \/ pc'[u] = "c_free" /\ ret'[u] = "d_drain"
           \/ pc'[u] = "d_stash"
    BY <1>9 DEF DoIORoute, CompleteStatus, TaskTypeOK
  <2>2. QED
    BY <2>1
<1>10. CASE DoIOWait(u) \/ DoIOClear(u) \/ DoIODone(u)
  BY <1>10 DEF DoIOWait, DoIOClear, DoIODone
<1>11. QED
  BY <1>1, <1>2, <1>3, <1>4, <1>5, <1>6, <1>7, <1>8, <1>9, <1>10 DEF Task

\* The other units' requests are not moved by a step of u.
LEMMA OthersRequests ==
  ASSUME BasicInv, NEW u \in Units, Task(u)
  PROVE  /\ \A x \in Units : x # u => (AtRequest(x)' <=> AtRequest(x)) /\ cur'[x] = cur[x]
         /\ \A w \in Units, r \in Requests : w # u => Replying(w, r)' = Replying(w, r)
  BY Others DEF OthersSame, AtRequest, InLoop, Replying

\* Every request stays where it is.
LEMMA QuietRequests ==
  ASSUME BasicInv, SlotInv, RequestInv, ~timed_out, NEW u \in Units, Task(u), QuietRequest(u),
         ~SubmitCount(u), ~CompleteFree(u)
  PROVE  RequestInv'
<1>1. \A x \in Units : (AtRequest(x)' <=> AtRequest(x)) /\ (AtRequest(x) => cur'[x] = cur[x])
  BY OthersRequests DEF QuietRequest
<1>2. \A x \in Units, s \in Slots : InPipe(x, s)' => InPipe(x, s) /\ inflight'[x][s] = inflight[x][s]
  BY CountQuiet, PipeSame DEF InPipe
<1>3. ASSUME NEW r \in Requests
      PROVE  ReqOK(r)'
  <2>1. ReqOK(r) /\ UnitOf[r] \in Units
    BY ScsiIOAssumption DEF RequestInv
  <2>2. Queued(r)' = Queued(r) /\ Current(r)' = Current(r)
    BY <1>1, <2>1 DEF Queued, Current, QuietRequest
  <2>3. \A s \in Slots : Piped(r, s)' => Piped(r, s)
    BY <1>2, <2>1 DEF Piped
  <2>4. \A w \in Units : Replying(w, r)' => Replying(w, r)
    BY OthersRequests DEF Replying, QuietRequest
  <2>5. QED
    BY <2>1, <2>2, <2>3, <2>4, ReqUnmoved DEF QuietRequest
<1>4. ASSUME NEW x \in Units
      PROVE  HomeOK(x)'
  BY <1>1, <1>2 DEF RequestInv, HomeOK, QuietRequest
<1>5. QED
  BY <1>3, <1>4 DEF RequestInv

\* The pipeline during a step that SubmitCount and CompleteFree are not.
LEMMA PipeQuiet ==
  ASSUME BasicInv, SlotInv, ~timed_out, NEW u \in Units, Task(u), ~SubmitCount(u), ~CompleteFree(u)
  PROVE  \A x \in Units, s \in Slots : InPipe(x, s)' => InPipe(x, s) /\ inflight'[x][s] = inflight[x][s]
  BY CountQuiet, PipeSame DEF InPipe

\* GetMsg moves a request from the port into the hands of the dispatcher.
LEMMA GetMsgRequests ==
  ASSUME BasicInv, SlotInv, RequestInv, ~timed_out, NEW u \in Units, Task(u), GetMsg(u)
  PROVE  RequestInv'
<1> USE DEF Goto
<1>1. pc[u] = "getmsg" /\ UNCHANGED <<sent, replies>>
  BY DEF GetMsg, clientVars
<1>2. ~AtRequest(u) /\ ~SubmitCount(u) /\ ~CompleteFree(u)
  BY <1>1 DEF AtRequest, InLoop, Completing, Submitting, SubmitCount, CompleteFree
<1>3. CASE (\E l \in {"kick", "wait"} : Goto(u, l)) /\ UNCHANGED <<cur, io_port, tries>>
  <2>1. pc'[u] \in {"kick", "wait"}
    BY <1>3 DEF BasicInv, TypeOK, SharedTypeOK
  <2>2. ~AtRequest(u)'
    BY <2>1 DEF AtRequest, InLoop, Completing, Submitting
  <2>3. QuietRequest(u)
    BY <1>1, <1>2, <1>3, <2>1, <2>2 DEF QuietRequest
  <2>4. QED
    BY <1>2, <2>3, QuietRequests
<1>4. CASE /\ io_port[u] # <<>> /\ Head(io_port[u]) \in Requests
           /\ cur' = [cur EXCEPT ![u] = Head(io_port[u])]
           /\ io_port' = [io_port EXCEPT ![u] = Tail(@)]
           /\ \E l \in {"s_pop", "d_try", "reply"} : Goto(u, l)
  <2> DEFINE n == Head(io_port[u])
  <2>1. /\ cur'[u] = n /\ io_port'[u] = Tail(io_port[u]) /\ pc'[u] \in {"s_pop", "d_try", "reply"}
        /\ \A x \in Units : x # u => io_port'[x] = io_port[x]
        /\ io_port[u] \in Seq(Requests)
    BY <1>4 DEF BasicInv, TypeOK, SharedTypeOK, TaskTypeOK
  <2>2. HomeOK(u)
    BY DEF RequestInv
  <2>3. /\ n \in Requests /\ Distinct(Tail(io_port[u])) /\ On(io_port[u], n)
        /\ \A r \in Requests : On(Tail(io_port[u]), r) <=> On(io_port[u], r) /\ r # n
    BY <1>4, <2>1, <2>2, PortPop DEF HomeOK
  <2>4. UnitOf[n] = u
    BY <2>2, <2>3 DEF HomeOK
  <2> HIDE DEF n
  <2>5. AtRequest(u)'
    BY <2>1 DEF AtRequest
  <2>6. \A w \in Units, r \in Requests : Replying(w, r)' => Replying(w, r)
    BY <2>1, OthersRequests DEF Replying
  <2>7. ASSUME NEW r \in Requests
        PROVE  ReqOK(r)'
    <3>1. ReqOK(r) /\ UnitOf[r] \in Units
      BY ScsiIOAssumption DEF RequestInv
    <3>2. \A s \in Slots : Piped(r, s)' => Piped(r, s)
      BY <1>2, <3>1, PipeQuiet DEF Piped
    <3>3. CASE r # n
      <4>1. Queued(r)' => Queued(r)
        BY <2>1, <2>3, <3>1, <3>3 DEF Queued
      <4>2. Current(r)' => Current(r)
        BY <2>1, <3>1, <3>3, OthersRequests DEF Current
      <4>3. QED
        BY <1>1, <2>6, <3>1, <3>2, <4>1, <4>2, ReqUnmoved
    <3>4. CASE r = n
      <4>1. Queued(r) /\ ~Queued(r)'
        BY <2>1, <2>3, <2>4, <3>4 DEF Queued
      <4>2. Live(r)' = Live(r)
        BY <1>1 DEF Live
      <4>3. QED
        BY <1>1, <2>6, <3>1, <3>2, <4>1, <4>2 DEF ReqOK
    <3>5. QED
      BY <3>3, <3>4
  <2>8. ASSUME NEW x \in Units
        PROVE  HomeOK(x)'
    <3>1. HomeOK(x)
      BY DEF RequestInv
    <3>2. \A s \in Slots : InPipe(x, s)' => UnitOf[inflight'[x][s]] = x
      BY <1>2, <3>1, PipeQuiet DEF HomeOK
    <3>3. CASE x # u
      BY <2>1, <3>1, <3>2, <3>3, OthersRequests DEF HomeOK
    <3>4. CASE x = u
      BY <2>1, <2>3, <2>4, <3>1, <3>2, <3>4 DEF HomeOK
    <3>5. QED
      BY <3>3, <3>4
  <2>9. QED
    BY <2>7, <2>8 DEF RequestInv
<1>5. QED
  BY <1>3, <1>4, GetMsgCases

\* UnitTask_Dispatch answers the request in its hands.
LEMMA DispatchRequests ==
  ASSUME BasicInv, SlotInv, RequestInv, ~timed_out, NEW u \in Units, Task(u), DispatchReply(u)
  PROVE  RequestInv'
<1> DEFINE n == cur[u]
<1>1. /\ pc[u] = "reply" /\ pc'[u] = "getmsg" /\ UNCHANGED <<io_port, sent>>
      /\ replies' = [replies EXCEPT ![n] = @ + 1]
  BY DEF DispatchReply, ReplyMsg, Goto, BasicInv, TypeOK, SharedTypeOK
<1>2. AtRequest(u) /\ ~AtRequest(u)' /\ ~SubmitCount(u) /\ ~CompleteFree(u)
  BY <1>1 DEF AtRequest, InLoop, Completing, Submitting, SubmitCount, CompleteFree
<1>3. n \in Requests /\ UnitOf[n] = u
  BY <1>2 DEF BasicInv, LocalOK, LocalAt, RequestInv, HomeOK
<1> HIDE DEF n
<1>4. Current(n)
  BY <1>2, <1>3 DEF Current, n
<1>5. replies'[n] = replies[n] + 1 /\ \A r \in Requests : r # n => replies'[r] = replies[r]
  BY <1>1, <1>3 DEF BasicInv, TypeOK, ClientTypeOK
<1>6. \A w \in Units, r \in Requests : Replying(w, r)' => Replying(w, r)
  BY <1>1, OthersRequests DEF Replying
<1>7. ASSUME NEW r \in Requests
      PROVE  ReqOK(r)'
  <2>1. ReqOK(r) /\ UnitOf[r] \in Units
    BY ScsiIOAssumption DEF RequestInv
  <2>2. \A s \in Slots : Piped(r, s)' => Piped(r, s)
    BY <1>2, <2>1, PipeQuiet DEF Piped
  <2>3. (Queued(r)' => Queued(r)) /\ (Current(r)' => Current(r))
    BY <1>1, <1>2, <2>1, OthersRequests DEF Queued, Current
  <2>4. CASE r # n
    BY <1>1, <1>5, <1>6, <2>1, <2>2, <2>3, <2>4, ReqUnmoved
  <2>5. CASE r = n
    <3>1. Live(r) /\ ~Queued(r) /\ (\A s \in Slots : ~Piped(r, s)) /\ \A w \in Units : ~Replying(w, r)
      BY <1>4, <2>1, <2>5 DEF ReqOK
    <3>2. ~Current(r)'
      BY <1>2, <1>3, <2>5 DEF Current
    <3>3. QED
      BY <1>1, <1>5, <1>6, <2>1, <2>2, <2>3, <2>5, <3>1, <3>2, ReqAnswered DEF BasicInv,
        TypeOK
  <2>6. QED
    BY <2>4, <2>5
<1>8. ASSUME NEW x \in Units
      PROVE  HomeOK(x)'
  <2>1. HomeOK(x)
    BY DEF RequestInv
  <2>2. \A s \in Slots : InPipe(x, s)' => UnitOf[inflight'[x][s]] = x
    BY <1>2, <2>1, PipeQuiet DEF HomeOK
  <2>3. AtRequest(x)' => UnitOf[cur'[x]] = x
    BY <1>2, <2>1, OthersRequests DEF HomeOK
  <2>4. QED
    BY <1>1, <2>1, <2>2, <2>3 DEF HomeOK
<1>9. QED
  BY <1>7, <1>8 DEF RequestInv

\* A published request passes from the dispatcher to the pipeline.
LEMMA SubmitRequests ==
  ASSUME BasicInv, SlotInv, RequestInv, ~timed_out, NEW u \in Units, Task(u), SubmitCount(u)
  PROVE  RequestInv'
<1> DEFINE n == cur[u]
           t == slot[u]
<1>1. /\ pc[u] = "s_count" /\ pc'[u] = "getmsg"
      /\ UNCHANGED <<io_port, sent, replies, inflight>>
  BY DEF SubmitCount, clientVars, Goto, BasicInv, TypeOK, SharedTypeOK
<1>2. AtRequest(u) /\ ~AtRequest(u)'
  BY <1>1 DEF AtRequest, InLoop, Completing, Submitting
<1>3. n \in Requests /\ UnitOf[n] = u /\ t \in Slots
  BY <1>1, <1>2 DEF BasicInv, LocalOK, LocalAt, RequestInv, HomeOK, Submitting
<1>4. Current(n) /\ inflight[u][t] = n
  <2>1. SlotOK(u, t) /\ Prep(u, t)
    BY <1>1, <1>3 DEF SlotInv, TokenInv, Prep, Submitting
  <2>2. QED
    BY <1>1, <1>2, <1>3, <2>1 DEF Current, SlotOK, Prepared
<1>5. \A x \in Units, s \in Slots : InPipe(x, s)' <=> InPipe(x, s) \/ (x = u /\ s = t)
  BY <1>1, <1>3, <1>4, OthersPrep, ScsiIOAssumption DEF InPipe, Prep, Submitting
<1> HIDE DEF n, t
<1>6. \A w \in Units, r \in Requests : Replying(w, r)' => Replying(w, r)
  BY <1>1, OthersRequests DEF Replying
<1>7. ASSUME NEW r \in Requests
      PROVE  ReqOK(r)'
  <2>1. ReqOK(r) /\ UnitOf[r] \in Units
    BY ScsiIOAssumption DEF RequestInv
  <2>2. (Queued(r)' => Queued(r)) /\ (Current(r)' => Current(r))
    BY <1>1, <1>2, <2>1, OthersRequests DEF Queued, Current
  <2>3. \A s \in Slots : Piped(r, s)' <=> Piped(r, s) \/ (r = n /\ s = t)
    BY <1>1, <1>3, <1>4, <1>5, <2>1 DEF Piped
  <2>4. CASE r # n
    BY <1>1, <1>6, <2>1, <2>2, <2>3, <2>4, ReqUnmoved
  <2>5. CASE r = n
    <3>1. Live(r) /\ ~Queued(r) /\ (\A s \in Slots : ~Piped(r, s)) /\ \A w \in Units : ~Replying(w, r)
      BY <1>4, <2>1, <2>5 DEF ReqOK
    <3>2. ~Current(r)' /\ Live(r)' /\ replies'[r] = replies[r]
      BY <1>1, <1>2, <1>3, <2>5, <3>1 DEF Current, Live
    <3>3. QED
      BY <1>1, <1>6, <2>1, <2>2, <2>3, <2>5, <3>1, <3>2 DEF ReqOK
  <2>6. QED
    BY <2>4, <2>5
<1>8. ASSUME NEW x \in Units
      PROVE  HomeOK(x)'
  <2>1. HomeOK(x)
    BY DEF RequestInv
  <2>2. \A s \in Slots : InPipe(x, s)' => UnitOf[inflight'[x][s]] = x
    BY <1>1, <1>3, <1>4, <1>5, <2>1 DEF HomeOK
  <2>3. AtRequest(x)' => UnitOf[cur'[x]] = x
    BY <1>2, <2>1, OthersRequests DEF HomeOK
  <2>4. QED
    BY <1>1, <2>1, <2>2, <2>3 DEF HomeOK
<1>9. QED
  BY <1>7, <1>8 DEF RequestInv

\* complete_inflight_slot takes a request out of the pipeline to answer it.
LEMMA FreeRequests ==
  ASSUME BasicInv, SlotInv, RequestInv, ~timed_out, NEW u \in Units, Task(u), CompleteFree(u)
  PROVE  RequestInv'
<1>1. /\ pc[u] = "c_free" /\ pc'[u] = "c_reply" /\ UNCHANGED <<io_port, sent, replies>>
      /\ ret'[u] = ret[u] /\ cur'[u] = cur[u] /\ done'[u] = done[u]
  BY DEF CompleteFree, clientVars, Goto, BasicInv, TypeOK, SharedTypeOK
<1>2. PICK y \in Units, t \in Slots : cookie[u] = <<y, t>>
  BY <1>1, CookiePair DEF BasicInv, LocalOK, LocalAt
<1>3. PICK n \in Requests : inflight[y][t] = n /\ done[u] = n /\ ~Prep(y, t)
  <2>1. Frees(u, y, t)
    BY <1>1, <1>2 DEF Frees
  <2>2. SlotOK(y, t)
    BY DEF SlotInv, TokenInv
  <2>3. done[u] \in Requests
    BY <1>1 DEF BasicInv, LocalOK, LocalAt, Completing
  <2>4. QED
    BY <2>1, <2>2, <2>3 DEF SlotOK, Freeing, Prepared
<1>4. n # NULL /\ InPipe(y, t) /\ UnitOf[n] = y
  BY <1>3, ScsiIOAssumption DEF InPipe, RequestInv, HomeOK
<1>5. /\ inflight'[y][t] = NULL
      /\ \A x \in Units, s \in Slots : <<x, s>> # <<y, t>> => inflight'[x][s] = inflight[x][s]
  <2>1. inflight' = [inflight EXCEPT ![y][t] = NULL]
    BY <1>2 DEF CompleteFree
  <2>2. QED
    BY <2>1 DEF BasicInv, TypeOK, UnitTypeOK
<1>6. \A x \in Units, s \in Slots :
        InPipe(x, s)' => InPipe(x, s) /\ <<x, s>> # <<y, t>> /\ inflight'[x][s] = inflight[x][s]
  <2>1. \A x \in Units, s \in Slots : Prep(x, s)' = Prep(x, s)
    BY <1>1, OthersPrep DEF Prep, Submitting
  <2>2. QED
    BY <1>5, <2>1 DEF InPipe
<1>7. \A x \in Units : (AtRequest(x)' <=> AtRequest(x)) /\ cur'[x] = cur[x]
  <2>1. AtRequest(u)' <=> AtRequest(u)
    BY <1>1 DEF AtRequest, InLoop, Completing, Submitting
  <2>2. QED
    BY <1>1, <2>1, OthersRequests
<1>8. \A w \in Units, r \in Requests : Replying(w, r)' <=> Replying(w, r) \/ (w = u /\ r = n)
  BY <1>1, <1>3, OthersRequests DEF Replying
<1>9. ASSUME NEW r \in Requests
      PROVE  ReqOK(r)'
  <2>1. ReqOK(r) /\ UnitOf[r] \in Units
    BY ScsiIOAssumption DEF RequestInv
  <2>2. (Queued(r)' => Queued(r)) /\ (Current(r)' => Current(r))
    BY <1>1, <1>7, <2>1 DEF Queued, Current
  <2>3. \A s \in Slots : Piped(r, s)' => Piped(r, s) /\ <<UnitOf[r], s>> # <<y, t>>
    BY <1>6, <2>1 DEF Piped
  <2>4. CASE r # n
    BY <1>1, <1>8, <2>1, <2>2, <2>3, <2>4, ReqUnmoved
  <2>5. CASE r = n
    <3>1. Piped(r, t)
      BY <1>3, <1>4, <2>5 DEF Piped
    <3>2. Live(r) /\ ~Queued(r) /\ ~Current(r) /\ \A w \in Units : ~Replying(w, r)
      BY <2>1, <3>1 DEF ReqOK
    <3>3. \A s \in Slots : ~Piped(r, s)'
      BY <1>4, <2>1, <2>3, <2>5, <3>1 DEF ReqOK
    <3>4. Live(r)' /\ replies'[r] = replies[r]
      BY <1>1, <3>2 DEF Live
    <3>5. QED
      BY <1>1, <1>8, <2>1, <2>2, <2>5, <3>2, <3>3, <3>4 DEF ReqOK
  <2>6. QED
    BY <2>4, <2>5
<1>10. ASSUME NEW x \in Units
       PROVE  HomeOK(x)'
  <2>1. HomeOK(x)
    BY DEF RequestInv
  <2>2. \A s \in Slots : InPipe(x, s)' => UnitOf[inflight'[x][s]] = x
    BY <1>6, <2>1 DEF HomeOK
  <2>3. QED
    BY <1>1, <1>7, <2>1, <2>2 DEF HomeOK
<1>11. QED
  BY <1>9, <1>10 DEF RequestInv

\* The ReplyMsg of complete_inflight_slot.
LEMMA CompleteRequests ==
  ASSUME BasicInv, SlotInv, RequestInv, ~timed_out, NEW u \in Units, Task(u), CompleteReply(u)
  PROVE  RequestInv'
<1> DEFINE n == done[u]
<1>1. /\ pc[u] = "c_reply" /\ pc'[u] = ret[u] /\ UNCHANGED <<io_port, sent>>
      /\ replies' = [replies EXCEPT ![n] = @ + 1] /\ cur'[u] = cur[u]
      /\ ret[u] \in {"h_get", "d_drain"}
  BY DEF CompleteReply, ReplyMsg, Goto, BasicInv, TypeOK, SharedTypeOK, TaskTypeOK
<1>2. /\ AtRequest(u)' <=> AtRequest(u)
      /\ ~SubmitCount(u) /\ ~CompleteFree(u)
  BY <1>1 DEF AtRequest, InLoop, Completing, Submitting, SubmitCount, CompleteFree
<1>3. n \in Requests /\ Replying(u, n)
  BY <1>1 DEF BasicInv, LocalOK, LocalAt, Completing, Replying
<1> HIDE DEF n
<1>4. \A x \in Units : (AtRequest(x)' <=> AtRequest(x)) /\ cur'[x] = cur[x]
  BY <1>1, <1>2, OthersRequests
<1>5. replies'[n] = replies[n] + 1 /\ \A r \in Requests : r # n => replies'[r] = replies[r]
  BY <1>1, <1>3 DEF BasicInv, TypeOK, ClientTypeOK
<1>6. \A w \in Units, r \in Requests : Replying(w, r)' => Replying(w, r) /\ w # u
  BY <1>1, OthersRequests DEF Replying
<1>7. ASSUME NEW r \in Requests
      PROVE  ReqOK(r)'
  <2>1. ReqOK(r) /\ UnitOf[r] \in Units
    BY ScsiIOAssumption DEF RequestInv
  <2>2. \A s \in Slots : Piped(r, s)' => Piped(r, s)
    BY <1>2, <2>1, PipeQuiet DEF Piped
  <2>3. (Queued(r)' => Queued(r)) /\ (Current(r)' => Current(r))
    BY <1>1, <1>4, <2>1 DEF Queued, Current
  <2>4. CASE r # n
    BY <1>1, <1>5, <1>6, <2>1, <2>2, <2>3, <2>4, ReqUnmoved
  <2>5. CASE r = n
    <3>1. Live(r) /\ ~Queued(r) /\ ~Current(r) /\ (\A s \in Slots : ~Piped(r, s))
      BY <1>3, <2>1, <2>5 DEF ReqOK
    <3>2. \A w \in Units : ~Replying(w, r)'
      BY <1>3, <1>6, <2>1, <2>5 DEF ReqOK
    <3>3. QED
      BY <1>1, <1>5, <2>1, <2>2, <2>3, <2>5, <3>1, <3>2, ReqAnswered DEF BasicInv, TypeOK
  <2>6. QED
    BY <2>4, <2>5
<1>8. ASSUME NEW x \in Units
      PROVE  HomeOK(x)'
  <2>1. HomeOK(x)
    BY DEF RequestInv
  <2>2. \A s \in Slots : InPipe(x, s)' => UnitOf[inflight'[x][s]] = x
    BY <1>2, <2>1, PipeQuiet DEF HomeOK
  <2>3. QED
    BY <1>1, <1>4, <2>1, <2>2 DEF HomeOK
<1>9. QED
  BY <1>7, <1>8 DEF RequestInv

\* A client queues a request, or aborts one that is still queued.
LEMMA ClientRequests ==
  ASSUME BasicInv, RequestInv, ~timed_out, NEW n \in Requests, BeginIO(n) \/ AbortIO(n)
  PROVE  RequestInv'
<1> DEFINE y == UnitOf[n]
<1>0. y \in Units /\ io_port[y] \in Seq(Requests) /\ HomeOK(y) /\ ReqOK(n)
  BY ScsiIOAssumption DEF BasicInv, TypeOK, SharedTypeOK, RequestInv
<1>1. UNCHANGED <<pc, cur, done, ret, own, slot, inflight, timed_out>>
  BY DEF BeginIO, AbortIO, taskVars, unitVars, histVars
<1>2. /\ \A x \in Units : (AtRequest(x)' <=> AtRequest(x)) /\ cur'[x] = cur[x]
      /\ \A x \in Units, s \in Slots : (InPipe(x, s)' <=> InPipe(x, s)) /\ inflight'[x][s] = inflight[x][s]
      /\ \A w \in Units, r \in Requests : Replying(w, r)' <=> Replying(w, r)
  BY <1>1 DEF AtRequest, InLoop, InPipe, Prep, Replying
<1>3. ASSUME NEW r \in Requests
      PROVE  /\ Current(r)' <=> Current(r)
             /\ \A s \in Slots : Piped(r, s)' <=> Piped(r, s)
             /\ ReqOK(r) /\ UnitOf[r] \in Units
  BY <1>2, ScsiIOAssumption DEF Current, Piped, RequestInv
<1> HIDE DEF y
<1>4. CASE BeginIO(n)
  <2>1. /\ n \notin sent /\ sent' = sent \cup {n} /\ UNCHANGED replies
        /\ io_port'[y] = Append(io_port[y], n)
        /\ \A x \in Units : x # y => io_port'[x] = io_port[x]
    BY <1>0, <1>4 DEF BeginIO, BasicInv, TypeOK, SharedTypeOK, y
  <2>2. /\ ~Queued(n) /\ ~Current(n)
        /\ (\A s \in Slots : ~Piped(n, s)) /\ (\A w \in Units : ~Replying(w, n))
        /\ replies[n] = 0
    BY <1>0, <2>1 DEF ReqOK, Live
  <2>3. /\ Distinct(io_port'[y])
        /\ \A r \in Requests : On(io_port'[y], r) <=> On(io_port[y], r) \/ r = n
    BY <1>0, <2>1, <2>2, PortAppend DEF HomeOK, Queued, y
  <2>4. ASSUME NEW r \in Requests
        PROVE  ReqOK(r)'
    <3>1. CASE r # n
      <4>1. Queued(r)' => Queued(r)
        BY <1>3, <2>1, <2>3, <3>1 DEF Queued
      <4>2. QED
        BY <1>2, <1>3, <2>1, <3>1, <4>1, ReqUnmoved
    <3>2. CASE r = n
      <4>1. Live(r)' /\ r \in sent' /\ replies'[r] = 0
        BY <2>1, <2>2, <3>2 DEF Live
      <4>2. QED
        BY <1>2, <1>3, <2>2, <3>2, <4>1 DEF ReqOK
    <3>3. QED
      BY <3>1, <3>2
  <2>5. ASSUME NEW x \in Units
        PROVE  HomeOK(x)'
    <3>1. HomeOK(x)
      BY DEF RequestInv
    <3>2. CASE x # y
      BY <1>2, <2>1, <3>1, <3>2 DEF HomeOK
    <3>3. CASE x = y
      BY <1>2, <2>3, <3>1, <3>3 DEF HomeOK, y
    <3>4. QED
      BY <3>2, <3>3
  <2>6. QED
    BY <2>4, <2>5 DEF RequestInv
<1>5. CASE AbortIO(n)
  <2>1. PICK i \in 1 .. Len(io_port[y]) :
          io_port[y][i] = n /\ io_port' = [io_port EXCEPT ![y] = Remove(io_port[y], i)]
    <3>1. PICK i \in DOMAIN io_port[y] :
            io_port[y][i] = n /\ io_port' = [io_port EXCEPT ![y] = Remove(@, i)]
      BY <1>5 DEF AbortIO, y
    <3>2. DOMAIN io_port[y] = 1 .. Len(io_port[y]) /\ io_port \in [Units -> Seq(Requests)]
      BY <1>0 DEF BasicInv, TypeOK, SharedTypeOK
    <3>3. [io_port EXCEPT ![y] = Remove(@, i)] = [io_port EXCEPT ![y] = Remove(io_port[y], i)]
      BY <1>0, <3>2
    <3>4. QED
      BY <3>1, <3>2, <3>3
  <2>2. /\ replies' = [replies EXCEPT ![n] = @ + 1] /\ UNCHANGED sent
    BY <1>5 DEF AbortIO, ReplyMsg
  <2>3. /\ io_port'[y] = Remove(io_port[y], i)
        /\ \A x \in Units : x # y => io_port'[x] = io_port[x]
        /\ replies'[n] = replies[n] + 1 /\ \A r \in Requests : r # n => replies'[r] = replies[r]
    BY <1>0, <2>1, <2>2 DEF BasicInv, TypeOK, SharedTypeOK, ClientTypeOK
  <2>4. /\ Distinct(io_port'[y])
        /\ \A r \in Requests : On(io_port'[y], r) <=> On(io_port[y], r) /\ r # n
    BY <1>0, <2>1, <2>3, PortRemove DEF HomeOK
  <2>5. Queued(n)
    BY <1>0, <2>1 DEF Queued, On, y
  <2>6. ASSUME NEW r \in Requests
        PROVE  ReqOK(r)'
    <3>0. Queued(r)' => Queued(r) /\ r # n
      BY <1>3, <2>3, <2>4 DEF Queued, y
    <3>1. CASE r # n
      BY <1>2, <1>3, <2>2, <2>3, <3>0, <3>1, ReqUnmoved
    <3>2. CASE r = n
      <4>1. Live(r) /\ ~Current(r) /\ (\A s \in Slots : ~Piped(r, s)) /\ (\A w \in Units : ~Replying(w, r))
        BY <1>0, <2>5, <3>2 DEF ReqOK
      <4>2. QED
        BY <1>2, <1>3, <2>2, <2>3, <3>0, <3>2, <4>1, ReqAnswered DEF BasicInv, TypeOK
    <3>3. QED
      BY <3>1, <3>2
  <2>7. ASSUME NEW x \in Units
        PROVE  HomeOK(x)'
    <3>1. HomeOK(x)
      BY DEF RequestInv
    <3>2. CASE x # y
      BY <1>2, <2>3, <3>1, <3>2 DEF HomeOK
    <3>3. CASE x = y
      BY <1>2, <2>4, <3>1, <3>3 DEF HomeOK
    <3>4. QED
      BY <3>2, <3>3
  <2>8. QED
    BY <2>6, <2>7 DEF RequestInv
<1>6. QED
  BY <1>4, <1>5

\* A step that changes nothing a request depends on.
LEMMA IdleRequests ==
  ASSUME RequestInv,
         UNCHANGED <<pc, cur, done, ret, own, slot, inflight, io_port, sent, replies, timed_out>>
  PROVE  RequestInv'
<1>1. ASSUME NEW r \in Requests, ReqOK(r)
      PROVE  ReqOK(r)'
  BY <1>1 DEF ReqOK, Live, Queued, Current, Piped, Replying, AtRequest, InLoop, InPipe, Prep
<1>2. ASSUME NEW u \in Units, HomeOK(u)
      PROVE  HomeOK(u)'
  BY <1>2 DEF HomeOK, AtRequest, InLoop, InPipe, Prep
<1>3. QED
  BY <1>1, <1>2 DEF RequestInv

\* No request has a place, or an answer, at the start.
LEMMA RequestInit == Init => RequestInv
<1> SUFFICES ASSUME Init PROVE RequestInv
  OBVIOUS
<1>1. /\ pc = [u \in Units |-> "wait"] /\ inflight = [u \in Units |-> [s \in Slots |-> NULL]]
      /\ io_port = [u \in Units |-> <<>>] /\ replies = [r \in Requests |-> 0] /\ sent = {}
  BY DEF Init
<1>2. ASSUME NEW r \in Requests
      PROVE  ReqOK(r)
  <2>1. UnitOf[r] \in Units
    BY ScsiIOAssumption
  <2>2. ~Queued(r) /\ ~Current(r) /\ (\A s \in Slots : ~Piped(r, s)) /\ (\A w \in Units : ~Replying(w, r))
    BY <1>1, <2>1 DEF Queued, Current, Piped, Replying, On, AtRequest, InLoop, InPipe,
      Submitting, Completing
  <2>3. QED
    BY <1>1, <2>2 DEF ReqOK
<1>3. ASSUME NEW u \in Units
      PROVE  HomeOK(u)
  BY <1>1 DEF HomeOK, On, Distinct, AtRequest, InLoop, InPipe, Submitting, Completing
<1>4. QED
  BY <1>2, <1>3 DEF RequestInv

\* Every step keeps each request in one place.
LEMMA RequestStep == BasicInv /\ SlotInv /\ RequestInv /\ [Next]_vars => RequestInv'
<1> SUFFICES ASSUME BasicInv, SlotInv, RequestInv, [Next]_vars PROVE RequestInv'
  OBVIOUS
<1>1. ASSUME NEW u \in Units, Task(u)
      PROVE  RequestInv'
  <2>1. CASE timed_out
    BY <1>1, <2>1, TimedOutStays DEF RequestInv
  <2>2. CASE ~timed_out
    BY <1>1, <2>2, GetMsgRequests, DispatchRequests, SubmitRequests, FreeRequests,
      CompleteRequests,
       RequestQuiet, QuietRequests
  <2>3. QED
    BY <2>1, <2>2
<1>2. CASE \E r \in Requests : BeginIO(r) \/ AbortIO(r)
  <2>1. CASE timed_out
    BY <1>2, <2>1 DEF RequestInv, BeginIO, AbortIO, histVars
  <2>2. CASE ~timed_out
    BY <1>2, <2>2, ClientRequests
  <2>3. QED
    BY <2>1, <2>2
<1>3. CASE InterruptHandler \/ Device \/ \E h \in Heads, o \in Outcomes : DeviceComplete(h, o)
  BY <1>3, IdleRequests DEF InterruptHandler, Device, DeviceComplete, unitVars, clientVars,
    taskVars, histVars
<1>4. CASE UNCHANGED vars
  BY <1>4, IdleRequests DEF vars, unitVars, clientVars, taskVars, histVars
<1>5. QED
  BY <1>1, <1>2, <1>3, <1>4 DEF Next

\* A request that was sent and not answered is in one place: its unit's port,
\* the dispatcher, one slot, or a task that is about to reply to it.
THEOREM RequestInvariant == Spec => []RequestInv
  BY RequestInit, RequestStep, BasicInvariant, SlotInvariant, PTL DEF Spec

\* RepliedOnce, for every number of units, slots and requests: BeginIO,
\* AbortIO, the dispatcher and the harvest never reply to a request twice.
THEOREM RepliedOnceSafe == Spec => []RepliedOnce
<1>1. RequestInv => RepliedOnce
  BY DEF RequestInv, RepliedOnce, ReqOK
<1>2. QED
  BY <1>1, RequestInvariant, PTL

-----------------------------------------------------------------------------
(* The answers *)

\* No DoIO starts while a request of the pipeline occupies slot 0, whose buffers
\* both would use.
SlotZeroIdle ==
  ~timed_out => \A u \in Units : pc[u] = "d_try" => inflight[u][0] = NULL

\* The request whose command is in the buffers of slot s.
Owner(u, s) == IF inflight[u][s] # NULL THEN inflight[u][s] ELSE cur[u]

\* The response buffer holds what the device answered to that request.
Answered(u, s) ==
  answer[Owner(u, s)] # NULL /\ resp[<<u, s>>] = answer[Owner(u, s)]

\* Error e is a truthful report on r.
Truth(r, e) ==
  e \in {"none", "SENSE", "HFERR_BadStatus"} =>
    answer[r] # NULL /\ e = map_scsi_error(answer[r])

\* From publication to routing the cookie stands for one command of one request,
\* and once it is in the used ring the buffer holds that request's answer.
BufferOK(u, s) ==
  /\ inflight[u][s] # NULL => OwnId(u, s)
  /\ \A h \in Heads : cookies[h] = <<u, s>> =>
       publisher[h] = Owner(u, s) /\ (InUsed(h) => Answered(u, s))
  /\ \A w \in Units : Holds(w, u, s) =>
       Answered(u, s) /\ (pc[w] = "d_stash" => inflight[u][s] = NULL)
  /\ Stashed(u, s) => inflight[u][s] = NULL /\ Answered(u, s)

\* The unit's DoIO works with the buffers of slot 0.
Commanding(u) == InLoop(u) \/ pc[u] \in {"d_add", "d_kick", "d_clear"}

\* What a task is about to report is the truth.
TaskOK(u) ==
  /\ Commanding(u) => inflight[u][0] = NULL
  /\ own[u] => Answered(u, 0)
  /\ pc[u] \in Completing => Truth(done[u], derr[u])
  /\ pc[u] \in {"d_done", "s_release", "reply"} /\ cur[u] \in Block \cup Sync =>
       Truth(cur[u], rc[u])

AnswerInv ==
  ~timed_out => /\ \A u \in Units, s \in Slots : BufferOK(u, s)
                /\ \A u \in Units : TaskOK(u)
                /\ TruthfulReplies

\* A command is under way in the buffers of slot s, or its answer is.
Busy(u, s) == ~NoToken(u, s) \/ (s = 0 /\ own[u])

\* Busy buffers belong to a request that waits for its answer: one of the
\* pipeline, or the one the dispatcher has in hand.
LEMMA BusyOwner ==
  ASSUME BasicInv, SlotInv, RequestInv, ~timed_out,
         NEW u \in Units, NEW s \in Slots, Busy(u, s), TaskOK(u)
  PROVE  /\ Owner(u, s) \in Requests /\ Live(Owner(u, s)) /\ UnitOf[Owner(u, s)] = u
         /\ \/ inflight[u][s] # NULL /\ Piped(Owner(u, s), s)
            \/ /\ Current(Owner(u, s)) /\ cur[u] = Owner(u, s)
               /\ \/ pc[u] = "s_count" /\ slot[u] = s
                  \/ s = 0 /\ (Awaits(u) \/ own[u])
<1>0. SlotOK(u, s) /\ HomeOK(u) /\ LocalAt(u) /\ 0 \in Slots
  BY SlotsNat, ScsiIOAssumption DEF SlotInv, TokenInv, RequestInv, BasicInv, LocalOK, Slots
<1>1. own[u] => pc[u] = "d_clear"
  BY <1>0 DEF LocalAt
<1>2. Awaits(u) => AtRequest(u)
  BY DEF Awaits, AtRequest
<1>3. ASSUME NEW r \in Requests, Piped(r, s) \/ Current(r)
      PROVE  Live(r)
  BY <1>3 DEF RequestInv, ReqOK
<1>4. CASE inflight[u][s] # NULL /\ ~Prep(u, s)
  <2>1. InPipe(u, s) /\ Owner(u, s) = inflight[u][s] /\ Owner(u, s) \in Requests
    BY <1>4 DEF InPipe, Owner, BasicInv, TypeOK, UnitTypeOK
  <2>2. UnitOf[Owner(u, s)] = u
    BY <1>0, <2>1 DEF HomeOK
  <2>3. Piped(Owner(u, s), s)
    BY <2>1, <2>2 DEF Piped
  <2>4. QED
    BY <1>3, <1>4, <2>1, <2>2, <2>3
<1>5. CASE inflight[u][s] # NULL /\ Prep(u, s)
  <2>1. pc[u] \in Submitting /\ slot[u] = s
    BY <1>5 DEF Prep
  <2>2. ~own[u]
    BY <1>1, <2>1 DEF Submitting
  <2>3. pc[u] = "s_count" /\ inflight[u][s] = cur[u]
    BY <1>0, <1>5, <2>2 DEF SlotOK, Prepared, Busy
  <2>4. AtRequest(u) /\ cur[u] \in Requests /\ Owner(u, s) = cur[u]
    BY <1>0, <1>5, <2>3 DEF AtRequest, LocalAt, Owner, Submitting
  <2>5. UnitOf[cur[u]] = u
    BY <1>0, <2>4 DEF HomeOK
  <2>6. QED
    BY <1>3, <2>1, <2>3, <2>4, <2>5 DEF Current
<1>6. CASE inflight[u][s] = NULL
  <2>1. s = 0 /\ (Awaits(u) \/ own[u])
    BY <1>0, <1>6 DEF SlotOK, Spent, Busy
  <2>2. AtRequest(u)
    BY <1>1, <1>2, <2>1 DEF AtRequest
  <2>3. cur[u] \in Requests /\ Owner(u, s) = cur[u] /\ UnitOf[cur[u]] = u
    BY <1>0, <1>6, <2>2 DEF LocalAt, Owner, HomeOK
  <2>4. QED
    BY <1>3, <2>1, <2>2, <2>3 DEF Current
<1>7. QED
  BY <1>4, <1>5, <1>6

\* Two buffers under way belong to different requests.
LEMMA BusyOne ==
  ASSUME BasicInv, SlotInv, RequestInv, ~timed_out, \A u \in Units : TaskOK(u),
         NEW u \in Units, NEW s \in Slots, Busy(u, s),
         NEW x \in Units, NEW t \in Slots, Busy(x, t), Owner(u, s) = Owner(x, t)
  PROVE  x = u /\ t = s
<1> DEFINE r == Owner(u, s)
<1>1. /\ r \in Requests /\ UnitOf[r] = u /\ x = u /\ ReqOK(r)
      /\ \/ Piped(r, s)
         \/ Current(r) /\ ((pc[u] = "s_count" /\ slot[u] = s) \/ (s = 0 /\ (Awaits(u) \/ own[u])))
      /\ \/ Piped(r, t)
         \/ Current(r) /\ ((pc[u] = "s_count" /\ slot[u] = t) \/ (t = 0 /\ (Awaits(u) \/ own[u])))
  BY BusyOwner DEF RequestInv
<1>2. pc[u] = "s_count" => ~Awaits(u) /\ ~own[u]
  BY DEF Awaits, InLoop, Completing, BasicInv, LocalOK, LocalAt
<1> HIDE DEF r
<1>3. QED
  BY <1>1, <1>2 DEF ReqOK

\* The request of busy buffers is not answered, nor is anybody about to.
LEMMA BusyWaits ==
  ASSUME BasicInv, SlotInv, RequestInv, AnswerInv, ~timed_out,
         NEW u \in Units, NEW s \in Slots, Busy(u, s)
  PROVE  /\ replies[Owner(u, s)] = 0
         /\ \A w \in Units : pc[w] \in Completing => done[w] # Owner(u, s)
         /\ \A v \in Units : pc[v] \in {"d_done", "s_release", "reply"} => cur[v] # Owner(u, s)
<1> DEFINE r == Owner(u, s)
<1>1. /\ r \in Requests /\ Live(r) /\ UnitOf[r] = u /\ ReqOK(r)
      /\ \/ inflight[u][s] # NULL /\ Piped(r, s)
         \/ Current(r) /\ (pc[u] = "s_count" \/ Awaits(u) \/ own[u])
  BY BusyOwner DEF RequestInv, AnswerInv
<1>2. own[u] => pc[u] = "d_clear"
  BY DEF BasicInv, LocalOK, LocalAt
<1>3. inflight[u][s] # NULL => OwnId(u, s) /\ ~(s = 0 /\ own[u])
  BY <1>2 DEF AnswerInv, BufferOK, TaskOK, Commanding
<1> HIDE DEF r
<1>4. replies[r] = 0
  BY <1>1 DEF Live
<1>5. ASSUME NEW w \in Units, pc[w] \in Completing, done[w] = r
      PROVE  FALSE
  <2>1. CASE pc[w] = "c_reply"
    BY <1>1, <1>5, <2>1 DEF Replying, ReqOK
  <2>2. CASE pc[w] = "c_free"
    <3>1. PICK y \in Units, t \in Slots : cookie[w] = <<y, t>>
      BY <2>2, CookiePair DEF BasicInv, LocalOK, LocalAt
    <3>2. Frees(w, y, t) /\ SlotOK(y, t) /\ HomeOK(y)
      BY <2>2, <3>1 DEF Frees, SlotInv, TokenInv, RequestInv
    <3>3. inflight[y][t] = r /\ inflight[y][t] # NULL /\ ~Prep(y, t)
      BY <1>5, <3>2 DEF SlotOK, Freeing, Prepared
    <3>4. UnitOf[r] = y
      BY <3>2, <3>3 DEF HomeOK, InPipe
    <3>5. y = u /\ Piped(r, t)
      BY <1>1, <3>3, <3>4 DEF Piped, InPipe
    <3>6. inflight[u][s] # NULL /\ s = t
      BY <1>1, <3>5 DEF ReqOK
    <3>7. Freed(u, s)
      BY <3>2, <3>5, <3>6 DEF Freed
    <3>8. NoToken(u, s)
      BY <1>3, <3>2, <3>5, <3>6, <3>7 DEF SlotOK, Spent
    <3>9. QED
      BY <1>3, <3>6, <3>8 DEF Busy
  <2>3. QED
    BY <1>5, <2>1, <2>2 DEF Completing
<1>6. ASSUME NEW v \in Units, pc[v] \in {"d_done", "s_release", "reply"}, cur[v] = r
      PROVE  FALSE
  <2>1. AtRequest(v) /\ HomeOK(v)
    BY <1>6 DEF AtRequest, Submitting, RequestInv
  <2>2. v = u
    BY <1>1, <1>6, <2>1 DEF HomeOK
  <2>3. Current(r)
    BY <1>1, <1>6, <2>1, <2>2 DEF Current
  <2>4. ~(\E q \in Slots : Piped(r, q)) /\ (pc[u] = "s_count" \/ Awaits(u) \/ own[u])
    BY <1>1, <2>3 DEF ReqOK
  <2>5. QED
    BY <1>2, <1>6, <2>2, <2>4 DEF Awaits, InLoop, Completing
<1>7. QED
  BY <1>4, <1>5, <1>6 DEF r

\* Nobody else has the cookie of a command that is in the ring.
LEMMA RingAlone ==
  ASSUME BasicInv, SlotInv, AnswerInv, ~timed_out,
         NEW h \in Heads, NEW u \in Units, NEW s \in Slots, cookies[h] = <<u, s>>
  PROVE  /\ Busy(u, s) /\ publisher[h] = Owner(u, s)
         /\ \A k \in Heads : cookies[k] = <<u, s>> => k = h
         /\ \A w \in Units : ~Holds(w, u, s)
         /\ ~Stashed(u, s)
         /\ ~(s = 0 /\ own[u])
<1>1. SlotOK(u, s) /\ BufferOK(u, s) /\ TaskOK(u) /\ LocalAt(u)
  BY DEF SlotInv, TokenInv, AnswerInv, BasicInv, LocalOK
<1>2. ~NoToken(u, s) /\ OneToken(u, s)
  BY <1>1 DEF NoToken, SlotOK, Single, BufferOK
<1>3. ~(s = 0 /\ own[u])
  <2>1. SUFFICES ASSUME s = 0, own[u] PROVE FALSE
    OBVIOUS
  <2>2. pc[u] = "d_clear" /\ ~Awaits(u)
    BY <1>1, <2>1 DEF LocalAt, Awaits, InLoop, Completing
  <2>3. inflight[u][s] = NULL
    BY <1>1, <2>1, <2>2 DEF TaskOK, Commanding
  <2>4. QED
    BY <1>1, <1>2, <2>2, <2>3 DEF SlotOK, Spent
<1>4. QED
  BY <1>1, <1>2, <1>3 DEF Busy, OneToken, BufferOK

\* A published head has a cookie, and the cookie a unit and a slot.
LEMMA HeadPair ==
  ASSUME BasicInv, NEW h \in Heads, cookies[h] # NULL
  PROVE  \E u \in Units, s \in Slots : cookies[h] = <<u, s>>
  BY CookiePair DEF BasicInv, RingOK, RingTypeOK

\* The device answers a command.
LEMMA DeviceAnswers ==
  ASSUME BasicInv, SlotInv, RequestInv, AnswerInv, ~timed_out,
         NEW h \in Heads, NEW o \in Outcomes, DeviceComplete(h, o)
  PROVE  AnswerInv'
<1>1. /\ UNCHANGED <<inflight, cookies, publisher, req_id, doio_pending_cookie, timed_out, replies, result>>
      /\ UNCHANGED <<pc, cur, cookie, done, derr, ret, rc, own>>
      /\ h \in dev /\ used' = Append(used, h)
  BY DEF DeviceComplete, DeviceUse, DeviceReport, unitVars, clientVars, taskVars
<1>2. PICK u \in Units, s \in Slots : cookies[h] = <<u, s>>
  BY <1>1, HeadPair DEF BasicInv, RingOK
<1> DEFINE r == Owner(u, s)
<1>3. /\ Busy(u, s) /\ publisher[h] = r /\ r \in Requests
      /\ \A k \in Heads : cookies[k] = <<u, s>> => k = h
      /\ \A w \in Units : ~Holds(w, u, s)
      /\ ~Stashed(u, s) /\ ~(s = 0 /\ own[u])
  BY <1>2, RingAlone, BusyOwner DEF AnswerInv
<1>4. /\ \A x \in Units, t \in Slots :
           resp'[<<x, t>>] = IF x = u /\ t = s THEN o ELSE resp[<<x, t>>]
      /\ \A q \in Requests : answer'[q] = IF q = r THEN o ELSE answer[q]
  <2>1. resp' = [resp EXCEPT ![<<u, s>>] = o] /\ answer' = [answer EXCEPT ![r] = o]
    BY <1>2, <1>3 DEF DeviceComplete
  <2>2. QED
    BY <1>3, <2>1, ScsiIOAssumption DEF BasicInv, TypeOK, BufTypeOK, HistTypeOK
<1>5. \A k \in Heads : InUsed(k)' => InUsed(k) \/ k = h
  BY <1>1 DEF BasicInv, RingOK, InUsed
<1>6. \A x \in Units, t \in Slots : Owner(x, t)' = Owner(x, t)
  BY <1>1 DEF Owner
<1>7. \A x \in Units, t \in Slots : Busy(x, t) /\ <<x, t>> # <<u, s>> => Owner(x, t) # r
  BY <1>3, BusyOne DEF AnswerInv
<1>8. /\ replies[r] = 0
      /\ \A w \in Units : pc[w] \in Completing => done[w] # r
      /\ \A v \in Units : pc[v] \in {"d_done", "s_release", "reply"} => cur[v] # r
  BY <1>3, BusyWaits
<1>9. o # NULL
  BY ScsiIOAssumption
<1>10. \A x \in Units, t \in Slots : Busy(x, t) => Owner(x, t) \in Requests
  BY BusyOwner DEF AnswerInv
<1> HIDE DEF r
<1>11. \A x \in Units, t \in Slots :
         Busy(x, t) /\ <<x, t>> # <<u, s>> /\ Answered(x, t) => Answered(x, t)'
  BY <1>4, <1>6, <1>7, <1>10 DEF Answered
<1>12. Answered(u, s)'
  BY <1>3, <1>4, <1>6, <1>9 DEF Answered, r
<1>13. ASSUME NEW x \in Units, NEW t \in Slots
       PROVE  BufferOK(x, t)'
  <2>1. /\ BufferOK(x, t) /\ OwnId(x, t)' = OwnId(x, t) /\ Stashed(x, t)' = Stashed(x, t)
        /\ \A w \in Units : Holds(w, x, t)' = Holds(w, x, t)
    BY <1>1 DEF AnswerInv, OwnId, EncodeId, Stashed, Holds
  <2>2. CASE x = u /\ t = s
    BY <1>1, <1>3, <1>6, <1>12, <2>1, <2>2 DEF BufferOK
  <2>3. CASE <<x, t>> # <<u, s>>
    <3>1. CASE ~Busy(x, t)
      BY <1>1, <2>1, <3>1 DEF BufferOK, Busy, NoToken
    <3>2. CASE Busy(x, t)
      <4>1. Answered(x, t) => Answered(x, t)'
        BY <1>11, <2>3, <3>2
      <4>2. \A k \in Heads : cookies[k] = <<x, t>> => (InUsed(k)' => InUsed(k))
        BY <1>2, <1>5, <2>3
      <4>3. QED
        BY <1>1, <1>6, <2>1, <4>1, <4>2 DEF BufferOK
    <3>3. QED
      BY <3>1, <3>2
  <2>4. QED
    BY <2>2, <2>3
<1>14. ASSUME NEW v \in Units
       PROVE  TaskOK(v)'
  <2>1. TaskOK(v) /\ Commanding(v)' = Commanding(v) /\ 0 \in Slots
    BY <1>1, SlotsNat DEF AnswerInv, Commanding, InLoop, Slots
  <2>2. own[v] => Answered(v, 0)'
    BY <1>3, <1>11, <2>1 DEF TaskOK, Busy
  <2>3. pc[v] \in Completing => done[v] \in Requests /\ (Truth(done[v], derr[v]) => Truth(done[v], derr[v])')
    BY <1>1, <1>4, <1>8 DEF Truth, BasicInv, LocalOK, LocalAt
  <2>4. pc[v] \in {"d_done", "s_release", "reply"} =>
          cur[v] \in Requests /\ (Truth(cur[v], rc[v]) => Truth(cur[v], rc[v])')
    BY <1>1, <1>4, <1>8 DEF Truth, BasicInv, LocalOK, LocalAt, AtRequest, Submitting
  <2>5. QED
    BY <1>1, <2>1, <2>2, <2>3, <2>4 DEF TaskOK
<1>15. TruthfulReplies'
  BY <1>1, <1>4, <1>8 DEF AnswerInv, TruthfulReplies, Requests
<1>16. QED
  BY <1>13, <1>14, <1>15 DEF AnswerInv

\* What the tasks hold, what is published and what was answered.
Held == <<inflight, cookies, used, publisher, req_id, resp, answer, doio_pending_cookie, timed_out,
          pc, cur, cookie, done, derr, ret, rc, own>>

\* A step that changes nothing an answer depends on.
LEMMA IdleAnswers ==
  ASSUME AnswerInv, UNCHANGED Held, ~timed_out => TruthfulReplies'
  PROVE  AnswerInv'
<1>1. /\ UNCHANGED <<inflight, cookies, publisher, req_id, resp, answer>>
      /\ UNCHANGED <<doio_pending_cookie, timed_out, pc, cur, cookie, done, derr, ret, rc, own>>
      /\ UNCHANGED used
  BY DEF Held
<1>2. ASSUME NEW u \in Units, NEW s \in Slots, BufferOK(u, s)
      PROVE  BufferOK(u, s)'
  BY <1>1, <1>2 DEF BufferOK, Answered, Owner, OwnId, EncodeId, InUsed, Holds, Stashed
<1>3. ASSUME NEW u \in Units, TaskOK(u)
      PROVE  TaskOK(u)'
  BY <1>1, <1>3 DEF TaskOK, Commanding, InLoop, Answered, Owner, Truth
<1>4. QED
  BY <1>1, <1>2, <1>3 DEF AnswerInv

\* Clients, interrupt handler and device.
LEMMA EnvironmentAnswers ==
  ASSUME BasicInv, SlotInv, RequestInv, AnswerInv, Environment
  PROVE  AnswerInv'
<1>1. ASSUME NEW r \in Requests, BeginIO(r)
      PROVE  AnswerInv'
  <2>1. UNCHANGED Held /\ UNCHANGED <<replies, result, answer, timed_out>>
    BY <1>1 DEF BeginIO, Held, ringVars, unitVars, bufVars, histVars, taskVars
  <2>2. QED
    BY <2>1, IdleAnswers DEF TruthfulReplies, AnswerInv
<1>2. ASSUME NEW r \in Requests, AbortIO(r)
      PROVE  AnswerInv'
  <2>1. UNCHANGED Held /\ UNCHANGED <<answer, timed_out>>
    BY <1>2 DEF AbortIO, Held, ringVars, unitVars, bufVars, histVars, taskVars
  <2>2. /\ result' = [result EXCEPT ![r] = "IOERR_ABORTED"]
        /\ replies' = [replies EXCEPT ![r] = @ + 1]
    BY <1>2 DEF AbortIO, ReplyMsg
  <2>3. ~timed_out => TruthfulReplies'
    <3>1. \A q \in Requests : q # r => result'[q] = result[q] /\ replies'[q] = replies[q]
      BY <2>2 DEF BasicInv, TypeOK, ClientTypeOK
    <3>2. result'[r] = "IOERR_ABORTED"
      BY <2>2 DEF BasicInv, TypeOK, ClientTypeOK
    <3>3. QED
      BY <2>1, <3>1, <3>2 DEF TruthfulReplies, AnswerInv, Requests
  <2>4. QED
    BY <2>1, <2>3, IdleAnswers
<1>3. CASE InterruptHandler \/ Device
  <2>1. UNCHANGED Held /\ UNCHANGED <<replies, result, answer, timed_out>>
    BY <1>3 DEF InterruptHandler, Device, DevicePoll, DeviceNotify, Acknowledge, Held, unitVars,
       bufVars, clientVars, histVars, taskVars
  <2>2. QED
    BY <2>1, IdleAnswers DEF TruthfulReplies, AnswerInv
<1>4. ASSUME NEW h \in Heads, NEW o \in Outcomes, DeviceComplete(h, o)
      PROVE  AnswerInv'
  <2>1. timed_out' = timed_out
    BY <1>4 DEF DeviceComplete
  <2>2. QED
    BY <1>4, <2>1, DeviceAnswers DEF AnswerInv
<1>5. QED
  BY <1>1, <1>2, <1>3, <1>4 DEF Environment

-----------------------------------------------------------------------------
(* A task's steps and the buffers *)

\* Tasks invent no answers, and report only at their two ReplyMsg calls.
LEMMA TaskAnswers ==
  ASSUME BasicInv, NEW u \in Units, Task(u)
  PROVE  /\ UNCHANGED answer
         /\ \A v \in Units : v # u => derr'[v] = derr[v] /\ rc'[v] = rc[v]
         /\ ~DispatchReply(u) /\ ~CompleteReply(u) => UNCHANGED <<replies, result>>
         /\ ~SubmitPrepare(u) /\ ~DoIOTry(u) => UNCHANGED <<resp, req_id>>
<1> USE DEF histVars, clientVars, bufVars, taskVars, BasicInv, TypeOK, TaskTypeOK
<1>1. CASE TaskWake(u) \/ GetMsg(u) \/ KickBatch(u) \/ SubmitPop(u)
  BY <1>1, Zenon DEF TaskWake, GetMsg, KickBatch, SubmitPop
<1>2. CASE DispatchReply(u)
  BY <1>2 DEF DispatchReply
<1>3. CASE CompleteReply(u)
  BY <1>3 DEF CompleteReply
<1>4. CASE SubmitPrepare(u)
  BY <1>4 DEF SubmitPrepare
<1>5. CASE SubmitAddBuf(u)
  BY <1>5 DEF SubmitAddBuf
<1>6. CASE SubmitCount(u) \/ SubmitRelease(u) \/ HarvestCoalesce(u) \/ HarvestSignal(u) \/ CompleteFree(u)
  BY <1>6, Zenon DEF SubmitCount, SubmitRelease, HarvestCoalesce, HarvestSignal, CompleteFree
<1>7. CASE HarvestGetBuf(u)
  BY <1>7 DEF HarvestGetBuf
<1>8. CASE HarvestRoute(u)
  BY <1>8 DEF HarvestRoute, CompleteStatus
<1>9. CASE DoIOTry(u)
  BY <1>9 DEF DoIOTry
<1>10. CASE DoIOAddBuf(u)
  BY <1>10 DEF DoIOAddBuf
<1>11. CASE DoIOKick(u) \/ DoIODone(u) \/ DoIOStash(u) \/ DoIOWait(u)
  BY <1>11, Zenon DEF DoIOKick, DoIODone, DoIOStash, DoIOWait
<1>12. CASE DoIODrain(u)
  BY <1>12 DEF DoIODrain
<1>13. CASE DoIORoute(u)
  BY <1>13 DEF DoIORoute, CompleteStatus
<1>14. CASE DoIOClear(u)
  BY <1>14 DEF DoIOClear
<1>15. QED
  BY <1>1, <1>2, <1>3, <1>4, <1>5, <1>6, <1>7, <1>8, <1>9, <1>10, <1>11, <1>12, <1>13, <1>14 DEF Task

\* Buffers that nothing happened to.
LEMMA BufferUnmoved ==
  ASSUME NEW x \in Units, NEW s \in Slots, BufferOK(x, s),
         inflight'[x][s] = inflight[x][s], OwnId(x, s)' = OwnId(x, s),
         resp'[<<x, s>>] = resp[<<x, s>>], UNCHANGED answer,
         cur'[x] = cur[x] \/ inflight[x][s] # NULL \/ NoToken(x, s)',
         \A h \in Heads : cookies'[h] = <<x, s>> =>
           cookies[h] = <<x, s>> /\ publisher'[h] = publisher[h] /\ (InUsed(h)' => InUsed(h)),
         \A w \in Units : Holds(w, x, s)' =>
           Holds(w, x, s) /\ (pc'[w] = "d_stash" => pc[w] = "d_stash"),
         Stashed(x, s)' => Stashed(x, s)
  PROVE  BufferOK(x, s)'
<1>1. CASE NoToken(x, s)'
  BY <1>1 DEF BufferOK, NoToken
<1>2. CASE cur'[x] = cur[x] \/ inflight[x][s] # NULL
  <2>1. Owner(x, s)' = Owner(x, s) /\ Answered(x, s)' = Answered(x, s)
    BY <1>2 DEF Owner, Answered
  <2>2. QED
    BY <2>1 DEF BufferOK
<1>3. QED
  BY <1>1, <1>2

\* Buffers with no command under way.
LEMMA BufferFresh ==
  ASSUME NEW x \in Units, NEW s \in Slots, NoToken(x, s)', inflight'[x][s] # NULL => OwnId(x, s)'
  PROVE  BufferOK(x, s)'
  BY DEF BufferOK, NoToken

\* The buffers no other task works on, for a step of u.
LEMMA BuffersElsewhere ==
  ASSUME BasicInv, AnswerInv, ~timed_out, NEW u \in Units, Task(u),
         NEW x \in Units, NEW s \in Slots,
         inflight'[x][s] = inflight[x][s], OwnId(x, s)' = OwnId(x, s),
         resp'[<<x, s>>] = resp[<<x, s>>],
         cur'[x] = cur[x] \/ inflight[x][s] # NULL \/ NoToken(x, s)',
         \A h \in Heads : cookies'[h] = <<x, s>> =>
           cookies[h] = <<x, s>> /\ publisher'[h] = publisher[h] /\ (InUsed(h)' => InUsed(h)),
         Holds(u, x, s)' => Holds(u, x, s) /\ (pc'[u] = "d_stash" => pc[u] = "d_stash"),
         Stashed(x, s)' => Stashed(x, s)
  PROVE  BufferOK(x, s)'
<1>1. \A w \in Units : Holds(w, x, s)' =>
        Holds(w, x, s) /\ (pc'[w] = "d_stash" => pc[w] = "d_stash")
  BY Others DEF OthersSame, Holds
<1>2. UNCHANGED answer /\ BufferOK(x, s)
  BY TaskAnswers DEF AnswerInv
<1>3. QED
  BY <1>1, <1>2, BufferUnmoved

\* The steps that leave ring, stash, slots and buffers alone.
LEMMA BuffersQuiet ==
  ASSUME BasicInv, SlotInv', AnswerInv, ~timed_out, ~timed_out', NEW u \in Units, Task(u),
         UNCHANGED <<inflight, cookies, used, publisher, doio_pending_cookie, resp, req_id>>,
         pc'[u] \notin Routing, cur'[u] = cur[u] \/ ~Awaits(u)'
  PROVE  \A x \in Units, s \in Slots : BufferOK(x, s)'
<1> TAKE x \in Units, s \in Slots
<1>1. OwnId(x, s)' = OwnId(x, s) /\ Stashed(x, s)' = Stashed(x, s) /\ ~Holds(u, x, s)'
  BY DEF OwnId, EncodeId, Stashed, Holds
<1>2. SlotOK(x, s)'
  BY DEF SlotInv, TokenInv
<1>3. cur'[x] = cur[x] \/ inflight[x][s] # NULL \/ NoToken(x, s)'
  <2>1. CASE x # u
    BY <2>1, Others DEF OthersSame
  <2>2. CASE x = u
    BY <1>2, <2>2 DEF SlotOK, Spent
  <2>3. QED
    BY <2>1, <2>2
<1>4. \A h \in Heads : InUsed(h)' = InUsed(h)
  BY DEF InUsed
<1>5. QED
  BY <1>1, <1>3, <1>4, BuffersElsewhere

\* Those steps are these.
LEMMA QuietBuffers ==
  ASSUME BasicInv, SlotInv', AnswerInv, ~timed_out, ~timed_out', NEW u \in Units, Task(u),
         \/ TaskWake(u) \/ GetMsg(u) \/ DispatchReply(u) \/ KickBatch(u) \/ SubmitPop(u)
         \/ SubmitCount(u) \/ SubmitRelease(u) \/ HarvestCoalesce(u) \/ HarvestSignal(u)
         \/ CompleteReply(u) \/ DoIOKick(u) \/ DoIOWait(u) \/ DoIOClear(u) \/ DoIODone(u)
  PROVE  \A x \in Units, s \in Slots : BufferOK(x, s)'
<1> DEFINE Calm == UNCHANGED <<inflight, cookies, used, publisher, doio_pending_cookie, resp, req_id>>
           Plain == pc'[u] \notin Routing /\ (cur'[u] = cur[u] \/ ~Awaits(u)')
<1> USE DEF ringVars, unitVars, bufVars, histVars, taskVars
<1>1. Calm
  <2>1. CASE \/ TaskWake(u) \/ GetMsg(u) \/ DispatchReply(u) \/ SubmitPop(u) \/ SubmitCount(u)
             \/ SubmitRelease(u)
    BY <2>1, Zenon DEF TaskWake, GetMsg, DispatchReply, SubmitPop, SubmitCount, SubmitRelease
  <2>2. CASE \/ HarvestSignal(u) \/ CompleteReply(u) \/ DoIOWait(u) \/ DoIOClear(u) \/ DoIODone(u)
    BY <2>2, Zenon DEF HarvestSignal, CompleteReply, DoIOWait, DoIOClear, DoIODone
  <2>3. CASE KickBatch(u) \/ DoIOKick(u)
    BY <2>3 DEF KickBatch, DoIOKick, Kick
  <2>4. CASE HarvestCoalesce(u)
    BY <2>4 DEF HarvestCoalesce, SetUsedEvent
  <2>5. QED
    BY <2>1, <2>2, <2>3, <2>4
<1>2. pc \in [Units -> Locations] /\ ret \in [Units -> {"h_get", "d_drain"}]
  BY DEF BasicInv, TypeOK, SharedTypeOK, TaskTypeOK
<1> USE DEF Goto, Routing, Awaits, InLoop, Completing
<1>3. Plain
  <2>1. CASE TaskWake(u) \/ SubmitPop(u) \/ SubmitRelease(u) \/ DispatchReply(u) \/ SubmitCount(u)
    <3>1. pc'[u] \in {"h_get", "getmsg", "s_prepare", "d_try", "reply"}
      BY <1>2, <2>1 DEF TaskWake, SubmitPop, SubmitRelease, DispatchReply, SubmitCount
    <3>2. QED
      BY <3>1
  <2>2. CASE GetMsg(u)
    <3>1. PICK l \in {"s_pop", "d_try", "reply", "kick", "wait"} : pc' = [pc EXCEPT ![u] = l]
      BY <2>2, GetMsgCases
    <3>2. QED
      BY <1>2, <3>1
  <2>3. CASE \/ KickBatch(u) \/ DoIOKick(u) \/ HarvestCoalesce(u) \/ HarvestSignal(u) \/ DoIOWait(u)
             \/ DoIOClear(u) \/ DoIODone(u)
    <3>1. /\ pc'[u] \in {"wait", "d_check", "getmsg", "h_get", "d_clear", "d_try", "d_done", "reply"}
          /\ cur' = cur
      BY <1>2, <2>3 DEF KickBatch, DoIOKick, HarvestCoalesce, HarvestSignal, DoIOWait, DoIOClear, DoIODone
    <3>2. QED
      BY <3>1
  <2>4. CASE CompleteReply(u)
    <3>1. cur'[u] = cur[u] /\ pc'[u] = ret[u]
      BY <1>2, <2>4 DEF CompleteReply
    <3>2. QED
      BY <1>2, <3>1
  <2>5. QED
    BY <2>1, <2>2, <2>3, <2>4
<1> HIDE DEF Goto, Routing, Awaits, InLoop, Completing, ringVars, unitVars, bufVars, histVars, taskVars
<1>4. QED
  BY <1>1, <1>3, BuffersQuiet

\* Submit writes the header of a slot nobody else knows.
LEMMA PrepareBuffers ==
  ASSUME BasicInv, SlotInv', AnswerInv, ~timed_out, ~timed_out', NEW u \in Units, Task(u),
         SubmitPrepare(u)
  PROVE  \A x \in Units, s \in Slots : BufferOK(x, s)'
<1> DEFINE t == slot[u]
<1> TAKE x \in Units, s \in Slots
<1>1. /\ pc[u] = "s_prepare" /\ pc'[u] \in {"s_add", "s_release"} /\ t \in Slots
      /\ slot'[u] = t /\ cur'[u] = cur[u]
      /\ UNCHANGED <<cookies, used, publisher, doio_pending_cookie>>
      /\ resp' = [resp EXCEPT ![<<u, t>>] = "good"]
      /\ req_id' = [req_id EXCEPT ![<<u, t>>] = EncodeId(u, t)]
  BY DEF SubmitPrepare, BasicInv, TypeOK, SharedTypeOK, TaskTypeOK, Goto, LocalOK, LocalAt,
     Submitting, ringVars, histVars
<1>2. UNCHANGED inflight \/ \E r \in Requests : inflight' = [inflight EXCEPT ![u][t] = r]
  BY <1>1 DEF SubmitPrepare, BasicInv, LocalOK, LocalAt, AtRequest, Submitting
<1>3. SlotOK(x, s)'
  BY DEF SlotInv, TokenInv
<1>4. CASE x = u /\ s = t
  <2>1. Prep(x, s)' /\ (pc[u] # "s_count")'
    BY <1>1, <1>4 DEF Prep, Submitting
  <2>2. NoToken(x, s)' /\ (inflight'[x][s] # NULL => OwnId(x, s)')
    BY <1>1, <1>3, <1>4, <2>1 DEF SlotOK, Prepared
  <2>3. QED
    BY <2>2, BufferFresh
<1>5. CASE <<x, s>> # <<u, t>>
  <2>0. inflight'[x][s] = inflight[x][s]
    BY <1>1, <1>2, <1>5 DEF BasicInv, TypeOK, UnitTypeOK
  <2>1. resp'[<<x, s>>] = resp[<<x, s>>] /\ req_id'[<<x, s>>] = req_id[<<x, s>>]
    <3>1. <<x, s>> \in Cookies
      BY ScsiIOAssumption
    <3>2. QED
      BY <1>1, <1>5, <3>1 DEF BasicInv, TypeOK, BufTypeOK
  <2>2. OwnId(x, s)' = OwnId(x, s) /\ Stashed(x, s)' = Stashed(x, s) /\ ~Holds(u, x, s)'
    BY <1>1, <2>1 DEF OwnId, EncodeId, Stashed, Holds, Routing
  <2>3. cur'[x] = cur[x]
    BY <1>1, Others DEF OthersSame
  <2>4. \A h \in Heads : InUsed(h)' = InUsed(h)
    BY <1>1 DEF InUsed
  <2>5. QED
    BY <1>1, <2>0, <2>1, <2>2, <2>3, <2>4, BuffersElsewhere
<1>6. QED
  BY <1>4, <1>5

\* DoIO writes the header of slot 0, which the pipeline does not use.
LEMMA TryBuffers ==
  ASSUME BasicInv, SlotInv', SlotZeroIdle, AnswerInv, ~timed_out, ~timed_out', NEW u \in Units,
         Task(u), DoIOTry(u)
  PROVE  \A x \in Units, s \in Slots : BufferOK(x, s)'
<1> TAKE x \in Units, s \in Slots
<1>1. /\ pc[u] = "d_try" /\ pc'[u] \in {"d_add", "d_done"} /\ cur'[u] = cur[u]
      /\ UNCHANGED <<inflight, cookies, used, publisher, doio_pending_cookie>>
      /\ resp' = [resp EXCEPT ![<<u, 0>>] = "good"] /\ req_id' = [req_id EXCEPT ![<<u, 0>>] = 1]
  BY DEF DoIOTry, req_buf, BasicInv, TypeOK, SharedTypeOK, Goto, ringVars, unitVars, histVars
<1>2. SlotOK(x, s)'
  BY DEF SlotInv, TokenInv
<1>3. CASE x = u /\ s = 0
  <2>1. inflight'[x][s] = NULL /\ ~Awaits(u)'
    BY <1>1, <1>3 DEF SlotZeroIdle, Awaits, InLoop, Completing
  <2>2. NoToken(x, s)'
    BY <1>2, <1>3, <2>1 DEF SlotOK, Spent
  <2>3. QED
    BY <2>1, <2>2, BufferFresh
<1>4. CASE <<x, s>> # <<u, 0>>
  <2>1. resp'[<<x, s>>] = resp[<<x, s>>] /\ req_id'[<<x, s>>] = req_id[<<x, s>>]
    BY <1>1, <1>4, ScsiIOAssumption DEF BasicInv, TypeOK, BufTypeOK
  <2>2. OwnId(x, s)' = OwnId(x, s) /\ Stashed(x, s)' = Stashed(x, s) /\ ~Holds(u, x, s)'
    BY <1>1, <2>1 DEF OwnId, EncodeId, Stashed, Holds, Routing
  <2>3. cur'[x] = cur[x]
    BY <1>1, Others DEF OthersSame
  <2>4. \A h \in Heads : InUsed(h)' = InUsed(h)
    BY <1>1 DEF InUsed
  <2>5. QED
    BY <1>1, <2>1, <2>2, <2>3, <2>4, BuffersElsewhere
<1>5. QED
  BY <1>3, <1>4

\* AddBuf publishes the command in the buffers of slot t.
LEMMA PublishBuffers ==
  ASSUME BasicInv, AnswerInv, ~timed_out, NEW u \in Units, Task(u), NEW t \in Slots,
         NEW k \in Heads, Published(k, <<u, t>>), publisher' = [publisher EXCEPT ![k] = cur[u]],
         UNCHANGED <<inflight, used, doio_pending_cookie, resp, req_id>>,
         Owner(u, t) = cur[u], cur'[u] = cur[u], pc'[u] \notin Routing
  PROVE  \A x \in Units, s \in Slots : BufferOK(x, s)'
<1> TAKE x \in Units, s \in Slots
<1>1. /\ OwnId(x, s)' = OwnId(x, s) /\ Stashed(x, s)' = Stashed(x, s)
      /\ cur'[x] = cur[x] /\ UNCHANGED answer
      /\ \A h \in Heads : InUsed(h)' = InUsed(h)
  BY Others, TaskAnswers DEF OwnId, EncodeId, Stashed, OthersSame, InUsed
<1>2. /\ ~InUsed(k) /\ publisher'[k] = cur[u]
      /\ \A h \in Heads \ {k} : publisher'[h] = publisher[h] /\ cookies'[h] = cookies[h]
      /\ cookies'[k] = <<u, t>>
  BY DEF Published, BasicInv, RingOK, TypeOK, HistTypeOK
<1>3. CASE <<x, s>> # <<u, t>>
  <2>1. \A h \in Heads : cookies'[h] = <<x, s>> => cookies[h] = <<x, s>> /\ publisher'[h] = publisher[h]
    BY <1>2, <1>3
  <2>2. ~Holds(u, x, s)'
    BY DEF Holds
  <2>3. QED
    BY <1>1, <2>1, <2>2, BuffersElsewhere
<1>4. CASE x = u /\ s = t
  <2>1. BufferOK(x, s) /\ Owner(x, s)' = Owner(x, s) /\ Answered(x, s)' = Answered(x, s)
    BY <1>1 DEF AnswerInv, Owner, Answered
  <2>2. \A w \in Units : Holds(w, x, s)' => Holds(w, x, s) /\ pc'[w] = pc[w]
    BY Others DEF OthersSame, Holds
  <2>3. QED
    BY <1>1, <1>2, <1>4, <2>1, <2>2 DEF BufferOK
<1>5. QED
  BY <1>3, <1>4

\* A completion comes off the ring: its taker finds the answer in the buffer.
LEMMA TakeBuffers ==
  ASSUME BasicInv, AnswerInv, ~timed_out, NEW u \in Units, Task(u), GetBuf,
         publisher' = [publisher EXCEPT ![Head(used)] = NULL],
         UNCHANGED <<inflight, doio_pending_cookie, resp, req_id>>,
         cur'[u] = cur[u], pc'[u] \in {"h_route", "d_route", "d_clear"},
         pc'[u] \in Routing => cookie'[u] = Returned
  PROVE  /\ \A x \in Units, s \in Slots : BufferOK(x, s)'
         /\ \A x \in Units, s \in Slots : Returned = <<x, s>> => Answered(x, s)'
<1> DEFINE k == Head(used)
<1>1. /\ k \in Heads /\ Taken(k, Returned) /\ InUsed(k)
      /\ \A h \in Heads : InUsed(h)' => InUsed(h)
  <2>1. /\ used # <<>> /\ used \in Seq(Heads) /\ used' = Tail(used)
    BY DEF GetBuf, BasicInv, RingOK
  <2>2. /\ 1 \in 1 .. Len(used) /\ used[1] = k
        /\ \A i \in 1 .. Len(used') : i + 1 \in 1 .. Len(used) /\ used'[i] = used[i + 1]
    BY <2>1
  <2>3. QED
    BY <2>2, GetBufTakes DEF InUsed
<1> HIDE DEF k
<1>2. /\ cookies[k] = Returned /\ cookies'[k] = NULL
      /\ \A h \in Heads \ {k} : publisher'[h] = publisher[h] /\ cookies'[h] = cookies[h]
  BY <1>1 DEF Taken, BasicInv, TypeOK, HistTypeOK, k
<1>3. ASSUME NEW x \in Units, NEW s \in Slots
      PROVE  /\ BufferOK(x, s)'
             /\ Returned = <<x, s>> => Answered(x, s)'
  <2>1. /\ OwnId(x, s)' = OwnId(x, s) /\ Stashed(x, s)' = Stashed(x, s)
        /\ cur'[x] = cur[x] /\ UNCHANGED answer /\ <<x, s>> # NULL
    BY Others, TaskAnswers, RingAssumption, ScsiIOAssumption DEF OwnId, EncodeId, Stashed, OthersSame
  <2>2. BufferOK(x, s) /\ Owner(x, s)' = Owner(x, s) /\ Answered(x, s)' = Answered(x, s)
    BY <2>1 DEF AnswerInv, Owner, Answered
  <2>3. Returned = <<x, s>> => Answered(x, s)
    BY <1>1, <1>2, <2>2 DEF BufferOK
  <2>4. \A h \in Heads : cookies'[h] = <<x, s>> =>
          cookies[h] = <<x, s>> /\ publisher'[h] = publisher[h]
    BY <1>2, <2>1
  <2>5. \A w \in Units : Holds(w, x, s)' =>
          (Holds(w, x, s) /\ pc'[w] = pc[w]) \/ (Returned = <<x, s>> /\ pc'[w] # "d_stash")
    <3>1. \A w \in Units : w # u => (Holds(w, x, s)' => Holds(w, x, s) /\ pc'[w] = pc[w])
      BY Others DEF OthersSame, Holds
    <3>2. Holds(u, x, s)' => Returned = <<x, s>> /\ pc'[u] # "d_stash"
      BY DEF Holds
    <3>3. QED
      BY <3>1, <3>2
  <2>6. BufferOK(x, s)'
    BY <1>1, <2>1, <2>2, <2>3, <2>4, <2>5 DEF BufferOK
  <2>7. QED
    BY <2>2, <2>3, <2>6
<1>4. QED
  BY <1>3

\* Quotient and remainder by the tag give back the unit and the slot.
LEMMA IdDecoded ==
  \A a, b \in Nat : b < 65536 => (a * 65536 + b) \div 65536 = a /\ (a * 65536 + b) % 65536 = b
  OBVIOUS

\* A completion that is not routed to its slot is not the pipeline's.
LEMMA NotRouted ==
  ASSUME BasicInv, NEW y \in Units, NEW t \in Slots, BufferOK(y, t), ~Routed(<<y, t>>)
  PROVE  inflight[y][t] = NULL
<1>1. SUFFICES ASSUME inflight[y][t] # NULL PROVE FALSE
  OBVIOUS
<1>2. req_id[<<y, t>>] = y * 65536 + t
  BY <1>1 DEF BufferOK, OwnId, EncodeId, Tag
<1>3. y \in Nat /\ t \in Nat /\ t < 65536
  <2>1. y \in Nat /\ t \in Nat
    BY SlotsNat, ScsiIOAssumption
  <2>2. MAX_INFLIGHT \in 2 .. Tag - 1
    BY ScsiIOAssumption
  <2>3. Tag \in Nat
    BY DEF Tag
  <2>4. t < Tag
    BY <2>2, <2>3 DEF Slots
  <2>5. QED
    BY <2>1, <2>4 DEF Tag
<1>4. req_id[<<y, t>>] \div Tag = y /\ req_id[<<y, t>>] % Tag = t
  BY <1>2, <1>3, IdDecoded DEF Tag
<1>5. QED
  BY <1>1, <1>4 DEF Routed

\* A completion is put aside for the DoIO it belongs to.
LEMMA StashBuffers ==
  ASSUME BasicInv, AnswerInv, ~timed_out, NEW u \in Units, Task(u), NEW y \in Units, NEW t \in Slots,
         Holds(u, y, t), inflight[y][t] = NULL, Stash(<<y, t>>),
         UNCHANGED <<inflight, cookies, used, publisher, resp, req_id>>,
         cur'[u] = cur[u], pc'[u] \notin Routing
  PROVE  \A x \in Units, s \in Slots : BufferOK(x, s)'
<1> TAKE x \in Units, s \in Slots
<1>1. /\ OwnId(x, s)' = OwnId(x, s) /\ cur'[x] = cur[x] /\ UNCHANGED answer
      /\ \A h \in Heads : InUsed(h)' = InUsed(h)
  BY Others, TaskAnswers DEF OwnId, EncodeId, OthersSame, InUsed
<1>2. doio_pending_cookie' = [doio_pending_cookie EXCEPT ![y] = <<y, t>>]
  BY DEF Stash
<1>3. CASE <<x, s>> # <<y, t>>
  <2>1. Stashed(x, s)' => Stashed(x, s)
    BY <1>2, <1>3 DEF Stashed, BasicInv, TypeOK, SharedTypeOK
  <2>2. ~Holds(u, x, s)'
    BY DEF Holds
  <2>3. QED
    BY <1>1, <2>1, <2>2, BuffersElsewhere
<1>4. CASE x = y /\ s = t
  <2>1. BufferOK(x, s) /\ Owner(x, s)' = Owner(x, s) /\ Answered(x, s)' = Answered(x, s)
    BY <1>1 DEF AnswerInv, Owner, Answered
  <2>2. \A w \in Units : Holds(w, x, s)' => Holds(w, x, s) /\ pc'[w] = pc[w]
    BY Others DEF OthersSame, Holds
  <2>3. QED
    BY <1>1, <1>4, <2>1, <2>2 DEF BufferOK
<1>5. QED
  BY <1>3, <1>4

\* A refused command leaves its slot empty.
LEMMA RefusedBuffers ==
  ASSUME BasicInv, SlotInv', AnswerInv, ~timed_out, ~timed_out', NEW u \in Units, Task(u),
         NEW t \in Slots, slot'[u] = t, cur'[u] = cur[u], pc'[u] = "s_release",
         inflight' = [inflight EXCEPT ![u][t] = NULL],
         UNCHANGED <<cookies, used, publisher, doio_pending_cookie, resp, req_id>>
  PROVE  \A x \in Units, s \in Slots : BufferOK(x, s)'
<1> TAKE x \in Units, s \in Slots
<1>1. CASE x = u /\ s = t
  <2>1. Prep(x, s)' /\ SlotOK(x, s)' /\ (pc[u] # "s_count")'
    BY <1>1 DEF Prep, Submitting, SlotInv, TokenInv
  <2>2. NoToken(x, s)' /\ inflight'[x][s] = NULL
    BY <1>1, <2>1 DEF SlotOK, Prepared, BasicInv, TypeOK, UnitTypeOK
  <2>3. QED
    BY <2>2, BufferFresh
<1>2. CASE <<x, s>> # <<u, t>>
  <2>1. inflight'[x][s] = inflight[x][s]
    BY <1>2 DEF BasicInv, TypeOK, UnitTypeOK
  <2>2. OwnId(x, s)' = OwnId(x, s) /\ Stashed(x, s)' = Stashed(x, s) /\ ~Holds(u, x, s)'
    BY DEF OwnId, EncodeId, Stashed, Holds, Routing
  <2>3. cur'[x] = cur[x] /\ \A h \in Heads : InUsed(h)' = InUsed(h)
    BY Others DEF OthersSame, InUsed
  <2>4. QED
    BY <2>1, <2>2, <2>3, BuffersElsewhere
<1>3. QED
  BY <1>1, <1>2

\* Submit and DoIO publish their commands, or are refused.
LEMMA AddBuffers ==
  ASSUME BasicInv, SlotInv, SlotInv', AnswerInv, ~timed_out, ~timed_out', NEW u \in Units, Task(u),
         SubmitAddBuf(u) \/ DoIOAddBuf(u)
  PROVE  \A x \in Units, s \in Slots : BufferOK(x, s)'
<1> USE DEF BasicInv, TypeOK, SharedTypeOK, TaskTypeOK, Goto
<1>1. ASSUME NEW t \in Slots, AddBuf(FreeHead, <<u, t>>), ~RingFull
      PROVE  \E k \in Heads : /\ Published(k, <<u, t>>) /\ k = FreeHead
                              /\ UNCHANGED used
  BY <1>1, FreeHeadFree DEF AddBuf, RingOK, RingTypeOK, Published
<1>2. CASE SubmitAddBuf(u)
  <2> DEFINE t == slot[u]
  <2>1. /\ pc[u] = "s_add" /\ t \in Slots /\ slot'[u] = t /\ cur'[u] = cur[u]
        /\ UNCHANGED <<doio_pending_cookie, resp, req_id>>
    BY <1>2 DEF SubmitAddBuf, LocalOK, LocalAt, Submitting, bufVars
  <2>2. CASE /\ ~RingFull /\ AddBuf(FreeHead, <<u, t>>)
             /\ publisher' = [publisher EXCEPT ![FreeHead] = cur[u]]
             /\ Goto(u, "s_count") /\ UNCHANGED inflight
    <3>1. Prep(u, t) /\ SlotOK(u, t) /\ cur[u] # NULL
      BY <2>1, ScsiIOAssumption DEF Prep, Submitting, SlotInv, TokenInv, LocalOK, LocalAt, AtRequest
    <3>2. Owner(u, t) = cur[u]
      BY <2>1, <3>1 DEF SlotOK, Prepared, Owner
    <3>3. pc'[u] \notin Routing
      BY <2>2 DEF Routing
    <3>4. QED
      BY <1>1, <2>1, <2>2, <3>2, <3>3, PublishBuffers
  <2>3. CASE /\ inflight' = [inflight EXCEPT ![u][t] = NULL] /\ Goto(u, "s_release")
             /\ UNCHANGED <<ringVars, publisher>>
    <3>1. UNCHANGED <<cookies, used, publisher>> /\ pc'[u] = "s_release"
      BY <2>3 DEF ringVars
    <3>2. QED
      BY <2>1, <2>3, <3>1, RefusedBuffers
  <2>4. QED
    BY <1>2, <2>2, <2>3 DEF SubmitAddBuf
<1>3. CASE DoIOAddBuf(u)
  <2>1. /\ pc[u] = "d_add" /\ cur'[u] = cur[u] /\ 0 \in Slots
        /\ UNCHANGED <<inflight, doio_pending_cookie, resp, req_id>>
    BY <1>3, SlotsNat DEF DoIOAddBuf, unitVars, bufVars, Slots
  <2>2. CASE /\ ~RingFull /\ AddBuf(FreeHead, req_buf(u))
             /\ publisher' = [publisher EXCEPT ![FreeHead] = cur[u]]
             /\ Goto(u, "d_kick")
    <3>1. Owner(u, 0) = cur[u]
      BY <2>1 DEF AnswerInv, TaskOK, Commanding, Owner
    <3>2. pc'[u] \notin Routing
      BY <2>2 DEF Routing
    <3>3. QED
      BY <1>1, <2>1, <2>2, <3>1, <3>2, PublishBuffers DEF req_buf
  <2>3. CASE Goto(u, "d_done") /\ UNCHANGED <<ringVars, publisher>>
    BY <2>1, <2>3, BuffersQuiet DEF ringVars, Routing
  <2>4. QED
    BY <1>3, <2>2, <2>3 DEF DoIOAddBuf
<1>4. QED
  BY <1>2, <1>3

\* A freed slot has no command under way.
LEMMA FreeBuffers ==
  ASSUME BasicInv, SlotInv, SlotInv', AnswerInv, ~timed_out, ~timed_out', NEW u \in Units, Task(u),
         CompleteFree(u)
  PROVE  \A x \in Units, s \in Slots : BufferOK(x, s)'
<1>1. /\ pc[u] = "c_free" /\ pc'[u] = "c_reply" /\ cur'[u] = cur[u]
      /\ UNCHANGED <<cookies, used, publisher, doio_pending_cookie, resp, req_id>>
  BY DEF CompleteFree, ringVars, bufVars, histVars, Goto, BasicInv, TypeOK, SharedTypeOK
<1>2. PICK y \in Units, t \in Slots : cookie[u] = <<y, t>>
  BY <1>1, CookiePair DEF BasicInv, LocalOK, LocalAt
<1>3. inflight' = [inflight EXCEPT ![y][t] = NULL]
  BY <1>2 DEF CompleteFree
<1>4. OwnId(y, t)
  <2>1. Frees(u, y, t) /\ SlotOK(y, t) /\ BufferOK(y, t)
    BY <1>1, <1>2 DEF Frees, SlotInv, TokenInv, AnswerInv
  <2>2. QED
    BY <2>1 DEF SlotOK, Freeing, BufferOK
<1> TAKE x \in Units, s \in Slots
<1>5. OwnId(x, s)' = OwnId(x, s) /\ Stashed(x, s)' = Stashed(x, s) /\ ~Holds(u, x, s)'
  BY <1>1 DEF OwnId, EncodeId, Stashed, Holds, Routing
<1>6. CASE x = y /\ s = t
  <2>1. inflight'[x][s] = NULL
    BY <1>3, <1>6 DEF BasicInv, TypeOK, UnitTypeOK
  <2>2. SlotOK(x, s)' /\ OwnId(x, s)'
    BY <1>4, <1>5, <1>6 DEF SlotInv, TokenInv
  <2>3. NoToken(x, s)'
    BY <2>1, <2>2 DEF SlotOK, Spent
  <2>4. QED
    BY <2>1, <2>3, BufferFresh
<1>7. CASE <<x, s>> # <<y, t>>
  <2>1. inflight'[x][s] = inflight[x][s]
    BY <1>3, <1>7 DEF BasicInv, TypeOK, UnitTypeOK
  <2>2. cur'[x] = cur[x] /\ \A h \in Heads : InUsed(h)' = InUsed(h)
    BY <1>1, Others DEF OthersSame, InUsed
  <2>3. QED
    BY <1>1, <1>5, <2>1, <2>2, BuffersElsewhere
<1>8. QED
  BY <1>6, <1>7

\* VirtIOSCSI_Harvest takes, routes and stashes completions.
LEMMA HarvestBuffers ==
  ASSUME BasicInv, SlotInv', AnswerInv, ~timed_out, ~timed_out', NEW u \in Units, Task(u),
         HarvestGetBuf(u) \/ HarvestRoute(u)
  PROVE  \A x \in Units, s \in Slots : BufferOK(x, s)'
<1> USE DEF BasicInv, TypeOK, SharedTypeOK, TaskTypeOK, Goto
<1>1. CASE HarvestGetBuf(u)
  <2>1. /\ UNCHANGED <<inflight, doio_pending_cookie, resp, req_id>> /\ cur'[u] = cur[u]
    BY <1>1 DEF HarvestGetBuf, unitVars, bufVars
  <2>2. CASE /\ GetBuf /\ cookie' = [cookie EXCEPT ![u] = Returned]
             /\ publisher' = [publisher EXCEPT ![Head(used)] = NULL] /\ Goto(u, "h_route")
    <3>1. pc'[u] = "h_route" /\ cookie'[u] = Returned
      BY <2>2
    <3>2. QED
      BY <2>1, <2>2, <3>1, TakeBuffers
  <2>3. CASE Goto(u, "h_coalesce") /\ UNCHANGED <<ringVars, cookie, publisher>>
    BY <2>1, <2>3, BuffersQuiet DEF ringVars, Routing
  <2>4. QED
    BY <1>1, <2>2, <2>3 DEF HarvestGetBuf
<1>2. CASE HarvestRoute(u)
  <2>1. /\ UNCHANGED <<inflight, cookies, used, publisher, resp, req_id>>
        /\ cur'[u] = cur[u] /\ pc[u] = "h_route"
    BY <1>2 DEF HarvestRoute, ringVars, bufVars, histVars
  <2>2. CASE CompleteStatus(u) /\ UNCHANGED <<cookie, doio_pending_cookie>>
    BY <2>1, <2>2, BuffersQuiet DEF CompleteStatus, Routing
  <2>3. CASE /\ ~Routed(cookie[u]) /\ Stash(cookie[u]) /\ Goto(u, "h_signal")
    <3>1. PICK y \in Units, t \in Slots : cookie[u] = <<y, t>>
      BY <2>1, CookiePair DEF LocalOK, LocalAt, Routing
    <3>2. Holds(u, y, t) /\ inflight[y][t] = NULL
      BY <2>1, <2>3, <3>1, NotRouted DEF Holds, Routing, AnswerInv
    <3>3. QED
      BY <2>1, <2>3, <3>1, <3>2, StashBuffers DEF Routing
  <2>4. CASE Goto(u, "h_get") /\ UNCHANGED doio_pending_cookie
    BY <2>1, <2>4, BuffersQuiet DEF Routing
  <2>5. QED
    BY <1>2, <2>2, <2>3, <2>4 DEF HarvestRoute
<1>3. QED
  BY <1>1, <1>2

\* A DoIO picks up its stashed completion.
LEMMA UnstashBuffers ==
  ASSUME BasicInv, AnswerInv, ~timed_out, NEW u \in Units, Task(u),
         cur'[u] = cur[u], pc'[u] \notin Routing,
         doio_pending_cookie' = [doio_pending_cookie EXCEPT ![u] = NULL],
         UNCHANGED <<inflight, cookies, used, publisher, resp, req_id>>
  PROVE  \A x \in Units, s \in Slots : BufferOK(x, s)'
<1> TAKE x \in Units, s \in Slots
<1>1. Stashed(x, s)' => Stashed(x, s)
  <2>1. <<x, s>> \in Cookies /\ NULL \notin Cookies
    BY RingAssumption, ScsiIOAssumption
  <2>2. <<x, s>> # NULL
    BY <2>1
  <2>3. QED
    BY <2>2 DEF Stashed, BasicInv, TypeOK, SharedTypeOK
<1>2. OwnId(x, s)' = OwnId(x, s) /\ ~Holds(u, x, s)'
  BY DEF OwnId, EncodeId, Holds
<1>3. cur'[x] = cur[x] /\ \A h \in Heads : InUsed(h)' = InUsed(h)
  BY Others DEF OthersSame, InUsed
<1>4. QED
  BY <1>1, <1>2, <1>3, BuffersElsewhere

\* So does the wait loop of VirtIOSCSI_DoIO.
LEMMA DoIOBuffers ==
  ASSUME BasicInv, SlotInv', AnswerInv, ~timed_out, ~timed_out', NEW u \in Units, Task(u),
         DoIODrain(u) \/ DoIORoute(u) \/ DoIOStash(u)
  PROVE  \A x \in Units, s \in Slots : BufferOK(x, s)'
<1> USE DEF BasicInv, TypeOK, SharedTypeOK, TaskTypeOK, Goto
<1>1. CASE DoIODrain(u)
  <2>1. /\ UNCHANGED <<inflight, resp, req_id>> /\ cur'[u] = cur[u] /\ pc[u] \in {"d_check", "d_drain"}
    BY <1>1 DEF DoIODrain, unitVars, bufVars
  <2>2. CASE /\ doio_pending_cookie' = [doio_pending_cookie EXCEPT ![u] = NULL]
             /\ Goto(u, "d_clear") /\ UNCHANGED <<ringVars, cookie, publisher>>
    <3>1. UNCHANGED <<cookies, used, publisher>> /\ pc'[u] \notin Routing
      BY <2>2 DEF ringVars, Routing
    <3> HIDE DEF BasicInv, TypeOK, SharedTypeOK, TaskTypeOK
    <3>2. QED
      BY <2>1, <2>2, <3>1, UnstashBuffers
  <2>3. CASE /\ GetBuf /\ publisher' = [publisher EXCEPT ![Head(used)] = NULL]
             /\ \/ Goto(u, "d_clear")
                \/ cookie' = [cookie EXCEPT ![u] = Returned] /\ Goto(u, "d_route")
             /\ UNCHANGED doio_pending_cookie
    <3>1. /\ pc'[u] \in {"d_clear", "d_route"} /\ (pc'[u] \in Routing => cookie'[u] = Returned)
      BY <2>3 DEF Routing
    <3>2. QED
      BY <2>1, <2>3, <3>1, TakeBuffers
  <2>4. CASE Goto(u, "d_wait") /\ UNCHANGED <<ringVars, doio_pending_cookie, publisher>>
    BY <2>1, <2>4, BuffersQuiet DEF ringVars, Routing
  <2>5. QED
    BY <1>1, <2>2, <2>3, <2>4 DEF DoIODrain
<1>2. CASE DoIORoute(u)
  <2>1. /\ UNCHANGED <<inflight, cookies, used, publisher, resp, req_id, doio_pending_cookie, cookie>>
        /\ cur'[u] = cur[u] /\ pc[u] = "d_route"
    BY <1>2 DEF DoIORoute, ringVars, bufVars, histVars
  <2>2. CASE CompleteStatus(u)
    BY <2>1, <2>2, BuffersQuiet DEF CompleteStatus, Routing
  <2>3. CASE ~Routed(cookie[u]) /\ Goto(u, "d_stash")
    <3>1. PICK y \in Units, t \in Slots : cookie[u] = <<y, t>>
      BY <2>1, CookiePair DEF LocalOK, LocalAt, Routing
    <3>2. inflight[y][t] = NULL
      BY <2>1, <2>3, <3>1, NotRouted DEF AnswerInv
    <3> HIDE DEF BasicInv, TypeOK, SharedTypeOK, TaskTypeOK, Goto
    <3> SUFFICES ASSUME NEW x \in Units, NEW s \in Slots PROVE BufferOK(x, s)'
      OBVIOUS
    <3>3. OwnId(x, s)' = OwnId(x, s) /\ Stashed(x, s)' = Stashed(x, s)
      BY <2>1 DEF OwnId, EncodeId, Stashed
    <3>4. cur'[x] = cur[x] /\ (\A h \in Heads : InUsed(h)' = InUsed(h)) /\ UNCHANGED answer
      BY <2>1, Others, TaskAnswers DEF OthersSame, InUsed
    <3>5. BufferOK(x, s) /\ Answered(x, s)' = Answered(x, s) /\ Owner(x, s)' = Owner(x, s)
      BY <2>1, <3>4 DEF AnswerInv, Answered, Owner
    <3>6. \A w \in Units : Holds(w, x, s)' =>
            Holds(w, x, s) /\ (pc'[w] = "d_stash" => pc[w] = "d_stash" \/ (w = u /\ <<x, s>> = <<y, t>>))
      <4>1. \A w \in Units : w # u => (Holds(w, x, s)' => Holds(w, x, s) /\ pc'[w] = pc[w])
        BY Others DEF OthersSame, Holds
      <4>2. Holds(u, x, s)' => Holds(u, x, s) /\ <<x, s>> = <<y, t>>
        BY <2>1, <3>1 DEF Holds, Routing
      <4>3. QED
        BY <4>1, <4>2
    <3>7. QED
      BY <2>1, <3>2, <3>3, <3>4, <3>5, <3>6 DEF BufferOK
  <2>4. QED
    BY <1>2, <2>2, <2>3 DEF DoIORoute
<1>3. CASE DoIOStash(u)
  <2>1. /\ UNCHANGED <<inflight, cookies, used, publisher, resp, req_id>>
        /\ cur'[u] = cur[u] /\ pc[u] = "d_stash" /\ pc'[u] = "d_drain"
    BY <1>3 DEF DoIOStash, ringVars, unitVars, bufVars, histVars
  <2>2. CASE Stash(cookie[u])
    <3>1. PICK y \in Units, t \in Slots : cookie[u] = <<y, t>>
      BY <2>1, CookiePair DEF LocalOK, LocalAt, Routing
    <3>2. Holds(u, y, t) /\ inflight[y][t] = NULL
      BY <2>1, <3>1 DEF Holds, Routing, AnswerInv, BufferOK
    <3>3. Stash(<<y, t>>) /\ pc'[u] \notin Routing
      BY <2>1, <2>2, <3>1 DEF Routing
    <3> HIDE DEF BasicInv, TypeOK, SharedTypeOK, TaskTypeOK
    <3>4. QED
      BY <2>1, <3>2, <3>3, StashBuffers
  <2>3. CASE UNCHANGED doio_pending_cookie
    BY <2>1, <2>3, BuffersQuiet DEF Routing
  <2>4. QED
    BY <1>3, <2>2, <2>3 DEF DoIOStash
<1>4. QED
  BY <1>1, <1>2, <1>3

\* No step of a task separates a command from its buffers.
LEMMA TaskBuffers ==
  ASSUME BasicInv, SlotInv, SlotInv', SlotZeroIdle, AnswerInv, ~timed_out, ~timed_out',
         NEW u \in Units, Task(u)
  PROVE  \A x \in Units, s \in Slots : BufferOK(x, s)'
  BY QuietBuffers, PrepareBuffers, AddBuffers, FreeBuffers, HarvestBuffers, TryBuffers, DoIOBuffers
     DEF Task

-----------------------------------------------------------------------------
(* A task's steps and what it is about to report *)

\* A step of u occupies no slot but one of its own, in VirtIOSCSI_Submit.
LEMMA InflightMoves ==
  ASSUME BasicInv, NEW u \in Units, Task(u), NEW x \in Units, NEW s \in Slots
  PROVE  \/ inflight'[x][s] \in {inflight[x][s], NULL}
         \/ x = u /\ pc[u] = "s_prepare" /\ inflight'[x][s] = cur[u]
<1>0. inflight \in [Units -> [Slots -> Requests \cup {NULL}]]
  BY DEF BasicInv, TypeOK, UnitTypeOK
<1>1. CASE SubmitPrepare(u)
  <2>1. /\ pc[u] = "s_prepare"
        /\ UNCHANGED inflight \/ inflight' = [inflight EXCEPT ![u][slot[u]] = cur[u]]
    BY <1>1 DEF SubmitPrepare
  <2>2. QED
    BY <1>0, <2>1
<1>2. CASE SubmitAddBuf(u)
  <2>1. UNCHANGED inflight \/ inflight' = [inflight EXCEPT ![u][slot[u]] = NULL]
    BY <1>2 DEF SubmitAddBuf
  <2>2. QED
    BY <1>0, <2>1
<1>3. CASE CompleteFree(u)
  <2>1. inflight' = [inflight EXCEPT ![cookie[u][1]][cookie[u][2]] = NULL]
    BY <1>3 DEF CompleteFree
  <2>2. QED
    BY <1>0, <2>1
<1>4. CASE \/ TaskWake(u) \/ GetMsg(u) \/ DispatchReply(u) \/ KickBatch(u) \/ SubmitPop(u)
           \/ SubmitCount(u) \/ SubmitRelease(u)
  <2>1. UNCHANGED inflight
    BY <1>4, Zenon DEF TaskWake, GetMsg, DispatchReply, KickBatch, SubmitPop, SubmitCount,
       SubmitRelease, unitVars
  <2>2. QED
    BY <2>1
<1>5. CASE \/ HarvestGetBuf(u) \/ HarvestCoalesce(u) \/ HarvestRoute(u) \/ HarvestSignal(u)
           \/ CompleteReply(u)
  <2>1. UNCHANGED inflight
    BY <1>5, Zenon DEF HarvestGetBuf, HarvestCoalesce, HarvestRoute, HarvestSignal,
       CompleteReply, unitVars
  <2>2. QED
    BY <2>1
<1>6. CASE \/ DoIOTry(u) \/ DoIOAddBuf(u) \/ DoIOKick(u) \/ DoIODrain(u) \/ DoIORoute(u)
           \/ DoIOStash(u) \/ DoIOWait(u) \/ DoIOClear(u) \/ DoIODone(u)
  <2>1. UNCHANGED inflight
    BY <1>6, Zenon DEF DoIOTry, DoIOAddBuf, DoIOKick, DoIODrain, DoIORoute, DoIOStash, DoIOWait,
       DoIOClear, DoIODone, unitVars
  <2>2. QED
    BY <2>1
<1>7. QED
  BY <1>1, <1>2, <1>3, <1>4, <1>5, <1>6 DEF Task

\* It writes no response buffer of another unit.
LEMMA RespElsewhere ==
  ASSUME BasicInv, NEW u \in Units, Task(u), NEW v \in Units, v # u, NEW s \in Slots
  PROVE  resp'[<<v, s>>] = resp[<<v, s>>]
<1>1. CASE SubmitPrepare(u) \/ DoIOTry(u)
  <2>1. \E t : resp' = [resp EXCEPT ![<<u, t>>] = "good"]
    BY <1>1 DEF SubmitPrepare, DoIOTry, req_buf
  <2>2. QED
    BY <2>1, ScsiIOAssumption DEF BasicInv, TypeOK, BufTypeOK
<1>2. CASE ~SubmitPrepare(u) /\ ~DoIOTry(u)
  BY <1>2, TaskAnswers
<1>3. QED
  BY <1>1, <1>2

\* What the other tasks are about to report stays true.
LEMMA OtherReports ==
  ASSUME BasicInv, AnswerInv, ~timed_out, NEW u \in Units, Task(u), NEW v \in Units, v # u
  PROVE  TaskOK(v)'
<1>1. /\ pc'[v] = pc[v] /\ cur'[v] = cur[v] /\ done'[v] = done[v]
      /\ ret'[v] = ret[v] /\ own'[v] = own[v] /\ derr'[v] = derr[v] /\ rc'[v] = rc[v]
      /\ answer' = answer
      /\ inflight'[v][0] \in {inflight[v][0], NULL} /\ resp'[<<v, 0>>] = resp[<<v, 0>>]
  BY Others, TaskAnswers, InflightMoves, RespElsewhere, SlotsNat DEF OthersSame, Slots
<1>2. TaskOK(v) /\ (own[v] => pc[v] = "d_clear")
  BY DEF AnswerInv, BasicInv, LocalOK, LocalAt
<1>3. Commanding(v)' = Commanding(v) /\ (own[v] => Commanding(v))
  BY <1>1, <1>2 DEF Commanding, InLoop
<1>4. own[v] => Answered(v, 0)'
  BY <1>1, <1>2, <1>3 DEF TaskOK, Answered, Owner
<1>5. QED
  BY <1>1, <1>2, <1>3, <1>4 DEF TaskOK, Truth

\* A task that has no answer in hand.
LEMMA ReportsNothing ==
  ASSUME BasicInv', NEW u \in Units,
         pc'[u] \in {"wait", "h_get", "h_coalesce", "h_route", "h_signal", "getmsg", "s_pop",
                     "s_prepare", "s_add", "s_count", "kick", "d_try"}
  PROVE  TaskOK(u)'
  BY DEF TaskOK, Commanding, InLoop, Completing, BasicInv, LocalOK, LocalAt

\* A task that waits for its DoIO's answer, or has just got it.
LEMMA ReportsLater ==
  ASSUME NEW u \in Units, inflight'[u][0] = NULL, own'[u] => Answered(u, 0)',
         pc'[u] \in {"d_add", "d_kick", "d_check", "d_drain", "d_route", "d_stash", "d_wait", "d_clear"}
  PROVE  TaskOK(u)'
  BY DEF TaskOK, Completing

\* A task that completes a request of the pipeline.
LEMMA ReportsDone ==
  ASSUME BasicInv', NEW u \in Units, pc'[u] \in Completing, Truth(done[u], derr[u])',
         ret'[u] = "d_drain" => inflight'[u][0] = NULL
  PROVE  TaskOK(u)'
  BY DEF TaskOK, Commanding, InLoop, Completing, BasicInv, LocalOK, LocalAt

\* A task that answers the request it has in hand.
LEMMA ReportsCurrent ==
  ASSUME BasicInv', NEW u \in Units, pc'[u] \in {"d_done", "s_release", "reply"},
         cur'[u] \in Block \cup Sync => Truth(cur[u], rc[u])'
  PROVE  TaskOK(u)'
  BY DEF TaskOK, Commanding, InLoop, Completing, BasicInv, LocalOK, LocalAt

\* A completion routed to its slot gives that slot's request its own answer.
LEMMA RoutedReports ==
  ASSUME BasicInv, AnswerInv, ~timed_out, NEW u \in Units, Task(u), pc[u] \in Routing,
         Routed(cookie[u]), CompleteStatus(u)
  PROVE  Truth(done[u], derr[u])' /\ pc'[u] = "c_free"
<1> DEFINE y == cookie[u][1]
           t == cookie[u][2]
<1>1. y \in Units /\ t \in Slots /\ cookie[u] = <<y, t>> /\ inflight[y][t] # NULL
  BY RoutedCookie
<1>2. done'[u] = inflight[y][t] /\ derr'[u] = map_scsi_error(resp[<<y, t>>]) /\ pc'[u] = "c_free"
  BY DEF CompleteStatus, Goto, BasicInv, TypeOK, TaskTypeOK, SharedTypeOK
<1>3. BufferOK(y, t) /\ Holds(u, y, t) /\ answer' = answer
  BY <1>1, TaskAnswers DEF AnswerInv, Holds
<1> HIDE DEF y, t
<1>4. Answered(y, t) /\ Owner(y, t) = inflight[y][t]
  BY <1>1, <1>3 DEF BufferOK, Owner
<1>5. QED
  BY <1>2, <1>3, <1>4 DEF Answered, Truth

\* The event loop, the dispatcher and VirtIOSCSI_Submit.
LEMMA SubmitReports ==
  ASSUME BasicInv, BasicInv', AnswerInv, ~timed_out, NEW u \in Units, Task(u),
         \/ TaskWake(u) \/ GetMsg(u) \/ DispatchReply(u) \/ KickBatch(u) \/ SubmitPop(u)
         \/ SubmitPrepare(u) \/ SubmitAddBuf(u) \/ SubmitCount(u) \/ SubmitRelease(u)
  PROVE  TaskOK(u)'
<1>1. pc \in [Units -> Locations] /\ rc \in [Units -> Errors] /\ cur \in [Units -> Requests \cup {NULL}]
  BY DEF BasicInv, TypeOK, SharedTypeOK, TaskTypeOK
<1>2. CASE TaskWake(u) \/ DispatchReply(u) \/ KickBatch(u) \/ SubmitPop(u) \/ SubmitCount(u)
  <2>1. pc'[u] \in {"h_get", "getmsg", "wait", "s_prepare", "d_try"}
    BY <1>1, <1>2 DEF TaskWake, DispatchReply, KickBatch, SubmitPop, SubmitCount, Goto
  <2>2. QED
    BY <2>1, ReportsNothing
<1>3. CASE GetMsg(u)
  <2>1. \/ pc'[u] \in {"s_pop", "d_try", "kick", "wait"}
        \/ pc'[u] = "reply" /\ cur'[u] \in Quick
    <3>1. io_port[u] # <<>> => Head(io_port[u]) \in Requests
      BY PortHead DEF BasicInv, TypeOK, SharedTypeOK
    <3>2. QED
      BY <1>1, <1>3, <3>1 DEF GetMsg, Goto, Requests
  <2>2. Quick \cap (Block \cup Sync) = {}
    BY ScsiIOAssumption
  <2>3. QED
    BY <2>1, <2>2, ReportsNothing, ReportsCurrent
<1>4. CASE SubmitPrepare(u) \/ SubmitAddBuf(u)
  <2>1. \/ pc'[u] \in {"s_add", "s_count"}
        \/ pc'[u] = "s_release" /\ rc'[u] \in {"HFERR_DMA", "TDERR_NotSpecified"}
    BY <1>1, <1>4 DEF SubmitPrepare, SubmitAddBuf, Goto
  <2>2. rc'[u] \in {"HFERR_DMA", "TDERR_NotSpecified"} => Truth(cur[u], rc[u])'
    BY DEF Truth
  <2>3. QED
    BY <2>1, <2>2, ReportsNothing, ReportsCurrent
<1>5. CASE SubmitRelease(u)
  <2>1. pc[u] = "s_release" /\ pc'[u] = "reply" /\ UNCHANGED <<cur, rc, answer>>
    BY <1>1, <1>5 DEF SubmitRelease, Goto, histVars
  <2>2. QED
    BY <2>1, ReportsCurrent DEF AnswerInv, TaskOK, Truth
<1>6. QED
  BY <1>2, <1>3, <1>4, <1>5

\* VirtIOSCSI_Harvest and complete_inflight_slot.
LEMMA HarvestReports ==
  ASSUME BasicInv, BasicInv', AnswerInv, ~timed_out, NEW u \in Units, Task(u),
         \/ HarvestGetBuf(u) \/ HarvestCoalesce(u) \/ HarvestRoute(u) \/ HarvestSignal(u)
         \/ CompleteFree(u) \/ CompleteReply(u)
  PROVE  TaskOK(u)'
<1>1. pc \in [Units -> Locations] /\ ret \in [Units -> {"h_get", "d_drain"}] /\ TaskOK(u) /\ LocalAt(u)
  BY DEF BasicInv, TypeOK, SharedTypeOK, TaskTypeOK, AnswerInv, LocalOK
<1>2. CASE HarvestGetBuf(u) \/ HarvestCoalesce(u) \/ HarvestSignal(u)
  <2>1. pc'[u] \in {"h_route", "h_coalesce", "getmsg", "h_get"}
    BY <1>1, <1>2 DEF HarvestGetBuf, HarvestCoalesce, HarvestSignal, Goto
  <2>2. QED
    BY <2>1, ReportsNothing
<1>3. CASE HarvestRoute(u)
  <2>1. pc[u] = "h_route" /\ ret'[u] = ret[u] /\ ret[u] = "h_get"
    BY <1>1, <1>3 DEF HarvestRoute, LocalAt, Completing
  <2>2. CASE Routed(cookie[u]) /\ CompleteStatus(u)
    <3>1. Truth(done[u], derr[u])' /\ pc'[u] = "c_free"
      BY <2>1, <2>2, RoutedReports DEF Routing
    <3>2. QED
      BY <2>1, <3>1, ReportsDone DEF Completing
  <2>3. CASE ~Routed(cookie[u])
    <3>1. pc'[u] \in {"h_signal", "h_get"}
      BY <1>1, <1>3, <2>3 DEF HarvestRoute, Goto
    <3>2. QED
      BY <3>1, ReportsNothing
  <2>4. QED
    BY <1>3, <2>2, <2>3 DEF HarvestRoute
<1>4. CASE CompleteFree(u)
  <2>1. /\ pc[u] = "c_free" /\ pc'[u] = "c_reply" /\ UNCHANGED <<done, derr, answer, ret>>
        /\ inflight' = [inflight EXCEPT ![cookie[u][1]][cookie[u][2]] = NULL]
    BY <1>1, <1>4 DEF CompleteFree, Goto, histVars
  <2>2. Truth(done[u], derr[u])'
    BY <1>1, <2>1 DEF TaskOK, Completing, Truth
  <2>3. ret'[u] = "d_drain" => inflight[u][0] = NULL
    BY <1>1, <2>1 DEF TaskOK, Commanding, InLoop, Completing
  <2>4. inflight[u][0] = NULL => inflight'[u][0] = NULL
    <3>1. 0 \in Slots /\ inflight \in [Units -> [Slots -> Requests \cup {NULL}]]
      BY SlotsNat DEF Slots, BasicInv, TypeOK, UnitTypeOK
    <3>2. QED
      BY <2>1, <3>1
  <2>5. QED
    BY <2>1, <2>2, <2>3, <2>4, ReportsDone DEF Completing
<1>5. CASE CompleteReply(u)
  <2>1. pc[u] = "c_reply" /\ pc'[u] = ret[u] /\ UNCHANGED <<inflight, own>>
    BY <1>1, <1>5 DEF CompleteReply, Goto, unitVars
  <2>2. CASE ret[u] = "h_get"
    BY <2>1, <2>2, ReportsNothing
  <2>3. CASE ret[u] = "d_drain"
    <3>1. inflight[u][0] = NULL /\ ~own[u]
      BY <1>1, <2>1, <2>3 DEF TaskOK, Commanding, InLoop, Completing, LocalAt
    <3>2. QED
      BY <2>1, <2>3, <3>1, ReportsLater
  <2>4. QED
    BY <1>1, <2>2, <2>3
<1>6. QED
  BY <1>2, <1>3, <1>4, <1>5

\* The attempts of VirtIOSCSI_DoIO and their outcome.
LEMMA DoIOReports ==
  ASSUME BasicInv, BasicInv', AnswerInv, SlotZeroIdle, ~timed_out, ~timed_out',
         NEW u \in Units, Task(u),
         DoIOTry(u) \/ DoIOAddBuf(u) \/ DoIOKick(u) \/ DoIOWait(u) \/ DoIOClear(u) \/ DoIODone(u)
  PROVE  TaskOK(u)'
<1>1. /\ pc \in [Units -> Locations] /\ rc \in [Units -> Errors] /\ own \in [Units -> BOOLEAN]
      /\ TaskOK(u) /\ LocalAt(u)
  BY DEF BasicInv, TypeOK, SharedTypeOK, TaskTypeOK, AnswerInv, LocalOK
<1>2. CASE DoIOTry(u) \/ DoIOAddBuf(u)
  <2>1. /\ pc[u] \in {"d_try", "d_add"} /\ UNCHANGED <<inflight, own>>
        /\ \/ pc'[u] \in {"d_add", "d_kick"}
           \/ pc'[u] = "d_done" /\ rc'[u] \in {"HFERR_DMA", "TDERR_NotSpecified"}
    BY <1>1, <1>2 DEF DoIOTry, DoIOAddBuf, Goto, unitVars
  <2>2. inflight[u][0] = NULL /\ ~own[u]
    BY <1>1, <2>1 DEF SlotZeroIdle, TaskOK, Commanding, LocalAt
  <2>3. rc'[u] \in {"HFERR_DMA", "TDERR_NotSpecified"} => Truth(cur[u], rc[u])'
    BY DEF Truth
  <2>4. QED
    BY <2>1, <2>2, <2>3, ReportsLater, ReportsCurrent
<1>3. CASE DoIOKick(u) \/ DoIOWait(u)
  <2>1. /\ pc[u] \in {"d_kick", "d_wait"} /\ UNCHANGED inflight /\ pc'[u] \in {"d_check", "d_clear"}
        /\ own'[u] = own[u] \/ own'[u] = FALSE
    BY <1>1, <1>3 DEF DoIOKick, DoIOWait, Goto, unitVars
  <2>2. inflight[u][0] = NULL /\ ~own'[u]
    BY <1>1, <2>1 DEF TaskOK, Commanding, InLoop, LocalAt
  <2>3. QED
    BY <2>1, <2>2, ReportsLater
<1>4. CASE DoIOClear(u)
  <2>1. /\ pc[u] = "d_clear" /\ own[u] /\ UNCHANGED <<cur, answer>>
        /\ \/ pc'[u] = "d_try"
           \/ pc'[u] = "d_done" /\ rc'[u] = map_scsi_error(resp[<<u, 0>>])
    BY <1>1, <1>4 DEF DoIOClear, Goto, req_buf
  <2>2. Answered(u, 0) /\ Owner(u, 0) = cur[u]
    BY <1>1, <2>1 DEF TaskOK, Commanding, Owner
  <2>3. rc'[u] = map_scsi_error(resp[<<u, 0>>]) => Truth(cur[u], rc[u])'
    BY <2>1, <2>2 DEF Answered, Truth
  <2>4. QED
    BY <2>1, <2>3, ReportsNothing, ReportsCurrent
<1>5. CASE DoIODone(u)
  <2>1. pc[u] = "d_done" /\ pc'[u] = "reply" /\ UNCHANGED <<cur, rc, answer>>
    BY <1>1, <1>5 DEF DoIODone, Goto, histVars, taskVars
  <2>2. QED
    BY <1>1, <2>1, ReportsCurrent DEF TaskOK, Truth
<1>6. QED
  BY <1>2, <1>3, <1>4, <1>5

\* The wait loop of VirtIOSCSI_DoIO: the cookie it leaves with stands for the
\* answer to its own command.
LEMMA LoopReports ==
  ASSUME BasicInv, BasicInv', AnswerInv, ~timed_out, NEW u \in Units, Task(u),
         DoIODrain(u) \/ DoIORoute(u) \/ DoIOStash(u)
  PROVE  TaskOK(u)'
<1>0. TaskOK(u) /\ LocalAt(u) /\ 0 \in Slots
  BY SlotsNat DEF BasicInv, AnswerInv, LocalOK, Slots
<1>1. /\ pc \in [Units -> Locations] /\ own \in [Units -> BOOLEAN] /\ ret \in [Units -> {"h_get", "d_drain"}]
  BY DEF BasicInv, TypeOK, SharedTypeOK, TaskTypeOK
<1>2. /\ pc[u] \in {"d_check", "d_drain", "d_route", "d_stash"} /\ UNCHANGED <<inflight, cur, resp, req_id>>
      /\ UNCHANGED answer
  BY TaskAnswers DEF DoIODrain, DoIORoute, DoIOStash, unitVars, bufVars
<1>3. inflight[u][0] = NULL /\ ~own[u] /\ Answered(u, 0)' = Answered(u, 0)
  BY <1>0, <1>2 DEF TaskOK, Commanding, InLoop, LocalAt, Answered, Owner
<1>4. CASE DoIODrain(u)
  <2>1. CASE /\ doio_pending_cookie[u] = req_buf(u) /\ Goto(u, "d_clear")
    <3>1. Answered(u, 0)'
      BY <1>0, <1>3, <2>1 DEF AnswerInv, BufferOK, Stashed, req_buf
    <3>2. pc'[u] = "d_clear"
      BY <1>1, <2>1 DEF Goto
    <3>3. QED
      BY <1>2, <1>3, <3>1, <3>2, ReportsLater
  <2>2. CASE /\ GetBuf /\ publisher' = [publisher EXCEPT ![Head(used)] = NULL]
             /\ OwnCookie(u, Returned) /\ Goto(u, "d_clear") /\ UNCHANGED doio_pending_cookie
    <3>1. pc'[u] = "d_clear" /\ Returned = <<u, 0>>
      BY <1>1, <2>2 DEF Goto, OwnCookie, req_buf
    <3>2. Answered(u, 0)'
      BY <1>0, <1>2, <2>2, <3>1, TakeBuffers DEF Routing
    <3>3. QED
      BY <1>2, <1>3, <3>1, <3>2, ReportsLater
  <2>3. CASE (Goto(u, "d_route") \/ Goto(u, "d_wait")) /\ UNCHANGED own
    <3>1. pc'[u] \in {"d_route", "d_wait"} /\ ~own'[u]
      BY <1>1, <1>3, <2>3 DEF Goto
    <3>2. QED
      BY <1>2, <1>3, <3>1, ReportsLater
  <2>4. QED
    BY <1>4, <2>1, <2>2, <2>3 DEF DoIODrain
<1>5. CASE DoIORoute(u)
  <2>1. pc[u] = "d_route" /\ UNCHANGED own
    BY <1>5 DEF DoIORoute
  <2>2. CASE Routed(cookie[u]) /\ CompleteStatus(u)
    <3>1. Truth(done[u], derr[u])' /\ pc'[u] = "c_free"
      BY <2>1, <2>2, RoutedReports DEF Routing
    <3>2. QED
      BY <1>2, <1>3, <3>1, ReportsDone DEF Completing
  <2>3. CASE Goto(u, "d_stash")
    <3>1. pc'[u] = "d_stash"
      BY <1>1, <2>3 DEF Goto
    <3>2. QED
      BY <1>2, <1>3, <2>1, <3>1, ReportsLater
  <2>4. QED
    BY <1>5, <2>2, <2>3 DEF DoIORoute
<1>6. CASE DoIOStash(u)
  <2>1. pc'[u] = "d_drain" /\ UNCHANGED own
    BY <1>1, <1>6 DEF DoIOStash, Goto
  <2>2. QED
    BY <1>2, <1>3, <2>1, ReportsLater
<1>7. QED
  BY <1>4, <1>5, <1>6

\* What the tasks are about to report stays true.
LEMMA TaskReports ==
  ASSUME BasicInv, BasicInv', AnswerInv, SlotZeroIdle, ~timed_out, ~timed_out', NEW u \in Units, Task(u)
  PROVE  \A v \in Units : TaskOK(v)'
<1>1. TaskOK(u)'
  BY SubmitReports, HarvestReports, DoIOReports, LoopReports DEF Task
<1>2. QED
  BY <1>1, OtherReports

-----------------------------------------------------------------------------
(* Every report is true *)

\* What has been reported stays true, and the next report is.
LEMMA TaskTruth ==
  ASSUME BasicInv, AnswerInv, ~timed_out, NEW u \in Units, Task(u)
  PROVE  TruthfulReplies'
<1>1. answer' = answer /\ TaskOK(u) /\ TruthfulReplies
  BY TaskAnswers DEF AnswerInv
<1>2. ASSUME NEW q \in Requests, NEW e, result' = [result EXCEPT ![q] = e],
             replies' = [replies EXCEPT ![q] = @ + 1], q \in Block \cup Sync => Truth(q, e)
      PROVE  TruthfulReplies'
  <2>1. /\ \A r \in Requests : r # q => result'[r] = result[r] /\ replies'[r] = replies[r]
        /\ result'[q] = e
    BY <1>2 DEF BasicInv, TypeOK, ClientTypeOK
  <2>2. QED
    BY <1>1, <1>2, <2>1 DEF TruthfulReplies, Truth, Requests
<1>3. CASE DispatchReply(u)
  <2>1. pc[u] = "reply" /\ cur[u] \in Requests
    BY <1>3 DEF DispatchReply, BasicInv, LocalOK, LocalAt, AtRequest
  <2>2. cur[u] \in Block \cup Sync => Truth(cur[u], rc[u])
    BY <1>1, <2>1 DEF TaskOK
  <2>3. QED
    BY <1>2, <1>3, <2>1, <2>2 DEF DispatchReply, ReplyMsg
<1>4. CASE CompleteReply(u)
  <2>1. pc[u] = "c_reply" /\ done[u] \in Requests
    BY <1>4 DEF CompleteReply, BasicInv, LocalOK, LocalAt, Completing
  <2>2. Truth(done[u], derr[u])
    BY <1>1, <2>1 DEF TaskOK, Completing
  <2>3. QED
    BY <1>2, <1>4, <2>1, <2>2 DEF CompleteReply, ReplyMsg
<1>5. CASE ~DispatchReply(u) /\ ~CompleteReply(u)
  BY <1>1, <1>5, TaskAnswers DEF TruthfulReplies
<1>6. QED
  BY <1>3, <1>4, <1>5

\* At the start nothing is published and nothing answered.
LEMMA AnswerInit == Init => AnswerInv
<1> SUFFICES ASSUME Init PROVE AnswerInv
  OBVIOUS
<1>1. /\ cookies = [h \in Heads |-> NULL] /\ doio_pending_cookie = [u \in Units |-> NULL]
      /\ pc = [u \in Units |-> "wait"] /\ inflight = [u \in Units |-> [s \in Slots |-> NULL]]
      /\ own = [u \in Units |-> FALSE] /\ replies = [r \in Requests |-> 0]
  BY DEF Init, RingInit
<1>2. ASSUME NEW u \in Units, NEW s \in Slots
      PROVE  BufferOK(u, s)
  <2>1. <<u, s>> \in Cookies /\ NULL \notin Cookies
    BY RingAssumption, ScsiIOAssumption
  <2>2. <<u, s>> # NULL
    BY <2>1
  <2>3. QED
    BY <1>1, <2>2 DEF BufferOK, Holds, Stashed, Routing
<1>3. ASSUME NEW u \in Units
      PROVE  TaskOK(u)
  BY <1>1 DEF TaskOK, Commanding, InLoop, Completing
<1>4. TruthfulReplies
  BY <1>1 DEF TruthfulReplies, Requests
<1>5. QED
  BY <1>2, <1>3, <1>4 DEF AnswerInv

\* Every step keeps the answers with the requests they belong to.
LEMMA AnswerStep ==
  BasicInv /\ SlotInv /\ RequestInv /\ SlotZeroIdle /\ AnswerInv /\ [Next]_vars => AnswerInv'
<1> SUFFICES ASSUME BasicInv, SlotInv, RequestInv, SlotZeroIdle, AnswerInv, [Next]_vars
             PROVE  AnswerInv'
  OBVIOUS
<1>1. CASE Environment
  BY <1>1, EnvironmentAnswers
<1>2. ASSUME NEW u \in Units, Task(u)
      PROVE  AnswerInv'
  <2>1. CASE timed_out \/ timed_out'
    BY <1>2, <2>1, TimedOutStays DEF AnswerInv
  <2>2. CASE ~timed_out /\ ~timed_out'
    <3>1. BasicInv' /\ SlotInv'
      BY BasicStep, SlotStep
    <3>2. \A x \in Units, s \in Slots : BufferOK(x, s)'
      BY <1>2, <2>2, <3>1, TaskBuffers
    <3>3. \A v \in Units : TaskOK(v)'
      BY <1>2, <2>2, <3>1, TaskReports
    <3>4. TruthfulReplies'
      BY <1>2, <2>2, TaskTruth
    <3>5. QED
      BY <3>2, <3>3, <3>4 DEF AnswerInv
  <2>3. QED
    BY <2>1, <2>2
<1>3. CASE UNCHANGED vars
  <2>1. UNCHANGED Held /\ UNCHANGED <<replies, result, answer, timed_out>>
    BY <1>3 DEF vars, Held, ringVars, unitVars, bufVars, clientVars, histVars, taskVars
  <2>2. QED
    BY <2>1, IdleAnswers DEF TruthfulReplies, AnswerInv
<1>4. QED
  BY <1>1, <1>2, <1>3, NextCases

\* TruthfulReplies, for every number of units, slots and requests, in every
\* behaviour that keeps out of the two ways to share slot 0's buffers: a DoIO
\* that starts while a request of the pipeline occupies slot 0 (no_slot), and a
\* DoIO that gave up on its command.  Whichever task harvests, routes or stashes
\* a completion, the status reported is the device's answer to that request.
THEOREM TruthfulUnlessShared == Spec /\ []SlotZeroIdle => [](~timed_out => TruthfulReplies)
<1>1. AnswerInv => (~timed_out => TruthfulReplies)
  BY DEF AnswerInv
<1>2. QED
  BY <1>1, AnswerInit, AnswerStep, BasicInvariant, SlotInvariant, RequestInvariant, PTL DEF Spec

-----------------------------------------------------------------------------
(* Where slot 0's buffers are never shared *)

BlockOf(u) == {r \in Block : UnitOf[r] = u}

\* No unit is sent both block requests and commands that issue a DoIO of their
\* own, and none is sent more block requests than it has slots.
KeptApart ==
  /\ \A q \in Block, r \in Sync : UnitOf[q] # UnitOf[r]
  /\ \A u \in Units : IsFiniteSet(BlockOf(u)) /\ Cardinality(BlockOf(u)) <= MAX_INFLIGHT

\* The pipeline carries block requests, DoIO the others.
KindAt(u) ==
  /\ pc[u] \in Submitting \cup {"s_pop"} => cur[u] \in Block
  /\ InLoop(u) \/ pc[u] \in {"d_try", "d_add", "d_kick", "d_clear"} => cur[u] \in Sync
  /\ \A s \in Slots : inflight[u][s] \in Block \cup {NULL}

KindInv == ~timed_out => \A u \in Units : KindAt(u)

\* VirtIOSCSI_Submit never runs out of slots: the request in hand would be one
\* more than the unit may be sent.
LEMMA SlotLeft ==
  ASSUME KeptApart, BasicInv, SlotInv, RequestInv, KindInv, ~timed_out,
         NEW u \in Units, pc[u] = "s_pop"
  PROVE  free_list[u] # <<>>
<1>1. SUFFICES ASSUME free_list[u] = <<>> PROVE FALSE
  OBVIOUS
<1>2. /\ FreeOK(u) /\ HomeOK(u) /\ KindAt(u) /\ AtRequest(u) /\ cur[u] \in Requests
      /\ \A r \in Requests : ReqOK(r)
  BY DEF SlotInv, RequestInv, KindInv, AtRequest, BasicInv, LocalOK, LocalAt
<1>3. ASSUME NEW s \in Slots
      PROVE  /\ inflight[u][s] \in BlockOf(u) \ {cur[u]}
             /\ Piped(inflight[u][s], s)
  <2>1. ~On(free_list[u], s) /\ ~Prep(u, s)
    BY <1>1 DEF On, Prep, Submitting
  <2>2. InPipe(u, s) /\ inflight[u][s] \in Block
    BY <1>2, <2>1 DEF FreeOK, InPipe, KindAt
  <2>3. UnitOf[inflight[u][s]] = u /\ Piped(inflight[u][s], s)
    BY <1>2, <2>2 DEF HomeOK, Piped
  <2>4. Current(cur[u])
    BY <1>2 DEF HomeOK, Current
  <2>5. inflight[u][s] # cur[u]
    BY <1>2, <2>3, <2>4 DEF ReqOK
  <2>6. QED
    BY <2>2, <2>3, <2>5 DEF BlockOf
<1>4. inflight[u] \in Injection(Slots, BlockOf(u) \ {cur[u]})
  <2>1. inflight[u] \in [Slots -> BlockOf(u) \ {cur[u]}]
    BY <1>3 DEF BasicInv, TypeOK, UnitTypeOK
  <2>2. \A s, t \in Slots : inflight[u][s] = inflight[u][t] => s = t
    BY <1>2, <1>3 DEF ReqOK, BlockOf, Requests
  <2>3. QED
    BY <2>1, <2>2 DEF Injection, IsInjective
<1>5. cur[u] \in BlockOf(u)
  BY <1>2 DEF KindAt, HomeOK, BlockOf
<1>6. /\ IsFiniteSet(BlockOf(u)) /\ Cardinality(BlockOf(u)) \in Nat
      /\ IsFiniteSet(BlockOf(u) \ {cur[u]})
      /\ Cardinality(BlockOf(u) \ {cur[u]}) = Cardinality(BlockOf(u)) - 1
  BY <1>5, FS_RemoveElement, FS_CardinalityType DEF KeptApart
<1>7. Cardinality(Slots) = MAX_INFLIGHT
  BY SlotsNat, FS_Interval DEF Slots
<1>8. Cardinality(Slots) <= Cardinality(BlockOf(u) \ {cur[u]})
  BY <1>4, <1>6, FS_Injection
<1>9. QED
  BY <1>6, <1>7, <1>8, SlotsNat DEF KeptApart

\* The slots hold block requests only.
LEMMA SlotKinds ==
  ASSUME BasicInv, KindInv, ~timed_out, NEW u \in Units, Task(u),
         NEW v \in Units, NEW s \in Slots
  PROVE  inflight'[v][s] \in Block \cup {NULL}
<1>1. /\ inflight[v][s] \in Block \cup {NULL}
      /\ pc[u] = "s_prepare" => cur[u] \in Block
  BY DEF KindInv, KindAt, Submitting
<1>2. QED
  BY <1>1, InflightMoves

\* A step of a task keeps the two kinds of command on their own paths.
LEMMA TaskKinds ==
  ASSUME KeptApart, BasicInv, SlotInv, RequestInv, KindInv, ~timed_out, NEW u \in Units, Task(u)
  PROVE  KindAt(u)'
<1>1. \A s \in Slots : inflight'[u][s] \in Block \cup {NULL}
  BY SlotKinds
<1>2. /\ pc \in [Units -> Locations] /\ cur \in [Units -> Requests \cup {NULL}]
      /\ ret \in [Units -> {"h_get", "d_drain"}] /\ KindAt(u) /\ LocalAt(u)
  BY DEF BasicInv, TypeOK, SharedTypeOK, TaskTypeOK, KindInv, LocalOK
<1>3. CASE \/ TaskWake(u) \/ DispatchReply(u) \/ KickBatch(u) \/ SubmitCount(u) \/ SubmitRelease(u)
           \/ HarvestGetBuf(u) \/ HarvestCoalesce(u) \/ HarvestSignal(u) \/ DoIODone(u)
  <2>1. pc'[u] \in {"h_get", "getmsg", "wait", "reply", "h_route", "h_coalesce"}
    BY <1>2, <1>3 DEF TaskWake, DispatchReply, KickBatch, SubmitCount, SubmitRelease,
       HarvestGetBuf, HarvestCoalesce, HarvestSignal, DoIODone, Goto
  <2>2. QED
    BY <1>1, <2>1 DEF KindAt, InLoop, Submitting, Completing
<1>4. CASE GetMsg(u)
  <2>1. io_port[u] # <<>> => Head(io_port[u]) \in Requests
    BY PortHead DEF BasicInv, TypeOK, SharedTypeOK
  <2>2. \/ pc'[u] \in {"reply", "kick", "wait"}
        \/ pc'[u] = "s_pop" /\ cur'[u] \in Block
        \/ pc'[u] = "d_try" /\ cur'[u] \in Sync
    BY <1>2, <1>4, <2>1 DEF GetMsg, Goto, Requests
  <2>3. QED
    BY <1>1, <2>2 DEF KindAt, InLoop, Submitting, Completing
<1>5. CASE SubmitPop(u) \/ SubmitPrepare(u) \/ SubmitAddBuf(u)
  <2>1. pc[u] = "s_pop" => free_list[u] # <<>>
    BY SlotLeft
  <2>2. /\ pc[u] \in {"s_pop", "s_prepare", "s_add"} /\ cur'[u] = cur[u]
        /\ pc'[u] \in {"s_prepare", "s_add", "s_count", "s_release"}
    BY <1>2, <1>5, <2>1 DEF SubmitPop, SubmitPrepare, SubmitAddBuf, Goto
  <2>3. QED
    BY <1>1, <1>2, <2>2 DEF KindAt, InLoop, Submitting, Completing
<1>6. CASE HarvestRoute(u)
  <2>1. pc[u] = "h_route" /\ ret'[u] = ret[u] /\ pc'[u] \in {"c_free", "h_signal", "h_get"}
    BY <1>2, <1>6 DEF HarvestRoute, CompleteStatus, Goto
  <2>2. ret[u] = "h_get"
    BY <1>2, <2>1 DEF LocalAt, Completing
  <2>3. QED
    BY <1>1, <2>1, <2>2 DEF KindAt, InLoop, Submitting, Completing
<1>7. CASE CompleteFree(u) \/ CompleteReply(u)
  <2>1. /\ pc[u] \in Completing /\ cur'[u] = cur[u]
        /\ \/ pc'[u] = "c_reply" /\ ret'[u] = ret[u]
           \/ pc'[u] = ret[u]
    BY <1>2, <1>7 DEF CompleteFree, CompleteReply, Goto, Completing
  <2>2. ret[u] = "d_drain" => cur[u] \in Sync
    BY <1>2, <2>1 DEF KindAt, InLoop
  <2>3. QED
    BY <1>1, <1>2, <2>1, <2>2 DEF KindAt, InLoop, Submitting, Completing
<1>8. CASE \/ DoIOTry(u) \/ DoIOAddBuf(u) \/ DoIOKick(u) \/ DoIODrain(u) \/ DoIORoute(u)
           \/ DoIOStash(u) \/ DoIOWait(u) \/ DoIOClear(u)
  <2>1. /\ pc[u] \in {"d_try", "d_add", "d_kick", "d_check", "d_drain", "d_route", "d_stash",
                      "d_wait", "d_clear"}
        /\ cur'[u] = cur[u]
        /\ pc'[u] \in {"d_try", "d_add", "d_kick", "d_check", "d_drain", "d_route", "d_stash",
                       "d_wait", "d_clear", "d_done", "c_free"}
    <3>1. CASE DoIOTry(u) \/ DoIOAddBuf(u) \/ DoIOKick(u)
      BY <1>2, <3>1 DEF DoIOTry, DoIOAddBuf, DoIOKick, Goto
    <3>2. CASE DoIODrain(u)
      BY <1>2, <3>2 DEF DoIODrain, Goto
    <3>3. CASE DoIORoute(u) \/ DoIOStash(u) \/ DoIOWait(u)
      BY <1>2, <3>3 DEF DoIORoute, CompleteStatus, DoIOStash, DoIOWait, Goto
    <3>4. CASE DoIOClear(u)
      BY <1>2, <3>4 DEF DoIOClear, Goto
    <3>5. QED
      BY <1>8, <3>1, <3>2, <3>3, <3>4
  <2>2. cur[u] \in Sync
    BY <1>2, <2>1 DEF KindAt, InLoop
  <2>3. QED
    BY <1>1, <2>1, <2>2 DEF KindAt, InLoop, Submitting, Completing
<1>9. QED
  BY <1>3, <1>4, <1>5, <1>6, <1>7, <1>8 DEF Task

\* So the kinds stay apart, and no DoIO starts with slot 0 in flight.
LEMMA KindStep ==
  KeptApart /\ BasicInv /\ SlotInv /\ RequestInv /\ KindInv /\ [Next]_vars => KindInv'
<1> SUFFICES ASSUME KeptApart, BasicInv, SlotInv, RequestInv, KindInv, [Next]_vars
             PROVE  KindInv'
  OBVIOUS
<1>1. ASSUME NEW u \in Units, Task(u)
      PROVE  KindInv'
  <2>1. SUFFICES ASSUME ~timed_out, NEW v \in Units PROVE KindAt(v)'
    BY <1>1, TimedOutStays DEF KindInv
  <2>2. CASE v = u
    BY <1>1, <2>1, <2>2, TaskKinds
  <2>3. CASE v # u
    BY <1>1, <2>1, <2>3, Others, SlotKinds DEF OthersSame, KindInv, KindAt, InLoop
  <2>4. QED
    BY <2>2, <2>3
<1>2. CASE Environment \/ UNCHANGED vars
  <2>1. UNCHANGED <<inflight, pc, cur, ret, timed_out>>
    <3>1. CASE Environment
      BY <3>1, EnvironmentFrame DEF unitVars, taskVars
    <3>2. CASE UNCHANGED vars
      BY <3>2 DEF vars, unitVars, taskVars, histVars
    <3>3. QED
      BY <1>2, <3>1, <3>2
  <2>2. QED
    BY <2>1 DEF KindInv, KindAt, InLoop
<1>3. QED
  BY <1>1, <1>2, NextCases

\* TruthfulReplies, with no hypothesis on the behaviour, for every instance that
\* keeps pipelined and synchronous commands on different units and within the
\* units' slots: the sharing of slot 0 is the only way to a false report, but
\* for a DoIO that gave up.
THEOREM TruthfulIfKeptApart == KeptApart => (Spec => [](~timed_out => TruthfulReplies))
<1> SUFFICES ASSUME KeptApart PROVE Spec => [](~timed_out => TruthfulReplies)
  OBVIOUS
<1>1. Init => KindInv
  <2>1. Init => /\ pc = [u \in Units |-> "wait"] /\ inflight = [u \in Units |-> [s \in Slots |-> NULL]]
    BY DEF Init
  <2>2. QED
    BY <2>1 DEF KindInv, KindAt, InLoop, Submitting, Completing
<1>2. BasicInv /\ RequestInv /\ KindInv => SlotZeroIdle
  <2> SUFFICES ASSUME BasicInv, RequestInv, KindInv, ~timed_out, NEW u \in Units,
                      pc[u] = "d_try", inflight[u][0] # NULL
               PROVE  FALSE
    BY DEF SlotZeroIdle
  <2>1. 0 \in Slots /\ HomeOK(u) /\ KindAt(u) /\ AtRequest(u) /\ InPipe(u, 0)
    BY SlotsNat DEF Slots, RequestInv, KindInv, AtRequest, InPipe, Prep, Submitting
  <2>2. /\ cur[u] \in Sync /\ UnitOf[cur[u]] = u
        /\ inflight[u][0] \in Block /\ UnitOf[inflight[u][0]] = u
    BY <2>1 DEF KindAt, HomeOK
  <2>3. QED
    BY <2>2 DEF KeptApart
<1>3. BasicInv /\ SlotInv /\ RequestInv /\ KindInv /\ [Next]_vars => KindInv'
  BY KindStep
<1>4. QED
  BY <1>1, <1>2, <1>3, TruthfulUnlessShared, BasicInvariant, SlotInvariant, RequestInvariant, PTL
     DEF Spec
=============================================================================
