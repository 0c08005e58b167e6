--------------------------- MODULE PortQueueProofs ---------------------------
(***************************************************************************)
(* Proofs about PortQueue, for any number of requests and clients: the     *)
(* doubly linked list of the unit's port stays intact under PutMsg, GetMsg *)
(* and AbortIO's walk, and the port refines the queue of FifoPort.         *)
(*                                                                         *)
(* PutMsg must not run between the reads and the writes of Remove (Exec's  *)
(* Disable or Forbid around either); port_mutex alone does not ensure it,  *)
(* since PutMsg does not take it.                                          *)
(***************************************************************************)
EXTENDS PortQueue, TLAPS

-----------------------------------------------------------------------------
(* The inductive invariant *)

\* Where an AbortIO holds port_mutex.
Locked == {"walk", "remove", "unlink", "release"}

\* One task holds port_mutex, and knows it.
MutexInv ==
  /\ port_mutex = UnitTask <=> tpc \in {"get", "empty", "dispatch"}
  /\ \A r \in Requests : port_mutex = r <=> apc[r] \in Locked

\* What an AbortIO knows of its request, at each station.
AbortInv ==
  \A r \in Requests :
    /\ apc[r] = "idle" <=> abort[r] = "none"
    /\ apc[r] \in {"obtain", "walk", "remove", "unlink"} => abort[r] = "asked"
    /\ apc[r] = "release" => abort[r] \in {"caught", "missed"}
    /\ apc[r] = "reply" => abort[r] = "caught"
    /\ where[r] = "aborter" <=> abort[r] = "caught"

\* A walk stands on a node of the list, and not past the request it looks for;
\* Remove has found it there, and its successor is the one it has read.
Standing(r, i) ==
  /\ msg[r] = Node(i)
  /\ where[r] = "port" => \E j \in i .. Len(queue) : queue[j] = r
WalkInv ==
  \A r \in Requests :
    /\ apc[r] = "walk" => \E i \in 1 .. Len(queue) + 1 : Standing(r, i)
    /\ apc[r] = "remove" => msg[r] = r /\ where[r] = "port"
    /\ apc[r] = "unlink" => where[r] = "port" /\ msg[r] = ln_Succ[r]

IndInv == PortTypeOK /\ ListIntact /\ MutexInv /\ AbortInv /\ WalkInv

USE DEF Nodes, UnitTask, taskOnly, abortOnly

-----------------------------------------------------------------------------
(* The list *)

\* The nodes of the list, from lh_Head to lh_Tail.
LEMMA NodeIs ==
  ASSUME PortTypeOK
  PROVE  /\ Len(queue) \in Nat /\ DOMAIN queue = 1 .. Len(queue)
         /\ Node(0) = lh_Head /\ Node(Len(queue) + 1) = lh_Tail
         /\ \A i \in 1 .. Len(queue) : Node(i) = queue[i] /\ queue[i] \in Requests
         /\ \A i \in 0 .. Len(queue) + 1 : Node(i) \in Nodes
<1>1. Len(queue) \in Nat /\ DOMAIN queue = 1 .. Len(queue)
      /\ \A i \in 1 .. Len(queue) : queue[i] \in Requests
  BY DEF PortTypeOK
<1> QED
  BY <1>1 DEF Node

\* No node is on the list twice, the two ends included.
LEMMA NodesDiffer ==
  ASSUME PortTypeOK, ListIntact
  PROVE  \A i, j \in 0 .. Len(queue) + 1 : Node(i) = Node(j) => i = j
<1> SUFFICES ASSUME NEW i \in 0 .. Len(queue) + 1, NEW j \in 0 .. Len(queue) + 1,
                    Node(i) = Node(j)
             PROVE  i = j
  OBVIOUS
<1>1. Len(queue) \in Nat /\ DOMAIN queue = 1 .. Len(queue)
      /\ \A k \in 1 .. Len(queue) : Node(k) = queue[k] /\ Node(k) # lh_Head
         /\ Node(k) # lh_Tail
      /\ Node(0) = lh_Head /\ Node(Len(queue) + 1) = lh_Tail /\ lh_Head # lh_Tail
  BY NodeIs, PortAssumption
<1>2. CASE i \in 1 .. Len(queue) /\ j \in 1 .. Len(queue)
  BY <1>1, <1>2 DEF ListIntact
<1>3. CASE i \in {0, Len(queue) + 1}
  <2>1. CASE j \in 1 .. Len(queue)
    BY <1>1, <1>3, <2>1
  <2>2. CASE j \in {0, Len(queue) + 1}
    <3>1. /\ i = 0 => Node(i) = lh_Head
          /\ i = Len(queue) + 1 => Node(i) = lh_Tail
          /\ j = 0 => Node(j) = lh_Head
          /\ j = Len(queue) + 1 => Node(j) = lh_Tail
      BY <1>1 DEF Node
    <3>2. lh_Head # lh_Tail
      BY PortAssumption
    <3> QED
      BY <1>3, <2>2, <3>1, <3>2
  <2> QED
    BY <1>1, <2>1, <2>2
<1>4. CASE i \in 1 .. Len(queue) /\ j \in {0, Len(queue) + 1}
  BY <1>1, <1>4
<1> QED
  BY <1>1, <1>2, <1>3, <1>4

\* A request that does not wait is no node of the list.
LEMMA Elsewhere ==
  ASSUME PortTypeOK, ListIntact, NEW r \in Requests, where[r] # "port"
  PROVE  \A i \in 0 .. Len(queue) + 1 : Node(i) # r
<1> SUFFICES ASSUME NEW i \in 0 .. Len(queue) + 1 PROVE Node(i) # r
  OBVIOUS
<1>1. Len(queue) \in Nat /\ DOMAIN queue = 1 .. Len(queue)
  BY NodeIs
<1>2. CASE i = 0
  BY <1>2, NodeIs, PortAssumption
<1>3. CASE i = Len(queue) + 1
  BY <1>3, NodeIs, PortAssumption
<1>4. CASE i \in 1 .. Len(queue)
  <2>1. Node(i) \in Queued
    BY <1>1, <1>4, NodeIs DEF Queued
  <2> QED
    BY <2>1 DEF ListIntact
<1> QED
  BY <1>1, <1>2, <1>3, <1>4

\* The first and the last node, as the ends of the list name them.
LEMMA Ends ==
  ASSUME PortTypeOK, ListIntact
  PROVE  /\ ln_Succ[lh_Head] = Node(1) /\ ln_Pred[lh_Tail] = Node(Len(queue))
         /\ ln_Succ[lh_Head] = lh_Tail <=> queue = <<>>
<1>1. ln_Succ[lh_Head] = Node(1) /\ ln_Pred[lh_Tail] = Node(Len(queue))
  <2>1. ln_Succ[Node(0)] = Node(0 + 1)
    BY NodeIs DEF ListIntact
  <2>2. ln_Pred[Node(Len(queue) + 1)] = Node(Len(queue))
    BY NodeIs DEF ListIntact
  <2> QED
    BY <2>1, <2>2, NodeIs
<1>2. queue = <<>> <=> Len(queue) = 0
  BY DEF PortTypeOK
<1>3. Len(queue) # 0 => Node(1) \in Requests
  BY NodeIs
<1>4. Len(queue) = 0 => Node(1) = lh_Tail
  BY NodeIs
<1> QED
  BY <1>1, <1>2, <1>3, <1>4, PortAssumption

\* PutMsg's AddTail puts a request that was not on the list at its end.
LEMMA AddTailIntact ==
  ASSUME PortTypeOK, ListIntact, NEW r \in Requests, where[r] # "port", AddTail(r),
         where' = [where EXCEPT ![r] = "port"]
  PROVE  /\ ListIntact'
         /\ Len(queue') = Len(queue) + 1
         /\ queue'[Len(queue) + 1] = r
         /\ \A i \in 1 .. Len(queue) : queue'[i] = queue[i]
         /\ \A i \in 0 .. Len(queue) : Node(i)' = Node(i)
<1>0. PICK N : N = Len(queue)
  OBVIOUS
<1>1. /\ N \in Nat /\ queue' = Append(queue, r) /\ queue \in Seq(Requests)
      /\ DOMAIN queue = 1 .. N /\ DOMAIN queue' = 1 .. N + 1 /\ Len(queue') = N + 1
      /\ queue'[N + 1] = r /\ \A i \in 1 .. N : queue'[i] = queue[i]
  BY <1>0 DEF PortTypeOK, AddTail
<1>2. /\ Node(0)' = lh_Head /\ Node(N + 1)' = r /\ Node(N + 2)' = lh_Tail
      /\ \A i \in 1 .. N : Node(i)' = queue[i]
  BY <1>1 DEF Node
<1>3. \A i \in 0 .. N : Node(i)' = Node(i)
  BY <1>0, <1>1, <1>2, NodeIs
<1>4. \A i \in 0 .. N + 1 : Node(i) # r
  BY <1>0, Elsewhere
<1>5. /\ ln_Succ'[Node(N)] = r /\ ln_Succ'[r] = lh_Tail
      /\ \A m \in Nodes : m # Node(N) /\ m # r => ln_Succ'[m] = ln_Succ[m]
      /\ ln_Pred'[r] = Node(N) /\ ln_Pred'[lh_Tail] = r
      /\ \A m \in Nodes : m # lh_Tail /\ m # r => ln_Pred'[m] = ln_Pred[m]
  BY SMTT(30), <1>0, <1>1, <1>4, Ends, NodeIs, PortAssumption DEF AddTail, PortTypeOK
<1>6. ASSUME NEW i \in 0 .. N + 1
      PROVE  ln_Succ'[Node(i)'] = Node(i + 1)' /\ ln_Pred'[Node(i + 1)'] = Node(i)'
  <2>1. CASE i \in 0 .. N - 1
    <3>1. Node(i)' = Node(i) /\ Node(i + 1)' = Node(i + 1) /\ i \in 0 .. N
            /\ i + 1 \in 0 .. N
      BY <1>1, <1>3, <2>1
    <3>2. Node(i) # Node(N) /\ Node(i) # r /\ Node(i) \in Nodes
      BY SMTT(30), <1>0, <1>1, <1>4, <2>1, NodesDiffer, NodeIs
    <3>3. Node(i + 1) # lh_Tail /\ Node(i + 1) # r /\ Node(i + 1) \in Nodes
      BY <1>0, <1>1, <1>4, <2>1, NodesDiffer, NodeIs
    <3>4. ln_Succ[Node(i)] = Node(i + 1) /\ ln_Pred[Node(i + 1)] = Node(i)
      BY <1>0, <3>1 DEF ListIntact
    <3> QED
      BY <1>5, <3>1, <3>2, <3>3, <3>4
  <2>2. CASE i = N
    BY <1>1, <1>2, <1>3, <1>5, <2>2
  <2>3. CASE i = N + 1
    BY <1>1, <1>2, <1>5, <2>3
  <2> QED
    BY <1>1, <2>1, <2>2, <2>3
<1>7. Queued' = {x \in Requests : where'[x] = "port"}
  <2>1. \A x : x \in Queued' <=> x \in Queued \/ x = r
    BY <1>1 DEF Queued
  <2> QED
    BY <2>1 DEF ListIntact, PortTypeOK
<1>8. \A i, j \in DOMAIN queue' : queue'[i] = queue'[j] => i = j
  BY <1>0, <1>1, <1>4, NodeIs DEF ListIntact
<1>9. ln_Succ'[lh_Tail] = NULL
  <2>1. Node(N) # lh_Tail
    BY <1>0, <1>1, NodesDiffer, NodeIs
  <2> QED
    BY <1>5, <2>1, PortAssumption DEF ListIntact
<1>10. ListIntact'
  BY <1>1, <1>6, <1>7, <1>8, <1>9 DEF ListIntact
<1> QED
  BY <1>0, <1>1, <1>2, <1>3, <1>10

\* RemHead and Remove: node k leaves the list, its neighbours are joined.
LEMMA UnlinkIntact ==
  ASSUME PortTypeOK, ListIntact, NEW k \in 1 .. Len(queue),
         Unlink(Node(k - 1), Node(k + 1)),
         Len(queue') = Len(queue) - 1, DOMAIN queue' = 1 .. Len(queue) - 1,
         \A i \in 1 .. Len(queue) - 1 :
           queue'[i] = IF i < k THEN queue[i] ELSE queue[i + 1],
         NEW w, w # "port", where' = [where EXCEPT ![queue[k]] = w]
  PROVE  ListIntact'
<1>0. PICK N : N = Len(queue)
  OBVIOUS
<1>1. /\ N \in Nat /\ N > 0 /\ k \in 1 .. N /\ DOMAIN queue = 1 .. N
      /\ DOMAIN queue' = 1 .. N - 1 /\ Len(queue') = N - 1
      /\ \A i \in 1 .. N - 1 : queue'[i] = IF i < k THEN queue[i] ELSE queue[i + 1]
  BY <1>0, NodeIs
<1>2. \A i \in 0 .. N : Node(i)' = IF i < k THEN Node(i) ELSE Node(i + 1)
  BY <1>0, <1>1, NodeIs DEF Node
<1>3. Node(k - 1) \in Nodes /\ Node(k + 1) \in Nodes
  BY <1>0, <1>1, NodeIs
<1>4. /\ ln_Succ'[Node(k - 1)] = Node(k + 1)
      /\ \A m \in Nodes : m # Node(k - 1) => ln_Succ'[m] = ln_Succ[m]
      /\ ln_Pred'[Node(k + 1)] = Node(k - 1)
      /\ \A m \in Nodes : m # Node(k + 1) => ln_Pred'[m] = ln_Pred[m]
  BY <1>3 DEF Unlink, PortTypeOK
<1>5. ASSUME NEW i \in 0 .. N - 1
      PROVE  ln_Succ'[Node(i)'] = Node(i + 1)' /\ ln_Pred'[Node(i + 1)'] = Node(i)'
  <2>1. CASE i < k - 1
    <3>1. Node(i)' = Node(i) /\ Node(i + 1)' = Node(i + 1) /\ i \in 0 .. N
            /\ i + 1 \in 0 .. N
      BY <1>1, <1>2, <2>1
    <3>2. Node(i) # Node(k - 1) /\ Node(i) \in Nodes /\ Node(i + 1) # Node(k + 1)
            /\ Node(i + 1) \in Nodes
      BY <1>0, <1>1, <2>1, NodesDiffer, NodeIs
    <3>3. ln_Succ[Node(i)] = Node(i + 1) /\ ln_Pred[Node(i + 1)] = Node(i)
      BY <1>0, <3>1 DEF ListIntact
    <3> QED
      BY <1>4, <3>1, <3>2, <3>3
  <2>2. CASE i = k - 1
    <3>1. Node(i)' = Node(k - 1) /\ Node(i + 1)' = Node(k + 1)
      BY <1>1, <1>2, <2>2
    <3> QED
      BY <1>4, <3>1
  <2>3. CASE i > k - 1
    <3>1. Node(i)' = Node(i + 1) /\ Node(i + 1)' = Node(i + 2) /\ i + 1 \in 0 .. N
            /\ i + 2 \in 0 .. N + 1
      BY <1>1, <1>2, <2>3
    <3>2. Node(i + 1) # Node(k - 1) /\ Node(i + 1) \in Nodes
            /\ Node(i + 2) # Node(k + 1) /\ Node(i + 2) \in Nodes
      BY <1>0, <1>1, <2>3, NodesDiffer, NodeIs
    <3>3. ln_Succ[Node(i + 1)] = Node((i + 1) + 1)
            /\ ln_Pred[Node((i + 1) + 1)] = Node(i + 1)
      BY <1>0, <3>1 DEF ListIntact
    <3>4. (i + 1) + 1 = i + 2
      OBVIOUS
    <3> QED
      BY <1>4, <3>1, <3>2, <3>3, <3>4
  <2> QED
    BY <1>1, <2>1, <2>2, <2>3
<1>6. \A x : x \in Queued' <=> x \in Queued /\ x # queue[k]
  <2>1. ASSUME NEW x, x \in Queued' PROVE x \in Queued /\ x # queue[k]
    <3>1. PICK i \in 1 .. N - 1 : queue'[i] = x
      BY <1>1, <2>1 DEF Queued
    <3>2. PICK j \in 1 .. N : j # k /\ queue[j] = x
      <4>1. CASE i < k
        BY <1>1, <3>1, <4>1
      <4>2. CASE i >= k
        BY <1>1, <3>1, <4>2
      <4> QED
        BY <1>1, <4>1, <4>2
    <3> QED
      BY <1>1, <3>2 DEF Queued, ListIntact
  <2>2. ASSUME NEW x, x \in Queued, x # queue[k] PROVE x \in Queued'
    <3>1. PICK j \in 1 .. N : queue[j] = x /\ j # k
      BY <1>1, <2>2 DEF Queued
    <3>2. CASE j < k
      <4>1. j \in 1 .. N - 1 /\ queue'[j] = x
        BY <1>1, <3>1, <3>2
      <4> QED
        BY <1>1, <4>1 DEF Queued
    <3>3. CASE j > k
      <4>1. j - 1 \in 1 .. N - 1 /\ queue'[j - 1] = x
        BY <1>1, <3>1, <3>3
      <4> QED
        BY <1>1, <4>1 DEF Queued
    <3> QED
      BY <1>1, <3>1, <3>2, <3>3
  <2> QED
    BY <2>1, <2>2
<1>7. Queued' = {x \in Requests : where'[x] = "port"}
  BY <1>0, <1>1, <1>6, NodeIs DEF ListIntact, PortTypeOK
<1>8. ASSUME NEW i \in DOMAIN queue', NEW j \in DOMAIN queue', queue'[i] = queue'[j]
      PROVE  i = j
  <2>1. PICK x \in 1 .. N : queue'[i] = queue[x] /\ x = IF i < k THEN i ELSE i + 1
    BY SMTT(30), <1>1
  <2>2. PICK y \in 1 .. N : queue'[j] = queue[y] /\ y = IF j < k THEN j ELSE j + 1
    BY SMTT(30), <1>1
  <2>3. x = y
    BY <1>1, <1>8, <2>1, <2>2 DEF ListIntact
  <2> QED
    BY <1>1, <2>1, <2>2, <2>3
<1>9. ln_Succ'[lh_Tail] = NULL
  <2>1. Node(k - 1) # lh_Tail
    BY <1>0, <1>1, NodesDiffer, NodeIs
  <2> QED
    BY <1>4, <2>1 DEF ListIntact
<1> QED
  BY <1>1, <1>5, <1>7, <1>8, <1>9 DEF ListIntact

\* A request that is not on the list may be linked into a reply port.
LEMMA ReplyIntact ==
  ASSUME PortTypeOK, ListIntact, NEW r \in Requests, where[r] # "port", ReplyMsg(r)
  PROVE  ListIntact'
<1>1. Len(queue) \in Nat /\ DOMAIN queue = 1 .. Len(queue) /\ queue' = queue
  BY NodeIs DEF ReplyMsg
<1>2. \A i : Node(i)' = Node(i)
  BY <1>1 DEF Node
<1>3. \A i \in 0 .. Len(queue) + 1 : Node(i) # r /\ Node(i) \in Nodes
  BY NodeIs, Elsewhere
<1>4. \A m \in Nodes : m # r => ln_Succ'[m] = ln_Succ[m] /\ ln_Pred'[m] = ln_Pred[m]
  BY DEF ReplyMsg, PortTypeOK
<1>5. ASSUME NEW i \in 0 .. Len(queue)
      PROVE  ln_Succ'[Node(i)] = Node(i + 1) /\ ln_Pred'[Node(i + 1)] = Node(i)
  <2>1. i \in 0 .. Len(queue) + 1 /\ i + 1 \in 0 .. Len(queue) + 1
    BY <1>1
  <2> QED
    BY <1>3, <1>4, <2>1 DEF ListIntact
<1>6. ln_Succ'[lh_Tail] = NULL
  BY <1>4, PortAssumption DEF ListIntact
<1>7. Queued' = {x \in Requests : where'[x] = "port"}
  BY <1>1 DEF Queued, ListIntact, ReplyMsg, PortTypeOK
<1> QED
  BY <1>1, <1>2, <1>5, <1>6, <1>7 DEF ListIntact

\* Steps that touch neither links nor requests.
LEMMA ListFrame ==
  ASSUME ListIntact, UNCHANGED <<ln_Succ, ln_Pred, queue, where>>
  PROVE  ListIntact'
BY DEF ListIntact, Node, Queued

-----------------------------------------------------------------------------
(* The steps *)

\* Initially nobody waits and the two ends are linked to each other.
LEMMA IndInit == Init => IndInv
<1> SUFFICES ASSUME Init PROVE IndInv
  OBVIOUS
<1>1. PortTypeOK
  <2>1. ln_Succ \in [Nodes -> Nodes \cup {NULL, ReplyPort}]
    BY PortAssumption DEF Init
  <2>2. ln_Pred \in [Nodes -> Nodes \cup {NULL, ReplyPort}]
    BY PortAssumption DEF Init
  <2>3. queue \in Seq(Requests)
    BY DEF Init
  <2> QED
    BY <2>1, <2>2, <2>3 DEF Init, PortTypeOK
<1>2. ListIntact
  <2>1. queue = <<>> /\ Len(queue) = 0 /\ DOMAIN queue = {} /\ Queued = {}
    BY DEF Init, Queued
  <2>2. Node(0) = lh_Head /\ Node(1) = lh_Tail
    BY <2>1 DEF Node
  <2>3. ln_Succ[lh_Head] = lh_Tail /\ ln_Succ[lh_Tail] = NULL
          /\ ln_Pred[lh_Tail] = lh_Head
    BY PortAssumption DEF Init
  <2>4. \A i \in 0 .. Len(queue) : i = 0
    BY <2>1
  <2>5. Queued = {r \in Requests : where[r] = "port"}
    BY <2>1 DEF Init
  <2> QED
    BY <2>1, <2>2, <2>3, <2>4, <2>5 DEF ListIntact
<1>3. MutexInv
  BY PortAssumption DEF Init, MutexInv, Locked
<1>4. AbortInv
  BY DEF Init, AbortInv
<1>5. WalkInv
  BY DEF Init, WalkInv
<1> QED
  BY <1>1, <1>2, <1>3, <1>4, <1>5 DEF IndInv

\* BeginIO: PutMsg at the end of the list, in front of no walk.
LEMMA BeginIOStep ==
  ASSUME IndInv, ~PutMsgInRemove, NEW r \in Requests, BeginIO(r)
  PROVE  IndInv'
<1> USE DEF IndInv
<1>1. where[r] = "client" /\ apc[r] = "idle" /\ AddTail(r)
      /\ where' = [where EXCEPT ![r] = "port"]
      /\ (\A a \in Requests : apc[a] # "unlink")
      /\ UNCHANGED <<port_mutex, tpc, apc, msg, abort>>
  BY DEF BeginIO
<1>2. PortTypeOK'
  <2>1. ln_Pred[lh_Tail] \in Nodes
    BY Ends, NodeIs
  <2>2. ln_Succ' \in [Nodes -> Nodes \cup {NULL, ReplyPort}]
        /\ ln_Pred' \in [Nodes -> Nodes \cup {NULL, ReplyPort}]
    BY <1>1, <2>1 DEF AddTail, PortTypeOK
  <2>3. queue' \in Seq(Requests)
    BY <1>1 DEF AddTail, PortTypeOK
  <2>4. sends' \in [Requests -> Nat] /\ signal' \in BOOLEAN
    BY DEF BeginIO, PortTypeOK
  <2>5. where' \in [Requests -> {"client", "port", "task", "aborter"}]
    BY <1>1 DEF PortTypeOK
  <2> QED
    BY <1>1, <2>2, <2>3, <2>4, <2>5 DEF PortTypeOK
<1>3. /\ ListIntact' /\ Len(queue') = Len(queue) + 1 /\ Len(queue) \in Nat
      /\ \A i \in 1 .. Len(queue) : queue'[i] = queue[i]
      /\ \A i \in 0 .. Len(queue) : Node(i)' = Node(i)
  BY <1>1, AddTailIntact, NodeIs
<1>4. MutexInv'
  BY <1>1 DEF MutexInv
<1>5. AbortInv'
  BY <1>1 DEF AbortInv, PortTypeOK
<1>6. WalkInv'
  <2> SUFFICES ASSUME NEW a \in Requests
               PROVE  /\ apc[a] = "walk" => \E i \in 1 .. Len(queue') + 1 : Standing(a, i)'
                      /\ apc[a] = "remove" => msg'[a] = a /\ where'[a] = "port"
    BY <1>1 DEF WalkInv
  <2>1. CASE apc[a] = "walk"
    <3>1. PICK i \in 1 .. Len(queue) + 1 : Standing(a, i)
      BY <2>1 DEF WalkInv
    <3>2. where'[a] = where[a] /\ msg'[a] = msg[a]
      BY <1>1, <2>1 DEF PortTypeOK
    <3>3. CASE i \in 1 .. Len(queue)
      <4>1. Node(i)' = Node(i)
        BY <1>3, <3>3
      <4>2. Standing(a, i)'
        BY <1>3, <3>1, <3>2, <4>1 DEF Standing
      <4> QED
        BY <1>3, <2>1, <3>3, <4>2
    <3>4. CASE i = Len(queue) + 1
      <4>1. PICK k : k = Len(queue) + 2
        OBVIOUS
      <4>2. Node(k)' = lh_Tail
        <5>1. DOMAIN queue' = 1 .. Len(queue')
          BY <1>2 DEF PortTypeOK
        <5> QED
          BY <1>3, <4>1, <5>1 DEF Node
      <4>3. msg[a] = lh_Tail /\ where[a] # "port"
        BY <1>3, <3>1, <3>4, NodeIs DEF Standing
      <4>4. Standing(a, k)'
        BY <3>2, <4>2, <4>3 DEF Standing
      <4> QED
        BY <1>3, <2>1, <4>1, <4>4
    <3> QED
      BY <3>3, <3>4, <1>3
  <2>2. CASE apc[a] = "remove"
    BY <1>1, <2>2 DEF WalkInv, PortTypeOK
  <2> QED
    BY <2>1, <2>2
<1> QED
  BY <1>2, <1>3, <1>4, <1>5, <1>6

\* Nobody walks while the unit task is in GetMsg, and the other way round.
LEMMA OneHolder ==
  ASSUME IndInv
  PROVE  /\ tpc \in {"get", "empty", "dispatch"} =>
               \A r \in Requests : apc[r] \notin Locked
         /\ \A a, b \in Requests : apc[a] \in Locked /\ apc[b] \in Locked => a = b
BY PortAssumption DEF IndInv, MutexInv

\* GetMsg: the head leaves the list.
LEMMA GetMsgStep ==
  ASSUME IndInv, GetMsg, ln_Succ[lh_Head] # lh_Tail
  PROVE  /\ IndInv'
         /\ queue # <<>> /\ queue' = Tail(queue)
         /\ where' = [where EXCEPT ![Head(queue)] = "task"] /\ UNCHANGED abort
<1> USE DEF IndInv
<1>1. /\ Len(queue) \in Nat /\ queue # <<>> /\ 1 \in 1 .. Len(queue)
      /\ ln_Succ[lh_Head] = Node(1) /\ Node(1) = queue[1] /\ Head(queue) = queue[1]
      /\ queue[1] \in Requests
  BY Ends, NodeIs DEF PortTypeOK
<1>2. ln_Succ[Node(1)] = Node(2) /\ Node(0) = lh_Head /\ Node(2) \in Nodes
  <2>1. ln_Succ[Node(1)] = Node(1 + 1)
    BY <1>1 DEF ListIntact
  <2> QED
    BY <1>1, <2>1, NodeIs
<1>3. /\ tpc = "get" /\ tpc' = "dispatch" /\ Unlink(lh_Head, Node(2))
      /\ queue' = Tail(queue) /\ where' = [where EXCEPT ![queue[1]] = "task"]
      /\ UNCHANGED <<port_mutex, signal, apc, msg, abort, sends>>
  BY <1>1, <1>2 DEF GetMsg
<1>4. PortTypeOK'
  <2>1. queue' \in Seq(Requests)
    BY <1>1, <1>3 DEF PortTypeOK
  <2> QED
    BY <1>2, <1>3, <2>1 DEF PortTypeOK, Unlink
<1>5. ListIntact'
  <2>1. /\ Len(queue') = Len(queue) - 1 /\ DOMAIN queue' = 1 .. Len(queue) - 1
        /\ \A i \in 1 .. Len(queue) - 1 :
             queue'[i] = IF i < 1 THEN queue[i] ELSE queue[i + 1]
    BY <1>1, <1>3 DEF PortTypeOK
  <2>2. Unlink(Node(1 - 1), Node(1 + 1))
    BY <1>2, <1>3
  <2> QED
    BY <1>1, <1>3, <2>1, <2>2, UnlinkIntact
<1>6. MutexInv'
  BY <1>3 DEF MutexInv
<1>7. \A a \in Requests : apc[a] \notin Locked
  BY <1>3, OneHolder
<1>8. AbortInv'
  <2>1. where[queue[1]] = "port"
    BY <1>1, NodeIs DEF ListIntact, Queued
  <2> QED
    BY <1>1, <1>3, <2>1 DEF AbortInv, PortTypeOK
<1>9. WalkInv'
  BY <1>3, <1>7 DEF WalkInv, Locked
<1> QED
  BY <1>1, <1>3, <1>4, <1>5, <1>6, <1>8, <1>9

\* AbortIO's Remove: the request leaves the list from where it stands, which
\* is where its node says.
LEMMA RemoveWritesStep ==
  ASSUME IndInv, NEW r \in Requests, RemoveWrites(r)
  PROVE  IndInv'
<1> USE DEF IndInv
<1>1. /\ apc[r] = "unlink" /\ apc' = [apc EXCEPT ![r] = "release"]
      /\ Unlink(ln_Pred[r], msg[r]) /\ queue' = Port!Without(queue, r)
      /\ where' = [where EXCEPT ![r] = "aborter"]
      /\ abort' = [abort EXCEPT ![r] = "caught"]
      /\ UNCHANGED <<port_mutex, msg, signal, tpc, sends>>
  BY DEF RemoveWrites, At
<1>2. where[r] = "port" /\ msg[r] = ln_Succ[r] /\ abort[r] = "asked"
  BY <1>1 DEF WalkInv, AbortInv
<1>3. PICK k \in 1 .. Len(queue) : queue[k] = r
  BY <1>2, NodeIs DEF ListIntact, Queued
<1>4. /\ Len(queue) \in Nat /\ DOMAIN queue = 1 .. Len(queue)
      /\ \A i \in 1 .. Len(queue) : queue[i] = r => i = k
  BY <1>3, NodeIs DEF ListIntact
<1>5. ln_Pred[r] = Node(k - 1) /\ msg[r] = Node(k + 1)
  <2>1. r = Node(k)
    BY <1>3, NodeIs
  <2>2. ln_Succ[Node(k)] = Node(k + 1)
    BY <1>3, <1>4 DEF ListIntact
  <2>3. ln_Pred[Node((k - 1) + 1)] = Node(k - 1)
    BY <1>3, <1>4 DEF ListIntact
  <2>4. (k - 1) + 1 = k
    BY <1>3, <1>4
  <2> QED
    BY <1>2, <2>1, <2>2, <2>3, <2>4
<1>6. Node(k - 1) \in Nodes /\ Node(k + 1) \in Nodes
  BY <1>3, <1>4, NodeIs
<1>7. queue' = [i \in 1 .. Len(queue) - 1 |-> IF i < k THEN queue[i] ELSE queue[i + 1]]
  <2> DEFINE First(i) == queue[i] = r /\ \A j \in 1 .. i - 1 : queue[j] # r
  <2>1. (CHOOSE i \in DOMAIN queue : First(i)) = k
    <3>1. First(k)
      BY <1>3, <1>4
    <3>2. \A i \in DOMAIN queue : First(i) => i = k
      BY <1>4
    <3>3. k \in DOMAIN queue
      BY <1>3, <1>4
    <3> HIDE DEF First
    <3> QED
      BY <3>1, <3>2, <3>3
  <2> QED
    BY <1>1, <2>1, Zenon DEF Port!Without
<1>8. /\ Len(queue') = Len(queue) - 1 /\ DOMAIN queue' = 1 .. Len(queue) - 1
      /\ queue' \in Seq(Requests)
      /\ \A i \in 1 .. Len(queue) - 1 :
           queue'[i] = IF i < k THEN queue[i] ELSE queue[i + 1]
  <2>1. Len(queue) - 1 \in Nat
    BY <1>3, <1>4
  <2>2. \A i \in 1 .. Len(queue) - 1 :
          (IF i < k THEN queue[i] ELSE queue[i + 1]) \in Requests
    BY <1>3, <1>4, NodeIs
  <2> QED
    BY <1>7, <2>1, <2>2
<1>9. PortTypeOK'
  <2>1. ln_Succ' \in [Nodes -> Nodes \cup {NULL, ReplyPort}]
        /\ ln_Pred' \in [Nodes -> Nodes \cup {NULL, ReplyPort}]
    BY <1>1, <1>5, <1>6 DEF Unlink, PortTypeOK
  <2> QED
    BY <1>1, <1>8, <2>1 DEF PortTypeOK
<1>10. ListIntact'
  <2>1. Unlink(Node(k - 1), Node(k + 1))
    BY <1>1, <1>5
  <2> QED
    BY <1>1, <1>3, <1>8, <2>1, UnlinkIntact
<1>11. MutexInv'
  BY <1>1 DEF MutexInv, PortTypeOK, Locked
<1>12. AbortInv'
  BY <1>1, <1>2 DEF AbortInv, PortTypeOK
<1>13. WalkInv'
  <2>1. \A a \in Requests : a # r => apc[a] \notin Locked
    BY <1>1, OneHolder DEF Locked
  <2> QED
    BY <1>1, <2>1 DEF WalkInv, Locked, PortTypeOK
<1> QED
  BY <1>9, <1>10, <1>11, <1>12, <1>13

\* ReplyMsg, by the unit task or by AbortIO: what walks does not stand there.
LEMMA ReplyMsgStep ==
  ASSUME IndInv, NEW r \in Requests, where[r] \in {"task", "aborter"}, ReplyMsg(r),
         UNCHANGED <<port_mutex, signal, tpc, msg, sends>>, AbortInv',
         \/ UNCHANGED <<apc, abort>>
         \/ /\ apc[r] = "reply" /\ apc' = [apc EXCEPT ![r] = "idle"]
            /\ abort' = [abort EXCEPT ![r] = "none"]
  PROVE  IndInv'
<1> USE DEF IndInv
<1>1. PortTypeOK'
  BY DEF ReplyMsg, PortTypeOK
<1>2. ListIntact'
  BY ReplyIntact
<1>3. MutexInv'
  <2>1. \A a \in Requests : apc'[a] \in Locked <=> apc[a] \in Locked
    BY DEF Locked, PortTypeOK
  <2> QED
    BY <2>1 DEF MutexInv
<1>4. WalkInv'
  <2>1. \A a \in Requests : apc'[a] \in Locked => apc[a] = apc'[a]
    BY DEF Locked, PortTypeOK
  <2>2. \A a \in Requests : (where'[a] = "port" <=> where[a] = "port")
    BY DEF ReplyMsg, PortTypeOK
  <2>3. queue' = queue /\ \A i : Node(i)' = Node(i)
    BY DEF ReplyMsg, Node
  <2>4. \A a \in Requests : \A i : Standing(a, i) => Standing(a, i)'
    BY <2>2, <2>3 DEF Standing
  <2>5. ASSUME NEW a \in Requests
        PROVE  /\ apc'[a] = "walk" => \E i \in 1 .. Len(queue') + 1 : Standing(a, i)'
               /\ apc'[a] = "remove" => msg'[a] = a /\ where'[a] = "port"
    BY <2>1, <2>2, <2>3, <2>4 DEF WalkInv, Locked
  <2>6. ASSUME NEW a \in Requests, apc'[a] = "unlink"
        PROVE  where'[a] = "port" /\ msg'[a] = ln_Succ'[a]
    <3>1. apc[a] = "unlink" /\ where[a] = "port" /\ msg[a] = ln_Succ[a]
      BY <2>1, <2>6 DEF WalkInv, Locked
    <3>2. a # r
      BY <3>1
    <3> QED
      BY <2>2, <3>1, <3>2 DEF ReplyMsg, PortTypeOK
  <2> QED
    BY <2>5, <2>6 DEF WalkInv
<1> QED
  BY <1>1, <1>2, <1>3, <1>4

\* What holds of one AbortIO, for the steps of which it is the only one.
WalkOf(r) ==
  /\ apc[r] = "walk" => \E i \in 1 .. Len(queue) + 1 : Standing(r, i)
  /\ apc[r] = "remove" => msg[r] = r /\ where[r] = "port"
  /\ apc[r] = "unlink" => where[r] = "port" /\ msg[r] = ln_Succ[r]

\* A step that changes no link and no request disturbs no other walk.
LEMMA WalkFrame ==
  ASSUME WalkInv, UNCHANGED <<ln_Succ, queue, where>>, NEW r,
         \A a \in Requests : a # r => apc'[a] = apc[a] /\ msg'[a] = msg[a],
         r \in Requests => WalkOf(r)'
  PROVE  WalkInv'
<1>1. \A i : Node(i)' = Node(i)
  BY DEF Node
<1>2. ASSUME NEW a \in Requests PROVE WalkOf(a)'
  <2>1. CASE a = r
    BY <2>1
  <2>2. CASE a # r
    <3>1. WalkOf(a)
      BY DEF WalkInv, WalkOf
    <3> QED
      BY <1>1, <2>2, <3>1 DEF WalkOf, Standing
  <2> QED
    BY <2>1, <2>2
<1> QED
  BY <1>2 DEF WalkInv, WalkOf

\* The unit task around GetMsg: it takes and releases the mutex.
LEMMA TaskStepInv ==
  ASSUME IndInv, Wake \/ BeginGet \/ EndGet \/ (GetMsg /\ ln_Succ[lh_Head] = lh_Tail)
  PROVE  IndInv' /\ UNCHANGED <<queue, where, abort>>
<1> USE DEF IndInv
<1>1. UNCHANGED <<ln_Succ, ln_Pred, queue, where, apc, msg, abort, sends>>
  BY DEF Wake, BeginGet, EndGet, GetMsg
<1>2. PortTypeOK'
  <2>1. CASE Wake
    BY <1>1, <2>1 DEF Wake, PortTypeOK
  <2>2. CASE BeginGet
    BY <1>1, <2>2 DEF BeginGet, TaskObtain, PortTypeOK
  <2>3. CASE EndGet
    BY <1>1, <2>3 DEF EndGet, PortTypeOK
  <2>4. CASE GetMsg /\ ln_Succ[lh_Head] = lh_Tail
    BY <1>1, <2>4 DEF GetMsg, PortTypeOK
  <2> QED
    BY <2>1, <2>2, <2>3, <2>4
<1>3. MutexInv'
  <2>1. CASE Wake
    BY <1>1, <2>1 DEF Wake, MutexInv
  <2>2. CASE BeginGet
    BY <1>1, <2>2, PortAssumption DEF BeginGet, TaskObtain, MutexInv
  <2>3. CASE EndGet
    <3>1. port_mutex = UnitTask /\ port_mutex' = NULL /\ tpc' \in {"wait", "obtain"}
      BY <2>3 DEF EndGet, MutexInv
    <3>2. \A r \in Requests : apc[r] \notin Locked /\ r # NULL
      BY <3>1, PortAssumption DEF MutexInv
    <3> QED
      BY <1>1, <3>1, <3>2, PortAssumption DEF MutexInv
  <2>4. CASE GetMsg /\ ln_Succ[lh_Head] = lh_Tail
    BY <1>1, <2>4 DEF GetMsg, MutexInv
  <2> QED
    BY <2>1, <2>2, <2>3, <2>4
<1>4. ListIntact'
  BY <1>1, ListFrame
<1>5. AbortInv'
  BY <1>1 DEF AbortInv
<1>6. WalkInv'
  BY <1>1, PortAssumption, WalkFrame
<1> QED
  BY <1>1, <1>2, <1>3, <1>4, <1>5, <1>6

\* AbortIO is called: it asks, and holds nothing yet.
LEMMA AbortIOStep ==
  ASSUME IndInv, NEW r \in Requests, AbortIO(r)
  PROVE  IndInv'
<1> USE DEF IndInv
<1>1. /\ apc[r] = "idle" /\ apc' = [apc EXCEPT ![r] = "obtain"]
      /\ abort' = [abort EXCEPT ![r] = "asked"]
      /\ UNCHANGED <<ln_Succ, ln_Pred, queue, port_mutex, where, msg, signal, tpc,
         sends>>
  BY DEF AbortIO, At
<1>2. PortTypeOK'
  BY <1>1 DEF PortTypeOK
<1>3. ListIntact'
  BY <1>1, ListFrame
<1>4. MutexInv'
  BY <1>1 DEF MutexInv, PortTypeOK, Locked
<1>5. AbortInv'
  BY <1>1 DEF AbortInv, PortTypeOK
<1>6. WalkInv'
  <2>1. WalkOf(r)' /\ \A a \in Requests : a # r => apc'[a] = apc[a] /\ msg'[a] = msg[a]
    BY <1>1 DEF WalkOf, PortTypeOK
  <2> QED
    BY <1>1, <2>1, WalkFrame
<1> QED
  BY <1>2, <1>3, <1>4, <1>5, <1>6

\* It takes port_mutex and reads lh_Head: from here its request is at the first
\* node or after it, or gone (BeginIO.c:329).
LEMMA AbortObtainStep ==
  ASSUME IndInv, NEW r \in Requests, AbortObtain(r)
  PROVE  IndInv' /\ UNCHANGED <<queue, where, abort>>
<1> USE DEF IndInv
<1>1. /\ apc[r] = "obtain" /\ apc' = [apc EXCEPT ![r] = "walk"]
      /\ port_mutex = NULL /\ port_mutex' = r
      /\ msg' = [msg EXCEPT ![r] = ln_Succ[lh_Head]]
      /\ UNCHANGED <<ln_Succ, ln_Pred, queue, where, abort, signal, tpc, sends>>
  BY DEF AbortObtain, At
<1>2. ln_Succ[lh_Head] = Node(1) /\ Node(1) \in Nodes /\ Len(queue) \in Nat
  BY Ends, NodeIs
<1>3. PortTypeOK'
  BY <1>1, <1>2 DEF PortTypeOK
<1>4. ListIntact'
  BY <1>1, ListFrame
<1>5. MutexInv'
  BY <1>1, PortAssumption DEF MutexInv, PortTypeOK, Locked
<1>6. AbortInv'
  BY <1>1 DEF AbortInv, PortTypeOK
<1>7. WalkInv'
  <2>1. where[r] = "port" => \E j \in 1 .. Len(queue) : queue[j] = r
    BY NodeIs DEF ListIntact, Queued
  <2>2. Node(1)' = Node(1)
    BY <1>1 DEF Node
  <2>3. Standing(r, 1)'
    BY <1>1, <1>2, <2>1, <2>2 DEF Standing, PortTypeOK
  <2>4. WalkOf(r)' /\ \A a \in Requests : a # r => apc'[a] = apc[a] /\ msg'[a] = msg[a]
    BY <1>1, <1>2, <2>3 DEF WalkOf, PortTypeOK
  <2> QED
    BY <1>1, <2>4, WalkFrame
<1> QED
  BY <1>1, <1>3, <1>4, <1>5, <1>6, <1>7

\* One turn of the walk.  At the end of the list the request is not there; a
\* step onwards does not pass it.
LEMMA WalkStep ==
  ASSUME IndInv, NEW r \in Requests, Walk(r)
  PROVE  /\ IndInv' /\ UNCHANGED <<queue, where>>
         /\ \/ UNCHANGED abort
            \/ /\ abort[r] = "asked" /\ where[r] # "port"
               /\ abort' = [abort EXCEPT ![r] = "missed"]
<1> USE DEF IndInv
<1>1. /\ apc[r] = "walk" /\ abort[r] = "asked" /\ where[r] # "aborter"
      /\ UNCHANGED <<ln_Succ, ln_Pred, queue, port_mutex, where, signal, tpc, sends>>
  BY DEF Walk, AbortInv
<1>2. ListIntact'
  BY <1>1, ListFrame
<1>3. PICK i \in 1 .. Len(queue) + 1 : Standing(r, i)
  BY <1>1 DEF WalkInv
<1>4. /\ Len(queue) \in Nat /\ msg[r] = Node(i) /\ Node(i) # ReplyPort
         /\ lh_Tail \in Nodes
      /\ i \in 1 .. Len(queue) => ln_Succ[Node(i)] = Node(i + 1)
         /\ Node(i + 1) \in Nodes
      /\ i \in 1 .. Len(queue) => Node(i + 1) # NULL /\ Node(i) = queue[i]
      /\ i = Len(queue) + 1 => Node(i) = lh_Tail
  <2>1. Len(queue) \in Nat /\ msg[r] = Node(i) /\ Node(i) \in Nodes
    BY <1>3, NodeIs DEF Standing
  <2>2. i \in 1 .. Len(queue) => ln_Succ[Node(i)] = Node(i + 1)
    BY <2>1 DEF ListIntact
  <2>3. i \in 1 .. Len(queue) => Node(i + 1) \in Nodes
    BY <2>1, NodeIs
  <2> QED
    BY <2>1, <2>2, <2>3, NodeIs, PortAssumption
<1>5. CASE /\ AtEnd(msg[r]) /\ At(r, "walk", "release")
           /\ abort' = [abort EXCEPT ![r] = "missed"] /\ UNCHANGED msg
  <2>1. i = Len(queue) + 1
    BY <1>3, <1>4, <1>5 DEF AtEnd
  <2>2. where[r] # "port"
    BY <1>3, <1>4, <2>1 DEF Standing
  <2>3. PortTypeOK'
    BY <1>1, <1>5 DEF At, PortTypeOK
  <2>4. MutexInv'
    BY <1>1, <1>5 DEF At, MutexInv, PortTypeOK, Locked
  <2>5. AbortInv'
    BY <1>1, <1>5 DEF At, AbortInv, PortTypeOK
  <2>6. WalkInv'
    <3>1. WalkOf(r)' /\ \A a \in Requests : a # r => apc'[a] = apc[a]
            /\ msg'[a] = msg[a]
      BY <1>5 DEF At, WalkOf, PortTypeOK
    <3> QED
      BY <1>1, <3>1, WalkFrame
  <2> QED
    BY <1>1, <1>2, <1>5, <2>2, <2>3, <2>4, <2>5, <2>6
<1>6. CASE ~AtEnd(msg[r]) /\ msg[r] = r /\ At(r, "walk", "remove")
        /\ UNCHANGED <<msg, abort>>
  <2>1. PortTypeOK'
    BY <1>1, <1>6 DEF At, PortTypeOK
  <2>2. MutexInv'
    BY <1>1, <1>6 DEF At, MutexInv, PortTypeOK, Locked
  <2>3. AbortInv'
    BY <1>1, <1>6 DEF At, AbortInv, PortTypeOK
  <2>4. where[r] = "port"
    <3>1. i \in 0 .. Len(queue) + 1 /\ Node(i) = r
      BY <1>3, <1>4, <1>6
    <3> QED
      BY <3>1, Elsewhere
  <2>5. WalkInv'
    <3>1. WalkOf(r)' /\ \A a \in Requests : a # r => apc'[a] = apc[a]
            /\ msg'[a] = msg[a]
      BY <1>1, <1>6, <2>4 DEF At, WalkOf, PortTypeOK
    <3> QED
      BY <1>1, <3>1, WalkFrame
  <2> QED
    BY <1>1, <1>2, <1>6, <2>1, <2>2, <2>3, <2>5
<1>7. CASE /\ ~AtEnd(msg[r]) /\ msg[r] # r
           /\ msg' = [msg EXCEPT ![r] = ln_Succ[msg[r]]] /\ UNCHANGED <<apc, abort>>
  <2>1. i \in 1 .. Len(queue)
    BY <1>3, <1>4, <1>7 DEF AtEnd, ListIntact
  <2>2. PortTypeOK'
    BY <1>1, <1>4, <1>7, <2>1 DEF PortTypeOK
  <2>3. MutexInv' /\ AbortInv'
    BY <1>1, <1>7 DEF MutexInv, AbortInv
  <2>4. WalkInv'
    <3>1. Node(i + 1)' = Node(i + 1)
      BY <1>1 DEF Node
    <3>2. where[r] = "port" => \E j \in i + 1 .. Len(queue) : queue[j] = r
      <4>1. queue[i] # r
        BY <1>4, <1>7, <2>1
      <4> QED
        BY <1>3, <1>4, <2>1, <4>1 DEF Standing
    <3>3. Standing(r, i + 1)'
      BY <1>1, <1>4, <1>7, <2>1, <3>1, <3>2 DEF Standing, PortTypeOK
    <3>4. WalkOf(r)' /\ \A a \in Requests : a # r => apc'[a] = apc[a]
            /\ msg'[a] = msg[a]
      BY <1>1, <1>4, <1>7, <2>1, <3>3 DEF WalkOf, PortTypeOK
    <3> QED
      BY <1>1, <3>4, WalkFrame
  <2> QED
    BY <1>1, <1>2, <1>7, <2>2, <2>3, <2>4
<1> QED
  BY <1>5, <1>6, <1>7 DEF Walk

\* Remove reads the successor of the node it found (BeginIO.c:343).
LEMMA RemoveReadsStep ==
  ASSUME IndInv, NEW r \in Requests, RemoveReads(r)
  PROVE  IndInv' /\ UNCHANGED <<queue, where, abort>>
<1> USE DEF IndInv
<1>1. /\ apc[r] = "remove" /\ apc' = [apc EXCEPT ![r] = "unlink"]
      /\ msg' = [msg EXCEPT ![r] = ln_Succ[r]]
      /\ UNCHANGED <<ln_Succ, ln_Pred, queue, port_mutex, where, abort, signal, tpc,
         sends>>
  BY DEF RemoveReads, At
<1>2. where[r] = "port"
  BY <1>1 DEF WalkInv
<1>3. ln_Succ[r] \in Nodes
  <2>1. PICK k \in 1 .. Len(queue) : queue[k] = r
    BY <1>2, NodeIs DEF ListIntact, Queued
  <2>2. ln_Succ[Node(k)] = Node(k + 1) /\ Node(k) = r /\ Node(k + 1) \in Nodes
    BY <2>1, NodeIs DEF ListIntact
  <2> QED
    BY <2>2
<1>4. PortTypeOK'
  BY <1>1, <1>3 DEF PortTypeOK
<1>5. ListIntact'
  BY <1>1, ListFrame
<1>6. MutexInv'
  BY <1>1 DEF MutexInv, PortTypeOK, Locked
<1>7. AbortInv'
  BY <1>1 DEF AbortInv, PortTypeOK
<1>8. WalkInv'
  <2>1. WalkOf(r)' /\ \A a \in Requests : a # r => apc'[a] = apc[a] /\ msg'[a] = msg[a]
    BY <1>1, <1>2 DEF WalkOf, PortTypeOK
  <2> QED
    BY <1>1, <2>1, WalkFrame
<1> QED
  BY <1>1, <1>4, <1>5, <1>6, <1>7, <1>8

\* AbortIO releases port_mutex: with the request in hand, or to report that it
\* was not there.
LEMMA AbortReleaseStep ==
  ASSUME IndInv, NEW r \in Requests, AbortRelease(r)
  PROVE  /\ IndInv' /\ UNCHANGED <<queue, where>>
         /\ \/ UNCHANGED abort
            \/ abort[r] = "missed" /\ abort' = [abort EXCEPT ![r] = "none"]
<1> USE DEF IndInv
<1>1. /\ apc[r] = "release" /\ port_mutex' = NULL /\ msg' = [msg EXCEPT ![r] = lh_Head]
      /\ UNCHANGED <<ln_Succ, ln_Pred, queue, where, signal, tpc, sends>>
      /\ port_mutex = r /\ abort[r] \in {"caught", "missed"}
  BY DEF AbortRelease, MutexInv, AbortInv, Locked
<1>2. \/ /\ abort[r] = "caught" /\ apc' = [apc EXCEPT ![r] = "reply"] /\ UNCHANGED abort
      \/ /\ abort[r] = "missed" /\ apc' = [apc EXCEPT ![r] = "idle"]
         /\ abort' = [abort EXCEPT ![r] = "none"]
  BY <1>1 DEF AbortRelease
<1>3. PortTypeOK'
  BY <1>1, <1>2 DEF PortTypeOK
<1>4. ListIntact'
  BY <1>1, ListFrame
<1>5. MutexInv'
  <2>1. tpc \notin {"get", "empty", "dispatch"} /\ \A a \in Requests : a # NULL
    BY <1>1, PortAssumption DEF MutexInv
  <2>2. \A a \in Requests : apc'[a] \notin Locked
    BY <1>1, <1>2, OneHolder DEF PortTypeOK, Locked
  <2> QED
    BY <1>1, <2>1, <2>2, PortAssumption DEF MutexInv
<1>6. AbortInv'
  BY <1>1, <1>2 DEF AbortInv, PortTypeOK
<1>7. WalkInv'
  <2>1. WalkOf(r)' /\ \A a \in Requests : a # r => apc'[a] = apc[a] /\ msg'[a] = msg[a]
    BY <1>1, <1>2 DEF WalkOf, PortTypeOK
  <2> QED
    BY <1>1, <2>1, WalkFrame
<1> QED
  BY <1>1, <1>2, <1>3, <1>4, <1>5, <1>6, <1>7

\* The replies: the unit task's, and AbortIO's for a request it removed.
LEMMA ReplySteps ==
  ASSUME IndInv, NEW r \in Requests, TaskReply(r) \/ AbortReply(r)
  PROVE  IndInv'
<1>1. CASE TaskReply(r)
  <2>1. where[r] = "task" /\ ReplyMsg(r)
        /\ UNCHANGED <<port_mutex, signal, tpc, apc, msg, abort, sends>>
    BY <1>1 DEF TaskReply
  <2>2. AbortInv'
    BY <2>1 DEF IndInv, AbortInv, ReplyMsg, PortTypeOK
  <2> QED
    BY <2>1, <2>2, ReplyMsgStep
<1>2. CASE AbortReply(r)
  <2>1. /\ apc[r] = "reply" /\ apc' = [apc EXCEPT ![r] = "idle"] /\ ReplyMsg(r)
        /\ abort' = [abort EXCEPT ![r] = "none"]
        /\ UNCHANGED <<port_mutex, signal, tpc, msg, sends>>
    BY <1>2 DEF AbortReply, At
  <2>2. where[r] = "aborter"
    BY <2>1 DEF IndInv, AbortInv
  <2>3. AbortInv'
    BY <2>1 DEF IndInv, AbortInv, ReplyMsg, PortTypeOK
  <2> QED
    BY <2>1, <2>2, <2>3, ReplyMsgStep
<1> QED
  BY <1>1, <1>2

-----------------------------------------------------------------------------
(* The theorems *)

\* Every step keeps the inductive invariant, when PutMsg and Remove exclude
\* each other.
LEMMA IndStep ==
  ASSUME IndInv, ~PutMsgInRemove, Next
  PROVE  IndInv'
<1>1. CASE TaskStep
  <2>1. CASE GetMsg /\ ln_Succ[lh_Head] # lh_Tail
    BY <2>1, GetMsgStep
  <2>2. CASE Wake \/ BeginGet \/ EndGet \/ (GetMsg /\ ln_Succ[lh_Head] = lh_Tail)
    BY <2>2, TaskStepInv
  <2> QED
    BY <1>1, <2>1, <2>2 DEF TaskStep
<1>2. ASSUME NEW r \in Requests, BeginIO(r) \/ AbortIO(r) \/ TaskReply(r)
        \/ AbortStep(r)
      PROVE  IndInv'
  BY <1>2, BeginIOStep, AbortIOStep, ReplySteps, AbortObtainStep, WalkStep,
     RemoveReadsStep, RemoveWritesStep, AbortReleaseStep DEF AbortStep
<1> QED
  BY <1>1, <1>2 DEF Next

\* The inductive invariant of PutMsg, GetMsg and AbortIO's walk
\* (BeginIO.c:294-354, unit_task.c:401-412).
THEOREM PortInvariant ==
  ASSUME ~PutMsgInRemove
  PROVE  Spec => []IndInv
<1>1. IndInv /\ [Next]_vars => IndInv'
  <2> SUFFICES ASSUME IndInv, [Next]_vars PROVE IndInv'
    OBVIOUS
  <2>1. CASE Next
    BY <2>1, IndStep
  <2>2. CASE UNCHANGED vars
    <3>1. PortTypeOK' /\ MutexInv' /\ AbortInv'
      BY <2>2 DEF vars, IndInv, PortTypeOK, MutexInv, AbortInv
    <3>2. ListIntact'
      BY <2>2, ListFrame DEF vars, IndInv
    <3>3. WalkInv'
      BY <2>2, PortAssumption, WalkFrame DEF vars, IndInv
    <3> QED
      BY <3>1, <3>2, <3>3 DEF IndInv
  <2> QED
    BY <2>1, <2>2
<1> QED
  BY <1>1, IndInit, PTL DEF Spec

\* PutMsg, GetMsg and AbortIO's walk, in any order, keep the port's list
\* intact and every walk on it (BeginIO.c:294-354, unit_task.c:401-412), if
\* PutMsg cannot run inside Remove.
THEOREM PortSafe ==
  ASSUME ~PutMsgInRemove
  PROVE  Spec => []PortInv
<1>1. IndInv => PortInv
  <2> SUFFICES ASSUME IndInv PROVE WalkInside
    BY DEF IndInv, PortInv
  <2> SUFFICES ASSUME NEW r \in Requests, apc[r] \in {"walk", "remove"}
               PROVE  msg[r] \in Queued \cup {lh_Tail}
    BY DEF WalkInside
  <2>1. CASE apc[r] = "walk"
    <3>1. PICK i \in 1 .. Len(queue) + 1 : msg[r] = Node(i)
      BY <2>1 DEF IndInv, WalkInv, Standing
    <3> QED
      BY <3>1, NodeIs DEF IndInv, Queued
  <2>2. CASE apc[r] = "remove"
    BY <2>2 DEF IndInv, WalkInv, ListIntact
  <2> QED
    BY <2>1, <2>2
<1> QED
  BY <1>1, PortInvariant, PTL

\* Each step of BeginIO, the GetMsg loop and AbortIO is a step of the abstract
\* queue or leaves it alone: a walk that ends without its request tells the
\* truth at that moment, though the list moved while it walked.
LEMMA PortStep ==
  ASSUME IndInv, Next
  PROVE  Port!FifoNext \/ UNCHANGED Port!fifoVars
<1>1. CASE TaskStep
  <2>1. CASE GetMsg /\ ln_Succ[lh_Head] # lh_Tail
    <3>1. Port!Receive
      BY <2>1, GetMsgStep DEF Port!Receive
    <3> QED
      BY <3>1 DEF Port!FifoNext
  <2>2. CASE Wake \/ BeginGet \/ EndGet \/ (GetMsg /\ ln_Succ[lh_Head] = lh_Tail)
    BY <2>2, TaskStepInv DEF Port!fifoVars
  <2> QED
    BY <1>1, <2>1, <2>2 DEF TaskStep
<1>2. ASSUME NEW r \in Requests, BeginIO(r) \/ AbortIO(r) \/ TaskReply(r)
        \/ AbortStep(r)
      PROVE  Port!FifoNext \/ UNCHANGED Port!fifoVars
  <2>1. CASE BeginIO(r)
    <3>1. Port!Send(r)
      BY <2>1 DEF BeginIO, AddTail, IndInv, AbortInv, Port!Send
    <3> QED
      BY <3>1 DEF Port!FifoNext
  <2>2. CASE AbortIO(r)
    <3>1. Port!Ask(r)
      BY <2>2 DEF AbortIO, At, IndInv, AbortInv, Port!Ask
    <3> QED
      BY <3>1 DEF Port!FifoNext
  <2>3. CASE TaskReply(r)
    <3>1. Port!Finish(r)
      BY <2>3 DEF TaskReply, ReplyMsg, Port!Finish
    <3> QED
      BY <3>1 DEF Port!FifoNext
  <2>4. CASE AbortObtain(r) \/ RemoveReads(r)
    BY <2>4, AbortObtainStep, RemoveReadsStep DEF Port!fifoVars
  <2>5. CASE Walk(r)
    <3>1. UNCHANGED Port!fifoVars \/ Port!Miss(r)
      BY <2>5, WalkStep DEF Port!fifoVars, Port!Miss
    <3> QED
      BY <3>1 DEF Port!FifoNext
  <2>6. CASE RemoveWrites(r)
    <3>1. Port!Catch(r)
      BY <2>6 DEF RemoveWrites, At, IndInv, WalkInv, AbortInv, Port!Catch
    <3> QED
      BY <3>1 DEF Port!FifoNext
  <2>7. CASE AbortRelease(r)
    <3>1. UNCHANGED Port!fifoVars \/ Port!Return(r)
      BY <2>7, AbortReleaseStep DEF Port!fifoVars, Port!Return
    <3> QED
      BY <3>1 DEF Port!FifoNext
  <2>8. CASE AbortReply(r)
    <3>1. Port!Return(r)
      BY <2>8 DEF AbortReply, At, ReplyMsg, IndInv, AbortInv, Port!Return
    <3> QED
      BY <3>1 DEF Port!FifoNext
  <2> QED
    BY <1>2, <2>1, <2>2, <2>3, <2>4, <2>5, <2>6, <2>7, <2>8 DEF AbortStep
<1> QED
  BY <1>1, <1>2 DEF Next

\* The port that clients see is a first-in first-out queue whose requests an
\* AbortIO takes out or finds gone, in one step: the linked list, the walk
\* node by node, port_mutex and the late reply are not visible (BeginIO.c:294-
\* 354, unit_task.c:401-412).
THEOREM PortRefinesFifo ==
  ASSUME ~PutMsgInRemove
  PROVE  Spec => PortIsFifo
<1>1. Init => Port!FifoInit
  BY DEF Init, Port!FifoInit
<1>2. IndInv /\ [Next]_vars => [Port!FifoNext]_(Port!fifoVars)
  <2> SUFFICES ASSUME IndInv, [Next]_vars
               PROVE  Port!FifoNext \/ UNCHANGED Port!fifoVars
    OBVIOUS
  <2>1. CASE Next
    BY <2>1, PortStep
  <2>2. CASE UNCHANGED vars
    BY <2>2 DEF vars, Port!fifoVars
  <2> QED
    BY <2>1, <2>2
<1> QED
  BY <1>1, <1>2, PortInvariant, PTL DEF Spec, PortIsFifo, Port!FifoSpec

=============================================================================
