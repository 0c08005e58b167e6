------------------------------ MODULE PortQueue ------------------------------
(***************************************************************************)
(* The unit's message port: BeginIO's PutMsg, the unit task's GetMsg loop  *)
(* and AbortIO's walk, which follows ln_Succ node by node while other      *)
(* tasks go on sending.  port_mutex keeps the walk and GetMsg apart; PutMsg *)
(* does not take it.                                                       *)
(*                                                                         *)
(* The list is Exec's doubly linked list.  A replied request is linked     *)
(* into its client's reply port, so a walk that stood on it would leave    *)
(* the unit's list.  A client does not touch a request it is aborting.     *)
(***************************************************************************)
EXTENDS Integers, Sequences, FiniteSets

CONSTANTS
  Requests,
  MaxSends,        \* bound on how often a client sends each request
  NULL,
  lh_Head, lh_Tail, \* the list's two end nodes
  ReplyPort,       \* the node after a request on its client's reply port
  PutMsgInRemove   \* a PutMsg may run between the reads and writes of Remove

Nodes == Requests \cup {lh_Head, lh_Tail}
UnitTask == lh_Head   \* stands for the unit task as holder of port_mutex

ASSUME PortAssumption ==
  /\ IsFiniteSet(Requests) /\ MaxSends \in [Requests -> Nat]
  /\ NULL # lh_Head /\ NULL # lh_Tail /\ NULL # ReplyPort
  /\ lh_Head # lh_Tail /\ lh_Head # ReplyPort /\ lh_Tail # ReplyPort
  /\ {NULL, lh_Head, lh_Tail, ReplyPort} \cap Requests = {}
  /\ PutMsgInRemove \in BOOLEAN

VARIABLES
  ln_Succ, ln_Pred,
  port_mutex,  \* who holds it: the unit task, or the AbortIO of a request
  signal,      \* io_port_mask is pending at the unit task
  where,       \* who has a request
  tpc,         \* where the unit task stands
  apc,         \* where the AbortIO of a request stands
  msg,         \* its cursor; in Remove, the successor it has read
  abort,       \* what it found
  sends,
  queue        \* history: the requests that wait, in the order they were sent

vars == <<ln_Succ, ln_Pred, port_mutex, signal, where, tpc, apc, msg, abort, sends,
          queue>>

\* What clients rely on.
Port == INSTANCE FifoPort

PortTypeOK ==
  /\ ln_Succ \in [Nodes -> Nodes \cup {NULL, ReplyPort}]
  /\ ln_Pred \in [Nodes -> Nodes \cup {NULL, ReplyPort}]
  /\ port_mutex \in Requests \cup {UnitTask, NULL}
  /\ signal \in BOOLEAN
  /\ where \in [Requests -> {"client", "port", "task", "aborter"}]
  /\ tpc \in {"wait", "obtain", "get", "empty", "dispatch"}
  /\ apc \in [Requests -> {"idle", "obtain", "walk", "remove", "unlink", "release", "reply"}]
  /\ msg \in [Requests -> Nodes \cup {ReplyPort}]
  /\ abort \in [Requests -> {"none", "asked", "caught", "missed"}]
  /\ sends \in [Requests -> Nat]
  /\ queue \in Seq(Requests)

\* AllocSysObject(ASOT_PORT): NewList, no message.
Init ==
  /\ ln_Succ = [n \in Nodes |-> CASE n = lh_Head -> lh_Tail
                                  [] n = lh_Tail -> NULL [] OTHER -> ReplyPort]
  /\ ln_Pred = [n \in Nodes |-> CASE n = lh_Head -> NULL
                                  [] n = lh_Tail -> lh_Head [] OTHER -> ReplyPort]
  /\ port_mutex = NULL /\ signal = FALSE
  /\ where = [r \in Requests |-> "client"]
  /\ tpc = "wait"
  /\ apc = [r \in Requests |-> "idle"] /\ msg = [r \in Requests |-> lh_Head]
  /\ abort = [r \in Requests |-> "none"]
  /\ sends = [r \in Requests |-> 0]
  /\ queue = <<>>

-----------------------------------------------------------------------------
(* Exec (external) *)

\* AddTail, RemHead and Remove as they write the links.
AddTail(r) ==
  LET last == ln_Pred[lh_Tail]
  IN /\ ln_Succ' = [ln_Succ EXCEPT ![last] = r, ![r] = lh_Tail]
     /\ ln_Pred' = [ln_Pred EXCEPT ![r] = last, ![lh_Tail] = r]
     /\ queue' = Append(queue, r)

Unlink(prev, next) ==
  /\ ln_Succ' = [ln_Succ EXCEPT ![prev] = next]
  /\ ln_Pred' = [ln_Pred EXCEPT ![next] = prev]

\* ReplyMsg: the node joins the client's reply port.
ReplyMsg(r) ==
  /\ where' = [where EXCEPT ![r] = "client"]
  /\ ln_Succ' = [ln_Succ EXCEPT ![r] = ReplyPort]
  /\ ln_Pred' = [ln_Pred EXCEPT ![r] = ReplyPort]
  /\ UNCHANGED queue

-----------------------------------------------------------------------------
(* Clients: BeginIO *)

\* PutMsg is one step under Exec's own protection and takes no mutex.
BeginIO(r) ==
  /\ where[r] = "client" /\ apc[r] = "idle" /\ sends[r] < MaxSends[r]
  /\ PutMsgInRemove \/ \A a \in Requests : apc[a] # "unlink"
  /\ AddTail(r)
  /\ signal' = TRUE
  /\ where' = [where EXCEPT ![r] = "port"]
  /\ sends' = [sends EXCEPT ![r] = @ + 1]
  /\ UNCHANGED <<port_mutex, tpc, apc, msg, abort>>

-----------------------------------------------------------------------------
(* The unit task: Wait, then GetMsg until the port is empty *)

taskOnly == <<apc, msg, abort, sends>>

Wake ==
  /\ tpc = "wait" /\ signal
  /\ signal' = FALSE /\ tpc' = "obtain"
  /\ UNCHANGED <<ln_Succ, ln_Pred, queue, port_mutex, where, taskOnly>>

TaskObtain == port_mutex = NULL /\ port_mutex' = UnitTask

BeginGet ==
  /\ tpc = "obtain"
  /\ TaskObtain
  /\ tpc' = "get"
  /\ UNCHANGED <<ln_Succ, ln_Pred, queue, signal, where, taskOnly>>

\* GetMsg returns the head, or NULL.
GetMsg ==
  /\ tpc = "get"
  /\ IF ln_Succ[lh_Head] = lh_Tail
     THEN tpc' = "empty" /\ UNCHANGED <<ln_Succ, ln_Pred, queue, where>>
     ELSE LET r == ln_Succ[lh_Head]
          IN /\ tpc' = "dispatch"
             /\ Unlink(lh_Head, ln_Succ[r])
             /\ queue' = Tail(queue)
             /\ where' = [where EXCEPT ![r] = "task"]
  /\ UNCHANGED <<port_mutex, signal, taskOnly>>

\* MutexRelease.  NULL ends the loop; otherwise UnitTask_Dispatch keeps the request (module
\* ScsiIO) and the loop goes on.
EndGetOne ==
  /\ tpc \in {"empty", "dispatch"}
  /\ port_mutex' = NULL
  /\ tpc' = "wait"
  /\ UNCHANGED <<ln_Succ, ln_Pred, queue, signal, where, taskOnly>>
EndGet ==
  /\ tpc \in {"empty", "dispatch"}
  /\ port_mutex' = NULL
  /\ tpc' = IF tpc = "empty" THEN "wait" ELSE "obtain"
  /\ UNCHANGED <<ln_Succ, ln_Pred, queue, signal, where, taskOnly>>

\* The request is done: by Dispatch itself, or later by Harvest.
TaskReply(r) ==
  /\ where[r] = "task"
  /\ ReplyMsg(r)
  /\ UNCHANGED <<port_mutex, signal, tpc, taskOnly>>

-----------------------------------------------------------------------------
(* Clients: AbortIO, a step per read of the list *)

At(r, from, to) == apc[r] = from /\ apc' = [apc EXCEPT ![r] = to]

abortOnly == <<signal, tpc, sends>>

AbortIO(r) ==
  /\ sends[r] > 0
  /\ At(r, "idle", "obtain")
  /\ abort' = [abort EXCEPT ![r] = "asked"]
  /\ UNCHANGED <<ln_Succ, ln_Pred, queue, port_mutex, where, msg, abortOnly>>

\* The first read of the walk is lh_Head.
AbortObtain(r) ==
  /\ At(r, "obtain", "walk")
  /\ port_mutex = NULL /\ port_mutex' = r
  /\ msg' = [msg EXCEPT ![r] = ln_Succ[lh_Head]]
  /\ UNCHANGED <<ln_Succ, ln_Pred, queue, where, abort, abortOnly>>

\* while (msg->mn_Node.ln_Succ): the node after the last has no successor.
LastNode(n) == n = ReplyPort \/ ln_Succ[n] \in {NULL, lh_Tail}
AtEnd(n) == n = ReplyPort \/ ln_Succ[n] = NULL

\* One turn of the loop: at the end the request is not there; else it is this
\* node, or the walk moves on.
Walk(r) ==
  /\ apc[r] = "walk"
  /\ \/ /\ AtEnd(msg[r])
        /\ At(r, "walk", "release")
        /\ abort' = [abort EXCEPT ![r] = "missed"]
        /\ UNCHANGED msg
     \/ /\ ~AtEnd(msg[r]) /\ msg[r] = r
        /\ At(r, "walk", "remove")
        /\ UNCHANGED <<msg, abort>>
     \/ /\ ~AtEnd(msg[r]) /\ msg[r] # r
        /\ msg' = [msg EXCEPT ![r] = ln_Succ[msg[r]]]
        /\ UNCHANGED <<apc, abort>>
  /\ UNCHANGED <<ln_Succ, ln_Pred, queue, port_mutex, where, abortOnly>>

\* Remove reads the successor ...
RemoveReadsUnlocked(r) ==
  /\ At(r, "remove", "unlink")
  /\ msg' = [msg EXCEPT ![r] = ln_Succ[r]]
  /\ port_mutex' = NULL
  /\ UNCHANGED <<ln_Succ, ln_Pred, queue, where, abort, abortOnly>>
RemoveReads(r) ==
  /\ At(r, "remove", "unlink")
  /\ msg' = [msg EXCEPT ![r] = ln_Succ[r]]
  /\ UNCHANGED <<ln_Succ, ln_Pred, queue, port_mutex, where, abort, abortOnly>>

\* ... and joins it to the predecessor.
RemoveWrites(r) ==
  /\ At(r, "unlink", "release")
  /\ Unlink(ln_Pred[r], msg[r])
  /\ queue' = Port!Without(queue, r)
  /\ where' = [where EXCEPT ![r] = "aborter"]
  /\ abort' = [abort EXCEPT ![r] = "caught"]
  /\ UNCHANGED <<port_mutex, msg, abortOnly>>

\* Not found: IOERR_NOCMD is returned and nobody is replied.
AbortRelease(r) ==
  /\ apc[r] = "release"
  /\ port_mutex' = NULL
  /\ IF abort[r] = "caught"
     THEN apc' = [apc EXCEPT ![r] = "reply"] /\ UNCHANGED abort
     ELSE apc' = [apc EXCEPT ![r] = "idle"] /\ abort' = [abort EXCEPT ![r] = "none"]
  /\ msg' = [msg EXCEPT ![r] = lh_Head]
  /\ UNCHANGED <<ln_Succ, ln_Pred, queue, where, abortOnly>>

\* Found: IOERR_ABORTED, after the mutex was released.
AbortReply(r) ==
  /\ At(r, "reply", "idle")
  /\ ReplyMsg(r)
  /\ abort' = [abort EXCEPT ![r] = "none"]
  /\ UNCHANGED <<port_mutex, msg, abortOnly>>

-----------------------------------------------------------------------------

TaskStep == Wake \/ BeginGet \/ GetMsg \/ EndGet
AbortStep(r) ==
  \/ AbortObtain(r) \/ Walk(r) \/ RemoveReads(r) \/ RemoveWrites(r)
  \/ AbortRelease(r) \/ AbortReply(r)

Next ==
  \/ TaskStep
  \/ \E r \in Requests : BeginIO(r) \/ AbortIO(r) \/ TaskReply(r) \/ AbortStep(r)

Spec == Init /\ [][Next]_vars

\* Every task that can run runs, an Exec mutex is granted to the unit task in
\* its turn, and the unit task finishes what it was given (module ScsiIO).
FairSpec ==
  /\ Spec
  /\ WF_vars(TaskStep) /\ SF_vars(BeginGet)
  /\ WF_vars(\E r \in Requests : TaskReply(r))
  /\ \A r \in Requests : WF_vars(AbortStep(r))

-----------------------------------------------------------------------------
(* Properties *)

Queued == {queue[i] : i \in DOMAIN queue}

\* The i-th node of the port's list, from lh_Head (0) to lh_Tail.
Node(i) == IF i = 0 THEN lh_Head ELSE IF i \in DOMAIN queue THEN queue[i] ELSE lh_Tail

\* Whoever stands in the middle of AbortIO or GetMsg, the port's list holds
\* exactly the requests that wait, each once, in the order they were sent,
\* linked both ways (PutMsg against AbortIO's Remove, BeginIO.c:297 and 343).
ListIntact ==
  /\ Queued = {r \in Requests : where[r] = "port"}
  /\ \A i, j \in DOMAIN queue : queue[i] = queue[j] => i = j
  /\ \A i \in 0 .. Len(queue) :
       ln_Succ[Node(i)] = Node(i + 1) /\ ln_Pred[Node(i + 1)] = Node(i)
  /\ ln_Succ[lh_Tail] = NULL

\* An AbortIO that walks stands on a node of the port's list: no request it
\* stands on is taken, replied and sent elsewhere under it (port_mutex,
\* BeginIO.c:329 and unit_task.c:405).
WalkInside ==
  \A r \in Requests : apc[r] \in {"walk", "remove"} => msg[r] \in Queued \cup {lh_Tail}

\* The list is intact and every walk inside it, whatever AbortIO, GetMsg and
\* PutMsg do at the same time (BeginIO.c:294-354, unit_task.c:401-412).
PortInv == PortTypeOK /\ ListIntact /\ WalkInside

\* The port is a first-in first-out queue with atomic aborts: an AbortIO that
\* starts while its request waits catches it unless the unit task got it first,
\* and every request comes back once (BeginIO, AbortIO, the GetMsg loop).
PortIsFifo == Port!FifoSpec

\* A request that was sent is replied, by the unit task or by AbortIO: no
\* signal is lost between GetMsg's NULL and Wait, and no one waits for
\* port_mutex for ever.
EveryRequestReplied == \A r \in Requests : where[r] = "port" ~> where[r] = "client"
=============================================================================
