---------------------------- MODULE UnitLifecycle ----------------------------
(***************************************************************************)
(* One unit from its first open to the expunge of the driver: the          *)
(* reference counts of Open.c, Close.c and Expunge.c, the start and        *)
(* shutdown handshakes of UnitTask_Start and UnitTask_Shutdown with the    *)
(* task UnitTask_Entry they create and end, the buffers that live as long  *)
(* as that task, the requests it drains on its way out, and the held       *)
(* change-notification requests of BeginIO.c.                              *)
(*                                                                         *)
(* Exec (external) runs Open, Close and Expunge one at a time; a task that *)
(* Waits inside them keeps the others out.  What the unit task does with a *)
(* request between GetMsg and ReplyMsg is module ScsiIO; here a request is *)
(* in a pipeline slot, in DoIO, or at the device.                          *)
(***************************************************************************)
EXTENDS Integers, Sequences, FiniteSets

CONSTANTS
  Clients,
  Io,              \* requests that go through the unit task's port
  Holds,           \* TD_ADDCHANGEINT and TD_REMOVE requests
  Removers,        \* clients that send TD_REMCHANGEINT
  ClientOf,        \* who sends a request
  NULL,
  Loads            \* the circumstances to consider, see LoadsOf

Requests == Io \cup Holds
Fields == {"changeint_req", "remove_req"}

\* What a behaviour takes for granted from its first state on.
LoadsOf ==
  [orderly : BOOLEAN,         \* clients close only when their I/O has been replied
   signalsRunOut : BOOLEAN,   \* AllocSignal may fail in the unit task
   callersWithout : SUBSET Clients,  \* callers of Shutdown in which AllocSignal may fail
   doioGivesUp : BOOLEAN,     \* DoIO may run out of wakeups before the device answers
   fieldOf : [Holds -> Fields]]  \* which of the two fields a held request goes to

ASSUME LifecycleAssumption ==
  /\ IsFiniteSet(Clients) /\ IsFiniteSet(Requests)
  /\ Io \cap Holds = {} /\ Removers \subseteq Clients
  /\ ClientOf \in [Requests -> Clients]
  /\ Loads \subseteq LoadsOf
  /\ NULL \notin Requests \cup Clients

VARIABLES
  \* struct VirtIOSCSIBase
  lib_OpenCnt, delexp, expunged,
  \* struct VirtIOUSCSIDevUnit; task, io_port and io_wait_task: is it non-NULL
  open_count, task, io_port, io_wait_task, task_shutdown, shutdown_exit_mask,
  held,            \* changeint_req and remove_req
  dma,             \* the buffers of preallocate_unit_dma are allocated
  inflight,        \* requests in pipeline slots
  inflight_count,
  queue,           \* messages at io_port
  \* pending signals: ready_mask and the exit signal at the caller of Start and
  \* Shutdown, CTRL_C at the unit task
  ready, exited, ctrl_c,
  tpc,             \* where the unit task stands
  leaving,         \* what a task that has cleared unit->task has still to do
  exit_task,       \* ... and the caller it captured
  mbreak,          \* callers with CTRL_C pending
  doio,            \* the request its DoIO waits for
  device,          \* requests whose buffers the device still uses
  mpc, mop, mclient, \* the Open, Close or Expunge in progress
  cpc, creq,       \* where a client stands in BeginIO, and its request
  opened,          \* clients with an open unit
  sent, replies,
  load             \* one of Loads; never changes

libVars  == <<lib_OpenCnt, delexp, expunged>>
taskVars == <<task, io_port, io_wait_task, task_shutdown, tpc>>
sigVars  == <<ready, exited, ctrl_c>>
leaveVars == <<leaving, exit_task, mbreak>>
ioVars   == <<inflight, inflight_count, queue, doio, device>>
mgrVars  == <<mpc, mop, mclient>>
beginVars == <<cpc, creq>>
vars == <<libVars, open_count, taskVars, shutdown_exit_mask, held, dma, sigVars,
          leaveVars, ioVars, mgrVars, beginVars, opened, sent, replies, load>>

LTypeOK ==
  /\ lib_OpenCnt \in Nat /\ open_count \in Nat /\ inflight_count \in Nat
  /\ {delexp, expunged, task, io_port, io_wait_task, task_shutdown,
      shutdown_exit_mask, dma, ready, exited, ctrl_c} \subseteq BOOLEAN
  /\ held \in [Fields -> Holds \cup {NULL}]
  /\ inflight \in SUBSET Io /\ device \in SUBSET Io
  /\ queue \in Seq(Io)
  /\ doio \in Io \cup {NULL}
  /\ tpc \in {"none", "port", "mutex", "signal", "undo", "wait", "run",
              "doio", "slots", "messages", "held", "unregister", "clear"}
  /\ leaving \in {"no", "bit", "break", "return"}
  /\ exit_task \in Clients \cup {NULL}
  /\ mbreak \in SUBSET Clients
  /\ mpc \in {"idle", "create", "ready", "dma", "shutdown", "break",
              "exit", "sleep", "free", "return", "expunge"}
  /\ mop \in {"open", "close", "expunge"}
  /\ mclient \in Clients \cup {NULL}
  /\ cpc \in [Clients -> {"ready", "hold", "remove"}]
  /\ creq \in [Clients -> Holds \cup {NULL}]
  /\ opened \in SUBSET Clients
  /\ sent \in SUBSET Requests
  /\ replies \in [Requests -> Nat]
  /\ load \in Loads

\* DiscoverUnits has registered the unit; nobody has opened it.
Init ==
  /\ lib_OpenCnt = 0 /\ delexp = FALSE /\ expunged = FALSE
  /\ open_count = 0 /\ task = FALSE /\ io_port = FALSE /\ io_wait_task = FALSE
  /\ task_shutdown = FALSE /\ shutdown_exit_mask = FALSE
  /\ held = [f \in Fields |-> NULL]
  /\ dma = FALSE /\ inflight = {} /\ inflight_count = 0 /\ queue = <<>>
  /\ ready = FALSE /\ exited = FALSE /\ ctrl_c = FALSE
  /\ tpc = "none" /\ doio = NULL /\ device = {}
  /\ leaving = "no" /\ exit_task = NULL /\ mbreak = {}
  /\ mpc = "idle" /\ mop = "open" /\ mclient = NULL
  /\ cpc = [c \in Clients |-> "ready"] /\ creq = [c \in Clients |-> NULL]
  /\ opened = {} /\ sent = {}
  /\ replies = [r \in Requests |-> 0]
  /\ load \in Loads

-----------------------------------------------------------------------------
(* Replies *)

ReplyAll(R) == replies' = [r \in Requests |-> IF r \in R THEN replies[r] + 1 ELSE replies[r]]

Reply(r) == ReplyAll({r})

HeldNow == {held[f] : f \in Fields} \ {NULL}

\* Reply_Held_Async_Reqs: both fields are cleared after the reply.
Reply_Held_Drop == UNCHANGED replies /\ held' = [f \in Fields |-> NULL]
Reply_Held_Async_Reqs == ReplyAll(HeldNow) /\ held' = [f \in Fields |-> NULL]

-----------------------------------------------------------------------------
(* Clients: BeginIO *)

Begin(r) ==
  /\ r \notin sent
  /\ ClientOf[r] \in opened
  /\ cpc[ClientOf[r]] = "ready"
  /\ mpc # "idle" => mclient # ClientOf[r]
  /\ sent' = sent \cup {r}

\* A queued command: PutMsg, or IOERR_OPENFAIL without a port.
BeginIO(r) ==
  /\ r \in Io
  /\ Begin(r)
  /\ IF io_port THEN queue' = Append(queue, r) /\ UNCHANGED replies
                ELSE Reply(r) /\ UNCHANGED queue
  /\ UNCHANGED <<libVars, open_count, taskVars, shutdown_exit_mask, held,
                 dma, sigVars, inflight, inflight_count, doio, device,
                 mgrVars, beginVars, opened, load, leaveVars>>

\* TD_ADDCHANGEINT and TD_REMOVE: the request held before is replied
\* IOERR_ABORTED ...
BeginHold(r) ==
  /\ r \in Holds
  /\ Begin(r)
  /\ ReplyAll({held[load.fieldOf[r]]} \ {NULL})
  /\ cpc' = [cpc EXCEPT ![ClientOf[r]] = "hold"]
  /\ creq' = [creq EXCEPT ![ClientOf[r]] = r]
  /\ UNCHANGED <<libVars, open_count, taskVars, shutdown_exit_mask, held,
                 dma, sigVars, ioVars, mgrVars, opened, load, leaveVars>>

\* ... and the new one takes its place.  No lock: ReplyMsg may reschedule.
StoreHold(c) ==
  /\ cpc[c] = "hold"
  /\ held' = [held EXCEPT ![load.fieldOf[creq[c]]] = creq[c]]
  /\ cpc' = [cpc EXCEPT ![c] = "ready"]
  /\ creq' = [creq EXCEPT ![c] = NULL]
  /\ UNCHANGED <<libVars, open_count, taskVars, shutdown_exit_mask, dma,
                 sigVars, ioVars, mgrVars, opened, sent, replies, load, leaveVars>>

\* TD_REMCHANGEINT: reply the held request ...
BeginRemove(c) ==
  /\ c \in Removers \cap opened /\ cpc[c] = "ready"
  /\ mpc # "idle" => mclient # c
  /\ held["changeint_req"] # NULL
  /\ Reply(held["changeint_req"])
  /\ cpc' = [cpc EXCEPT ![c] = "remove"]
  /\ UNCHANGED <<libVars, open_count, taskVars, shutdown_exit_mask, held,
                 dma, sigVars, ioVars, mgrVars, creq, opened, sent, load, leaveVars>>

\* ... and clear the field.
ClearHold(c) ==
  /\ cpc[c] = "remove"
  /\ held' = [held EXCEPT !["changeint_req"] = NULL]
  /\ cpc' = [cpc EXCEPT ![c] = "ready"]
  /\ UNCHANGED <<libVars, open_count, taskVars, shutdown_exit_mask, dma,
                 sigVars, ioVars, mgrVars, creq, opened, sent, replies,
                 load, leaveVars>>

-----------------------------------------------------------------------------
(* _manager_Open and UnitTask_Start *)

MgrIdle == mpc = "idle" /\ ~expunged

\* lib_OpenCnt is raised before anything can fail.
OpenUncounted == UNCHANGED lib_OpenCnt
OpenCounted == lib_OpenCnt' = lib_OpenCnt + 1

\* The first opener of the unit starts its task.
Open(c) ==
  /\ MgrIdle
  /\ c \notin opened /\ cpc[c] = "ready"
  /\ OpenCounted
  /\ mop' = "open" /\ mclient' = c
  /\ mpc' = IF open_count = 0 THEN "create" ELSE "return"
  /\ UNCHANGED <<delexp, expunged, open_count, taskVars, shutdown_exit_mask,
                 held, dma, sigVars, ioVars, beginVars, opened, sent,
                 replies, load, leaveVars>>

\* CreateTaskTags: a task with no signal pending; then Wait(ready_mask).
CreateTask ==
  /\ mpc = "create"
  /\ tpc' = "port" /\ ctrl_c' = FALSE
  /\ mpc' = "ready"
  /\ UNCHANGED <<libVars, open_count, task, io_port, io_wait_task,
                 task_shutdown, shutdown_exit_mask, held, dma, ready, exited,
                 ioVars, mop, mclient, beginVars, opened, sent, replies,
                 load, leaveVars>>

\* The end of Open on any failure: the count goes down again.
OpenFails ==
  /\ lib_OpenCnt' = lib_OpenCnt - 1
  /\ mpc' = "idle" /\ mclient' = NULL

\* AllocSignal or CreateTaskTags failed.
NoTask ==
  /\ mpc = "create"
  /\ OpenFails
  /\ UNCHANGED <<delexp, expunged, open_count, taskVars, shutdown_exit_mask,
                 held, dma, sigVars, ioVars, mop, beginVars, opened, sent,
                 replies, load, leaveVars>>

\* "Task signalled us but port is NULL -- it failed to allocate."
PortUnchecked == TRUE
PortAllocated == io_port

TaskReady ==
  /\ mpc = "ready"
  /\ ready
  /\ ready' = FALSE
  /\ IF PortAllocated
     THEN mpc' = "dma" /\ UNCHANGED <<lib_OpenCnt, mclient>>
     ELSE OpenFails
  /\ UNCHANGED <<delexp, expunged, open_count, taskVars, shutdown_exit_mask,
                 held, dma, exited, ctrl_c, ioVars, mop, beginVars, opened,
                 sent, replies, load, leaveVars>>

\* preallocate_unit_dma: all slots or, after its roll-back, none.
Preallocate ==
  /\ mpc = "dma"
  /\ \/ dma' = TRUE /\ mpc' = "return"
     \/ mpc' = "shutdown" /\ UNCHANGED dma
  /\ UNCHANGED <<libVars, open_count, taskVars, shutdown_exit_mask, held,
                 sigVars, ioVars, mop, mclient, beginVars, opened, sent,
                 replies, load, leaveVars>>

OpenReturns ==
  /\ mpc = "return" /\ mop = "open"
  /\ open_count' = open_count + 1
  /\ opened' = opened \cup {mclient}
  /\ delexp' = FALSE
  /\ mpc' = "idle" /\ mclient' = NULL
  /\ UNCHANGED <<lib_OpenCnt, expunged, taskVars, shutdown_exit_mask, held,
                 dma, sigVars, ioVars, mop, beginVars, sent, replies, load, leaveVars>>

-----------------------------------------------------------------------------
(* UnitTask_Shutdown, for the last Close, a failed Open and Expunge *)

\* The caller after Shutdown.
AfterShutdown ==
  CASE mop = "open"    -> OpenFails
    [] mop = "close"   -> mpc' = "return" /\ UNCHANGED <<lib_OpenCnt, mclient>>
    [] mop = "expunge" -> mpc' = "expunge" /\ UNCHANGED <<lib_OpenCnt, mclient>>

\* Without a task there is nothing to do.  Else name the signal to wait for
\* (without a free bit, CTRL_C) and set task_shutdown ...
Shutdown ==
  /\ mpc = "shutdown"
  /\ \/ /\ ~task
        /\ AfterShutdown
        /\ UNCHANGED <<shutdown_exit_mask, task_shutdown>>
     \/ /\ task
        /\ shutdown_exit_mask' \in {TRUE, mclient \notin load.callersWithout}
        /\ task_shutdown' = TRUE
        /\ mpc' = "break"
        /\ UNCHANGED <<lib_OpenCnt, mclient>>
  /\ UNCHANGED <<delexp, expunged, open_count, task, io_port, io_wait_task,
                 tpc, held, dma, sigVars, ioVars, mop, beginVars, opened,
                 sent, replies, load, leaveVars>>

\* ... then read unit->task and send it CTRL_C.  The task may have ended
\* meanwhile; the signal is then lost on a NULL task.
BreakTask ==
  /\ mpc = "break"
  /\ ctrl_c' = task
  /\ mpc' = "exit"
  /\ UNCHANGED <<libVars, open_count, taskVars, shutdown_exit_mask, held,
                 dma, ready, exited, ioVars, mop, mclient, beginVars, opened,
                 sent, replies, load, leaveVars>>

\* What lets the caller pass: its signal, or unit->task being NULL.
ExitUnawaited == TRUE
ExitAwaited == IF shutdown_exit_mask THEN exited ELSE ~task

TaskExited ==
  /\ mpc = "exit"
  /\ ExitAwaited
  /\ exited' = FALSE
  /\ shutdown_exit_mask' = FALSE
  /\ mpc' = "free"
  /\ UNCHANGED <<libVars, open_count, taskVars, held, dma, ready, ctrl_c,
                 ioVars, mop, mclient, beginVars, opened, sent, replies,
                 load, leaveVars>>

\* while (unit->task) Wait(CTRL_C): a caller without a signal bit sleeps ...
SleepForExit ==
  /\ mpc = "exit"
  /\ ~shutdown_exit_mask /\ task
  /\ mpc' = "sleep"
  /\ UNCHANGED <<libVars, open_count, taskVars, shutdown_exit_mask, held,
                 dma, sigVars, ioVars, mop, mclient, beginVars, opened, sent,
                 replies, load, leaveVars>>

\* ... until a CTRL_C, also one left over from an earlier shutdown, makes it
\* look again.
WokenByBreak ==
  /\ mpc = "sleep"
  /\ mclient \in mbreak
  /\ mbreak' = mbreak \ {mclient}
  /\ mpc' = "exit"
  /\ UNCHANGED <<libVars, open_count, taskVars, shutdown_exit_mask, held,
                 dma, sigVars, ioVars, mop, mclient, beginVars, opened, sent,
                 replies, load, leaving, exit_task>>

\* free_unit_dma
FreeDma ==
  /\ mpc = "free"
  /\ dma' = FALSE
  /\ AfterShutdown
  /\ UNCHANGED <<delexp, expunged, open_count, taskVars, shutdown_exit_mask,
                 held, sigVars, ioVars, mop, beginVars, opened, sent,
                 replies, load, leaveVars>>

-----------------------------------------------------------------------------
(* _manager_Close and _manager_Expunge *)

\* The last opener ends the unit's task.
AnyCloser == TRUE
LastCloser == open_count = 1

Close(c) ==
  /\ MgrIdle
  /\ c \in opened /\ cpc[c] = "ready"
  /\ load.orderly => \A r \in sent \cap Io : ClientOf[r] = c => replies[r] > 0
  /\ opened' = opened \ {c}
  /\ open_count' = open_count - 1
  /\ mop' = "close" /\ mclient' = c
  /\ mpc' = IF LastCloser THEN "shutdown" ELSE "return"
  /\ UNCHANGED <<libVars, taskVars, shutdown_exit_mask, held, dma, sigVars,
                 ioVars, beginVars, sent, replies, load, leaveVars>>

\* RemoveVirtIOInterrupt and CleanupVirtIOSCSI: the reset takes every buffer
\* from the device; then the unit.
ExpungeStarts ==
  /\ device' = {}
  /\ mop' = "expunge"
  /\ mpc' = "shutdown"

\* lib_OpenCnt goes down last; a deferred expunge is made up for.
CloseReturns ==
  /\ mpc = "return" /\ mop = "close"
  /\ lib_OpenCnt' = lib_OpenCnt - 1
  /\ mclient' = NULL
  /\ IF lib_OpenCnt = 1 /\ delexp
     THEN ExpungeStarts
     ELSE mpc' = "idle" /\ UNCHANGED <<mop, device>>
  /\ UNCHANGED <<delexp, expunged, open_count, taskVars, shutdown_exit_mask,
                 held, dma, sigVars, inflight, inflight_count, queue, doio,
                 beginVars, opened, sent, replies, load, leaveVars>>

\* Expunge is put off while the device is open.
InUse == lib_OpenCnt > 0

Expunge ==
  /\ MgrIdle
  /\ IF InUse
     THEN delexp' = TRUE /\ UNCHANGED <<device, mop, mpc>>
     ELSE ExpungeStarts /\ UNCHANGED delexp
  /\ UNCHANGED <<lib_OpenCnt, expunged, open_count, taskVars,
                 shutdown_exit_mask, held, dma, sigVars, inflight,
                 inflight_count, queue, doio, mclient, beginVars, opened,
                 sent, replies, load, leaveVars>>

\* The unit is freed, then the driver.
ExpungeReturns ==
  /\ mpc = "expunge"
  /\ Reply_Held_Async_Reqs
  /\ expunged' = TRUE
  /\ mpc' = "idle"
  /\ UNCHANGED <<lib_OpenCnt, delexp, open_count, taskVars,
                 shutdown_exit_mask, dma, sigVars, ioVars, mop, mclient,
                 beginVars, opened, sent, load, leaveVars>>

-----------------------------------------------------------------------------
(* UnitTask_Entry *)

\* A failing start: tell the parent and end.
GivesUpStart == ready' = TRUE /\ tpc' = "none"

TaskPort ==
  /\ tpc = "port"
  /\ \/ io_port' = TRUE /\ tpc' = "mutex" /\ UNCHANGED ready
     \/ GivesUpStart /\ UNCHANGED io_port
  /\ UNCHANGED <<libVars, open_count, task, io_wait_task, task_shutdown,
                 shutdown_exit_mask, held, dma, exited, ctrl_c, ioVars,
                 mgrVars, beginVars, opened, sent, replies, load, leaveVars>>

TaskMutex ==
  /\ tpc = "mutex"
  /\ \/ /\ task' = TRUE
        /\ task_shutdown' = FALSE
        /\ tpc' = "signal"
        /\ UNCHANGED <<io_port, ready>>
     \/ /\ GivesUpStart
        /\ io_port' = FALSE
        /\ UNCHANGED <<task, task_shutdown>>
  /\ UNCHANGED <<libVars, open_count, io_wait_task, shutdown_exit_mask, held,
                 dma, exited, ctrl_c, ioVars, mgrVars, beginVars, opened,
                 sent, replies, load, leaveVars>>

\* The ISR's signal bit; then "port is ready, it's safe to PutMsg to us now".
\* Without a bit the parent is signalled before the port is taken back.
TaskSignal ==
  /\ tpc = "signal"
  /\ ready' = TRUE
  /\ \/ io_wait_task' = TRUE /\ tpc' = "wait"
     \/ load.signalsRunOut /\ tpc' = "undo" /\ UNCHANGED io_wait_task
  /\ UNCHANGED <<libVars, open_count, task, io_port, task_shutdown,
                 shutdown_exit_mask, held, dma, exited, ctrl_c, ioVars,
                 mgrVars, beginVars, opened, sent, replies, load, leaveVars>>

TaskUndo ==
  /\ tpc = "undo"
  /\ io_port' = FALSE /\ task' = FALSE
  /\ queue' = <<>>
  /\ tpc' = "none"
  /\ UNCHANGED <<libVars, open_count, io_wait_task, task_shutdown,
                 shutdown_exit_mask, held, dma, sigVars, inflight,
                 inflight_count, doio, device, mgrVars, beginVars, opened,
                 sent, replies, load, leaveVars>>

\* The main loop's Wait: CTRL_C ends the loop before anything else is looked
\* at; a message or a completion starts a round of Harvest and Dispatch.
HasWork == queue # <<>> \/ inflight \ device # {}

Wake ==
  /\ tpc = "wait"
  /\ \/ ctrl_c /\ ctrl_c' = FALSE /\ tpc' = "slots"
     \/ ~ctrl_c /\ HasWork /\ tpc' = "run" /\ UNCHANGED ctrl_c
  /\ UNCHANGED <<libVars, open_count, task, io_port, io_wait_task,
                 task_shutdown, shutdown_exit_mask, held, dma, ready, exited,
                 ioVars, mgrVars, beginVars, opened, sent, replies, load, leaveVars>>

\* A round ends; work that is left has its signal pending.  The loop also ends
\* at task_shutdown, without CTRL_C.
RoundEnds ==
  /\ tpc = "run"
  /\ task_shutdown \/ ~HasWork
  /\ tpc' = IF task_shutdown THEN "slots" ELSE "wait"
  /\ UNCHANGED <<libVars, open_count, task, io_port, io_wait_task,
                 task_shutdown, shutdown_exit_mask, held, dma, sigVars,
                 ioVars, mgrVars, beginVars, opened, sent, replies, load, leaveVars>>

\* GetMsg and UnitTask_Dispatch: submit, run a DoIO, or reply at once.
Dispatch ==
  LET r == Head(queue) IN
  /\ tpc = "run"
  /\ queue # <<>>
  /\ queue' = Tail(queue)
  /\ \/ /\ inflight' = inflight \cup {r}
        /\ inflight_count' = inflight_count + 1
        /\ device' = device \cup {r}
        /\ UNCHANGED <<doio, replies, tpc>>
     \/ /\ doio' = r /\ tpc' = "doio"
        /\ device' = device \cup {r}
        /\ UNCHANGED <<inflight, inflight_count, replies>>
     \/ /\ Reply(r)
        /\ UNCHANGED <<inflight, inflight_count, doio, device, tpc>>
  /\ UNCHANGED <<libVars, open_count, task, io_port, io_wait_task,
                 task_shutdown, shutdown_exit_mask, held, dma, sigVars,
                 mgrVars, beginVars, opened, sent, load, leaveVars>>

\* DoIO returns: its answer is there, or it gives up.
DoIOReturns ==
  /\ tpc = "doio"
  /\ doio \notin device \/ load.doioGivesUp
  /\ Reply(doio)
  /\ doio' = NULL
  /\ tpc' = "run"
  /\ UNCHANGED <<libVars, open_count, task, io_port, io_wait_task,
                 task_shutdown, shutdown_exit_mask, held, dma, sigVars,
                 inflight, inflight_count, queue, device, mgrVars, beginVars,
                 opened, sent, load, leaveVars>>

\* A completed slot is freed and counted down.
Harvest(r) ==
  /\ tpc \in {"run", "doio"}
  /\ r \in inflight \ device
  /\ inflight' = inflight \ {r}
  /\ inflight_count' = inflight_count - 1
  /\ Reply(r)
  /\ UNCHANGED <<libVars, open_count, taskVars, shutdown_exit_mask, held,
                 dma, sigVars, queue, doio, device, mgrVars, beginVars,
                 opened, sent, load, leaveVars>>

\* Every occupied slot is replied IOERR_ABORTED and cleared; the request stays
\* in the ring and in the count.
SlotsForgotten == UNCHANGED replies
SlotsAborted == ReplyAll(inflight)

DrainSlots ==
  /\ tpc = "slots"
  /\ SlotsAborted
  /\ inflight' = {}
  /\ tpc' = "messages"
  /\ UNCHANGED <<libVars, open_count, task, io_port, io_wait_task,
                 task_shutdown, shutdown_exit_mask, held, dma, sigVars,
                 inflight_count, queue, doio, device, mgrVars, beginVars,
                 opened, sent, load, leaveVars>>

\* So is every message still at the port.
DrainMessages ==
  /\ tpc = "messages"
  /\ IF queue # <<>>
     THEN Reply(Head(queue)) /\ queue' = Tail(queue) /\ UNCHANGED tpc
     ELSE tpc' = "held" /\ UNCHANGED <<queue, replies>>
  /\ UNCHANGED <<libVars, open_count, task, io_port, io_wait_task,
                 task_shutdown, shutdown_exit_mask, held, dma, sigVars,
                 inflight, inflight_count, doio, device, mgrVars, beginVars,
                 opened, sent, load, leaveVars>>

DrainHeld ==
  /\ tpc = "held"
  /\ Reply_Held_Async_Reqs
  /\ tpc' = "unregister"
  /\ UNCHANGED <<libVars, open_count, task, io_port, io_wait_task,
                 task_shutdown, shutdown_exit_mask, dma, sigVars, ioVars,
                 mgrVars, beginVars, opened, sent, load, leaveVars>>

\* The ISR forgets the task; then port and mutex go.
Unregister ==
  /\ tpc = "unregister"
  /\ io_wait_task' = FALSE
  /\ io_port' = FALSE
  /\ tpc' = "clear"
  /\ UNCHANGED <<libVars, open_count, task, task_shutdown,
                 shutdown_exit_mask, held, dma, sigVars, ioVars, mgrVars,
                 beginVars, opened, sent, replies, load, leaveVars>>

\* The signal's receiver and mask are captured; then unit->task = NULL, the last
\* access to the unit.  The task itself still has a Signal and its return to
\* execute.  Bound: one such task at a time.
ClearTask ==
  /\ tpc = "clear"
  /\ leaving = "no"
  /\ task' = FALSE
  /\ exit_task' = mclient
  /\ leaving' = IF shutdown_exit_mask THEN "bit" ELSE "break"
  /\ tpc' = "none"
  /\ UNCHANGED <<libVars, open_count, io_port, io_wait_task, task_shutdown,
                 shutdown_exit_mask, held, dma, sigVars, ioVars, mgrVars,
                 beginVars, opened, sent, replies, load, mbreak>>

\* Signal(exit_task, exit_mask ? exit_mask : SIGBREAKF_CTRL_C)
ExitSilently == UNCHANGED <<exited, mbreak>>
ExitSignalled ==
  IF leaving = "bit" THEN exited' = TRUE /\ UNCHANGED mbreak
                     ELSE mbreak' = mbreak \cup {exit_task} /\ UNCHANGED exited

NotifyExit ==
  /\ leaving \in {"bit", "break"}
  /\ ExitSignalled
  /\ leaving' = "return"
  /\ UNCHANGED <<libVars, open_count, taskVars, shutdown_exit_mask, held, dma,
                 ready, ctrl_c, ioVars, mgrVars, beginVars, opened, sent,
                 replies, load, exit_task>>

\* The task leaves UnitTask_Entry, and the driver's code.
TaskReturns ==
  /\ leaving = "return"
  /\ leaving' = "no" /\ exit_task' = NULL
  /\ UNCHANGED <<libVars, open_count, taskVars, shutdown_exit_mask, held, dma,
                 sigVars, ioVars, mgrVars, beginVars, opened, sent, replies,
                 load, mbreak>>

-----------------------------------------------------------------------------
\* The device (external) is done with a request.
DeviceDone(r) ==
  /\ r \in device
  /\ device' = device \ {r}
  /\ UNCHANGED <<libVars, open_count, taskVars, shutdown_exit_mask, held,
                 dma, sigVars, inflight, inflight_count, queue, doio,
                 mgrVars, beginVars, opened, sent, replies, load, leaveVars>>

Manager ==
  \/ CreateTask \/ NoTask \/ TaskReady \/ Preallocate \/ OpenReturns
  \/ Shutdown \/ BreakTask \/ TaskExited \/ SleepForExit \/ WokenByBreak
  \/ FreeDma \/ CloseReturns \/ ExpungeReturns

Task ==
  \/ TaskPort \/ TaskMutex \/ TaskSignal \/ TaskUndo
  \/ Wake \/ RoundEnds
  \/ Dispatch \/ DoIOReturns \/ (\E r \in Io : Harvest(r))
  \/ DrainSlots \/ DrainMessages \/ DrainHeld \/ Unregister \/ ClearTask

Leave == NotifyExit \/ TaskReturns

InBeginIO(c) == StoreHold(c) \/ ClearHold(c)

Next ==
  \/ \E c \in Clients : Open(c) \/ Close(c) \/ BeginRemove(c) \/ InBeginIO(c)
  \/ \E r \in Requests : BeginIO(r) \/ BeginHold(r)
  \/ Expunge
  \/ Manager
  \/ Task
  \/ Leave
  \/ \E r \in Io : DeviceDone(r)

Spec == Init /\ [][Next]_vars

\* Tasks that can run do, and the device answers.  Nobody has to open, close or
\* send anything.
Fairness ==
  /\ WF_vars(Manager)
  /\ WF_vars(Task)
  /\ \A c \in Clients : WF_vars(InBeginIO(c))
  /\ WF_vars(Leave)
  /\ \A r \in Io : WF_vars(DeviceDone(r))

FairSpec == Spec /\ Fairness

-----------------------------------------------------------------------------
(* Properties *)

Queued == {queue[i] : i \in DOMAIN queue}

\* Who will still reply to r.
Keepers(r) ==
  (IF r \in Queued THEN {"port"} ELSE {})
  \cup (IF r \in inflight THEN {"slot"} ELSE {})
  \cup (IF r = doio THEN {"doio"} ELSE {})
  \cup {f \in Fields : held[f] = r}
  \cup {c \in Clients : creq[c] = r}

\* A start that fails for want of a signal bit tells the parent before it takes
\* its port back (unit_task.c:349-359); what the parent then does with the unit
\* is lost.  The properties that need a sound start leave that case out.
SoundStarts == ~load.signalsRunOut

\* "Silent overwrite would orphan the prior IORequest" (BeginIO.c:52): a request
\* that has not been replied is in the hands of exactly one part of the driver
\* that will reply it, through starts, shutdowns, drains and replacements, and
\* nobody gets the same request back twice.
NoOrphan ==
  /\ SoundStarts =>
       \A r \in sent : replies[r] = 0 => Cardinality(Keepers(r)) = 1
  /\ \A r \in Requests : replies[r] <= 1

\* "Port is ready, it's safe to PutMsg to us now" (unit_task.c:364): as long as
\* somebody has the unit open, its task runs, registered with the ISR, behind
\* an open port, with its buffers allocated.
OpenMeansRunning ==
  SoundStarts /\ mpc = "idle" /\ opened # {} =>
    tpc \in {"wait", "run", "doio"} /\ task /\ io_port /\ io_wait_task /\ dma

\* Close.c:52, Expunge.c:16, unit_task.c:606: after the last close, a failed open
\* or an expunge no task will touch the unit again, its port, ISR registration
\* and buffers are gone, and no signal of a handshake is left pending for the
\* next one to take for its own.  An expunged driver has no opener and no buffer
\* at the device.  The old task may still have its Signal and its return ahead
\* (leaving): nothing in the code waits for those.
ClosedMeansStopped ==
  /\ SoundStarts /\ mpc = "idle" /\ open_count = 0 =>
       /\ tpc = "none" /\ ~task /\ ~io_port /\ ~io_wait_task /\ ~dma
       /\ ~ready /\ ~exited
       /\ queue = <<>> /\ inflight = {} /\ HeldNow = {}
  /\ expunged => opened = {} /\ lib_OpenCnt = 0 /\ tpc = "none" /\ device = {}

\* "The descriptor still points at LIVE memory" (virtio_scsi_io.c:588): the
\* buffers of a unit are not freed while the device may write to them, if clients
\* wait for their I/O before they close and no DoIO gives up on the device (the
\* request it gives up is replied, so its sender may close, and still in the ring).
DeviceBuffersLive ==
  load.orderly /\ ~load.doioGivesUp /\ device # {} => dma

\* Every Open, Close and Expunge returns: neither handshake can hang, also when
\* the caller sleeps for CTRL_C, one is left over from an earlier shutdown, and
\* unit->task is cleared between its look and its Wait (unit_task.c:596).
ManagerReturns == SoundStarts /\ mpc # "idle" ~> mpc = "idle"

\* Every queued request is replied, also when its sender closes the unit, or
\* the driver goes, meanwhile.
EveryIoReplied == \A r \in Io : SoundStarts /\ r \in sent ~> replies[r] > 0
=============================================================================
