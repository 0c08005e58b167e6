------------------------- MODULE UnitLifecycleProofs -------------------------
(***************************************************************************)
(* Proofs about UnitLifecycle, for any clients, requests and circumstances.*)
(*                                                                         *)
(* The control invariant ties the three programs of the module together:   *)
(* where the unit task stands decides which of task, io_port and           *)
(* io_wait_task are set; where the manager stands and open_count decide    *)
(* whether there is a task at all and whether it runs; the signals of the  *)
(* two handshakes are pending only while somebody waits for them.  On top  *)
(* of it, a request of the unit task is in one place until it is replied,  *)
(* and so is a held request if its field belongs to one client.            *)
(***************************************************************************)
EXTENDS UnitLifecycle, FiniteSetTheorems, TLAPS

-----------------------------------------------------------------------------
(* Control: the inductive invariant *)

\* The stations of UnitTask_Entry.
Starting == {"port", "mutex", "signal"}
Running == {"wait", "run", "doio"}
Draining == {"slots", "messages", "held", "unregister", "clear"}

\* What is published of the task, and who can be with it, at each station.
TaskAt ==
  /\ task <=> tpc \in {"signal", "undo"} \cup Running \cup Draining
  /\ io_port
     <=> tpc \in {"mutex", "signal", "undo", "slots", "messages", "held", "unregister"}
                \cup Running
  /\ io_wait_task
     <=> tpc \in {"slots", "messages", "held", "unregister"} \cup Running
  /\ tpc = "undo" => ~SoundStarts
  /\ tpc = "doio" <=> doio # NULL
  /\ inflight # {} => tpc \in {"slots"} \cup Running
  /\ queue # <<>> => tpc \in {"undo", "slots", "messages"} \cup Running
  /\ SoundStarts /\ (\E f \in Fields : held[f] # NULL) =>
       tpc \in {"slots", "messages", "held"} \cup Running

\* Points of Open, Close and Expunge at which there is no task ...
Stopped ==
  \/ mpc \in {"create", "free", "expunge"}
  \/ open_count = 0 /\ (mpc = "idle" \/ (mpc = "return" /\ mop = "close"))

\* ... and at which it runs.
Started ==
  \/ open_count > 0 \/ mpc = "dma"
  \/ mpc = "return" /\ mop = "open"
  \/ mpc = "shutdown" /\ mop # "expunge"

ManagerAt ==
  /\ mpc \in {"create", "ready", "dma"} => mop = "open"
  /\ mpc \in {"create", "ready", "dma", "shutdown", "break", "exit", "sleep", "free",
              "expunge"}
     => open_count = 0
  /\ mpc = "expunge" => mop = "expunge"
  /\ mop = "expunge" /\ mpc # "idle" =>
       mpc \in {"shutdown", "expunge"} /\ tpc = "none" /\ device = {}
  /\ Stopped => tpc = "none"
  /\ SoundStarts /\ Started => tpc \in Running

\* The start and shutdown handshakes: which signals may be pending, when.
Handshake ==
  /\ tpc \in Starting => mpc = "ready" /\ ~ready
  /\ ready => mpc = "ready"
  /\ tpc \in Draining => mpc \in {"break", "exit", "sleep"}
  /\ tpc \in {"signal", "undo"} \cup Running /\ task_shutdown
     => mpc \in {"break", "exit", "sleep"}
  /\ tpc \in Starting \cup {"undo"} \cup Running /\ ctrl_c
     => mpc \in {"exit", "sleep"}
  /\ shutdown_exit_mask => mpc \in {"break", "exit"}
  /\ exited => shutdown_exit_mask /\ tpc = "none" /\ leaving # "bit"
  /\ leaving = "bit" => shutdown_exit_mask /\ tpc = "none"
  /\ leaving # "no" => exit_task \in Clients

\* The buffers are there from preallocate_unit_dma to free_unit_dma.
DmaAt ==
  /\ open_count > 0 \/ (mpc = "return" /\ mop = "open") => dma
  /\ SoundStarts /\ dma =>
       \/ open_count > 0 \/ (mpc = "return" /\ mop = "open")
       \/ mop = "close" /\ mpc \in {"shutdown", "break", "exit", "sleep", "free"}

\* The reference counts; lib_OpenCnt also counts the Open or Close in progress.
Counts ==
  /\ open_count = Cardinality(opened)
  /\ lib_OpenCnt = open_count + (IF mpc # "idle" /\ mop # "expunge" THEN 1 ELSE 0)
  /\ mpc # "idle" /\ mop = "open" => mclient \in Clients \ opened
  /\ mpc # "idle" /\ mop = "close" => mclient \in Clients
  /\ inflight_count >= Cardinality(inflight)
  /\ expunged => mpc = "idle" /\ lib_OpenCnt = 0 /\ device = {}

\* A client inside BeginIO has the unit open.
ClientAt ==
  \A c \in Clients : /\ cpc[c] # "ready" => c \in opened
                     /\ cpc[c] = "hold" <=> creq[c] # NULL
                     /\ cpc[c] = "remove" => c \in Removers

ControlInv ==
  LTypeOK /\ TaskAt /\ ManagerAt /\ Handshake /\ DmaAt /\ Counts /\ ClientAt

USE DEF libVars, taskVars, sigVars, leaveVars, ioVars, mgrVars,
        beginVars, SoundStarts, Starting, Running, Draining

-----------------------------------------------------------------------------
(* Helpers *)

\* open_count is positive exactly while some client has the unit open
\* (Open.c, Close.c).
LEMMA Opened ==
  ASSUME ControlInv
  PROVE  IsFiniteSet(opened) /\ (open_count > 0 <=> opened # {})
<1>1. IsFiniteSet(opened)
  BY LifecycleAssumption, FS_Subset DEF ControlInv, LTypeOK
<1> QED
  BY <1>1, FS_EmptySet, FS_CardinalityType DEF ControlInv, LTypeOK, Counts

\* The occupied slots are finitely many, and inflight_count covers them.
LEMMA Slots ==
  ASSUME ControlInv
  PROVE  /\ IsFiniteSet(inflight) /\ Cardinality(inflight) \in Nat
         /\ inflight # {} => inflight_count > 0
<1>1. IsFiniteSet(Io)
  BY LifecycleAssumption, FS_Subset DEF Requests
<1>2. IsFiniteSet(inflight)
  BY <1>1, FS_Subset DEF ControlInv, LTypeOK
<1> QED
  BY <1>2, FS_EmptySet, FS_CardinalityType DEF ControlInv, LTypeOK, Counts

\* A submit adds at most one to the number of occupied slots.
LEMMA SubmitCount ==
  ASSUME ControlInv, NEW r
  PROVE  /\ Cardinality(inflight \cup {r}) \in Nat
         /\ Cardinality(inflight \cup {r}) <= Cardinality(inflight) + 1
<1>1. CASE r \in inflight
  <2>1. inflight \cup {r} = inflight
    BY <1>1
  <2>2. Cardinality(inflight \cup {r}) = Cardinality(inflight)
    BY <2>1, Zenon
  <2> QED
    BY <2>2, Slots
<1>2. CASE r \notin inflight
  <2>1. Cardinality(inflight \cup {r}) = Cardinality(inflight) + 1
    BY <1>2, Slots, FS_AddElement
  <2> QED
    BY <2>1, Slots
<1> QED
  BY <1>1, <1>2

\* PutMsg and GetMsg at io_port keep a sequence of requests.
LEMMA QueueTypes ==
  ASSUME NEW q \in Seq(Io)
  PROVE  /\ \A r \in Io : Append(q, r) \in Seq(Io)
         /\ q # <<>> => Head(q) \in Io /\ Tail(q) \in Seq(Io)
OBVIOUS

AfterIs ==
  \/ mop = "open" /\ OpenFails
  \/ mop = "close" /\ mpc' = "return" /\ UNCHANGED <<lib_OpenCnt, mclient>>
  \/ mop = "expunge" /\ mpc' = "expunge" /\ UNCHANGED <<lib_OpenCnt, mclient>>

\* Where UnitTask_Shutdown returns to: a failing Open, the last Close, or
\* Expunge.
LEMMA AfterShutdownIs == ASSUME LTypeOK, AfterShutdown PROVE AfterIs
BY DEF AfterIs, LTypeOK, AfterShutdown

-----------------------------------------------------------------------------
(* Control: one lemma per action *)

\* Open only raises lib_OpenCnt and takes the manager's turn; a second opener
\* goes straight to its return.
LEMMA CtlOpen ==
  ASSUME ControlInv, NEW c \in Clients, Open(c)
  PROVE  ControlInv'
<1>1. LTypeOK'
  BY LifecycleAssumption DEF ControlInv, LTypeOK, Requests, Open, MgrIdle,
    OpenCounted
<1>2. ManagerAt'
  BY DEF ControlInv, ManagerAt, Stopped, Started, LTypeOK, TaskAt,
    Handshake, Open, MgrIdle, OpenCounted
<1>3. Handshake'
  BY DEF ControlInv, Handshake, LTypeOK, TaskAt, ManagerAt, Stopped,
    Started, Open, MgrIdle, OpenCounted
<1>4. DmaAt'
  BY DEF ControlInv, DmaAt, LTypeOK, ManagerAt, Stopped, Started, Open,
    MgrIdle, OpenCounted
<1>5. Counts'
  BY DEF ControlInv, Counts, LTypeOK, ManagerAt, Stopped, Started, Open,
    MgrIdle, OpenCounted
<1>6. TaskAt' /\ ClientAt'
  BY DEF ControlInv, TaskAt, ClientAt, Open, MgrIdle, OpenCounted
<1> QED
  BY <1>1, <1>2, <1>3, <1>4, <1>5, <1>6 DEF ControlInv

\* Close takes one opener away; the last one's close starts the shutdown of a
\* task that is still running.
LEMMA CtlClose ==
  ASSUME ControlInv, NEW c \in Clients, Close(c)
  PROVE  ControlInv'
<1>1. open_count > 0
  BY Opened DEF ControlInv, ClientAt, Close, MgrIdle, LastCloser
<1>2. Cardinality(opened') = Cardinality(opened) - 1
  BY Opened, FS_RemoveElement, FS_CardinalityType DEF Close
<1>3. LTypeOK'
  BY LifecycleAssumption, <1>1, <1>2 DEF ControlInv, LTypeOK, Requests,
    Close, MgrIdle, LastCloser
<1>4. ManagerAt'
  BY <1>1, <1>2 DEF ControlInv, ManagerAt, Stopped, Started, LTypeOK,
    TaskAt, Handshake, Close, MgrIdle, LastCloser
<1>5. Handshake'
  BY <1>1, <1>2 DEF ControlInv, Handshake, LTypeOK, TaskAt, ManagerAt,
    Stopped, Started, Close, MgrIdle, LastCloser
<1>6. DmaAt'
  BY <1>1, <1>2 DEF ControlInv, DmaAt, LTypeOK, ManagerAt, Stopped, Started,
    Close, MgrIdle, LastCloser
<1>7. Counts'
  BY <1>1, <1>2 DEF ControlInv, Counts, LTypeOK, ManagerAt, Stopped,
    Started, Close, MgrIdle, LastCloser
<1>8. ClientAt'
  BY <1>1, <1>2 DEF ControlInv, ClientAt, LTypeOK, Close, MgrIdle,
    LastCloser
<1>9. TaskAt'
  BY DEF ControlInv, TaskAt, Close, MgrIdle, LastCloser
<1> QED
  BY <1>3, <1>4, <1>5, <1>6, <1>7, <1>8, <1>9 DEF ControlInv

\* TD_REMCHANGEINT replies the held request and leaves task and counts alone.
LEMMA CtlBeginRemove ==
  ASSUME ControlInv, NEW c \in Clients, BeginRemove(c)
  PROVE  ControlInv'
<1>1. LTypeOK'
  BY LifecycleAssumption DEF ControlInv, LTypeOK, Requests, BeginRemove,
    Reply, ReplyAll
<1>2. ClientAt'
  BY DEF ControlInv, ClientAt, LTypeOK, BeginRemove, Reply, ReplyAll
<1>3. TaskAt' /\ ManagerAt' /\ Handshake' /\ DmaAt' /\ Counts'
  BY DEF ControlInv, TaskAt, ManagerAt, Stopped, Started, Handshake, DmaAt,
    Counts, BeginRemove, Reply, ReplyAll
<1> QED
  BY <1>1, <1>2, <1>3 DEF ControlInv

\* A request is stored only while its sender has the unit open, so the task
\* is there to drain it.
LEMMA CtlStoreHold ==
  ASSUME ControlInv, NEW c \in Clients, StoreHold(c)
  PROVE  ControlInv'
<1>1. open_count > 0
  BY Opened DEF ControlInv, ClientAt, StoreHold
<1>2. SoundStarts => tpc \in Running
  BY <1>1 DEF ControlInv, ManagerAt, Started
<1>3. LTypeOK'
  <2>1. creq[c] \in Holds \cup {NULL}
    BY DEF ControlInv, LTypeOK
  <2>2. held' \in [Fields -> Holds \cup {NULL}]
    BY <2>1 DEF ControlInv, LTypeOK, StoreHold
  <2>3. /\ cpc' \in [Clients -> {"ready", "hold", "remove"}]
        /\ creq' \in [Clients -> Holds \cup {NULL}]
    BY DEF ControlInv, LTypeOK, StoreHold
  <2> QED
    BY <2>2, <2>3 DEF ControlInv, LTypeOK, StoreHold
<1>4. TaskAt'
  BY <1>1, <1>2 DEF ControlInv, TaskAt, LTypeOK, Handshake, ManagerAt,
    StoreHold
<1>5. ClientAt'
  BY <1>1, <1>2 DEF ControlInv, ClientAt, LTypeOK, Fields, StoreHold
<1>6. ManagerAt' /\ Handshake' /\ DmaAt' /\ Counts'
  BY DEF ControlInv, ManagerAt, Stopped, Started, Handshake, DmaAt, Counts,
    StoreHold
<1> QED
  BY <1>3, <1>4, <1>5, <1>6 DEF ControlInv

\* The second half of TD_REMCHANGEINT empties a field and frees its client.
LEMMA CtlClearHold ==
  ASSUME ControlInv, NEW c \in Clients, ClearHold(c)
  PROVE  ControlInv'
<1>1. LTypeOK'
  <2>1. held' \in [Fields -> Holds \cup {NULL}]
    BY DEF ControlInv, LTypeOK, ClearHold
  <2>2. cpc' \in [Clients -> {"ready", "hold", "remove"}]
    BY DEF ControlInv, LTypeOK, ClearHold
  <2> QED
    BY <2>1, <2>2 DEF ControlInv, LTypeOK, ClearHold
<1>2. TaskAt'
  BY DEF ControlInv, TaskAt, LTypeOK, Handshake, ClearHold
<1>3. ClientAt'
  BY DEF ControlInv, ClientAt, LTypeOK, ClearHold
<1>4. ManagerAt' /\ Handshake' /\ DmaAt' /\ Counts'
  BY DEF ControlInv, ManagerAt, Stopped, Started, Handshake, DmaAt, Counts,
    ClearHold
<1> QED
  BY <1>1, <1>2, <1>3, <1>4 DEF ControlInv

\* PutMsg reaches a port only while the sender has the unit open: not before
\* the task is ready, not in its drain.
LEMMA CtlBeginIO ==
  ASSUME ControlInv, NEW r \in Requests, BeginIO(r)
  PROVE  ControlInv'
<1>1. open_count > 0
  BY Opened DEF BeginIO, Reply, ReplyAll, Begin
<1>2. queue' \in Seq(Io)
  BY QueueTypes DEF ControlInv, LTypeOK, BeginIO
<1>3. LTypeOK'
  BY LifecycleAssumption, <1>1, <1>2 DEF ControlInv, LTypeOK, Requests,
    BeginIO, Reply, ReplyAll, Begin
<1>4. TaskAt'
  BY <1>1, <1>2 DEF ControlInv, TaskAt, LTypeOK, Handshake, ManagerAt,
    Stopped, Started, BeginIO, Reply, ReplyAll, Begin
<1>5. ManagerAt' /\ Handshake' /\ DmaAt' /\ Counts' /\ ClientAt'
  BY DEF ControlInv, ManagerAt, Stopped, Started, Handshake, DmaAt, Counts,
    ClientAt, BeginIO, Reply, ReplyAll, Begin
<1> QED
  BY <1>3, <1>4, <1>5 DEF ControlInv

\* TD_ADDCHANGEINT and TD_REMOVE reply the request held before; the sender
\* has the unit open.
LEMMA CtlBeginHold ==
  ASSUME ControlInv, NEW r \in Requests, BeginHold(r)
  PROVE  ControlInv'
<1>1. /\ cpc'[ClientOf[r]] = "hold" /\ creq'[ClientOf[r]] = r
         /\ ClientOf[r] \in opened
      /\ \A c \in Clients \ {ClientOf[r]} : cpc'[c] = cpc[c]
         /\ creq'[c] = creq[c]
  BY DEF ControlInv, LTypeOK, BeginHold, Begin
<1>2. r \in Holds /\ r # NULL /\ opened' = opened
  BY LifecycleAssumption DEF BeginHold, Requests
<1>3. LTypeOK'
  BY LifecycleAssumption, <1>1, <1>2 DEF ControlInv, LTypeOK, Requests,
    BeginHold, ReplyAll, Begin
<1>4. ClientAt'
  BY <1>1, <1>2 DEF ControlInv, ClientAt
<1>5. TaskAt' /\ ManagerAt' /\ Handshake' /\ DmaAt' /\ Counts'
  BY DEF ControlInv, TaskAt, ManagerAt, Stopped, Started, Handshake, DmaAt,
    Counts, BeginHold, ReplyAll, Begin
<1> QED
  BY <1>3, <1>4, <1>5 DEF ControlInv

\* Expunge is put off while lib_OpenCnt counts an opener; otherwise no task
\* is there and the reset empties the device.
LEMMA CtlExpunge == ASSUME ControlInv, Expunge PROVE ControlInv'
<1>1. LTypeOK'
  BY ZenonT(40), LifecycleAssumption DEF ControlInv, LTypeOK, Requests, Expunge,
    MgrIdle, ExpungeStarts, InUse
<1>2. ManagerAt'
  BY DEF ControlInv, ManagerAt, Stopped, Started, LTypeOK, TaskAt,
    Handshake, Counts, Expunge, MgrIdle, ExpungeStarts, InUse
<1>3. Handshake'
  BY DEF ControlInv, Handshake, LTypeOK, TaskAt, ManagerAt, Stopped,
    Started, Expunge, MgrIdle, ExpungeStarts, InUse
<1>4. DmaAt'
  BY DEF ControlInv, DmaAt, LTypeOK, ManagerAt, Stopped, Started, Expunge,
    MgrIdle, ExpungeStarts, InUse
<1>5. Counts'
  BY DEF ControlInv, Counts, LTypeOK, ManagerAt, Stopped, Started, Expunge,
    MgrIdle, ExpungeStarts, InUse
<1>6. TaskAt' /\ ClientAt'
  BY DEF ControlInv, TaskAt, ClientAt, Expunge, MgrIdle, ExpungeStarts,
    InUse
<1> QED
  BY <1>1, <1>2, <1>3, <1>4, <1>5, <1>6 DEF ControlInv

\* CreateTaskTags starts the only task: none is left from an earlier open.
LEMMA CtlCreateTask == ASSUME ControlInv, CreateTask PROVE ControlInv'
<1>1. LTypeOK'
  BY LifecycleAssumption DEF ControlInv, LTypeOK, Requests, CreateTask
<1>2. TaskAt'
  BY DEF ControlInv, TaskAt, LTypeOK, Handshake, ManagerAt, Stopped,
    CreateTask
<1>3. ManagerAt'
  BY DEF ControlInv, ManagerAt, Stopped, Started, LTypeOK, TaskAt,
    Handshake, CreateTask
<1>4. Handshake'
  BY DEF ControlInv, Handshake, LTypeOK, TaskAt, ManagerAt, Stopped,
    Started, CreateTask
<1>5. DmaAt'
  BY DEF ControlInv, DmaAt, LTypeOK, ManagerAt, Stopped, Started, CreateTask
<1>6. Counts'
  BY DEF ControlInv, Counts, LTypeOK, ManagerAt, Stopped, Started,
    CreateTask
<1>7. ClientAt'
  BY DEF ControlInv, ClientAt, CreateTask
<1> QED
  BY <1>1, <1>2, <1>3, <1>4, <1>5, <1>6, <1>7 DEF ControlInv

\* A failed CreateTaskTags takes the raised lib_OpenCnt back.
LEMMA CtlNoTask == ASSUME ControlInv, NoTask PROVE ControlInv'
<1>1. lib_OpenCnt > 0
  BY DEF ControlInv, LTypeOK, Counts, ManagerAt, NoTask, OpenFails
<1>2. LTypeOK'
  BY LifecycleAssumption, <1>1 DEF ControlInv, LTypeOK, Requests, NoTask,
    OpenFails
<1>3. ManagerAt'
  BY <1>1 DEF ControlInv, ManagerAt, Stopped, Started, LTypeOK, TaskAt,
    Handshake, NoTask, OpenFails
<1>4. Handshake'
  BY <1>1 DEF ControlInv, Handshake, LTypeOK, TaskAt, ManagerAt, Stopped,
    Started, NoTask, OpenFails
<1>5. DmaAt'
  BY <1>1 DEF ControlInv, DmaAt, LTypeOK, ManagerAt, Stopped, Started,
    NoTask, OpenFails
<1>6. Counts'
  BY <1>1 DEF ControlInv, Counts, LTypeOK, ManagerAt, Stopped, Started,
    NoTask, OpenFails
<1>7. TaskAt' /\ ClientAt'
  BY DEF ControlInv, TaskAt, ClientAt, NoTask, OpenFails
<1> QED
  BY <1>2, <1>3, <1>4, <1>5, <1>6, <1>7 DEF ControlInv

\* The ready signal comes from a task whose start is over, so the port test
\* sees the outcome.
LEMMA CtlTaskReady == ASSUME ControlInv, TaskReady PROVE ControlInv'
<1>1. lib_OpenCnt > 0
  BY DEF ControlInv, LTypeOK, Counts, ManagerAt, TaskReady, OpenFails,
    PortAllocated
<1>2. lib_OpenCnt' \in Nat /\ mclient' \in Clients \cup {NULL}
        /\ mpc' \in {"dma", "idle"}
  BY <1>1 DEF ControlInv, LTypeOK, TaskReady, OpenFails, PortAllocated
<1>3. LTypeOK'
  <2>1. ready' \in BOOLEAN /\ mop' = mop
    BY DEF TaskReady
  <2> QED
    BY <1>2, <2>1 DEF ControlInv, LTypeOK, TaskReady
<1>4. ManagerAt'
  BY <1>1, <1>2 DEF ControlInv, ManagerAt, Stopped, Started, LTypeOK,
    TaskAt, Handshake, TaskReady, OpenFails, PortAllocated
<1>5. Handshake'
  BY <1>1, <1>2 DEF ControlInv, Handshake, LTypeOK, TaskAt, ManagerAt,
    Stopped, Started, TaskReady, OpenFails, PortAllocated
<1>6. DmaAt'
  BY <1>1, <1>2 DEF ControlInv, DmaAt, LTypeOK, ManagerAt, Stopped, Started,
    TaskReady, OpenFails, PortAllocated
<1>7. Counts'
  BY <1>1, <1>2 DEF ControlInv, Counts, LTypeOK, ManagerAt, Stopped,
    Started, TaskReady, OpenFails, PortAllocated
<1>8. ClientAt'
  BY <1>1, <1>2 DEF ControlInv, ClientAt, LTypeOK, TaskReady, OpenFails,
    PortAllocated
<1>9. TaskAt'
  BY DEF ControlInv, TaskAt, TaskReady, OpenFails, PortAllocated
<1> QED
  BY <1>3, <1>4, <1>5, <1>6, <1>7, <1>8, <1>9 DEF ControlInv

\* preallocate_unit_dma fills the buffers of a running task or hands it to
\* the shutdown.
LEMMA CtlPreallocate == ASSUME ControlInv, Preallocate PROVE ControlInv'
<1>1. LTypeOK'
  <2>1. dma' \in BOOLEAN /\ mpc' \in {"return", "shutdown"}
    BY DEF ControlInv, LTypeOK, Preallocate
  <2> QED
    BY <2>1 DEF ControlInv, LTypeOK, Preallocate
<1>2. ManagerAt'
  BY DEF ControlInv, ManagerAt, Stopped, Started, LTypeOK, TaskAt,
    Handshake, Preallocate
<1>3. Handshake'
  BY DEF ControlInv, Handshake, LTypeOK, TaskAt, ManagerAt, Stopped,
    Started, Preallocate
<1>4. DmaAt'
  BY DEF ControlInv, DmaAt, LTypeOK, ManagerAt, Stopped, Started,
    Preallocate
<1>5. Counts'
  BY DEF ControlInv, Counts, LTypeOK, ManagerAt, Stopped, Started,
    Preallocate
<1>6. TaskAt' /\ ClientAt'
  BY DEF ControlInv, TaskAt, ClientAt, Preallocate
<1> QED
  BY <1>1, <1>2, <1>3, <1>4, <1>5, <1>6 DEF ControlInv

\* Open counts its client once, with the task running and its buffers
\* allocated.
LEMMA CtlOpenReturns == ASSUME ControlInv, OpenReturns PROVE ControlInv'
<1>1. mclient \in Clients \ opened
  BY DEF ControlInv, Counts, OpenReturns
<1>2. Cardinality(opened') = Cardinality(opened) + 1
  BY <1>1, Opened, FS_AddElement DEF OpenReturns
<1>3. opened' \subseteq Clients /\ open_count' \in Nat
  BY <1>1 DEF ControlInv, LTypeOK, OpenReturns
<1>4. LTypeOK'
  BY LifecycleAssumption, <1>1, <1>2, <1>3 DEF ControlInv, LTypeOK,
    Requests, OpenReturns
<1>5. ManagerAt'
  BY <1>1, <1>2, <1>3 DEF ControlInv, ManagerAt, Stopped, Started, LTypeOK,
    TaskAt, Handshake, OpenReturns
<1>6. Handshake'
  BY <1>1, <1>2, <1>3 DEF ControlInv, Handshake, LTypeOK, TaskAt, ManagerAt,
    Stopped, Started, OpenReturns
<1>7. DmaAt'
  BY <1>1, <1>2, <1>3 DEF ControlInv, DmaAt, LTypeOK, ManagerAt, Stopped,
    Started, OpenReturns
<1>8. Counts'
  BY <1>1, <1>2, <1>3 DEF ControlInv, Counts, LTypeOK, ManagerAt, Stopped,
    Started, OpenReturns
<1>9. ClientAt'
  BY <1>1, <1>2, <1>3 DEF ControlInv, ClientAt, LTypeOK, OpenReturns
<1>10. TaskAt'
  BY DEF ControlInv, TaskAt, OpenReturns
<1> QED
  BY <1>4, <1>5, <1>6, <1>7, <1>8, <1>9, <1>10 DEF ControlInv

\* UnitTask_Shutdown without a task returns to its caller; with one it sets
\* the flag and the mask before it sends CTRL_C.
LEMMA CtlShutdown == ASSUME ControlInv, Shutdown PROVE ControlInv'
<1>1. mop # "expunge" => lib_OpenCnt > 0
  BY DEF ControlInv, LTypeOK, Counts, Shutdown, AfterShutdown, OpenFails
<1>2. IF task THEN mpc' = "break" /\ lib_OpenCnt' = lib_OpenCnt
        /\ mclient' = mclient ELSE AfterIs
  BY AfterShutdownIs DEF ControlInv, LTypeOK, Shutdown
<1>3. lib_OpenCnt' \in Nat /\ mclient' \in Clients \cup {NULL}
        /\ mpc' \in {"break", "idle", "return", "expunge"}
  BY <1>1, <1>2 DEF ControlInv, LTypeOK, AfterIs, OpenFails
<1>4. shutdown_exit_mask' \in BOOLEAN /\ task_shutdown' \in BOOLEAN
  BY DEF ControlInv, LTypeOK, Shutdown
<1>5. LTypeOK'
  BY LifecycleAssumption, <1>1, <1>2, <1>3, <1>4 DEF ControlInv, LTypeOK,
    Requests, Shutdown, AfterIs, OpenFails
<1>6. ManagerAt'
  BY <1>1, <1>2, <1>3, <1>4 DEF ControlInv, ManagerAt, Stopped, Started,
    LTypeOK, TaskAt, Handshake, Shutdown, AfterIs, OpenFails
<1>7. Handshake'
  BY <1>1, <1>2, <1>3, <1>4 DEF ControlInv, Handshake, LTypeOK, TaskAt,
    ManagerAt, Stopped, Started, Shutdown, AfterIs, OpenFails
<1>8. DmaAt'
  BY <1>1, <1>2, <1>3, <1>4 DEF ControlInv, DmaAt, LTypeOK, ManagerAt,
    Stopped, Started, TaskAt, Shutdown, AfterIs, OpenFails
<1>9. Counts'
  BY <1>1, <1>2, <1>3, <1>4 DEF ControlInv, Counts, LTypeOK, ManagerAt,
    Stopped, Started, Shutdown, AfterIs, OpenFails
<1>10. TaskAt' /\ ClientAt'
  BY DEF ControlInv, TaskAt, ClientAt, Shutdown, AfterShutdown, OpenFails
<1> QED
  BY <1>5, <1>6, <1>7, <1>8, <1>9, <1>10 DEF ControlInv

\* CTRL_C goes to a task that has not ended, or to nobody.
LEMMA CtlBreakTask == ASSUME ControlInv, BreakTask PROVE ControlInv'
<1>1. LTypeOK'
  BY LifecycleAssumption DEF ControlInv, LTypeOK, Requests, BreakTask
<1>2. ManagerAt'
  BY DEF ControlInv, ManagerAt, Stopped, Started, LTypeOK, TaskAt,
    Handshake, BreakTask
<1>3. Handshake'
  BY DEF ControlInv, Handshake, LTypeOK, TaskAt, ManagerAt, Stopped,
    Started, BreakTask
<1>4. DmaAt'
  BY DEF ControlInv, DmaAt, LTypeOK, ManagerAt, Stopped, Started, BreakTask
<1>5. Counts'
  BY DEF ControlInv, Counts, LTypeOK, ManagerAt, Stopped, Started, BreakTask
<1>6. TaskAt' /\ ClientAt'
  BY DEF ControlInv, TaskAt, ClientAt, BreakTask
<1> QED
  BY <1>1, <1>2, <1>3, <1>4, <1>5, <1>6 DEF ControlInv

\* The caller of UnitTask_Shutdown goes on only when the task is done with the
\* unit.
LEMMA CtlTaskExited == ASSUME ControlInv, TaskExited PROVE ControlInv'
<1>1. LTypeOK'
  <2>1. {exited', shutdown_exit_mask'} \subseteq BOOLEAN /\ mpc' = "free"
    BY DEF TaskExited
  <2> QED
    BY <2>1 DEF ControlInv, LTypeOK, TaskExited
<1>2. ManagerAt'
  BY DEF ControlInv, ManagerAt, Stopped, Started, LTypeOK, TaskAt,
    Handshake, TaskExited, ExitAwaited
<1>3. Handshake'
  BY DEF ControlInv, Handshake, LTypeOK, TaskAt, ManagerAt, Stopped,
    Started, TaskExited, ExitAwaited
<1>4. DmaAt'
  BY DEF ControlInv, DmaAt, LTypeOK, ManagerAt, Stopped, Started,
    TaskExited, ExitAwaited
<1>5. Counts'
  BY DEF ControlInv, Counts, LTypeOK, ManagerAt, Stopped, Started,
    TaskExited, ExitAwaited
<1>6. TaskAt' /\ ClientAt'
  BY DEF ControlInv, TaskAt, ClientAt, TaskExited, ExitAwaited
<1> QED
  BY <1>1, <1>2, <1>3, <1>4, <1>5, <1>6 DEF ControlInv

\* A caller without a signal bit sleeps while unit->task is set.
LEMMA CtlSleepForExit == ASSUME ControlInv, SleepForExit PROVE ControlInv'
<1>1. LTypeOK'
  BY LifecycleAssumption DEF ControlInv, LTypeOK, Requests, SleepForExit
<1>2. ManagerAt'
  BY DEF ControlInv, ManagerAt, Stopped, Started, LTypeOK, TaskAt,
    Handshake, SleepForExit
<1>3. Handshake'
  BY DEF ControlInv, Handshake, LTypeOK, TaskAt, ManagerAt, Stopped,
    Started, SleepForExit
<1>4. TaskAt' /\ DmaAt' /\ Counts' /\ ClientAt'
  BY DEF ControlInv, TaskAt, DmaAt, Counts, ClientAt, SleepForExit
<1> QED
  BY <1>1, <1>2, <1>3, <1>4 DEF ControlInv

\* A CTRL_C, its own or an old one, makes it look again.
LEMMA CtlWokenByBreak == ASSUME ControlInv, WokenByBreak PROVE ControlInv'
<1>1. LTypeOK'
  BY LifecycleAssumption DEF ControlInv, LTypeOK, Requests, WokenByBreak
<1>2. ManagerAt'
  BY DEF ControlInv, ManagerAt, Stopped, Started, LTypeOK, TaskAt,
    Handshake, WokenByBreak
<1>3. Handshake'
  BY DEF ControlInv, Handshake, LTypeOK, TaskAt, ManagerAt, Stopped,
    Started, WokenByBreak
<1>4. TaskAt' /\ DmaAt' /\ Counts' /\ ClientAt'
  BY DEF ControlInv, TaskAt, DmaAt, Counts, ClientAt, WokenByBreak
<1> QED
  BY <1>1, <1>2, <1>3, <1>4 DEF ControlInv

\* free_unit_dma runs with no task left and nobody holding the unit open.
LEMMA CtlFreeDma == ASSUME ControlInv, FreeDma PROVE ControlInv'
<1>1. mop # "expunge" => lib_OpenCnt > 0
  BY DEF ControlInv, LTypeOK, Counts, FreeDma, AfterShutdown, OpenFails
<1>2. AfterIs
  BY AfterShutdownIs DEF ControlInv, FreeDma
<1>3. lib_OpenCnt' \in Nat /\ mclient' \in Clients \cup {NULL}
        /\ mpc' \in {"idle", "return", "expunge"}
  BY <1>1, <1>2 DEF ControlInv, LTypeOK, AfterIs, OpenFails
<1>4. LTypeOK'
  <2>1. dma' \in BOOLEAN /\ mop' = mop
    BY DEF FreeDma
  <2> QED
    BY <1>3, <2>1 DEF ControlInv, LTypeOK, FreeDma
<1>5. ManagerAt'
  BY <1>1, <1>2, <1>3 DEF ControlInv, ManagerAt, Stopped, Started, LTypeOK,
    TaskAt, Handshake, FreeDma, AfterIs, OpenFails
<1>6. Handshake'
  BY <1>1, <1>2, <1>3 DEF ControlInv, Handshake, LTypeOK, TaskAt, ManagerAt,
    Stopped, Started, FreeDma, AfterIs, OpenFails
<1>7. DmaAt'
  BY <1>1, <1>2, <1>3 DEF ControlInv, DmaAt, LTypeOK, ManagerAt, Stopped,
    Started, FreeDma, AfterIs, OpenFails
<1>8. Counts'
  BY <1>1, <1>2, <1>3 DEF ControlInv, Counts, LTypeOK, ManagerAt, Stopped,
    Started, FreeDma, AfterIs, OpenFails
<1>9. TaskAt' /\ ClientAt'
  BY DEF ControlInv, TaskAt, ClientAt, FreeDma, AfterShutdown, OpenFails
<1> QED
  BY <1>4, <1>5, <1>6, <1>7, <1>8, <1>9 DEF ControlInv

\* Close lowers lib_OpenCnt last; a deferred expunge finds no task.
LEMMA CtlCloseReturns == ASSUME ControlInv, CloseReturns PROVE ControlInv'
<1>1. lib_OpenCnt > 0
  BY DEF ControlInv, LTypeOK, Counts, ManagerAt, CloseReturns, ExpungeStarts
<1>2. LTypeOK'
  BY LifecycleAssumption, <1>1 DEF ControlInv, LTypeOK, Requests,
    CloseReturns, ExpungeStarts
<1>3. ManagerAt'
  BY <1>1 DEF ControlInv, ManagerAt, Stopped, Started, LTypeOK, TaskAt,
    Handshake, Counts, CloseReturns, ExpungeStarts
<1>4. Handshake'
  BY <1>1 DEF ControlInv, Handshake, LTypeOK, TaskAt, ManagerAt, Stopped,
    Started, CloseReturns, ExpungeStarts
<1>5. DmaAt'
  BY <1>1 DEF ControlInv, DmaAt, LTypeOK, ManagerAt, Stopped, Started,
    CloseReturns, ExpungeStarts
<1>6. Counts'
  BY <1>1 DEF ControlInv, Counts, LTypeOK, ManagerAt, Stopped, Started,
    CloseReturns, ExpungeStarts
<1>7. TaskAt' /\ ClientAt'
  BY DEF ControlInv, TaskAt, ClientAt, CloseReturns, ExpungeStarts
<1> QED
  BY <1>2, <1>3, <1>4, <1>5, <1>6, <1>7 DEF ControlInv

\* The driver goes when nobody has it open and no task is left.
LEMMA CtlExpungeReturns == ASSUME ControlInv, ExpungeReturns PROVE ControlInv'
<1>1. LTypeOK'
  BY LifecycleAssumption DEF ControlInv, LTypeOK, Requests, ExpungeReturns,
    Reply_Held_Async_Reqs, ReplyAll, HeldNow
<1>2. TaskAt'
  BY DEF ControlInv, TaskAt, LTypeOK, Handshake, ExpungeReturns,
    Reply_Held_Async_Reqs, ReplyAll, HeldNow
<1>3. ManagerAt'
  BY DEF ControlInv, ManagerAt, Stopped, Started, LTypeOK, TaskAt,
    Handshake, ExpungeReturns, Reply_Held_Async_Reqs, ReplyAll, HeldNow
<1>4. Handshake'
  BY DEF ControlInv, Handshake, LTypeOK, TaskAt, ManagerAt, Stopped,
    Started, ExpungeReturns, Reply_Held_Async_Reqs, ReplyAll, HeldNow
<1>5. DmaAt'
  BY DEF ControlInv, DmaAt, LTypeOK, ManagerAt, Stopped, Started,
    ExpungeReturns, Reply_Held_Async_Reqs, ReplyAll, HeldNow
<1>6. Counts'
  BY DEF ControlInv, Counts, LTypeOK, ManagerAt, Stopped, Started,
    ExpungeReturns, Reply_Held_Async_Reqs, ReplyAll, HeldNow
<1>7. ClientAt'
  BY DEF ControlInv, ClientAt, ExpungeReturns, Reply_Held_Async_Reqs,
    ReplyAll, HeldNow
<1> QED
  BY <1>1, <1>2, <1>3, <1>4, <1>5, <1>6, <1>7 DEF ControlInv

\* The task allocates its port, or signals ready and ends without one.
LEMMA CtlTaskPort == ASSUME ControlInv, TaskPort PROVE ControlInv'
<1>1. LTypeOK'
  <2>1. {io_port', ready'} \subseteq BOOLEAN /\ tpc' \in {"mutex", "none"}
    BY DEF ControlInv, LTypeOK, TaskPort, GivesUpStart
  <2> QED
    BY <2>1 DEF ControlInv, LTypeOK, TaskPort
<1>2. TaskAt'
  BY DEF ControlInv, TaskAt, LTypeOK, Handshake, TaskPort, GivesUpStart
<1>3. ManagerAt'
  BY DEF ControlInv, ManagerAt, Stopped, Started, LTypeOK, TaskAt,
    Handshake, TaskPort, GivesUpStart
<1>4. Handshake'
  BY DEF ControlInv, Handshake, LTypeOK, TaskAt, ManagerAt, Stopped,
    Started, TaskPort, GivesUpStart
<1>5. ClientAt'
  BY DEF ControlInv, ClientAt, LTypeOK, TaskPort, GivesUpStart
<1>6. DmaAt' /\ Counts'
  BY DEF ControlInv, DmaAt, Counts, TaskPort, GivesUpStart
<1> QED
  BY <1>1, <1>2, <1>3, <1>4, <1>5, <1>6 DEF ControlInv

\* The task publishes itself in unit->task and clears task_shutdown, or gives
\* the port back.
LEMMA CtlTaskMutex == ASSUME ControlInv, TaskMutex PROVE ControlInv'
<1>1. LTypeOK'
  <2>1. /\ {task', task_shutdown', io_port', ready'} \subseteq BOOLEAN
        /\ tpc' \in {"signal", "none"}
    BY DEF ControlInv, LTypeOK, TaskMutex, GivesUpStart
  <2> QED
    BY <2>1 DEF ControlInv, LTypeOK, TaskMutex
<1>2. TaskAt'
  <2>1. CASE task' = TRUE
    BY <2>1 DEF ControlInv, TaskAt, LTypeOK, TaskMutex, GivesUpStart
  <2>2. CASE GivesUpStart /\ io_port' = FALSE
          /\ UNCHANGED <<task, task_shutdown>>
    BY <2>2 DEF ControlInv, TaskAt, LTypeOK, TaskMutex, GivesUpStart
  <2> QED
    BY <2>1, <2>2 DEF TaskMutex
<1>3. ManagerAt'
  BY DEF ControlInv, ManagerAt, Stopped, Started, LTypeOK, TaskAt,
    Handshake, TaskMutex, GivesUpStart
<1>4. Handshake'
  <2>1. CASE task' = TRUE /\ task_shutdown' = FALSE /\ tpc' = "signal"
          /\ UNCHANGED ready
    BY <2>1 DEF ControlInv, Handshake, TaskMutex
  <2>2. CASE GivesUpStart /\ UNCHANGED task_shutdown
    BY <2>2 DEF ControlInv, Handshake, TaskMutex, GivesUpStart
  <2> QED
    BY <2>1, <2>2 DEF TaskMutex
<1>5. ClientAt'
  BY DEF ControlInv, ClientAt, LTypeOK, TaskMutex, GivesUpStart
<1>6. DmaAt' /\ Counts'
  BY DEF ControlInv, DmaAt, Counts, TaskMutex, GivesUpStart
<1> QED
  BY <1>1, <1>2, <1>3, <1>4, <1>5, <1>6 DEF ControlInv

\* The task registers with the ISR and signals ready, or (no signal bit)
\* signals ready before it takes its port back.
LEMMA CtlTaskSignal == ASSUME ControlInv, TaskSignal PROVE ControlInv'
<1>1. LTypeOK'
  <2>1. {ready', io_wait_task'} \subseteq BOOLEAN /\ tpc' \in {"wait", "undo"}
    BY DEF ControlInv, LTypeOK, TaskSignal
  <2> QED
    BY <2>1 DEF ControlInv, LTypeOK, TaskSignal
<1>2. TaskAt'
  BY DEF ControlInv, TaskAt, LTypeOK, Handshake, TaskSignal
<1>3. ManagerAt'
  BY DEF ControlInv, ManagerAt, Stopped, Started, LTypeOK, TaskAt,
    Handshake, TaskSignal
<1>4. Handshake'
  BY DEF ControlInv, Handshake, LTypeOK, TaskAt, ManagerAt, Stopped,
    Started, TaskSignal
<1>5. ClientAt'
  BY DEF ControlInv, ClientAt, LTypeOK, TaskSignal
<1>6. DmaAt' /\ Counts'
  BY DEF ControlInv, DmaAt, Counts, TaskSignal
<1> QED
  BY <1>1, <1>2, <1>3, <1>4, <1>5, <1>6 DEF ControlInv

\* The failed start takes its port and unit->task back.
LEMMA CtlTaskUndo == ASSUME ControlInv, TaskUndo PROVE ControlInv'
<1>1. queue' \in Seq(Io)
  BY DEF TaskUndo
<1>2. LTypeOK'
  <2>1. {io_port', task'} \subseteq BOOLEAN /\ tpc' = "none"
    BY DEF TaskUndo
  <2> QED
    BY <1>1, <2>1 DEF ControlInv, LTypeOK, TaskUndo
<1>3. TaskAt'
  BY <1>1 DEF ControlInv, TaskAt, LTypeOK, Handshake, TaskUndo
<1>4. ManagerAt'
  BY <1>1 DEF ControlInv, ManagerAt, Stopped, Started, LTypeOK, TaskAt,
    Handshake, TaskUndo
<1>5. Handshake'
  BY <1>1 DEF ControlInv, Handshake, LTypeOK, TaskAt, ManagerAt, Stopped,
    Started, TaskUndo
<1>6. DmaAt' /\ Counts' /\ ClientAt'
  BY DEF ControlInv, DmaAt, Counts, ClientAt, TaskUndo
<1> QED
  BY <1>2, <1>3, <1>4, <1>5, <1>6 DEF ControlInv

\* CTRL_C ends the main loop; it is only ever sent by a shutdown in progress.
LEMMA CtlWake == ASSUME ControlInv, Wake PROVE ControlInv'
<1>1. LTypeOK'
  <2>1. ctrl_c' \in BOOLEAN /\ tpc' \in {"slots", "run"}
    BY DEF ControlInv, LTypeOK, Wake
  <2> QED
    BY <2>1 DEF ControlInv, LTypeOK, Wake
<1>2. TaskAt'
  BY DEF ControlInv, TaskAt, LTypeOK, Handshake, Wake, HasWork
<1>3. ManagerAt'
  BY DEF ControlInv, ManagerAt, Stopped, Started, LTypeOK, TaskAt,
    Handshake, Wake, HasWork
<1>4. Handshake'
  BY DEF ControlInv, Handshake, LTypeOK, TaskAt, ManagerAt, Stopped,
    Started, Wake, HasWork
<1>5. DmaAt' /\ Counts' /\ ClientAt'
  BY DEF ControlInv, DmaAt, Counts, ClientAt, Wake, HasWork
<1> QED
  BY <1>1, <1>2, <1>3, <1>4, <1>5 DEF ControlInv

\* The loop ends at task_shutdown, which only a shutdown in progress sets.
LEMMA CtlRoundEnds == ASSUME ControlInv, RoundEnds PROVE ControlInv'
<1>1. LTypeOK'
  BY LifecycleAssumption DEF ControlInv, LTypeOK, Requests, RoundEnds,
    HasWork
<1>2. TaskAt'
  BY DEF ControlInv, TaskAt, LTypeOK, Handshake, RoundEnds, HasWork
<1>3. ManagerAt'
  BY DEF ControlInv, ManagerAt, Stopped, Started, LTypeOK, TaskAt,
    Handshake, RoundEnds, HasWork
<1>4. Handshake'
  BY DEF ControlInv, Handshake, LTypeOK, TaskAt, ManagerAt, Stopped,
    Started, RoundEnds, HasWork
<1>5. DmaAt' /\ Counts' /\ ClientAt'
  BY DEF ControlInv, DmaAt, Counts, ClientAt, RoundEnds, HasWork
<1> QED
  BY <1>1, <1>2, <1>3, <1>4, <1>5 DEF ControlInv

\* UnitTask_Dispatch takes one message to a slot, to DoIO or to a reply,
\* while the task runs.
LEMMA CtlDispatch == ASSUME ControlInv, Dispatch PROVE ControlInv'
<1>1. queue \in Seq(Io) /\ Head(queue) \in Io /\ queue' \in Seq(Io)
  BY DEF ControlInv, LTypeOK, Dispatch
<1>2. inflight_count' \in Nat /\ inflight_count' >= Cardinality(inflight')
  <2>1. CASE inflight' = inflight \cup {Head(queue)}
          /\ inflight_count' = inflight_count + 1
    <3>1. Cardinality(inflight') \in Nat
            /\ Cardinality(inflight') <= Cardinality(inflight) + 1
      BY <2>1, SubmitCount, Zenon
    <3>2. inflight_count' = inflight_count + 1
      BY <2>1
    <3>3. inflight_count \in Nat /\ inflight_count >= Cardinality(inflight)
            /\ Cardinality(inflight) \in Nat
      BY Slots DEF ControlInv, LTypeOK, Counts
    <3> QED
      BY <3>1, <3>2, <3>3
  <2>2. CASE UNCHANGED <<inflight, inflight_count>>
    BY <2>2, Slots DEF ControlInv, LTypeOK, Counts
  <2> QED
    BY <2>1, <2>2 DEF Dispatch
<1>3. inflight' \subseteq Io /\ device' \subseteq Io /\ doio' \in Io \cup {NULL}
  BY <1>1 DEF ControlInv, LTypeOK, Dispatch
<1>4. replies' \in [Requests -> Nat] /\ tpc' \in {"run", "doio"}
  BY DEF ControlInv, LTypeOK, Dispatch, Reply, ReplyAll
<1>5. ~expunged /\ UNCHANGED <<expunged, opened, open_count, lib_OpenCnt,
        mgrVars>>
  BY DEF ControlInv, LTypeOK, ManagerAt, Stopped, Counts, Dispatch
<1>6. Head(queue) # NULL
  BY <1>1, LifecycleAssumption DEF Requests
<1>7. LTypeOK'
  BY <1>1, <1>2, <1>3, <1>4, <1>5 DEF ControlInv, LTypeOK, Dispatch
<1>8. TaskAt'
  BY <1>1, <1>2, <1>3, <1>4, <1>5, <1>6 DEF ControlInv, TaskAt, LTypeOK,
    Handshake, Dispatch, Reply, ReplyAll
<1>9. ManagerAt'
  BY <1>1, <1>2, <1>3, <1>4, <1>5, <1>6 DEF ControlInv, ManagerAt, Stopped,
    Started, LTypeOK, TaskAt, Handshake, Dispatch, Reply, ReplyAll
<1>10. Handshake'
  BY <1>1, <1>2, <1>3, <1>4, <1>5, <1>6 DEF ControlInv, Handshake, LTypeOK,
    TaskAt, ManagerAt, Stopped, Started, Dispatch, Reply, ReplyAll
<1>11. Counts'
  BY <1>2, <1>5 DEF ControlInv, Counts
<1>12. DmaAt' /\ ClientAt'
  BY DEF ControlInv, DmaAt, ClientAt, Dispatch, Reply, ReplyAll
<1> QED
  BY <1>7, <1>8, <1>9, <1>10, <1>11, <1>12 DEF ControlInv

\* DoIO returns to the main loop and forgets its request.
LEMMA CtlDoIOReturns == ASSUME ControlInv, DoIOReturns PROVE ControlInv'
<1>1. LTypeOK'
  BY LifecycleAssumption DEF ControlInv, LTypeOK, Requests, DoIOReturns,
    Reply, ReplyAll
<1>2. TaskAt'
  BY DEF ControlInv, TaskAt, LTypeOK, Handshake, DoIOReturns, Reply,
    ReplyAll
<1>3. ManagerAt'
  BY DEF ControlInv, ManagerAt, Stopped, Started, LTypeOK, TaskAt,
    Handshake, DoIOReturns, Reply, ReplyAll
<1>4. Handshake'
  BY DEF ControlInv, Handshake, LTypeOK, TaskAt, ManagerAt, Stopped,
    Started, DoIOReturns, Reply, ReplyAll
<1>5. DmaAt' /\ Counts' /\ ClientAt'
  BY DEF ControlInv, DmaAt, Counts, ClientAt, DoIOReturns, Reply, ReplyAll
<1> QED
  BY <1>1, <1>2, <1>3, <1>4, <1>5 DEF ControlInv

\* A harvested slot leaves the set and the count together.
LEMMA CtlHarvest ==
  ASSUME ControlInv, NEW r \in Io, Harvest(r)
  PROVE  ControlInv'
<1>1. inflight_count > 0
  BY Slots DEF Harvest
<1>2. Cardinality(inflight') = Cardinality(inflight) - 1
  BY Slots, FS_RemoveElement, FS_CardinalityType DEF Harvest
<1>3. LTypeOK'
  BY LifecycleAssumption, <1>1, <1>2 DEF ControlInv, LTypeOK, Requests,
    Harvest, Reply, ReplyAll
<1>4. TaskAt'
  BY <1>1, <1>2 DEF ControlInv, TaskAt, LTypeOK, Handshake, Harvest, Reply,
    ReplyAll
<1>5. Counts'
  BY <1>1, <1>2, Slots DEF ControlInv, Counts, LTypeOK, ManagerAt, Stopped,
    Started, Harvest, Reply, ReplyAll
<1>6. ManagerAt' /\ Handshake' /\ DmaAt' /\ ClientAt'
  BY DEF ControlInv, ManagerAt, Stopped, Started, Handshake, DmaAt,
    ClientAt, Harvest, Reply, ReplyAll
<1> QED
  BY <1>3, <1>4, <1>5, <1>6 DEF ControlInv

\* The drain empties every slot and keeps the count.
LEMMA CtlDrainSlots == ASSUME ControlInv, DrainSlots PROVE ControlInv'
<1>1. Cardinality(inflight') = 0 /\ Cardinality(inflight) \in Nat
  BY Slots, FS_EmptySet, FS_CardinalityType DEF DrainSlots
<1>2. LTypeOK'
  BY LifecycleAssumption, <1>1 DEF ControlInv, LTypeOK, Requests,
    DrainSlots, SlotsAborted, ReplyAll
<1>3. TaskAt'
  BY <1>1 DEF ControlInv, TaskAt, LTypeOK, Handshake, DrainSlots,
    SlotsAborted, ReplyAll
<1>4. ManagerAt'
  BY <1>1 DEF ControlInv, ManagerAt, Stopped, Started, LTypeOK, TaskAt,
    Handshake, DrainSlots, SlotsAborted, ReplyAll
<1>5. Handshake'
  BY <1>1 DEF ControlInv, Handshake, LTypeOK, TaskAt, ManagerAt, Stopped,
    Started, DrainSlots, SlotsAborted, ReplyAll
<1>6. Counts'
  BY <1>1 DEF ControlInv, Counts, LTypeOK, ManagerAt, Stopped, Started,
    DrainSlots, SlotsAborted, ReplyAll
<1>7. DmaAt' /\ ClientAt'
  BY DEF ControlInv, DmaAt, ClientAt, DrainSlots, SlotsAborted, ReplyAll
<1> QED
  BY <1>2, <1>3, <1>4, <1>5, <1>6, <1>7 DEF ControlInv

\* The drain replies the messages at the port one by one, then goes on.
LEMMA CtlDrainMessages == ASSUME ControlInv, DrainMessages PROVE ControlInv'
<1>1. queue' \in Seq(Io)
  BY QueueTypes DEF ControlInv, LTypeOK, DrainMessages
<1>2. replies' \in [Requests -> Nat] /\ tpc' \in {"messages", "held"}
  BY DEF ControlInv, LTypeOK, DrainMessages, Reply, ReplyAll
<1>3. LTypeOK'
  BY LifecycleAssumption, <1>1, <1>2 DEF ControlInv, LTypeOK, Requests,
    DrainMessages, Reply, ReplyAll
<1>4. TaskAt'
  BY <1>1, <1>2 DEF ControlInv, TaskAt, LTypeOK, Handshake, DrainMessages,
    Reply, ReplyAll
<1>5. ManagerAt'
  BY <1>1, <1>2 DEF ControlInv, ManagerAt, Stopped, Started, LTypeOK,
    TaskAt, Handshake, DrainMessages, Reply, ReplyAll
<1>6. Handshake'
  BY <1>1, <1>2 DEF ControlInv, Handshake, LTypeOK, TaskAt, ManagerAt,
    Stopped, Started, DrainMessages, Reply, ReplyAll
<1>7. DmaAt' /\ Counts' /\ ClientAt'
  BY DEF ControlInv, DmaAt, Counts, ClientAt, DrainMessages, Reply, ReplyAll
<1> QED
  BY <1>3, <1>4, <1>5, <1>6, <1>7 DEF ControlInv

\* The drain replies the held requests and clears both fields.
LEMMA CtlDrainHeld == ASSUME ControlInv, DrainHeld PROVE ControlInv'
<1>1. LTypeOK'
  BY LifecycleAssumption DEF ControlInv, LTypeOK, Requests, DrainHeld,
    Reply_Held_Async_Reqs, ReplyAll, HeldNow
<1>2. TaskAt'
  BY DEF ControlInv, TaskAt, LTypeOK, Handshake, DrainHeld,
    Reply_Held_Async_Reqs, ReplyAll, HeldNow
<1>3. ManagerAt'
  BY DEF ControlInv, ManagerAt, Stopped, Started, LTypeOK, TaskAt,
    Handshake, DrainHeld, Reply_Held_Async_Reqs, ReplyAll, HeldNow
<1>4. Handshake'
  BY DEF ControlInv, Handshake, LTypeOK, TaskAt, ManagerAt, Stopped,
    Started, DrainHeld, Reply_Held_Async_Reqs, ReplyAll, HeldNow
<1>5. DmaAt' /\ Counts' /\ ClientAt'
  BY DEF ControlInv, DmaAt, Counts, ClientAt, DrainHeld,
    Reply_Held_Async_Reqs, ReplyAll, HeldNow
<1> QED
  BY <1>1, <1>2, <1>3, <1>4, <1>5 DEF ControlInv

\* The ISR forgets the task before the port goes.
LEMMA CtlUnregister == ASSUME ControlInv, Unregister PROVE ControlInv'
<1>1. LTypeOK'
  <2>1. {io_wait_task', io_port'} \subseteq BOOLEAN /\ tpc' = "clear"
    BY DEF ControlInv, LTypeOK, Unregister
  <2> QED
    BY <2>1 DEF ControlInv, LTypeOK, Unregister
<1>2. TaskAt'
  BY DEF ControlInv, TaskAt, LTypeOK, Handshake, Unregister
<1>3. ManagerAt'
  BY DEF ControlInv, ManagerAt, Stopped, Started, LTypeOK, TaskAt,
    Handshake, Unregister
<1>4. Handshake'
  BY DEF ControlInv, Handshake, LTypeOK, TaskAt, ManagerAt, Stopped,
    Started, Unregister
<1>5. DmaAt' /\ Counts' /\ ClientAt'
  BY DEF ControlInv, DmaAt, Counts, ClientAt, Unregister
<1> QED
  BY <1>1, <1>2, <1>3, <1>4, <1>5 DEF ControlInv

\* The task clears unit->task as its last access to the unit; its Signal, and
\* its return, are still due.
LEMMA CtlClearTask == ASSUME ControlInv, ClearTask PROVE ControlInv'
<1>0. mclient \in Clients
  BY DEF ControlInv, LTypeOK, Counts, ManagerAt, Handshake, ClearTask
<1>1. LTypeOK'
  BY <1>0, LifecycleAssumption DEF ControlInv, LTypeOK, Requests, ClearTask
<1>2. TaskAt'
  BY DEF ControlInv, TaskAt, LTypeOK, Handshake, ClearTask
<1>3. ManagerAt'
  BY DEF ControlInv, ManagerAt, Stopped, Started, LTypeOK, TaskAt,
    Handshake, ClearTask
<1>4. Handshake'
  BY <1>0 DEF ControlInv, Handshake, LTypeOK, TaskAt, ManagerAt, Stopped,
    Started, ClearTask
<1>5. DmaAt' /\ Counts' /\ ClientAt'
  BY DEF ControlInv, DmaAt, Counts, ClientAt, ClearTask
<1> QED
  BY <1>1, <1>2, <1>3, <1>4, <1>5 DEF ControlInv

\* The exit bit goes to a caller that waits for it, once; CTRL_C to one that may
\* have gone on.
LEMMA CtlNotifyExit == ASSUME ControlInv, NotifyExit PROVE ControlInv'
<1>1. LTypeOK'
  <2>1. exited' \in BOOLEAN /\ mbreak' \in SUBSET Clients
    BY DEF ControlInv, LTypeOK, Handshake, NotifyExit, ExitSignalled
  <2> QED
    BY <2>1 DEF ControlInv, LTypeOK, NotifyExit
<1>2. ManagerAt'
  BY DEF ControlInv, ManagerAt, Stopped, Started, LTypeOK, TaskAt,
    Handshake, NotifyExit, ExitSignalled
<1>3. Handshake'
  BY DEF ControlInv, Handshake, LTypeOK, TaskAt, ManagerAt, Stopped,
    Started, NotifyExit, ExitSignalled
<1>4. TaskAt' /\ DmaAt' /\ Counts' /\ ClientAt'
  BY DEF ControlInv, TaskAt, DmaAt, Counts, ClientAt, NotifyExit, ExitSignalled
<1> QED
  BY <1>1, <1>2, <1>3, <1>4 DEF ControlInv

\* The task's return touches nothing of the unit.
LEMMA CtlTaskReturns == ASSUME ControlInv, TaskReturns PROVE ControlInv'
<1>1. LTypeOK'
  BY LifecycleAssumption DEF ControlInv, LTypeOK, Requests, TaskReturns
<1>2. ManagerAt'
  BY DEF ControlInv, ManagerAt, Stopped, Started, LTypeOK, TaskAt,
    Handshake, TaskReturns
<1>3. Handshake'
  BY DEF ControlInv, Handshake, LTypeOK, TaskAt, ManagerAt, Stopped,
    Started, TaskReturns
<1>4. TaskAt' /\ DmaAt' /\ Counts' /\ ClientAt'
  BY DEF ControlInv, TaskAt, DmaAt, Counts, ClientAt, TaskReturns
<1> QED
  BY <1>1, <1>2, <1>3, <1>4 DEF ControlInv

\* The device gives up a buffer; neither task nor counts change.
LEMMA CtlDeviceDone ==
  ASSUME ControlInv, NEW r \in Io, DeviceDone(r)
  PROVE  ControlInv'
<1>1. LTypeOK'
  BY LifecycleAssumption DEF ControlInv, LTypeOK, Requests, DeviceDone
<1>2. ManagerAt'
  BY DEF ControlInv, ManagerAt, Stopped, Started, LTypeOK, TaskAt,
    Handshake, DeviceDone
<1>3. Counts'
  BY DEF ControlInv, Counts, LTypeOK, ManagerAt, Stopped, Started,
    DeviceDone
<1>4. TaskAt' /\ Handshake' /\ DmaAt' /\ ClientAt'
  BY DEF ControlInv, TaskAt, Handshake, DmaAt, ClientAt, DeviceDone
<1> QED
  BY <1>1, <1>2, <1>3, <1>4 DEF ControlInv

\* The unit as DiscoverUnits left it: no opener, no task.
LEMMA ControlInit == Init => ControlInv
<1> SUFFICES ASSUME Init PROVE ControlInv
  OBVIOUS
<1>1. LTypeOK
  <2>1. queue \in Seq(Io) /\ held \in [Fields -> Holds \cup {NULL}]
    BY DEF Init
  <2>2. /\ cpc \in [Clients -> {"ready", "hold", "remove"}]
        /\ creq \in [Clients -> Holds \cup {NULL}]
        /\ replies \in [Requests -> Nat]
    BY DEF Init
  <2> QED
    BY <2>1, <2>2 DEF Init, LTypeOK
<1>2. TaskAt /\ ManagerAt /\ Handshake /\ DmaAt /\ ClientAt
  BY DEF Init, TaskAt, ManagerAt, Stopped, Started, Handshake, DmaAt, ClientAt
<1>3. Counts
  BY FS_EmptySet DEF Init, Counts
<1> QED
  BY <1>1, <1>2, <1>3 DEF ControlInv

\* The invariant only speaks of the variables of the specification.
LEMMA ControlFrame == ASSUME ControlInv, UNCHANGED vars PROVE ControlInv'
<1>1. LTypeOK'
  BY DEF ControlInv, LTypeOK, vars
<1>2. TaskAt' /\ ManagerAt'
  BY DEF ControlInv, TaskAt, ManagerAt, Stopped, Started, vars
<1>3. Handshake' /\ DmaAt' /\ Counts' /\ ClientAt'
  BY DEF ControlInv, Handshake, DmaAt, Counts, ClientAt, vars
<1> QED
  BY <1>1, <1>2, <1>3 DEF ControlInv

\* Every step of a client, of Open, Close and Expunge, of the unit task and
\* of the device keeps the invariant.
LEMMA ControlStep == ASSUME ControlInv, [Next]_vars PROVE ControlInv'
<1>1. CASE UNCHANGED vars
  BY <1>1, ControlFrame
<1>2. CASE \E c \in Clients : Open(c) \/ Close(c) \/ BeginRemove(c)
        \/ InBeginIO(c)
  BY <1>2, CtlOpen, CtlClose, CtlBeginRemove, CtlStoreHold,
    CtlClearHold DEF InBeginIO
<1>3. CASE \E r \in Requests : BeginIO(r) \/ BeginHold(r)
  BY <1>3, CtlBeginIO, CtlBeginHold
<1>4. CASE Expunge
  BY <1>4, CtlExpunge
<1>5. CASE Manager
  BY <1>5, CtlCreateTask, CtlNoTask, CtlTaskReady, CtlPreallocate,
    CtlOpenReturns, CtlShutdown, CtlBreakTask, CtlTaskExited,
    CtlSleepForExit, CtlWokenByBreak, CtlFreeDma, CtlCloseReturns, CtlExpungeReturns DEF Manager
<1>6. CASE Task
  BY <1>6, CtlTaskPort, CtlTaskMutex, CtlTaskSignal, CtlTaskUndo, CtlWake,
    CtlRoundEnds, CtlDispatch, CtlDoIOReturns, CtlHarvest, CtlDrainSlots,
    CtlDrainMessages, CtlDrainHeld, CtlUnregister, CtlClearTask
    DEF Task
<1>7. CASE \E r \in Io : DeviceDone(r)
  BY <1>7, CtlDeviceDone
<1>8. CASE Leave
  BY <1>8, CtlNotifyExit, CtlTaskReturns DEF Leave
<1> QED
  BY <1>1, <1>2, <1>3, <1>4, <1>5, <1>6, <1>7, <1>8 DEF Next

\* The control invariant holds in every reachable state, whatever clients,
\* requests and circumstances: counts, task, handshakes and buffers of
\* Open.c, Close.c, Expunge.c and unit_task.c move together.
THEOREM ControlInvariant == Spec => []ControlInv
<1> QED
  BY ControlInit, ControlStep, PTL DEF Spec

\* Every variable of the unit keeps its type; in particular no reference
\* count of Open.c and Close.c and no inflight_count goes below zero.
THEOREM LifecycleTypeCorrect == Spec => []LTypeOK
<1>1. ControlInv => LTypeOK
  BY DEF ControlInv
<1> QED
  BY <1>1, ControlInvariant, PTL

\* "Port is ready, it's safe to PutMsg to us now" (unit_task.c): as long as
\* somebody has the unit open, its task runs, registered with the ISR, behind
\* an open port, with its buffers allocated.
THEOREM RunningSafe == Spec => []OpenMeansRunning
<1>1. ControlInv => OpenMeansRunning
  <2> SUFFICES ASSUME ControlInv, SoundStarts, mpc = "idle", opened # {}
               PROVE  /\ tpc \in Running
                      /\ task /\ io_port /\ io_wait_task /\ dma
    BY DEF OpenMeansRunning
  <2>1. open_count > 0
    BY Opened
  <2>2. tpc \in Running
    BY <2>1 DEF ControlInv, ManagerAt, Started
  <2> QED
    BY <2>1, <2>2 DEF ControlInv, TaskAt, DmaAt
<1> QED
  BY <1>1, ControlInvariant, PTL

\* Close.c, Expunge.c, unit_task.c: after the last Close, a failed Open or an
\* expunge no task will touch the unit again, its port, ISR registration and
\* buffers are gone, no handshake signal is left over, and an expunged driver has
\* no opener and no buffer at the device.  That the old task has left the driver's
\* code does not follow: its Signal and return may still be ahead.
THEOREM StoppedSafe == Spec => []ClosedMeansStopped
<1>1. ControlInv => ClosedMeansStopped
  <2> SUFFICES ASSUME ControlInv PROVE ClosedMeansStopped
    OBVIOUS
  <2>1. ASSUME SoundStarts, mpc = "idle", open_count = 0
        PROVE  /\ tpc = "none" /\ ~task /\ ~io_port /\ ~io_wait_task /\ ~dma
               /\ ~ready /\ ~exited
               /\ queue = <<>> /\ inflight = {} /\ HeldNow = {}
    <3>1. tpc = "none"
      BY <2>1 DEF ControlInv, ManagerAt, Stopped
    <3>2. ~task /\ ~io_port /\ ~io_wait_task /\ queue = <<>> /\ inflight = {}
      BY <3>1 DEF ControlInv, TaskAt
    <3>3. HeldNow = {}
      BY <2>1, <3>1 DEF ControlInv, TaskAt, HeldNow
    <3>4. ~dma /\ ~ready /\ ~exited
      BY <2>1 DEF ControlInv, DmaAt, Handshake
    <3> QED
      BY <3>1, <3>2, <3>3, <3>4
  <2>2. ASSUME expunged
        PROVE  opened = {} /\ lib_OpenCnt = 0 /\ tpc = "none" /\ device = {}
    <3>1. mpc = "idle" /\ lib_OpenCnt = 0 /\ device = {} /\ open_count = 0
      BY <2>2 DEF ControlInv, LTypeOK, Counts
    <3>2. opened = {} /\ tpc = "none"
      BY <3>1, Opened DEF ControlInv, ManagerAt, Stopped
    <3> QED
      BY <3>1, <3>2
  <2> QED
    BY <2>1, <2>2 DEF ClosedMeansStopped
<1> QED
  BY <1>1, ControlInvariant, PTL

-----------------------------------------------------------------------------
(* Requests for the unit task: the invariant *)

\* r has been sent and not replied.
Unreplied(r) == r \in sent /\ replies[r] = 0

\* r is a message at io_port.
AtPort(r) == \E i \in 1 .. Len(queue) : queue[i] = r

\* No request is linked into the port twice.
QueuedOnce == \A i, j \in 1 .. Len(queue) : queue[i] = queue[j] => i = j

\* r is in at most one place, unreplied as long as it is in one, and in one as
\* long as it is unreplied (a start without a signal bit loses its port).  An
\* orderly client stays while r is unreplied, and then what the device uses is in
\* a slot or in DoIO.
IoOK(r) ==
  /\ AtPort(r) => Unreplied(r) /\ r \notin inflight /\ doio # r
  /\ r \in inflight => Unreplied(r) /\ doio # r
  /\ doio = r => Unreplied(r)
  /\ SoundStarts /\ Unreplied(r) => AtPort(r) \/ r \in inflight \/ doio = r
  /\ r \notin sent => replies[r] = 0
  /\ replies[r] <= 1
  /\ load.orderly /\ Unreplied(r) => ClientOf[r] \in opened
  /\ load.orderly /\ ~load.doioGivesUp /\ r \in device => r \in inflight
     \/ doio = r

IoInv == QueuedOnce /\ \A r \in Io : IoOK(r)

\* Steps that leave the requests of the unit task alone: they may only add
\* openers and take buffers from the device.
LEMMA IoFrame ==
  ASSUME IoInv, UNCHANGED <<queue, inflight, inflight_count, doio, load>>,
         device' \subseteq device, opened \subseteq opened',
         \A r \in Io : replies'[r] = replies[r] /\ (r \in sent' <=> r \in sent)
  PROVE  IoInv'
<1>1. QueuedOnce'
  BY DEF IoInv, QueuedOnce
<1>2. ASSUME NEW r \in Io PROVE IoOK(r)'
  <2>1. (AtPort(r)' <=> AtPort(r)) /\ (Unreplied(r)' <=> Unreplied(r))
    BY DEF AtPort, Unreplied
  <2> QED
    BY <2>1 DEF IoInv, IoOK
<1> QED
  BY <1>1, <1>2 DEF IoInv

\* BeginIO puts a request at the port that nobody has, or replies it
\* IOERR_OPENFAIL.
LEMMA IoBegin ==
  ASSUME ControlInv, IoInv, NEW r \in Requests, BeginIO(r) PROVE IoInv'
<1>1. /\ r \in Io /\ r \notin sent /\ replies[r] = 0 /\ ClientOf[r] \in opened
      /\ ~AtPort(r) /\ r \notin inflight /\ doio # r
  BY DEF IoInv, IoOK, BeginIO, Begin, Unreplied
<1>2. /\ UNCHANGED <<inflight, inflight_count, doio, device, opened, load>>
      /\ sent' = sent \cup {r}
  BY DEF BeginIO, Begin
<1>3. CASE io_port
  <2>1. queue' = Append(queue, r) /\ replies' = replies
    BY <1>3 DEF BeginIO
  <2>2. queue \in Seq(Io) /\ Len(queue') = Len(queue) + 1
          /\ queue'[Len(queue) + 1] = r
        /\ \A i \in 1 .. Len(queue) : queue'[i] = queue[i]
    BY <1>1, <2>1 DEF ControlInv, LTypeOK
  <2>3. \A x : AtPort(x)' <=> AtPort(x) \/ x = r
    BY <2>2 DEF AtPort
  <2>4. QueuedOnce'
    BY <1>1, <1>2, <2>2 DEF IoInv, QueuedOnce, AtPort
  <2>5. ASSUME NEW x \in Io PROVE IoOK(x)'
    BY <1>1, <1>2, <2>1, <2>3 DEF IoInv, IoOK, Unreplied
  <2> QED
    BY <2>4, <2>5 DEF IoInv
<1>4. CASE ~io_port
  <2>1. queue' = queue /\ replies'[r] = 1
        /\ \A x \in Io \ {r} : replies'[x] = replies[x]
    BY <1>1, <1>4 DEF BeginIO, Reply, ReplyAll, Requests
  <2>2. \A x : AtPort(x)' <=> AtPort(x)
    BY <2>1 DEF AtPort
  <2>3. QueuedOnce'
    BY <1>2, <2>1 DEF IoInv, QueuedOnce
  <2>4. ASSUME NEW x \in Io PROVE IoOK(x)'
    BY <1>1, <1>2, <2>1, <2>2 DEF IoInv, IoOK, Unreplied
  <2> QED
    BY <2>3, <2>4 DEF IoInv
<1> QED
  BY <1>3, <1>4

\* An orderly Close finds none of its client's requests unreplied.
LEMMA IoClose ==
  ASSUME IoInv, NEW c \in Clients, Close(c) PROVE IoInv'
<1>1. /\ UNCHANGED <<queue, inflight, inflight_count, doio, device, sent,
         replies, load>>
      /\ opened' = opened \ {c}
      /\ load.orderly => \A r \in Io : Unreplied(r) => ClientOf[r] # c
  BY DEF Close, Unreplied
<1>2. QueuedOnce'
  BY <1>1 DEF IoInv, QueuedOnce
<1>3. ASSUME NEW r \in Io PROVE IoOK(r)'
  <2>1. (AtPort(r)' <=> AtPort(r)) /\ (Unreplied(r)' <=> Unreplied(r))
    BY <1>1 DEF AtPort, Unreplied
  <2> QED
    BY <1>1, <2>1 DEF IoInv, IoOK
<1> QED
  BY <1>2, <1>3 DEF IoInv

\* Only a start without a signal bit deletes a port with messages in it.
LEMMA IoUndo ==
  ASSUME ControlInv, IoInv, TaskUndo PROVE IoInv'
<1>1. /\ ~SoundStarts /\ queue' = <<>>
      /\ UNCHANGED <<inflight, inflight_count, doio, device, opened, sent,
         replies, load>>
  BY DEF ControlInv, TaskAt, TaskUndo
<1>2. QueuedOnce' /\ \A r : ~AtPort(r)'
  BY <1>1 DEF IoInv, QueuedOnce, AtPort
<1>3. ASSUME NEW r \in Io PROVE IoOK(r)'
  BY <1>1, <1>2 DEF IoInv, IoOK, Unreplied
<1> QED
  BY <1>2, <1>3 DEF IoInv

\* GetMsg takes the one occurrence of a request from the port.
LEMMA HeadLeaves ==
  ASSUME ControlInv, IoInv, queue # <<>>, queue' = Tail(queue)
  PROVE  /\ Head(queue) \in Io /\ AtPort(Head(queue)) /\ QueuedOnce'
         /\ \A r : AtPort(r)' <=> AtPort(r) /\ r # Head(queue)
<1>1. /\ queue \in Seq(Io) /\ Len(queue) \in Nat \ {0} /\ Head(queue) = queue[1]
      /\ Len(queue') = Len(queue) - 1
      /\ \A i \in 1 .. Len(queue) - 1 : queue'[i] = queue[i + 1]
  BY DEF ControlInv, LTypeOK
<1>2. Head(queue) \in Io /\ AtPort(Head(queue))
  BY <1>1 DEF AtPort
<1>3. QueuedOnce'
  <2> SUFFICES ASSUME NEW i \in 1 .. Len(queue'), NEW j \in 1 .. Len(queue'),
                      queue'[i] = queue'[j]
               PROVE  i = j
    BY DEF QueuedOnce
  <2>1. queue[i + 1] = queue[j + 1] /\ i + 1 \in 1 .. Len(queue)
          /\ j + 1 \in 1 .. Len(queue)
    BY <1>1
  <2>2. i + 1 = j + 1
    BY <2>1 DEF IoInv, QueuedOnce
  <2> QED
    BY <2>2, <1>1
<1>4. ASSUME NEW r PROVE AtPort(r)' <=> AtPort(r) /\ r # Head(queue)
  <2>1. ASSUME AtPort(r)' PROVE AtPort(r) /\ r # Head(queue)
    <3>1. PICK i \in 1 .. Len(queue') : queue'[i] = r
      BY <2>1 DEF AtPort
    <3>2. queue[i + 1] = r /\ i + 1 \in 1 .. Len(queue) /\ i + 1 # 1
            /\ 1 \in 1 .. Len(queue)
      BY <1>1, <3>1
    <3> QED
      BY <1>1, <3>2 DEF AtPort, IoInv, QueuedOnce
  <2>2. ASSUME AtPort(r), r # Head(queue) PROVE AtPort(r)'
    <3>1. PICK i \in 1 .. Len(queue) : queue[i] = r
      BY <2>2 DEF AtPort
    <3>2. i - 1 \in 1 .. Len(queue') /\ queue'[i - 1] = r
      BY <1>1, <2>2, <3>1
    <3> QED
      BY <3>2 DEF AtPort
  <2> QED
    BY <2>1, <2>2
<1> QED
  BY <1>2, <1>3, <1>4

\* UnitTask_Dispatch hands the request to a slot, to DoIO or back to its
\* sender, to one of them only.
LEMMA IoDispatch ==
  ASSUME ControlInv, IoInv, Dispatch PROVE IoInv'
<1> DEFINE r == Head(queue)
<1>1. /\ r \in Io /\ AtPort(r) /\ QueuedOnce' /\ doio = NULL /\ NULL \notin Io
      /\ \A x : AtPort(x)' <=> AtPort(x) /\ x # r
  BY HeadLeaves, LifecycleAssumption DEF Dispatch, ControlInv, TaskAt, Requests
<1>2. UNCHANGED <<sent, opened, load>>
  BY DEF Dispatch
<1>3. Unreplied(r) /\ r \notin inflight
  BY <1>1 DEF IoInv, IoOK
<1> HIDE DEF r
<1>4. CASE /\ inflight' = inflight \cup {r}
              /\ inflight_count' = inflight_count + 1
           /\ device' = device \cup {r} /\ UNCHANGED <<doio, replies>>
  <2>1. ASSUME NEW x \in Io PROVE IoOK(x)'
    BY <1>1, <1>2, <1>3, <1>4 DEF IoInv, IoOK, Unreplied
  <2> QED
    BY <1>1, <2>1 DEF IoInv
<1>5. CASE /\ doio' = r /\ device' = device \cup {r}
           /\ UNCHANGED <<inflight, inflight_count, replies>>
  <2>1. ASSUME NEW x \in Io PROVE IoOK(x)'
    BY <1>1, <1>2, <1>3, <1>5 DEF IoInv, IoOK, Unreplied
  <2> QED
    BY <1>1, <2>1 DEF IoInv
<1>6. CASE Reply(r) /\ UNCHANGED <<inflight, inflight_count, doio, device>>
  <2>2. replies'[r] = 1 /\ \A x \in Io \ {r} : replies'[x] = replies[x]
    BY <1>1, <1>3, <1>6 DEF Reply, ReplyAll, Requests, Unreplied
  <2>3. ASSUME NEW x \in Io PROVE IoOK(x)'
    BY <1>1, <1>2, <1>3, <1>6, <2>2 DEF IoInv, IoOK, Unreplied
  <2> QED
    BY <1>1, <2>3 DEF IoInv
<1> QED
  BY <1>4, <1>5, <1>6 DEF Dispatch, r

\* DoIO's request is replied once; unless DoIO gave up, the device is done
\* with it.
LEMMA IoDoIOReturns ==
  ASSUME ControlInv, IoInv, DoIOReturns PROVE IoInv'
<1>1. /\ doio \in Io /\ doio # NULL /\ Unreplied(doio) /\ doio' = NULL
         /\ NULL \notin Io
      /\ UNCHANGED <<queue, inflight, inflight_count, device, sent, opened,
         load>>
  BY LifecycleAssumption DEF DoIOReturns, ControlInv, LTypeOK, TaskAt, IoInv,
    IoOK, Requests
<1>2. replies'[doio] = 1 /\ \A x \in Io \ {doio} : replies'[x] = replies[x]
  BY <1>1 DEF DoIOReturns, Reply, ReplyAll, Requests, Unreplied
<1>3. QueuedOnce' /\ \A x : AtPort(x)' <=> AtPort(x)
  BY <1>1 DEF IoInv, QueuedOnce, AtPort
<1>4. doio \notin device \/ load.doioGivesUp
  BY DEF DoIOReturns
<1>5. ASSUME NEW x \in Io PROVE IoOK(x)'
  BY <1>1, <1>2, <1>3, <1>4 DEF IoInv, IoOK, Unreplied
<1> QED
  BY <1>3, <1>5 DEF IoInv

\* A completed slot's request is replied once and leaves the slot.
LEMMA IoHarvest ==
  ASSUME ControlInv, IoInv, NEW r \in Io, Harvest(r) PROVE IoInv'
<1>1. /\ r \in inflight /\ r \notin device /\ Unreplied(r)
         /\ inflight' = inflight \ {r}
      /\ UNCHANGED <<queue, doio, device, sent, opened, load>>
  BY DEF Harvest, IoInv, IoOK
<1>2. replies'[r] = 1 /\ \A x \in Io \ {r} : replies'[x] = replies[x]
  BY <1>1 DEF Harvest, Reply, ReplyAll, Requests, Unreplied
<1>4. QueuedOnce' /\ \A x : AtPort(x)' <=> AtPort(x)
  BY <1>1 DEF IoInv, QueuedOnce, AtPort
<1>5. ASSUME NEW x \in Io PROVE IoOK(x)'
  BY <1>1, <1>2, <1>4 DEF IoInv, IoOK, Unreplied
<1> QED
  BY <1>4, <1>5 DEF IoInv

\* The drain of the slots replies each request once; for orderly clients
\* there is none.
LEMMA IoDrainSlots ==
  ASSUME ControlInv, IoInv, DrainSlots PROVE IoInv'
<1>1. /\ inflight' = {}
      /\ UNCHANGED <<queue, inflight_count, doio, device, sent, opened, load>>
  BY DEF DrainSlots
<1>2. \A x \in Io : replies'[x] = IF x \in inflight
        THEN replies[x] + 1 ELSE replies[x]
  BY DEF DrainSlots, SlotsAborted, ReplyAll, Requests
<1>3. doio = NULL /\ NULL \notin Io /\ opened = {}
  <2>1. open_count = 0 /\ doio = NULL
    BY DEF DrainSlots, ControlInv, LTypeOK, TaskAt, Handshake, ManagerAt
  <2> QED
    BY <2>1, Opened, LifecycleAssumption DEF Requests
<1>4. load.orderly => inflight = {}
  BY <1>3 DEF ControlInv, LTypeOK, IoInv, IoOK
<1>6. QueuedOnce' /\ \A x : AtPort(x)' <=> AtPort(x)
  BY <1>1 DEF IoInv, QueuedOnce, AtPort
<1>7. ASSUME NEW x \in Io PROVE IoOK(x)'
  BY <1>1, <1>2, <1>3, <1>4, <1>6 DEF IoInv, IoOK, Unreplied, ControlInv,
    LTypeOK
<1> QED
  BY <1>6, <1>7 DEF IoInv

\* The drain of the port replies each message once.
LEMMA IoDrainMessages ==
  ASSUME ControlInv, IoInv, DrainMessages PROVE IoInv'
<1>1. UNCHANGED <<inflight, inflight_count, doio, device, sent, opened, load>>
  BY DEF DrainMessages
<1>2. CASE queue = <<>>
  BY <1>1, <1>2, IoFrame DEF DrainMessages
<1>3. CASE queue # <<>>
  <2> DEFINE r == Head(queue)
  <2>1. /\ r \in Io /\ AtPort(r) /\ QueuedOnce' /\ Reply(r)
        /\ \A x : AtPort(x)' <=> AtPort(x) /\ x # r
    BY <1>3, HeadLeaves DEF DrainMessages
  <2>2. Unreplied(r) /\ r \notin inflight /\ doio # r
    BY <2>1 DEF IoInv, IoOK
  <2> HIDE DEF r
  <2>3. replies'[r] = 1 /\ \A x \in Io \ {r} : replies'[x] = replies[x]
    BY <2>1, <2>2 DEF Reply, ReplyAll, Requests, Unreplied
  <2>5. ASSUME NEW x \in Io PROVE IoOK(x)'
    BY <1>1, <2>1, <2>2, <2>3 DEF IoInv, IoOK, Unreplied
  <2> QED
    BY <2>1, <2>5 DEF IoInv
<1> QED
  BY <1>2, <1>3

\* Replies to change-notification requests (BeginIO.c, Reply_Held_Async_Reqs)
\* touch no request of the unit task.
LEMMA IoHeldReplied ==
  ASSUME ControlInv, IoInv,
         \/ \E r \in Requests : BeginHold(r)
         \/ \E c \in Clients : BeginRemove(c)
         \/ DrainHeld
         \/ ExpungeReturns
  PROVE  IoInv'
<1>1. \A f \in Fields, r \in Io : held[f] # r
  BY LifecycleAssumption DEF ControlInv, LTypeOK, Requests
<1>2. \A R : ReplyAll(R) /\ R \cap Io = {} => \A r \in Io :
        replies'[r] = replies[r]
  BY DEF ReplyAll, Requests
<1>3. CASE \E h \in Requests : BeginHold(h)
  <2>1. PICK h \in Requests : BeginHold(h)
    BY <1>3
  <2>2. h \in Holds /\ h \notin Io /\ load.fieldOf[h] \in Fields
          /\ sent' = sent \cup {h}
    BY <2>1, LifecycleAssumption DEF BeginHold, Begin, ControlInv, LTypeOK,
      LoadsOf
  <2>3. ({held[load.fieldOf[h]]} \ {NULL}) \cap Io = {}
    BY <1>1, <2>2
  <2>4. \A r \in Io : replies'[r] = replies[r]
    BY <1>2, <2>1, <2>3 DEF BeginHold
  <2> QED
    BY <2>1, <2>2, <2>4, IoFrame DEF BeginHold
<1>4. CASE \E c \in Clients : BeginRemove(c)
  <2>1. PICK c \in Clients : BeginRemove(c)
    BY <1>4
  <2>2. {held["changeint_req"]} \cap Io = {}
    BY <1>1 DEF Fields
  <2>3. \A r \in Io : replies'[r] = replies[r]
    BY <1>2, <2>1, <2>2 DEF BeginRemove, Reply
  <2> QED
    BY <2>1, <2>3, IoFrame DEF BeginRemove
<1>5. CASE Reply_Held_Async_Reqs /\ UNCHANGED <<ioVars, opened, sent, load>>
  <2>1. HeldNow \cap Io = {}
    BY <1>1 DEF HeldNow
  <2>2. \A r \in Io : replies'[r] = replies[r]
    BY <1>2, <1>5, <2>1 DEF Reply_Held_Async_Reqs
  <2> QED
    BY <1>5, <2>2, IoFrame
<1> QED
  BY <1>3, <1>4, <1>5 DEF DrainHeld, ExpungeReturns

\* Every step keeps the invariant of the unit task's requests.
LEMMA IoStep == ASSUME ControlInv, IoInv, [Next]_vars PROVE IoInv'
<1>1. CASE UNCHANGED <<ioVars, opened, sent, replies, load>>
  BY <1>1, IoFrame
<1>2. CASE UNCHANGED vars
  BY <1>1, <1>2 DEF vars
<1>3. CASE \E c \in Clients : Open(c) \/ Close(c) \/ BeginRemove(c)
        \/ InBeginIO(c)
  <2>1. PICK c \in Clients : Open(c) \/ Close(c) \/ BeginRemove(c)
          \/ InBeginIO(c)
    BY <1>3
  <2>2. CASE Open(c) \/ InBeginIO(c)
    BY <1>1, <2>2 DEF Open, InBeginIO, StoreHold, ClearHold
  <2> QED
    BY <2>1, <2>2, IoClose, IoHeldReplied
<1>4. CASE \E r \in Requests : BeginIO(r) \/ BeginHold(r)
  BY <1>4, IoBegin, IoHeldReplied
<1>5. CASE Expunge \/ CloseReturns \/ OpenReturns \/ \E r \in Io : DeviceDone(r)
  <2>1. /\ UNCHANGED <<queue, inflight, inflight_count, doio, sent, replies,
           load>>
        /\ device' \subseteq device /\ opened \subseteq opened'
    BY <1>5 DEF Expunge, CloseReturns, OpenReturns, DeviceDone, ExpungeStarts
  <2> QED
    BY <2>1, IoFrame
<1>6. CASE Manager
  <2>1. CASE CreateTask \/ NoTask \/ TaskReady \/ Preallocate
    BY <1>1, <2>1 DEF CreateTask, NoTask, TaskReady, Preallocate
  <2>2. CASE Shutdown \/ BreakTask \/ TaskExited \/ FreeDma
    BY <1>1, <2>2 DEF Shutdown, BreakTask, TaskExited, FreeDma
  <2>3. CASE SleepForExit \/ WokenByBreak
    BY <1>1, <2>3 DEF SleepForExit, WokenByBreak
  <2> QED
    BY <1>5, <1>6, <2>1, <2>2, <2>3, IoHeldReplied DEF Manager
<1>7. CASE Task
  <2>1. CASE TaskPort \/ TaskMutex \/ TaskSignal \/ Wake
    BY <1>1, <2>1 DEF TaskPort, TaskMutex, TaskSignal, Wake
  <2>2. CASE RoundEnds \/ Unregister \/ ClearTask
    BY <1>1, <2>2 DEF RoundEnds, Unregister, ClearTask
  <2> QED
    BY <1>7, <2>1, <2>2, IoUndo, IoDispatch, IoDoIOReturns, IoHarvest,
      IoDrainSlots, IoDrainMessages, IoHeldReplied DEF Task
<1>8. CASE Leave
  BY <1>1, <1>8 DEF Leave, NotifyExit, TaskReturns
<1> QED
  BY <1>2, <1>3, <1>4, <1>5, <1>6, <1>7, <1>8 DEF Next

\* Nothing has been sent.
LEMMA IoInit == Init => IoInv
<1> SUFFICES ASSUME Init PROVE IoInv
  OBVIOUS
<1>1. QueuedOnce /\ \A r : ~AtPort(r)
  BY FS_EmptySet DEF Init, QueuedOnce, AtPort
<1>2. ASSUME NEW r \in Io PROVE IoOK(r)
  BY <1>1, LifecycleAssumption DEF Init, IoOK, Unreplied, Requests
<1> QED
  BY <1>1, <1>2 DEF IoInv

\* A request for the unit task is at the port, in a slot, or in DoIO, in one
\* of them only, until it is replied, and it is replied at most once, through
\* every start, shutdown and drain.
THEOREM IoInvariant == Spec => []IoInv
<1> QED
  BY IoInit, IoStep, ControlInvariant, PTL DEF Spec

\* "The descriptor still points at LIVE memory" (virtio_scsi_io.c):
\* free_unit_dma never frees what the device may write to, if clients wait
\* for their I/O before they close and no DoIO gives up.
THEOREM BuffersSafe == Spec => []DeviceBuffersLive
<1>1. ControlInv /\ IoInv => DeviceBuffersLive
  <2> SUFFICES ASSUME ControlInv, IoInv, load.orderly, ~load.doioGivesUp,
    device # {}
               PROVE  dma
    BY DEF DeviceBuffersLive
  <2>1. PICK r \in Io : r \in device
    BY DEF ControlInv, LTypeOK
  <2>2. ClientOf[r] \in opened
    BY <2>1 DEF IoInv, IoOK
  <2>3. open_count > 0
    BY <2>2, Opened
  <2> QED
    BY <2>3 DEF ControlInv, DmaAt
<1> QED
  BY <1>1, ControlInvariant, IoInvariant, PTL

-----------------------------------------------------------------------------
(* Held requests: the invariant *)

\* The requests for one field come from one client, who is also the one that may
\* send TD_REMCHANGEINT: BeginIO.c takes no lock between reply and store.
SingleHolder ==
  \A l \in Loads :
    /\ \A g, h \in Holds : l.fieldOf[g] = l.fieldOf[h]
       => ClientOf[g] = ClientOf[h]
    /\ \A c \in Removers, h \in Holds : l.fieldOf[h] = "changeint_req"
       => ClientOf[h] = c

\* Client c is between its reply and its store, or its clearing, of f.
Replaces(c, f) == cpc[c] = "hold" /\ load.fieldOf[creq[c]] = f
Removes(c, f) == cpc[c] = "remove" /\ f = "changeint_req"
Busy(f) == \E c \in Clients : Replaces(c, f) \/ Removes(c, f)

\* What a field holds belongs there; it is unreplied unless somebody is about to
\* overwrite it.
HeldOK(f) ==
  held[f] # NULL => /\ load.fieldOf[held[f]] = f /\ held[f] \in sent
                    /\ replies[held[f]] = 0 <=> ~Busy(f)

\* What a client is about to store is its own, unreplied and nowhere else.
PendingOK(c) ==
  creq[c] # NULL => /\ ClientOf[creq[c]] = c /\ Unreplied(creq[c])
                    /\ \A f \in Fields : held[f] # creq[c]

\* An unreplied request is held or about to be; none is replied twice.
HoldOK(h) ==
  /\ Unreplied(h) => (\E f \in Fields : held[f] = h)
     \/ (\E c \in Clients : creq[c] = h)
  /\ h \notin sent => replies[h] = 0
  /\ replies[h] <= 1

HoldInv ==
  /\ \A f \in Fields : HeldOK(f)
  /\ \A c \in Clients : PendingOK(c)
  /\ \A h \in Holds : HoldOK(h)

\* Steps that leave the held requests and their senders alone.
LEMMA HoldFrame ==
  ASSUME ControlInv, HoldInv, UNCHANGED <<held, cpc, creq, load>>,
         \A h \in Holds : replies'[h] = replies[h]
           /\ (h \in sent' <=> h \in sent)
  PROVE  HoldInv'
<1>1. \A f : Busy(f)' <=> Busy(f)
  BY DEF Busy, Replaces, Removes
<1>2. \A h \in Holds : Unreplied(h)' <=> Unreplied(h)
  BY DEF Unreplied
<1>3. ASSUME NEW f \in Fields PROVE HeldOK(f)'
  BY <1>1 DEF ControlInv, LTypeOK, HoldInv, HeldOK
<1>4. ASSUME NEW c \in Clients PROVE PendingOK(c)'
  BY <1>2 DEF ControlInv, LTypeOK, HoldInv, PendingOK
<1>5. ASSUME NEW h \in Holds PROVE HoldOK(h)'
  BY <1>2 DEF HoldInv, HoldOK
<1> QED
  BY <1>3, <1>4, <1>5 DEF HoldInv

\* With one client per field, only that client can be between the two halves
\* of a replacement or removal in BeginIO.c.
LEMMA NotBusy ==
  ASSUME ControlInv, HoldInv, SingleHolder, NEW c \in Clients, NEW f \in Fields,
         \/ \E h \in Holds : load.fieldOf[h] = f /\ ClientOf[h] = c
         \/ c \in Removers /\ f = "changeint_req" /\ \E h \in Holds :
            load.fieldOf[h] = f
  PROVE  \A d \in Clients : Replaces(d, f) \/ Removes(d, f) => d = c
<1> SUFFICES ASSUME NEW d \in Clients, Replaces(d, f) \/ Removes(d, f)
  PROVE d = c
  OBVIOUS
<1>1. load \in Loads
  BY DEF ControlInv, LTypeOK
<1>2. CASE Replaces(d, f)
  <2>1. creq[d] \in Holds /\ load.fieldOf[creq[d]] = f /\ ClientOf[creq[d]] = d
    BY <1>2 DEF ControlInv, LTypeOK, ClientAt, HoldInv, PendingOK, Replaces
  <2> QED
    BY <1>1, <2>1 DEF SingleHolder
<1>3. CASE Removes(d, f)
  BY <1>1, <1>3 DEF SingleHolder, Removes, ControlInv, ClientAt
<1> QED
  BY <1>2, <1>3

\* TD_ADDCHANGEINT and TD_REMOVE reply the request that is held, which nobody
\* has replied yet.
LEMMA HoldBegin ==
  ASSUME ControlInv, HoldInv, SingleHolder, NEW r \in Requests, BeginHold(r)
  PROVE  HoldInv'
<1>0. PICK f \in Fields : f = load.fieldOf[r]
  BY LifecycleAssumption DEF BeginHold, ControlInv, LTypeOK, LoadsOf
<1> DEFINE c == ClientOf[r]
<1>1. /\ f = load.fieldOf[r] /\ r \in Holds /\ c \in Clients /\ r # NULL
         /\ NULL \notin Holds
      /\ r \notin sent /\ replies[r] = 0 /\ cpc[c] = "ready"
      /\ held' = held /\ load' = load /\ sent' = sent \cup {r}
  BY <1>0, LifecycleAssumption DEF BeginHold, Begin, ControlInv, LTypeOK,
    LoadsOf,
     Requests, HoldInv, HoldOK
<1>2. /\ cpc'[c] = "hold" /\ creq'[c] = r
      /\ \A d \in Clients \ {c} : cpc'[d] = cpc[d] /\ creq'[d] = creq[d]
  BY <1>1 DEF BeginHold, ControlInv, LTypeOK
<1>3. \A h \in Holds : replies'[h] = IF h = held[f]
        THEN replies[h] + 1 ELSE replies[h]
  BY <1>1 DEF BeginHold, ReplyAll, Requests
<1>4. ~Busy(f)
  BY <1>1, NotBusy DEF Busy, Replaces, Removes
<1>5. /\ Busy(f)'
      /\ \A g \in Fields \ {f} : Busy(g)' <=> Busy(g)
  <2>1. Replaces(c, f)' /\ \A g \in Fields \ {f} : ~Replaces(c, g)'
          /\ ~Removes(c, g)' /\ ~Replaces(c, g) /\ ~Removes(c, g)
    BY <1>1, <1>2 DEF Replaces, Removes
  <2>2. \A d \in Clients \ {c}, g \in Fields :
          (Replaces(d, g)' <=> Replaces(d, g))
          /\ (Removes(d, g)' <=> Removes(d, g))
    BY <1>1, <1>2 DEF Replaces, Removes
  <2> QED
    BY <1>1, <2>1, <2>2 DEF Busy
<1> HIDE DEF c
<1>6. \A g \in Fields : held[g] # r /\ held[g] \in Holds \cup {NULL}
  BY <1>1 DEF HoldInv, HeldOK, ControlInv, LTypeOK
<1>7. held[f] # NULL => Unreplied(held[f])
  BY <1>1, <1>4 DEF HoldInv, HeldOK, Unreplied
<1>8. \A g \in Fields \ {f} : held[g] # NULL => held[g] # held[f]
  BY <1>1 DEF HoldInv, HeldOK
<1>9. ASSUME NEW g \in Fields PROVE HeldOK(g)'
  <2>1. CASE g = f
    BY <1>1, <1>3, <1>5, <1>6, <1>7, <2>1 DEF HoldInv, HeldOK, Unreplied
  <2>2. CASE g # f
    BY <1>1, <1>3, <1>5, <1>6, <1>8, <2>2 DEF HoldInv, HeldOK
  <2> QED
    BY <2>1, <2>2
<1>10. ASSUME NEW d \in Clients PROVE PendingOK(d)'
  <2>1. CASE d = c
    BY <1>1, <1>2, <1>3, <1>6, <2>1 DEF PendingOK, Unreplied, c
  <2>2. CASE d # c
    <3>1. creq'[d] = creq[d] /\ creq[d] \in Holds \cup {NULL}
      BY <1>2, <2>2 DEF ControlInv, LTypeOK
    <3> QED
      BY <1>1, <1>3, <3>1 DEF HoldInv, PendingOK, Unreplied
  <2> QED
    BY <2>1, <2>2
<1>11. ASSUME NEW h \in Holds PROVE HoldOK(h)'
  <2>1. CASE h = r
    BY <1>1, <1>2, <1>3, <1>6, <2>1 DEF HoldOK, Unreplied
  <2>2. CASE h # r
    <3>1. \A d \in Clients : creq[d] = h => creq'[d] = h
      BY <1>1, <1>2, <2>2 DEF ControlInv, ClientAt, LTypeOK
    <3>2. h = held[f] => Unreplied(h)
      BY <1>1, <1>7
    <3> QED
      BY <1>1, <1>3, <2>2, <3>1, <3>2 DEF HoldInv, HoldOK, Unreplied, ControlInv,
        LTypeOK
  <2> QED
    BY <2>1, <2>2
<1> QED
  BY <1>9, <1>10, <1>11 DEF HoldInv

\* The new request takes the place of one that has been replied.
LEMMA HoldStore ==
  ASSUME ControlInv, HoldInv, SingleHolder, NEW c \in Clients, StoreHold(c)
  PROVE  HoldInv'
<1>0. PICK r \in Holds, f \in Fields : r = creq[c] /\ f = load.fieldOf[r]
  BY LifecycleAssumption DEF StoreHold, ControlInv, LTypeOK, ClientAt, LoadsOf
<1>1. /\ r = creq[c] /\ r # NULL /\ f = load.fieldOf[r] /\ NULL \notin Holds
      /\ ClientOf[r] = c /\ Unreplied(r) /\ cpc[c] = "hold"
      /\ \A g \in Fields : held[g] # r
      /\ UNCHANGED <<sent, replies, load>>
  BY <1>0, LifecycleAssumption DEF StoreHold, ControlInv, LTypeOK, ClientAt,
     Requests, HoldInv, PendingOK
<1>2. /\ cpc'[c] = "ready" /\ creq'[c] = NULL
      /\ \A d \in Clients \ {c} : cpc'[d] = cpc[d] /\ creq'[d] = creq[d]
      /\ held'[f] = r
      /\ \A g \in Fields \ {f} : held'[g] = held[g]
  BY <1>1 DEF StoreHold, ControlInv, LTypeOK
<1>3. Replaces(c, f) /\ Busy(f) /\ \A g : Replaces(c, g) => g = f
  BY <1>1 DEF Busy, Replaces
<1>4. \A d \in Clients : Replaces(d, f) \/ Removes(d, f) => d = c
  BY <1>1, NotBusy
<1>5. ~Busy(f)' /\ \A g \in Fields \ {f} : Busy(g)' <=> Busy(g)
  <2>1. \A g \in Fields : ~Replaces(c, g)' /\ ~Removes(c, g)' /\ ~Removes(c, g)
    BY <1>1, <1>2 DEF Replaces, Removes
  <2>2. \A d \in Clients \ {c}, g \in Fields :
          (Replaces(d, g)' <=> Replaces(d, g))
          /\ (Removes(d, g)' <=> Removes(d, g))
    BY <1>1, <1>2 DEF Replaces, Removes
  <2> QED
    BY <1>1, <1>3, <1>4, <2>1, <2>2 DEF Busy
<1>6. held[f] # NULL => ~Unreplied(held[f])
  BY <1>1, <1>3 DEF HoldInv, HeldOK, Unreplied
<1>7. ASSUME NEW g \in Fields PROVE HeldOK(g)'
  <2>1. CASE g = f
    BY <1>1, <1>2, <1>5, <2>1 DEF HeldOK, Unreplied
  <2>2. CASE g # f
    BY <1>1, <1>2, <1>5, <2>2 DEF HoldInv, HeldOK
  <2> QED
    BY <2>1, <2>2
<1>8. ASSUME NEW d \in Clients PROVE PendingOK(d)'
  <2>1. CASE d = c
    BY <1>2, <2>1 DEF PendingOK
  <2>2. CASE d # c
    <3>1. creq'[d] = creq[d] /\ (creq[d] # NULL => creq[d] # r)
      BY <1>1, <1>2, <2>2 DEF HoldInv, PendingOK
    <3> QED
      BY <1>1, <1>2, <3>1 DEF HoldInv, PendingOK, Unreplied
  <2> QED
    BY <2>1, <2>2
<1>9. ASSUME NEW h \in Holds PROVE HoldOK(h)'
  <2>1. CASE h = r
    BY <1>1, <1>2, <2>1 DEF HoldInv, HoldOK, Unreplied
  <2>2. CASE h # r
    <3>1. Unreplied(h) => h # held[f]
      BY <1>1, <1>6
    <3>2. Unreplied(h)' <=> Unreplied(h)
      BY <1>1 DEF Unreplied
    <3>3. \A d \in Clients : creq[d] = h => creq'[d] = h
      BY <1>1, <1>2, <2>2
    <3> QED
      BY <1>1, <1>2, <3>1, <3>2, <3>3 DEF HoldInv, HoldOK
  <2> QED
    BY <2>1, <2>2
<1> QED
  BY <1>7, <1>8, <1>9 DEF HoldInv

\* TD_REMCHANGEINT replies the held request, which nobody has replied yet.
LEMMA HoldRemove ==
  ASSUME ControlInv, HoldInv, SingleHolder, NEW c \in Clients, BeginRemove(c)
  PROVE  HoldInv'
<1> DEFINE f == "changeint_req"
           r == held[f]
<1>1. /\ f \in Fields /\ r \in Holds /\ r # NULL /\ c \in Removers
         /\ cpc[c] = "ready"
      /\ load.fieldOf[r] = f /\ r \in sent /\ creq[c] = NULL
      /\ UNCHANGED <<held, creq, sent, load>>
  BY DEF BeginRemove, ControlInv, LTypeOK, ClientAt, Fields, HoldInv, HeldOK
<1>2. /\ cpc'[c] = "remove"
      /\ \A d \in Clients \ {c} : cpc'[d] = cpc[d]
  BY DEF BeginRemove, ControlInv, LTypeOK
<1>3. \A h \in Holds : replies'[h] = IF h = r
        THEN replies[h] + 1 ELSE replies[h]
  BY DEF BeginRemove, Reply, ReplyAll, Requests
<1>4. ~Busy(f)
  BY <1>1, NotBusy DEF Busy, Replaces, Removes
<1>5. Busy(f)' /\ \A g \in Fields \ {f} : Busy(g)' <=> Busy(g)
  <2>1. Removes(c, f)' /\ \A g \in Fields \ {f} : ~Replaces(c, g)'
          /\ ~Removes(c, g)' /\ ~Replaces(c, g) /\ ~Removes(c, g)
    BY <1>1, <1>2 DEF Replaces, Removes
  <2>2. \A d \in Clients \ {c}, g \in Fields :
          (Replaces(d, g)' <=> Replaces(d, g))
          /\ (Removes(d, g)' <=> Removes(d, g))
    BY <1>1, <1>2 DEF Replaces, Removes
  <2> QED
    BY <1>1, <2>1, <2>2 DEF Busy
<1>6. replies[r] = 0
  BY <1>1, <1>4 DEF HoldInv, HeldOK
<1>7. /\ \A d \in Clients : creq[d] # r
      /\ \A g \in Fields \ {f} : held[g] # r
  BY <1>1 DEF HoldInv, HeldOK, PendingOK
<1> HIDE DEF f
<1>8. ASSUME NEW g \in Fields PROVE HeldOK(g)'
  <2>1. CASE g = f
    BY <1>1, <1>3, <1>5, <1>6, <2>1 DEF HoldInv, HeldOK
  <2>2. CASE g # f
    BY <1>1, <1>3, <1>5, <1>7, <2>2 DEF HoldInv, HeldOK, ControlInv, LTypeOK
  <2> QED
    BY <2>1, <2>2
<1>9. ASSUME NEW d \in Clients PROVE PendingOK(d)'
  BY <1>1, <1>3, <1>7 DEF HoldInv, PendingOK, Unreplied, ControlInv, LTypeOK
<1>10. ASSUME NEW h \in Holds PROVE HoldOK(h)'
  BY <1>1, <1>3, <1>6 DEF HoldInv, HoldOK, Unreplied, ControlInv, LTypeOK
<1> QED
  BY <1>8, <1>9, <1>10 DEF HoldInv

\* The field that TD_REMCHANGEINT clears names a request that has been
\* replied.
LEMMA HoldClear ==
  ASSUME ControlInv, HoldInv, NEW c \in Clients, ClearHold(c)
  PROVE  HoldInv'
<1> DEFINE f == "changeint_req"
<1>1. f \in Fields /\ cpc[c] = "remove" /\ creq[c] = NULL
        /\ UNCHANGED <<creq, sent, replies, load>>
  BY DEF ClearHold, ControlInv, ClientAt, LTypeOK, Fields
<1>2. /\ cpc'[c] = "ready"
      /\ \A d \in Clients \ {c} : cpc'[d] = cpc[d]
      /\ held'[f] = NULL
      /\ \A g \in Fields \ {f} : held'[g] = held[g]
  BY <1>1 DEF ClearHold, ControlInv, LTypeOK
<1>3. Busy(f)
  BY <1>1 DEF Busy, Removes
<1>4. \A g \in Fields \ {f} : Busy(g)' <=> Busy(g)
  <2>1. \A g \in Fields \ {f} : ~Replaces(c, g)' /\ ~Removes(c, g)'
          /\ ~Replaces(c, g) /\ ~Removes(c, g)
    BY <1>1, <1>2 DEF Replaces, Removes
  <2>2. \A d \in Clients \ {c}, g \in Fields :
          (Replaces(d, g)' <=> Replaces(d, g))
          /\ (Removes(d, g)' <=> Removes(d, g))
    BY <1>1, <1>2 DEF Replaces, Removes
  <2> QED
    BY <2>1, <2>2 DEF Busy
<1> HIDE DEF f
<1>5. ASSUME NEW g \in Fields PROVE HeldOK(g)'
  <2>1. CASE g = f
    BY <1>2, <2>1 DEF HeldOK
  <2>2. CASE g # f
    BY <1>1, <1>2, <1>4, <2>2 DEF HoldInv, HeldOK
  <2> QED
    BY <2>1, <2>2
<1>6. ASSUME NEW d \in Clients PROVE PendingOK(d)'
  <2>1. \A g \in Fields : held'[g] = held[g] \/ held'[g] = NULL
    BY <1>2
  <2> QED
    BY <1>1, <2>1 DEF HoldInv, PendingOK, Unreplied
<1>7. ASSUME NEW h \in Holds PROVE HoldOK(h)'
  <2>1. h # NULL /\ (Unreplied(h)' <=> Unreplied(h))
    BY <1>1, LifecycleAssumption DEF Requests, Unreplied
  <2>2. Unreplied(h) => held[f] # h
    BY <1>1, <1>3, <2>1 DEF HoldInv, HeldOK, Unreplied
  <2> QED
    BY <1>1, <1>2, <2>1, <2>2 DEF HoldInv, HoldOK
<1> QED
  BY <1>5, <1>6, <1>7 DEF HoldInv

\* Reply_Held_Async_Reqs runs when nobody has the unit open: no client is
\* inside BeginIO and what is held is unreplied.
LEMMA HoldDrop ==
  ASSUME ControlInv, HoldInv, Reply_Held_Async_Reqs, opened = {},
         UNCHANGED <<beginVars, sent, load>>
  PROVE  HoldInv'
<1>1. \A c \in Clients : creq[c] = NULL /\ creq'[c] = NULL
  BY DEF ControlInv, ClientAt, LTypeOK
<1>2. \A f \in Fields : ~Busy(f) /\ held'[f] = NULL
  BY DEF ControlInv, ClientAt, Busy, Replaces, Removes, Reply_Held_Async_Reqs
<1>3. \A h \in Holds : h # NULL /\ replies'[h] = IF h \in HeldNow
        THEN replies[h] + 1 ELSE replies[h]
  BY LifecycleAssumption DEF Reply_Held_Async_Reqs, ReplyAll, Requests
<1>4. ASSUME NEW h \in Holds PROVE HoldOK(h)'
  <2>1. CASE h \in HeldNow
    <3>1. PICK f \in Fields : held[f] = h
      BY <2>1 DEF HeldNow
    <3>2. replies[h] = 0 /\ h \in sent
      BY <1>2, <1>3, <3>1 DEF HoldInv, HeldOK
    <3> QED
      BY <1>3, <2>1, <3>2 DEF HoldOK, Unreplied
  <2>2. CASE h \notin HeldNow
    <3>1. ~Unreplied(h)
      BY <1>1, <1>3, <2>2 DEF HoldInv, HoldOK, HeldNow
    <3> QED
      BY <1>3, <2>2, <3>1 DEF HoldInv, HoldOK, Unreplied
  <2> QED
    BY <2>1, <2>2
<1> QED
  BY <1>1, <1>2, <1>4 DEF HoldInv, HeldOK, PendingOK

\* The unit task and BeginIO's queued commands reply no held request.
LEMMA HoldIo ==
  ASSUME ControlInv, HoldInv, IoInv,
         \/ \E r \in Requests : BeginIO(r)
         \/ Dispatch \/ DoIOReturns \/ (\E r \in Io : Harvest(r))
         \/ DrainSlots \/ DrainMessages
  PROVE  HoldInv'
<1>1. \A R \in SUBSET Io : ReplyAll(R) => \A h \in Holds :
        replies'[h] = replies[h]
  BY LifecycleAssumption DEF ReplyAll, Requests
<1>2. \A r \in Io : Reply(r) => \A h \in Holds : replies'[h] = replies[h]
  BY <1>1 DEF Reply
<1>3. CASE \E r \in Requests : BeginIO(r)
  <2>1. PICK r \in Requests : BeginIO(r)
    BY <1>3
  <2>2. r \in Io /\ r \notin Holds /\ sent' = sent \cup {r}
          /\ UNCHANGED <<held, beginVars, load>>
        /\ (Reply(r) \/ UNCHANGED replies)
    BY <2>1, LifecycleAssumption DEF BeginIO, Begin
  <2> QED
    BY <1>2, <2>2, HoldFrame
<1>4. CASE Dispatch
  <2>1. Head(queue) \in Io /\ UNCHANGED <<held, beginVars, sent, load>>
        /\ (Reply(Head(queue)) \/ UNCHANGED replies)
    BY <1>4, HeadLeaves DEF Dispatch
  <2> QED
    BY <1>2, <2>1, HoldFrame
<1>5. CASE DoIOReturns
  <2>1. doio \in Io /\ Reply(doio) /\ UNCHANGED <<held, beginVars, sent, load>>
    BY <1>5 DEF DoIOReturns, ControlInv, LTypeOK, TaskAt
  <2> QED
    BY <1>2, <2>1, HoldFrame
<1>6. CASE \E r \in Io : Harvest(r)
  BY <1>2, <1>6, HoldFrame DEF Harvest
<1>7. CASE DrainSlots
  <2>1. inflight \subseteq Io /\ ReplyAll(inflight)
          /\ UNCHANGED <<held, beginVars, sent, load>>
    BY <1>7 DEF DrainSlots, SlotsAborted, ControlInv, LTypeOK
  <2> QED
    BY <1>1, <2>1, HoldFrame
<1>8. CASE DrainMessages
  <2>1. UNCHANGED <<held, beginVars, sent, load>>
        /\ (UNCHANGED replies \/ (Head(queue) \in Io /\ Reply(Head(queue))))
    BY <1>8, HeadLeaves DEF DrainMessages
  <2> QED
    BY <1>2, <2>1, HoldFrame
<1> QED
  BY <1>3, <1>4, <1>5, <1>6, <1>7, <1>8

\* Every step keeps the invariant of the held requests.
LEMMA HoldStep ==
  ASSUME ControlInv, IoInv, HoldInv, SingleHolder, [Next]_vars PROVE HoldInv'
<1>1. CASE UNCHANGED <<held, beginVars, sent, replies, load>>
  BY <1>1, HoldFrame
<1>2. CASE UNCHANGED vars
  BY <1>1, <1>2 DEF vars
<1>3. CASE \E c \in Clients : Open(c) \/ Close(c) \/ BeginRemove(c)
        \/ InBeginIO(c)
  <2>1. PICK c \in Clients : Open(c) \/ Close(c) \/ BeginRemove(c)
          \/ InBeginIO(c)
    BY <1>3
  <2>2. CASE Open(c) \/ Close(c)
    BY <1>1, <2>2 DEF Open, Close
  <2> QED
    BY <2>1, <2>2, HoldRemove, HoldStore, HoldClear DEF InBeginIO
<1>4. CASE \E r \in Requests : BeginIO(r) \/ BeginHold(r)
  BY <1>4, HoldIo, HoldBegin
<1>5. CASE Expunge \/ \E r \in Io : DeviceDone(r)
  BY <1>1, <1>5 DEF Expunge, DeviceDone
<1>6. CASE Manager
  <2>1. CASE CreateTask \/ NoTask \/ TaskReady \/ Preallocate \/ OpenReturns
    BY <1>1, <2>1 DEF CreateTask, NoTask, TaskReady, Preallocate, OpenReturns
  <2>2. CASE Shutdown \/ BreakTask \/ TaskExited \/ FreeDma \/ CloseReturns
    BY <1>1, <2>2 DEF Shutdown, BreakTask, TaskExited, FreeDma, CloseReturns
  <2>4. CASE SleepForExit \/ WokenByBreak
    BY <1>1, <2>4 DEF SleepForExit, WokenByBreak
  <2>3. CASE ExpungeReturns
    <3>1. opened = {}
      BY <2>3, Opened DEF ExpungeReturns, ControlInv, LTypeOK, ManagerAt
    <3> QED
      BY <2>3, <3>1, HoldDrop DEF ExpungeReturns
  <2> QED
    BY <1>6, <2>1, <2>2, <2>3, <2>4 DEF Manager
<1>7. CASE Task
  <2>1. CASE TaskPort \/ TaskMutex \/ TaskSignal \/ TaskUndo \/ Wake
    BY <1>1, <2>1 DEF TaskPort, TaskMutex, TaskSignal, TaskUndo, Wake
  <2>2. CASE RoundEnds \/ Unregister \/ ClearTask
    BY <1>1, <2>2 DEF RoundEnds, Unregister, ClearTask
  <2>3. CASE DrainHeld
    <3>1. opened = {}
      BY <2>3, Opened DEF DrainHeld, ControlInv, LTypeOK, Handshake, ManagerAt
    <3> QED
      BY <2>3, <3>1, HoldDrop DEF DrainHeld
  <2> QED
    BY <1>7, <2>1, <2>2, <2>3, HoldIo DEF Task
<1>8. CASE Leave
  BY <1>1, <1>8 DEF Leave, NotifyExit, TaskReturns
<1> QED
  BY <1>2, <1>3, <1>4, <1>5, <1>6, <1>7, <1>8 DEF Next

\* Nothing is held.
LEMMA HoldInit == Init => HoldInv
<1> SUFFICES ASSUME Init PROVE HoldInv
  OBVIOUS
<1>1. /\ \A f \in Fields : held[f] = NULL
      /\ \A c \in Clients : creq[c] = NULL
      /\ sent = {} /\ \A h \in Holds : replies[h] = 0
  BY DEF Init, Requests
<1> QED
  BY <1>1 DEF HoldInv, HeldOK, PendingOK, HoldOK, Unreplied

\* A held request is in its field or with the client that is storing it, and
\* it is replied exactly when the field's client is between reply and store
\* (BeginIO.c).
THEOREM HoldInvariant == ASSUME SingleHolder PROVE Spec => []HoldInv
<1>1. HoldInv /\ ControlInv /\ IoInv /\ [Next]_vars => HoldInv'
  BY HoldStep
<1> QED
  BY <1>1, HoldInit, ControlInvariant, IoInvariant, PTL DEF Spec

\* An unreplied request is in the hands of exactly one part of the driver.
LEMMA OneKeeper ==
  ASSUME ControlInv, IoInv, HoldInv, SoundStarts, NEW r \in sent, replies[r] = 0
  PROVE  \E k : Keepers(r) = {k}
<1>1. /\ r \in Requests /\ Unreplied(r) /\ NULL \notin Requests
         /\ Io \cap Holds = {}
      /\ held \in [Fields -> Holds \cup {NULL}]
         /\ creq \in [Clients -> Holds \cup {NULL}]
      /\ inflight \subseteq Io /\ doio \in Io \cup {NULL}
  BY LifecycleAssumption DEF ControlInv, LTypeOK, Unreplied
<1>2. AtPort(r) <=> r \in Queued
  BY DEF AtPort, Queued, ControlInv, LTypeOK
<1>3. AtPort(r) => r \in Io
  BY DEF AtPort, ControlInv, LTypeOK
<1>4. CASE r \in Io
  <2>1. {f \in Fields : held[f] = r} = {} /\ {c \in Clients : creq[c] = r} = {}
    BY <1>1, <1>4 DEF Requests
  <2>2. CASE AtPort(r)
    <3>1. r \notin inflight /\ r # doio
      BY <1>4, <2>2 DEF IoInv, IoOK
    <3> QED
      BY <1>2, <2>1, <2>2, <3>1 DEF Keepers
  <2>3. CASE r \in inflight
    <3>1. ~AtPort(r) /\ r # doio
      BY <1>4, <2>3 DEF IoInv, IoOK
    <3> QED
      BY <1>2, <2>1, <2>3, <3>1 DEF Keepers
  <2>4. CASE r = doio
    <3>1. ~AtPort(r) /\ r \notin inflight
      BY <1>4, <2>4 DEF IoInv, IoOK
    <3> QED
      BY <1>2, <2>1, <2>4, <3>1 DEF Keepers
  <2> QED
    BY <1>1, <1>4, <2>2, <2>3, <2>4 DEF IoInv, IoOK
<1>5. CASE r \in Holds
  <2>1. r \notin Queued /\ r \notin inflight /\ r # doio
    BY <1>1, <1>2, <1>3, <1>5 DEF Requests
  <2>2. CASE \E f \in Fields : held[f] = r
    <3>1. PICK f \in Fields : held[f] = r
      BY <2>2
    <3>2. r # NULL
      BY <1>1
    <3>3. \A g \in Fields : held[g] = r => g = f
      BY <3>1, <3>2 DEF HoldInv, HeldOK
    <3>4. \A c \in Clients : creq[c] # r
      BY <3>1, <3>2 DEF HoldInv, PendingOK
    <3>5. {g \in Fields : held[g] = r} = {f} /\ {c \in Clients : creq[c] = r} = {}
      BY <3>1, <3>3, <3>4
    <3>6. Keepers(r) = {f}
      BY <2>1, <3>5 DEF Keepers
    <3> QED
      BY <3>6
  <2>3. CASE \E c \in Clients : creq[c] = r
    <3>1. PICK c \in Clients : creq[c] = r
      BY <2>3
    <3>2. r # NULL
      BY <1>1
    <3>3. ClientOf[r] = c /\ \A f \in Fields : held[f] # r
      BY <3>1, <3>2 DEF HoldInv, PendingOK
    <3>4. \A d \in Clients : creq[d] = r => d = c
      BY <3>2, <3>3 DEF HoldInv, PendingOK
    <3>5. {d \in Clients : creq[d] = r} = {c} /\ {f \in Fields : held[f] = r} = {}
      BY <3>1, <3>3, <3>4
    <3>6. Keepers(r) = {c}
      BY <2>1, <3>5 DEF Keepers
    <3> QED
      BY <3>6
  <2> QED
    BY <1>1, <1>5, <2>2, <2>3 DEF HoldInv, HoldOK
<1> QED
  BY <1>1, <1>4, <1>5 DEF Requests

\* "Silent overwrite would orphan the prior IORequest" (BeginIO.c:52): no
\* request is lost and none is replied twice, if the change-notification
\* requests of a field come from one client. Two clients in BeginIO at once
\* may both reply the one they find, so the hypothesis is needed; the request
\* a DoIO gave up, starts, drains and expunges are all covered.
THEOREM NoOrphanSafe == ASSUME SingleHolder PROVE Spec => []NoOrphan
<1>1. ControlInv /\ IoInv /\ HoldInv => NoOrphan
  <2> SUFFICES ASSUME ControlInv, IoInv, HoldInv PROVE NoOrphan
    OBVIOUS
  <2>1. ASSUME SoundStarts, NEW r \in sent, replies[r] = 0
        PROVE  Cardinality(Keepers(r)) = 1
    <3>1. PICK k : Keepers(r) = {k}
      BY <2>1, OneKeeper
    <3>2. Cardinality({k}) = 1
      BY FS_Singleton
    <3> QED
      BY <3>1, <3>2, Zenon
  <2>2. \A r \in Requests : replies[r] <= 1
    BY DEF IoInv, IoOK, HoldInv, HoldOK, Requests
  <2> QED
    BY <2>1, <2>2 DEF NoOrphan
<1> QED
  BY <1>1, ControlInvariant, IoInvariant, HoldInvariant, PTL

=============================================================================
