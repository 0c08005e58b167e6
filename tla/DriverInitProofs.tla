--------------------------- MODULE DriverInitProofs ---------------------------
(***************************************************************************)
(* Proofs about DriverInit and UnitDma, for machines, unit tables, scans   *)
(* and slot counts of any size: whatever call fails, everything obtained   *)
(* is given back once and in order, and the device knows the driver.       *)
(*                                                                         *)
(* The argument keeps books.  Rest is what will be held once the release   *)
(* path under way is worked off; each station of Init, of the scan and of  *)
(* the unit's start determines it exactly.  A release path is a plan:      *)
(* every entry is held, comes once, and comes after all that is built on   *)
(* it.  Giving back its first entry leaves a plan and the same Rest.       *)
(***************************************************************************)
EXTENDS DriverInit, FiniteSetTheorems, SequenceTheorems, TLAPS

-----------------------------------------------------------------------------
(* The books *)

\* What is built on the resource of name n and index i.
Users(n, i) ==
  CASE n = "ExpansionBase" -> {<<"IPCI", i>>}
    [] n = "IPCI"          -> {<<"pciDevice", i>>}
    [] n = "pciDevice"     -> {<<"bar0", i>>, <<"bar4", i>>, <<"irq", i>>}
    [] n = "UtilityBase"   -> {<<"IUtility", i>>}
    [] n = "raw"           -> {<<"vring", i>>}
    [] n = "req_cmd"       -> {<<"req_map", i>>}
    [] n = "resp_cmd"      -> {<<"resp_map", i>>}
    [] n = "req_bufs"      -> {<<"dma_req", i>>}
    [] n = "resp_bufs"     -> {<<"dma_resp", i>>}
    [] n = "bounce_bufs"   -> {<<"dma_bounce", i>>}
    [] n = "dma_req"       -> {<<"dma_req_lists", i>>}
    [] n = "dma_resp"      -> {<<"dma_resp_lists", i>>}
    [] n = "dma_bounce"    -> {<<"tmp", i>>}
    [] OTHER               -> {}

LibNames == {"ExpansionBase", "IPCI", "pciDevice", "bar0", "bar4", "UtilityBase", "IUtility",
             "irq", "inqData"}
QueueNames == {"raw", "vq", "cookies", "indirect_tables", "vring", "vring_dma"}
TempNames == {"req_cmd", "resp_cmd", "req_map", "resp_map", "data_map"}
SlotNames == {"req_bufs", "resp_bufs", "dma_req", "dma_req_lists", "dma_resp", "dma_resp_lists",
              "bounce_bufs", "dma_bounce", "tmp", "data_dma_pool"}
Resources ==
  LibNames \X {NULL} \cup QueueNames \X Queues \cup TempNames \X Nat
    \cup {"unit"} \X Nat \cup SlotNames \X Slots

Elems(S) == {S[k] : k \in 1 .. Len(S)}

\* S gives back part of H, each resource once and after what is built on it.
Plan(H, S) ==
  /\ S \in Seq(H)
  /\ \A j, k \in 1 .. Len(S) : S[j] = S[k] => j = k
  /\ \A j \in 1 .. Len(S) : \A n, i :
       S[j] = <<n, i>> => \A u \in Users(n, i) \cap H : \E k \in 1 .. j - 1 : S[k] = u

\* What is held has what it is built on.
Closed(H) == \A n, i : \A u \in Users(n, i) : u \in H => <<n, i>> \in H

Books == fields = held /\ held \subseteq Resources /\ Plan(held, todo) /\ Closed(held)

Rest == held \ Elems(todo)

\* The table of Users, by name.
LEMMA UsersAre ==
  ASSUME NEW i
  PROVE  /\ Users("ExpansionBase", i) = {<<"IPCI", i>>}
         /\ Users("IPCI", i) = {<<"pciDevice", i>>}
         /\ Users("pciDevice", i) = {<<"bar0", i>>, <<"bar4", i>>, <<"irq", i>>}
         /\ Users("UtilityBase", i) = {<<"IUtility", i>>}
         /\ Users("raw", i) = {<<"vring", i>>}
         /\ Users("req_cmd", i) = {<<"req_map", i>>}
         /\ Users("resp_cmd", i) = {<<"resp_map", i>>}
         /\ Users("req_bufs", i) = {<<"dma_req", i>>}
         /\ Users("resp_bufs", i) = {<<"dma_resp", i>>}
         /\ Users("bounce_bufs", i) = {<<"dma_bounce", i>>}
         /\ Users("dma_req", i) = {<<"dma_req_lists", i>>}
         /\ Users("dma_resp", i) = {<<"dma_resp_lists", i>>}
         /\ Users("dma_bounce", i) = {<<"tmp", i>>}
  BY DEF Users

\* Nothing is built on the others.
LEMMA NoUsers ==
  ASSUME NEW i, NEW n \in {"bar0", "bar4", "irq", "IUtility", "inqData", "vq", "cookies",
                           "indirect_tables", "vring", "vring_dma", "req_map", "resp_map",
                           "data_map", "unit", "dma_req_lists", "dma_resp_lists", "tmp",
                           "data_dma_pool"}
  PROVE  Users(n, i) = {}
  BY DEF Users

\* What a resource is built on.
LEMMA BuiltOn ==
  ASSUME NEW m, NEW j, NEW n, NEW i, <<m, j>> \in Users(n, i)
  PROVE  /\ i = j
         /\ m = "IPCI" => n = "ExpansionBase"
         /\ m \in {"bar0", "bar4", "irq"} => n = "pciDevice"
         /\ m = "pciDevice" => n = "IPCI"
         /\ m = "IUtility" => n = "UtilityBase"
         /\ m = "vring" => n = "raw"
         /\ m = "req_map" => n = "req_cmd"
         /\ m = "resp_map" => n = "resp_cmd"
         /\ m = "dma_req" => n = "req_bufs"
         /\ m = "dma_resp" => n = "resp_bufs"
         /\ m = "dma_bounce" => n = "bounce_bufs"
         /\ m = "dma_req_lists" => n = "dma_req"
         /\ m = "dma_resp_lists" => n = "dma_resp"
         /\ m = "tmp" => n = "dma_bounce"
         /\ m \in {"IPCI", "bar0", "bar4", "irq", "pciDevice", "IUtility", "vring", "req_map",
                   "resp_map", "dma_req", "dma_resp", "dma_bounce", "dma_req_lists",
                   "dma_resp_lists", "tmp"}
  BY DEF Users

\* The empty path has no entry.
LEMMA ElemsEmpty == Elems(<<>>) = {}
  BY DEF Elems

\* Nothing to give back.
LEMMA PlanEmpty == ASSUME NEW H PROVE Plan(H, <<>>)
  BY DEF Plan

\* One resource that nothing held is built on.
LEMMA PlanOne ==
  ASSUME NEW H, NEW n, NEW i, <<n, i>> \in H, Users(n, i) \cap H = {}
  PROVE  Plan(H, <<<<n, i>>>>) /\ Elems(<<<<n, i>>>>) = {<<n, i>>}
<1>1. \A m, j : <<n, i>> = <<m, j>> => Users(m, j) \cap H = {}
  OBVIOUS
<1>2. <<<<n, i>>>> \in Seq(H) /\ Len(<<<<n, i>>>>) = 1 /\ <<<<n, i>>>>[1] = <<n, i>>
  OBVIOUS
<1> QED
  BY <1>1, <1>2 DEF Plan, Elems

\* One plan after the other.
LEMMA PlanConcat ==
  ASSUME NEW H, NEW A, NEW B, Plan(H, A), Plan(H \ Elems(A), B)
  PROVE  Plan(H, A \o B) /\ Elems(A \o B) = Elems(A) \cup Elems(B)
<1> DEFINE C == A \o B
           m == Len(A)
           n == Len(B)
<1>1. /\ A \in Seq(H) /\ B \in Seq(H \ Elems(A)) /\ B \in Seq(H)
      /\ m \in Nat /\ n \in Nat
  BY DEF Plan
<1>2. /\ C \in Seq(H) /\ Len(C) = m + n
      /\ \A k \in 1 .. m : C[k] = A[k]
      /\ \A k \in 1 .. n : C[m + k] = B[k]
  BY <1>1
<1>3. \A k \in 1 .. m + n : \/ k \in 1 .. m /\ C[k] = A[k]
                            \/ k - m \in 1 .. n /\ C[k] = B[k - m]
  <2>1. ASSUME NEW k \in 1 .. m + n, k \notin 1 .. m PROVE k - m \in 1 .. n /\ C[k] = B[k - m]
    <3>1. k - m \in 1 .. n /\ m + (k - m) = k
      BY <1>1, <2>1
    <3> QED
      BY <1>2, <3>1
  <2> QED
    BY <1>2, <2>1
<1> HIDE DEF C
<1>4. \A k \in 1 .. m : A[k] \in Elems(A)
  BY DEF Elems
<1>5. \A k \in 1 .. n : B[k] \in H \ Elems(A)
  BY <1>1
<1>6. Elems(C) = Elems(A) \cup Elems(B)
  <2>1. Elems(C) \subseteq Elems(A) \cup Elems(B)
    BY <1>2, <1>3 DEF Elems
  <2>2. Elems(A) \subseteq Elems(C)
    <3>1. \A k \in 1 .. m : k \in 1 .. Len(C)
      BY <1>1, <1>2
    <3> QED
      BY <1>2, <3>1 DEF Elems
  <2>3. Elems(B) \subseteq Elems(C)
    <3>1. \A k \in 1 .. n : m + k \in 1 .. Len(C)
      BY <1>1, <1>2
    <3> QED
      BY <1>2, <3>1 DEF Elems
  <2> QED
    BY <2>1, <2>2, <2>3
<1>7. \A j, k \in 1 .. Len(C) : C[j] = C[k] => j = k
  <2>1. SUFFICES ASSUME NEW j \in 1 .. m + n, NEW k \in 1 .. m + n, C[j] = C[k] PROVE j = k
    BY <1>2
  <2>2. CASE j \in 1 .. m /\ k \in 1 .. m
    BY <1>2, <2>1, <2>2 DEF Plan
  <2>3. CASE j - m \in 1 .. n /\ k - m \in 1 .. n /\ C[j] = B[j - m] /\ C[k] = B[k - m]
    <3>1. j - m = k - m
      BY <2>1, <2>3 DEF Plan
    <3> QED
      BY <1>1, <3>1
  <2> QED
    BY <1>3, <1>4, <1>5, <2>1, <2>2, <2>3
<1>8. ASSUME NEW j \in 1 .. Len(C), NEW x, NEW i, C[j] = <<x, i>>, NEW u \in Users(x, i) \cap H
      PROVE  \E k \in 1 .. j - 1 : C[k] = u
  <2>1. j \in 1 .. m + n
    BY <1>2
  <2>2. CASE j \in 1 .. m /\ C[j] = A[j]
    <3>1. PICK k \in 1 .. j - 1 : A[k] = u
      BY <1>8, <2>2 DEF Plan
    <3>2. k \in 1 .. m /\ C[k] = A[k]
      BY <1>1, <1>2, <2>2
    <3> QED
      BY <3>1, <3>2
  <2>3. CASE j - m \in 1 .. n /\ C[j] = B[j - m]
    <3>1. CASE u \in Elems(A)
      <4>1. PICK k \in 1 .. m : A[k] = u
        BY <3>1 DEF Elems
      <4>2. k \in 1 .. j - 1
        BY <1>1, <2>1, <2>3
      <4> QED
        BY <1>2, <4>1, <4>2
    <3>2. CASE u \notin Elems(A)
      <4>1. PICK k \in 1 .. (j - m) - 1 : B[k] = u
        BY <1>8, <2>3, <3>2 DEF Plan
      <4>2. k \in 1 .. n /\ m + k \in 1 .. j - 1
        BY <1>1, <2>1, <2>3
      <4> QED
        BY <1>2, <4>1, <4>2
    <3> QED
      BY <3>1, <3>2
  <2> QED
    BY <1>3, <2>1, <2>2, <2>3
<1>9. Plan(H, C)
  BY <1>2, <1>7, <1>8 DEF Plan
<1> QED
  BY <1>6, <1>9 DEF C

\* A comes before B.
Then(H, A, B) == Plan(H, A) /\ Plan(H \ Elems(A), B)

\* PlanConcat under that name.
LEMMA PlanThen ==
  ASSUME NEW H, NEW A, NEW B, Then(H, A, B)
  PROVE  Plan(H, A \o B) /\ Elems(A \o B) = Elems(A) \cup Elems(B)
  BY PlanConcat DEF Then

\* Giving back the first entry keeps the books, and what is left in the end.
LEMMA ReleaseOK ==
  ASSUME Books, Release
  PROVE  Books' /\ Rest' = Rest
<1> DEFINE r == Head(todo)
           n == Len(todo)
<1>1. /\ todo \in Seq(held) /\ todo # <<>> /\ n \in Nat \ {0} /\ r = todo[1]
      /\ held' = held \ {r} /\ fields' = held' /\ todo' = Tail(todo)
      /\ Len(todo') = n - 1 /\ \A k \in 1 .. n - 1 : todo'[k] = todo[k + 1]
  BY DEF Books, Plan, Release
<1>2. \A k \in 1 .. n : todo[k] \in held
  BY <1>1
<1>3. \A k \in 1 .. n - 1 : k + 1 \in 1 .. n /\ todo'[k] = todo[k + 1] /\ todo[k + 1] # r
  BY <1>1 DEF Books, Plan
<1>4. todo' \in Seq(held')
  <2>1. \A k \in 1 .. n - 1 : todo'[k] \in held'
    BY <1>1, <1>2, <1>3
  <2>2. todo' \in [1 .. n - 1 -> held']
    <3>1. todo' \in Seq(held)
      BY <1>1
    <3>2. todo' \in [1 .. n - 1 -> held]
      BY <1>1, <3>1, LenProperties
    <3> QED
      BY <2>1, <3>2
  <2>3. n - 1 \in Nat
    BY <1>1
  <2> QED
    BY <2>2, <2>3, SeqDef
<1>5. \A j, k \in 1 .. n - 1 : todo'[j] = todo'[k] => j = k
  <2>1. \A j, k \in 1 .. n - 1 : todo'[j] = todo'[k] => j + 1 = k + 1
    BY <1>3 DEF Books, Plan
  <2> QED
    BY <1>1, <2>1
<1>6. ASSUME NEW j \in 1 .. n - 1, NEW x, NEW i, todo'[j] = <<x, i>>, NEW u \in Users(x, i) \cap held'
      PROVE  \E k \in 1 .. j - 1 : todo'[k] = u
  <2>1. PICK k \in 1 .. (j + 1) - 1 : todo[k] = u
    <3>1. j + 1 \in 1 .. n /\ todo[j + 1] = <<x, i>> /\ u \in held
      BY <1>1, <1>3, <1>6
    <3> QED
      BY <1>6, <3>1 DEF Books, Plan
  <2>2. k # 1
    BY <1>1, <1>6, <2>1
  <2>3. k - 1 \in 1 .. j - 1 /\ k - 1 \in 1 .. n - 1 /\ (k - 1) + 1 = k
    BY <1>1, <2>1, <2>2
  <2>4. todo'[k - 1] = u
    BY <1>3, <2>1, <2>3
  <2> QED
    BY <2>3, <2>4
<1>7. Plan(held', todo')
  BY <1>1, <1>4, <1>5, <1>6 DEF Plan
<1>8. Closed(held')
  <2>1. SUFFICES ASSUME NEW x, NEW i, NEW u \in Users(x, i), u \in held' PROVE <<x, i>> \in held'
    BY DEF Closed
  <2>2. <<x, i>> \in held /\ u \in held
    BY <1>1, <2>1 DEF Books, Closed
  <2>3. <<x, i>> # r
    <3>1. SUFFICES ASSUME r = <<x, i>> PROVE FALSE
      OBVIOUS
    <3>2. \E k \in 1 .. 1 - 1 : todo[k] = u
      <4>1. 1 \in 1 .. n /\ todo[1] = <<x, i>>
        BY <1>1, <3>1
      <4> QED
        BY <2>1, <2>2, <4>1 DEF Books, Plan
    <3> QED
      BY <3>2
  <2> QED
    BY <1>1, <2>2, <2>3
<1>9. Rest' = Rest
  <2>1. \A k \in 1 .. n : k = 1 \/ (k - 1 \in 1 .. n - 1 /\ todo[k] = todo'[k - 1])
    <3>1. ASSUME NEW k \in 1 .. n, k # 1 PROVE k - 1 \in 1 .. n - 1 /\ todo[k] = todo'[k - 1]
      <4>1. k - 1 \in 1 .. n - 1 /\ (k - 1) + 1 = k
        BY <1>1, <3>1
      <4> QED
        BY <1>1, <4>1
    <3> QED
      BY <3>1
  <2>2. Elems(todo) = {r} \cup Elems(todo')
    <3>1. Elems(todo) \subseteq {r} \cup Elems(todo')
      BY <1>1, <2>1 DEF Elems
    <3>2. Elems(todo') \subseteq Elems(todo)
      BY <1>1, <1>3 DEF Elems
    <3>3. r \in Elems(todo)
      <4>1. 1 \in 1 .. n
        BY <1>1
      <4> QED
        BY <1>1, <4>1 DEF Elems
    <3> QED
      BY <3>1, <3>2, <3>3
  <2> QED
    BY <1>1, <2>2 DEF Rest
<1>10. held' \subseteq Resources
  BY <1>1 DEF Books
<1> QED
  BY <1>1, <1>7, <1>8, <1>9, <1>10 DEF Books

\* Obtaining r, whose foundation is there, keeps the books.
LEMMA GrantOK ==
  ASSUME Books, todo = <<>>, NEW r \in Resources, Grant(r), todo' = todo,
         \A n, i : r \in Users(n, i) => <<n, i>> \in held
  PROVE  Books' /\ Rest' = Rest \cup {r} /\ Rest = held
<1>1. held' = held \cup {r} /\ fields' = held'
  BY DEF Grant, Books
<1>2. Plan(held', todo')
  BY PlanEmpty
<1>3. Closed(held')
  BY <1>1 DEF Books, Closed
<1>4. Elems(todo) = {} /\ Elems(todo') = {}
  BY ElemsEmpty
<1> QED
  BY <1>1, <1>2, <1>3, <1>4 DEF Books, Rest

\* Setting out on a plan keeps them too.
LEMMA PlanOK ==
  ASSUME Books, todo = <<>>, UNCHANGED <<held, fields>>, Plan(held, todo')
  PROVE  Books' /\ Rest' = Rest \ Elems(todo') /\ Rest = held
<1>1. Elems(todo) = {}
  BY ElemsEmpty
<1> QED
  BY <1>1 DEF Books, Rest

\* So does doing nothing about them.
LEMMA IdleOK ==
  ASSUME Books, UNCHANGED <<held, fields, todo>>
  PROVE  Books' /\ Rest' = Rest
  BY DEF Books, Rest

-----------------------------------------------------------------------------
(* What is left, station by station *)

Ended == {"failed", "expunged"}
Pre == {"expansion", "ipci", "find", "bars", "detect", "utility", "iutility", "reset"}
Setup == {"features", "queue", "qalloc", "driver_ok"}
Probing == {"temp", "map_req", "map_resp", "try", "add", "poll", "check", "identify"}
Running == {"irq", "scan", "probe", "up"} \cup Probing
Stations == Pre \cup Setup \cup Running \cup {"cleanup", "expunge"} \cup Ended

\* The libraries, the PCI device and its BARs, the interrupt server, the
\* INQUIRY buffer.
LibRest ==
  /\ One("ExpansionBase") \in Rest <=> ipc \notin Ended \cup {"expansion"}
  /\ One("IPCI") \in Rest <=> ipc \notin Ended \cup {"expansion", "ipci"}
  /\ One("pciDevice") \in Rest <=> ipc \notin Ended \cup {"expansion", "ipci", "find"}
  /\ \A b \in {"bar0", "bar4"} :
       One(b) \in Rest <=> /\ b \in hw.bars
                           /\ ipc \notin Ended \cup {"expansion", "ipci", "find", "bars"}
  /\ One("UtilityBase") \in Rest <=>
       ipc \notin Ended \cup {"expansion", "ipci", "find", "bars", "detect", "utility"}
  /\ One("IUtility") \in Rest <=>
       ipc \notin Ended \cup {"expansion", "ipci", "find", "bars", "detect", "utility", "iutility"}
  /\ One("irq") \in Rest => ipc \in Running \ {"irq"}
  /\ One("inqData") \in Rest <=> ipc \in {"probe"} \cup Probing
  /\ One("irq") \in held => ipc \in Running \cup {"expunge"}

\* Each queue in vqs, and what is there of the one being set up.
QueueRest ==
  \A n \in QueueNames, k \in Queues :
    <<n, k>> \in Rest <=>
      \/ "vqs" \in vqflags[k] /\ n # "vring_dma"
      \/ ipc = "qalloc" /\ k = q /\ \E j \in 1 .. qstage - 1 : QueueStages[j] = n

\* The buffers and mappings of the probe under way, by station.
Have(pc) ==
  CASE pc = "map_req"  -> {"req_cmd", "resp_cmd"}
    [] pc = "map_resp" -> {"req_cmd", "resp_cmd", "req_map"}
    [] pc \in {"try", "check"} -> {"req_cmd", "resp_cmd", "req_map", "resp_map"}
    [] pc \in {"add", "poll"}  -> TempNames
    [] OTHER -> {}
TempRest ==
  \A n \in TempNames, p \in Nat : <<n, p>> \in Rest <=> p \in timedOut \/ (p = probe /\ n \in Have(ipc))

UnitRest ==
  /\ \A i \in Nat : <<"unit", i>> \in Rest <=> i < Len(units) /\ ipc # "expunged"
  /\ ipc # "expunged" => \A i \in Nat : <<"unit", i>> \in held => <<"unit", i>> \in Rest

\* What slot at has before call k of its allocation.
Got(k) == {Stages[j] : j \in 1 .. k - 1} \ IF k > 9 THEN {"dma_bounce", "tmp"} ELSE {}
SlotHas(n, s) ==
  \/ dma_pc = "ready" /\ n \in Kept
  \/ dma_pc = "alloc" /\ s < at /\ n \in Kept
  \/ dma_pc = "alloc" /\ s = at /\ n \in Got(stage)
  \/ dma_pc = "rollback" /\ back <= s /\ s < at /\ n \in Kept
  \/ dma_pc = "free" /\ aliases /\ back <= s /\ n \in Kept
SlotRest ==
  /\ \A n \in SlotNames, s \in Slots : <<n, s>> \in Rest <=> SlotHas(n, s)
  /\ dma_pc \in {"idle", "ready", "failed"} =>
       \A n \in SlotNames, s \in Slots : <<n, s>> \in held => <<n, s>> \in Rest

-----------------------------------------------------------------------------
(* The rest of the state *)

Drivable == modern_mode \/ "bar0" \in hw.bars

\* How far Init is.
Flow ==
  /\ ipc \in Stations /\ hw \in Machines
  /\ ipc \in Pre \cup Setup \cup {"cleanup", "failed", "irq", "scan"} =>
       units = <<>> /\ timedOut = {} /\ probe = 0
  /\ ipc # "up" => dma_pc = "idle"
  /\ ipc = "poll" => todo = <<>>
  /\ q \in 0 .. 3 /\ qstage \in 1 .. 7
  /\ ipc = "qalloc" => q \in Queues

\* How far the unit's start or shutdown is.
DmaFlow ==
  /\ DmaTypeOK
  /\ dma_pc \in {"alloc", "rollback"} => at \in Slots
  /\ dma_pc = "rollback" => back <= at
  /\ aliases => dma_pc \in {"ready", "free"}
  /\ dma_pc = "ready" => aliases
  /\ dma_pc \in {"alloc", "ready"} => free_head = 0
  /\ dma_pc = "idle" => free_head = NULL

\* What the device was told.
Device ==
  /\ modern_mode \in BOOLEAN
  /\ modern_mode => /\ MmioWorks(pci_cmd) /\ common_cfg_base
                    /\ ipc \notin {"expansion", "ipci", "find", "bars", "detect"}
  /\ ipc \in Setup \cup Running \cup {"expunge"} => Drivable
  /\ DOMAIN vqflags = Queues
  /\ enabled = {n \in Queues : "vqs" \in vqflags[n]}
  /\ ipc \in {"queue", "qalloc", "driver_ok"} \cup Running => negotiated = AcceptedFeatures
  /\ ipc \in Running => status = "driver_ok"
  /\ status \in {"reset", "driver", "features_ok", "failed", "driver_ok"}
  /\ \A n \in Queues :
       "vqs" \in vqflags[n] =>
         /\ ipc \in {"queue", "qalloc", "driver_ok", "cleanup", "expunge"} \cup Running
         /\ n < q /\ Drivable
         /\ vqflags[n] \ {"vqs", "modern"} \subseteq AcceptedFeatures
         /\ ("modern" \in vqflags[n]) = modern_mode

\* The scan, whatever times out.
ScanTypes ==
  /\ probe \in 0 .. Len(hw.luns) /\ tries \in 0 .. Tries
  /\ inqData \in {"disk", "other", "absent"}
  /\ resp \in [Probes -> {"ok", "check", "bad"}]
  /\ pending \subseteq Probes /\ IsFiniteSet(pending) /\ used \in Seq(Probes)
  /\ Cardinality(pending) + Len(used) <= hw.room
  /\ timedOut \subseteq 1 .. probe
  /\ units \in Seq(Probes) /\ Len(units) <= MAX_UNITS
  /\ \A i, j \in 1 .. Len(units) : i < j => units[i] < units[j]
  /\ \A i \in 1 .. Len(units) : units[i] <= probe
  /\ ipc \in Probing => /\ probe \in Probes /\ probe \notin timedOut
                        /\ Len(units) < MAX_UNITS
                        /\ \A i \in 1 .. Len(units) : units[i] < probe
  /\ ipc \in {"map_req", "map_resp", "try"} => tries > 0

\* Without a timeout the device has at most the chain of the probe under way,
\* and an answer of "ok" came with the data.
Calm ==
  timedOut = {} =>
    /\ ipc # "poll" => pending = {} /\ used = <<>>
    /\ ipc = "poll" => \/ pending = {probe} /\ used = <<>>
                       \/ pending = {} /\ used = <<probe>>
    /\ \/ ipc = "identify"
       \/ ipc = "check" /\ resp[probe] = "ok"
       \/ ipc = "poll" /\ pending = {} /\ resp[probe] = "ok"
       => inqData = hw.luns[probe]
    /\ \A i \in 1 .. Len(units) : hw.luns[units[i]] = "disk"

LedgerInv == Books /\ LibRest /\ QueueRest /\ TempRest /\ UnitRest /\ SlotRest
DriverInv == LedgerInv /\ Flow /\ DmaFlow /\ Device /\ ScanTypes /\ Calm

-----------------------------------------------------------------------------
(* The release paths are plans *)

\* A list of names at one index, none twice, each after those built on it.
Listed(H, i, names, m) ==
  /\ DOMAIN names = 1 .. m
  /\ \A j \in 1 .. m : <<names[j], i>> \in H
  /\ \A j, k \in 1 .. m : names[j] = names[k] => j = k
  /\ \A j \in 1 .. m : \A u \in Users(names[j], i) \cap H :
       \E k \in 1 .. j - 1 : u = <<names[k], i>>

\* Such a list is a plan.
LEMMA PlanOf ==
  ASSUME NEW H, NEW i, NEW names, NEW m \in Nat, Listed(H, i, names, m)
  PROVE  /\ Plan(H, Of(names, i))
         /\ Elems(Of(names, i)) = {<<names[j], i>> : j \in 1 .. m}
<1> DEFINE S == Of(names, i)
<1>1. /\ DOMAIN names = 1 .. m
      /\ \A j \in 1 .. m : <<names[j], i>> \in H
  BY DEF Listed
<1>2. S = [j \in 1 .. m |-> <<names[j], i>>]
  BY <1>1 DEF Of
<1>3. S \in Seq(H) /\ Len(S) = m
  <2>1. S \in [1 .. m -> H]
    BY <1>1, <1>2
  <2>2. S \in Seq(H)
    BY <2>1, SeqDef
  <2>3. DOMAIN S = 1 .. m
    BY <1>2
  <2> QED
    BY <2>2, <2>3
<1>4. \A j \in 1 .. m : S[j] = <<names[j], i>>
  BY <1>2
<1> HIDE DEF S
<1>5. \A j, k \in 1 .. m : S[j] = S[k] => j = k
  BY <1>4 DEF Listed
<1>6. ASSUME NEW j \in 1 .. m, NEW n, NEW x, S[j] = <<n, x>>, NEW u \in Users(n, x) \cap H
      PROVE  \E k \in 1 .. j - 1 : S[k] = u
  <2>1. n = names[j] /\ x = i
    BY <1>4, <1>6
  <2>2. PICK k \in 1 .. j - 1 : u = <<names[k], i>>
    BY <1>6, <2>1 DEF Listed
  <2>3. k \in 1 .. m
    OBVIOUS
  <2> QED
    BY <1>4, <2>2, <2>3
<1>7. Plan(H, S)
  BY <1>3, <1>5, <1>6 DEF Plan
<1>8. Elems(S) = {<<names[j], i>> : j \in 1 .. m}
  <2>1. Elems(S) = {S[j] : j \in 1 .. m}
    BY <1>3 DEF Elems
  <2>2. \A x : x \in Elems(S) <=> \E j \in 1 .. m : x = <<names[j], i>>
    BY <1>4, <2>1
  <2> QED
    BY <2>2
<1> QED
  BY <1>7, <1>8 DEF S

\* One name alone.
LEMMA PlanSingle ==
  ASSUME NEW H, NEW a, NEW i, <<a, i>> \in H, Users(a, i) \cap H = {}
  PROVE  Plan(H, Of(<<a>>, i)) /\ Elems(Of(<<a>>, i)) = {<<a, i>>}
<1>1. Of(<<a>>, i) = <<<<a, i>>>>
  BY DEF Of
<1> QED
  BY <1>1, PlanOne

\* Two names, each built on by those before it at most.
Order2(H, i, a, b) ==
  /\ {<<a, i>>, <<b, i>>} \subseteq H
  /\ a # b
  /\ Users(a, i) \cap H = {}
  /\ Users(b, i) \cap H \subseteq {<<a, i>>}

\* They make a plan.
LEMMA PlanTwo ==
  ASSUME NEW H, NEW i, NEW a, NEW b, Order2(H, i, a, b)
  PROVE  Plan(H, Of(<<a, b>>, i))
<1> DEFINE N == <<a, b>>
<1>1. /\ DOMAIN N = 1 .. 2
      /\ N[1] = a /\ N[2] = b
  OBVIOUS
<1> HIDE DEF N
<1> USE DEF Order2
<1>2. 1 .. 2 = {1, 2}
  OBVIOUS
<1>3. \A j \in 1 .. 2 : <<N[j], i>> \in H
  BY <1>1, <1>2
<1>4. \A j, k \in 1 .. 2 : N[j] = N[k] => j = k
  BY <1>1, <1>2
<1>5. \A j \in 1 .. 2 : \A u \in Users(N[j], i) \cap H :
        \E k \in 1 .. j - 1 : u = <<N[k], i>>
  <2>1. \A u \in Users(N[1], i) \cap H : \E k \in 1 .. 1 - 1 : u = <<N[k], i>>
    BY <1>1
  <2>2. \A u \in Users(N[2], i) \cap H : \E k \in 1 .. 2 - 1 : u = <<N[k], i>>
    <3>1. \A u \in Users(N[2], i) \cap H : u = <<N[1], i>>
      BY <1>1
    <3>2. 1 \in 1 .. 2 - 1
      OBVIOUS
    <3> QED
      BY <3>1, <3>2
  <2> QED
    BY <1>2, <2>1, <2>2
<1>6. Plan(H, Of(N, i))
  <2>1. Listed(H, i, N, 2)
    BY <1>1, <1>3, <1>4, <1>5 DEF Listed
  <2> QED
    BY <2>1, PlanOf
<1> QED
  BY <1>6 DEF N

\* Three names, each built on by those before it at most.
Order3(H, i, a, b, c) ==
  /\ {<<a, i>>, <<b, i>>, <<c, i>>} \subseteq H
  /\ a # b /\ a # c /\ b # c
  /\ Users(a, i) \cap H = {}
  /\ Users(b, i) \cap H \subseteq {<<a, i>>}
  /\ Users(c, i) \cap H \subseteq {<<a, i>>, <<b, i>>}

\* They make a plan.
LEMMA PlanThree ==
  ASSUME NEW H, NEW i, NEW a, NEW b, NEW c, Order3(H, i, a, b, c)
  PROVE  Plan(H, Of(<<a, b, c>>, i))
<1> DEFINE N == <<a, b, c>>
<1>1. /\ DOMAIN N = 1 .. 3
      /\ N[1] = a /\ N[2] = b /\ N[3] = c
  OBVIOUS
<1> HIDE DEF N
<1> USE DEF Order3
<1>2. 1 .. 3 = {1, 2, 3}
  OBVIOUS
<1>3. \A j \in 1 .. 3 : <<N[j], i>> \in H
  BY <1>1, <1>2
<1>4. \A j, k \in 1 .. 3 : N[j] = N[k] => j = k
  BY <1>1, <1>2
<1>5. \A j \in 1 .. 3 : \A u \in Users(N[j], i) \cap H :
        \E k \in 1 .. j - 1 : u = <<N[k], i>>
  <2>1. \A u \in Users(N[1], i) \cap H : \E k \in 1 .. 1 - 1 : u = <<N[k], i>>
    BY <1>1
  <2>2. \A u \in Users(N[2], i) \cap H : \E k \in 1 .. 2 - 1 : u = <<N[k], i>>
    <3>1. \A u \in Users(N[2], i) \cap H : u = <<N[1], i>>
      BY <1>1
    <3>2. 1 \in 1 .. 2 - 1
      OBVIOUS
    <3> QED
      BY <3>1, <3>2
  <2>3. \A u \in Users(N[3], i) \cap H : \E k \in 1 .. 3 - 1 : u = <<N[k], i>>
    <3>1. \A u \in Users(N[3], i) \cap H : u = <<N[1], i>> \/ u = <<N[2], i>>
      BY <1>1
    <3>2. 1 \in 1 .. 3 - 1 /\ 2 \in 1 .. 3 - 1
      OBVIOUS
    <3> QED
      BY <3>1, <3>2
  <2> QED
    BY <1>2, <2>1, <2>2, <2>3
<1>6. Plan(H, Of(N, i))
  <2>1. Listed(H, i, N, 3)
    BY <1>1, <1>3, <1>4, <1>5 DEF Listed
  <2> QED
    BY <2>1, PlanOf
<1> QED
  BY <1>6 DEF N

\* Four names, each built on by those before it at most.
Order4(H, i, a, b, c, d) ==
  /\ {<<a, i>>, <<b, i>>, <<c, i>>, <<d, i>>} \subseteq H
  /\ a # b /\ a # c /\ b # c /\ a # d /\ b # d /\ c # d
  /\ Users(a, i) \cap H = {}
  /\ Users(b, i) \cap H \subseteq {<<a, i>>}
  /\ Users(c, i) \cap H \subseteq {<<a, i>>, <<b, i>>}
  /\ Users(d, i) \cap H \subseteq {<<a, i>>, <<b, i>>, <<c, i>>}

\* They make a plan.
LEMMA PlanFour ==
  ASSUME NEW H, NEW i, NEW a, NEW b, NEW c, NEW d, Order4(H, i, a, b, c, d)
  PROVE  Plan(H, Of(<<a, b, c, d>>, i))
<1> DEFINE N == <<a, b, c, d>>
<1>1. /\ DOMAIN N = 1 .. 4
      /\ N[1] = a /\ N[2] = b /\ N[3] = c /\ N[4] = d
  OBVIOUS
<1> HIDE DEF N
<1> USE DEF Order4
<1>2. 1 .. 4 = {1, 2, 3, 4}
  OBVIOUS
<1>3. \A j \in 1 .. 4 : <<N[j], i>> \in H
  BY <1>1, <1>2
<1>4. \A j, k \in 1 .. 4 : N[j] = N[k] => j = k
  BY <1>1, <1>2
<1>5. \A j \in 1 .. 4 : \A u \in Users(N[j], i) \cap H :
        \E k \in 1 .. j - 1 : u = <<N[k], i>>
  <2>1. \A u \in Users(N[1], i) \cap H : \E k \in 1 .. 1 - 1 : u = <<N[k], i>>
    BY <1>1
  <2>2. \A u \in Users(N[2], i) \cap H : \E k \in 1 .. 2 - 1 : u = <<N[k], i>>
    <3>1. \A u \in Users(N[2], i) \cap H : u = <<N[1], i>>
      BY <1>1
    <3>2. 1 \in 1 .. 2 - 1
      OBVIOUS
    <3> QED
      BY <3>1, <3>2
  <2>3. \A u \in Users(N[3], i) \cap H : \E k \in 1 .. 3 - 1 : u = <<N[k], i>>
    <3>1. \A u \in Users(N[3], i) \cap H : u = <<N[1], i>> \/ u = <<N[2], i>>
      BY <1>1
    <3>2. 1 \in 1 .. 3 - 1 /\ 2 \in 1 .. 3 - 1
      OBVIOUS
    <3> QED
      BY <3>1, <3>2
  <2>4. \A u \in Users(N[4], i) \cap H : \E k \in 1 .. 4 - 1 : u = <<N[k], i>>
    <3>1. \A u \in Users(N[4], i) \cap H : u = <<N[1], i>> \/ u = <<N[2], i>> \/ u = <<N[3], i>>
      BY <1>1
    <3>2. 1 \in 1 .. 4 - 1 /\ 2 \in 1 .. 4 - 1 /\ 3 \in 1 .. 4 - 1
      OBVIOUS
    <3> QED
      BY <3>1, <3>2
  <2> QED
    BY <1>2, <2>1, <2>2, <2>3, <2>4
<1>6. Plan(H, Of(N, i))
  <2>1. Listed(H, i, N, 4)
    BY <1>1, <1>3, <1>4, <1>5 DEF Listed
  <2> QED
    BY <2>1, PlanOf
<1> QED
  BY <1>6 DEF N

\* Five names, each built on by those before it at most.
Order5(H, i, a, b, c, d, e) ==
  /\ {<<a, i>>, <<b, i>>, <<c, i>>, <<d, i>>, <<e, i>>} \subseteq H
  /\ a # b /\ a # c /\ b # c /\ a # d /\ b # d /\ c # d /\ a # e /\ b # e /\ c # e /\ d # e
  /\ Users(a, i) \cap H = {}
  /\ Users(b, i) \cap H \subseteq {<<a, i>>}
  /\ Users(c, i) \cap H \subseteq {<<a, i>>, <<b, i>>}
  /\ Users(d, i) \cap H \subseteq {<<a, i>>, <<b, i>>, <<c, i>>}
  /\ Users(e, i) \cap H \subseteq {<<a, i>>, <<b, i>>, <<c, i>>, <<d, i>>}

\* They make a plan.
LEMMA PlanFive ==
  ASSUME NEW H, NEW i, NEW a, NEW b, NEW c, NEW d, NEW e, Order5(H, i, a, b, c, d, e)
  PROVE  Plan(H, Of(<<a, b, c, d, e>>, i))
<1> DEFINE N == <<a, b, c, d, e>>
<1>1. /\ DOMAIN N = 1 .. 5
      /\ N[1] = a /\ N[2] = b /\ N[3] = c /\ N[4] = d /\ N[5] = e
  OBVIOUS
<1> HIDE DEF N
<1> USE DEF Order5
<1>2. 1 .. 5 = {1, 2, 3, 4, 5}
  OBVIOUS
<1>3. \A j \in 1 .. 5 : <<N[j], i>> \in H
  BY <1>1, <1>2
<1>4. \A j, k \in 1 .. 5 : N[j] = N[k] => j = k
  BY <1>1, <1>2
<1>5. \A j \in 1 .. 5 : \A u \in Users(N[j], i) \cap H :
        \E k \in 1 .. j - 1 : u = <<N[k], i>>
  <2>1. \A u \in Users(N[1], i) \cap H : \E k \in 1 .. 1 - 1 : u = <<N[k], i>>
    BY <1>1
  <2>2. \A u \in Users(N[2], i) \cap H : \E k \in 1 .. 2 - 1 : u = <<N[k], i>>
    <3>1. \A u \in Users(N[2], i) \cap H : u = <<N[1], i>>
      BY <1>1
    <3>2. 1 \in 1 .. 2 - 1
      OBVIOUS
    <3> QED
      BY <3>1, <3>2
  <2>3. \A u \in Users(N[3], i) \cap H : \E k \in 1 .. 3 - 1 : u = <<N[k], i>>
    <3>1. \A u \in Users(N[3], i) \cap H : u = <<N[1], i>> \/ u = <<N[2], i>>
      BY <1>1
    <3>2. 1 \in 1 .. 3 - 1 /\ 2 \in 1 .. 3 - 1
      OBVIOUS
    <3> QED
      BY <3>1, <3>2
  <2>4. \A u \in Users(N[4], i) \cap H : \E k \in 1 .. 4 - 1 : u = <<N[k], i>>
    <3>1. \A u \in Users(N[4], i) \cap H : u = <<N[1], i>> \/ u = <<N[2], i>> \/ u = <<N[3], i>>
      BY <1>1
    <3>2. 1 \in 1 .. 4 - 1 /\ 2 \in 1 .. 4 - 1 /\ 3 \in 1 .. 4 - 1
      OBVIOUS
    <3> QED
      BY <3>1, <3>2
  <2>5. \A u \in Users(N[5], i) \cap H : \E k \in 1 .. 5 - 1 : u = <<N[k], i>>
    <3>1. \A u \in Users(N[5], i) \cap H : u = <<N[1], i>> \/ u = <<N[2], i>> \/ u = <<N[3], i>> \/ u = <<N[4], i>>
      BY <1>1
    <3>2. 1 \in 1 .. 5 - 1 /\ 2 \in 1 .. 5 - 1 /\ 3 \in 1 .. 5 - 1 /\ 4 \in 1 .. 5 - 1
      OBVIOUS
    <3> QED
      BY <3>1, <3>2
  <2> QED
    BY <1>2, <2>1, <2>2, <2>3, <2>4, <2>5
<1>6. Plan(H, Of(N, i))
  <2>1. Listed(H, i, N, 5)
    BY <1>1, <1>3, <1>4, <1>5 DEF Listed
  <2> QED
    BY <2>1, PlanOf
<1> QED
  BY <1>6 DEF N

\* A field that may be set.
LEMMA PlanIf ==
  ASSUME NEW H, NEW n, NEW i,
         <<n, i>> \in fields => <<n, i>> \in H /\ Users(n, i) \cap H = {}
  PROVE  Plan(H, IfSet(n, i)) /\ Elems(IfSet(n, i)) = {<<n, i>>} \cap fields
<1>1. CASE <<n, i>> \in fields
  <2>1. IfSet(n, i) = <<<<n, i>>>>
    BY <1>1 DEF IfSet
  <2>2. Plan(H, <<<<n, i>>>>) /\ Elems(<<<<n, i>>>>) = {<<n, i>>}
    BY <1>1, PlanOne
  <2> QED
    BY <1>1, <2>1, <2>2
<1>2. CASE <<n, i>> \notin fields
  BY <1>2, PlanEmpty, ElemsEmpty DEF IfSet
<1> QED
  BY <1>1, <1>2

\* H has what the fields say of these names at s, and nothing the fields do not say.
Covers(H, names, s) ==
  H \subseteq fields /\ \A n \in names : <<n, s>> \in fields => <<n, s>> \in H

BufferNames == {"dma_resp_lists", "dma_resp", "dma_req_lists", "dma_req", "resp_bufs", "req_bufs"}

\* free_one_slot takes all six objects of a slot, whichever of them are there.
LEMMA FreeOneSlotPlan ==
  ASSUME NEW H, NEW s, Covers(H, BufferNames, s)
  PROVE  /\ Plan(H, FreeOneSlot(s))
         /\ Elems(FreeOneSlot(s)) = {<<n, s>> : n \in BufferNames} \cap fields
<1> USE DEF Covers, BufferNames
<1> DEFINE P1 == IfSet("dma_resp_lists", s)
           P2 == P1 \o IfSet("dma_resp", s)
           P3 == P2 \o IfSet("dma_req_lists", s)
           P4 == P3 \o IfSet("dma_req", s)
           P5 == P4 \o IfSet("resp_bufs", s)
           P6 == P5 \o IfSet("req_bufs", s)
<1>1. Plan(H, P1) /\ Elems(P1) = {<<"dma_resp_lists", s>>} \cap fields
  BY PlanIf, NoUsers
<1> HIDE DEF P1
<1>2. Plan(H, P2) /\ Elems(P2) = {<<"dma_resp_lists", s>>, <<"dma_resp", s>>} \cap fields
  <2>1. <<"dma_resp", s>> \in fields =>
          <<"dma_resp", s>> \in H \ Elems(P1) /\ Users("dma_resp", s) \cap (H \ Elems(P1)) = {}
    BY <1>1, UsersAre
  <2>2. /\ Plan(H \ Elems(P1), IfSet("dma_resp", s))
        /\ Elems(IfSet("dma_resp", s)) = {<<"dma_resp", s>>} \cap fields
    BY <2>1, PlanIf
  <2> QED
    BY <1>1, <2>2, PlanConcat
<1> HIDE DEF P2
<1>3. /\ Plan(H, P3)
      /\ Elems(P3) = {<<"dma_resp_lists", s>>, <<"dma_resp", s>>, <<"dma_req_lists", s>>} \cap fields
  <2>1. <<"dma_req_lists", s>> \in fields =>
          <<"dma_req_lists", s>> \in H \ Elems(P2) /\ Users("dma_req_lists", s) \cap (H \ Elems(P2)) = {}
    BY <1>2, NoUsers
  <2>2. /\ Plan(H \ Elems(P2), IfSet("dma_req_lists", s))
        /\ Elems(IfSet("dma_req_lists", s)) = {<<"dma_req_lists", s>>} \cap fields
    BY <2>1, PlanIf
  <2> QED
    BY <1>2, <2>2, PlanConcat
<1> HIDE DEF P3
<1>4. /\ Plan(H, P4)
      /\ Elems(P4) = {<<"dma_resp_lists", s>>, <<"dma_resp", s>>, <<"dma_req_lists", s>>,
                      <<"dma_req", s>>} \cap fields
  <2>1. <<"dma_req", s>> \in fields =>
          <<"dma_req", s>> \in H \ Elems(P3) /\ Users("dma_req", s) \cap (H \ Elems(P3)) = {}
    BY <1>3, UsersAre
  <2>2. /\ Plan(H \ Elems(P3), IfSet("dma_req", s))
        /\ Elems(IfSet("dma_req", s)) = {<<"dma_req", s>>} \cap fields
    BY <2>1, PlanIf
  <2> QED
    BY <1>3, <2>2, PlanConcat
<1> HIDE DEF P4
<1>5. /\ Plan(H, P5)
      /\ Elems(P5) = {<<"dma_resp_lists", s>>, <<"dma_resp", s>>, <<"dma_req_lists", s>>,
                      <<"dma_req", s>>, <<"resp_bufs", s>>} \cap fields
  <2>1. <<"resp_bufs", s>> \in fields =>
          <<"resp_bufs", s>> \in H \ Elems(P4) /\ Users("resp_bufs", s) \cap (H \ Elems(P4)) = {}
    BY <1>4, UsersAre
  <2>2. /\ Plan(H \ Elems(P4), IfSet("resp_bufs", s))
        /\ Elems(IfSet("resp_bufs", s)) = {<<"resp_bufs", s>>} \cap fields
    BY <2>1, PlanIf
  <2> QED
    BY <1>4, <2>2, PlanConcat
<1> HIDE DEF P5
<1>6. /\ Plan(H, P6)
      /\ Elems(P6) = {<<"dma_resp_lists", s>>, <<"dma_resp", s>>, <<"dma_req_lists", s>>,
                      <<"dma_req", s>>, <<"resp_bufs", s>>, <<"req_bufs", s>>} \cap fields
  <2>1. <<"req_bufs", s>> \in fields =>
          <<"req_bufs", s>> \in H \ Elems(P5) /\ Users("req_bufs", s) \cap (H \ Elems(P5)) = {}
    BY <1>5, UsersAre
  <2>2. /\ Plan(H \ Elems(P5), IfSet("req_bufs", s))
        /\ Elems(IfSet("req_bufs", s)) = {<<"req_bufs", s>>} \cap fields
    BY <2>1, PlanIf
  <2> QED
    BY <1>5, <2>2, PlanConcat
<1>7. P6 = FreeOneSlot(s)
  BY DEF FreeOneSlot, P5, P4, P3, P2, P1
<1> QED
  BY <1>6, <1>7

\* free_one_bounce, once the temporary entry list is gone.
LEMMA FreeOneBouncePlan ==
  ASSUME NEW H, NEW s, <<"tmp", s>> \notin H, Covers(H, {"dma_bounce", "bounce_bufs"}, s)
  PROVE  /\ Plan(H, FreeOneBounce(s))
         /\ Elems(FreeOneBounce(s)) = {<<"dma_bounce", s>>, <<"bounce_bufs", s>>} \cap fields
<1> USE DEF Covers
<1> DEFINE P == IfSet("dma_bounce", s)
<1>1. Plan(H, P) /\ Elems(P) = {<<"dma_bounce", s>>} \cap fields
  BY PlanIf, UsersAre
<1> HIDE DEF P
<1>2. <<"bounce_bufs", s>> \in fields =>
        <<"bounce_bufs", s>> \in H \ Elems(P) /\ Users("bounce_bufs", s) \cap (H \ Elems(P)) = {}
  BY <1>1, UsersAre
<1> DEFINE Q == IfSet("bounce_bufs", s)
<1>3. Plan(H \ Elems(P), Q) /\ Elems(Q) = {<<"bounce_bufs", s>>} \cap fields
  BY <1>2, PlanIf
<1>4. FreeOneBounce(s) = P \o Q
  BY DEF FreeOneBounce, P
<1> HIDE DEF Q
<1>5. Plan(H, P \o Q) /\ Elems(P \o Q) = Elems(P) \cup Elems(Q)
  BY <1>1, <1>3, PlanConcat
<1> QED
  BY <1>1, <1>3, <1>4, <1>5

\* Everything a complete or an empty slot has.
LEMMA FreeAllPlan ==
  ASSUME NEW s, <<"tmp", s>> \notin fields
  PROVE  /\ Plan(fields, FreeAll(s))
         /\ Elems(FreeAll(s)) = {<<n, s>> : n \in SlotNames} \cap fields
<1> DEFINE A == FreePool(s)
           B == FreeOneBounce(s)
           C == FreeOneSlot(s)
           D == A \o B
<1>1. Plan(fields, A) /\ Elems(A) = {<<"data_dma_pool", s>>} \cap fields
  <2>1. Users("data_dma_pool", s) = {}
    BY NoUsers
  <2> DEFINE H == fields
  <2>2. <<"data_dma_pool", s>> \in fields => <<"data_dma_pool", s>> \in H
    OBVIOUS
  <2> HIDE DEF H
  <2>3. /\ Plan(H, IfSet("data_dma_pool", s))
        /\ Elems(IfSet("data_dma_pool", s)) = {<<"data_dma_pool", s>>} \cap fields
    BY <2>1, <2>2, PlanIf
  <2> QED
    BY <2>3 DEF FreePool, H
<1> HIDE DEF A
<1>2. /\ Plan(fields \ Elems(A), B)
      /\ Elems(B) = {<<"dma_bounce", s>>, <<"bounce_bufs", s>>} \cap fields
  <2>1. /\ Covers(fields \ Elems(A), {"dma_bounce", "bounce_bufs"}, s)
        /\ <<"tmp", s>> \notin fields \ Elems(A)
    BY <1>1 DEF Covers
  <2> QED
    BY <2>1, FreeOneBouncePlan
<1> HIDE DEF B
<1>3. Plan(fields, D) /\ Elems(D) = Elems(A) \cup Elems(B)
  BY <1>1, <1>2, PlanConcat
<1> HIDE DEF D
<1>4. /\ Plan(fields \ Elems(D), C)
      /\ Elems(C) = {<<n, s>> : n \in BufferNames} \cap fields
  <2>1. Covers(fields \ Elems(D), BufferNames, s)
    BY <1>1, <1>2, <1>3 DEF Covers, BufferNames
  <2> QED
    BY <2>1, FreeOneSlotPlan
<1> HIDE DEF C
<1>5. Plan(fields, D \o C) /\ Elems(D \o C) = Elems(D) \cup Elems(C)
  BY <1>3, <1>4, PlanConcat
<1>6. FreeAll(s) = D \o C
  BY DEF FreeAll, A, B, C, D
<1>7. Elems(D) \cup Elems(C) = {<<n, s>> : n \in SlotNames} \cap fields
  BY <1>1, <1>2, <1>3, <1>4 DEF SlotNames, BufferNames
<1> QED
  BY <1>5, <1>6, <1>7

\* What a slot has before each call.
LEMMA GotIs ==
  /\ Got(1) = {}
  /\ Got(2) = {"req_bufs"}
  /\ Got(3) = {"req_bufs", "resp_bufs"}
  /\ Got(4) = {"req_bufs", "resp_bufs", "dma_req"}
  /\ Got(5) = {"req_bufs", "resp_bufs", "dma_req", "dma_req_lists"}
  /\ Got(6) = {"req_bufs", "resp_bufs", "dma_req", "dma_req_lists", "dma_resp"}
  /\ Got(7) = {"req_bufs", "resp_bufs", "dma_req", "dma_req_lists", "dma_resp",
               "dma_resp_lists"}
  /\ Got(8) = {"req_bufs", "resp_bufs", "dma_req", "dma_req_lists", "dma_resp", "dma_resp_lists",
               "bounce_bufs"}
  /\ Got(9) = {"req_bufs", "resp_bufs", "dma_req", "dma_req_lists", "dma_resp", "dma_resp_lists",
               "bounce_bufs", "dma_bounce"}
  /\ Got(10) = {"req_bufs", "resp_bufs", "dma_req", "dma_req_lists", "dma_resp",
               "dma_resp_lists", "bounce_bufs"}
  /\ Got(11) = {"req_bufs", "resp_bufs", "dma_req", "dma_req_lists", "dma_resp",
               "dma_resp_lists", "bounce_bufs", "data_dma_pool"}
  /\ Kept = Got(11) /\ StageNames = SlotNames
<1>1. Got(1) = {}
  BY DEF Got, Stages
<1>2. Got(2) = {"req_bufs"}
  BY DEF Got, Stages
<1>3. Got(3) = {"req_bufs", "resp_bufs"}
  BY DEF Got, Stages
<1>4. Got(4) = {"req_bufs", "resp_bufs", "dma_req"}
  BY DEF Got, Stages
<1>5. Got(5) = {"req_bufs", "resp_bufs", "dma_req", "dma_req_lists"}
  BY DEF Got, Stages
<1>6. Got(6) = {"req_bufs", "resp_bufs", "dma_req", "dma_req_lists", "dma_resp"}
  BY DEF Got, Stages
<1>7. Got(7) = {"req_bufs", "resp_bufs", "dma_req", "dma_req_lists", "dma_resp",
               "dma_resp_lists"}
  BY DEF Got, Stages
<1>8. Got(8) = {"req_bufs", "resp_bufs", "dma_req", "dma_req_lists", "dma_resp",
               "dma_resp_lists", "bounce_bufs"}
  BY DEF Got, Stages
<1>9. Got(9) = {"req_bufs", "resp_bufs", "dma_req", "dma_req_lists", "dma_resp",
               "dma_resp_lists", "bounce_bufs", "dma_bounce"}
  BY DEF Got, Stages
<1>10. Got(10) = {"req_bufs", "resp_bufs", "dma_req", "dma_req_lists", "dma_resp",
               "dma_resp_lists", "bounce_bufs"}
  BY DEF Got, Stages
<1>11. Got(11) = {"req_bufs", "resp_bufs", "dma_req", "dma_req_lists", "dma_resp",
               "dma_resp_lists", "bounce_bufs", "data_dma_pool"}
  BY DEF Got, Stages
<1>12. StageNames = SlotNames
  BY DEF StageNames, Stages, SlotNames
<1>13. Kept = Got(11)
  BY <1>11, <1>12 DEF Kept, SlotNames
<1> QED
  BY <1>1, <1>2, <1>3, <1>4, <1>5, <1>6, <1>7, <1>8, <1>9, <1>10, <1>11, <1>12, <1>13

\* A plan and then free_one_slot.
LEMMA PlanThenSlot ==
  ASSUME NEW H, NEW T, NEW s, Plan(H, T), Covers(H \ Elems(T), BufferNames, s)
  PROVE  /\ Plan(H, T \o FreeOneSlot(s))
         /\ Elems(T \o FreeOneSlot(s)) = Elems(T) \cup ({<<n, s>> : n \in BufferNames} \cap fields)
<1> DEFINE F == FreeOneSlot(s)
<1>1. Plan(H \ Elems(T), F) /\ Elems(F) = {<<n, s>> : n \in BufferNames} \cap fields
  BY FreeOneSlotPlan
<1> HIDE DEF F
<1>2. Plan(H, T \o F) /\ Elems(T \o F) = Elems(T) \cup Elems(F)
  <2>1. Then(H, T, F)
    BY <1>1 DEF Then
  <2> QED
    BY <2>1, PlanThen
<1> QED
  BY <1>1, <1>2 DEF F

\* The roll-back of slot s, whichever call failed, gives back all it has.
LEMMA FailPathPlan ==
  ASSUME NEW s, NEW k \in 1 .. 10,
         \A n \in SlotNames : <<n, s>> \in fields <=> n \in Got(k)
  PROVE  /\ Plan(fields, FailPath(Stages[k], s))
         /\ Elems(FailPath(Stages[k], s)) = {<<n, s>> : n \in SlotNames} \cap fields
<1> DEFINE All == {<<n, s>> : n \in SlotNames} \cap fields
<1>1. All = {<<n, s>> : n \in Got(k)}
  <2>1. Got(k) \subseteq SlotNames
    BY DEF Got, Stages, SlotNames
  <2> QED
    BY <2>1
<1> HIDE DEF All
<1>8. ASSUME NEW T, Plan(fields, T), Elems(T) = All \ {<<n, s>> : n \in BufferNames},
             FailPath(Stages[k], s) = T \o FreeOneSlot(s), BufferNames \subseteq Got(k)
      PROVE  Plan(fields, FailPath(Stages[k], s)) /\ Elems(FailPath(Stages[k], s)) = All
  <2>1. Covers(fields \ Elems(T), BufferNames, s)
    BY <1>8 DEF Covers
  <2>2. /\ Plan(fields, T \o FreeOneSlot(s))
        /\ Elems(T \o FreeOneSlot(s)) = Elems(T) \cup ({<<n, s>> : n \in BufferNames} \cap fields)
    BY <1>8, <2>1, PlanThenSlot
  <2>3. {<<n, s>> : n \in BufferNames} \cap fields = {<<n, s>> : n \in BufferNames}
    BY <1>1, <1>8 DEF All
  <2>4. {<<n, s>> : n \in BufferNames} \subseteq All
    BY <1>1, <1>8
  <2> QED
    BY <1>8, <2>2, <2>3, <2>4
<1>2. CASE k = 1
  <2>1. FailPath(Stages[k], s) = <<>> /\ All = {}
    BY <1>1, <1>2, GotIs DEF FailPath, Stages
  <2> QED
    BY <2>1, PlanEmpty, ElemsEmpty DEF All
<1>3. CASE k = 2
  <2>1. FailPath(Stages[k], s) = Of(<<"req_bufs">>, s)
    BY <1>3 DEF FailPath, Stages
  <2>2. All = {<<"req_bufs", s>>}
    BY <1>1, <1>3, GotIs
  <2>3. <<"req_bufs", s>> \in fields /\ <<"dma_req", s>> \notin fields
    BY <1>3, GotIs DEF SlotNames
  <2>4. Plan(fields, Of(<<"req_bufs">>, s)) /\ Elems(Of(<<"req_bufs">>, s)) = {<<"req_bufs", s>>}
    BY <2>3, PlanSingle, UsersAre
  <2> QED
    BY <2>1, <2>2, <2>4 DEF All
<1>4. CASE k = 3
  <2>1. FailPath(Stages[k], s) = Of(<<"resp_bufs", "req_bufs">>, s)
    BY <1>4 DEF FailPath, Stages
  <2>2. All = {<<"req_bufs", s>>, <<"resp_bufs", s>>}
    BY <1>1, <1>4, GotIs
  <2>3. /\ <<"req_bufs", s>> \in fields /\ <<"resp_bufs", s>> \in fields
        /\ <<"dma_req", s>> \notin fields /\ <<"dma_resp", s>> \notin fields
    BY <1>4, GotIs DEF SlotNames
  <2>4. /\ Users("resp_bufs", s) \cap fields = {}
        /\ Users("req_bufs", s) \cap fields \subseteq {<<"resp_bufs", s>>}
        /\ {<<"resp_bufs", s>>, <<"req_bufs", s>>} \subseteq fields
    BY <2>3, UsersAre, NoUsers
  <2>5. /\ Plan(fields, Of(<<"resp_bufs", "req_bufs">>, s))
        /\ Elems(Of(<<"resp_bufs", "req_bufs">>, s)) =
             {<<"resp_bufs", s>>, <<"req_bufs", s>>}
    <3>1. Order2(fields, s, "resp_bufs", "req_bufs")
      BY <2>4 DEF Order2
    <3>2. Plan(fields, Of(<<"resp_bufs", "req_bufs">>, s))
      BY <3>1, PlanTwo, Zenon
    <3> QED
      BY <3>2 DEF Elems, Of
  <2> QED
    BY <2>1, <2>2, <2>5 DEF All
<1>5. CASE k = 4
  <2>1. FailPath(Stages[k], s) = Of(<<"dma_req", "resp_bufs", "req_bufs">>, s)
    BY <1>5 DEF FailPath, Stages
  <2>2. All = {<<"req_bufs", s>>, <<"resp_bufs", s>>, <<"dma_req", s>>}
    BY <1>1, <1>5, GotIs
  <2>3. /\ <<"req_bufs", s>> \in fields /\ <<"resp_bufs", s>> \in fields /\ <<"dma_req", s>> \in fields
        /\ <<"dma_resp", s>> \notin fields /\ <<"dma_req_lists", s>> \notin fields
    BY <1>5, GotIs DEF SlotNames
  <2>4. /\ Users("dma_req", s) \cap fields = {}
        /\ Users("resp_bufs", s) \cap fields \subseteq {<<"dma_req", s>>}
        /\ Users("req_bufs", s) \cap fields \subseteq {<<"dma_req", s>>, <<"resp_bufs", s>>}
        /\ {<<"dma_req", s>>, <<"resp_bufs", s>>, <<"req_bufs", s>>} \subseteq fields
    BY <2>3, UsersAre, NoUsers
  <2>5. /\ Plan(fields, Of(<<"dma_req", "resp_bufs", "req_bufs">>, s))
        /\ Elems(Of(<<"dma_req", "resp_bufs", "req_bufs">>, s)) =
             {<<"dma_req", s>>, <<"resp_bufs", s>>, <<"req_bufs", s>>}
    <3>1. Order3(fields, s, "dma_req", "resp_bufs", "req_bufs")
      BY <2>4 DEF Order3
    <3>2. Plan(fields, Of(<<"dma_req", "resp_bufs", "req_bufs">>, s))
      BY <3>1, PlanThree, Zenon
    <3> QED
      BY <3>2 DEF Elems, Of
  <2> QED
    BY <2>1, <2>2, <2>5 DEF All
<1>6. CASE k = 5
  <2>1. FailPath(Stages[k], s) = Of(<<"dma_req_lists", "dma_req", "resp_bufs", "req_bufs">>, s)
    BY <1>6 DEF FailPath, Stages
  <2>2. All = {<<"req_bufs", s>>, <<"resp_bufs", s>>, <<"dma_req", s>>, <<"dma_req_lists", s>>}
    BY <1>1, <1>6, GotIs
  <2>3. /\ <<"req_bufs", s>> \in fields /\ <<"resp_bufs", s>> \in fields /\ <<"dma_req", s>> \in fields
        /\ <<"dma_req_lists", s>> \in fields /\ <<"dma_resp", s>> \notin fields
    BY <1>6, GotIs DEF SlotNames
  <2>4. /\ Users("dma_req_lists", s) \cap fields = {}
        /\ Users("dma_req", s) \cap fields \subseteq {<<"dma_req_lists", s>>}
        /\ Users("resp_bufs", s) \cap fields \subseteq {<<"dma_req_lists", s>>, <<"dma_req", s>>}
        /\ Users("req_bufs", s) \cap fields \subseteq {<<"dma_req_lists", s>>, <<"dma_req", s>>, <<"resp_bufs", s>>}
        /\ {<<"dma_req_lists", s>>, <<"dma_req", s>>, <<"resp_bufs", s>>, <<"req_bufs", s>>} \subseteq fields
    BY <2>3, UsersAre, NoUsers
  <2>5. /\ Plan(fields, Of(<<"dma_req_lists", "dma_req", "resp_bufs", "req_bufs">>, s))
        /\ Elems(Of(<<"dma_req_lists", "dma_req", "resp_bufs", "req_bufs">>, s)) =
             {<<"dma_req_lists", s>>, <<"dma_req", s>>, <<"resp_bufs", s>>, <<"req_bufs", s>>}
    <3>1. Order4(fields, s, "dma_req_lists", "dma_req", "resp_bufs", "req_bufs")
      BY <2>4 DEF Order4
    <3>2. Plan(fields, Of(<<"dma_req_lists", "dma_req", "resp_bufs", "req_bufs">>, s))
      BY <3>1, PlanFour, Zenon
    <3> QED
      BY <3>2 DEF Elems, Of
  <2> QED
    BY <2>1, <2>2, <2>5 DEF All
<1>7. CASE k = 6
  <2>1. FailPath(Stages[k], s) =
          Of(<<"dma_resp", "dma_req_lists", "dma_req", "resp_bufs", "req_bufs">>, s)
    BY <1>7 DEF FailPath, Stages
  <2>2. All = {<<"req_bufs", s>>, <<"resp_bufs", s>>, <<"dma_req", s>>, <<"dma_req_lists", s>>,
               <<"dma_resp", s>>}
    BY <1>1, <1>7, GotIs
  <2>3. /\ <<"req_bufs", s>> \in fields /\ <<"resp_bufs", s>> \in fields /\ <<"dma_req", s>> \in fields
        /\ <<"dma_req_lists", s>> \in fields /\ <<"dma_resp", s>> \in fields
        /\ <<"dma_resp_lists", s>> \notin fields
    BY <1>7, GotIs DEF SlotNames
  <2>4. /\ Users("dma_resp", s) \cap fields = {}
        /\ Users("dma_req_lists", s) \cap fields \subseteq {<<"dma_resp", s>>}
        /\ Users("dma_req", s) \cap fields \subseteq {<<"dma_resp", s>>, <<"dma_req_lists", s>>}
        /\ Users("resp_bufs", s) \cap fields \subseteq {<<"dma_resp", s>>, <<"dma_req_lists", s>>, <<"dma_req", s>>}
        /\ Users("req_bufs", s) \cap fields \subseteq {<<"dma_resp", s>>, <<"dma_req_lists", s>>, <<"dma_req", s>>, <<"resp_bufs", s>>}
        /\ {<<"dma_resp", s>>, <<"dma_req_lists", s>>, <<"dma_req", s>>, <<"resp_bufs", s>>, <<"req_bufs", s>>} \subseteq fields
    BY <2>3, UsersAre, NoUsers
  <2>5. /\ Plan(fields, Of(<<"dma_resp", "dma_req_lists", "dma_req", "resp_bufs", "req_bufs">>, s))
        /\ Elems(Of(<<"dma_resp", "dma_req_lists", "dma_req", "resp_bufs", "req_bufs">>, s)) =
             {<<"dma_resp", s>>, <<"dma_req_lists", s>>, <<"dma_req", s>>, <<"resp_bufs", s>>, <<"req_bufs", s>>}
    <3>1. Order5(fields, s, "dma_resp", "dma_req_lists", "dma_req", "resp_bufs", "req_bufs")
      BY <2>4 DEF Order5
    <3>2. Plan(fields, Of(<<"dma_resp", "dma_req_lists", "dma_req", "resp_bufs", "req_bufs">>, s))
      BY <3>1, PlanFive, Zenon
    <3> QED
      BY <3>2 DEF Elems, Of
  <2> QED
    BY <2>1, <2>2, <2>5 DEF All
<1>9. CASE k = 7
  <2>1. FailPath(Stages[k], s) = FreeOneSlot(s)
    BY <1>9 DEF FailPath, Stages
  <2>2. /\ Plan(fields, FreeOneSlot(s))
        /\ Elems(FreeOneSlot(s)) = {<<n, s>> : n \in BufferNames} \cap fields
    <3>1. Covers(fields, BufferNames, s)
      BY DEF Covers
    <3> QED
      BY <3>1, FreeOneSlotPlan
  <2>3. All = {<<n, s>> : n \in BufferNames} \cap fields
    BY <1>9, GotIs DEF All, SlotNames, BufferNames
  <2> QED
    BY <2>1, <2>2, <2>3 DEF All
<1>10. CASE k = 8
  <2> DEFINE T == Of(<<"bounce_bufs">>, s)
  <2>1. FailPath(Stages[k], s) = T \o FreeOneSlot(s)
    BY <1>10 DEF FailPath, Stages
  <2>2. <<"bounce_bufs", s>> \in fields /\ <<"dma_bounce", s>> \notin fields
    BY <1>10, GotIs DEF SlotNames
  <2>3. Plan(fields, T) /\ Elems(T) = {<<"bounce_bufs", s>>}
    BY <2>2, PlanSingle, UsersAre
  <2>4. All \ {<<n, s>> : n \in BufferNames} = {<<"bounce_bufs", s>>} /\ BufferNames \subseteq Got(k)
    BY <1>1, <1>10, GotIs DEF BufferNames
  <2> QED
    BY <1>8, <2>1, <2>3, <2>4 DEF All
<1>11. CASE k = 9
  <2> DEFINE T == Of(<<"dma_bounce", "bounce_bufs">>, s)
  <2>1. FailPath(Stages[k], s) = T \o FreeOneSlot(s)
    BY <1>11 DEF FailPath, Stages
  <2>2. <<"bounce_bufs", s>> \in fields /\ <<"dma_bounce", s>> \in fields /\ <<"tmp", s>> \notin fields
    BY <1>11, GotIs DEF SlotNames
  <2>3. Plan(fields, T) /\ Elems(T) = {<<"dma_bounce", s>>, <<"bounce_bufs", s>>}
    <3>1. /\ Users("dma_bounce", s) \cap fields = {}
          /\ Users("bounce_bufs", s) \cap fields \subseteq {<<"dma_bounce", s>>}
          /\ {<<"dma_bounce", s>>, <<"bounce_bufs", s>>} \subseteq fields
      BY <2>2, UsersAre
    <3>2. Order2(fields, s, "dma_bounce", "bounce_bufs")
      BY <3>1 DEF Order2
    <3>3. Plan(fields, T)
      BY <3>2, PlanTwo, Zenon
    <3> QED
      BY <3>3 DEF Elems, Of
  <2>4. All \ {<<n, s>> : n \in BufferNames} = {<<"dma_bounce", s>>, <<"bounce_bufs", s>>} /\ BufferNames \subseteq Got(k)
    BY <1>1, <1>11, GotIs DEF BufferNames
  <2> QED
    BY <1>8, <2>1, <2>3, <2>4 DEF All
<1>12. CASE k = 10
  <2> DEFINE T == FreeOneBounce(s)
  <2>1. FailPath(Stages[k], s) = T \o FreeOneSlot(s)
    BY <1>12 DEF FailPath, Stages
  <2>2. <<"bounce_bufs", s>> \in fields /\ <<"dma_bounce", s>> \notin fields /\ <<"tmp", s>> \notin fields
    BY <1>12, GotIs DEF SlotNames
  <2>3. Plan(fields, T) /\ Elems(T) = {<<"bounce_bufs", s>>}
    <3>1. Covers(fields, {"dma_bounce", "bounce_bufs"}, s)
      BY DEF Covers
    <3> QED
      BY <2>2, <3>1, FreeOneBouncePlan
  <2>4. All \ {<<n, s>> : n \in BufferNames} = {<<"bounce_bufs", s>>} /\ BufferNames \subseteq Got(k)
    BY <1>1, <1>12, GotIs DEF BufferNames
  <2> QED
    BY <1>8, <2>1, <2>3, <2>4 DEF All
<1> QED
  BY <1>2, <1>3, <1>4, <1>5, <1>6, <1>7, <1>9, <1>10, <1>11, <1>12 DEF All

-----------------------------------------------------------------------------
(* The ledger by groups *)

LibRes == {<<n, NULL>> : n \in LibNames}
QueueRes == {<<n, k>> : n \in QueueNames, k \in Queues}
TempRes == {<<n, p>> : n \in TempNames, p \in Nat}
UnitRes == {<<n, i>> : n \in {"unit"}, i \in Nat}
SlotRes == {<<n, s>> : n \in SlotNames, s \in Slots}

\* A step leaves this group alone.
Same(G) == \A x \in G : (x \in Rest' <=> x \in Rest) /\ (x \in held' => x \in held)

\* A step deals in the resources of D alone.
Only(D) == \A x : x \notin D => (x \in Rest' <=> x \in Rest) /\ (x \in held' => x \in held)

\* The groups have no name in common.
LEMMA GroupsApart ==
  /\ \A x \in LibRes : x \notin QueueRes /\ x \notin TempRes /\ x \notin UnitRes /\ x \notin SlotRes
  /\ \A x \in QueueRes : x \notin TempRes /\ x \notin UnitRes /\ x \notin SlotRes
  /\ \A x \in TempRes : x \notin UnitRes /\ x \notin SlotRes
  /\ \A x \in UnitRes : x \notin SlotRes
<1> USE DEF LibRes, QueueRes, TempRes, UnitRes, SlotRes
<1>1. \A n \in LibNames : n \notin QueueNames /\ n \notin TempNames /\ n # "unit" /\ n \notin SlotNames
  BY DEF LibNames, QueueNames, TempNames, SlotNames
<1>2. \A n \in QueueNames : n \notin TempNames /\ n # "unit" /\ n \notin SlotNames
  BY DEF QueueNames, TempNames, SlotNames
<1>3. \A n \in TempNames : n # "unit" /\ n \notin SlotNames
  BY DEF TempNames, SlotNames
<1>4. "unit" \notin SlotNames
  BY DEF SlotNames
<1>5. \A x \in LibRes : x \notin QueueRes /\ x \notin TempRes /\ x \notin UnitRes /\ x \notin SlotRes
  BY <1>1
<1>6. \A x \in QueueRes : x \notin TempRes /\ x \notin UnitRes /\ x \notin SlotRes
  BY <1>2
<1>7. \A x \in TempRes : x \notin UnitRes /\ x \notin SlotRes
  BY <1>3
<1>8. \A x \in UnitRes : x \notin SlotRes
  BY <1>4
<1> QED
  BY <1>5, <1>6, <1>7, <1>8

\* A step that deals in one group leaves the others alone.
LEMMA OnlyLib ==
  ASSUME Only(LibRes)
  PROVE  Same(QueueRes) /\ Same(TempRes) /\ Same(UnitRes) /\ Same(SlotRes)
  BY GroupsApart DEF Only, Same

\* The same for the queues,
LEMMA OnlyQueue ==
  ASSUME Only(QueueRes)
  PROVE  Same(LibRes) /\ Same(TempRes) /\ Same(UnitRes) /\ Same(SlotRes)
  BY GroupsApart DEF Only, Same

\* for the buffers of the probes,
LEMMA OnlyTemp ==
  ASSUME Only(TempRes)
  PROVE  Same(LibRes) /\ Same(QueueRes) /\ Same(UnitRes) /\ Same(SlotRes)
  BY GroupsApart DEF Only, Same

\* for the unit structures
LEMMA OnlyUnit ==
  ASSUME Only(UnitRes)
  PROVE  Same(LibRes) /\ Same(QueueRes) /\ Same(TempRes) /\ Same(SlotRes)
  BY GroupsApart DEF Only, Same

\* and for a unit's slots.
LEMMA OnlySlot ==
  ASSUME Only(SlotRes)
  PROVE  Same(LibRes) /\ Same(QueueRes) /\ Same(TempRes) /\ Same(UnitRes)
  BY GroupsApart DEF Only, Same

\* The resources of the ledger, group by group.
LEMMA ResourcesAre ==
  Resources = LibRes \cup QueueRes \cup TempRes \cup UnitRes \cup SlotRes
<1>1. LibNames \X {NULL} = LibRes
  BY DEF LibRes
<1>2. QueueNames \X Queues = QueueRes
  BY DEF QueueRes
<1>3. TempNames \X Nat = TempRes
  BY DEF TempRes
<1>4. {"unit"} \X Nat = UnitRes
  BY DEF UnitRes
<1>5. SlotNames \X Slots = SlotRes
  BY DEF SlotRes
<1> QED
  BY <1>1, <1>2, <1>3, <1>4, <1>5 DEF Resources

\* Obtaining a resource of D deals in D alone; so does a plan inside D.
LEMMA GrantOnly ==
  ASSUME NEW D, NEW r, r \in D, r \in Resources, Books, todo = <<>>, Grant(r), todo' = todo,
         \A n, i : r \in Users(n, i) => <<n, i>> \in held
  PROVE  Books' /\ Only(D) /\ Rest = held /\ Rest' = held \cup {r} /\ held' = held \cup {r}
<1>1. Books' /\ Rest' = Rest \cup {r} /\ Rest = held
  BY GrantOK
<1>2. held' = held \cup {r}
  BY DEF Grant
<1> QED
  BY <1>1, <1>2 DEF Only

\* A plan inside D deals in D alone.
LEMMA PlanOnly ==
  ASSUME NEW D, Books, todo = <<>>, UNCHANGED <<held, fields>>, Plan(held, todo'),
         Elems(todo') \subseteq D
  PROVE  Books' /\ Only(D) /\ Rest = held /\ Rest' = held \ Elems(todo') /\ held' = held
<1>1. Books' /\ Rest' = Rest \ Elems(todo') /\ Rest = held
  BY PlanOK
<1> QED
  BY <1>1 DEF Only

\* With nothing to give back, what is held is what is left.
LEMMA RestHeld == ASSUME todo = <<>> PROVE Rest = held
  BY ElemsEmpty DEF Rest

-----------------------------------------------------------------------------
(* What a step that leaves a group alone keeps *)

\* The queues, outside the set-up of one.
LEMMA QueueFrame ==
  ASSUME QueueRest, Same(QueueRes), UNCHANGED vqflags, ipc # "qalloc", ipc' # "qalloc"
  PROVE  QueueRest'
<1>1. \A n \in QueueNames, k \in Queues : <<n, k>> \in QueueRes
  BY DEF QueueRes
<1> QED
  BY <1>1 DEF QueueRest, Same

HasNone == {"probe", "temp", "identify"} \cup (Stations \ Probing)

\* No buffer of a probe is there at the other stations.
LEMMA NoneHas == ASSUME NEW pc \in HasNone PROVE Have(pc) = {}
  BY DEF HasNone, Stations, Pre, Setup, Running, Probing, Ended, Have

\* The buffers of the probes.
LEMMA TempFrame ==
  ASSUME TempRest, Same(TempRes), UNCHANGED <<timedOut, probe>>, ipc \in HasNone, ipc' \in HasNone
  PROVE  TempRest'
<1>1. \A n \in TempNames, p \in Nat : <<n, p>> \in TempRes
  BY DEF TempRes
<1>2. Have(ipc) = {} /\ Have(ipc') = {}
  BY NoneHas
<1> QED
  BY <1>1, <1>2 DEF TempRest, Same

\* The unit structures, until they are freed.
LEMMA UnitFrame ==
  ASSUME UnitRest, Same(UnitRes), UNCHANGED units, ipc # "expunged", ipc' # "expunged"
  PROVE  UnitRest'
<1>1. \A i \in Nat : <<"unit", i>> \in UnitRes
  BY DEF UnitRes
<1> QED
  BY <1>1 DEF UnitRest, Same

\* The slots, while the unit stays as it is.
LEMMA SlotFrame ==
  ASSUME SlotRest, Same(SlotRes), UNCHANGED dmaVars
  PROVE  SlotRest'
<1>1. \A n \in SlotNames, s \in Slots : <<n, s>> \in SlotRes
  BY DEF SlotRes
<1>2. \A n, s : SlotHas(n, s)' <=> SlotHas(n, s)
  BY DEF SlotHas, dmaVars, Got
<1> QED
  BY <1>1, <1>2 DEF SlotRest, Same, dmaVars

\* The libraries, through the scan and through device set-up.
LEMMA LibFrame ==
  ASSUME LibRest, Same(LibRes), UNCHANGED hw,
         \/ {ipc, ipc'} \subseteq {"probe"} \cup Probing
         \/ {ipc, ipc'} \subseteq {"reset", "cleanup"} \cup Setup /\ ipc' # "reset"
  PROVE  LibRest'
<1>1. \A n \in LibNames : One(n) \in LibRes
  BY DEF LibRes, One
<1>2. \A n \in LibNames : One(n) \in Rest' <=> One(n) \in Rest
  BY <1>1 DEF Same
<1>3. \A n \in {"ExpansionBase", "IPCI", "pciDevice", "bar0", "bar4", "UtilityBase", "IUtility", "irq", "inqData"} :
        One(n) \in Rest' <=> One(n) \in Rest
  BY <1>2 DEF LibNames
<1>4. One("irq") \in held' => One("irq") \in held
  BY <1>1 DEF Same, LibNames
<1> QED
  BY <1>3, <1>4 DEF LibRest, Ended, Running, Probing, Setup

\* The progress of the unit.
LEMMA DmaFlowFrame == ASSUME DmaFlow, UNCHANGED dmaVars PROVE DmaFlow'
  BY DEF DmaFlow, DmaTypeOK, dmaVars

-----------------------------------------------------------------------------
(* The release paths of Init and Expunge are plans *)

BarNames == {"bar0", "bar4", "pciDevice"}
Bars == {<<n, NULL>> : n \in BarNames} \cap fields

\* The BARs that were obtained, and the PCI device.
LEMMA ReleaseBarsPlan ==
  ASSUME NEW H, Covers(H, BarNames, NULL), <<"irq", NULL>> \notin H
  PROVE  Plan(H, ReleaseBars) /\ Elems(ReleaseBars) = Bars
<1> USE DEF Covers, BarNames
<1> DEFINE P1 == IfSet("bar0", NULL)
           Q2 == IfSet("bar4", NULL)
           P2 == P1 \o Q2
           Q3 == IfSet("pciDevice", NULL)
           P3 == P2 \o Q3
<1>1. Plan(H, P1) /\ Elems(P1) = {<<"bar0", NULL>>} \cap fields
  BY PlanIf, NoUsers
<1> HIDE DEF P1
<1>2. <<"bar4", NULL>> \in fields =>
        <<"bar4", NULL>> \in H \ Elems(P1) /\ Users("bar4", NULL) \cap (H \ Elems(P1)) = {}
  BY <1>1, NoUsers
<1>3. Plan(H \ Elems(P1), Q2) /\ Elems(Q2) = {<<"bar4", NULL>>} \cap fields
  BY <1>2, PlanIf
<1> HIDE DEF Q2
<1>4. Plan(H, P2) /\ Elems(P2) = Elems(P1) \cup Elems(Q2)
  BY <1>1, <1>3, PlanConcat
<1> HIDE DEF P2
<1>5. <<"pciDevice", NULL>> \in fields =>
        <<"pciDevice", NULL>> \in H \ Elems(P2) /\ Users("pciDevice", NULL) \cap (H \ Elems(P2)) = {}
  BY <1>1, <1>3, <1>4, UsersAre
<1>6. Plan(H \ Elems(P2), Q3) /\ Elems(Q3) = {<<"pciDevice", NULL>>} \cap fields
  BY <1>5, PlanIf
<1> HIDE DEF Q3
<1>7. Plan(H, P3) /\ Elems(P3) = Elems(P2) \cup Elems(Q3)
  BY <1>4, <1>6, PlanConcat
<1>8. P3 = ReleaseBars
  BY DEF ReleaseBars, P1, P2, Q2, Q3
<1>9. Elems(P3) = Bars
  BY <1>1, <1>3, <1>4, <1>6, <1>7 DEF Bars
<1> QED
  BY <1>7, <1>8, <1>9

\* The PCI interface and its library, once the device is gone.
LEMMA ReleaseIPCIPlan ==
  ASSUME NEW H, {One("IPCI"), One("ExpansionBase")} \subseteq H, One("pciDevice") \notin H
  PROVE  Plan(H, ReleaseIPCI) /\ Elems(ReleaseIPCI) = {One("IPCI"), One("ExpansionBase")}
<1>1. Order2(H, NULL, "IPCI", "ExpansionBase")
  BY UsersAre DEF Order2, One
<1>2. Plan(H, Of(<<"IPCI", "ExpansionBase">>, NULL))
  BY <1>1, PlanTwo, Zenon
<1> QED
  BY <1>2 DEF ReleaseIPCI, Lib, Elems, Of, One

\* Init's failure path before utility.library is open.
LEMMA BarsIPCIPlan ==
  ASSUME NEW H, Covers(H, BarNames, NULL), One("irq") \notin H,
         {One("IPCI"), One("ExpansionBase")} \subseteq H
  PROVE  /\ Plan(H, ReleaseBars \o ReleaseIPCI)
         /\ Elems(ReleaseBars \o ReleaseIPCI) = Bars \cup {One("IPCI"), One("ExpansionBase")}
<1> DEFINE A == ReleaseBars
           B == ReleaseIPCI
<1>1. Plan(H, A) /\ Elems(A) = Bars
  BY ReleaseBarsPlan DEF One
<1>2. {One("IPCI"), One("ExpansionBase")} \subseteq H \ Elems(A) /\ One("pciDevice") \notin H \ Elems(A)
  BY <1>1 DEF Bars, BarNames, One, Covers
<1> HIDE DEF A
<1>3. Plan(H \ Elems(A), B) /\ Elems(B) = {One("IPCI"), One("ExpansionBase")}
  BY <1>2, ReleaseIPCIPlan
<1> HIDE DEF B
<1>4. Then(H, A, B)
  BY <1>1, <1>3 DEF Then, A
<1>5. Plan(H, A \o B) /\ Elems(A \o B) = Elems(A) \cup Elems(B)
  BY <1>4, PlanThen
<1> QED
  BY <1>1, <1>3, <1>5 DEF A, B

\* And with U of utility.library to give back.
LEMMA BarsUIPCIPlan ==
  ASSUME NEW H, Covers(H, BarNames, NULL), One("irq") \notin H,
         {One("IPCI"), One("ExpansionBase")} \subseteq H,
         NEW U, Plan(H \ Bars, U), Elems(U) \subseteq {One("UtilityBase"), One("IUtility")}
  PROVE  /\ Plan(H, ReleaseBars \o U \o ReleaseIPCI)
         /\ Elems(ReleaseBars \o U \o ReleaseIPCI) =
              Bars \cup Elems(U) \cup {One("IPCI"), One("ExpansionBase")}
<1> DEFINE A == ReleaseBars
           B == ReleaseIPCI
           C == A \o U
<1>1. Plan(H, A) /\ Elems(A) = Bars
  BY ReleaseBarsPlan DEF One
<1> HIDE DEF A
<1>2. Plan(H \ Elems(A), U)
  BY <1>1
<1>3. Plan(H, C) /\ Elems(C) = Elems(A) \cup Elems(U)
  BY <1>1, <1>2, PlanConcat
<1> HIDE DEF C
<1>4. {One("IPCI"), One("ExpansionBase")} \subseteq H \ Elems(C) /\ One("pciDevice") \notin H \ Elems(C)
  BY <1>1, <1>3 DEF Bars, BarNames, One, Covers
<1>5. Plan(H \ Elems(C), B) /\ Elems(B) = {One("IPCI"), One("ExpansionBase")}
  BY <1>4, ReleaseIPCIPlan
<1> HIDE DEF B
<1>6. Then(H, C, B)
  BY <1>3, <1>5 DEF Then
<1>7. Plan(H, C \o B) /\ Elems(C \o B) = Elems(C) \cup Elems(B)
  BY <1>6, PlanThen
<1> QED
  BY <1>1, <1>3, <1>5, <1>7 DEF A, B, C

\* Everything Init obtained before the device was set up.
LEMMA ReleaseAllPlan ==
  ASSUME NEW H, Covers(H, BarNames, NULL), One("irq") \notin H,
         {One("IPCI"), One("ExpansionBase"), One("UtilityBase"), One("IUtility")} \subseteq H
  PROVE  /\ Plan(H, ReleaseAll)
         /\ Elems(ReleaseAll) =
              Bars \cup {One("IPCI"), One("ExpansionBase"), One("UtilityBase"), One("IUtility")}
<1> DEFINE U == Lib(<<"IUtility", "UtilityBase">>)
<1>1. Order2(H \ Bars, NULL, "IUtility", "UtilityBase")
  BY UsersAre, NoUsers DEF Order2, One, Bars, BarNames
<1>2. Plan(H \ Bars, Of(<<"IUtility", "UtilityBase">>, NULL))
  BY <1>1, PlanTwo, Zenon
<1>3. Plan(H \ Bars, U) /\ Elems(U) = {One("UtilityBase"), One("IUtility")}
  BY <1>2 DEF Lib, Elems, Of, One
<1>4. ReleaseAll = ReleaseBars \o U \o ReleaseIPCI
  BY DEF ReleaseAll
<1> HIDE DEF U
<1>5. /\ Plan(H, ReleaseBars \o U \o ReleaseIPCI)
      /\ Elems(ReleaseBars \o U \o ReleaseIPCI) =
           Bars \cup Elems(U) \cup {One("IPCI"), One("ExpansionBase")}
  BY <1>3, BarsUIPCIPlan
<1> QED
  BY <1>3, <1>4, <1>5

-----------------------------------------------------------------------------
(* Libraries, PCI discovery, interrupt server, INQUIRY buffer *)

Quiet == Stations \ (Probing \cup {"qalloc", "expunged"})
Undetected == {"expansion", "ipci", "find", "bars", "detect"}
Negotiated == {"queue", "qalloc", "driver_ok"} \cup Running
WithQueues == Negotiated \cup {"cleanup", "expunge"}

\* A step of the library calls changes nothing but libraries and station.
LEMMA LibStep ==
  ASSUME DriverInv, Only(LibRes), UNCHANGED <<dmaVars, queueVars, deviceVars, scanVars, hw>>,
         ipc \in Quiet, ipc' \in Quiet
  PROVE  QueueRest' /\ TempRest' /\ UnitRest' /\ SlotRest' /\ DmaFlow' /\ ScanTypes' /\ Calm'
<1>1. Same(QueueRes) /\ Same(TempRes) /\ Same(UnitRes) /\ Same(SlotRes)
  BY OnlyLib
<1>2. ipc \in HasNone /\ ipc' \in HasNone
  BY DEF Quiet, HasNone
<1>3. /\ ipc # "qalloc" /\ ipc' # "qalloc" /\ ipc # "expunged" /\ ipc' # "expunged"
      /\ ipc \notin Probing /\ ipc' \notin Probing
  BY DEF Quiet
<1>4. QueueRest'
  BY <1>1, <1>3, QueueFrame DEF DriverInv, LedgerInv, queueVars
<1>5. TempRest'
  BY <1>1, <1>2, TempFrame DEF DriverInv, LedgerInv, scanVars
<1>6. UnitRest'
  BY <1>1, <1>3, UnitFrame DEF DriverInv, LedgerInv, scanVars
<1>7. SlotRest' /\ DmaFlow'
  BY <1>1, SlotFrame, DmaFlowFrame DEF DriverInv, LedgerInv
<1>8. ScanTypes'
  BY <1>3 DEF DriverInv, ScanTypes, scanVars, Probes, Probing
<1>9. Calm'
  BY <1>3 DEF DriverInv, Calm, scanVars, Probing
<1> QED
  BY <1>4, <1>5, <1>6, <1>7, <1>8, <1>9

\* A change of station alone, as the device sees it.
LEMMA DeviceFrame ==
  ASSUME Device, UNCHANGED <<machineVars, queueVars, deviceVars>>,
         modern_mode => ipc' \notin Undetected,
         ipc' \in Setup \cup Running \cup {"expunge"} => ipc \in Setup \cup Running \cup {"expunge"},
         ipc' \in Negotiated => ipc \in Negotiated, ipc' \in Running => ipc \in Running,
         ipc \in WithQueues => ipc' \in WithQueues
  PROVE  Device'
<1>1. UNCHANGED <<hw, pci_cmd, bar5, modern_mode, common_cfg_base, q, vqflags, status, enabled, negotiated>>
  BY DEF machineVars, queueVars, deviceVars
<1>2. /\ MmioWorks(pci_cmd)' <=> MmioWorks(pci_cmd)
      /\ Drivable' <=> Drivable
      /\ AcceptedFeatures' = AcceptedFeatures
  BY <1>1 DEF MmioWorks, Drivable, AcceptedFeatures
<1>3. /\ Negotiated = {"queue", "qalloc", "driver_ok"} \cup Running
      /\ WithQueues = {"queue", "qalloc", "driver_ok", "cleanup", "expunge"} \cup Running
      /\ Undetected = {"expansion", "ipci", "find", "bars", "detect"}
  BY DEF Negotiated, WithQueues, Undetected
<1> QED
  BY <1>1, <1>2, <1>3 DEF Device

\* Before the queues there are none, and modern mode is not chosen.
LEMMA EarlyDevice ==
  ASSUME Device, ipc \in Undetected \cup {"utility", "iutility"}
  PROVE  ipc \notin WithQueues /\ (ipc \in Undetected => ~modern_mode)
  BY DEF Device, Undetected, WithQueues, Negotiated, Running, Probing

\* A call that obtains r of D, or gives back undo, inside D.
SoundCall(D, r, undo) ==
  /\ r \in D /\ r \in Resources
  /\ \A n, i : r \in Users(n, i) => <<n, i>> \in held
  /\ Plan(held, undo) /\ Elems(undo) \subseteq D

Outcome(r, good, undo, bad) ==
  \/ ipc' = good /\ Rest' = held \cup {r} /\ held' = held \cup {r} /\ todo' = <<>>
  \/ ipc' = bad /\ Rest' = held \ Elems(undo) /\ held' = held /\ todo' = undo

\* It keeps the books either way.
LEMMA AcquireOK ==
  ASSUME NEW D, NEW r, NEW good, NEW undo, NEW bad, Books, todo = <<>>,
         SoundCall(D, r, undo), Acquire(r, good, undo, bad)
  PROVE  Books' /\ Only(D) /\ Outcome(r, good, undo, bad)
<1> USE DEF SoundCall
<1>1. CASE Grant(r) /\ ipc' = good /\ todo' = todo
  <2>1. Books' /\ Only(D) /\ Rest' = held \cup {r} /\ held' = held \cup {r}
    BY <1>1, GrantOnly
  <2> QED
    BY <1>1, <2>1 DEF Outcome
<1>2. CASE todo' = undo /\ ipc' = bad /\ UNCHANGED <<held, fields>>
  <2>1. Plan(held, todo') /\ Elems(todo') \subseteq D
    BY <1>2
  <2>2. Books' /\ Only(D) /\ Rest' = held \ Elems(todo') /\ held' = held
    BY <1>2, <2>1, PlanOnly
  <2> QED
    BY <1>2, <2>2 DEF Outcome
<1> QED
  BY <1>1, <1>2 DEF Acquire

\* With the fields right, they cover what is held.
LEMMA HeldCovers == ASSUME Books, NEW N, NEW s PROVE Covers(held, N, s)
  BY DEF Books, Covers

\* The names of libraries are resources of their group.
LEMMA LibResource == ASSUME NEW n \in LibNames PROVE One(n) \in LibRes /\ One(n) \in Resources
  BY ResourcesAre DEF LibRes, One

\* expansion.library.
LEMMA OpenExpansionStep == ASSUME DriverInv, OpenExpansion PROVE DriverInv'
<1> DEFINE undo == <<>>
<1>1. /\ ipc = "expansion" /\ todo = <<>> /\ ipc' \in {"ipci", "failed"}
      /\ UNCHANGED <<dmaVars, machineVars, hw, queueVars, deviceVars, scanVars>>
      /\ Acquire(One("ExpansionBase"), "ipci", undo, "failed")
  BY DEF OpenExpansion, At, Acquire, machineVars
<1>2. Rest = held /\ Books /\ LibRest /\ fields = held
  BY <1>1, RestHeld DEF DriverInv, LedgerInv, Books
<1>3. SoundCall(LibRes, One("ExpansionBase"), undo) /\ Elems(undo) = {}
  <2>1. Plan(held, undo) /\ Elems(undo) = {} /\ Elems(undo) \subseteq LibRes
    BY PlanEmpty, ElemsEmpty
  <2>8. \A m, i : One("ExpansionBase") \in Users(m, i) => <<m, i>> \in held
    BY <1>1, <1>2, BuiltOn DEF LibRest, One, Ended
  <2>9. One("ExpansionBase") \in LibRes /\ One("ExpansionBase") \in Resources
    BY LibResource DEF LibNames
  <2> QED
    BY <2>1, <2>8, <2>9 DEF SoundCall
<1> HIDE DEF undo
<1>4. Books' /\ Only(LibRes) /\ Outcome(One("ExpansionBase"), "ipci", undo, "failed")
  BY <1>1, <1>2, <1>3, AcquireOK
<1>5. QueueRest' /\ TempRest' /\ UnitRest' /\ SlotRest' /\ DmaFlow' /\ ScanTypes' /\ Calm'
  <2>1. ipc \in Quiet /\ ipc' \in Quiet
    BY <1>1 DEF Quiet, Stations, Pre, Running, Probing, Ended
  <2> QED
    BY <1>1, <1>4, <2>1, LibStep
<1>6. LibRest'
  BY <1>1, <1>2, <1>3, <1>4 DEF Outcome, LibRest, One, Ended, Running, Probing, machineVars, Bars, BarNames
<1>7. Flow'
  BY <1>1 DEF DriverInv, Flow, Stations, Pre, Setup, Running, Ended, dmaVars, queueVars, scanVars, machineVars
<1>8. Device'
  <2>1. ipc \notin WithQueues /\ ~modern_mode /\ Device
    BY <1>1, EarlyDevice DEF DriverInv, Undetected
  <2>2. ipc' \notin Setup \cup Running \cup {"expunge"} /\ ipc' \notin Negotiated /\ ipc' \notin Running
    BY <1>1 DEF Setup, Running, Probing, Negotiated
  <2> QED
    BY <1>1, <2>1, <2>2, DeviceFrame
<1> QED
  BY <1>4, <1>5, <1>6, <1>7, <1>8 DEF DriverInv, LedgerInv

\* Its PCI interface.
LEMMA GetIPCIStep == ASSUME DriverInv, GetIPCI PROVE DriverInv'
<1> DEFINE undo == Lib(<<"ExpansionBase">>)
<1>1. /\ ipc = "ipci" /\ todo = <<>> /\ ipc' \in {"find", "failed"}
      /\ UNCHANGED <<dmaVars, machineVars, hw, queueVars, deviceVars, scanVars>>
      /\ Acquire(One("IPCI"), "find", undo, "failed")
  BY DEF GetIPCI, At, Acquire, machineVars
<1>2. Rest = held /\ Books /\ LibRest /\ fields = held
  BY <1>1, RestHeld DEF DriverInv, LedgerInv, Books
<1>3. SoundCall(LibRes, One("IPCI"), undo) /\ Elems(undo) = {One("ExpansionBase")}
  <2>1. Plan(held, undo) /\ Elems(undo) = {One("ExpansionBase")} /\ Elems(undo) \subseteq LibRes
    <3>1. One("ExpansionBase") \in held /\ Users("ExpansionBase", NULL) \cap held = {}
      BY <1>1, <1>2, UsersAre DEF LibRest, One, Ended
    <3> QED
      BY <3>1, PlanSingle, LibResource DEF Lib, One, LibNames
  <2>8. \A m, i : One("IPCI") \in Users(m, i) => <<m, i>> \in held
    BY <1>1, <1>2, BuiltOn DEF LibRest, One, Ended
  <2>9. One("IPCI") \in LibRes /\ One("IPCI") \in Resources
    BY LibResource DEF LibNames
  <2> QED
    BY <2>1, <2>8, <2>9 DEF SoundCall
<1> HIDE DEF undo
<1>4. Books' /\ Only(LibRes) /\ Outcome(One("IPCI"), "find", undo, "failed")
  BY <1>1, <1>2, <1>3, AcquireOK
<1>5. QueueRest' /\ TempRest' /\ UnitRest' /\ SlotRest' /\ DmaFlow' /\ ScanTypes' /\ Calm'
  <2>1. ipc \in Quiet /\ ipc' \in Quiet
    BY <1>1 DEF Quiet, Stations, Pre, Running, Probing, Ended
  <2> QED
    BY <1>1, <1>4, <2>1, LibStep
<1>6. LibRest'
  BY <1>1, <1>2, <1>3, <1>4 DEF Outcome, LibRest, One, Ended, Running, Probing, machineVars, Bars, BarNames
<1>7. Flow'
  BY <1>1 DEF DriverInv, Flow, Stations, Pre, Setup, Running, Ended, dmaVars, queueVars, scanVars, machineVars
<1>8. Device'
  <2>1. ipc \notin WithQueues /\ ~modern_mode /\ Device
    BY <1>1, EarlyDevice DEF DriverInv, Undetected
  <2>2. ipc' \notin Setup \cup Running \cup {"expunge"} /\ ipc' \notin Negotiated /\ ipc' \notin Running
    BY <1>1 DEF Setup, Running, Probing, Negotiated
  <2> QED
    BY <1>1, <2>1, <2>2, DeviceFrame
<1> QED
  BY <1>4, <1>5, <1>6, <1>7, <1>8 DEF DriverInv, LedgerInv

\* The PCI device.
LEMMA FindDeviceStep == ASSUME DriverInv, FindDevice PROVE DriverInv'
<1> DEFINE undo == ReleaseIPCI
<1>1. /\ ipc = "find" /\ todo = <<>> /\ ipc' \in {"bars", "failed"}
      /\ UNCHANGED <<dmaVars, hw, pci_cmd, modern_mode, common_cfg_base, queueVars, deviceVars, scanVars>>
      /\ Acquire(One("pciDevice"), "bars", undo, "failed")
  BY DEF FindDevice, At, Acquire, machineVars
<1>2. Rest = held /\ Books /\ LibRest /\ fields = held
  BY <1>1, RestHeld DEF DriverInv, LedgerInv, Books
<1>3. SoundCall(LibRes, One("pciDevice"), undo) /\ Elems(undo) = {One("IPCI"), One("ExpansionBase")}
  <2>1. Plan(held, undo) /\ Elems(undo) = {One("IPCI"), One("ExpansionBase")} /\ Elems(undo) \subseteq LibRes
    <3>1. {One("IPCI"), One("ExpansionBase")} \subseteq held /\ One("pciDevice") \notin held
      BY <1>1, <1>2 DEF LibRest, Ended
    <3> QED
      BY <3>1, ReleaseIPCIPlan, LibResource DEF LibNames
  <2>8. \A m, i : One("pciDevice") \in Users(m, i) => <<m, i>> \in held
    BY <1>1, <1>2, BuiltOn DEF LibRest, One, Ended
  <2>9. One("pciDevice") \in LibRes /\ One("pciDevice") \in Resources
    BY LibResource DEF LibNames
  <2> QED
    BY <2>1, <2>8, <2>9 DEF SoundCall
<1> HIDE DEF undo
<1>4. Books' /\ Only(LibRes) /\ Outcome(One("pciDevice"), "bars", undo, "failed")
  BY <1>1, <1>2, <1>3, AcquireOK
<1>5. QueueRest' /\ TempRest' /\ UnitRest' /\ SlotRest' /\ DmaFlow' /\ ScanTypes' /\ Calm'
  <2>1. ipc \in Quiet /\ ipc' \in Quiet
    BY <1>1 DEF Quiet, Stations, Pre, Running, Probing, Ended
  <2> QED
    BY <1>1, <1>4, <2>1, LibStep
<1>6. LibRest'
  BY <1>1, <1>2, <1>3, <1>4 DEF Outcome, LibRest, One, Ended, Running, Probing, machineVars, Bars, BarNames
<1>7. Flow'
  BY <1>1 DEF DriverInv, Flow, Stations, Pre, Setup, Running, Ended, dmaVars, queueVars, scanVars, machineVars
<1>8. Device'
  <2>1. ipc \notin WithQueues /\ ~modern_mode /\ Device
    BY <1>1, EarlyDevice DEF DriverInv, Undetected
  <2>2. \A n \in Queues : "vqs" \notin vqflags[n]
    BY <2>1 DEF Device, WithQueues, Negotiated
  <2>3. UNCHANGED <<vqflags, enabled, status>>
    BY <1>1 DEF queueVars, deviceVars
  <2> QED
    BY <1>1, <2>1, <2>2, <2>3 DEF Device, Setup, Running, Probing
<1> QED
  BY <1>4, <1>5, <1>6, <1>7, <1>8 DEF DriverInv, LedgerInv

\* utility.library.
LEMMA OpenUtilityStep == ASSUME DriverInv, OpenUtility PROVE DriverInv'
<1> DEFINE undo == ReleaseBars \o ReleaseIPCI
<1>1. /\ ipc = "utility" /\ todo = <<>> /\ ipc' \in {"iutility", "failed"}
      /\ UNCHANGED <<dmaVars, machineVars, hw, queueVars, deviceVars, scanVars>>
      /\ Acquire(One("UtilityBase"), "iutility", undo, "failed")
  BY DEF OpenUtility, At, Acquire, machineVars
<1>2. Rest = held /\ Books /\ LibRest /\ fields = held
  BY <1>1, RestHeld DEF DriverInv, LedgerInv, Books
<1>3. SoundCall(LibRes, One("UtilityBase"), undo) /\ Elems(undo) = Bars \cup {One("IPCI"), One("ExpansionBase")}
  <2>1. /\ Plan(held, undo) /\ Elems(undo) = Bars \cup {One("IPCI"), One("ExpansionBase")}
        /\ Elems(undo) \subseteq LibRes
    <3>1. {One("IPCI"), One("ExpansionBase")} \subseteq held /\ One("irq") \notin held
      BY <1>1, <1>2 DEF LibRest, Ended, Running, Probing
    <3>2. Covers(held, BarNames, NULL)
      BY <1>2, HeldCovers
    <3>3. Plan(held, undo) /\ Elems(undo) = Bars \cup {One("IPCI"), One("ExpansionBase")}
      BY <3>1, <3>2, BarsIPCIPlan
    <3>4. Bars \subseteq LibRes
      BY DEF Bars, BarNames, LibRes, LibNames
    <3> QED
      BY <3>3, <3>4, LibResource DEF LibNames
  <2>8. \A m, i : One("UtilityBase") \in Users(m, i) => <<m, i>> \in held
    BY <1>1, <1>2, BuiltOn DEF LibRest, One, Ended
  <2>9. One("UtilityBase") \in LibRes /\ One("UtilityBase") \in Resources
    BY LibResource DEF LibNames
  <2> QED
    BY <2>1, <2>8, <2>9 DEF SoundCall
<1> HIDE DEF undo
<1>4. Books' /\ Only(LibRes) /\ Outcome(One("UtilityBase"), "iutility", undo, "failed")
  BY <1>1, <1>2, <1>3, AcquireOK
<1>5. QueueRest' /\ TempRest' /\ UnitRest' /\ SlotRest' /\ DmaFlow' /\ ScanTypes' /\ Calm'
  <2>1. ipc \in Quiet /\ ipc' \in Quiet
    BY <1>1 DEF Quiet, Stations, Pre, Running, Probing, Ended
  <2> QED
    BY <1>1, <1>4, <2>1, LibStep
<1>6. LibRest'
  BY <1>1, <1>2, <1>3, <1>4 DEF Outcome, LibRest, One, Ended, Running, Probing, machineVars, Bars, BarNames
<1>7. Flow'
  BY <1>1 DEF DriverInv, Flow, Stations, Pre, Setup, Running, Ended, dmaVars, queueVars, scanVars, machineVars
<1>8. Device'
  <2>1. ipc \notin WithQueues /\ Device
    BY <1>1, EarlyDevice DEF DriverInv, Undetected
  <2>2. ipc' \notin Undetected /\ ipc' \notin Setup \cup Running \cup {"expunge"} /\ ipc' \notin Negotiated /\ ipc' \notin Running
    BY <1>1 DEF Setup, Running, Probing, Negotiated, Undetected
  <2> QED
    BY <1>1, <2>1, <2>2, DeviceFrame
<1> QED
  BY <1>4, <1>5, <1>6, <1>7, <1>8 DEF DriverInv, LedgerInv

\* Its interface.
LEMMA GetIUtilityStep == ASSUME DriverInv, GetIUtility PROVE DriverInv'
<1> DEFINE undo == ReleaseBars \o Lib(<<"UtilityBase">>) \o ReleaseIPCI
<1>1. /\ ipc = "iutility" /\ todo = <<>> /\ ipc' \in {"reset", "failed"}
      /\ UNCHANGED <<dmaVars, machineVars, hw, queueVars, deviceVars, scanVars>>
      /\ Acquire(One("IUtility"), "reset", undo, "failed")
  BY DEF GetIUtility, At, Acquire, machineVars
<1>2. Rest = held /\ Books /\ LibRest /\ fields = held
  BY <1>1, RestHeld DEF DriverInv, LedgerInv, Books
<1>3. SoundCall(LibRes, One("IUtility"), undo) /\ Elems(undo) = Bars \cup {One("UtilityBase"), One("IPCI"), One("ExpansionBase")}
  <2>1. /\ Plan(held, undo) /\ Elems(undo) = Bars \cup {One("UtilityBase"), One("IPCI"), One("ExpansionBase")}
        /\ Elems(undo) \subseteq LibRes
    <3> DEFINE U == Lib(<<"UtilityBase">>)
    <3>1. /\ {One("IPCI"), One("ExpansionBase"), One("UtilityBase")} \subseteq held
          /\ One("irq") \notin held /\ One("IUtility") \notin held
      BY <1>1, <1>2 DEF LibRest, Ended, Running, Probing
    <3>2. Covers(held, BarNames, NULL)
      BY <1>2, HeldCovers
    <3>3. One("UtilityBase") \in held \ Bars /\ Users("UtilityBase", NULL) \cap (held \ Bars) = {}
      BY <3>1, UsersAre DEF One, Bars, BarNames
    <3>4. Plan(held \ Bars, U) /\ Elems(U) = {One("UtilityBase")}
      BY <3>3, PlanSingle DEF Lib, One
    <3>5. undo = ReleaseBars \o U \o ReleaseIPCI
      OBVIOUS
    <3> HIDE DEF U, undo
    <3>6. /\ Plan(held, ReleaseBars \o U \o ReleaseIPCI)
          /\ Elems(ReleaseBars \o U \o ReleaseIPCI) =
               Bars \cup Elems(U) \cup {One("IPCI"), One("ExpansionBase")}
      BY <3>1, <3>2, <3>4, BarsUIPCIPlan
    <3>7. Plan(held, undo) /\ Elems(undo) = Bars \cup {One("UtilityBase"), One("IPCI"), One("ExpansionBase")}
      BY <3>4, <3>5, <3>6
    <3>8. Bars \subseteq LibRes
      BY DEF Bars, BarNames, LibRes, LibNames
    <3> QED
      BY <3>7, <3>8, LibResource DEF LibNames
  <2>8. \A m, i : One("IUtility") \in Users(m, i) => <<m, i>> \in held
    BY <1>1, <1>2, BuiltOn DEF LibRest, One, Ended
  <2>9. One("IUtility") \in LibRes /\ One("IUtility") \in Resources
    BY LibResource DEF LibNames
  <2> QED
    BY <2>1, <2>8, <2>9 DEF SoundCall
<1> HIDE DEF undo
<1>4. Books' /\ Only(LibRes) /\ Outcome(One("IUtility"), "reset", undo, "failed")
  BY <1>1, <1>2, <1>3, AcquireOK
<1>5. QueueRest' /\ TempRest' /\ UnitRest' /\ SlotRest' /\ DmaFlow' /\ ScanTypes' /\ Calm'
  <2>1. ipc \in Quiet /\ ipc' \in Quiet
    BY <1>1 DEF Quiet, Stations, Pre, Running, Probing, Ended
  <2> QED
    BY <1>1, <1>4, <2>1, LibStep
<1>6. LibRest'
  BY <1>1, <1>2, <1>3, <1>4 DEF Outcome, LibRest, One, Ended, Running, Probing, machineVars, Bars, BarNames
<1>7. Flow'
  BY <1>1 DEF DriverInv, Flow, Stations, Pre, Setup, Running, Ended, dmaVars, queueVars, scanVars, machineVars
<1>8. Device'
  <2>1. ipc \notin WithQueues /\ Device
    BY <1>1, EarlyDevice DEF DriverInv, Undetected
  <2>2. ipc' \notin Undetected /\ ipc' \notin Setup \cup Running \cup {"expunge"} /\ ipc' \notin Negotiated /\ ipc' \notin Running
    BY <1>1 DEF Setup, Running, Probing, Negotiated, Undetected
  <2> QED
    BY <1>1, <2>1, <2>2, DeviceFrame
<1> QED
  BY <1>4, <1>5, <1>6, <1>7, <1>8 DEF DriverInv, LedgerInv

\* The interrupt server.
LEMMA InstallVirtIOInterruptStep == ASSUME DriverInv, InstallVirtIOInterrupt PROVE DriverInv'
<1> DEFINE undo == <<>>
<1>1. /\ ipc = "irq" /\ todo = <<>> /\ ipc' \in {"scan", "scan"}
      /\ UNCHANGED <<dmaVars, machineVars, hw, queueVars, deviceVars, scanVars>>
      /\ Acquire(One("irq"), "scan", undo, "scan")
  BY DEF InstallVirtIOInterrupt, At, Acquire, machineVars
<1>2. Rest = held /\ Books /\ LibRest /\ fields = held
  BY <1>1, RestHeld DEF DriverInv, LedgerInv, Books
<1>3. SoundCall(LibRes, One("irq"), undo) /\ Elems(undo) = {}
  <2>1. Plan(held, undo) /\ Elems(undo) = {} /\ Elems(undo) \subseteq LibRes
    BY PlanEmpty, ElemsEmpty
  <2>8. \A m, i : One("irq") \in Users(m, i) => <<m, i>> \in held
    BY <1>1, <1>2, BuiltOn DEF LibRest, One, Ended
  <2>9. One("irq") \in LibRes /\ One("irq") \in Resources
    BY LibResource DEF LibNames
  <2> QED
    BY <2>1, <2>8, <2>9 DEF SoundCall
<1> HIDE DEF undo
<1>4. Books' /\ Only(LibRes) /\ Outcome(One("irq"), "scan", undo, "scan")
  BY <1>1, <1>2, <1>3, AcquireOK
<1>5. QueueRest' /\ TempRest' /\ UnitRest' /\ SlotRest' /\ DmaFlow' /\ ScanTypes' /\ Calm'
  <2>1. ipc \in Quiet /\ ipc' \in Quiet
    BY <1>1 DEF Quiet, Stations, Pre, Running, Probing, Ended
  <2> QED
    BY <1>1, <1>4, <2>1, LibStep
<1>6. LibRest'
  BY <1>1, <1>2, <1>3, <1>4 DEF Outcome, LibRest, One, Ended, Running, Probing, machineVars, Bars, BarNames
<1>7. Flow'
  BY <1>1 DEF DriverInv, Flow, Stations, Pre, Setup, Running, Ended, dmaVars, queueVars, scanVars, machineVars
<1>8. Device'
  <2>1. ipc' \notin Undetected /\ ipc \in Running /\ ipc' \in WithQueues /\ ipc \in Negotiated
    BY <1>1 DEF Undetected, Running, WithQueues, Negotiated
  <2> QED
    BY <1>1, <2>1, DeviceFrame DEF DriverInv
<1> QED
  BY <1>4, <1>5, <1>6, <1>7, <1>8 DEF DriverInv, LedgerInv

\* The INQUIRY buffer.
LEMMA AllocInquiryStep == ASSUME DriverInv, AllocInquiry PROVE DriverInv'
<1> DEFINE undo == <<>>
<1>1. /\ ipc = "scan" /\ todo = <<>> /\ ipc' \in {"probe", "up"}
      /\ UNCHANGED <<dmaVars, machineVars, hw, queueVars, deviceVars, scanVars>>
      /\ Acquire(One("inqData"), "probe", undo, "up")
  BY DEF AllocInquiry, At, Acquire, machineVars
<1>2. Rest = held /\ Books /\ LibRest /\ fields = held
  BY <1>1, RestHeld DEF DriverInv, LedgerInv, Books
<1>3. SoundCall(LibRes, One("inqData"), undo) /\ Elems(undo) = {}
  <2>1. Plan(held, undo) /\ Elems(undo) = {} /\ Elems(undo) \subseteq LibRes
    BY PlanEmpty, ElemsEmpty
  <2>8. \A m, i : One("inqData") \in Users(m, i) => <<m, i>> \in held
    BY <1>1, <1>2, BuiltOn DEF LibRest, One, Ended
  <2>9. One("inqData") \in LibRes /\ One("inqData") \in Resources
    BY LibResource DEF LibNames
  <2> QED
    BY <2>1, <2>8, <2>9 DEF SoundCall
<1> HIDE DEF undo
<1>4. Books' /\ Only(LibRes) /\ Outcome(One("inqData"), "probe", undo, "up")
  BY <1>1, <1>2, <1>3, AcquireOK
<1>5. QueueRest' /\ TempRest' /\ UnitRest' /\ SlotRest' /\ DmaFlow' /\ ScanTypes' /\ Calm'
  <2>1. ipc \in Quiet /\ ipc' \in Quiet
    BY <1>1 DEF Quiet, Stations, Pre, Running, Probing, Ended
  <2> QED
    BY <1>1, <1>4, <2>1, LibStep
<1>6. LibRest'
  BY <1>1, <1>2, <1>3, <1>4 DEF Outcome, LibRest, One, Ended, Running, Probing, machineVars, Bars, BarNames
<1>7. Flow'
  BY <1>1 DEF DriverInv, Flow, Stations, Pre, Setup, Running, Ended, dmaVars, queueVars, scanVars, machineVars
<1>8. Device'
  <2>1. ipc' \notin Undetected /\ ipc \in Running /\ ipc' \in WithQueues /\ ipc \in Negotiated
    BY <1>1 DEF Undetected, Running, WithQueues, Negotiated
  <2> QED
    BY <1>1, <2>1, DeviceFrame DEF DriverInv
<1> QED
  BY <1>4, <1>5, <1>6, <1>7, <1>8 DEF DriverInv, LedgerInv

\* Obtaining all of G at once, and giving back some of it.
SoundGrant(D, G) ==
  /\ G \subseteq D /\ G \subseteq Resources
  /\ held' = held \cup G /\ fields' = fields \cup G
  /\ \A r \in G : \A n, i : r \in Users(n, i) => <<n, i>> \in held
  /\ Plan(held', todo') /\ Elems(todo') \subseteq D

\* It keeps the books.
LEMMA GrantMany ==
  ASSUME NEW D, NEW G, Books, todo = <<>>, SoundGrant(D, G)
  PROVE  Books' /\ Only(D) /\ Rest' = (held \cup G) \ Elems(todo')
<1> USE DEF SoundGrant
<1>1. Closed(held')
  BY DEF Books, Closed
<1>2. Books'
  BY <1>1 DEF Books
<1>3. Rest = held
  BY RestHeld
<1>4. Rest' = (held \cup G) \ Elems(todo')
  BY DEF Rest
<1> QED
  BY <1>2, <1>3, <1>4 DEF Only

\* GetResourceRange of the BARs the machine has.
LEMMA GetBarsStep == ASSUME DriverInv, GetBars PROVE DriverInv'
<1> DEFINE G == {One(b) : b \in hw.bars}
<1>1. /\ ipc = "bars" /\ todo = <<>> /\ ipc' = "detect" /\ todo' = <<>>
      /\ UNCHANGED <<dmaVars, machineVars, queueVars, deviceVars, scanVars, hw>>
      /\ held' = held \cup G /\ fields' = fields \cup G
  BY DEF GetBars, At, machineVars
<1>2. Rest = held /\ Books /\ LibRest
  BY <1>1, RestHeld DEF DriverInv, LedgerInv
<1>3. hw.bars \subseteq {"bar0", "bar4"}
  BY DriverInitAssumption DEF DriverInv, Flow
<1>4. G \subseteq LibRes /\ G \subseteq Resources
  BY <1>3, ResourcesAre DEF LibRes, LibNames, One
<1>5. \A r \in G : \A n, i : r \in Users(n, i) => <<n, i>> \in held
  <2>1. One("pciDevice") \in held
    BY <1>1, <1>2 DEF LibRest, Ended
  <2>2. ASSUME NEW b \in {"bar0", "bar4"}, NEW n, NEW i, <<b, NULL>> \in Users(n, i) PROVE <<n, i>> \in held
    BY <2>1, <2>2, BuiltOn DEF One
  <2> QED
    BY <1>3, <2>2 DEF One
<1>6. Plan(held', todo') /\ Elems(todo') = {}
  BY <1>1, PlanEmpty, ElemsEmpty
<1> HIDE DEF G
<1>7. Books' /\ Only(LibRes) /\ Rest' = (held \cup G) \ Elems(todo')
  <2>1. SoundGrant(LibRes, G)
    BY <1>1, <1>4, <1>5, <1>6 DEF SoundGrant
  <2> QED
    BY <1>1, <1>2, <2>1, GrantMany
<1>8. QueueRest' /\ TempRest' /\ UnitRest' /\ SlotRest' /\ DmaFlow' /\ ScanTypes' /\ Calm'
  <2>1. ipc \in Quiet /\ ipc' \in Quiet
    BY <1>1 DEF Quiet, Stations, Pre, Running, Probing, Ended
  <2> QED
    BY <1>1, <1>7, <2>1, LibStep
<1>9. LibRest'
  <2>1. /\ \A n \in {"ExpansionBase", "IPCI", "pciDevice", "UtilityBase", "IUtility", "irq", "inqData"} :
             One(n) \notin G
        /\ \A b \in {"bar0", "bar4"} : One(b) \in G <=> b \in hw.bars
    BY <1>3 DEF G, One
  <2>2. /\ \A n \in {"ExpansionBase", "IPCI", "pciDevice", "UtilityBase", "IUtility", "irq", "inqData"} :
             (One(n) \in Rest' <=> One(n) \in held) /\ (One(n) \in held' <=> One(n) \in held)
        /\ \A b \in {"bar0", "bar4"} : One(b) \in Rest' <=> b \in hw.bars \/ One(b) \in held
    BY <1>1, <1>6, <1>7, <2>1
  <2> QED
    BY <1>1, <1>2, <2>2 DEF LibRest, Ended, Running, Probing
<1>10. Flow'
  BY <1>1 DEF DriverInv, Flow, Stations, Pre, Setup, Running, Ended, dmaVars, queueVars, scanVars, machineVars
<1>11. Device'
  <2>1. ipc \notin WithQueues /\ ~modern_mode /\ Device
    BY <1>1, EarlyDevice DEF DriverInv, Undetected
  <2>2. ipc' \notin Setup \cup Running \cup {"expunge"} /\ ipc' \notin Negotiated /\ ipc' \notin Running
    BY <1>1 DEF Setup, Running, Probing, Negotiated
  <2> QED
    BY <1>1, <2>1, <2>2, DeviceFrame
<1> QED
  BY <1>7, <1>8, <1>9, <1>10, <1>11 DEF DriverInv, LedgerInv

\* A step that only moves the station, before the scan or after it.
LEMMA IdleStep ==
  ASSUME DriverInv, UNCHANGED <<ledgerVars, dmaVars, vqflags, scanVars, hw>>,
         ipc \in Quiet, ipc' \in Quiet \cup {"qalloc"}, ipc' = "qalloc" => qstage' = 1
  PROVE  /\ Books' /\ Same(LibRes)
         /\ QueueRest' /\ TempRest' /\ UnitRest' /\ SlotRest' /\ DmaFlow' /\ ScanTypes' /\ Calm'
<1>1. Books' /\ Rest' = Rest /\ held' = held
  BY IdleOK DEF DriverInv, LedgerInv, ledgerVars
<1>2. Same(LibRes) /\ Same(QueueRes) /\ Same(TempRes) /\ Same(UnitRes) /\ Same(SlotRes)
  BY <1>1 DEF Same
<1>3. ipc \in HasNone /\ ipc' \in HasNone
  BY DEF Quiet, HasNone, Stations, Setup, Probing
<1>4. /\ ipc # "qalloc" /\ ipc # "expunged" /\ ipc' # "expunged"
      /\ ipc \notin Probing /\ ipc' \notin Probing
  BY DEF Quiet, Probing
<1>5. QueueRest'
  <2>1. CASE ipc' # "qalloc"
    BY <1>2, <1>4, <2>1, QueueFrame DEF DriverInv, LedgerInv
  <2>2. CASE ipc' = "qalloc"
    <3>1. ~\E j \in 1 .. qstage' - 1 : TRUE
      BY <2>2
    <3>2. \A n \in QueueNames, k \in Queues : <<n, k>> \in Rest <=> "vqs" \in vqflags[k] /\ n # "vring_dma"
      BY <1>4 DEF DriverInv, LedgerInv, QueueRest
    <3>3. vqflags' = vqflags
      OBVIOUS
    <3> QED
      BY <1>1, <2>2, <3>1, <3>2, <3>3 DEF QueueRest
  <2> QED
    BY <2>1, <2>2
<1>6. TempRest'
  BY <1>2, <1>3, TempFrame DEF DriverInv, LedgerInv, scanVars
<1>7. UnitRest'
  BY <1>2, <1>4, UnitFrame DEF DriverInv, LedgerInv, scanVars
<1>8. SlotRest' /\ DmaFlow'
  BY <1>2, SlotFrame, DmaFlowFrame DEF DriverInv, LedgerInv
<1>9. ScanTypes'
  BY <1>4 DEF DriverInv, ScanTypes, scanVars, Probes, Probing
<1>10. Calm'
  BY <1>4 DEF DriverInv, Calm, scanVars, Probing
<1> QED
  BY <1>1, <1>2, <1>5, <1>6, <1>7, <1>8, <1>9, <1>10

\* Memory cycles that arrive go on arriving.
LEMMA MemoryStaysEnabled ==
  ASSUME MmioWorks(pci_cmd) PROVE EnableMemory(pci_cmd) = pci_cmd
  BY DEF MmioWorks, EnableMemory

\* The choice between legacy and modern registers.
LEMMA DetectModernVirtIOStep == ASSUME DriverInv, DetectModernVirtIO PROVE DriverInv'
<1>1. /\ ipc = "detect" /\ todo = <<>> /\ ipc' = "utility"
      /\ UNCHANGED <<ledgerVars, dmaVars, hw, bar5, queueVars, deviceVars, scanVars>>
      /\ common_cfg_base' = hw.common
      /\ pci_cmd' = IF hw.common THEN EnableMemory(pci_cmd) ELSE pci_cmd
      /\ modern_mode' = (hw.common /\ ProbeMmio(pci_cmd'))
  BY DEF DetectModernVirtIO, At
<1>2. /\ Books' /\ Same(LibRes)
      /\ QueueRest' /\ TempRest' /\ UnitRest' /\ SlotRest' /\ DmaFlow' /\ ScanTypes' /\ Calm'
  <2>1. ipc \in Quiet /\ ipc' \in Quiet /\ UNCHANGED vqflags
    BY <1>1 DEF Quiet, Stations, Pre, Probing, queueVars
  <2>2. ipc' # "qalloc"
    BY <1>1
  <2> QED
    BY <1>1, <2>1, <2>2, IdleStep
<1>3. LibRest'
  <2>1. Rest' = Rest /\ held' = held
    BY <1>1 DEF Rest, ledgerVars
  <2> QED
    BY <1>1, <2>1 DEF DriverInv, LedgerInv, LibRest, Ended, Running, Probing
<1>4. Flow'
  BY <1>1 DEF DriverInv, Flow, Stations, Pre, Setup, Running, Ended, dmaVars, queueVars, scanVars
<1>5. Device'
  <2>1. ipc \notin WithQueues /\ Device
    BY <1>1, EarlyDevice DEF DriverInv, Undetected
  <2>2. \A n \in Queues : "vqs" \notin vqflags[n]
    BY <2>1 DEF Device, WithQueues, Negotiated
  <2>3. UNCHANGED <<vqflags, enabled, status>>
    BY <1>1 DEF queueVars, deviceVars
  <2>4. hw.common \in BOOLEAN
    BY DriverInitAssumption DEF DriverInv, Flow
  <2>5. modern_mode' \in BOOLEAN /\ (modern_mode' => hw.common /\ MmioWorks(pci_cmd'))
    BY <1>1, <2>4 DEF ProbeMmio, MmioWorks
  <2>6. modern_mode' => MmioWorks(pci_cmd)'
    BY <1>1, <2>5 DEF MmioWorks
  <2> QED
    BY <1>1, <2>1, <2>2, <2>3, <2>4, <2>5, <2>6 DEF Device, Setup, Running, Probing
<1> QED
  BY <1>2, <1>3, <1>4, <1>5 DEF DriverInv, LedgerInv

\* The driver's writes arrive once the mode is chosen.
LEMMA WritesArrive ==
  ASSUME DriverInv, todo = <<>>, ipc \in Setup \cup {"reset"}, Drivable
  PROVE  Reaches
<1>1. CASE modern_mode
  BY <1>1 DEF DriverInv, Device, Reaches
<1>2. CASE ~modern_mode
  <2>1. "bar0" \in hw.bars /\ Rest = held
    BY <1>2, RestHeld DEF Drivable
  <2> QED
    BY <1>2, <2>1 DEF DriverInv, LedgerInv, LibRest, Reaches, Setup, Ended
<1> QED
  BY <1>1, <1>2

-----------------------------------------------------------------------------
(* Device and queue set-up *)

\* Reset, ACKNOWLEDGE, DRIVER, on the path the mode selects.
LEMMA ResetDeviceStep == ASSUME DriverInv, ResetDevice PROVE DriverInv'
<1>1. /\ ipc = "reset" /\ todo = <<>> /\ ipc' \in {"cleanup", "features"} /\ q' = 0
      /\ UNCHANGED <<ledgerVars, dmaVars, hw, bar5, modern_mode, common_cfg_base,
                     qstage, vqflags, enabled, negotiated, scanVars>>
      /\ pci_cmd' = IF modern_mode THEN EnableMemory(pci_cmd) ELSE pci_cmd
      /\ status' \in {status, "driver"}
      /\ ipc' = "features" => modern_mode \/ One("bar0") \in fields
  BY DEF ResetDevice, At
<1>2. /\ Books' /\ Same(LibRes)
      /\ QueueRest' /\ TempRest' /\ UnitRest' /\ SlotRest' /\ DmaFlow' /\ ScanTypes' /\ Calm'
  <2>1. ipc \in Quiet /\ ipc' \in Quiet
    BY <1>1 DEF Quiet, Stations, Pre, Setup, Probing
  <2>2. ipc' # "qalloc"
    BY <1>1
  <2> QED
    BY <1>1, <2>1, <2>2, IdleStep
<1>3. LibRest'
  <2>1. {ipc, ipc'} \subseteq {"reset", "cleanup"} \cup Setup /\ ipc' # "reset"
    BY <1>1 DEF Setup
  <2> QED
    BY <1>1, <1>2, <2>1, LibFrame DEF DriverInv, LedgerInv
<1>4. Flow'
  BY <1>1 DEF DriverInv, Flow, Stations, Pre, Setup, Running, Ended, dmaVars, scanVars
<1>5. Device'
  <2>1. pci_cmd' = pci_cmd
    BY <1>1, MemoryStaysEnabled DEF DriverInv, Device
  <2>2. \A n \in Queues : "vqs" \notin vqflags[n]
    BY <1>1 DEF DriverInv, Device, Running, Probing
  <2>3. ipc' = "features" => Drivable
    <3>1. Rest = held /\ fields = held
      BY <1>1, RestHeld DEF DriverInv, LedgerInv, Books
    <3> QED
      BY <1>1, <3>1 DEF DriverInv, LedgerInv, LibRest, Drivable
  <2>4. (MmioWorks(pci_cmd)' <=> MmioWorks(pci_cmd)) /\ (Drivable' <=> Drivable)
    BY <1>1, <2>1 DEF MmioWorks, Drivable
  <2> QED
    BY <1>1, <2>1, <2>2, <2>3, <2>4 DEF DriverInv, Device, Setup, Running, Probing
<1> QED
  BY <1>2, <1>3, <1>4, <1>5 DEF DriverInv, LedgerInv

\* Features accepted or rejected.
LEMMA NegotiateFeaturesStep == ASSUME DriverInv, NegotiateFeatures PROVE DriverInv'
<1>1. /\ ipc = "features" /\ todo = <<>>
      /\ UNCHANGED <<ledgerVars, dmaVars, machineVars, hw, queueVars, vqflags, enabled, scanVars>>
      /\ \/ ipc' = "queue" /\ negotiated' = AcceptedFeatures /\ status' \in {status, "features_ok"}
         \/ ipc' = "cleanup" /\ status' = "failed"
  BY DEF NegotiateFeatures, At, machineVars, queueVars
<1>2. /\ Books' /\ Same(LibRes)
      /\ QueueRest' /\ TempRest' /\ UnitRest' /\ SlotRest' /\ DmaFlow' /\ ScanTypes' /\ Calm'
  <2>1. ipc \in Quiet /\ ipc' \in Quiet
    BY <1>1 DEF Quiet, Stations, Pre, Setup, Probing
  <2>2. ipc' # "qalloc"
    BY <1>1
  <2> QED
    BY <1>1, <2>1, <2>2, IdleStep
<1>3. LibRest'
  <2>1. {ipc, ipc'} \subseteq {"reset", "cleanup"} \cup Setup /\ ipc' # "reset"
    BY <1>1 DEF Setup
  <2> QED
    BY <1>1, <1>2, <2>1, LibFrame DEF DriverInv, LedgerInv
<1>4. Flow'
  BY <1>1 DEF DriverInv, Flow, Stations, Pre, Setup, Running, Ended, dmaVars, queueVars, scanVars
<1>5. Device'
  <2>1. \A n \in Queues : "vqs" \notin vqflags[n]
    BY <1>1 DEF DriverInv, Device, Running, Probing
  <2>2. UNCHANGED <<hw, pci_cmd, bar5, modern_mode, common_cfg_base, q, vqflags>>
    BY <1>1 DEF machineVars, queueVars
  <2>3. /\ (MmioWorks(pci_cmd)' <=> MmioWorks(pci_cmd)) /\ (Drivable' <=> Drivable)
        /\ AcceptedFeatures' = AcceptedFeatures
    BY <2>2 DEF MmioWorks, Drivable, AcceptedFeatures
  <2> QED
    BY <1>1, <2>1, <2>2, <2>3 DEF DriverInv, Device, Setup, Running, Probing
<1> QED
  BY <1>2, <1>3, <1>4, <1>5 DEF DriverInv, LedgerInv

\* The queue loop.
LEMMA SelectQueueStep == ASSUME DriverInv, SelectQueue PROVE DriverInv'
<1>1. /\ ipc = "queue" /\ todo = <<>>
      /\ UNCHANGED <<ledgerVars, dmaVars, machineVars, hw, vqflags, deviceVars, scanVars>>
      /\ \/ ipc' = "driver_ok" /\ UNCHANGED <<q, qstage>>
         \/ ipc' = "qalloc" /\ qstage' = 1 /\ q' = q /\ q \in Queues
         \/ ipc' = "queue" /\ q' = q + 1 /\ q \in Queues /\ UNCHANGED qstage
  BY DEF SelectQueue, At, machineVars
<1>2. /\ Books' /\ Same(LibRes)
      /\ QueueRest' /\ TempRest' /\ UnitRest' /\ SlotRest' /\ DmaFlow' /\ ScanTypes' /\ Calm'
  <2>1. ipc \in Quiet /\ ipc' \in Quiet \cup {"qalloc"}
    BY <1>1 DEF Quiet, Stations, Pre, Setup, Probing
  <2>2. ipc' = "qalloc" => qstage' = 1
    BY <1>1
  <2> QED
    BY <1>1, <2>1, <2>2, IdleStep
<1>3. LibRest'
  <2>1. {ipc, ipc'} \subseteq {"reset", "cleanup"} \cup Setup /\ ipc' # "reset"
    BY <1>1 DEF Setup
  <2> QED
    BY <1>1, <1>2, <2>1, LibFrame DEF DriverInv, LedgerInv
<1>4. q' \in 0 .. 3 /\ q <= q' /\ qstage' \in 1 .. 7 /\ q \in 0 .. 3
  BY <1>1 DEF DriverInv, Flow, Queues
<1>5. Flow'
  BY <1>1, <1>4 DEF DriverInv, Flow, Stations, Pre, Setup, Running, Ended, dmaVars, scanVars
<1>6. Device'
  <2>1. UNCHANGED <<hw, pci_cmd, bar5, modern_mode, common_cfg_base, vqflags, status, enabled, negotiated>>
    BY <1>1 DEF machineVars, deviceVars
  <2>2. /\ (MmioWorks(pci_cmd)' <=> MmioWorks(pci_cmd)) /\ (Drivable' <=> Drivable)
        /\ AcceptedFeatures' = AcceptedFeatures
    BY <2>1 DEF MmioWorks, Drivable, AcceptedFeatures
  <2>3. \A n \in Queues : n < q => n < q'
    BY <1>4 DEF Queues
  <2> QED
    BY <1>1, <2>1, <2>2, <2>3 DEF DriverInv, Device, Setup, Running, Probing
<1> QED
  BY <1>2, <1>3, <1>5, <1>6 DEF DriverInv, LedgerInv

\* DRIVER_OK is written and arrives.
LEMMA DriverOkStep == ASSUME DriverInv, DriverOk PROVE DriverInv'
<1>1. /\ ipc = "driver_ok" /\ todo = <<>> /\ ipc' = "irq"
      /\ UNCHANGED <<ledgerVars, dmaVars, machineVars, hw, queueVars, vqflags, enabled, negotiated, scanVars>>
      /\ status' = IF Reaches THEN "driver_ok" ELSE status
  BY DEF DriverOk, At, machineVars, queueVars
<1>2. /\ Books' /\ Same(LibRes)
      /\ QueueRest' /\ TempRest' /\ UnitRest' /\ SlotRest' /\ DmaFlow' /\ ScanTypes' /\ Calm'
  <2>1. ipc \in Quiet /\ ipc' \in Quiet
    BY <1>1 DEF Quiet, Stations, Pre, Setup, Running, Probing
  <2>2. ipc' # "qalloc"
    BY <1>1
  <2> QED
    BY <1>1, <2>1, <2>2, IdleStep
<1>3. LibRest'
  <2>1. Rest' = Rest /\ held' = held
    BY <1>1 DEF Rest, ledgerVars
  <2> QED
    BY <1>1, <2>1 DEF DriverInv, LedgerInv, LibRest, Ended, Running, Probing
<1>4. Flow'
  BY <1>1 DEF DriverInv, Flow, Stations, Pre, Setup, Running, Ended, dmaVars, queueVars, scanVars
<1>5. Device'
  <2>1. Drivable
    BY <1>1 DEF DriverInv, Device, Setup
  <2>2. status' = "driver_ok"
    BY <1>1, <2>1, WritesArrive DEF Setup
  <2>3. UNCHANGED <<hw, pci_cmd, bar5, modern_mode, common_cfg_base, q, vqflags>>
    BY <1>1 DEF machineVars, queueVars
  <2>4. /\ (MmioWorks(pci_cmd)' <=> MmioWorks(pci_cmd)) /\ (Drivable' <=> Drivable)
        /\ AcceptedFeatures' = AcceptedFeatures
    BY <2>3 DEF MmioWorks, Drivable, AcceptedFeatures
  <2> QED
    BY <1>1, <2>1, <2>2, <2>3, <2>4 DEF DriverInv, Device, Setup, Running, Probing
<1> QED
  BY <1>2, <1>3, <1>4, <1>5 DEF DriverInv, LedgerInv

-----------------------------------------------------------------------------
(* The queues *)

QGot(k) == {QueueStages[j] : j \in 1 .. k - 1}

\* What a queue has before each call.
LEMMA QGotIs ==
  /\ QGot(1) = {} /\ QGot(2) = {"raw"} /\ QGot(3) = {"raw", "vq"} /\ QGot(4) = {"raw", "vq", "cookies"}
  /\ QGot(5) = {"raw", "vq", "cookies", "indirect_tables"}
  /\ QGot(6) = {"raw", "vq", "cookies", "indirect_tables", "vring"}
  /\ QGot(7) = QueueNames
  BY DEF QGot, QueueStages, QueueNames

\* VirtQueue_Free of a queue whose ring is mapped.
LEMMA FreeMappedPlan ==
  ASSUME NEW H, NEW n, {<<"vring", n>>, <<"indirect_tables", n>>, <<"cookies", n>>, <<"raw", n>>,
                        <<"vq", n>>} \subseteq H
  PROVE  /\ Plan(H, FreeMapped(n))
         /\ Elems(FreeMapped(n)) = {<<"vring", n>>, <<"indirect_tables", n>>, <<"cookies", n>>,
                                    <<"raw", n>>, <<"vq", n>>}
<1> DEFINE A == Of(<<"vring">>, n)
           B == VirtQueue_Free(n)
<1>1. Plan(H, A) /\ Elems(A) = {<<"vring", n>>}
  BY NoUsers, PlanSingle
<1>2. Order4(H \ {<<"vring", n>>}, n, "indirect_tables", "cookies", "raw", "vq")
  BY NoUsers, UsersAre DEF Order4
<1>3. Plan(H \ {<<"vring", n>>}, Of(<<"indirect_tables", "cookies", "raw", "vq">>, n))
  BY <1>2, PlanFour, Zenon
<1>4. Elems(B) = {<<"indirect_tables", n>>, <<"cookies", n>>, <<"raw", n>>, <<"vq", n>>}
  BY DEF VirtQueue_Free, Elems, Of
<1>5. Plan(H \ {<<"vring", n>>}, B)
  BY <1>3 DEF VirtQueue_Free
<1>6. FreeMapped(n) = A \o B
  BY DEF FreeMapped
<1> HIDE DEF A, B
<1>7. Then(H, A, B)
  BY <1>1, <1>5 DEF Then
<1>8. Plan(H, A \o B) /\ Elems(A \o B) = Elems(A) \cup Elems(B)
  BY <1>7, PlanThen
<1> QED
  BY <1>1, <1>4, <1>6, <1>8

\* The roll-back of the queue under way, whichever call failed.
LEMMA QueueFailPlan ==
  ASSUME NEW H, NEW k \in 1 .. 6, \A n \in QueueNames : <<n, q>> \in H <=> n \in QGot(k)
  PROVE  /\ Plan(H, QueueFailPath(QueueStages[k]))
         /\ Elems(QueueFailPath(QueueStages[k])) = {<<n, q>> : n \in QGot(k)}
<1>1. CASE k = 1
  <2>1. QueueFailPath(QueueStages[k]) = <<>>
    BY <1>1 DEF QueueFailPath, QueueStages
  <2>2. QGot(k) = {}
    BY <1>1, QGotIs
  <2> QED
    BY <2>1, <2>2, PlanEmpty, ElemsEmpty
<1>2. CASE k = 2
  <2>1. QueueFailPath(QueueStages[k]) = Of(<<"raw">>, q)
    BY <1>2 DEF QueueFailPath, QueueStages
  <2>2. QGot(k) = {"raw"}
    BY <1>2, QGotIs
  <2>3. <<"raw", q>> \in H /\ Users("raw", q) \cap H = {}
    BY <2>2, UsersAre DEF QueueNames
  <2> QED
    BY <2>1, <2>2, <2>3, PlanSingle
<1>3. CASE k = 3
  <2>1. QueueFailPath(QueueStages[k]) = Of(<<"raw", "vq">>, q)
    BY <1>3 DEF QueueFailPath, QueueStages
  <2>2. QGot(k) = {"raw", "vq"}
    BY <1>3, QGotIs
  <2>3. Order2(H, q, "raw", "vq")
    BY <2>2, UsersAre, NoUsers DEF QueueNames, Order2
  <2>4. Plan(H, Of(<<"raw", "vq">>, q))
    BY <2>3, PlanTwo, Zenon
  <2>5. Elems(Of(<<"raw", "vq">>, q)) = {<<"raw", q>>, <<"vq", q>>}
    BY DEF Elems, Of
  <2> QED
    BY <2>1, <2>2, <2>4, <2>5
<1>4. CASE k = 4
  <2>1. QueueFailPath(QueueStages[k]) = Of(<<"cookies", "raw", "vq">>, q)
    BY <1>4 DEF QueueFailPath, QueueStages
  <2>2. QGot(k) = {"raw", "vq", "cookies"}
    BY <1>4, QGotIs
  <2>3. Order3(H, q, "cookies", "raw", "vq")
    BY <2>2, UsersAre, NoUsers DEF QueueNames, Order3
  <2>4. Plan(H, Of(<<"cookies", "raw", "vq">>, q))
    BY <2>3, PlanThree, Zenon
  <2>5. Elems(Of(<<"cookies", "raw", "vq">>, q)) = {<<"cookies", q>>, <<"raw", q>>, <<"vq", q>>}
    BY DEF Elems, Of
  <2> QED
    BY <2>1, <2>2, <2>4, <2>5
<1>5. CASE k = 5
  <2>1. QueueFailPath(QueueStages[k]) = Of(<<"indirect_tables", "cookies", "raw", "vq">>, q)
    BY <1>5 DEF QueueFailPath, QueueStages, VirtQueue_Free
  <2>2. QGot(k) = {"raw", "vq", "cookies", "indirect_tables"}
    BY <1>5, QGotIs
  <2>3. Order4(H, q, "indirect_tables", "cookies", "raw", "vq")
    BY <2>2, UsersAre, NoUsers DEF QueueNames, Order4
  <2>4. Plan(H, Of(<<"indirect_tables", "cookies", "raw", "vq">>, q))
    BY <2>3, PlanFour, Zenon
  <2>5. Elems(Of(<<"indirect_tables", "cookies", "raw", "vq">>, q)) =
          {<<"indirect_tables", q>>, <<"cookies", q>>, <<"raw", q>>, <<"vq", q>>}
    BY DEF Elems, Of
  <2> QED
    BY <2>1, <2>2, <2>4, <2>5
<1>6. CASE k = 6
  <2>1. QueueFailPath(QueueStages[k]) = FreeMapped(q)
    BY <1>6 DEF QueueFailPath, QueueStages
  <2>2. QGot(k) = {"raw", "vq", "cookies", "indirect_tables", "vring"}
    BY <1>6, QGotIs
  <2>3. {<<"vring", q>>, <<"indirect_tables", q>>, <<"cookies", q>>, <<"raw", q>>, <<"vq", q>>} \subseteq H
    BY <2>2 DEF QueueNames
  <2>4. /\ Plan(H, FreeMapped(q))
        /\ Elems(FreeMapped(q)) = {<<"vring", q>>, <<"indirect_tables", q>>, <<"cookies", q>>,
                                   <<"raw", q>>, <<"vq", q>>}
    BY <2>3, FreeMappedPlan
  <2> QED
    BY <2>1, <2>2, <2>4
<1> QED
  BY <1>1, <1>2, <1>3, <1>4, <1>5, <1>6

\* A step of the queue loop changes nothing but queues and station.
LEMMA QueueStep ==
  ASSUME DriverInv, Only(QueueRes), UNCHANGED <<dmaVars, scanVars, hw>>,
         ipc = "qalloc", ipc' \in {"qalloc", "cleanup", "queue"}
  PROVE  LibRest' /\ TempRest' /\ UnitRest' /\ SlotRest' /\ DmaFlow' /\ ScanTypes' /\ Calm'
<1>1. Same(LibRes) /\ Same(TempRes) /\ Same(UnitRes) /\ Same(SlotRes)
  BY OnlyQueue
<1>2. ipc \in HasNone /\ ipc' \in HasNone
  BY DEF HasNone, Stations, Setup, Probing
<1>3. ipc # "expunged" /\ ipc' # "expunged" /\ ipc \notin Probing /\ ipc' \notin Probing
  BY DEF Probing
<1>4. {ipc, ipc'} \subseteq {"reset", "cleanup"} \cup Setup /\ ipc' # "reset"
  BY DEF Setup
<1>5. LibRest'
  BY <1>1, <1>4, LibFrame DEF DriverInv, LedgerInv
<1>6. TempRest'
  BY <1>1, <1>2, TempFrame DEF DriverInv, LedgerInv, scanVars
<1>7. UnitRest'
  BY <1>1, <1>3, UnitFrame DEF DriverInv, LedgerInv, scanVars
<1>8. SlotRest' /\ DmaFlow'
  BY <1>1, SlotFrame, DmaFlowFrame DEF DriverInv, LedgerInv
<1>9. ScanTypes'
  BY <1>3 DEF DriverInv, ScanTypes, scanVars, Probes, Probing
<1>10. Calm'
  BY <1>3 DEF DriverInv, Calm, scanVars, Probing
<1> QED
  BY <1>5, <1>6, <1>7, <1>8, <1>9, <1>10

\* What the queue under way has.
LEMMA QueueHas ==
  ASSUME DriverInv, ipc = "qalloc", todo = <<>>
  PROVE  /\ q \in Queues /\ "vqs" \notin vqflags[q]
         /\ \A n \in QueueNames : <<n, q>> \in held <=> n \in QGot(qstage)
<1>1. q \in Queues /\ Rest = held
  BY RestHeld DEF DriverInv, Flow
<1>2. "vqs" \notin vqflags[q]
  BY <1>1 DEF DriverInv, Device, Queues
<1>3. \A n \in QueueNames : <<n, q>> \in held <=> \E j \in 1 .. qstage - 1 : QueueStages[j] = n
  BY <1>1, <1>2 DEF DriverInv, LedgerInv, QueueRest
<1> QED
  BY <1>1, <1>2, <1>3 DEF QGot

\* A call of VirtQueue_Allocate or of the mapping of its ring.
LEMMA AllocateQueueStep == ASSUME DriverInv, AllocateQueue PROVE DriverInv'
<1> DEFINE undo == QueueFailPath(QueueStages[qstage])
           r == <<QueueStages[qstage], q>>
<1>1. /\ ipc = "qalloc" /\ todo = <<>> /\ ipc' \in {"qalloc", "cleanup"} /\ qstage \in 1 .. 6
      /\ qstage' = qstage + 1
      /\ UNCHANGED <<dmaVars, machineVars, hw, q, vqflags, deviceVars, scanVars>>
      /\ Acquire(r, "qalloc", undo, "cleanup")
  BY DEF AllocateQueue, At, Acquire, QueueStages, machineVars
<1>2. Books /\ Rest = held
  BY <1>1, RestHeld DEF DriverInv, LedgerInv
<1>3. /\ q \in Queues /\ "vqs" \notin vqflags[q]
      /\ \A n \in QueueNames : <<n, q>> \in held <=> n \in QGot(qstage)
  BY <1>1, QueueHas
<1>4. QGot(qstage) \subseteq QueueNames /\ QueueStages[qstage] \in QueueNames
  BY <1>1 DEF QGot, QueueStages, QueueNames
<1>5. SoundCall(QueueRes, r, undo) /\ Elems(undo) = {<<n, q>> : n \in QGot(qstage)}
  <2>1. Plan(held, undo) /\ Elems(undo) = {<<n, q>> : n \in QGot(qstage)}
    BY <1>1, <1>3, QueueFailPlan
  <2>2. Elems(undo) \subseteq QueueRes
    BY <1>3, <1>4, <2>1 DEF QueueRes
  <2>3. r \in QueueRes /\ r \in Resources
    BY <1>3, <1>4, ResourcesAre DEF QueueRes
  <2>4. \A m, i : r \in Users(m, i) => <<m, i>> \in held
    <3>1. SUFFICES ASSUME NEW m, NEW i, r \in Users(m, i) PROVE <<m, i>> \in held
      OBVIOUS
    <3>2. QueueStages[qstage] = "vring" /\ m = "raw" /\ i = q
      BY <1>4, <3>1, BuiltOn DEF QueueNames
    <3>3. qstage = 5
      BY <1>1, <3>2 DEF QueueStages
    <3> QED
      BY <1>3, <3>2, <3>3, QGotIs DEF QueueNames
  <2> QED
    BY <2>1, <2>2, <2>3, <2>4 DEF SoundCall
<1> HIDE DEF undo, r
<1>6. Books' /\ Only(QueueRes) /\ Outcome(r, "qalloc", undo, "cleanup")
  BY <1>1, <1>2, <1>5, AcquireOK
<1>7. LibRest' /\ TempRest' /\ UnitRest' /\ SlotRest' /\ DmaFlow' /\ ScanTypes' /\ Calm'
  BY <1>1, <1>6, QueueStep
<1>8. QueueRest'
  <2>5. qstage' - 1 = qstage /\ q' = q /\ vqflags' = vqflags
    BY <1>1
  <2>1. SUFFICES ASSUME NEW n \in QueueNames, NEW k \in Queues
                 PROVE  <<n, k>> \in Rest' <=>
                          \/ "vqs" \in vqflags[k] /\ n # "vring_dma"
                          \/ ipc' = "qalloc" /\ k = q /\ \E j \in 1 .. qstage : QueueStages[j] = n
    BY <2>5 DEF QueueRest
  <2>2. k # q => (<<n, k>> \in held <=> "vqs" \in vqflags[k] /\ n # "vring_dma")
    BY <1>2 DEF DriverInv, LedgerInv, QueueRest
  <2>3. CASE ipc' = "qalloc" /\ Rest' = held \cup {r}
    <3>1. CASE k # q
      BY <2>2, <2>3, <3>1 DEF r
    <3>2. CASE k = q
      <4>1. <<n, q>> \in Rest' <=> n \in QGot(qstage) \/ n = QueueStages[qstage]
        BY <1>3, <2>3 DEF r
      <4>2. n \in QGot(qstage) <=> \E j \in 1 .. qstage - 1 : QueueStages[j] = n
        BY DEF QGot
      <4>3. (\E j \in 1 .. qstage : QueueStages[j] = n) <=> n \in QGot(qstage) \/ n = QueueStages[qstage]
        <5>1. \A j : j \in 1 .. qstage <=> j \in 1 .. qstage - 1 \/ j = qstage
          BY <1>1
        <5> QED
          BY <4>2, <5>1
      <4> QED
        BY <1>3, <2>3, <3>2, <4>1, <4>3
    <3> QED
      BY <3>1, <3>2
  <2>4. CASE ipc' = "cleanup" /\ Rest' = held \ Elems(undo)
    <3>1. CASE k # q
      BY <1>5, <2>2, <2>4, <3>1
    <3>2. CASE k = q
      BY <1>3, <1>5, <2>4, <3>2
    <3> QED
      BY <3>1, <3>2
  <2> QED
    BY <1>6, <2>3, <2>4 DEF Outcome
<1>9. Flow'
  <2>1. qstage' \in 1 .. 7
    BY <1>1
  <2> QED
    BY <1>1, <2>1 DEF DriverInv, Flow, Stations, Pre, Setup, Running, Ended, dmaVars, scanVars
<1>10. Device'
  <2>1. UNCHANGED <<hw, pci_cmd, bar5, modern_mode, common_cfg_base, vqflags, status, enabled, negotiated>>
    BY <1>1 DEF machineVars, deviceVars
  <2>2. /\ (MmioWorks(pci_cmd)' <=> MmioWorks(pci_cmd)) /\ (Drivable' <=> Drivable)
        /\ AcceptedFeatures' = AcceptedFeatures
    BY <2>1 DEF MmioWorks, Drivable, AcceptedFeatures
  <2> QED
    BY <1>1, <2>1, <2>2 DEF DriverInv, Device, Setup, Running, Probing
<1> QED
  BY <1>6, <1>7, <1>8, <1>9, <1>10 DEF DriverInv, LedgerInv

\* The queue is complete: the device is told and vqs has it.
LEMMA PublishQueueStep == ASSUME DriverInv, PublishQueue PROVE DriverInv'
<1> DEFINE fl == {"vqs"} \cup (IF modern_mode THEN {"modern"} ELSE {})
                   \cup (AcceptedFeatures \ IF q = 1 THEN {"INDIRECT_DESC"} ELSE {})
<1>1. /\ ipc = "qalloc" /\ todo = <<>> /\ ipc' = "queue" /\ qstage \notin 1 .. 6 /\ q' = q + 1
      /\ todo' = Of(<<"vring_dma">>, q)
      /\ enabled' = IF Reaches THEN enabled \cup {q} ELSE enabled
      /\ vqflags' = [vqflags EXCEPT ![q] = fl]
      /\ UNCHANGED <<held, fields, dmaVars, machineVars, hw, qstage, status, negotiated, scanVars>>
  BY DEF PublishQueue, At, QueueStages, machineVars
<1>2. Books /\ Rest = held
  BY <1>1, RestHeld DEF DriverInv, LedgerInv
<1>3. qstage = 7
  BY <1>1 DEF DriverInv, Flow
<1>4. /\ q \in Queues /\ "vqs" \notin vqflags[q]
      /\ \A n \in QueueNames : <<n, q>> \in held
  BY <1>1, <1>3, QueueHas, QGotIs
<1>5. Plan(held, todo') /\ Elems(todo') = {<<"vring_dma", q>>} /\ Elems(todo') \subseteq QueueRes
  <2>1. <<"vring_dma", q>> \in held /\ Users("vring_dma", q) \cap held = {}
    BY <1>4, NoUsers DEF QueueNames
  <2>2. Plan(held, todo') /\ Elems(todo') = {<<"vring_dma", q>>}
    BY <1>1, <2>1, PlanSingle
  <2> QED
    BY <1>4, <2>2 DEF QueueRes, QueueNames
<1>6. Books' /\ Only(QueueRes) /\ Rest' = held \ {<<"vring_dma", q>>} /\ held' = held
  BY <1>1, <1>2, <1>5, PlanOnly
<1>7. LibRest' /\ TempRest' /\ UnitRest' /\ SlotRest' /\ DmaFlow' /\ ScanTypes' /\ Calm'
  BY <1>1, <1>6, QueueStep
<1>8. "vqs" \in fl /\ DOMAIN vqflags = Queues
  BY DEF DriverInv, Device
<1>9. vqflags'[q] = fl /\ DOMAIN vqflags' = Queues /\ \A k \in Queues : k # q => vqflags'[k] = vqflags[k]
  BY <1>1, <1>4, <1>8
<1>10. /\ fl \ {"vqs", "modern"} \subseteq AcceptedFeatures /\ ("modern" \in fl) = modern_mode
  BY DEF AcceptedFeatures, DriverInv, Device
<1> HIDE DEF fl
<1>11. QueueRest'
  <2>1. SUFFICES ASSUME NEW n \in QueueNames, NEW k \in Queues
                 PROVE  <<n, k>> \in Rest' <=> "vqs" \in vqflags'[k] /\ n # "vring_dma"
    BY <1>1 DEF QueueRest
  <2>2. k # q => (<<n, k>> \in held <=> "vqs" \in vqflags[k] /\ n # "vring_dma")
    BY <1>2 DEF DriverInv, LedgerInv, QueueRest
  <2>3. CASE k # q
    BY <1>6, <1>9, <2>2, <2>3
  <2>4. CASE k = q
    BY <1>4, <1>6, <1>8, <1>9, <2>4
  <2> QED
    BY <2>3, <2>4
<1>12. q' \in 0 .. 3 /\ q < q' /\ q \in 0 .. 3
  BY <1>1, <1>4 DEF Queues
<1>13. Flow'
  BY <1>1, <1>12 DEF DriverInv, Flow, Stations, Pre, Setup, Running, Ended, dmaVars, scanVars
<1>14. Device'
  <2>1. UNCHANGED <<hw, pci_cmd, bar5, modern_mode, common_cfg_base, status, negotiated>>
    BY <1>1 DEF machineVars
  <2>2. /\ (MmioWorks(pci_cmd)' <=> MmioWorks(pci_cmd)) /\ (Drivable' <=> Drivable)
        /\ AcceptedFeatures' = AcceptedFeatures
    BY <2>1 DEF MmioWorks, Drivable, AcceptedFeatures
  <2>3. Drivable
    BY <1>1 DEF DriverInv, Device, Setup
  <2>4. enabled' = enabled \cup {q}
    BY <1>1, <2>3, WritesArrive DEF Setup
  <2>5. enabled' = {n \in Queues : "vqs" \in vqflags'[n]}
    BY <1>4, <1>8, <1>9, <2>4 DEF DriverInv, Device
  <2>6. \A n \in Queues : n < q => n < q'
    BY <1>12 DEF Queues
  <2>7. \A n \in Queues :
          "vqs" \in vqflags'[n] =>
            /\ n < q' /\ vqflags'[n] \ {"vqs", "modern"} \subseteq AcceptedFeatures
            /\ ("modern" \in vqflags'[n]) = modern_mode
    BY <1>9, <1>10, <1>12, <2>6 DEF DriverInv, Device
  <2> QED
    BY <1>1, <1>9, <2>1, <2>2, <2>3, <2>5, <2>7 DEF DriverInv, Device, Setup, Running, Probing
<1> QED
  BY <1>6, <1>7, <1>11, <1>13, <1>14 DEF DriverInv, LedgerInv

-----------------------------------------------------------------------------
(* The scan for units *)

Scanning == {"probe"} \cup Probing

\* A step of DoIO changes nothing but its own buffers and the scan.
LEMMA ScanStep ==
  ASSUME DriverInv, Only(TempRes), UNCHANGED <<dmaVars, machineVars, queueVars, deviceVars, units>>,
         ipc \in Scanning, ipc' \in Scanning, ipc' = "poll" => todo' = <<>>
  PROVE  LibRest' /\ QueueRest' /\ UnitRest' /\ SlotRest' /\ DmaFlow' /\ Device' /\ Flow'
<1>1. Same(LibRes) /\ Same(QueueRes) /\ Same(UnitRes) /\ Same(SlotRes)
  BY OnlyTemp
<1>2. ipc # "qalloc" /\ ipc' # "qalloc" /\ ipc # "expunged" /\ ipc' # "expunged"
  BY DEF Scanning, Probing
<1>3. LibRest'
  BY <1>1, LibFrame DEF DriverInv, LedgerInv, Scanning, machineVars
<1>4. QueueRest'
  BY <1>1, <1>2, QueueFrame DEF DriverInv, LedgerInv, queueVars
<1>5. UnitRest'
  BY <1>1, <1>2, UnitFrame DEF DriverInv, LedgerInv
<1>6. SlotRest' /\ DmaFlow'
  BY <1>1, SlotFrame, DmaFlowFrame DEF DriverInv, LedgerInv
<1>7. Device'
  <2>1. /\ ipc' \notin Undetected /\ ipc \in Running /\ ipc \in Negotiated
        /\ ipc' \in WithQueues
    BY DEF Scanning, Probing, Running, Undetected, Negotiated, WithQueues
  <2> QED
    BY <2>1, DeviceFrame DEF DriverInv
<1>8. Flow'
  <2>1. /\ ipc' \in Stations /\ ipc' \notin Pre \cup Setup \cup {"cleanup", "failed", "irq", "scan"}
        /\ ipc # "up" /\ ipc' # "up"
    BY DEF Scanning, Probing, Stations, Running, Pre, Setup
  <2> QED
    BY <1>2, <2>1 DEF DriverInv, Flow, dmaVars, machineVars, queueVars
<1> QED
  BY <1>3, <1>4, <1>5, <1>6, <1>7, <1>8

\* What the probe under way has.
LEMMA TempNow ==
  ASSUME DriverInv, ipc \in Probing, todo = <<>>
  PROVE  /\ probe \in Nat /\ probe \in Probes /\ probe \notin timedOut /\ Rest = held /\ Books
         /\ \A n \in TempNames : <<n, probe>> \in held <=> n \in Have(ipc)
<1>1. probe \in Probes /\ probe \notin timedOut
  BY DEF DriverInv, ScanTypes
<1>2. probe \in Nat
  BY <1>1 DEF Probes, DriverInv, ScanTypes
<1>3. Rest = held
  BY RestHeld
<1> QED
  BY <1>1, <1>2, <1>3 DEF DriverInv, LedgerInv, TempRest

\* A step that deals in the buffers of this probe.
Mines == {<<n, probe>> : n \in TempNames}

\* Such a step that ends at a station with exactly what Have says.
LEMMA TempNext ==
  ASSUME DriverInv, ipc \in Probing, todo = <<>>, UNCHANGED <<timedOut, probe>>, Only(Mines),
         \A n \in TempNames : <<n, probe>> \in Rest' <=> n \in Have(ipc')
  PROVE  TempRest'
<1>1. probe \in Nat /\ probe \notin timedOut /\ Rest = held
  BY TempNow
<1>2. SUFFICES ASSUME NEW n \in TempNames, NEW p \in Nat
               PROVE  <<n, p>> \in Rest' <=> p \in timedOut \/ (p = probe /\ n \in Have(ipc'))
  BY DEF TempRest
<1>3. CASE p = probe
  BY <1>1, <1>3
<1>4. CASE p # probe
  <2>1. <<n, p>> \notin Mines
    BY <1>4 DEF Mines
  <2>2. <<n, p>> \in Rest' <=> <<n, p>> \in Rest
    BY <2>1 DEF Only
  <2>3. <<n, p>> \in Rest <=> p \in timedOut
    BY <1>4 DEF DriverInv, LedgerInv, TempRest
  <2> QED
    BY <1>4, <2>2, <2>3
<1> QED
  BY <1>3, <1>4

\* They are temporary buffers of the ledger.
LEMMA MinesAre ==
  ASSUME probe \in Nat
  PROVE  Mines \subseteq TempRes /\ Mines \subseteq Resources
  BY ResourcesAre DEF Mines, TempRes

\* The buffers of this probe are buffers of probes.
LEMMA MinesOnly == ASSUME probe \in Nat, Only(Mines) PROVE Only(TempRes)
  BY MinesAre DEF Only

\* DoIO's release of its four buffers and mappings.
LEMMA ReleaseTempPlan ==
  ASSUME NEW H, {<<"resp_map", probe>>, <<"req_map", probe>>, <<"resp_cmd", probe>>,
                 <<"req_cmd", probe>>} \subseteq H
  PROVE  /\ Plan(H, ReleaseTemp)
         /\ Elems(ReleaseTemp) = {<<"resp_map", probe>>, <<"req_map", probe>>,
                                  <<"resp_cmd", probe>>, <<"req_cmd", probe>>}
<1>1. Order4(H, probe, "resp_map", "req_map", "resp_cmd", "req_cmd")
  BY NoUsers, UsersAre DEF Order4
<1>2. Plan(H, Of(<<"resp_map", "req_map", "resp_cmd", "req_cmd">>, probe))
  BY <1>1, PlanFour, Zenon
<1> QED
  BY <1>2 DEF ReleaseTemp, Mine, Elems, Of

\* StartDMA of the request buffer.
LEMMA MapRequestStep == ASSUME DriverInv, MapRequest PROVE DriverInv'
<1> DEFINE undo == Mine(<<"req_cmd", "resp_cmd">>)
           r == <<"req_map", probe>>
<1>1. /\ ipc = "map_req" /\ todo = <<>> /\ ipc' \in {"map_resp", "probe"}
      /\ UNCHANGED <<dmaVars, machineVars, queueVars, deviceVars, units, probe, inqData, pending, used,
                     timedOut, tries, resp>>
      /\ Acquire(r, "map_resp", undo, "probe")
  BY DEF MapRequest, At, Acquire, scanVars
<1>2. ipc \in Probing /\ ipc \in Scanning /\ ipc' \in Scanning /\ ipc' # "poll"
  BY <1>1 DEF Probing, Scanning
<1>3. /\ probe \in Nat /\ probe \in Probes /\ probe \notin timedOut /\ Rest = held /\ Books
      /\ \A n \in TempNames : <<n, probe>> \in held <=> n \in Have(ipc)
  BY <1>1, <1>2, TempNow
<1>4. Have("map_req") = {"req_cmd", "resp_cmd"}
  BY DEF Have
<1>5. SoundCall(Mines, r, undo) /\ Elems(undo) = {<<"req_cmd", probe>>, <<"resp_cmd", probe>>}
  <2>1. Plan(held, undo) /\ Elems(undo) = {<<"req_cmd", probe>>, <<"resp_cmd", probe>>}
    <3>1. Order2(held, probe, "req_cmd", "resp_cmd")
      BY <1>1, <1>3, <1>4, UsersAre DEF Order2, TempNames
    <3>2. Plan(held, Of(<<"req_cmd", "resp_cmd">>, probe))
      BY <3>1, PlanTwo, Zenon
    <3> QED
      BY <3>2 DEF Mine, Elems, Of
  <2>2. Elems(undo) \subseteq Mines /\ r \in Mines
    BY <2>1 DEF Mines, TempNames
  <2>3. r \in Resources
    BY <1>3, <2>2, MinesAre
  <2>4. \A m, i : r \in Users(m, i) => <<m, i>> \in held
    BY <1>1, <1>3, <1>4, BuiltOn DEF TempNames
  <2> QED
    BY <2>1, <2>2, <2>3, <2>4 DEF SoundCall
<1> HIDE DEF undo, r
<1>6. Books' /\ Only(Mines) /\ Outcome(r, "map_resp", undo, "probe")
  BY <1>1, <1>3, <1>5, AcquireOK
<1>7. LibRest' /\ QueueRest' /\ UnitRest' /\ SlotRest' /\ DmaFlow' /\ Device' /\ Flow'
  BY <1>1, <1>2, <1>3, <1>6, MinesOnly, ScanStep
<1>8. TempRest'
  <2>1. \A n \in TempNames : <<n, probe>> \in Rest' <=> n \in Have(ipc')
    <3>1. Have("probe") = {} /\ Have("map_resp") = Have("map_req") \cup {"req_map"}
      BY DEF Have, TempNames
    <3>2. \A n \in TempNames : <<n, probe>> \in Elems(undo) <=> n \in Have("map_req")
      BY <1>4, <1>5
    <3> QED
      BY <1>1, <1>3, <1>6, <3>1, <3>2 DEF Outcome, r
  <2> QED
    BY <1>1, <1>2, <1>6, <2>1, TempNext
<1>9. ScanTypes'
  BY <1>1 DEF DriverInv, ScanTypes, Probes, Probing, machineVars
<1>10. Calm'
  BY <1>1 DEF DriverInv, Calm, machineVars
<1> QED
  BY <1>6, <1>7, <1>8, <1>9, <1>10 DEF DriverInv, LedgerInv

\* StartDMA of the response buffer.
LEMMA MapResponseStep == ASSUME DriverInv, MapResponse PROVE DriverInv'
<1> DEFINE undo == Mine(<<"req_map", "req_cmd", "resp_cmd">>)
           r == <<"resp_map", probe>>
<1>1. /\ ipc = "map_resp" /\ todo = <<>> /\ ipc' \in {"try", "probe"}
      /\ UNCHANGED <<dmaVars, machineVars, queueVars, deviceVars, units, probe, inqData, pending, used,
                     timedOut, tries, resp>>
      /\ Acquire(r, "try", undo, "probe")
  BY DEF MapResponse, At, Acquire, scanVars
<1>2. ipc \in Probing /\ ipc \in Scanning /\ ipc' \in Scanning /\ ipc' # "poll"
  BY <1>1 DEF Probing, Scanning
<1>3. /\ probe \in Nat /\ probe \in Probes /\ probe \notin timedOut /\ Rest = held /\ Books
      /\ \A n \in TempNames : <<n, probe>> \in held <=> n \in Have(ipc)
  BY <1>1, <1>2, TempNow
<1>4. Have("map_resp") = {"req_map", "req_cmd", "resp_cmd"}
  BY DEF Have
<1>5. SoundCall(Mines, r, undo) /\ Elems(undo) = {<<"req_map", probe>>, <<"req_cmd", probe>>, <<"resp_cmd", probe>>}
  <2>1. Plan(held, undo) /\ Elems(undo) = {<<"req_map", probe>>, <<"req_cmd", probe>>, <<"resp_cmd", probe>>}
    <3>1. Order3(held, probe, "req_map", "req_cmd", "resp_cmd")
      BY <1>1, <1>3, <1>4, UsersAre, NoUsers DEF Order3, TempNames
    <3>2. Plan(held, Of(<<"req_map", "req_cmd", "resp_cmd">>, probe))
      BY <3>1, PlanThree, Zenon
    <3> QED
      BY <3>2 DEF Mine, Elems, Of
  <2>2. Elems(undo) \subseteq Mines /\ r \in Mines
    BY <2>1 DEF Mines, TempNames
  <2>3. r \in Resources
    BY <1>3, <2>2, MinesAre
  <2>4. \A m, i : r \in Users(m, i) => <<m, i>> \in held
    BY <1>1, <1>3, <1>4, BuiltOn DEF TempNames
  <2> QED
    BY <2>1, <2>2, <2>3, <2>4 DEF SoundCall
<1> HIDE DEF undo, r
<1>6. Books' /\ Only(Mines) /\ Outcome(r, "try", undo, "probe")
  BY <1>1, <1>3, <1>5, AcquireOK
<1>7. LibRest' /\ QueueRest' /\ UnitRest' /\ SlotRest' /\ DmaFlow' /\ Device' /\ Flow'
  BY <1>1, <1>2, <1>3, <1>6, MinesOnly, ScanStep
<1>8. TempRest'
  <2>1. \A n \in TempNames : <<n, probe>> \in Rest' <=> n \in Have(ipc')
    <3>1. Have("probe") = {} /\ Have("try") = Have("map_resp") \cup {"resp_map"}
      BY DEF Have, TempNames
    <3>2. \A n \in TempNames : <<n, probe>> \in Elems(undo) <=> n \in Have("map_resp")
      BY <1>4, <1>5
    <3> QED
      BY <1>1, <1>3, <1>6, <3>1, <3>2 DEF Outcome, r
  <2> QED
    BY <1>1, <1>2, <1>6, <2>1, TempNext
<1>9. ScanTypes'
  BY <1>1 DEF DriverInv, ScanTypes, Probes, Probing, machineVars
<1>10. Calm'
  BY <1>1 DEF DriverInv, Calm, machineVars
<1> QED
  BY <1>6, <1>7, <1>8, <1>9, <1>10 DEF DriverInv, LedgerInv

\* An attempt: the INQUIRY buffer is mapped.
LEMMA BeginTryStep == ASSUME DriverInv, BeginTry PROVE DriverInv'
<1> DEFINE undo == ReleaseTemp
           r == <<"data_map", probe>>
<1>1. /\ ipc = "try" /\ todo = <<>> /\ ipc' \in {"add", "probe"}
      /\ UNCHANGED <<dmaVars, machineVars, queueVars, deviceVars, units, probe, inqData, pending, used,
                     timedOut>>
      /\ tries' = TriesLeft /\ resp' = [resp EXCEPT ![probe] = "ok"]
      /\ Acquire(r, "add", undo, "probe")
  BY DEF BeginTry, At, Acquire, scanVars
<1>2. ipc \in Probing /\ ipc \in Scanning /\ ipc' \in Scanning /\ ipc' # "poll"
  BY <1>1 DEF Probing, Scanning
<1>3. /\ probe \in Nat /\ probe \in Probes /\ probe \notin timedOut /\ Rest = held /\ Books
      /\ \A n \in TempNames : <<n, probe>> \in held <=> n \in Have(ipc)
  BY <1>1, <1>2, TempNow
<1>4. Have("try") = {"resp_map", "req_map", "resp_cmd", "req_cmd"}
  BY DEF Have
<1>5. SoundCall(Mines, r, undo) /\ Elems(undo) = {<<"resp_map", probe>>, <<"req_map", probe>>, <<"resp_cmd", probe>>, <<"req_cmd", probe>>}
  <2>1. Plan(held, undo) /\ Elems(undo) = {<<"resp_map", probe>>, <<"req_map", probe>>, <<"resp_cmd", probe>>, <<"req_cmd", probe>>}
    <3>1. {<<"resp_map", probe>>, <<"req_map", probe>>, <<"resp_cmd", probe>>, <<"req_cmd", probe>>} \subseteq held
      BY <1>1, <1>3, <1>4 DEF TempNames
    <3> QED
      BY <3>1, ReleaseTempPlan
  <2>2. Elems(undo) \subseteq Mines /\ r \in Mines
    BY <2>1 DEF Mines, TempNames
  <2>3. r \in Resources
    BY <1>3, <2>2, MinesAre
  <2>4. \A m, i : r \in Users(m, i) => <<m, i>> \in held
    BY <1>1, <1>3, <1>4, BuiltOn DEF TempNames
  <2> QED
    BY <2>1, <2>2, <2>3, <2>4 DEF SoundCall
<1> HIDE DEF undo, r
<1>6. Books' /\ Only(Mines) /\ Outcome(r, "add", undo, "probe")
  BY <1>1, <1>3, <1>5, AcquireOK
<1>7. LibRest' /\ QueueRest' /\ UnitRest' /\ SlotRest' /\ DmaFlow' /\ Device' /\ Flow'
  BY <1>1, <1>2, <1>3, <1>6, MinesOnly, ScanStep
<1>8. TempRest'
  <2>1. \A n \in TempNames : <<n, probe>> \in Rest' <=> n \in Have(ipc')
    <3>1. Have("probe") = {} /\ Have("add") = Have("try") \cup {"data_map"}
      BY DEF Have, TempNames
    <3>2. \A n \in TempNames : <<n, probe>> \in Elems(undo) <=> n \in Have("try")
      BY <1>4, <1>5
    <3> QED
      BY <1>1, <1>3, <1>6, <3>1, <3>2 DEF Outcome, r
  <2> QED
    BY <1>1, <1>2, <1>6, <2>1, TempNext
<1>9. ScanTypes'
  <2>1. tries \in 1 .. Tries /\ Tries \in Nat
    BY <1>1, DriverInitAssumption DEF DriverInv, ScanTypes
  <2>2. tries' \in 0 .. Tries
    BY <1>1, <2>1 DEF TriesLeft
  <2>3. resp' \in [Probes -> {"ok", "check", "bad"}]
    BY <1>1 DEF DriverInv, ScanTypes
  <2> QED
    BY <1>1, <2>2, <2>3 DEF DriverInv, ScanTypes, Probes, Probing, machineVars
<1>10. Calm'
  BY <1>1 DEF DriverInv, Calm, machineVars
<1> QED
  BY <1>6, <1>7, <1>8, <1>9, <1>10 DEF DriverInv, LedgerInv

\* A chain goes to the device, or there is no room for it.
LEMMA AddProbeStep == ASSUME DriverInv, AddProbe PROVE DriverInv'
<1> DEFINE M == Mine(<<"data_map">>)
<1>1. /\ ipc = "add" /\ todo = <<>>
      /\ UNCHANGED <<held, fields, dmaVars, machineVars, queueVars, deviceVars, units, probe, tries,
                     inqData, resp, used, timedOut>>
      /\ \/ /\ Cardinality(pending) + Len(used) < hw.room
            /\ pending' = pending \cup {probe} /\ ipc' = "poll" /\ todo' = <<>>
         \/ pending' = pending /\ ipc' = "probe" /\ todo' = M \o ReleaseTemp
  BY DEF AddProbe, At
<1>2. ipc \in Probing /\ ipc \in Scanning /\ ipc' \in Scanning /\ (ipc' = "poll" => todo' = <<>>)
  BY <1>1 DEF Probing, Scanning
<1>3. /\ probe \in Nat /\ probe \in Probes /\ probe \notin timedOut /\ Rest = held /\ Books
      /\ \A n \in TempNames : <<n, probe>> \in held
  BY <1>1, <1>2, TempNow DEF Have
<1>4. /\ Plan(held, todo') /\ Elems(todo') \subseteq Mines
      /\ Elems(todo') = IF ipc' = "poll" THEN {} ELSE Mines
  <2>1. CASE ipc' = "poll" /\ todo' = <<>>
    BY <2>1, PlanEmpty, ElemsEmpty
  <2>2. CASE ipc' = "probe" /\ todo' = M \o ReleaseTemp
    <3> DEFINE R == ReleaseTemp
    <3>1. <<"data_map", probe>> \in held /\ Users("data_map", probe) \cap held = {}
      BY <1>3, NoUsers DEF TempNames
    <3>2. Plan(held, M) /\ Elems(M) = {<<"data_map", probe>>}
      BY <3>1, PlanSingle DEF Mine
    <3>3. {<<"resp_map", probe>>, <<"req_map", probe>>, <<"resp_cmd", probe>>, <<"req_cmd", probe>>}
            \subseteq held \ {<<"data_map", probe>>}
      BY <1>3 DEF TempNames
    <3>4. /\ Plan(held \ {<<"data_map", probe>>}, R)
          /\ Elems(R) = {<<"resp_map", probe>>, <<"req_map", probe>>, <<"resp_cmd", probe>>,
                         <<"req_cmd", probe>>}
      BY <3>3, ReleaseTempPlan
    <3> HIDE DEF M, R
    <3>5. Then(held, M, R)
      BY <3>2, <3>4 DEF Then
    <3>6. Plan(held, M \o R) /\ Elems(M \o R) = Elems(M) \cup Elems(R)
      BY <3>5, PlanThen
    <3>7. Elems(M) \cup Elems(R) = Mines
      BY <3>2, <3>4 DEF Mines, TempNames
    <3> QED
      BY <2>2, <3>6, <3>7 DEF R
  <2> QED
    BY <1>1, <2>1, <2>2
<1>5. Books' /\ Only(Mines) /\ Rest' = held \ Elems(todo') /\ held' = held
  BY <1>1, <1>3, <1>4, PlanOnly
<1>6. LibRest' /\ QueueRest' /\ UnitRest' /\ SlotRest' /\ DmaFlow' /\ Device' /\ Flow'
  BY <1>1, <1>2, <1>3, <1>5, MinesOnly, ScanStep
<1>7. TempRest'
  <2>1. \A n \in TempNames : <<n, probe>> \in Rest' <=> n \in Have(ipc')
    BY <1>1, <1>3, <1>4, <1>5 DEF Have, Mines
  <2> QED
    BY <1>1, <1>2, <1>5, <2>1, TempNext
<1>8. IsFiniteSet(pending) /\ Cardinality(pending) \in Nat /\ used \in Seq(Probes) /\ Len(used) \in Nat /\ hw.room \in Nat
  BY DriverInitAssumption, FS_CardinalityType DEF DriverInv, ScanTypes, Flow
<1>9. ScanTypes'
  <2>1. IsFiniteSet(pending') /\ pending' \subseteq Probes
    <3>1. IsFiniteSet(pending \cup {probe})
      BY <1>8, FS_AddElement
    <3> QED
      BY <1>1, <1>3, <1>8, <3>1 DEF DriverInv, ScanTypes
  <2>2. Cardinality(pending') + Len(used) <= hw.room
    <3>1. CASE pending' = pending
      BY <3>1 DEF DriverInv, ScanTypes
    <3>2. CASE Cardinality(pending) + Len(used) < hw.room /\ pending' = pending \cup {probe}
      <4>1. Cardinality(pending') = Cardinality(pending) \/ Cardinality(pending') = Cardinality(pending) + 1
        BY <1>8, <3>2, FS_AddElement
      <4> QED
        BY <1>8, <3>2, <4>1
    <3> QED
      BY <1>1, <3>1, <3>2
  <2> QED
    BY <1>1, <2>1, <2>2 DEF DriverInv, ScanTypes, Probes, Probing, machineVars
<1>10. Calm'
  BY <1>1, <1>3 DEF DriverInv, Calm, machineVars
<1> QED
  BY <1>5, <1>6, <1>7, <1>9, <1>10 DEF DriverInv, LedgerInv

\* Some cookie came back.
LEMMA PollTakesStep == ASSUME DriverInv, PollTakes PROVE DriverInv'
<1>1. /\ ipc = "poll" /\ todo = <<>> /\ ipc' = "check" /\ used # <<>> /\ used' = Tail(used)
      /\ todo' = Mine(<<"data_map">>)
      /\ UNCHANGED <<held, fields, dmaVars, machineVars, queueVars, deviceVars, units, probe, tries,
                     inqData, resp, pending, timedOut>>
  BY DEF PollTakes, At
<1>2. ipc \in Probing /\ ipc \in Scanning /\ ipc' \in Scanning /\ ipc' # "poll"
  BY <1>1 DEF Probing, Scanning
<1>3. /\ probe \in Nat /\ probe \in Probes /\ probe \notin timedOut /\ Rest = held /\ Books
      /\ \A n \in TempNames : <<n, probe>> \in held
  BY <1>1, <1>2, TempNow DEF Have
<1>4. Plan(held, todo') /\ Elems(todo') \subseteq Mines /\ Elems(todo') = {<<"data_map", probe>>}
  <2>1. <<"data_map", probe>> \in held /\ Users("data_map", probe) \cap held = {}
    BY <1>3, NoUsers DEF TempNames
  <2>2. Plan(held, todo') /\ Elems(todo') = {<<"data_map", probe>>}
    BY <1>1, <2>1, PlanSingle DEF Mine
  <2> QED
    BY <2>2 DEF Mines, TempNames
<1>5. Books' /\ Only(Mines) /\ Rest' = held \ Elems(todo') /\ held' = held
  BY <1>1, <1>3, <1>4, PlanOnly
<1>6. LibRest' /\ QueueRest' /\ UnitRest' /\ SlotRest' /\ DmaFlow' /\ Device' /\ Flow'
  BY <1>1, <1>2, <1>3, <1>5, MinesOnly, ScanStep
<1>7. TempRest'
  <2>1. \A n \in TempNames : <<n, probe>> \in Rest' <=> n \in Have(ipc')
    BY <1>1, <1>3, <1>4, <1>5 DEF Have, TempNames
  <2> QED
    BY <1>1, <1>2, <1>5, <2>1, TempNext
<1>8. /\ Cardinality(pending) \in Nat /\ used \in Seq(Probes) /\ hw.room \in Nat
      /\ used' \in Seq(Probes) /\ Len(used') = Len(used) - 1 /\ Len(used) \in Nat
  <2>1. used \in Seq(Probes) /\ hw.room \in Nat /\ Cardinality(pending) \in Nat
    BY DriverInitAssumption, FS_CardinalityType DEF DriverInv, ScanTypes, Flow
  <2> QED
    BY <1>1, <2>1
<1>9. ScanTypes'
  <2>1. Cardinality(pending) + Len(used') <= hw.room
    BY <1>8 DEF DriverInv, ScanTypes
  <2> QED
    BY <1>1, <1>8, <2>1 DEF DriverInv, ScanTypes, Probes, Probing, machineVars
<1>10. Calm'
  <2>1. SUFFICES ASSUME timedOut = {} PROVE Calm'
    BY <1>1 DEF Calm
  <2>2. pending = {} /\ used = <<probe>> /\ (resp[probe] = "ok" => inqData = hw.luns[probe])
    BY <1>1, <2>1 DEF DriverInv, Calm
  <2>3. used' = <<>>
    BY <1>1, <2>2
  <2> QED
    BY <1>1, <2>2, <2>3 DEF DriverInv, Calm, machineVars
<1> QED
  BY <1>5, <1>6, <1>7, <1>9, <1>10 DEF DriverInv, LedgerInv

\* The probe gives up; what it has is left behind.
LEMMA PollTimesOutStep == ASSUME DriverInv, PollTimesOut PROVE DriverInv'
<1>1. /\ ipc = "poll" /\ todo = <<>> /\ ipc' = "probe" /\ timedOut' = timedOut \cup {probe}
      /\ UNCHANGED <<held, fields, todo>>
      /\ UNCHANGED <<dmaVars, machineVars, queueVars, deviceVars, units, probe, tries,
                     inqData, resp, pending, used>>
  BY DEF PollTimesOut, At, ledgerVars
<1>2. ipc \in Probing /\ ipc \in Scanning /\ ipc' \in Scanning /\ ipc' # "poll"
  BY <1>1 DEF Probing, Scanning
<1>3. /\ probe \in Nat /\ probe \in Probes /\ probe \notin timedOut /\ Rest = held /\ Books
      /\ \A n \in TempNames : <<n, probe>> \in held
  BY <1>1, <1>2, TempNow DEF Have
<1>4. Books' /\ Rest' = Rest /\ held' = held
  BY <1>1, <1>3, IdleOK
<1>5. Only(TempRes)
  BY <1>4 DEF Only
<1>6. LibRest' /\ QueueRest' /\ UnitRest' /\ SlotRest' /\ DmaFlow' /\ Device' /\ Flow'
  BY <1>1, <1>2, <1>5, ScanStep
<1>7. TempRest'
  <2>1. Have(ipc') = {}
    BY <1>1 DEF Have
  <2>2. \A n \in TempNames, p \in Nat : p # probe => (<<n, p>> \in Rest <=> p \in timedOut)
    BY DEF DriverInv, LedgerInv, TempRest
  <2> QED
    BY <1>1, <1>3, <1>4, <2>1, <2>2 DEF TempRest
<1>8. ScanTypes'
  <2>1. timedOut' \subseteq 1 .. probe
    BY <1>1, <1>3 DEF DriverInv, ScanTypes, Probes
  <2> QED
    BY <1>1, <2>1 DEF DriverInv, ScanTypes, Probes, Probing, machineVars
<1>9. Calm'
  BY <1>1 DEF Calm
<1> QED
  BY <1>4, <1>6, <1>7, <1>8, <1>9 DEF DriverInv, LedgerInv

\* Another try, a unit to look at, or the end of the probe.
LEMMA CheckProbeStep == ASSUME DriverInv, CheckProbe PROVE DriverInv'
<1>1. /\ ipc = "check" /\ todo = <<>>
      /\ UNCHANGED <<held, fields, dmaVars, machineVars, queueVars, deviceVars, scanVars, units, probe,
                     timedOut>>
      /\ \/ ipc' = "try" /\ todo' = <<>> /\ tries > 0
         \/ ipc' = "identify" /\ todo' = ReleaseTemp /\ resp[probe] = "ok"
         \/ ipc' = "probe" /\ todo' = ReleaseTemp
  BY DEF CheckProbe, At, Accepts, scanVars
<1>2. ipc \in Probing /\ ipc \in Scanning /\ ipc' \in Scanning /\ ipc' # "poll"
  BY <1>1 DEF Probing, Scanning
<1>3. /\ probe \in Nat /\ probe \in Probes /\ probe \notin timedOut /\ Rest = held /\ Books
      /\ \A n \in TempNames : <<n, probe>> \in held <=> n \in Have(ipc)
  BY <1>1, <1>2, TempNow
<1> DEFINE R == {<<"resp_map", probe>>, <<"req_map", probe>>, <<"resp_cmd", probe>>, <<"req_cmd", probe>>}
<1>4. Plan(held, todo') /\ Elems(todo') \subseteq Mines /\ Elems(todo') = IF ipc' = "try" THEN {} ELSE R
  <2>1. R \subseteq held
    BY <1>1, <1>3 DEF Have, TempNames
  <2>2. Plan(held, ReleaseTemp) /\ Elems(ReleaseTemp) = R
    BY <2>1, ReleaseTempPlan
  <2>3. Plan(held, <<>>) /\ Elems(<<>>) = {}
    BY PlanEmpty, ElemsEmpty
  <2> QED
    BY <1>1, <2>2, <2>3 DEF Mines, TempNames
<1>5. Books' /\ Only(Mines) /\ Rest' = held \ Elems(todo') /\ held' = held
  BY <1>1, <1>3, <1>4, PlanOnly
<1>6. LibRest' /\ QueueRest' /\ UnitRest' /\ SlotRest' /\ DmaFlow' /\ Device' /\ Flow'
  BY <1>1, <1>2, <1>3, <1>5, MinesOnly, ScanStep
<1>7. TempRest'
  <2>1. \A n \in TempNames : <<n, probe>> \in Rest' <=> n \in Have(ipc')
    BY <1>1, <1>3, <1>4, <1>5 DEF Have, TempNames
  <2> QED
    BY <1>1, <1>2, <1>5, <2>1, TempNext
<1>8. ScanTypes'
  BY <1>1 DEF DriverInv, ScanTypes, Probes, Probing, machineVars, scanVars
<1>9. Calm'
  BY <1>1 DEF DriverInv, Calm, machineVars, scanVars
<1> QED
  BY <1>5, <1>6, <1>7, <1>8, <1>9 DEF DriverInv, LedgerInv

\* The request and the response buffer.
LEMMA TempAllocStep == ASSUME DriverInv, TempAlloc PROVE DriverInv'
<1>1. /\ ipc = "temp" /\ todo = <<>> /\ ipc' \in {"map_req", "probe"} /\ tries' = Tries
      /\ UNCHANGED <<dmaVars, machineVars, queueVars, deviceVars, units, probe, inqData, resp, pending,
                     used, timedOut>>
  BY DEF TempAlloc, At
<1>2. PICK got \in SUBSET {"req_cmd", "resp_cmd"} :
        /\ held' = held \cup {<<n, probe>> : n \in got} /\ fields' = fields \cup {<<n, probe>> : n \in got}
        /\ \/ got = {"req_cmd", "resp_cmd"} /\ ipc' = "map_req" /\ todo' = <<>>
           \/ /\ ipc' = "probe"
              /\ todo' = (IF "req_cmd" \in got THEN Mine(<<"req_cmd">>) ELSE <<>>)
                         \o (IF "resp_cmd" \in got THEN Mine(<<"resp_cmd">>) ELSE <<>>)
  BY DEF TempAlloc, At
<1> DEFINE G == {<<n, probe>> : n \in got}
<1>3. ipc \in Probing /\ ipc \in Scanning /\ ipc' \in Scanning /\ ipc' # "poll"
  BY <1>1 DEF Probing, Scanning
<1>4. /\ probe \in Nat /\ probe \in Probes /\ probe \notin timedOut /\ Rest = held /\ Books
      /\ \A n \in TempNames : <<n, probe>> \notin held
  BY <1>1, <1>3, TempNow DEF Have
<1>5. G \subseteq Mines /\ G \subseteq Resources
  BY <1>2, <1>4, MinesAre DEF Mines, TempNames
<1>6. \A r \in G : \A n, i : r \in Users(n, i) => <<n, i>> \in held
  BY <1>2, BuiltOn
<1>7. /\ Plan(held', todo') /\ Elems(todo') \subseteq Mines
      /\ Elems(todo') = IF ipc' = "map_req" THEN {} ELSE G
  <2>1. CASE ipc' = "map_req" /\ todo' = <<>>
    BY <2>1, PlanEmpty, ElemsEmpty
  <2>2. CASE ipc' = "probe"
    <3> DEFINE A == IF "req_cmd" \in got THEN Mine(<<"req_cmd">>) ELSE <<>>
               B == IF "resp_cmd" \in got THEN Mine(<<"resp_cmd">>) ELSE <<>>
               H == held'
    <3>1. /\ \A n \in got : <<n, probe>> \in H
          /\ <<"req_map", probe>> \notin H /\ <<"resp_map", probe>> \notin H
      BY <1>2, <1>4 DEF TempNames
    <3> HIDE DEF H
    <3>2. Plan(H, A) /\ Elems(A) = {<<n, probe>> : n \in got \cap {"req_cmd"}}
      <4>1. CASE "req_cmd" \in got
        <5>1. Users("req_cmd", probe) \cap H = {} /\ <<"req_cmd", probe>> \in H
          BY <3>1, <4>1, UsersAre
        <5>2. Plan(H, Of(<<"req_cmd">>, probe)) /\ Elems(Of(<<"req_cmd">>, probe)) = {<<"req_cmd", probe>>}
          BY <5>1, PlanSingle
        <5> QED
          BY <4>1, <5>2 DEF Mine
      <4>2. CASE "req_cmd" \notin got
        BY <4>2, PlanEmpty, ElemsEmpty
      <4> QED
        BY <4>1, <4>2
    <3> HIDE DEF A
    <3>3. Plan(H \ Elems(A), B) /\ Elems(B) = {<<n, probe>> : n \in got \cap {"resp_cmd"}}
      <4>1. CASE "resp_cmd" \in got
        <5>1. /\ Users("resp_cmd", probe) \cap (H \ Elems(A)) = {}
              /\ <<"resp_cmd", probe>> \in H \ Elems(A)
          BY <3>1, <3>2, <4>1, UsersAre
        <5>2. /\ Plan(H \ Elems(A), Of(<<"resp_cmd">>, probe))
              /\ Elems(Of(<<"resp_cmd">>, probe)) = {<<"resp_cmd", probe>>}
          BY <5>1, PlanSingle
        <5> QED
          BY <4>1, <5>2 DEF Mine
      <4>2. CASE "resp_cmd" \notin got
        BY <4>2, PlanEmpty, ElemsEmpty
      <4> QED
        BY <4>1, <4>2
    <3> HIDE DEF B
    <3>4. Then(H, A, B)
      BY <3>2, <3>3 DEF Then
    <3>5. Plan(H, A \o B) /\ Elems(A \o B) = Elems(A) \cup Elems(B)
      BY <3>4, PlanThen
    <3>6. Elems(A) \cup Elems(B) = G
      BY <1>2, <3>2, <3>3
    <3>7. todo' = A \o B
      BY <1>2, <2>2 DEF A, B
    <3> QED
      BY <1>5, <2>2, <3>5, <3>6, <3>7 DEF H
  <2> QED
    BY <1>1, <1>2, <2>1, <2>2
<1> HIDE DEF G
<1>8. held' = held \cup G /\ fields' = fields \cup G
  BY <1>2 DEF G
<1>9. Books' /\ Only(Mines) /\ Rest' = (held \cup G) \ Elems(todo')
  <2>1. SoundGrant(Mines, G)
    BY <1>5, <1>6, <1>7, <1>8 DEF SoundGrant
  <2> QED
    BY <1>1, <1>4, <2>1, GrantMany
<1>10. LibRest' /\ QueueRest' /\ UnitRest' /\ SlotRest' /\ DmaFlow' /\ Device' /\ Flow'
  BY <1>1, <1>3, <1>4, <1>9, MinesOnly, ScanStep
<1>11. TempRest'
  <2>1. \A n \in TempNames : <<n, probe>> \in Rest' <=> n \in Have(ipc')
    BY <1>1, <1>2, <1>4, <1>7, <1>9 DEF Have, TempNames, G
  <2> QED
    BY <1>1, <1>3, <1>9, <2>1, TempNext
<1>12. ScanTypes'
  <2>1. tries' \in 0 .. Tries /\ tries' > 0
    BY <1>1, DriverInitAssumption
  <2> QED
    BY <1>1, <2>1 DEF DriverInv, ScanTypes, Probes, Probing, machineVars
<1>13. Calm'
  BY <1>1 DEF DriverInv, Calm, machineVars
<1> QED
  BY <1>9, <1>10, <1>11, <1>12, <1>13 DEF DriverInv, LedgerInv

\* The next address.
LEMMA NextProbeGoesOn ==
  ASSUME DriverInv, NextProbe, probe + 1 \in Probes /\ RoomForUnit
  PROVE  DriverInv'
<1>1. /\ ipc = "probe" /\ todo = <<>> /\ ipc' \in {"temp", "probe"} /\ probe' = probe + 1 /\ tries' = 0
      /\ UNCHANGED <<held, fields, todo>>
      /\ UNCHANGED <<dmaVars, machineVars, queueVars, deviceVars, units, inqData, resp, pending, used, timedOut>>
  BY DEF NextProbe, At
<1>2. ipc \in Scanning /\ ipc' \in Scanning /\ ipc' # "poll"
  BY <1>1 DEF Probing, Scanning
<1>3. Books' /\ Rest' = Rest /\ held' = held
  BY <1>1, IdleOK DEF DriverInv, LedgerInv
<1>4. Only(TempRes)
  BY <1>3 DEF Only
<1>5. LibRest' /\ QueueRest' /\ UnitRest' /\ SlotRest' /\ DmaFlow' /\ Device' /\ Flow'
  BY <1>1, <1>2, <1>4, ScanStep
<1>6. TempRest'
  <2>1. Have(ipc) = {} /\ Have(ipc') = {}
    BY <1>1 DEF Have
  <2> QED
    BY <1>1, <1>3, <2>1 DEF DriverInv, LedgerInv, TempRest
<1>7. ScanTypes'
  <2>1. hw.luns \in Seq({"disk", "other", "absent"}) /\ Tries \in Nat /\ MAX_UNITS \in Nat
    BY DriverInitAssumption DEF DriverInv, Flow
  <2>2. Len(hw.luns) \in Nat /\ probe \in Nat
    BY <2>1 DEF DriverInv, ScanTypes
  <2>3. probe' \in 0 .. Len(hw.luns) /\ probe' \in Probes /\ 0 \in 0 .. Tries
    BY <1>1, <2>1, <2>2 DEF Probes
  <2>4. timedOut \subseteq 1 .. probe' /\ probe' \notin timedOut
    BY <1>1, <2>2 DEF DriverInv, ScanTypes
  <2>5. units \in Seq(Probes) /\ Len(units) \in Nat
    BY DEF DriverInv, ScanTypes
  <2>6. \A i \in 1 .. Len(units) : units[i] \in Nat /\ units[i] <= probe
    BY <2>5 DEF DriverInv, ScanTypes, Probes
  <2>7. \A i \in 1 .. Len(units) : units[i] <= probe' /\ units[i] < probe'
    BY <1>1, <2>2, <2>6
  <2>8. Len(units) < MAX_UNITS
    BY DEF RoomForUnit
  <2>9. Probes' = Probes
    BY <1>1 DEF Probes, machineVars
  <2> QED
    BY <1>1, <2>3, <2>4, <2>7, <2>8, <2>9 DEF DriverInv, ScanTypes, Probing, machineVars
<1>8. Calm'
  BY <1>1 DEF DriverInv, Calm, machineVars
<1> QED
  BY <1>3, <1>5, <1>6, <1>7, <1>8 DEF DriverInv, LedgerInv

\* The last address, or a full table.
LEMMA NextProbeEnds ==
  ASSUME DriverInv, NextProbe, ~(probe + 1 \in Probes /\ RoomForUnit)
  PROVE  DriverInv'
<1>1. /\ ipc = "probe" /\ todo = <<>> /\ ipc' = "up" /\ tries' = 0 /\ todo' = Lib(<<"inqData">>)
      /\ UNCHANGED <<held, fields>>
      /\ UNCHANGED <<dmaVars, machineVars, hw, queueVars, vqflags, deviceVars, units, probe, inqData, resp,
                     pending, used, timedOut>>
  BY DEF NextProbe, At, machineVars, queueVars
<1>2. Rest = held /\ Books /\ LibRest
  BY <1>1, RestHeld DEF DriverInv, LedgerInv
<1>3. Plan(held, todo') /\ Elems(todo') = {One("inqData")} /\ Elems(todo') \subseteq LibRes
  <2>1. <<"inqData", NULL>> \in held /\ Users("inqData", NULL) \cap held = {}
    BY <1>1, <1>2, NoUsers DEF LibRest, One
  <2>2. Plan(held, todo') /\ Elems(todo') = {One("inqData")}
    BY <1>1, <2>1, PlanSingle DEF Lib, One
  <2> QED
    BY <2>2, LibResource DEF LibNames
<1>4. Books' /\ Only(LibRes) /\ Rest' = held \ Elems(todo') /\ held' = held
  BY <1>1, <1>2, <1>3, PlanOnly
<1>5. Same(QueueRes) /\ Same(TempRes) /\ Same(UnitRes) /\ Same(SlotRes)
  BY <1>4, OnlyLib
<1>6. ipc \in HasNone /\ ipc' \in HasNone
  BY <1>1 DEF HasNone, Stations, Running, Probing
<1>7. QueueRest'
  BY <1>1, <1>5, QueueFrame DEF DriverInv, LedgerInv
<1>8. TempRest'
  BY <1>1, <1>5, <1>6, TempFrame DEF DriverInv, LedgerInv
<1>9. UnitRest' /\ SlotRest' /\ DmaFlow'
  BY <1>1, <1>5, UnitFrame, SlotFrame, DmaFlowFrame DEF DriverInv, LedgerInv
<1>10. LibRest'
  BY <1>1, <1>2, <1>3, <1>4 DEF LibRest, One, Ended, Running, Probing
<1>11. Flow'
  BY <1>1 DEF DriverInv, Flow, Stations, Pre, Setup, Running, Ended, dmaVars, queueVars
<1>12. Device'
  <2>1. ipc' \notin Undetected /\ ipc \in Running /\ ipc \in Negotiated /\ ipc' \in WithQueues
    BY <1>1 DEF Running, Undetected, Negotiated, WithQueues
  <2> QED
    BY <1>1, <2>1, DeviceFrame DEF DriverInv
<1>13. ScanTypes'
  <2>1. tries' \in 0 .. Tries
    BY <1>1, DriverInitAssumption
  <2> QED
    BY <1>1, <2>1 DEF DriverInv, ScanTypes, Probes, Probing
<1>14. Calm'
  BY <1>1 DEF DriverInv, Calm
<1> QED
  BY <1>4, <1>7, <1>8, <1>9, <1>10, <1>11, <1>12, <1>13, <1>14 DEF DriverInv, LedgerInv

\* A disk becomes a unit if there is memory for it.
LEMMA IdentifyStep == ASSUME DriverInv, Identify PROVE DriverInv'
<1> DEFINE r == <<"unit", Len(units)>>
<1>1. /\ ipc = "identify" /\ todo = <<>> /\ ipc' = "probe"
      /\ UNCHANGED <<dmaVars, machineVars, hw, queueVars, vqflags, deviceVars, probe, tries, inqData, resp,
                     pending, used, timedOut>>
      /\ \/ /\ inqData = "disk" /\ Acquire(r, "probe", <<>>, "probe")
            /\ units' = IF held' # held THEN Append(units, probe) ELSE units
         \/ UNCHANGED <<held, fields, todo, units>>
  BY DEF Identify, At, Acquire, ledgerVars, machineVars, queueVars
<1>2. Rest = held /\ Books
  BY <1>1, RestHeld DEF DriverInv, LedgerInv
<1>3. units \in Seq(Probes) /\ Len(units) \in Nat /\ MAX_UNITS \in Nat /\ probe \in Probes /\ Len(units) < MAX_UNITS
  BY <1>1, DriverInitAssumption DEF DriverInv, ScanTypes, Probing
<1>4. r \notin held /\ r \in UnitRes /\ r \in Resources
  <2>1. r \notin held
    BY <1>1, <1>2, <1>3 DEF DriverInv, LedgerInv, UnitRest
  <2>2. r \in UnitRes
    BY <1>3 DEF UnitRes
  <2> QED
    BY <2>1, <2>2, ResourcesAre
<1> HIDE DEF r
<1>5. /\ Books' /\ Only(UnitRes) /\ todo' = <<>>
      /\ \/ held' = held \cup {r} /\ Rest' = held' /\ units' = Append(units, probe) /\ inqData = "disk"
         \/ held' = held /\ Rest' = held /\ units' = units
  <2>1. CASE UNCHANGED <<held, fields, todo, units>>
    <3>1. Books' /\ Rest' = Rest
      BY <1>2, <2>1, IdleOK
    <3> QED
      BY <1>1, <1>2, <2>1, <3>1 DEF Only
  <2>2. CASE /\ inqData = "disk" /\ Acquire(r, "probe", <<>>, "probe")
             /\ units' = IF held' # held THEN Append(units, probe) ELSE units
    <3>1. SoundCall(UnitRes, r, <<>>)
      <4>1. \A m, i : r \in Users(m, i) => <<m, i>> \in held
        BY BuiltOn DEF r
      <4>2. Plan(held, <<>>) /\ Elems(<<>>) = {}
        BY PlanEmpty, ElemsEmpty
      <4> QED
        BY <1>4, <4>1, <4>2 DEF SoundCall
    <3>2. Books' /\ Only(UnitRes) /\ Outcome(r, "probe", <<>>, "probe")
      BY <1>1, <1>2, <2>2, <3>1, AcquireOK
    <3>3. held' = held \cup {r} => held' # held
      BY <1>4
    <3>4. CASE held' = held \cup {r} /\ Rest' = held' /\ todo' = <<>>
      BY <2>2, <3>2, <3>3, <3>4
    <3>5. CASE held' = held /\ Rest' = held \ Elems(<<>>) /\ todo' = <<>>
      BY <2>2, <3>2, <3>5, ElemsEmpty
    <3> QED
      BY <3>2, <3>4, <3>5 DEF Outcome
  <2> QED
    BY <1>1, <2>1, <2>2
<1>6. Same(LibRes) /\ Same(QueueRes) /\ Same(TempRes) /\ Same(SlotRes)
  BY <1>5, OnlyUnit
<1>7. ipc \in HasNone /\ ipc' \in HasNone /\ {ipc, ipc'} \subseteq {"probe"} \cup Probing
  BY <1>1 DEF HasNone, Stations, Running, Probing
<1>8. LibRest' /\ QueueRest'
  BY <1>1, <1>6, <1>7, LibFrame, QueueFrame DEF DriverInv, LedgerInv
<1>9. TempRest' /\ SlotRest' /\ DmaFlow'
  BY <1>1, <1>6, <1>7, TempFrame, SlotFrame, DmaFlowFrame DEF DriverInv, LedgerInv
<1>10. ASSUME held' = held, Rest' = held, units' = units
       PROVE  UnitRest' /\ ScanTypes' /\ Calm'
  <2>1. UnitRest'
    BY <1>1, <1>2, <1>10 DEF DriverInv, LedgerInv, UnitRest
  <2>2. ScanTypes'
    BY <1>1, <1>10 DEF DriverInv, ScanTypes, Probes, Probing
  <2>3. Calm'
    BY <1>1, <1>10 DEF DriverInv, Calm
  <2> QED
    BY <2>1, <2>2, <2>3
<1>11. ASSUME held' = held \cup {r}, Rest' = held', units' = Append(units, probe), inqData = "disk"
       PROVE  UnitRest' /\ ScanTypes' /\ Calm'
  <2>1. /\ units' \in Seq(Probes) /\ Len(units') = Len(units) + 1
        /\ \A i \in 1 .. Len(units) : units'[i] = units[i]
        /\ units'[Len(units) + 1] = probe
    BY <1>3, <1>11
  <2>2. \A i \in 1 .. Len(units') : i \in 1 .. Len(units) \/ i = Len(units) + 1
    BY <1>3, <2>1
  <2>3. UnitRest'
    <3>1. \A i \in Nat : <<"unit", i>> \in Rest' <=> i < Len(units')
      <4>1. \A i \in Nat : <<"unit", i>> \in held <=> i < Len(units)
        BY <1>1, <1>2 DEF DriverInv, LedgerInv, UnitRest
      <4>2. \A i \in Nat : i < Len(units) + 1 <=> i < Len(units) \/ i = Len(units)
        BY <1>3
      <4> QED
        BY <1>11, <2>1, <4>1, <4>2 DEF r
    <3> QED
      BY <1>1, <1>11, <3>1 DEF UnitRest
  <2>4. ScanTypes'
    <3>1. \A i \in 1 .. Len(units) : units[i] < probe /\ units[i] \in Nat
      BY <1>1, <1>3 DEF DriverInv, ScanTypes, Probing, Probes
    <3>2. probe \in Nat
      BY <1>3 DEF Probes
    <3>3. \A i \in 1 .. Len(units') : units'[i] <= probe
      BY <2>1, <2>2, <3>1, <3>2
    <3>4. \A i, j \in 1 .. Len(units') : i < j => units'[i] < units'[j]
      <4>1. SUFFICES ASSUME NEW i \in 1 .. Len(units'), NEW j \in 1 .. Len(units'), i < j
                     PROVE  units'[i] < units'[j]
        OBVIOUS
      <4>2. i \in 1 .. Len(units)
        BY <1>3, <2>1, <4>1
      <4>3. CASE j \in 1 .. Len(units)
        BY <2>1, <4>1, <4>2, <4>3 DEF DriverInv, ScanTypes
      <4>4. CASE j = Len(units) + 1
        BY <2>1, <3>1, <4>2, <4>4
      <4> QED
        BY <2>2, <4>3, <4>4
    <3>5. Len(units') <= MAX_UNITS
      BY <1>3, <2>1
    <3>6. Probes' = Probes
      BY <1>1 DEF Probes
    <3> QED
      BY <1>1, <2>1, <3>3, <3>4, <3>5, <3>6 DEF DriverInv, ScanTypes, Probing
  <2>5. Calm'
    <3>1. SUFFICES ASSUME timedOut = {} PROVE Calm'
      BY <1>1 DEF Calm
    <3>2. /\ pending = {} /\ used = <<>> /\ hw.luns[probe] = "disk"
          /\ \A i \in 1 .. Len(units) : hw.luns[units[i]] = "disk"
      BY <1>1, <1>11, <3>1 DEF DriverInv, Calm
    <3>3. \A i \in 1 .. Len(units') : hw.luns[units'[i]] = "disk"
      BY <2>1, <2>2, <3>2
    <3> QED
      BY <1>1, <3>2, <3>3 DEF Calm
  <2> QED
    BY <2>3, <2>4, <2>5
<1>12. Flow'
  BY <1>1 DEF DriverInv, Flow, Stations, Pre, Setup, Running, Ended, Probing, dmaVars, queueVars
<1>13. Device'
  <2>1. ipc' \notin Undetected /\ ipc \in Running /\ ipc \in Negotiated /\ ipc' \in WithQueues
    BY <1>1 DEF Running, Probing, Undetected, Negotiated, WithQueues
  <2> QED
    BY <1>1, <2>1, DeviceFrame DEF DriverInv
<1> QED
  BY <1>5, <1>8, <1>9, <1>10, <1>11, <1>12, <1>13 DEF DriverInv, LedgerInv

\* The device answers, whatever the driver is doing.
LEMMA DeviceAnswersStep == ASSUME DriverInv, DeviceAnswers PROVE DriverInv'
<1>1. /\ UNCHANGED <<held, fields, todo>>
      /\ UNCHANGED <<dmaVars, machineVars, hw, ipc, queueVars, vqflags, deviceVars, units, probe, tries, timedOut>>
  BY DEF DeviceAnswers, ledgerVars, machineVars, queueVars
<1>2. PICK p \in pending, r \in {"ok", "check", "bad"} :
        /\ resp' = [resp EXCEPT ![p] = r] /\ inqData' = (IF r = "ok" THEN hw.luns[p] ELSE inqData)
        /\ pending' = pending \ {p} /\ used' = Append(used, p)
  BY DEF DeviceAnswers
<1>3. Books' /\ Rest' = Rest /\ held' = held
  BY <1>1, IdleOK DEF DriverInv, LedgerInv
<1>4. LibRest' /\ QueueRest' /\ TempRest' /\ UnitRest'
  <2>1. LibRest'
    BY <1>1, <1>3 DEF DriverInv, LedgerInv, LibRest
  <2>2. QueueRest'
    BY <1>1, <1>3 DEF DriverInv, LedgerInv, QueueRest, queueVars
  <2>3. TempRest'
    BY <1>1, <1>3 DEF DriverInv, LedgerInv, TempRest
  <2>4. UnitRest'
    BY <1>1, <1>3 DEF DriverInv, LedgerInv, UnitRest
  <2> QED
    BY <2>1, <2>2, <2>3, <2>4
<1>5. SlotRest' /\ DmaFlow'
  BY <1>1, <1>3, SlotFrame, DmaFlowFrame DEF DriverInv, LedgerInv, Same
<1>6. Flow'
  BY <1>1 DEF DriverInv, Flow, dmaVars, queueVars
<1>7. Device'
  BY <1>1, DeviceFrame DEF DriverInv, Device, Undetected
<1>8. p \in Probes /\ hw.luns \in Seq({"disk", "other", "absent"}) /\ used \in Seq(Probes)
      /\ IsFiniteSet(pending) /\ Cardinality(pending) \in Nat /\ Len(used) \in Nat
  BY DriverInitAssumption, FS_CardinalityType DEF DriverInv, ScanTypes, Flow
<1>9. ScanTypes'
  <2>1. hw.luns[p] \in {"disk", "other", "absent"}
    BY <1>8 DEF Probes
  <2>2. resp' \in [Probes -> {"ok", "check", "bad"}]
    BY <1>2, <1>8 DEF DriverInv, ScanTypes
  <2>3. used' \in Seq(Probes) /\ Len(used') = Len(used) + 1
    BY <1>2, <1>8
  <2>4. IsFiniteSet(pending') /\ Cardinality(pending') = Cardinality(pending) - 1
    BY <1>2, <1>8, FS_RemoveElement
  <2>5. Cardinality(pending') + Len(used') = Cardinality(pending) + Len(used)
    BY <1>8, <2>3, <2>4
  <2>6. inqData' \in {"disk", "other", "absent"} /\ pending' \subseteq Probes
    BY <1>2, <2>1 DEF DriverInv, ScanTypes
  <2>7. Probes' = Probes
    BY <1>1 DEF Probes
  <2> QED
    BY <1>1, <2>2, <2>3, <2>4, <2>5, <2>6, <2>7 DEF DriverInv, ScanTypes
<1>10. Calm'
  <2>1. SUFFICES ASSUME timedOut = {} PROVE Calm'
    BY <1>1 DEF Calm
  <2>2. ipc = "poll" /\ p = probe /\ pending = {probe} /\ used = <<>>
    BY <2>1 DEF DriverInv, Calm
  <2>3. pending' = {} /\ used' = <<probe>> /\ resp'[probe] = r
    BY <1>2, <1>8, <2>2 DEF DriverInv, ScanTypes
  <2> QED
    BY <1>1, <1>2, <2>1, <2>2, <2>3 DEF DriverInv, Calm
<1> QED
  BY <1>3, <1>4, <1>5, <1>6, <1>7, <1>9, <1>10 DEF DriverInv, LedgerInv

\* One resource of a release path goes back.
LEMMA GiveBackStep == ASSUME DriverInv, GiveBack PROVE DriverInv'
<1>1. /\ Release /\ todo # <<>>
      /\ UNCHANGED <<dmaVars, machineVars, hw, ipc, queueVars, vqflags, deviceVars, scanVars, units, probe, timedOut>>
  BY DEF GiveBack, Release, initVars, machineVars, queueVars, scanVars
<1>2. Books' /\ Rest' = Rest
  BY <1>1, ReleaseOK DEF DriverInv, LedgerInv
<1>3. \A x : x \in held' => x \in held
  BY <1>1 DEF Release
<1>4. LibRest' /\ QueueRest' /\ TempRest' /\ UnitRest'
  <2>1. LibRest'
    BY <1>1, <1>2, <1>3 DEF DriverInv, LedgerInv, LibRest
  <2>2. QueueRest'
    BY <1>1, <1>2 DEF DriverInv, LedgerInv, QueueRest, queueVars
  <2>3. TempRest'
    BY <1>1, <1>2 DEF DriverInv, LedgerInv, TempRest
  <2>4. UnitRest'
    BY <1>1, <1>2, <1>3 DEF DriverInv, LedgerInv, UnitRest
  <2> QED
    BY <2>1, <2>2, <2>3, <2>4
<1>5. SlotRest' /\ DmaFlow'
  BY <1>1, <1>2, <1>3, SlotFrame, DmaFlowFrame DEF DriverInv, LedgerInv, Same
<1>6. Flow'
  BY <1>1 DEF DriverInv, Flow, dmaVars, queueVars
<1>7. Device'
  BY <1>1, DeviceFrame DEF DriverInv, Device, Undetected
<1>8. ScanTypes' /\ Calm'
  BY <1>1 DEF DriverInv, ScanTypes, Calm, scanVars, Probes
<1> QED
  BY <1>2, <1>4, <1>5, <1>6, <1>7, <1>8 DEF DriverInv, LedgerInv

-----------------------------------------------------------------------------
(* The way back *)

\* The interrupt server goes.
LEMMA ExpungeStep == ASSUME DriverInv, Expunge PROVE DriverInv'
<1>1. /\ ipc = "up" /\ todo = <<>> /\ ipc' = "expunge" /\ dma_pc = "idle" /\ todo' = IfSet("irq", NULL)
      /\ UNCHANGED <<held, fields>>
      /\ UNCHANGED <<dmaVars, machineVars, hw, queueVars, deviceVars, scanVars>>
  BY DEF Expunge, At, machineVars
<1>2. Rest = held /\ Books /\ LibRest /\ fields = held
  BY <1>1, RestHeld DEF DriverInv, LedgerInv, Books
<1>3. Plan(held, todo') /\ Elems(todo') = {One("irq")} \cap held /\ Elems(todo') \subseteq LibRes
  <2>1. Users("irq", NULL) = {}
    BY NoUsers
  <2> DEFINE H == held
  <2>2. <<"irq", NULL>> \in fields => <<"irq", NULL>> \in H /\ Users("irq", NULL) \cap H = {}
    BY <1>2, <2>1
  <2> HIDE DEF H
  <2>3. Plan(H, IfSet("irq", NULL)) /\ Elems(IfSet("irq", NULL)) = {<<"irq", NULL>>} \cap fields
    BY <2>2, PlanIf
  <2>4. One("irq") \in LibRes
    BY LibResource DEF LibNames
  <2> QED
    BY <1>1, <1>2, <2>3, <2>4 DEF H, One
<1>4. Books' /\ Only(LibRes) /\ Rest' = held \ Elems(todo') /\ held' = held
  BY <1>1, <1>2, <1>3, PlanOnly
<1>5. QueueRest' /\ TempRest' /\ UnitRest' /\ SlotRest' /\ DmaFlow' /\ ScanTypes' /\ Calm'
  <2>1. ipc \in Quiet /\ ipc' \in Quiet
    BY <1>1 DEF Quiet, Stations, Running, Probing
  <2> QED
    BY <1>1, <1>4, <2>1, LibStep
<1>6. LibRest'
  BY <1>1, <1>2, <1>3, <1>4 DEF LibRest, One, Ended, Running, Probing
<1>7. Flow'
  BY <1>1 DEF DriverInv, Flow, Stations, Pre, Setup, Running, Ended, Probing, dmaVars, queueVars, scanVars
<1>8. Device'
  <2>1. /\ ipc' \notin Undetected /\ ipc \in Running /\ ipc \in Negotiated /\ ipc' \in WithQueues
        /\ ipc' \notin Running
    BY <1>1 DEF Running, Probing, Undetected, Negotiated, WithQueues
  <2> QED
    BY <1>1, <2>1, DeviceFrame DEF DriverInv
<1> QED
  BY <1>4, <1>5, <1>6, <1>7, <1>8 DEF DriverInv, LedgerInv

RingNames == QueueNames \ {"vring_dma"}
RingOf(n) == {<<m, n>> : m \in IF "vqs" \in vqflags[n] THEN RingNames ELSE {}}

\* One queue, if it is in vqs.
LEMMA FreeQueuePlan ==
  ASSUME NEW H, NEW n, RingOf(n) \subseteq H
  PROVE  Plan(H, FreeQueue(n)) /\ Elems(FreeQueue(n)) = RingOf(n)
<1>1. CASE "vqs" \in vqflags[n]
  <2>1. RingOf(n) = {<<"vring", n>>, <<"indirect_tables", n>>, <<"cookies", n>>, <<"raw", n>>, <<"vq", n>>}
    BY <1>1 DEF RingOf, RingNames, QueueNames
  <2>2. /\ Plan(H, FreeMapped(n))
        /\ Elems(FreeMapped(n)) = {<<"vring", n>>, <<"indirect_tables", n>>, <<"cookies", n>>,
                                   <<"raw", n>>, <<"vq", n>>}
    BY <2>1, FreeMappedPlan
  <2> QED
    BY <1>1, <2>1, <2>2 DEF FreeQueue
<1>2. CASE "vqs" \notin vqflags[n]
  <2>1. RingOf(n) = {} /\ FreeQueue(n) = <<>>
    BY <1>2 DEF RingOf, FreeQueue
  <2> QED
    BY <2>1, PlanEmpty, ElemsEmpty
<1> QED
  BY <1>1, <1>2

\* All of them.
LEMMA FreeQueuesPlan ==
  ASSUME NEW H, RingOf(0) \subseteq H, RingOf(1) \subseteq H, RingOf(2) \subseteq H
  PROVE  Plan(H, FreeQueues) /\ Elems(FreeQueues) = RingOf(0) \cup RingOf(1) \cup RingOf(2)
<1> DEFINE A == FreeQueue(0)
           B == FreeQueue(1)
           C == FreeQueue(2)
           D == A \o B
<1>1. Plan(H, A) /\ Elems(A) = RingOf(0)
  BY FreeQueuePlan
<1>2. RingOf(1) \subseteq H \ Elems(A) /\ RingOf(2) \subseteq H \ (Elems(A) \cup RingOf(1))
  BY <1>1 DEF RingOf
<1>3. Plan(H \ Elems(A), B) /\ Elems(B) = RingOf(1)
  BY <1>2, FreeQueuePlan
<1> HIDE DEF A, B
<1>4. Then(H, A, B)
  BY <1>1, <1>3 DEF Then
<1>5. Plan(H, D) /\ Elems(D) = Elems(A) \cup Elems(B)
  BY <1>4, PlanThen
<1> HIDE DEF D
<1>6. RingOf(2) \subseteq H \ Elems(D)
  BY <1>2, <1>3, <1>5
<1>7. Plan(H \ Elems(D), C) /\ Elems(C) = RingOf(2)
  BY <1>6, FreeQueuePlan
<1> HIDE DEF C
<1>8. Then(H, D, C)
  BY <1>5, <1>7 DEF Then
<1>9. Plan(H, D \o C) /\ Elems(D \o C) = Elems(D) \cup Elems(C)
  BY <1>8, PlanThen
<1> QED
  BY <1>1, <1>3, <1>5, <1>7, <1>9 DEF FreeQueues, A, B, C, D

\* The unit structures.
LEMMA FreeUnitsPlan ==
  ASSUME NEW H, NEW X, units \in Seq(X), \A i \in Nat : i < Len(units) => <<"unit", i>> \in H
  PROVE  /\ Plan(H, FreeUnits)
         /\ \A x : x \in Elems(FreeUnits) <=> \E i \in Nat : i < Len(units) /\ x = <<"unit", i>>
<1> DEFINE S == FreeUnits
           m == Len(units)
<1>1. m \in Nat /\ DOMAIN units = 1 .. m
  OBVIOUS
<1>2. S = [n \in 1 .. m |-> <<"unit", n - 1>>]
  BY <1>1 DEF FreeUnits
<1>3. \A n \in 1 .. m : S[n] = <<"unit", n - 1>> /\ n - 1 \in Nat /\ n - 1 < m
  BY <1>1, <1>2
<1>4. S \in Seq(H) /\ Len(S) = m
  <2>1. S \in [1 .. m -> H]
    BY <1>2, <1>3
  <2>2. S \in Seq(H)
    BY <1>1, <2>1, SeqDef
  <2>3. DOMAIN S = 1 .. m
    BY <1>2
  <2> QED
    BY <1>1, <2>2, <2>3
<1> HIDE DEF S
<1>5. \A j, k \in 1 .. m : S[j] = S[k] => j = k
  <2>1. \A j, k \in 1 .. m : S[j] = S[k] => j - 1 = k - 1
    BY <1>3
  <2> QED
    BY <1>1, <2>1
<1>6. \A j \in 1 .. m : \A n, i : S[j] = <<n, i>> => Users(n, i) = {}
  BY <1>3, NoUsers
<1>7. Plan(H, S)
  BY <1>4, <1>5, <1>6 DEF Plan
<1>8. \A x : x \in Elems(S) <=> \E i \in Nat : i < m /\ x = <<"unit", i>>
  <2>1. SUFFICES ASSUME NEW x PROVE x \in Elems(S) <=> \E i \in Nat : i < m /\ x = <<"unit", i>>
    OBVIOUS
  <2>2. ASSUME x \in Elems(S) PROVE \E i \in Nat : i < m /\ x = <<"unit", i>>
    <3>1. PICK k \in 1 .. m : x = S[k]
      BY <1>4, <2>2 DEF Elems
    <3> QED
      BY <1>3, <3>1
  <2>3. ASSUME NEW i \in Nat, i < m, x = <<"unit", i>> PROVE x \in Elems(S)
    <3>1. i + 1 \in 1 .. m /\ (i + 1) - 1 = i
      BY <1>1, <2>3
    <3>2. S[i + 1] = x
      BY <1>3, <2>3, <3>1
    <3> QED
      BY <1>4, <3>1, <3>2 DEF Elems
  <2> QED
    BY <2>2, <2>3
<1> QED
  BY <1>7, <1>8 DEF S

\* What the driver holds apart from buffers of probes and units.
Own == (LibRes \cup QueueRes \cup UnitRes) \cap held

\* The release path after the reset gives back all of it.
LEMMA CleanupPlan ==
  ASSUME DriverInv, CleanupVirtIOSCSI
  PROVE  Plan(held, todo') /\ Elems(todo') = Own
<1> DEFINE H == held
           S == IF ipc = "cleanup" THEN FreeQueues ELSE FreeQueues \o FreeUnits
           L == {One("IPCI"), One("ExpansionBase"), One("UtilityBase"), One("IUtility")}
<1>1. ipc \in {"cleanup", "expunge"} /\ todo = <<>> /\ todo' = S \o ReleaseAll
  BY DEF CleanupVirtIOSCSI
<1>2. Rest = held /\ Books /\ LibRest /\ QueueRest /\ UnitRest /\ fields = held
  BY <1>1, RestHeld DEF DriverInv, LedgerInv, Books
<1>3. \A n \in QueueNames, k \in Queues : <<n, k>> \in held <=> "vqs" \in vqflags[k] /\ n \in RingNames
  BY <1>1, <1>2 DEF QueueRest, RingNames
<1>4. RingOf(0) \cup RingOf(1) \cup RingOf(2) = QueueRes \cap held
  <2>1. \A k \in Queues : RingOf(k) \subseteq QueueRes \cap held
    BY <1>3 DEF RingOf, QueueRes, RingNames
  <2>2. \A x \in QueueRes \cap held : \E k \in Queues : x \in RingOf(k)
    BY <1>3 DEF RingOf, QueueRes
  <2>3. Queues = {0, 1, 2}
    BY DEF Queues
  <2> QED
    BY <2>1, <2>2, <2>3
<1>5. Plan(H, FreeQueues) /\ Elems(FreeQueues) = QueueRes \cap held
  <2>1. RingOf(0) \subseteq H /\ RingOf(1) \subseteq H /\ RingOf(2) \subseteq H
    BY <1>4
  <2> HIDE DEF H
  <2> QED
    BY <1>4, <2>1, FreeQueuesPlan
<1>6. Plan(H, S) /\ Elems(S) = (QueueRes \cup UnitRes) \cap held
  <2>1. CASE ipc = "cleanup"
    <3>1. units = <<>> /\ \A i \in Nat : ~(i < Len(units))
      BY <2>1 DEF DriverInv, Flow
    <3>2. \A i \in Nat : <<"unit", i>> \notin held
      BY <1>1, <1>2, <3>1 DEF UnitRest
    <3>3. UnitRes \cap held = {}
      BY <3>2 DEF UnitRes
    <3> QED
      BY <1>5, <2>1, <3>3
  <2>2. CASE ipc = "expunge"
    <3> DEFINE A == FreeQueues
               B == FreeUnits
    <3>1. \A i \in Nat : <<"unit", i>> \in held <=> i < Len(units)
      BY <1>2, <2>2 DEF UnitRest
    <3>2. \A i \in Nat : i < Len(units) => <<"unit", i>> \in H \ Elems(A)
      <4>1. \A i \in Nat : <<"unit", i>> \notin QueueRes
        BY GroupsApart DEF UnitRes
      <4> QED
        BY <1>5, <3>1, <4>1
    <3>3. units \in Seq(Probes)
      BY DEF DriverInv, ScanTypes
    <3>4. /\ Plan(H \ Elems(A), B)
          /\ \A x : x \in Elems(B) <=> \E i \in Nat : i < Len(units) /\ x = <<"unit", i>>
      BY <3>2, <3>3, FreeUnitsPlan
    <3>5. Elems(B) = UnitRes \cap held
      BY <3>1, <3>4 DEF UnitRes
    <3> HIDE DEF A, B, H
    <3>6. Then(H, A, B)
      BY <1>5, <3>4 DEF Then, A
    <3>7. Plan(H, A \o B) /\ Elems(A \o B) = Elems(A) \cup Elems(B)
      BY <3>6, PlanThen
    <3>8. S = A \o B
      BY <2>2 DEF A, B
    <3>9. Elems(A) = QueueRes \cap held
      BY <1>5 DEF A
    <3> HIDE DEF S
    <3> QED
      BY <3>5, <3>7, <3>8, <3>9
  <2> QED
    BY <1>1, <2>1, <2>2
<1> HIDE DEF S
<1>7. /\ Covers(H \ Elems(S), BarNames, NULL) /\ One("irq") \notin H \ Elems(S)
      /\ L \subseteq H \ Elems(S)
  <2>1. \A n \in LibNames : One(n) \notin Elems(S)
    BY <1>6, GroupsApart DEF LibRes, One
  <2>2. BarNames \subseteq LibNames /\ {"IPCI", "ExpansionBase", "UtilityBase", "IUtility"} \subseteq LibNames
    BY DEF BarNames, LibNames
  <2>3. L \subseteq held /\ One("irq") \notin held
    BY <1>1, <1>2 DEF LibRest, Ended, Running, Probing
  <2>4. Covers(H \ Elems(S), BarNames, NULL)
    BY <1>2, <2>1, <2>2 DEF Covers, One
  <2> QED
    BY <2>1, <2>2, <2>3, <2>4
<1> HIDE DEF H
<1>8. Plan(H \ Elems(S), ReleaseAll) /\ Elems(ReleaseAll) = Bars \cup L
  BY <1>7, ReleaseAllPlan
<1>9. Plan(H, S \o ReleaseAll) /\ Elems(S \o ReleaseAll) = Elems(S) \cup Elems(ReleaseAll)
  <2>1. Then(H, S, ReleaseAll)
    BY <1>6, <1>8 DEF Then
  <2> QED
    BY <2>1, PlanThen
<1>10. Bars \cup L = LibRes \cap held
  <2>1. One("irq") \notin held /\ One("inqData") \notin held /\ L \subseteq held
    BY <1>1, <1>2 DEF LibRest, Ended, Running, Probing
  <2> QED
    BY <1>2, <2>1 DEF Bars, BarNames, LibRes, LibNames, One
<1> QED
  BY <1>1, <1>6, <1>8, <1>9, <1>10 DEF H, Own

\* The reset leaves a device that knows no queue and has no chain.
LEMMA ResetQuiets ==
  ASSUME DriverInv, CleanupVirtIOSCSI
  PROVE  /\ enabled' = {} /\ (timedOut = {} => pending' = {} /\ used' = <<>>)
         /\ (pending' = {} /\ used' = <<>>) \/ (pending' = pending /\ used' = used)
         /\ status' \in {"reset", status}
<1>1. ipc \in {"cleanup", "expunge"} /\ todo = <<>> /\ ResetWritten
  BY DEF CleanupVirtIOSCSI
<1>2. Rest = held /\ Books /\ LibRest /\ fields = held
  BY <1>1, RestHeld DEF DriverInv, LedgerInv, Books
<1>3. CASE (modern_mode /\ common_cfg_base) \/ One("bar0") \in fields
  BY <1>1, <1>3 DEF ResetWritten
<1>4. CASE ~((modern_mode /\ common_cfg_base) \/ One("bar0") \in fields)
  <2>1. ~modern_mode /\ ~("bar0" \in hw.bars)
    BY <1>1, <1>2, <1>4 DEF DriverInv, Device, LibRest, Ended
  <2>2. ~Drivable
    BY <2>1 DEF Drivable
  <2>3. enabled = {}
    BY <2>2 DEF DriverInv, Device
  <2>4. timedOut = {} => pending = {} /\ used = <<>>
    BY <1>1 DEF DriverInv, Calm
  <2>5. UNCHANGED <<status, enabled, pending, used>>
    BY <1>1, <1>4 DEF ResetWritten
  <2> QED
    BY <2>3, <2>4, <2>5
<1> QED
  BY <1>3, <1>4

\* CleanupVirtIOSCSI with what follows it, in Init and in Expunge.
LEMMA CleanupVirtIOSCSIStep == ASSUME DriverInv, CleanupVirtIOSCSI PROVE DriverInv'
<1>1. /\ ipc \in {"cleanup", "expunge"} /\ todo = <<>>
      /\ ipc' = IF ipc = "cleanup" THEN "failed" ELSE "expunged"
      /\ vqflags' = [n \in Queues |-> {}]
      /\ UNCHANGED <<held, fields>>
      /\ UNCHANGED <<dmaVars, machineVars, hw, q, qstage, negotiated, units, probe, tries, inqData, resp, timedOut>>
  BY DEF CleanupVirtIOSCSI, machineVars
<1>2. Rest = held /\ Books /\ LibRest /\ QueueRest /\ TempRest /\ UnitRest /\ SlotRest
  BY <1>1, RestHeld DEF DriverInv, LedgerInv
<1>3. Plan(held, todo') /\ Elems(todo') = Own
  BY CleanupPlan
<1>4. Books' /\ Only(Own) /\ Rest' = held \ Own /\ held' = held
  BY <1>1, <1>2, <1>3, PlanOnly
<1>5. Same(TempRes) /\ Same(SlotRes)
  BY <1>4, GroupsApart DEF Only, Same, Own
<1>6. LibRest'
  <2>1. \A n \in LibNames : One(n) \notin Rest'
    BY <1>4, LibResource DEF Own
  <2>2. One("irq") \notin held'
    BY <1>1, <1>2, <1>4 DEF LibRest, Running, Probing
  <2>3. \A n \in {"ExpansionBase", "IPCI", "pciDevice", "bar0", "bar4", "UtilityBase", "IUtility", "irq",
                  "inqData"} : One(n) \notin Rest'
    BY <2>1 DEF LibNames
  <2> QED
    BY <1>1, <2>2, <2>3 DEF LibRest, Ended, Probing
<1>7. QueueRest'
  <2>1. \A n \in QueueNames, k \in Queues : <<n, k>> \notin Rest'
    BY <1>4 DEF Own, QueueRes
  <2> QED
    BY <1>1, <2>1 DEF QueueRest
<1>8. TempRest'
  <2>1. ipc \in HasNone /\ ipc' \in HasNone
    BY <1>1 DEF HasNone, Stations, Probing, Ended
  <2> QED
    BY <1>1, <1>2, <1>5, <2>1, TempFrame
<1>9. UnitRest'
  <2>1. \A i \in Nat : <<"unit", i>> \notin Rest'
    BY <1>4 DEF Own, UnitRes
  <2>2. ASSUME ipc = "cleanup" PROVE units' = <<>> /\ \A i \in Nat : <<"unit", i>> \notin held'
    <3>1. units = <<>> /\ \A i \in Nat : ~(i < Len(units))
      BY <2>2 DEF DriverInv, Flow
    <3>2. \A i \in Nat : <<"unit", i>> \notin held
      BY <1>1, <1>2, <3>1 DEF UnitRest
    <3> QED
      BY <1>1, <1>4, <3>1, <3>2
  <2>3. CASE ipc = "cleanup"
    <3>1. \A i \in Nat : ~(i < Len(units'))
      BY <2>2, <2>3
    <3> QED
      BY <2>1, <2>2, <2>3, <3>1 DEF UnitRest
  <2> QED
    BY <1>1, <2>1, <2>3 DEF UnitRest
<1>10. SlotRest' /\ DmaFlow'
  BY <1>1, <1>2, <1>5, SlotFrame, DmaFlowFrame DEF DriverInv
<1>11. Flow'
  BY <1>1 DEF DriverInv, Flow, Stations, Pre, Setup, Running, Ended, Probing, dmaVars
<1>12. /\ enabled' = {} /\ (timedOut = {} => pending' = {} /\ used' = <<>>)
       /\ (pending' = {} /\ used' = <<>>) \/ (pending' = pending /\ used' = used)
       /\ status' \in {"reset", status}
  BY ResetQuiets
<1>13. Device'
  <2>1. UNCHANGED <<modern_mode, common_cfg_base, pci_cmd, bar5>>
    BY <1>1 DEF machineVars
  <2>2. MmioWorks(pci_cmd)' <=> MmioWorks(pci_cmd)
    BY <1>1, <2>1 DEF MmioWorks
  <2>3. \A n \in Queues : "vqs" \notin vqflags'[n]
    BY <1>1
  <2>4. enabled' = {n \in Queues : "vqs" \in vqflags'[n]} /\ DOMAIN vqflags' = Queues
    BY <1>1, <1>12, <2>3
  <2>5. ipc' \notin Setup \cup Running \cup {"expunge", "queue", "qalloc", "driver_ok"} \cup Undetected
    BY <1>1 DEF Setup, Running, Probing, Undetected
  <2>6. status' \in {"reset", "driver", "features_ok", "failed", "driver_ok"}
    BY <1>12 DEF DriverInv, Device
  <2> QED
    BY <2>1, <2>2, <2>3, <2>4, <2>5, <2>6 DEF DriverInv, Device, Undetected
<1>14. ScanTypes'
  <2>1. pending' \subseteq Probes /\ IsFiniteSet(pending') /\ used' \in Seq(Probes)
        /\ Cardinality(pending') + Len(used') <= hw.room
    <3>1. CASE pending' = {} /\ used' = <<>>
      <4>1. IsFiniteSet(pending') /\ Cardinality(pending') = 0
        BY <3>1, FS_EmptySet
      <4>2. hw.room \in Nat
        BY DriverInitAssumption DEF DriverInv, Flow
      <4> QED
        BY <3>1, <4>1, <4>2
    <3>2. CASE pending' = pending /\ used' = used
      BY <3>2 DEF DriverInv, ScanTypes
    <3> QED
      BY <1>12, <3>1, <3>2
  <2>2. Probes' = Probes
    BY <1>1 DEF Probes
  <2>3. ipc' \notin Probing /\ ipc' \notin {"map_req", "map_resp", "try"}
    BY <1>1 DEF Probing
  <2> QED
    BY <1>1, <2>1, <2>2, <2>3 DEF DriverInv, ScanTypes
<1>15. Calm'
  <2>1. ipc' \notin {"poll", "identify", "check"}
    BY <1>1
  <2> QED
    BY <1>1, <1>12, <2>1 DEF DriverInv, Calm
<1> QED
  BY <1>4, <1>6, <1>7, <1>8, <1>9, <1>10, <1>11, <1>13, <1>14, <1>15 DEF DriverInv, LedgerInv

-----------------------------------------------------------------------------
(* The unit's buffers and mappings *)

\* The driver is up and works off no release path.
UpStep == ipc = "up" /\ todo = <<>> /\ UNCHANGED initVars

\* A step of the unit's start or shutdown changes nothing but its slots.
LEMMA DmaFrame ==
  ASSUME DriverInv, UpStep, Books', Only(SlotRes), SlotRest', DmaFlow'
  PROVE  DriverInv'
<1>1. /\ ipc = "up" /\ UNCHANGED <<machineVars, hw, ipc, queueVars, q, qstage, vqflags, deviceVars,
                                   scanVars, units, probe, timedOut>>
  BY DEF UpStep, initVars, machineVars, queueVars, scanVars
<1>2. Same(LibRes) /\ Same(QueueRes) /\ Same(TempRes) /\ Same(UnitRes)
  BY OnlySlot
<1>3. ipc \in HasNone /\ ipc # "qalloc" /\ ipc # "expunged"
  BY <1>1 DEF HasNone, Stations, Running, Probing
<1>4. LibRest'
  <2>1. \A n \in {"ExpansionBase", "IPCI", "pciDevice", "bar0", "bar4", "UtilityBase", "IUtility", "irq",
                  "inqData"} : One(n) \in LibRes
    BY LibResource DEF LibNames
  <2>2. \A n \in {"ExpansionBase", "IPCI", "pciDevice", "bar0", "bar4", "UtilityBase", "IUtility", "irq",
                  "inqData"} :
          (One(n) \in Rest' <=> One(n) \in Rest) /\ (One(n) \in held' => One(n) \in held)
    BY <1>2, <2>1 DEF Same
  <2> QED
    BY <1>1, <2>2 DEF DriverInv, LedgerInv, LibRest
<1>5. QueueRest' /\ TempRest' /\ UnitRest'
  BY <1>1, <1>2, <1>3, QueueFrame, TempFrame, UnitFrame DEF DriverInv, LedgerInv
<1>6. Flow'
  BY <1>1 DEF DriverInv, Flow
<1>7. Device'
  BY <1>1, DeviceFrame DEF DriverInv, Device, Undetected
<1>8. ScanTypes' /\ Calm'
  BY <1>1 DEF DriverInv, ScanTypes, Calm, scanVars, Probes
<1> QED
  BY <1>4, <1>5, <1>6, <1>7, <1>8 DEF DriverInv, LedgerInv

\* Between the calls the slots are as the station says.
LEMMA SlotNow ==
  ASSUME DriverInv, UpStep
  PROVE  /\ Books /\ DmaFlow /\ todo = <<>> /\ Rest = held /\ fields = held
         /\ \A n \in SlotNames, s \in Slots : <<n, s>> \in held <=> SlotHas(n, s)
<1>1. Rest = held
  BY RestHeld DEF UpStep
<1> QED
  BY <1>1 DEF DriverInv, LedgerInv, SlotRest, UpStep, Books

\* A step that touches no resource.
LEMMA SlotsKept ==
  ASSUME DriverInv, UpStep, UNCHANGED <<held, fields, todo>>,
         \A n \in SlotNames, s \in Slots : SlotHas(n, s)' <=> SlotHas(n, s),
         DmaFlow'
  PROVE  DriverInv'
<1>1. Books' /\ Rest' = Rest /\ held' = held
  BY IdleOK DEF DriverInv, LedgerInv
<1>2. Only(SlotRes)
  BY <1>1 DEF Only
<1>3. SlotRest'
  <2>1. Rest = held
    BY SlotNow
  <2> QED
    BY <1>1, <2>1 DEF DriverInv, LedgerInv, SlotRest
<1> QED
  BY <1>1, <1>2, <1>3, DmaFrame

\* A step that sets out on the release of slot k.
LEMMA SlotGoes ==
  ASSUME DriverInv, UpStep, NEW k \in Slots, UNCHANGED <<held, fields>>,
         Plan(held, todo'), Elems(todo') = {<<n, k>> : n \in SlotNames} \cap held,
         dma_pc' \in {"rollback", "free"},
         \A n \in SlotNames, s \in Slots : SlotHas(n, s)' <=> s # k /\ SlotHas(n, s),
         DmaFlow'
  PROVE  DriverInv'
<1>1. Elems(todo') \subseteq SlotRes
  BY DEF SlotRes
<1>2. Books' /\ Only(SlotRes) /\ Rest' = held \ Elems(todo') /\ held' = held
  BY <1>1, SlotNow, PlanOnly
<1>3. \A n \in SlotNames, s \in Slots : <<n, s>> \in Elems(todo') <=> s = k /\ <<n, s>> \in held
  OBVIOUS
<1>4. SlotRest'
  <2>1. \A n \in SlotNames, s \in Slots : <<n, s>> \in Rest' <=> SlotHas(n, s)'
    BY <1>2, <1>3, SlotNow
  <2> QED
    BY <2>1 DEF SlotRest
<1> QED
  BY <1>2, <1>4, DmaFrame

\* preallocate_unit_dma begins.
LEMMA PreallocateStep == ASSUME DriverInv, UpStep, Preallocate PROVE DriverInv'
<1>1. /\ dma_pc = "idle" /\ dma_pc' = "alloc" /\ at' = 0 /\ stage' = 1 /\ free_head' = 0
      /\ UNCHANGED <<held, fields, todo, back, aliases>>
  BY DEF Preallocate, ledgerVars
<1>2. DmaFlow /\ DmaTypeOK /\ MAX_INFLIGHT \in Nat \ {0}
  BY UnitDmaAssumption DEF DriverInv, DmaFlow
<1>3. 0 \in Slots /\ 0 \in 0 .. MAX_INFLIGHT /\ Len(Stages) = 10
  BY <1>2 DEF Slots, Stages
<1>4. \A n \in SlotNames, s \in Slots : SlotHas(n, s)' <=> SlotHas(n, s)
  <2>1. Got(1) = {}
    BY GotIs
  <2>2. \A s \in Slots : ~(s < 0)
    BY <1>2 DEF Slots
  <2>3. \A n : n \notin Got(stage)'
    BY <1>1, <2>1 DEF Got
  <2> QED
    BY <1>1, <2>2, <2>3 DEF SlotHas
<1>5. DmaFlow'
  <2>1. DmaTypeOK'
    BY <1>1, <1>2, <1>3 DEF DmaTypeOK
  <2> QED
    BY <1>1, <1>2, <1>3, <2>1 DEF DmaFlow
<1> QED
  BY <1>1, <1>4, <1>5, SlotsKept

\* What a call adds, and what it needs.
LEMMA GotNext ==
  ASSUME NEW k \in 1 .. 10
  PROVE  /\ Stages[k] \in SlotNames
         /\ k # 9 => Stages[k] # "tmp" /\ Got(k + 1) = Got(k) \cup {Stages[k]}
         /\ k = 9 => Stages[k] = "tmp" /\ Got(k + 1) = Got(k) \ {"dma_bounce", "tmp"}
         /\ \A n, i, s : <<Stages[k], s>> \in Users(n, i) => i = s /\ n \in Got(k)
         /\ Got(k) \subseteq SlotNames
<1>1. k \in {1, 2, 3, 4, 5, 6, 7, 8, 9, 10}
  OBVIOUS
<1>2. /\ Stages[1] = "req_bufs" /\ Stages[2] = "resp_bufs" /\ Stages[3] = "dma_req"
      /\ Stages[4] = "dma_req_lists" /\ Stages[5] = "dma_resp" /\ Stages[6] = "dma_resp_lists"
      /\ Stages[7] = "bounce_bufs" /\ Stages[8] = "dma_bounce" /\ Stages[9] = "tmp"
      /\ Stages[10] = "data_dma_pool"
  BY DEF Stages
<1>3. Stages[k] \in SlotNames
  BY <1>1, <1>2 DEF SlotNames
<1>4. k # 9 => Stages[k] # "tmp" /\ Got(k + 1) = Got(k) \cup {Stages[k]}
  BY <1>1, <1>2, GotIs
<1>5. k = 9 => Stages[k] = "tmp" /\ Got(k + 1) = Got(k) \ {"dma_bounce", "tmp"}
  BY <1>2, GotIs
<1>6. ASSUME NEW n, NEW i, NEW s, <<Stages[k], s>> \in Users(n, i) PROVE i = s /\ n \in Got(k)
  <2>1. /\ i = s
        /\ Stages[k] = "dma_req" => n = "req_bufs"
        /\ Stages[k] = "dma_resp" => n = "resp_bufs"
        /\ Stages[k] = "dma_bounce" => n = "bounce_bufs"
        /\ Stages[k] = "dma_req_lists" => n = "dma_req"
        /\ Stages[k] = "dma_resp_lists" => n = "dma_resp"
        /\ Stages[k] = "tmp" => n = "dma_bounce"
        /\ Stages[k] \in {"dma_req", "dma_resp", "dma_bounce", "dma_req_lists", "dma_resp_lists", "tmp",
                          "IPCI", "bar0", "bar4", "irq", "pciDevice", "IUtility", "vring", "req_map",
                          "resp_map"}
    BY <1>6, BuiltOn
  <2> QED
    BY <1>1, <1>2, <2>1, GotIs
<1>7. Got(k) \subseteq SlotNames
  BY DEF Got, Stages, SlotNames
<1> QED
  BY <1>3, <1>4, <1>5, <1>6, <1>7

\* A slot between two calls, and after the next one.
LEMMA SlotAt ==
  ASSUME DriverInv, UpStep, dma_pc = "alloc", stage \in DOMAIN Stages
  PROVE  /\ stage \in 1 .. 10 /\ at \in Slots
         /\ \A n \in SlotNames : <<n, at>> \in held <=> n \in Got(stage)
<1>1. stage \in 1 .. 10 /\ at \in Slots
  BY SlotNow DEF DmaFlow, Stages
<1>2. at \in Nat /\ ~(at < at)
  BY <1>1, UnitDmaAssumption DEF Slots
<1>3. \A n \in SlotNames : <<n, at>> \in held <=> SlotHas(n, at)
  BY <1>1, SlotNow
<1>4. \A n : SlotHas(n, at) <=> n \in Got(stage)
  BY <1>2 DEF SlotHas
<1> QED
  BY <1>1, <1>3, <1>4

\* The next call of a slot succeeds.
LEMMA ObtainStep == ASSUME DriverInv, UpStep, Obtain PROVE DriverInv'
<1> DEFINE r == <<Stages[stage], at>>
           gone == IF stage = 9 THEN {<<"tmp", at>>, <<"dma_bounce", at>>} ELSE {}
<1>1. /\ dma_pc = "alloc" /\ stage \in DOMAIN Stages /\ dma_pc' = "alloc" /\ stage' = stage + 1
      /\ held' = held \cup {r} /\ fields' = fields \cup {r}
      /\ todo' = IF Stages[stage] = "tmp" THEN Of(<<"tmp", "dma_bounce">>, at) ELSE <<>>
      /\ UNCHANGED <<at, back, aliases, free_head>>
  BY DEF Obtain, Grant
<1>2. stage \in 1 .. 10 /\ at \in Slots /\ \A n \in SlotNames : <<n, at>> \in held <=> n \in Got(stage)
  BY <1>1, SlotAt
<1>3. /\ Stages[stage] \in SlotNames
      /\ stage # 9 => Stages[stage] # "tmp" /\ Got(stage + 1) = Got(stage) \cup {Stages[stage]}
      /\ stage = 9 => Stages[stage] = "tmp" /\ Got(stage + 1) = Got(stage) \ {"dma_bounce", "tmp"}
      /\ \A n, i : r \in Users(n, i) => i = at /\ n \in Got(stage)
      /\ Got(stage) \subseteq SlotNames
  BY <1>2, GotNext
<1>4. r \in SlotRes /\ r \in Resources
  BY <1>2, <1>3, ResourcesAre DEF SlotRes
<1>5. \A n, i : r \in Users(n, i) => <<n, i>> \in held
  BY <1>2, <1>3
<1> HIDE DEF r
<1>6. Plan(held', todo') /\ Elems(todo') = gone
  <2>1. CASE stage # 9
    BY <1>1, <1>3, <2>1, PlanEmpty, ElemsEmpty
  <2>2. CASE stage = 9
    <3>1. todo' = Of(<<"tmp", "dma_bounce">>, at)
      BY <1>1, <1>3, <2>2
    <3>2. <<"dma_bounce", at>> \in held /\ r = <<"tmp", at>>
      BY <1>2, <1>3, <2>2, GotIs DEF SlotNames, r
    <3>3. Users("tmp", at) = {} /\ Users("dma_bounce", at) = {<<"tmp", at>>}
      BY NoUsers, UsersAre
    <3>4. Order2(held', at, "tmp", "dma_bounce")
      BY <1>1, <3>2, <3>3 DEF Order2
    <3>5. Plan(held', Of(<<"tmp", "dma_bounce">>, at))
      BY <3>4, PlanTwo, Zenon
    <3>6. Elems(Of(<<"tmp", "dma_bounce">>, at)) = {<<"tmp", at>>, <<"dma_bounce", at>>}
      BY DEF Elems, Of
    <3> QED
      BY <2>2, <3>1, <3>5, <3>6
  <2> QED
    BY <2>1, <2>2
<1>7. gone \subseteq SlotRes
  BY <1>2 DEF SlotRes, SlotNames
<1> HIDE DEF gone
<1>8. Books' /\ Only(SlotRes) /\ Rest' = (held \cup {r}) \ gone
  <2>1. SoundGrant(SlotRes, {r})
    BY <1>1, <1>4, <1>5, <1>6, <1>7 DEF SoundGrant
  <2> QED
    BY <1>6, <2>1, SlotNow, GrantMany
<1>9. SlotRest'
  <2>1. ASSUME NEW n \in SlotNames PROVE <<n, at>> \in Rest' <=> n \in Got(stage + 1)
    <3>1. CASE stage # 9
      BY <1>2, <1>3, <1>8, <3>1 DEF gone, r
    <3>2. CASE stage = 9
      BY <1>2, <1>3, <1>8, <3>2 DEF gone, r
    <3> QED
      BY <3>1, <3>2
  <2>2. \A n \in SlotNames, s \in Slots : s # at => (<<n, s>> \in Rest' <=> SlotHas(n, s))
    BY <1>8, SlotNow DEF gone, r
  <2>3. at \in Nat /\ ~(at < at)
    BY <1>2, UnitDmaAssumption DEF Slots
  <2>4. \A n, s : SlotHas(n, s)' <=> IF s = at THEN n \in Got(stage + 1) ELSE SlotHas(n, s)
    BY <1>1, <2>3 DEF SlotHas, Got
  <2> QED
    BY <1>1, <2>1, <2>2, <2>4 DEF SlotRest
<1>10. DmaFlow'
  <2>1. stage' \in 1 .. Len(Stages) + 1
    BY <1>1, <1>2 DEF Stages
  <2> QED
    BY <1>1, <2>1, SlotNow DEF DmaFlow, DmaTypeOK
<1> QED
  BY <1>8, <1>9, <1>10, DmaFrame

\* It fails: what this slot has goes back first.
LEMMA RefusedStep == ASSUME DriverInv, UpStep, Refused PROVE DriverInv'
<1>1. /\ dma_pc = "alloc" /\ stage \in DOMAIN Stages /\ dma_pc' = "rollback" /\ back' = 0
      /\ todo' = FailPath(Stages[stage], at)
      /\ UNCHANGED <<held, fields, at, stage, aliases, free_head>>
  BY DEF Refused
<1>2. stage \in 1 .. 10 /\ at \in Slots /\ \A n \in SlotNames : <<n, at>> \in held <=> n \in Got(stage)
  BY <1>1, SlotAt
<1>3. fields = held
  BY SlotNow
<1>4. \A n \in SlotNames : <<n, at>> \in fields <=> n \in Got(stage)
  BY <1>2, <1>3
<1>5. /\ Plan(fields, FailPath(Stages[stage], at))
      /\ Elems(FailPath(Stages[stage], at)) = {<<n, at>> : n \in SlotNames} \cap fields
  BY <1>2, <1>4, FailPathPlan
<1>6. Plan(held, todo') /\ Elems(todo') = {<<n, at>> : n \in SlotNames} \cap held
  BY <1>1, <1>3, <1>5
<1>7. at \in Nat /\ \A s \in Slots : s \in Nat /\ 0 <= s
  BY <1>2, UnitDmaAssumption DEF Slots
<1>8. \A n \in SlotNames, s \in Slots : SlotHas(n, s)' <=> s # at /\ SlotHas(n, s)
  <2>1. \A n \in SlotNames, s \in Slots : SlotHas(n, s)' <=> s < at /\ n \in Kept
    BY <1>1, <1>7 DEF SlotHas
  <2>2. \A n \in SlotNames, s \in Slots : s # at => (SlotHas(n, s) <=> s < at /\ n \in Kept)
    BY <1>1 DEF SlotHas
  <2>3. ~(at < at)
    BY <1>7
  <2> QED
    BY <2>1, <2>2, <2>3
<1>9. DmaFlow'
  BY <1>1, <1>2, <1>7, UnitDmaAssumption, SlotNow DEF DmaFlow, DmaTypeOK
<1> QED
  BY <1>1, <1>2, <1>6, <1>8, <1>9, SlotGoes

\* A slot is complete.
LEMMA SlotDoneStep == ASSUME DriverInv, UpStep, SlotDone PROVE DriverInv'
<1>1. /\ dma_pc = "alloc" /\ stage \notin DOMAIN Stages /\ at' = at + 1
      /\ IF at + 1 < MAX_INFLIGHT THEN stage' = 1 /\ UNCHANGED <<dma_pc, aliases>>
         ELSE dma_pc' = "ready" /\ aliases' = TRUE /\ UNCHANGED stage
      /\ UNCHANGED <<held, fields, todo, back, free_head>>
  BY DEF SlotDone, ledgerVars
<1>2. stage = 11 /\ at \in Slots /\ at \in Nat /\ at < MAX_INFLIGHT /\ MAX_INFLIGHT \in Nat
  BY <1>1, UnitDmaAssumption, SlotNow DEF DmaFlow, DmaTypeOK, Stages, Slots
<1>3. \A s \in Slots : s \in Nat /\ s < MAX_INFLIGHT
  BY UnitDmaAssumption DEF Slots
<1>4. Got(11) = Kept /\ Got(1) = {}
  BY GotIs
<1>5. \A n \in SlotNames, s \in Slots : SlotHas(n, s) <=> s < at + 1 /\ n \in Kept
  <2>1. \A s \in Slots : s < at + 1 <=> s < at \/ s = at
    BY <1>2, <1>3
  <2>2. \A n, s : SlotHas(n, s) <=> (s < at /\ n \in Kept) \/ (s = at /\ n \in Kept)
    BY <1>1, <1>2, <1>4 DEF SlotHas
  <2> QED
    BY <2>1, <2>2
<1>6. \A n \in SlotNames, s \in Slots : SlotHas(n, s)' <=> SlotHas(n, s)
  <2>1. CASE at + 1 < MAX_INFLIGHT
    <3>1. \A n : n \notin Got(stage)'
      BY <1>1, <1>4, <2>1 DEF Got
    <3>2. \A n, s : SlotHas(n, s)' <=> s < at + 1 /\ n \in Kept
      BY <1>1, <2>1, <3>1 DEF SlotHas
    <3> QED
      BY <1>5, <3>2
  <2>2. CASE ~(at + 1 < MAX_INFLIGHT)
    <3>1. \A s \in Slots : s < at + 1
      BY <1>2, <1>3, <2>2
    <3>2. \A n, s : SlotHas(n, s)' <=> n \in Kept
      BY <1>1, <2>2 DEF SlotHas
    <3> QED
      BY <1>5, <3>1, <3>2
  <2> QED
    BY <2>1, <2>2
<1>7. DmaFlow'
  <2>1. DmaTypeOK'
    <3>1. at + 1 \in 0 .. MAX_INFLIGHT /\ 1 \in 1 .. Len(Stages) + 1
      BY <1>2 DEF Stages
    <3> QED
      BY <1>1, <3>1, SlotNow DEF DmaFlow, DmaTypeOK
  <2>2. at + 1 < MAX_INFLIGHT => at + 1 \in Slots
    BY <1>2 DEF Slots
  <2> QED
    BY <1>1, <2>1, <2>2, SlotNow DEF DmaFlow
<1> QED
  BY <1>1, <1>6, <1>7, SlotsKept

\* A complete slot as FreeAll finds it.
LEMMA SlotFreed ==
  ASSUME DriverInv, UpStep, dma_pc \in {"rollback", "free"}, NEW k \in Slots
  PROVE  Plan(held, FreeAll(k)) /\ Elems(FreeAll(k)) = {<<n, k>> : n \in SlotNames} \cap held
<1>1. fields = held
  BY SlotNow
<1>2. <<"tmp", k>> \notin fields
  <2>1. "tmp" \in SlotNames /\ "tmp" \notin Kept
    BY DEF SlotNames, Kept
  <2>2. ~SlotHas("tmp", k)
    BY <2>1 DEF SlotHas
  <2> QED
    BY <1>1, <2>1, <2>2, SlotNow
<1>3. Plan(fields, FreeAll(k)) /\ Elems(FreeAll(k)) = {<<n, k>> : n \in SlotNames} \cap fields
  BY <1>2, FreeAllPlan
<1> QED
  BY <1>1, <1>3

\* The completed slots of a failed start go back.
LEMMA RollBackSlotStep == ASSUME DriverInv, UpStep, RollBackSlot PROVE DriverInv'
<1>1. /\ dma_pc = "rollback"
      /\ IF back < at THEN todo' = FreeAll(back) /\ back' = back + 1 /\ UNCHANGED dma_pc
         ELSE dma_pc' = "failed" /\ UNCHANGED <<todo, back>>
      /\ UNCHANGED <<held, fields, at, stage, aliases, free_head>>
  BY DEF RollBackSlot
<1>2. DmaFlow /\ DmaTypeOK /\ at \in Slots /\ at \in Nat /\ back \in Nat /\ back <= at /\ at < MAX_INFLIGHT
      /\ MAX_INFLIGHT \in Nat
  BY <1>1, UnitDmaAssumption, SlotNow DEF DmaFlow, DmaTypeOK, Slots
<1>3. \A s \in Slots : s \in Nat
  BY UnitDmaAssumption DEF Slots
<1>4. CASE back < at
  <2>1. back \in Slots
    BY <1>2, <1>4 DEF Slots
  <2>2. Plan(held, todo') /\ Elems(todo') = {<<n, back>> : n \in SlotNames} \cap held
    BY <1>1, <1>4, <2>1, SlotFreed
  <2>3. \A n \in SlotNames, s \in Slots : SlotHas(n, s)' <=> s # back /\ SlotHas(n, s)
    <3>1. \A s \in Slots : back + 1 <= s <=> s # back /\ back <= s
      BY <1>2, <1>3
    <3> QED
      BY <1>1, <1>4, <3>1 DEF SlotHas
  <2>4. DmaFlow'
    <3>1. back' \in 0 .. MAX_INFLIGHT /\ back' <= at
      BY <1>1, <1>2, <1>4
    <3> QED
      BY <1>1, <1>2, <1>4, <3>1 DEF DmaFlow, DmaTypeOK
  <2> QED
    BY <1>1, <1>4, <2>1, <2>2, <2>3, <2>4, SlotGoes
<1>5. CASE ~(back < at)
  <2>1. \A s \in Slots : ~(back <= s /\ s < at)
    BY <1>2, <1>3, <1>5
  <2>2. \A n \in SlotNames, s \in Slots : SlotHas(n, s)' <=> SlotHas(n, s)
    BY <1>1, <1>5, <2>1 DEF SlotHas
  <2>3. DmaFlow'
    BY <1>1, <1>2, <1>5 DEF DmaFlow, DmaTypeOK
  <2> QED
    BY <1>1, <1>5, <2>2, <2>3, SlotsKept
<1> QED
  BY <1>4, <1>5

\* The task is gone.
LEMMA ShutdownStep == ASSUME DriverInv, UpStep, Shutdown PROVE DriverInv'
<1>1. /\ dma_pc \in {"ready", "failed"} /\ dma_pc' = "free" /\ back' = 0
      /\ UNCHANGED <<held, fields, todo, at, stage, aliases, free_head>>
  BY DEF Shutdown, ledgerVars
<1>2. \A s \in Slots : 0 <= s
  BY UnitDmaAssumption DEF Slots
<1>3. DmaFlow /\ (dma_pc = "ready" <=> aliases)
  BY <1>1, SlotNow DEF DmaFlow
<1>4. \A n \in SlotNames, s \in Slots : SlotHas(n, s)' <=> SlotHas(n, s)
  BY <1>1, <1>2, <1>3 DEF SlotHas
<1>5. DmaFlow'
  BY <1>1, <1>3, UnitDmaAssumption DEF DmaFlow, DmaTypeOK
<1> QED
  BY <1>1, <1>4, <1>5, SlotsKept

\* free_unit_dma.
LEMMA FreeUnitDmaStep == ASSUME DriverInv, UpStep, FreeUnitDma PROVE DriverInv'
<1>1. /\ dma_pc = "free"
      /\ IF back < MAX_INFLIGHT
         THEN todo' = FreeAll(back) /\ back' = back + 1 /\ UNCHANGED <<dma_pc, aliases, free_head>>
         ELSE dma_pc' = "idle" /\ aliases' = FALSE /\ free_head' = NULL /\ UNCHANGED <<todo, back>>
      /\ UNCHANGED <<held, fields, at, stage>>
  BY DEF FreeUnitDma
<1>2. DmaFlow /\ DmaTypeOK /\ back \in Nat /\ MAX_INFLIGHT \in Nat
  BY UnitDmaAssumption, SlotNow DEF DmaFlow, DmaTypeOK
<1>3. \A s \in Slots : s \in Nat /\ s < MAX_INFLIGHT
  BY UnitDmaAssumption DEF Slots
<1>4. CASE back < MAX_INFLIGHT
  <2>1. back \in Slots
    BY <1>2, <1>4 DEF Slots
  <2>2. Plan(held, todo') /\ Elems(todo') = {<<n, back>> : n \in SlotNames} \cap held
    BY <1>1, <1>4, <2>1, SlotFreed
  <2>3. \A n \in SlotNames, s \in Slots : SlotHas(n, s)' <=> s # back /\ SlotHas(n, s)
    <3>1. \A s \in Slots : back + 1 <= s <=> s # back /\ back <= s
      BY <1>2, <1>3
    <3> QED
      BY <1>1, <1>4, <3>1 DEF SlotHas
  <2>4. DmaFlow'
    <3>1. back' \in 0 .. MAX_INFLIGHT
      BY <1>1, <1>2, <1>4
    <3> QED
      BY <1>1, <1>2, <1>4, <3>1 DEF DmaFlow, DmaTypeOK
  <2> QED
    BY <1>1, <1>4, <2>1, <2>2, <2>3, <2>4, SlotGoes
<1>5. CASE ~(back < MAX_INFLIGHT)
  <2>1. \A s \in Slots : ~(back <= s)
    BY <1>2, <1>3, <1>5
  <2>2. \A n \in SlotNames, s \in Slots : SlotHas(n, s)' <=> SlotHas(n, s)
    BY <1>1, <1>5, <2>1 DEF SlotHas
  <2>3. DmaFlow'
    BY <1>1, <1>2, <1>5 DEF DmaFlow, DmaTypeOK
  <2> QED
    BY <1>1, <1>5, <2>2, <2>3, SlotsKept
<1> QED
  BY <1>4, <1>5

\* A unit is opened or closed.
LEMMA OpenAndCloseStep == ASSUME DriverInv, OpenAndClose PROVE DriverInv'
<1>1. UpStep /\ DmaNext
  BY DEF OpenAndClose, UpStep, At
<1> QED
  BY <1>1, PreallocateStep, ObtainStep, RefusedStep, SlotDoneStep, RollBackSlotStep, ShutdownStep,
     FreeUnitDmaStep DEF DmaNext

-----------------------------------------------------------------------------
(* The invariant *)

\* At first nothing is held and nothing said.
LEMMA DriverStart == ASSUME Init PROVE DriverInv
<1> USE DEF Init
<1>1. Rest = {} /\ held = {} /\ fields = {} /\ todo = <<>>
  BY ElemsEmpty DEF Rest
<1>2. Books
  BY <1>1, PlanEmpty DEF Books, Closed
<1>3. LibRest /\ TempRest
  <2>1. Have(ipc) = {}
    BY DEF Have
  <2> QED
    BY <1>1, <2>1 DEF LibRest, TempRest, Ended, Running, Probing
<1>4. QueueRest
  BY <1>1 DEF QueueRest
<1>5. UnitRest
  <2>1. \A i \in Nat : ~(i < Len(units))
    OBVIOUS
  <2> QED
    BY <1>1, <2>1 DEF UnitRest
<1>6. SlotRest
  BY <1>1 DEF SlotRest, SlotHas, DmaInit
<1>7. hw \in Machines /\ hw.luns \in Seq({"disk", "other", "absent"}) /\ hw.room \in Nat
      /\ MAX_UNITS \in Nat /\ Tries \in Nat /\ Len(hw.luns) \in Nat
  BY DriverInitAssumption
<1>8. Flow
  BY <1>7 DEF Flow, Stations, Pre, Setup, Running, Probing, DmaInit
<1>9. DmaFlow
  <2>1. Len(Stages) = 10 /\ 0 \in 0 .. MAX_INFLIGHT
    BY UnitDmaAssumption DEF Stages
  <2>2. dma_pc = "idle" /\ at = 0 /\ stage = 1 /\ back = 0 /\ aliases = FALSE /\ free_head = NULL
    BY DEF DmaInit
  <2>3. 1 \in 1 .. Len(Stages) + 1
    BY <2>1
  <2>4. DmaTypeOK
    BY <2>1, <2>2, <2>3 DEF DmaTypeOK
  <2> QED
    BY <2>2, <2>4 DEF DmaFlow
<1>10. Device
  BY DEF Device, Setup, Running, Probing
<1>11. ScanTypes
  <2>1. IsFiniteSet(pending) /\ Cardinality(pending) = 0 /\ Len(used) = 0 /\ Len(units) = 0
    BY FS_EmptySet
  <2>2. Cardinality(pending) + Len(used) <= hw.room
    BY <1>7, <2>1
  <2>3. resp \in [Probes -> {"ok", "check", "bad"}] /\ used \in Seq(Probes) /\ units \in Seq(Probes)
    OBVIOUS
  <2>4. \A i \in 1 .. Len(units) : FALSE
    BY <2>1
  <2>5. ipc \notin Probing /\ ipc \notin {"map_req", "map_resp", "try"}
    BY DEF Probing
  <2> QED
    BY <1>7, <2>1, <2>2, <2>3, <2>4, <2>5 DEF ScanTypes
<1>12. Calm
  BY DEF Calm
<1> QED
  BY <1>2, <1>3, <1>4, <1>5, <1>6, <1>8, <1>9, <1>10, <1>11, <1>12 DEF DriverInv, LedgerInv

\* Nothing happens.
LEMMA DriverStutters == ASSUME DriverInv, UNCHANGED vars PROVE DriverInv'
<1>1. UNCHANGED <<held, fields, todo, dmaVars, machineVars, hw, ipc, queueVars, q, qstage, vqflags, deviceVars,
                  scanVars, units, probe, timedOut>>
  BY DEF vars, ledgerVars, initVars, machineVars, queueVars, scanVars
<1>2. Books' /\ Rest' = Rest /\ held' = held
  BY <1>1, IdleOK DEF DriverInv, LedgerInv
<1>3. LibRest'
  BY <1>1, <1>2 DEF DriverInv, LedgerInv, LibRest
<1>4. QueueRest'
  BY <1>1, <1>2 DEF DriverInv, LedgerInv, QueueRest
<1>5. TempRest' /\ UnitRest'
  BY <1>1, <1>2 DEF DriverInv, LedgerInv, TempRest, UnitRest
<1>6. SlotRest' /\ DmaFlow'
  BY <1>1, <1>2, SlotFrame, DmaFlowFrame DEF DriverInv, LedgerInv, Same
<1>7. Flow'
  BY <1>1 DEF DriverInv, Flow, dmaVars
<1>8. Device'
  BY <1>1, DeviceFrame DEF DriverInv, Device, Undetected
<1>9. ScanTypes' /\ Calm'
  BY <1>1 DEF DriverInv, ScanTypes, Calm, scanVars, Probes
<1> QED
  BY <1>2, <1>3, <1>4, <1>5, <1>6, <1>7, <1>8, <1>9 DEF DriverInv, LedgerInv

\* The scan loop goes on or ends.
LEMMA NextProbeStep == ASSUME DriverInv, NextProbe PROVE DriverInv'
  BY NextProbeGoesOn, NextProbeEnds

\* Every step keeps the invariant.
LEMMA DriverSteps == ASSUME DriverInv, [Next]_vars PROVE DriverInv'
<1>1. ASSUME InitSteps PROVE DriverInv'
  <2>1. CASE OpenExpansion \/ GetIPCI \/ FindDevice \/ GetBars \/ DetectModernVirtIO \/ OpenUtility
             \/ GetIUtility
    BY <2>1, OpenExpansionStep, GetIPCIStep, FindDeviceStep, GetBarsStep, DetectModernVirtIOStep,
       OpenUtilityStep, GetIUtilityStep
  <2>2. CASE ResetDevice \/ NegotiateFeatures \/ SelectQueue \/ AllocateQueue \/ PublishQueue \/ DriverOk
             \/ InstallVirtIOInterrupt
    BY <2>2, ResetDeviceStep, NegotiateFeaturesStep, SelectQueueStep, AllocateQueueStep,
       PublishQueueStep, DriverOkStep, InstallVirtIOInterruptStep
  <2>3. CASE AllocInquiry \/ NextProbe \/ TempAlloc \/ MapRequest \/ MapResponse \/ BeginTry \/ AddProbe
    BY <2>3, AllocInquiryStep, NextProbeStep, TempAllocStep, MapRequestStep, MapResponseStep,
       BeginTryStep, AddProbeStep
  <2>4. CASE PollTakes \/ PollTimesOut \/ CheckProbe \/ Identify \/ CleanupVirtIOSCSI \/ GiveBack
    BY <2>4, PollTakesStep, PollTimesOutStep, CheckProbeStep, IdentifyStep, CleanupVirtIOSCSIStep,
       GiveBackStep
  <2> QED
    BY <1>1, <2>1, <2>2, <2>3, <2>4 DEF InitSteps
<1>2. ASSUME DeviceAnswers \/ OpenAndClose \/ Expunge PROVE DriverInv'
  BY <1>2, DeviceAnswersStep, OpenAndCloseStep, ExpungeStep
<1> QED
  BY <1>1, <1>2, DriverStutters DEF Next

\* Whatever call of Init, of the scan or of a unit's start fails, on whatever
\* machine: the books are kept, each station holds exactly what its code
\* believes it holds, and the device was told what the driver knows (Init.c,
\* pci_discovery.c, virtio_init.c, unit_discovery.c, unit_task.c, Expunge.c).
THEOREM DriverInvariant == Spec => []DriverInv
<1>1. Init => DriverInv
  BY DriverStart
<1>2. DriverInv /\ [Next]_vars => DriverInv'
  BY DriverSteps
<1> QED
  BY <1>1, <1>2, PTL DEF Spec

-----------------------------------------------------------------------------
(* What follows from it *)

\* What will be left is held.
LEMMA RestIsHeld == ASSUME NEW x \in Rest PROVE x \in held
  BY DEF Rest

\* The first step behind: whatever is built on something has it.
LEMMA FoundationHeld ==
  ASSUME Books, NEW n, NEW i, NEW u \in Users(n, i), u \in held
  PROVE  <<n, i>> \in held
  BY DEF Books, Closed

\* The order of the release paths is that of Users.
LEMMA OrderHolds == ASSUME DriverInv PROVE ReleaseOrder
<1>1. Books /\ LibRest /\ Device
  BY DEF DriverInv, LedgerInv
<1>2. \A m, j, n, i : <<m, j>> \in Users(n, i) /\ <<m, j>> \in held => <<n, i>> \in held
  BY <1>1, FoundationHeld
<1>3. /\ \A i : <<"IPCI", i>> \in held => <<"ExpansionBase", i>> \in held
      /\ \A i : <<"IUtility", i>> \in held => <<"UtilityBase", i>> \in held
      /\ \A i : <<"pciDevice", i>> \in held => <<"IPCI", i>> \in held
      /\ \A i : <<"bar0", i>> \in held => <<"pciDevice", i>> \in held
      /\ \A i : <<"bar4", i>> \in held => <<"pciDevice", i>> \in held
      /\ \A i : <<"irq", i>> \in held => <<"pciDevice", i>> \in held
  BY <1>2, UsersAre
<1>4. /\ \A i : <<"vring", i>> \in held => <<"raw", i>> \in held
      /\ \A i : <<"req_map", i>> \in held => <<"req_cmd", i>> \in held
      /\ \A i : <<"resp_map", i>> \in held => <<"resp_cmd", i>> \in held
  BY <1>2, UsersAre
<1>5. ~modern_mode => (One("irq") \in held => One("bar0") \in held)
  <2>1. SUFFICES ASSUME ~modern_mode, One("irq") \in held PROVE One("bar0") \in held
    OBVIOUS
  <2>2. ipc \in Running \cup {"expunge"}
    BY <1>1, <2>1 DEF LibRest
  <2>3. "bar0" \in hw.bars
    BY <1>1, <2>1, <2>2 DEF Device, Drivable
  <2>4. One("bar0") \in Rest
    BY <1>1, <2>2, <2>3 DEF LibRest, Running, Probing, Ended
  <2> QED
    BY <2>4, RestIsHeld
<1> QED
  BY <1>3, <1>4, <1>5 DEF ReleaseOrder, One

\* The types and bounds of Init and of the scan.
LEMMA TypesHold == ASSUME DriverInv PROVE InitTypeOK
<1>1. enabled \subseteq Queues
  BY DEF DriverInv, Device
<1>2. Len(QueueStages) = 6
  BY DEF QueueStages
<1> QED
  BY <1>1, <1>2 DEF DriverInv, InitTypeOK, DmaFlow, Flow, Device, ScanTypes

\* A plan gives back what is held, once.
LEMMA OnceHolds == ASSUME DriverInv PROVE NothingReleasedTwice
<1>1. Plan(held, todo)
  BY DEF DriverInv, LedgerInv, Books
<1> QED
  BY <1>1 DEF Plan, NothingReleasedTwice

\* Everything given back was obtained, is given back once and after what
\* depends on it, and no table or loop runs past its end: every failure path
\* of Init.c, virtio_init.c, virtqueue.c, unit_discovery.c and unit_task.c.
THEOREM ReleasesAlwaysSound == Spec => []ReleasesSound
<1>1. DriverInv => ReleasesSound
  BY OrderHolds, TypesHold, OnceHolds DEF ReleasesSound
<1> QED
  BY <1>1, DriverInvariant, PTL

\* A driver whose Init failed or that was expunged holds nothing but what a
\* timed-out probe leaks, and the device knows no queue.
THEOREM InitAlwaysAllOrNothing == Spec => []InitAllOrNothing
<1>1. ASSUME DriverInv, Gone PROVE held = Leaked /\ enabled = {} /\ (ipc = "failed" => timedOut = {})
  <2>1. /\ ipc \in Ended /\ todo = <<>> /\ ipc \notin {"probe"} \cup Probing /\ ipc \notin Running
        /\ ipc # "qalloc" /\ ipc \in HasNone /\ ipc # "expunge"
    BY <1>1 DEF Gone, Ended, Probing, Running, HasNone, Stations
  <2>2. Rest = held /\ Books /\ LibRest /\ QueueRest /\ TempRest /\ UnitRest /\ SlotRest
    BY <1>1, <2>1, RestHeld DEF DriverInv, LedgerInv
  <2>3. enabled = {} /\ \A n \in Queues : "vqs" \notin vqflags[n]
    BY <1>1, <2>1 DEF DriverInv, Device, Ended
  <2>4. ipc = "failed" => timedOut = {} /\ units = <<>>
    BY <1>1 DEF DriverInv, Flow
  <2>5. LibRes \cap held = {}
    BY <2>1, <2>2 DEF LibRest, LibRes, LibNames, One
  <2>6. QueueRes \cap held = {}
    BY <2>1, <2>2, <2>3 DEF QueueRest, QueueRes
  <2>7. UnitRes \cap held = {}
    <3>1. ipc = "failed" => \A i \in Nat : ~(i < Len(units))
      BY <2>4
    <3> QED
      BY <2>1, <2>2, <3>1 DEF UnitRest, UnitRes, Ended
  <2>8. SlotRes \cap held = {}
    <3>1. dma_pc = "idle"
      BY <1>1, <2>1 DEF DriverInv, Flow, Ended
    <3> QED
      BY <2>2, <3>1 DEF SlotRest, SlotHas, SlotRes
  <2>9. TempRes \cap held = Leaked
    <3>1. \A n \in TempNames, p \in Nat : <<n, p>> \in held <=> p \in timedOut
      BY <2>1, <2>2, NoneHas DEF TempRest
    <3>2. timedOut \subseteq Nat
      BY <1>1 DEF DriverInv, ScanTypes
    <3>3. Leaked = {<<n, p>> : n \in TempNames, p \in timedOut}
      BY DEF Leaked, TempNames
    <3> QED
      BY <3>1, <3>2, <3>3 DEF TempRes
  <2>10. held \subseteq Resources
    BY <2>2 DEF Books
  <2> QED
    BY <2>3, <2>4, <2>5, <2>6, <2>7, <2>8, <2>9, <2>10, ResourcesAre
<1>2. DriverInv => InitAllOrNothing
  BY <1>1 DEF InitAllOrNothing
<1> QED
  BY <1>2, DriverInvariant, PTL

\* preallocate_unit_dma gets all of every slot or nothing of any, and
\* free_unit_dma leaves nothing, with any number of slots.
THEOREM PreallocAlwaysAllOrNothing == Spec => []PreallocAllOrNothing
<1>1. ASSUME DriverInv PROVE PreallocAllOrNothing
  <2>1. SlotRest /\ DmaFlow /\ fields = held
    BY <1>1 DEF DriverInv, LedgerInv, Books
  <2>2. DmaResources = SlotRes
    BY GotIs DEF DmaResources, SlotRes
  <2>3. ASSUME dma_pc \in {"failed", "idle"} PROVE held \cap DmaResources = {} /\ ~aliases
    BY <2>1, <2>2, <2>3 DEF SlotRest, SlotHas, SlotRes, DmaFlow, DmaTypeOK
  <2>4. ASSUME dma_pc = "ready" PROVE held \cap DmaResources = Kept \X Slots /\ aliases /\ free_head = 0
    <3>1. \A n \in SlotNames, s \in Slots : <<n, s>> \in held <=> n \in Kept
      BY <2>1, <2>4, RestIsHeld DEF SlotRest, SlotHas
    <3>2. Kept \subseteq SlotNames
      BY GotIs DEF Kept
    <3>3. held \cap SlotRes = Kept \X Slots
      BY <3>1, <3>2 DEF SlotRes
    <3> QED
      BY <2>1, <2>2, <2>4, <3>3 DEF DmaFlow
  <2>5. dma_pc = "idle" => free_head = NULL
    BY <2>1 DEF DmaFlow
  <2> QED
    BY <2>1, <2>3, <2>4, <2>5 DEF PreallocAllOrNothing
<1> QED
  BY <1>1, DriverInvariant, PTL

\* No buffer of a unit is freed while it is mapped, through every roll-back of
\* preallocate_unit_dma and every release.
THEOREM MappedMemoryAlwaysLives == Spec => []MappedMemoryLives
<1>1. ASSUME DriverInv PROVE MappedMemoryLives
  <2>1. \A m, j, n, i : <<m, j>> \in Users(n, i) /\ <<m, j>> \in held => <<n, i>> \in held
    BY <1>1, FoundationHeld DEF DriverInv, LedgerInv
  <2>2. /\ \A s : <<"dma_req", s>> \in held => <<"req_bufs", s>> \in held
        /\ \A s : <<"dma_resp", s>> \in held => <<"resp_bufs", s>> \in held
        /\ \A s : <<"dma_bounce", s>> \in held => <<"bounce_bufs", s>> \in held
    BY <2>1, UsersAre
  <2>3. /\ \A s : <<"dma_req_lists", s>> \in held => <<"dma_req", s>> \in held
        /\ \A s : <<"dma_resp_lists", s>> \in held => <<"dma_resp", s>> \in held
        /\ \A s : <<"tmp", s>> \in held => <<"dma_bounce", s>> \in held
    BY <2>1, UsersAre
  <2>4. SUFFICES ASSUME NEW s \in Slots
        PROVE  /\ \A p \in {<<"dma_req", "req_bufs">>, <<"dma_resp", "resp_bufs">>,
                            <<"dma_bounce", "bounce_bufs">>} : <<p[1], s>> \in held => <<p[2], s>> \in held
               /\ \A p \in {<<"dma_req_lists", "dma_req">>, <<"dma_resp_lists", "dma_resp">>,
                            <<"tmp", "dma_bounce">>} : <<p[1], s>> \in held => <<p[2], s>> \in held
    BY DEF MappedMemoryLives
  <2> QED
    BY <2>2, <2>3
<1> QED
  BY <1>1, DriverInvariant, PTL

\* What the device may read or write exists: the rings of every queue it was
\* given, and without a timeout the buffers of the probe it has.
THEOREM DeviceMemoryAlwaysLives == Spec => []DeviceMemoryLives
<1>1. ASSUME DriverInv, NEW n \in enabled PROVE {<<"raw", n>>, <<"vring", n>>} \subseteq held
  <2>1. n \in Queues /\ "vqs" \in vqflags[n]
    BY <1>1 DEF DriverInv, Device
  <2>2. {"raw", "vring"} \subseteq QueueNames
    BY DEF QueueNames
  <2>3. <<"raw", n>> \in Rest /\ <<"vring", n>> \in Rest
    BY <1>1, <2>1, <2>2 DEF DriverInv, LedgerInv, QueueRest
  <2> QED
    BY <2>3, RestIsHeld
<1>2. ASSUME DriverInv, timedOut = {}, NEW p \in pending
      PROVE  {<<"req_cmd", p>>, <<"resp_cmd", p>>, <<"req_map", p>>, <<"resp_map", p>>,
              <<"data_map", p>>, One("inqData")} \subseteq held
  <2>1. ipc = "poll" /\ p = probe /\ ipc \in Probing
    BY <1>2 DEF DriverInv, Calm, Probing
  <2>2. p \in Nat
    BY <1>2, <2>1 DEF DriverInv, ScanTypes
  <2>3. \A n \in TempNames : <<n, p>> \in Rest
    BY <1>2, <2>1, <2>2 DEF DriverInv, LedgerInv, TempRest, Have
  <2>4. One("inqData") \in Rest
    BY <1>2, <2>1 DEF DriverInv, LedgerInv, LibRest
  <2> QED
    BY <2>3, <2>4, RestIsHeld DEF TempNames
<1>3. DriverInv => DeviceMemoryLives
  BY <1>1, <1>2 DEF DeviceMemoryLives, ProbeMemoryLives
<1> QED
  BY <1>3, DriverInvariant, PTL

\* Past DRIVER_OK driver and device agree on the queues, on their features and
\* on the register layout, whatever the machine's bridge and BARs are.
THEOREM DeviceAlwaysAgrees == Spec => []DeviceAgrees
<1>1. ASSUME DriverInv, ipc \in Running
      PROVE  /\ status = "driver_ok" /\ enabled = {n \in Queues : "vqs" \in vqflags[n]}
             /\ \A n \in enabled :
                  /\ vqflags[n] \ {"vqs", "modern"} \subseteq negotiated
                  /\ ("modern" \in vqflags[n]) = modern_mode
                  /\ "INDIRECT_DESC" \in vqflags[n] => modern_mode
  <2>1. /\ status = "driver_ok" /\ enabled = {n \in Queues : "vqs" \in vqflags[n]}
        /\ negotiated = AcceptedFeatures
        /\ \A n \in enabled : /\ vqflags[n] \ {"vqs", "modern"} \subseteq AcceptedFeatures
                              /\ ("modern" \in vqflags[n]) = modern_mode
    BY <1>1 DEF DriverInv, Device
  <2>2. "INDIRECT_DESC" \in AcceptedFeatures => modern_mode
    BY DEF AcceptedFeatures
  <2> QED
    BY <2>1, <2>2
<1>2. DriverInv => DeviceAgrees
  BY <1>1 DEF DeviceAgrees, Running, Probing
<1> QED
  BY <1>2, DriverInvariant, PTL

\* Without a timeout every entry of devBase->units is a disk that answered,
\* found in address order and with its structure.
THEOREM UnitTableAlwaysExact == Spec => []UnitTableExact
<1>1. ASSUME DriverInv PROVE UnitTableExact
  <2>1. DOMAIN units = 1 .. Len(units)
    BY <1>1 DEF DriverInv, ScanTypes
  <2>2. timedOut = {} => \A i \in DOMAIN units : hw.luns[units[i]] = "disk"
    BY <1>1, <2>1 DEF DriverInv, Calm
  <2>3. \A i, j \in DOMAIN units : i < j => units[i] < units[j]
    BY <1>1, <2>1 DEF DriverInv, ScanTypes
  <2>4. ipc # "expunged" => \A n \in 0 .. MAX_UNITS : <<"unit", n>> \in held <=> n < Len(units)
    <3>1. \A n \in 0 .. MAX_UNITS : n \in Nat
      BY DriverInitAssumption
    <3> QED
      BY <1>1, <3>1, RestIsHeld DEF DriverInv, LedgerInv, UnitRest
  <2> QED
    BY <2>2, <2>3, <2>4 DEF UnitTableExact
<1> QED
  BY <1>1, DriverInvariant, PTL
====
