------------------------------- MODULE UnitDma -------------------------------
(***************************************************************************)
(* The buffers and DMA mappings of one unit: preallocate_unit_dma and      *)
(* free_unit_dma of src/src/unit_task.c with alloc_one_slot,               *)
(* alloc_one_bounce, free_one_slot and free_one_bounce.  Each call of      *)
(* Exec is a step, and each one that allocates may fail.                   *)
(*                                                                         *)
(* held is the ledger Exec would keep: what was obtained and not yet given *)
(* back.  fields is what the driver's own structures and local variables   *)
(* say (pointers that are not NULL, entry counts above 0); the code        *)
(* decides by fields alone.  A roll-back or a release is a sequence todo   *)
(* of resources to give back, taken from the front; the ledger is shared   *)
(* with module DriverInit, which extends this one.                         *)
(***************************************************************************)
EXTENDS Naturals, Sequences, FiniteSets

CONSTANTS
  NULL,
  MAX_INFLIGHT     \* slots of a unit (16)

ASSUME UnitDmaAssumption == MAX_INFLIGHT \in Nat \ {0}

VARIABLES
  held, fields, todo,
  dma_pc,        \* where the start or the shutdown of the unit is
  at,            \* slot s of the allocation loop
  stage,         \* the call of slot s that is next
  back,          \* slot k of the roll-back or of the release loop
  aliases,       \* req_buf, resp_buf, dma_req_list, .. alias slot 0
  free_head      \* 0: the free list of slots is built, -1: it is empty

ledgerVars == <<held, fields, todo>>
dmaVars == <<dma_pc, at, stage, back, aliases, free_head>>

Slots == 0 .. MAX_INFLIGHT - 1

\* What preallocate_unit_dma asks Exec for, slot by slot, in this order: four
\* objects around each of the request and the response buffer, the bounce
\* buffer with a mapping and an entry list that only last until its physical
\* address is known, and the entry list for direct DMA.
Stages == <<"req_bufs", "resp_bufs", "dma_req", "dma_req_lists", "dma_resp",
            "dma_resp_lists", "bounce_bufs", "dma_bounce", "tmp",
            "data_dma_pool">>

StageNames == {Stages[i] : i \in DOMAIN Stages}
DmaResources == {<<n, s>> : n \in StageNames, s \in Slots}

Of(names, s) == [i \in DOMAIN names |-> <<names[i], s>>]

DmaTypeOK ==
  /\ dma_pc \in {"idle", "alloc", "rollback", "failed", "ready", "free"}
  /\ at \in 0 .. MAX_INFLIGHT
  /\ stage \in 1 .. Len(Stages) + 1
  /\ back \in 0 .. MAX_INFLIGHT
  /\ aliases \in BOOLEAN
  /\ free_head \in {0, NULL}

DmaInit ==
  /\ dma_pc = "idle"
  /\ at = 0 /\ stage = 1 /\ back = 0
  /\ aliases = FALSE
  /\ free_head = NULL

---------------------------------------------------------------------------
\* The steps of the ledger.

\* Exec grants r, and the driver stores it.
Grant(r) ==
  /\ held' = held \cup {r}
  /\ fields' = fields \cup {r}

\* FreeVec, EndDMA, FreeSysObject, .. of the next resource, and its pointer or
\* count cleared.
Release ==
  /\ todo # <<>>
  /\ held' = held \ {Head(todo)}
  /\ fields' = fields \ {Head(todo)}
  /\ todo' = Tail(todo)

\* if (unit->x[s]) release it.
IfSet(n, s) == IF <<n, s>> \in fields THEN <<<<n, s>>>> ELSE <<>>

---------------------------------------------------------------------------
\* free_one_slot, free_one_bounce and the entry list beside them: everything
\* a slot holds, by the unit's fields.
FreeOneSlotBuffersFirst(s) ==                \* mutant: memory before mappings
  IfSet("resp_bufs", s) \o IfSet("req_bufs", s) \o IfSet("dma_resp_lists", s)
    \o IfSet("dma_resp", s) \o IfSet("dma_req_lists", s) \o IfSet("dma_req", s)
FreeOneSlot(s) ==
  IfSet("dma_resp_lists", s) \o IfSet("dma_resp", s) \o IfSet("dma_req_lists", s)
    \o IfSet("dma_req", s) \o IfSet("resp_bufs", s) \o IfSet("req_bufs", s)
FreeOneBounce(s) == IfSet("dma_bounce", s) \o IfSet("bounce_bufs", s)
FreePool(s) == IfSet("data_dma_pool", s)
FreeAllNoBounce(s) == FreePool(s) \o FreeOneSlot(s)  \* mutant: a leak
FreeAll(s) == FreePool(s) \o FreeOneBounce(s) \o FreeOneSlot(s)

FailPathWholeSlot(n, s) ==                   \* mutant: frees what it never got
  Of(<<"dma_resp_lists", "dma_resp", "dma_req_lists", "dma_req", "resp_bufs",
       "req_bufs">>, s)

\* What the failing call's own function gives back, in its order, and what
\* preallocate_unit_dma adds for slot s when that function returns FALSE.
FailPath(n, s) ==
  CASE n = "req_bufs"  -> <<>>
    [] n = "resp_bufs" -> Of(<<"req_bufs">>, s)
    [] n = "dma_req"   -> Of(<<"resp_bufs", "req_bufs">>, s)
    [] n = "dma_req_lists" -> Of(<<"dma_req", "resp_bufs", "req_bufs">>, s)
    [] n = "dma_resp"  -> Of(<<"dma_req_lists", "dma_req", "resp_bufs",
                               "req_bufs">>, s)
    [] n = "dma_resp_lists" ->
         Of(<<"dma_resp", "dma_req_lists", "dma_req", "resp_bufs",
              "req_bufs">>, s)
    [] n = "bounce_bufs" -> FreeOneSlot(s)
    [] n = "dma_bounce"  -> Of(<<"bounce_bufs">>, s) \o FreeOneSlot(s)
    [] n = "tmp" -> Of(<<"dma_bounce", "bounce_bufs">>, s) \o FreeOneSlot(s)
    [] n = "data_dma_pool" -> FreeOneBounce(s) \o FreeOneSlot(s)

---------------------------------------------------------------------------
\* UnitTask_Start calls preallocate_unit_dma: the free list is built before
\* any buffer exists.
Preallocate ==
  /\ dma_pc = "idle"
  /\ dma_pc' = "alloc"
  /\ at' = 0 /\ stage' = 1
  /\ free_head' = 0
  /\ UNCHANGED <<ledgerVars, back, aliases>>

\* The next call of slot s succeeds.  With the bounce buffer's entry list in
\* hand, the physical address is noted and list and mapping go back at once.
Obtain ==
  /\ dma_pc = "alloc" /\ todo = <<>> /\ stage \in DOMAIN Stages
  /\ Grant(<<Stages[stage], at>>)
  /\ stage' = stage + 1
  /\ todo' = IF Stages[stage] = "tmp" THEN Of(<<"tmp", "dma_bounce">>, at)
             ELSE <<>>
  /\ UNCHANGED <<dma_pc, at, back, aliases, free_head>>

\* The next call of slot s fails.
Refused ==
  /\ dma_pc = "alloc" /\ todo = <<>> /\ stage \in DOMAIN Stages
  /\ todo' = FailPath(Stages[stage], at)
  /\ dma_pc' = "rollback" /\ back' = 0
  /\ UNCHANGED <<held, fields, at, stage, aliases, free_head>>

\* Slot s is complete; after the last one slot 0 is aliased for DoIO.
SlotDone ==
  /\ dma_pc = "alloc" /\ todo = <<>> /\ stage \notin DOMAIN Stages
  /\ at' = at + 1
  /\ IF at' < MAX_INFLIGHT
     THEN stage' = 1 /\ UNCHANGED <<dma_pc, aliases>>
     ELSE dma_pc' = "ready" /\ aliases' = TRUE /\ UNCHANGED stage
  /\ UNCHANGED <<ledgerVars, back, free_head>>

\* for (k = 0; k < s; k++): the completed slots go back too.
RollBackSlot ==
  /\ dma_pc = "rollback" /\ todo = <<>>
  /\ IF back < at
     THEN todo' = FreeAll(back) /\ back' = back + 1 /\ UNCHANGED dma_pc
     ELSE dma_pc' = "failed" /\ UNCHANGED <<todo, back>>
  /\ UNCHANGED <<held, fields, at, stage, aliases, free_head>>

\* UnitTask_Shutdown, from Close and also when preallocate_unit_dma failed:
\* once the task is gone, free_unit_dma runs.
Shutdown ==
  /\ dma_pc \in {"ready", "failed"}
  /\ dma_pc' = "free" /\ back' = 0
  /\ UNCHANGED <<ledgerVars, at, stage, aliases, free_head>>

FreeUnitDma ==
  /\ dma_pc = "free" /\ todo = <<>>
  /\ IF back < MAX_INFLIGHT
     THEN /\ todo' = FreeAll(back) /\ back' = back + 1
          /\ UNCHANGED <<dma_pc, aliases, free_head>>
     ELSE /\ dma_pc' = "idle"
          /\ aliases' = FALSE /\ free_head' = NULL
          /\ UNCHANGED <<todo, back>>
  /\ UNCHANGED <<held, fields, at, stage>>

DmaNext ==
  \/ Preallocate \/ Obtain \/ Refused \/ SlotDone
  \/ RollBackSlot \/ Shutdown \/ FreeUnitDma

---------------------------------------------------------------------------
\* PROPERTIES

\* What a slot keeps for as long as the unit is open.
Kept == StageNames \ {"dma_bounce", "tmp"}

\* preallocate_unit_dma is all or nothing: whichever of its calls fails for
\* whichever slot, the roll-back leaves nothing of the unit allocated or
\* mapped and no field that says otherwise; when it succeeds every slot has
\* all its buffers and mappings and only the bounce buffers' mappings are
\* gone; and after free_unit_dma nothing is left, the aliases DoIO uses
\* included (unit_task.c, preallocate_unit_dma and free_unit_dma).
PreallocAllOrNothing ==
  LET mine == held \cap DmaResources
      said == fields \cap DmaResources
  IN /\ dma_pc \in {"failed", "idle"} => mine = {} /\ said = {} /\ ~aliases
     /\ dma_pc = "ready" =>
          /\ mine = Kept \X Slots /\ said = mine
          /\ aliases /\ free_head = 0
     /\ dma_pc = "idle" => free_head = NULL

\* No buffer is freed while it is mapped for DMA: at every moment, through
\* every roll-back and release, a live mapping or entry list has its buffer
\* (the order of the calls in alloc_one_slot's failure paths and in
\* free_one_slot and free_one_bounce).
MappedMemoryLives ==
  \A s \in Slots :
    /\ \A p \in {<<"dma_req", "req_bufs">>, <<"dma_resp", "resp_bufs">>,
                 <<"dma_bounce", "bounce_bufs">>} :
         <<p[1], s>> \in held => <<p[2], s>> \in held
    /\ \A p \in {<<"dma_req_lists", "dma_req">>,
                 <<"dma_resp_lists", "dma_resp">>, <<"tmp", "dma_bounce">>} :
         <<p[1], s>> \in held => <<p[2], s>> \in held

\* Nothing is given back twice, or given back without having been obtained:
\* what is waiting in a release path is still held, each resource once.
NothingReleasedTwice ==
  /\ \A i \in DOMAIN todo : todo[i] \in held
  /\ \A i, j \in DOMAIN todo : todo[i] = todo[j] => i = j
=============================================================================
