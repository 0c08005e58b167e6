------------------------------ MODULE FifoPort ------------------------------
(***************************************************************************)
(* What a client may rely on of a unit's message port: requests reach the  *)
(* unit task in the order they were sent; AbortIO takes a request that     *)
(* still waits out of the queue, wherever it stands, and says so, or finds *)
(* it gone; every request comes back once.                                 *)
(***************************************************************************)
EXTENDS Naturals, Sequences

CONSTANT Requests

VARIABLES queue,  \* requests that wait for the unit task
          where,  \* who has the request
          abort   \* how far the client's AbortIO is

fifoVars == <<queue, where, abort>>

\* Sequence s without the first occurrence of r.
Without(s, r) ==
  LET at == CHOOSE i \in DOMAIN s : s[i] = r /\ \A j \in 1 .. i - 1 : s[j] # r
  IN [i \in 1 .. Len(s) - 1 |-> IF i < at THEN s[i] ELSE s[i + 1]]

FifoInit ==
  /\ queue = <<>>
  /\ where = [r \in Requests |-> "client"]
  /\ abort = [r \in Requests |-> "none"]

Send(r) ==
  /\ where[r] = "client" /\ abort[r] = "none"
  /\ queue' = Append(queue, r)
  /\ where' = [where EXCEPT ![r] = "port"]
  /\ UNCHANGED abort

Receive ==
  /\ queue # <<>>
  /\ queue' = Tail(queue)
  /\ where' = [where EXCEPT ![Head(queue)] = "task"]
  /\ UNCHANGED abort

Finish(r) ==
  /\ where[r] = "task"
  /\ where' = [where EXCEPT ![r] = "client"]
  /\ UNCHANGED <<queue, abort>>

Ask(r) ==
  /\ abort[r] = "none"
  /\ abort' = [abort EXCEPT ![r] = "asked"]
  /\ UNCHANGED <<queue, where>>

\* The request still waits: it leaves the queue ...
Catch(r) ==
  /\ abort[r] = "asked" /\ where[r] = "port"
  /\ queue' = Without(queue, r)
  /\ where' = [where EXCEPT ![r] = "aborter"]
  /\ abort' = [abort EXCEPT ![r] = "caught"]

\* ... or it does not: it runs, or was replied.
Miss(r) ==
  /\ abort[r] = "asked" /\ where[r] # "port"
  /\ abort' = [abort EXCEPT ![r] = "missed"]
  /\ UNCHANGED <<queue, where>>

Return(r) ==
  /\ \/ abort[r] = "caught" /\ where' = [where EXCEPT ![r] = "client"]
     \/ abort[r] = "missed" /\ UNCHANGED where
  /\ abort' = [abort EXCEPT ![r] = "none"]
  /\ UNCHANGED queue

FifoNext ==
  \/ Receive
  \/ \E r \in Requests : Send(r) \/ Finish(r) \/ Ask(r) \/ Catch(r) \/ Miss(r) \/ Return(r)

FifoSpec == FifoInit /\ [][FifoNext]_fifoVars
=============================================================================
