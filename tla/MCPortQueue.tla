---------------------------- MODULE MCPortQueue ----------------------------
(* Three requests, each of another client. *)
EXTENDS PortQueue

CONSTANTS r1, r2, r3

\* One client sends its request again after it came back.
OneAgain == [r \in Requests |-> IF r = r1 THEN 2 ELSE 1]
=============================================================================
