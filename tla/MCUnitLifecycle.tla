--------------------------- MODULE MCUnitLifecycle ---------------------------
(* Instances of UnitLifecycle for TLC. *)
EXTENDS UnitLifecycle

CONSTANTS c1, c2, i1, i2, h1, h2

\* Client c1 sends i1 and every held request, c2 sends i2.
OneHolder == [r \in Requests |-> IF r = i2 THEN c2 ELSE c1]

\* The held requests come from different clients.
TwoHolders == [r \in Requests |-> IF r \in {i2, h2} THEN c2 ELSE c1]

BothChangeInt == [r \in Holds |-> "changeint_req"]
EachOne == [r \in Holds |-> IF r = h1 THEN "changeint_req" ELSE "remove_req"]

\* Clients may close with I/O outstanding, DoIO may give up.
Hasty == [orderly |-> FALSE, signalsRunOut |-> FALSE,
          callersWithout |-> {}, doioGivesUp |-> TRUE,
          fieldOf |-> BothChangeInt]

\* Clients wait for their I/O before they close.
Polite == [orderly |-> TRUE, signalsRunOut |-> FALSE,
           callersWithout |-> {}, doioGivesUp |-> FALSE,
           fieldOf |-> EachOne]

\* As Polite, but the task may lack a signal bit.
Starved == [Polite EXCEPT !.signalsRunOut = TRUE]

\* As Polite, but c1 may lack one when it shuts the task down.
Bitless == [Polite EXCEPT !.callersWithout = {c1}]

\* As Polite, with two requests for the one field.
Rivals == [Polite EXCEPT !.fieldOf = BothChangeInt]

\* Bitless covers Polite.
MCLoads == {Hasty, Starved, Bitless}
RivalLoads == {Rivals}
=============================================================================
