------------------------------ MODULE MCScsiIO ------------------------------
(* Instances of ScsiIO for TLC; the .cfg files pick among these values. *)
EXTENDS ScsiIO

CONSTANTS q1, q2, q3

MCCookies == Units \X Slots

\* Everything goes to unit 0.
AllZero == [r \in Requests |-> 0]

\* Requests q1 and q2 go to unit 0, q3 to unit 1.
TwoOne == [r \in Requests |-> IF r = q3 THEN 1 ELSE 0]
=============================================================================
