----------------------------- MODULE MCVirtQueue -----------------------------
(* Instances of VirtQueue for TLC. *)
EXTENDS VirtQueue

\* A byte swap on words of three bits: bit reversal.
Swap3(v) == (v % 2) * 4 + ((v \div 2) % 2) * 2 + v \div 4

ShapesTwo == {<<1, 2>>}
=============================================================================
