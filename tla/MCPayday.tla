------------------------------ MODULE MCPayday ------------------------------
(***************************************************************************)
(* A crew of two for Payday.                                               *)
(***************************************************************************)
EXTENDS Payday

CONSTANT c

\* The line c is the work of the second person, the others of the first.
TwoAndOne == [l \in Line |-> IF l = c THEN 2 ELSE 1]
=============================================================================
