------------------------------ MODULE MCStock -------------------------------
(* Two people and one product in one warehouse, for Stock. *)
EXTENDS Stock

CONSTANTS a, b

\* One or the other leaves less than nothing of what there is at first.
Typed == {-2, -3}

No == [dialog |-> 0, undo |-> 0, read |-> 0, loss |-> 0]
Failing(n) == [No EXCEPT !.dialog = 1, !.read = 1, !.loss = n]

\* One dialog sent again and again, two dialogs at once, a sale and what undoes
\* it, from lists that may be old.
Resent == [s \in Screen |-> IF s = a THEN Failing(2) ELSE No]
Rivals == [s \in Screen |-> IF s = a THEN Failing(0)
                            ELSE [No EXCEPT !.dialog = 1, !.read = 1]]
Undone == [s \in Screen |-> IF s = a THEN [Failing(0) EXCEPT !.undo = 1]
                            ELSE [No EXCEPT !.undo = 1, !.read = 1]]

Scenes == {Resent, Rivals, Undone}
=============================================================================
