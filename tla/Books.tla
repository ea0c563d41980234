------------------------------- MODULE Books -------------------------------
(***************************************************************************)
(* What the payroll promises of one worker's books, whatever the requests  *)
(* that write them do to each other: a piece of work has one holder at a   *)
(* time, a settlement credits once what it holds and un-credits it once,   *)
(* and a payment never takes more than is there.  Each step is the commit  *)
(* of one request.                                                         *)
(***************************************************************************)
EXTENDS Integers

CONSTANTS
    Work,         \* what can be settled
    Paper,        \* settlements
    Nobody        \* the holder of work that is free

VARIABLES
    holder,       \* the settlement that holds each piece of work
    credit,       \* of each settlement: none, standing or cancelled
    balance,      \* what the worker is owed
    paid          \* what has been paid out under the balance check

vars == <<holder, credit, balance, paid>>

Init ==
    /\ holder \in [Work -> Paper \cup {Nobody}]
    /\ credit \in [Paper -> {"none", "standing", "cancelled"}]
    /\ balance \in Int
    /\ paid \in Nat

\* A settlement that never was takes free work and credits it.
Take(s) ==
    /\ credit[s] = "none"
    /\ credit' = [credit EXCEPT ![s] = "standing"]
    /\ \E taken \in (SUBSET {w \in Work : holder[w] = Nobody}) \ {{}} :
          holder' = [w \in Work |-> IF w \in taken THEN s ELSE holder[w]]
    /\ balance' > balance
    /\ UNCHANGED paid

\* A void, or the release of one that stopped halfway, frees all that is held
\* and cancels the credit if nothing had cancelled it before.
Undo(s) ==
    /\ credit[s] # "none"
    /\ holder' = [w \in Work |-> IF holder[w] = s THEN Nobody ELSE holder[w]]
    /\ credit' = [credit EXCEPT ![s] = "cancelled"]
    /\ balance' <= balance
    /\ credit[s] = "cancelled" => balance' = balance
    /\ UNCHANGED paid

\* A credit cancelled by hand, which leaves the work where it is.
Cancel(s) ==
    /\ credit[s] = "standing"
    /\ credit' = [credit EXCEPT ![s] = "cancelled"]
    /\ balance' < balance
    /\ UNCHANGED <<holder, paid>>

\* A payment, out of what is there.
Pay ==
    /\ 0 <= balance' /\ balance' < balance
    /\ paid' - paid = balance - balance'
    /\ UNCHANGED <<holder, credit>>

\* An advance, which may leave the worker in debt, or the reversal of a movement.
Move ==
    /\ balance' # balance
    /\ UNCHANGED <<holder, credit, paid>>

Next ==
    \/ \E s \in Paper : Take(s) \/ Undo(s) \/ Cancel(s)
    \/ Pay \/ Move

Spec == Init /\ [][Next]_vars

=============================================================================
