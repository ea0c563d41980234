---------------------------- MODULE MCPayrollTx ----------------------------
(***************************************************************************)
(* The requests of a few clients who do not wait for one another.          *)
(***************************************************************************)
EXTENDS PayrollTx, TLC

CONSTANTS s1, s2, e1, e2, e3, e4

Settle(s, scope, gross) == [op |-> "settle", id |-> s, scope |-> scope, gross |-> gross]
Pago(e, amount) == [op |-> "pago", id |-> e, amount |-> amount]
Anticipo(e, amount) == [op |-> "anticipo", id |-> e, amount |-> amount]
Void(s, e) == [op |-> "void", settlement |-> s, id |-> e]
Release(s, x) == [op |-> "release", settlement |-> s, id |-> x]
Reverse(e, x) == [op |-> "reverse", entry |-> e, id |-> x]
Delete(r) == [op |-> "delete", record |-> r]
Correct(r) == [op |-> "correct", record |-> r]

\* Books in which s1 has settled these records.
SettledOf(records) ==
    LET lines == {[settlement |-> s1, record |-> r, quantity |-> 1] : r \in records}
    IN [Nothing EXCEPT
          !.settlement = {s1}, !.line = lines,
          !.ledger = {[id |-> DevengoOf(s1), kind |-> "devengo",
                       amount |-> Cardinality(lines), settlement |-> s1,
                       reverses |-> None]}]

Settled1 == SettledOf({1})
Settled12 == SettledOf({1, 2})

\* What an import could leave behind: void, with a line and a devengo that live.
HalfVoid == [SettledOf({1}) EXCEPT !.void = {s1}]

Idle == [op |-> "none"]

Play(asks, books, cut) ==
    [ask |-> [p \in Session |-> IF p \in DOMAIN asks THEN asks[p] ELSE Idle],
     books |-> books, cut |-> cut]

\* Two settlements over the same work, one of them sent twice, and a void and a
\* removal that come in between.
Rivals == Play(<<Settle(s1, {1, 2}, 2), Settle(s1, {1, 2}, 2), Settle(s2, {2}, 1),
                 Void(s1, e1), Delete(2)>>, Nothing, {1})

\* A void sent twice, a correction of the work it frees, the settlement that
\* redoes it, and what comes too early to undo that one.
Redone == Play(<<Void(s1, e1), Void(s1, e1), Settle(s2, {1, 2}, 2), Correct(1),
                 Release(s2, e2), Reverse(DevengoOf(s2), e3)>>, Settled12, {1, 3})

\* The worker is paid, advanced money and un-credited at once.
Payday == Play(<<Pago(e1, 2), Pago(e2, 1), Anticipo(e3, 1), Anticipo(e3, 1),
                 Void(s1, e4)>>, Settled12, {1, 3})

\* Everything that can cancel one devengo.
Undone == Play(<<Reverse(DevengoOf(s1), e1), Void(s1, e2), Reverse(DevengoOf(s1), e1),
                 Release(s1, e4)>>, Settled12, {2})

\* A half-voided settlement is repaired while its work is being settled again.
Repaired == Play(<<Release(s1, e1), Release(s1, e2), Settle(s2, {1}, 1),
                   Reverse(DevengoOf(s1), e3)>>, HalfVoid, {1})

Everything == {Rivals, Redone, Payday, Undone, Repaired}

\* A correction and a removal of work that a settlement is taking in.
Edited == {Play(<<Settle(s1, {1, 2}, 2), Correct(1), Delete(2)>>, Nothing, {})}

\* What RetriesLearn asks of the scenes.
ASSUME ScenesNameRequests == OneRequestPerId

=============================================================================
