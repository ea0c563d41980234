------------------------------ MODULE MCTeams -------------------------------
(* Two people and two teams, for Teams. *)
EXTENDS Teams

CONSTANTS p, q, s, t

Ask(n, e) == [number |-> n, about |-> e, status |-> "keep", kind |-> "keep", want |-> None, from |-> 1]
Members(n, e, want, from) == [Ask(n, e) EXCEPT !.want = want, !.from = from]

\* Two teams that take the same people, one of them new and sent twice; a member
\* who is moved, and taken off the payroll, while the team plans without them; a
\* person who is made a team; a team that is closed, and comes back with members;
\* a person who is removed while they are taken; a team that is set twice, for two
\* days, while a member is taken off.
New == [Members(1, s, {p, q}, 2) EXCEPT !.status = "new", !.kind = "equipo"]
Rivals == {New, [New EXCEPT !.number = 2], Members(3, t, {p, q}, 1)}
Plans == {Members(1, s, {}, 3), Members(2, t, {p}, 2), [Ask(3, p) EXCEPT !.status = "inactive"]}
Turned == {[Members(1, p, {q}, 1) EXCEPT !.kind = "equipo"], Members(2, s, {p}, 1),
           [Ask(3, s) EXCEPT !.kind = "persona"]}
Back == {[Ask(1, s) EXCEPT !.status = "inactive"], [Members(2, s, {p, q}, 2) EXCEPT !.status = "active"],
         [Ask(3, q) EXCEPT !.status = "delete"]}
Twice == {Members(1, s, {}, 2), Members(2, s, {}, 3), [Ask(3, p) EXCEPT !.status = "inactive"]}

Scenes == {Rivals, Plans, Turned, Back, Twice}
=============================================================================
