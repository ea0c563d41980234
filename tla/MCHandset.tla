------------------------------ MODULE MCHandset -----------------------------
(***************************************************************************)
(* Two weighings, two farms and two tabs for Handset, in scenes that each  *)
(* have much of one thing and little of the others.                        *)
(***************************************************************************)
EXTENDS Handset

CONSTANTS a, b, f, g

\* All is weighed on the farm f; the person may sign in to g as well.
AllOnF == [w \in Weighing |-> f]

\* A day in one tab, with two weighings.
OneTab ==
    [tabs |-> {1}, farms |-> {f}, looks |-> FALSE, weighings |-> {a, b}, tokens |-> 1]

\* A session that runs out, or another farm, while a weighing waits.
TwoFarms ==
    [tabs |-> {1}, farms |-> {f, g}, looks |-> TRUE, weighings |-> {a}, tokens |-> 2]

\* Two tabs of one session upload the same weighing.
TwoTabs ==
    [tabs |-> {1, 2}, farms |-> {f}, looks |-> FALSE, weighings |-> {a}, tokens |-> 1]

\* Two tabs and nothing to upload: sessions that are shared, renewed, closed.
TwoSessions ==
    [tabs |-> {1, 2}, farms |-> {f}, looks |-> TRUE, weighings |-> {}, tokens |-> 2]

Scenes == {OneTab, TwoFarms, TwoTabs, TwoSessions}
=============================================================================
