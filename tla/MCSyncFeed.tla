---------------------------- MODULE MCSyncFeed ----------------------------
(***************************************************************************)
(* Small farms for SyncFeed: who holds which handset, who is what, what    *)
(* the feed held when it was created, and how much may happen.             *)
(***************************************************************************)
EXTENDS SyncFeed, TLC

CONSTANTS ana, beto, w, m

OnePhone == 1 :> ana
TwoPhonesOfAna == 1 :> ana @@ 2 :> ana
OneEach == 1 :> ana @@ 2 :> beto
AnaWeighs == ana :> "weigher" @@ beto :> "admin"
AnaAdministers == ana :> "admin" @@ beto :> "weigher"

AFarm(hands, roles, legacy, feed, turns, logins, fails) ==
    [holder |-> hands, role |-> roles, legacy |-> legacy, feed |-> feed,
     turns |-> turns, logins |-> logins, fails |-> fails]

\* One handset followed the feed before there was a registry, the other is new.
FirstPulls == AFarm(OneEach, AnaAdministers, {2}, <<m>>, 1, 0, 0)
\* Ana, who has two handsets, is made administrator and a weigher again.
ThereAndBack == AFarm(TwoPhonesOfAna, AnaWeighs, {}, <<w, m>>, 2, 0, 0)
\* An administrator passes a handset on to a weigher, while roles change.
PassedOn == AFarm(TwoPhonesOfAna, AnaAdministers, {}, <<w, m>>, 1, 1, 0)
\* A handset changes hands twice.
HandedBack == AFarm(OneEach, AnaAdministers, {}, <<w, m>>, 0, 2, 0)
\* A commit fails behind its answer.
NotCommitted == AFarm(TwoPhonesOfAna, AnaAdministers, {}, <<w, m>>, 1, 0, 1)

Farms == {FirstPulls, ThereAndBack, PassedOn, HandedBack, NotCommitted}

\* Farms on which the code does not do what it says.
TwoWriters == {AFarm(OneEach, AnaAdministers, {}, <<w, m>>, 0, 0, 0)}
ThereAndBackAgain == {HandedBack}
Sweeping == {AFarm(OneEach, AnaAdministers, {}, <<m>>, 0, 1, 0)}
Promoted == {ThereAndBack}
CommitFails == {NotCommitted}
BeforeTheRegistry == {AFarm(TwoPhonesOfAna, AnaWeighs, {2}, <<w, m>>, 1, 0, 0)}

=============================================================================
