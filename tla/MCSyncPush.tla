---------------------------- MODULE MCSyncPush ----------------------------
(***************************************************************************)
(* An administrator's and a weigher's handset, and what is done on them.   *)
(***************************************************************************)
EXTENDS SyncPush, TLC

CONSTANTS ana, beto, juan, luz, r1, r2, m1, o1, o2, o3, o4

AnaAdministers == ana :> "admin" @@ beto :> "weigher"

NewWorker(o, w, v) == [opId |-> o, entity |-> "worker", row |-> w, worker |-> w,
                       value |-> v, deleted |-> FALSE]
Weigh(o, r, w, v) == [opId |-> o, entity |-> "weighing", row |-> r, worker |-> w,
                      value |-> v, deleted |-> FALSE]
Delete(o, r, w, v) == [opId |-> o, entity |-> "weighing", row |-> r, worker |-> w,
                       value |-> v, deleted |-> TRUE]
Advance(o, m, w, v) == [opId |-> o, entity |-> "movement", row |-> m, worker |-> w,
                        value |-> v, deleted |-> FALSE]

Play(anas, betos, officeCap, pruneCap) ==
    [diary |-> ana :> anas @@ beto :> betos, officeCap |-> officeCap, pruneCap |-> pruneCap]

\* Beto weighs for somebody whom ana takes on meanwhile, and removes the weighing.
NewHand == Play(<<NewWorker(o1, luz, 2)>>,
                <<Weigh(o3, r1, luz, 2), Delete(o4, r1, luz, 2)>>, 1, 0)

\* Ana advances money to juan, and uses the key again for a weighing.
KeyUsedTwice == Play(<<Advance(o2, m1, juan, 1), Weigh(o2, r2, juan, 1)>>, <<>>, 0, 1)

\* The same weighing reaches the farm from two handsets, and is removed on one.
TwoHandsets == Play(<<Weigh(o1, r1, juan, 1), Delete(o2, r1, juan, 1)>>,
                    <<Weigh(o3, r1, juan, 1)>>, 1, 0)

\* Juan, for whom beto weighs, is taken off the payroll and put back on it.
ComesAndGoes == Play(<<>>, <<Weigh(o3, r1, juan, 1), Weigh(o4, r2, juan, 2)>>, 2, 1)

Season == {NewHand, KeyUsedTwice, TwoHandsets, ComesAndGoes}

\* What the theorem about facts asks of the scenes.
ASSUME WeighingsHaveTheirIds == OneWeighingPerId

===========================================================================
