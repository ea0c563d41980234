-------------------------- MODULE PayrollTxProofs --------------------------
(***************************************************************************)
(* What holds of PayrollTx for any requests, sessions and books in order.  *)
(***************************************************************************)
EXTENDS PayrollTx, Sums, TLAPS

(***************************************************************************)
(* The inductive invariant.  What a session found out stays true until it  *)
(* commits because it holds the lock that whoever makes it false would     *)
(* need.  So for every request: what it has written by each statement,     *)
(* which locks that took, and what it may still rely on.                   *)
(***************************************************************************)
Holds(p, what, mode) == Lock(what, mode) \in held[p]

\* A movement that can be written: nobody has its id, nobody else is taking it.
Reserved(p, id) == Holds(p, Key(id), "update") /\ ~HasId(db, id)

\* A movement that can be taken back: nobody did, nobody else is doing it.
Reversing(p, e, id) ==
    /\ Reserved(p, id)
    /\ Holds(p, Cancels(e), "update") /\ ~Reversed(db, e)

SharesWorker(p) == Holds(p, Employee, "share") \/ Holds(p, Employee, "update")

SettleInv(p) ==
    LET s == Ask[p].id  D == draft[p] IN
    /\ at[p] \in {"find", "list", "insert", "share", "claim", "credit", "winner",
                  "commit", "done"}
    /\ at[p] \in {"find", "list", "insert", "winner"} => D = Nothing
    /\ at[p] \in {"insert", "share", "claim"} => seen[p] # {}
    /\ at[p] \in {"insert", "share", "claim", "credit", "commit"} =>
          /\ seen[p] \cup D.line \subseteq
                [settlement : {s}, record : Ask[p].scope, quantity : {1, 2}]
          /\ \A l, m \in seen[p] \cup D.line : l.record = m.record => l = m
    /\ at[p] \in {"share", "claim", "credit", "commit"} =>
          /\ D = [settlement |-> {s}, void |-> {}, line |-> D.line, freed |-> {},
                  ledger |-> D.ledger, gone |-> {}, corrected |-> {}, release |-> {}]
          /\ s \notin db.settlement /\ Holds(p, Key(s), "update")
          /\ \A l \in D.line :
                ~IsSettled(db, l.record) /\ Holds(p, Payable(l.record), "update")
    /\ at[p] = "share" => D.line = {}
    /\ at[p] \in {"share", "claim", "credit"} => D.ledger = {}
    /\ at[p] \in {"claim", "credit", "commit"} => SharesWorker(p)
    /\ at[p] \in {"credit", "commit"} => seen[p] = {} /\ D.line # {}
    /\ at[p] = "commit" =>
          D.ledger = {[id |-> DevengoOf(s), kind |-> "devengo", amount |-> Gross(D.line),
                       settlement |-> s, reverses |-> None]}

EntryInv(p) ==
    LET a == Ask[p] IN
    /\ at[p] \in {"find", "lock employee", "check", "post", "commit", "done"}
    /\ at[p] # "commit" => draft[p] = Nothing
    /\ at[p] \in {"check", "post", "commit"} => Holds(p, Employee, "update")
    /\ a.op = "pago" /\ at[p] \in {"post", "commit"} => a.amount <= Balance(db)
    /\ at[p] = "commit" =>
          /\ Reserved(p, a.id)
          /\ draft[p] = Facts("ledger", {[id |-> a.id, kind |-> a.op, amount |-> -a.amount,
                                          settlement |-> None, reverses |-> None]})

LinesIn(B, s) == {l \in LiveLines(B) : l.settlement = s}

FreedOf(B, s) == {<<s, l.record>> : l \in LinesIn(B, s)}

\* The id under which it takes the devengo back.
Names(a) == IF a.op = "void" THEN a.id ELSE ReversoOf(a.settlement)

Undone(a) == {ReversalOf(EntryOf(db, DevengoOf(a.settlement)), Names(a))}

UndoInv(p, a) ==
    LET s == a.settlement  D == draft[p] IN
    /\ at[p] \in {"find", "lock", "lock employee", "free", "cancel", "share", "log",
                  "commit", "done"}
    /\ a.op = "void" => at[p] \notin {"find", "lock employee", "log"}
    /\ at[p] \in {"find", "lock", "lock employee", "free"} => D = Nothing
    /\ at[p] \in {"lock employee", "free", "cancel", "share", "log", "commit"} =>
          /\ s \in db.settlement /\ Holds(p, Row(s), "update")
          /\ a.op = "release" => s \in db.void
    /\ a.op = "release" /\ at[p] \in {"free", "cancel", "share", "log", "commit"} =>
          Holds(p, Employee, "update")
    /\ at[p] \in {"cancel", "share", "log", "commit"} =>
          D = [settlement |-> {}, void |-> IF a.op = "void" THEN {s} ELSE {}, line |-> {},
               freed |-> FreedOf(db, s), ledger |-> D.ledger, gone |-> {}, corrected |-> {},
               release |-> D.release]
    /\ at[p] = "cancel" => seen[p] = {EntryOf(db, DevengoOf(s))} /\ D.ledger = {}
    /\ at[p] = "share" => D.ledger # {}
    /\ at[p] \in {"share", "log", "commit"} =>
          \/ D.ledger = {} /\ Reversed(db, DevengoOf(s))
          \/ D.ledger = Undone(a) /\ Reversing(p, DevengoOf(s), Names(a))
    /\ at[p] \in {"log", "commit"} /\ D.ledger # {} => SharesWorker(p)

ReverseInv(p) ==
    LET a == Ask[p] IN
    /\ at[p] \in {"find", "read", "reverse", "share", "share settlement", "commit", "done"}
    /\ at[p] \in {"find", "read", "reverse"} => draft[p] = Nothing
    /\ at[p] \in {"reverse", "share", "share settlement", "commit"} =>
          HasId(db, a.entry) /\ EntryOf(db, a.entry).kind # "reverso"
    /\ at[p] \in {"share", "share settlement", "commit"} =>
          /\ draft[p] = Facts("ledger", {ReversalOf(EntryOf(db, a.entry), a.id)})
          /\ Reversing(p, a.entry, a.id)
    /\ at[p] \in {"share settlement", "commit"} => SharesWorker(p)

EditInv(p) ==
    /\ at[p] \in {"check", "write", "commit", "done"}
    /\ at[p] \in {"check", "write"} => draft[p] = Nothing
    /\ at[p] = "commit" =>
          draft[p] = Facts(IF Ask[p].op = "delete" THEN "gone" ELSE "corrected",
                           {Ask[p].record})

\* A payable is locked by the settlement that takes it, which found it free, or
\* by the undoing of the one that holds it.
PayablesLocked(p) ==
    \A r \in Record, m \in {"share", "edit", "update"} : Holds(p, Payable(r), m) =>
        \/ Ask[p].op = "settle" /\ ~IsSettled(db, r)
        \/ /\ Ask[p].op \in {"void", "release"}
           /\ Holds(p, Row(Ask[p].settlement), "update")
           /\ \E l \in LinesIn(db, Ask[p].settlement) : l.record = r

RequestInv(p) ==
    /\ Ask[p].op = "settle" => SettleInv(p)
    /\ Ask[p].op \in {"pago", "anticipo"} => EntryInv(p)
    /\ Ask[p].op \in {"void", "release"} => UndoInv(p, Ask[p])
    /\ Ask[p].op = "reverse" => ReverseInv(p)
    /\ Ask[p].op \in {"delete", "correct"} => EditInv(p)
    /\ Ask[p].op = "none" => at[p] = "done"

IsLock(x) == x.mode \in {"share", "edit", "update"} /\ x = Lock(x.what, x.mode)

SessionInv(p) ==
    /\ at[p] \in {"done", "winner"} => draft[p] = Nothing /\ held[p] = {}
    /\ at[p] = "done" <=> outcome[p] # "running"
    /\ \A x \in held[p] : IsLock(x)
    /\ PayablesLocked(p)
    /\ RequestInv(p)

Apart(p, q) ==
    \A x \in held[p], y \in held[q] : x.what = y.what => Compatible(x.mode, y.mode)

VoidsDone ==
    \A s \in db.void \ Before.void :
        LinesIn(db, s) = {} /\ Reversed(db, DevengoOf(s))

IsDraft(D) ==
    D = [settlement |-> D.settlement, void |-> D.void, line |-> D.line, freed |-> D.freed,
         ledger |-> D.ledger, gone |-> D.gone, corrected |-> D.corrected,
         release |-> D.release]

Shapes ==
    /\ draft = [p \in Session |-> draft[p]] /\ held = [p \in Session |-> held[p]]
    /\ at = [p \in Session |-> at[p]] /\ seen = [p \in Session |-> seen[p]]
    /\ outcome \in [Session -> Answer]
    /\ \A p \in Session : IsDraft(draft[p])

TxInv ==
    /\ scene \in Scene
    /\ InOrder(db)
    /\ Shapes
    /\ \A p \in Session : SessionInv(p)
    /\ \A p, q \in Session : p # q => Apart(p, q)
    /\ VoidsDone

-----------------------------------------------------------------------------
(* Sums over entries and lines.  *)

LEMMA OwedIsTotal ==
    ASSUME NEW S, IsFiniteSet(S), \A e \in S : e.amount \in Int
    PROVE  Owed(S) = Total([e \in S |-> e.amount], S)
<1> DEFINE v == [e \in S |-> e.amount]
           Eq(f) == f = [s \in SUBSET S |->
                           IF s = {} THEN 0
                           ELSE (CHOOSE x \in s : TRUE).amount
                                  + f[s \ {CHOOSE x \in s : TRUE}]]
<1>1. Owed(S) = (CHOOSE f : Eq(f))[S]
  BY DEF Owed, MapThenSumSet, MapThenFoldSet
<1>2. \A x \in S : v[x] = x.amount
  OBVIOUS
<1> HIDE DEF v
<1>3. \A f : Eq(f) <=> AddsUp(f, v, S)
  <2>1. \A s \in SUBSET S : s # {} => Pick(s) \in S
    BY PickIn
  <2> QED
    BY <1>2, <2>1 DEF AddsUp, Pick
<1>4. \E f : AddsUp(f, v, S)
  BY <1>2, AddingUpIsPossible
<1> HIDE DEF Eq
<1>5. AddsUp(CHOOSE f : Eq(f), v, S)
  BY <1>3, <1>4
<1>6. S \in SUBSET S
  OBVIOUS
<1>7. (CHOOSE f : Eq(f))[S] = Total(v, S)
  BY <1>5, <1>6, OneTotal
<1> QED
  BY <1>1, <1>7 DEF v

LEMMA GrossIsTotal ==
    ASSUME NEW S, IsFiniteSet(S), \A l \in S : l.quantity \in Int
    PROVE  Gross(S) = Total([l \in S |-> l.quantity], S)
<1> DEFINE v == [l \in S |-> l.quantity]
           Eq(f) == f = [s \in SUBSET S |->
                           IF s = {} THEN 0
                           ELSE (CHOOSE x \in s : TRUE).quantity
                                  + f[s \ {CHOOSE x \in s : TRUE}]]
<1>1. Gross(S) = (CHOOSE f : Eq(f))[S]
  BY DEF Gross, MapThenSumSet, MapThenFoldSet
<1>2. \A x \in S : v[x] = x.quantity
  OBVIOUS
<1> HIDE DEF v
<1>3. \A f : Eq(f) <=> AddsUp(f, v, S)
  <2>1. \A s \in SUBSET S : s # {} => Pick(s) \in S
    BY PickIn
  <2> QED
    BY <1>2, <2>1 DEF AddsUp, Pick
<1>4. \E f : AddsUp(f, v, S)
  BY <1>2, AddingUpIsPossible
<1> HIDE DEF Eq
<1>5. AddsUp(CHOOSE f : Eq(f), v, S)
  BY <1>3, <1>4
<1>6. S \in SUBSET S
  OBVIOUS
<1>7. (CHOOSE f : Eq(f))[S] = Total(v, S)
  BY <1>5, <1>6, OneTotal
<1> QED
  BY <1>1, <1>7 DEF v

LEMMA OwedIsInt ==
    ASSUME NEW S, IsFiniteSet(S), \A e \in S : e.amount \in Int
    PROVE  Owed(S) \in Int
<1> DEFINE v == [e \in S |-> e.amount]
<1>1. Owed(S) = Total(v, S)
  BY OwedIsTotal
<1>2. \A x \in S : v[x] \in Int
  OBVIOUS
<1> HIDE DEF v
<1>3. Total(v, S) \in Int
  BY <1>2, TotalStep
<1> QED
  BY <1>1, <1>3

LEMMA OwedGrows ==
    ASSUME NEW S, IsFiniteSet(S), \A e \in S : e.amount \in Int,
           NEW n, n \notin S, n.amount \in Int
    PROVE  Owed(S \cup {n}) = Owed(S) + n.amount
<1> DEFINE v == [e \in S |-> e.amount]
           w == [e \in S \cup {n} |-> e.amount]
<1>1. IsFiniteSet(S \cup {n}) /\ \A e \in S \cup {n} : e.amount \in Int
  BY FS_AddElement
<1>2. Owed(S \cup {n}) = Total(w, S \cup {n}) /\ Owed(S) = Total(v, S)
  BY <1>1, OwedIsTotal
<1>3. \A x \in S : v[x] \in Int
  OBVIOUS
<1>4. \A x \in S : w[x] = v[x]
  OBVIOUS
<1>5. IsFiniteSet(S) /\ n \notin S /\ w[n] \in Int
  OBVIOUS
<1>7. w[n] = n.amount
  OBVIOUS
<1> HIDE DEF v, w
<1>6. Total(w, S \cup {n}) = Total(v, S) + w[n]
  BY <1>3, <1>4, <1>5, TotalGrows
<1> QED
  BY <1>2, <1>6, <1>7

LEMMA OwedOfNegatives ==
    ASSUME NEW S, IsFiniteSet(S), \A e \in S : e.amount \in Int /\ e.amount < 0
    PROVE  Owed(S) <= 0
<1> DEFINE v == [e \in S |-> e.amount]
           w == [e \in S |-> 0]
<1>1. Owed(S) = Total(v, S)
  BY OwedIsTotal
<1>2. \A x \in S : v[x] \in Int /\ w[x] \in Int /\ v[x] <= w[x] /\ w[x] + w[x] = w[x]
  OBVIOUS
<1> HIDE DEF v, w
<1>3. Total(v, S) <= Total(w, S)
  BY <1>2, TotalCompared
<1>4. Total(w, S) = Total(w, S) + Total(w, S)
  BY <1>2, TotalOfBoth
<1>5. Total(w, S) \in Int /\ Total(v, S) \in Int
  BY <1>2, TotalStep
<1> QED
  BY <1>1, <1>3, <1>4, <1>5

LEMMA GrossIsAboveZero ==
    ASSUME NEW S, IsFiniteSet(S), S # {}, \A l \in S : l.quantity \in {1, 2}
    PROVE  Gross(S) \in Nat \ {0}
<1> DEFINE v == [l \in S |-> l.quantity]
<1>1. Gross(S) = Total(v, S)
  BY GrossIsTotal
<1>2. \A x \in S : v[x] \in Nat \ {0}
  OBVIOUS
<1> HIDE DEF v
<1> QED
  BY <1>1, <1>2, TotalAboveZero

-----------------------------------------------------------------------------
(* Books, and what one transaction adds to them.  *)

LEMMA BothIs ==
    ASSUME NEW A, NEW B
    PROVE  Both(A, B) =
             [settlement |-> A.settlement \cup B.settlement, void |-> A.void \cup B.void,
              line |-> A.line \cup B.line, freed |-> A.freed \cup B.freed,
              ledger |-> A.ledger \cup B.ledger, gone |-> A.gone \cup B.gone,
              corrected |-> A.corrected \cup B.corrected,
              release |-> A.release \cup B.release]
<1>1. DOMAIN Nothing = {"settlement", "void", "line", "freed", "ledger", "gone", "corrected",
                        "release"}
  BY DEF Nothing
<1>2. Both(A, B) = [t \in {"settlement", "void", "line", "freed", "ledger", "gone",
                           "corrected", "release"} |-> A[t] \cup B[t]]
  BY <1>1, Zenon DEF Both
<1> QED
  BY <1>2

LEMMA FactsAre ==
    ASSUME NEW R
    PROVE  /\ Facts("settlement", R) = [Nothing EXCEPT !.settlement = R]
           /\ Facts("line", R) = [Nothing EXCEPT !.line = R]
           /\ Facts("ledger", R) = [Nothing EXCEPT !.ledger = R]
           /\ Facts("gone", R) = [Nothing EXCEPT !.gone = R]
           /\ Facts("corrected", R) = [Nothing EXCEPT !.corrected = R]
           /\ Facts("release", R) = [Nothing EXCEPT !.release = R]
BY DEF Facts, Nothing

LEMMA WithNothing ==
    /\ Both(Nothing, Nothing) = Nothing
    /\ \A R : Both(Nothing, Facts("ledger", R)) = Facts("ledger", R)
    /\ \A R : Both(Nothing, Facts("gone", R)) = Facts("gone", R)
    /\ \A R : Both(Nothing, Facts("corrected", R)) = Facts("corrected", R)
<1>1. Both(Nothing, Nothing) = Nothing
  BY BothIs DEF Nothing
<1>2. ASSUME NEW R
      PROVE  /\ Both(Nothing, Facts("ledger", R)) = Facts("ledger", R)
             /\ Both(Nothing, Facts("gone", R)) = Facts("gone", R)
             /\ Both(Nothing, Facts("corrected", R)) = Facts("corrected", R)
  <2> DEFINE D == Facts("ledger", R)
             G == Facts("gone", R)
             C == Facts("corrected", R)
  <2>1. {} \cup {} = {} /\ {} \cup R = R
    OBVIOUS
  <2>2. D = [Nothing EXCEPT !.ledger = R] /\ G = [Nothing EXCEPT !.gone = R]
        /\ C = [Nothing EXCEPT !.corrected = R]
    BY FactsAre
  <2> HIDE DEF D, G, C
  <2>3. Both(Nothing, D) = D
    BY <2>1, <2>2, BothIs DEF Nothing
  <2>4. Both(Nothing, G) = G
    BY <2>1, <2>2, BothIs DEF Nothing
  <2>5. Both(Nothing, C) = C
    BY <2>1, <2>2, BothIs DEF Nothing
  <2> QED
    BY <2>3, <2>4, <2>5 DEF D, G, C
<1> QED
  BY <1>1, <1>2

LEMMA EntryIsThere ==
    ASSUME NEW B, NEW id, HasId(B, id)
    PROVE  EntryOf(B, id) \in B.ledger /\ EntryOf(B, id).id = id
BY DEF HasId, EntryOf

LEMMA MovementIs ==
    ASSUME NEW B, InOrder(B), NEW e \in B.ledger
    PROVE  /\ e.id \in EntryId /\ e.amount \in Int
           /\ e.kind \in {"devengo", "pago", "anticipo", "reverso"}
           /\ e.settlement \in Settlement \cup {None}
           /\ e.reverses \in {None} \cup EntryId
           /\ e \in [id : EntryId, kind : {"devengo", "pago", "anticipo", "reverso"},
                     amount : Int, settlement : Settlement \cup {None},
                     reverses : {None} \cup EntryId]
           /\ e.reverses # None => e.kind = "reverso" /\ HasId(B, e.reverses)
           /\ e.kind = "reverso" => e.reverses # None
           /\ e.kind = "devengo" =>
                 /\ e.settlement \in B.settlement /\ e.id = DevengoOf(e.settlement)
                 /\ e.amount > 0
           /\ e.kind \in {"pago", "anticipo"} => e.amount < 0 /\ e.settlement = None
<1>1. IsMovement(B, e) /\ B.settlement \subseteq Settlement
  BY DEF InOrder
<1>2. \A i \in Id : i \in EntryId /\ i # None
  BY IdAssumption DEF EntryId
<1>3. None \notin EntryId
  BY IdAssumption
<1>4. CASE /\ e \in [id : EntryId, kind : {"devengo"}, amount : Nat \ {0},
                     settlement : B.settlement, reverses : {None}]
           /\ e.id = DevengoOf(e.settlement)
  BY <1>1, <1>3, <1>4
<1>5. CASE /\ e \in [id : Id, kind : {"pago", "anticipo"}, amount : Int,
                     settlement : {None}, reverses : {None}]
           /\ e.amount < 0
  BY <1>1, <1>2, <1>5
<1>6. CASE /\ e \in [id : EntryId, kind : {"reverso"}, amount : Int,
                     settlement : Settlement \cup {None}, reverses : EntryId]
           /\ HasId(B, e.reverses)
  BY <1>1, <1>3, <1>6
<1> QED
  BY <1>1, <1>4, <1>5, <1>6 DEF IsMovement

\* The id of a devengo is taken by the devengo of that settlement.
LEMMA DevengoIs ==
    ASSUME NEW B, InOrder(B), NEW s \in Settlement, NEW e \in B.ledger, e.id = DevengoOf(s)
    PROVE  e.kind = "devengo" /\ e.settlement = s /\ s \in B.settlement /\ e.amount > 0
<1>1. IsMovement(B, e) /\ B.settlement \subseteq Settlement
  BY DEF InOrder
<1>2. DevengoOf(s) \notin Id
  BY IdAssumption
<1>3. e.kind = "devengo"
  BY <1>1, <1>2 DEF IsMovement
<1>4. DevengoOf(e.settlement) = DevengoOf(s) => e.settlement = s
  BY DEF DevengoOf
<1> QED
  BY <1>3, <1>4, MovementIs

\* What follows from one more movement, and from none.
Grown(A, B, n) ==
    /\ IsFiniteSet(B.ledger)
    /\ \A e \in B.ledger : IsMovement(B, e)
    /\ \A e, f \in B.ledger :
          e.id = f.id \/ (e.reverses = f.reverses /\ e.reverses # None) => e = f
    /\ \A id : HasId(B, id) <=> HasId(A, id) \/ id = n.id
    /\ \A id : Reversed(B, id) <=> Reversed(A, id) \/ n.reverses = id
    /\ \A id : HasId(A, id) => EntryOf(B, id) = EntryOf(A, id)
    /\ Balance(A) \in Int /\ n.amount \in Int
    /\ Balance(B) = Balance(A) + n.amount
    /\ Owed(Pagos(A)) \in Int
    /\ Owed(Pagos(B)) = Owed(Pagos(A)) + (IF n.kind = "pago" THEN n.amount ELSE 0)

Unmoved(A, B) ==
    /\ IsFiniteSet(B.ledger)
    /\ \A e \in B.ledger : IsMovement(B, e)
    /\ \A e, f \in B.ledger :
          e.id = f.id \/ (e.reverses = f.reverses /\ e.reverses # None) => e = f
    /\ \A id : HasId(B, id) <=> HasId(A, id)
    /\ \A id : Reversed(B, id) <=> Reversed(A, id)
    /\ \A id : EntryOf(B, id) = EntryOf(A, id)
    /\ Balance(B) = Balance(A) /\ Balance(A) \in Int
    /\ Owed(Pagos(B)) = Owed(Pagos(A)) /\ Owed(Pagos(A)) \in Int

LEMMA NewMovement ==
    ASSUME NEW A, NEW B, InOrder(A), NEW n, B.ledger = A.ledger \cup {n},
           A.settlement \subseteq B.settlement, IsMovement(B, n),
           ~HasId(A, n.id), n.reverses = None \/ ~Reversed(A, n.reverses)
    PROVE  Grown(A, B, n)
<1>1. IsFiniteSet(A.ledger) /\ \A e \in A.ledger : IsMovement(A, e) /\ e.amount \in Int
  BY MovementIs DEF InOrder
<1>2. n.amount \in Int
  BY DEF IsMovement
<1>3. n \notin A.ledger
  BY DEF HasId
<1>4. IsFiniteSet(B.ledger)
  BY <1>1, FS_AddElement
<1>5. \A id : HasId(B, id) <=> HasId(A, id) \/ id = n.id
  BY DEF HasId
<1>6. \A e \in B.ledger : IsMovement(B, e)
  <2> TAKE e \in B.ledger
  <2>1. CASE e = n
    BY <2>1
  <2>2. CASE e \in A.ledger
    <3>1. IsMovement(A, e)
      BY <1>1, <2>2
    <3> QED
      BY <1>5, <3>1 DEF IsMovement
  <2> QED
    BY <2>1, <2>2
<1>7. \A e, f \in B.ledger :
         e.id = f.id \/ (e.reverses = f.reverses /\ e.reverses # None) => e = f
  BY DEF InOrder, HasId, Reversed
<1>8. \A id : Reversed(B, id) <=> Reversed(A, id) \/ n.reverses = id
  BY DEF Reversed
<1>9. ASSUME NEW id, HasId(A, id) PROVE EntryOf(B, id) = EntryOf(A, id)
  <2>1. EntryOf(A, id) \in A.ledger /\ EntryOf(A, id).id = id
    BY <1>9, EntryIsThere
  <2>2. EntryOf(B, id) \in B.ledger /\ EntryOf(B, id).id = id
    BY <1>5, <1>9, EntryIsThere
  <2> QED
    BY <1>7, <2>1, <2>2
<1>10. Balance(A) \in Int /\ Balance(B) = Balance(A) + n.amount
  BY <1>1, <1>2, <1>3, OwedIsInt, OwedGrows DEF Balance
<1>11. /\ IsFiniteSet(Pagos(A)) /\ n \notin Pagos(A) /\ \A e \in Pagos(A) : e.amount \in Int
       /\ Owed(Pagos(A)) \in Int
  <2>1. Pagos(A) \subseteq A.ledger
    BY DEF Pagos
  <2> QED
    BY <1>1, <1>3, <2>1, FS_Subset, OwedIsInt
<1>12. Owed(Pagos(B)) = Owed(Pagos(A)) + (IF n.kind = "pago" THEN n.amount ELSE 0)
  <2>1. CASE n.kind = "pago"
    <3>1. Pagos(B) = Pagos(A) \cup {n}
      BY <2>1 DEF Pagos
    <3>2. Owed(Pagos(A) \cup {n}) = Owed(Pagos(A)) + n.amount
      BY <1>2, <1>11, OwedGrows
    <3> QED
      BY <2>1, <3>1, <3>2
  <2>2. CASE n.kind # "pago"
    <3>1. Pagos(B) = Pagos(A)
      BY <2>2 DEF Pagos
    <3> QED
      BY <1>11, <2>2, <3>1
  <2> QED
    BY <2>1, <2>2
<1> QED
  BY <1>2, <1>4, <1>5, <1>6, <1>7, <1>8, <1>9, <1>10, <1>11, <1>12 DEF Grown

LEMMA SameMovements ==
    ASSUME NEW A, NEW B, InOrder(A), B.ledger = A.ledger, A.settlement \subseteq B.settlement
    PROVE  Unmoved(A, B)
<1>1. IsFiniteSet(A.ledger) /\ \A e \in A.ledger : IsMovement(A, e) /\ e.amount \in Int
  BY MovementIs DEF InOrder
<1>2. \A id : HasId(B, id) <=> HasId(A, id)
  BY DEF HasId
<1>3. \A e \in B.ledger : IsMovement(B, e)
  BY <1>1, <1>2 DEF IsMovement
<1>4. Pagos(A) \subseteq A.ledger
  BY DEF Pagos
<1>5. Balance(A) \in Int /\ Owed(Pagos(A)) \in Int
  BY <1>1, <1>4, FS_Subset, OwedIsInt DEF Balance
<1>6. Balance(B) = Balance(A) /\ Pagos(B) = Pagos(A)
  BY DEF Balance, Pagos
<1>7. /\ \A e, f \in B.ledger :
            e.id = f.id \/ (e.reverses = f.reverses /\ e.reverses # None) => e = f
      /\ \A id : Reversed(B, id) <=> Reversed(A, id)
      /\ \A id : EntryOf(B, id) = EntryOf(A, id)
  BY DEF InOrder, Reversed, EntryOf
<1> QED
  BY <1>1, <1>2, <1>3, <1>5, <1>6, <1>7 DEF Unmoved

\* Books to which lines were neither added nor freed.
LEMMA SameLines ==
    ASSUME NEW A, NEW B, B.line = A.line, B.freed = A.freed
    PROVE  /\ LiveLines(B) = LiveLines(A)
           /\ \A r : IsSettled(B, r) <=> IsSettled(A, r)
           /\ Holders(B) = Holders(A)
<1>1. LiveLines(B) = LiveLines(A)
  BY DEF LiveLines
<1>2. \A r : IsSettled(B, r) <=> IsSettled(A, r)
  BY <1>1 DEF IsSettled
<1> QED
  BY <1>1, <1>2 DEF Holders

\* How a settlement stands, read off its one devengo.
LEMMA CreditIs ==
    ASSUME NEW B, InOrder(B), NEW s \in Settlement
    PROVE  /\ s \in B.settlement <=> HasId(B, DevengoOf(s))
           /\ HasId(B, DevengoOf(s)) =>
                LiveDevengos(B, s) = IF Reversed(B, DevengoOf(s)) THEN {}
                                     ELSE {EntryOf(B, DevengoOf(s))}
           /\ ~HasId(B, DevengoOf(s)) => LiveDevengos(B, s) = {}
           /\ Credits(B)[s] = IF ~HasId(B, DevengoOf(s)) THEN "none"
                              ELSE IF Reversed(B, DevengoOf(s)) THEN "cancelled"
                              ELSE "standing"
<1>1. s \in B.settlement <=> HasId(B, DevengoOf(s))
  BY DevengoIs DEF InOrder, HasId
<1>2. \A e \in LiveDevengos(B, s) :
         e \in B.ledger /\ e.id = DevengoOf(s) /\ ~Reversed(B, DevengoOf(s))
  BY MovementIs DEF LiveDevengos
<1>3. ASSUME HasId(B, DevengoOf(s))
      PROVE  LiveDevengos(B, s) = IF Reversed(B, DevengoOf(s)) THEN {}
                                  ELSE {EntryOf(B, DevengoOf(s))}
  <2> DEFINE e == EntryOf(B, DevengoOf(s))
  <2>1. e \in B.ledger /\ e.id = DevengoOf(s)
    BY <1>3, EntryIsThere
  <2>2. e.kind = "devengo" /\ e.settlement = s
    BY <2>1, DevengoIs
  <2>3. \A f \in B.ledger : f.id = DevengoOf(s) => f = e
    BY <2>1 DEF InOrder
  <2> HIDE DEF e
  <2>4. CASE Reversed(B, DevengoOf(s))
    BY <1>2, <2>4
  <2>5. CASE ~Reversed(B, DevengoOf(s))
    <3>1. e \in LiveDevengos(B, s)
      BY <2>1, <2>2, <2>5 DEF LiveDevengos
    <3>2. LiveDevengos(B, s) = {e}
      BY <1>2, <2>3, <3>1
    <3> QED
      BY <2>5, <3>2 DEF e
  <2> QED
    BY <2>4, <2>5
<1>4. ~HasId(B, DevengoOf(s)) => LiveDevengos(B, s) = {}
  BY <1>2 DEF HasId
<1>5. Credits(B)[s] = IF LiveDevengos(B, s) # {} THEN "standing"
                      ELSE IF HasId(B, DevengoOf(s)) THEN "cancelled" ELSE "none"
  BY DEF Credits
<1> QED
  BY <1>1, <1>3, <1>4, <1>5

LEMMA CreditsChange ==
    ASSUME NEW A, NEW B, InOrder(A), InOrder(B), NEW s \in Settlement,
           \A t \in Settlement \ {s} :
              /\ HasId(A, DevengoOf(t)) <=> HasId(B, DevengoOf(t))
              /\ Reversed(A, DevengoOf(t)) <=> Reversed(B, DevengoOf(t))
    PROVE  Credits(B) = [Credits(A) EXCEPT ![s] = Credits(B)[s]]
<1>1. \A t \in Settlement \ {s} : Credits(B)[t] = Credits(A)[t]
  BY CreditIs
<1>2. /\ Credits(A) = [t \in Settlement |-> Credits(A)[t]]
      /\ Credits(B) = [t \in Settlement |-> Credits(B)[t]]
  BY DEF Credits
<1> QED
  BY <1>1, <1>2

-----------------------------------------------------------------------------
(* Requests, locks and entries of the state.  *)

LEMMA AskIs ==
    ASSUME scene \in Scene, NEW p \in Session
    PROVE  /\ Ask[p].op \in {"settle", "pago", "anticipo", "void", "release", "reverse",
                             "delete", "correct", "none"}
           /\ Ask[p].op = "settle" => Ask[p].id \in Settlement /\ Ask[p].scope \subseteq Record
           /\ Ask[p].op \in {"pago", "anticipo"} => Ask[p].id \in Id /\ Ask[p].amount \in Nat \ {0}
           /\ Ask[p].op \in {"void", "release"} => /\ Ask[p].settlement \in Settlement
                                                   /\ Ask[p].id \in Id
           /\ Ask[p].op = "reverse" => Ask[p].entry \in EntryId /\ Ask[p].id \in Id
           /\ Ask[p].op \in {"delete", "correct"} => Ask[p].record \in Record
<1>1. Ask[p] \in Request
  BY SceneAssumption DEF Ask
<1> DEFINE a == Ask[p]
<1>2. a \in Request
  BY <1>1
<1> HIDE DEF a
<1>3. /\ a.op \in {"settle", "pago", "anticipo", "void", "release", "reverse",
                   "delete", "correct", "none"}
      /\ a.op = "settle" => a.id \in Settlement /\ a.scope \subseteq Record
      /\ a.op \in {"pago", "anticipo"} => a.id \in Id /\ a.amount \in Nat \ {0}
      /\ a.op \in {"void", "release"} => a.settlement \in Settlement /\ a.id \in Id
      /\ a.op = "reverse" => a.entry \in EntryId /\ a.id \in Id
      /\ a.op \in {"delete", "correct"} => a.record \in Record
  BY <1>2 DEF Request
<1> QED
  BY <1>3 DEF a

\* The names of the ids.
LEMMA IdsAre ==
    /\ \A i \in Id : i \in EntryId /\ i # None /\ \A s \in Settlement : i # DevengoOf(s)
    /\ \A s \in Settlement :
          /\ DevengoOf(s) \in EntryId /\ DevengoOf(s) # None
          /\ ReversoOf(s) \in EntryId /\ ReversoOf(s) # None
          /\ \A t \in Settlement : ReversoOf(s) # DevengoOf(t)
    /\ \A s, t : DevengoOf(s) = DevengoOf(t) => s = t
<1>1. \A s, t : DevengoOf(s) = DevengoOf(t) => s = t
  BY DEF DevengoOf
<1>2. \A s, t : ReversoOf(s) # DevengoOf(t)
  BY DEF DevengoOf, ReversoOf
<1>3. \A s \in Settlement : DevengoOf(s) \in EntryId /\ ReversoOf(s) \in EntryId
  BY DEF EntryId
<1>4. \A i \in Id : i \in EntryId
  BY DEF EntryId
<1> QED
  BY <1>1, <1>2, <1>3, <1>4, IdAssumption

LEMMA Exclusive ==
    ASSUME NEW p, NEW q, Apart(p, q), NEW what, NEW mode,
           Holds(p, what, "update"), Holds(q, what, mode)
    PROVE  FALSE
BY DEF Apart, Holds, Lock, Compatible

\* Nobody whose locks are apart from those of q shares the worker with it.
LEMMA WorkerAlone ==
    ASSUME NEW p, NEW q, Apart(p, q), Holds(p, Employee, "update"), SharesWorker(q)
    PROVE  FALSE
BY Exclusive DEF SharesWorker

\* The sessions of TxInv, one request at a time.
LEMMA Sessions ==
    ASSUME TxInv, NEW p \in Session
    PROVE  /\ Ask[p].op = "settle" => SettleInv(p)
           /\ Ask[p].op \in {"pago", "anticipo"} => EntryInv(p)
           /\ Ask[p].op \in {"void", "release"} => UndoInv(p, Ask[p])
           /\ Ask[p].op = "reverse" => ReverseInv(p)
           /\ Ask[p].op \in {"delete", "correct"} => EditInv(p)
           /\ Ask[p].op = "none" => at[p] = "done"
<1> SessionInv(p)
  BY DEF TxInv
<1> QED
  BY DEF SessionInv, RequestInv

(***************************************************************************)
(* What a transaction changes when it commits, it holds the locks for.     *)
(***************************************************************************)
Covered(q) ==
    /\ db.settlement \subseteq db'.settlement /\ db.void \subseteq db'.void
    /\ \A s \in db'.settlement \ db.settlement : Holds(q, Key(s), "update")
    /\ \A r \in Record :
          IsSettled(db', r) => IsSettled(db, r) \/ Holds(q, Payable(r), "update")
    /\ \A s \in db.settlement :
          /\ LinesIn(db', s) \subseteq LinesIn(db, s)
          /\ LinesIn(db', s) = LinesIn(db, s) \/ Holds(q, Row(s), "update")
    /\ \A id \in EntryId :
          HasId(db', id) => \/ HasId(db, id) \/ Holds(q, Key(id), "update")
                            \/ \E s \in Settlement : id = DevengoOf(s)
    /\ \A id \in EntryId :
          Reversed(db', id) => Reversed(db, id) \/ Holds(q, Cancels(id), "update")
    /\ \A id : HasId(db, id) => HasId(db', id) /\ EntryOf(db', id) = EntryOf(db, id)
    /\ \A id : Reversed(db, id) => Reversed(db', id)
    /\ Balance(db') = Balance(db) \/ SharesWorker(q)

\* Lines over different records are worth something.
LEMMA LinesWorth ==
    ASSUME NEW L, L # {}, NEW T, NEW R, R \subseteq Record,
           L \subseteq [settlement : T, record : R, quantity : {1, 2}],
           \A l, m \in L : l.record = m.record => l = m
    PROVE  Gross(L) \in Nat \ {0}
<1> DEFINE f == [l \in L |-> l.record]
<1>1. IsFiniteSet(Record)
  BY RecordAssumption
<1>2. f \in Injection(L, Record)
  BY DEF Injection, IsInjective
<1>3. IsFiniteSet(L)
  BY <1>1, <1>2, FS_Injection
<1>4. \A l \in L : l.quantity \in {1, 2}
  OBVIOUS
<1> QED
  BY <1>3, <1>4, GrossIsAboveZero

LEMMA SettleCommits ==
    ASSUME TxInv, NEW q \in Session, Ask[q].op = "settle", at[q] = "commit", db' = View(q)
    PROVE  /\ InOrder(db') /\ Covered(q) /\ db'.void = db.void
           /\ PromisedBooks!Take(Ask[q].id)
<1> DEFINE s == Ask[q].id
           D == draft[q]
           n == [id |-> DevengoOf(s), kind |-> "devengo", amount |-> Gross(D.line),
                 settlement |-> s, reverses |-> None]
<1>1. /\ InOrder(db) /\ scene \in Scene /\ SettleInv(q)
  BY Sessions DEF TxInv
<1>2. s \in Settlement /\ Ask[q].scope \subseteq Record
  BY <1>1, AskIs
<1>3. /\ D.line # {} /\ D.ledger = {n}
      /\ D.line \subseteq [settlement : {s}, record : Ask[q].scope, quantity : {1, 2}]
      /\ \A l, m \in D.line : l.record = m.record => l = m
      /\ D = [settlement |-> {s}, void |-> {}, line |-> D.line, freed |-> {},
              ledger |-> D.ledger, gone |-> {}, corrected |-> {}, release |-> {}]
      /\ s \notin db.settlement /\ Holds(q, Key(s), "update")
      /\ \A l \in D.line :
            ~IsSettled(db, l.record) /\ Holds(q, Payable(l.record), "update")
      /\ SharesWorker(q)
  BY <1>1 DEF SettleInv
<1>4. /\ db'.settlement = db.settlement \cup {s} /\ db'.void = db.void
      /\ db'.line = db.line \cup D.line /\ db'.freed = db.freed
      /\ db'.ledger = db.ledger \cup {n}
      /\ db'.gone = db.gone /\ db'.corrected = db.corrected
  <2> DEFINE E == D.ledger
             L == D.line
  <2>1. D = [settlement |-> {s}, void |-> {}, line |-> L, freed |-> {},
              ledger |-> E, gone |-> {}, corrected |-> {}, release |-> {}]
    BY <1>3
  <2>2. D.settlement = {s} /\ D.void = {} /\ D.freed = {} /\ D.gone = {} /\ D.corrected = {}
    <3> HIDE DEF E, L, D
    <3> QED
      BY <2>1
  <2>3. db' = Both(db, D)
    BY DEF View
  <2>4. D.ledger = {n}
    BY <1>3
  <2> HIDE DEF D, n, s
  <2>5. Both(db, D) =
          [settlement |-> db.settlement \cup {s}, void |-> db.void \cup {},
           line |-> db.line \cup D.line, freed |-> db.freed \cup {},
           ledger |-> db.ledger \cup {n}, gone |-> db.gone \cup {},
           corrected |-> db.corrected \cup {}, release |-> db.release \cup D.release]
    BY <2>2, <2>4, BothIs
  <2> QED
    BY <2>3, <2>5
<1>5. Gross(D.line) \in Nat \ {0}
  BY <1>2, <1>3, LinesWorth
<1>6. /\ n.id = DevengoOf(s) /\ n.kind = "devengo" /\ n.amount \in Nat \ {0}
      /\ n.settlement = s /\ n.reverses = None
      /\ n \in [id : {DevengoOf(s)}, kind : {"devengo"}, amount : Nat \ {0},
                settlement : {s}, reverses : {None}]
  BY <1>5
<1> HIDE DEF n
<1>7. ~HasId(db, n.id) /\ DevengoOf(s) \in EntryId /\ DevengoOf(s) # None
  BY <1>1, <1>2, <1>3, <1>6, CreditIs, IdsAre
<1>8. IsMovement(db', n)
  BY <1>4, <1>6, <1>7 DEF IsMovement
<1>9. Grown(db, db', n)
  <2>1. n.reverses = None \/ ~Reversed(db, n.reverses)
    BY <1>6
  <2>2. db.settlement \subseteq db'.settlement
    BY <1>4
  <2> QED
    BY <1>1, <1>4, <1>7, <1>8, <2>1, <2>2, NewMovement
<1>10. \A l \in D.line : l.settlement = s /\ l.record \in Record
  BY <1>2, <1>3
<1>11. LiveLines(db') = LiveLines(db) \cup D.line
  <2>1. \A r : <<s, r>> \notin db.freed
    BY <1>1, <1>3 DEF InOrder
  <2>2. \A l \in D.line : <<l.settlement, l.record>> \notin db.freed
    BY <1>10, <2>1
  <2> HIDE DEF D, s
  <2> QED
    BY <1>4, <2>2 DEF LiveLines
<1>12. \A r : IsSettled(db', r) <=> IsSettled(db, r) \/ \E l \in D.line : l.record = r
  BY <1>11 DEF IsSettled
<1>13. \A l, m \in LiveLines(db') : l.record = m.record => l = m
  BY <1>1, <1>3, <1>11 DEF InOrder, IsSettled
<1>14. InOrder(db')
  <2>1. db.line \subseteq [settlement : db.settlement, record : Record, quantity : {1, 2}]
        /\ db.freed \subseteq db.settlement \X Record
        /\ db.settlement \subseteq Settlement /\ db.void \subseteq db.settlement
        /\ db.gone \cup db.corrected \subseteq Record
    BY <1>1 DEF InOrder
  <2>2. db'.line \subseteq [settlement : db'.settlement, record : Record, quantity : {1, 2}]
    BY <1>2, <1>3, <1>4, <2>1
  <2>3. db'.freed \subseteq db'.settlement \X Record
    BY <1>4, <2>1
  <2>4. db'.settlement \subseteq Settlement /\ db'.void \subseteq db'.settlement
    BY <1>2, <1>4, <2>1
  <2>5. db'.gone \cup db'.corrected \subseteq Record
    BY <1>4, <2>1
  <2>6. \A t \in db'.settlement : HasId(db', DevengoOf(t))
    BY <1>1, <1>4, <1>6, <1>9 DEF InOrder, Grown
  <2> QED
    BY <1>9, <1>13, <2>2, <2>3, <2>4, <2>5, <2>6 DEF InOrder, Grown
<1>15. \A t \in db.settlement : LinesIn(db', t) = LinesIn(db, t)
  BY <1>3, <1>10, <1>11 DEF LinesIn
<1>16. Covered(q)
  <2>1. \A r \in Record : IsSettled(db', r) =>
           IsSettled(db, r) \/ Holds(q, Payable(r), "update")
    BY <1>3, <1>12
  <2>2. \A id \in EntryId : Reversed(db', id) => Reversed(db, id)
    BY <1>6, <1>9, IdAssumption DEF Grown
  <2>3. \A id : Reversed(db, id) => Reversed(db', id)
    BY <1>9 DEF Grown
  <2>4. \A id \in EntryId : HasId(db', id) => HasId(db, id) \/ \E t \in Settlement : id = DevengoOf(t)
    BY <1>2, <1>6, <1>9 DEF Grown
  <2>5. \A id : HasId(db, id) => HasId(db', id) /\ EntryOf(db', id) = EntryOf(db, id)
    BY <1>9 DEF Grown
  <2> QED
    BY <1>3, <1>4, <1>15, <2>1, <2>2, <2>3, <2>4, <2>5 DEF Covered
<1>17. Credits(db') = [Credits(db) EXCEPT ![s] = "standing"] /\ Credits(db)[s] = "none"
  <2>1. HasId(db', DevengoOf(s)) /\ ~HasId(db, DevengoOf(s))
    BY <1>6, <1>7, <1>9 DEF Grown
  <2>2. ~Reversed(db', DevengoOf(s))
    <3>1. ~Reversed(db, DevengoOf(s))
      BY <1>1, <1>7, <2>1, MovementIs DEF Reversed
    <3> QED
      BY <1>6, <1>7, <1>9, <3>1 DEF Grown
  <2>3. Credits(db')[s] = "standing" /\ Credits(db)[s] = "none"
    BY <1>1, <1>2, <1>14, <2>1, <2>2, CreditIs
  <2>4. \A t \in Settlement \ {s} :
           /\ HasId(db, DevengoOf(t)) <=> HasId(db', DevengoOf(t))
           /\ Reversed(db, DevengoOf(t)) <=> Reversed(db', DevengoOf(t))
    BY <1>6, <1>9, IdsAre DEF Grown
  <2> QED
    BY <1>1, <1>2, <1>14, <2>3, <2>4, CreditsChange
<1> DEFINE taken == {l.record : l \in D.line}
<1>18. /\ taken \in (SUBSET {w \in Record : Holders(db)[w] = None}) \ {{}}
       /\ Holders(db') = [w \in Record |-> IF w \in taken THEN s ELSE Holders(db)[w]]
  <2>1. \A w \in taken : w \in Record /\ ~IsSettled(db, w)
    BY <1>3, <1>10
  <2>2. \A w \in Record : ~IsSettled(db, w) => Holders(db)[w] = None
    BY DEF Holders
  <2>3. ASSUME NEW w \in taken PROVE Holders(db')[w] = s
    <3>1. PICK l \in D.line : l.record = w
      OBVIOUS
    <3>2. l \in LiveLines(db') /\ IsSettled(db', w)
      BY <1>11, <1>12, <3>1
    <3>3. (CHOOSE m \in LiveLines(db') : m.record = w) = l
      BY <1>13, <3>1, <3>2
    <3> QED
      BY <1>10, <2>1, <3>2, <3>3 DEF Holders
  <2>4. ASSUME NEW w \in Record, w \notin taken PROVE Holders(db')[w] = Holders(db)[w]
    <3>1. IsSettled(db', w) <=> IsSettled(db, w)
      BY <1>12, <2>4
    <3>2. ASSUME IsSettled(db, w)
          PROVE  (CHOOSE m \in LiveLines(db') : m.record = w)
                   = (CHOOSE m \in LiveLines(db) : m.record = w)
      <4>1. \A m : m \in LiveLines(db') /\ m.record = w <=> m \in LiveLines(db) /\ m.record = w
        BY <1>11, <2>4
      <4>2. PICK l \in LiveLines(db) : l.record = w
        BY <3>2 DEF IsSettled
      <4>3. (CHOOSE m \in LiveLines(db') : m.record = w) = l
        BY <1>13, <4>1, <4>2
      <4>4. (CHOOSE m \in LiveLines(db) : m.record = w) = l
        BY <1>13, <4>1, <4>2
      <4> QED
        BY <4>3, <4>4
    <3>3. Holders(db)[w] = IF IsSettled(db, w)
                           THEN (CHOOSE m \in LiveLines(db) : m.record = w).settlement
                           ELSE None
      BY DEF Holders
    <3>4. Holders(db')[w] = IF IsSettled(db', w)
                            THEN (CHOOSE m \in LiveLines(db') : m.record = w).settlement
                            ELSE None
      BY DEF Holders
    <3>5. CASE IsSettled(db, w)
      BY <3>1, <3>2, <3>3, <3>4, <3>5
    <3>6. CASE ~IsSettled(db, w)
      BY <3>1, <3>3, <3>4, <3>6
    <3> QED
      BY <3>5, <3>6
  <2>5. Holders(db') = [w \in Record |-> Holders(db')[w]]
    BY DEF Holders
  <2>6. taken # {}
    BY <1>3
  <2> HIDE DEF taken
  <2> QED
    BY <2>1, <2>2, <2>3, <2>4, <2>5, <2>6
<1>19. /\ Balance(db') > Balance(db)
       /\ -Owed(Pagos(db')) = -Owed(Pagos(db))
  <2>1. n.amount \in Nat \ {0} /\ n.kind = "devengo"
    BY <1>6
  <2> QED
    BY <1>9, <2>1 DEF Grown
<1>20. PromisedBooks!Take(s)
  <2> HIDE DEF taken, s
  <2> QED
    BY <1>17, <1>18, <1>19 DEF PromisedBooks!Take
<1> QED
  BY <1>4, <1>14, <1>16, <1>20

\* A transaction that adds one movement, and no line.
LEMMA MovementCommits ==
    ASSUME TxInv, NEW q \in Session, NEW n,
           db'.settlement = db.settlement, db'.void = db.void, db'.line = db.line,
           db'.freed = db.freed, db'.gone = db.gone, db'.corrected = db.corrected,
           db'.ledger = db.ledger \cup {n}, IsMovement(db', n),
           Reserved(q, n.id), \A s \in Settlement : n.id # DevengoOf(s),
           n.reverses = None \/ Reversing(q, n.reverses, n.id), SharesWorker(q)
    PROVE  /\ InOrder(db') /\ Covered(q) /\ Grown(db, db', n)
           /\ Holders(db') = Holders(db)
<1>1. InOrder(db)
  BY DEF TxInv
<1>2. /\ ~HasId(db, n.id) /\ Holds(q, Key(n.id), "update")
      /\ n.reverses = None \/ (/\ ~Reversed(db, n.reverses)
                               /\ Holds(q, Cancels(n.reverses), "update"))
  BY DEF Reserved, Reversing
<1>3. Grown(db, db', n)
  BY <1>1, <1>2, NewMovement
<1>4. /\ LiveLines(db') = LiveLines(db)
      /\ \A r : IsSettled(db', r) <=> IsSettled(db, r)
      /\ Holders(db') = Holders(db)
  BY SameLines
<1>5. InOrder(db')
  <2>1. \A t \in db'.settlement : HasId(db', DevengoOf(t))
    BY <1>1, <1>3 DEF InOrder, Grown
  <2> QED
    BY <1>1, <1>3, <1>4, <2>1 DEF InOrder, Grown
<1>6. Covered(q)
  <2>1. \A s : LinesIn(db', s) = LinesIn(db, s)
    BY <1>4 DEF LinesIn
  <2>2. \A id \in EntryId : Reversed(db', id) =>
           Reversed(db, id) \/ Holds(q, Cancels(id), "update")
    BY <1>2, <1>3, IdAssumption DEF Grown
  <2>3. \A id : Reversed(db, id) => Reversed(db', id)
    BY <1>3 DEF Grown
  <2>4. \A id \in EntryId : HasId(db', id) => HasId(db, id) \/ Holds(q, Key(id), "update")
    BY <1>2, <1>3 DEF Grown
  <2>5. \A id : HasId(db, id) => HasId(db', id) /\ EntryOf(db', id) = EntryOf(db, id)
    BY <1>3 DEF Grown
  <2> QED
    BY <1>4, <2>1, <2>2, <2>3, <2>4, <2>5 DEF Covered
<1> QED
  BY <1>3, <1>4, <1>5, <1>6

\* What a draft of facts of one table adds.
LEMMA ViewOfFacts ==
    ASSUME NEW q, NEW R
    PROVE  /\ draft[q] = Facts("ledger", R) =>
                View(q) = [settlement |-> db.settlement, void |-> db.void, line |-> db.line,
                           freed |-> db.freed, ledger |-> db.ledger \cup R,
                           gone |-> db.gone, corrected |-> db.corrected,
                           release |-> db.release]
           /\ draft[q] \in {Facts("gone", R), Facts("corrected", R)} =>
                /\ View(q).settlement = db.settlement /\ View(q).void = db.void
                /\ View(q).line = db.line /\ View(q).freed = db.freed
                /\ View(q).ledger = db.ledger
                /\ View(q).gone \subseteq db.gone \cup R
                /\ View(q).corrected \subseteq db.corrected \cup R
<1> DEFINE D == draft[q]
<1>1. View(q) = Both(db, D)
  BY DEF View
<1>2. /\ Facts("ledger", R) = [Nothing EXCEPT !.ledger = R]
      /\ Facts("gone", R) = [Nothing EXCEPT !.gone = R]
      /\ Facts("corrected", R) = [Nothing EXCEPT !.corrected = R]
  BY FactsAre
<1> HIDE DEF D
<1>3. ASSUME D = [Nothing EXCEPT !.ledger = R]
      PROVE  View(q) = [settlement |-> db.settlement, void |-> db.void, line |-> db.line,
                        freed |-> db.freed, ledger |-> db.ledger \cup R,
                        gone |-> db.gone, corrected |-> db.corrected,
                        release |-> db.release]
  <2>1. /\ D.settlement = {} /\ D.void = {} /\ D.line = {} /\ D.freed = {}
        /\ D.ledger = R /\ D.gone = {} /\ D.corrected = {} /\ D.release = {}
    BY <1>3 DEF Nothing
  <2>2. \A S : S \cup {} = S
    OBVIOUS
  <2> QED
    BY <1>1, <2>1, <2>2, BothIs
<1>4. ASSUME D = [Nothing EXCEPT !.gone = R] \/ D = [Nothing EXCEPT !.corrected = R]
      PROVE  /\ View(q).settlement = db.settlement /\ View(q).void = db.void
             /\ View(q).line = db.line /\ View(q).freed = db.freed
             /\ View(q).ledger = db.ledger
             /\ View(q).gone \subseteq db.gone \cup R
             /\ View(q).corrected \subseteq db.corrected \cup R
  <2>1. /\ D.settlement = {} /\ D.void = {} /\ D.line = {} /\ D.freed = {} /\ D.ledger = {}
        /\ D.gone \subseteq R /\ D.corrected \subseteq R
    BY <1>4 DEF Nothing
  <2>2. \A S : S \cup {} = S
    OBVIOUS
  <2>3. \A S, T, U : T \subseteq U => S \cup T \subseteq S \cup U
    OBVIOUS
  <2>4. /\ View(q).settlement = db.settlement \cup D.settlement
        /\ View(q).void = db.void \cup D.void /\ View(q).line = db.line \cup D.line
        /\ View(q).freed = db.freed \cup D.freed /\ View(q).ledger = db.ledger \cup D.ledger
        /\ View(q).gone = db.gone \cup D.gone
        /\ View(q).corrected = db.corrected \cup D.corrected
    BY <1>1, BothIs
  <2> QED
    BY <2>1, <2>2, <2>3, <2>4
<1> QED
  BY <1>2, <1>3, <1>4 DEF D

LEMMA EntryCommits ==
    ASSUME TxInv, NEW q \in Session, Ask[q].op \in {"pago", "anticipo"}, at[q] = "commit",
           db' = View(q)
    PROVE  /\ InOrder(db') /\ Covered(q) /\ db'.void = db.void
           /\ PromisedBooks!Pay \/ PromisedBooks!Move
<1> DEFINE a == Ask[q]
           n == [id |-> a.id, kind |-> a.op, amount |-> -a.amount,
                 settlement |-> None, reverses |-> None]
<1>1. InOrder(db) /\ scene \in Scene /\ EntryInv(q)
  BY Sessions DEF TxInv
<1>2. a.id \in Id /\ a.amount \in Nat \ {0} /\ a.op \in {"pago", "anticipo"}
  BY <1>1, AskIs
<1>3. /\ Holds(q, Employee, "update") /\ Reserved(q, a.id)
      /\ a.op = "pago" => a.amount <= Balance(db)
      /\ draft[q] = Facts("ledger", {n})
  BY <1>1 DEF EntryInv
<1>4. /\ n.id = a.id /\ n.kind = a.op /\ n.amount = -a.amount /\ n.reverses = None
      /\ n.amount \in Int /\ n.amount < 0
      /\ n \in [id : Id, kind : {"pago", "anticipo"}, amount : Int, settlement : {None},
                reverses : {None}]
  BY <1>2
<1> HIDE DEF n, a
<1>5. /\ db'.settlement = db.settlement /\ db'.void = db.void /\ db'.line = db.line
      /\ db'.freed = db.freed /\ db'.gone = db.gone /\ db'.corrected = db.corrected
      /\ db'.ledger = db.ledger \cup {n}
  <2>1. db' = [settlement |-> db.settlement, void |-> db.void, line |-> db.line,
               freed |-> db.freed, ledger |-> db.ledger \cup {n},
               gone |-> db.gone, corrected |-> db.corrected, release |-> db.release]
    BY <1>3, ViewOfFacts
  <2> QED
    BY <2>1
<1>6. IsMovement(db', n)
  BY <1>4 DEF IsMovement
<1>7. SharesWorker(q)
  BY <1>3 DEF SharesWorker
<1>8. /\ InOrder(db') /\ Covered(q) /\ Grown(db, db', n)
      /\ Holders(db') = Holders(db)
  <2>1. Reserved(q, n.id) /\ \A s \in Settlement : n.id # DevengoOf(s)
    BY <1>2, <1>3, <1>4, IdsAre
  <2> QED
    BY <1>4, <1>5, <1>6, <1>7, <2>1, MovementCommits
<1>9. Credits(db') = Credits(db)
  <2>1. \A t \in Settlement :
           /\ HasId(db, DevengoOf(t)) <=> HasId(db', DevengoOf(t))
           /\ Reversed(db, DevengoOf(t)) <=> Reversed(db', DevengoOf(t))
    BY <1>2, <1>4, <1>8, IdsAre DEF Grown
  <2>2. \A t \in Settlement : Credits(db')[t] = Credits(db)[t]
    BY <1>1, <1>8, <2>1, CreditIs
  <2> QED
    BY <2>2 DEF Credits
<1>10. /\ Balance(db) \in Int /\ Balance(db') = Balance(db) + n.amount
       /\ Owed(Pagos(db)) \in Int
       /\ Owed(Pagos(db')) = Owed(Pagos(db)) + (IF n.kind = "pago" THEN n.amount ELSE 0)
  BY <1>8 DEF Grown
<1>11. CASE a.op = "pago"
  <2>1. /\ 0 <= Balance(db') /\ Balance(db') < Balance(db)
        /\ (-Owed(Pagos(db'))) - (-Owed(Pagos(db))) = Balance(db) - Balance(db')
    BY <1>2, <1>3, <1>4, <1>10, <1>11
  <2>2. PromisedBooks!Pay
    BY <1>8, <1>9, <2>1 DEF PromisedBooks!Pay
  <2> QED
    BY <1>5, <1>8, <2>2
<1>12. CASE a.op = "anticipo"
  <2>1. Balance(db') # Balance(db) /\ -Owed(Pagos(db')) = -Owed(Pagos(db))
    BY <1>2, <1>4, <1>10, <1>12
  <2>2. PromisedBooks!Move
    BY <1>8, <1>9, <2>1 DEF PromisedBooks!Move
  <2> QED
    BY <1>5, <1>8, <2>2
<1> QED
  BY <1>2, <1>11, <1>12

LEMMA ReverseCommits ==
    ASSUME TxInv, NEW q \in Session, Ask[q].op = "reverse", at[q] = "commit", db' = View(q)
    PROVE  /\ InOrder(db') /\ Covered(q) /\ db'.void = db.void
           /\ PromisedBooks!Move \/ \E s \in Settlement : PromisedBooks!Cancel(s)
<1> DEFINE a == Ask[q]
           e == EntryOf(db, a.entry)
           n == ReversalOf(e, a.id)
<1>1. InOrder(db) /\ scene \in Scene /\ ReverseInv(q)
  BY Sessions DEF TxInv
<1>2. a.id \in Id /\ a.entry \in EntryId
  BY <1>1, AskIs
<1>3. /\ HasId(db, a.entry) /\ e.kind # "reverso"
      /\ draft[q] = Facts("ledger", {n})
      /\ Reversing(q, a.entry, a.id) /\ SharesWorker(q)
  BY <1>1 DEF ReverseInv
<1>4. e \in db.ledger /\ e.id = a.entry
  BY <1>3, EntryIsThere
<1>5. /\ e.amount \in Int /\ e.settlement \in Settlement \cup {None}
      /\ e.kind = "devengo" => /\ e.settlement \in Settlement /\ e.amount > 0
                               /\ e.id = DevengoOf(e.settlement)
      /\ e.kind # "devengo" => e.amount < 0
  <2>1. db.settlement \subseteq Settlement
    BY <1>1 DEF InOrder
  <2> QED
    BY <1>1, <1>3, <1>4, <2>1, MovementIs
<1> HIDE DEF e, a
<1>6. /\ n.id = a.id /\ n.kind = "reverso" /\ n.amount = -e.amount /\ n.amount \in Int
      /\ n.reverses = a.entry
      /\ n \in [id : EntryId, kind : {"reverso"}, amount : Int,
                settlement : Settlement \cup {None}, reverses : EntryId]
  BY <1>2, <1>4, <1>5, IdsAre DEF ReversalOf
<1> HIDE DEF n
<1>7. /\ db'.settlement = db.settlement /\ db'.void = db.void /\ db'.line = db.line
      /\ db'.freed = db.freed /\ db'.gone = db.gone /\ db'.corrected = db.corrected
      /\ db'.ledger = db.ledger \cup {n}
  <2>1. db' = [settlement |-> db.settlement, void |-> db.void, line |-> db.line,
               freed |-> db.freed, ledger |-> db.ledger \cup {n},
               gone |-> db.gone, corrected |-> db.corrected, release |-> db.release]
    BY <1>3, ViewOfFacts
  <2> QED
    BY <2>1
<1>8. \A s \in Settlement : n.id # DevengoOf(s)
  BY <1>2, <1>6, IdsAre
<1>9. IsMovement(db', n)
  <2>1. HasId(db', n.reverses)
    BY <1>3, <1>6, <1>7 DEF HasId
  <2> QED
    BY <1>6, <1>8, <2>1 DEF IsMovement
<1>10. /\ InOrder(db') /\ Covered(q) /\ Grown(db, db', n)
       /\ Holders(db') = Holders(db)
  <2>1. Reserved(q, n.id) /\ Reversing(q, n.reverses, n.id)
    BY <1>3, <1>6 DEF Reversing
  <2> QED
    BY <1>3, <1>7, <1>8, <1>9, <2>1, MovementCommits
<1>11. /\ Balance(db) \in Int /\ Balance(db') = Balance(db) + n.amount
       /\ -Owed(Pagos(db')) = -Owed(Pagos(db))
  BY <1>6, <1>10 DEF Grown
<1>12. \A t \in Settlement :
          /\ HasId(db, DevengoOf(t)) <=> HasId(db', DevengoOf(t))
          /\ Reversed(db', DevengoOf(t)) <=> Reversed(db, DevengoOf(t)) \/ a.entry = DevengoOf(t)
  BY <1>6, <1>8, <1>10 DEF Grown
<1>13. CASE e.kind = "devengo"
  <2> DEFINE s == e.settlement
  <2>1. s \in Settlement /\ a.entry = DevengoOf(s) /\ ~Reversed(db, a.entry)
    BY <1>3, <1>4, <1>5, <1>13 DEF Reversing
  <2>2. \A t \in Settlement \ {s} : a.entry # DevengoOf(t)
    BY <2>1, IdsAre
  <2> HIDE DEF s
  <2>3. Credits(db')[s] = "cancelled" /\ Credits(db)[s] = "standing"
    BY <1>1, <1>3, <1>10, <1>12, <2>1, CreditIs
  <2>4. Credits(db') = [Credits(db) EXCEPT ![s] = Credits(db')[s]]
    BY <1>1, <1>10, <1>12, <2>1, <2>2, CreditsChange
  <2>5. Balance(db') < Balance(db)
    BY <1>5, <1>6, <1>11, <1>13
  <2>6. PromisedBooks!Cancel(s)
    BY <1>10, <1>11, <2>3, <2>4, <2>5 DEF PromisedBooks!Cancel
  <2> QED
    BY <1>7, <1>10, <2>1, <2>6
<1>14. CASE e.kind # "devengo"
  <2>1. \A t \in Settlement : a.entry # DevengoOf(t)
    BY <1>1, <1>4, <1>14, DevengoIs
  <2>2. \A t \in Settlement : Credits(db')[t] = Credits(db)[t]
    BY <1>1, <1>10, <1>12, <2>1, CreditIs
  <2>3. Credits(db') = Credits(db)
    BY <2>2 DEF Credits
  <2>4. Balance(db') # Balance(db)
    BY <1>5, <1>6, <1>11, <1>14
  <2>5. PromisedBooks!Move
    BY <1>10, <1>11, <2>3, <2>4 DEF PromisedBooks!Move
  <2> QED
    BY <1>7, <1>10, <2>5
<1> QED
  BY <1>13, <1>14

LEMMA EditCommits ==
    ASSUME TxInv, NEW q \in Session, Ask[q].op \in {"delete", "correct"}, at[q] = "commit",
           db' = View(q)
    PROVE  InOrder(db') /\ Covered(q) /\ db'.void = db.void /\ UNCHANGED PromisedBooks!vars
<1>1. InOrder(db) /\ scene \in Scene /\ EditInv(q)
  BY Sessions DEF TxInv
<1>2. Ask[q].record \in Record
  BY <1>1, AskIs
<1>3. draft[q] \in {Facts("gone", {Ask[q].record}), Facts("corrected", {Ask[q].record})}
  BY <1>1 DEF EditInv
<1>4. /\ db'.settlement = db.settlement /\ db'.void = db.void /\ db'.line = db.line
      /\ db'.freed = db.freed /\ db'.ledger = db.ledger
      /\ db'.gone \cup db'.corrected \subseteq Record
  <2>1. /\ View(q).settlement = db.settlement /\ View(q).void = db.void
        /\ View(q).line = db.line /\ View(q).freed = db.freed
        /\ View(q).ledger = db.ledger
        /\ View(q).gone \subseteq db.gone \cup {Ask[q].record}
        /\ View(q).corrected \subseteq db.corrected \cup {Ask[q].record}
    BY <1>3, ViewOfFacts
  <2>2. db.gone \cup db.corrected \subseteq Record
    BY <1>1 DEF InOrder
  <2> QED
    BY <1>2, <2>1, <2>2
<1>5. Unmoved(db, db')
  BY <1>1, <1>4, SameMovements
<1>6. /\ LiveLines(db') = LiveLines(db)
      /\ \A r : IsSettled(db', r) <=> IsSettled(db, r)
      /\ Holders(db') = Holders(db)
  BY <1>4, SameLines
<1>7. InOrder(db')
  BY <1>1, <1>4, <1>5, <1>6 DEF InOrder, Unmoved
<1>8. Covered(q)
  <2>1. \A s : LinesIn(db', s) = LinesIn(db, s)
    BY <1>6 DEF LinesIn
  <2> QED
    BY <1>4, <1>5, <1>6, <2>1 DEF Covered, Unmoved
<1>9. Credits(db') = Credits(db)
  <2>1. \A t \in Settlement : Credits(db')[t] = Credits(db)[t]
    BY <1>1, <1>5, <1>7, CreditIs DEF Unmoved
  <2> QED
    BY <2>1 DEF Credits
<1> QED
  BY <1>4, <1>5, <1>6, <1>7, <1>8, <1>9 DEF Unmoved, PromisedBooks!vars

LEMMA UndoCommits ==
    ASSUME TxInv, NEW q \in Session, Ask[q].op \in {"void", "release"}, at[q] = "commit",
           db' = View(q)
    PROVE  /\ InOrder(db') /\ Covered(q)
           /\ db'.void \subseteq db.void \cup {Ask[q].settlement}
           /\ LinesIn(db', Ask[q].settlement) = {}
           /\ Reversed(db', DevengoOf(Ask[q].settlement))
           /\ PromisedBooks!Undo(Ask[q].settlement)
<1> DEFINE s == Ask[q].settlement
           D == draft[q]
           e == EntryOf(db, DevengoOf(s))
           n == ReversalOf(e, Names(Ask[q]))
           freed == {<<s, l.record>> : l \in LinesIn(db, s)}
           voided == IF Ask[q].op = "void" THEN {s} ELSE {}
<1>1. InOrder(db) /\ scene \in Scene /\ UndoInv(q, Ask[q])
  BY Sessions DEF TxInv
<1>2. s \in Settlement /\ Ask[q].id \in Id
  BY <1>1, AskIs
<1>3. /\ s \in db.settlement /\ Holds(q, Row(s), "update")
      /\ D = [settlement |-> {}, void |-> voided, line |-> {}, freed |-> freed,
              ledger |-> D.ledger, gone |-> {}, corrected |-> {}, release |-> D.release]
      /\ \/ D.ledger = {} /\ Reversed(db, DevengoOf(s))
         \/ D.ledger = {n} /\ Reversing(q, DevengoOf(s), Names(Ask[q])) /\ SharesWorker(q)
  BY <1>1 DEF UndoInv, Undone, FreedOf
<1>4. /\ db'.settlement = db.settlement /\ db'.void = db.void \cup voided
      /\ db'.line = db.line /\ db'.freed = db.freed \cup freed
      /\ db'.ledger = db.ledger \cup D.ledger
      /\ db'.gone = db.gone /\ db'.corrected = db.corrected
  <2> DEFINE E == D.ledger
             L == D.release
  <2>1. D = [settlement |-> {}, void |-> voided, line |-> {}, freed |-> freed,
              ledger |-> E, gone |-> {}, corrected |-> {}, release |-> L]
    BY <1>3
  <2>2. /\ D.settlement = {} /\ D.void = voided /\ D.line = {} /\ D.freed = freed
        /\ D.gone = {} /\ D.corrected = {}
    <3> HIDE DEF E, L, D, voided, freed
    <3> QED
      BY <2>1
  <2>3. db' = Both(db, D)
    BY DEF View
  <2>4. \A S : S \cup {} = S
    OBVIOUS
  <2> HIDE DEF D, voided, freed
  <2>5. Both(db, D) =
          [settlement |-> db.settlement \cup D.settlement, void |-> db.void \cup D.void,
           line |-> db.line \cup D.line, freed |-> db.freed \cup D.freed,
           ledger |-> db.ledger \cup D.ledger, gone |-> db.gone \cup D.gone,
           corrected |-> db.corrected \cup D.corrected, release |-> db.release \cup D.release]
    BY BothIs
  <2> QED
    BY <2>2, <2>3, <2>4, <2>5
<1>5. HasId(db, DevengoOf(s)) /\ e \in db.ledger /\ e.id = DevengoOf(s)
      /\ e.kind = "devengo" /\ e.settlement = s /\ e.amount > 0 /\ e.amount \in Int
  <2>1. HasId(db, DevengoOf(s))
    BY <1>1, <1>3 DEF InOrder
  <2>2. e \in db.ledger /\ e.id = DevengoOf(s)
    BY <2>1, EntryIsThere
  <2> QED
    BY <1>1, <1>2, <2>1, <2>2, DevengoIs, MovementIs
<1>6. /\ voided \subseteq {s} /\ freed \subseteq {s} \X Record
      /\ \A l \in LiveLines(db) : l.settlement = s <=> <<l.settlement, l.record>> \in freed
  <2>1. \A l \in LiveLines(db) : l.record \in Record
    BY <1>1 DEF InOrder, LiveLines
  <2> QED
    BY <2>1 DEF LinesIn
<1>7. Names(Ask[q]) \in EntryId /\ \A t \in Settlement : Names(Ask[q]) # DevengoOf(t)
  BY <1>2, IdsAre DEF Names
<1> HIDE DEF e
<1>8. /\ n.id = Names(Ask[q]) /\ n.kind = "reverso" /\ n.amount = -e.amount
      /\ n.amount \in Int /\ n.reverses = DevengoOf(s)
      /\ n \in [id : EntryId, kind : {"reverso"}, amount : Int,
                settlement : Settlement \cup {None}, reverses : EntryId]
  BY <1>2, <1>5, <1>7, IdsAre DEF ReversalOf
<1> HIDE DEF n, voided, freed, D, s
<1>9. LiveLines(db') = LiveLines(db) \ LinesIn(db, s)
  <2>1. \A l \in LiveLines(db') : l \in LiveLines(db) /\ l.settlement # s
    BY <1>4, <1>6 DEF LiveLines
  <2>2. \A l \in LiveLines(db) : l.settlement # s => l \in LiveLines(db')
    BY <1>4, <1>6 DEF LiveLines
  <2> QED
    BY <2>1, <2>2 DEF LinesIn
<1>10. /\ LinesIn(db', s) = {}
       /\ \A t : t # s => LinesIn(db', t) = LinesIn(db, t)
  BY <1>9 DEF LinesIn
<1>11. \A r : IsSettled(db', r) => IsSettled(db, r)
  BY <1>9 DEF IsSettled
<1>12. /\ \A id : HasId(db, id) => HasId(db', id) /\ EntryOf(db', id) = EntryOf(db, id)
       /\ \A id \in EntryId : HasId(db', id) => HasId(db, id) \/ Holds(q, Key(id), "update")
       /\ \A id \in EntryId :
             Reversed(db', id) => Reversed(db, id) \/ Holds(q, Cancels(id), "update")
       /\ \A id : Reversed(db, id) => Reversed(db', id)
       /\ \A id \in EntryId : id # DevengoOf(s) => (Reversed(db', id) <=> Reversed(db, id))
       /\ \A t \in Settlement : HasId(db', DevengoOf(t)) <=> HasId(db, DevengoOf(t))
       /\ Reversed(db', DevengoOf(s))
       /\ Balance(db') <= Balance(db)
       /\ Reversed(db, DevengoOf(s)) => Balance(db') = Balance(db)
       /\ Balance(db') = Balance(db) \/ SharesWorker(q)
       /\ Owed(Pagos(db')) = Owed(Pagos(db))
       /\ IsFiniteSet(db'.ledger)
       /\ \A x \in db'.ledger : IsMovement(db', x)
       /\ \A x, y \in db'.ledger :
             x.id = y.id \/ (x.reverses = y.reverses /\ x.reverses # None) => x = y
  <2>1. CASE D.ledger = {} /\ Reversed(db, DevengoOf(s))
    <3>1. db'.ledger = db.ledger
      BY <1>4, <2>1
    <3>2. Unmoved(db, db')
      BY <1>1, <1>4, <3>1, SameMovements
    <3> QED
      BY <2>1, <3>2 DEF Unmoved
  <2>2. CASE D.ledger = {n} /\ Reversing(q, DevengoOf(s), Names(Ask[q])) /\ SharesWorker(q)
    <3>1. /\ Holds(q, Key(n.id), "update") /\ ~HasId(db, n.id)
          /\ Holds(q, Cancels(n.reverses), "update") /\ ~Reversed(db, n.reverses)
      BY <1>8, <2>2 DEF Reversing, Reserved
    <3>2. db'.ledger = db.ledger \cup {n}
      BY <1>4, <2>2
    <3>3. IsMovement(db', n)
      <4>1. HasId(db', n.reverses)
        BY <1>5, <1>8, <3>2 DEF HasId
      <4> QED
        BY <1>7, <1>8, <4>1 DEF IsMovement
    <3>4. Grown(db, db', n)
      BY <1>1, <1>4, <3>1, <3>2, <3>3, NewMovement
    <3>5. /\ Balance(db') <= Balance(db)
          /\ Owed(Pagos(db')) = Owed(Pagos(db))
      BY <1>5, <1>8, <3>4 DEF Grown
    <3>6. ~Reversed(db, DevengoOf(s))
      BY <1>8, <3>1
    <3> QED
      BY <1>7, <1>8, <2>2, <3>1, <3>4, <3>5, <3>6 DEF Grown
  <2> QED
    BY <1>3, <2>1, <2>2 DEF D, n
<1>13. InOrder(db')
  <2>1. /\ db.line \subseteq [settlement : db.settlement, record : Record, quantity : {1, 2}]
        /\ db.freed \subseteq db.settlement \X Record
        /\ db.settlement \subseteq Settlement /\ db.void \subseteq db.settlement
        /\ db.gone \cup db.corrected \subseteq Record
        /\ \A l, m \in LiveLines(db) : l.record = m.record => l = m
        /\ \A t \in db.settlement : HasId(db, DevengoOf(t))
    BY <1>1 DEF InOrder
  <2>2. db'.freed \subseteq db'.settlement \X Record /\ db'.void \subseteq db'.settlement
    BY <1>3, <1>4, <1>6, <2>1 DEF s
  <2>3. \A l, m \in LiveLines(db') : l.record = m.record => l = m
    BY <1>9, <2>1
  <2>4. \A t \in db'.settlement : HasId(db', DevengoOf(t))
    BY <1>4, <1>12, <2>1
  <2> QED
    BY <1>4, <1>12, <2>1, <2>2, <2>3, <2>4 DEF InOrder
<1>14. Covered(q)
  <2>1. Holds(q, Row(s), "update")
    BY <1>3 DEF s
  <2>2. \A t : LinesIn(db', t) \subseteq LinesIn(db, t)
               /\ (LinesIn(db', t) = LinesIn(db, t) \/ Holds(q, Row(t), "update"))
    BY <1>10, <2>1
  <2> QED
    BY <1>4, <1>11, <1>12, <2>2 DEF Covered
<1>15. Holders(db') = [w \in Record |-> IF Holders(db)[w] = s THEN None ELSE Holders(db)[w]]
  <2>1. s # None
    BY <1>2, IdAssumption DEF s
  <2>2. ASSUME NEW w \in Record
        PROVE  Holders(db')[w] = IF Holders(db)[w] = s THEN None ELSE Holders(db)[w]
    <3>1. /\ Holders(db)[w] = IF IsSettled(db, w)
                              THEN (CHOOSE m \in LiveLines(db) : m.record = w).settlement
                              ELSE None
          /\ Holders(db')[w] = IF IsSettled(db', w)
                               THEN (CHOOSE m \in LiveLines(db') : m.record = w).settlement
                               ELSE None
      BY DEF Holders
    <3>2. CASE ~IsSettled(db, w)
      BY <1>11, <2>1, <3>1, <3>2
    <3>3. CASE IsSettled(db, w)
      <4>1. PICK l \in LiveLines(db) : l.record = w
        BY <3>3 DEF IsSettled
      <4>2. \A m \in LiveLines(db) : m.record = w => m = l
        BY <1>1, <4>1 DEF InOrder
      <4>3. (CHOOSE m \in LiveLines(db) : m.record = w) = l
        BY <4>1, <4>2
      <4>4. CASE l.settlement = s
        <5>1. ~IsSettled(db', w)
          BY <1>9, <4>1, <4>2, <4>4 DEF IsSettled, LinesIn
        <5> QED
          BY <3>1, <3>3, <4>3, <4>4, <5>1
      <4>5. CASE l.settlement # s
        <5>1. l \in LiveLines(db')
          BY <1>9, <4>1, <4>5 DEF LinesIn
        <5>2. (CHOOSE m \in LiveLines(db') : m.record = w) = l
          BY <1>9, <4>1, <4>2, <5>1
        <5>3. IsSettled(db', w)
          BY <4>1, <5>1 DEF IsSettled
        <5> QED
          BY <3>1, <3>3, <4>3, <4>5, <5>2, <5>3
      <4> QED
        BY <4>4, <4>5
    <3> QED
      BY <3>2, <3>3
  <2>3. Holders(db') = [w \in Record |-> Holders(db')[w]]
    BY DEF Holders
  <2> QED
    BY <2>2, <2>3
<1>16. /\ Credits(db') = [Credits(db) EXCEPT ![s] = "cancelled"]
       /\ Credits(db)[s] # "none"
       /\ Credits(db)[s] = "cancelled" => Reversed(db, DevengoOf(s))
  <2>1. s \in Settlement
    BY <1>2 DEF s
  <2>2. Credits(db')[s] = "cancelled"
    BY <1>5, <1>12, <1>13, <2>1, CreditIs
  <2>3. Credits(db)[s] # "none" /\ (Credits(db)[s] = "cancelled" => Reversed(db, DevengoOf(s)))
    BY <1>1, <1>5, <2>1, CreditIs
  <2>4. \A t \in Settlement \ {s} : DevengoOf(t) \in EntryId /\ DevengoOf(t) # DevengoOf(s)
    BY <2>1, IdsAre
  <2>5. Credits(db') = [Credits(db) EXCEPT ![s] = Credits(db')[s]]
    BY <1>1, <1>12, <1>13, <2>1, <2>4, CreditsChange
  <2> QED
    BY <2>2, <2>3, <2>5
<1>17. PromisedBooks!Undo(s)
  BY <1>12, <1>15, <1>16 DEF PromisedBooks!Undo
<1> QED
  BY <1>4, <1>6, <1>10, <1>12, <1>13, <1>14, <1>17 DEF s

LEMMA CommitKeeps ==
    ASSUME TxInv, NEW q \in Session, at[q] = "commit", db' = View(q), scene' = scene
    PROVE  /\ InOrder(db') /\ Covered(q) /\ VoidsDone'
           /\ PromisedBooks!Next \/ UNCHANGED PromisedBooks!vars
<1>1. scene \in Scene /\ InOrder(db) /\ VoidsDone
  BY DEF TxInv
<1>2. Before' = Before
  BY DEF Before
<1>3. ASSUME InOrder(db'), Covered(q),
             \A s \in db'.void \ db.void :
                LinesIn(db', s) = {} /\ Reversed(db', DevengoOf(s))
      PROVE  VoidsDone'
  <2>1. db.void \subseteq db.settlement
    BY <1>1 DEF InOrder
  <2>2. \A s \in db.void \ Before.void : LinesIn(db', s) = {} /\ Reversed(db', DevengoOf(s))
    BY <1>1, <1>3, <2>1 DEF VoidsDone, Covered
  <2> QED
    BY <1>2, <1>3, <2>2 DEF VoidsDone
<1>4. CASE Ask[q].op = "settle"
  <2>1. /\ InOrder(db') /\ Covered(q) /\ db'.void = db.void
        /\ PromisedBooks!Take(Ask[q].id)
    BY <1>4, SettleCommits
  <2>2. Ask[q].id \in Settlement
    BY <1>1, <1>4, AskIs
  <2> QED
    BY <1>3, <2>1, <2>2 DEF PromisedBooks!Next
<1>5. CASE Ask[q].op \in {"pago", "anticipo"}
  <2>1. /\ InOrder(db') /\ Covered(q) /\ db'.void = db.void
        /\ PromisedBooks!Pay \/ PromisedBooks!Move
    BY <1>5, EntryCommits
  <2> QED
    BY <1>3, <2>1 DEF PromisedBooks!Next
<1>6. CASE Ask[q].op = "reverse"
  <2>1. /\ InOrder(db') /\ Covered(q) /\ db'.void = db.void
        /\ PromisedBooks!Move \/ \E s \in Settlement : PromisedBooks!Cancel(s)
    BY <1>6, ReverseCommits
  <2> QED
    BY <1>3, <2>1 DEF PromisedBooks!Next
<1>7. CASE Ask[q].op \in {"void", "release"}
  <2>1. /\ InOrder(db') /\ Covered(q)
        /\ db'.void \subseteq db.void \cup {Ask[q].settlement}
        /\ LinesIn(db', Ask[q].settlement) = {}
        /\ Reversed(db', DevengoOf(Ask[q].settlement))
        /\ PromisedBooks!Undo(Ask[q].settlement)
    BY <1>7, UndoCommits
  <2>2. Ask[q].settlement \in Settlement
    BY <1>1, <1>7, AskIs
  <2> QED
    BY <1>3, <2>1, <2>2 DEF PromisedBooks!Next
<1>8. CASE Ask[q].op \in {"delete", "correct"}
  <2>1. InOrder(db') /\ Covered(q) /\ db'.void = db.void /\ UNCHANGED PromisedBooks!vars
    BY <1>8, EditCommits
  <2> QED
    BY <1>3, <2>1
<1>9. Ask[q].op # "none"
  BY Sessions
<1> QED
  BY <1>1, <1>4, <1>5, <1>6, <1>7, <1>8, <1>9, AskIs

(***************************************************************************)
(* What one session relies on, the commit of another leaves true.          *)
(***************************************************************************)
SameSession(p) ==
    /\ at'[p] = at[p] /\ draft'[p] = draft[p] /\ held'[p] = held[p]
    /\ seen'[p] = seen[p] /\ outcome'[p] = outcome[p]

LEMMA StaysPayable ==
    ASSUME TxInv, NEW p \in Session, NEW q, Apart(p, q), Covered(q), SameSession(p),
           scene' = scene
    PROVE  PayablesLocked(p)'
<1>1. ASSUME NEW r \in Record, NEW m \in {"share", "edit", "update"}, Holds(p, Payable(r), m)
      PROVE  \/ Ask[p].op = "settle" /\ ~IsSettled(db', r)
             \/ /\ Ask[p].op \in {"void", "release"}
                /\ Holds(p, Row(Ask[p].settlement), "update")
                /\ \E l \in LinesIn(db', Ask[p].settlement) : l.record = r
  <2>1. PayablesLocked(p)
    BY DEF TxInv, SessionInv
  <2>2. CASE Ask[p].op = "settle" /\ ~IsSettled(db, r)
    <3>1. ~Holds(q, Payable(r), "update")
      BY <1>1 DEF Apart, Holds, Lock, Compatible
    <3> QED
      BY <2>2, <3>1 DEF Covered
  <2>3. CASE /\ Ask[p].op \in {"void", "release"}
             /\ Holds(p, Row(Ask[p].settlement), "update")
             /\ \E l \in LinesIn(db, Ask[p].settlement) : l.record = r
    <3> DEFINE s == Ask[p].settlement
    <3>1. ~Holds(q, Row(s), "update")
      BY <2>3, Exclusive
    <3>2. s \in db.settlement
      BY <2>3 DEF TxInv, InOrder, LinesIn, LiveLines
    <3>3. LinesIn(db', s) = LinesIn(db, s)
      BY <3>1, <3>2 DEF Covered
    <3> QED
      BY <2>3, <3>3
  <2> QED
    BY <1>1, <2>1, <2>2, <2>3 DEF PayablesLocked
<1> QED
  BY <1>1 DEF PayablesLocked, SameSession, Ask, Holds

LEMMA SettleRelies ==
    ASSUME TxInv, NEW p \in Session, NEW q, Apart(p, q), Covered(q), SameSession(p),
           scene' = scene, Ask[p].op = "settle"
    PROVE  SettleInv(p)'
<1> DEFINE s == Ask[p].id
           D == draft[p]
<1>1. SettleInv(p) /\ Ask'[p] = Ask[p] /\ s \in Settlement /\ Ask[p].scope \subseteq Record
  BY Sessions, AskIs DEF TxInv, Ask
<1>2. Holds(p, Key(s), "update") /\ s \notin db.settlement => s \notin db'.settlement
  BY Exclusive DEF Covered
<1>3. ASSUME NEW l, l.record \in Record, ~IsSettled(db, l.record),
             Holds(p, Payable(l.record), "update")
      PROVE  ~IsSettled(db', l.record)
  <2>1. ~Holds(q, Payable(l.record), "update")
    BY <1>3, Exclusive
  <2> QED
    BY <1>3, <2>1 DEF Covered
<1>4. at[p] \in {"share", "claim", "credit", "commit"} => \A l \in D.line : l.record \in Record
  BY <1>1 DEF SettleInv
<1>5. \A what, mode : Holds(p, what, mode)' <=> Holds(p, what, mode)
  BY DEF Holds, SameSession
<1> QED
  BY <1>1, <1>2, <1>3, <1>4, <1>5 DEF SettleInv, SameSession, SharesWorker

LEMMA EntryRelies ==
    ASSUME TxInv, NEW p \in Session, NEW q, Apart(p, q), Covered(q), SameSession(p),
           scene' = scene, Ask[p].op \in {"pago", "anticipo"}
    PROVE  EntryInv(p)'
<1>1. EntryInv(p) /\ Ask'[p] = Ask[p] /\ Ask[p].id \in Id
  BY Sessions, AskIs DEF TxInv, Ask
<1>2. Reserved(p, Ask[p].id) => Reserved(p, Ask[p].id)'
  <2>1. Reserved(p, Ask[p].id) => ~HasId(db', Ask[p].id)
    <3> SUFFICES ASSUME Reserved(p, Ask[p].id) PROVE ~HasId(db', Ask[p].id)
      OBVIOUS
    <3>1. ~Holds(q, Key(Ask[p].id), "update")
      BY Exclusive DEF Reserved
    <3> QED
      BY <1>1, <3>1, IdsAre DEF Reserved, Covered
  <2> QED
    BY <1>1, <2>1 DEF Reserved, Holds, SameSession
<1>3. Holds(p, Employee, "update") => Balance(db') = Balance(db)
  BY WorkerAlone DEF Covered
<1>4. \A what, mode : Holds(p, what, mode)' <=> Holds(p, what, mode)
  BY DEF Holds, SameSession
<1> QED
  BY <1>1, <1>2, <1>3, <1>4 DEF EntryInv, SameSession

LEMMA UndoRelies ==
    ASSUME TxInv, NEW p \in Session, NEW q, Apart(p, q), Covered(q), SameSession(p),
           NEW a, a = Ask[p], a.op \in {"void", "release"}
    PROVE  UndoInv(p, a)'
<1> DEFINE s == a.settlement
<1>1. UndoInv(p, a) /\ s \in Settlement /\ a.id \in Id /\ InOrder(db)
  BY Sessions, AskIs DEF TxInv
<1>2. s \in db.settlement /\ Holds(p, Row(s), "update") =>
         /\ FreedOf(db', s) = FreedOf(db, s)
         /\ EntryOf(db', DevengoOf(s)) = EntryOf(db, DevengoOf(s))
         /\ s \in db'.settlement
  BY <1>1, Exclusive DEF Covered, InOrder, FreedOf
<1>4. Reversing(p, DevengoOf(s), Names(a)) =>
         /\ ~HasId(db', Names(a)) /\ ~Reversed(db', DevengoOf(s))
  <2> SUFFICES ASSUME Reversing(p, DevengoOf(s), Names(a))
               PROVE  ~HasId(db', Names(a)) /\ ~Reversed(db', DevengoOf(s))
    OBVIOUS
  <2>1. /\ ~Holds(q, Key(Names(a)), "update") /\ ~Holds(q, Cancels(DevengoOf(s)), "update")
        /\ ~HasId(db, Names(a)) /\ ~Reversed(db, DevengoOf(s))
    BY Exclusive DEF Reversing, Reserved
  <2>2. /\ Names(a) \in EntryId /\ DevengoOf(s) \in EntryId
        /\ \A t \in Settlement : Names(a) # DevengoOf(t)
    BY <1>1, IdsAre DEF Names
  <2> QED
    BY <2>1, <2>2 DEF Covered
<1>5. s \in db.void => s \in db'.void
  BY DEF Covered
<1>6. Reversed(db, DevengoOf(s)) => Reversed(db', DevengoOf(s))
  BY DEF Covered
<1>7. \A what, mode : Holds(p, what, mode)' <=> Holds(p, what, mode)
  BY DEF Holds, SameSession
<1>8. /\ Reversing(p, DevengoOf(s), Names(a)) => Reversing(p, DevengoOf(s), Names(a))'
      /\ s \in db.settlement /\ Holds(p, Row(s), "update") => Undone(a)' = Undone(a)
  BY <1>1, <1>2, <1>4, <1>7 DEF Reversing, Reserved, Undone
<1>9. at'[p] = at[p] /\ draft'[p] = draft[p] /\ seen'[p] = seen[p]
  BY DEF SameSession
<1>10. SharesWorker(p)' <=> SharesWorker(p)
  BY <1>7 DEF SharesWorker
<1> HIDE DEF s
<1> QED
  BY <1>1, <1>2, <1>5, <1>6, <1>7, <1>8, <1>9, <1>10 DEF UndoInv, s

LEMMA ReverseRelies ==
    ASSUME TxInv, NEW p \in Session, NEW q, Apart(p, q), Covered(q), SameSession(p),
           scene' = scene, Ask[p].op = "reverse"
    PROVE  ReverseInv(p)'
<1> DEFINE a == Ask[p]
<1>1. ReverseInv(p) /\ Ask'[p] = Ask[p] /\ a.id \in Id /\ a.entry \in EntryId
  BY Sessions, AskIs DEF TxInv, Ask
<1>2. HasId(db, a.entry) => HasId(db', a.entry) /\ EntryOf(db', a.entry) = EntryOf(db, a.entry)
  BY DEF Covered
<1>3. Reversing(p, a.entry, a.id) => ~HasId(db', a.id) /\ ~Reversed(db', a.entry)
  <2> SUFFICES ASSUME Reversing(p, a.entry, a.id)
               PROVE  ~HasId(db', a.id) /\ ~Reversed(db', a.entry)
    OBVIOUS
  <2>1. /\ ~Holds(q, Key(a.id), "update") /\ ~Holds(q, Cancels(a.entry), "update")
        /\ ~HasId(db, a.id) /\ ~Reversed(db, a.entry)
    BY Exclusive DEF Reversing, Reserved
  <2> QED
    BY <1>1, <2>1, IdsAre DEF Covered
<1>4. \A what, mode : Holds(p, what, mode)' <=> Holds(p, what, mode)
  BY DEF Holds, SameSession
<1>5. Reversing(p, a.entry, a.id) => Reversing(p, Ask[p].entry, Ask[p].id)'
  BY <1>1, <1>3, <1>4 DEF Reversing, Reserved
<1>6. SharesWorker(p)' <=> SharesWorker(p)
  BY <1>4 DEF SharesWorker
<1> QED
  BY <1>1, <1>2, <1>5, <1>6 DEF ReverseInv, SameSession

LEMMA Relies ==
    ASSUME TxInv, NEW p \in Session, NEW q, Apart(p, q), Covered(q), SameSession(p),
           scene' = scene
    PROVE  SessionInv(p)'
<1>1. SessionInv(p) /\ Ask'[p] = Ask[p] /\ scene \in Scene
  BY DEF TxInv, Ask
<1>2. PayablesLocked(p)'
  BY StaysPayable
<1>3. /\ Ask[p].op = "settle" => SettleInv(p)'
      /\ Ask[p].op \in {"pago", "anticipo"} => EntryInv(p)'
      /\ Ask[p].op = "reverse" => ReverseInv(p)'
  BY SettleRelies, EntryRelies, ReverseRelies
<1>7. Ask[p].op \in {"void", "release"} => UndoInv(p, Ask[p])'
  <2>1. ASSUME NEW a, a = Ask[p], a.op \in {"void", "release"} PROVE UndoInv(p, a)'
    BY <2>1, UndoRelies
  <2> QED
    BY <1>1, <2>1 DEF UndoInv
<1>4. Ask[p].op \in {"delete", "correct"} => EditInv(p)'
  BY <1>1, Sessions DEF EditInv, SameSession
<1>5. Ask[p].op = "none" => at'[p] = "done"
  BY <1>1, Sessions DEF SameSession
<1>6. /\ at'[p] \in {"done", "winner"} => draft'[p] = Nothing /\ held'[p] = {}
      /\ at'[p] = "done" <=> outcome'[p] # "running"
      /\ \A x \in held'[p] : IsLock(x)
  BY <1>1 DEF SessionInv, SameSession
<1> QED
  BY <1>1, <1>2, <1>3, <1>4, <1>5, <1>6, <1>7 DEF SessionInv, RequestInv

\* A step of another session that commits nothing.
LEMMA Waits ==
    ASSUME NEW p \in Session, SessionInv(p), SameSession(p), db' = db, scene' = scene
    PROVE  SessionInv(p)'
<1>1. Ask' = Ask /\ \A what, mode : Holds(p, what, mode)' <=> Holds(p, what, mode)
  BY DEF Ask, Holds, SameSession
<1>2. PayablesLocked(p) => PayablesLocked(p)'
  BY <1>1 DEF PayablesLocked
<1>3. SharesWorker(p)' <=> SharesWorker(p)
  BY <1>1 DEF SharesWorker
<1>5. SettleInv(p) => SettleInv(p)'
  BY <1>1, <1>3 DEF SettleInv, SameSession
<1>6. EntryInv(p) => EntryInv(p)'
  BY <1>1 DEF EntryInv, SameSession, Reserved
<1>8. Reversing(p, Ask[p].entry, Ask[p].id)' <=> Reversing(p, Ask[p].entry, Ask[p].id)
  BY <1>1 DEF Reversing, Reserved
<1>9. ASSUME NEW a, a = Ask[p], UndoInv(p, a) PROVE UndoInv(p, a)'
  <2>1. Reversing(p, DevengoOf(a.settlement), Names(a))' <=>
          Reversing(p, DevengoOf(a.settlement), Names(a))
    BY <1>1 DEF Reversing, Reserved
  <2>2. Undone(a)' = Undone(a)
    BY DEF Undone
  <2> QED
    BY <1>1, <1>3, <1>9, <2>1, <2>2 DEF UndoInv, SameSession
<1>10. ReverseInv(p) => ReverseInv(p)'
  BY <1>1, <1>3, <1>8 DEF ReverseInv, SameSession
<1>11. EditInv(p) => EditInv(p)'
  BY <1>1 DEF EditInv, SameSession
<1>12. Ask'[p] = Ask[p]
  BY <1>1
<1>13. ASSUME UndoInv(p, Ask[p]) PROVE UndoInv(p, Ask[p])'
  <2>1. PICK a : a = Ask[p]
    OBVIOUS
  <2>2. UndoInv(p, a)'
    BY <1>9, <1>13, <2>1
  <2>3. a = Ask'[p]
    BY <1>12, <2>1
  <2> QED
    BY <2>2, <2>3 DEF UndoInv
<1> QED
  <2>1. SessionInv(p)
    OBVIOUS
  <2>2. /\ at'[p] \in {"done", "winner"} => draft'[p] = Nothing /\ held'[p] = {}
        /\ at'[p] = "done" <=> outcome'[p] # "running"
        /\ \A x \in held'[p] : IsLock(x)
        /\ PayablesLocked(p)'
    BY <1>2, <2>1 DEF SessionInv, SameSession
  <2>3. /\ Ask[p].op = "settle" => SettleInv(p)'
        /\ Ask[p].op \in {"pago", "anticipo"} => EntryInv(p)'
        /\ Ask[p].op \in {"void", "release"} => UndoInv(p, Ask[p])'
        /\ Ask[p].op = "reverse" => ReverseInv(p)'
        /\ Ask[p].op \in {"delete", "correct"} => EditInv(p)'
        /\ Ask[p].op = "none" => at'[p] = "done"
    BY <1>5, <1>6, <1>10, <1>11, <1>13, <2>1 DEF SessionInv, RequestInv, SameSession
  <2> QED
    BY <1>12, <2>2, <2>3 DEF SessionInv, RequestInv

-----------------------------------------------------------------------------
(* How a statement ends.  *)

LEMMA ApartIsMutual ==
    ASSUME NEW p, NEW q, Apart(p, q)
    PROVE  Apart(q, p)
<1>1. \A m, n : {m, n} = {n, m}
  OBVIOUS
<1> QED
  BY <1>1 DEF Apart, Compatible

\* A step of one session that commits nothing.
LEMMA OneSession ==
    ASSUME TxInv, NEW p \in Session, db' = db, scene' = scene, Shapes',
           \A q \in Session \ {p} : SameSession(q) /\ Apart(p, q)', SessionInv(p)'
    PROVE  TxInv'
<1>1. ASSUME NEW q \in Session PROVE SessionInv(q)'
  BY Waits DEF TxInv
<1>2. ASSUME NEW q \in Session, NEW r \in Session, q # r PROVE Apart(q, r)'
  <2>1. CASE q = p
    BY <1>2, <2>1
  <2>2. CASE r = p
    <3>1. Apart(p, q)'
      BY <1>2, <2>2
    <3> QED
      BY <2>2, <3>1, ApartIsMutual DEF Apart, Compatible
  <2>3. CASE q # p /\ r # p
    <3>1. Apart(q, r) /\ held'[q] = held[q] /\ held'[r] = held[r]
      BY <1>2, <2>3 DEF TxInv, SameSession
    <3> QED
      BY <3>1 DEF Apart
  <2> QED
    BY <2>1, <2>2, <2>3
<1>3. VoidsDone'
  BY DEF TxInv, VoidsDone, Before
<1> QED
  BY <1>1, <1>2, <1>3 DEF TxInv

LEMMA DoneIs ==
    ASSUME NEW p, at'[p] = "done", draft'[p] = Nothing, held'[p] = {}, outcome'[p] # "running"
    PROVE  SessionInv(p)'
<1>1. PayablesLocked(p)'
  BY DEF PayablesLocked, Holds
<1>2. RequestInv(p)'
  BY DEF RequestInv, SettleInv, EntryInv, UndoInv, ReverseInv, EditInv
<1> QED
  BY <1>1, <1>2 DEF SessionInv

LEMMA EndsIs ==
    ASSUME Shapes, NEW p \in Session, NEW books, NEW o \in Answer \ {"running"},
           Ends(p, books, o)
    PROVE  /\ db' = books /\ Shapes' /\ SessionInv(p)' /\ held'[p] = {}
           /\ \A q \in Session \ {p} : SameSession(q) /\ Apart(p, q)'
<1>1. /\ draft' = [draft EXCEPT ![p] = Nothing] /\ held' = [held EXCEPT ![p] = {}]
      /\ at' = [at EXCEPT ![p] = "done"] /\ seen' = [seen EXCEPT ![p] = {}]
      /\ outcome' = [outcome EXCEPT ![p] = o] /\ db' = books
  BY DEF Ends
<1>2. /\ draft'[p] = Nothing /\ held'[p] = {} /\ at'[p] = "done" /\ outcome'[p] = o
      /\ \A q \in Session \ {p} : SameSession(q)
  BY <1>1 DEF Shapes, SameSession
<1>3. Shapes'
  <2>1. IsDraft(Nothing)
    BY DEF IsDraft, Nothing
  <2>2. \A q \in Session : IsDraft(draft'[q])
    BY <1>2, <2>1 DEF Shapes, SameSession
  <2>3. /\ draft' = [q \in Session |-> draft'[q]] /\ held' = [q \in Session |-> held'[q]]
        /\ at' = [q \in Session |-> at'[q]] /\ seen' = [q \in Session |-> seen'[q]]
        /\ outcome' \in [Session -> Answer]
    BY <1>1 DEF Shapes
  <2> QED
    BY <2>2, <2>3 DEF Shapes
<1>4. \A q \in Session \ {p} : Apart(p, q)'
  BY <1>2 DEF Apart
<1>5. SessionInv(p)'
  BY <1>2, DoneIs
<1> QED
  BY <1>1, <1>2, <1>3, <1>4, <1>5

LEMMA EndsKeeps ==
    ASSUME TxInv, NEW p \in Session, NEW o \in Answer \ {"running"}, Ends(p, db, o),
           scene' = scene
    PROVE  TxInv'
BY EndsIs, OneSession DEF TxInv

LEMMA CommitsKeep ==
    ASSUME TxInv, NEW p \in Session, NEW o \in Answer \ {"running"}, Ends(p, View(p), o),
           at[p] = "commit", scene' = scene
    PROVE  TxInv' /\ (PromisedBooks!Next \/ UNCHANGED PromisedBooks!vars)
<1>1. /\ db' = View(p) /\ Shapes' /\ SessionInv(p)' /\ held'[p] = {}
      /\ \A q \in Session \ {p} : SameSession(q) /\ Apart(p, q)'
  BY EndsIs DEF TxInv
<1>2. /\ InOrder(db') /\ Covered(p) /\ VoidsDone'
      /\ PromisedBooks!Next \/ UNCHANGED PromisedBooks!vars
  BY <1>1, CommitKeeps
<1>3. ASSUME NEW q \in Session PROVE SessionInv(q)'
  <2>1. CASE q = p
    BY <1>1, <2>1
  <2>2. CASE q # p
    <3>1. Apart(q, p) /\ SameSession(q)
      BY <1>1, <2>2 DEF TxInv
    <3> QED
      BY <1>2, <3>1, Relies
  <2> QED
    BY <2>1, <2>2
<1>4. ASSUME NEW q \in Session, NEW r \in Session, q # r PROVE Apart(q, r)'
  <2>1. CASE q = p \/ r = p
    BY <1>1, <2>1 DEF Apart
  <2>2. CASE q # p /\ r # p
    <3>1. Apart(q, r) /\ held'[q] = held[q] /\ held'[r] = held[r]
      BY <1>1, <1>4, <2>2 DEF TxInv, SameSession
    <3> QED
      BY <3>1 DEF Apart
  <2> QED
    BY <2>1, <2>2
<1>5. scene' \in Scene
  BY DEF TxInv
<1> QED
  BY <1>1, <1>2, <1>3, <1>4, <1>5 DEF TxInv

\* The locks a session takes when nobody is in its way.
LEMMA NobodyInTheWay ==
    ASSUME NEW p \in Session, NEW q \in Session \ {p}, Blockers(p) = {}, Apart(p, q),
           NEW H, H \subseteq held[p] \cup Wanted(p)
    PROVE  \A x \in H, y \in held[q] : x.what = y.what => Compatible(x.mode, y.mode)
BY DEF Apart, Blockers

\* What a statement that ran has written and locked.
LEMMA WritesIs ==
    ASSUME TxInv, NEW p \in Session, NEW facts, NEW s, Writes(p, facts, s), Blockers(p) = {},
           seen' = [seen EXCEPT ![p] = seen'[p]], scene' = scene
    PROVE  /\ db' = db /\ at'[p] = s /\ outcome'[p] = outcome[p]
           /\ draft'[p] = Both(draft[p], facts) /\ IsDraft(draft[p])
           /\ held'[p] = held[p] \cup Wanted(p)
           /\ \A what, mode :
                 Holds(p, what, mode)' <=> Holds(p, what, mode) \/ Lock(what, mode) \in Wanted(p)
           /\ Ask' = Ask
           /\ SessionInv(p)' => TxInv'
<1>1. /\ draft' = [draft EXCEPT ![p] = Both(draft[p], facts)]
      /\ held' = [held EXCEPT ![p] = held[p] \cup Wanted(p)]
      /\ at' = [at EXCEPT ![p] = s] /\ db' = db /\ outcome' = outcome
  BY DEF Writes
<1>2. Shapes
  BY DEF TxInv
<1>3. /\ draft'[p] = Both(draft[p], facts) /\ held'[p] = held[p] \cup Wanted(p)
      /\ at'[p] = s /\ \A q \in Session \ {p} : SameSession(q)
  BY <1>1, <1>2 DEF Shapes, SameSession
<1>4. Shapes'
  <2>1. IsDraft(Both(draft[p], facts))
    <3> DEFINE D == draft[p]
    <3>1. Both(D, facts) =
            [settlement |-> D.settlement \cup facts.settlement, void |-> D.void \cup facts.void,
             line |-> D.line \cup facts.line, freed |-> D.freed \cup facts.freed,
             ledger |-> D.ledger \cup facts.ledger, gone |-> D.gone \cup facts.gone,
             corrected |-> D.corrected \cup facts.corrected,
             release |-> D.release \cup facts.release]
      BY BothIs
    <3> HIDE DEF D
    <3>2. IsDraft(Both(D, facts))
      BY <3>1 DEF IsDraft
    <3> QED
      BY <3>2 DEF D
  <2>2. \A q \in Session : IsDraft(draft'[q])
    BY <1>2, <1>3, <2>1 DEF Shapes, SameSession
  <2>3. /\ draft' = [q \in Session |-> draft'[q]] /\ held' = [q \in Session |-> held'[q]]
        /\ at' = [q \in Session |-> at'[q]] /\ seen' = [q \in Session |-> seen'[q]]
        /\ outcome' \in [Session -> Answer]
    BY <1>1, <1>2 DEF Shapes
  <2> QED
    BY <2>2, <2>3 DEF Shapes
<1>5. ASSUME NEW q \in Session \ {p} PROVE Apart(p, q)'
  <2>1. Apart(p, q) /\ held'[q] = held[q]
    BY <1>3 DEF TxInv, SameSession
  <2> QED
    BY <1>3, <2>1, NobodyInTheWay DEF Apart
<1>6. \A what, mode :
         Holds(p, what, mode)' <=> Holds(p, what, mode) \/ Lock(what, mode) \in Wanted(p)
  BY <1>3 DEF Holds
<1>7. Ask' = Ask
  BY DEF Ask
<1>8. SessionInv(p)' => TxInv'
  BY <1>1, <1>3, <1>4, <1>5, OneSession
<1> QED
  BY <1>1, <1>2, <1>3, <1>6, <1>7, <1>8 DEF Shapes

\* Locks that are on no payable.
OffPayables(W) ==
    \A x \in W : IsLock(x) /\ \A r : x.what # Payable(r)

Harmless(p) == OffPayables(Wanted(p))

LEMMA WritesKeep ==
    ASSUME TxInv, NEW p \in Session, NEW facts, NEW s, Writes(p, facts, s), Blockers(p) = {},
           seen' = [seen EXCEPT ![p] = seen'[p]], scene' = scene,
           at[p] # "done", s \notin {"done", "winner"}, Harmless(p), RequestInv(p)'
    PROVE  TxInv'
<1>1. /\ db' = db /\ at'[p] = s /\ outcome'[p] = outcome[p] /\ Ask' = Ask
      /\ held'[p] = held[p] \cup Wanted(p)
      /\ \A what, mode :
            Holds(p, what, mode)' <=> Holds(p, what, mode) \/ Lock(what, mode) \in Wanted(p)
      /\ SessionInv(p)' => TxInv'
  BY WritesIs
<1>2. SessionInv(p)
  BY DEF TxInv
<1>3. \A r, m : Lock(Payable(r), m) \notin Wanted(p)
  BY DEF Lock, Harmless, OffPayables
<1>4. PayablesLocked(p)'
  BY <1>1, <1>2, <1>3 DEF SessionInv, PayablesLocked
<1>5. SessionInv(p)'
  BY <1>1, <1>2, <1>4 DEF SessionInv, Harmless, OffPayables
<1> QED
  BY <1>1, <1>5

LEMMA BothWithNothing == ASSUME NEW D, IsDraft(D) PROVE Both(D, Nothing) = D
<1>1. Both(D, Nothing) =
        [settlement |-> D.settlement \cup {}, void |-> D.void \cup {},
         line |-> D.line \cup {}, freed |-> D.freed \cup {},
         ledger |-> D.ledger \cup {}, gone |-> D.gone \cup {},
         corrected |-> D.corrected \cup {}, release |-> D.release \cup {}]
  BY BothIs DEF Nothing
<1>2. \A S : S \cup {} = S
  OBVIOUS
<1> QED
  BY <1>1, <1>2 DEF IsDraft

\* A statement that locks and writes nothing new.
LEMMA ThenIs ==
    ASSUME TxInv, NEW p \in Session, NEW s, Then(p, s), Blockers(p) = {},
           seen' = [seen EXCEPT ![p] = seen'[p]], scene' = scene
    PROVE  /\ db' = db /\ at'[p] = s /\ draft'[p] = draft[p] /\ Ask' = Ask
           /\ \A what, mode :
                 Holds(p, what, mode)' <=> Holds(p, what, mode) \/ Lock(what, mode) \in Wanted(p)
BY WritesIs, BothWithNothing DEF Then

LEMMA SeenStays ==
    ASSUME TxInv, UNCHANGED seen, NEW p \in Session
    PROVE  seen' = [seen EXCEPT ![p] = seen'[p]] /\ seen'[p] = seen[p]
BY DEF TxInv, Shapes

\* What a statement wants to lock.
LEMMA WantedIs ==
    ASSUME NEW p
    PROVE  /\ at[p] \in {"find", "list", "credit", "check", "free", "read"} => Wanted(p) = {}
           /\ at[p] \in {"insert", "post", "log"} => Wanted(p) = {Lock(Key(Ask[p].id), "update")}
           /\ at[p] = "share" => Wanted(p) = {Lock(Employee, "share")}
           /\ at[p] = "share settlement" =>
                Wanted(p) = {Lock(Row(EntryOf(db, Ask[p].entry).settlement), "share")}
           /\ at[p] = "claim" => Wanted(p) = {Lock(Payable(NextLine(p).record), "update")}
           /\ at[p] = "lock" => Wanted(p) = {Lock(Row(Ask[p].settlement), "update")}
           /\ at[p] = "lock employee" => Wanted(p) = {Lock(Employee, "update")}
           /\ at[p] = "write" => Wanted(p) = {Lock(Row(Ask[p].record), "edit")}
           /\ at[p] = "cancel" => Wanted(p) = {Lock(Key(ReversalId(p)), "update")}
                                    \cup {Lock(Cancels(e.id), "update") : e \in seen[p]}
           /\ at[p] = "reverse" => Wanted(p) = {Lock(Key(Ask[p].id), "update"),
                                                Lock(Cancels(Ask[p].entry), "update")}
BY DEF Wanted, LineIndex, LockEmployeeForMoney

LEMMA LocksDiffer ==
    /\ \A x, r : Key(x) # Payable(r) /\ Row(x) # Payable(r) /\ Cancels(x) # Payable(r)
                 /\ Employee # Payable(r)
    /\ \A w, m : Lock(w, m).what = w /\ Lock(w, m).mode = m
    /\ \A w, m, v, n : Lock(w, m) = Lock(v, n) <=> w = v /\ m = n
BY DEF Key, Payable, Row, Cancels, Employee, Lock

LEMMA OneLock ==
    ASSUME NEW w, NEW m \in {"share", "edit", "update"}, \A r : w # Payable(r)
    PROVE  OffPayables({Lock(w, m)})
<1>1. \A x \in {Lock(w, m)} : x.what = w /\ IsLock(x)
  BY LocksDiffer DEF IsLock
<1> QED
  BY <1>1 DEF OffPayables

LEMMA TwoLocks == ASSUME NEW V, NEW W, OffPayables(V), OffPayables(W) PROVE OffPayables(V \cup W)
BY DEF OffPayables

Plain == {"find", "list", "insert", "post", "log", "share", "lock", "share settlement",
          "lock employee", "write", "cancel", "reverse", "credit", "check", "free", "read"}

\* All but claims leave the payables alone.
LEMMA NoPayable ==
    ASSUME NEW p, at[p] \in Plain
    PROVE  Harmless(p)
<1>1. ASSUME NEW x, NEW m \in {"share", "edit", "update"}
      PROVE  /\ OffPayables({Lock(Key(x), m)}) /\ OffPayables({Lock(Row(x), m)})
             /\ OffPayables({Lock(Cancels(x), m)}) /\ OffPayables({Lock(Employee, m)})
  <2>1. /\ \A r : Key(x) # Payable(r) /\ Row(x) # Payable(r) /\ Cancels(x) # Payable(r)
        /\ \A r : Employee # Payable(r)
    BY LocksDiffer
  <2> QED
    BY <2>1, OneLock
<1>2. OffPayables({})
  BY DEF OffPayables
<1>3. OffPayables({Lock(Cancels(e.id), "update") : e \in seen[p]})
  <2>1. ASSUME NEW x \in {Lock(Cancels(e.id), "update") : e \in seen[p]}
        PROVE  IsLock(x) /\ \A r : x.what # Payable(r)
    <3>1. PICK e \in seen[p] : x = Lock(Cancels(e.id), "update")
      OBVIOUS
    <3>2. OffPayables({Lock(Cancels(e.id), "update")})
      BY <1>1
    <3>3. x \in {Lock(Cancels(e.id), "update")}
      BY <3>1
    <3> QED
      BY <3>2, <3>3 DEF OffPayables
  <2> QED
    BY <2>1 DEF OffPayables
<1>4. OffPayables(Wanted(p))
  <2>1. CASE at[p] = "reverse"
    <3>1. Wanted(p) = {Lock(Key(Ask[p].id), "update")} \cup {Lock(Cancels(Ask[p].entry), "update")}
      BY <2>1, WantedIs
    <3>2. OffPayables({Lock(Key(Ask[p].id), "update")})
      BY <1>1
    <3>3. OffPayables({Lock(Cancels(Ask[p].entry), "update")})
      BY <1>1
    <3>4. OffPayables({Lock(Key(Ask[p].id), "update")} \cup {Lock(Cancels(Ask[p].entry), "update")})
      BY <3>2, <3>3, TwoLocks
    <3> QED
      BY <3>1, <3>4
  <2>2. CASE at[p] = "cancel"
    <3> DEFINE C == {Lock(Cancels(e.id), "update") : e \in seen[p]}
    <3>1. Wanted(p) = {Lock(Key(ReversalId(p)), "update")} \cup C
      BY <2>2, WantedIs
    <3>2. OffPayables({Lock(Key(ReversalId(p)), "update")})
      BY <1>1
    <3> HIDE DEF C
    <3>3. OffPayables(C)
      BY <1>3 DEF C
    <3>4. OffPayables({Lock(Key(ReversalId(p)), "update")} \cup C)
      BY <3>2, <3>3, TwoLocks
    <3> QED
      BY <3>1, <3>4
  <2>3. CASE at[p] \notin {"reverse", "cancel"}
    BY <1>1, <1>2, <2>3, WantedIs DEF Plain
  <2> QED
    BY <2>1, <2>2, <2>3
<1> QED
  BY <1>4 DEF Harmless

\* A statement that ran, and the next one is s.
LEMMA Proceeds ==
    ASSUME TxInv, NEW p \in Session, NEW facts, NEW s, Writes(p, facts, s), Blockers(p) = {},
           seen' = [seen EXCEPT ![p] = seen'[p]], scene' = scene,
           at[p] \in Plain,
           s \notin {"done", "winner"}, RequestInv(p)'
    PROVE  TxInv' /\ db' = db
<1>1. Harmless(p)
  BY NoPayable
<1>2. at[p] # "done"
  BY DEF Plain
<1>3. TxInv'
  BY <1>1, <1>2, WritesKeep
<1> QED
  BY <1>3 DEF Writes

-----------------------------------------------------------------------------
(* POST /settlements *)

LEMMA OnlyRequest ==
    ASSUME NEW p \in Session, Ask' = Ask
    PROVE  /\ Ask[p].op = "settle" /\ SettleInv(p)' => RequestInv(p)'
           /\ Ask[p].op \in {"pago", "anticipo"} /\ EntryInv(p)' => RequestInv(p)'
           /\ Ask[p].op = "reverse" /\ ReverseInv(p)' => RequestInv(p)'
           /\ Ask[p].op \in {"delete", "correct"} /\ EditInv(p)' => RequestInv(p)'
BY DEF RequestInv

LEMMA Answers ==
    /\ {"created", "same", "lost", "error", "NOT_FOUND", "NOTHING_TO_SETTLE", "GROSS_CHANGED",
        "PAYABLE_ALREADY_CLAIMED", "IDEMPOTENCY_KEY_REUSED", "AMOUNT_EXCEEDS_BALANCE",
        "SETTLEMENT_ALREADY_VOID", "SETTLEMENT_NOT_VOID", "NOTHING_TO_RELEASE",
        "ALREADY_REVERSED", "WORK_RECORD_SETTLED"} \subseteq Answer \ {"running"}
BY DEF Answer

LEMMA Refuses ==
    ASSUME TxInv, NEW p \in Session, scene' = scene,
           \/ \E code \in {"error", "NOT_FOUND", "NOTHING_TO_SETTLE", "GROSS_CHANGED",
                           "PAYABLE_ALREADY_CLAIMED", "IDEMPOTENCY_KEY_REUSED",
                           "AMOUNT_EXCEEDS_BALANCE", "SETTLEMENT_ALREADY_VOID",
                           "SETTLEMENT_NOT_VOID", "NOTHING_TO_RELEASE", "ALREADY_REVERSED",
                           "WORK_RECORD_SETTLED"} : Refuse(p, code)
           \/ Same(p)
    PROVE  TxInv' /\ db' = db
<1>1. PICK o \in Answer \ {"running"} : Ends(p, db, o)
  BY Answers DEF Refuse, Same
<1> QED
  BY <1>1, EndsKeeps DEF Ends

LEMMA SettleFinds ==
    ASSUME TxInv, NEW p \in Session, scene' = scene, FindSettlement(p)
    PROVE  TxInv' /\ db' = db
<1>1. Ask[p].op = "settle" /\ at[p] = "find" /\ Blockers(p) = {} /\ SettleInv(p)
  BY Sessions DEF FindSettlement, At
<1>2. CASE Same(p)
  BY <1>2, Refuses
<1>3. CASE Then(p, "list") /\ UNCHANGED seen
  <2>1. /\ db' = db /\ at'[p] = "list" /\ draft'[p] = draft[p] /\ Ask' = Ask
    BY <1>1, <1>3, ThenIs, SeenStays
  <2>2. SettleInv(p)'
    BY <1>1, <2>1 DEF SettleInv
  <2>3. RequestInv(p)'
    BY <1>1, <2>1, <2>2, OnlyRequest
  <2> QED
    <3>1. Writes(p, Nothing, "list") /\ seen' = [seen EXCEPT ![p] = seen'[p]]
      BY <1>3, SeenStays DEF Then
    <3> QED
      BY <1>1, <2>3, <3>1, Proceeds DEF Plain
<1> QED
  BY <1>2, <1>3 DEF FindSettlement

LEMMA SettleLists ==
    ASSUME TxInv, NEW p \in Session, scene' = scene, ListPending(p)
    PROVE  TxInv' /\ db' = db
<1>1. /\ Ask[p].op = "settle" /\ at[p] = "list" /\ Blockers(p) = {} /\ SettleInv(p)
      /\ Ask[p].scope \subseteq Record
  BY Sessions, AskIs DEF ListPending, At, TxInv
<1>2. CASE Refuse(p, "NOTHING_TO_SETTLE") \/ Refuse(p, "GROSS_CHANGED")
  BY <1>2, Refuses
<1>3. CASE /\ LinesOf(p) # {} /\ Then(p, "insert")
           /\ seen' = [seen EXCEPT ![p] = LinesOf(p)]
  <2>1. seen'[p] = LinesOf(p) /\ seen' = [seen EXCEPT ![p] = seen'[p]]
    BY <1>3 DEF TxInv, Shapes
  <2>2. /\ db' = db /\ at'[p] = "insert" /\ draft'[p] = draft[p] /\ Ask' = Ask
    BY <1>1, <1>3, <2>1, ThenIs
  <2>3. draft[p] = Nothing /\ Nothing.line = {}
    BY <1>1 DEF SettleInv, Nothing
  <2>4. /\ LinesOf(p) \subseteq [settlement : {Ask[p].id}, record : Ask[p].scope, quantity : {1, 2}]
        /\ \A l, m \in LinesOf(p) : l.record = m.record => l = m
    <3>1. \A r : Quantity(db, r) \in {1, 2}
      BY DEF Quantity
    <3>2. Pending(db, Ask[p].scope) \subseteq Ask[p].scope
      BY DEF Pending
    <3> QED
      BY <3>1, <3>2 DEF LinesOf
  <2>5. SettleInv(p)'
    BY <1>1, <1>3, <2>1, <2>2, <2>3, <2>4 DEF SettleInv
  <2>6. RequestInv(p)'
    BY <1>1, <2>2, <2>5, OnlyRequest
  <2> QED
    <3>1. Writes(p, Nothing, "insert")
      BY <1>3 DEF Then
    <3> QED
      BY <1>1, <2>1, <2>6, <3>1, Proceeds DEF Plain
<1> QED
  BY <1>2, <1>3 DEF ListPending

LEMMA SettleInserts ==
    ASSUME TxInv, NEW p \in Session, scene' = scene, InsertSettlement(p)
    PROVE  TxInv' /\ db' = db
<1> DEFINE s == Ask[p].id
           facts == Facts("settlement", {s})
<1>1. Ask[p].op = "settle" /\ at[p] = "insert" /\ Blockers(p) = {} /\ SettleInv(p)
  BY Sessions DEF InsertSettlement, At
<1>2. CASE Same(p)
  BY <1>2, Refuses
<1>3. CASE s \notin db.settlement /\ Writes(p, facts, "share") /\ UNCHANGED seen
  <2>1. /\ db' = db /\ at'[p] = "share" /\ Ask' = Ask /\ draft'[p] = Both(draft[p], facts)
        /\ Holds(p, Key(s), "update")'
    <3>1. Lock(Key(s), "update") \in Wanted(p)
      BY <1>1, WantedIs
    <3> QED
      BY <1>1, <1>3, <3>1, WritesIs, SeenStays
  <2>2. seen'[p] = seen[p]
    BY <1>3, SeenStays
  <2>3. draft[p] = Nothing
    BY <1>1 DEF SettleInv
  <2>4. facts = [Nothing EXCEPT !.settlement = {s}]
    BY FactsAre
  <2>5. /\ draft'[p] = [settlement |-> {s}, void |-> {}, line |-> {}, freed |-> {},
                        ledger |-> {}, gone |-> {}, corrected |-> {}, release |-> {}]
        /\ draft'[p].line = {} /\ draft'[p].ledger = {}
    <3> HIDE DEF facts
    <3>1. \A S : S \cup {} = S /\ {} \cup S = S
      OBVIOUS
    <3>2. Both(Nothing, facts) =
            [settlement |-> {} \cup {s}, void |-> {} \cup {}, line |-> {} \cup {},
             freed |-> {} \cup {}, ledger |-> {} \cup {}, gone |-> {} \cup {},
             corrected |-> {} \cup {}, release |-> {} \cup {}]
      BY <2>4, BothIs DEF Nothing
    <3> QED
      BY <2>1, <2>3, <3>1, <3>2
  <2>6. seen[p] \cup draft[p].line = seen[p] \cup {}
    BY <2>3 DEF Nothing
  <2>7. SettleInv(p)'
    BY <1>1, <1>3, <2>1, <2>2, <2>5, <2>6 DEF SettleInv
  <2>8. RequestInv(p)'
    BY <1>1, <2>1, <2>7, OnlyRequest
  <2> QED
    <3>1. seen' = [seen EXCEPT ![p] = seen'[p]]
      BY <1>3, SeenStays
    <3>2. Writes(p, facts, "share") /\ Blockers(p) = {} /\ at[p] \in Plain
      BY <1>1, <1>3 DEF Plain
    <3> HIDE DEF facts
    <3> QED
      BY <2>8, <3>1, <3>2, Proceeds
<1> QED
  BY <1>2, <1>3 DEF InsertSettlement

LEMMA NextLineIs ==
    ASSUME NEW p, seen[p] # {}, \A l \in seen[p] : l.record \in Record
    PROVE  NextLine(p) \in seen[p]
<1> DEFINE T == {l.record : l \in seen[p]}
<1>1. T \subseteq Nat /\ T # {}
  BY RecordAssumption
<1>2. PICK n \in T : \A m \in T : n <= m
  BY <1>1, LeastNumber
<1>3. \E l \in seen[p] : \A m \in seen[p] : l.record <= m.record
  BY <1>2
<1> QED
  BY <1>3 DEF NextLine

\* The claim lost the race: the transaction is gone, and asks for the winner.
LEMMA ClaimAborts ==
    ASSUME TxInv, NEW p \in Session, scene' = scene, Ask[p].op = "settle", at[p] = "claim",
           draft' = [draft EXCEPT ![p] = Nothing], held' = [held EXCEPT ![p] = {}],
           at' = [at EXCEPT ![p] = "winner"], UNCHANGED <<db, seen, outcome>>
    PROVE  TxInv' /\ db' = db
<1>1. Shapes /\ SessionInv(p)
  BY DEF TxInv
<1>2. /\ draft'[p] = Nothing /\ held'[p] = {} /\ at'[p] = "winner"
      /\ outcome' = outcome /\ db' = db /\ \A q \in Session \ {p} : SameSession(q)
  BY <1>1 DEF Shapes, SameSession
<1>3. Shapes'
  <2>1. IsDraft(Nothing)
    BY DEF IsDraft, Nothing
  <2>2. \A q \in Session : IsDraft(draft'[q])
    BY <1>1, <1>2, <2>1 DEF Shapes, SameSession
  <2>3. /\ draft' = [q \in Session |-> draft'[q]] /\ held' = [q \in Session |-> held'[q]]
        /\ at' = [q \in Session |-> at'[q]] /\ seen' = [q \in Session |-> seen'[q]]
        /\ outcome' \in [Session -> Answer]
    BY <1>1 DEF Shapes
  <2> QED
    BY <2>2, <2>3 DEF Shapes
<1>4. \A q \in Session \ {p} : Apart(p, q)'
  BY <1>2 DEF Apart
<1>5. Ask'[p].op = "settle"
  BY DEF Ask
<1>6. PayablesLocked(p)'
  BY <1>2 DEF PayablesLocked, Holds
<1>7. RequestInv(p)'
  BY <1>2, <1>5 DEF RequestInv, SettleInv
<1>8. SessionInv(p)'
  BY <1>1, <1>2, <1>6, <1>7 DEF SessionInv
<1> QED
  BY <1>2, <1>3, <1>4, <1>8, OneSession

\* Its index entry is the session's now, and nobody had it.
LEMMA ClaimTakes ==
    ASSUME TxInv, NEW p \in Session, scene' = scene, Ask[p].op = "settle", at[p] = "claim",
           Blockers(p) = {}, ~IsSettled(db, NextLine(p).record),
           NEW s \in {"claim", "credit"},
           s = IF seen[p] \ {NextLine(p)} = {} THEN "credit" ELSE "claim",
           Writes(p, Facts("line", {NextLine(p)}), s),
           seen' = [seen EXCEPT ![p] = seen[p] \ {NextLine(p)}]
    PROVE  TxInv' /\ db' = db
<1> DEFINE n == NextLine(p)
           D == draft[p]
           id == Ask[p].id
           facts == Facts("line", {n})
<1>1. SettleInv(p) /\ SessionInv(p) /\ Ask[p].scope \subseteq Record
  BY Sessions, AskIs DEF TxInv
<1>2. /\ seen[p] # {} /\ D.ledger = {} /\ SharesWorker(p)
      /\ seen[p] \cup D.line \subseteq
            [settlement : {id}, record : Ask[p].scope, quantity : {1, 2}]
      /\ \A l, m \in seen[p] \cup D.line : l.record = m.record => l = m
      /\ D = [settlement |-> {id}, void |-> {}, line |-> D.line, freed |-> {},
              ledger |-> D.ledger, gone |-> {}, corrected |-> {}, release |-> {}]
      /\ id \notin db.settlement /\ Holds(p, Key(id), "update")
      /\ \A l \in D.line :
            ~IsSettled(db, l.record) /\ Holds(p, Payable(l.record), "update")
  BY <1>1 DEF SettleInv
<1>3. n \in seen[p]
  BY <1>1, <1>2, NextLineIs
<1>4. /\ seen' = [seen EXCEPT ![p] = seen'[p]] /\ seen'[p] = seen[p] \ {n}
  BY DEF TxInv, Shapes
<1>5. /\ db' = db /\ at'[p] = s /\ outcome'[p] = outcome[p] /\ Ask' = Ask
      /\ draft'[p] = Both(D, facts)
      /\ held'[p] = held[p] \cup Wanted(p)
      /\ \A what, mode :
            Holds(p, what, mode)' <=> Holds(p, what, mode) \/ Lock(what, mode) \in Wanted(p)
      /\ SessionInv(p)' => TxInv'
  <2>1. Writes(p, facts, s) /\ seen' = [seen EXCEPT ![p] = seen'[p]]
    BY <1>4
  <2> HIDE DEF facts, n
  <2> QED
    BY <2>1, WritesIs
<1>6. Wanted(p) = {Lock(Payable(n.record), "update")}
  BY WantedIs
<1>17. PICK rec : rec = n.record
  OBVIOUS
<1>7. /\ \A what, mode : Holds(p, what, mode) => Holds(p, what, mode)'
      /\ Holds(p, Payable(rec), "update")'
  <2>1. Lock(Payable(rec), "update") \in Wanted(p)
    BY <1>6, <1>17
  <2> QED
    BY <1>5, <2>1
<1>8. PayablesLocked(p)'
  <2>1. ASSUME NEW r \in Record, NEW m \in {"share", "edit", "update"},
               Lock(Payable(r), m) \in Wanted(p)
        PROVE  ~IsSettled(db, r)
    <3>1. Payable(r) = Payable(n.record)
      BY <1>6, <2>1, LocksDiffer
    <3>2. r = n.record
      BY <3>1 DEF Payable
    <3> QED
      BY <3>2
  <2>2. PayablesLocked(p)
    BY <1>1 DEF SessionInv
  <2>3. \A r \in Record, m \in {"share", "edit", "update"} : Holds(p, Payable(r), m)' =>
          ~IsSettled(db, r)
    BY <1>5, <2>1, <2>2 DEF PayablesLocked
  <2> QED
    BY <1>5, <2>3 DEF PayablesLocked
<1>9. /\ draft'[p] = [settlement |-> {id}, void |-> {}, line |-> D.line \cup {n}, freed |-> {},
                      ledger |-> {}, gone |-> {}, corrected |-> {}, release |-> {}]
      /\ draft'[p].line = D.line \cup {n} /\ draft'[p].ledger = {}
  <2>1. \A S : S \cup {} = S
    OBVIOUS
  <2>2. facts.settlement = {} /\ facts.void = {} /\ facts.line = {n} /\ facts.freed = {}
        /\ facts.ledger = {} /\ facts.gone = {} /\ facts.corrected = {} /\ facts.release = {}
    BY FactsAre DEF Nothing
  <2>3. D.settlement = {id} /\ D.void = {} /\ D.freed = {} /\ D.gone = {} /\ D.corrected = {}
        /\ D.release = {} /\ D.ledger = {}
    <3> DEFINE L == D.line
               E == D.ledger
    <3>1. D = [settlement |-> {id}, void |-> {}, line |-> L, freed |-> {},
               ledger |-> E, gone |-> {}, corrected |-> {}, release |-> {}] /\ E = {}
      BY <1>2
    <3> HIDE DEF L, D, id
    <3>2. D.ledger = E
      BY <3>1
    <3> QED
      BY <3>1, <3>2
  <2> HIDE DEF facts, D, n, id
  <2>4. Both(D, facts) =
          [settlement |-> {id} \cup {}, void |-> {} \cup {}, line |-> D.line \cup {n},
           freed |-> {} \cup {}, ledger |-> {} \cup {}, gone |-> {} \cup {},
           corrected |-> {} \cup {}, release |-> {} \cup {}]
    BY <2>2, <2>3, BothIs
  <2> QED
    BY <1>5, <2>1, <2>4
<1>10. /\ seen'[p] \cup draft'[p].line = seen[p] \cup D.line
       /\ s = "credit" => seen'[p] = {}
       /\ s = "claim" => seen'[p] # {}
       /\ draft'[p].line # {}
  BY <1>3, <1>4, <1>9
<1>11. \A l \in draft'[p].line :
          ~IsSettled(db, l.record) /\ Holds(p, Payable(l.record), "update")'
  <2>1. ASSUME NEW l, l \in D.line \cup {n}
        PROVE  ~IsSettled(db, l.record) /\ Holds(p, Payable(l.record), "update")'
    <3>1. CASE l = n
      BY <1>7, <1>17, <3>1
    <3>2. CASE l \in D.line
      BY <1>2, <1>7, <3>2
    <3> QED
      BY <2>1, <3>1, <3>2
  <2> HIDE DEF D, n
  <2> QED
    BY <1>9, <2>1
<1>12. SharesWorker(p)' /\ Holds(p, Key(id), "update")'
  <2>1. Holds(p, Key(id), "update")'
    BY <1>2, <1>5, <1>7
  <2> QED
    BY <1>2, <1>7, <2>1 DEF SharesWorker
<1>13. SettleInv(p)'
  <2> HIDE DEF D
  <2>1. /\ draft'[p] = [settlement |-> {id}, void |-> {}, line |-> draft'[p].line, freed |-> {},
                        ledger |-> draft'[p].ledger, gone |-> {}, corrected |-> {},
                        release |-> {}]
        /\ draft'[p].ledger = {}
    BY <1>9
  <2>2. /\ seen'[p] \cup draft'[p].line \subseteq
              [settlement : {id}, record : Ask[p].scope, quantity : {1, 2}]
        /\ \A l, m \in seen'[p] \cup draft'[p].line : l.record = m.record => l = m
    BY <1>2, <1>10
  <2> QED
    BY <1>2, <1>5, <1>10, <1>11, <1>12, <2>1, <2>2 DEF SettleInv
<1>14. RequestInv(p)'
  BY <1>5, <1>13, OnlyRequest
<1>15. \A x \in Wanted(p) : IsLock(x)
  BY <1>6, LocksDiffer DEF IsLock
<1>16. SessionInv(p)'
  BY <1>1, <1>5, <1>8, <1>14, <1>15 DEF SessionInv
<1> QED
  BY <1>5, <1>16

LEMMA SettleClaims ==
    ASSUME TxInv, NEW p \in Session, scene' = scene, ClaimPayable(p)
    PROVE  TxInv' /\ db' = db
<1>1. Ask[p].op = "settle" /\ at[p] = "claim" /\ Blockers(p) = {}
  BY DEF ClaimPayable, At
<1>2. CASE IsSettled(db, NextLine(p).record)
  BY <1>1, <1>2, ClaimAborts DEF ClaimPayable
<1>3. CASE ~IsSettled(db, NextLine(p).record)
  <2>1. PICK s \in {"claim", "credit"} :
           s = IF seen[p] \ {NextLine(p)} = {} THEN "credit" ELSE "claim"
    OBVIOUS
  <2>2. /\ Writes(p, Facts("line", {NextLine(p)}), s)
        /\ seen' = [seen EXCEPT ![p] = seen[p] \ {NextLine(p)}]
    BY <1>3, <2>1 DEF ClaimPayable
  <2> QED
    BY <1>1, <1>3, <2>1, <2>2, ClaimTakes
<1> QED
  BY <1>2, <1>3

LEMMA SettleCredits ==
    ASSUME TxInv, NEW p \in Session, scene' = scene, CreditWorker(p)
    PROVE  TxInv' /\ db' = db
<1> DEFINE D == draft[p]
           id == Ask[p].id
           n == [id |-> DevengoOf(id), kind |-> "devengo", amount |-> Gross(D.line),
                 settlement |-> id, reverses |-> None]
           facts == Facts("ledger", {n})
<1>1. Ask[p].op = "settle" /\ at[p] = "credit" /\ Blockers(p) = {} /\ SettleInv(p)
  BY Sessions DEF CreditWorker, At
<1>2. Writes(p, facts, "commit") /\ UNCHANGED seen
  BY DEF CreditWorker
<1>3. /\ db' = db /\ at'[p] = "commit" /\ Ask' = Ask /\ draft'[p] = Both(D, facts)
      /\ \A what, mode : Holds(p, what, mode) => Holds(p, what, mode)'
      /\ seen'[p] = seen[p] /\ seen' = [seen EXCEPT ![p] = seen'[p]]
  <2>1. seen'[p] = seen[p] /\ seen' = [seen EXCEPT ![p] = seen'[p]]
    BY <1>2, SeenStays
  <2> HIDE DEF facts
  <2> QED
    BY <1>1, <1>2, <2>1, WritesIs
<1>4. /\ seen[p] = {} /\ D.line # {} /\ D.ledger = {} /\ SharesWorker(p)
      /\ seen[p] \cup D.line \subseteq
            [settlement : {id}, record : Ask[p].scope, quantity : {1, 2}]
      /\ \A l, m \in seen[p] \cup D.line : l.record = m.record => l = m
      /\ D = [settlement |-> {id}, void |-> {}, line |-> D.line, freed |-> {},
              ledger |-> D.ledger, gone |-> {}, corrected |-> {}, release |-> {}]
      /\ id \notin db.settlement /\ Holds(p, Key(id), "update")
      /\ \A l \in D.line :
            ~IsSettled(db, l.record) /\ Holds(p, Payable(l.record), "update")
  BY <1>1 DEF SettleInv
<1>5. /\ draft'[p] = [settlement |-> {id}, void |-> {}, line |-> D.line, freed |-> {},
                      ledger |-> {n}, gone |-> {}, corrected |-> {}, release |-> {}]
      /\ draft'[p].line = D.line /\ draft'[p].ledger = {n}
  <2>1. \A S : S \cup {} = S /\ {} \cup S = S
    OBVIOUS
  <2>2. facts.settlement = {} /\ facts.void = {} /\ facts.line = {} /\ facts.freed = {}
        /\ facts.ledger = {n} /\ facts.gone = {} /\ facts.corrected = {} /\ facts.release = {}
    <3> HIDE DEF n
    <3> QED
      BY FactsAre DEF Nothing
  <2>3. D.settlement = {id} /\ D.void = {} /\ D.freed = {} /\ D.gone = {} /\ D.corrected = {}
        /\ D.release = {} /\ D.ledger = {}
    <3> DEFINE L == D.line
               E == D.ledger
    <3>1. D = [settlement |-> {id}, void |-> {}, line |-> L, freed |-> {},
               ledger |-> E, gone |-> {}, corrected |-> {}, release |-> {}] /\ E = {}
      BY <1>4
    <3> HIDE DEF L, D, id
    <3>2. D.ledger = E
      BY <3>1
    <3> QED
      BY <3>1, <3>2
  <2> HIDE DEF facts, D, n, id
  <2>4. Both(D, facts) =
          [settlement |-> {id} \cup {}, void |-> {} \cup {}, line |-> D.line \cup {},
           freed |-> {} \cup {}, ledger |-> {} \cup {n}, gone |-> {} \cup {},
           corrected |-> {} \cup {}, release |-> {} \cup {}]
    BY <2>2, <2>3, BothIs
  <2> QED
    BY <1>3, <2>1, <2>4
<1>6. SharesWorker(p)' /\ Holds(p, Key(id), "update")'
      /\ \A l \in draft'[p].line : Holds(p, Payable(l.record), "update")'
  BY <1>3, <1>4, <1>5 DEF SharesWorker
<1>7. SettleInv(p)'
  <2>1. /\ draft'[p] = [settlement |-> {id}, void |-> {}, line |-> draft'[p].line, freed |-> {},
                        ledger |-> draft'[p].ledger, gone |-> {}, corrected |-> {},
                        release |-> {}]
        /\ draft'[p].line # {}
        /\ draft'[p].ledger = {[id |-> DevengoOf(id), kind |-> "devengo",
                                amount |-> Gross(draft'[p].line),
                                settlement |-> id, reverses |-> None]}
    <3> HIDE DEF D
    <3> QED
      BY <1>4, <1>5
  <2>2. /\ seen'[p] \cup draft'[p].line \subseteq
              [settlement : {id}, record : Ask[p].scope, quantity : {1, 2}]
        /\ \A l, m \in seen'[p] \cup draft'[p].line : l.record = m.record => l = m
        /\ \A l \in draft'[p].line : ~IsSettled(db, l.record)
        /\ seen'[p] = {} /\ id \notin db.settlement
    BY <1>3, <1>4, <1>5
  <2> HIDE DEF n, D, facts
  <2> QED
    BY <1>3, <1>6, <2>1, <2>2 DEF SettleInv
<1>8. RequestInv(p)'
  BY <1>1, <1>3, <1>7, OnlyRequest
<1> HIDE DEF facts
<1> QED
  BY <1>1, <1>2, <1>3, <1>8, Proceeds DEF Plain

LEMMA ThenProceeds ==
    ASSUME TxInv, NEW p \in Session, NEW s, Then(p, s), Blockers(p) = {}, UNCHANGED seen,
           scene' = scene, at[p] \in Plain, s \notin {"done", "winner"}, RequestInv(p)'
    PROVE  TxInv' /\ db' = db
<1>1. Writes(p, Nothing, s) /\ seen' = [seen EXCEPT ![p] = seen'[p]]
  BY SeenStays DEF Then
<1> QED
  BY <1>1, Proceeds

\* What a statement that only reads or locks changes.
LEMMA ThenChanges ==
    ASSUME TxInv, NEW p \in Session, NEW s, Then(p, s), Blockers(p) = {}, UNCHANGED seen,
           scene' = scene
    PROVE  /\ db' = db /\ at'[p] = s /\ draft'[p] = draft[p] /\ Ask' = Ask /\ Ask'[p] = Ask[p]
           /\ seen'[p] = seen[p]
           /\ \A what, mode : Holds(p, what, mode) => Holds(p, what, mode)'
           /\ \A what, mode : Lock(what, mode) \in Wanted(p) => Holds(p, what, mode)'
           /\ SharesWorker(p) => SharesWorker(p)'
<1>1. seen'[p] = seen[p] /\ seen' = [seen EXCEPT ![p] = seen'[p]]
  BY SeenStays
<1>2. /\ db' = db /\ at'[p] = s /\ draft'[p] = draft[p] /\ Ask' = Ask
      /\ \A what, mode :
            Holds(p, what, mode)' <=> Holds(p, what, mode) \/ Lock(what, mode) \in Wanted(p)
  BY <1>1, ThenIs
<1> QED
  BY <1>1, <1>2 DEF SharesWorker

LEMMA ShareIs ==
    ASSUME NEW p \in Session, ShareReferenced(p)
    PROVE  /\ at[p] = "share" /\ Blockers(p) = {} /\ UNCHANGED seen
           /\ Ask[p].op \in {"settle", "void", "release", "reverse"}
           /\ Ask[p].op = "settle" => Then(p, "claim")
           /\ Ask[p].op = "release" => Then(p, "log")
           /\ Ask[p].op = "void" => Then(p, "commit")
           /\ Ask[p].op = "reverse" => Then(p, "share settlement") \/ Then(p, "commit")
BY DEF ShareReferenced, At

\* The session has the worker's row from now on.
LEMMA ShareTaken ==
    ASSUME NEW p, at[p] = "share", \A what, mode : Lock(what, mode) \in Wanted(p)
                                                     => Holds(p, what, mode)'
    PROVE  SharesWorker(p)'
<1>1. Lock(Employee, "share") \in Wanted(p)
  BY WantedIs
<1>2. Holds(p, Employee, "share")'
  BY <1>1
<1> QED
  BY <1>2 DEF SharesWorker

LEMMA SettleShares ==
    ASSUME TxInv, NEW p \in Session, scene' = scene, ShareReferenced(p), Ask[p].op = "settle"
    PROVE  TxInv' /\ db' = db
<1>1. /\ at[p] = "share" /\ Blockers(p) = {} /\ UNCHANGED seen /\ Then(p, "claim")
      /\ SettleInv(p)
  BY Sessions, ShareIs
<1>2. /\ db' = db /\ at'[p] = "claim" /\ draft'[p] = draft[p] /\ Ask' = Ask
      /\ Ask'[p] = Ask[p] /\ seen'[p] = seen[p]
      /\ \A what, mode : Holds(p, what, mode) => Holds(p, what, mode)'
      /\ \A what, mode : Lock(what, mode) \in Wanted(p) => Holds(p, what, mode)'
  BY <1>1, ThenChanges
<1>3. SharesWorker(p)'
  BY <1>1, <1>2, ShareTaken
<1>4. SettleInv(p)'
  BY <1>1, <1>2, <1>3 DEF SettleInv
<1>5. RequestInv(p)'
  BY <1>2, <1>4, OnlyRequest
<1>6. at[p] \in Plain
  BY <1>1 DEF Plain
<1> QED
  BY <1>1, <1>5, <1>6, ThenProceeds

-----------------------------------------------------------------------------
(* POST /payments, /advances, /deductions, /adjustments *)

LEMMA EntryFinds ==
    ASSUME TxInv, NEW p \in Session, scene' = scene,
           FindLedgerEntry(p) \/ LockForEntry(p) \/ CheckBalance(p)
    PROVE  TxInv' /\ db' = db
<1>1. /\ Ask[p].op \in {"pago", "anticipo"} /\ Blockers(p) = {} /\ EntryInv(p)
      /\ at[p] \in {"find", "lock employee", "check"} /\ at[p] \in Plain
      /\ Ask[p].amount \in Nat
  BY Sessions, AskIs DEF FindLedgerEntry, LockForEntry, CheckBalance, At, Plain, TxInv
<1>2. ASSUME NEW s \in {"lock employee", "check", "post"}, Then(p, s), UNCHANGED seen,
             s \in {"check", "post"} =>
                \/ at[p] = "check"
                \/ at[p] = "lock employee" /\ (s = "post" => Ask[p].op # "pago"),
             s = "post" /\ Ask[p].op = "pago" => Ask[p].amount <= Balance(db)
      PROVE  TxInv' /\ db' = db
  <2>1. /\ db' = db /\ at'[p] = s /\ draft'[p] = draft[p] /\ Ask' = Ask
        /\ Ask'[p] = Ask[p] /\ seen'[p] = seen[p]
        /\ \A what, mode : Holds(p, what, mode) => Holds(p, what, mode)'
        /\ \A what, mode : Lock(what, mode) \in Wanted(p) => Holds(p, what, mode)'
    BY <1>1, <1>2, ThenChanges
  <2>2. s \in {"check", "post"} => Holds(p, Employee, "update")'
    <3>1. CASE at[p] = "lock employee"
      <4>1. Lock(Employee, "update") \in Wanted(p)
        BY <3>1, WantedIs
      <4> QED
        BY <2>1, <4>1
    <3>2. CASE at[p] = "check"
      <4>1. Holds(p, Employee, "update")
        BY <1>1, <3>2 DEF EntryInv
      <4> QED
        BY <2>1, <4>1
    <3> QED
      BY <1>2, <3>1, <3>2
  <2>3. EntryInv(p)'
    BY <1>1, <1>2, <2>1, <2>2 DEF EntryInv
  <2>4. RequestInv(p)'
    BY <1>1, <2>1, <2>3, OnlyRequest
  <2> QED
    BY <1>1, <1>2, <2>4, ThenProceeds
<1>3. CASE FindLedgerEntry(p)
  <2>1. Then(p, "lock employee") /\ UNCHANGED seen => TxInv' /\ db' = db
    BY <1>2
  <2>2. AnswerTaken(p) => TxInv' /\ db' = db
    BY Refuses DEF AnswerTaken
  <2> QED
    BY <1>3, <2>1, <2>2 DEF FindLedgerEntry
<1>4. CASE LockForEntry(p)
  <2>1. PICK s \in {"check", "post"} : s = IF Ask[p].op = "pago" THEN "check" ELSE "post"
    OBVIOUS
  <2>2. Then(p, s) /\ UNCHANGED seen /\ at[p] = "lock employee"
    BY <1>4, <2>1 DEF LockForEntry, At
  <2> QED
    BY <1>2, <2>1, <2>2
<1>5. CASE CheckBalance(p)
  <2>1. CASE Ask[p].amount > Balance(db)
    BY <1>5, <2>1, Refuses DEF CheckBalance
  <2>2. CASE ~(Ask[p].amount > Balance(db))
    <3>1. Balance(db) \in Int
      BY MovementIs, OwedIsInt DEF TxInv, InOrder, Balance
    <3>2. Ask[p].amount <= Balance(db)
      <4>1. \A x, y \in Int : ~(x > y) => x <= y
        OBVIOUS
      <4>2. Ask[p].amount \in Int
        <5>1. \A x \in Nat : x \in Int
          OBVIOUS
        <5>2. Ask[p].amount \in Nat
          BY <1>1
        <5> QED
          BY <5>1, <5>2
      <4> QED
        BY <2>2, <3>1, <4>1, <4>2
    <3>3. Then(p, "post") /\ UNCHANGED seen /\ at[p] = "check"
      BY <1>5, <2>2 DEF CheckBalance, At
    <3> QED
      BY <1>2, <3>2, <3>3
  <2> QED
    BY <2>1, <2>2
<1> QED
  BY <1>3, <1>4, <1>5

LEMMA EntryPosts ==
    ASSUME TxInv, NEW p \in Session, scene' = scene, AddLedgerEntry(p)
    PROVE  TxInv' /\ db' = db
<1> DEFINE a == Ask[p]
           n == [id |-> a.id, kind |-> a.op, amount |-> -a.amount,
                 settlement |-> None, reverses |-> None]
           facts == Facts("ledger", {n})
<1>1. /\ Ask[p].op \in {"pago", "anticipo"} /\ Blockers(p) = {} /\ EntryInv(p)
      /\ at[p] = "post" /\ at[p] \in Plain
  BY Sessions DEF AddLedgerEntry, At, Plain
<1>2. CASE HasId(db, a.id)
  BY <1>2, Refuses DEF AddLedgerEntry, AnswerTaken
<1>3. CASE ~HasId(db, a.id)
  <2>1. Writes(p, facts, "commit") /\ UNCHANGED seen
    BY <1>3 DEF AddLedgerEntry
  <2>2. seen' = [seen EXCEPT ![p] = seen'[p]]
    BY <2>1, SeenStays
  <2>3. /\ db' = db /\ at'[p] = "commit" /\ Ask' = Ask /\ draft'[p] = Both(draft[p], facts)
        /\ \A what, mode : Holds(p, what, mode)' <=>
              Holds(p, what, mode) \/ Lock(what, mode) \in Wanted(p)
    <3> HIDE DEF facts
    <3> QED
      BY <1>1, <2>1, <2>2, WritesIs
  <2>4. draft'[p] = facts
    BY <1>1, <2>3, WithNothing DEF EntryInv
  <2>5. Lock(Key(a.id), "update") \in Wanted(p)
    BY <1>1, WantedIs
  <2>6. Holds(p, Key(a.id), "update")' /\ Holds(p, Employee, "update")'
    BY <1>1, <2>3, <2>5 DEF EntryInv
  <2>7. Reserved(p, a.id)'
    BY <1>3, <2>3, <2>6 DEF Reserved
  <2>8. EntryInv(p)'
    BY <1>1, <2>3, <2>4, <2>6, <2>7 DEF EntryInv
  <2>9. RequestInv(p)'
    BY <1>1, <2>3, <2>8, OnlyRequest
  <2> HIDE DEF facts
  <2> QED
    BY <1>1, <2>1, <2>2, <2>9, Proceeds
<1> QED
  BY <1>2, <1>3

-----------------------------------------------------------------------------
(* POST /settlements/{id}/void and /settlements/{id}/release *)

LEMMA UndoRequest ==
    ASSUME NEW p \in Session, NEW a, a = Ask'[p], a.op \in {"void", "release"}, UndoInv(p, a)'
    PROVE  RequestInv(p)'
<1>1. UndoInv(p, Ask[p])'
  BY DEF UndoInv
<1> QED
  BY <1>1 DEF RequestInv

\* The rows the two requests look at before they write.
LEMMA UndoLooks ==
    ASSUME TxInv, NEW p \in Session, scene' = scene,
           LockForVoid(p) \/ PriorRelease(p) \/ LockForRelease(p) \/ LockEmployeeForRelease(p)
    PROVE  TxInv' /\ db' = db
<1>1. PICK a : a = Ask[p]
  OBVIOUS
<1>2. /\ a.op \in {"void", "release"} /\ Blockers(p) = {} /\ UndoInv(p, a)
      /\ at[p] \in {"find", "lock", "lock employee"} /\ at[p] \in Plain
  BY <1>1, Sessions DEF LockForVoid, PriorRelease, LockForRelease, LockEmployeeForRelease,
                        At, Plain
<1>3. ASSUME NEW s \in {"lock", "lock employee", "free"}, Then(p, s), UNCHANGED seen,
             a.op = "void" => s = "free",
             s = "lock" => at[p] = "find",
             s \in {"lock employee", "free"} =>
                \/ at[p] = "lock" /\ a.settlement \in db.settlement
                   /\ (a.op = "release" => a.settlement \in db.void /\ s = "lock employee")
                \/ at[p] = "lock employee" /\ s = "free"
      PROVE  TxInv' /\ db' = db
  <2>1. /\ db' = db /\ at'[p] = s /\ draft'[p] = draft[p] /\ Ask' = Ask
        /\ Ask'[p] = Ask[p] /\ seen'[p] = seen[p]
        /\ \A what, mode : Holds(p, what, mode) => Holds(p, what, mode)'
        /\ \A what, mode : Lock(what, mode) \in Wanted(p) => Holds(p, what, mode)'
    BY <1>2, <1>3, ThenChanges
  <2>2. s \in {"lock employee", "free"} =>
           /\ a.settlement \in db.settlement /\ (a.op = "release" => a.settlement \in db.void)
           /\ Holds(p, Row(a.settlement), "update")'
    <3>1. CASE at[p] = "lock"
      <4>1. Lock(Row(a.settlement), "update") \in Wanted(p)
        BY <1>1, <3>1, WantedIs
      <4> QED
        BY <1>3, <2>1, <3>1, <4>1
    <3>2. CASE at[p] = "lock employee"
      BY <1>2, <2>1, <3>2 DEF UndoInv
    <3> QED
      BY <1>3, <3>1, <3>2
  <2>3. a.op = "release" /\ s = "free" => Holds(p, Employee, "update")'
    <3>1. at[p] = "lock employee" => Lock(Employee, "update") \in Wanted(p)
      BY WantedIs
    <3> QED
      BY <1>3, <2>1, <3>1
  <2>4. UndoInv(p, a)'
    BY <1>2, <1>3, <2>1, <2>2, <2>3 DEF UndoInv
  <2>5. RequestInv(p)'
    BY <1>1, <1>2, <2>1, <2>4, UndoRequest
  <2>6. s \notin {"done", "winner"}
    OBVIOUS
  <2> QED
    BY <1>2, <1>3, <2>5, <2>6, ThenProceeds
<1>4. CASE LockForVoid(p)
  <2>1. /\ at[p] = "lock" /\ a.op = "void"
        /\ \/ Refuse(p, "NOT_FOUND") \/ VoidRetry(p)
           \/ /\ a.settlement \in db.settlement \ db.void
              /\ Then(p, "free") /\ UNCHANGED seen
    BY <1>1, <1>4 DEF LockForVoid, At
  <2>2. VoidRetry(p) => TxInv' /\ db' = db
    BY Refuses DEF VoidRetry
  <2> QED
    BY <1>3, <2>1, <2>2, Refuses
<1>5. CASE PriorRelease(p)
  <2>1. /\ at[p] = "find" /\ a.op = "release"
        /\ \/ Same(p) \/ Refuse(p, "IDEMPOTENCY_KEY_REUSED")
           \/ Then(p, "lock") /\ UNCHANGED seen
    BY <1>1, <1>5 DEF PriorRelease, At
  <2> QED
    BY <1>3, <2>1, Refuses
<1>6. CASE LockForRelease(p)
  <2>1. /\ at[p] = "lock" /\ a.op = "release"
        /\ \/ Refuse(p, "NOT_FOUND") \/ Refuse(p, "SETTLEMENT_NOT_VOID")
           \/ /\ a.settlement \in db.void
              /\ Then(p, "lock employee") /\ UNCHANGED seen
    BY <1>1, <1>6 DEF LockForRelease, At
  <2>2. db.void \subseteq db.settlement
    BY DEF TxInv, InOrder
  <2> QED
    BY <1>3, <2>1, <2>2, Refuses
<1>7. CASE LockEmployeeForRelease(p)
  <2>1. at[p] = "lock employee" /\ a.op = "release" /\ Then(p, "free") /\ UNCHANGED seen
    BY <1>1, <1>7 DEF LockEmployeeForRelease, At
  <2> QED
    BY <1>3, <2>1
<1> QED
  BY <1>4, <1>5, <1>6, <1>7

\* What the undoing of a settlement frees is locked by nobody else: the claim of
\* a settlement found it free, and another undoing would hold the settlement.
LEMMA FreedIsOurs ==
    ASSUME TxInv, NEW p \in Session, NEW q \in Session, p # q, NEW s,
           Holds(p, Row(s), "update"), NEW l \in LinesIn(db, s), NEW y \in held[q]
    PROVE  y.what # Payable(l.record)
<1> SUFFICES ASSUME y.what = Payable(l.record) PROVE FALSE
  OBVIOUS
<1>1. SessionInv(q) /\ Apart(p, q)
  BY DEF TxInv
<1>2. IsLock(y)
  BY <1>1 DEF SessionInv
<1>3. l \in LiveLines(db) /\ l.settlement = s /\ l.record \in Record /\ IsSettled(db, l.record)
  BY DEF LinesIn, LiveLines, IsSettled, TxInv, InOrder
<1>4. y.mode \in {"share", "edit", "update"} /\ Holds(q, Payable(l.record), y.mode)
  BY <1>2 DEF IsLock, Holds
<1>5. /\ Ask[q].op \in {"void", "release"} /\ Holds(q, Row(Ask[q].settlement), "update")
      /\ \E m \in LinesIn(db, Ask[q].settlement) : m.record = l.record
  BY <1>1, <1>3, <1>4 DEF SessionInv, PayablesLocked
<1>6. Ask[q].settlement = s
  BY <1>3, <1>5 DEF LinesIn, TxInv, InOrder
<1> QED
  BY <1>1, <1>5, <1>6, Exclusive

\* The devengo that is left to take back.
LEMMA ToReverseIs ==
    ASSUME InOrder(db), NEW p, Ask[p].settlement \in db.settlement
    PROVE  LET d == DevengoOf(Ask[p].settlement)
           IN  /\ HasId(db, d)
               /\ Reversed(db, d) => ToReverse(p) = {}
               /\ ~Reversed(db, d) => ToReverse(p) = {EntryOf(db, d)}
<1>1. Ask[p].settlement \in Settlement
  BY DEF InOrder
<1> QED
  BY <1>1, CreditIs DEF ToReverse

LEMMA UndoFrees ==
    ASSUME TxInv, NEW p \in Session, scene' = scene, Free(p)
    PROVE  TxInv' /\ db' = db
<1>1. PICK a : a = Ask[p]
  OBVIOUS
<1> DEFINE s == a.settlement
           L == LinesIn(db, s)
           F == FreedOf(db, s)
           R == ToReverse(p)
           V == IF a.op = "void" THEN {s} ELSE {}
           P == {Lock(Payable(l.record), "update") : l \in L}
           W == [settlement |-> {}, void |-> V, line |-> {}, freed |-> F, ledger |-> {},
                 gone |-> {}, corrected |-> {}, release |-> {}]
           t == IF R # {} THEN "cancel" ELSE IF a.op = "void" THEN "commit" ELSE "log"
<1>2. /\ a.op \in {"void", "release"} /\ at[p] = "free" /\ UndoInv(p, a) /\ SessionInv(p)
      /\ Shapes /\ InOrder(db)
  BY <1>1, Sessions DEF Free, At, TxInv
<1>3. /\ draft[p] = Nothing /\ s \in db.settlement /\ Holds(p, Row(s), "update")
      /\ a.op = "release" => s \in db.void /\ Holds(p, Employee, "update")
  BY <1>2 DEF UndoInv
<1>4. CASE Refuse(p, "NOTHING_TO_RELEASE")
  BY <1>4, Refuses
<1>5. CASE /\ draft' = [draft EXCEPT ![p] = [draft[p] EXCEPT !.freed = F, !.void = V]]
           /\ held' = [held EXCEPT ![p] = held[p] \cup P]
           /\ at' = [at EXCEPT ![p] = t]
           /\ seen' = [seen EXCEPT ![p] = R]
           /\ UNCHANGED <<db, outcome>>
  <2> HIDE DEF L, F, R, V, P, t
  <2>1. [Nothing EXCEPT !.freed = F, !.void = V] = W
    <3> DEFINE N == [Nothing EXCEPT !.freed = F]
               M == [N EXCEPT !.void = V]
    <3>1. N = [settlement |-> {}, void |-> {}, line |-> {}, freed |-> F, ledger |-> {},
               gone |-> {}, corrected |-> {}, release |-> {}]
      BY DEF Nothing
    <3> HIDE DEF N
    <3>2. M = W
      BY <3>1
    <3>3. [Nothing EXCEPT !.freed = F, !.void = V] = M
      BY DEF N
    <3> QED
      BY <3>2, <3>3
  <2> HIDE DEF W
  <2>2. /\ draft'[p] = W /\ held'[p] = held[p] \cup P /\ at'[p] = t /\ seen'[p] = R
        /\ db' = db /\ outcome' = outcome /\ \A q \in Session \ {p} : SameSession(q)
    BY <1>2, <1>3, <1>5, <2>1 DEF Shapes, SameSession
  <2>3. Shapes'
    <3>1. IsDraft(W)
      BY DEF IsDraft, W
    <3>2. \A q \in Session : IsDraft(draft'[q])
      BY <1>2, <2>2, <3>1 DEF Shapes, SameSession
    <3>3. /\ draft' = [q \in Session |-> draft'[q]] /\ held' = [q \in Session |-> held'[q]]
          /\ at' = [q \in Session |-> at'[q]] /\ seen' = [q \in Session |-> seen'[q]]
          /\ outcome' \in [Session -> Answer]
      BY <1>2, <1>5 DEF Shapes
    <3> QED
      BY <3>2, <3>3 DEF Shapes
  <2>4. ASSUME NEW q \in Session \ {p} PROVE Apart(p, q)'
    <3>1. Apart(p, q) /\ held'[q] = held[q]
      BY <2>2 DEF TxInv, SameSession
    <3>2. ASSUME NEW x \in P, NEW y \in held[q] PROVE x.what # y.what
      <4>1. PICK l \in L : x = Lock(Payable(l.record), "update")
        BY DEF P
      <4>2. x.what = Payable(l.record)
        BY <4>1, LocksDiffer
      <4>3. y.what # Payable(l.record)
        BY <1>3, FreedIsOurs DEF L
      <4> QED
        BY <4>2, <4>3
    <3>3. \A x \in held[p] \cup P, y \in held[q] :
             x.what = y.what => Compatible(x.mode, y.mode)
      BY <3>1, <3>2 DEF Apart
    <3> QED
      BY <2>2, <3>1, <3>3 DEF Apart
  <2>5. Ask' = Ask /\ a = Ask'[p]
    BY <1>1 DEF Ask
  <2>6. \A what, mode : Holds(p, what, mode) => Holds(p, what, mode)'
    BY <2>2 DEF Holds
  <2>7. PayablesLocked(p)'
    <3>1. ASSUME NEW r \in Record, NEW m \in {"share", "edit", "update"},
                 Lock(Payable(r), m) \in P
          PROVE  \E l \in L : l.record = r
      <4>1. PICK l \in L : Lock(Payable(r), m) = Lock(Payable(l.record), "update")
        BY <3>1 DEF P
      <4>2. Payable(r) = Payable(l.record)
        BY <4>1, LocksDiffer
      <4> QED
        BY <4>2 DEF Payable
    <3>2. PayablesLocked(p)
      BY <1>2 DEF SessionInv
    <3>3. Holds(p, Row(Ask[p].settlement), "update")'
      BY <1>1, <1>3, <2>5, <2>6
    <3>4. ASSUME NEW r \in Record, NEW m \in {"share", "edit", "update"}, Holds(p, Payable(r), m)'
          PROVE  \E l \in LinesIn(db, Ask[p].settlement) : l.record = r
      <4>1. CASE Lock(Payable(r), m) \in P
        BY <1>1, <3>1, <4>1 DEF L
      <4>2. CASE Holds(p, Payable(r), m)
        BY <1>1, <1>2, <3>2, <4>2 DEF PayablesLocked
      <4> QED
        BY <2>2, <3>4, <4>1, <4>2 DEF Holds
    <3> QED
      BY <1>1, <1>2, <2>2, <2>5, <3>3, <3>4 DEF PayablesLocked
  <2>8. UndoInv(p, a)'
    <3>1. /\ R # {} => R = {EntryOf(db, DevengoOf(s))}
          /\ R = {} => Reversed(db, DevengoOf(s))
      BY <1>1, <1>2, <1>3, ToReverseIs DEF R
    <3>2. /\ draft'[p] = [settlement |-> {}, void |-> IF a.op = "void" THEN {s} ELSE {},
                          line |-> {}, freed |-> FreedOf(db, s), ledger |-> draft'[p].ledger,
                          gone |-> {}, corrected |-> {}, release |-> draft'[p].release]
          /\ draft'[p].ledger = {}
      BY <2>2 DEF W, V, F
    <3>3. /\ at'[p] \in {"cancel", "log", "commit"}
          /\ a.op = "void" => at'[p] # "log"
          /\ at'[p] = "cancel" <=> R # {}
      BY <2>2 DEF t
    <3>4. Holds(p, Row(a.settlement), "update")'
          /\ (a.op = "release" => Holds(p, Employee, "update")')
      BY <1>3, <2>6
    <3> HIDE DEF s
    <3> QED
      BY <1>2, <1>3, <2>2, <3>1, <3>2, <3>3, <3>4 DEF UndoInv, s
  <2>9. RequestInv(p)'
    BY <1>2, <2>5, <2>8, UndoRequest
  <2>10. SessionInv(p)'
    <3>1. \A x \in P : IsLock(x)
      BY LocksDiffer DEF P, IsLock
    <3>2. at'[p] \notin {"done", "winner"}
      BY <2>2 DEF t
    <3> QED
      BY <1>2, <2>2, <2>7, <2>9, <3>1, <3>2 DEF SessionInv
  <2> QED
    BY <2>2, <2>3, <2>4, <2>10, OneSession
<1>6. F = {<<s, l.record>> : l \in L} /\ L = {l \in LiveLines(db) : l.settlement = s}
  BY DEF FreedOf, LinesIn
<1> QED
  BY <1>1, <1>4, <1>5, <1>6 DEF Free

\* What the undoing of a settlement has written, and one table more.
LEMMA UndoneAndMore ==
    ASSUME NEW D, NEW V, NEW F, NEW R, NEW table \in {"ledger", "release"},
           D = [settlement |-> {}, void |-> V, line |-> {}, freed |-> F, ledger |-> D.ledger,
                gone |-> {}, corrected |-> {}, release |-> D.release]
    PROVE  LET W == Both(D, Facts(table, R))
           IN  /\ W = [settlement |-> {}, void |-> V, line |-> {}, freed |-> F,
                       ledger |-> W.ledger, gone |-> {}, corrected |-> {},
                       release |-> W.release]
               /\ table = "ledger" => W.ledger = D.ledger \cup R
               /\ table = "release" => W.ledger = D.ledger
<1> DEFINE N == Facts(table, R)
<1>1. /\ N.settlement = {} /\ N.void = {} /\ N.line = {} /\ N.freed = {} /\ N.gone = {}
      /\ N.corrected = {}
      /\ table = "ledger" => N.ledger = R
      /\ table = "release" => N.ledger = {}
  BY FactsAre DEF Nothing
<1>2. /\ D.settlement = {} /\ D.void = V /\ D.line = {} /\ D.freed = F /\ D.gone = {}
      /\ D.corrected = {}
  <2> DEFINE E == D.ledger
             L == D.release
  <2>1. D = [settlement |-> {}, void |-> V, line |-> {}, freed |-> F, ledger |-> E,
             gone |-> {}, corrected |-> {}, release |-> L]
    OBVIOUS
  <2> HIDE DEF E, L
  <2> QED
    BY <2>1
<1> HIDE DEF N
<1>3. Both(D, N) =
        [settlement |-> {} \cup {}, void |-> V \cup {}, line |-> {} \cup {},
         freed |-> F \cup {}, ledger |-> D.ledger \cup N.ledger, gone |-> {} \cup {},
         corrected |-> {} \cup {}, release |-> D.release \cup N.release]
  BY <1>1, <1>2, BothIs
<1>4. \A S : S \cup {} = S
  OBVIOUS
<1>5. Both(D, N) =
        [settlement |-> {}, void |-> V, line |-> {}, freed |-> F,
         ledger |-> D.ledger \cup N.ledger, gone |-> {}, corrected |-> {},
         release |-> D.release \cup N.release]
  BY <1>3, <1>4
<1>6. /\ Both(D, N).ledger = D.ledger \cup N.ledger
      /\ Both(D, N).release = D.release \cup N.release
  BY <1>5
<1>7. Both(D, N) = [settlement |-> {}, void |-> V, line |-> {}, freed |-> F,
                    ledger |-> Both(D, N).ledger, gone |-> {}, corrected |-> {},
                    release |-> Both(D, N).release]
  BY <1>5, <1>6
<1> QED
  BY <1>1, <1>4, <1>6, <1>7 DEF N

LEMMA UndoReverses ==
    ASSUME TxInv, NEW p \in Session, scene' = scene, ReverseEarning(p)
    PROVE  TxInv' /\ db' = db
<1>1. PICK a : a = Ask[p]
  OBVIOUS
<1> DEFINE s == a.settlement
           D == draft[p]
           d == EntryOf(db, DevengoOf(s))
           n == ReversalOf(d, Names(a))
           V == IF a.op = "void" THEN {s} ELSE {}
           facts == Facts("ledger", {n})
<1>2. /\ a.op \in {"void", "release"} /\ Blockers(p) = {} /\ UndoInv(p, a)
      /\ at[p] = "cancel" /\ at[p] \in Plain /\ InOrder(db)
  BY <1>1, Sessions DEF ReverseEarning, At, Plain, TxInv
<1>3. /\ s \in db.settlement /\ Holds(p, Row(s), "update") /\ (a.op = "release" => s \in db.void)
      /\ a.op = "release" => Holds(p, Employee, "update")
      /\ D = [settlement |-> {}, void |-> V, line |-> {}, freed |-> FreedOf(db, s),
              ledger |-> D.ledger, gone |-> {}, corrected |-> {}, release |-> D.release]
      /\ seen[p] = {d} /\ D.ledger = {}
  BY <1>2 DEF UndoInv
<1>4. d.id = DevengoOf(s) /\ ReversalId(p) = Names(a)
  <2>1. HasId(db, DevengoOf(s))
    BY <1>2, <1>3 DEF InOrder
  <2> QED
    BY <1>1, <2>1, EntryIsThere DEF ReversalId, Names
<1>5. CASE Refuse(p, "error")
  BY <1>5, Refuses
<1>6. CASE /\ ~HasId(db, Names(a)) /\ ~Reversed(db, DevengoOf(s))
           /\ Writes(p, facts, "share") /\ UNCHANGED seen
  <2>1. seen' = [seen EXCEPT ![p] = seen'[p]]
    BY <1>6, SeenStays
  <2>2. /\ db' = db /\ at'[p] = "share" /\ Ask' = Ask /\ draft'[p] = Both(D, facts)
        /\ \A what, mode : Holds(p, what, mode)' <=>
              Holds(p, what, mode) \/ Lock(what, mode) \in Wanted(p)
    <3> HIDE DEF facts
    <3> QED
      BY <1>2, <1>6, <2>1, WritesIs
  <2>3. /\ Lock(Key(Names(a)), "update") \in Wanted(p)
        /\ Lock(Cancels(DevengoOf(s)), "update") \in Wanted(p)
    <3>1. Wanted(p) = {Lock(Key(ReversalId(p)), "update")}
                        \cup {Lock(Cancels(e.id), "update") : e \in seen[p]}
      BY <1>2, WantedIs
    <3>2. d \in seen[p]
      BY <1>3
    <3>3. Lock(Cancels(d.id), "update") \in {Lock(Cancels(e.id), "update") : e \in seen[p]}
      BY <3>2
    <3> QED
      BY <1>4, <3>1, <3>3
  <2>4. /\ Holds(p, Key(Names(a)), "update")' /\ Holds(p, Cancels(DevengoOf(s)), "update")'
        /\ Holds(p, Row(s), "update")' /\ (a.op = "release" => Holds(p, Employee, "update")')
    BY <1>3, <2>2, <2>3
  <2>5. Reversing(p, DevengoOf(s), Names(a))'
    BY <1>6, <2>2, <2>4 DEF Reversing, Reserved
  <2>6. /\ draft'[p] = [settlement |-> {}, void |-> V, line |-> {}, freed |-> FreedOf(db, s),
                        ledger |-> draft'[p].ledger, gone |-> {}, corrected |-> {},
                        release |-> draft'[p].release]
        /\ draft'[p].ledger = {n}
    <3> DEFINE F == FreedOf(db, s)
               R == {n}
    <3>0. facts = Facts("ledger", R)
      OBVIOUS
    <3> HIDE DEF D, n, s, F, V, R, facts
    <3>1. Both(D, facts) =
            [settlement |-> {}, void |-> V, line |-> {}, freed |-> F,
             ledger |-> Both(D, facts).ledger, gone |-> {}, corrected |-> {},
             release |-> Both(D, facts).release]
          /\ Both(D, facts).ledger = D.ledger \cup R
      <4>1. D = [settlement |-> {}, void |-> V, line |-> {}, freed |-> F, ledger |-> D.ledger,
                 gone |-> {}, corrected |-> {}, release |-> D.release]
        BY <1>3 DEF F
      <4> QED
        BY <3>0, <4>1, UndoneAndMore
    <3>2. D.ledger \cup R = {n}
      BY <1>3 DEF R
    <3> QED
      BY <2>2, <3>1, <3>2 DEF F
  <2>7. Undone(a)' = {n}
    BY <2>2 DEF Undone
  <2>8. UndoInv(p, a)'
    <3> HIDE DEF n, D, s, facts
    <3> QED
      BY <1>2, <1>3, <2>2, <2>4, <2>5, <2>6, <2>7 DEF UndoInv, s, V
  <2>9. RequestInv(p)'
    BY <1>1, <1>2, <2>2, <2>8, UndoRequest
  <2> HIDE DEF facts
  <2> QED
    BY <1>2, <1>6, <2>1, <2>9, Proceeds
<1>7. ReverseEarning(p) => \/ Refuse(p, "error")
                           \/ /\ ~HasId(db, Names(a)) /\ ~Reversed(db, DevengoOf(s))
                              /\ Writes(p, facts, "share") /\ UNCHANGED seen
  BY <1>3, <1>4 DEF ReverseEarning
<1> QED
  BY <1>5, <1>6, <1>7

LEMMA UndoLogs ==
    ASSUME TxInv, NEW p \in Session, scene' = scene, LogRelease(p)
    PROVE  TxInv' /\ db' = db
<1>1. PICK a : a = Ask[p]
  OBVIOUS
<1> DEFINE s == a.settlement
           D == draft[p]
           V == IF a.op = "void" THEN {s} ELSE {}
           facts == Facts("release", {[id |-> a.id, settlement |-> s]})
<1>2. /\ a.op = "release" /\ Blockers(p) = {} /\ UndoInv(p, a)
      /\ at[p] = "log" /\ at[p] \in Plain
  BY <1>1, Sessions DEF LogRelease, At, Plain
<1>3. /\ s \in db.settlement /\ Holds(p, Row(s), "update") /\ s \in db.void
      /\ Holds(p, Employee, "update")
      /\ D = [settlement |-> {}, void |-> V, line |-> {}, freed |-> FreedOf(db, s),
              ledger |-> D.ledger, gone |-> {}, corrected |-> {}, release |-> D.release]
      /\ \/ D.ledger = {} /\ Reversed(db, DevengoOf(s))
         \/ D.ledger = Undone(a) /\ Reversing(p, DevengoOf(s), Names(a))
      /\ D.ledger # {} => SharesWorker(p)
  BY <1>2 DEF UndoInv
<1>4. CASE Refuse(p, "error")
  BY <1>4, Refuses
<1>5. CASE Writes(p, facts, "commit") /\ UNCHANGED seen
  <2>1. seen' = [seen EXCEPT ![p] = seen'[p]]
    BY <1>5, SeenStays
  <2>2. /\ db' = db /\ at'[p] = "commit" /\ Ask' = Ask /\ draft'[p] = Both(D, facts)
        /\ \A what, mode : Holds(p, what, mode) => Holds(p, what, mode)'
    <3> HIDE DEF facts
    <3> QED
      BY <1>2, <1>5, <2>1, WritesIs
  <2>3. Holds(p, Row(s), "update")' /\ Holds(p, Employee, "update")'
    BY <1>3, <2>2
  <2>4. /\ Reversing(p, DevengoOf(s), Names(a)) => Reversing(p, DevengoOf(s), Names(a))'
        /\ Undone(a)' = Undone(a)
        /\ SharesWorker(p) => SharesWorker(p)'
    BY <2>2 DEF Reversing, Reserved, Undone, SharesWorker
  <2>5. /\ draft'[p] = [settlement |-> {}, void |-> V, line |-> {}, freed |-> FreedOf(db, s),
                        ledger |-> draft'[p].ledger, gone |-> {}, corrected |-> {},
                        release |-> draft'[p].release]
        /\ draft'[p].ledger = D.ledger
    <3> DEFINE F == FreedOf(db, s)
               R == {[id |-> a.id, settlement |-> s]}
    <3>0. facts = Facts("release", R)
      OBVIOUS
    <3> HIDE DEF D, s, F, V, R, facts
    <3>1. Both(D, facts) =
            [settlement |-> {}, void |-> V, line |-> {}, freed |-> F,
             ledger |-> Both(D, facts).ledger, gone |-> {}, corrected |-> {},
             release |-> Both(D, facts).release]
          /\ Both(D, facts).ledger = D.ledger
      BY <1>3, <3>0, UndoneAndMore DEF F
    <3> QED
      BY <2>2, <3>1 DEF F
  <2>6. UndoInv(p, a)'
    <3> HIDE DEF D, s, facts
    <3> QED
      BY <1>2, <1>3, <2>2, <2>3, <2>4, <2>5 DEF UndoInv, s, V
  <2>7. RequestInv(p)'
    BY <1>1, <1>2, <2>2, <2>6, UndoRequest
  <2> HIDE DEF facts
  <2> QED
    BY <1>2, <1>5, <2>1, <2>7, Proceeds
<1> QED
  BY <1>1, <1>4, <1>5 DEF LogRelease

LEMMA UndoShares ==
    ASSUME TxInv, NEW p \in Session, scene' = scene, ShareReferenced(p),
           Ask[p].op \in {"void", "release"}
    PROVE  TxInv' /\ db' = db
<1>1. PICK a : a = Ask[p]
  OBVIOUS
<1>2. PICK s \in {"log", "commit"} : s = IF a.op = "release" THEN "log" ELSE "commit"
  OBVIOUS
<1>3. /\ at[p] = "share" /\ at[p] \in Plain /\ Blockers(p) = {} /\ UNCHANGED seen
      /\ Then(p, s) /\ UndoInv(p, a) /\ a.op \in {"void", "release"}
  BY <1>1, <1>2, Sessions, ShareIs DEF Plain
<1>4. /\ db' = db /\ at'[p] = s /\ draft'[p] = draft[p] /\ Ask' = Ask /\ seen'[p] = seen[p]
      /\ \A what, mode : Holds(p, what, mode) => Holds(p, what, mode)'
      /\ \A what, mode : Lock(what, mode) \in Wanted(p) => Holds(p, what, mode)'
  BY <1>3, ThenChanges
<1>5. SharesWorker(p)'
  BY <1>3, <1>4, ShareTaken
<1>6. /\ Reversing(p, DevengoOf(a.settlement), Names(a)) =>
            Reversing(p, DevengoOf(a.settlement), Names(a))'
      /\ Undone(a)' = Undone(a)
  BY <1>4 DEF Reversing, Reserved, Undone
<1>7. UndoInv(p, a)'
  BY <1>2, <1>3, <1>4, <1>5, <1>6 DEF UndoInv
<1>8. RequestInv(p)'
  BY <1>1, <1>3, <1>4, <1>7, UndoRequest
<1> QED
  BY <1>3, <1>8, ThenProceeds

-----------------------------------------------------------------------------
(* POST /ledger/{id}/reverse *)

LEMMA ReverseLooks ==
    ASSUME TxInv, NEW p \in Session, scene' = scene,
           \/ PriorReversal(p) \/ ReadEntry(p) \/ ShareSettlement(p)
           \/ ShareReferenced(p) /\ Ask[p].op = "reverse"
    PROVE  TxInv' /\ db' = db
<1>1. Ask[p].op = "reverse" /\ Blockers(p) = {} /\ ReverseInv(p) /\ at[p] \in Plain
  BY Sessions, ShareIs DEF PriorReversal, ReadEntry, ShareSettlement, At, Plain
<1>2. ASSUME NEW s \in {"read", "reverse", "share settlement", "commit"}, Then(p, s),
             UNCHANGED seen,
             s = "read" => at[p] = "find",
             s = "reverse" => /\ at[p] = "read" /\ HasId(db, Ask[p].entry)
                              /\ EntryOf(db, Ask[p].entry).kind # "reverso",
             s \in {"share settlement", "commit"} => at[p] \in {"share", "share settlement"}
      PROVE  TxInv' /\ db' = db
  <2>1. /\ db' = db /\ at'[p] = s /\ draft'[p] = draft[p] /\ Ask' = Ask
        /\ Ask'[p] = Ask[p] /\ seen'[p] = seen[p]
        /\ \A what, mode : Holds(p, what, mode) => Holds(p, what, mode)'
        /\ \A what, mode : Lock(what, mode) \in Wanted(p) => Holds(p, what, mode)'
        /\ SharesWorker(p) => SharesWorker(p)'
    BY <1>1, <1>2, ThenChanges
  <2>2. Reversing(p, Ask[p].entry, Ask[p].id) => Reversing(p, Ask[p].entry, Ask[p].id)'
    BY <2>1 DEF Reversing, Reserved
  <2>3. s \in {"share settlement", "commit"} => SharesWorker(p)'
    <3>1. CASE at[p] = "share"
      BY <2>1, <3>1, ShareTaken
    <3>2. CASE at[p] = "share settlement"
      BY <1>1, <2>1, <3>2 DEF ReverseInv
    <3> QED
      BY <1>2, <3>1, <3>2
  <2>4. ReverseInv(p)'
    BY <1>1, <1>2, <2>1, <2>2, <2>3 DEF ReverseInv
  <2>5. RequestInv(p)'
    BY <1>1, <2>1, <2>4, OnlyRequest
  <2>6. s \notin {"done", "winner"}
    OBVIOUS
  <2> QED
    BY <1>1, <1>2, <2>5, <2>6, ThenProceeds
<1>3. CASE PriorReversal(p)
  <2>1. /\ at[p] = "find"
        /\ \/ Same(p) \/ Refuse(p, "IDEMPOTENCY_KEY_REUSED")
           \/ Then(p, "read") /\ UNCHANGED seen
    BY <1>3 DEF PriorReversal, At
  <2> QED
    BY <1>2, <2>1, Refuses
<1>4. CASE ReadEntry(p)
  <2>1. /\ at[p] = "read"
        /\ \/ Refuse(p, "NOT_FOUND") \/ Refuse(p, "ALREADY_REVERSED")
           \/ /\ HasId(db, Ask[p].entry) /\ EntryOf(db, Ask[p].entry).kind # "reverso"
              /\ Then(p, "reverse") /\ UNCHANGED seen
    BY <1>4 DEF ReadEntry, At
  <2> QED
    BY <1>2, <2>1, Refuses
<1>5. CASE ShareSettlement(p)
  <2>1. at[p] = "share settlement" /\ Then(p, "commit") /\ UNCHANGED seen
    BY <1>5 DEF ShareSettlement, At
  <2> QED
    BY <1>2, <2>1
<1>6. CASE ShareReferenced(p)
  <2>1. /\ at[p] = "share" /\ UNCHANGED seen
        /\ Then(p, "share settlement") \/ Then(p, "commit")
    BY <1>1, <1>6, ShareIs
  <2> QED
    BY <1>2, <2>1
<1> QED
  BY <1>3, <1>4, <1>5, <1>6

LEMMA ReverseInserts ==
    ASSUME TxInv, NEW p \in Session, scene' = scene, InsertReversal(p)
    PROVE  TxInv' /\ db' = db
<1> DEFINE a == Ask[p]
           n == ReversalOf(EntryOf(db, a.entry), a.id)
           facts == Facts("ledger", {n})
<1>1. /\ a.op = "reverse" /\ Blockers(p) = {} /\ ReverseInv(p)
      /\ at[p] = "reverse" /\ at[p] \in Plain
  BY Sessions DEF InsertReversal, At, Plain
<1>2. /\ draft[p] = Nothing /\ HasId(db, a.entry) /\ EntryOf(db, a.entry).kind # "reverso"
  BY <1>1 DEF ReverseInv
<1>3. CASE Refuse(p, "IDEMPOTENCY_KEY_REUSED") \/ Refuse(p, "ALREADY_REVERSED")
  BY <1>3, Refuses
<1>4. CASE /\ ~HasId(db, a.id) /\ ~Reversed(db, a.entry)
           /\ Writes(p, facts, "share") /\ UNCHANGED seen
  <2>1. seen' = [seen EXCEPT ![p] = seen'[p]]
    BY <1>4, SeenStays
  <2>2. /\ db' = db /\ at'[p] = "share" /\ Ask' = Ask /\ draft'[p] = Both(draft[p], facts)
        /\ \A what, mode : Holds(p, what, mode)' <=>
              Holds(p, what, mode) \/ Lock(what, mode) \in Wanted(p)
    <3> HIDE DEF facts
    <3> QED
      BY <1>1, <1>4, <2>1, WritesIs
  <2>3. draft'[p] = facts
    BY <1>2, <2>2, WithNothing
  <2>4. Lock(Key(a.id), "update") \in Wanted(p) /\ Lock(Cancels(a.entry), "update") \in Wanted(p)
    BY <1>1, WantedIs
  <2>5. Holds(p, Key(a.id), "update")' /\ Holds(p, Cancels(a.entry), "update")'
    BY <2>2, <2>4
  <2>6. Reversing(p, a.entry, a.id)'
    BY <1>4, <2>2, <2>5 DEF Reversing, Reserved
  <2>7. ReverseInv(p)'
    BY <1>1, <1>2, <2>2, <2>3, <2>6 DEF ReverseInv
  <2>8. RequestInv(p)'
    BY <1>1, <2>2, <2>7, OnlyRequest
  <2> HIDE DEF facts
  <2> QED
    BY <1>1, <1>4, <2>1, <2>8, Proceeds
<1> QED
  BY <1>3, <1>4 DEF InsertReversal

-----------------------------------------------------------------------------
(* PATCH and DELETE /work-records/{id} *)

LEMMA EditChecks ==
    ASSUME TxInv, NEW p \in Session, scene' = scene, CheckNotSettled(p)
    PROVE  TxInv' /\ db' = db
<1>1. /\ Ask[p].op \in {"delete", "correct"} /\ Blockers(p) = {} /\ EditInv(p)
      /\ at[p] = "check" /\ at[p] \in Plain
  BY Sessions DEF CheckNotSettled, At, Plain
<1>2. CASE Then(p, "write") /\ UNCHANGED seen
  <2>1. at'[p] = "write" /\ draft'[p] = draft[p] /\ Ask' = Ask
    BY <1>1, <1>2, ThenChanges
  <2>2. EditInv(p)'
    BY <1>1, <2>1 DEF EditInv
  <2>3. RequestInv(p)'
    BY <1>1, <2>1, <2>2, OnlyRequest
  <2> QED
    BY <1>1, <1>2, <2>3, ThenProceeds
<1> QED
  BY <1>2, Refuses DEF CheckNotSettled

LEMMA EditWrites ==
    ASSUME TxInv, NEW p \in Session, scene' = scene, WriteRecord(p)
    PROVE  TxInv' /\ db' = db
<1> DEFINE table == IF Ask[p].op = "delete" THEN "gone" ELSE "corrected"
           facts == Facts(table, {Ask[p].record})
<1>1. /\ Ask[p].op \in {"delete", "correct"} /\ Blockers(p) = {} /\ EditInv(p)
      /\ at[p] = "write" /\ at[p] \in Plain
  BY Sessions DEF WriteRecord, At, Plain
<1>2. CASE Writes(p, facts, "commit") /\ UNCHANGED seen
  <2>1. seen' = [seen EXCEPT ![p] = seen'[p]]
    BY <1>2, SeenStays
  <2>2. at'[p] = "commit" /\ Ask' = Ask /\ draft'[p] = Both(draft[p], facts)
    <3> HIDE DEF facts
    <3> QED
      BY <1>1, <1>2, <2>1, WritesIs
  <2>3. draft[p] = Nothing
    BY <1>1 DEF EditInv
  <2>4. Both(Nothing, facts) = facts
    BY <1>1, WithNothing
  <2>5. EditInv(p)'
    BY <1>1, <2>2, <2>3, <2>4 DEF EditInv
  <2>6. RequestInv(p)'
    BY <1>1, <2>2, <2>5, OnlyRequest
  <2> HIDE DEF facts
  <2> QED
    BY <1>1, <1>2, <2>1, <2>6, Proceeds
<1> QED
  BY <1>2, Refuses DEF WriteRecord

-----------------------------------------------------------------------------
(* Every step, and the start.  *)

LEMMA WinnerNamed ==
    ASSUME TxInv, NEW p \in Session, scene' = scene, NameWinner(p) \/ DeadlockVictim(p)
    PROVE  TxInv' /\ db' = db
BY Refuses DEF NameWinner, DeadlockVictim

LEMMA Shares ==
    ASSUME TxInv, NEW p \in Session, scene' = scene, ShareReferenced(p)
    PROVE  TxInv' /\ db' = db
<1>1. Ask[p].op \in {"settle", "void", "release", "reverse"}
  BY ShareIs
<1> QED
  BY <1>1, SettleShares, UndoShares, ReverseLooks

LEMMA Committed ==
    ASSUME TxInv, NEW p \in Session, scene' = scene, Commit(p)
    PROVE  TxInv' /\ (PromisedBooks!Next \/ UNCHANGED PromisedBooks!vars)
BY CommitsKeep, Answers DEF Commit

LEMMA BooksStay ==
    ASSUME db' = db
    PROVE  UNCHANGED PromisedBooks!vars
BY DEF PromisedBooks!vars

LEMMA CutOff ==
    ASSUME TxInv, NEW p \in Session, scene' = scene, ConnectionLost(p)
    PROVE  TxInv' /\ (PromisedBooks!Next \/ UNCHANGED PromisedBooks!vars)
<1>1. CASE Ends(p, db, "lost") \/ Ends(p, db, "created")
  <2>1. TxInv'
    BY <1>1, EndsKeeps, Answers
  <2>2. db' = db
    BY <1>1 DEF Ends
  <2> QED
    BY <2>1, <2>2, BooksStay
<1>2. CASE at[p] = "commit" /\ Ends(p, View(p), "lost")
  BY <1>2, CommitsKeep, Answers
<1> QED
  BY <1>1, <1>2 DEF ConnectionLost

LEMMA Steps ==
    ASSUME TxInv, [Next]_vars
    PROVE  TxInv' /\ (PromisedBooks!Next \/ UNCHANGED PromisedBooks!vars)
<1>1. ASSUME UNCHANGED vars
      PROVE  TxInv' /\ UNCHANGED PromisedBooks!vars
  <2>1. /\ db' = db /\ scene' = scene /\ draft' = draft /\ held' = held /\ at' = at
        /\ seen' = seen /\ outcome' = outcome
    BY <1>1 DEF vars
  <2>2. \A p \in Session : SessionInv(p)'
    BY <2>1, Waits DEF TxInv, SameSession
  <2>3. Shapes'
    BY <2>1 DEF TxInv, Shapes
  <2>4. \A p, q \in Session : p # q => Apart(p, q)'
    BY <2>1 DEF TxInv, Apart
  <2>5. VoidsDone'
    BY <2>1 DEF TxInv, VoidsDone, Before
  <2> QED
    BY <2>1, <2>2, <2>3, <2>4, <2>5, BooksStay DEF TxInv
<1>2. ASSUME NEW p \in Session, Step(p), scene' = scene
      PROVE  TxInv' /\ (PromisedBooks!Next \/ UNCHANGED PromisedBooks!vars)
  <2>1. CASE \/ FindSettlement(p) \/ ListPending(p) \/ InsertSettlement(p)
             \/ ClaimPayable(p) \/ CreditWorker(p)
    BY <1>2, <2>1, SettleFinds, SettleLists, SettleInserts, SettleClaims, SettleCredits, BooksStay
  <2>2. CASE FindLedgerEntry(p) \/ LockForEntry(p) \/ CheckBalance(p) \/ AddLedgerEntry(p)
    BY <1>2, <2>2, EntryFinds, EntryPosts, BooksStay
  <2>3. CASE \/ LockForVoid(p) \/ PriorRelease(p) \/ LockForRelease(p)
             \/ LockEmployeeForRelease(p) \/ Free(p) \/ ReverseEarning(p) \/ LogRelease(p)
    BY <1>2, <2>3, UndoLooks, UndoFrees, UndoReverses, UndoLogs, BooksStay
  <2>4. CASE PriorReversal(p) \/ ReadEntry(p) \/ InsertReversal(p) \/ ShareSettlement(p)
    BY <1>2, <2>4, ReverseLooks, ReverseInserts, BooksStay
  <2>5. CASE CheckNotSettled(p) \/ WriteRecord(p)
    BY <1>2, <2>5, EditChecks, EditWrites, BooksStay
  <2>6. CASE NameWinner(p) \/ DeadlockVictim(p) \/ ShareReferenced(p)
    BY <1>2, <2>6, WinnerNamed, Shares, BooksStay
  <2>7. CASE Commit(p)
    BY <1>2, <2>7, Committed
  <2> QED
    BY <1>2, <2>1, <2>2, <2>3, <2>4, <2>5, <2>6, <2>7 DEF Step
<1> QED
  BY <1>1, <1>2, CutOff DEF Next

LEMMA Starts ==
    ASSUME Init
    PROVE  TxInv
<1>1. /\ scene \in Scene /\ db = Before
      /\ draft = [p \in Session |-> Nothing] /\ held = [p \in Session |-> {}]
      /\ at = [p \in Session |-> FirstStatement(Ask[p].op)]
      /\ seen = [p \in Session |-> {}]
      /\ outcome = [p \in Session |-> IF Ask[p].op = "none" THEN "idle" ELSE "running"]
  BY DEF Init
<1>2. InOrder(db)
  BY <1>1, SceneAssumption DEF Before
<1>3. IsDraft(Nothing) /\ "idle" \in Answer /\ "running" \in Answer
  BY DEF IsDraft, Nothing, Answer
<1>4. Shapes
  BY <1>1, <1>3 DEF Shapes
<1>5. ASSUME NEW p \in Session PROVE SessionInv(p)
  <2>1. /\ draft[p] = Nothing /\ held[p] = {} /\ at[p] = FirstStatement(Ask[p].op)
        /\ outcome[p] = IF Ask[p].op = "none" THEN "idle" ELSE "running"
    BY <1>1
  <2>2. /\ Ask[p].op \in {"settle", "pago", "anticipo", "void", "release", "reverse",
                          "delete", "correct", "none"}
    BY <1>1, AskIs
  <2>3. /\ Ask[p].op \in {"delete", "correct"} => at[p] = "check"
        /\ Ask[p].op = "void" => at[p] = "lock"
        /\ Ask[p].op = "none" => at[p] = "done"
        /\ Ask[p].op \in {"settle", "pago", "anticipo", "release", "reverse"} => at[p] = "find"
    BY <2>1, <2>2 DEF FirstStatement
  <2>4. RequestInv(p)
    BY <2>1, <2>2, <2>3 DEF RequestInv, SettleInv, EntryInv, UndoInv, ReverseInv, EditInv
  <2>5. PayablesLocked(p)
    BY <2>1 DEF PayablesLocked, Holds
  <2>6. at[p] = "done" <=> outcome[p] # "running"
    BY <2>1, <2>2, <2>3
  <2> QED
    BY <2>1, <2>4, <2>5, <2>6 DEF SessionInv
<1>6. \A p, q \in Session : p # q => Apart(p, q)
  BY <1>1 DEF Apart
<1>7. VoidsDone
  BY <1>1 DEF VoidsDone
<1> QED
  BY <1>1, <1>2, <1>4, <1>5, <1>6, <1>7 DEF TxInv

LEMMA BooksStart ==
    ASSUME InOrder(db)
    PROVE  PromisedBooks!Init
<1>1. Holders(db) \in [Record -> Settlement \cup {None}]
  <2>1. ASSUME NEW r \in Record, IsSettled(db, r)
        PROVE  (CHOOSE l \in LiveLines(db) : l.record = r).settlement \in Settlement
    <3>1. (CHOOSE l \in LiveLines(db) : l.record = r) \in LiveLines(db)
      BY <2>1 DEF IsSettled
    <3>2. \A l \in LiveLines(db) : l.settlement \in Settlement
      BY DEF InOrder, LiveLines
    <3> QED
      BY <3>1, <3>2
  <2> QED
    BY <2>1 DEF Holders
<1>2. Credits(db) \in [Settlement -> {"none", "standing", "cancelled"}]
  BY DEF Credits
<1>3. IsFiniteSet(db.ledger) /\ \A e \in db.ledger : e.amount \in Int
  BY MovementIs DEF InOrder
<1>4. Balance(db) \in Int
  BY <1>3, OwedIsInt DEF Balance
<1>5. -Owed(Pagos(db)) \in Nat
  <2>1. \A e \in Pagos(db) : e.amount \in Int /\ e.amount < 0
    <3> TAKE e \in Pagos(db)
    <3>1. e \in db.ledger /\ e.kind = "pago" /\ IsMovement(db, e)
      BY DEF Pagos, InOrder
    <3> QED
      BY <3>1 DEF IsMovement
  <2>2. IsFiniteSet(Pagos(db))
    BY <1>3, FS_Subset DEF Pagos
  <2>3. Owed(Pagos(db)) \in Int /\ Owed(Pagos(db)) <= 0
    BY <2>1, <2>2, OwedIsInt, OwedOfNegatives
  <2> QED
    BY <2>3
<1> QED
  BY <1>1, <1>2, <1>4, <1>5 DEF PromisedBooks!Init

\* What an open transaction has written are rows of the tables' types.
LEMMA DraftIsBooks ==
    ASSUME TxInv, NEW p \in Session
    PROVE  IsBooks(draft[p])
<1> DEFINE D == draft[p]
           a == Ask[p]
<1>1. InOrder(db) /\ scene \in Scene /\ SessionInv(p)
  BY DEF TxInv
<1>2. IsBooks(Nothing)
  BY DEF IsBooks, Nothing
<1>3. \A e \in db.ledger :
         /\ e.amount \in Int /\ -e.amount \in Int /\ e.settlement \in Settlement \cup {None}
  BY <1>1, MovementIs
<1>4. ASSUME NEW i \in EntryId, NEW id, HasId(db, id)
      PROVE  ReversalOf(EntryOf(db, id), i) \in LedgerRow
  <2> DEFINE e == EntryOf(db, id)
  <2>1. e \in db.ledger /\ e.id = id
    BY <1>4, EntryIsThere
  <2>2. -e.amount \in Int /\ e.settlement \in Settlement \cup {None}
    BY <1>3, <2>1
  <2>3. e.id \in {x.id : x \in db.ledger}
    BY <2>1
  <2> HIDE DEF e
  <2> QED
    BY <2>2, <2>3 DEF ReversalOf, LedgerRow, e
<1>5. CASE D = Nothing
  BY <1>2, <1>5
<1>6. CASE a.op = "settle" /\ D # Nothing
  <2>1. SettleInv(p) /\ a.id \in Settlement /\ a.scope \subseteq Record
    BY <1>1, <1>6, Sessions, AskIs
  <2>2. at[p] \in {"share", "claim", "credit", "commit"}
    BY <1>1, <1>6, <2>1 DEF SettleInv, SessionInv
  <2>3. /\ D = [settlement |-> {a.id}, void |-> {}, line |-> D.line, freed |-> {},
                ledger |-> D.ledger, gone |-> {}, corrected |-> {}, release |-> {}]
        /\ D.line \subseteq [settlement : {a.id}, record : a.scope, quantity : {1, 2}]
        /\ \A l, m \in D.line : l.record = m.record => l = m
        /\ \/ D.ledger = {}
           \/ D.line # {} /\ D.ledger = {[id |-> DevengoOf(a.id), kind |-> "devengo",
                                          amount |-> Gross(D.line), settlement |-> a.id,
                                          reverses |-> None]}
    BY <2>1, <2>2 DEF SettleInv
  <2>4. \A e \in D.ledger : e \in LedgerRow
    <3>1. D.line # {} => Gross(D.line) \in Int
      BY <2>1, <2>3, LinesWorth
    <3>2. DevengoOf(a.id) \in EntryId
      BY <2>1, IdsAre
    <3> HIDE DEF D
    <3> QED
      BY <2>1, <2>3, <3>1, <3>2 DEF LedgerRow
  <2>5. D.settlement = {a.id} /\ D.void = {} /\ D.freed = {} /\ D.gone = {} /\ D.corrected = {}
    <3> DEFINE L == D.line
               E == D.ledger
    <3>1. D = [settlement |-> {a.id}, void |-> {}, line |-> L, freed |-> {},
               ledger |-> E, gone |-> {}, corrected |-> {}, release |-> {}]
      BY <2>3
    <3> HIDE DEF L, E, D
    <3> QED
      BY <3>1
  <2>6. D.line \subseteq [settlement : Settlement, record : Record, quantity : {1, 2}]
    BY <2>1, <2>3
  <2> HIDE DEF D
  <2>7. IsBooks(D)
    BY <2>1, <2>4, <2>5, <2>6 DEF IsBooks
  <2> QED
    BY <2>7 DEF D
<1>7. CASE a.op \in {"pago", "anticipo"} /\ D # Nothing
  <2>1. EntryInv(p) /\ a.id \in Id /\ a.amount \in Nat
    BY <1>1, <1>7, Sessions, AskIs
  <2> DEFINE n == [id |-> a.id, kind |-> a.op, amount |-> -a.amount,
                   settlement |-> None, reverses |-> None]
  <2>2. D = Facts("ledger", {n})
    BY <1>7, <2>1 DEF EntryInv
  <2>3. n \in LedgerRow
    <3>1. \A x \in Nat : -x \in Int
      OBVIOUS
    <3>2. -a.amount \in Int /\ a.id \in EntryId
      BY <2>1, <3>1, IdsAre
    <3> QED
      BY <1>7, <3>2 DEF LedgerRow
  <2> HIDE DEF n, D
  <2>4. IsBooks(Facts("ledger", {n}))
    BY <2>3, FactsAre DEF IsBooks, Nothing
  <2> QED
    BY <2>2, <2>4 DEF D
<1>8. CASE a.op = "reverse" /\ D # Nothing
  <2>1. ReverseInv(p) /\ a.id \in EntryId
    BY <1>1, <1>8, Sessions, AskIs, IdsAre
  <2> DEFINE n == ReversalOf(EntryOf(db, a.entry), a.id)
  <2>2. D = Facts("ledger", {n}) /\ HasId(db, a.entry)
    BY <1>1, <1>8, <2>1 DEF ReverseInv, SessionInv
  <2>3. n \in LedgerRow
    BY <1>4, <2>1, <2>2
  <2> HIDE DEF n, D
  <2>4. IsBooks(Facts("ledger", {n}))
    BY <2>3, FactsAre DEF IsBooks, Nothing
  <2> QED
    BY <2>2, <2>4 DEF D
<1>9. CASE a.op \in {"delete", "correct"} /\ D # Nothing
  <2>1. EditInv(p) /\ a.record \in Record
    BY <1>1, <1>9, Sessions, AskIs
  <2>2. D = Facts("gone", {a.record}) \/ D = Facts("corrected", {a.record})
    BY <1>1, <1>9, <2>1 DEF EditInv, SessionInv
  <2> HIDE DEF D
  <2>3. IsBooks(Facts("gone", {a.record})) /\ IsBooks(Facts("corrected", {a.record}))
    BY <2>1, FactsAre DEF IsBooks, Nothing
  <2> QED
    BY <2>2, <2>3 DEF D
<1>10. CASE a.op \in {"void", "release"} /\ D # Nothing
  <2> DEFINE s == a.settlement
             V == IF a.op = "void" THEN {s} ELSE {}
             F == FreedOf(db, s)
  <2>1. UndoInv(p, a) /\ s \in Settlement /\ Names(a) \in EntryId
    BY <1>1, <1>10, Sessions, AskIs, IdsAre DEF Names
  <2>2. at[p] \in {"cancel", "share", "log", "commit"}
    BY <1>1, <1>10, <2>1 DEF UndoInv, SessionInv
  <2>3. /\ D = [settlement |-> {}, void |-> V, line |-> {}, freed |-> F, ledger |-> D.ledger,
                gone |-> {}, corrected |-> {}, release |-> D.release]
        /\ D.ledger = {} \/ D.ledger = Undone(a)
        /\ s \in db.settlement
    BY <2>1, <2>2 DEF UndoInv
  <2>4. \A e \in D.ledger : e \in LedgerRow
    <3>1. HasId(db, DevengoOf(s))
      BY <1>1, <2>3 DEF InOrder
    <3> HIDE DEF D
    <3> QED
      BY <1>4, <2>1, <2>3, <3>1 DEF Undone
  <2>5. F \subseteq Settlement \X Record
    <3>1. \A l \in LinesIn(db, s) : l.record \in Record
      BY <1>1 DEF LinesIn, LiveLines, InOrder
    <3> QED
      BY <2>1, <3>1 DEF FreedOf
  <2>6. V \subseteq Settlement
    BY <2>1
  <2>7. D.settlement = {} /\ D.void = V /\ D.line = {} /\ D.freed = F /\ D.gone = {}
        /\ D.corrected = {}
    <3> DEFINE L == D.release
               E == D.ledger
    <3> HIDE DEF V, F
    <3>1. D = [settlement |-> {}, void |-> V, line |-> {}, freed |-> F, ledger |-> E,
               gone |-> {}, corrected |-> {}, release |-> L]
      BY <2>3
    <3> HIDE DEF L, E, D
    <3> QED
      BY <3>1
  <2> HIDE DEF D, V, F
  <2>8. IsBooks(D)
    BY <2>4, <2>5, <2>6, <2>7 DEF IsBooks
  <2> QED
    BY <2>8 DEF D
<1>11. CASE a.op = "none"
  <2>1. at[p] = "done"
    BY <1>1, <1>11 DEF SessionInv, RequestInv
  <2> QED
    BY <1>1, <1>2, <2>1 DEF SessionInv
<1> QED
  BY <1>1, <1>5, <1>6, <1>7, <1>8, <1>9, <1>10, <1>11, AskIs

LEMMA TypesHold ==
    ASSUME TxInv
    PROVE  TypeOK
<1>1. InOrder(db)
  BY DEF TxInv
<1>2. IsBooks(db)
  <2>1. ASSUME NEW e \in db.ledger PROVE e \in LedgerRow
    <3>1. /\ e \in [id : EntryId, kind : {"devengo", "pago", "anticipo", "reverso"},
                    amount : Int, settlement : Settlement \cup {None},
                    reverses : {None} \cup EntryId]
          /\ e.reverses # None => HasId(db, e.reverses)
      BY <1>1, MovementIs
    <3>2. e.reverses \in {None} \cup {x.id : x \in db.ledger}
      BY <3>1 DEF HasId
    <3> QED
      BY <3>1, <3>2 DEF LedgerRow
  <2>2. /\ db.settlement \subseteq Settlement /\ db.void \subseteq Settlement
        /\ db.line \subseteq [settlement : Settlement, record : Record, quantity : {1, 2}]
        /\ db.freed \subseteq Settlement \X Record
        /\ db.gone \cup db.corrected \subseteq Record
    <3>1. db.line \subseteq [settlement : db.settlement, record : Record, quantity : {1, 2}]
          /\ db.settlement \subseteq Settlement /\ db.void \subseteq db.settlement
          /\ db.freed \subseteq db.settlement \X Record
      BY <1>1 DEF InOrder
    <3> QED
      BY <1>1, <3>1 DEF InOrder
  <2> QED
    BY <2>1, <2>2 DEF IsBooks
<1>3. \A p \in Session : IsBooks(draft[p])
  BY DraftIsBooks
<1>4. outcome \in [Session -> Answer]
  BY DEF TxInv, Shapes
<1>5. \A p \in Session : /\ at[p] = "winner" => held[p] = {} /\ draft[p] = Nothing
                         /\ at[p] = "done" <=> outcome[p] # "running"
  BY DEF TxInv, SessionInv
<1>6. \A p, q \in Session : p # q =>
         \A x \in held[p], y \in held[q] : x.what = y.what => Compatible(x.mode, y.mode)
  BY DEF TxInv, Apart
<1> QED
  BY <1>2, <1>3, <1>4, <1>5, <1>6 DEF TypeOK

LEMMA VoidsAreWhole ==
    ASSUME TxInv
    PROVE  VoidIsWhole
<1> SUFFICES ASSUME NEW s \in db.void \ Before.void
             PROVE  /\ ~\E l \in LiveLines(db) : l.settlement = s
                    /\ Cardinality({x \in db.ledger : x.reverses = DevengoOf(s)}) = 1
  BY DEF VoidIsWhole
<1>1. LinesIn(db, s) = {} /\ Reversed(db, DevengoOf(s)) /\ s \in Settlement /\ InOrder(db)
  BY DEF TxInv, VoidsDone, InOrder
<1>2. PICK x \in db.ledger : x.reverses = DevengoOf(s)
  BY <1>1 DEF Reversed
<1>3. {y \in db.ledger : y.reverses = DevengoOf(s)} = {x}
  <2>1. DevengoOf(s) # None
    BY <1>1, IdsAre
  <2> QED
    BY <1>1, <1>2, <2>1 DEF InOrder
<1> QED
  BY <1>1, <1>3, FS_Singleton DEF LinesIn

-----------------------------------------------------------------------------
(* The theorems.  *)

\* In any interleaving of any requests, on any books in order: what the
\* transactions write are rows of the tables' types, and no two of them hold
\* locks that exclude each other.
THEOREM TransactionsTyped == Spec => []TypeOK
<1>1. Init => TxInv
  BY Starts
<1>2. TxInv /\ [Next]_vars => TxInv'
  BY Steps
<1>3. TxInv => TypeOK
  BY TypesHold
<1> QED
  BY <1>1, <1>2, <1>3, PTL DEF Spec

\* A void that commits has freed every line of its settlement and taken its
\* devengo back exactly once, whatever else ran between its statements.
THEOREM VoidsCommitWhole == Spec => []VoidIsWhole
<1>1. Init => TxInv
  BY Starts
<1>2. TxInv /\ [Next]_vars => TxInv'
  BY Steps
<1>3. TxInv => VoidIsWhole
  BY VoidsAreWhole
<1> QED
  BY <1>1, <1>2, <1>3, PTL DEF Spec

\* The statements of the money requests, interleaved in every order READ
\* COMMITTED and the locks allow, implement the books: each commit is one step
\* of Books, and nothing else moves them.
THEOREM BooksArePromised == Spec => KeepsThePromise
<1>1. Init => TxInv /\ PromisedBooks!Init
  <2>1. Init => TxInv
    BY Starts
  <2>2. TxInv => PromisedBooks!Init
    BY BooksStart DEF TxInv
  <2> QED
    BY <2>1, <2>2
<1>2. TxInv /\ [Next]_vars => TxInv' /\ [PromisedBooks!Next]_PromisedBooks!vars
  BY Steps
<1> QED
  BY <1>1, <1>2, PTL DEF Spec, KeepsThePromise, PromisedBooks!Spec

-----------------------------------------------------------------------------
(***************************************************************************)
(* Requests that are sent again.  A copy that only looked holds nothing;   *)
(* who is about to write under an id holds its key; and the reversal a     *)
(* void asks for is in the books only once the settlement is void, so that *)
(* a copy which gets past the lock has written nothing yet.                *)
(***************************************************************************)
\* A request that only looked has no lock anybody waits for.
HoldsNothing(p) ==
    \/ at[p] = "find"
    \/ at[p] = "lock" /\ Ask[p].op = "void"
    \/ at[p] = "lock employee" /\ Ask[p].op = "anticipo"
    => held[p] = {}

\* The keys a session holds are of the id it was given, and an advance that holds
\* one is about to commit.
OwnKeys(p) ==
    \A x \in Id : \A m : Holds(p, Key(x), m) =>
        /\ Named(Ask[p]) /\ Ask[p].id = x
        /\ Ask[p].op = "anticipo" => at[p] = "commit"

\* A void that is under way is the first of its settlement, and the reversal it
\* asks for is in the books only once the settlement is void.
VoidOnce(p) ==
    Ask[p].op = "void" =>
        /\ at[p] \in {"free", "cancel", "share", "commit"} => Ask[p].settlement \notin db.void
        /\ \A e \in db.ledger :
              e.kind = "reverso" /\ e.id = Ask[p].id /\ e.settlement = Ask[p].settlement
              => Ask[p].settlement \in db.void

RetryInv == \A p \in Session : HoldsNothing(p) /\ OwnKeys(p) /\ VoidOnce(p)

\* How a session gets from one statement to the next, as far as its keys and its
\* turn go.
EndsHere(p) ==
    /\ at'[p] \in {"done", "winner"} /\ held'[p] = {}
    /\ db' = db \/ (at[p] = "commit" /\ db' = View(p))

GoesOn(p) ==
    /\ db' = db
    /\ at'[p] \notin {"find", "done"}
    /\ \A x, m : Holds(p, Key(x), m)' => Holds(p, Key(x), m) \/ Lock(Key(x), m) \in Wanted(p)
    /\ Ask[p].op = "void" =>
          /\ at'[p] # "lock"
          /\ at[p] = "lock" => Ask[p].settlement \notin db.void
          /\ at[p] \in {"lock", "free", "cancel", "share"}
    /\ Ask[p].op = "anticipo" =>
          \/ at[p] = "find" /\ at'[p] = "lock employee" /\ held'[p] = held[p]
          \/ at[p] = "lock employee" /\ at'[p] = "post"
          \/ at[p] = "post" /\ at'[p] = "commit"

Move(p) ==
    /\ EndsHere(p) \/ GoesOn(p)
    /\ \A q \in Session \ {p} : SameSession(q)

LEMMA EndsMoves ==
    ASSUME Shapes, NEW p \in Session, NEW books, NEW o, Ends(p, books, o),
           books = db \/ (at[p] = "commit" /\ books = View(p))
    PROVE  Move(p)
<1>1. /\ draft' = [draft EXCEPT ![p] = Nothing] /\ held' = [held EXCEPT ![p] = {}]
      /\ at' = [at EXCEPT ![p] = "done"] /\ seen' = [seen EXCEPT ![p] = {}]
      /\ outcome' = [outcome EXCEPT ![p] = o] /\ db' = books
  BY DEF Ends
<1>2. /\ held'[p] = {} /\ at'[p] = "done" /\ \A q \in Session \ {p} : SameSession(q)
  BY <1>1 DEF Shapes, SameSession
<1> QED
  BY <1>1, <1>2 DEF Move, EndsHere

\* What a statement that ran leaves of the sessions.
LEMMA WritesMoves ==
    ASSUME Shapes, NEW p \in Session, NEW facts, NEW s, Writes(p, facts, s),
           seen' = [seen EXCEPT ![p] = seen'[p]]
    PROVE  /\ db' = db /\ at'[p] = s /\ held'[p] = held[p] \cup Wanted(p)
           /\ \A x, m : Holds(p, Key(x), m)' =>
                 Holds(p, Key(x), m) \/ Lock(Key(x), m) \in Wanted(p)
           /\ \A q \in Session \ {p} : SameSession(q)
<1>1. /\ draft' = [draft EXCEPT ![p] = Both(draft[p], facts)]
      /\ held' = [held EXCEPT ![p] = held[p] \cup Wanted(p)]
      /\ at' = [at EXCEPT ![p] = s] /\ db' = db /\ outcome' = outcome
  BY DEF Writes
<1>2. /\ at'[p] = s /\ held'[p] = held[p] \cup Wanted(p)
      /\ \A q \in Session \ {p} : SameSession(q)
  BY <1>1 DEF Shapes, SameSession
<1> QED
  BY <1>1, <1>2 DEF Holds

LEMMA SettleMoves ==
    ASSUME TxInv, NEW p \in Session,
           \/ FindSettlement(p) \/ ListPending(p) \/ InsertSettlement(p)
           \/ ClaimPayable(p) \/ NameWinner(p) \/ CreditWorker(p)
    PROVE  Move(p)
<1>1. Ask[p].op = "settle" /\ Shapes
  BY DEF FindSettlement, ListPending, InsertSettlement, ClaimPayable, NameWinner,
         CreditWorker, At, TxInv
<1>2. ASSUME NEW facts, NEW s \in {"list", "insert", "share", "credit", "claim", "commit"},
             Writes(p, facts, s), seen' = [seen EXCEPT ![p] = seen'[p]]
      PROVE  Move(p)
  BY <1>1, <1>2, WritesMoves DEF Move, GoesOn
<1>3. ASSUME NEW o, Ends(p, db, o) PROVE Move(p)
  BY <1>1, <1>3, EndsMoves
<1>4. UNCHANGED seen => seen' = [seen EXCEPT ![p] = seen'[p]]
  BY SeenStays
<1>5. CASE FindSettlement(p)
  BY <1>2, <1>3, <1>4, <1>5 DEF FindSettlement, Same, Then
<1>6. CASE ListPending(p)
  <2>1. ASSUME seen' = [seen EXCEPT ![p] = LinesOf(p)]
        PROVE  seen' = [seen EXCEPT ![p] = seen'[p]]
    BY <1>1, <2>1 DEF Shapes
  <2> QED
    BY <1>2, <1>3, <1>6, <2>1 DEF ListPending, Refuse, Then
<1>7. CASE InsertSettlement(p)
  BY <1>2, <1>3, <1>4, <1>7 DEF InsertSettlement, Same
<1>8. CASE ClaimPayable(p)
  <2>1. CASE IsSettled(db, NextLine(p).record)
    <3>1. /\ draft' = [draft EXCEPT ![p] = Nothing] /\ held' = [held EXCEPT ![p] = {}]
          /\ at' = [at EXCEPT ![p] = "winner"] /\ db' = db /\ seen' = seen
          /\ outcome' = outcome
      BY <1>8, <2>1 DEF ClaimPayable
    <3>2. /\ held'[p] = {} /\ at'[p] = "winner" /\ \A q \in Session \ {p} : SameSession(q)
      BY <1>1, <3>1 DEF Shapes, SameSession
    <3> QED
      BY <3>1, <3>2 DEF Move, EndsHere
  <2>2. CASE ~IsSettled(db, NextLine(p).record)
    <3> DEFINE rest == seen[p] \ {NextLine(p)}
    <3>1. /\ Writes(p, Facts("line", {NextLine(p)}), IF rest = {} THEN "credit" ELSE "claim")
          /\ seen' = [seen EXCEPT ![p] = rest]
      BY <1>8, <2>2 DEF ClaimPayable
    <3> HIDE DEF rest
    <3>2. seen' = [seen EXCEPT ![p] = seen'[p]]
      BY <1>1, <3>1 DEF Shapes
    <3> QED
      BY <1>2, <3>1, <3>2
  <2> QED
    BY <2>1, <2>2
<1>9. CASE NameWinner(p)
  BY <1>3, <1>9 DEF NameWinner, Refuse
<1>10. CASE CreditWorker(p)
  BY <1>2, <1>4, <1>10 DEF CreditWorker
<1> QED
  BY <1>5, <1>6, <1>7, <1>8, <1>9, <1>10

LEMMA EntryMoves ==
    ASSUME TxInv, NEW p \in Session,
           FindLedgerEntry(p) \/ LockForEntry(p) \/ CheckBalance(p) \/ AddLedgerEntry(p)
    PROVE  Move(p)
<1>1. /\ Ask[p].op \in {"pago", "anticipo"} /\ Shapes
      /\ at[p] \in {"find", "lock employee", "check", "post"}
      /\ at[p] = "check" => Ask[p].op = "pago"
  BY DEF FindLedgerEntry, LockForEntry, CheckBalance, AddLedgerEntry, At, TxInv
<1>2. ASSUME NEW facts, NEW s, Writes(p, facts, s), UNCHANGED seen,
             \/ at[p] = "find" /\ s = "lock employee"
             \/ at[p] = "lock employee" /\ s = IF Ask[p].op = "pago" THEN "check" ELSE "post"
             \/ at[p] = "check" /\ s = "post"
             \/ at[p] = "post" /\ s = "commit"
      PROVE  Move(p)
  <2>1. seen' = [seen EXCEPT ![p] = seen'[p]]
    BY <1>2, SeenStays
  <2>2. /\ db' = db /\ at'[p] = s /\ held'[p] = held[p] \cup Wanted(p)
        /\ \A x, m : Holds(p, Key(x), m)' =>
              Holds(p, Key(x), m) \/ Lock(Key(x), m) \in Wanted(p)
        /\ \A q \in Session \ {p} : SameSession(q)
    BY <1>1, <1>2, <2>1, WritesMoves
  <2>3. at[p] = "find" => held'[p] = held[p]
    BY <2>2, WantedIs
  <2> QED
    BY <1>1, <1>2, <2>2, <2>3 DEF Move, GoesOn
<1>3. ASSUME NEW o, Ends(p, db, o) PROVE Move(p)
  BY <1>1, <1>3, EndsMoves
<1>4. CASE FindLedgerEntry(p)
  BY <1>2, <1>3, <1>4 DEF FindLedgerEntry, AnswerTaken, Same, Refuse, Then, At
<1>5. CASE LockForEntry(p)
  BY <1>2, <1>5 DEF LockForEntry, Then, At
<1>6. CASE CheckBalance(p)
  BY <1>2, <1>3, <1>6 DEF CheckBalance, Refuse, Then, At
<1>7. CASE AddLedgerEntry(p)
  BY <1>2, <1>3, <1>7 DEF AddLedgerEntry, AnswerTaken, Same, Refuse, At
<1> QED
  BY <1>4, <1>5, <1>6, <1>7

LEMMA UndoMoves ==
    ASSUME TxInv, NEW p \in Session,
           \/ LockForVoid(p) \/ PriorRelease(p) \/ LockForRelease(p)
           \/ LockEmployeeForRelease(p) \/ Free(p) \/ ReverseEarning(p) \/ LogRelease(p)
    PROVE  Move(p)
<1>1. Ask[p].op \in {"void", "release"} /\ Shapes
  BY DEF LockForVoid, PriorRelease, LockForRelease, LockEmployeeForRelease, Free,
         ReverseEarning, LogRelease, At, TxInv
<1>2. ASSUME NEW facts, NEW s \in {"free", "lock", "lock employee", "share", "commit"},
             Writes(p, facts, s), UNCHANGED seen,
             Ask[p].op = "void" =>
                 \/ at[p] = "lock" /\ s = "free" /\ Ask[p].settlement \notin db.void
                 \/ at[p] = "cancel" /\ s = "share"
      PROVE  Move(p)
  <2>1. seen' = [seen EXCEPT ![p] = seen'[p]]
    BY <1>2, SeenStays
  <2>2. /\ db' = db /\ at'[p] = s
        /\ \A x, m : Holds(p, Key(x), m)' =>
              Holds(p, Key(x), m) \/ Lock(Key(x), m) \in Wanted(p)
        /\ \A q \in Session \ {p} : SameSession(q)
    BY <1>1, <1>2, <2>1, WritesMoves
  <2> QED
    BY <1>1, <1>2, <2>2 DEF Move, GoesOn
<1>3. ASSUME NEW o, Ends(p, db, o) PROVE Move(p)
  BY <1>1, <1>3, EndsMoves
<1>4. CASE LockForVoid(p)
  BY <1>2, <1>3, <1>4 DEF LockForVoid, VoidRetry, Same, Refuse, Then, At
<1>5. CASE PriorRelease(p)
  BY <1>2, <1>3, <1>5 DEF PriorRelease, Same, Refuse, Then, At
<1>6. CASE LockForRelease(p)
  BY <1>2, <1>3, <1>6 DEF LockForRelease, Refuse, Then, At
<1>7. CASE LockEmployeeForRelease(p)
  BY <1>2, <1>7 DEF LockEmployeeForRelease, Then, At
<1>8. CASE Free(p)
  <2> DEFINE lines == {l \in LiveLines(db) : l.settlement = Ask[p].settlement}
             more == {Lock(Payable(l.record), "update") : l \in lines}
             next == IF ToReverse(p) # {} THEN "cancel"
                     ELSE IF Ask[p].op = "void" THEN "commit" ELSE "log"
  <2>1. CASE Refuse(p, "NOTHING_TO_RELEASE")
    BY <1>3, <2>1 DEF Refuse
  <2>2. CASE ~Refuse(p, "NOTHING_TO_RELEASE")
    <3>1. /\ \E D : draft' = [draft EXCEPT ![p] = D]
          /\ held' = [held EXCEPT ![p] = held[p] \cup more]
          /\ at' = [at EXCEPT ![p] = next]
          /\ seen' = [seen EXCEPT ![p] = ToReverse(p)]
          /\ db' = db /\ outcome' = outcome /\ at[p] = "free"
      BY <1>8, <2>2 DEF Free, At
    <3>2. \A x, m : Lock(Key(x), m) \notin more
      BY LocksDiffer
    <3>3. next \in {"cancel", "commit", "log"}
      OBVIOUS
    <3> HIDE DEF more, next
    <3>4. /\ held'[p] = held[p] \cup more /\ at'[p] = next
          /\ \A q \in Session \ {p} : SameSession(q)
      BY <1>1, <3>1 DEF Shapes, SameSession
    <3>5. \A x, m : Holds(p, Key(x), m)' => Holds(p, Key(x), m)
      BY <3>2, <3>4 DEF Holds
    <3> QED
      BY <1>1, <3>1, <3>3, <3>4, <3>5 DEF Move, GoesOn
  <2> QED
    BY <2>1, <2>2
<1>9. CASE ReverseEarning(p)
  BY <1>2, <1>3, <1>9 DEF ReverseEarning, Refuse, At
<1>10. CASE LogRelease(p)
  BY <1>2, <1>3, <1>10 DEF LogRelease, Refuse, At
<1> QED
  BY <1>4, <1>5, <1>6, <1>7, <1>8, <1>9, <1>10

LEMMA OtherMoves ==
    ASSUME TxInv, NEW p \in Session,
           \/ PriorReversal(p) \/ ReadEntry(p) \/ InsertReversal(p) \/ ShareSettlement(p)
           \/ CheckNotSettled(p) \/ WriteRecord(p) \/ ShareReferenced(p)
    PROVE  Move(p)
<1>1. Shapes
  BY DEF TxInv
<1>2. ASSUME NEW facts,
             NEW s \in {"read", "reverse", "share", "share settlement", "claim", "log", "write",
                        "commit"},
             Writes(p, facts, s), UNCHANGED seen,
             Ask[p].op # "anticipo", Ask[p].op = "void" => at[p] = "share"
      PROVE  Move(p)
  <2>1. seen' = [seen EXCEPT ![p] = seen'[p]]
    BY <1>2, SeenStays
  <2>2. /\ db' = db /\ at'[p] = s
        /\ \A x, m : Holds(p, Key(x), m)' =>
              Holds(p, Key(x), m) \/ Lock(Key(x), m) \in Wanted(p)
        /\ \A q \in Session \ {p} : SameSession(q)
    BY <1>1, <1>2, <2>1, WritesMoves
  <2> QED
    BY <1>2, <2>2 DEF Move, GoesOn
<1>3. ASSUME NEW o, Ends(p, db, o) PROVE Move(p)
  BY <1>1, <1>3, EndsMoves
<1>4. CASE PriorReversal(p)
  BY <1>2, <1>3, <1>4 DEF PriorReversal, Same, Refuse, Then, At
<1>5. CASE ReadEntry(p)
  BY <1>2, <1>3, <1>5 DEF ReadEntry, Refuse, Then, At
<1>6. CASE InsertReversal(p)
  BY <1>2, <1>3, <1>6 DEF InsertReversal, Refuse, At
<1>7. CASE ShareSettlement(p)
  BY <1>2, <1>7 DEF ShareSettlement, Then, At
<1>8. CASE CheckNotSettled(p)
  BY <1>2, <1>3, <1>8 DEF CheckNotSettled, Refuse, Then, At
<1>9. CASE WriteRecord(p)
  BY <1>2, <1>3, <1>9 DEF WriteRecord, Refuse, At
<1>10. CASE ShareReferenced(p)
  <2>1. PICK s \in {"claim", "log", "share settlement", "commit"} : Then(p, s)
    BY <1>10 DEF ShareReferenced
  <2>2. Ask[p].op \in {"settle", "void", "release", "reverse"} /\ at[p] = "share"
        /\ UNCHANGED seen
    BY <1>10 DEF ShareReferenced, At
  <2> QED
    BY <1>2, <2>1, <2>2 DEF Then
<1> QED
  BY <1>4, <1>5, <1>6, <1>7, <1>8, <1>9, <1>10

LEMMA EveryStepMoves ==
    ASSUME TxInv, NEW p \in Session, Step(p) \/ ConnectionLost(p)
    PROVE  Move(p)
<1>1. Shapes
  BY DEF TxInv
<1>2. CASE Step(p)
  <2>1. CASE Commit(p) \/ DeadlockVictim(p)
    BY <1>1, <2>1, EndsMoves DEF Commit, DeadlockVictim, Refuse
  <2> QED
    BY <1>2, <2>1, SettleMoves, EntryMoves, UndoMoves, OtherMoves DEF Step
<1>3. CASE ConnectionLost(p)
  BY <1>1, <1>3, EndsMoves DEF ConnectionLost
<1> QED
  BY <1>2, <1>3

-----------------------------------------------------------------------------
(* What an open transaction is about to write.  *)

UndoneVoids(p) ==
    draft[p].void = IF Ask[p].op = "void" THEN {Ask[p].settlement} ELSE {}

LEMMA UndoDrafts ==
    ASSUME TxInv, NEW p \in Session, at[p] = "commit", Ask[p].op \in {"void", "release"}
    PROVE  UndoneVoids(p)
<1> DEFINE v == IF Ask[p].op = "void" THEN {Ask[p].settlement} ELSE {}
           f == FreedOf(db, Ask[p].settlement)
           d == draft[p].ledger
           r == draft[p].release
<1>1. draft[p] = [settlement |-> {}, void |-> v, line |-> {}, freed |-> f,
                  ledger |-> d, gone |-> {}, corrected |-> {}, release |-> r]
  BY Sessions DEF UndoInv
<1> HIDE DEF v, f, d, r
<1>2. draft[p].void = v
  BY <1>1
<1> QED
  BY <1>2 DEF v, UndoneVoids

LEMMA DraftVoids ==
    ASSUME TxInv, NEW p \in Session, at[p] = "commit", NEW s \in draft[p].void
    PROVE  Ask[p].op = "void" /\ s = Ask[p].settlement
<1>1. Ask[p].op \in {"settle", "pago", "anticipo", "void", "release", "reverse", "delete",
                     "correct", "none"}
  BY AskIs DEF TxInv
<1>2. \A R : /\ Facts("ledger", R).void = {} /\ Facts("gone", R).void = {}
             /\ Facts("corrected", R).void = {}
  BY FactsAre DEF Nothing
<1>3. CASE Ask[p].op = "settle"
  <2>1. \E l, d : draft[p] = [settlement |-> {Ask[p].id}, void |-> {}, line |-> l, freed |-> {},
                             ledger |-> d, gone |-> {}, corrected |-> {}, release |-> {}]
    BY <1>3, Sessions DEF SettleInv
  <2>2. draft[p].void = {}
    BY <2>1
  <2> QED
    BY <2>2
<1>4. CASE Ask[p].op \in {"pago", "anticipo"}
  BY <1>2, <1>4, Sessions DEF EntryInv
<1>5. CASE Ask[p].op \in {"void", "release"}
  <2>1. UndoneVoids(p)
    BY <1>5, UndoDrafts
  <2> QED
    BY <2>1 DEF UndoneVoids
<1>6. CASE Ask[p].op = "reverse"
  BY <1>2, <1>6, Sessions DEF ReverseInv
<1>7. CASE Ask[p].op \in {"delete", "correct"}
  BY <1>2, <1>7, Sessions DEF EditInv
<1>8. CASE Ask[p].op = "none"
  BY <1>8, Sessions
<1> QED
  BY <1>1, <1>3, <1>4, <1>5, <1>6, <1>7, <1>8

LEMMA DraftReversals ==
    ASSUME TxInv, NEW p \in Session, at[p] = "commit",
           NEW e \in draft[p].ledger, e.kind = "reverso"
    PROVE  \/ Ask[p].op = "void" /\ e.id = Ask[p].id /\ Ask[p].settlement \in draft[p].void
           \/ /\ Ask[p].op = "release" /\ e.id = ReversoOf(Ask[p].settlement)
              /\ Ask[p].settlement \in Settlement
           \/ Ask[p].op = "reverse" /\ e.id = Ask[p].id
<1>1. Ask[p].op \in {"settle", "pago", "anticipo", "void", "release", "reverse", "delete",
                     "correct", "none"}
  BY AskIs DEF TxInv
<1>2. \A R : /\ Facts("ledger", R).ledger = R /\ Facts("gone", R).ledger = {}
             /\ Facts("corrected", R).ledger = {}
  BY FactsAre DEF Nothing
<1>3. CASE Ask[p].op = "settle"
  <2>1. draft[p].ledger = {[id |-> DevengoOf(Ask[p].id), kind |-> "devengo",
                            amount |-> Gross(draft[p].line), settlement |-> Ask[p].id,
                            reverses |-> None]}
    BY <1>3, Sessions DEF SettleInv
  <2>2. e.kind = "devengo"
    BY <2>1
  <2> QED
    BY <2>2
<1>4. CASE Ask[p].op \in {"pago", "anticipo"}
  <2>1. draft[p].ledger = {[id |-> Ask[p].id, kind |-> Ask[p].op, amount |-> -Ask[p].amount,
                            settlement |-> None, reverses |-> None]}
    BY <1>2, <1>4, Sessions DEF EntryInv
  <2>2. e.kind = Ask[p].op
    BY <2>1
  <2> QED
    BY <1>4, <2>2
<1>5. CASE Ask[p].op \in {"void", "release"}
  <2>1. draft[p].ledger = Undone(Ask[p]) /\ Ask[p].settlement \in Settlement
    BY <1>5, Sessions, AskIs DEF UndoInv, TxInv
  <2>2. e.id = Names(Ask[p])
    BY <2>1 DEF Undone, ReversalOf
  <2>3. Ask[p].op = "void" => draft[p].void = {Ask[p].settlement}
    BY <1>5, UndoDrafts DEF UndoneVoids
  <2> QED
    BY <1>5, <2>1, <2>2, <2>3 DEF Names
<1>6. CASE Ask[p].op = "reverse"
  <2>1. draft[p].ledger = {ReversalOf(EntryOf(db, Ask[p].entry), Ask[p].id)}
    BY <1>2, <1>6, Sessions DEF ReverseInv
  <2> QED
    BY <1>6, <2>1 DEF ReversalOf
<1>7. CASE Ask[p].op \in {"delete", "correct"}
  BY <1>2, <1>7, Sessions DEF EditInv
<1>8. CASE Ask[p].op = "none"
  BY <1>8, Sessions
<1> QED
  BY <1>1, <1>3, <1>4, <1>5, <1>6, <1>7, <1>8

\* The keys a session is about to take are of the id of its request.
LEMMA WantedKeys ==
    ASSUME TxInv, NEW p \in Session, NEW x \in Id, NEW m, Lock(Key(x), m) \in Wanted(p)
    PROVE  Named(Ask[p]) /\ Ask[p].id = x
<1>1. \A y, n : Lock(Key(x), m) = Lock(Key(y), n) => x = y
  BY LocksDiffer DEF Key
<1>2. /\ \A r, n : /\ Lock(Key(x), m) # Lock(Payable(r), n) /\ Lock(Key(x), m) # Lock(Row(r), n)
                   /\ Lock(Key(x), m) # Lock(Cancels(r), n)
      /\ \A n : Lock(Key(x), m) # Lock(Employee, n)
  BY LocksDiffer DEF Key, Payable, Row, Cancels, Employee
<1>3. CASE at[p] \in {"insert", "post", "log", "reverse"}
  <2>1. Ask[p].id = x
    <3>1. CASE at[p] \in {"insert", "post", "log"}
      <4>1. Lock(Key(x), m) \in {Lock(Key(Ask[p].id), "update")}
        BY <3>1, WantedIs
      <4> QED
        BY <1>1, <4>1
    <3>2. CASE at[p] = "reverse"
      <4>1. Lock(Key(x), m) \in {Lock(Key(Ask[p].id), "update"),
                                 Lock(Cancels(Ask[p].entry), "update")}
        BY <3>2, WantedIs
      <4> QED
        BY <1>1, <1>2, <4>1
    <3> QED
      BY <1>3, <3>1, <3>2
  <2>2. Ask[p].op \in {"settle", "pago", "anticipo", "void", "release", "reverse", "delete",
                       "correct", "none"}
    BY AskIs DEF TxInv
  <2>3. Ask[p].op \in {"delete", "correct"} => at[p] \in {"check", "write", "commit", "done"}
    BY Sessions DEF EditInv
  <2>4. Ask[p].op = "none" => at[p] = "done"
    BY Sessions
  <2> QED
    BY <1>3, <2>1, <2>2, <2>3, <2>4 DEF Named
<1>4. CASE at[p] = "cancel"
  <2>1. Ask[p].op \in {"void", "release"}
    <3>1. Ask[p].op \in {"settle", "pago", "anticipo", "void", "release", "reverse", "delete",
                         "correct", "none"}
      BY AskIs DEF TxInv
    <3>2. /\ Ask[p].op = "settle" => at[p] # "cancel"
          /\ Ask[p].op \in {"pago", "anticipo"} => at[p] # "cancel"
          /\ Ask[p].op = "reverse" => at[p] # "cancel"
          /\ Ask[p].op \in {"delete", "correct", "none"} => at[p] # "cancel"
      BY Sessions DEF SettleInv, EntryInv, ReverseInv, EditInv
    <3> QED
      BY <1>4, <3>1, <3>2
  <2>2. Lock(Key(x), m) \in {Lock(Key(ReversalId(p)), "update")}
                              \cup {Lock(Cancels(e.id), "update") : e \in seen[p]}
    BY <1>4, WantedIs
  <2>3. x = ReversalId(p)
    BY <1>1, <1>2, <2>2
  <2>4. Ask[p].settlement \in Settlement
    BY <2>1, AskIs DEF TxInv
  <2>5. Ask[p].op = "void"
    BY <2>1, <2>3, <2>4, IdAssumption DEF ReversalId
  <2> QED
    BY <2>3, <2>5 DEF ReversalId, Named
<1>5. CASE at[p] \notin {"insert", "post", "log", "reverse", "cancel"}
  <2>1. at[p] \notin {"share", "share settlement", "claim", "lock", "lock employee", "write"}
          => Wanted(p) = {}
    BY <1>5 DEF Wanted
  <2>2. /\ at[p] = "share" => Lock(Key(x), m) \in {Lock(Employee, "share")}
        /\ at[p] = "share settlement" =>
              Lock(Key(x), m) \in {Lock(Row(EntryOf(db, Ask[p].entry).settlement), "share")}
        /\ at[p] = "claim" => Lock(Key(x), m) \in {Lock(Payable(NextLine(p).record), "update")}
        /\ at[p] = "lock" => Lock(Key(x), m) \in {Lock(Row(Ask[p].settlement), "update")}
        /\ at[p] = "lock employee" => Lock(Key(x), m) \in {Lock(Employee, "update")}
        /\ at[p] = "write" => Lock(Key(x), m) \in {Lock(Row(Ask[p].record), "edit")}
    BY WantedIs
  <2> QED
    BY <1>2, <2>1, <2>2
<1> QED
  BY <1>3, <1>4, <1>5

-----------------------------------------------------------------------------
(* The invariant of requests that are sent again.  *)

LEMMA VoidOnceKept ==
    ASSUME TxInv, TxInv', RetryInv, OneRequestPerId, NEW p \in Session, Move(p),
           scene' = scene, NEW q \in Session
    PROVE  VoidOnce(q)'
<1> SUFFICES ASSUME Ask[q].op = "void"
             PROVE  VoidOnce(q)'
  BY DEF VoidOnce, Ask
<1> DEFINE s == Ask[q].settlement
<1>1. Ask' = Ask /\ VoidOnce(q)
  BY DEF Ask, RetryInv
<1>2. /\ db'.void = db.void \/ (at[p] = "commit" /\ db'.void = db.void \cup draft[p].void)
      /\ db'.ledger = db.ledger
           \/ (at[p] = "commit" /\ db'.ledger = db.ledger \cup draft[p].ledger
                                /\ db'.void = db.void \cup draft[p].void)
  <2>1. /\ View(p).void = db.void \cup draft[p].void
        /\ View(p).ledger = db.ledger \cup draft[p].ledger
    BY BothIs DEF View
  <2>2. db' = db \/ (at[p] = "commit" /\ db' = View(p))
    BY DEF Move, EndsHere, GoesOn
  <2> QED
    BY <2>1, <2>2
<1>3. ASSUME at'[q] \in {"free", "cancel", "share", "commit"} PROVE s \notin db'.void
  <2>1. CASE q = p
    BY <1>1, <1>3, <2>1 DEF Move, EndsHere, GoesOn, VoidOnce
  <2>2. CASE q # p
    <3>1. at[q] \in {"free", "cancel", "share", "commit"}
      BY <1>3, <2>2 DEF Move, SameSession
    <3>2. s \notin db.void /\ Holds(q, Row(s), "update")
      BY <1>1, <3>1, Sessions DEF VoidOnce, UndoInv
    <3>3. ASSUME at[p] = "commit", s \in draft[p].void PROVE FALSE
      <4>1. Ask[p].op = "void" /\ s = Ask[p].settlement
        BY <3>3, DraftVoids
      <4>2. Holds(p, Row(s), "update")
        BY <3>3, <4>1, Sessions DEF UndoInv
      <4>3. Apart(p, q)
        BY <2>2 DEF TxInv
      <4> HIDE DEF s
      <4> QED
        BY <3>2, <4>2, <4>3, Exclusive
    <3> QED
      BY <1>2, <3>2, <3>3
  <2> QED
    BY <2>1, <2>2
<1>4. ASSUME NEW e \in db'.ledger, e.kind = "reverso", e.id = Ask[q].id, e.settlement = s
      PROVE  s \in db'.void
  <2>1. CASE e \in db.ledger
    <3>1. s \in db.void
      BY <1>1, <1>4, <2>1 DEF VoidOnce
    <3> QED
      BY <1>2, <3>1
  <2>2. CASE e \notin db.ledger
    <3>1. at[p] = "commit" /\ e \in draft[p].ledger /\ db'.void = db.void \cup draft[p].void
      BY <1>2, <1>4, <2>2
    <3>2. Ask[q].id \in Id
      BY AskIs DEF TxInv
    <3>3. Named(Ask[q]) /\ (Ask[p].op \in {"void", "reverse"} => Named(Ask[p]))
      BY DEF Named
    <3>4. Named(Ask[p]) /\ Ask[p].id = Ask[q].id => Ask[p] = Ask[q]
      BY <3>3 DEF OneRequestPerId, Ask, TxInv
    <3>5. \/ Ask[p].op = "void" /\ e.id = Ask[p].id /\ Ask[p].settlement \in draft[p].void
          \/ /\ Ask[p].op = "release" /\ e.id = ReversoOf(Ask[p].settlement)
             /\ Ask[p].settlement \in Settlement
          \/ Ask[p].op = "reverse" /\ e.id = Ask[p].id
      BY <1>4, <3>1, DraftReversals
    <3>6. Ask[p].op = "void" /\ e.id = Ask[p].id /\ Ask[p].settlement \in draft[p].void
      BY <1>4, <3>2, <3>3, <3>4, <3>5, IdAssumption
    <3> QED
      BY <1>4, <3>1, <3>3, <3>4, <3>6
  <2> QED
    BY <2>1, <2>2
<1> QED
  BY <1>1, <1>3, <1>4 DEF VoidOnce

LEMMA RetryKept ==
    ASSUME TxInv, TxInv', RetryInv, OneRequestPerId, NEW p \in Session, Move(p), scene' = scene
    PROVE  RetryInv'
<1>1. Ask' = Ask
  BY DEF Ask
<1>2. ASSUME NEW q \in Session PROVE HoldsNothing(q)'
  <2>1. HoldsNothing(q)
    BY DEF RetryInv
  <2> QED
    BY <1>1, <2>1 DEF HoldsNothing, Move, EndsHere, GoesOn, SameSession
<1>3. ASSUME NEW q \in Session PROVE OwnKeys(q)'
  <2>1. OwnKeys(q)
    BY DEF RetryInv
  <2>2. CASE q # p
    BY <1>1, <2>1, <2>2 DEF OwnKeys, Holds, Move, SameSession
  <2>3. CASE q = p /\ EndsHere(p)
    BY <2>3 DEF OwnKeys, Holds, EndsHere
  <2>4. CASE q = p /\ GoesOn(p)
    <3> SUFFICES ASSUME NEW x \in Id, NEW m, Holds(p, Key(x), m)'
                 PROVE  /\ Named(Ask[p]) /\ Ask[p].id = x
                        /\ Ask[p].op = "anticipo" => at'[p] = "commit"
      BY <1>1, <2>4 DEF OwnKeys
    <3>1. CASE Holds(p, Key(x), m)
      BY <2>1, <2>4, <3>1 DEF OwnKeys, GoesOn
    <3>2. CASE Lock(Key(x), m) \in Wanted(p)
      <4>1. at[p] \in {"find", "lock employee"} => Lock(Key(x), m) \notin Wanted(p)
        <5>1. at[p] = "lock employee" => Wanted(p) = {Lock(Employee, "update")}
          BY WantedIs
        <5>2. at[p] = "find" => Wanted(p) = {}
          BY WantedIs
        <5>3. Lock(Key(x), m) # Lock(Employee, "update")
          BY LocksDiffer DEF Key, Employee
        <5> QED
          BY <5>1, <5>2, <5>3
      <4> QED
        BY <2>4, <3>2, <4>1, WantedKeys DEF GoesOn
    <3> QED
      BY <2>4, <3>1, <3>2 DEF GoesOn
  <2> QED
    BY <2>2, <2>3, <2>4 DEF Move
<1> QED
  BY <1>2, <1>3, VoidOnceKept DEF RetryInv

LEMMA RetryStarts ==
    ASSUME Init, OneRequestPerId
    PROVE  RetryInv
<1> SUFFICES ASSUME NEW p \in Session
             PROVE  HoldsNothing(p) /\ OwnKeys(p) /\ VoidOnce(p)
  BY DEF RetryInv
<1>1. held[p] = {} /\ at[p] = FirstStatement(Ask[p].op) /\ db = Before /\ scene \in Scene
  BY DEF Init
<1>2. Ask[p].op = "void" => at[p] = "lock"
  BY <1>1 DEF FirstStatement
<1>3. VoidOnce(p)
  BY <1>1, <1>2 DEF VoidOnce, OneRequestPerId, Ask, Before
<1> QED
  BY <1>1, <1>3 DEF HoldsNothing, OwnKeys, Holds

-----------------------------------------------------------------------------
(* Nobody who asked for what is there is refused.  *)

\* A session that holds nothing is in no cycle of waiting.
LEMMA NotInACycle ==
    ASSUME NEW p \in Session, held[p] = {}
    PROVE  ~Deadlocked(p)
<1> DEFINE P == Session \ {p}
<1>1. P \in SUBSET Session /\ p \notin P
  OBVIOUS
<1>2. \A q \in Session : Blockers(q) \subseteq P
  BY DEF Blockers
<1> HIDE DEF P
<1> QED
  BY <1>1, <1>2 DEF Deadlocked

LEMMA VoidIsAnswered ==
    ASSUME TxInv, RetryInv, NEW p \in Session, Step(p), Ask[p].op = "void",
           outcome[p] = "running", AlreadyInTheBooks(p)
    PROVE  outcome'[p] \in {"running", "created", "same", "lost"}
<1>1. Ask[p].settlement \in db.void
  <2>1. PICK e \in db.ledger : /\ e.id = Ask[p].id /\ e.settlement = Ask[p].settlement
                               /\ e.kind = "reverso"
    BY DEF AlreadyInTheBooks
  <2> QED
    BY <2>1 DEF RetryInv, VoidOnce
<1>2. at[p] = "lock"
  <2>1. at[p] # "done"
    BY DEF TxInv, SessionInv
  <2>2. at[p] \notin {"free", "cancel", "share", "commit"}
    BY <1>1 DEF RetryInv, VoidOnce
  <2> QED
    BY <2>1, <2>2, Sessions DEF UndoInv
<1>3. held[p] = {}
  BY <1>2 DEF RetryInv, HoldsNothing
<1>4. ~Deadlocked(p)
  BY <1>3, NotInACycle
<1>5. LockForVoid(p)
  BY <1>2, <1>4
     DEF Step, At, FindSettlement, ListPending, InsertSettlement, ClaimPayable, NameWinner,
         CreditWorker, FindLedgerEntry, LockForEntry, CheckBalance, AddLedgerEntry,
         PriorRelease, LockForRelease, LockEmployeeForRelease, Free, ReverseEarning,
         LogRelease, PriorReversal, ReadEntry, InsertReversal, CheckNotSettled, WriteRecord,
         ShareReferenced, ShareSettlement, Commit, DeadlockVictim
<1>6. Ask[p].settlement \in db.settlement
  BY <1>1 DEF TxInv, InOrder
<1>7. Same(p)
  <2>1. \E e \in db.ledger : /\ e.id = Ask[p].id /\ e.settlement = Ask[p].settlement
                             /\ e.kind = "reverso"
    BY DEF AlreadyInTheBooks
  <2> QED
    BY <1>1, <1>5, <1>6, <2>1 DEF LockForVoid, VoidRetry
<1> QED
  BY <1>7 DEF Same, Ends, TxInv, Shapes

LEMMA AdvanceIsAnswered ==
    ASSUME TxInv, RetryInv, OneRequestPerId, NEW p \in Session, Step(p),
           Ask[p].op = "anticipo", outcome[p] = "running", AlreadyInTheBooks(p)
    PROVE  outcome'[p] \in {"running", "created", "same", "lost"}
<1>1. HasId(db, Ask[p].id) /\ Matches(p, EntryOf(db, Ask[p].id))
  BY DEF AlreadyInTheBooks
<1>2. at[p] \in {"find", "lock employee", "check", "post"}
  <2>1. at[p] # "done"
    BY DEF TxInv, SessionInv
  <2>2. at[p] # "commit"
    BY <1>1, Sessions DEF EntryInv, Reserved
  <2> QED
    BY <2>1, <2>2, Sessions DEF EntryInv
<1>3. ~Deadlocked(p)
  <2>1. CASE at[p] = "lock employee"
    BY <2>1, NotInACycle DEF RetryInv, HoldsNothing
  <2>2. CASE at[p] \in {"find", "check"}
    BY <2>2, WantedIs DEF Deadlocked, Blockers
  <2>3. CASE at[p] = "post"
    <3>1. ASSUME NEW q \in Blockers(p) PROVE FALSE
      <4>1. q \in Session /\ \E y \in held[q] : y.what = Key(Ask[p].id)
        <5>1. Wanted(p) = {Lock(Key(Ask[p].id), "update")}
          BY <2>3, WantedIs
        <5>2. PICK x \in Wanted(p), y \in held[q] : x.what = y.what
          BY <3>1 DEF Blockers
        <5>3. x.what = Key(Ask[p].id)
          BY <5>1, <5>2, LocksDiffer
        <5> QED
          BY <3>1, <5>2, <5>3 DEF Blockers
      <4>2. PICK y \in held[q] : y.what = Key(Ask[p].id)
        BY <4>1
      <4>3. y = Lock(y.what, y.mode)
        BY <4>1 DEF TxInv, SessionInv, IsLock
      <4>4. Holds(q, Key(Ask[p].id), y.mode)
        BY <4>2, <4>3 DEF Holds
      <4>5. Ask[p].id \in Id /\ OwnKeys(q)
        BY <4>1, AskIs DEF TxInv, RetryInv
      <4>6. /\ Named(Ask[q]) /\ Ask[q].id = Ask[p].id
            /\ Ask[q].op = "anticipo" => at[q] = "commit"
        BY <4>4, <4>5 DEF OwnKeys
      <4>7. Ask[q] = Ask[p]
        BY <4>1, <4>6 DEF OneRequestPerId, Named, Ask, TxInv
      <4>8. Reserved(q, Ask[p].id)
        BY <4>1, <4>6, <4>7, Sessions DEF EntryInv
      <4> QED
        BY <1>1, <4>8 DEF Reserved
    <3> QED
      BY <3>1 DEF Deadlocked
  <2> QED
    BY <1>2, <2>1, <2>2, <2>3
<1>4. FindLedgerEntry(p) \/ LockForEntry(p) \/ AddLedgerEntry(p)
  BY <1>2, <1>3
     DEF Step, At, FindSettlement, ListPending, InsertSettlement, ClaimPayable, NameWinner,
         CreditWorker, CheckBalance, LockForVoid,
         PriorRelease, LockForRelease, LockEmployeeForRelease, Free, ReverseEarning,
         LogRelease, PriorReversal, ReadEntry, InsertReversal, CheckNotSettled, WriteRecord,
         ShareReferenced, ShareSettlement, Commit, DeadlockVictim
<1>5. Same(p) \/ outcome' = outcome
  BY <1>1, <1>4 DEF FindLedgerEntry, LockForEntry, AddLedgerEntry, AnswerTaken, Then, Writes
<1> QED
  BY <1>5 DEF Same, Ends, TxInv, Shapes

LEMMA NobodyIsRefused ==
    ASSUME TxInv, RetryInv, OneRequestPerId, [Next]_vars, NEW q \in Session,
           Ask[q].op \in {"void", "anticipo"}
    PROVE  ~RefusesDone(q)
<1> SUFFICES ASSUME outcome[q] = "running", AlreadyInTheBooks(q)
             PROVE  outcome'[q] \in {"running", "created", "same", "lost"}
  BY DEF RefusesDone
<1>1. CASE UNCHANGED vars
  BY <1>1 DEF vars
<1>2. ASSUME NEW p \in Session, Step(p) \/ ConnectionLost(p)
      PROVE  outcome'[q] \in {"running", "created", "same", "lost"}
  <2>1. CASE q # p
    BY <1>2, <2>1, EveryStepMoves DEF Move, SameSession
  <2>2. CASE q = p /\ ConnectionLost(p)
    BY <2>2 DEF ConnectionLost, Ends, TxInv, Shapes
  <2>3. CASE q = p /\ Step(p)
    BY <2>3, VoidIsAnswered, AdvanceIsAnswered
  <2> QED
    BY <1>2, <2>1, <2>2, <2>3
<1> QED
  BY <1>1, <1>2 DEF Next

\* A void or an advance that is sent again learns that it was done: where an id
\* names one request, no copy of it is refused once the first has committed,
\* neither by what it finds nor as the victim of a deadlock.
THEOREM RetriesLearn ==
    ASSUME OneRequestPerId
    PROVE  Spec => ResentIsAnswered
<1>1. Init => TxInv /\ RetryInv
  BY Starts, RetryStarts
<1>2. TxInv /\ RetryInv /\ [Next]_vars => (TxInv /\ RetryInv)'
  <2> SUFFICES ASSUME TxInv, RetryInv, [Next]_vars
               PROVE  (TxInv /\ RetryInv)'
    OBVIOUS
  <2>1. TxInv'
    BY Steps
  <2>2. CASE UNCHANGED vars
    <3>1. \A p \in Session : (HoldsNothing(p) /\ OwnKeys(p) /\ VoidOnce(p))'
      BY <2>2 DEF RetryInv, HoldsNothing, OwnKeys, VoidOnce, Holds, Ask, vars
    <3> QED
      BY <2>1, <3>1 DEF RetryInv
  <2>3. CASE Next
    BY <2>1, <2>3, EveryStepMoves, RetryKept DEF Next
  <2> QED
    BY <2>1, <2>2, <2>3
<1>3. TxInv /\ RetryInv /\ [Next]_vars
        => \A p \in Session : Ask[p].op \in {"void", "anticipo"} => ~RefusesDone(p)
  BY NobodyIsRefused
<1>4. TxInv /\ RetryInv /\ [Next]_vars
        => [\A p \in Session : Ask[p].op \in {"void", "anticipo"} => ~RefusesDone(p)]_vars
  BY <1>3
<1> QED
  BY <1>1, <1>2, <1>4, PTL DEF Spec, ResentIsAnswered

=============================================================================
