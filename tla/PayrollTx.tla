----------------------------- MODULE PayrollTx -----------------------------
(***************************************************************************)
(* The money requests of Payroll, taken apart into the statements they run *)
(* on PostgreSQL.  Every request is one READ COMMITTED transaction: each   *)
(* statement sees what is committed when it starts plus what its own       *)
(* transaction wrote, row locks and uncommitted unique keys make others    *)
(* wait, a cycle of waiting costs one of them its transaction.             *)
(*                                                                         *)
(* A session runs one request.  A retry is another session with the same   *)
(* request: the client gave up waiting, the server need not have.          *)
(***************************************************************************)
EXTENDS Integers, FiniteSets, FiniteSetsExt

CONSTANTS
    Session,      \* the transactions
    Scene,        \* the requests that may meet, and the books they meet on
    Settlement,   \* ids of settlements
    Record,       \* ids of work records, in the order Pending lists them
    Id,           \* ids the clients make up, for movements and releases
    None          \* SQL's NULL

ASSUME RecordAssumption == Record \subseteq Nat /\ IsFiniteSet(Record)

VARIABLES
    scene,        \* the scene that is played; it does not change
    db,           \* what is committed: by table, the facts written so far
    draft,        \* what each open transaction has written
    held,         \* the locks of each open transaction
    at,           \* the statement each session runs next
    seen,         \* the rows a session has read and goes on from
    outcome       \* what the client was answered

vars == <<scene, db, draft, held, at, seen, outcome>>

\* The request of each session, what is committed when they start, and the
\* sessions whose connection may be lost.
Ask == scene.ask
Before == scene.books
Cut == scene.cut

-----------------------------------------------------------------------------
(* The tables, as sets of facts that only grow: voiding a settlement, freeing
   a line, deleting and correcting a record are facts too.  *)

Nothing ==
    [settlement |-> {}, void |-> {}, line |-> {}, freed |-> {}, ledger |-> {},
     gone |-> {}, corrected |-> {}, release |-> {}]

Both(A, B) == [t \in DOMAIN Nothing |-> A[t] \cup B[t]]

\* The server names the devengo of a settlement, and the reversals of a release.
DevengoOf(s) == <<"devengo", s>>
ReversoOf(s) == <<"reverso", s>>
EntryId == Id \cup {DevengoOf(s) : s \in Settlement} \cup {ReversoOf(s) : s \in Settlement}

\* Ids are random UUIDs: the server and a client never make up the same one.
ASSUME IdAssumption ==
    /\ None \notin Settlement \cup EntryId
    /\ \A s \in Settlement : DevengoOf(s) \notin Id /\ ReversoOf(s) \notin Id

LiveLines(B) == {l \in B.line : <<l.settlement, l.record>> \notin B.freed}

IsSettled(B, r) == \E l \in LiveLines(B) : l.record = r

Pending(B, scope) == {r \in scope : r \notin B.gone /\ ~IsSettled(B, r)}

\* A record is worth its quantity: 1, or 2 once corrected.
Quantity(B, r) == IF r \in B.corrected THEN 2 ELSE 1

Gross(lines) == MapThenSumSet(LAMBDA l : l.quantity, lines)

Owed(entries) == MapThenSumSet(LAMBDA e : e.amount, entries)

Balance(B) == Owed(B.ledger)

HasId(B, id) == \E e \in B.ledger : e.id = id

EntryOf(B, id) == CHOOSE e \in B.ledger : e.id = id

Reversed(B, e) == \E x \in B.ledger : x.reverses = e

LiveDevengos(B, s) ==
    {e \in B.ledger : e.kind = "devengo" /\ e.settlement = s /\ ~Reversed(B, e.id)}

ReversalOf(e, id) ==
    [id |-> id, kind |-> "reverso", amount |-> -e.amount,
     settlement |-> e.settlement, reverses |-> e.id]

-----------------------------------------------------------------------------
(* What may be asked, and of which books.  *)

Request ==
    [op : {"settle"}, id : Settlement, scope : SUBSET Record, gross : Nat]
      \cup [op : {"pago", "anticipo"}, id : Id, amount : Nat \ {0}]
      \cup [op : {"void", "release"}, settlement : Settlement, id : Id]
      \cup [op : {"reverse"}, entry : EntryId, id : Id]
      \cup [op : {"delete", "correct"}, record : Record]
      \cup [op : {"none"}]

\* A settlement has one devengo, which is above zero, what a worker is given is
\* below, and what takes a movement back names it.
IsMovement(B, e) ==
    \/ /\ e \in [id : EntryId, kind : {"devengo"}, amount : Nat \ {0},
                 settlement : B.settlement, reverses : {None}]
       /\ e.id = DevengoOf(e.settlement)
    \/ /\ e \in [id : Id, kind : {"pago", "anticipo"}, amount : Int,
                 settlement : {None}, reverses : {None}]
       /\ e.amount < 0
    \/ /\ e \in [id : EntryId, kind : {"reverso"}, amount : Int,
                 settlement : Settlement \cup {None}, reverses : EntryId]
       /\ \A s \in Settlement : e.id # DevengoOf(s)
       /\ HasId(B, e.reverses)

\* Books in order.  A settlement may be void and still have lines or a devengo
\* that live: an import can leave that behind.
InOrder(B) ==
    /\ B.settlement \subseteq Settlement
    /\ B.void \subseteq B.settlement
    /\ B.line \subseteq [settlement : B.settlement, record : Record, quantity : {1, 2}]
    /\ B.freed \subseteq B.settlement \X Record
    /\ B.gone \cup B.corrected \subseteq Record
    /\ \A l, m \in LiveLines(B) : l.record = m.record => l = m
    /\ IsFiniteSet(B.ledger)
    /\ \A e \in B.ledger : IsMovement(B, e)
    /\ \A s \in B.settlement : HasId(B, DevengoOf(s))
    /\ \A e, f \in B.ledger :
          e.id = f.id \/ (e.reverses = f.reverses /\ e.reverses # None) => e = f

ASSUME SceneAssumption ==
    \A played \in Scene :
        (\A p \in Session : played.ask[p] \in Request) /\ InOrder(played.books)

\* The requests that come with an id.
Named(a) == a.op \in {"settle", "pago", "anticipo", "void", "release", "reverse"}

\* Whoever sends a request gives it an id that is of no other, and that the books
\* have from nothing else; sending it again is the same request.
OneRequestPerId ==
    \A played \in Scene :
        /\ \A p, q \in Session :
              /\ Named(played.ask[p]) /\ Named(played.ask[q])
              /\ played.ask[p].id = played.ask[q].id
              => played.ask[p] = played.ask[q]
        /\ \A p \in Session : \A e \in played.books.ledger :
              /\ played.ask[p].op = "void" /\ e.kind = "reverso"
              /\ e.id = played.ask[p].id /\ e.settlement = played.ask[p].settlement
              => played.ask[p].settlement \in played.books.void

-----------------------------------------------------------------------------
(* Locks.  An entry of a unique index that is not committed yet is a lock on
   its key; a foreign key shares the row it points at.  *)

Key(id) == <<"key", id>>
Payable(r) == <<"payable", r>>
Cancels(e) == <<"cancels", e>>
Row(x) == <<"row", x>>
Employee == <<"employee", None>>

Lock(what, mode) == [what |-> what, mode |-> mode]

\* Mutant: payments lock the worker no harder than a foreign key does.
SharedOnly(p) == Lock(Employee, "share")

\* LockEmployeeForMoney: SELECT ... FOR UPDATE.
LockEmployeeForMoney(p) == Lock(Employee, "update")

\* FOR KEY SHARE goes with itself and with an UPDATE that leaves the keys alone.
Compatible(m, n) == {m, n} \in {{"share"}, {"share", "edit"}}

View(p) == Both(db, draft[p])

\* The client names the reversal of its void, the server that of a release.
ReversalId(p) ==
    IF Ask[p].op = "void" THEN Ask[p].id ELSE ReversoOf(Ask[p].settlement)

NextLine(p) == CHOOSE l \in seen[p] : \A m \in seen[p] : l.record <= m.record

LineIndex(p) == {Lock(Payable(NextLine(p).record), "update")}

\* What the next statement of a session has to lock.
Wanted(p) ==
    LET a == Ask[p] IN
    CASE at[p] \in {"insert", "post", "log"} -> {Lock(Key(a.id), "update")}
      [] at[p] = "share" -> {Lock(Employee, "share")}
      [] at[p] = "share settlement" ->
            {Lock(Row(EntryOf(db, a.entry).settlement), "share")}
      [] at[p] = "claim" -> LineIndex(p)
      [] at[p] = "lock" -> {Lock(Row(a.settlement), "update")}
      [] at[p] = "lock employee" -> {LockEmployeeForMoney(p)}
      [] at[p] = "write" -> {Lock(Row(a.record), "edit")}
      [] at[p] = "cancel" ->
            {Lock(Key(ReversalId(p)), "update")}
              \cup {Lock(Cancels(e.id), "update") : e \in seen[p]}
      [] at[p] = "reverse" ->
            {Lock(Key(a.id), "update"), Lock(Cancels(a.entry), "update")}
      [] OTHER -> {}

\* Mutant: a foreign key waits for nobody.
BlockersOfWrites(p) ==
    {q \in Session \ {p} :
        \E x \in Wanted(p), y \in held[q] :
            x.what = y.what /\ ~Compatible(x.mode, y.mode) /\ x.mode # "share"}

Blockers(p) ==
    {q \in Session \ {p} :
        \E x \in Wanted(p), y \in held[q] :
            x.what = y.what /\ ~Compatible(x.mode, y.mode)}

\* Mutant: nobody looks for cycles.
NeverDeadlocked(p) == FALSE

\* Whoever p waits for, and whoever they wait for: p is one of them.
Deadlocked(p) ==
    /\ Blockers(p) # {}
    /\ \A P \in SUBSET Session :
          Blockers(p) \subseteq P /\ (\A q \in P : Blockers(q) \subseteq P) => p \in P

-----------------------------------------------------------------------------
(* How a statement ends. *)

Running(p) == at[p] # "done"

\* Session p is at statement s of the request op, and nobody is in its way.
At(p, op, s) == Ask[p].op \in op /\ at[p] = s /\ Blockers(p) = {}

\* It ran, wrote these facts, took its locks, and the next one is s.
Writes(p, facts, s) ==
    /\ draft' = [draft EXCEPT ![p] = Both(@, facts)]
    /\ held' = [held EXCEPT ![p] = @ \cup Wanted(p)]
    /\ at' = [at EXCEPT ![p] = s]
    /\ UNCHANGED <<db, outcome>>

Then(p, s) == Writes(p, Nothing, s)

\* The transaction is over, and the client was answered o.
Ends(p, books, o) ==
    /\ db' = books
    /\ draft' = [draft EXCEPT ![p] = Nothing]
    /\ held' = [held EXCEPT ![p] = {}]
    /\ at' = [at EXCEPT ![p] = "done"]
    /\ seen' = [seen EXCEPT ![p] = {}]
    /\ outcome' = [outcome EXCEPT ![p] = o]

Refuse(p, code) == Ends(p, db, code)

\* 200 with what is already there.
Same(p) == Ends(p, db, "same")

Facts(table, rows) == [Nothing EXCEPT ![table] = rows]

-----------------------------------------------------------------------------
(* POST /settlements *)

FindSettlement(p) ==
    /\ At(p, {"settle"}, "find")
    /\ IF Ask[p].id \in db.settlement
       THEN Same(p)
       ELSE Then(p, "list") /\ UNCHANGED seen

LinesOf(p) ==
    {[settlement |-> Ask[p].id, record |-> r, quantity |-> Quantity(db, r)] :
        r \in Pending(db, Ask[p].scope)}

ListPending(p) ==
    /\ At(p, {"settle"}, "list")
    /\ \/ LinesOf(p) = {} /\ Refuse(p, "NOTHING_TO_SETTLE")
       \/ /\ LinesOf(p) # {} /\ Gross(LinesOf(p)) # Ask[p].gross
          /\ Refuse(p, "GROSS_CHANGED")
       \/ /\ LinesOf(p) # {} /\ Gross(LinesOf(p)) = Ask[p].gross
          /\ Then(p, "insert")
          /\ seen' = [seen EXCEPT ![p] = LinesOf(p)]

\* ON CONFLICT DO NOTHING: the loser of two identical requests reads the winner's.
InsertSettlement(p) ==
    /\ At(p, {"settle"}, "insert")
    /\ IF Ask[p].id \in db.settlement
       THEN Same(p)
       ELSE Writes(p, Facts("settlement", {Ask[p].id}), "share") /\ UNCHANGED seen

\* insertSettlementItems, one line.  The unique violation of a lost race aborts
\* the transaction: it holds nothing any more, and answers no statement.
ClaimPayable(p) ==
    /\ At(p, {"settle"}, "claim")
    /\ IF IsSettled(db, NextLine(p).record)
       THEN /\ draft' = [draft EXCEPT ![p] = Nothing]
            /\ held' = [held EXCEPT ![p] = {}]
            /\ at' = [at EXCEPT ![p] = "winner"]
            /\ UNCHANGED <<db, seen, outcome>>
       ELSE LET rest == seen[p] \ {NextLine(p)} IN
            /\ Writes(p, Facts("line", {NextLine(p)}),
                      IF rest = {} THEN "credit" ELSE "claim")
            /\ seen' = [seen EXCEPT ![p] = rest]

\* winningSettlement, asked on a transaction that answers no statement any more:
\* its error is thrown away, and the answer names no winner.
NameWinner(p) ==
    /\ At(p, {"settle"}, "winner")
    /\ Refuse(p, "PAYABLE_ALREADY_CLAIMED")

CreditWorker(p) ==
    /\ At(p, {"settle"}, "credit")
    /\ Writes(p, Facts("ledger", {[id |-> DevengoOf(Ask[p].id), kind |-> "devengo",
                                   amount |-> Gross(draft[p].line),
                                   settlement |-> Ask[p].id, reverses |-> None]}),
              "commit")
    /\ UNCHANGED seen

-----------------------------------------------------------------------------
(* POST /payments, /advances, /deductions, /adjustments.  A pago is held to the
   balance, an anticipo stands for every movement that is not.  *)

Matches(p, e) == e.kind = Ask[p].op /\ e.amount = -Ask[p].amount

\* What an id that is taken is answered with.
AnswerTaken(p) ==
    IF Matches(p, EntryOf(db, Ask[p].id)) THEN Same(p)
                                          ELSE Refuse(p, "IDEMPOTENCY_KEY_REUSED")

FindLedgerEntry(p) ==
    /\ At(p, {"pago", "anticipo"}, "find")
    /\ IF HasId(db, Ask[p].id)
       THEN AnswerTaken(p)
       ELSE Then(p, "lock employee") /\ UNCHANGED seen

LockForEntry(p) ==
    /\ At(p, {"pago", "anticipo"}, "lock employee")
    /\ Then(p, IF Ask[p].op = "pago" THEN "check" ELSE "post")
    /\ UNCHANGED seen

CheckBalance(p) ==
    /\ At(p, {"pago"}, "check")
    /\ IF Ask[p].amount > Balance(db)
       THEN Refuse(p, "AMOUNT_EXCEEDS_BALANCE")
       ELSE Then(p, "post") /\ UNCHANGED seen

AddLedgerEntry(p) ==
    /\ At(p, {"pago", "anticipo"}, "post")
    /\ IF HasId(db, Ask[p].id)
       THEN AnswerTaken(p)
       ELSE /\ Writes(p, Facts("ledger", {[id |-> Ask[p].id, kind |-> Ask[p].op,
                                          amount |-> -Ask[p].amount,
                                          settlement |-> None, reverses |-> None]}),
                      "commit")
            /\ UNCHANGED seen

-----------------------------------------------------------------------------
(* POST /settlements/{id}/void and /settlements/{id}/release *)

\* Mutant: a void that asks for no key, and takes every second one for new.
NeverRetried(p) == Refuse(p, "SETTLEMENT_ALREADY_VOID")

\* The reversal this very request wrote the first time round.
VoidRetry(p) ==
    IF \E e \in db.ledger : /\ e.id = Ask[p].id
                            /\ e.settlement = Ask[p].settlement
                            /\ e.kind = "reverso"
    THEN Same(p)
    ELSE Refuse(p, "SETTLEMENT_ALREADY_VOID")

LockForVoid(p) ==
    /\ At(p, {"void"}, "lock")
    /\ \/ Ask[p].settlement \notin db.settlement /\ Refuse(p, "NOT_FOUND")
       \/ Ask[p].settlement \in db.void /\ VoidRetry(p)
       \/ /\ Ask[p].settlement \in db.settlement \ db.void
          /\ Then(p, "free") /\ UNCHANGED seen

PriorRelease(p) ==
    /\ At(p, {"release"}, "find")
    /\ IF \E x \in db.release : x.id = Ask[p].id
       THEN IF [id |-> Ask[p].id, settlement |-> Ask[p].settlement] \in db.release
            THEN Same(p)
            ELSE Refuse(p, "IDEMPOTENCY_KEY_REUSED")
       ELSE Then(p, "lock") /\ UNCHANGED seen

LockForRelease(p) ==
    /\ At(p, {"release"}, "lock")
    /\ \/ Ask[p].settlement \notin db.settlement /\ Refuse(p, "NOT_FOUND")
       \/ /\ Ask[p].settlement \in db.settlement \ db.void
          /\ Refuse(p, "SETTLEMENT_NOT_VOID")
       \/ /\ Ask[p].settlement \in db.void
          /\ Then(p, "lock employee") /\ UNCHANGED seen

LockEmployeeForRelease(p) ==
    /\ At(p, {"release"}, "lock employee")
    /\ Then(p, "free") /\ UNCHANGED seen

\* Mutant: a void that frees the work and leaves the credit.
NothingToReverse(p) == {}

ToReverse(p) == LiveDevengos(db, Ask[p].settlement)

\* Void the lines (and, in a void, the settlement), and read what is left to
\* reverse.  A line that is being voided keeps the index entry of its payable
\* until the transaction ends.
Free(p) ==
    LET s == Ask[p].settlement
        lines == {l \in LiveLines(db) : l.settlement = s}
        devengos == ToReverse(p)
    IN
    /\ At(p, {"void", "release"}, "free")
    /\ IF Ask[p].op = "release" /\ lines = {} /\ devengos = {}
       THEN Refuse(p, "NOTHING_TO_RELEASE")
       ELSE /\ draft' = [draft EXCEPT ![p] =
                 [@ EXCEPT !.freed = {<<s, l.record>> : l \in lines},
                           !.void = IF Ask[p].op = "void" THEN {s} ELSE {}]]
            /\ held' = [held EXCEPT ![p] =
                 @ \cup {Lock(Payable(l.record), "update") : l \in lines}]
            /\ at' = [at EXCEPT ![p] =
                 IF devengos # {} THEN "cancel"
                 ELSE IF Ask[p].op = "void" THEN "commit" ELSE "log"]
            /\ seen' = [seen EXCEPT ![p] = devengos]
            /\ UNCHANGED <<db, outcome>>

\* Settle writes one devengo, so there is one to reverse.  A bare INSERT: an id
\* or a movement that is already taken is an error nobody expects, a 500.
ReverseEarning(p) ==
    /\ At(p, {"void", "release"}, "cancel")
    /\ \E e \in seen[p] :
          IF HasId(db, ReversalId(p)) \/ Reversed(db, e.id)
          THEN Refuse(p, "error")
          ELSE /\ Writes(p, Facts("ledger", {ReversalOf(e, ReversalId(p))}), "share")
               /\ UNCHANGED seen

LogRelease(p) ==
    /\ At(p, {"release"}, "log")
    /\ IF \E x \in db.release : x.id = Ask[p].id
       THEN Refuse(p, "error")
       ELSE /\ Writes(p, Facts("release", {[id |-> Ask[p].id,
                                            settlement |-> Ask[p].settlement]}),
                      "commit")
            /\ UNCHANGED seen

-----------------------------------------------------------------------------
(* POST /ledger/{id}/reverse *)

PriorReversal(p) ==
    /\ At(p, {"reverse"}, "find")
    /\ IF HasId(db, Ask[p].id)
       THEN IF EntryOf(db, Ask[p].id).reverses = Ask[p].entry
            THEN Same(p)
            ELSE Refuse(p, "IDEMPOTENCY_KEY_REUSED")
       ELSE Then(p, "read") /\ UNCHANGED seen

ReadEntry(p) ==
    /\ At(p, {"reverse"}, "read")
    /\ \/ ~HasId(db, Ask[p].entry) /\ Refuse(p, "NOT_FOUND")
       \/ /\ HasId(db, Ask[p].entry)
          /\ IF EntryOf(db, Ask[p].entry).kind = "reverso"
             THEN Refuse(p, "ALREADY_REVERSED")
             ELSE Then(p, "reverse") /\ UNCHANGED seen

\* ON CONFLICT DO NOTHING looks at the id first; no row is taken to mean that
\* the id belongs to another farm.
InsertReversal(p) ==
    /\ At(p, {"reverse"}, "reverse")
    /\ \/ HasId(db, Ask[p].id) /\ Refuse(p, "IDEMPOTENCY_KEY_REUSED")
       \/ /\ ~HasId(db, Ask[p].id) /\ Reversed(db, Ask[p].entry)
          /\ Refuse(p, "ALREADY_REVERSED")
       \/ /\ ~HasId(db, Ask[p].id) /\ ~Reversed(db, Ask[p].entry)
          /\ Writes(p, Facts("ledger", {ReversalOf(EntryOf(db, Ask[p].entry), Ask[p].id)}),
                    "share")
          /\ UNCHANGED seen

-----------------------------------------------------------------------------
(* PATCH and DELETE /work-records/{id} *)

CheckNotSettled(p) ==
    /\ At(p, {"delete", "correct"}, "check")
    /\ IF IsSettled(db, Ask[p].record)
       THEN Refuse(p, "WORK_RECORD_SETTLED")
       ELSE Then(p, "write") /\ UNCHANGED seen

WriteRecord(p) ==
    /\ At(p, {"delete", "correct"}, "write")
    /\ IF Ask[p].record \in db.gone
       THEN Refuse(p, "NOT_FOUND")
       ELSE /\ Writes(p, Facts(IF Ask[p].op = "delete" THEN "gone" ELSE "corrected",
                               {Ask[p].record}), "commit")
            /\ UNCHANGED seen

-----------------------------------------------------------------------------
(* What every transaction does. *)

\* The rows a foreign key points at: the worker, then the settlement.
ShareReferenced(p) ==
    LET references == Ask[p].op = "reverse" /\ EntryOf(db, Ask[p].entry).settlement # None
    IN
    /\ At(p, {"settle", "void", "release", "reverse"}, "share")
    /\ Then(p, CASE Ask[p].op = "settle" -> "claim"
                 [] Ask[p].op = "release" -> "log"
                 [] references -> "share settlement"
                 [] OTHER -> "commit")
    /\ UNCHANGED seen

ShareSettlement(p) ==
    /\ At(p, {"reverse"}, "share settlement")
    /\ Then(p, "commit") /\ UNCHANGED seen

\* serveInTx, after the handler answered 2xx.
Commit(p) == at[p] = "commit" /\ Ends(p, View(p), "created")

\* The victim's statement fails with 40P01, which the API answers with a 500.
DeadlockVictim(p) == Deadlocked(p) /\ Refuse(p, "error")

\* The connection is lost: before the commit, or after it.  serveInTx ignores
\* the error of the commit itself, and its 2xx stands.
ConnectionLost(p) ==
    /\ p \in Cut
    /\ Running(p)
    /\ \/ Ends(p, db, "lost")
       \/ at[p] = "commit" /\ Ends(p, View(p), "lost")
       \/ at[p] = "commit" /\ Ends(p, db, "created")

Step(p) ==
    \/ FindSettlement(p) \/ ListPending(p) \/ InsertSettlement(p)
    \/ ClaimPayable(p) \/ NameWinner(p) \/ CreditWorker(p)
    \/ FindLedgerEntry(p) \/ LockForEntry(p) \/ CheckBalance(p) \/ AddLedgerEntry(p)
    \/ LockForVoid(p) \/ PriorRelease(p) \/ LockForRelease(p)
    \/ LockEmployeeForRelease(p) \/ Free(p) \/ ReverseEarning(p) \/ LogRelease(p)
    \/ PriorReversal(p) \/ ReadEntry(p) \/ InsertReversal(p)
    \/ CheckNotSettled(p) \/ WriteRecord(p)
    \/ ShareReferenced(p) \/ ShareSettlement(p)
    \/ Commit(p) \/ DeadlockVictim(p)

Next ==
    /\ \E p \in Session : Step(p) \/ ConnectionLost(p)
    /\ UNCHANGED scene

FirstStatement(op) ==
    CASE op \in {"delete", "correct"} -> "check"
      [] op = "void" -> "lock"
      [] op = "none" -> "done"
      [] OTHER -> "find"

Init ==
    /\ scene \in Scene
    /\ db = Before
    /\ draft = [p \in Session |-> Nothing]
    /\ held = [p \in Session |-> {}]
    /\ at = [p \in Session |-> FirstStatement(Ask[p].op)]
    /\ seen = [p \in Session |-> {}]
    /\ outcome = [p \in Session |-> IF Ask[p].op = "none" THEN "idle" ELSE "running"]

Spec == Init /\ [][Next]_vars

\* A statement that nobody blocks runs, and a cycle of waiting is found.
FairSpec == Spec /\ \A p \in Session : WF_vars(Step(p) /\ UNCHANGED scene)

-----------------------------------------------------------------------------
(* Properties *)

Answer == {"idle", "running", "created", "same", "lost", "error", "NOT_FOUND",
           "NOTHING_TO_SETTLE", "GROSS_CHANGED", "PAYABLE_ALREADY_CLAIMED",
           "IDEMPOTENCY_KEY_REUSED", "AMOUNT_EXCEEDS_BALANCE",
           "SETTLEMENT_ALREADY_VOID", "SETTLEMENT_NOT_VOID", "NOTHING_TO_RELEASE",
           "ALREADY_REVERSED", "WORK_RECORD_SETTLED"}

LedgerRow ==
    [id : EntryId, kind : {"devengo", "pago", "anticipo", "reverso"}, amount : Int,
     settlement : Settlement \cup {None}, reverses : {None} \cup {e.id : e \in db.ledger}]

IsBooks(B) ==
    /\ B.settlement \subseteq Settlement
    /\ B.void \subseteq Settlement
    /\ B.line \subseteq [settlement : Settlement, record : Record, quantity : {1, 2}]
    /\ B.freed \subseteq Settlement \X Record
    /\ \A e \in B.ledger : e \in LedgerRow
    /\ B.gone \cup B.corrected \subseteq Record

\* The books hold rows of their tables' types, and the locks of the sessions
\* that hold any at the same time are compatible.
TypeOK ==
    /\ IsBooks(db)
    /\ \A p \in Session : IsBooks(draft[p])
    /\ outcome \in [Session -> Answer]
    /\ \A p \in Session : at[p] = "winner" => held[p] = {} /\ draft[p] = Nothing
    /\ \A p \in Session : at[p] = "done" <=> outcome[p] # "running"
    /\ \A p, q \in Session : p # q =>
          \A x \in held[p], y \in held[q] : x.what = y.what => Compatible(x.mode, y.mode)

\* A void commits whole: its lines are freed and its devengo is reversed, once,
\* also when a reversal by hand or a lost connection comes between its statements.
VoidIsWhole ==
    \A s \in db.void \ Before.void :
        /\ ~\E l \in LiveLines(db) : l.settlement = s
        /\ Cardinality({x \in db.ledger : x.reverses = DevengoOf(s)}) = 1

\* Work under a live line is neither corrected nor removed beneath the money.
ClaimedWorkStands ==
    \A l \in LiveLines(db) :
        l.record \notin db.gone /\ l.quantity = Quantity(db, l.record)

\* What session p asks for is in the committed books under the id it asked with.
AlreadyInTheBooks(p) ==
    LET a == Ask[p] IN
    CASE a.op = "settle" -> a.id \in db.settlement
      [] a.op \in {"pago", "anticipo"} ->
            HasId(db, a.id) /\ Matches(p, EntryOf(db, a.id))
      [] a.op = "void" ->
            \E e \in db.ledger : e.id = a.id /\ e.settlement = a.settlement
                                   /\ e.kind = "reverso"
      [] a.op = "release" -> [id |-> a.id, settlement |-> a.settlement] \in db.release
      [] a.op = "reverse" -> \E e \in db.ledger : e.id = a.id /\ e.reverses = a.entry
      [] OTHER -> FALSE

RefusesDone(p) ==
    /\ outcome[p] = "running" /\ AlreadyInTheBooks(p)
    /\ outcome'[p] \notin {"running", "created", "same", "lost"}

\* A void or an advance is never refused while what it asks for is already in the
\* books under its own id: the client that retries learns that it was done.
ResentIsAnswered ==
    [][\A p \in Session : Ask[p].op \in {"void", "anticipo"} => ~RefusesDone(p)]_vars

\* Every request that is not cut off is answered: waits end, cycles are broken.
Answered == \A p \in Session : <>(outcome[p] # "running")

Holders(B) ==
    [r \in Record |-> IF IsSettled(B, r)
                     THEN (CHOOSE l \in LiveLines(B) : l.record = r).settlement
                     ELSE None]

Credits(B) ==
    [s \in Settlement |-> IF LiveDevengos(B, s) # {} THEN "standing"
                         ELSE IF HasId(B, DevengoOf(s)) THEN "cancelled" ELSE "none"]

Pagos(B) == {e \in B.ledger : e.kind = "pago"}

\* Each commit is one step of the books as the payroll promises them.
PromisedBooks == INSTANCE Books WITH
    Work <- Record,
    Paper <- Settlement,
    Nobody <- None,
    holder <- Holders(db),
    credit <- Credits(db),
    balance <- Balance(db),
    paid <- -Owed(Pagos(db))

\* The statements, interleaved in every order, implement the books: work that
\* one settlement holds is credited by no other, a void frees and cancels all of
\* it at once, and what is paid was there.
KeepsThePromise == PromisedBooks!Spec

=============================================================================
