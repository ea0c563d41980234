----------------------------- MODULE SyncPush -----------------------------
(***************************************************************************)
(* What handsets did without signal, arriving.                             *)
(*                                                                         *)
(* A handset keeps what its user does in an outbox, as envelopes that each *)
(* carry an opId, and pushes the outbox in batches until every envelope    *)
(* has an answer.  A batch is one transaction: each envelope runs in a     *)
(* savepoint of its own, what was applied or found to be there already is  *)
(* remembered in sync_ops under its opId, and an envelope whose opId is    *)
(* remembered is answered with what is stored and not run again.           *)
(*                                                                         *)
(* A batch is one action here: overlapping batches wait for each other at  *)
(* the first row they share.  The handset is not in this repository; what  *)
(* it does with an answer is what the API asks of it.                      *)
(***************************************************************************)
EXTENDS Integers, FiniteSets, SequencesExt

CONSTANTS
    Handset,      \* devices, each with one user
    RoleOf,       \* the role of each handset's user
    Worker,       \* ids of workers
    Known,        \* the workers the farm has at first
    Weighing,     \* ids of work records
    Movement,     \* ids of ledger entries
    OpId,         \* keys of envelopes
    Value,        \* names, quantities and amounts
    Scene,        \* what may happen: each handset's diary, in order, and how
                  \* much is done on the web and swept at most
    None          \* SQL's NULL and the absence of a row

ASSUME RoleAssumption == RoleOf \in [Handset -> {"admin", "weigher"}]
ASSUME KnownAssumption == Known \subseteq Worker
ASSUME ValueAssumption == Value # {}

VARIABLES
    scene,        \* the scene that is played; it does not change
    books,        \* the farm: workers, work records, ledger, and sync_ops
    noted,        \* how much of its diary each handset has written down
    outbox,       \* by handset, the envelopes without an answer
    wire,         \* by handset, the batches on their way
    now,          \* the clock: it moves when somebody is taken off the payroll
    office,       \* how much has been done on the web
    sweeps,       \* how often the registry has been swept
    \* History, which no action reads.
    told,         \* the envelopes a handset was told are done
    unsaved       \* those of them that no committed batch has answered so

pushVars == <<scene, books, noted, outbox, wire, now, office, sweeps, told, unsaved>>

-----------------------------------------------------------------------------
(* Types. *)

\* What is written down, and the envelope made of it: a key, what it asks for, and
\* when it was.
TableOf == [worker |-> Worker, weighing |-> Weighing, movement |-> Movement]

Asked(a) == a.row \in TableOf[a.entity]

Entry ==
    {a \in [opId : OpId, entity : DOMAIN TableOf, row : UNION {Worker, Weighing, Movement},
            worker : Worker, value : Value, deleted : BOOLEAN] : Asked(a)}

Envelope ==
    {e \in [opId : OpId, entity : DOMAIN TableOf, row : UNION {Worker, Weighing, Movement},
            worker : Worker, value : Value, deleted : BOOLEAN, at : Nat] : Asked(e)}

ASSUME SceneAssumption ==
    \A s \in Scene : /\ s.diary \in [Handset -> Seq(Entry)]
                     /\ s.officeCap \in Nat /\ s.pruneCap \in Nat

\* The id of a weighing is made up for it: what arrives under it is of that worker
\* and of that quantity, from whichever handset and however often.
OneWeighingPerId ==
    \A s \in Scene : \A d, f \in Handset :
        \A i \in DOMAIN s.diary[d] : \A k \in DOMAIN s.diary[f] :
            LET a == s.diary[d][i]
                b == s.diary[f][k]
            IN  /\ a.entity = "weighing" /\ ~a.deleted
                /\ b.entity = "weighing" /\ ~b.deleted
                /\ a.row = b.row
                => a.worker = b.worker /\ a.value = b.value

\* What an envelope asks for: everything in it but its key.
Act(e) == [entity |-> e.entity, row |-> e.row, worker |-> e.worker,
           value |-> e.value, deleted |-> e.deleted, at |-> e.at]

Done == {"applied", "duplicate"}

WorkerRow == [name : Value, off : Nat \cup {None}]
WeighingRow == [by : Handset, worker : Worker, value : Value, at : Nat,
                live : BOOLEAN, settled : BOOLEAN]
MovementRow == [worker : Worker, value : Value]
Remembered ==
    {m \in [act : [entity : DOMAIN TableOf, row : UNION {Worker, Weighing, Movement},
                   worker : Worker, value : Value, deleted : BOOLEAN, at : Nat],
            answer : Done] : Asked(m.act)}

Books ==
    [worker : [Worker -> WorkerRow \cup {None}],
     weighing : [Weighing -> WeighingRow \cup {None}],
     money : [Movement -> MovementRow \cup {None}],
     ops : [OpId -> Remembered \cup {None}]]

ASSUME NoneAssumption ==
    None \notin Nat \cup WorkerRow \cup WeighingRow \cup MovementRow \cup Remembered

\* The rows are what their tables hold, a weighing is never of a worker the farm
\* does not have, and the registry remembers what was done and no refusal.
PushTypeOK ==
    /\ scene \in Scene
    /\ books \in Books
    /\ \A r \in Weighing : books.weighing[r] # None =>
          books.worker[books.weighing[r].worker] # None
    /\ noted \in [Handset -> Nat]
    /\ \A d \in Handset : noted[d] \in 0..Len(scene.diary[d])
    /\ outbox \in [Handset -> Seq(Envelope)]
    /\ wire \in [Handset -> SUBSET Seq(Envelope)]
    /\ now \in Nat
    /\ office \in 0..scene.officeCap /\ sweeps \in 0..scene.pruneCap
    /\ told \subseteq Envelope /\ unsaved \subseteq told

-----------------------------------------------------------------------------
(* One envelope.  A verdict is an answer and the farm with what was written to
   reach it; whether that is kept is decided later.  *)

Verdict(B, answer) == [books |-> B, answer |-> answer]

\* A worker travels as an upsert: inserted, or else updated, and taken off the
\* payroll if it carries a deletion.  Only an insert is "created".
PushWorker(B, d, e) ==
    LET old == B.worker[e.row]
        upserted == IF old = None THEN [name |-> e.value, off |-> None]
                                  ELSE [old EXCEPT !.name = e.value]
        row == IF e.deleted /\ upserted.off = None
               THEN [upserted EXCEPT !.off = now] ELSE upserted
    IN  IF RoleOf[d] = "weigher"
        THEN Verdict(B, "FORBIDDEN")
        ELSE Verdict([B EXCEPT !.worker[e.row] = row],
                     IF old = None THEN "applied" ELSE "duplicate")

\* A weigher reads the records he recorded himself.
Reads(B, d, r) ==
    B.weighing[r] # None /\ (RoleOf[d] = "admin" \/ B.weighing[r].by = d)

\* SoftDeleteWorkRecord.  A weigher is shown no settlement and updates no record:
\* his statement touches no row, and no code of its own says so.
SoftDelete(B, d, r) ==
    IF RoleOf[d] = "weigher" THEN Verdict(B, "INTERNAL")
    ELSE IF B.weighing[r].settled THEN Verdict(B, "WORK_RECORD_SETTLED")
    ELSE Verdict([B EXCEPT !.weighing[r].live = FALSE], "applied")

\* Mutant: new work is work that has just arrived.
ReactivateOnArrival(row, at) == [row EXCEPT !.off = None]

\* A worker who was taken off the payroll is back on it if he worked after that.
ReactivateForWork(row, at) ==
    IF row.off # None /\ at > row.off THEN [row EXCEPT !.off = None] ELSE row

\* Mutant: a unique violation nobody expects.
UnexpectedViolation(B) == Verdict(B, "INTERNAL")

\* The INSERT of a record that is there and that this weigher may not read.
UniqueViolation(B) == Verdict(B, "duplicate")

PushWeighing(B, d, e) ==
    IF Reads(B, d, e.row)
    THEN IF e.deleted /\ B.weighing[e.row].live
         THEN SoftDelete(B, d, e.row)
         ELSE Verdict(B, "duplicate")
    ELSE IF e.deleted THEN Verdict(B, "duplicate")    \* of one that never arrived
    ELSE IF B.worker[e.worker] = None THEN Verdict(B, "NOT_FOUND")
    ELSE IF B.weighing[e.row] # None THEN UniqueViolation(B)
    ELSE Verdict([B EXCEPT
            !.weighing[e.row] = [by |-> d, worker |-> e.worker, value |-> e.value,
                                 at |-> e.at, live |-> TRUE, settled |-> FALSE],
            !.worker[e.worker] = ReactivateForWork(@, e.at)], "applied")

\* A movement is a fact: no balance is checked.
PushLedgerEntry(B, d, e) ==
    LET row == [worker |-> e.worker, value |-> e.value] IN
    IF RoleOf[d] = "weigher" THEN Verdict(B, "FORBIDDEN")
    ELSE IF B.worker[e.worker] = None THEN Verdict(B, "NOT_FOUND")
    ELSE IF B.money[e.row] = None
         THEN Verdict([B EXCEPT !.money[e.row] = row], "applied")
    ELSE Verdict(B, IF B.money[e.row] = row THEN "duplicate" ELSE "IDEMPOTENCY_KEY_REUSED")

ApplyPushEntity(B, d, e) ==
    CASE e.entity = "worker" -> PushWorker(B, d, e)
      [] e.entity = "weighing" -> PushWeighing(B, d, e)
      [] e.entity = "movement" -> PushLedgerEntry(B, d, e)

\* The savepoint is released for what was applied and rolled back for the rest.
ApplyPushOp(B, d, e) ==
    LET res == ApplyPushEntity(B, d, e)
    IN  IF res.answer = "applied" THEN res ELSE Verdict(B, res.answer)

\* Mutant: a key that is known is a resend, whatever it carries.
FindSyncOpByKey(B, e) ==
    IF B.ops[e.opId] = None THEN "new" ELSE B.ops[e.opId].answer

\* The stored answer of this very act, or the refusal of a key used for another.
FindSyncOp(B, e) ==
    CASE B.ops[e.opId] = None -> "new"
      [] B.ops[e.opId] # None /\ B.ops[e.opId].act = Act(e) -> B.ops[e.opId].answer
      [] OTHER -> "IDEMPOTENCY_KEY_REUSED"

\* Mutant: refusals are remembered too.
RecordEveryAnswer(B, e, answer) ==
    [B EXCEPT !.ops[e.opId] = [act |-> Act(e), answer |-> answer]]

RecordSyncOp(B, e, answer) ==
    IF answer \in Done /\ B.ops[e.opId] = None
    THEN [B EXCEPT !.ops[e.opId] = [act |-> Act(e), answer |-> answer]]
    ELSE B

PushOne(B, d, e) ==
    LET prior == FindSyncOp(B, e)
        res == ApplyPushOp(B, d, e)
    IN  IF prior # "new" THEN Verdict(B, prior)
        ELSE Verdict(RecordSyncOp(res.books, e, res.answer), res.answer)

\* The envelopes of a batch in order: the last answer and the farm after each.
PushAll(d, batch) ==
    LET ran[i \in 0..Len(batch)] ==
            IF i = 0 THEN Verdict(books, "none") ELSE PushOne(ran[i - 1].books, d, batch[i])
    IN  ran

-----------------------------------------------------------------------------
(* The handset (external). *)

\* What a sequence has besides these, in the order it has it.
Without(s, these) ==
    LET kept[i \in 0..Len(s)] ==
            IF i = 0 THEN <<>>
            ELSE IF s[i] \in these THEN kept[i - 1] ELSE Append(kept[i - 1], s[i])
    IN  kept[Len(s)]

\* Something is done without signal, and written down as it happens.
Note(d) ==
    /\ noted[d] < Len(scene.diary[d])
    /\ noted' = [noted EXCEPT ![d] = @ + 1]
    /\ LET act == scene.diary[d][noted[d] + 1] IN
       outbox' = [outbox EXCEPT ![d] = Append(@,
           [opId |-> act.opId, entity |-> act.entity, row |-> act.row,
            worker |-> act.worker, value |-> act.value, deleted |-> act.deleted,
            at |-> now])]
    /\ UNCHANGED <<books, wire, now, office, sweeps, told, unsaved>>

\* The outbox is sent.  Of the batches sent before one may still be under way:
\* the handset has given up waiting for it, the network has not.
Send(d) ==
    /\ outbox[d] # <<>> /\ outbox[d] \notin wire[d]
    /\ \E late \in SUBSET wire[d] :
          /\ Cardinality(late) <= 1
          /\ wire' = [wire EXCEPT ![d] = late \cup {outbox[d]}]
    /\ UNCHANGED <<books, noted, outbox, now, office, sweeps, told, unsaved>>

\* The answers after which an envelope is sent again.
Retried == {"NOT_FOUND", "INTERNAL"}

-----------------------------------------------------------------------------
(* POST /v1/sync/push *)

\* The batch is run.  The answer may be lost, and the error of a commit that fails
\* is ignored: the 200 stands.
Push(d, batch, commits, arrives) ==
    /\ batch \in wire[d]
    /\ commits \/ arrives
    /\ wire' = [wire EXCEPT ![d] = @ \ {batch}]
    /\ UNCHANGED <<noted, office, sweeps>>
    /\ \E ran \in {PushAll(d, batch)} :
          LET Answered(answers) == {batch[i] : i \in {k \in DOMAIN batch : ran[k].answer \in answers}}
          IN  /\ books' = IF commits THEN ran[Len(batch)].books ELSE books
              /\ IF arrives
                 THEN /\ outbox' = [outbox EXCEPT ![d] =
                                      Without(@, ToSet(batch) \ Answered(Retried))]
                      /\ told' = told \cup Answered(Done)
                 ELSE UNCHANGED <<outbox, told>>
              /\ unsaved' = IF commits THEN unsaved \ Answered(Done)
                            ELSE unsaved \cup (Answered(Done) \ told)
    /\ now' = IF \E w \in Worker : books'.worker[w] # None /\ books'.worker[w].off = now
              THEN now + 1 ELSE now

-----------------------------------------------------------------------------
(* The web, and the sweep. *)

InTheOffice(B) ==
    /\ office < scene.officeCap
    /\ office' = office + 1
    /\ books' = B
    /\ UNCHANGED <<noted, outbox, wire, sweeps, told, unsaved>>

DeactivateWorker(w) ==
    /\ books.worker[w] # None /\ books.worker[w].off = None
    /\ InTheOffice([books EXCEPT !.worker[w].off = now])
    /\ now' = now + 1

RestoreWorker(w) ==
    /\ books.worker[w] # None /\ books.worker[w].off # None
    /\ InTheOffice([books EXCEPT !.worker[w].off = None])
    /\ UNCHANGED now

DeleteWorkRecord(r) ==
    /\ books.weighing[r] # None
    /\ books.weighing[r].live /\ ~books.weighing[r].settled
    /\ InTheOffice([books EXCEPT !.weighing[r].live = FALSE])
    /\ UNCHANGED now

SettleWorkRecord(r) ==
    /\ books.weighing[r] # None
    /\ books.weighing[r].live /\ ~books.weighing[r].settled
    /\ InTheOffice([books EXCEPT !.weighing[r].settled = TRUE])
    /\ UNCHANGED now

\* Answers older than the retention are forgotten; age is not modelled, so any
\* of them may be.
PruneSyncOps ==
    /\ sweeps < scene.pruneCap
    /\ sweeps' = sweeps + 1
    /\ \E old \in SUBSET {o \in OpId : books.ops[o] # None} :
          /\ old # {}
          /\ books' = [books EXCEPT !.ops =
                         [o \in OpId |-> IF o \in old THEN None ELSE books.ops[o]]]
    /\ UNCHANGED <<noted, outbox, wire, now, office, told, unsaved>>

-----------------------------------------------------------------------------

PushInit ==
    /\ scene \in Scene
    /\ books = [worker |-> [w \in Worker |-> IF w \in Known
                              THEN [name |-> CHOOSE v \in Value : TRUE, off |-> None]
                              ELSE None],
                weighing |-> [r \in Weighing |-> None],
                money |-> [m \in Movement |-> None],
                ops |-> [o \in OpId |-> None]]
    /\ noted = [d \in Handset |-> 0]
    /\ outbox = [d \in Handset |-> <<>>]
    /\ wire = [d \in Handset |-> {}]
    /\ now = 0
    /\ office = 0
    /\ sweeps = 0
    /\ told = {} /\ unsaved = {}

Step ==
    \/ \E d \in Handset : Note(d) \/ Send(d)
    \/ \E d \in Handset : \E batch \in wire[d] :
          \E commits, arrives \in BOOLEAN : Push(d, batch, commits, arrives)
    \/ \E w \in Worker : DeactivateWorker(w) \/ RestoreWorker(w)
    \/ \E r \in Weighing : DeleteWorkRecord(r) \/ SettleWorkRecord(r)
    \/ PruneSyncOps

PushNext == Step /\ UNCHANGED scene

PushSpec == PushInit /\ [][PushNext]_pushVars

\* A handset with signal sends again, and if it keeps sending what it has, a
\* batch is committed and its answer comes through.
RoundTrip(d) == Push(d, outbox[d], TRUE, TRUE)

PushFairSpec ==
    /\ PushSpec
    /\ \A d \in Handset : WF_pushVars(Send(d) /\ UNCHANGED scene)
    /\ \A d \in Handset : SF_pushVars(RoundTrip(d) /\ UNCHANGED scene)

-----------------------------------------------------------------------------
(* Properties. *)

\* What an envelope says is in the books.
Stands(B, e) ==
    /\ e.entity = "weighing" /\ ~e.deleted =>
          /\ B.weighing[e.row] # None
          /\ B.weighing[e.row].worker = e.worker
          /\ B.weighing[e.row].value = e.value
    /\ e.entity = "movement" =>
          B.money[e.row] = [worker |-> e.worker, value |-> e.value]

\* What the answers "applied" and "duplicate" say: the act is done, and the handset
\* need not keep it.  It fails when the commit behind the answer does: its error is
\* ignored (tenant.go), the 200 has been written, and the handset forgets an act of
\* which nothing is in the books.
EveryAnswerStands == \A e \in told : Stands(books, e)

\* That is the only way.  A weighing or a movement of which the handset was told that
\* it is done, by whatever batch, is in the books with what the envelope said, unless
\* no batch that answered so was committed: a lost answer, a late copy, a key used
\* twice or a swept registry never turns an act that was not performed into one the
\* handset forgets, and an act that was once committed stays.
FactsAreKept == \A e \in told \ unsaved : Stands(books, e)

\* "The removal wins": a push puts nobody back on the payroll who was taken off,
\* but with a weighing it brings for the first time, of work done after that.
RemovalWins ==
    [][\A w \in Worker :
          /\ office' = office /\ books.worker[w] # None
          /\ books.worker[w].off # None /\ books'.worker[w].off = None
          => \E r \in Weighing :
                /\ books.weighing[r] = None /\ books'.weighing[r] # None
                /\ books'.weighing[r].worker = w
                /\ books'.weighing[r].at > books.worker[w].off]_pushVars

\* A weighing of this row waits on this handset, of a worker the farm has.
Waiting(d, r) ==
    \E k \in DOMAIN outbox[d] :
        LET e == outbox[d][k] IN
        /\ e.entity = "weighing" /\ e.row = r /\ ~e.deleted
        /\ books.worker[e.worker] # None

\* Once the farm has its worker a weighing leaves the handset, also when it was
\* refused before, and whatever else is refused again and again.
WeighingsArrive == \A d \in Handset, r \in Weighing : Waiting(d, r) ~> ~Waiting(d, r)

=============================================================================
