------------------------------ MODULE Payroll ------------------------------
(***************************************************************************)
(* The books of one farm: what was worked (work_records), what was taken   *)
(* into a settlement (settlements, settlement_items), and the append-only  *)
(* ledger every balance is derived from (ledger).                          *)
(*                                                                         *)
(* One action is one HTTP request of the Go API, executed alone: the       *)
(* transaction of the request is the action.  A request that is refused,   *)
(* and a resent request that is answered with what it wrote the first      *)
(* time, change nothing and are stuttering steps.  PayrollTx takes the     *)
(* same requests apart into their statements.                              *)
(***************************************************************************)
EXTENDS Integers, FiniteSets, FiniteSetsExt

CONSTANTS
    Worker,       \* employees (people and teams alike: both are payees)
    Record,       \* ids of work_records, chosen by the clients
    Settlement,   \* ids of settlements, chosen by the clients
    Entry,        \* ids of ledger rows
    Release,      \* ids of settlement_releases
    Quantity,     \* quantities a work record may carry
    Price,        \* prices: of the week, or frozen into a record
    Cents,        \* figures a client can be shown and send back
    Amount,       \* amounts of payments, advances, deductions, adjustments
    None          \* SQL's NULL and the absence of a row

ASSUME QuantityAssumption == Quantity \subseteq Nat \ {0}
ASSUME PriceAssumption == Price \subseteq Nat \ {0}
ASSUME CentsAssumption == Cents \subseteq Nat \ {0}
ASSUME AmountAssumption == Amount \subseteq Nat \ {0}

VARIABLES
    record,       \* work_records
    weekPrice,    \* the price of the week in force
    settlement,   \* settlements
    line,         \* settlement_items, by settlement and payable
    ledger,       \* ledger
    release,      \* settlement_releases: the settlement each one released
    shown         \* what a preview last showed the person about to settle

books == <<settlement, line, ledger, release>>
vars == <<record, weekPrice, settlement, line, ledger, release, shown>>

-----------------------------------------------------------------------------
(* The rows. *)

\* A record priced by the week carries no price of its own (rate_source =
\* weekly_price); any other froze its price when it was written.
RecordRow == [worker : Worker, quantity : Quantity, price : Price \cup {None},
              deleted : BOOLEAN]
SettlementRow == [worker : Worker, gross : Int, status : {"open", "void"}]
LineRow == [quantity : Quantity, amount : Int, live : BOOLEAN]

Withdrawal == {"pago", "anticipo", "deduccion"}
Kind == Withdrawal \cup {"devengo", "ajuste", "reverso"}

\* guarded is not a column: it marks a payment that passed the balance check,
\* and only properties read it.
LedgerRow == [worker : Worker, kind : Kind, amount : Int,
              settlement : Settlement \cup {None}, reverses : Entry \cup {None},
              guarded : BOOLEAN]

Preview == [scope : SUBSET Record, gross : Cents]

\* NULL is neither an id, nor a price, nor a row.
ASSUME NoneAssumption ==
    /\ None \notin Settlement \cup Entry \cup Price
    /\ None \notin RecordRow \cup SettlementRow \cup LineRow \cup LedgerRow \cup Preview

-----------------------------------------------------------------------------
(* What the statements read. *)

\* Mutant: forgets the live lines of void settlements.
IsSettledByOpen(r) ==
    \E s \in Settlement : /\ line[<<s, r>>] # None
                          /\ line[<<s, r>>].live
                          /\ settlement[s].status = "open"

IsSettled(r) ==
    \E s \in Settlement : line[<<s, r>>] # None /\ line[<<s, r>>].live

AmountOf(r) ==
    record[r].quantity * (IF record[r].price = None THEN weekPrice
                                                    ELSE record[r].price)

\* A period, or the ids a caller names, narrow the list to `scope'.
Pending(w, scope) ==
    {r \in scope : /\ record[r] # None
                   /\ record[r].worker = w
                   /\ ~record[r].deleted
                   /\ ~IsSettled(r)}

\* Mutant: prices every record by the week, frozen or not.
GrossAtWeekPrice(chosen) ==
    MapThenSumSet(LAMBDA r : record[r].quantity * weekPrice, chosen)

Gross(chosen) == MapThenSumSet(AmountOf, chosen)

Row(e) == ledger[e] # None

\* Mutant: an upsert instead of ON CONFLICT DO NOTHING.
Upsertable == Entry

Unused == {e \in Entry : ledger[e] = None}

\* Mutant: holds a payment to what was earned instead of what is left.
EarnedEver(w) ==
    MapThenSumSet(LAMBDA e : ledger[e].amount,
                  {e \in Entry : /\ Row(e)
                                 /\ ledger[e].worker = w
                                 /\ ledger[e].amount > 0})

Balance(w) ==
    MapThenSumSet(LAMBDA e : ledger[e].amount,
                  {e \in Entry : Row(e) /\ ledger[e].worker = w})

\* Mutant: misses the reversals that belong to a settlement.
ReversedByHand(e) ==
    \E x \in Entry : Row(x) /\ ledger[x].reverses = e /\ ledger[x].settlement = None

Reversed(e) == \E x \in Entry : Row(x) /\ ledger[x].reverses = e

LiveDevengos(s) ==
    {e \in Entry : /\ Row(e)
                   /\ ledger[e].kind = "devengo"
                   /\ ledger[e].settlement = s
                   /\ ~Reversed(e)}

-----------------------------------------------------------------------------
(* What the statements write. *)

\* INSERT INTO ledger: rows maps ids no row has yet to their rows.
Insert(rows) ==
    ledger' = [e \in Entry |-> IF e \in DOMAIN rows THEN rows[e] ELSE ledger[e]]

ReversalOf(e) ==
    [worker |-> ledger[e].worker, kind |-> "reverso", amount |-> -ledger[e].amount,
     settlement |-> ledger[e].settlement, reverses |-> e, guarded |-> FALSE]

\* Mutant: a void that frees the lines and leaves the credit.
KeepEarnings(s) == UNCHANGED ledger

\* One reversal for each unreversed devengo of the settlement, each under an
\* id of its own.
ReverseEarnings(s) ==
    \E ids \in SUBSET Unused : \E of \in [ids -> LiveDevengos(s)] :
        /\ \A e \in LiveDevengos(s) : \E x \in ids : of[x] = e
        /\ \A x, y \in ids : of[x] = of[y] => x = y
        /\ Insert([x \in ids |-> ReversalOf(of[x])])

\* Mutant: a void that takes the credit back and keeps the lines.
KeepLines(s) == UNCHANGED line

VoidLines(s) ==
    line' = [p \in Settlement \X Record |->
               IF p[1] = s /\ line[p] # None
                 THEN [line[p] EXCEPT !.live = FALSE]
                 ELSE line[p]]

-----------------------------------------------------------------------------
(* POST, PATCH and DELETE /v1/work-records *)

CreateWorkRecord(r, w, q, p) ==
    /\ record[r] = None
    /\ record' = [record EXCEPT ![r] =
                    [worker |-> w, quantity |-> q, price |-> p, deleted |-> FALSE]]
    /\ UNCHANGED <<weekPrice, books, shown>>

\* The whole PATCH: a restore comes before the edit, a removal after it, and
\* one refusal undoes all of it.  `q' is the old quantity when only the note
\* or the status is sent, `status' is "active" also when an active record is
\* patched without one: a removed record refuses that.
UpdateWorkRecord(r, q, status) ==
    /\ record[r] # None
    /\ status = "active" \/ ~record[r].deleted
    /\ ~IsSettled(r)
    /\ record' = [record EXCEPT ![r] =
                    [@ EXCEPT !.quantity = q, !.deleted = (status = "inactive")]]
    /\ UNCHANGED <<weekPrice, books, shown>>

SoftDeleteWorkRecord(r) ==
    /\ record[r] # None
    /\ ~record[r].deleted
    /\ ~IsSettled(r)
    /\ record' = [record EXCEPT ![r] = [@ EXCEPT !.deleted = TRUE]]
    /\ UNCHANGED <<weekPrice, books, shown>>

\* Mutant: drops the price of the week instead of replacing it.
ClearWeekPrice(p) ==
    /\ weekPrice' = None
    /\ UNCHANGED <<record, books, shown>>

(* PUT /v1/week-prices/{monday} *)
SetWeekPrice(p) ==
    /\ weekPrice' = p
    /\ UNCHANGED <<record, books, shown>>

-----------------------------------------------------------------------------
(* Settlements *)

\* POST /v1/settlements/preview writes nothing on the server; the figure it
\* answered with stays on the screen of whoever is about to settle.
SettlementPreview(w, scope) ==
    LET gross == Gross(Pending(w, scope)) IN
    /\ gross \in Cents
    /\ shown' = [shown EXCEPT ![w] = [scope |-> scope, gross |-> gross]]
    /\ UNCHANGED <<record, weekPrice, books>>

\* POST /v1/settlements with the expectedGrossCents of that screen.
Settle(w, s, e) ==
    /\ settlement[s] = None                       \* else: a retry, or a reused id
    /\ shown[w] # None
    /\ LET chosen == Pending(w, shown[w].scope)
           gross == Gross(chosen)
       IN /\ chosen # {}                          \* NOTHING_TO_SETTLE
          /\ gross = shown[w].gross               \* GROSS_CHANGED
          /\ settlement' = [settlement EXCEPT ![s] =
                              [worker |-> w, gross |-> gross, status |-> "open"]]
          /\ line' = [p \in Settlement \X Record |->
                        IF p[1] = s /\ p[2] \in chosen
                          THEN [quantity |-> record[p[2]].quantity,
                                amount |-> AmountOf(p[2]), live |-> TRUE]
                          ELSE line[p]]
          /\ e \in Unused
          /\ Insert([x \in {e} |->
                [worker |-> w, kind |-> "devengo", amount |-> gross,
                 settlement |-> s, reverses |-> None, guarded |-> FALSE]])
    /\ UNCHANGED <<record, weekPrice, release, shown>>

\* POST /v1/settlements/{id}/void
VoidSettlement(s) ==
    /\ settlement[s] # None
    /\ settlement[s].status = "open"              \* SETTLEMENT_ALREADY_VOID
    /\ VoidLines(s)
    /\ settlement' = [settlement EXCEPT ![s] = [@ EXCEPT !.status = "void"]]
    /\ ReverseEarnings(s)
    /\ UNCHANGED <<record, weekPrice, release, shown>>

\* POST /v1/settlements/{id}/release
ReleaseSettlement(s, id) ==
    /\ release[id] = None                         \* else: a retry
    /\ settlement[s] # None
    /\ settlement[s].status = "void"              \* SETTLEMENT_NOT_VOID
    /\ \/ LiveDevengos(s) # {}                    \* NOTHING_TO_RELEASE
       \/ \E r \in Record : line[<<s, r>>] # None /\ line[<<s, r>>].live
    /\ VoidLines(s)
    /\ ReverseEarnings(s)
    /\ release' = [release EXCEPT ![id] = s]
    /\ UNCHANGED <<record, weekPrice, settlement, shown>>

-----------------------------------------------------------------------------
(* The ledger *)

\* The sign the ledger stores: a withdrawal is negative whatever sign the client
\* sent, an adjustment keeps the client's.
SignedAmount(kind) ==
    {-a : a \in Amount} \cup (IF kind \in Withdrawal THEN {} ELSE Amount)

\* POST /v1/payments, /advances, /deductions and /adjustments.  Only a payment
\* is held to the balance, and only when the caller did not allow an
\* overpayment.
AddLedgerEntry(e, w, kind, amount, allowOverpayment) ==
    LET guarded == kind = "pago" /\ ~allowOverpayment IN
    /\ e \in Unused                               \* else: a retry, or a reused id
    /\ guarded => -amount <= Balance(w)           \* AMOUNT_EXCEEDS_BALANCE
    /\ Insert([x \in {e} |->
          [worker |-> w, kind |-> kind, amount |-> amount,
           settlement |-> None, reverses |-> None, guarded |-> guarded]])
    /\ UNCHANGED <<record, weekPrice, settlement, line, release, shown>>

\* POST /v1/ledger/{id}/reverse.  Any movement but a reversal, a devengo
\* included, and at most once.
ReverseLedgerEntry(e, id) ==
    /\ Row(e)
    /\ ledger[e].kind # "reverso"
    /\ ~Reversed(e)                               \* ALREADY_REVERSED
    /\ id \in Unused
    /\ Insert([x \in {id} |-> ReversalOf(e)])
    /\ UNCHANGED <<record, weekPrice, settlement, line, release, shown>>

-----------------------------------------------------------------------------

NoBooks ==
    /\ record = [r \in Record |-> None]
    /\ settlement = [s \in Settlement |-> None]
    /\ line = [p \in Settlement \X Record |-> None]
    /\ ledger = [e \in Entry |-> None]

\* The shape early season imports left behind (migration 00016): a void
\* settlement whose line is still live and whose devengo nothing reversed.
HalfVoidedBooks(w, r, s, e, q, p) ==
    /\ record = [x \in Record |-> IF x = r
                   THEN [worker |-> w, quantity |-> q, price |-> None,
                         deleted |-> FALSE]
                   ELSE None]
    /\ settlement = [x \in Settlement |-> IF x = s
                       THEN [worker |-> w, gross |-> q * p, status |-> "void"]
                       ELSE None]
    /\ line = [x \in Settlement \X Record |-> IF x = <<s, r>>
                 THEN [quantity |-> q, amount |-> q * p, live |-> TRUE]
                 ELSE None]
    /\ ledger = [x \in Entry |-> IF x = e
                   THEN [worker |-> w, kind |-> "devengo", amount |-> q * p,
                         settlement |-> s, reverses |-> None, guarded |-> FALSE]
                   ELSE None]

HalfVoided ==
    \E w \in Worker, r \in Record, s \in Settlement, e \in Entry,
       q \in Quantity, p \in Price : HalfVoidedBooks(w, r, s, e, q, p)

Init ==
    /\ NoBooks \/ HalfVoided
    /\ weekPrice \in Price
    /\ release = [id \in Release |-> None]
    /\ shown = [w \in Worker |-> None]

Next ==
    \/ \E r \in Record, w \in Worker, q \in Quantity, p \in Price \cup {None} :
          CreateWorkRecord(r, w, q, p)
    \/ \E r \in Record, q \in Quantity, status \in {"active", "inactive"} :
          UpdateWorkRecord(r, q, status)
    \/ \E r \in Record : SoftDeleteWorkRecord(r)
    \/ \E p \in Price : SetWeekPrice(p)
    \/ \E w \in Worker, scope \in SUBSET Record : SettlementPreview(w, scope)
    \/ \E w \in Worker, s \in Settlement, e \in Entry : Settle(w, s, e)
    \/ \E s \in Settlement : VoidSettlement(s)
    \/ \E s \in Settlement, id \in Release : ReleaseSettlement(s, id)
    \/ \E e \in Entry, w \in Worker, kind \in Withdrawal \cup {"ajuste"} :
          \E amount \in SignedAmount(kind), over \in BOOLEAN :
             AddLedgerEntry(e, w, kind, amount, over)
    \/ \E e, id \in Entry : ReverseLedgerEntry(e, id)

Spec == Init /\ [][Next]_vars

-----------------------------------------------------------------------------
(* Properties *)

\* Every table holds rows of its columns' types.
TypeOK ==
    /\ record \in [Record -> RecordRow \cup {None}]
    /\ weekPrice \in Price
    /\ settlement \in [Settlement -> SettlementRow \cup {None}]
    /\ line \in [Settlement \X Record -> LineRow \cup {None}]
    /\ ledger \in [Entry -> LedgerRow \cup {None}]
    /\ release \in [Release -> Settlement \cup {None}]
    /\ shown \in [Worker -> Preview \cup {None}]

LiveLine(s, r) == line[<<s, r>>] # None /\ line[<<s, r>>].live

Credits(e) == Row(e) /\ ledger[e].kind = "devengo" /\ ~Reversed(e)

\* No weighing is paid for twice: of all the settlements that ever took a record
\* in, voided, released and half-voided ones included, at most one has a devengo
\* that still stands in the ledger.  This is what the live-line index, the
\* reversal a void writes and the precondition of a release have to add up to.
CreditedOnce ==
    \A r \in Record, e, f \in Entry :
        /\ Credits(e) /\ line[<<ledger[e].settlement, r>>] # None
        /\ Credits(f) /\ line[<<ledger[f].settlement, r>>] # None
        => e = f

\* A record is under at most one live line: what ux_items_payable_live promises.
OneLiveLine ==
    \A r \in Record, s, t \in Settlement : LiveLine(s, r) /\ LiveLine(t, r) => s = t

\* Lines and ledger rows belong to settlements that exist, a devengo always to one.
OwnersExist ==
    /\ \A s \in Settlement, r \in Record : line[<<s, r>>] # None => settlement[s] # None
    /\ \A e \in Entry : Row(e) /\ ledger[e].settlement # None =>
          settlement[ledger[e].settlement] # None
    /\ \A e \in Entry : Row(e) /\ ledger[e].kind = "devengo" =>
          ledger[e].settlement # None /\ ledger[e].reverses = None

\* A settlement writes one devengo.
OneDevengo ==
    \A e, f \in Entry :
        /\ Row(e) /\ ledger[e].kind = "devengo"
        /\ Row(f) /\ ledger[f].kind = "devengo"
        /\ ledger[e].settlement = ledger[f].settlement
        => e = f

\* A devengo that stands has all the lines of its settlement alive.
CreditHoldsItsLines ==
    \A e \in Entry, r \in Record :
        Credits(e) /\ line[<<ledger[e].settlement, r>>] # None =>
            LiveLine(ledger[e].settlement, r)

\* The inductive invariant behind CreditedOnce.
CreditInv ==
    TypeOK /\ OneLiveLine /\ OwnersExist /\ OneDevengo /\ CreditHoldsItsLines

\* Work under a live line is neither edited nor removed beneath the money: the
\* record stands, with the worker that was paid and the quantity that was paid.
ClaimedWorkStands ==
    \A s \in Settlement, r \in Record :
        LiveLine(s, r) =>
          /\ record[r] # None
          /\ ~record[r].deleted
          /\ record[r].worker = settlement[s].worker
          /\ record[r].quantity = line[<<s, r>>].quantity

\* A devengo is worth exactly the lines of its settlement, and what the
\* settlement says it is worth, also after the lines have been voided.
DevengoIsItsLines ==
    \A e \in Entry : Row(e) /\ ledger[e].kind = "devengo" =>
        LET s == ledger[e].settlement IN
        /\ settlement[s] # None
        /\ ledger[e].worker = settlement[s].worker
        /\ ledger[e].amount = settlement[s].gross
        /\ ledger[e].amount =
             MapThenSumSet(LAMBDA r : line[<<s, r>>].amount,
                           {r \in Record : line[<<s, r>>] # None})

\* A movement is cancelled at most once, by its exact opposite against the same
\* worker and settlement, and a reversal is never itself cancelled.
ReversalsCancelOnce ==
    \A x \in Entry : Row(x) /\ ledger[x].reverses # None =>
        LET e == ledger[x].reverses IN
        /\ Row(e)
        /\ ledger[e].reverses = None
        /\ ledger[x].amount = -ledger[e].amount
        /\ ledger[x].worker = ledger[e].worker
        /\ ledger[x].settlement = ledger[e].settlement
        /\ \A y \in Entry : Row(y) /\ ledger[y].reverses = e => y = x

\* What the balance check is for: the guarded payments that still stand never
\* add up to more than the worker was ever credited, whatever was voided,
\* reversed, advanced or deducted before, between and after them.
PaidOutOfEarned ==
    \A w \in Worker :
        LET mine == {e \in Entry : Row(e) /\ ledger[e].worker = w}
            total(S) == MapThenSumSet(LAMBDA e : ledger[e].amount, S)
        IN total({e \in mine : ledger[e].reverses = None /\ ledger[e].amount > 0})
             + total({e \in mine : ledger[e].guarded /\ ~Reversed(e)}) >= 0

HalfVoid(s) ==
    /\ settlement[s] # None
    /\ settlement[s].status = "void"
    /\ LiveDevengos(s) # {} \/ \E r \in Record : LiveLine(s, r)

\* A void never stops halfway: the only void settlements that still claim a
\* record, or still credit their worker, are the ones the books began with, and
\* a release that has finished one leaves nothing for a second.
VoidIsWhole == [][\A s \in Settlement : HalfVoid(s)' => HalfVoid(s)]_vars

\* Nothing in the trail is edited or lost: a ledger row never changes, a
\* settlement keeps its worker and figure and is never reopened, and a line
\* keeps what it paid and never comes back to life.
TrailIsKept ==
    [][/\ \A e \in Entry : Row(e) => ledger'[e] = ledger[e]
       /\ \A s \in Settlement : settlement[s] # None =>
            /\ settlement'[s] # None
            /\ settlement'[s].worker = settlement[s].worker
            /\ settlement'[s].gross = settlement[s].gross
            /\ settlement[s].status = "void" => settlement'[s].status = "void"
       /\ \A p \in Settlement \X Record : line[p] # None =>
            /\ line'[p] # None
            /\ line'[p].amount = line[p].amount
            /\ line'[p].live => line[p].live]_vars

=============================================================================
