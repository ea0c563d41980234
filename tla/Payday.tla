------------------------------- MODULE Payday -------------------------------
(***************************************************************************)
(* Payday on the console of the web application: the page that settles and *)
(* pays the whole crew, and the page that pays one person.                 *)
(*                                                                         *)
(* A person looks at figures, approves them, and the page writes them with *)
(* one request per person, while phones and other consoles go on writing.  *)
(* A request may be given up on and still arrive, and the tab may be       *)
(* closed at any moment.  Ids are minted per approved fact (an intent) and *)
(* kept until the fact is known to be written or known to be dead, so that *)
(* the API can tell a retry from a second fact.                            *)
(*                                                                         *)
(* The API is seen from outside: each request is one action, as in         *)
(* Payroll.  The method of a payment is left out: it is part of the intent *)
(* and of nothing else.                                                    *)
(***************************************************************************)
EXTENDS Integers, FiniteSets, FiniteSetsExt, SequencesExt, Functions

CONSTANTS
    Worker,       \* the crew, numbered in the order of their names
    Line,         \* work that may be recorded: one unit each
    Of,           \* whose work each line is
    Known,        \* the work recorded at first
    Price,        \* what a unit may be worth
    Partial,      \* amounts that may be typed for a single payment
    MaxId,        \* bound: ids in use at a time
    Page,         \* the pages that are opened: None is the crew's, and each
                  \* person has one
    EventCap,     \* bound: requests given up on, pages opened, and what happens
                  \* on phones and other consoles, taken together
    None          \* nothing: no entry, no job, a figure that was not read

ASSUME WorkerAssumption == Worker \subseteq Nat /\ IsFiniteSet(Worker)
ASSUME LineAssumption == IsFiniteSet(Line)
ASSUME OfAssumption == Of \in [Line -> Worker]
ASSUME KnownAssumption == Known \subseteq Line
ASSUME PriceAssumption == Price \subseteq Nat \ {0} /\ Price # {}
ASSUME PartialAssumption == Partial \subseteq Nat \ {0}
ASSUME PageAssumption == Page \subseteq Worker \cup {None}
ASSUME BoundAssumption == MaxId \in Nat /\ EventCap \in Nat

VARIABLES
    work,         \* by line: not recorded yet, recorded, or deleted
    price,        \* the price in force
    books,        \* by id, the settlement, payment or advance written under it
    debt,         \* by worker, what was taken off elsewhere
    page,         \* the page the tab shows
    seen,         \* by worker, the figures on the screen
    ids,          \* the ids the page keeps, by intent and slot
    job,          \* the run under way: being checked, or being written
    report,       \* what the reports on the screen say got in
    excess,       \* the payment that did not fit, and the advance offered
    limbo,        \* requests nobody waits for any more, which may still arrive
    moved,        \* whose figures changed after the check; only properties read it
    events        \* how much of the bound is used up

farm == <<work, price, debt>>
vars == <<work, price, books, debt, page, seen, ids, job, report, excess, limbo, moved, events>>

-----------------------------------------------------------------------------
(* Types. *)

Id == 1..MaxId
Step == {"settle", "pay", "one", "undo"}
Op == {"settle", "pay", "advance", "reverse", "void"}

Fact == [op : {"settle", "pay", "advance"}, worker : Worker, lines : SUBSET Line,
         amount : Nat, live : BOOLEAN]
Figures == [lines : SUBSET Line, price : Price, balance : Int]

\* id is 0 in a request that has not been sent: its id is minted when it is.
Request == [op : Op, id : Id \cup {0}, worker : Worker, lines : SUBSET Line, amount : Int]
Intent == [step : Step, sums : SUBSET (Worker \X Int), lines : SUBSET Line, extra : Int]
Key == Intent \X Op \X Worker
Run == [intent : Intent, unchecked : SUBSET Worker, blocked : BOOLEAN,
        left : Seq(Request), done : SUBSET Request, failed : BOOLEAN]
Offer == [amount : Int, extra : Nat]

ASSUME NoneAssumption == None \notin Worker \cup Fact \cup Figures \cup Run \cup Offer

-----------------------------------------------------------------------------
(* What the API knows. *)

Live(i) == books[i] # None /\ books[i].live
Settled == UNION {books[i].lines : i \in {j \in Id : Live(j)}}

\* Mutant: work that was settled is still owed.
PendingWork(w) == {l \in Line : Of[l] = w /\ work[l] = "live"}

Pending(w) == {l \in Line : Of[l] = w /\ work[l] = "live"} \ Settled
Worth(lines) == price * Cardinality(lines)

Value(i) == IF books[i].op = "settle" THEN books[i].amount ELSE -books[i].amount
Balance(w) ==
    MapThenSumSet(Value, {i \in Id : Live(i) /\ books[i].worker = w}) - debt[w]

\* Mutant: amounts are not validated.
VerdictUnvalidated(q) ==
    CASE q.op \in {"reverse", "void"} -> IF Live(q.id) THEN "ok" ELSE "ALREADY_UNDONE"
      [] q.op = "pay" -> IF q.amount > Balance(q.worker) THEN "AMOUNT_EXCEEDS_BALANCE" ELSE "ok"
      [] OTHER -> "ok"

Verdict(q) ==
    IF q.op \in {"reverse", "void"} THEN IF Live(q.id) THEN "ok" ELSE "ALREADY_UNDONE"
    ELSE IF q.amount <= 0 THEN "VALIDATION"
    ELSE IF books[q.id] # None
         THEN IF q.op = "settle" \/ books[q.id].amount = q.amount
              THEN "ok" ELSE "IDEMPOTENCY_KEY_REUSED"
    ELSE IF q.op = "settle"
         THEN LET chosen == q.lines \cap Pending(q.worker) IN
              IF chosen = {} THEN "NOTHING_TO_SETTLE"
              ELSE IF Worth(chosen) # q.amount THEN "GROSS_CHANGED" ELSE "ok"
    ELSE IF q.op = "pay" /\ q.amount > Balance(q.worker) THEN "AMOUNT_EXCEEDS_BALANCE"
    ELSE "ok"

\* The books once the API has served q: what is refused, and what is there
\* already, changes nothing.
Served(q) ==
    IF Verdict(q) # "ok" THEN books
    ELSE IF q.op \in {"reverse", "void"} THEN [books EXCEPT ![q.id].live = FALSE]
    ELSE IF books[q.id] # None THEN books
    ELSE [books EXCEPT ![q.id] =
            [op |-> q.op, worker |-> q.worker, amount |-> q.amount, live |-> TRUE,
             lines |-> IF q.op = "settle" THEN q.lines \cap Pending(q.worker) ELSE {}]]

-----------------------------------------------------------------------------
(* Ids. *)

\* An id nobody holds is as good as a new one.
Free == Id \ ({i \in Id : books[i] # None} \cup Range(ids) \cup {q.id : q \in limbo \cup report})

NewId == CHOOSE i \in Free : TRUE

KeyOf(j) == <<j.intent, Head(j.left).op, Head(j.left).worker>>

Mint(j) == IF KeyOf(j) \in DOMAIN ids THEN ids[KeyOf(j)] ELSE NewId

\* The request the run sends next.
Sent(j) ==
    IF Head(j.left).op \in {"reverse", "void"} THEN Head(j.left)
    ELSE [Head(j.left) EXCEPT !.id = Mint(j)]

Minted(j) ==
    IF Head(j.left).op \in {"reverse", "void"} THEN ids
    ELSE [k \in DOMAIN ids \cup {KeyOf(j)} |-> IF k = KeyOf(j) THEN Mint(j) ELSE ids[k]]

Retired(kept, intent) == Restrict(kept, {k \in DOMAIN kept : k[1] # intent})

\* Mutant: an intent names the people and not their figures.
SettleIntentOfNames(approved) ==
    [step |-> "settle", sums |-> {<<q.worker, 0>> : q \in approved}, lines |-> {}, extra |-> 0]

SettleIntent(approved) ==
    [step |-> "settle", sums |-> {<<q.worker, q.amount>> : q \in approved}, lines |-> {}, extra |-> 0]
PayIntent(approved) ==
    [step |-> "pay", sums |-> {<<q.worker, q.amount>> : q \in approved}, lines |-> {}, extra |-> 0]
SingleIntent(w, amount, extra, lines) ==
    [step |-> "one", sums |-> {<<w, amount>>}, lines |-> lines, extra |-> extra]
UndoIntent == [step |-> "undo", sums |-> {}, lines |-> {}, extra |-> 0]

-----------------------------------------------------------------------------
(* What the person sees and approves. *)

NotRead == [w \in Worker |-> None]

\* The rows of a screen are read one by one, so that they may be of different
\* ages, and read again whenever a write is heard of or the tab is shown; one
\* that cannot be read is not there to be approved.  What is read during a run
\* is shown after it.
Refresh(w) ==
    /\ job = None
    /\ seen' = [seen EXCEPT ![w] =
                  [lines |-> Pending(w), price |-> price, balance |-> Balance(w)]]
    /\ UNCHANGED <<farm, books, page, ids, job, report, excess, limbo, moved, events>>

SettleApproval(w) ==
    [op |-> "settle", id |-> 0, worker |-> w, lines |-> seen[w].lines,
     amount |-> seen[w].price * Cardinality(seen[w].lines)]
PayApproval(w) ==
    [op |-> "pay", id |-> 0, worker |-> w, lines |-> {}, amount |-> seen[w].balance]

ByName(approved) ==
    {s \in SetToSeqs(approved) :
        \A i, j \in 1..Cardinality(approved) : i < j => s[i].worker < s[j].worker}

\* One run at a time: the latch is taken in the click itself.
Starts(intent, unchecked, left) ==
    /\ job = None
    /\ Cardinality(Free) >= Cardinality({i \in DOMAIN left : left[i].id = 0})
    /\ job' = [intent |-> intent, unchecked |-> unchecked, blocked |-> FALSE,
               left |-> left, done |-> {}, failed |-> FALSE]
    /\ moved' = Worker
    /\ UNCHANGED <<farm, books, page, seen, ids, report, limbo, events>>

SettleCrew ==
    /\ page = None
    /\ \E picked \in (SUBSET {w \in Worker : seen[w] # None /\ seen[w].lines # {}}) \ {{}} :
          LET approved == {SettleApproval(w) : w \in picked} IN
          \E left \in ByName(approved) : Starts(SettleIntent(approved), picked, left)
    /\ UNCHANGED excess

PayCrew ==
    /\ page = None
    /\ \E picked \in (SUBSET {w \in Worker : seen[w] # None /\ seen[w].balance > 0}) \ {{}} :
          LET approved == {PayApproval(w) : w \in picked} IN
          \E left \in ByName(approved) : Starts(PayIntent(approved), picked, left)
    /\ UNCHANGED excess

\* The whole balance with the lines that are ticked, an amount typed, or the
\* balance the API answered with and the rest as an advance.
PayOne ==
    /\ page # None /\ seen[page] # None
    /\ \E lines \in SUBSET seen[page].lines :
       LET gross == seen[page].price * Cardinality(lines)
           offers == {[amount |-> a, extra |-> 0] : a \in Partial \cup {seen[page].balance + gross}}
       IN \E offer \in {o \in offers : o.amount > 0} \cup ({excess} \ {None}) :
          LET item(op, set, amount) ==
                  <<[op |-> op, id |-> 0, worker |-> page, lines |-> set, amount |-> amount]>>
          IN Starts(SingleIntent(page, offer.amount, offer.extra, lines), {},
                (IF lines = {} THEN <<>> ELSE item("settle", lines, gross))
                \o item("pay", {}, offer.amount)
                \o (IF offer.extra > 0 THEN item("advance", {}, offer.extra) ELSE <<>>))
    /\ excess' = None

TakesBack(op, q) == [op |-> op, id |-> q.id, worker |-> q.worker, lines |-> {}, amount |-> 0]

Reported(op) == {q \in report : q.op = op}

\* Report after report, and row after row: in any order as far as anybody relies on it.
InTurn(op, told) == SetToSeqs({TakesBack(op, q) : q \in Reported(told)})

\* Mutant: the settlements first.
SettlementsFirst == {s \o p : p \in InTurn("reverse", "pay"), s \in InTurn("void", "settle")}

\* Payments first: to void the accrual under a payment leaves a debt nobody made.
Undoing == {p \o s : p \in InTurn("reverse", "pay"), s \in InTurn("void", "settle")}

UndoCrew ==
    /\ page = None
    /\ report # {}
    /\ \E left \in Undoing : Starts(UndoIntent, {}, left)
    /\ UNCHANGED excess

-----------------------------------------------------------------------------
(* The check before anything is written. *)

Drifted(q) ==
    LET survivors == q.lines \cap Pending(q.worker) IN
    Worth(survivors) # q.amount \/ survivors # q.lines

\* Mutant: a balance that went up passes.
PayDriftedDown(q) == Balance(q.worker) < q.amount

PayDrifted(q) == Balance(q.worker) # q.amount

\* One figure that moved, or could not be read, and nothing is written for
\* anybody: the figures are dead, and the ids with them.
Looked(rest, bad) ==
    /\ IF rest = {} /\ bad
       THEN job' = None /\ ids' = Retired(ids, job.intent)
       ELSE job' = [job EXCEPT !.unchecked = rest, !.blocked = bad] /\ UNCHANGED ids
    /\ UNCHANGED <<farm, books, page, seen, report, excess, limbo, events>>

CheckWork ==
    /\ job # None /\ job.intent.step = "settle"
    /\ \E w \in job.unchecked, q \in Range(job.left), unreadable \in BOOLEAN :
          /\ q.worker = w
          /\ Looked(job.unchecked \ {w}, job.blocked \/ unreadable \/ Drifted(q))
          /\ moved' = IF job' = None THEN {} ELSE moved \ {w}

\* One read for all the balances.
CheckBalances ==
    /\ job # None /\ job.intent.step = "pay" /\ job.unchecked # {}
    /\ \E unreadable \in BOOLEAN :
          Looked({}, unreadable \/ \E q \in Range(job.left) : PayDrifted(q))
    /\ moved' = {}

-----------------------------------------------------------------------------
(* The requests of a run, one after the other. *)

Writing == job # None /\ job.unchecked = {}

\* Mutant: the reports are cleared whatever failed.
Cleared(failed) == {}

\* The reports stay while something they name may stand.
AfterUndo(failed) == IF failed THEN report ELSE {}

\* Every write that is answered is heard of by the screen, which forgets its
\* figures.  A run that reaches its end is a fact that is over, and its ids are spent.
GoesOn(done, failed, kept) ==
    IF Len(job.left) > 1
    THEN /\ job' = [job EXCEPT !.left = Tail(job.left), !.done = done, !.failed = failed]
         /\ ids' = kept
         /\ UNCHANGED <<report, moved>>
    ELSE /\ job' = None
         /\ ids' = Retired(kept, job.intent)
         /\ report' = CASE job.intent.step \in {"settle", "pay"} -> report \cup done
                        [] job.intent.step = "undo" -> AfterUndo(failed)
                        [] OTHER -> report
         /\ moved' = {}

\* A run that stops halfway tells what got in and keeps its ids.
Stops(kept) ==
    /\ job' = None
    /\ ids' = kept
    /\ report' = IF job.intent.step = "one" THEN report ELSE report \cup job.done
    /\ moved' = {}

Accepted ==
    /\ Writing
    /\ \E q \in {Sent(job)} :
          /\ Verdict(q) = "ok"
          /\ books' = Served(q)
          /\ GoesOn(job.done \cup {q}, job.failed, Minted(job))
    /\ seen' = NotRead
    /\ UNCHANGED <<farm, page, excess, limbo, events>>

\* An undo finds that it was done before: not a failure.
AlreadyUndone ==
    /\ Writing
    /\ Verdict(Sent(job)) = "ALREADY_UNDONE"
    /\ GoesOn(job.done, job.failed, ids)
    /\ seen' = NotRead
    /\ UNCHANGED <<farm, books, page, excess, limbo, events>>

\* On the page of one person two refusals are differences to be looked at, and
\* the ids are retired.
Refused ==
    /\ Writing
    /\ \E q \in {Sent(job)} :
       LET single == job.intent.step = "one"
           balance == Balance(q.worker)
       IN /\ Verdict(q) \notin {"ok", "ALREADY_UNDONE"}
          /\ Stops(IF single /\ Verdict(q) \in {"GROSS_CHANGED", "AMOUNT_EXCEEDS_BALANCE"}
                   THEN Retired(ids, job.intent) ELSE Minted(job))
          /\ seen' = IF single /\ Verdict(q) = "GROSS_CHANGED" THEN NotRead ELSE seen
          /\ excess' = IF single /\ Verdict(q) = "AMOUNT_EXCEEDS_BALANCE"
                       THEN [amount |-> balance, extra |-> q.amount - balance] ELSE excess
    /\ UNCHANGED <<farm, books, page, limbo, events>>

\* No answer.  The request may have been served, may be on its way, or may be
\* lost.  An undo goes on with the rest.
GivenUp ==
    /\ Writing
    /\ events < EventCap
    /\ events' = events + 1
    /\ limbo' = limbo \cup {Sent(job)}
    /\ IF job.intent.step = "undo"
       THEN GoesOn(job.done, TRUE, ids)
       ELSE Stops(Minted(job))
    /\ seen' = IF job' = None /\ job.intent.step = "undo" THEN NotRead ELSE seen
    /\ UNCHANGED <<farm, books, page, excess>>

\* The tab is closed, reloaded or taken elsewhere: what it held is gone.
Open(p) ==
    /\ events < EventCap
    /\ events' = events + 1
    /\ limbo' \in {limbo} \cup (IF Writing THEN {limbo \cup {Sent(job)}} ELSE {})
    /\ page' = p
    /\ seen' = NotRead /\ ids' = <<>> /\ job' = None
    /\ report' = {} /\ excess' = None /\ moved' = {}
    /\ UNCHANGED <<farm, books>>

-----------------------------------------------------------------------------
(* What goes on elsewhere. *)

Touches(ws) ==
    /\ moved' = IF job = None THEN {} ELSE moved \cup ws
    /\ UNCHANGED <<page, seen, ids, job, report, excess>>

Elsewhere(ws) ==
    /\ events < EventCap
    /\ events' = events + 1
    /\ Touches(ws)
    /\ UNCHANGED limbo

Arrive(q) ==
    /\ books' = Served(q)
    /\ limbo' = limbo \ {q}
    /\ Touches({q.worker})
    /\ UNCHANGED <<farm, events>>

Weigh(l) ==
    /\ work[l] = "new"
    /\ work' = [work EXCEPT ![l] = "live"]
    /\ Elsewhere({Of[l]})
    /\ UNCHANGED <<price, books, debt>>

Delete(l) ==
    /\ l \in Pending(Of[l])
    /\ work' = [work EXCEPT ![l] = "gone"]
    /\ Elsewhere({Of[l]})
    /\ UNCHANGED <<price, books, debt>>

SetPrice(p) ==
    /\ p # price
    /\ price' = p
    /\ Elsewhere(Worker)
    /\ UNCHANGED <<work, books, debt>>

Deduct(w) ==
    /\ debt' = [debt EXCEPT ![w] = @ + 1]
    /\ Elsewhere({w})
    /\ UNCHANGED <<work, price, books>>

SettleElsewhere(w) ==
    /\ Pending(w) # {}
    /\ Free # {} /\ Cardinality(Free) > (IF job = None THEN 0 ELSE Len(job.left))
    /\ books' = [books EXCEPT ![NewId] =
            [op |-> "settle", worker |-> w, lines |-> Pending(w),
             amount |-> Worth(Pending(w)), live |-> TRUE]]
    /\ Elsewhere({w})
    /\ UNCHANGED farm

VoidElsewhere(i) ==
    /\ Live(i) /\ books[i].op = "settle"
    /\ books' = [books EXCEPT ![i].live = FALSE]
    /\ Elsewhere({books[i].worker})
    /\ UNCHANGED farm

-----------------------------------------------------------------------------

Init ==
    /\ work = [l \in Line |-> IF l \in Known THEN "live" ELSE "new"]
    /\ price = Min(Price)
    /\ books = [i \in Id |-> None]
    /\ debt = [w \in Worker |-> 0]
    /\ page \in Page
    /\ seen = NotRead
    /\ ids = <<>>
    /\ job = None
    /\ report = {}
    /\ excess = None
    /\ limbo = {}
    /\ moved = {}
    /\ events = 0

Next ==
    \/ \E w \in Worker : Refresh(w)
    \/ SettleCrew \/ PayCrew \/ PayOne \/ UndoCrew
    \/ CheckWork \/ CheckBalances
    \/ Accepted \/ AlreadyUndone \/ Refused \/ GivenUp
    \/ \E p \in Page : Open(p)
    \/ \E q \in limbo : Arrive(q)
    \/ \E l \in Line : Weigh(l) \/ Delete(l)
    \/ \E p \in Price : SetPrice(p)
    \/ \E w \in Worker : Deduct(w) \/ SettleElsewhere(w)
    \/ \E i \in Id : VoidElsewhere(i)

Spec == Init /\ [][Next]_vars

-----------------------------------------------------------------------------
(* Properties. *)

TypeOK ==
    /\ work \in [Line -> {"new", "live", "gone"}]
    /\ price \in Price
    /\ books \in [Id -> Fact \cup {None}]
    /\ debt \in [Worker -> Nat]
    /\ page \in Page
    /\ seen \in [Worker -> Figures \cup {None}]
    /\ DOMAIN ids \subseteq Key /\ Range(ids) \subseteq Id
    /\ job \in Run \cup {None}
    /\ report \subseteq Request
    /\ excess \in Offer \cup {None}
    /\ limbo \subseteq Request
    /\ moved \subseteq Worker
    /\ events \in 0..EventCap

Told == report \cup (IF job = None THEN {} ELSE job.done)

Answered(q) == books[q.id] # None /\ books[q.id].op = q.op /\ books[q.id].worker = q.worker

\* What a report says got in was written, under the id the report has for it and
\* for the person it names, with the figure it shows: nothing is reported that an id
\* meant for something else answered for.  The page of one person shows no gross of
\* its settlement; what that settlement took is among the lines that were ticked.
\* Whether the write still stands is WhatGotInStands.
ReportNamesTheWrite ==
    \A q \in Told :
        q.op \in {"settle", "pay", "advance"} =>
            /\ Answered(q)
            /\ page = None \/ q.op # "settle" => books[q.id].amount = q.amount
            /\ page # None /\ q.op = "settle" => books[q.id].lines \subseteq q.lines

\* "The report can tell the truth: these got in": what a run is answered as done, and
\* reports so, stands, for whoever was left alone since the check.  It fails after a
\* run that stopped halfway and was undone: the undo retires no ids, and the same
\* figures, approved again, are answered with the settlement that was voided.
WhatGotInStands ==
    [][ \A q \in Told' \ Told :
           q.op \in {"settle", "pay", "advance"} /\ q.worker \notin moved
           => books'[q.id].live ]_vars

\* The payment of one person is written out of the gross that was approved with
\* it: the fact is "named by everything it depends on".
PaidOutOfTheApprovedGross ==
    \A q \in Told : q.op = "settle" => books[q.id].amount = q.amount

\* While a crew is being written, whoever is still to come and was left alone
\* since the check is owed to the cent what the person approved for them: the
\* writes of the run and the answers that come late do not disturb each other.
ApprovalsHold ==
    Writing =>
        \A q \in Range(job.left) : q.worker \notin moved =>
            CASE job.intent.step = "settle" ->
                    q.lines \subseteq Pending(q.worker) /\ Worth(q.lines) = q.amount
              [] job.intent.step = "pay" -> Balance(q.worker) = q.amount
              [] OTHER -> TRUE

\* A line is never in two settlements that stand.
WorkSettledOnce ==
    \A i, j \in Id : i # j /\ Live(i) /\ Live(j) => books[i].lines \cap books[j].lines = {}

\* An undo that clears the reports has taken back everything they named,
\* whatever was lost, late, or undone by somebody else meanwhile.
UndoIsWhole ==
    [][ (/\ job # None /\ job.intent.step = "undo" /\ report # {}
         /\ report' = {} /\ UNCHANGED events)
        => \A q \in report : ~books'[q.id].live ]_vars

\* An undo voids no settlement while a payment of the same reports stands, save
\* one whose reversal failed: nobody is left owing for cash already handed over.
PaymentsGoFirst ==
    (job # None /\ job.intent.step = "undo" /\ ~job.failed
     /\ \E q \in job.done : q.op = "void")
    => \A q \in Reported("pay") : ~Live(q.id)

=============================================================================
