------------------------------- MODULE Stock --------------------------------
(***************************************************************************)
(* What one product has in the warehouses: the screens that record what    *)
(* comes in and goes out, and the transactions they start.                 *)
(*                                                                         *)
(* Nothing holds the quantity: it is the sum of the movements, which are   *)
(* only ever added.  A mistake is corrected by the opposite movement, and  *)
(* a sale is voided with the opposite of the movement it was recorded      *)
(* with.                                                                   *)
(*                                                                         *)
(* A request is one transaction of PostgreSQL, statement by statement: its *)
(* look-ups see what is committed, its rows are seen once it commits.  It  *)
(* may go on after the screen has stopped waiting for it.  Locks, sums and *)
(* keys are by product, so there is only one.                              *)
(***************************************************************************)
EXTENDS Integers, FiniteSets, FiniteSetsExt

CONSTANTS
    Shelf,        \* the warehouses
    Qty,          \* quantities that may be typed, below zero what goes out
    Opening,      \* what one warehouse has at first
    Screen,       \* the people at the console
    Slot,         \* bound: transactions open at a time
    MaxId,        \* bound: movements, and sales
    Budget,       \* bound: by screen, how many dialogs, corrections, readings, failures
    None          \* nothing: no row, no request, no dialog, levels not read

Allowance == [dialog : Nat, undo : Nat, read : Nat, loss : Nat]

ASSUME QtyAssumption == Qty \subseteq Int \ {0} /\ Opening \in Nat \ {0}
ASSUME BoundAssumption ==
    /\ MaxId \in Nat \ {0}
    /\ Budget \subseteq [Screen -> Allowance]

VARIABLES
    move,         \* stock_moves, by id
    sale,         \* sales, by id
    tx,           \* the transactions that are open, by slot
    form,         \* by screen: the dialog open on it
    level,        \* by screen: what each warehouse had when it last read
    shown,        \* by screen: the movements it offers to correct, the sales to void
    left          \* what is left of the budget of each screen

vars == <<move, sale, tx, form, level, shown, left>>

-----------------------------------------------------------------------------
(* Types. *)

Id == 1..MaxId

\* What the id of one write depends on, besides the dialog it is typed in.
Intent == Shelf \X Qty

\* A movement: the sale it is the shadow of, the movement it corrects, whether
\* the look at what is left was waived, and what it was typed as.
\* What corrects another is neither typed nor of a sale.
Movement ==
    [shelf : Shelf, qty : Int \ {0}, sale : Id \cup {None}, back : {None},
     sure : BOOLEAN, typed : (Screen \X Nat \X Intent) \cup {None}]
    \cup [shelf : Shelf, qty : Int \ {0}, sale : {None}, back : Id,
          sure : BOOLEAN, typed : {None}]

ASSUME NoneAssumption ==
    /\ None \notin Nat /\ None \notin Screen /\ None \notin {"live", "void"}
    /\ None \notin Movement /\ None \notin Screen \X Nat \X Intent

Transaction ==
    [op : {"move", "sale", "reverse", "void"}, id : Id, row : Movement \cup {None},
     at : {"look", "lock", "guard", "claim", "share", "commit"},
     lock : {"none", "share", "update"}, for : Screen \cup {None}]

Dialog ==
    [kind : {"move", "sale"}, number : Screen \X Nat, sure : BOOLEAN, busy : BOOLEAN,
     ids : [Intent -> Id \cup {None}]]

-----------------------------------------------------------------------------
(* The tables. *)

Rows(m) == {i \in Id : m[i] # None}
Open == {x \in Slot : tx[x] # None}

\* The quantity in a warehouse: the sum of all that came in and went out.
StockOnHand(m, s) ==
    MapThenSumSet(LAMBDA i : m[i].qty, {i \in Rows(m) : m[i].shelf = s})

Reversed(m, i) == \E r \in Rows(m) : m[r].back = i

\* The movement a sale was recorded with.
Venta(n) == CHOOSE i \in Rows(move) : move[i].sale = n

Used(op) ==
    {tx[x].id : x \in {y \in Open : tx[y].op = op}}
      \cup UNION {{form[s].ids[n] : n \in Intent} :
                  s \in {p \in Screen : form[p] # None /\ form[p].kind = op}}

\* An id nobody has yet.  Bound: MaxId of them.
Unused(op, rows) == {i \in Id \ (rows \cup Used(op)) : \A j \in Id \ (rows \cup Used(op)) : i <= j}
NewMove == Unused("move", Rows(move))
NewSale == Unused("sale", Rows(sale))

-----------------------------------------------------------------------------
(* The API. *)

\* What an index keeps unique in what x writes.
Key(x) ==
    IF tx[x].op \in {"move", "sale"} THEN <<tx[x].op, tx[x].id>> ELSE <<"back", tx[x].row.back>>

Holds(x) == tx[x].at \in {"share", "commit"}

\* Mutant: no index keeps a movement from being corrected twice.
TakenIds(x) ==
    CASE tx[x].op = "move" -> move[tx[x].id] # None
      [] tx[x].op = "sale" -> sale[tx[x].id] # None
      [] OTHER -> FALSE

Taken(x) ==
    CASE tx[x].op = "move" -> move[tx[x].id] # None
      [] tx[x].op = "sale" -> sale[tx[x].id] # None
      [] OTHER -> Reversed(move, tx[x].row.back)

\* The transactions x waits for: one that has its key, any that has a lock on
\* the product, or one that has it for update.
Blockers(x) ==
    {y \in Open \ {x} :
        \/ tx[x].at = "lock" /\ tx[y].lock # "none"
        \/ tx[x].at = "claim" /\ Holds(y) /\ Key(y) = Key(x)
        \/ tx[x].at = "share" /\ tx[y].lock = "update"}

\* The dialog that is open on s waits for x.
Awaits(s, x) == form[s] # None /\ tx[x].for = s /\ tx[x].op \in {"move", "sale"}

\* The answer a reaches the dialog that waits for it, which closes if its write
\* is in and stays as it is if it is told of an error.
Answer(x, a) ==
    /\ tx' = [tx EXCEPT ![x] = None]
    /\ form' = [s \in Screen |->
        IF ~Awaits(s, x) THEN form[s]
        ELSE IF a = "ok" THEN None ELSE [form[s] EXCEPT !.busy = FALSE]]

\* Bound: what may still be done.
Spend(s, what) == left[s][what] > 0 /\ left' = [left EXCEPT ![s][what] = @ - 1]
Fails == \E s \in Screen : Spend(s, "loss")

Goes(x, at) == tx' = [tx EXCEPT ![x].at = at] /\ UNCHANGED form

\* Mutant: the opposite of a sale's movement belongs to the sale as well.
OppositeOfSale(i) == [move[i] EXCEPT !.qty = -@, !.back = i, !.typed = None]

\* The opposite of the movement i.
Opposite(i) == [move[i] EXCEPT !.qty = -@, !.sale = None, !.back = i, !.typed = None]

\* The first look: for the row a retry would find, or for what is to be undone.
Look(x) ==
    /\ tx[x] # None
    /\ tx[x].at = "look"
    /\ LET op == tx[x].op
           i == IF op = "void" THEN Venta(tx[x].id) ELSE tx[x].id
       IN \/ /\ op \in {"move", "sale"}
             /\ Taken(x)
             /\ Answer(x, "ok")
          \/ /\ op \in {"move", "sale"}
             /\ ~Taken(x)
             /\ Goes(x, IF tx[x].row.qty < 0 /\ ~tx[x].row.sure THEN "lock" ELSE "claim")
          \/ /\ op \in {"reverse", "void"}
             /\ move[i].back # None \/ Reversed(move, i) \/ (op = "void" /\ sale[tx[x].id] = "void")
             /\ Answer(x, "refused")
          \/ /\ op \in {"reverse", "void"}
             /\ move[i].back = None /\ ~Reversed(move, i) /\ (op = "void" => sale[tx[x].id] = "live")
             /\ tx' = [tx EXCEPT ![x].at = "claim", ![x].row = Opposite(i)]
             /\ UNCHANGED form
    /\ UNCHANGED <<move, sale, level, shown, left>>

\* Mutant: what is left is looked at without the lock on the product.
LockNothing(x) ==
    /\ tx[x] # None
    /\ tx[x].at = "lock"
    /\ tx' = [tx EXCEPT ![x].at = "guard"]
    /\ UNCHANGED <<move, sale, form, level, shown, left>>

\* guardStock, first half.
LockProductForStock(x) ==
    /\ tx[x] # None
    /\ tx[x].at = "lock"
    /\ Blockers(x) = {}
    /\ tx' = [tx EXCEPT ![x].at = "guard", ![x].lock = "update"]
    /\ UNCHANGED <<move, sale, form, level, shown, left>>

\* guardStock, second half.
GuardStock(x) ==
    /\ tx[x] # None
    /\ tx[x].at = "guard"
    /\ IF StockOnHand(move, tx[x].row.shelf) + tx[x].row.qty < 0
       THEN Answer(x, "refused")
       ELSE Goes(x, "claim")
    /\ UNCHANGED <<move, sale, level, shown, left>>

\* The row goes in: its key first.
Claim(x) ==
    /\ tx[x] # None
    /\ tx[x].at = "claim"
    /\ Blockers(x) = {}
    /\ IF Taken(x) THEN Answer(x, "refused") ELSE Goes(x, "share")
    /\ UNCHANGED <<move, sale, level, shown, left>>

\* Then its foreign key, which shares the product.
Share(x) ==
    /\ tx[x] # None
    /\ tx[x].at = "share"
    /\ Blockers(x) = {}
    /\ tx' = [tx EXCEPT ![x].at = "commit", ![x].lock = IF @ = "update" THEN @ ELSE "share"]
    /\ UNCHANGED <<move, sale, form, level, shown, left>>

\* The movement and the sale it belongs to are kept together.
Commit(x) ==
    /\ tx[x] # None
    /\ tx[x].at = "commit"
    /\ \E i \in IF tx[x].op = "move" THEN {tx[x].id} ELSE NewMove :
        /\ move' = [move EXCEPT ![i] = tx[x].row]
        /\ sale' = CASE tx[x].op = "sale" -> [sale EXCEPT ![tx[x].id] = "live"]
                     [] tx[x].op = "void" -> [sale EXCEPT ![tx[x].id] = "void"]
                     [] OTHER -> sale
    /\ Answer(x, "ok")
    /\ UNCHANGED <<level, shown, left>>

\* The connection breaks: nothing is kept.  A commit that fails was answered
\* as if it had not.
ConnectionLost(x) ==
    /\ tx[x] # None
    /\ Fails
    /\ Answer(x, IF tx[x].at = "commit" THEN "ok" ELSE "failed")
    /\ UNCHANGED <<move, sale, level, shown>>

\* Mutant: nobody notices that a ring of transactions waits for itself.
NeverDeadlocked(x) == x \notin Slot

\* Everyone in a ring waits for another: one of them is aborted.
Deadlocked(x) ==
    \E ring \in SUBSET Open : x \in ring /\ \A y \in ring : Blockers(y) \cap ring # {}

DeadlockVictim(x) ==
    /\ Deadlocked(x)
    /\ Answer(x, "failed")
    /\ UNCHANGED <<move, sale, level, shown, left>>

-----------------------------------------------------------------------------
(* The screens. *)

\* A page reads what the warehouses have, or is not told.
ReadLevels(s) ==
    /\ Spend(s, "read")
    /\ \/ level' = [level EXCEPT ![s] = [h \in Shelf |-> StockOnHand(move, h)]]
       \/ level' = [level EXCEPT ![s] = None]
    /\ level' # level
    /\ UNCHANGED <<move, sale, tx, form, shown>>

\* Mutant: the movement of a sale can be corrected like any other.
CanReverseAny(m, i) == m[i].back = None /\ ~Reversed(m, i)

\* Only an ordinary movement is offered for correction.
CanReverse(m, i) == m[i].back = None /\ ~Reversed(m, i) /\ m[i].sale = None

\* A page reads the movements and the sales.
ReadRows(s) ==
    /\ Spend(s, "read")
    /\ shown' = [shown EXCEPT ![s] =
           [moves |-> {i \in Rows(move) : CanReverse(move, i)},
            sales |-> {n \in Rows(sale) : sale[n] = "live"}]]
    /\ shown' # shown
    /\ UNCHANGED <<move, sale, tx, form, level>>

OpenDialog(s) ==
    /\ form[s] = None
    /\ Spend(s, "dialog")
    /\ \E kind \in {"move", "sale"} :
        form' = [form EXCEPT ![s] =
            [kind |-> kind, number |-> <<s, left[s].dialog>>, sure |-> FALSE, busy |-> FALSE,
             ids |-> [n \in Intent |-> None]]]
    /\ UNCHANGED <<move, sale, tx, level, shown>>

\* The dialog is closed, or the page it was on is left; nobody waits for what
\* was sent.
Leave(s) ==
    /\ form[s] # None
    /\ form' = [form EXCEPT ![s] = None]
    /\ tx' = [x \in Slot |-> IF tx[x] # None /\ tx[x].for = s
                             THEN [tx[x] EXCEPT !.for = None] ELSE tx[x]]
    /\ \/ ~form[s].busy /\ UNCHANGED left
       \/ form[s].busy /\ Fails
    /\ UNCHANGED <<move, sale, level, shown>>

\* More would go out than the page knows to be there.
GoesNegative(s, n) == n[2] < 0 /\ level[s] # None /\ level[s][n[1]] + n[2] < 0

\* The box that waives the look at what is left.  It is shown while more is
\* typed than there is, and stays ticked when it is not shown.
TickAnyway(s) ==
    /\ form[s] # None
    /\ ~form[s].busy
    /\ \E n \in Intent : GoesNegative(s, n)
    /\ form' = [form EXCEPT ![s].sure = ~@]
    /\ UNCHANGED <<move, sale, tx, level, shown, left>>

\* Mutant: the id is minted for each request.
MintForEach(s, n) == IF form[s].kind = "move" THEN NewMove ELSE NewSale

\* The id of one intent of a dialog, the same however often it is sent.
Mint(s, n) ==
    IF form[s].ids[n] # None THEN {form[s].ids[n]}
    ELSE IF form[s].kind = "move" THEN NewMove ELSE NewSale

\* What was typed is sent, for the first time or again.
Save(s) ==
    /\ form[s] # None
    /\ ~form[s].busy
    /\ \E x \in Slot \ Open, n \in Intent :
        /\ \A y \in Slot \ Open : x <= y
        /\ form[s].kind = "sale" => n[2] < 0
        /\ GoesNegative(s, n) => form[s].sure
        /\ \E i \in Mint(s, n) :
            /\ form' = [form EXCEPT ![s].busy = TRUE, ![s].ids[n] = i]
            /\ tx' = [tx EXCEPT ![x] =
                [op |-> form[s].kind, id |-> i, at |-> "look", lock |-> "none", for |-> s,
                 row |-> [shelf |-> n[1], qty |-> n[2], back |-> None, sure |-> form[s].sure,
                          sale |-> IF form[s].kind = "sale" THEN i ELSE None,
                          typed |-> <<s, form[s].number[2], n>>]]]
    /\ UNCHANGED <<move, sale, level, shown, left>>

\* A movement is corrected, or a sale voided, from the list as it was read.
TakeBack(s) ==
    /\ Spend(s, "undo")
    /\ \E x \in Slot \ Open :
        /\ \A y \in Slot \ Open : x <= y
        /\ \E op \in {"reverse", "void"} :
            \E i \in IF op = "reverse" THEN shown[s].moves ELSE shown[s].sales :
                tx' = [tx EXCEPT ![x] = [op |-> op, id |-> i, row |-> None, at |-> "look",
                                         lock |-> "none", for |-> s]]
    /\ UNCHANGED <<move, sale, form, level, shown>>

\* No answer comes: the screen can be used again, and what it sent goes on.
Unanswered(x) ==
    /\ tx[x] # None
    /\ tx[x].for # None
    /\ Fails
    /\ tx' = [tx EXCEPT ![x].for = None]
    /\ form' = [s \in Screen |->
           IF Awaits(s, x) THEN [form[s] EXCEPT !.busy = FALSE] ELSE form[s]]
    /\ UNCHANGED <<move, sale, level, shown>>

-----------------------------------------------------------------------------
Init ==
    /\ \E s \in Shelf :
        move = [i \in Id |-> IF i # 1 THEN None ELSE
            [shelf |-> s, qty |-> Opening, sale |-> None, back |-> None, sure |-> FALSE, typed |-> None]]
    /\ sale = [i \in Id |-> None]
    /\ tx = [x \in Slot |-> None]
    /\ form = [s \in Screen |-> None]
    /\ level = [s \in Screen |-> None]
    /\ shown = [s \in Screen |-> [moves |-> {}, sales |-> {}]]
    /\ left \in Budget

\* A statement runs as soon as nothing stands in its way.
Runs(x) ==
    Look(x) \/ LockProductForStock(x) \/ GuardStock(x) \/ Claim(x) \/ Share(x) \/ Commit(x)
      \/ DeadlockVictim(x)

Next ==
    \/ \E x \in Slot : Runs(x) \/ ConnectionLost(x) \/ Unanswered(x)
    \/ \E s \in Screen :
        ReadLevels(s) \/ ReadRows(s) \/ OpenDialog(s) \/ Leave(s) \/ TickAnyway(s)
          \/ Save(s) \/ TakeBack(s)

\* PostgreSQL serves those who wait for a lock in the order they came.
Fairness == \A x \in Slot : SF_vars(Runs(x))

Spec == Init /\ [][Next]_vars /\ Fairness

-----------------------------------------------------------------------------
(* Properties. *)

\* Every variable holds values of the kinds the code stores in it.
TypeOK ==
    /\ move \in [Id -> Movement \cup {None}]
    /\ sale \in [Id -> {None, "live", "void"}]
    /\ tx \in [Slot -> Transaction \cup {None}]
    /\ form \in [Screen -> Dialog \cup {None}]
    /\ level \in [Screen -> [Shelf -> Int] \cup {None}]
    /\ shown \in [Screen -> [moves : SUBSET Id, sales : SUBSET Id]]
    /\ left \in [Screen -> Allowance]

\* What is left in a warehouse is what came in and went out less what was taken
\* back: nothing is taken back twice, by whichever route (ux_moves_reverses).
LevelIsWhatStands ==
    \A s \in Shelf :
        StockOnHand(move, s) = StockOnHand(
            [i \in Id |-> IF move[i] # None /\ move[i].back = None /\ ~Reversed(move, i)
                          THEN move[i] ELSE None], s)

\* The sales list and the warehouse agree: each sale has one movement, which
\* was taken back if the sale is void and stands if it is not (CreateSale,
\* VoidSale), whatever is corrected on the inventory page.
SalesAgree ==
    /\ \A i \in Rows(move) : move[i].sale # None => sale[move[i].sale] # None
    /\ \A n \in Rows(sale) : \E i \in Rows(move) :
        /\ \A j \in Rows(move) : move[j].sale = n <=> j = i
        /\ sale[n] = "void" <=> Reversed(move, i)

\* One movement, or one sale, per filled-in dialog and what is typed in it,
\* however often it is sent (StockMoveDialog.tsx, SaleFormDialog.tsx).
WrittenOnce ==
    \A i, j \in Rows(move) : move[i].typed # None /\ move[i].typed = move[j].typed => i = j

\* What goes out and was not waived leaves the warehouse with no less than
\* nothing, whatever is recorded and corrected meanwhile (LockProductForStock).
GuardHolds ==
    [][\A i \in Id :
        /\ move[i] = None /\ move'[i] # None
        /\ move'[i].qty < 0 /\ move'[i].back = None /\ ~move'[i].sure
        => StockOnHand(move', move'[i].shelf) >= 0]_vars

\* Every request ends: those who wait for each other do not wait for ever.
Answered == \A x \in Slot : tx[x] # None ~> tx[x] = None

=============================================================================
