---------------------------- MODULE PaydayProofs ----------------------------
(***************************************************************************)
(* What holds of Payday for any crew, any work, any prices and any bounds. *)
(*                                                                         *)
(* First that no line is settled twice, which needs the books alone.  Then *)
(* the figures, the lists and the answers of the API are worked out, and   *)
(* the invariant is stated (PaydayInv): the types, what an id may stand    *)
(* for, what a run still owes.  One lemma per action shows that it is      *)
(* kept, and the theorems at the end read the properties off it.           *)
(***************************************************************************)
EXTENDS Payday, Sums

(***************************************************************************)
(* The books are rows by id.  Nothing else about types is needed: a new    *)
(* settlement takes only what is pending, whatever was asked.              *)
(***************************************************************************)
Like(b) == [op : {b.op}, worker : {b.worker}, lines : {b.lines}, amount : {b.amount},
            live : {b.live}]

Rows ==
    /\ books = [i \in Id |-> books[i]]
    /\ \A i \in Id : books[i] # None => books[i] \in Like(books[i])

BookInv == Rows /\ WorkSettledOnce

\* A row written under an id nothing is booked under keeps the books right, as
\* long as it takes no line of a settlement that stands.
LEMMA NewRow ==
    ASSUME BookInv, NEW n, n \in Id => books[n] = None,
           NEW row, row \in Like(row), row.lines \cap Settled = {},
           books' = [books EXCEPT ![n] = row]
    PROVE  BookInv'
<1> USE DEF BookInv
<1>1. Rows'
  BY DEF Rows
<1>2. \A i \in Id : i # n => books'[i] = books[i]
  BY DEF Rows
<1>3. n \in Id => books'[n] = row
  BY DEF Rows
<1>4. \A i \in Id : i # n /\ Live(i) => books[i].lines \cap row.lines = {}
  BY DEF Settled
<1>5. WorkSettledOnce'
  <2> SUFFICES ASSUME NEW i \in Id, NEW j \in Id, i # j, Live(i)', Live(j)'
               PROVE  books'[i].lines \cap books'[j].lines = {}
    BY DEF WorkSettledOnce
  <2>1. CASE i # n /\ j # n
    BY <2>1, <1>2 DEF WorkSettledOnce, Live
  <2>2. CASE i = n
    BY <2>2, <1>2, <1>3, <1>4 DEF Live
  <2>3. CASE j = n
    BY <2>3, <1>2, <1>3, <1>4 DEF Live
  <2> QED
    BY <2>1, <2>2, <2>3
<1> QED
  BY <1>1, <1>5

LEMMA LiveCleared ==
    ASSUME NEW b, b \in Like(b)
    PROVE  /\ [b EXCEPT !.live = FALSE] \in Like([b EXCEPT !.live = FALSE])
           /\ ~[b EXCEPT !.live = FALSE].live
           /\ [b EXCEPT !.live = FALSE].lines = b.lines
<1> DEFINE c == [b EXCEPT !.live = FALSE]
<1>1. c \in [op : {b.op}, worker : {b.worker}, lines : {b.lines}, amount : {b.amount},
             live : {FALSE}]
  BY DEF Like
<1> HIDE DEF c
<1>2. c.op = b.op /\ c.worker = b.worker /\ c.lines = b.lines /\ c.amount = b.amount
      /\ c.live = FALSE
  BY <1>1
<1>3. c \in Like(c)
  BY <1>1, <1>2 DEF Like
<1> QED
  BY <1>2, <1>3 DEF c

\* To take a row back releases its lines and takes none.
LEMMA RowTakenBack ==
    ASSUME BookInv, NEW n, n \in Id => books[n] # None,
           books' = [books EXCEPT ![n].live = FALSE]
    PROVE  BookInv'
<1> USE DEF BookInv
<1>1. \A i \in Id : i # n => books'[i] = books[i]
  BY DEF Rows
<1>2. ASSUME n \in Id
      PROVE  books'[n] \in Like(books'[n]) /\ ~books'[n].live /\ books'[n].lines = books[n].lines
  <2>1. books'[n] = [books[n] EXCEPT !.live = FALSE]
    BY <1>2 DEF Rows
  <2>2. books[n] \in Like(books[n])
    BY <1>2 DEF Rows
  <2> QED
    BY <2>1, <2>2, LiveCleared
<1>3. Rows'
  BY <1>1, <1>2 DEF Rows
<1>4. n \in Id => ~Live(n)' /\ books'[n].lines = books[n].lines
  BY <1>2 DEF Live
<1>5. WorkSettledOnce'
  BY <1>1, <1>4 DEF WorkSettledOnce, Live
<1> QED
  BY <1>3, <1>5

\* Whatever the API is asked, and however often and however late, it keeps the
\* books right.
LEMMA ServedKeeps ==
    ASSUME BookInv, NEW q, books' = Served(q)
    PROVE  BookInv'
<1>1. CASE Verdict(q) # "ok" \/ (q.op \notin {"reverse", "void"} /\ books[q.id] # None)
  BY <1>1 DEF Served, BookInv, Rows, WorkSettledOnce, Live
<1>2. CASE Verdict(q) = "ok" /\ q.op \in {"reverse", "void"}
  <2>1. books[q.id] # None
    BY <1>2 DEF Verdict, Live
  <2>2. books' = [books EXCEPT ![q.id].live = FALSE]
    BY <1>2 DEF Served
  <2> QED
    BY <2>1, <2>2, RowTakenBack
<1>3. CASE Verdict(q) = "ok" /\ q.op \notin {"reverse", "void"} /\ books[q.id] = None
  <2> DEFINE s == IF q.op = "settle" THEN q.lines \cap Pending(q.worker) ELSE {}
             row == [op |-> q.op, worker |-> q.worker, lines |-> s, amount |-> q.amount,
                     live |-> TRUE]
  <2>1. books' = [books EXCEPT ![q.id] = row]
    BY <1>3 DEF Served
  <2>2. row.lines \cap Settled = {}
    BY DEF Pending
  <2>3. row \in Like(row)
    BY DEF Like
  <2> HIDE DEF row
  <2> QED
    BY <1>3, <2>1, <2>2, <2>3, NewRow
<1>4. q.op \in {"reverse", "void"} \/ q.op \notin {"reverse", "void"}
  OBVIOUS
<1> QED
  BY <1>1, <1>2, <1>3, <1>4

\* An id that is free is free of books.
LEMMA TakesFree ==
    ASSUME Free # {}
    PROVE  NewId \in Id /\ books[NewId] = None
<1>1. NewId \in Free
  BY DEF NewId
<1> QED
  BY <1>1 DEF Free

\* On any console and with any phones around it, whatever is lost, late, sent
\* twice or undone, a line is in at most one settlement that stands.
THEOREM WorkIsSettledOnce == Spec => []WorkSettledOnce
<1>1. Init => BookInv
  BY DEF Init, BookInv, Rows, WorkSettledOnce, Live
<1>2. ASSUME BookInv, [Next]_vars
      PROVE  BookInv'
  <2>1. CASE UNCHANGED books
    BY <2>1, <1>2 DEF BookInv, Rows, WorkSettledOnce, Live
  <2>2. CASE Accepted
    BY <2>2, <1>2, ServedKeeps DEF Accepted
  <2>3. ASSUME NEW q \in limbo, Arrive(q)
        PROVE  BookInv'
    BY <2>3, <1>2, ServedKeeps DEF Arrive
  <2>4. ASSUME NEW w \in Worker, SettleElsewhere(w)
        PROVE  BookInv'
    <3> DEFINE row == [op |-> "settle", worker |-> w, lines |-> Pending(w),
                       amount |-> Worth(Pending(w)), live |-> TRUE]
    <3>1. books' = [books EXCEPT ![NewId] = row]
      BY <2>4 DEF SettleElsewhere
    <3>2. row.lines \cap Settled = {}
      BY DEF Pending
    <3>3. row \in Like(row)
      BY DEF Like
    <3>4. books[NewId] = None
      BY <2>4, TakesFree DEF SettleElsewhere
    <3> HIDE DEF row
    <3> QED
      BY <1>2, <3>1, <3>2, <3>3, <3>4, NewRow
  <2>5. ASSUME NEW i \in Id, VoidElsewhere(i)
        PROVE  BookInv'
    BY <2>5, <1>2, RowTakenBack DEF VoidElsewhere, Live
  <2>6. ASSUME Next, ~Accepted, \A q \in limbo : ~Arrive(q),
               \A w \in Worker : ~SettleElsewhere(w), \A i \in Id : ~VoidElsewhere(i)
        PROVE  UNCHANGED books
    BY <2>6 DEF Next, Refresh, SettleCrew, PayCrew, PayOne, UndoCrew, Starts, CheckWork,
       CheckBalances, Looked, AlreadyUndone, Refused, GivenUp, Open, Weigh, Delete, SetPrice,
       Deduct, farm
  <2> QED
    BY <1>2, <2>1, <2>2, <2>3, <2>4, <2>5, <2>6 DEF vars
<1> QED
  BY <1>1, <1>2, PTL DEF Spec, BookInv
-----------------------------------------------------------------------------
(* Figures.                                                                *)
(*                                                                         *)
(* The balance of Payday as a sum of figures, over books that are handed   *)
(* over, so that it can be compared before and after a step.               *)
(***************************************************************************)
Booking(bk) == bk \in [Id -> Fact \cup {None}]

LiveIn(bk, i) == bk[i] # None /\ bk[i].live
StandingOf(bk, w) == {i \in Id : LiveIn(bk, i) /\ bk[i].worker = w}
Signed(bk) == [i \in Id |-> IF bk[i].op = "settle" THEN bk[i].amount ELSE -bk[i].amount]
Owing(bk, db, w) == Total(Signed(bk), StandingOf(bk, w)) - db[w]

LEMMA IdsAreFinite == IsFiniteSet(Id) /\ Cardinality(Id) = MaxId /\ Id \subseteq Nat \ {0}
  BY BoundAssumption, FS_Interval DEF Id

LEMMA RowIs ==
    ASSUME NEW bk, Booking(bk), NEW i \in Id, bk[i] # None
    PROVE  /\ bk[i] \in Fact
           /\ bk[i].op \in {"settle", "pay", "advance"} /\ bk[i].worker \in Worker
           /\ bk[i].lines \in SUBSET Line /\ bk[i].amount \in Nat /\ bk[i].live \in BOOLEAN
  BY DEF Booking, Fact

LEMMA SignedIs ==
    ASSUME NEW bk, Booking(bk), NEW w
    PROVE  /\ IsFiniteSet(StandingOf(bk, w))
           /\ \A i \in StandingOf(bk, w) : Signed(bk)[i] \in Int
<1>1. StandingOf(bk, w) \in SUBSET Id
  BY DEF StandingOf
<1>2. \A i \in StandingOf(bk, w) : i \in Id /\ bk[i] # None
  BY DEF StandingOf, LiveIn
<1>3. ASSUME NEW i \in StandingOf(bk, w)
      PROVE  Signed(bk)[i] \in Int
  <2>1. bk[i].amount \in Nat /\ i \in Id
    BY <1>2, RowIs
  <2>2. bk[i].amount \in Int /\ -bk[i].amount \in Int
    BY <2>1
  <2> QED
    BY <2>1, <2>2 DEF Signed
<1> QED
  BY <1>1, <1>3, IdsAreFinite, FS_Subset

LEMMA SumOfBooks ==
    ASSUME NEW bk, Booking(bk), NEW w
    PROVE  MapThenSumSet(LAMBDA i : IF bk[i].op = "settle" THEN bk[i].amount ELSE -bk[i].amount,
                         StandingOf(bk, w))
             = Total(Signed(bk), StandingOf(bk, w))
  <1> DEFINE S == StandingOf(bk, w)
             v == Signed(bk)
             Eq(f) == f = [s \in SUBSET S |->
                             IF s = {} THEN 0
                             ELSE (IF bk[CHOOSE x \in s : TRUE].op = "settle"
                                   THEN bk[CHOOSE x \in s : TRUE].amount
                                   ELSE -bk[CHOOSE x \in s : TRUE].amount)
                                    + f[s \ {CHOOSE x \in s : TRUE}]]
  <1>1. MapThenSumSet(LAMBDA i : IF bk[i].op = "settle" THEN bk[i].amount ELSE -bk[i].amount, S)
          = (CHOOSE f : Eq(f))[S]
    BY DEF MapThenSumSet, MapThenFoldSet
  <1>2. \A x \in S : v[x] = IF bk[x].op = "settle" THEN bk[x].amount ELSE -bk[x].amount
    BY DEF Signed, StandingOf
  <1>0. IsFiniteSet(S) /\ \A x \in S : v[x] \in Int
    BY SignedIs
  <1> HIDE DEF v, S
  <1>3. \A f : Eq(f) <=> AddsUp(f, v, S)
    <2>1. \A s \in SUBSET S : s # {} => Pick(s) \in S
      BY PickIn
    <2> QED
      BY <1>2, <2>1 DEF AddsUp, Pick
  <1>4. \E f : AddsUp(f, v, S)
    BY <1>0, AddingUpIsPossible
  <1> HIDE DEF Eq
  <1>5. AddsUp(CHOOSE f : Eq(f), v, S)
    BY <1>3, <1>4
  <1>6. (CHOOSE f : Eq(f))[S] = Total(v, S)
    BY <1>0, <1>5, OneTotal
  <1> QED
    BY <1>1, <1>6 DEF v, S

LEMMA BalanceNow ==
    ASSUME Booking(books), NEW w
    PROVE  Balance(w) = Owing(books, debt, w)
<1> DEFINE S == {i \in Id : Live(i) /\ books[i].worker = w}
<1>1. S = StandingOf(books, w)
  BY DEF StandingOf, LiveIn, Live
<1>2. Balance(w) = MapThenSumSet(LAMBDA i : IF books[i].op = "settle" THEN books[i].amount
                                            ELSE -books[i].amount, S) - debt[w]
  BY DEF Balance, Value
<1> HIDE DEF S
<1> QED
  BY <1>1, <1>2, SumOfBooks DEF Owing

LEMMA BalanceNext ==
    ASSUME Booking(books'), NEW w
    PROVE  Balance(w)' = Owing(books', debt', w)
<1> DEFINE S == {i \in Id : LiveIn(books', i) /\ books'[i].worker = w}
<1>1. S = StandingOf(books', w)
  BY DEF StandingOf
<1>2. {i \in Id : Live(i)' /\ books'[i].worker = w} = S
  BY DEF LiveIn, Live
<1>3. Balance(w)' = MapThenSumSet(LAMBDA i : IF books'[i].op = "settle" THEN books'[i].amount
                                             ELSE -books'[i].amount,
                                  {i \in Id : Live(i)' /\ books'[i].worker = w}) - debt'[w]
  BY DEF Balance, Value, MapThenSumSet, MapThenFoldSet
<1> HIDE DEF S
<1> QED
  BY <1>1, <1>2, <1>3, SumOfBooks DEF Owing

LEMMA OwingIs ==
    ASSUME NEW bk, Booking(bk), NEW db, NEW w, db[w] \in Nat
    PROVE  Owing(bk, db, w) \in Int
<1>1. Total(Signed(bk), StandingOf(bk, w)) \in Int
  BY SignedIs, TotalStep
<1> QED
  BY <1>1 DEF Owing

\* What is owed to a person is a matter of the rows of that person only.
\* The rows of one person are the same in both books.
SameFor(bk, ck, w) ==
    \A i \in Id : (bk[i] # None /\ bk[i].worker = w) \/ (ck[i] # None /\ ck[i].worker = w)
                    => bk[i] = ck[i]

LEMMA OwingSame ==
    ASSUME NEW bk, Booking(bk), NEW ck, Booking(ck), NEW db, NEW dc, NEW w, db[w] = dc[w],
           SameFor(bk, ck, w)
    PROVE  Owing(bk, db, w) = Owing(ck, dc, w)
<1>1. StandingOf(bk, w) = StandingOf(ck, w)
  BY DEF StandingOf, LiveIn, SameFor
<1>2. \A i \in StandingOf(bk, w) : Signed(bk)[i] = Signed(ck)[i]
  BY DEF StandingOf, LiveIn, Signed, SameFor
<1>3. Total(Signed(bk), StandingOf(bk, w)) = Total(Signed(ck), StandingOf(bk, w))
  BY <1>2, SignedIs, TotalSame
<1> QED
  BY <1>1, <1>3 DEF Owing

-----------------------------------------------------------------------------
(* Lists. *)

\* A list of the members of a set names each of them.
LEMMA Listed ==
    ASSUME NEW S, IsFiniteSet(S), NEW s \in SetToSeqs(S)
    PROVE  /\ s \in Seq(S) /\ Len(s) = Cardinality(S) /\ DOMAIN s = 1..Len(s)
           /\ Cardinality(S) \in Nat
           /\ \A i \in DOMAIN s : s[i] \in S
           /\ \A x \in S : \E i \in DOMAIN s : s[i] = x
           /\ \A i, j \in DOMAIN s : i # j => s[i] # s[j]
<1> DEFINE n == Cardinality(S)
<1>1. n \in Nat
  BY FS_CardinalityType
<1>2. s \in [1..n -> S] /\ \A i, j \in 1..n : i # j => s[i] # s[j]
  BY DEF SetToSeqs
<1>3. IsFiniteSet(1..n) /\ Cardinality(1..n) = n
  BY <1>1, FS_Interval
<1>4. s \in Injection(1..n, S)
  BY <1>2 DEF Injection, IsInjective
<1>5. s \in Surjection(1..n, S)
  BY <1>3, <1>4, FS_Injection
<1>6. \A x \in S : \E i \in 1..n : s[i] = x
  BY <1>5 DEF Surjection
<1>7. s \in Seq(S) /\ Len(s) = n
  BY <1>1, <1>2
<1> QED
  BY <1>1, <1>2, <1>6, <1>7

\* What is left of a list once its head is done.
LEMMA TailIs ==
    ASSUME NEW S, NEW s \in Seq(S), Len(s) > 1
    PROVE  /\ Tail(s) \in Seq(S) /\ Len(Tail(s)) = Len(s) - 1 /\ Tail(s) # <<>>
           /\ Head(s) = s[1] /\ 1 \in DOMAIN s
           /\ \A i \in DOMAIN Tail(s) : i + 1 \in DOMAIN s /\ Tail(s)[i] = s[i + 1]
           /\ \A i \in DOMAIN s : i # 1 => i - 1 \in DOMAIN Tail(s) /\ Tail(s)[i - 1] = s[i]
<1>1. /\ Tail(s) \in Seq(S) /\ Len(Tail(s)) = Len(s) - 1 /\ Tail(s) # <<>>
      /\ Head(s) = s[1] /\ Len(s) \in Nat
  OBVIOUS
<1>2. DOMAIN s = 1..Len(s) /\ DOMAIN Tail(s) = 1..(Len(s) - 1)
  BY <1>1
<1>3. \A i \in 1..(Len(s) - 1) : Tail(s)[i] = s[i + 1]
  OBVIOUS
<1>4. \A i \in 1..(Len(s) - 1) : i + 1 \in 1..Len(s)
  BY <1>1
<1>5. \A i \in 1..Len(s) : i # 1 => i - 1 \in 1..(Len(s) - 1) /\ (i - 1) + 1 = i
  BY <1>1
<1>6. 1 \in 1..Len(s)
  BY <1>1
<1> QED
  BY <1>1, <1>2, <1>3, <1>4, <1>5, <1>6

LEMMA HeadIs ==
    ASSUME NEW S, NEW s \in Seq(S), s # <<>>
    PROVE  Head(s) = s[1] /\ 1 \in DOMAIN s /\ Head(s) \in S /\ Len(s) \in Nat /\ Len(s) >= 1
  OBVIOUS

-----------------------------------------------------------------------------
(* What the API does to the books. *)

Writes == {"settle", "pay", "advance"}
Backs == {"reverse", "void"}

OwnLines(bk) == \A i \in Id : bk[i] # None => \A l \in bk[i].lines : Of[l] = bk[i].worker

OwnRow(row) == \A l \in row.lines : Of[l] = row.worker

\* What is booked stays booked as it is, and what was taken back stays so.
Later(bk, ck) ==
    \A i \in Id : bk[i] # None =>
        /\ ck[i] # None /\ ck[i].op = bk[i].op /\ ck[i].worker = bk[i].worker
        /\ ck[i].amount = bk[i].amount /\ ck[i].lines = bk[i].lines
        /\ LiveIn(ck, i) => LiveIn(bk, i)

OthersStay(bk, ck, w) ==
    \A i \in Id : (bk[i] # None /\ bk[i].worker # w) \/ (ck[i] # None /\ ck[i].worker # w)
                    => ck[i] = bk[i]

\* One row moved, of one person.
Moved(bk, ck, w, n) ==
    /\ Booking(ck) /\ OwnLines(ck) /\ Later(bk, ck) /\ OthersStay(bk, ck, w)
    /\ \A i \in Id : i # n => ck[i] = bk[i]

LEMMA NothingMoved ==
    ASSUME NEW bk, Booking(bk), OwnLines(bk), NEW w, NEW n
    PROVE  Moved(bk, bk, w, n)
  BY DEF Moved, Later, OthersStay

Put(bk, n, row) == [bk EXCEPT ![n] = row]

LEMMA RowBooked ==
    ASSUME NEW bk, Booking(bk), OwnLines(bk), NEW n \in Id, bk[n] = None,
           NEW row, row \in Fact, OwnRow(row),
           NEW ck, ck = Put(bk, n, row)
    PROVE  Moved(bk, ck, row.worker, n) /\ ck[n] = row /\ ck[n] # None
<1> USE DEF Put
<1>1. row # None
  BY NoneAssumption
<1>2. ck[n] = row /\ \A i \in Id : i # n => ck[i] = bk[i]
  BY DEF Booking
<1>3. Booking(ck)
  BY DEF Booking
<1>4. OwnLines(ck)
  BY <1>2 DEF OwnLines, OwnRow
<1>5. Later(bk, ck) /\ OthersStay(bk, ck, row.worker)
  BY <1>2, <1>1 DEF Later, OthersStay, LiveIn
<1> QED
  BY <1>1, <1>2, <1>3, <1>4, <1>5 DEF Moved

LEMMA RowCleared ==
    ASSUME NEW bk, Booking(bk), OwnLines(bk), NEW n \in Id, bk[n] # None,
           NEW ck, ck = [bk EXCEPT ![n].live = FALSE]
    PROVE  Moved(bk, ck, bk[n].worker, n) /\ ck[n] # None /\ ~LiveIn(ck, n)
<1> DEFINE b == bk[n]
           c == [b EXCEPT !.live = FALSE]
<1>1. b \in Fact
  BY RowIs
<1>2. c \in Fact /\ c.op = b.op /\ c.worker = b.worker /\ c.lines = b.lines
      /\ c.amount = b.amount /\ c.live = FALSE
  <2> HIDE DEF b
  <2> QED
    BY <1>1 DEF Fact
<1>3. ck[n] = c /\ \A i \in Id : i # n => ck[i] = bk[i]
  BY DEF Booking
<1>4. ck = [bk EXCEPT ![n] = c]
  OBVIOUS
<1> HIDE DEF c
<1>5. c # None
  BY <1>2, NoneAssumption
<1>6. Booking(ck)
  BY <1>2, <1>4 DEF Booking
<1>7. OwnLines(ck)
  BY <1>2, <1>3 DEF OwnLines
<1>8. Later(bk, ck) /\ OthersStay(bk, ck, bk[n].worker)
  BY <1>2, <1>3, <1>5 DEF Later, OthersStay, LiveIn
<1> QED
  BY <1>2, <1>3, <1>5, <1>6, <1>7, <1>8 DEF Moved, LiveIn

LEMMA RequestIs ==
    ASSUME NEW q \in Request
    PROVE  /\ q.op \in Writes \cup Backs /\ q.worker \in Worker /\ q.lines \in SUBSET Line
           /\ q.amount \in Int /\ q.id \in Id \cup {0}
  BY DEF Request, Op, Writes, Backs

\* What the API answers.
LEMMA VerdictIs ==
    ASSUME NEW q \in Request
    PROVE  /\ q.op \in Backs => \/ Live(q.id) /\ Verdict(q) = "ok"
                                \/ ~Live(q.id) /\ Verdict(q) = "ALREADY_UNDONE"
           /\ q.op \in Writes => Verdict(q) # "ALREADY_UNDONE"
           /\ q.op \in Writes /\ Verdict(q) = "ok" =>
                 /\ q.amount > 0
                 /\ books[q.id] # None => q.op = "settle" \/ books[q.id].amount = q.amount
<1>1. q.op \in Writes \cup Backs
  BY RequestIs
<1>2. CASE q.op \in Backs
  <2>1. Verdict(q) = IF Live(q.id) THEN "ok" ELSE "ALREADY_UNDONE"
    BY <1>2 DEF Verdict, Backs
  <2>2. q.op \notin Writes
    BY <1>2 DEF Backs, Writes
  <2> QED
    BY <2>1, <2>2
<1>3. CASE q.op \in Writes
  <2> DEFINE low == q.amount <= 0
  <2>1. q.op \notin {"reverse", "void"} /\ q.op \notin Backs
    BY <1>3 DEF Writes, Backs
  <2>2. low => Verdict(q) = "VALIDATION"
    BY <2>1 DEF Verdict
  <2>3. low \/ q.amount > 0
    BY RequestIs
  <2>4. ~low /\ books[q.id] # None =>
           Verdict(q) = IF q.op = "settle" \/ books[q.id].amount = q.amount
                        THEN "ok" ELSE "IDEMPOTENCY_KEY_REUSED"
    BY <2>1 DEF Verdict
  <2>5. ~low /\ books[q.id] = None => Verdict(q) # "ALREADY_UNDONE"
    BY <2>1 DEF Verdict
  <2> QED
    BY <1>3, <2>1, <2>2, <2>3, <2>4, <2>5
<1> QED
  BY <1>1, <1>2, <1>3

\* The row a write books.
BookedAs(q) ==
    [op |-> q.op, worker |-> q.worker, amount |-> q.amount, live |-> TRUE,
     lines |-> IF q.op = "settle" THEN q.lines \cap Pending(q.worker) ELSE {}]

LEMMA ServedIs ==
    ASSUME Booking(books), OwnLines(books), NEW q \in Request, q.id \in Id,
           q.op \in Backs => books[q.id].worker = q.worker,
           books' = Served(q)
    PROVE  /\ Moved(books, books', q.worker, q.id)
           /\ Verdict(q) # "ok" => books' = books
           /\ q.op \in Writes /\ Verdict(q) = "ok" => books'[q.id] # None
           /\ q.op \in Writes /\ books[q.id] = None /\ books'[q.id] # None =>
                 /\ books'[q.id].op = q.op /\ books'[q.id].worker = q.worker
                 /\ books'[q.id].amount = q.amount /\ books'[q.id].lines \subseteq q.lines
           /\ q.op \in Backs => ~LiveIn(books', q.id) /\ (books[q.id] = None => books'[q.id] = None)
<1>1. q.op \in Writes \cup Backs /\ q.worker \in Worker /\ q.lines \in SUBSET Line
      /\ q.amount \in Int
  BY RequestIs
<1>2. CASE Verdict(q) # "ok" \/ (q.op \in Writes /\ books[q.id] # None)
  <2>1. books' = books
    BY <1>2 DEF Served, Writes
  <2>2. Moved(books, books, q.worker, q.id)
    BY NothingMoved
  <2>3. Moved(books, books', q.worker, q.id)
    BY <2>1, <2>2
  <2>4. q.op \in Backs /\ Verdict(q) # "ok" => ~LiveIn(books', q.id)
    BY <2>1, VerdictIs DEF LiveIn, Live
  <2> QED
    BY <1>2, <2>1, <2>3, <2>4 DEF Writes, Backs
<1>3. CASE Verdict(q) = "ok" /\ q.op \in Backs
  <2>1. books[q.id] # None
    BY <1>3, VerdictIs DEF Live
  <2>2. books' = [books EXCEPT ![q.id].live = FALSE]
    BY <1>3 DEF Served, Backs
  <2>3. Moved(books, books', books[q.id].worker, q.id) /\ books'[q.id] # None
        /\ ~LiveIn(books', q.id)
    BY <2>1, <2>2, RowCleared
  <2> QED
    BY <1>3, <2>1, <2>3 DEF Writes, Backs
<1>4. CASE Verdict(q) = "ok" /\ q.op \in Writes /\ books[q.id] = None
  <2>1. books' = [books EXCEPT ![q.id] = BookedAs(q)]
    BY <1>4 DEF Served, Writes, BookedAs
  <2>2. q.amount \in Nat
    BY <1>1, <1>4, VerdictIs
  <2>3. BookedAs(q) \in Fact
    BY <1>1, <1>4, <2>2 DEF BookedAs, Fact, Writes
  <2>4. BookedAs(q).op = q.op /\ BookedAs(q).worker = q.worker
        /\ BookedAs(q).amount = q.amount /\ BookedAs(q).lines \subseteq Pending(q.worker)
        /\ BookedAs(q).lines \subseteq q.lines
    BY DEF BookedAs
  <2>5. OwnRow(BookedAs(q))
    BY <2>4 DEF Pending, OwnRow
  <2>6. books[q.id] = None /\ q.id \in Id
    BY <1>4
  <2>7. Moved(books, books', BookedAs(q).worker, q.id) /\ books'[q.id] = BookedAs(q)
        /\ books'[q.id] # None
    <3>1. books' = Put(books, q.id, BookedAs(q))
      BY <2>1 DEF Put
    <3> QED
      BY <3>1, <2>3, <2>5, <2>6, RowBooked
  <2> QED
    BY <1>4, <2>4, <2>7 DEF Writes, Backs
<1> QED
  BY <1>1, <1>2, <1>3, <1>4

-----------------------------------------------------------------------------
(* Ids that are free. *)

\* Of some ids in number, no more than one was taken.
LEMMA OneTaken ==
    ASSUME NEW F \in SUBSET Id, NEW G \in SUBSET Id, NEW x, F \ {x} \subseteq G
    PROVE  /\ Cardinality(F) \in Nat /\ Cardinality(G) \in Nat
           /\ Cardinality(G) >= Cardinality(F) - 1
           /\ F \subseteq G => Cardinality(G) >= Cardinality(F)
<1>1. IsFiniteSet(F) /\ IsFiniteSet(G)
  BY IdsAreFinite, FS_Subset
<1>2. Cardinality(F) \in Nat /\ Cardinality(G) \in Nat
  BY <1>1, FS_CardinalityType
<1>3. Cardinality(F \ {x}) <= Cardinality(G)
  BY <1>1, FS_Subset
<1>4. Cardinality(F \ {x}) >= Cardinality(F) - 1
  BY <1>1, <1>2, FS_RemoveElement
<1>5. F \subseteq G => Cardinality(F) <= Cardinality(G)
  BY <1>1, FS_Subset
<1>6. IsFiniteSet(F \ {x})
  BY <1>1, FS_RemoveElement
<1>7. Cardinality(F \ {x}) \in Nat
  BY <1>6, FS_CardinalityType
<1> QED
  BY <1>2, <1>3, <1>4, <1>5, <1>7

LEMMA FreeSome ==
    ASSUME Cardinality(Free) >= 1
    PROVE  NewId \in Free
<1>1. Free # {}
  <2> SUFFICES ASSUME Free = {}
               PROVE  FALSE
    OBVIOUS
  <2>1. Cardinality(Free) = 0
    BY FS_EmptySet
  <2> QED
    BY <2>1
<1> QED
  BY <1>1 DEF NewId

-----------------------------------------------------------------------------
(* The invariant.                                                          *)
(*                                                                         *)
(* What an id may stand for is fixed when it is minted: the intent, the    *)
(* request and the person.  Whatever carries the id afterwards - a row, a  *)
(* request on its way, a report - is of that fact.  A run has ids enough,  *)
(* asks for what its intent says, and has checked what it writes; an undo  *)
(* still has in front of it what it has not taken back.                    *)
(***************************************************************************)

\* What is asked for in the name of an intent.
Meant(it, q) ==
    /\ it.step \in {"settle", "pay"} \/ q.op = "pay" => <<q.worker, q.amount>> \in it.sums
    /\ it.step = "one" /\ q.op = "advance" => q.amount = it.extra
    /\ it.step = "one" /\ q.op = "settle" => q.lines \subseteq it.lines

OneSumEach(it) == \A s, t \in it.sums : s[1] = t[1] => s = t

OfKey(k, q) == q.op = k[2] /\ q.worker = k[3] /\ Meant(k[1], q)

Keys(kept, bk, lim) ==
    /\ \A k \in DOMAIN kept : k[2] \in Writes /\ OneSumEach(k[1])
    /\ \A k, m \in DOMAIN kept : kept[k] = kept[m] => k = m
    /\ \A k \in DOMAIN kept : bk[kept[k]] # None => OfKey(k, bk[kept[k]])
    /\ \A k \in DOMAIN kept : \A q \in lim :
          q.op \in Writes /\ q.id = kept[k] => OfKey(k, q)

Booked(q, bk) == bk[q.id] # None /\ bk[q.id].worker = q.worker

Late(lim, bk) == \A q \in lim : q.id \in Id /\ (q.op \in Backs => Booked(q, bk))

Reports(rep, pg) ==
    /\ IsFiniteSet(rep)
    /\ rep # {} => pg = None
    /\ \A q \in rep : q.op \in {"settle", "pay"} /\ q.id \in Id

Named(told, bk, pg) ==
    \A q \in told : q.op \in Writes =>
        /\ bk[q.id] # None /\ bk[q.id].op = q.op /\ bk[q.id].worker = q.worker
        /\ pg = None \/ q.op # "settle" => bk[q.id].amount = q.amount
        /\ pg # None /\ q.op = "settle" => bk[q.id].lines \subseteq q.lines

CrewRun(j, pg, step) ==
    /\ pg = None
    /\ \A i \in DOMAIN j.left : j.left[i].op = step /\ j.left[i].id = 0
    /\ \A i, m \in DOMAIN j.left : i # m => j.left[i].worker # j.left[m].worker
    /\ \A q \in j.done : q.op = step

SingleRun(j, pg) ==
    /\ pg # None
    /\ \A i \in DOMAIN j.left : j.left[i].op \in Writes /\ j.left[i].id = 0
    /\ \A i \in DOMAIN j.left : j.left[i].op = "settle" => j.left[i].lines = j.intent.lines
    /\ \A q \in j.done : q.op \in Writes

\* The payments of the reports are reversed, the settlements voided.
TakenBackBy(p) == IF p.op = "pay" THEN "reverse" ELSE "void"

UndoRun(j, pg, bk, rep) ==
    /\ pg = None
    /\ \A i \in DOMAIN j.left :
          j.left[i].op \in Backs /\ j.left[i].id \in Id /\ Booked(j.left[i], bk)
    /\ \A q \in j.done : q.op \in Backs
    /\ \A i, m \in DOMAIN j.left : i < m /\ j.left[i].op = "void" => j.left[m].op = "void"
    /\ (\E q \in j.done : q.op = "void") => \A i \in DOMAIN j.left : j.left[i].op = "void"
    /\ \A p \in rep :
          \/ j.failed \/ ~LiveIn(bk, p.id)
          \/ \E i \in DOMAIN j.left : j.left[i].id = p.id /\ j.left[i].op = TakenBackBy(p)

\* What is still to be written is meant by the intent, and has an id to come.
WriteRun(j, free) ==
    /\ Cardinality(free) >= Len(j.left)
    /\ OneSumEach(j.intent)
    /\ \A i \in DOMAIN j.left : Meant(j.intent, j.left[i])

RunInv(j, pg, bk, rep, free) ==
    /\ j.left # <<>>
    /\ IsFiniteSet(j.done) /\ \A q \in j.done : q.id \in Id
    /\ j.unchecked = {} => ~j.blocked
    /\ j.intent.step = "settle" => CrewRun(j, pg, "settle")
    /\ j.intent.step = "pay" => CrewRun(j, pg, "pay")
    /\ j.intent.step = "one" => SingleRun(j, pg)
    /\ j.intent.step = "undo" => UndoRun(j, pg, bk, rep)
    /\ j.intent.step # "undo" => WriteRun(j, free)

\* What is pending, over books and work that are handed over.
TakenIn(bk) == UNION {bk[i].lines : i \in {m \in Id : LiveIn(bk, m)}}
PendingIn(bk, wk, w) == {l \in Line : Of[l] = w /\ wk[l] = "live"} \ TakenIn(bk)

Agreed(q, step, bk, db, wk, pr) ==
    /\ step = "settle" =>
          q.lines \subseteq PendingIn(bk, wk, q.worker) /\ pr * Cardinality(q.lines) = q.amount
    /\ step = "pay" => Owing(bk, db, q.worker) = q.amount

AgreedRun(j, mv, bk, db, wk, pr) ==
    ~j.blocked => \A i \in DOMAIN j.left :
        j.left[i].worker \notin mv => Agreed(j.left[i], j.intent.step, bk, db, wk, pr)

PaydayInv ==
    /\ TypeOK
    /\ OwnLines(books)
    /\ Keys(ids, books, limbo)
    /\ Late(limbo, books)
    /\ Reports(report, page)
    /\ Named(Told, books, page)
    /\ job # None =>
          /\ RunInv(job, page, books, report, Free)
          /\ AgreedRun(job, moved, books, debt, work, price)

-----------------------------------------------------------------------------
(* What a step of the books leaves standing. *)

LEMMA PendingIs ==
    ASSUME NEW w
    PROVE  /\ Pending(w) = PendingIn(books, work, w)
           /\ Pending(w)' = PendingIn(books', work', w)
<1>1. Settled = TakenIn(books)
  BY DEF Settled, TakenIn, LiveIn, Live
<1>2. Settled' = TakenIn(books')
  BY DEF Settled, TakenIn, LiveIn, Live
<1> QED
  BY <1>1, <1>2 DEF Pending, PendingIn

LEMMA PendingSame ==
    ASSUME NEW bk, NEW ck, NEW v, NEW n, NEW w, Booking(bk), OwnLines(bk), Moved(bk, ck, v, n),
           w # v, NEW wk, NEW wl, \A l \in Line : Of[l] = w => wl[l] = wk[l]
    PROVE  PendingIn(bk, wk, w) = PendingIn(ck, wl, w)
<1>1. \A l \in Line : Of[l] = w => (l \in TakenIn(bk) <=> l \in TakenIn(ck))
  BY DEF TakenIn, LiveIn, Moved, OthersStay, OwnLines
<1> QED
  BY <1>1 DEF PendingIn

LEMMA AgreedStays ==
    ASSUME NEW q, NEW step, NEW bk, NEW ck, NEW v, NEW n, Booking(bk), OwnLines(bk),
           Moved(bk, ck, v, n), q.worker # v,
           NEW db, NEW dc, db[q.worker] = dc[q.worker],
           NEW wk, NEW wl, \A l \in Line : Of[l] = q.worker => wl[l] = wk[l],
           NEW pr, Agreed(q, step, bk, db, wk, pr)
    PROVE  Agreed(q, step, ck, dc, wl, pr)
<1>1. PendingIn(bk, wk, q.worker) = PendingIn(ck, wl, q.worker)
  BY PendingSame
<1>2. Booking(ck)
  BY DEF Moved
<1>3. SameFor(bk, ck, q.worker)
  BY DEF Moved, OthersStay, SameFor
<1>4. Owing(bk, db, q.worker) = Owing(ck, dc, q.worker)
  BY <1>2, <1>3, OwingSame
<1> QED
  BY <1>1, <1>4 DEF Agreed

LEMMA KeysStay ==
    ASSUME NEW kept, NEW bk, NEW ck, NEW lim, NEW lm \in SUBSET lim, Keys(kept, bk, lim),
           \A k \in DOMAIN kept : kept[k] \in Id, Later(bk, ck),
           \A k \in DOMAIN kept : bk[kept[k]] = None /\ ck[kept[k]] # None
                                     => OfKey(k, ck[kept[k]])
    PROVE  Keys(kept, ck, lm)
<1>1. \A k \in DOMAIN kept : bk[kept[k]] # None => OfKey(k, ck[kept[k]])
  BY DEF Keys, Later, OfKey, Meant
<1> QED
  BY <1>1 DEF Keys

LEMMA LateStays ==
    ASSUME NEW bk, NEW ck, NEW lim, NEW lm \in SUBSET lim, Late(lim, bk), Later(bk, ck)
    PROVE  Late(lm, ck)
  BY DEF Late, Later, Booked

LEMMA NamedStays ==
    ASSUME NEW bk, NEW ck, NEW told, NEW pg, Named(told, bk, pg), Later(bk, ck),
           \A q \in told : q.id \in Id
    PROVE  Named(told, ck, pg)
  BY DEF Named, Later

LEMMA UndoStays ==
    ASSUME NEW j, NEW pg, NEW bk, NEW ck, NEW rep, UndoRun(j, pg, bk, rep), Later(bk, ck),
           \A p \in rep : p.id \in Id /\ bk[p.id] # None
    PROVE  UndoRun(j, pg, ck, rep)
<1>1. \A i \in DOMAIN j.left : Booked(j.left[i], ck)
  BY DEF UndoRun, Later, Booked
<1>2. \A p \in rep : ~LiveIn(bk, p.id) => ~LiveIn(ck, p.id)
  BY DEF Later
<1> QED
  BY <1>1, <1>2 DEF UndoRun

LEMMA RunStays ==
    ASSUME NEW j, NEW pg, NEW bk, NEW ck, NEW rep, NEW free, NEW fr,
           RunInv(j, pg, bk, rep, free), Later(bk, ck),
           \A p \in rep : p.id \in Id /\ bk[p.id] # None,
           j.intent.step # "undo" => Cardinality(fr) >= Len(j.left)
    PROVE  RunInv(j, pg, ck, rep, fr)
<1>1. j.intent.step = "undo" => UndoRun(j, pg, ck, rep)
  BY UndoStays DEF RunInv
<1>2. j.intent.step # "undo" => WriteRun(j, fr)
  BY DEF RunInv, WriteRun
<1> QED
  BY <1>1, <1>2 DEF RunInv

-----------------------------------------------------------------------------
(* What goes on elsewhere. *)

LEMMA FreeIs ==
    ASSUME NEW x
    PROVE  /\ x \in Free <=> /\ x \in Id /\ books[x] = None
                             /\ \A k \in DOMAIN ids : ids[k] # x
                             /\ \A q \in limbo \cup report : q.id # x
           /\ (x \in Free)' <=> /\ x \in Id /\ books'[x] = None
                                /\ \A k \in DOMAIN ids' : ids'[k] # x
                                /\ \A q \in limbo' \cup report' : q.id # x
  BY DEF Free, Range

LEMMA FreeInId == Free \in SUBSET Id /\ Free' \in SUBSET Id
  BY DEF Free

LEMMA RunIs ==
    ASSUME NEW j, j \in Run
    PROVE  /\ j.intent \in Intent /\ j.intent.step \in {"settle", "pay", "one", "undo"}
           /\ j.unchecked \in SUBSET Worker /\ j.blocked \in BOOLEAN
           /\ j.left \in Seq(Request) /\ j.done \in SUBSET Request /\ j.failed \in BOOLEAN
           /\ DOMAIN j.left = 1..Len(j.left) /\ Len(j.left) \in Nat
           /\ \A i \in DOMAIN j.left : j.left[i] \in Request /\ j.left[i].worker \in Worker
<1>1. j.intent \in Intent /\ j.left \in Seq(Request)
      /\ j.unchecked \in SUBSET Worker /\ j.blocked \in BOOLEAN
      /\ j.done \in SUBSET Request /\ j.failed \in BOOLEAN
  BY DEF Run
<1>2. j.intent.step \in {"settle", "pay", "one", "undo"}
  BY <1>1 DEF Intent, Step
<1>3. DOMAIN j.left = 1..Len(j.left) /\ Len(j.left) \in Nat
      /\ \A i \in DOMAIN j.left : j.left[i] \in Request
  BY <1>1
<1> QED
  BY <1>1, <1>2, <1>3, RequestIs

LEMMA ToldIs ==
    ASSUME PaydayInv
    PROVE  /\ \A q \in Told : q.id \in Id
           /\ \A q \in report : q \in Told /\ q.id \in Id /\ books[q.id] # None
                                /\ books[q.id].op = q.op /\ books[q.id].worker = q.worker
           /\ job # None => job \in Run /\ \A q \in job.done : q \in Told /\ q.id \in Id
<1>1. \A q \in report : q \in Told /\ q.id \in Id /\ q.op \in Writes
  BY DEF PaydayInv, Reports, Told, Writes
<1>2. \A q \in report : books[q.id] # None /\ books[q.id].op = q.op /\ books[q.id].worker = q.worker
  BY <1>1 DEF PaydayInv, Named
<1>3. job # None => job \in Run /\ \A q \in job.done : q \in Told /\ q.id \in Id
  BY DEF PaydayInv, TypeOK, RunInv, Told
<1>4. \A q \in Told : q.id \in Id
  BY <1>1, <1>3 DEF Told
<1> QED
  BY <1>1, <1>2, <1>3, <1>4

LEMMA ElsewhereKeeps ==
    ASSUME PaydayInv, TypeOK', NEW w, NEW n, Moved(books, books', w, n),
           \A k \in DOMAIN ids : books[ids[k]] = None /\ books'[ids[k]] # None
                                    => OfKey(k, books'[ids[k]]),
           UNCHANGED <<page, ids, report, job>>, limbo' \in SUBSET limbo,
           job # None /\ job.intent.step # "undo" => Cardinality(Free') >= Len(job.left),
           job # None => AgreedRun(job, moved', books', debt', work', price')
    PROVE  PaydayInv'
<1>1. Later(books, books') /\ OwnLines(books')
  BY DEF Moved
<1>2. \A k \in DOMAIN ids : ids[k] \in Id
  BY DEF PaydayInv, TypeOK, Range
<1>3. Keys(ids, books', limbo')
  BY <1>1, <1>2, KeysStay DEF PaydayInv
<1>4. Late(limbo', books')
  BY <1>1, LateStays DEF PaydayInv
<1>5. Told' = Told
  BY DEF Told
<1>6. Named(Told, books', page)
  BY <1>1, ToldIs, NamedStays DEF PaydayInv
<1>7. job # None => RunInv(job, page, books', report, Free')
  <2> SUFFICES ASSUME job # None
               PROVE  RunInv(job, page, books', report, Free')
    OBVIOUS
  <2>1. RunInv(job, page, books, report, Free)
    BY DEF PaydayInv
  <2>2. \A p \in report : p.id \in Id /\ books[p.id] # None
    BY ToldIs
  <2> QED
    BY <1>1, <2>1, <2>2, RunStays
<1>8. Reports(report, page)
  BY DEF PaydayInv
<1> QED
  BY <1>1, <1>3, <1>4, <1>5, <1>6, <1>7, <1>8 DEF PaydayInv

\* Those whose figures may have moved are no longer relied upon.
LEMMA AgreedElsewhere ==
    ASSUME PaydayInv, job # None, NEW w, NEW n, Moved(books, books', w, n),
           NEW ws, w \in ws, moved' = moved \cup ws,
           \A v \in Worker \ ws : debt'[v] = debt[v],
           \A l \in Line : Of[l] \notin ws => work'[l] = work[l],
           price' = price \/ Worker \subseteq ws
    PROVE  AgreedRun(job, moved', books', debt', work', price')
<1> SUFFICES ASSUME ~job.blocked, NEW i \in DOMAIN job.left, job.left[i].worker \notin moved'
             PROVE  Agreed(job.left[i], job.intent.step, books', debt', work', price')
  BY DEF AgreedRun
<1> DEFINE q == job.left[i]
           step == job.intent.step
<1>1. q.worker \in Worker /\ q.worker \notin ws /\ q.worker \notin moved
  BY RunIs DEF PaydayInv, TypeOK
<1>2. price' = price
  BY <1>1
<1>3. Agreed(q, step, books, debt, work, price)
  BY <1>1 DEF PaydayInv, AgreedRun
<1>4. q.worker # w /\ debt[q.worker] = debt'[q.worker]
      /\ \A l \in Line : Of[l] = q.worker => work'[l] = work[l]
  BY <1>1
<1>5. Booking(books) /\ OwnLines(books)
  BY DEF PaydayInv, TypeOK, Booking
<1> HIDE DEF q, step
<1>6. Agreed(q, step, books', debt', work', price)
  BY <1>3, <1>4, <1>5, AgreedStays
<1> QED
  BY <1>2, <1>6 DEF q, step

LEMMA FreeKept ==
    ASSUME PaydayInv, Free \subseteq Free', job # None, job.intent.step # "undo"
    PROVE  Cardinality(Free') >= Len(job.left)
<1>1. Cardinality(Free) >= Len(job.left) /\ Len(job.left) \in Nat
  BY RunIs DEF PaydayInv, TypeOK, RunInv, WriteRun
<1>2. Cardinality(Free) \in Nat /\ Cardinality(Free') \in Nat
      /\ Cardinality(Free') >= Cardinality(Free)
  BY FreeInId, OneTaken
<1> QED
  BY <1>1, <1>2

LEMMA BooksTyped == ASSUME PaydayInv PROVE Booking(books) /\ OwnLines(books)
  BY DEF PaydayInv, TypeOK, Booking

LEMMA EventsCount ==
    ASSUME events \in 0..EventCap, events < EventCap, events' = events + 1
    PROVE  events' \in 0..EventCap
  BY BoundAssumption

\* Nothing of the books moves.
LEMMA QuietElsewhere ==
    ASSUME PaydayInv, TypeOK', NEW ws \in SUBSET Worker, ws # {}, Touches(ws),
           UNCHANGED <<books, limbo>>,
           \A v \in Worker \ ws : debt'[v] = debt[v],
           \A l \in Line : Of[l] \notin ws => work'[l] = work[l],
           price' = price \/ ws = Worker
    PROVE  PaydayInv'
<1>1. PICK w \in ws : TRUE
  OBVIOUS
<1>2. UNCHANGED <<page, ids, report, job, books, limbo>>
  BY DEF Touches
<1>3. Moved(books, books', w, 0)
  <2>1. Moved(books, books, w, 0)
    BY BooksTyped, NothingMoved
  <2> QED
    BY <1>2, <2>1
<1>4. Free' = Free
  BY <1>2 DEF Free
<1>5. job # None /\ job.intent.step # "undo" => Cardinality(Free') >= Len(job.left)
  BY <1>4, FreeKept
<1>6. job # None => AgreedRun(job, moved', books', debt', work', price')
  <2> SUFFICES ASSUME job # None
               PROVE  AgreedRun(job, moved', books', debt', work', price')
    OBVIOUS
  <2>1. moved' = moved \cup ws
    BY DEF Touches
  <2> QED
    BY <1>1, <1>3, <2>1, AgreedElsewhere
<1>7. \A k \in DOMAIN ids : books[ids[k]] = None /\ books'[ids[k]] # None
                               => OfKey(k, books'[ids[k]])
  BY <1>2
<1> QED
  BY <1>2, <1>3, <1>5, <1>6, <1>7, ElsewhereKeeps

LEMMA TouchedTypes ==
    ASSUME PaydayInv, NEW ws \in SUBSET Worker, Touches(ws)
    PROVE  /\ page' \in Page /\ seen' \in [Worker -> Figures \cup {None}]
           /\ DOMAIN ids' \subseteq Key /\ Range(ids') \subseteq Id
           /\ job' \in Run \cup {None} /\ report' \subseteq Request
           /\ excess' \in Offer \cup {None} /\ moved' \subseteq Worker
  BY DEF Touches, PaydayInv, TypeOK

LEMMA WeighKeeps ==
    ASSUME PaydayInv, NEW l \in Line, Weigh(l) \/ Delete(l)
    PROVE  PaydayInv'
<1>1. Of[l] \in Worker
  BY OfAssumption
<1>2. Touches({Of[l]}) /\ UNCHANGED <<books, limbo, debt, price>>
      /\ events < EventCap /\ events' = events + 1
  BY DEF Weigh, Delete, Elsewhere
<1>3. work' = [work EXCEPT ![l] = "live"] \/ work' = [work EXCEPT ![l] = "gone"]
  BY DEF Weigh, Delete
<1>4. work' \in [Line -> {"new", "live", "gone"}] /\ \A m \in Line : m # l => work'[m] = work[m]
  BY <1>3 DEF PaydayInv, TypeOK
<1>5. events' \in 0..EventCap
  BY <1>2, EventsCount DEF PaydayInv, TypeOK
<1>6. TypeOK'
  BY <1>1, <1>2, <1>4, <1>5, TouchedTypes DEF TypeOK, PaydayInv
<1>7. \A m \in Line : Of[m] \notin {Of[l]} => work'[m] = work[m]
  BY <1>4
<1>8. {Of[l]} \in SUBSET Worker /\ {Of[l]} # {}
  BY <1>1
<1> QED
  BY <1>2, <1>6, <1>7, <1>8, QuietElsewhere

LEMMA SetPriceKeeps ==
    ASSUME PaydayInv, NEW p \in Price, SetPrice(p)
    PROVE  PaydayInv'
<1>1. Touches(Worker) /\ UNCHANGED <<books, limbo, debt, work>> /\ price' = p
      /\ events < EventCap /\ events' = events + 1
  BY DEF SetPrice, Elsewhere
<1>2. events' \in 0..EventCap
  BY <1>1, EventsCount DEF PaydayInv, TypeOK
<1>3. TypeOK'
  BY <1>1, <1>2, TouchedTypes DEF TypeOK, PaydayInv
<1>4. CASE Worker # {}
  BY <1>1, <1>3, <1>4, QuietElsewhere
<1>5. CASE Worker = {}
  <2>1. job = None
    <3> SUFFICES ASSUME job # None
                 PROVE  FALSE
      OBVIOUS
    <3>1. job \in Run /\ job.left # <<>>
      BY DEF PaydayInv, TypeOK, RunInv
    <3>2. Head(job.left) \in Request
      BY <3>1, RunIs
    <3> QED
      BY <3>2, <1>5, RequestIs
  <2>2. UNCHANGED <<page, ids, report, job, books, limbo>>
    BY <1>1 DEF Touches
  <2>3. Told' = Told
    BY <2>2 DEF Told
  <2> QED
    BY <1>3, <2>1, <2>2, <2>3 DEF PaydayInv
<1> QED
  BY <1>4, <1>5

LEMMA DeductKeeps ==
    ASSUME PaydayInv, NEW w \in Worker, Deduct(w)
    PROVE  PaydayInv'
<1>1. Touches({w}) /\ UNCHANGED <<books, limbo, work, price>>
      /\ debt' = [debt EXCEPT ![w] = @ + 1]
      /\ events < EventCap /\ events' = events + 1
  BY DEF Deduct, Elsewhere
<1>2. debt' \in [Worker -> Nat] /\ \A v \in Worker : v # w => debt'[v] = debt[v]
  BY <1>1 DEF PaydayInv, TypeOK
<1>3. events' \in 0..EventCap
  BY <1>1, EventsCount DEF PaydayInv, TypeOK
<1>4. TypeOK'
  BY <1>1, <1>2, <1>3, TouchedTypes DEF TypeOK, PaydayInv
<1>5. \A v \in Worker \ {w} : debt'[v] = debt[v]
  BY <1>2
<1> QED
  BY <1>1, <1>4, <1>5, QuietElsewhere

-----------------------------------------------------------------------------

\* A row of one person moved elsewhere, or a request that came late.
LEMMA RowElsewhere ==
    ASSUME PaydayInv, TypeOK', NEW w, NEW n, Moved(books, books', w, n),
           NEW ws, w \in ws, Touches(ws), farm' = farm,
           limbo' \in SUBSET limbo,
           \A k \in DOMAIN ids : books[ids[k]] = None /\ books'[ids[k]] # None
                                    => OfKey(k, books'[ids[k]]),
           job # None /\ job.intent.step # "undo" => Cardinality(Free') >= Len(job.left)
    PROVE  PaydayInv'
<1>1. UNCHANGED <<page, ids, report, job>> /\ UNCHANGED <<work, price, debt>>
  BY DEF Touches, farm
<1>2. job # None => AgreedRun(job, moved', books', debt', work', price')
  <2> SUFFICES ASSUME job # None
               PROVE  AgreedRun(job, moved', books', debt', work', price')
    OBVIOUS
  <2>1. moved' = moved \cup ws
    BY DEF Touches
  <2> QED
    BY <1>1, <2>1, AgreedElsewhere
<1> QED
  BY <1>1, <1>2, ElsewhereKeeps

LEMMA ArriveKeeps ==
    ASSUME PaydayInv, NEW q \in limbo, Arrive(q)
    PROVE  PaydayInv'
<1>1. q \in Request /\ q.id \in Id /\ (q.op \in Backs => Booked(q, books))
  BY DEF PaydayInv, TypeOK, Late
<1>2. q.worker \in Worker /\ q.op \in Writes \cup Backs
  BY <1>1, RequestIs
<1>3. Touches({q.worker}) /\ books' = Served(q) /\ limbo' = limbo \ {q}
      /\ UNCHANGED <<work, price, debt, events>> /\ farm' = farm
  BY DEF Arrive, farm
<1>4. /\ Moved(books, books', q.worker, q.id)
      /\ q.op \in Writes /\ books[q.id] = None /\ books'[q.id] # None =>
            /\ books'[q.id].op = q.op /\ books'[q.id].worker = q.worker
            /\ books'[q.id].amount = q.amount /\ books'[q.id].lines \subseteq q.lines
      /\ q.op \in Backs => (books[q.id] = None => books'[q.id] = None)
  BY <1>1, <1>3, BooksTyped, ServedIs DEF Booked
<1>5. TypeOK'
  BY <1>2, <1>3, <1>4, TouchedTypes DEF TypeOK, PaydayInv, Moved, Booking
<1>6. ASSUME NEW k \in DOMAIN ids, books[ids[k]] = None, books'[ids[k]] # None
      PROVE  OfKey(k, books'[ids[k]])
  <2>1. ids[k] \in Id
    BY DEF PaydayInv, TypeOK, Range
  <2>2. ids[k] = q.id
    BY <1>4, <1>6, <2>1 DEF Moved
  <2>3. q.op \in Writes
    BY <1>2, <1>4, <1>6, <2>2
  <2>4. OfKey(k, q)
    BY <2>2, <2>3 DEF PaydayInv, Keys
  <2> QED
    BY <1>4, <1>6, <2>2, <2>3, <2>4 DEF OfKey, Meant
<1>7. Free \subseteq Free'
  <2> SUFFICES ASSUME NEW x \in Free
               PROVE  x \in Free'
    OBVIOUS
  <2>1. x \in Id /\ books[x] = None /\ (\A k \in DOMAIN ids : ids[k] # x)
        /\ \A r \in limbo \cup report : r.id # x
    BY FreeIs
  <2>2. books'[x] = None
    BY <1>4, <2>1 DEF Moved
  <2>3. ids' = ids /\ report' = report
    BY <1>3 DEF Touches
  <2> QED
    BY <1>3, <2>1, <2>2, <2>3, FreeIs
<1>8. job # None /\ job.intent.step # "undo" => Cardinality(Free') >= Len(job.left)
  BY <1>7, FreeKept
<1>9. limbo' \in SUBSET limbo /\ q.worker \in {q.worker}
  BY <1>3
<1> QED
  BY <1>3, <1>4, <1>5, <1>6, <1>8, <1>9, RowElsewhere

LEMMA VoidElsewhereKeeps ==
    ASSUME PaydayInv, NEW i \in Id, VoidElsewhere(i)
    PROVE  PaydayInv'
<1>1. books[i] # None /\ books' = [books EXCEPT ![i].live = FALSE] /\ farm' = farm
      /\ UNCHANGED <<work, price, debt, limbo>> /\ Touches({books[i].worker})
      /\ events < EventCap /\ events' = events + 1
  BY DEF VoidElsewhere, Elsewhere, Live, farm
<1>2. Moved(books, books', books[i].worker, i)
  BY <1>1, BooksTyped, RowCleared
<1>3. books[i].worker \in Worker
  BY <1>1, BooksTyped, RowIs
<1>4. events' \in 0..EventCap
  BY <1>1, EventsCount DEF PaydayInv, TypeOK
<1>5. TypeOK'
  BY <1>1, <1>2, <1>3, <1>4, TouchedTypes DEF TypeOK, PaydayInv, Moved, Booking
<1>6. \A x \in Id : books[x] = None => books'[x] = None
  BY <1>1, <1>2 DEF Moved
<1>7. \A k \in DOMAIN ids : ids[k] \in Id
  BY DEF PaydayInv, TypeOK, Range
<1>8. Free \subseteq Free'
  <2>1. ids' = ids /\ report' = report /\ limbo' = limbo
    BY <1>1 DEF Touches
  <2> QED
    BY <1>6, <2>1, FreeIs
<1>9. job # None /\ job.intent.step # "undo" => Cardinality(Free') >= Len(job.left)
  BY <1>8, FreeKept
<1>10. limbo' \in SUBSET limbo /\ books[i].worker \in {books[i].worker}
       /\ \A k \in DOMAIN ids : books[ids[k]] = None /\ books'[ids[k]] # None
                                  => OfKey(k, books'[ids[k]])
  BY <1>1, <1>6, <1>7
<1> QED
  BY <1>1, <1>2, <1>5, <1>9, <1>10, RowElsewhere

LEMMA WorthIs ==
    ASSUME TypeOK, NEW lines \in SUBSET Line
    PROVE  /\ Worth(lines) \in Nat /\ Worth(lines) = price * Cardinality(lines)
           /\ Cardinality(lines) \in Nat
<1>1. Cardinality(lines) \in Nat
  BY LineAssumption, FS_Subset, FS_CardinalityType
<1>2. price \in Nat
  BY PriceAssumption DEF TypeOK
<1> QED
  BY <1>1, <1>2 DEF Worth

LEMMA SettleElsewhereKeeps ==
    ASSUME PaydayInv, NEW w \in Worker, SettleElsewhere(w)
    PROVE  PaydayInv'
<1> DEFINE row == [op |-> "settle", worker |-> w, lines |-> Pending(w),
                   amount |-> Worth(Pending(w)), live |-> TRUE]
<1>1. Free # {} /\ Cardinality(Free) > (IF job = None THEN 0 ELSE Len(job.left))
      /\ farm' = farm /\ UNCHANGED <<work, price, debt, limbo>> /\ Touches({w})
      /\ events < EventCap /\ events' = events + 1
  BY DEF SettleElsewhere, Elsewhere, farm
<1>2. books' = Put(books, NewId, row)
  BY DEF SettleElsewhere, Put
<1>3. NewId \in Free
  BY <1>1 DEF NewId
<1>4. NewId \in Id /\ books[NewId] = None /\ \A k \in DOMAIN ids : ids[k] # NewId
  BY <1>3, FreeIs
<1>5. Pending(w) \in SUBSET Line
  BY DEF Pending
<1>6. Worth(Pending(w)) \in Nat
  BY <1>5, WorthIs DEF PaydayInv
<1>7. row \in Fact
  BY <1>5, <1>6 DEF Fact
<1>8. OwnRow(row) /\ row.worker = w
  BY DEF OwnRow, Pending
<1> HIDE DEF row
<1>9. Moved(books, books', row.worker, NewId)
  BY <1>2, <1>4, <1>7, <1>8, BooksTyped, RowBooked
<1>10. Moved(books, books', w, NewId)
  BY <1>8, <1>9
<1>11. events' \in 0..EventCap
  BY <1>1, EventsCount DEF PaydayInv, TypeOK
<1>12. {w} \in SUBSET Worker /\ w \in {w}
  OBVIOUS
<1>13. TypeOK'
  BY <1>1, <1>10, <1>11, <1>12, TouchedTypes DEF TypeOK, PaydayInv, Moved, Booking
<1>14. \A k \in DOMAIN ids : ids[k] \in Id
  BY DEF PaydayInv, TypeOK, Range
<1>15. \A k \in DOMAIN ids : books[ids[k]] = None /\ books'[ids[k]] # None
                               => OfKey(k, books'[ids[k]])
  BY <1>4, <1>10, <1>14 DEF Moved
<1>16. Free \ {NewId} \subseteq Free'
  <2>1. ids' = ids /\ report' = report /\ limbo' = limbo
    BY <1>1 DEF Touches
  <2>2. \A x \in Id : x # NewId => books'[x] = books[x]
    BY <1>10 DEF Moved
  <2> QED
    BY <2>1, <2>2, FreeIs
<1>17. ASSUME job # None, job.intent.step # "undo"
       PROVE  Cardinality(Free') >= Len(job.left)
  <2>1. Cardinality(Free) > Len(job.left) /\ Len(job.left) \in Nat
    BY <1>1, <1>17, RunIs DEF PaydayInv, TypeOK
  <2>2. Cardinality(Free) \in Nat /\ Cardinality(Free') \in Nat
        /\ Cardinality(Free') >= Cardinality(Free) - 1
    BY <1>16, FreeInId, OneTaken
  <2> QED
    BY <2>1, <2>2
<1>18. limbo' \in SUBSET limbo
  BY <1>1
<1> QED
  BY <1>1, <1>10, <1>12, <1>13, <1>15, <1>17, <1>18, RowElsewhere

-----------------------------------------------------------------------------
(* The request that is sent next, and its id. *)

LEMMA MintIs ==
    ASSUME PaydayInv, job # None, job.intent.step # "undo"
    PROVE  /\ Mint(job) \in Id
           /\ KeyOf(job) \in DOMAIN ids => Mint(job) = ids[KeyOf(job)]
           /\ KeyOf(job) \notin DOMAIN ids => Mint(job) \in Free
<1>1. job \in Run /\ job.left # <<>> /\ Cardinality(Free) >= Len(job.left)
  BY DEF PaydayInv, TypeOK, RunInv, WriteRun
<1>2. Len(job.left) >= 1 /\ Len(job.left) \in Nat
  BY <1>1, RunIs
<1>3. Cardinality(Free) \in Nat
  BY FreeInId, OneTaken
<1>4. Cardinality(Free) >= 1
  BY <1>1, <1>2, <1>3
<1>5. NewId \in Free
  BY <1>4, FreeSome
<1>6. \A k \in DOMAIN ids : ids[k] \in Id
  BY DEF PaydayInv, TypeOK, Range
<1>7. Free \subseteq Id
  BY FreeInId
<1> QED
  BY <1>5, <1>6, <1>7 DEF Mint

LEMMA HeadOfRun ==
    ASSUME PaydayInv, job # None
    PROVE  /\ job \in Run /\ 1 \in DOMAIN job.left /\ Head(job.left) = job.left[1]
           /\ Head(job.left) \in Request
           /\ job.intent.step # "undo" =>
                 /\ Head(job.left).op \in Writes /\ Head(job.left).id = 0
                 /\ Meant(job.intent, Head(job.left))
           /\ job.intent.step = "undo" =>
                 /\ Head(job.left).op \in Backs /\ Head(job.left).id \in Id
                 /\ Booked(Head(job.left), books)
<1>1. job \in Run /\ job.left # <<>> /\ RunInv(job, page, books, report, Free)
  BY DEF PaydayInv, TypeOK, RunInv
<1>2. Head(job.left) = job.left[1] /\ 1 \in DOMAIN job.left /\ Head(job.left) \in Request
  BY <1>1, HeadIs, RunIs
<1>3. job.intent.step \in {"settle", "pay", "one", "undo"}
  BY <1>1, RunIs
<1>4. job.intent.step # "undo" => job.left[1].op \in Writes /\ job.left[1].id = 0
                                  /\ Meant(job.intent, job.left[1])
  BY <1>1, <1>2, <1>3 DEF RunInv, WriteRun, CrewRun, SingleRun, Writes
<1>5. job.intent.step = "undo" => job.left[1].op \in Backs /\ job.left[1].id \in Id
                                  /\ Booked(job.left[1], books)
  BY <1>1, <1>2 DEF RunInv, UndoRun
<1> QED
  BY <1>1, <1>2, <1>4, <1>5

LEMMA Disjoint == Writes \cap Backs = {} /\ {"reverse", "void"} = Backs
  BY DEF Writes, Backs

LEMMA SentIs ==
    ASSUME PaydayInv, job # None
    PROVE  /\ Sent(job) \in Request /\ Sent(job).id \in Id
           /\ Sent(job).op = Head(job.left).op /\ Sent(job).worker = Head(job.left).worker
           /\ Sent(job).amount = Head(job.left).amount /\ Sent(job).lines = Head(job.left).lines
           /\ job.intent.step = "undo" =>
                 Sent(job) = Head(job.left) /\ Sent(job).op \in Backs /\ Booked(Sent(job), books)
           /\ job.intent.step # "undo" => Sent(job).op \in Writes /\ Sent(job).id = Mint(job)
<1> DEFINE h == Head(job.left)
<1>1. CASE job.intent.step = "undo"
  <2>1. Sent(job) = h
    BY <1>1, HeadOfRun, Disjoint DEF Sent
  <2> QED
    BY <1>1, <2>1, HeadOfRun
<1>2. CASE job.intent.step # "undo"
  <2>1. Sent(job) = [h EXCEPT !.id = Mint(job)]
    BY <1>2, HeadOfRun, Disjoint DEF Sent
  <2>2. h \in Request /\ Mint(job) \in Id /\ h.op \in Writes
    BY <1>2, HeadOfRun, MintIs
  <2> HIDE DEF h
  <2>3. [h EXCEPT !.id = Mint(job)] \in Request /\ [h EXCEPT !.id = Mint(job)].op = h.op
        /\ [h EXCEPT !.id = Mint(job)].worker = h.worker
        /\ [h EXCEPT !.id = Mint(job)].amount = h.amount
        /\ [h EXCEPT !.id = Mint(job)].lines = h.lines
        /\ [h EXCEPT !.id = Mint(job)].id = Mint(job)
    BY <2>2 DEF Request
  <2> QED
    BY <1>2, <2>1, <2>2, <2>3 DEF h
<1> QED
  BY <1>1, <1>2

\* The page of one person settles all the lines its intent names.
LEMMA SentLines ==
    ASSUME PaydayInv, job # None, job.intent.step = "one", Sent(job).op = "settle"
    PROVE  Sent(job).lines = job.intent.lines
<1>1. SingleRun(job, page)
  BY DEF PaydayInv, RunInv
<1>2. 1 \in DOMAIN job.left /\ Head(job.left) = job.left[1]
  BY HeadOfRun
<1>3. job.left[1].op = "settle" /\ Sent(job).lines = job.left[1].lines
  BY <1>2, SentIs
<1> QED
  BY <1>1, <1>2, <1>3 DEF SingleRun

\* What is sent is of the key it is sent under.
LEMMA SentOfKey ==
    ASSUME PaydayInv, job # None, job.intent.step # "undo"
    PROVE  /\ OfKey(KeyOf(job), Sent(job)) /\ KeyOf(job) \in Key
           /\ KeyOf(job)[1] = job.intent /\ KeyOf(job)[2] \in Writes
           /\ KeyOf(job)[3] = Sent(job).worker /\ KeyOf(job)[2] = Sent(job).op
<1>1. KeyOf(job) = <<job.intent, Head(job.left).op, Head(job.left).worker>>
  BY DEF KeyOf
<1>2. Meant(job.intent, Sent(job))
  BY HeadOfRun, SentIs DEF Meant
<1>3. job.intent \in Intent /\ Head(job.left).op \in Op /\ Head(job.left).worker \in Worker
  BY HeadOfRun, RunIs DEF Request
<1>4. KeyOf(job) \in Key
  BY <1>1, <1>3 DEF Key
<1> QED
  BY <1>1, <1>2, <1>4, SentIs, HeadOfRun DEF OfKey

\* A minted id is kept under its key, and means nothing else.
LEMMA MintedIs ==
    ASSUME PaydayInv, job # None, job.intent.step # "undo"
    PROVE  /\ DOMAIN Minted(job) = DOMAIN ids \cup {KeyOf(job)}
           /\ Minted(job)[KeyOf(job)] = Mint(job)
           /\ \A k \in DOMAIN ids : Minted(job)[k] = ids[k]
           /\ DOMAIN Minted(job) \subseteq Key /\ Range(Minted(job)) \subseteq Id
           /\ Keys(Minted(job), books, limbo)
           /\ \A k \in DOMAIN Minted(job) : Minted(job)[k] = Mint(job) => k = KeyOf(job)
<1> DEFINE K == KeyOf(job)
           new == Minted(job)
<1>1. new = [k \in DOMAIN ids \cup {K} |-> IF k = K THEN Mint(job) ELSE ids[k]]
  BY HeadOfRun, Disjoint DEF Minted
<1>2. DOMAIN new = DOMAIN ids \cup {K} /\ new[K] = Mint(job)
      /\ \A k \in DOMAIN ids : k # K => new[k] = ids[k]
  BY <1>1
<1>3. \A k \in DOMAIN ids : new[k] = ids[k]
  BY <1>2, MintIs
<1> HIDE DEF new
<1>4. \A k \in DOMAIN ids : k \in Key /\ ids[k] \in Id
  BY DEF PaydayInv, TypeOK, Range
<1>5. DOMAIN new \subseteq Key /\ Range(new) \subseteq Id
  BY <1>2, <1>3, <1>4, MintIs, SentOfKey DEF Range
<1>6. OneSumEach(job.intent) /\ K[1] = job.intent /\ K[2] \in Writes
  BY SentOfKey DEF PaydayInv, RunInv, WriteRun
<1>7. Keys(ids, books, limbo)
  BY DEF PaydayInv
<1>8. K \notin DOMAIN ids => /\ books[Mint(job)] = None
                             /\ \A k \in DOMAIN ids : ids[k] # Mint(job)
                             /\ \A q \in limbo : q.id # Mint(job)
  BY MintIs, FreeIs
<1> HIDE DEF K
<1>9. \A k \in DOMAIN new : k[2] \in Writes /\ OneSumEach(k[1])
  BY <1>2, <1>6, <1>7 DEF Keys
<1>10. \A k, m \in DOMAIN new : new[k] = new[m] => k = m
  <2>1. CASE K \in DOMAIN ids
    BY <2>1, <1>2, <1>3, <1>7 DEF Keys
  <2>2. CASE K \notin DOMAIN ids
    BY <2>2, <1>2, <1>3, <1>7, <1>8 DEF Keys
  <2> QED
    BY <2>1, <2>2
<1>11. \A k \in DOMAIN new : books[new[k]] # None => OfKey(k, books[new[k]])
  <2>1. CASE K \in DOMAIN ids
    BY <2>1, <1>2, <1>3, <1>7 DEF Keys
  <2>2. CASE K \notin DOMAIN ids
    BY <2>2, <1>2, <1>3, <1>7, <1>8 DEF Keys
  <2> QED
    BY <2>1, <2>2
<1>12. \A k \in DOMAIN new : \A q \in limbo : q.op \in Writes /\ q.id = new[k] => OfKey(k, q)
  <2>1. CASE K \in DOMAIN ids
    BY <2>1, <1>2, <1>3, <1>7 DEF Keys
  <2>2. CASE K \notin DOMAIN ids
    BY <2>2, <1>2, <1>3, <1>7, <1>8 DEF Keys
  <2> QED
    BY <2>1, <2>2
<1>13. Keys(new, books, limbo)
  BY <1>9, <1>10, <1>11, <1>12 DEF Keys
<1> QED
  BY <1>2, <1>3, <1>5, <1>10, <1>13 DEF K, new

LEMMA RetiredIs ==
    ASSUME NEW kept, NEW it
    PROVE  /\ DOMAIN Retired(kept, it) \subseteq DOMAIN kept
           /\ \A k \in DOMAIN Retired(kept, it) : Retired(kept, it)[k] = kept[k]
  BY DEF Retired, Restrict

\* Fewer ids are kept: they mean what they meant.
LEMMA KeysFewer ==
    ASSUME NEW kept, NEW fewer, DOMAIN fewer \subseteq DOMAIN kept,
           \A k \in DOMAIN fewer : fewer[k] = kept[k], NEW bk, NEW lim, Keys(kept, bk, lim)
    PROVE  /\ Keys(fewer, bk, lim)
           /\ DOMAIN kept \subseteq Key => DOMAIN fewer \subseteq Key
           /\ Range(kept) \subseteq Id => Range(fewer) \subseteq Id
  BY DEF Keys, Range

-----------------------------------------------------------------------------
(* Reading, looking, and leaving. *)

LEMMA BalanceIsInt ==
    ASSUME PaydayInv, NEW w \in Worker
    PROVE  Balance(w) \in Int
<1>1. debt[w] \in Nat
  BY DEF PaydayInv, TypeOK
<1> QED
  BY <1>1, BooksTyped, BalanceNow, OwingIs

LEMMA RefreshKeeps ==
    ASSUME PaydayInv, NEW w \in Worker, Refresh(w)
    PROVE  PaydayInv'
<1> DEFINE f == [lines |-> Pending(w), price |-> price, balance |-> Balance(w)]
<1>1. f \in Figures
  <2>1. Pending(w) \in SUBSET Line /\ price \in Price /\ Balance(w) \in Int
    BY BalanceIsInt DEF Pending, PaydayInv, TypeOK
  <2> QED
    BY <2>1 DEF Figures
<1>2. seen' = [seen EXCEPT ![w] = f]
      /\ UNCHANGED <<work, price, debt, books, page, ids, job, report, excess, limbo, moved, events>>
  BY DEF Refresh, farm
<1> HIDE DEF f
<1>3. TypeOK'
  BY <1>1, <1>2 DEF PaydayInv, TypeOK
<1>4. Free' = Free /\ Told' = Told
  BY <1>2 DEF Free, Told
<1> QED
  BY <1>2, <1>3, <1>4 DEF PaydayInv

LEMMA OpenKeeps ==
    ASSUME PaydayInv, NEW p \in Page, Open(p)
    PROVE  PaydayInv'
<1>1. page' = p /\ seen' = NotRead /\ ids' = <<>> /\ job' = None /\ report' = {}
      /\ excess' = None /\ moved' = {} /\ UNCHANGED <<work, price, debt, books>>
      /\ events < EventCap /\ events' = events + 1
  BY DEF Open, farm
<1>2. limbo' = limbo \/ (job # None /\ limbo' = limbo \cup {Sent(job)})
  BY DEF Open, Writing
<1>3. limbo' \subseteq Request /\ Late(limbo', books)
  BY <1>2, SentIs, Disjoint DEF PaydayInv, TypeOK, Late
<1>4. events' \in 0..EventCap
  BY <1>1, EventsCount DEF PaydayInv, TypeOK
<1>5. DOMAIN ids' = {} /\ Range(ids') = {}
  BY <1>1 DEF Range
<1>6. NotRead \in [Worker -> Figures \cup {None}]
  BY DEF NotRead
<1>7. TypeOK'
  BY <1>1, <1>3, <1>4, <1>5, <1>6 DEF TypeOK, PaydayInv
<1>8. Keys(ids', books', limbo') /\ Told' = {} /\ IsFiniteSet({})
  BY <1>1, <1>5, FS_EmptySet DEF Keys, Told
<1>9. Reports(report', page') /\ Named(Told', books', page')
  BY <1>1, <1>8 DEF Reports, Named
<1> QED
  BY <1>1, <1>3, <1>7, <1>8, <1>9 DEF PaydayInv

-----------------------------------------------------------------------------
(* The check. *)

\* A run that is over leaves its reports.
LEMMA Ended ==
    ASSUME TypeOK', job' = None, OwnLines(books'), Keys(ids', books', limbo'),
           Late(limbo', books'), Reports(report', page'), Named(report', books', page')
    PROVE  PaydayInv'
<1>1. Told' = report'
  BY DEF Told
<1> QED
  BY <1>1 DEF PaydayInv

LookedAt(j, rest, bad) == [j EXCEPT !.unchecked = rest, !.blocked = bad]

LEMMA LookedJob ==
    ASSUME NEW j, j \in Run, NEW rest \in SUBSET Worker, NEW bad \in BOOLEAN,
           NEW r, r = LookedAt(j, rest, bad)
    PROVE  /\ r \in Run /\ r # None
           /\ r.intent = j.intent /\ r.left = j.left /\ r.done = j.done /\ r.failed = j.failed
           /\ r.unchecked = rest /\ r.blocked = bad
<1> DEFINE a == [j EXCEPT !.unchecked = rest]
<1>1. a \in Run /\ a.intent = j.intent /\ a.left = j.left /\ a.done = j.done
      /\ a.failed = j.failed /\ a.unchecked = rest
  BY DEF Run
<1>2. r = [a EXCEPT !.blocked = bad]
  BY DEF LookedAt
<1> HIDE DEF a
<1>3. r \in Run /\ r.intent = a.intent /\ r.left = a.left /\ r.done = a.done
      /\ r.failed = a.failed /\ r.unchecked = a.unchecked /\ r.blocked = bad
  BY <1>1, <1>2 DEF Run
<1> QED
  BY <1>1, <1>3, NoneAssumption

LEMMA LookedKeeps ==
    ASSUME PaydayInv, job # None, NEW rest \in SUBSET Worker, NEW bad \in BOOLEAN,
           Looked(rest, bad), moved' \in SUBSET Worker,
           job' # None => AgreedRun(job', moved', books, debt, work, price)
    PROVE  PaydayInv'
<1>1. UNCHANGED <<work, price, debt, books, page, seen, report, excess, limbo, events>>
  BY DEF Looked, farm
<1>2. Reports(report, page) /\ Late(limbo, books) /\ Keys(ids, books, limbo) /\ OwnLines(books)
      /\ Named(report, books, page) /\ job \in Run
  BY ToldIs DEF PaydayInv, Named, TypeOK
<1>3. CASE rest = {} /\ bad
  <2>1. job' = None /\ ids' = Retired(ids, job.intent)
    BY <1>3 DEF Looked
  <2>2. Keys(ids', books, limbo) /\ DOMAIN ids' \subseteq Key /\ Range(ids') \subseteq Id
    <3>1. DOMAIN ids \subseteq Key /\ Range(ids) \subseteq Id
      BY DEF PaydayInv, TypeOK
    <3>2. DOMAIN ids' \subseteq DOMAIN ids /\ \A k \in DOMAIN ids' : ids'[k] = ids[k]
      BY <2>1, RetiredIs
    <3> QED
      BY <3>1, <3>2, <1>2, KeysFewer
  <2>3. TypeOK'
    BY <1>1, <2>1, <2>2 DEF PaydayInv, TypeOK
  <2> QED
    BY <1>1, <1>2, <2>1, <2>2, <2>3, Ended
<1>4. CASE ~(rest = {} /\ bad)
  <2>1. job' = LookedAt(job, rest, bad) /\ ids' = ids
    BY <1>4 DEF Looked, LookedAt
  <2>2. /\ job' \in Run /\ job' # None
        /\ job'.intent = job.intent /\ job'.left = job.left /\ job'.done = job.done
        /\ job'.failed = job.failed /\ job'.unchecked = rest /\ job'.blocked = bad
    BY <1>2, <2>1, LookedJob
  <2>3. TypeOK'
    BY <1>1, <2>1, <2>2 DEF PaydayInv, TypeOK
  <2>4. Told' = Told /\ Free' = Free
    BY <1>1, <2>1, <2>2 DEF Told, Free
  <2>5. RunInv(job, page, books, report, Free)
    BY DEF PaydayInv
  <2>6. RunInv(job', page, books, report, Free)
    BY <1>4, <2>2, <2>5 DEF RunInv, CrewRun, SingleRun, UndoRun, WriteRun
  <2> QED
    BY <1>1, <2>1, <2>2, <2>3, <2>4, <2>6 DEF PaydayInv
<1> QED
  BY <1>3, <1>4

LEMMA RangeOf == ASSUME NEW f, NEW x, x \in Range(f) PROVE \E i \in DOMAIN f : f[i] = x
  BY DEF Range

LEMMA CheckWorkKeeps ==
    ASSUME PaydayInv, CheckWork
    PROVE  PaydayInv'
<1>1. job # None /\ job.intent.step = "settle" /\ job \in Run
  BY DEF CheckWork, PaydayInv, TypeOK
<1>2. PICK w \in job.unchecked, q \in Range(job.left), unreadable \in BOOLEAN :
          /\ q.worker = w
          /\ Looked(job.unchecked \ {w}, job.blocked \/ unreadable \/ Drifted(q))
          /\ moved' = IF job' = None THEN {} ELSE moved \ {w}
  BY DEF CheckWork
<1> DEFINE rest == job.unchecked \ {w}
           bad == job.blocked \/ unreadable \/ Drifted(q)
<1>3. rest \in SUBSET Worker /\ job.blocked \in BOOLEAN
  BY <1>1, RunIs
<1>4. bad \in BOOLEAN
  OBVIOUS
<1>5. moved' \in SUBSET Worker
  BY <1>2 DEF PaydayInv, TypeOK
<1>6. ASSUME job' # None
      PROVE  AgreedRun(job', moved', books, debt, work, price)
  <2>1. ~(rest = {} /\ bad)
    BY <1>2, <1>6 DEF Looked
  <2>2. job' = LookedAt(job, rest, bad)
    BY <1>2, <2>1 DEF Looked, LookedAt
  <2> HIDE DEF rest, bad
  <2>3. job'.intent = job.intent /\ job'.left = job.left /\ job'.blocked = bad
    BY <1>1, <1>3, <1>4, <2>2, LookedJob
  <2> SUFFICES ASSUME ~bad, NEW i \in DOMAIN job.left, job.left[i].worker \notin moved'
               PROVE  Agreed(job.left[i], "settle", books, debt, work, price)
    BY <1>1, <2>3 DEF AgreedRun
  <2>4. ~job.blocked /\ ~Drifted(q)
    BY DEF bad
  <2>5. CASE job.left[i].worker \notin moved
    BY <1>1, <2>4, <2>5 DEF PaydayInv, AgreedRun
  <2>6. CASE job.left[i].worker \in moved
    <3>1. job.left[i].worker = w
      BY <1>2, <1>6, <2>6
    <3>2. PICK m \in DOMAIN job.left : job.left[m] = q
      BY RangeOf
    <3>3. i = m
      BY <1>1, <1>2, <3>1, <3>2 DEF PaydayInv, RunInv, CrewRun
    <3>4. q.lines \cap Pending(q.worker) = q.lines /\ Worth(q.lines) = q.amount
      BY <2>4 DEF Drifted
    <3>5. Pending(q.worker) = PendingIn(books, work, q.worker)
      BY PendingIs
    <3>6. q.lines \subseteq PendingIn(books, work, q.worker)
          /\ price * Cardinality(q.lines) = q.amount
      BY <3>4, <3>5 DEF Worth
    <3> QED
      BY <3>2, <3>3, <3>6 DEF Agreed
  <2> QED
    BY <2>5, <2>6
<1>7. Looked(rest, bad)
  BY <1>2
<1> HIDE DEF rest, bad
<1> QED
  BY <1>1, <1>3, <1>4, <1>5, <1>6, <1>7, LookedKeeps

LEMMA CheckBalancesKeeps ==
    ASSUME PaydayInv, CheckBalances
    PROVE  PaydayInv'
<1>1. job # None /\ job.intent.step = "pay" /\ job \in Run /\ moved' = {}
  BY DEF CheckBalances, PaydayInv, TypeOK
<1>2. PICK unreadable \in BOOLEAN :
          Looked({}, unreadable \/ \E q \in Range(job.left) : PayDrifted(q))
  BY DEF CheckBalances
<1> DEFINE bad == unreadable \/ \E q \in Range(job.left) : PayDrifted(q)
<1>3. bad \in BOOLEAN
  OBVIOUS
<1>4. ASSUME job' # None
      PROVE  AgreedRun(job', moved', books, debt, work, price)
  <2>1. ~bad /\ job' = LookedAt(job, {}, bad)
    BY <1>2, <1>4 DEF Looked, LookedAt
  <2>2. \A i \in DOMAIN job.left : Balance(job.left[i].worker) = job.left[i].amount
    BY <2>1 DEF PayDrifted, Range
  <2> HIDE DEF bad
  <2>3. {} \in SUBSET Worker
    OBVIOUS
  <2>4. job'.intent = job.intent /\ job'.left = job.left
    BY <1>1, <1>3, <2>1, <2>3, LookedJob
  <2>5. \A i \in DOMAIN job.left :
           Owing(books, debt, job.left[i].worker) = job.left[i].amount
    BY <2>2, BooksTyped, BalanceNow
  <2> QED
    BY <1>1, <2>4, <2>5 DEF AgreedRun, Agreed
<1>5. Looked({}, bad)
  BY <1>2
<1> HIDE DEF bad
<1>6. {} \in SUBSET Worker
  OBVIOUS
<1> QED
  BY <1>1, <1>3, <1>4, <1>5, <1>6, LookedKeeps

-----------------------------------------------------------------------------
(* A run starts. *)

NewRun(it, un, left) ==
    [intent |-> it, unchecked |-> un, blocked |-> FALSE, left |-> left, done |-> {},
     failed |-> FALSE]

LEMMA NewRunIs ==
    ASSUME NEW it \in Intent, NEW un \in SUBSET Worker, NEW left \in Seq(Request)
    PROVE  /\ NewRun(it, un, left) \in Run /\ NewRun(it, un, left) # None
           /\ NewRun(it, un, left).intent = it /\ NewRun(it, un, left).unchecked = un
           /\ ~NewRun(it, un, left).blocked /\ NewRun(it, un, left).left = left
           /\ NewRun(it, un, left).done = {} /\ ~NewRun(it, un, left).failed
<1> DEFINE r == NewRun(it, un, left)
<1>1. {} \in SUBSET Request /\ FALSE \in BOOLEAN
  OBVIOUS
<1>2. r \in Run
  BY <1>1 DEF NewRun, Run
<1>3. r.intent = it /\ r.unchecked = un /\ ~r.blocked /\ r.left = left
      /\ r.done = {} /\ ~r.failed
  BY DEF NewRun
<1> HIDE DEF r
<1>4. r # None
  BY <1>2, NoneAssumption
<1> QED
  BY <1>2, <1>3, <1>4 DEF r

LEMMA StartsKeeps ==
    ASSUME PaydayInv, NEW it \in Intent, NEW un \in SUBSET Worker, NEW left \in Seq(Request),
           Starts(it, un, left), excess' \in Offer \cup {None},
           RunInv(NewRun(it, un, left), page, books, report, Free)
    PROVE  PaydayInv'
<1> DEFINE r == NewRun(it, un, left)
<1>1. job' = r /\ job = None /\ moved' = Worker
      /\ UNCHANGED <<work, price, debt, books, page, seen, ids, report, limbo, events>>
  BY DEF Starts, NewRun, farm
<1>2. r \in Run /\ r # None /\ r.left = left /\ r.done = {}
  BY NewRunIs
<1>3. RunInv(r, page, books, report, Free)
  OBVIOUS
<1> HIDE DEF r
<1>4. TypeOK'
  BY <1>1, <1>2 DEF PaydayInv, TypeOK
<1>5. Free' = Free /\ Told' = Told
  BY <1>1, <1>2 DEF Free, Told
<1>6. \A i \in DOMAIN r.left : r.left[i].worker \in Worker
  BY <1>2, RunIs
<1>7. AgreedRun(job', moved', books', debt', work', price')
  BY <1>1, <1>6 DEF AgreedRun
<1> QED
  BY <1>1, <1>2, <1>3, <1>4, <1>5, <1>7 DEF PaydayInv

\* As many ids are free as requests will need.
LEMMA IdsEnough ==
    ASSUME NEW it, NEW un, NEW left \in Seq(Request), Starts(it, un, left),
           \A i \in DOMAIN left : left[i].id = 0
    PROVE  Cardinality(Free) >= Len(left)
<1>1. DOMAIN left = 1..Len(left) /\ Len(left) \in Nat
  OBVIOUS
<1>2. {i \in DOMAIN left : left[i].id = 0} = 1..Len(left)
  BY <1>1
<1>3. Cardinality(1..Len(left)) = Len(left)
  <2> DEFINE n == Len(left)
  <2>1. n \in Int /\ 1 \in Int /\ n \in Nat
    BY <1>1
  <2> HIDE DEF n
  <2>2. Cardinality(1..n) = IF 1 > n THEN 0 ELSE n - 1 + 1
    BY <2>1, FS_Interval
  <2> QED
    BY <2>1, <2>2 DEF n
<1> QED
  BY <1>2, <1>3 DEF Starts

LEMMA FiniteImage ==
    ASSUME NEW S, IsFiniteSet(S), NEW f, NEW T, f \in [S -> T],
           \A t \in T : \E x \in S : f[x] = t
    PROVE  IsFiniteSet(T)
<1>1. f \in Surjection(S, T)
  BY DEF Surjection
<1> QED
  BY <1>1, FS_Surjection

CrewIntent(step, A) ==
    [step |-> step, sums |-> {<<q.worker, q.amount>> : q \in A}, lines |-> {}, extra |-> 0]

LEMMA CrewIntentIs ==
    ASSUME NEW A \in SUBSET Request, NEW step \in {"settle", "pay"},
           \A p, q \in A : p.worker = q.worker => p = q
    PROVE  /\ CrewIntent(step, A) \in Intent /\ CrewIntent(step, A).step = step
           /\ \A q \in A : q.op = step => Meant(CrewIntent(step, A), q)
           /\ OneSumEach(CrewIntent(step, A))
<1>1. {<<q.worker, q.amount>> : q \in A} \in SUBSET (Worker \X Int)
  BY RequestIs
<1> DEFINE it == CrewIntent(step, A)
<1>2. it \in Intent
  BY <1>1 DEF CrewIntent, Intent, Step
<1>3. it.step = step /\ it.sums = {<<q.worker, q.amount>> : q \in A}
  BY DEF CrewIntent
<1> HIDE DEF it
<1>4. \A q \in A : <<q.worker, q.amount>> \in it.sums
  BY <1>3
<1>5. ASSUME NEW s \in it.sums, NEW t \in it.sums, s[1] = t[1]
      PROVE  s = t
  <2>1. PICK p \in A : s = <<p.worker, p.amount>>
    BY <1>3
  <2>2. PICK q \in A : t = <<q.worker, q.amount>>
    BY <1>3
  <2> QED
    BY <1>5, <2>1, <2>2
<1> QED
  BY <1>2, <1>3, <1>4, <1>5 DEF it, Meant, OneSumEach

LEMMA CrewStarts ==
    ASSUME PaydayInv, page = None, NEW step \in {"settle", "pay"},
           NEW A \in SUBSET Request, IsFiniteSet(A), A # {},
           \A q \in A : q.op = step /\ q.id = 0,
           \A p, q \in A : p.worker = q.worker => p = q,
           NEW left \in SetToSeqs(A), NEW un \in SUBSET Worker, un # {},
           Starts(CrewIntent(step, A), un, left), UNCHANGED excess
    PROVE  PaydayInv'
<1> DEFINE it == CrewIntent(step, A)
           r == NewRun(it, un, left)
<1>1. /\ it \in Intent /\ it.step = step
      /\ \A q \in A : Meant(it, q)
      /\ OneSumEach(it)
  BY CrewIntentIs
<1>2. /\ left \in Seq(A) /\ Len(left) = Cardinality(A) /\ DOMAIN left = 1..Len(left)
      /\ \A i \in DOMAIN left : left[i] \in A
      /\ \A x \in A : \E i \in DOMAIN left : left[i] = x
      /\ \A i, m \in DOMAIN left : i # m => left[i] # left[m]
  BY Listed
<1>3. left \in Seq(Request)
  BY <1>2
<1>4. left # <<>>
  <2> SUFFICES ASSUME left = <<>>
               PROVE  FALSE
    OBVIOUS
  <2>1. DOMAIN left = {}
    OBVIOUS
  <2> QED
    BY <1>2, <2>1
<1>5. /\ \A i \in DOMAIN left : left[i].op = step /\ left[i].id = 0 /\ Meant(it, left[i])
      /\ \A i, m \in DOMAIN left : i # m => left[i].worker # left[m].worker
  BY <1>1, <1>2
<1>6. Cardinality(Free) >= Len(left)
  BY <1>3, <1>5, IdsEnough
<1> HIDE DEF it
<1>7. /\ r.intent = it /\ r.unchecked = un /\ r.left = left /\ r.done = {}
  BY <1>1, <1>3, NewRunIs
<1> HIDE DEF r
<1>8. RunInv(r, page, books, report, Free)
  <2>1. IsFiniteSet({})
    BY FS_EmptySet
  <2>2. CrewRun(r, page, step) /\ WriteRun(r, Free)
    BY <1>1, <1>5, <1>6, <1>7 DEF CrewRun, WriteRun
  <2> QED
    BY <1>1, <1>4, <1>7, <2>1, <2>2 DEF RunInv
<1>9. excess' \in Offer \cup {None}
  BY DEF PaydayInv, TypeOK
<1> QED
  BY <1>1, <1>3, <1>8, <1>9, StartsKeeps DEF it, r

LEMMA TimesIs == \A p, n \in Nat : p * n \in Nat
  OBVIOUS

LEMMA SettleApprovalIs ==
    ASSUME PaydayInv, NEW w \in Worker, seen[w] # None
    PROVE  /\ SettleApproval(w) \in Request /\ PayApproval(w) \in Request
           /\ SettleApproval(w).worker = w /\ PayApproval(w).worker = w
           /\ SettleApproval(w).op = "settle" /\ PayApproval(w).op = "pay"
           /\ SettleApproval(w).id = 0 /\ PayApproval(w).id = 0
<1>1. seen[w] \in Figures
  BY DEF PaydayInv, TypeOK
<1>2. seen[w].lines \in SUBSET Line /\ seen[w].price \in Price /\ seen[w].balance \in Int
  BY <1>1 DEF Figures
<1>3. Cardinality(seen[w].lines) \in Nat
  BY <1>2, LineAssumption, FS_Subset, FS_CardinalityType
<1>4. seen[w].price * Cardinality(seen[w].lines) \in Int
  <2>1. seen[w].price \in Nat
    BY <1>2, PriceAssumption
  <2> QED
    BY <1>3, <2>1, TimesIs
<1>5. SettleApproval(w) \in Request
  BY <1>2, <1>4 DEF SettleApproval, Request, Op
<1>6. PayApproval(w) \in Request
  BY <1>2 DEF PayApproval, Request, Op
<1> QED
  BY <1>5, <1>6 DEF SettleApproval, PayApproval

LEMMA SettleCrewKeeps ==
    ASSUME PaydayInv, SettleCrew
    PROVE  PaydayInv'
<1>1. PICK picked \in (SUBSET {w \in Worker : seen[w] # None /\ seen[w].lines # {}}) \ {{}} :
          \E left \in ByName({SettleApproval(w) : w \in picked}) :
             Starts(SettleIntent({SettleApproval(w) : w \in picked}), picked, left)
  BY DEF SettleCrew
<1> DEFINE f == [w \in picked |-> SettleApproval(w)]
           A == {SettleApproval(w) : w \in picked}
<1>2. PICK left \in ByName(A) : Starts(SettleIntent(A), picked, left)
  BY <1>1
<1>3. picked \in SUBSET Worker /\ picked # {} /\ \A w \in picked : seen[w] # None
  OBVIOUS
<1>4. IsFiniteSet(A)
  <2>1. IsFiniteSet(picked)
    BY <1>3, WorkerAssumption, FS_Subset
  <2>2. f \in [picked -> A] /\ \A q \in A : \E w \in picked : f[w] = q
    OBVIOUS
  <2> HIDE DEF f, A
  <2> QED
    BY <2>1, <2>2, FiniteImage
<1>5. A \in SUBSET Request /\ A # {} /\ \A q \in A : q.op = "settle" /\ q.id = 0
  BY <1>3, SettleApprovalIs
<1>6. \A p, q \in A : p.worker = q.worker => p = q
  BY <1>3, SettleApprovalIs
<1>7. left \in SetToSeqs(A)
  BY <1>2 DEF ByName
<1>8. SettleIntent(A) = CrewIntent("settle", A)
  BY DEF SettleIntent, CrewIntent
<1>9. page = None /\ UNCHANGED excess
  BY DEF SettleCrew
<1> HIDE DEF A
<1> QED
  BY <1>2, <1>3, <1>4, <1>5, <1>6, <1>7, <1>8, <1>9, CrewStarts

LEMMA PayCrewKeeps ==
    ASSUME PaydayInv, PayCrew
    PROVE  PaydayInv'
<1>1. PICK picked \in (SUBSET {w \in Worker : seen[w] # None /\ seen[w].balance > 0}) \ {{}} :
          \E left \in ByName({PayApproval(w) : w \in picked}) :
             Starts(PayIntent({PayApproval(w) : w \in picked}), picked, left)
  BY DEF PayCrew
<1> DEFINE f == [w \in picked |-> PayApproval(w)]
           A == {PayApproval(w) : w \in picked}
<1>2. PICK left \in ByName(A) : Starts(PayIntent(A), picked, left)
  BY <1>1
<1>3. picked \in SUBSET Worker /\ picked # {} /\ \A w \in picked : seen[w] # None
  OBVIOUS
<1>4. IsFiniteSet(A)
  <2>1. IsFiniteSet(picked)
    BY <1>3, WorkerAssumption, FS_Subset
  <2>2. f \in [picked -> A] /\ \A q \in A : \E w \in picked : f[w] = q
    OBVIOUS
  <2> HIDE DEF f, A
  <2> QED
    BY <2>1, <2>2, FiniteImage
<1>5. A \in SUBSET Request /\ A # {} /\ \A q \in A : q.op = "pay" /\ q.id = 0
  BY <1>3, SettleApprovalIs
<1>6. \A p, q \in A : p.worker = q.worker => p = q
  BY <1>3, SettleApprovalIs
<1>7. left \in SetToSeqs(A)
  BY <1>2 DEF ByName
<1>8. PayIntent(A) = CrewIntent("pay", A)
  BY DEF PayIntent, CrewIntent
<1>9. page = None /\ UNCHANGED excess
  BY DEF PayCrew
<1> HIDE DEF A
<1> QED
  BY <1>2, <1>3, <1>4, <1>5, <1>6, <1>7, <1>8, <1>9, CrewStarts

-----------------------------------------------------------------------------
(* The payment of one person, and the undo. *)

\* t is the list p with the list s behind it.
InOneList(t, p, s) ==
    /\ Len(p) \in Nat /\ DOMAIN t = 1..(Len(p) + Len(s))
    /\ \A i \in DOMAIN t :
          \/ i \in DOMAIN p /\ i <= Len(p) /\ t[i] = p[i]
          \/ i > Len(p) /\ i - Len(p) \in DOMAIN s /\ t[i] = s[i - Len(p)]
    /\ \A i \in DOMAIN p : i \in DOMAIN t /\ t[i] = p[i]
    /\ \A i \in DOMAIN s : i + Len(p) \in DOMAIN t /\ t[i + Len(p)] = s[i]

LEMMA Joined ==
    ASSUME NEW S, NEW p \in Seq(S), NEW s \in Seq(S)
    PROVE  p \o s \in Seq(S) /\ InOneList(p \o s, p, s)
<1> DEFINE m == Len(p)
           n == Len(s)
           t == p \o s
<1>1. m \in Nat /\ n \in Nat /\ DOMAIN p = 1..m /\ DOMAIN s = 1..n
  OBVIOUS
<1>2. t \in Seq(S) /\ Len(t) = m + n
  OBVIOUS
<1>3. \A i \in 1..(m + n) : t[i] = IF i <= m THEN p[i] ELSE s[i - m]
  OBVIOUS
<1>4. DOMAIN t = 1..(m + n)
  BY <1>1, <1>2
<1> HIDE DEF t, m, n
<1>5. \A i \in 1..(m + n) : i <= m \/ (i > m /\ i - m \in 1..n)
  BY <1>1
<1>6. \A i \in 1..m : i \in 1..(m + n) /\ i <= m
  BY <1>1
<1>7. \A i \in 1..n : i + m \in 1..(m + n) /\ ~(i + m <= m) /\ (i + m) - m = i
  BY <1>1
<1>8. \A i \in 1..(m + n) : i <= m => i \in 1..m
  BY <1>1
<1>9. \A i \in 1..(m + n) : i > m => ~(i <= m)
  BY <1>1
<1> QED
  BY <1>1, <1>2, <1>3, <1>4, <1>5, <1>6, <1>7, <1>8, <1>9 DEF t, m, n, InOneList

Single(w, op, set, amount) ==
    [op |-> op, id |-> 0, worker |-> w, lines |-> set, amount |-> amount]

LEMMA SingleIs ==
    ASSUME NEW w \in Worker, NEW op \in Writes, NEW set \in SUBSET Line, NEW amount \in Int
    PROVE  /\ Single(w, op, set, amount) \in Request /\ Single(w, op, set, amount).op = op
           /\ Single(w, op, set, amount).id = 0 /\ Single(w, op, set, amount).worker = w
           /\ Single(w, op, set, amount).amount = amount
           /\ Single(w, op, set, amount).lines = set
  BY DEF Single, Request, Op, Writes

Askable(it) ==
    {q \in Request : /\ q.op \in Writes /\ q.id = 0 /\ Meant(it, q)
                     /\ q.op = "settle" => q.lines = it.lines}

LEMMA SingleStarts ==
    ASSUME PaydayInv, page # None, NEW it \in Intent, it.step = "one", OneSumEach(it),
           NEW left \in Seq(Askable(it)), left # <<>>, Starts(it, {}, left), excess' = None
    PROVE  PaydayInv'
<1> DEFINE r == NewRun(it, {}, left)
<1>0. \A i \in DOMAIN left : left[i].op = "settle" => left[i].lines = it.lines
  <2>1. \A i \in DOMAIN left : left[i] \in Askable(it)
    OBVIOUS
  <2> QED
    BY <2>1 DEF Askable
<1>1. /\ left \in Seq(Request) /\ {} \in SUBSET Worker
      /\ \A i \in DOMAIN left : left[i].op \in Writes /\ left[i].id = 0 /\ Meant(it, left[i])
  <2>1. \A i \in DOMAIN left : left[i] \in Askable(it)
    OBVIOUS
  <2>2. Askable(it) \subseteq Request
    BY DEF Askable
  <2> QED
    BY <2>1, <2>2 DEF Askable
<1>2. Cardinality(Free) >= Len(left)
  BY <1>1, IdsEnough
<1>3. /\ r.intent = it /\ r.unchecked = {} /\ r.left = left /\ r.done = {} /\ ~r.blocked
  BY <1>1, NewRunIs
<1> HIDE DEF r
<1>4. RunInv(r, page, books, report, Free)
  <2>1. IsFiniteSet({})
    BY FS_EmptySet
  <2>2. SingleRun(r, page) /\ WriteRun(r, Free)
    BY <1>0, <1>1, <1>2, <1>3 DEF SingleRun, WriteRun
  <2> QED
    BY <1>3, <2>1, <2>2 DEF RunInv
<1> QED
  BY <1>1, <1>4, StartsKeeps DEF r

LEMMA PlusIs == \A a, b \in Int : a + b \in Int
  OBVIOUS

LEMMA PayOneKeeps ==
    ASSUME PaydayInv, PayOne
    PROVE  PaydayInv'
<1>1. page \in Worker /\ seen[page] \in Figures /\ page # None
  BY PageAssumption DEF PayOne, PaydayInv, TypeOK
<1> DEFINE gross(set) == seen[page].price * Cardinality(set)
           offers(set) == {[amount |-> a, extra |-> 0] :
                              a \in Partial \cup {seen[page].balance + gross(set)}}
<1>2. PICK lines \in SUBSET seen[page].lines :
         \E offer \in {o \in offers(lines) : o.amount > 0} \cup ({excess} \ {None}) :
            Starts(SingleIntent(page, offer.amount, offer.extra, lines), {},
                (IF lines = {} THEN <<>> ELSE <<Single(page, "settle", lines, gross(lines))>>)
                \o <<Single(page, "pay", {}, offer.amount)>>
                \o (IF offer.extra > 0 THEN <<Single(page, "advance", {}, offer.extra)>>
                    ELSE <<>>))
  BY DEF PayOne, Single
<1>3. PICK offer \in {o \in offers(lines) : o.amount > 0} \cup ({excess} \ {None}) :
            Starts(SingleIntent(page, offer.amount, offer.extra, lines), {},
                (IF lines = {} THEN <<>> ELSE <<Single(page, "settle", lines, gross(lines))>>)
                \o <<Single(page, "pay", {}, offer.amount)>>
                \o (IF offer.extra > 0 THEN <<Single(page, "advance", {}, offer.extra)>>
                    ELSE <<>>))
  BY <1>2
<1>4. lines \in SUBSET Line /\ seen[page].price \in Price /\ seen[page].balance \in Int
  BY <1>1 DEF Figures
<1>5. gross(lines) \in Nat
  <2>1. Cardinality(lines) \in Nat
    BY <1>4, LineAssumption, FS_Subset, FS_CardinalityType
  <2>2. seen[page].price \in Nat
    BY <1>4, PriceAssumption
  <2> QED
    BY <2>1, <2>2, TimesIs
<1>6. offer.amount \in Int /\ offer.extra \in Nat
  <2>1. CASE offer \in {excess} \ {None}
    BY <2>1 DEF PaydayInv, TypeOK, Offer
  <2>2. CASE offer \in offers(lines)
    <3>1. PICK a \in Partial \cup {seen[page].balance + gross(lines)} :
             offer = [amount |-> a, extra |-> 0]
      BY <2>2
    <3> HIDE DEF gross
    <3>2. gross(lines) \in Int
      BY <1>5
    <3>3. seen[page].balance + gross(lines) \in Int
      BY <1>4, <3>2, PlusIs
    <3>4. a \in Int
      BY <3>3, PartialAssumption
    <3> QED
      BY <3>1, <3>4
  <2> QED
    BY <2>1, <2>2
<1> DEFINE it == SingleIntent(page, offer.amount, offer.extra, lines)
           g == gross(lines)
           s1 == IF lines = {} THEN <<>> ELSE <<Single(page, "settle", lines, g)>>
           s2 == <<Single(page, "pay", {}, offer.amount)>>
           s3 == IF offer.extra > 0 THEN <<Single(page, "advance", {}, offer.extra)>> ELSE <<>>
<1>7. Starts(it, {}, s1 \o s2 \o s3) /\ excess' = None
  BY <1>3 DEF PayOne
<1>8. g \in Int /\ offer.extra \in Int
  BY <1>5, <1>6
<1> HIDE DEF gross, offers, g
<1>9. /\ it \in Intent /\ it.step = "one" /\ it.sums = {<<page, offer.amount>>}
      /\ it.extra = offer.extra /\ it.lines = lines
  BY <1>1, <1>4, <1>6, <1>8 DEF SingleIntent, Intent, Step
<1> HIDE DEF it
<1>10. OneSumEach(it)
  BY <1>9 DEF OneSumEach
<1>11. {"settle", "pay", "advance"} \subseteq Writes /\ {} \in SUBSET Line
  BY DEF Writes
<1>12. Single(page, "settle", lines, g) \in Askable(it)
  BY <1>1, <1>4, <1>8, <1>9, <1>11, SingleIs DEF Askable, Meant
<1>13. Single(page, "pay", {}, offer.amount) \in Askable(it)
  BY <1>1, <1>6, <1>9, <1>11, SingleIs DEF Askable, Meant
<1>14. Single(page, "advance", {}, offer.extra) \in Askable(it)
  BY <1>1, <1>8, <1>9, <1>11, SingleIs DEF Askable, Meant
<1>15. s1 \in Seq(Askable(it)) /\ s2 \in Seq(Askable(it)) /\ s3 \in Seq(Askable(it))
       /\ s2 # <<>>
  BY <1>12, <1>13, <1>14
<1> HIDE DEF s1, s2, s3
<1>16. s1 \o s2 \o s3 \in Seq(Askable(it)) /\ s1 \o s2 \o s3 # <<>>
  BY <1>15
<1> DEFINE left == s1 \o s2 \o s3
<1>17. left \in Seq(Askable(it)) /\ left # <<>> /\ Starts(it, {}, left)
  BY <1>7, <1>16
<1> HIDE DEF left
<1> QED
  BY <1>1, <1>7, <1>9, <1>10, <1>17, SingleStarts

TakenFrom(op, told) == {TakesBack(op, q) : q \in Reported(told)}

LEMMA TakenFromIs ==
    ASSUME PaydayInv, NEW op \in Backs, NEW told
    PROVE  /\ IsFiniteSet(TakenFrom(op, told)) /\ TakenFrom(op, told) \in SUBSET Request
           /\ \A q \in TakenFrom(op, told) : q.op = op /\ q.id \in Id /\ Booked(q, books)
           /\ \A p \in report : p.op = told =>
                 \E q \in TakenFrom(op, told) : q.id = p.id /\ q.op = op
<1> DEFINE R == Reported(told)
           f == [q \in R |-> TakesBack(op, q)]
           T == TakenFrom(op, told)
<1>1. R \subseteq report /\ IsFiniteSet(R)
  BY FS_Subset DEF Reported, PaydayInv, Reports
<1>2. IsFiniteSet(T)
  <2>1. f \in [R -> T] /\ \A t \in T : \E q \in R : f[q] = t
    BY DEF TakenFrom
  <2> HIDE DEF f, R, T
  <2> QED
    BY <1>1, <2>1, FiniteImage
<1>3. ASSUME NEW q \in R
      PROVE  /\ TakesBack(op, q) \in Request /\ TakesBack(op, q).op = op
             /\ TakesBack(op, q).id = q.id /\ q.id \in Id /\ Booked(TakesBack(op, q), books)
  <2>1. q \in Request /\ q.id \in Id /\ books[q.id] # None /\ books[q.id].worker = q.worker
    BY <1>1, ToldIs DEF PaydayInv, TypeOK
  <2>2. q.worker \in Worker
    BY <2>1, RequestIs
  <2> QED
    BY <2>1, <2>2 DEF TakesBack, Request, Op, Backs, Booked
<1>4. \A t \in T : \E q \in R : t = TakesBack(op, q)
  BY DEF TakenFrom
<1>5. \A q \in R : TakesBack(op, q) \in T
  BY DEF TakenFrom
<1>6. \A p \in report : p.op = told => p \in R
  BY DEF Reported
<1> HIDE DEF R, T
<1> QED
  BY <1>2, <1>3, <1>4, <1>5, <1>6 DEF T

LEMMA UndoCrewKeeps ==
    ASSUME PaydayInv, UndoCrew
    PROVE  PaydayInv'
<1>1. page = None /\ report # {} /\ UNCHANGED excess
  BY DEF UndoCrew
<1>2. PICK left \in Undoing : Starts(UndoIntent, {}, left)
  BY DEF UndoCrew
<1> DEFINE P == TakenFrom("reverse", "pay")
           V == TakenFrom("void", "settle")
<1>3. PICK p \in SetToSeqs(P), s \in SetToSeqs(V) : left = p \o s
  <2>1. InTurn("reverse", "pay") = SetToSeqs(P) /\ InTurn("void", "settle") = SetToSeqs(V)
    BY DEF InTurn, TakenFrom
  <2> HIDE DEF P, V
  <2>2. \E p \in InTurn("reverse", "pay"), s \in InTurn("void", "settle") : left = p \o s
    BY DEF Undoing
  <2> QED
    BY <2>1, <2>2
<1>4. {"reverse", "void"} = Backs
  BY DEF Backs
<1>5. /\ IsFiniteSet(P) /\ P \in SUBSET Request
      /\ \A q \in P : q.op = "reverse" /\ q.id \in Id /\ Booked(q, books)
      /\ \A q \in report : q.op = "pay" => \E x \in P : x.id = q.id /\ x.op = "reverse"
  BY <1>4, TakenFromIs
<1>6. /\ IsFiniteSet(V) /\ V \in SUBSET Request
      /\ \A q \in V : q.op = "void" /\ q.id \in Id /\ Booked(q, books)
      /\ \A q \in report : q.op = "settle" => \E x \in V : x.id = q.id /\ x.op = "void"
  BY <1>4, TakenFromIs
<1> HIDE DEF P, V
<1>7. /\ p \in Seq(P) /\ \A i \in DOMAIN p : p[i] \in P
      /\ \A x \in P : \E i \in DOMAIN p : p[i] = x
  BY <1>5, Listed
<1>8. /\ s \in Seq(V) /\ \A i \in DOMAIN s : s[i] \in V
      /\ \A x \in V : \E i \in DOMAIN s : s[i] = x
  BY <1>6, Listed
<1>9. p \in Seq(Request) /\ s \in Seq(Request)
  BY <1>5, <1>6, <1>7, <1>8
<1> DEFINE n == Len(p)
<1>10. /\ left \in Seq(Request) /\ n \in Nat /\ DOMAIN left = 1..(n + Len(s))
       /\ \A i \in DOMAIN left :
             \/ i \in DOMAIN p /\ i <= n /\ left[i] = p[i]
             \/ i > n /\ i - n \in DOMAIN s /\ left[i] = s[i - n]
       /\ \A i \in DOMAIN p : i \in DOMAIN left /\ left[i] = p[i]
       /\ \A i \in DOMAIN s : i + n \in DOMAIN left /\ left[i + n] = s[i]
  <2>1. left \in Seq(Request) /\ InOneList(left, p, s)
    BY <1>3, <1>9, Joined
  <2>2. /\ n \in Nat /\ DOMAIN left = 1..(n + Len(s))
        /\ \A i \in DOMAIN p : i \in DOMAIN left /\ left[i] = p[i]
    BY <2>1 DEF InOneList
  <2>3. \A i \in DOMAIN s : i + n \in DOMAIN left /\ left[i + n] = s[i]
    BY <2>1 DEF InOneList
  <2>4. \A i \in DOMAIN left :
           \/ i \in DOMAIN p /\ i <= n /\ left[i] = p[i]
           \/ i > n /\ i - n \in DOMAIN s /\ left[i] = s[i - n]
    BY <2>1 DEF InOneList
  <2> QED
    BY <2>1, <2>2, <2>3, <2>4
<1> HIDE DEF n
<1>11. \A i \in DOMAIN left : left[i].op \in Backs /\ left[i].id \in Id /\ Booked(left[i], books)
  <2>1. ASSUME NEW i \in DOMAIN left PROVE left[i] \in P \/ left[i] \in V
    BY <1>7, <1>8, <1>10
  <2>2. \A q \in P \cup V : q.op \in Backs /\ q.id \in Id /\ Booked(q, books)
    BY <1>4, <1>5, <1>6
  <2> QED
    BY <2>1, <2>2
<1>12. \A i, m \in DOMAIN left : i < m /\ left[i].op = "void" => left[m].op = "void"
  <2> SUFFICES ASSUME NEW i \in DOMAIN left, NEW m \in DOMAIN left, i < m, left[i].op = "void"
               PROVE  left[m].op = "void"
    OBVIOUS
  <2>1. ~(i \in DOMAIN p /\ left[i] = p[i])
    BY <1>5, <1>7
  <2>2. i > n /\ i \in Int /\ m \in Int /\ n \in Int
    BY <2>1, <1>10
  <2>3. m > n /\ ~(m <= n)
    BY <2>2
  <2> QED
    BY <2>3, <1>6, <1>8, <1>10
<1>13. \A q \in report : \E i \in DOMAIN left : left[i].id = q.id /\ left[i].op = TakenBackBy(q)
  <2> SUFFICES ASSUME NEW q \in report
               PROVE  \E i \in DOMAIN left : left[i].id = q.id /\ left[i].op = TakenBackBy(q)
    OBVIOUS
  <2>1. q.op \in {"settle", "pay"}
    BY DEF PaydayInv, Reports
  <2>2. CASE q.op = "pay"
    <3>1. PICK x \in P : x.id = q.id /\ x.op = "reverse"
      BY <1>5, <2>2
    <3>2. PICK i \in DOMAIN p : p[i] = x
      BY <1>7
    <3> QED
      BY <1>10, <2>2, <3>1, <3>2 DEF TakenBackBy
  <2>3. CASE q.op = "settle"
    <3>1. PICK x \in V : x.id = q.id /\ x.op = "void"
      BY <1>6, <2>3
    <3>2. PICK i \in DOMAIN s : s[i] = x
      BY <1>8
    <3> QED
      BY <1>10, <2>3, <3>1, <3>2 DEF TakenBackBy
  <2> QED
    BY <2>1, <2>2, <2>3
<1>14. left # <<>>
  <2>1. PICK i \in DOMAIN left : TRUE
    BY <1>1, <1>13
  <2>2. DOMAIN <<>> = {}
    OBVIOUS
  <2> QED
    BY <2>1, <2>2
<1> DEFINE r == NewRun(UndoIntent, {}, left)
<1>15. UndoIntent \in Intent /\ UndoIntent.step = "undo" /\ {} \in SUBSET Worker
  BY DEF UndoIntent, Intent, Step
<1>16. /\ r.intent = UndoIntent /\ r.left = left /\ r.done = {} /\ ~r.blocked
  BY DEF NewRun
<1> HIDE DEF r
<1>17. RunInv(r, page, books, report, Free)
  <2>1. IsFiniteSet({})
    BY FS_EmptySet
  <2>2. UndoRun(r, page, books, report)
    BY <1>1, <1>11, <1>12, <1>13, <1>16 DEF UndoRun
  <2> QED
    BY <1>14, <1>15, <1>16, <2>1, <2>2 DEF RunInv
<1>18. excess' \in Offer \cup {None}
  BY <1>1 DEF PaydayInv, TypeOK
<1> QED
  BY <1>2, <1>10, <1>15, <1>17, <1>18, StartsKeeps DEF r

-----------------------------------------------------------------------------
(* A run goes on, or stops. *)

Onward(j, done, failed) ==
    [j EXCEPT !.left = Tail(j.left), !.done = done, !.failed = failed]

LEMMA OnwardIs ==
    ASSUME NEW j, j \in Run, Len(j.left) > 1, NEW done \in SUBSET Request, NEW failed \in BOOLEAN,
           NEW r, r = Onward(j, done, failed)
    PROVE  /\ r \in Run /\ r # None
           /\ r.intent = j.intent /\ r.left = Tail(j.left) /\ r.done = done
           /\ r.failed = failed /\ r.unchecked = j.unchecked /\ r.blocked = j.blocked
<1>1. j.left \in Seq(Request) /\ Tail(j.left) \in Seq(Request)
  BY RunIs, TailIs
<1> DEFINE a == [j EXCEPT !.left = Tail(j.left)]
           b == [a EXCEPT !.done = done]
<1>2. a \in Run /\ a.intent = j.intent /\ a.left = Tail(j.left)
      /\ a.failed = j.failed /\ a.unchecked = j.unchecked /\ a.blocked = j.blocked
  BY <1>1 DEF Run
<1>3. r = [b EXCEPT !.failed = failed]
  BY DEF Onward
<1> HIDE DEF a
<1>4. b \in Run /\ b.intent = a.intent /\ b.left = a.left /\ b.done = done
      /\ b.unchecked = a.unchecked /\ b.blocked = a.blocked
  BY <1>2 DEF Run
<1> HIDE DEF b
<1>5. r \in Run /\ r.intent = b.intent /\ r.left = b.left /\ r.done = b.done
      /\ r.failed = failed /\ r.unchecked = b.unchecked /\ r.blocked = b.blocked
  BY <1>3, <1>4 DEF Run
<1> QED
  BY <1>2, <1>4, <1>5, NoneAssumption

\* The reports of a step that may be taken back by an undo.
Ops(j, done) ==
    /\ j.intent.step \in {"settle", "pay"} => \A q \in done : q.op = j.intent.step
    /\ j.intent.step = "one" => \A q \in done : q.op \in Writes
    /\ j.intent.step = "undo" => \A q \in done : q.op \in Backs

LEMMA RunSteps ==
    ASSUME PaydayInv, job # None
    PROVE  /\ job \in Run /\ job.intent.step \in {"settle", "pay", "one", "undo"}
           /\ Ops(job, job.done) /\ IsFiniteSet(job.done)
           /\ job.done \in SUBSET Request /\ \A q \in job.done : q.id \in Id
           /\ Named(job.done, books, page)
           /\ job.intent.step # "one" => page = None
           /\ job.intent.step = "one" => page # None
<1>1. job \in Run /\ RunInv(job, page, books, report, Free)
  BY DEF PaydayInv, TypeOK
<1>2. job.intent.step \in {"settle", "pay", "one", "undo"} /\ job.done \in SUBSET Request
  BY <1>1, RunIs
<1>3. Ops(job, job.done)
  BY <1>1 DEF RunInv, CrewRun, SingleRun, UndoRun, Ops
<1>4. Named(job.done, books, page)
  BY ToldIs DEF PaydayInv, Named
<1>5. (job.intent.step # "one" => page = None) /\ (job.intent.step = "one" => page # None)
  BY <1>1, <1>2 DEF RunInv, CrewRun, SingleRun, UndoRun
<1>6. IsFiniteSet(job.done) /\ \A q \in job.done : q.id \in Id
  BY <1>1 DEF RunInv
<1> QED
  BY <1>1, <1>2, <1>3, <1>4, <1>5, <1>6

\* What a report becomes at the end of a run.
LEMMA ReportsAtEnd ==
    ASSUME PaydayInv, job # None, NEW done \in SUBSET Request, IsFiniteSet(done),
           \A q \in done : q.id \in Id, Ops(job, done), Booking(books'), Later(books, books'),
           Named(done, books', page),
           NEW rep, \/ rep = report \/ rep = {}
                    \/ job.intent.step \in {"settle", "pay"} /\ rep = report \cup done
    PROVE  Reports(rep, page) /\ Named(rep, books', page) /\ rep \in SUBSET Request
<1>1. Named(report, books', page)
  <2>1. Named(report, books, page)
    BY ToldIs DEF PaydayInv, Named
  <2>2. \A q \in report : q.id \in Id
    BY ToldIs
  <2> QED
    BY <2>1, <2>2, NamedStays
<1>2. Reports(report, page) /\ report \in SUBSET Request
  BY DEF PaydayInv, TypeOK
<1>3. CASE rep = report
  BY <1>1, <1>2, <1>3
<1>4. CASE rep = {}
  <2>1. IsFiniteSet({})
    BY FS_EmptySet
  <2> QED
    BY <1>4, <2>1 DEF Reports, Named
<1>5. CASE job.intent.step \in {"settle", "pay"} /\ rep = report \cup done
  <2>1. IsFiniteSet(report) /\ page = None
    BY <1>2, <1>5, RunSteps DEF Reports
  <2>2. IsFiniteSet(rep)
    BY <1>5, <2>1, FS_Union
  <2>3. \A q \in rep : q.op \in {"settle", "pay"} /\ q.id \in Id
    BY <1>2, <1>5 DEF Reports, Ops
  <2>4. Named(rep, books', page)
    BY <1>1, <1>5 DEF Named
  <2> QED
    BY <1>2, <1>5, <2>1, <2>2, <2>3, <2>4 DEF Reports
<1> QED
  BY <1>3, <1>4, <1>5

\* What the rest of the state owes the invariant, however the run goes on.
Around(kept) ==
    /\ books' \in [Id -> Fact \cup {None}] /\ OwnLines(books') /\ Later(books, books')
    /\ limbo' \subseteq Request /\ Late(limbo', books')
    /\ DOMAIN kept \subseteq Key /\ Range(kept) \subseteq Id /\ Keys(kept, books', limbo')
    /\ seen' \in [Worker -> Figures \cup {None}] /\ excess' \in Offer \cup {None}
    /\ events' \in 0..EventCap
    /\ UNCHANGED <<work, price, debt, page>>

LEMMA EndsWell ==
    ASSUME PaydayInv, job # None, job' = None, moved' = {},
           NEW kept, Around(kept), ids' = kept \/ ids' = Retired(kept, job.intent),
           Reports(report', page), Named(report', books', page), report' \in SUBSET Request
    PROVE  PaydayInv'
<1>1. Keys(ids', books', limbo') /\ DOMAIN ids' \subseteq Key /\ Range(ids') \subseteq Id
  <2>1. CASE ids' = kept
    BY <2>1 DEF Around
  <2>2. CASE ids' = Retired(kept, job.intent)
    <3>1. DOMAIN ids' \subseteq DOMAIN kept /\ \A k \in DOMAIN ids' : ids'[k] = kept[k]
      BY <2>2, RetiredIs
    <3>2. DOMAIN kept \subseteq Key /\ Range(kept) \subseteq Id /\ Keys(kept, books', limbo')
      BY DEF Around
    <3> QED
      BY <3>1, <3>2, KeysFewer
  <2> QED
    BY <2>1, <2>2
<1>2. TypeOK'
  BY <1>1 DEF Around, PaydayInv, TypeOK
<1>3. OwnLines(books') /\ Late(limbo', books') /\ page' = page
  BY DEF Around
<1> QED
  BY <1>1, <1>2, <1>3, Ended

LEMMA GoesOnKeeps ==
    ASSUME PaydayInv, job # None, NEW done \in SUBSET Request, NEW failed \in BOOLEAN, NEW kept,
           GoesOn(done, failed, kept), Around(kept),
           IsFiniteSet(done), \A q \in done : q.id \in Id, Ops(job, done),
           Named(done, books', page),
           Len(job.left) > 1 =>
              /\ RunInv(Onward(job, done, failed), page, books', report, Free')
              /\ AgreedRun(Onward(job, done, failed), moved, books', debt, work, price)
    PROVE  PaydayInv'
<1>1. Booking(books') /\ Later(books, books') /\ job \in Run
  BY RunSteps DEF Around, Booking
<1>2. CASE Len(job.left) > 1
  <2>1. job' = Onward(job, done, failed) /\ ids' = kept /\ UNCHANGED <<report, moved>>
    BY <1>2 DEF GoesOn, Onward
  <2>2. job' \in Run /\ job' # None /\ job'.done = done
    BY <1>1, <1>2, <2>1, OnwardIs
  <2>3. Reports(report, page) /\ Named(report, books', page) /\ report \in SUBSET Request
    BY <1>1, ReportsAtEnd
  <2>4. TypeOK'
    BY <2>1, <2>2, <2>3 DEF Around, PaydayInv, TypeOK
  <2>5. Told' = report \cup done
    BY <2>1, <2>2 DEF Told
  <2>6. Named(Told', books', page)
    BY <2>3, <2>5 DEF Named
  <2>7. /\ RunInv(job', page, books', report, Free')
        /\ AgreedRun(job', moved, books', debt, work, price)
    BY <1>2, <2>1
  <2> QED
    BY <2>1, <2>2, <2>3, <2>4, <2>6, <2>7 DEF Around, PaydayInv
<1>3. CASE ~(Len(job.left) > 1)
  <2>1. job' = None /\ ids' = Retired(kept, job.intent) /\ moved' = {}
    BY <1>3 DEF GoesOn
  <2>2. \/ report' = report \/ report' = {}
        \/ job.intent.step \in {"settle", "pay"} /\ report' = report \cup done
    <3>1. report' = CASE job.intent.step \in {"settle", "pay"} -> report \cup done
                      [] job.intent.step = "undo" -> AfterUndo(failed)
                      [] OTHER -> report
      BY <1>3 DEF GoesOn
    <3>2. job.intent.step \in {"settle", "pay", "one", "undo"}
      BY RunSteps
    <3>3. CASE job.intent.step \in {"settle", "pay"}
      BY <3>1, <3>3
    <3>4. CASE job.intent.step = "undo"
      BY <3>1, <3>4 DEF AfterUndo
    <3>5. CASE job.intent.step = "one"
      BY <3>1, <3>5
    <3> QED
      BY <3>2, <3>3, <3>4, <3>5
  <2>3. Reports(report', page) /\ Named(report', books', page) /\ report' \in SUBSET Request
    BY <1>1, <2>2, ReportsAtEnd
  <2> QED
    BY <2>1, <2>3, EndsWell
<1> QED
  BY <1>2, <1>3

LEMMA StopsKeeps ==
    ASSUME PaydayInv, job # None, NEW kept, Stops(kept), Around(kept), books' = books,
           job.intent.step # "undo"
    PROVE  PaydayInv'
<1>1. job' = None /\ ids' = kept /\ moved' = {}
      /\ report' = IF job.intent.step = "one" THEN report ELSE report \cup job.done
  BY DEF Stops
<1>2. /\ job.done \in SUBSET Request /\ IsFiniteSet(job.done) /\ \A q \in job.done : q.id \in Id
      /\ Ops(job, job.done) /\ Named(job.done, books', page)
      /\ job.intent.step \in {"settle", "pay", "one", "undo"}
  BY RunSteps
<1>3. Booking(books') /\ Later(books, books')
  BY DEF Around, Booking
<1>4. \/ report' = report
      \/ job.intent.step \in {"settle", "pay"} /\ report' = report \cup job.done
  BY <1>1, <1>2
<1>5. Reports(report', page) /\ Named(report', books', page) /\ report' \in SUBSET Request
  BY <1>2, <1>3, <1>4, ReportsAtEnd
<1> QED
  BY <1>1, <1>5, EndsWell

-----------------------------------------------------------------------------
(* What is left of a run, one request later. *)

ShiftedBy(j, r) ==
    /\ r.left # <<>> /\ Len(r.left) = Len(j.left) - 1
    /\ \A i \in DOMAIN r.left :
          /\ i + 1 \in DOMAIN j.left /\ r.left[i] = j.left[i + 1] /\ i + 1 # 1
          /\ 1 < i + 1
          /\ \A m \in DOMAIN r.left : (i # m => i + 1 # m + 1) /\ (i < m => i + 1 < m + 1)
    /\ 1 \in DOMAIN j.left /\ Head(j.left) = j.left[1]
    /\ \A i \in DOMAIN j.left : i # 1 => i - 1 \in DOMAIN r.left /\ r.left[i - 1] = j.left[i]

\* The list without its head keeps the order of what it names.
LEMMA Shifted ==
    ASSUME NEW j, j \in Run, Len(j.left) > 1, NEW r, r.left = Tail(j.left)
    PROVE  ShiftedBy(j, r)
<1>1. j.left \in Seq(Request)
  BY RunIs
<1>2. /\ Tail(j.left) \in Seq(Request) /\ Len(Tail(j.left)) = Len(j.left) - 1
      /\ Tail(j.left) # <<>> /\ Head(j.left) = j.left[1] /\ 1 \in DOMAIN j.left
      /\ \A i \in DOMAIN Tail(j.left) : i + 1 \in DOMAIN j.left /\ Tail(j.left)[i] = j.left[i + 1]
      /\ \A i \in DOMAIN j.left :
            i # 1 => i - 1 \in DOMAIN Tail(j.left) /\ Tail(j.left)[i - 1] = j.left[i]
  BY <1>1, TailIs
<1>3. \A i \in DOMAIN r.left : i \in Nat /\ i >= 1
  BY <1>2
<1>4. \A i, m \in DOMAIN r.left :
         i + 1 # 1 /\ 1 < i + 1 /\ (i # m => i + 1 # m + 1) /\ (i < m => i + 1 < m + 1)
  BY <1>3
<1> QED
  BY <1>2, <1>4 DEF ShiftedBy

LEMMA WriteGoesOn ==
    ASSUME PaydayInv, job # None, job.intent.step # "undo", Len(job.left) > 1,
           NEW n, Moved(books, books', Sent(job).worker, n),
           NEW done \in SUBSET Request, IsFiniteSet(done), \A q \in done : q.id \in Id,
           Ops(job, done), NEW failed \in BOOLEAN,
           Cardinality(Free') >= Len(job.left) - 1
    PROVE  /\ RunInv(Onward(job, done, failed), page, books', report, Free')
           /\ AgreedRun(Onward(job, done, failed), moved, books', debt, work, price)
<1> DEFINE r == Onward(job, done, failed)
<1>1. job \in Run /\ RunInv(job, page, books, report, Free)
      /\ job.intent.step \in {"settle", "pay", "one", "undo"}
  BY RunSteps DEF PaydayInv
<1>2. /\ r.intent = job.intent /\ r.left = Tail(job.left) /\ r.done = done
      /\ r.unchecked = job.unchecked /\ r.blocked = job.blocked
  BY <1>1, OnwardIs
<1> HIDE DEF r
<1>3. /\ r.left # <<>> /\ Len(r.left) = Len(job.left) - 1
      /\ \A i \in DOMAIN r.left :
            /\ i + 1 \in DOMAIN job.left /\ r.left[i] = job.left[i + 1] /\ i + 1 # 1
            /\ \A m \in DOMAIN r.left : i # m => i + 1 # m + 1
      /\ 1 \in DOMAIN job.left /\ Head(job.left) = job.left[1]
  <2>1. ShiftedBy(job, r)
    BY <1>1, <1>2, Shifted
  <2> QED
    BY <2>1 DEF ShiftedBy
<1>4. WriteRun(r, Free')
  <2>1. WriteRun(job, Free)
    BY <1>1 DEF RunInv
  <2>2. \A i \in DOMAIN r.left : Meant(r.intent, r.left[i])
    BY <1>2, <1>3, <2>1 DEF WriteRun
  <2> QED
    BY <1>2, <1>3, <2>1, <2>2 DEF WriteRun
<1>5. ASSUME NEW step \in {"settle", "pay"}, job.intent.step = step
      PROVE  CrewRun(r, page, step)
  <2>1. CrewRun(job, page, step)
    BY <1>1, <1>5 DEF RunInv
  <2>2. \A q \in done : q.op = step
    BY <1>5 DEF Ops
  <2>3. \A i \in DOMAIN r.left : r.left[i].op = step /\ r.left[i].id = 0
    BY <1>3, <2>1 DEF CrewRun
  <2>4. \A i, m \in DOMAIN r.left : i # m => r.left[i].worker # r.left[m].worker
    BY <1>3, <2>1 DEF CrewRun
  <2> QED
    BY <1>2, <2>1, <2>2, <2>3, <2>4 DEF CrewRun
<1>6. job.intent.step = "one" => SingleRun(r, page)
  <2> SUFFICES ASSUME job.intent.step = "one"
               PROVE  SingleRun(r, page)
    OBVIOUS
  <2>1. SingleRun(job, page)
    BY <1>1 DEF RunInv
  <2>2. \A q \in done : q.op \in Writes
    BY DEF Ops
  <2>3. \A i \in DOMAIN r.left : r.left[i].op \in Writes /\ r.left[i].id = 0
    BY <1>3, <2>1 DEF SingleRun
  <2> QED
    BY <1>2, <2>1, <2>2, <2>3 DEF SingleRun
<1>7. job.unchecked = {} => ~job.blocked
  BY <1>1 DEF RunInv
<1>8. RunInv(r, page, books', report, Free')
  BY <1>2, <1>3, <1>4, <1>5, <1>6, <1>7 DEF RunInv
<1>9. AgreedRun(r, moved, books', debt, work, price)
  <2> SUFFICES ASSUME ~job.blocked, NEW i \in DOMAIN r.left, r.left[i].worker \notin moved
               PROVE  Agreed(r.left[i], job.intent.step, books', debt, work, price)
    BY <1>2 DEF AgreedRun
  <2> DEFINE q == r.left[i]
             step == job.intent.step
             v == Sent(job).worker
  <2>1. q = job.left[i + 1] /\ i + 1 \in DOMAIN job.left /\ i + 1 # 1
    BY <1>3
  <2>2. AgreedRun(job, moved, books, debt, work, price)
    BY DEF PaydayInv
  <2>3. Agreed(q, step, books, debt, work, price)
    BY <2>1, <2>2 DEF AgreedRun
  <2>4. CASE step \notin {"settle", "pay"}
    BY <2>4 DEF Agreed
  <2>5. CASE step \in {"settle", "pay"}
    <3>1. CrewRun(job, page, step)
      BY <1>1, <2>5 DEF RunInv
    <3>2. v = job.left[1].worker
      BY <1>3, SentIs
    <3>3. q.worker # v
      BY <1>3, <2>1, <3>1, <3>2 DEF CrewRun
    <3>4. Booking(books) /\ OwnLines(books)
      BY BooksTyped
    <3> HIDE DEF q, step, v
    <3>5. Moved(books, books', v, n)
      BY DEF v
    <3>6. Agreed(q, step, books', debt, work, price)
      BY <2>3, <3>3, <3>4, <3>5, AgreedStays
    <3> QED
      BY <3>6 DEF q, step
  <2> QED
    BY <2>4, <2>5
<1> QED
  BY <1>8, <1>9 DEF r

LEMMA UndoGoesOn ==
    ASSUME PaydayInv, job # None, job.intent.step = "undo", Len(job.left) > 1,
           Later(books, books'),
           NEW done \in SUBSET Request, IsFiniteSet(done), \A q \in done : q.id \in Id,
           Ops(job, done), done \subseteq job.done \cup {Head(job.left)},
           NEW failed \in BOOLEAN, job.failed => failed,
           failed \/ ~LiveIn(books', Head(job.left).id)
    PROVE  /\ RunInv(Onward(job, done, failed), page, books', report, Free')
           /\ AgreedRun(Onward(job, done, failed), moved, books', debt, work, price)
<1> DEFINE r == Onward(job, done, failed)
<1>1. job \in Run /\ RunInv(job, page, books, report, Free) /\ UndoRun(job, page, books, report)
  BY RunSteps DEF PaydayInv, RunInv
<1>2. /\ r.intent = job.intent /\ r.left = Tail(job.left) /\ r.done = done
      /\ r.unchecked = job.unchecked /\ r.blocked = job.blocked /\ (failed => r.failed)
  BY <1>1, OnwardIs
<1> HIDE DEF r
<1>3. /\ r.left # <<>>
      /\ \A i \in DOMAIN r.left :
            /\ i + 1 \in DOMAIN job.left /\ r.left[i] = job.left[i + 1] /\ 1 < i + 1
            /\ \A m \in DOMAIN r.left : i < m => i + 1 < m + 1
      /\ 1 \in DOMAIN job.left /\ Head(job.left) = job.left[1]
      /\ \A i \in DOMAIN job.left :
            i # 1 => i - 1 \in DOMAIN r.left /\ r.left[i - 1] = job.left[i]
  <2>1. ShiftedBy(job, r)
    BY <1>1, <1>2, Shifted
  <2> QED
    BY <2>1 DEF ShiftedBy
<1>4. \A i \in DOMAIN r.left :
         r.left[i].op \in Backs /\ r.left[i].id \in Id /\ Booked(r.left[i], books')
  BY <1>1, <1>3 DEF UndoRun, Booked, Later
<1>5. \A q \in done : q.op \in Backs
  BY DEF Ops
<1>6. \A i, m \in DOMAIN r.left : i < m /\ r.left[i].op = "void" => r.left[m].op = "void"
  BY <1>1, <1>3 DEF UndoRun
<1>7. ASSUME NEW q \in done, q.op = "void", NEW i \in DOMAIN r.left
      PROVE  r.left[i].op = "void"
  <2>1. CASE q \in job.done
    BY <1>1, <1>3, <1>7, <2>1 DEF UndoRun
  <2>2. CASE q = Head(job.left)
    <3>1. job.left[1].op = "void" /\ 1 < i + 1 /\ i + 1 \in DOMAIN job.left
      BY <1>3, <1>7, <2>2
    <3> QED
      BY <1>1, <1>3, <3>1 DEF UndoRun
  <2> QED
    BY <2>1, <2>2
<1>8. ASSUME NEW p \in report
      PROVE  \/ r.failed \/ ~LiveIn(books', p.id)
             \/ \E i \in DOMAIN r.left : r.left[i].id = p.id /\ r.left[i].op = TakenBackBy(p)
  <2>1. p.id \in Id /\ books[p.id] # None
    BY ToldIs
  <2>2. \/ job.failed \/ ~LiveIn(books, p.id)
        \/ \E i \in DOMAIN job.left : job.left[i].id = p.id /\ job.left[i].op = TakenBackBy(p)
    BY <1>1 DEF UndoRun
  <2>3. CASE job.failed
    BY <1>2, <2>3
  <2>4. CASE ~LiveIn(books, p.id)
    BY <2>1, <2>4 DEF Later
  <2>5. ASSUME NEW i \in DOMAIN job.left, job.left[i].id = p.id, job.left[i].op = TakenBackBy(p)
        PROVE  \/ r.failed \/ ~LiveIn(books', p.id)
               \/ \E m \in DOMAIN r.left : r.left[m].id = p.id /\ r.left[m].op = TakenBackBy(p)
    <3>1. CASE i = 1
      BY <1>2, <1>3, <2>5, <3>1
    <3>2. CASE i # 1
      BY <1>3, <2>5, <3>2
    <3> QED
      BY <3>1, <3>2
  <2> QED
    BY <2>2, <2>3, <2>4, <2>5
<1>9. UndoRun(r, page, books', report)
  <2>1. page = None
    BY <1>1 DEF UndoRun
  <2> QED
    BY <1>2, <1>4, <1>5, <1>6, <1>7, <1>8, <2>1 DEF UndoRun
<1>10. RunInv(r, page, books', report, Free')
  BY <1>1, <1>2, <1>3, <1>9 DEF RunInv
<1>11. AgreedRun(r, moved, books', debt, work, price)
  BY <1>2 DEF AgreedRun, Agreed
<1> QED
  BY <1>10, <1>11 DEF r

-----------------------------------------------------------------------------
(* What is written, and what is told of it. *)

\* A row that came under the id that was sent is the row that was asked for.
LEMMA WrittenAsMeant ==
    ASSUME PaydayInv, job # None, job.intent.step # "undo", books' = Served(Sent(job))
    PROVE  /\ Moved(books, books', Sent(job).worker, Sent(job).id)
           /\ Keys(Minted(job), books', limbo)
           /\ Verdict(Sent(job)) = "ok" => Named({Sent(job)}, books', page)
<1> DEFINE q == Sent(job)
           K == KeyOf(job)
<1>1. q \in Request /\ q.id \in Id /\ q.op \in Writes /\ q.id = Mint(job)
  BY SentIs
<1>2. OfKey(K, q) /\ K[1] = job.intent /\ K[2] = q.op /\ K[3] = q.worker
  BY SentOfKey
<1>3. Writes \cap Backs = {}
  BY DEF Writes, Backs
<1>4. Booking(books) /\ OwnLines(books)
  BY BooksTyped
<1>5. books' = Served(q)
  OBVIOUS
<1> HIDE DEF q
<1>6. /\ Moved(books, books', q.worker, q.id)
      /\ Verdict(q) = "ok" => books'[q.id] # None
      /\ books[q.id] = None /\ books'[q.id] # None =>
            /\ books'[q.id].op = q.op /\ books'[q.id].worker = q.worker
            /\ books'[q.id].amount = q.amount /\ books'[q.id].lines \subseteq q.lines
  BY <1>1, <1>3, <1>4, <1>5, ServedIs
<1>7. /\ \A k \in DOMAIN Minted(job) : Minted(job)[k] = q.id => k = K
      /\ Keys(Minted(job), books, limbo)
      /\ \A k \in DOMAIN Minted(job) : Minted(job)[k] \in Id
  BY <1>1, MintedIs DEF Range
<1> HIDE DEF K
<1>8. Keys(Minted(job), books', limbo)
  <2>1. ASSUME NEW k \in DOMAIN Minted(job), books[Minted(job)[k]] = None,
               books'[Minted(job)[k]] # None
        PROVE  OfKey(k, books'[Minted(job)[k]])
    <3>1. Minted(job)[k] = q.id
      BY <1>6, <1>7, <2>1 DEF Moved
    <3>2. k = K
      BY <1>7, <3>1
    <3>3. OfKey(K, books'[q.id])
      BY <1>2, <1>6, <2>1, <3>1 DEF OfKey, Meant
    <3> QED
      BY <3>1, <3>2, <3>3
  <2>2. Later(books, books') /\ limbo \in SUBSET limbo
    BY <1>6 DEF Moved
  <2> QED
    BY <1>7, <2>1, <2>2, KeysStay
<1>9. ASSUME Verdict(q) = "ok"
      PROVE  Named({q}, books', page)
  <2> DEFINE b == books'[q.id]
  <2>1. b # None
    BY <1>6, <1>9
  <2>2. CASE books[q.id] = None
    BY <1>6, <2>1, <2>2 DEF Named
  <2>3. CASE books[q.id] # None
    <3>1. K \in DOMAIN ids /\ ids[K] = q.id
      BY <1>1, <2>3, MintIs, FreeIs DEF K
    <3>2. OfKey(K, books[q.id]) /\ OneSumEach(K[1])
      BY <2>3, <3>1 DEF PaydayInv, Keys
    <3>3. b.op = books[q.id].op /\ b.worker = books[q.id].worker /\ b.amount = books[q.id].amount
      BY <1>1, <1>6, <2>3 DEF Moved, Later
    <3>4. b.op = q.op /\ b.worker = q.worker
      BY <1>2, <3>2, <3>3 DEF OfKey
    <3>5. q.op # "settle" => b.amount = q.amount
      BY <1>1, <1>9, <2>3, <3>3, VerdictIs
    <3>6. page = None /\ q.op = "settle" => b.amount = q.amount
      <4> SUFFICES ASSUME page = None, q.op = "settle"
                   PROVE  b.amount = q.amount
        OBVIOUS
      <4>1. job.intent.step \in {"settle", "pay"}
        BY RunSteps
      <4>2. <<q.worker, q.amount>> \in job.intent.sums
        BY <1>2, <4>1 DEF OfKey, Meant
      <4>3. <<b.worker, b.amount>> \in job.intent.sums
        BY <1>2, <3>2, <3>3, <4>1 DEF OfKey, Meant
      <4>4. OneSumEach(job.intent)
        BY <1>2, <3>2
      <4>5. <<q.worker, q.amount>> = <<b.worker, b.amount>>
        <5>1. <<q.worker, q.amount>>[1] = <<b.worker, b.amount>>[1]
          BY <3>4
        <5> QED
          BY <4>2, <4>3, <4>4, <5>1 DEF OneSumEach
      <4> QED
        BY <4>5
    \* On the page of one person the id is of these lines, whatever was asked before.
    <3>7. page # None /\ q.op = "settle" => b.lines \subseteq q.lines
      <4> SUFFICES ASSUME page # None, q.op = "settle"
                   PROVE  b.lines \subseteq q.lines
        OBVIOUS
      <4>1. job.intent.step = "one"
        BY RunSteps
      <4>2. b.lines = books[q.id].lines
        BY <1>1, <1>6, <2>3 DEF Moved, Later
      <4>3. b.lines \subseteq job.intent.lines
        BY <1>2, <3>2, <4>1, <4>2 DEF OfKey, Meant
      <4>4. q.lines = job.intent.lines
        BY <4>1, SentLines DEF q
      <4> QED
        BY <4>3, <4>4
    <3> HIDE DEF b
    <3>8. /\ b # None /\ b.op = q.op /\ b.worker = q.worker
          /\ page = None \/ q.op # "settle" => b.amount = q.amount
          /\ page # None /\ q.op = "settle" => b.lines \subseteq q.lines
      BY <2>1, <3>4, <3>5, <3>6, <3>7
    <3> QED
      BY <3>8 DEF Named, b
  <2> QED
    BY <2>2, <2>3
<1> QED
  BY <1>6, <1>8, <1>9 DEF q

-----------------------------------------------------------------------------
(* The answers. *)

LEMMA FreeAfterMint ==
    ASSUME PaydayInv, job # None, job.intent.step # "undo", ids' = Minted(job),
           \A i \in Id : i # Mint(job) => books'[i] = books[i],
           UNCHANGED <<limbo, report>>
    PROVE  Cardinality(Free') >= Len(job.left) - 1
<1>1. ASSUME NEW x \in Free \ {Mint(job)}
      PROVE  x \in Free'
  <2>1. x \in Id /\ books'[x] = None /\ \A q \in limbo \cup report : q.id # x
    BY FreeIs
  <2>2. \A k \in DOMAIN ids : ids[k] # x
    BY FreeIs
  <2>3. \A k \in DOMAIN ids' : ids'[k] # x
    BY <2>2, MintedIs
  <2> QED
    BY <2>1, <2>3, FreeIs
<1>2. Free \ {Mint(job)} \subseteq Free'
  BY <1>1
<1>3. Cardinality(Free') >= Cardinality(Free) - 1
      /\ Cardinality(Free) \in Nat /\ Cardinality(Free') \in Nat
  BY <1>2, FreeInId, OneTaken
<1>4. Cardinality(Free) >= Len(job.left) /\ Len(job.left) \in Nat
  BY RunIs DEF PaydayInv, TypeOK, RunInv, WriteRun
<1> QED
  BY <1>3, <1>4

LEMMA OneMore ==
    ASSUME PaydayInv, job # None, NEW q \in Request, q.id \in Id,
           NEW done, done = job.done \cup {q}, Later(books, books'),
           q.op \in Writes => Named({q}, books', page),
           Ops(job, {q})
    PROVE  /\ done \in SUBSET Request /\ IsFiniteSet(done) /\ \A p \in done : p.id \in Id
           /\ Ops(job, done) /\ Named(done, books', page)
<1>1. /\ Ops(job, job.done) /\ IsFiniteSet(job.done)
      /\ job.done \in SUBSET Request /\ \A p \in job.done : p.id \in Id
      /\ Named(job.done, books, page)
  BY RunSteps
<1>2. IsFiniteSet(done)
  BY <1>1, FS_AddElement
<1>3. Named(job.done, books', page)
  BY <1>1, NamedStays
<1>4. Named(done, books', page)
  BY <1>3 DEF Named
<1>5. Ops(job, done)
  BY <1>1 DEF Ops
<1> QED
  BY <1>1, <1>2, <1>4, <1>5

LEMMA NotReadIs == NotRead \in [Worker -> Figures \cup {None}]
  BY DEF NotRead

LEMMA AcceptedKeeps ==
    ASSUME PaydayInv, Accepted
    PROVE  PaydayInv'
<1> DEFINE q == Sent(job)
           done == job.done \cup {q}
<1>1. /\ job # None /\ Verdict(q) = "ok" /\ books' = Served(q)
      /\ GoesOn(done, job.failed, Minted(job)) /\ seen' = NotRead
      /\ UNCHANGED <<work, price, debt, page, excess, limbo, events>>
  BY DEF Accepted, Writing, farm
<1>2. q \in Request /\ q.id \in Id
  BY <1>1, SentIs
<1>3. job.failed \in BOOLEAN /\ job.intent.step \in {"settle", "pay", "one", "undo"}
  BY <1>1, RunIs, RunSteps
<1>4. /\ limbo' \subseteq Request /\ events' \in 0..EventCap /\ excess' \in Offer \cup {None}
      /\ seen' \in [Worker -> Figures \cup {None}]
  BY <1>1, NotReadIs DEF PaydayInv, TypeOK
<1>5. Booking(books) /\ OwnLines(books)
  BY BooksTyped
<1>6. CASE job.intent.step # "undo"
  <2>1. /\ Moved(books, books', q.worker, q.id)
        /\ Keys(Minted(job), books', limbo)
        /\ Named({q}, books', page)
    BY <1>1, <1>6, WrittenAsMeant
  <2>2. q.op \in Writes /\ q.id = Mint(job)
    BY <1>1, <1>6, SentIs
  <2>3. Later(books, books') /\ Booking(books') /\ OwnLines(books')
        /\ \A i \in Id : i # Mint(job) => books'[i] = books[i]
    BY <2>1, <2>2 DEF Moved
  <2>4. Ops(job, {q})
    <3>1. job.intent.step \in {"settle", "pay"} => q.op = job.intent.step
      <4> SUFFICES ASSUME NEW step \in {"settle", "pay"}, job.intent.step = step
                   PROVE  q.op = step
        OBVIOUS
      <4>1. CrewRun(job, page, step)
        BY <1>1 DEF PaydayInv, RunInv
      <4>2. q.op = job.left[1].op /\ 1 \in DOMAIN job.left
        BY <1>1, SentIs, HeadOfRun
      <4> QED
        BY <4>1, <4>2 DEF CrewRun
    <3> QED
      BY <1>6, <2>2, <3>1 DEF Ops
  <2> HIDE DEF q
  <2>5. /\ done \in SUBSET Request /\ IsFiniteSet(done) /\ \A p \in done : p.id \in Id
        /\ Ops(job, done) /\ Named(done, books', page)
    BY <1>1, <1>2, <2>1, <2>3, <2>4, OneMore
  <2> HIDE DEF done
  <2>6. DOMAIN Minted(job) \subseteq Key /\ Range(Minted(job)) \subseteq Id
    BY <1>1, <1>6, MintedIs
  <2>7. Late(limbo', books')
    BY <1>1, <2>3, LateStays DEF PaydayInv
  <2>8. Around(Minted(job))
    BY <1>1, <1>4, <2>1, <2>3, <2>6, <2>7 DEF Around, Booking
  <2>9. Len(job.left) > 1 =>
           /\ RunInv(Onward(job, done, job.failed), page, books', report, Free')
           /\ AgreedRun(Onward(job, done, job.failed), moved, books', debt, work, price)
    <3> SUFFICES ASSUME Len(job.left) > 1
                 PROVE  /\ RunInv(Onward(job, done, job.failed), page, books', report, Free')
                        /\ AgreedRun(Onward(job, done, job.failed), moved, books', debt, work,
                                     price)
      OBVIOUS
    <3>1. ids' = Minted(job) /\ UNCHANGED <<report, moved>>
      BY <1>1 DEF GoesOn
    <3>2. Cardinality(Free') >= Len(job.left) - 1
      BY <1>1, <1>6, <2>3, <3>1, FreeAfterMint
    <3>3. Moved(books, books', Sent(job).worker, q.id)
      BY <2>1 DEF q
    <3> QED
      BY <1>1, <1>3, <1>6, <2>5, <3>2, <3>3, WriteGoesOn
  <2> QED
    BY <1>1, <1>3, <2>5, <2>8, <2>9, GoesOnKeeps
<1>7. CASE job.intent.step = "undo"
  <2>1. q = Head(job.left) /\ q.op \in Backs /\ Booked(q, books)
    BY <1>1, <1>7, SentIs
  <2>2. /\ Moved(books, books', q.worker, q.id) /\ ~LiveIn(books', q.id)
    BY <1>1, <1>2, <1>5, <2>1, ServedIs DEF Booked
  <2>3. Later(books, books') /\ Booking(books') /\ OwnLines(books')
        /\ \A i \in Id : i # q.id => books'[i] = books[i]
    BY <2>2 DEF Moved
  <2>4. Minted(job) = ids
    BY <2>1 DEF Minted, Backs
  <2>5. Ops(job, {q})
    BY <1>7, <2>1 DEF Ops
  <2>6. q.op \notin Writes
    BY <2>1 DEF Backs, Writes
  <2> HIDE DEF q
  <2>7. /\ done \in SUBSET Request /\ IsFiniteSet(done) /\ \A p \in done : p.id \in Id
        /\ Ops(job, done) /\ Named(done, books', page)
        /\ done \subseteq job.done \cup {Head(job.left)}
    BY <1>1, <1>2, <2>1, <2>3, <2>5, <2>6, OneMore
  <2> HIDE DEF done
  <2>8. DOMAIN ids \subseteq Key /\ Range(ids) \subseteq Id /\ Keys(ids, books, limbo)
        /\ Late(limbo, books) /\ \A k \in DOMAIN ids : ids[k] \in Id
    BY DEF PaydayInv, TypeOK, Range
  <2>9. Keys(ids, books', limbo)
    <3>1. \A k \in DOMAIN ids : books[ids[k]] = None => books'[ids[k]] = None
      BY <2>1, <2>3, <2>8 DEF Booked
    <3>2. limbo \in SUBSET limbo
      OBVIOUS
    <3> QED
      BY <2>3, <2>8, <3>1, <3>2, KeysStay
  <2>10. Late(limbo', books')
    BY <1>1, <2>3, <2>8, LateStays
  <2>11. Around(Minted(job))
    BY <1>1, <1>4, <2>3, <2>4, <2>8, <2>9, <2>10 DEF Around, Booking
  <2>12. Len(job.left) > 1 =>
           /\ RunInv(Onward(job, done, job.failed), page, books', report, Free')
           /\ AgreedRun(Onward(job, done, job.failed), moved, books', debt, work, price)
    BY <1>1, <1>3, <1>7, <2>1, <2>2, <2>3, <2>7, UndoGoesOn
  <2> QED
    BY <1>1, <1>3, <2>7, <2>11, <2>12, GoesOnKeeps
<1> QED
  BY <1>6, <1>7

\* A step that leaves the books alone.
LEMMA QuietAround ==
    ASSUME PaydayInv, UNCHANGED <<work, price, debt, page, books, limbo>>,
           NEW kept, DOMAIN kept \subseteq Key, Range(kept) \subseteq Id, Keys(kept, books, limbo),
           seen' \in [Worker -> Figures \cup {None}], excess' \in Offer \cup {None},
           events' \in 0..EventCap
    PROVE  Around(kept)
<1>1. Late(limbo, books) /\ OwnLines(books) /\ limbo \subseteq Request
      /\ books \in [Id -> Fact \cup {None}]
  BY DEF PaydayInv, TypeOK
<1>2. Later(books, books)
  BY DEF Later
<1>3. Later(books, books')
  BY <1>2
<1> QED
  BY <1>1, <1>3 DEF Around

LEMMA AlreadyUndoneKeeps ==
    ASSUME PaydayInv, AlreadyUndone
    PROVE  PaydayInv'
<1> DEFINE q == Sent(job)
<1>1. /\ job # None /\ Verdict(q) = "ALREADY_UNDONE"
      /\ GoesOn(job.done, job.failed, ids) /\ seen' = NotRead
      /\ UNCHANGED <<work, price, debt, books, page, excess, limbo, events>>
  BY DEF AlreadyUndone, Writing, farm
<1>2. q \in Request
  BY <1>1, SentIs
<1>3. q.op \notin Writes /\ (q.op \in Backs => ~LiveIn(books, q.id))
  BY <1>1, <1>2, VerdictIs DEF Live, LiveIn
<1>4. job.intent.step = "undo"
  BY <1>1, <1>3, SentIs
<1>5. q = Head(job.left) /\ q.op \in Backs
  BY <1>1, <1>4, SentIs
<1>6. /\ job.done \in SUBSET Request /\ IsFiniteSet(job.done) /\ \A p \in job.done : p.id \in Id
      /\ Ops(job, job.done) /\ Named(job.done, books', page) /\ job.failed \in BOOLEAN
  BY <1>1, RunSteps, RunIs
<1>7. Around(ids)
  <2>1. DOMAIN ids \subseteq Key /\ Range(ids) \subseteq Id /\ Keys(ids, books, limbo)
        /\ excess' \in Offer \cup {None} /\ events' \in 0..EventCap
    BY <1>1 DEF PaydayInv, TypeOK
  <2>2. seen' \in [Worker -> Figures \cup {None}]
    BY <1>1, NotReadIs
  <2> QED
    BY <1>1, <2>1, <2>2, QuietAround
<1>8. Later(books, books')
  BY <1>7 DEF Around
<1>9. ~LiveIn(books', Head(job.left).id) /\ job.done \subseteq job.done \cup {Head(job.left)}
  BY <1>1, <1>3, <1>5
<1>10. Len(job.left) > 1 =>
          /\ RunInv(Onward(job, job.done, job.failed), page, books', report, Free')
          /\ AgreedRun(Onward(job, job.done, job.failed), moved, books', debt, work, price)
  BY <1>1, <1>4, <1>6, <1>8, <1>9, UndoGoesOn
<1> QED
  BY <1>1, <1>6, <1>7, <1>10, GoesOnKeeps

LEMMA LeftOver == \A a, b \in Int : a > b => a - b \in Nat
  OBVIOUS

LEMMA RefusedKeeps ==
    ASSUME PaydayInv, Refused
    PROVE  PaydayInv'
<1> DEFINE q == Sent(job)
           fresh == job.intent.step = "one"
                      /\ Verdict(q) \in {"GROSS_CHANGED", "AMOUNT_EXCEEDS_BALANCE"}
           kept == IF fresh THEN Retired(ids, job.intent) ELSE Minted(job)
           over == job.intent.step = "one" /\ Verdict(q) = "AMOUNT_EXCEEDS_BALANCE"
<1>1. /\ job # None /\ Verdict(q) \notin {"ok", "ALREADY_UNDONE"}
      /\ Stops(kept) /\ (seen' = NotRead \/ seen' = seen)
      /\ excess' = IF over
                   THEN [amount |-> Balance(q.worker), extra |-> q.amount - Balance(q.worker)]
                   ELSE excess
      /\ UNCHANGED <<work, price, debt, books, page, limbo, events>>
  BY DEF Refused, Writing, farm
<1>2. q \in Request /\ q.worker \in Worker /\ q.amount \in Int
  BY <1>1, SentIs, RequestIs
<1>3. q.op \notin Backs
  BY <1>1, <1>2, VerdictIs
<1>4. job.intent.step # "undo"
  BY <1>1, <1>3, SentIs
<1>5. excess' \in Offer \cup {None}
  <2>1. CASE over
    <3>1. q.amount > Balance(q.worker)
      BY <2>1 DEF Verdict
    <3>2. Balance(q.worker) \in Int
      BY <1>2, BalanceIsInt
    <3>3. q.amount - Balance(q.worker) \in Nat
      BY <1>2, <3>1, <3>2, LeftOver
    <3> QED
      BY <1>1, <2>1, <3>2, <3>3 DEF Offer
  <2>2. CASE ~over
    BY <1>1, <2>2 DEF PaydayInv, TypeOK
  <2> QED
    BY <2>1, <2>2
<1>6. DOMAIN kept \subseteq Key /\ Range(kept) \subseteq Id /\ Keys(kept, books, limbo)
  <2>1. CASE fresh
    <3>1. kept = Retired(ids, job.intent)
      BY <2>1
    <3>2. DOMAIN kept \subseteq DOMAIN ids /\ \A k \in DOMAIN kept : kept[k] = ids[k]
      BY <3>1, RetiredIs
    <3>3. DOMAIN ids \subseteq Key /\ Range(ids) \subseteq Id /\ Keys(ids, books, limbo)
      BY DEF PaydayInv, TypeOK
    <3> HIDE DEF kept
    <3> QED
      BY <3>2, <3>3, KeysFewer
  <2>2. CASE ~fresh
    BY <1>1, <1>4, <2>2, MintedIs
  <2> QED
    BY <2>1, <2>2
<1> HIDE DEF kept
<1>7. Around(kept)
  <2>1. seen' \in [Worker -> Figures \cup {None}] /\ events' \in 0..EventCap
    BY <1>1, NotReadIs DEF PaydayInv, TypeOK
  <2> QED
    BY <1>1, <1>5, <1>6, <2>1, QuietAround
<1> QED
  BY <1>1, <1>4, <1>7, StopsKeeps

LEMMA GivenUpKeeps ==
    ASSUME PaydayInv, GivenUp
    PROVE  PaydayInv'
<1> DEFINE q == Sent(job)
<1>1. /\ job # None /\ events' \in 0..EventCap /\ limbo' = limbo \cup {q}
      /\ (seen' = NotRead \/ seen' = seen)
      /\ UNCHANGED <<work, price, debt, books, page, excess>>
  <2>1. events \in 0..EventCap /\ events < EventCap /\ events' = events + 1
    BY DEF GivenUp, PaydayInv, TypeOK
  <2>2. events' \in 0..EventCap
    BY <2>1, EventsCount
  <2> QED
    BY <2>2 DEF GivenUp, Writing, farm
<1>2. q \in Request /\ q.id \in Id /\ (q.op \in Backs => Booked(q, books))
  BY <1>1, SentIs, Disjoint
<1>3. limbo' \subseteq Request /\ Late(limbo', books')
  BY <1>1, <1>2 DEF PaydayInv, TypeOK, Late
<1>4. /\ seen' \in [Worker -> Figures \cup {None}] /\ excess' \in Offer \cup {None}
      /\ books' \in [Id -> Fact \cup {None}] /\ OwnLines(books')
  BY <1>1, NotReadIs DEF PaydayInv, TypeOK
<1>5. Later(books, books')
  BY <1>1 DEF Later
<1>6. CASE job.intent.step = "undo"
  <2>1. GoesOn(job.done, TRUE, ids)
    BY <1>6 DEF GivenUp
  <2>2. q.op \notin Writes
    BY <1>1, <1>6, SentIs, Disjoint
  <2>3. DOMAIN ids \subseteq Key /\ Range(ids) \subseteq Id /\ Keys(ids, books, limbo)
    BY DEF PaydayInv, TypeOK
  <2>4. Keys(ids, books', limbo')
    BY <1>1, <2>2, <2>3 DEF Keys
  <2>5. Around(ids)
    BY <1>1, <1>3, <1>4, <1>5, <2>3, <2>4 DEF Around
  <2>6. /\ job.done \in SUBSET Request /\ IsFiniteSet(job.done)
        /\ \A p \in job.done : p.id \in Id
        /\ Ops(job, job.done) /\ Named(job.done, books', page)
        /\ job.done \subseteq job.done \cup {Head(job.left)} /\ TRUE \in BOOLEAN
    BY <1>1, RunSteps
  <2>7. Len(job.left) > 1 =>
           /\ RunInv(Onward(job, job.done, TRUE), page, books', report, Free')
           /\ AgreedRun(Onward(job, job.done, TRUE), moved, books', debt, work, price)
    BY <1>1, <1>5, <1>6, <2>6, UndoGoesOn
  <2> QED
    BY <1>1, <2>1, <2>5, <2>6, <2>7, GoesOnKeeps
<1>7. CASE job.intent.step # "undo"
  <2>1. Stops(Minted(job))
    BY <1>7 DEF GivenUp
  <2>2. /\ DOMAIN Minted(job) \subseteq Key /\ Range(Minted(job)) \subseteq Id
        /\ Keys(Minted(job), books, limbo)
        /\ \A k \in DOMAIN Minted(job) : Minted(job)[k] = Mint(job) => k = KeyOf(job)
    BY <1>1, <1>7, MintedIs
  <2>3. q.id = Mint(job) /\ OfKey(KeyOf(job), q)
    BY <1>1, <1>7, SentIs, SentOfKey
  <2>4. Keys(Minted(job), books', limbo')
    <3> HIDE DEF q
    <3>1. \A k \in DOMAIN Minted(job) : q.id = Minted(job)[k] => OfKey(k, q)
      BY <2>2, <2>3
    <3> QED
      BY <1>1, <2>2, <3>1 DEF Keys
  <2>5. Around(Minted(job))
    BY <1>1, <1>3, <1>4, <1>5, <2>2, <2>4 DEF Around
  <2> QED
    BY <1>1, <1>7, <2>1, <2>5, StopsKeeps
<1> QED
  BY <1>6, <1>7

-----------------------------------------------------------------------------
(* The theorems. *)

LEMMA PaydayBegins == Init => PaydayInv
<1> SUFFICES ASSUME Init
             PROVE  PaydayInv
  OBVIOUS
<1>1. /\ work = [l \in Line |-> IF l \in Known THEN "live" ELSE "new"] /\ price = Min(Price)
      /\ books = [i \in Id |-> None] /\ debt = [w \in Worker |-> 0] /\ page \in Page
      /\ seen = NotRead /\ ids = <<>> /\ job = None /\ report = {} /\ excess = None
      /\ limbo = {} /\ moved = {} /\ events = 0
  BY DEF Init
<1>2. price \in Price
  <2>1. Price \subseteq Nat /\ Price # {}
    BY PriceAssumption
  <2>2. \E p \in Price : \A r \in Price : p <= r
    BY <2>1, LeastNumber
  <2> QED
    BY <1>1, <2>2 DEF Min
<1>3. DOMAIN ids = {} /\ Range(ids) = {} /\ IsFiniteSet({})
  BY <1>1, FS_EmptySet DEF Range
<1>4. events \in 0..EventCap
  BY <1>1, BoundAssumption
<1>5. TypeOK
  BY <1>1, <1>2, <1>3, <1>4, NotReadIs DEF TypeOK
<1>6. OwnLines(books)
  BY <1>1 DEF OwnLines
<1>7. Keys(ids, books, limbo) /\ Late(limbo, books) /\ Reports(report, page)
  BY <1>1, <1>3 DEF Keys, Late, Reports
<1>8. Named(Told, books, page)
  BY <1>1 DEF Told, Named
<1> QED
  BY <1>1, <1>5, <1>6, <1>7, <1>8 DEF PaydayInv

LEMMA PaydayStutters ==
    ASSUME PaydayInv, UNCHANGED vars
    PROVE  PaydayInv'
<1>1. UNCHANGED <<work, price, debt, books, page, seen, ids, job, report, excess, limbo, moved,
                  events>>
  BY DEF vars
<1>2. TypeOK'
  BY <1>1 DEF PaydayInv, TypeOK
<1>3. Told' = Told /\ Free' = Free
  BY <1>1 DEF Told, Free
<1> QED
  BY <1>1, <1>2, <1>3 DEF PaydayInv

LEMMA PaydaySteps ==
    ASSUME PaydayInv, [Next]_vars
    PROVE  PaydayInv'
<1>1. CASE UNCHANGED vars
  BY <1>1, PaydayStutters
<1>2. ASSUME NEW w \in Worker, Refresh(w)
      PROVE  PaydayInv'
  BY <1>2, RefreshKeeps
<1>3. CASE SettleCrew
  BY <1>3, SettleCrewKeeps
<1>4. CASE PayCrew
  BY <1>4, PayCrewKeeps
<1>5. CASE PayOne
  BY <1>5, PayOneKeeps
<1>6. CASE UndoCrew
  BY <1>6, UndoCrewKeeps
<1>7. CASE CheckWork
  BY <1>7, CheckWorkKeeps
<1>8. CASE CheckBalances
  BY <1>8, CheckBalancesKeeps
<1>9. CASE Accepted
  BY <1>9, AcceptedKeeps
<1>10. CASE AlreadyUndone
  BY <1>10, AlreadyUndoneKeeps
<1>11. CASE Refused
  BY <1>11, RefusedKeeps
<1>12. CASE GivenUp
  BY <1>12, GivenUpKeeps
<1>13. ASSUME NEW p \in Page, Open(p)
       PROVE  PaydayInv'
  BY <1>13, OpenKeeps
<1>14. ASSUME NEW q \in limbo, Arrive(q)
       PROVE  PaydayInv'
  BY <1>14, ArriveKeeps
<1>15. ASSUME NEW l \in Line, Weigh(l) \/ Delete(l)
       PROVE  PaydayInv'
  BY <1>15, WeighKeeps
<1>16. ASSUME NEW p \in Price, SetPrice(p)
       PROVE  PaydayInv'
  BY <1>16, SetPriceKeeps
<1>17. ASSUME NEW w \in Worker, Deduct(w)
       PROVE  PaydayInv'
  BY <1>17, DeductKeeps
<1>18. ASSUME NEW w \in Worker, SettleElsewhere(w)
       PROVE  PaydayInv'
  BY <1>18, SettleElsewhereKeeps
<1>19. ASSUME NEW i \in Id, VoidElsewhere(i)
       PROVE  PaydayInv'
  BY <1>19, VoidElsewhereKeeps
<1> QED
  BY <1>1, <1>2, <1>3, <1>4, <1>5, <1>6, <1>7, <1>8, <1>9, <1>10, <1>11, <1>12, <1>13, <1>14,
     <1>15, <1>16, <1>17, <1>18, <1>19 DEF Next

LEMMA PaydayHolds == Spec => []PaydayInv
<1>1. Init => PaydayInv
  BY PaydayBegins
<1>2. PaydayInv /\ [Next]_vars => PaydayInv'
  BY PaydaySteps
<1> QED
  BY <1>1, <1>2, PTL DEF Spec

\* Every request, report and row the console deals with is well formed, for any
\* crew and any bounds; in particular what is offered as an advance after a
\* payment did not fit is never below nothing.
THEOREM PaydayTyped == Spec => []TypeOK
<1>1. PaydayInv => TypeOK
  BY DEF PaydayInv
<1> QED
  BY <1>1, PaydayHolds, PTL

\* What a report says got in is on the books for the person it names and with
\* the figure it shows, whatever was lost, late, sent twice or done elsewhere:
\* an id never answers for a fact it was not minted for.
THEOREM ReportsAreTrue == Spec => []ReportNamesTheWrite
<1>1. PaydayInv => ReportNamesTheWrite
  BY DEF PaydayInv, Named, ReportNamesTheWrite, Answered, Writes
<1> QED
  BY <1>1, PaydayHolds, PTL

LEMMA ApprovalsFollow == PaydayInv => ApprovalsHold
<1> SUFFICES ASSUME PaydayInv, Writing, NEW q \in Range(job.left), q.worker \notin moved
             PROVE  CASE job.intent.step = "settle" ->
                            q.lines \subseteq Pending(q.worker) /\ Worth(q.lines) = q.amount
                      [] job.intent.step = "pay" -> Balance(q.worker) = q.amount
                      [] OTHER -> TRUE
  BY DEF ApprovalsHold
<1>1. job # None /\ job.unchecked = {}
  BY DEF Writing
<1>2. ~job.blocked /\ AgreedRun(job, moved, books, debt, work, price)
  BY <1>1 DEF PaydayInv, RunInv
<1>3. PICK i \in DOMAIN job.left : job.left[i] = q
  BY RangeOf
<1>4. Agreed(q, job.intent.step, books, debt, work, price)
  BY <1>2, <1>3 DEF AgreedRun
<1>5. Pending(q.worker) = PendingIn(books, work, q.worker)
  BY PendingIs
<1>6. Balance(q.worker) = Owing(books, debt, q.worker)
  BY BooksTyped, BalanceNow
<1>7. CASE job.intent.step = "settle"
  BY <1>4, <1>5, <1>7 DEF Agreed, Worth
<1>8. CASE job.intent.step = "pay"
  BY <1>4, <1>6, <1>8 DEF Agreed
<1>9. CASE job.intent.step \notin {"settle", "pay"}
  BY <1>9
<1> QED
  BY <1>7, <1>8, <1>9

\* While a crew is being written, whoever is still to come and was left alone
\* since the check is owed to the cent what was approved for them: neither the
\* writes of the run nor the answers that come late disturb it.
THEOREM ApprovalsStand == Spec => []ApprovalsHold
  BY ApprovalsFollow, PaydayHolds, PTL

LEMMA PaymentsFollow == PaydayInv => PaymentsGoFirst
<1> SUFFICES ASSUME PaydayInv, job # None, job.intent.step = "undo", ~job.failed,
                    \E q \in job.done : q.op = "void", NEW p \in Reported("pay")
             PROVE  ~Live(p.id)
  BY DEF PaymentsGoFirst
<1>1. UndoRun(job, page, books, report)
  BY DEF PaydayInv, RunInv
<1>2. p \in report /\ p.op = "pay"
  BY DEF Reported
<1>3. \A i \in DOMAIN job.left : job.left[i].op = "void"
  BY <1>1 DEF UndoRun
<1>4. ~LiveIn(books, p.id)
  BY <1>1, <1>2, <1>3 DEF UndoRun, TakenBackBy
<1> QED
  BY <1>4 DEF Live, LiveIn

\* An undo voids no settlement while a payment of the same reports stands,
\* save one whose reversal failed.
THEOREM PaymentsFirst == Spec => []PaymentsGoFirst
  BY PaymentsFollow, PaydayHolds, PTL

LEMMA UndoneWhole ==
    ASSUME PaydayInv, [Next]_vars, job # None, job.intent.step = "undo", report # {},
           report' = {}, events' = events
    PROVE  \A q \in report : ~books'[q.id].live
<1>1. events \in Nat
  BY DEF PaydayInv, TypeOK
<1>2. events' # events + 1
  BY <1>1
<1>3. ~GivenUp /\ \A p \in Page : ~Open(p)
  BY <1>2 DEF GivenUp, Open
<1>4. ~Refused
  <2> SUFFICES ASSUME Refused
               PROVE  FALSE
    OBVIOUS
  <2>1. Verdict(Sent(job)) \notin {"ok", "ALREADY_UNDONE"}
    BY DEF Refused
  <2>2. Sent(job) \in Request /\ Sent(job).op \in Backs
    BY SentIs
  <2> QED
    BY <2>1, <2>2, VerdictIs
<1>5. Accepted \/ AlreadyUndone
  <2> SUFFICES ASSUME ~Accepted, ~AlreadyUndone
               PROVE  report' = report
    OBVIOUS
  <2> QED
    BY <1>3, <1>4 DEF vars, Next, Refresh, SettleCrew, PayCrew, PayOne, UndoCrew, Starts,
       CheckWork, CheckBalances, Looked, Arrive, Weigh, Delete, SetPrice, Deduct,
       SettleElsewhere, VoidElsewhere, Elsewhere, Touches
<1>6. \E done : GoesOn(done, job.failed, Minted(job)) \/ GoesOn(done, job.failed, ids)
  BY <1>5 DEF Accepted, AlreadyUndone
<1>7. ~(Len(job.left) > 1) /\ ~job.failed
  BY <1>6 DEF GoesOn, AfterUndo
<1>8. /\ job \in Run /\ UndoRun(job, page, books, report) /\ job.left # <<>>
      /\ \A q \in report : q.id \in Id /\ books[q.id] # None
      /\ Sent(job) \in Request /\ Sent(job).id \in Id
      /\ Sent(job) = Head(job.left) /\ Sent(job).op \in Backs /\ Booked(Sent(job), books)
      /\ Head(job.left) = job.left[1]
  BY ToldIs, SentIs, HeadOfRun, RunSteps DEF PaydayInv, RunInv
<1>9. \A i \in DOMAIN job.left : i = 1
  BY <1>7, <1>8, RunIs
<1>10. Later(books, books') /\ ~LiveIn(books', Sent(job).id)
  <2>1. CASE Accepted
    <3>1. books' = Served(Sent(job))
      BY <2>1 DEF Accepted
    <3>2. Moved(books, books', Sent(job).worker, Sent(job).id)
          /\ ~LiveIn(books', Sent(job).id)
      BY <1>8, <3>1, BooksTyped, ServedIs DEF Booked
    <3> QED
      BY <3>2 DEF Moved
  <2>2. CASE AlreadyUndone
    <3>1. books' = books /\ Verdict(Sent(job)) = "ALREADY_UNDONE"
      BY <2>2 DEF AlreadyUndone
    <3>2. ~LiveIn(books, Sent(job).id)
      BY <1>8, <3>1, VerdictIs DEF Live, LiveIn
    <3> QED
      BY <3>1, <3>2 DEF Later
  <2> QED
    BY <1>5, <2>1, <2>2
<1> SUFFICES ASSUME NEW q \in report
             PROVE  ~books'[q.id].live
  OBVIOUS
<1>11. books'[q.id] # None
  BY <1>8, <1>10 DEF Later
<1>12. ~LiveIn(books, q.id) \/ q.id = Sent(job).id
  BY <1>7, <1>8, <1>9 DEF UndoRun
<1>13. ~LiveIn(books', q.id)
  BY <1>8, <1>10, <1>12 DEF Later
<1> QED
  BY <1>11, <1>13 DEF LiveIn

\* An undo that clears the reports has taken back everything they named,
\* whatever was lost, late, or undone by somebody else meanwhile.
THEOREM UndoTakesAll == Spec => UndoIsWhole
<1>1. ASSUME PaydayInv, [Next]_vars
      PROVE  [(/\ job # None /\ job.intent.step = "undo" /\ report # {}
               /\ report' = {} /\ UNCHANGED events)
              => \A q \in report : ~books'[q.id].live ]_vars
  BY <1>1, UndoneWhole
<1> QED
  BY <1>1, PaydayHolds, PTL DEF Spec, UndoIsWhole

=============================================================================
