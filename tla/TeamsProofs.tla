----------------------------- MODULE TeamsProofs ----------------------------
(***************************************************************************)
(* What holds of Teams for any workers, days, requests and number of       *)
(* transactions that overlap.                                              *)
(***************************************************************************)
EXTENDS Teams, TLAPS

(***************************************************************************)
(* The types.  A list of members, or a kind, is read only from a request   *)
(* that has one, and only who is to be created may not be there.  That no  *)
(* list of members asks for a membership that ends before it begins        *)
(* (Orderly) follows, and is shown after them.                             *)
(***************************************************************************)
Typed ==
    /\ worker \in [Worker -> File \cup {None}]
    /\ member \in [Id -> Row \cup {None}]
    /\ tx \in [Slot -> Transaction \cup {None}]
    /\ unsent \subseteq Request
    /\ today \in Day

Sensible(t, file) ==
    /\ t.at \in {"check", "read"} => t.for.want # None
    /\ t.at = "rekind" => t.for.kind # "keep"
    /\ t.at \in {"drop", "cut", "kind", "rekind", "own"} => t.for.status # "new"
    /\ t.for.status # "new" => file[t.for.about] # None

Types == Typed /\ \A x \in Open : Sensible(tx[x], worker)

\* A step that leaves the tables alone and makes of one transaction another of
\* its type.
LEMMA OneMoves ==
    ASSUME Types, UNCHANGED tables, NEW x \in Slot, NEW t \in Transaction \cup {None},
           tx' = [tx EXCEPT ![x] = t],
           t # None => Sensible(t, worker)
    PROVE  Types'
<1>1. worker' = worker /\ Typed'
  BY DEF Types, Typed, tables
<1>2. \A y \in Slot : tx'[y] = IF y = x THEN t ELSE tx[y]
  BY DEF Types, Typed
<1>3. \A y \in Slot : tx'[y] # None => Sensible(tx'[y], worker)
  BY <1>2 DEF Types, Open
<1> QED
  BY <1>1, <1>3 DEF Types, Open, Sensible

\* What a transaction sees of a worker and of a membership has its type.
LEMMA SeenTypes ==
    ASSUME Types, NEW x \in Slot, tx[x] # None
    PROVE  /\ tx[x] \in Transaction
           /\ \A i \in Id : Seen(x, i) \in Row \cup {None}
           /\ \A e \in Worker : FileOf(x, e) \in File \cup {None}
           /\ Rows(x) \subseteq Id
           /\ tx[x].for \in Request
           /\ Sensible(tx[x], worker)
<1>1. tx[x] \in Transaction
  BY DEF Types, Typed
<1> QED
  BY <1>1 DEF Types, Typed, Transaction, Seen, FileOf, Rows, Open

LEMMA Refusing ==
    ASSUME Types, UNCHANGED tables, NEW x \in Slot, Refused(x)
    PROVE  Types'
BY OneMoves DEF Refused

LEMMA Going ==
    ASSUME Types, UNCHANGED tables, NEW x \in Slot, tx[x] # None, NEW part \in Part, Goes(x, part),
           Sensible([tx[x] EXCEPT !.at = part], worker)
    PROVE  Types'
<1> DEFINE t == [tx[x] EXCEPT !.at = part]
<1>1. t \in Transaction /\ Sensible(t, worker)
  BY SeenTypes DEF Transaction
<1>2. tx' = [tx EXCEPT ![x] = t]
  BY DEF Goes
<1> HIDE DEF t
<1> QED
  BY <1>1, <1>2, OneMoves

LEMMA Locking ==
    ASSUME Types, UNCHANGED tables, NEW x \in Slot, tx[x] # None, NEW i \in Id,
           Delete(x, i) \/ Skip(x, i) \/ \E r \in Draft : Write(x, i, r)
    PROVE  Types'
<1>0. tx[x] \in Transaction /\ Seen(x, i) \in Row \cup {None}
  BY SeenTypes
<1>1. CASE Delete(x, i)
  <2> DEFINE t == [tx[x] EXCEPT !.mine = @ \cup {i}, !.rows[i] = None, !.todo = @ \ {i}]
  <2>1. t \in Transaction /\ t.at = tx[x].at /\ t.for = tx[x].for
    BY <1>0 DEF Transaction
  <2>2. tx' = [tx EXCEPT ![x] = t]
    BY <1>1 DEF Delete
  <2>3. Sensible(t, worker)
    BY <2>1, SeenTypes DEF Sensible
  <2> HIDE DEF t
  <2> QED
    BY <2>1, <2>2, <2>3, OneMoves
<1>2. CASE Skip(x, i)
  <2> DEFINE t == [tx[x] EXCEPT !.todo = @ \ {i}]
  <2>1. t \in Transaction /\ t.at = tx[x].at /\ t.for = tx[x].for
    BY <1>0 DEF Transaction
  <2>2. tx' = [tx EXCEPT ![x] = t]
    BY <1>2 DEF Skip
  <2>3. Sensible(t, worker)
    BY <2>1, SeenTypes DEF Sensible
  <2> HIDE DEF t
  <2> QED
    BY <2>1, <2>2, <2>3, OneMoves
<1>3. ASSUME NEW r \in Draft, Write(x, i, r)
      PROVE  Types'
  <2> DEFINE t == [tx[x] EXCEPT !.mine = @ \cup {i}, !.rows[i] = Seen(x, i), !.next = [id |-> i, row |-> r]]
  <2>1. t \in Transaction /\ t.at = tx[x].at /\ t.for = tx[x].for
    BY <1>0 DEF Transaction
  <2>2. tx' = [tx EXCEPT ![x] = t]
    BY <1>3 DEF Write
  <2>3. Sensible(t, worker)
    BY <2>1, SeenTypes DEF Sensible
  <2> HIDE DEF t
  <2> QED
    BY <2>1, <2>2, <2>3, OneMoves
<1> QED
  BY <1>1, <1>2, <1>3

\* The statements about the worker.
LEMMA WorkerTypes ==
    ASSUME Types, NEW x \in Slot,
           \/ CreateEmployee(x) \/ SoftDeleteEmployee(x) \/ RestoreEmployee(x) \/ KeepStatus(x)
           \/ FindOpen(x) \/ TakenOff(x) \/ LookAtKind(x) \/ SetEmployeeKind(x) \/ UpdateEmployee(x)
    PROVE  Types'
<1>0. tx[x] # None /\ UNCHANGED tables
  BY DEF CreateEmployee, SoftDeleteEmployee, RestoreEmployee, KeepStatus, FindOpen, TakenOff,
         LookAtKind, SetEmployeeKind, UpdateEmployee, At
<1>1. /\ tx[x] \in Transaction /\ tx[x].for \in Request /\ Rows(x) \subseteq Id
      /\ About(x) \in Worker /\ worker[About(x)] \in File \cup {None}
      /\ FileOf(x, About(x)) \in File \cup {None}
      /\ Sensible(tx[x], worker)
      /\ tx[x].for.status # "new" => worker[About(x)] \in File
  BY <1>0, SeenTypes DEF Request, About, Types, Typed, Sensible
<1>s. \A t \in Transaction : t.for = tx[x].for =>
        /\ t.at = "commit" => Sensible(t, worker)
        /\ t.at \in {"check", "read"} /\ tx[x].for.want # None => Sensible(t, worker)
        /\ t.at \in {"drop", "cut", "kind", "own"} /\ tx[x].for.status # "new" => Sensible(t, worker)
        /\ t.at = "rekind" /\ tx[x].for.status # "new" /\ tx[x].for.kind # "keep" => Sensible(t, worker)
  BY <1>1 DEF Sensible
<1>g. \A part \in Part : LET t == [tx[x] EXCEPT !.at = part] IN
        t \in Transaction /\ t.at = part /\ t.for = tx[x].for
  BY <1>1 DEF Transaction
<1>2. CASE CreateEmployee(x)
  <2>1. CASE Refused(x)
    BY <2>1, <1>0, Refusing
  <2>2. ASSUME NEW k \in {"persona", "equipo"}, NEW part \in {"check", "commit"},
               part = "check" => tx[x].for.want # None,
               tx' = [tx EXCEPT ![x].self = [kind |-> k, live |-> TRUE], ![x].at = part]
        PROVE  Types'
    <3> DEFINE t == [tx[x] EXCEPT !.self = [kind |-> k, live |-> TRUE], !.at = part]
    <3>1. t \in Transaction /\ t.at = part /\ t.for = tx[x].for
      BY <1>1 DEF Transaction, File, Part
    <3>2. tx' = [tx EXCEPT ![x] = t]
      BY <2>2
    <3> HIDE DEF t
    <3> QED
      BY <3>1, <3>2, <2>2, <1>0, <1>s, OneMoves
  <2>3. CASE ~Refused(x)
    <3> DEFINE k == IF tx[x].for.kind = "equipo" THEN "equipo" ELSE "persona"
               part == IF tx[x].for.kind = "equipo" /\ tx[x].for.want \notin {None, {}}
                       THEN "check" ELSE "commit"
    <3>1. tx' = [tx EXCEPT ![x].self = [kind |-> k, live |-> TRUE], ![x].at = part]
      BY <1>2, <2>3 DEF CreateEmployee
    <3>2. /\ k \in {"persona", "equipo"} /\ part \in {"check", "commit"}
          /\ part = "check" => tx[x].for.want # None
      OBVIOUS
    <3> HIDE DEF k, part
    <3> QED
      BY <3>1, <3>2, <2>2
  <2> QED
    BY <2>1, <2>3
<1>3. CASE SoftDeleteEmployee(x)
  <2> DEFINE file == IF worker[About(x)].live THEN [worker[About(x)] EXCEPT !.live = FALSE] ELSE None
             rest == {i \in Rows(x) : Concerns(x, Seen(x, i)) /\ Later(Seen(x, i), tx[x].day)}
             t == [tx[x] EXCEPT !.at = "drop", !.self = file, !.todo = rest]
  <2>1. CASE Refused(x)
    BY <2>1, <1>0, Refusing
  <2>2. CASE ~Refused(x)
    <3>0. tx[x].for.status # "new"
      BY <1>3 DEF SoftDeleteEmployee
    <3>1. file \in File \cup {None}
      BY <1>1, <3>0 DEF File
    <3>2. rest \subseteq Id
      BY <1>1
    <3>3. tx' = [tx EXCEPT ![x] = t]
      BY <1>3, <2>2 DEF SoftDeleteEmployee
    <3> HIDE DEF file, rest
    <3>4. t \in Transaction /\ t.at = "drop" /\ t.for = tx[x].for
      BY <1>1, <3>1, <3>2 DEF Transaction, Part
    <3> HIDE DEF t
    <3> QED
      BY <3>0, <3>3, <3>4, <1>0, <1>s, OneMoves
  <2> QED
    BY <2>1, <2>2
<1>4. CASE RestoreEmployee(x)
  <2> DEFINE file == [worker[About(x)] EXCEPT !.live = TRUE]
             t == [tx[x] EXCEPT !.at = "kind", !.self = file]
  <2>1. tx' = [tx EXCEPT ![x] = t]
    BY <1>4 DEF RestoreEmployee
  <2>0. tx[x].for.status # "new"
    BY <1>4 DEF RestoreEmployee
  <2>2. file \in File
    BY <1>1, <2>0 DEF File
  <2> HIDE DEF file
  <2>3. t \in Transaction /\ t.at = "kind" /\ t.for = tx[x].for
    BY <1>1, <2>2 DEF Transaction, Part
  <2> HIDE DEF t
  <2> QED
    BY <2>0, <2>1, <2>3, <1>0, <1>s, OneMoves
<1>5. CASE KeepStatus(x)
  BY <1>5, <1>0, <1>g, <1>s, Going DEF KeepStatus, Part
<1>6. CASE FindOpen(x)
  <2> DEFINE rest == {i \in Rows(x) : Concerns(x, Seen(x, i)) /\ Seen(x, i).to > tx[x].day}
             t == [tx[x] EXCEPT !.at = "cut", !.todo = rest]
  <2>1. tx' = [tx EXCEPT ![x] = t]
    BY <1>6 DEF FindOpen
  <2>0. tx[x].for.status # "new"
    BY <1>1, <1>6 DEF FindOpen, At, Sensible
  <2>2. rest \subseteq Id
    BY <1>1
  <2> HIDE DEF rest
  <2>3. t \in Transaction /\ t.at = "cut" /\ t.for = tx[x].for
    BY <1>1, <2>2 DEF Transaction, Part
  <2> HIDE DEF t
  <2> QED
    BY <2>0, <2>1, <2>3, <1>0, <1>s, OneMoves
<1>7. CASE TakenOff(x)
  <2>1. tx[x].for.status # "new" /\ (Goes(x, "commit") \/ Goes(x, "kind"))
    BY <1>1, <1>7 DEF TakenOff, At, Sensible
  <2> QED
    BY <2>1, <1>0, <1>g, <1>s, Going DEF Part
<1>8. CASE LookAtKind(x)
  <2>1. /\ \/ Goes(x, "own") \/ Refused(x)
           \/ Goes(x, "rekind") /\ tx[x].for.kind # "keep"
        /\ tx[x].for.status # "new"
    BY <1>1, <1>8 DEF LookAtKind, At, Sensible
  <2> QED
    BY <2>1, <1>0, <1>g, <1>s, Going, Refusing DEF Part
<1>9. CASE SetEmployeeKind(x)
  <2> DEFINE file == [FileOf(x, About(x)) EXCEPT !.kind = tx[x].for.kind]
             t == [tx[x] EXCEPT !.at = "own", !.self = file]
  <2>1. tx' = [tx EXCEPT ![x] = t]
    BY <1>9 DEF SetEmployeeKind
  <2>0. tx[x].for.status # "new" /\ tx[x].for.kind \in {"persona", "equipo"}
    BY <1>1, <1>9 DEF SetEmployeeKind, At, Sensible, Request
  <2>2. file \in File
    BY <1>1, <2>0 DEF File, FileOf
  <2> HIDE DEF file
  <2>3. t \in Transaction /\ t.at = "own" /\ t.for = tx[x].for
    BY <1>1, <2>2 DEF Transaction, Part
  <2> HIDE DEF t
  <2> QED
    BY <2>0, <2>1, <2>3, <1>0, <1>s, OneMoves
<1>10. CASE UpdateEmployee(x)
  <2> DEFINE file == FileOf(x, About(x))
             part == IF tx[x].for.want = None THEN "commit" ELSE "check"
             t == [tx[x] EXCEPT !.self = file, !.at = part]
  <2>1. CASE Goes(x, "commit") \/ Refused(x)
    BY <2>1, <1>0, <1>g, <1>s, Going, Refusing DEF Part
  <2>2. CASE ~(Goes(x, "commit") \/ Refused(x))
    <3>1. tx' = [tx EXCEPT ![x] = t]
      BY <1>10, <2>2 DEF UpdateEmployee
    <3>2. /\ part \in Part
          /\ \/ part = "check" /\ tx[x].for.want # None
             \/ part = "commit"
      BY DEF Part
    <3> HIDE DEF part
    <3>3. t \in Transaction /\ t.at = part /\ t.for = tx[x].for
      BY <1>1, <3>2 DEF Transaction
    <3> HIDE DEF t
    <3> QED
      BY <3>1, <3>2, <3>3, <1>0, <1>s, OneMoves
  <2> QED
    BY <2>1, <2>2
<1> QED
  BY <1>2, <1>3, <1>4, <1>5, <1>6, <1>7, <1>8, <1>9, <1>10

\* The statements about the members, and the end.
LEMMA MemberTypes ==
    ASSUME Types, NEW x \in Slot,
           \/ CheckMembers(x) \/ ReadMembers(x) \/ ClosedUnwanted(x) \/ TeamMembersCheck(x)
           \/ Aborted(x)
           \/ \E i \in Id : DropLater(x, i) \/ CutToday(x, i) \/ CloseUnwanted(x, i)
           \/ \E p \in Worker : AddTeamMember(x, p)
    PROVE  Types'
<1>0. tx[x] # None /\ UNCHANGED tables
  BY DEF CheckMembers, ReadMembers, ClosedUnwanted, TeamMembersCheck, Aborted, DropLater, CutToday,
         CloseUnwanted, AddTeamMember, At
<1>1. /\ tx[x] \in Transaction /\ tx[x].for \in Request /\ Rows(x) \subseteq Id
      /\ \A i \in Id : Seen(x, i) \in Row \cup {None}
      /\ Sensible(tx[x], worker)
  BY <1>0, SeenTypes
<1>2. CASE CheckMembers(x)
  <2>1. Refused(x) \/ (Goes(x, "read") /\ tx[x].for.want # None)
    BY <1>1, <1>2 DEF CheckMembers, At, Sensible
  <2>2. Sensible([tx[x] EXCEPT !.at = "read"], worker) \/ tx[x].for.want = None
    BY <1>1 DEF Sensible, Transaction
  <2> QED
    BY <2>1, <2>2, <1>0, Going, Refusing DEF Part
<1>3. CASE ReadMembers(x)
  <2> DEFINE has == {i \in Rows(x) : Seen(x, i).team = About(x) /\ Seen(x, i).to >= tx[x].for.from}
             rest == {i \in has : Seen(x, i).person \notin tx[x].for.want}
             join == tx[x].for.want \ {Seen(x, i).person : i \in has}
             t == [tx[x] EXCEPT !.at = "close", !.todo = rest, !.join = join]
  <2>1. tx' = [tx EXCEPT ![x] = t]
    BY <1>3 DEF ReadMembers
  <2>2. rest \subseteq Id
    BY <1>1
  <2>3. tx[x].for.want \subseteq Worker
    BY <1>1, <1>3 DEF ReadMembers, At, Sensible, Request
  <2>4. join \subseteq Worker
    BY <2>3
  <2> HIDE DEF rest, join
  <2>5. t \in Transaction /\ t.at = "close" /\ t.for = tx[x].for
    BY <1>1, <2>2, <2>4 DEF Transaction, Part
  <2>6. Sensible(t, worker)
    BY <1>1, <2>5 DEF Sensible
  <2> HIDE DEF t
  <2> QED
    BY <2>1, <2>5, <2>6, <1>0, OneMoves
<1>4. CASE ClosedUnwanted(x)
  <2>1. Goes(x, "commit") \/ Goes(x, "add")
    BY <1>4 DEF ClosedUnwanted
  <2>2. /\ Sensible([tx[x] EXCEPT !.at = "commit"], worker)
        /\ Sensible([tx[x] EXCEPT !.at = "add"], worker)
    BY <1>1 DEF Sensible, Transaction
  <2> QED
    BY <2>1, <2>2, <1>0, Going DEF Part
<1>5. CASE TeamMembersCheck(x)
  <2>1. CASE Refused(x)
    BY <2>1, <1>0, Refusing
  <2>2. CASE ~Refused(x)
    <3> DEFINE i == tx[x].next.id
               r == tx[x].next.row
               join == tx[x].join \ {r.person}
               part == IF tx[x].at = "add" /\ join = {} THEN "commit" ELSE tx[x].at
               t == [tx[x] EXCEPT !.rows[i] = r, !.held = @ \cup {r.person}, !.todo = @ \ {i},
                                  !.join = join, !.next = None, !.at = part]
    <3>1. tx' = [tx EXCEPT ![x] = t]
      BY <1>5, <2>2 DEF TeamMembersCheck
    <3>2. i \in Id /\ r \in Row
      <4>1. tx[x].next # None /\ Fits(x, i, r)
        BY <1>5, <2>2 DEF TeamMembersCheck
      <4>2. i \in Id /\ r \in Draft
        BY <1>1, <4>1 DEF Transaction
      <4> QED
        BY <4>1, <4>2 DEF Fits, Row
    <3>3. r.person \in Worker
      BY <3>2 DEF Row, Draft
    <3>4. part \in Part /\ part \in {"commit", tx[x].at}
      BY <1>1 DEF Transaction, Part
    <3> HIDE DEF part, i, r
    <3>5. t \in Transaction /\ t.at = part /\ t.for = tx[x].for
      BY <1>1, <3>2, <3>3, <3>4 DEF Transaction
    <3>6. Sensible(t, worker)
      BY <1>1, <3>4, <3>5 DEF Sensible
    <3> HIDE DEF t
    <3> QED
      BY <3>1, <3>5, <3>6, <1>0, OneMoves
  <2> QED
    BY <2>1, <2>2
<1>6. CASE Aborted(x)
  BY <1>6, <1>0, Refusing DEF Aborted
<1>7. ASSUME NEW i \in Id, DropLater(x, i)
      PROVE  Types'
  BY <1>7, <1>0, Locking DEF DropLater
<1>8. ASSUME NEW i \in Id, CutToday(x, i)
      PROVE  Types'
  <2>1. CASE Skip(x, i)
    BY <2>1, <1>0, Locking
  <2>2. CASE ~Skip(x, i)
    <3>1. Seen(x, i) # None /\ Write(x, i, [Seen(x, i) EXCEPT !.to = tx[x].day])
      BY <1>8, <2>2 DEF CutToday
    <3>2. tx[x].day \in 1..Forever
      BY <1>1, BoundAssumption DEF Transaction, Day, Forever
    <3>3. [Seen(x, i) EXCEPT !.to = tx[x].day] \in Draft
      BY <1>1, <3>1, <3>2 DEF Row, Draft
    <3> QED
      BY <3>1, <3>3, <1>0, Locking
  <2> QED
    BY <2>1, <2>2
<1>9. ASSUME NEW i \in Id, CloseUnwanted(x, i)
      PROVE  Types'
  <2>1. CASE Skip(x, i) \/ Delete(x, i)
    BY <2>1, <1>0, Locking
  <2>2. CASE ~(Skip(x, i) \/ Delete(x, i))
    <3>1. /\ Seen(x, i) # None /\ ~(Seen(x, i).from >= tx[x].for.from)
          /\ Write(x, i, [Seen(x, i) EXCEPT !.to = tx[x].for.from - 1])
      BY <1>9, <2>2 DEF CloseUnwanted, StartsThen
    <3>2. Seen(x, i) \in Row /\ Seen(x, i).from \in Day /\ tx[x].for.from \in Day
      BY <1>1, <3>1 DEF Request, Row, Draft
    <3>3. tx[x].for.from - 1 \in 1..Forever
      BY <3>1, <3>2, BoundAssumption DEF Day, Forever
    <3>4. [Seen(x, i) EXCEPT !.to = tx[x].for.from - 1] \in Draft
      BY <3>2, <3>3 DEF Row, Draft
    <3> QED
      BY <3>1, <3>4, <1>0, Locking
  <2> QED
    BY <2>1, <2>2
<1>10. ASSUME NEW p \in Worker, AddTeamMember(x, p)
       PROVE  Types'
  <2>1. CASE Refused(x)
    BY <2>1, <1>0, Refusing
  <2>2. ASSUME NEW i \in Fresh,
               Write(x, i, [team |-> About(x), person |-> p, from |-> tx[x].for.from, to |-> Forever])
        PROVE  Types'
    <3>1. i \in Id
      BY DEF Fresh
    <3>2. [team |-> About(x), person |-> p, from |-> tx[x].for.from, to |-> Forever] \in Draft
      BY <1>1, BoundAssumption DEF Draft, Request, About, Forever, Day
    <3> QED
      BY <2>2, <3>1, <3>2, <1>0, Locking
  <2> QED
    BY <1>10, <2>1, <2>2 DEF AddTeamMember
<1> QED
  BY <1>2, <1>3, <1>4, <1>5, <1>6, <1>7, <1>8, <1>9, <1>10

LEMMA CommitTypes ==
    ASSUME Types, NEW x \in Slot, Commit(x)
    PROVE  Types'
<1>0. /\ tx[x] # None /\ tx' = [tx EXCEPT ![x] = None] /\ unsent' = unsent /\ today' = today
      /\ member' = [i \in Id |-> Seen(x, i)] /\ worker' = [e \in Worker |-> FileOf(x, e)]
  BY DEF Commit, At, Refused
<1>1. /\ tx[x] \in Transaction
      /\ \A i \in Id : Seen(x, i) \in Row \cup {None}
      /\ \A e \in Worker : FileOf(x, e) \in File \cup {None}
  BY <1>0, SeenTypes
<1>2. Typed'
  BY <1>0, <1>1 DEF Types, Typed
<1>3. \A e \in Worker : worker[e] # None => FileOf(x, e) # None
  BY DEF FileOf
<1>4. ASSUME NEW y \in Slot, tx'[y] # None
      PROVE  Sensible(tx'[y], worker')
  <2>1. tx'[y] = tx[y] /\ Sensible(tx[y], worker) /\ tx[y].for.about \in Worker
    BY <1>0, <1>4, SeenTypes DEF Types, Typed, Request
  <2> QED
    BY <2>1, <1>0, <1>3 DEF Sensible
<1> QED
  BY <1>2, <1>4 DEF Types, Open

LEMMA OutsideTypes ==
    ASSUME Types, (\E r \in unsent : Send(r)) \/ NewDay
    PROVE  Types'
<1>1. CASE NewDay
  BY <1>1, BoundAssumption DEF NewDay, Types, Typed, Open, Day
<1>2. ASSUME NEW r \in unsent, Send(r)
      PROVE  Types'
  <2> DEFINE t == [for |-> r, day |-> today, at |-> "status", self |-> None, mine |-> {},
                   rows |-> [i \in Id |-> None], held |-> {}, todo |-> {}, join |-> {},
                   next |-> None]
  <2>1. PICK x \in Slot : tx' = [tx EXCEPT ![x] = t]
    BY <1>2 DEF Send, Open
  <2>2. t \in Transaction
    BY DEF Types, Typed, Transaction, Part
  <2>3. Sensible(t, worker)
    BY <1>2 DEF Sensible, Send
  <2> HIDE DEF t
  <2>4. \A y \in Slot : tx'[y] = IF y = x THEN t ELSE tx[y]
    BY <2>1 DEF Types, Typed
  <2>5. Typed' /\ worker' = worker
    BY <1>2, <2>1, <2>2 DEF Send, Types, Typed
  <2>6. \A y \in Slot : tx'[y] # None => Sensible(tx'[y], worker)
    BY <2>3, <2>4 DEF Types, Open
  <2> QED
    BY <2>5, <2>6 DEF Types, Open, Sensible
<1> QED
  BY <1>1, <1>2

LEMMA StepTypes == Types /\ [Next]_vars => Types'
<1> SUFFICES ASSUME Types, [Next]_vars
             PROVE  Types'
  OBVIOUS
<1>1. CASE UNCHANGED vars
  BY <1>1 DEF vars, Types, Typed, Open, Sensible
<1>2. ASSUME NEW x \in Slot, Statement(x)
      PROVE  Types'
  BY <1>2, WorkerTypes, MemberTypes, CommitTypes DEF Statement
<1> QED
  BY <1>1, <1>2, MemberTypes, OutsideTypes DEF Next

LEMMA InitTypes == Init => Types
BY BoundAssumption, AgendaAssumption DEF Init, Types, Typed, Open, Day, Id, Row, Forever

Orders == \A x \in Open : Orderly(tx[x])

\* Only the two loops over the members, and the end of what goes on, ask for a
\* membership to be written.
Silent(x) == \A y \in Slot : tx'[y] = tx[y] \/ tx'[y] = None \/ tx'[y].next = None

LEMMA Silently ==
    ASSUME Types, NEW x \in Slot, NEW t, tx' = [tx EXCEPT ![x] = t], t = None \/ t.next = None
    PROVE  Silent(x)
  BY DEF Types, Typed, Silent

LEMMA WorkerSilent ==
    ASSUME Types, NEW x \in Slot,
           \/ CreateEmployee(x) \/ SoftDeleteEmployee(x) \/ RestoreEmployee(x) \/ KeepStatus(x)
           \/ FindOpen(x) \/ TakenOff(x) \/ LookAtKind(x) \/ SetEmployeeKind(x) \/ UpdateEmployee(x)
    PROVE  Silent(x)
<1>1. tx[x] # None /\ tx[x].next = None
  BY DEF CreateEmployee, SoftDeleteEmployee, RestoreEmployee, KeepStatus, FindOpen, TakenOff,
         LookAtKind, SetEmployeeKind, UpdateEmployee, At
<1>2. tx[x] \in Transaction
  BY <1>1 DEF Types, Typed
<1>3. ASSUME NEW part, Goes(x, part) PROVE Silent(x)
  <2>1. [tx[x] EXCEPT !.at = part].next = None
    BY <1>1, <1>2 DEF Transaction
  <2> QED
    BY <1>3, <2>1, Silently DEF Goes
<1>4. ASSUME Refused(x) PROVE Silent(x)
  BY <1>4, Silently DEF Refused
<1>5. ASSUME NEW part, NEW self, tx' = [tx EXCEPT ![x].self = self, ![x].at = part]
      PROVE  Silent(x)
  <2>1. [tx[x] EXCEPT !.self = self, !.at = part].next = None
    BY <1>1, <1>2 DEF Transaction
  <2>2. tx' = [tx EXCEPT ![x] = [tx[x] EXCEPT !.self = self, !.at = part]]
    BY <1>5
  <2> QED
    BY <2>1, <2>2, Silently
<1>6. CASE CreateEmployee(x)
  BY <1>4, <1>5, <1>6 DEF CreateEmployee
<1>7. CASE SoftDeleteEmployee(x)
  <2>1. ASSUME NEW self, NEW todo,
               tx' = [tx EXCEPT ![x].at = "drop", ![x].self = self, ![x].todo = todo]
        PROVE  Silent(x)
    <3>1. [tx[x] EXCEPT !.at = "drop", !.self = self, !.todo = todo].next = None
      BY <1>1, <1>2 DEF Transaction
    <3>2. tx' = [tx EXCEPT ![x] = [tx[x] EXCEPT !.at = "drop", !.self = self, !.todo = todo]]
      BY <2>1
    <3> QED
      BY <3>1, <3>2, Silently
  <2> QED
    BY <1>4, <1>7, <2>1 DEF SoftDeleteEmployee
<1>8. CASE FindOpen(x)
  <2>1. PICK todo : tx' = [tx EXCEPT ![x].at = "cut", ![x].todo = todo]
    BY <1>8 DEF FindOpen
  <2>2. [tx[x] EXCEPT !.at = "cut", !.todo = todo].next = None
    BY <1>1, <1>2 DEF Transaction
  <2>3. tx' = [tx EXCEPT ![x] = [tx[x] EXCEPT !.at = "cut", !.todo = todo]]
    BY <2>1
  <2> QED
    BY <2>2, <2>3, Silently
<1>9. CASE RestoreEmployee(x) \/ SetEmployeeKind(x) \/ UpdateEmployee(x)
  <2>1. CASE Refused(x) \/ \E part : Goes(x, part)
    BY <1>3, <1>4, <2>1
  <2>2. CASE ~(Refused(x) \/ \E part : Goes(x, part))
    <3>1. PICK part, self : tx' = [tx EXCEPT ![x].at = part, ![x].self = self]
                            \/ tx' = [tx EXCEPT ![x].self = self, ![x].at = part]
      BY <1>9, <2>2 DEF RestoreEmployee, SetEmployeeKind, UpdateEmployee
    <3>2. tx' = [tx EXCEPT ![x].self = self, ![x].at = part]
      BY <1>2, <3>1 DEF Transaction, Types, Typed
    <3> QED
      BY <1>5, <3>2
  <2> QED
    BY <2>1, <2>2
<1>10. CASE KeepStatus(x) \/ TakenOff(x) \/ LookAtKind(x)
  BY <1>3, <1>4, <1>10 DEF KeepStatus, TakenOff, LookAtKind
<1> QED
  BY <1>6, <1>7, <1>8, <1>9, <1>10

LEMMA MemberSilent ==
    ASSUME Types, NEW x \in Slot,
           \/ CheckMembers(x) \/ ReadMembers(x) \/ ClosedUnwanted(x) \/ TeamMembersCheck(x)
           \/ Aborted(x) \/ Commit(x) \/ \E i \in Id : DropLater(x, i)
    PROVE  Silent(x)
<1>1. /\ tx[x] # None
      /\ TeamMembersCheck(x) \/ Aborted(x) \/ tx[x].next = None
  BY DEF CheckMembers, ReadMembers, ClosedUnwanted, TeamMembersCheck, Aborted, Commit, DropLater, At
<1>2. tx[x] \in Transaction
  BY <1>1 DEF Types, Typed
<1>3. ASSUME NEW part, tx[x].next = None, Goes(x, part) PROVE Silent(x)
  <2>1. [tx[x] EXCEPT !.at = part].next = None
    BY <1>2, <1>3 DEF Transaction
  <2> QED
    BY <1>3, <2>1, Silently DEF Goes
<1>4. ASSUME Refused(x) PROVE Silent(x)
  BY <1>4, Silently DEF Refused
<1>5. CASE ReadMembers(x)
  <2>1. PICK todo, join : tx' = [tx EXCEPT ![x].at = "close", ![x].todo = todo, ![x].join = join]
    BY <1>5 DEF ReadMembers
  <2> DEFINE t == [tx[x] EXCEPT !.at = "close", !.todo = todo, !.join = join]
  <2>2. t.next = tx[x].next /\ tx[x].next = None
    BY <1>2, <1>5 DEF Transaction, ReadMembers, At
  <2>3. tx' = [tx EXCEPT ![x] = t]
    BY <2>1
  <2> HIDE DEF t
  <2> QED
    BY <2>2, <2>3, Silently
<1>6. CASE TeamMembersCheck(x)
  <2>1. CASE ~Refused(x)
    <3>1. PICK rows, held, todo, join, part :
             tx' = [tx EXCEPT ![x] = [@ EXCEPT !.rows = rows, !.held = held, !.todo = todo,
                                               !.join = join, !.next = None, !.at = part]]
      <4> DEFINE i == tx[x].next.id
                 r == tx[x].next.row
                 join == tx[x].join \ {r.person}
      <4>1. tx' = [tx EXCEPT ![x] =
               [@ EXCEPT !.rows = [tx[x].rows EXCEPT ![i] = r], !.held = tx[x].held \cup {r.person},
                         !.todo = tx[x].todo \ {i}, !.join = join, !.next = None,
                         !.at = IF tx[x].at = "add" /\ join = {} THEN "commit" ELSE tx[x].at]]
        BY <1>6, <2>1 DEF TeamMembersCheck
      <4> QED
        BY <4>1
    <3> DEFINE t == [tx[x] EXCEPT !.rows = rows, !.held = held, !.todo = todo, !.join = join,
                                  !.next = None, !.at = part]
    <3>2. t.next = None
      BY <1>2 DEF Transaction
    <3>3. tx' = [tx EXCEPT ![x] = t]
      BY <3>1
    <3> HIDE DEF t
    <3> QED
      BY <3>2, <3>3, Silently
  <2> QED
    BY <1>4, <2>1
<1>7. ASSUME NEW i \in Id, DropLater(x, i) PROVE Silent(x)
  <2>1. PICK mine, rows, todo :
           tx' = [tx EXCEPT ![x].mine = mine, ![x].rows = rows, ![x].todo = todo]
    <3>1. tx' = [tx EXCEPT ![x].mine = @ \cup {i}, ![x].rows[i] = None, ![x].todo = @ \ {i}]
      BY <1>7 DEF DropLater, Delete
    <3> QED
      BY <3>1
  <2> DEFINE t == [tx[x] EXCEPT !.mine = mine, !.rows = rows, !.todo = todo]
  <2>2. t.next = tx[x].next /\ tx[x].next = None
    BY <1>2, <1>7 DEF Transaction, DropLater, At
  <2>3. tx' = [tx EXCEPT ![x] = t]
    BY <2>1
  <2> HIDE DEF t
  <2> QED
    BY <2>2, <2>3, Silently
<1>8. CASE CheckMembers(x) \/ ClosedUnwanted(x)
  <2>1. tx[x].next = None /\ (Refused(x) \/ \E part : Goes(x, part))
    BY <1>8 DEF CheckMembers, ClosedUnwanted, At
  <2> QED
    BY <1>3, <1>4, <2>1
<1>9. CASE Aborted(x) \/ Commit(x)
  BY <1>4, <1>9 DEF Aborted, Commit
<1> QED
  BY <1>5, <1>6, <1>7, <1>8, <1>9

\* What is asked to be written begins before it ends, but for what is cut today.
LEMMA WritesInOrder ==
    ASSUME Types, Orders, NEW x \in Slot, tx[x] # None, NEW i, NEW r, Write(x, i, r),
           tx[x].at = "cut" \/ r.from <= r.to
    PROVE  Orders'
<1> DEFINE t == [tx[x] EXCEPT !.mine = @ \cup {i}, !.rows[i] = Seen(x, i), !.next = [id |-> i, row |-> r]]
<1>1. tx[x] \in Transaction
  BY DEF Types, Typed
<1>2. t.next = [id |-> i, row |-> r] /\ t.at = tx[x].at
  BY <1>1 DEF Transaction
<1>3. Orderly(t)
  <2> HIDE DEF t
  <2> QED
    BY <1>2 DEF Orderly
<1>4. tx' = [tx EXCEPT ![x] = t]
  BY DEF Write
<1> HIDE DEF t
<1>5. \A y \in Slot : tx'[y] = IF y = x THEN t ELSE tx[y]
  BY <1>4 DEF Types, Typed
<1> QED
  BY <1>3, <1>5 DEF Orders, Open

LEMMA OrdersStay == Types /\ Orders /\ [Next]_vars => Orders'
<1> SUFFICES ASSUME Types, Orders, [Next]_vars
             PROVE  Orders'
  OBVIOUS
<1>1. ASSUME NEW x \in Slot, Silent(x) PROVE Orders'
  BY <1>1 DEF Silent, Orders, Orderly, Open
<1>2. ASSUME NEW x \in Slot, NEW i \in Id, Skip(x, i), tx[x] # None, tx[x].next = None
      PROVE  Orders'
  <2> DEFINE t == [tx[x] EXCEPT !.todo = @ \ {i}]
  <2>1. tx[x] \in Transaction
    BY <1>2 DEF Types, Typed
  <2>2. t.next = None
    BY <1>2, <2>1 DEF Transaction
  <2>3. tx' = [tx EXCEPT ![x] = t]
    BY <1>2 DEF Skip
  <2> HIDE DEF t
  <2> QED
    BY <1>1, <2>2, <2>3, Silently
<1>3. ASSUME NEW x \in Slot, NEW i \in Id, CutToday(x, i) PROVE Orders'
  <2>1. tx[x] # None /\ tx[x].next = None /\ tx[x].at = "cut"
    BY <1>3 DEF CutToday, At
  <2>2. Skip(x, i) \/ Write(x, i, [Seen(x, i) EXCEPT !.to = tx[x].day])
    BY <1>3 DEF CutToday
  <2> QED
    BY <1>2, <2>1, <2>2, WritesInOrder
<1>4. ASSUME NEW x \in Slot, NEW i \in Id, CloseUnwanted(x, i) PROVE Orders'
  <2>1. tx[x] # None /\ tx[x].next = None
    BY <1>4 DEF CloseUnwanted, At
  <2>2. tx[x] \in Transaction /\ Seen(x, i) \in Row \cup {None}
    BY <2>1, SeenTypes
  <2>3. CASE Skip(x, i)
    BY <1>2, <2>1, <2>3
  <2>4. CASE Delete(x, i)
    <3> DEFINE t == [tx[x] EXCEPT !.mine = @ \cup {i}, !.rows[i] = None, !.todo = @ \ {i}]
    <3>1. t.next = None
      BY <2>1, <2>2 DEF Transaction
    <3>2. tx' = [tx EXCEPT ![x] = t]
      BY <2>4 DEF Delete
    <3> HIDE DEF t
    <3> QED
      BY <1>1, <3>1, <3>2, Silently
  \* Who was there before the day leaves the day before it.
  <2>5. CASE ~(Skip(x, i) \/ Delete(x, i))
    <3> DEFINE day == tx[x].for.from
               r == [Seen(x, i) EXCEPT !.to = day - 1]
    <3>1. Seen(x, i) # None /\ ~(Seen(x, i).from >= day) /\ Write(x, i, r)
      BY <1>4, <2>5 DEF CloseUnwanted, StartsThen
    <3>2. Seen(x, i).from \in Int /\ day \in Int /\ r.from = Seen(x, i).from /\ r.to = day - 1
      BY <2>2, <3>1 DEF Transaction, Request, Row, Draft, Day
    <3> HIDE DEF r, day
    <3>3. r.from <= r.to
      BY <3>1, <3>2
    <3> QED
      BY <2>1, <3>1, <3>3, WritesInOrder
  <2> QED
    BY <2>3, <2>4, <2>5
<1>5. ASSUME NEW x \in Slot, NEW p \in Worker, AddTeamMember(x, p) PROVE Orders'
  <2>1. tx[x] # None
    BY <1>5 DEF AddTeamMember, At
  <2>2. CASE Refused(x)
    BY <1>1, <2>2, Silently DEF Refused
  <2>3. CASE ~Refused(x)
    <3> DEFINE r == [team |-> About(x), person |-> p, from |-> tx[x].for.from, to |-> Forever]
    <3>1. PICK i \in Fresh : Write(x, i, r)
      BY <1>5, <2>3 DEF AddTeamMember
    <3>2. tx[x].for.from \in Day
      BY <2>1, SeenTypes DEF Request
    <3>3. r.from <= r.to
      BY <3>2, BoundAssumption DEF Day, Forever
    <3> HIDE DEF r
    <3> QED
      BY <2>1, <3>1, <3>3, WritesInOrder
  <2> QED
    BY <2>2, <2>3
<1>6. ASSUME NEW x \in Slot, Statement(x) PROVE Orders'
  BY <1>1, <1>3, <1>4, <1>5, <1>6, WorkerSilent, MemberSilent DEF Statement
<1>7. ASSUME NEW r \in unsent, Send(r) PROVE Orders'
  <2> DEFINE t == [for |-> r, day |-> today, at |-> "status", self |-> None, mine |-> {},
                   rows |-> [i \in Id |-> None], held |-> {}, todo |-> {}, join |-> {},
                   next |-> None]
  <2>1. PICK x \in Slot : tx' = [tx EXCEPT ![x] = t]
    BY <1>7 DEF Send, Open
  <2>2. t.next = None
    OBVIOUS
  <2> HIDE DEF t
  <2> QED
    BY <1>1, <2>1, <2>2, Silently
<1>8. CASE UNCHANGED tx
  BY <1>8 DEF Orders, Open
<1> QED
  BY <1>1, <1>6, <1>7, <1>8, MemberSilent DEF Next, vars, NewDay

\* Every variable holds values of its type, whatever the bounds: no membership ends
\* before it begins, and no list of members asks for one that would.
THEOREM TypeCorrect == Spec => []TypeOK
<1>1. Init => Types /\ Orders
  BY InitTypes DEF Init, Orders, Open
<1>2. Types /\ Orders /\ [Next]_vars => Types' /\ Orders'
  BY StepTypes, OrdersStay
<1>3. Types /\ Orders => TypeOK
  BY DEF Types, Typed, TypeOK, Orders
<1> QED
  BY <1>1, <1>2, <1>3, PTL DEF Spec

(***************************************************************************)
(* Why a person is in one team on a day.  Two transactions never hold the  *)
(* same membership or the same person.  What a transaction sees of a       *)
(* membership it has locked is what is committed, unless it holds the      *)
(* person; and of whom it holds, what it sees does not clash, because      *)
(* nobody else can have written more of them.                              *)
(***************************************************************************)
Apart ==
    \A x, y \in Open : x # y => /\ tx[x].mine \cap tx[y].mine = {}
                               /\ tx[x].held \cap tx[y].held = {}

Known ==
    \A x \in Open : \A i \in tx[x].mine :
        tx[x].rows[i] = None \/ tx[x].rows[i] = member[i] \/ tx[x].rows[i].person \in tx[x].held

Clash(r, s) == r # None /\ s # None /\ r.person = s.person /\ Meet(r, s)

Placed ==
    \A x \in Open : \A i, j \in Id :
        i # j /\ Seen(x, i).person \in tx[x].held => ~Clash(Seen(x, i), Seen(x, j))

TeamsInv == OneTeamADay /\ Apart /\ Known /\ Placed

\* A transaction of which memberships and people stay as they are, or begin.
Keeps(x) ==
    tx'[x] # None =>
        \/ tx[x] # None /\ tx'[x].mine = tx[x].mine /\ tx'[x].rows = tx[x].rows /\ tx'[x].held = tx[x].held
        \/ tx'[x].mine = {} /\ tx'[x].held = {}

LEMMA QuietStep ==
    ASSUME TeamsInv, member' = member, \A x \in Slot : Keeps(x)
    PROVE  TeamsInv'
<1>1. OneTeamADay'
  BY DEF TeamsInv, OneTeamADay, Meet
<1>2. \A x \in Slot : tx'[x] # None /\ (tx'[x].mine # {} \/ tx'[x].held # {}) =>
        x \in Open /\ tx'[x].mine = tx[x].mine /\ tx'[x].rows = tx[x].rows /\ tx'[x].held = tx[x].held
  BY DEF Keeps, Open
<1>3. Apart' /\ Known'
  BY <1>2 DEF TeamsInv, Apart, Known, Open
<1>4. Placed'
  <2> SUFFICES ASSUME NEW x \in Slot, tx'[x] # None, NEW i \in Id, NEW j \in Id, i # j,
                      Seen(x, i)'.person \in tx'[x].held
               PROVE  ~Clash(Seen(x, i)', Seen(x, j)')
    BY DEF Placed, Open, Clash, Meet, Seen
  <2>1. x \in Open /\ tx'[x].mine = tx[x].mine /\ tx'[x].rows = tx[x].rows /\ tx'[x].held = tx[x].held
    BY <1>2
  <2>2. Seen(x, i)' = Seen(x, i) /\ Seen(x, j)' = Seen(x, j)
    BY <2>1 DEF Seen
  <2> QED
    BY <2>1, <2>2 DEF TeamsInv, Placed
<1> QED
  BY <1>1, <1>3, <1>4 DEF TeamsInv

\* One transaction ends, another field of it is written, or it begins.
LEMMA OneKeeps ==
    ASSUME Types, TeamsInv, member' = member, NEW x \in Slot, NEW t, tx' = [tx EXCEPT ![x] = t],
           \/ t = None
           \/ tx[x] # None /\ t.mine = tx[x].mine /\ t.rows = tx[x].rows /\ t.held = tx[x].held
           \/ t.mine = {} /\ t.held = {}
    PROVE  TeamsInv'
<1>1. \A y \in Slot : tx'[y] = IF y = x THEN t ELSE tx[y]
  BY DEF Types, Typed
<1>2. \A y \in Slot : Keeps(y)
  BY <1>1 DEF Keeps
<1> QED
  BY <1>2, QuietStep

\* A membership is locked, and deleted or kept as it is for now.
LEMMA LockStep ==
    ASSUME Types, TeamsInv, member' = member, NEW x \in Slot, tx[x] # None,
           NEW i \in Id, RowIsFree(x, i), NEW s \in {None, Seen(x, i)}, NEW t,
           tx' = [tx EXCEPT ![x] = t],
           t # None, t.mine = tx[x].mine \cup {i}, t.rows = [tx[x].rows EXCEPT ![i] = s],
           t.held = tx[x].held
    PROVE  TeamsInv'
<1>1. \A y \in Slot : tx'[y] = IF y = x THEN t ELSE tx[y]
  BY DEF Types, Typed
<1>2. tx[x].rows \in [Id -> Row \cup {None}] /\ x \in Open /\ tx[x].mine \subseteq Id
  BY SeenTypes DEF Transaction, Open
<1>3. \A y \in Slot \ {x} : tx[y] # None => i \notin tx[y].mine
  BY DEF RowIsFree, Open
<1>4. OneTeamADay'
  BY DEF TeamsInv, OneTeamADay, Meet
<1>5. Apart'
  BY <1>1, <1>2, <1>3 DEF TeamsInv, Apart, Open
<1>6. Known'
  <2> SUFFICES ASSUME NEW y \in Slot, tx'[y] # None, NEW j \in tx'[y].mine
               PROVE  \/ tx'[y].rows[j] = None \/ tx'[y].rows[j] = member[j]
                      \/ tx'[y].rows[j].person \in tx'[y].held
    BY DEF Known, Open
  <2>1. CASE y # x
    BY <2>1, <1>1 DEF TeamsInv, Known, Open
  <2>2. CASE y = x /\ j # i
    BY <2>2, <1>1, <1>2 DEF TeamsInv, Known
  <2>3. CASE y = x /\ j = i
    <3>1. tx'[y].rows[j] = s /\ tx'[y].held = tx[x].held
      BY <2>3, <1>1, <1>2
    <3>2. s = None \/ s = member[i] \/ (i \in tx[x].mine /\ s = tx[x].rows[i])
      BY DEF Seen
    <3> QED
      BY <2>3, <3>1, <3>2, <1>2 DEF TeamsInv, Known
  <2> QED
    BY <2>1, <2>2, <2>3
<1>7. Placed'
  <2> SUFFICES ASSUME NEW y \in Slot, tx'[y] # None, NEW j \in Id, NEW k \in Id, j # k,
                      Seen(y, j)'.person \in tx'[y].held
               PROVE  ~Clash(Seen(y, j)', Seen(y, k)')
    BY DEF Placed, Open, Clash, Meet, Seen
  <2>1. y \in Open /\ tx'[y].held = tx[y].held
    BY <1>1, <1>2 DEF Open
  <2>2. \A l \in Id : Seen(y, l)' \in {None, Seen(y, l)}
    BY <1>1, <1>2 DEF Seen
  <2>3. CASE Seen(y, j)' = None \/ Seen(y, k)' = None
    BY <2>3 DEF Clash
  <2>4. CASE Seen(y, j)' = Seen(y, j) /\ Seen(y, k)' = Seen(y, k)
    BY <2>1, <2>4 DEF TeamsInv, Placed
  <2> QED
    BY <2>2, <2>3, <2>4
<1> QED
  BY <1>4, <1>5, <1>6, <1>7 DEF TeamsInv

\* The trigger: the person is held, and what they have does not clash with what
\* is written.
LEMMA PlaceStep ==
    ASSUME Types, TeamsInv, NEW x \in Slot, TeamMembersCheck(x)
    PROVE  TeamsInv'
<1> DEFINE i == tx[x].next.id
           r == tx[x].next.row
           p == r.person
<1>1. /\ tx[x] # None /\ x \in Open /\ member' = member /\ i \in Id /\ r \in Draft
      /\ tx[x] \in Transaction
      /\ tx[x].rows \in [Id -> Row \cup {None}] /\ tx[x].mine \subseteq Id
  BY SeenTypes DEF TeamMembersCheck, tables, Transaction, Open
<1>2. CASE Refused(x)
  BY <1>1, <1>2, OneKeeps DEF Refused
<1>3. CASE ~Refused(x)
  <2>1. PICK t : /\ tx' = [tx EXCEPT ![x] = t] /\ t # None
                 /\ t.mine = tx[x].mine /\ t.rows = [tx[x].rows EXCEPT ![i] = r]
                 /\ t.held = tx[x].held \cup {p}
    <3> DEFINE join == tx[x].join \ {p}
               t == [tx[x] EXCEPT !.rows[i] = r, !.held = @ \cup {p}, !.todo = @ \ {i}, !.join = join,
                       !.next = None, !.at = IF @ = "add" /\ join = {} THEN "commit" ELSE @]
    <3>1. tx' = [tx EXCEPT ![x] = t]
      BY <1>3 DEF TeamMembersCheck
    <3> HIDE DEF i, r, p
    <3>2. /\ t.mine = tx[x].mine /\ t.rows = [tx[x].rows EXCEPT ![i] = r]
          /\ t.held = tx[x].held \cup {p}
      BY <1>1 DEF Transaction
    <3>3. t # None
      BY <1>3, <3>1, <1>1 DEF Refused
    <3> HIDE DEF t
    <3> QED
      BY <3>1, <3>2, <3>3
  <2>2. \A y \in Slot : tx'[y] = IF y = x THEN t ELSE tx[y]
    BY <2>1 DEF Types, Typed
  <2>3. Fits(x, i, r) /\ NobodyElsePlaces(x) /\ r \in Row
    BY <1>1, <1>3 DEF TeamMembersCheck, Fits, Row
  <2> HIDE DEF i, r
  <2>4. OneTeamADay'
    BY <1>1 DEF TeamsInv, OneTeamADay, Meet
  <2>5. \A y \in Slot \ {x} : tx[y] # None => p \notin tx[y].held
    BY <2>3 DEF NobodyElsePlaces, Open, r
  <2>6. Apart'
    BY <1>1, <2>1, <2>2, <2>5 DEF TeamsInv, Apart, Open
  <2>7. Known'
    BY <1>1, <2>1, <2>2 DEF TeamsInv, Known, Open
  <2>8. \A j, k \in Id : j # k /\ Seen(x, j) # None /\ Seen(x, j).person = p
                          => ~Clash(Seen(x, j), Seen(x, k))
    <3> SUFFICES ASSUME NEW j \in Id, NEW k \in Id, j # k, Seen(x, j) # None, Seen(x, k) # None,
                        Seen(x, j).person = p, Seen(x, k).person = p
                 PROVE  ~Meet(Seen(x, j), Seen(x, k))
      BY DEF Clash
    <3>1. CASE p \in tx[x].held
      BY <1>1, <3>1 DEF TeamsInv, Placed, Clash
    <3>2. CASE p \notin tx[x].held
      <4>1. Seen(x, j) = member[j] /\ Seen(x, k) = member[k]
        BY <1>1, <3>2 DEF TeamsInv, Known, Seen
      <4> QED
        BY <4>1 DEF TeamsInv, OneTeamADay
    <3> QED
      BY <3>1, <3>2
  <2>9. Placed'
    <3> SUFFICES ASSUME NEW y \in Slot, tx'[y] # None, NEW j \in Id, NEW k \in Id, j # k,
                        Seen(y, j)'.person \in tx'[y].held
                 PROVE  ~Clash(Seen(y, j)', Seen(y, k)')
      BY DEF Placed, Open, Clash, Meet, Seen
    <3>1. CASE y # x
      <4>1. y \in Open /\ tx'[y] = tx[y] /\ Seen(y, j)' = Seen(y, j) /\ Seen(y, k)' = Seen(y, k)
        BY <3>1, <1>1, <2>2 DEF Seen, Open
      <4> QED
        BY <4>1 DEF TeamsInv, Placed
    <3>2. CASE y = x
      <4>1. \A l \in Id : Seen(x, l)' = IF l = i /\ i \in tx[x].mine THEN r ELSE Seen(x, l)
        BY <1>1, <2>1, <2>2 DEF Seen
      <4>2. CASE Seen(x, j)' = Seen(x, j) /\ Seen(x, k)' = Seen(x, k)
        BY <1>1, <2>1, <2>2, <2>8, <3>2, <4>2 DEF TeamsInv, Placed, Clash
      <4>3. CASE j = i /\ Seen(x, j)' = r /\ Seen(x, k)' = Seen(x, k)
        BY <2>3, <3>2, <4>3 DEF Fits, Rows, Clash, Meet
      <4>4. CASE k = i /\ Seen(x, k)' = r /\ Seen(x, j)' = Seen(x, j)
        BY <2>3, <3>2, <4>4 DEF Fits, Rows, Clash, Meet
      <4> QED
        BY <4>1, <4>2, <4>3, <4>4
    <3> QED
      BY <3>1, <3>2
  <2> QED
    BY <2>4, <2>6, <2>7, <2>9 DEF TeamsInv
<1> QED
  BY <1>2, <1>3

\* The end: what a transaction wrote becomes what everybody sees.
LEMMA CommitStep ==
    ASSUME Types, TeamsInv, NEW x \in Slot, Commit(x)
    PROVE  TeamsInv'
<1>1. /\ tx[x] # None /\ x \in Open /\ tx' = [tx EXCEPT ![x] = None]
      /\ member' = [i \in Id |-> Seen(x, i)]
  BY DEF Commit, At, Refused, Open
<1>2. \A y \in Slot : tx'[y] = IF y = x THEN None ELSE tx[y]
  BY <1>1 DEF Types, Typed
<1>3. \A y \in Slot : tx[y] # None => y \in Open /\ tx[y].mine \subseteq Id
  BY SeenTypes DEF Transaction, Open
<1>4. OneTeamADay'
  <2> SUFFICES ASSUME NEW i \in Id, NEW j \in Id, i # j, Seen(x, i) # None, Seen(x, j) # None,
                      Seen(x, i).person = Seen(x, j).person
               PROVE  ~Meet(Seen(x, i), Seen(x, j))
    BY <1>1 DEF OneTeamADay, Meet
  <2>1. CASE Seen(x, i).person \in tx[x].held
    BY <1>1, <2>1 DEF TeamsInv, Placed, Clash
  <2>2. CASE Seen(x, i).person \notin tx[x].held
    <3>1. Seen(x, i) = member[i] /\ Seen(x, j) = member[j]
      BY <1>1, <2>2 DEF TeamsInv, Known, Seen
    <3> QED
      BY <3>1 DEF TeamsInv, OneTeamADay
  <2> QED
    BY <2>1, <2>2
<1>5. Apart'
  BY <1>2 DEF TeamsInv, Apart, Open
<1>6. Known'
  <2> SUFFICES ASSUME NEW y \in Slot, tx'[y] # None, NEW i \in tx'[y].mine
               PROVE  \/ tx'[y].rows[i] = None \/ tx'[y].rows[i] = member'[i]
                      \/ tx'[y].rows[i].person \in tx'[y].held
    BY DEF Known, Open
  <2>1. y # x /\ y \in Open /\ tx'[y] = tx[y] /\ i \in Id
    BY <1>2, <1>3
  <2>2. i \notin tx[x].mine
    BY <1>1, <2>1 DEF TeamsInv, Apart
  <2>3. member'[i] = member[i]
    BY <1>1, <2>1, <2>2 DEF Seen
  <2> QED
    BY <2>1, <2>3 DEF TeamsInv, Known
<1>7. Placed'
  <2> SUFFICES ASSUME NEW y \in Slot, tx'[y] # None, NEW j \in Id, NEW k \in Id, j # k,
                      Seen(y, j)'.person \in tx'[y].held
               PROVE  ~Clash(Seen(y, j)', Seen(y, k)')
    BY DEF Placed, Open, Clash, Meet, Seen
  <2> DEFINE p == Seen(y, j)'.person
  <2>1. y # x /\ y \in Open /\ tx'[y] = tx[y]
    BY <1>2, <1>3
  <2>2. ASSUME NEW l \in Id, Seen(y, l)' # None, Seen(y, l)'.person = p
        PROVE  Seen(y, l)' = Seen(y, l)
    <3>1. CASE l \in tx[y].mine
      BY <2>1, <3>1 DEF Seen
    <3>2. CASE l \notin tx[y].mine
      <4>1. Seen(y, l)' = Seen(x, l) /\ Seen(y, l) = member[l]
        BY <1>1, <2>1, <3>2 DEF Seen
      <4>2. p \notin tx[x].held
        BY <1>1, <2>1 DEF TeamsInv, Apart
      <4>3. Seen(x, l) = member[l]
        BY <1>1, <2>2, <4>1, <4>2 DEF TeamsInv, Known, Seen
      <4> QED
        BY <4>1, <4>3
    <3> QED
      BY <3>1, <3>2
  <2>3. CASE Seen(y, j)' = None \/ Seen(y, k)' = None \/ Seen(y, k)'.person # p
    BY <2>3 DEF Clash
  <2>4. CASE ~(Seen(y, j)' = None \/ Seen(y, k)' = None \/ Seen(y, k)'.person # p)
    BY <2>1, <2>2, <2>4 DEF TeamsInv, Placed
  <2> QED
    BY <2>3, <2>4
<1> QED
  BY <1>4, <1>5, <1>6, <1>7 DEF TeamsInv

\* A statement that goes over memberships, or over the people who join.
LEMMA RowStep ==
    ASSUME Types, TeamsInv, NEW x \in Slot,
           \/ \E i \in Id : DropLater(x, i) \/ CutToday(x, i) \/ CloseUnwanted(x, i)
           \/ \E p \in Worker : AddTeamMember(x, p)
    PROVE  TeamsInv'
<1>1. tx[x] # None /\ member' = member /\ tx[x] \in Transaction /\ x \in Open
  BY SeenTypes DEF DropLater, CutToday, CloseUnwanted, AddTeamMember, At, tables, Open
<1>2. ASSUME NEW i \in Id, Skip(x, i)
      PROVE  TeamsInv'
  <2> DEFINE t == [tx[x] EXCEPT !.todo = @ \ {i}]
  <2>1. tx' = [tx EXCEPT ![x] = t]
    BY <1>2 DEF Skip
  <2>2. t.mine = tx[x].mine /\ t.rows = tx[x].rows /\ t.held = tx[x].held
    BY <1>1 DEF Transaction
  <2> HIDE DEF t
  <2> QED
    BY <1>1, <2>1, <2>2, OneKeeps
<1>3. ASSUME NEW i \in Id, RowIsFree(x, i), Delete(x, i)
      PROVE  TeamsInv'
  <2> DEFINE t == [tx[x] EXCEPT !.mine = @ \cup {i}, !.rows[i] = None, !.todo = @ \ {i}]
  <2>1. tx' = [tx EXCEPT ![x] = t]
    BY <1>3 DEF Delete
  <2>2. /\ t \in Transaction /\ t.mine = tx[x].mine \cup {i}
        /\ t.rows = [tx[x].rows EXCEPT ![i] = None] /\ t.held = tx[x].held
    BY <1>1 DEF Transaction
  <2> HIDE DEF t
  <2>3. CASE t # None
    BY <1>1, <1>3, <2>1, <2>2, <2>3, LockStep
  <2>4. CASE t = None
    BY <1>1, <2>1, <2>4, OneKeeps
  <2> QED
    BY <2>3, <2>4
<1>4. ASSUME NEW i \in Id, RowIsFree(x, i), NEW r, Write(x, i, r)
      PROVE  TeamsInv'
  <2> DEFINE t == [tx[x] EXCEPT !.mine = @ \cup {i}, !.rows[i] = Seen(x, i), !.next = [id |-> i, row |-> r]]
  <2>1. tx' = [tx EXCEPT ![x] = t]
    BY <1>4 DEF Write
  <2>2. /\ t.mine = tx[x].mine \cup {i}
        /\ t.rows = [tx[x].rows EXCEPT ![i] = Seen(x, i)] /\ t.held = tx[x].held
    BY <1>1 DEF Transaction
  <2> HIDE DEF t
  <2>3. CASE t # None
    BY <1>1, <1>4, <2>1, <2>2, <2>3, LockStep
  <2>4. CASE t = None
    BY <1>1, <2>1, <2>4, OneKeeps
  <2> QED
    BY <2>3, <2>4
<1>5. ASSUME NEW i \in Id, DropLater(x, i) \/ CutToday(x, i) \/ CloseUnwanted(x, i)
      PROVE  TeamsInv'
  BY <1>5, <1>2, <1>3, <1>4 DEF DropLater, CutToday, CloseUnwanted
<1>6. ASSUME NEW p \in Worker, AddTeamMember(x, p)
      PROVE  TeamsInv'
  <2>1. CASE Refused(x)
    BY <1>1, <2>1, OneKeeps DEF Refused
  <2>2. CASE ~Refused(x)
    <3>1. PICK i \in Fresh : \E r : Write(x, i, r)
      BY <1>6, <2>2 DEF AddTeamMember
    <3>2. i \in Id /\ RowIsFree(x, i)
      BY <3>1 DEF Fresh, RowIsFree
    <3> QED
      BY <3>1, <3>2, <1>4
  <2> QED
    BY <2>1, <2>2
<1> QED
  BY <1>5, <1>6

\* A statement that writes neither a membership nor a lock.
LEMMA OtherStep ==
    ASSUME Types, TeamsInv, NEW x \in Slot,
           \/ CreateEmployee(x) \/ SoftDeleteEmployee(x) \/ RestoreEmployee(x) \/ KeepStatus(x)
           \/ FindOpen(x) \/ TakenOff(x) \/ LookAtKind(x) \/ SetEmployeeKind(x) \/ UpdateEmployee(x)
           \/ CheckMembers(x) \/ ReadMembers(x) \/ ClosedUnwanted(x) \/ Aborted(x)
    PROVE  TeamsInv'
<1>1. tx[x] # None /\ member' = member /\ tx[x] \in Transaction
  BY SeenTypes DEF CreateEmployee, SoftDeleteEmployee, RestoreEmployee, KeepStatus, FindOpen, TakenOff,
       LookAtKind, SetEmployeeKind, UpdateEmployee, CheckMembers, ReadMembers, ClosedUnwanted, Aborted,
       At, tables
<1>2. tx \in [Slot -> Transaction \cup {None}]
  BY DEF Types, Typed
<1>3. ASSUME NEW part, Goes(x, part) \/ Refused(x)
      PROVE  \A y \in Slot : Keeps(y)
  BY <1>1, <1>2, <1>3 DEF Keeps, Goes, Refused, Transaction
<1>4. CASE \/ KeepStatus(x) \/ TakenOff(x) \/ LookAtKind(x) \/ CheckMembers(x)
           \/ ClosedUnwanted(x) \/ Aborted(x)
  BY <1>1, <1>3, <1>4, QuietStep
     DEF KeepStatus, TakenOff, LookAtKind, CheckMembers, ClosedUnwanted, Aborted
<1>5. ASSUME NEW part, NEW file, NEW todo, NEW join,
             \/ tx' = [tx EXCEPT ![x].at = part, ![x].self = file]
             \/ tx' = [tx EXCEPT ![x].self = file, ![x].at = part]
             \/ tx' = [tx EXCEPT ![x].at = part, ![x].todo = todo]
             \/ tx' = [tx EXCEPT ![x].at = part, ![x].self = file, ![x].todo = todo]
             \/ tx' = [tx EXCEPT ![x].at = part, ![x].todo = todo, ![x].join = join]
      PROVE  TeamsInv'
  <2>1. \A y \in Slot : Keeps(y)
    BY <1>1, <1>2, <1>5 DEF Keeps, Transaction
  <2> QED
    BY <1>1, <2>1, QuietStep
<1>6. CASE CreateEmployee(x)
  BY <1>1, <1>3, <1>5, <1>6, QuietStep DEF CreateEmployee
<1>7. CASE SoftDeleteEmployee(x)
  <2>1. \/ Refused(x)
        \/ \E file, todo :
             tx' = [tx EXCEPT ![x].at = "drop", ![x].self = file, ![x].todo = todo]
    BY <1>7, Zenon DEF SoftDeleteEmployee
  <2>2. CASE Refused(x)
    BY <1>1, <1>3, <2>2, QuietStep
  <2>3. ASSUME NEW file, NEW todo,
               tx' = [tx EXCEPT ![x].at = "drop", ![x].self = file, ![x].todo = todo]
        PROVE  TeamsInv'
    BY <2>3, <1>5, Zenon
  <2> QED
    BY <2>1, <2>2, <2>3
<1>8. CASE RestoreEmployee(x)
  BY <1>5, <1>8 DEF RestoreEmployee
<1>9. CASE FindOpen(x)
  BY <1>5, <1>9 DEF FindOpen
<1>10. CASE SetEmployeeKind(x)
  BY <1>5, <1>10 DEF SetEmployeeKind
<1>11. CASE UpdateEmployee(x)
  BY <1>1, <1>3, <1>5, <1>11, QuietStep DEF UpdateEmployee
<1>12. CASE ReadMembers(x)
  BY <1>5, <1>12 DEF ReadMembers
<1> QED
  BY <1>4, <1>6, <1>7, <1>8, <1>9, <1>10, <1>11, <1>12

LEMMA OutsideStep ==
    ASSUME Types, TeamsInv, (\E r \in unsent : Send(r)) \/ NewDay
    PROVE  TeamsInv'
<1>1. CASE NewDay
  BY <1>1, QuietStep DEF NewDay, Keeps
<1>2. ASSUME NEW r \in unsent, Send(r)
      PROVE  TeamsInv'
  <2> DEFINE t == [for |-> r, day |-> today, at |-> "status", self |-> None, mine |-> {},
                   rows |-> [i \in Id |-> None], held |-> {}, todo |-> {}, join |-> {},
                   next |-> None]
  <2>1. PICK x \in Slot : tx' = [tx EXCEPT ![x] = t]
    BY <1>2 DEF Send, Open
  <2>2. t.mine = {} /\ t.held = {} /\ member' = member
    BY <1>2 DEF Send
  <2> HIDE DEF t
  <2> QED
    BY <2>1, <2>2, OneKeeps
<1> QED
  BY <1>1, <1>2

LEMMA StepKeeps == Types /\ TeamsInv /\ [Next]_vars => TeamsInv'
<1> SUFFICES ASSUME Types, TeamsInv, [Next]_vars
             PROVE  TeamsInv'
  OBVIOUS
<1>1. CASE UNCHANGED vars
  BY <1>1, QuietStep DEF vars, Keeps
<1>2. ASSUME NEW x \in Slot, Statement(x)
      PROVE  TeamsInv'
  BY <1>2, OtherStep, RowStep, PlaceStep, CommitStep DEF Statement
<1> QED
  BY <1>1, <1>2, OtherStep, OutsideStep DEF Next

LEMMA InitHolds == Init => TeamsInv
<1> SUFFICES ASSUME Init
             PROVE  TeamsInv
  OBVIOUS
<1>1. \A x \in Slot : tx[x] = None
  BY DEF Init
<1>2. \A i \in Id : i # 1 => member[i] = None
  BY DEF Init
<1> QED
  BY <1>1, <1>2 DEF TeamsInv, OneTeamADay, Apart, Known, Placed, Open, Id

(***************************************************************************)
(* However requests overlap, a person is in one team on a day.             *)
(***************************************************************************)
THEOREM OneTeamOnADay == Spec => []OneTeamADay
<1>1. Types /\ TeamsInv /\ [Next]_vars => (Types /\ TeamsInv)'
  BY StepTypes, StepKeeps
<1>2. Init => Types /\ TeamsInv
  BY InitTypes, InitHolds
<1>3. Spec => [](Types /\ TeamsInv)
  BY <1>1, <1>2, PTL DEF Spec
<1>4. TeamsInv => OneTeamADay
  BY DEF TeamsInv
<1> QED
  BY <1>3, <1>4, PTL
-----------------------------------------------------------------------------
(***************************************************************************)
(* Why the days that have been worked keep their teams, in Teams, for any  *)
(* workers, days, requests and number of transactions that overlap.        *)
(***************************************************************************)

(***************************************************************************)
(* A transaction may touch the days from the one it names, if it names     *)
(* members, and otherwise those after today.  So what it makes of a        *)
(* membership covers the same of the other days, and is the membership it  *)
(* was; only the team that is being set can be left sooner than today.     *)
(***************************************************************************)
Covers(r, d) == r # None /\ r.from <= d /\ d <= r.to

Past(t, now) == {d \in Day : d <= now /\ (t.for.want = None \/ d < t.for.from)}

Good(t, now, r, m) ==
    /\ \A d \in Past(t, now) : Covers(r, d) <=> Covers(m, d)
    /\ r # None /\ m # None =>
        /\ r.team = m.team /\ r.person = m.person /\ r.from = m.from
        /\ r.to = m.to \/ r.to >= now \/ (m.team = t.for.about /\ t.self # None)

\* What the transaction t sees of the membership i, where m is committed.
Sees(t, m, i) == IF i \in t.mine THEN t.rows[i] ELSE m[i]

\* The memberships that a loop has yet to come to are still those it looked for.
Waiting(t, now, s) ==
    s # None =>
        /\ t.at = "drop" => s.from > now
        /\ t.at = "close" => /\ s.team = t.for.about
                             /\ s.to >= now \/ s.to >= t.for.from - 1

Sound(t, now, m) ==
    /\ t.day = now
    /\ t.at = "status" => t.self = None
    /\ t.at \in {"check", "read", "close", "add"} => t.self # None
    /\ t.at \in {"close", "add"} => t.for.want # None
    /\ \A i \in t.mine : Good(t, now, t.rows[i], m[i])
    /\ t.next # None => t.next.id \in t.mine /\ Good(t, now, t.next.row, m[t.next.id])
    /\ \A i \in t.todo : Waiting(t, now, Sees(t, m, i))

\* The transaction t makes a membership of what is none.
Makes(t, i) == (i \in t.mine /\ t.rows[i] # None) \/ (t.next # None /\ t.next.id = i)

(***************************************************************************)
(* Two requests about one worker do not both write the worker, and an id   *)
(* that is being used for the first time is none that somebody else is     *)
(* going to come to.                                                       *)
(***************************************************************************)
FilesApart ==
    \A x, y \in Open : x # y /\ tx[x].self # None /\ tx[y].self # None => About(x) # About(y)

Reserved ==
    \A x, y \in Open : \A i \in Id :
        x # y /\ member[i] = None /\ Makes(tx[x], i) => i \notin tx[y].todo

HistoryInv ==
    /\ \A x \in Open : Sound(tx[x], today, member)
    /\ FilesApart
    /\ Reserved

Inv == Types /\ TeamsInv /\ HistoryInv

\* What a transaction sees is good, whether it has locked it or not.
LEMMA SeenIsGood ==
    ASSUME Inv, NEW x \in Open, NEW i \in Id
    PROVE  Seen(x, i) = Sees(tx[x], member, i) /\ Good(tx[x], today, Seen(x, i), member[i])
BY DEF Inv, HistoryInv, Sound, Seen, Sees, Good, Open

(***************************************************************************)
(* A step of one transaction that commits nothing.                         *)
(***************************************************************************)
LEMMA OwnStep ==
    ASSUME Inv, UNCHANGED tables, NEW x \in Open, NEW t, tx' = [tx EXCEPT ![x] = t],
           t # None => /\ Sound(t, today, member)
                       /\ t.for = tx[x].for
                       /\ t.self = None \/ t.self = tx[x].self \/ FileIsFree(x)
                       /\ tx[x].self # None => t.self # None
                       /\ \A i \in Id : member[i] = None /\ Makes(t, i)
                                      => Makes(tx[x], i) \/ i \in Fresh
                       /\ t.todo \subseteq tx[x].todo \cup Rows(x)
    PROVE  HistoryInv'
<1>1. \A y \in Slot : tx'[y] = IF y = x THEN t ELSE tx[y]
  BY DEF Inv, Types, Typed, Open
<1>2. member' = member /\ today' = today
  BY DEF tables
<1>3. \A y \in Slot : tx'[y] # None => Sound(tx'[y], today, member)
  BY <1>1 DEF Inv, HistoryInv, Open
<1>4. FilesApart'
  <2> SUFFICES ASSUME NEW y \in Slot, NEW z \in Slot, y # z, tx'[y] # None, tx'[z] # None,
                      tx'[y].self # None, tx'[z].self # None, tx'[y].for.about = tx'[z].for.about
               PROVE  FALSE
    BY DEF FilesApart, Open, About
  <2>1. \A w \in Slot \ {x} : tx[w] # None /\ tx[w].self # None /\ FileIsFree(x)
                               => tx[w].for.about # tx[x].for.about
    BY DEF FileIsFree, Open, About
  <2>2. \A v, w \in Slot : v # w /\ tx[v] # None /\ tx[w] # None /\ tx[v].self # None /\ tx[w].self # None
                            => tx[v].for.about # tx[w].for.about
    BY DEF Inv, HistoryInv, FilesApart, Open, About
  <2>3. x \in Slot /\ tx[x] # None
    BY DEF Open
  <2> QED
    BY <1>1, <2>1, <2>2, <2>3
<1>5. Reserved'
  <2> SUFFICES ASSUME NEW y \in Slot, NEW z \in Slot, y # z, tx'[y] # None, tx'[z] # None,
                      NEW i \in Id, member[i] = None, Makes(tx'[y], i), i \in tx'[z].todo
               PROVE  FALSE
    BY <1>2 DEF Reserved, Open, Makes
  <2>1. CASE y # x /\ z # x
    BY <2>1, <1>1 DEF Inv, HistoryInv, Reserved, Open
  <2>2. CASE y = x
    <3>1. tx'[z] = tx[z] /\ z \in Open
      BY <1>1, <2>2 DEF Open
    <3>2. Makes(tx[x], i) \/ i \in Fresh
      BY <1>1, <2>2 DEF Open
    <3> QED
      BY <2>2, <3>1, <3>2 DEF Inv, HistoryInv, Reserved, Fresh
  <2>3. CASE z = x
    <3>1. tx'[y] = tx[y] /\ y \in Open /\ Makes(tx[y], i)
      BY <1>1, <2>3 DEF Open
    <3>2. i \notin tx[x].todo
      BY <2>3, <3>1 DEF Inv, HistoryInv, Reserved
    <3>3. i \in Rows(x)
      BY <1>1, <2>3, <3>2 DEF Open
    <3>4. i \in tx[y].mine
      BY <3>1 DEF Inv, HistoryInv, Sound, Makes
    <3>5. i \notin tx[x].mine
      BY <2>3, <3>1, <3>4 DEF Inv, TeamsInv, Apart
    <3> QED
      BY <3>3, <3>5 DEF Rows, Seen
  <2> QED
    BY <2>1, <2>2, <2>3
<1> QED
  BY <1>2, <1>3, <1>4, <1>5 DEF HistoryInv, Open

\* Only the fields for the parts, the worker, and the loops are written.
LEMMA FieldStep ==
    ASSUME Inv, UNCHANGED tables, NEW x \in Open, NEW t, tx' = [tx EXCEPT ![x] = t],
           t # None, t.for = tx[x].for, t.day = tx[x].day, t.mine = tx[x].mine, t.rows = tx[x].rows,
           t.next = tx[x].next,
           t.self = tx[x].self \/ (t.self # None /\ FileIsFree(x)) \/ (tx[x].self = None /\ t.self = None),
           t.at # "status",
           t.at \in {"check", "read", "close", "add"} => t.self # None,
           t.at \in {"close", "add"} => t.for.want # None,
           t.todo \subseteq tx[x].todo \cup Rows(x),
           \A i \in t.todo : Waiting(t, today, Seen(x, i))
    PROVE  HistoryInv'
<1>1. tx[x].self # None => t.self # None
  OBVIOUS
<1>2. \A r, m : Good(tx[x], today, r, m) => Good(t, today, r, m)
  BY <1>1 DEF Good, Past
<1>3. \A i : Sees(t, member, i) = Seen(x, i)
  BY DEF Sees, Seen
<1>4. Sound(t, today, member)
  BY <1>2, <1>3 DEF Inv, HistoryInv, Sound
<1>5. \A i \in Id : Makes(t, i) => Makes(tx[x], i)
  BY DEF Makes
<1> QED
  BY <1>1, <1>4, <1>5, OwnStep

LEMMA EndStep ==
    ASSUME Inv, UNCHANGED tables, NEW x \in Open, Refused(x)
    PROVE  HistoryInv'
BY OwnStep DEF Refused

LEMMA GoesStep ==
    ASSUME Inv, UNCHANGED tables, NEW x \in Open, NEW part, Goes(x, part),
           part \notin {"status", "drop", "close"},
           part \in {"check", "read", "add"} => tx[x].self # None,
           part = "add" => tx[x].for.want # None
    PROVE  HistoryInv'
<1> DEFINE t == [tx[x] EXCEPT !.at = part]
<1>1. tx' = [tx EXCEPT ![x] = t] /\ tx[x] \in Transaction /\ tx[x] # None
  BY SeenTypes DEF Goes, Inv, Open
<1>2. /\ t.at = part /\ t.for = tx[x].for /\ t.day = tx[x].day /\ t.mine = tx[x].mine
      /\ t.rows = tx[x].rows /\ t.next = tx[x].next /\ t.self = tx[x].self /\ t.todo = tx[x].todo
  BY <1>1 DEF Transaction
<1> HIDE DEF t
<1>3. \A s : Waiting(t, today, s)
  BY <1>2 DEF Waiting
<1>4. CASE t = None
  BY <1>1, <1>4, OwnStep
<1>5. CASE t # None
  BY <1>1, <1>2, <1>3, <1>5, FieldStep
<1> QED
  BY <1>4, <1>5

\* The statements about the worker.
LEMMA WorkerStep ==
    ASSUME Inv, NEW x \in Slot,
           \/ CreateEmployee(x) \/ SoftDeleteEmployee(x) \/ RestoreEmployee(x) \/ KeepStatus(x)
           \/ FindOpen(x) \/ TakenOff(x) \/ LookAtKind(x) \/ SetEmployeeKind(x) \/ UpdateEmployee(x)
    PROVE  HistoryInv'
<1>1. /\ x \in Open /\ tx[x] # None /\ UNCHANGED tables /\ tx[x] \in Transaction
      /\ Sound(tx[x], today, member) /\ Sensible(tx[x], worker)
  BY SeenTypes DEF CreateEmployee, SoftDeleteEmployee, RestoreEmployee, KeepStatus, FindOpen, TakenOff,
         LookAtKind, SetEmployeeKind, UpdateEmployee, At, Open, Inv, HistoryInv
<1>2. ASSUME NEW part \in Part, NEW file, NEW todo,
             \/ tx' = [tx EXCEPT ![x].at = part, ![x].self = file]
             \/ tx' = [tx EXCEPT ![x].self = file, ![x].at = part],
             file # None, FileIsFree(x), part \notin {"status", "drop", "close", "add"}
      PROVE  HistoryInv'
  <2> DEFINE t == [tx[x] EXCEPT !.at = part, !.self = file]
  <2>1. tx' = [tx EXCEPT ![x] = t]
    BY <1>1, <1>2 DEF Inv, Types, Typed
  <2>2. /\ t.at = part /\ t.for = tx[x].for /\ t.day = tx[x].day /\ t.mine = tx[x].mine
        /\ t.rows = tx[x].rows /\ t.next = tx[x].next /\ t.self = file /\ t.todo = tx[x].todo
    BY <1>1 DEF Transaction
  <2> HIDE DEF t
  <2>3. \A s : Waiting(t, today, s)
    BY <1>2, <2>2 DEF Waiting
  <2>4. CASE t = None
    BY <1>1, <2>1, <2>4, OwnStep
  <2>5. CASE t # None
    BY <1>1, <1>2, <2>1, <2>2, <2>3, <2>5, FieldStep
  <2> QED
    BY <2>4, <2>5
<1>3. CASE CreateEmployee(x)
  <2>1. CASE Refused(x)
    BY <1>1, <2>1, EndStep
  <2>2. CASE ~Refused(x)
    <3> DEFINE file == [kind |-> IF tx[x].for.kind = "equipo" THEN "equipo" ELSE "persona", live |-> TRUE]
               part == IF tx[x].for.kind = "equipo" /\ tx[x].for.want \notin {None, {}}
                       THEN "check" ELSE "commit"
    <3>1. tx' = [tx EXCEPT ![x].self = file, ![x].at = part] /\ FileIsFree(x)
      BY <1>3, <2>2 DEF CreateEmployee
    <3>2. part \in {"check", "commit"} /\ file \in File
      BY DEF File
    <3> HIDE DEF file, part
    <3> QED
      BY <1>2, <3>1, <3>2, NoneAssumption DEF Part
  <2> QED
    BY <2>1, <2>2
<1>4. CASE SoftDeleteEmployee(x)
  <2>1. CASE Refused(x)
    BY <1>1, <2>1, EndStep
  <2>2. CASE ~Refused(x)
    <3> DEFINE file == IF worker[About(x)].live THEN [worker[About(x)] EXCEPT !.live = FALSE] ELSE None
               rest == {i \in Rows(x) : Concerns(x, Seen(x, i)) /\ Later(Seen(x, i), tx[x].day)}
               t == [tx[x] EXCEPT !.at = "drop", !.self = file, !.todo = rest]
    <3>1. tx' = [tx EXCEPT ![x] = t] /\ tx[x].at = "status" /\ (worker[About(x)].live => FileIsFree(x))
      BY <1>4, <2>2 DEF SoftDeleteEmployee, At
    <3>2. rest \subseteq Rows(x) /\ \A i \in rest : Seen(x, i).from > today
      BY <1>1 DEF Sound, Later
    <3>3. /\ t.at = "drop" /\ t.for = tx[x].for /\ t.day = tx[x].day /\ t.mine = tx[x].mine
          /\ t.rows = tx[x].rows /\ t.next = tx[x].next /\ t.self = file /\ t.todo = rest
      BY <1>1 DEF Transaction
    <3>4. file = None \/ (file # None /\ FileIsFree(x))
      BY <3>1
    <3>5. tx[x].self = None
      BY <1>1, <3>1 DEF Sound
    <3> HIDE DEF file, rest, t
    <3>6. \A i \in t.todo : Waiting(t, today, Seen(x, i))
      BY <3>2, <3>3 DEF Waiting
    <3>7. CASE t = None
      BY <1>1, <3>1, <3>7, OwnStep
    <3>8. CASE t # None
      BY <1>1, <3>1, <3>2, <3>3, <3>4, <3>5, <3>6, <3>8, FieldStep
    <3> QED
      BY <3>7, <3>8
  <2> QED
    BY <2>1, <2>2
<1>5. CASE RestoreEmployee(x)
  <2> DEFINE file == [worker[About(x)] EXCEPT !.live = TRUE]
  <2>1. tx' = [tx EXCEPT ![x].at = "kind", ![x].self = file] /\ FileIsFree(x)
    BY <1>5 DEF RestoreEmployee
  <2>2. worker[About(x)] \in File
    BY <1>1, <1>5, SeenTypes DEF RestoreEmployee, Sensible, About, Inv, Types, Typed, Request
  <2>3. file \in File
    BY <2>2 DEF File
  <2> HIDE DEF file
  <2> QED
    BY <1>2, <2>1, <2>3, NoneAssumption DEF Part
<1>6. CASE KeepStatus(x)
  BY <1>1, <1>6, GoesStep DEF KeepStatus
<1>7. CASE FindOpen(x)
  <2> DEFINE rest == {i \in Rows(x) : Concerns(x, Seen(x, i)) /\ Seen(x, i).to > tx[x].day}
             t == [tx[x] EXCEPT !.at = "cut", !.todo = rest]
  <2>1. tx' = [tx EXCEPT ![x] = t]
    BY <1>7 DEF FindOpen
  <2>2. /\ t.at = "cut" /\ t.for = tx[x].for /\ t.day = tx[x].day /\ t.mine = tx[x].mine
        /\ t.rows = tx[x].rows /\ t.next = tx[x].next /\ t.self = tx[x].self /\ t.todo = rest
    BY <1>1 DEF Transaction
  <2>3. rest \subseteq Rows(x)
    OBVIOUS
  <2> HIDE DEF rest, t
  <2>4. \A s : Waiting(t, today, s)
    BY <2>2 DEF Waiting
  <2>5. CASE t = None
    BY <1>1, <2>1, <2>5, OwnStep
  <2>6. CASE t # None
    BY <1>1, <2>1, <2>2, <2>3, <2>4, <2>6, FieldStep
  <2> QED
    BY <2>5, <2>6
<1>8. CASE TakenOff(x)
  BY <1>1, <1>8, GoesStep DEF TakenOff
<1>9. CASE LookAtKind(x)
  BY <1>1, <1>9, GoesStep, EndStep DEF LookAtKind
<1>10. CASE SetEmployeeKind(x)
  <2> DEFINE file == [FileOf(x, About(x)) EXCEPT !.kind = tx[x].for.kind]
  <2>1. tx' = [tx EXCEPT ![x].at = "own", ![x].self = file] /\ FileIsFree(x)
    BY <1>10 DEF SetEmployeeKind
  <2>2. FileOf(x, About(x)) \in File /\ tx[x].for.kind \in {"persona", "equipo"}
    BY <1>1, <1>10, SeenTypes DEF SetEmployeeKind, At, Sensible, About, Inv, Types, Typed, Request, FileOf
  <2>3. file \in File
    BY <2>2 DEF File
  <2> HIDE DEF file
  <2> QED
    BY <1>2, <2>1, <2>3, NoneAssumption DEF Part
<1>11. CASE UpdateEmployee(x)
  <2>1. CASE Refused(x) \/ Goes(x, "commit")
    BY <1>1, <2>1, EndStep, GoesStep
  <2>2. CASE ~(Refused(x) \/ Goes(x, "commit"))
    <3> DEFINE file == FileOf(x, About(x))
               part == IF tx[x].for.want = None THEN "commit" ELSE "check"
    <3>1. tx' = [tx EXCEPT ![x].self = file, ![x].at = part] /\ FileIsFree(x)
      BY <1>11, <2>2 DEF UpdateEmployee
    <3>2. file # None
      BY <1>1, <1>11, SeenTypes DEF UpdateEmployee, At, Sensible, About, FileOf
    <3>3. part \in {"check", "commit"}
      OBVIOUS
    <3> HIDE DEF file, part
    <3> QED
      BY <1>2, <3>1, <3>2, <3>3 DEF Part
  <2> QED
    BY <2>1, <2>2
<1> QED
  BY <1>3, <1>4, <1>5, <1>6, <1>7, <1>8, <1>9, <1>10, <1>11

\* A loop goes on: nothing to do, a membership deleted, or one to be written.
LEMMA SkipStep ==
    ASSUME Inv, UNCHANGED tables, NEW x \in Open, NEW i, Skip(x, i), tx[x].at # "status"
    PROVE  HistoryInv'
<1> DEFINE t == [tx[x] EXCEPT !.todo = @ \ {i}]
<1>1. tx' = [tx EXCEPT ![x] = t] /\ tx[x] \in Transaction /\ Sound(tx[x], today, member)
  BY SeenTypes DEF Skip, Inv, HistoryInv, Open
<1>2. /\ t.at = tx[x].at /\ t.for = tx[x].for /\ t.day = tx[x].day /\ t.mine = tx[x].mine
      /\ t.rows = tx[x].rows /\ t.next = tx[x].next /\ t.self = tx[x].self
      /\ t.todo = tx[x].todo \ {i}
  BY <1>1 DEF Transaction
<1> HIDE DEF t
<1>3. \A j \in t.todo : Waiting(t, today, Seen(x, j))
  BY <1>1, <1>2 DEF Sound, Waiting, Seen, Sees
<1>4. CASE t = None
  BY <1>1, <1>4, OwnStep
<1>5. CASE t # None
  BY <1>1, <1>2, <1>3, <1>5, FieldStep DEF Sound
<1> QED
  BY <1>4, <1>5

LEMMA DeleteStep ==
    ASSUME Inv, UNCHANGED tables, NEW x \in Open, NEW i \in Id, Delete(x, i),
           tx[x].at # "status", tx[x].next = None,
           \A d \in Past(tx[x], today) : ~Covers(Seen(x, i), d)
    PROVE  HistoryInv'
<1> DEFINE t == [tx[x] EXCEPT !.mine = @ \cup {i}, !.rows[i] = None, !.todo = @ \ {i}]
<1>1. tx' = [tx EXCEPT ![x] = t] /\ tx[x] \in Transaction /\ Sound(tx[x], today, member)
  BY SeenTypes DEF Delete, Inv, HistoryInv, Open
<1>2. /\ t.at = tx[x].at /\ t.for = tx[x].for /\ t.day = tx[x].day /\ t.mine = tx[x].mine \cup {i}
      /\ t.rows = [tx[x].rows EXCEPT ![i] = None] /\ t.next = tx[x].next /\ t.self = tx[x].self
      /\ t.todo = tx[x].todo \ {i}
      /\ tx[x].rows \in [Id -> Row \cup {None}] /\ tx[x].mine \subseteq Id
  BY <1>1 DEF Transaction
<1> HIDE DEF t
<1>3. Good(t, today, None, member[i])
  <2>1. \A d \in Past(t, today) : ~Covers(member[i], d)
    BY <1>2, SeenIsGood DEF Good, Past
  <2> QED
    BY <2>1 DEF Good, Covers
<1>4. \A j \in Id \ {i} : t.rows[j] = tx[x].rows[j] /\ Sees(t, member, j) = Sees(tx[x], member, j)
  BY <1>2 DEF Sees
<1>5. \A r, m : Good(tx[x], today, r, m) => Good(t, today, r, m)
  BY <1>2 DEF Good, Past
<1>6. \A s : Waiting(tx[x], today, s) => Waiting(t, today, s)
  BY <1>2 DEF Waiting
<1>7. Sound(t, today, member)
  <2>1. \A j \in t.mine : Good(t, today, t.rows[j], member[j])
    BY <1>1, <1>2, <1>3, <1>4, <1>5 DEF Sound
  <2>2. \A j \in t.todo : Waiting(t, today, Sees(t, member, j))
    BY <1>1, <1>2, <1>4, <1>6 DEF Sound, Transaction
  <2> QED
    BY <1>1, <1>2, <2>1, <2>2 DEF Sound
<1>8. \A j \in Id : Makes(t, j) => Makes(tx[x], j)
  BY <1>2, <1>4 DEF Makes
<1> QED
  BY <1>1, <1>2, <1>7, <1>8, OwnStep

LEMMA WriteStep ==
    ASSUME Inv, UNCHANGED tables, NEW x \in Open, NEW i \in Id, NEW r, Write(x, i, r),
           tx[x].at # "status", Good(tx[x], today, r, member[i]),
           tx[x].next = None,
           member[i] = None => Makes(tx[x], i) \/ i \in Fresh
    PROVE  HistoryInv'
<1> DEFINE t == [tx[x] EXCEPT !.mine = @ \cup {i}, !.rows[i] = Seen(x, i), !.next = [id |-> i, row |-> r]]
<1>1. tx' = [tx EXCEPT ![x] = t] /\ tx[x] \in Transaction /\ Sound(tx[x], today, member)
  BY SeenTypes DEF Write, Inv, HistoryInv, Open
<1>2. /\ t.at = tx[x].at /\ t.for = tx[x].for /\ t.day = tx[x].day /\ t.mine = tx[x].mine \cup {i}
      /\ t.rows = [tx[x].rows EXCEPT ![i] = Seen(x, i)] /\ t.next = [id |-> i, row |-> r]
      /\ t.self = tx[x].self /\ t.todo = tx[x].todo
      /\ tx[x].rows \in [Id -> Row \cup {None}] /\ tx[x].mine \subseteq Id
  BY <1>1 DEF Transaction
<1> HIDE DEF t
<1>3. \A j \in Id : j \in t.mine => t.rows[j] = Seen(x, j)
  BY <1>2 DEF Seen
<1>4. \A j \in Id : Sees(t, member, j) = Sees(tx[x], member, j)
  BY <1>2, <1>3 DEF Sees, Seen
<1>5. \A s, m : Good(tx[x], today, s, m) => Good(t, today, s, m)
  BY <1>2 DEF Good, Past
<1>6. \A s : Waiting(tx[x], today, s) => Waiting(t, today, s)
  BY <1>2 DEF Waiting
<1>7. Sound(t, today, member)
  <2>1. \A j \in t.mine : Good(t, today, t.rows[j], member[j])
    BY <1>2, <1>3, <1>5, SeenIsGood
  <2>2. \A j \in t.todo : Waiting(t, today, Sees(t, member, j))
    BY <1>1, <1>2, <1>4, <1>6 DEF Sound, Transaction
  <2> QED
    BY <1>1, <1>2, <1>5, <2>1, <2>2 DEF Sound
<1>8. \A j \in Id : member[j] = None /\ Makes(t, j) => Makes(tx[x], j) \/ j \in Fresh
  <2> SUFFICES ASSUME NEW j \in Id, member[j] = None, Makes(t, j)
               PROVE  Makes(tx[x], j) \/ j \in Fresh
    OBVIOUS
  <2>1. CASE j = i
    BY <2>1
  <2>2. CASE j # i
    BY <2>2, <1>2 DEF Makes
  <2> QED
    BY <2>1, <2>2
<1>9. CASE t = None
  BY <1>1, <1>9, OwnStep
<1>10. CASE t # None
  BY <1>1, <1>2, <1>7, <1>8, <1>10, OwnStep
<1> QED
  BY <1>9, <1>10

\* Of what is seen only the last day is written, and the days past are covered
\* as before.
LEMMA Rewriting ==
    ASSUME Inv, NEW x \in Open, NEW i \in Id, Seen(x, i) # None, NEW v \in 1..Forever,
           \A d \in Past(tx[x], today) : Seen(x, i).from <= d => (d <= v <=> d <= Seen(x, i).to),
           v >= today \/ (Seen(x, i).team = tx[x].for.about /\ tx[x].self # None)
    PROVE  /\ Good(tx[x], today, [Seen(x, i) EXCEPT !.to = v], member[i])
           /\ member[i] = None => Makes(tx[x], i)
<1> DEFINE s == Seen(x, i)
           r == [s EXCEPT !.to = v]
<1>1. s \in Row /\ member[i] \in Row \cup {None} /\ Good(tx[x], today, s, member[i])
  BY SeenTypes, SeenIsGood DEF Inv, Types, Typed, Open
<1>2. r \in Draft /\ r.team = s.team /\ r.person = s.person /\ r.from = s.from /\ r.to = v
  BY <1>1 DEF Row, Draft
<1>3. s # None /\ r # None
  BY <1>2, NoneAssumption
<1> HIDE DEF r
<1>4. \A d \in Past(tx[x], today) : Covers(r, d) <=> Covers(member[i], d)
  BY <1>1, <1>2, <1>3 DEF Covers, Good
<1>5. member[i] = None => Makes(tx[x], i)
  BY <1>3 DEF Makes, Seen
<1> HIDE DEF s
<1>6. Good(tx[x], today, r, member[i])
  BY <1>1, <1>2, <1>3, <1>4 DEF Good, s
<1> QED
  BY <1>5, <1>6 DEF r, s

\* The statements about the members.
LEMMA MemberStep ==
    ASSUME Inv, NEW x \in Slot,
           \/ CheckMembers(x) \/ ReadMembers(x) \/ ClosedUnwanted(x) \/ Aborted(x)
           \/ \E i \in Id : DropLater(x, i) \/ CutToday(x, i) \/ CloseUnwanted(x, i)
           \/ \E p \in Worker : AddTeamMember(x, p)
    PROVE  HistoryInv'
<1>1. /\ x \in Open /\ tx[x] # None /\ UNCHANGED tables /\ tx[x] \in Transaction /\ tx[x].for \in Request
      /\ Sound(tx[x], today, member) /\ Sensible(tx[x], worker)
      /\ \A i \in Id : Seen(x, i) \in Row \cup {None} /\ Seen(x, i) = Sees(tx[x], member, i)
  BY SeenTypes DEF CheckMembers, ReadMembers, ClosedUnwanted, Aborted, DropLater, CutToday, CloseUnwanted,
         AddTeamMember, At, Open, Inv, HistoryInv, Seen, Sees
<1>2. CASE Aborted(x)
  BY <1>1, <1>2, EndStep DEF Aborted
<1>3. CASE CheckMembers(x)
  <2>1. tx[x].self # None
    BY <1>1, <1>3 DEF CheckMembers, At, Sound
  <2> QED
    BY <1>1, <1>3, <2>1, EndStep, GoesStep DEF CheckMembers
<1>4. CASE ClosedUnwanted(x)
  <2>1. tx[x].self # None /\ tx[x].for.want # None
    BY <1>1, <1>4 DEF ClosedUnwanted, At, Sound
  <2>2. Goes(x, "commit") \/ Goes(x, "add")
    BY <1>4 DEF ClosedUnwanted
  <2> QED
    BY <1>1, <2>1, <2>2, GoesStep
<1>5. CASE ReadMembers(x)
  <2> DEFINE has == {i \in Rows(x) : Seen(x, i).team = About(x) /\ Seen(x, i).to >= tx[x].for.from}
             rest == {i \in has : Seen(x, i).person \notin tx[x].for.want}
             join == tx[x].for.want \ {Seen(x, i).person : i \in has}
             t == [tx[x] EXCEPT !.at = "close", !.todo = rest, !.join = join]
  <2>1. tx' = [tx EXCEPT ![x] = t]
    BY <1>5 DEF ReadMembers
  <2>2. /\ t.at = "close" /\ t.for = tx[x].for /\ t.day = tx[x].day /\ t.mine = tx[x].mine
        /\ t.rows = tx[x].rows /\ t.next = tx[x].next /\ t.self = tx[x].self /\ t.todo = rest
    BY <1>1 DEF Transaction
  <2>3. rest \subseteq Rows(x)
    OBVIOUS
  <2>4. tx[x].self # None /\ tx[x].for.want # None
    BY <1>1, <1>5 DEF ReadMembers, At, Sound, Sensible
  <2>5. ASSUME NEW i \in rest
        PROVE  Waiting(t, today, Seen(x, i))
    <3>1. Seen(x, i).team = tx[x].for.about /\ Seen(x, i).to >= tx[x].for.from
      BY DEF About
    <3>2. Seen(x, i) \in Row
      BY <1>1 DEF Rows
    <3>3. Seen(x, i).to \in Int /\ tx[x].for.from \in Int
      BY <1>1, <3>2 DEF Row, Draft, Request, Day
    <3> QED
      BY <2>2, <3>1, <3>3 DEF Waiting
  <2> HIDE DEF rest, t
  <2>6. CASE t = None
    BY <1>1, <2>1, <2>6, OwnStep
  <2>7. CASE t # None
    BY <1>1, <2>1, <2>2, <2>3, <2>4, <2>5, <2>7, FieldStep
  <2> QED
    BY <2>6, <2>7
<1>6. ASSUME NEW i \in Id, DropLater(x, i)
      PROVE  HistoryInv'
  <2>1. tx[x].at = "drop" /\ tx[x].next = None /\ i \in tx[x].todo /\ Delete(x, i)
    BY <1>6 DEF DropLater, At
  <2>2. Seen(x, i) # None => Seen(x, i).from > today /\ Seen(x, i).from \in Int
    BY <1>1, <2>1 DEF Sound, Waiting, Row, Draft, Day
  <2>3. \A d \in Past(tx[x], today) : ~Covers(Seen(x, i), d)
    BY <2>2 DEF Past, Covers, Day, Inv, Types, Typed
  <2> QED
    BY <1>1, <2>1, <2>3, DeleteStep
<1>7. ASSUME NEW i \in Id, CutToday(x, i)
      PROVE  HistoryInv'
  <2>1. tx[x].at = "cut" /\ tx[x].next = None /\ tx[x].day = today
    BY <1>1, <1>7 DEF CutToday, At, Sound
  <2>2. CASE Skip(x, i)
    BY <1>1, <2>1, <2>2, SkipStep
  <2>3. CASE ~Skip(x, i)
    <3>1. /\ Seen(x, i) # None /\ ~(Seen(x, i).to <= today)
          /\ Write(x, i, [Seen(x, i) EXCEPT !.to = today])
      BY <1>7, <2>1, <2>3 DEF CutToday
    <3>2. Seen(x, i) \in Row /\ today \in Day
      BY <1>1, <3>1 DEF Inv, Types, Typed
    <3>3. today \in 1..Forever /\ today >= today
      BY <3>2, BoundAssumption DEF Day, Forever
    <3>4. \A d \in Past(tx[x], today) : d <= today <=> d <= Seen(x, i).to
      BY <3>1, <3>2, BoundAssumption DEF Past, Row, Draft, Day, Forever
    <3> QED
      BY <1>1, <2>1, <3>1, <3>3, <3>4, Rewriting, WriteStep
  <2> QED
    BY <2>2, <2>3
<1>8. ASSUME NEW i \in Id, CloseUnwanted(x, i)
      PROVE  HistoryInv'
  <2>1. /\ tx[x].at = "close" /\ tx[x].next = None /\ i \in tx[x].todo
        /\ tx[x].self # None /\ tx[x].for.want # None
    BY <1>1, <1>8 DEF CloseUnwanted, At, Sound
  <2>2. CASE Skip(x, i)
    BY <1>1, <2>1, <2>2, SkipStep
  <2>3. CASE ~Skip(x, i)
    <3>1. Seen(x, i) \in Row /\ Seen(x, i) # None
      BY <1>1, <1>8, <2>3 DEF CloseUnwanted
    <3>2. Seen(x, i).from \in Day /\ Seen(x, i).to \in 1..Forever /\ tx[x].for.from \in Day
      BY <1>1, <3>1 DEF Row, Draft, Request
    <3>3. \A d \in Past(tx[x], today) : d \in Day /\ d <= today /\ d < tx[x].for.from
      BY <2>1 DEF Past
    <3>4. CASE Seen(x, i).from >= tx[x].for.from
      <4>1. Delete(x, i)
        BY <1>8, <2>3, <3>4 DEF CloseUnwanted, StartsThen
      <4>2. \A d \in Past(tx[x], today) : ~Covers(Seen(x, i), d)
        BY <3>2, <3>3, <3>4 DEF Covers, Day
      <4> QED
        BY <1>1, <2>1, <4>1, <4>2, DeleteStep
    <3>5. CASE ~(Seen(x, i).from >= tx[x].for.from)
      <4> DEFINE v == tx[x].for.from - 1
      <4>1. Write(x, i, [Seen(x, i) EXCEPT !.to = v])
        BY <1>8, <2>3, <3>5 DEF CloseUnwanted, StartsThen
      <4>2. v \in 1..Forever
        BY <3>2, <3>5, BoundAssumption DEF Day, Forever
      <4>3. /\ Seen(x, i).team = tx[x].for.about
            /\ Seen(x, i).to >= today \/ Seen(x, i).to >= v
        BY <1>1, <2>1, <3>1 DEF Sound, Waiting
      <4>4. \A d \in Past(tx[x], today) : d <= v /\ d <= Seen(x, i).to
        BY <3>2, <3>3, <4>2, <4>3 DEF Day, Inv, Types, Typed
      <4> HIDE DEF v
      <4> QED
        BY <1>1, <2>1, <3>1, <4>1, <4>2, <4>3, <4>4, Rewriting, WriteStep
    <3> QED
      BY <3>4, <3>5
  <2> QED
    BY <2>2, <2>3
<1>9. ASSUME NEW p \in Worker, AddTeamMember(x, p)
      PROVE  HistoryInv'
  <2>1. CASE Refused(x)
    BY <1>1, <2>1, EndStep
  <2>2. CASE ~Refused(x)
    <3> DEFINE r == [team |-> About(x), person |-> p, from |-> tx[x].for.from, to |-> Forever]
    <3>1. PICK i \in Fresh : Write(x, i, r)
      BY <1>9, <2>2 DEF AddTeamMember
    <3>2. i \in Id /\ member[i] = None
      BY <3>1 DEF Fresh
    <3>3. tx[x].at = "add" /\ tx[x].next = None /\ tx[x].for.want # None
      BY <1>1, <1>9 DEF AddTeamMember, At, Sound
    <3>4. \A d \in Past(tx[x], today) : ~(tx[x].for.from <= d)
      BY <1>1, <3>3 DEF Past, Request, Day
    <3>5. r.from = tx[x].for.from
      OBVIOUS
    <3> HIDE DEF r
    <3>6. Good(tx[x], today, r, None)
      BY <3>4, <3>5 DEF Good, Covers
    <3> QED
      BY <1>1, <3>1, <3>2, <3>3, <3>6, WriteStep
  <2> QED
    BY <2>1, <2>2
<1> QED
  BY <1>2, <1>3, <1>4, <1>5, <1>6, <1>7, <1>8, <1>9

\* The trigger lets the write through.
LEMMA CheckedStep ==
    ASSUME Inv, NEW x \in Slot, TeamMembersCheck(x)
    PROVE  HistoryInv'
<1> DEFINE i == tx[x].next.id
           r == tx[x].next.row
<1>1. /\ x \in Open /\ tx[x] # None /\ UNCHANGED tables /\ tx[x] \in Transaction
      /\ Sound(tx[x], today, member) /\ tx[x].next # None
      /\ i \in Id /\ i \in tx[x].mine /\ Good(tx[x], today, r, member[i])
  BY SeenTypes DEF TeamMembersCheck, Open, Inv, HistoryInv, Sound, Transaction
<1>2. CASE Refused(x)
  BY <1>1, <1>2, EndStep
<1>3. CASE ~Refused(x)
  <2> DEFINE join == tx[x].join \ {r.person}
             part == IF tx[x].at = "add" /\ join = {} THEN "commit" ELSE tx[x].at
             t == [tx[x] EXCEPT !.rows[i] = r, !.held = @ \cup {r.person}, !.todo = @ \ {i},
                                !.join = join, !.next = None, !.at = part]
  <2>1. tx' = [tx EXCEPT ![x] = t]
    BY <1>3 DEF TeamMembersCheck
  <2>2. part = tx[x].at \/ part = "commit"
    OBVIOUS
  <2> HIDE DEF i, r, part
  <2>3. /\ t.at = part /\ t.for = tx[x].for /\ t.day = tx[x].day /\ t.mine = tx[x].mine
        /\ t.rows = [tx[x].rows EXCEPT ![i] = r] /\ t.next = None /\ t.self = tx[x].self
        /\ t.todo = tx[x].todo \ {i}
        /\ tx[x].rows \in [Id -> Row \cup {None}] /\ tx[x].mine \subseteq Id /\ tx[x].todo \subseteq Id
    BY <1>1 DEF Transaction
  <2> HIDE DEF t
  <2>4. \A j \in Id \ {i} : t.rows[j] = tx[x].rows[j] /\ Sees(t, member, j) = Sees(tx[x], member, j)
    BY <2>3 DEF Sees
  <2>5. \A s, m : Good(tx[x], today, s, m) => Good(t, today, s, m)
    BY <2>3 DEF Good, Past
  <2>6. \A s : Waiting(tx[x], today, s) => Waiting(t, today, s)
    BY <2>2, <2>3 DEF Waiting
  <2>7. \A j \in t.mine : Good(t, today, t.rows[j], member[j])
    <3> SUFFICES ASSUME NEW j \in t.mine
                 PROVE  Good(t, today, t.rows[j], member[j])
      OBVIOUS
    <3>1. CASE j = i
      BY <1>1, <2>3, <2>5, <3>1
    <3>2. CASE j # i
      BY <1>1, <2>3, <2>4, <2>5, <3>2 DEF Sound
    <3> QED
      BY <3>1, <3>2
  <2>8. \A j \in t.todo : Waiting(t, today, Sees(t, member, j))
    BY <1>1, <2>3, <2>4, <2>6 DEF Sound
  <2>9. Sound(t, today, member)
    BY <1>1, <2>2, <2>3, <2>7, <2>8 DEF Sound
  <2>10. \A j \in Id : Makes(t, j) => Makes(tx[x], j)
    BY <1>1, <2>3, <2>4 DEF Makes, i
  <2> QED
    BY <1>1, <2>1, <2>3, <2>9, <2>10, OwnStep
<1> QED
  BY <1>2, <1>3

\* The end: who waits for what has been written finds it fit.
LEMMA CommittedStep ==
    ASSUME Inv, NEW x \in Slot, Commit(x)
    PROVE  HistoryInv'
<1>1. /\ x \in Open /\ tx[x] # None /\ tx' = [tx EXCEPT ![x] = None] /\ today' = today
      /\ member' = [i \in Id |-> Seen(x, i)]
      /\ tx[x] \in Transaction /\ Sound(tx[x], today, member)
  BY SeenTypes DEF Commit, At, Refused, Open, Inv, HistoryInv
<1>2. \A y \in Slot : tx'[y] = IF y = x THEN None ELSE tx[y]
  BY <1>1 DEF Inv, Types, Typed
<1>3. \A y \in Slot : tx[y] # None => y \in Open /\ tx[y] \in Transaction
  BY SeenTypes DEF Open, Inv
<1>4. \A y \in Open : \A i \in tx[y].mine : y # x => i \in Id /\ member'[i] = member[i]
  BY <1>1, <1>3 DEF Inv, TeamsInv, Apart, Seen, Transaction, Open
<1>5. ASSUME NEW y \in Open, y # x
      PROVE  Sound(tx[y], today, member')
  <2>1. Sound(tx[y], today, member) /\ tx[y] \in Transaction
    BY <1>3 DEF Inv, HistoryInv, Open
  <2>2. ASSUME NEW i \in tx[y].todo
        PROVE  Waiting(tx[y], today, Sees(tx[y], member', i))
    <3>1. Waiting(tx[y], today, Sees(tx[y], member, i)) /\ i \in Id
      BY <2>1 DEF Sound, Transaction
    <3>2. CASE i \in tx[y].mine \/ i \notin tx[x].mine
      BY <1>1, <3>1, <3>2 DEF Sees, Seen
    <3>3. CASE i \notin tx[y].mine /\ i \in tx[x].mine
      <4> DEFINE r == tx[x].rows[i]
      <4>1. Sees(tx[y], member', i) = r /\ Sees(tx[y], member, i) = member[i]
        BY <1>1, <3>1, <3>3 DEF Sees, Seen
      <4>2. Good(tx[x], today, r, member[i])
        BY <1>1, <3>3 DEF Sound
      <4>3. CASE r = None
        BY <4>1, <4>3 DEF Waiting
      <4>4. CASE r # None
        <5>1. member[i] # None
          BY <1>1, <1>5, <3>1, <3>3, <4>4 DEF Inv, HistoryInv, Reserved, Makes
        <5>2. /\ r.team = member[i].team /\ r.from = member[i].from
              /\ r.to = member[i].to \/ r.to >= today \/ (member[i].team = tx[x].for.about /\ tx[x].self # None)
          BY <4>2, <4>4, <5>1 DEF Good
        <5>3. tx[y].at = "drop" => r.from > today
          BY <3>1, <4>1, <5>1, <5>2 DEF Waiting
        <5>4. CASE tx[y].at = "close"
          <6>1. member[i].team = tx[y].for.about /\ tx[y].self # None
            BY <2>1, <3>1, <4>1, <5>1, <5>4 DEF Waiting, Sound
          <6>2. ~(member[i].team = tx[x].for.about /\ tx[x].self # None)
            BY <1>1, <1>5, <6>1 DEF Inv, HistoryInv, FilesApart, About
          <6>3. r.to >= today \/ r.to >= tx[y].for.from - 1
            BY <3>1, <4>1, <5>1, <5>2, <5>4, <6>2 DEF Waiting
          <6> QED
            BY <4>1, <5>2, <5>3, <6>1, <6>3 DEF Waiting
        <5> QED
          BY <4>1, <5>3, <5>4 DEF Waiting
      <4> QED
        BY <4>3, <4>4
    <3> QED
      BY <3>2, <3>3
  <2>3. \A i \in tx[y].mine : Good(tx[y], today, tx[y].rows[i], member'[i])
    BY <1>4, <1>5, <2>1 DEF Sound
  <2>4. tx[y].next # None => /\ tx[y].next.id \in tx[y].mine
                            /\ Good(tx[y], today, tx[y].next.row, member'[tx[y].next.id])
    BY <1>4, <1>5, <2>1 DEF Sound
  <2> QED
    BY <2>1, <2>2, <2>3, <2>4 DEF Sound
<1>6. FilesApart'
  BY <1>2 DEF Inv, HistoryInv, FilesApart, Open, About
<1>7. Reserved'
  <2> SUFFICES ASSUME NEW y \in Slot, NEW z \in Slot, y # z, tx'[y] # None, tx'[z] # None,
                      NEW i \in Id, member'[i] = None, Makes(tx'[y], i)
               PROVE  i \notin tx'[z].todo
    BY DEF Reserved, Open, Makes
  <2>1. y # x /\ z # x /\ y \in Open /\ z \in Open /\ tx'[y] = tx[y] /\ tx'[z] = tx[z]
    BY <1>2 DEF Open
  <2>2. i \in tx[y].mine
    BY <2>1 DEF Makes, Inv, HistoryInv, Sound
  <2>3. member[i] = None
    BY <1>4, <2>1, <2>2
  <2> QED
    BY <2>1, <2>3 DEF Inv, HistoryInv, Reserved
<1> QED
  BY <1>1, <1>2, <1>3, <1>5, <1>6, <1>7 DEF HistoryInv, Open

LEMMA BeginStep ==
    ASSUME Inv, (\E r \in unsent : Send(r)) \/ NewDay
    PROVE  HistoryInv'
<1>1. CASE NewDay
  BY <1>1 DEF NewDay, Open, HistoryInv, FilesApart, Reserved
<1>2. ASSUME NEW r \in unsent, Send(r)
      PROVE  HistoryInv'
  <2> DEFINE t == [for |-> r, day |-> today, at |-> "status", self |-> None, mine |-> {},
                   rows |-> [i \in Id |-> None], held |-> {}, todo |-> {}, join |-> {},
                   next |-> None]
  <2>1. PICK x \in Slot : tx' = [tx EXCEPT ![x] = t]
    BY <1>2 DEF Send, Open
  <2>2. Sound(t, today, member) /\ t.self = None /\ t.todo = {} /\ \A i : ~Makes(t, i)
    BY DEF Sound, Makes
  <2> HIDE DEF t
  <2>3. \A y \in Slot : tx'[y] = IF y = x THEN t ELSE tx[y]
    BY <2>1 DEF Inv, Types, Typed
  <2>4. member' = member /\ today' = today
    BY <1>2 DEF Send
  <2>5. \A y \in Slot : tx'[y] # None => Sound(tx'[y], today, member)
    BY <2>2, <2>3 DEF Inv, HistoryInv, Open
  <2>6. FilesApart'
    BY <2>2, <2>3 DEF Inv, HistoryInv, FilesApart, Open, About
  <2>7. Reserved'
    <3> SUFFICES ASSUME NEW y \in Slot, NEW z \in Slot, y # z, tx'[y] # None, tx'[z] # None,
                        NEW i \in Id, member[i] = None, Makes(tx'[y], i)
                 PROVE  i \notin tx'[z].todo
      BY <2>4 DEF Reserved, Open, Makes
    <3> QED
      BY <2>2, <2>3 DEF Inv, HistoryInv, Reserved, Open
  <2> QED
    BY <2>4, <2>5, <2>6, <2>7 DEF HistoryInv, Open
<1> QED
  BY <1>1, <1>2

LEMMA StepHolds == Inv /\ [Next]_vars => Inv'
<1> SUFFICES ASSUME Inv, [Next]_vars
             PROVE  Inv'
  OBVIOUS
<1>1. Types' /\ TeamsInv'
  BY StepTypes, StepKeeps DEF Inv
<1>2. ASSUME UNCHANGED vars
      PROVE  HistoryInv'
  <2>1. tx' = tx /\ member' = member /\ today' = today
    BY <1>2 DEF vars
  <2>2. \A x \in Open' : Sound(tx'[x], today', member')
    BY <2>1 DEF Inv, HistoryInv, Open
  <2>3. FilesApart'
    BY <2>1 DEF Inv, HistoryInv, FilesApart, Open, About
  <2>4. Reserved'
    BY <2>1 DEF Inv, HistoryInv, Reserved, Open, Makes
  <2> QED
    BY <2>2, <2>3, <2>4 DEF HistoryInv
<1>3. ASSUME NEW x \in Slot, Statement(x)
      PROVE  HistoryInv'
  BY <1>3, WorkerStep, MemberStep, CheckedStep, CommittedStep DEF Statement
<1>4. HistoryInv'
  BY <1>2, <1>3, MemberStep, BeginStep DEF Next, Inv
<1> QED
  BY <1>1, <1>4 DEF Inv

LEMMA StepStands ==
    ASSUME Inv, [Next]_vars, NEW d \in Day, d <= today, On(member', d) # On(member, d)
    PROVE  \E x \in Open : /\ tx'[x] = None
                           /\ tx[x].for.want # None /\ tx[x].for.from <= d
<1>1. member' # member
  OBVIOUS
<1>2. PICK x \in Slot : Commit(x)
  <2>1. ASSUME NEW x \in Slot, Statement(x), ~Commit(x)
        PROVE  UNCHANGED tables
    <3>1. CASE CreateEmployee(x) \/ SoftDeleteEmployee(x) \/ RestoreEmployee(x) \/ KeepStatus(x)
      BY <3>1 DEF CreateEmployee, SoftDeleteEmployee, RestoreEmployee, KeepStatus
    <3>2. CASE FindOpen(x) \/ TakenOff(x) \/ LookAtKind(x) \/ SetEmployeeKind(x) \/ UpdateEmployee(x)
      BY <3>2 DEF FindOpen, TakenOff, LookAtKind, SetEmployeeKind, UpdateEmployee
    <3>3. CASE CheckMembers(x) \/ ReadMembers(x) \/ ClosedUnwanted(x) \/ TeamMembersCheck(x)
      BY <3>3 DEF CheckMembers, ReadMembers, ClosedUnwanted, TeamMembersCheck
    <3>4. CASE \E i \in Id : DropLater(x, i) \/ CutToday(x, i) \/ CloseUnwanted(x, i)
      BY <3>4 DEF DropLater, CutToday, CloseUnwanted
    <3>5. CASE \E p \in Worker : AddTeamMember(x, p)
      BY <3>5 DEF AddTeamMember
    <3> QED
      BY <2>1, <3>1, <3>2, <3>3, <3>4, <3>5 DEF Statement
  <2>2. \A x \in Slot : Aborted(x) => UNCHANGED tables
    BY DEF Aborted
  <2>3. (\E r \in unsent : Send(r)) \/ NewDay \/ UNCHANGED vars => member' = member
    BY DEF Send, NewDay, vars
  <2>4. UNCHANGED tables => member' = member
    BY DEF tables
  <2> QED
    BY <1>1, <2>1, <2>2, <2>3, <2>4 DEF Next
<1>3. /\ x \in Open /\ tx'[x] = None /\ member' = [i \in Id |-> Seen(x, i)]
      /\ tx[x] \in Transaction /\ tx[x].for \in Request
  BY <1>2, SeenTypes DEF Commit, At, Refused, Open, Inv, Types, Typed
<1>4. CASE d \in Past(tx[x], today)
  <2>1. \A i \in Id : /\ Covers(member'[i], d) <=> Covers(member[i], d)
                      /\ Covers(member[i], d) => /\ member'[i].team = member[i].team
                                                 /\ member'[i].person = member[i].person
    BY <1>3, <1>4, SeenIsGood DEF Good, Covers
  <2>2. {j \in Id : Covers(member'[j], d)} = {j \in Id : Covers(member[j], d)}
    BY <2>1
  <2>3. On(member', d) = On(member, d)
    <3> DEFINE C == {j \in Id : Covers(member[j], d)}
    <3>1. On(member, d) = {<<member[i].team, member[i].person>> : i \in C}
      BY DEF On, Covers
    <3>2. On(member', d) = {<<member'[i].team, member'[i].person>> : i \in {j \in Id : Covers(member'[j], d)}}
      BY DEF On, Covers
    <3>3. On(member', d) = {<<member'[i].team, member'[i].person>> : i \in C}
      BY <3>2, <2>2
    <3>4. \A i \in C : member'[i].team = member[i].team /\ member'[i].person = member[i].person
      BY <2>1
    <3> HIDE DEF C
    <3> QED
      BY <3>1, <3>3, <3>4
  <2> QED
    BY <2>3
<1>5. CASE d \notin Past(tx[x], today)
  BY <1>3, <1>5 DEF Past, Request, Day
<1> QED
  BY <1>4, <1>5

(***************************************************************************)
(* The days up to today keep their teams, but for a request that names     *)
(* members from such a day on.                                             *)
(***************************************************************************)
THEOREM HistoryIsKept == Spec => HistoryStands
<1>1. Init => Inv
  BY InitTypes, InitHolds DEF Inv, HistoryInv, FilesApart, Reserved, Open, Init
<1>2. Spec => []Inv
  BY <1>1, StepHolds, PTL DEF Spec
<1>3. Inv /\ [Next]_vars =>
        [\A d \in Day : d <= today /\ On(member', d) # On(member, d) =>
            \E x \in Open : /\ tx'[x] = None
                            /\ tx[x].for.want # None /\ tx[x].for.from <= d]_vars
  BY StepStands
<1> QED
  BY <1>2, <1>3, PTL DEF Spec, HistoryStands
=============================================================================
