------------------------------- MODULE Teams --------------------------------
(***************************************************************************)
(* Teams: workers of a kind of their own that are paid as one, and the     *)
(* people who belong to them, from one day to another.                     *)
(*                                                                         *)
(* Everything that changes a membership is one request about one worker,   *)
(* from a form or from an assistant: it creates the worker, takes them off *)
(* the payroll or back on, makes a person a team, and names the members of *)
(* a team from a day on, alone or together.                                *)
(*                                                                         *)
(* A request is one transaction of PostgreSQL, statement by statement: a   *)
(* statement sees what is committed when it begins, rows it writes are     *)
(* locked until the end, and a trigger looks at each membership that is    *)
(* written, one person at a time.                                          *)
(***************************************************************************)
EXTENDS Integers, FiniteSets

CONSTANTS
    Worker,       \* employees
    LastDay,      \* bound: days
    Slot,         \* bound: transactions open at a time
    MaxRow,       \* bound: memberships ever written
    Agenda,       \* bound: what may be asked, one set of requests or another
    None          \* nothing: no row, no request, no list of members

Day == 1..LastDay
Forever == LastDay + 1          \* to_day of who is still in the team

Id == 1..MaxRow

\* POST ("new") and DELETE ("delete") of a worker, and PATCH, whose body changes
\* the status or keeps it: what is not mentioned is "keep", or None.  A number
\* tells two requests of the same content apart.
Request ==
    [number : Nat, about : Worker, status : {"new", "delete", "keep", "active", "inactive"},
     kind : {"keep", "persona", "equipo"}, want : {None} \cup SUBSET Worker, from : Day]

ASSUME BoundAssumption == LastDay \in Nat \ {0} /\ MaxRow \in Nat
ASSUME AgendaAssumption == Agenda \subseteq SUBSET Request

VARIABLES
    worker,       \* employees, by id, None for who is not there yet
    member,       \* team_members, by id
    tx,           \* the transactions that are open, by slot
    unsent,       \* the requests that have not been sent
    today         \* the day in the farm

vars == <<worker, member, tx, unsent, today>>

-----------------------------------------------------------------------------
(* Types. *)

File == [kind : {"persona", "equipo"}, live : BOOLEAN]

\* What is asked to be written, and what the table takes of it (the CHECK of
\* team_members).
Draft == [team : Worker, person : Worker, from : Day, to : 1..Forever]
Row == {r \in Draft : r.from <= r.to}

ASSUME NoneAssumption ==
    None \notin Draft /\ None \notin File

\* The part of the request a transaction is at.  drop and cut are the two
\* statements that end the memberships of somebody taken off the payroll, close
\* and add the two loops that set the members of a team.
Part == {"status", "drop", "cut", "kind", "rekind", "own", "check", "read", "close", "add", "commit"}

Transaction ==
    [for : Request, day : Day, at : Part,
     self : File \cup {None},           \* the row of the worker, once written
     mine : SUBSET Id,                  \* the memberships it has locked
     rows : [Id -> Row \cup {None}],    \* and what they are to it
     held : SUBSET Worker,              \* the people nobody else may place meanwhile
     todo : SUBSET Id,                  \* memberships the statement has yet to come to
     join : SUBSET Worker,              \* people who have yet to join
     next : [id : Id, row : Draft] \cup {None}]   \* the write the trigger is to look at

-----------------------------------------------------------------------------
(* What a transaction sees, and waits for. *)

Open == {x \in Slot : tx[x] # None}

About(x) == tx[x].for.about
At(x, part) == tx[x] # None /\ tx[x].at = part /\ tx[x].next = None

\* The row of the worker e, to x: with what x has written of it.
FileOf(x, e) == IF e = About(x) /\ tx[x].self # None THEN tx[x].self ELSE worker[e]

\* The membership i, to x.
Seen(x, i) == IF i \in tx[x].mine THEN tx[x].rows[i] ELSE member[i]

Rows(x) == {i \in Id : Seen(x, i) # None}

\* Mutant: the row of the worker is not locked.
AnybodyWrites(x) == TRUE

\* Nobody else has written the worker x is about.
FileIsFree(x) == \A y \in Open \ {x} : tx[y].self = None \/ About(y) # About(x)

RowIsFree(x, i) == \A y \in Open \ {x} : i \notin tx[y].mine

\* An id nobody knows.  Bound: MaxRow of them.
Fresh ==
    LET unused == {i \in Id : member[i] = None /\ \A y \in Open : i \notin tx[y].mine \cup tx[y].todo}
    IN {i \in unused : \A j \in unused : i <= j}

Meet(r, s) == r.from <= s.to /\ s.from <= r.to

-----------------------------------------------------------------------------
(* The statements. *)

Refused(x) == tx' = [tx EXCEPT ![x] = None]

Goes(x, part) == tx' = [tx EXCEPT ![x].at = part]

\* The membership i is deleted, or is to be written as r if the trigger lets it.
Delete(x, i) ==
    tx' = [tx EXCEPT ![x].mine = @ \cup {i}, ![x].rows[i] = None, ![x].todo = @ \ {i}]
Write(x, i, r) ==
    tx' = [tx EXCEPT ![x] =
        [tx[x] EXCEPT !.mine = @ \cup {i}, !.rows[i] = Seen(x, i), !.next = [id |-> i, row |-> r]]]
Skip(x, i) == tx' = [tx EXCEPT ![x].todo = @ \ {i}]

tables == <<worker, member, unsent, today>>

\* A membership that has not started.
Later(r, day) == r.from > day

\* The memberships of a worker taken off the payroll, as a team or as a member.
Concerns(x, r) == About(x) \in {r.team, r.person}

\* handleCreateWorker.  Who is there already, or is once the other copy of the
\* request has committed, is not written again, and nor are the members.
CreateEmployee(x) ==
    /\ At(x, "status")
    /\ tx[x].for.status = "new"
    /\ \/ /\ worker[About(x)] = None
          /\ FileIsFree(x)
          /\ tx' = [tx EXCEPT
                ![x].self = [kind |-> IF tx[x].for.kind = "equipo" THEN "equipo" ELSE "persona",
                             live |-> TRUE],
                ![x].at = IF tx[x].for.kind = "equipo" /\ tx[x].for.want \notin {None, {}}
                          THEN "check" ELSE "commit"]
       \/ worker[About(x)] # None /\ Refused(x)
    /\ UNCHANGED tables

\* applyWorkerStatus and handleDeleteWorker: only the second minds that there is
\* nothing to take off.  The list of what starts later is read with it.
SoftDeleteEmployee(x) ==
    /\ At(x, "status")
    /\ tx[x].for.status \in {"inactive", "delete"}
    /\ LET live == worker[About(x)].live IN
        /\ live => FileIsFree(x)
        /\ IF ~live /\ tx[x].for.status = "delete" THEN Refused(x)
           ELSE tx' = [tx EXCEPT ![x].at = "drop",
                  ![x].self = IF live THEN [worker[About(x)] EXCEPT !.live = FALSE] ELSE None,
                  ![x].todo = {i \in Rows(x) : Concerns(x, Seen(x, i)) /\ Later(Seen(x, i), tx[x].day)}]
    /\ UNCHANGED tables

RestoreEmployee(x) ==
    /\ At(x, "status")
    /\ tx[x].for.status = "active"
    /\ FileIsFree(x)
    /\ tx' = [tx EXCEPT ![x].at = "kind", ![x].self = [worker[About(x)] EXCEPT !.live = TRUE]]
    /\ UNCHANGED tables

KeepStatus(x) ==
    /\ At(x, "status")
    /\ tx[x].for.status = "keep"
    /\ Goes(x, "kind")
    /\ UNCHANGED tables

\* CloseMemberships, first statement: what has not started is taken off.
DropLater(x, i) ==
    /\ At(x, "drop")
    /\ i \in tx[x].todo
    /\ RowIsFree(x, i)
    /\ Delete(x, i)
    /\ UNCHANGED tables

\* Its second statement finds what goes on past today.
FindOpen(x) ==
    /\ At(x, "drop")
    /\ tx[x].todo = {}
    /\ tx' = [tx EXCEPT ![x].at = "cut",
              ![x].todo = {i \in Rows(x) : Concerns(x, Seen(x, i)) /\ Seen(x, i).to > tx[x].day}]
    /\ UNCHANGED tables

\* And ends it today, unless somebody else did meanwhile.
CutToday(x, i) ==
    /\ At(x, "cut")
    /\ i \in tx[x].todo
    /\ RowIsFree(x, i)
    /\ IF Seen(x, i) = None \/ Seen(x, i).to <= tx[x].day
       THEN Skip(x, i)
       ELSE Write(x, i, [Seen(x, i) EXCEPT !.to = tx[x].day])
    /\ UNCHANGED tables

TakenOff(x) ==
    /\ At(x, "cut")
    /\ tx[x].todo = {}
    /\ Goes(x, IF tx[x].for.status = "delete" THEN "commit" ELSE "kind")
    /\ UNCHANGED tables

\* SetEmployeeKind: only who is in no team, and has nobody in it, changes kind.
LookAtKind(x) ==
    /\ At(x, "kind")
    /\ LET is == FileOf(x, About(x)).kind
           has == {i \in Rows(x) : About(x) = IF is = "persona" THEN Seen(x, i).person
                                                               ELSE Seen(x, i).team}
       IN IF tx[x].for.kind \in {"keep", is} THEN Goes(x, "own")
          ELSE IF has = {} THEN Goes(x, "rekind") ELSE Refused(x)
    /\ UNCHANGED tables

SetEmployeeKind(x) ==
    /\ At(x, "rekind")
    /\ FileIsFree(x)
    /\ tx' = [tx EXCEPT ![x].at = "own", ![x].self = [FileOf(x, About(x)) EXCEPT !.kind = tx[x].for.kind]]
    /\ UNCHANGED tables

\* The other columns: they are not modelled, that the row is locked is.  Who is
\* off the payroll has none to change; to have just been taken off it is enough.
UpdateEmployee(x) ==
    /\ At(x, "own")
    /\ LET file == FileOf(x, About(x)) IN
        \/ /\ file.live
           /\ FileIsFree(x)
           /\ tx' = [tx EXCEPT ![x].self = file,
                     ![x].at = IF tx[x].for.want = None THEN "commit" ELSE "check"]
        \/ ~file.live /\ tx[x].for.status = "inactive" /\ Goes(x, "commit")
        \/ ~file.live /\ tx[x].for.status # "inactive" /\ Refused(x)
    /\ UNCHANGED tables

\* SetTeamMembers: a team that is on the payroll, and people who are.
CheckMembers(x) ==
    /\ At(x, "check")
    /\ IF /\ FileOf(x, About(x)) = [kind |-> "equipo", live |-> TRUE]
          /\ \A p \in tx[x].for.want :
                p # About(x) /\ FileOf(x, p) = [kind |-> "persona", live |-> TRUE]
       THEN Goes(x, "read") ELSE Refused(x)
    /\ UNCHANGED tables

\* The members on or after that day: who is not wanted is to leave, and who is
\* not among them is to join.
ReadMembers(x) ==
    /\ At(x, "read")
    /\ LET has == {i \in Rows(x) : Seen(x, i).team = About(x) /\ Seen(x, i).to >= tx[x].for.from}
       IN tx' = [tx EXCEPT ![x].at = "close",
                 ![x].todo = {i \in has : Seen(x, i).person \notin tx[x].for.want},
                 ![x].join = tx[x].for.want \ {Seen(x, i).person : i \in has}]
    /\ UNCHANGED tables

\* Mutant: whoever starts on the day itself is told to leave before it.
HasNotStarted(r, day) == r.from > day

\* There is nothing of this membership before the day.
StartsThen(r, day) == r.from >= day

\* Who leaves does so the day before.
CloseUnwanted(x, i) ==
    /\ At(x, "close")
    /\ i \in tx[x].todo
    /\ RowIsFree(x, i)
    /\ IF Seen(x, i) = None THEN Skip(x, i)
       ELSE IF StartsThen(Seen(x, i), tx[x].for.from) THEN Delete(x, i)
       ELSE Write(x, i, [Seen(x, i) EXCEPT !.to = tx[x].for.from - 1])
    /\ UNCHANGED tables

ClosedUnwanted(x) ==
    /\ At(x, "close")
    /\ tx[x].todo = {}
    /\ Goes(x, IF tx[x].join = {} THEN "commit" ELSE "add")
    /\ UNCHANGED tables

\* Who joins is looked for in other teams first.  The order is that of a Go map.
AddTeamMember(x, p) ==
    /\ At(x, "add")
    /\ p \in tx[x].join
    /\ \/ /\ \E i \in Rows(x) : /\ Seen(x, i).person = p /\ Seen(x, i).team # About(x)
                                /\ Seen(x, i).to >= tx[x].for.from
          /\ Refused(x)
       \/ /\ \A i \in Rows(x) : Seen(x, i).person = p /\ Seen(x, i).team # About(x)
                                => Seen(x, i).to < tx[x].for.from
          /\ \E i \in Fresh :
                Write(x, i, [team |-> About(x), person |-> p, from |-> tx[x].for.from, to |-> Forever])
    /\ UNCHANGED tables

\* What the constraints and the trigger ask of a membership r with id i, to x.
Fits(x, i, r) ==
    /\ r.from <= r.to
    /\ FileOf(x, r.team).kind = "equipo"
    /\ FileOf(x, r.person).kind = "persona"
    /\ \A j \in Rows(x) \ {i} : Seen(x, j).person = r.person => ~Meet(Seen(x, j), r)

\* Mutant: the trigger looks without its lock.
NobodyWaits(x) == TRUE

\* The advisory lock: nobody else is placing the same person.
NobodyElsePlaces(x) == \A y \in Open \ {x} : tx[x].next.row.person \notin tx[y].held

\* The trigger: the lock, and then the look.
TeamMembersCheck(x) ==
    /\ tx[x] # None
    /\ tx[x].next # None
    /\ NobodyElsePlaces(x)
    /\ LET i == tx[x].next.id  r == tx[x].next.row  join == tx[x].join \ {r.person} IN
       IF Fits(x, i, r)
       THEN tx' = [tx EXCEPT ![x].rows[i] = r, ![x].held = @ \cup {r.person}, ![x].todo = @ \ {i},
                             ![x].join = join, ![x].next = None,
                             ![x].at = IF @ = "add" /\ join = {} THEN "commit" ELSE @]
       ELSE Refused(x)
    /\ UNCHANGED tables

Commit(x) ==
    /\ At(x, "commit")
    /\ member' = [i \in Id |-> Seen(x, i)]
    /\ worker' = [e \in Worker |-> FileOf(x, e)]
    /\ Refused(x)
    /\ UNCHANGED <<unsent, today>>

\* The connection breaks, or the transaction is the one that a ring of waiting
\* transactions is broken at: nothing is kept.
Aborted(x) ==
    /\ tx[x] # None
    /\ Refused(x)
    /\ UNCHANGED tables

-----------------------------------------------------------------------------
(* The people at the console, and the days. *)

Send(r) ==
    /\ r \in unsent
    /\ r.status = "new" \/ worker[r.about] # None
    /\ \E x \in Slot \ Open :
        /\ \A y \in Slot \ Open : x <= y
        /\ tx' = [tx EXCEPT ![x] =
            [for |-> r, day |-> today, at |-> "status", self |-> None, mine |-> {},
             rows |-> [i \in Id |-> None], held |-> {}, todo |-> {}, join |-> {},
             next |-> None]]
    /\ unsent' = unsent \ {r}
    /\ UNCHANGED <<worker, member, today>>

\* Bound: no request is under way at midnight.
NewDay ==
    /\ today < LastDay
    /\ Open = {}
    /\ today' = today + 1
    /\ UNCHANGED <<worker, member, tx, unsent>>

\* Somebody may be in a team already, from the first day on.
Init ==
    /\ unsent \in Agenda
    /\ worker \in {w \in [Worker -> {f \in File : f.live} \cup {None}] :
                     \A e \in Worker : w[e] = None <=> \E r \in unsent : r.about = e /\ r.status = "new"}
    /\ member \in {[i \in Id |-> IF i = 1 THEN r ELSE None] :
                     r \in {None} \cup {r \in Row : /\ r.from = 1 /\ r.to = Forever
                                                    /\ worker[r.team] = [kind |-> "equipo", live |-> TRUE]
                                                    /\ worker[r.person] = [kind |-> "persona", live |-> TRUE]}}
    /\ tx = [x \in Slot |-> None]
    /\ today = 1

Statement(x) ==
    \/ CreateEmployee(x) \/ SoftDeleteEmployee(x) \/ RestoreEmployee(x) \/ KeepStatus(x) \/ FindOpen(x) \/ TakenOff(x)
    \/ LookAtKind(x) \/ SetEmployeeKind(x) \/ UpdateEmployee(x) \/ CheckMembers(x)
    \/ ReadMembers(x) \/ ClosedUnwanted(x) \/ TeamMembersCheck(x) \/ Commit(x)
    \/ \E i \in Id : DropLater(x, i) \/ CutToday(x, i) \/ CloseUnwanted(x, i)
    \/ \E p \in Worker : AddTeamMember(x, p)

Next ==
    \/ \E x \in Slot : Statement(x) \/ Aborted(x)
    \/ \E r \in unsent : Send(r)
    \/ NewDay

Spec == Init /\ [][Next]_vars

-----------------------------------------------------------------------------
(* Properties. *)

\* A list of members asks for no membership that ends before it begins: one that has
\* not started by the day it names is taken off.  (To take somebody off the payroll
\* may ask for one, of a membership that was added between its two statements.)
Orderly(t) == t.next # None /\ t.at # "cut" => t.next.row.from <= t.next.row.to

\* Every variable holds values of the kinds the code stores in it; no membership ends
\* before it begins, and no list of members asks for one that would.
TypeOK ==
    /\ worker \in [Worker -> File \cup {None}]
    /\ member \in [Id -> Row \cup {None}]
    /\ tx \in [Slot -> Transaction \cup {None}]
    /\ unsent \subseteq Request
    /\ today \in Day
    /\ \A x \in Open : Orderly(tx[x])

\* A person is in one team on a day, though teams look for each other's members
\* before they wait for each other, and though requests that plan, end and
\* shorten memberships overlap (team_members_check).
OneTeamADay ==
    \A i, j \in Id :
        /\ i # j /\ member[i] # None /\ member[j] # None
        /\ member[i].person = member[j].person
        => ~Meet(member[i], member[j])

\* Who is in which team on the day d, given the rows m.
On(m, d) == {<<m[i].team, m[i].person>> : i \in {j \in Id : m[j] # None /\ m[j].from <= d /\ d <= m[j].to}}

\* The days that were picked and weighed keep their teams: what a request
\* changes of them is not before the day it names, and who is taken off the
\* payroll stays in the team of that day (SetTeamMembers, CloseMemberships).
\* A membership is written as it was when a request looked for it, and may have
\* been shortened since: that this never lengthens the past rests on the row of
\* the team, which every request that names its members has locked before it
\* looks (UpdateEmployee, and CreateEmployee for a team that is new).
HistoryStands ==
    [][\A d \in Day : d <= today /\ On(member', d) # On(member, d) =>
        \E x \in Open : /\ tx'[x] = None
                        /\ tx[x].for.want # None /\ tx[x].for.from <= d]_vars

=============================================================================
