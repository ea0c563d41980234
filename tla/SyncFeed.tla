----------------------------- MODULE SyncFeed -----------------------------
(***************************************************************************)
(* The change feed of one farm and the handsets that follow it.            *)
(*                                                                         *)
(* Every write of a table the phones know appends one row to sync_log from *)
(* a trigger: the row draws its seq when the statement runs and is seen by *)
(* others when its transaction commits, so the two orders differ.  A pull  *)
(* carries one integer, the cursor; the server answers with what the feed  *)
(* holds above it, minus what the caller's role may not see, and keeps in  *)
(* sync_readers the role it served each (account, device) under, to send a *)
(* reader back to 0 when its cursor was earned under another role or by    *)
(* another account.  PruneSync deletes superseded feed rows.               *)
(*                                                                         *)
(* The handset is not in this repository; what it does with an answer is   *)
(* what openapi.yaml asks of it, and is marked external.  It names itself  *)
(* when it pulls: the reader that unnamed clients of an account share is   *)
(* left out.                                                               *)
(***************************************************************************)
EXTENDS Integers, FiniteSets, FiniteSetsExt, Sequences

CONSTANTS
    Account,      \* users of the farm
    Device,       \* handsets, numbered: the registry is read in device order
    Farm,         \* what the farm may be at first, and how much may happen on it
    Tx,           \* write transactions
    Plain,        \* rows every role is sent: workers, plots, work records
    Money,        \* rows only owner and admin are sent
    MaxSeq,       \* bound: seqs drawn
    PageSize,     \* the pull's limit
    Committed     \* the owner of a feed row whose transaction committed

Row == Plain \cup Money
Role == {"admin", "weigher"}
Reason == {"device_unknown", "role_changed", "device_reassigned"}

ASSUME DeviceAssumption == Device \subseteq Nat /\ IsFiniteSet(Device)
ASSUME RowAssumption == Plain \cap Money = {}
ASSUME BoundAssumption == MaxSeq \in Nat /\ PageSize \in Nat \ {0}
ASSUME CommittedAssumption == Committed \notin Tx

\* Of a farm: who is signed in on each handset, the role of each account, the
\* handsets that consumed the feed before sync_readers existed, the rows it had when
\* the feed was created, in order; and, as bounds, how often a role may change, a
\* handset change hands, and a commit fail behind the answer.
ASSUME FarmAssumption ==
    \A f \in Farm :
        /\ f.holder \in [Device -> Account] /\ f.role \in [Account -> Role]
        /\ f.legacy \subseteq Device
        /\ f.feed \in Seq(Row) /\ Len(f.feed) <= MaxSeq
        /\ f.turns \in Nat /\ f.logins \in Nat /\ f.fails \in Nat

VARIABLES
    seq,          \* the last seq the sequence handed out
    table,        \* the tables the phones know: by row, the seq of its last write
    log,          \* sync_log: by seq, the row it names and whose transaction wrote it
    readers,      \* sync_readers, by account and device
    role,         \* the role on each account's token
    phone,        \* the handsets: who is signed in, cursor, and rows held
    left,         \* how often roles and hands may still change, and commits fail
    \* History, which no action reads.
    overtaken,    \* by handset: seqs in flight when its cursor went past them
    misread,      \* handsets whose row of the registry is not of what they hold
    spared        \* handsets left with money that no order would have dropped

history == <<overtaken, misread, spared>>
vars == <<seq, table, log, readers, role, phone, left, history>>

-----------------------------------------------------------------------------
(* Types. *)

Reader == [role : Role, pending : Reason \cup {"none"}, purge : BOOLEAN]
NoReader == [role |-> "none", pending |-> "none", purge |-> FALSE]

\* A handset holds, of each row, the version it was sent: the seq of the last
\* write the body it received contained, and 0 for a row it does not hold.
Phone == [account : Account, cursor : 0..MaxSeq, book : [Row -> 0..MaxSeq]]

TypeOK ==
    /\ seq \in 0..MaxSeq
    /\ table \in [Row -> 0..seq]
    /\ DOMAIN log \subseteq 1..seq
    /\ \A s \in DOMAIN log : log[s] \in [row : Row, by : Tx \cup {Committed}]
    /\ readers \in [Account -> [Device -> Reader \cup {NoReader}]]
    /\ role \in [Account -> Role]
    /\ phone \in [Device -> Phone]
    /\ left \in [turns : Nat, logins : Nat, fails : Nat]
    /\ overtaken \in [Device -> SUBSET (1..MaxSeq)]
    /\ misread \subseteq Device /\ spared \subseteq Device

-----------------------------------------------------------------------------
(* The feed, as a statement of the pull reads it. *)

SeesMoney(r) == r = "admin"
MaySee(r, row) == row \in Plain \/ SeesMoney(r)

\* READ COMMITTED: a statement sees the rows of the transactions that have
\* committed, and no row of one that has not.
Visible == {s \in DOMAIN log : log[s].by = Committed}
InFlight == DOMAIN log \ Visible

\* MAX(seq) and MIN(seq), 0 for an empty feed.
Newest == IF Visible = {} THEN 0 ELSE Max(Visible)
Oldest == IF Visible = {} THEN 0 ELSE Min(Visible)

\* sync_horizon: the lowest seq, of the rows this statement sees, whose
\* transaction its snapshot does not see; with none, one past the last.
Horizon(after) ==
    LET held == {s \in Visible : s > after /\ log[s].by # Committed}
    IN  IF held = {} THEN Newest + 1 ELSE Min(held)

\* The page of the feed after a cursor: ORDER BY seq LIMIT.
Feed(after) ==
    LET above == {s \in Visible : s > after /\ s < Horizon(after)}
    IN  {s \in above : Cardinality({t \in above : t < s}) < PageSize}

-----------------------------------------------------------------------------
(* The registry of readers. *)

Owes(reason, purge) == [reason |-> reason, purge |-> purge]
NothingOwed == Owes("none", FALSE)

\* Only a cursor above 0 is refused: a pull from 0 performs the replay.
Required(order, cursor) == order.reason # "none" /\ cursor > 0

Registered(a) == {d \in Device : readers[a][d] # NoReader}

\* Only a role that loses sight of money has anything to drop.
Demotes(from, to) == SeesMoney(from) /\ ~SeesMoney(to)

\* Mutant: no change of role has anything to drop.
OwnReaderNeverPurges(own, r) ==
    CASE own.pending # "none" -> Owes(own.pending, own.purge)
      [] own.pending = "none" /\ own.role # r -> Owes("role_changed", FALSE)
      [] OTHER -> NothingOwed

\* A reader with a row of its own: an order that stands is repeated as it is;
\* otherwise a change of role is one.
OwnReader(own, r) ==
    CASE own.pending # "none" -> Owes(own.pending, own.purge)
      [] own.pending = "none" /\ own.role # r ->
             Owes("role_changed", Demotes(own.role, r))
      [] OTHER -> NothingOwed

\* A new client of a registered account owes what its siblings owe.  The rows
\* are read in device order: the last order that stands names the reason, and a
\* change of role counts only if no reason was found before it.
Sibling(a, r) ==
    LET owing == {d \in Registered(a) : readers[a][d].pending # "none"}
        moved == {d \in Registered(a) : readers[a][d].role # r}
        first == Min(owing \cup moved)
    IN  IF owing \cup moved = {} THEN NothingOwed
        ELSE Owes(IF owing # {} THEN readers[a][Max(owing)].pending ELSE "role_changed",
                  \/ \E d \in owing : readers[a][d].purge
                  \/ first \notin owing /\ Demotes(readers[a][first].role, r))

\* What a reader owes: may its cursor be resumed, or must it start again?
Decide(a, d, r, cursor) ==
    CASE d \in Registered(a) -> OwnReader(readers[a][d], r)
      [] d \notin Registered(a) /\ cursor = 0 -> NothingOwed
      [] d \notin Registered(a) /\ cursor > 0
           /\ \E b \in Account \ {a} : d \in Registered(b) ->
             Owes("device_reassigned", TRUE)
      [] d \notin Registered(a) /\ cursor > 0 /\ Registered(a) = {}
           /\ \A b \in Account \ {a} : d \notin Registered(b) ->
             Owes("device_unknown", ~SeesMoney(r))
      [] OTHER -> Sibling(a, r)

\* Mutant: a change of role is written for handsets that have no row.
CheckedEveryDevice(a, d, r, cursor, order) ==
    [readers EXCEPT ![a] = [x \in Device |->
        CASE x = d -> [role |-> r, pending |-> "none", purge |-> FALSE]
          [] x # d /\ order.reason = "role_changed" ->
                 [readers[a][x] EXCEPT !.pending = "role_changed"]
          [] OTHER -> readers[a][x]]]

\* SyncReaderCheck's record of the order: a change of role marks every reader of
\* the account, whose own order and purge are kept, and the caller's own row
\* carries the order unless it is starting from 0.
Checked(a, d, r, cursor, order) ==
    LET Marked(old) ==
            IF old = NoReader \/ order.reason # "role_changed" THEN old
            ELSE [role |-> r,
                  pending |-> IF old.pending = "none" THEN "role_changed" ELSE old.pending,
                  purge |-> old.purge \/ order.purge]
        own == IF cursor = 0 THEN [role |-> r, pending |-> "none", purge |-> FALSE]
               ELSE [role |-> r, pending |-> order.reason, purge |-> order.purge]
    IN  [readers EXCEPT ![a] = [x \in Device |-> IF x = d THEN own ELSE Marked(readers[a][x])]]

\* SyncReaderAdvance: served under this role, and whatever was owed is settled.
ServedUnder(r) == [role |-> r, pending |-> "none", purge |-> FALSE]

Advanced(checked, a, d, r) == [checked EXCEPT ![a][d] = ServedUnder(r)]

-----------------------------------------------------------------------------
(* The handset (external). *)

\* What is left in the book after an instruction to drop the money.
Dropped(book, purge) == [row \in Row |-> IF purge /\ row \in Money THEN 0 ELSE book[row]]

\* The book after a page has been applied.  A body is composed from the table
\* when it is pulled, so it is the row as it is now, whatever write named it.
Applied(book, page, r) ==
    [row \in Row |-> IF MaySee(r, row) /\ (\E s \in page : log[s].row = row)
                     THEN table[row] ELSE book[row]]

HoldsMoney(d) == \E row \in Money : phone[d].book[row] # 0

\* A weigher's pull, of a reader that owed nothing: if he has been demoted, this
\* pull is the first to notice.
Notices(a, d) ==
    d \in Registered(a) /\ readers[a][d].pending = "none" /\ ~SeesMoney(role[a])

\* Handsets with an administrator's row and with money on them, of which an order
\* that stood before the demotion makes a weigher's with nothing to drop.
SparedBy(a, d, order) ==
    {x \in Registered(a) :
        /\ ~Notices(a, d) /\ ~SeesMoney(role[a])
        /\ order.reason # "none" /\ ~order.purge
        /\ x = d \/ order.reason = "role_changed"
        /\ phone[x].account = a /\ HoldsMoney(x)
        /\ SeesMoney(readers[a][x].role) /\ ~readers[a][x].purge}

-----------------------------------------------------------------------------
(* Writes. *)

\* A statement of transaction t writes a row and its trigger the feed.  The
\* row's lock keeps two transactions from writing it at once.
Write(t, row) ==
    /\ seq < MaxSeq
    /\ \A s \in InFlight : log[s].row = row => log[s].by = t
    /\ seq' = seq + 1
    /\ log' = [s \in DOMAIN log \cup {seq + 1} |->
                  IF s = seq + 1 THEN [row |-> row, by |-> t] ELSE log[s]]
    /\ UNCHANGED <<table, readers, role, phone, left, history>>

Own(t) == {s \in DOMAIN log : log[s].by = t}

Commit(t) ==
    /\ Own(t) # {}
    /\ log' = [s \in DOMAIN log |->
                  IF s \in Own(t) THEN [log[s] EXCEPT !.by = Committed] ELSE log[s]]
    /\ table' = [row \in Row |-> Max({s \in Own(t) : log[s].row = row} \cup {table[row]})]
    /\ UNCHANGED <<seq, readers, role, phone, left, history>>

\* A refused request: its rows were never there, its seqs are not given back.
Rollback(t) ==
    /\ Own(t) # {}
    /\ log' = [s \in DOMAIN log \ Own(t) |-> log[s]]
    /\ UNCHANGED <<seq, table, readers, role, phone, left, history>>

\* Mutant: rows are swept by age alone.
Aged(s) == TRUE

\* A feed row with a newer row for the same entity.
Superseded(s) == \E newer \in Visible : log[newer].row = log[s].row /\ newer > s

\* The sweep removes the superseded rows older than the retention; age is not
\* modelled, so it may remove any of them.
PruneSync ==
    \E old \in SUBSET {s \in Visible : Superseded(s)} :
        /\ old # {}
        /\ log' = [s \in DOMAIN log \ old |-> log[s]]
        /\ UNCHANGED <<seq, table, readers, role, phone, left, history>>

-----------------------------------------------------------------------------
(* Accounts and hands. *)

\* The owner promotes or demotes an account.
ChangeRole(a) ==
    /\ left.turns > 0
    /\ left' = [left EXCEPT !.turns = @ - 1]
    /\ role' = [role EXCEPT ![a] = IF @ = "admin" THEN "weigher" ELSE "admin"]
    /\ UNCHANGED <<seq, table, log, readers, phone, history>>

\* A handset changes hands: the new session presents the cursor it finds.
ChangeHands(d, a) ==
    /\ left.logins > 0
    /\ a # phone[d].account
    /\ left' = [left EXCEPT !.logins = @ - 1]
    /\ phone' = [phone EXCEPT ![d].account = a]
    /\ misread' = IF d \in Registered(a) THEN misread \cup {d} ELSE misread
    /\ UNCHANGED <<seq, table, log, readers, role, overtaken, spared>>

-----------------------------------------------------------------------------
(* The pull. *)

\* Mutant: the pull from 0 is measured against the retention too.
OutOfRangeFromZero(cursor) == cursor < Oldest - 1 \/ cursor > Newest

\* CURSOR_TOO_OLD: a cursor below what is retained, or above what was served.
OutOfRange(cursor) ==
    \/ cursor > 0 /\ Oldest > 0 /\ cursor < Oldest - 1
    \/ cursor > Newest

\* Refused for its cursor: 409 and nothing is written; the handset starts again,
\* and nothing tells it to drop what it holds.
PullOutOfRange(d, arrives) ==
    /\ OutOfRange(phone[d].cursor)
    /\ phone' = IF arrives THEN [phone EXCEPT ![d].cursor = 0] ELSE phone
    /\ spared' = IF arrives /\ HoldsMoney(d) THEN spared \cup {d} ELSE spared
    /\ UNCHANGED <<seq, table, log, readers, role, overtaken, misread>>

\* Refused for who is asking: 409, but the order is kept (KeepChanges).
PullReplay(d, commits, arrives) ==
    LET a == phone[d].account
        c == phone[d].cursor
        order == Decide(a, d, role[a], c)
    IN  /\ ~OutOfRange(c)
        /\ Required(order, c)
        /\ readers' = IF commits THEN Checked(a, d, role[a], c, order) ELSE readers
        /\ phone' = IF arrives
                    THEN [phone EXCEPT ![d].cursor = 0,
                                       ![d].book = Dropped(@, order.purge)]
                    ELSE phone
        /\ spared' = (spared
                \cup (IF commits THEN SparedBy(a, d, order) ELSE {})
                \cup {x \in {d} : arrives /\ HoldsMoney(x) /\ ~Notices(a, x)})
                \ {x \in {d} : arrives /\ order.purge}
        /\ UNCHANGED <<seq, table, log, role, overtaken, misread>>

\* Served: the page, the next cursor, and, on the pull from 0 that performs a
\* replay, the instruction to drop the money first.
PullServe(d, commits, arrives) ==
    LET a == phone[d].account
        c == phone[d].cursor
        order == Decide(a, d, role[a], c)
        page == Feed(c)
        next == Max(page \cup {c})
    IN  /\ ~OutOfRange(c)
        /\ ~Required(order, c)
        /\ readers' = IF commits
                      THEN Advanced(Checked(a, d, role[a], c, order), a, d, role[a])
                      ELSE readers
        /\ phone' = IF arrives
                    THEN [phone EXCEPT
                            ![d].cursor = next,
                            ![d].book = Applied(Dropped(@, order.purge), page, role[a])]
                    ELSE phone
        /\ overtaken' = IF arrives
                        THEN [overtaken EXCEPT ![d] =
                                (IF c = 0 THEN {} ELSE @) \cup {s \in InFlight : s <= next}]
                        ELSE overtaken
        /\ misread' =
              CASE arrives /\ commits /\ c = 0 -> misread \ {d}
                [] arrives /\ ~commits /\ readers[a][d] # ServedUnder(role[a]) ->
                       misread \cup {d}
                [] OTHER -> misread
        /\ spared' = IF commits
                     THEN (spared \cup SparedBy(a, d, order)) \
                          {x \in {d} : arrives /\ (order.purge \/ (SeesMoney(role[a]) /\ next > 0))}
                     ELSE spared
        /\ UNCHANGED <<seq, table, log, role>>

\* An answer may be lost, and the error of a commit that fails is ignored: the
\* answer has been written and stands.
Pull(d, commits, arrives) ==
    /\ commits \/ (arrives /\ left.fails > 0)
    /\ left' = IF commits THEN left ELSE [left EXCEPT !.fails = @ - 1]
    /\ \/ PullOutOfRange(d, arrives)
       \/ PullReplay(d, commits, arrives)
       \/ PullServe(d, commits, arrives)

-----------------------------------------------------------------------------

\* The feed is backfilled when it is created.  A handset that synchronised
\* before the registry existed holds the newest seq of that feed.
InitOn(f) ==
    /\ seq = Len(f.feed)
    /\ log = [s \in 1..Len(f.feed) |-> [row |-> f.feed[s], by |-> Committed]]
    /\ table = [row \in Row |-> Max({s \in 1..Len(f.feed) : f.feed[s] = row} \cup {0})]
    /\ readers = [a \in Account |-> [d \in Device |-> NoReader]]
    /\ role = f.role
    /\ phone = [d \in Device |->
                  [account |-> f.holder[d],
                   cursor |-> IF d \in f.legacy THEN Len(f.feed) ELSE 0,
                   book |-> [row \in Row |->
                       IF d \in f.legacy /\ MaySee(f.role[f.holder[d]], row)
                       THEN table[row] ELSE 0]]]
    /\ left = [turns |-> f.turns, logins |-> f.logins, fails |-> f.fails]
    /\ overtaken = [d \in Device |-> {}]
    /\ misread = f.legacy
    /\ spared = {}

Init == \E f \in Farm : InitOn(f)

Next ==
    \/ \E t \in Tx : (\E row \in Row : Write(t, row)) \/ Commit(t) \/ Rollback(t)
    \/ PruneSync
    \/ \E a \in Account : ChangeRole(a)
    \/ \E d \in Device : \E a \in Account : ChangeHands(d, a)
    \/ \E d \in Device : \E commits, arrives \in BOOLEAN : Pull(d, commits, arrives)

Spec == Init /\ [][Next]_vars

\* A handset with signal pulls again, and some of its answers reach it; a
\* request's transaction ends.
Fairness ==
    /\ \A d \in Device : WF_vars(Pull(d, TRUE, TRUE))
    /\ \A t \in Tx : WF_vars(Commit(t) \/ Rollback(t))

FairSpec == Spec /\ Fairness

-----------------------------------------------------------------------------
(* Properties. *)

\* The next pull of this handset would be answered incrementally.
Resumable(d) ==
    LET a == phone[d].account  c == phone[d].cursor
    IN  c > 0 /\ ~OutOfRange(c) /\ ~Required(Decide(a, d, role[a], c), c)

\* The changes below its cursor that this handset's holder may see and it lacks.
Missed(d) ==
    {table[row] : row \in {x \in Row : /\ table[x] <= phone[d].cursor
                                       /\ MaySee(role[phone[d].account], x)
                                       /\ phone[d].book[x] < table[x]}}

\* openapi.yaml, /v1/sync/pull: "the cursor never jumps over one".  A handset
\* whose cursor may be resumed has everything that was written below it.
CursorNeverJumps == \A d \in Device : Resumable(d) => Missed(d) = {}

\* But for the rows of transactions that were open when its cursor went past them.
Complete(d) == Resumable(d) => Missed(d) \subseteq overtaken[d]

\* sync_readers.go, "The phone that changed hands": whoever has held a handset, a
\* cursor that may be resumed has nothing missing below it.
EveryBookIsComplete == \A d \in Device : Complete(d)

\* What does hold of every farm: neither a change of role, nor a new holder, nor a
\* lost answer, nor the sweep leaves a hole below a cursor that may be resumed.  It
\* fails where the registry is wrong about the handset, and only there: it followed
\* the feed before there was a registry, its holder left it and came back, or the
\* row of a pull that was answered was not committed.  The next pull from 0 that
\* is committed and answered ends that.
ResumableIsComplete == \A d \in Device \ misread : Complete(d)

\* A handset whose cursor may be resumed by somebody who may not see money has none.
FreeOfMoney(d) == Resumable(d) /\ ~SeesMoney(role[phone[d].account]) => ~HoldsMoney(d)

\* The line 00017_sync_readers.sql draws for purge_money, taken to its word: a
\* demotion, or a handset that changed hands, drops the money it was holding.
WeighersHoldNoMoney == \A d \in Device : FreeOfMoney(d)

\* What does hold of every farm: the money an administrator was sent is off the
\* handset before a weigher goes on from its cursor, also when an answer is lost, the
\* account is promoted and demoted over again, or a sibling pulls first.  It fails
\* where the registry is wrong about the handset (misread), and on one that was
\* sent back to 0 with its money (CURSOR_TOO_OLD drops none, a promotion neither) or
\* was spared by an order older than the demotion, until an order that drops it or a
\* pull as an administrator is answered.
ResumableHoldsNoMoney == \A d \in Device \ (misread \cup spared) : FreeOfMoney(d)

\* Nothing at the far end of the feed, and nothing owed.
UpToDate(d) ==
    /\ Newest > 0 => Resumable(d)
    /\ phone[d].cursor = Newest

\* No other handset of its account is in use: two of them may pass an order back
\* and forth for ever.
Alone(d) == \A x \in Device \ {d} : phone[x].account # phone[d].account

\* When the writes, the promotions and the handovers end, every handset that keeps
\* pulling, the only one of its account, reaches the newest seq of the feed: no
\* order is repeated for ever, and no refusal leads to another.
Converges == <>[](\A d \in Device : Alone(d) => UpToDate(d))

=============================================================================
