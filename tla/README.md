# Báscula, verified

Báscula keeps the books of a coffee farm: who picked how many kilos, what a kilo was
worth that week, who was paid and what is owed. The API is a Go service over one
PostgreSQL database (`services/api`); the web application is React (`apps/web`) and is
both the office's console and, on a phone in the field, the place where weighings are
taken without signal; native handsets talk to two endpoints, `/v1/sync/pull` and
`/v1/sync/push`. This directory holds TLA+ models of the parts where an error costs
somebody money or work, the TLC configurations that check them, and TLAPS proofs of
what matters most. All paths below are relative to `src/`; Go files are under
`services/api/internal/` unless they say otherwise.

## The system

### Components, their state, operations and hard behaviours

| Component | State it keeps | Operations | What is hard | What makes it correct |
|---|---|---|---|---|
| **Money** (`store/money.go`, `httpapi/handlers_money.go`, migrations 5, 6, 16, 19) | `work_records`, `week_prices`, `settlements`, `settlement_items` (lines), `ledger` (append-only), `settlement_releases` | preview, settle, void, release (repair of a half void), ledger entry, reversal by hand, correction and removal of a record, price of the week | balances and debts are sums of rows, decided on and then written; two requests overlap statement by statement; retries by id; a void is four writes; deadlocks; imported half-void settlements | nothing is paid twice, paid work stands, a void is whole, what is cancelled is cancelled once, no more is paid than was earned, the trail is never rewritten |
| **Sync pull** (`store/sync.go`, `store/sync_readers.go`, `store/sync_prune.go`, `httpapi/handlers_sync.go`, migrations 13, 17, 21) | `sync_log` (the feed: a seq per written row), `sync_readers` (account, device, role, order to replay) | handshake, pull, prune; triggers that write the feed | a seq is drawn before the commit that shows it; roles change; a handset changes hands; the sweep deletes what is superseded; answers are lost | a cursor that is resumed has missed nothing; a weigher goes on from no cursor of a handset that holds money; every handset catches up |
| **Sync push** (`httpapi/handlers_sync.go`, `store/sync.go`, `store/employees.go`, migrations 14, 15, 18) | `sync_ops` (opId, fingerprint, answer), the rows pushed, `employee_reactivations` | one batch of envelopes, a savepoint each | lost answers, late copies, a key used twice, a registry that forgets, refusals in the middle of a batch, a worker taken off the payroll meanwhile | what was answered as done was done; the removal wins; weighings arrive |
| **Tenant transaction** (`tenant/tenant.go`, `httpapi/render.go`) | one transaction per request | begin, set farm and role, commit on 2xx, roll back on an error | the answer is written before the commit, whose error is ignored | (part of the three above) |
| **Work records** (`store/work_records.go`, handlers) | `work_records` and links to crops | create, list, correct, remove, restore, batches | overlap with settlements | with Money |
| **Season import** (`store/import.go`) | everything, once | one transaction per file, reconciled against declared balances | re-imports, half-void settlements | with Money: what it leaves can be repaired |
| **Payday on the console** (`apps/web/src/features/payroll/crew.ts`, `CrewPayrollPage.tsx`, `features/workers/PayWorkerPage.tsx`, `lib/writeOnce.ts`) | in a tab: figures read, approval, ids by intent, run under way, reports | read the crew, settle all, pay all, pay one, pay in excess, undo a run | one request per person, in turn; figures age; the run stops halfway; answers are lost and requests arrive late; an undo of many writes | what is reported is on the books, what is written was approved, an undo leaves nothing behind |
| **Offline weighings** (`apps/web/src/offline/`, `features/workrecords/WeighingForm.tsx`) | IndexedDB: weighings without an answer, price book, crew list | save, enqueue, flush, take back, remove | two tabs over one queue, a session that changes in mid-upload, an answer that is lost, removal while sending | what was called saved is not lost, what waits goes up |
| **Sessions** (`httpapi/handlers_auth.go`, `store/auth.go`, `apps/web/src/api/client.ts`, `auth/AuthContext.tsx`) | `refresh_tokens` in families; in the browser the stored token, and per tab the access token, the shared renewal and the recalled user | sign in, refresh, sign out | requests that find the session expired together, two tabs over one stored token, an unanswered renewal | a token presented twice closes the family, and the application does not do that to itself |
| **Stock and sales** (`store/stock.go`, `store/sales.go`, handlers, `features/inventory`, `features/sales`) | `stock_moves` (append-only), `sales`; dialogs with their ids and the levels they read | move, sell, void, reverse | the level is a sum; a sale and its movement are a pair; a dialog is sent again | never below zero unasked, a sale and its movement agree, a dialog writes once |
| **Teams** (`store/teams.go`, migration 40) | `team_members` by days | create, set members, change kind, take off and put back on | day arithmetic, two teams at once, lists that are read and then written row by row, changes dated in the past | one team per person per day, the days that were worked keep their teams |
| **Prices** (`store/base_prices.go`, `store/special_prices.go`, `packages/shared/src/kiloPrice.ts`) | dated lists per farm, week, plot, person | set, delete, resolve | one priority written in SQL and in TypeScript | both resolve alike |
| **Provisioning** (`httpapi/provision*.go`, `kube`, `cfsaas`) | watchers and status cache in memory, the farm's own stack | dispatch, poll, seed, report | process restarts, external systems | a farm is seeded once |
| **OAuth, MCP, passkeys, passwords, signup, rate limits, mail, uploads, reports, catalogs, screens** | single rows and single-use tokens | CRUD, consume once | little shared between steps | conditional UPDATEs |

### How they interact

Every request is one transaction. Money, work records, teams and the push write the
same tables; triggers on those tables write the feed in the same transaction
(`migrations/00013_sync.sql:64`), so a row's seq is drawn when the statement runs and is
visible when the transaction commits. The pull reads the feed below the horizon and
composes bodies from the tables as they are then. The push calls the same store
functions as the web's routes (`SoftDeleteWorkRecord`, `AddLedgerEntry`,
`ReactivateForWork`) inside a savepoint. The nightly sweep deletes from `sync_log` and
`sync_ops`. Locks are the database's: `LockEmployeeForMoney` (`store/employees.go:120`)
serialises decisions about a balance, `ux_items_payable_live` lets one live line hold a
record, `ux_ledger_reverses` lets one movement cancel another.

The web application holds no lock and shares nothing with the API but requests. What
makes it safe to send one again is the id it carries: minted in the browser, kept per
intent (`lib/writeOnce.ts`), answered by the API with what it already wrote. Every
request goes through `api/client.ts`, which renews an expired session once for all that
need it; pages keep the figures of their last reading until they read again. The queue
and the refresh token are in the browser's storage, which all tabs share.

## The modules

| Module | Models | Kind |
|---|---|---|
| `Payroll` | the money requests, one per step | state machine, the specification that is proved about |
| `PayrollProofs` | all eight properties of `Payroll` | TLAPS |
| `Sums` | what becomes of a sum over a finite set when the set or the figures change | TLAPS, lemmas for the others |
| `Books` | what a worker's books promise: work is held once, credited once, un-credited once, paid from what is there | abstract specification |
| `PayrollTx` | the same requests statement by statement under row locks | state machine, implements `Books` |
| `PayrollTxProofs` | all safety properties of `PayrollTx`: types and locks, a void commits whole, it implements `Books`, retries learn what was done | TLAPS |
| `SyncFeed` | feed, horizon, pull, reader registry, sweep, handsets | state machine |
| `SyncPush` | outboxes, batches, savepoints, registry of answers, removals and reactivations | state machine |
| `SyncProofs` | `SyncFeed`: types, no holes below a cursor, no money for weighers, on every farm; `SyncPush`: types, what was told is kept, the removal wins | TLAPS |
| `Payday` | the crew's page and the page of one person over an API seen from outside | state machine |
| `PaydayProofs` | all six properties of `Payday` | TLAPS |
| `Handset` | tabs of the web application on a phone: weighings, queue, uploads, session | state machine; composes queue, screen, client and refresh tokens |
| `HandsetProofs` | types, no weighing is lost, nobody is thrown out without a cause | TLAPS |
| `Stock` | dialogs and lists of inventory and sales, and the transactions behind them by statement | state machine |
| `StockProofs` | types, level, pairs, the guard, what is typed once is written once | TLAPS |
| `Teams` | the requests that change a membership, statement by statement, and the days | state machine |
| `TeamsProofs` | types, one team on a day, the days that were worked keep their teams | TLAPS |
| `MCPayroll`, `MCPayrollTx`, `MCSyncFeed`, `MCSyncPush`, `MCPayday`, `MCHandset`, `MCStock`, `MCTeams` | small instances: symmetry, scenes, who holds which handset | model checking |

### Payroll

State: one function per table, from ids to rows or `None`; `line` by settlement and
record; `weekPrice`; and `shown`, the figure the last preview showed, because
`POST /settlements` carries the gross the person saw and is refused if it has changed.
Actions are named for the handlers: `CreateWorkRecord`, `UpdateWorkRecord`,
`SoftDeleteWorkRecord`, `SetWeekPrice`, `SettlementPreview`, `Settle`, `VoidSettlement`,
`ReleaseSettlement`, `AddLedgerEntry`, `ReverseLedgerEntry`. A refusal, and a resend
answered from what is stored, change nothing and are stuttering steps. `Init` is empty
books, or the half-void books an import can leave (`HalfVoidedBooks`). `guarded` in a
ledger row is not a column: it records that a payment passed the balance check, for
`PaidOutOfEarned` to read.

Abstracted: a record is a quantity and a price; dates, periods and pay schemes become
the `scope` a preview names; amounts are small integers, and the rounding of
`round(quantity * price)` is exact multiplication.

### PayrollTx and Books

Each session runs one request as the sequence of its statements in READ COMMITTED: a
statement reads what is committed when it starts, its writes are seen by others after
the commit, and it waits while a row or an index entry it needs is locked in a mode that
conflicts. `held` is the locks, `draft` the uncommitted writes, `at` the next statement,
`seen` what an earlier statement read. Unique indexes and foreign keys are locks too: an
INSERT waits for an uncommitted row with the same key and shares the row it points to.
A cycle of waiting ends with a victim (`DeadlockVictim`), a connection may be lost
before, at and after the commit (`ConnectionLost`). A scene (`Scene`) fixes which requests meet and
on which books, because what is interesting is who meets whom; within a scene every
interleaving is explored.

`KeepsThePromise` is refinement: the committed rows of `PayrollTx`, read through the
mapping at the end of the module, behave as `Books`.

### SyncFeed

`log` maps a seq to the row it announces and to the transaction that wrote it until that
commits; `readers` is the registry; `phone` the handset's account, cursor and book, a
book being the version it holds of each row. `Pull` has the handler's three outcomes: a
cursor out of range, an order to replay, a page; its answer may be lost, and its commit may
fail after the answer was written (`tenant/tenant.go:265`). `Decide`, `OwnReader`, `Sibling`,
`Checked` and `Advanced` are the functions of `sync_readers.go` with their names
shortened. The handset is external: it stores the page and the cursor of the answers that
reach it, drops its money when told to, and starts over when told to. A farm (`Farm`) is what
there is at first and how much may happen: who holds which handset, the roles, the handsets
older than the registry, the rows of the feed, changes of role and of hands, failing commits.

Three variables are history that no action reads. `overtaken`: the seqs that were still
uncommitted when the handset's cursor went past them. `misread`: the handsets about which the
registry is wrong, because they are older than it, changed hands back to an account that has a
row for them, or were answered by a pull whose row was not committed; the next pull from 0 that is
committed and answered ends that. `spared`: the handsets that are left with money by a refusal that
tells them to drop none, or by an order older than the demotion, until one that drops it or a page
to an administrator.

Left out: `delivered_seq`, which the code writes and never reads; the one reader that all clients
without a device id share in an account (a handset here names itself); balances, which travel
as a checksum; the bodies of rows.

### SyncPush

`books` holds the pushed tables and `ops`; `outbox` what each handset has to send, `wire`
the batches under way, `told` every envelope whose handset was told that it is done, and
`unsaved` those of them of which no batch that answered so was committed. A batch that runs is
committed and answered, committed and not answered, or, because the error of a commit is ignored
after the 200 is written, answered and not committed: the outbox is emptied all the same.
`PushAll` runs `PushOne` over a batch; each verdict is an answer with the farm it leaves.
The clock moves when somebody is taken off the payroll, which is all `ReactivateForWork`
compares. A batch is one step: batches do not interleave by envelope. `scene` gives each
handset a diary. `PushInit`, `PushNext`, `PushTypeOK` and the like are named so because
`SyncProofs` extends both halves of the synchronisation.

### Payday

State, in the order of the code: the farm (`work`, `price`, `books` by id, `debt`), the tab
(`page`, `seen` figures, `ids` kept by `writeOnce`, the run in `job`, `report`, `excess`) and
`limbo`, the requests nobody waits for any more, which may still arrive or never do.
`SettleCrew`, `PayCrew`, `PayOne` and `UndoCrew` are the buttons; `CheckWork` and
`CheckBalances` the re-reading of the crew, person by person, before anything is written;
`Accepted`, `AlreadyUndone`, `Refused` and `GivenUp` what becomes of the next request of the
run, with all that the page does about it (`GoesOn`, `Stops`, `AfterUndo`). A request is
`Served` as one step: what happens inside it is `PayrollTx`. The ids an intent keeps and
retires are the point of the module (`KeyOf`, `Mint`, `Retired`): an intent is a step with
its workers and amounts, and for the page of one person the lines as well.

Abstracted: a line of work is one unit; the method of payment, which is part of the intent
and of nothing else; the paper; where a row is drawn. Figures are read one person at a time,
as `loadCrew` does. `moved` only serves `ApprovalsHold`: whose figures were changed since the
check.

### Handset

`record` is the books, `token` the API's refresh tokens with family and state; `queue` and
`stored` are the browser's storage; the rest is by tab: `user`, `cred`, `mount` (the upload the
mounted provider owns), `list` (what it shows), `mine`, `renewal`, and `job`, the requests
under way by slot: the screen's one and up to two uploads, the second because a provider
that is unmounted and mounted again starts its own while the first still runs
(`OfflineContext.tsx:40`). A request is sent, may be
answered with 401, waits for the shared renewal and is sent again: `Renewing`, `Awaiting`,
`Renewed`, `NotRenewed` are `client.ts` by line. A request that is not answered was served or
not. `told` records what the screen has said of each weighing, for `NothingLost`.
`spoilt` records the families whose end has a cause that is not the application's own doing
in one tab.

Abstracted: the order within one upload; answers 500, 501, 408 and 429 (kept like an answer
that never comes, but for the first request of a tab, which they sign out); a request that arrives after it was given up on; which of the just saved
may be taken back (the code: the last); the 401 of a sign-out. No access token expires
between a renewal and the resend it is for.

### Stock

`move` and `sale` are the tables, `tx` the requests under way, each at a statement (`Look`,
`LockProductForStock`, `GuardStock`, `Claim`, `Share`, `Commit`); `form`, `level` and `shown`
are what each person has on the screen, as old as their last reading. As in `PayrollTx`, an
uncommitted row holds its index entries and shares the rows it points to: the foreign key's
lock on the product is what makes a withdrawal that was waived, and takes no guard, wait for
one that is being decided. `Taken` is the unique violation, `Deadlocked` the detector. One
product: locks and sums are by product. A level may be missing (its GET failed), and then the
dialog does not warn.

### Teams

`worker` and `member` are the tables, with days from 1 to `LastDay` and an end that is none
(`Forever`); `tx` the requests under way, by slot. A request is a PATCH, a POST or a DELETE of
one worker, as the console and the assistants send them; what it does not mention is
"keep" or `None`. Its parts come in the order of `handleUpdateWorker`: the status
(`SoftDeleteEmployee` with the two statements of `CloseMemberships`, or `RestoreEmployee`), the
kind (`LookAtKind`, `SetEmployeeKind`), the other columns (`UpdateEmployee`, of which only the lock
matters), the members (`CheckMembers`, `ReadMembers`, the loop that closes, the loop that adds).
A row that was written is locked until the end: `self` is the worker's, `mine` the memberships. A
statement that comes to a row another transaction holds waits, and then finds the row as that
one left it, or gone. A write of a membership is two steps: `Write`, and the trigger
`TeamMembersCheck`, which waits for the advisory lock on the person (`held`) and only then looks.
`Aborted` is a lost connection, or the victim of a deadlock.

What is asked to be written is a `Draft`, what the table takes is a `Row`, which does not end before
it begins; `Fits` is that and what the trigger asks.

Abstracted: name, basket number and other columns; the look for a deactivated file with the
same document; the lock that a foreign key takes on the two workers of a new membership, which
conflicts with no statement here. The members who join are added in any order, as a Go map gives
them.


## The checks

States and times are those of TLC with two workers on a small machine.

| Run | Instance | What it shows |
|---|---|---|
| `payroll` | one worker, two records, two settlements, four ledger rows, one release, two quantities, two prices; symmetric in ids; 300 000 states | the eight properties of the books when requests come one at a time, in every order |
| `tx_books` | five scenes of four to six overlapping requests, lost connections, deadlocks; 26 000 states | each commit is a step of `Books`, also when requests overlap; a void commits whole; a resend learns what was done; every request ends |
| `sync_readers` | five farms of two handsets and two accounts, two overlapping writers, the sweep, pages of one row, lost answers: a promotion and a demotion of an account with two handsets; an administrator's handset passed on to a weigher; one that changes hands twice; one older than the registry; a commit that fails behind its answer; 81 000 states, 65 s | what a resumable cursor can have missed, that a weigher resumes none of a handset with money, that every handset catches up |
| `push` | four seasons of two handsets with lost, late and repeated batches, commits that fail and a forgetting registry; 19 000 states, 45 s | what is told is kept, removals win, weighings arrive |
| `payday` | two workers, three lines of work, two prices, the crew's page and one person's, two things that go wrong or happen elsewhere; 3 490 000 states, 105 s | reports, approvals and undo, with requests lost, late and repeated |
| `handset` | four scenes: a day in one tab with two weighings; two farms; two tabs that upload one weighing; two tabs that share a session; 140 000 states, 40 s | nothing is lost, nobody is thrown out without a cause, what waits goes up |
| `stock` | three scenes: one dialog sent again and again; two dialogs at once; a sale and what undoes it from old lists; 131 000 states, 75 s | level, pairs, once per dialog, the guard, and that requests end |
| `teams` | two people, two teams, three days, four memberships, five scenes of three requests of which two overlap; 522 000 states, 20 s | nobody is in two teams on a day; the days up to today change only by a list dated on or before them; none ends before it begins |
| `tx_edit`, `sync_horizon`, `sync_handback`, `payday_report` | the smallest instance that shows it | a comment or the API description is contradicted: see *Findings* |

Six more configurations are not in `PROJECT.json`: `sync_legacy.cfg`, `sync_too_old.cfg`,
`sync_demoted.cfg` and `sync_commit.cfg` of `MCSyncFeed`, `push_commit.cfg` of `MCSyncPush` and
`payday_price.cfg` of `MCPayday`. Each ends in a violation after a few seconds; they go with
findings 5 to 9 and are run by hand (`tlc -config sync_legacy.cfg MCSyncFeed`).

### The properties

*Money.* `CreditedOnce`: of all the settlements that ever took a record in, one at most
has a devengo that stands. `ClaimedWorkStands`: work under a live line is not corrected or
removed. `DevengoIsItsLines`: a devengo is the sum of its lines, whatever the price did
later. `ReversalsCancelOnce`: a movement is cancelled once, by its exact opposite.
`PaidOutOfEarned`: guarded payments never exceed what was credited. `VoidIsWhole`: no void
stops halfway. `TrailIsKept`: nothing in the trail is edited. `ResentIsAnswered`: a void or
an advance is not refused while what it asks for is in the books under its id.
`Answered`: every request that is not cut off ends.

*Sync.* `ResumableIsComplete`: whose cursor may be resumed lacks nothing below it but the rows in flight
that the horizon fails to hold back; so it goes on protecting the registry while
`CursorNeverJumps` is violated. `ResumableHoldsNoMoney`: a weigher goes on from no cursor of a
handset that holds money. Both speak of every farm and except handsets to which one of a few
named things has happened (`misread`, `spared`); the same without the exceptions is
`EveryBookIsComplete` and `WeighersHoldNoMoney`, which take the comments of the code to their word
and are violated. The farms of `sync_readers` include all those on which they are, so what is
checked there is that nothing *else* leaves a hole or money: `sync_readers` reaches handsets that were
spared by an order older than a demotion, passed on with money, handed back, and answered
without a commit. `Converges`: every handset that is alone on its account catches up.
`FactsAreKept`: what a handset was told is done is in the books, unless no batch that answered so
was committed; `EveryAnswerStands`, without that exception, is violated. `RemovalWins`,
`WeighingsArrive`, as their comments say.

*Payday.* `ReportNamesTheWrite`: what a report says got in was written under that id, for
that person and with the figure it shows; the page of one person shows no gross, and what its
settlement took is among the lines that were ticked. Whether the write still stands is
`WhatGotInStands`, which is violated (`payday_report`): what is answered as done and was not touched by
anybody since the check should stand, and may be a settlement that an undo voided.
`ApprovalsHold`: while a crew is written, whoever is still to come and was left alone is owed what
was approved, to the cent. `WorkSettledOnce`. `UndoIsWhole`: an undo
that clears the reports took back all they named. `PaymentsGoFirst`: no settlement is voided
while a payment of the same reports stands, save one whose reversal failed.

*Handset.* `NothingLost`: a weighing called saved is on the phone or on the books until it is
taken back. `ThrownOutForCause`: nobody signed in is sent to the login page by requests that
expire together; the causes left out are listed at the property and are real (below).
`GoesUp`: what a tab shows as waiting is uploaded, refused or taken back.

*Stock.* `LevelIsWhatStands`: nothing is taken back twice. `SalesAgree`: a sale has one movement,
reversed exactly if the sale is void. `WrittenOnce`: one movement per filled-in dialog.
`GuardHolds`: what is not waived leaves no less than nothing. `Answered`.

*Teams.* `OneTeamADay`: a person is in one team on a day, though teams look for each other's
members before they wait for each other. `HistoryStands`: what changes about a day that is not
after today is asked for by a list of members dated on or before it; whoever is taken off the
payroll stays in the team of that day. `TypeOK` says that no membership ends before it begins, which
the table sees to, and that no list of members asks for one that would, which is up to
`closeUnwantedMembers` (to take somebody off the payroll may ask for one, of a membership that was added
between its two statements, and is then refused).

Each property has a mutant, a plausible error in one mapped definition (a dropped guard, a
read of the wrong rows, a lock in the wrong mode) that makes TLC find it violated.

### Bounds, and why they are enough

- *Two records, two settlements, four ledger rows, one release.* Paying twice needs one
  record and two settlements; a void, a redo and a reversal by hand need four rows of the
  ledger (two devengos and what cancels them). A second worker adds nothing to these
  properties: every guard and sum is per worker, and the theorems hold for any number.
- *Quantities 1 and 2, prices 1 and 3, a gross of 3.* Three is one record at the dearer
  price and two records at the cheaper one, so the same figure is reached by different work
  and `GROSS_CHANGED` is decided both ways. Movements are of 3: a payment meets the balance
  exactly, or is the one too many.
- *Scenes of up to six requests.* Each hazard of overlapping is between two or three
  requests; the scenes put together those that touch the same rows, with their retries.
- *`MaxSeq` 3, two writers* (4 where a violation is shown). A cursor jumps over a row with two; the sweep needs a row
  written twice. *The farms*: two changes of role are a promotion and a demotion, which is what an
  order older than the demotion needs; one change of hands with one of role passes an administrator's
  handset to somebody who may be a weigher; two of hands bring a handset back; one commit fails. The proofs
  bound none of them.
- *`PageSize` 1* so that a replay takes several pulls; in the configurations that end in a violation it is 2
  or 5, where everything fits one page and the hazard is in the cursor.
- *`officeCap`, `pruneCap`* in the scenes of `SyncPush`: a removal, a restoring and a sweep
  around a weighing. One late copy per handset: older ones arrive as prefixes of it.

- *Payday: two workers, of whom one has two lines; `MaxId` 4; `EventCap` 2.* A run that stops
  halfway needs two people; drift needs work that appears or goes, or a price that changes.
  Four ids are a settlement and a payment for each, ids being free again when nothing holds
  them. Two events are a loss and what happens meanwhile. A crew's
  page that finds its own ids kept needs a second run, which is not bounded. `payday_report` needs one
  event, `payday_price` three.
- *Handset: two tabs, two tokens.* A token presented twice needs one renewal; a session that is
  replaced needs a second sign-in. What a screen was sending ends before the next sign-in,
  and a tab has two uploads at most; a third would be a second remount within one upload.
- *Stock: opening 2, quantities -2 and -3.* One fits exactly, one does not, and two of the first
  do not fit together. Three transactions are a dialog, its resend and a rival. Entries are
  not typed: they are never guarded, and withdrawals that are waived are writers of that kind.
- *Teams: three days, two requests at a time, four rows.* A list may be dated before, on or
  after today and still leave a day beyond; a rivalry is between two transactions, and each scene
  holds a third request that comes before, between or after them. One membership is there at the
  start, three can be written. No request is under way at midnight; for the
  code a request has one day, that of its start (`LocalToday` reads `now()`). The
  proofs bound neither days, rows nor transactions.

Deadlock checking is off: these are finite histories (ids run out, diaries end), and a state
with nothing left to do is where they stop. That no *request* hangs is `Answered`.

### Fairness

- `PayrollTx`: weak fairness of each session's statements. PostgreSQL runs a statement that
  nothing blocks, and `deadlock_timeout` finds every cycle.
- `SyncFeed`: weak fairness of a pull whose answer arrives (a handset in use gets signal
  again and pulls) and of the end of each open transaction (one per request).
- `SyncPush`: weak fairness of sending a non-empty outbox; strong fairness of a round trip
  that is committed and answered, because a handset that loses answers now and then keeps
  sending and is not unlucky for ever. Nothing is assumed of diaries, the web or the sweep.
- `Handset`: weak fairness of what an open tab does by itself (`CarriesOn`) and of its timer
  (`Tick`, `OfflineContext.tsx:121`); strong fairness of an answer to some upload of a tab: the
  timer tries again every time, and a network that is tried again answers at last. Nothing
  is assumed of the person, of the screen's own requests or of which upload is answered.
- `Stock`: strong fairness of each transaction's statements: PostgreSQL serves those who wait
  for a lock in the order they came, so nobody who can run again and again is passed over.
- `Payday` and `Teams` have none and only safety properties: a page may be left at any moment,
  and a request about a team that waits for ever would change nothing.

## The proofs

Every theorem is about all values of the constants that the named assumptions of its module
allow; TLC evaluates those assumptions on the instances of the runs. Most properties are not
inductive. The invariants that are were checked by TLC before they were proved, and what they
add is what the code relies on without saying so.

| Module | Theorem | Property |
|---|---|---|
| `PayrollProofs` | `TypeCorrect`, `NothingCreditedTwice`, `CancelledOnce`, `PaidWorkStands`, `NobodyIsOverpaid`, `DevengoIsWorthItsLines` | `TypeOK`, `CreditedOnce`, `ReversalsCancelOnce`, `ClaimedWorkStands`, `PaidOutOfEarned`, `DevengoIsItsLines` |
| | `NothingRewritten`, `NoVoidStopsHalfway` | action properties `TrailIsKept`, `VoidIsWhole` |
| `PayrollTxProofs` | `TransactionsTyped`, `VoidsCommitWhole` | `TypeOK`, `VoidIsWhole` |
| | `BooksArePromised` | `KeepsThePromise`, the refinement of `Books` |
| | `RetriesLearn` | action property `ResentIsAnswered`, where an id names one request |
| `SyncProofs` | `SyncTyped` | `TypeOK` |
| | `NoHolesBelow`, `NoMoneyForWeighers` | `ResumableIsComplete`, `ResumableHoldsNoMoney`, on every farm |
| | `PushTyped`, `ToldIsKept` | `PushTypeOK`, `FactsAreKept`, the second where an id is of one weighing |
| | `TheRemovalWins` | action property `RemovalWins` |
| `PaydayProofs` | `PaydayTyped`, `ReportsAreTrue`, `ApprovalsStand`, `WorkIsSettledOnce`, `PaymentsFirst` | `TypeOK`, `ReportNamesTheWrite`, `ApprovalsHold`, `WorkSettledOnce`, `PaymentsGoFirst` |
| | `UndoTakesAll` | action property `UndoIsWhole` |
| `HandsetProofs` | `HandsetTyped`, `NothingIsLost` | `TypeOK`, `NothingLost` |
| | `NobodyThrownOut` | action property `ThrownOutForCause` |
| `StockProofs` | `TypeCorrect`, `LevelsAddUp`, `SalesAndStockAgree`, `TypedOnceWrittenOnce` | `TypeOK`, `LevelIsWhatStands`, `SalesAgree`, `WrittenOnce` |
| | `TheLookHolds` | action property `GuardHolds` |
| `TeamsProofs` | `TypeCorrect`, `OneTeamOnADay` | `TypeOK`, `OneTeamADay` |
| | `HistoryIsKept` | action property `HistoryStands` |

### Sums

Balances, levels and grosses are sums over finite sets (`MapThenSumSet`). The induction theorems of
the library take the property as an operator, which the provers cannot instantiate; `Sums` looks at
a smallest subset of which a claim is false instead (`SmallestSubset`, from the library's fact
that a well-founded relation has minimal elements). A sum is then the function that adds up
one chosen element after the other: there is one (`AddingUpIsPossible`, `AddingUpIsUnique`), the
choice does not matter (`TotalRemove`), and from that follow what an element more or less, a
changed figure, a part or a union does to a total.

### Payroll

`CreditedOnce` is not inductive: a step from a state in which a standing devengo had lost
one of its lines could settle the freed record a second time. `CreditInv` adds that a record is
under one live line (`OneLiveLine`), a settlement has one devengo (`OneDevengo`), lines and rows
belong to settlements that exist (`OwnersExist`), and a devengo that stands has *all* its lines
alive (`CreditHoldsItsLines`). The last is why a void must free lines and cancel the devengo in one
transaction, and why a release is refused while lines of an open settlement live. What inserts
ledger rows keeps old ones (`InsertKeeps`), steps that add no devengo and kill no line preserve the
invariant (`CreditKept`), settling (`CreditSettle`) and voiding or releasing (`CreditVoid`) are done
by hand. The assumptions: quantities, prices and amounts are positive integers, NULL is no row.

`CancelledOnce`: every step leaves the rows that are there as they are, and a row it adds cancels
nothing or is the reversal of a row that was no reversal and had none (`LedgerStep`).
`PaidWorkStands` is what the guards promise when requests come one at a time; `tx_edit` shows that
they do not hold it when two overlap. `NothingRewritten` and `NoVoidStopsHalfway` are read off what
each step does to lines and status. `NobodyIsOverpaid` needs `MoneyInv`: the guarded payments that
stand are within what was credited *and* the balance the ledger adds up to is that of the rows that
stand (`BalanceStands`, because a reversal is of the opposite amount), so the guard, which compares
with the balance, is about what stands. `DevengoIsWorthItsLines` needs `LinesInv`: lines are
of records that exist and finitely many, and the gross of a settlement is what its lines add up to.

### PayrollTx and Books

What a session found out by one statement stays true until it commits because it holds a lock that
whoever makes it false would need. `TxInv` says so request by request: what it has drafted by
each statement, which locks that took, what it may still rely on (`SettleInv` and its like), and
that locks of two sessions do not exclude each other. Then three facts: a commit changes only what
the session holds the lock for; what a session relies on, the commit of another leaves true; and
each statement takes a session from its invariant to the next. From them each commit, read
through the mapping, is a step of `Books` or a stutter: `BooksArePromised` is the refinement for any
number of sessions, of any requests, on any books that are in order.

Assumed: the books at the start are in order (`InOrder`: rows of their types, one live line per
record, a devengo for each settlement, each movement reversed once; half-void settlements are
allowed, as an import leaves them), and the ids a client mints are not those the server does
(`IdAssumption`). `ClaimedWorkStands` is not among the theorems: it is false (`tx_edit`).

`RetriesLearn` says that whoever sends a void or an advance again is not refused once the first copy
has committed. It needs `RetryInv`: a copy that has only looked holds nothing, so it waits for others
and nobody waits for it, and no deadlock can take it; whoever holds the key of an id was given that
id; and the reversal a void asks for is in the books only once the settlement is void, so a
copy that gets past the lock has written nothing yet. Its hypothesis is `OneRequestPerId`: clients
mint a random id for each thing they want and keep it for their retries (`writeOnce.ts`), so two
requests with one id are copies. TLC evaluates it on the scenes (`ScenesNameRequests`).

### SyncFeed

`NoHolesBelow` carries `BookInv`: a table holds the newest version its visible feed names and the
sweep never takes that row (`NewestStands`), what is in flight below a cursor was so when the cursor
went past (`Overtook`), a cursor that was handed out left a row with somebody (`KnownHands`), and a handset
whose row in the registry says it was served under a role lacks nothing that role may see
(`WholeAsServed`). `NoMoneyForWeighers` carries `MoneyInv`: a handset at cursor 0 holds no money
(`StartsClean`), and the row of one with money is an administrator's or carries an order to drop it
(`RowCovers`), so that the pull that notices a demotion is told to (`NoticesPurge`).

Both theorems are about every farm: handsets older than the registry, any number of promotions,
demotions and changes of hands, commits that fail. Neither holds of *every* handset: findings 2 and 5 to 8 are how, and most
of them were met when the proof would not go through. What is excepted is therefore
not a kind of farm but a handset to which something has happened, for as long as it lasts:
`misread` for both invariants (an old handset, one handed back, a commit that failed:
`sync_legacy`, `sync_handback`, `sync_commit`), `spared` for money (`sync_too_old`,
`sync_demoted`). `StartsClean` and `RowCovers` are conjuncts of the invariant and are proved, not
assumed. `SyncTyped` has no exception.

### SyncPush

A batch is a function defined along its envelopes. That it exists (`StepsCanBeTaken`), and that
what each step keeps holds all along (`StepByStep`), is proved as in `Sums`, by the first place where it
would fail. `EnvelopeDoes` is what the store functions come to: an envelope leaves the farm alone, or it
was applied and takes a worker on, removes a weighing, weighs or credits. Each of the four leaves the
books typed and in order, loses no row and rewrites no fact (`Keeps`), and puts nobody back on the
payroll but with a weighing that is new and later (`StaysOff`). The two compose (`GrowsOn`: a weighing that
is new after the first of two envelopes was not there before it, and after the second still is), so they
hold of a whole batch (`BatchRuns`), which is `TheRemovalWins`.

`FactsAreKept` is not inductive: an answer comes from the registry as well as from the books.
`FactInv` adds that what the registry remembers stands in the books (`Remembers`; this is why refusals are
not remembered and an opId is compared with its fingerprint), that a weighing in the books is what some
handset wrote down (`Agreed`), and that what waits or travels is too (`Honest`). Every answer that
reached a handset is in `told`; an answer whose commit failed puts its envelope in `unsaved`, and a
committed batch that gives the answer again takes it out, so what `ToldIsKept` excepts is an act
that no committed batch has performed and nothing else. `duplicate` is answered
for a weighing whose id is there, whatever else the envelope says (`handlers_sync.go:712`); so
`ToldIsKept` assumes `OneWeighingPerId`: nobody makes up one id for two weighings, which is what the code
relies on ("a retry cannot invent a second uuid", `handlers_sync.go:703`). A movement needs no such condition, because its row is compared. TLC evaluates the condition on the scenes
(`WeighingsHaveTheirIds`).

### Payday

`WorkIsSettledOnce` needs the books alone: a settlement that is served writes lines that are pending
at that moment (`TakesFree`), whichever page, console or late request it came from; a void or
reversal only ends facts. The others need `PaydayInv`. What an id may stand for is fixed when
it is minted - intent, request, person - and whatever carries it afterwards, a row, a late
request or a report, is of that fact (`Keys`, `Late`, `Reports`, `Named`). A run has free ids enough,
asks for what its intent says, and, for whoever was left alone since the check, what it is going
to write is still what is owed (`RunInv`, `AgreedRun`). An undo still has in front of it all that it
has not taken back, payments before settlements (`UndoRun`). `ReportsAreTrue` says whose write a
report names and, of the page of one person, which lines it took (`Named`); that its settlement is
of the gross that was approved could not be proved and is false (finding 9), and that the write
still stands is false too (finding 4).

### Handset

`NothingIsLost`: a weighing leaves the phone when an upload of it was accepted, and an upload is a
chain of steps that other tabs interleave with. `HandsetInv` says of every request under way whose
weighing it carries and that the books have it once its answer says so (`Requests`), and books only
grow (`Grows`). `NobodyThrownOut`: `SessionInv` says that tokens are numbered as they are issued,
that what a tab holds was issued, and that a session with no cause to end (`spoilt`) is one tab's
alone, which holds its one token that is good for a renewal or waits for the one
renewal that was accepted (`Sole`). So the renewal that is refused is of a session that had a cause.

### Stock

`StockInv` says what a transaction relies on between its look and its write: the movement it is about
is there and of the sale it is about (`Going`), the lists offer only movements that are of no sale
(`Offered`; this is why the console's `canReverse` matters), and of those past their unique key no
two write under the same one, which is still free (`Keyed`). `CommitKeeps` is the heart.
`TypedOnceWrittenOnce`: the id of an intent lives in the dialog, in the requests it sent and in the row
one of them wrote; the three are one mapping (`OneId`), no dialog has the number of an earlier
one (`Numbered`), and what a dialog has no id for was never sent (`Unsent`). `LevelsAddUp` and
`TheLookHolds` need `LevelInv`: a reversal is the mirror of what it takes back (`Mirror`), a
withdrawal past its guard still finds the level it looked at (`Looked`), because it and every other
writer hold locks on the product that exclude each other (`Apart`).

### Teams

`OneTeamADay` is not inductive, because a transaction decides on what it sees and commits later.
`TeamsInv` adds: no two transactions hold one membership or one person (`Apart`); what it made of a
membership it has locked is nothing, what is committed, or of a person it holds (`Known`); and among
the memberships of a person it holds, a transaction sees no two that meet (`Placed`). What others
commit meanwhile is of people they hold. `HistoryIsKept`: what a transaction makes of a membership
covers the same of the days it may not touch (`Good`). That survives the commits of others because
a list of members holds the row of its team, so nobody else sets that team (`FilesApart`), and
because an id used for the first time is one that no other transaction is going to come to
(`Reserved`). `TypeCorrect` says more than the kinds of the variables: a row of the table has
`from <= to`, which the table's CHECK sees to, and no statement of a list of members asks for a row
that has not (`Orders`, kept by `MemberSilent` and `WritesInOrder`), which is `closeUnwantedMembers`' doing:
it takes off what has not begun by the day and shortens only the rest.

### Model-checked only

- Liveness (`Converges`, `WeighingsArrive`, `GoesUp`, `Answered`): fairness and ENABLED are beyond
  TLAPS.
- The violations, which are counterexamples.

Every invariant and every action property of a run that passes is stated by a theorem.

## Findings

With a run that shows the violation:

1. **The horizon holds nothing back** (`sync_horizon`). `sync_horizon()`
   (`migrations/00021:31`) looks for the smallest seq whose transaction is not finished among
   the rows its own snapshot can see, and there are none. A pull between two commits that
   come in the other order loses a row for good (until it is written again or replayed).
2. **A handset that comes back** (`sync_handback`). The registry keeps a row per account and
   device and trusts a cursor because of it, also when somebody else used the handset in between.
3. **Edit against settlement** (`tx_edit`). The check for a live line and the write are two
   statements without a common lock.
4. **An undo leaves the ids** (`payday_report`). A run that stops halfway keeps its ids for
   "Reintentar", and undoing what got in retires none of them. The same figures approved again are
   the same intent: the API answers with the settlement that was voided, or the payment that was
   reversed, and the row is reported as done (`payroll/crew.ts:604`, `CrewPayrollPage.tsx:276`,
   `writeOnce.ts:115`), though `payroll/crew.ts:590` says that the report of a run that stops
   "can tell the truth: these got in".

The next five come with configurations that are run by hand; all but 8 were met when a proof
would not go through. In the runs that pass, what they concern is a named exception
(`misread`, `spared`, `unsaved`, the gross of one person's page), and everything else is checked and
proved around it:

5. **A handset from before the registry that is not unknown** (`sync_legacy`, `EveryBookIsComplete`).
   Once another client of the account has pulled, an old handset is judged by that client's row and its
   cursor is resumed, holes and all.
6. **Too old, then somebody else's** (`sync_too_old`, `WeighersHoldNoMoney`). `CURSOR_TOO_OLD` sends a
   handset to 0 without a purge, and whoever signs in on it meanwhile is a new client at 0.
7. **An order that covers a later one** (`sync_demoted`, `WeighersHoldNoMoney`). A standing order is
   repeated and written on the rows of the account with the role of today, so a demotion that comes before
   the replay of a promotion orders no purge of the other handset.
8. **The answer of a commit that failed** (`sync_commit`, `WeighersHoldNoMoney`; `push_commit`,
   `EveryAnswerStands`). The error of a commit is dropped (`tenant/tenant.go:265`), after the 200 was
   written. A pull that is answered so hands out a cursor the registry has no row for; a push that is
   answered so empties the outbox of acts that are nowhere.
9. **The price is in no id** (`payday_price`, `PaidOutOfTheApprovedGross`). A payment of one person is named
   by person, amount, method and lines and not by the gross it settles (`PayWorkerPage.tsx:205`), so
   the id of a settlement that was written, not answered and voided is sent again for another gross, and
   answered as done.

Met while modelling, without a doc or test that says otherwise, or outside a run:

- A settlement, a release and a reversal that are resent are refused, though they were done
  (`store/money.go:457`, `:1077`, `:1420`); a reversal by hand and a void at the same time can
  end in a 500 (`store/money.go:840`).
- The loser of two rival settlements is never told which settlement won: the query runs in
  the transaction its own unique violation has aborted (`store/money.go:584`).
- An order to replay is judged by the row it was written on: two handsets of one account that
  are both older than the registry can order each other to replay in turn
  (`store/sync_readers.go:169`, `:209`, `:262`).
- A weigher who removes his own weighing is answered `INTERNAL`, which handsets retry for ever
  (`httpapi/handlers_sync.go:707`, `migrations/00008_rls.sql:94`).
- A removal of a weighing whose creation was refused is answered `duplicate`; the creation is
  then accepted (`httpapi/handlers_sync.go:717`).
- A payment of the whole balance that is resent while its first copy is still running is
  refused with `AMOUNT_EXCEEDS_BALANCE` (`httpapi/handlers_money.go:670`); `ResentIsAnswered`
  leaves payments out for that reason.
- Edits of workers from a handset are undone: an update is answered `duplicate`, and
  `duplicate` rolls the savepoint back (`httpapi/handlers_sync.go:503`).
- *Payday.* The button that "reenvía los mismos identificadores" can seldom do so: the check
  finds that the crew has drifted and retires them. A settlement or payment whose answer
  was lost is in no undo. An undo whose payment could not be reversed still voids the
  settlement, and leaves a negative balance. On the page of one person, "nothing written" is
  wrong after `AMOUNT_EXCEEDS_BALANCE`: the settlement before it was
  (`PayWorkerPage.tsx:257`).
- *Handset.* A weighing whose save was served and not answered is kept on the phone too: taking
  it back says it was removed while it is on the books (`WeighingForm.tsx:316`). An upload
  that began for one farm goes on with the token of the next, is refused and marks the rows
  so (`queue.ts:46`). `putPending` after a refusal brings back a row removed meanwhile. A renewal
  that ends after the sign-out puts the tokens back; one that is not answered ends the session
  (`client.ts`), so "no signal is not a logout" is true of the start only; two tabs that renew
  the one stored token end their session.
- *Stock.* The tick that waives the guard stays ticked when its box is hidden, so a sale can
  waive it with no warning shown (`SaleFormDialog.tsx:304`). A resend that overlaps its first
  copy can be refused for want of stock, or be the victim of a deadlock, though the first got
  in. The API itself would reverse a sale's movement, and the sale could then not be voided.
- *Teams.* "A team is never a member" (`migrations/00040_teams.sql:18`) can be broken: the kind of
  a worker is read without a lock, so a person can be made a team while being added to one.
  A listed person whose membership ends on the day, or begins after it, counts as a
  member already and is left as they are (`store/teams.go:292`). A list dated later that overlaps the
  removal of a member it leaves out ends the membership the day before the list, and no
  longer on the day of the removal. Of two lists set from stale forms the last wins. Members are locked
  in the order of a Go map, so two lists of the same people can deadlock and one is answered 500.
  `EnsureNotInTeam` (`store/teams.go:153`) looks without a lock, and a membership may be dated
  back over personal work. A handset's push takes a worker off without ending their memberships
  (`httpapi/handlers_sync.go:605`).

## Not modelled, and why

The modules were written in this order: `Payroll`, `PayrollTx` with `Books`, `SyncFeed`,
`SyncPush`, `Payday`, `Handset`, `Stock`, `Teams`, each followed by its runs and then its proofs.

- **Most of `apps/web`, by lines.** `api/schema.ts` (13 000 lines) is generated from the API
  description; `api/endpoints.ts`, `wire.ts` and `types.ts` map fields one by one; the landing
  page and most screens of `features/` are forms that send one request and show its answer.
  They have no state that several steps share, so a model of them would restate them. What of
  the web application does have such state is in `Payday`, `Handset`, `Stock` and, for the form of a team,
  `Teams`.
- **The rest of teams.** The push of a handset, which removes and reactivates workers and leaves
  memberships alone; the look for a team when personal work is recorded; statistics by heads
  (`picker_ids`, `team_heads`), which only read.
- **Sync push by envelope.** A batch is one step of `SyncPush`, because each runs in one
  transaction; two that overlap and deadlock (`handlers_sync.go:415`) are not modelled beyond a
  batch that is lost.
- **Sessions inside PostgreSQL.** A renewal is one step. Inside, `rotateRefresh` spends the token
  with a conditional UPDATE, and the loser of two that overlap is answered 401 without the family
  being closed (`handlers_auth.go:1142`), while a copy that comes later closes it. The model cannot tell
  the two apart and leaves open which of them a second presentation is. The list of sessions, closing somebody else's, and
  passkeys are left out.
- **Prices.** The priority of special, plot, week and base price is a pure function over dated
  lists, fixed by golden cases that the Go and TypeScript sides both run; its effect, a price
  that changes between a look and a write, is in `Payroll` and `Payday`.
- **Money library** (`packages/shared`). Arithmetic on one amount; the same golden cases.
- **Provisioning.** Its outcomes are those of GitHub, Kubernetes and Cloudflare, which the code
  polls.
- **Uploads, OAuth, passkeys, signup, passwords, rate limits, mail.** Single conditional
  statements on single-use rows.
- **Reports, receipts, dashboards.** Read-only SQL. **Catalogs, plots, crops, expenses,
  customers.** Single-row writes with unique names. **Manifests, scripts, CI.** Not programs
  with state.

What could follow: the statements of two pushes that overlap.
