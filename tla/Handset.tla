------------------------------ MODULE Handset ------------------------------
(***************************************************************************)
(* The web application on one phone: its tabs, the weighings kept on the   *)
(* phone while there is no signal, and the session each tab is in.         *)
(*                                                                         *)
(* The queue (IndexedDB) and the stored session (localStorage) are one per *)
(* phone.  Each tab has a copy of its own: the tokens it read when it was  *)
(* opened, who it believes is signed in, and the list of waiting weighings *)
(* it last read.  A request is sent with the tokens the tab has at that    *)
(* moment, may be answered, may be lost on the way out or on the way back, *)
(* and is sent once more after the session is renewed.                     *)
(*                                                                         *)
(* The API is seen from outside.  Whether the phone believes that it has   *)
(* signal decides nothing but whether a weighing is sent or kept first, so *)
(* both are possible.  The uploads go in any order: the code's order is    *)
(* that of typing, and nothing here depends on it.                         *)
(***************************************************************************)
EXTENDS Integers, FiniteSets

CONSTANTS
    Weighing,     \* weighings that may be typed
    Farm,         \* the farms of the person who holds the phone
    Home,         \* the farm each weighing is taken on
    Barred,       \* weighings the API may refuse: a paid week, a lote that is gone
    Tab,          \* the tabs of the application
    MaxToken,     \* bound: refresh tokens ever issued
    Scene,        \* bound: the tabs that are opened, the farms signed in to, whether
                  \* other screens are looked at, what is weighed and how many tokens
                  \* are issued in one behaviour
    Refused,      \* the answer to a renewal: the session is closed
    Lost,         \* no answer to a renewal
    None          \* nothing: no job, no farm remembered, no token issued

ASSUME HomeAssumption == Home \in [Weighing -> Farm]
ASSUME BarredAssumption == Barred \subseteq Weighing
ASSUME MaxTokenAssumption == MaxToken \in Nat
ASSUME SceneAssumption ==
    Scene \subseteq [tabs : SUBSET Tab, farms : SUBSET Farm, looks : BOOLEAN,
                    weighings : SUBSET Weighing, tokens : 0..MaxToken]
ASSUME NoneAssumption == None \notin Farm \cup Weighing \cup Nat

VARIABLES
    record,       \* the API: each weighing on its farm's books
    token,        \* the API: the refresh tokens issued
    queue,        \* the phone: the weighings kept on it
    stored,       \* the phone: the token in storage, 0 when there is none
    last,         \* the phone: the farm of the last person it saw signed in
    user,         \* by tab: the farm it is signed in to, or how it is not
    cred,         \* by tab: the token it holds, 0 when it holds none
    mount,        \* by tab: the upload slot of the screens now shown
    list,         \* by tab: the waiting weighings as it last read them
    mine,         \* by tab: what its weighing screen lists as just saved
    job,          \* by tab and slot: the request under way and what is left
    renewal,      \* by tab: the renewal of the session that is under way
    told,         \* what the person was last told about each weighing
    spoilt,       \* sessions with a cause to end early; only properties read it
    scene         \* the scene of this behaviour

session == <<token, stored, last, user, cred, mount, renewal, spoilt, scene>>
vars == <<record, token, queue, stored, last, user, cred, mount, list, mine, job,
          renewal, told, spoilt, scene>>

-----------------------------------------------------------------------------
(* Types. *)

Token == 1..MaxToken
Kept == {"none", "waiting", "refused"}
Upload == {"first", "second"}
Slot == Upload \cup {"form"}

Signed == [farm : Farm, family : Token, fresh : BOOLEAN, state : {"live", "spent", "revoked"}]
Job == [kind : {"me", "load", "save", "undo", "flush"}, w : Weighing \cup {None},
        rest : SUBSET Weighing, farm : Farm \cup {None},
        at : {"ready", "expired", "again", "ok", "refused", "later"}]
Renewal == [given : Token, got : Token \cup {Refused, Lost, None}]

Nothing == [w \in Weighing |-> "none"]

ASSUME RowsAssumption == None \notin Signed /\ None \notin Job /\ None \notin Renewal
ASSUME AnswerAssumption == Refused \notin Nat \cup {None} /\ Lost \notin Nat \cup {None}
ASSUME FarmAssumption == Farm \cap {"closed", "loading", "out", "thrown"} = {}

In(t) == user[t] \in Farm

-----------------------------------------------------------------------------
(* The API. *)

Issued == {k \in Token : token[k] # None}
NewToken == Cardinality(Issued) + 1

Family(k) == {i \in Issued : token[i].family = token[k].family}
Revoked(k) ==
    [i \in Token |-> IF i \in Family(k) THEN [token[i] EXCEPT !.state = "revoked"] ELSE token[i]]

Fresh(k) == k # 0 /\ token[k].fresh

\* What the API may answer to a request of j that carries the token k.
Answers(j, k) ==
    IF ~Fresh(k) THEN {"expired"}
    ELSE IF j.kind \in {"me", "load"} THEN {"ok"}
    ELSE IF token[k].farm # Home[j.w] THEN {"refused"}
    ELSE IF j.kind = "undo" THEN {IF record[j.w] = "live" THEN "ok" ELSE "refused"}
    ELSE IF record[j.w] = "none" /\ j.w \in Barred THEN {"ok", "refused"}
    ELSE {"ok"}

\* The books once a request of j was accepted.
Written(j) ==
    IF j.kind = "undo" THEN [record EXCEPT ![j.w] = "gone"]
    ELSE IF j.kind \in {"save", "flush"} /\ record[j.w] = "none"
         THEN [record EXCEPT ![j.w] = "live"]
    ELSE record

-----------------------------------------------------------------------------
(* The tab. *)

Listed(q, farm) == [w \in Weighing |-> IF Home[w] = farm THEN q[w] ELSE "none"]

\* The upload of what waits, from one reading of the queue.
Flush(q, farm) ==
    LET waiting == {w \in Weighing : Listed(q, farm)[w] = "waiting"} IN
    IF waiting = {} THEN None
    ELSE [kind |-> "flush", w |-> None, rest |-> waiting, farm |-> farm, at |-> "ready"]

FormJob(kind, w, farm) == [kind |-> kind, w |-> w, rest |-> {}, farm |-> farm, at |-> "ready"]

\* The screens of the application appear, signed in to farm: the waiting
\* weighings are read, and an upload starts in a slot of its own, which one
\* that outlived earlier screens does not take.  Bound: two uploads in a tab.
Mounted(t, farm, jobs) ==
    \E s \in Upload :
        /\ job[t, s] = None
        /\ s = "second" => job[t, "first"] # None
        /\ user' = [user EXCEPT ![t] = farm]
        /\ mount' = [mount EXCEPT ![t] = s]
        /\ list' = [list EXCEPT ![t] = Listed(queue, farm)]
        /\ job' = [jobs EXCEPT ![<<t, s>>] = Flush(queue, farm)]

\* The tab shows no screen of the application any more.  What it was sending
\* goes on.
Unmounted(t, how) ==
    /\ user' = [user EXCEPT ![t] = how]
    /\ mount' = [mount EXCEPT ![t] = None]
    /\ list' = [list EXCEPT ![t] = Nothing]
    /\ mine' = [mine EXCEPT ![t] = {}]

\* The tab and the phone forget the session.
Forgotten(t) ==
    /\ cred' = [cred EXCEPT ![t] = 0]
    /\ stored' = 0
    /\ last' = None

\* The client gives the session up: the person is sent to the login, and told
\* nothing of the requests in dead.
SentToLogin(t, dead) ==
    /\ Forgotten(t)
    /\ Unmounted(t, IF In(t) \/ user[t] = "loading" THEN "thrown" ELSE user[t])
    /\ job' = [x \in Tab \X Slot |-> IF x[1] = t /\ x[2] \in dead THEN None ELSE job[x]]

\* What t shows once a job of its own has changed the queue to q.
Reread(t, q) ==
    IF In(t) THEN [list EXCEPT ![t] = Listed(q, user[t])] ELSE list

-----------------------------------------------------------------------------
(* Sessions. *)

\* A tab is opened, or read again from the start.
Open(t) ==
    /\ user[t] = "closed"
    /\ t \in scene.tabs
    /\ cred' = [cred EXCEPT ![t] = stored]
    /\ user' = [user EXCEPT ![t] = IF stored = 0 THEN "out" ELSE "loading"]
    /\ job' = [job EXCEPT ![<<t, "form">>] = IF stored = 0 THEN None ELSE FormJob("me", None, None)]
    /\ spoilt' = spoilt \cup {token[cred[u]].family : u \in {v \in Tab :
                      stored # 0 /\ cred[v] \in Family(stored)}}
    /\ UNCHANGED <<record, token, queue, stored, last, mount, list, mine, renewal, told, scene>>

Close(t) ==
    /\ user[t] # "closed"
    /\ Unmounted(t, "closed")
    /\ cred' = [cred EXCEPT ![t] = 0]
    /\ job' = [x \in Tab \X Slot |-> IF x[1] = t THEN None ELSE job[x]]
    /\ renewal' = [renewal EXCEPT ![t] = None]
    /\ spoilt' = IF renewal[t] = None THEN spoilt
                 ELSE spoilt \cup {token[renewal[t].given].family}
    /\ UNCHANGED <<record, token, queue, stored, last, told, scene>>

\* The person signs in.  Bound: what a screen was sending has ended by then.
Login(t, f) ==
    /\ user[t] \in {"out", "thrown"}
    /\ f \in scene.farms
    /\ job[t, "form"] = None
    /\ NewToken <= scene.tokens
    /\ token' = [token EXCEPT ![NewToken] =
                    [farm |-> f, family |-> NewToken, fresh |-> TRUE, state |-> "live"]]
    /\ cred' = [cred EXCEPT ![t] = NewToken]
    /\ stored' = NewToken
    /\ last' = f
    /\ Mounted(t, f, job)
    /\ spoilt' = IF renewal[t] = None THEN spoilt ELSE spoilt \cup {NewToken}
    /\ UNCHANGED <<record, queue, mine, renewal, told, scene>>

\* The person signs out, whether the API is reached or not.
Logout(t) ==
    /\ In(t)
    /\ \/ token' = Revoked(cred[t])
       \/ token' = token
    /\ Forgotten(t)
    /\ Unmounted(t, "out")
    /\ spoilt' = spoilt \cup {token[cred[t]].family}
    /\ UNCHANGED <<record, queue, job, renewal, told, scene>>

\* Fifteen minutes go by, and none of them between a renewal and what waits
\* for it.
Expire(k) ==
    /\ k \in Issued
    /\ Fresh(k)
    /\ \A t \in Tab :
        /\ cred[t] = k => \A s \in Slot : job[t, s] # None => job[t, s].at # "again"
        /\ renewal[t] # None => renewal[t].got # k
    /\ token' = [token EXCEPT ![k].fresh = FALSE]
    /\ UNCHANGED <<record, queue, stored, last, user, cred, mount, list, mine, job,
                   renewal, told, spoilt, scene>>

\* The API answers a renewal: a token is good for one, and one that was used
\* closes every token of its family, but for the loser of two renewals that
\* overlap in the API, which closes nothing.  Which of the two a late one is
\* depends on when the API read the token, and is left open.
RenewalServed(t) ==
    /\ renewal[t] # None
    /\ renewal[t].got = None
    /\ LET k == renewal[t].given
           Get(answer) == renewal' = [renewal EXCEPT ![t].got = answer]
       IN \/ /\ token[k].state = "live"
             /\ NewToken <= scene.tokens
             /\ token' = [token EXCEPT
                    ![k].state = "spent",
                    ![NewToken] = [token[k] EXCEPT !.fresh = TRUE]]
             /\ \/ Get(NewToken) /\ UNCHANGED spoilt
                \/ Get(Lost) /\ spoilt' = spoilt \cup {token[k].family}
          \/ /\ token[k].state # "live"
             /\ token' \in {token} \cup (IF token[k].state = "spent" THEN {Revoked(k)} ELSE {})
             /\ Get(Refused)
             /\ UNCHANGED spoilt
          \/ /\ Get(Lost)
             /\ spoilt' = spoilt \cup {token[k].family}
             /\ UNCHANGED token
    /\ UNCHANGED <<record, queue, stored, last, user, cred, mount, list, mine, job, told, scene>>

\* The requests of t that wait for its renewal.
Awaiting(t) == {s \in Slot : job[t, s] # None /\ job[t, s].at = "expired"}

Renewed(t) ==
    /\ renewal[t] # None
    /\ renewal[t].got \in Token
    /\ cred' = [cred EXCEPT ![t] = renewal[t].got]
    /\ stored' = renewal[t].got
    /\ renewal' = [renewal EXCEPT ![t] = None]
    /\ job' = [x \in Tab \X Slot |-> IF x[1] = t /\ x[2] \in Awaiting(t)
                                     THEN [job[x] EXCEPT !.at = "again"] ELSE job[x]]
    /\ UNCHANGED <<record, token, queue, last, user, mount, list, mine, told, spoilt, scene>>

NotRenewed(t) ==
    /\ renewal[t] # None
    /\ renewal[t].got \in {Refused, Lost}
    /\ renewal' = [renewal EXCEPT ![t] = None]
    /\ SentToLogin(t, Awaiting(t))
    /\ UNCHANGED <<record, token, queue, told, spoilt, scene>>

-----------------------------------------------------------------------------
(* Requests. *)

\* The request j sends next: an upload takes one weighing of the rest.
Sending(j) ==
    IF j.kind = "flush" /\ j.w = None
    THEN {[j EXCEPT !.w = w, !.rest = j.rest \ {w}] : w \in j.rest}
    ELSE {j}

\* Mutant: each request that finds the session expired renews it by itself.
RenewingEach(t) == [given |-> cred[t], got |-> None]

\* A request that finds the session expired: one renewal serves them all.
Renewing(t) == IF renewal[t] = None THEN [given |-> cred[t], got |-> None] ELSE renewal[t]

Answered(t, s) ==
    /\ job[t, s] # None
    /\ job[t, s].at \in {"ready", "again"}
    /\ \E j \in Sending(job[t, s]) : \E answer \in Answers(j, cred[t]) :
        \/ /\ answer = "expired"
           /\ cred[t] = 0 \/ j.at = "again"
           /\ SentToLogin(t, {s})
           /\ UNCHANGED <<record, renewal>>
        \/ /\ answer = "expired"
           /\ cred[t] # 0 /\ j.at = "ready"
           /\ job' = [job EXCEPT ![<<t, s>>] = [j EXCEPT !.at = "expired"]]
           /\ renewal' = [renewal EXCEPT ![t] = Renewing(t)]
           /\ UNCHANGED <<record, stored, last, user, cred, mount, list, mine>>
        \/ /\ answer # "expired"
           /\ record' = IF answer = "ok" THEN Written(j) ELSE record
           /\ job' = [job EXCEPT ![<<t, s>>] =
                [j EXCEPT !.at = answer, !.farm = IF j.kind = "me" THEN token[cred[t]].farm ELSE @]]
           /\ UNCHANGED <<stored, last, user, cred, mount, list, mine, renewal>>
    /\ UNCHANGED <<token, queue, told, spoilt, scene>>

\* No answer that says anything of the request: it, or what the API answered to
\* it, was lost, or the API was in trouble (a 500, a 429).
Unanswered(t, s) ==
    /\ job[t, s] # None
    /\ job[t, s].at \in {"ready", "again"}
    /\ \E j \in Sending(job[t, s]) :
        /\ \/ "ok" \in Answers(j, cred[t]) /\ record' = Written(j)
           \/ record' = record
        /\ job' = [job EXCEPT ![<<t, s>>] = [j EXCEPT !.at = "later"]]
    /\ UNCHANGED <<token, queue, stored, last, user, cred, mount, list, mine, renewal, told, spoilt, scene>>

\* The application starts: as who the API says, or as who the phone recalls when
\* it is not reached.  The API in trouble, or nobody recalled, ends the session.
Started(t) ==
    /\ job[t, "form"] # None
    /\ job[t, "form"].kind = "me"
    /\ \/ /\ job[t, "form"].at = "ok"
          /\ last' = job[t, "form"].farm
          /\ Mounted(t, job[t, "form"].farm, [job EXCEPT ![<<t, "form">>] = None])
          /\ UNCHANGED <<stored, cred, mine>>
       \/ /\ job[t, "form"].at = "later"
          /\ last # None
          /\ Mounted(t, last, [job EXCEPT ![<<t, "form">>] = None])
          /\ UNCHANGED <<stored, last, cred, mine>>
       \/ /\ job[t, "form"].at = "later"
          /\ SentToLogin(t, {"form"})
    /\ UNCHANGED <<record, token, queue, renewal, told, spoilt, scene>>

\* Another screen reads what it shows.
Look(t) ==
    /\ In(t)
    /\ scene.looks
    /\ job[t, "form"] = None
    /\ job' = [job EXCEPT ![<<t, "form">>] = FormJob("load", None, user[t])]
    /\ UNCHANGED <<record, queue, list, mine, told, session>>

LookEnds(t) ==
    /\ job[t, "form"] # None
    /\ job[t, "form"].kind = "load"
    /\ job[t, "form"].at \in {"ok", "later"}
    /\ job' = [job EXCEPT ![<<t, "form">>] = None]
    /\ UNCHANGED <<record, queue, list, mine, told, session>>

-----------------------------------------------------------------------------
(* Weighing. *)

\* What a save does with w when it is kept on the phone.
Keep(t, w) ==
    /\ queue' = [queue EXCEPT ![w] = "waiting"]
    /\ list' = Reread(t, queue')

\* The screen lists w as saved, if it is still there.
ShownSaved(t, w) ==
    IF In(t)
    THEN /\ told' = [told EXCEPT ![w] = "saved"]
         /\ mine' = [mine EXCEPT ![t] = @ \cup {w}]
    ELSE UNCHANGED <<told, mine>>

\* The person types a weighing and saves it: it is sent, or kept at once.
Save(t, w) ==
    /\ In(t)
    /\ w \in scene.weighings
    /\ Home[w] = user[t]
    /\ job[t, "form"] = None
    /\ told[w] = "no" /\ queue[w] = "none" /\ record[w] = "none"
    /\ \A x \in Tab \X Slot : job[x] # None => job[x].w # w
    /\ \/ /\ job' = [job EXCEPT ![<<t, "form">>] = FormJob("save", w, user[t])]
          /\ UNCHANGED <<queue, list, told, mine>>
       \/ /\ Keep(t, w)
          /\ ShownSaved(t, w)
          /\ UNCHANGED job
    /\ UNCHANGED <<record, session>>

SaveEnds(t) ==
    /\ job[t, "form"] # None
    /\ job[t, "form"].kind = "save"
    /\ job' = [job EXCEPT ![<<t, "form">>] = None]
    /\ LET w == job[t, "form"].w IN
       \/ /\ job[t, "form"].at = "ok"
          /\ ShownSaved(t, w)
          /\ UNCHANGED <<queue, list>>
       \/ /\ job[t, "form"].at = "later"
          /\ Keep(t, w)
          /\ ShownSaved(t, w)
       \/ /\ job[t, "form"].at = "refused"
          /\ UNCHANGED <<queue, list, told, mine>>
    /\ UNCHANGED <<record, session>>

\* The person takes back a weighing the screen lists as saved: off the phone
\* if the list still has it as waiting, else from the books.
Undo(t, w) ==
    /\ In(t)
    /\ w \in mine[t]
    /\ job[t, "form"] = None
    /\ \/ /\ list[t][w] # "none"
          /\ queue' = [queue EXCEPT ![w] = "none"]
          /\ list' = Reread(t, queue')
          /\ told' = [told EXCEPT ![w] = "undone"]
          /\ mine' = [mine EXCEPT ![t] = @ \ {w}]
          /\ UNCHANGED job
       \/ /\ list[t][w] = "none"
          /\ job' = [job EXCEPT ![<<t, "form">>] = FormJob("undo", w, user[t])]
          /\ UNCHANGED <<queue, list, told, mine>>
    /\ UNCHANGED <<record, session>>

UndoEnds(t) ==
    /\ job[t, "form"] # None
    /\ job[t, "form"].kind = "undo"
    /\ job[t, "form"].at \in {"ok", "refused", "later"}
    /\ job' = [job EXCEPT ![<<t, "form">>] = None]
    /\ LET w == job[t, "form"].w IN
       IF job[t, "form"].at = "ok"
       THEN /\ told' = [told EXCEPT ![w] = "undone"]
            /\ mine' = [mine EXCEPT ![t] = @ \ {w}]
       ELSE UNCHANGED <<told, mine>>
    /\ UNCHANGED <<record, queue, list, session>>

\* The person gives up a weighing that was refused.
Drop(t, w) ==
    /\ In(t)
    /\ list[t][w] = "refused"
    /\ queue' = [queue EXCEPT ![w] = "none"]
    /\ list' = Reread(t, queue')
    /\ told' = [told EXCEPT ![w] = "dropped"]
    /\ UNCHANGED <<record, mine, job, session>>

-----------------------------------------------------------------------------
(* Uploading. *)

\* The connection is back, the tab is in front again, or a button is pressed:
\* nothing happens while an upload of these screens is under way.  The screen
\* reads the queue when the upload is over, at once if there is nothing to send.
StartFlush(t) ==
    /\ In(t)
    /\ job[<<t, mount[t]>>] = None
    /\ job' = [job EXCEPT ![<<t, mount[t]>>] = Flush(queue, user[t])]
    /\ list' = IF Flush(queue, user[t]) = None THEN Reread(t, queue) ELSE list
    /\ UNCHANGED <<record, queue, mine, told, session>>

\* Mutant: the timer stops as soon as something was refused.
TickUnlessRefused(t) ==
    /\ \E w \in Weighing : list[t][w] = "waiting"
    /\ \A w \in Weighing : list[t][w] # "refused"
    /\ StartFlush(t)

\* Thirty seconds go by with something waiting, as the tab knows it.
Tick(t) ==
    /\ \E w \in Weighing : list[t][w] = "waiting"
    /\ StartFlush(t)

\* Mutant: the row is written back with whatever the answer was.
AfterAnswerKept(j) == [queue EXCEPT ![j.w] = j.at]

\* Mutant: a weighing that is refused leaves the phone.
AfterAnswerForgotten(j) == [queue EXCEPT ![j.w] = "none"]

\* The queue after the answer to an upload: a refused weighing is written back
\* with the reason, whether it is still there or not.
AfterAnswer(j) == [queue EXCEPT ![j.w] = IF j.at = "ok" THEN "none" ELSE "refused"]

FlushGoesOn(t, s) ==
    /\ job[t, s] # None
    /\ job[t, s].kind = "flush"
    /\ job[t, s].at \in {"ok", "refused"}
    /\ queue' = AfterAnswer(job[t, s])
    /\ IF job[t, s].rest # {}
       THEN /\ job' = [job EXCEPT ![<<t, s>>] = [@ EXCEPT !.w = None, !.at = "ready"]]
            /\ UNCHANGED list
       ELSE /\ job' = [job EXCEPT ![<<t, s>>] = None]
            /\ list' = IF mount[t] = s THEN Reread(t, queue') ELSE list
    /\ UNCHANGED <<record, mine, told, session>>

\* No answer: everything that is left stays for later.
FlushStops(t, s) ==
    /\ job[t, s] # None
    /\ job[t, s].kind = "flush"
    /\ job[t, s].at = "later"
    /\ job' = [job EXCEPT ![<<t, s>>] = None]
    /\ list' = IF mount[t] = s THEN Reread(t, queue) ELSE list
    /\ UNCHANGED <<record, queue, mine, told, session>>

-----------------------------------------------------------------------------
Init ==
    /\ record = [w \in Weighing |-> "none"]
    /\ token = [k \in Token |-> None]
    /\ queue = Nothing
    /\ stored = 0
    /\ last = None
    /\ user = [t \in Tab |-> "closed"]
    /\ cred = [t \in Tab |-> 0]
    /\ mount = [t \in Tab |-> None]
    /\ list = [t \in Tab |-> Nothing]
    /\ mine = [t \in Tab |-> {}]
    /\ job = [x \in Tab \X Slot |-> None]
    /\ renewal = [t \in Tab |-> None]
    /\ told = [w \in Weighing |-> "no"]
    /\ spoilt = {}
    /\ scene \in Scene

\* What a tab does by itself while something of its own is under way.
CarriesOn(t) ==
    \/ RenewalServed(t) \/ Renewed(t) \/ NotRenewed(t)
    \/ \E s \in Upload : FlushGoesOn(t, s) \/ FlushStops(t, s)

Next ==
    \/ \E k \in Token : Expire(k)
    \/ \E t \in Tab :
        \/ Open(t) \/ Close(t) \/ Logout(t)
        \/ \E f \in Farm : Login(t, f)
        \/ CarriesOn(t)
        \/ \E s \in Slot : Answered(t, s) \/ Unanswered(t, s)
        \/ Started(t) \/ Look(t) \/ LookEnds(t) \/ SaveEnds(t) \/ UndoEnds(t)
        \/ \E w \in Weighing : Save(t, w) \/ Undo(t, w) \/ Drop(t, w)
        \/ StartFlush(t) \/ Tick(t)

\* An open tab runs: its timer fires and its requests are carried through.  A
\* network that is tried again and again answers at last.
Fairness ==
    \A t \in Tab :
        /\ WF_vars(CarriesOn(t))
        /\ WF_vars(Tick(t))
        /\ SF_vars(\E s \in Upload : Answered(t, s))

Spec == Init /\ [][Next]_vars /\ Fairness

-----------------------------------------------------------------------------
(* Properties. *)

\* Every variable holds values of the kinds the code stores in it.
TypeOK ==
    /\ record \in [Weighing -> {"none", "live", "gone"}]
    /\ token \in [Token -> Signed \cup {None}]
    /\ queue \in [Weighing -> Kept]
    /\ stored \in Token \cup {0}
    /\ last \in Farm \cup {None}
    /\ user \in [Tab -> Farm \cup {"closed", "loading", "out", "thrown"}]
    /\ cred \in [Tab -> Token \cup {0}]
    /\ mount \in [Tab -> Upload \cup {None}]
    /\ list \in [Tab -> [Weighing -> Kept]]
    /\ mine \in [Tab -> SUBSET Weighing]
    /\ job \in [Tab \X Slot -> Job \cup {None}]
    /\ renewal \in [Tab -> Renewal \cup {None}]
    /\ told \in [Weighing -> {"no", "saved", "undone", "dropped"}]
    /\ spoilt \subseteq Token
    /\ scene \in Scene

\* A weighing the screen called saved is never lost: until the person takes it
\* back it is on the phone or on its farm's books, whatever happens to the
\* tabs, the network and the session (queue.ts: "Nothing is ever dropped
\* without a person seeing it").
NothingLost ==
    \A w \in Weighing : told[w] = "saved" => queue[w] # "none" \/ record[w] # "none"

\* The application sends nobody who is signed in to the login page, unless two
\* tabs shared the session, the person signed out of it, or a renewal went
\* unanswered, outlived its tab or outlived its session: several requests that
\* find a session expired do not end it together (client.ts: "exactly one
\* refresh, shared by every request that was in flight").
ThrownOutForCause ==
    [][\A t \in Tab : In(t) /\ user'[t] = "thrown" =>
            cred[t] # 0 /\ token[cred[t]].family \in spoilt']_vars

\* What a tab shows as waiting to be uploaded is uploaded, or refused, or taken
\* back, for as long as the tab stays signed in (OfflineContext.tsx: "It
\* uploads on its own").
GoesUp ==
    \A t \in Tab, w \in Weighing :
        list[t][w] = "waiting" ~> queue[w] # "waiting" \/ ~In(t)

=============================================================================
