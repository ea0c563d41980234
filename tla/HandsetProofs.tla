---------------------------- MODULE HandsetProofs ---------------------------
(***************************************************************************)
(* What holds of Handset for any weighings, farms, tabs and bounds.        *)
(***************************************************************************)
EXTENDS Handset, FiniteSetTheorems, TLAPS

(***************************************************************************)
(* A weighing leaves the phone after an upload that was accepted.  So what *)
(* has to be known of every request on its way is whose weighing it        *)
(* carries, and that the books have it once the answer says so.  Of types, *)
(* only the shape of the rows is needed.                                   *)
(***************************************************************************)
Like(j) == [kind : {j.kind}, w : {j.w}, rest : {j.rest}, farm : {j.farm}, at : {j.at}]

Carries(j, books) ==
    /\ j \in Like(j)
    /\ j.kind = "save" => j.w \in Weighing
    /\ j.kind = "flush" => /\ j.rest \subseteq Weighing
                           /\ j.w \in Weighing \/ (j.w = None /\ j.at = "ready")
    /\ j.kind \in {"save", "flush"} /\ j.at = "ok" => books[j.w] # "none"

Rows ==
    /\ record = [w \in Weighing |-> record[w]]
    /\ queue = [w \in Weighing |-> queue[w]]
    /\ told = [w \in Weighing |-> told[w]]
    /\ job = [x \in Tab \X Slot |-> job[x]]

Requests == \A x \in Tab \X Slot : job[x] # None => Carries(job[x], record)

HandsetInv == Rows /\ Requests /\ NothingLost

\* What is on the books, deleted or not, stays on them.
Grows == \A w \in Weighing : record[w] # "none" => record'[w] # "none"

LEMMA CarriesOnBooks ==
    ASSUME NEW j, Carries(j, record), Grows
    PROVE  Carries(j, record')
BY DEF Carries, Grows

LEMMA NewForm ==
    ASSUME NEW kind, NEW w, NEW farm, NEW books, kind # "flush", kind = "save" => w \in Weighing
    PROVE  Carries(FormJob(kind, w, farm), books)
BY DEF Carries, Like, FormJob

LEMMA NewFlush ==
    ASSUME NEW q, NEW farm, NEW books, Flush(q, farm) # None
    PROVE  Carries(Flush(q, farm), books)
<1> DEFINE waiting == {w \in Weighing : Listed(q, farm)[w] = "waiting"}
<1>1. waiting \subseteq Weighing
  OBVIOUS
<1>2. Flush(q, farm) =
        [kind |-> "flush", w |-> None, rest |-> waiting, farm |-> farm, at |-> "ready"]
  BY DEF Flush
<1> HIDE DEF waiting
<1> QED
  BY <1>1, <1>2 DEF Carries, Like

\* The request that is sent carries a weighing, if that is what it is for.
LEMMA Sends ==
    ASSUME NEW j, Carries(j, record), NEW i \in Sending(j)
    PROVE  /\ i \in [kind : {j.kind}, w : {i.w}, rest : {i.rest}, farm : {j.farm}, at : {j.at}]
           /\ j.kind = "save" => i.w \in Weighing
           /\ j.kind = "flush" => i.w \in Weighing /\ i.rest \subseteq Weighing
<1>1. CASE j.kind = "flush" /\ j.w = None
  <2> PICK w \in j.rest : i = [j EXCEPT !.w = w, !.rest = j.rest \ {w}]
    BY <1>1 DEF Sending
  <2> QED
    BY <1>1 DEF Carries, Like
<1>2. CASE ~(j.kind = "flush" /\ j.w = None)
  BY <1>2 DEF Carries, Like, Sending
<1> QED
  BY <1>1, <1>2

\* Once sent it has an answer, and still carries that weighing.
LEMMA Answering ==
    ASSUME NEW j, Carries(j, record), NEW i \in Sending(j), NEW a, NEW farm, NEW books,
           NEW k \in [kind : {i.kind}, w : {i.w}, rest : {i.rest}, farm : {farm}, at : {a}],
           a = "ok" /\ i.kind \in {"save", "flush"} => books[i.w] # "none"
    PROVE  Carries(k, books)
<1>1. i.kind = j.kind
  BY Sends
<1>4. k.kind = j.kind /\ k.w = i.w /\ k.rest = i.rest /\ k.at = a
  BY <1>1
<1>3. k \in Like(k)
  BY DEF Like
<1>2. /\ k.kind = "save" => k.w \in Weighing
      /\ k.kind = "flush" => k.w \in Weighing /\ k.rest \subseteq Weighing
  BY <1>4, Sends
<1> QED
  BY <1>1, <1>2, <1>3, <1>4 DEF Carries

\* A step that leaves the books, the queue and what was told alone.
LEMMA JobsOnly ==
    ASSUME HandsetInv, UNCHANGED <<record, queue, told>>,
           job' = [x \in Tab \X Slot |-> job'[x]],
           \A x \in Tab \X Slot : job'[x] # None => job'[x] = job[x] \/ Carries(job'[x], record)
    PROVE  HandsetInv'
<1>1. Rows'
  BY DEF HandsetInv, Rows
<1>2. Requests'
  BY DEF HandsetInv, Requests, Carries
<1>3. NothingLost'
  BY DEF HandsetInv, NothingLost
<1> QED
  BY <1>1, <1>2, <1>3 DEF HandsetInv

\* One slot of one tab gets a request that carries what it should.
LEMMA OneJob ==
    ASSUME HandsetInv, UNCHANGED <<record, queue, told>>, NEW x \in Tab \X Slot, NEW j,
           job' = [job EXCEPT ![x] = j], j # None => Carries(j, record)
    PROVE  HandsetInv'
<1>1. job' = [y \in Tab \X Slot |-> job'[y]] /\ \A y \in Tab \X Slot : job'[y] = IF y = x THEN j ELSE job[y]
  BY DEF HandsetInv, Rows
<1> QED
  BY <1>1, JobsOnly

\* Screens that appear, with or without what was under way in the form.
LEMMA MountedKeeps ==
    ASSUME HandsetInv, UNCHANGED <<record, queue, told>>, NEW t \in Tab, NEW farm, NEW jobs,
           jobs \in {job, [job EXCEPT ![<<t, "form">>] = None]}, Mounted(t, farm, jobs)
    PROVE  HandsetInv'
<1>1. PICK s \in Upload : job' = [jobs EXCEPT ![<<t, s>>] = Flush(queue, farm)]
  BY DEF Mounted
<1>2. jobs = [x \in Tab \X Slot |-> jobs[x]] /\ \A x \in Tab \X Slot : jobs[x] \in {job[x], None}
  BY DEF HandsetInv, Rows
<1>3. job' = [x \in Tab \X Slot |-> job'[x]]
      /\ \A x \in Tab \X Slot : job'[x] = IF x = <<t, s>> THEN Flush(queue, farm) ELSE jobs[x]
  BY <1>1, <1>2
<1>4. Flush(queue, farm) # None => Carries(Flush(queue, farm), record)
  BY NewFlush
<1> QED
  BY <1>2, <1>3, <1>4, JobsOnly

\* Whoever is sent to the login loses requests and nothing else.
LEMMA ThrownKeeps ==
    ASSUME HandsetInv, UNCHANGED <<record, queue, told>>, NEW t, NEW dead, SentToLogin(t, dead)
    PROVE  HandsetInv'
<1>1. job' = [x \in Tab \X Slot |-> IF x[1] = t /\ x[2] \in dead THEN None ELSE job[x]]
  BY DEF SentToLogin
<1> QED
  BY <1>1, JobsOnly

LEMMA SessionSteps ==
    ASSUME HandsetInv, NEW t \in Tab,
           Open(t) \/ Close(t) \/ Logout(t) \/ (\E f \in Farm : Login(t, f))
             \/ RenewalServed(t) \/ Renewed(t) \/ NotRenewed(t) \/ Started(t)
    PROVE  HandsetInv'
<1> <<t, "form">> \in Tab \X Slot
  BY DEF Slot
<1>1. CASE Open(t)
  <2>1. FormJob("me", None, None) # None => Carries(FormJob("me", None, None), record)
    BY NewForm
  <2> QED
    BY <1>1, <2>1, OneJob DEF Open
<1>2. CASE Close(t)
  BY <1>2, JobsOnly DEF Close
<1>3. CASE Logout(t)
  <2> job' = job /\ UNCHANGED <<record, queue, told>>
    BY <1>3 DEF Logout
  <2> QED
    BY JobsOnly DEF HandsetInv, Rows
<1>4. ASSUME NEW f \in Farm, Login(t, f) PROVE HandsetInv'
  BY <1>4, MountedKeeps DEF Login
<1>5. CASE RenewalServed(t)
  <2> job' = job /\ UNCHANGED <<record, queue, told>>
    BY <1>5 DEF RenewalServed
  <2> QED
    BY JobsOnly DEF HandsetInv, Rows
<1>6. CASE Renewed(t)
  <2>1. job' = [x \in Tab \X Slot |-> IF x[1] = t /\ x[2] \in Awaiting(t)
                                     THEN [job[x] EXCEPT !.at = "again"] ELSE job[x]]
        /\ UNCHANGED <<record, queue, told>>
    BY <1>6 DEF Renewed
  <2>2. ASSUME NEW x \in Tab \X Slot, x[1] = t, x[2] \in Awaiting(t)
        PROVE  Carries([job[x] EXCEPT !.at = "again"], record)
    <3>1. x = <<t, x[2]>> /\ job[x] # None /\ job[x].at = "expired"
      <4>1. x = <<t, x[2]>>
        BY <2>2
      <4>2. job[<<t, x[2]>>] # None /\ job[<<t, x[2]>>].at = "expired"
        BY <2>2 DEF Awaiting
      <4> QED
        BY <4>1, <4>2
    <3>2. Carries(job[x], record)
      BY <3>1 DEF HandsetInv, Requests
    <3> DEFINE k == [job[x] EXCEPT !.at = "again"]
    <3>3. k \in [kind : {job[x].kind}, w : {job[x].w}, rest : {job[x].rest},
                 farm : {job[x].farm}, at : {"again"}]
      BY <3>2 DEF Carries, Like
    <3> HIDE DEF k
    <3>4. k \in Like(k) /\ k.kind = job[x].kind /\ k.w = job[x].w /\ k.rest = job[x].rest
          /\ k.at = "again"
      BY <3>3 DEF Like
    <3>5. Carries(k, record)
      BY <3>1, <3>2, <3>4 DEF Carries
    <3> QED
      BY <3>5 DEF k
  <2> QED
    BY <2>1, <2>2, JobsOnly
<1>7. CASE NotRenewed(t)
  BY <1>7, ThrownKeeps DEF NotRenewed
<1>8. CASE Started(t)
  <2> UNCHANGED <<record, queue, told>>
    BY <1>8 DEF Started
  <2>1. \/ \E farm : Mounted(t, farm, [job EXCEPT ![<<t, "form">>] = None])
        \/ SentToLogin(t, {"form"})
    BY <1>8 DEF Started
  <2> QED
    BY <2>1, MountedKeeps, ThrownKeeps
<1> QED
  BY <1>1, <1>2, <1>3, <1>4, <1>5, <1>6, <1>7, <1>8

\* The tab reads, starts an upload, or gives one up.
LEMMA QuietSteps ==
    ASSUME HandsetInv, NEW t \in Tab,
           \/ Look(t) \/ LookEnds(t) \/ StartFlush(t) \/ Tick(t)
           \/ \E s \in Upload : FlushStops(t, s)
    PROVE  HandsetInv'
<1> \A s \in Slot : <<t, s>> \in Tab \X Slot
  OBVIOUS
<1>1. CASE Look(t)
  <2>1. Carries(FormJob("load", None, user[t]), record)
    BY NewForm
  <2> QED
    BY <1>1, <2>1, OneJob DEF Look, Slot
<1>2. CASE LookEnds(t)
  BY <1>2, OneJob DEF LookEnds, Slot
<1>3. CASE StartFlush(t) \/ Tick(t)
  <2>1. job' = [job EXCEPT ![<<t, mount[t]>>] = Flush(queue, user[t])]
        /\ UNCHANGED <<record, queue, told>>
    BY <1>3 DEF StartFlush, Tick
  <2>2. Flush(queue, user[t]) # None => Carries(Flush(queue, user[t]), record)
    BY NewFlush
  <2>3. CASE <<t, mount[t]>> \in Tab \X Slot
    BY <2>1, <2>2, <2>3, OneJob
  <2>4. CASE <<t, mount[t]>> \notin Tab \X Slot
    <3>1. job' = job
      BY <2>1, <2>4 DEF HandsetInv, Rows
    <3> QED
      BY <3>1, <2>1, JobsOnly DEF HandsetInv, Rows
  <2> QED
    BY <2>3, <2>4
<1>4. ASSUME NEW s \in Upload, FlushStops(t, s) PROVE HandsetInv'
  BY <1>4, OneJob DEF FlushStops, Slot
<1> QED
  BY <1>1, <1>2, <1>3, <1>4

\* A request goes out, and has an answer or none.
LEMMA RequestSteps ==
    ASSUME HandsetInv, NEW t \in Tab, NEW s \in Slot, Answered(t, s) \/ Unanswered(t, s)
    PROVE  HandsetInv'
<1> <<t, s>> \in Tab \X Slot
  OBVIOUS
<1>1. job[<<t, s>>] # None /\ Carries(job[<<t, s>>], record) /\ UNCHANGED <<queue, told>>
  BY DEF Answered, Unanswered, HandsetInv, Requests
<1>2. ASSUME NEW j \in Sending(job[<<t, s>>])
      PROVE  /\ j \in [kind : {j.kind}, w : {j.w}, rest : {j.rest}, farm : {j.farm}, at : {j.at}]
             /\ Written(j) = [w \in Weighing |-> Written(j)[w]]
             /\ \A w \in Weighing : record[w] # "none" => Written(j)[w] # "none"
             /\ j.kind \in {"save", "flush"} => Written(j)[j.w] # "none"
  <2>1. j.kind \in {"save", "flush"} => j.w \in Weighing
    <3>1. j.kind = job[<<t, s>>].kind
      BY <1>1, Sends
    <3> QED
      BY <1>1, <3>1, Sends
  <2>2. record = [w \in Weighing |-> record[w]]
    BY DEF HandsetInv, Rows
  <2>3. j \in [kind : {j.kind}, w : {j.w}, rest : {j.rest}, farm : {j.farm}, at : {j.at}]
    BY <1>1, Sends
  <2> QED
    BY <2>1, <2>2, <2>3 DEF Written
<1>3. ASSUME NEW j \in Sending(job[<<t, s>>]), NEW a, NEW farm, NEW k,
             job' = [job EXCEPT ![<<t, s>>] = k],
             k \in [kind : {j.kind}, w : {j.w}, rest : {j.rest}, farm : {farm}, at : {a}],
             record' \in {record, Written(j)}, a = "ok" => record' = Written(j)
      PROVE  HandsetInv'
  <2>1. record' = [w \in Weighing |-> record'[w]] /\ Grows
    BY <1>2, <1>3 DEF Grows, HandsetInv, Rows
  <2>4. Carries(k, record')
    BY <1>1, <1>2, <1>3, Answering
  <2>5. job' = [x \in Tab \X Slot |-> job'[x]]
        /\ \A x \in Tab \X Slot : job'[x] = IF x = <<t, s>> THEN k ELSE job[x]
    BY <1>3 DEF HandsetInv, Rows
  <2>6. Rows'
    BY <2>1, <2>5, <1>1 DEF HandsetInv, Rows
  <2>7. Requests'
    BY <2>1, <2>4, <2>5, CarriesOnBooks DEF HandsetInv, Requests
  <2>8. NothingLost'
    BY <1>1, <2>1 DEF HandsetInv, NothingLost, Grows
  <2> QED
    BY <2>6, <2>7, <2>8 DEF HandsetInv
<1>4. ASSUME NEW j \in Sending(job[<<t, s>>]), NEW a, NEW farm
      PROVE  [j EXCEPT !.at = a, !.farm = farm]
                \in [kind : {j.kind}, w : {j.w}, rest : {j.rest}, farm : {farm}, at : {a}]
  BY <1>2
<1>5. ASSUME NEW j \in Sending(job[<<t, s>>]), NEW a
      PROVE  [j EXCEPT !.at = a]
                \in [kind : {j.kind}, w : {j.w}, rest : {j.rest}, farm : {j.farm}, at : {a}]
  BY <1>2
<1>6. CASE Answered(t, s)
  <2>1. PICK j \in Sending(job[<<t, s>>]) : \E answer \in Answers(j, cred[t]) :
          \/ SentToLogin(t, {s}) /\ record' = record
          \/ /\ job' = [job EXCEPT ![<<t, s>>] = [j EXCEPT !.at = "expired"]]
             /\ record' = record
          \/ /\ record' = IF answer = "ok" THEN Written(j) ELSE record
             /\ job' = [job EXCEPT ![<<t, s>>] = [j EXCEPT !.at = answer,
                          !.farm = IF j.kind = "me" THEN token[cred[t]].farm ELSE @]]
    BY <1>6 DEF Answered
  <2>2. PICK answer \in Answers(j, cred[t]) :
          \/ SentToLogin(t, {s}) /\ record' = record
          \/ /\ job' = [job EXCEPT ![<<t, s>>] = [j EXCEPT !.at = "expired"]]
             /\ record' = record
          \/ /\ record' = IF answer = "ok" THEN Written(j) ELSE record
             /\ job' = [job EXCEPT ![<<t, s>>] = [j EXCEPT !.at = answer,
                          !.farm = IF j.kind = "me" THEN token[cred[t]].farm ELSE @]]
    BY <2>1
  <2>3. CASE SentToLogin(t, {s}) /\ record' = record
    BY <2>3, <1>1, ThrownKeeps
  <2>4. CASE job' = [job EXCEPT ![<<t, s>>] = [j EXCEPT !.at = "expired"]] /\ record' = record
    <3> DEFINE k == [j EXCEPT !.at = "expired"]
    <3>1. k \in [kind : {j.kind}, w : {j.w}, rest : {j.rest}, farm : {j.farm}, at : {"expired"}]
      BY <1>5
    <3>2. job' = [job EXCEPT ![<<t, s>>] = k] /\ record' = record
      BY <2>4
    <3> HIDE DEF k
    <3> QED
      BY <3>1, <3>2, <1>3
  <2>5. CASE /\ record' = IF answer = "ok" THEN Written(j) ELSE record
             /\ job' = [job EXCEPT ![<<t, s>>] = [j EXCEPT !.at = answer,
                          !.farm = IF j.kind = "me" THEN token[cred[t]].farm ELSE @]]
    <3> DEFINE farm == IF j.kind = "me" THEN token[cred[t]].farm ELSE j.farm
          k == [j EXCEPT !.at = answer, !.farm = farm]
    <3>1. k \in [kind : {j.kind}, w : {j.w}, rest : {j.rest}, farm : {farm}, at : {answer}]
      BY <1>4
    <3>2. job' = [job EXCEPT ![<<t, s>>] = k]
      BY <2>5
    <3>3. record' \in {record, Written(j)} /\ (answer = "ok" => record' = Written(j))
      BY <2>5
    <3> HIDE DEF k, farm
    <3> QED
      BY <3>1, <3>2, <3>3, <1>3
  <2> QED
    BY <2>2, <2>3, <2>4, <2>5
<1>7. CASE Unanswered(t, s)
  <2>1. PICK j \in Sending(job[<<t, s>>]) :
          /\ record' \in {record, Written(j)}
          /\ job' = [job EXCEPT ![<<t, s>>] = [j EXCEPT !.at = "later"]]
    BY <1>7 DEF Unanswered
  <2> QED
    BY <2>1, <1>3, <1>5
<1> QED
  BY <1>6, <1>7

\* The person saves, takes back or gives up a weighing.
LEMMA PersonSteps ==
    ASSUME HandsetInv, NEW t \in Tab,
           \/ SaveEnds(t) \/ UndoEnds(t)
           \/ \E w \in Weighing : Save(t, w) \/ Undo(t, w) \/ Drop(t, w)
    PROVE  HandsetInv'
<1> <<t, "form">> \in Tab \X Slot
  BY DEF Slot
<1> USE DEF HandsetInv
<1>1. CASE SaveEnds(t)
  <2>1. job[<<t, "form">>].w \in Weighing
        /\ (job[<<t, "form">>].at = "ok" => record[job[<<t, "form">>].w] # "none")
    BY <1>1 DEF SaveEnds, Requests, Carries
  <2>2. Rows' /\ Requests'
    BY <1>1 DEF SaveEnds, ShownSaved, Keep, Rows, Requests
  <2>3. NothingLost'
    BY <1>1, <2>1 DEF SaveEnds, ShownSaved, Keep, Rows, NothingLost
  <2> QED
    BY <2>2, <2>3
<1>2. CASE UndoEnds(t)
  <2>1. Rows' /\ Requests'
    BY <1>2 DEF UndoEnds, Rows, Requests
  <2>2. NothingLost'
    BY <1>2 DEF UndoEnds, Rows, NothingLost
  <2> QED
    BY <2>1, <2>2
<1>3. ASSUME NEW w \in Weighing, Save(t, w) PROVE HandsetInv'
  <2>1. Carries(FormJob("save", w, user[t]), record)
    BY NewForm
  <2>2. Rows' /\ Requests'
    BY <1>3, <2>1 DEF Save, ShownSaved, Keep, Rows, Requests
  <2>3. NothingLost'
    BY <1>3 DEF Save, ShownSaved, Keep, Rows, NothingLost
  <2> QED
    BY <2>2, <2>3
<1>4. ASSUME NEW w \in Weighing, Undo(t, w) PROVE HandsetInv'
  <2>1. Carries(FormJob("undo", w, user[t]), record)
    BY NewForm
  <2>2. Rows' /\ Requests'
    BY <1>4, <2>1 DEF Undo, Rows, Requests
  <2>3. NothingLost'
    BY <1>4 DEF Undo, Rows, NothingLost
  <2> QED
    BY <2>2, <2>3
<1>5. ASSUME NEW w \in Weighing, Drop(t, w) PROVE HandsetInv'
  <2>1. Rows' /\ Requests'
    BY <1>5 DEF Drop, Rows, Requests
  <2>2. NothingLost'
    BY <1>5 DEF Drop, Rows, NothingLost
  <2> QED
    BY <2>1, <2>2
<1> QED
  BY <1>1, <1>2, <1>3, <1>4, <1>5

\* A weighing leaves the queue after its upload was accepted, and stays there
\* after it was refused.
LEMMA UploadSteps ==
    ASSUME HandsetInv, NEW t \in Tab, NEW s \in Upload, FlushGoesOn(t, s)
    PROVE  HandsetInv'
<1> <<t, s>> \in Tab \X Slot
  BY DEF Slot
<1> DEFINE j == job[<<t, s>>]
<1>1. /\ j # None /\ j.kind = "flush" /\ j.at \in {"ok", "refused"}
      /\ queue' = AfterAnswer(j) /\ UNCHANGED <<record, told>>
      /\ job' \in {[job EXCEPT ![<<t, s>>] = None],
                   [job EXCEPT ![<<t, s>>] = [@ EXCEPT !.w = None, !.at = "ready"]]}
  BY DEF FlushGoesOn
<1>2. Carries(j, record)
  BY <1>1 DEF HandsetInv, Requests
<1>3. j.w \in Weighing /\ j.rest \subseteq Weighing /\ (j.at = "ok" => record[j.w] # "none")
  BY <1>1, <1>2 DEF Carries
<1>4. job' = [x \in Tab \X Slot |-> job'[x]]
      /\ \A x \in Tab \X Slot : x # <<t, s>> => job'[x] = job[x]
  BY <1>1 DEF HandsetInv, Rows
<1>5. job'[<<t, s>>] # None => Carries(job'[<<t, s>>], record)
  <2> DEFINE k == [j EXCEPT !.w = None, !.at = "ready"]
  <2>1. job'[<<t, s>>] \in {None, k}
    BY <1>1 DEF HandsetInv, Rows
  <2>2. k \in [kind : {j.kind}, w : {None}, rest : {j.rest}, farm : {j.farm}, at : {"ready"}]
    BY <1>2 DEF Carries, Like
  <2> HIDE DEF k
  <2>3. k \in Like(k) /\ k.kind = j.kind /\ k.w = None /\ k.rest = j.rest /\ k.at = "ready"
    BY <2>2 DEF Like
  <2>4. Carries(k, record)
    BY <1>1, <1>3, <2>3 DEF Carries
  <2> QED
    BY <2>1, <2>4
<1>6. Rows'
  BY <1>1, <1>4 DEF HandsetInv, Rows, AfterAnswer
<1>7. Requests'
  BY <1>1, <1>4, <1>5 DEF HandsetInv, Requests
<1>8. NothingLost'
  BY <1>1, <1>3 DEF HandsetInv, Rows, NothingLost, AfterAnswer
<1> QED
  BY <1>6, <1>7, <1>8 DEF HandsetInv

LEMMA HandsetStep == HandsetInv /\ [Next]_vars => HandsetInv'
<1> SUFFICES ASSUME HandsetInv, [Next]_vars PROVE HandsetInv'
  OBVIOUS
<1>1. ASSUME NEW k \in Token, Expire(k) PROVE HandsetInv'
  BY <1>1, JobsOnly DEF Expire, HandsetInv, Rows
<1>2. ASSUME NEW t \in Tab, CarriesOn(t) PROVE HandsetInv'
  BY <1>2, SessionSteps, UploadSteps, QuietSteps DEF CarriesOn
<1>3. ASSUME NEW t \in Tab, \E s \in Slot : Answered(t, s) \/ Unanswered(t, s) PROVE HandsetInv'
  BY <1>3, RequestSteps
<1>4. ASSUME NEW t \in Tab,
             \/ Open(t) \/ Close(t) \/ Logout(t) \/ Started(t)
             \/ \E f \in Farm : Login(t, f)
      PROVE  HandsetInv'
  BY <1>4, SessionSteps
<1>5. ASSUME NEW t \in Tab, Look(t) \/ LookEnds(t) \/ StartFlush(t) \/ Tick(t) PROVE HandsetInv'
  BY <1>5, QuietSteps
<1>6. ASSUME NEW t \in Tab,
             \/ SaveEnds(t) \/ UndoEnds(t)
             \/ \E w \in Weighing : Save(t, w) \/ Undo(t, w) \/ Drop(t, w)
      PROVE  HandsetInv'
  BY <1>6, PersonSteps
<1>7. CASE UNCHANGED vars
  BY <1>7, JobsOnly DEF vars, HandsetInv, Rows
<1> QED
  BY <1>1, <1>2, <1>3, <1>4, <1>5, <1>6, <1>7 DEF Next

\* Whatever the tabs, the network and the sessions do, in any number of them, a
\* weighing the screen called saved is on the phone or on its farm's books
\* until the person takes it back (flushPending, enqueue, save, undo).
THEOREM NothingIsLost == Spec => []NothingLost
<1>1. Init => HandsetInv
  BY DEF Init, Nothing, HandsetInv, Rows, Requests, NothingLost
<1>2. HandsetInv /\ [Next]_vars => HandsetInv'
  BY HandsetStep
<1>3. HandsetInv => NothingLost
  BY DEF HandsetInv
<1> QED
  BY <1>1, <1>2, <1>3, PTL DEF Spec

-----------------------------------------------------------------------------
(***************************************************************************)
(* Types.  What the screens hold and what the sessions hold are apart.     *)
(***************************************************************************)
ScreenType ==
    /\ record \in [Weighing -> {"none", "live", "gone"}]
    /\ queue \in [Weighing -> Kept]
    /\ list \in [Tab -> [Weighing -> Kept]]
    /\ mine \in [Tab -> SUBSET Weighing]
    /\ job \in [Tab \X Slot -> Job \cup {None}]
    /\ told \in [Weighing -> {"no", "saved", "undone", "dropped"}]

SessionType ==
    /\ token \in [Token -> Signed \cup {None}]
    /\ stored \in Token \cup {0}
    /\ last \in Farm \cup {None}
    /\ user \in [Tab -> Farm \cup {"closed", "loading", "out", "thrown"}]
    /\ cred \in [Tab -> Token \cup {0}]
    /\ mount \in [Tab -> Upload \cup {None}]
    /\ renewal \in [Tab -> Renewal \cup {None}]
    /\ spoilt \subseteq Token
    /\ scene \in Scene

(***************************************************************************)
(* Sessions.  Tokens are numbered as they are issued, and what a tab or    *)
(* the phone holds was issued.                                             *)
(***************************************************************************)
Fam(k) == token[k].family

Numbered ==
    /\ \E n \in Nat : Issued = 1..n
    /\ \A k \in Issued : Fam(k) \in Issued

InHand ==
    /\ stored \in Issued \cup {0}
    /\ \A t \in Tab : cred[t] \in Issued \cup {0}
    /\ \A t \in Tab : renewal[t] # None =>
        /\ renewal[t].given \in Issued
        /\ renewal[t].got \in Token =>
            /\ renewal[t].got \in Issued
            /\ Fam(renewal[t].got) = Fam(renewal[t].given)
            /\ token[renewal[t].got].fresh

\* A closed tab runs nothing, a tab that starts asks who it is and nothing
\* else, and a request is sent again with a token that is still fresh.
Holds(t) ==
    /\ user[t] = "closed" => cred[t] = 0 /\ renewal[t] = None
    /\ In(t) \/ user[t] = "loading" => cred[t] # 0

Runs(t, s) ==
    /\ user[t] = "closed" => job[t, s] = None
    /\ user[t] = "loading" =>
        IF s = "form" THEN /\ job[t, s] # None
                           /\ job[t, s].kind = "me"
                           /\ renewal[t] # None => job[t, s].at = "expired"
        ELSE job[t, s] = None
    /\ s = "form" /\ job[t, s] # None /\ job[t, s].kind = "me" =>
        user[t] = "loading" /\ (job[t, s].at = "ok" => job[t, s].farm \in Farm)
    /\ job[t, s] # None /\ job[t, s].at = "again" => cred[t] = 0 \/ token[cred[t]].fresh

Starting == \A t \in Tab : Holds(t) /\ \A s \in Slot : Runs(t, s)

(***************************************************************************)
(* A session with no cause to end early is one tab's alone, with one token *)
(* that is good for a renewal, or with one renewal that was accepted.      *)
(***************************************************************************)
Good(k) == k # 0 /\ Fam(k) \notin spoilt

Sole(t) ==
    /\ In(t) \/ user[t] = "loading"
    /\ \A u \in Tab \ {t} : cred[u] # 0 => Fam(cred[u]) # Fam(cred[t])
    /\ stored # 0 /\ Fam(stored) = Fam(cred[t]) => stored = cred[t]
    /\ renewal[t] = None => token[cred[t]].state = "live"
    /\ renewal[t] # None =>
        /\ renewal[t].given = cred[t]
        /\ renewal[t].got = None => token[cred[t]].state = "live"
        /\ renewal[t].got # None => /\ renewal[t].got \in Token
                                    /\ token[renewal[t].got].state = "live"

Alone ==
    /\ \A t \in Tab : Good(cred[t]) => Sole(t)
    /\ \A t \in Tab : renewal[t] # None /\ Good(renewal[t].given) => cred[t] = renewal[t].given
    /\ Good(stored) /\ (\A t \in Tab : cred[t] # 0 => Fam(cred[t]) # Fam(stored)) =>
        token[stored].state = "live"

SessionInv == SessionType /\ Numbered /\ InHand /\ Starting /\ Alone

LEMMA FlushTyped ==
    ASSUME NEW q, NEW farm \in Farm
    PROVE  /\ Flush(q, farm) \in Job \cup {None}
           /\ Flush(q, farm) # None => Flush(q, farm).at = "ready" /\ Flush(q, farm).kind = "flush"
<1> DEFINE waiting == {w \in Weighing : Listed(q, farm)[w] = "waiting"}
<1>1. waiting \subseteq Weighing
  OBVIOUS
<1>2. Flush(q, farm) = IF waiting = {} THEN None
        ELSE [kind |-> "flush", w |-> None, rest |-> waiting, farm |-> farm, at |-> "ready"]
  BY DEF Flush
<1> HIDE DEF waiting
<1> QED
  BY <1>1, <1>2 DEF Job

LEMMA FormTyped ==
    ASSUME NEW kind \in {"me", "load", "save", "undo"}, NEW w \in Weighing \cup {None},
           NEW farm \in Farm \cup {None}
    PROVE  /\ FormJob(kind, w, farm) \in Job
           /\ FormJob(kind, w, farm).kind = kind /\ FormJob(kind, w, farm).at = "ready"
BY DEF FormJob, Job

LEMMA SendingTyped ==
    ASSUME NEW j \in Job, NEW i \in Sending(j)
    PROVE  i \in Job /\ i.kind = j.kind /\ i.at = j.at /\ i.farm = j.farm
<1>1. CASE j.kind = "flush" /\ j.w = None
  <2>1. PICK w \in j.rest : i = [j EXCEPT !.w = w, !.rest = j.rest \ {w}]
    BY <1>1 DEF Sending
  <2>2. w \in Weighing
    BY <2>1 DEF Job
  <2> QED
    BY <2>1, <2>2 DEF Job
<1>2. CASE ~(j.kind = "flush" /\ j.w = None)
  BY <1>2 DEF Sending
<1> QED
  BY <1>1, <1>2

Moment == {"ready", "expired", "again", "ok", "refused", "later"}

LEMMA AtTyped ==
    ASSUME NEW j \in Job, NEW a \in Moment
    PROVE  /\ [j EXCEPT !.at = a] \in Job
           /\ [j EXCEPT !.at = a].kind = j.kind /\ [j EXCEPT !.at = a].at = a
           /\ [j EXCEPT !.at = a].farm = j.farm
BY DEF Job, Moment

LEMMA AtFarmTyped ==
    ASSUME NEW j \in Job, NEW a \in Moment, NEW farm \in Farm \cup {None}
    PROVE  /\ [j EXCEPT !.at = a, !.farm = farm] \in Job
           /\ [j EXCEPT !.at = a, !.farm = farm].kind = j.kind
           /\ [j EXCEPT !.at = a, !.farm = farm].at = a
           /\ [j EXCEPT !.at = a, !.farm = farm].farm = farm
BY DEF Job, Moment

LEMMA ListedTyped ==
    ASSUME NEW q \in [Weighing -> Kept], NEW farm
    PROVE  Listed(q, farm) \in [Weighing -> Kept]
BY DEF Listed, Kept

LEMMA RereadTyped ==
    ASSUME ScreenType, NEW q \in [Weighing -> Kept], NEW t \in Tab
    PROVE  Reread(t, q) \in [Tab -> [Weighing -> Kept]]
BY ListedTyped DEF Reread, ScreenType

LEMMA AnswersTyped ==
    ASSUME NEW j, NEW k, NEW a \in Answers(j, k)
    PROVE  /\ a \in {"expired", "ok", "refused"}
           /\ a = "expired" <=> ~Fresh(k)
<1>1. CASE ~Fresh(k)
  BY <1>1 DEF Answers
<1>2. CASE Fresh(k)
  <2>1. CASE j.kind \in {"me", "load"}
    BY <1>2, <2>1 DEF Answers
  <2>2. CASE j.kind \notin {"me", "load"} /\ token[k].farm # Home[j.w]
    BY <1>2, <2>2 DEF Answers
  <2>3. CASE j.kind \notin {"me", "load"} /\ token[k].farm = Home[j.w] /\ j.kind = "undo"
    BY <1>2, <2>3 DEF Answers
  <2>4. CASE j.kind \notin {"me", "load"} /\ token[k].farm = Home[j.w] /\ j.kind # "undo"
    BY <1>2, <2>4 DEF Answers
  <2> QED
    BY <2>1, <2>2, <2>3, <2>4
<1> QED
  BY <1>1, <1>2

LEMMA WrittenTyped ==
    ASSUME ScreenType, NEW j
    PROVE  Written(j) \in [Weighing -> {"none", "live", "gone"}]
BY DEF Written, ScreenType

\* A step of a screen that changes one job.
LEMMA OneJobTyped ==
    ASSUME ScreenType, NEW x \in Tab \X Slot, NEW j \in Job \cup {None}, job' = [job EXCEPT ![x] = j]
    PROVE  job' \in [Tab \X Slot -> Job \cup {None}]
BY DEF ScreenType

LEMMA SomeJobsGone ==
    ASSUME ScreenType, NEW S, job' = [x \in Tab \X Slot |-> IF x \in S THEN None ELSE job[x]]
    PROVE  job' \in [Tab \X Slot -> Job \cup {None}]
BY DEF ScreenType

LEMMA ThrownTyped ==
    ASSUME ScreenType, UNCHANGED <<record, queue, told>>, NEW t \in Tab, NEW dead, SentToLogin(t, dead)
    PROVE  ScreenType'
<1>1. job' \in [Tab \X Slot -> Job \cup {None}]
  BY DEF SentToLogin, ScreenType
<1>2. list' \in [Tab -> [Weighing -> Kept]] /\ mine' \in [Tab -> SUBSET Weighing]
  BY DEF SentToLogin, Unmounted, Nothing, Kept, ScreenType
<1> QED
  BY <1>1, <1>2 DEF ScreenType

LEMMA MountedTyped ==
    ASSUME ScreenType, UNCHANGED <<record, queue, told, mine>>, NEW t \in Tab, NEW farm \in Farm, NEW jobs,
           jobs \in {job, [job EXCEPT ![<<t, "form">>] = None]}, Mounted(t, farm, jobs)
    PROVE  ScreenType'
<1>1. PICK s \in Upload : job' = [jobs EXCEPT ![<<t, s>>] = Flush(queue, farm)]
                          /\ list' = [list EXCEPT ![t] = Listed(queue, farm)]
  BY DEF Mounted
<1>2. jobs \in [Tab \X Slot -> Job \cup {None}]
  BY DEF ScreenType
<1>3. Flush(queue, farm) \in Job \cup {None}
  BY FlushTyped
<1>4. job' \in [Tab \X Slot -> Job \cup {None}]
  BY <1>1, <1>2, <1>3
<1>5. Listed(queue, farm) \in [Weighing -> Kept]
  BY ListedTyped DEF ScreenType
<1> QED
  BY <1>1, <1>4, <1>5 DEF ScreenType

LEMMA SessionScreens ==
    ASSUME ScreenType, SessionInv, NEW t \in Tab,
           Open(t) \/ Close(t) \/ Logout(t) \/ (\E f \in Farm : Login(t, f))
             \/ RenewalServed(t) \/ Renewed(t) \/ NotRenewed(t) \/ Started(t)
    PROVE  ScreenType'
<1> <<t, "form">> \in Tab \X Slot
  BY DEF Slot
<1>1. CASE Open(t)
  <2>1. FormJob("me", None, None) \in Job
    BY FormTyped
  <2>2. job' \in [Tab \X Slot -> Job \cup {None}]
    BY <1>1, <2>1, OneJobTyped DEF Open
  <2> QED
    BY <1>1, <2>2 DEF Open, ScreenType
<1>2. CASE Close(t)
  BY <1>2 DEF Close, Unmounted, Nothing, Kept, ScreenType
<1>3. CASE Logout(t)
  BY <1>3 DEF Logout, Unmounted, Nothing, Kept, ScreenType
<1>4. ASSUME NEW f \in Farm, Login(t, f) PROVE ScreenType'
  BY <1>4, MountedTyped DEF Login
<1>5. CASE RenewalServed(t)
  <2> UNCHANGED <<record, queue, list, mine, job, told>>
    BY <1>5 DEF RenewalServed
  <2> QED
    BY DEF ScreenType
<1>6. CASE Renewed(t)
  <2>1. job' = [x \in Tab \X Slot |-> IF x[1] = t /\ x[2] \in Awaiting(t)
                                     THEN [job[x] EXCEPT !.at = "again"] ELSE job[x]]
        /\ UNCHANGED <<record, queue, list, mine, told>>
    BY <1>6 DEF Renewed
  <2>2. ASSUME NEW x \in Tab \X Slot, x[1] = t, x[2] \in Awaiting(t)
        PROVE  [job[x] EXCEPT !.at = "again"] \in Job
    <3>1. x = <<t, x[2]>>
      BY <2>2
    <3>2. job[<<t, x[2]>>] # None
      BY <2>2 DEF Awaiting
    <3>3. job[x] \in Job
      BY <3>1, <3>2 DEF ScreenType
    <3> QED
      BY <3>3, AtTyped DEF Moment
  <2>3. job' \in [Tab \X Slot -> Job \cup {None}]
    BY <2>1, <2>2 DEF ScreenType
  <2> QED
    BY <2>1, <2>3 DEF ScreenType
<1>7. CASE NotRenewed(t)
  BY <1>7, ThrownTyped DEF NotRenewed
<1>8. CASE Started(t)
  <2> UNCHANGED <<record, queue, told>>
    BY <1>8 DEF Started
  <2>1. \/ /\ job[<<t, "form">>] # None /\ job[<<t, "form">>].kind = "me" /\ job[<<t, "form">>].at = "ok"
           /\ Mounted(t, job[<<t, "form">>].farm, [job EXCEPT ![<<t, "form">>] = None]) /\ mine' = mine
        \/ /\ last # None
           /\ Mounted(t, last, [job EXCEPT ![<<t, "form">>] = None]) /\ mine' = mine
        \/ SentToLogin(t, {"form"})
    BY <1>8 DEF Started
  <2>2. job[<<t, "form">>] # None /\ job[<<t, "form">>].kind = "me" /\ job[<<t, "form">>].at = "ok"
          => job[<<t, "form">>].farm \in Farm
    BY DEF SessionInv, Starting, Runs, Slot
  <2>3. last # None => last \in Farm
    BY DEF SessionInv, SessionType
  <2> QED
    BY <2>1, <2>2, <2>3, MountedTyped, ThrownTyped
<1> QED
  BY <1>1, <1>2, <1>3, <1>4, <1>5, <1>6, <1>7, <1>8

LEMMA RequestScreens ==
    ASSUME ScreenType, SessionInv, NEW t \in Tab, NEW s \in Slot, Answered(t, s) \/ Unanswered(t, s)
    PROVE  ScreenType'
<1> <<t, s>> \in Tab \X Slot
  OBVIOUS
<1>1. job[<<t, s>>] \in Job /\ UNCHANGED <<queue, told>>
  BY DEF Answered, Unanswered, ScreenType
<1>2. ASSUME NEW j \in Job, job' = [job EXCEPT ![<<t, s>>] = j],
             record' \in [Weighing -> {"none", "live", "gone"}], UNCHANGED <<list, mine>>
      PROVE  ScreenType'
  <2>1. job' \in [Tab \X Slot -> Job \cup {None}]
    BY <1>2, OneJobTyped
  <2> QED
    BY <1>1, <1>2, <2>1 DEF ScreenType
<1>w. /\ record \in [Weighing -> {"none", "live", "gone"}]
      /\ \A i : Written(i) \in [Weighing -> {"none", "live", "gone"}]
  BY WrittenTyped DEF ScreenType
<1>3. CASE Answered(t, s)
  <2>0. PICK j \in Sending(job[<<t, s>>]) : \E answer \in Answers(j, cred[t]) :
          \/ SentToLogin(t, {s}) /\ record' = record
          \/ /\ job' = [job EXCEPT ![<<t, s>>] = [j EXCEPT !.at = "expired"]]
             /\ record' = record
             /\ UNCHANGED <<list, mine>>
          \/ /\ answer # "expired"
             /\ record' \in {record, Written(j)}
             /\ job' = [job EXCEPT ![<<t, s>>] = [j EXCEPT !.at = answer,
                          !.farm = IF j.kind = "me" THEN token[cred[t]].farm ELSE @]]
             /\ UNCHANGED <<list, mine>>
    BY <1>3 DEF Answered
  <2>1. PICK answer \in Answers(j, cred[t]) :
          \/ SentToLogin(t, {s}) /\ record' = record
          \/ /\ job' = [job EXCEPT ![<<t, s>>] = [j EXCEPT !.at = "expired"]]
             /\ record' = record
             /\ UNCHANGED <<list, mine>>
          \/ /\ answer # "expired"
             /\ record' \in {record, Written(j)}
             /\ job' = [job EXCEPT ![<<t, s>>] = [j EXCEPT !.at = answer,
                          !.farm = IF j.kind = "me" THEN token[cred[t]].farm ELSE @]]
             /\ UNCHANGED <<list, mine>>
    BY <2>0
  <2>2. j \in Job
    BY <1>1, SendingTyped
  <2>3. CASE SentToLogin(t, {s}) /\ record' = record
    BY <2>3, <1>1, ThrownTyped
  <2>4. CASE /\ job' = [job EXCEPT ![<<t, s>>] = [j EXCEPT !.at = "expired"]]
             /\ record' = record
             /\ UNCHANGED <<list, mine>>
    <3> DEFINE k == [j EXCEPT !.at = "expired"]
    <3>1. k \in Job
      BY <2>2, AtTyped DEF Moment
    <3>2. job' = [job EXCEPT ![<<t, s>>] = k]
      BY <2>4
    <3> HIDE DEF k
    <3> QED
      BY <2>4, <3>1, <3>2, <1>2, <1>w
  <2>5. CASE /\ answer # "expired"
             /\ record' \in {record, Written(j)}
             /\ job' = [job EXCEPT ![<<t, s>>] = [j EXCEPT !.at = answer,
                          !.farm = IF j.kind = "me" THEN token[cred[t]].farm ELSE @]]
             /\ UNCHANGED <<list, mine>>
    <3> DEFINE farm == IF j.kind = "me" THEN token[cred[t]].farm ELSE j.farm
    <3>1. answer \in {"ok", "refused"} /\ Fresh(cred[t])
      BY <2>5, AnswersTyped
    <3>2. cred[t] \in Issued
      BY <3>1 DEF Fresh, SessionInv, InHand
    <3>3. farm \in Farm \cup {None}
      BY <2>2, <3>2 DEF Job, Issued, SessionInv, SessionType, Signed
    <3> DEFINE k == [j EXCEPT !.at = answer, !.farm = farm]
    <3>4. job' = [job EXCEPT ![<<t, s>>] = k]
      BY <2>5
    <3> HIDE DEF farm
    <3>5. k \in Job
      BY <2>2, <3>1, <3>3, AtFarmTyped DEF Moment
    <3> HIDE DEF k
    <3>6. record' \in [Weighing -> {"none", "live", "gone"}]
      BY <2>5, <1>w
    <3> QED
      BY <2>5, <3>4, <3>5, <3>6, <1>2
  <2> QED
    BY <2>1, <2>3, <2>4, <2>5
<1>4. CASE Unanswered(t, s)
  <2>1. PICK j \in Sending(job[<<t, s>>]) :
          /\ record' \in {record, Written(j)}
          /\ job' = [job EXCEPT ![<<t, s>>] = [j EXCEPT !.at = "later"]]
          /\ UNCHANGED <<list, mine>>
    BY <1>4 DEF Unanswered
  <2>2. j \in Job
    BY <1>1, SendingTyped
  <2> DEFINE k == [j EXCEPT !.at = "later"]
  <2>3. k \in Job
    BY <2>2, AtTyped DEF Moment
  <2>4. job' = [job EXCEPT ![<<t, s>>] = k]
    BY <2>1
  <2>5. record' \in [Weighing -> {"none", "live", "gone"}]
    BY <2>1, <1>w
  <2> HIDE DEF k
  <2> QED
    BY <2>1, <2>3, <2>4, <2>5, <1>2
<1> QED
  BY <1>3, <1>4

LEMMA PersonScreens ==
    ASSUME ScreenType, HandsetInv, NEW t \in Tab,
           \/ Look(t) \/ LookEnds(t) \/ StartFlush(t) \/ Tick(t) \/ SaveEnds(t) \/ UndoEnds(t)
           \/ \E w \in Weighing : Save(t, w) \/ Undo(t, w) \/ Drop(t, w)
           \/ \E s \in Upload : FlushGoesOn(t, s) \/ FlushStops(t, s)
    PROVE  ScreenType'
<1> <<t, "form">> \in Tab \X Slot /\ \A s \in Upload : <<t, s>> \in Tab \X Slot
  BY DEF Slot
<1>1. \A q \in [Weighing -> Kept] : Reread(t, q) \in [Tab -> [Weighing -> Kept]]
  BY RereadTyped
<1>q. queue \in [Weighing -> Kept]
      /\ \A v : \A k \in Kept : [queue EXCEPT ![v] = k] \in [Weighing -> Kept]
  BY DEF ScreenType
<1>k. Kept = {"none", "waiting", "refused"}
  BY DEF Kept
<1>m. ASSUME NEW v \in Weighing
      PROVE  /\ [mine EXCEPT ![t] = @ \cup {v}] \in [Tab -> SUBSET Weighing]
             /\ [mine EXCEPT ![t] = @ \ {v}] \in [Tab -> SUBSET Weighing]
  <2>1. mine[t] \cup {v} \in SUBSET Weighing /\ mine[t] \ {v} \in SUBSET Weighing
    BY DEF ScreenType
  <2>2. \A S \in SUBSET Weighing : [mine EXCEPT ![t] = S] \in [Tab -> SUBSET Weighing]
    BY DEF ScreenType
  <2>3. [mine EXCEPT ![t] = mine[t] \cup {v}] \in [Tab -> SUBSET Weighing]
        /\ [mine EXCEPT ![t] = mine[t] \ {v}] \in [Tab -> SUBSET Weighing]
    BY <2>1, <2>2
  <2> QED
    BY <2>3
<1>t. \A v : \A k \in {"no", "saved", "undone", "dropped"} :
        [told EXCEPT ![v] = k] \in [Weighing -> {"no", "saved", "undone", "dropped"}]
  BY DEF ScreenType
<1>2. CASE Look(t)
  <2>1. FormJob("load", None, user[t]) \in Job
    BY <1>2, FormTyped DEF Look, In
  <2>2. job' \in [Tab \X Slot -> Job \cup {None}]
    BY <1>2, <2>1, OneJobTyped DEF Look
  <2> QED
    BY <1>2, <2>2 DEF Look, ScreenType
<1>3. CASE LookEnds(t)
  BY <1>3 DEF LookEnds, ScreenType
<1>4. CASE StartFlush(t) \/ Tick(t)
  <2>1. /\ In(t)
        /\ job' = [job EXCEPT ![<<t, mount[t]>>] = Flush(queue, user[t])]
        /\ list' \in {Reread(t, queue), list}
        /\ UNCHANGED <<record, queue, mine, told>>
    BY <1>4 DEF StartFlush, Tick
  <2>2. Flush(queue, user[t]) \in Job \cup {None}
    BY <2>1, FlushTyped DEF In
  <2>3. job' \in [Tab \X Slot -> Job \cup {None}]
    BY <2>1, <2>2 DEF ScreenType
  <2> QED
    BY <1>1, <2>1, <2>3 DEF ScreenType
<1>5. CASE SaveEnds(t)
  <2>1. job[<<t, "form">>].w \in Weighing
    BY <1>5 DEF SaveEnds, HandsetInv, Requests, Carries
  <2>2. job' = [job EXCEPT ![<<t, "form">>] = None] /\ record' = record
    BY <1>5 DEF SaveEnds
  <2>3. queue' \in {queue, [queue EXCEPT ![job[<<t, "form">>].w] = "waiting"]}
        /\ list' \in {list, Reread(t, queue')}
    BY <1>5 DEF SaveEnds, Keep
  <2>4. queue' \in [Weighing -> Kept]
    BY <2>3, <1>q, <1>k
  <2>5. list' \in [Tab -> [Weighing -> Kept]]
    BY <2>3, <2>4, <1>1 DEF ScreenType
  <2>6. /\ told' \in {told, [told EXCEPT ![job[<<t, "form">>].w] = "saved"]}
        /\ mine' \in {mine, [mine EXCEPT ![t] = @ \cup {job[<<t, "form">>].w}]}
    BY <1>5 DEF SaveEnds, ShownSaved
  <2>7. told' \in [Weighing -> {"no", "saved", "undone", "dropped"}]
    BY <2>6, <1>t DEF ScreenType
  <2>8. mine' \in [Tab -> SUBSET Weighing]
    <3>1. CASE mine' = mine
      BY <3>1 DEF ScreenType
    <3>2. CASE mine' = [mine EXCEPT ![t] = @ \cup {job[<<t, "form">>].w}]
      BY <2>1, <3>2, <1>m
    <3> QED
      BY <2>6, <3>1, <3>2
  <2> QED
    BY <2>2, <2>4, <2>5, <2>7, <2>8 DEF ScreenType
<1>6. CASE UndoEnds(t)
  <2>1. job' = [job EXCEPT ![<<t, "form">>] = None] /\ UNCHANGED <<record, queue, list>>
        /\ told' \in {told, [told EXCEPT ![job[<<t, "form">>].w] = "undone"]}
        /\ mine' \in {mine, [mine EXCEPT ![t] = @ \ {job[<<t, "form">>].w}]}
    BY <1>6 DEF UndoEnds
  <2>2. mine' \in [Tab -> SUBSET Weighing]
    <3> DEFINE w == job[<<t, "form">>].w
    <3>1. mine[t] \ {w} \in SUBSET Weighing
      BY DEF ScreenType
    <3>2. mine' = mine \/ mine' = [mine EXCEPT ![t] = mine[t] \ {w}]
      BY <2>1
    <3> HIDE DEF w
    <3>3. \A S \in SUBSET Weighing : [mine EXCEPT ![t] = S] \in [Tab -> SUBSET Weighing]
      BY DEF ScreenType
    <3>4. mine \in [Tab -> SUBSET Weighing]
      BY DEF ScreenType
    <3> QED
      BY <3>1, <3>2, <3>3, <3>4
  <2>3. told' \in [Weighing -> {"no", "saved", "undone", "dropped"}]
    BY <2>1, <1>t DEF ScreenType
  <2> QED
    BY <2>1, <2>2, <2>3 DEF ScreenType
<1>7. ASSUME NEW w \in Weighing, Save(t, w) PROVE ScreenType'
  <2>1. FormJob("save", w, user[t]) \in Job
    BY <1>7, FormTyped DEF Save, In
  <2>2. job' \in [Tab \X Slot -> Job \cup {None}] /\ record' = record
    BY <1>7, <2>1, OneJobTyped DEF Save, ScreenType
  <2>3. queue' \in {queue, [queue EXCEPT ![w] = "waiting"]} /\ list' \in {list, Reread(t, queue')}
    BY <1>7 DEF Save, Keep, ShownSaved
  <2>4. queue' \in [Weighing -> Kept]
    BY <2>3, <1>q, <1>k
  <2>5. list' \in [Tab -> [Weighing -> Kept]]
    BY <2>3, <2>4, <1>1 DEF ScreenType
  <2>6. told' \in {told, [told EXCEPT ![w] = "saved"]} /\ mine' \in {mine, [mine EXCEPT ![t] = @ \cup {w}]}
    BY <1>7 DEF Save, Keep, ShownSaved
  <2>7. told' \in [Weighing -> {"no", "saved", "undone", "dropped"}]
    BY <2>6, <1>t DEF ScreenType
  <2>8. mine' \in [Tab -> SUBSET Weighing]
    BY <2>6, <1>m DEF ScreenType
  <2> QED
    BY <2>2, <2>4, <2>5, <2>7, <2>8 DEF ScreenType
<1>8. ASSUME NEW w \in Weighing, Undo(t, w) PROVE ScreenType'
  <2>1. FormJob("undo", w, user[t]) \in Job
    BY <1>8, FormTyped DEF Undo, In
  <2>2. job' \in [Tab \X Slot -> Job \cup {None}] /\ record' = record
    BY <1>8, <2>1, OneJobTyped DEF Undo, ScreenType
  <2>3. queue' \in {queue, [queue EXCEPT ![w] = "none"]} /\ list' \in {list, Reread(t, queue')}
    BY <1>8 DEF Undo
  <2>4. queue' \in [Weighing -> Kept]
    BY <2>3, <1>q, <1>k
  <2>5. list' \in [Tab -> [Weighing -> Kept]]
    BY <2>3, <2>4, <1>1 DEF ScreenType
  <2>6. told' \in {told, [told EXCEPT ![w] = "undone"]} /\ mine' \in {mine, [mine EXCEPT ![t] = @ \ {w}]}
    BY <1>8 DEF Undo
  <2>7. told' \in [Weighing -> {"no", "saved", "undone", "dropped"}]
    BY <2>6, <1>t DEF ScreenType
  <2>8. mine' \in [Tab -> SUBSET Weighing]
    BY <2>6, <1>m DEF ScreenType
  <2> QED
    BY <2>2, <2>4, <2>5, <2>7, <2>8 DEF ScreenType
<1>9. ASSUME NEW w \in Weighing, Drop(t, w) PROVE ScreenType'
  <2>1. queue' = [queue EXCEPT ![w] = "none"] /\ list' = Reread(t, queue')
        /\ told' = [told EXCEPT ![w] = "dropped"] /\ UNCHANGED <<record, mine, job>>
    BY <1>9 DEF Drop
  <2>2. queue' \in [Weighing -> Kept] /\ told' \in [Weighing -> {"no", "saved", "undone", "dropped"}]
    BY <2>1, <1>q, <1>k, <1>t
  <2> QED
    BY <2>1, <2>2, <1>1 DEF ScreenType
<1>10. ASSUME NEW s \in Upload, FlushGoesOn(t, s) PROVE ScreenType'
  <2>1. job[<<t, s>>] \in Job
    BY <1>10 DEF FlushGoesOn, ScreenType
  <2>2. [job[<<t, s>>] EXCEPT !.w = None, !.at = "ready"] \in Job
    BY <2>1 DEF Job
  <2>3. job' \in {[job EXCEPT ![<<t, s>>] = None],
                  [job EXCEPT ![<<t, s>>] = [job[<<t, s>>] EXCEPT !.w = None, !.at = "ready"]]}
    BY <1>10 DEF FlushGoesOn
  <2>4. job' \in [Tab \X Slot -> Job \cup {None}]
    BY <2>2, <2>3, OneJobTyped
  <2>q. \/ queue' = [queue EXCEPT ![job[<<t, s>>].w] = "none"]
        \/ queue' = [queue EXCEPT ![job[<<t, s>>].w] = "refused"]
    BY <1>10 DEF FlushGoesOn, AfterAnswer
  <2>5. queue' \in [Weighing -> Kept]
    BY <2>q, <1>q, <1>k
  <2>6. list' \in [Tab -> [Weighing -> Kept]] /\ UNCHANGED <<record, mine, told>>
    BY <1>10, <1>1, <2>5 DEF FlushGoesOn, ScreenType
  <2> QED
    BY <2>4, <2>5, <2>6 DEF ScreenType
<1>11. ASSUME NEW s \in Upload, FlushStops(t, s) PROVE ScreenType'
  <2>1. job' \in [Tab \X Slot -> Job \cup {None}]
    BY <1>11, OneJobTyped DEF FlushStops
  <2> QED
    BY <1>11, <1>1, <2>1 DEF FlushStops, ScreenType
<1> QED
  BY <1>2, <1>3, <1>4, <1>5, <1>6, <1>7, <1>8, <1>9, <1>10, <1>11

-----------------------------------------------------------------------------
\* What a screen does by itself leaves the sessions alone.
LEMMA JobsSession ==
    ASSUME SessionInv, UNCHANGED session,
           \A t \in Tab, s \in Slot : job'[t, s] = job[t, s] \/ Runs(t, s)'
    PROVE  SessionInv'
<1> USE DEF session
<1>0. Issued' = Issued
  BY DEF Issued
<1>1. SessionType' /\ Numbered' /\ InHand' /\ Alone'
  <2>1. SessionType'
    BY DEF SessionInv, SessionType
  <2>2. Numbered' /\ InHand'
    BY <1>0 DEF SessionInv, Numbered, InHand, Fam
  <2>3. \A t \in Tab : Sole(t) => Sole(t)'
    BY DEF Sole, Fam, In
  <2>4. \A k : Good(k)' = Good(k) /\ Fam(k)' = Fam(k)
    BY DEF Good, Fam
  <2>5. Alone'
    BY <2>3, <2>4 DEF SessionInv, Alone
  <2> QED
    BY <2>1, <2>2, <2>5
<1>2. ASSUME NEW t \in Tab PROVE Holds(t)' /\ \A s \in Slot : Runs(t, s)'
  <2>1. Holds(t)'
    BY DEF SessionInv, Starting, Holds, In
  <2>2. ASSUME NEW s \in Slot PROVE Runs(t, s)'
    <3>0. Runs(t, s)
      BY DEF SessionInv, Starting
    <3>1. CASE job'[t, s] = job[t, s]
      BY <3>0, <3>1 DEF Runs
    <3> QED
      BY <3>1
  <2> QED
    BY <2>1, <2>2
<1> QED
  BY <1>1, <1>2 DEF SessionInv, Starting

LEMMA OneJobSession ==
    ASSUME SessionInv, ScreenType, UNCHANGED session, NEW t \in Tab, NEW s, NEW k,
           job' = [job EXCEPT ![<<t, s>>] = k], user[t] \notin {"closed", "loading"},
           k # None => k.kind # "me" /\ k.at # "again"
    PROVE  SessionInv'
<1>1. ASSUME NEW u \in Tab, NEW v \in Slot PROVE job'[u, v] = job[u, v] \/ Runs(u, v)'
  <2>1. <<u, v>> \in Tab \X Slot
    BY DEF Slot
  <2>2. CASE u = t /\ v = s
    <3>1. job'[u, v] = k
      BY <2>1, <2>2 DEF ScreenType
    <3> QED
      BY <2>2, <3>1 DEF Runs, session
  <2>3. CASE ~(u = t /\ v = s)
    BY <2>1, <2>3 DEF ScreenType
  <2> QED
    BY <2>2, <2>3
<1> QED
  BY <1>1, JobsSession

LEMMA PersonSession ==
    ASSUME SessionInv, ScreenType, NEW t \in Tab,
           \/ Look(t) \/ LookEnds(t) \/ StartFlush(t) \/ Tick(t) \/ SaveEnds(t) \/ UndoEnds(t)
           \/ \E w \in Weighing : Save(t, w) \/ Undo(t, w) \/ Drop(t, w)
           \/ \E s \in Upload : FlushGoesOn(t, s) \/ FlushStops(t, s)
    PROVE  SessionInv'
<1>i. In(t) => user[t] \notin {"closed", "loading"}
  BY FarmAssumption DEF In
<1>j. \A s \in Slot : job[<<t, s>>] # None => /\ user[t] # "closed"
                                              /\ s # "form" => user[t] # "loading"
  BY DEF SessionInv, Starting, Runs
<1>k. job[<<t, "form">>] # None /\ job[<<t, "form">>].kind # "me" => user[t] \notin {"closed", "loading"}
  BY <1>j DEF SessionInv, Starting, Runs, Slot
<1>p. ASSUME In(t), UNCHANGED session, NEW kind \in {"load", "save", "undo"}, NEW w, NEW farm,
             job' = [job EXCEPT ![<<t, "form">>] = FormJob(kind, w, farm)]
      PROVE  SessionInv'
  <2> DEFINE k == FormJob(kind, w, farm)
  <2>1. k.kind # "me" /\ k.at # "again"
    BY DEF FormJob
  <2>2. job' = [job EXCEPT ![<<t, "form">>] = k]
    BY <1>p
  <2> HIDE DEF k
  <2> QED
    BY <2>1, <2>2, <1>i, <1>p, OneJobSession
<1>s. job' = job /\ UNCHANGED session => SessionInv'
  BY JobsSession
<1>2. CASE Look(t)
  <2>1. In(t) /\ job' = [job EXCEPT ![<<t, "form">>] = FormJob("load", None, user[t])] /\ UNCHANGED session
    BY <1>2 DEF Look
  <2> QED
    BY <2>1, <1>p
<1>3. CASE LookEnds(t)
  BY <1>3, <1>k, OneJobSession DEF LookEnds
<1>4. CASE StartFlush(t) \/ Tick(t)
  <2>1. In(t) /\ job' = [job EXCEPT ![<<t, mount[t]>>] = Flush(queue, user[t])] /\ UNCHANGED session
    BY <1>4 DEF StartFlush, Tick
  <2>2. Flush(queue, user[t]) # None => Flush(queue, user[t]).at = "ready"
                                        /\ Flush(queue, user[t]).kind = "flush"
    BY <2>1, FlushTyped DEF In
  <2> QED
    BY <2>1, <2>2, <1>i, OneJobSession
<1>5. CASE SaveEnds(t)
  BY <1>5, <1>k, OneJobSession DEF SaveEnds
<1>6. CASE UndoEnds(t)
  BY <1>6, <1>k, OneJobSession DEF UndoEnds
<1>7. ASSUME NEW w \in Weighing, Save(t, w) PROVE SessionInv'
  <2>1. CASE job' = job
    BY <1>7, <2>1, <1>s DEF Save
  <2>2. CASE job' = [job EXCEPT ![<<t, "form">>] = FormJob("save", w, user[t])]
    BY <1>7, <2>2, <1>p DEF Save
  <2> QED
    BY <1>7, <2>1, <2>2 DEF Save
<1>8. ASSUME NEW w \in Weighing, Undo(t, w) PROVE SessionInv'
  <2>1. CASE job' = job
    BY <1>8, <2>1, <1>s DEF Undo
  <2>2. CASE job' = [job EXCEPT ![<<t, "form">>] = FormJob("undo", w, user[t])]
    BY <1>8, <2>2, <1>p DEF Undo
  <2> QED
    BY <1>8, <2>1, <2>2 DEF Undo
<1>9. ASSUME NEW w \in Weighing, Drop(t, w) PROVE SessionInv'
  BY <1>9, <1>s DEF Drop
<1>10. ASSUME NEW s \in Upload, FlushGoesOn(t, s) PROVE SessionInv'
  <2> DEFINE k == [job[<<t, s>>] EXCEPT !.w = None, !.at = "ready"]
  <2>1. job' = [job EXCEPT ![<<t, s>>] = None] \/ job' = [job EXCEPT ![<<t, s>>] = k]
    BY <1>10 DEF FlushGoesOn
  <2>2. job[<<t, s>>] \in Job /\ job[<<t, s>>].kind = "flush" /\ job[<<t, s>>] # None /\ UNCHANGED session
    BY <1>10 DEF FlushGoesOn, ScreenType, Slot
  <2>3. k.kind # "me" /\ k.at # "again"
    BY <2>2 DEF Job
  <2>4. user[t] \notin {"closed", "loading"}
    BY <2>2, <1>j DEF Slot, Upload
  <2> HIDE DEF k
  <2> QED
    BY <2>1, <2>2, <2>3, <2>4, OneJobSession
<1>11. ASSUME NEW s \in Upload, FlushStops(t, s) PROVE SessionInv'
  <2>1. job' = [job EXCEPT ![<<t, s>>] = None] /\ job[<<t, s>>] # None /\ UNCHANGED session
    BY <1>11 DEF FlushStops
  <2>2. user[t] \notin {"closed", "loading"}
    BY <2>1, <1>j DEF Slot, Upload
  <2> QED
    BY <2>1, <2>2, OneJobSession
<1> QED
  BY <1>2, <1>3, <1>4, <1>5, <1>6, <1>7, <1>8, <1>9, <1>10, <1>11

\* Tokens only grow stale.
LEMMA ExpireSession ==
    ASSUME SessionInv, ScreenType, NEW k \in Token, Expire(k)
    PROVE  SessionInv'
<1>1. /\ k \in Issued /\ token' = [token EXCEPT ![k].fresh = FALSE]
      /\ UNCHANGED <<stored, last, user, cred, mount, job, renewal, spoilt, scene>>
      /\ \A t \in Tab : /\ cred[t] = k => \A s \in Slot : job[<<t, s>>] # None => job[<<t, s>>].at # "again"
                        /\ renewal[t] # None => renewal[t].got # k
  BY DEF Expire
<1>2. token[k] \in Signed
  BY <1>1 DEF Issued, SessionInv, SessionType
<1>3. [token[k] EXCEPT !.fresh = FALSE] \in Signed
  BY <1>2 DEF Signed
<1>4. token' \in [Token -> Signed \cup {None}]
  BY <1>1, <1>3 DEF SessionInv, SessionType
<1>5. Issued' = Issued
  BY <1>1, <1>3, RowsAssumption DEF Issued, SessionInv, SessionType
<1>6. \A i \in Token : /\ token'[i].family = token[i].family
                       /\ token'[i].state = token[i].state
                       /\ i # k => token'[i].fresh = token[i].fresh
  BY <1>1, <1>2 DEF SessionInv, SessionType, Signed
<1>7. Issued \subseteq Token
  BY DEF Issued
<1>8. SessionType'
  BY <1>1, <1>4 DEF SessionInv, SessionType
<1>9. Numbered' /\ InHand'
  BY <1>1, <1>5, <1>6, <1>7 DEF SessionInv, Numbered, InHand, Fam
<1>10. Starting'
  <2>1. ASSUME NEW t \in Tab PROVE Holds(t)'
    BY <1>1 DEF SessionInv, Starting, Holds, In
  <2>2. ASSUME NEW t \in Tab, NEW s \in Slot PROVE Runs(t, s)'
    <3>1. Runs(t, s)
      BY DEF SessionInv, Starting
    <3>2. job[<<t, s>>] # None /\ job[<<t, s>>].at = "again" => cred[t] = 0 \/ token'[cred[t]].fresh
      <4> SUFFICES ASSUME job[<<t, s>>] # None, job[<<t, s>>].at = "again", cred[t] # 0
                   PROVE  token'[cred[t]].fresh
        OBVIOUS
      <4>1. cred[t] # k /\ cred[t] \in Token /\ token[cred[t]].fresh
        BY <1>1, <3>1 DEF Runs, SessionInv, SessionType
      <4>2. token'[cred[t]] = token[cred[t]]
        BY <1>1, <4>1 DEF SessionInv, SessionType
      <4> QED
        BY <4>1, <4>2
    <3> QED
      BY <1>1, <3>1, <3>2 DEF Runs
  <2> QED
    BY <2>1, <2>2 DEF Starting
<1>11. Alone'
  <2>1. \A t \in Tab : cred[t] \in Token \cup {0}
    BY DEF SessionInv, SessionType
  <2>2. stored \in Token \cup {0}
    BY DEF SessionInv, SessionType
  <2>3. \A t \in Tab : renewal[t] # None => renewal[t].given \in Token
    BY <1>7 DEF SessionInv, InHand
  <2>4. \A t \in Tab : Good(cred[t])' => Good(cred[t]) /\ Sole(t)
    BY <1>1, <1>6, <2>1 DEF SessionInv, Alone, Good, Fam
  <2>5. \A t \in Tab : Good(cred[t])' => Sole(t)'
    BY <1>1, <1>6, <2>1, <2>2, <2>4 DEF Sole, Good, Fam, In
  <2>6. \A t \in Tab : renewal'[t] # None /\ Good(renewal[t].given)' => cred'[t] = renewal'[t].given
    BY <1>1, <1>6, <2>3 DEF SessionInv, Alone, Good, Fam
  <2>7. Good(stored)' /\ (\A t \in Tab : cred'[t] # 0 => Fam(cred[t])' # Fam(stored)') => token'[stored'].state = "live"
    BY <1>1, <1>6, <2>1, <2>2 DEF SessionInv, Alone, Good, Fam
  <2> QED
    BY <2>5, <2>6, <2>7 DEF Alone
<1> QED
  BY <1>8, <1>9, <1>10, <1>11 DEF SessionInv

-----------------------------------------------------------------------------
\* What SessionInv says of the tokens that are in use.
LEMMA TokensInUse ==
    ASSUME SessionInv
    PROVE  /\ Issued \subseteq Token /\ 0 \notin Issued
           /\ \A k \in Issued : token[k] \in Signed /\ Fam(k) \in Issued
           /\ \A t \in Tab : cred[t] # 0 => cred[t] \in Issued
           /\ stored # 0 => stored \in Issued
           /\ \A t \in Tab : renewal[t] # None => renewal[t].given \in Issued
           /\ \A t \in Tab : cred[t] # 0 => user[t] # "closed"
BY DEF SessionInv, SessionType, Numbered, InHand, Starting, Holds, Issued, Token

\* The token issued next was never issued, and continues the numbering.
LEMMA NextToken ==
    ASSUME SessionInv, NewToken <= scene.tokens
    PROVE  /\ NewToken \in Token /\ NewToken \notin Issued /\ NewToken # 0
           /\ \E n \in Nat : Issued \cup {NewToken} = 1..n
<1>1. PICK n \in Nat : Issued = 1..n
  BY DEF SessionInv, Numbered
<1>2. NewToken = n + 1
  <2>1. Cardinality(1..n) = n
    BY FS_Interval
  <2> QED
    BY <1>1, <2>1 DEF NewToken
<1>3. scene.tokens <= MaxToken /\ scene.tokens \in Int
  BY SceneAssumption, MaxTokenAssumption DEF SessionInv, SessionType
<1>4. NewToken \in Token
  BY <1>2, <1>3, MaxTokenAssumption DEF Token
<1>5. Issued \cup {NewToken} = 1..(n + 1)
  BY <1>1, <1>2
<1> QED
  BY <1>1, <1>2, <1>4, <1>5

LEMMA OneMore ==
    ASSUME SessionInv, NewToken <= scene.tokens, NEW T, NEW k, k \in Issued \/ k = NewToken,
           token' \in [Token -> Signed \cup {None}],
           \A i \in Token \ {NewToken} : token'[i] = None <=> token[i] = None,
           \A i \in Issued : token'[i].family = token[i].family,
           token'[NewToken] \in Signed, token'[NewToken].family = IF k = NewToken THEN k ELSE Fam(k)
    PROVE  Issued' = Issued \cup {NewToken} /\ Numbered'
<1>1. Issued' = Issued \cup {NewToken}
  BY NextToken, RowsAssumption DEF Issued
<1>2. \E n \in Nat : Issued' = 1..n
  BY <1>1, NextToken
<1>3. \A i \in Issued' : Fam(i)' \in Issued'
  BY <1>1, TokensInUse DEF Fam
<1> QED
  BY <1>1, <1>2, <1>3 DEF Numbered

\* A family that is closed takes no other token with it.
LEMMA Revoking ==
    ASSUME SessionInv, NEW k \in Issued, token' = Revoked(k)
    PROVE  /\ token' \in [Token -> Signed \cup {None}]
           /\ Issued' = Issued
           /\ \A i \in Issued : /\ token'[i].family = token[i].family
                                /\ token'[i].fresh = token[i].fresh
                                /\ Fam(i) # Fam(k) => token'[i] = token[i]
<1>1. token' = [i \in Token |-> IF i \in Family(k) THEN [token[i] EXCEPT !.state = "revoked"] ELSE token[i]]
  BY DEF Revoked
<1>2. \A i \in Token : token[i] \in Signed \cup {None}
  BY DEF SessionInv, SessionType
<1>3. \A i \in Family(k) : /\ i \in Issued /\ Fam(i) = Fam(k)
                           /\ token[i] \in Signed
  BY <1>2 DEF Family, Fam, Issued
<1>4. \A r \in Signed : /\ [r EXCEPT !.state = "revoked"] \in Signed
                        /\ [r EXCEPT !.state = "revoked"].family = r.family
                        /\ [r EXCEPT !.state = "revoked"].fresh = r.fresh
  BY DEF Signed
<1>5. ASSUME NEW i \in Token
      PROVE  /\ token'[i] \in Signed \cup {None}
             /\ token'[i] = None <=> token[i] = None
             /\ i \in Issued => /\ token'[i].family = token[i].family
                                /\ token'[i].fresh = token[i].fresh
                                /\ Fam(i) # Fam(k) => token'[i] = token[i]
  <2>1. CASE i \in Family(k)
    <3>1. token'[i] = [token[i] EXCEPT !.state = "revoked"]
      BY <1>1, <2>1
    <3>2. /\ token'[i] \in Signed /\ token'[i].family = token[i].family
          /\ token'[i].fresh = token[i].fresh /\ token[i] \in Signed /\ Fam(i) = Fam(k)
      BY <3>1, <1>3, <1>4, <2>1
    <3> QED
      BY <3>2, RowsAssumption
  <2>2. CASE i \notin Family(k)
    BY <1>1, <1>2, <2>2
  <2> QED
    BY <2>1, <2>2
<1>6. token' \in [Token -> Signed \cup {None}]
  BY <1>1, <1>5
<1>7. Issued' = Issued
  BY <1>5 DEF Issued
<1>8. Issued \subseteq Token
  BY DEF Issued
<1> QED
  BY <1>5, <1>6, <1>7, <1>8

\* A tab the step does not touch.
LEMMA OthersStart ==
    ASSUME SessionInv, NEW u \in Tab, user'[u] = user[u], cred'[u] = cred[u], renewal'[u] = renewal[u],
           \A s \in Slot : job'[u, s] = job[u, s],
           \A k \in Issued : token[k].fresh => token'[k].fresh
    PROVE  Holds(u)' /\ \A s \in Slot : Runs(u, s)'
<1>1. Holds(u)'
  BY DEF SessionInv, Starting, Holds, In
<1>2. cred[u] # 0 => cred[u] \in Issued
  BY TokensInUse
<1>3. ASSUME NEW s \in Slot PROVE Runs(u, s)'
  BY <1>2 DEF SessionInv, Starting, Runs
<1> QED
  BY <1>1, <1>3

LEMMA OthersSole ==
    ASSUME SessionInv, NEW u \in Tab, Good(cred[u]),
           user'[u] = user[u], cred'[u] = cred[u], renewal'[u] = renewal[u],
           \A v \in Tab \ {u} : cred'[v] # 0 => token'[cred'[v]].family # Fam(cred[u]),
           stored' # 0 /\ token'[stored'].family = Fam(cred[u]) => stored' = cred[u],
           \A k \in Issued : Fam(k) = Fam(cred[u]) =>
                token'[k].family = Fam(k) /\ token'[k].state = token[k].state
    PROVE  Sole(u)'
<1>1. Sole(u) /\ cred[u] \in Issued
  BY TokensInUse DEF SessionInv, Alone, Good
<1>2. token'[cred[u]].family = Fam(cred[u]) /\ token'[cred[u]].state = token[cred[u]].state
  BY <1>1
<1>3. renewal[u] # None /\ renewal[u].got # None =>
        /\ renewal[u].got \in Token
        /\ token'[renewal[u].got].state = token[renewal[u].got].state
  BY <1>1 DEF Sole, SessionInv, InHand
<1> QED
  BY <1>1, <1>2, <1>3 DEF Sole, Fam, In

\* The parts of Alone that a step has to keep, given what it does to the tab t.
LEMMA AloneFrom ==
    ASSUME \A u \in Tab : Good(cred[u])' => Sole(u)',
           \A u \in Tab : renewal'[u] # None /\ Good(renewal[u].given)' => cred'[u] = renewal'[u].given,
           Good(stored)' /\ (\A u \in Tab : cred'[u] # 0 => Fam(cred[u])' # Fam(stored)') =>
                token'[stored'].state = "live"
    PROVE  Alone'
BY DEF Alone

LEMMA OpenSession ==
    ASSUME SessionInv, ScreenType, NEW t \in Tab, Open(t)
    PROVE  SessionInv'
<1> <<t, "form">> \in Tab \X Slot
  BY DEF Slot
<1>1. /\ user[t] = "closed"
      /\ cred' = [cred EXCEPT ![t] = stored]
      /\ user' = [user EXCEPT ![t] = IF stored = 0 THEN "out" ELSE "loading"]
      /\ job' = [job EXCEPT ![<<t, "form">>] = IF stored = 0 THEN None ELSE FormJob("me", None, None)]
      /\ UNCHANGED <<token, stored, last, mount, renewal, scene>>
  BY DEF Open
<1>2. spoilt' = spoilt \cup {token[cred[u]].family : u \in {v \in Tab : stored # 0 /\ cred[v] \in Family(stored)}}
  BY DEF Open
<1>3. cred[t] = 0 /\ renewal[t] = None /\ \A s \in Slot : job[<<t, s>>] = None
  BY <1>1 DEF SessionInv, Starting, Holds, Runs
<1>4. /\ cred'[t] = stored /\ user'[t] = (IF stored = 0 THEN "out" ELSE "loading")
      /\ \A u \in Tab \ {t} : cred'[u] = cred[u] /\ user'[u] = user[u]
  BY <1>1 DEF SessionInv, SessionType
<1>5. Issued' = Issued
  BY <1>1 DEF Issued
<1>6. SessionType'
  <2>1. spoilt' \subseteq Token
    <3>1. \A v \in Tab : cred[v] \in Family(stored) => token[cred[v]].family \in Token
      BY TokensInUse DEF Family, Fam
    <3> QED
      BY <1>2, <3>1 DEF SessionInv, SessionType
  <2> QED
    BY <1>1, <2>1 DEF SessionInv, SessionType
<1>7. Numbered' /\ InHand'
  BY <1>1, <1>4, <1>5 DEF SessionInv, Numbered, InHand, Fam
<1>8. Starting'
  <2>1. ASSUME NEW u \in Tab \ {t} PROVE Holds(u)' /\ \A s \in Slot : Runs(u, s)'
    <3>1. \A s \in Slot : job'[<<u, s>>] = job[<<u, s>>]
      BY <1>1 DEF ScreenType
    <3> QED
      BY <1>1, <1>4, <3>1, OthersStart
  <2>2. Holds(t)'
    BY <1>1, <1>3, <1>4, FarmAssumption DEF Holds, In
  <2> DEFINE k == FormJob("me", None, None)
  <2>3. k # None /\ k.kind = "me" /\ k.at = "ready"
    BY FormTyped, RowsAssumption
  <2>4. \A s \in Slot : job'[<<t, s>>] = IF s = "form" /\ stored # 0 THEN k ELSE None
    BY <1>1, <1>3 DEF ScreenType, Slot
  <2> HIDE DEF k
  <2>5. ASSUME NEW s \in Slot PROVE Runs(t, s)'
    <3>1. renewal'[t] = None /\ job'[<<t, s>>] = IF s = "form" /\ stored # 0 THEN k ELSE None
      BY <1>1, <1>3, <2>4
    <3>2. CASE s = "form" /\ stored # 0
      BY <3>1, <3>2, <1>4, <2>3 DEF Runs
    <3>3. CASE ~(s = "form" /\ stored # 0)
      BY <3>1, <3>3, <1>4 DEF Runs
    <3> QED
      BY <3>2, <3>3
  <2> QED
    BY <2>1, <2>2, <2>5 DEF Starting
<1>9. Alone'
  <2>f. \A k : Fam(k)' = Fam(k)
    BY <1>1 DEF Fam
  <2>0. \A k : Good(k)' => Good(k)
    BY <1>1, <1>2 DEF Good, Fam
  <2>1. \A u \in Tab : stored # 0 /\ cred[u] # 0 /\ Fam(cred[u]) = Fam(stored) => Fam(stored) \in spoilt'
    <3> SUFFICES ASSUME NEW u \in Tab, stored # 0, cred[u] # 0, Fam(cred[u]) = Fam(stored)
                 PROVE  Fam(stored) \in spoilt'
      OBVIOUS
    <3>1. cred[u] \in Family(stored)
      BY TokensInUse DEF Family, Fam
    <3> QED
      BY <1>2, <3>1 DEF Fam
  <2>2. ASSUME NEW u \in Tab, Good(cred[u])' PROVE Sole(u)'
    <3>1. CASE u = t
      <4>1. stored # 0 /\ Fam(stored) \notin spoilt'
        BY <2>2, <3>1, <1>4, <1>1 DEF Good, Fam
      <4>2. \A v \in Tab : cred[v] # 0 => Fam(cred[v]) # Fam(stored)
        BY <2>1, <4>1
      <4>3. token[stored].state = "live"
        BY <2>0, <2>2, <3>1, <1>4, <4>1, <4>2 DEF SessionInv, Alone
      <4> QED
        BY <3>1, <4>1, <4>2, <4>3, <1>1, <1>3, <1>4 DEF Sole, Fam
    <3>2. CASE u # t
      <4>1. Good(cred[u]) /\ cred[u] # 0 /\ Fam(cred[u]) \notin spoilt'
        BY <2>0, <2>2, <3>2, <1>4, <2>f DEF Good, Fam
      <4>2. \A v \in Tab \ {u} : cred'[v] # 0 => token'[cred'[v]].family # Fam(cred[u])
        BY <4>1, <3>2, <1>1, <1>4, <2>1 DEF SessionInv, Alone, Sole, Fam
      <4>3. stored' # 0 /\ token'[stored'].family = Fam(cred[u]) => stored' = cred[u]
        BY <4>1, <1>1, <2>1 DEF Fam
      <4> QED
        BY <1>1, <1>4, <3>2, <4>1, <4>2, <4>3, OthersSole DEF Fam
    <3> QED
      BY <3>1, <3>2
  <2>3. \A u \in Tab : renewal'[u] # None /\ Good(renewal[u].given)' => cred'[u] = renewal'[u].given
    BY <1>1, <1>3, <1>4, <2>0 DEF SessionInv, Alone, Good, Fam
  <2>4. Good(stored)' => ~(\A u \in Tab : cred'[u] # 0 => Fam(cred[u])' # Fam(stored)')
    BY <1>1, <1>4 DEF Good, Fam
  <2> QED
    BY <2>2, <2>3, <2>4, AloneFrom
<1> QED
  BY <1>6, <1>7, <1>8, <1>9 DEF SessionInv

LEMMA CloseSession ==
    ASSUME SessionInv, ScreenType, NEW t \in Tab, Close(t)
    PROVE  SessionInv'
<1>1. /\ user' = [user EXCEPT ![t] = "closed"]
      /\ mount' = [mount EXCEPT ![t] = None]
      /\ cred' = [cred EXCEPT ![t] = 0]
      /\ job' = [x \in Tab \X Slot |-> IF x[1] = t THEN None ELSE job[x]]
      /\ renewal' = [renewal EXCEPT ![t] = None]
      /\ UNCHANGED <<token, stored, last, scene>>
  BY DEF Close, Unmounted
<1>2. spoilt' = IF renewal[t] = None THEN spoilt ELSE spoilt \cup {token[renewal[t].given].family}
  BY DEF Close
<1>4. /\ cred'[t] = 0 /\ user'[t] = "closed" /\ renewal'[t] = None
      /\ \A u \in Tab \ {t} : cred'[u] = cred[u] /\ user'[u] = user[u] /\ renewal'[u] = renewal[u]
  BY <1>1 DEF SessionInv, SessionType
<1>5. Issued' = Issued
  BY <1>1 DEF Issued
<1>6. SessionType'
  <2>1. spoilt' \subseteq Token
    BY <1>2, TokensInUse DEF SessionInv, SessionType, Fam
  <2> QED
    BY <1>1, <2>1 DEF SessionInv, SessionType
<1>7. Numbered' /\ InHand'
  <2>1. Numbered'
    BY <1>1, <1>5 DEF SessionInv, Numbered, Fam
  <2>2. InHand'
    BY <1>1, <1>4, <1>5 DEF SessionInv, InHand, Fam
  <2> QED
    BY <2>1, <2>2
<1>8. Starting'
  <2>1. ASSUME NEW u \in Tab \ {t} PROVE Holds(u)' /\ \A s \in Slot : Runs(u, s)'
    <3>1. \A s \in Slot : job'[<<u, s>>] = job[<<u, s>>]
      BY <1>1
    <3> QED
      BY <1>1, <1>4, <3>1, OthersStart
  <2>2. \A s \in Slot : job'[<<t, s>>] = None
    BY <1>1
  <2>3. Holds(t)' /\ \A s \in Slot : Runs(t, s)'
    BY <1>4, <2>2, FarmAssumption DEF Holds, Runs, In
  <2> QED
    BY <2>1, <2>3 DEF Starting
<1>9. Alone'
  <2>0. \A k : Good(k)' => Good(k)
    BY <1>1, <1>2 DEF Good, Fam
  <2>2. ASSUME NEW u \in Tab, Good(cred[u])' PROVE Sole(u)'
    <3>1. u # t
      BY <2>2, <1>4 DEF Good
    <3>2. Good(cred[u])
      BY <2>0, <2>2, <3>1, <1>4 DEF Good, Fam
    <3>3. Sole(u)
      BY <3>2 DEF SessionInv, Alone
    <3> QED
      BY <1>1, <1>4, <3>1, <3>2, <3>3, OthersSole DEF Sole, Fam
  <2>3. \A u \in Tab : renewal'[u] # None /\ Good(renewal[u].given)' => cred'[u] = renewal'[u].given
    BY <1>1, <1>4, <2>0 DEF SessionInv, Alone, Good, Fam
  <2>4. ASSUME Good(stored)', \A u \in Tab : cred'[u] # 0 => Fam(cred[u])' # Fam(stored)'
        PROVE  token'[stored'].state = "live"
    <3>1. Good(stored) /\ Fam(stored) \notin spoilt'
      BY <2>4, <2>0, <1>1 DEF Good, Fam
    <3>2. \A u \in Tab \ {t} : cred[u] # 0 => Fam(cred[u]) # Fam(stored)
      BY <2>4, <1>1, <1>4 DEF Fam
    <3>3. CASE cred[t] # 0 /\ Fam(cred[t]) = Fam(stored)
      <4>1. Good(cred[t]) /\ Sole(t) /\ stored # 0
        BY <3>1, <3>3 DEF Good, SessionInv, Alone
      <4>2. stored = cred[t]
        BY <4>1, <3>3 DEF Sole
      <4>3. renewal[t] = None
        BY <4>1, <4>2, <3>1, <1>2 DEF Sole, Fam
      <4> QED
        BY <4>1, <4>2, <4>3, <1>1 DEF Sole
    <3>4. CASE ~(cred[t] # 0 /\ Fam(cred[t]) = Fam(stored))
      BY <3>1, <3>2, <3>4, <1>1 DEF SessionInv, Alone
    <3> QED
      BY <3>3, <3>4
  <2> QED
    BY <2>2, <2>3, <2>4, AloneFrom
<1> QED
  BY <1>6, <1>7, <1>8, <1>9 DEF SessionInv

LEMMA LoginSession ==
    ASSUME SessionInv, ScreenType, NEW t \in Tab, NEW f \in Farm, Login(t, f)
    PROVE  SessionInv'
<1> DEFINE n == NewToken
           new == [farm |-> f, family |-> n, fresh |-> TRUE, state |-> "live"]
<1>1. /\ user[t] \in {"out", "thrown"} /\ job[<<t, "form">>] = None /\ n <= scene.tokens
      /\ token' = [token EXCEPT ![n] = new]
      /\ cred' = [cred EXCEPT ![t] = n]
      /\ stored' = n /\ last' = f
      /\ spoilt' = IF renewal[t] = None THEN spoilt ELSE spoilt \cup {n}
      /\ UNCHANGED <<renewal, scene>>
  BY DEF Login
<1>2. PICK s \in Upload : /\ user' = [user EXCEPT ![t] = f]
                          /\ mount' = [mount EXCEPT ![t] = s]
                          /\ job' = [job EXCEPT ![<<t, s>>] = Flush(queue, f)]
  BY DEF Login, Mounted
<1>3. n \in Token /\ n \notin Issued /\ n # 0
  BY <1>1, NextToken
<1>n. new \in Signed /\ new.family = n /\ new.fresh = TRUE /\ new.state = "live"
  BY <1>3 DEF Signed
<1> HIDE DEF new
<1>4. /\ cred'[t] = n /\ user'[t] = f
      /\ \A u \in Tab \ {t} : cred'[u] = cred[u] /\ user'[u] = user[u]
  BY <1>1, <1>2 DEF SessionInv, SessionType
<1>5. token' \in [Token -> Signed \cup {None}] /\ token'[n] = new /\ \A i \in Token \ {n} : token'[i] = token[i]
  BY <1>1, <1>3, <1>n DEF SessionInv, SessionType
<1>6. \A i \in Issued : i \in Token \ {n}
  BY <1>3, TokensInUse
<1>7. Issued' = Issued \cup {n} /\ Numbered'
  BY <1>1, <1>5, <1>6, <1>n, OneMore
<1> HIDE DEF n
<1>8. SessionType'
  BY <1>1, <1>2, <1>3, <1>5 DEF SessionInv, SessionType
<1>9. InHand'
  <2>1. \A u \in Tab : cred'[u] \in Issued' \cup {0}
    BY <1>4, <1>7, TokensInUse
  <2>2. \A u \in Tab : renewal[u] # None =>
        /\ renewal[u].given \in Issued
        /\ renewal[u].got \in Token =>
            /\ renewal[u].got \in Issued
            /\ Fam(renewal[u].got) = Fam(renewal[u].given)
            /\ token[renewal[u].got].fresh
    BY DEF SessionInv, InHand
  <2> QED
    BY <1>1, <1>5, <1>6, <1>7, <2>1, <2>2 DEF InHand, Fam
<1>10. Starting'
  <2>1. ASSUME NEW u \in Tab \ {t} PROVE Holds(u)' /\ \A v \in Slot : Runs(u, v)'
    <3>1. \A v \in Slot : job'[<<u, v>>] = job[<<u, v>>]
      BY <1>2 DEF ScreenType
    <3> QED
      BY <1>1, <1>4, <1>5, <1>6, <3>1, OthersStart
  <2>2. Holds(t)'
    BY <1>3, <1>4, FarmAssumption DEF Holds
  <2> DEFINE k == Flush(queue, f)
  <2>3. k # None => k.kind = "flush" /\ k.at = "ready"
    BY FlushTyped
  <2>4. \A v \in Slot : job'[<<t, v>>] = IF v = s THEN k ELSE job[<<t, v>>]
    BY <1>2 DEF ScreenType, Slot
  <2> HIDE DEF k
  <2>5. ASSUME NEW v \in Slot PROVE Runs(t, v)'
    <3>1. user'[t] \notin {"closed", "loading"} /\ token'[cred'[t]].fresh
      BY <1>4, <1>5, <1>n, FarmAssumption
    <3>2. v = "form" => job'[<<t, v>>] = None
      BY <2>4, <1>1, <1>2 DEF Upload
    <3> QED
      BY <3>1, <3>2 DEF Runs
  <2> QED
    BY <2>1, <2>2, <2>5 DEF Starting
<1>11. Alone'
  <2>f. \A i \in Issued : Fam(i)' = Fam(i) /\ Fam(i) # n /\ token'[i] = token[i]
    BY <1>3, <1>5, <1>6, TokensInUse DEF Fam
  <2>n. token'[n].family = n
    BY <1>5, <1>n
  <2>0. \A i \in Issued : Good(i)' => Good(i)
    BY <1>1, <2>f DEF Good
  <2>2. ASSUME NEW u \in Tab, Good(cred[u])' PROVE Sole(u)'
    <3>1. CASE u = t
      <4>1. renewal[t] = None
        BY <2>2, <3>1, <1>1, <1>4, <2>n DEF Good, Fam
      <4>2. \A v \in Tab \ {t} : cred'[v] # 0 => Fam(cred[v])' # Fam(cred[t])'
        BY <1>4, <2>f, <2>n, TokensInUse DEF Fam
      <4> QED
        BY <3>1, <4>1, <4>2, <1>1, <1>4, <1>5, <1>n DEF Sole, In
    <3>2. CASE u # t
      <4>1. cred'[u] = cred[u] /\ cred[u] \in Issued
        BY <2>2, <3>2, <1>4, TokensInUse DEF Good
      <4>2. Good(cred[u]) /\ Sole(u)
        BY <2>0, <2>2, <4>1 DEF SessionInv, Alone, Good, Fam
      <4>3. \A v \in Tab \ {u} : cred'[v] # 0 => token'[cred'[v]].family # Fam(cred[u])
        BY <1>4, <2>f, <2>n, <4>1, <4>2, TokensInUse DEF Fam, Sole
      <4>4. token'[stored'].family # Fam(cred[u])
        BY <1>1, <2>f, <2>n, <4>1 DEF Fam
      <4> QED
        BY <1>1, <1>4, <2>f, <3>2, <4>1, <4>2, <4>3, <4>4, OthersSole DEF Fam
    <3> QED
      BY <3>1, <3>2
  <2>3. ASSUME NEW u \in Tab, renewal'[u] # None, Good(renewal[u].given)'
        PROVE  cred'[u] = renewal'[u].given
    <3>1. renewal[u].given \in Issued
      BY <2>3, <1>1, TokensInUse
    <3>2. cred[u] = renewal[u].given /\ Good(cred[u])
      BY <2>3, <3>1, <1>1, <2>0 DEF SessionInv, Alone, Good, Fam
    <3>3. u # t
      BY <3>2, <1>1, FarmAssumption DEF SessionInv, Alone, Sole, In
    <3> QED
      BY <3>2, <3>3, <1>1, <1>4
  <2>4. ~(\A u \in Tab : cred'[u] # 0 => Fam(cred[u])' # Fam(stored)')
    BY <1>1, <1>3, <1>4
  <2> QED
    BY <2>2, <2>3, <2>4, AloneFrom
<1> QED
  BY <1>7, <1>8, <1>9, <1>10, <1>11 DEF SessionInv

LEMMA LogoutSession ==
    ASSUME SessionInv, ScreenType, NEW t \in Tab, Logout(t)
    PROVE  SessionInv'
<1>1. /\ In(t) /\ (token' = Revoked(cred[t]) \/ token' = token)
      /\ user' = [user EXCEPT ![t] = "out"]
      /\ mount' = [mount EXCEPT ![t] = None]
      /\ cred' = [cred EXCEPT ![t] = 0]
      /\ stored' = 0 /\ last' = None
      /\ spoilt' = spoilt \cup {token[cred[t]].family}
      /\ UNCHANGED <<job, renewal, scene>>
  BY DEF Logout, Forgotten, Unmounted
<1>2. cred[t] \in Issued
  BY <1>1, TokensInUse DEF SessionInv, Starting, Holds
<1>3. /\ token' \in [Token -> Signed \cup {None}]
      /\ Issued' = Issued
      /\ \A i \in Issued : /\ token'[i].family = token[i].family
                           /\ token'[i].fresh = token[i].fresh
                           /\ Fam(i) # Fam(cred[t]) => token'[i] = token[i]
  <2>1. CASE token' = token
    BY <2>1 DEF SessionInv, SessionType, Issued
  <2>2. CASE token' = Revoked(cred[t])
    BY <2>2, <1>2, Revoking
  <2> QED
    BY <1>1, <2>1, <2>2
<1>4. /\ cred'[t] = 0 /\ user'[t] = "out"
      /\ \A u \in Tab \ {t} : cred'[u] = cred[u] /\ user'[u] = user[u]
  BY <1>1 DEF SessionInv, SessionType
<1>5. SessionType'
  BY <1>1, <1>2, <1>3, TokensInUse DEF SessionInv, SessionType, Fam
<1>6. Numbered'
  BY <1>3 DEF SessionInv, Numbered, Fam
<1>7. InHand'
  <2>2. \A u \in Tab : renewal[u] # None =>
        /\ renewal[u].given \in Issued
        /\ renewal[u].got \in Token =>
            /\ renewal[u].got \in Issued
            /\ Fam(renewal[u].got) = Fam(renewal[u].given)
            /\ token[renewal[u].got].fresh
    BY DEF SessionInv, InHand
  <2> QED
    BY <1>1, <1>3, <1>4, <2>2, TokensInUse DEF InHand, Fam
<1>8. Starting'
  <2>1. ASSUME NEW u \in Tab \ {t} PROVE Holds(u)' /\ \A s \in Slot : Runs(u, s)'
    BY <1>1, <1>3, <1>4, OthersStart
  <2>2. Holds(t)'
    BY <1>4, FarmAssumption DEF Holds, In
  <2>3. ASSUME NEW s \in Slot PROVE Runs(t, s)'
    <3>1. Runs(t, s) /\ user[t] # "loading"
      BY <1>1, FarmAssumption DEF SessionInv, Starting, In
    <3> QED
      BY <3>1, <1>1, <1>4 DEF Runs
  <2> QED
    BY <2>1, <2>2, <2>3 DEF Starting
<1>9. Alone'
  <2>0. \A i \in Issued : Good(i)' => Good(i) /\ Fam(i) # Fam(cred[t]) /\ Fam(i)' = Fam(i)
    BY <1>1, <1>3 DEF Good, Fam
  <2>2. ASSUME NEW u \in Tab, Good(cred[u])' PROVE Sole(u)'
    <3>1. u # t /\ cred'[u] = cred[u] /\ cred[u] \in Issued
      BY <2>2, <1>4, TokensInUse DEF Good
    <3>2. Good(cred[u]) /\ Sole(u) /\ Fam(cred[u]) # Fam(cred[t])
      BY <2>0, <2>2, <3>1 DEF SessionInv, Alone, Good, Fam
    <3>3. \A v \in Tab \ {u} : cred'[v] # 0 => token'[cred'[v]].family # Fam(cred[u])
      BY <1>3, <1>4, <3>1, <3>2, TokensInUse DEF Fam, Sole
    <3> QED
      BY <1>1, <1>3, <1>4, <3>1, <3>2, <3>3, OthersSole DEF Fam
  <2>3. ASSUME NEW u \in Tab, renewal'[u] # None, Good(renewal[u].given)'
        PROVE  cred'[u] = renewal'[u].given
    <3>1. renewal[u].given \in Issued
      BY <2>3, <1>1, TokensInUse
    <3>2. cred[u] = renewal[u].given /\ Fam(cred[u]) # Fam(cred[t])
      BY <2>3, <3>1, <1>1, <2>0 DEF SessionInv, Alone, Good, Fam
    <3> QED
      BY <3>2, <1>1, <1>4
  <2> QED
    BY <2>2, <2>3, <1>1, AloneFrom DEF Good
<1> QED
  BY <1>5, <1>6, <1>7, <1>8, <1>9 DEF SessionInv

\* A renewal is answered: the token it carried is spent, or its family closed.
LEMMA RenewalServedSession ==
    ASSUME SessionInv, ScreenType, NEW t \in Tab, RenewalServed(t)
    PROVE  SessionInv'
<1> DEFINE k == renewal[t].given
           n == NewToken
<1>1. /\ renewal[t] # None /\ renewal[t].got = None
      /\ UNCHANGED <<stored, last, user, cred, mount, job, scene>>
  BY DEF RenewalServed
<1>2. k \in Issued
  BY <1>1, TokensInUse
<1>3. renewal[t] \in Renewal
  BY <1>1 DEF SessionInv, SessionType
<1>a. \A a : renewal' = [renewal EXCEPT ![t].got = a] =>
            /\ \A u \in Tab \ {t} : renewal'[u] = renewal[u]
            /\ renewal'[t] = [renewal[t] EXCEPT !.got = a]
            /\ renewal'[t].given = k /\ renewal'[t].got = a
  BY <1>3 DEF SessionInv, SessionType, Renewal
<1>b. \A a \in Token \cup {Refused, Lost, None} : renewal' = [renewal EXCEPT ![t].got = a] =>
            renewal' \in [Tab -> Renewal \cup {None}]
  <2> SUFFICES ASSUME NEW a \in Token \cup {Refused, Lost, None}, renewal' = [renewal EXCEPT ![t].got = a]
               PROVE  renewal' \in [Tab -> Renewal \cup {None}]
    OBVIOUS
  <2>1. [renewal[t] EXCEPT !.got = a] \in Renewal
    BY <1>3 DEF Renewal
  <2> QED
    BY <2>1 DEF SessionInv, SessionType
<1>c. \A a \in Token \cup {Refused, Lost, None} : renewal' = [renewal EXCEPT ![t].got = a] => renewal'[t] # None
  <2> SUFFICES ASSUME NEW a \in Token \cup {Refused, Lost, None}, renewal' = [renewal EXCEPT ![t].got = a]
               PROVE  renewal'[t] # None
    OBVIOUS
  <2>1. [renewal[t] EXCEPT !.got = a] \in Renewal
    BY <1>3 DEF Renewal
  <2> QED
    BY <2>1, <1>a, RowsAssumption
<1>r. Refused \notin Token /\ Lost \notin Token /\ Refused # None /\ Lost # None
  BY AnswerAssumption, MaxTokenAssumption DEF Token
<1>g. Good(k) => cred[t] = k /\ Sole(t)
  BY <1>1 DEF SessionInv, Alone
\* The tab is told something, and no token is issued.
<1>4. ASSUME NEW a \in {Refused, Lost}, renewal' = [renewal EXCEPT ![t].got = a],
             spoilt' \in {spoilt, spoilt \cup {token[k].family}}, Fam(k) \in spoilt',
             token' \in [Token -> Signed \cup {None}], Issued' = Issued,
             \A i \in Issued : /\ token'[i].family = token[i].family
                               /\ token'[i].fresh = token[i].fresh
                               /\ Fam(i) # Fam(k) => token'[i] = token[i]
      PROVE  SessionInv'
  <2>1. SessionType'
    BY <1>1, <1>2, <1>4, <1>b, TokensInUse DEF SessionInv, SessionType, Fam
  <2>2. Numbered'
    BY <1>4 DEF SessionInv, Numbered, Fam
  <2>3. InHand'
    <3>1. \A u \in Tab \ {t} : renewal[u] # None =>
          /\ renewal[u].given \in Issued
          /\ renewal[u].got \in Token =>
              /\ renewal[u].got \in Issued
              /\ Fam(renewal[u].got) = Fam(renewal[u].given)
              /\ token[renewal[u].got].fresh
      BY DEF SessionInv, InHand
    <3>2. renewal'[t].given \in Issued /\ renewal'[t].got \notin Token
      <4>1. renewal'[t].given = k /\ renewal'[t].got = a
        BY <1>4, <1>a
      <4>2. a \notin Token
        BY <1>4, <1>r
      <4> QED
        BY <1>2, <4>1, <4>2
    <3> QED
      BY <1>1, <1>4, <1>a, <3>1, <3>2, TokensInUse DEF InHand, Fam
  <2>4. Starting'
    <3>1. ASSUME NEW u \in Tab \ {t} PROVE Holds(u)' /\ \A s \in Slot : Runs(u, s)'
      BY <1>1, <1>4, <1>a, OthersStart
    <3>2. Holds(t)'
      BY <1>1 DEF SessionInv, Starting, Holds, In
    <3>3. cred[t] # 0 => token'[cred[t]].fresh = token[cred[t]].fresh
      BY <1>4, TokensInUse
    <3>4. ASSUME NEW s \in Slot PROVE Runs(t, s)'
      BY <1>1, <3>3 DEF SessionInv, Starting, Runs
    <3> QED
      BY <3>1, <3>2, <3>4 DEF Starting
  <2>5. Alone'
    <3>0. \A i \in Issued : Good(i)' => Good(i) /\ Fam(i) # Fam(k) /\ token'[i] = token[i]
      BY <1>4 DEF Good, Fam
    <3>1. ASSUME NEW u \in Tab, Good(cred[u])' PROVE Sole(u)'
      <4>1. cred[u] \in Issued
        BY <3>1, <1>1, TokensInUse DEF Good
      <4>2. Good(cred[u]) /\ Fam(cred[u]) # Fam(k)
        BY <3>0, <3>1, <4>1, <1>1 DEF Good, Fam
      <4>3. Sole(u)
        BY <4>2 DEF SessionInv, Alone
      <4>4. u # t
        BY <4>2, <4>3, <1>1 DEF Sole
      <4>5. \A v \in Tab \ {u} : cred'[v] # 0 => token'[cred'[v]].family # Fam(cred[u])
        BY <1>1, <1>4, <4>3, TokensInUse DEF Sole, Fam
      <4>6. stored' # 0 /\ token'[stored'].family = Fam(cred[u]) => stored' = cred[u]
        BY <1>1, <1>4, <4>3, TokensInUse DEF Sole, Fam
      <4>7. \A i \in Issued : Fam(i) = Fam(cred[u]) =>
                token'[i].family = Fam(i) /\ token'[i].state = token[i].state
        BY <1>4, <4>2 DEF Fam
      <4> QED
        BY <1>1, <1>4, <1>a, <4>2, <4>4, <4>5, <4>6, <4>7, OthersSole
    <3>2. ASSUME NEW u \in Tab, renewal'[u] # None, Good(renewal[u].given)'
          PROVE  cred'[u] = renewal'[u].given
      <4>1. u # t
        BY <3>2, <1>2, <1>4, <1>a DEF Good, Fam
      <4>2. renewal'[u] = renewal[u]
        BY <4>1, <1>4, <1>a
      <4>3. renewal[u].given \in Issued
        BY <3>2, <4>2, TokensInUse
      <4> QED
        BY <3>0, <3>2, <4>2, <4>3, <1>1 DEF SessionInv, Alone, Good, Fam
    <3>3. ASSUME Good(stored)', \A u \in Tab : cred'[u] # 0 => Fam(cred[u])' # Fam(stored)'
          PROVE  token'[stored'].state = "live"
      <4>1. stored \in Issued
        BY <3>3, <1>1, TokensInUse DEF Good
      <4>2. Good(stored) /\ token'[stored] = token[stored]
        BY <3>0, <3>3, <4>1, <1>1 DEF Good, Fam
      <4>3. \A u \in Tab : cred[u] # 0 => Fam(cred[u]) # Fam(stored)
        BY <3>3, <4>1, <1>1, <1>4, TokensInUse DEF Fam
      <4> QED
        BY <4>2, <4>3, <1>1 DEF SessionInv, Alone
    <3> QED
      BY <3>1, <3>2, <3>3, AloneFrom
  <2> QED
    BY <2>1, <2>2, <2>3, <2>4, <2>5 DEF SessionInv
\* A token is issued for the one that is spent.
<1>5. ASSUME token[k].state = "live", n <= scene.tokens,
             token' = [token EXCEPT ![k].state = "spent", ![n] = [token[k] EXCEPT !.fresh = TRUE]],
             \/ renewal' = [renewal EXCEPT ![t].got = n] /\ spoilt' = spoilt
             \/ renewal' = [renewal EXCEPT ![t].got = Lost] /\ spoilt' = spoilt \cup {token[k].family}
      PROVE  SessionInv'
  <2> DEFINE new == [token[k] EXCEPT !.fresh = TRUE]
             old == [token[k] EXCEPT !.state = "spent"]
  <2>1. n \in Token /\ n \notin Issued /\ n # 0
    BY <1>5, NextToken
  <2>2. token[k] \in Signed
    BY <1>2, TokensInUse
  <2>3. /\ new \in Signed /\ new.family = Fam(k) /\ new.fresh = TRUE /\ new.state = token[k].state
        /\ old \in Signed /\ old.family = Fam(k) /\ old.fresh = token[k].fresh
    BY <2>2 DEF Signed, Fam
  <2>4. k \in Token /\ k # n
    BY <1>2, <2>1, TokensInUse
  <2>5. token' = [token EXCEPT ![k] = old, ![n] = new]
    BY <1>5, <2>4 DEF SessionInv, SessionType
  <2> HIDE DEF new, old
  <2>6. /\ token' \in [Token -> Signed \cup {None}]
        /\ token'[n] = new /\ token'[k] = old
        /\ \A i \in Token \ {k, n} : token'[i] = token[i]
    BY <2>1, <2>3, <2>4, <2>5 DEF SessionInv, SessionType
  <2>7. \A i \in Issued : /\ token'[i].family = token[i].family
                          /\ token'[i].fresh = token[i].fresh
                          /\ i # k => token'[i] = token[i]
    BY <2>1, <2>3, <2>6, TokensInUse DEF Fam
  <2>i. \A i \in Token \ {n} : token'[i] = None <=> token[i] = None
    BY <2>2, <2>3, <2>6, RowsAssumption
  <2>n. token'[n] \in Signed /\ token'[n].family = IF k = n THEN k ELSE Fam(k)
    BY <2>3, <2>4, <2>6
  <2>8. Issued' = Issued \cup {n} /\ Numbered'
    BY <1>2, <1>5, <2>6, <2>7, <2>i, <2>n, OneMore
  <2> HIDE DEF n
  <2>9. SessionType'
    <3>1. renewal' \in [Tab -> Renewal \cup {None}]
      BY <1>5, <1>b, <2>1
    <3>2. spoilt' \subseteq Token
      BY <1>2, <1>5, TokensInUse DEF SessionInv, SessionType, Fam
    <3> QED
      BY <1>1, <2>6, <3>1, <3>2 DEF SessionInv, SessionType
  <2>r. /\ \A u \in Tab \ {t} : renewal'[u] = renewal[u]
        /\ renewal'[t].given = k /\ renewal'[t].got \in {n, Lost} /\ renewal'[t] # None
        /\ renewal'[t].got = n \/ Fam(k) \in spoilt'
    BY <1>5, <1>a, <1>c, <2>1 DEF Fam
  <2>10. InHand'
    <3>1. \A u \in Tab \ {t} : renewal[u] # None =>
          /\ renewal[u].given \in Issued
          /\ renewal[u].got \in Token =>
              /\ renewal[u].got \in Issued
              /\ Fam(renewal[u].got) = Fam(renewal[u].given)
              /\ token[renewal[u].got].fresh
      BY DEF SessionInv, InHand
    <3>2. /\ renewal'[t].given \in Issued'
          /\ renewal'[t].got \in Token =>
              /\ renewal'[t].got \in Issued'
              /\ token'[renewal'[t].got].family = token'[renewal'[t].given].family
              /\ token'[renewal'[t].got].fresh
      BY <1>2, <1>r, <2>r, <2>3, <2>6, <2>8
    <3> QED
      BY <1>1, <2>7, <2>8, <2>r, <3>1, <3>2, TokensInUse DEF InHand, Fam
  <2>11. Starting'
    <3>1. ASSUME NEW u \in Tab \ {t} PROVE Holds(u)' /\ \A s \in Slot : Runs(u, s)'
      BY <1>1, <2>7, <2>r, OthersStart
    <3>2. Holds(t)'
      BY <1>1 DEF SessionInv, Starting, Holds, In
    <3>3. cred[t] # 0 => token'[cred[t]].fresh = token[cred[t]].fresh
      BY <2>7, TokensInUse
    <3>4. ASSUME NEW s \in Slot PROVE Runs(t, s)'
      BY <1>1, <3>3 DEF SessionInv, Starting, Runs
    <3> QED
      BY <3>1, <3>2, <3>4 DEF Starting
  <2>12. Alone'
    <3>0. \A i \in Issued : Good(i)' => Good(i)
      BY <1>5, <2>7 DEF Good, Fam
    <3>1. ASSUME NEW u \in Tab, Good(cred[u])' PROVE Sole(u)'
      <4>1. cred[u] \in Issued
        BY <3>1, <1>1, TokensInUse DEF Good
      <4>2. Good(cred[u]) /\ Sole(u) /\ Fam(cred[u]) \notin spoilt'
        BY <3>0, <3>1, <4>1, <1>1, <2>7 DEF SessionInv, Alone, Good, Fam
      <4>3. \A v \in Tab \ {u} : cred'[v] # 0 => token'[cred'[v]].family # Fam(cred[u])
        BY <1>1, <2>7, <4>2, TokensInUse DEF Sole, Fam
      <4>4. stored' # 0 /\ token'[stored'].family = Fam(cred[u]) => stored' = cred[u]
        BY <1>1, <2>7, <4>2, TokensInUse DEF Sole, Fam
      <4>5. CASE u = t
        <5>1. k = cred[t] /\ renewal'[t].got = n
          BY <4>2, <4>5, <1>1, <2>r DEF Sole
        <5>2. n # None /\ token'[n].state = "live"
          <6>1. n # None
            BY <2>1, NoneAssumption, MaxTokenAssumption DEF Token
          <6>2. token'[n].state = "live"
            BY <1>5, <2>3, <2>6
          <6> QED
            BY <6>1, <6>2
        <5>3. renewal'[t] # None /\ renewal'[t].given = cred[t] /\ renewal'[t].got = n /\ cred' = cred
          BY <5>1, <1>1, <2>r
        <5> QED
          BY <1>1, <2>1, <2>7, <4>1, <4>2, <4>3, <4>4, <4>5, <5>2, <5>3 DEF Sole, Fam, In
      <4>6. CASE u # t
        <5>1. Fam(k) # Fam(cred[u])
          BY <4>2, <4>6, <4>1, <1>g, <1>2, TokensInUse DEF Sole, Good, Fam
        <5>2. \A i \in Issued : Fam(i) = Fam(cred[u]) =>
                token'[i].family = Fam(i) /\ token'[i].state = token[i].state
          BY <2>7, <5>1 DEF Fam
        <5> QED
          BY <1>1, <2>r, <4>2, <4>3, <4>4, <4>6, <5>2, OthersSole
      <4> QED
        BY <4>5, <4>6
    <3>2. ASSUME NEW u \in Tab, renewal'[u] # None, Good(renewal[u].given)'
          PROVE  cred'[u] = renewal'[u].given
      <4>1. CASE u = t
        <5>1. Good(k)
          BY <3>0, <3>2, <4>1, <1>2, <2>r DEF Good, Fam
        <5> QED
          BY <5>1, <4>1, <1>1, <1>g, <2>r
      <4>2. CASE u # t
        <5>1. renewal'[u] = renewal[u] /\ renewal[u] # None
          BY <3>2, <4>2, <2>r
        <5>2. renewal[u].given \in Issued
          BY <5>1, TokensInUse
        <5>3. Good(renewal[u].given)
          BY <3>0, <3>2, <5>1, <5>2 DEF Good, Fam
        <5> QED
          BY <5>1, <5>3, <1>1 DEF SessionInv, Alone
      <4> QED
        BY <4>1, <4>2
    <3>3. ASSUME Good(stored)', \A u \in Tab : cred'[u] # 0 => Fam(cred[u])' # Fam(stored)'
          PROVE  token'[stored'].state = "live"
      <4>1. stored \in Issued
        BY <3>3, <1>1, TokensInUse DEF Good
      <4>2. Good(stored)
        BY <3>0, <3>3, <4>1, <1>1 DEF Good, Fam
      <4>3. \A u \in Tab : cred[u] # 0 => Fam(cred[u]) # Fam(stored)
        BY <3>3, <4>1, <1>1, <2>7, TokensInUse DEF Fam
      <4>4. stored # k
        BY <4>2, <4>3, <4>1, <1>g DEF Good
      <4> QED
        BY <4>1, <4>2, <4>3, <4>4, <1>1, <2>7 DEF SessionInv, Alone
    <3> QED
      BY <3>1, <3>2, <3>3, AloneFrom
  <2> QED
    BY <2>8, <2>9, <2>10, <2>11, <2>12 DEF SessionInv
<1>6. ASSUME token[k].state # "live", token' = token \/ token' = Revoked(k),
             renewal' = [renewal EXCEPT ![t].got = Refused], spoilt' = spoilt
      PROVE  SessionInv'
  <2>1. Fam(k) \in spoilt
    BY <1>1, <1>2, <1>6, <1>g, TokensInUse DEF Good, Sole
  <2>2. /\ token' \in [Token -> Signed \cup {None}]
        /\ Issued' = Issued
        /\ \A i \in Issued : /\ token'[i].family = token[i].family
                             /\ token'[i].fresh = token[i].fresh
                             /\ Fam(i) # Fam(k) => token'[i] = token[i]
    <3>1. CASE token' = token
      BY <3>1 DEF SessionInv, SessionType, Issued
    <3>2. CASE token' = Revoked(k)
      BY <3>2, <1>2, Revoking
    <3> QED
      BY <1>6, <3>1, <3>2
  <2> HIDE DEF k
  <2> QED
    BY <1>6, <2>1, <2>2, <1>4
<1>7. ASSUME token' = token, renewal' = [renewal EXCEPT ![t].got = Lost],
             spoilt' = spoilt \cup {token[k].family}
      PROVE  SessionInv'
  <2>1. token' \in [Token -> Signed \cup {None}] /\ Issued' = Issued
    BY <1>7 DEF SessionInv, SessionType, Issued
  <2>2. Fam(k) \in spoilt'
    BY <1>7 DEF Fam
  <2> HIDE DEF k
  <2> QED
    BY <1>7, <2>1, <2>2, <1>4
<1>8. ASSUME token' \in {token} \cup (IF token[k].state = "spent" THEN {Revoked(k)} ELSE {})
      PROVE  token' = token \/ token' = Revoked(k)
  BY <1>8
<1> QED
  BY <1>5, <1>6, <1>7, <1>8 DEF RenewalServed

\* A renewal that was accepted: the tab has the new token, and what waited is
\* sent again.
LEMMA RenewedSession ==
    ASSUME SessionInv, ScreenType, NEW t \in Tab, Renewed(t)
    PROVE  SessionInv'
<1> DEFINE n == renewal[t].got
           k == renewal[t].given
<1>1. /\ renewal[t] # None /\ n \in Token
      /\ cred' = [cred EXCEPT ![t] = n] /\ stored' = n
      /\ renewal' = [renewal EXCEPT ![t] = None]
      /\ job' = [x \in Tab \X Slot |-> IF x[1] = t /\ x[2] \in Awaiting(t)
                                       THEN [job[x] EXCEPT !.at = "again"] ELSE job[x]]
      /\ UNCHANGED <<token, last, user, mount, spoilt, scene>>
  BY DEF Renewed
<1>2. n \in Issued /\ k \in Issued /\ Fam(n) = Fam(k) /\ token[n].fresh /\ n # 0 /\ k # 0
  BY <1>1, TokensInUse DEF SessionInv, InHand
<1>3. Good(k) => cred[t] = k /\ Sole(t)
  BY <1>1 DEF SessionInv, Alone
<1>4. /\ cred'[t] = n /\ renewal'[t] = None
      /\ \A u \in Tab \ {t} : cred'[u] = cred[u] /\ renewal'[u] = renewal[u]
  BY <1>1 DEF SessionInv, SessionType
<1>5. n # None
  BY <1>1, NoneAssumption, MaxTokenAssumption DEF Token
<1>6. Issued' = Issued /\ \A i : Fam(i)' = Fam(i) /\ Good(i)' = Good(i)
  BY <1>1 DEF Issued, Good, Fam
<1> HIDE DEF n, k
<1>7. SessionType' /\ Numbered'
  BY <1>1, <1>6 DEF SessionInv, SessionType, Numbered
<1>8. InHand'
  BY <1>1, <1>2, <1>4, <1>6 DEF SessionInv, InHand, Fam
<1>9. Starting'
  <2>1. ASSUME NEW u \in Tab \ {t} PROVE Holds(u)' /\ \A s \in Slot : Runs(u, s)'
    <3>1. \A s \in Slot : job'[<<u, s>>] = job[<<u, s>>]
      BY <1>1
    <3> QED
      BY <1>1, <1>4, <3>1, OthersStart
  <2>2. user[t] # "closed"
    BY <1>1 DEF SessionInv, Starting, Holds
  <2>3. Holds(t)'
    BY <1>1, <1>2, <1>4, <2>2 DEF Holds
  <2>4. ASSUME NEW s \in Slot PROVE Runs(t, s)'
    <3> DEFINE j == job[<<t, s>>]
               again == [j EXCEPT !.at = "again"]
    <3>1. Runs(t, s)
      BY DEF SessionInv, Starting
    <3>2. CASE s \in Awaiting(t)
      <4>1. j # None /\ j \in Job
        BY <3>2 DEF Awaiting, ScreenType
      <4>2. job'[<<t, s>>] = again
        BY <1>1, <3>2
      <4>3. again \in Job /\ again.kind = j.kind /\ again.at = "again"
        BY <4>1, AtTyped DEF Moment
      <4> HIDE DEF again
      <4> QED
        BY <3>1, <4>1, <4>2, <4>3, <1>1, <1>2, <1>4, <2>2, RowsAssumption DEF Runs
    <3>3. CASE s \notin Awaiting(t)
      <4>1. job'[<<t, s>>] = j
        BY <1>1, <3>3
      <4> QED
        BY <3>1, <4>1, <1>1, <1>2, <1>4, <2>2 DEF Runs
    <3> QED
      BY <3>2, <3>3
  <2> QED
    BY <2>1, <2>3, <2>4 DEF Starting
<1>10. Alone'
  <2>1. ASSUME NEW u \in Tab, Good(cred[u])' PROVE Sole(u)'
    <3>1. CASE u = t
      <4>1. Good(k) /\ cred[t] = k /\ Sole(t)
        BY <2>1, <3>1, <1>1, <1>2, <1>3, <1>4 DEF Good, Fam
      <4>2. token[n].state = "live"
        BY <4>1, <1>1, <1>5 DEF Sole, n
      <4>3. \A v \in Tab \ {t} : cred'[v] # 0 => Fam(cred[v])' # Fam(cred[t])'
        BY <4>1, <1>1, <1>2, <1>4 DEF Sole, Fam
      <4> QED
        BY <3>1, <4>1, <4>2, <4>3, <1>1, <1>4 DEF Sole, In
    <3>2. CASE u # t
      <4>1. Good(cred[u]) /\ Sole(u) /\ cred'[u] = cred[u]
        BY <2>1, <3>2, <1>1, <1>4 DEF SessionInv, Alone, Good, Fam
      <4>2. Fam(n) # Fam(cred[u])
        BY <4>1, <3>2, <1>2, <1>3 DEF Sole, Good
      <4>3. \A v \in Tab \ {u} : cred'[v] # 0 => token'[cred'[v]].family # Fam(cred[u])
        BY <4>1, <4>2, <1>1, <1>4 DEF Sole, Fam
      <4>4. token'[stored'].family # Fam(cred[u])
        BY <4>2, <1>1 DEF Fam
      <4> QED
        BY <1>1, <1>4, <3>2, <4>1, <4>3, <4>4, OthersSole DEF Fam
    <3> QED
      BY <3>1, <3>2
  <2>2. \A u \in Tab : renewal'[u] # None /\ Good(renewal[u].given)' => cred'[u] = renewal'[u].given
    BY <1>1, <1>4 DEF SessionInv, Alone, Good, Fam
  <2>3. ~(\A u \in Tab : cred'[u] # 0 => Fam(cred[u])' # Fam(stored)')
    BY <1>1, <1>2, <1>4
  <2> QED
    BY <2>1, <2>2, <2>3, AloneFrom
<1> QED
  BY <1>7, <1>8, <1>9, <1>10 DEF SessionInv

\* The client gives the session up.
LEMMA ThrownSession ==
    ASSUME SessionInv, ScreenType, NEW t \in Tab, NEW dead, SentToLogin(t, dead),
           user[t] # "closed", user[t] = "loading" => "form" \in dead,
           renewal' \in {renewal, [renewal EXCEPT ![t] = None]},
           renewal'[t] # None => cred[t] = 0,
           UNCHANGED <<token, spoilt, scene>>
    PROVE  SessionInv'
<1>1. /\ cred' = [cred EXCEPT ![t] = 0] /\ stored' = 0 /\ last' = None
      /\ user' = [user EXCEPT ![t] = IF In(t) \/ user[t] = "loading" THEN "thrown" ELSE user[t]]
      /\ mount' = [mount EXCEPT ![t] = None]
      /\ job' = [x \in Tab \X Slot |-> IF x[1] = t /\ x[2] \in dead THEN None ELSE job[x]]
  BY DEF SentToLogin, Forgotten, Unmounted
<1>2. /\ cred'[t] = 0 /\ user'[t] \in {"out", "thrown"}
      /\ \A u \in Tab \ {t} : cred'[u] = cred[u] /\ user'[u] = user[u] /\ renewal'[u] = renewal[u]
      /\ renewal'[t] \in {renewal[t], None}
  BY <1>1 DEF SessionInv, SessionType, In
<1>3. Issued' = Issued /\ \A i : Fam(i)' = Fam(i) /\ Good(i)' = Good(i)
  BY DEF Issued, Good, Fam
<1>4. SessionType' /\ Numbered'
  BY <1>1, <1>3 DEF SessionInv, SessionType, Numbered
<1>5. InHand'
  <2>1. \A u \in Tab : renewal'[u] # None => renewal'[u] = renewal[u]
    BY <1>2
  <2> QED
    BY <1>1, <1>2, <1>3, <2>1 DEF SessionInv, InHand
<1>6. Starting'
  <2>1. ASSUME NEW u \in Tab \ {t} PROVE Holds(u)' /\ \A s \in Slot : Runs(u, s)'
    <3>1. \A s \in Slot : job'[<<u, s>>] = job[<<u, s>>]
      BY <1>1
    <3> QED
      BY <1>2, <3>1, OthersStart
  <2>2. Holds(t)'
    BY <1>2, FarmAssumption DEF Holds, In
  <2>3. ASSUME NEW s \in Slot PROVE Runs(t, s)'
    <3>1. Runs(t, s) /\ job'[<<t, s>>] = IF s \in dead THEN None ELSE job[<<t, s>>]
      BY <1>1 DEF SessionInv, Starting
    <3> QED
      BY <1>2, <3>1 DEF Runs
  <2> QED
    BY <2>1, <2>2, <2>3 DEF Starting
<1>7. Alone'
  <2>1. ASSUME NEW u \in Tab, Good(cred[u])' PROVE Sole(u)'
    <3>1. u # t
      BY <2>1, <1>2 DEF Good
    <3>2. Good(cred[u]) /\ Sole(u) /\ cred'[u] = cred[u]
      BY <2>1, <3>1, <1>2 DEF SessionInv, Alone, Good, Fam
    <3>3. \A v \in Tab \ {u} : cred'[v] # 0 => token'[cred'[v]].family # Fam(cred[u])
      BY <1>2, <3>2 DEF Sole, Fam
    <3> QED
      BY <1>1, <1>2, <3>1, <3>2, <3>3, OthersSole DEF Fam
  <2>2. ASSUME NEW u \in Tab, renewal'[u] # None, Good(renewal[u].given)'
        PROVE  cred'[u] = renewal'[u].given
    <3>1. renewal'[u] = renewal[u] /\ Good(renewal[u].given) /\ cred[u] = renewal[u].given
      BY <2>2, <1>2 DEF SessionInv, Alone, Good, Fam
    <3>2. cred'[u] = cred[u]
      BY <2>2, <1>2
    <3> QED
      BY <3>1, <3>2
  <2>3. ~Good(stored)'
    BY <1>1 DEF Good
  <2> QED
    BY <2>1, <2>2, <2>3, AloneFrom
<1> QED
  BY <1>4, <1>5, <1>6, <1>7 DEF SessionInv

LEMMA NotRenewedSession ==
    ASSUME SessionInv, ScreenType, NEW t \in Tab, NotRenewed(t)
    PROVE  SessionInv'
<1>1. /\ renewal[t] # None /\ renewal' = [renewal EXCEPT ![t] = None]
      /\ SentToLogin(t, Awaiting(t)) /\ UNCHANGED <<token, spoilt, scene>>
  BY DEF NotRenewed
<1>2. user[t] # "closed"
  BY <1>1 DEF SessionInv, Starting, Holds
<1>3. user[t] = "loading" => "form" \in Awaiting(t)
  BY <1>1 DEF SessionInv, Starting, Runs, Slot, Awaiting
<1>4. renewal'[t] = None
  BY <1>1 DEF SessionInv, SessionType
<1> QED
  BY <1>1, <1>2, <1>3, <1>4, ThrownSession

\* A request has its answer, or none.
LEMMA AnswerRuns ==
    ASSUME SessionInv, ScreenType, NEW t \in Tab, NEW s \in Slot, NEW k,
           job[<<t, s>>] # None, job[<<t, s>>].at \in {"ready", "again"},
           job' = [job EXCEPT ![<<t, s>>] = k], k \in Job, k.kind = job[<<t, s>>].kind,
           k.at \in {"ok", "refused", "later", "expired"},
           k.kind = "me" /\ k.at = "ok" => k.farm \in Farm,
           UNCHANGED <<token, stored, last, user, cred, mount, spoilt, scene>>,
           \/ renewal' = renewal
           \/ k.at = "expired" /\ renewal' = [renewal EXCEPT ![t] = Renewing(t)]
    PROVE  \A u \in Tab, v \in Slot : Runs(u, v)'
<1> SUFFICES ASSUME NEW u \in Tab, NEW v \in Slot PROVE Runs(u, v)'
  OBVIOUS
<1>1. Runs(u, v)
  BY DEF SessionInv, Starting
<1>2. CASE u = t /\ v = s
  <2>1. job'[<<u, v>>] = k /\ k # None
    BY <1>2, RowsAssumption DEF ScreenType
  <2>2. user[t] = "loading" => s = "form" /\ renewal[t] = None
    BY <1>1, <1>2 DEF Runs
  <2>3. renewal'[t] # None => renewal'[t] = renewal[t] \/ k.at = "expired"
    OBVIOUS
  <2> QED
    BY <1>1, <1>2, <2>1, <2>2, <2>3 DEF Runs
<1>3. CASE ~(u = t /\ v = s)
  <2>1. job'[<<u, v>>] = job[<<u, v>>]
    BY <1>3 DEF ScreenType
  <2>2. u # t => renewal'[u] = renewal[u]
    BY DEF SessionInv, SessionType
  <2>3. u = t /\ user[u] = "loading" => v # "form"
    BY <1>3 DEF SessionInv, Starting, Runs
  <2> QED
    BY <1>1, <2>1, <2>2, <2>3 DEF Runs
<1> QED
  BY <1>2, <1>3

LEMMA RequestSession ==
    ASSUME SessionInv, ScreenType, NEW t \in Tab, NEW s \in Slot, Answered(t, s) \/ Unanswered(t, s)
    PROVE  SessionInv'
<1>1. /\ job[<<t, s>>] # None /\ job[<<t, s>>] \in Job /\ job[<<t, s>>].at \in {"ready", "again"}
      /\ UNCHANGED <<token, spoilt, scene>>
  BY DEF Answered, Unanswered, ScreenType
<1>2. Runs(t, s) /\ Holds(t)
  BY DEF SessionInv, Starting
<1>3. ASSUME NEW k \in Job, job' = [job EXCEPT ![<<t, s>>] = k], k.kind = job[<<t, s>>].kind,
             k.at \in {"ok", "refused", "later"},
             k.kind = "me" /\ k.at = "ok" => k.farm \in Farm,
             UNCHANGED session
      PROVE  SessionInv'
  <2>1. \A u \in Tab, v \in Slot : Runs(u, v)'
    BY <1>1, <1>3, AnswerRuns DEF session
  <2> QED
    BY <1>3, <2>1, JobsSession
<1>4. CASE Unanswered(t, s)
  <2>1. PICK j \in Sending(job[<<t, s>>]) : job' = [job EXCEPT ![<<t, s>>] = [j EXCEPT !.at = "later"]]
    BY <1>4 DEF Unanswered
  <2> DEFINE k == [j EXCEPT !.at = "later"]
  <2>j. j \in Job /\ j.kind = job[<<t, s>>].kind
    BY <1>1, SendingTyped
  <2>2. k \in Job /\ k.kind = job[<<t, s>>].kind /\ k.at = "later"
    BY <2>j DEF Job
  <2>3. job' = [job EXCEPT ![<<t, s>>] = k] /\ UNCHANGED session
    BY <1>4, <2>1 DEF Unanswered, session
  <2> HIDE DEF k
  <2> QED
    BY <1>3, <2>2, <2>3
<1>5. CASE Answered(t, s)
  <2>0. PICK j \in Sending(job[<<t, s>>]) : \E answer \in Answers(j, cred[t]) :
          \/ /\ answer = "expired" /\ (cred[t] = 0 \/ j.at = "again")
             /\ SentToLogin(t, {s}) /\ renewal' = renewal
          \/ /\ cred[t] # 0
             /\ job' = [job EXCEPT ![<<t, s>>] = [j EXCEPT !.at = "expired"]]
             /\ renewal' = [renewal EXCEPT ![t] = Renewing(t)]
             /\ UNCHANGED <<stored, last, user, cred, mount>>
          \/ /\ answer # "expired"
             /\ job' = [job EXCEPT ![<<t, s>>] = [j EXCEPT !.at = answer,
                          !.farm = IF j.kind = "me" THEN token[cred[t]].farm ELSE @]]
             /\ UNCHANGED <<stored, last, user, cred, mount, renewal>>
    BY <1>5 DEF Answered
  <2>1. PICK answer \in Answers(j, cred[t]) :
          \/ /\ answer = "expired" /\ (cred[t] = 0 \/ j.at = "again")
             /\ SentToLogin(t, {s}) /\ renewal' = renewal
          \/ /\ cred[t] # 0
             /\ job' = [job EXCEPT ![<<t, s>>] = [j EXCEPT !.at = "expired"]]
             /\ renewal' = [renewal EXCEPT ![t] = Renewing(t)]
             /\ UNCHANGED <<stored, last, user, cred, mount>>
          \/ /\ answer # "expired"
             /\ job' = [job EXCEPT ![<<t, s>>] = [j EXCEPT !.at = answer,
                          !.farm = IF j.kind = "me" THEN token[cred[t]].farm ELSE @]]
             /\ UNCHANGED <<stored, last, user, cred, mount, renewal>>
    BY <2>0
  <2>2. j \in Job /\ j.kind = job[<<t, s>>].kind /\ j.at = job[<<t, s>>].at
    BY <1>1, SendingTyped
  <2>3. CASE /\ answer = "expired" /\ (cred[t] = 0 \/ j.at = "again")
             /\ SentToLogin(t, {s}) /\ renewal' = renewal
    <3>1. ~Fresh(cred[t])
      BY <2>3, AnswersTyped
    <3>2. cred[t] = 0
      BY <2>2, <2>3, <3>1, <1>1, <1>2 DEF Fresh, Runs
    <3>3. user[t] # "closed" /\ user[t] # "loading"
      BY <1>1, <1>2, <3>2 DEF Runs, Holds
    <3>4. renewal' \in {renewal, [renewal EXCEPT ![t] = None]} /\ SentToLogin(t, {s})
      BY <2>3
    <3>5. UNCHANGED <<token, spoilt, scene>>
      BY <1>1
    <3>6. /\ renewal'[t] # None => cred[t] = 0
          /\ user[t] = "loading" => "form" \in {s}
      BY <3>2, <3>3
    <3> QED
      BY <3>3, <3>4, <3>5, <3>6, ThrownSession
  <2>4. CASE /\ cred[t] # 0
             /\ job' = [job EXCEPT ![<<t, s>>] = [j EXCEPT !.at = "expired"]]
             /\ renewal' = [renewal EXCEPT ![t] = Renewing(t)]
             /\ UNCHANGED <<stored, last, user, cred, mount>>
    <3> DEFINE k == [j EXCEPT !.at = "expired"]
    <3>1. k \in Job /\ k.kind = job[<<t, s>>].kind /\ k.at = "expired"
      BY <2>2, AtTyped DEF Moment
    <3>2. job' = [job EXCEPT ![<<t, s>>] = k]
      BY <2>4
    <3> HIDE DEF k
    <3>3. \A u \in Tab, v \in Slot : Runs(u, v)'
      BY <1>1, <2>4, <3>1, <3>2, AnswerRuns
    <3>4. cred[t] \in Issued /\ cred[t] \in Token
      BY <2>4, TokensInUse
    <3> DEFINE r == [given |-> cred[t], got |-> None]
    <3>5. r \in Renewal /\ r.given = cred[t] /\ r.got = None /\ r # None /\ None \notin Token
      BY <3>4, RowsAssumption, NoneAssumption, MaxTokenAssumption DEF Renewal, Token
    <3>6. renewal' = [renewal EXCEPT ![t] = IF renewal[t] = None THEN r ELSE renewal[t]]
      BY <2>4 DEF Renewing
    <3> HIDE DEF r
    <3>7. renewal' \in [Tab -> Renewal \cup {None}]
          /\ \A u \in Tab : renewal'[u] = IF u = t /\ renewal[t] = None THEN r ELSE renewal[u]
      BY <3>5, <3>6 DEF SessionInv, SessionType
    <3>8. Issued' = Issued /\ \A i : Fam(i)' = Fam(i) /\ Good(i)' = Good(i)
      BY <1>1 DEF Issued, Good, Fam
    <3>9. SessionType' /\ Numbered'
      BY <1>1, <2>4, <3>7, <3>8 DEF SessionInv, SessionType, Numbered
    <3>10. InHand'
      BY <1>1, <2>4, <3>4, <3>5, <3>7, <3>8 DEF SessionInv, InHand
    <3>11. Starting'
      <4>1. user[t] # "closed"
        BY <1>1, <1>2 DEF Runs
      <4>2. \A u \in Tab : Holds(u)'
        BY <1>1, <2>4, <3>7, <4>1 DEF SessionInv, Starting, Holds, In
      <4> QED
        BY <3>3, <4>2 DEF Starting
    <3>12. Alone'
      <4>1. ASSUME NEW u \in Tab, Good(cred[u])' PROVE Sole(u)'
        <5>1. Good(cred[u]) /\ Sole(u)
          BY <4>1, <1>1, <2>4 DEF SessionInv, Alone, Good, Fam
        <5> QED
          BY <5>1, <1>1, <2>4, <3>5, <3>7 DEF Sole, Fam, In
      <4>2. \A u \in Tab : renewal'[u] # None /\ Good(renewal[u].given)' => cred'[u] = renewal'[u].given
        BY <1>1, <2>4, <3>5, <3>7 DEF SessionInv, Alone, Good, Fam
      <4>3. Good(stored)' /\ (\A u \in Tab : cred'[u] # 0 => Fam(cred[u])' # Fam(stored)') =>
                token'[stored'].state = "live"
        BY <1>1, <2>4 DEF SessionInv, Alone, Good, Fam
      <4> QED
        BY <4>1, <4>2, <4>3, AloneFrom
    <3> QED
      BY <3>9, <3>10, <3>11, <3>12 DEF SessionInv
  <2>5. CASE /\ answer # "expired"
             /\ job' = [job EXCEPT ![<<t, s>>] = [j EXCEPT !.at = answer,
                          !.farm = IF j.kind = "me" THEN token[cred[t]].farm ELSE @]]
             /\ UNCHANGED <<stored, last, user, cred, mount, renewal>>
    <3> DEFINE farm == IF j.kind = "me" THEN token[cred[t]].farm ELSE j.farm
               k == [j EXCEPT !.at = answer, !.farm = farm]
    <3>1. answer \in {"ok", "refused"} /\ Fresh(cred[t])
      BY <2>5, AnswersTyped
    <3>2. cred[t] \in Issued
      BY <3>1, TokensInUse DEF Fresh
    <3>3. token[cred[t]].farm \in Farm
      BY <3>2, TokensInUse DEF Signed
    <3>4. farm \in Farm \cup {None} /\ (j.kind = "me" => farm \in Farm)
      BY <2>2, <3>3 DEF Job
    <3>5. job' = [job EXCEPT ![<<t, s>>] = k]
      BY <2>5
    <3> HIDE DEF farm
    <3>6. k \in Job /\ k.kind = j.kind /\ k.at = answer /\ k.farm = farm
      BY <2>2, <3>1, <3>4 DEF Job
    <3> HIDE DEF k
    <3>7. UNCHANGED session
      BY <1>1, <2>5 DEF session
    <3> QED
      BY <2>2, <3>1, <3>4, <3>5, <3>6, <3>7, <1>3
  <2> QED
    BY <2>1, <2>3, <2>4, <2>5
<1> QED
  BY <1>4, <1>5

\* The application has asked who is signed in, and shows its screens or the
\* login.
LEMMA StartedSession ==
    ASSUME SessionInv, ScreenType, NEW t \in Tab, Started(t)
    PROVE  SessionInv'
<1> "form" \in Slot /\ <<t, "form">> \in Tab \X Slot
  BY DEF Slot
<1>1. /\ job[<<t, "form">>] # None /\ job[<<t, "form">>].kind = "me"
      /\ job[<<t, "form">>].at \in {"ok", "later"}
      /\ UNCHANGED <<token, renewal, spoilt, scene>>
  BY DEF Started
<1>2. Runs(t, "form") /\ Holds(t)
  BY DEF SessionInv, Starting
<1>3. user[t] = "loading" /\ cred[t] # 0 /\ renewal[t] = None
      /\ (job[<<t, "form">>].at = "ok" => job[<<t, "form">>].farm \in Farm)
  BY <1>1, <1>2 DEF Runs, Holds
<1>4. ASSUME NEW f \in Farm, Mounted(t, f, [job EXCEPT ![<<t, "form">>] = None]),
             last' \in Farm \cup {None}, UNCHANGED <<stored, cred>>
      PROVE  SessionInv'
  <2>1. PICK s \in Upload : /\ user' = [user EXCEPT ![t] = f]
                            /\ mount' = [mount EXCEPT ![t] = s]
                            /\ job' = [[job EXCEPT ![<<t, "form">>] = None] EXCEPT ![<<t, s>>] = Flush(queue, f)]
    BY <1>4 DEF Mounted
  <2> DEFINE k == Flush(queue, f)
  <2>2. k # None => k.kind = "flush" /\ k.at = "ready"
    BY FlushTyped
  <2>3. <<t, s>> \in Tab \X Slot /\ s # "form"
    BY DEF Slot, Upload
  <2>4. \A u \in Tab, v \in Slot :
            job'[<<u, v>>] = IF u = t /\ v = s THEN k
                             ELSE IF u = t /\ v = "form" THEN None ELSE job[<<u, v>>]
    BY <2>1, <2>3 DEF ScreenType, Slot
  <2> HIDE DEF k
  <2>5. user'[t] = f /\ \A u \in Tab \ {t} : user'[u] = user[u]
    BY <2>1 DEF SessionInv, SessionType
  <2>6. Issued' = Issued /\ \A i : Fam(i)' = Fam(i) /\ Good(i)' = Good(i)
    BY <1>1 DEF Issued, Good, Fam
  <2>7. SessionType' /\ Numbered' /\ InHand'
    <3>1. SessionType'
      BY <1>1, <1>4, <2>1 DEF SessionInv, SessionType
    <3>2. Numbered' /\ InHand'
      BY <1>1, <1>4, <2>6 DEF SessionInv, Numbered, InHand
    <3> QED
      BY <3>1, <3>2
  <2>8. Starting'
    <3>1. ASSUME NEW u \in Tab \ {t} PROVE Holds(u)' /\ \A v \in Slot : Runs(u, v)'
      BY <1>1, <1>4, <2>4, <2>5, OthersStart
    <3>2. Holds(t)'
      BY <1>3, <1>4, <2>5, FarmAssumption DEF Holds
    <3>3. ASSUME NEW v \in Slot PROVE Runs(t, v)'
      <4>1. user'[t] \notin {"closed", "loading"}
        BY <2>5, FarmAssumption
      <4>2. job'[<<t, v>>] # None => job'[<<t, v>>] = k \/ (job'[<<t, v>>] = job[<<t, v>>] /\ v # "form")
        BY <2>4
      <4>3. v # "form" => job[<<t, v>>] = None
        BY <1>3 DEF SessionInv, Starting, Runs
      <4>4. v = "form" => job'[<<t, v>>] = None
        BY <2>3, <2>4
      <4> QED
        BY <2>2, <4>1, <4>2, <4>3, <4>4 DEF Runs
    <3> QED
      BY <3>1, <3>2, <3>3 DEF Starting
  <2>9. Alone'
    <3>1. ASSUME NEW u \in Tab, Good(cred[u])' PROVE Sole(u)'
      <4>1. Good(cred[u]) /\ Sole(u)
        BY <3>1, <1>1, <1>4 DEF SessionInv, Alone, Good, Fam
      <4> QED
        BY <4>1, <1>1, <1>4, <2>5 DEF Sole, Fam, In
    <3>2. \A u \in Tab : renewal'[u] # None /\ Good(renewal[u].given)' => cred'[u] = renewal'[u].given
      BY <1>1, <1>4 DEF SessionInv, Alone, Good, Fam
    <3>3. Good(stored)' /\ (\A u \in Tab : cred'[u] # 0 => Fam(cred[u])' # Fam(stored)') =>
              token'[stored'].state = "live"
      BY <1>1, <1>4 DEF SessionInv, Alone, Good, Fam
    <3> QED
      BY <3>1, <3>2, <3>3, AloneFrom
  <2> QED
    BY <2>7, <2>8, <2>9 DEF SessionInv
<1>5. CASE /\ job[<<t, "form">>].at = "ok" /\ last' = job[<<t, "form">>].farm
           /\ Mounted(t, job[<<t, "form">>].farm, [job EXCEPT ![<<t, "form">>] = None])
           /\ UNCHANGED <<stored, cred>>
  BY <1>3, <1>4, <1>5
<1>6. CASE /\ last # None
           /\ Mounted(t, last, [job EXCEPT ![<<t, "form">>] = None])
           /\ UNCHANGED <<stored, last, cred>>
  <2>1. last \in Farm
    BY <1>6 DEF SessionInv, SessionType
  <2> QED
    BY <1>4, <1>6, <2>1
<1>7. CASE SentToLogin(t, {"form"})
  BY <1>1, <1>3, <1>7, ThrownSession
<1> QED
  BY <1>5, <1>6, <1>7 DEF Started

-----------------------------------------------------------------------------
HandsetHolds == HandsetInv /\ ScreenType /\ SessionInv

LEMMA HandsetHoldsStep == HandsetHolds /\ [Next]_vars => (ScreenType /\ SessionInv)'
<1> SUFFICES ASSUME HandsetInv, ScreenType, SessionInv, [Next]_vars PROVE ScreenType' /\ SessionInv'
  BY DEF HandsetHolds
<1>1. ASSUME NEW k \in Token, Expire(k) PROVE ScreenType' /\ SessionInv'
  BY <1>1, ExpireSession DEF Expire, ScreenType
<1>2. ASSUME NEW t \in Tab, CarriesOn(t) PROVE ScreenType' /\ SessionInv'
  <2>1. CASE RenewalServed(t) \/ Renewed(t) \/ NotRenewed(t)
    BY <2>1, SessionScreens, RenewalServedSession, RenewedSession, NotRenewedSession
  <2>2. CASE \E s \in Upload : FlushGoesOn(t, s) \/ FlushStops(t, s)
    BY <2>2, PersonScreens, PersonSession
  <2> QED
    BY <1>2, <2>1, <2>2 DEF CarriesOn
<1>3. ASSUME NEW t \in Tab, \E s \in Slot : Answered(t, s) \/ Unanswered(t, s)
      PROVE  ScreenType' /\ SessionInv'
  BY <1>3, RequestScreens, RequestSession
<1>4. ASSUME NEW t \in Tab, Open(t) \/ Close(t) \/ Logout(t) \/ Started(t) \/ (\E f \in Farm : Login(t, f))
      PROVE  ScreenType' /\ SessionInv'
  BY <1>4, SessionScreens, OpenSession, CloseSession, LogoutSession, StartedSession, LoginSession
<1>5. ASSUME NEW t \in Tab,
             \/ Look(t) \/ LookEnds(t) \/ StartFlush(t) \/ Tick(t) \/ SaveEnds(t) \/ UndoEnds(t)
             \/ \E w \in Weighing : Save(t, w) \/ Undo(t, w) \/ Drop(t, w)
      PROVE  ScreenType' /\ SessionInv'
  BY <1>5, PersonScreens, PersonSession
<1>6. CASE UNCHANGED vars
  <2>1. ScreenType'
    BY <1>6 DEF vars, ScreenType
  <2>2. SessionInv'
    BY <1>6, JobsSession DEF vars, session
  <2> QED
    BY <2>1, <2>2
<1> QED
  BY <1>1, <1>2, <1>3, <1>4, <1>5, <1>6 DEF Next

LEMMA HandsetHoldsAtFirst == Init => ScreenType /\ SessionInv
<1> SUFFICES ASSUME Init PROVE ScreenType /\ SessionInv
  OBVIOUS
<1> USE DEF Init
<1>1. ScreenType
  BY DEF ScreenType, Nothing, Kept
<1>2. SessionType
  BY DEF SessionType
<1>3. Issued = {} /\ Issued = 1..0
  BY DEF Issued
<1>4. Numbered /\ InHand
  BY <1>3 DEF Numbered, InHand
<1>5. Starting
  BY FarmAssumption DEF Starting, Holds, Runs, In
<1>6. Alone
  BY DEF Alone, Good
<1> QED
  BY <1>1, <1>2, <1>4, <1>5, <1>6 DEF SessionInv

LEMMA HandsetAlways == Spec => []HandsetHolds
<1>1. Init => HandsetInv
  BY DEF Init, Nothing, HandsetInv, Rows, Requests, NothingLost
<1>2. Init => HandsetHolds
  BY <1>1, HandsetHoldsAtFirst DEF HandsetHolds
<1>3. HandsetHolds /\ [Next]_vars => HandsetHolds'
  BY HandsetHoldsStep, HandsetStep DEF HandsetHolds
<1> QED
  BY <1>2, <1>3, PTL DEF Spec

\* Every variable of the phone and of the API's sessions holds values of its
\* kind, and the API never issues a token beyond those it may.
THEOREM HandsetTyped == Spec => []TypeOK
<1>1. HandsetHolds => TypeOK
  BY DEF HandsetHolds, SessionInv, TypeOK, ScreenType, SessionType
<1> QED
  BY <1>1, HandsetAlways, PTL

\* Only two steps send a person who is signed in to the login: a renewal that
\* was refused or lost, and a request refused with a token that is no longer
\* fresh.  The second is never taken with a session in hand, and the first
\* only in a session that had its cause (client.ts: renewSession, request,
\* endSession).
THEOREM NobodyThrownOut == Spec => ThrownOutForCause
<1>1. ASSUME HandsetHolds, [Next]_vars, NEW t \in Tab, In(t), user'[t] = "thrown"
      PROVE  cred[t] # 0 /\ token[cred[t]].family \in spoilt'
  <2> SUFFICES cred[t] # 0 /\ ~Good(cred[t]) /\ spoilt \subseteq spoilt'
    BY DEF Good, Fam
  <2>1. cred[t] # 0 /\ user[t] # "thrown" /\ user[t] # "loading"
    BY <1>1, FarmAssumption DEF HandsetHolds, SessionInv, Starting, Holds, In
  <2>2. user' # user
    BY <1>1, <2>1
  <2>3. \A u \in Tab : u # t => \A x : user' = [user EXCEPT ![u] = x] => user'[t] = user[t]
    BY DEF HandsetHolds, SessionInv, SessionType
  <2>4. \A x : user' = [user EXCEPT ![t] = x] => x = "thrown"
    BY <1>1 DEF HandsetHolds, SessionInv, SessionType
  <2>5. PICK u \in Tab :
          \/ Open(u) \/ Close(u) \/ Logout(u) \/ NotRenewed(u) \/ Started(u)
          \/ \E f \in Farm : Login(u, f)
          \/ \E s \in Slot : Answered(u, s)
    <3>1. \A k \in Token : ~Expire(k)
      BY <2>2 DEF Expire
    <3>2. \A u \in Tab : /\ ~RenewalServed(u) /\ ~Renewed(u) /\ ~Look(u) /\ ~LookEnds(u) /\ ~SaveEnds(u)
                         /\ ~UndoEnds(u) /\ ~StartFlush(u) /\ ~Tick(u)
      BY <2>2 DEF RenewalServed, Renewed, Look, LookEnds, SaveEnds, UndoEnds, StartFlush, Tick, session
    <3>3. \A u \in Tab, w \in Weighing : ~Save(u, w) /\ ~Undo(u, w) /\ ~Drop(u, w)
      BY <2>2 DEF Save, Undo, Drop, session
    <3>4. \A u \in Tab, s \in Slot : ~Unanswered(u, s) /\ ~FlushGoesOn(u, s) /\ ~FlushStops(u, s)
      BY <2>2 DEF Unanswered, FlushGoesOn, FlushStops, session
    <3>5. ~UNCHANGED vars
      BY <2>2 DEF vars
    <3> QED
      BY <1>1, <3>1, <3>2, <3>3, <3>4, <3>5 DEF Next, CarriesOn, Slot
  <2>6. u = t
    BY <1>1, <2>1, <2>3, <2>5 DEF Open, Close, Logout, NotRenewed, Started, Login, Answered, Mounted,
          SentToLogin, Unmounted
  <2>7. NotRenewed(t)
    <3>1. ~Open(t) /\ ~Close(t) /\ ~Logout(t)
      BY <2>4, <1>1, FarmAssumption DEF Open, Close, Logout, Unmounted, In
    <3>2. ~(\E f \in Farm : Login(t, f))
      BY <2>1, <1>1, FarmAssumption DEF Login, In
    <3>3. ~Started(t)
      <4>1. Runs(t, "form")
        BY <1>1 DEF HandsetHolds, SessionInv, Starting, Slot
      <4> QED
        BY <2>1, <4>1 DEF Started, Runs
    <3>4. ASSUME NEW s \in Slot, Answered(t, s) PROVE FALSE
      <4>0. PICK j \in Sending(job[<<t, s>>]) : \E answer \in Answers(j, cred[t]) :
              answer = "expired" /\ j.at = "again"
        BY <2>1, <2>2, <3>4 DEF Answered
      <4>1. ~Fresh(cred[t])
        BY <4>0, AnswersTyped
      <4>2. job[<<t, s>>] # None /\ job[<<t, s>>] \in Job
        <5>1. <<t, s>> \in Tab \X Slot /\ job \in [Tab \X Slot -> Job \cup {None}]
          BY <1>1 DEF HandsetHolds, ScreenType
        <5>2. job[<<t, s>>] # None
          BY <3>4 DEF Answered
        <5> QED
          BY <5>1, <5>2
      <4>4. Runs(t, s)
        BY <1>1 DEF HandsetHolds, SessionInv, Starting
      <4>3. job[<<t, s>>].at = "again"
        BY <4>0, <4>2, SendingTyped
      <4> QED
        BY <2>1, <4>1, <4>2, <4>3, <4>4 DEF Fresh, Runs
    <3> QED
      BY <2>5, <2>6, <3>1, <3>2, <3>3, <3>4
  <2>8. renewal[t] # None /\ renewal[t].got \in {Refused, Lost} /\ spoilt' = spoilt
    BY <2>7 DEF NotRenewed
  <2>9. ~Good(cred[t])
    BY <1>1, <2>8, AnswerAssumption, MaxTokenAssumption DEF HandsetHolds, SessionInv, Alone, Sole, Token
  <2> QED
    BY <2>1, <2>8, <2>9
<1>2. HandsetHolds /\ [Next]_vars =>
        [\A t \in Tab : In(t) /\ user'[t] = "thrown" => cred[t] # 0 /\ token[cred[t]].family \in spoilt']_vars
  BY <1>1
<1> QED
  BY <1>2, HandsetAlways, PTL DEF Spec, ThrownOutForCause

=============================================================================
