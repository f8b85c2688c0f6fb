-------------------------- MODULE RegistrationProofs --------------------------
(***************************************************************************)
(* Registrations make one account each and tell the endpoints the truth,   *)
(* for any number of accounts, requests, endpoints, workers and failures.  *)
(***************************************************************************)
EXTENDS Registration, Functions, TLAPS

USE RegistrationAssumption

\* Ids are numbers, and None is not one.
LEMMA NoneIsNoDelivery == None \notin Deliveries
BY RegistrationAssumption DEF Deliveries

\* Nothing is registered, written, queued or sent at the start.
LEMMA InitIInv == Init => IInv
BY DEF Init, IInv, TypeOK, RequestInv, RowInv, JobInv, OneJob, PostInv, CachedAnswersHold, OneAccount,
       Pending, Revoked, Pcs, TxPcs, WPcs, Deliveries

-----------------------------------------------------------------------------
(* What each kind of step leaves alone *)

\* Workers change neither the requests nor the rows they write.
LEMMA WorkerFrame ==
  ASSUME NEW w \in Workers, Work(w) \/ JobRaises(w)
  PROVE  UNCHANGED <<key, made, state, holder, pc, acc, todo, last, row, to, about, author>>
BY DEF Work, Take, Read, Post, Save, JobRaises, db, req, rows

\* Endpoints are created and revoked on their own, and only once.
LEMMA EndpointFrame ==
  ASSUME NEW e \in Endpoints, CreateEndpoint(e) \/ RevokeEndpoint(e)
  PROVE  /\ UNCHANGED <<key, made, holder, pc, acc, todo, last, row, to, about, author>>
         /\ UNCHANGED <<attempts, delivered, jobs, wpc, hand, runs, answer, faults, posts, late>>
         /\ \E v \in {"active", "revoked"} : state' = [state EXCEPT ![e] = v]
         /\ state[e] # "revoked"
BY DEF CreateEndpoint, RevokeEndpoint, req, rows, effect, worker, http

\* A key expires on its own.
LEMMA LapseFrame ==
  ASSUME NEW a \in Accounts, Lapse(a)
  PROVE  /\ key' \subseteq key
         /\ UNCHANGED <<made, state, holder, pc, acc, todo, last, row, to, about, author>>
         /\ UNCHANGED <<attempts, delivered, jobs, wpc, hand, runs, answer, faults, posts, late>>
BY DEF Lapse, db, req, rows, effect, worker, http

\* The steps of a request, and its failure.
RequestStep(r) == Step(r) \/ Fail(r) \/ \E a \in Accounts : Submit(r, a)

\* No step of a request disturbs what the workers do.
LEMMA RequestFrame ==
  ASSUME NEW r \in Requests, RequestStep(r)
  PROVE  UNCHANGED <<state, attempts, delivered, wpc, hand, runs, answer, posts, late>>
BY DEF RequestStep, Step, Submit, GetKey, Select, Insert, Dispatch, SetKey, Commit, Fail, db,
       effect, worker, http

\* A dispatch uses the next id, and so a row that nothing speaks of yet.
DispatchOf(r, d, e) ==
  /\ row[d] = "free" /\ last' \in 0..MaxDeliveries
  /\ \A x \in Deliveries : x > last' <=> x > last /\ x # d
  /\ to' = [to EXCEPT ![d] = e]
  /\ todo' = [todo EXCEPT ![r] = @ \ {e}]
  /\ row' = [row EXCEPT ![d] = "open"]
  /\ about' = [about EXCEPT ![d] = acc[r]]
  /\ author' = [author EXCEPT ![d] = r]
  /\ jobs' = jobs \cup {d}
  /\ pc[r] = "dispatch" /\ acc[r] \in Accounts /\ e \in Endpoints
  /\ UNCHANGED <<key, made, state, holder, pc, acc, attempts, delivered>>
  /\ UNCHANGED <<wpc, hand, runs, answer, faults, posts, late>>

\* Every dispatch is of that kind.
LEMMA DispatchEffect ==
  ASSUME IInv, NEW r \in Requests, Dispatch(r)
  PROVE  \E d \in Deliveries, e \in todo[r] : DispatchOf(r, d, e)
<1> DEFINE d == last + 1
<1>1. last \in 0..MaxDeliveries /\ MaxDeliveries \in Nat
  BY DEF IInv, TypeOK
<1>2. d \in Deliveries /\ last' = d
  BY <1>1 DEF Dispatch, Deliveries
<1>3. row[d] = "free"
  BY <1>1, <1>2 DEF IInv, RowInv, Deliveries
<1>4. \A x \in Deliveries : x > last' <=> x > last /\ x # d
  BY <1>1, <1>2 DEF Deliveries
<1>5. last' \in 0..MaxDeliveries
  BY <1>1, <1>2 DEF Deliveries
<1>6. pc[r] = "dispatch" /\ acc[r] \in Accounts /\ todo[r] \in SUBSET Endpoints
  BY DEF IInv, TypeOK, RequestInv, Dispatch, At
<1>7. PICK e \in todo[r] : /\ to' = [to EXCEPT ![last'] = e]
                           /\ todo' = [todo EXCEPT ![r] = @ \ {e}]
  BY DEF Dispatch
<1> HIDE DEF d
<1> QED
  BY <1>2, <1>3, <1>4, <1>5, <1>6, <1>7 DEF Dispatch, DispatchOf, db, effect, worker, http

-----------------------------------------------------------------------------
(* The shape of the variables *)

\* The steps of requests keep the types.
LEMMA RequestKeepsType ==
  ASSUME IInv, NEW r \in Requests, RequestStep(r)
  PROVE  TypeOK'
<1> USE DEF IInv, TypeOK, RequestInv, Pcs, TxPcs, db, rows, effect, req, worker, http, At, Goto,
            Finish, Idle
<1>1. ASSUME NEW a \in Accounts, Submit(r, a) PROVE TypeOK'
  BY <1>1 DEF Submit
<1>2. CASE GetKey(r)
  BY <1>2 DEF GetKey
<1>3. CASE Select(r)
  BY <1>3 DEF Select
<1>4. CASE Insert(r)
  <2>1. pc' \in [Requests -> Pcs] /\ acc' \in [Requests -> Accounts \cup {None}]
    BY <1>4 DEF Insert
  <2>2. holder' \in [Accounts -> Requests \cup {None}] /\ todo' \in [Requests -> SUBSET Endpoints]
    BY <1>4 DEF Insert, Active
  <2> QED
    BY <1>4, <2>1, <2>2 DEF Insert
<1>5. CASE Dispatch(r)
  <2>1. PICK d \in Deliveries, e \in todo[r] : DispatchOf(r, d, e)
    BY <1>5, DispatchEffect
  <2> QED
    BY <2>1 DEF DispatchOf
<1>6. CASE SetKey(r)
  BY <1>6 DEF SetKey
<1>7. CASE Commit(r)
  <2>1. made' \in [Accounts -> Nat]
    <3>1. acc[r] \in Accounts /\ made[acc[r]] + 1 \in Nat
      BY <1>7 DEF Commit
    <3> QED
      BY <1>7, <3>1 DEF Commit
  <2>2. row' \in [Deliveries -> {"free", "open", "saved", "lost"}]
    BY <1>7 DEF Commit, Settle
  <2> QED
    BY <1>7, <2>1, <2>2 DEF Commit, Settle, Release
<1>8. CASE Fail(r)
  BY <1>8 DEF Fail, Settle, Release
<1> QED
  BY <1>1, <1>2, <1>3, <1>4, <1>5, <1>6, <1>7, <1>8 DEF RequestStep, Step

\* The steps of workers keep the types.
LEMMA WorkerKeepsType ==
  ASSUME IInv, NEW w \in Workers, Work(w) \/ JobRaises(w)
  PROVE  TypeOK'
<1> USE DEF IInv, TypeOK, JobInv, WPcs, db, rows, effect, req, worker, http, WAt, WGoto, JobDone, Idle
<1>1. hand[w] \in Deliveries \/ wpc[w] = "idle"
  OBVIOUS
<1>2. ASSUME NEW d \in Deliveries, Take(w, d) PROVE TypeOK'
  BY <1>2 DEF Take
<1>3. CASE Read(w)
  BY <1>3 DEF Read
<1>4. CASE Post(w)
  BY <1>1, <1>4 DEF Post
<1>5. CASE Save(w)
  BY <1>1, <1>5 DEF Save
<1>6. CASE JobRaises(w)
  <2>1. CASE runs[w] + 1 < MaxRuns
    BY <1>6, <2>1 DEF JobRaises
  <2>2. CASE ~(runs[w] + 1 < MaxRuns)
    BY <1>6, <2>2 DEF JobRaises
  <2> QED
    BY <2>1, <2>2
<1> QED
  BY <1>2, <1>3, <1>4, <1>5, <1>6 DEF Work

-----------------------------------------------------------------------------
(* The requests *)

\* The open transaction of an account keeps others from inserting it.
LEMMA RequestKeepsRequests ==
  ASSUME IInv, NEW r \in Requests, RequestStep(r)
  PROVE  RequestInv' /\ OneAccount'
<1> USE DEF IInv, TypeOK, RequestInv, OneAccount, Pcs, TxPcs, db, rows, effect, req, worker, http,
            At, Goto, Finish, Idle
<1>1. ASSUME NEW a \in Accounts, Submit(r, a) PROVE RequestInv' /\ OneAccount'
  BY <1>1 DEF Submit
<1>2. CASE GetKey(r)
  BY <1>2 DEF GetKey
<1>3. CASE Select(r)
  BY <1>3 DEF Select
<1>4. CASE Insert(r)
  BY <1>4 DEF Insert
<1>5. CASE Dispatch(r)
  BY <1>5 DEF Dispatch
<1>6. CASE SetKey(r)
  BY <1>6 DEF SetKey
<1>7. CASE Commit(r)
  BY <1>7 DEF Commit, Settle, Release
<1>8. CASE Fail(r)
  BY <1>8 DEF Fail, Settle, Release
<1> QED
  BY <1>1, <1>2, <1>3, <1>4, <1>5, <1>6, <1>7, <1>8 DEF RequestStep, Step

\* The key is set by a request that is about to commit; a request that leaves
\* "commit" has committed or failed.
LEMMA RequestKeepsAnswers ==
  ASSUME IInv, NEW r \in Requests, RequestStep(r)
  PROVE  CachedAnswersHold'
<1> USE DEF IInv, TypeOK, RequestInv, CachedAnswersHold, Pcs, TxPcs, db, rows, effect, req, worker,
            http, At, Goto, Finish, Idle
<1>1. ASSUME NEW a \in Accounts, Submit(r, a) PROVE CachedAnswersHold'
  BY <1>1 DEF Submit
<1>2. CASE GetKey(r)
  BY <1>2 DEF GetKey
<1>3. CASE Select(r)
  BY <1>3 DEF Select
<1>4. CASE Insert(r)
  BY <1>4 DEF Insert
<1>5. CASE Dispatch(r)
  BY <1>5 DEF Dispatch
<1>6. CASE SetKey(r)
  BY <1>6 DEF SetKey
<1>7. CASE Commit(r)
  BY <1>7 DEF Commit, Settle, Release
<1>8. CASE Fail(r)
  BY <1>8 DEF Fail
<1> QED
  BY <1>1, <1>2, <1>3, <1>4, <1>5, <1>6, <1>7, <1>8 DEF RequestStep, Step

\* An open row is its author's; it is saved by the commit that makes its account.
LEMMA RequestKeepsRows ==
  ASSUME IInv, NEW r \in Requests, RequestStep(r)
  PROVE  RowInv'
<1> USE DEF IInv, TypeOK, RequestInv, RowInv, Pcs, TxPcs, db, rows, effect, req, worker, http,
            At, Goto, Finish, Idle
<1>1. ASSUME NEW a \in Accounts, Submit(r, a) PROVE RowInv'
  BY <1>1 DEF Submit
<1>2. CASE GetKey(r)
  BY <1>2 DEF GetKey
<1>3. CASE Select(r)
  BY <1>3 DEF Select
<1>4. CASE Insert(r)
  BY <1>4 DEF Insert
<1>5. CASE Dispatch(r)
  <2>1. PICK d \in Deliveries, e \in todo[r] : DispatchOf(r, d, e)
    BY <1>5, DispatchEffect
  <2> QED
    BY <2>1 DEF DispatchOf
<1>6. CASE SetKey(r)
  BY <1>6 DEF SetKey
<1>7. CASE Commit(r)
  BY <1>7 DEF Commit, Settle, Open
<1>8. CASE Fail(r)
  BY <1>8 DEF Fail, Settle, Open
<1> QED
  BY <1>1, <1>2, <1>3, <1>4, <1>5, <1>6, <1>7, <1>8 DEF RequestStep, Step

\* A new row has a new id, so its job is the first one for it, and nothing was
\* sent for it.
LEMMA DispatchKeepsJobs ==
  ASSUME IInv, NEW r \in Requests, NEW d \in Deliveries, NEW e \in todo[r], DispatchOf(r, d, e)
  PROVE  JobInv' /\ PostInv'
<1> USE DEF DispatchOf
<1>1. /\ d \notin jobs /\ d \notin delivered /\ attempts[d] = 0 /\ late[d] = 0 /\ posts[d] = 0
      /\ \A w \in Workers : hand[w] # d
  BY DEF IInv, TypeOK, RowInv, JobInv, Pending
<1>2. \A x \in Deliveries : x # d => to'[x] = to[x] /\ row'[x] = row[x]
  BY DEF IInv, TypeOK
<1>3. row'[d] = "open" /\ attempts' = attempts /\ 0 < MaxAttempts
  BY RegistrationAssumption DEF IInv, TypeOK
<1>4. \A w \in Workers : /\ wpc'[w] # "idle" <=> hand'[w] # None
                         /\ wpc'[w] \in {"post", "save"} => row'[hand'[w]] = "saved"
                         /\ wpc'[w] = "post" => late'[hand'[w]] = 0
  BY <1>1, <1>2 DEF IInv, TypeOK, JobInv
<1>5. OneJob'
  BY <1>1 DEF IInv, JobInv, OneJob
<1>6. \A x \in Deliveries :
        Pending(x)' => row'[x] # "free" /\ x \notin delivered' /\ attempts'[x] < MaxAttempts
  BY <1>1, <1>2, <1>3 DEF IInv, JobInv, Pending
<1>7. JobInv'
  BY <1>4, <1>5, <1>6 DEF JobInv
<1>8. \A x \in Deliveries : late[x] > 0 => Revoked(x)'
  BY <1>1, <1>2 DEF IInv, PostInv, Revoked
<1>9. PostInv'
  BY <1>8 DEF IInv, PostInv
<1> QED
  BY <1>7, <1>9

\* Every other step of a request leaves the queue alone, and keeps what is saved.
LEMMA RequestKeepsJobs ==
  ASSUME IInv, NEW r \in Requests, RequestStep(r)
  PROVE  JobInv' /\ PostInv'
<1>1. CASE Dispatch(r)
  BY <1>1, DispatchEffect, DispatchKeepsJobs
<1>2. CASE ~Dispatch(r)
  <2>1. UNCHANGED <<state, attempts, delivered, wpc, hand, runs, answer, posts, late>>
    BY RequestFrame
  <2>2. UNCHANGED <<to, jobs>>
    BY <1>2 DEF RequestStep, Step, Submit, GetKey, Select, Insert, SetKey, Commit, Fail, Settle, rows
  <2>3. \A d \in Deliveries : /\ row[d] # "free" => row'[d] # "free"
                              /\ row[d] = "saved" => row'[d] = "saved"
    BY <1>2 DEF RequestStep, Step, Submit, GetKey, Select, Insert, SetKey, Commit, Fail, Settle, rows,
                Open
  <2>4. faults' \in Nat /\ faults' >= faults
    BY <1>2 DEF RequestStep, Step, Submit, GetKey, Select, Insert, SetKey, Commit, Fail, IInv, TypeOK
  <2>5. JobInv'
    BY <2>1, <2>2, <2>3 DEF IInv, TypeOK, JobInv, OneJob, Pending, WPcs
  <2>6. PostInv'
    BY <2>1, <2>2, <2>4 DEF IInv, TypeOK, PostInv, Revoked
  <2> QED
    BY <2>5, <2>6
<1> QED
  BY <1>1, <1>2

-----------------------------------------------------------------------------
(* The workers *)

\* A worker has a job exactly when it is not idle, and the row of that job is
\* not free.
LEMMA HandIsTaken ==
  ASSUME IInv, NEW w \in Workers, wpc[w] # "idle"
  PROVE  /\ hand[w] \in Deliveries /\ hand[w] \notin jobs /\ row[hand[w]] # "free"
         /\ hand[w] \notin delivered /\ attempts[hand[w]] < MaxAttempts
         /\ \A x \in Workers : hand[x] = hand[w] => x = w
BY DEF IInv, TypeOK, JobInv, OneJob, Pending

\* Requests and their rows are as they were; only a posted row is seen anew.
LEMMA WorkerKeepsRows ==
  ASSUME IInv, NEW w \in Workers, Work(w) \/ JobRaises(w)
  PROVE  RequestInv' /\ OneAccount' /\ CachedAnswersHold' /\ RowInv'
<1>1. UNCHANGED <<key, made, state, holder, pc, acc, todo, last, row, to, about, author>>
  BY WorkerFrame
<1>2. RequestInv' /\ OneAccount'
  BY <1>1 DEF IInv, RequestInv, OneAccount
<1>3. faults' >= faults /\ faults \in Nat /\ faults' \in Nat
  BY DEF IInv, TypeOK, Work, Take, Read, Post, Save, JobRaises
<1>4. CachedAnswersHold'
  BY <1>1, <1>3 DEF IInv, CachedAnswersHold
<1>5. \A d \in Deliveries : row[d] = "free" =>
        /\ posts'[d] = posts[d] /\ late'[d] = late[d] /\ attempts'[d] = attempts[d]
        /\ d \in delivered' => d \in delivered
  <2>1. CASE wpc[w] = "idle"
    BY <2>1 DEF Work, Take, Read, Post, Save, JobRaises, WAt, effect, http
  <2>2. CASE wpc[w] # "idle"
    BY <2>2, HandIsTaken DEF IInv, TypeOK, Work, Take, Read, Post, Save, JobRaises, WAt, effect, http
  <2> QED
    BY <2>1, <2>2
<1>6. \A d \in Deliveries : posts'[d] > 0 => row[d] = "saved"
  <2>1. CASE Post(w)
    <3>1. hand[w] \in Deliveries /\ row[hand[w]] = "saved"
      BY <2>1, HandIsTaken DEF IInv, JobInv, Post, WAt
    <3> QED
      BY <2>1, <3>1 DEF IInv, TypeOK, RowInv, Post
  <2>2. CASE ~Post(w)
    BY <2>2 DEF IInv, RowInv, Work, Take, Read, Save, JobRaises, http
  <2> QED
    BY <2>1, <2>2
<1>7. RowInv'
  BY <1>1, <1>5, <1>6 DEF IInv, RowInv
<1> QED
  BY <1>2, <1>4, <1>7

\* A worker lets go of its job, which may go back to the queue.
LEMMA JobDoneKeepsJobs ==
  ASSUME IInv, NEW w \in Workers, wpc[w] # "idle", JobDone(w), UNCHANGED <<row, late>>,
         jobs' \subseteq jobs \cup {hand[w]},
         hand[w] \in jobs' => hand[w] \notin delivered' /\ attempts'[hand[w]] < MaxAttempts,
         \A d \in Deliveries : d # hand[w] =>
           attempts'[d] = attempts[d] /\ (d \in delivered' => d \in delivered)
  PROVE  JobInv'
<1>1. /\ hand'[w] = None /\ wpc'[w] = "idle" /\ None \notin Deliveries
      /\ \A x \in Workers : x # w => hand'[x] = hand[x] /\ wpc'[x] = wpc[x] /\ hand[x] # hand[w]
  <2>1. None \notin Deliveries
    BY NoneIsNoDelivery
  <2>2. \A x \in Workers : x # w => hand[x] # hand[w]
    BY HandIsTaken
  <2>3. /\ wpc' = [wpc EXCEPT ![w] = "idle"] /\ hand' = [hand EXCEPT ![w] = None]
        /\ hand \in [Workers -> Deliveries \cup {None}] /\ wpc \in [Workers -> WPcs]
    BY DEF IInv, TypeOK, JobDone, Idle
  <2> QED
    BY <2>1, <2>2, <2>3
<1>2. \A x \in Workers : /\ wpc'[x] # "idle" <=> hand'[x] # None
                         /\ wpc'[x] \in {"post", "save"} => row'[hand'[x]] = "saved"
                         /\ wpc'[x] = "post" => late'[hand'[x]] = 0
  BY <1>1 DEF IInv, JobInv
<1>3. OneJob'
  BY <1>1, HandIsTaken DEF IInv, JobInv, OneJob
<1>4. \A d \in Deliveries :
        Pending(d)' => row'[d] # "free" /\ d \notin delivered' /\ attempts'[d] < MaxAttempts
  BY <1>1, HandIsTaken DEF IInv, JobInv, Pending
<1> QED
  BY <1>2, <1>3, <1>4 DEF JobInv

\* A job is taken out of the queue by one worker, and put back, if at all, by
\* the step that lets go of it.
LEMMA WorkerKeepsJobs ==
  ASSUME IInv, NEW w \in Workers, Work(w) \/ JobRaises(w)
  PROVE  JobInv'
<1>1. ASSUME NEW d \in Deliveries, Take(w, d) PROVE JobInv'
  BY <1>1, NoneIsNoDelivery DEF Take, IInv, TypeOK, JobInv, OneJob, Pending, WPcs, WAt, rows, effect, http
<1>2. CASE Read(w)
  <2>1. /\ wpc[w] = "read" /\ UNCHANGED <<row, to, attempts, delivered, jobs, late, state>>
        /\ \/ JobDone(w)
           \/ /\ row[hand[w]] = "saved" /\ state[to[hand[w]]] = "active"
              /\ wpc' = [wpc EXCEPT ![w] = "post"] /\ hand' = hand
    BY <1>2 DEF Read, WAt, WGoto, rows, effect, http, db
  <2>2. CASE JobDone(w)
    BY <2>1, <2>2, HandIsTaken, JobDoneKeepsJobs
  <2>3. CASE ~JobDone(w)
    <3>1. late[hand[w]] = 0
      BY <2>1, <2>3, HandIsTaken DEF IInv, TypeOK, PostInv, Revoked
    <3> QED
      BY <2>1, <2>3, <3>1, HandIsTaken DEF IInv, TypeOK, JobInv, OneJob, Pending
  <2> QED
    BY <2>2, <2>3
<1>3. CASE Post(w)
  BY <1>3, HandIsTaken DEF Post, IInv, TypeOK, JobInv, OneJob, Pending, WPcs, WAt, rows, effect
<1>4. CASE Save(w)
  <2>1. /\ wpc[w] = "save" /\ JobDone(w) /\ UNCHANGED <<row, late>>
        /\ jobs' = jobs \cup {d \in {hand[w]} : answer[w] # "ok" /\ attempts'[d] < MaxAttempts}
        /\ delivered' = delivered \cup {d \in {hand[w]} : answer[w] = "ok"}
        /\ attempts' = [attempts EXCEPT ![hand[w]] = @ + 1]
    BY <1>4 DEF Save, WAt, rows, http
  <2>2. hand[w] \in Deliveries /\ hand[w] \notin jobs /\ hand[w] \notin delivered
    BY <2>1, HandIsTaken
  <2>3. hand[w] \in jobs' => hand[w] \notin delivered' /\ attempts'[hand[w]] < MaxAttempts
    BY <2>1, <2>2
  <2>4. \A d \in Deliveries : d # hand[w] =>
          attempts'[d] = attempts[d] /\ (d \in delivered' => d \in delivered)
    BY <2>1 DEF IInv, TypeOK
  <2> QED
    BY <2>1, <2>3, <2>4, JobDoneKeepsJobs
<1>5. CASE JobRaises(w)
  <2>1. /\ wpc[w] # "idle" /\ UNCHANGED <<row, attempts, delivered, jobs, late>>
        /\ JobDone(w) \/ (wpc' = [wpc EXCEPT ![w] = "read"] /\ hand' = hand)
    BY <1>5 DEF JobRaises, rows, effect, http
  <2>2. CASE JobDone(w)
    BY <2>1, <2>2, HandIsTaken, JobDoneKeepsJobs
  <2>3. CASE ~JobDone(w)
    BY <2>1, <2>3 DEF IInv, TypeOK, JobInv, OneJob, Pending
  <2> QED
    BY <2>2, <2>3
<1> QED
  BY <1>1, <1>2, <1>3, <1>4, <1>5 DEF Work

\* A request to an endpoint is counted by the save that follows it, or else by
\* the failure that prevents the save.
LEMMA WorkerKeepsPosts ==
  ASSUME IInv, NEW w \in Workers, Work(w) \/ JobRaises(w)
  PROVE  PostInv'
<1> DEFINE Counted(d) == \/ posts[d] <= attempts[d] + faults
                         \/ /\ posts[d] <= attempts[d] + faults + 1
                            /\ \E x \in Workers : wpc[x] = "save" /\ hand[x] = d
<1> DEFINE PostOf(d) == /\ attempts[d] <= MaxAttempts
                        /\ late[d] <= 1 /\ (late[d] > 0 => Revoked(d)) /\ Counted(d)
<1>1. SUFFICES ASSUME NEW d \in Deliveries PROVE PostOf(d)'
  BY DEF PostInv
<1>2. /\ attempts[d] \in Nat /\ posts[d] \in Nat /\ late[d] \in Nat /\ faults \in Nat
      /\ MaxAttempts \in Nat
  BY DEF IInv, TypeOK
<1>3. PostOf(d)
  BY DEF IInv, PostInv
<1>4. UNCHANGED <<to, state>> /\ Revoked(d)' = Revoked(d)
  BY WorkerFrame DEF Revoked
<1>5. ASSUME hand[w] # d PROVE PostOf(d)'
  <2>1. attempts'[d] = attempts[d] /\ posts'[d] = posts[d] /\ late'[d] = late[d]
    BY <1>5 DEF IInv, TypeOK, Work, Take, Read, Post, Save, JobRaises, effect, http
  <2>2. faults' \in Nat /\ faults' >= faults
    BY DEF IInv, TypeOK, Work, Take, Read, Post, Save, JobRaises
  <2>3. \A x \in Workers : wpc[x] = "save" /\ hand[x] = d => wpc'[x] = "save" /\ hand'[x] = d
    <3>1. \A x \in Workers : x # w => wpc'[x] = wpc[x] /\ hand'[x] = hand[x]
      BY DEF IInv, TypeOK, Work, Take, Read, Post, Save, JobRaises, WGoto, JobDone, Idle
    <3> QED
      BY <1>5, <3>1
  <2> QED
    BY <1>2, <1>3, <1>4, <2>1, <2>2, <2>3
<1>6. ASSUME hand[w] = d PROVE PostOf(d)'
  <2>1. /\ wpc[w] # "idle" /\ attempts[d] < MaxAttempts
        /\ \A x \in Workers : hand[x] = d => x = w
    BY <1>6, HandIsTaken, RegistrationAssumption DEF IInv, JobInv, Deliveries
  <2>2. ASSUME NEW x \in Deliveries, Take(w, x) PROVE FALSE
    BY <2>1, <2>2 DEF Take, WAt
  <2>3. CASE Read(w)
    BY <1>2, <1>3, <1>4, <2>1, <2>3 DEF Read, WAt, effect, http
  <2>4. CASE Post(w)
    <3>1. wpc[w] = "post" /\ late[d] = 0
      BY <1>6, <2>4 DEF Post, WAt, IInv, JobInv
    <3>2. wpc'[w] = "save" /\ hand' = hand /\ posts'[d] = posts[d] + 1
      BY <1>6, <2>4 DEF Post, IInv, TypeOK
    <3>3. late'[d] <= 1 /\ (late'[d] > 0 => Revoked(d))
      BY <1>2, <1>6, <2>4, <3>1 DEF Post, IInv, TypeOK
    <3>4. attempts' = attempts /\ faults' = faults
      BY <2>4 DEF Post, effect
    <3> QED
      BY <1>2, <1>3, <1>4, <1>6, <2>1, <3>1, <3>2, <3>3, <3>4
  <2>5. CASE Save(w)
    <3>1. attempts'[d] = attempts[d] + 1
      BY <1>6, <2>5 DEF Save, IInv, TypeOK
    <3> QED
      BY <1>2, <1>3, <1>4, <2>1, <2>5, <3>1 DEF Save, http
  <2>6. CASE JobRaises(w)
    BY <1>2, <1>3, <1>4, <2>6 DEF JobRaises, effect, http
  <2> QED
    BY <2>2, <2>3, <2>4, <2>5, <2>6 DEF Work
<1> QED
  BY <1>5, <1>6

-----------------------------------------------------------------------------
(* Endpoints, keys and restarts *)

\* An endpoint that is revoked stays so.
LEMMA EndpointKeepsIInv ==
  ASSUME IInv, NEW e \in Endpoints, CreateEndpoint(e) \/ RevokeEndpoint(e)
  PROVE  IInv'
<1>1. PICK v \in {"active", "revoked"} : state' = [state EXCEPT ![e] = v]
  BY EndpointFrame
<1>2. /\ UNCHANGED <<key, made, holder, pc, acc, todo, last, row, to, about, author>>
      /\ UNCHANGED <<attempts, delivered, jobs, wpc, hand, runs, answer, faults, posts, late>>
      /\ state[e] # "revoked"
  BY EndpointFrame
<1>3. TypeOK'
  BY <1>1, <1>2 DEF IInv, TypeOK
<1>4. \A d \in Deliveries : Revoked(d) => Revoked(d)'
  BY <1>1, <1>2 DEF IInv, TypeOK, Revoked
<1>5. PostInv'
  BY <1>2, <1>4 DEF IInv, PostInv
<1>6. RequestInv' /\ RowInv' /\ CachedAnswersHold' /\ OneAccount'
  BY <1>2 DEF IInv, RequestInv, RowInv, CachedAnswersHold, OneAccount
<1>7. JobInv'
  BY <1>2 DEF IInv, JobInv, OneJob, Pending
<1> QED
  BY <1>3, <1>5, <1>6, <1>7 DEF IInv

\* A key that lapses leaves fewer answers to hold.
LEMMA LapseKeepsIInv ==
  ASSUME IInv, NEW a \in Accounts, Lapse(a)
  PROVE  IInv'
<1>1. /\ key' \subseteq key
      /\ UNCHANGED <<made, state, holder, pc, acc, todo, last, row, to, about, author>>
      /\ UNCHANGED <<attempts, delivered, jobs, wpc, hand, runs, answer, faults, posts, late>>
  BY LapseFrame
<1>2. TypeOK'
  BY <1>1 DEF IInv, TypeOK
<1>3. RequestInv' /\ RowInv' /\ CachedAnswersHold' /\ OneAccount'
  BY <1>1 DEF IInv, RequestInv, RowInv, CachedAnswersHold, OneAccount
<1>4. JobInv' /\ PostInv'
  BY <1>1 DEF IInv, JobInv, OneJob, PostInv, Pending, Revoked
<1> QED
  BY <1>2, <1>3, <1>4 DEF IInv

\* After a restart no request, no job and no worker is left to speak of, and
\* the failure accounts for a post that was not saved.
LEMMA RestartKeepsIInv ==
  ASSUME IInv, Restart
  PROVE  IInv'
<1>1. faults \in Nat /\ faults' = faults + 1
  BY DEF IInv, TypeOK, Restart
<1>2. TypeOK'
  BY <1>1 DEF IInv, TypeOK, Restart, db, effect, http, Pcs, WPcs
<1>3. RequestInv' /\ OneAccount'
  BY DEF IInv, RequestInv, OneAccount, Restart, db, TxPcs
<1>4. RowInv'
  BY DEF IInv, TypeOK, RowInv, Restart, db, effect, http
<1>5. JobInv'
  <2>1. None \notin Deliveries
    BY NoneIsNoDelivery
  <2> QED
    BY <2>1 DEF JobInv, OneJob, Pending, Restart
<1>6. CachedAnswersHold'
  BY <1>1 DEF CachedAnswersHold
<1>7. PostInv'
  <2>1. UNCHANGED <<to, state, attempts, late, posts>>
    BY DEF Restart, db, effect, http
  <2>2. \A d \in Deliveries : attempts[d] \in Nat /\ posts[d] \in Nat
    BY DEF IInv, TypeOK
  <2>3. \A d \in Deliveries : posts'[d] <= attempts'[d] + faults'
    BY <1>1, <2>1, <2>2 DEF IInv, PostInv
  <2> QED
    BY <2>1, <2>3 DEF IInv, PostInv, Revoked
<1> QED
  BY <1>2, <1>3, <1>4, <1>5, <1>6, <1>7 DEF IInv

\* A step that changes no variable keeps the invariant.
LEMMA StutterKeepsIInv == IInv /\ UNCHANGED vars => IInv'
BY DEF vars, db, req, rows, effect, worker, http, IInv, TypeOK, RequestInv, RowInv, JobInv, OneJob, PostInv,
       CachedAnswersHold, OneAccount, Pending, Revoked

\* The invariant is inductive.
LEMMA NextIInv == IInv /\ [Next]_vars => IInv'
<1> SUFFICES ASSUME IInv, [Next]_vars PROVE IInv'
  OBVIOUS
<1>1. ASSUME NEW r \in Requests, RequestStep(r) PROVE IInv'
  BY <1>1, RequestKeepsType, RequestKeepsRequests, RequestKeepsRows, RequestKeepsJobs,
     RequestKeepsAnswers DEF IInv
<1>2. ASSUME NEW w \in Workers, Work(w) \/ JobRaises(w) PROVE IInv'
  BY <1>2, WorkerKeepsType, WorkerKeepsRows, WorkerKeepsJobs, WorkerKeepsPosts DEF IInv
<1>3. ASSUME NEW e \in Endpoints, CreateEndpoint(e) \/ RevokeEndpoint(e) PROVE IInv'
  BY <1>3, EndpointKeepsIInv
<1>4. ASSUME NEW a \in Accounts, Lapse(a) PROVE IInv'
  BY <1>4, LapseKeepsIInv
<1>5. CASE Restart
  BY <1>5, RestartKeepsIInv
<1>6. CASE UNCHANGED vars
  BY <1>6, StutterKeepsIInv
<1> QED
  BY <1>1, <1>2, <1>3, <1>4, <1>5, <1>6 DEF Next, RequestStep

-----------------------------------------------------------------------------
(* The theorems *)

\* The inductive invariant holds in every reachable state.
THEOREM Invariance == Spec => []IInv
BY InitIInv, NextIInv, PTL DEF Spec

\* The tables, the queue, the requests and the workers keep their shape.
THEOREM TypeCorrect == Spec => []TypeOK
<1>1. IInv => TypeOK
  BY DEF IInv
<1> QED
  BY <1>1, Invariance, PTL

\* Racing registrations of an address make one account.
THEOREM AccountsAreSingle == Spec => []OneAccount
<1>1. IInv => OneAccount
  BY DEF IInv
<1> QED
  BY <1>1, Invariance, PTL

\* A cached answer is never about an account that will not exist, unless
\* something failed after it was cached.
THEOREM AnswersHold == Spec => []CachedAnswersHold
<1>1. IInv => CachedAnswersHold
  BY DEF IInv
<1> QED
  BY <1>1, Invariance, PTL

\* Endpoints hear of existing accounts only.
THEOREM EventsAreTrue == Spec => []NoGhostEvents
<1>1. IInv => NoGhostEvents
  BY DEF IInv, RowInv, NoGhostEvents
<1> QED
  BY <1>1, Invariance, PTL

\* Attempts never exceed the limit, nor the requests by more than the failures.
THEOREM AttemptsAreBounded == Spec => []AttemptsBounded
<1>1. ASSUME IInv, NEW d \in Deliveries
      PROVE  attempts[d] <= MaxAttempts /\ posts[d] <= MaxAttempts + faults
  <2>1. attempts[d] \in Nat /\ posts[d] \in Nat /\ faults \in Nat /\ MaxAttempts \in Nat
    BY <1>1 DEF IInv, TypeOK
  <2>2. ASSUME NEW w \in Workers, wpc[w] = "save", hand[w] = d PROVE attempts[d] < MaxAttempts
    BY <1>1, <2>2, HandIsTaken
  <2> QED
    BY <1>1, <2>1, <2>2 DEF IInv, PostInv
<1>2. IInv => AttemptsBounded
  BY <1>1 DEF AttemptsBounded
<1> QED
  BY <1>2, Invariance, PTL

\* No two attempts at a delivery overlap.
THEOREM JobsAreSingle == Spec => []OneJob
<1>1. IInv => OneJob
  BY DEF IInv, JobInv
<1> QED
  BY <1>1, Invariance, PTL

\* A revoked endpoint hears at most the one request already under way, for each
\* delivery.
THEOREM RevokedIsQuiet == Spec => []QuietAfterRevoke
<1>1. IInv => QuietAfterRevoke
  BY DEF IInv, PostInv, QuietAfterRevoke
<1> QED
  BY <1>1, Invariance, PTL

\* A delivered event is not posted again: its job is gone, and no worker holds it.
THEOREM DeliveredStaysQuiet == Spec => DeliveredIsFinal
<1>1. ASSUME IInv, [Next]_vars, NEW d \in delivered PROVE posts'[d] = posts[d]
  <2>1. ASSUME NEW w \in Workers, Post(w) PROVE posts'[d] = posts[d]
    <3>1. hand[w] # d /\ d \in Deliveries
      BY <1>1, <2>1, HandIsTaken DEF Post, WAt, IInv, TypeOK
    <3> QED
      BY <1>1, <2>1, <3>1 DEF Post, IInv, TypeOK
  <2>2. CASE \A w \in Workers : ~Post(w)
    BY <1>1, <2>2, RequestFrame, EndpointFrame, LapseFrame
    DEF Next, RequestStep, Work, Take, Read, Save, JobRaises, Restart, http, vars
  <2> QED
    BY <2>1, <2>2
<1>2. IInv /\ [Next]_vars => [\A d \in delivered : posts'[d] = posts[d]]_vars
  BY <1>1
<1> QED
  BY <1>2, Invariance, PTL DEF Spec, DeliveredIsFinal

-----------------------------------------------------------------------------
(* Registration implements DeliveryContract *)

\* A row that is not lost is the only one of its account and endpoint: a request
\* writes one for each endpoint it has still to write one for.  An endpoint that
\* is written for has been created.
Due(d) == row[d] \in {"open", "saved"}
OneEach ==
  /\ \A d, x \in Deliveries : (Due(d) /\ Due(x) /\ about[d] = about[x] /\ to[d] = to[x]) => d = x
  /\ \A d \in Deliveries : row[d] = "open" => to[d] \notin todo[author[d]]
  /\ \A r \in Requests : \A e \in todo[r] : state[e] # "none"
  /\ \A d \in Deliveries : row[d] # "free" => state[to[d]] # "none"

\* Nothing is written at the start.
LEMMA OneEachStart == Init => OneEach
BY DEF Init, OneEach, Due

\* A dispatch writes for an endpoint that its request has not written for, and
\* no other request writes for the account.
LEMMA DispatchKeepsOne ==
  ASSUME IInv, OneEach, NEW r \in Requests, NEW d \in Deliveries, NEW e \in todo[r], DispatchOf(r, d, e)
  PROVE  OneEach'
<1>0. /\ row \in [Deliveries -> {"free", "open", "saved", "lost"}] /\ to \in [Deliveries -> Endpoints \cup {None}]
      /\ about \in [Deliveries -> Accounts \cup {None}] /\ author \in [Deliveries -> Requests \cup {None}]
      /\ todo \in [Requests -> SUBSET Endpoints] /\ acc[r] \in Accounts
  BY DEF IInv, TypeOK, DispatchOf
<1>1. /\ row' = [row EXCEPT ![d] = "open"] /\ to' = [to EXCEPT ![d] = e]
      /\ about' = [about EXCEPT ![d] = acc[r]] /\ author' = [author EXCEPT ![d] = r]
      /\ todo' = [todo EXCEPT ![r] = @ \ {e}] /\ state' = state /\ row[d] = "free" /\ pc[r] = "dispatch"
  BY DEF DispatchOf
<1>2. ASSUME NEW x \in Deliveries, Due(x), about[x] = acc[r] PROVE to[x] # e
  <2>1. holder[acc[r]] = r /\ made[acc[r]] = 0
    BY <1>1 DEF IInv, RequestInv, TxPcs
  <2>2. row[x] # "saved"
    BY <1>2, <2>1, <1>0 DEF IInv, RowInv
  <2>3. row[x] = "open" /\ author[x] \in Requests /\ pc[author[x]] \in TxPcs /\ about[x] = acc[author[x]]
    BY <1>2, <2>2 DEF Due, IInv, RowInv
  <2>4. holder[acc[author[x]]] = author[x]
    BY <2>3 DEF IInv, RequestInv
  <2>5. author[x] = r
    BY <2>1, <2>3, <2>4, <1>2
  <2> QED
    BY <2>3, <2>5 DEF OneEach
<1>3. \A x \in Deliveries : Due(x)' <=> (x = d \/ Due(x))
  BY <1>0, <1>1 DEF Due
<1>4. \A x, y \in Deliveries : (Due(x)' /\ Due(y)' /\ about'[x] = about'[y] /\ to'[x] = to'[y]) => x = y
  <2> SUFFICES ASSUME NEW x \in Deliveries, NEW y \in Deliveries, Due(x)', Due(y)',
                      about'[x] = about'[y], to'[x] = to'[y], x # y
               PROVE  FALSE
    OBVIOUS
  <2>1. CASE x # d /\ y # d
    BY <2>1, <1>0, <1>1, <1>3 DEF OneEach
  <2>2. CASE x = d
    BY <2>2, <1>0, <1>1, <1>2, <1>3
  <2>3. CASE y = d
    BY <2>3, <1>0, <1>1, <1>2, <1>3
  <2> QED
    BY <2>1, <2>2, <2>3
<1>5. \A x \in Deliveries : row'[x] = "open" => to'[x] \notin todo'[author'[x]]
  <2> SUFFICES ASSUME NEW x \in Deliveries, row'[x] = "open" PROVE to'[x] \notin todo'[author'[x]]
    OBVIOUS
  <2>1. CASE x = d
    BY <2>1, <1>0, <1>1
  <2>2. CASE x # d
    <3>1. author[x] \in Requests /\ to[x] \notin todo[author[x]] /\ author'[x] = author[x] /\ to'[x] = to[x]
      BY <2>2, <1>0, <1>1 DEF IInv, RowInv, OneEach
    <3> QED
      BY <3>1, <1>0, <1>1
  <2> QED
    BY <2>1, <2>2
<1>6. \A q \in Requests : \A f \in todo'[q] : state'[f] # "none"
  BY <1>0, <1>1 DEF OneEach
<1>7. \A x \in Deliveries : row'[x] # "free" => state'[to'[x]] # "none"
  BY <1>0, <1>1 DEF OneEach
<1> QED
  BY <1>4, <1>5, <1>6, <1>7 DEF OneEach

\* The other steps of requests begin or end a transaction with nothing to write.
LEMMA RequestKeepsOne ==
  ASSUME IInv, OneEach, NEW r \in Requests, RequestStep(r)
  PROVE  OneEach'
<1>0. /\ row \in [Deliveries -> {"free", "open", "saved", "lost"}]
      /\ todo \in [Requests -> SUBSET Endpoints] /\ state' = state
  BY RequestFrame DEF IInv, TypeOK
<1>1. CASE Dispatch(r)
  BY <1>1, DispatchEffect, DispatchKeepsOne
<1>2. CASE Insert(r)
  <2>1. \A d \in Deliveries : row[d] = "open" => author[d] \in Requests /\ author[d] # r
    BY <1>2 DEF Insert, At, IInv, RowInv, TxPcs
  <2>2. UNCHANGED <<row, to, about, author>>
    BY <1>2 DEF Insert, rows
  <2>3. /\ \A q \in Requests \ {r} : todo'[q] = todo[q]
        /\ todo'[r] \in {{}, Active}
    BY <1>0, <1>2 DEF Insert, Finish
  <2>4. \A e \in todo'[r] : state[e] # "none"
    BY <2>3 DEF Active
  <2>5. \A d, x \in Deliveries : (Due(d)' /\ Due(x)' /\ about'[d] = about'[x] /\ to'[d] = to'[x]) => d = x
    BY <2>2 DEF OneEach, Due
  <2>6. \A d \in Deliveries : row'[d] = "open" => to'[d] \notin todo'[author'[d]]
    BY <2>1, <2>2, <2>3 DEF OneEach
  <2>7. \A q \in Requests : \A e \in todo'[q] : state'[e] # "none"
    BY <1>0, <2>3, <2>4 DEF OneEach
  <2> QED
    BY <1>0, <2>2, <2>5, <2>6, <2>7 DEF OneEach
<1>3. CASE ~Dispatch(r) /\ ~Insert(r)
  <2>1. UNCHANGED <<to, about, author>>
    BY <1>3 DEF RequestStep, Step, Submit, GetKey, Select, SetKey, Commit, Fail, Settle, rows
  <2>2. \A q \in Requests : todo'[q] \subseteq todo[q]
    BY <1>0, <1>3 DEF RequestStep, Step, Submit, GetKey, Select, SetKey, Commit, Fail, Goto, Finish
  <2>3. \A d \in Deliveries : /\ row'[d] # row[d] => row[d] = "open" /\ row'[d] \in {"saved", "lost"}
    <3>1. row' = row \/ \E fate \in {"saved", "lost"} : row' = [d \in Deliveries |-> IF d \in Open(r) THEN fate ELSE row[d]]
      BY <1>3 DEF RequestStep, Step, Submit, GetKey, Select, SetKey, Commit, Fail, Settle, rows
    <3> QED
      BY <3>1, <1>0 DEF Open
  <2>4. \A d \in Deliveries : Due(d)' => Due(d)
    BY <2>3 DEF Due
  <2>5. \A d, x \in Deliveries : (Due(d)' /\ Due(x)' /\ about'[d] = about'[x] /\ to'[d] = to'[x]) => d = x
    BY <2>1, <2>4 DEF OneEach
  <2>6. \A d \in Deliveries : row'[d] = "open" => to'[d] \notin todo'[author'[d]]
    <3> SUFFICES ASSUME NEW d \in Deliveries, row'[d] = "open" PROVE to'[d] \notin todo'[author'[d]]
      OBVIOUS
    <3>1. row[d] = "open" /\ author[d] \in Requests
      BY <2>3 DEF IInv, RowInv
    <3> QED
      BY <3>1, <2>1, <2>2 DEF OneEach
  <2>7. \A q \in Requests : \A e \in todo'[q] : state'[e] # "none"
    BY <1>0, <2>2 DEF OneEach
  <2>8. \A d \in Deliveries : row'[d] # "free" => state'[to'[d]] # "none"
    BY <1>0, <2>1, <2>3 DEF OneEach
  <2> QED
    BY <2>5, <2>6, <2>7, <2>8 DEF OneEach
<1> QED
  BY <1>1, <1>2, <1>3

\* No step writes twice for an endpoint.
LEMMA NextOneEach == IInv /\ OneEach /\ [Next]_vars => OneEach'
<1> SUFFICES ASSUME IInv, OneEach, [Next]_vars PROVE OneEach'
  OBVIOUS
<1>1. ASSUME NEW w \in Workers, Work(w) \/ JobRaises(w) PROVE OneEach'
  BY <1>1, WorkerFrame DEF OneEach, Due
<1>2. ASSUME NEW e \in Endpoints, CreateEndpoint(e) \/ RevokeEndpoint(e) PROVE OneEach'
  <2>1. \A f \in Endpoints : state[f] # "none" => state'[f] # "none"
    BY <1>2, EndpointFrame DEF IInv, TypeOK
  <2>2. UNCHANGED <<todo, row, to, about, author>>
    BY <1>2, EndpointFrame
  <2>3. /\ \A r \in Requests : todo[r] \in SUBSET Endpoints
        /\ \A d \in Deliveries : row[d] # "free" => to[d] \in Endpoints
    BY DEF IInv, TypeOK, RowInv
  <2> QED
    BY <2>1, <2>2, <2>3 DEF OneEach, Due
<1>3. ASSUME NEW a \in Accounts, Lapse(a) PROVE OneEach'
  BY <1>3, LapseFrame DEF OneEach, Due
<1>4. CASE Restart
  <2>1. /\ row' = [d \in Deliveries |-> IF row[d] = "open" THEN "lost" ELSE row[d]]
        /\ todo' = [r \in Requests |-> {}] /\ UNCHANGED <<to, about, author, state>>
    BY <1>4 DEF Restart, db
  <2> QED
    BY <2>1 DEF OneEach, Due
<1>5. CASE UNCHANGED vars
  BY <1>5 DEF vars, db, req, rows, OneEach, Due
<1> QED
  BY <1>1, <1>2, <1>3, <1>4, <1>5, RequestKeepsOne DEF Next, RequestStep

-----------------------------------------------------------------------------
\* Nothing has happened of what the contract sees.
LEMMA InitContract == Init => Contract!Init
<1> SUFFICES ASSUME Init PROVE Contract!Init
  OBVIOUS
<1>1. Known = {}
  BY DEF Init, Known
<1>2. Event = [d \in Deliveries |-> {}]
  BY DEF Init, Event
<1>3. Phase = [d \in Deliveries |-> "rest"]
  BY DEF Init, Phase
<1> QED
  BY <1>1, <1>2, <1>3 DEF Init, Contract!Init

\* What the contract sees of a worker's await.
Seen(p) == IF p = "post" THEN "checked" ELSE IF p = "save" THEN "posted" ELSE "rest"

\* The phase of a delivery is that of the worker that has it.
LEMMA PhaseOfHand ==
  ASSUME IInv, NEW w \in Workers, hand[w] # None
  PROVE  hand[w] \in Deliveries /\ Phase[hand[w]] = Seen(wpc[w])
<1>1. hand[w] \in Deliveries
  BY DEF IInv, TypeOK
<1>2. \A x \in Workers : hand[x] = hand[w] => x = w
  BY DEF IInv, JobInv, OneJob
<1> QED
  BY <1>1, <1>2 DEF Phase, Seen

\* A worker that moves on with its delivery, or is done with it, changes its
\* phase and no other.
LEMMA PhaseMoves ==
  ASSUME IInv, NEW w \in Workers, wpc[w] # "idle", NEW p \in WPcs, wpc' = [wpc EXCEPT ![w] = p],
         IF p = "idle" THEN hand' = [hand EXCEPT ![w] = None] ELSE hand' = hand
  PROVE  Phase' = [Phase EXCEPT ![hand[w]] = Seen(p)]
<1> DEFINE d == hand[w]
<1>1. /\ wpc \in [Workers -> WPcs] /\ hand \in [Workers -> Deliveries \cup {None}]
      /\ d \in Deliveries /\ d # None
  BY HandIsTaken, NoneIsNoDelivery DEF IInv, TypeOK
<1>2. \A x \in Workers \ {w} : hand[x] # d /\ hand'[x] = hand[x] /\ wpc'[x] = wpc[x]
  BY <1>1 DEF IInv, JobInv, OneJob
<1>3. wpc'[w] = p /\ (p # "idle" => hand'[w] = d) /\ (p = "idle" => hand'[w] = None)
  BY <1>1
<1>4. ASSUME NEW x \in Deliveries, x # d PROVE Phase'[x] = Phase[x]
  BY <1>1, <1>2, <1>3, <1>4, NoneIsNoDelivery DEF Phase
<1>5. Phase'[d] = Seen(p)
  BY <1>1, <1>2, <1>3, NoneIsNoDelivery DEF Phase, Seen
<1>6. Phase = [x \in Deliveries |-> Phase[x]] /\ Phase' = [x \in Deliveries |-> Phase'[x]]
  BY DEF Phase
<1> HIDE DEF d
<1> QED
  BY <1>1, <1>4, <1>5, <1>6 DEF d

\* What the contract sees of the tables depends on these.
LEMMA TablesSeen ==
  ASSUME IInv, made' = made, \A d \in Deliveries : row'[d] = "saved" <=> row[d] = "saved",
         \A d \in Deliveries : row[d] = "saved" => about'[d] = about[d] /\ to'[d] = to[d]
  PROVE  Known' = Known /\ Event' = Event
BY DEF Known, Event

\* And of the workers on these.
LEMMA WorkersSeen == ASSUME UNCHANGED <<wpc, hand>> PROVE Phase' = Phase
BY DEF Phase

\* All of what the contract sees.
seen == <<Known, state, Event, Phase, attempts, delivered, posts>>

\* A commit makes an account with its deliveries; no other step of a request is seen.
LEMMA RequestContract ==
  ASSUME IInv, OneEach, NEW r \in Requests, RequestStep(r)
  PROVE  [Contract!Next]_seen
<1>0. UNCHANGED <<state, attempts, delivered, posts, Phase>>
  BY RequestFrame, WorkersSeen
<1>1. CASE Commit(r)
  <2> DEFINE a == acc[r]
             D == Open(r)
             f == [d \in D |-> to[d]]
  <2>1. pc[r] = "commit" /\ made' = [made EXCEPT ![a] = @ + 1] /\ UNCHANGED <<to, about>>
        /\ row' = [d \in Deliveries |-> IF d \in D THEN "saved" ELSE row[d]]
    BY <1>1 DEF Commit, Settle, At
  <2>2. a \in Accounts /\ made[a] = 0 /\ made \in [Accounts -> Nat]
    BY <2>1 DEF IInv, TypeOK, RequestInv, TxPcs
  <2>3. a \notin Known /\ Known' = Known \cup {a}
    BY <2>1, <2>2 DEF Known
  <2>4. \A d \in D : /\ d \in Deliveries /\ row[d] = "open" /\ about[d] = a
                     /\ to[d] \in Endpoints /\ state[to[d]] # "none"
    BY DEF Open, IInv, RowInv, OneEach
  <2>5. D \in SUBSET {d \in Deliveries : Event[d] = {}}
    BY <2>4 DEF Event
  <2>6. f \in [D -> {e \in Endpoints : state[e] # "none"}] /\ IsInjective(f)
    BY <2>4 DEF OneEach, Due, IsInjective
  <2>7. Event' = [d \in Deliveries |-> IF d \in D THEN {<<a, f[d]>>} ELSE Event[d]]
    BY <2>1, <2>4 DEF Event
  <2> HIDE DEF a, D, f
  <2>8. Contract!Register(a)
    BY <1>0, <2>3, <2>5, <2>6, <2>7 DEF Contract!Register, Contract!IsInjective, IsInjective
  <2> QED
    BY <2>2, <2>8 DEF Contract!Next
<1>2. CASE ~Commit(r)
  <2>1. made' = made
    BY <1>2 DEF RequestStep, Step, Submit, GetKey, Select, Insert, Dispatch, SetKey, Fail, db
  <2>2. CASE Dispatch(r)
    <3>1. PICK d \in Deliveries, e \in todo[r] : DispatchOf(r, d, e)
      BY <2>2, DispatchEffect
    <3>2. /\ row' = [row EXCEPT ![d] = "open"] /\ to' = [to EXCEPT ![d] = e]
          /\ about' = [about EXCEPT ![d] = acc[r]] /\ row[d] = "free"
      BY <3>1 DEF DispatchOf
    <3>3. /\ \A x \in Deliveries : row'[x] = "saved" <=> row[x] = "saved"
          /\ \A x \in Deliveries : row[x] = "saved" => about'[x] = about[x] /\ to'[x] = to[x]
      BY <3>2 DEF IInv, TypeOK
    <3> QED
      BY <1>0, <2>1, <3>3, TablesSeen DEF seen
  <2>3. CASE ~Dispatch(r)
    <3>1. UNCHANGED <<to, about>> /\ \A d \in Deliveries : row'[d] = "saved" <=> row[d] = "saved"
      <4>1. UNCHANGED <<to, about>> /\ (row' = row \/ Settle(r, "lost"))
        BY <1>2, <2>3 DEF RequestStep, Step, Submit, GetKey, Select, Insert, SetKey, Fail, Settle, rows
      <4> QED
        BY <4>1 DEF Settle, Open
    <3> QED
      BY <1>0, <2>1, <3>1, TablesSeen DEF seen
  <2> QED
    BY <2>2, <2>3
<1> QED
  BY <1>1, <1>2

\* A worker's look at the row begins an attempt, its request and its commit are the
\* contract's, and a job that raises after its request loses the attempt.
LEMMA WorkerContract ==
  ASSUME IInv, NEW w \in Workers, Work(w) \/ JobRaises(w)
  PROVE  [Contract!Next]_seen
<1>0. UNCHANGED <<made, state, row, to, about>>
  BY WorkerFrame
<1>1. Known' = Known /\ Event' = Event
  BY <1>0, TablesSeen
<1>2. /\ wpc \in [Workers -> WPcs] /\ hand \in [Workers -> Deliveries \cup {None}]
      /\ wpc[w] # "idle" <=> hand[w] # None
  BY DEF IInv, TypeOK, JobInv
<1>3. ASSUME NEW d \in Deliveries, Take(w, d) PROVE Phase' = Phase /\ UNCHANGED <<attempts, delivered, posts>>
  <2>1. /\ wpc' = [wpc EXCEPT ![w] = "read"] /\ hand' = [hand EXCEPT ![w] = d] /\ wpc[w] = "idle"
        /\ UNCHANGED <<attempts, delivered, posts>> /\ hand[w] = None
    BY <1>2, <1>3 DEF Take, WAt, effect, http
  <2>2. \A x \in Deliveries, q \in Workers, p \in {"post", "save"} :
          hand'[q] = x /\ wpc'[q] = p <=> hand[q] = x /\ wpc[q] = p
    BY <1>2, <2>1
  <2>3. \A x \in Deliveries, p \in {"post", "save"} :
          (\E q \in Workers : hand'[q] = x /\ wpc'[q] = p) <=> (\E q \in Workers : hand[q] = x /\ wpc[q] = p)
    BY <2>2
  <2> QED
    BY <2>1, <2>3 DEF Phase
<1>4. ASSUME wpc[w] # "idle"
      PROVE  /\ hand[w] \in Deliveries /\ Phase[hand[w]] = Seen(wpc[w])
             /\ hand[w] \notin delivered /\ attempts[hand[w]] < MaxAttempts
             /\ Phase \in [Deliveries -> {"rest", "checked", "posted"}]
  BY <1>2, <1>4, PhaseOfHand, HandIsTaken DEF Phase
<1>5. CASE Read(w)
  <2>1. wpc[w] = "read" /\ UNCHANGED <<attempts, delivered, posts>>
    BY <1>5 DEF Read, WAt, effect, http
  <2>2. CASE row[hand[w]] = "saved" /\ state[to[hand[w]]] = "active"
    <3>1. wpc' = [wpc EXCEPT ![w] = "post"] /\ hand' = hand
      BY <1>5, <2>2 DEF Read, WGoto
    <3>2. Phase' = [Phase EXCEPT ![hand[w]] = "checked"]
      BY <2>1, <3>1, PhaseMoves DEF WPcs, Seen
    <3>3. \E x \in Event[hand[w]] : state[x[2]] = "active"
      BY <1>4, <2>1, <2>2 DEF Event
    <3>4. Contract!Begin(hand[w])
      BY <1>0, <1>1, <1>4, <2>1, <3>2, <3>3 DEF Contract!Begin, Seen
    <3> QED
      BY <1>4, <2>1, <3>4 DEF Contract!Next
  <2>3. CASE ~(row[hand[w]] = "saved" /\ state[to[hand[w]]] = "active")
    <3>1. wpc' = [wpc EXCEPT ![w] = "idle"] /\ hand' = [hand EXCEPT ![w] = None]
      BY <1>5, <2>3 DEF Read, JobDone, Idle
    <3>2. Phase' = [Phase EXCEPT ![hand[w]] = "rest"]
      BY <2>1, <3>1, PhaseMoves DEF WPcs, Seen
    <3>3. Phase' = Phase
      BY <1>4, <2>1, <3>2 DEF Seen
    <3> QED
      BY <1>0, <1>1, <2>1, <3>3 DEF seen
  <2> QED
    BY <2>2, <2>3
<1>6. CASE Post(w)
  <2>1. /\ wpc[w] = "post" /\ wpc' = [wpc EXCEPT ![w] = "save"] /\ hand' = hand
        /\ posts' = [posts EXCEPT ![hand[w]] = @ + 1] /\ UNCHANGED <<attempts, delivered>>
    BY <1>6 DEF Post, WAt, effect
  <2>2. Phase' = [Phase EXCEPT ![hand[w]] = "posted"]
    BY <2>1, PhaseMoves DEF WPcs, Seen
  <2>3. Contract!Post(hand[w])
    BY <1>0, <1>1, <1>4, <2>1, <2>2 DEF Contract!Post, Seen
  <2> QED
    BY <1>4, <2>1, <2>3 DEF Contract!Next
<1>7. CASE Save(w)
  <2>1. /\ wpc[w] = "save" /\ wpc' = [wpc EXCEPT ![w] = "idle"] /\ hand' = [hand EXCEPT ![w] = None]
        /\ attempts' = [attempts EXCEPT ![hand[w]] = @ + 1] /\ UNCHANGED posts
        /\ delivered' \in {delivered, delivered \cup {hand[w]}}
    BY <1>7 DEF Save, JobDone, Idle, WAt, http
  <2>2. Phase' = [Phase EXCEPT ![hand[w]] = "rest"]
    BY <2>1, PhaseMoves DEF WPcs, Seen
  <2>3. Contract!Count(hand[w])
    BY <1>0, <1>1, <1>4, <2>1, <2>2 DEF Contract!Count, Seen
  <2> QED
    BY <1>4, <2>1, <2>3 DEF Contract!Next
<1>8. CASE JobRaises(w)
  <2>1. /\ wpc[w] \in {"read", "save"} /\ UNCHANGED <<attempts, delivered, posts>>
        /\ \/ wpc' = [wpc EXCEPT ![w] = "read"] /\ hand' = hand
           \/ wpc' = [wpc EXCEPT ![w] = "idle"] /\ hand' = [hand EXCEPT ![w] = None]
    BY <1>8 DEF JobRaises, JobDone, Idle, effect, http
  <2>2. Phase' = [Phase EXCEPT ![hand[w]] = "rest"]
    <3>1. CASE wpc' = [wpc EXCEPT ![w] = "read"] /\ hand' = hand
      BY <2>1, <3>1, PhaseMoves DEF WPcs, Seen
    <3>2. CASE wpc' = [wpc EXCEPT ![w] = "idle"] /\ hand' = [hand EXCEPT ![w] = None]
      BY <2>1, <3>2, PhaseMoves DEF WPcs, Seen
    <3> QED
      BY <2>1, <3>1, <3>2
  <2>3. Phase' = [d \in Deliveries |-> IF d \in {hand[w]} THEN "rest" ELSE Phase[d]]
    BY <1>4, <2>1, <2>2
  <2>4. Contract!Lose({hand[w]})
    BY <1>0, <1>1, <2>1, <2>3 DEF Contract!Lose
  <2> QED
    BY <1>4, <2>1, <2>4 DEF Contract!Next
<1> QED
  BY <1>0, <1>1, <1>3, <1>5, <1>6, <1>7, <1>8 DEF Work, seen

\* Every step is a step of the contract, or not seen.
LEMMA NextContract == IInv /\ OneEach /\ [Next]_vars => [Contract!Next]_seen
<1> SUFFICES ASSUME IInv, OneEach, [Next]_vars PROVE [Contract!Next]_seen
  OBVIOUS
<1>1. ASSUME NEW r \in Requests, RequestStep(r) PROVE [Contract!Next]_seen
  BY <1>1, RequestContract
<1>2. ASSUME NEW w \in Workers, Work(w) \/ JobRaises(w) PROVE [Contract!Next]_seen
  BY <1>2, WorkerContract
<1>3. ASSUME NEW e \in Endpoints, CreateEndpoint(e) \/ RevokeEndpoint(e) PROVE [Contract!Next]_seen
  <2>1. UNCHANGED <<made, row, to, about, attempts, delivered, posts, wpc, hand>>
    BY <1>3, EndpointFrame
  <2>2. UNCHANGED <<Known, Event, Phase, attempts, delivered, posts>>
    BY <2>1, TablesSeen, WorkersSeen
  <2>3. Contract!Create(e) \/ Contract!Revoke(e)
    BY <1>3, <2>2 DEF CreateEndpoint, RevokeEndpoint, Contract!Create, Contract!Revoke
  <2> QED
    BY <2>3 DEF Contract!Next
<1>4. ASSUME NEW a \in Accounts, Lapse(a) PROVE UNCHANGED seen
  BY <1>4, LapseFrame, TablesSeen, WorkersSeen DEF seen
<1>5. CASE Restart
  <2>1. UNCHANGED <<made, state, to, about, attempts, delivered, posts>>
    BY <1>5 DEF Restart, db, effect, http
  <2>2. Known' = Known /\ Event' = Event
    <3>1. \A d \in Deliveries : row'[d] = "saved" <=> row[d] = "saved"
      BY <1>5 DEF Restart
    <3> QED
      BY <2>1, <3>1, TablesSeen
  <2>3. Phase' = [d \in Deliveries |-> IF d \in Deliveries THEN "rest" ELSE Phase[d]]
    BY <1>5 DEF Restart, Phase
  <2>4. Contract!Lose(Deliveries)
    BY <2>1, <2>2, <2>3 DEF Contract!Lose
  <2> QED
    BY <2>4 DEF Contract!Next
<1>6. CASE UNCHANGED vars
  BY <1>6, TablesSeen, WorkersSeen DEF vars, db, req, rows, effect, worker, http, seen
<1> QED
  BY <1>1, <1>2, <1>3, <1>4, <1>5, <1>6 DEF Next, RequestStep

\* Registrations and deliveries implement DeliveryContract, for any number of
\* accounts, requests, endpoints, workers, failures and restarts.
THEOREM RegistrationImplementsContract == Spec => ImplementsContract
<1>1. Spec => [](IInv /\ OneEach)
  <2>1. Spec => []OneEach
    BY Invariance, OneEachStart, NextOneEach, PTL DEF Spec
  <2> QED
    BY <2>1, Invariance, PTL
<1> QED
  BY <1>1, InitContract, NextContract, PTL DEF Spec, ImplementsContract, Contract!Spec, seen
=============================================================================
