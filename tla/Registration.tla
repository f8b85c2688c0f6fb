----------------------------- MODULE Registration -----------------------------
(***************************************************************************)
(* POST /users, and the webhook deliveries a registration sets off.  A     *)
(* request inserts the user, writes a delivery row for each active         *)
(* endpoint and enqueues its job, caches its answer under the client's     *)
(* Idempotency-Key, and only then does get_db commit.  Workers run         *)
(* deliver_webhook on the in-process queue, each in its own session.       *)
(*                                                                         *)
(* The transactions are READ COMMITTED; the INSERT of a user waits for an  *)
(* open transaction that inserted the same address, and fails if that one  *)
(* commits.  The free plan exists (startup seeds it or does not complete). *)
(* Jobs are a set: the order of the queue is left out.                     *)
(***************************************************************************)
EXTENDS Naturals

CONSTANTS Accounts, Requests, Endpoints, Workers,
          MaxDeliveries, \* bound: ids the sequence of webhook_deliveries hands out
          MaxAttempts,   \* deliver_webhook gives up at this attempt_count
          MaxRuns,       \* how often the job manager runs a job that raises
          MaxFaults,     \* bound: failed requests, failed commits of a job, restarts
          None

ASSUME RegistrationAssumption ==
  /\ MaxAttempts \in Nat \ {0} /\ MaxRuns \in Nat \ {0} /\ MaxFaults \in Nat
  /\ MaxDeliveries \in Nat
  /\ None \notin Accounts \cup Requests \cup Endpoints \cup 1..MaxDeliveries

VARIABLES
  key,        \* accounts whose answer is under users:create:<Idempotency-Key>
  made,       \* committed users rows, by account
  holder,     \* the request whose open transaction inserted the account
  pc, acc,    \* a request's next await, and the account it registers
  todo,       \* endpoints its dispatch still has to write a delivery for
  last,       \* the id of the latest delivery row
  state,      \* an endpoint: "none", "active" or "revoked"
  row,        \* a delivery: "free", "open" (in a transaction), "saved" or "lost"
  to, about,  \* its endpoint and the account it tells of
  author,     \* the request that inserted it
  attempts,   \* its attempt_count
  delivered,  \* deliveries with a delivered_at
  jobs,       \* deliveries with a deliver_webhook job in the queue
  wpc, hand,  \* a worker's next await, and the delivery of its job
  runs,       \* earlier runs of that job, which raised
  answer,     \* what the endpoint answered
  faults,     \* failures so far
  posts,      \* history: requests made to the endpoint of each delivery
  late        \* history: those made after it was revoked

db     == <<made, state>>
rows   == <<last, row, to, about, author>>
effect == <<attempts, delivered>>
req    == <<pc, acc, todo>>
worker == <<wpc, hand, runs, answer>>
http   == <<posts, late>>
vars   == <<key, db, holder, req, rows, effect, jobs, worker, faults, http>>

Deliveries == 1..MaxDeliveries

TxPcs == {"dispatch", "commit"}
Pcs   == TxPcs \cup {"idle", "getKey", "select", "insert"}
WPcs  == {"idle", "read", "post", "save"}

At(r, p)      == pc[r] = p
Goto(r, p)    == pc' = [pc EXCEPT ![r] = p] /\ UNCHANGED <<acc, todo>>
WAt(w, p)     == wpc[w] = p
WGoto(w, p)   == wpc' = [wpc EXCEPT ![w] = p] /\ UNCHANGED <<hand, runs, answer>>
Active        == {e \in Endpoints : state[e] = "active"}
Revoked(d)    == to[d] # None /\ state[to[d]] = "revoked"
Open(r)       == {d \in Deliveries : row[d] = "open" /\ author[d] = r}
Idle(f, r)    == [f EXCEPT ![r] = "idle"]
Finish(r)     == /\ pc' = Idle(pc, r)
                 /\ acc' = [acc EXCEPT ![r] = None] /\ todo' = [todo EXCEPT ![r] = {}]
Release(r)    == holder' = [a \in Accounts |-> IF holder[a] = r THEN None ELSE holder[a]]
\* The transaction of r ends: its delivery rows are saved or lost.
Settle(r, fate) ==
  /\ row' = [d \in Deliveries |-> IF d \in Open(r) THEN fate ELSE row[d]]
  /\ UNCHANGED <<last, to, about, author>>
JobDone(w)    == /\ wpc' = Idle(wpc, w) /\ hand' = [hand EXCEPT ![w] = None]
                 /\ runs' = [runs EXCEPT ![w] = 0] /\ answer' = [answer EXCEPT ![w] = None]

Init ==
  /\ key = {} /\ last = 0 /\ jobs = {} /\ delivered = {} /\ faults = 0
  /\ made = [a \in Accounts |-> 0]       /\ holder = [a \in Accounts |-> None]
  /\ pc = [r \in Requests |-> "idle"]    /\ acc = [r \in Requests |-> None]
  /\ todo = [r \in Requests |-> {}]      /\ state = [e \in Endpoints |-> "none"]
  /\ row = [d \in Deliveries |-> "free"] /\ to = [d \in Deliveries |-> None]
  /\ about = [d \in Deliveries |-> None] /\ author = [d \in Deliveries |-> None]
  /\ attempts = [d \in Deliveries |-> 0]
  /\ wpc = [w \in Workers |-> "idle"]    /\ hand = [w \in Workers |-> None]
  /\ runs = [w \in Workers |-> 0]        /\ answer = [w \in Workers |-> None]
  /\ posts = [d \in Deliveries |-> 0]    /\ late = [d \in Deliveries |-> 0]

-----------------------------------------------------------------------------
(* The request *)

\* A client registers an account, or tries again.
Submit(r, a) ==
  /\ At(r, "idle")
  /\ pc' = [pc EXCEPT ![r] = "getKey"] /\ acc' = [acc EXCEPT ![r] = a] /\ UNCHANGED todo
  /\ UNCHANGED <<key, db, holder, rows, effect, jobs, worker, faults, http>>

\* Mutant of GetKey: the key is reserved before the account is inserted.
GetKeyReserves(r) ==
  /\ At(r, "getKey")
  /\ IF acc[r] \in key THEN Finish(r) ELSE Goto(r, "select")
  /\ key' = key \cup {acc[r]}
  /\ UNCHANGED <<db, holder, rows, effect, jobs, worker, faults, http>>

\* IDEMPOTENCY_STORE.get: a hit is answered from the cache.
GetKey(r) ==
  /\ At(r, "getKey")
  /\ IF acc[r] \in key THEN Finish(r) ELSE Goto(r, "select")
  /\ UNCHANGED <<key, db, holder, rows, effect, jobs, worker, faults, http>>

\* SELECT by address and by name: a committed row is a 409.
Select(r) ==
  /\ At(r, "select")
  /\ IF made[acc[r]] > 0 THEN Finish(r) ELSE Goto(r, "insert")
  /\ UNCHANGED <<key, db, holder, rows, effect, jobs, worker, faults, http>>

\* INSERT the user and its free subscription, then SELECT the active endpoints;
\* an IntegrityError rolls back.
Insert(r) ==
  /\ At(r, "insert") /\ holder[acc[r]] = None
  /\ IF made[acc[r]] > 0
     THEN Finish(r) /\ UNCHANGED holder
     ELSE /\ holder' = [holder EXCEPT ![acc[r]] = r]
          /\ pc' = [pc EXCEPT ![r] = "dispatch"] /\ todo' = [todo EXCEPT ![r] = Active]
          /\ UNCHANGED acc
  /\ UNCHANGED <<key, db, rows, effect, jobs, worker, faults, http>>

\* Mutant of Dispatch: the id of the delivery is read before the flush that sets it.
DispatchUnflushed(r) ==
  /\ At(r, "dispatch") /\ last < MaxDeliveries /\ last' = last + 1
  /\ \E e \in todo[r] : /\ to' = [to EXCEPT ![last'] = e]
                        /\ todo' = [todo EXCEPT ![r] = @ \ {e}]
  /\ row' = [row EXCEPT ![last'] = "open"]
  /\ about' = [about EXCEPT ![last'] = acc[r]] /\ author' = [author EXCEPT ![last'] = r]
  /\ jobs' = jobs \cup {None}
  /\ UNCHANGED <<key, db, holder, pc, acc, effect, worker, faults, http>>

\* dispatch: INSERT a delivery for the next endpoint and enqueue its job, at once.
Dispatch(r) ==
  /\ At(r, "dispatch") /\ last < MaxDeliveries /\ last' = last + 1
  /\ \E e \in todo[r] : /\ to' = [to EXCEPT ![last'] = e]
                        /\ todo' = [todo EXCEPT ![r] = @ \ {e}]
  /\ row' = [row EXCEPT ![last'] = "open"]
  /\ about' = [about EXCEPT ![last'] = acc[r]] /\ author' = [author EXCEPT ![last'] = r]
  /\ jobs' = jobs \cup {last'}
  /\ UNCHANGED <<key, db, holder, pc, acc, effect, worker, faults, http>>

\* The welcome mail is sent, and the answer cached if the client gave a key.
SetKey(r) ==
  /\ At(r, "dispatch") /\ todo[r] = {}
  /\ key' \in {key, key \cup {acc[r]}}
  /\ Goto(r, "commit")
  /\ UNCHANGED <<db, holder, rows, effect, jobs, worker, faults, http>>

\* get_db commits the user and the delivery rows.
Commit(r) ==
  /\ At(r, "commit")
  /\ made' = [made EXCEPT ![acc[r]] = @ + 1]
  /\ Settle(r, "saved") /\ Release(r) /\ Finish(r)
  /\ UNCHANGED <<key, state, effect, jobs, worker, faults, http>>

\* Mutant of Fail: the session is not rolled back.
FailKeepsLocks(r) ==
  /\ pc[r] # "idle" /\ faults < MaxFaults
  /\ faults' = faults + 1
  /\ Settle(r, "lost") /\ Finish(r)
  /\ UNCHANGED <<key, db, holder, effect, jobs, worker, http>>

\* Redis, the mail server or the commit fails: get_db rolls back.
Fail(r) ==
  /\ pc[r] # "idle" /\ faults < MaxFaults
  /\ faults' = faults + 1
  /\ Settle(r, "lost") /\ Release(r) /\ Finish(r)
  /\ UNCHANGED <<key, db, effect, jobs, worker, http>>

\* The 24 h TTL of a key runs out.
Lapse(a) ==
  /\ a \in key /\ key' = key \ {a}
  /\ UNCHANGED <<db, holder, req, rows, effect, jobs, worker, faults, http>>

-----------------------------------------------------------------------------
(* Endpoints *)

\* POST /webhooks/endpoints, committed.
CreateEndpoint(e) ==
  /\ state[e] = "none" /\ state' = [state EXCEPT ![e] = "active"]
  /\ UNCHANGED <<key, made, holder, req, rows, effect, jobs, worker, faults, http>>

\* DELETE /webhooks/endpoints/{id}, committed.
RevokeEndpoint(e) ==
  /\ state[e] = "active" /\ state' = [state EXCEPT ![e] = "revoked"]
  /\ UNCHANGED <<key, made, holder, req, rows, effect, jobs, worker, faults, http>>

-----------------------------------------------------------------------------
(* deliver_webhook *)

\* A worker gets a job from the queue.
Take(w, d) ==
  /\ WAt(w, "idle") /\ d \in jobs
  /\ jobs' = jobs \ {d}
  /\ wpc' = [wpc EXCEPT ![w] = "read"] /\ hand' = [hand EXCEPT ![w] = d]
  /\ UNCHANGED <<key, db, holder, req, rows, effect, runs, answer, faults, http>>

\* Mutant of Read: the row is read before it is committed.
ReadUncommitted(w) ==
  /\ WAt(w, "read")
  /\ IF row[hand[w]] \in {"open", "saved"} /\ state[to[hand[w]]] = "active"
     THEN WGoto(w, "post") ELSE JobDone(w)
  /\ UNCHANGED <<key, db, holder, req, rows, effect, jobs, faults, http>>

\* Mutant of Read: is_active is looked at on the first attempt only.
ReadActiveOnce(w) ==
  /\ WAt(w, "read")
  /\ IF row[hand[w]] = "saved" /\ (state[to[hand[w]]] = "active" \/ attempts[hand[w]] > 0)
     THEN WGoto(w, "post") ELSE JobDone(w)
  /\ UNCHANGED <<key, db, holder, req, rows, effect, jobs, faults, http>>

\* SELECT the delivery and its endpoint: no committed row, or an endpoint that
\* is not active, ends the job.
Read(w) ==
  /\ WAt(w, "read")
  /\ IF row[hand[w]] = "saved" /\ state[to[hand[w]]] = "active"
     THEN WGoto(w, "post") ELSE JobDone(w)
  /\ UNCHANGED <<key, db, holder, req, rows, effect, jobs, faults, http>>

\* POST to the endpoint: a 2xx, or another status, or an exception.
Post(w) ==
  /\ WAt(w, "post")
  /\ \E a \in {"ok", "error"} : answer' = [answer EXCEPT ![w] = a]
  /\ wpc' = [wpc EXCEPT ![w] = "save"]
  /\ posts' = [posts EXCEPT ![hand[w]] = @ + 1]
  /\ late' = IF Revoked(hand[w]) THEN [late EXCEPT ![hand[w]] = @ + 1] ELSE late
  /\ UNCHANGED <<key, db, holder, req, rows, effect, jobs, hand, runs, faults>>

\* Mutant of Save: the limit is off by one.
SaveOnceMore(w) ==
  /\ WAt(w, "save")
  /\ attempts' = [attempts EXCEPT ![hand[w]] = @ + 1]
  /\ delivered' = delivered \cup {d \in {hand[w]} : answer[w] = "ok"}
  /\ jobs' = jobs \cup {d \in {hand[w]} : answer[w] # "ok" /\ attempts'[d] <= MaxAttempts}
  /\ JobDone(w)
  /\ UNCHANGED <<key, db, holder, req, rows, faults, http>>

\* Mutant of Save: the job is enqueued again whatever the answer was.
SaveRetriesAll(w) ==
  /\ WAt(w, "save")
  /\ attempts' = [attempts EXCEPT ![hand[w]] = @ + 1]
  /\ delivered' = delivered \cup {d \in {hand[w]} : answer[w] = "ok"}
  /\ jobs' = jobs \cup {d \in {hand[w]} : attempts'[d] < MaxAttempts}
  /\ JobDone(w)
  /\ UNCHANGED <<key, db, holder, req, rows, faults, http>>

\* Mutant of Save: the retry is left to the job manager, which sees no error.
SaveNoRetry(w) ==
  /\ WAt(w, "save")
  /\ attempts' = [attempts EXCEPT ![hand[w]] = @ + 1]
  /\ delivered' = delivered \cup {d \in {hand[w]} : answer[w] = "ok"}
  /\ JobDone(w)
  /\ UNCHANGED <<key, db, holder, req, rows, jobs, faults, http>>

\* Commit the attempt, and enqueue the next one unless this was the last.
Save(w) ==
  /\ WAt(w, "save")
  /\ attempts' = [attempts EXCEPT ![hand[w]] = @ + 1]
  /\ delivered' = delivered \cup {d \in {hand[w]} : answer[w] = "ok"}
  /\ jobs' = jobs \cup {d \in {hand[w]} : answer[w] # "ok" /\ attempts'[d] < MaxAttempts}
  /\ JobDone(w)
  /\ UNCHANGED <<key, db, holder, req, rows, faults, http>>

\* Mutant of JobRaises: the retry is enqueued before the commit that fails.
JobRaisesQueued(w) ==
  /\ wpc[w] \in {"read", "save"} /\ faults < MaxFaults
  /\ faults' = faults + 1
  /\ jobs' = jobs \cup {d \in {hand[w]} : answer[w] = "error"}
  /\ IF runs[w] + 1 < MaxRuns
     THEN /\ runs' = [runs EXCEPT ![w] = @ + 1] /\ wpc' = [wpc EXCEPT ![w] = "read"]
          /\ answer' = [answer EXCEPT ![w] = None] /\ UNCHANGED hand
     ELSE JobDone(w)
  /\ UNCHANGED <<key, db, holder, req, rows, effect, http>>

\* The SELECT or the commit raises: the manager runs the job again, up to its limit.
JobRaises(w) ==
  /\ wpc[w] \in {"read", "save"} /\ faults < MaxFaults
  /\ faults' = faults + 1
  /\ IF runs[w] + 1 < MaxRuns
     THEN /\ runs' = [runs EXCEPT ![w] = @ + 1] /\ wpc' = [wpc EXCEPT ![w] = "read"]
          /\ answer' = [answer EXCEPT ![w] = None] /\ UNCHANGED hand
     ELSE JobDone(w)
  /\ UNCHANGED <<key, db, holder, req, rows, effect, jobs, http>>

\* The process dies and starts again: open transactions are rolled back, and
\* the queue is gone.
Restart ==
  /\ faults < MaxFaults /\ faults' = faults + 1
  /\ row' = [d \in Deliveries |-> IF row[d] = "open" THEN "lost" ELSE row[d]]
  /\ holder' = [a \in Accounts |-> None]
  /\ pc' = [r \in Requests |-> "idle"] /\ acc' = [r \in Requests |-> None]
  /\ todo' = [r \in Requests |-> {}]   /\ jobs' = {}
  /\ wpc' = [w \in Workers |-> "idle"] /\ hand' = [w \in Workers |-> None]
  /\ runs' = [w \in Workers |-> 0]     /\ answer' = [w \in Workers |-> None]
  /\ UNCHANGED <<key, db, last, to, about, author, effect, http>>

-----------------------------------------------------------------------------
Step(r) == \/ GetKey(r) \/ Select(r) \/ Insert(r) \/ Dispatch(r)
           \/ SetKey(r) \/ Commit(r)
Work(w) == Read(w) \/ Post(w) \/ Save(w) \/ \E d \in Deliveries : Take(w, d)

Next == \/ \E r \in Requests : Step(r) \/ Fail(r) \/ \E a \in Accounts : Submit(r, a)
        \/ \E w \in Workers : Work(w) \/ JobRaises(w)
        \/ \E e \in Endpoints : CreateEndpoint(e) \/ RevokeEndpoint(e)
        \/ (\E a \in Accounts : Lapse(a)) \/ Restart

Spec == Init /\ [][Next]_vars

\* Every await returns, and an idle worker takes each job in its turn.
FairSpec ==
  /\ Spec
  /\ \A r \in Requests : WF_vars(Step(r))
  /\ \A w \in Workers : WF_vars(Read(w) \/ Post(w) \/ Save(w))
  /\ \A d \in Deliveries : SF_vars(\E w \in Workers : Take(w, d))

-----------------------------------------------------------------------------
(* Properties *)

\* The tables, the queue, the requests and the workers keep their shape.
TypeOK ==
  /\ key \in SUBSET Accounts
  /\ made \in [Accounts -> Nat]
  /\ holder \in [Accounts -> Requests \cup {None}]
  /\ pc \in [Requests -> Pcs]
  /\ acc \in [Requests -> Accounts \cup {None}]
  /\ todo \in [Requests -> SUBSET Endpoints]
  /\ last \in 0..MaxDeliveries
  /\ state \in [Endpoints -> {"none", "active", "revoked"}]
  /\ row \in [Deliveries -> {"free", "open", "saved", "lost"}]
  /\ to \in [Deliveries -> Endpoints \cup {None}]
  /\ about \in [Deliveries -> Accounts \cup {None}]
  /\ author \in [Deliveries -> Requests \cup {None}]
  /\ attempts \in [Deliveries -> Nat]
  /\ delivered \in SUBSET Deliveries /\ jobs \in SUBSET Deliveries
  /\ wpc \in [Workers -> WPcs]
  /\ hand \in [Workers -> Deliveries \cup {None}]
  /\ runs \in [Workers -> Nat]
  /\ answer \in [Workers -> {"ok", "error", None}]
  /\ faults \in Nat
  /\ posts \in [Deliveries -> Nat] /\ late \in [Deliveries -> Nat]

\* Registrations of one address that race past the SELECT, with or without a
\* key, make one account: RegisterUserUseCase relies on the unique column.
OneAccount == \A a \in Accounts : made[a] <= 1

\* A cached answer speaks of an account that exists, or that a request is about
\* to commit; anything else takes a failure after IDEMPOTENCY_STORE.set.
CachedAnswersHold ==
  \A a \in key : \/ made[a] > 0
                 \/ \E r \in Requests : acc[r] = a /\ pc[r] = "commit"
                 \/ faults > 0

\* No endpoint hears of an account that does not exist: deliver_webhook acts on
\* a committed row only, although its job is enqueued inside the transaction.
NoGhostEvents == \A d \in Deliveries : posts[d] > 0 => made[about[d]] > 0

\* A delivery is attempted at most MaxAttempts times; one more request to the
\* endpoint takes a job that raised after it.
AttemptsBounded ==
  \A d \in Deliveries : attempts[d] <= MaxAttempts /\ posts[d] <= MaxAttempts + faults

\* A delivery has one job at a time: while a worker attempts it, through all the
\* runs of the job manager, its next attempt is not queued, so that no two
\* attempts run at once.
OneJob ==
  \A w, x \in Workers :
    hand[w] # None => hand[w] \notin jobs /\ (hand[w] = hand[x] => w = x)

\* Once an endpoint is revoked, no delivery is sent to it but the one request
\* that was already past its check.
QuietAfterRevoke == \A d \in Deliveries : late[d] <= 1

\* A delivery that succeeded is never sent again.
DeliveredIsFinal == [][\A d \in delivered : posts'[d] = posts[d]]_vars

\* Requests that wait for each other's address all come to an end.
RequestsEnd == \A r \in Requests : pc[r] # "idle" ~> pc[r] = "idle"

\* Retries do not break off: a delivery tried once is tried until it succeeds,
\* runs out of attempts or loses its endpoint, unless something fails.
RetriesGoOn ==
  \A d \in Deliveries :
    attempts[d] > 0 ~> \/ d \in delivered \/ attempts[d] = MaxAttempts
                       \/ Revoked(d) \/ faults > 0

\* The test of outbound webhooks asserts that a registered user's event is
\* posted: a saved delivery to an active endpoint is, if nothing fails.
SavedIsPosted ==
  \A d \in Deliveries :
    row[d] = "saved" ~> posts[d] > 0 \/ Revoked(d) \/ faults > 0

\* What the contract of the deliveries sees: a row when it is committed, and the
\* attempt that a worker makes.
Known    == {a \in Accounts : made[a] > 0}
Event    == [d \in Deliveries |-> IF row[d] = "saved" THEN {<<about[d], to[d]>>} ELSE {}]
Phase    == [d \in Deliveries |->
               IF \E w \in Workers : hand[w] = d /\ wpc[w] = "post" THEN "checked"
               ELSE IF \E w \in Workers : hand[w] = d /\ wpc[w] = "save" THEN "posted"
               ELSE "rest"]
Contract == INSTANCE DeliveryContract WITH known <- Known, event <- Event, phase <- Phase

\* Registrations and deliver_webhook, with their transactions, queue, retries,
\* failures and restarts, implement the contract: an account and its deliveries
\* are committed at once, one for an endpoint; attempts do not overlap, stop at
\* the limit, and none begins after a success or a revocation.
ImplementsContract == Contract!Spec

-----------------------------------------------------------------------------
(* The inductive invariant behind the safety properties *)

\* An open transaction is the only one of its account, which has no row yet.
RequestInv ==
  \A r \in Requests :
    /\ pc[r] # "idle" => acc[r] \in Accounts
    /\ pc[r] \in TxPcs => holder[acc[r]] = r /\ made[acc[r]] = 0

\* A delivery row is its author's while the transaction is open, and tells of
\* an account that exists once it is saved.
RowInv ==
  \A d \in Deliveries :
    /\ row[d] = "free" <=> d > last
    /\ row[d] # "free" => to[d] \in Endpoints /\ about[d] \in Accounts
    /\ row[d] = "open" => /\ author[d] \in Requests
                          /\ pc[author[d]] \in TxPcs /\ about[d] = acc[author[d]]
    /\ row[d] = "saved" => made[about[d]] > 0
    /\ row[d] = "free" => attempts[d] = 0 /\ late[d] = 0 /\ d \notin delivered
    /\ posts[d] > 0 => row[d] = "saved"

\* A delivery has one job at a time, queued or in the hands of a worker, and
\* only while an attempt is left and none has succeeded.
Pending(d) == d \in jobs \/ \E w \in Workers : hand[w] = d
JobInv ==
  /\ \A w \in Workers : /\ wpc[w] # "idle" <=> hand[w] # None
                        /\ wpc[w] \in {"post", "save"} => row[hand[w]] = "saved"
                        /\ wpc[w] = "post" => late[hand[w]] = 0
  /\ OneJob
  /\ \A d \in Deliveries :
       Pending(d) => row[d] # "free" /\ d \notin delivered /\ attempts[d] < MaxAttempts

\* Each request to an endpoint is an attempt, or was lost by a failure, or its
\* worker is about to commit it.
PostInv ==
  \A d \in Deliveries :
    /\ attempts[d] <= MaxAttempts
    /\ late[d] <= 1 /\ (late[d] > 0 => Revoked(d))
    /\ \/ posts[d] <= attempts[d] + faults
       \/ /\ posts[d] <= attempts[d] + faults + 1
          /\ \E w \in Workers : wpc[w] = "save" /\ hand[w] = d

IInv == TypeOK /\ RequestInv /\ RowInv /\ JobInv /\ PostInv /\ CachedAnswersHold /\ OneAccount
=============================================================================
