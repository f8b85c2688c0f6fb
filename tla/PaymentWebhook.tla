---------------------------- MODULE PaymentWebhook ----------------------------
(***************************************************************************)
(* POST /billing/webhooks/stripe: deliveries of provider events, handled   *)
(* by coroutines that interleave at every await on Redis or Postgres.      *)
(*                                                                         *)
(* A delivery's transaction is READ COMMITTED: a SELECT sees committed     *)
(* rows only; the INSERT of a payment event waits for another open         *)
(* transaction that inserted the same (provider, event id) and fails if    *)
(* that one commits; an UPDATE of a subscription waits for its row lock.   *)
(* Deliveries refused before the first await (provider, id, signature)     *)
(* change nothing and are left out.                                        *)
(***************************************************************************)
EXTENDS Naturals

CONSTANTS Events, Deliveries, Subs,
          Kind,       \* checkout.session.completed, invoice.payment_failed or any other
          MaxFaults,  \* bound: how often a handler fails before its response
          None

ASSUME WebhookAssumption ==
  /\ Kind \in [Events -> {"checkout", "failed", "other"}]
  /\ MaxFaults \in Nat
  /\ None \notin Events \cup Deliveries \cup Subs

VARIABLES
  key,     \* events with a live key in IDEMPOTENCY_STORE
  rows,    \* events with a committed payment_events row
  made,    \* the event that inserted each committed subscription
  status,  \* subscriptions.status, committed
  holder,  \* the delivery whose open transaction inserted the event
  locker,  \* the delivery whose open transaction updated the subscription
  pc,      \* the await a delivery will make next
  ev,      \* the event it carries
  target,  \* the subscription it marks past_due
  notes,   \* payment_failed notifications enqueued, by event
  faults,  \* failed requests so far
  dunned,  \* history: the subscription a committed failure event hit
  acked    \* history: events answered with a 200

db    == <<rows, made, status, dunned>>
locks == <<holder, locker>>
req   == <<pc, ev, target>>
vars  == <<key, db, locks, req, notes, faults, acked>>

Paid   == {e \in Events : Kind[e] = "checkout"}
TxPcs  == {"findSub", "flushSub", "commit"}
Pcs    == TxPcs \cup {"idle", "getKey", "selectEvent", "insert", "setKey"}

At(d, p)   == pc[d] = p
Goto(d, p) == pc' = [pc EXCEPT ![d] = p] /\ UNCHANGED <<ev, target>>
Finish(d)  == /\ pc' = [pc EXCEPT ![d] = "idle"]
              /\ ev' = [ev EXCEPT ![d] = None]
              /\ target' = [target EXCEPT ![d] = None]
Released(f, d) == [x \in DOMAIN f |-> IF f[x] = d THEN None ELSE f[x]]
Release(d)     == holder' = Released(holder, d) /\ locker' = Released(locker, d)

Init ==
  /\ key = {} /\ rows = {} /\ acked = {} /\ faults = 0
  /\ made = [s \in Subs |-> None]
  /\ status = [s \in Subs |-> "none"]
  /\ holder = [e \in Events |-> None]
  /\ locker = [s \in Subs |-> None]
  /\ pc = [d \in Deliveries |-> "idle"]
  /\ ev = [d \in Deliveries |-> None]
  /\ target = [d \in Deliveries |-> None]
  /\ notes = [e \in Events |-> 0]
  /\ dunned = [e \in Events |-> None]

-----------------------------------------------------------------------------
\* The provider delivers an event: for the first time, again, or twice at once.
Deliver(d, e) ==
  /\ At(d, "idle")
  /\ pc' = [pc EXCEPT ![d] = "getKey"]
  /\ ev' = [ev EXCEPT ![d] = e]
  /\ UNCHANGED <<key, db, locks, target, notes, faults, acked>>

\* Mutant of GetKey: the key is reserved before the event is processed.
GetKeyReserves(d) ==
  /\ At(d, "getKey")
  /\ \/ ev[d] \in key /\ acked' = acked \cup {ev[d]} /\ Finish(d)
     \/ ev[d] \notin key /\ Goto(d, "selectEvent") /\ UNCHANGED acked
  /\ key' = key \cup {ev[d]}
  /\ UNCHANGED <<db, locks, notes, faults>>

\* IDEMPOTENCY_STORE.get: a hit is answered as a duplicate.
GetKey(d) ==
  /\ At(d, "getKey")
  /\ \/ ev[d] \in key /\ acked' = acked \cup {ev[d]} /\ Finish(d)
     \/ ev[d] \notin key /\ Goto(d, "selectEvent") /\ UNCHANGED acked
  /\ UNCHANGED <<key, db, locks, notes, faults>>

\* SELECT the payment event: a committed row is a duplicate.
SelectEvent(d) ==
  /\ At(d, "selectEvent")
  /\ Goto(d, IF ev[d] \in rows THEN "setKey" ELSE "insert")
  /\ UNCHANGED <<key, db, locks, notes, faults, acked>>

\* Mutant of Insert: payment_events has no unique constraint.
InsertUnchecked(d) ==
  /\ At(d, "insert")
  /\ holder' = [holder EXCEPT ![ev[d]] = d]
  /\ Goto(d, IF Kind[ev[d]] = "failed" THEN "findSub" ELSE "commit")
  /\ UNCHANGED <<key, db, locker, notes, faults, acked>>

\* INSERT the payment event; IntegrityError rolls back and is a duplicate.
Insert(d) ==
  /\ At(d, "insert") /\ holder[ev[d]] = None
  /\ \/ ev[d] \in rows /\ Goto(d, "setKey") /\ UNCHANGED locks
     \/ /\ ev[d] \notin rows
        /\ holder' = [holder EXCEPT ![ev[d]] = d]
        /\ Goto(d, IF Kind[ev[d]] = "failed" THEN "findSub" ELSE "commit")
        /\ UNCHANGED locker
  /\ UNCHANGED <<key, db, notes, faults, acked>>

\* SELECT the subscription, by id or else the latest of that user and plan.  If
\* it already reads past_due there is nothing to flush, yet the user is notified.
FindSub(d) ==
  /\ At(d, "findSub")
  /\ \/ Goto(d, "commit") /\ UNCHANGED notes
     \/ \E s \in Subs :
          /\ status[s] # "none"
          /\ target' = [target EXCEPT ![d] = s] /\ UNCHANGED ev
          /\ \/ /\ status[s] = "past_due"
                /\ notes' = [notes EXCEPT ![ev[d]] = @ + 1]
                /\ pc' = [pc EXCEPT ![d] = "commit"]
             \/ /\ status[s] # "past_due"
                /\ pc' = [pc EXCEPT ![d] = "flushSub"] /\ UNCHANGED notes
  /\ UNCHANGED <<key, db, locks, faults, acked>>

\* Mutant of FlushSub: the notification is left for after the response.
FlushSubSilent(d) ==
  /\ At(d, "flushSub") /\ locker[target[d]] = None
  /\ locker' = [locker EXCEPT ![target[d]] = d]
  /\ Goto(d, "commit")
  /\ UNCHANGED <<key, db, holder, notes, faults, acked>>

\* UPDATE the status, then enqueue the notification, before the commit.
FlushSub(d) ==
  /\ At(d, "flushSub") /\ locker[target[d]] = None
  /\ locker' = [locker EXCEPT ![target[d]] = d]
  /\ notes' = [notes EXCEPT ![ev[d]] = @ + 1]
  /\ Goto(d, "commit")
  /\ UNCHANGED <<key, db, holder, faults, acked>>

\* Mutant of Commit: a status no other code knows.
CommitUnknownStatus(d) ==
  /\ At(d, "commit")
  /\ rows' = rows \cup {ev[d]}
  /\ \E s \in Subs : /\ made[s] = None
                    /\ made' = [made EXCEPT ![s] = ev[d]]
                    /\ status' = [status EXCEPT ![s] = "paid"]
  /\ UNCHANGED dunned
  /\ Release(d)
  /\ Goto(d, "setKey")
  /\ UNCHANGED <<key, notes, faults, acked>>

\* One transaction: the event row and what the event does to a subscription.
Commit(d) ==
  /\ At(d, "commit")
  /\ rows' = rows \cup {ev[d]}
  /\ dunned' = [dunned EXCEPT ![ev[d]] = target[d]]
  /\ IF ev[d] \in Paid
     THEN \E s \in Subs :
            /\ made[s] = None
            /\ made' = [made EXCEPT ![s] = ev[d]]
            /\ status' = [status EXCEPT ![s] = "active"]
     ELSE /\ status' = [s \in Subs |-> IF s = target[d] THEN "past_due" ELSE status[s]]
          /\ UNCHANGED made
  /\ Release(d)
  /\ Goto(d, "setKey")
  /\ UNCHANGED <<key, notes, faults, acked>>

\* IDEMPOTENCY_STORE.set comes last, then the 200.
SetKey(d) ==
  /\ At(d, "setKey")
  /\ key' = key \cup {ev[d]}
  /\ acked' = acked \cup {ev[d]}
  /\ Finish(d)
  /\ UNCHANGED <<db, locks, notes, faults>>

\* Mutant of Fail: the error is swallowed and answered with a 200.
FailAnswered(d) ==
  /\ pc[d] # "idle" /\ faults < MaxFaults
  /\ faults' = faults + 1
  /\ acked' = acked \cup {ev[d]}
  /\ Release(d)
  /\ Finish(d)
  /\ UNCHANGED <<key, db, notes>>

\* Mutant of Fail: the session is not rolled back, its locks stay.
FailKeepsLocks(d) ==
  /\ pc[d] # "idle" /\ faults < MaxFaults
  /\ faults' = faults + 1
  /\ Finish(d)
  /\ UNCHANGED <<key, db, locks, notes, acked>>

\* Redis or the database fails, or the process dies: get_db rolls back, the
\* provider sees no 200.
Fail(d) ==
  /\ pc[d] # "idle" /\ faults < MaxFaults
  /\ faults' = faults + 1
  /\ Release(d)
  /\ Finish(d)
  /\ UNCHANGED <<key, db, notes, acked>>

\* The 24 h TTL of a key runs out.
Lapse(e) ==
  /\ e \in key
  /\ key' = key \ {e}
  /\ UNCHANGED <<db, locks, req, notes, faults, acked>>

Step(d) == \/ GetKey(d) \/ SelectEvent(d) \/ Insert(d) \/ FindSub(d)
           \/ FlushSub(d) \/ Commit(d) \/ SetKey(d)

Next == \/ \E d \in Deliveries : Step(d) \/ Fail(d) \/ \E e \in Events : Deliver(d, e)
        \/ \E e \in Events : Lapse(e)

Spec == Init /\ [][Next]_vars

\* Every await returns, and the provider keeps redelivering what it has no 200 for.
FairSpec ==
  /\ Spec
  /\ \A d \in Deliveries : WF_vars(Step(d))
  /\ \A e \in Events : SF_vars(e \notin acked /\ \E d \in Deliveries : Deliver(d, e))

-----------------------------------------------------------------------------
(* Properties *)

\* The variables of the store, the tables, the locks and the deliveries keep
\* their shape.
TypeOK ==
  /\ key \in SUBSET Events /\ rows \in SUBSET Events /\ acked \in SUBSET Events
  /\ made \in [Subs -> Events \cup {None}]
  /\ status \in [Subs -> {"none", "active", "past_due"}]
  /\ holder \in [Events -> Deliveries \cup {None}]
  /\ locker \in [Subs -> Deliveries \cup {None}]
  /\ pc \in [Deliveries -> Pcs]
  /\ ev \in [Deliveries -> Events \cup {None}]
  /\ target \in [Deliveries -> Subs \cup {None}]
  /\ notes \in [Events -> Nat]
  /\ faults \in Nat
  /\ dunned \in [Events -> Subs \cup {None}]

\* A payment grants exactly one subscription: however often, and however much
\* at once, checkout.session.completed is delivered, its event row and one
\* subscription come into being together, and nothing else makes one.
OneGrantPerPayment ==
  /\ \A e \in Paid : e \in rows => \E s \in Subs : made[s] = e
  /\ \A s \in Subs : made[s] # None => made[s] \in rows \cap Paid
  /\ \A s, t \in Subs : made[s] = made[t] /\ made[s] # None => s = t

\* No event is swallowed: a key in the idempotency store, or a 200 (processed
\* or duplicate), only ever stands for an event whose row is committed, so a
\* retry of a failed delivery is never turned away as a duplicate.
NothingSwallowed == key \cup acked \subseteq rows

\* A customer is never dunned in silence: once a failure event has put a
\* subscription past_due, its notification was enqueued.
DunningNotified == \A e \in rows : dunned[e] # None => notes[e] > 0

\* Deliveries that wait for each other's event row or subscription lock all
\* get through: every event is answered with a 200 in the end, unless the
\* provider gives up or the failures never stop.
EventuallyAcked == \A e \in Events : <>(e \in acked)

\* Redelivery alone never notifies a customer twice, as the README's "can't
\* double-apply" wants: the notification leaves before the commit, so a second
\* one for an event takes a request that failed in between.
RenotifiedOnlyAfterFailure == \A e \in Events : notes[e] <= 1 + faults

-----------------------------------------------------------------------------
(* The inductive invariant, and the abstract specification implemented *)

\* What a delivery relies on at each await.
Coherent(d) ==
  /\ pc[d] # "idle" => ev[d] \in Events
  /\ pc[d] \in TxPcs => holder[ev[d]] = d
  /\ pc[d] = "setKey" => ev[d] \in rows
  /\ pc[d] = "findSub" => target[d] = None
  /\ pc[d] \in {"findSub", "flushSub"} => Kind[ev[d]] = "failed"
  /\ pc[d] = "flushSub" => target[d] \in Subs
  /\ pc[d] = "commit" /\ target[d] # None => notes[ev[d]] > 0 /\ Kind[ev[d]] = "failed"
  /\ pc[d] \in Pcs \ (TxPcs \cup {"setKey"}) => target[d] = None

\* An event row that a transaction holds is its own event, in no committed one.
HeldInv == \A e \in Events : holder[e] # None =>
             e \notin rows /\ pc[holder[e]] \in TxPcs /\ ev[holder[e]] = e

\* Until a transaction has flushed, every notification of its event was sent
\* by a request that failed.
NotesInv == \A e \in Events :
  e \notin rows /\ (holder[e] # None => pc[holder[e]] # "commit") => notes[e] <= faults

IInv == /\ TypeOK /\ (\A d \in Deliveries : Coherent(d)) /\ HeldInv /\ NotesInv
        /\ OneGrantPerPayment /\ NothingSwallowed /\ DunningNotified
        /\ RenotifiedOnlyAfterFailure

Ledger == INSTANCE PaymentLedger WITH applied <- rows

\* Handlers, retries and lost idempotency keys implement the ledger.
ImplementsLedger == Ledger!Spec

=============================================================================
