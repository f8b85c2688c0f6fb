----------------------------- MODULE Subscriptions -----------------------------
(***************************************************************************)
(* The subscriptions of one user: an administrator assigns them, the user  *)
(* changes the plan of the latest one or cancels it, the periodic job      *)
(* expires trials and tells the user, and the feature gate asks which      *)
(* plans are paid for.  A client is one request, made at most once.        *)
(*                                                                         *)
(* A request reads a row and commits later; its UPDATE writes the columns  *)
(* that differ from what it read, and no others.  Nothing under backend/   *)
(* sets trial_ends_at or calls the periodic job: TrialEnds and Sweep are   *)
(* what a deployment does.                                                 *)
(***************************************************************************)
EXTENDS Naturals, FiniteSets, Optional

CONSTANTS Plans, Free,
          Carrying,     \* the plans mapped to the feature the gate asks for
          Clients,
          MaxSubs       \* bound: ids the sequence of subscriptions hands out

Subs == 1..MaxSubs
Paid == {"active", "trialing"}
\* What an assignment may store; "past_due" stands for any other string.
Statuses == Paid \cup {"canceled", "expired", "past_due"}

ASSUME SubscriptionsAssumption ==
  /\ Free \in Plans /\ Carrying \subseteq Plans /\ None \notin Plans
  /\ MaxSubs \in Nat \ {0}

VARIABLES
  plan, status,     \* subscriptions: "none" before the row is committed
  lastSub,          \* the latest id handed out
  due,              \* subscriptions whose trial_ends_at has passed
  invoiced,         \* invoices: <<subscription, plan>>
  spc, wish,        \* a client's next await, and the plan it asks for
  sid, was,         \* the subscription it read or inserted, and the row as read
  paidFor,          \* the plans a gate found
  verdict,          \* what the gate answered
  sweep, expiring,  \* the periodic job's next await, and the trials it read
  told,             \* subscriptions whose trial_expired notice is enqueued
  converted, raced, \* history: trials turned into plans, and those turned
                    \* while a sweep had read them
  stops             \* history: the periodic job was interrupted

svars == <<plan, status, lastSub, due, invoiced, spc, wish, sid, was, paidFor, verdict,
           sweep, expiring, told, converted, raced, stops>>
rowsOf   == <<plan, status, lastSub, due, invoiced, converted, raced>>
clientOf == <<wish, sid, was, paidFor, verdict>>
jobOf    == <<sweep, expiring, told, stops>>

Existing        == {s \in Subs : status[s] # "none"}
Latest      == CHOOSE s \in Existing : \A x \in Existing : x <= s
SGoto(c, p) == spc' = [spc EXCEPT ![c] = p]

SubscriptionsInit ==
  \* the registration of the user made the first row
  /\ plan = [s \in Subs |-> Free] /\ status = [s \in Subs |-> IF s = 1 THEN "active" ELSE "none"]
  /\ lastSub = 1 /\ due = {} /\ invoiced = {}
  /\ spc = [c \in Clients |-> "new"] /\ wish = [c \in Clients |-> None]
  /\ sid = [c \in Clients |-> 0] /\ was = [c \in Clients |-> None]
  /\ paidFor = [c \in Clients |-> {}] /\ verdict = [c \in Clients |-> None]
  /\ sweep = "idle" /\ expiring = {} /\ told = {}
  /\ converted = {} /\ raced = {} /\ stops = 0

-----------------------------------------------------------------------------
\* assign_subscription inserts, with the status of the payload, and flushes: the id
\* is taken, the row not yet seen.
Assign(c, p, st) ==
  /\ spc[c] = "new" /\ lastSub < MaxSubs /\ lastSub' = lastSub + 1
  /\ SGoto(c, "assign") /\ sid' = [sid EXCEPT ![c] = lastSub']
  /\ was' = [was EXCEPT ![c] = st] /\ wish' = [wish EXCEPT ![c] = p]
  /\ UNCHANGED <<plan, status, due, invoiced, converted, raced, paidFor, verdict, jobOf>>

\* It commits the subscription with its invoice; then the notice is enqueued.
AssignCommits(c) ==
  /\ spc[c] = "assign" /\ SGoto(c, "done")
  /\ plan' = [plan EXCEPT ![sid[c]] = wish[c]]
  /\ status' = [status EXCEPT ![sid[c]] = was[c]]
  /\ invoiced' = invoiced \cup {<<sid[c], wish[c]>>}
  /\ UNCHANGED <<lastSub, due, converted, raced, clientOf, jobOf>>

\* change_plan and cancel_subscription load the user's latest subscription.
ReadLatest(c, p, next) ==
  /\ spc[c] = "new" /\ SGoto(c, next)
  /\ sid' = [sid EXCEPT ![c] = Latest] /\ wish' = [wish EXCEPT ![c] = p]
  /\ was' = [was EXCEPT ![c] = [plan |-> plan[Latest], status |-> status[Latest]]]
  /\ UNCHANGED <<rowsOf, paidFor, verdict, jobOf>>
ChangePlan(c, p) == ReadLatest(c, p, "change")
CancelLatest(c)        == ReadLatest(c, None, "cancel")

\* The plan, "active" and a proration invoice are committed together.
ChangeCommits(c) ==
  /\ spc[c] = "change" /\ SGoto(c, "done")
  /\ plan' = [plan EXCEPT ![sid[c]] = IF was[c].plan = wish[c] THEN @ ELSE wish[c]]
  /\ status' = [status EXCEPT ![sid[c]] = IF was[c].status = "active" THEN @ ELSE "active"]
  /\ invoiced' = invoiced \cup {<<sid[c], wish[c]>>}
  /\ converted' = converted \cup {sid[c]}
  /\ raced' = raced \cup (expiring \cap {sid[c]})
  /\ UNCHANGED <<lastSub, due, clientOf, jobOf>>

CancelCommits(c) ==
  /\ spc[c] = "cancel" /\ SGoto(c, "done")
  /\ status' = [status EXCEPT ![sid[c]] = IF was[c].status = "canceled" THEN @ ELSE "canceled"]
  /\ UNCHANGED <<plan, lastSub, due, invoiced, converted, raced, clientOf, jobOf>>

\* A request that fails before its commit leaves nothing but a used id.
ClientFails(c) ==
  /\ spc[c] \in {"assign", "change", "cancel"} /\ SGoto(c, "done")
  /\ UNCHANGED <<rowsOf, clientOf, jobOf>>

\* user_has_feature: the plans of the active and trialing subscriptions ...
GatePlans(c) ==
  /\ spc[c] = "new"
  /\ LET P == {plan[s] : s \in {x \in Existing : status[x] \in Paid}}
     IN /\ paidFor' = [paidFor EXCEPT ![c] = P]
        /\ IF P = {} THEN SGoto(c, "done") /\ verdict' = [verdict EXCEPT ![c] = "402"]
                     ELSE SGoto(c, "gate") /\ UNCHANGED verdict
  /\ UNCHANGED <<rowsOf, wish, sid, was, jobOf>>

\* ... and the rows that map one of them to the feature: none, one, or an
\* exception of scalar_one_or_none.
GateFeature(c) ==
  /\ spc[c] = "gate" /\ SGoto(c, "done")
  /\ verdict' = [verdict EXCEPT ![c] =
       CASE Cardinality(paidFor[c] \cap Carrying) = 0 -> "402"
         [] Cardinality(paidFor[c] \cap Carrying) = 1 -> "pass"
         [] OTHER -> "error"]
  /\ UNCHANGED <<rowsOf, wish, sid, was, paidFor, jobOf>>

-----------------------------------------------------------------------------
\* The end of a trial passes.
TrialEnds(s) ==
  /\ status[s] = "trialing" /\ s \notin due /\ due' = due \cup {s}
  /\ UNCHANGED <<plan, status, lastSub, invoiced, spc, clientOf, jobOf, converted, raced>>

\* Mutant of Sweep: trial_ends_at is looked at, and the status is not.
SweepAllDue ==
  /\ sweep = "idle" /\ sweep' = "expire"
  /\ expiring' = due
  /\ UNCHANGED <<rowsOf, spc, clientOf, told, stops>>

\* expire_trial_subscriptions reads the trials that have ended,
Sweep ==
  /\ sweep = "idle" /\ sweep' = "expire"
  /\ expiring' = {s \in due : status[s] = "trialing"}
  /\ UNCHANGED <<rowsOf, spc, clientOf, told, stops>>

\* and commits "expired" over whatever they have become.
SweepCommits ==
  /\ sweep = "expire"
  /\ sweep' = IF expiring = {} THEN "idle" ELSE "notify"
  /\ status' = [s \in Subs |-> IF s \in expiring THEN "expired" ELSE status[s]]
  /\ expiring' = {}
  /\ UNCHANGED <<plan, lastSub, due, invoiced, converted, raced, spc, clientOf, told, stops>>

\* process_trial_expiry_jobs tells of every expired subscription, these and
\* all earlier ones.
Notify ==
  /\ sweep = "notify" /\ sweep' = "idle"
  /\ told' = told \cup {s \in Subs : status[s] = "expired"}
  /\ UNCHANGED <<rowsOf, spc, clientOf, expiring, stops>>

\* The process ends during the job.  Bound: once.
SweepStops ==
  /\ sweep # "idle" /\ stops = 0 /\ stops' = 1
  /\ sweep' = "idle" /\ expiring' = {}
  /\ UNCHANGED <<rowsOf, spc, clientOf, told>>

ClientStep(c) == AssignCommits(c) \/ ChangeCommits(c) \/ CancelCommits(c) \/ GateFeature(c)
SweepStep     == Sweep \/ SweepCommits \/ Notify

SubscriptionsNext ==
  \/ \E c \in Clients : \/ ClientStep(c) \/ ClientFails(c) \/ GatePlans(c) \/ CancelLatest(c)
                        \/ \E p \in Plans : ChangePlan(c, p) \/ \E st \in Statuses : Assign(c, p, st)
  \/ SweepStep \/ SweepStops
  \/ \E s \in Subs : TrialEnds(s)

SubscriptionsSpec == SubscriptionsInit /\ [][SubscriptionsNext]_svars

-----------------------------------------------------------------------------
\* The rows, the clients and the periodic job keep their shape.
SubscriptionsTypeOK ==
  /\ plan \in [Subs -> Plans] /\ lastSub \in Subs /\ due \subseteq Subs
  /\ status \in [Subs -> Statuses \cup {"none"}]
  /\ invoiced \subseteq Subs \X Plans
  /\ spc \in [Clients -> {"new", "assign", "change", "cancel", "gate", "done"}]
  /\ wish \in [Clients -> Plans \cup {None}] /\ sid \in [Clients -> Subs \cup {0}]
  /\ paidFor \in [Clients -> SUBSET Plans]
  /\ verdict \in [Clients -> {"402", "pass", "error", None}]
  /\ sweep \in {"idle", "expire", "notify"} /\ stops \in {0, 1}
  /\ expiring \subseteq Subs /\ told \subseteq Subs
  /\ converted \subseteq Subs /\ raced \subseteq converted

\* A conversion holds.  However assignments and plan changes overlap, a
\* subscription is on a plan that some invoice of it names, or still on that of
\* the registration; and a trial that its user turned into a plan is not expired
\* by the periodic job, but for a job that had read it before.
ConversionsHold ==
  /\ \A s \in Existing : <<s, plan[s]>> \in invoiced \/ (s = 1 /\ plan[s] = Free)
  /\ \A s \in converted : status[s] = "expired" => s \in raced

\* Every trial that the periodic job expires is told, unless the job was
\* interrupted.  (A row that was assigned as expired never was a trial, and is told
\* of only when the job next expires another.)
ExpiredIsTold ==
  \A s \in Subs : []<>(s \in due /\ status[s] = "expired" => s \in told \/ stops > 0)

\* The README says that users with a matching active or trialing plan pass the
\* feature gate: one who has such a plan is never refused, nor met by an error.
MatchingPlanPasses ==
  \A c \in Clients :
    verdict[c] # None /\ paidFor[c] \cap Carrying # {} => verdict[c] = "pass"
=============================================================================
