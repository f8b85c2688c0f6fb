--------------------------- MODULE DeliveryContract ---------------------------
(***************************************************************************)
(* What the endpoints are promised of the accounts that are registered,    *)
(* with no transaction, no queue and no worker in it: the deliveries of an *)
(* account come into being with it, one for an endpoint; a delivery has    *)
(* one attempt at a time, begins one only while its endpoint is active,    *)
(* none has succeeded and one is left, and makes one request in it.  An    *)
(* attempt may be lost, before or after its request.                       *)
(***************************************************************************)
EXTENDS Naturals, Functions

CONSTANTS Accounts, Endpoints, Deliveries, MaxAttempts

VARIABLES
  known,      \* accounts that exist
  state,      \* an endpoint: "none", "active" or "revoked"
  event,      \* a delivery: its <<account, endpoint>>, in a set that is empty before
  phase,      \* its attempt: "rest", then "checked", then "posted"
  attempts,   \* attempts that were counted
  delivered,  \* deliveries that succeeded
  posts       \* requests made for each

Init ==
  /\ known = {} /\ state = [e \in Endpoints |-> "none"]
  /\ event = [d \in Deliveries |-> {}] /\ phase = [d \in Deliveries |-> "rest"]
  /\ attempts = [d \in Deliveries |-> 0] /\ delivered = {}
  /\ posts = [d \in Deliveries |-> 0]

\* An account comes with its deliveries, to endpoints that have been created.
Register(a) ==
  /\ a \notin known /\ known' = known \cup {a}
  /\ \E D \in SUBSET {d \in Deliveries : event[d] = {}} :
       \E f \in [D -> {e \in Endpoints : state[e] # "none"}] :
         /\ IsInjective(f)
         /\ event' = [d \in Deliveries |-> IF d \in D THEN {<<a, f[d]>>} ELSE event[d]]
  /\ UNCHANGED <<state, phase, attempts, delivered, posts>>

Create(e) == /\ state[e] = "none" /\ state' = [state EXCEPT ![e] = "active"]
             /\ UNCHANGED <<known, event, phase, attempts, delivered, posts>>
Revoke(e) == /\ state[e] = "active" /\ state' = [state EXCEPT ![e] = "revoked"]
             /\ UNCHANGED <<known, event, phase, attempts, delivered, posts>>

Begin(d) ==
  /\ phase[d] = "rest" /\ d \notin delivered /\ attempts[d] < MaxAttempts
  /\ \E x \in event[d] : state[x[2]] = "active"
  /\ phase' = [phase EXCEPT ![d] = "checked"]
  /\ UNCHANGED <<known, state, event, attempts, delivered, posts>>

Post(d) ==
  /\ phase[d] = "checked" /\ phase' = [phase EXCEPT ![d] = "posted"]
  /\ posts' = [posts EXCEPT ![d] = @ + 1]
  /\ UNCHANGED <<known, state, event, attempts, delivered>>

Count(d) ==
  /\ phase[d] = "posted" /\ phase' = [phase EXCEPT ![d] = "rest"]
  /\ attempts' = [attempts EXCEPT ![d] = @ + 1]
  /\ delivered' \in {delivered, delivered \cup {d}}
  /\ UNCHANGED <<known, state, event, posts>>

Lose(D) ==
  /\ phase' = [d \in Deliveries |-> IF d \in D THEN "rest" ELSE phase[d]]
  /\ UNCHANGED <<known, state, event, attempts, delivered, posts>>

Next == \/ \E a \in Accounts : Register(a)
        \/ \E e \in Endpoints : Create(e) \/ Revoke(e)
        \/ \E d \in Deliveries : Begin(d) \/ Post(d) \/ Count(d)
        \/ \E D \in SUBSET Deliveries : Lose(D)

Spec == Init /\ [][Next]_<<known, state, event, phase, attempts, delivered, posts>>
=============================================================================
