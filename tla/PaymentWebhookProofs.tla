------------------------ MODULE PaymentWebhookProofs ------------------------
(***************************************************************************)
(* The billing webhook applies each event once, for any number of events,  *)
(* deliveries, subscriptions and failures.                                 *)
(***************************************************************************)
EXTENDS PaymentWebhook, TLAPS

USE WebhookAssumption

\* Nothing is held, applied or acknowledged at the start.
LEMMA InitIInv == Init => IInv
BY DEF Init, IInv, TypeOK, Coherent, HeldInv, OneGrantPerPayment, NothingSwallowed,
       DunningNotified, RenotifiedOnlyAfterFailure, NotesInv, Paid, Pcs, TxPcs

\* Every await of a delivery, every failure and every expiry keeps the
\* invariant, whatever the other deliveries are doing.
LEMMA NextIInv == IInv /\ [Next]_vars => IInv'
<1> SUFFICES ASSUME IInv, [Next]_vars PROVE IInv'
  OBVIOUS
<1> USE DEF IInv, TypeOK, HeldInv, OneGrantPerPayment, NothingSwallowed, DunningNotified,
            RenotifiedOnlyAfterFailure, NotesInv, Paid, Pcs, TxPcs, db, locks, At
<1>1. ASSUME NEW d \in Deliveries, NEW e \in Events, Deliver(d, e) PROVE IInv'
  BY <1>1 DEF Deliver, Coherent
<1>2. ASSUME NEW d \in Deliveries, GetKey(d) PROVE IInv'
  BY <1>2 DEF GetKey, Coherent, Finish, Goto
<1>3. ASSUME NEW d \in Deliveries, SelectEvent(d) PROVE IInv'
  BY <1>3 DEF SelectEvent, Coherent, Goto
<1>4. ASSUME NEW d \in Deliveries, Insert(d) PROVE IInv'
  BY <1>4 DEF Insert, Coherent, Goto
<1>5. ASSUME NEW d \in Deliveries, FindSub(d) PROVE IInv'
  BY <1>5 DEF FindSub, Coherent, Goto
<1>6. ASSUME NEW d \in Deliveries, FlushSub(d) PROVE IInv'
  BY <1>6 DEF FlushSub, Coherent, Goto
<1>7. ASSUME NEW d \in Deliveries, Commit(d) PROVE IInv'
  <2>1. TypeOK'
    <3>1. ev[d] \in Events
      BY <1>7 DEF Commit, Coherent
    <3>2. holder' \in [Events -> Deliveries \cup {None}] /\ locker' \in [Subs -> Deliveries \cup {None}]
      BY <1>7 DEF Commit, Release, Released
    <3>3. made' \in [Subs -> Events \cup {None}] /\ status' \in [Subs -> {"none", "active", "past_due"}]
      <4>1. CASE ev[d] \in Paid
        <5>1. PICK s \in Subs : /\ made' = [made EXCEPT ![s] = ev[d]]
                               /\ status' = [status EXCEPT ![s] = "active"]
          BY <1>7, <4>1 DEF Commit
        <5> QED
          BY <3>1, <5>1
      <4>2. CASE ev[d] \notin Paid
        <5>1. made' = made /\ status' = [s \in Subs |-> IF s = target[d] THEN "past_due" ELSE status[s]]
          BY <1>7, <4>2 DEF Commit
        <5> QED
          BY <5>1
      <4> QED
        BY <4>1, <4>2
    <3>4. pc' \in [Deliveries -> Pcs] /\ dunned' \in [Events -> Subs \cup {None}] /\ rows' \in SUBSET Events
      BY <1>7, <3>1 DEF Commit, Goto
    <3> QED
      BY <1>7, <3>2, <3>3, <3>4 DEF Commit, Goto
  <2>2. \A x \in Deliveries : Coherent(x)'
    BY <1>7 DEF Commit, Coherent, Goto, Release, Released
  <2>3. HeldInv' /\ NotesInv'
    BY <1>7 DEF Commit, Coherent, Goto, Release, Released
  <2>4. OneGrantPerPayment'
    BY <1>7 DEF Commit, Coherent
  <2>5. NothingSwallowed' /\ DunningNotified' /\ RenotifiedOnlyAfterFailure'
    BY <1>7 DEF Commit, Coherent
  <2> QED
    BY <2>1, <2>2, <2>3, <2>4, <2>5
<1>8. ASSUME NEW d \in Deliveries, SetKey(d) PROVE IInv'
  BY <1>8 DEF SetKey, Coherent, Finish
<1>9. ASSUME NEW d \in Deliveries, Fail(d) PROVE IInv'
  BY <1>9 DEF Fail, Coherent, Finish, Release, Released
<1>10. ASSUME NEW e \in Events, Lapse(e) PROVE IInv'
  BY <1>10 DEF Lapse, Coherent, req
<1>11. CASE UNCHANGED vars
  BY <1>11 DEF vars, req, Coherent
<1> QED
  BY <1>1, <1>2, <1>3, <1>4, <1>5, <1>6, <1>7, <1>8, <1>9, <1>10, <1>11 DEF Next, Step

\* The invariant holds in every reachable state.
THEOREM Invariance == Spec => []IInv
<1>1. Init => IInv
  BY InitIInv
<1>2. IInv /\ [Next]_vars => IInv'
  BY NextIInv
<1> QED
  BY <1>1, <1>2, PTL DEF Spec

\* The tables, the store and the deliveries keep their shape.
THEOREM TypeCorrect == Spec => []TypeOK
BY Invariance, PTL DEF IInv

\* However a paid event is redelivered, raced or retried, it grants exactly one
\* subscription, in the transaction that records it.
THEOREM PaymentsGrantOnce == Spec => []OneGrantPerPayment
BY Invariance, PTL DEF IInv

\* A 200 or an idempotency key only ever stands for a recorded event.
THEOREM EventsAreNotSwallowed == Spec => []NothingSwallowed
BY Invariance, PTL DEF IInv

\* A subscription put past_due has had its owner's notification enqueued.
THEOREM DunningIsNotified == Spec => []DunningNotified
BY Invariance, PTL DEF IInv

\* A customer hears twice of one failed payment only when a request failed.
THEOREM RedeliveryIsSilent == Spec => []RenotifiedOnlyAfterFailure
BY Invariance, PTL DEF IInv

-----------------------------------------------------------------------------
\* Implementation: a commit is the ledger's Apply, a 200 its Ack, and every
\* other step leaves the ledger as it is.
LEMMA InitLedger == Init => Ledger!Init
BY DEF Init, Ledger!Init

\* A step of a delivery is a step of the ledger, or changes nothing of it.
LEMMA StepLedger ==
  IInv /\ [Next]_vars => [Ledger!Next]_<<rows, made, acked>>
<1> SUFFICES ASSUME IInv, [Next]_vars PROVE [Ledger!Next]_<<rows, made, acked>>
  OBVIOUS
<1> USE DEF db, At
<1>1. ASSUME NEW d \in Deliveries, Commit(d) PROVE Ledger!Next
  <2>1. ev[d] \in Events /\ ev[d] \notin rows
    BY <1>1 DEF Commit, IInv, Coherent, HeldInv, TxPcs, TypeOK
  <2>2. Ledger!Apply(ev[d])
    BY <1>1, <2>1 DEF Commit, Ledger!Apply
  <2> QED
    BY <2>1, <2>2 DEF Ledger!Next
<1>2. ASSUME NEW d \in Deliveries, SetKey(d) PROVE Ledger!Next
  <2>1. ev[d] \in Events /\ ev[d] \in rows
    BY <1>2 DEF SetKey, IInv, Coherent
  <2>2. Ledger!Ack(ev[d])
    BY <1>2, <2>1 DEF SetKey, Ledger!Ack
  <2> QED
    BY <2>1, <2>2 DEF Ledger!Next
<1>3. ASSUME NEW d \in Deliveries, GetKey(d) PROVE [Ledger!Next]_<<rows, made, acked>>
  <2>1. CASE ev[d] \in key
    <3>1. ev[d] \in Events /\ ev[d] \in rows
      BY <1>3, <2>1 DEF GetKey, IInv, Coherent, NothingSwallowed
    <3>2. Ledger!Ack(ev[d])
      BY <1>3, <2>1, <3>1 DEF GetKey, Ledger!Ack
    <3> QED
      BY <3>1, <3>2 DEF Ledger!Next
  <2>2. CASE ev[d] \notin key
    BY <1>3, <2>2 DEF GetKey
  <2> QED
    BY <2>1, <2>2
<1>4. ASSUME NEW d \in Deliveries,
             SelectEvent(d) \/ Insert(d) \/ FindSub(d) \/ FlushSub(d) \/ Fail(d)
      PROVE UNCHANGED <<rows, made, acked>>
  BY <1>4 DEF SelectEvent, Insert, FindSub, FlushSub, Fail
<1>5. ASSUME NEW d \in Deliveries, NEW e \in Events, Deliver(d, e)
      PROVE UNCHANGED <<rows, made, acked>>
  BY <1>5 DEF Deliver
<1>6. ASSUME NEW e \in Events, Lapse(e) PROVE UNCHANGED <<rows, made, acked>>
  BY <1>6 DEF Lapse
<1>7. CASE UNCHANGED vars
  BY <1>7 DEF vars
<1> QED
  BY <1>1, <1>2, <1>3, <1>4, <1>5, <1>6, <1>7 DEF Next, Step

\* The webhook implements the payment ledger.
THEOREM WebhookImplementsLedger == Spec => ImplementsLedger
<1>1. Spec => []IInv
  BY Invariance
<1>2. Init => Ledger!Init
  BY InitLedger
<1>3. IInv /\ [Next]_vars => [Ledger!Next]_<<rows, made, acked>>
  BY StepLedger
<1> QED
  BY <1>1, <1>2, <1>3, PTL DEF Spec, ImplementsLedger, Ledger!Spec
=============================================================================
