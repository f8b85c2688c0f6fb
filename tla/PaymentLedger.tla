---------------------------- MODULE PaymentLedger ----------------------------
(***************************************************************************)
(* What the billing webhook promises a payment provider, with no database  *)
(* transaction, no idempotency key and no redelivery in it: an event is    *)
(* applied once, a paid event grants one subscription in the same instant, *)
(* and only an applied event is answered with a 200.                       *)
(***************************************************************************)
CONSTANTS Events, Subs, Paid, None

VARIABLES applied,  \* events whose effects are in the database
          made,     \* the event that made each subscription, None if unused
          acked     \* events the provider may forget

Init == applied = {} /\ made = [s \in Subs |-> None] /\ acked = {}

Apply(e) == /\ e \notin applied
            /\ applied' = applied \cup {e}
            /\ IF e \in Paid
               THEN \E s \in Subs : made[s] = None /\ made' = [made EXCEPT ![s] = e]
               ELSE UNCHANGED made
            /\ UNCHANGED acked

Ack(e) == e \in applied /\ acked' = acked \cup {e} /\ UNCHANGED <<applied, made>>

Next == \E e \in Events : Apply(e) \/ Ack(e)

Spec == Init /\ [][Next]_<<applied, made, acked>>
=============================================================================
