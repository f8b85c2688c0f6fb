--------------------------- MODULE MCPaymentWebhook ---------------------------
(* Instances of PaymentWebhook for TLC. *)
EXTENDS PaymentWebhook, TLC

CONSTANTS paid, unpaid, unpaid2, other

Kinds == [e \in Events |-> CASE e = paid -> "checkout" [] e = other -> "other"
                             [] e \in {unpaid, unpaid2} -> "failed"]

Symmetry == Permutations(Deliveries) \cup Permutations(Subs)
=============================================================================
