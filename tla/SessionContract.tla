--------------------------- MODULE SessionContract ---------------------------
(***************************************************************************)
(* What the token store promises its clients, with no Redis, no index and  *)
(* no request in it: a pair of tokens is handed out once, and each half    *)
(* that has ended stays ended.  A half may be dead on arrival, when a      *)
(* sweep or an expiry overtakes the response.                              *)
(***************************************************************************)
CONSTANT Tokens

VARIABLES session,  \* the refresh half of a pair: "none", "open" or "ended"
          access    \* the access half

Phases == {"none", "open", "ended"}

Init == /\ session = [t \in Tokens |-> "none"]
        /\ access = [t \in Tokens |-> "none"]

Issue(t) == /\ session[t] = "none" /\ access[t] = "none"
            /\ \E s, a \in {"open", "ended"} :
                 /\ session' = [session EXCEPT ![t] = s]
                 /\ access' = [access EXCEPT ![t] = a]

End(t) == /\ session[t] = "open"
          /\ session' = [session EXCEPT ![t] = "ended"]
          /\ UNCHANGED access

Revoke(t) == /\ access[t] = "open"
             /\ access' = [access EXCEPT ![t] = "ended"]
             /\ UNCHANGED session

Next == \E t \in Tokens : Issue(t) \/ End(t) \/ Revoke(t)

Spec == Init /\ [][Next]_<<session, access>>
=============================================================================
