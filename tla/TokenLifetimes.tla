---------------------------- MODULE TokenLifetimes ----------------------------
(***************************************************************************)
(* The lifetimes behind AuthSessions.  A token has one, its user's index   *)
(* another, renewed by each token that is added to it, and the mark that   *)
(* revokes an access token a third.  A token is made, then added to its    *)
(* index (SADD), then the index's lifetime is set (EXPIRE), then the       *)
(* client gets it; and a sweep of one index reads it and retires what it   *)
(* has read, one token after the other.                                    *)
(*                                                                         *)
(* One user; the index of the refresh tokens and the one of the access     *)
(* tokens are alike.  An index without a lifetime has 0 for its end.  An   *)
(* instant is a second, and what Redis lets lapse within a second lapses   *)
(* at its start; a token with an exp works until that second is over.      *)
(***************************************************************************)
EXTENDS Naturals

CONSTANTS AllTokens, Sweeps,
          AccessTTL,      \* access_token_expire_minutes: 24 h
          RefreshTTL,     \* refresh_token_expire_days: 7 d
          RevokeTTL,      \* of revoke_jti: 24 h
          LastInstant     \* bound of the clock

Kinds == {"access", "refresh"}
TTL   == [k \in Kinds |-> IF k = "access" THEN AccessTTL ELSE RefreshTTL]

\* The default configuration: a revocation outlasts the token it revokes.
ASSUME TokenLifetimesAssumption ==
  /\ {AccessTTL, RefreshTTL, RevokeTTL} \subseteq Nat \ {0}
  /\ AccessTTL <= RevokeTTL /\ LastInstant \in Nat \ {0}

VARIABLES
  instant,
  phase, kind,      \* where each token is, and its kind
  ends,           \* when it ends; 0 once it is deleted
  members, until, \* each index, and when it lapses
  revokedTill,    \* the end of each jti's mark
  spot, read,      \* each sweep: the index it sweeps, what is left of its reading
  swept,          \* history: tokens a sweep has retired
  adrift          \* history: tokens whose index lapsed before its EXPIRE, or was deleted

tvars == <<instant, phase, kind, ends, members, until, revokedTill, spot, read, swept, adrift>>
index == <<members, until>>
sweeps == <<revokedTill, spot, read, swept>>

Gone(k)  == until[k] # 0 /\ until[k] <= instant
Held(k)  == IF Gone(k) THEN {} ELSE members[k]
TGoto(t, p) == phase' = [phase EXCEPT ![t] = p]

TokenLifetimesInit ==
  /\ instant = 1 /\ phase = [t \in AllTokens |-> "new"] /\ kind = [t \in AllTokens |-> "access"]
  /\ ends = [t \in AllTokens |-> 0]
  /\ members = [k \in Kinds |-> {}] /\ until = [k \in Kinds |-> 0]
  /\ revokedTill = [t \in AllTokens |-> 0]
  /\ spot = [s \in Sweeps |-> "new"] /\ read = [s \in Sweeps |-> {}]
  /\ swept = {} /\ adrift = {}

-----------------------------------------------------------------------------
InstantPasses ==
  /\ instant < LastInstant /\ instant' = instant + 1
  /\ adrift' = adrift \cup {t \in AllTokens : phase[t] = "expire" /\ until[kind[t]] = instant + 1}
  /\ UNCHANGED <<phase, kind, ends, index, sweeps>>

\* create_access_token stamps the end; add_refresh_token sets the key with it.
Mint(t, k) ==
  /\ phase[t] = "new" /\ TGoto(t, "sadd") /\ kind' = [kind EXCEPT ![t] = k]
  /\ ends' = [ends EXCEPT ![t] = instant + TTL[k]]
  /\ UNCHANGED <<instant, index, sweeps, adrift>>

\* SADD makes the index anew if it has lapsed, without a lifetime.
AddToIndex(t) ==
  /\ phase[t] = "sadd" /\ TGoto(t, "expire")
  /\ members' = [members EXCEPT ![kind[t]] = Held(kind[t]) \cup {t}]
  /\ until' = [until EXCEPT ![kind[t]] = IF Gone(kind[t]) THEN 0 ELSE @]
  /\ UNCHANGED <<instant, kind, ends, sweeps, adrift>>

\* Mutant of RenewIndex: EXPIRE with NX, which sets a lifetime only once.
RenewOnce(t) ==
  /\ phase[t] = "expire" /\ TGoto(t, "held")
  /\ until' = [until EXCEPT ![kind[t]] = IF @ = 0 /\ Held(kind[t]) # {} THEN instant + TTL[kind[t]] ELSE @]
  /\ UNCHANGED <<instant, kind, ends, members, sweeps, adrift>>

\* EXPIRE, without effect on an index that is not there; then the client's answer.
RenewIndex(t) ==
  /\ phase[t] = "expire" /\ TGoto(t, "held")
  /\ until' = [until EXCEPT ![kind[t]] = IF Held(kind[t]) = {} THEN @ ELSE instant + TTL[kind[t]]]
  /\ UNCHANGED <<instant, kind, ends, members, sweeps, adrift>>

\* Redis fails between two calls: the request ends in a 503, without a token.
TokenFails(t) ==
  /\ phase[t] \in {"sadd", "expire"} /\ TGoto(t, "failed")
  /\ UNCHANGED <<instant, kind, ends, index, sweeps, adrift>>

\* SMEMBERS, or, when it fails, the empty fallback.
ReadMembers(s, k) ==
  /\ spot[s] = "new" /\ spot' = [spot EXCEPT ![s] = k]
  /\ \E found \in {Held(k), {}} : read' = [read EXCEPT ![s] = found]
  /\ UNCHANGED <<instant, phase, kind, ends, index, revokedTill, swept, adrift>>

\* revoke_all_for_user deletes a token; revoke_all_access_tokens_for_user marks it.
Retire(s, t) ==
  /\ t \in read[s] /\ read' = [read EXCEPT ![s] = @ \ {t}] /\ swept' = swept \cup {t}
  /\ IF spot[s] = "refresh"
     THEN ends' = [ends EXCEPT ![t] = 0] /\ UNCHANGED revokedTill
     ELSE revokedTill' = [revokedTill EXCEPT ![t] = instant + RevokeTTL] /\ UNCHANGED ends
  /\ UNCHANGED <<instant, phase, kind, index, spot, adrift>>

\* A logout that names the index of the refresh tokens deletes it.
DropIndex ==
  /\ Held("refresh") # {} /\ adrift' = adrift \cup Held("refresh")
  /\ members' = [members EXCEPT !["refresh"] = {}] /\ until' = [until EXCEPT !["refresh"] = 0]
  /\ UNCHANGED <<instant, phase, kind, ends, sweeps>>

TokenLifetimesNext ==
  \/ InstantPasses \/ DropIndex
  \/ \E t \in AllTokens : \/ AddToIndex(t) \/ RenewIndex(t) \/ TokenFails(t)
                          \/ \E k \in Kinds : Mint(t, k)
                          \/ \E s \in Sweeps : Retire(s, t)
  \/ \E s \in Sweeps, k \in Kinds : ReadMembers(s, k)

TokenLifetimesSpec == TokenLifetimesInit /\ [][TokenLifetimesNext]_tvars

-----------------------------------------------------------------------------
\* Tokens, indexes and sweeps keep their shape.
TokenLifetimesTypeOK ==
  /\ instant \in 1..LastInstant
  /\ phase \in [AllTokens -> {"new", "sadd", "expire", "held", "failed"}]
  /\ ends \in [AllTokens -> Nat] /\ until \in [Kinds -> Nat] /\ revokedTill \in [AllTokens -> Nat]
  /\ kind \in [AllTokens -> Kinds] /\ members \in [Kinds -> SUBSET AllTokens]
  /\ spot \in [Sweeps -> Kinds \cup {"new"}] /\ read \in [Sweeps -> SUBSET AllTokens]
  /\ swept \subseteq AllTokens /\ adrift \subseteq AllTokens

\* is_revoked and exp, through whose second a token is taken; or the key of a
\* refresh token.
Works(t) ==
  /\ revokedTill[t] <= instant
  /\ IF kind[t] = "access" THEN instant <= ends[t] ELSE instant < ends[t]

\* The three lifetimes fit together, to the second.  A token its client holds and
\* may still use is in the index, where a sweep finds it, up to the second it ends
\* in, unless the index lapsed between the token's SADD and its EXPIRE or a logout
\* deleted it.  And what a sweep has retired stays retired after the mark that
\* revokes it has lapsed, but for an access token in the last second of its life
\* when the mark lasts no longer than the token (the defaults: 24 hours each).
LifetimesFit ==
  /\ \A t \in AllTokens : phase[t] = "held" /\ Works(t) /\ instant < ends[t] =>
                             t \in Held(kind[t]) \cup adrift
  /\ \A t \in swept : Works(t) => kind[t] = "access" /\ instant = ends[t] /\ RevokeTTL = AccessTTL
=============================================================================
