---------------------------- MODULE AuthSessions ----------------------------
(***************************************************************************)
(* Sign-in sessions of the API: the Redis token store and the handlers of  *)
(* /auth/login, /auth/refresh, /auth/logout, /auth/password-reset and      *)
(* PUT/DELETE /users/{id}, outside the "dev" environment (no in-memory     *)
(* fallback: a Redis error raises TokenStoreUnavailableError).             *)
(*                                                                         *)
(* A login or a refresh mints one access token (its jti) and one refresh   *)
(* token; one member of Tokens names the pair.  Handlers are coroutines on *)
(* one event loop: a step runs from one await on Redis or the database to  *)
(* the next, and the steps of different requests interleave freely.  The   *)
(* EXPIRE after an SADD is left to TokenLifetimes.  The row lock a flushed *)
(* password holds until its commit is left out (more orders, not fewer).   *)
(***************************************************************************)
EXTENDS Naturals

CONSTANTS Users, Tokens, ResetKeys, Requests,
          Superusers,   \* accounts with is_superuser, which may change the others
          KeyOwner,     \* the account each password-reset key was mailed to
          Outages,      \* may SMEMBERS fail while the rest of Redis answers?
          MaxPassword,  \* bound: no PUT changes a password beyond this version
          NamedIndexes, \* bound: the users whose index key a logout may name
          None

ASSUME AuthAssumption ==
  /\ KeyOwner \in [ResetKeys -> Users] /\ Superusers \subseteq Users
  /\ Outages \in BOOLEAN
  /\ MaxPassword \in Nat /\ NamedIndexes \subseteq Users
  /\ None \notin Users \cup Tokens \cup ResetKeys
  \* the names of keys: no refresh token is called like the index of a user
  /\ Users \cap Tokens = {}

VARIABLES
  refresh,      \* tier4:tokens:<t>: "live" (a user id), "used" ("used:<id>") or no key
  index,        \* tier4:tokens:by-user:<u>
  accessIndex,  \* tier4:revocations:access-by-user:<u>
  revoked,      \* jtis under tier4:revocations
  resetKey,     \* tier4:password-reset:<k>: "unsent", "sent" or "gone"
  owner,        \* the user a token was minted for, None before that
  parent,       \* the refresh token that was marked used in exchange for this one
  era,          \* the password version the token's login was checked against
  password,     \* committed users.hashed_password, as a version
  present,      \* users whose committed row has deleted_at NULL
  pc,           \* where each coroutine is: the await it will make next
  op,           \* the handler it runs
  uid,          \* the user it works for
  given,        \* what the client presented: a token, a reset key, a logout's key
  new,          \* the token it mints (a logout: the access token presented)
  todo,         \* a sweep: what is left of the snapshot
  doomed,       \* history: what clients held, and the index listed, at that time
  issued,       \* history: pairs a 200 response handed to the client
  spent,        \* history: refresh tokens a finished rotation, logout or sweep retired
  closed,       \* history: access tokens a finished logout or sweep retired
  unlisted,     \* history: refresh tokens a deleted index had listed
  stranded      \* history: refresh tokens marked by a rotation that failed after

stores   == <<refresh, index, accessIndex, revoked>>
birth    == <<owner, parent, era>>
accounts == <<resetKey, password, present>>
lost     == <<unlisted, stranded>>
history  == <<issued, spent, closed, lost>>
job      == <<op, uid, given, new>>
sweep    == <<todo, doomed>>
req      == <<pc, job, sweep>>
vars     == <<stores, birth, accounts, history, req>>

Ops     == {"none", "login", "refresh", "replay", "logout", "reset", "update"}
MintPcs == {"trackAccess", "markUsed", "setRefresh", "indexRefresh", "answer"}
Pcs     == MintPcs \cup {"idle", "loadUser", "logoutDelete", "logoutRevoke",
             "consumeReset", "readIndex", "sweepRefresh", "sweepAccess"}

Unminted(t)   == owner[t] = None
\* The rotation of t has marked it, and is to answer with its successor.
Trading(r, t) == /\ pc[r] \in {"setRefresh", "indexRefresh", "answer"}
                 /\ op[r] = "refresh" /\ given[r] = t
IssuedTo(u)   == {t \in issued : owner[t] = u}
\* get_current_user: a JWT the server signed, not revoked, of a user not deleted.
Authorized(t) == t \in issued /\ t \notin revoked /\ owner[t] \in present
\* The caller of PUT or DELETE /users/{u} is u or a superuser.
MayChange(a, u) ==
  Authorized(a) /\ u \in present /\ (owner[a] = u \/ owner[a] \in Superusers)

At(r, p)   == pc[r] = p
Goto(r, p) == pc' = [pc EXCEPT ![r] = p] /\ UNCHANGED <<job, sweep>>

Begin(r, p, o, u, g, n) ==
  /\ At(r, "idle")
  /\ pc' = [pc EXCEPT ![r] = p]       /\ op' = [op EXCEPT ![r] = o]
  /\ uid' = [uid EXCEPT ![r] = u]     /\ given' = [given EXCEPT ![r] = g]
  /\ new' = [new EXCEPT ![r] = n]     /\ UNCHANGED sweep

Finish(r) ==
  /\ pc' = [pc EXCEPT ![r] = "idle"]  /\ op' = [op EXCEPT ![r] = "none"]
  /\ uid' = [uid EXCEPT ![r] = None]  /\ given' = [given EXCEPT ![r] = None]
  /\ new' = [new EXCEPT ![r] = None]
  /\ todo' = [todo EXCEPT ![r] = {}]  /\ doomed' = [doomed EXCEPT ![r] = {}]

\* SMEMBERS took the snapshot T while clients held the tokens D.
Snapshot(r, p, T, D) ==
  /\ pc' = [pc EXCEPT ![r] = p] /\ UNCHANGED job
  /\ todo' = [todo EXCEPT ![r] = T] /\ doomed' = [doomed EXCEPT ![r] = D]

Swept(r, t) == todo' = [todo EXCEPT ![r] = @ \ {t}] /\ UNCHANGED <<pc, job, doomed>>

Init ==
  /\ refresh = [t \in Tokens |-> "absent"]
  /\ index = [u \in Users |-> {}]
  /\ accessIndex = [u \in Users |-> {}]
  /\ revoked = {}
  /\ resetKey = [k \in ResetKeys |-> "unsent"]
  /\ owner = [t \in Tokens |-> None]
  /\ parent = [t \in Tokens |-> None]
  /\ era = [t \in Tokens |-> 0]
  /\ password = [u \in Users |-> 0]
  /\ present = Users
  /\ pc = [r \in Requests |-> "idle"]  /\ op = [r \in Requests |-> "none"]
  /\ uid = [r \in Requests |-> None]   /\ given = [r \in Requests |-> None]
  /\ new = [r \in Requests |-> None]
  /\ todo = [r \in Requests |-> {}]    /\ doomed = [r \in Requests |-> {}]
  /\ issued = {} /\ spent = {} /\ closed = {} /\ unlisted = {} /\ stranded = {}

-----------------------------------------------------------------------------
(* POST /auth/login *)

\* The password matches the committed hash; the access token is created.
Login(r, u, t) ==
  /\ u \in present /\ Unminted(t)
  /\ Begin(r, "trackAccess", "login", u, None, t)
  /\ owner' = [owner EXCEPT ![t] = u]
  /\ era' = [era EXCEPT ![t] = password[u]]
  /\ UNCHANGED <<stores, parent, accounts, history>>

\* Mutant of TrackAccess: only a login tracks its jti, a refresh forgets to.
TrackAccessLoginOnly(r) ==
  /\ At(r, "trackAccess")
  /\ accessIndex' = [accessIndex EXCEPT ![uid[r]] = @ \cup {t \in {new[r]} : op[r] = "login"}]
  /\ Goto(r, IF op[r] = "login" THEN "setRefresh" ELSE "markUsed")
  /\ UNCHANGED <<refresh, index, revoked, birth, accounts, history>>

\* track_access_token: the jti is in the user's index before anyone sees it.
TrackAccess(r) ==
  /\ At(r, "trackAccess")
  /\ accessIndex' = [accessIndex EXCEPT ![uid[r]] = @ \cup {new[r]}]
  /\ Goto(r, IF op[r] = "login" THEN "setRefresh" ELSE "markUsed")
  /\ UNCHANGED <<refresh, index, revoked, birth, accounts, history>>

\* add_refresh_token, first half: the key itself.
SetRefresh(r) ==
  /\ At(r, "setRefresh")
  /\ refresh' = [refresh EXCEPT ![new[r]] = "live"]
  /\ Goto(r, "indexRefresh")
  /\ UNCHANGED <<index, accessIndex, revoked, birth, accounts, history>>

\* add_refresh_token, second half: SADD to the by-user index ...
IndexRefresh(r) ==
  /\ At(r, "indexRefresh")
  /\ index' = [index EXCEPT ![uid[r]] = @ \cup {new[r]}]
  /\ Goto(r, "answer")
  /\ UNCHANGED <<refresh, accessIndex, revoked, birth, accounts, history>>

\* ... and, when Redis has replied, the 200 response.
Answer(r) ==
  /\ At(r, "answer")
  /\ issued' = issued \cup {new[r]}
  /\ spent' = spent \cup ({given[r]} \ {None})
  /\ Finish(r)
  /\ UNCHANGED <<stores, birth, accounts, closed, lost>>

-----------------------------------------------------------------------------
(* POST /auth/refresh *)

\* Mutant of RefreshGet: the marker is written at once, before the user is loaded.
RefreshGetMarks(r, t) ==
  /\ t \in issued /\ refresh[t] = "live"
  /\ Begin(r, "loadUser", "refresh", owner[t], t, None)
  /\ refresh' = [refresh EXCEPT ![t] = "used"]
  /\ UNCHANGED <<index, accessIndex, revoked, birth, accounts, history>>

\* Redis GET: no key is a 401, a used marker starts the replay sweep.
RefreshGet(r, t) ==
  /\ t \in issued
  /\ \/ refresh[t] = "absent" /\ At(r, "idle") /\ UNCHANGED req
     \/ /\ refresh[t] = "live"
        /\ Begin(r, "loadUser", "refresh", owner[t], t, None)
     \/ /\ refresh[t] = "used"
        /\ Begin(r, "readIndex", "replay", owner[t], None, None)
  /\ UNCHANGED <<stores, birth, accounts, history>>

\* The user row is still there; the new access token is created.
RefreshLoadUser(r, t) ==
  /\ At(r, "loadUser")
  /\ uid[r] \in present /\ Unminted(t)
  /\ pc' = [pc EXCEPT ![r] = "trackAccess"]
  /\ new' = [new EXCEPT ![r] = t]
  /\ owner' = [owner EXCEPT ![t] = uid[r]]
  /\ era' = [era EXCEPT ![t] = era[given[r]]]
  /\ UNCHANGED <<stores, parent, accounts, history, op, uid, given, sweep>>

\* Mutant of MarkUsed: the rotation leaves the old token as it is.
MarkUsedSkipped(r) ==
  /\ At(r, "markUsed")
  /\ parent' = [parent EXCEPT ![new[r]] = given[r]]
  /\ Goto(r, "setRefresh")
  /\ UNCHANGED <<stores, owner, era, accounts, history>>

\* rotate_refresh_token: an unconditional SET of the used marker.
MarkUsed(r) ==
  /\ At(r, "markUsed")
  /\ refresh' = [refresh EXCEPT ![given[r]] = "used"]
  /\ parent' = [parent EXCEPT ![new[r]] = given[r]]
  /\ Goto(r, "setRefresh")
  /\ UNCHANGED <<index, accessIndex, revoked, owner, era, accounts, history>>

-----------------------------------------------------------------------------
(* revoke_all_for_user, then revoke_all_access_tokens_for_user *)

\* SMEMBERS of the refresh index: the snapshot the sweep will delete.  On an
\* outage the code falls back to the (empty) memory store and carries on.  Of
\* tokens that are listed no more it knows nothing.
ReadIndex(r) ==
  /\ At(r, "readIndex")
  /\ op[r] = "reset" => uid[r] \in present
  /\ \/ Snapshot(r, "sweepRefresh", index[uid[r]], IssuedTo(uid[r]) \ unlisted)
     \/ Outages /\ Snapshot(r, "sweepRefresh", {}, {})
  /\ UNCHANGED <<stores, birth, accounts, history>>

\* Mutant of SweepRefresh: the sweep ends after its first key.
SweepRefreshFirst(r, t) ==
  /\ At(r, "sweepRefresh") /\ t \in todo[r]
  /\ refresh' = [refresh EXCEPT ![t] = "absent"]
  /\ todo' = [todo EXCEPT ![r] = {}] /\ UNCHANGED <<pc, job, doomed>>
  /\ UNCHANGED <<index, accessIndex, revoked, birth, accounts, history>>

SweepRefresh(r, t) ==
  /\ At(r, "sweepRefresh") /\ t \in todo[r]
  /\ refresh' = [refresh EXCEPT ![t] = "absent"]
  /\ Swept(r, t)
  /\ UNCHANGED <<index, accessIndex, revoked, birth, accounts, history>>

\* The refresh sweep is over: SMEMBERS of the access index.
ReadAccessIndex(r) ==
  /\ At(r, "sweepRefresh") /\ todo[r] = {}
  /\ op[r] \in {"replay", "reset"}
  /\ spent' = spent \cup doomed[r]
  /\ \/ Snapshot(r, "sweepAccess", accessIndex[uid[r]], IssuedTo(uid[r]))
     \/ Outages /\ Snapshot(r, "sweepAccess", {}, {})
  /\ UNCHANGED <<stores, birth, accounts, issued, closed, lost>>

SweepAccess(r, t) ==
  /\ At(r, "sweepAccess") /\ t \in todo[r]
  /\ revoked' = revoked \cup {t}
  /\ Swept(r, t)
  /\ UNCHANGED <<refresh, index, accessIndex, birth, accounts, history>>

\* Both sweeps done: a replay answers 401, a reset commits the password.
FinishSweep(r) ==
  /\ At(r, "sweepAccess") /\ todo[r] = {}
  /\ closed' = closed \cup doomed[r]
  /\ IF op[r] = "reset"
     THEN password' = [password EXCEPT ![uid[r]] = @ + 1]
     ELSE UNCHANGED password
  /\ Finish(r)
  /\ UNCHANGED <<stores, birth, resetKey, present, issued, spent, lost>>

-----------------------------------------------------------------------------
(* POST /auth/password-reset/request and /confirm *)

RequestReset(k) ==
  /\ resetKey[k] = "unsent" /\ KeyOwner[k] \in present
  /\ resetKey' = [resetKey EXCEPT ![k] = "sent"]
  /\ UNCHANGED <<stores, birth, password, present, history, req>>

\* consume_password_reset_token: GET here, DEL in a later step.
ConfirmReset(r, k) ==
  /\ resetKey[k] = "sent"
  /\ Begin(r, "consumeReset", "reset", KeyOwner[k], k, None)
  /\ UNCHANGED <<stores, birth, accounts, history>>

ConsumeReset(r) ==
  /\ At(r, "consumeReset")
  /\ resetKey' = [resetKey EXCEPT ![given[r]] = "gone"]
  /\ Goto(r, "readIndex")
  /\ UNCHANGED <<stores, birth, password, present, history>>

-----------------------------------------------------------------------------
(* PUT /users/{id} with a password, DELETE /users/{id}, POST /auth/logout *)

\* UserService.update sweeps the refresh tokens before it flushes the hash.
UpdatePassword(r, a, u) ==
  /\ MayChange(a, u) /\ password[u] < MaxPassword
  /\ Begin(r, "readIndex", "update", u, None, None)
  /\ UNCHANGED <<stores, birth, accounts, history>>

CommitPassword(r) ==
  /\ At(r, "sweepRefresh") /\ todo[r] = {} /\ op[r] = "update"
  /\ spent' = spent \cup doomed[r]
  /\ password' = [password EXCEPT ![uid[r]] = @ + 1]
  /\ Finish(r)
  /\ UNCHANGED <<stores, birth, resetKey, present, issued, closed, lost>>

\* A soft delete: no token is touched.
DeleteUser(a, u) ==
  /\ MayChange(a, u)
  /\ present' = present \ {u}
  /\ UNCHANGED <<stores, birth, resetKey, password, history, req>>

\* The caller presents its access token a and names a key of the store: nothing
\* checks that it is a refresh token, and the index of a user is a key like one.
Logout(r, a, key) ==
  /\ Authorized(a) /\ key \in issued \cup NamedIndexes
  /\ Begin(r, "logoutDelete", "logout", owner[a], key, a)
  /\ UNCHANGED <<stores, birth, accounts, history>>

LogoutDelete(r) ==
  /\ At(r, "logoutDelete")
  /\ \/ /\ given[r] \in Tokens
        /\ refresh' = [refresh EXCEPT ![given[r]] = "absent"]
        /\ UNCHANGED <<index, unlisted>>
     \/ /\ given[r] \in Users
        /\ index' = [index EXCEPT ![given[r]] = {}]
        /\ unlisted' = unlisted \cup index[given[r]]
        /\ UNCHANGED refresh
  /\ Goto(r, "logoutRevoke")
  /\ UNCHANGED <<accessIndex, revoked, birth, accounts, issued, spent, closed, stranded>>

\* Mutant of LogoutRevoke: the jti of the wrong token is revoked.
LogoutRevokeGiven(r) ==
  /\ At(r, "logoutRevoke")
  /\ revoked' = revoked \cup ({given[r]} \cap Tokens)
  /\ spent' = spent \cup ({given[r]} \cap Tokens)
  /\ closed' = closed \cup {new[r]}
  /\ Finish(r)
  /\ UNCHANGED <<refresh, index, accessIndex, birth, accounts, issued, lost>>

LogoutRevoke(r) ==
  /\ At(r, "logoutRevoke")
  /\ revoked' = revoked \cup {new[r]}
  /\ spent' = spent \cup ({given[r]} \cap Tokens)
  /\ closed' = closed \cup {new[r]}
  /\ Finish(r)
  /\ UNCHANGED <<refresh, index, accessIndex, birth, accounts, issued, lost>>

-----------------------------------------------------------------------------
(* Failures and expiry *)

\* 404 where the handler looks the user up and the row is soft-deleted.
UserGone(r) ==
  /\ At(r, "loadUser") \/ (At(r, "readIndex") /\ op[r] = "reset")
  /\ uid[r] \notin present
  /\ Finish(r)
  /\ UNCHANGED <<stores, birth, accounts, history>>

\* Mutant of Abort: a failed rotation puts the old token back.
AbortRestores(r) ==
  /\ pc[r] # "idle"
  /\ refresh' = [t \in Tokens |-> IF t = given[r] /\ refresh[t] = "used" THEN "live" ELSE refresh[t]]
  /\ stranded' = stranded \cup {t \in Tokens : Trading(r, t)}
  /\ Finish(r)
  /\ UNCHANGED <<index, accessIndex, revoked, birth, accounts, issued, spent, closed, unlisted>>

\* TokenStoreUnavailableError, a database error, a dropped connection or a
\* crash: the request ends where it is, and what it wrote to Redis stays (a
\* write whose reply is lost: the request ends at the await after it).
Abort(r) ==
  /\ pc[r] # "idle"
  /\ stranded' = stranded \cup {t \in Tokens : Trading(r, t)}
  /\ Finish(r)
  /\ UNCHANGED <<stores, birth, accounts, issued, spent, closed, unlisted>>

\* The TTL of a refresh token or of a used marker (at most 60 s) runs out.
Lapse(t) ==
  /\ refresh[t] # "absent"
  /\ refresh' = [refresh EXCEPT ![t] = "absent"]
  /\ UNCHANGED <<index, accessIndex, revoked, birth, accounts, history, req>>

LapseKey(k) ==
  /\ resetKey[k] = "sent"
  /\ resetKey' = [resetKey EXCEPT ![k] = "gone"]
  /\ UNCHANGED <<stores, birth, password, present, history, req>>

-----------------------------------------------------------------------------
\* The next await of the request that coroutine r is serving.
Step(r) ==
  \/ TrackAccess(r) \/ MarkUsed(r) \/ SetRefresh(r) \/ IndexRefresh(r) \/ Answer(r)
  \/ \E t \in Tokens : RefreshLoadUser(r, t) \/ SweepRefresh(r, t) \/ SweepAccess(r, t)
  \/ ReadIndex(r) \/ ReadAccessIndex(r) \/ FinishSweep(r)
  \/ ConsumeReset(r) \/ CommitPassword(r)
  \/ LogoutDelete(r) \/ LogoutRevoke(r) \/ UserGone(r)

\* A client's call arrives.
Arrive(r) ==
  \/ \E u \in Users, t \in Tokens : Login(r, u, t)
  \/ \E t \in Tokens : RefreshGet(r, t)
  \/ \E a \in Tokens, u \in Users : UpdatePassword(r, a, u)
  \/ \E k \in ResetKeys : ConfirmReset(r, k)
  \/ \E a \in Tokens, key \in Tokens \cup NamedIndexes : Logout(r, a, key)

Next ==
  \/ \E r \in Requests : Step(r) \/ Arrive(r) \/ Abort(r)
  \/ \E k \in ResetKeys : RequestReset(k) \/ LapseKey(k)
  \/ \E t \in Tokens : Lapse(t) \/ \E u \in Users : DeleteUser(t, u)

Spec == Init /\ [][Next]_vars

\* Every await returns or raises: no coroutine is parked for ever.
FairSpec == Spec /\ \A r \in Requests : WF_vars(Step(r) \/ Abort(r))

-----------------------------------------------------------------------------
(* Properties *)

\* Every variable of the store, the database and the handlers keeps its shape.
TypeOK ==
  /\ refresh \in [Tokens -> {"absent", "live", "used"}]
  /\ index \in [Users -> SUBSET Tokens]
  /\ accessIndex \in [Users -> SUBSET Tokens]
  /\ revoked \in SUBSET Tokens
  /\ resetKey \in [ResetKeys -> {"unsent", "sent", "gone"}]
  /\ owner \in [Tokens -> Users \cup {None}]
  /\ parent \in [Tokens -> Tokens \cup {None}]
  /\ era \in [Tokens -> Nat]
  /\ password \in [Users -> Nat]
  /\ present \in SUBSET Users
  /\ pc \in [Requests -> Pcs]
  /\ op \in [Requests -> Ops]
  /\ uid \in [Requests -> Users \cup {None}]
  /\ given \in [Requests -> Tokens \cup ResetKeys \cup Users \cup {None}]
  /\ new \in [Requests -> Tokens \cup {None}]
  /\ todo \in [Requests -> SUBSET Tokens]
  /\ doomed \in [Requests -> SUBSET Tokens]
  /\ issued \in SUBSET Tokens /\ spent \in SUBSET Tokens /\ closed \in SUBSET Tokens
  /\ unlisted \in SUBSET Tokens /\ stranded \in SUBSET Tokens

\* What a sweep of u can reach is exactly right: every token pair a client was
\* ever handed is in both of its owner's indexes, whatever failed on the way,
\* but for the refresh tokens of an index that a logout named and deleted; and
\* no index holds another user's token (the write order of LoginUseCase.execute
\* and rotate_refresh_token: track first, answer last).
IndexComplete ==
  /\ \A t \in issued : /\ t \in accessIndex[owner[t]]
                       /\ t \in index[owner[t]] \cup unlisted
  /\ \A u \in Users : \A t \in index[u] \cup accessIndex[u] : owner[t] = u

\* A refresh token that a finished rotation, a logout, or a sweep of an index
\* that lists it retired never works again, even when a refresh of it is still in
\* flight and goes on to write its used marker over the deleted key, or the
\* sweep meets it before its client does.
SpentStaysDead == \A t \in spent : refresh[t] # "live"

\* An access token that a finished logout or sweep retired stays revoked: the
\* sweep's snapshot misses none that a client held when the sweep read it.
ClosedStaysRevoked == closed \subseteq revoked

\* Every replay alarm has a cause.  A used marker stands for a token whose client
\* was handed a successor, or is being served one (so that who presents it again
\* uses it twice), or was left without by a failure between the marker and the
\* answer: only then is a retry taken for a replay.
AlarmsHaveCause ==
  \A t \in Tokens : refresh[t] = "used" =>
    \/ \E s \in issued : parent[s] = t /\ owner[s] = owner[t]
    \/ \E r \in Requests : Trading(r, t)
    \/ t \in stranded

\* The test of rotation says refresh tokens are single-use: two sessions never
\* descend from the same refresh token.
SingleUse == \A s, t \in issued : parent[s] = parent[t] /\ parent[s] # None => s = t

\* The comment in ConfirmPasswordResetUseCase says all refresh tokens are
\* revoked: when the new password is committed, no session signed in with the
\* old one is alive.
OldPasswordSessionsEnd ==
  [][\A r \in Requests : FinishSweep(r) /\ op[r] = "reset" =>
       \A t \in IssuedTo(uid[r]) \ unlisted :
         refresh[t] = "live" => era[t] = password'[owner[t]]]_vars

-----------------------------------------------------------------------------
(* The inductive invariant behind the safety properties *)

\* What a request relies on at each await, whatever ran since the last one.
Coherent(r) ==
  /\ pc[r] \notin {"sweepRefresh", "sweepAccess"} => doomed[r] = {}
  /\ pc[r] # "idle" => uid[r] \in Users
  /\ pc[r] \in MintPcs =>
       /\ new[r] \in Tokens \ issued
       /\ owner[new[r]] = uid[r]
       /\ \/ op[r] = "login" /\ given[r] = None
          \/ op[r] = "refresh" /\ given[r] \in issued /\ owner[given[r]] = uid[r]
  /\ pc[r] = "markUsed" => op[r] = "refresh"
  /\ pc[r] \in MintPcs \ {"indexRefresh", "answer"} => refresh[new[r]] = "absent"
  /\ pc[r] \in MintPcs \ {"trackAccess"} => new[r] \in accessIndex[uid[r]]
  /\ pc[r] = "answer" => new[r] \in index[uid[r]] \cup unlisted
  /\ pc[r] \in {"setRefresh", "indexRefresh", "answer"} /\ op[r] = "refresh" =>
       refresh[given[r]] # "live" /\ parent[new[r]] = given[r]
  /\ pc[r] = "loadUser" => op[r] = "refresh" /\ given[r] \in issued /\ owner[given[r]] = uid[r]
  /\ pc[r] \in {"logoutDelete", "logoutRevoke"} => given[r] \in issued \cup Users /\ new[r] \in issued
  /\ pc[r] = "logoutRevoke" /\ given[r] \in Tokens => refresh[given[r]] # "live"
  /\ pc[r] = "consumeReset" => given[r] \in ResetKeys
  /\ pc[r] \in {"sweepRefresh", "sweepAccess"} => doomed[r] \subseteq issued
  /\ pc[r] = "sweepRefresh" => \A t \in doomed[r] : t \in todo[r] \/ refresh[t] # "live"
  /\ pc[r] = "sweepAccess" => doomed[r] \subseteq todo[r] \cup revoked

RequestInv == \A r \in Requests : Coherent(r)

\* No two requests mint the same token.
MintsDiffer ==
  \A r, s \in Requests :
    r # s /\ pc[r] \in MintPcs /\ pc[s] \in MintPcs => new[r] # new[s]

BirthInv == /\ \A t \in Tokens : Unminted(t) => refresh[t] = "absent"
            /\ \A t \in issued : owner[t] \in Users
            /\ spent \cup closed \subseteq issued

\* Inductive: the stores, the births and the requests in flight agree.
IInv == /\ TypeOK /\ RequestInv /\ MintsDiffer /\ BirthInv
        /\ IndexComplete /\ SpentStaysDead /\ ClosedStaysRevoked /\ AlarmsHaveCause

-----------------------------------------------------------------------------
(* The abstract specification this one implements *)

SessionPhase == [t \in Tokens |-> IF t \notin issued THEN "none"
                                 ELSE IF refresh[t] = "live" THEN "open" ELSE "ended"]
AccessPhase  == [t \in Tokens |-> IF t \notin issued THEN "none"
                                 ELSE IF t \in revoked THEN "ended" ELSE "open"]

Contract == INSTANCE SessionContract WITH session <- SessionPhase, access <- AccessPhase

\* The handlers, with all their interleavings and failures, implement the
\* contract: tokens are handed out once and an ended half never comes back.
ImplementsContract == Contract!Spec

=============================================================================
