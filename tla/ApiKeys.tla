-------------------------------- MODULE ApiKeys --------------------------------
(***************************************************************************)
(* API keys: issued and revoked by their owner, and used, with an          *)
(* X-API-Key header, in place of a token; a key may revoke another.  A     *)
(* request is one transaction.  A key that authenticates it is touched:    *)
(* last_used_at is written and flushed, so its row is locked, against all  *)
(* other requests with that key, until the request commits.                *)
(*                                                                         *)
(* A request reads a key before it may have to wait for the row, and then  *)
(* writes the one column it has changed.  It is made at most once.         *)
(***************************************************************************)
EXTENDS RowLocks

CONSTANTS ApiKeySet, Requests

ASSUME ApiKeysAssumption == None \notin ApiKeySet \cup Requests

Columns == {"issued", "used", "revoked"}

VARIABLES
  keyRow,           \* the columns that are set, of each row of api_keys
  expired,          \* keys whose expires_at has passed
  keyLock,          \* the request whose transaction wrote the row
  qpc,              \* where a request is, or how it ended
  via, target,      \* the key it came with, the key it is to revoke
  writes,           \* what its transaction has written: <<key, column, value>>
  deadAtStart,      \* history: requests whose key was revoked or expired when
                    \* they were sent
  everRevoked       \* history: keys a committed request has revoked

qvars == <<keyRow, expired, keyLock, qpc, via, target, writes, deadAtStart, everRevoked>>

Dead(k)     == "revoked" \in keyRow[k] \/ k \in expired
QGoto(r, p) == qpc' = [qpc EXCEPT ![r] = p]
\* The end of a transaction: its locks are released.
Releases(r, p) ==
  /\ QGoto(r, p) /\ writes' = [writes EXCEPT ![r] = {}]
  /\ keyLock' = [k \in ApiKeySet |-> IF keyLock[k] = r THEN None ELSE keyLock[k]]
Rolls(r, p) == Releases(r, p) /\ UNCHANGED <<keyRow, expired, via, target, deadAtStart, everRevoked>>

ApiKeysInit ==
  /\ keyRow \in [ApiKeySet -> {{}, {"issued"}}] /\ expired = {} /\ keyLock = [k \in ApiKeySet |-> None]
  /\ qpc = [r \in Requests |-> "new"] /\ writes = [r \in Requests |-> {}]
  /\ via = [r \in Requests |-> None] /\ target = [r \in Requests |-> None]
  /\ deadAtStart = {} /\ everRevoked = {}

-----------------------------------------------------------------------------
\* ApiKeyService.issue, for a user with a token: a new row.
IssueKey(r, k) ==
  /\ qpc[r] = "new" /\ keyRow[k] = {} /\ keyLock[k] = None
  /\ QGoto(r, "commit") /\ keyLock' = [keyLock EXCEPT ![k] = r]
  /\ writes' = [writes EXCEPT ![r] = {<<k, "issued", TRUE>>}]
  /\ UNCHANGED <<keyRow, expired, via, target, deadAtStart, everRevoked>>

\* A request comes with key v, or with a token; to revoke key t, or for any
\* other route.
Arrives(r, v, t) ==
  /\ qpc[r] = "new" /\ <<v, t>> # <<None, None>>
  /\ via' = [via EXCEPT ![r] = v] /\ target' = [target EXCEPT ![r] = t]
  /\ QGoto(r, IF v = None THEN "find" ELSE "load")
  /\ deadAtStart' = deadAtStart \cup {q \in {r} : v # None /\ Dead(v)}
  /\ UNCHANGED <<keyRow, expired, keyLock, writes, everRevoked>>

\* authenticate reads the key: 401 if it is not there, revoked or expired, or if
\* its owner is gone or not active.
LoadKey(r) ==
  /\ qpc[r] = "load"
  /\ \/ "issued" \in keyRow[via[r]] /\ ~Dead(via[r]) /\ QGoto(r, "touch")
     \/ QGoto(r, "refused")
  /\ UNCHANGED <<keyRow, expired, keyLock, via, target, writes, deadAtStart, everRevoked>>

\* Mutant of TouchKey: the whole row is written as it was read.
TouchRow(r) ==
  /\ qpc[r] = "touch" /\ keyLock[via[r]] = None
  /\ keyLock' = [keyLock EXCEPT ![via[r]] = r]
  /\ writes' = [writes EXCEPT ![r] = {<<via[r], "used", TRUE>>, <<via[r], "revoked", FALSE>>}]
  /\ QGoto(r, IF target[r] = None THEN "commit" ELSE "find")
  /\ UNCHANGED <<keyRow, expired, via, target, deadAtStart, everRevoked>>

\* touch_last_used
TouchKey(r) ==
  /\ qpc[r] = "touch" /\ keyLock[via[r]] = None
  /\ keyLock' = [keyLock EXCEPT ![via[r]] = r]
  /\ writes' = [writes EXCEPT ![r] = {<<via[r], "used", TRUE>>}]
  /\ QGoto(r, IF target[r] = None THEN "commit" ELSE "find")
  /\ UNCHANGED <<keyRow, expired, via, target, deadAtStart, everRevoked>>

\* revoke_key finds the key, and that it is the caller's own: a 404 if not.
FindTarget(r) ==
  /\ qpc[r] = "find"
  /\ \/ "issued" \in keyRow[target[r]] /\ QGoto(r, "mark")
        /\ UNCHANGED <<keyRow, expired, keyLock, via, target, writes, deadAtStart, everRevoked>>
     \/ Rolls(r, "refused")

\* revoked_at is written and flushed.
MarkRevoked(r) ==
  /\ qpc[r] = "mark" /\ keyLock[target[r]] \in {None, r}
  /\ keyLock' = [keyLock EXCEPT ![target[r]] = r]
  /\ writes' = [writes EXCEPT ![r] = @ \cup {<<target[r], "revoked", TRUE>>}]
  /\ QGoto(r, "commit")
  /\ UNCHANGED <<keyRow, expired, via, target, deadAtStart, everRevoked>>

\* get_db commits: the columns written take their values, and no others.
CommitRequest(r) ==
  /\ qpc[r] = "commit" /\ Releases(r, "served")
  /\ keyRow' = [k \in ApiKeySet |->
                  {c \in Columns : IF c \in keyRow[k] THEN <<k, c, FALSE>> \notin writes[r]
                                                      ELSE <<k, c, TRUE>> \in writes[r]}]
  /\ everRevoked' = everRevoked \cup {k \in ApiKeySet : <<k, "revoked", TRUE>> \in writes[r]}
  /\ UNCHANGED <<expired, via, target, deadAtStart>>

\* The handler fails, and get_db rolls back.
FailRequest(r) == qpc[r] = "commit" /\ Rolls(r, "failed")

\* Whom a request waits for.
KeyWaits ==
  [r \in Requests |-> CASE qpc[r] = "touch" -> keyLock[via[r]]
                        [] qpc[r] = "mark" /\ keyLock[target[r]] # r -> keyLock[target[r]]
                        [] OTHER -> None]

\* Two keys that revoke each other: PostgreSQL aborts one of the requests.
AbortRequest(r) == Deadlocked(r, KeyWaits) /\ Rolls(r, "failed")

ExpireKey(k) ==
  /\ "issued" \in keyRow[k] /\ k \notin expired /\ expired' = expired \cup {k}
  /\ UNCHANGED <<keyRow, keyLock, qpc, via, target, writes, deadAtStart, everRevoked>>

RequestStep(r) == \/ LoadKey(r) \/ TouchKey(r) \/ FindTarget(r) \/ MarkRevoked(r)
                  \/ CommitRequest(r) \/ AbortRequest(r)

ApiKeysNext ==
  \/ \E r \in Requests : \/ RequestStep(r) \/ FailRequest(r) \/ \E k \in ApiKeySet : IssueKey(r, k)
                         \/ \E v, t \in ApiKeySet \cup {None} : Arrives(r, v, t)
  \/ \E k \in ApiKeySet : ExpireKey(k)

ApiKeysSpec == ApiKeysInit /\ [][ApiKeysNext]_qvars

-----------------------------------------------------------------------------
\* The rows, the locks and the requests keep their shape.
ApiKeysTypeOK ==
  /\ keyRow \in [ApiKeySet -> SUBSET Columns] /\ expired \subseteq ApiKeySet
  /\ keyLock \in [ApiKeySet -> Requests \cup {None}]
  /\ qpc \in [Requests -> {"new", "load", "touch", "find", "mark", "commit",
                           "served", "refused", "failed"}]
  /\ via \in [Requests -> ApiKeySet \cup {None}] /\ target \in [Requests -> ApiKeySet \cup {None}]
  /\ writes \in [Requests -> SUBSET (ApiKeySet \X Columns \X BOOLEAN)]
  /\ deadAtStart \subseteq Requests /\ everRevoked \subseteq ApiKeySet

\* A revocation lasts: a revoked key stays revoked, although requests that read
\* it before may write its row after, and no request sent with a revoked or
\* expired key is served.
RevokedIsRefused ==
  /\ \A k \in everRevoked : "revoked" \in keyRow[k]
  /\ \A r \in deadAtStart : qpc[r] # "served"

\* A request ends, though it may wait for others that came with the same key.
RequestsEnd == \A r \in Requests : []<>(qpc[r] \in {"new", "served", "refused", "failed"})
=============================================================================
