-------------------------------- MODULE Grants --------------------------------
(***************************************************************************)
(* PUT /admin/roles/{id}/permissions and POST /admin/users/{id}/roles.     *)
(* Each replaces the rows of one owner, a role or a user, in a link table: *)
(* it asks whether the caller may give what it gives, deletes the owner's  *)
(* rows, inserts the new ones and commits.  A request (a granter) is made  *)
(* at most once.                                                           *)
(*                                                                         *)
(* The transactions are READ COMMITTED.  The DELETE takes the rows its     *)
(* snapshot shows, and waits for a transaction that is deleting one of     *)
(* them; an INSERT waits for an open transaction that inserted or deleted  *)
(* the same row, and fails if the row is there.                            *)
(***************************************************************************)
EXTENDS Naturals, FiniteSets, RowLocks

CONSTANTS Roles, Members, Permissions, AdminRole, Manage, Granters,
          Root,   \* a caller with is_superuser
          Puts    \* the payloads: records [owner, items]

Owners == Roles \cup Members
Items  == Roles \cup Permissions

ASSUME GrantsAssumption ==
  /\ AdminRole \in Roles /\ Manage \in Permissions /\ Root \notin Members
  /\ Roles \cap Members = {}
  /\ None \notin Owners \cup Items \cup Granters \cup {Root}
  /\ \A p \in Puts : \/ p.owner \in Roles /\ p.items \subseteq Permissions
                     \/ p.owner \in Members /\ p.items \subseteq Roles

VARIABLES
  links,            \* role_permissions and user_roles, committed
  gpc, caller, put, \* a granter's next await, its user and its payload
  ask,              \* permissions it still has to check
  snap, gone,       \* rows its DELETE saw, and those it deleted
  added,            \* rows it inserted
  lastPut, mixed    \* history: the payload last committed for an owner, and
                    \* owners of whom two replacements overlapped

gvars == <<links, gpc, caller, put, ask, snap, gone, added, lastPut, mixed>>
gtx   == <<snap, gone, added>>

GGoto(r, p) == gpc' = [gpc EXCEPT ![r] = p]
Owner(r)    == put[r].owner
InTx(r)     == gpc[r] \in {"lock", "insert", "commit"}
Rivals(r)   == {q \in Granters \ {r} : InTx(q) /\ Owner(q) = Owner(r)}

\* user_has_permission: no row, one row, or scalar_one_or_none raises.
Granting(u, x) == {role \in links[u] : x \in links[role]}
Has(u, x)      == u = Root \/ Cardinality(Granting(u, x)) = 1

GrantEnds(r) ==
  /\ GGoto(r, "done")
  /\ ask' = [ask EXCEPT ![r] = {}]   /\ snap' = [snap EXCEPT ![r] = {}]
  /\ gone' = [gone EXCEPT ![r] = {}] /\ added' = [added EXCEPT ![r] = {}]
GrantFails(r) == GrantEnds(r) /\ UNCHANGED <<links, caller, put, lastPut, mixed>>

GrantsInit ==
  /\ links \in {f \in [Owners -> SUBSET Items] :
                  /\ \A o \in Roles : f[o] = IF o = AdminRole THEN {Manage} ELSE {}
                  /\ \A o \in Members : f[o] \in {{}, {AdminRole}}}
  /\ gpc = [r \in Granters |-> "new"]
  /\ caller = [r \in Granters |-> None] /\ put = [r \in Granters |-> None]
  /\ ask = [r \in Granters |-> {}] /\ snap = [r \in Granters |-> {}]
  /\ gone = [r \in Granters |-> {}] /\ added = [r \in Granters |-> {}]
  /\ lastPut = [o \in Owners |-> None] /\ mixed = {}

-----------------------------------------------------------------------------
\* require_permission("rbac.manage"), before the handler.
GrantStarts(r, u, p) ==
  /\ gpc[r] = "new"
  /\ caller' = [caller EXCEPT ![r] = u] /\ put' = [put EXCEPT ![r] = p]
  /\ GGoto(r, IF Has(u, Manage) THEN "scope" ELSE "done")
  /\ UNCHANGED <<links, ask, gtx, lastPut, mixed>>

\* validate_assignment_scope asks for rbac.manage again, ensure_admins_remain
\* refuses a user whose only role is admin, and the keys the payload stands for
\* are read: the permissions given, or those of the roles given.
Scope(r) ==
  /\ gpc[r] = "scope"
  /\ IF Has(caller[r], Manage) /\ (Owner(r) \in Members => links[Owner(r)] # {AdminRole})
     THEN /\ GGoto(r, "ask") /\ UNCHANGED <<links, caller, put, gtx, lastPut, mixed>>
          /\ ask' = [ask EXCEPT ![r] =
                 IF caller[r] = Root THEN {}
                 ELSE IF Owner(r) \in Roles THEN put[r].items
                 ELSE UNION {links[role] : role \in put[r].items}]
     ELSE GrantFails(r)

\* user_has_all_permissions asks for one key after the other.
Ask(r, x) ==
  /\ gpc[r] = "ask" /\ x \in ask[r]
  /\ IF Has(caller[r], x)
     THEN /\ ask' = [ask EXCEPT ![r] = @ \ {x}]
          /\ UNCHANGED <<links, gpc, caller, put, gtx, lastPut, mixed>>
     ELSE GrantFails(r)

\* Mutant of DeleteLinks: the rows are those read when the scope was checked.
DeleteNothing(r) ==
  /\ gpc[r] = "ask" /\ ask[r] = {} /\ GGoto(r, "lock")
  /\ mixed' = mixed \cup {o \in {Owner(r)} : Rivals(r) # {}}
  /\ UNCHANGED <<links, caller, put, ask, snap, gone, added, lastPut>>

\* DELETE: the snapshot of the statement.
DeleteLinks(r) ==
  /\ gpc[r] = "ask" /\ ask[r] = {} /\ GGoto(r, "lock")
  /\ snap' = [snap EXCEPT ![r] = links[Owner(r)]]
  /\ mixed' = mixed \cup {o \in {Owner(r)} : Rivals(r) # {}}
  /\ UNCHANGED <<links, caller, put, ask, gone, added, lastPut>>

\* DELETE: the rows are locked, and those another transaction has deleted skipped.
LockLinks(r) ==
  /\ gpc[r] = "lock" /\ \A q \in Rivals(r) : gone[q] \cap snap[r] = {}
  /\ gone' = [gone EXCEPT ![r] = snap[r]] /\ GGoto(r, "insert")
  /\ UNCHANGED <<links, caller, put, ask, snap, added, lastPut, mixed>>

\* The rivals whose open transaction holds row x.
Holders(r, x) == {q \in Rivals(r) : x \in added[q] \cup gone[q]}
Missing(r)    == put[r].items \ added[r]

\* INSERT one row, at the commit; a row that is there is an IntegrityError (409).
InsertLink(r, x) ==
  /\ gpc[r] = "insert" /\ x \in Missing(r) /\ Holders(r, x) = {}
  /\ IF x \in links[Owner(r)] \ gone[r] THEN GrantFails(r)
     ELSE /\ added' = [added EXCEPT ![r] = @ \cup {x}]
          /\ UNCHANGED <<links, gpc, caller, put, ask, snap, gone, lastPut, mixed>>

\* COMMIT: the rows it deleted are no longer there for those that wait.
CommitGrant(r) ==
  /\ gpc[r] = "insert" /\ Missing(r) = {}
  /\ links' = [links EXCEPT ![Owner(r)] = (@ \ gone[r]) \cup added[r]]
  /\ lastPut' = [lastPut EXCEPT ![Owner(r)] = put[r].items]
  /\ GGoto(r, "done") /\ added' = [added EXCEPT ![r] = {}] /\ gone' = [gone EXCEPT ![r] = {}]
  /\ snap' = [q \in Granters |-> IF q = r THEN {}
                                 ELSE IF q \in Rivals(r) THEN snap[q] \ gone[r] ELSE snap[q]]
  /\ UNCHANGED <<caller, put, ask, mixed>>

\* Whom a granter waits for, if for anyone.
GrantWaits ==
  [r \in Granters |->
     LET W == CASE gpc[r] = "lock" -> {q \in Rivals(r) : gone[q] \cap snap[r] # {}}
                [] gpc[r] = "insert" -> UNION {Holders(r, x) : x \in Missing(r)}
                [] OTHER -> {}
     IN IF W = {} THEN None ELSE CHOOSE q \in W : TRUE]

\* PostgreSQL aborts one of the transactions that wait for each other.
AbortGrant(r) == Deadlocked(r, GrantWaits) /\ GrantFails(r)

GrantStep(r) == \/ Scope(r) \/ (\E x \in Permissions : Ask(r, x)) \/ DeleteLinks(r) \/ LockLinks(r)
                \/ (\E x \in Items : InsertLink(r, x)) \/ CommitGrant(r) \/ AbortGrant(r)

GrantsNext == \E r \in Granters : GrantStep(r) \/ \E u \in Members \cup {Root}, p \in Puts : GrantStarts(r, u, p)

GrantsSpec == GrantsInit /\ [][GrantsNext]_gvars

-----------------------------------------------------------------------------
\* The link tables and the granters keep their shape.
GrantsTypeOK ==
  /\ links \in [Owners -> SUBSET Items]
  /\ gpc \in [Granters -> {"new", "scope", "ask", "lock", "insert", "done"}]
  /\ caller \in [Granters -> Members \cup {Root, None}]
  /\ put \in [Granters -> Puts \cup {None}] /\ ask \in [Granters -> SUBSET Permissions]
  /\ snap \in [Granters -> SUBSET Items] /\ gone \in [Granters -> SUBSET Items]
  /\ added \in [Granters -> SUBSET Items] /\ mixed \subseteq Owners
  /\ lastPut \in [Owners -> (SUBSET Items) \cup {None}]

\* set_role_permissions and assign_roles_to_user replace: what the latest of them
\* gave is all there, and nothing else is unless two of them overlapped.
PutsReplace ==
  \A o \in Owners : lastPut[o] # None =>
    lastPut[o] \subseteq links[o] /\ (links[o] = lastPut[o] \/ o \in mixed)

\* A replacement ends, though it may wait for another of the same owner.
GrantsEnd == \A r \in Granters : []<>(gpc[r] \in {"new", "done"})
=============================================================================
