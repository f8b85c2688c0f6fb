---------------------------- MODULE Administrators ----------------------------
(***************************************************************************)
(* Who is an administrator: PATCH /admin/users/{id}/role, the bulk PATCH   *)
(* /admin/users/roles, and the two routes that change an account without   *)
(* counting administrators, DELETE and PUT /users/{id}.                    *)
(*                                                                         *)
(* A request is one READ COMMITTED transaction that get_db commits after   *)
(* the handler.  The session's identity map keeps a role as it was first   *)
(* loaded, and an UPDATE is written only where the role differs from that. *)
(* An editor is one such request, made at most once.                       *)
(***************************************************************************)
EXTENDS Naturals, Sequences, FiniteSets, Functions, RowLocks

CONSTANTS Accounts, Editors,
          Singles,     \* the updates [user, role] sent alone
          Edits,       \* the bulk payloads: sequences of them
          SoleChoices  \* for the initial state: which accounts have the admin
                       \* role as their only user_roles row

ASSUME AdministratorsAssumption ==
  /\ None \notin Accounts \cup Editors \cup {"admin", "user", "gone"}
  /\ Singles \subseteq [user : Accounts, role : {"admin", "user"}]
  \* an empty bulk writes nothing, and is left out
  /\ Edits \subseteq Seq([user : Accounts, role : {"admin", "user"}]) \ {<<>>}
  /\ IsFiniteSet(Accounts)
  /\ SoleChoices \subseteq SUBSET Accounts

VARIABLES
  roleOf,    \* committed users.role, "gone" once deleted_at is set
  rowOf,     \* the editor whose open transaction wrote the row
  sole,      \* accounts whose only user_roles row is the admin role
  epc, edit, \* an editor's next await, and its updates
  bulk,      \* editors in the bulk route
  at,        \* the update it is at
  seen,      \* its identity map: the role of each account it has loaded
  wrote,     \* the roles its transaction has written
  tally,     \* what its count of administrators returned, less the demotions
             \* and plus the promotions scanned so far
  excuses    \* history: why no administrator may be left

evars == <<roleOf, rowOf, sole, epc, edit, bulk, at, seen, wrote, tally, excuses>>
tx    == <<edit, bulk, seen, wrote>>
fixed == <<roleOf, sole, excuses>>

Admins      == {u \in Accounts : roleOf[u] = "admin"}
Entry(r)    == edit[r][at[r]]
Bulk(r)     == r \in bulk
IsSole(r)   == r \in bulk /\ edit[r][at[r]].user \in sole
Blank       == [u \in Accounts |-> None]
EGoto(r, p) == epc' = [epc EXCEPT ![r] = p]
\* What a SELECT in the transaction of r returns: its own write, or the committed row.
Row(r, u)   == IF wrote[r][u] # None /\ roleOf[u] # "gone" THEN wrote[r][u] ELSE roleOf[u]
\* The identity map after a SELECT of u that does not refresh it.
Load(r, u)  == IF seen[r][u] = None THEN roleOf[u] ELSE seen[r][u]

EditEnds(r) ==
  /\ EGoto(r, "done") /\ at' = [at EXCEPT ![r] = 1] /\ tally' = [tally EXCEPT ![r] = 0]
  /\ edit' = [edit EXCEPT ![r] = <<>>] /\ bulk' = bulk \ {r}
  /\ seen' = [seen EXCEPT ![r] = Blank] /\ wrote' = [wrote EXCEPT ![r] = Blank]
  /\ rowOf' = [u \in Accounts |-> IF rowOf[u] = r THEN None ELSE rowOf[u]]

AdminsInit ==
  /\ roleOf \in {f \in [Accounts -> {"admin", "user"}] : \E u \in Accounts : f[u] = "admin"}
  /\ sole \in SoleChoices /\ bulk = {}
  /\ rowOf = Blank /\ epc = [r \in Editors |-> "new"] /\ edit = [r \in Editors |-> <<>>]
  /\ at = [r \in Editors |-> 1] /\ tally = [r \in Editors |-> 0] /\ excuses = {}
  /\ seen = [r \in Editors |-> Blank] /\ wrote = [r \in Editors |-> Blank]

-----------------------------------------------------------------------------
\* An administrator sends one update, or a bulk of them.
EditStarts(r, s, p) ==
  /\ epc[r] = "new" /\ EGoto(r, p) /\ edit' = [edit EXCEPT ![r] = s]
  /\ excuses' = excuses
       \cup {x \in {"overlap"} : \E q \in Editors : epc[q] \notin {"new", "done"}}
       \cup {x \in {"repeat"} : ~IsInjective([i \in DOMAIN s |-> s[i].user])}
  /\ UNCHANGED <<roleOf, rowOf, sole, at, seen, wrote, tally>>

SetUserRole(r, e)      == EditStarts(r, <<e>>, "load") /\ UNCHANGED bulk
BulkSetUserRoles(r, s) == EditStarts(r, s, "tally") /\ bulk' = bulk \cup {r}

\* set_user_role loads the account; a deleted one is a 404.
LoadUser(r) ==
  /\ epc[r] = "load"
  /\ IF roleOf[Entry(r).user] = "gone" THEN EditEnds(r)
     ELSE /\ seen' = [seen EXCEPT ![r][Entry(r).user] = roleOf[Entry(r).user]]
          /\ EGoto(r, IF roleOf[Entry(r).user] = "admin" /\ Entry(r).role # "admin"
                      THEN "count" ELSE "write")
          /\ UNCHANGED <<edit, bulk, wrote, at, tally, rowOf>>
  /\ UNCHANGED fixed

\* Mutant of CountAdmins: the administrator about to go is not counted.
CountOthers(r) ==
  /\ epc[r] = "count"
  /\ IF Cardinality(Admins) = 0 THEN EditEnds(r)
     ELSE EGoto(r, "write") /\ UNCHANGED <<tx, at, tally, rowOf>>
  /\ UNCHANGED fixed

\* Before a demotion it counts the administrators; the only one stays (403).
CountAdmins(r) ==
  /\ epc[r] = "count"
  /\ IF Cardinality(Admins) = 1 THEN EditEnds(r)
     ELSE EGoto(r, "write") /\ UNCHANGED <<tx, at, tally, rowOf>>
  /\ UNCHANGED fixed

\* bulk_set_user_roles counts the administrators once, up front.
Tally(r) ==
  /\ epc[r] = "tally" /\ EGoto(r, "scan")
  /\ tally' = [tally EXCEPT ![r] = Cardinality(Admins)]
  /\ UNCHANGED <<fixed, rowOf, tx, at>>

\* It loads each account, and adds up promotions and demotions; after the last
\* one it gives up if the sum leaves nobody.
Scan(r) ==
  /\ epc[r] = "scan"
  /\ LET u == Entry(r).user
         old == Load(r, u)
         change == IF roleOf[u] = "gone" \/ old = Entry(r).role THEN 0
                   ELSE IF old = "admin" THEN -1 ELSE 1
         sum == tally[r] + change
     IN IF at[r] < Len(edit[r])
        THEN /\ at' = [at EXCEPT ![r] = @ + 1] /\ tally' = [tally EXCEPT ![r] = sum]
             /\ seen' = [seen EXCEPT ![r][u] = old]
             /\ UNCHANGED <<edit, bulk, wrote, epc, rowOf>>
        ELSE IF sum < 1 THEN EditEnds(r)
        ELSE /\ at' = [at EXCEPT ![r] = 1] /\ tally' = [tally EXCEPT ![r] = 0]
             /\ seen' = [seen EXCEPT ![r][u] = old]
             /\ EGoto(r, "write") /\ UNCHANGED <<edit, bulk, wrote, rowOf>>
  /\ UNCHANGED fixed

NextUpdate(r) ==
  /\ at' = [at EXCEPT ![r] = IF @ < Len(edit[r]) THEN @ + 1 ELSE @]
  /\ EGoto(r, IF at[r] < Len(edit[r]) THEN "write" ELSE "commit")

\* ensure_admins_remain refuses, in a bulk, any account whose only assignment
\* is the admin role; nothing catches the error and get_db rolls back.
RefuseSole(r) ==
  /\ epc[r] = "write" /\ IsSole(r) /\ Row(r, Entry(r).user) # "gone" /\ EditEnds(r)
  /\ UNCHANGED fixed

\* A bulk skips an account deleted since; a role equal to the loaded one is not
\* written, and the refresh brings the row as it is.
SkipUpdate(r) ==
  /\ epc[r] = "write" /\ (IsSole(r) => Row(r, Entry(r).user) = "gone")
  /\ LET u == Entry(r).user
     IN /\ (Bulk(r) /\ Row(r, u) = "gone") \/ Load(r, u) = Entry(r).role
        /\ seen' = [seen EXCEPT ![r][u] = Row(r, u)]
  /\ NextUpdate(r)
  /\ UNCHANGED <<fixed, rowOf, edit, bulk, wrote, tally>>

\* The UPDATE waits for the row, whatever the row has become.
WriteRole(r) ==
  /\ epc[r] = "write" /\ ~IsSole(r)
  /\ LET u == Entry(r).user
     IN /\ ~(Bulk(r) /\ Row(r, u) = "gone") /\ Load(r, u) # Entry(r).role
        /\ rowOf[u] \in {None, r} /\ rowOf' = [rowOf EXCEPT ![u] = r]
        /\ wrote' = [wrote EXCEPT ![r][u] = Entry(r).role]
        /\ seen' = [seen EXCEPT ![r][u] = Entry(r).role]
  /\ NextUpdate(r)
  /\ UNCHANGED <<fixed, edit, bulk, tally>>

\* get_db commits.
CommitRoles(r) ==
  /\ epc[r] = "commit" /\ EditEnds(r)
  /\ roleOf' = [u \in Accounts |-> Row(r, u)]
  /\ UNCHANGED <<sole, excuses>>

\* Mutant of AbortEdit: a cycle of waits is not broken.
AbortNever(r, wait) == FALSE /\ wait = wait /\ EditEnds(r) /\ UNCHANGED fixed

\* PostgreSQL aborts one of the transactions that wait for each other.
AbortEdit(r, wait) == Deadlocked(r, wait) /\ EditEnds(r) /\ UNCHANGED fixed

\* Whom r waits for: the writer of the row it is about to write.
EditWaits ==
  [r \in Editors |->
     IF /\ epc[r] = "write" /\ rowOf[Entry(r).user] # r
        /\ Load(r, Entry(r).user) # Entry(r).role /\ ~IsSole(r)
     THEN rowOf[Entry(r).user] ELSE None]

\* DELETE /users/{id}, by the account itself or a superuser, and PUT /users/{id}
\* by a superuser: neither looks at who is left.  Bound: one of these.
DeleteUser(u) ==
  /\ roleOf[u] # "gone" /\ rowOf[u] = None /\ "unguarded" \notin excuses
  /\ roleOf' = [roleOf EXCEPT ![u] = "gone"] /\ excuses' = excuses \cup {"unguarded"}
  /\ UNCHANGED <<rowOf, sole, epc, tx, at, tally>>

UpdateUser(u, role) ==
  /\ roleOf[u] \notin {"gone", role} /\ rowOf[u] = None /\ "unguarded" \notin excuses
  /\ roleOf' = [roleOf EXCEPT ![u] = role] /\ excuses' = excuses \cup {"unguarded"}
  /\ UNCHANGED <<rowOf, sole, epc, tx, at, tally>>

EditStep(r) == \/ LoadUser(r) \/ CountAdmins(r) \/ Tally(r) \/ Scan(r) \/ RefuseSole(r)
               \/ SkipUpdate(r) \/ WriteRole(r) \/ CommitRoles(r) \/ AbortEdit(r, EditWaits)

AdminsNext ==
  \/ \E r \in Editors : \/ EditStep(r) \/ \E e \in Singles : SetUserRole(r, e)
                        \/ \E s \in Edits : BulkSetUserRoles(r, s)
  \/ \E u \in Accounts : DeleteUser(u) \/ \E role \in {"admin", "user"} : UpdateUser(u, role)

AdminsSpec == AdminsInit /\ [][AdminsNext]_evars

-----------------------------------------------------------------------------
\* The roles, the row locks and the editors keep their shape.
AdminsTypeOK ==
  /\ roleOf \in [Accounts -> {"admin", "user", "gone"}]
  /\ rowOf \in [Accounts -> Editors \cup {None}]
  /\ sole \subseteq Accounts /\ bulk \subseteq Editors
  /\ epc \in [Editors -> {"new", "done", "load", "count", "tally", "scan", "write", "commit"}]
  /\ \A r \in Editors : at[r] \in 1..(Len(edit[r]) + 1)
  /\ seen \in [Editors -> [Accounts -> {"admin", "user", "gone", None}]]
  /\ wrote \in [Editors -> [Accounts -> {"admin", "user", None}]]
  /\ excuses \subseteq {"overlap", "repeat", "unguarded"}

\* An administrator is left, whatever sequence of role changes is sent, as long
\* as no two of them overlap, no bulk names an account twice, and nobody uses
\* the routes that do not count.
KeepsAnAdmin == excuses = {} => Admins # {}

\* The test of roles asserts that the API prevents removing the last admin role:
\* no role change leaves the system without an administrator.
LastAdminStays == "unguarded" \in excuses \/ Admins # {}

\* A role change ends, though it may wait for rows that others have written.
EditsEnd == \A r \in Editors : []<>(epc[r] \in {"new", "done"})
=============================================================================
