------------------------------- MODULE Catalog -------------------------------
(***************************************************************************)
(* Rows that are unique by key, and the routes that add them: create_role  *)
(* and create_permission look first and return what is there;              *)
(* create_feature and create_plan insert and leave it to the unique key;   *)
(* map_plan_features adds the features a plan lacks, and links them to it. *)
(* A request (a maker) is made at most once and is one transaction.        *)
(*                                                                         *)
(* One table of keys stands for the four, and one plan for all.  An INSERT *)
(* waits for an open transaction that inserted the same key; every         *)
(* IntegrityError is a 409.  A link is written by the autoflush of the     *)
(* next SELECT, or by the commit.                                          *)
(***************************************************************************)
EXTENDS Naturals, Sequences, RowLocks

CONSTANTS Keys, Makers,
          Orders   \* the requests: records [kind, keys], keys a sequence

ASSUME CatalogAssumption ==
  /\ None \notin Keys \cup Makers
  /\ \A o \in Orders : /\ o.kind \in {"create", "ensure", "map"} /\ o.keys \in Seq(Keys) \ {<<>>}
                       /\ o.kind # "map" => Len(o.keys) = 1

VARIABLES
  stored, linked,   \* committed keys, and those linked to the plan
  mpc, order, nth,  \* a maker's next await, its request, the key it is at
  fresh, tied,      \* keys and links its transaction has inserted
  unsent,           \* the link it has added and not flushed
  refused,          \* makers answered with a 409
  hurried             \* history: makers during whom another committed

cvars == <<stored, linked, mpc, order, nth, fresh, tied, unsent, refused, hurried>>

Key(r)      == order[r].keys[nth[r]]
Active(r)   == mpc[r] \notin {"new", "done"}
MGoto(r, p) == mpc' = [mpc EXCEPT ![r] = p]
MakerEnds(r) ==
  /\ MGoto(r, "done") /\ nth' = [nth EXCEPT ![r] = 1]
  /\ fresh' = [fresh EXCEPT ![r] = {}] /\ tied' = [tied EXCEPT ![r] = {}]
  /\ unsent' = [unsent EXCEPT ![r] = None]
\* integrity_error_handler, after get_db rolled back
Conflict(r) == /\ MakerEnds(r) /\ refused' = refused \cup {r}
               /\ UNCHANGED <<stored, linked, order, hurried>>
NextKey(r) == IF nth[r] < Len(order[r].keys)
              THEN nth' = [nth EXCEPT ![r] = @ + 1] /\ MGoto(r, "find")
              ELSE UNCHANGED nth /\ MGoto(r, "commit")

CatalogInit ==
  /\ stored \in SUBSET Keys /\ linked = {} /\ refused = {} /\ hurried = {}
  /\ mpc = [r \in Makers |-> "new"]    /\ order = [r \in Makers |-> None]
  /\ nth = [r \in Makers |-> 1]        /\ unsent = [r \in Makers |-> None]
  /\ fresh = [r \in Makers |-> {}]     /\ tied = [r \in Makers |-> {}]

-----------------------------------------------------------------------------
\* A create goes straight to its INSERT.
MakerStarts(r, o) ==
  /\ mpc[r] = "new" /\ order' = [order EXCEPT ![r] = o]
  /\ MGoto(r, IF o.kind = "create" THEN "insert" ELSE "find")
  /\ UNCHANGED <<stored, linked, nth, fresh, tied, unsent, refused, hurried>>

\* The pending link is written before the next SELECT, or at the commit.
FlushLink(r) ==
  /\ mpc[r] \in {"find", "commit"} /\ unsent[r] # None
  /\ \A q \in Makers \ {r} : unsent[r] \notin tied[q]
  /\ IF unsent[r] \in linked \cup tied[r] THEN Conflict(r)
     ELSE /\ tied' = [tied EXCEPT ![r] = @ \cup {unsent[r]}]
          /\ unsent' = [unsent EXCEPT ![r] = None]
          /\ UNCHANGED <<stored, linked, mpc, order, nth, fresh, refused, hurried>>

\* SELECT by key: what is there is returned, or goes on to be linked.
FindKey(r) ==
  /\ mpc[r] = "find" /\ unsent[r] = None
  /\ IF Key(r) \notin stored \cup fresh[r]
     THEN MGoto(r, "insert") /\ UNCHANGED <<nth, fresh, tied, unsent>>
     ELSE IF order[r].kind = "map"
     THEN MGoto(r, "link") /\ UNCHANGED <<nth, fresh, tied, unsent>>
     ELSE MakerEnds(r)
  /\ UNCHANGED <<stored, linked, order, refused, hurried>>

\* INSERT and flush.
InsertKey(r) ==
  /\ mpc[r] = "insert" /\ \A q \in Makers \ {r} : Key(r) \notin fresh[q]
  /\ IF Key(r) \in stored THEN Conflict(r)
     ELSE /\ fresh' = [fresh EXCEPT ![r] = @ \cup {Key(r)}]
          /\ MGoto(r, IF order[r].kind = "map" THEN "link" ELSE "commit")
          /\ UNCHANGED <<stored, linked, order, nth, tied, unsent, refused, hurried>>

\* Mutant of FindLink: the links the transaction itself has written are not seen.
FindCommittedLink(r) ==
  /\ mpc[r] = "link" /\ NextKey(r)
  /\ unsent' = [unsent EXCEPT ![r] = IF Key(r) \in linked THEN None ELSE Key(r)]
  /\ UNCHANGED <<stored, linked, order, fresh, tied, refused, hurried>>

\* SELECT the link; a missing one is added to the session.
FindLink(r) ==
  /\ mpc[r] = "link" /\ NextKey(r)
  /\ unsent' = [unsent EXCEPT ![r] = IF Key(r) \in linked \cup tied[r] THEN None ELSE Key(r)]
  /\ UNCHANGED <<stored, linked, order, fresh, tied, refused, hurried>>

\* COMMIT
CommitKeys(r) ==
  /\ mpc[r] = "commit" /\ unsent[r] = None /\ MakerEnds(r)
  /\ stored' = stored \cup fresh[r] /\ linked' = linked \cup tied[r]
  /\ hurried' = hurried \cup {q \in Makers \ {r} : Active(q)}
  /\ UNCHANGED <<order, refused>>

\* Whom a maker waits for.
MakerWaits ==
  [r \in Makers |->
     LET W == {q \in Makers \ {r} : \/ mpc[r] = "insert" /\ Key(r) \in fresh[q]
                                    \/ mpc[r] \in {"find", "commit"} /\ unsent[r] \in tied[q]}
     IN IF W = {} THEN None ELSE CHOOSE q \in W : TRUE]

\* PostgreSQL aborts one of those that wait for each other: not a 409.
AbortMaker(r) ==
  /\ Deadlocked(r, MakerWaits) /\ MakerEnds(r)
  /\ UNCHANGED <<stored, linked, order, refused, hurried>>

MakerStep(r) == \/ FlushLink(r) \/ FindKey(r) \/ InsertKey(r) \/ FindLink(r)
                \/ CommitKeys(r) \/ AbortMaker(r)

CatalogNext == \E r \in Makers : MakerStep(r) \/ \E o \in Orders : MakerStarts(r, o)

CatalogSpec == CatalogInit /\ [][CatalogNext]_cvars

-----------------------------------------------------------------------------
\* The tables and the makers keep their shape; only stored features are linked.
CatalogTypeOK ==
  /\ stored \subseteq Keys /\ linked \subseteq stored
  /\ mpc \in [Makers -> {"new", "find", "insert", "link", "commit", "done"}]
  /\ order \in [Makers -> Orders \cup {None}]
  /\ nth \in [Makers -> Nat \ {0}]
  /\ \A r \in Makers : order[r] # None => nth[r] <= Len(order[r].keys)
  /\ fresh \in [Makers -> SUBSET Keys] /\ tied \in [Makers -> SUBSET Keys]
  /\ unsent \in [Makers -> Keys \cup {None}]
  /\ refused \subseteq Makers /\ hurried \subseteq Makers

\* A request that looks before it inserts is refused (409) only because another
\* one committed while it ran: never by its own writes, although a plan's list
\* may name a feature twice, and never by a row it could have seen.
RefusedOnlyInRace == \A r \in refused : order[r].kind = "create" \/ r \in hurried

\* A request ends, though it may wait for keys that others have inserted.
MakersEnd == \A r \in Makers : []<>(mpc[r] \in {"new", "done"})
=============================================================================
