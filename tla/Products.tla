-------------------------------- MODULE Products --------------------------------
(***************************************************************************)
(* Products: created (with an Idempotency-Key or without), renamed and     *)
(* deleted by the staff, each in a request that is one transaction; and    *)
(* what the rest of the world hears of it before the commit: the socket    *)
(* event, the audit entry (a background job) and the answer kept under the *)
(* key.                                                                    *)
(*                                                                         *)
(* A product is named after the request that creates it.  Names are unique *)
(* in the table, deleted products included.  A statement that writes a     *)
(* name waits for open transactions that took that name or are leaving it; *)
(* it is the only one a request waits in, and is one step here.            *)
(***************************************************************************)
EXTENDS Naturals, Optional

CONSTANTS Staff,      \* the requests, each made at most once
          Names,
          IdemKeys    \* the keys clients send; None is sent too

ASSUME ProductsAssumption == None \notin Staff \cup Names \cup IdemKeys

VARIABLES
  named, deleted,   \* committed products: their names, and those with deleted_at
  ppc,              \* where a request is, or how it ended
  subject,          \* the product it creates, changes or deletes
  title,            \* the name it writes, None for a deletion
  idem,             \* the key it came with
  claims,           \* the name its open transaction has taken
  holds,            \* the product whose row its open transaction has written
  cachedFor,        \* the answer kept under each key
  emitted,          \* products announced on the socket
  audited,          \* requests whose audit entry is enqueued
  broken            \* history: requests that failed after they began to write

pvars == <<named, deleted, ppc, subject, title, idem, claims, holds, cachedFor, emitted, audited, broken>>
table == <<named, deleted>>
heard == <<cachedFor, emitted, audited>>
asked == <<subject, title, idem>>

PGoto(r, p) == ppc' = [ppc EXCEPT ![r] = p]
Closes(r, p) == /\ PGoto(r, p) /\ claims' = [claims EXCEPT ![r] = None]
                /\ holds' = [holds EXCEPT ![r] = None] /\ subject' = [subject EXCEPT ![r] = None]
                /\ title' = [title EXCEPT ![r] = None] /\ idem' = [idem EXCEPT ![r] = None]
Refused(r)   == Closes(r, "refused") /\ UNCHANGED <<table, heard, broken>>
Fresh        == [r \in Staff |-> None]

\* Who has to end before r may write name n.
Bars(r, n) == {q \in Staff \ {r} : claims[q] = n \/ (holds[q] # None /\ named[holds[q]] = n /\ claims[q] # None)}
Taken(r, n) == \E p \in Staff : named[p] = n /\ p # subject[r]

ProductsInit ==
  /\ named = Fresh /\ deleted = {} /\ ppc = [r \in Staff |-> "new"]
  /\ subject = Fresh /\ title = Fresh /\ idem = Fresh /\ claims = Fresh /\ holds = Fresh
  /\ cachedFor = [k \in IdemKeys |-> None] /\ emitted = {} /\ audited = {} /\ broken = {}

-----------------------------------------------------------------------------
\* create_product, renaming in update_product, delete_product
CreateProduct(r, n, k) ==
  /\ ppc[r] = "new" /\ PGoto(r, IF k = None THEN "select" ELSE "cached")
  /\ subject' = [subject EXCEPT ![r] = r] /\ title' = [title EXCEPT ![r] = n]
  /\ idem' = [idem EXCEPT ![r] = k]
  /\ UNCHANGED <<table, claims, holds, heard, broken>>

\* The product is loaded first: a 404 if it is not there or deleted.  A change
\* that leaves the name as it was read writes nothing a property is about.
ChangeProduct(r, p, n) ==
  /\ ppc[r] = "new" /\ p # r /\ (n # None => n # named[p])
  /\ IF named[p] # None /\ p \notin deleted
     THEN /\ PGoto(r, "write") /\ subject' = [subject EXCEPT ![r] = p]
          /\ title' = [title EXCEPT ![r] = n] /\ UNCHANGED <<table, idem, claims, holds, heard, broken>>
     ELSE Refused(r)

\* Mutant of GetCached: the key is taken before the product is made.
ReserveKey(r) ==
  /\ ppc[r] = "cached"
  /\ IF cachedFor[idem[r]] # None
     THEN Closes(r, "replayed")
     ELSE PGoto(r, "select") /\ UNCHANGED <<asked, claims, holds>>
  /\ cachedFor' = [cachedFor EXCEPT ![idem[r]] = IF @ = None THEN r ELSE @]
  /\ UNCHANGED <<table, emitted, audited, broken>>

\* The answer kept under the key is returned as it is.
GetCached(r) ==
  /\ ppc[r] = "cached"
  /\ IF cachedFor[idem[r]] # None
     THEN Closes(r, "replayed")
     ELSE PGoto(r, "select") /\ UNCHANGED <<asked, claims, holds>>
  /\ UNCHANGED <<table, heard, broken>>

\* get_by_name, which does not leave out deleted products: a 409.
SelectName(r) ==
  /\ ppc[r] = "select"
  /\ IF \E p \in Staff : named[p] = title[r] THEN Refused(r)
     ELSE PGoto(r, "write") /\ UNCHANGED <<table, asked, claims, holds, heard, broken>>

\* The INSERT or UPDATE is flushed; a name that is taken is an IntegrityError (409).
WriteProduct(r) ==
  /\ ppc[r] = "write" /\ (title[r] # None => Bars(r, title[r]) = {})
  /\ \A q \in Staff \ {r} : holds[q] # subject[r]
  /\ IF title[r] # None /\ Taken(r, title[r]) THEN Refused(r)
     ELSE /\ PGoto(r, "tell") /\ claims' = [claims EXCEPT ![r] = title[r]]
          /\ holds' = [holds EXCEPT ![r] = subject[r]]
          /\ UNCHANGED <<table, asked, heard, broken>>

\* The event is emitted, for a creation, and the audit entry enqueued.
Tell(r) ==
  /\ ppc[r] = "tell" /\ PGoto(r, IF idem[r] = None THEN "commit" ELSE "keep")
  /\ emitted' = emitted \cup {p \in {r} : subject[r] = p}
  /\ audited' = audited \cup {r}
  /\ UNCHANGED <<table, asked, claims, holds, cachedFor, broken>>

\* The answer is kept under the key.
KeepAnswer(r) ==
  /\ ppc[r] = "keep" /\ PGoto(r, "commit")
  /\ cachedFor' = [cachedFor EXCEPT ![idem[r]] = r]
  /\ UNCHANGED <<table, asked, claims, holds, emitted, audited, broken>>

\* get_db commits.
CommitProduct(r) ==
  /\ ppc[r] = "commit" /\ Closes(r, "served")
  /\ named' = [named EXCEPT ![subject[r]] = IF title[r] = None THEN @ ELSE title[r]]
  /\ deleted' = IF title[r] = None THEN deleted \cup {subject[r]} ELSE deleted
  /\ UNCHANGED <<heard, broken>>

\* The socket, Redis, the commit or the process fails: rolled back.
FailProduct(r) ==
  /\ ppc[r] \in {"tell", "keep", "commit"} /\ Closes(r, "failed") /\ broken' = broken \cup {r}
  /\ UNCHANGED <<table, heard>>

StaffStep(r) == \/ GetCached(r) \/ SelectName(r) \/ WriteProduct(r) \/ Tell(r) \/ KeepAnswer(r)
                \/ CommitProduct(r)

ProductsNext ==
  \E r \in Staff : \/ StaffStep(r) \/ FailProduct(r)
                   \/ \E n \in Names, k \in IdemKeys \cup {None} : CreateProduct(r, n, k)
                   \/ \E p \in Staff, n \in Names \cup {None} : ChangeProduct(r, p, n)

ProductsSpec == ProductsInit /\ [][ProductsNext]_pvars

-----------------------------------------------------------------------------
\* The table, the requests and what they tell keep their shape.
ProductsTypeOK ==
  /\ named \in [Staff -> Names \cup {None}] /\ deleted \subseteq Staff
  /\ ppc \in [Staff -> {"new", "cached", "select", "write", "tell", "keep", "commit",
                        "served", "replayed", "refused", "failed"}]
  /\ subject \in [Staff -> Staff \cup {None}] /\ title \in [Staff -> Names \cup {None}]
  /\ idem \in [Staff -> IdemKeys \cup {None}] /\ claims \in [Staff -> Names \cup {None}]
  /\ holds \in [Staff -> Staff \cup {None}] /\ cachedFor \in [IdemKeys -> Staff \cup {None}]
  /\ emitted \subseteq Staff /\ broken \subseteq Staff
  /\ audited \subseteq Staff

InFlight(p) == ppc[p] \in {"tell", "keep", "commit"}

\* What the world hears is kept, and what is kept is heard.  A product announced
\* on the socket, or kept as the answer to a key, is in the table, about to be,
\* or its request failed after it was announced; every product in the table was
\* announced and audited; and no two products in the table ever share a name.
AnnouncedIsKept ==
  /\ \A p \in emitted \cup ({cachedFor[k] : k \in IdemKeys} \ {None}) :
       named[p] # None \/ InFlight(p) \/ p \in broken
  /\ \A p \in Staff : named[p] # None => p \in emitted /\ p \in audited
  /\ \A p, q \in Staff : p # q /\ named[p] # None => named[p] # named[q]

\* A request ends, though it may wait for others that write the same name.
ProductsEnd == \A r \in Staff : []<>(ppc[r] \in {"new", "served", "replayed", "refused", "failed"})
=============================================================================
