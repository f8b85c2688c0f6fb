---------------------------- MODULE RequestProofs ----------------------------
(****************************************************************************)
(* What the requests of a service leave: revoked keys, announced products,  *)
(* files with their rows and subscriptions that stay converted, for any     *)
(* number of requests, uploads, downloads, cleanups and clients.            *)
(****************************************************************************)
EXTENDS ApiKeys, Products, Uploads, Subscriptions, FiniteSetTheorems, TLAPS

-----------------------------------------------------------------------------
USE ApiKeysAssumption

\* A transaction sets columns, and clears none.
SetsOnly == \A r \in Requests : \A w \in writes[r] : w[3] = TRUE

\* A request sent with a dead key gets no further than the look at the key.
StaysDead == \A r \in deadAtStart :
             via[r] # None /\ Dead(via[r]) /\ qpc[r] \in {"load", "refused", "failed"}

\* A request that is to touch or to revoke a key has one.
NamesKey == \A r \in Requests :
              /\ qpc[r] \in {"load", "touch"} => via[r] # None
              /\ qpc[r] \in {"find", "mark"} => target[r] # None

\* RevokedIsRefused with what the open transactions are to write.
KInv == ApiKeysTypeOK /\ RevokedIsRefused /\ SetsOnly /\ StaysDead /\ NamesKey

\* No key is revoked at the start, and no request under way.
LEMMA ApiKeysStart == ApiKeysInit => KInv
BY DEF ApiKeysInit, KInv, ApiKeysTypeOK, RevokedIsRefused, SetsOnly, StaysDead, NamesKey, Columns

\* The end of a transaction without a commit changes no row.
LEMMA RollsKeeps ==
  ASSUME KInv, NEW r \in Requests, NEW p \in {"refused", "failed"}, Rolls(r, p)
  PROVE  KInv'
BY DEF KInv, ApiKeysTypeOK, RevokedIsRefused, SetsOnly, StaysDead, NamesKey, Dead, Rolls, Releases, QGoto

\* A commit sets columns of rows, and clears none.
LEMMA KeyCommitKeeps == ASSUME KInv, NEW r \in Requests, CommitRequest(r) PROVE KInv'
<1> USE DEF KInv, ApiKeysTypeOK, CommitRequest, Releases, QGoto
<1>1. \A k \in ApiKeySet : keyRow[k] \subseteq keyRow'[k]
  BY DEF SetsOnly
<1>2. \A k \in ApiKeySet : <<k, "revoked", TRUE>> \in writes[r] => "revoked" \in keyRow'[k]
  BY DEF SetsOnly, Columns
<1>3. ApiKeysTypeOK'
  OBVIOUS
<1>4. RevokedIsRefused'
  BY <1>1, <1>2 DEF RevokedIsRefused, StaysDead
<1>5. SetsOnly'
  BY DEF SetsOnly
<1>6. StaysDead'
  BY <1>1 DEF StaysDead, Dead
<1>7. NamesKey'
  BY DEF NamesKey
<1> QED
  BY <1>3, <1>4, <1>5, <1>6, <1>7

\* A column that is set is one that a transaction may write.
LEMMA SetColumn ==
  ASSUME NEW k \in ApiKeySet, NEW c \in Columns
  PROVE  \E w \in ApiKeySet \X Columns \X BOOLEAN : w = <<k, c, TRUE>> /\ w[3] = TRUE
<1>1. <<k, c, TRUE>> \in ApiKeySet \X Columns \X BOOLEAN
  OBVIOUS
<1>2. <<k, c, TRUE>>[3] = TRUE
  OBVIOUS
<1> WITNESS <<k, c, TRUE>> \in ApiKeySet \X Columns \X BOOLEAN
<1> QED
  BY <1>2

\* Every await of a request keeps the invariant, whatever the others do.
LEMMA ApiKeysSteps == KInv /\ [ApiKeysNext]_qvars => KInv'
<1> SUFFICES ASSUME KInv, [ApiKeysNext]_qvars PROVE KInv'
  OBVIOUS
<1> USE DEF KInv, ApiKeysTypeOK, RevokedIsRefused, SetsOnly, StaysDead, NamesKey, Dead, QGoto
<1>1. ASSUME NEW r \in Requests, NEW k \in ApiKeySet, IssueKey(r, k) PROVE KInv'
  <2>1. PICK w \in ApiKeySet \X Columns \X BOOLEAN : w = <<k, "issued", TRUE>> /\ w[3] = TRUE
    BY <1>1, SetColumn DEF IssueKey, Columns
  <2>2. writes' = [writes EXCEPT ![r] = {w}]
    BY <1>1, <2>1 DEF IssueKey
  <2>3. writes' \in [Requests -> SUBSET (ApiKeySet \X Columns \X BOOLEAN)] /\ SetsOnly'
    BY <2>1, <2>2
  <2> QED
    BY <1>1, <2>3 DEF IssueKey
<1>2. ASSUME NEW r \in Requests, NEW v \in ApiKeySet \cup {None}, NEW t \in ApiKeySet \cup {None},
             Arrives(r, v, t)
      PROVE  KInv'
  BY <1>2 DEF Arrives
<1>3. ASSUME NEW r \in Requests, LoadKey(r) PROVE KInv'
  BY <1>3 DEF LoadKey
<1>4. ASSUME NEW r \in Requests, TouchKey(r) PROVE KInv'
  <2>1. PICK w \in ApiKeySet \X Columns \X BOOLEAN : w = <<via[r], "used", TRUE>> /\ w[3] = TRUE
    <3>1. via[r] \in ApiKeySet /\ "used" \in Columns
      BY <1>4 DEF TouchKey, Columns
    <3> QED
      BY <3>1, SetColumn
  <2>2. writes' = [writes EXCEPT ![r] = {w}]
    BY <1>4, <2>1 DEF TouchKey
  <2>3. writes' \in [Requests -> SUBSET (ApiKeySet \X Columns \X BOOLEAN)] /\ SetsOnly'
    BY <2>1, <2>2
  <2> QED
    BY <1>4, <2>3 DEF TouchKey
<1>5. ASSUME NEW r \in Requests, FindTarget(r) PROVE KInv'
  BY <1>5, RollsKeeps DEF FindTarget
<1>6. ASSUME NEW r \in Requests, MarkRevoked(r) PROVE KInv'
  <2>1. PICK w \in ApiKeySet \X Columns \X BOOLEAN : w = <<target[r], "revoked", TRUE>> /\ w[3] = TRUE
    <3>1. target[r] \in ApiKeySet /\ "revoked" \in Columns
      BY <1>6 DEF MarkRevoked, Columns
    <3> QED
      BY <3>1, SetColumn
  <2>2. writes' = [writes EXCEPT ![r] = writes[r] \cup {w}]
    BY <1>6, <2>1 DEF MarkRevoked
  <2>3. writes' \in [Requests -> SUBSET (ApiKeySet \X Columns \X BOOLEAN)] /\ SetsOnly'
    BY <2>1, <2>2
  <2> QED
    BY <1>6, <2>3 DEF MarkRevoked
<1>7. ASSUME NEW r \in Requests, CommitRequest(r) PROVE KInv'
  BY <1>7, KeyCommitKeeps
<1>8. ASSUME NEW r \in Requests, FailRequest(r) \/ AbortRequest(r) PROVE KInv'
  BY <1>8, RollsKeeps DEF FailRequest, AbortRequest
<1>9. ASSUME NEW k \in ApiKeySet, ExpireKey(k) PROVE KInv'
  BY <1>9 DEF ExpireKey
<1>10. CASE UNCHANGED qvars
  BY <1>10 DEF qvars
<1> QED
  BY <1>1, <1>2, <1>3, <1>4, <1>5, <1>6, <1>7, <1>8, <1>9, <1>10 DEF ApiKeysNext, RequestStep

\* However requests that came with a key, or revoke it, overlap, a revoked key
\* stays revoked and serves no request that was sent after.
THEOREM RevocationLasts == ApiKeysSpec => []RevokedIsRefused
<1>1. KInv => RevokedIsRefused
  BY DEF KInv
<1> QED
  BY <1>1, ApiKeysStart, ApiKeysSteps, PTL DEF ApiKeysSpec

HIDE ApiKeysAssumption

-----------------------------------------------------------------------------
USE ProductsAssumption

\* A request under way, and those the world has heard of.
AtWork(r) == ppc[r] \in {"cached", "select", "write", "tell", "keep", "commit"}
Told    == emitted \cup audited \cup {cachedFor[k] : k \in IdemKeys}

\* A request creates a product of its own or changes one that is there; a key
\* comes with a creation only.
AskedInv == \A r \in Staff :
  /\ AtWork(r) => /\ subject[r] # None
                /\ IF subject[r] = r THEN title[r] # None
                                     ELSE named[subject[r]] # None /\ idem[r] = None
  /\ ~AtWork(r) => subject[r] = None /\ title[r] = None /\ idem[r] = None
  /\ ppc[r] \in {"cached", "keep"} => idem[r] # None

\* A transaction that has written a name is alone in that, and no other product
\* has the name.
ClaimInv == \A r \in Staff :
  /\ IF InFlight(r) THEN claims[r] = title[r] ELSE claims[r] = None
  /\ claims[r] # None => /\ \A q \in Staff \ {r} : claims[q] # claims[r]
                         /\ \A p \in Staff \ {subject[r]} : named[p] # claims[r]

\* Nobody hears of a request before it tells; it tells before it commits.
ToldInv == \A r \in Staff :
  /\ r \in Told => ppc[r] \in {"keep", "commit", "served", "failed"}
  /\ ppc[r] \in {"keep", "commit"} =>
       /\ r \in audited /\ (subject[r] = r => r \in emitted)
       /\ r \in emitted \cup {cachedFor[k] : k \in IdemKeys} => subject[r] = r

\* AnnouncedIsKept with what the open transactions hold and have told.
ProductsInv == ProductsTypeOK /\ AnnouncedIsKept /\ AskedInv /\ ClaimInv /\ ToldInv

\* There is no product, and no request, at the start.
LEMMA ProductsStart == ProductsInit => ProductsInv
BY DEF ProductsInit, ProductsInv, ProductsTypeOK, AnnouncedIsKept, AskedInv, ClaimInv, ToldInv,
       AtWork, Told, InFlight, Fresh

\* A request that ends before it tells changes nothing.
LEMMA ClosesKeeps ==
  ASSUME ProductsInv, NEW r \in Staff, ppc[r] \in {"cached", "select", "write"},
         NEW p \in {"replayed", "refused"}, Closes(r, p), UNCHANGED <<table, heard, broken>>
  PROVE  ProductsInv'
BY DEF ProductsInv, ProductsTypeOK, AnnouncedIsKept, AskedInv, ClaimInv, ToldInv, AtWork, Told,
       InFlight, PGoto, Closes, table, heard

\* Every await of a request keeps the invariant, and so does its failure.
LEMMA ProductsSteps == ProductsInv /\ [ProductsNext]_pvars => ProductsInv'
<1> SUFFICES ASSUME ProductsInv, [ProductsNext]_pvars PROVE ProductsInv'
  OBVIOUS
<1> USE DEF ProductsInv, ProductsTypeOK, AnnouncedIsKept, AskedInv, ClaimInv, ToldInv, AtWork, Told,
            InFlight, PGoto, Closes, Refused, table, heard, asked
<1>1. ASSUME NEW r \in Staff, NEW n \in Names, NEW k \in IdemKeys \cup {None}, CreateProduct(r, n, k)
      PROVE  ProductsInv'
  BY <1>1 DEF CreateProduct
<1>2. ASSUME NEW r \in Staff, NEW p \in Staff, NEW n \in Names \cup {None}, ChangeProduct(r, p, n)
      PROVE  ProductsInv'
  BY <1>2 DEF ChangeProduct
<1>3. ASSUME NEW r \in Staff, GetCached(r) PROVE ProductsInv'
  <2>1. CASE cachedFor[idem[r]] # None
    BY <1>3, <2>1, ClosesKeeps DEF GetCached
  <2>2. CASE ~(cachedFor[idem[r]] # None)
    BY <1>3, <2>2 DEF GetCached
  <2> QED
    BY <2>1, <2>2
<1>4. ASSUME NEW r \in Staff, SelectName(r) PROVE ProductsInv'
  <2>1. CASE \E p \in Staff : named[p] = title[r]
    BY <1>4, <2>1, ClosesKeeps DEF SelectName
  <2>2. CASE ~(\E p \in Staff : named[p] = title[r])
    BY <1>4, <2>2 DEF SelectName
  <2> QED
    BY <2>1, <2>2
<1>5. ASSUME NEW r \in Staff, WriteProduct(r) PROVE ProductsInv'
  <2>1. CASE title[r] # None /\ Taken(r, title[r])
    BY <1>5, <2>1, ClosesKeeps DEF WriteProduct
  <2>2. CASE ~(title[r] # None /\ Taken(r, title[r]))
    <3>1. ppc[r] = "write" /\ ppc' = [ppc EXCEPT ![r] = "tell"] /\ claims' = [claims EXCEPT ![r] = title[r]]
          /\ holds' = [holds EXCEPT ![r] = subject[r]] /\ UNCHANGED <<table, asked, heard, broken>>
      BY <1>5, <2>2 DEF WriteProduct
    <3>2. title[r] # None => \A q \in Staff \ {r} : claims[q] # title[r]
      BY <1>5 DEF WriteProduct, Bars
    <3>3. title[r] # None => \A p \in Staff \ {subject[r]} : named[p] # title[r]
      BY <2>2 DEF Taken
    <3>4. ClaimInv'
      BY <3>1, <3>2, <3>3
    <3> QED
      BY <3>1, <3>4
  <2> QED
    BY <2>1, <2>2
<1>6. ASSUME NEW r \in Staff, Tell(r) PROVE ProductsInv'
  BY <1>6 DEF Tell
<1>7. ASSUME NEW r \in Staff, KeepAnswer(r) PROVE ProductsInv'
  BY <1>7 DEF KeepAnswer
<1>8. ASSUME NEW r \in Staff, CommitProduct(r) PROVE ProductsInv'
  BY <1>8 DEF CommitProduct
<1>9. ASSUME NEW r \in Staff, FailProduct(r) PROVE ProductsInv'
  BY <1>9 DEF FailProduct
<1>10. CASE UNCHANGED pvars
  BY <1>10 DEF pvars
<1> QED
  BY <1>1, <1>2, <1>3, <1>4, <1>5, <1>6, <1>7, <1>8, <1>9, <1>10 DEF ProductsNext, StaffStep

\* However many requests create, rename and delete products at once, what is
\* announced or kept under a key is in the table, about to be, or its request
\* failed; what is in the table was told; and names stay unique.
THEOREM AnnouncementsHold == ProductsSpec => []AnnouncedIsKept
<1>1. ProductsInv => AnnouncedIsKept
  BY DEF ProductsInv
<1> QED
  BY <1>1, ProductsStart, ProductsSteps, PTL DEF ProductsSpec

HIDE ProductsAssumption

-----------------------------------------------------------------------------
USE UploadsAssumption

\* Only what was committed is read, aged or cleaned up.
StoredInv ==
  /\ \A f \in rows \cup old : upc[f] = "stored"
  /\ \A c \in Cleaners : \A f \in batch[c] : upc[f] = "stored"

\* An upload that has yet to commit has its file; a cleanup holds rows only
\* while it runs, and where files are local, those it has dealt with have none.
HeldInv ==
  /\ \A f \in Files : upc[f] = "saved" => f \in files
  /\ \A c \in Cleaners : cpc[c] # "unlink" => batch[c] = {}
  /\ store = "local" => \A c \in Cleaners : unlinked[c] \cap files = {}

\* The file a download is about to send is there, or a cleanup has taken it.
SendInv == \A d \in Readers : dpc[d] = "send" => 
             wants[d] \in files \/ Bereft(wants[d]) \/ wants[d] \in retired

\* FilesMatchRows with what uploads, cleanups and downloads rely on.
UInv == UploadsTypeOK /\ FilesMatchRows /\ StoredInv /\ HeldInv /\ SendInv

\* Nothing is stored at the start.
LEMMA UploadsStart == UploadsInit => UInv
BY DEF UploadsInit, UInv, UploadsTypeOK, FilesMatchRows, StoredInv, HeldInv, SendInv, Bereft

\* Every step of an upload, a download or a cleanup keeps the invariant.
LEMMA UploadsSteps == UInv /\ [UploadsNext]_uvars => UInv'
<1> SUFFICES ASSUME UInv, [UploadsNext]_uvars PROVE UInv'
  OBVIOUS
<1> USE DEF UInv, UploadsTypeOK, FilesMatchRows, StoredInv, HeldInv, SendInv, Bereft,
            upload, download, cleanup, DGoto, CEnds
<1>1. ASSUME NEW f \in Files, SaveFile(f) PROVE UInv'
  BY <1>1 DEF SaveFile
<1>2. ASSUME NEW f \in Files, CommitUpload(f) PROVE UInv'
  BY <1>2 DEF CommitUpload
<1>3. ASSUME NEW f \in Files, UploadFails(f) PROVE UInv'
  BY <1>3 DEF UploadFails
<1>4. ASSUME NEW f \in Files, Ages(f) PROVE UInv'
  BY <1>4 DEF Ages
<1>5. ASSUME NEW d \in Readers, NEW f \in Files, NEW owner \in BOOLEAN, FindUpload(d, f, owner)
      PROVE  UInv'
  BY <1>5 DEF FindUpload
<1>6. ASSUME NEW d \in Readers, SendFile(d) PROVE UInv'
  BY <1>6 DEF SendFile
<1>7. ASSUME NEW c \in Cleaners, ReadOld(c) PROVE UInv'
  BY <1>7 DEF ReadOld
<1>8. ASSUME NEW c \in Cleaners, NEW f \in Files, Unlink(c, f) PROVE UInv'
  <2>1. UploadsTypeOK'
    BY <1>8 DEF Unlink
  <2>2. StoredInv'
    BY <1>8 DEF Unlink
  <2>3. HeldInv'
    BY <1>8 DEF Unlink
  <2>4. FilesMatchRows'
    BY <1>8 DEF Unlink
  <2>5. SendInv'
    BY <1>8 DEF Unlink
  <2> QED
    BY <2>1, <2>2, <2>3, <2>4, <2>5
<1>9. ASSUME NEW c \in Cleaners, CommitCleanup(c) PROVE UInv'
  <2>1. UploadsTypeOK'
    BY <1>9 DEF CommitCleanup
  <2>2. StoredInv'
    BY <1>9 DEF CommitCleanup
  <2>3. HeldInv'
    BY <1>9 DEF CommitCleanup
  <2>4. FilesMatchRows'
    BY <1>9 DEF CommitCleanup
  <2>5. SendInv'
    BY <1>9 DEF CommitCleanup
  <2> QED
    BY <2>1, <2>2, <2>3, <2>4, <2>5
<1>10. ASSUME NEW c \in Cleaners, CleanupFails(c) PROVE UInv'
  <2>1. UploadsTypeOK'
    BY <1>10 DEF CleanupFails
  <2>2. StoredInv'
    BY <1>10 DEF CleanupFails
  <2>3. HeldInv'
    BY <1>10 DEF CleanupFails
  <2>4. FilesMatchRows'
    BY <1>10 DEF CleanupFails
  <2>5. SendInv'
    BY <1>10 DEF CleanupFails
  <2> QED
    BY <2>1, <2>2, <2>3, <2>4, <2>5
<1>11. CASE UNCHANGED uvars
  BY <1>11 DEF uvars
<1> HIDE DEF UInv, UploadsTypeOK, FilesMatchRows, StoredInv, HeldInv, SendInv
<1> QED
  BY <1>1, <1>2, <1>3, <1>4, <1>5, <1>6, <1>7, <1>8, <1>9, <1>10, <1>11 DEF UploadsNext

\* However uploads, downloads and cleanups overlap and fail, a row lacks its file
\* only under a cleanup, a file its row only around its upload (or in a bucket,
\* for good), and a download breaks off only under a cleanup.
THEOREM UploadsMatch == UploadsSpec => []FilesMatchRows
<1>1. UInv => FilesMatchRows
  BY DEF UInv
<1> QED
  BY <1>1, UploadsStart, UploadsSteps, PTL DEF UploadsSpec

HIDE UploadsAssumption

-----------------------------------------------------------------------------
USE SubscriptionsAssumption

\* What a request has read or is to insert.
ReadOK == was \in [Clients -> {None} \cup Statuses \cup [plan : Plans, status : Statuses]]

\* The row of the registration is there; an id that has not been committed is
\* not a trial that ends.
RowsInv ==
  /\ 1 \in Existing
  /\ \A s \in Subs : s > lastSub => status[s] = "none"
  /\ \A s \in Subs : status[s] = "none" => s \notin due \cup expiring \cup converted

\* The id an assignment took is its own, and no row has it yet.
AssignInv == \A c \in Clients : spc[c] = "assign" =>
  /\ sid[c] \in 1..lastSub /\ status[sid[c]] = "none" /\ was[c] \in Statuses /\ wish[c] \in Plans
  /\ \A d \in Clients \ {c} : spc[d] = "assign" => sid[d] # sid[c]

\* A subscription that will not be a trial again, and that the periodic job
\* expires only if it had read it before it was turned into a plan.
Firm(s) ==
  /\ status[s] \notin {"none", "trialing"}
  /\ status[s] = "expired" \/ s \in expiring => s \in raced

\* What a plan change or a cancellation read was a row; one that was active is
\* no trial any more.
WishInv == \A c \in Clients : spc[c] \in {"change", "cancel"} =>
  /\ sid[c] \in Existing /\ was[c] \in [plan : Plans, status : Statuses]
  /\ spc[c] = "change" => wish[c] \in Plans
  /\ was[c].status = "active" => Firm(sid[c])

\* The same of what is active now, or was converted.
FirmInv == \A s \in Subs : s \in converted \/ status[s] = "active" => Firm(s)

\* ConversionsHold with what the requests under way have read.
SInv == /\ SubscriptionsTypeOK /\ ReadOK /\ ConversionsHold
        /\ RowsInv /\ AssignInv /\ WishInv /\ FirmInv

\* A set of ids that is not empty has a greatest.
LEMMA Greatest ==
  ASSUME NEW E, E \subseteq Subs, E # {}
  PROVE  \E m \in E : \A x \in E : x <= m
<1> DEFINE R == StrictSubsetOrdering(E)
           T == {{y \in E : y > x} : x \in E}
<1>1. IsFiniteSet(E)
  BY FS_Interval, FS_Subset, 1 \in Int, MaxSubs \in Int DEF Subs
<1>2. IsWellFoundedOn(R, SUBSET E)
  BY <1>1, FS_StrictSubsetOrderingWellFounded, FS_FiniteSubsetsOfFinite
<1>3. T \subseteq SUBSET E /\ T # {}
  OBVIOUS
<1>4. PICK u \in T : \A v \in T : ~(<<v, u>> \in R)
  <2> HIDE DEF R, T
  <2> QED
    BY <1>2, <1>3, WFMin
<1>5. PICK m \in E : u = {y \in E : y > m}
  BY <1>4
<1>6. ASSUME NEW x \in E, x > m PROVE FALSE
  <2> DEFINE v == {y \in E : y > x}
  <2>1. v \in T /\ v \in SUBSET E /\ u \in SUBSET E
    BY <1>5
  <2>2. v \subseteq u
    <3>1. ASSUME NEW y \in E, y > x PROVE y > m
      BY <3>1, <1>6, E \subseteq Int DEF Subs
    <3> QED
      BY <1>5, <3>1
  <2>3. x \in u /\ x \notin v
    BY <1>5, <1>6, E \subseteq Int DEF Subs
  <2>4. <<v, u>> \in R
    <3>1. <<v, u>> \in (SUBSET E) \X (SUBSET E) /\ v # u
      BY <2>1, <2>3
    <3> QED
      BY <3>1, <2>2 DEF StrictSubsetOrdering
  <2> QED
    BY <1>4, <2>1, <2>4
<1> QED
  BY <1>6 DEF Subs

\* Once there is a row there is a latest row.
LEMMA LatestExists == ASSUME 1 \in Existing PROVE Latest \in Existing
<1>1. Existing \subseteq Subs /\ Existing # {}
  BY DEF Existing
<1>2. \E m \in Existing : \A x \in Existing : x <= m
  BY <1>1, Greatest
<1> QED
  BY <1>2 DEF Latest

\* At the start there is the row of the registration.
LEMMA SubscriptionsStart == SubscriptionsInit => SInv
BY DEF SubscriptionsInit, SInv, SubscriptionsTypeOK, ReadOK, ConversionsHold, RowsInv, AssignInv,
       WishInv, FirmInv, Firm, Existing, Paid, Statuses, Subs

\* A step of a request or of the job that leaves the rows alone, and gives the
\* request no id, keeps the invariant.
LEMMA RowsKept ==
  ASSUME SInv, SubscriptionsTypeOK', UNCHANGED <<plan, status, lastSub, invoiced, converted, raced, was, wish, sid>>,
         \A c \in Clients : spc'[c] \in {"assign", "change", "cancel"} => spc'[c] = spc[c],
         \A s \in Subs : s \in due' \/ s \in expiring' => s \in due \cup expiring \/ status[s] = "trialing",
         \A s \in Subs : s \in expiring' /\ s \notin expiring => status[s] = "trialing"
  PROVE  SInv'
<1> USE DEF SInv, Existing
<1>1. ReadOK' /\ ConversionsHold' /\ AssignInv'
  BY DEF ReadOK, ConversionsHold, AssignInv
<1>2. RowsInv'
  BY DEF RowsInv, SubscriptionsTypeOK, Paid, Statuses
<1>3. \A s \in Subs : Firm(s) => Firm(s)'
  BY DEF Firm
<1>4. WishInv' /\ FirmInv'
  BY <1>3 DEF WishInv, FirmInv, SubscriptionsTypeOK
<1> QED
  BY <1>1, <1>2, <1>4

\* An assignment is committed to a row that was not there.
LEMMA AssignKeeps == ASSUME SInv, NEW c \in Clients, AssignCommits(c) PROVE SInv'
<1> USE DEF SInv, SubscriptionsTypeOK, AssignCommits, clientOf, jobOf, SGoto
<1>1. /\ sid[c] \in Subs /\ status[sid[c]] = "none" /\ was[c] \in Statuses /\ wish[c] \in Plans
      /\ sid[c] <= lastSub
  BY DEF AssignInv, Subs
<1>2. SubscriptionsTypeOK' /\ ReadOK'
  BY <1>1 DEF ReadOK
<1>3. \A s \in Subs : status[s] # "none" => status'[s] = status[s] /\ plan'[s] = plan[s]
  BY <1>1
<1>4. \A s \in Subs : Firm(s) => Firm(s)'
  BY <1>3 DEF Firm
<1>5. sid[c] \notin converted' /\ (status'[sid[c]] = "active" => Firm(sid[c])')
  BY <1>1 DEF RowsInv, Firm
<1>6. ConversionsHold'
  BY <1>1, <1>3 DEF ConversionsHold, RowsInv, Existing
<1>7. RowsInv'
  BY <1>1 DEF RowsInv, Existing, Subs, Paid, Statuses
<1>8. AssignInv'
  BY <1>1 DEF AssignInv, Subs
<1>9. WishInv'
  BY <1>3, <1>4 DEF WishInv, Existing
<1>10. FirmInv'
  BY <1>1, <1>3, <1>4, <1>5 DEF FirmInv, RowsInv
<1> QED
  BY <1>2, <1>6, <1>7, <1>8, <1>9, <1>10

\* A plan change is committed to the row it read, whatever became of it.
LEMMA ChangeKeeps == ASSUME SInv, NEW c \in Clients, ChangeCommits(c) PROVE SInv'
<1> USE DEF SInv, SubscriptionsTypeOK, ChangeCommits, clientOf, jobOf, SGoto
<1>1. /\ sid[c] \in Subs /\ status[sid[c]] # "none" /\ wish[c] \in Plans
      /\ was[c].status = "active" => Firm(sid[c])
  BY DEF WishInv, Existing
<1>2. SubscriptionsTypeOK' /\ ReadOK'
  <2>1. raced' \subseteq converted'
    OBVIOUS
  <2>2. status' \in [Subs -> Statuses \cup {"none"}] /\ plan' \in [Subs -> Plans]
    BY <1>1 DEF Paid, Statuses
  <2> QED
    BY <1>1, <2>1, <2>2 DEF ReadOK
<1>3. \A s \in Subs : /\ (status[s] = "none") = (status'[s] = "none")
                      /\ s # sid[c] => status'[s] = status[s] /\ plan'[s] = plan[s]
  BY <1>1
<1>4. \A s \in Subs \ {sid[c]} : Firm(s) => Firm(s)'
  BY <1>3 DEF Firm
<1>5. Firm(sid[c])'
  <2>1. CASE was[c].status = "active"
    BY <2>1, <1>1 DEF Firm
  <2>2. CASE was[c].status # "active"
    BY <2>2, <1>1 DEF Firm
  <2> QED
    BY <2>1, <2>2
<1>6. ConversionsHold'
  <2>1. ASSUME NEW s \in Existing' PROVE <<s, plan'[s]>> \in invoiced' \/ (s = 1 /\ plan'[s] = Free)
    BY <1>1, <1>3 DEF ConversionsHold, Existing
  <2>2. ASSUME NEW s \in converted', status'[s] = "expired" PROVE s \in raced'
    <3>1. CASE s = sid[c]
      BY <1>5, <2>2, <3>1 DEF Firm
    <3>2. CASE s # sid[c]
      BY <1>1, <1>3, <2>2, <3>2 DEF ConversionsHold
    <3> QED
      BY <3>1, <3>2
  <2> QED
    BY <2>1, <2>2 DEF ConversionsHold
<1>7. RowsInv'
  BY <1>1, <1>3 DEF RowsInv, Existing, Subs
<1>8. AssignInv'
  BY <1>1, <1>3 DEF AssignInv, Subs
<1>9. WishInv'
  BY <1>3, <1>4, <1>5 DEF WishInv, Existing
<1>10. FirmInv'
  BY <1>1, <1>3, <1>4, <1>5 DEF FirmInv
<1> QED
  BY <1>2, <1>6, <1>7, <1>8, <1>9, <1>10

\* A cancellation is.
LEMMA PlanCancelKeeps == ASSUME SInv, NEW c \in Clients, CancelCommits(c) PROVE SInv'
<1> USE DEF SInv, SubscriptionsTypeOK, CancelCommits, clientOf, jobOf, SGoto
<1>1. sid[c] \in Subs /\ status[sid[c]] # "none"
  BY DEF WishInv, Existing
<1>2. SubscriptionsTypeOK' /\ ReadOK'
  BY <1>1 DEF ReadOK, Statuses
<1>3. \A s \in Subs : /\ (status[s] = "none") = (status'[s] = "none")
                      /\ status'[s] = status[s] \/ status'[s] = "canceled"
  BY <1>1
<1>4. \A s \in Subs : Firm(s) => Firm(s)'
  BY <1>3 DEF Firm
<1>5. ConversionsHold' /\ FirmInv'
  BY <1>3, <1>4 DEF ConversionsHold, FirmInv, Existing
<1>6. RowsInv' /\ AssignInv'
  BY <1>3 DEF RowsInv, AssignInv, Existing, Subs
<1>7. WishInv'
  BY <1>3, <1>4 DEF WishInv, Existing
<1> QED
  BY <1>2, <1>5, <1>6, <1>7

\* The job expires what it had read, and nothing that is firm but what it raced.
LEMMA SweepKeeps == ASSUME SInv, SweepCommits PROVE SInv'
<1> USE DEF SInv, SubscriptionsTypeOK, SweepCommits, clientOf
<1>1. SubscriptionsTypeOK' /\ ReadOK'
  BY DEF ReadOK, Statuses
<1>2. \A s \in Subs : status'[s] = IF s \in expiring THEN "expired" ELSE status[s]
  OBVIOUS
<1>3. \A s \in Subs : (status[s] = "none") = (status'[s] = "none")
  BY <1>2 DEF RowsInv
<1>4. \A s \in Subs : Firm(s) => Firm(s)'
  BY <1>2 DEF Firm
<1>5. FirmInv'
  BY <1>2, <1>4 DEF FirmInv
<1>6. ConversionsHold'
  BY <1>2, <1>3, <1>5 DEF ConversionsHold, FirmInv, Firm, Existing
<1>7. RowsInv' /\ AssignInv'
  BY <1>3 DEF RowsInv, AssignInv, Existing, Subs
<1>8. WishInv'
  BY <1>3, <1>4 DEF WishInv, Existing
<1> QED
  BY <1>1, <1>5, <1>6, <1>7, <1>8

\* Whatever a request or the job does, at whatever await, keeps the invariant.
LEMMA SubscriptionsSteps == SInv /\ [SubscriptionsNext]_svars => SInv'
<1> SUFFICES ASSUME SInv, [SubscriptionsNext]_svars PROVE SInv'
  OBVIOUS
<1> USE DEF SGoto, rowsOf, clientOf, jobOf
<1>1. ASSUME NEW c \in Clients, NEW p \in Plans, NEW st \in Statuses, Assign(c, p, st) PROVE SInv'
  <2> USE <1>1 DEF SInv, SubscriptionsTypeOK, Assign
  <2>1. lastSub' \in Subs /\ lastSub' = lastSub + 1 /\ status[lastSub'] = "none"
    BY DEF RowsInv, Subs
  <2>2. SubscriptionsTypeOK' /\ ReadOK'
    BY <2>1 DEF ReadOK
  <2>3. ConversionsHold' /\ FirmInv'
    BY DEF ConversionsHold, FirmInv, Firm, Existing
  <2>4. RowsInv'
    BY <2>1 DEF RowsInv, Existing, Subs
  <2>5. AssignInv'
    <3>1. /\ spc'[c] = "assign" /\ sid'[c] = lastSub + 1 /\ lastSub \in Nat
          /\ was'[c] = st /\ wish'[c] = p
      BY DEF ReadOK, Subs
    <3>2. ASSUME NEW d \in Clients \ {c}
          PROVE  spc'[d] = spc[d] /\ sid'[d] = sid[d] /\ was'[d] = was[d] /\ wish'[d] = wish[d]
      BY DEF ReadOK
    <3>3. lastSub' = lastSub + 1 /\ status' = status
      OBVIOUS
    <3>4. \A d \in Clients \ {c} : spc[d] = "assign" => sid[d] # lastSub + 1 /\ sid[d] \in 1..(lastSub + 1)
      BY <3>1 DEF AssignInv
    <3> HIDE DEF SInv, SubscriptionsTypeOK, Assign
    <3>5. SInv
      OBVIOUS
    <3> QED
      BY <2>1, <3>1, <3>2, <3>3, <3>4, <3>5 DEF AssignInv, SInv
  <2>6. WishInv'
    BY DEF WishInv, Existing, Firm
  <2> QED
    BY <2>2, <2>3, <2>4, <2>5, <2>6
<1>2. ASSUME NEW c \in Clients, NEW p \in Plans \cup {None}, NEW next \in {"change", "cancel"},
             next = "change" => p \in Plans, ReadLatest(c, p, next)
      PROVE  SInv'
  <2> USE <1>2 DEF SInv, SubscriptionsTypeOK, ReadLatest
  <2>1. Latest \in Subs /\ status[Latest] # "none"
    BY LatestExists DEF RowsInv, Existing
  <2> HIDE DEF Latest
  <2>2. /\ [plan |-> plan[Latest], status |-> status[Latest]]
             \in [plan : Plans, status : Statuses]
        /\ [plan |-> plan[Latest], status |-> status[Latest]].status = status[Latest]
    BY <2>1
  <2>3. SubscriptionsTypeOK' /\ ReadOK'
    BY <2>1, <2>2 DEF ReadOK
  <2>4. ConversionsHold' /\ FirmInv' /\ RowsInv'
    BY DEF ConversionsHold, FirmInv, RowsInv, Firm, Existing
  <2>5. AssignInv'
    BY DEF AssignInv
  <2>6. WishInv'
    <3>1. was'[c].status = "active" => Firm(sid[c])'
      <4>1. was'[c].status = status[Latest] /\ sid'[c] = Latest
        BY <2>2 DEF ReadOK
      <4>2. status[Latest] = "active" => Firm(Latest)
        BY <2>1 DEF FirmInv
      <4> QED
        BY <4>1, <4>2 DEF Firm
    <3>2. /\ sid'[c] \in Existing' /\ was'[c] \in [plan : Plans, status : Statuses]
          /\ spc'[c] = "change" => wish'[c] \in Plans
      BY <2>1, <2>2 DEF Existing, ReadOK
    <3>3. ASSUME NEW d \in Clients \ {c} 
          PROVE  /\ spc'[d] = spc[d] /\ sid'[d] = sid[d] /\ was'[d] = was[d] /\ wish'[d] = wish[d]
                 /\ \A s \in Subs : Firm(s) => Firm(s)'
      BY DEF ReadOK, Firm
    <3>4. ASSUME NEW d \in Clients \ {c}, spc'[d] \in {"change", "cancel"}
          PROVE  /\ sid'[d] \in Existing'
                 /\ was'[d] \in [plan : Plans, status : Statuses]
                 /\ spc'[d] = "change" => wish'[d] \in Plans
                 /\ was'[d].status = "active" => Firm(sid[d])'
      BY <3>3, <3>4 DEF WishInv, Existing
    <3> QED
      BY <3>1, <3>2, <3>4 DEF WishInv
  <2> QED
    BY <2>3, <2>4, <2>5, <2>6
<1>3. ASSUME NEW c \in Clients, ClientFails(c) PROVE SInv'
  <2>1. SubscriptionsTypeOK'
    BY <1>3 DEF ClientFails, SInv, SubscriptionsTypeOK
  <2> QED
    BY <1>3, <2>1, RowsKept DEF ClientFails, SInv, SubscriptionsTypeOK
<1>4. ASSUME NEW c \in Clients, GatePlans(c) PROVE SInv'
  <2>1. SubscriptionsTypeOK'
    <3>1. \E P \in SUBSET Plans : paidFor' = [paidFor EXCEPT ![c] = P]
      <4> DEFINE P == {plan[s] : s \in {x \in Existing : status[x] \in Paid}}
      <4>1. P \in SUBSET Plans
        BY DEF SInv, SubscriptionsTypeOK, Existing
      <4>2. paidFor' = [paidFor EXCEPT ![c] = P]
        BY <1>4 DEF GatePlans
      <4> HIDE DEF P
      <4> QED
        BY <4>1, <4>2
    <3>2. paidFor' \in [Clients -> SUBSET Plans]
      BY <3>1 DEF SInv, SubscriptionsTypeOK
    <3>3. spc' \in [Clients -> {"new", "assign", "change", "cancel", "gate", "done"}]
      <4>1. \E p \in {"gate", "done"} : spc' = [spc EXCEPT ![c] = p]
        <5> DEFINE P == {plan[s] : s \in {x \in Existing : status[x] \in Paid}}
        <5>1. IF P = {} THEN SGoto(c, "done") ELSE SGoto(c, "gate")
          BY <1>4 DEF GatePlans
        <5> HIDE DEF P
        <5> QED
          BY <5>1 DEF SGoto
      <4> QED
        BY <4>1 DEF SInv, SubscriptionsTypeOK
    <3>4. verdict' \in [Clients -> {"402", "pass", "error", None}]
      BY <1>4 DEF GatePlans, SInv, SubscriptionsTypeOK
    <3>5. UNCHANGED <<rowsOf, wish, sid, was, jobOf>>
      BY <1>4 DEF GatePlans
    <3> QED
      BY <3>2, <3>3, <3>4, <3>5 DEF rowsOf, jobOf, SInv, SubscriptionsTypeOK
  <2> QED
    <3>1. /\ UNCHANGED <<plan, status, lastSub, invoiced, converted, raced, was, wish, sid, due, expiring>>
          /\ spc' = [spc EXCEPT ![c] = "gate"] \/ spc' = [spc EXCEPT ![c] = "done"]
      BY <1>4 DEF GatePlans, SGoto, rowsOf, jobOf
    <3>2. spc \in [Clients -> {"new", "assign", "change", "cancel", "gate", "done"}]
      BY DEF SInv, SubscriptionsTypeOK
    <3>3. \A d \in Clients : spc'[d] \in {"assign", "change", "cancel"} => spc'[d] = spc[d]
      BY <3>1, <3>2
    <3> QED
      BY <2>1, <3>1, <3>3, RowsKept
<1>5. ASSUME NEW c \in Clients, GateFeature(c) PROVE SInv'
  <2>1. SubscriptionsTypeOK'
    BY <1>5 DEF GateFeature, SInv, SubscriptionsTypeOK
  <2> QED
    BY <1>5, <2>1, RowsKept DEF GateFeature, SInv, SubscriptionsTypeOK
<1>6. ASSUME NEW s \in Subs, TrialEnds(s) PROVE SInv'
  <2>1. SubscriptionsTypeOK'
    BY <1>6 DEF TrialEnds, SInv, SubscriptionsTypeOK
  <2> QED
    BY <1>6, <2>1, RowsKept DEF TrialEnds
<1>7. ASSUME Sweep PROVE SInv'
  <2>1. SubscriptionsTypeOK'
    BY <1>7 DEF Sweep, SInv, SubscriptionsTypeOK
  <2> QED
    BY <1>7, <2>1, RowsKept DEF Sweep
<1>8. ASSUME Notify \/ SweepStops PROVE SInv'
  <2>1. SubscriptionsTypeOK'
    BY <1>8 DEF Notify, SweepStops, SInv, SubscriptionsTypeOK
  <2> QED
    BY <1>8, <2>1, RowsKept DEF Notify, SweepStops
<1>9. CASE UNCHANGED svars
  <2>1. SubscriptionsTypeOK'
    BY <1>9 DEF svars, SInv, SubscriptionsTypeOK
  <2> QED
    BY <1>9, <2>1, RowsKept DEF svars
<1>10. ASSUME NEW c \in Clients, NEW p \in Plans, ChangePlan(c, p) \/ CancelLatest(c) PROVE SInv'
  BY <1>10, <1>2 DEF ChangePlan, CancelLatest
<1> QED
  BY <1>1, <1>3, <1>4, <1>5, <1>6, <1>7, <1>8, <1>9, <1>10, AssignKeeps, ChangeKeeps, PlanCancelKeeps, SweepKeeps
     DEF SubscriptionsNext, ClientStep, SweepStep

\* A conversion holds.
THEOREM ConversionLasts == SubscriptionsSpec => []ConversionsHold
<1>1. SubscriptionsSpec => []SInv
  BY SubscriptionsStart, SubscriptionsSteps, PTL DEF SubscriptionsSpec
<1> QED
  BY <1>1, PTL DEF SInv
=============================================================================
