------------------------------ MODULE RbacProofs -----------------------------
(****************************************************************************)
(* Grants are replaced, rows made once, an administrator is left and a      *)
(* process that serves finds the database seeded, for any number of         *)
(* requests, roles, permissions, users, keys and processes.                 *)
(****************************************************************************)
EXTENDS Grants, Catalog, Administrators, Startup, FiniteSetTheorems,
        SequenceTheorems, TLAPS

-----------------------------------------------------------------------------
USE GrantsAssumption

\* A request that is under way replaces the rows of one owner.
PutInv == \A r \in Granters : gpc[r] \notin {"new", "done"} => put[r] \in Puts

\* What a transaction inserts is of its payload.  As long as no two replacements
\* of an owner have overlapped, it is the only one there, it has seen the owner's
\* rows as they are, and once it has locked them it has deleted them all.
TxInv == \A r \in Granters : InTx(r) =>
  /\ added[r] \subseteq put[r].items
  /\ Owner(r) \notin mixed => /\ Rivals(r) = {}
                              /\ snap[r] = links[Owner(r)]
                              /\ gpc[r] = "insert" => gone[r] = links[Owner(r)]

\* A role has permissions, not roles.
RoleInv == \A o \in Roles : links[o] \subseteq Permissions

\* A request has inserted rows only in its transaction.
IdleInv == \A r \in Granters : ~InTx(r) => added[r] = {}

\* PutsReplace with what the transactions under way have done.
GInv == GrantsTypeOK /\ PutsReplace /\ PutInv /\ TxInv /\ RoleInv /\ IdleInv

\* Every payload is for one owner, and gives items.
LEMMA PutShape == \A p \in Puts :
  /\ p.owner \in Owners /\ p.items \subseteq Items
  /\ p.owner \in Roles => p.items \subseteq Permissions
  /\ p.owner \notin Roles => p.items \subseteq Roles
BY DEF Owners, Items

\* Sets that include each other are one.
LEMMA SameItems == ASSUME NEW A, NEW B, A \subseteq B, B \subseteq A PROVE A = B
OBVIOUS

\* Nothing but the new rows is left when all the old ones are deleted.
LEMMA AllReplaced == ASSUME NEW L, NEW G, NEW A, G = L PROVE (L \ G) \cup A = A
OBVIOUS

\* Nothing is under way at the start.
LEMMA GrantsStart == GrantsInit => GInv
BY DEF GrantsInit, GInv, GrantsTypeOK, PutsReplace, PutInv, TxInv, RoleInv, IdleInv, InTx

\* A transaction that is rolled back leaves the rows, and the others, alone.
LEMMA GrantFailsKeeps == ASSUME GInv, NEW r \in Granters, GrantFails(r) PROVE GInv'
BY DEF GInv, GrantsTypeOK, PutsReplace, PutInv, TxInv, RoleInv, IdleInv, InTx, Rivals, Owner, GrantFails,
       GrantEnds, GGoto

\* Every statement of a replacement keeps the invariant.
LEMMA GrantsSteps == GInv /\ [GrantsNext]_gvars => GInv'
<1> SUFFICES ASSUME GInv, [GrantsNext]_gvars PROVE GInv'
  OBVIOUS
<1> USE DEF GInv, GrantsTypeOK, PutsReplace, PutInv, TxInv, RoleInv, IdleInv, InTx, Rivals, Owner, gtx, GGoto
<1>1. ASSUME NEW r \in Granters, NEW u \in Members \cup {Root}, NEW p \in Puts, GrantStarts(r, u, p)
      PROVE  GInv'
  BY <1>1 DEF GrantStarts
<1>2. ASSUME NEW r \in Granters, Scope(r) PROVE GInv'
  <2> DEFINE mayAssign == Has(caller[r], Manage) /\ (Owner(r) \in Members => links[Owner(r)] # {AdminRole})
             toAsk == IF caller[r] = Root THEN {}
                      ELSE IF Owner(r) \in Roles THEN put[r].items
                      ELSE UNION {links[role] : role \in put[r].items}
  <2>1. CASE ~mayAssign
    BY <1>2, <2>1, GrantFailsKeeps DEF Scope
  <2>2. CASE mayAssign
    <3>1. put[r] \in Puts
      BY <1>2 DEF Scope
    <3>2. toAsk \subseteq Permissions
      BY <3>1, PutShape
    <3>3. GGoto(r, "ask") /\ gpc[r] = "scope" /\ ask' = [ask EXCEPT ![r] = toAsk]
          /\ UNCHANGED <<links, caller, put, gtx, lastPut, mixed>>
      BY <1>2, <2>2 DEF Scope
    <3> HIDE DEF mayAssign, toAsk
    <3> QED
      BY <3>1, <3>2, <3>3
  <2> QED
    BY <2>1, <2>2
<1>3. ASSUME NEW r \in Granters, NEW x \in Permissions, Ask(r, x) PROVE GInv'
  BY <1>3, GrantFailsKeeps DEF Ask
<1>4. ASSUME NEW r \in Granters, DeleteLinks(r) PROVE GInv'
  BY <1>4, PutShape DEF DeleteLinks
<1>5. ASSUME NEW r \in Granters, LockLinks(r) PROVE GInv'
  BY <1>5 DEF LockLinks
<1>6. ASSUME NEW r \in Granters, NEW x \in Items, InsertLink(r, x) PROVE GInv'
  BY <1>6, GrantFailsKeeps DEF InsertLink, Missing
<1>7. ASSUME NEW r \in Granters, CommitGrant(r) PROVE GInv'
  <2>1. put[r] \in Puts /\ InTx(r) /\ Owner(r) \in Owners /\ added[r] = put[r].items
    <3>1. gpc[r] = "insert" /\ put[r].items \subseteq added[r]
      BY <1>7 DEF CommitGrant, Missing
    <3>2. put[r] \in Puts /\ InTx(r) /\ added[r] \subseteq put[r].items
      BY <3>1
    <3>3. added[r] = put[r].items
      BY ONLY <3>1, <3>2, SameItems
    <3>4. Owner(r) \in Owners
      BY <3>2, PutShape
    <3> QED
      BY <3>2, <3>3, <3>4
  <2>2. GrantsTypeOK' /\ PutInv' /\ IdleInv'
    BY <1>7, <2>1, PutShape DEF CommitGrant
  <2>3. PutsReplace'
    <3>1. /\ links' = [links EXCEPT ![Owner(r)] = (@ \ gone[r]) \cup added[r]]
          /\ lastPut' = [lastPut EXCEPT ![Owner(r)] = put[r].items]
          /\ gpc[r] = "insert" /\ mixed' = mixed
      BY <1>7 DEF CommitGrant
    <3>2. ASSUME NEW o \in Owners \ {Owner(r)} PROVE links'[o] = links[o] /\ lastPut'[o] = lastPut[o]
      BY <2>1, <3>1
    <3>3. lastPut'[Owner(r)] \subseteq links'[Owner(r)]
      BY <2>1, <3>1
    <3>4. Owner(r) \notin mixed => gone[r] = links[Owner(r)]
      BY <3>1
    <3>5. Owner(r) \notin mixed => links'[Owner(r)] = lastPut'[Owner(r)]
      <4>1. /\ links'[Owner(r)] = (links[Owner(r)] \ gone[r]) \cup added[r]
            /\ lastPut'[Owner(r)] = added[r]
        BY <2>1, <3>1
      <4> QED
        BY <3>4, <4>1, AllReplaced
    <3>6. ASSUME NEW o \in Owners, lastPut'[o] # None
          PROVE  lastPut'[o] \subseteq links'[o] /\ (links'[o] = lastPut'[o] \/ o \in mixed')
      <4>1. CASE o = Owner(r)
        BY <3>1, <3>3, <3>5, <4>1
      <4>2. CASE o # Owner(r)
        BY <3>1, <3>2, <3>6, <4>2
      <4> QED
        BY <4>1, <4>2
    <3> QED
      BY <3>6
  <2>4. TxInv'
    BY <1>7, <2>1 DEF CommitGrant
  <2>5. RoleInv'
    BY <1>7, <2>1, PutShape DEF CommitGrant
  <2> QED
    BY <2>2, <2>3, <2>4, <2>5
<1>8. ASSUME NEW r \in Granters, AbortGrant(r) PROVE GInv'
  BY <1>8, GrantFailsKeeps DEF AbortGrant
<1>9. CASE UNCHANGED gvars
  BY <1>9 DEF gvars
<1> QED
  BY <1>1, <1>2, <1>3, <1>4, <1>5, <1>6, <1>7, <1>8, <1>9 DEF GrantsNext, GrantStep

\* However replacements of roles' permissions and users' roles overlap, what the
\* latest gave is there, and nothing else unless two of one owner overlapped.
THEOREM ReplacementsHold == GrantsSpec => []PutsReplace
<1>1. GInv => PutsReplace
  BY DEF GInv
<1> QED
  BY <1>1, GrantsStart, GrantsSteps, PTL DEF GrantsSpec

HIDE GrantsAssumption

-----------------------------------------------------------------------------
USE CatalogAssumption

\* A maker that runs is at a key of its order.
OrderInv == \A r \in Makers :
  /\ Active(r) => order[r] \in Orders /\ nth[r] \in 1..Len(order[r].keys)
  /\ ~Active(r) => nth[r] = 1 /\ unsent[r] = None /\ tied[r] = {}

\* It links only keys that are there, or that it has inserted itself.
LinkInv == \A r \in Makers :
  /\ tied[r] \cup ({unsent[r]} \ {None}) \subseteq stored \cup fresh[r]
  /\ mpc[r] = "link" => Key(r) \in stored \cup fresh[r]

\* What it is to insert is not there, as far as it has looked and nobody has
\* committed since.
LookedInv == \A r \in Makers :
  /\ unsent[r] # None => unsent[r] \notin tied[r] /\ (r \in hurried \/ unsent[r] \notin linked)
  /\ mpc[r] = "insert" => order[r].kind = "create" \/ r \in hurried \/ Key(r) \notin stored
  /\ r \in refused => mpc[r] = "done"

\* RefusedOnlyInRace with what each maker has looked at.
CInv == CatalogTypeOK /\ RefusedOnlyInRace /\ OrderInv /\ LinkInv /\ LookedInv

\* Every order names keys.
LEMMA OrderShape ==
  \A o \in Orders : Len(o.keys) \in Nat \ {0} /\ \A i \in 1..Len(o.keys) : o.keys[i] \in Keys
OBVIOUS

\* No maker runs at the start.
LEMMA CatalogStart == CatalogInit => CInv
BY DEF CatalogInit, CInv, CatalogTypeOK, RefusedOnlyInRace, OrderInv, LinkInv, LookedInv, Active

\* A maker that ends without a commit adds nothing, and is refused for what it
\* found only if another one has committed.
LEMMA MakerEndsKeeps ==
  ASSUME CInv, NEW r \in Makers, MakerEnds(r), UNCHANGED <<stored, linked, order, hurried>>,
         \/ refused' = refused
         \/ refused' = refused \cup {r} /\ (order[r].kind = "create" \/ r \in hurried)
  PROVE  CInv'
<1> USE DEF CInv, CatalogTypeOK, RefusedOnlyInRace, OrderInv, LinkInv, LookedInv, Active, Key,
            MakerEnds, MGoto
<1>1. CatalogTypeOK'
  BY OrderShape
<1>2. RefusedOnlyInRace'
  OBVIOUS
<1>3. OrderInv'
  OBVIOUS
<1>4. LinkInv'
  OBVIOUS
<1>5. LookedInv'
  OBVIOUS
<1> QED
  BY <1>1, <1>2, <1>3, <1>4, <1>5

\* A step leaves the shape of the tables and of the makers.
LEMMA MakersTyped == CatalogTypeOK /\ OrderInv /\ LinkInv /\ [CatalogNext]_cvars => CatalogTypeOK'
<1> SUFFICES ASSUME CatalogTypeOK, OrderInv, LinkInv, [CatalogNext]_cvars PROVE CatalogTypeOK'
  OBVIOUS
<1>0. ASSUME NEW r \in Makers, MakerEnds(r), UNCHANGED <<stored, linked, order, hurried>>,
             refused' = refused \/ refused' = refused \cup {r}
      PROVE  CatalogTypeOK'
  BY <1>0 DEF CatalogTypeOK, MakerEnds, MGoto
<1>1. ASSUME NEW r \in Makers, NEW o \in Orders, MakerStarts(r, o) PROVE CatalogTypeOK'
  <2>1. nth[r] = 1
    BY <1>1 DEF OrderInv, Active, MakerStarts
  <2>2. Len(o.keys) \in Nat \ {0}
    BY <1>1, OrderShape
  <2>3. \A q \in Makers : order'[q] # None => nth[q] <= Len(order'[q].keys)
    BY <1>1, <2>1, <2>2 DEF CatalogTypeOK, MakerStarts
  <2>4. \E p \in {"insert", "find"} : mpc' = [mpc EXCEPT ![r] = p]
    BY <1>1 DEF MakerStarts, MGoto
  <2> QED
    BY <1>1, <2>3, <2>4 DEF CatalogTypeOK, MakerStarts
<1>2. ASSUME NEW r \in Makers, FlushLink(r) PROVE CatalogTypeOK'
  <2>1. CASE unsent[r] \in linked \cup tied[r]
    BY <1>2, <2>1, <1>0 DEF FlushLink, Conflict
  <2>2. CASE unsent[r] \notin linked \cup tied[r]
    BY <1>2, <2>2 DEF FlushLink, CatalogTypeOK
  <2> QED
    BY <2>1, <2>2
<1>3. ASSUME NEW r \in Makers, FindKey(r) PROVE CatalogTypeOK'
  <2>1. CASE MakerEnds(r)
    BY <1>3, <2>1, <1>0 DEF FindKey
  <2>2. CASE ~MakerEnds(r)
    <3>1. \E p \in {"insert", "link"} : mpc' = [mpc EXCEPT ![r] = p]
      BY <1>3, <2>2 DEF FindKey, MGoto
    <3> QED
      BY <1>3, <2>2, <3>1 DEF FindKey, CatalogTypeOK
  <2> QED
    BY <2>1, <2>2
<1>4. ASSUME NEW r \in Makers, InsertKey(r) PROVE CatalogTypeOK'
  <2>1. CASE Key(r) \in stored
    BY <1>4, <2>1, <1>0 DEF InsertKey, Conflict
  <2>2. CASE Key(r) \notin stored
    <3>1. Key(r) \in Keys
      BY <1>4, OrderShape DEF InsertKey, Key, OrderInv, Active
    <3>2. fresh' \in [Makers -> SUBSET Keys]
      <4>1. fresh' = [fresh EXCEPT ![r] = @ \cup {Key(r)}]
        BY <1>4, <2>2 DEF InsertKey
      <4>2. fresh \in [Makers -> SUBSET Keys]
        BY DEF CatalogTypeOK
      <4> QED
        BY <3>1, <4>1, <4>2
    <3>3. \E p \in {"link", "commit"} : mpc' = [mpc EXCEPT ![r] = p]
      BY <1>4, <2>2 DEF InsertKey, MGoto
    <3> QED
      BY <1>4, <2>2, <3>2, <3>3 DEF InsertKey, CatalogTypeOK
  <2> QED
    BY <2>1, <2>2
<1>5. ASSUME NEW r \in Makers, FindLink(r) PROVE CatalogTypeOK'
  <2>1. Key(r) \in Keys /\ order[r] \in Orders
    BY <1>5, OrderShape DEF FindLink, Key, OrderInv, Active
  <2>2. unsent' \in [Makers -> Keys \cup {None}]
    BY <1>5, <2>1 DEF FindLink, CatalogTypeOK
  <2>3. \E p \in {"find", "commit"} : mpc' = [mpc EXCEPT ![r] = p]
    BY <1>5 DEF FindLink, NextKey, MGoto
  <2>4. /\ nth' \in [Makers -> Nat \ {0}]
        /\ \A q \in Makers : order[q] # None => nth'[q] <= Len(order[q].keys)
    <3>1. CASE nth[r] < Len(order[r].keys)
      <4>1. nth' = [nth EXCEPT ![r] = nth[r] + 1]
        BY <1>5, <3>1 DEF FindLink, NextKey
      <4>2. nth[r] \in Nat \ {0} /\ Len(order[r].keys) \in Nat
        BY <1>5, <2>1, OrderShape DEF CatalogTypeOK
      <4> QED
        BY <3>1, <4>1, <4>2 DEF CatalogTypeOK
    <3>2. CASE ~(nth[r] < Len(order[r].keys))
      BY <1>5, <3>2 DEF FindLink, NextKey, CatalogTypeOK
    <3> QED
      BY <3>1, <3>2
  <2>5. mpc' \in [Makers -> {"new", "find", "insert", "link", "commit", "done"}]
    BY <2>3 DEF CatalogTypeOK
  <2>6. UNCHANGED <<stored, linked, order, fresh, tied, refused, hurried>>
    BY <1>5 DEF FindLink
  <2> QED
    BY <2>2, <2>4, <2>5, <2>6 DEF CatalogTypeOK
<1>6. ASSUME NEW r \in Makers, CommitKeys(r) PROVE CatalogTypeOK'
  <2>1. stored' \subseteq Keys /\ linked' \subseteq stored'
    BY <1>6 DEF CommitKeys, CatalogTypeOK, LinkInv
  <2>2. mpc' = [mpc EXCEPT ![r] = "done"] /\ nth' = [nth EXCEPT ![r] = 1]
    BY <1>6 DEF CommitKeys, MakerEnds, MGoto
  <2>3. \A q \in Makers : order[q] # None => nth'[q] <= Len(order[q].keys)
    BY <1>6, <2>2, OrderShape DEF CatalogTypeOK
  <2>4. UNCHANGED <<order, refused>> /\ hurried' \subseteq Makers
    BY <1>6 DEF CommitKeys, CatalogTypeOK
  <2>5. fresh' \in [Makers -> SUBSET Keys] /\ tied' \in [Makers -> SUBSET Keys]
    BY <1>6 DEF CommitKeys, MakerEnds, CatalogTypeOK
  <2>6. unsent' \in [Makers -> Keys \cup {None}]
    BY <1>6 DEF CommitKeys, MakerEnds, CatalogTypeOK
  <2>7. /\ mpc' \in [Makers -> {"new", "find", "insert", "link", "commit", "done"}]
        /\ nth' \in [Makers -> Nat \ {0}]
    BY <2>2 DEF CatalogTypeOK
  <2> QED
    BY <2>1, <2>3, <2>4, <2>5, <2>6, <2>7 DEF CatalogTypeOK
<1>7. ASSUME NEW r \in Makers, AbortMaker(r) PROVE CatalogTypeOK'
  <2>1. MakerEnds(r) /\ refused' = refused /\ UNCHANGED <<stored, linked, order, hurried>>
    BY <1>7 DEF AbortMaker
  <2> QED
    BY <2>1, <1>0
<1>8. CASE UNCHANGED cvars
  BY <1>8 DEF cvars, CatalogTypeOK
<1> QED
  BY <1>1, <1>2, <1>3, <1>4, <1>5, <1>6, <1>7, <1>8 DEF CatalogNext, MakerStep

\* Every statement of a maker keeps the invariant, whatever the others do.
LEMMA CatalogSteps == CInv /\ [CatalogNext]_cvars => CInv'
<1> SUFFICES ASSUME CInv, [CatalogNext]_cvars PROVE CInv'
  OBVIOUS
<1> DEFINE Rest == RefusedOnlyInRace /\ OrderInv /\ LinkInv /\ LookedInv
<1>0. CatalogTypeOK'
  BY MakersTyped DEF CInv
<1> USE DEF CInv, CatalogTypeOK, RefusedOnlyInRace, OrderInv, LinkInv, LookedInv, Active, Key, MGoto
<1>1. ASSUME NEW r \in Makers, NEW o \in Orders, MakerStarts(r, o) PROVE Rest'
  BY <1>1, OrderShape DEF MakerStarts
<1>2. ASSUME NEW r \in Makers, FlushLink(r) PROVE Rest'
  <2>1. CASE unsent[r] \in linked \cup tied[r]
    <3>1. MakerEnds(r) /\ refused' = refused \cup {r} /\ UNCHANGED <<stored, linked, order, hurried>>
      BY <1>2, <2>1 DEF FlushLink, Conflict
    <3>2. r \in hurried
      BY <1>2, <2>1 DEF FlushLink
    <3> QED
      BY <3>1, <3>2, MakerEndsKeeps
  <2>2. CASE unsent[r] \notin linked \cup tied[r]
    <3>1. RefusedOnlyInRace' /\ OrderInv'
      BY <1>2, <2>2 DEF FlushLink
    <3>2. LinkInv'
      BY <1>2, <2>2 DEF FlushLink
    <3>3. LookedInv'
      BY <1>2, <2>2 DEF FlushLink
    <3> QED
      BY <3>1, <3>2, <3>3
  <2> QED
    BY <2>1, <2>2
<1>3. ASSUME NEW r \in Makers, FindKey(r) PROVE Rest'
  <2>1. CASE Key(r) \in stored \cup fresh[r] /\ order[r].kind # "map"
    BY <1>3, <2>1, MakerEndsKeeps DEF FindKey
  <2>2. CASE ~(Key(r) \in stored \cup fresh[r] /\ order[r].kind # "map")
    <3>1. /\ UNCHANGED <<stored, linked, order, nth, fresh, tied, unsent, refused, hurried>>
          /\ \/ mpc' = [mpc EXCEPT ![r] = "insert"] /\ Key(r) \notin stored
             \/ mpc' = [mpc EXCEPT ![r] = "link"] /\ Key(r) \in stored \cup fresh[r]
      BY <1>3, <2>2 DEF FindKey
    <3>2. RefusedOnlyInRace'
      BY <3>1
    <3>3. OrderInv'
      BY <1>3, <3>1 DEF FindKey
    <3>4. LinkInv'
      BY <1>3, <3>1 DEF FindKey
    <3>5. LookedInv'
      BY <1>3, <3>1 DEF FindKey
    <3> QED
      BY <3>2, <3>3, <3>4, <3>5
  <2> QED
    BY <2>1, <2>2
<1>4. ASSUME NEW r \in Makers, InsertKey(r) PROVE Rest'
  <2>1. CASE Key(r) \in stored
    <3>1. MakerEnds(r) /\ refused' = refused \cup {r} /\ UNCHANGED <<stored, linked, order, hurried>>
      BY <1>4, <2>1 DEF InsertKey, Conflict
    <3>2. order[r].kind = "create" \/ r \in hurried
      BY <1>4, <2>1 DEF InsertKey
    <3> QED
      BY <3>1, <3>2, MakerEndsKeeps
  <2>2. CASE Key(r) \notin stored
    <3>1. RefusedOnlyInRace'
      BY <1>4, <2>2, OrderShape DEF InsertKey
    <3>2. OrderInv'
      BY <1>4, <2>2, OrderShape DEF InsertKey
    <3>3. LinkInv'
      BY <1>4, <2>2, OrderShape DEF InsertKey
    <3>4. LookedInv'
      BY <1>4, <2>2, OrderShape DEF InsertKey
    <3> QED
      BY <3>1, <3>2, <3>3, <3>4
  <2> QED
    BY <2>1, <2>2
<1>5. ASSUME NEW r \in Makers, FindLink(r) PROVE Rest'
  <2>1. Key(r) \in Keys
    BY <1>5, OrderShape DEF FindLink
  <2>2. OrderInv'
    BY <1>5, OrderShape DEF FindLink, NextKey
  <2>3. LinkInv'
    BY <1>5, <2>1 DEF FindLink, NextKey
  <2>4. LookedInv' /\ RefusedOnlyInRace'
    BY <1>5, <2>1 DEF FindLink, NextKey
  <2> QED
    BY <2>2, <2>3, <2>4
<1>6. ASSUME NEW r \in Makers, CommitKeys(r) PROVE Rest'
  BY <1>6, OrderShape DEF CommitKeys, MakerEnds
<1>7. ASSUME NEW r \in Makers, AbortMaker(r) PROVE Rest'
  BY <1>7, MakerEndsKeeps DEF AbortMaker
<1>8. ASSUME UNCHANGED cvars PROVE Rest'
  BY <1>8 DEF cvars
<1> HIDE DEF CInv, CatalogTypeOK, RefusedOnlyInRace, OrderInv, LinkInv, LookedInv, Rest
<1>9. Rest'
  BY <1>1, <1>2, <1>3, <1>4, <1>5, <1>6, <1>7, <1>8 DEF CatalogNext, MakerStep
<1> QED
  BY <1>0, <1>9 DEF CInv, Rest

\* However many requests add roles, permissions, features and plans at once, one
\* that looks first is refused only when another committed while it ran.
THEOREM RefusalsAreRaces == CatalogSpec => []RefusedOnlyInRace
<1>1. CInv => RefusedOnlyInRace
  BY DEF CInv
<1> QED
  BY <1>1, CatalogStart, CatalogSteps, PTL DEF CatalogSpec

HIDE CatalogAssumption

-----------------------------------------------------------------------------
USE AdministratorsAssumption

\* What an editor is given, and whether it is at work.
Updates == [user : Accounts, role : {"admin", "user"}]
Editing(r) == epc[r] \notin {"new", "done"}

\* The rows, and the editors between and inside their transactions.
EditorsOK ==
  /\ epc \in [Editors -> {"new", "done", "load", "count", "tally", "scan", "write", "commit"}]
  /\ edit \in [Editors -> Seq(Updates)] /\ at \in [Editors -> Nat] /\ tally \in [Editors -> Int]
  /\ seen \in [Editors -> [Accounts -> {"admin", "user", "gone", None}]]
  /\ wrote \in [Editors -> [Accounts -> {"admin", "user", None}]]
  /\ bulk \subseteq Editors /\ rowOf \in [Accounts -> Editors \cup {None}]
  /\ \A r \in Editors : IF Editing(r) THEN at[r] \in 1..Len(edit[r])
                                   ELSE at[r] = 1 /\ seen[r] = Blank /\ wrote[r] = Blank

\* The committed roles and the histories.
RolesOK ==
  /\ roleOf \in [Accounts -> {"admin", "user", "gone"}]
  /\ sole \subseteq Accounts /\ excuses \subseteq {"overlap", "repeat", "unguarded"}

\* How many of its updates a transaction has dealt with.
Dealt(r) == IF epc[r] = "commit" THEN Len(edit[r]) ELSE IF epc[r] = "write" THEN at[r] - 1 ELSE 0

\* The administrators there are after the first n updates of an editor.
After(r, n) ==
  {u \in Accounts : \/ \E i \in 1..n : edit[r][i].user = u /\ edit[r][i].role = "admin"
                    \/ roleOf[u] = "admin" /\ \A i \in 1..n : edit[r][i].user # u}

\* An editor alone names no account twice; it has written what it has dealt with,
\* and read the rest as it is; its sum is the number of administrators there will
\* be; and it writes only if one will be left.
Careful(r) ==
  /\ \A i, j \in 1..Len(edit[r]) : edit[r][i].user = edit[r][j].user => i = j
  /\ \A i \in 1..Dealt(r) : Row(r, edit[r][i].user) = edit[r][i].role
  /\ \A u \in Accounts : (\A i \in 1..Dealt(r) : edit[r][i].user # u)
                            => wrote[r][u] = None /\ seen[r][u] \in {None, roleOf[u]}
  /\ epc[r] \in {"load", "count"} => Len(edit[r]) = 1
  /\ epc[r] = "count" => roleOf[edit[r][1].user] = "admin" /\ edit[r][1].role = "user"
  /\ epc[r] = "tally" => at[r] = 1
  /\ epc[r] = "scan" => tally[r] = Cardinality(After(r, at[r] - 1))
  /\ epc[r] \in {"write", "commit"} => After(r, Len(edit[r])) # {}

\* Without an excuse nobody is deleted, one editor is open at a time, and careful.
Quiet ==
  /\ roleOf \in [Accounts -> {"admin", "user"}] /\ Admins # {}
  /\ \A q, r \in Editors : Editing(q) /\ Editing(r) => q = r
  /\ \A r \in Editors : Editing(r) => Careful(r)

\* The shapes; and, as long as there is no excuse, that nobody is in the way.
AdminsInv == EditorsOK /\ RolesOK /\ (excuses = {} => Quiet)

-----------------------------------------------------------------------------
\* What an editor can be at, can have read and can have written.
EditPlaces == {"new", "done", "load", "count", "tally", "scan", "write", "commit"}
Views  == [Accounts -> {"admin", "user", "gone", None}]
Writes == [Accounts -> {"admin", "user", None}]

\* What a step makes of an editor.
Becomes(r, p, s, n, m, v, w) ==
  /\ epc' = [epc EXCEPT ![r] = p] /\ edit' = [edit EXCEPT ![r] = s] /\ at' = [at EXCEPT ![r] = n]
  /\ tally' = [tally EXCEPT ![r] = m] /\ seen' = [seen EXCEPT ![r] = v] /\ wrote' = [wrote EXCEPT ![r] = w]

\* An editor that moves to a place of its own keeps the shape of all.
LEMMA EditorMoves ==
  ASSUME EditorsOK, NEW r \in Editors, NEW p \in EditPlaces, NEW s \in Seq(Updates), NEW n \in Nat, NEW m \in Int,
         NEW v \in Views, NEW w \in Writes, Becomes(r, p, s, n, m, v, w),
         bulk' \subseteq Editors, rowOf' \in [Accounts -> Editors \cup {None}],
         IF p \notin {"new", "done"} THEN n \in 1..Len(s) ELSE n = 1 /\ v = Blank /\ w = Blank
  PROVE  /\ EditorsOK'
         /\ epc'[r] = p /\ edit'[r] = s /\ at'[r] = n /\ tally'[r] = m /\ seen'[r] = v /\ wrote'[r] = w
         /\ \A q \in Editors \ {r} : epc'[q] = epc[q]
<1>1. /\ epc \in [Editors -> EditPlaces] /\ edit \in [Editors -> Seq(Updates)] /\ at \in [Editors -> Nat]
      /\ tally \in [Editors -> Int] /\ seen \in [Editors -> Views] /\ wrote \in [Editors -> Writes]
  BY DEF EditorsOK, EditPlaces, Views, Writes
<1>2. /\ epc' \in [Editors -> EditPlaces] /\ edit' \in [Editors -> Seq(Updates)] /\ at' \in [Editors -> Nat]
      /\ tally' \in [Editors -> Int] /\ seen' \in [Editors -> Views] /\ wrote' \in [Editors -> Writes]
  BY <1>1 DEF Becomes
<1>3. epc'[r] = p /\ edit'[r] = s /\ at'[r] = n /\ tally'[r] = m /\ seen'[r] = v /\ wrote'[r] = w
  BY <1>1 DEF Becomes
<1>4. \A q \in Editors \ {r} : /\ epc'[q] = epc[q] /\ edit'[q] = edit[q] /\ at'[q] = at[q]
                               /\ seen'[q] = seen[q] /\ wrote'[q] = wrote[q]
  BY <1>1 DEF Becomes
<1>5. ASSUME NEW q \in Editors PROVE IF Editing(q)' THEN at'[q] \in 1..Len(edit'[q]) ELSE at'[q] = 1 /\ seen'[q] = Blank /\ wrote'[q] = Blank
  <2>1. CASE q = r BY <2>1, <1>3 DEF Editing
  <2>2. CASE q # r BY <2>2, <1>4 DEF Editing, EditorsOK
  <2> QED BY <2>1, <2>2
<1>6. Blank' = Blank BY DEF Blank
<1>7. EditorsOK' BY <1>2, <1>5, <1>6 DEF EditorsOK, EditPlaces, Views, Writes
<1> QED BY <1>3, <1>4, <1>7

\* An editor between transactions has seen and written nothing.
LEMMA BlankOK == Blank \in Views /\ Blank \in Writes /\ <<>> \in Seq(Updates)
BY DEF Blank, Views, Writes

\* A transaction that ends leaves its editor done, and the others where they are.
LEMMA EndsKeeps ==
  ASSUME EditorsOK, NEW r \in Editors, EditEnds(r)
  PROVE  EditorsOK' /\ epc'[r] = "done" /\ \A q \in Editors \ {r} : epc'[q] = epc[q]
<1>1. Becomes(r, "done", <<>>, 1, 0, Blank, Blank) BY DEF EditEnds, EGoto, Becomes
<1>2. bulk' \subseteq Editors BY DEF EditEnds, EditorsOK
<1>3. rowOf' \in [Accounts -> Editors \cup {None}] BY DEF EditEnds, EditorsOK
<1>4. "done" \in EditPlaces /\ 1 \in Nat /\ 0 \in Int BY DEF EditPlaces
<1> QED BY <1>1, <1>2, <1>3, <1>4, BlankOK, EditorMoves

\* An editor in its transaction is at one of its updates.
LEMMA EntryOK ==
  ASSUME EditorsOK, NEW r \in Editors, Editing(r)
  PROVE  /\ at[r] \in 1..Len(edit[r]) /\ edit[r] \in Seq(Updates) /\ Len(edit[r]) \in Nat
         /\ Entry(r) = edit[r][at[r]]
         /\ Entry(r).user \in Accounts /\ Entry(r).role \in {"admin", "user"}
         /\ \A i \in 1..Len(edit[r]) : edit[r][i].user \in Accounts /\ edit[r][i].role \in {"admin", "user"}
         /\ seen[r] \in Views /\ wrote[r] \in Writes /\ tally[r] \in Int
<1>1. at[r] \in 1..Len(edit[r]) /\ edit[r] \in Seq(Updates) BY DEF EditorsOK
<1>2. Entry(r) = edit[r][at[r]] BY DEF Entry
<1>3. \A i \in 1..Len(edit[r]) : edit[r][i] \in Updates BY <1>1
<1> QED BY <1>1, <1>2, <1>3 DEF EditorsOK, Updates, Views, Writes

\* A role is read as a role, and an account that is there as there.
LEMMA RowOK ==
  ASSUME EditorsOK, RolesOK, NEW r \in Editors, NEW u \in Accounts
  PROVE  /\ Row(r, u) \in {"admin", "user", "gone"} /\ Load(r, u) \in {"admin", "user", "gone"}
         /\ roleOf[u] \in {"admin", "user", "gone"}
         /\ roleOf[u] # "gone" => Row(r, u) # "gone"
BY DEF EditorsOK, RolesOK, Row, Load

\* A step that leaves the committed rows leaves their shape.
LEMMA RolesStay ==
  ASSUME RolesOK, UNCHANGED fixed
  PROVE  RolesOK'
BY DEF RolesOK, fixed

-----------------------------------------------------------------------------
\* Alone, an editor that is as careful after its step leaves all quiet.
LEMMA QuietKept ==
  ASSUME Quiet, UNCHANGED roleOf, NEW r \in Editors, Editing(r), \A q \in Editors \ {r} : epc'[q] = epc[q],
         Editing(r)' => Careful(r)'
  PROVE  Quiet'
<1>1. \A q \in Editors \ {r} : ~Editing(q)' BY DEF Quiet, Editing
<1>2. Admins' = Admins BY DEF Admins
<1> QED BY <1>1, <1>2 DEF Quiet

\* What the updates will have done depends on them and on the committed roles.
LEMMA AfterSame ==
  ASSUME UNCHANGED roleOf, NEW r, edit'[r] = edit[r], NEW n
  PROVE  After(r, n)' = After(r, n)
BY DEF After

\* At the start there is an administrator, and nobody edits.
LEMMA AdminsStart ==
  ASSUME AdminsInit
  PROVE  AdminsInv
<1>1. EditorsOK 
  <2>1. <<>> \in Seq(Updates) OBVIOUS
  <2> QED BY <2>1 DEF AdminsInit, EditorsOK, Editing, Blank
<1>2. RolesOK BY DEF AdminsInit, RolesOK
<1>3. Quiet
  <2>1. \A r \in Editors : ~Editing(r) BY DEF AdminsInit, Editing
  <2> QED BY <2>1 DEF Quiet, AdminsInit, Admins
<1> QED BY <1>1, <1>2, <1>3 DEF AdminsInv

\* A transaction that is rolled back leaves the administrators.
LEMMA EndsQuietly ==
  ASSUME AdminsInv, NEW r \in Editors, EditEnds(r), UNCHANGED fixed, Editing(r)
  PROVE  AdminsInv'
<1>1. EditorsOK' /\ epc'[r] = "done" /\ \A q \in Editors \ {r} : epc'[q] = epc[q] BY EndsKeeps DEF AdminsInv
<1>2. RolesOK' BY RolesStay DEF AdminsInv
<1>3. excuses = {} => Quiet' BY <1>1, QuietKept DEF AdminsInv, Editing, fixed
<1> QED BY <1>1, <1>2, <1>3 DEF AdminsInv, fixed

\* An editor that starts alone, with no account named twice, is careful.
LEMMA StartKeeps ==
  ASSUME AdminsInv, NEW r \in Editors, NEW s \in Seq(Updates), s # <<>>, NEW p \in {"load", "tally"},
         p = "load" => Len(s) = 1, EditStarts(r, s, p), bulk' \subseteq Editors
  PROVE  AdminsInv'
<1>1. EditorsOK /\ RolesOK /\ (excuses = {} => Quiet) BY DEF AdminsInv
<1>2. epc[r] = "new" /\ UNCHANGED <<roleOf, rowOf, sole, at, seen, wrote, tally>> BY DEF EditStarts
<1>3. /\ at \in [Editors -> Nat] /\ tally \in [Editors -> Int] /\ seen \in [Editors -> Views] /\ wrote \in [Editors -> Writes]
      /\ at[r] = 1 /\ seen[r] = Blank /\ wrote[r] = Blank
  BY <1>1, <1>2 DEF EditorsOK, Editing, Views, Writes
<1>4. Becomes(r, p, s, 1, tally[r], Blank, Blank)
  <2>1. at' = [at EXCEPT ![r] = 1] /\ tally' = [tally EXCEPT ![r] = tally[r]] /\ seen' = [seen EXCEPT ![r] = Blank]
        /\ wrote' = [wrote EXCEPT ![r] = Blank] BY <1>2, <1>3
  <2> QED BY <2>1 DEF EditStarts, EGoto, Becomes
<1>5. rowOf' \in [Accounts -> Editors \cup {None}] BY <1>1, <1>2 DEF EditorsOK
<1>6. Len(s) \in Nat \ {0} /\ 1 \in 1..Len(s) /\ tally[r] \in Int /\ p \in EditPlaces BY <1>3 DEF EditPlaces
<1>7. /\ EditorsOK' /\ epc'[r] = p /\ edit'[r] = s /\ at'[r] = 1 /\ seen'[r] = Blank /\ wrote'[r] = Blank
      /\ \A q \in Editors \ {r} : epc'[q] = epc[q]
  BY <1>1, <1>4, <1>5, <1>6, BlankOK, EditorMoves
<1>8. RolesOK' BY <1>1, <1>2 DEF RolesOK, EditStarts
<1>9. ASSUME excuses' = {} PROVE Quiet'
  <2>1. Quiet /\ (\A q \in Editors : ~Editing(q)) /\ IsInjective([i \in DOMAIN s |-> s[i].user])
    BY <1>1, <1>9 DEF EditStarts, Editing
  <2>2. \A i, j \in 1..Len(s) : s[i].user = s[j].user => i = j BY <2>1 DEF IsInjective
  <2>3. Dealt(r)' = 0 BY <1>7 DEF Dealt
  <2>4. \A u \in Accounts : wrote'[r][u] = None /\ seen'[r][u] = None BY <1>7 DEF Blank
  <2>5. Careful(r)' BY <1>6, <1>7, <2>2, <2>3, <2>4 DEF Careful
  <2>6. \A q \in Editors \ {r} : ~Editing(q)' BY <1>7, <2>1 DEF Editing
  <2>7. Admins' = Admins BY <1>2 DEF Admins
  <2> QED BY <2>1, <2>5, <2>6, <2>7, <1>2 DEF Quiet
<1> QED BY <1>7, <1>8, <1>9 DEF AdminsInv

\* A single update that is no demotion leaves an administrator (set_user_role).
LEMMA LoadKeeps ==
  ASSUME AdminsInv, NEW r \in Editors, LoadUser(r)
  PROVE  AdminsInv'
<1>1. EditorsOK /\ RolesOK /\ (excuses = {} => Quiet) /\ Editing(r) /\ epc[r] = "load" BY DEF AdminsInv, LoadUser, Editing
<1> DEFINE e == Entry(r)
<1>2. CASE roleOf[e.user] = "gone" BY <1>1, <1>2, EndsQuietly DEF LoadUser
<1>3. CASE roleOf[e.user] # "gone"
  <2> DEFINE p == IF roleOf[e.user] = "admin" /\ e.role # "admin" THEN "count" ELSE "write"
             v == [seen[r] EXCEPT ![e.user] = roleOf[e.user]]
  <2>1. /\ at[r] \in 1..Len(edit[r]) /\ edit[r] \in Seq(Updates) /\ e = edit[r][at[r]] /\ Len(edit[r]) \in Nat
        /\ e.user \in Accounts /\ e.role \in {"admin", "user"}
        /\ seen[r] \in Views /\ wrote[r] \in Writes /\ tally[r] \in Int
    BY <1>1, EntryOK
  <2>2. v \in Views BY <2>1, <1>1, <1>3 DEF Views, RolesOK
  <2>3. seen' = [seen EXCEPT ![r] = v] /\ epc' = [epc EXCEPT ![r] = p] /\ UNCHANGED <<edit, bulk, wrote, at, tally, rowOf>> /\ UNCHANGED fixed
    BY <1>3 DEF LoadUser, EGoto
  <2> HIDE DEF v
  <2>4. Becomes(r, p, edit[r], at[r], tally[r], v, wrote[r])
    <3>1. edit' = [edit EXCEPT ![r] = edit[r]] /\ at' = [at EXCEPT ![r] = at[r]] /\ tally' = [tally EXCEPT ![r] = tally[r]]
          /\ wrote' = [wrote EXCEPT ![r] = wrote[r]] BY <2>3, <1>1 DEF EditorsOK
    <3> QED BY <2>3, <3>1 DEF Becomes
  <2>5. p \in EditPlaces /\ p \notin {"new", "done"} /\ at[r] \in Nat /\ bulk' \subseteq Editors /\ rowOf' \in [Accounts -> Editors \cup {None}]
    BY <2>3, <1>1, <2>1 DEF EditorsOK, EditPlaces
  <2> HIDE DEF p
  <2>6. /\ EditorsOK' /\ epc'[r] = p /\ edit'[r] = edit[r] /\ at'[r] = at[r] /\ seen'[r] = v /\ wrote'[r] = wrote[r]
        /\ \A q \in Editors \ {r} : epc'[q] = epc[q]
    BY <1>1, <2>1, <2>2, <2>4, <2>5, EditorMoves
  <2>7. RolesOK' BY <1>1, <2>3, RolesStay
  <2>8. ASSUME excuses = {} PROVE Quiet'
    <3>1. Quiet /\ Careful(r) BY <1>1, <2>8 DEF Quiet
    <3>2. Len(edit[r]) = 1 /\ at[r] = 1 /\ e = edit[r][1] /\ Dealt(r) = 0 BY <3>1, <1>1, <2>1 DEF Careful, Dealt
    <3>3. Dealt(r)' = 0 BY <2>5, <2>6, <3>2 DEF Dealt, p
    <3>4. \A u \in Accounts : wrote[r][u] = None /\ seen[r][u] \in {None, roleOf[u]} BY <3>1, <3>2 DEF Careful
    <3>5. \A u \in Accounts : v[u] \in {None, roleOf[u]} BY <3>4, <2>1 DEF v, Views
    <3>6. ASSUME p = "write" PROVE After(r, 1) # {}
      <4>1. PICK u \in Accounts : roleOf[u] = "admin" BY <3>1 DEF Quiet, Admins
      <4>2. \A i \in 1..1 : i = 1 OBVIOUS
      <4>3. CASE e.role = "admin"
        <5>1. e.user \in After(r, 1) BY <4>2, <4>3, <3>2, <2>1 DEF After
        <5> QED BY <5>1
      <4>4. CASE e.role # "admin"
        <5>1. roleOf[e.user] # "admin" BY <4>4, <3>6 DEF p
        <5>2. u \in After(r, 1) BY <4>1, <4>2, <5>1, <3>2 DEF After
        <5> QED BY <5>2
      <4> QED BY <4>3, <4>4
    <3>7. p = "count" => roleOf[edit[r][1].user] = "admin" /\ edit[r][1].role = "user" BY <3>2, <2>1 DEF p
    <3>8. p \in {"count", "write"} BY DEF p
    <3>9. roleOf' = roleOf BY <2>3 DEF fixed
    <3>10. After(r, 1)' = After(r, 1) BY <3>9, <2>6, AfterSame
    <3>11. Careful(r)' 
      <4>1. \A i \in 1..Dealt(r)' : FALSE BY <3>3
      <4>2. \A i, j \in 1..Len(edit'[r]) : edit'[r][i].user = edit'[r][j].user => i = j BY <3>1, <2>6 DEF Careful
      <4>3. \A u \in Accounts : wrote'[r][u] = None /\ seen'[r][u] \in {None, roleOf'[u]} BY <2>6, <3>4, <3>5, <3>9
      <4>4. Len(edit'[r]) = 1 /\ (p = "write" => After(r, Len(edit[r]))' # {}) BY <2>6, <3>2, <3>6, <3>10
      <4>5. epc'[r] = "count" => roleOf'[edit'[r][1].user] = "admin" /\ edit'[r][1].role = "user" BY <2>6, <3>7, <3>9
      <4>6. epc'[r] \in {"count", "write"} /\ epc'[r] = p BY <2>6, <3>8
      <4> QED BY <4>1, <4>2, <4>3, <4>4, <4>5, <4>6 DEF Careful
    <3> QED BY <3>1, <3>9, <3>11, <1>1, <2>6, QuietKept
  <2> QED BY <2>6, <2>7, <2>8, <2>3 DEF AdminsInv, fixed
<1> QED BY <1>2, <1>3

\* Of two administrators one stays when the other is demoted; the only one is not
\* (the guard of set_user_role).
LEMMA CountKeeps ==
  ASSUME AdminsInv, NEW r \in Editors, CountAdmins(r)
  PROVE  AdminsInv'
<1>1. EditorsOK /\ RolesOK /\ (excuses = {} => Quiet) /\ Editing(r) /\ epc[r] = "count" BY DEF AdminsInv, CountAdmins, Editing
<1>2. CASE Cardinality(Admins) = 1 BY <1>1, <1>2, EndsQuietly DEF CountAdmins
<1>3. CASE Cardinality(Admins) # 1
  <2>1. /\ at[r] \in 1..Len(edit[r]) /\ edit[r] \in Seq(Updates) /\ Entry(r) = edit[r][at[r]] /\ Len(edit[r]) \in Nat
        /\ \A i \in 1..Len(edit[r]) : edit[r][i].user \in Accounts
        /\ seen[r] \in Views /\ wrote[r] \in Writes /\ tally[r] \in Int
    BY <1>1, EntryOK
  <2>3. epc' = [epc EXCEPT ![r] = "write"] /\ UNCHANGED <<edit, bulk, seen, wrote, at, tally, rowOf>> /\ UNCHANGED fixed
    BY <1>3 DEF CountAdmins, EGoto, tx
  <2>4. Becomes(r, "write", edit[r], at[r], tally[r], seen[r], wrote[r])
    <3>1. edit' = [edit EXCEPT ![r] = edit[r]] /\ at' = [at EXCEPT ![r] = at[r]] /\ tally' = [tally EXCEPT ![r] = tally[r]]
          /\ wrote' = [wrote EXCEPT ![r] = wrote[r]] /\ seen' = [seen EXCEPT ![r] = seen[r]] BY <2>3, <1>1 DEF EditorsOK
    <3> QED BY <2>3, <3>1 DEF Becomes
  <2>5. "write" \in EditPlaces /\ "write" \notin {"new", "done"} /\ at[r] \in Nat /\ bulk' \subseteq Editors /\ rowOf' \in [Accounts -> Editors \cup {None}]
    BY <2>3, <1>1, <2>1 DEF EditorsOK, EditPlaces
  <2>6. /\ EditorsOK' /\ epc'[r] = "write" /\ edit'[r] = edit[r] /\ at'[r] = at[r] /\ seen'[r] = seen[r] /\ wrote'[r] = wrote[r]
        /\ \A q \in Editors \ {r} : epc'[q] = epc[q]
    <3>1. IF "write" \notin {"new", "done"} THEN at[r] \in 1..Len(edit[r]) ELSE at[r] = 1 /\ seen[r] = Blank /\ wrote[r] = Blank
      BY <2>1
    <3>2. edit[r] \in Seq(Updates) /\ seen[r] \in Views /\ wrote[r] \in Writes /\ tally[r] \in Int
      BY <2>1
    <3> QED BY <1>1, <2>4, <2>5, <3>1, <3>2, EditorMoves
  <2>7. RolesOK' BY <1>1, <2>3, RolesStay
  <2>8. ASSUME excuses = {} PROVE Quiet'
    <3>1. Quiet /\ Careful(r) BY <1>1, <2>8 DEF Quiet
    <3>2. Len(edit[r]) = 1 /\ at[r] = 1 /\ Dealt(r) = 0 BY <3>1, <1>1, <2>1 DEF Careful, Dealt
    <3>3. Dealt(r)' = 0 BY <2>6, <3>2 DEF Dealt
    <3>4. roleOf' = roleOf BY <2>3 DEF fixed
    <3>5. After(r, 1) # {}
      <4> DEFINE u == edit[r][1].user
      <4>1. u \in Admins BY <3>1, <3>2, <1>1, <2>1 DEF Careful, Admins
      <4>2. Admins # {u} BY <1>3, FS_Singleton
      <4>3. PICK x \in Accounts : roleOf[x] = "admin" /\ x # u BY <4>1, <4>2 DEF Admins
      <4>4. x \in After(r, 1) BY <4>3 DEF After
      <4> QED BY <4>4
    <3>6. After(r, 1)' = After(r, 1) BY <3>4, <2>6, AfterSame
    <3>7. Careful(r)' 
      <4>1. \A i \in 1..Dealt(r)' : FALSE BY <3>3
      <4>2. \A i, j \in 1..Len(edit'[r]) : edit'[r][i].user = edit'[r][j].user => i = j BY <3>1, <2>6 DEF Careful
      <4>3. \A u \in Accounts : wrote'[r][u] = None /\ seen'[r][u] \in {None, roleOf'[u]}
        <5>1. \A u \in Accounts : wrote[r][u] = None /\ seen[r][u] \in {None, roleOf[u]} BY <3>1, <3>2 DEF Careful
        <5> QED BY <5>1, <2>6, <3>4
      <4>4. Len(edit'[r]) = 1 /\ After(r, Len(edit[r]))' # {} BY <2>6, <3>2, <3>5, <3>6
      <4> QED BY <4>1, <4>2, <4>3, <4>4, <2>6 DEF Careful
    <3> QED BY <3>1, <3>4, <3>7, <1>1, <2>6, QuietKept
  <2> QED BY <2>6, <2>7, <2>8, <2>3 DEF AdminsInv, fixed
<1> QED BY <1>2, <1>3

\* The count up front is the number of administrators (bulk_set_user_roles).
LEMMA TallyKeeps ==
  ASSUME AdminsInv, NEW r \in Editors, Tally(r)
  PROVE  AdminsInv'
<1>1. EditorsOK /\ RolesOK /\ (excuses = {} => Quiet) /\ Editing(r) /\ epc[r] = "tally" BY DEF AdminsInv, Tally, Editing
<1>2. /\ at[r] \in 1..Len(edit[r]) /\ edit[r] \in Seq(Updates) /\ Len(edit[r]) \in Nat
      /\ seen[r] \in Views /\ wrote[r] \in Writes /\ tally[r] \in Int
  BY <1>1, EntryOK
<1>3. Cardinality(Admins) \in Int
  <2>1. IsFiniteSet(Admins) BY FS_Subset DEF Admins
  <2> QED BY <2>1, FS_CardinalityType
<1>4. epc' = [epc EXCEPT ![r] = "scan"] /\ tally' = [tally EXCEPT ![r] = Cardinality(Admins)]
      /\ UNCHANGED <<edit, bulk, seen, wrote, at, rowOf>> /\ UNCHANGED fixed
  BY DEF Tally, EGoto, tx
<1>5. Becomes(r, "scan", edit[r], at[r], Cardinality(Admins), seen[r], wrote[r])
  <2>1. edit' = [edit EXCEPT ![r] = edit[r]] /\ at' = [at EXCEPT ![r] = at[r]]
        /\ wrote' = [wrote EXCEPT ![r] = wrote[r]] /\ seen' = [seen EXCEPT ![r] = seen[r]] BY <1>4, <1>1 DEF EditorsOK
  <2> QED BY <1>4, <2>1 DEF Becomes
<1>6. "scan" \in EditPlaces /\ "scan" \notin {"new", "done"} /\ at[r] \in Nat /\ bulk' \subseteq Editors /\ rowOf' \in [Accounts -> Editors \cup {None}]
  BY <1>4, <1>1, <1>2 DEF EditorsOK, EditPlaces
<1>7. /\ EditorsOK' /\ epc'[r] = "scan" /\ edit'[r] = edit[r] /\ at'[r] = at[r] /\ seen'[r] = seen[r] /\ wrote'[r] = wrote[r]
      /\ tally'[r] = Cardinality(Admins) /\ \A q \in Editors \ {r} : epc'[q] = epc[q]
  BY <1>1, <1>2, <1>3, <1>5, <1>6, EditorMoves
<1>8. RolesOK' BY <1>1, <1>4, RolesStay
<1>9. ASSUME excuses = {} PROVE Quiet'
  <2>1. Quiet /\ Careful(r) BY <1>1, <1>9 DEF Quiet
  <2>2. at[r] = 1 /\ Dealt(r) = 0 /\ Dealt(r)' = 0 BY <2>1, <1>1, <1>7 DEF Careful, Dealt
  <2>3. roleOf' = roleOf BY <1>4 DEF fixed
  <2>4. After(r, 0) = Admins
    <3>1. \A i \in 1..0 : FALSE OBVIOUS
    <3> QED BY <3>1 DEF After, Admins
  <2>5. After(r, 0)' = Admins BY <2>3, <2>4, <1>7, AfterSame
  <2>6. Careful(r)' 
    <3>1. \A i \in 1..Dealt(r)' : FALSE BY <2>2
    <3>2. \A i, j \in 1..Len(edit'[r]) : edit'[r][i].user = edit'[r][j].user => i = j BY <2>1, <1>7 DEF Careful
    <3>3. \A u \in Accounts : wrote'[r][u] = None /\ seen'[r][u] \in {None, roleOf'[u]}
      <4>1. \A u \in Accounts : wrote[r][u] = None /\ seen[r][u] \in {None, roleOf[u]} BY <2>1, <2>2 DEF Careful
      <4> QED BY <4>1, <1>7, <2>3
    <3>4. at'[r] - 1 = 0 BY <1>7, <2>2
    <3>5. tally'[r] = Cardinality(After(r, at[r] - 1)') BY <3>4, <2>5, <1>7
    <3> QED BY <3>1, <3>2, <3>3, <3>5, <1>7 DEF Careful
  <2> QED BY <2>1, <2>3, <2>6, <1>1, <1>7, QuietKept
<1> QED BY <1>7, <1>8, <1>9, <1>4 DEF AdminsInv, fixed

\* What an update adds to the sum.
CountChange(r) == IF roleOf[Entry(r).user] = "gone" \/ Load(r, Entry(r).user) = Entry(r).role THEN 0
             ELSE IF Load(r, Entry(r).user) = "admin" THEN -1 ELSE 1

\* As no account is named twice, what the scan adds makes of the sum the number of
\* administrators there will be.
LEMMA ScanAdds ==
  ASSUME EditorsOK, RolesOK, Quiet, NEW r \in Editors, epc[r] = "scan"
  PROVE  /\ tally[r] + CountChange(r) = Cardinality(After(r, at[r]))
         /\ Load(r, Entry(r).user) = roleOf[Entry(r).user]
         /\ IsFiniteSet(After(r, at[r]))
<1>1. Editing(r) /\ Careful(r) BY DEF Editing, Quiet
<1> DEFINE n == at[r]
           u == Entry(r).user
           role == Entry(r).role
           A == After(r, n - 1)
           B == After(r, n)
<1>2. /\ n \in 1..Len(edit[r]) /\ Len(edit[r]) \in Nat /\ Entry(r) = edit[r][n]
      /\ u \in Accounts /\ role \in {"admin", "user"}
      /\ seen[r] \in Views /\ tally[r] \in Int
  BY <1>1, EntryOK
<1>3. IsFiniteSet(A) /\ IsFiniteSet(B) /\ Cardinality(A) \in Nat BY FS_Subset, FS_CardinalityType DEF After
<1>4. roleOf[u] \in {"admin", "user"} BY <1>2 DEF Quiet
<1>5. Load(r, u) = roleOf[u]
  <2>1. Dealt(r) = 0 BY DEF Dealt
  <2>2. seen[r][u] \in {None, roleOf[u]} BY <2>1, <1>1, <1>2 DEF Careful
  <2> QED BY <2>2 DEF Load
<1>6. \A i \in 1..(n - 1) : i \in 1..Len(edit[r]) /\ i \in 1..n /\ edit[r][i].user # u
  BY <1>1, <1>2 DEF Careful
<1>7. \A i \in 1..n : i \in 1..(n - 1) \/ i = n BY <1>2
<1>8. n \in 1..n BY <1>2
<1>9. u \in A <=> roleOf[u] = "admin" BY <1>2, <1>6 DEF After
<1>10. role = "admin" => B = A \cup {u} 
  <2>1. ASSUME role = "admin", NEW w PROVE w \in B <=> w \in A \cup {u}
    <3>1. CASE w = u BY <3>1, <2>1, <1>2, <1>8 DEF After
    <3>2. CASE w # u BY <3>2, <1>2, <1>6, <1>7 DEF After
    <3> QED BY <3>1, <3>2
  <2> QED BY <2>1
<1>11. role = "user" => B = A \ {u} 
  <2>1. ASSUME role = "user", NEW w PROVE w \in B <=> w \in A \ {u}
    <3>1. CASE w = u BY <3>1, <2>1, <1>2, <1>6, <1>7, <1>8 DEF After
    <3>2. CASE w # u BY <3>2, <1>2, <1>6, <1>7 DEF After
    <3> QED BY <3>1, <3>2
  <2> QED BY <2>1
<1>12. tally[r] = Cardinality(A) BY <1>1 DEF Careful
<1>13. CountChange(r) = IF roleOf[u] = role THEN 0 ELSE IF roleOf[u] = "admin" THEN -1 ELSE 1
  BY <1>4, <1>5 DEF CountChange
<1> HIDE DEF A, B, n, u, role
<1>14. CASE role = "admin"
  <2>1. Cardinality(B) = IF u \in A THEN Cardinality(A) ELSE Cardinality(A) + 1 BY <1>3, <1>10, <1>14, FS_AddElement
  <2>2. CountChange(r) = IF u \in A THEN 0 ELSE 1 BY <1>4, <1>9, <1>13, <1>14
  <2>3. Cardinality(B) = Cardinality(A) + CountChange(r) BY <2>1, <2>2, <1>3
  <2> QED BY <2>3, <1>3, <1>5, <1>12 DEF B, u, n
<1>15. CASE role = "user"
  <2>1. Cardinality(B) = IF u \in A THEN Cardinality(A) - 1 ELSE Cardinality(A) BY <1>3, <1>11, <1>15, FS_RemoveElement
  <2>2. CountChange(r) = IF u \in A THEN -1 ELSE 0 BY <1>4, <1>9, <1>13, <1>15
  <2>3. Cardinality(B) = Cardinality(A) + CountChange(r) BY <2>1, <2>2, <1>3
  <2> QED BY <2>3, <1>3, <1>5, <1>12 DEF B, u, n
<1> QED BY <1>2, <1>14, <1>15

\* A bulk goes on to write only if its sum leaves an administrator.
LEMMA ScanKeeps ==
  ASSUME AdminsInv, NEW r \in Editors, Scan(r)
  PROVE  AdminsInv'
<1>1. EditorsOK /\ RolesOK /\ (excuses = {} => Quiet) /\ Editing(r) /\ epc[r] = "scan" BY DEF AdminsInv, Scan, Editing
<1> DEFINE u == Entry(r).user
           n == at[r]
           sum == tally[r] + CountChange(r)
           v == [seen[r] EXCEPT ![u] = Load(r, u)]
<1>2. /\ n \in 1..Len(edit[r]) /\ edit[r] \in Seq(Updates) /\ Len(edit[r]) \in Nat /\ u \in Accounts
      /\ seen[r] \in Views /\ wrote[r] \in Writes /\ tally[r] \in Int
  BY <1>1, EntryOK
<1>3. \/ /\ n < Len(edit[r]) /\ at' = [at EXCEPT ![r] = n + 1] /\ tally' = [tally EXCEPT ![r] = sum]
         /\ seen' = [seen EXCEPT ![r] = v] /\ UNCHANGED <<edit, bulk, wrote, epc, rowOf>>
      \/ EditEnds(r)
      \/ /\ ~(n < Len(edit[r])) /\ ~(sum < 1) /\ at' = [at EXCEPT ![r] = 1] /\ tally' = [tally EXCEPT ![r] = 0]
         /\ seen' = [seen EXCEPT ![r] = v] /\ epc' = [epc EXCEPT ![r] = "write"] /\ UNCHANGED <<edit, bulk, wrote, rowOf>>
  BY DEF Scan, CountChange, EGoto
<1>4. UNCHANGED fixed BY DEF Scan
<1>5. RolesOK' /\ roleOf' = roleOf /\ excuses' = excuses BY <1>1, <1>4, RolesStay DEF fixed
<1>6. sum \in Int BY <1>2 DEF CountChange
<1>7. v \in Views
  <2>1. Load(r, u) \in {"admin", "user", "gone"} BY <1>1, <1>2, RowOK
  <2> QED BY <2>1, <1>2 DEF Views
<1>8. ASSUME excuses = {} PROVE /\ Quiet /\ Careful(r) /\ sum = Cardinality(After(r, n)) /\ IsFiniteSet(After(r, n))
                                /\ \A x \in Accounts : wrote[r][x] = None /\ v[x] \in {None, roleOf[x]}
  <2>1. Quiet /\ Careful(r) BY <1>1, <1>8 DEF Quiet
  <2>2. sum = Cardinality(After(r, n)) /\ IsFiniteSet(After(r, n)) /\ Load(r, u) = roleOf[u] BY <1>1, <2>1, ScanAdds
  <2>3. Dealt(r) = 0 BY <1>1 DEF Dealt
  <2>4. \A x \in Accounts : wrote[r][x] = None /\ seen[r][x] \in {None, roleOf[x]} BY <2>1, <2>3 DEF Careful
  <2> HIDE DEF sum, n, u
  <2>5. \A x \in Accounts : v[x] \in {None, roleOf[x]} BY <2>2, <2>4, <1>2 DEF v, Views
  <2> QED BY <2>1, <2>2, <2>4, <2>5
<1> HIDE DEF v, sum
<1>9. edit \in [Editors -> Seq(Updates)] /\ wrote \in [Editors -> Writes] /\ epc \in [Editors -> EditPlaces]
      /\ bulk \subseteq Editors /\ rowOf \in [Accounts -> Editors \cup {None}]
  BY <1>1 DEF EditorsOK, EditPlaces, Writes
<1>10. CASE EditEnds(r) BY <1>1, <1>10, <1>4, EndsQuietly
<1>11. CASE /\ n < Len(edit[r]) /\ at' = [at EXCEPT ![r] = n + 1] /\ tally' = [tally EXCEPT ![r] = sum]
            /\ seen' = [seen EXCEPT ![r] = v] /\ UNCHANGED <<edit, bulk, wrote, epc, rowOf>>
  <2>1. Becomes(r, "scan", edit[r], n + 1, sum, v, wrote[r])
    <3>1. epc' = [epc EXCEPT ![r] = "scan"] /\ edit' = [edit EXCEPT ![r] = edit[r]] /\ wrote' = [wrote EXCEPT ![r] = wrote[r]] BY <1>1, <1>9, <1>11
    <3> QED BY <3>1, <1>11 DEF Becomes
  <2>2. "scan" \in EditPlaces /\ "scan" \notin {"new", "done"} /\ n + 1 \in Nat /\ n + 1 \in 1..Len(edit[r]) /\ bulk' \subseteq Editors
        /\ rowOf' \in [Accounts -> Editors \cup {None}]
    BY <1>2, <1>9, <1>11 DEF EditPlaces
  <2>3. /\ EditorsOK' /\ epc'[r] = "scan" /\ edit'[r] = edit[r] /\ at'[r] = n + 1 /\ seen'[r] = v /\ wrote'[r] = wrote[r]
        /\ tally'[r] = sum /\ \A q \in Editors \ {r} : epc'[q] = epc[q]
    BY <1>1, <1>2, <1>6, <1>7, <2>1, <2>2, EditorMoves
  <2>4. ASSUME excuses = {} PROVE Quiet'
    <3>1. Quiet /\ Careful(r) /\ sum = Cardinality(After(r, n)) /\ \A x \in Accounts : wrote[r][x] = None /\ v[x] \in {None, roleOf[x]}
      BY <1>8, <2>4
    <3>2. Dealt(r)' = 0 BY <2>3 DEF Dealt
    <3>4. Careful(r)'
      <4>1. \A i \in 1..Dealt(r)' : FALSE BY <3>2
      <4>2. \A i, j \in 1..Len(edit'[r]) : edit'[r][i].user = edit'[r][j].user => i = j BY <3>1, <2>3 DEF Careful
      <4>3. \A x \in Accounts : wrote'[r][x] = None /\ seen'[r][x] \in {None, roleOf'[x]} BY <3>1, <2>3, <1>5
      <4>4. at'[r] - 1 = n BY <2>3, <1>2
      <4>5. After(r, at[r] - 1)' = After(r, n) BY <4>4, <2>3, <1>5 DEF After
      <4>6. tally'[r] = Cardinality(After(r, at[r] - 1)') BY <4>5, <3>1, <2>3
      <4> QED BY <4>1, <4>2, <4>3, <4>6, <2>3 DEF Careful
    <3> QED BY <3>1, <3>4, <1>1, <1>5, <2>3, QuietKept
  <2> QED BY <2>3, <2>4, <1>5 DEF AdminsInv
<1>12. CASE /\ ~(n < Len(edit[r])) /\ ~(sum < 1) /\ at' = [at EXCEPT ![r] = 1] /\ tally' = [tally EXCEPT ![r] = 0]
            /\ seen' = [seen EXCEPT ![r] = v] /\ epc' = [epc EXCEPT ![r] = "write"] /\ UNCHANGED <<edit, bulk, wrote, rowOf>>
  <2>1. Becomes(r, "write", edit[r], 1, 0, v, wrote[r])
    <3>1. edit' = [edit EXCEPT ![r] = edit[r]] /\ wrote' = [wrote EXCEPT ![r] = wrote[r]] BY <1>9, <1>12
    <3> QED BY <3>1, <1>12 DEF Becomes
  <2>2. "write" \in EditPlaces /\ "write" \notin {"new", "done"} /\ 1 \in Nat /\ 0 \in Int /\ 1 \in 1..Len(edit[r]) /\ bulk' \subseteq Editors
        /\ rowOf' \in [Accounts -> Editors \cup {None}] /\ n = Len(edit[r])
    BY <1>2, <1>9, <1>12 DEF EditPlaces
  <2>3. /\ EditorsOK' /\ epc'[r] = "write" /\ edit'[r] = edit[r] /\ at'[r] = 1 /\ seen'[r] = v /\ wrote'[r] = wrote[r]
        /\ \A q \in Editors \ {r} : epc'[q] = epc[q]
    BY <1>1, <1>2, <1>7, <2>1, <2>2, EditorMoves
  <2>4. ASSUME excuses = {} PROVE Quiet'
    <3>1. Quiet /\ Careful(r) /\ sum = Cardinality(After(r, n)) /\ \A x \in Accounts : wrote[r][x] = None /\ v[x] \in {None, roleOf[x]}
      BY <1>8, <2>4
    <3>2. Dealt(r)' = 0 BY <2>3 DEF Dealt
    <3>3. After(r, n) # {}
      <4>1. Cardinality(After(r, n)) # 0 BY <3>1, <1>12
      <4> QED BY <4>1, FS_EmptySet
    <3>4. After(r, Len(edit[r]))' = After(r, n) BY <1>5, <2>2, <2>3 DEF After
    <3>5. Careful(r)'
      <4>1. \A i \in 1..Dealt(r)' : FALSE BY <3>2
      <4>2. \A i, j \in 1..Len(edit'[r]) : edit'[r][i].user = edit'[r][j].user => i = j BY <3>1, <2>3 DEF Careful
      <4>3. \A x \in Accounts : wrote'[r][x] = None /\ seen'[r][x] \in {None, roleOf'[x]} BY <3>1, <2>3, <1>5
      <4>4. After(r, Len(edit[r]))' # {} BY <3>3, <3>4
      <4> QED BY <4>1, <4>2, <4>3, <4>4, <2>3 DEF Careful
    <3> QED BY <3>1, <3>5, <1>1, <1>5, <2>3, QuietKept
  <2> QED BY <2>3, <2>4, <1>5 DEF AdminsInv
<1> QED BY <1>3, <1>10, <1>11, <1>12

\* An update written, or skipped because the row has its role, is dealt with.
LEMMA Dealing ==
  ASSUME EditorsOK, RolesOK, Quiet, NEW r \in Editors, epc[r] = "write", edit'[r] = edit[r], roleOf' = roleOf,
         epc'[r] \in {"write", "commit"}, Dealt(r)' = at[r],
         NEW u \in Accounts, u = Entry(r).user, Row(r, u)' = Entry(r).role,
         \A x \in Accounts \ {u} : wrote'[r][x] = wrote[r][x] /\ seen'[r][x] = seen[r][x]
  PROVE  Careful(r)'
<1>1. Editing(r) /\ Careful(r) BY DEF Editing, Quiet
<1> DEFINE n == at[r]
<1>2. /\ n \in 1..Len(edit[r]) /\ Len(edit[r]) \in Nat /\ Entry(r) = edit[r][n] /\ u = edit[r][n].user
      /\ \A i \in 1..Len(edit[r]) : edit[r][i].user \in Accounts
  BY <1>1, EntryOK
<1>3. Dealt(r) = n - 1 BY DEF Dealt
<1>4. \A i \in 1..(n - 1) : i \in 1..Len(edit[r]) /\ edit[r][i].user # u BY <1>1, <1>2 DEF Careful
<1>5. \A i \in 1..n : i \in 1..(n - 1) \/ i = n BY <1>2
<1>6. \A x \in Accounts \ {u} : Row(r, x)' = Row(r, x) BY <1>2 DEF Row
<1>7. ASSUME NEW i \in 1..n, NEW x, x = edit[r][i].user PROVE Row(r, x)' = edit[r][i].role
  <2>1. CASE i = n BY <2>1, <1>2, <1>7
  <2>2. CASE i \in 1..(n - 1)
    <3>1. Row(r, edit[r][i].user) = edit[r][i].role BY <2>2, <1>1, <1>3 DEF Careful
    <3>2. x \in Accounts \ {u} BY <2>2, <1>2, <1>4, <1>7
    <3> QED BY <3>1, <3>2, <1>6, <1>7
  <2> QED BY <2>1, <2>2, <1>5
<1>8. ASSUME NEW x \in Accounts, \A i \in 1..n : edit[r][i].user # x
      PROVE  wrote'[r][x] = None /\ seen'[r][x] \in {None, roleOf[x]}
  <2>1. x # u /\ \A i \in 1..(n - 1) : edit[r][i].user # x BY <1>8, <1>2
  <2>2. wrote[r][x] = None /\ seen[r][x] \in {None, roleOf[x]} BY <2>1, <1>1, <1>3 DEF Careful
  <2> QED BY <2>1, <2>2, <1>2
<1>9. After(r, Len(edit[r]))' # {}
  <2>1. After(r, Len(edit[r])) # {} BY <1>1 DEF Careful
  <2>2. After(r, Len(edit[r]))' = After(r, Len(edit[r])) BY DEF After
  <2> QED BY <2>1, <2>2
<1>10. \A i \in 1..Dealt(r)' : Row(r, edit[r][i].user)' = edit'[r][i].role
  <2>1. SUFFICES ASSUME NEW i \in 1..n PROVE Row(r, edit[r][i].user)' = edit[r][i].role OBVIOUS
  <2> DEFINE x == edit[r][i].user
  <2>2. x' = x OBVIOUS
  <2> HIDE DEF x
  <2>3. Row(r, x)' = edit[r][i].role BY <1>7, <2>2 DEF x, Row
  <2> QED BY <2>3 DEF x
<1>11. \A i, j \in 1..Len(edit'[r]) : edit'[r][i].user = edit'[r][j].user => i = j BY <1>1 DEF Careful
<1>12. \A x \in Accounts : (\A i \in 1..Dealt(r)' : edit'[r][i].user # x)
                             => wrote'[r][x] = None /\ seen'[r][x] \in {None, roleOf'[x]} BY <1>8
<1> QED BY <1>9, <1>10, <1>11, <1>12 DEF Careful

\* A step deals with the update of u: what it leaves in the identity map and in
\* the transaction.
Updated(r, u, v, w) ==
  /\ epc[r] = "write" /\ u = Entry(r).user /\ NextUpdate(r) /\ UNCHANGED fixed /\ UNCHANGED <<edit, bulk, tally>>
  /\ seen' = [seen EXCEPT ![r] = v] /\ wrote' = [wrote EXCEPT ![r] = w] /\ v \in Views /\ w \in Writes
  /\ rowOf' \in [Accounts -> Editors \cup {None}]
  /\ \A x \in Accounts \ {u} : v[x] = seen[r][x] /\ w[x] = wrote[r][x]
  /\ excuses = {} => w[u] = Entry(r).role \/ (w[u] = None /\ roleOf[u] = Entry(r).role)

\* A step that deals with one update keeps the invariant.
LEMMA UpdateKeeps ==
  ASSUME AdminsInv, NEW r \in Editors, NEW u \in Accounts, NEW v, NEW w, Updated(r, u, v, w)
  PROVE  AdminsInv'
<1> USE DEF Updated
<1>1. EditorsOK /\ RolesOK /\ (excuses = {} => Quiet) /\ Editing(r) BY DEF AdminsInv, Editing
<1> DEFINE n == at[r]
           p == IF n < Len(edit[r]) THEN "write" ELSE "commit"
           m == IF n < Len(edit[r]) THEN n + 1 ELSE n
<1>2. /\ n \in 1..Len(edit[r]) /\ edit[r] \in Seq(Updates) /\ Len(edit[r]) \in Nat
      /\ Entry(r).role \in {"admin", "user"} /\ tally[r] \in Int
  BY <1>1, EntryOK
<1>3. Becomes(r, p, edit[r], m, tally[r], v, w)
  <2>1. edit' = [edit EXCEPT ![r] = edit[r]] /\ tally' = [tally EXCEPT ![r] = tally[r]] BY <1>1 DEF EditorsOK
  <2>2. epc' = [epc EXCEPT ![r] = p] /\ at' = [at EXCEPT ![r] = m] BY DEF NextUpdate, EGoto
  <2> QED BY <2>1, <2>2 DEF Becomes
<1>4. p \in EditPlaces /\ p \notin {"new", "done"} /\ m \in Nat /\ m \in 1..Len(edit[r]) /\ bulk' \subseteq Editors
  BY <1>1, <1>2 DEF EditPlaces, EditorsOK
<1>5. RolesOK' /\ roleOf' = roleOf /\ excuses' = excuses BY <1>1, RolesStay DEF fixed
<1>6. p \in {"write", "commit"} /\ (p = "write" => m - 1 = n) /\ (p = "commit" => n = Len(edit[r])) BY <1>2
<1> HIDE DEF p, m
<1>7. /\ EditorsOK' /\ epc'[r] = p /\ edit'[r] = edit[r] /\ at'[r] = m /\ seen'[r] = v /\ wrote'[r] = w
      /\ \A q \in Editors \ {r} : epc'[q] = epc[q]
  <2>1. IF p \notin {"new", "done"} THEN m \in 1..Len(edit[r]) ELSE m = 1 /\ v = Blank /\ w = Blank
    BY <1>4
  <2>2. edit[r] \in Seq(Updates) /\ tally[r] \in Int /\ rowOf' \in [Accounts -> Editors \cup {None}]
    BY <1>1, <1>2 DEF EditorsOK
  <2> QED BY <1>1, <1>3, <1>4, <2>1, <2>2, EditorMoves
<1>8. ASSUME excuses = {} PROVE Quiet'
  <2>1. Quiet BY <1>1, <1>8
  <2>2. Dealt(r)' = at[r] BY <1>6, <1>7 DEF Dealt
  <2>3. roleOf[u] \in {"admin", "user"} BY <2>1 DEF Quiet
  <2>4. Row(r, u)' = Entry(r).role BY <1>2, <1>5, <1>7, <1>8, <2>3 DEF Row
  <2>5. \A x \in Accounts \ {u} : wrote'[r][x] = wrote[r][x] /\ seen'[r][x] = seen[r][x] BY <1>7
  <2>6. Careful(r)' BY <1>1, <1>5, <1>6, <1>7, <2>1, <2>2, <2>4, <2>5, Dealing
  <2> QED BY <2>1, <2>6, <1>1, <1>5, <1>7, QuietKept
<1> QED BY <1>5, <1>7, <1>8 DEF AdminsInv

\* The account at hand has not been written, and is read as it is.
LEMMA NotDealt ==
  ASSUME EditorsOK, RolesOK, Quiet, NEW r \in Editors, epc[r] = "write"
  PROVE  wrote[r][Entry(r).user] = None /\ Load(r, Entry(r).user) = roleOf[Entry(r).user]
         /\ roleOf[Entry(r).user] \in {"admin", "user"}
<1>1. Editing(r) /\ Careful(r) BY DEF Editing, Quiet
<1> DEFINE n == at[r]
<1>2. /\ n \in 1..Len(edit[r]) /\ Len(edit[r]) \in Nat /\ Entry(r) = edit[r][n] /\ Entry(r).user \in Accounts
  BY <1>1, EntryOK
<1>3. Dealt(r) = n - 1 BY DEF Dealt
<1>4. \A i \in 1..(n - 1) : edit[r][i].user # Entry(r).user BY <1>1, <1>2 DEF Careful
<1>5. wrote[r][Entry(r).user] = None /\ seen[r][Entry(r).user] \in {None, roleOf[Entry(r).user]} BY <1>1, <1>2, <1>3, <1>4 DEF Careful
<1> QED BY <1>2, <1>5 DEF Load, Quiet

\* Where the update is not written the row has its role.
LEMMA SkipKeeps ==
  ASSUME AdminsInv, NEW r \in Editors, SkipUpdate(r)
  PROVE  AdminsInv'
<1> DEFINE u == Entry(r).user
           v == [seen[r] EXCEPT ![u] = Row(r, u)]
           w == wrote[r]
<1>1. EditorsOK /\ RolesOK /\ (excuses = {} => Quiet) /\ Editing(r) /\ epc[r] = "write" BY DEF AdminsInv, SkipUpdate, Editing
<1>2. u \in Accounts /\ seen[r] \in Views /\ wrote[r] \in Writes BY <1>1, EntryOK
<1>3. Row(r, u) \in {"admin", "user", "gone"} /\ (roleOf[u] # "gone" => Row(r, u) # "gone") BY <1>1, <1>2, RowOK
<1>4. v \in Views /\ \A x \in Accounts \ {u} : v[x] = seen[r][x] BY <1>2, <1>3 DEF Views
<1>5. /\ (Bulk(r) /\ Row(r, u) = "gone") \/ Load(r, u) = Entry(r).role
      /\ NextUpdate(r) /\ UNCHANGED fixed /\ UNCHANGED <<rowOf, edit, bulk, wrote, tally>> /\ seen' = [seen EXCEPT ![r] = v]
  BY DEF SkipUpdate
<1>6. wrote' = [wrote EXCEPT ![r] = w] BY <1>1, <1>5 DEF EditorsOK
<1>7. rowOf' \in [Accounts -> Editors \cup {None}] BY <1>1, <1>5 DEF EditorsOK
<1>8. excuses = {} => w[u] = None /\ roleOf[u] = Entry(r).role BY <1>1, <1>3, <1>5, NotDealt
<1>13. w \in Writes /\ \A x \in Accounts \ {u} : w[x] = wrote[r][x] BY <1>2
<1> HIDE DEF u, v, w
<1>9. u = Entry(r).user BY DEF u
<1>10. UNCHANGED <<edit, bulk, tally>> /\ NextUpdate(r) /\ UNCHANGED fixed /\ seen' = [seen EXCEPT ![r] = v] BY <1>5
<1>11. \A x \in Accounts \ {u} : v[x] = seen[r][x] /\ w[x] = wrote[r][x] BY <1>4, <1>13
<1>12. u \in Accounts /\ v \in Views /\ w \in Writes /\ epc[r] = "write" BY <1>1, <1>2, <1>4, <1>13
<1>14. excuses = {} => w[u] = Entry(r).role \/ (w[u] = None /\ roleOf[u] = Entry(r).role) BY <1>8, <1>9
<1>15. Updated(r, u, v, w) BY <1>6, <1>7, <1>9, <1>10, <1>11, <1>12, <1>14 DEF Updated
<1> QED BY <1>12, <1>15, UpdateKeeps

\* Where it is written the transaction sees its role.
LEMMA WriteKeeps ==
  ASSUME AdminsInv, NEW r \in Editors, WriteRole(r)
  PROVE  AdminsInv'
<1> DEFINE u == Entry(r).user
           v == [seen[r] EXCEPT ![u] = Entry(r).role]
           w == [wrote[r] EXCEPT ![u] = Entry(r).role]
<1>1. EditorsOK /\ Editing(r) /\ epc[r] = "write" BY DEF AdminsInv, WriteRole, Editing
<1>2. u \in Accounts /\ Entry(r).role \in {"admin", "user"} /\ seen[r] \in Views /\ wrote[r] \in Writes BY <1>1, EntryOK
<1>3. v \in Views /\ (\A x \in Accounts \ {u} : v[x] = seen[r][x]) BY <1>2 DEF Views
<1>4. w \in Writes /\ (\A x \in Accounts \ {u} : w[x] = wrote[r][x]) /\ w[u] = Entry(r).role BY <1>2 DEF Writes
<1>5. /\ NextUpdate(r) /\ UNCHANGED fixed /\ UNCHANGED <<edit, bulk, tally>> /\ seen' = [seen EXCEPT ![r] = v]
      /\ wrote' = [wrote EXCEPT ![r] = w] /\ rowOf' = [rowOf EXCEPT ![u] = r]
  BY DEF WriteRole
<1>6. rowOf' \in [Accounts -> Editors \cup {None}] BY <1>1, <1>5 DEF EditorsOK
<1> HIDE DEF u, v, w
<1>7. u = Entry(r).user BY DEF u
<1>8. UNCHANGED <<edit, bulk, tally>> /\ NextUpdate(r) /\ UNCHANGED fixed
      /\ seen' = [seen EXCEPT ![r] = v] /\ wrote' = [wrote EXCEPT ![r] = w] BY <1>5
<1>9. \A x \in Accounts \ {u} : v[x] = seen[r][x] /\ w[x] = wrote[r][x] BY <1>3, <1>4
<1>10. u \in Accounts /\ v \in Views /\ w \in Writes /\ epc[r] = "write" BY <1>1, <1>2, <1>3, <1>4
<1>11. w[u] = Entry(r).role BY <1>4
<1>12. Updated(r, u, v, w) BY <1>6, <1>7, <1>8, <1>9, <1>10, <1>11 DEF Updated
<1> QED BY <1>10, <1>12, UpdateKeeps

\* A commit makes the roles what the updates say: an administrator is left.
LEMMA RolesCommitKeeps ==
  ASSUME AdminsInv, NEW r \in Editors, CommitRoles(r)
  PROVE  AdminsInv'
<1>1. EditorsOK /\ RolesOK /\ (excuses = {} => Quiet) /\ Editing(r) /\ epc[r] = "commit" BY DEF AdminsInv, CommitRoles, Editing
<1>2. EditorsOK' /\ epc'[r] = "done" /\ \A q \in Editors \ {r} : epc'[q] = epc[q] BY <1>1, EndsKeeps DEF CommitRoles
<1>3. roleOf' = [x \in Accounts |-> Row(r, x)] /\ sole' = sole /\ excuses' = excuses BY DEF CommitRoles
<1>4. \A x \in Accounts : roleOf'[x] = Row(r, x) BY <1>3
<1>5. RolesOK'
  <2>1. \A x \in Accounts : Row(r, x) \in {"admin", "user", "gone"} BY <1>1, RowOK
  <2> QED BY <2>1, <1>3, <1>1 DEF RolesOK
<1>6. ASSUME excuses = {} PROVE Quiet'
  <2>1. Quiet /\ Careful(r) BY <1>1, <1>6 DEF Quiet
  <2>2. \A x \in Accounts : Row(r, x) \in {"admin", "user"}
    <3> TAKE x \in Accounts
    <3>1. roleOf[x] # "gone" BY <2>1 DEF Quiet
    <3> QED BY <3>1, <1>1, RowOK
  <2>3. roleOf' \in [Accounts -> {"admin", "user"}] BY <2>2, <1>3
  <2>4. PICK x \in Accounts : Row(r, x) = "admin"
    <3>1. Dealt(r) = Len(edit[r]) BY <1>1 DEF Dealt
    <3>2. PICK x : x \in After(r, Len(edit[r])) BY <2>1, <1>1 DEF Careful
    <3>3. x \in Accounts BY <3>2 DEF After
    <3>4. CASE \E i \in 1..Len(edit[r]) : edit[r][i].user = x /\ edit[r][i].role = "admin"
      <4>1. Row(r, x) = "admin" BY <3>1, <3>4, <2>1 DEF Careful
      <4> QED BY <4>1, <3>3
    <3>5. CASE roleOf[x] = "admin" /\ \A i \in 1..Len(edit[r]) : edit[r][i].user # x
      <4>1. wrote[r][x] = None BY <3>1, <3>3, <3>5, <2>1 DEF Careful
      <4>2. Row(r, x) = "admin" BY <4>1, <3>5 DEF Row
      <4> QED BY <4>2, <3>3
    <3> QED BY <3>2, <3>4, <3>5 DEF After
  <2>5. Admins' # {} BY <2>4, <1>4 DEF Admins
  <2>6. \A q \in Editors : ~Editing(q)' BY <1>1, <1>2, <2>1 DEF Editing, Quiet
  <2> QED BY <2>3, <2>5, <2>6 DEF Quiet
<1> QED BY <1>2, <1>3, <1>5, <1>6 DEF AdminsInv

\* Only an editor that waits to write is aborted.
LEMMA AbortKeeps ==
  ASSUME AdminsInv, NEW r \in Editors, AbortEdit(r, EditWaits)
  PROVE  AdminsInv'
<1>1. PICK Q \in SUBSET Editors : r \in Q /\ {EditWaits[q] : q \in Q} = Q
  BY DEF AbortEdit, Deadlocked, EditWaits
<1>2. EditWaits[r] \in Editors BY <1>1
<1>3. epc[r] = "write" BY <1>2 DEF EditWaits
<1> QED BY <1>3, EndsQuietly DEF AbortEdit, Editing

\* Every step of an editor, and of the routes that do not count, keeps the invariant.
LEMMA AdminsSteps ==
  ASSUME AdminsInv, [AdminsNext]_evars
  PROVE  AdminsInv'
<1>0. EditorsOK /\ RolesOK BY DEF AdminsInv
<1>1. CASE UNCHANGED evars
  <2>1. UNCHANGED <<roleOf, rowOf, sole, epc, edit, bulk, at, seen, wrote, tally, excuses>> BY <1>1 DEF evars
  <2>2. EditorsOK' /\ RolesOK' BY <1>0, <2>1 DEF EditorsOK, RolesOK, Editing, Blank
  <2>3. ASSUME Quiet PROVE Quiet'
    <3>1. \A r \in Editors : Careful(r) => Careful(r)'
      <4> TAKE r \in Editors
      <4>1. /\ epc' = epc /\ edit' = edit /\ at' = at /\ tally' = tally /\ roleOf' = roleOf /\ wrote' = wrote /\ seen' = seen BY <2>1
      <4> QED BY <4>1 DEF Careful, Dealt, After, Row
    <3>2. Admins' = Admins /\ \A r \in Editors : Editing(r)' <=> Editing(r) BY <2>1 DEF Admins, Editing
    <3> QED BY <2>1, <2>3, <3>1, <3>2 DEF Quiet
  <2> QED BY <2>1, <2>2, <2>3 DEF AdminsInv
<1>2. ASSUME NEW u \in Accounts, NEW role \in {"admin", "user", "gone"}, roleOf' = [roleOf EXCEPT ![u] = role],
             excuses' = excuses \cup {"unguarded"}, UNCHANGED <<rowOf, sole, epc, tx, at, tally>>
      PROVE  AdminsInv'
  <2>1. UNCHANGED <<rowOf, epc, edit, bulk, at, seen, wrote, tally>> BY <1>2 DEF tx
  <2>2. EditorsOK' BY <1>0, <2>1 DEF EditorsOK, Editing, Blank
  <2>3. RolesOK' BY <1>0, <1>2 DEF RolesOK
  <2>4. excuses' # {} BY <1>2
  <2> QED BY <2>2, <2>3, <2>4 DEF AdminsInv
<1>3. ASSUME NEW u \in Accounts, DeleteUser(u) PROVE AdminsInv' BY <1>2, <1>3 DEF DeleteUser
<1>4. ASSUME NEW u \in Accounts, NEW role \in {"admin", "user"}, UpdateUser(u, role) PROVE AdminsInv' BY <1>2, <1>4 DEF UpdateUser
<1>5. ASSUME NEW r \in Editors, NEW e \in Singles, SetUserRole(r, e) PROVE AdminsInv'
  <2>1. e \in Updates BY DEF Updates
  <2>2. <<e>> \in Seq(Updates) /\ <<e>> # <<>> /\ Len(<<e>>) = 1 BY <2>1
  <2>3. bulk' \subseteq Editors BY <1>0, <1>5 DEF SetUserRole, EditorsOK
  <2> QED BY <2>2, <2>3, <1>5, StartKeeps DEF SetUserRole
<1>6. ASSUME NEW r \in Editors, NEW s \in Edits, BulkSetUserRoles(r, s) PROVE AdminsInv'
  <2>1. s \in Seq(Updates) /\ s # <<>> BY DEF Updates
  <2>2. bulk' \subseteq Editors BY <1>0, <1>6 DEF BulkSetUserRoles, EditorsOK
  <2> QED BY <2>1, <2>2, <1>6, StartKeeps DEF BulkSetUserRoles
<1>7. ASSUME NEW r \in Editors, RefuseSole(r) PROVE AdminsInv' BY <1>7, EndsQuietly DEF RefuseSole, Editing
<1> QED BY <1>1, <1>3, <1>4, <1>5, <1>6, <1>7, LoadKeeps, CountKeeps, TallyKeeps, ScanKeeps, SkipKeeps, WriteKeeps,
           RolesCommitKeeps, AbortKeeps DEF AdminsNext, EditStep

\* So the invariant holds at all times.
LEMMA AdminsHold == AdminsSpec => []AdminsInv
<1>1. AdminsInit => AdminsInv BY AdminsStart
<1>2. AdminsInv /\ [AdminsNext]_evars => AdminsInv' BY AdminsSteps
<1> QED BY <1>1, <1>2, PTL DEF AdminsSpec

\* For any number of accounts, editors and updates an administrator is left, as long
\* as no two role changes overlap, no bulk names an account twice and nobody uses the
\* routes that do not count (the guards of set_user_role and bulk_set_user_roles).
THEOREM AnAdminIsKept == AdminsSpec => []KeepsAnAdmin
<1>1. AdminsInv => KeepsAnAdmin BY DEF AdminsInv, Quiet, KeepsAnAdmin
<1> QED BY <1>1, AdminsHold, PTL

\* The roles, the row locks and the editors keep their shape, for all of them.
THEOREM AdminsTyped == AdminsSpec => []AdminsTypeOK
<1>1. AdminsInv => AdminsTypeOK
  <2>1. SUFFICES ASSUME AdminsInv PROVE AdminsTypeOK OBVIOUS
  <2>2. EditorsOK /\ RolesOK BY <2>1 DEF AdminsInv
  <2>3. \A r \in Editors : at[r] \in 1..(Len(edit[r]) + 1)
    <3> TAKE r \in Editors
    <3>1. Len(edit[r]) \in Nat BY <2>2 DEF EditorsOK
    <3> QED BY <3>1, <2>2 DEF EditorsOK
  <2> QED BY <2>2, <2>3 DEF EditorsOK, RolesOK, AdminsTypeOK
<1> QED BY <1>1, AdminsHold, PTL

HIDE AdministratorsAssumption

-----------------------------------------------------------------------------
USE StartupAssumption

\* A process starts its worker, then sets app.state, then seeds from the first
\* row on; it has passed only rows that are committed or that it has inserted.
SeedingInv == \A p \in Processes :
  /\ bpc[p] \in {"tables", "hooks", "find", "plant", "commit"} => p \in working
  /\ bpc[p] \in {"find", "plant", "commit"} => p \in wired
  /\ bpc[p] \notin {"find", "plant", "commit"} => seedAt[p] = 1
  /\ bpc[p] = "commit" => p \in initialized /\ Range(SeedKeys) \subseteq seeded \cup planted[p]
  /\ \A i \in 1..(seedAt[p] - 1) : SeedKeys[i] \in seeded \cup planted[p]

\* ServingIsSeeded with what the processes on their way there have done.
BootInv == StartupTypeOK /\ ServingIsSeeded /\ SeedingInv

\* Every seed is a row of the list.
LEMMA SeedRows ==
  /\ DOMAIN SeedKeys = 1..Len(SeedKeys) /\ Len(SeedKeys) \in Nat \ {0}
  /\ \A i \in 1..Len(SeedKeys) : SeedKeys[i] \in Range(SeedKeys)
  /\ \A k \in Range(SeedKeys) : \E i \in 1..Len(SeedKeys) : k = SeedKeys[i]
BY DEF Range

\* No process runs at the start, and nothing is seeded.
LEMMA StartupStarts == StartupInit => BootInv
BY SeedRows DEF StartupInit, BootInv, StartupTypeOK, ServingIsSeeded, SeedingInv

\* A process that exits has done nothing for the others to lose.
LEMMA ExitKeeps ==
  ASSUME BootInv, NEW p \in Processes, Exits(p),
         UNCHANGED <<environment, seeded>>, tables' \in BOOLEAN, bootFaults' \in 0..MaxBootFaults
  PROVE  BootInv'
BY SeedRows DEF BootInv, StartupTypeOK, ServingIsSeeded, SeedingInv, Exits, BGoto

\* A process that has passed a row is at the next, or at the end of the list.
LEMMA SeedsKeeps ==
  ASSUME BootInv, NEW p \in Processes, bpc[p] \in {"find", "plant"}, Seeds(p),
         UNCHANGED <<world, working, wired>>,
         \E s \in {planted[p], planted[p] \cup {Seed(p)}} :
            planted' = [planted EXCEPT ![p] = s] /\ Seed(p) \in seeded \cup s
  PROVE  BootInv'
<1>1. PICK s \in SUBSET Range(SeedKeys) :
        planted' = [planted EXCEPT ![p] = s] /\ planted[p] \subseteq s /\ Seed(p) \in seeded \cup s
  <2>1. Seed(p) \in Range(SeedKeys) /\ planted[p] \in SUBSET Range(SeedKeys)
    BY SeedRows DEF BootInv, StartupTypeOK, Seed
  <2> QED
    BY <2>1
<1> USE DEF BootInv, StartupTypeOK, world, BGoto
<1>2. CASE seedAt[p] < Len(SeedKeys)
  <2>1. \A i \in 1..seedAt[p] : SeedKeys[i] \in seeded \cup s
    BY <1>1, SeedRows DEF SeedingInv, Seed
  <2>2. seedAt' = [seedAt EXCEPT ![p] = @ + 1] /\ BGoto(p, "find") /\ UNCHANGED initialized
    BY <1>2 DEF Seeds
  <2>3. StartupTypeOK' /\ ServingIsSeeded'
    BY <1>1, <1>2, <2>2, SeedRows DEF ServingIsSeeded
  <2>4. SeedingInv'
    BY <1>1, <1>2, <2>1, <2>2, SeedRows DEF SeedingInv
  <2> QED
    BY <2>3, <2>4
<1>3. CASE ~(seedAt[p] < Len(SeedKeys))
  <2>1. seedAt[p] = Len(SeedKeys)
    BY <1>3, SeedRows
  <2> QED
    BY <1>1, <1>3, <2>1, SeedRows DEF Seeds, ServingIsSeeded, SeedingInv, Seed
<1> QED
  BY <1>2, <1>3

\* Every step of a lifespan keeps the invariant, whatever the others are at.
LEMMA StartupSteps == BootInv /\ [StartupNext]_bvars => BootInv'
<1> SUFFICES ASSUME BootInv, [StartupNext]_bvars PROVE BootInv'
  OBVIOUS
<1> USE DEF BootInv, StartupTypeOK, ServingIsSeeded, SeedingInv, world, BGoto, Ready
<1>1. ASSUME NEW p \in Processes, Boot(p) PROVE BootInv'
  BY <1>1 DEF Boot
<1>2. ASSUME NEW p \in Processes, ResetLimiter(p) PROVE BootInv'
  BY <1>2, ExitKeeps DEF ResetLimiter
<1>3. ASSUME NEW p \in Processes, StartWorker(p) PROVE BootInv'
  BY <1>3 DEF StartWorker
<1>4. ASSUME NEW p \in Processes, CreateTables(p) PROVE BootInv'
  <2>1. tables' \in BOOLEAN
    BY <1>4, Zenon DEF CreateTables
  <2>2. bpc[p] = "tables" /\ Ready(p, "hooks") /\ UNCHANGED <<environment, seeded>>
    BY <1>4 DEF CreateTables
  <2>3. bootFaults' \in 0..MaxBootFaults
    BY <1>4 DEF CreateTables
  <2> QED
    BY <2>1, <2>2, <2>3
<1>5. ASSUME NEW p \in Processes, RunHooks(p) PROVE BootInv'
  BY <1>5 DEF RunHooks
<1>6. ASSUME NEW p \in Processes, FindSeed(p) PROVE BootInv'
  BY <1>6, ExitKeeps, SeedsKeeps DEF FindSeed
<1>7. ASSUME NEW p \in Processes, PlantSeed(p) PROVE BootInv'
  BY <1>7, ExitKeeps, SeedsKeeps DEF PlantSeed
<1>8. ASSUME NEW p \in Processes, CommitSeeds(p) PROVE BootInv'
  <2>1. CASE /\ seeded' = seeded \cup planted[p] /\ BGoto(p, "serving")
             /\ planted' = [planted EXCEPT ![p] = {}] /\ seedAt' = [seedAt EXCEPT ![p] = 1]
             /\ UNCHANGED <<initialized, working, wired, bootFaults>>
    <3>1. bpc[p] = "commit" /\ UNCHANGED <<environment, tables>>
      BY <1>8 DEF CommitSeeds
    <3> QED
      BY <2>1, <3>1, SeedRows
  <2>2. CASE bootFaults < MaxBootFaults /\ bootFaults' = bootFaults + 1 /\ Exits(p) /\ UNCHANGED seeded
    BY <1>8, <2>2, ExitKeeps DEF CommitSeeds
  <2> QED
    BY <1>8, <2>1, <2>2 DEF CommitSeeds
<1>9. ASSUME NEW p \in Processes, Shutdown(p) PROVE BootInv'
  BY <1>9, ExitKeeps DEF Shutdown
<1>10. CASE UNCHANGED bvars
  BY <1>10 DEF bvars
<1> QED
  BY <1>1, <1>2, <1>3, <1>4, <1>5, <1>6, <1>7, <1>8, <1>9, <1>10 DEF StartupNext, BootStep

\* However many processes start together, and whoever of them loses the race for
\* a row, each that serves finds every row seeded and is itself complete.
THEOREM SeededWhenServing == StartupSpec => []ServingIsSeeded
<1>1. BootInv => ServingIsSeeded
  BY DEF BootInv
<1> QED
  BY <1>1, StartupStarts, StartupSteps, PTL DEF StartupSpec
=============================================================================
