------------------------- MODULE AuthSessionsProofs -------------------------
(* AuthSessions for any users, tokens, keys and requests. *)
EXTENDS AuthSessions, TLAPS

\* None is told apart from every name a request can carry.
LEMMA NoneDistinct == None \notin Users /\ None \notin Tokens /\ None \notin ResetKeys
  BY AuthAssumption

\* The stores, the requests and the history start empty, so the invariant holds.
LEMMA InitInv == Init => IInv
<1> SUFFICES ASSUME Init PROVE IInv
  OBVIOUS
<1>1. TypeOK
  BY AuthAssumption DEF Init, TypeOK, Pcs, MintPcs, Ops
<1>2. RequestInv
  BY DEF Init, RequestInv, Coherent, MintPcs
<1>3. MintsDiffer
  BY DEF Init, MintsDiffer, MintPcs
<1>4. QED
  BY <1>1, <1>2, <1>3 DEF Init, IInv, BirthInv, Unminted, IndexComplete,
     SpentStaysDead, ClosedStaysRevoked, AlarmsHaveCause

\* Every step keeps the types.
LEMMA TypeStep == IInv /\ [Next]_vars => TypeOK'
<1> SUFFICES ASSUME IInv, [Next]_vars PROVE TypeOK'
  OBVIOUS
<1> USE AuthAssumption, NoneDistinct
    DEF TypeOK, Pcs, MintPcs, Ops, stores, birth, accounts, lost, history, req, job, sweep, At
<1>0. TypeOK /\ RequestInv /\ BirthInv
  BY DEF IInv
<1>1. ASSUME NEW r \in Requests, Step(r) PROVE TypeOK'
  <2>1. CASE TrackAccess(r)
    BY <1>0, <2>1 DEF TrackAccess, Goto, RequestInv, Coherent
  <2>2. CASE SetRefresh(r)
    BY <1>0, <2>2 DEF SetRefresh, Goto
  <2>3. CASE IndexRefresh(r)
    BY <1>0, <2>3 DEF IndexRefresh, Goto, RequestInv, Coherent
  <2>4. CASE MarkUsed(r)
    BY <1>0, <2>4 DEF MarkUsed, Goto, RequestInv, Coherent
  <2>5. ASSUME NEW t \in Tokens, RefreshLoadUser(r, t) PROVE TypeOK'
    BY <1>0, <2>5 DEF RefreshLoadUser, RequestInv, Coherent, BirthInv
  <2>6. ASSUME NEW t \in Tokens, SweepRefresh(r, t) PROVE TypeOK'
    BY <1>0, <2>6 DEF SweepRefresh, Swept
  <2>7. ASSUME NEW t \in Tokens, SweepAccess(r, t) PROVE TypeOK'
    BY <1>0, <2>7 DEF SweepAccess, Swept
  <2>8. CASE ReadIndex(r)
    <3>1. uid[r] \in Users /\ IssuedTo(uid[r]) \subseteq Tokens
      BY <1>0, <2>8 DEF ReadIndex, IssuedTo, RequestInv, Coherent
    <3>2. \E T, D \in SUBSET Tokens : Snapshot(r, "sweepRefresh", T, D)
      BY <1>0, <2>8, <3>1 DEF ReadIndex
    <3>3. QED
      BY <1>0, <2>8, <3>2 DEF ReadIndex, Snapshot
  <2>9. CASE ReadAccessIndex(r)
    <3>1. uid[r] \in Users /\ IssuedTo(uid[r]) \subseteq Tokens
      BY <1>0, <2>9 DEF ReadAccessIndex, IssuedTo, RequestInv, Coherent
    <3>2. \E T, D \in SUBSET Tokens : Snapshot(r, "sweepAccess", T, D)
      BY <1>0, <2>9, <3>1 DEF ReadAccessIndex
    <3>3. QED
      BY <1>0, <2>9, <3>2 DEF ReadAccessIndex, Snapshot
  <2>10. CASE FinishSweep(r)
    BY <1>0, <2>10 DEF FinishSweep, Finish
  <2>11. CASE ConsumeReset(r)
    BY <1>0, <2>11 DEF ConsumeReset, Goto
  <2>12. CASE CommitPassword(r)
    <3>0. uid[r] \in Users
      BY <1>0, <2>12 DEF CommitPassword, RequestInv, Coherent
    <3>1. password' \in [Users -> Nat]
      BY <1>0, <2>12, <3>0 DEF CommitPassword
    <3>2. QED
      BY <1>0, <2>12, <3>1 DEF CommitPassword, Finish
  <2>13. CASE LogoutDelete(r)
    <3>1. CASE given[r] \in Tokens /\ refresh' = [refresh EXCEPT ![given[r]] = "absent"]
               /\ UNCHANGED <<index, unlisted>>
      BY <1>0, <2>13, <3>1 DEF LogoutDelete, Goto
    <3>2. CASE given[r] \in Users /\ index' = [index EXCEPT ![given[r]] = {}]
               /\ unlisted' = unlisted \cup index[given[r]] /\ UNCHANGED refresh
      BY <1>0, <2>13, <3>2 DEF LogoutDelete, Goto
    <3>3. QED
      BY <2>13, <3>1, <3>2 DEF LogoutDelete
  <2>14. CASE LogoutRevoke(r)
    BY <1>0, <2>14 DEF LogoutRevoke, Finish, RequestInv, Coherent
  <2>15. CASE UserGone(r)
    BY <1>0, <2>15 DEF UserGone, Finish
  <2>16. CASE Answer(r)
    BY <1>0, <2>16 DEF Answer, Finish, RequestInv, Coherent, BirthInv
  <2>17. QED
    BY <1>1, <2>1, <2>2, <2>3, <2>4, <2>5, <2>6, <2>7, <2>8, <2>9, <2>10, <2>11,
       <2>12, <2>13, <2>14, <2>15, <2>16 DEF Step
<1>2. ASSUME NEW r \in Requests, Arrive(r) PROVE TypeOK'
  <2>1. ASSUME NEW u \in Users, NEW t \in Tokens, Login(r, u, t) PROVE TypeOK'
    BY <1>0, <2>1 DEF Login, Begin
  <2>2. ASSUME NEW t \in Tokens, RefreshGet(r, t) PROVE TypeOK'
    <3>1. CASE At(r, "idle") /\ UNCHANGED req
      BY <1>0, <2>2, <3>1 DEF RefreshGet
    <3>2. CASE Begin(r, "loadUser", "refresh", owner[t], t, None)
      BY <1>0, <2>2, <3>2 DEF RefreshGet, Begin
    <3>3. CASE Begin(r, "readIndex", "replay", owner[t], None, None)
      BY <1>0, <2>2, <3>3 DEF RefreshGet, Begin
    <3>4. QED
      BY <2>2, <3>1, <3>2, <3>3 DEF RefreshGet
  <2>3. ASSUME NEW a \in Tokens, NEW u \in Users, UpdatePassword(r, a, u) PROVE TypeOK'
    BY <1>0, <2>3 DEF UpdatePassword, Begin
  <2>4. ASSUME NEW k \in ResetKeys, ConfirmReset(r, k) PROVE TypeOK'
    BY <1>0, <2>4 DEF ConfirmReset, Begin
  <2>5. ASSUME NEW a \in Tokens, NEW t \in Tokens \cup NamedIndexes, Logout(r, a, t)
        PROVE  TypeOK'
    BY <1>0, <2>5 DEF Logout, Begin
  <2>6. QED
    BY <1>2, <2>1, <2>2, <2>3, <2>4, <2>5 DEF Arrive
<1>3. ASSUME NEW r \in Requests, Abort(r) PROVE TypeOK'
  BY <1>0, <1>3 DEF Abort, Finish
<1>4. ASSUME NEW k \in ResetKeys, RequestReset(k) \/ LapseKey(k) PROVE TypeOK'
  BY <1>0, <1>4 DEF RequestReset, LapseKey
<1>5. ASSUME NEW t \in Tokens, Lapse(t) \/ \E u \in Users : DeleteUser(t, u) PROVE TypeOK'
  BY <1>0, <1>5 DEF DeleteUser, Lapse
<1>6. CASE UNCHANGED vars
  BY <1>0, <1>6 DEF vars
<1>7. QED
  BY <1>1, <1>2, <1>3, <1>4, <1>5, <1>6 DEF Next

-----------------------------------------------------------------------------
(* What a request in flight sees of the others *)

\* The stores as request s, which takes no step, sees them change: nothing it
\* relies on is undone.
Frame(s) ==
  /\ issued \subseteq issued' /\ revoked \subseteq revoked'
  /\ \A u \in Users : accessIndex[u] \subseteq accessIndex'[u]
  /\ unlisted \subseteq unlisted'
  /\ \A u \in Users : index[u] \subseteq index'[u] \cup unlisted'
  /\ \A t \in Tokens : owner[t] # None => owner'[t] = owner[t]
  /\ \A t \in issued : refresh[t] # "live" => refresh'[t] # "live"
  /\ pc[s] \in MintPcs =>
       /\ new[s] \notin issued' /\ parent'[new[s]] = parent[new[s]]
       /\ refresh[new[s]] = "absent" => refresh'[new[s]] = "absent"

Rests(s) == /\ pc'[s] = pc[s] /\ op'[s] = op[s] /\ uid'[s] = uid[s] /\ given'[s] = given[s]
            /\ new'[s] = new[s] /\ todo'[s] = todo[s] /\ doomed'[s] = doomed[s]

\* A request at rest stays coherent in every frame.
LEMMA RestsCoherent ==
  ASSUME IInv, NEW s \in Requests, Rests(s), Frame(s)
  PROVE  Coherent(s)'
<1> USE DEF MintPcs
<1>1. Coherent(s) /\ TypeOK /\ BirthInv
  BY DEF IInv, RequestInv
<1>2. CASE pc[s] \in MintPcs
  <2>1. /\ uid[s] \in Users /\ new[s] \in Tokens /\ owner[new[s]] # None
        /\ given[s] \in issued => given[s] \in Tokens /\ owner[given[s]] # None
    BY <1>1, <1>2, NoneDistinct DEF Coherent, BirthInv, TypeOK
  <2>2. /\ new[s] \in Tokens \ issued'
        /\ owner'[new[s]] = uid[s] /\ parent'[new[s]] = parent[new[s]]
    BY <1>1, <1>2, <2>1 DEF Coherent, Frame
  <2>3. \/ op[s] = "login" /\ given[s] = None
        \/ /\ op[s] = "refresh" /\ given[s] \in issued'
           /\ owner'[given[s]] = uid[s]
    BY <1>1, <1>2, <2>1, <2>2 DEF Coherent, Frame
  <2>4. /\ pc[s] \notin {"indexRefresh", "answer"} => refresh'[new[s]] = "absent"
        /\ pc[s] # "trackAccess" => new[s] \in accessIndex'[uid[s]]
        /\ pc[s] = "answer" => new[s] \in index'[uid[s]] \cup unlisted'
    BY <1>1, <1>2, <2>1 DEF Coherent, Frame
  <2>5. pc[s] \in {"setRefresh", "indexRefresh", "answer"} /\ op[s] = "refresh" =>
          refresh'[given[s]] # "live" /\ parent'[new[s]] = given[s]
    BY <1>1, <1>2, <2>1, <2>2, NoneDistinct DEF Coherent, Frame
  <2>6. QED
    BY <1>1, <1>2, <2>2, <2>3, <2>4, <2>5 DEF Coherent, Rests
<1>3. CASE pc[s] \notin MintPcs
  <2>1. given[s] \in issued => given[s] \in Tokens /\ owner[given[s]] # None
    BY <1>1, <1>3, NoneDistinct DEF BirthInv, TypeOK
  <2>2. pc[s] = "sweepRefresh" =>
          \A t \in doomed[s] : t \in todo[s] \/ refresh'[t] # "live"
    BY <1>1, <1>3 DEF Coherent, Frame
  <2>3. pc[s] \in {"sweepRefresh", "sweepAccess"} => doomed[s] \subseteq issued'
    BY <1>1, <1>3 DEF Coherent, Frame
  <2>4. pc[s] = "sweepAccess" => doomed[s] \subseteq todo[s] \cup revoked'
    BY <1>1, <1>3 DEF Coherent, Frame
  <2>5. pc[s] = "loadUser" => /\ op[s] = "refresh" /\ given[s] \in issued'
                              /\ owner'[given[s]] = uid[s]
    BY <1>1, <1>3, <2>1 DEF Coherent, Frame
  <2>6. /\ pc[s] \in {"logoutDelete", "logoutRevoke"} =>
             given[s] \in issued' \cup Users /\ new[s] \in issued'
        /\ pc[s] = "logoutRevoke" /\ given[s] \in Tokens => refresh'[given[s]] # "live"
    BY <1>1, <1>3, <2>1, AuthAssumption DEF Coherent, Frame, TypeOK
  <2>7. QED
    BY <1>1, <1>3, <2>2, <2>3, <2>4, <2>5, <2>6 DEF Coherent, Rests
<1>4. QED
  BY <1>2, <1>3

-----------------------------------------------------------------------------
(* One step *)

\* The part of the invariant that is about the stores and the history alone.
StoreInv == /\ BirthInv /\ IndexComplete /\ SpentStaysDead
            /\ ClosedStaysRevoked

Others(r) == \A s \in Requests \ {r} : Rests(s) /\ Frame(s)

FreshMint(r) == pc'[r] \in MintPcs =>
                  \A s \in Requests \ {r} : pc[s] \in MintPcs => new[s] # new'[r]

\* Request r writes a marker only in a trade, and a trade it leaves is one that
\* it answered or that is on record as stranded.
Accounted(r) ==
  /\ issued \subseteq issued' /\ stranded \subseteq stranded'
  /\ \A t \in Tokens : owner[t] # None => owner'[t] = owner[t]
  /\ \A t \in issued : parent'[t] = parent[t]
  /\ \A t \in Tokens : refresh'[t] = "used" => refresh[t] = "used" \/ Trading(r, t)'
  /\ \A t \in Tokens : Trading(r, t) =>
       \/ Trading(r, t)' \/ t \in stranded'
       \/ \E s \in issued' : parent'[s] = t /\ owner'[s] = owner'[t]

\* Such a step keeps a cause for every marker.
LEMMA CausesKept ==
  ASSUME IInv, NEW r \in Requests, Others(r), Accounted(r)
  PROVE  AlarmsHaveCause'
<1> SUFFICES ASSUME NEW t \in Tokens, refresh'[t] = "used"
             PROVE  \/ \E s \in issued' : parent'[s] = t /\ owner'[s] = owner'[t]
                    \/ \E q \in Requests : Trading(q, t)'
                    \/ t \in stranded'
  BY DEF AlarmsHaveCause
<1>1. CASE refresh[t] # "used"
  BY <1>1 DEF Accounted
<1>2. CASE refresh[t] = "used"
  <2>0. TypeOK /\ BirthInv /\ AlarmsHaveCause /\ owner[t] # None
    BY <1>2 DEF IInv, BirthInv, Unminted
  <2>1. ASSUME NEW s \in issued, parent[s] = t, owner[s] = owner[t]
        PROVE  s \in issued' /\ parent'[s] = t /\ owner'[s] = owner'[t]
    BY <2>0, <2>1 DEF Accounted, TypeOK
  <2>2. ASSUME NEW q \in Requests \ {r}, Trading(q, t) PROVE Trading(q, t)'
    BY <2>2 DEF Trading, Others, Rests
  <2>3. QED
    BY <1>2, <2>0, <2>1, <2>2 DEF AlarmsHaveCause, Accounted
<1>3. QED
  BY <1>1, <1>2

\* What has to be shown of a step of request r.
LEMMA StepInv ==
  ASSUME IInv, TypeOK', NEW r \in Requests,
         Others(r), FreshMint(r), Coherent(r)', StoreInv', Accounted(r)
  PROVE  IInv'
<1>1. RequestInv'
  BY RestsCoherent DEF RequestInv, Others
<1>2. MintsDiffer'
  <2> SUFFICES ASSUME NEW a \in Requests, NEW b \in Requests, a # b,
                      pc'[a] \in MintPcs, pc'[b] \in MintPcs
               PROVE  new'[a] # new'[b]
    BY DEF MintsDiffer
  <2>1. CASE a # r /\ b # r
    BY <2>1 DEF IInv, MintsDiffer, Others, Rests
  <2>2. CASE a = r \/ b = r
    BY <2>2 DEF FreshMint, Others, Rests
  <2>3. QED
    BY <2>1, <2>2
<1>3. QED
  BY <1>1, <1>2, CausesKept DEF IInv, StoreInv

\* Every await of a handler preserves the invariant.
LEMMA StepPreserves ==
  ASSUME IInv, TypeOK', NEW r \in Requests, Step(r)
  PROVE  IInv'
<1> USE NoneDistinct, AuthAssumption DEF MintPcs, stores, birth, accounts, lost, history, req, job, sweep, At
<1>0. /\ TypeOK /\ Coherent(r) /\ MintsDiffer /\ StoreInv
      /\ \A s \in Requests : Coherent(s)
  BY DEF IInv, RequestInv, StoreInv
<1>1. CASE TrackAccess(r)
  <2>1. Others(r)
    BY <1>0, <1>1 DEF TrackAccess, Goto, Others, Rests, Frame, TypeOK, Coherent, MintsDiffer
  <2>2. Coherent(r)'
    BY <1>0, <1>1 DEF TrackAccess, Goto, Coherent, TypeOK
  <2>3. FreshMint(r)
    BY <1>0, <1>1 DEF TrackAccess, Goto, FreshMint, MintsDiffer, TypeOK, Coherent
  <2>4. StoreInv'
    BY <1>0, <1>1 DEF TrackAccess, Goto, Coherent, TypeOK, StoreInv, BirthInv, IndexComplete,
       SpentStaysDead, ClosedStaysRevoked, Unminted
  <2>5. Accounted(r)
    BY <1>0, <1>1 DEF TrackAccess, Goto, Accounted, Trading, Coherent, TypeOK
  <2>6. QED
    BY <2>1, <2>2, <2>3, <2>4, <2>5, StepInv
<1>2. CASE SetRefresh(r)
  <2>1. Others(r)
    BY <1>0, <1>2 DEF SetRefresh, Goto, Others, Rests, Frame, TypeOK, Coherent, MintsDiffer
  <2>2. Coherent(r)'
    BY <1>0, <1>2 DEF SetRefresh, Goto, Coherent, TypeOK
  <2>3. FreshMint(r)
    BY <1>0, <1>2 DEF SetRefresh, Goto, FreshMint, MintsDiffer, TypeOK, Coherent
  <2>4. StoreInv'
    BY <1>0, <1>2 DEF SetRefresh, Goto, Coherent, TypeOK, StoreInv, BirthInv, IndexComplete,
       SpentStaysDead, ClosedStaysRevoked, Unminted
  <2>5. Accounted(r)
    BY <1>0, <1>2 DEF SetRefresh, Goto, Accounted, Trading, Coherent, TypeOK
  <2>6. QED
    BY <2>1, <2>2, <2>3, <2>4, <2>5, StepInv
<1>3. CASE IndexRefresh(r)
  <2>1. Others(r)
    BY <1>0, <1>3 DEF IndexRefresh, Goto, Others, Rests, Frame, TypeOK, Coherent, MintsDiffer
  <2>2. Coherent(r)'
    BY <1>0, <1>3 DEF IndexRefresh, Goto, Coherent, TypeOK
  <2>3. FreshMint(r)
    BY <1>0, <1>3 DEF IndexRefresh, Goto, FreshMint, MintsDiffer, TypeOK, Coherent
  <2>4. StoreInv'
    BY <1>0, <1>3 DEF IndexRefresh, Goto, Coherent, TypeOK, StoreInv, BirthInv, IndexComplete,
       SpentStaysDead, ClosedStaysRevoked, Unminted
  <2>5. Accounted(r)
    BY <1>0, <1>3 DEF IndexRefresh, Goto, Accounted, Trading, Coherent, TypeOK
  <2>6. QED
    BY <2>1, <2>2, <2>3, <2>4, <2>5, StepInv
<1>4. CASE MarkUsed(r)
  <2>1. Others(r)
    BY <1>0, <1>4 DEF MarkUsed, Goto, Others, Rests, Frame, TypeOK, Coherent, MintsDiffer
  <2>2. Coherent(r)'
    BY <1>0, <1>4 DEF MarkUsed, Goto, Coherent, TypeOK
  <2>3. FreshMint(r)
    BY <1>0, <1>4 DEF MarkUsed, Goto, FreshMint, MintsDiffer, TypeOK, Coherent
  <2>4. StoreInv'
    BY <1>0, <1>4 DEF MarkUsed, Goto, Coherent, TypeOK, StoreInv, BirthInv, IndexComplete,
       SpentStaysDead, ClosedStaysRevoked, Unminted
  <2>5. Accounted(r)
    BY <1>0, <1>4 DEF MarkUsed, Goto, Accounted, Trading, Coherent, TypeOK
  <2>6. QED
    BY <2>1, <2>2, <2>3, <2>4, <2>5, StepInv
<1>5. ASSUME NEW t \in Tokens, RefreshLoadUser(r, t) PROVE IInv'
  <2>1. Others(r)
    BY <1>0, <1>5 DEF RefreshLoadUser, Unminted, Others, Rests, Frame, TypeOK, Coherent, MintsDiffer
  <2>2. Coherent(r)'
    BY <1>0, <1>5 DEF RefreshLoadUser, Unminted, Coherent, TypeOK, StoreInv, BirthInv
  <2>3. FreshMint(r)
    BY <1>0, <1>5 DEF RefreshLoadUser, Unminted, FreshMint, MintsDiffer, TypeOK, Coherent
  <2>4. StoreInv'
    <3>0. /\ owner[t] = None /\ uid[r] \in Users
          /\ \A x \in Tokens : x # t => owner'[x] = owner[x]
          /\ owner'[t] = uid[r]
          /\ UNCHANGED <<stores, history>>
      BY <1>0, <1>5 DEF RefreshLoadUser, Unminted, Coherent, TypeOK
    <3>1. BirthInv'
      <4>1. \A x \in Tokens : owner'[x] = None => refresh'[x] = "absent"
        BY <1>0, <3>0 DEF StoreInv, BirthInv, Unminted
      <4>2. \A x \in issued : x # t
        BY <1>0, <3>0 DEF StoreInv, BirthInv
      <4>3. QED
        BY <1>0, <3>0, <4>1, <4>2 DEF StoreInv, BirthInv, Unminted, TypeOK
    <3>2. IndexComplete'
      BY <1>0, <3>0 DEF StoreInv, BirthInv, IndexComplete, TypeOK
    <3>3. SpentStaysDead' /\ ClosedStaysRevoked'
      BY <1>0, <3>0 DEF StoreInv, SpentStaysDead, ClosedStaysRevoked
    <3>4. QED
      BY <3>1, <3>2, <3>3 DEF StoreInv
  <2>5. Accounted(r)
    BY <1>0, <1>5 DEF RefreshLoadUser, Unminted, Accounted, Trading, Coherent, TypeOK
  <2>6. QED
    BY <2>1, <2>2, <2>3, <2>4, <2>5, StepInv
<1>6. ASSUME NEW t \in Tokens, SweepRefresh(r, t) PROVE IInv'
  <2>1. Others(r)
    BY <1>0, <1>6 DEF SweepRefresh, Swept, Others, Rests, Frame, TypeOK, Coherent, MintsDiffer
  <2>2. Coherent(r)'
    BY <1>0, <1>6 DEF SweepRefresh, Swept, Coherent, TypeOK
  <2>3. FreshMint(r)
    BY <1>0, <1>6 DEF SweepRefresh, Swept, FreshMint, MintsDiffer, TypeOK, Coherent
  <2>4. StoreInv'
    BY <1>0, <1>6 DEF SweepRefresh, Swept, Coherent, TypeOK, StoreInv, BirthInv, IndexComplete,
       SpentStaysDead, ClosedStaysRevoked, Unminted
  <2>5. Accounted(r)
    BY <1>0, <1>6 DEF SweepRefresh, Swept, Accounted, Trading, Coherent, TypeOK
  <2>6. QED
    BY <2>1, <2>2, <2>3, <2>4, <2>5, StepInv
<1>7. ASSUME NEW t \in Tokens, SweepAccess(r, t) PROVE IInv'
  <2>1. Others(r)
    BY <1>0, <1>7 DEF SweepAccess, Swept, Others, Rests, Frame, TypeOK, Coherent, MintsDiffer
  <2>2. Coherent(r)'
    BY <1>0, <1>7 DEF SweepAccess, Swept, Coherent, TypeOK
  <2>3. FreshMint(r)
    BY <1>0, <1>7 DEF SweepAccess, Swept, FreshMint, MintsDiffer, TypeOK, Coherent
  <2>4. StoreInv'
    BY <1>0, <1>7 DEF SweepAccess, Swept, Coherent, TypeOK, StoreInv, BirthInv, IndexComplete,
       SpentStaysDead, ClosedStaysRevoked, Unminted
  <2>5. Accounted(r)
    BY <1>0, <1>7 DEF SweepAccess, Swept, Accounted, Trading, Coherent, TypeOK
  <2>6. QED
    BY <2>1, <2>2, <2>3, <2>4, <2>5, StepInv
<1>8. CASE ReadIndex(r)
  <2>1. Others(r)
    BY <1>0, <1>8 DEF ReadIndex, Snapshot, IssuedTo, Others, Rests, Frame, TypeOK, Coherent, MintsDiffer
  <2>2. Coherent(r)'
    BY <1>0, <1>8 DEF ReadIndex, Snapshot, IssuedTo, Coherent, TypeOK, StoreInv, BirthInv, IndexComplete
  <2>3. FreshMint(r)
    BY <1>0, <1>8 DEF ReadIndex, Snapshot, IssuedTo, FreshMint, MintsDiffer, TypeOK, Coherent
  <2>4. StoreInv'
    BY <1>0, <1>8 DEF ReadIndex, Snapshot, IssuedTo, Coherent, TypeOK, StoreInv, BirthInv, IndexComplete,
       SpentStaysDead, ClosedStaysRevoked, Unminted
  <2>5. Accounted(r)
    BY <1>0, <1>8 DEF ReadIndex, Snapshot, IssuedTo, Accounted, Trading, Coherent, TypeOK
  <2>6. QED
    BY <2>1, <2>2, <2>3, <2>4, <2>5, StepInv
<1>9. CASE ReadAccessIndex(r)
  <2>1. Others(r)
    BY <1>0, <1>9 DEF ReadAccessIndex, Snapshot, IssuedTo, Others, Rests, Frame, TypeOK, Coherent, MintsDiffer
  <2>2. Coherent(r)'
    BY <1>0, <1>9 DEF ReadAccessIndex, Snapshot, IssuedTo, Coherent, TypeOK, StoreInv, BirthInv, IndexComplete
  <2>3. FreshMint(r)
    BY <1>0, <1>9 DEF ReadAccessIndex, Snapshot, IssuedTo, FreshMint, MintsDiffer, TypeOK, Coherent
  <2>4. StoreInv'
    BY <1>0, <1>9 DEF ReadAccessIndex, Snapshot, IssuedTo, Coherent, TypeOK, StoreInv, BirthInv, IndexComplete,
       SpentStaysDead, ClosedStaysRevoked, Unminted
  <2>5. Accounted(r)
    BY <1>0, <1>9 DEF ReadAccessIndex, Snapshot, IssuedTo, Accounted, Trading, Coherent, TypeOK
  <2>6. QED
    BY <2>1, <2>2, <2>3, <2>4, <2>5, StepInv
<1>10. CASE FinishSweep(r)
  <2>1. Others(r)
    BY <1>0, <1>10 DEF FinishSweep, Finish, Others, Rests, Frame, TypeOK, Coherent, MintsDiffer
  <2>2. Coherent(r)'
    BY <1>0, <1>10 DEF FinishSweep, Finish, Coherent, TypeOK
  <2>3. FreshMint(r)
    BY <1>0, <1>10 DEF FinishSweep, Finish, FreshMint, MintsDiffer, TypeOK, Coherent
  <2>4. StoreInv'
    BY <1>0, <1>10 DEF FinishSweep, Finish, Coherent, TypeOK, StoreInv, BirthInv, IndexComplete,
       SpentStaysDead, ClosedStaysRevoked, Unminted
  <2>5. Accounted(r)
    BY <1>0, <1>10 DEF FinishSweep, Finish, Accounted, Trading, Coherent, TypeOK
  <2>6. QED
    BY <2>1, <2>2, <2>3, <2>4, <2>5, StepInv
<1>11. CASE ConsumeReset(r)
  <2>1. Others(r)
    BY <1>0, <1>11 DEF ConsumeReset, Goto, Others, Rests, Frame, TypeOK, Coherent, MintsDiffer
  <2>2. Coherent(r)'
    BY <1>0, <1>11 DEF ConsumeReset, Goto, Coherent, TypeOK
  <2>3. FreshMint(r)
    BY <1>0, <1>11 DEF ConsumeReset, Goto, FreshMint, MintsDiffer, TypeOK, Coherent
  <2>4. StoreInv'
    BY <1>0, <1>11 DEF ConsumeReset, Goto, Coherent, TypeOK, StoreInv, BirthInv, IndexComplete,
       SpentStaysDead, ClosedStaysRevoked, Unminted
  <2>5. Accounted(r)
    BY <1>0, <1>11 DEF ConsumeReset, Goto, Accounted, Trading, Coherent, TypeOK
  <2>6. QED
    BY <2>1, <2>2, <2>3, <2>4, <2>5, StepInv
<1>12. CASE CommitPassword(r)
  <2>1. Others(r)
    BY <1>0, <1>12 DEF CommitPassword, Finish, Others, Rests, Frame, TypeOK, Coherent, MintsDiffer
  <2>2. Coherent(r)'
    BY <1>0, <1>12 DEF CommitPassword, Finish, Coherent, TypeOK
  <2>3. FreshMint(r)
    BY <1>0, <1>12 DEF CommitPassword, Finish, FreshMint, MintsDiffer, TypeOK, Coherent
  <2>4. StoreInv'
    BY <1>0, <1>12 DEF CommitPassword, Finish, Coherent, TypeOK, StoreInv, BirthInv, IndexComplete,
       SpentStaysDead, ClosedStaysRevoked, Unminted
  <2>5. Accounted(r)
    BY <1>0, <1>12 DEF CommitPassword, Finish, Accounted, Trading, Coherent, TypeOK
  <2>6. QED
    BY <2>1, <2>2, <2>3, <2>4, <2>5, StepInv
<1>13. CASE LogoutDelete(r)
  <2>a. /\ UNCHANGED <<accessIndex, revoked, birth, issued, spent, closed, stranded>>
        /\ pc[r] = "logoutDelete" /\ pc' = [pc EXCEPT ![r] = "logoutRevoke"]
        /\ UNCHANGED <<job, sweep>> /\ unlisted \subseteq unlisted'
    BY <1>13 DEF LogoutDelete, Goto
  <2>b. \A t \in Tokens : refresh'[t] \in {refresh[t], "absent"}
    BY <1>0, <1>13 DEF LogoutDelete, TypeOK
  <2>c. \A u \in Users : index'[u] \subseteq index[u] /\ index[u] \subseteq index'[u] \cup unlisted'
    <3>1. CASE given[r] \in Tokens /\ UNCHANGED index
      BY <3>1
    <3>2. CASE index' = [index EXCEPT ![given[r]] = {}] /\ unlisted' = unlisted \cup index[given[r]]
      BY <1>0, <3>2 DEF TypeOK
    <3>3. QED
      BY <1>13, <3>1, <3>2 DEF LogoutDelete
  <2>1. Others(r)
    <3> SUFFICES ASSUME NEW s \in Requests \ {r} PROVE Rests(s) /\ Frame(s)
      BY DEF Others
    <3>1. Rests(s)
      BY <1>0, <2>a DEF Rests, TypeOK
    <3>2. pc[s] \in MintPcs => new[s] \in Tokens \ issued
      BY <1>0 DEF Coherent
    <3>3. QED
      BY <1>0, <2>a, <2>b, <2>c, <3>1, <3>2 DEF Frame, TypeOK
  <2>2. Coherent(r)'
    BY <1>0, <1>13 DEF LogoutDelete, Goto, Coherent, TypeOK
  <2>3. FreshMint(r)
    BY <1>0, <2>a DEF FreshMint, TypeOK
  <2>4. StoreInv'
    <3>1. BirthInv' /\ ClosedStaysRevoked'
      BY <1>0, <2>a, <2>b DEF StoreInv, BirthInv, ClosedStaysRevoked, Unminted
    <3>2. SpentStaysDead'
      BY <1>0, <2>a, <2>b DEF StoreInv, SpentStaysDead, TypeOK
    <3>3. IndexComplete'
      BY <1>0, <2>a, <2>c DEF StoreInv, BirthInv, IndexComplete
    <3>4. QED
      BY <3>1, <3>2, <3>3 DEF StoreInv
  <2>5. Accounted(r)
    BY <1>0, <2>a, <2>b DEF Accounted, Trading, TypeOK
  <2>6. QED
    BY <2>1, <2>2, <2>3, <2>4, <2>5, StepInv
<1>14. CASE LogoutRevoke(r)
  <2>1. Others(r)
    BY <1>0, <1>14 DEF LogoutRevoke, Finish, Others, Rests, Frame, TypeOK, Coherent, MintsDiffer
  <2>2. Coherent(r)'
    BY <1>0, <1>14 DEF LogoutRevoke, Finish, Coherent, TypeOK
  <2>3. FreshMint(r)
    BY <1>0, <1>14 DEF LogoutRevoke, Finish, FreshMint, MintsDiffer, TypeOK, Coherent
  <2>4. StoreInv'
    BY <1>0, <1>14 DEF LogoutRevoke, Finish, Coherent, TypeOK, StoreInv, BirthInv, IndexComplete,
       SpentStaysDead, ClosedStaysRevoked, Unminted
  <2>5. Accounted(r)
    BY <1>0, <1>14 DEF LogoutRevoke, Finish, Accounted, Trading, Coherent, TypeOK
  <2>6. QED
    BY <2>1, <2>2, <2>3, <2>4, <2>5, StepInv
<1>15. CASE UserGone(r)
  <2>1. Others(r)
    BY <1>0, <1>15 DEF UserGone, Finish, Others, Rests, Frame, TypeOK, Coherent, MintsDiffer
  <2>2. Coherent(r)'
    BY <1>0, <1>15 DEF UserGone, Finish, Coherent, TypeOK
  <2>3. FreshMint(r)
    BY <1>0, <1>15 DEF UserGone, Finish, FreshMint, MintsDiffer, TypeOK, Coherent
  <2>4. StoreInv'
    BY <1>0, <1>15 DEF UserGone, Finish, Coherent, TypeOK, StoreInv, BirthInv, IndexComplete,
       SpentStaysDead, ClosedStaysRevoked, Unminted
  <2>5. Accounted(r)
    BY <1>0, <1>15 DEF UserGone, Finish, Accounted, Trading, Coherent, TypeOK
  <2>6. QED
    BY <2>1, <2>2, <2>3, <2>4, <2>5, StepInv
<1>16. CASE Answer(r)
  <2>1. Others(r)
    BY <1>0, <1>16 DEF Answer, Finish, Others, Rests, Frame, TypeOK, Coherent, MintsDiffer
  <2>2. Coherent(r)'
    BY <1>0, <1>16 DEF Answer, Finish, Coherent, TypeOK
  <2>3. FreshMint(r)
    BY <1>0, <1>16 DEF Answer, Finish, FreshMint, MintsDiffer, TypeOK, Coherent
  <2>4. StoreInv'
    BY <1>0, <1>16 DEF Answer, Finish, Coherent, TypeOK, StoreInv, BirthInv, IndexComplete,
       SpentStaysDead, ClosedStaysRevoked, Unminted
  <2>5. Accounted(r)
    BY <1>0, <1>16 DEF Answer, Finish, Accounted, Trading, Coherent, TypeOK
  <2>6. QED
    BY <2>1, <2>2, <2>3, <2>4, <2>5, StepInv
<1>17. QED
  BY <1>1, <1>2, <1>3, <1>4, <1>5, <1>6, <1>7, <1>8, <1>9, <1>10, <1>11, <1>12, <1>13, <1>14,
     <1>15, <1>16 DEF Step

\* A request that ends where it is preserves the invariant.
LEMMA AbortPreserves ==
  ASSUME IInv, TypeOK', NEW r \in Requests, Abort(r)
  PROVE  IInv'
<1> USE NoneDistinct, AuthAssumption DEF MintPcs, stores, birth, accounts, lost, history, req, job, sweep, At
<1>0. /\ TypeOK /\ Coherent(r) /\ MintsDiffer /\ StoreInv
      /\ \A s \in Requests : Coherent(s)
  BY DEF IInv, RequestInv, StoreInv
<1>1. CASE Abort(r)
  <2>1. Others(r)
    BY <1>0, <1>1 DEF Abort, Finish, Others, Rests, Frame, TypeOK, Coherent, MintsDiffer
  <2>2. Coherent(r)'
    BY <1>0, <1>1 DEF Abort, Finish, Coherent, TypeOK
  <2>3. FreshMint(r)
    BY <1>0, <1>1 DEF Abort, Finish, FreshMint, MintsDiffer, TypeOK, Coherent
  <2>4. StoreInv'
    BY <1>0, <1>1 DEF Abort, Finish, Coherent, TypeOK, StoreInv, BirthInv, IndexComplete,
       SpentStaysDead, ClosedStaysRevoked, Unminted
  <2>5. Accounted(r)
    BY <1>0, <1>1 DEF Abort, Finish, Accounted, Trading, Coherent, TypeOK
  <2>6. QED
    BY <2>1, <2>2, <2>3, <2>4, <2>5, StepInv
<1>2. QED
  BY <1>1 DEF Abort

\* Every arrival of a call preserves the invariant.
LEMMA ArrivePreserves ==
  ASSUME IInv, TypeOK', NEW r \in Requests, Arrive(r)
  PROVE  IInv'
<1> USE NoneDistinct, AuthAssumption DEF MintPcs, stores, birth, accounts, lost, history, req, job, sweep, At
<1>0. /\ TypeOK /\ Coherent(r) /\ MintsDiffer /\ StoreInv
      /\ \A s \in Requests : Coherent(s)
  BY DEF IInv, RequestInv, StoreInv
<1>1. ASSUME NEW u \in Users, NEW t \in Tokens, Login(r, u, t) PROVE IInv'
  <2>1. Others(r)
    BY <1>0, <1>1 DEF Login, Begin, Unminted, Others, Rests, Frame, TypeOK, Coherent, MintsDiffer
  <2>2. Coherent(r)'
    BY <1>0, <1>1 DEF Login, Begin, Unminted, Coherent, TypeOK, StoreInv, BirthInv
  <2>3. FreshMint(r)
    BY <1>0, <1>1 DEF Login, Begin, Unminted, FreshMint, MintsDiffer, TypeOK, Coherent
  <2>4. StoreInv'
    BY <1>0, <1>1 DEF Login, Begin, Unminted, Coherent, TypeOK, StoreInv, BirthInv, IndexComplete,
       SpentStaysDead, ClosedStaysRevoked, Unminted
  <2>5. Accounted(r)
    BY <1>0, <1>1 DEF Login, Begin, Unminted, Accounted, Trading, Coherent, TypeOK
  <2>6. QED
    BY <2>1, <2>2, <2>3, <2>4, <2>5, StepInv
<1>2. ASSUME NEW t \in Tokens, RefreshGet(r, t) PROVE IInv'
  <2>1. Others(r)
    BY <1>0, <1>2 DEF RefreshGet, Begin, Others, Rests, Frame, TypeOK, Coherent, MintsDiffer
  <2>2. Coherent(r)'
    BY <1>0, <1>2 DEF RefreshGet, Begin, Coherent, TypeOK, StoreInv, BirthInv
  <2>3. FreshMint(r)
    BY <1>0, <1>2 DEF RefreshGet, Begin, FreshMint, MintsDiffer, TypeOK, Coherent
  <2>4. StoreInv'
    BY <1>0, <1>2 DEF RefreshGet, Begin, Coherent, TypeOK, StoreInv, BirthInv, IndexComplete,
       SpentStaysDead, ClosedStaysRevoked, Unminted
  <2>5. Accounted(r)
    BY <1>0, <1>2 DEF RefreshGet, Begin, Accounted, Trading, Coherent, TypeOK
  <2>6. QED
    BY <2>1, <2>2, <2>3, <2>4, <2>5, StepInv
<1>3. ASSUME NEW t \in Tokens, NEW u \in Users, UpdatePassword(r, t, u) PROVE IInv'
  <2>1. Others(r)
    BY <1>0, <1>3 DEF UpdatePassword, Begin, Others, Rests, Frame, TypeOK, Coherent, MintsDiffer
  <2>2. Coherent(r)'
    BY <1>0, <1>3 DEF UpdatePassword, Begin, Coherent, TypeOK
  <2>3. FreshMint(r)
    BY <1>0, <1>3 DEF UpdatePassword, Begin, FreshMint, MintsDiffer, TypeOK, Coherent
  <2>4. StoreInv'
    BY <1>0, <1>3 DEF UpdatePassword, Begin, Coherent, TypeOK, StoreInv, BirthInv, IndexComplete,
       SpentStaysDead, ClosedStaysRevoked, Unminted
  <2>5. Accounted(r)
    BY <1>0, <1>3 DEF UpdatePassword, Begin, Accounted, Trading, Coherent, TypeOK
  <2>6. QED
    BY <2>1, <2>2, <2>3, <2>4, <2>5, StepInv
<1>4. ASSUME NEW k \in ResetKeys, ConfirmReset(r, k) PROVE IInv'
  <2>1. Others(r)
    BY <1>0, <1>4 DEF ConfirmReset, Begin, Others, Rests, Frame, TypeOK, Coherent, MintsDiffer
  <2>2. Coherent(r)'
    BY <1>0, <1>4 DEF ConfirmReset, Begin, Coherent, TypeOK
  <2>3. FreshMint(r)
    BY <1>0, <1>4 DEF ConfirmReset, Begin, FreshMint, MintsDiffer, TypeOK, Coherent
  <2>4. StoreInv'
    BY <1>0, <1>4 DEF ConfirmReset, Begin, Coherent, TypeOK, StoreInv, BirthInv, IndexComplete,
       SpentStaysDead, ClosedStaysRevoked, Unminted
  <2>5. Accounted(r)
    BY <1>0, <1>4 DEF ConfirmReset, Begin, Accounted, Trading, Coherent, TypeOK
  <2>6. QED
    BY <2>1, <2>2, <2>3, <2>4, <2>5, StepInv
<1>5. ASSUME NEW a \in Tokens, NEW t \in Tokens \cup NamedIndexes, Logout(r, a, t) PROVE IInv'
  <2>1. Others(r)
    BY <1>0, <1>5 DEF Logout, Begin, Authorized, Others, Rests, Frame, TypeOK, Coherent, MintsDiffer
  <2>2. Coherent(r)'
    BY <1>0, <1>5 DEF Logout, Begin, Authorized, Coherent, TypeOK
  <2>3. FreshMint(r)
    BY <1>0, <1>5 DEF Logout, Begin, Authorized, FreshMint, MintsDiffer, TypeOK, Coherent
  <2>4. StoreInv'
    BY <1>0, <1>5 DEF Logout, Begin, Authorized, Coherent, TypeOK, StoreInv, BirthInv, IndexComplete,
       SpentStaysDead, ClosedStaysRevoked, Unminted
  <2>5. Accounted(r)
    BY <1>0, <1>5 DEF Logout, Begin, Authorized, Accounted, Trading, Coherent, TypeOK
  <2>6. QED
    BY <2>1, <2>2, <2>3, <2>4, <2>5, StepInv
<1>6. QED
  BY <1>1, <1>2, <1>3, <1>4, <1>5 DEF Arrive

\* Expiry, the mailing of a reset key and a soft delete preserve the invariant.
LEMMA OutsidePreserves ==
  ASSUME IInv, TypeOK',
         \/ \E k \in ResetKeys : RequestReset(k) \/ LapseKey(k)
         \/ \E t \in Tokens : Lapse(t) \/ \E u \in Users : DeleteUser(t, u)
         \/ UNCHANGED vars
  PROVE  IInv'
<1> USE DEF stores, birth, accounts, lost, history, req, job, sweep
<1>0. TypeOK /\ RequestInv /\ MintsDiffer /\ StoreInv /\ AlarmsHaveCause
  BY DEF IInv, StoreInv
<1>1. /\ UNCHANGED <<index, accessIndex, revoked, birth, history, req>>
      /\ \A t \in Tokens : refresh'[t] \in {refresh[t], "absent"}
  BY <1>0 DEF RequestReset, LapseKey, DeleteUser, Lapse, vars, TypeOK
<1>2. \A s \in Requests : Coherent(s)'
  <2> SUFFICES ASSUME NEW s \in Requests PROVE Coherent(s)'
    OBVIOUS
  <2>1. Rests(s)
    BY <1>1 DEF Rests
  <2>2. Frame(s)
    BY <1>0, <1>1 DEF Frame, RequestInv, Coherent, TypeOK, MintPcs
  <2>3. QED
    BY <2>1, <2>2, RestsCoherent
<1>3. StoreInv'
  BY <1>0, <1>1 DEF TypeOK, StoreInv, BirthInv, IndexComplete, SpentStaysDead,
     ClosedStaysRevoked, Unminted
<1>4. MintsDiffer'
  BY <1>0, <1>1 DEF MintsDiffer
<1>5. AlarmsHaveCause'
  BY <1>0, <1>1 DEF AlarmsHaveCause, Trading
<1>6. QED
  BY <1>2, <1>3, <1>4, <1>5 DEF IInv, RequestInv, StoreInv

-----------------------------------------------------------------------------
(* The theorems *)

\* The invariant is inductive.
LEMMA StepInductive == IInv /\ [Next]_vars => IInv'
<1> SUFFICES ASSUME IInv, [Next]_vars PROVE IInv'
  OBVIOUS
<1>1. TypeOK'
  BY TypeStep
<1>2. ASSUME NEW r \in Requests, Step(r) \/ Arrive(r) \/ Abort(r) PROVE IInv'
  BY <1>1, <1>2, StepPreserves, ArrivePreserves, AbortPreserves
<1>3. QED
  BY <1>1, <1>2, OutsidePreserves DEF Next

\* The stores, births and requests in flight agree in every reachable state.
THEOREM Inductive == Spec => []IInv
  BY InitInv, StepInductive, PTL DEF Spec

\* Every variable keeps its shape.
THEOREM TypeCorrect == Spec => []TypeOK
<1>1. IInv => TypeOK
  BY DEF IInv
<1>2. QED
  BY Inductive, <1>1, PTL

\* A sweep can reach every token pair ever handed out, and only the owner's, but
\* for the refresh tokens of an index that a logout deleted.
THEOREM IndexesComplete == Spec => []IndexComplete
<1>1. IInv => IndexComplete
  BY DEF IInv
<1>2. QED
  BY Inductive, <1>1, PTL

\* A refresh token that a rotation, a logout or a sweep of its index retired never
\* works again, in whatever order the steps of concurrent requests fall.
THEOREM SpentTokensStayDead == Spec => []SpentStaysDead
<1>1. IInv => SpentStaysDead
  BY DEF IInv
<1>2. QED
  BY Inductive, <1>1, PTL

\* A retired access token stays revoked.
THEOREM ClosedTokensStayRevoked == Spec => []ClosedStaysRevoked
<1>1. IInv => ClosedStaysRevoked
  BY DEF IInv
<1>2. QED
  BY Inductive, <1>1, PTL

\* A used marker stands for a trade that was answered, is under way, or failed
\* after the marker was written: no replay alarm is without one of these causes.
THEOREM AlarmsCaused == Spec => []AlarmsHaveCause
<1>1. IInv => AlarmsHaveCause
  BY DEF IInv
<1>2. QED
  BY Inductive, <1>1, PTL

-----------------------------------------------------------------------------
(* The handlers implement the contract *)

phases == <<SessionPhase, AccessPhase>>

\* A write that takes one refresh key out of "live" ends a session or nothing.
LEMMA KeyDies ==
  ASSUME NEW t \in Tokens, NEW v \in {"absent", "used"}, TypeOK,
         refresh' = [refresh EXCEPT ![t] = v], UNCHANGED <<issued, revoked>>
  PROVE  [Contract!Next]_phases
<1>0. AccessPhase' = AccessPhase
  BY DEF AccessPhase
<1>1. CASE t \in issued /\ refresh[t] = "live"
  <2>1. SessionPhase[t] = "open"
    BY <1>1 DEF SessionPhase
  <2>2. SessionPhase' = [SessionPhase EXCEPT ![t] = "ended"]
    BY <1>1 DEF SessionPhase, TypeOK
  <2>3. QED
    BY <1>0, <2>1, <2>2 DEF Contract!Next, Contract!End
<1>2. CASE ~(t \in issued /\ refresh[t] = "live")
  <2>1. SessionPhase' = SessionPhase
    BY <1>2 DEF SessionPhase, TypeOK
  <2>2. QED
    BY <1>0, <2>1 DEF phases
<1>3. QED
  BY <1>1, <1>2

\* A write of one revocation key ends an access or nothing.
LEMMA JtiDies ==
  ASSUME NEW t \in Tokens, TypeOK, revoked' = revoked \cup {t}, UNCHANGED <<issued, refresh>>
  PROVE  [Contract!Next]_phases
<1>0. SessionPhase' = SessionPhase
  BY DEF SessionPhase
<1>1. CASE t \in issued /\ t \notin revoked
  <2>1. AccessPhase[t] = "open"
    BY <1>1 DEF AccessPhase
  <2>2. AccessPhase' = [AccessPhase EXCEPT ![t] = "ended"]
    BY <1>1 DEF AccessPhase, TypeOK
  <2>3. QED
    BY <1>0, <2>1, <2>2 DEF Contract!Next, Contract!Revoke
<1>2. CASE ~(t \in issued /\ t \notin revoked)
  <2>1. AccessPhase' = AccessPhase
    BY <1>2 DEF AccessPhase, TypeOK
  <2>2. QED
    BY <1>0, <2>1 DEF phases
<1>3. QED
  BY <1>1, <1>2

\* The answer of a login or a refresh hands out a pair never handed out before.
LEMMA AnswerIssues ==
  ASSUME IInv, NEW r \in Requests, Answer(r)
  PROVE  Contract!Next
<1>0. /\ new[r] \in Tokens \ issued
      /\ issued' = issued \cup {new[r]} /\ UNCHANGED <<refresh, revoked>>
  BY DEF IInv, RequestInv, Coherent, Answer, At, MintPcs, stores
<1>1. SessionPhase[new[r]] = "none" /\ AccessPhase[new[r]] = "none"
  BY <1>0 DEF SessionPhase, AccessPhase
<1>2. \E p \in {"open", "ended"} : SessionPhase' = [SessionPhase EXCEPT ![new[r]] = p]
  <2>1. SessionPhase' = [SessionPhase EXCEPT ![new[r]] =
                           IF refresh[new[r]] = "live" THEN "open" ELSE "ended"]
    BY <1>0 DEF SessionPhase
  <2>2. QED
    BY <2>1
<1>3. \E p \in {"open", "ended"} : AccessPhase' = [AccessPhase EXCEPT ![new[r]] = p]
  <2>1. AccessPhase' = [AccessPhase EXCEPT ![new[r]] =
                          IF new[r] \in revoked THEN "ended" ELSE "open"]
    BY <1>0 DEF AccessPhase
  <2>2. QED
    BY <2>1
<1>4. Contract!Issue(new[r])
  BY <1>1, <1>2, <1>3 DEF Contract!Issue
<1>5. QED
  BY <1>0, <1>4 DEF Contract!Next

\* A step that writes none of what the contract sees is a stutter of it.
LEMMA Unseen ==
  ASSUME UNCHANGED <<refresh, revoked, issued>>
  PROVE  [Contract!Next]_phases
  BY DEF phases, SessionPhase, AccessPhase

\* Every step of the handlers is a step of the contract or a stutter.
LEMMA StepRefines == IInv /\ [Next]_vars => [Contract!Next]_phases
<1> SUFFICES ASSUME IInv, [Next]_vars PROVE [Contract!Next]_phases
  OBVIOUS
<1> USE DEF stores, birth, accounts, lost, history, req, job, sweep, At, MintPcs
<1>0. TypeOK /\ RequestInv
  BY DEF IInv
<1>1. ASSUME NEW r \in Requests, Step(r) PROVE [Contract!Next]_phases
  <2>0. Coherent(r)
    BY <1>0 DEF RequestInv
  <2>1. CASE Answer(r)
    BY <2>1, AnswerIssues
  <2>2. CASE SetRefresh(r)
    <3>1. UNCHANGED <<issued, revoked>> /\ new[r] \in Tokens \ issued
      BY <2>0, <2>2 DEF SetRefresh, Coherent
    <3>2. SessionPhase' = SessionPhase /\ AccessPhase' = AccessPhase
      BY <1>0, <2>2, <3>1 DEF SetRefresh, SessionPhase, AccessPhase, TypeOK
    <3>3. QED
      BY <3>2 DEF phases
  <2>3. CASE MarkUsed(r)
    <3>1. given[r] \in Tokens
      BY <1>0, <2>0, <2>3, NoneDistinct DEF MarkUsed, Coherent, TypeOK
    <3>2. QED
      BY <1>0, <2>3, <3>1, KeyDies DEF MarkUsed
  <2>4. CASE LogoutDelete(r)
    <3>1. CASE UNCHANGED refresh
      BY <2>4, <3>1, Unseen DEF LogoutDelete
    <3>2. CASE given[r] \in Tokens /\ refresh' = [refresh EXCEPT ![given[r]] = "absent"]
      BY <1>0, <2>4, <3>2, KeyDies DEF LogoutDelete
    <3>3. QED
      BY <2>4, <3>1, <3>2 DEF LogoutDelete
  <2>5. ASSUME NEW t \in Tokens, SweepRefresh(r, t) PROVE [Contract!Next]_phases
    BY <1>0, <2>5, KeyDies DEF SweepRefresh
  <2>6. ASSUME NEW t \in Tokens, SweepAccess(r, t) PROVE [Contract!Next]_phases
    BY <1>0, <2>6, JtiDies DEF SweepAccess
  <2>7. CASE LogoutRevoke(r)
    <3>1. new[r] \in Tokens
      BY <1>0, <2>0, <2>7 DEF LogoutRevoke, Coherent, TypeOK
    <3>2. QED
      BY <1>0, <2>7, <3>1, JtiDies DEF LogoutRevoke
  <2>8. CASE \/ TrackAccess(r) \/ IndexRefresh(r) \/ ReadIndex(r) \/ ReadAccessIndex(r) \/ FinishSweep(r)
             \/ ConsumeReset(r) \/ CommitPassword(r) \/ UserGone(r)
             \/ \E t \in Tokens : RefreshLoadUser(r, t)
    BY <2>8, Unseen DEF TrackAccess, IndexRefresh, ReadIndex, ReadAccessIndex, FinishSweep, ConsumeReset,
       CommitPassword, UserGone, RefreshLoadUser
  <2>9. QED
    BY <1>1, <2>1, <2>2, <2>3, <2>4, <2>5, <2>6, <2>7, <2>8 DEF Step
<1>2. ASSUME NEW t \in Tokens, Lapse(t) PROVE [Contract!Next]_phases
  BY <1>0, <1>2, KeyDies DEF Lapse
<1>3. CASE \/ \E r \in Requests : Arrive(r) \/ Abort(r)
           \/ \E k \in ResetKeys : RequestReset(k) \/ LapseKey(k)
           \/ \E t \in Tokens, u \in Users : DeleteUser(t, u)
           \/ UNCHANGED vars
  BY <1>3, Unseen DEF Arrive, Login, RefreshGet, UpdatePassword, ConfirmReset, Logout, Abort,
     RequestReset, LapseKey, DeleteUser, vars
<1>4. QED
  BY <1>1, <1>2, <1>3 DEF Next

\* The handlers, interleaved and failing as they may, implement the contract.
THEOREM Refinement == Spec => ImplementsContract
<1>1. Init => Contract!Init
  BY DEF Init, Contract!Init, SessionPhase, AccessPhase
<1>2. QED
  BY <1>1, StepRefines, Inductive, PTL DEF Spec, ImplementsContract, Contract!Spec, phases

=============================================================================
