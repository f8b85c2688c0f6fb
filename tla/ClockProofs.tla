----------------------------- MODULE ClockProofs -----------------------------
(****************************************************************************)
(* What is measured against a clock: an account is locked, an outage ends,  *)
(* a token lives and a window is filled, for any number of attempts,        *)
(* mails, tokens and calls, and whatever the limits, times and routes are.  *)
(****************************************************************************)
EXTENDS Lockout, Mail, TokenLifetimes, RateLimiter, FiniteSetTheorems,
        SequenceTheorems, TLAPS

-----------------------------------------------------------------------------
USE LockoutAssumption

\* The attempts that have read the row and not written it.
Answering(a) == apc[a] \in {"right", "wrong"}

\* No attempt has read more failures than were ever committed; and while no two
\* have overlapped, the one in flight has read the row as it is.
LoadedInv ==
  /\ \A a \in Attempts : loaded[a].failed <= wrongEver
  /\ overlapped = {} => \A a \in Attempts : Answering(a) =>
       /\ loaded[a].failed = failed /\ loaded[a].until = lockedUntil
       /\ \A b \in Attempts : Answering(b) => b = a

\* LockIsExact with what the attempts in flight have read.
LockInv == LockoutTypeOK /\ LockIsExact /\ LoadedInv

\* Nothing has been read or counted at the start.
LEMMA LockoutStarts == LockoutInit => LockInv
BY DEF LockoutInit, LockInv, LockoutTypeOK, LockIsExact, LoadedInv, Answering, NotLoaded

\* Every read and every commit of an attempt keeps the invariant.
LEMMA LockoutSteps == LockInv /\ [LockoutNext]_kvars => LockInv'
<1> SUFFICES ASSUME LockInv, [LockoutNext]_kvars PROVE LockInv'
  OBVIOUS
<1> USE DEF LockInv, LockoutTypeOK, LockIsExact, LoadedInv, Answering, NotLoaded, AEnds
<1>1. CASE TimePasses
  BY <1>1 DEF TimePasses
<1>2. ASSUME NEW a \in Attempts, RefuseLocked(a) PROVE LockInv'
  BY <1>2 DEF RefuseLocked
<1>3. ASSUME NEW a \in Attempts, NEW v \in {"right", "wrong"}, ReadAccount(a, v) PROVE LockInv'
  BY <1>3 DEF ReadAccount
<1>4. ASSUME NEW a \in Attempts, CommitWrong(a) PROVE LockInv'
  BY <1>4 DEF CommitWrong
<1>5. ASSUME NEW a \in Attempts, CommitRight(a) PROVE LockInv'
  BY <1>5 DEF CommitRight
<1>6. CASE UNCHANGED kvars
  BY <1>6 DEF kvars
<1> QED
  BY <1>1, <1>2, <1>3, <1>4, <1>5, <1>6 DEF LockoutNext

\* Attempts that do not overlap lock the account exactly when the threshold of
\* wrong passwords in a row is reached, and those that do never lock it for want
\* of wrong passwords, however many attempts there are.
THEOREM LockHolds == LockoutSpec => []LockIsExact
<1>1. LockInv => LockIsExact
  BY DEF LockInv
<1> QED
  BY <1>1, LockoutStarts, LockoutSteps, PTL DEF LockoutSpec

HIDE LockoutAssumption

-----------------------------------------------------------------------------
USE MailAssumption

\* The breaker never counts more than has failed in a row, is closed below its
\* threshold, and was opened by the last failure there was.
BreakerInv ==
  /\ failureCount <= inARow
  /\ openedAt = 0 => failureCount < FailureThreshold
  /\ inARow # 0 => lastFailure # 0

\* OutageIsOver with what the breaker has counted; a job the worker carries has
\* a try left.
MailInv == MailTypeOK /\ OutageIsOver /\ BreakerInv /\ (carrying # None => tried < Tries)

\* The breaker is closed and nothing is lost at the start.
LEMMA MailStarts == MailInit => MailInv
BY DEF MailInit, MailInv, MailTypeOK, OutageIsOver, BreakerInv

\* The variables of the breaker after an attempt to send, which takes no time.
SendLeaves ==
  /\ openedAt' \in 0..moment' /\ lastFailure' \in 0..moment'
  /\ failureCount' \in 0..FailureThreshold /\ inARow' \in Nat
  /\ openedAt' # 0 => inARow' >= FailureThreshold /\ openedAt' = lastFailure'
  /\ BreakerInv'

\* A mail that the server takes leaves the breaker closed.
LEMMA SentKeeps == ASSUME MailInv, Send(TRUE), moment' = moment PROVE SendLeaves
BY DEF MailInv, MailTypeOK, OutageIsOver, BreakerInv, Send, SendLeaves

\* A mail is given up only when the server fails, or has failed just now.
LEMMA FailedKeeps ==
  ASSUME MailInv, Send(FALSE), moment' = moment
  PROVE  SendLeaves /\ lastFailure' # 0 /\ moment' - lastFailure' < ResetTimeout
BY DEF MailInv, MailTypeOK, OutageIsOver, BreakerInv, Send, IsOpen, breaker, SendLeaves

\* Every try of a job, and every welcome mail, keeps the invariant.
LEMMA MailSteps == MailInv /\ [MailNext]_mvars => MailInv'
<1> SUFFICES ASSUME MailInv, [MailNext]_mvars PROVE MailInv'
  OBVIOUS
<1> USE DEF MailInv, MailTypeOK, OutageIsOver
<1>1. CASE MomentPasses
  BY <1>1 DEF MomentPasses, breaker, BreakerInv
<1>2. ASSUME NEW m \in Mails, EnqueueMail(m) PROVE MailInv'
  BY <1>2 DEF EnqueueMail, breaker, BreakerInv
<1>3. ASSUME NEW m \in Mails, CarryMail(m) PROVE MailInv'
  BY <1>3 DEF CarryMail, breaker, BreakerInv
<1>4. ASSUME NEW m \in Mails, TryMail(m) PROVE MailInv'
  <2>1. carrying = m /\ tried' = tried + 1 /\ moment' = moment
    BY <1>4 DEF TryMail
  <2>2. CASE Send(TRUE) /\ letter' = [letter EXCEPT ![m] = "sent"] /\ carrying' = None /\ UNCHANGED lostAt
    BY <2>1, <2>2, SentKeeps DEF SendLeaves
  <2>3. CASE Send(FALSE) /\ tried' < Tries /\ UNCHANGED <<letter, carrying, lostAt>>
    BY <2>1, <2>3, FailedKeeps DEF SendLeaves
  <2>4. CASE Send(FALSE) /\ tried' = Tries /\ Lost(m) /\ carrying' = None
    BY <2>1, <2>4, FailedKeeps DEF Lost, SendLeaves
  <2> QED
    BY <1>4, <2>2, <2>3, <2>4 DEF TryMail
<1>5. ASSUME NEW m \in Mails, SendWelcome(m) PROVE MailInv'
  <2>1. CASE Send(TRUE) /\ letter' = [letter EXCEPT ![m] = "sent"] /\ UNCHANGED lostAt
    BY <1>5, <2>1, SentKeeps DEF SendLeaves, SendWelcome
  <2>2. CASE Send(FALSE) /\ Lost(m)
    BY <1>5, <2>2, FailedKeeps DEF SendLeaves, SendWelcome, Lost
  <2> QED
    BY <1>5, <2>1, <2>2 DEF SendWelcome
<1>6. CASE UNCHANGED mvars
  BY <1>6 DEF mvars, BreakerInv
<1> QED
  BY <1>1, <1>2, <1>3, <1>4, <1>5, <1>6 DEF MailNext, MailStep

\* However many mails share the breaker, and however the tries of a job and the
\* welcome mails interleave, an outage of the mail server outlives itself by no
\* more than the reset timeout.
THEOREM OutageEnds == MailSpec => []OutageIsOver
<1>1. MailInv => OutageIsOver
  BY DEF MailInv
<1> QED
  BY <1>1, MailStarts, MailSteps, PTL DEF MailSpec

HIDE MailAssumption

-----------------------------------------------------------------------------
USE TokenLifetimesAssumption

\* No token outlives what its kind is given, and no index its tokens'.
EndsInv ==
  /\ \A t \in AllTokens : ends[t] <= instant + TTL[kind[t]]
  /\ \A k \in Kinds : until[k] <= instant + TTL[k]

\* An index names tokens of its kind that were made, and a sweep reads no others.
SweepReadInv ==
  /\ \A k \in Kinds : \A t \in members[k] : phase[t] # "new" /\ kind[t] = k
  /\ \A s \in Sweeps : \A t \in read[s] : phase[t] # "new" /\ kind[t] = spot[s]

\* A token between SADD and EXPIRE is in an index that has not lapsed; one its
\* client holds is in an index that lapses no sooner than the token ends.
IndexedInv == \A t \in AllTokens \ adrift :
  /\ phase[t] = "expire" => t \in members[kind[t]] /\ ~Gone(kind[t])
  /\ phase[t] = "held" =>
       ends[t] <= instant \/ (t \in members[kind[t]] /\ ends[t] <= until[kind[t]])

\* A token that was retired is deleted, or marked for as long as it could last, and
\* longer by as much as a mark's lifetime is longer than a token's.
SweptInv == \A t \in swept :
  /\ phase[t] # "new"
  /\ IF kind[t] = "refresh" THEN ends[t] = 0 ELSE ends[t] + RevokeTTL <= revokedTill[t] + AccessTTL

\* The parts together; LifetimesFit follows.
LifetimesInv == TokenLifetimesTypeOK /\ EndsInv /\ SweepReadInv /\ IndexedInv /\ SweptInv

\* No token is made at the start.
LEMMA LifetimesStart == TokenLifetimesInit => LifetimesInv
BY DEF TokenLifetimesInit, LifetimesInv, TokenLifetimesTypeOK, EndsInv, SweepReadInv, IndexedInv,
       SweptInv, Kinds, TTL

\* Every call to the store, and every instant, keeps the invariant.
LEMMA LifetimesSteps == LifetimesInv /\ [TokenLifetimesNext]_tvars => LifetimesInv'
<1> SUFFICES ASSUME LifetimesInv, [TokenLifetimesNext]_tvars PROVE LifetimesInv'
  OBVIOUS
<1> USE DEF LifetimesInv, TokenLifetimesTypeOK, EndsInv, SweepReadInv, IndexedInv, SweptInv,
            Gone, Held, TGoto, index, sweeps
<1>0. (\A k \in Kinds : TTL[k] \in Nat \ {0}) /\ TTL["access"] = AccessTTL /\ AccessTTL <= RevokeTTL
  BY DEF TTL, Kinds
<1>1. CASE InstantPasses
  BY <1>0, <1>1 DEF InstantPasses, Kinds
<1>2. ASSUME NEW t \in AllTokens, NEW k \in Kinds, Mint(t, k) PROVE LifetimesInv'
  BY <1>0, <1>2 DEF Mint, Kinds
<1>3. ASSUME NEW t \in AllTokens, AddToIndex(t) PROVE LifetimesInv'
  BY <1>0, <1>3 DEF AddToIndex, Kinds
<1>4. ASSUME NEW t \in AllTokens, RenewIndex(t) PROVE LifetimesInv'
  <2>1. TokenLifetimesTypeOK'
    BY <1>0, <1>4 DEF RenewIndex, Kinds
  <2>2. EndsInv'
    BY <1>0, <1>4 DEF RenewIndex, Kinds
  <2>3. SweepReadInv'
    BY <1>0, <1>4 DEF RenewIndex, Kinds
  <2>4. IndexedInv'
    BY <1>0, <1>4 DEF RenewIndex
  <2>5. SweptInv'
    BY <1>0, <1>4 DEF RenewIndex, Kinds
  <2> QED
    BY <2>1, <2>2, <2>3, <2>4, <2>5
<1>5. ASSUME NEW t \in AllTokens, TokenFails(t) PROVE LifetimesInv'
  BY <1>5 DEF TokenFails
<1>6. ASSUME NEW s \in Sweeps, NEW k \in Kinds, ReadMembers(s, k) PROVE LifetimesInv'
  BY <1>6 DEF ReadMembers
<1>7. ASSUME NEW s \in Sweeps, NEW t \in AllTokens, Retire(s, t) PROVE LifetimesInv'
  <2>1. TokenLifetimesTypeOK'
    BY <1>0, <1>7 DEF Retire, Kinds
  <2>2. EndsInv'
    BY <1>0, <1>7 DEF Retire, Kinds
  <2>3. SweepReadInv'
    BY <1>0, <1>7 DEF Retire, Kinds
  <2>4. IndexedInv'
    BY <1>0, <1>7 DEF Retire, Kinds
  <2>5. SweptInv'
    BY <1>0, <1>7 DEF Retire, Kinds
  <2> QED
    BY <2>1, <2>2, <2>3, <2>4, <2>5
<1>8. CASE DropIndex
  BY <1>0, <1>8 DEF DropIndex, Kinds
<1>9. CASE UNCHANGED tvars
  BY <1>9 DEF tvars
<1> QED
  BY <1>1, <1>2, <1>3, <1>4, <1>5, <1>6, <1>7, <1>8, <1>9 DEF TokenLifetimesNext

\* For any lifetimes with a revocation no shorter than an access token's life: up to
\* its last second a token that works is in its index, unless that lapsed between
\* SADD and EXPIRE or was deleted; and what a sweep has retired works again at most
\* in that second, where the two lifetimes are the same.
THEOREM LifetimesHold == TokenLifetimesSpec => []LifetimesFit
<1>1. LifetimesInv => LifetimesFit
  BY DEF LifetimesInv, TokenLifetimesTypeOK, EndsInv, SweepReadInv, IndexedInv, SweptInv,
         LifetimesFit, Works, Held, Gone, Kinds
<1> QED
  BY <1>1, LifetimesStart, LifetimesSteps, PTL DEF TokenLifetimesSpec

HIDE TokenLifetimesAssumption

-----------------------------------------------------------------------------
USE RateLimiterAssumption

\* What one call to a limiter may count.
ByOf(S)    == {x.by : x \in S}
StampOf(S) == {x.stamp : x \in S}
LetThrough(k, t) == {y \in Decided(k) : y.ok /\ ~y.late /\ y.stamp <= t /\ y.stamp + Window > t}
InWindow(k, x)   == {y \in Decided(k) \ {x} : (y.ok \/ limiter = "redis") /\ y.stamp + Window > x.stamp}

\* The callers, and the calls the limiter has decided.
CallersOK ==
  /\ stamp \in [Callers -> 0..clock] /\ route \in [Callers -> Seq(LimitKeys)]
  /\ lpc \in [Callers -> {"new", "ask", "sent", "served", "refused", "error"}]
  /\ \A c \in Callers : lpc[c] = "ask" => route[c] # <<>>
  /\ \A c \in Callers : lpc[c] = "sent" => route[c] # <<>> /\ limiter = "redis" /\ stamp[c] >= 1
  /\ IsFiniteSet(calls)
  /\ \A y \in calls : y.by \in Callers /\ y.key \in LimitKeys /\ y.stamp \in 1..clock

\* What is stored.
StoreOK ==
  /\ hits \in [LimitKeys -> SUBSET ((1..clock) \X (Callers \cup {None}))]
  /\ \A k \in LimitKeys : IsFiniteSet(hits[k])
  /\ lapse \in [LimitKeys -> 0..(MaxNow + Window)] /\ lapsed \in [LimitKeys -> 0..clock]

\* The shape of the limiter.
LimiterOK == limiter \in {"memory", "redis"} /\ clock \in 1..MaxNow /\ CallersOK /\ StoreOK

\* A caller has asked for no key that it has yet to ask for, and for none twice.
AskedOnce ==
  /\ \A c \in Callers : \A i, j \in 1..Len(route[c]) : route[c][i] = route[c][j] => i = j
  /\ \A y \in calls : lpc[y.by] # "new" /\ y.key \notin Range(route[y.by])
  /\ \A y, z \in calls : y.by = z.by /\ y.key = z.key => y = z

\* In memory the stamps stored are those of the calls let through, all that are
\* still in the window among them, and no window held too many.
MemoryInv ==
  /\ \A y \in calls : ~y.late
  /\ \A k \in LimitKeys : \A h \in hits[k] : \E y \in Decided(k) : y.ok /\ h = <<y.stamp, y.by>>
  /\ \A y \in calls : y.ok /\ y.stamp + Window > clock => <<y.stamp, y.by>> \in hits[y.key]
  /\ \A k \in LimitKeys : \A t \in 1..clock : Cardinality(ByOf(LetThrough(k, t))) <= Limit[k]

\* In Redis a stamp was stored, and is there until it is out of the window of a
\* later stamp or the key has expired.
RedisInv ==
  /\ \A k \in LimitKeys : \A h \in hits[k] : h[2] = None /\ \E y \in Decided(k) : h[1] = y.stamp
  /\ \A y \in calls : \/ <<y.stamp, None>> \in hits[y.key]
                      \/ \E z \in Decided(y.key) : y.stamp + Window <= z.stamp
                      \/ y.stamp + Window <= lapsed[y.key]
  /\ \A y \in calls : y.stamp + Window <= lapse[y.key]
  /\ \A k \in LimitKeys : lapsed[k] <= lapse[k]

\* LimitIsKept, with what is stored.
LimiterInv ==
  /\ LimiterOK /\ AskedOnce /\ LimitIsKept
  /\ limiter = "memory" => MemoryInv
  /\ limiter = "redis" => RedisInv

\* What is stored for a key and still in the window of a call.
Recent(k, t) == {h \in hits[k] : h[1] + Window > t}

\* The call z of caller c, with stamp t, is the one that this step decides.
Decides(z, c, t) == /\ calls' = calls \cup {z} /\ z.by = c /\ z.stamp = t /\ z.key = Head(route[c])
                    /\ z.key \in LimitKeys

-----------------------------------------------------------------------------
\* A finite set covers, through a function, nothing larger than itself.
LEMMA Covered ==
  ASSUME NEW A, NEW B, NEW f, IsFiniteSet(A), \A b \in B : \E a \in A : f[a] = b
  PROVE  IsFiniteSet(B) /\ Cardinality(B) \in Nat /\ Cardinality(A) \in Nat /\ Cardinality(B) <= Cardinality(A)
<1> DEFINE C == {a \in A : f[a] \in B}
           g == [a \in C |-> f[a]]
<1>1. IsFiniteSet(C) /\ Cardinality(C) <= Cardinality(A) BY FS_Subset
<1>2. g \in [C -> B] OBVIOUS
<1>3. \A b \in B : \E a \in C : g[a] = b OBVIOUS
<1> HIDE DEF C, g
<1>4. g \in Surjection(C, B) BY <1>2, <1>3 DEF Surjection
<1>5. IsFiniteSet(B) /\ Cardinality(B) <= Cardinality(C) BY <1>1, <1>4, FS_Surjection
<1>6. Cardinality(A) \in Nat /\ Cardinality(B) \in Nat /\ Cardinality(C) \in Nat BY <1>1, <1>5, FS_CardinalityType
<1> QED BY <1>1, <1>5, <1>6

\* The callers of a finite set of stamps are no more than its members.
LEMMA CoveredByCallers ==
  ASSUME NEW A, NEW B, IsFiniteSet(A), \A b \in B : \E a \in A : a[2] = b
  PROVE  IsFiniteSet(B) /\ Cardinality(B) \in Nat /\ Cardinality(A) \in Nat /\ Cardinality(B) <= Cardinality(A)
<1> DEFINE f == [a \in A |-> a[2]]
<1>1. \A b \in B : \E a \in A : f[a] = b OBVIOUS
<1> HIDE DEF f
<1> QED BY <1>1, Covered

\* So are the stamps.
LEMMA CoveredByStamps ==
  ASSUME NEW A, NEW B, IsFiniteSet(A), \A b \in B : \E a \in A : a[1] = b
  PROVE  IsFiniteSet(B) /\ Cardinality(B) \in Nat /\ Cardinality(A) \in Nat /\ Cardinality(B) <= Cardinality(A)
<1> DEFINE f == [a \in A |-> a[1]]
<1>1. \A b \in B : \E a \in A : f[a] = b OBVIOUS
<1> HIDE DEF f
<1> QED BY <1>1, Covered

\* A set that a function spreads over a finite set is no larger than that set.
LEMMA Spread ==
  ASSUME NEW A, NEW B, NEW f \in [A -> B], IsFiniteSet(B), \A a, b \in A : f[a] = f[b] => a = b
  PROVE  IsFiniteSet(A) /\ Cardinality(A) \in Nat /\ Cardinality(B) \in Nat /\ Cardinality(A) <= Cardinality(B)
<1>1. f \in Injection(A, B) BY DEF Injection, IsInjective
<1>2. IsFiniteSet(A) /\ Cardinality(A) <= Cardinality(B) BY <1>1, FS_Injection
<1>3. Cardinality(A) \in Nat /\ Cardinality(B) \in Nat BY <1>2, FS_CardinalityType
<1> QED BY <1>2, <1>3

\* Stamps of different callers are no more than those callers.
LEMMA SpreadOverCallers ==
  ASSUME NEW A, NEW B, IsFiniteSet(B), \A a \in A : a[2] \in B, \A a, b \in A : a[2] = b[2] => a = b
  PROVE  IsFiniteSet(A) /\ Cardinality(A) \in Nat /\ Cardinality(B) \in Nat /\ Cardinality(A) <= Cardinality(B)
<1> DEFINE f == [a \in A |-> a[2]]
<1>1. f \in [A -> B] OBVIOUS
<1>2. \A a, b \in A : f[a] = f[b] => a = b OBVIOUS
<1> HIDE DEF f
<1> QED BY <1>1, <1>2, Spread

\* Members with different stamps are no more than those stamps.
LEMMA SpreadOverStamps ==
  ASSUME NEW A, NEW B, IsFiniteSet(B), \A a \in A : a[1] \in B, \A a, b \in A : a[1] = b[1] => a = b
  PROVE  IsFiniteSet(A) /\ Cardinality(A) \in Nat /\ Cardinality(B) \in Nat /\ Cardinality(A) <= Cardinality(B)
<1> DEFINE f == [a \in A |-> a[1]]
<1>1. f \in [A -> B] OBVIOUS
<1>2. \A a, b \in A : f[a] = f[b] => a = b OBVIOUS
<1> HIDE DEF f
<1> QED BY <1>1, <1>2, Spread

\* One call more adds at most one to what is counted.
LEMMA OneCallMore ==
  ASSUME NEW B, NEW x, IsFiniteSet(B)
  PROVE  IsFiniteSet(B \cup {x}) /\ Cardinality(B \cup {x}) \in Nat /\ Cardinality(B \cup {x}) <= Cardinality(B) + 1
<1>1. IsFiniteSet(B \cup {x}) /\ Cardinality(B \cup {x}) = IF x \in B THEN Cardinality(B) ELSE Cardinality(B) + 1
  BY FS_AddElement
<1>2. Cardinality(B) \in Nat BY FS_CardinalityType
<1> QED BY <1>1, <1>2

\* A route that names each key once asks for its first key once, and goes on with
\* the others.
LEMMA RouteTail ==
  ASSUME NEW S, NEW r \in Seq(S), r # <<>>, \A i, j \in 1..Len(r) : r[i] = r[j] => i = j
  PROVE  /\ Head(r) \in S /\ Tail(r) \in Seq(S) /\ Head(r) \in Range(r) /\ Head(r) \notin Range(Tail(r)) /\ Range(Tail(r)) \subseteq Range(r)
         /\ \A i, j \in 1..Len(Tail(r)) : Tail(r)[i] = Tail(r)[j] => i = j
<1>1. Len(r) \in Nat \ {0} /\ DOMAIN r = 1..Len(r) /\ Head(r) = r[1] OBVIOUS
<1>2. Tail(r) \in Seq(S) /\ Len(Tail(r)) = Len(r) - 1 /\ \A i \in 1..Len(Tail(r)) : i + 1 \in 1..Len(r) /\ Tail(r)[i] = r[i + 1]
  BY <1>1
<1>3. DOMAIN Tail(r) = 1..Len(Tail(r)) BY <1>2
<1>4. Range(Tail(r)) \subseteq Range(r) BY <1>1, <1>2, <1>3 DEF Range
<1>5. Head(r) \notin Range(Tail(r)) 
  <2>1. SUFFICES ASSUME NEW i \in 1..Len(Tail(r)), Tail(r)[i] = r[1] PROVE FALSE BY <1>1, <1>3 DEF Range
  <2> QED BY <2>1, <1>1, <1>2
<1>6. \A i, j \in 1..Len(Tail(r)) : Tail(r)[i] = Tail(r)[j] => i = j 
  <2> TAKE i, j \in 1..Len(Tail(r))
  <2> HAVE Tail(r)[i] = Tail(r)[j]
  <2>1. r[i + 1] = r[j + 1] BY <1>2
  <2>2. i + 1 = j + 1 BY <2>1, <1>2
  <2> QED BY <2>2, <1>2
<1>7. Head(r) \in S /\ Head(r) \in Range(r) BY <1>1 DEF Range
<1> QED BY <1>2, <1>4, <1>5, <1>6, <1>7

-----------------------------------------------------------------------------
\* An answer records one call; its caller asks for the next key of its route, or
\* ends, and the other callers stay where they are.
LEMMA AnswerShape ==
  ASSUME LimiterOK, AskedOnce, NEW c \in Callers, NEW t \in 1..clock, NEW ok, NEW late, NEW lost,
         Answer(c, t, ok, late, lost),
         lpc[c] \in {"ask", "sent"}, UNCHANGED <<limiter, clock>>
  PROVE  /\ \E z : Decides(z, c, t) /\ z.ok = ok /\ z.late = late
         /\ route' \in [Callers -> Seq(LimitKeys)]
         /\ stamp' \in [Callers -> 0..clock']
         /\ lpc' \in [Callers -> {"new", "ask", "sent", "served", "refused", "error"}]
         /\ lpc'[c] # "new" /\ lpc'[c] # "sent" /\ (lpc'[c] = "ask" => route'[c] # <<>>)
         /\ \A d \in Callers \ {c} : lpc'[d] = lpc[d] /\ route'[d] = route[d] /\ stamp'[d] = stamp[d]
         /\ route'[c] \in {<<>>, Tail(route[c])}
<1>1. route \in [Callers -> Seq(LimitKeys)] /\ stamp \in [Callers -> 0..clock] /\ clock \in Nat
      /\ lpc \in [Callers -> {"new", "ask", "sent", "served", "refused", "error"}] /\ route[c] # <<>>
  BY DEF LimiterOK, CallersOK, StoreOK
<1>2. Head(route[c]) \in LimitKeys /\ Tail(route[c]) \in Seq(LimitKeys) /\ <<>> \in Seq(LimitKeys) BY <1>1
<1>3. \E z : Decides(z, c, t) /\ z.ok = ok /\ z.late = late
  <2> DEFINE z == [by |-> c, key |-> Head(route[c]), late |-> late, ok |-> ok, stamp |-> t]
  <2>1. calls' = calls \cup {z} BY DEF Answer
  <2>2. z.by = c /\ z.key = Head(route[c]) /\ z.stamp = t /\ z.ok = ok /\ z.late = late BY Zenon
  <2> HIDE DEF z
  <2>3. Decides(z, c, t) BY <2>1, <2>2, <1>2 DEF Decides
  <2> QED BY <2>2, <2>3
<1>4. PICK r \in {<<>>, Tail(route[c])} : route' = [route EXCEPT ![c] = r] BY DEF Answer
<1>5. PICK p \in {"ask", "served", "refused", "error"} : lpc' = [lpc EXCEPT ![c] = p] /\ (p = "ask" => r # <<>>)
  <2>1. CASE ok /\ ~lost BY <2>1, <1>1, <1>4 DEF Answer, LGoto
  <2>2. CASE ~ok /\ ~lost BY <2>2, <1>1 DEF Answer, LGoto
  <2>3. CASE lost BY <2>3, <1>1 DEF Answer, LGoto
  <2> QED BY <2>1, <2>2, <2>3
<1>6. stamp' = [stamp EXCEPT ![c] = 0] BY DEF Answer
<1>7. stamp' \in [Callers -> 0..clock'] BY <1>1, <1>6
<1>8. route' \in [Callers -> Seq(LimitKeys)] /\ route'[c] = r /\ \A d \in Callers \ {c} : route'[d] = route[d]
  BY <1>1, <1>2, <1>4
<1>9. /\ lpc' \in [Callers -> {"new", "ask", "sent", "served", "refused", "error"}]
      /\ lpc'[c] = p /\ \A d \in Callers \ {c} : lpc'[d] = lpc[d] /\ stamp'[d] = stamp[d] BY <1>1, <1>5, <1>6
<1> QED BY <1>3, <1>4, <1>5, <1>7, <1>8, <1>9

\* What a call of the limiter in memory decides and stores (RateLimiter.allow_request).
LEMMA MemoryStep ==
  ASSUME LimiterOK, AskedOnce, NEW c \in Callers, AllowInMemory(c)
  PROVE  \E z : /\ Decides(z, c, clock) /\ ~z.late
                /\ z.ok <=> Cardinality(Recent(z.key, clock)) < Limit[z.key]
                /\ hits' = [hits EXCEPT ![z.key] = IF z.ok THEN Recent(z.key, clock) \cup {<<clock, c>>} ELSE Recent(z.key, clock)]
<1> DEFINE k == Head(route[c])
           ok == Cardinality(Recent(k, clock)) < Limit[k]
           late == FALSE
           lost == FALSE
<1>1. Answer(c, clock, ok, late, lost) /\ UNCHANGED <<limiter, clock>> /\ lpc[c] = "ask" BY DEF AllowInMemory, Recent
<1>2. hits' = [hits EXCEPT ![k] = IF ok THEN Recent(k, clock) \cup {<<clock, c>>} ELSE Recent(k, clock)]
  BY DEF AllowInMemory, Recent
<1> HIDE DEF ok, late, lost
<1>3. clock \in 1..clock BY DEF LimiterOK, CallersOK, StoreOK
<1>4. PICK z : Decides(z, c, clock) /\ z.ok = ok /\ z.late = late BY <1>1, <1>3, AnswerShape
<1>5. z.key = k BY <1>4 DEF Decides
<1>6. hits' = [hits EXCEPT ![k] = IF z.ok THEN Recent(k, clock) \cup {<<clock, c>>} ELSE Recent(k, clock)]
  BY <1>2, <1>4, Zenon
<1>7. z.ok <=> Cardinality(Recent(k, clock)) < Limit[k] BY <1>4, Zenon DEF ok
<1>8. ~z.late BY <1>4, Zenon DEF late
<1> HIDE DEF k
<1> QED BY <1>4, <1>5, <1>6, <1>7, <1>8, Zenon

\* What a run of the pipeline decides and stores (RedisRateLimiter.allow_request).
LEMMA PipelineStep ==
  ASSUME LimiterOK, AskedOnce, NEW c \in Callers, RunPipeline(c)
  PROVE  \E z : /\ Decides(z, c, stamp[c]) /\ stamp[c] \in 1..clock
                /\ ~z.late => stamp[c] >= lapsed'[z.key] /\ \A x \in Decided(z.key) : ~(x.stamp > stamp[c])
                /\ z.ok <=> Cardinality(hits'[z.key]) <= Limit[z.key]
                /\ hits' = [hits EXCEPT ![z.key] = (IF lapse[z.key] <= clock THEN {} ELSE Recent(z.key, stamp[c])) \cup {<<stamp[c], None>>}]
                /\ lapse' = [lapse EXCEPT ![z.key] = clock + Window]
                /\ lapsed' = [lapsed EXCEPT ![z.key] = IF lapse[z.key] <= clock THEN lapse[z.key] ELSE lapsed[z.key]]
<1> DEFINE k == Head(route[c])
           t == stamp[c]
           new == (IF lapse[k] <= clock THEN {} ELSE Recent(k, t)) \cup {<<t, None>>}
           ok == Cardinality(new) <= Limit[k]
           late == t < lapsed'[k] \/ \E x \in Decided(k) : x.stamp > t
<1>1. hits' = [hits EXCEPT ![k] = new]
  <2>1. CASE lapse[k] <= clock BY <2>1 DEF RunPipeline, Recent
  <2>2. CASE ~(lapse[k] <= clock) BY <2>2 DEF RunPipeline, Recent
  <2> QED BY <2>1, <2>2
<1>2. PICK lost \in BOOLEAN : Answer(c, t, ok, late, lost) /\ UNCHANGED <<limiter, clock>> /\ lpc[c] = "sent"
  <2>1. CASE lapse[k] <= clock BY <2>1 DEF RunPipeline, Recent
  <2>2. CASE ~(lapse[k] <= clock) BY <2>2 DEF RunPipeline, Recent
  <2> QED BY <2>1, <2>2
<1>3. lapse' = [lapse EXCEPT ![k] = clock + Window] /\ lapsed' = [lapsed EXCEPT ![k] = IF lapse[k] <= clock THEN lapse[k] ELSE lapsed[k]]
  BY DEF RunPipeline
<1> HIDE DEF ok, late
<1>4. t \in 1..clock BY <1>2 DEF LimiterOK, CallersOK, StoreOK
<1>5. PICK z : Decides(z, c, t) /\ z.ok = ok /\ z.late = late BY <1>2, <1>4, AnswerShape
<1>6. z.key = k /\ k \in LimitKeys BY <1>5 DEF Decides
<1>7. hits'[k] = new BY <1>1, <1>6 DEF LimiterOK, StoreOK
<1>8. z.ok <=> Cardinality(hits'[k]) <= Limit[k]
  <2>1. z.ok <=> ok BY <1>5, Zenon
  <2> HIDE DEF new
  <2> QED BY <2>1, <1>7 DEF ok
<1>9. ~z.late => t >= lapsed'[k] /\ \A x \in Decided(k) : ~(x.stamp > t)
  <2>1. z.late <=> late BY <1>5, Zenon
  <2>2. t \in Nat /\ lapsed'[k] \in Nat BY <1>3, <1>4, <1>6 DEF LimiterOK, CallersOK, StoreOK
  <2> QED BY <2>1, <2>2 DEF late
<1>10. Decides(z, c, t) BY <1>5
<1> HIDE DEF k, t
<1> QED BY <1>1, <1>3, <1>4, <1>10, <1>6, <1>8, <1>9 DEF t

\* Nothing is decided or stored at the start.
LEMMA LimiterStart ==
  ASSUME RateLimiterInit
  PROVE  LimiterInv
<1> USE DEF RateLimiterInit
<1>1. limiter \in {"memory", "redis"} /\ clock = 1 /\ clock \in 1..MaxNow /\ calls = {} OBVIOUS
<1>2. CallersOK
  <2>1. IsFiniteSet(calls) BY FS_EmptySet
  <2>2. <<>> \in Seq(LimitKeys) OBVIOUS
  <2> QED BY <2>1, <2>2 DEF CallersOK
<1>3. StoreOK 
  <2>1. \A k \in LimitKeys : IsFiniteSet(hits[k]) BY FS_EmptySet
  <2> QED BY <2>1 DEF StoreOK
<1>4. AskedOnce
  <2>1. \A c \in Callers : Len(route[c]) = 0 OBVIOUS
  <2> QED BY <1>1, <2>1 DEF AskedOnce
<1>5. LimitIsKept BY <1>1 DEF LimitIsKept, Decided
<1>6. MemoryInv 
  <2>1. ASSUME NEW k \in LimitKeys, NEW t \in 1..clock PROVE Cardinality(ByOf(LetThrough(k, t))) <= Limit[k]
    <3>1. ByOf(LetThrough(k, t)) = {} BY <1>1 DEF ByOf, LetThrough, Decided
    <3> QED BY <3>1, FS_EmptySet
  <2> QED BY <2>1, <1>1 DEF MemoryInv, Decided
<1>7. RedisInv BY <1>1 DEF RedisInv, Decided
<1> QED BY <1>1, <1>2, <1>3, <1>4, <1>5, <1>6, <1>7 DEF LimiterInv, LimiterOK

\* Whatever step is taken, a caller asks for each key of its route once.
LEMMA CallersKept ==
  ASSUME LimiterOK, AskedOnce, [RateLimiterNext]_lvars
  PROVE  CallersOK' /\ AskedOnce' /\ clock' \in 1..MaxNow /\ clock <= clock' /\ limiter' = limiter
<1>0. /\ stamp \in [Callers -> 0..clock] /\ route \in [Callers -> Seq(LimitKeys)] /\ clock \in 1..MaxNow
      /\ lpc \in [Callers -> {"new", "ask", "sent", "served", "refused", "error"}]
      /\ clock \in Nat /\ MaxNow \in Nat
  BY DEF LimiterOK, CallersOK
<1>1. ASSUME UNCHANGED calls, clock' \in 1..MaxNow, clock <= clock', UNCHANGED <<limiter, lpc, route, stamp>>
      PROVE  CallersOK' /\ AskedOnce'
  <2>1. CallersOK' BY <1>0, <1>1 DEF LimiterOK, CallersOK
  <2> QED BY <2>1, <1>1 DEF AskedOnce
<1>2. ASSUME NEW c \in Callers, NEW t \in 1..clock, NEW ok, NEW late, NEW lost,
             Answer(c, t, ok, late, lost), lpc[c] \in {"ask", "sent"}, UNCHANGED <<limiter, clock>>
      PROVE  CallersOK' /\ AskedOnce'
  <2>1. PICK z : Decides(z, c, t) BY <1>2, AnswerShape
  <2>2. /\ route' \in [Callers -> Seq(LimitKeys)] /\ stamp' \in [Callers -> 0..clock']
        /\ lpc' \in [Callers -> {"new", "ask", "sent", "served", "refused", "error"}]
        /\ lpc'[c] # "new" /\ lpc'[c] # "sent" /\ (lpc'[c] = "ask" => route'[c] # <<>>)
        /\ \A d \in Callers \ {c} : lpc'[d] = lpc[d] /\ route'[d] = route[d] /\ stamp'[d] = stamp[d]
        /\ route'[c] \in {<<>>, Tail(route[c])}
    BY <1>2, AnswerShape
  <2>3. IsFiniteSet(calls') BY <2>1, FS_AddElement DEF LimiterOK, CallersOK, Decides
  <2>4. ASSUME NEW y \in calls' PROVE y.by \in Callers /\ y.key \in LimitKeys /\ y.stamp \in 1..clock'
    BY <2>1, <2>4, <1>2 DEF Decides, LimiterOK, CallersOK
  <2>5. CallersOK' BY <2>2, <2>3, <2>4, <1>2 DEF LimiterOK, CallersOK
  <2>6. route[c] \in Seq(LimitKeys) /\ route[c] # <<>> /\ \A i, j \in 1..Len(route[c]) : route[c][i] = route[c][j] => i = j
    BY <1>0, <1>2 DEF LimiterOK, CallersOK, AskedOnce
  <2>7. /\ Head(route[c]) \in Range(route[c]) /\ Head(route[c]) \notin Range(Tail(route[c]))
        /\ Range(Tail(route[c])) \subseteq Range(route[c])
        /\ \A i, j \in 1..Len(Tail(route[c])) : Tail(route[c])[i] = Tail(route[c])[j] => i = j
    BY <2>6, RouteTail
  <2>8. Len(<<>>) = 0 /\ Range(<<>>) = {} BY DEF Range
  <2>9. /\ Range(route'[c]) \subseteq Range(route[c]) /\ Head(route[c]) \notin Range(route'[c])
        /\ \A i, j \in 1..Len(route'[c]) : route'[c][i] = route'[c][j] => i = j
    <3>1. CASE route'[c] = <<>> BY <3>1, <2>8
    <3>2. CASE route'[c] = Tail(route[c]) BY <3>2, <2>7
    <3> QED BY <3>1, <3>2, <2>2
  <2>10. \A y \in calls : y.by \in Callers /\ lpc[y.by] # "new" /\ y.key \notin Range(route[y.by]) 
    BY DEF AskedOnce, LimiterOK, CallersOK
  <2>11. \A d \in Callers : \A i, j \in 1..Len(route'[d]) : route'[d][i] = route'[d][j] => i = j
    <3>1. \A d \in Callers : \A i, j \in 1..Len(route[d]) : route[d][i] = route[d][j] => i = j
      BY DEF AskedOnce
    <3> QED BY <3>1, <2>2, <2>9
  <2>12. \A y \in calls' : lpc'[y.by] # "new" /\ y.key \notin Range(route'[y.by])
    <3>1. calls' = calls \cup {z} /\ z.by = c /\ z.key = Head(route[c]) BY <2>1 DEF Decides
    <3>2. ASSUME NEW y \in calls, y.by = c PROVE lpc'[y.by] # "new" /\ y.key \notin Range(route'[y.by])
      BY <2>2, <2>9, <2>10, <3>2
    <3>3. ASSUME NEW y \in calls, y.by # c PROVE lpc'[y.by] # "new" /\ y.key \notin Range(route'[y.by])
      BY <2>2, <2>10, <3>3
    <3> QED BY <2>2, <2>9, <3>1, <3>2, <3>3
  <2>13. \A y \in calls : ~(y.by = z.by /\ y.key = z.key) BY <2>1, <2>7, <2>10 DEF Decides
  <2>14. \A x, y \in calls' : x.by = y.by /\ x.key = y.key => x = y
    BY <2>1, <2>13 DEF Decides, AskedOnce
  <2> QED BY <2>5, <2>11, <2>12, <2>14 DEF AskedOnce
<1>3. CASE UNCHANGED lvars BY <1>3, <1>1, <1>0 DEF lvars
<1>4. CASE Tick BY <1>4, <1>1, <1>0 DEF Tick
<1>5. ASSUME NEW c \in Callers, AllowInMemory(c) PROVE CallersOK' /\ AskedOnce' /\ UNCHANGED <<clock, limiter>>
  <2>1. clock \in 1..clock BY <1>0
  <2> QED BY <2>1, <1>5, <1>2 DEF AllowInMemory
<1>6. ASSUME NEW c \in Callers, RunPipeline(c) PROVE CallersOK' /\ AskedOnce' /\ UNCHANGED <<clock, limiter>>
  <2>1. stamp[c] \in 1..clock BY <1>0, <1>6 DEF RunPipeline, LimiterOK, CallersOK
  <2> QED BY <2>1, <1>6, <1>2 DEF RunPipeline
<1>7. ASSUME NEW c \in Callers, SendPipeline(c) PROVE CallersOK' /\ AskedOnce' /\ UNCHANGED <<clock, limiter>>
  <2>1. lpc' = [lpc EXCEPT ![c] = "sent"] /\ stamp' = [stamp EXCEPT ![c] = clock] /\ route' = route /\ calls' = calls
        /\ clock' = clock /\ limiter' = limiter /\ limiter = "redis" /\ lpc[c] = "ask"
    BY <1>7 DEF SendPipeline, LGoto
  <2>2. CallersOK' BY <2>1, <1>0 DEF LimiterOK, CallersOK
  <2>3. \A d \in Callers : lpc[d] # "new" => lpc'[d] # "new" BY <2>1, <1>0
  <2>4. AskedOnce' BY <2>1, <2>3 DEF AskedOnce, LimiterOK, CallersOK
  <2> QED BY <2>1, <2>2, <2>4
<1>8. ASSUME NEW c \in Callers, Outage(c) PROVE CallersOK' /\ AskedOnce' /\ UNCHANGED <<clock, limiter>>
  <2>1. lpc' = [lpc EXCEPT ![c] = "error"] /\ stamp' = [stamp EXCEPT ![c] = 0] /\ route' = [route EXCEPT ![c] = <<>>] /\ calls' = calls
        /\ clock' = clock /\ limiter' = limiter
    BY <1>8 DEF Outage, LGoto
  <2>2. <<>> \in Seq(LimitKeys) /\ Len(<<>>) = 0 /\ Range(<<>>) = {} BY DEF Range
  <2>3. CallersOK' BY <2>1, <2>2, <1>0 DEF LimiterOK, CallersOK
  <2>4. \A d \in Callers : (lpc[d] # "new" => lpc'[d] # "new") /\ (route'[d] = route[d] \/ route'[d] = <<>>) BY <2>1, <1>0
  <2>5. \A y \in calls : y.by \in Callers BY DEF LimiterOK, CallersOK
  <2>6. AskedOnce' BY <2>1, <2>2, <2>4, <2>5 DEF AskedOnce
  <2> QED BY <2>1, <2>3, <2>6
<1>9. ASSUME NEW c \in Callers, NEW r \in Routes, CallerStarts(c, r) PROVE CallersOK' /\ AskedOnce' /\ UNCHANGED <<clock, limiter>>
  <2>1. lpc' = [lpc EXCEPT ![c] = "ask"] /\ stamp' = stamp /\ route' = [route EXCEPT ![c] = r] /\ calls' = calls
        /\ clock' = clock /\ limiter' = limiter /\ lpc[c] = "new"
    BY <1>9 DEF CallerStarts, LGoto
  <2>2. r \in Seq(LimitKeys) /\ r # <<>> /\ IsInjective(r) OBVIOUS
  <2>3. \A i, j \in 1..Len(r) : r[i] = r[j] => i = j BY <2>2 DEF IsInjective
  <2>4. CallersOK' BY <2>1, <2>2, <1>0 DEF LimiterOK, CallersOK
  <2>5. \A y \in calls : y.by # c BY <2>1 DEF AskedOnce
  <2>6. \A d \in Callers \ {c} : lpc'[d] = lpc[d] /\ route'[d] = route[d] BY <2>1, <1>0
  <2>7. \A y \in calls : y.by \in Callers BY DEF LimiterOK, CallersOK
  <2>8. \A d \in Callers : \A i, j \in 1..Len(route'[d]) : route'[d][i] = route'[d][j] => i = j
    <3>1. \A d \in Callers : \A i, j \in 1..Len(route[d]) : route[d][i] = route[d][j] => i = j
      BY DEF AskedOnce
    <3>2. route'[c] = r BY <2>1, <1>0
    <3> QED BY <2>3, <2>6, <3>1, <3>2
  <2>9. AskedOnce' BY <2>1, <2>5, <2>6, <2>7, <2>8 DEF AskedOnce
  <2> QED BY <2>1, <2>4, <2>9
<1> QED BY <1>3, <1>4, <1>5, <1>6, <1>7, <1>8, <1>9, <1>0 DEF RateLimiterNext, Tick, lvars, LimiterOK

\* Whatever step is taken, what is stored for a key is finite and of the past.
LEMMA StoreKept ==
  ASSUME LimiterOK, AskedOnce, [RateLimiterNext]_lvars
  PROVE  StoreOK'
<1>0. /\ clock \in 1..MaxNow /\ clock' \in 1..MaxNow /\ clock <= clock' /\ clock \in Nat /\ clock' \in Nat /\ MaxNow \in Nat
      /\ hits \in [LimitKeys -> SUBSET ((1..clock) \X (Callers \cup {None}))]
      /\ \A k \in LimitKeys : IsFiniteSet(hits[k])
      /\ lapse \in [LimitKeys -> 0..(MaxNow + Window)] /\ lapsed \in [LimitKeys -> 0..clock]
      /\ stamp \in [Callers -> 0..clock]
  BY CallersKept DEF LimiterOK, StoreOK, CallersOK
<1>1. ASSUME UNCHANGED <<hits, lapse, lapsed>> PROVE StoreOK' BY <1>0, <1>1 DEF StoreOK
<1>2. ASSUME NEW k \in LimitKeys, NEW t PROVE IsFiniteSet(Recent(k, t)) /\ Recent(k, t) \subseteq hits[k]
  BY <1>0, FS_Subset DEF Recent
<1>3. ASSUME NEW c \in Callers, AllowInMemory(c) PROVE StoreOK'
  <2>1. PICK z : z.key \in LimitKeys /\ hits' = [hits EXCEPT ![z.key] = IF z.ok THEN Recent(z.key, clock) \cup {<<clock, c>>} ELSE Recent(z.key, clock)]
    BY <1>3, MemoryStep DEF Decides
  <2>2. UNCHANGED <<clock, lapse, lapsed>> BY <1>3 DEF AllowInMemory
  <2>3. PICK new : hits' = [hits EXCEPT ![z.key] = new] /\ new \in {Recent(z.key, clock) \cup {<<clock, c>>}, Recent(z.key, clock)} BY <2>1
  <2>4. IsFiniteSet(new) /\ new \subseteq (1..clock) \X (Callers \cup {None})
    <3>1. IsFiniteSet(Recent(z.key, clock) \cup {<<clock, c>>}) BY <2>1, <1>2, FS_AddElement
    <3>2. <<clock, c>> \in (1..clock) \X (Callers \cup {None}) BY <1>0
    <3>3. Recent(z.key, clock) \subseteq (1..clock) \X (Callers \cup {None}) BY <2>1, <1>2, <1>0
    <3>4. IsFiniteSet(Recent(z.key, clock)) BY <2>1, <1>2
    <3> HIDE DEF Recent
    <3>5. CASE new = Recent(z.key, clock) BY <3>5, <3>3, <3>4
    <3>6. CASE new = Recent(z.key, clock) \cup {<<clock, c>>} BY <3>6, <3>1, <3>2, <3>3
    <3> QED BY <2>3, <3>5, <3>6
  <2> QED BY <1>0, <2>1, <2>2, <2>3, <2>4 DEF StoreOK
<1>4. ASSUME NEW c \in Callers, RunPipeline(c) PROVE StoreOK'
  <2>1. PICK z : /\ z.key \in LimitKeys /\ stamp[c] \in 1..clock
                 /\ hits' = [hits EXCEPT ![z.key] = (IF lapse[z.key] <= clock THEN {} ELSE Recent(z.key, stamp[c])) \cup {<<stamp[c], None>>}]
                 /\ lapse' = [lapse EXCEPT ![z.key] = clock + Window]
                 /\ lapsed' = [lapsed EXCEPT ![z.key] = IF lapse[z.key] <= clock THEN lapse[z.key] ELSE lapsed[z.key]]
    BY <1>4, PipelineStep DEF Decides
  <2>2. clock' = clock BY <1>4 DEF RunPipeline
  <2>3. PICK old \in {{}, Recent(z.key, stamp[c])} : hits' = [hits EXCEPT ![z.key] = old \cup {<<stamp[c], None>>}] BY <2>1
  <2>4. IsFiniteSet(old \cup {<<stamp[c], None>>}) /\ old \cup {<<stamp[c], None>>} \subseteq (1..clock) \X (Callers \cup {None})
    <3>0. IsFiniteSet(Recent(z.key, stamp[c])) /\ IsFiniteSet({}) BY <2>1, <1>2, FS_EmptySet
    <3>1. IsFiniteSet(old) BY <2>3, <3>0
    <3>2. IsFiniteSet(old \cup {<<stamp[c], None>>}) BY <3>1, FS_AddElement
    <3>3. old \subseteq (1..clock) \X (Callers \cup {None}) BY <2>1, <2>3, <1>2, <1>0
    <3>4. <<stamp[c], None>> \in (1..clock) \X (Callers \cup {None}) BY <2>1
    <3> QED BY <3>2, <3>3, <3>4
  <2>5. lapse' \in [LimitKeys -> 0..(MaxNow + Window)] 
    <3>1. clock + Window \in 0..(MaxNow + Window) BY <1>0
    <3> QED BY <1>0, <2>1, <3>1
  <2>6. lapsed' \in [LimitKeys -> 0..clock] BY <1>0, <2>1
  <2>7. hits' \in [LimitKeys -> SUBSET ((1..clock) \X (Callers \cup {None}))] BY <1>0, <2>1, <2>3, <2>4
  <2>8. \A k \in LimitKeys : IsFiniteSet(hits'[k]) BY <1>0, <2>1, <2>3, <2>4
  <2> QED BY <2>2, <2>5, <2>6, <2>7, <2>8 DEF StoreOK
<1>5. ASSUME NEW c \in Callers, SendPipeline(c) PROVE StoreOK' BY <1>1, <1>5 DEF SendPipeline
<1>6. ASSUME NEW c \in Callers, Outage(c) PROVE StoreOK' BY <1>1, <1>6 DEF Outage
<1>7. ASSUME NEW c \in Callers, NEW r \in Routes, CallerStarts(c, r) PROVE StoreOK' BY <1>1, <1>7 DEF CallerStarts
<1> QED BY <1>1, <1>3, <1>4, <1>5, <1>6, <1>7 DEF RateLimiterNext, Tick, lvars

\* Steps
LEMMA DecidedByOne ==
  ASSUME [RateLimiterNext]_lvars
  PROVE  \/ UNCHANGED <<calls, hits, lapse, lapsed>>
         \/ \E c \in Callers : AllowInMemory(c)
         \/ \E c \in Callers : RunPipeline(c)
BY DEF RateLimiterNext, lvars, Tick, SendPipeline, Outage, CallerStarts

\* The call that a step decides was not decided before, and is of one key.
LEMMA NewCall ==
  ASSUME LimiterOK, AskedOnce, NEW c \in Callers, NEW t, NEW z, Decides(z, c, t), lpc[c] \in {"ask", "sent"}
  PROVE  /\ z \notin calls
         /\ Decided(z.key)' = Decided(z.key) \cup {z}
         /\ \A k \in LimitKeys \ {z.key} : Decided(k)' = Decided(k)
<1>1. route[c] \in Seq(LimitKeys) /\ route[c] # <<>> BY DEF LimiterOK, CallersOK
<1>2. Head(route[c]) \in Range(route[c]) 
  <2>1. Head(route[c]) = route[c][1] /\ 1 \in DOMAIN route[c] BY <1>1
  <2> QED BY <2>1 DEF Range
<1> QED BY <1>2 DEF AskedOnce, Decides, Decided

\* What a finite set of calls counts is finite.
LEMMA Counted ==
  ASSUME NEW S, IsFiniteSet(S)
  PROVE  IsFiniteSet(ByOf(S)) /\ IsFiniteSet(StampOf(S))
<1> DEFINE f == [x \in S |-> x.by]
           g == [x \in S |-> x.stamp]
<1>1. \A b \in ByOf(S) : \E x \in S : f[x] = b BY DEF ByOf
<1>2. \A b \in StampOf(S) : \E x \in S : g[x] = b BY DEF StampOf
<1> HIDE DEF f, g
<1>3. IsFiniteSet(ByOf(S)) BY <1>1, Covered
<1>4. IsFiniteSet(StampOf(S)) BY <1>2, Covered
<1> QED BY <1>3, <1>4

\* More calls count no less.
LEMMA CountedMore ==
  ASSUME NEW S, NEW T, IsFiniteSet(T), S \subseteq T
  PROVE  /\ Cardinality(ByOf(S)) \in Nat /\ Cardinality(ByOf(T)) \in Nat /\ Cardinality(ByOf(S)) <= Cardinality(ByOf(T))
         /\ Cardinality(StampOf(S)) \in Nat /\ Cardinality(StampOf(T)) \in Nat /\ Cardinality(StampOf(S)) <= Cardinality(StampOf(T))
<1>1. IsFiniteSet(ByOf(T)) /\ IsFiniteSet(StampOf(T)) /\ IsFiniteSet(S) BY Counted, FS_Subset
<1>2. IsFiniteSet(ByOf(S)) /\ IsFiniteSet(StampOf(S)) BY <1>1, Counted
<1>3. ByOf(S) \subseteq ByOf(T) /\ StampOf(S) \subseteq StampOf(T) BY DEF ByOf, StampOf
<1>4. Cardinality(ByOf(S)) <= Cardinality(ByOf(T)) BY <1>1, <1>3, FS_Subset
<1>5. Cardinality(StampOf(S)) <= Cardinality(StampOf(T)) BY <1>1, <1>3, FS_Subset
<1> QED BY <1>1, <1>2, <1>4, <1>5, FS_CardinalityType

\* A refusal that was due stays due when other calls are decided.
LEMMA RefusalsStand ==
  ASSUME LimiterOK, LimitIsKept, NEW z, calls' = calls \cup {z}, limiter' = limiter,
         NEW k \in LimitKeys, NEW x \in Decided(k), ~x.ok
  PROVE  Distinct(InWindow(k, x))' >= Limit[k]
<1>1. Distinct(InWindow(k, x)) >= Limit[k] BY DEF LimitIsKept, InWindow
<1>2. InWindow(k, x) \subseteq InWindow(k, x)' BY DEF InWindow, Decided
<1>3. IsFiniteSet(calls') BY FS_AddElement DEF LimiterOK, CallersOK
<1>4. IsFiniteSet(InWindow(k, x)') BY <1>3, FS_Subset DEF InWindow, Decided
<1> DEFINE S == InWindow(k, x)
           T == InWindow(k, x)'
<1>5. Distinct(S) = IF limiter = "memory" THEN Cardinality(ByOf(S)) ELSE Cardinality(StampOf(S)) BY DEF Distinct, ByOf, StampOf
<1>6. Distinct(InWindow(k, x))' = IF limiter = "memory" THEN Cardinality(ByOf(T)) ELSE Cardinality(StampOf(T)) BY DEF Distinct, ByOf, StampOf
<1>7. Limit[k] \in Nat OBVIOUS
<1> HIDE DEF S, T
<1>8. S \subseteq T /\ IsFiniteSet(T) /\ Distinct(S) >= Limit[k] BY <1>1, <1>2, <1>4 DEF S, T
<1>9. Distinct(InWindow(k, x))' >= Limit[k]
  <2>1. CASE limiter = "memory" BY <2>1, <1>5, <1>6, <1>7, <1>8, CountedMore
  <2>2. CASE limiter # "memory" BY <2>2, <1>5, <1>6, <1>7, <1>8, CountedMore
  <2> QED BY <2>1, <2>2
<1> QED BY <1>9

\* In memory no window of a key up to now is over the limit.
LEMMA FewInMemory ==
  ASSUME LimiterOK, MemoryInv, NEW k \in LimitKeys
  PROVE  \A t \in 1..clock : Cardinality(ByOf(LetThrough(k, t))) <= Limit[k] 
BY DEF MemoryInv

\* The calls of a window are finitely many.
LEMMA Finitely ==
  ASSUME LimiterOK, NEW k \in LimitKeys, NEW t
  PROVE  IsFiniteSet(LetThrough(k, t)) /\ IsFiniteSet(Decided(k))
BY FS_Subset DEF LimiterOK, CallersOK, LetThrough, Decided

\* A call in memory keeps the limit: it is let through only where fewer callers
\* than the limit are stored in the window, and each of those was let through.
LEMMA MemoryDecides ==
  ASSUME LimiterOK, AskedOnce, LimitIsKept, MemoryInv, limiter = "memory", NEW c \in Callers, AllowInMemory(c), LimiterOK'
  PROVE  MemoryInv' /\ LimitIsKept'
<1>1. PICK z : /\ Decides(z, c, clock) /\ ~z.late
               /\ z.ok <=> Cardinality(Recent(z.key, clock)) < Limit[z.key]
               /\ hits' = [hits EXCEPT ![z.key] = IF z.ok THEN Recent(z.key, clock) \cup {<<clock, c>>} ELSE Recent(z.key, clock)]
  BY MemoryStep
<1>2. lpc[c] = "ask" /\ UNCHANGED <<clock, limiter, lapse, lapsed>> BY DEF AllowInMemory
<1>3. z.key \in LimitKeys /\ z.by = c /\ z.stamp = clock /\ calls' = calls \cup {z} BY <1>1 DEF Decides
<1> DEFINE k == z.key
           old == Recent(k, clock)
<1>4. /\ z \notin calls /\ Decided(k)' = Decided(k) \cup {z}
      /\ \A j \in LimitKeys \ {k} : Decided(j)' = Decided(j)
  BY <1>1, <1>2, NewCall
<1>5. \A y \in calls : y.by \in Callers /\ y.key \in LimitKeys /\ y.stamp \in 1..clock BY DEF LimiterOK, CallersOK
<1>6. clock \in Nat /\ clock >= 1 /\ Window \in Nat \ {0} /\ Limit[k] \in Nat \ {0} BY <1>3 DEF LimiterOK
<1>7. \A j \in LimitKeys \ {k} : hits'[j] = hits[j] BY <1>1, <1>3 DEF LimiterOK, StoreOK
<1>8. hits'[k] = IF z.ok THEN old \cup {<<clock, c>>} ELSE old BY <1>1, <1>3 DEF LimiterOK, StoreOK
<1>9. old \subseteq hits[k] /\ IsFiniteSet(old) /\ \A h \in hits[k] : h[1] + Window > clock => h \in old
  BY <1>3, FS_Subset DEF Recent, LimiterOK, StoreOK
<1>10. \A h \in old : h[1] + Window > clock /\ \E y \in Decided(k) : y.ok /\ h = <<y.stamp, y.by>> 
  BY <1>3 DEF MemoryInv, Recent
<1>11. \A y \in Decided(k) : y.ok /\ y.stamp + Window > clock => <<y.stamp, y.by>> \in old
  BY <1>9, <1>5 DEF MemoryInv, Decided
<1>12. \A y \in Decided(k) : y.key = k /\ y \in calls /\ y # z BY <1>4 DEF Decided
<1> HIDE DEF old
\* what is stored
<1>13. \A y \in calls' : ~y.late BY <1>1, <1>3 DEF MemoryInv
<1>14. ASSUME NEW j \in LimitKeys, NEW h \in hits'[j] PROVE \E y \in Decided(j)' : y.ok /\ h = <<y.stamp, y.by>>
  <2>1. CASE j # k BY <2>1, <1>14, <1>7, <1>4 DEF MemoryInv
  <2>2. CASE j = k /\ h \in old BY <2>2, <1>10, <1>4
  <2>3. CASE j = k /\ h \notin old
    <3>1. z.ok /\ h = <<z.stamp, z.by>> BY <2>3, <1>14, <1>8, <1>3
    <3> QED BY <3>1, <2>3, <1>4
  <2> QED BY <2>1, <2>2, <2>3
<1>15. ASSUME NEW y \in calls', y.ok, y.stamp + Window > clock PROVE <<y.stamp, y.by>> \in hits'[y.key]
  <2>1. CASE y = z BY <2>1, <1>15, <1>8, <1>3
  <2>2. CASE y # z /\ y.key = k
    <3>1. y \in Decided(k) BY <2>2, <1>3, <1>15 DEF Decided
    <3> QED BY <3>1, <2>2, <1>15, <1>11, <1>8
  <2>3. CASE y # z /\ y.key # k
    <3>1. y \in calls BY <2>3, <1>3, <1>15
    <3> QED BY <3>1, <2>3, <1>15, <1>7, <1>5 DEF MemoryInv
  <2> QED BY <2>1, <2>2, <2>3
\* the windows
<1>16. IsFiniteSet(LetThrough(k, clock)) BY <1>3, Finitely
<1>17. ASSUME NEW j \in LimitKeys, NEW t \in 1..clock PROVE Cardinality(ByOf(LetThrough(j, t)')) <= Limit[j]
  <2>1. Cardinality(ByOf(LetThrough(j, t))) <= Limit[j] BY FewInMemory
  <2>2. CASE t = clock /\ j = k /\ z.ok
    <3>1. LetThrough(j, t)' = LetThrough(k, clock) \cup {z}
      BY <2>2, <1>1, <1>3, <1>4, <1>6 DEF LetThrough
    <3>2. ByOf(LetThrough(j, t)') = ByOf(LetThrough(k, clock)) \cup {c} BY <3>1, <1>3 DEF ByOf
    <3>3. \A b \in ByOf(LetThrough(k, clock)) : \E a \in old : a[2] = b
      <4>1. ASSUME NEW y \in LetThrough(k, clock) PROVE \E a \in old : a[2] = y.by
        <5>1. <<y.stamp, y.by>> \in old BY <1>11 DEF LetThrough
        <5> QED BY <5>1
      <4> QED BY <4>1 DEF ByOf
    <3>4. /\ IsFiniteSet(ByOf(LetThrough(k, clock))) /\ Cardinality(ByOf(LetThrough(k, clock))) \in Nat /\ Cardinality(old) \in Nat
          /\ Cardinality(ByOf(LetThrough(k, clock))) <= Cardinality(old)
      BY <3>3, <1>9, CoveredByCallers
    <3>5. Cardinality(ByOf(LetThrough(k, clock)) \cup {c}) \in Nat /\ Cardinality(ByOf(LetThrough(k, clock)) \cup {c}) <= Cardinality(ByOf(LetThrough(k, clock))) + 1
      BY <3>4, OneCallMore
    <3>6. Cardinality(old) < Limit[k] BY <2>2, <1>1 DEF old
    <3> QED BY <2>2, <3>2, <3>4, <3>5, <3>6, <1>6
  <2>3. CASE ~(t = clock /\ j = k /\ z.ok)
    <3>1. LetThrough(j, t)' = LetThrough(j, t)
      <4>1. CASE j # k BY <4>1, <1>4 DEF LetThrough
      <4>2. CASE j = k /\ ~z.ok BY <4>2, <1>4 DEF LetThrough
      <4>3. CASE j = k /\ t # clock BY <4>3, <1>3, <1>4, <1>6 DEF LetThrough
      <4> QED BY <4>1, <4>2, <4>3, <2>3
    <3> QED BY <3>1, <2>1
  <2> QED BY <2>2, <2>3
<1>18. MemoryInv'
  <2>1. \A j \in LimitKeys : \A t \in 1..clock' : Cardinality(ByOf(LetThrough(j, t)))' <= Limit[j]
    BY <1>17, <1>2 DEF ByOf
  <2> QED BY <1>2, <1>13, <1>14, <1>15, <2>1 DEF MemoryInv
\* the refusals
<1>19. ASSUME ~z.ok PROVE Distinct(InWindow(k, z))' >= Limit[k]
  <2> DEFINE B == InWindow(k, z)'
  <2>1. Distinct(InWindow(k, z))' = Cardinality(ByOf(B)) BY <1>2 DEF Distinct, ByOf
  <2>2. \A y \in Decided(k) : y.ok /\ y.stamp + Window > clock => y \in B
    BY <1>3, <1>4, <1>12 DEF InWindow
  <2>3. IsFiniteSet(B) BY <1>3, FS_Subset DEF InWindow, Decided, LimiterOK, CallersOK
  <2> HIDE DEF B
  <2>4. IsFiniteSet(ByOf(B)) BY <2>3, Counted
  <2>5. \A a \in old : a[2] \in ByOf(B)
    <3> TAKE a \in old
    <3>1. PICK y \in Decided(k) : y.ok /\ a = <<y.stamp, y.by>> BY <1>10
    <3>2. a[1] = y.stamp /\ a[2] = y.by BY <3>1
    <3>3. y \in B BY <3>1, <3>2, <2>2, <1>10
    <3> QED BY <3>2, <3>3 DEF ByOf
  <2>6. \A a, b \in old : a[2] = b[2] => a = b
    <3> TAKE a, b \in old
    <3>1. PICK y \in Decided(k) : a = <<y.stamp, y.by>> BY <1>10
    <3>2. PICK x \in Decided(k) : b = <<x.stamp, x.by>> BY <1>10
    <3>3. ASSUME a[2] = b[2] PROVE a = b
      <4>1. x.by = y.by BY <3>1, <3>2, <3>3
      <4>2. x = y BY <4>1, <1>12 DEF AskedOnce
      <4> QED BY <4>2, <3>1, <3>2
    <3> QED BY <3>3
  <2>7. Cardinality(old) \in Nat /\ Cardinality(ByOf(B)) \in Nat /\ Cardinality(old) <= Cardinality(ByOf(B))
    BY <2>4, <2>5, <2>6, SpreadOverCallers
  <2>8. ~(Cardinality(old) < Limit[k]) BY <1>19, <1>1 DEF old
  <2> QED BY <2>1, <2>7, <2>8, <1>6
<1>20. LimitIsKept'
  <2>1. ASSUME NEW j \in LimitKeys, NEW x \in Decided(j)' PROVE x.ok /\ ~x.late => Distinct(LetThrough(j, x.stamp))' <= Limit[j]
    <3>1. x.stamp \in 1..clock BY <1>3, <1>5, <1>6 DEF Decided
    <3>2. Cardinality(ByOf(LetThrough(j, x.stamp)')) <= Limit[j] BY <3>1, <1>17
    <3> QED BY <3>2, <1>2 DEF Distinct, ByOf
  <2>2. ASSUME NEW j \in LimitKeys, NEW x \in Decided(j)', ~x.ok PROVE Distinct(InWindow(j, x))' >= Limit[j]
    <3>1. CASE x = z
      <4>1. j = k BY <3>1 DEF Decided
      <4> QED BY <4>1, <3>1, <2>2, <1>19
    <3>2. CASE x # z
      <4>1. x \in Decided(j) BY <3>2, <1>3 DEF Decided
      <4> QED BY <4>1, <2>2, <1>2, <1>3, RefusalsStand
    <3> QED BY <3>1, <3>2
  <2> QED BY <2>1, <2>2, <1>2 DEF LimitIsKept, LetThrough, InWindow
<1> QED BY <1>18, <1>20

\* A run of the pipeline keeps the limit: what is let through in the window of a
\* call that is not late is stored, and a refusal has as many stamps against it.
LEMMA PipelineDecides ==
  ASSUME LimiterOK, AskedOnce, LimitIsKept, RedisInv, limiter = "redis", NEW c \in Callers, RunPipeline(c), LimiterOK'
  PROVE  RedisInv' /\ LimitIsKept'
<1> DEFINE t == stamp[c]
<1>1. PICK z : /\ Decides(z, c, t) /\ t \in 1..clock
               /\ ~z.late => t >= lapsed'[z.key] /\ \A x \in Decided(z.key) : ~(x.stamp > t)
               /\ z.ok <=> Cardinality(hits'[z.key]) <= Limit[z.key]
               /\ hits' = [hits EXCEPT ![z.key] = (IF lapse[z.key] <= clock THEN {} ELSE Recent(z.key, t)) \cup {<<t, None>>}]
               /\ lapse' = [lapse EXCEPT ![z.key] = clock + Window]
               /\ lapsed' = [lapsed EXCEPT ![z.key] = IF lapse[z.key] <= clock THEN lapse[z.key] ELSE lapsed[z.key]]
  BY PipelineStep
<1>2. lpc[c] = "sent" /\ UNCHANGED <<clock, limiter>> BY DEF RunPipeline
<1> HIDE DEF t
<1>3. z.key \in LimitKeys /\ z.by = c /\ z.stamp = t /\ calls' = calls \cup {z} BY <1>1 DEF Decides
<1> DEFINE k == z.key
           new == hits'[k]
<1>4. /\ z \notin calls /\ Decided(k)' = Decided(k) \cup {z}
      /\ \A j \in LimitKeys \ {k} : Decided(j)' = Decided(j)
  BY <1>1, <1>2, NewCall
<1>5. \A y \in calls : y.by \in Callers /\ y.key \in LimitKeys /\ y.stamp \in 1..clock BY DEF LimiterOK, CallersOK
<1>6. /\ clock \in Nat /\ clock >= 1 /\ Window \in Nat \ {0} /\ Limit[k] \in Nat \ {0} /\ t \in Nat /\ t <= clock
      /\ lapse \in [LimitKeys -> Nat] /\ lapsed \in [LimitKeys -> 0..clock]
  BY <1>1, <1>3 DEF LimiterOK, StoreOK
<1>7. /\ \A j \in LimitKeys \ {k} : hits'[j] = hits[j] /\ lapse'[j] = lapse[j] /\ lapsed'[j] = lapsed[j]
      /\ lapse'[k] = clock + Window /\ lapsed'[k] = IF lapse[k] <= clock THEN lapse[k] ELSE lapsed[k]
      /\ new = (IF lapse[k] <= clock THEN {} ELSE Recent(k, t)) \cup {<<t, None>>}
  BY <1>1, <1>3 DEF LimiterOK, StoreOK
<1>8. IsFiniteSet(new) /\ <<t, None>> \in new /\ \A h \in new : h = <<t, None>> \/ (h \in hits[k] /\ h[1] + Window > t)
  BY <1>7, <1>3 DEF Recent, LimiterOK, StoreOK
<1>9. ~(lapse[k] <= clock) => \A h \in hits[k] : h[1] + Window > t => h \in new
  BY <1>7 DEF Recent
<1>10. \A y \in Decided(k) : y.key = k /\ y \in calls /\ y # z /\ y.stamp \in Nat /\ y.stamp <= clock BY <1>4, <1>5, <1>6 DEF Decided
<1>11. lapsed[k] <= lapse[k] /\ lapsed'[k] \in Nat /\ lapsed[k] \in Nat /\ lapse[k] \in Nat /\ lapsed[k] <= lapsed'[k]
  BY <1>3, <1>6, <1>7 DEF RedisInv
<1> HIDE DEF new
\* what is stored
<1>12. ASSUME NEW j \in LimitKeys, NEW h \in hits'[j] PROVE h[2] = None /\ \E y \in Decided(j)' : h[1] = y.stamp
  <2>1. CASE j # k BY <2>1, <1>12, <1>7, <1>4 DEF RedisInv
  <2>2. CASE j = k /\ h = <<t, None>>
    <3>1. h[2] = None /\ h[1] = z.stamp BY <2>2, <1>3
    <3> QED BY <3>1, <2>2, <1>4
  <2>3. CASE j = k /\ h # <<t, None>> BY <2>3, <1>12, <1>8, <1>4, <1>3 DEF RedisInv, new
  <2> QED BY <2>1, <2>2, <2>3
<1>13. ASSUME NEW y \in calls' PROVE \/ <<y.stamp, None>> \in hits'[y.key]
                                     \/ \E w \in Decided(y.key)' : y.stamp + Window <= w.stamp
                                     \/ y.stamp + Window <= lapsed'[y.key]
  <2>1. CASE y = z BY <2>1, <1>8, <1>3 DEF new
  <2>2. CASE y # z /\ y.key # k
    <3>1. y \in calls /\ y.key \in LimitKeys \ {k} BY <2>2, <1>3, <1>5, <1>13
    <3> QED BY <3>1, <1>7, <1>4 DEF RedisInv
  <2>3. CASE y # z /\ y.key = k
    <3>1. y \in calls /\ y \in Decided(k) BY <2>3, <1>3, <1>13 DEF Decided
    <3>2. y.stamp \in Nat BY <3>1, <1>10
    <3>3. CASE <<y.stamp, None>> \in hits[k]
      <4>1. CASE lapse[k] <= clock
        <5>1. y.stamp + Window <= lapse[k] BY <3>1, <2>3 DEF RedisInv
        <5> QED BY <5>1, <4>1, <1>7, <2>3
      <4>2. CASE ~(lapse[k] <= clock) /\ y.stamp + Window > t
        <5>1. <<y.stamp, None>>[1] = y.stamp OBVIOUS
        <5>2. <<y.stamp, None>> \in new BY <5>1, <4>2, <3>3, <1>9
        <5> QED BY <5>2, <2>3 DEF new
      <4>3. CASE ~(y.stamp + Window > t)
        <5>1. y.stamp + Window <= z.stamp BY <4>3, <3>2, <1>6, <1>3
        <5> QED BY <5>1, <1>4, <2>3
      <4> QED BY <4>1, <4>2, <4>3
    <3>4. CASE \E w \in Decided(k) : y.stamp + Window <= w.stamp BY <3>4, <1>4, <2>3
    <3>5. CASE y.stamp + Window <= lapsed[k] 
      <4>1. y.stamp + Window <= lapsed'[k] BY <3>5, <3>2, <1>6, <1>11
      <4> QED BY <4>1, <2>3
    <3> QED BY <3>1, <2>3, <3>3, <3>4, <3>5 DEF RedisInv
  <2> QED BY <2>1, <2>2, <2>3
<1>14. ASSUME NEW y \in calls' PROVE y.stamp + Window <= lapse'[y.key]
  <2>1. CASE y.key = k
    <3>1. y.stamp \in Nat /\ y.stamp <= clock BY <1>14, <1>3, <1>5, <1>6
    <3> QED BY <2>1, <3>1, <1>7, <1>6
  <2>2. CASE y.key # k
    <3>1. y \in calls BY <2>2, <1>3, <1>14
    <3> QED BY <3>1, <2>2, <1>5, <1>7 DEF RedisInv
  <2> QED BY <2>1, <2>2
<1>15. \A j \in LimitKeys : lapsed'[j] <= lapse'[j]
  <2> TAKE j \in LimitKeys
  <2>1. CASE j # k BY <2>1, <1>7 DEF RedisInv
  <2>2. CASE j = k
    <3>1. lapsed[k] <= clock BY <1>6, <1>3
    <3>2. lapsed'[k] <= clock BY <1>7, <3>1, <1>6, <1>11
    <3> QED BY <2>2, <3>2, <1>7, <1>6, <1>11
  <2> QED BY <2>1, <2>2
<1>16. RedisInv' BY <1>12, <1>13, <1>14, <1>15 DEF RedisInv
\* the windows
<1>17. ASSUME z.ok, ~z.late PROVE Distinct(LetThrough(k, z.stamp))' <= Limit[k]
  <2> DEFINE L == LetThrough(k, z.stamp)'
  <2>1. Distinct(LetThrough(k, z.stamp))' = Cardinality(StampOf(L)) BY <1>2 DEF Distinct, StampOf
  <2>2. \A y \in L : y \in Decided(k)' /\ y.stamp <= t /\ y.stamp + Window > t BY <1>3 DEF LetThrough
  <2> HIDE DEF L
  <2>3. t >= lapsed'[k] /\ \A x \in Decided(k) : ~(x.stamp > t) BY <1>1, <1>17
  <2>4. \A b \in StampOf(L) : \E a \in new : a[1] = b
    <3>1. ASSUME NEW y \in L PROVE \E a \in new : a[1] = y.stamp
      <4>1. y \in calls' /\ y.key = k /\ y.stamp \in Nat BY <2>2, <1>4, <1>10, <1>3, <1>6
      <4>2. ~ \E w \in Decided(k)' : y.stamp + Window <= w.stamp
        <5>1. SUFFICES ASSUME NEW w \in Decided(k)', y.stamp + Window <= w.stamp PROVE FALSE OBVIOUS
        <5>2. w.stamp \in Nat /\ w.stamp <= t BY <1>4, <1>10, <2>3, <1>6, <1>3
        <5> QED BY <5>1, <5>2, <2>2, <4>1, <1>6
      <4>3. ~(y.stamp + Window <= lapsed'[k]) BY <4>1, <2>2, <2>3, <1>6, <1>11
      <4>4. <<y.stamp, None>> \in new BY <4>1, <4>2, <4>3, <1>13 DEF new
      <4>5. <<y.stamp, None>>[1] = y.stamp OBVIOUS
      <4> QED BY <4>4, <4>5
    <3> QED BY <3>1 DEF StampOf
  <2>5. Cardinality(StampOf(L)) \in Nat /\ Cardinality(new) \in Nat /\ Cardinality(StampOf(L)) <= Cardinality(new)
    BY <2>4, <1>8, CoveredByStamps
  <2>6. Cardinality(new) <= Limit[k] BY <1>1, <1>17 DEF new
  <2> QED BY <2>1, <2>5, <2>6, <1>6
<1>18. ASSUME NEW j \in LimitKeys, NEW x \in Decided(j), x.ok, ~x.late PROVE Distinct(LetThrough(j, x.stamp))' <= Limit[j]
  <2>1. Distinct(LetThrough(j, x.stamp)) <= Limit[j] BY <1>18 DEF LimitIsKept, LetThrough
  <2>2. StampOf(LetThrough(j, x.stamp)') = StampOf(LetThrough(j, x.stamp))
    <3>1. CASE j # k BY <3>1, <1>4 DEF LetThrough
    <3>2. CASE j = k
      <4>1. ~z.late => ~(x.stamp > z.stamp) BY <3>2, <1>1, <1>18, <1>3
      <4>2. x.stamp \in Nat /\ z.stamp \in Nat BY <3>2, <1>10, <1>18, <1>3, <1>6
      <4>3. x \in LetThrough(j, x.stamp) BY <4>2, <1>18, <1>6 DEF LetThrough
      <4>4. LetThrough(j, x.stamp) \subseteq LetThrough(j, x.stamp)' BY <3>2, <1>4 DEF LetThrough
      <4>5. ASSUME NEW y \in LetThrough(j, x.stamp)' PROVE y \in LetThrough(j, x.stamp) \/ y.stamp = x.stamp
        <5>1. CASE y \in Decided(k) BY <5>1, <3>2, <4>5 DEF LetThrough
        <5>2. CASE y = z 
          <6>1. ~z.late /\ z.stamp <= x.stamp BY <5>2, <4>5 DEF LetThrough
          <6> QED BY <6>1, <4>1, <4>2, <5>2
        <5> QED BY <5>1, <5>2, <3>2, <1>4, <4>5 DEF LetThrough
      <4> QED BY <4>3, <4>4, <4>5 DEF StampOf
    <3> QED BY <3>1, <3>2
  <2> QED BY <2>1, <2>2, <1>2 DEF Distinct, StampOf
\* the refusals
<1>19. ASSUME ~z.ok PROVE Distinct(InWindow(k, z))' >= Limit[k]
  <2> DEFINE B == InWindow(k, z)'
             others == new \ {<<t, None>>}
  <2>1. Distinct(InWindow(k, z))' = Cardinality(StampOf(B)) BY <1>2 DEF Distinct, StampOf
  <2>2. \A y \in Decided(k) : y.stamp + Window > t => y \in B
    BY <1>3, <1>4, <1>10, <1>2 DEF InWindow
  <2>3. IsFiniteSet(B) BY <1>3, FS_Subset DEF InWindow, Decided, LimiterOK, CallersOK
  <2> HIDE DEF B
  <2>4. IsFiniteSet(StampOf(B)) BY <2>3, Counted
  <2>5. \A h \in others : h \in hits[k] /\ h[1] + Window > t /\ h = <<h[1], None>> 
    <3> TAKE h \in others
    <3>1. h \in hits[k] /\ h[1] + Window > t BY <1>8
    <3>2. h[2] = None BY <3>1, <1>3 DEF RedisInv
    <3>3. h \in (1..clock) \X (Callers \cup {None}) BY <3>1, <1>3 DEF LimiterOK, StoreOK
    <3> QED BY <3>1, <3>2, <3>3
  <2>6. \A a \in others : a[1] \in StampOf(B)
    <3> TAKE a \in others
    <3>1. PICK y \in Decided(k) : a[1] = y.stamp BY <2>5, <1>3 DEF RedisInv
    <3>2. y \in B BY <3>1, <2>2, <2>5
    <3> QED BY <3>1, <3>2 DEF StampOf
  <2>7. \A a, b \in others : a[1] = b[1] => a = b BY <2>5
  <2> HIDE DEF others
  <2>8. Cardinality(others) \in Nat /\ Cardinality(StampOf(B)) \in Nat /\ Cardinality(others) <= Cardinality(StampOf(B))
    BY <2>4, <2>6, <2>7, SpreadOverStamps
  <2>9. Cardinality(others) = Cardinality(new) - 1 /\ Cardinality(new) \in Nat
    BY <1>8, FS_RemoveElement, FS_CardinalityType DEF others
  <2>10. ~(Cardinality(new) <= Limit[k]) BY <1>19, <1>1 DEF new
  <2>11. Cardinality(others) >= Limit[k] BY <2>8, <2>9, <2>10, <1>6
  <2> QED BY <2>1, <2>8, <2>11, <1>6
<1>20. LimitIsKept'
  <2>1. ASSUME NEW j \in LimitKeys, NEW x \in Decided(j)' PROVE x.ok /\ ~x.late => Distinct(LetThrough(j, x.stamp))' <= Limit[j]
    <3>1. CASE x = z
      <4>1. j = k BY <3>1 DEF Decided
      <4> QED BY <4>1, <3>1, <1>17
    <3>2. CASE x # z
      <4>1. x \in Decided(j) BY <3>2, <1>3 DEF Decided
      <4> QED BY <4>1, <1>18
    <3> QED BY <3>1, <3>2
  <2>2. ASSUME NEW j \in LimitKeys, NEW x \in Decided(j)', ~x.ok PROVE Distinct(InWindow(j, x))' >= Limit[j]
    <3>1. CASE x = z
      <4>1. j = k BY <3>1 DEF Decided
      <4> QED BY <4>1, <3>1, <2>2, <1>19
    <3>2. CASE x # z
      <4>1. x \in Decided(j) BY <3>2, <1>3 DEF Decided
      <4> QED BY <4>1, <2>2, <1>2, <1>3, RefusalsStand
    <3> QED BY <3>1, <3>2
  <2> QED BY <2>1, <2>2, <1>2 DEF LimitIsKept, LetThrough, InWindow
<1> QED BY <1>16, <1>20

\* As time passes no window that is still open gains a call.
LEMMA WindowsPass ==
  ASSUME LimiterOK, MemoryInv, UNCHANGED <<calls, hits, lapse, lapsed>>, clock' \in Nat, clock <= clock', limiter' = limiter
  PROVE  MemoryInv'
<1>0. clock \in Nat /\ clock >= 1 /\ Window \in Nat \ {0} BY DEF LimiterOK
<1>1. ASSUME NEW k \in LimitKeys, NEW t \in 1..clock' PROVE Cardinality(ByOf(LetThrough(k, t))) <= Limit[k]
  <2>1. CASE t \in 1..clock BY <2>1, FewInMemory
  <2>2. CASE t > clock
    <3>1. \A y \in calls : y.stamp \in Nat /\ y.stamp <= clock BY DEF LimiterOK, CallersOK
    <3>2. LetThrough(k, t) \subseteq LetThrough(k, clock) BY <3>1, <2>2, <1>0 DEF LetThrough, Decided
    <3>3. IsFiniteSet(LetThrough(k, clock)) BY Finitely
    <3>4. Cardinality(ByOf(LetThrough(k, clock))) <= Limit[k] /\ Limit[k] \in Nat BY <1>0, FewInMemory
    <3> QED BY <3>2, <3>3, <3>4, CountedMore
  <2> QED BY <2>1, <2>2, <1>0
<1>2. \A y \in calls : y.stamp \in Nat BY DEF LimiterOK, CallersOK
<1>3. \A k \in LimitKeys : Decided(k)' = Decided(k) BY DEF Decided
<1>4. \A k \in LimitKeys : \A t \in 1..clock' : Cardinality(ByOf(LetThrough(k, t)))' <= Limit[k]
  BY <1>1, <1>3 DEF ByOf, LetThrough
<1>5. \A y \in calls' : y.ok /\ y.stamp + Window > clock' => <<y.stamp, y.by>> \in hits'[y.key]
  BY <1>0, <1>2 DEF MemoryInv
<1>6. \A k \in LimitKeys : \A h \in hits'[k] : \E y \in Decided(k)' : y.ok /\ h = <<y.stamp, y.by>>
  BY <1>3 DEF MemoryInv
<1> QED BY <1>4, <1>5, <1>6 DEF MemoryInv

\* Every step of the limiter keeps the invariant.
LEMMA LimiterSteps ==
  ASSUME LimiterInv, [RateLimiterNext]_lvars
  PROVE  LimiterInv'
<1>1. LimiterOK /\ AskedOnce /\ LimitIsKept BY DEF LimiterInv
<1>2. CallersOK' /\ AskedOnce' /\ clock' \in 1..MaxNow /\ clock <= clock' /\ limiter' = limiter /\ StoreOK'
  BY <1>1, CallersKept, StoreKept
<1>3. LimiterOK' BY <1>1, <1>2 DEF LimiterOK
<1>4. CASE UNCHANGED <<calls, hits, lapse, lapsed>>
  <2>1. LimitIsKept'
    <3>1. \A k : Decided(k)' = Decided(k) BY <1>4 DEF Decided
    <3>2. limiter' = limiter BY <1>2
    <3> QED BY <1>1, <3>1, <3>2 DEF LimitIsKept, Distinct
  <2>2. limiter = "memory" => MemoryInv' BY <1>1, <1>2, <1>4, WindowsPass DEF LimiterInv
  <2>3. limiter = "redis" => RedisInv' BY <1>4 DEF LimiterInv, RedisInv, Decided
  <2> QED BY <1>2, <1>3, <2>1, <2>2, <2>3 DEF LimiterInv
<1>5. ASSUME NEW c \in Callers, AllowInMemory(c) PROVE LimiterInv'
  <2>1. limiter = "memory" /\ MemoryInv BY <1>5 DEF AllowInMemory, LimiterInv
  <2>2. MemoryInv' /\ LimitIsKept' BY <1>1, <1>3, <1>5, <2>1, MemoryDecides
  <2> QED BY <1>2, <1>3, <2>1, <2>2 DEF LimiterInv
<1>6. ASSUME NEW c \in Callers, RunPipeline(c) PROVE LimiterInv'
  <2>1. limiter = "redis" /\ RedisInv BY <1>1, <1>6 DEF RunPipeline, LimiterInv, LimiterOK, CallersOK
  <2>2. RedisInv' /\ LimitIsKept' BY <1>1, <1>3, <1>6, <2>1, PipelineDecides
  <2> QED BY <1>2, <1>3, <2>1, <2>2 DEF LimiterInv
<1> QED BY <1>4, <1>5, <1>6, DecidedByOne

\* So the invariant holds of the limiter at all times.
LEMMA LimiterHolds == RateLimiterSpec => []LimiterInv
<1>1. RateLimiterInit => LimiterInv BY LimiterStart
<1>2. LimiterInv /\ [RateLimiterNext]_lvars => LimiterInv' BY LimiterSteps
<1> QED BY <1>1, <1>2, PTL DEF RateLimiterSpec

\* For any callers, keys, limits, routes and window, neither limiter lets more
\* than the limit through in a window, or refuses a call that the window has room
\* for (allow_request of RateLimiter and of RedisRateLimiter).
THEOREM LimitKept == RateLimiterSpec => []LimitIsKept
<1>1. LimiterInv => LimitIsKept BY DEF LimiterInv
<1> QED BY <1>1, LimiterHolds, PTL

\* The limiter, its stamps and its callers keep their shape, for all of them.
THEOREM RateLimiterTyped == RateLimiterSpec => []RateLimiterTypeOK
<1>1. LimiterInv => RateLimiterTypeOK
  <2>1. SUFFICES ASSUME LimiterInv PROVE RateLimiterTypeOK OBVIOUS
  <2> QED BY <2>1 DEF LimiterInv, LimiterOK, CallersOK, StoreOK, RateLimiterTypeOK
<1> QED BY <1>1, LimiterHolds, PTL
=============================================================================
