------------------------- MODULE BackgroundJobsProofs ------------------------
(****************************************************************************)
(* Every job is in one place, is tried three times and is dead-lettered,    *)
(* for any number of jobs, workers, threads and loops, as JobContract       *)
(* says; and on the loop alone the event says when all is idle.             *)
(****************************************************************************)
EXTENDS BackgroundJobs, FiniteSetTheorems, SequenceTheorems, TLAPS

-----------------------------------------------------------------------------
\* The shape of what TypeOK leaves out: the threads and the histories.
HistoryOK ==
  /\ cancelled \subseteq Workers
  /\ tpc \in [Threads -> {"idle", "count", "append"}]
  /\ tjob \in [Threads -> Jobs \cup {None}]
  /\ tries \in [Jobs -> Nat]
  /\ out \in [Jobs -> {"new", "waiting", "done", "failed", "dropped"}]
  /\ failures \in Seq(Jobs)

\* A sequence holds no job twice.
Once(s) == \A i, k \in 1..Len(s) : s[i] = s[k] => i = k

\* The queue, the pending list and the workers' hands share no job, and what
\* they hold is what waits.
PlacesInv ==
  /\ Once(queue) /\ Once(pending)
  /\ Range(queue) \cap Range(pending) = {}
  /\ \A w \in Workers : hand[w] # None =>
       /\ hand[w] \notin Range(queue) \cup Range(pending)
       /\ \A v \in Workers : hand[v] = hand[w] => v = w
       /\ out[hand[w]] = "waiting"
  /\ \A j \in Range(queue) \cup Range(pending) : out[j] = "waiting"
  /\ \A j \in Jobs : out[j] = "waiting" =>
       j \in Range(queue) \cup Range(pending) \/ \E w \in Workers : hand[w] = j

\* A worker has a job while it runs or sleeps, and a thread while it enqueues one.
HandsInv ==
  /\ \A w \in Workers : hand[w] = None <=> wpc[w] \in {"get", "done"}
  /\ \A t \in Threads : tjob[t] = None <=> tpc[t] = "idle"
  /\ \A t \in Threads : tjob[t] # None => 
       out[tjob[t]] = "new" /\ \A u \in Threads : tjob[u] = tjob[t] => u = t

\* A job that nobody has taken was not run, one that runs has had at least one
\* attempt, and one that sleeps has an attempt left.
TriesInv ==
  /\ \A j \in Jobs : out[j] = "new" => tries[j] = 0
  /\ \A j \in Range(queue) \cup Range(pending) : tries[j] = 0
  /\ \A w \in Workers : wpc[w] = "sleep" => tries[hand[w]] < MaxAttempts

\* TypeOK, but for the event.
Shape ==
  /\ loop \in 1..MaxLoops /\ qloop \in 0..MaxLoops /\ mloop \in 0..MaxLoops
  /\ queue \in Seq(Jobs) /\ pending \in Seq(Jobs) /\ dead \in Seq(Jobs)
  /\ task \in Workers \cup {None} /\ stopping \in Workers \cup {None}
  /\ wpc \in [Workers -> {"get", "run", "sleep", "done"}]
  /\ hand \in [Workers -> Jobs \cup {None}]
  /\ active \in Int /\ count \in Int

\* OnePlace, RetriedThrice and DeadLetterLatest, with where the jobs are.
JInv == Shape /\ HistoryOK /\ PlacesInv /\ HandsInv /\ TriesInv /\ RetriedThrice /\ DeadLetterLatest

-----------------------------------------------------------------------------
\* What the queue operations do to the jobs a sequence holds.
LEMMA NoneHeld == Range(<<>>) = {} /\ Once(<<>>) /\ <<>> \in Seq(Jobs) /\ Len(<<>>) = 0
BY DEF Range, Once

\* What a sequence of jobs holds is jobs.
LEMMA HeldAreJobs == ASSUME NEW s \in Seq(Jobs) PROVE Range(s) \subseteq Jobs
BY RangeOfSeq

\* A job appended is held after all the others, and once if it was not held.
LEMMA OneMore ==
  ASSUME NEW s \in Seq(Jobs), NEW j \in Jobs
  PROVE  /\ Append(s, j) \in Seq(Jobs) /\ Append(s, j) = s \o <<j>>
         /\ Len(Append(s, j)) = Len(s) + 1
         /\ Range(Append(s, j)) = Range(s) \cup {j}
         /\ Once(s) /\ j \notin Range(s) => Once(Append(s, j))
<1> DEFINE a == Append(s, j)
<1>1. a \in Seq(Jobs) /\ a = s \o <<j>> /\ Len(a) = Len(s) + 1 /\ Len(s) \in Nat
  BY AppendProperties, AppendIsConcat
<1>2. \A i \in 1..Len(a) : a[i] = IF i <= Len(s) THEN s[i] ELSE j
  BY AppendProperties
<1> HIDE DEF a
<1>3. Range(a) = {a[i] : i \in 1..Len(a)} /\ Range(s) = {s[i] : i \in 1..Len(s)}
  <2>0. a \in Seq(Jobs)
    BY <1>1
  <2>1. Range(a) = {a[i] : i \in 1..Len(a)}
    BY <2>0, RangeEquality
  <2>2. Range(s) = {s[i] : i \in 1..Len(s)}
    BY RangeEquality
  <2> QED
    BY <2>1, <2>2
<1>4. Range(a) = Range(s) \cup {j}
  <2>1. \A x \in Range(a) : x \in Range(s) \cup {j}
    BY <1>1, <1>2, <1>3
  <2>2. \A x \in Range(s) : x \in Range(a)
    BY <1>1, <1>2, <1>3
  <2>3. j \in Range(a)
    <3>1. Len(a) \in 1..Len(a) /\ a[Len(a)] = j
      BY <1>1, <1>2
    <3> QED
      BY <1>3, <3>1
  <2> QED
    BY <2>1, <2>2, <2>3
<1>5. ASSUME Once(s), j \notin Range(s) PROVE Once(a)
  BY <1>1, <1>2, <1>3, <1>5 DEF Once
<1> QED
  BY <1>1, <1>4, <1>5 DEF a

\* A job taken from the head is held no more if it was held once.
LEMMA OneLess ==
  ASSUME NEW s \in Seq(Jobs), s # <<>>
  PROVE  /\ Head(s) \in Jobs /\ Head(s) \in Range(s) /\ Tail(s) \in Seq(Jobs)
         /\ Len(Tail(s)) = Len(s) - 1 /\ Len(s) \in Nat \ {0}
         /\ Once(s) => Once(Tail(s)) /\ Range(Tail(s)) = Range(s) \ {Head(s)}
<1> DEFINE a == Tail(s)
<1>1. /\ Head(s) \in Jobs /\ a \in Seq(Jobs) /\ Len(a) = Len(s) - 1 /\ Len(s) \in Nat \ {0}
      /\ \A i \in 1..Len(a) : a[i] = s[i + 1]
  BY HeadTailProperties, EmptySeq
<1>2. Head(s) = s[1]
  OBVIOUS
<1> HIDE DEF a
<1>3. Range(a) = {a[i] : i \in 1..Len(a)} /\ Range(s) = {s[i] : i \in 1..Len(s)}
  BY <1>1, RangeEquality
<1>4. Head(s) \in Range(s)
  BY <1>1, <1>2, <1>3
<1>5. ASSUME Once(s) PROVE Once(a) /\ Range(a) = Range(s) \ {Head(s)}
  <2>1. Once(a)
    <3>1. ASSUME NEW i \in 1..Len(a), NEW k \in 1..Len(a), a[i] = a[k] PROVE i = k
      <4>1. i + 1 \in 1..Len(s) /\ k + 1 \in 1..Len(s) /\ s[i + 1] = s[k + 1]
        BY <1>1, <3>1
      <4> QED
        BY <1>5, <4>1 DEF Once
    <3> QED
      BY <3>1 DEF Once
  <2>2. ASSUME NEW x \in Range(a) PROVE x \in Range(s) /\ x # Head(s)
    <3>1. PICK i \in 1..Len(a) : x = a[i]
      BY <1>3
    <3>2. i + 1 \in 1..Len(s) /\ 1 \in 1..Len(s) /\ x = s[i + 1] /\ i + 1 # 1
      BY <1>1, <3>1
    <3> QED
      BY <1>2, <1>3, <1>5, <3>2 DEF Once
  <2>3. ASSUME NEW x \in Range(s), x # Head(s) PROVE x \in Range(a)
    <3>1. PICK i \in 1..Len(s) : x = s[i]
      BY <1>3
    <3>2. i # 1
      BY <1>2, <2>3, <3>1
    <3>3. i - 1 \in 1..Len(a) /\ a[i - 1] = x
      BY <1>1, <3>1, <3>2
    <3> QED
      BY <1>3, <3>3
  <2> QED
    BY <2>1, <2>2, <2>3
<1> QED
  BY <1>1, <1>4, <1>5 DEF a

\* The last L of a sequence and one element more are, but for the first, the
\* last L of the sequence with that element.
LEMMA LastOfAppend ==
  ASSUME NEW f \in Seq(Jobs), NEW j \in Jobs, NEW L \in Nat \ {0}, Len(f) >= L,
         NEW d, d = SubSeq(f, Len(f) - L + 1, Len(f))
  PROVE  /\ d \in Seq(Jobs) /\ Len(d) = L
         /\ Tail(Append(d, j)) = SubSeq(Append(f, j), Len(f) - L + 2, Len(f) + 1)
<1> DEFINE n == Len(f)
           a == Append(d, j)
           g == Append(f, j)
           t == Tail(a)
           u == SubSeq(g, n - L + 2, n + 1)
<1>1. /\ n \in Nat /\ n >= L /\ \A i \in 1..n : f[i] \in Jobs
      /\ g \in Seq(Jobs) /\ Len(g) = n + 1 /\ \A i \in 1..(n + 1) : g[i] = IF i <= n THEN f[i] ELSE j
  <2>1. n \in Nat /\ \A i \in 1..n : f[i] \in Jobs
    BY LenProperties, ElementOfSeq
  <2>2. /\ g \in Seq(Jobs) /\ Len(g) = n + 1
        /\ \A i \in 1..n : g[i] = f[i]
        /\ g[n + 1] = j
    BY AppendProperties
  <2> HIDE DEF g
  <2> QED
    BY <2>1, <2>2
<1>2. d \in Seq(Jobs) /\ Len(d) = L /\ \A i \in 1..L : d[i] = f[n - L + i]
  <2>1. \A i \in (n - L + 1)..n : f[i] \in Jobs
    BY <1>1
  <2>2. n - L + 1 \in Int /\ n \in Int /\ n - (n - L + 1) + 1 = L /\ n - L + 1 <= n
    BY <1>1
  <2>3. /\ d \in Seq(Jobs) /\ Len(d) = IF n - L + 1 <= n THEN n - (n - L + 1) + 1 ELSE 0
        /\ \A i \in 1..(n - (n - L + 1) + 1) : d[i] = f[(n - L + 1) + i - 1]
    BY <2>1, <2>2, SubSeqProperties
  <2>4. \A i \in 1..L : (n - L + 1) + i - 1 = n - L + i
    BY <1>1
  <2> QED
    BY <2>2, <2>3, <2>4
<1>3. a \in Seq(Jobs) /\ Len(a) = L + 1 /\ \A i \in 1..(L + 1) : a[i] = IF i <= L THEN d[i] ELSE j
  BY <1>2, AppendProperties
<1>4. t \in Seq(Jobs) /\ Len(t) = L /\ \A i \in 1..L : t[i] = a[i + 1]
  <2> HIDE DEF a
  <2>1. a # <<>>
    <3>1. Len(a) # 0
      BY <1>3
    <3> QED
      BY <3>1, EmptySeq
  <2> QED
    BY <1>3, <2>1, HeadTailProperties
<1>5. u \in Seq(Jobs) /\ Len(u) = L /\ \A i \in 1..L : u[i] = g[n - L + 1 + i]
  <2> HIDE DEF g
  <2>1. \A i \in (n - L + 2)..(n + 1) : g[i] \in Jobs
    BY <1>1, ElementOfSeq
  <2>2. /\ n - L + 2 \in Int /\ n + 1 \in Int /\ (n + 1) - (n - L + 2) + 1 = L
        /\ n - L + 2 <= n + 1
    BY <1>1
  <2>3. /\ u \in Seq(Jobs)
        /\ Len(u) = IF n - L + 2 <= n + 1 THEN (n + 1) - (n - L + 2) + 1 ELSE 0
        /\ \A i \in 1..((n + 1) - (n - L + 2) + 1) : u[i] = g[(n - L + 2) + i - 1]
    BY <2>1, <2>2, SubSeqProperties
  <2>4. \A i \in 1..L : (n - L + 2) + i - 1 = n - L + 1 + i
    BY <1>1
  <2> QED
    BY <2>2, <2>3, <2>4
<1> HIDE DEF a, g, t, u
<1>6. ASSUME NEW i \in 1..L PROVE t[i] = u[i]
  <2>0. i \in Int /\ i \in 1..L /\ i + 1 \in 1..(L + 1) /\ n - L + 1 + i \in 1..(n + 1)
    BY <1>1
  <2>1. /\ t[i] = IF i + 1 <= L THEN d[i + 1] ELSE j
        /\ u[i] = IF n - L + 1 + i <= n THEN f[n - L + 1 + i] ELSE j
    BY <1>1, <1>3, <1>4, <1>5, <2>0
  <2>2. CASE i = L
    BY <1>1, <2>0, <2>1, <2>2
  <2>3. CASE i < L
    <3>1. i + 1 \in 1..L /\ n - L + (i + 1) = n - L + 1 + i /\ n - L + 1 + i <= n
      BY <1>1, <2>0, <2>3
    <3>2. d[i + 1] = f[n - L + 1 + i]
      BY <1>2, <3>1
    <3> QED
      BY <2>1, <3>1, <3>2
  <2> QED
    BY <2>0, <2>2, <2>3
<1>7. t = u
  BY <1>4, <1>5, <1>6, SeqEqual
<1> QED
  BY <1>2, <1>7 DEF a, g, t, u

USE JobsAssumption

\* A dead-letter list of the latest failures is that with one failure more.
LEMMA LatestFailures ==
  ASSUME DeadLetterLatest, failures \in Seq(Jobs), NEW j \in Jobs, failures' = Append(failures, j),
         LET all == Append(dead, j) IN
           dead' = IF Len(all) > DeadLetterLimit THEN Tail(all) ELSE all
  PROVE  DeadLetterLatest' /\ dead' \in Seq(Jobs) /\ failures' \in Seq(Jobs)
<1> DEFINE n == Len(failures)
           L == DeadLetterLimit
<1>1. n \in Nat /\ L \in Nat \ {0} /\ failures' \in Seq(Jobs) /\ Len(failures') = n + 1
  BY AppendProperties, LenProperties
<1>2. CASE n < L
  <2>1. n - n + 1 = 1 /\ (n + 1) - (n + 1) + 1 = 1 /\ ~(n > L) /\ ~(n + 1 > L)
    BY <1>1, <1>2
  <2>2. dead = SubSeq(failures, 1, n)
    <3>1. dead = SubSeq(failures, n - n + 1, n)
      BY <2>1 DEF DeadLetterLatest
    <3> QED
      BY <2>1, <3>1
  <2>3. dead = failures
    BY <2>2, SubSeqFull
  <2>4. dead' = failures'
    BY <1>1, <2>1, <2>3
  <2>5. dead' = SubSeq(failures', 1, n + 1)
    BY <1>1, <2>4, SubSeqFull
  <2>6. DeadLetterLatest'
    <3>1. dead' = SubSeq(failures', (n + 1) - (n + 1) + 1, n + 1)
      BY <2>1, <2>5
    <3> QED
      BY <1>1, <2>1, <3>1 DEF DeadLetterLatest
  <2> QED
    BY <1>1, <2>4, <2>6
<1>3. CASE n >= L
  <2>1. dead = SubSeq(failures, n - L + 1, n)
    <3>1. CASE n > L
      BY <1>1, <3>1 DEF DeadLetterLatest
    <3>2. CASE n = L
      BY <1>1, <3>2 DEF DeadLetterLatest
    <3> QED
      BY <1>1, <1>3, <3>1, <3>2
  <2>2. /\ dead \in Seq(Jobs) /\ Len(dead) = L
        /\ Tail(Append(dead, j)) = SubSeq(failures', n - L + 2, n + 1)
    <3>1. failures' = Append(failures, j) /\ Len(failures) >= L
      BY <1>1, <1>3
    <3> DEFINE d == dead
    <3>2. d = SubSeq(failures, Len(failures) - L + 1, Len(failures)) /\ L \in Nat \ {0}
      BY <1>1, <2>1
    <3> HIDE DEF d, L
    <3>3. /\ d \in Seq(Jobs) /\ Len(d) = L
          /\ Tail(Append(d, j)) = SubSeq(Append(failures, j), Len(failures) - L + 2, Len(failures) + 1)
      BY <3>1, <3>2, LastOfAppend, Zenon
    <3> QED
      BY <3>1, <3>3 DEF d
  <2>3. Append(dead, j) \in Seq(Jobs) /\ Len(Append(dead, j)) = L + 1 /\ Append(dead, j) # <<>>
    BY <2>2, AppendProperties
  <2>4. dead' = Tail(Append(dead, j))
    BY <1>1, <2>3
  <2>5. dead' \in Seq(Jobs)
    BY <2>3, <2>4, HeadTailProperties
  <2>6. (n + 1) - L + 1 = n - L + 2 /\ n + 1 > L
    BY <1>1, <1>3
  <2>7. dead' = SubSeq(failures', (n + 1) - L + 1, n + 1)
    BY <2>2, <2>4, <2>6
  <2>8. DeadLetterLatest'
    BY <1>1, <2>6, <2>7 DEF DeadLetterLatest
  <2> QED
    BY <1>1, <2>5, <2>8
<1> QED
  BY <1>1, <1>2, <1>3

-----------------------------------------------------------------------------
\* Nothing is held at the start.
LEMMA JobsStart == Init => JInv
<1> SUFFICES ASSUME Init PROVE JInv
  OBVIOUS
<1> USE DEF Init
<1>1. Shape /\ HistoryOK
  BY NoneHeld DEF Shape, HistoryOK
<1>2. PlacesInv /\ TriesInv
  BY NoneHeld DEF PlacesInv, TriesInv
<1>3. HandsInv /\ RetriedThrice
  BY DEF HandsInv, RetriedThrice
<1>4. DeadLetterLatest
  <2>1. Len(failures) = 0 /\ ~(0 > DeadLetterLimit)
    OBVIOUS
  <2>2. SubSeq(failures, 1, 0) = <<>>
    BY SubSeqEmpty
  <2>3. SubSeq(failures, 0 - 0 + 1, 0) = dead
    BY <2>2
  <2> QED
    BY <2>1, <2>3 DEF DeadLetterLatest
<1> QED
  BY <1>1, <1>2, <1>3, <1>4 DEF JInv

\* A put gives each of its jobs one place, and drops what an older loop's queue held.
LEMMA PutKeeps ==
  ASSUME JInv, NEW s, s = <<>> \/ \E j \in Jobs : s = <<j>>,
         \A j \in Range(s) : out[j] = "new" /\ \A t \in Threads : tjob[t] # j,
         Put(s), PutOut(s), UNCHANGED <<hand, tjob, tries>>
  PROVE  /\ queue' \in Seq(Jobs) /\ pending' \in Seq(Jobs) /\ qloop' \in 0..MaxLoops
         /\ out' \in [Jobs -> {"new", "waiting", "done", "failed", "dropped"}]
         /\ PlacesInv'
         /\ \A j \in Jobs : out'[j] = "failed" => out[j] = "failed"
         /\ \A t \in Threads : tjob[t] # None => out'[tjob[t]] = "new"
         /\ \A j \in Jobs : out'[j] = "new" => tries[j] = 0
         /\ \A j \in Range(queue') \cup Range(pending') : tries[j] = 0
<1> DEFINE b == IF qloop = loop THEN queue ELSE pending
<1>1. /\ queue \in Seq(Jobs) /\ pending \in Seq(Jobs)
      /\ Range(queue) \subseteq Jobs /\ Range(pending) \subseteq Jobs
  BY HeldAreJobs DEF JInv, Shape
<1>2. b \in Seq(Jobs) /\ Once(b) /\ Range(b) = IF qloop = loop THEN Range(queue) ELSE Range(pending)
  BY <1>1 DEF JInv, PlacesInv
<1>3. \A j \in Range(s) : j \in Jobs /\ j \notin Range(queue) \cup Range(pending) /\ out[j] = "new"
  <2>1. \A j \in Range(s) : j \in Jobs
    BY DEF Range
  <2> QED
    BY <2>1 DEF JInv, PlacesInv
<1>4. queue' \in Seq(Jobs) /\ Once(queue)' /\ Range(queue') = Range(b) \cup Range(s)
  <2>1. queue' = b \o s
    BY DEF Put
  <2> HIDE DEF b
  <2>2. CASE s = <<>>
    <3>1. queue' = b /\ Range(s) = {}
      BY <1>2, <2>1, <2>2, ConcatEmptySeq, NoneHeld
    <3> QED
      BY <1>2, <3>1 DEF Once
  <2>3. ASSUME NEW j \in Jobs, s = <<j>> PROVE queue' \in Seq(Jobs) /\ Once(queue)' /\ Range(queue') = Range(b) \cup Range(s)
    <3>1. Range(s) = {j}
      BY <2>3 DEF Range
    <3>2. j \notin Range(b)
      BY <1>2, <1>3, <3>1
    <3>3. queue' = Append(b, j)
      BY <1>2, <2>1, <2>3, OneMore
    <3> DEFINE q == Append(b, j)
    <3>4. q \in Seq(Jobs) /\ Range(q) = Range(b) \cup Range(s) /\ Once(q)
      BY <1>2, <3>1, <3>2, OneMore
    <3>5. queue' = q
      BY <3>3
    <3> HIDE DEF q
    <3> QED
      BY <3>4, <3>5 DEF Once
  <2> QED
    BY <2>2, <2>3
<1>5. pending' \in Seq(Jobs) /\ Once(pending)' /\ Range(pending') = IF qloop = loop THEN Range(pending) ELSE {}
  <2>1. pending' = IF qloop = loop THEN pending ELSE <<>>
    BY DEF Put
  <2>2. Once(pending) /\ pending \in Seq(Jobs)
    BY DEF JInv, PlacesInv, Shape
  <2>3. CASE qloop = loop
    BY <2>1, <2>2, <2>3 DEF Once
  <2>4. CASE qloop # loop
    BY <2>1, <2>4, NoneHeld DEF Once
  <2> QED
    BY <2>3, <2>4
<1>6. qloop' \in 0..MaxLoops
  BY DEF Put, JInv, Shape
<1>7. out' = [j \in Jobs |-> CASE j \in Range(s) -> "waiting"
                               [] qloop # loop /\ j \in Range(queue) -> "dropped"
                               [] OTHER -> out[j]]
  BY DEF PutOut
<1> DEFINE held == Range(queue') \cup Range(pending')
<1>8. \A j \in Jobs : j \in held <=>
        \/ j \in Range(s)
        \/ j \in Range(queue) \cup Range(pending) /\ ~(qloop # loop /\ j \in Range(queue))
  BY <1>2, <1>4, <1>5 DEF JInv, PlacesInv
<1>9. \A j \in Jobs : 
        /\ j \in Range(s) => out'[j] = "waiting"
        /\ j \notin Range(s) /\ qloop # loop /\ j \in Range(queue) => out'[j] = "dropped"
        /\ j \notin Range(s) /\ ~(qloop # loop /\ j \in Range(queue)) => out'[j] = out[j]
  <2> SUFFICES ASSUME NEW j \in Jobs
               PROVE  /\ j \in Range(s) => out'[j] = "waiting"
                      /\ j \notin Range(s) /\ qloop # loop /\ j \in Range(queue) => out'[j] = "dropped"
                      /\ j \notin Range(s) /\ ~(qloop # loop /\ j \in Range(queue)) => out'[j] = out[j]
    OBVIOUS
  <2>1. out'[j] = CASE j \in Range(s) -> "waiting"
                    [] qloop # loop /\ j \in Range(queue) -> "dropped"
                    [] OTHER -> out[j]
    BY <1>7
  <2>2. j \in Range(s) => ~(qloop # loop /\ j \in Range(queue))
    BY <1>3
  <2>3. CASE j \in Range(s)
    BY <2>1, <2>2, <2>3
  <2>4. CASE qloop # loop /\ j \in Range(queue)
    BY <2>1, <2>2, <2>4
  <2>5. CASE j \notin Range(s) /\ ~(qloop # loop /\ j \in Range(queue))
    BY <2>1, <2>5
  <2> QED
    BY <2>2, <2>3, <2>4, <2>5
<1>10. out' \in [Jobs -> {"new", "waiting", "done", "failed", "dropped"}]
  BY <1>7 DEF JInv, HistoryOK
<1>11. held \subseteq Jobs /\ Range(queue') \cap Range(pending') = {}
  BY <1>1, <1>2, <1>3, <1>4, <1>5 DEF JInv, PlacesInv
<1> HIDE DEF b, held
<1>12. \A w \in Workers : hand[w] # None => hand[w] \in Jobs /\ hand[w] \notin held /\ out'[hand[w]] = "waiting"
  <2>1. \A w \in Workers : hand[w] # None => 
          hand[w] \in Jobs /\ hand[w] \notin Range(queue) \cup Range(pending) /\ out[hand[w]] = "waiting"
    BY DEF JInv, Shape, PlacesInv
  <2> QED
    BY <1>3, <1>8, <1>9, <2>1
<1>13. \A j \in held : out'[j] = "waiting"
  BY <1>8, <1>9, <1>11 DEF JInv, PlacesInv
<1>14. \A j \in Jobs : out'[j] = "waiting" => j \in held \/ \E w \in Workers : hand[w] = j
  BY <1>8, <1>9 DEF JInv, PlacesInv
<1>15. PlacesInv'
  <2>1. Range(queue') \cap Range(pending') = {}
    BY <1>11
  <2>2. \A w \in Workers, v \in Workers : hand[w] # None /\ hand[v] = hand[w] => v = w
    BY DEF JInv, PlacesInv
  <2> QED
    BY <1>4, <1>5, <1>12, <1>13, <1>14, <2>1, <2>2 DEF PlacesInv, held
<1>16. \A j \in Jobs : out'[j] = "failed" => out[j] = "failed"
  BY <1>9
<1>17. \A t \in Threads : tjob[t] # None => out'[tjob[t]] = "new"
  <2>1. \A t \in Threads : tjob[t] # None => tjob[t] \in Jobs /\ out[tjob[t]] = "new" /\ tjob[t] \notin Range(s)
    BY DEF JInv, HistoryOK, HandsInv
  <2>2. \A j \in Range(queue) : out[j] # "new"
    BY DEF JInv, PlacesInv
  <2> QED
    BY <1>9, <2>1, <2>2
<1>18. \A j \in Jobs : out'[j] = "new" => tries[j] = 0
  BY <1>9 DEF JInv, TriesInv
<1>19. \A j \in held : tries[j] = 0
  BY <1>3, <1>8, <1>11 DEF JInv, TriesInv
<1> QED
  BY <1>4, <1>5, <1>6, <1>10, <1>15, <1>16, <1>17, <1>18, <1>19 DEF held

\* A new worker holds nothing.
LEMMA SpawnKeeps ==
  ASSUME JInv, NEW w \in Workers, Spawn(w), UNCHANGED loop
  PROVE  /\ mloop' \in 0..MaxLoops /\ task' \in Workers /\ cancelled' = cancelled /\ hand' = hand
         /\ wpc' \in [Workers -> {"get", "run", "sleep", "done"}]
         /\ \A v \in Workers : (wpc'[v] \in {"get", "done"}) = (wpc[v] \in {"get", "done"})
         /\ \A v \in Workers : wpc'[v] = "sleep" => wpc[v] = "sleep"
BY DEF Spawn, Live, JInv, Shape

\* enqueue on the loop, and start.
LEMMA PutsKeep ==
  ASSUME JInv, NEW s, s = <<>> \/ \E j \in Jobs : s = <<j>>,
         \A j \in Range(s) : out[j] = "new" /\ \A t \in Threads : tjob[t] # j,
         Put(s), PutOut(s), UNCHANGED <<loop, stopping, active, thread, tries, failures, dead>>,
         count' \in Int,
         (\E w \in Workers : Spawn(w)) \/ UNCHANGED <<mloop, task, worker>>
  PROVE  JInv'
<1>1. UNCHANGED <<hand, cancelled, tjob, tpc, tries, failures, dead, loop, stopping, active>>
  BY DEF Spawn, worker, thread
<1>2. /\ mloop' \in 0..MaxLoops /\ task' \in Workers \cup {None}
      /\ wpc' \in [Workers -> {"get", "run", "sleep", "done"}]
      /\ \A v \in Workers : (wpc'[v] \in {"get", "done"}) = (wpc[v] \in {"get", "done"})
      /\ \A v \in Workers : wpc'[v] = "sleep" => wpc[v] = "sleep"
  <2>1. CASE \E w \in Workers : Spawn(w)
    BY <1>1, <2>1, SpawnKeeps
  <2>2. CASE UNCHANGED <<mloop, task, worker>>
    BY <2>2 DEF worker, JInv, Shape
  <2> QED
    BY <2>1, <2>2
<1>3. /\ queue' \in Seq(Jobs) /\ pending' \in Seq(Jobs) /\ qloop' \in 0..MaxLoops
      /\ out' \in [Jobs -> {"new", "waiting", "done", "failed", "dropped"}]
      /\ PlacesInv'
      /\ \A j \in Jobs : out'[j] = "failed" => out[j] = "failed"
      /\ \A t \in Threads : tjob[t] # None => out'[tjob[t]] = "new"
      /\ \A j \in Jobs : out'[j] = "new" => tries[j] = 0
      /\ \A j \in Range(queue') \cup Range(pending') : tries[j] = 0
  BY <1>1, PutKeeps
<1>4. Shape' /\ HistoryOK'
  BY <1>1, <1>2, <1>3 DEF JInv, Shape, HistoryOK
<1>5. HandsInv'
  BY <1>1, <1>2, <1>3 DEF JInv, HandsInv
<1>6. TriesInv'
  BY <1>1, <1>2, <1>3 DEF JInv, TriesInv
<1>7. RetriedThrice' /\ DeadLetterLatest'
  BY <1>1, <1>3 DEF JInv, RetriedThrice, DeadLetterLatest
<1> QED
  BY <1>3, <1>4, <1>5, <1>6, <1>7 DEF JInv

-----------------------------------------------------------------------------
\* A worker takes the job at the head of the queue.
LEMMA TakeKeeps == ASSUME JInv, NEW w \in Workers, Take(w) PROVE JInv'
<1> DEFINE h == Head(queue)
<1>1. /\ queue \in Seq(Jobs) /\ queue # <<>> /\ Once(queue) /\ wpc[w] = "get" /\ hand[w] = None
      /\ queue' = Tail(queue) /\ hand' = [hand EXCEPT ![w] = h] /\ wpc' = [wpc EXCEPT ![w] = "run"]
      /\ tries' = [tries EXCEPT ![h] = @ + 1]
      /\ count' = count - 1 /\ active' = active + 1
      /\ UNCHANGED <<loop, mloop, task, stopping, qloop, pending, cancelled, tpc, tjob, out, failures, dead>>
  BY DEF Take, JInv, Shape, PlacesInv, HandsInv, manager, thread
<1>2. /\ h \in Jobs /\ h \in Range(queue) /\ queue' \in Seq(Jobs)
      /\ Range(queue') = Range(queue) \ {h} /\ Once(queue)'
  BY <1>1, OneLess DEF Once
<1>3. out[h] = "waiting" /\ tries[h] = 0 /\ h \notin Range(pending) /\ \A v \in Workers : hand[v] # h
  BY <1>2 DEF JInv, PlacesInv, TriesInv
<1> HIDE DEF h
<1>4. Shape' /\ HistoryOK'
  BY <1>1, <1>2, <1>3 DEF JInv, Shape, HistoryOK
<1>5. \A v \in Workers : hand'[v] = IF v = w THEN h ELSE hand[v]
  BY <1>1 DEF JInv, Shape
<1>6. \A j \in Jobs : tries'[j] = IF j = h THEN 1 ELSE tries[j]
  BY <1>1, <1>2, <1>3 DEF JInv, HistoryOK
<1>7. \A v \in Workers : wpc'[v] = IF v = w THEN "run" ELSE wpc[v]
  BY <1>1 DEF JInv, Shape
<1>8. PlacesInv'
  <2>1. Once(queue)' /\ Once(pending)' /\ Range(queue') \cap Range(pending') = {}
    BY <1>1, <1>2 DEF JInv, PlacesInv, Once
  <2>2. \A v \in Workers : hand'[v] # None =>
            /\ hand'[v] \notin Range(queue') \cup Range(pending')
            /\ \A u \in Workers : hand'[u] = hand'[v] => u = v
            /\ out'[hand'[v]] = "waiting"
    BY <1>1, <1>2, <1>3, <1>5 DEF JInv, PlacesInv
  <2>3. \A j \in Range(queue') \cup Range(pending') : out'[j] = "waiting"
    BY <1>1, <1>2 DEF JInv, PlacesInv
  <2>4. ASSUME NEW j \in Jobs, out'[j] = "waiting"
        PROVE  j \in Range(queue') \cup Range(pending') \/ \E v \in Workers : hand'[v] = j
    <3>1. j \in Range(queue) \cup Range(pending) \/ \E v \in Workers : hand[v] = j
      BY <1>1, <2>4 DEF JInv, PlacesInv
    <3>2. CASE j = h
      BY <1>5, <3>2
    <3>3. CASE j # h
      <4>1. \A v \in Workers : hand[v] = j => hand'[v] = j
        BY <1>1, <1>5
      <4> QED
        BY <1>1, <1>2, <3>1, <3>3, <4>1
    <3> QED
      BY <3>2, <3>3
  <2> QED
    BY <2>1, <2>2, <2>3, <2>4 DEF PlacesInv
<1>9. HandsInv'
  BY <1>1, <1>2, <1>5, <1>7 DEF JInv, HandsInv
<1>10. TriesInv'
  <2>1. \A j \in Jobs : out'[j] = "new" => tries'[j] = 0
    BY <1>1, <1>3, <1>6 DEF JInv, TriesInv
  <2>2. \A j \in Range(queue') \cup Range(pending') : tries'[j] = 0
    <3>1. Range(queue') \cup Range(pending') \subseteq (Range(queue) \cup Range(pending)) \ {h}
      BY <1>1, <1>2, <1>3
    <3>2. Range(queue) \cup Range(pending) \subseteq Jobs
      BY HeldAreJobs DEF JInv, Shape
    <3> QED
      BY <1>6, <3>1, <3>2 DEF JInv, TriesInv
  <2>3. \A v \in Workers : wpc'[v] = "sleep" => tries'[hand'[v]] < MaxAttempts
    <3>1. ASSUME NEW v \in Workers, wpc'[v] = "sleep" PROVE tries'[hand'[v]] < MaxAttempts
      <4>1. v # w /\ wpc[v] = "sleep" /\ hand'[v] = hand[v]
        BY <1>5, <1>7, <3>1
      <4>2. hand[v] \in Jobs /\ hand[v] # h
        BY <1>3, <4>1 DEF JInv, Shape, HandsInv
      <4> QED
        BY <1>6, <4>1, <4>2 DEF JInv, TriesInv
    <3> QED
      BY <3>1
  <2> QED
    BY <2>1, <2>2, <2>3 DEF TriesInv
<1>11. RetriedThrice' /\ DeadLetterLatest'
  BY <1>1, <1>3, <1>6 DEF JInv, RetriedThrice, DeadLetterLatest
<1> QED
  BY <1>4, <1>8, <1>9, <1>10, <1>11 DEF JInv

\* The job in the hand of a worker is nowhere else.
LEMMA InHand ==
  ASSUME JInv, NEW w \in Workers, wpc[w] \in {"run", "sleep"}
  PROVE  /\ hand[w] \in Jobs /\ out[hand[w]] = "waiting"
         /\ hand[w] \notin Range(queue) \cup Range(pending)
         /\ \A v \in Workers \ {w} : hand[v] # hand[w]
         /\ \A t \in Threads : tjob[t] # hand[w]
<1>1. hand[w] # None /\ hand[w] \in Jobs
  BY DEF JInv, Shape, HandsInv
<1>2. /\ hand[w] \notin Range(queue) \cup Range(pending) /\ out[hand[w]] = "waiting"
      /\ \A v \in Workers \ {w} : hand[v] # hand[w]
  BY <1>1 DEF JInv, PlacesInv
<1>3. \A t \in Threads : tjob[t] # None => out[tjob[t]] = "new"
  BY DEF JInv, HandsInv
<1> QED
  BY <1>1, <1>2, <1>3

\* The job a worker had ends: succeeded, or failed after its last attempt.
LEMMA SettleKeeps ==
  ASSUME JInv, NEW w \in Workers, wpc[w] = "run", NEW end \in {"done", "failed"},
         out' = [out EXCEPT ![hand[w]] = end], Settle(w),
         end = "failed" => tries[hand[w]] = MaxAttempts,
         failures' \in Seq(Jobs), dead' \in Seq(Jobs), DeadLetterLatest'
  PROVE  JInv'
<1> DEFINE h == hand[w]
<1>1. /\ h \in Jobs /\ out[h] = "waiting" /\ h \notin Range(queue) \cup Range(pending)
      /\ \A v \in Workers \ {w} : hand[v] # h
      /\ \A t \in Threads : tjob[t] # h
  BY InHand
<1>2. /\ wpc' = [wpc EXCEPT ![w] = "get"] /\ hand' = [hand EXCEPT ![w] = None]
      /\ active' = active - 1 /\ out' = [out EXCEPT ![h] = end]
      /\ UNCHANGED <<loop, mloop, task, stopping, qloop, queue, pending, cancelled, count, tpc, tjob, tries>>
  BY DEF Settle, backend, manager, thread
<1>3. end = "failed" => tries[h] = MaxAttempts
  OBVIOUS
<1> HIDE DEF h
<1>4. Shape' /\ HistoryOK'
  <2>1. Shape'
    BY <1>2 DEF JInv, Shape
  <2>2. out' \in [Jobs -> {"new", "waiting", "done", "failed", "dropped"}]
    <3>1. end \in {"new", "waiting", "done", "failed", "dropped"}
      OBVIOUS
    <3> QED
      BY <1>1, <1>2, <3>1 DEF JInv, HistoryOK
  <2>3. HistoryOK'
    BY <1>2, <2>2 DEF JInv, HistoryOK
  <2> QED
    BY <2>1, <2>3
<1>5. /\ \A v \in Workers : hand'[v] = IF v = w THEN None ELSE hand[v]
      /\ \A v \in Workers : wpc'[v] = IF v = w THEN "get" ELSE wpc[v]
      /\ \A j \in Jobs : out'[j] = IF j = h THEN end ELSE out[j]
  BY <1>2 DEF JInv, Shape, HistoryOK
<1>6. PlacesInv'
  <2>1. Once(queue)' /\ Once(pending)' /\ Range(queue') \cap Range(pending') = {}
    <3>1. Once(queue) /\ Once(pending) /\ Range(queue) \cap Range(pending) = {}
      BY DEF JInv, PlacesInv
    <3>2. queue' = queue /\ pending' = pending
      BY <1>2
    <3> QED
      BY <3>1, <3>2 DEF Once
  <2>2. \A v \in Workers : hand'[v] # None =>
            /\ hand'[v] \notin Range(queue') \cup Range(pending')
            /\ \A u \in Workers : hand'[u] = hand'[v] => u = v
            /\ out'[hand'[v]] = "waiting"
    BY <1>1, <1>2, <1>5 DEF JInv, PlacesInv, Shape
  <2>3. \A j \in Range(queue') \cup Range(pending') : out'[j] = "waiting"
    <3>1. Range(queue) \cup Range(pending) \subseteq Jobs
      BY HeldAreJobs DEF JInv, Shape
    <3> QED
      BY <1>1, <1>2, <1>5, <3>1 DEF JInv, PlacesInv
  <2>4. \A j \in Jobs : out'[j] = "waiting" =>
          j \in Range(queue') \cup Range(pending') \/ \E v \in Workers : hand'[v] = j
    BY <1>1, <1>2, <1>5 DEF JInv, PlacesInv, h
  <2> QED
    BY <2>1, <2>2, <2>3, <2>4 DEF PlacesInv
<1>7. HandsInv'
  <2>1. \A v \in Workers : hand'[v] = None <=> wpc'[v] \in {"get", "done"}
    BY <1>5 DEF JInv, HandsInv
  <2>2. \A t \in Threads : tjob'[t] # None =>
          out'[tjob'[t]] = "new" /\ \A u \in Threads : tjob'[u] = tjob'[t] => u = t
    BY <1>1, <1>2, <1>5 DEF JInv, HandsInv, HistoryOK
  <2> QED
    BY <1>2, <2>1, <2>2 DEF JInv, HandsInv
<1>8. TriesInv'
  BY <1>2, <1>5 DEF JInv, TriesInv
<1>9. RetriedThrice'
  BY <1>2, <1>3, <1>5 DEF JInv, RetriedThrice
<1> QED
  BY <1>4, <1>6, <1>7, <1>8, <1>9 DEF JInv

\* It is tried again.
LEMMA RetryKeeps == ASSUME JInv, NEW w \in Workers, Raise(w) \/ Retry(w) PROVE JInv'
<1>1. CASE Raise(w)
  <2>1. /\ wpc' = [wpc EXCEPT ![w] = "sleep"] /\ wpc[w] = "run" /\ tries[hand[w]] < MaxAttempts
        /\ UNCHANGED <<loop, mloop, task, stopping, qloop, queue, pending, hand, cancelled, active, count,
                       tpc, tjob, tries, out, failures, dead>>
    BY <1>1 DEF Raise, backend, manager, counts, thread, ledger
  <2>2. \A v \in Workers : wpc'[v] = IF v = w THEN "sleep" ELSE wpc[v]
    BY <2>1 DEF JInv, Shape
  <2>3. Shape' /\ HistoryOK'
    BY <2>1 DEF JInv, Shape, HistoryOK
  <2>4. PlacesInv'
    BY <2>1 DEF JInv, PlacesInv, Once
  <2>5. HandsInv' /\ TriesInv'
    BY <2>1, <2>2 DEF JInv, HandsInv, TriesInv
  <2>6. RetriedThrice' /\ DeadLetterLatest'
    BY <2>1 DEF JInv, RetriedThrice, DeadLetterLatest
  <2> QED
    BY <2>3, <2>4, <2>5, <2>6 DEF JInv
<1>2. CASE Retry(w)
  <2>1. /\ wpc' = [wpc EXCEPT ![w] = "run"] /\ wpc[w] = "sleep" /\ tries' = [tries EXCEPT ![hand[w]] = @ + 1]
        /\ UNCHANGED <<loop, mloop, task, stopping, qloop, queue, pending, hand, cancelled, active, count,
                       tpc, tjob, out, failures, dead>>
    BY <1>2 DEF Retry, backend, manager, counts, thread
  <2>2. /\ hand[w] \in Jobs /\ out[hand[w]] = "waiting" /\ hand[w] \notin Range(queue) \cup Range(pending)
        /\ \A v \in Workers \ {w} : hand[v] # hand[w]
        /\ tries[hand[w]] < MaxAttempts
    BY <2>1, InHand DEF JInv, TriesInv
  <2>3. /\ \A v \in Workers : wpc'[v] = IF v = w THEN "run" ELSE wpc[v]
        /\ \A j \in Jobs : tries'[j] = IF j = hand[w] THEN tries[j] + 1 ELSE tries[j]
    BY <2>1, <2>2 DEF JInv, Shape, HistoryOK
  <2>4. Shape' /\ HistoryOK'
    BY <2>1, <2>2 DEF JInv, Shape, HistoryOK
  <2>5. PlacesInv'
    BY <2>1 DEF JInv, PlacesInv, Once
  <2>6. HandsInv'
    BY <2>1, <2>3 DEF JInv, HandsInv
  <2>7. TriesInv'
    <3>1. Range(queue) \cup Range(pending) \subseteq Jobs
      BY HeldAreJobs DEF JInv, Shape
    <3>2. \A v \in Workers : wpc'[v] = "sleep" => v # w /\ wpc[v] = "sleep" /\ hand[v] \in Jobs
      BY <2>3 DEF JInv, Shape, HandsInv
    <3> QED
      BY <2>1, <2>2, <2>3, <3>1, <3>2 DEF JInv, TriesInv
  <2>8. RetriedThrice'
    BY <2>1, <2>2, <2>3 DEF JInv, RetriedThrice, HistoryOK
  <2>9. DeadLetterLatest'
    BY <2>1 DEF JInv, DeadLetterLatest
  <2> QED
    BY <2>4, <2>5, <2>6, <2>7, <2>8, <2>9 DEF JInv
<1> QED
  BY <1>1, <1>2

\* Workers that are cancelled drop what they had.
LEMMA JobCancelKeeps ==
  ASSUME JInv, NEW W, W \subseteq Workers, Cancel(W), loop' \in 1..MaxLoops, mloop' \in 0..MaxLoops,
         task' \in Workers \cup {None}, stopping' \in Workers \cup {None}
  PROVE  JInv'
<1>1. /\ wpc' = [w \in Workers |-> IF w \in W THEN "done" ELSE wpc[w]]
      /\ hand' = [w \in Workers |-> IF w \in W THEN None ELSE hand[w]]
      /\ out' = [j \in Jobs |-> IF \E w \in W : hand[w] = j THEN "dropped" ELSE out[j]]
      /\ cancelled' = cancelled \ W
      /\ UNCHANGED <<qloop, queue, pending, active, count, tpc, tjob, tries, failures, dead>>
  BY DEF Cancel, backend, counts, thread
<1>2. Shape' /\ HistoryOK'
  <2>1. Shape'
    BY <1>1 DEF JInv, Shape
  <2>2. out' \in [Jobs -> {"new", "waiting", "done", "failed", "dropped"}]
    BY <1>1 DEF JInv, HistoryOK
  <2>3. HistoryOK'
    BY <1>1, <2>2 DEF JInv, HistoryOK
  <2> QED
    BY <2>1, <2>3
<1>3. \A j \in Jobs : \/ out'[j] = out[j] /\ \A w \in W : hand[w] # j
                      \/ out'[j] = "dropped" /\ out[j] = "waiting" /\ \E w \in W : hand[w] = j
  BY <1>1 DEF JInv, PlacesInv
<1>4. \A w \in Workers : \/ w \in W /\ hand'[w] = None /\ wpc'[w] = "done"
                         \/ w \notin W /\ hand'[w] = hand[w] /\ wpc'[w] = wpc[w]
  BY <1>1
<1>5. Range(queue) \cup Range(pending) \subseteq Jobs /\ \A w \in Workers : hand[w] # None => hand[w] \in Jobs
  BY HeldAreJobs DEF JInv, Shape
<1>6. PlacesInv'
  <2>1. Once(queue)' /\ Once(pending)' /\ Range(queue') \cap Range(pending') = {}
    BY <1>1 DEF JInv, PlacesInv, Once
  <2>2. \A v \in Workers : hand'[v] # None =>
            /\ hand'[v] \notin Range(queue') \cup Range(pending')
            /\ \A u \in Workers : hand'[u] = hand'[v] => u = v
            /\ out'[hand'[v]] = "waiting"
    <3>1. ASSUME NEW v \in Workers, hand'[v] # None
          PROVE  /\ hand'[v] = hand[v] /\ v \notin W /\ hand[v] \in Jobs /\ hand[v] # None
                 /\ \A u \in Workers : hand'[u] = hand'[v] => hand[u] = hand[v]
      BY <1>4, <1>5, <3>1
    <3>2. ASSUME NEW v \in Workers, hand'[v] # None PROVE out'[hand[v]] = "waiting"
      <4>1. \A w \in W : hand[w] # hand[v]
        BY <3>1, <3>2 DEF JInv, PlacesInv
      <4> QED
        BY <1>3, <3>1, <3>2, <4>1 DEF JInv, PlacesInv
    <3> QED
      BY <1>1, <3>1, <3>2 DEF JInv, PlacesInv
  <2>3. \A j \in Range(queue') \cup Range(pending') : out'[j] = "waiting"
    <3>1. \A j \in Range(queue) \cup Range(pending) : out[j] = "waiting" /\ \A w \in W : hand[w] # j
      BY <1>5 DEF JInv, PlacesInv
    <3> QED
      BY <1>1, <1>3, <1>5, <3>1
  <2>4. \A j \in Jobs : out'[j] = "waiting" =>
          j \in Range(queue') \cup Range(pending') \/ \E v \in Workers : hand'[v] = j
    <3>1. ASSUME NEW j \in Jobs, out'[j] = "waiting"
          PROVE  out[j] = "waiting" /\ \A w \in W : hand[w] # j
      BY <1>3, <3>1
    <3> QED
      BY <1>1, <1>4, <3>1 DEF JInv, PlacesInv
  <2> QED
    BY <2>1, <2>2, <2>3, <2>4 DEF PlacesInv
<1>7. HandsInv'
  <2>1. \A w \in Workers : hand'[w] = None <=> wpc'[w] \in {"get", "done"}
    BY <1>4 DEF JInv, HandsInv
  <2>2. \A t \in Threads : tjob[t] # None => out'[tjob[t]] = "new"
    BY <1>3 DEF JInv, HandsInv, HistoryOK
  <2> QED
    BY <1>1, <2>1, <2>2 DEF JInv, HandsInv
<1>8. TriesInv'
  <2>1. \A j \in Jobs : out'[j] = "new" => out[j] = "new"
    BY <1>3
  <2> QED
    BY <1>1, <1>4, <2>1 DEF JInv, TriesInv
<1>9. RetriedThrice'
  <2>1. \A j \in Jobs : out'[j] = "failed" => out[j] = "failed"
    BY <1>3
  <2> QED
    BY <1>1, <2>1 DEF JInv, RetriedThrice
<1>10. DeadLetterLatest'
  BY <1>1 DEF JInv, DeadLetterLatest
<1> QED
  BY <1>2, <1>6, <1>7, <1>8, <1>9, <1>10 DEF JInv

\* A stop marks a worker, and what it leaves is not touched until a reset.
LEMMA StopKeeps == ASSUME JInv, Stop \/ Stopped PROVE JInv'
<1>1. /\ cancelled' \subseteq Workers /\ task' \in Workers \cup {None} /\ stopping' \in Workers \cup {None}
      /\ UNCHANGED <<loop, mloop, qloop, queue, pending, wpc, hand, active, count,
                     tpc, tjob, tries, out, failures, dead>>
  <2>1. CASE Stop
    BY <2>1 DEF Stop, backend, counts, thread, ledger, JInv, Shape, HistoryOK
  <2>2. CASE Stopped
    <3>1. task' = None /\ stopping' = None /\ UNCHANGED <<backend, worker, loop, mloop, active, count, thread, ledger>>
      BY <2>2 DEF Stopped
    <3> QED
      BY <3>1 DEF backend, worker, thread, ledger, JInv, HistoryOK
  <2> QED
    BY <2>1, <2>2
<1>2. Shape' /\ HistoryOK'
  BY <1>1 DEF JInv, Shape, HistoryOK
<1>3. PlacesInv'
  BY <1>1 DEF JInv, PlacesInv, Once
<1>4. HandsInv' /\ TriesInv' /\ RetriedThrice' /\ DeadLetterLatest'
  BY <1>1 DEF JInv, HandsInv, TriesInv, RetriedThrice, DeadLetterLatest
<1> QED
  BY <1>2, <1>3, <1>4 DEF JInv

\* A reset drops what waits, and starts the dead-letter list anew.
LEMMA ResetKeeps == ASSUME JInv, Reset PROVE JInv'
<1>1. /\ task' = None /\ stopping' = None /\ qloop' = 0 /\ queue' = <<>> /\ pending' = <<>> /\ mloop' = 0
      /\ active' = 0 /\ count' = 0 /\ dead' = <<>> /\ failures' = <<>>
      /\ out' = [j \in Jobs |-> IF j \in Range(queue \o pending) THEN "dropped" ELSE out[j]]
      /\ UNCHANGED <<wpc, hand, cancelled, loop, tpc, tjob, tries>>
  BY DEF Reset, worker, thread
<1>2. Range(queue \o pending) = Range(queue) \cup Range(pending)
  BY RangeConcatenation DEF JInv, Shape
<1>3. \A j \in Jobs : IF j \in Range(queue) \cup Range(pending)
                      THEN out'[j] = "dropped" /\ out[j] = "waiting" ELSE out'[j] = out[j]
  BY <1>1, <1>2 DEF JInv, PlacesInv
<1>4. Shape'
  BY <1>1, NoneHeld DEF JInv, Shape
<1>5. HistoryOK'
  <2>1. out' \in [Jobs -> {"new", "waiting", "done", "failed", "dropped"}]
    BY <1>1 DEF JInv, HistoryOK
  <2> QED
    BY <1>1, <2>1, NoneHeld DEF JInv, HistoryOK
<1>6. PlacesInv'
  <2>1. Range(queue') = {} /\ Range(pending') = {} /\ Once(queue)' /\ Once(pending)'
    BY <1>1, NoneHeld DEF Once
  <2>2. \A w \in Workers : hand[w] # None => hand[w] \in Jobs /\ out'[hand[w]] = "waiting"
    BY <1>3 DEF JInv, PlacesInv, Shape
  <2>3. \A j \in Jobs : out'[j] = "waiting" => \E w \in Workers : hand[w] = j
    BY <1>3 DEF JInv, PlacesInv
  <2> QED
    BY <1>1, <2>1, <2>2, <2>3 DEF JInv, PlacesInv
<1>7. HandsInv'
  <2>1. \A t \in Threads : tjob[t] # None => out'[tjob[t]] = "new"
    BY <1>3 DEF JInv, HandsInv, HistoryOK
  <2> QED
    BY <1>1, <2>1 DEF JInv, HandsInv
<1>8. TriesInv'
  <2>1. \A j \in Jobs : out'[j] = "new" => out[j] = "new"
    BY <1>3
  <2>2. Range(queue') \cup Range(pending') = {}
    BY <1>1, NoneHeld
  <2> QED
    BY <1>1, <2>1, <2>2 DEF JInv, TriesInv
<1>9. RetriedThrice'
  <2>1. \A j \in Jobs : out'[j] = "failed" => out[j] = "failed"
    BY <1>3
  <2> QED
    BY <1>1, <2>1 DEF JInv, RetriedThrice
<1>10. DeadLetterLatest'
  <2>1. SubSeq(<<>>, 1, 0) = <<>>
    BY SubSeqEmpty
  <2>2. Len(failures') = 0 /\ ~(0 > DeadLetterLimit) /\ 0 - 0 + 1 = 1
    BY <1>1
  <2>3. dead' = SubSeq(failures', 0 - 0 + 1, 0)
    BY <1>1, <2>1
  <2> QED
    BY <2>2, <2>3 DEF DeadLetterLatest
<1> QED
  BY <1>4, <1>5, <1>6, <1>7, <1>8, <1>9, <1>10 DEF JInv

\* A thread begins to enqueue a job, and counts it.
LEMMA ThreadKeeps ==
  ASSUME JInv, NEW t \in Threads, (\E j \in Jobs : ThreadClear(t, j)) \/ ThreadCount(t)
  PROVE  JInv'
<1>1. /\ count' \in Int /\ tpc' \in [Threads -> {"idle", "count", "append"}]
      /\ tjob' \in [Threads -> Jobs \cup {None}]
      /\ UNCHANGED <<loop, mloop, task, stopping, qloop, queue, pending, wpc, hand, cancelled, active,
                     tries, out, failures, dead>>
      /\ \A u \in Threads : tjob'[u] = None <=> tpc'[u] = "idle"
      /\ \A u \in Threads : tjob'[u] # None =>
           out[tjob'[u]] = "new" /\ \A v \in Threads : tjob'[v] = tjob'[u] => v = u
  <2>1. ASSUME NEW j \in Jobs, ThreadClear(t, j)
        PROVE  /\ count' = count /\ tpc' = [tpc EXCEPT ![t] = "count"] /\ tjob' = [tjob EXCEPT ![t] = j]
               /\ UNCHANGED <<loop, mloop, task, stopping, qloop, queue, pending, wpc, hand, cancelled, active,
                              tries, out, failures, dead>>
               /\ out[j] = "new" /\ \A u \in Threads : tjob[u] # j
    BY <2>1 DEF ThreadClear, backend, worker, manager, ledger
  <2>2. ASSUME ThreadCount(t)
        PROVE  /\ count' = count + 1 /\ tpc[t] = "count" /\ tpc' = [tpc EXCEPT ![t] = "append"]
               /\ UNCHANGED <<loop, mloop, task, stopping, qloop, queue, pending, wpc, hand, cancelled, active,
                              tjob, tries, out, failures, dead>>
    BY <2>2 DEF ThreadCount, backend, worker, manager, ledger
  <2>3. CASE \E j \in Jobs : ThreadClear(t, j)
    <3>1. PICK j \in Jobs : ThreadClear(t, j)
      BY <2>3
    <3>2. \A u \in Threads : /\ tjob'[u] = IF u = t THEN j ELSE tjob[u]
                             /\ tpc'[u] = IF u = t THEN "count" ELSE tpc[u]
      BY <2>1, <3>1 DEF JInv, HistoryOK
    <3>3. \A u \in Threads : tjob'[u] = None <=> tpc'[u] = "idle"
      BY <3>2 DEF JInv, HandsInv
    <3>4. \A u \in Threads : tjob'[u] # None =>
            out[tjob'[u]] = "new" /\ \A v \in Threads : tjob'[v] = tjob'[u] => v = u
      BY <2>1, <3>1, <3>2 DEF JInv, HandsInv
    <3>5. count' \in Int /\ tpc' \in [Threads -> {"idle", "count", "append"}]
          /\ tjob' \in [Threads -> Jobs \cup {None}]
      <4>1. count' \in Int
        BY <2>1, <3>1 DEF JInv, Shape
      <4>2. tpc' \in [Threads -> {"idle", "count", "append"}]
        BY <2>1, <3>1 DEF JInv, HistoryOK
      <4>3. tjob' \in [Threads -> Jobs \cup {None}]
        BY <2>1, <3>1 DEF JInv, HistoryOK
      <4> QED
        BY <4>1, <4>2, <4>3
    <3> QED
      BY <2>1, <3>1, <3>3, <3>4, <3>5
  <2>4. CASE ThreadCount(t)
    <3>1. \A u \in Threads : tpc'[u] = IF u = t THEN "append" ELSE tpc[u]
      BY <2>2, <2>4 DEF JInv, HistoryOK
    <3>2. \A u \in Threads : tjob[u] = None <=> tpc'[u] = "idle"
      BY <2>2, <2>4, <3>1 DEF JInv, HandsInv
    <3>3. count' \in Int /\ tpc' \in [Threads -> {"idle", "count", "append"}]
          /\ tjob \in [Threads -> Jobs \cup {None}]
      <4>1. count' \in Int
        BY <2>2, <2>4 DEF JInv, Shape
      <4>2. tpc' \in [Threads -> {"idle", "count", "append"}]
        BY <2>2, <2>4 DEF JInv, HistoryOK
      <4> QED
        BY <4>1, <4>2 DEF JInv, HistoryOK
    <3> QED
      BY <2>2, <2>4, <3>2, <3>3 DEF JInv, HandsInv
  <2> QED
    BY <2>3, <2>4
<1>2. Shape' /\ HistoryOK'
  BY <1>1 DEF JInv, Shape, HistoryOK
<1>3. PlacesInv'
  BY <1>1 DEF JInv, PlacesInv, Once
<1>4. HandsInv' /\ TriesInv' /\ RetriedThrice' /\ DeadLetterLatest'
  BY <1>1 DEF JInv, HandsInv, TriesInv, RetriedThrice, DeadLetterLatest
<1> QED
  BY <1>2, <1>3, <1>4 DEF JInv

\* ... and leaves it in the pending list, where it is nowhere else.
LEMMA AppendKeeps == ASSUME JInv, NEW t \in Threads, ThreadAppend(t) PROVE JInv'
<1> DEFINE j == tjob[t]
<1>1. /\ pending' = Append(pending, j) /\ out' = [out EXCEPT ![j] = "waiting"]
      /\ tpc' = [tpc EXCEPT ![t] = "idle"] /\ tjob' = [tjob EXCEPT ![t] = None] /\ tpc[t] = "append"
      /\ UNCHANGED <<loop, mloop, task, stopping, qloop, queue, wpc, hand, cancelled, active, count,
                     tries, failures, dead>>
  BY DEF ThreadAppend, worker, manager, counts
<1>2. j \in Jobs /\ out[j] = "new" /\ \A u \in Threads \ {t} : tjob[u] # j
  BY <1>1 DEF JInv, HistoryOK, HandsInv
<1> HIDE DEF j
<1>3. j \notin Range(queue) \cup Range(pending) /\ (\A w \in Workers : hand[w] # j) /\ tries[j] = 0
  BY <1>2 DEF JInv, PlacesInv, TriesInv
<1>4. pending' \in Seq(Jobs) /\ Range(pending') = Range(pending) \cup {j} /\ Once(pending)'
  <2>1. pending \in Seq(Jobs) /\ Once(pending) /\ j \notin Range(pending)
    BY <1>3 DEF JInv, Shape, PlacesInv
  <2>2. Append(pending, j) \in Seq(Jobs) /\ Range(Append(pending, j)) = Range(pending) \cup {j}
        /\ Once(Append(pending, j))
    BY <1>2, <2>1, OneMore
  <2> QED
    BY <1>1, <2>2 DEF Once
<1>5. Shape' /\ HistoryOK'
  <2>1. Shape'
    BY <1>1, <1>4 DEF JInv, Shape
  <2>2. HistoryOK'
    BY <1>1, <1>2 DEF JInv, HistoryOK
  <2> QED
    BY <2>1, <2>2
<1>6. \A i \in Jobs : out'[i] = IF i = j THEN "waiting" ELSE out[i]
  BY <1>1 DEF JInv, HistoryOK
<1>7. PlacesInv'
  <2>1. Once(queue)' /\ Once(pending)' /\ Range(queue') \cap Range(pending') = {}
    BY <1>1, <1>3, <1>4 DEF JInv, PlacesInv, Once
  <2>2. \A v \in Workers : hand'[v] # None =>
            /\ hand'[v] \notin Range(queue') \cup Range(pending')
            /\ \A u \in Workers : hand'[u] = hand'[v] => u = v
            /\ out'[hand'[v]] = "waiting"
    BY <1>1, <1>3, <1>4, <1>6 DEF JInv, PlacesInv, Shape
  <2>3. \A i \in Range(queue') \cup Range(pending') : out'[i] = "waiting"
    <3>1. Range(queue) \cup Range(pending) \subseteq Jobs
      BY HeldAreJobs DEF JInv, Shape
    <3> QED
      BY <1>1, <1>2, <1>4, <1>6, <3>1 DEF JInv, PlacesInv
  <2>4. \A i \in Jobs : out'[i] = "waiting" =>
          i \in Range(queue') \cup Range(pending') \/ \E v \in Workers : hand'[v] = i
    BY <1>1, <1>4, <1>6 DEF JInv, PlacesInv
  <2> QED
    BY <2>1, <2>2, <2>3, <2>4 DEF PlacesInv
<1>8. HandsInv'
  <2>1. \A u \in Threads : /\ tjob'[u] = IF u = t THEN None ELSE tjob[u]
                           /\ tpc'[u] = IF u = t THEN "idle" ELSE tpc[u]
    BY <1>1 DEF JInv, HistoryOK
  <2>2. \A u \in Threads : tjob'[u] # None => out'[tjob'[u]] = "new"
    BY <1>2, <1>6, <2>1 DEF JInv, HandsInv, HistoryOK
  <2> QED
    BY <1>1, <2>1, <2>2 DEF JInv, HandsInv
<1>9. TriesInv'
  BY <1>1, <1>3, <1>4, <1>6 DEF JInv, TriesInv
<1>10. RetriedThrice' /\ DeadLetterLatest'
  BY <1>1, <1>6 DEF JInv, RetriedThrice, DeadLetterLatest
<1> QED
  BY <1>5, <1>7, <1>8, <1>9, <1>10 DEF JInv

-----------------------------------------------------------------------------
\* Whatever the loop, its workers and other threads do next keeps the invariant.
LEMMA JobsSteps == JInv /\ [Next]_vars => JInv'
<1> SUFFICES ASSUME JInv, [Next]_vars PROVE JInv'
  OBVIOUS
<1>1. ASSUME NEW j \in Jobs, Enqueue(j) PROVE JInv'
  <2>1. Range(<<j>>) = {j}
    BY DEF Range
  <2>2. /\ \A i \in Range(<<j>>) : out[i] = "new" /\ \A t \in Threads : tjob[t] # i
        /\ Put(<<j>>) /\ PutOut(<<j>>)
        /\ UNCHANGED <<loop, stopping, active, thread, tries, failures, dead>>
        /\ (\E w \in Workers : Spawn(w)) \/ UNCHANGED <<mloop, task, worker>>
    BY <1>1, <2>1 DEF Enqueue
  <2>3. count' \in Int
    BY <1>1 DEF Enqueue, JInv, Shape
  <2>4. \E i \in Jobs : <<j>> = <<i>>
    OBVIOUS
  <2> DEFINE s == <<j>>
  <2> HIDE DEF s
  <2> QED
    BY <2>2, <2>3, <2>4, PutsKeep DEF s
<1>2. ASSUME Start PROVE JInv'
  <2>1. \A i \in Range(<<>>) : out[i] = "new" /\ \A t \in Threads : tjob[t] # i
    BY NoneHeld
  <2>2. /\ Put(<<>>) /\ PutOut(<<>>)
        /\ UNCHANGED <<loop, stopping, active, thread, tries, failures, dead>>
        /\ \E w \in Workers : Spawn(w)
        /\ count' = count
    BY <1>2 DEF Start, counts
  <2>3. count' \in Int
    BY <2>2 DEF JInv, Shape
  <2> QED
    BY <2>1, <2>2, <2>3, PutsKeep
<1>3. ASSUME NEW w \in Workers, Succeed(w) PROVE JInv'
  <2>1. wpc[w] = "run" /\ out' = [out EXCEPT ![hand[w]] = "done"] /\ Settle(w) /\ UNCHANGED <<failures, dead>>
    BY <1>3 DEF Succeed
  <2>2. failures' \in Seq(Jobs) /\ dead' \in Seq(Jobs) /\ DeadLetterLatest'
    BY <2>1 DEF JInv, Shape, HistoryOK, DeadLetterLatest
  <2> QED
    BY <2>1, <2>2, SettleKeeps
<1>4. ASSUME NEW w \in Workers, GiveUp(w) PROVE JInv'
  <2>1. /\ wpc[w] = "run" /\ out' = [out EXCEPT ![hand[w]] = "failed"] /\ Settle(w)
        /\ tries[hand[w]] >= MaxAttempts /\ failures' = Append(failures, hand[w])
        /\ LET all == Append(dead, hand[w]) IN
             dead' = IF Len(all) > DeadLetterLimit THEN Tail(all) ELSE all
    BY <1>4 DEF GiveUp
  <2>2. hand[w] \in Jobs
    BY <2>1, InHand
  <2>3. tries[hand[w]] = MaxAttempts
    BY <2>1, <2>2 DEF JInv, RetriedThrice, HistoryOK
  <2>4. failures' \in Seq(Jobs) /\ dead' \in Seq(Jobs) /\ DeadLetterLatest'
    <3>1. DeadLetterLatest /\ failures \in Seq(Jobs)
      BY DEF JInv, HistoryOK
    <3> QED
      BY <2>1, <2>2, <3>1, LatestFailures
  <2> QED
    BY <2>1, <2>3, <2>4, SettleKeeps
<1>5. ASSUME NEW w \in Workers, Die(w) PROVE JInv'
  <2>1. Cancel({w}) /\ UNCHANGED <<loop, mloop, task, stopping>>
    BY <1>5 DEF Die, manager
  <2>2. loop' \in 1..MaxLoops /\ mloop' \in 0..MaxLoops /\ task' \in Workers \cup {None}
        /\ stopping' \in Workers \cup {None} /\ {w} \subseteq Workers
    BY <2>1 DEF JInv, Shape
  <2> QED
    BY <2>1, <2>2, JobCancelKeeps
<1>6. ASSUME NewLoop PROVE JInv'
  <2>1. Cancel(Workers) /\ loop' = loop + 1 /\ loop < MaxLoops /\ stopping' = None /\ UNCHANGED <<mloop, task>>
    BY <1>6 DEF NewLoop
  <2>2. loop' \in 1..MaxLoops /\ mloop' \in 0..MaxLoops /\ task' \in Workers \cup {None}
        /\ stopping' \in Workers \cup {None}
    BY <2>1 DEF JInv, Shape
  <2> QED
    BY <2>1, <2>2, JobCancelKeeps
<1>7. CASE UNCHANGED vars
  <2>1. UNCHANGED <<loop, mloop, task, stopping, qloop, queue, pending, wpc, hand, cancelled, active, count,
                    tpc, tjob, tries, out, failures, dead>>
    BY <1>7 DEF vars, backend, worker, manager, counts, thread, ledger
  <2>2. Shape' /\ HistoryOK' /\ PlacesInv'
    BY <2>1 DEF JInv, Shape, HistoryOK, PlacesInv, Once
  <2>3. HandsInv' /\ TriesInv' /\ RetriedThrice' /\ DeadLetterLatest'
    BY <2>1 DEF JInv, HandsInv, TriesInv, RetriedThrice, DeadLetterLatest
  <2> QED
    BY <2>2, <2>3 DEF JInv
<1> QED
  BY <1>1, <1>2, <1>3, <1>4, <1>5, <1>6, <1>7, TakeKeeps, RetryKeeps, StopKeeps, ResetKeeps, ThreadKeeps,
     AppendKeeps DEF Next, Work

\* The jobs are where the invariant says, in every state.
LEMMA JobsInvariant == Spec => []JInv
BY JobsStart, JobsSteps, PTL DEF Spec

\* The event is set or not.
LEMMA IdleIsSet == Spec => [](idle \in BOOLEAN)
<1>1. Init => idle \in BOOLEAN
  BY DEF Init
<1>2. idle \in BOOLEAN /\ [Next]_vars => (idle \in BOOLEAN)'
  <2> SUFFICES ASSUME idle \in BOOLEAN, [Next]_vars PROVE idle' \in BOOLEAN
    OBVIOUS
  <2> USE Zenon DEF counts
  <2>1. ASSUME NEW j \in Jobs, Enqueue(j) \/ \E t \in Threads : ThreadClear(t, j) PROVE idle' \in BOOLEAN
    BY <2>1 DEF Enqueue, ThreadClear
  <2>2. ASSUME NEW t \in Threads, ThreadCount(t) \/ ThreadAppend(t) PROVE idle' \in BOOLEAN
    BY <2>2 DEF ThreadCount, ThreadAppend
  <2>3. ASSUME NEW w \in Workers, Work(w) PROVE idle' \in BOOLEAN
    BY <2>3 DEF Work, Take, Succeed, Settle, Raise, Retry, GiveUp, Die, Cancel
  <2>4. ASSUME Start \/ Stop \/ Stopped \/ Reset \/ NewLoop PROVE idle' \in BOOLEAN
    BY <2>4 DEF Start, Stop, Stopped, Reset, NewLoop, Cancel
  <2>5. CASE UNCHANGED vars
    BY <2>5 DEF vars
  <2> QED
    BY <2>1, <2>2, <2>3, <2>4, <2>5 DEF Next
<1> QED
  BY <1>1, <1>2, PTL DEF Spec

\* The variables of the manager keep their shape, for any number of jobs,
\* threads, workers and event loops.
THEOREM JobsTyped == Spec => []TypeOK
<1>1. Shape /\ idle \in BOOLEAN => TypeOK
  BY DEF Shape, TypeOK
<1> QED
  BY <1>1, JobsInvariant, IdleIsSet, PTL DEF JInv

\* No job fails for good before its last attempt, or runs after it.
THEOREM JobsRetried == Spec => []RetriedThrice
BY JobsInvariant, PTL DEF JInv

\* The dead-letter list is the latest failures, whatever order they come in.
THEOREM DeadLettersKept == Spec => []DeadLetterLatest
BY JobsInvariant, PTL DEF JInv

\* No job is lost or run by two workers.
THEOREM JobsInOnePlace == Spec => []OnePlace
<1>1. ASSUME JInv PROVE OnePlace
  <2> SUFFICES ASSUME NEW j \in Jobs
               PROVE  Cardinality({<<"queue", i>> : i \in {i \in 1..Len(queue) : queue[i] = j}}
                        \cup {<<"pending", i>> : i \in {i \in 1..Len(pending) : pending[i] = j}}
                        \cup {<<"hand", w>> : w \in {w \in Workers : hand[w] = j}})
                        = IF out[j] = "waiting" THEN 1 ELSE 0
    BY DEF OnePlace
  <2> DEFINE Q == {i \in 1..Len(queue) : queue[i] = j}
             P == {i \in 1..Len(pending) : pending[i] = j}
             W == {w \in Workers : hand[w] = j}
             places == {<<"queue", i>> : i \in Q} \cup {<<"pending", i>> : i \in P} \cup {<<"hand", w>> : w \in W}
  <2>1. /\ queue \in Seq(Jobs) /\ pending \in Seq(Jobs) /\ Once(queue) /\ Once(pending)
        /\ Range(queue) = {queue[i] : i \in 1..Len(queue)}
        /\ Range(pending) = {pending[i] : i \in 1..Len(pending)}
    BY <1>1, RangeEquality DEF JInv, Shape, PlacesInv
  <2>2. (Q # {}) = (j \in Range(queue)) /\ (P # {}) = (j \in Range(pending))
    BY <2>1
  <2>3. /\ \A i, k \in Q : i = k
        /\ \A i, k \in P : i = k
        /\ \A v, w \in W : v = w
    BY <1>1, <2>1 DEF Once, JInv, PlacesInv
  <2>4. /\ out[j] = "waiting" => Q # {} \/ P # {} \/ W # {}
        /\ out[j] # "waiting" => Q = {} /\ P = {} /\ W = {}
        /\ Q # {} => P = {} /\ W = {}
        /\ P # {} => Q = {} /\ W = {}
    BY <1>1, <2>2 DEF JInv, PlacesInv
  <2> HIDE DEF Q, P, W
  <2>5. ASSUME out[j] # "waiting" PROVE Cardinality(places) = 0
    <3>1. places = {}
      BY <2>4, <2>5
    <3> HIDE DEF places
    <3> QED
      BY <3>1, FS_EmptySet
  <2>6. ASSUME out[j] = "waiting" PROVE Cardinality(places) = 1
    <3>1. \E x : places = {x}
      <4>1. CASE Q # {}
        <5>1. PICK i \in Q : TRUE
          BY <4>1
        <5>2. places = {<<"queue", i>>}
          BY <2>3, <2>4, <4>1, <5>1
        <5> QED
          BY <5>2
      <4>2. CASE P # {}
        <5>1. PICK i \in P : TRUE
          BY <4>2
        <5>2. places = {<<"pending", i>>}
          BY <2>3, <2>4, <4>2, <5>1
        <5> QED
          BY <5>2
      <4>3. CASE Q = {} /\ P = {}
        <5>1. PICK w \in W : TRUE
          BY <2>4, <2>6, <4>3
        <5>2. places = {<<"hand", w>>}
          BY <2>3, <4>3, <5>1
        <5> QED
          BY <5>2
      <4> QED
        BY <4>1, <4>2, <4>3
    <3> HIDE DEF places
    <3> QED
      BY <3>1, FS_Singleton
  <2> HIDE DEF places
  <2>7. Cardinality(places) = IF out[j] = "waiting" THEN 1 ELSE 0
    BY <2>5, <2>6
  <2> QED
    BY <2>7 DEF places, Q, P, W
<1> QED
  BY <1>1, JobsInvariant, PTL

-----------------------------------------------------------------------------
\* Workers that have a job.
Holding == {w \in Workers : hand[w] # None}

\* The counters never fall below what is there, and are 0 when the event is set.
Counters ==
  /\ pending = <<>> /\ Len(queue) <= count
  /\ IsFiniteSet(Holding) /\ Cardinality(Holding) <= active
  /\ idle => count = 0 /\ active = 0
  /\ resetting = FALSE

\* The counters start with nothing.
LEMMA CountersStart == Init => Counters
<1> SUFFICES ASSUME Init PROVE Counters
  OBVIOUS
<1>1. Holding = {} /\ Len(queue) = 0 /\ pending = <<>> /\ count = 0 /\ active = 0
  BY DEF Init, Holding
<1> QED
  BY <1>1, FS_EmptySet DEF Counters, Init

\* What a put adds to the queue is what the counter gets.
LEMMA PutCounts ==
  ASSUME JInv, Counters, NEW s \in Seq(Jobs), Put(s), count' = count + Len(s)
  PROVE  pending' = <<>> /\ Len(queue') <= count'
<1>1. queue \in Seq(Jobs) /\ pending \in Seq(Jobs) /\ pending = <<>> /\ Len(queue) <= count /\ count \in Int
  BY DEF JInv, Shape, Counters
<1>2. CASE qloop = loop
  <2>1. queue' = queue \o s /\ pending' = pending
    BY <1>2 DEF Put
  <2>2. Len(queue') = Len(queue) + Len(s)
    BY <1>1, <2>1, ConcatProperties
  <2> QED
    BY <1>1, <2>1, <2>2, LenProperties
<1>3. CASE qloop # loop
  <2>1. queue' = pending \o s /\ pending' = <<>>
    BY <1>3 DEF Put
  <2>2. Len(queue') = Len(pending) + Len(s) /\ Len(pending) = 0
    BY <1>1, <2>1, ConcatProperties
  <2> QED
    BY <1>1, <2>1, <2>2, LenProperties
<1> QED
  BY <1>2, <1>3

\* Where only the loop enqueues and nothing is reset, every step keeps the counters.
LEMMA CountersSteps ==
  ASSUME Threads = {}, Resets = FALSE
  PROVE  JInv /\ Counters /\ [Next]_vars => Counters'
<1> SUFFICES ASSUME JInv, Counters, [Next]_vars PROVE Counters'
  OBVIOUS
<1>0. /\ active \in Int /\ count \in Int /\ queue \in Seq(Jobs) /\ Len(queue) \in Nat
      /\ IsFiniteSet(Holding) /\ Cardinality(Holding) \in Nat
      /\ resetting = FALSE /\ pending = <<>>
      /\ Len(queue) <= count /\ Cardinality(Holding) <= active
  BY FS_CardinalityType, LenProperties DEF JInv, Shape, Counters
<1>1. ASSUME NEW j \in Jobs, Enqueue(j) PROVE Counters'
  <2>1. Put(<<j>>) /\ count' = count + 1 /\ hand' = hand /\ active' = active /\ resetting' = resetting
    BY <1>1 DEF Enqueue, Spawn, worker
  <2>2. ~idle'
    BY <1>1, Zenon DEF Enqueue
  <2>3. <<j>> \in Seq(Jobs) /\ Len(<<j>>) = 1
    OBVIOUS
  <2>4. pending' = <<>> /\ Len(queue') <= count'
    BY <2>1, <2>3, PutCounts
  <2>5. Holding' = Holding
    BY <2>1 DEF Holding
  <2> QED
    BY <1>0, <2>1, <2>2, <2>4, <2>5 DEF Counters
<1>2. ASSUME Start PROVE Counters'
  <2>1. Put(<<>>) /\ count' = count /\ hand' = hand /\ active' = active /\ resetting' = resetting
    BY <1>2 DEF Start, Spawn, counts
  <2>2. idle' => idle
    BY <1>2, Zenon DEF Start, counts
  <2>3. <<>> \in Seq(Jobs) /\ count' = count + Len(<<>>)
    BY <1>0, <2>1, NoneHeld
  <2>4. pending' = <<>> /\ Len(queue') <= count'
    BY <2>1, <2>3, PutCounts
  <2>5. Holding' = Holding
    BY <2>1 DEF Holding
  <2> QED
    BY <1>0, <2>1, <2>2, <2>4, <2>5 DEF Counters
<1>3. ASSUME NEW w \in Workers, Take(w) PROVE Counters'
  <2>1. /\ queue # <<>> /\ wpc[w] = "get" /\ hand' = [hand EXCEPT ![w] = Head(queue)] /\ queue' = Tail(queue)
        /\ count' = count - 1 /\ active' = active + 1 /\ pending' = pending /\ resetting' = resetting
    BY <1>3 DEF Take, manager
  <2>2. idle' => idle
    BY <1>3, Zenon DEF Take
  <2>3. Head(queue) # None /\ hand[w] = None /\ Len(queue') = Len(queue) - 1 /\ Len(queue) > 0
    BY <1>0, <2>1, OneLess DEF JInv, HandsInv
  <2>4. Holding' = Holding \cup {w} /\ w \notin Holding
    BY <2>1, <2>3 DEF Holding, JInv, Shape
  <2>5. IsFiniteSet(Holding') /\ Cardinality(Holding') = Cardinality(Holding) + 1
    BY <1>0, <2>4, FS_AddElement
  <2>6. ~idle
    BY <1>0, <2>3 DEF Counters
  <2>7. /\ pending' = <<>> /\ Len(queue') <= count' /\ Cardinality(Holding') <= active' /\ resetting' = FALSE
    BY <1>0, <2>1, <2>3, <2>5
  <2> QED
    BY <2>2, <2>5, <2>6, <2>7 DEF Counters
<1>4. ASSUME NEW w \in Workers, Succeed(w) \/ GiveUp(w) PROVE Counters'
  <2>1. /\ wpc[w] = "run" /\ hand' = [hand EXCEPT ![w] = None] /\ active' = active - 1
        /\ UNCHANGED <<queue, pending, count, resetting>>
    BY <1>4 DEF Succeed, GiveUp, Settle, backend, manager
  <2>2. idle' => idle \/ (active' = 0 /\ count = 0)
    BY <1>4, Zenon DEF Succeed, GiveUp, Settle
  <2>3. Holding' = Holding \ {w} /\ w \in Holding
    BY <2>1 DEF Holding, JInv, Shape, HandsInv
  <2>4. IsFiniteSet(Holding') /\ Cardinality(Holding') = Cardinality(Holding) - 1
    BY <1>0, <2>3, FS_RemoveElement
  <2>5. Cardinality(Holding) # 0
    BY <1>0, <2>3, FS_EmptySet
  <2>6. ~idle
    BY <1>0, <2>5 DEF Counters
  <2>7. /\ pending' = <<>> /\ Len(queue') <= count' /\ Cardinality(Holding') <= active' /\ resetting' = FALSE
        /\ count' = count
    BY <1>0, <2>1, <2>4
  <2> QED
    BY <2>2, <2>4, <2>6, <2>7 DEF Counters
<1>5. ASSUME NEW w \in Workers, Raise(w) \/ Retry(w) PROVE Counters'
  <2>1. UNCHANGED <<queue, pending, hand, count, active, resetting>>
    BY <1>5 DEF Raise, Retry, backend, manager, counts
  <2>2. idle' => idle
    BY <1>5, Zenon DEF Raise, Retry, counts
  <2>3. Holding' = Holding
    BY <2>1 DEF Holding
  <2> QED
    BY <1>0, <2>1, <2>2, <2>3 DEF Counters
<1>6. ASSUME NEW W, W \subseteq Workers, Cancel(W), resetting' = FALSE PROVE Counters'
  <2>1. /\ hand' = [w \in Workers |-> IF w \in W THEN None ELSE hand[w]]
        /\ UNCHANGED <<queue, pending, count, active>>
    BY <1>6 DEF Cancel, backend, counts
  <2>2. idle' => idle
    BY <1>6, Zenon DEF Cancel, counts
  <2>3. Holding' \subseteq Holding
    BY <2>1 DEF Holding
  <2>4. IsFiniteSet(Holding') /\ Cardinality(Holding') <= Cardinality(Holding)
    BY <1>0, <2>3, FS_Subset
  <2>5. Cardinality(Holding') \in Nat
    BY <2>4, FS_CardinalityType
  <2> QED
    BY <1>0, <1>6, <2>1, <2>2, <2>4, <2>5 DEF Counters
<1>7. ASSUME NEW w \in Workers, Die(w) PROVE Counters'
  BY <1>0, <1>6, <1>7 DEF Die, manager
<1>8. ASSUME NewLoop PROVE Counters'
  BY <1>6, <1>8 DEF NewLoop
<1>9. ASSUME Stop PROVE Counters'
  <2>1. UNCHANGED <<queue, pending, hand, count, active>>
    BY <1>9 DEF Stop, backend, counts
  <2>2. idle' => idle
    BY <1>9, Zenon DEF Stop, counts
  <2>3. resetting' = FALSE
    BY <1>9 DEF Stop
  <2>4. Holding' = Holding
    BY <2>1 DEF Holding
  <2> QED
    BY <1>0, <2>1, <2>2, <2>3, <2>4 DEF Counters
<1>10. ASSUME Stopped PROVE Counters'
  <2>1. UNCHANGED <<queue, pending, hand, count, active, resetting>>
    BY <1>10 DEF Stopped, backend, worker
  <2>2. idle' => idle \/ (count = 0 /\ active = 0)
    BY <1>10, Zenon DEF Stopped
  <2>3. Holding' = Holding
    BY <2>1 DEF Holding
  <2> QED
    BY <1>0, <2>1, <2>2, <2>3 DEF Counters
<1>11. ASSUME Reset PROVE Counters'
  BY <1>0, <1>11 DEF Reset
<1>12. CASE UNCHANGED vars
  <2>1. UNCHANGED <<queue, pending, hand, count, active, resetting>>
    BY <1>12 DEF vars, backend, worker, counts, manager
  <2>2. idle' => idle
    BY <1>12, Zenon DEF vars, counts
  <2>3. Holding' = Holding
    BY <2>1 DEF Holding
  <2> QED
    BY <1>0, <2>1, <2>2, <2>3 DEF Counters
<1> QED
  BY <1>1, <1>2, <1>3, <1>4, <1>5, <1>7, <1>8, <1>9, <1>10, <1>11, <1>12 DEF Next, Work

\* wait_until_idle returns only when no job is waiting or running, where every
\* caller of enqueue is on the loop and nothing calls reset: so it is outside
\* the test suite.
THEOREM IdleOnTheLoop ==
  ASSUME Threads = {}, Resets = FALSE
  PROVE  Spec => []IdleMeansEmpty
<1>1. ASSUME JInv, Counters PROVE IdleMeansEmpty
  <2> SUFFICES ASSUME idle PROVE \A j \in Jobs : out[j] # "waiting"
    BY DEF IdleMeansEmpty
  <2>1. /\ queue \in Seq(Jobs) /\ Len(queue) <= 0 /\ pending = <<>>
        /\ IsFiniteSet(Holding) /\ Cardinality(Holding) <= 0
    BY <1>1 DEF Counters, JInv, Shape
  <2>2. queue = <<>>
    BY <2>1, EmptySeq
  <2>3. Range(queue) = {} /\ Range(pending) = {}
    BY <2>1, <2>2, NoneHeld
  <2>4. Holding = {}
    BY <2>1, FS_EmptySet, FS_CardinalityType
  <2>5. \A w \in Workers : \A j \in Jobs : hand[w] # j
    BY <2>4 DEF Holding
  <2> QED
    BY <1>1, <2>3, <2>5 DEF JInv, PlacesInv
<1>2. Spec => []Counters
  <2>1. Init => Counters
    BY CountersStart
  <2>2. JInv /\ Counters /\ [Next]_vars => Counters'
    BY CountersSteps
  <2> QED
    BY <2>1, <2>2, JobsInvariant, PTL DEF Spec
<1> QED
  BY <1>1, <1>2, JobsInvariant, PTL

-----------------------------------------------------------------------------

\* All of what the contract sees.
jobsSeen == <<out, Running, tries>>

\* At the start nothing is accepted and nothing runs.
LEMMA InitContract == Init => Contract!Init
BY DEF Init, Contract!Init, Running

\* Where nothing happens to workers at work, what runs is the same.
LEMMA RunningStays ==
  ASSUME UNCHANGED hand, \A v \in Workers : wpc'[v] = "run" <=> wpc[v] = "run"
  PROVE  Running' = Running
BY DEF Running

\* The jobs that run are in hands, wait, and are in no queue.
LEMMA RunningJobs ==
  ASSUME JInv, NEW j \in Running
  PROVE  j \in Jobs /\ out[j] = "waiting" /\ j \notin Range(queue) \cup Range(pending)
<1>1. PICK w \in Workers : wpc[w] = "run" /\ j = hand[w]
  BY DEF Running
<1> QED
  BY <1>1, InHand

\* A worker begins a run of the job it then has.
LEMMA RunBegins ==
  ASSUME JInv, NEW w \in Workers, NEW h \in Jobs, wpc[w] # "run", wpc' = [wpc EXCEPT ![w] = "run"],
         hand'[w] = h, \A v \in Workers \ {w} : hand'[v] = hand[v]
  PROVE  Running' = Running \cup {h}
<1>1. wpc'[w] = "run" /\ \A v \in Workers \ {w} : wpc'[v] = wpc[v]
  BY DEF JInv, Shape
<1> QED
  BY <1>1 DEF Running

\* A worker that leaves its run, alone with its job, ends it.
LEMMA RunEnds ==
  ASSUME JInv, NEW w \in Workers, wpc[w] = "run", wpc'[w] # "run",
         \A v \in Workers \ {w} : hand'[v] = hand[v] /\ wpc'[v] = wpc[v]
  PROVE  hand[w] \in Running /\ Running' = Running \ {hand[w]}
<1>1. \A v \in Workers \ {w} : hand[v] # hand[w]
  BY InHand
<1> QED
  BY <1>1 DEF Running

\* A put of a job accepts it, and drops what an older loop's queue held.
LEMMA PutContract ==
  ASSUME JInv, PutOut(<<>>) \/ \E j \in Jobs : PutOut(<<j>>) /\ out[j] = "new",
         UNCHANGED <<hand, tries>>, \A v \in Workers : wpc'[v] = "run" <=> wpc[v] = "run"
  PROVE  Contract!Next
<1> DEFINE D == IF qloop # loop THEN Range(queue) ELSE {}
<1>1. Running' = Running
  BY RunningStays
<1>2. D \in SUBSET Jobs /\ D \subseteq Contract!Waiting \ Running
  <2>1. Range(queue) \subseteq Jobs /\ \A j \in Range(queue) : out[j] = "waiting"
    BY HeldAreJobs DEF JInv, Shape, PlacesInv
  <2>2. \A j \in Running : j \notin Range(queue)
    BY RunningJobs
  <2> QED
    BY <2>1, <2>2 DEF Contract!Waiting
<1>3. CASE PutOut(<<>>)
  <2>1. out' = Contract!Without(D)
    BY <1>3, NoneHeld DEF PutOut, Contract!Without
  <2>2. Running' = Running \ D
    BY <1>1, <1>2
  <2> HIDE DEF D
  <2>3. Contract!Drop(D)
    BY <1>2, <2>1, <2>2 DEF Contract!Drop
  <2> QED
    BY <1>2, <2>3 DEF Contract!Next
<1>4. ASSUME NEW j \in Jobs, PutOut(<<j>>), out[j] = "new" PROVE Contract!Next
  <2> DEFINE s == <<j>>
  <2>1. Range(s) = {j}
    BY DEF Range
  <2>2. PutOut(s)
    BY <1>4
  <2> HIDE DEF s
  <2>3. ASSUME NEW i \in Jobs
        PROVE  out'[i] = IF i = j THEN "waiting" ELSE IF i \in D THEN "dropped" ELSE out[i]
    <3>1. out'[i] = CASE i \in Range(s) -> "waiting"
                      [] qloop # loop /\ i \in Range(queue) -> "dropped"
                      [] OTHER -> out[i]
      BY <2>2 DEF PutOut
    <3>2. j \notin Range(queue)
      BY <1>4 DEF JInv, PlacesInv
    <3>3. i \in D <=> qloop # loop /\ i \in Range(queue)
      OBVIOUS
    <3> HIDE DEF D
    <3>4. CASE i = j
      BY <2>1, <3>1, <3>2, <3>4
    <3>5. CASE i # j /\ i \in D
      <4>1. i \notin Range(s) /\ qloop # loop /\ i \in Range(queue)
        BY <2>1, <3>3, <3>5
      <4> QED
        BY <3>1, <3>5, <4>1
    <3>6. CASE i # j /\ i \notin D
      <4>1. i \notin Range(s) /\ ~(qloop # loop /\ i \in Range(queue))
        BY <2>1, <3>3, <3>6
      <4> QED
        BY <3>1, <3>6, <4>1
    <3> QED
      BY <3>4, <3>5, <3>6
  <2>4. out' = [i \in Jobs |-> out'[i]]
    BY <2>2 DEF PutOut
  <2> HIDE DEF D
  <2>5. out' = [Contract!Without(D) EXCEPT ![j] = "waiting"]
    BY <2>3, <2>4 DEF Contract!Without
  <2>6. Contract!Accept(j, D)
    BY <1>1, <1>2, <1>4, <2>5 DEF Contract!Accept
  <2> QED
    BY <1>2, <2>6 DEF Contract!Next
<1> QED
  BY <1>3, <1>4

\* A job is taken, or taken up again, to be run.
LEMMA RunContract ==
  ASSUME JInv, NEW w \in Workers, Take(w) \/ Retry(w)
  PROVE  Contract!Next
<1>1. CASE Take(w)
  <2> DEFINE h == Head(queue)
  <2>1. /\ queue \in Seq(Jobs) /\ queue # <<>> /\ wpc[w] = "get" /\ wpc' = [wpc EXCEPT ![w] = "run"]
        /\ hand' = [hand EXCEPT ![w] = h] /\ tries' = [tries EXCEPT ![h] = @ + 1] /\ out' = out
    BY <1>1 DEF Take, JInv, Shape
  <2>2. h \in Jobs /\ h \in Range(queue)
    BY <2>1, OneLess DEF JInv, PlacesInv
  <2> HIDE DEF h
  <2>3. out[h] = "waiting" /\ tries[h] = 0 /\ h \notin Running
    BY <2>2, RunningJobs DEF JInv, PlacesInv, TriesInv
  <2>4. hand'[w] = h /\ \A v \in Workers \ {w} : hand'[v] = hand[v]
    BY <2>1, <2>2 DEF JInv, Shape
  <2>5. Running' = Running \cup {h}
    BY <2>1, <2>2, <2>4, RunBegins
  <2>6. Contract!Run(h)
    BY <2>1, <2>2, <2>3, <2>5 DEF Contract!Run, Contract!Waiting
  <2> QED
    BY <2>2, <2>6 DEF Contract!Next
<1>2. CASE Retry(w)
  <2> DEFINE h == hand[w]
  <2>1. /\ wpc[w] = "sleep" /\ wpc' = [wpc EXCEPT ![w] = "run"] /\ UNCHANGED <<hand, out>>
        /\ tries' = [tries EXCEPT ![h] = @ + 1]
    BY <1>2 DEF Retry
  <2>2. h \in Jobs /\ out[h] = "waiting" /\ \A v \in Workers \ {w} : hand[v] # h
    BY <2>1, InHand
  <2>3. tries[h] < MaxAttempts /\ h \notin Running
    BY <2>1, <2>2 DEF JInv, TriesInv, Running
  <2>4. Running' = Running \cup {h}
    BY <2>1, <2>2, RunBegins
  <2> HIDE DEF h
  <2>5. Contract!Run(h)
    BY <2>1, <2>2, <2>3, <2>4 DEF Contract!Run, Contract!Waiting
  <2> QED
    BY <2>2, <2>5 DEF Contract!Next
<1> QED
  BY <1>1, <1>2

\* A run ends.
LEMMA EndContract ==
  ASSUME JInv, NEW w \in Workers, Succeed(w) \/ Raise(w) \/ GiveUp(w)
  PROVE  Contract!Next
<1> DEFINE h == hand[w]
<1>1. wpc[w] = "run" /\ tries' = tries
  BY DEF Succeed, Raise, GiveUp, Settle, ledger
<1>2. h \in Jobs
  BY <1>1, InHand
<1>3. wpc'[w] # "run" /\ \A v \in Workers \ {w} : hand'[v] = hand[v] /\ wpc'[v] = wpc[v]
  BY DEF Succeed, Raise, GiveUp, Settle, JInv, Shape
<1>4. h \in Running /\ Running' = Running \ {h}
  BY <1>1, <1>3, RunEnds
<1>5. CASE Succeed(w)
  <2>1. out' = [out EXCEPT ![h] = "done"]
    BY <1>5 DEF Succeed
  <2> HIDE DEF h
  <2> QED
    BY <1>1, <1>2, <1>4, <2>1 DEF Contract!Next, Contract!Succeed
<1>6. CASE Raise(w)
  <2>1. out' = out /\ tries[h] < MaxAttempts
    BY <1>6 DEF Raise, ledger
  <2> HIDE DEF h
  <2>2. Contract!Raise(h)
    BY <1>1, <1>4, <2>1 DEF Contract!Raise
  <2> QED
    BY <1>2, <2>2 DEF Contract!Next
<1>7. CASE GiveUp(w)
  <2>1. out' = [out EXCEPT ![h] = "failed"] /\ tries[h] >= MaxAttempts
    BY <1>7 DEF GiveUp
  <2>2. ~(tries[h] < MaxAttempts)
    BY <1>2, <2>1 DEF JInv, HistoryOK
  <2> HIDE DEF h
  <2>3. Contract!Raise(h)
    BY <1>1, <1>4, <2>1, <2>2 DEF Contract!Raise
  <2> QED
    BY <1>2, <2>3 DEF Contract!Next
<1> QED
  BY <1>5, <1>6, <1>7

\* Cancelled workers drop what they hold.
LEMMA CancelContract == ASSUME JInv, NEW W, W \subseteq Workers, Cancel(W) PROVE Contract!Next
<1> DEFINE D == {j \in Jobs : \E w \in W : hand[w] = j}
<1>1. /\ out' = Contract!Without(D) /\ tries' = tries
  BY DEF Cancel, Contract!Without
<1>2. D \subseteq Contract!Waiting
  BY DEF JInv, PlacesInv, Contract!Waiting
<1>3. Running' = Running \ D
  <2>1. \A w \in Workers : IF w \in W THEN wpc'[w] = "done" ELSE wpc'[w] = wpc[w] /\ hand'[w] = hand[w]
    BY DEF Cancel
  <2>2. \A w \in Workers : wpc[w] = "run" => /\ hand[w] \in Jobs
                                             /\ \A v \in Workers : hand[v] = hand[w] => v = w
    BY InHand
  <2> QED
    BY <2>1, <2>2 DEF Running
<1> HIDE DEF D
<1>4. Contract!Drop(D)
  BY <1>1, <1>2, <1>3 DEF Contract!Drop
<1>5. D \in SUBSET Jobs
  BY DEF D
<1> QED
  BY <1>4, <1>5 DEF Contract!Next

\* A reset drops what the queues hold, and nothing that runs.
LEMMA ResetContract == ASSUME JInv, Reset PROVE Contract!Next
<1> DEFINE D == Range(queue) \cup Range(pending)
<1>1. Range(queue \o pending) = D
  BY RangeConcatenation DEF JInv, Shape
<1>2. /\ out' = [j \in Jobs |-> IF j \in Range(queue \o pending) THEN "dropped" ELSE out[j]]
      /\ UNCHANGED <<wpc, hand, tries>>
  BY DEF Reset, worker
<1>3. D \in SUBSET Jobs /\ D \subseteq Contract!Waiting
  BY HeldAreJobs DEF JInv, Shape, PlacesInv, Contract!Waiting
<1>4. Running' = Running \ D
  BY <1>2, RunningStays, RunningJobs
<1>5. out' = Contract!Without(D)
  BY <1>1, <1>2 DEF Contract!Without
<1> HIDE DEF D
<1>6. Contract!Drop(D)
  BY <1>2, <1>3, <1>4, <1>5 DEF Contract!Drop
<1> QED
  BY <1>3, <1>6 DEF Contract!Next

\* Of what a thread does the contract sees the end: the job is accepted.
LEMMA ThreadContract ==
  ASSUME JInv, NEW t \in Threads, ThreadCount(t) \/ ThreadAppend(t) \/ \E j \in Jobs : ThreadClear(t, j)
  PROVE  [Contract!Next]_jobsSeen
<1>1. UNCHANGED <<hand, wpc, tries>>
  BY DEF ThreadCount, ThreadAppend, ThreadClear, worker, ledger
<1>2. Running' = Running
  BY <1>1, RunningStays
<1>3. CASE ~ThreadAppend(t)
  BY <1>1, <1>2, <1>3 DEF ThreadCount, ThreadClear, ledger, jobsSeen
<1>4. CASE ThreadAppend(t)
  <2> DEFINE j == tjob[t]
  <2>1. out' = [out EXCEPT ![j] = "waiting"] /\ tpc[t] = "append"
    BY <1>4 DEF ThreadAppend
  <2>2. j \in Jobs /\ out[j] = "new"
    BY <2>1 DEF JInv, HandsInv, HistoryOK
  <2>3. out = Contract!Without({})
    BY DEF Contract!Without, JInv, HistoryOK
  <2> HIDE DEF j
  <2>4. Contract!Accept(j, {})
    BY <1>1, <1>2, <2>1, <2>2, <2>3 DEF Contract!Accept
  <2> QED
    BY <2>2, <2>4 DEF Contract!Next
<1> QED
  BY <1>3, <1>4

\* Every step is one of the contract, or is not seen.
LEMMA NextContract == JInv /\ [Next]_vars => [Contract!Next]_jobsSeen
<1> SUFFICES ASSUME JInv, [Next]_vars PROVE [Contract!Next]_jobsSeen
  OBVIOUS
<1>1. ASSUME NEW j \in Jobs, Enqueue(j) PROVE Contract!Next
  <2>1. PutOut(<<j>>) /\ out[j] = "new" /\ UNCHANGED <<hand, tries>>
    BY <1>1 DEF Enqueue, Spawn, worker
  <2>2. \A v \in Workers : wpc'[v] = "run" <=> wpc[v] = "run"
    BY <1>1 DEF Enqueue, Spawn, Live, worker, JInv, Shape
  <2> QED
    BY <2>1, <2>2, PutContract
<1>2. ASSUME Start PROVE Contract!Next
  <2>1. PutOut(<<>>) /\ UNCHANGED <<hand, tries>>
    BY <1>2 DEF Start, Spawn
  <2>2. \A v \in Workers : wpc'[v] = "run" <=> wpc[v] = "run"
    BY <1>2 DEF Start, Spawn, Live, JInv, Shape
  <2> QED
    BY <2>1, <2>2, PutContract
<1>3. ASSUME NEW w \in Workers, Die(w) PROVE Contract!Next
  BY <1>3, CancelContract DEF Die
<1>4. ASSUME NewLoop PROVE Contract!Next
  BY <1>4, CancelContract DEF NewLoop
<1>5. ASSUME Stop \/ Stopped PROVE UNCHANGED jobsSeen
  <2>1. UNCHANGED <<wpc, hand, out, tries>>
    BY <1>5 DEF Stop, Stopped, worker, ledger
  <2> QED
    BY <2>1, RunningStays DEF jobsSeen
<1>6. CASE UNCHANGED vars
  <2>1. UNCHANGED <<wpc, hand, out, tries>>
    BY <1>6 DEF vars, worker, ledger
  <2> QED
    BY <2>1, RunningStays DEF jobsSeen
<1> QED
  BY <1>1, <1>2, <1>3, <1>4, <1>5, <1>6, RunContract, EndContract, ResetContract, ThreadContract DEF Next, Work

\* The manager implements JobContract, for any number of jobs, workers, threads
\* and event loops, whatever is stopped, started and reset: a job is run by one
\* worker at a time, at most MaxAttempts times, and never once it has ended.
THEOREM ManagerImplementsContract == Spec => ImplementsContract
BY InitContract, NextContract, JobsInvariant, PTL DEF Spec, ImplementsContract, Contract!Spec, jobsSeen
=============================================================================
