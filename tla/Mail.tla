---------------------------------- MODULE Mail ----------------------------------
(***************************************************************************)
(* Mail over SMTP.  A verification or reset mail is a background job that  *)
(* the worker tries up to three times, one job after the other; a welcome  *)
(* mail is tried once, by the request that registers the user.  They share *)
(* one circuit breaker: three failures of the server in a row, and for     *)
(* sixty seconds nothing is sent.                                          *)
(*                                                                         *)
(* A send blocks the event loop, so sends do not overlap; others fall into *)
(* the pauses between the tries of a job.                                  *)
(***************************************************************************)
EXTENDS Naturals, FiniteSets, Optional

CONSTANTS Mails,
          Tries,             \* retries=2
          FailureThreshold,  \* 3
          ResetTimeout,      \* 60 seconds
          LastMoment         \* bound of the clock

ASSUME MailAssumption ==
  /\ None \notin Mails /\ Tries \in Nat \ {0} /\ FailureThreshold \in Nat \ {0}
  /\ ResetTimeout \in Nat \ {0} /\ LastMoment \in Nat \ {0}

VARIABLES
  moment,                  \* time.monotonic()
  failureCount, openedAt,  \* the breaker; openedAt is 0 for None
  letter,                  \* where a mail is
  carrying,                \* the mail whose job the worker runs
  tried,                   \* the tries that job has had
  lastFailure,             \* history: when the server last failed
  inARow,                  \* history: its failures since it last took a mail
  lostAt                   \* history: for a mail given up, when, and the last failure then

mvars   == <<moment, failureCount, openedAt, letter, carrying, tried, lastFailure, inARow, lostAt>>
breaker == <<failureCount, openedAt, lastFailure, inARow>>

MailInit ==
  /\ moment = 1 /\ failureCount = 0 /\ openedAt = 0 /\ carrying = None /\ tried = 0
  /\ letter = [m \in Mails |-> "new"] /\ lastFailure = 0 /\ inARow = 0
  /\ lostAt = [m \in Mails |-> <<0, 0>>]

-----------------------------------------------------------------------------
MomentPasses ==
  /\ moment < LastMoment /\ moment' = moment + 1
  /\ UNCHANGED <<breaker, letter, carrying, tried, lostAt>>

\* The reset or verification token is stored and the mail enqueued.
EnqueueMail(m) ==
  /\ letter[m] = "new" /\ letter' = [letter EXCEPT ![m] = "queued"]
  /\ UNCHANGED <<moment, breaker, carrying, tried, lostAt>>

\* The worker takes a job.
CarryMail(m) ==
  /\ letter[m] = "queued" /\ carrying = None /\ carrying' = m /\ tried' = 0
  /\ UNCHANGED <<moment, breaker, letter, lostAt>>

\* Mutant of IsOpen: an open breaker stays open.
IsOpenForGood == openedAt # 0

\* _is_open
IsOpen == openedAt # 0 /\ moment - openedAt < ResetTimeout

\* before_call, the session with the server, and record_success or
\* record_failure; sent tells how it ended.
Send(sent) ==
  \/ /\ IsOpen /\ ~sent /\ UNCHANGED breaker
  \/ /\ ~IsOpen /\ sent
     /\ failureCount' = 0 /\ openedAt' = 0 /\ inARow' = 0 /\ UNCHANGED lastFailure
  \/ /\ ~IsOpen /\ ~sent
     /\ failureCount' = (IF openedAt # 0 THEN 0 ELSE failureCount) + 1
     /\ openedAt' = IF failureCount' >= FailureThreshold THEN moment ELSE 0
     /\ lastFailure' = moment /\ inARow' = inARow + 1

Lost(m) == /\ letter' = [letter EXCEPT ![m] = "lost"]
           /\ lostAt' = [lostAt EXCEPT ![m] = <<moment, lastFailure'>>]

\* A try of the job: it is done, has another try, or is a dead letter.
TryMail(m) ==
  /\ carrying = m /\ tried' = tried + 1 /\ UNCHANGED moment
  /\ \/ Send(TRUE) /\ letter' = [letter EXCEPT ![m] = "sent"] /\ carrying' = None /\ UNCHANGED lostAt
     \/ Send(FALSE) /\ tried' < Tries /\ UNCHANGED <<letter, carrying, lostAt>>
     \/ Send(FALSE) /\ tried' = Tries /\ Lost(m) /\ carrying' = None

\* The welcome mail: an exception ends the registration.
SendWelcome(m) ==
  /\ letter[m] = "new" /\ UNCHANGED <<moment, carrying, tried>>
  /\ \/ Send(TRUE) /\ letter' = [letter EXCEPT ![m] = "sent"] /\ UNCHANGED lostAt
     \/ Send(FALSE) /\ Lost(m)

MailStep(m) == CarryMail(m) \/ TryMail(m)

MailNext == MomentPasses \/ \E m \in Mails : EnqueueMail(m) \/ MailStep(m) \/ SendWelcome(m)

MailSpec == MailInit /\ [][MailNext]_mvars

-----------------------------------------------------------------------------
\* The breaker, the mails and the worker keep their shape.
MailTypeOK ==
  /\ moment \in 1..LastMoment /\ openedAt \in 0..moment /\ lastFailure \in 0..moment
  /\ failureCount \in 0..FailureThreshold /\ inARow \in Nat
  /\ letter \in [Mails -> {"new", "queued", "sent", "lost"}]
  /\ carrying \in Mails \cup {None} /\ tried \in 0..Tries
  /\ lostAt \in [Mails -> (0..moment) \X (0..moment)]

\* An outage of the mail server outlives itself by no more than the reset
\* timeout: the breaker is open only over enough failures in a row, and a mail
\* is given up only within that time of a failure of the server itself.
OutageIsOver ==
  /\ openedAt # 0 => inARow >= FailureThreshold /\ openedAt = lastFailure
  /\ \A m \in Mails : letter[m] = "lost" =>
       lostAt[m][2] # 0 /\ lostAt[m][1] - lostAt[m][2] < ResetTimeout

\* Every mail that is enqueued is sent, or given up after its last try.
MailsEnd == \A m \in Mails : []<>(letter[m] # "queued")
=============================================================================
