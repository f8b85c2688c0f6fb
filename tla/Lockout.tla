-------------------------------- MODULE Lockout --------------------------------
(***************************************************************************)
(* UserService.authenticate: five wrong passwords lock an account for      *)
(* fifteen minutes.  An attempt reads the row, decides, and commits later, *)
(* writing the columns that differ from what it read; attempts at one      *)
(* account overlap.                                                        *)
(***************************************************************************)
EXTENDS Naturals, FiniteSets

CONSTANTS Attempts,
          Threshold,   \* 5 wrong passwords
          LockTime,    \* 15 minutes
          LastTime     \* bound of the clock

ASSUME LockoutAssumption == Threshold \in Nat \ {0} /\ LockTime \in Nat \ {0} /\ LastTime \in Nat \ {0}

VARIABLES
  time,
  failed, lockedUntil,   \* the row; lockedUntil is 0 for NULL
  apc,                   \* where an attempt is, or how it ended
  loaded,                \* the row as it read it, and when
  wrong, wrongEver,      \* history: wrong passwords committed since the last
                         \* right one, and in all
  overlapped             \* history: attempts that read the row while another
                         \* was about to write it

kvars == <<time, failed, lockedUntil, apc, loaded, wrong, wrongEver, overlapped>>

NotLoaded   == [at |-> 0, failed |-> 0, until |-> 0]
AEnds(a, p) == apc' = [apc EXCEPT ![a] = p] /\ loaded' = [loaded EXCEPT ![a] = NotLoaded]

LockoutInit ==
  /\ time = 1 /\ failed = 0 /\ lockedUntil = 0 /\ wrong = 0 /\ wrongEver = 0 /\ overlapped = {}
  /\ apc = [a \in Attempts |-> "new"] /\ loaded = [a \in Attempts |-> NotLoaded]

-----------------------------------------------------------------------------
TimePasses == time < LastTime /\ time' = time + 1
              /\ UNCHANGED <<failed, lockedUntil, apc, loaded, wrong, wrongEver, overlapped>>

\* A lock that runs is answered as a wrong password, and nothing is written.
RefuseLocked(a) ==
  /\ apc[a] = "new" /\ lockedUntil > time /\ AEnds(a, "locked")
  /\ UNCHANGED <<time, failed, lockedUntil, wrong, wrongEver, overlapped>>

\* The row is read and the password verified.
ReadAccount(a, verdict) ==
  /\ apc[a] = "new" /\ lockedUntil <= time
  /\ apc' = [apc EXCEPT ![a] = verdict]
  /\ loaded' = [loaded EXCEPT ![a] = [at |-> time, failed |-> failed, until |-> lockedUntil]]
  /\ overlapped' = overlapped \cup {b \in {a} : \E c \in Attempts : apc[c] \in {"right", "wrong"}}
  /\ UNCHANGED <<time, failed, lockedUntil, wrong, wrongEver>>

\* Mutant of CommitWrong: the first password after the threshold locks.
CommitWrongLate(a) ==
  /\ apc[a] = "wrong" /\ AEnds(a, "refused")
  /\ failed' = loaded[a].failed + 1
  /\ lockedUntil' = IF loaded[a].failed >= Threshold THEN loaded[a].at + LockTime ELSE lockedUntil
  /\ wrong' = wrong + 1 /\ wrongEver' = wrongEver + 1
  /\ UNCHANGED <<time, overlapped>>

\* One more failure than was read; from the threshold on, a lock from when it was read.
CommitWrong(a) ==
  /\ apc[a] = "wrong" /\ AEnds(a, "refused")
  /\ failed' = loaded[a].failed + 1
  /\ lockedUntil' = IF failed' >= Threshold THEN loaded[a].at + LockTime ELSE lockedUntil
  /\ wrong' = wrong + 1 /\ wrongEver' = wrongEver + 1
  /\ UNCHANGED <<time, overlapped>>

\* A right password clears what it has read to be set.
CommitRight(a) ==
  /\ apc[a] = "right" /\ AEnds(a, "accepted")
  /\ failed' = IF loaded[a].failed = 0 THEN failed ELSE 0
  /\ lockedUntil' = IF loaded[a].until = 0 THEN lockedUntil ELSE 0
  /\ wrong' = 0
  /\ UNCHANGED <<time, wrongEver, overlapped>>

LockoutNext ==
  \/ TimePasses
  \/ \E a \in Attempts : \/ RefuseLocked(a) \/ CommitWrong(a) \/ CommitRight(a)
                         \/ \E v \in {"right", "wrong"} : ReadAccount(a, v)

LockoutSpec == LockoutInit /\ [][LockoutNext]_kvars

-----------------------------------------------------------------------------
\* The row and the attempts keep their shape.
LockoutTypeOK ==
  /\ time \in 1..LastTime /\ failed \in Nat /\ wrong \in Nat /\ wrongEver \in Nat
  /\ lockedUntil \in 0..(LastTime + LockTime) /\ overlapped \subseteq Attempts
  /\ apc \in [Attempts -> {"new", "right", "wrong", "locked", "refused", "accepted"}]
  /\ loaded \in [Attempts -> [at : 0..LastTime, failed : Nat, until : 0..(LastTime + LockTime)]]

\* As long as no two attempts overlap, the account has been locked exactly when
\* the threshold of wrong passwords in a row is reached, counting on through
\* locks that have expired.  When they overlap, counts are lost, but an account
\* is still never locked, nor a failure counted, for want of wrong passwords.
LockIsExact ==
  /\ overlapped = {} => failed = wrong /\ (lockedUntil # 0 <=> wrong >= Threshold)
  /\ failed <= wrongEver /\ (lockedUntil # 0 => wrongEver >= Threshold)
=============================================================================
