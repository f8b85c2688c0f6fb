------------------------------ MODULE RateLimiter ------------------------------
(***************************************************************************)
(* The sliding-window rate limiters.  A route asks for one key after       *)
(* another (the account or address, then the client's IP) and is served    *)
(* when each says yes.  In dev the limiter is a table in the process and a *)
(* call is one step; elsewhere a call takes its stamp, and Redis runs the  *)
(* pipeline later: calls may run there out of the order of their stamps.   *)
(*                                                                         *)
(* Time is in units of what time() resolves, so two calls may share a      *)
(* stamp; Redis then stores one member for both.  An outage comes before   *)
(* Redis runs the pipeline or after it, when only the reply is lost.  Its  *)
(* fallback is never reached: the metrics counter it bumps first is not    *)
(* initialised, and the request ends in an error.                          *)
(***************************************************************************)
EXTENDS Naturals, Sequences, FiniteSets, Functions, Optional

CONSTANTS Callers,
          Limit,      \* the limit of each key
          Routes,     \* the sequences of keys a route asks for
          Window,     \* 60 seconds
          MaxNow      \* bound of the clock

LimitKeys == DOMAIN Limit

ASSUME RateLimiterAssumption ==
  /\ None \notin Callers \cup LimitKeys /\ Window \in Nat \ {0} /\ MaxNow \in Nat \ {0}
  /\ Routes \subseteq Seq(LimitKeys) \ {<<>>} /\ \A k \in LimitKeys : Limit[k] \in Nat \ {0}
  \* the keys of a route have a path each
  /\ \A r \in Routes : IsInjective(r)

VARIABLES
  limiter,      \* the class in use: "memory" or "redis"
  clock,
  hits,         \* the stamps stored for each key: <<stamp, caller>>, no caller in Redis
  lapse,        \* when the key expires in Redis
  lpc, route,   \* where a caller is, the keys it has yet to ask for
  stamp,        \* the stamp of its call under way
  calls,        \* history: the calls as they were decided, lost answers included
  lapsed        \* history: when the key was last found to have expired

lvars == <<limiter, clock, hits, lapse, lpc, route, stamp, calls, lapsed>>

Decided(k)  == {x \in calls : x.key = k}
LGoto(c, p) == lpc' = [lpc EXCEPT ![c] = p]
\* A call is decided.  If the answer is not lost, the route goes on to its next
\* key, or ends.
Answer(c, t, ok, late, lost) ==
  /\ calls' = calls \cup {[by |-> c, key |-> Head(route[c]), late |-> late, ok |-> ok, stamp |-> t]}
  /\ route' = [route EXCEPT ![c] = IF ok /\ ~lost THEN Tail(@) ELSE <<>>]
  /\ stamp' = [stamp EXCEPT ![c] = 0]
  /\ LGoto(c, IF lost THEN "error" ELSE IF ~ok THEN "refused" ELSE IF Tail(route[c]) = <<>> THEN "served" ELSE "ask")

RateLimiterInit ==
  /\ limiter \in {"memory", "redis"} /\ clock = 1 /\ calls = {}
  /\ hits = [k \in LimitKeys |-> {}] /\ lapse = [k \in LimitKeys |-> 0]
  /\ lapsed = [k \in LimitKeys |-> 0]
  /\ lpc = [c \in Callers |-> "new"] /\ route = [c \in Callers |-> <<>>]
  /\ stamp = [c \in Callers |-> 0]

-----------------------------------------------------------------------------
Tick == clock < MaxNow /\ clock' = clock + 1 /\ UNCHANGED <<limiter, hits, lapse, lpc, route, stamp, calls, lapsed>>

CallerStarts(c, r) ==
  /\ lpc[c] = "new" /\ LGoto(c, "ask") /\ route' = [route EXCEPT ![c] = r]
  /\ UNCHANGED <<limiter, clock, hits, lapse, stamp, calls, lapsed>>

\* Mutant of AllowInMemory: the stamp at the edge of the window is dropped.
AllowEarly(c) ==
  /\ limiter = "memory" /\ lpc[c] = "ask"
  /\ LET k == Head(route[c])
         recent == {h \in hits[k] : h[1] + Window > clock + 1}
         ok == Cardinality(recent) < Limit[k]
     IN /\ hits' = [hits EXCEPT ![k] = IF ok THEN recent \cup {<<clock, c>>} ELSE recent]
        /\ Answer(c, clock, ok, FALSE, FALSE)
  /\ UNCHANGED <<limiter, clock, lapse, lapsed>>

\* RateLimiter.allow_request: no await, and what it refuses it does not store.
AllowInMemory(c) ==
  /\ limiter = "memory" /\ lpc[c] = "ask"
  /\ LET k == Head(route[c])
         recent == {h \in hits[k] : h[1] + Window > clock}
         ok == Cardinality(recent) < Limit[k]
     IN /\ hits' = [hits EXCEPT ![k] = IF ok THEN recent \cup {<<clock, c>>} ELSE recent]
        /\ Answer(c, clock, ok, FALSE, FALSE)
  /\ UNCHANGED <<limiter, clock, lapse, lapsed>>

\* RedisRateLimiter.allow_request takes its stamp and sends the pipeline.
SendPipeline(c) ==
  /\ limiter = "redis" /\ lpc[c] = "ask" /\ LGoto(c, "sent")
  /\ stamp' = [stamp EXCEPT ![c] = clock]
  /\ UNCHANGED <<limiter, clock, hits, lapse, route, calls, lapsed>>

\* Redis runs it: what it refuses is stored too.  The reply may be lost, and the
\* request ends in an error, with its stamp stored.
RunPipeline(c) ==
  /\ lpc[c] = "sent"
  /\ LET k == Head(route[c])
         t == stamp[c]
         alive == IF lapse[k] <= clock THEN {} ELSE hits[k]
         recent == {h \in alive : h[1] + Window > t} \cup {<<t, None>>}
     IN /\ hits' = [hits EXCEPT ![k] = recent]
        /\ lapse' = [lapse EXCEPT ![k] = clock + Window]
        /\ lapsed' = [lapsed EXCEPT ![k] = IF lapse[k] <= clock THEN lapse[k] ELSE @]
        /\ \E lost \in BOOLEAN :
             Answer(c, t, Cardinality(recent) <= Limit[k],
                    t < lapsed'[k] \/ \E x \in Decided(k) : x.stamp > t, lost)
  /\ UNCHANGED <<limiter, clock>>

\* Redis is out of reach and runs nothing: the exception handler itself raises.
Outage(c) ==
  /\ lpc[c] = "sent" /\ LGoto(c, "error")
  /\ route' = [route EXCEPT ![c] = <<>>] /\ stamp' = [stamp EXCEPT ![c] = 0]
  /\ UNCHANGED <<limiter, clock, hits, lapse, calls, lapsed>>

RateLimiterNext ==
  \/ Tick
  \/ \E c \in Callers : \/ AllowInMemory(c) \/ SendPipeline(c) \/ RunPipeline(c) \/ Outage(c)
                        \/ \E r \in Routes : CallerStarts(c, r)

RateLimiterSpec == RateLimiterInit /\ [][RateLimiterNext]_lvars

-----------------------------------------------------------------------------
\* The limiter, its stamps and its callers keep their shape.
RateLimiterTypeOK ==
  /\ limiter \in {"memory", "redis"} /\ clock \in 1..MaxNow
  /\ \A k \in LimitKeys : hits[k] \subseteq (1..clock) \X (Callers \cup {None})
  /\ lapse \in [LimitKeys -> 0..(MaxNow + Window)]
  /\ \A k \in LimitKeys : lapsed[k] <= clock
  /\ stamp \in [Callers -> 0..clock]
  /\ lpc \in [Callers -> {"new", "ask", "sent", "served", "refused", "error"}]
  /\ \A c \in Callers : lpc[c] = "ask" => route[c] # <<>>

\* What counts as one hit: a call in memory, a stamp in Redis.
Distinct(S) == IF limiter = "memory" THEN Cardinality({x.by : x \in S})
                                     ELSE Cardinality({x.stamp : x \in S})

\* The limit is kept exactly.  No more than Limit calls of a key are let through
\* in any window (the reply lost or not), of those that Redis ran in the order of
\* their stamps and before the key expired under them; and a call is refused only
\* if others fill the window that ends with it: calls let through or, in Redis,
\* refused, and among either those whose client got an error for an answer.
LimitIsKept ==
  \A k \in LimitKeys : \A x \in Decided(k) :
    /\ x.ok /\ ~x.late =>
         Distinct({y \in Decided(k) : y.ok /\ ~y.late /\ y.stamp <= x.stamp
                                      /\ y.stamp + Window > x.stamp}) <= Limit[k]
    /\ ~x.ok =>
         Distinct({y \in Decided(k) \ {x} : (y.ok \/ limiter = "redis")
                                            /\ y.stamp + Window > x.stamp}) >= Limit[k]
=============================================================================
