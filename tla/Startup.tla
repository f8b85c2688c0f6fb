------------------------------- MODULE Startup -------------------------------
(***************************************************************************)
(* The lifespan of the application, in several processes over one          *)
(* database: the rate limiter is reset, the job worker started, the tables *)
(* created (in dev only), the startup hooks run, and the roles,            *)
(* permissions and free plan seeded in one transaction; then the process   *)
(* serves.  Anything that raises ends the process, and its supervisor      *)
(* boots it again.                                                         *)
(*                                                                         *)
(* main gives the lifespan a RedisRateLimiter everywhere but in dev, and   *)
(* that class has no reset().                                              *)
(***************************************************************************)
EXTENDS Naturals, Sequences, Functions, Optional

CONSTANTS Processes,
          SeedKeys,        \* the rows to seed, in the order of the code
          MaxBootFaults    \* bound: create_all or the database failing

ASSUME StartupAssumption ==
  /\ None \notin Processes /\ MaxBootFaults \in Nat
  /\ SeedKeys \in Seq(Range(SeedKeys)) /\ SeedKeys # <<>> /\ IsInjective(SeedKeys)

VARIABLES
  environment,  \* settings.environment
  tables,       \* do the tables exist?
  seeded,       \* committed seed rows
  bpc,          \* where each process is
  seedAt,       \* the seed it is at
  planted,      \* rows its open transaction has inserted
  initialized,  \* _rbac_seed_initialized and _billing_seed_initialized
  working,      \* processes whose job worker runs
  wired,        \* processes whose startup hooks have set app.state
  bootFaults

bvars == <<environment, tables, seeded, bpc, seedAt, planted, initialized, working, wired, bootFaults>>
world == <<environment, tables, seeded, bootFaults>>

Seed(p)     == SeedKeys[seedAt[p]]
BGoto(p, x) == bpc' = [bpc EXCEPT ![p] = x]
\* What a process holds goes with it, its transaction is rolled back.
Exits(p) ==
  /\ BGoto(p, "down") /\ seedAt' = [seedAt EXCEPT ![p] = 1]
  /\ planted' = [planted EXCEPT ![p] = {}] /\ initialized' = initialized \ {p}
  /\ working' = working \ {p} /\ wired' = wired \ {p}
Ready(p, x)  == BGoto(p, x) /\ UNCHANGED <<seedAt, planted, initialized, working, wired>>

StartupInit ==
  /\ environment \in {"dev", "prod"} /\ tables \in BOOLEAN /\ seeded = {}
  /\ bpc = [p \in Processes |-> "down"] /\ seedAt = [p \in Processes |-> 1]
  /\ planted = [p \in Processes |-> {}] /\ initialized = {}
  /\ working = {} /\ wired = {} /\ bootFaults = 0

-----------------------------------------------------------------------------
\* The process is started.
Boot(p) == bpc[p] = "down" /\ Ready(p, "reset") /\ UNCHANGED world

\* rate_limiter.reset(): an AttributeError, unless it is the one of dev.
ResetLimiter(p) ==
  /\ bpc[p] = "reset"
  /\ IF environment = "dev" THEN Ready(p, "worker") ELSE Exits(p)
  /\ UNCHANGED world

\* background_job_manager.start()
StartWorker(p) ==
  /\ bpc[p] = "worker" /\ BGoto(p, "tables") /\ working' = working \cup {p}
  /\ UNCHANGED <<world, seedAt, planted, initialized, wired>>

\* create_all, in dev; that it fails is logged and no more.
CreateTables(p) ==
  /\ bpc[p] = "tables" /\ Ready(p, "hooks")
  /\ \/ tables' = TRUE /\ UNCHANGED bootFaults
     \/ bootFaults < MaxBootFaults /\ bootFaults' = bootFaults + 1 /\ UNCHANGED tables
  /\ UNCHANGED <<environment, seeded>>

\* run_startup_hooks: app.state is set.
RunHooks(p) ==
  /\ bpc[p] = "hooks" /\ BGoto(p, "find") /\ wired' = wired \cup {p}
  /\ UNCHANGED <<world, seedAt, planted, initialized, working>>

\* The next seed, or the end of ensure_seed_data and its flag.
Seeds(p) ==
  IF seedAt[p] < Len(SeedKeys)
  THEN /\ seedAt' = [seedAt EXCEPT ![p] = @ + 1] /\ BGoto(p, "find") /\ UNCHANGED initialized
  ELSE /\ BGoto(p, "commit") /\ initialized' = initialized \cup {p} /\ UNCHANGED seedAt

\* ensure_seed_data looks for a row ...
FindSeed(p) ==
  /\ bpc[p] = "find"
  /\ IF ~tables THEN Exits(p)
     ELSE IF Seed(p) \in seeded THEN Seeds(p) /\ UNCHANGED <<planted, working, wired>>
     ELSE Ready(p, "plant")
  /\ UNCHANGED world

\* Mutant of PlantSeed: the exception is logged and not raised.
PlantSeedQuietly(p) ==
  /\ bpc[p] = "plant" /\ \A q \in Processes \ {p} : Seed(p) \notin planted[q]
  /\ IF Seed(p) \in seeded
     THEN Ready(p, "serving")
     ELSE /\ planted' = [planted EXCEPT ![p] = @ \cup {Seed(p)}]
          /\ Seeds(p) /\ UNCHANGED <<working, wired>>
  /\ UNCHANGED world

\* ... and inserts it: the INSERT waits for another process that inserted the
\* same key, and raises if that one commits.
PlantSeed(p) ==
  /\ bpc[p] = "plant" /\ \A q \in Processes \ {p} : Seed(p) \notin planted[q]
  /\ IF Seed(p) \in seeded
     THEN Exits(p)
     ELSE /\ planted' = [planted EXCEPT ![p] = @ \cup {Seed(p)}]
          /\ Seeds(p) /\ UNCHANGED <<working, wired>>
  /\ UNCHANGED world

\* The transaction commits, or does not and the process ends.
CommitSeeds(p) ==
  /\ bpc[p] = "commit"
  /\ \/ /\ seeded' = seeded \cup planted[p] /\ BGoto(p, "serving")
        /\ planted' = [planted EXCEPT ![p] = {}] /\ seedAt' = [seedAt EXCEPT ![p] = 1]
        /\ UNCHANGED <<initialized, working, wired, bootFaults>>
     \/ bootFaults < MaxBootFaults /\ bootFaults' = bootFaults + 1 /\ Exits(p) /\ UNCHANGED seeded
  /\ UNCHANGED <<environment, tables>>

\* Shutdown: the hooks clear app.state and the worker stops.
Shutdown(p) == bpc[p] = "serving" /\ Exits(p) /\ UNCHANGED world

BootStep(p) == \/ Boot(p) \/ ResetLimiter(p) \/ StartWorker(p) \/ CreateTables(p) \/ RunHooks(p)
               \/ FindSeed(p) \/ PlantSeed(p) \/ CommitSeeds(p)

StartupNext == \E p \in Processes : BootStep(p) \/ Shutdown(p)

StartupSpec == StartupInit /\ [][StartupNext]_bvars

-----------------------------------------------------------------------------
\* The processes and the tables keep their shape.
StartupTypeOK ==
  /\ environment \in {"dev", "prod"} /\ tables \in BOOLEAN
  /\ seeded \subseteq Range(SeedKeys) /\ bootFaults \in 0..MaxBootFaults
  /\ bpc \in [Processes -> {"down", "reset", "worker", "tables", "hooks",
                            "find", "plant", "commit", "serving"}]
  /\ seedAt \in [Processes -> 1..Len(SeedKeys)]
  /\ planted \in [Processes -> SUBSET Range(SeedKeys)]
  /\ initialized \subseteq Processes /\ working \subseteq Processes /\ wired \subseteq Processes

\* A process that serves finds every seed row in the database, has its job
\* worker and its app.state, although processes that start together race to
\* insert the rows and each remembers, before its commit, that it has done so.
ServingIsSeeded ==
  \A p \in Processes : bpc[p] = "serving" =>
    Range(SeedKeys) \subseteq seeded /\ p \in initialized \cap working \cap wired

\* In dev every process gets to serve, booted again as often as it takes.
DevServes == \A p \in Processes : []<>(environment = "dev" => bpc[p] = "serving")
=============================================================================
