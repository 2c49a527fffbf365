------------------------------- MODULE Migrator -------------------------------
(***************************************************************************)
(* go-core/migrator: schema migrations, run as a one-shot process by the   *)
(* migrator binaries of go-ingestion and go-analysis, possibly several at  *)
(* a time and from images of different age, on one database.  A process    *)
(* that fails or is killed is started again by whoever deploys.            *)
(*                                                                         *)
(* One action is one statement or transaction.  The SQL of a migration is  *)
(* reduced to how often it took effect.  A file name that is no migration  *)
(* is skipped; two files of one version are an error at every start, so    *)
(* images have none.                                                       *)
(***************************************************************************)
EXTENDS Integers, FiniteSets, FiniteSetsExt

CONSTANTS
    Migrators,    \* processes
    Versions,     \* the versions of all migrations: 1..n
    Known,        \* migrator -> the versions its image embeds
    LockID,       \* migrator -> lockIDFromDSN of its DSN
    NoHolder,     \* a lock nobody holds
    MaxMigFaults  \* bound: kills, lost connections, failing statements

VARIABLES
    applied,      \* rows of schema_migrations
    effects,      \* version -> how often its SQL was committed
    holder,       \* lock id -> the session that has the advisory lock
    mig,          \* migrator -> its next step
    passed,       \* migrator -> versions its loop has behind it
    migFaults     \* counter of MaxMigFaults

(* Versions are numbers.  An image embeds its directory of migrations, so  *)
(* with a version it has all older ones.  All processes are given the DSN  *)
(* of the one database, which lockIDFromDSN hashes.                        *)
MigratorConstants ==
    /\ Versions \subseteq Nat
    /\ Known \in [Migrators -> SUBSET Versions]
    /\ \A m \in Migrators : \A v \in Known[m], u \in Versions : u < v => u \in Known[m]
    /\ \A m, n \in Migrators : LockID[m] = LockID[n]
    /\ NoHolder \notin Migrators
    /\ MaxMigFaults \in Nat

migVars == <<applied, effects, holder, mig, passed, migFaults>>

MigratorInit ==
    /\ applied = {}
    /\ effects = [v \in Versions |-> 0]
    /\ holder = [l \in {LockID[m] : m \in Migrators} |-> NoHolder]
    /\ mig = [m \in Migrators |-> "down"]
    /\ passed = [m \in Migrators |-> {}]
    /\ migFaults = 0

MigFault == migFaults < MaxMigFaults /\ migFaults' = migFaults + 1

Unlocked(m) == [l \in DOMAIN holder |-> IF holder[l] = m THEN NoHolder ELSE holder[l]]

(* The process ends, its connection with it: Postgres frees its locks.     *)
Exit(m, s) ==
    /\ mig' = [mig EXCEPT ![m] = s]
    /\ passed' = [passed EXCEPT ![m] = {}]
    /\ holder' = Unlocked(m)

(* Bug variant: the locks of other sessions are taken for stale ones.      *)
ConnectUnlocksAll(m) ==
    /\ mig[m] = "down"
    /\ mig' = [mig EXCEPT ![m] = "lock"]
    /\ holder' = [l \in DOMAIN holder |-> NoHolder]
    /\ UNCHANGED <<applied, effects, passed, migFaults>>

(* openWithRetry, and pg_advisory_unlock_all, which frees the locks of     *)
(* its own session only.  A database that is not there ends the process.   *)
Connect(m) ==
    /\ mig[m] = "down"
    /\ mig' = [mig EXCEPT ![m] = "lock"]
    /\ holder' = Unlocked(m)
    /\ UNCHANGED <<applied, effects, passed, migFaults>>

TryAdvisoryLock(m) ==
    /\ mig[m] = "lock"
    /\ IF holder[LockID[m]] = NoHolder
       THEN /\ holder' = [holder EXCEPT ![LockID[m]] = m]
            /\ mig' = [mig EXCEPT ![m] = "load"]
            /\ UNCHANGED passed
       ELSE Exit(m, "down")
    /\ UNCHANGED <<applied, effects, migFaults>>

(* ensureTable, loadMigrations, loadApplied.                               *)
LoadApplied(m) ==
    /\ mig[m] = "load"
    /\ passed' = [passed EXCEPT ![m] = applied]
    /\ mig' = [mig EXCEPT ![m] = "apply"]
    /\ UNCHANGED <<applied, effects, holder, migFaults>>

(* loadMigrations sorts by version.                                        *)
NextVersion(S) == Min(S)

Pending(m) == Known[m] \ passed[m]

(* apply: one transaction runs the SQL and records the version.            *)
Apply(m) ==
    /\ mig[m] = "apply"
    /\ Pending(m) # {}
    /\ LET v == NextVersion(Pending(m))
       IN  /\ effects' = [effects EXCEPT ![v] = @ + 1]
           /\ applied' = applied \cup {v}
           /\ passed' = [passed EXCEPT ![m] = @ \cup {v}]
    /\ UNCHANGED <<holder, mig, migFaults>>

(* A statement or the commit fails: rolled back, and Run returns.          *)
ApplyFails(m) ==
    /\ mig[m] = "apply"
    /\ Pending(m) # {}
    /\ Exit(m, "down")
    /\ MigFault
    /\ UNCHANGED <<applied, effects>>

Complete(m) ==
    /\ mig[m] = "apply"
    /\ Pending(m) = {}
    /\ Exit(m, "done")
    /\ UNCHANGED <<applied, effects, migFaults>>

(* Killed, or the connection is lost: the session and its lock are gone.   *)
Kill(m) ==
    /\ mig[m] \in {"lock", "load", "apply"}
    /\ Exit(m, "down")
    /\ MigFault
    /\ UNCHANGED <<applied, effects>>

Step(m) == Connect(m) \/ TryAdvisoryLock(m) \/ LoadApplied(m) \/ Apply(m) \/ Complete(m)

MigratorNext == \E m \in Migrators : Step(m) \/ ApplyFails(m) \/ Kill(m)

MigratorFairness == \A m \in Migrators : WF_migVars(Step(m))
MigratorSpec == MigratorInit /\ [][MigratorNext]_migVars /\ MigratorFairness

-----------------------------------------------------------------------------
(* Run: "acquires an advisory lock (hash of dsn) to prevent concurrent     *)
(* migrators, and applies each un-applied migration in a transaction":     *)
(* however often migrators are started, killed and started again, the SQL  *)
(* of a version takes effect once and is recorded with it.                 *)
AppliedOnce == \A v \in Versions : effects[v] = IF v \in applied THEN 1 ELSE 0

(* Run: "in lexicographic version order": no migration runs on a schema    *)
(* that an earlier one has not changed yet, after failures neither.        *)
AppliedInOrder == \A v \in applied : \A u \in Versions : u < v => u \in applied

(* migrator.Run: a migration takes effect once, is recorded with it, and   *)
(* never before an earlier one.                                            *)
MigrationsSound == AppliedOnce /\ AppliedInOrder

AllComplete == \A m \in Migrators : mig[m] = "done" /\ Known[m] \subseteq applied

=============================================================================
