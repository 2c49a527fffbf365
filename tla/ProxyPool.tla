------------------------------ MODULE ProxyPool ------------------------------
(***************************************************************************)
(* redisproxy.Pool (go-ingestion/internal/proxy/redisproxy and its Lua     *)
(* scripts), used by the workers' httpdo.Doer.doWithLease, filled by       *)
(* loader.Loader.Run and by the cooldown recovery that every process runs. *)
(*                                                                         *)
(* One action is one Lua script, transaction or command.  Time counts in   *)
(* whole seconds, the unit of the scripts, and is relative: leased and     *)
(* cooldown hold the seconds left.  Scores only order the candidates, of   *)
(* which acquire.lua picks a random one, and are left out.                 *)
(***************************************************************************)
EXTENDS Integers, FiniteSets

CONSTANTS
    Seed, Remote,  \* proxies of the seed file and of the remote list
    Workers,       \* goroutines that send requests through a proxy
    Keepers,       \* processes that run the cooldown recovery
    None,          \* no proxy
    Hold,          \* seconds a lease lasts (PROXY_HOLD)
    Cooldown,      \* seconds a proxy rests (PROXY_COOLDOWN_SECONDS)
    MaxFailures,   \* consecutive failures that evict, 0 = never
    ChunkSize,     \* loader.Config.ChunkSize
    MinPublish,    \* loader.Config.MinPublish
    MaxLag,        \* bound: seconds from reading the clock to the script
    MaxLoads,      \* bound: runs of the loader
    MaxFaults      \* bound: commands of a recovery that fail

Proxies == Seed \cup Remote

ASSUME PoolAssumption ==
    /\ None \notin Seed \cup Remote
    /\ {Hold, Cooldown, ChunkSize} \subseteq Nat \ {0}
    /\ {MaxFailures, MinPublish, MaxLag, MaxLoads, MaxFaults} \subseteq Nat

VARIABLES
    set,       \* the candidates (ZSET)
    leased,    \* proxy -> seconds its lease has left, or Free (ZSET)
    stats,     \* proxy -> consecutive failures, or NoStats (HASH)
    cooldown,  \* proxy -> seconds until it is due, or Out (ZSET)
    pc,        \* worker -> idle, use or release
    url,       \* worker -> the proxy it uses, or None
    left,      \* worker -> seconds its lease key has left, -1 = none
    key,       \* worker -> does its lease key still exist?
    load,      \* where the loader is
    todo, ok,  \* loader: proxies to validate, proxies found healthy
    statsToDelete, cooldownToRemove,  \* Replace: what it has read and will drop
    step,      \* keeper -> where recoverFromCooldown is
    due,       \* keeper -> proxies read as due and not handled yet
    at,        \* keeper -> the one it handles, or None
    robbed,    \* history: workers whose entry in leased a late release took
    loads, faults

pool    == <<set, leased, stats, cooldown>>
worker  == <<pc, url, left, key, robbed>>
loader  == <<load, todo, ok, statsToDelete, cooldownToRemove, loads>>
keeper  == <<step, due, at, faults>>
vars    == <<pool, worker, loader, keeper>>

NoStats == -1
Out     == -1
Free    == -(MaxLag + 1)    \* no entry, or one any acquire.lua cleans away

InCooldown(p) == cooldown[p] # Out

(* The pool may hold what an earlier run of the loader published.          *)
Init ==
    /\ set \in SUBSET Proxies
    /\ leased = [p \in Proxies |-> Free]
    /\ stats = [p \in Proxies |-> NoStats]
    /\ cooldown = [p \in Proxies |-> Out]
    /\ pc = [w \in Workers |-> "idle"]
    /\ url = [w \in Workers |-> None]
    /\ left = [w \in Workers |-> -1]
    /\ key = [w \in Workers |-> FALSE]
    /\ robbed = {}
    /\ load = "idle" /\ todo = {} /\ ok = {} /\ loads = 0
    /\ statsToDelete = {} /\ cooldownToRemove = {}
    /\ step = [r \in Keepers |-> "idle"]
    /\ due = [r \in Keepers |-> {}]
    /\ at = [r \in Keepers |-> None]
    /\ faults = 0

-----------------------------------------------------------------------------
(* Time.  A key set with EX t in some second goes in the middle of the     *)
(* t-th second after it: in that second it may or may not be there still.  *)

KeyExpire(w) ==
    /\ key[w] /\ left[w] = 0
    /\ key' = [key EXCEPT ![w] = FALSE]
    /\ UNCHANGED <<pool, pc, url, left, robbed, loader, keeper>>

Tick ==
    /\ \A w \in Workers : key[w] => left[w] > 0
    /\ left' = [w \in Workers |-> IF left[w] >= 0 THEN left[w] - 1 ELSE -1]
    /\ leased' = [p \in Proxies |-> IF leased[p] > Free THEN leased[p] - 1 ELSE leased[p]]
    /\ cooldown' = [p \in Proxies |-> IF cooldown[p] > 0 THEN cooldown[p] - 1 ELSE cooldown[p]]
    /\ UNCHANGED <<set, stats, pc, url, key, robbed, loader, keeper>>

-----------------------------------------------------------------------------
(* doWithLease: acquire.lua, the request, a mark, release.lua.             *)

(* ZREMRANGEBYSCORE leased 0 now-1, by a clock read lag seconds ago.       *)
Cleaned(lag) ==
    [p \in Proxies |-> IF leased[p] <= -1 - lag THEN Free ELSE leased[p]]

(* Bug variant: the lease key outlives the entry in leased.                *)
AcquireLongKey(w) ==
    /\ pc[w] = "idle"
    /\ \E p \in set :
          /\ Cleaned(0)[p] = Free
          /\ leased' = [Cleaned(0) EXCEPT ![p] = Hold]
          /\ url' = [url EXCEPT ![w] = p]
    /\ left' = [left EXCEPT ![w] = Hold + 1]
    /\ key' = [key EXCEPT ![w] = TRUE]
    /\ pc' = [pc EXCEPT ![w] = "use"]
    /\ UNCHANGED <<set, stats, cooldown, robbed, loader, keeper>>

Acquire(w) ==
    /\ pc[w] = "idle"
    /\ \E lag \in 0..MaxLag, p \in set :
          /\ Cleaned(lag)[p] = Free
          /\ leased' = [Cleaned(lag) EXCEPT ![p] = Hold - lag]
          /\ url' = [url EXCEPT ![w] = p]
    /\ left' = [left EXCEPT ![w] = Hold]
    /\ key' = [key EXCEPT ![w] = TRUE]
    /\ pc' = [pc EXCEPT ![w] = "use"]
    /\ UNCHANGED <<set, stats, cooldown, robbed, loader, keeper>>

(* acquire.lua finds none: the expired leases are cleaned all the same.    *)
AcquireNone(w) ==
    /\ pc[w] = "idle"
    /\ \E lag \in 0..MaxLag :
          /\ \A p \in set : Cleaned(lag)[p] # Free
          /\ leased' = Cleaned(lag)
    /\ UNCHANGED <<set, stats, cooldown, worker, loader, keeper>>

Marked(w) ==
    /\ pc[w] = "use"
    /\ pc' = [pc EXCEPT ![w] = "release"]
    /\ UNCHANGED <<leased, url, left, key, robbed, loader, keeper>>

(* record_success.lua: a proxy that left the set stays out.                *)
MarkSuccess(w) ==
    /\ Marked(w)
    /\ stats' = [stats EXCEPT ![url[w]] = 0]
    /\ UNCHANGED <<set, cooldown>>

(* Streaks of MaxFailures and more are alike.                              *)
Streak(p) == IF stats[p] = NoStats THEN 1
             ELSE IF stats[p] >= MaxFailures THEN stats[p] ELSE stats[p] + 1

Evicts(n) == MaxFailures > 0 /\ n >= MaxFailures

(* record_failure.lua: ZREM and ZADD to cooldown, or ZINCRBY, which also   *)
(* creates the member.                                                     *)
MarkFailure(w) ==
    LET p == url[w]
    IN  /\ Marked(w)
        /\ stats' = [stats EXCEPT ![p] = Streak(p)]
        /\ IF Evicts(Streak(p))
           THEN /\ set' = set \ {p}
                /\ cooldown' = [cooldown EXCEPT ![p] = Cooldown]
           ELSE /\ set' = set \cup {p}
                /\ UNCHANGED cooldown

(* The script failed; the error is ignored.                                *)
MarkLost(w) ==
    /\ Marked(w)
    /\ UNCHANGED <<set, stats, cooldown>>

Idle(w) ==
    /\ pc' = [pc EXCEPT ![w] = "idle"]
    /\ url' = [url EXCEPT ![w] = None]
    /\ left' = [left EXCEPT ![w] = -1]
    /\ key' = [key EXCEPT ![w] = FALSE]

(* Those who lose their lease when w releases with its key in place: the   *)
(* script takes the proxy's entry in leased, whoever made it, so a release *)
(* in the last MaxLag seconds of a lease, when the proxy may be leased     *)
(* anew already, takes the entry of the new holder.                        *)
Robbed(w) ==
    IF key[w] /\ (left[w] < MaxLag \/ w \in robbed)
    THEN {v \in Workers : url[v] = url[w]} ELSE {}

(* Bug variant: release.lua does not look for the lease key.               *)
ReleaseAlways(w) ==
    /\ pc[w] = "release"
    /\ leased' = [leased EXCEPT ![url[w]] = Free]
    /\ robbed' = (robbed \cup Robbed(w)) \ {w}
    /\ Idle(w)
    /\ UNCHANGED <<set, stats, cooldown, loader, keeper>>

(* release.lua: whatever lease the proxy has by now goes, provided the key *)
(* of this one is still there.                                             *)
Release(w) ==
    /\ pc[w] = "release"
    /\ leased' = IF key[w] THEN [leased EXCEPT ![url[w]] = Free] ELSE leased
    /\ robbed' = (robbed \cup Robbed(w)) \ {w}
    /\ Idle(w)
    /\ UNCHANGED <<set, stats, cooldown, loader, keeper>>

(* The worker dies, or its release fails: the lease runs out by itself.    *)
Abandon(w) ==
    /\ pc[w] # "idle"
    /\ robbed' = robbed \ {w}
    /\ Idle(w)
    /\ UNCHANGED <<pool, loader, keeper>>

-----------------------------------------------------------------------------
(* Loader.Run.                                                             *)

LoadStart ==
    /\ load = "idle"
    /\ loads < MaxLoads
    /\ loads' = loads + 1
    /\ load' = "seed"
    /\ todo' = Seed /\ ok' = {}
    /\ UNCHANGED <<pool, worker, statsToDelete, cooldownToRemove, keeper>>

(* validateAndPublishChunks: the healthy ones H of a chunk C.  Add is ZADD *)
(* NX; a chunk below MinPublish and one whose Add fails is not added.      *)
LoadChunk ==
    /\ load \in {"seed", "remote"}
    /\ \E C \in SUBSET todo, H \in SUBSET todo :
          /\ Cardinality(C) = ChunkSize \/ (C = todo /\ Cardinality(todo) < ChunkSize)
          /\ C # {} /\ H \subseteq C
          /\ todo' = todo \ C
          /\ ok' = ok \cup H
          /\ \/ /\ H # {} /\ Cardinality(H) >= MinPublish
                /\ set' = set \cup H
             \/ UNCHANGED set
    /\ UNCHANGED <<leased, stats, cooldown, worker, load, statsToDelete, cooldownToRemove, loads, keeper>>

(* No healthy seed: Run fails and the pool stays as it is.                 *)
LoadNothing ==
    /\ load = "seed" /\ todo = {} /\ ok = {}
    /\ load' = "idle"
    /\ UNCHANGED <<pool, worker, todo, ok, statsToDelete, cooldownToRemove, loads, keeper>>

LoadRemote ==
    /\ load = "seed" /\ todo = {} /\ ok # {}
    /\ load' = "remote"
    /\ todo' = Remote \ ok
    /\ UNCHANGED <<pool, worker, ok, statsToDelete, cooldownToRemove, loads, keeper>>

(* The remote list is validated; or there is none, or fetching it failed.  *)
ReplaceRead ==
    /\ load \in {"seed", "remote"} /\ todo = {} /\ ok # {}
    /\ load' = "reading"
    /\ statsToDelete' = set \ ok
    /\ UNCHANGED <<pool, worker, todo, ok, cooldownToRemove, loads, keeper>>

ReplaceReadCooldown ==
    /\ load = "reading"
    /\ load' = "commit"
    /\ cooldownToRemove' = {p \in Proxies : InCooldown(p)} \ ok
    /\ statsToDelete' = statsToDelete \cup cooldownToRemove'
    /\ UNCHANGED <<pool, worker, todo, ok, loads, keeper>>

LoadEnd ==
    /\ load' = "idle"
    /\ todo' = {} /\ ok' = {}
    /\ statsToDelete' = {} /\ cooldownToRemove' = {}
    /\ UNCHANGED <<worker, loads, keeper>>

(* The transaction: the set is what was found healthy; of the proxies read *)
(* before, those not healthy lose their stats and leave the cooldown.      *)
Replace ==
    /\ load = "commit"
    /\ set' = ok
    /\ stats' = [p \in Proxies |-> IF p \in statsToDelete THEN NoStats ELSE stats[p]]
    /\ cooldown' = [p \in Proxies |-> IF p \in cooldownToRemove THEN Out ELSE cooldown[p]]
    /\ LoadEnd
    /\ UNCHANGED leased

(* Run is cancelled, the loader dies, or Replace fails.                    *)
LoadAbort ==
    /\ load # "idle"
    /\ LoadEnd
    /\ UNCHANGED pool

-----------------------------------------------------------------------------
(* recoverFromCooldown: read what is due, then for each proxy EXISTS stats *)
(* and either ZREM or a pipeline, which is no transaction, of ZADD, HSET   *)
(* and ZREM.                                                               *)

RecoverRead(r) ==
    /\ step[r] = "idle"
    /\ due' = [due EXCEPT ![r] = {p \in Proxies : cooldown[p] = 0}]
    /\ due'[r] # {}
    /\ step' = [step EXCEPT ![r] = "check"]
    /\ UNCHANGED <<pool, worker, loader, at, faults>>

(* A proxy with stats will be restored, one without, which Replace has     *)
(* dropped, forgotten.                                                     *)
RecoverCheck(r) ==
    /\ step[r] = "check"
    /\ \E p \in due[r] :
          /\ due' = [due EXCEPT ![r] = @ \ {p}]
          /\ at' = [at EXCEPT ![r] = p]
          /\ step' = [step EXCEPT ![r] = IF stats[p] # NoStats THEN "add" ELSE "rem"]
    /\ UNCHANGED <<pool, worker, loader, faults>>

RecoverAdd(r) ==
    /\ step[r] = "add"
    /\ set' = set \cup {at[r]}
    /\ step' = [step EXCEPT ![r] = "reset"]
    /\ UNCHANGED <<leased, stats, cooldown, worker, loader, due, at, faults>>

RecoverReset(r) ==
    /\ step[r] = "reset"
    /\ stats' = [stats EXCEPT ![at[r]] = 0]
    /\ step' = [step EXCEPT ![r] = "rem"]
    /\ UNCHANGED <<set, leased, cooldown, worker, loader, due, at, faults>>

RecoverRem(r) ==
    /\ step[r] = "rem"
    /\ cooldown' = [cooldown EXCEPT ![at[r]] = Out]
    /\ at' = [at EXCEPT ![r] = None]
    /\ step' = [step EXCEPT ![r] = "check"]
    /\ UNCHANGED <<set, leased, stats, worker, loader, due, faults>>

RecoverDone(r) ==
    /\ step[r] = "check" /\ due[r] = {}
    /\ step' = [step EXCEPT ![r] = "idle"]
    /\ UNCHANGED <<pool, worker, loader, due, at, faults>>

(* A command gets an error reply.  Within the pipeline the next one runs   *)
(* all the same; else the proxy is left for the next round.                *)
RecoverRefused(r) ==
    /\ faults < MaxFaults
    /\ faults' = faults + 1
    /\ \/ /\ step[r] \in {"add", "reset"}
          /\ step' = [step EXCEPT ![r] = IF @ = "add" THEN "reset" ELSE "rem"]
          /\ UNCHANGED <<due, at>>
       \/ /\ step[r] = "rem"
          /\ step' = [step EXCEPT ![r] = "check"]
          /\ at' = [at EXCEPT ![r] = None]
          /\ UNCHANGED due
       \/ /\ step[r] = "check"
          /\ \E p \in due[r] : due' = [due EXCEPT ![r] = @ \ {p}]
          /\ UNCHANGED <<step, at>>
    /\ UNCHANGED <<pool, worker, loader>>

(* The connection breaks and the next proxy is tried, or the process dies. *)
RecoverFault(r) ==
    /\ step[r] # "idle"
    /\ faults < MaxFaults
    /\ faults' = faults + 1
    /\ at' = [at EXCEPT ![r] = None]
    /\ \/ /\ at[r] # None
          /\ step' = [step EXCEPT ![r] = "check"]
          /\ UNCHANGED due
       \/ /\ step' = [step EXCEPT ![r] = "idle"]
          /\ due' = [due EXCEPT ![r] = {}]
    /\ UNCHANGED <<pool, worker, loader>>

-----------------------------------------------------------------------------
Use(w) ==
    \/ Acquire(w) \/ AcquireNone(w) \/ MarkSuccess(w) \/ MarkFailure(w)
    \/ MarkLost(w) \/ Release(w) \/ Abandon(w)

Load ==
    \/ LoadStart \/ LoadChunk \/ LoadNothing \/ LoadRemote \/ LoadAbort
    \/ ReplaceRead \/ ReplaceReadCooldown \/ Replace

Recovery(r) ==
    \/ RecoverRead(r) \/ RecoverCheck(r) \/ RecoverAdd(r) \/ RecoverReset(r)
    \/ RecoverRem(r) \/ RecoverDone(r)

Next ==
    \/ Tick
    \/ \E w \in Workers : Use(w) \/ KeyExpire(w)
    \/ Load
    \/ \E r \in Keepers : Recovery(r) \/ RecoverRefused(r) \/ RecoverFault(r)

Spec == Init /\ [][Next]_vars

(* Time passes and a ticker drives each recovery.  Neither requests nor    *)
(* loads are obliged to happen or to end.                                  *)
FairSpec ==
    /\ Spec
    /\ WF_vars(Tick)
    /\ \A w \in Workers : WF_vars(KeyExpire(w))
    /\ \A r \in Keepers : WF_vars(Recovery(r))

-----------------------------------------------------------------------------
TypeOK ==
    /\ set \in SUBSET Proxies
    /\ leased \in [Proxies -> Free..Hold]
    /\ stats \in [Proxies -> NoStats..(MaxFailures + 1)]
    /\ cooldown \in [Proxies -> Out..Cooldown]
    /\ pc \in [Workers -> {"idle", "use", "release"}]
    /\ url \in [Workers -> Proxies \cup {None}]
    /\ \A w \in Workers : (url[w] = None) <=> (pc[w] = "idle")
    /\ left \in [Workers -> -1..Hold]
    /\ key \in [Workers -> BOOLEAN]
    /\ robbed \in SUBSET Workers /\ \A w \in robbed : pc[w] # "idle"
    /\ load \in {"idle", "seed", "remote", "reading", "commit"}
    /\ todo \in SUBSET Proxies /\ ok \in SUBSET Proxies
    /\ statsToDelete \in SUBSET Proxies /\ cooldownToRemove \in SUBSET Proxies
    /\ step \in [Keepers -> {"idle", "check", "add", "reset", "rem"}]
    /\ due \in [Keepers -> SUBSET Proxies]
    /\ at \in [Keepers -> Proxies \cup {None}]
    /\ \A r \in Keepers : (at[r] # None) <=> (step[r] \in {"add", "reset", "rem"})
    /\ loads \in Nat /\ faults \in Nat

(* acquire.lua and release.lua: no two workers use one proxy within their  *)
(* leases, although requests outlive leases, release late, die, and the    *)
(* loader replaces the pool meanwhile.  Pool.Acquire reads the clock       *)
(* before the script runs, so a lease is safe but for its last MaxLag      *)
(* seconds, and but for a release that came in those last seconds of an    *)
(* earlier lease and took the entry of the new holder.  With scripts that  *)
(* run in the second in which the clock was read there is no exception.    *)
Exclusive ==
    /\ \A v, w \in Workers :
          v # w /\ left[v] >= MaxLag /\ left[w] >= MaxLag /\ url[v] = url[w] /\ url[v] # None
              => v \in robbed \/ w \in robbed
    /\ MaxLag = 0 => robbed = {}

(* bootstrap.go, of the cooldown recovery: "proxies evicted due to         *)
(* transient failures are automatically restored when the cooldown         *)
(* expires."                                                               *)
CooldownRestores ==
    \A p \in Proxies : InCooldown(p) ~> p \in set

(* record_success.lua: a late mark must not "re-activate a proxy that was   *)
(* evicted", "creating a zombie proxy loop"; loader.go: Replace is to       *)
(* "evict proxies that did not pass this validation cycle".                *)
MarksNeverRevive ==
    [][\A w \in Workers : MarkSuccess(w) \/ MarkFailure(w) => set' \subseteq set]_vars

=============================================================================
