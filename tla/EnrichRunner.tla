----------------------------- MODULE EnrichRunner -----------------------------
(***************************************************************************)
(* The enricher: a process that waits for proxies and Postgres, loads the  *)
(* reference data once from local files and then, at its start and at      *)
(* every tick, from dotaconstants.  A runner takes its sources in the      *)
(* order of sortByDependencies, asks the gate for each one whether it is   *)
(* due, runs it (one fetch, one transaction per table) and records the     *)
(* outcome.                                                                *)
(*                                                                         *)
(* Time is abstract: a gate key is                                         *)
(*   none     absent or expired                                            *)
(*   failed   set by a failed run, for five minutes                        *)
(*   recent   set by a successful run that started less than MinAge ago    *)
(*   aged     the same, MinAge after the start and not yet expired         *)
(* Rows are abstract: a table is filled or not.  The foreign keys of the   *)
(* schema make an upsert fail while the rows it refers to are missing.     *)
(***************************************************************************)
EXTENDS Integers, Sequences, FiniteSets, SequencesExt, Probes

CONSTANTS
    Strings,         \* what sources and tables may be called
    Used,            \* names of the sources taken from buildSources
    MaxEnrichFaults  \* bound: failing steps, lost gate answers, crashes

VARIABLES
    stage,    \* where the process is: down, proxies, postgres, run, sleep
    plan,     \* the sources of its runners, sorted when they are made
    runner,   \* the runner that is at work: local or main
    cycle,    \* the sources this runner has still to do
    step,     \* of Head(cycle): gate, fetch, write, record
    written,  \* upserts of Head(cycle) that are committed
    failure,  \* the run of Head(cycle) failed
    key,      \* source -> its gate key
    filled,   \* tables with rows
    enrichFaults

progress == <<runner, cycle, step, written, failure>>
enrichVars == <<stage, plan, progress, key, filled, enrichFaults>>

-----------------------------------------------------------------------------
(* The sources: what they depend on, and the tables that Run upserts.      *)

Source(n, critical, deps, writes) ==
    [name |-> n, critical |-> critical, deps |-> deps, writes |-> writes]

Heroes        == Source("heroes", TRUE, <<>>, <<"heroes">>)
Abilities     == Source("abilities", TRUE, <<>>, <<"abilities">>)
AbilityIDs    == Source("ability_ids", FALSE, <<"abilities">>, <<"ability_ids">>)
HeroAbilities == Source("hero_abilities", TRUE, <<"heroes">>,
                        <<"hero_abilities", "hero_talents", "hero_facets">>)
GameModes     == Source("game_mode", FALSE, <<>>, <<"game_modes">>)
LobbyTypes    == Source("lobby_type", FALSE, <<>>, <<"lobby_types">>)
Regions       == Source("region", FALSE, <<>>, <<"regions">>)
Items         == Source("items", TRUE, <<>>, <<"items">>)
ItemIDs       == Source("item_ids", FALSE, <<"items">>, <<"item_ids">>)
Patches       == Source("patch", TRUE, <<>>, <<"patches">>)

AllSources ==
    {Heroes, Abilities, AbilityIDs, HeroAbilities, GameModes, LobbyTypes, Regions,
     Items, ItemIDs, Patches}

InUse(s) == IF s.name \in Used THEN <<s>> ELSE <<>>

(* Bug variant: registered in the order of the tables' names, and the      *)
(* dependency that is nowhere declared shows.                              *)
BuildSourcesByName ==
    InUse(HeroAbilities) \o InUse(AbilityIDs) \o InUse(Abilities) \o InUse(GameModes) \o
    InUse(Heroes) \o InUse(ItemIDs) \o InUse(Items) \o InUse(LobbyTypes) \o
    InUse(Patches) \o InUse(Regions)

BuildSources ==
    InUse(Heroes) \o InUse(Abilities) \o InUse(AbilityIDs) \o InUse(HeroAbilities) \o
    InUse(GameModes) \o InUse(LobbyTypes) \o InUse(Regions) \o InUse(Items) \o
    InUse(ItemIDs) \o InUse(Patches)

(* Both columns of abilities rows: ability_ids inserts keys, too.          *)
Satisfied(table, rows) ==
    CASE table \in {"hero_abilities", "hero_talents"} ->
            "heroes" \in rows /\ {"abilities", "ability_ids"} \cap rows # {}
      [] table = "hero_facets" -> "heroes" \in rows
      [] OTHER -> TRUE

-----------------------------------------------------------------------------
(* sortByDependencies: a depth-first search, the sources as registered and *)
(* the dependencies as declared.                                           *)

SourceNames(sources) == {sources[i].name : i \in DOMAIN sources}
ByName(sources, n) == CHOOSE s \in ToSet(sources) : s.name = n

(* The calls of visit that are still to be made, and those to return from. *)
Enter(names) == [i \in DOMAIN names |-> [name |-> names[i], leave |-> FALSE]]
Leave(n) == <<[name |-> n, leave |-> TRUE]>>

StartSearch(sources) ==
    [calls |-> Enter([i \in DOMAIN sources |-> sources[i].name]),
     inStack |-> {}, sorted |-> <<>>, err |-> FALSE]

(* A name that is known to be sorted, one that is in the stack or unknown, *)
(* and one that is entered: its dependencies first.                        *)
VisitName(sources, d, n, rest) ==
    IF n \in ToSet(d.sorted) THEN [d EXCEPT !.calls = rest]
    ELSE IF n \in d.inStack \/ n \notin SourceNames(sources)
    THEN [d EXCEPT !.calls = <<>>, !.err = TRUE]
    ELSE [d EXCEPT !.calls = Enter(ByName(sources, n).deps) \o Leave(n) \o rest,
                   !.inStack = @ \cup {n}]

LeaveName(d, n, rest) ==
    [d EXCEPT !.calls = rest, !.sorted = Append(@, n), !.inStack = @ \ {n}]

Visit(sources, d) ==
    IF d.calls = <<>> THEN d
    ELSE IF Head(d.calls).leave THEN LeaveName(d, Head(d.calls).name, Tail(d.calls))
    ELSE VisitName(sources, d, Head(d.calls).name, Tail(d.calls))

(* It enters each source once, and is over by then.                        *)
MostDeps(sources) ==
    CHOOSE m \in {0} \cup {Len(sources[i].deps) : i \in DOMAIN sources} :
       \A i \in DOMAIN sources : Len(sources[i].deps) <= m
LastStep(sources) == Len(sources) * (MostDeps(sources) + 3)

(* The search after n of its steps.                                        *)
Search(sources) ==
    LET after[n \in 0..LastStep(sources)] ==
           IF n = 0 THEN StartSearch(sources) ELSE Visit(sources, after[n - 1])
    IN  after

SortByDependencies(sources) == Search(sources)[LastStep(sources)]

(* NewRunner.                                                              *)
RunnerSources ==
    LET sortedNames == SortByDependencies(BuildSources).sorted
    IN  [i \in DOMAIN sortedNames |-> ByName(BuildSources, sortedNames[i])]

-----------------------------------------------------------------------------
EnrichInit ==
    /\ stage = "down" /\ plan = <<>>
    /\ runner = "local" /\ cycle = <<>> /\ step = "gate" /\ written = 0 /\ failure = FALSE
    /\ key = [s \in Used |-> "none"]
    /\ filled = {}
    /\ enrichFaults = 0

EnrichFault == enrichFaults < MaxEnrichFaults /\ enrichFaults' = enrichFaults + 1
NoEnrichFault == UNCHANGED enrichFaults

CurrentSource == Head(cycle)
Doing(s) == stage = "run" /\ cycle # <<>> /\ step = s

BeginRun(r, sources) ==
    /\ runner' = r /\ cycle' = sources
    /\ step' = "gate" /\ written' = 0 /\ failure' = FALSE

(* main up to the runners: proxies within WaitTimeout, Postgres for ever.  *)
EnricherStart == stage = "down" /\ stage' = "proxies"
         /\ UNCHANGED <<plan, progress, key, filled, enrichFaults>>

WaitForProxies ==
    /\ stage = "proxies"
    /\ \/ stage' = "postgres" /\ NoEnrichFault
       \/ stage' = "down" /\ EnrichFault
    /\ UNCHANGED <<plan, progress, key, filled>>

(* Both runners are made of the same sources.                              *)
WaitForPostgres ==
    /\ stage = "postgres"
    /\ stage' = "run"
    /\ plan' = RunnerSources
    /\ BeginRun("local", plan')
    /\ UNCHANGED <<key, filled, enrichFaults>>

(* Run has returned; whether with an error is only logged.  After the      *)
(* local runner comes the main one (RunAtStart), then the ticker.          *)
CycleEnds ==
    /\ stage = "run" /\ cycle = <<>>
    /\ IF runner = "local"
       THEN stage' = "run" /\ BeginRun("main", plan)
       ELSE stage' = "sleep" /\ BeginRun("main", <<>>)
    /\ UNCHANGED <<plan, key, filled, enrichFaults>>

EnrichTick ==
    /\ stage = "sleep"
    /\ stage' = "run"
    /\ BeginRun("main", plan)
    /\ UNCHANGED <<plan, key, filled, enrichFaults>>

(* The local runner has an Always gate.                                    *)
ShouldRun(s) == runner = "local" \/ key[s.name] \in {"none", "aged"}

Gate ==
    /\ Doing("gate")
    /\ \/ /\ ShouldRun(CurrentSource)
          /\ step' = "fetch"
          /\ NoEnrichFault
          /\ UNCHANGED cycle
       \/ /\ ~ShouldRun(CurrentSource)
          /\ cycle' = Tail(cycle)
          /\ NoEnrichFault
          /\ UNCHANGED step
       \/ /\ runner = "main"       \* Redis does not answer: the cycle ends
          /\ cycle' = <<>>
          /\ EnrichFault
          /\ UNCHANGED step
    /\ UNCHANGED <<stage, plan, runner, written, failure, key, filled>>

(* fetchJSON.                                                              *)
FetchJSON ==
    /\ Doing("fetch")
    /\ \/ step' = "write" /\ NoEnrichFault /\ UNCHANGED failure
       \/ step' = "record" /\ failure' = TRUE /\ EnrichFault
    /\ UNCHANGED <<stage, plan, runner, cycle, written, key, filled>>

(* One Upsert of the reference store, all rows or none.                    *)
UpsertTable ==
    /\ Doing("write")
    /\ LET table == CurrentSource.writes[written + 1]
       IN  \/ /\ Satisfied(table, filled)
              /\ filled' = filled \cup {table}
              /\ written' = written + 1
              /\ step' = IF written + 1 = Len(CurrentSource.writes) THEN "record" ELSE "write"
              /\ NoEnrichFault
              /\ UNCHANGED failure
           \/ /\ \/ ~Satisfied(table, filled) /\ NoEnrichFault
                 \/ EnrichFault
              /\ failure' = TRUE
              /\ step' = "record"
              /\ UNCHANGED <<filled, written>>
    /\ UNCHANGED <<stage, plan, runner, cycle, key>>

(* Bug variant: the outcome of a failed run is not looked at.              *)
RecordedAsRecent(s) == "recent"

RecordRun(s) == IF failure THEN "failed" ELSE "recent"

(* runOne: the failure of a critical source ends the cycle.                *)
After == IF failure /\ CurrentSource.critical THEN <<>> ELSE Tail(cycle)

(* An error of RecordRun is ignored.                                       *)
RecordOutcome ==
    /\ Doing("record")
    /\ \/ /\ runner = "main"
          /\ key' = [key EXCEPT ![CurrentSource.name] = RecordRun(CurrentSource)]
          /\ NoEnrichFault
       \/ /\ runner = "local"
          /\ NoEnrichFault
          /\ UNCHANGED key
       \/ /\ runner = "main"
          /\ EnrichFault
          /\ UNCHANGED key
    /\ cycle' = After
    /\ step' = "gate" /\ written' = 0 /\ failure' = FALSE
    /\ UNCHANGED <<stage, plan, runner, filled>>

(* MinAge after the start of a run its key lets the source run again, and  *)
(* MinAge after its end, or five minutes after a failure, the key expires. *)
KeyAges(s) ==
    /\ key[s] = "recent"
    /\ key' = [key EXCEPT ![s] = "aged"]
    /\ UNCHANGED <<stage, plan, progress, filled, enrichFaults>>

KeyExpires(s) ==
    /\ key[s] \in {"failed", "recent", "aged"}
    /\ key' = [key EXCEPT ![s] = "none"]
    /\ UNCHANGED <<stage, plan, progress, filled, enrichFaults>>

(* Shutdown or a crash; the transaction that is open is rolled back.       *)
EnricherCrash ==
    /\ stage # "down"
    /\ stage' = "down" /\ plan' = <<>>
    /\ BeginRun("local", <<>>)
    /\ EnrichFault
    /\ UNCHANGED <<key, filled>>

RunOne == Gate \/ FetchJSON \/ UpsertTable \/ RecordOutcome
EnrichStep == EnricherStart \/ WaitForProxies \/ WaitForPostgres \/ CycleEnds \/ EnrichTick \/ RunOne

EnrichNext == EnrichStep \/ EnricherCrash \/ \E s \in Used : KeyAges(s) \/ KeyExpires(s)

(* The process is restarted, its calls have timeouts, keys have a TTL.     *)
EnrichFairness ==
    /\ WF_enrichVars(EnrichStep)
    /\ \A s \in Used : WF_enrichVars(KeyExpires(s))
EnrichSpec == EnrichInit /\ [][EnrichNext]_enrichVars /\ EnrichFairness

-----------------------------------------------------------------------------
WritesOf(s) == ToSet((CHOOSE x \in AllSources : x.name = s).writes)

AllFilled == \A s \in Used : WritesOf(s) \subseteq filled
Refreshing(s) == Doing("fetch") /\ CurrentSource.name = s

(* runOne, RecordRun: a key that keeps a source from running for an        *)
(* interval stands for a complete run: all its tables have been written,   *)
(* whichever of its several upserts failed or crashed in runs before.      *)
GateHonest == \A s \in Used : key[s] \in {"recent", "aged"} => WritesOf(s) \subseteq filled

(* sortByDependencies: it ends, and fails exactly where the declared       *)
(* dependencies cannot be met, on a cycle, a self-reference or an unknown  *)
(* name; else every source is run once, after all it depends on.           *)
DependenciesFirst(sources) ==
    LET names  == SourceNames(sources)
        result == SortByDependencies(sources)
        Before(f) == \A i \in DOMAIN sources : \A j \in DOMAIN sources[i].deps :
                        f[sources[i].deps[j]] < f[sources[i].name]
        known == \A i \in DOMAIN sources : \A j \in DOMAIN sources[i].deps :
                    sources[i].deps[j] \in names
        place == [n \in names |-> CHOOSE i \in DOMAIN result.sorted : result.sorted[i] = n]
    IN  /\ result.calls = <<>>
        /\ result.err <=> ~(known /\ \E f \in [names -> 1..Len(sources)] : Before(f))
        /\ ~result.err => /\ ToSet(result.sorted) = names
                          /\ Len(result.sorted) = Len(sources)
                          /\ Before(place)

(* The ten sources and their tables are among them.                        *)
EnrichConstants ==
    \A s \in AllSources :
       s.name \in Strings /\ ToSet(s.deps) \subseteq Strings /\ ToSet(s.writes) \subseteq Strings

(* The input of sortByDependencies: named sources, no name twice.          *)
SortInputOK(sources) ==
    /\ sources \in Seq([name : Strings, critical : BOOLEAN, deps : Seq(Strings), writes : Seq(Strings)])
    /\ \A i, j \in DOMAIN sources : sources[i].name = sources[j].name => i = j

(* runOne, RecordRun: a key that blocks a source stands for a whole run.   *)
(* sortByDependencies: sound, complete, and fails only where it must.      *)
EnrichmentSound == GateHonest /\ (On("sort") => DependenciesFirst(probe))

=============================================================================
