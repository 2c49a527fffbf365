------------------------------ MODULE Discoverer ------------------------------
(***************************************************************************)
(* cmd/discoverer: the Scheduler (worker/discovery/scheduler.go) runs its  *)
(* cycles one after the other at the start and then each from a goroutine  *)
(* of its own, on a ticker.  The matches cycle asks the explorer until it  *)
(* answers, filters and publishes; the others fetch a list and upsert it   *)
(* over what is stored.  A list is abstracted to its edition upstream; the *)
(* tasks that the matches cycle publishes have a module, Pipeline, and     *)
(* here only its choice of them is modelled, as operators.                 *)
(***************************************************************************)
EXTENDS Integers, Sequences, FiniteSets, SequencesExt, Probes

CONSTANTS
    Cycles,        \* the cycles of main in order: "matches" first
    AtStart,       \* cycles with RunAtStart
    Repeated,      \* cycles with an interval > 0
    MaxEdition,    \* bound: editions of a list
    MaxDiscFaults  \* bound: failures, empty answers, crashes

VARIABLES
    main,       \* the scheduler's loop: its cycle and its step
    run,        \* cycle, by whom -> where its RunOnce is, with what it fetched
    tick,       \* cycles with a tick in their channel
    edition,    \* cycle -> edition upstream
    stored,     \* cycle -> edition upserted, or published
    dedupReady, \* redisseen.New succeeded
    discFaults

discVars == <<main, run, tick, edition, stored, dedupReady, discFaults>>

Kinds == ToSet(Cycles)
Runners == Kinds \X {"main", "ticker"}
NotRunning == [at |-> "none", got |-> 0]
Sleeping   == [at |-> "sleep", got |-> 0]
Booting    == [i |-> 1, at |-> "boot"]

(* main makes one cycle of a kind.                                         *)
DiscovererConstants ==
    Len(Cycles) \in Nat /\ Cycles \in [1..Len(Cycles) -> Kinds] /\ IsInjective(Cycles)

DiscInit ==
    /\ main = Booting
    /\ run = [x \in Runners |-> NotRunning]
    /\ tick = {} /\ discFaults = 0 /\ dedupReady = TRUE
    /\ edition = [c \in Kinds |-> 1] /\ stored = [c \in Kinds |-> 0]

DiscFault == discFaults < MaxDiscFaults /\ discFaults' = discFaults + 1
NoDiscFault == UNCHANGED discFaults

-----------------------------------------------------------------------------
(* main: "dedup init failed, proceeding without dedup".                    *)
Boot ==
    /\ main.at = "boot"
    /\ \/ dedupReady' = TRUE /\ NoDiscFault
       \/ dedupReady' = FALSE /\ DiscFault
    /\ main' = [i |-> 1, at |-> "start"]
    /\ UNCHANGED <<run, tick, edition, stored>>

CurrentCycle == Cycles[main.i]

AfterStart == IF CurrentCycle \in AtStart THEN "first" ELSE "spawn"

(* Bug variant: the goroutine is started before the run at the start.      *)
StartCycleSpawned ==
    /\ main.at = "start" /\ main.i <= Len(Cycles)
    /\ run' = [x \in Runners |->
                 IF x = <<CurrentCycle, "main">> /\ CurrentCycle \in AtStart
                 THEN [at |-> "fetch", got |-> 0]
                 ELSE IF x = <<CurrentCycle, "ticker">> /\ CurrentCycle \in Repeated
                 THEN Sleeping ELSE run[x]]
    /\ main' = [main EXCEPT !.at = AfterStart]
    /\ UNCHANGED <<tick, edition, stored, dedupReady, discFaults>>

(* Scheduler.Run: RunAtStart cycles run here, before their goroutine is.   *)
StartCycle ==
    /\ main.at = "start" /\ main.i <= Len(Cycles)
    /\ run' = IF CurrentCycle \in AtStart THEN [run EXCEPT ![<<CurrentCycle, "main">>].at = "fetch"] ELSE run
    /\ main' = [main EXCEPT !.at = AfterStart]
    /\ UNCHANGED <<tick, edition, stored, dedupReady, discFaults>>

Spawn ==
    /\ main.at = "spawn"
    /\ run' = IF CurrentCycle \in Repeated THEN [run EXCEPT ![<<CurrentCycle, "ticker">>] = Sleeping] ELSE run
    /\ main' = [i |-> main.i + 1, at |-> "start"]
    /\ UNCHANGED <<tick, edition, stored, dedupReady, discFaults>>

(* The ticker's channel holds one tick, others are dropped.                *)
Tick(c) ==
    /\ run[<<c, "ticker">>].at # "none" /\ c \notin tick
    /\ tick' = tick \cup {c}
    /\ UNCHANGED <<main, run, edition, stored, dedupReady, discFaults>>

TakeTick(c) ==
    /\ run[<<c, "ticker">>].at = "sleep" /\ c \in tick
    /\ tick' = tick \ {c}
    /\ run' = [run EXCEPT ![<<c, "ticker">>].at = "fetch"]
    /\ UNCHANGED <<main, edition, stored, dedupReady, discFaults>>

-----------------------------------------------------------------------------
(* runCycle: an error is only logged.                                      *)
Returned(c, who, ok) == IF who = "ticker" THEN Sleeping ELSE NotRunning

RunEnds(c, who, ok) ==
    /\ run' = [run EXCEPT ![<<c, who>>] = Returned(c, who, ok)]
    /\ main' = IF who = "main" /\ main.at = "first" THEN [main EXCEPT !.at = "spawn"] ELSE main

FetchList(c, who) ==
    /\ run[<<c, who>>].at = "fetch"
    /\ run' = [run EXCEPT ![<<c, who>>] = [at |-> "write", got |-> edition[c]]]
    /\ UNCHANGED <<main, tick, edition, stored, dedupReady, discFaults>>

(* The matches cycle asks again, without end; others return the error.     *)
FetchFails(c, who) ==
    /\ run[<<c, who>>].at = "fetch" /\ DiscFault
    /\ IF c = "matches" THEN UNCHANGED <<main, run>> ELSE RunEnds(c, who, FALSE)
    /\ UNCHANGED <<tick, edition, stored, dedupReady>>

(* No rows, or none that can be decoded: nothing to write.                 *)
FetchEmpty(c, who) ==
    /\ run[<<c, who>>].at = "fetch" /\ DiscFault
    /\ RunEnds(c, who, TRUE)
    /\ UNCHANGED <<tick, edition, stored, dedupReady>>

(* A nil *Seen is a dedup.Seen that is not nil: CheckBatch panics.         *)
Panics(c) == c = "matches" /\ ~dedupReady

(* One statement or one transaction; or every task is published.           *)
UpsertList(c, who) ==
    /\ run[<<c, who>>].at = "write" /\ ~Panics(c)
    /\ stored' = [stored EXCEPT ![c] = run[<<c, who>>].got]
    /\ RunEnds(c, who, TRUE)
    /\ UNCHANGED <<tick, edition, dedupReady, discFaults>>

UpsertFails(c, who) ==
    /\ run[<<c, who>>].at = "write" /\ ~Panics(c) /\ DiscFault
    /\ RunEnds(c, who, FALSE)
    /\ UNCHANGED <<tick, edition, stored, dedupReady>>

(* The process ends, with every goroutine, and its container starts again. *)
Gone ==
    /\ main' = Booting
    /\ run' = [x \in Runners |-> NotRunning]
    /\ tick' = {}
    /\ UNCHANGED <<edition, stored, dedupReady>>

Panic(c, who) == run[<<c, who>>].at = "write" /\ Panics(c) /\ Gone /\ NoDiscFault
DiscCrash == main.at # "boot" /\ DiscFault /\ Gone

NewEdition(c) ==
    /\ edition[c] < MaxEdition
    /\ edition' = [edition EXCEPT ![c] = @ + 1]
    /\ UNCHANGED <<main, run, tick, stored, dedupReady, discFaults>>

-----------------------------------------------------------------------------
RunOnce(c, who) == FetchList(c, who) \/ UpsertList(c, who) \/ Panic(c, who)
RunFails(c, who) == FetchFails(c, who) \/ FetchEmpty(c, who) \/ UpsertFails(c, who)
Schedule == Boot \/ StartCycle \/ Spawn
Wakes(c) == Tick(c) \/ TakeTick(c)

DiscNext ==
    \/ Schedule \/ DiscCrash
    \/ \E c \in Kinds : Wakes(c) \/ NewEdition(c)
    \/ \E x \in Runners : RunOnce(x[1], x[2]) \/ RunFails(x[1], x[2])

(* The process is started and runs, tickers tick, calls return.            *)
DiscFairness ==
    /\ WF_discVars(Schedule)
    /\ \A c \in Kinds : WF_discVars(Wakes(c))
    /\ \A x \in Runners : WF_discVars(RunOnce(x[1], x[2]))
DiscSpec == DiscInit /\ [][DiscNext]_discVars /\ DiscFairness

(* Scheduler.Run: the run at the start and the ticker's never overlap, so  *)
(* a list fetched earlier is never upserted over one fetched later.        *)
NeverOlder == [][\A c \in Kinds : stored'[c] >= stored[c]]_discVars

AllStored == \A c \in Repeated : stored[c] = edition[c]

-----------------------------------------------------------------------------
(* matches.Cycle.RunOnce: from rows to tasks.  A row has a match_id with a *)
(* start_time or without, or the match_ids of the legacy query; an id may  *)
(* be unreadable.  Neither filter looks at the order of the references.    *)
Unreadable == 0

extractID(x) == IF x > 0 THEN {x} ELSE {}

Refs(row) ==
    IF row.id = <<>>
    THEN {[m |-> x, start |-> 0] : x \in UNION {extractID(row.ids[j]) : j \in DOMAIN row.ids}}
    ELSE {[m |-> x, start |-> row.start] : x \in extractID(row.id[1])}

parseMatchRefs(listed) == UNION {Refs(listed[i]) : i \in DOMAIN listed}

(* Bug variant: an unknown start_time matches no row.                      *)
JoinsOnBoth(ref, r) == r.m = ref.m /\ r.start = ref.start

Joins(ref, r) == r.m = ref.m /\ (ref.start = 0 \/ r.start = ref.start)

Unknown(ref, table) ==
    LET joined == {r \in table : Joins(ref, r)}
    IN  joined = {} \/ \E r \in joined : ~r.parsed

UnknownIDs(refs, table) == {ref.m : ref \in {x \in refs : Unknown(x, table)}}

(* Redis first, then the database; a filter that is out lets all through.  *)
QueueCandidates(listed, seenIDs, table, redisUp, dbUp) ==
    LET refs == parseMatchRefs(listed)
        dbCandidates == {ref \in refs : ~redisUp \/ ref.m \notin seenIDs}
        unknownSet == UnknownIDs(dbCandidates, table)
    IN  {ref \in dbCandidates : ~dbUp \/ ref.m \in unknownSet}

Queued(listed, seenIDs, table, redisUp, dbUp) ==
    {ref.m : ref \in QueueCandidates(listed, seenIDs, table, redisUp, dbUp)}

ListedIDs(listed) ==
    (UNION {IF listed[i].id = <<>> THEN {listed[i].ids[j] : j \in DOMAIN listed[i].ids}
            ELSE {listed[i].id[1]} : i \in DOMAIN listed}) \ {Unreadable}

(* What a sweep meets: rows with a match_id or without, and the matches    *)
(* table, where a match has one row, with the start_time it is listed by.  *)
SweepOK(sweep) ==
    /\ \A i \in DOMAIN sweep.listed :
          LET row == sweep.listed[i]
          IN  /\ row.id = <<>> \/ row.id[1] \in Nat
              /\ row.id = <<>> => \A j \in DOMAIN row.ids : row.ids[j] \in Nat
              /\ row.id # <<>> => \A r \in sweep.table :
                    r.m = row.id[1] => row.start \in {0, r.start}
    /\ \A r, t \in sweep.table : r.m = t.m => r = t
    /\ \A r \in sweep.table : r.parsed \in BOOLEAN

(* RunOnce, "Only truly new IDs hit the queue": of the ids that are        *)
(* listed, in either form, those that are neither seen nor stored as       *)
(* parsed, and all of those, as long as both filters are up; with one or   *)
(* both out, what the other lets through, and never fewer.                 *)
QueuesTheUnknown ==
    On("queue") =>
       LET ids == ListedIDs(probe.listed)
           parsed == {r.m : r \in {t \in probe.table : t.parsed}}
       IN  \A redisUp, dbUp \in BOOLEAN :
              Queued(probe.listed, probe.seen, probe.table, redisUp, dbUp) =
                 (ids \ (IF redisUp THEN probe.seen ELSE {})) \ (IF dbUp THEN parsed ELSE {})

=============================================================================
