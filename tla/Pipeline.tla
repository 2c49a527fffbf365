------------------------------- MODULE Pipeline -------------------------------
(***************************************************************************)
(* The way of a match through go-ingestion: the discoverer's sweeps        *)
(* (worker/discovery/matches/cycle.go) push fetch tasks, fetchers          *)
(* (worker/fetcher/fetcher.go) store payloads and push parse tasks,        *)
(* parsers (worker/parser/parser.go) decode a payload and ingest it        *)
(* (worker/ingester/ingester.go, storage/matchstore/matchpg) into          *)
(* Postgres and mark the match as seen in Redis (dedup/redisseen).         *)
(*                                                                         *)
(* One action is one call to Redis, Postgres or the upstream API.  The two *)
(* queues are abstracted to what StreamQueue shows of them: tasks come in  *)
(* order, a failed task is put back with its retry count raised until it   *)
(* goes to the dead letters, and a worker that crashed gets the task it    *)
(* held again.  The content of a match is abstracted to whether upstream   *)
(* had parsed its replay (isMatchParsed).                                  *)
(***************************************************************************)
EXTENDS Integers, Sequences, FiniteSets

CONSTANTS
    Matches,      \* the matches upstream lists
    Invalid,      \* those whose payload is no JSON or does not validate
    Poison,       \* those that fail otherwise every time: no start_time,
                  \* a negative duration, a captain's draft of no known form
    Fetchers, Parsers, \* workers: goroutines running handleMessage
    NoTask,       \* a worker without a task
    MaxRetries,   \* QUEUE_MAX_RETRIES
    SeenTTL,      \* DEDUP_TTL > 0 and no Bloom filter: seen keys expire
    MaxQueue,     \* bound: length of each queue
    MaxFaults     \* bound: crashes, errors, expired payloads, trimmed tasks

ASSUME PipelineAssumption ==
    /\ Invalid \subseteq Matches /\ Poison \subseteq Matches
    /\ Fetchers \cap Parsers = {}
    /\ NoTask \notin [m : Matches, r : Nat]
    /\ MaxRetries \in Nat \ {0}
    /\ {MaxQueue, MaxFaults} \subseteq Nat
    /\ SeenTTL \in BOOLEAN

VARIABLES
    upstream,     \* match -> raw or parsed, what the API returns
    fetchQ, parseQ, \* the queues: sequences of tasks
    buried,       \* the dead letters, by queue and match
    payload,      \* match -> the stored body, or none
    seen,         \* the dedup set
    root,         \* match -> its row in matches: none, raw or parsed
    players,      \* match -> its rows in player_matches
    sweep,        \* where the discoverer's RunOnce is
    chosen,       \* the matches it still has to filter or to publish
    pc,           \* worker -> its next step
    task,         \* worker -> the task it has
    body,         \* worker -> the payload it has read
    faults        \* counter of MaxFaults

queues == <<fetchQ, parseQ, buried>>
redis  == <<payload, seen>>
db     == <<root, players>>
disc   == <<sweep, chosen>>
hands  == <<pc, task, body>>
vars   == <<upstream, queues, redis, db, disc, hands, faults>>

Workers == Fetchers \cup Parsers
Tasks   == [m : Matches, r : 0..MaxRetries]
Bodies  == {"raw", "parsed"}
Rows    == Bodies \cup {"none"}
Usable  == Matches \ (Invalid \cup Poison)
Steps   == {"idle", "fetch", "put", "publish", "get", "ingest", "mark", "delete", "ack"}

Init ==
    /\ upstream \in [Matches -> Bodies]
    /\ \A m \in Matches \ Usable : upstream[m] = "raw"
    /\ fetchQ = <<>> /\ parseQ = <<>> /\ buried = {}
    /\ payload = [m \in Matches |-> "none"]
    /\ seen = {}
    /\ root = [m \in Matches |-> "none"]
    /\ players = [m \in Matches |-> "none"]
    /\ sweep = "idle" /\ chosen = {}
    /\ pc = [w \in Workers |-> "idle"]
    /\ task = [w \in Workers |-> NoTask]
    /\ body = [w \in Workers |-> "none"]
    /\ faults = 0

Fault == faults < MaxFaults /\ faults' = faults + 1

-----------------------------------------------------------------------------
(* The world outside.                                                      *)

(* Upstream parses the replay of a match some time after it was played; of *)
(* a match that cannot be ingested the content does not matter.            *)
Replayed(m) ==
    /\ m \in Usable
    /\ upstream[m] = "raw"
    /\ upstream' = [upstream EXCEPT ![m] = "parsed"]
    /\ UNCHANGED <<queues, redis, db, disc, hands, faults>>

(* A seen key reaches its TTL; members of the SET or Bloom filter stay.    *)
SeenExpire(m) ==
    /\ SeenTTL
    /\ m \in seen
    /\ seen' = seen \ {m}
    /\ UNCHANGED <<upstream, queues, payload, db, disc, hands, faults>>

(* A payload reaches its TTL before it is parsed.                          *)
PayloadExpire(m) ==
    /\ payload[m] # "none"
    /\ payload' = [payload EXCEPT ![m] = "none"]
    /\ Fault
    /\ UNCHANGED <<upstream, queues, seen, db, disc, hands>>

(* MAXLEN trims the oldest task of a queue.                                *)
Trim ==
    /\ \/ fetchQ # <<>> /\ fetchQ' = Tail(fetchQ) /\ UNCHANGED parseQ
       \/ parseQ # <<>> /\ parseQ' = Tail(parseQ) /\ UNCHANGED fetchQ
    /\ Fault
    /\ UNCHANGED <<upstream, buried, redis, db, disc, hands>>

-----------------------------------------------------------------------------
(* The discoverer: matches.Cycle.RunOnce.                                  *)

(* The explorer lists the matches; CheckBatch drops those seen.            *)
SweepStart ==
    /\ sweep = "idle"
    /\ chosen' = Matches \ seen
    /\ sweep' = "db"
    /\ UNCHANGED <<upstream, queues, redis, db, hands, faults>>

(* "redis batch dedup failed, falling back to db-only".                    *)
SweepStartNoRedis ==
    /\ sweep = "idle"
    /\ chosen' = Matches
    /\ sweep' = "db"
    /\ Fault
    /\ UNCHANGED <<upstream, queues, redis, db, hands>>

(* Bug variant: an unparsed row counts as known.                           *)
UnknownIDsAbsentOnly(S) == {m \in S : root[m] = "none"}

(* UnknownIDs: no row in matches, or one that is not parsed.               *)
UnknownIDs(S) == {m \in S : root[m] # "parsed"}

SweepFilter ==
    /\ sweep = "db"
    /\ chosen' = UnknownIDs(chosen)
    /\ sweep' = "publish"
    /\ UNCHANGED <<upstream, queues, redis, db, hands, faults>>

(* "db unknown-ids check failed, falling back to queue all".               *)
SweepFilterNoDB ==
    /\ sweep = "db"
    /\ sweep' = "publish"
    /\ Fault
    /\ UNCHANGED <<upstream, queues, redis, db, chosen, hands>>

SweepPublish ==
    /\ sweep = "publish"
    /\ Len(fetchQ) < MaxQueue
    /\ \E m \in chosen :
          /\ fetchQ' = Append(fetchQ, [m |-> m, r |-> 0])
          /\ chosen' = chosen \ {m}
    /\ UNCHANGED <<upstream, parseQ, buried, redis, db, sweep, hands, faults>>

SweepEnd ==
    /\ sweep = "publish"
    /\ chosen = {}
    /\ sweep' = "idle"
    /\ UNCHANGED <<upstream, queues, redis, db, chosen, hands, faults>>

(* A publish fails and RunOnce returns, or the discoverer crashes.         *)
SweepAbort ==
    /\ sweep # "idle"
    /\ sweep' = "idle"
    /\ chosen' = {}
    /\ Fault
    /\ UNCHANGED <<upstream, queues, redis, db, hands>>

-----------------------------------------------------------------------------
(* Tasks and workers.                                                      *)

Take(w, q, first) ==
    /\ pc[w] = "idle"
    /\ q # <<>>
    /\ task' = [task EXCEPT ![w] = Head(q)]
    /\ pc' = [pc EXCEPT ![w] = first]
    /\ UNCHANGED <<upstream, buried, redis, db, disc, body, faults>>

Goto(w, s) ==
    /\ pc' = [pc EXCEPT ![w] = s]
    /\ UNCHANGED task

(* The task is acknowledged: handled, or dropped by ErrDrop.               *)
Release(w) ==
    /\ pc' = [pc EXCEPT ![w] = "idle"]
    /\ task' = [task EXCEPT ![w] = NoTask]
    /\ body' = [body EXCEPT ![w] = "none"]

(* Bug variant: one retry more than the policy allows.                     *)
RetriedOnceMore(w, q) ==
    IF task[w].r <= MaxRetries
    THEN Append(q, [task[w] EXCEPT !.r = @ + 1])
    ELSE q

(* Bug variant: the task is tried again at once, and not counted.          *)
RetriedAtOnce(w, q) == <<task[w]>> \o q

(* The handler returned an error: back to the queue, or to its dead        *)
(* letters once it has had MaxRetries retries.                             *)
Retried(w, q) ==
    IF task[w].r < MaxRetries
    THEN Append(q, [task[w] EXCEPT !.r = @ + 1])
    ELSE q

Bury(w, name) ==
    buried' = IF task[w].r < MaxRetries THEN buried
              ELSE buried \cup {<<name, task[w].m>>}

(* A process dies and comes back: the tasks it had are delivered to it     *)
(* again, what it had read is gone.  A lost Ack has the same effect.       *)
Crash(w) ==
    /\ pc[w] # "idle"
    /\ pc' = [pc EXCEPT ![w] = IF w \in Fetchers THEN "fetch" ELSE "get"]
    /\ body' = [body EXCEPT ![w] = "none"]
    /\ Fault
    /\ UNCHANGED <<upstream, queues, redis, db, disc, task>>

Ack(w) ==
    /\ pc[w] = "ack"
    /\ Release(w)
    /\ UNCHANGED <<upstream, queues, redis, db, disc, faults>>

-----------------------------------------------------------------------------
(* The fetcher.                                                            *)

FetchTake(w) ==
    /\ Take(w, fetchQ, "fetch")
    /\ fetchQ' = Tail(fetchQ)
    /\ UNCHANGED parseQ

(* fetchOne: the API answers with what it has now.                         *)
FetchOne(w) ==
    /\ pc[w] = "fetch"
    /\ body' = [body EXCEPT ![w] = upstream[task[w].m]]
    /\ Goto(w, "put")
    /\ UNCHANGED <<upstream, queues, redis, db, disc, faults>>

(* A PermanentHTTPError drops the task.                                    *)
FetchDrop(w) ==
    /\ pc[w] = "fetch"
    /\ Release(w)
    /\ Fault
    /\ UNCHANGED <<upstream, queues, redis, db, disc>>

FetchPut(w) ==
    /\ pc[w] = "put"
    /\ payload' = [payload EXCEPT ![task[w].m] = body[w]]
    /\ Goto(w, "publish")
    /\ UNCHANGED <<upstream, queues, seen, db, disc, body, faults>>

FetchPublish(w) ==
    /\ pc[w] = "publish"
    /\ Len(parseQ) < MaxQueue
    /\ parseQ' = Append(parseQ, [m |-> task[w].m, r |-> 0])
    /\ Goto(w, "ack")
    /\ UNCHANGED <<upstream, fetchQ, buried, redis, db, disc, body, faults>>

(* The request, the payload store or the out-queue failed.                 *)
FetchRetry(w) ==
    /\ pc[w] \in {"fetch", "put", "publish"}
    /\ fetchQ' = Retried(w, fetchQ)
    /\ Bury(w, "fetch")
    /\ Release(w)
    /\ Fault
    /\ UNCHANGED <<upstream, parseQ, redis, db, disc>>

-----------------------------------------------------------------------------
(* The parser and the ingester.                                            *)

ParseTake(w) ==
    /\ Take(w, parseQ, "get")
    /\ parseQ' = Tail(parseQ)
    /\ UNCHANGED fetchQ

ParseGet(w) ==
    /\ pc[w] = "get"
    /\ payload[task[w].m] # "none"
    /\ task[w].m \notin Invalid \cup Poison
    /\ body' = [body EXCEPT ![w] = payload[task[w].m]]
    /\ Goto(w, "ingest")
    /\ UNCHANGED <<upstream, queues, redis, db, disc, faults>>

(* A payload that is gone is dropped, and so is one that is invalid.       *)
ParseDrop(w) ==
    /\ pc[w] = "get"
    /\ payload[task[w].m] = "none" \/ task[w].m \in Invalid
    /\ Release(w)
    /\ UNCHANGED <<upstream, queues, redis, db, disc, faults>>

ParseAgain(w) ==
    /\ parseQ' = Retried(w, parseQ)
    /\ Bury(w, "parse")
    /\ Release(w)
    /\ UNCHANGED <<upstream, fetchQ, redis, db, disc>>

(* Other decode errors and an invalid draft are retried, for nothing.      *)
ParsePoison(w) ==
    /\ pc[w] = "get"
    /\ payload[task[w].m] # "none"
    /\ task[w].m \in Poison \ Invalid
    /\ ParseAgain(w)
    /\ UNCHANGED faults

(* Bug variant: the WHERE clause is missing and is_parsed overwritten.     *)
UpsertRootOverwrites(old, new) == new

(* upsertMatchRoot: ON CONFLICT DO UPDATE ... WHERE matches.is_parsed =    *)
(* FALSE OR EXCLUDED.is_parsed = TRUE.                                     *)
UpsertRoot(old, new) == IF old = "raw" \/ new = "parsed" \/ old = "none" THEN new ELSE old

(* upsertPlayers: ON CONFLICT DO NOTHING.                                  *)
UpsertPlayers(old, new) == IF old = "none" THEN new ELSE old

(* IngestMatch commits its transaction.                                    *)
IngestMatch(w) ==
    LET m == task[w].m
    IN  /\ pc[w] = "ingest"
        /\ root' = [root EXCEPT ![m] = UpsertRoot(@, body[w])]
        /\ players' = [players EXCEPT ![m] = UpsertPlayers(@, body[w])]
        /\ Goto(w, "mark")
        /\ UNCHANGED <<upstream, queues, redis, disc, body, faults>>

(* Bug variant: "already seen" is also recorded in Redis.                  *)
IngestDuplicateMarks(w) ==
    /\ pc[w] = "ingest"
    /\ Goto(w, "mark")
    /\ Fault
    /\ UNCHANGED <<upstream, queues, redis, db, disc, body>>

(* A unique violation anywhere in the transaction counts as "already       *)
(* seen": the payload is deleted and the task acknowledged.                *)
IngestDuplicate(w) ==
    /\ pc[w] = "ingest"
    /\ Goto(w, "delete")
    /\ Fault
    /\ UNCHANGED <<upstream, queues, redis, db, disc, body>>

(* The payload read, the transaction or the circuit breaker failed;        *)
(* ExtendTTL keeps the payload.                                            *)
ParseRetry(w) ==
    /\ pc[w] \in {"get", "ingest"}
    /\ ParseAgain(w)
    /\ Fault

MarkSeen(w) ==
    /\ pc[w] = "mark"
    /\ seen' = seen \cup {task[w].m}
    /\ Goto(w, "delete")
    /\ UNCHANGED <<upstream, queues, payload, db, disc, body, faults>>

(* "failed to mark match as seen in dedup" is only logged.                 *)
MarkSeenFails(w) ==
    /\ pc[w] = "mark"
    /\ Goto(w, "delete")
    /\ Fault
    /\ UNCHANGED <<upstream, queues, redis, db, disc, body>>

(* The payload is deleted by its match id, whatever body it has by now.    *)
ParseDelete(w) ==
    /\ pc[w] = "delete"
    /\ payload' = [payload EXCEPT ![task[w].m] = "none"]
    /\ Goto(w, "ack")
    /\ UNCHANGED <<upstream, queues, seen, db, disc, body, faults>>

ParseDeleteFails(w) ==
    /\ pc[w] = "delete"
    /\ Goto(w, "ack")
    /\ Fault
    /\ UNCHANGED <<upstream, queues, redis, db, disc, body>>

-----------------------------------------------------------------------------
Sweep == SweepStart \/ SweepFilter \/ SweepPublish \/ SweepEnd
SweepFaults == SweepStartNoRedis \/ SweepFilterNoDB \/ SweepAbort

Fetch(w) == FetchTake(w) \/ FetchOne(w) \/ FetchPut(w) \/ FetchPublish(w) \/ Ack(w)
FetchFaults(w) == FetchDrop(w) \/ FetchRetry(w) \/ Crash(w)

Parse(w) ==
    \/ ParseTake(w) \/ ParseGet(w) \/ ParseDrop(w) \/ ParsePoison(w) \/ IngestMatch(w)
    \/ MarkSeen(w) \/ ParseDelete(w) \/ Ack(w)
ParseFaults(w) ==
    \/ IngestDuplicate(w) \/ ParseRetry(w) \/ MarkSeenFails(w) \/ ParseDeleteFails(w)
    \/ Crash(w)

Next ==
    \/ Sweep \/ SweepFaults \/ Trim
    \/ \E m \in Matches : Replayed(m) \/ SeenExpire(m) \/ PayloadExpire(m)
    \/ \E w \in Fetchers : Fetch(w) \/ FetchFaults(w)
    \/ \E w \in Parsers : Parse(w) \/ ParseFaults(w)

Spec == Init /\ [][Next]_vars

(* The scheduler's ticker starts sweep after sweep, workers run on, keys   *)
(* with a TTL expire.  Nothing obliges a fault to happen.                  *)
FairSpec ==
    /\ Spec
    /\ WF_vars(Sweep)
    /\ \A w \in Fetchers : WF_vars(Fetch(w))
    /\ \A w \in Parsers : WF_vars(Parse(w))
    /\ \A m \in Matches : WF_vars(SeenExpire(m))

-----------------------------------------------------------------------------
TypeOK ==
    /\ upstream \in [Matches -> Bodies]
    /\ fetchQ \in Seq(Tasks) /\ parseQ \in Seq(Tasks)
    /\ buried \subseteq {"fetch", "parse"} \X Matches
    /\ payload \in [Matches -> Rows]
    /\ seen \subseteq Matches
    /\ root \in [Matches -> Rows] /\ players \in [Matches -> Rows]
    /\ sweep \in {"idle", "db", "publish"} /\ chosen \subseteq Matches
    /\ pc \in [Workers -> Steps]
    /\ task \in [Workers -> Tasks \cup {NoTask}]
    /\ body \in [Workers -> Rows]
    /\ faults \in Nat

(* README.md: "Redis dedup is updated only after successful DB commit to   *)
(* prevent data loss": whatever is retried, delivered twice or expires,    *)
(* the discoverer's Redis filter never hides a match that Postgres lacks.  *)
SeenOnlyAfterCommit == \A m \in seen : root[m] # "none"

(* upsertMatchRoot: an older payload ingested after a newer one (two tasks *)
(* of the same match, two parsers, a slow one or one that was restarted)   *)
(* never takes a row back.                                                 *)
NeverDowngraded ==
    [][\A m \in Matches :
          /\ root[m] = "parsed" => root'[m] = "parsed"
          /\ root[m] = "raw" => root'[m] # "none"
          /\ players[m] # "none" => players'[m] # "none"]_db

(* parser.go: a dropped task is no loss, for "the discoverer's periodic    *)
(* sweep calls UnknownIDs(), detects the missing match, and automatically  *)
(* publishes a fresh fetch task": every usable match gets stored, while     *)
(* the unusable ones go round for ever.                                    *)
SelfHealing == \A m \in Usable : <>(root[m] # "none")

(* ARCHITECTURE.md: a match that "has is_parsed = FALSE" is pushed again:  *)
(* once upstream has parsed a usable match, so has the database.            *)
EventuallyParsed ==
    \A m \in Usable : (upstream[m] = "parsed") ~> (root[m] = "parsed")

(* ARCHITECTURE.md: is_parsed marks the matches "that are already fully    *)
(* parsed in PostgreSQL".                                                  *)
FullyParsed == \A m \in Matches : root[m] = "parsed" => players[m] = "parsed"

=============================================================================
