----------------------------- MODULE StreamQueue -----------------------------
(***************************************************************************)
(* redisstreams.Queue: one Redis stream, its consumer group and its        *)
(* dead-letter stream, shared by the worker processes that Subscribe to it *)
(* (go-ingestion/internal/queue/redisstreams/queue.go).                    *)
(*                                                                         *)
(* One action is one Redis command or Lua script together with the Go code *)
(* around it: the commands of different workers interleave, a Lua script   *)
(* is atomic.  The handler a worker runs is abstracted to its result: nil  *)
(* or ErrDrop (Succeed), or any other error or a panic (Fail).  A message  *)
(* stands for one call of Publish; its payload and headers never change.   *)
(***************************************************************************)
EXTENDS Integers, FiniteSets

CONSTANTS
    Msgs,         \* the messages that Publish may be called with
    Consumers,    \* the worker processes, by consumer name
    NoMsg, NoOne, \* null values
    MaxId,        \* bound: entries ever added to the stream
    Batch,        \* Config.SubscribeBatch
    Workers,      \* Config.SubscribeWorkers
    MaxRetries,   \* Config.Policy.MaxRetries, 0 = retry for ever
    MaxLen,       \* Config.MaxLen, the approximate length of both streams
    DeleteOnAck,  \* Config.DeleteOnAck
    HasDLQ,       \* Config.DLQStream is set
    Recover,      \* Config.SubscribeRecover
    AsyncRetry,   \* EnableAsyncRetry was called with a ZSetKey
    AsyncMaxRetries, \* AsyncRetryConfig.MaxRetries, 0 = no limit of its own
    MaxCrashes,   \* bound: workers killed
    MaxFaults,    \* bound: Redis commands that fail
    MaxSlow       \* bound: entries claimed from a worker that is still up

ASSUME QueueAssumption ==
    /\ NoMsg \notin Msgs
    /\ NoOne \notin Consumers
    /\ {MaxId, Batch, Workers} \subseteq Nat \ {0}
    /\ {MaxRetries, MaxLen, AsyncMaxRetries, MaxCrashes, MaxFaults, MaxSlow} \subseteq Nat
    /\ {DeleteOnAck, HasDLQ, Recover, AsyncRetry} \subseteq BOOLEAN

Ids == 1..MaxId
NoId == 0
NoGroup == -1
Phases == {"off", "pop", "new", "pending", "pel", "down"}

VARIABLES
    nextId,     \* the id XADD gives to the next entry
    msgOf,      \* entry -> its message
    retries,    \* entry -> field "r"
    present,    \* entries still in the stream
    cursor,     \* the group's last-delivered id, or NoGroup
    owner,      \* entry -> the consumer in whose PEL it is, or NoOne
    dlq,        \* dead-letter entries: own id, source entry, payload kept?
    dlqNext,    \* the id XADD gives to the next dead-letter entry
    delayed,    \* the ZSET of asynchronous retries, by source entry
    phase,      \* consumer -> where its Subscribe loop is
    batch,      \* consumer -> entries read and decoded, handler not started
    running,    \* consumer -> entries whose handler runs
    broken,     \* consumer -> entries read that do not decode
    maturing,   \* consumer -> delayed entries read by matureAsyncRetries
    remDue,     \* consumer -> delayed entry whose XADD ran, ZREM is next
    handled,    \* history: messages for which a handler returned nil or ErrDrop
    dropped,    \* history: messages given up for want of a dead-letter stream
    lost,       \* history: entries that left Redis without being acked
    crashes, faults, slow   \* counters of the bounds above

log     == <<nextId, msgOf, retries, present, lost>>
group   == <<cursor, owner>>
dead    == <<dlq, dlqNext>>
loop    == <<phase, batch, running, broken>>
async   == <<delayed, maturing, remDue>>
fates   == <<handled, dropped>>
budgets == <<crashes, faults, slow>>
vars    == <<log, group, dead, loop, async, fates, budgets>>

-----------------------------------------------------------------------------
(* State functions.                                                        *)

Published   == {m \in Msgs : \E i \in Ids : msgOf[i] = m}
Undelivered == {i \in present : i > cursor}
(* Bug variant: the pending entries of the whole group.                    *)
PendingOfGroup(c) == {i \in Ids : owner[i] # NoOne}

Pending(c)  == {i \in Ids : owner[i] = c}
Held(c)     == batch[c] \cup running[c]
Up(c)       == phase[c] \notin {"off", "down"}

(* The entry still waits in the stream: not delivered yet, or delivered    *)
(* and not acknowledged.                                                   *)
Live(i) == i \in present /\ (i > cursor \/ owner[i] # NoOne)

Buried(i) == \E d \in dlq : d.id = i /\ d.full

-----------------------------------------------------------------------------
Init ==
    /\ nextId = 1
    /\ msgOf = [i \in Ids |-> NoMsg]
    /\ retries = [i \in Ids |-> 0]
    /\ present = {} /\ lost = {}
    /\ cursor = NoGroup
    /\ owner = [i \in Ids |-> NoOne]
    /\ dlq = {} /\ dlqNext = 1
    /\ delayed = {}
    /\ phase = [c \in Consumers |-> "off"]
    /\ batch = [c \in Consumers |-> {}]
    /\ running = [c \in Consumers |-> {}]
    /\ broken = [c \in Consumers |-> {}]
    /\ maturing = [c \in Consumers |-> {}]
    /\ remDue = [c \in Consumers |-> NoId]
    /\ handled = {} /\ dropped = {}
    /\ crashes = 0 /\ faults = 0 /\ slow = 0

-----------------------------------------------------------------------------
(* Redis.                                                                  *)

(* XADD ... MAXLEN ~ n drops whole nodes of oldest entries as long as n    *)
(* entries stay, so it may drop any prefix 1..k that leaves n, or nothing. *)
MayTrim(S, n, k) == k = 0 \/ Cardinality({i \in S : i > k}) >= n

(* XADD of an entry for m with retry field r, trimming the entries up to   *)
(* k, followed by XDEL of the entries gone.  An entry trimmed while it was *)
(* live is recorded as lost.                                               *)
XAdd(m, r, k, gone) ==
    /\ nextId <= MaxId
    /\ nextId' = nextId + 1
    /\ msgOf' = [msgOf EXCEPT ![nextId] = m]
    /\ retries' = [retries EXCEPT ![nextId] = r]
    /\ present' = {i \in present \cup {nextId} : i > k} \ gone
    /\ lost' = lost \cup {i \in (present \cup {nextId}) \ gone :
                             i <= k /\ (i > cursor \/ owner[i] # NoOne)}

(* XADD to the dead-letter stream, MAXLEN ~ too: dead letters up to its k  *)
(* go, and with them the last copy of their messages.                      *)
XAddDLQ(i, full, k, gone) ==
    LET all == dlq \cup {[n |-> dlqNext, id |-> i, full |-> full]}
    IN  /\ MayTrim({d.n : d \in all}, MaxLen, k)
        /\ dlq' = {d \in all : d.n > k}
        /\ dlqNext' = dlqNext + 1
        /\ lost' = lost \cup {d.id : d \in {e \in all : e.n <= k /\ e.full}}
        /\ present' = present \ gone
        /\ UNCHANGED <<nextId, msgOf, retries>>

(* XACK removes an entry from the PEL, whoever owns it by now.             *)
XAck(i) == owner' = [owner EXCEPT ![i] = NoOne]

XDel(S) ==
    /\ present' = present \ S
    /\ UNCHANGED <<nextId, msgOf, retries, lost>>

(* What Ack deletes: XDEL follows XACK when DeleteOnAck, its error is      *)
(* ignored.                                                                *)
AckDeletes(i) == IF DeleteOnAck THEN {{i}, {}} ELSE {{}}

Fault == faults < MaxFaults /\ faults' = faults + 1
NoFault == UNCHANGED faults

-----------------------------------------------------------------------------
(* Publish: a fresh entry with retry count 0.  A MaxLen of 0 means no      *)
(* trimming here.                                                          *)
Publish(m) ==
    /\ m \notin Published
    /\ \E k \in 0..nextId :
          /\ IF MaxLen > 0 THEN MayTrim(present \cup {nextId}, MaxLen, k) ELSE k = 0
          /\ XAdd(m, 0, k, {})
    /\ UNCHANGED <<group, dead, loop, async, fates, budgets>>

(* Bug variant: the group starts after the next entry.                     *)
EnsureGroupAhead ==
    IF cursor = NoGroup
    THEN /\ cursor' = nextId
         /\ lost' = lost \cup present
    ELSE UNCHANGED <<cursor, lost>>

(* New: ensureGroup creates the group at "$" unless it exists, so entries  *)
(* published before the first worker starts are never delivered.           *)
EnsureGroup ==
    IF cursor = NoGroup
    THEN /\ cursor' = nextId - 1
         /\ lost' = lost \cup present
    ELSE UNCHANGED <<cursor, lost>>

StartFrom(c, p) ==
    /\ phase[c] = p
    /\ EnsureGroup
    /\ phase' = [phase EXCEPT ![c] = "pop"]
    /\ UNCHANGED <<nextId, msgOf, retries, present, owner, dead, batch, running, broken,
                   async, fates, budgets>>

Start(c)   == StartFrom(c, "off")
Restart(c) == StartFrom(c, "down")

(* A worker is killed, or shut down with work in hand: what Redis holds    *)
(* stays, everything in the process is gone.                               *)
Crash(c) ==
    /\ Up(c)
    /\ crashes < MaxCrashes
    /\ crashes' = crashes + 1
    /\ phase' = [phase EXCEPT ![c] = "down"]
    /\ batch' = [batch EXCEPT ![c] = {}]
    /\ running' = [running EXCEPT ![c] = {}]
    /\ broken' = [broken EXCEPT ![c] = {}]
    /\ maturing' = [maturing EXCEPT ![c] = {}]
    /\ remDue' = [remDue EXCEPT ![c] = NoId]
    /\ UNCHANGED <<log, group, dead, delayed, fates, faults, slow>>

-----------------------------------------------------------------------------
(* Subscribe: Pop, process, PopPending, process, for ever.                 *)

(* Bug variant: XREADGROUP with NOACK, nothing enters the PEL.             *)
DeliverNoAck(c, k) ==
    /\ phase[c] = "pop"
    /\ cursor # NoGroup
    /\ k \in Undelivered
    /\ Cardinality({i \in Undelivered : i <= k}) <= Batch
    /\ cursor' = k
    /\ UNCHANGED owner

(* XREADGROUP ">": the oldest undelivered entries up to k go to c's PEL.   *)
(* adjustForBackpressure may have reduced the batch to anything from 1.    *)
Deliver(c, k) ==
    LET S == {i \in Undelivered : i <= k}
    IN  /\ phase[c] = "pop"
        /\ cursor # NoGroup
        /\ k \in Undelivered
        /\ Cardinality(S) <= Batch
        /\ owner' = [i \in Ids |-> IF i \in S THEN c ELSE owner[i]]
        /\ cursor' = k

Pop(c) ==
    /\ \E k \in Ids :
          /\ Deliver(c, k)
          /\ batch' = [batch EXCEPT ![c] = {i \in Undelivered : i <= k}]
    /\ phase' = [phase EXCEPT ![c] = "new"]
    /\ UNCHANGED <<log, dead, running, broken, async, fates, budgets>>

(* The entries were delivered but the reply was lost: Subscribe logs the   *)
(* error and goes on to PopPending.                                        *)
PopReplyLost(c) ==
    /\ \E k \in Ids : Deliver(c, k)
    /\ Fault
    /\ phase' = [phase EXCEPT ![c] = "pending"]
    /\ UNCHANGED <<log, dead, batch, running, broken, async, fates, crashes, slow>>

(* Bug variant: Subscribe continues on ErrEmpty without PopPending.        *)
PopEmptyContinue(c) ==
    /\ phase[c] = "pop"
    /\ Undelivered = {}
    /\ UNCHANGED vars

(* Nothing arrived before the block time was over (ErrEmpty).              *)
PopEmpty(c) ==
    /\ phase[c] = "pop"
    /\ Undelivered = {}
    /\ phase' = [phase EXCEPT ![c] = "pending"]
    /\ UNCHANGED <<log, group, dead, batch, running, broken, async, fates, budgets>>

(* processTasks: a free worker takes the next entry of the batch.          *)
Dispatch(c) ==
    /\ phase[c] \in {"new", "pel"}
    /\ broken[c] = {}
    /\ Cardinality(running[c]) < Workers
    /\ \E i \in batch[c] :
          /\ \A j \in batch[c] : i <= j
          /\ batch' = [batch EXCEPT ![c] = @ \ {i}]
          /\ running' = [running EXCEPT ![c] = @ \cup {i}]
    /\ UNCHANGED <<log, group, dead, phase, broken, async, fates, budgets>>

(* processTasks returns once every handler has (wg.Wait).                  *)
BatchDone(c) ==
    /\ phase[c] \in {"new", "pel"}
    /\ Held(c) \cup broken[c] = {}
    /\ phase' = [phase EXCEPT ![c] = IF @ = "new" THEN "pending" ELSE "pop"]
    /\ UNCHANGED <<log, group, dead, batch, running, broken, async, fates, budgets>>

(* Bug variant: entries that do not decode are skipped.                    *)
PopPendingSkips(c) ==
    /\ phase[c] = "pending"
    /\ \E k \in Pending(c) :
          LET S == {i \in Pending(c) : i <= k}
          IN  /\ Cardinality(S) <= Batch
              /\ batch' = [batch EXCEPT ![c] = S \cap present]
    /\ phase' = [phase EXCEPT ![c] = "pel"]
    /\ UNCHANGED <<log, group, dead, running, broken, async, fates, budgets>>

(* XREADGROUP "0": the oldest entries of c's own PEL.  An entry that has   *)
(* left the stream comes back without fields and does not decode.          *)
PopPending(c) ==
    /\ phase[c] = "pending"
    /\ \E k \in Pending(c) :
          LET S == {i \in Pending(c) : i <= k}
          IN  /\ Cardinality(S) <= Batch
              /\ batch' = [batch EXCEPT ![c] = S \cap present]
              /\ broken' = [broken EXCEPT ![c] = S \ present]
    /\ phase' = [phase EXCEPT ![c] = "pel"]
    /\ UNCHANGED <<log, group, dead, running, async, fates, budgets>>

PopPendingEmpty(c) ==
    /\ phase[c] = "pending"
    /\ Pending(c) = {}
    /\ phase' = [phase EXCEPT ![c] = "pop"]
    /\ UNCHANGED <<log, group, dead, batch, running, broken, async, fates, budgets>>

-----------------------------------------------------------------------------
(* processOne: the end of a handler.                                       *)

Done(c, i) ==
    /\ i \in running[c]
    /\ running' = [running EXCEPT ![c] = @ \ {i}]
    /\ UNCHANGED <<phase, batch, broken>>

(* The handler returned nil or ErrDrop: Ack.                               *)
Succeed(c, i) ==
    /\ Done(c, i)
    /\ handled' = handled \cup {msgOf[i]}
    /\ XAck(i)
    /\ \E S \in AckDeletes(i) : XDel(S)
    /\ UNCHANGED <<cursor, dead, async, dropped, budgets>>

(* ... and XACK failed: the error is ignored, the entry stays in the PEL.  *)
SucceedAckLost(c, i) ==
    /\ Done(c, i)
    /\ handled' = handled \cup {msgOf[i]}
    /\ Fault
    /\ UNCHANGED <<log, group, dead, async, dropped, crashes, slow>>

(* Bug variant: the dead letter is added but the entry is not acked.       *)
RouteDLQNoAck(i, full) ==
    /\ \E k \in 0..dlqNext : XAddDLQ(i, full, k, {})
    /\ UNCHANGED <<owner, dropped>>

(* routeDLQ of entry i, with or without its payload; with no dead-letter   *)
(* stream configured the task is dropped by an Ack.                        *)
RouteDLQ(i, full) ==
    /\ XAck(i)
    /\ IF HasDLQ
       THEN /\ \E k \in 0..dlqNext : XAddDLQ(i, full, k, {i})
            /\ UNCHANGED dropped
       ELSE /\ \E S \in AckDeletes(i) : XDel(S)
            /\ dropped' = IF full THEN dropped \cup {msgOf[i]} ELSE dropped
            /\ UNCHANGED dead

(* Bug variant: XADD alone, the old entry stays in the PEL.                *)
RequeueAddOnly(i) ==
    /\ \E k \in 0..nextId :
          /\ MayTrim(present \cup {nextId}, MaxLen, k)
          /\ XAdd(msgOf[i], retries[i] + 1, k, {})
    /\ UNCHANGED <<owner, dead, dropped, delayed>>

(* requeue: XADD, XACK and XDEL in one script, always with MAXLEN.         *)
Requeue(i) ==
    /\ \E k \in 0..nextId :
          /\ MayTrim(present \cup {nextId}, MaxLen, k)
          /\ XAdd(msgOf[i], retries[i] + 1, k, {i})
    /\ XAck(i)
    /\ UNCHANGED <<dead, dropped, delayed>>

(* scheduleAsyncRetry: ZADD and XACK in one script.                        *)
ScheduleAsyncRetry(i) ==
    /\ delayed' = delayed \cup {i}
    /\ XAck(i)
    /\ XDel(IF DeleteOnAck THEN {i} ELSE {})
    /\ UNCHANGED <<dead, dropped>>

(* Bug variant: gives up one retry early.                                  *)
ShouldDLQEarly(n) == MaxRetries > 0 /\ n >= MaxRetries

ShouldDLQ(n) == MaxRetries > 0 /\ n > MaxRetries
AsyncExhausted(n) == AsyncMaxRetries > 0 /\ n > AsyncMaxRetries

(* Retry.                                                                  *)
Retry(i) ==
    LET n == retries[i] + 1
    IN  IF ShouldDLQ(n) \/ (AsyncRetry /\ AsyncExhausted(n))
        THEN RouteDLQ(i, TRUE) /\ UNCHANGED delayed
        ELSE IF AsyncRetry THEN ScheduleAsyncRetry(i) ELSE Requeue(i)

(* The handler failed or panicked.                                         *)
Fail(c, i) ==
    /\ Done(c, i)
    /\ Retry(i)
    /\ UNCHANGED <<cursor, maturing, remDue, handled, budgets>>

(* ... and the retry script failed too: the error is ignored.              *)
FailRetryLost(c, i) ==
    /\ Done(c, i)
    /\ Fault
    /\ UNCHANGED <<log, group, dead, async, fates, crashes, slow>>

(* PopPending sends an entry that does not decode to the dead letters,     *)
(* knowing nothing but its id.                                             *)
RouteBroken(c, i) ==
    /\ i \in broken[c]
    /\ broken' = [broken EXCEPT ![c] = @ \ {i}]
    /\ RouteDLQ(i, FALSE)
    /\ UNCHANGED <<cursor, phase, batch, running, async, handled, budgets>>

RouteBrokenLost(c, i) ==
    /\ i \in broken[c]
    /\ broken' = [broken EXCEPT ![c] = @ \ {i}]
    /\ Fault
    /\ UNCHANGED <<log, group, dead, phase, batch, running, async, fates, crashes, slow>>

-----------------------------------------------------------------------------
(* staleRecoveryLoop / RecoverStale: XAUTOCLAIM moves an entry that was    *)
(* idle for ten minutes to c's PEL; an entry no longer in the stream is    *)
(* taken out of the PEL.  The owner may be dead or merely slow.            *)
RecoverStale(c, i) ==
    /\ Recover
    /\ Up(c)
    /\ owner[i] \notin {NoOne, c}
    /\ owner' = [owner EXCEPT ![i] = IF i \in present THEN c ELSE NoOne]
    /\ IF Up(owner[i])
       THEN slow < MaxSlow /\ slow' = slow + 1
       ELSE UNCHANGED slow
    /\ UNCHANGED <<log, cursor, dead, loop, async, fates, crashes, faults>>

(* Bug variant: the members leave the ZSET when they are read.             *)
MatureReadPops(c) ==
    /\ AsyncRetry
    /\ Up(c)
    /\ maturing[c] = {} /\ remDue[c] = NoId
    /\ \E S \in SUBSET delayed \ {{}} :
          /\ maturing' = [maturing EXCEPT ![c] = S]
          /\ delayed' = delayed \ S
    /\ UNCHANGED <<log, group, dead, loop, remDue, fates, budgets>>

(* matureAsyncRetries: read the members that are due, then send XADD and   *)
(* ZREM for each in one pipeline, which is no transaction: Redis runs the  *)
(* commands one by one, those of other clients in between, and runs ZREM   *)
(* whatever XADD replied.  Every worker polls on its own.                  *)
MatureRead(c) ==
    /\ AsyncRetry
    /\ Up(c)
    /\ maturing[c] = {} /\ remDue[c] = NoId
    /\ \E S \in SUBSET delayed \ {{}} : maturing' = [maturing EXCEPT ![c] = S]
    /\ UNCHANGED <<log, group, dead, loop, delayed, remDue, fates, budgets>>

MatureAdd(c, i) ==
    /\ i \in maturing[c]
    /\ remDue[c] = NoId
    /\ XAdd(msgOf[i], retries[i] + 1, 0, {})
    /\ maturing' = [maturing EXCEPT ![c] = @ \ {i}]
    /\ remDue' = [remDue EXCEPT ![c] = i]
    /\ UNCHANGED <<group, dead, loop, delayed, fates, budgets>>

(* XADD got an error reply (out of memory, a script running): the pipeline *)
(* goes on to ZREM all the same.                                           *)
MatureAddRefused(c, i) ==
    /\ i \in maturing[c]
    /\ remDue[c] = NoId
    /\ Fault
    /\ maturing' = [maturing EXCEPT ![c] = @ \ {i}]
    /\ remDue' = [remDue EXCEPT ![c] = i]
    /\ UNCHANGED <<log, group, dead, loop, delayed, fates, crashes, slow>>

(* The connection broke: the rest of the pipeline never ran.               *)
MatureAborted(c) ==
    /\ maturing[c] # {} \/ remDue[c] # NoId
    /\ Fault
    /\ maturing' = [maturing EXCEPT ![c] = {}]
    /\ remDue' = [remDue EXCEPT ![c] = NoId]
    /\ UNCHANGED <<log, group, dead, loop, delayed, fates, crashes, slow>>

(* The next retry of entry i was added to the stream.                      *)
Readded(i) == \E j \in Ids : msgOf[j] = msgOf[i] /\ retries[j] = retries[i] + 1

(* ZREM.  An entry that leaves the ZSET though no XADD of its retry was    *)
(* accepted is recorded as lost.                                           *)
MatureRemove(c) ==
    /\ remDue[c] # NoId
    /\ delayed' = delayed \ {remDue[c]}
    /\ remDue' = [remDue EXCEPT ![c] = NoId]
    /\ lost' = lost \cup {i \in delayed : i = remDue[c] /\ ~Readded(i)}
    /\ UNCHANGED <<nextId, msgOf, retries, present, group, dead, loop, maturing, fates, budgets>>

-----------------------------------------------------------------------------
Loop(c) ==
    \/ Pop(c) \/ PopEmpty(c) \/ Dispatch(c) \/ BatchDone(c)
    \/ PopPending(c) \/ PopPendingEmpty(c)

Finish(c) ==
    \E i \in Ids : \/ Succeed(c, i) \/ Fail(c, i) \/ RouteBroken(c, i)

Failure(c) ==
    \/ PopReplyLost(c)
    \/ \E i \in Ids : \/ SucceedAckLost(c, i)
                      \/ FailRetryLost(c, i)
                      \/ RouteBrokenLost(c, i)
                      \/ MatureAddRefused(c, i)
    \/ MatureAborted(c)
    \/ Crash(c)

Mature(c) ==
    \/ MatureRead(c)
    \/ \E i \in Ids : MatureAdd(c, i)
    \/ MatureRemove(c)

Claim(c) == \E i \in Ids : RecoverStale(c, i)

Next ==
    \/ \E m \in Msgs : Publish(m)
    \/ \E c \in Consumers :
          \/ Start(c) \/ Restart(c)
          \/ Loop(c) \/ Finish(c) \/ Failure(c)
          \/ Claim(c) \/ Mature(c)

Spec == Init /\ [][Next]_vars

(* Scheduling: a worker that is up keeps looping and its handlers return;   *)
(* the container runtime starts it and, with restart: unless-stopped,       *)
(* starts it again after a crash.  Failures are never obliged to happen.    *)
WorkerFairness(c) ==
    /\ WF_vars(Start(c)) /\ WF_vars(Loop(c)) /\ WF_vars(Finish(c))
    /\ WF_vars(Mature(c)) /\ WF_vars(Claim(c))

(* Workers that crash may stay down: another worker has to do their work.  *)
FailoverSpec == Spec /\ \A c \in Consumers : WorkerFairness(c)

(* Workers that crash come back under the same consumer name.              *)
RestartSpec == FailoverSpec /\ \A c \in Consumers : WF_vars(Restart(c))

-----------------------------------------------------------------------------
(* What becomes of a message.                                              *)

Waiting(m) ==
    \E i \in Ids :
       /\ msgOf[i] = m
       /\ \/ Live(i) \/ i \in delayed
          \/ \E c \in Consumers : i \in Held(c)

Dead(m) == m \in dropped \/ \E i \in Ids : msgOf[i] = m /\ Buried(i)

Fate(m) ==
    IF m \notin Published THEN "unsent"
    ELSE IF m \in handled THEN (IF Waiting(m) THEN "again" ELSE "done")
    ELSE IF Dead(m) THEN "dead"
    ELSE IF Waiting(m) THEN "waiting"
    ELSE "lost"

-----------------------------------------------------------------------------
(* Every variable has its type; nothing refers to an entry not yet added.  *)
TypeOK ==
    /\ nextId \in 1..(MaxId + 1)
    /\ msgOf \in [Ids -> Msgs \cup {NoMsg}]
    /\ \A i \in Ids : (msgOf[i] = NoMsg) <=> (i >= nextId)
    /\ retries \in [Ids -> Nat]
    /\ present \in SUBSET Ids /\ lost \in SUBSET Ids
    /\ \A i \in present \cup lost : i < nextId
    /\ cursor \in -1..MaxId /\ cursor < nextId
    /\ owner \in [Ids -> Consumers \cup {NoOne}]
    /\ dlq \in SUBSET [n : Nat, id : Ids, full : BOOLEAN]
    /\ \A d \in dlq : d.id < nextId
    /\ dlqNext \in Nat
    /\ delayed \in SUBSET Ids
    /\ phase \in [Consumers -> Phases]
    /\ batch \in [Consumers -> SUBSET Ids]
    /\ running \in [Consumers -> SUBSET Ids]
    /\ broken \in [Consumers -> SUBSET Ids]
    /\ maturing \in [Consumers -> SUBSET Ids]
    /\ remDue \in [Consumers -> Ids \cup {NoId}]
    /\ handled \in SUBSET Msgs /\ dropped \in SUBSET Msgs
    /\ crashes \in Nat /\ faults \in Nat /\ slow \in Nat

(* At-least-once delivery (the scripts of Retry, Ack, PopPending): however *)
(* publishers, workers, crashes, Redis errors, claims and delayed retries  *)
(* interleave, a published message that nobody handled or gave up still    *)
(* waits somewhere.  The ways to lose one are those of the code, each      *)
(* recorded where it happens: MAXLEN trims an entry that is live or a dead *)
(* letter, the group is created after the entry was published, or Redis    *)
(* refuses the XADD of a delayed retry whose ZREM the pipeline still runs. *)
NoTaskLost ==
    \A m \in Msgs : Fate(m) = "lost" => \E i \in lost : msgOf[i] = m

(* luaRequeueAtomic and luaRouteDLQAtomic: "without this, a crash between  *)
(* XAdd and XAck duplicates the message".  With neither XAUTOCLAIM nor     *)
(* delayed retries (the production wiring) a message is never in play      *)
(* twice: one stream entry, one handler or one dead letter.                *)
InPlay(i) == Live(i) \/ Buried(i) \/ \E c \in Consumers : i \in Held(c)

SingleCopy ==
    ~Recover /\ ~AsyncRetry =>
        /\ \A i, j \in Ids :
              msgOf[i] = msgOf[j] /\ msgOf[i] # NoMsg /\ InPlay(i) /\ InPlay(j) => i = j
        /\ \A d, e \in dlq : d.full /\ e.full /\ d.id = e.id => d = e

(* Without XAUTOCLAIM no entry is processed by two workers at once: what a *)
(* worker has read and not finished is in its own PEL, through crashes,    *)
(* restarts and lost acknowledgements.                                     *)
ExclusiveHold ==
    ~Recover => \A c \in Consumers : \A i \in Held(c) : owner[i] = c

(* Retry / ShouldDLQ: a message whose payload reached the dead letters was *)
(* tried once with every retry count from 0 to MaxRetries.                 *)
DeadAfterAllRetries ==
    ~AsyncRetry => \A d \in dlq : d.full =>
        /\ MaxRetries > 0
        /\ \A r \in 0..MaxRetries :
              \E i \in Ids : msgOf[i] = msgOf[d.id] /\ retries[i] = r

(* Every message that waits, handled before or not, is handled, given up   *)
(* or lost in the end.                                                     *)
Settles ==
    \A m \in Msgs : Fate(m) \in {"waiting", "again"} ~> Fate(m) \notin {"waiting", "again"}

(* PopPending: every entry that was delivered leaves the PEL in the end,   *)
(* also one whose worker crashed with it in hand or whose acknowledgement  *)
(* was lost.  No production worker sets SubscribeRecover, so it is the     *)
(* worker itself, restarted under the same consumer name, that takes its   *)
(* entries up again; XAUTOCLAIM has no part in it.                         *)
InFlightReclaimed == \A i \in Ids : owner[i] # NoOne ~> owner[i] = NoOne

(* The queue implements the life cycle of messages that Delivery states.   *)
Lifecycle == INSTANCE Delivery WITH fate <- [m \in Msgs |-> Fate(m)]

LifecycleSpec == Lifecycle!Spec

=============================================================================
