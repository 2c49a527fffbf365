---------------------------- MODULE PipelineProofs ----------------------------
(***************************************************************************)
(* For any matches, workers, retry limits and any number of faults: the    *)
(* dedup set never hides a match that Postgres lacks, and a stored match   *)
(* is never taken back by an older payload.                                *)
(***************************************************************************)
EXTENDS Pipeline, TLAPS

(* SeenOnlyAfterCommit alone is not inductive: MarkSeen comes a step after *)
(* the commit, and the commit writes what an even earlier step has read.   *)
(* A busy worker has a task ...                                            *)
HasTask == \A w \in Workers : pc[w] # "idle" => task[w] \in Tasks

(* ... one about to store or to ingest has a body ...                      *)
HasBody == \A w \in Workers : pc[w] \in {"put", "ingest"} => body[w] \in Bodies

(* ... and one about to mark a match has committed it.                     *)
Committed == \A w \in Workers : pc[w] = "mark" => root[task[w].m] # "none"

IInv == TypeOK /\ HasTask /\ HasBody /\ Committed /\ SeenOnlyAfterCommit

(* Rows of matches only ever appear, whoever else waits to mark them.      *)
LEMMA RootStays ==
  ASSUME IInv, \A m \in Matches : root[m] # "none" => root'[m] # "none",
         seen' \subseteq seen,
         \A w \in Workers : pc'[w] = "mark" => pc[w] = "mark" /\ task'[w] = task[w]
  PROVE  Committed' /\ SeenOnlyAfterCommit'
  BY DEF IInv, TypeOK, HasTask, Committed, SeenOnlyAfterCommit, Tasks

(* Steps of the discoverer and of the world outside touch no worker.       *)
LEMMA HandsStill ==
  ASSUME IInv, TypeOK', UNCHANGED <<hands, root>>, seen' \subseteq seen
  PROVE  IInv'
  <1>1. HasTask' /\ HasBody'
    BY DEF IInv, HasTask, HasBody, hands
  <1>2. Committed' /\ SeenOnlyAfterCommit'
    BY RootStays DEF hands
  <1> QED BY <1>1, <1>2 DEF IInv

LEMMA OutsideStep ==
  ASSUME IInv, Trim \/ \E m \in Matches : Replayed(m) \/ SeenExpire(m) \/ PayloadExpire(m)
  PROVE  IInv'
  <1>1. ASSUME Trim PROVE TypeOK' /\ UNCHANGED <<hands, root, seen>>
    <2>1. fetchQ' \in Seq(Tasks) /\ parseQ' \in Seq(Tasks)
      <3>1. \A q \in Seq(Tasks) : q # <<>> => Tail(q) \in Seq(Tasks)
        OBVIOUS
      <3>2. fetchQ \in Seq(Tasks) /\ parseQ \in Seq(Tasks)
        BY DEF IInv, TypeOK
      <3> QED BY <1>1, <3>1, <3>2 DEF Trim
    <2> QED BY <1>1, <2>1 DEF Trim, Fault, IInv, TypeOK, redis, db, disc, hands
  <1>2. ASSUME NEW m \in Matches, Replayed(m) PROVE TypeOK' /\ UNCHANGED <<hands, root, seen>>
    BY <1>2 DEF Replayed, IInv, TypeOK, Bodies, queues, redis, db, disc, hands
  <1>3. ASSUME NEW m \in Matches, SeenExpire(m)
        PROVE  TypeOK' /\ UNCHANGED <<hands, root>> /\ seen' \subseteq seen
    BY <1>3 DEF SeenExpire, IInv, TypeOK, queues, db, disc, hands
  <1>4. ASSUME NEW m \in Matches, PayloadExpire(m)
        PROVE  TypeOK' /\ UNCHANGED <<hands, root, seen>>
    BY <1>4 DEF PayloadExpire, Fault, IInv, TypeOK, Rows, queues, db, disc, hands
  <1> QED BY <1>1, <1>2, <1>3, <1>4, HandsStill

LEMMA SweepStep == ASSUME IInv, Sweep \/ SweepFaults PROVE IInv'
  <1> USE DEF IInv, TypeOK, redis, db, hands
  <1>1. ASSUME SweepPublish PROVE TypeOK' /\ UNCHANGED <<hands, root, seen>>
    <2>1. PICK m \in chosen : fetchQ' = Append(fetchQ, [m |-> m, r |-> 0]) /\ chosen' = chosen \ {m}
      BY <1>1 DEF SweepPublish
    <2>2. [m |-> m, r |-> 0] \in Tasks
      BY PipelineAssumption DEF Tasks
    <2>3. fetchQ' \in Seq(Tasks)
      BY <2>1, <2>2
    <2> QED BY <1>1, <2>1, <2>3 DEF SweepPublish
  <1>2. ASSUME SweepStart \/ SweepFilter \/ SweepEnd PROVE TypeOK' /\ UNCHANGED <<hands, root, seen>>
    BY <1>2 DEF SweepStart, SweepFilter, SweepEnd, UnknownIDs, queues
  <1>3. ASSUME SweepFaults PROVE TypeOK' /\ UNCHANGED <<hands, root, seen>>
    BY <1>3 DEF SweepFaults, SweepStartNoRedis, SweepFilterNoDB, SweepAbort, Fault, queues
  <1> QED BY <1>1, <1>2, <1>3, HandsStill DEF Sweep

(* A worker that lets go of its task, whatever becomes of the task.        *)
LEMMA ReleaseStep ==
  ASSUME IInv, NEW w \in Workers, Release(w), UNCHANGED <<root, seen>>,
         UNCHANGED <<upstream, redis, db, disc>>,
         fetchQ' \in Seq(Tasks), parseQ' \in Seq(Tasks),
         buried' \subseteq {"fetch", "parse"} \X Matches, faults' \in Nat
  PROVE  IInv'
  <1>1. TypeOK'
    BY DEF Release, IInv, TypeOK, Steps, Rows, redis, db, disc
  <1>2. HasTask' /\ HasBody'
    BY DEF Release, IInv, TypeOK, HasTask, HasBody
  <1>3. Committed' /\ SeenOnlyAfterCommit'
    <2>1. \A v \in Workers : pc'[v] = "mark" => pc[v] = "mark" /\ task'[v] = task[v]
      BY DEF Release, IInv, TypeOK
    <2> QED BY <2>1, RootStays
  <1> QED BY <1>1, <1>2, <1>3 DEF IInv

LEMMA RetriedType ==
  ASSUME IInv, NEW w \in Workers, pc[w] # "idle", NEW q \in Seq(Tasks)
  PROVE  Retried(w, q) \in Seq(Tasks)
  <1>1. CASE task[w].r < MaxRetries
    <2>1. [task[w] EXCEPT !.r = @ + 1] \in Tasks
      BY <1>1, PipelineAssumption DEF IInv, HasTask, Tasks
    <2> QED BY <1>1, <2>1 DEF Retried
  <1>2. CASE ~(task[w].r < MaxRetries)
    BY <1>2 DEF Retried
  <1> QED BY <1>1, <1>2

LEMMA BuryType ==
  ASSUME IInv, NEW w \in Workers, pc[w] # "idle", NEW n \in {"fetch", "parse"}, Bury(w, n)
  PROVE  buried' \subseteq {"fetch", "parse"} \X Matches
  BY DEF IInv, TypeOK, HasTask, Tasks, Bury

(* A busy worker that goes on with its task.                               *)
LEMMA GotoStep ==
  ASSUME IInv, NEW w \in Workers, NEW s \in Steps \ {"idle", "mark"},
         pc[w] # "idle", Goto(w, s), TypeOK',
         s \in {"put", "ingest"} => body'[w] \in Bodies,
         \A v \in Workers : v # w => body'[v] = body[v],
         UNCHANGED <<root, seen>>
  PROVE  IInv'
  <1>1. HasTask' /\ HasBody'
    BY DEF Goto, IInv, TypeOK, HasTask, HasBody
  <1>2. \A v \in Workers : pc'[v] = "mark" => pc[v] = "mark" /\ task'[v] = task[v]
    BY DEF Goto, IInv, TypeOK
  <1>3. Committed' /\ SeenOnlyAfterCommit'
    BY <1>2, RootStays
  <1> QED BY <1>1, <1>3 DEF IInv

LEMMA TakeStep ==
  ASSUME IInv, NEW w \in Workers, FetchTake(w) \/ ParseTake(w)
  PROVE  IInv'
  <1>1. PICK q \in {fetchQ, parseQ}, s \in {"fetch", "get"} :
           /\ Take(w, q, s)
           /\ q # <<>>
           /\ fetchQ' \in {fetchQ, Tail(q)} /\ parseQ' \in {parseQ, Tail(q)}
    BY DEF FetchTake, ParseTake, Take
  <1>2. q \in Seq(Tasks) /\ Head(q) \in Tasks /\ Tail(q) \in Seq(Tasks)
    BY <1>1 DEF IInv, TypeOK
  <1>3. TypeOK'
    BY <1>1, <1>2 DEF Take, IInv, TypeOK, Steps, redis, db, disc
  <1>4. HasTask' /\ HasBody'
    BY <1>1, <1>2 DEF Take, IInv, TypeOK, HasTask, HasBody
  <1>5. \A v \in Workers : pc'[v] = "mark" => pc[v] = "mark" /\ task'[v] = task[v]
    BY <1>1 DEF Take, IInv, TypeOK
  <1>6. Committed' /\ SeenOnlyAfterCommit'
    BY <1>1, <1>5, RootStays DEF Take, redis, db
  <1> QED BY <1>3, <1>4, <1>6 DEF IInv

LEMMA CrashStep == ASSUME IInv, NEW w \in Workers, Crash(w) PROVE IInv'
  <1>1. TypeOK'
    BY DEF Crash, Fault, IInv, TypeOK, Steps, Rows, queues, redis, db, disc
  <1>2. HasTask' /\ HasBody'
    BY DEF Crash, IInv, TypeOK, HasTask, HasBody
  <1>3. \A v \in Workers : pc'[v] = "mark" => pc[v] = "mark" /\ task'[v] = task[v]
    BY DEF Crash, IInv, TypeOK
  <1>4. Committed' /\ SeenOnlyAfterCommit'
    BY <1>3, RootStays DEF Crash, redis, db
  <1> QED BY <1>1, <1>2, <1>4 DEF IInv

LEMMA FetchStep ==
  ASSUME IInv, NEW w \in Fetchers, Fetch(w) \/ FetchFaults(w) PROVE IInv'
  <1> w \in Workers
    BY DEF Workers
  <1>1. CASE Ack(w)
    BY <1>1, ReleaseStep DEF Ack, IInv, TypeOK, queues, redis, db
  <1>2. CASE FetchOne(w)
    <2>1. task[w].m \in Matches
      BY <1>2 DEF FetchOne, IInv, HasTask, Tasks
    <2>2. TypeOK' /\ body'[w] \in Bodies
      BY <1>2, <2>1 DEF FetchOne, Goto, IInv, TypeOK, Rows, Steps, queues, redis, db, disc
    <2> QED BY <1>2, <2>2, GotoStep DEF FetchOne, Steps, redis, db, IInv, TypeOK
  <1>3. CASE FetchDrop(w)
    BY <1>3, ReleaseStep DEF FetchDrop, Fault, IInv, TypeOK, queues, redis, db
  <1>4. CASE FetchPut(w)
    <2>1. TypeOK'
      BY <1>4 DEF FetchPut, Goto, IInv, TypeOK, Steps, queues, db, disc
    <2> QED BY <1>4, <2>1, GotoStep DEF FetchPut, Steps, db
  <1>5. CASE FetchPublish(w)
    <2>1. [m |-> task[w].m, r |-> 0] \in Tasks
      BY <1>5, PipelineAssumption DEF FetchPublish, IInv, HasTask, Tasks
    <2>2. parseQ' \in Seq(Tasks)
      BY <1>5, <2>1 DEF FetchPublish, IInv, TypeOK
    <2>3. TypeOK'
      BY <1>5, <2>2 DEF FetchPublish, Goto, IInv, TypeOK, Steps, redis, db, disc
    <2> QED BY <1>5, <2>3, GotoStep DEF FetchPublish, Steps, redis, db
  <1>6. CASE FetchRetry(w)
    <2>1. fetchQ' \in Seq(Tasks)
      BY <1>6, RetriedType DEF FetchRetry, IInv, TypeOK
    <2>2. buried' \subseteq {"fetch", "parse"} \X Matches
      BY <1>6, BuryType DEF FetchRetry
    <2> QED BY <1>6, <2>1, <2>2, ReleaseStep DEF FetchRetry, Fault, IInv, TypeOK, redis, db
  <1> QED BY <1>1, <1>2, <1>3, <1>4, <1>5, <1>6, TakeStep, CrashStep DEF Fetch, FetchFaults

LEMMA ParseAgainStep ==
  ASSUME IInv, NEW w \in Workers, pc[w] # "idle", ParseAgain(w), faults' \in Nat PROVE IInv'
  <1>1. parseQ' \in Seq(Tasks)
    BY RetriedType DEF ParseAgain, IInv, TypeOK
  <1>2. buried' \subseteq {"fetch", "parse"} \X Matches
    BY BuryType DEF ParseAgain
  <1> QED BY <1>1, <1>2, ReleaseStep DEF ParseAgain, IInv, TypeOK, redis, db

(* The commit: afterwards the match is in Postgres, and stays there.       *)
LEMMA IngestStep == ASSUME IInv, NEW w \in Workers, IngestMatch(w) PROVE IInv'
  <1> DEFINE m == task[w].m
  <1>1. m \in Matches /\ body[w] \in Bodies
    BY DEF IngestMatch, IInv, HasTask, HasBody, Tasks
  <1>2. \A x \in Matches : root[x] # "none" => root'[x] # "none"
    BY <1>1 DEF IngestMatch, UpsertRoot, IInv, TypeOK, Bodies
  <1>3. root'[m] # "none"
    BY <1>1 DEF IngestMatch, UpsertRoot, IInv, TypeOK, Bodies
  <1>4. TypeOK'
    BY <1>1 DEF IngestMatch, Goto, UpsertRoot, UpsertPlayers, IInv, TypeOK, Rows, Bodies, Steps,
                queues, redis, disc
  <1>5. HasTask' /\ HasBody'
    BY DEF IngestMatch, Goto, IInv, TypeOK, HasTask, HasBody
  <1>6. Committed'
    BY <1>2, <1>3 DEF IngestMatch, Goto, IInv, TypeOK, HasTask, Committed, Tasks
  <1>7. SeenOnlyAfterCommit'
    BY <1>2 DEF IngestMatch, IInv, TypeOK, SeenOnlyAfterCommit, redis
  <1> QED BY <1>4, <1>5, <1>6, <1>7 DEF IInv

LEMMA MarkStep == ASSUME IInv, NEW w \in Workers, MarkSeen(w) PROVE IInv'
  <1>1. task[w].m \in Matches /\ root[task[w].m] # "none"
    BY DEF MarkSeen, IInv, HasTask, Committed, Tasks
  <1>2. TypeOK'
    BY <1>1 DEF MarkSeen, Goto, IInv, TypeOK, Steps, queues, db, disc
  <1>3. HasTask' /\ HasBody' /\ Committed'
    BY DEF MarkSeen, Goto, IInv, TypeOK, HasTask, HasBody, Committed, db
  <1>4. SeenOnlyAfterCommit'
    BY <1>1 DEF MarkSeen, IInv, SeenOnlyAfterCommit, db
  <1> QED BY <1>2, <1>3, <1>4 DEF IInv

LEMMA ParseStep ==
  ASSUME IInv, NEW w \in Parsers, Parse(w) \/ ParseFaults(w) PROVE IInv'
  <1> w \in Workers
    BY DEF Workers
  <1>1. CASE Ack(w)
    BY <1>1, ReleaseStep DEF Ack, IInv, TypeOK, queues, redis, db
  <1>2. CASE ParseGet(w)
    <2>1. task[w].m \in Matches
      BY <1>2 DEF ParseGet, IInv, HasTask, Tasks
    <2>2. payload[task[w].m] \in Bodies
      BY <1>2, <2>1 DEF ParseGet, IInv, TypeOK, Rows
    <2>3. TypeOK' /\ body'[w] \in Bodies
      BY <1>2, <2>2 DEF ParseGet, Goto, IInv, TypeOK, Rows, Steps, queues, redis, db, disc
    <2> QED BY <1>2, <2>3, GotoStep DEF ParseGet, Steps, redis, db, IInv, TypeOK
  <1>3. CASE ParseDrop(w)
    BY <1>3, ReleaseStep DEF ParseDrop, IInv, TypeOK, queues, redis, db
  <1>4. CASE ParsePoison(w) \/ ParseRetry(w)
    BY <1>4, ParseAgainStep DEF ParsePoison, ParseRetry, Fault, IInv, TypeOK
  <1>5. CASE IngestDuplicate(w) \/ MarkSeenFails(w)
    <2>1. TypeOK'
      BY <1>5 DEF IngestDuplicate, MarkSeenFails, Fault, Goto, IInv, TypeOK, Steps,
                  queues, redis, db, disc
    <2> QED BY <1>5, <2>1, GotoStep DEF IngestDuplicate, MarkSeenFails, Steps, redis, db
  <1>6. CASE ParseDelete(w)
    <2>1. TypeOK'
      BY <1>6 DEF ParseDelete, Goto, IInv, TypeOK, Steps, Rows, queues, db, disc
    <2> QED BY <1>6, <2>1, GotoStep DEF ParseDelete, Steps, db
  <1>7. CASE ParseDeleteFails(w)
    <2>1. TypeOK'
      BY <1>7 DEF ParseDeleteFails, Fault, Goto, IInv, TypeOK, Steps, queues, redis, db, disc
    <2> QED BY <1>7, <2>1, GotoStep DEF ParseDeleteFails, Steps, redis, db
  <1> QED BY <1>1, <1>2, <1>3, <1>4, <1>5, <1>6, <1>7, TakeStep, CrashStep, IngestStep, MarkStep
          DEF Parse, ParseFaults

LEMMA PipelineInvariant == Spec => []IInv
  <1>1. Init => IInv
    <2> SUFFICES ASSUME Init PROVE IInv
      OBVIOUS
    <2>1. TypeOK
      BY DEF Init, TypeOK, Rows, Steps
    <2>2. HasTask /\ HasBody /\ Committed /\ SeenOnlyAfterCommit
      BY DEF Init, HasTask, HasBody, Committed, SeenOnlyAfterCommit
    <2> QED BY <2>1, <2>2 DEF IInv
  <1>2. IInv /\ [Next]_vars => IInv'
    <2>1. ASSUME IInv, UNCHANGED vars PROVE IInv'
      BY <2>1 DEF IInv, TypeOK, HasTask, HasBody, Committed, SeenOnlyAfterCommit,
                  vars, queues, redis, db, disc, hands
    <2> QED BY <2>1, OutsideStep, SweepStep, FetchStep, ParseStep DEF Next
  <1> QED BY <1>1, <1>2, PTL DEF Spec

(* Every variable keeps its type, in particular no task is retried more    *)
(* than MaxRetries times.                                                  *)
THEOREM PipelineTypeOK == Spec => []TypeOK
  BY PipelineInvariant, PTL DEF IInv

(* Whatever crashes, is retried, delivered twice or expires: a match that  *)
(* the discoverer's Redis filter skips is in Postgres.                     *)
THEOREM PipelineSeen == Spec => []SeenOnlyAfterCommit
  BY PipelineInvariant, PTL DEF IInv

(* No ingest, however late, takes a stored match back.                     *)
THEOREM PipelineMonotone == Spec => NeverDowngraded
  <1> DEFINE Kept == \A m \in Matches :
                        /\ root[m] = "parsed" => root'[m] = "parsed"
                        /\ root[m] = "raw" => root'[m] # "none"
                        /\ players[m] # "none" => players'[m] # "none"
  <1>1. ASSUME IInv, NEW w \in Workers, IngestMatch(w) PROVE Kept
    <2>1. task[w].m \in Matches /\ body[w] \in Bodies
      BY <1>1 DEF IngestMatch, IInv, HasTask, HasBody, Tasks
    <2> QED BY <1>1, <2>1 DEF IngestMatch, UpsertRoot, UpsertPlayers, IInv, TypeOK, Bodies
  <1>2. ASSUME Next, \A w \in Workers : ~IngestMatch(w) PROVE UNCHANGED db
    BY <1>2 DEF Next, Workers, Sweep, SweepFaults, Fetch, FetchFaults, Parse, ParseFaults,
                Trim, Replayed, SeenExpire, PayloadExpire,
                SweepStart, SweepFilter, SweepPublish, SweepEnd, SweepStartNoRedis,
                SweepFilterNoDB, SweepAbort, Take, FetchTake, ParseTake, Ack, Crash,
                FetchOne, FetchDrop, FetchPut, FetchPublish, FetchRetry,
                ParseGet, ParseDrop, ParseAgain, ParsePoison, ParseRetry, IngestDuplicate,
                MarkSeen, MarkSeenFails, ParseDelete, ParseDeleteFails
  <1>3. ASSUME IInv, [Next]_vars PROVE [Kept]_db
    BY <1>1, <1>2, <1>3 DEF vars
  <1> QED BY <1>3, PipelineInvariant, PTL DEF Spec, NeverDowngraded

=============================================================================
