------------------------------ MODULE MCPlatform ------------------------------
(***************************************************************************)
(* The parts of go-ingestion around the queues and the pipeline, and those *)
(* of go-analysis, each on an instance of its own.  They share nothing but *)
(* the databases, which each models as far as it uses them: part says      *)
(* which one a behaviour is of, the others stand still.  Algorithms are    *)
(* checked on every member of a set of inputs that probe is chosen from.   *)
(***************************************************************************)
EXTENDS HttpDoer, DeadLetter, Migrator, IngestTx, Discoverer, EnrichRunner, MatchDecode, MCAnalysis,
        CircuitBreaker

-----------------------------------------------------------------------------
(* The instances; platform.cfg has the other constants.                    *)
TwoCycles == <<"matches", "leagues">>

GoStrings == STRING

(* The two migrator images: one has a migration more.  One database.       *)
KnownVersions == [m \in Migrators |-> IF m = "ingestion" THEN 1..2 ELSE 1..3]
OneLock == [m \in Migrators |-> 1]

-----------------------------------------------------------------------------
(* Inputs of the algorithms.                                               *)

(* Every dependency graph of three sources, unknown names included.        *)
Names == {"a", "b", "c"}
SortInputs ==
    {<<Source("a", TRUE, f["a"], <<>>), Source("b", TRUE, f["b"], <<>>),
       Source("c", TRUE, f["c"], <<>>)>> :
       f \in [Names -> {<<>>, <<"a">>, <<"b">>, <<"c">>, <<"d">>, <<"a", "b">>, <<"c", "b">>, <<"c", "a">>}]}

(* Explorer rows: with a match_id, or the legacy match_ids; 0 for an id    *)
(* that cannot be read.  Matches 1 and 2 start at 11 and 12.               *)
ListedRow(id, ids, start) == [id |-> id, ids |-> ids, start |-> start]
ListedRows ==
    {ListedRow(<<i>>, <<>>, s) : i \in 1..2, s \in {0}} \cup
    {ListedRow(<<i>>, <<>>, 10 + i) : i \in 1..2} \cup
    {ListedRow(<<0>>, <<>>, 11), ListedRow(<<>>, <<>>, 0), ListedRow(<<>>, <<1, 0, 2>>, 0)}
StoredRows == {[m |-> i, start |-> 10 + i, parsed |-> b] : i \in 1..2, b \in BOOLEAN}
QueueInputs ==
    [listed : {<<>>} \cup [1..1 -> ListedRows] \cup [1..2 -> ListedRows],
     seen : SUBSET {1, 2},
     table : {t \in SUBSET StoredRows : \A x, y \in t : x.m = y.m => x = y}]

(* Players: one with lists of any lengths and counts beyond an int16; two  *)
(* that may share a slot.                                                  *)
Player(slot, log, gold, xp, lh, dn, times) ==
    [slot |-> slot, hero |-> 1, purchaseLog |-> log, goldT |-> gold, xpT |-> xp, lhT |-> lh,
     dnT |-> dn, times |-> times, win |-> 1, isRadiant |-> Nil, firstblood |-> Nil]
Bare(log, slot) == Player(slot, log, <<>>, <<>>, <<>>, <<>>, <<>>)
PlayerInputs ==
    LET lists  == {<<>>, <<1>>, <<1, 2>>}
        counts == {<<>>, <<1>>, <<1, TooMuch>>}
        small  == {Player(slot, Nil, gold, <<>>, lh, <<>>, <<>>) :
                      slot \in {0, 128}, gold \in lists, lh \in counts}
    IN  {<<Player(0, Nil, gold, xp, lh, dn, times)>> :
            gold \in lists, xp \in lists, lh \in counts, dn \in counts, times \in lists} \cup
        {<<p, q>> : p, q \in small}

(* Payloads of one match, with and without each kind of content, and some  *)
(* that are refused.                                                       *)
Event(ok) == [player |-> Nil, key |-> "key", wellFormed |-> ok]
FullPayload ==
    [json |-> TRUE, matchID |-> ParseTask, start |-> 9, duration |-> 0, radiantWin |-> TRUE,
     score |-> 7, url |-> "url", pauses |-> "pauses", objectives |-> <<Event(TRUE)>>,
     chat |-> <<Event(TRUE)>>, goldAdv |-> <<3>>, xpAdv |-> <<4>>, cosmetics |-> "cosmetics",
     picks |-> <<0, 1>>, players |-> <<Bare("log", 0)>>]
Extras == {<<<<>>, <<>>, <<>>, Nil>>, <<<<Event(FALSE)>>, <<3>>, <<>>, "null">>,
           <<<<Event(TRUE)>>, <<>>, <<4>>, Nil>>, <<<<Event(TRUE)>>, <<3>>, <<4>>, "cosmetics">>}
Payloads ==
    {[FullPayload EXCEPT !.radiantWin = win, !.pauses = raw[1], !.url = raw[2],
         !.objectives = x[1], !.chat = x[1], !.goldAdv = x[2], !.xpAdv = x[3],
         !.cosmetics = x[4], !.players = players] :
       win \in {Nil, TRUE, FALSE}, raw \in {<<Nil, Nil>>, <<"null", "">>, <<"pauses", "url">>},
       x \in Extras, players \in {<<Bare(Nil, 0)>>, <<Bare(Nil, 0), Bare("log", 128)>>}} \cup
    {[FullPayload EXCEPT !.json = FALSE], [FullPayload EXCEPT !.start = 0],
     [FullPayload EXCEPT !.duration = -1], [FullPayload EXCEPT !.start = -9],
     [FullPayload EXCEPT !.picks = <<0, 2>>], [FullPayload EXCEPT !.matchID = 0],
     [FullPayload EXCEPT !.players[1].hero = -1], [FullPayload EXCEPT !.players[1].slot = 7]}

(* Payloads of the one match: raw, parsed, of an illegal draft, and parsed *)
(* with the least there is.                                                *)
AnyDoc == [match |-> "m1", parsed |-> TRUE, legal |-> TRUE, has |-> Tables]
DocAt ==
    <<AnyDoc, [AnyDoc EXCEPT !.parsed = FALSE], [AnyDoc EXCEPT !.legal = FALSE],
      [AnyDoc EXCEPT !.has = {"matches", "players", "details"}]>>
FourDocs == ToSet(DocAt)

(* The instances meet what the theorems about their modules assume.        *)
ASSUME PlatformConstants ==
    /\ DoerConstants /\ LetterConstants /\ MigratorConstants
    /\ IngestConstants /\ DiscovererConstants /\ EnrichConstants /\ DecodeConstants
    /\ \A sources \in SortInputs : SortInputOK(sources)
    /\ \A sweep \in QueueInputs : SweepOK(sweep)
    /\ PlayerInputs \subseteq Seq(rawPlayer)

-----------------------------------------------------------------------------
Chooses(p, inputs) == part = p /\ probe \in inputs
Algorithms ==
    \/ Chooses("sort", SortInputs) \/ Chooses("queue", QueueInputs)
    \/ Chooses("players", PlayerInputs) \/ Chooses("drafts", DraftInputs)
Parts ==
    {"doer", "dlq", "migrator", "enricher", "ingest", "discoverer", "parser",
     "breaker", "serving", "simulate", "backtest"}

(* Of two deliveries that are alike one order of their payloads is enough. *)
EitherOrder ==
    UNION {{[t \in Txs |-> DocAt[IF t = "t1" THEN i ELSE j]] : j \in i..4} : i \in 1..4}

(* A part that stands still is in one of its initial states.  Of those of  *)
(* Serving the run has two: the first models were put where current is, as *)
(* directories, and there is a value model exactly with LightGBM.          *)
Init ==
    /\ Algorithms \/ (part \in Parts /\ probe = None)
    /\ doc \in IF On("ingest") THEN EitherOrder ELSE {[t \in Txs |-> AnyDoc]}
    /\ On("serving") \/ config = [kind |-> "lgbm", value |-> TRUE]
    /\ On("simulate") \/ (catalog = 0..5 /\ k = 1 /\ scoring = "up")
    /\ On("backtest") \/ (limit = 0 /\ rows = CHOOSE r \in ThreeMatches : TRUE)
    /\ DoerInit /\ DlqInit /\ MigratorInit /\ EnrichInit /\ TxInit /\ DiscInit /\ DecodeInit
    /\ BreakerInit
    /\ ServingInit /\ real # {} /\ config.value = (config.kind = "lgbm") /\ SimInit /\ BackInit

storeVars == <<migVars, txVars, decodeVars>>
ingestionVars == <<doerVars, dlqVars, enrichVars, discVars, breakerVars, storeVars>>
analysisVars == <<serveVars, simVars, backVars>>
vars == <<part, probe, ingestionVars, analysisVars>>

(* A step of the part that runs.                                           *)
IngestionNext ==
    \/ On("doer") /\ DoerNext /\ UNCHANGED <<dlqVars, enrichVars, discVars, breakerVars, storeVars>>
    \/ On("dlq") /\ DlqNext /\ UNCHANGED <<doerVars, enrichVars, discVars, breakerVars, storeVars>>
    \/ On("enricher") /\ EnrichNext /\ UNCHANGED <<doerVars, dlqVars, discVars, breakerVars, storeVars>>
    \/ On("discoverer") /\ DiscNext /\ UNCHANGED <<doerVars, dlqVars, enrichVars, breakerVars, storeVars>>
    \/ On("breaker") /\ BreakerNext /\ UNCHANGED <<doerVars, dlqVars, enrichVars, discVars, storeVars>>

StoreNext ==
    \/ On("migrator") /\ MigratorNext /\ UNCHANGED <<txVars, decodeVars>>
    \/ On("ingest") /\ TxNext /\ UNCHANGED <<migVars, decodeVars>>
    \/ On("parser") /\ HandleMessage /\ UNCHANGED <<migVars, txVars>>

AnalysisNext ==
    \/ On("serving") /\ ServingNext /\ UNCHANGED <<simVars, backVars>>
    \/ On("simulate") /\ SimNext /\ UNCHANGED <<serveVars, backVars>>
    \/ On("backtest") /\ BackNext /\ UNCHANGED <<serveVars, simVars>>

Next ==
    /\ UNCHANGED <<part, probe>>
    /\ \/ IngestionNext /\ UNCHANGED analysisVars
       \/ StoreNext /\ UNCHANGED <<doerVars, dlqVars, enrichVars, discVars, breakerVars, analysisVars>>
       \/ AnalysisNext /\ UNCHANGED ingestionVars

(* The fairness of each part, for its own behaviours.                      *)
Fairness ==
    /\ \A c \in Callers : WF_doerVars(On("doer") /\ Do(c))
    /\ \A o \in Operators : WF_dlqVars(On("dlq") /\ opc[o] # "idle" /\ Tool(o))
    /\ \A o \in Operators : SF_dlqVars(On("dlq") /\ ReplayAll(o))
    /\ \A g \in Guards : WF_dlqVars(On("dlq") /\ GuardExpire(g))
    /\ \A m \in Migrators : WF_migVars(On("migrator") /\ Step(m))
    /\ WF_enrichVars(On("enricher") /\ EnrichStep)
    /\ \A s \in Used : WF_enrichVars(On("enricher") /\ KeyExpires(s))
    /\ \A t \in Txs : WF_txVars(On("ingest") /\ IngestMatch(t))
    /\ \A t \in Txs : WF_txVars(On("ingest") /\ Redeliver(t))
    /\ WF_discVars(On("discoverer") /\ Schedule)
    /\ \A c \in Kinds : WF_discVars(On("discoverer") /\ Wakes(c))
    /\ \A x \in Runners : WF_discVars(On("discoverer") /\ RunOnce(x[1], x[2]))
    /\ \A w \in Workers : WF_breakerVars(On("breaker") /\ Allow(w))
    /\ \A w \in Workers : WF_breakerVars(On("breaker") /\ Outcome(w))
    /\ \A w \in Workers : WF_breakerVars(On("breaker") /\ InBreaker(w))
    /\ \A t \in Timers : WF_breakerVars(On("breaker") /\ (TimerFire(t) \/ TimerExit(t)))
    /\ WF_serveVars(On("serving") /\ FeaturizerStep)
    /\ WF_serveVars(On("serving") /\ ApiStep)
    /\ WF_serveVars(On("serving") /\ TrainerStep)

Spec == Init /\ [][Next]_vars /\ Fairness

-----------------------------------------------------------------------------
(* What is checked.  Each part states its invariants and its step          *)
(* properties in its own module, with the reasons; they hold of a part     *)
(* that stands still as well.  What must happen is asked, here, of the     *)
(* part that runs.                                                         *)

(* httpdo.Do: every request ends, whatever the proxies and upstream answer *)
(* and however little the pool has, so each goroutine is free again and    *)
(* again.  cmd/dlq: Replay's guard also hides letters that it should not,  *)
(* of a killed operator, of a lost reply, of a match that failed again;    *)
(* none for ever.  migrator.Run: refused locks, failures and kills only    *)
(* delay.  ensureHeroStubs: in whatever order hero rows are locked, no two *)
(* ingests wait for each other for ever, and every legal payload gets in   *)
(* or has used up its deliveries.                                          *)
EveryJobEnds ==
    /\ \A c \in Callers : []<>(On("doer") => At(c, "idle"))
    /\ <>[](/\ On("dlq") => dead = {}
            /\ On("migrator") => AllComplete
            /\ On("ingest") => AllEnded)

(* enrich.Runner and Gate: the reference data becomes complete, since no   *)
(* source comes before the rows it refers to, and each source is refreshed *)
(* again and again: no key, left by a success or a failure, keeps it out.  *)
(* Scheduler.Run, RunOnce: the last edition of a list is stored, whatever  *)
(* fails, though first runs wait for each other and for the explorer.      *)
DataKeptFresh ==
    /\ <>[]((On("enricher") => AllFilled) /\ (On("discoverer") => AllStored))
    /\ \A s \in Used : []<>(On("enricher") => Refreshing(s))

(* Runner.Run, WaitForLaunchKey, and ModelWatcher.Watch with a channel for *)
(* one signal: the key is set in the end, whatever cycles fail at first,   *)
(* the API comes up, and no SIGHUP is lost, one that comes during a reload *)
(* neither: at last the API has all of the imitation model that was last   *)
(* published, also where a reload read the files of two publications;      *)
(* unless its last load failed.                                            *)
ModelServed == <>[](On("serving") => LastServed)

-----------------------------------------------------------------------------
(* Behaviours of one part, for what the repository says of it.             *)
BacktestRun == (part = "backtest" /\ Init) /\ [][Next]_vars /\ Fairness
ServingRun == (part = "serving" /\ Init) /\ [][Next]_vars /\ Fairness

(* go-analysis/README.md: imitation and value models are "hot-reloaded by  *)
(* the API on SIGHUP": the value model in use is the last one in the end.  *)
ValueReloaded == <>[](On("serving") => ValueServed)

=============================================================================
