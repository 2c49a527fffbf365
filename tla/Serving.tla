------------------------------- MODULE Serving -------------------------------
(***************************************************************************)
(* go-analysis at run time: the featurizer that fills the views and says   *)
(* so with a launch key, the API that waits for the key, wires its feature *)
(* builder and loads an imitation and a value model, the SIGHUP that       *)
(* reloads the first while requests run, and the trainer that publishes    *)
(* both by moving the links that the API reads spec.json and model.bin     *)
(* through, one after the other.                                           *)
(***************************************************************************)
EXTENDS Integers, Sequences, FiniteSets, SequencesExt

CONSTANTS
    Views,           \* the materialized views, 1..n in the order of mvList
    Publications,    \* 1..n, what the trainer publishes in turn
    SpecOf,          \* imitation, value -> publication -> its spec.json, or
                     \* NoModel if the publication has no such model
    Requesters,
    NoModel,
    MaxServeFaults   \* bound: failures and crashes

VARIABLES
    config,     \* of the API: kind of scorer, whether VALUE_MODEL_DIR is set
    link,       \* model -> the publication that current leads to, or 0
    real,       \* models whose current is a directory, no link
    release,    \* the publication that is made, or was made last
    swap,       \* the model that _publish_one is at, or none
    owed,       \* a publication that SIGHUP was not yet sent for
    populated,  \* views that have been refreshed
    launchKey,  \* featurizer_ready
    turn,       \* the featurizer: next view, key, snapshot, or asleep
    api,        \* down, wait, wire, load, value, serving
    builder,    \* the spec of the feature builder
    scorer,     \* the scorer in use, or NoModel
    value,      \* the value model in use, or NoModel
    loading,    \* LoadModel: what is read next, whose spec it has read
    watching,   \* signal.Notify was called
    hup,        \* a SIGHUP in the channel
    failedLast, \* the last load of the imitation model failed
    req,        \* requester -> its request
    serveFaults

trainer    == <<link, real, release, swap, owed>>
featurizer == <<populated, launchKey, turn>>
server     == <<api, builder, scorer, value, loading, watching, hup, failedLast>>
serveVars  == <<config, trainer, featurizer, server, req, serveFaults>>

-----------------------------------------------------------------------------
(* Features.  A definition is a name and what stands for dtype and source  *)
(* hash; the builder's come from the sources in the binary, and so does    *)
(* its version, whatever spec.json says.                                   *)
FeatureSpecVersion == "2026-06-01"

DefaultSources ==
    <<"team_picks", "team_wr_shrunk", "mean_syn_with_allies", "mean_counter_vs_enemies",
      "hero_meta_primary_attr", "hero_meta_role_count", "player_comfort", "star_threat",
      "hero_pick_rate", "hero_wr", "hero_popularity", "attr_is_str", "attr_is_agi",
      "attr_is_int", "attr_fit_score", "draft_slot_norm", "team_picks_before",
      "enemy_picks_before", "is_first_pick", "is_last_pick", "is_counter_phase",
      "remaining_team_picks", "draft_progress">>

DefaultRegistry == ToSet(DefaultSources) \cup {"is_pick_phase"}

Def(name) == [name |-> name, source |-> "go"]

NewBuilder(names) ==
    [version |-> FeatureSpecVersion, features |-> [i \in DOMAIN names |-> Def(names[i])]]

(* NewBuilderFromSpec, or the default order when it fails.                 *)
NamesOf(spec) == [i \in DOMAIN spec.features |-> spec.features[i].name]
BuilderFor(spec) ==
    NewBuilder(IF ToSet(NamesOf(spec)) \subseteq DefaultRegistry
               THEN NamesOf(spec) ELSE DefaultSources)

(* Bug variant: the version alone is compared.                             *)
SpecEqualVersion(a, b) == a.version = b.version

SpecEqual(a, b) == a.version = b.version /\ a.features = b.features

-----------------------------------------------------------------------------
ModelNames == {"imitation", "value"}
Artifact(m, p) == SpecOf[m][p] # NoModel

(* A scorer: its spec, and the publications that its spec.json and its     *)
(* model.bin are of; the linear one has the builder's spec.                *)
Linear(spec) == [kind |-> "linear", spec |-> spec, from |-> 0, bin |-> 0]
Torn(model) == model.from # model.bin

(* What builders and models are made of.                                   *)
Specs ==
    {SpecOf[m][p] : m \in ModelNames, p \in Publications}
    \cup {BuilderFor(SpecOf["imitation"][p]) : p \in Publications}
    \cup {NewBuilder(DefaultSources)}
Links  == Publications \cup {0}
Models == [kind : {"lgbm", "linear"}, spec : Specs, from : Links, bin : Links]

ServingConstants ==
    /\ IsFiniteSet(Views) /\ Views = 1..Cardinality(Views)
    /\ Publications \subseteq Nat \ {0} /\ 1 \in Publications
    /\ NoModel \notin Models
    /\ MaxServeFaults \in Nat

NoRequest == [at |-> "idle", spec |-> NoModel, by |-> NoModel, valued |-> NoModel]
Idle == [next |-> "idle", from |-> 0]

ServingInit ==
    /\ config \in [kind : {"lgbm", "linear"}, value : BOOLEAN]
    /\ link = [m \in ModelNames |-> IF Artifact(m, 1) THEN 1 ELSE 0]
    /\ real \in {{}, {m \in ModelNames : Artifact(m, 1)}}
    /\ release = 1 /\ swap = "none" /\ owed = FALSE
    /\ populated = {} /\ launchKey = FALSE /\ turn = 1
    /\ api = "wait" /\ builder = NoModel /\ scorer = NoModel /\ value = NoModel
    /\ loading = Idle /\ watching = FALSE /\ hup = FALSE /\ failedLast = FALSE
    /\ req = [r \in Requesters |-> NoRequest]
    /\ serveFaults = 0

ServeFault == serveFaults < MaxServeFaults /\ serveFaults' = serveFaults + 1
NoServeFault == UNCHANGED serveFaults

(* A failure, which is a fault unless it had to come.                      *)
Fails(certain) == IF certain THEN NoServeFault ELSE ServeFault

-----------------------------------------------------------------------------
(* Featurizer.runOnce.  REFRESH fills a view, or the cycle ends.           *)
AfterViews == Cardinality(Views) + 1
Asleep == 0

AfterRefreshFailure == Asleep

RefreshMV ==
    /\ turn \in Views
    /\ \/ /\ populated' = populated \cup {turn}
          /\ turn' = turn + 1
          /\ NoServeFault
       \/ /\ turn' = AfterRefreshFailure
          /\ UNCHANGED populated
          /\ ServeFault
    /\ UNCHANGED <<config, trainer, launchKey, server, req>>

(* An error is only logged.                                                *)
SetLaunchKey ==
    /\ turn = AfterViews
    /\ \/ launchKey' = TRUE /\ NoServeFault
       \/ UNCHANGED launchKey /\ ServeFault
    /\ turn' = AfterViews + 1
    /\ UNCHANGED <<config, trainer, populated, server, req>>

(* One transaction, of tables that nothing here reads; an error is only    *)
(* logged.                                                                 *)
SnapshotPlayerHero ==
    /\ turn = AfterViews + 1
    /\ turn' = Asleep
    /\ UNCHANGED <<config, trainer, populated, launchKey, server, req, serveFaults>>

Wake == turn = Asleep

NextCycle ==
    /\ Wake
    /\ turn' = 1
    /\ UNCHANGED <<config, trainer, populated, launchKey, server, req, serveFaults>>

FeaturizerCrash ==
    /\ turn # Asleep /\ ServeFault
    /\ turn' = 1
    /\ UNCHANGED <<config, trainer, populated, launchKey, server, req>>

-----------------------------------------------------------------------------
(* cmd/api: wait, wire the builder, load the models, serve.                *)
WaitForLaunchKey ==
    /\ api = "wait" /\ launchKey
    /\ api' = "wire"
    /\ UNCHANGED <<config, trainer, featurizer, builder, scorer, value, loading, watching, hup,
                   failedLast, req, serveFaults>>

(* spec.json is read for the builder, without it the default order is.     *)
WireBuilder ==
    /\ api = "wire" /\ config.kind = "lgbm"
    /\ \/ /\ link["imitation"] # 0 /\ NoServeFault
          /\ builder' = BuilderFor(SpecOf["imitation"][link["imitation"]])
       \/ /\ Fails(link["imitation"] = 0)
          /\ builder' = NewBuilder(DefaultSources)
    /\ api' = "load" /\ loading' = [Idle EXCEPT !.next = "spec"]
    /\ UNCHANGED <<config, trainer, featurizer, scorer, value, watching, hup, failedLast, req>>

WireLinear ==
    /\ api = "wire" /\ config.kind # "lgbm"
    /\ builder' = NewBuilder(DefaultSources)
    /\ scorer' = Linear(NewBuilder(DefaultSources))
    /\ api' = "value"
    /\ UNCHANGED <<config, trainer, featurizer, value, loading, watching, hup, failedLast, req,
                   serveFaults>>

(* The value model, if there is to be one, is loaded here and never again. *)
WireValue ==
    /\ api = "value" /\ loading = Idle
    /\ IF config.value THEN loading' = [Idle EXCEPT !.next = "spec"] /\ UNCHANGED api
                       ELSE api' = "serving" /\ UNCHANGED loading
    /\ UNCHANGED <<config, trainer, featurizer, builder, scorer, value, watching, hup, failedLast,
                   req, serveFaults>>

(* LoadModel, at the start and on SIGHUP: spec.json, then meta.json, which *)
(* has the version that is reported, and model.bin.                        *)
What == IF api = "value" THEN "value" ELSE "imitation"
AfterLoad == [load |-> "value", value |-> "serving", serving |-> "serving"]

ReadSpec ==
    /\ loading.next = "spec" /\ link[What] # 0
    /\ loading' = [next |-> "bin", from |-> link[What]]
    /\ UNCHANGED <<config, trainer, featurizer, api, builder, scorer, value, watching, hup,
                   failedLast, req, serveFaults>>

Loaded == [kind |-> "lgbm", spec |-> SpecOf[What][loading.from], from |-> loading.from,
           bin |-> link[What]]

ReadBin ==
    /\ loading.next = "bin" /\ link[What] # 0
    /\ IF api = "value" THEN value' = Loaded /\ UNCHANGED <<scorer, failedLast>>
                        ELSE scorer' = Loaded /\ failedLast' = FALSE /\ UNCHANGED value
    /\ loading' = Idle /\ api' = AfterLoad[api]
    /\ UNCHANGED <<config, trainer, featurizer, builder, watching, hup, req, serveFaults>>

(* Bug variant: the old model is closed first.                             *)
AfterFailedReloadClosed == NoModel

AfterFailedReload == scorer

(* A file is missing or bad.  The API falls back to the linear scorer at   *)
(* the start, keeps the model it has later, and does without a value model.*)
LoadFails ==
    /\ loading.next # "idle" /\ Fails(link[What] = 0)
    /\ scorer' = CASE api = "load" -> Linear(builder)
                   [] api = "value" -> scorer
                   [] api = "serving" -> AfterFailedReload
    /\ failedLast' = (api # "value" \/ failedLast)
    /\ loading' = Idle /\ api' = AfterLoad[api]
    /\ UNCHANGED <<config, trainer, featurizer, builder, value, watching, hup, req>>

(* ModelWatcher.Watch, in a goroutine and for a reloadable scorer only.    *)
StartWatching ==
    /\ api = "serving" /\ scorer # NoModel /\ scorer.kind = "lgbm" /\ ~watching
    /\ watching' = TRUE
    /\ UNCHANGED <<config, trainer, featurizer, api, builder, scorer, value, loading, hup,
                   failedLast, req, serveFaults>>

(* It takes a signal and reloads the imitation model; it is the only one.  *)
Reload ==
    /\ watching /\ hup /\ loading = Idle
    /\ hup' = FALSE
    /\ loading' = [Idle EXCEPT !.next = "spec"]
    /\ UNCHANGED <<config, trainer, featurizer, api, builder, scorer, value, watching, failedLast,
                   req, serveFaults>>

Ends ==
    /\ api' = "down" /\ watching' = FALSE /\ hup' = FALSE /\ loading' = Idle
    /\ builder' = NoModel /\ scorer' = NoModel /\ value' = NoModel
    /\ req' = [r \in Requesters |-> NoRequest]

ApiCrash ==
    /\ api # "down" /\ ServeFault
    /\ Ends
    /\ UNCHANGED <<config, trainer, featurizer, failedLast>>

(* The container is started again.                                         *)
ApiRestart ==
    /\ api = "down" /\ api' = "wait"
    /\ UNCHANGED <<config, trainer, featurizer, builder, scorer, value, loading, watching, hup,
                   failedLast, req, serveFaults>>

-----------------------------------------------------------------------------
(* publish.run: the imitation model, then the value model, each in a new   *)
(* directory that current is then led to; one that is missing is skipped.  *)
Publish ==
    /\ swap = "none" /\ release + 1 \in Publications
    /\ release' = release + 1 /\ swap' = "imitation"
    /\ UNCHANGED <<config, link, real, owed, featurizer, server, req, serveFaults>>

(* "If current_link is a real directory, remove it first": there is none   *)
(* until the rename.                                                       *)
RemoveDirectory ==
    /\ swap \in real /\ Artifact(swap, release)
    /\ link' = [link EXCEPT ![swap] = 0] /\ real' = real \ {swap}
    /\ UNCHANGED <<config, release, swap, owed, featurizer, server, req, serveFaults>>

(* The rename; after the second one the operator is to send SIGHUP.        *)
SwapLink ==
    /\ swap \in ModelNames
    /\ IF Artifact(swap, release)
       THEN swap \notin real /\ link' = [link EXCEPT ![swap] = release]
       ELSE UNCHANGED link
    /\ IF swap = "imitation" THEN swap' = "value" /\ UNCHANGED owed
                             ELSE swap' = "none" /\ owed' = TRUE
    /\ UNCHANGED <<config, real, release, featurizer, server, req, serveFaults>>

(* Bug variant: no buffer, a signal during a reload is lost.               *)
DeliverUnbuffered == hup \/ loading = Idle

(* signal.Notify does not block: the channel holds one signal.             *)
Deliver == TRUE

(* Before signal.Notify, and without a watcher, SIGHUP ends the process.   *)
Sighup ==
    /\ owed /\ owed' = FALSE
    /\ IF watching
       THEN hup' = Deliver /\ UNCHANGED <<api, builder, scorer, value, loading, watching, req>>
       ELSE Ends
    /\ UNCHANGED <<config, link, real, release, swap, featurizer, failedLast, serveFaults>>

-----------------------------------------------------------------------------
(* Service.Recommend; an error ends the request.                           *)
BeginRequest(r) ==
    /\ api = "serving" /\ req[r].at = "idle"
    /\ req' = [req EXCEPT ![r].at = "build"]
    /\ UNCHANGED <<config, trainer, featurizer, server, serveFaults>>

(* Queries the views.                                                      *)
Build(r) ==
    /\ req[r].at = "build"
    /\ \/ req' = [req EXCEPT ![r].at = "score", ![r].spec = builder] /\ NoServeFault
       \/ req' = [req EXCEPT ![r] = NoRequest] /\ ServeFault
    /\ UNCHANGED <<config, trainer, featurizer, server>>

(* Scorer.Score: LightGBM compares the specs, then it may fail to predict; *)
(* the linear scorer takes features by name and cannot.                    *)
Accepts(model, spec) == model.kind = "linear" \/ SpecEqual(spec, model.spec)

Score(r) ==
    /\ req[r].at = "score"
    /\ \/ /\ Accepts(scorer, req[r].spec) /\ NoServeFault
          /\ req' = [req EXCEPT ![r].at = "value", ![r].by = scorer]
       \/ /\ scorer.kind = "lgbm" /\ Fails(~Accepts(scorer, req[r].spec))
          /\ req' = [req EXCEPT ![r] = NoRequest]
    /\ UNCHANGED <<config, trainer, featurizer, server>>

(* Where the value model refuses or fails its scores are left out and the  *)
(* answer has a warning.                                                   *)
ScoreValue(r) ==
    /\ req[r].at = "value"
    /\ \/ /\ value # NoModel /\ NoServeFault
          /\ Accepts(value, req[r].spec)
          /\ req' = [req EXCEPT ![r].at = "answer", ![r].valued = value]
       \/ /\ Fails(value = NoModel \/ ~Accepts(value, req[r].spec))
          /\ req' = [req EXCEPT ![r].at = "answer"]
    /\ UNCHANGED <<config, trainer, featurizer, server>>

Answer(r) ==
    /\ req[r].at = "answer"
    /\ req' = [req EXCEPT ![r] = NoRequest]
    /\ UNCHANGED <<config, trainer, featurizer, server, serveFaults>>

ServeRequest(r) == BeginRequest(r) \/ Build(r) \/ Score(r) \/ ScoreValue(r) \/ Answer(r)
FeaturizerStep == RefreshMV \/ SetLaunchKey \/ SnapshotPlayerHero \/ NextCycle
ApiStep == WaitForLaunchKey \/ WireBuilder \/ WireLinear \/ WireValue \/ ReadSpec \/ ReadBin
           \/ LoadFails \/ StartWatching \/ Reload \/ ApiRestart
TrainerStep == RemoveDirectory \/ SwapLink \/ Sighup

ServingNext ==
    \/ FeaturizerStep \/ FeaturizerCrash \/ ApiStep \/ ApiCrash \/ Publish \/ TrainerStep
    \/ \E r \in Requesters : ServeRequest(r)

(* The processes run and are started again, a publication that is begun is *)
(* ended and its signal sent; nobody has to publish or ask.                *)
ServingFairness ==
    /\ WF_serveVars(FeaturizerStep) /\ WF_serveVars(ApiStep) /\ WF_serveVars(TrainerStep)
ServingSpec == ServingInit /\ [][ServingNext]_serveVars /\ ServingFairness

-----------------------------------------------------------------------------
(* Service.Recommend reads the model after the features are built: however *)
(* publications, reloads and failures fall between, scores that are given  *)
(* out come from a model whose model.bin was trained on the features that  *)
(* were built, in their order and from their sources, and so do the value  *)
(* model's that go into them; unless the files were of two publications,   *)
(* which LoadModel does not notice.                                        *)
ScoredAsTrained ==
    \A r \in Requesters : req[r].at = "answer" =>
       LET x == req[r]
       IN  /\ x.by.kind = "linear" => x.by.spec = x.spec
           /\ x.by.kind = "lgbm" /\ ~Torn(x.by) =>
                 SpecOf["imitation"][x.by.bin].features = x.spec.features
           /\ x.valued # NoModel /\ ~Torn(x.valued) =>
                 SpecOf["value"][x.valued.bin].features = x.spec.features

(* ModelWatcher.Watch: an imitation model of two publications' files does  *)
(* not stay: the second publication is not yet complete, or its SIGHUP is  *)
(* still to come, in the channel or being acted on, or that reload failed. *)
TornIsTransient ==
    (scorer # NoModel /\ Torn(scorer)) =>
       \/ swap # "none" \/ owed \/ hup \/ failedLast
       \/ api = "serving" /\ loading # Idle

(* runOnce: "signal readiness immediately after MVs are populated", for    *)
(* the API that must never query an unpopulated view, whatever refresh     *)
(* fails and wherever the featurizer crashes.                              *)
ReadyMeansPopulated ==
    (launchKey \/ api \notin {"wait", "down"}) => populated = Views

(* Recommend: scores come from a model trained on the features that were   *)
(* built, or of two publications' files, which the API does not keep.      *)
(* featurize.runOnce: the launch key means that every view is populated.   *)
ServingSound == ScoredAsTrained /\ TornIsTransient /\ ReadyMeansPopulated

(* ReloadableScorer.Reload, "atomically swaps it in": while the API serves *)
(* it always has a model, also after a reload that fails.                  *)
ReloadKeepsModel == [][api = "serving" /\ api' = "serving" => scorer' # NoModel]_serveVars

(* The imitation model in use is all of the last publication.              *)
LastServed ==
    \/ config.kind = "linear" \/ failedLast
    \/ /\ scorer # NoModel
       /\ scorer.from = link["imitation"] /\ scorer.bin = link["imitation"]

ValueServed == value = NoModel \/ value.bin = link["value"]

=============================================================================
