---------------------------- MODULE AnalysisProofs ----------------------------
(***************************************************************************)
(* go-analysis and the rules of a draft, for all values of the constants:  *)
(* the service that loads models and scores with them (Serving), the       *)
(* backtester (Backtest), the simulated draft (Simulate) and DraftRules.   *)
(* They share no state; each section has the invariant of its part.        *)
(***************************************************************************)
EXTENDS Serving, Simulate, Backtest, FiniteSetTheorems, WellFoundedInduction, TLAPS

-----------------------------------------------------------------------------
(* Serving.  Scores are right because the builder does not change while    *)
(* the API serves, a linear scorer has its spec, and Score compares the    *)
(* spec of a loaded model, which is that of the publication its spec.json  *)
(* is of (ModelsFit); requests end with the process that has them          *)
(* (RequestsFit).  A model is of two publications only if the link moved   *)
(* between the two files, and then a signal is due (LoadSeen).  The key is *)
(* set after the last view, and everything past WaitForLaunchKey has seen  *)
(* it (Launched).                                                          *)
Requests ==
    [at : {"idle", "build", "score", "value", "answer"}, spec : Specs \cup {NoModel},
     by : Models \cup {NoModel}, valued : Models \cup {NoModel}]

Loadings == [next : {"idle", "spec", "bin"}, from : Links]

ServeTypeOK ==
    /\ link \in [ModelNames -> Links] /\ release \in Publications
    /\ swap \in ModelNames \cup {"none"}
    /\ populated \in SUBSET Views /\ turn \in 0..(AfterViews + 1)
    /\ api \in {"down", "wait", "wire", "load", "value", "serving"}
    /\ api \in {"load", "value", "serving"} => builder \in Specs
    /\ scorer \in Models \cup {NoModel} /\ value \in Models \cup {NoModel}
    /\ scorer # NoModel <=> api \in {"value", "serving"}
    /\ loading \in Loadings
    /\ loading.next = "idle" => loading = Idle
    /\ loading.next = "bin" => loading.from \in Publications
    /\ loading.next # "idle" => api \in {"load", "value", "serving"}
    /\ req \in [Requesters -> Requests]

FlagsOK ==
    /\ owed \in BOOLEAN /\ launchKey \in BOOLEAN /\ watching \in BOOLEAN /\ hup \in BOOLEAN
    /\ failedLast \in BOOLEAN

(* A scorer has the spec of the publication that its spec.json is of.      *)
ImitationFits(x) ==
    /\ x.kind = "linear" => ~Torn(x)
    /\ x.kind = "lgbm" => x.spec = SpecOf["imitation"][x.from]
ValueFits(x) == x.kind = "lgbm" /\ x.spec = SpecOf["value"][x.from]

ModelsFit ==
    /\ scorer # NoModel => ImitationFits(scorer)
    /\ scorer # NoModel /\ scorer.kind = "linear" => scorer.spec = builder
    /\ value # NoModel => ValueFits(value)

Fits(x) ==
    /\ x.at # "idle" => api = "serving"
    /\ x.at = "score" => x.spec = builder
    /\ x.at \in {"value", "answer"} =>
          x.by # NoModel /\ ImitationFits(x.by) /\ x.by.spec.features = x.spec.features
    /\ x.at \in {"value", "answer"} /\ x.by.kind = "linear" => x.by.spec = x.spec
    /\ x.at # "answer" => x.valued = NoModel
    /\ x.valued # NoModel => ValueFits(x.valued) /\ x.valued.spec.features = x.spec.features

RequestsFit == \A r \in Requesters : Fits(req[r])

(* A signal that is to come, or is there.                                  *)
SignalDue == swap # "none" \/ owed \/ hup

LoadSeen ==
    /\ watching => api = "serving"
    /\ loading.next = "bin" /\ api # "value" /\ loading.from # link["imitation"] => SignalDue

(* The views before the featurizer's turn are populated.                   *)
Launched ==
    /\ turn # 0 => \A v \in Views : v < turn => v \in populated
    /\ launchKey => populated = Views
    /\ api \notin {"wait", "down"} => launchKey

ServeInv ==
    ServeTypeOK /\ FlagsOK /\ ModelsFit /\ RequestsFit /\ LoadSeen /\ TornIsTransient /\ Launched

LEMMA ViewsCounted ==
    ASSUME ServingConstants
    PROVE  /\ Views \subseteq Nat /\ AfterViews \in Nat /\ AfterViews >= 1
           /\ \A v \in Views : v >= 1 /\ v < AfterViews
           /\ AfterViews \notin Views /\ AfterViews + 1 \notin Views /\ 0 \notin Views
  <1>1. Cardinality(Views) \in Nat /\ Views = 1..Cardinality(Views)
    BY FS_CardinalityType DEF ServingConstants
  <1> QED
    BY <1>1 DEF AfterViews

LEMMA ServeInit ==
    ASSUME ServingConstants, ServingInit
    PROVE  ServeInv
  <1>1. NoRequest \in Requests /\ NoRequest.at = "idle" /\ NoRequest.valued = NoModel
    BY DEF NoRequest, Requests
  <1>2. Idle \in Loadings /\ Idle.next = "idle"
    BY DEF Idle, Loadings, Links
  <1>3. turn \in 0..(AfterViews + 1)
    BY ViewsCounted DEF ServingInit
  <1>4. req \in [Requesters -> Requests] /\ \A r \in Requesters : req[r] = NoRequest
    BY <1>1 DEF ServingInit
  <1>5. link \in [ModelNames -> Links] /\ release \in Publications
    BY DEF ServingInit, ServingConstants, Links
  <1>6. ServeTypeOK
    BY <1>2, <1>3, <1>4, <1>5 DEF ServingInit, ServeTypeOK
  <1>7. FlagsOK /\ ModelsFit
    BY DEF ServingInit, FlagsOK, ModelsFit
  <1>8. RequestsFit
    BY <1>1, <1>4 DEF RequestsFit, Fits
  <1>9. LoadSeen /\ TornIsTransient
    BY <1>2 DEF ServingInit, LoadSeen, TornIsTransient
  <1>10. Launched
    BY ViewsCounted DEF ServingInit, Launched
  <1> QED
    BY <1>6, <1>7, <1>8, <1>9, <1>10 DEF ServeInv

(* What each part of the invariant speaks of.                              *)
LEMMA ServeFrame ==
    ASSUME ServeInv, UNCHANGED <<link, release, swap, owed, server, req>>
    PROVE  /\ (populated' \in SUBSET Views /\ turn' \in 0..(AfterViews + 1)) => ServeTypeOK'
           /\ launchKey' \in BOOLEAN => FlagsOK'
           /\ ModelsFit' /\ RequestsFit' /\ LoadSeen' /\ TornIsTransient'
  <1> USE DEF ServeInv, server
  <1>1. (populated' \in SUBSET Views /\ turn' \in 0..(AfterViews + 1)) => ServeTypeOK'
    BY DEF ServeTypeOK
  <1>2. launchKey' \in BOOLEAN => FlagsOK'
    BY DEF FlagsOK
  <1>3. ModelsFit'
    BY DEF ModelsFit
  <1>4. RequestsFit'
    BY DEF RequestsFit, Fits
  <1>5. LoadSeen' /\ TornIsTransient'
    BY DEF LoadSeen, SignalDue, TornIsTransient
  <1> QED
    BY <1>1, <1>2, <1>3, <1>4, <1>5

(* The featurizer: the key follows the views, and nothing empties one.     *)
LEMMA FeaturizerSteps ==
    ASSUME ServingConstants, ServeInv, FeaturizerStep \/ FeaturizerCrash
    PROVE  ServeInv'
  <1>1. UNCHANGED <<link, release, swap, owed, server, req>>
    BY DEF FeaturizerStep, FeaturizerCrash, RefreshMV, SetLaunchKey,
           SnapshotPlayerHero, NextCycle, trainer
  <1>2. /\ populated' \in SUBSET Views /\ launchKey' \in BOOLEAN
        /\ turn' \in 0..(AfterViews + 1)
        /\ turn' # 0 => \A v \in Views : v < turn' => v \in populated'
        /\ launchKey' => populated' = Views
        /\ launchKey => launchKey'
    <2> USE ViewsCounted DEF ServeInv, ServeTypeOK, FlagsOK, Launched
    <2>1. CASE RefreshMV
      <3>1. turn \in Views /\ UNCHANGED launchKey
        BY <2>1 DEF RefreshMV
      <3>2. CASE populated' = populated \cup {turn} /\ turn' = turn + 1
        BY <3>1, <3>2
      <3>3. CASE turn' = 0 /\ UNCHANGED populated
        BY <3>1, <3>3
      <3> QED
        BY <2>1, <3>2, <3>3 DEF RefreshMV, AfterRefreshFailure, Asleep
    <2>2. CASE SetLaunchKey
      <3>1. turn = AfterViews /\ turn' = AfterViews + 1 /\ UNCHANGED populated
            /\ (launchKey' = TRUE \/ UNCHANGED launchKey)
        BY <2>2 DEF SetLaunchKey
      <3>2. populated = Views
        BY <3>1
      <3>3. launchKey' \in BOOLEAN /\ (launchKey => launchKey')
        BY <3>1, Zenon
      <3>4. turn' \in 0..(AfterViews + 1)
        BY <3>1
      <3> QED
        BY <3>1, <3>2, <3>3, <3>4
    <2>3. CASE SnapshotPlayerHero
      <3>1. turn' = 0 /\ UNCHANGED <<populated, launchKey>>
        BY <2>3 DEF SnapshotPlayerHero, Asleep
      <3> QED
        BY <3>1
    <2>4. CASE NextCycle
      <3>1. turn' = 1 /\ UNCHANGED <<populated, launchKey>>
        BY <2>4 DEF NextCycle
      <3> QED
        BY <3>1
    <2>5. CASE FeaturizerCrash
      <3>1. turn' = 1 /\ UNCHANGED <<populated, launchKey>>
        BY <2>5 DEF FeaturizerCrash
      <3> QED
        BY <3>1
    <2> QED
      BY <2>1, <2>2, <2>3, <2>4, <2>5 DEF FeaturizerStep
  <1>3. ServeTypeOK' /\ FlagsOK' /\ ModelsFit' /\ RequestsFit' /\ LoadSeen' /\ TornIsTransient'
    BY <1>1, <1>2, ServeFrame
  <1>4. Launched'
    BY <1>1, <1>2 DEF ServeInv, Launched, server
  <1> QED
    BY <1>3, <1>4 DEF ServeInv

(* A model that was just read: its spec is that of its publication.        *)
LEMMA LoadedFits ==
    ASSUME ServeInv, loading.next = "bin"
    PROVE  /\ Loaded \in Models /\ Loaded.kind = "lgbm"
           /\ Loaded.from = loading.from /\ Loaded.bin = link[What]
           /\ api = "value" => ValueFits(Loaded)
           /\ api # "value" => ImitationFits(Loaded)
  <1>1. What \in ModelNames /\ loading.from \in Publications /\ link[What] \in Links
    BY DEF ServeInv, ServeTypeOK, What, ModelNames
  <1>2. SpecOf[What][loading.from] \in Specs /\ loading.from \in Links
    BY <1>1 DEF Specs, Links
  <1> QED
    BY <1>1, <1>2 DEF Loaded, Models, What, ValueFits, ImitationFits

LEMMA BuildersSpec ==
    ASSUME ServeInv
    PROVE  /\ NewBuilder(DefaultSources) \in Specs
           /\ link["imitation"] # 0 => BuilderFor(SpecOf["imitation"][link["imitation"]]) \in Specs
           /\ \A s \in Specs : Linear(s) \in Models /\ Linear(s).kind = "linear"
                               /\ Linear(s).spec = s /\ ImitationFits(Linear(s))
                               /\ ~Torn(Linear(s))
  <1>1. link["imitation"] \in Links
    BY DEF ServeInv, ServeTypeOK, ModelNames
  <1>2. \A s \in Specs : Linear(s) \in Models /\ Linear(s).kind = "linear"
                         /\ Linear(s).spec = s /\ ImitationFits(Linear(s)) /\ ~Torn(Linear(s))
    BY DEF Linear, Models, Links, ImitationFits, Torn
  <1> QED
    BY <1>1, <1>2 DEF Specs, Links

(* The API's own steps.  While it serves its builder stays, so requests    *)
(* are not touched.                                                        *)
LEMMA ApiSteps ==
    ASSUME ServingConstants, ServeInv, ApiStep
    PROVE  ServeInv'
  <1>1. UNCHANGED <<link, release, swap, owed, populated, launchKey, turn, req>>
    BY DEF ApiStep, WaitForLaunchKey, WireBuilder, WireLinear, WireValue, ReadSpec, ReadBin,
           LoadFails, StartWatching, Reload, ApiRestart, trainer, featurizer
  <1> DEFINE Holds ==
               /\ ServeTypeOK' /\ FlagsOK' /\ ModelsFit' /\ LoadSeen' /\ TornIsTransient'
               /\ api = "serving" => api' = "serving" /\ builder' = builder
               /\ api \in {"wait", "down"} /\ api' \notin {"wait", "down"} => launchKey
  <1>2. Holds => ServeInv'
    <2>1. Holds => RequestsFit'
      BY <1>1 DEF ServeInv, RequestsFit, Fits
    <2>2. Holds => Launched'
      BY <1>1 DEF ServeInv, Launched
    <2> QED
      BY <2>1, <2>2 DEF ServeInv
  <1> USE DEF ServeInv
  <1>3. CASE WaitForLaunchKey
    <2>1. /\ api = "wait" /\ launchKey /\ api' = "wire"
          /\ UNCHANGED <<builder, scorer, value, loading, watching, hup, failedLast>>
      BY <1>3 DEF WaitForLaunchKey
    <2>2. ServeTypeOK' /\ FlagsOK'
      BY <1>1, <2>1 DEF ServeTypeOK, FlagsOK
    <2>3. ModelsFit' /\ LoadSeen' /\ TornIsTransient'
      BY <1>1, <2>1 DEF ServeTypeOK, ModelsFit, LoadSeen, SignalDue, TornIsTransient
    <2> QED
      BY <1>2, <2>1, <2>2, <2>3
  <1>4. CASE WireBuilder
    <2>1. /\ api = "wire" /\ api' = "load" /\ builder' \in Specs
          /\ loading' = [next |-> "spec", from |-> 0]
          /\ UNCHANGED <<scorer, value, watching, hup, failedLast>>
      BY <1>4, BuildersSpec DEF WireBuilder, Idle
    <2>2. ServeTypeOK'
      BY <1>1, <2>1 DEF ServeTypeOK, Loadings, Links
    <2>3. FlagsOK'
      BY <1>1, <2>1 DEF FlagsOK
    <2>4. ModelsFit' /\ LoadSeen' /\ TornIsTransient'
      BY <1>1, <2>1 DEF ServeTypeOK, ModelsFit, LoadSeen, SignalDue, TornIsTransient
    <2> QED
      BY <1>2, <2>1, <2>2, <2>3, <2>4
  <1>5. CASE WireLinear
    <2> DEFINE s == NewBuilder(DefaultSources)
    <2>1. /\ api = "wire" /\ api' = "value" /\ builder' = s /\ scorer' = Linear(s)
          /\ UNCHANGED <<value, loading, watching, hup, failedLast>>
      BY <1>5 DEF WireLinear
    <2>2. /\ s \in Specs /\ Linear(s) \in Models /\ Linear(s).kind = "linear"
          /\ Linear(s).spec = s /\ ImitationFits(Linear(s)) /\ ~Torn(Linear(s))
      BY BuildersSpec
    <2> HIDE DEF s
    <2>3. ServeTypeOK'
      BY <1>1, <2>1, <2>2 DEF ServeTypeOK, ServingConstants
    <2>4. FlagsOK'
      BY <1>1, <2>1 DEF FlagsOK
    <2>5. ModelsFit' /\ LoadSeen' /\ TornIsTransient'
      BY <1>1, <2>1, <2>2 DEF ServeTypeOK, ModelsFit, LoadSeen, SignalDue, TornIsTransient
    <2> QED
      BY <1>2, <2>1, <2>3, <2>4, <2>5
  <1>6. CASE WireValue
    <2>1. /\ api = "value" /\ loading = Idle
          /\ \/ loading' = [next |-> "spec", from |-> 0] /\ api' = api
             \/ api' = "serving" /\ loading' = loading
          /\ UNCHANGED <<builder, scorer, value, watching, hup, failedLast>>
      BY <1>6 DEF WireValue, Idle
    <2>2. ServeTypeOK'
      BY <1>1, <2>1 DEF ServeTypeOK, Loadings, Links, Idle
    <2>3. FlagsOK'
      BY <1>1, <2>1 DEF FlagsOK
    <2>4. ModelsFit' /\ LoadSeen' /\ TornIsTransient'
      BY <1>1, <2>1 DEF ServeTypeOK, ModelsFit, LoadSeen, SignalDue, TornIsTransient, Idle
    <2> QED
      BY <1>2, <2>1, <2>2, <2>3, <2>4
  <1>7. CASE ReadSpec
    <2>1. /\ loading.next = "spec" /\ link[What] # 0
          /\ loading' = [next |-> "bin", from |-> link[What]]
          /\ UNCHANGED <<api, builder, scorer, value, watching, hup, failedLast>>
      BY <1>7 DEF ReadSpec
    <2>2. link[What] \in Publications /\ link[What] \in Links /\ (api # "value" => What = "imitation")
      BY <2>1 DEF ServeTypeOK, What, ModelNames, Links
    <2>3. ServeTypeOK'
      BY <1>1, <2>1, <2>2 DEF ServeTypeOK, Loadings
    <2>4. FlagsOK'
      BY <1>1, <2>1 DEF FlagsOK
    <2>5. ModelsFit' /\ LoadSeen' /\ TornIsTransient'
      BY <1>1, <2>1, <2>2 DEF ServeTypeOK, ModelsFit, LoadSeen, SignalDue, TornIsTransient, Idle
    <2> QED
      BY <1>2, <2>1, <2>3, <2>4, <2>5
  <1>8. CASE ReadBin
    <2>1. /\ loading.next = "bin"
          /\ api = "value" => value' = Loaded /\ UNCHANGED <<scorer, failedLast>>
          /\ api # "value" => scorer' = Loaded /\ failedLast' = FALSE /\ UNCHANGED value
          /\ loading' = Idle /\ api' = AfterLoad[api]
          /\ UNCHANGED <<builder, watching, hup>>
      BY <1>8 DEF ReadBin
    <2>2. /\ api \in {"load", "value", "serving"}
          /\ api = "load" => api' = "value"
          /\ api # "load" => api' = "serving"
      BY <2>1 DEF ServeTypeOK, AfterLoad
    <2>3. /\ Loaded \in Models /\ Loaded.kind = "lgbm"
          /\ Loaded.from = loading.from /\ Loaded.bin = link[What]
          /\ api = "value" => ValueFits(Loaded)
          /\ api # "value" => ImitationFits(Loaded)
      BY <2>1, LoadedFits
    <2>4. Loaded # NoModel /\ Idle \in Loadings /\ Idle.next = "idle"
      BY <2>3 DEF ServingConstants, Idle, Loadings, Links
    <2>5. ServeTypeOK'
      BY <1>1, <2>1, <2>2, <2>3, <2>4 DEF ServeTypeOK
    <2>6. FlagsOK'
      BY <1>1, <2>1 DEF FlagsOK
    <2>7. ModelsFit'
      BY <1>1, <2>1, <2>2, <2>3, <2>4 DEF ServeTypeOK, ModelsFit
    <2>8. LoadSeen'
      BY <1>1, <2>1, <2>2, <2>4 DEF LoadSeen
    <2>9. api # "value" /\ Torn(Loaded) => SignalDue
      BY <2>1, <2>3 DEF LoadSeen, Torn, What
    <2>10. TornIsTransient'
      BY <1>1, <2>1, <2>2, <2>9 DEF ServeTypeOK, TornIsTransient, SignalDue
    <2> QED
      BY <1>2, <2>1, <2>2, <2>5, <2>6, <2>7, <2>8, <2>10
  <1>9. CASE LoadFails
    <2>1. /\ loading.next # "idle"
          /\ api = "load" => scorer' = Linear(builder)
          /\ api \in {"value", "serving"} => scorer' = scorer
          /\ failedLast' = (api # "value" \/ failedLast)
          /\ loading' = Idle /\ api' = AfterLoad[api]
          /\ UNCHANGED <<builder, value, watching, hup>>
      BY <1>9 DEF LoadFails, AfterFailedReload
    <2>2. /\ api \in {"load", "value", "serving"} /\ builder \in Specs
          /\ api = "load" => api' = "value"
          /\ api # "load" => api' = "serving"
      BY <2>1 DEF ServeTypeOK, AfterLoad
    <2>3. /\ Linear(builder) \in Models /\ Linear(builder).kind = "linear"
          /\ Linear(builder).spec = builder /\ ImitationFits(Linear(builder))
          /\ ~Torn(Linear(builder))
      BY <2>2, BuildersSpec
    <2>4. Linear(builder) # NoModel /\ Idle \in Loadings /\ Idle.next = "idle"
      BY <2>3 DEF ServingConstants, Idle, Loadings, Links
    <2>5. ServeTypeOK'
      BY <1>1, <2>1, <2>2, <2>3, <2>4 DEF ServeTypeOK
    <2>6. /\ failedLast' \in BOOLEAN /\ (api # "value" => failedLast')
          /\ api = "value" => failedLast' = failedLast
      BY <2>1, Zenon DEF FlagsOK
    <2>7. FlagsOK'
      BY <1>1, <2>1, <2>6 DEF FlagsOK
    <2>8. ModelsFit'
      BY <1>1, <2>1, <2>2, <2>3, <2>4 DEF ServeTypeOK, ModelsFit
    <2>9. LoadSeen'
      BY <1>1, <2>1, <2>2, <2>4 DEF LoadSeen
    <2>10. TornIsTransient'
      BY <1>1, <2>1, <2>2, <2>3, <2>6 DEF ServeTypeOK, TornIsTransient
    <2> QED
      BY <1>2, <2>1, <2>2, <2>5, <2>7, <2>8, <2>9, <2>10
  <1>10. CASE StartWatching
    <2>1. /\ api = "serving" /\ watching' = TRUE
          /\ UNCHANGED <<api, builder, scorer, value, loading, hup, failedLast>>
      BY <1>10 DEF StartWatching
    <2>2. ServeTypeOK' /\ FlagsOK'
      BY <1>1, <2>1 DEF ServeTypeOK, FlagsOK
    <2>3. ModelsFit' /\ LoadSeen' /\ TornIsTransient'
      BY <1>1, <2>1 DEF ServeTypeOK, ModelsFit, LoadSeen, SignalDue, TornIsTransient
    <2> QED
      BY <1>2, <2>1, <2>2, <2>3
  <1>11. CASE Reload
    <2>1. /\ api = "serving" /\ loading' = [next |-> "spec", from |-> 0] /\ hup' = FALSE
          /\ UNCHANGED <<api, builder, scorer, value, watching, failedLast>>
      BY <1>11 DEF Reload, Idle, LoadSeen
    <2>2. ServeTypeOK'
      BY <1>1, <2>1 DEF ServeTypeOK, Loadings, Links
    <2>3. FlagsOK'
      BY <1>1, <2>1 DEF FlagsOK
    <2>4. ModelsFit' /\ LoadSeen' /\ TornIsTransient'
      BY <1>1, <2>1 DEF ServeTypeOK, ModelsFit, LoadSeen, SignalDue, TornIsTransient, Idle
    <2> QED
      BY <1>2, <2>1, <2>2, <2>3, <2>4
  <1>12. CASE ApiRestart
    <2>1. /\ api = "down" /\ api' = "wait"
          /\ UNCHANGED <<builder, scorer, value, loading, watching, hup, failedLast>>
      BY <1>12 DEF ApiRestart
    <2>2. ServeTypeOK' /\ FlagsOK'
      BY <1>1, <2>1 DEF ServeTypeOK, FlagsOK
    <2>3. ModelsFit' /\ LoadSeen' /\ TornIsTransient'
      BY <1>1, <2>1 DEF ServeTypeOK, ModelsFit, LoadSeen, SignalDue, TornIsTransient
    <2> QED
      BY <1>2, <2>1, <2>2, <2>3
  <1> QED
    BY <1>3, <1>4, <1>5, <1>6, <1>7, <1>8, <1>9, <1>10, <1>11, <1>12 DEF ApiStep

(* The end of the process takes its models and its requests with it.       *)
LEMMA ApiEnds ==
    ASSUME ServeInv, Ends, UNCHANGED <<link, release, swap, populated, launchKey, turn, failedLast>>,
           owed' \in BOOLEAN
    PROVE  ServeInv'
  <1>1. /\ api' = "down" /\ watching' = FALSE /\ hup' = FALSE /\ loading' = Idle
        /\ builder' = NoModel /\ scorer' = NoModel /\ value' = NoModel
        /\ req' = [r \in Requesters |-> NoRequest]
    BY DEF Ends
  <1>2. NoRequest \in Requests /\ NoRequest.at = "idle" /\ NoRequest.valued = NoModel
    BY DEF NoRequest, Requests
  <1>3. Idle \in Loadings /\ Idle.next = "idle"
    BY DEF Idle, Loadings, Links
  <1>4. ServeTypeOK'
    BY <1>1, <1>2, <1>3 DEF ServeInv, ServeTypeOK
  <1>5. FlagsOK'
    BY <1>1 DEF ServeInv, FlagsOK
  <1>6. ModelsFit' /\ TornIsTransient'
    BY <1>1 DEF ModelsFit, TornIsTransient
  <1>7. RequestsFit'
    BY <1>1, <1>2 DEF RequestsFit, Fits
  <1>8. LoadSeen'
    BY <1>1, <1>3 DEF LoadSeen
  <1>9. Launched'
    BY <1>1 DEF ServeInv, Launched
  <1> QED
    BY <1>4, <1>5, <1>6, <1>7, <1>8, <1>9 DEF ServeInv

(* The link moves only while a publication is under way, and that leaves   *)
(* no load behind: a signal is due until it is in the channel.             *)
LEMMA TrainerSteps ==
    ASSUME ServingConstants, ServeInv, Publish \/ TrainerStep \/ ApiCrash
    PROVE  ServeInv'
  <1>1. UNCHANGED <<populated, launchKey, turn, failedLast>>
    BY DEF Publish, TrainerStep, RemoveDirectory, SwapLink, Sighup, ApiCrash, featurizer, server
  <1>2. CASE /\ UNCHANGED <<api, builder, scorer, value, loading, watching, hup, req>>
             /\ link' \in [ModelNames -> Links] /\ swap' \in ModelNames \cup {"none"}
             /\ release' \in Publications
             /\ owed' \in BOOLEAN
             /\ swap' # "none" \/ owed' \/ UNCHANGED <<link, swap, owed>>
    <2>1. ServeTypeOK'
      BY <1>1, <1>2 DEF ServeInv, ServeTypeOK
    <2>2. FlagsOK'
      BY <1>1, <1>2 DEF ServeInv, FlagsOK
    <2>3. ModelsFit'
      BY <1>2 DEF ServeInv, ModelsFit
    <2>4. RequestsFit'
      BY <1>2 DEF ServeInv, RequestsFit, Fits
    <2>5. LoadSeen' /\ TornIsTransient'
      BY <1>1, <1>2 DEF ServeInv, LoadSeen, SignalDue, TornIsTransient
    <2>6. Launched'
      BY <1>1, <1>2 DEF ServeInv, Launched
    <2> QED
      BY <2>1, <2>2, <2>3, <2>4, <2>5, <2>6 DEF ServeInv
  <1>3. CASE Publish
    <2>1. /\ swap' = "imitation" /\ UNCHANGED <<link, owed>> /\ release' \in Publications
          /\ UNCHANGED <<api, builder, scorer, value, loading, watching, hup, req>>
      BY <1>3 DEF Publish, server
    <2> QED
      BY <1>2, <2>1 DEF ServeInv, ServeTypeOK, FlagsOK, ModelNames
  <1>4. CASE RemoveDirectory
    <2>1. /\ link' = [link EXCEPT ![swap] = 0] /\ UNCHANGED <<release, swap, owed>>
          /\ UNCHANGED <<api, builder, scorer, value, loading, watching, hup, req>>
          /\ Artifact(swap, release)
      BY <1>4 DEF RemoveDirectory, server
    <2>2. link' \in [ModelNames -> Links]
      BY <2>1 DEF ServeInv, ServeTypeOK, Links
    <2>3. swap # "none" \/ UNCHANGED link
      BY <2>1 DEF ServeInv, ServeTypeOK, ModelNames
    <2> QED
      BY <1>2, <2>1, <2>2, <2>3 DEF ServeInv, ServeTypeOK, FlagsOK
  <1>5. CASE SwapLink
    <2>1. /\ swap \in ModelNames /\ UNCHANGED release
          /\ link' = [link EXCEPT ![swap] = release] \/ UNCHANGED link
          /\ \/ swap' = "value" /\ UNCHANGED owed
             \/ swap' = "none" /\ owed' = TRUE
          /\ UNCHANGED <<api, builder, scorer, value, loading, watching, hup, req>>
      BY <1>5 DEF SwapLink, server
    <2>2. link' \in [ModelNames -> Links]
      BY <2>1 DEF ServeInv, ServeTypeOK, Links
    <2> QED
      BY <1>2, <2>1, <2>2 DEF ServeInv, ServeTypeOK, FlagsOK, ModelNames
  <1>6. CASE Sighup /\ watching
    <2>1. /\ hup' = TRUE /\ owed' = FALSE /\ UNCHANGED <<link, release, swap>>
          /\ UNCHANGED <<api, builder, scorer, value, loading, watching, req>>
      BY <1>6 DEF Sighup, Deliver
    <2>2. ServeTypeOK' /\ FlagsOK'
      BY <1>1, <2>1 DEF ServeInv, ServeTypeOK, FlagsOK
    <2>3. ModelsFit' /\ LoadSeen' /\ TornIsTransient'
      BY <1>1, <2>1 DEF ServeInv, ModelsFit, LoadSeen, SignalDue, TornIsTransient
    <2>4. RequestsFit' /\ Launched'
      BY <1>1, <2>1 DEF ServeInv, RequestsFit, Fits, Launched
    <2> QED
      BY <2>2, <2>3, <2>4 DEF ServeInv
  <1>7. CASE Sighup /\ ~watching
    <2>1. Ends /\ owed' = FALSE /\ UNCHANGED <<link, release, swap>>
      BY <1>7 DEF Sighup
    <2> QED
      BY <1>1, <2>1, ApiEnds
  <1>8. CASE ApiCrash
    <2>1. Ends /\ UNCHANGED <<link, release, swap, owed>> /\ owed \in BOOLEAN
      BY <1>8 DEF ApiCrash, trainer, ServeInv, FlagsOK
    <2> QED
      BY <1>1, <2>1, ApiEnds
  <1> QED
    BY <1>3, <1>4, <1>5, <1>6, <1>7, <1>8 DEF TrainerStep

LEMMA RequestMoves ==
    ASSUME ServeInv, NEW r \in Requesters, NEW x \in Requests, Fits(x),
           req' = [req EXCEPT ![r] = x],
           UNCHANGED <<link, release, swap, owed, featurizer, server>>
    PROVE  ServeInv'
  <1> USE DEF ServeInv, featurizer, server
  <1>1. ServeTypeOK'
    BY DEF ServeTypeOK
  <1>2. ASSUME NEW q \in Requesters
        PROVE  req'[q] = IF q = r THEN x ELSE req[q]
    BY DEF ServeTypeOK
  <1>3. RequestsFit'
    BY <1>2 DEF RequestsFit, Fits
  <1>4. FlagsOK' /\ ModelsFit'
    BY DEF FlagsOK, ModelsFit
  <1>5. LoadSeen' /\ TornIsTransient' /\ Launched'
    BY DEF LoadSeen, SignalDue, TornIsTransient, Launched
  <1> QED
    BY <1>1, <1>3, <1>4, <1>5

(* Recommend, one step: the builder that built is the one that is there.   *)
LEMMA RequestSteps ==
    ASSUME ServingConstants, ServeInv, NEW r \in Requesters, ServeRequest(r)
    PROVE  ServeInv'
  <1>1. UNCHANGED <<link, release, swap, owed, featurizer, server>>
    BY DEF ServeRequest, BeginRequest, Build, Score, ScoreValue, Answer, trainer
  <1>2. req \in [Requesters -> Requests] /\ req[r] \in Requests /\ Fits(req[r])
    BY DEF ServeInv, ServeTypeOK, RequestsFit
  <1>3. NoRequest \in Requests /\ Fits(NoRequest)
    BY DEF NoRequest, Requests, Fits
  <1>4. \E x \in Requests : Fits(x) /\ req' = [req EXCEPT ![r] = x]
    <2>1. CASE BeginRequest(r)
      <3> DEFINE x == [req[r] EXCEPT !.at = "build"]
      <3>1. x \in Requests /\ req' = [req EXCEPT ![r] = x] /\ api = "serving" /\ req[r].at = "idle"
        BY <1>2, <2>1 DEF BeginRequest, Requests
      <3>2. Fits(x)
        BY <1>2, <3>1 DEF Fits, Requests
      <3> QED
        BY <3>1, <3>2
    <2>2. CASE req' = [req EXCEPT ![r] = NoRequest]
      BY <1>3, <2>2
    <2>3. CASE /\ req[r].at = "build"
               /\ req' = [req EXCEPT ![r].at = "score", ![r].spec = builder]
      <3> DEFINE x == [req[r] EXCEPT !.at = "score", !.spec = builder]
      <3>1. api = "serving" /\ builder \in Specs /\ req[r].valued = NoModel
        BY <1>2, <2>3 DEF ServeInv, ServeTypeOK, Fits
      <3>2. x \in Requests /\ req' = [req EXCEPT ![r] = x]
        BY <1>2, <2>3, <3>1 DEF Requests
      <3>3. Fits(x)
        BY <1>2, <3>1 DEF Fits, Requests
      <3> QED
        BY <3>2, <3>3
    <2>4. CASE /\ req[r].at = "score" /\ Accepts(scorer, req[r].spec)
               /\ req' = [req EXCEPT ![r].at = "value", ![r].by = scorer]
      <3> DEFINE x == [req[r] EXCEPT !.at = "value", !.by = scorer]
      <3>1. /\ api = "serving" /\ scorer \in Models /\ scorer # NoModel
            /\ req[r].spec = builder /\ req[r].valued = NoModel
        BY <1>2, <2>4 DEF ServeInv, ServeTypeOK, Fits
      <3>2. /\ scorer.kind = "linear" => scorer.spec = req[r].spec
            /\ scorer.spec.features = req[r].spec.features
            /\ ImitationFits(scorer)
        BY <2>4, <3>1 DEF ServeInv, ModelsFit, Accepts, SpecEqual
      <3>3. x \in Requests /\ req' = [req EXCEPT ![r] = x]
        BY <1>2, <2>4, <3>1 DEF Requests
      <3>4. x.at = "value" /\ x.by = scorer /\ x.spec = req[r].spec /\ x.valued = NoModel
        BY <1>2, <3>1 DEF Requests
      <3>5. Fits(x)
        BY <3>1, <3>2, <3>4 DEF Fits
      <3> QED
        BY <3>3, <3>5
    <2>5. CASE ScoreValue(r)
      <3>1. req[r].at = "value" /\ api = "serving" /\ req[r].valued = NoModel
        BY <1>2, <2>5 DEF ScoreValue, Fits
      <3>2. CASE /\ value # NoModel /\ Accepts(value, req[r].spec)
                 /\ req' = [req EXCEPT ![r].at = "answer", ![r].valued = value]
        <4> DEFINE x == [req[r] EXCEPT !.at = "answer", !.valued = value]
        <4>1. value \in Models /\ ValueFits(value) /\ value.kind = "lgbm"
          BY <3>2 DEF ServeInv, ServeTypeOK, ModelsFit, ValueFits
        <4>2. value.spec.features = req[r].spec.features
          BY <3>2, <4>1 DEF Accepts, SpecEqual
        <4>3. x \in Requests /\ req' = [req EXCEPT ![r] = x]
          BY <1>2, <3>2, <4>1 DEF Requests
        <4>4. x.at = "answer" /\ x.by = req[r].by /\ x.spec = req[r].spec /\ x.valued = value
          BY <1>2 DEF Requests
        <4>5. Fits(x)
          BY <1>2, <3>1, <4>1, <4>2, <4>4 DEF Fits
        <4> QED
          BY <4>3, <4>5
      <3>3. CASE req' = [req EXCEPT ![r].at = "answer"]
        <4> DEFINE x == [req[r] EXCEPT !.at = "answer"]
        <4>1. x \in Requests /\ req' = [req EXCEPT ![r] = x]
          BY <1>2, <3>3 DEF Requests
        <4>2. x.at = "answer" /\ x.by = req[r].by /\ x.spec = req[r].spec /\ x.valued = NoModel
          BY <1>2, <3>1 DEF Requests
        <4>3. Fits(x)
          BY <1>2, <3>1, <4>2 DEF Fits
        <4> QED
          BY <4>1, <4>3
      <3> QED
        BY <2>5, <3>2, <3>3 DEF ScoreValue
    <2> QED
      BY <2>1, <2>2, <2>3, <2>4, <2>5 DEF ServeRequest, Build, Score, Answer
  <1> QED
    BY <1>1, <1>4, RequestMoves

LEMMA ServeStep ==
    ASSUME ServingConstants, ServeInv, [ServingNext]_serveVars
    PROVE  ServeInv'
  <1>1. CASE UNCHANGED serveVars
    <2>1. /\ UNCHANGED <<link, release, swap, owed, server, req>>
          /\ UNCHANGED <<populated, launchKey, turn, api>>
      BY <1>1 DEF serveVars, trainer, featurizer, server
    <2>2. populated \in SUBSET Views /\ turn \in 0..(AfterViews + 1) /\ launchKey \in BOOLEAN
      BY DEF ServeInv, ServeTypeOK, FlagsOK
    <2>3. ServeTypeOK' /\ FlagsOK' /\ ModelsFit' /\ RequestsFit' /\ LoadSeen' /\ TornIsTransient'
      BY <2>1, <2>2, ServeFrame
    <2>4. Launched'
      BY <2>1 DEF ServeInv, Launched
    <2> QED
      BY <2>3, <2>4 DEF ServeInv
  <1> QED
    BY <1>1, FeaturizerSteps, ApiSteps, TrainerSteps, RequestSteps DEF ServingNext

(* Service.Recommend, ModelWatcher.Watch and featurize.runOnce: for any    *)
(* views, publications and requesters, wherever files change under a load  *)
(* and signals, crashes and failures fall, the model.bin that scored was   *)
(* trained on the features that were built, unless the model is of two     *)
(* publications' files, and such a one is in use only while a reload is    *)
(* due or failed; the API is up only over populated views.                 *)
THEOREM AnalysisSound ==
    ASSUME ServingConstants
    PROVE  ServingSpec => []ServingSound
  <1>1. ServingInit => ServeInv
    BY ServeInit
  <1>2. ServeInv /\ [ServingNext]_serveVars => ServeInv'
    BY ServeStep
  <1>3. ServeInv => ScoredAsTrained
    BY DEF ServeInv, RequestsFit, Fits, ImitationFits, ValueFits, ScoredAsTrained, Torn
  <1>4. ServeInv => TornIsTransient /\ ReadyMeansPopulated
    BY DEF ServeInv, Launched, ReadyMeansPopulated
  <1>5. ServeInv => ServingSound
    BY <1>3, <1>4 DEF ServingSound
  <1> QED
    BY <1>1, <1>2, <1>5, PTL DEF ServingSpec

(* ReloadableScorer.Reload: no reload, whatever of it fails, takes the     *)
(* model from an API that serves.                                          *)
THEOREM AnalysisKeepsModel ==
    ASSUME ServingConstants
    PROVE  ServingSpec => ReloadKeepsModel
  <1>1. ServingInit => ServeInv
    BY ServeInit
  <1>2. ServeInv /\ [ServingNext]_serveVars => ServeInv'
    BY ServeStep
  <1>3. ServeInv' => (api = "serving" /\ api' = "serving" => scorer' # NoModel)
    BY DEF ServeInv, ServeTypeOK
  <1> QED
    BY <1>1, <1>2, <1>3, PTL DEF ServingSpec, ReloadKeepsModel


LEMMA LeastOfNats ==
    ASSUME NEW S \in SUBSET Nat, S # {}
    PROVE  \E n \in S : \A m \in S : n <= m
  <1>1. \A m \in S, n \in S : ~(<<m, n>> \in OpToRel(<, Nat)) => n <= m
    BY DEF OpToRel
  <1>2. PICK n \in S : \A m \in S : <<m, n>> \notin OpToRel(<, Nat)
    BY NatLessThanWellFounded, WFMin
  <1> QED
    BY <1>1, <1>2

-----------------------------------------------------------------------------
(* Backtest: collecting the rows r, up to p, as blocks ph of the matches o. *)

PatchRow == [match : Matches, isPick : BOOLEAN, team : Teams, hero : Nat]

Ordered(r) ==
    /\ r \in Seq(PatchRow)
    /\ \A i, j \in 1..Len(r) : i < j => r[i].match <= r[j].match

StartIn(r, m) ==
    CHOOSE j \in DOMAIN r : r[j].match = m /\ \A i \in DOMAIN r : r[i].match = m => j <= i

Block(r, p, m, b) ==
    LET s == StartIn(r, m)
    IN  /\ s \in 1..p - 1 /\ Len(b) \in Nat /\ Len(b) >= 1 /\ s + Len(b) - 1 <= p - 1
        /\ \A j \in 1..p - 1 : r[j].match = m <=> s <= j /\ j <= s + Len(b) - 1
        /\ \A x \in 1..Len(b) : b[x] = r[s + x - 1]

Collected(r, p, o, ph, lim) ==
    /\ o \in Seq(Matches) /\ ph \in Seq(Seq(PatchRow)) /\ Len(ph) = Len(o)
    /\ p \in 1..Len(r) + 1
    /\ \A i, j \in 1..Len(o) : i < j => o[i] < o[j]
    /\ \A i \in 1..Len(o) : Block(r, p, o[i], ph[i])
    /\ \A j \in 1..p - 1 : \E i \in 1..Len(o) : o[i] = r[j].match
    /\ lim > 0 => Len(o) <= lim + 1 /\ (Len(o) = lim + 1 => Len(ph[lim + 1]) = 1)

LEMMA RowTyped ==
    ASSUME BacktestConstants, NEW r, Ordered(r)
    PROVE  /\ Len(r) \in Nat /\ DOMAIN r = 1..Len(r)
           /\ \A i \in 1..Len(r) : /\ r[i] \in PatchRow
                                   /\ r[i].match \in Matches /\ r[i].match \in Nat
                                   /\ r[i].isPick \in BOOLEAN /\ r[i].team \in Teams
                                   /\ r[i].hero \in Nat
<1>1. r \in Seq(PatchRow)  BY DEF Ordered
<1>2. Len(r) \in Nat /\ DOMAIN r = 1..Len(r) /\ \A i \in 1..Len(r) : r[i] \in PatchRow
  <2> HIDE DEF PatchRow
  <2> QED  BY <1>1
<1>3. ASSUME NEW x \in PatchRow
      PROVE  /\ x.match \in Matches /\ x.match \in Nat /\ x.isPick \in BOOLEAN /\ x.team \in Teams
             /\ x.hero \in Nat
  BY <1>3 DEF PatchRow, BacktestConstants
<1> QED  BY <1>2, <1>3, Zenon

LEMMA StartFound ==
    ASSUME BacktestConstants, NEW r, Ordered(r), NEW j \in 1..Len(r), NEW m, r[j].match = m,
           \A i \in 1..j - 1 : r[i].match # m
    PROVE  StartIn(r, m) = j
<1>1. Len(r) \in Nat /\ DOMAIN r = 1..Len(r)  BY RowTyped
<1>2. \A i \in 1..Len(r) : r[i].match = m => j <= i
  <2> SUFFICES ASSUME NEW i \in 1..Len(r), r[i].match = m, ~(j <= i)  PROVE FALSE
    OBVIOUS
  <2>1. i \in 1..j - 1  BY <1>1
  <2> QED  BY <2>1
<1>3. \A y \in 1..Len(r) : r[y].match = m /\ (\A i \in 1..Len(r) : r[i].match = m => y <= i) => y = j
  BY <1>1, <1>2
<1> QED  BY <1>1, <1>2, <1>3 DEF StartIn

(* A row of the match that the collection is at.                           *)
LEMMA CollectMore ==
    ASSUME BacktestConstants, NEW r, Ordered(r), NEW p, NEW o, NEW ph, NEW lim \in Nat,
           Collected(r, p, o, ph, lim), p <= Len(r), ~(lim > 0 /\ Len(o) > lim),
           NEW a \in 1..Len(o), o[a] = r[p].match
    PROVE  Collected(r, p + 1, o, [ph EXCEPT ![a] = Append(@, r[p])], lim)
<1> DEFINE q == [ph EXCEPT ![a] = Append(@, r[p])]
           m == o[a]
           s == StartIn(r, m)
           b == ph[a]
<1>1. /\ Len(r) \in Nat /\ p \in 1..Len(r) /\ p \in Nat
      /\ \A i \in 1..Len(r) : r[i] \in PatchRow /\ r[i].match \in Nat
  BY RowTyped DEF Collected
<1>2. /\ Len(o) \in Nat /\ Len(ph) = Len(o) /\ a \in 1..Len(ph) /\ DOMAIN ph = 1..Len(ph)
      /\ ph \in Seq(Seq(PatchRow)) /\ b \in Seq(PatchRow)
  <2>1. ph \in Seq(Seq(PatchRow)) /\ Len(ph) = Len(o) /\ o \in Seq(Matches)  BY DEF Collected
  <2> HIDE DEF PatchRow
  <2> QED  BY <2>1
<1>3. Block(r, p, m, b)  BY DEF Collected
<1>4. Append(b, r[p]) \in Seq(PatchRow) /\ Len(Append(b, r[p])) = Len(b) + 1 /\ Len(b) \in Nat
      /\ Append(b, r[p])[Len(b) + 1] = r[p]
      /\ \A x \in 1..Len(b) : Append(b, r[p])[x] = b[x]
  <2>1. r[p] \in PatchRow  BY <1>1
  <2> HIDE DEF PatchRow, b
  <2> QED  BY <1>2, <2>1
<1>5. q \in Seq(Seq(PatchRow)) /\ Len(q) = Len(o) /\ q[a] = Append(b, r[p])
      /\ \A i \in 1..Len(o) : i # a => q[i] = ph[i]
  <2>1. Append(b, r[p]) \in Seq(PatchRow)  BY <1>4
  <2> HIDE DEF PatchRow
  <2> QED  BY <1>2, <2>1
<1> HIDE DEF q, b
<1>6. s \in 1..p - 1 /\ r[s].match = m  BY <1>1, <1>3 DEF Block
<1>7. s + Len(b) = p
  <2>1. p - 1 \in 1..p - 1 /\ s <= p - 1  BY <1>1, <1>6
  <2>2. r[p - 1].match = m
    <3>1. r[s].match <= r[p - 1].match
      <4>1. CASE s = p - 1  BY <1>1, <1>6, <4>1
      <4>2. CASE s < p - 1
        <5>1. s \in 1..Len(r) /\ p - 1 \in 1..Len(r)  BY <1>1, <1>6, <2>1
        <5> QED  BY <4>2, <5>1 DEF Ordered
      <4> QED  BY <1>1, <1>6, <2>1, <4>1, <4>2
    <3>2. r[p - 1].match <= r[p].match
      <4>1. p - 1 \in 1..Len(r) /\ p \in 1..Len(r) /\ p - 1 < p  BY <1>1, <2>1
      <4> QED  BY <4>1 DEF Ordered
    <3>3. r[p - 1].match \in Nat /\ m \in Nat /\ r[p].match = m
      <4>1. p - 1 \in 1..Len(r) /\ s \in 1..Len(r)  BY <1>1, <1>6, <2>1
      <4> QED  BY <1>1, <1>6, <4>1
    <3> QED  BY <1>6, <3>1, <3>2, <3>3
  <2>3. p - 1 <= s + Len(b) - 1  BY <1>3, <2>1, <2>2 DEF Block
  <2>4. s + Len(b) - 1 <= p - 1  BY <1>3 DEF Block
  <2> DEFINE y == Len(b)
  <2>5. y \in Nat /\ s \in Nat /\ p - 1 <= s + y - 1 /\ s + y - 1 <= p - 1
    BY <1>1, <1>4, <1>6, <2>3, <2>4
  <2> HIDE DEF y, s
  <2>6. s + y = p  BY <1>1, <2>5
  <2> QED  BY <2>6 DEF y
<1>8. \A j \in 1..(p + 1) - 1 : j \in 1..p - 1 \/ j = p  BY <1>1
<1>9. Block(r, p + 1, m, q[a])
  <2> DEFINE c == q[a]
  <2>1. Len(c) = Len(b) + 1 /\ c[Len(b) + 1] = r[p] /\ \A x \in 1..Len(b) : c[x] = b[x]
    BY <1>4, <1>5
  <2> HIDE DEF c
  <2>2. s \in 1..(p + 1) - 1 /\ Len(c) \in Nat /\ Len(c) >= 1 /\ s + Len(c) - 1 <= (p + 1) - 1
    BY <1>1, <1>4, <1>6, <1>7, <2>1
  <2>3. ASSUME NEW j \in 1..(p + 1) - 1
        PROVE  r[j].match = m <=> s <= j /\ j <= s + Len(c) - 1
    <3>1. CASE j = p
      <4>1. s <= j /\ j <= s + Len(c) - 1  BY <1>1, <1>4, <1>6, <1>7, <2>1, <3>1
      <4> QED  BY <3>1, <4>1
    <3>2. CASE j \in 1..p - 1
      <4>1. r[j].match = m <=> s <= j /\ j <= s + Len(b) - 1  BY <1>3, <3>2 DEF Block
      <4>2. j <= s + Len(b) - 1 /\ j <= s + Len(c) - 1  BY <1>1, <1>4, <1>6, <1>7, <2>1, <3>2
      <4> QED  BY <4>1, <4>2
    <3> QED  BY <1>8, <3>1, <3>2
  <2>4. ASSUME NEW x \in 1..Len(c)  PROVE c[x] = r[s + x - 1]
    <3>1. CASE x = Len(b) + 1
      <4>1. s + x - 1 = p  BY <1>1, <1>4, <1>6, <1>7, <3>1
      <4> QED  BY <2>1, <3>1, <4>1
    <3>2. CASE x \in 1..Len(b)
      <4>1. b[x] = r[s + x - 1]  BY <1>3, <3>2 DEF Block
      <4> QED  BY <2>1, <3>2, <4>1
    <3> QED  BY <1>4, <2>1, <3>1, <3>2
  <2> QED  BY <2>2, <2>3, <2>4 DEF Block, c
<1>10. ASSUME NEW i \in 1..Len(o)  PROVE Block(r, p + 1, o[i], q[i])
  <2>1. CASE i = a  BY <1>9, <2>1
  <2>2. CASE i # a
    <3> DEFINE z == StartIn(r, o[i])
               d == ph[i]
    <3>1. Block(r, p, o[i], d) /\ q[i] = d  BY <1>5, <2>2 DEF Collected
    <3>2. o[i] # r[p].match
      <4>1. o[i] \in Nat /\ o[a] \in Nat
        <5>1. o \in Seq(Matches) /\ Matches \subseteq Nat  BY DEF Collected, BacktestConstants
        <5>2. o[i] \in Matches /\ o[a] \in Matches  BY <5>1
        <5> QED  BY <5>1, <5>2
      <4>2. i < a \/ a < i  BY <2>2
      <4>3. o[i] < o[a] \/ o[a] < o[i]  BY <4>2 DEF Collected
      <4> QED  BY <4>1, <4>3
    <3>3. /\ z \in 1..p - 1 /\ Len(d) \in Nat /\ Len(d) >= 1 /\ z + Len(d) - 1 <= p - 1
          /\ \A j \in 1..p - 1 : r[j].match = o[i] <=> z <= j /\ j <= z + Len(d) - 1
          /\ \A x \in 1..Len(d) : d[x] = r[z + x - 1]
      BY <3>1 DEF Block
    <3> HIDE DEF z, d
    <3>4. z \in 1..(p + 1) - 1 /\ z + Len(d) - 1 <= (p + 1) - 1  BY <1>1, <3>3
    <3>5. \A j \in 1..(p + 1) - 1 : r[j].match = o[i] <=> z <= j /\ j <= z + Len(d) - 1
      <4> TAKE j \in 1..(p + 1) - 1
      <4>1. CASE j = p
        <5>1. ~(j <= z + Len(d) - 1)  BY <1>1, <3>3, <4>1
        <5> QED  BY <3>2, <4>1, <5>1
      <4>2. CASE j \in 1..p - 1  BY <3>3, <4>2
      <4> QED  BY <1>8, <4>1, <4>2
    <3> QED  BY <3>1, <3>3, <3>4, <3>5 DEF Block, z
  <2> QED  BY <2>1, <2>2
<1>11. \A j \in 1..(p + 1) - 1 : \E i \in 1..Len(o) : o[i] = r[j].match
  <2> TAKE j \in 1..(p + 1) - 1
  <2>1. CASE j = p  BY <2>1
  <2>2. CASE j \in 1..p - 1  BY <2>2 DEF Collected
  <2> QED  BY <1>8, <2>1, <2>2
<1>12. lim > 0 => Len(o) <= lim + 1 /\ (Len(o) = lim + 1 => Len(q[lim + 1]) = 1)
  BY <1>2
<1>13. p + 1 \in 1..Len(r) + 1  BY <1>1
<1>14. o \in Seq(Matches) /\ \A i, j \in 1..Len(o) : i < j => o[i] < o[j]  BY DEF Collected
<1>15. Collected(r, p + 1, o, q, lim)
  BY <1>5, <1>10, <1>11, <1>12, <1>13, <1>14, Zenon DEF Collected
<1> QED  BY <1>15 DEF q

(* The first row of a match.                                               *)
LEMMA CollectNew ==
    ASSUME BacktestConstants, NEW r, Ordered(r), NEW p, NEW o, NEW ph, NEW lim \in Nat,
           Collected(r, p, o, ph, lim), p <= Len(r), ~(lim > 0 /\ Len(o) > lim),
           \A i \in 1..Len(o) : o[i] # r[p].match
    PROVE  Collected(r, p + 1, Append(o, r[p].match), Append(ph, <<r[p]>>), lim)
<1> DEFINE m == r[p].match
           w == Append(o, m)
           q == Append(ph, <<r[p]>>)
           l == Len(o)
<1>1. /\ Len(r) \in Nat /\ p \in 1..Len(r) /\ p \in Nat
      /\ r[p] \in PatchRow /\ m \in Matches /\ m \in Nat
      /\ \A i \in 1..Len(r) : r[i] \in PatchRow /\ r[i].match \in Nat
  <2>1. p \in 1..Len(r) /\ p \in Nat /\ Len(r) \in Nat  BY RowTyped DEF Collected
  <2> QED  BY <2>1, RowTyped
<1>2. /\ w \in Seq(Matches) /\ Len(w) = l + 1 /\ l \in Nat /\ w[l + 1] = m
      /\ \A i \in 1..l : w[i] = o[i]
  BY <1>1 DEF Collected
<1>3. /\ q \in Seq(Seq(PatchRow)) /\ Len(q) = l + 1 /\ q[l + 1] = <<r[p]>>
      /\ \A i \in 1..l : q[i] = ph[i]
  <2>1. ph \in Seq(Seq(PatchRow)) /\ Len(ph) = l  BY DEF Collected
  <2>2. <<r[p]>> \in Seq(PatchRow)
    <3> HIDE DEF PatchRow
    <3> QED  BY <1>1
  <2> HIDE DEF PatchRow
  <2> QED  BY <2>1, <2>2
<1> HIDE DEF w, q, m
<1>4. \A i \in 1..l + 1 : i \in 1..l \/ i = l + 1  BY <1>2
<1>5. \A j \in 1..(p + 1) - 1 : j \in 1..p - 1 \/ j = p  BY <1>1
<1>6. ASSUME NEW j \in 1..p - 1  PROVE r[j].match # m
  <2>1. PICK i \in 1..l : o[i] = r[j].match  BY DEF Collected
  <2> QED  BY <2>1 DEF m
<1>7. StartIn(r, m) = p  BY <1>1, <1>6, StartFound DEF m
<1>8. Block(r, p + 1, m, q[l + 1])
  <2> DEFINE c == <<r[p]>>
  <2>1. Len(c) = 1 /\ c[1] = r[p]  OBVIOUS
  <2> HIDE DEF c
  <2>2. p \in 1..(p + 1) - 1 /\ Len(c) \in Nat /\ Len(c) >= 1 /\ p + Len(c) - 1 <= (p + 1) - 1
    BY <1>1, <2>1
  <2>3. \A j \in 1..(p + 1) - 1 : r[j].match = m <=> p <= j /\ j <= p + Len(c) - 1
    <3> TAKE j \in 1..(p + 1) - 1
    <3>1. CASE j = p  BY <1>1, <2>1, <3>1 DEF m
    <3>2. CASE j \in 1..p - 1
      <4>1. ~(p <= j)  BY <1>1, <3>2
      <4> QED  BY <1>6, <3>2, <4>1
    <3> QED  BY <1>5, <3>1, <3>2
  <2>4. \A x \in 1..Len(c) : c[x] = r[p + x - 1]
    <3> TAKE x \in 1..Len(c)
    <3>1. x = 1 /\ p + x - 1 = p  BY <1>1, <2>1
    <3> QED  BY <2>1, <3>1
  <2> QED  BY <1>3, <1>7, <2>2, <2>3, <2>4 DEF Block, c
<1>9. ASSUME NEW i \in 1..l  PROVE Block(r, p + 1, w[i], q[i])
  <2> DEFINE z == StartIn(r, o[i])
             d == ph[i]
  <2>1. Block(r, p, o[i], d) /\ q[i] = d /\ w[i] = o[i]  BY <1>2, <1>3 DEF Collected
  <2>2. o[i] # r[p].match  OBVIOUS
  <2>3. /\ z \in 1..p - 1 /\ Len(d) \in Nat /\ Len(d) >= 1 /\ z + Len(d) - 1 <= p - 1
        /\ \A j \in 1..p - 1 : r[j].match = o[i] <=> z <= j /\ j <= z + Len(d) - 1
        /\ \A x \in 1..Len(d) : d[x] = r[z + x - 1]
    BY <2>1 DEF Block
  <2> HIDE DEF z, d
  <2>4. z \in 1..(p + 1) - 1 /\ z + Len(d) - 1 <= (p + 1) - 1  BY <1>1, <2>3
  <2>5. \A j \in 1..(p + 1) - 1 : r[j].match = o[i] <=> z <= j /\ j <= z + Len(d) - 1
    <3> TAKE j \in 1..(p + 1) - 1
    <3>1. CASE j = p
      <4>1. ~(j <= z + Len(d) - 1)  BY <1>1, <2>3, <3>1
      <4> QED  BY <2>2, <3>1, <4>1
    <3>2. CASE j \in 1..p - 1  BY <2>3, <3>2
    <3> QED  BY <1>5, <3>1, <3>2
  <2> QED  BY <2>1, <2>3, <2>4, <2>5 DEF Block, z
<1>10. \A i \in 1..Len(w) : Block(r, p + 1, w[i], q[i])
  BY <1>2, <1>4, <1>8, <1>9
<1>11. \A i, j \in 1..Len(w) : i < j => w[i] < w[j]
  <2> SUFFICES ASSUME NEW i \in 1..l + 1, NEW j \in 1..l + 1, i < j  PROVE w[i] < w[j]
    BY <1>2
  <2>1. i \in 1..l  BY <1>2, <1>4
  <2>2. CASE j \in 1..l
    <3>1. o[i] < o[j]  BY <2>1, <2>2 DEF Collected
    <3> QED  BY <1>2, <2>1, <2>2, <3>1
  <2>3. CASE j = l + 1
    <3> DEFINE z == StartIn(r, o[i])
    <3>1. Block(r, p, o[i], ph[i])  BY <2>1 DEF Collected
    <3>2. /\ z \in 1..p - 1 /\ Len(ph[i]) \in Nat /\ Len(ph[i]) >= 1
          /\ r[z].match = o[i] <=> z <= z /\ z <= z + Len(ph[i]) - 1
      BY <3>1 DEF Block
    <3>3. z \in 1..Len(r) /\ z < p  BY <1>1, <3>2
    <3>4. r[z].match = o[i]  BY <3>2, <3>3
    <3>5. o[i] <= m  BY <1>1, <3>3, <3>4 DEF Ordered, m
    <3>6. o[i] # m  BY <2>1 DEF m
    <3>7. o[i] \in Nat  BY <1>1, <3>3, <3>4
    <3> QED  BY <1>1, <1>2, <2>1, <2>3, <3>5, <3>6, <3>7
  <2> QED  BY <1>4, <2>2, <2>3
<1>12. \A j \in 1..(p + 1) - 1 : \E i \in 1..Len(w) : w[i] = r[j].match
  <2> TAKE j \in 1..(p + 1) - 1
  <2>1. CASE j = p
    <3>1. l + 1 \in 1..Len(w) /\ w[l + 1] = r[j].match  BY <1>2, <2>1 DEF m
    <3> QED  BY <3>1
  <2>2. CASE j \in 1..p - 1
    <3>1. PICK i \in 1..l : o[i] = r[j].match  BY <2>2 DEF Collected
    <3>2. i \in 1..Len(w) /\ w[i] = o[i]  BY <1>2
    <3> QED  BY <3>1, <3>2
  <2> QED  BY <1>5, <2>1, <2>2
<1>13. lim > 0 => Len(w) <= lim + 1 /\ (Len(w) = lim + 1 => Len(q[lim + 1]) = 1)
  <2> SUFFICES ASSUME lim > 0  PROVE Len(w) <= lim + 1 /\ (Len(w) = lim + 1 => Len(q[lim + 1]) = 1)
    OBVIOUS
  <2>1. l <= lim  BY <1>2
  <2>2. Len(w) <= lim + 1 /\ (Len(w) = lim + 1 => l = lim)  BY <1>2, <2>1
  <2>3. Len(q[l + 1]) = 1  BY <1>3
  <2> QED  BY <2>2, <2>3
<1>14. p + 1 \in 1..Len(r) + 1  BY <1>1
<1>15. Len(q) = Len(w)  BY <1>2, <1>3
<1>16. Collected(r, p + 1, w, q, lim)
  BY <1>2, <1>3, <1>10, <1>11, <1>12, <1>13, <1>14, <1>15, Zenon DEF Collected
<1> QED  BY <1>16 DEF w, q, m

(* When the collection stops, it has the first matches whole.              *)
LEMMA CollectedWhole ==
    ASSUME BacktestConstants, NEW r, Ordered(r), NEW p, NEW o, NEW ph, NEW lim \in Nat,
           Collected(r, p, o, ph, lim), p > Len(r) \/ (lim > 0 /\ Len(o) > lim)
    PROVE  /\ \A i \in 1..Len(o) : \A x \in 1..Len(ph[i]) :
                 /\ StartIn(r, o[i]) + x - 1 \in 1..Len(r) /\ x \in 1..Len(r)
                 /\ ph[i][x] = r[StartIn(r, o[i]) + x - 1]
           /\ \A i \in 1..Len(o) : (lim = 0 \/ i <= lim) =>
                 \A j \in 1..Len(r) : r[j].match = o[i] <=>
                    StartIn(r, o[i]) <= j /\ j <= StartIn(r, o[i]) + Len(ph[i]) - 1
           /\ \A j \in 1..Len(r) : \/ \E i \in 1..Len(o) : o[i] = r[j].match
                                   \/ lim > 0 /\ Len(o) = lim + 1 /\ r[j].match > o[lim + 1]
<1>1. /\ Len(r) \in Nat /\ p \in 1..Len(r) + 1 /\ p \in Nat /\ p - 1 \in 0..Len(r)
      /\ \A i \in 1..Len(r) : r[i].match \in Nat
  BY RowTyped DEF Collected
<1>2. Len(o) \in Nat /\ Matches \subseteq Nat /\ \A i \in 1..Len(o) : o[i] \in Nat
  <2>1. o \in Seq(Matches) /\ Matches \subseteq Nat  BY DEF Collected, BacktestConstants
  <2>2. \A i \in 1..Len(o) : o[i] \in Matches  BY <2>1
  <2>3. Len(o) \in Nat  BY <2>1
  <2> QED  BY <2>1, <2>2, <2>3, Zenon
<1>3. ASSUME NEW i \in 1..Len(o)
      PROVE  LET s == StartIn(r, o[i])
             IN  /\ s \in 1..p - 1 /\ Len(ph[i]) \in Nat /\ Len(ph[i]) >= 1 /\ r[s].match = o[i]
                 /\ s + Len(ph[i]) - 1 <= p - 1 /\ s \in 1..Len(r) /\ s < p
                 /\ \A j \in 1..p - 1 : r[j].match = o[i] <=> s <= j /\ j <= s + Len(ph[i]) - 1
                 /\ \A x \in 1..Len(ph[i]) : ph[i][x] = r[s + x - 1]
  <2> DEFINE s == StartIn(r, o[i])
             l == Len(ph[i])
  <2>1. /\ s \in 1..p - 1 /\ l \in Nat /\ l >= 1 /\ s + l - 1 <= p - 1
        /\ \A j \in 1..p - 1 : r[j].match = o[i] <=> s <= j /\ j <= s + l - 1
        /\ \A x \in 1..l : ph[i][x] = r[s + x - 1]
    BY DEF Collected, Block
  <2> HIDE DEF s, l
  <2>2. s <= s /\ s <= s + l - 1 /\ s \in 1..Len(r) /\ s < p  BY <1>1, <2>1
  <2>3. r[s].match = o[i]  BY <2>1, <2>2
  <2> QED  BY <2>1, <2>2, <2>3 DEF s, l
<1>4. ASSUME NEW i \in 1..Len(o), NEW x \in 1..Len(ph[i])
      PROVE  /\ StartIn(r, o[i]) + x - 1 \in 1..Len(r) /\ x \in 1..Len(r)
             /\ ph[i][x] = r[StartIn(r, o[i]) + x - 1]
  <2> DEFINE s == StartIn(r, o[i])
             l == Len(ph[i])
  <2>1. s \in 1..p - 1 /\ l \in Nat /\ s + l - 1 <= p - 1 /\ ph[i][x] = r[s + x - 1] /\ x \in 1..l
    BY <1>3
  <2> HIDE DEF s, l
  <2>2. s + x - 1 \in 1..Len(r) /\ x \in 1..Len(r)  BY <1>1, <2>1
  <2> QED  BY <2>1, <2>2 DEF s
<1>5. ASSUME p <= Len(r)
      PROVE  /\ lim > 0 /\ Len(o) = lim + 1 /\ lim + 1 \in 1..Len(o)
             /\ \A j \in p..Len(r) : o[lim + 1] <= r[j].match
  <2>1. lim > 0 /\ Len(o) = lim + 1 /\ lim + 1 \in 1..Len(o)  BY <1>1, <1>2, <1>5 DEF Collected
  <2> DEFINE s == StartIn(r, o[lim + 1])
  <2>2. s \in 1..Len(r) /\ s < p /\ r[s].match = o[lim + 1]  BY <1>3, <2>1
  <2> HIDE DEF s
  <2>3. ASSUME NEW j \in p..Len(r)  PROVE o[lim + 1] <= r[j].match
    <3>1. j \in 1..Len(r) /\ s < j  BY <1>1, <2>2
    <3> QED  BY <2>2, <3>1 DEF Ordered
  <2> QED  BY <2>1, <2>3
<1>6. \A j \in 1..Len(r) : j \in 1..p - 1 \/ (p <= Len(r) /\ j \in p..Len(r))  BY <1>1
<1>7. ASSUME NEW i \in 1..Len(o), lim = 0 \/ i <= lim, NEW j \in 1..Len(r)
      PROVE  r[j].match = o[i] <=> StartIn(r, o[i]) <= j /\ j <= StartIn(r, o[i]) + Len(ph[i]) - 1
  <2> DEFINE s == StartIn(r, o[i])
             l == Len(ph[i])
  <2>1. /\ s \in 1..p - 1 /\ l \in Nat /\ s + l - 1 <= p - 1
        /\ \A y \in 1..p - 1 : r[y].match = o[i] <=> s <= y /\ y <= s + l - 1
    BY <1>3
  <2> HIDE DEF s, l
  <2>2. CASE j \in 1..p - 1  BY <2>1, <2>2 DEF s, l
  <2>3. CASE p <= Len(r) /\ j \in p..Len(r)
    <3>1. ~(j <= s + l - 1)  BY <1>1, <2>1, <2>3
    <3>2. lim > 0 /\ lim + 1 \in 1..Len(o) /\ o[lim + 1] <= r[j].match  BY <1>5, <2>3
    <3>3. i < lim + 1  BY <1>7, <3>2
    <3>4. o[i] < o[lim + 1]  BY <3>2, <3>3 DEF Collected
    <3>5. o[i] \in Nat /\ o[lim + 1] \in Nat /\ r[j].match \in Nat  BY <1>1, <1>2, <3>2
    <3>6. r[j].match # o[i]  BY <3>2, <3>4, <3>5
    <3> QED  BY <3>1, <3>6 DEF s, l
  <2> QED  BY <1>6, <2>2, <2>3
<1>8. ASSUME NEW j \in 1..Len(r)
      PROVE  \/ \E i \in 1..Len(o) : o[i] = r[j].match
             \/ lim > 0 /\ Len(o) = lim + 1 /\ r[j].match > o[lim + 1]
  <2>1. CASE j \in 1..p - 1  BY <2>1 DEF Collected
  <2>2. CASE p <= Len(r) /\ j \in p..Len(r)
    <3>1. lim > 0 /\ Len(o) = lim + 1 /\ lim + 1 \in 1..Len(o) /\ o[lim + 1] <= r[j].match
      BY <1>5, <2>2
    <3>2. o[lim + 1] \in Nat /\ r[j].match \in Nat  BY <1>1, <1>2, <3>1
    <3>3. o[lim + 1] = r[j].match \/ r[j].match > o[lim + 1]  BY <3>1, <3>2
    <3> QED  BY <3>1, <3>3
  <2> QED  BY <1>6, <2>1, <2>2
<1> QED  BY <1>4, <1>7, <1>8

LEMMA LimitKept ==
    ASSUME BacktestConstants, Ordered(rows), limit \in Nat,
           Collected(rows, pos, order, phases, limit), pos > Len(rows) \/ LimitReached
    PROVE  /\ \A i, j \in DOMAIN order : i < j => order[i] < order[j]
           /\ \A i \in DOMAIN order : Begun(i) /\ (limit = 0 \/ i <= limit => Whole(i))
           /\ \A i \in DOMAIN rows :
                 rows[i].match \in ToSet(order) \/
                 (limit > 0 /\ limit \in DOMAIN order /\ order[limit] < rows[i].match)
<1>1. /\ Len(rows) \in Nat /\ DOMAIN rows = 1..Len(rows)  BY RowTyped
<1>2. /\ order \in Seq(Matches) /\ DOMAIN order = 1..Len(order) /\ Len(order) \in Nat
      /\ phases \in Seq(Seq(PatchRow)) /\ Len(phases) = Len(order)
  BY DEF Collected
<1>3. \A i \in 1..Len(order) : DOMAIN phases[i] = 1..Len(phases[i]) /\ Len(phases[i]) \in Nat
  <2> TAKE i \in 1..Len(order)
  <2>1. phases[i] \in Seq(PatchRow)
    <3> HIDE DEF PatchRow
    <3> QED  BY <1>2
  <2> HIDE DEF PatchRow
  <2> QED  BY <2>1
<1>4. /\ \A i \in 1..Len(order) : \A x \in 1..Len(phases[i]) :
            /\ StartOf(order[i]) + x - 1 \in 1..Len(rows)
            /\ phases[i][x] = rows[StartOf(order[i]) + x - 1]
      /\ \A i \in 1..Len(order) : (limit = 0 \/ i <= limit) =>
            \A j \in 1..Len(rows) : rows[j].match = order[i] <=>
               StartOf(order[i]) <= j /\ j <= StartOf(order[i]) + Len(phases[i]) - 1
      /\ \A j \in 1..Len(rows) :
            \/ \E i \in 1..Len(order) : order[i] = rows[j].match
            \/ limit > 0 /\ Len(order) = limit + 1 /\ rows[j].match > order[limit + 1]
  <2>1. \A m : StartOf(m) = StartIn(rows, m)  BY DEF StartOf, StartIn
  <2>2. pos > Len(rows) \/ (limit > 0 /\ Len(order) > limit)  BY DEF LimitReached
  <2>3. /\ \A i \in 1..Len(order) : \A x \in 1..Len(phases[i]) :
              /\ StartIn(rows, order[i]) + x - 1 \in 1..Len(rows) /\ x \in 1..Len(rows)
              /\ phases[i][x] = rows[StartIn(rows, order[i]) + x - 1]
        /\ \A i \in 1..Len(order) : (limit = 0 \/ i <= limit) =>
              \A j \in 1..Len(rows) : rows[j].match = order[i] <=>
                 StartIn(rows, order[i]) <= j /\ j <= StartIn(rows, order[i]) + Len(phases[i]) - 1
        /\ \A j \in 1..Len(rows) :
              \/ \E i \in 1..Len(order) : order[i] = rows[j].match
              \/ limit > 0 /\ Len(order) = limit + 1 /\ rows[j].match > order[limit + 1]
    BY <2>2, CollectedWhole, Zenon
  <2> QED  BY <2>1, <2>3
<1>5. \A i, j \in DOMAIN order : i < j => order[i] < order[j]  BY <1>2 DEF Collected
<1>6. ASSUME NEW i \in DOMAIN order  PROVE Begun(i)
  BY <1>1, <1>2, <1>3, <1>4 DEF Begun, RowOf
<1>7. ASSUME NEW i \in DOMAIN order, limit = 0 \/ i <= limit  PROVE Whole(i)
  <2> DEFINE s == StartOf(order[i])
             l == Len(phases[i])
  <2>1. \A j \in 1..Len(rows) : rows[j].match = order[i] <=> s <= j /\ j <= s + l - 1
    BY <1>2, <1>4, <1>7
  <2>2. l \in Nat /\ l >= 1 /\ s + 1 - 1 \in 1..Len(rows) /\ s + l - 1 \in 1..Len(rows)
    <3>1. Block(rows, pos, order[i], phases[i])  BY <1>2 DEF Collected
    <3>2. l \in Nat /\ l >= 1  BY <3>1 DEF Block
    <3>3. 1 \in 1..l /\ l \in 1..l  BY <3>2
    <3> HIDE DEF s
    <3> QED  BY <1>2, <1>4, <3>2, <3>3 DEF s
  <2>3. s \in Int
    <3>1. Block(rows, pos, order[i], phases[i])  BY <1>2 DEF Collected
    <3>2. StartIn(rows, order[i]) \in Int /\ s = StartIn(rows, order[i])
      BY <3>1 DEF Block, StartOf, StartIn
    <3> QED  BY <3>2
  <2> HIDE DEF s, l
  <2>4. ASSUME NEW j \in s..(s + l - 1)  PROVE j \in 1..Len(rows) /\ rows[j].match = order[i]
    <3>1. j \in 1..Len(rows) /\ s <= j /\ j <= s + l - 1  BY <1>1, <2>2, <2>3
    <3> QED  BY <2>1, <3>1
  <2>5. ASSUME NEW j \in 1..Len(rows), rows[j].match = order[i]  PROVE j \in s..(s + l - 1)
    <3>1. s <= j /\ j <= s + l - 1  BY <2>1, <2>5
    <3> QED  BY <1>1, <2>2, <2>3, <3>1
  <2>6. {j \in DOMAIN rows : rows[j].match = order[i]} = s..(s + l - 1)
    BY <1>1, <2>4, <2>5
  <2> QED  BY <2>6 DEF Whole, s, l
<1>8. \A i \in DOMAIN rows :
         rows[i].match \in ToSet(order) \/
         (limit > 0 /\ limit \in DOMAIN order /\ order[limit] < rows[i].match)
  <2> TAKE i \in DOMAIN rows
  <2>1. i \in 1..Len(rows)  BY <1>1
  <2>2. CASE \E j \in 1..Len(order) : order[j] = rows[i].match
    <3>1. PICK j \in 1..Len(order) : order[j] = rows[i].match  BY <2>2
    <3>2. order[j] \in ToSet(order)  BY <1>2 DEF ToSet
    <3> QED  BY <3>1, <3>2
  <2>3. CASE limit > 0 /\ Len(order) = limit + 1 /\ rows[i].match > order[limit + 1]
    <3>1. limit \in DOMAIN order /\ limit + 1 \in DOMAIN order  BY <1>2, <2>3
    <3>2. order[limit] < order[limit + 1]  BY <1>5, <3>1
    <3>3. Matches \subseteq Nat /\ rows[i].match \in Nat  BY <2>1, RowTyped DEF BacktestConstants
    <3>4. order[limit] \in Matches /\ order[limit + 1] \in Matches  BY <1>2, <3>1
    <3>5. order[limit] \in Nat /\ order[limit + 1] \in Nat  BY <3>3, <3>4
    <3> QED  BY <2>3, <3>1, <3>2, <3>3, <3>5
  <2> QED  BY <1>4, <2>1, <2>2, <2>3
<1> QED  BY <1>5, <1>6, <1>7, <1>8

-----------------------------------------------------------------------------
(* A draft under way: what is in it.                                       *)

IsDraft(pl) == pl \in [Teams -> [picks : Seq(Nat), bans : Seq(Nat)]]

LEMMA SeqGrows ==
    ASSUME NEW s \in Seq(Nat), NEW h \in Nat
    PROVE  Append(s, h) \in Seq(Nat) /\ ToSet(Append(s, h)) = ToSet(s) \cup {h}
<1> DEFINE t == Append(s, h)
<1>1. /\ t \in Seq(Nat) /\ Len(t) = Len(s) + 1 /\ t[Len(s) + 1] = h /\ Len(s) \in Nat
      /\ \A x \in 1..Len(s) : t[x] = s[x]
  OBVIOUS
<1> HIDE DEF t
<1>2. DOMAIN t = 1..Len(t) /\ DOMAIN s = 1..Len(s)  BY <1>1
<1>3. \A x \in 1..Len(t) : x \in 1..Len(s) \/ x = Len(s) + 1  BY <1>1
<1>4. 1..Len(s) \subseteq 1..Len(t) /\ Len(s) + 1 \in 1..Len(t)  BY <1>1
<1>5. ASSUME NEW x \in ToSet(t)  PROVE x \in ToSet(s) \cup {h}
  BY <1>1, <1>2, <1>3 DEF ToSet
<1>6. ASSUME NEW x \in ToSet(s) \cup {h}  PROVE x \in ToSet(t)
  BY <1>1, <1>2, <1>4 DEF ToSet
<1> QED  BY <1>1, <1>5, <1>6 DEF t

LEMMA DraftFields ==
    ASSUME NEW pl, IsDraft(pl), NEW t \in Teams
    PROVE  /\ pl[t].picks \in Seq(Nat) /\ pl[t].bans \in Seq(Nat)
           /\ pl[t] = [picks |-> pl[t].picks, bans |-> pl[t].bans]
<1>1. pl[t] \in [picks : Seq(Nat), bans : Seq(Nat)]  BY DEF IsDraft
<1> QED  BY <1>1

LEMMA Extended ==
    ASSUME NEW pl, IsDraft(pl), NEW team \in Teams, NEW b \in BOOLEAN, NEW h \in Nat
    PROVE  LET e == Extend(pl, team, b, h)
           IN  /\ IsDraft(e)
               /\ \A t \in Teams :
                     /\ e[t].picks = IF b /\ t = team THEN Append(pl[t].picks, h) ELSE pl[t].picks
                     /\ e[t].bans = IF ~b /\ t = team THEN Append(pl[t].bans, h) ELSE pl[t].bans
<1> DEFINE e == Extend(pl, team, b, h)
           P == Append(pl[team].picks, h)
           Q == Append(pl[team].bans, h)
<1>1. pl[team].picks \in Seq(Nat) /\ pl[team].bans \in Seq(Nat)
      /\ pl[team] = [picks |-> pl[team].picks, bans |-> pl[team].bans]
  BY DraftFields
<1>2. P \in Seq(Nat) /\ Q \in Seq(Nat)  BY <1>1, SeqGrows
<1>3. DOMAIN pl = Teams /\ \A t \in Teams : pl[t] \in [picks : Seq(Nat), bans : Seq(Nat)]
  BY DEF IsDraft
<1> HIDE DEF P, Q
<1>4. CASE b
  <2>1. e = [pl EXCEPT ![team] = [picks |-> P, bans |-> pl[team].bans]]
    <3>1. e = [pl EXCEPT ![team] = [pl[team] EXCEPT !.picks = P]]  BY <1>4 DEF Extend, P
    <3>2. [pl[team] EXCEPT !.picks = P] = [picks |-> P, bans |-> pl[team].bans]
      <4>1. \A x, y, z : [[picks |-> x, bans |-> y] EXCEPT !.picks = z] = [picks |-> z, bans |-> y]
        OBVIOUS
      <4> DEFINE x == pl[team].picks
                 y == pl[team].bans
      <4>2. pl[team] = [picks |-> x, bans |-> y]  BY <1>1
      <4> HIDE DEF x, y
      <4>3. [pl[team] EXCEPT !.picks = P] = [picks |-> P, bans |-> y]  BY <4>1, <4>2
      <4> QED  BY <4>3 DEF y
    <3> QED  BY <3>1, <3>2
  <2>2. e[team] = [picks |-> P, bans |-> pl[team].bans] /\ DOMAIN e = Teams
        /\ \A t \in Teams : t # team => e[t] = pl[t]
    BY <1>3, <2>1
  <2>3. e[team] \in [picks : Seq(Nat), bans : Seq(Nat)] /\ e[team].picks = P
        /\ e[team].bans = pl[team].bans
    BY <1>1, <1>2, <2>2
  <2>4. IsDraft(e)  BY <1>3, <2>1, <2>2, <2>3 DEF IsDraft
  <2> QED  BY <1>4, <2>2, <2>3, <2>4 DEF P
<1>5. CASE ~b
  <2>1. e = [pl EXCEPT ![team] = [picks |-> pl[team].picks, bans |-> Q]]
    <3>1. e = [pl EXCEPT ![team] = [pl[team] EXCEPT !.bans = Q]]  BY <1>5 DEF Extend, Q
    <3>2. [pl[team] EXCEPT !.bans = Q] = [picks |-> pl[team].picks, bans |-> Q]  BY <1>1
    <3> QED  BY <3>1, <3>2
  <2>2. e[team] = [picks |-> pl[team].picks, bans |-> Q] /\ DOMAIN e = Teams
        /\ \A t \in Teams : t # team => e[t] = pl[t]
    BY <1>3, <2>1
  <2>3. e[team] \in [picks : Seq(Nat), bans : Seq(Nat)] /\ e[team].bans = Q
        /\ e[team].picks = pl[team].picks
    BY <1>1, <1>2, <2>2
  <2>4. IsDraft(e)  BY <1>3, <2>1, <2>2, <2>3 DEF IsDraft
  <2> QED  BY <1>5, <2>2, <2>3, <2>4 DEF Q
<1> QED  BY <1>4, <1>5

LEMMA DraftedGrows ==
    ASSUME NEW pl, IsDraft(pl), NEW team \in Teams, NEW b \in BOOLEAN, NEW h \in Nat
    PROVE  /\ IsDraft(Extend(pl, team, b, h))
           /\ Drafted(Extend(pl, team, b, h)) = Drafted(pl) \cup {h}
<1> DEFINE e == Extend(pl, team, b, h)
           Of(d, t) == ToSet(d[t].picks) \cup ToSet(d[t].bans)
<1>1. /\ IsDraft(e)
      /\ \A t \in Teams :
            /\ e[t].picks = IF b /\ t = team THEN Append(pl[t].picks, h) ELSE pl[t].picks
            /\ e[t].bans = IF ~b /\ t = team THEN Append(pl[t].bans, h) ELSE pl[t].bans
  BY Extended
<1> HIDE DEF e
<1>2. Of(e, team) = Of(pl, team) \cup {h}
  <2>1. pl[team].picks \in Seq(Nat) /\ pl[team].bans \in Seq(Nat)  BY DraftFields
  <2>2. ToSet(Append(pl[team].picks, h)) = ToSet(pl[team].picks) \cup {h}  BY <2>1, SeqGrows
  <2>3. ToSet(Append(pl[team].bans, h)) = ToSet(pl[team].bans) \cup {h}  BY <2>1, SeqGrows
  <2>4. CASE b
    <3>1. e[team].picks = Append(pl[team].picks, h) /\ e[team].bans = pl[team].bans
      BY <1>1, <2>4
    <3> QED  BY <2>2, <3>1
  <2>5. CASE ~b
    <3>1. e[team].bans = Append(pl[team].bans, h) /\ e[team].picks = pl[team].picks
      BY <1>1, <2>5
    <3> QED  BY <2>3, <3>1
  <2> QED  BY <2>4, <2>5
<1>3. \A t \in Teams : t # team => Of(e, t) = Of(pl, t)  BY <1>1
<1>4. \A d : Drafted(d) = UNION {Of(d, t) : t \in Teams}  BY DEF Drafted
<1> HIDE DEF Of
<1>5. Drafted(e) = Drafted(pl) \cup {h}
  <2>1. ASSUME NEW x \in Drafted(e)  PROVE x \in Drafted(pl) \cup {h}
    <3>1. PICK t \in Teams : x \in Of(e, t)  BY <1>4
    <3> QED  BY <1>2, <1>3, <1>4, <3>1
  <2>2. ASSUME NEW x \in Drafted(pl) \cup {h}  PROVE x \in Drafted(e)
    <3>1. CASE x = h  BY <1>2, <1>4, <3>1
    <3>2. CASE x \in Drafted(pl)
      <4>1. PICK t \in Teams : x \in Of(pl, t)  BY <1>4, <3>2
      <4> QED  BY <1>2, <1>3, <1>4, <4>1
    <3> QED  BY <3>1, <3>2
  <2> QED  BY <2>1, <2>2
<1> QED  BY <1>1, <1>5 DEF e

LEMMA NothingDrafted ==
    IsDraft(NoDraft) /\ Drafted(NoDraft) = {}
<1>1. <<>> \in Seq(Nat) /\ ToSet(<<>>) = {}  BY DEF ToSet
<1>2. \A t \in Teams : NoDraft[t] = [picks |-> <<>>, bans |-> <<>>]  BY DEF NoDraft
<1>3. IsDraft(NoDraft)
  <2>1. [picks |-> <<>>, bans |-> <<>>] \in [picks : Seq(Nat), bans : Seq(Nat)]  BY <1>1
  <2> QED  BY <2>1 DEF IsDraft, NoDraft
<1>4. \A t \in Teams : ToSet(NoDraft[t].picks) \cup ToSet(NoDraft[t].bans) = {}
  <2> TAKE t \in Teams
  <2>1. NoDraft[t].picks = <<>> /\ NoDraft[t].bans = <<>>  BY <1>2
  <2> QED  BY <1>1, <2>1
<1>5. Drafted(NoDraft) = {}  BY <1>4 DEF Drafted
<1> QED  BY <1>3, <1>5

-----------------------------------------------------------------------------
(* Backtest: the replay.  BackInv has, of the rows read so far, that the   *)
(* matches are whole and in order (Collected), of the row to replay, that  *)
(* the draft holds the heroes of the rows before it (Known), and of the    *)
(* result, that it has counted the picks before it (Counts).               *)

(* The picks to count under n before row x of the c-th match.              *)
Counted(n, c, x) == {z \in Under(n) : z[1] < c \/ (z[1] = c /\ z[2] < x)}

Known ==
    \A h \in BackCatalog \ {HeroIDNone} :
       h \in Drafted(played) <=> \E y \in 1..idx - 1 : phases[cur][y].hero = h

CountsTyped ==
    \A n \in DOMAIN acc :
       /\ n[1] = "pick"
       /\ acc[n].total \in Nat /\ acc[n].correct \in Nat /\ acc[n].recall3 \in Nat
       /\ acc[n].correct <= acc[n].recall3 /\ acc[n].recall3 <= acc[n].total

Counts ==
    /\ \A n \in DOMAIN acc : acc[n].total = Cardinality(Counted(n, cur, idx))
    /\ \A n : n \notin DOMAIN acc => Counted(n, cur, idx) = {}

(* What holds once the rows are collected.                                 *)
Gathered ==
    /\ Ordered(rows) /\ limit \in Nat /\ Collected(rows, pos, order, phases, limit)
    /\ pos > Len(rows) \/ LimitReached
    /\ tables = [i \in DOMAIN phases |-> TableOf(phases[i])]

RostersTyped == \A m \in DOMAIN rosters : rosters[m] = [t \in Teams |-> {<<m, t>>}]

ReplayAt ==
    /\ cur \in 1..Len(order) + 1 /\ idx \in Nat /\ idx >= 1
    /\ cur <= Len(order) => idx <= Len(phases[cur]) + 1 /\ Known

BackInv ==
    /\ Ordered(rows) /\ limit \in Nat /\ Collected(rows, pos, order, phases, limit)
    /\ IsDraft(played) /\ RostersTyped
    /\ doing \in {"rosters", "query", "collect", "failed", "replay", "done"}
    /\ doing \in {"rosters", "query", "collect", "failed"} =>
          cur = 1 /\ idx = 1 /\ played = NoDraft /\ asked = {} /\ DOMAIN acc = {}
    /\ doing \in {"replay", "done"} => Gathered /\ ReplayAt /\ Counts
    /\ doing = "done" => cur > Len(order)
    /\ NoHindsight /\ CountsTyped

LEMMA GatheredTyped ==
    ASSUME BacktestConstants, Gathered
    PROVE  /\ DOMAIN order = 1..Len(order) /\ DOMAIN rows = 1..Len(rows)
           /\ Len(order) \in Nat /\ Len(rows) \in Nat /\ DOMAIN phases = 1..Len(order)
           /\ \A i \in 1..Len(order) :
                 /\ Len(phases[i]) \in Nat /\ DOMAIN phases[i] = 1..Len(phases[i])
                 /\ 1..Len(phases[i]) \subseteq 1..Len(rows)
                 /\ \A x \in 1..Len(phases[i]) :
                       /\ phases[i][x] = RowOf(order[i], x)
                       /\ phases[i][x].isPick \in BOOLEAN /\ phases[i][x].team \in Teams
                       /\ phases[i][x].hero \in Nat
                       /\ tables[i][x].name = PhaseName(FirstPhase(IsPickSeq(phases[i])) +
                             Switches(IsPickSeq(phases[i]), x), phases[i][x].isPick)
<1>1. /\ Ordered(rows) /\ limit \in Nat /\ Collected(rows, pos, order, phases, limit)
      /\ pos > Len(rows) \/ (limit > 0 /\ Len(order) > limit)
      /\ tables = [i \in DOMAIN phases |-> TableOf(phases[i])]
  BY DEF Gathered, LimitReached
<1>2. /\ Len(rows) \in Nat /\ DOMAIN rows = 1..Len(rows)
      /\ \A i \in 1..Len(rows) : rows[i].isPick \in BOOLEAN /\ rows[i].team \in Teams /\ rows[i].hero \in Nat
  BY <1>1, RowTyped
<1>3. /\ order \in Seq(Matches) /\ phases \in Seq(Seq(PatchRow)) /\ Len(phases) = Len(order)
  BY <1>1 DEF Collected
<1>4. /\ DOMAIN order = 1..Len(order) /\ Len(order) \in Nat /\ DOMAIN phases = 1..Len(order)
      /\ \A i \in 1..Len(order) : phases[i] \in Seq(PatchRow)
  <2> HIDE DEF PatchRow
  <2> QED  BY <1>3
<1>5. ASSUME NEW i \in 1..Len(order)
      PROVE  Len(phases[i]) \in Nat /\ DOMAIN phases[i] = 1..Len(phases[i])
  <2> HIDE DEF PatchRow
  <2> QED  BY <1>4
<1>6. \A i \in 1..Len(order) : \A x \in 1..Len(phases[i]) :
         /\ StartIn(rows, order[i]) + x - 1 \in 1..Len(rows) /\ x \in 1..Len(rows)
         /\ phases[i][x] = rows[StartIn(rows, order[i]) + x - 1]
  <2>1. Ordered(rows) /\ limit \in Nat /\ Collected(rows, pos, order, phases, limit)  BY <1>1
  <2>2. pos > Len(rows) \/ (limit > 0 /\ Len(order) > limit)  BY <1>1
  <2>3. /\ \A i \in 1..Len(order) : \A x \in 1..Len(phases[i]) :
              /\ StartIn(rows, order[i]) + x - 1 \in 1..Len(rows) /\ x \in 1..Len(rows)
              /\ phases[i][x] = rows[StartIn(rows, order[i]) + x - 1]
        /\ \A i \in 1..Len(order) : (limit = 0 \/ i <= limit) =>
              \A j \in 1..Len(rows) : rows[j].match = order[i] <=>
                 StartIn(rows, order[i]) <= j /\ j <= StartIn(rows, order[i]) + Len(phases[i]) - 1
        /\ \A j \in 1..Len(rows) :
              \/ \E i \in 1..Len(order) : order[i] = rows[j].match
              \/ limit > 0 /\ Len(order) = limit + 1 /\ rows[j].match > order[limit + 1]
    BY <2>1, <2>2, CollectedWhole, Zenon
  <2> QED  BY <2>3, Zenon
<1>7. ASSUME NEW i \in 1..Len(order), NEW x \in 1..Len(phases[i])
      PROVE  /\ phases[i][x] = RowOf(order[i], x)
             /\ phases[i][x].isPick \in BOOLEAN /\ phases[i][x].team \in Teams
             /\ phases[i][x].hero \in Nat
  <2>1. StartOf(order[i]) = StartIn(rows, order[i])  BY DEF StartOf, StartIn
  <2> QED  BY <1>2, <1>6, <2>1, Zenon DEF RowOf
<1>8. ASSUME NEW i \in 1..Len(order), NEW x \in 1..Len(phases[i])
      PROVE  tables[i][x].name = PhaseName(FirstPhase(IsPickSeq(phases[i])) +
                             Switches(IsPickSeq(phases[i]), x), phases[i][x].isPick)
  <2> DEFINE d == IsPickSeq(phases[i])
  <2>1. x \in DOMAIN phases[i]  BY <1>5
  <2>2. tables[i] = DerivePhaseTable(d)  BY <1>1, <1>4 DEF TableOf
  <2>3. DOMAIN d = DOMAIN phases[i] /\ d[x] = phases[i][x].isPick  BY <2>1 DEF IsPickSeq
  <2> HIDE DEF d
  <2>4. tables[i][x].name = PhaseName(FirstPhase(d) + Switches(d, x), d[x])
    BY <2>1, <2>2, <2>3 DEF DerivePhaseTable
  <2> QED  BY <2>3, <2>4 DEF d
<1> QED  BY <1>2, <1>4, <1>5, <1>6, <1>7, <1>8, Zenon

LEMMA CountedFinite ==
    ASSUME BacktestConstants, Gathered, NEW n, NEW c, NEW x
    PROVE  IsFiniteSet(Counted(n, c, x)) /\ Cardinality(Counted(n, c, x)) \in Nat
<1>1. DOMAIN order = 1..Len(order) /\ DOMAIN rows = 1..Len(rows)
      /\ Len(order) \in Nat /\ Len(rows) \in Nat
  BY GatheredTyped
<1>2. IsFiniteSet(1..Len(order)) /\ IsFiniteSet(1..Len(rows))  BY <1>1, FS_Interval
<1>3. IsFiniteSet((DOMAIN order) \X (DOMAIN rows))  BY <1>1, <1>2, FS_Product
<1>4. Counted(n, c, x) \subseteq (DOMAIN order) \X (DOMAIN rows)  BY DEF Counted, Under
<1> QED  BY <1>3, <1>4, FS_Subset, FS_CardinalityType

LEMMA InUnder ==
    ASSUME BacktestConstants, Gathered, NEW n, NEW z
    PROVE  z \in Under(n) <=>
              \E i \in 1..Len(order) : \E x \in 1..Len(phases[i]) :
                 z = <<i, x>> /\ Countable(i, x) /\ tables[i][x].name = n
<1>1. /\ DOMAIN order = 1..Len(order) /\ DOMAIN rows = 1..Len(rows)
      /\ \A i \in 1..Len(order) : DOMAIN phases[i] = 1..Len(phases[i]) /\ 1..Len(phases[i]) \subseteq 1..Len(rows)
  BY GatheredTyped
<1>2. ASSUME z \in Under(n)
      PROVE  \E i \in 1..Len(order) : \E x \in 1..Len(phases[i]) :
                z = <<i, x>> /\ Countable(i, x) /\ tables[i][x].name = n
  <2>1. z \in (DOMAIN order) \X (DOMAIN rows) /\ z[2] \in DOMAIN phases[z[1]] /\ Countable(z[1], z[2])
        /\ tables[z[1]][z[2]].name = n
    BY <1>2 DEF Under
  <2>2. z = <<z[1], z[2]>> /\ z[1] \in 1..Len(order)  BY <1>1, <2>1
  <2>3. z[2] \in 1..Len(phases[z[1]])  BY <1>1, <2>1, <2>2
  <2> QED  BY <2>1, <2>2, <2>3, Zenon
<1>3. ASSUME NEW i \in 1..Len(order), NEW x \in 1..Len(phases[i]),
             z = <<i, x>>, Countable(i, x), tables[i][x].name = n
      PROVE  z \in Under(n)
  <2>1. x \in 1..Len(rows) /\ x \in DOMAIN phases[i]  BY <1>1
  <2>2. z \in (DOMAIN order) \X (DOMAIN rows) /\ z[1] = i /\ z[2] = x  BY <1>1, <1>3, <2>1
  <2> QED  BY <1>3, <2>1, <2>2 DEF Under
<1> QED  BY <1>2, <1>3, Zenon

(* One row further.                                                        *)
LEMMA CountedNext ==
    ASSUME BacktestConstants, Gathered, NEW c \in 1..Len(order), NEW x \in 1..Len(phases[c]), NEW n
    PROVE  /\ <<c, x>> \notin Counted(n, c, x)
           /\ Counted(n, c, x + 1) =
                 IF Countable(c, x) /\ tables[c][x].name = n
                 THEN Counted(n, c, x) \cup {<<c, x>>} ELSE Counted(n, c, x)
<1>1. /\ Len(order) \in Nat /\ c \in Nat
      /\ \A i \in 1..Len(order) : Len(phases[i]) \in Nat
  BY GatheredTyped
<1>2. x \in Nat  BY <1>1
<1>3. ASSUME NEW i \in 1..Len(order), NEW y \in 1..Len(phases[i])
      PROVE  /\ <<i, y>>[1] = i /\ <<i, y>>[2] = y
             /\ (i < c \/ (i = c /\ y < x + 1)) <=> (i < c \/ (i = c /\ y < x) \/ (i = c /\ y = x))
             /\ ~(c < c) /\ ~(x < x) /\ x < x + 1
  <2>1. y \in Nat /\ i \in Nat  BY <1>1
  <2> QED  BY <1>1, <1>2, <2>1
<1>4. <<c, x>> \notin Counted(n, c, x)  BY <1>3 DEF Counted
<1>5. ASSUME NEW z \in Counted(n, c, x + 1)
      PROVE  z \in Counted(n, c, x) \/ (z = <<c, x>> /\ Countable(c, x) /\ tables[c][x].name = n)
  <2>1. z \in Under(n) /\ (z[1] < c \/ (z[1] = c /\ z[2] < x + 1))  BY DEF Counted
  <2>2. PICK i \in 1..Len(order) : \E y \in 1..Len(phases[i]) :
           z = <<i, y>> /\ Countable(i, y) /\ tables[i][y].name = n
    BY <2>1, InUnder, Zenon
  <2>3. PICK y \in 1..Len(phases[i]) : z = <<i, y>> /\ Countable(i, y) /\ tables[i][y].name = n
    BY <2>2
  <2>4. z[1] = i /\ z[2] = y  BY <1>3, <2>3
  <2>5. i < c \/ (i = c /\ y < x) \/ (i = c /\ y = x)  BY <1>3, <2>1, <2>4
  <2>6. CASE i < c \/ (i = c /\ y < x)  BY <2>1, <2>4, <2>6 DEF Counted
  <2>7. CASE i = c /\ y = x  BY <2>3, <2>7
  <2> QED  BY <2>5, <2>6, <2>7
<1>6. ASSUME NEW z \in Counted(n, c, x)  PROVE z \in Counted(n, c, x + 1)
  <2>1. z \in Under(n) /\ (z[1] < c \/ (z[1] = c /\ z[2] < x))  BY DEF Counted
  <2>2. PICK i \in 1..Len(order) : \E y \in 1..Len(phases[i]) :
           z = <<i, y>> /\ Countable(i, y) /\ tables[i][y].name = n
    BY <2>1, InUnder, Zenon
  <2>3. PICK y \in 1..Len(phases[i]) : z = <<i, y>>  BY <2>2
  <2>4. z[1] = i /\ z[2] = y  BY <1>3, <2>3
  <2>5. i < c \/ (i = c /\ y < x + 1)  BY <1>3, <2>1, <2>4
  <2> QED  BY <2>1, <2>4, <2>5 DEF Counted
<1>7. ASSUME Countable(c, x), tables[c][x].name = n  PROVE <<c, x>> \in Counted(n, c, x + 1)
  <2>1. <<c, x>> \in Under(n)  BY <1>7, InUnder, Zenon
  <2> QED  BY <1>3, <2>1 DEF Counted
<1>8. CASE Countable(c, x) /\ tables[c][x].name = n
  <2>1. Counted(n, c, x + 1) = Counted(n, c, x) \cup {<<c, x>>}  BY <1>5, <1>6, <1>7, <1>8
  <2> QED  BY <1>4, <1>8, <2>1, Zenon
<1>9. CASE ~(Countable(c, x) /\ tables[c][x].name = n)
  <2>1. Counted(n, c, x + 1) = Counted(n, c, x)  BY <1>5, <1>6, <1>9
  <2> QED  BY <1>4, <1>9, <2>1, Zenon
<1> QED  BY <1>8, <1>9

(* The next match: all rows of the last are behind.                        *)
LEMMA CountedMatch ==
    ASSUME BacktestConstants, Gathered, NEW c \in 1..Len(order), NEW x \in Nat, x > Len(phases[c]), NEW n
    PROVE  Counted(n, c + 1, 1) = Counted(n, c, x)
<1>1. /\ Len(order) \in Nat /\ c \in Nat
      /\ \A i \in 1..Len(order) : Len(phases[i]) \in Nat
  BY GatheredTyped
<1>2. ASSUME NEW z \in Under(n)
      PROVE  (z[1] < c + 1 \/ (z[1] = c + 1 /\ z[2] < 1)) <=> (z[1] < c \/ (z[1] = c /\ z[2] < x))
  <2>1. PICK i \in 1..Len(order) : \E y \in 1..Len(phases[i]) :
           z = <<i, y>> /\ Countable(i, y) /\ tables[i][y].name = n
    BY InUnder, Zenon
  <2>2. PICK y \in 1..Len(phases[i]) : z = <<i, y>>  BY <2>1
  <2>3. z[1] = i /\ z[2] = y /\ i \in Nat /\ y \in Nat /\ y >= 1 /\ y <= Len(phases[i])
    BY <1>1, <2>2
  <2>4. i = c => y < x
    <3> DEFINE l == Len(phases[c])
    <3>1. l \in Nat /\ x > l /\ (i = c => y <= l)  BY <1>1, <2>3
    <3> HIDE DEF l
    <3> QED  BY <2>3, <3>1
  <2>5. ~(y < 1) /\ (i < c + 1 <=> i < c \/ i = c)  BY <1>1, <2>3
  <2> QED  BY <2>3, <2>4, <2>5
<1> QED  BY <1>2 DEF Counted

LEMMA AllCounted ==
    ASSUME BacktestConstants, Gathered, NEW c, c > Len(order), c \in Nat, NEW x, NEW n
    PROVE  Counted(n, c, x) = Under(n)
<1>1. Len(order) \in Nat  BY GatheredTyped
<1> SUFFICES ASSUME NEW z \in Under(n)  PROVE z[1] < c
  BY DEF Counted
<1>2. PICK i \in 1..Len(order) : \E y \in 1..Len(phases[i]) :
         z = <<i, y>> /\ Countable(i, y) /\ tables[i][y].name = n
  BY InUnder, Zenon
<1>3. z[1] = i  BY <1>2
<1> QED  BY <1>1, <1>3

(* A row under replay, as the state before it has it.                      *)
LEMMA AskedAtRow ==
    ASSUME BacktestConstants, Gathered, ReplayAt, RostersTyped, Replaying
    PROVE  /\ cur \in 1..Len(order) /\ idx \in 1..Len(phases[cur]) /\ idx \in Nat
           /\ ThisRow.team \in Teams /\ ThisRow.hero \in Nat /\ ThisRow.isPick \in BOOLEAN
           /\ ThisRow = RowOf(order[cur], idx)
           /\ LegalHeroes(Asked, BackCatalog) =
                 (BackCatalog \ {HeroIDNone}) \ {RowOf(order[cur], i).hero : i \in 1..idx - 1}
           /\ ThisRow.isPick => (Countable(cur, idx) <=> ThisRow.hero \in LegalHeroes(Asked, BackCatalog))
           /\ Asked.roster \in {{}, {<<order[cur], RowOf(order[cur], idx).team>>}}
           /\ Phase(Asked).name = tables[cur][idx].name
           /\ ThisRow.isPick => tables[cur][idx].name[1] = "pick"
<1>1. /\ Len(order) \in Nat
      /\ \A i \in 1..Len(order) :
            /\ Len(phases[i]) \in Nat
            /\ \A x \in 1..Len(phases[i]) :
                       /\ phases[i][x] = RowOf(order[i], x)
                       /\ phases[i][x].isPick \in BOOLEAN /\ phases[i][x].team \in Teams
                       /\ phases[i][x].hero \in Nat
                       /\ tables[i][x].name = PhaseName(FirstPhase(IsPickSeq(phases[i])) +
                             Switches(IsPickSeq(phases[i]), x), phases[i][x].isPick)
  BY GatheredTyped, Zenon
<1>2. cur \in 1..Len(order) /\ idx \in Nat /\ idx >= 1  BY <1>1 DEF ReplayAt, Replaying
<1>3. idx \in 1..Len(phases[cur])
  <2> DEFINE l == Len(phases[cur])
  <2>1. l \in Nat /\ idx <= l  BY <1>1, <1>2 DEF Replaying
  <2> HIDE DEF l
  <2>2. idx \in 1..l  BY <1>2, <2>1
  <2> QED  BY <2>2 DEF l
<1>4. /\ ThisRow.team \in Teams /\ ThisRow.hero \in Nat /\ ThisRow.isPick \in BOOLEAN
      /\ ThisRow = RowOf(order[cur], idx)
  BY <1>1, <1>2, <1>3, Zenon DEF ThisRow
<1>5. ASSUME NEW y \in 1..idx - 1  PROVE phases[cur][y] = RowOf(order[cur], y)
  <2> DEFINE l == Len(phases[cur])
  <2>1. l \in Nat /\ idx \in 1..l  BY <1>1, <1>2, <1>3
  <2> HIDE DEF l
  <2>2. y \in 1..l  BY <2>1
  <2> QED  BY <1>1, <1>2, <2>2, Zenon DEF l
<1>6. Known  BY <1>1, <1>2 DEF ReplayAt
<1>7. /\ Asked.drafted = Drafted(played)
      /\ Asked.roster = (IF order[cur] \in DOMAIN rosters THEN rosters[order[cur]]
                         ELSE [t \in Teams |-> {}])[ThisRow.team]
      /\ Asked.phases = tables[cur] /\ Asked.slot = idx - 1
  BY DEF Asked, NewDraftState, KnownBefore
<1>8. \A h : h \in LegalHeroes(Asked, BackCatalog) <=>
             h \in BackCatalog \ {HeroIDNone} /\ h \notin Drafted(played)
  BY <1>7 DEF LegalHeroes
<1>9. \A h \in BackCatalog \ {HeroIDNone} :
         h \notin Drafted(played) <=> h \notin {RowOf(order[cur], i).hero : i \in 1..idx - 1}
  <2> TAKE h \in BackCatalog \ {HeroIDNone}
  <2>1. h \in Drafted(played) <=> \E y \in 1..idx - 1 : phases[cur][y].hero = h
    BY <1>6 DEF Known
  <2> QED  BY <1>5, <2>1
<1>10. LegalHeroes(Asked, BackCatalog) =
          (BackCatalog \ {HeroIDNone}) \ {RowOf(order[cur], i).hero : i \in 1..idx - 1}
  <2> DEFINE A == LegalHeroes(Asked, BackCatalog)
             B == BackCatalog \ {HeroIDNone}
             D == {RowOf(order[cur], i).hero : i \in 1..idx - 1}
  <2>1. \A h : h \in A <=> h \in B /\ h \notin D  BY <1>8, <1>9
  <2> HIDE DEF A, B, D
  <2>2. A = B \ D  BY <2>1
  <2> QED  BY <2>2 DEF A, B, D
<1>11. ASSUME ThisRow.isPick
       PROVE  Countable(cur, idx) <=> ThisRow.hero \in LegalHeroes(Asked, BackCatalog)
  <2>1. Countable(cur, idx) <=> /\ ThisRow.hero \in BackCatalog \ {HeroIDNone}
                                /\ ~\E y \in 1..idx - 1 : phases[cur][y].hero = ThisRow.hero
    BY <1>11 DEF Countable, ThisRow
  <2>2. ThisRow.hero \in BackCatalog \ {HeroIDNone} =>
           (ThisRow.hero \in Drafted(played) <=> \E y \in 1..idx - 1 : phases[cur][y].hero = ThisRow.hero)
    BY <1>6 DEF Known
  <2> QED  BY <1>8, <2>1, <2>2, Zenon
<1>12. Asked.roster \in {{}, {<<order[cur], RowOf(order[cur], idx).team>>}}
  <2>1. CASE order[cur] \in DOMAIN rosters
    <3>1. rosters[order[cur]] = [t \in Teams |-> {<<order[cur], t>>}]  BY <2>1 DEF RostersTyped
    <3> QED  BY <1>4, <1>7, <2>1, <3>1
  <2>2. CASE order[cur] \notin DOMAIN rosters  BY <1>4, <1>7, <2>2
  <2> QED  BY <2>1, <2>2
<1>13. Phase(Asked).name = tables[cur][idx].name
  <2>1. (idx - 1) + 1 = idx  BY <1>2
  <2> QED  BY <1>7, <2>1 DEF Phase
<1>14. ASSUME ThisRow.isPick  PROVE tables[cur][idx].name[1] = "pick"
  <2> DEFINE f == FirstPhase(IsPickSeq(phases[cur])) + Switches(IsPickSeq(phases[cur]), idx)
  <2>1. tables[cur][idx].name = PhaseName(f, phases[cur][idx].isPick)  BY <1>1, <1>2, <1>3, Zenon
  <2>2. phases[cur][idx].isPick  BY <1>14 DEF ThisRow
  <2> HIDE DEF f
  <2>3. PhaseName(f, phases[cur][idx].isPick) = <<"pick", f \div 2 + 1>>  BY <2>2 DEF PhaseName
  <2> QED  BY <2>1, <2>3
<1> QED  BY <1>2, <1>3, <1>4, <1>10, <1>11, <1>12, <1>13, <1>14, Zenon

(* What the draft under replay knows after a row that it has taken.        *)
LEMMA KnownGrows ==
    ASSUME BacktestConstants, Gathered, ReplayAt, RostersTyped, Replaying, IsDraft(played),
           NEW e, Drafted(e) = Drafted(played) \cup {ThisRow.hero} \/
                  (e = played /\ LegalHeroes(Asked, BackCatalog) = {}),
           NEW h \in BackCatalog \ {HeroIDNone}
    PROVE  h \in Drafted(e) <=> \E y \in 1..(idx + 1) - 1 : phases[cur][y].hero = h
<1>1. cur \in 1..Len(order) /\ idx \in Nat /\ idx >= 1  BY AskedAtRow
<1>2. h \in Drafted(played) <=> \E y \in 1..idx - 1 : phases[cur][y].hero = h
  BY <1>1 DEF ReplayAt, Known
<1>3. \A y : y \in 1..(idx + 1) - 1 <=> y \in 1..idx - 1 \/ y = idx  BY <1>1
<1>4. (\E y \in 1..(idx + 1) - 1 : phases[cur][y].hero = h) <=>
      (\E y \in 1..idx - 1 : phases[cur][y].hero = h) \/ ThisRow.hero = h
  BY <1>3 DEF ThisRow
<1>5. CASE Drafted(e) = Drafted(played) \cup {ThisRow.hero}  BY <1>2, <1>4, <1>5
<1>6. CASE e = played /\ LegalHeroes(Asked, BackCatalog) = {}
  <2>1. Asked.drafted = Drafted(played)  BY DEF Asked, NewDraftState, KnownBefore
  <2>2. h \in Drafted(played)  BY <1>6, <2>1 DEF LegalHeroes
  <2> QED  BY <1>2, <1>4, <1>6, <2>2
<1> QED  BY <1>5, <1>6

LEMMA BackStart ==
    ASSUME BacktestConstants, BackInit
    PROVE  BackInv
<1>1. rows \in Seq(PatchRow) /\ limit \in Nat
      /\ \A i, j \in DOMAIN rows : i < j => rows[i].match <= rows[j].match
  BY DEF BacktestConstants, BackInit, PatchRow
<1>2. Ordered(rows)
  <2>1. DOMAIN rows = 1..Len(rows)
    <3> HIDE DEF PatchRow
    <3> QED  BY <1>1
  <2> QED  BY <1>1, <2>1 DEF Ordered
<1>3. Collected(rows, pos, order, phases, limit)
  <2>1. pos = 1 /\ order = <<>> /\ phases = <<>>  BY DEF BackInit
  <2>2. Len(rows) \in Nat  BY <1>2, RowTyped
  <2>3. <<>> \in Seq(Matches) /\ <<>> \in Seq(Seq(PatchRow)) /\ Len(<<>>) = 0  OBVIOUS
  <2>4. 1..0 = {} /\ 1 - 1 = 0 /\ 1 \in 1..Len(rows) + 1  BY <2>2
  <2>5. 0 <= limit + 1 /\ 0 # limit + 1  BY <1>1
  <2> QED  BY <2>1, <2>3, <2>4, <2>5 DEF Collected
<1>4. IsDraft(played) /\ played = NoDraft  BY NothingDrafted DEF BackInit
<1>5. RostersTyped /\ NoHindsight /\ CountsTyped /\ DOMAIN acc = {}
  BY DEF BackInit, RostersTyped, NoHindsight, CountsTyped
<1> QED  BY <1>1, <1>2, <1>3, <1>4, <1>5 DEF BackInv, BackInit

LEMMA BackQuery ==
    ASSUME BacktestConstants, BackInv, LoadRosters \/ QueryRows \/ Collect \/ DeriveTables
    PROVE  BackInv'
<1>1. /\ Ordered(rows) /\ limit \in Nat /\ Collected(rows, pos, order, phases, limit)
      /\ IsDraft(played) /\ RostersTyped /\ NoHindsight /\ CountsTyped
  BY DEF BackInv
<1>2. doing \in {"rosters", "query", "collect"}  BY DEF LoadRosters, QueryRows, Collect, DeriveTables
<1>3. cur = 1 /\ idx = 1 /\ played = NoDraft /\ asked = {} /\ DOMAIN acc = {}  BY <1>2 DEF BackInv
<1>4. /\ rows' = rows /\ limit' = limit /\ cur' = cur /\ idx' = idx /\ played' = played
      /\ acc' = acc /\ asked' = asked
  BY DEF LoadRosters, QueryRows, Collect, DeriveTables
<1>5. Ordered(rows)' /\ (limit \in Nat)' /\ IsDraft(played)' /\ CountsTyped' /\ NoHindsight'
  <2>1. IsDraft(played)'  BY <1>1, <1>4 DEF IsDraft
  <2>2. Ordered(rows)'  BY <1>1, <1>4 DEF Ordered, PatchRow
  <2> QED  BY <1>1, <1>3, <1>4, <2>1, <2>2 DEF CountsTyped, NoHindsight
<1>6. (cur = 1 /\ idx = 1 /\ played = NoDraft /\ asked = {} /\ DOMAIN acc = {})'
  BY <1>3, <1>4 DEF NoDraft
<1>7. CASE LoadRosters
  <2>1. doing' = "query" /\ pos' = pos /\ order' = order /\ phases' = phases
    BY <1>7 DEF LoadRosters
  <2>2. PICK known \in SUBSET Matches : rosters' = [m \in known |-> [t \in Teams |-> {<<m, t>>}]]
    BY <1>7 DEF LoadRosters
  <2>3. RostersTyped'  BY <2>2 DEF RostersTyped
  <2>4. Collected(rows, pos, order, phases, limit)'  BY <1>1, <1>4, <2>1
  <2> QED  BY <1>5, <1>6, <2>1, <2>3, <2>4 DEF BackInv
<1>8. CASE Collect
  <2>1. doing = "collect" /\ pos <= Len(rows) /\ ~(limit > 0 /\ Len(order) > limit)
        /\ pos' = pos + 1 /\ doing' = doing /\ rosters' = rosters
    BY <1>8 DEF Collect, LimitReached
  <2>2. order \in Seq(Matches)  BY <1>1 DEF Collected
  <2>3. DOMAIN order = 1..Len(order)  BY <2>2
  <2>4. RostersTyped'  BY <1>1, <2>1 DEF RostersTyped
  <2>5. Collected(rows, pos', order', phases', limit)
    <3>1. CASE rows[pos].match \in ToSet(order)
      <4> DEFINE a == PlaceOf(rows[pos].match)
      <4>1. a \in 1..Len(order) /\ order[a] = rows[pos].match  BY <2>3, <3>1 DEF PlaceOf, ToSet
      <4>2. order' = order /\ phases' = [phases EXCEPT ![a] = Append(@, rows[pos])]
        BY <1>8, <3>1 DEF Collect
      <4> HIDE DEF a
      <4>3. Collected(rows, pos + 1, order, [phases EXCEPT ![a] = Append(@, rows[pos])], limit)
        BY <1>1, <2>1, <4>1, CollectMore
      <4> QED  BY <2>1, <4>2, <4>3
    <3>2. CASE rows[pos].match \notin ToSet(order)
      <4>1. \A i \in 1..Len(order) : order[i] # rows[pos].match  BY <2>3, <3>2 DEF ToSet
      <4>2. order' = Append(order, rows[pos].match) /\ phases' = Append(phases, <<rows[pos]>>)
        BY <1>8, <3>2 DEF Collect
      <4>3. Collected(rows, pos + 1, Append(order, rows[pos].match), Append(phases, <<rows[pos]>>), limit)
        BY <1>1, <2>1, <4>1, CollectNew
      <4> QED  BY <2>1, <4>2, <4>3
    <3> QED  BY <3>1, <3>2
  <2>6. Collected(rows, pos, order, phases, limit)'  BY <1>4, <2>5
  <2> QED  BY <1>5, <1>6, <2>1, <2>4, <2>6 DEF BackInv
<1>9. CASE DeriveTables
  <2>1. /\ doing' = "replay" /\ pos' = pos /\ order' = order /\ phases' = phases /\ rosters' = rosters
        /\ tables' = [i \in DOMAIN phases |-> TableOf(phases[i])] /\ (pos > Len(rows) \/ LimitReached)
    BY <1>9 DEF DeriveTables
  <2>2. RostersTyped'  BY <1>1, <2>1 DEF RostersTyped
  <2>3. Collected(rows, pos, order, phases, limit)'  BY <1>1, <1>4, <2>1
  <2>4. Gathered'  BY <1>4, <1>5, <2>1, <2>3 DEF Gathered, LimitReached
  <2>5. Counts'
    <3>1. DOMAIN order = 1..Len(order) /\ DOMAIN rows = 1..Len(rows)
      <4>1. order \in Seq(Matches)  BY <1>1 DEF Collected
      <4> QED  BY <1>1, <4>1, RowTyped
    <3>2. ASSUME NEW n  PROVE Counted(n, cur, idx)' = {}
      <4> SUFFICES ASSUME NEW z \in Under(n)'  PROVE ~(z[1] < 1) /\ ~(z[1] = 1 /\ z[2] < 1)
        BY <1>6 DEF Counted
      <4>1. z \in (DOMAIN order) \X (DOMAIN rows)  BY <1>4, <2>1 DEF Under
      <4> QED  BY <3>1, <4>1
    <3> QED  BY <1>6, <3>2 DEF Counts
  <2>6. ReplayAt'
    <3>1. Len(order') \in Nat
      <4>1. order' \in Seq(Matches)  BY <2>3 DEF Collected
      <4> QED  BY <4>1
    <3>2. (cur \in 1..Len(order) + 1 /\ idx \in Nat /\ idx >= 1)'  BY <1>6, <3>1
    <3>3. Known'
      <4>1. Drafted(played)' = {}  BY <1>6, NothingDrafted
      <4>2. 1..(idx - 1)' = {}  BY <1>6
      <4> QED  BY <4>1, <4>2 DEF Known
    <3>4. (cur <= Len(order) => idx <= Len(phases[cur]) + 1)'
      <4> SUFFICES ASSUME cur' <= Len(order')  PROVE 1 <= Len(phases'[1]) + 1
        BY <1>6
      <4>1. 1 \in 1..Len(order')  BY <1>6, <3>1
      <4>2. Block(rows', pos', order'[1], phases'[1])  BY <2>3, <4>1 DEF Collected
      <4>3. Len(phases'[1]) \in Nat  BY <4>2 DEF Block
      <4> QED  BY <4>3
    <3> QED  BY <3>2, <3>3, <3>4 DEF ReplayAt
  <2> QED  BY <1>5, <2>1, <2>2, <2>3, <2>4, <2>5, <2>6, NothingDrafted DEF BackInv
<1>10. CASE QueryRows
  <2>1. doing' \in {"collect", "failed"} /\ pos' = pos /\ order' = order /\ phases' = phases
        /\ rosters' = rosters
    BY <1>10 DEF QueryRows
  <2>2. RostersTyped'  BY <1>1, <2>1 DEF RostersTyped
  <2>3. Collected(rows, pos, order, phases, limit)'  BY <1>1, <1>4, <2>1
  <2> QED  BY <1>5, <1>6, <2>1, <2>2, <2>3 DEF BackInv
<1> QED  BY <1>7, <1>8, <1>9, <1>10

(* The rows stay as they are while they are replayed.                      *)
LEMMA ReplayKeeps ==
    ASSUME BackInv, rows' = rows, limit' = limit, pos' = pos, phases' = phases, order' = order,
           tables' = tables, rosters' = rosters
    PROVE  /\ Ordered(rows)' /\ (limit \in Nat)' /\ Collected(rows, pos, order, phases, limit)'
           /\ RostersTyped' /\ (Gathered => Gathered')
           /\ \A n, c, x : {z \in Under(n)' : z[1] < c \/ (z[1] = c /\ z[2] < x)} = Counted(n, c, x)
           /\ \A m, i : RowOf(m, i)' = RowOf(m, i)
<1>1. Ordered(rows)' /\ (limit \in Nat)' /\ Collected(rows, pos, order, phases, limit)'
  BY DEF BackInv
<1>2. RostersTyped'  BY DEF BackInv, RostersTyped
<1>3. Gathered => Gathered'  BY <1>1 DEF Gathered, LimitReached
<1>4. \A n : Under(n)' = Under(n)  BY DEF Under, Countable
<1>5. \A m, i : RowOf(m, i)' = RowOf(m, i)  BY DEF RowOf, StartOf
<1> QED  BY <1>1, <1>2, <1>3, <1>4, <1>5 DEF Counted

LEMMA BackBan ==
    ASSUME BacktestConstants, BackInv, ReplayBan
    PROVE  BackInv'
<1>1. /\ doing = "replay" /\ doing' = doing /\ Replaying /\ ~ThisRow.isPick
      /\ rows' = rows /\ limit' = limit /\ pos' = pos /\ phases' = phases /\ order' = order
      /\ tables' = tables /\ rosters' = rosters /\ cur' = cur /\ idx' = idx + 1
      /\ acc' = acc /\ asked' = asked
      /\ played' = Extend(played, ThisRow.team, FALSE, ThisRow.hero)
  BY DEF ReplayBan, Replaying, Unchanged
<1>2. Gathered /\ ReplayAt /\ Counts /\ RostersTyped /\ IsDraft(played) /\ NoHindsight /\ CountsTyped
  BY <1>1 DEF BackInv
<1>3. /\ Ordered(rows)' /\ (limit \in Nat)' /\ Collected(rows, pos, order, phases, limit)'
      /\ RostersTyped' /\ Gathered'
      /\ \A n, c, x : {z \in Under(n)' : z[1] < c \/ (z[1] = c /\ z[2] < x)} = Counted(n, c, x)
      /\ \A m, i : RowOf(m, i)' = RowOf(m, i)
  BY <1>1, <1>2, ReplayKeeps
<1>4. /\ cur \in 1..Len(order) /\ idx \in 1..Len(phases[cur]) /\ idx \in Nat
      /\ ThisRow.team \in Teams /\ ThisRow.hero \in Nat
  BY <1>1, <1>2, AskedAtRow
<1>5. IsDraft(played') /\ Drafted(played') = Drafted(played) \cup {ThisRow.hero}
  <2> DEFINE b == FALSE
             e == Extend(played, ThisRow.team, b, ThisRow.hero)
  <2>1. b \in BOOLEAN /\ IsDraft(played) /\ ThisRow.team \in Teams /\ ThisRow.hero \in Nat
    BY <1>2, <1>4
  <2>2. played' = e  BY <1>1
  <2> HIDE DEF b
  <2> DEFINE t == ThisRow.team
             h == ThisRow.hero
  <2>3. t \in Teams /\ h \in Nat  BY <2>1
  <2> HIDE DEF t, h
  <2>4. IsDraft(Extend(played, t, b, h)) /\ Drafted(Extend(played, t, b, h)) = Drafted(played) \cup {h}
    BY <2>1, <2>3, DraftedGrows
  <2>5. IsDraft(e) /\ Drafted(e) = Drafted(played) \cup {ThisRow.hero}
    BY <2>4 DEF t, h
  <2> QED  BY <2>5, <2>2, Zenon
<1>6. \A h \in BackCatalog \ {HeroIDNone} :
         h \in Drafted(played') <=> \E y \in 1..(idx + 1) - 1 : phases[cur][y].hero = h
  <2> TAKE h \in BackCatalog \ {HeroIDNone}
  <2> DEFINE e == played'
  <2>1. Drafted(e) = Drafted(played) \cup {ThisRow.hero} \/
           (e = played /\ LegalHeroes(Asked, BackCatalog) = {})
    BY <1>5
  <2> HIDE DEF e
  <2>2. h \in Drafted(e) <=> \E y \in 1..(idx + 1) - 1 : phases[cur][y].hero = h
    BY <1>1, <1>2, <2>1, KnownGrows, Zenon
  <2> QED  BY <2>2 DEF e
<1>7. ReplayAt'
  <2>1. Known'  BY <1>1, <1>6 DEF Known
  <2>2. idx' \in Nat /\ idx' >= 1 /\ idx' <= Len(phases[cur]) + 1  BY <1>1, <1>4
  <2> QED  BY <1>1, <1>2, <2>1, <2>2 DEF ReplayAt
<1>8. Counts'
  <2>1. ~Countable(cur, idx)  BY <1>1 DEF Countable, ThisRow
  <2>2. \A n : Counted(n, cur, idx + 1) = Counted(n, cur, idx)
    <3> TAKE n
    <3> QED  BY <1>2, <1>4, <2>1, CountedNext
  <2>3. \A n : Counted(n, cur, idx)' = Counted(n, cur, idx)  BY <1>1, <1>3, <2>2 DEF Counted
  <2> QED  BY <1>1, <1>2, <2>3 DEF Counts
<1>9. NoHindsight'  BY <1>1, <1>2, <1>3 DEF NoHindsight
<1>10. CountsTyped'  BY <1>1, <1>2 DEF CountsTyped
<1> QED  BY <1>1, <1>3, <1>5, <1>7, <1>8, <1>9, <1>10 DEF BackInv

LEMMA BackNextMatch ==
    ASSUME BacktestConstants, BackInv, NextMatch \/ ReplayEnds
    PROVE  BackInv'
<1>1. /\ doing = "replay"
      /\ rows' = rows /\ limit' = limit /\ pos' = pos /\ phases' = phases /\ order' = order
      /\ tables' = tables /\ rosters' = rosters /\ acc' = acc /\ asked' = asked
  BY DEF NextMatch, ReplayEnds
<1>2. Gathered /\ ReplayAt /\ Counts /\ RostersTyped /\ IsDraft(played) /\ NoHindsight /\ CountsTyped
  BY <1>1 DEF BackInv
<1>3. /\ Ordered(rows)' /\ (limit \in Nat)' /\ Collected(rows, pos, order, phases, limit)'
      /\ RostersTyped' /\ Gathered'
      /\ \A n, c, x : {z \in Under(n)' : z[1] < c \/ (z[1] = c /\ z[2] < x)} = Counted(n, c, x)
      /\ \A m, i : RowOf(m, i)' = RowOf(m, i)
  BY <1>1, <1>2, ReplayKeeps
<1>4. /\ Len(order) \in Nat /\ \A i \in 1..Len(order) : Len(phases[i]) \in Nat
      /\ cur \in 1..Len(order) + 1 /\ idx \in Nat
  BY <1>2, GatheredTyped DEF ReplayAt
<1>5. NoHindsight'  BY <1>1, <1>2, <1>3 DEF NoHindsight
<1>6. CountsTyped'  BY <1>1, <1>2 DEF CountsTyped
<1>7. CASE NextMatch
  <2>1. /\ cur <= Len(order) /\ idx > Len(phases[cur]) /\ cur' = cur + 1 /\ idx' = 1 /\ played' = NoDraft
        /\ doing' = doing
    BY <1>7 DEF NextMatch, StartOfMatch
  <2>2. cur \in 1..Len(order) /\ cur + 1 \in 1..Len(order) + 1  BY <1>4, <2>1
  <2>3. \A n : Counted(n, cur + 1, 1) = Counted(n, cur, idx)
    <3> TAKE n
    <3> QED  BY <1>2, <1>4, <2>1, <2>2, CountedMatch
  <2>4. ASSUME NEW n  PROVE Counted(n, cur, idx)' = Counted(n, cur, idx)
    <3>1. Counted(n, cur, idx)' = {z \in Under(n)' : z[1] < cur + 1 \/ (z[1] = cur + 1 /\ z[2] < 1)}
      BY <2>1 DEF Counted
    <3> QED  BY <1>3, <2>3, <3>1, Zenon
  <2>5. Counts'  BY <1>1, <1>2, <2>4 DEF Counts
  <2>6. IsDraft(played') /\ Drafted(played') = {}  BY <2>1, NothingDrafted
  <2>7. Known'
    <3>1. 1..(idx - 1)' = {}  BY <2>1
    <3> QED  BY <2>6, <3>1 DEF Known
  <2>8. (cur <= Len(order) => idx <= Len(phases[cur]) + 1)'
    <3> SUFFICES ASSUME cur + 1 <= Len(order)  PROVE 1 <= Len(phases[cur + 1]) + 1
      BY <1>1, <2>1
    <3>1. cur + 1 \in 1..Len(order)  BY <1>4
    <3>2. Len(phases[cur + 1]) \in Nat  BY <1>4, <3>1
    <3> QED  BY <3>2
  <2>9. ReplayAt'  BY <1>1, <2>1, <2>2, <2>7, <2>8 DEF ReplayAt
  <2> QED  BY <1>1, <1>3, <1>5, <1>6, <2>1, <2>5, <2>6, <2>9 DEF BackInv
<1>8. CASE ReplayEnds
  <2>1. doing' = "done" /\ cur > Len(order) /\ cur' = cur /\ idx' = idx /\ played' = played
    BY <1>8 DEF ReplayEnds
  <2>2. \A n : Counted(n, cur, idx)' = Counted(n, cur, idx)  BY <1>3, <2>1 DEF Counted
  <2>3. Counts'  BY <1>1, <1>2, <2>2 DEF Counts
  <2>4. ReplayAt'  BY <1>1, <1>2, <2>1 DEF ReplayAt, Known
  <2> QED  BY <1>1, <1>2, <1>3, <1>5, <1>6, <2>1, <2>3, <2>4 DEF BackInv
<1> QED  BY <1>7, <1>8

LEMMA BackPick ==
    ASSUME BacktestConstants, BackInv, ReplayPick
    PROVE  BackInv'
<1> DEFINE legal == LegalHeroes(Asked, BackCatalog)
           name == tables[cur][idx].name
<1>1. /\ doing = "replay" /\ doing' = doing /\ Replaying /\ ThisRow.isPick
      /\ rows' = rows /\ limit' = limit /\ pos' = pos /\ phases' = phases /\ order' = order
      /\ tables' = tables /\ rosters' = rosters /\ cur' = cur /\ idx' = idx + 1
  BY DEF ReplayPick, Replaying, Unchanged
<1>2. Gathered /\ ReplayAt /\ Counts /\ RostersTyped /\ IsDraft(played) /\ NoHindsight /\ CountsTyped
  BY <1>1 DEF BackInv
<1>3. /\ Ordered(rows)' /\ (limit \in Nat)' /\ Collected(rows, pos, order, phases, limit)'
      /\ RostersTyped' /\ Gathered'
      /\ \A n, c, x : {z \in Under(n)' : z[1] < c \/ (z[1] = c /\ z[2] < x)} = Counted(n, c, x)
      /\ \A m, i : RowOf(m, i)' = RowOf(m, i)
  BY <1>1, <1>2, ReplayKeeps
<1>4. /\ cur \in 1..Len(order) /\ idx \in 1..Len(phases[cur]) /\ idx \in Nat
      /\ ThisRow.team \in Teams /\ ThisRow.hero \in Nat
      /\ legal = (BackCatalog \ {HeroIDNone}) \ {RowOf(order[cur], i).hero : i \in 1..idx - 1}
      /\ Countable(cur, idx) <=> ThisRow.hero \in legal
      /\ Asked.roster \in {{}, {<<order[cur], RowOf(order[cur], idx).team>>}}
      /\ Phase(Asked).name = name /\ name[1] = "pick"
  BY <1>1, <1>2, AskedAtRow
<1>5. \/ legal = {} /\ played' = played /\ acc' = acc /\ asked' = asked
      \/ /\ legal # {} /\ played' = Extend(played, ThisRow.team, TRUE, ThisRow.hero)
         /\ asked' = asked \cup {[match |-> order[cur], idx |-> idx, legal |-> legal,
                                  roster |-> Asked.roster]}
         /\ \/ ThisRow.hero \notin legal /\ acc' = acc
            \/ /\ ThisRow.hero \in legal
               /\ \E rank \in 1..Cardinality(legal) :
                           acc' = [n \in DOMAIN acc \cup {name} |->
                                      IF n # name THEN acc[n]
                                      ELSE Count(IF n \in DOMAIN acc THEN acc[n] ELSE Zero, rank)]
  <2>1. Phase(Asked).name = name  BY <1>4
  <2> HIDE DEF name
  <2> QED  BY <2>1 DEF ReplayPick
<1> HIDE DEF legal, name
<1>6. IsDraft(played') /\ (Drafted(played') = Drafted(played) \cup {ThisRow.hero} \/
                           (played' = played /\ legal = {}))
  <2> DEFINE w == ThisRow.team
             h == ThisRow.hero
             b == TRUE
             e == Extend(played, w, b, h)
  <2>1. b \in BOOLEAN /\ IsDraft(played) /\ w \in Teams /\ h \in Nat
    BY <1>2, <1>4
  <2>2. IsDraft(e) /\ Drafted(e) = Drafted(played) \cup {ThisRow.hero}
    <3> HIDE DEF w, h, b
    <3>1. IsDraft(e) /\ Drafted(e) = Drafted(played) \cup {h}  BY <2>1, DraftedGrows
    <3> QED  BY <3>1 DEF h
  <2>3. CASE legal = {} /\ played' = played  BY <1>2, <2>3
  <2>4. CASE played' = e  BY <2>2, <2>4, Zenon
  <2> QED  BY <1>5, <2>3, <2>4
<1>7. ReplayAt'
  <2>1. ASSUME NEW h \in BackCatalog \ {HeroIDNone}
        PROVE  h \in Drafted(played') <=> \E y \in 1..(idx + 1) - 1 : phases[cur][y].hero = h
    <3> DEFINE e == played'
    <3>1. Drafted(e) = Drafted(played) \cup {ThisRow.hero} \/
             (e = played /\ LegalHeroes(Asked, BackCatalog) = {})
      BY <1>6 DEF legal
    <3> HIDE DEF e
    <3>2. h \in Drafted(e) <=> \E y \in 1..(idx + 1) - 1 : phases[cur][y].hero = h
      BY <1>1, <1>2, <3>1, KnownGrows, Zenon
    <3> QED  BY <3>2 DEF e
  <2>2. Known'  BY <1>1, <2>1 DEF Known
  <2>3. idx' \in Nat /\ idx' >= 1 /\ idx' <= Len(phases[cur]) + 1  BY <1>1, <1>4
  <2> QED  BY <1>1, <1>2, <2>2, <2>3 DEF ReplayAt
<1>8. NoHindsight'
  <2> SUFFICES ASSUME NEW q \in asked'
               PROVE  /\ q.legal = (BackCatalog \ {HeroIDNone}) \ {RowOf(q.match, i).hero : i \in 1..q.idx - 1}
                      /\ q.roster \in {{}, {<<q.match, RowOf(q.match, q.idx).team>>}}
    BY <1>3 DEF NoHindsight
  <2>1. CASE q \in asked  BY <1>2, <2>1 DEF NoHindsight
  <2>2. CASE q = [match |-> order[cur], idx |-> idx, legal |-> legal, roster |-> Asked.roster]
    <3>1. q.match = order[cur] /\ q.idx = idx /\ q.legal = legal /\ q.roster = Asked.roster
      BY <2>2
    <3> QED  BY <1>4, <3>1
  <2> QED  BY <1>5, <2>1, <2>2
<1>9. ASSUME NEW n
      PROVE  /\ n # name \/ ThisRow.hero \notin legal => Counted(n, cur, idx)' = Counted(n, cur, idx)
             /\ n = name /\ ThisRow.hero \in legal =>
                   Counted(n, cur, idx)' = Counted(n, cur, idx) \cup {<<cur, idx>>}
             /\ <<cur, idx>> \notin Counted(n, cur, idx)
             /\ IsFiniteSet(Counted(n, cur, idx)) /\ Cardinality(Counted(n, cur, idx)) \in Nat
  <2>1. /\ <<cur, idx>> \notin Counted(n, cur, idx)
        /\ Counted(n, cur, idx + 1) =
                 IF Countable(cur, idx) /\ name = n
                 THEN Counted(n, cur, idx) \cup {<<cur, idx>>} ELSE Counted(n, cur, idx)
    BY <1>2, <1>4, CountedNext DEF name
  <2>2. Counted(n, cur, idx)' = Counted(n, cur, idx + 1)
    <3>1. Counted(n, cur, idx)' = {z \in Under(n)' : z[1] < cur \/ (z[1] = cur /\ z[2] < idx + 1)}
      BY <1>1 DEF Counted
    <3> QED  BY <1>3, <3>1, Zenon
  <2>3. IsFiniteSet(Counted(n, cur, idx)) /\ Cardinality(Counted(n, cur, idx)) \in Nat
    BY <1>2, CountedFinite
  <2> QED  BY <1>4, <2>1, <2>2, <2>3
<1>10. CASE acc' = acc /\ ThisRow.hero \notin legal
  <2>1. \A n : Counted(n, cur, idx)' = Counted(n, cur, idx)  BY <1>9, <1>10
  <2>2. Counts'  BY <1>2, <1>10, <2>1 DEF Counts
  <2>3. CountsTyped'  BY <1>2, <1>10 DEF CountsTyped
  <2> QED  BY <1>1, <1>3, <1>6, <1>7, <1>8, <2>2, <2>3 DEF BackInv
<1>11. ASSUME ThisRow.hero \in legal, NEW rank \in 1..Cardinality(legal),
              acc' = [n \in DOMAIN acc \cup {name} |->
                         IF n # name THEN acc[n]
                         ELSE Count(IF n \in DOMAIN acc THEN acc[n] ELSE Zero, rank)]
       PROVE  BackInv'
  <2> DEFINE old == IF name \in DOMAIN acc THEN acc[name] ELSE Zero
  <2>1. /\ DOMAIN acc' = DOMAIN acc \cup {name} /\ acc'[name] = Count(old, rank)
        /\ \A n \in DOMAIN acc : n # name => acc'[n] = acc[n]
    BY <1>11
  <2>2. /\ old.total \in Nat /\ old.correct \in Nat /\ old.recall3 \in Nat
        /\ old.correct <= old.recall3 /\ old.recall3 <= old.total
    <3>1. CASE name \in DOMAIN acc  BY <1>2, <3>1 DEF CountsTyped
    <3>2. CASE name \notin DOMAIN acc  BY <3>2 DEF Zero
    <3> QED  BY <3>1, <3>2
  <2>3. old.total = Cardinality(Counted(name, cur, idx))
    <3>1. CASE name \in DOMAIN acc  BY <1>2, <3>1 DEF Counts
    <3>2. CASE name \notin DOMAIN acc
      <4>1. Counted(name, cur, idx) = {}  BY <1>2, <3>2 DEF Counts
      <4>2. old.total = 0  BY <3>2 DEF Zero
      <4> QED  BY <4>1, <4>2, FS_EmptySet
    <3> QED  BY <3>1, <3>2
  <2> HIDE DEF old
  <2>4. /\ acc'[name].total = old.total + 1
        /\ acc'[name].correct = old.correct + computeRecall(rank, 1)
        /\ acc'[name].recall3 = old.recall3 + computeRecall(rank, 3)
    BY <2>1 DEF Count
  <2>5. /\ computeRecall(rank, 1) \in {0, 1} /\ computeRecall(rank, 3) \in {0, 1}
        /\ computeRecall(rank, 1) <= computeRecall(rank, 3)
    BY DEF computeRecall
  <2>6. CountsTyped'
    <3>1. /\ acc'[name].total \in Nat /\ acc'[name].correct \in Nat /\ acc'[name].recall3 \in Nat
          /\ acc'[name].correct <= acc'[name].recall3 /\ acc'[name].recall3 <= acc'[name].total
      BY <2>2, <2>4, <2>5
    <3> QED  BY <1>2, <1>4, <2>1, <3>1 DEF CountsTyped
  <2>7. Counts'
    <3>1. ASSUME NEW n, n = name  PROVE acc'[n].total = Cardinality(Counted(n, cur, idx)')
      <4> DEFINE C == Counted(n, cur, idx)
                 D == Counted(n, cur, idx)'
      <4>1. D = C \cup {<<cur, idx>>} /\ <<cur, idx>> \notin C /\ IsFiniteSet(C)
        BY <1>9, <1>11, <3>1
      <4>2. old.total = Cardinality(C)  BY <2>3, <3>1
      <4> HIDE DEF C, D
      <4>3. Cardinality(C \cup {<<cur, idx>>}) = Cardinality(C) + 1  BY <4>1, FS_AddElement
      <4>4. acc'[n].total = Cardinality(D)  BY <2>4, <3>1, <4>1, <4>2, <4>3
      <4> QED  BY <4>4 DEF D
    <3>2. ASSUME NEW n \in DOMAIN acc'  PROVE acc'[n].total = Cardinality(Counted(n, cur, idx)')
      <4>1. CASE n = name  BY <3>1, <4>1, Zenon
      <4>2. CASE n # name
        <5>1. n \in DOMAIN acc /\ acc'[n] = acc[n]  BY <2>1, <4>2
        <5>2. Counted(n, cur, idx)' = Counted(n, cur, idx)  BY <1>9, <4>2
        <5> QED  BY <1>2, <5>1, <5>2 DEF Counts
      <4> QED  BY <4>1, <4>2
    <3>3. ASSUME NEW n, n \notin DOMAIN acc'  PROVE Counted(n, cur, idx)' = {}
      <4>1. n # name /\ n \notin DOMAIN acc  BY <2>1, <3>3
      <4> QED  BY <1>2, <1>9, <4>1 DEF Counts
    <3> QED  BY <3>2, <3>3 DEF Counts
  <2> QED  BY <1>1, <1>3, <1>6, <1>7, <1>8, <2>6, <2>7 DEF BackInv
<1> QED  BY <1>5, <1>10, <1>11

LEMMA BackKept ==
    ASSUME BacktestConstants, BackInv, [BackNext]_backVars
    PROVE  BackInv'
<1>1. CASE LoadRosters \/ QueryRows \/ Collect \/ DeriveTables  BY <1>1, BackQuery
<1>2. CASE ReplayBan  BY <1>2, BackBan
<1>3. CASE ReplayPick  BY <1>3, BackPick
<1>4. CASE NextMatch \/ ReplayEnds  BY <1>4, BackNextMatch
<1>5. CASE UNCHANGED backVars
  <2>1. /\ rows' = rows /\ limit' = limit /\ pos' = pos /\ phases' = phases /\ order' = order
        /\ tables' = tables /\ rosters' = rosters /\ cur' = cur /\ idx' = idx
        /\ acc' = acc /\ asked' = asked /\ doing' = doing /\ played' = played
    BY <1>5 DEF backVars
  <2>2. /\ Ordered(rows)' /\ (limit \in Nat)' /\ Collected(rows, pos, order, phases, limit)'
        /\ RostersTyped' /\ (Gathered => Gathered')
        /\ \A n, c, x : {z \in Under(n)' : z[1] < c \/ (z[1] = c /\ z[2] < x)} = Counted(n, c, x)
        /\ \A m, i : RowOf(m, i)' = RowOf(m, i)
    BY <2>1, ReplayKeeps
  <2>3. \A n : Counted(n, cur, idx)' = Counted(n, cur, idx)  BY <2>1, <2>2 DEF Counted
  <2>4. Counts => Counts'  BY <2>1, <2>3 DEF Counts
  <2>5. ReplayAt => ReplayAt'  BY <2>1 DEF ReplayAt, Known
  <2>6. NoHindsight => NoHindsight'  BY <2>1, <2>2 DEF NoHindsight
  <2>7. CountsTyped => CountsTyped'  BY <2>1 DEF CountsTyped
  <2> QED  BY <2>1, <2>2, <2>4, <2>5, <2>6, <2>7 DEF BackInv
<1> QED  BY <1>1, <1>2, <1>3, <1>4, <1>5 DEF BackNext

LEMMA BackImplies ==
    ASSUME BacktestConstants, BackInv
    PROVE  BacktestSound
<1>1. LimitKeepsMatches
  <2> SUFFICES ASSUME doing \in {"replay", "done"}  PROVE LimitKeepsMatches
    BY DEF LimitKeepsMatches
  <2>1. Ordered(rows) /\ limit \in Nat /\ Collected(rows, pos, order, phases, limit)
        /\ (pos > Len(rows) \/ LimitReached)
    BY DEF BackInv, Gathered
  <2> QED  BY <2>1, LimitKept DEF LimitKeepsMatches
<1>2. NoHindsight  BY DEF BackInv
<1>3. CountsTyped  BY DEF BackInv
<1>4. ASSUME doing = "done"
      PROVE  /\ \A n \in DOMAIN acc : acc[n].total = Cardinality(Under(n))
             /\ \A i \in DOMAIN order : \A j \in DOMAIN phases[i] :
                   Countable(i, j) => tables[i][j].name \in DOMAIN acc
  <2>1. Gathered /\ ReplayAt /\ Counts /\ cur > Len(order)  BY <1>4 DEF BackInv
  <2>2. /\ DOMAIN order = 1..Len(order) /\ Len(order) \in Nat
        /\ \A i \in 1..Len(order) : DOMAIN phases[i] = 1..Len(phases[i])
    BY <2>1, GatheredTyped
  <2>3. cur \in Nat  BY <2>1, <2>2 DEF ReplayAt
  <2>4. ASSUME NEW n  PROVE Counted(n, cur, idx) = Under(n)  BY <2>1, <2>3, AllCounted
  <2>5. ASSUME NEW i \in DOMAIN order, NEW j \in DOMAIN phases[i], Countable(i, j)
        PROVE  tables[i][j].name \in DOMAIN acc
    <3> DEFINE n == tables[i][j].name
    <3>1. i \in 1..Len(order) /\ j \in 1..Len(phases[i])  BY <2>2
    <3>2. <<i, j>> \in Under(n)  BY <2>1, <2>5, <3>1, InUnder, Zenon
    <3>3. Counted(n, cur, idx) # {}  BY <2>4, <3>2
    <3> QED  BY <2>1, <3>3 DEF Counts
  <2> QED  BY <2>1, <2>4, <2>5 DEF Counts
<1>5. CountsAddUp  BY <1>3, <1>4 DEF CountsAddUp, CountsTyped
<1> QED  BY <1>1, <1>2, <1>5 DEF BacktestSound

(* eval.Replay, for any rows in the order of the query, any limit and any  *)
(* catalog: the matches up to the limit are replayed whole and in order,   *)
(* the baseline never sees the pick it is to predict nor a later one, and  *)
(* the counts under each phase name are exactly its countable picks.       *)
THEOREM BacktestIsSound ==
    ASSUME BacktestConstants
    PROVE  BackSpec => []BacktestSound
<1>1. BackInit => BackInv  BY BackStart
<1>2. BackInv /\ [BackNext]_backVars => BackInv'  BY BackKept
<1>3. BackInv => BacktestSound  BY BackImplies
<1> QED  BY <1>1, <1>2, <1>3, PTL DEF BackSpec

-----------------------------------------------------------------------------
(* Simulate: what the scorer returns.                                      *)

Rank(S, h) == Cardinality({g \in S : Better(g, h)})

Scored(S) ==
    /\ \A h \in S : ScoreOf(scoring, simSlot, h) \in Int
    /\ \A g, h \in S : ScoreOf(scoring, simSlot, g) = ScoreOf(scoring, simSlot, h) => g = h

LEMMA BetterOrders ==
    ASSUME NEW S, Scored(S), NEW a \in S, NEW b \in S, NEW c \in S
    PROVE  /\ ~Better(a, a) /\ (Better(a, b) /\ Better(b, c) => Better(a, c))
           /\ a # b => Better(a, b) \/ Better(b, a)
<1> DEFINE x == ScoreOf(scoring, simSlot, a)
           y == ScoreOf(scoring, simSlot, b)
           z == ScoreOf(scoring, simSlot, c)
<1>1. x \in Int /\ y \in Int /\ z \in Int /\ (x = y => a = b)  BY DEF Scored
<1>2. /\ Better(a, a) <=> x > x
      /\ Better(a, b) <=> x > y
      /\ Better(b, a) <=> y > x
      /\ Better(b, c) <=> y > z
      /\ Better(a, c) <=> x > z
  BY DEF Better
<1> HIDE DEF x, y, z
<1> QED  BY <1>1, <1>2

LEMMA EveryRankHeld ==
    ASSUME NEW S \in SUBSET Nat, IsFiniteSet(S), Scored(S)
    PROVE  /\ Cardinality(S) \in Nat
           /\ \A i \in 1..Cardinality(S) : \E h \in S : Rank(S, h) = i - 1
<1> DEFINE N == Cardinality(S)
           Ahead(h) == {g \in S : Better(g, h)}
           f == [h \in S |-> Rank(S, h)]
<1>1. N \in Nat  BY FS_CardinalityType
<1>2. ASSUME NEW h \in S  PROVE IsFiniteSet(Ahead(h)) /\ Rank(S, h) \in 0..N - 1
  <2>1. Ahead(h) \in SUBSET S /\ h \notin Ahead(h)  BY BetterOrders
  <2>2. Rank(S, h) = Cardinality(Ahead(h))  BY DEF Rank
  <2> HIDE DEF Ahead
  <2>3. IsFiniteSet(Ahead(h)) /\ Cardinality(Ahead(h)) <= N /\ (N = Cardinality(Ahead(h)) => S = Ahead(h))
    BY <2>1, FS_Subset
  <2>4. Cardinality(Ahead(h)) \in Nat  BY <2>3, FS_CardinalityType
  <2>5. Cardinality(Ahead(h)) # N  BY <2>1, <2>3
  <2> HIDE DEF N
  <2> QED  BY <1>1, <2>2, <2>3, <2>4, <2>5
<1>3. ASSUME NEW g \in S, NEW h \in S, Better(g, h)  PROVE Rank(S, g) # Rank(S, h)
  <2>1. Ahead(g) \in SUBSET Ahead(h)
    <3> SUFFICES ASSUME NEW x \in S, Better(x, g)  PROVE Better(x, h)
      OBVIOUS
    <3> QED  BY <1>3, BetterOrders
  <2>2. g \in Ahead(h) /\ g \notin Ahead(g)  BY <1>3, BetterOrders
  <2>3. Rank(S, g) = Cardinality(Ahead(g)) /\ Rank(S, h) = Cardinality(Ahead(h))  BY DEF Rank
  <2>4. IsFiniteSet(Ahead(h))  BY <1>2
  <2> HIDE DEF Ahead
  <2>5. Cardinality(Ahead(h)) = Cardinality(Ahead(g)) => Ahead(h) = Ahead(g)
    BY <2>1, <2>4, FS_Subset
  <2> QED  BY <2>2, <2>3, <2>5
<1>4. \A g, h \in S : Rank(S, g) = Rank(S, h) => g = h
  <2> SUFFICES ASSUME NEW g \in S, NEW h \in S, g # h  PROVE Rank(S, g) # Rank(S, h)
    OBVIOUS
  <2>2. Better(g, h) \/ Better(h, g)  BY BetterOrders
  <2>3. CASE Better(g, h)  BY <1>3, <2>3
  <2>4. CASE Better(h, g)  BY <1>3, <2>4
  <2> QED  BY <2>2, <2>3, <2>4
<1>5. f \in Injection(S, 0..N - 1)
  <2> HIDE DEF N
  <2> QED  BY <1>2, <1>4 DEF Injection, IsInjective
<1>6. IsFiniteSet(0..N - 1) /\ Cardinality(0..N - 1) = N
  <2> HIDE DEF N
  <2>1. 0 \in Int /\ N - 1 \in Int  BY <1>1
  <2>2. IsFiniteSet(0..N - 1) /\ Cardinality(0..N - 1) = IF 0 > N - 1 THEN 0 ELSE (N - 1) - 0 + 1
    BY <2>1, FS_Interval
  <2> QED  BY <1>1, <2>2
<1>7. f \in Surjection(S, 0..N - 1)
  <2> DEFINE T == 0..N - 1
  <2>1. IsFiniteSet(T) /\ Cardinality(T) = Cardinality(S) /\ f \in Injection(S, T)  BY <1>5, <1>6
  <2> HIDE DEF T, f
  <2>2. f \in Surjection(S, T)  BY <2>1, FS_Injection
  <2> QED  BY <2>2 DEF T
<1>8. ASSUME NEW i \in 1..N  PROVE \E h \in S : Rank(S, h) = i - 1
  <2>1. i - 1 \in 0..N - 1
    <3> HIDE DEF N
    <3> QED  BY <1>1
  <2>2. PICK h \in S : f[h] = i - 1
    <3> HIDE DEF N, f
    <3> QED  BY <1>7, <2>1 DEF Surjection
  <2> QED  BY <2>2
<1> QED  BY <1>1, <1>8

LEMMA RankedTyped ==
    ASSUME NEW S \in SUBSET Nat, IsFiniteSet(S), Scored(S)
    PROVE  Ranked(S) \in Seq(S) /\ Len(Ranked(S)) = Cardinality(S) /\ Cardinality(S) \in Nat
<1> DEFINE N == Cardinality(S)
           r(i) == CHOOSE h \in S : Cardinality({g \in S : Better(g, h)}) = i - 1
<1>1. N \in Nat /\ \A i \in 1..N : \E h \in S : Rank(S, h) = i - 1  BY EveryRankHeld
<1>2. \A i \in 1..N : r(i) \in S
  <2> TAKE i \in 1..N
  <2>1. \E h \in S : Cardinality({g \in S : Better(g, h)}) = i - 1
    BY <1>1 DEF Rank
  <2> QED  BY <2>1
<1>3. Ranked(S) = [i \in 1..N |-> r(i)]  BY DEF Ranked
<1> HIDE DEF N, r
<1>4. [i \in 1..N |-> r(i)] \in Seq(S) /\ Len([i \in 1..N |-> r(i)]) = N  BY <1>1, <1>2
<1> QED  BY <1>1, <1>3, <1>4 DEF N

(* The recommendations are legal heroes, and there are some unless there   *)
(* is no legal hero.                                                       *)
LEMMA RecommendLegal ==
    ASSUME NEW st, NEW S, S = LegalHeroes(st, catalog), S \in SUBSET Nat, IsFiniteSet(S),
           Scored(S), k \in Int
    PROVE  /\ Recommend(st) \in Seq(S) /\ (Recommend(st) = <<>> <=> S = {})
           /\ Recommend(st) # <<>> => Recommend(st)[1] \in S
<1> DEFINE r == Ranked(S)
           e == Recommend(st)
<1>1. r \in Seq(S) /\ Len(r) = Cardinality(S) /\ Cardinality(S) \in Nat  BY RankedTyped
<1>2. e = IF k <= 0 \/ k > Len(r) THEN r ELSE SubSeq(r, 1, k)  BY DEF Recommend
<1> HIDE DEF r, e
<1>3. e \in Seq(S) /\ (e = <<>> <=> r = <<>>)
  <2>1. CASE k <= 0 \/ k > Len(r)  BY <1>1, <1>2, <2>1
  <2>2. CASE ~(k <= 0 \/ k > Len(r))
    <3>1. k \in 1..Len(r) /\ Len(r) \in Nat  BY <1>1, <2>2
    <3>2. SubSeq(r, 1, k) \in Seq(S) /\ Len(SubSeq(r, 1, k)) = k  BY <1>1, <3>1
    <3>3. e = SubSeq(r, 1, k)  BY <1>2, <2>2
    <3>4. e # <<>> /\ r # <<>>  BY <3>1, <3>2, <3>3
    <3> QED  BY <3>2, <3>3, <3>4
  <2> QED  BY <2>1, <2>2
<1>4. r = <<>> <=> S = {}
  <2>1. r = <<>> <=> Len(r) = 0  BY <1>1
  <2>2. S = {} <=> Cardinality(S) = 0  BY FS_EmptySet
  <2> QED  BY <1>1, <2>1, <2>2
<1>5. e # <<>> => e[1] \in S  BY <1>3
<1> QED  BY <1>3, <1>4, <1>5 DEF e

-----------------------------------------------------------------------------
(* Simulate: the draft so far.                                             *)

LEMMA ConcatInjective ==
    ASSUME NEW A \in Seq(Nat), NEW B \in Seq(Nat), IsInjective(A), IsInjective(B),
           ToSet(A) \cap ToSet(B) = {}
    PROVE  A \o B \in Seq(Nat) /\ ToSet(A \o B) = ToSet(A) \cup ToSet(B) /\ IsInjective(A \o B)
<1> DEFINE C == A \o B
           a == Len(A)
           b == Len(B)
<1>1. /\ C \in Seq(Nat) /\ Len(C) = a + b /\ a \in Nat /\ b \in Nat
      /\ \A i \in 1..a + b : C[i] = IF i <= a THEN A[i] ELSE B[i - a]
  OBVIOUS
<1>2. DOMAIN A = 1..a /\ DOMAIN B = 1..b  OBVIOUS
<1> HIDE DEF C, a, b
<1>3. DOMAIN C = 1..a + b  BY <1>1
<1>4. \A i \in 1..a + b : \/ i \in 1..a /\ C[i] = A[i]
                          \/ i > a /\ i - a \in 1..b /\ C[i] = B[i - a]
  BY <1>1
<1>5. /\ \A i \in 1..a : i \in 1..a + b /\ C[i] = A[i]
      /\ \A i \in 1..b : i + a \in 1..a + b /\ C[i + a] = B[i]
  <2>1. \A i \in 1..b : i + a \in 1..a + b /\ ~(i + a <= a) /\ (i + a) - a = i  BY <1>1
  <2> QED  BY <1>1, <2>1
<1>6. ToSet(C) = ToSet(A) \cup ToSet(B)
  <2>1. ASSUME NEW x \in ToSet(C)  PROVE x \in ToSet(A) \cup ToSet(B)
    BY <1>2, <1>3, <1>4 DEF ToSet
  <2>2. ASSUME NEW x \in ToSet(A) \cup ToSet(B)  PROVE x \in ToSet(C)
    <3>1. CASE x \in ToSet(A)  BY <1>2, <1>3, <1>5, <3>1 DEF ToSet
    <3>2. CASE x \in ToSet(B)
      <4>1. PICK i \in 1..b : x = B[i]  BY <1>2, <3>2 DEF ToSet
      <4>2. i + a \in DOMAIN C /\ C[i + a] = x  BY <1>3, <1>5, <4>1
      <4> HIDE DEF ToSet
      <4> QED  BY <4>2 DEF ToSet
    <3> QED  BY <3>1, <3>2
  <2> QED  BY <2>1, <2>2
<1>7. IsInjective(C)
  <2> SUFFICES ASSUME NEW i \in 1..a + b, NEW j \in 1..a + b, C[i] = C[j]  PROVE i = j
    BY <1>3 DEF IsInjective
  <2>1. CASE i \in 1..a /\ C[i] = A[i]
    <3>1. CASE j \in 1..a /\ C[j] = A[j]  BY <1>2, <2>1, <3>1 DEF IsInjective
    <3>2. CASE j > a /\ j - a \in 1..b /\ C[j] = B[j - a]
      <4>1. A[i] \in ToSet(A) /\ B[j - a] \in ToSet(B)  BY <1>2, <2>1, <3>2 DEF ToSet
      <4> QED  BY <2>1, <3>2, <4>1
    <3> QED  BY <1>4, <3>1, <3>2
  <2>2. CASE i > a /\ i - a \in 1..b /\ C[i] = B[i - a]
    <3>1. CASE j \in 1..a /\ C[j] = A[j]
      <4>1. A[j] \in ToSet(A) /\ B[i - a] \in ToSet(B)  BY <1>2, <2>2, <3>1 DEF ToSet
      <4> QED  BY <2>2, <3>1, <4>1
    <3>2. CASE j > a /\ j - a \in 1..b /\ C[j] = B[j - a]
      <4>1. i - a = j - a  BY <1>2, <2>2, <3>2 DEF IsInjective
      <4> QED  BY <1>1, <4>1
    <3> QED  BY <1>4, <3>1, <3>2
  <2> QED  BY <1>4, <2>1, <2>2
<1> QED  BY <1>1, <1>6, <1>7 DEF C

LEMMA GrownInjective ==
    ASSUME NEW s \in Seq(Nat), NEW h \in Nat, IsInjective(s), h \notin ToSet(s)
    PROVE  IsInjective(Append(s, h))
<1> DEFINE t == Append(s, h)
<1>1. /\ t \in Seq(Nat) /\ Len(t) = Len(s) + 1 /\ t[Len(s) + 1] = h /\ Len(s) \in Nat
      /\ \A x \in 1..Len(s) : t[x] = s[x]
  OBVIOUS
<1> HIDE DEF t
<1>2. DOMAIN t = 1..Len(t) /\ DOMAIN s = 1..Len(s)  BY <1>1
<1>3. \A x \in 1..Len(t) : x \in 1..Len(s) \/ x = Len(s) + 1  BY <1>1
<1>4. \A x \in 1..Len(s) : t[x] # h  BY <1>1, <1>2 DEF ToSet
<1>5. ASSUME NEW x \in 1..Len(t), NEW y \in 1..Len(t), t[x] = t[y]  PROVE x = y
  BY <1>1, <1>2, <1>3, <1>4, <1>5 DEF IsInjective
<1>6. IsInjective(t)  BY <1>2, <1>5 DEF IsInjective
<1> QED  BY <1>6 DEF t

Of(pl, t) == ToSet(pl[t].picks) \cup ToSet(pl[t].bans)

(* No hero is in a draft twice.                                            *)
Apart(pl) ==
    /\ \A t \in Teams : /\ IsInjective(pl[t].picks) /\ IsInjective(pl[t].bans)
                        /\ ToSet(pl[t].picks) \cap ToSet(pl[t].bans) = {}
    /\ \A t, u \in Teams : t # u => Of(pl, t) \cap Of(pl, u) = {}

LEMMA ApartGrows ==
    ASSUME NEW pl, IsDraft(pl), Apart(pl), NEW team \in Teams, NEW b \in BOOLEAN, NEW h \in Nat,
           h \notin Drafted(pl)
    PROVE  Apart(Extend(pl, team, b, h))
<1> DEFINE e == Extend(pl, team, b, h)
<1>1. \A t \in Teams :
         /\ e[t].picks = IF b /\ t = team THEN Append(pl[t].picks, h) ELSE pl[t].picks
         /\ e[t].bans = IF ~b /\ t = team THEN Append(pl[t].bans, h) ELSE pl[t].bans
  BY Extended
<1>2. \A t \in Teams : h \notin ToSet(pl[t].picks) /\ h \notin ToSet(pl[t].bans)
  BY DEF Drafted
<1>3. \A t \in Teams : pl[t].picks \in Seq(Nat) /\ pl[t].bans \in Seq(Nat)  BY DraftFields
<1> HIDE DEF e
<1>4. \A t \in Teams : t # team => e[t].picks = pl[t].picks /\ e[t].bans = pl[t].bans
  BY <1>1
<1>5. /\ IsInjective(e[team].picks) /\ IsInjective(e[team].bans)
      /\ ToSet(e[team].picks) \cap ToSet(e[team].bans) = {}
      /\ Of(e, team) = Of(pl, team) \cup {h}
  <2> DEFINE P == pl[team].picks
             Q == pl[team].bans
  <2>1. P \in Seq(Nat) /\ Q \in Seq(Nat) /\ h \notin ToSet(P) /\ h \notin ToSet(Q)  BY <1>2, <1>3
  <2>2. IsInjective(P) /\ IsInjective(Q) /\ ToSet(P) \cap ToSet(Q) = {}  BY DEF Apart
  <2>3. Of(pl, team) = ToSet(P) \cup ToSet(Q)  BY DEF Of
  <2>4. e[team].picks = IF b THEN Append(P, h) ELSE P  BY <1>1
  <2>5. e[team].bans = IF b THEN Q ELSE Append(Q, h)  BY <1>1
  <2> HIDE DEF P, Q
  <2>6. IsInjective(Append(P, h)) /\ ToSet(Append(P, h)) = ToSet(P) \cup {h}
    <3>1. IsInjective(Append(P, h))  BY <2>1, <2>2, GrownInjective
    <3>2. ToSet(Append(P, h)) = ToSet(P) \cup {h}  BY <2>1, SeqGrows
    <3> QED  BY <3>1, <3>2
  <2>7. IsInjective(Append(Q, h)) /\ ToSet(Append(Q, h)) = ToSet(Q) \cup {h}
    <3>1. IsInjective(Append(Q, h))  BY <2>1, <2>2, GrownInjective
    <3>2. ToSet(Append(Q, h)) = ToSet(Q) \cup {h}  BY <2>1, SeqGrows
    <3> QED  BY <3>1, <3>2
  <2>8. CASE b
    <3>1. e[team].picks = Append(P, h) /\ e[team].bans = Q  BY <2>4, <2>5, <2>8
    <3> QED  BY <2>1, <2>2, <2>3, <2>6, <3>1 DEF Of
  <2>9. CASE ~b
    <3>1. e[team].picks = P /\ e[team].bans = Append(Q, h)  BY <2>4, <2>5, <2>9
    <3> QED  BY <2>1, <2>2, <2>3, <2>7, <3>1 DEF Of
  <2> QED  BY <2>8, <2>9
<1>6. \A t \in Teams : t # team => Of(e, t) = Of(pl, t) /\ h \notin Of(e, t)  BY <1>2, <1>4 DEF Of
<1>7. \A t \in Teams : /\ IsInjective(e[t].picks) /\ IsInjective(e[t].bans)
                       /\ ToSet(e[t].picks) \cap ToSet(e[t].bans) = {}
  <2> TAKE t \in Teams
  <2>1. CASE t = team  BY <1>5, <2>1
  <2>2. CASE t # team
    <3>1. e[t].picks = pl[t].picks /\ e[t].bans = pl[t].bans  BY <1>4, <2>2
    <3> QED  BY <3>1 DEF Apart
  <2> QED  BY <2>1, <2>2
<1>8. ASSUME NEW t \in Teams, NEW u \in Teams, t # u  PROVE Of(e, t) \cap Of(e, u) = {}
  <2>1. Of(pl, t) \cap Of(pl, u) = {}  BY <1>8 DEF Apart
  <2>2. CASE t = team  BY <1>5, <1>6, <1>8, <2>1, <2>2
  <2>3. CASE u = team  BY <1>5, <1>6, <1>8, <2>1, <2>3
  <2>4. CASE t # team /\ u # team  BY <1>6, <2>1, <2>4
  <2> QED  BY <2>2, <2>3, <2>4
<1>9. Apart(e)  BY <1>7, <1>8 DEF Apart
<1> QED  BY <1>9 DEF e

LEMMA EntriesApart ==
    ASSUME IsDraft(sides), Apart(sides)
    PROVE  IsInjective(Entries) /\ ToSet(Entries) = Drafted(sides)
<1> DEFINE A == sides["radiant"].picks
           B == sides["radiant"].bans
           C == sides["dire"].picks
           D == sides["dire"].bans
<1>1. Teams = {"radiant", "dire"} /\ "radiant" # "dire"  BY DEF Teams
<1>2. A \in Seq(Nat) /\ B \in Seq(Nat) /\ C \in Seq(Nat) /\ D \in Seq(Nat)  BY <1>1, DraftFields
<1>3. /\ IsInjective(A) /\ IsInjective(B) /\ ToSet(A) \cap ToSet(B) = {}
      /\ IsInjective(C) /\ IsInjective(D) /\ ToSet(C) \cap ToSet(D) = {}
      /\ (ToSet(A) \cup ToSet(B)) \cap (ToSet(C) \cup ToSet(D)) = {}
  BY <1>1 DEF Apart, Of
<1>4. Entries = A \o B \o C \o D  BY DEF Entries
<1>5. Drafted(sides) = ToSet(A) \cup ToSet(B) \cup ToSet(C) \cup ToSet(D)  BY <1>1 DEF Drafted
<1> HIDE DEF A, B, C, D
<1> DEFINE X == A \o B
           Y == X \o C
<1>6. X \in Seq(Nat) /\ ToSet(X) = ToSet(A) \cup ToSet(B) /\ IsInjective(X)
  BY <1>2, <1>3, ConcatInjective
<1> HIDE DEF X
<1>7. ToSet(X) \cap ToSet(C) = {}  BY <1>3, <1>6
<1>8. Y \in Seq(Nat) /\ ToSet(Y) = ToSet(X) \cup ToSet(C) /\ IsInjective(Y)
  BY <1>2, <1>3, <1>6, <1>7, ConcatInjective
<1> HIDE DEF Y
<1>9. ToSet(Y) \cap ToSet(D) = {}  BY <1>3, <1>6, <1>8
<1>10. ToSet(Y \o D) = ToSet(Y) \cup ToSet(D) /\ IsInjective(Y \o D)
  BY <1>2, <1>3, <1>8, <1>9, ConcatInjective
<1>11. Entries = Y \o D  BY <1>4 DEF Y, X
<1> QED  BY <1>5, <1>6, <1>8, <1>10, <1>11

-----------------------------------------------------------------------------
(* The table of a complete draft.                                          *)

PickOf(t, x) == ~CMPhaseTable[x].ban /\ CMPhaseTable[x].team = t
PicksTo(t, x) == {y \in 1..x : PickOf(t, y)}

LEMMA TableAt ==
    /\ Len(CMPhaseTable) = 24
    /\ CMPhaseTable[1] = Slot("ban", 1, "radiant") /\ CMPhaseTable[2] = Slot("ban", 1, "dire")
    /\ CMPhaseTable[3] = Slot("ban", 2, "radiant") /\ CMPhaseTable[4] = Slot("ban", 2, "dire")
    /\ CMPhaseTable[5] = Slot("ban", 3, "radiant") /\ CMPhaseTable[6] = Slot("ban", 3, "dire")
    /\ CMPhaseTable[7] = Slot("ban", 4, "radiant") /\ CMPhaseTable[8] = Slot("pick", 1, "dire")
    /\ CMPhaseTable[9] = Slot("pick", 1, "radiant") /\ CMPhaseTable[10] = Slot("ban", 5, "dire")
    /\ CMPhaseTable[11] = Slot("ban", 5, "radiant") /\ CMPhaseTable[12] = Slot("ban", 6, "dire")
    /\ CMPhaseTable[13] = Slot("pick", 2, "radiant") /\ CMPhaseTable[14] = Slot("pick", 2, "dire")
    /\ CMPhaseTable[15] = Slot("pick", 3, "radiant") /\ CMPhaseTable[16] = Slot("pick", 3, "dire")
    /\ CMPhaseTable[17] = Slot("pick", 4, "radiant") /\ CMPhaseTable[18] = Slot("pick", 4, "dire")
    /\ CMPhaseTable[19] = Slot("ban", 7, "radiant") /\ CMPhaseTable[20] = Slot("ban", 7, "dire")
    /\ CMPhaseTable[21] = Slot("ban", 8, "radiant") /\ CMPhaseTable[22] = Slot("ban", 8, "dire")
    /\ CMPhaseTable[23] = Slot("pick", 5, "radiant") /\ CMPhaseTable[24] = Slot("pick", 5, "dire")
BY DEF CMPhaseTable

LEMMA SlotIs ==
    ASSUME NEW kind, NEW n, NEW team
    PROVE  /\ Slot(kind, n, team).ban \in BOOLEAN /\ Slot(kind, n, team).team = team
           /\ Slot(kind, n, team).ban <=> kind = "ban"
<1>1. Slot(kind, n, team).ban = (kind = "ban")  BY DEF Slot
<1>2. Slot(kind, n, team).team = team  BY DEF Slot
<1> QED  BY <1>1, <1>2, Zenon

LEMMA TableSlots ==
    /\ Len(CMPhaseTable) = 24
    /\ \A x \in 1..24 : CMPhaseTable[x].ban \in BOOLEAN /\ CMPhaseTable[x].team \in Teams
    /\ \A x \in 1..24 : PickOf("radiant", x) <=> x \in {9, 13, 15, 17, 23}
    /\ \A x \in 1..24 : PickOf("dire", x) <=> x \in {8, 14, 16, 18, 24}
<1> DEFINE K(x) == IF x \in {8, 9, 23, 24} \cup (13..18) THEN "pick" ELSE "ban"
           T(x) == IF x \in {1, 3, 5, 7, 9, 11, 13, 15, 17, 19, 21, 23} THEN "radiant" ELSE "dire"
<1>1. "ban" # "pick" /\ "radiant" # "dire"  OBVIOUS
<1>2. \A x \in 1..24 : \E n : CMPhaseTable[x] = Slot(K(x), n, T(x))
  BY TableAt
<1>3. \A x \in 1..24 : /\ CMPhaseTable[x].ban \in BOOLEAN /\ CMPhaseTable[x].team = T(x)
                       /\ CMPhaseTable[x].ban <=> K(x) = "ban"
  <2> TAKE x \in 1..24
  <2> HIDE DEF K, T
  <2>1. PICK n : CMPhaseTable[x] = Slot(K(x), n, T(x))  BY <1>2
  <2>2. /\ Slot(K(x), n, T(x)).ban \in BOOLEAN /\ Slot(K(x), n, T(x)).team = T(x)
        /\ Slot(K(x), n, T(x)).ban <=> K(x) = "ban"
    BY SlotIs, Zenon
  <2> QED  BY <2>1, <2>2, Zenon
<1>4. \A x \in 1..24 : T(x) \in Teams  BY DEF Teams
<1>5. \A x \in 1..24 : PickOf("radiant", x) <=> K(x) # "ban" /\ T(x) = "radiant"
  <2> HIDE DEF K, T
  <2> QED  BY <1>3, Zenon DEF PickOf
<1>6. \A x \in 1..24 : PickOf("dire", x) <=> K(x) # "ban" /\ T(x) = "dire"
  <2> HIDE DEF K, T
  <2> QED  BY <1>3, Zenon DEF PickOf
<1>7. \A x \in 1..24 : (K(x) # "ban" /\ T(x) = "radiant") <=> x \in {9, 13, 15, 17, 23}
  BY <1>1
<1>8. \A x \in 1..24 : (K(x) # "ban" /\ T(x) = "dire") <=> x \in {8, 14, 16, 18, 24}
  BY <1>1
<1> HIDE DEF K, T
<1>9. Len(CMPhaseTable) = 24  BY TableAt
<1>10. \A x \in 1..24 : CMPhaseTable[x].ban \in BOOLEAN /\ CMPhaseTable[x].team \in Teams
  BY <1>3, <1>4, Zenon
<1>11. \A x \in 1..24 : PickOf("radiant", x) <=> x \in {9, 13, 15, 17, 23}  BY <1>5, <1>7, Zenon
<1>12. \A x \in 1..24 : PickOf("dire", x) <=> x \in {8, 14, 16, 18, 24}  BY <1>6, <1>8, Zenon
<1> QED  BY <1>9, <1>10, <1>11, <1>12, Zenon

LEMMA FiveOf ==
    ASSUME NEW a, NEW b, NEW c, NEW d, NEW e, a # b, a # c, a # d, a # e, b # c, b # d, b # e,
           c # d, c # e, d # e
    PROVE  IsFiniteSet({a, b, c, d, e}) /\ Cardinality({a, b, c, d, e}) = 5
<1>1. IsFiniteSet({a}) /\ Cardinality({a}) = 1  BY FS_Singleton
<1>2. IsFiniteSet({a} \cup {b}) /\ Cardinality({a} \cup {b}) = 2  BY <1>1, FS_AddElement
<1> DEFINE X == {a} \cup {b}
<1>3. c \notin X  OBVIOUS
<1>4. IsFiniteSet(X \cup {c}) /\ Cardinality(X \cup {c}) = 3  BY <1>2, <1>3, FS_AddElement
<1> DEFINE Y == X \cup {c}
<1>5. d \notin Y  OBVIOUS
<1>6. IsFiniteSet(Y \cup {d}) /\ Cardinality(Y \cup {d}) = 4  BY <1>4, <1>5, FS_AddElement
<1> DEFINE Z == Y \cup {d}
<1>7. e \notin Z  OBVIOUS
<1>8. IsFiniteSet(Z \cup {e}) /\ Cardinality(Z \cup {e}) = 5  BY <1>6, <1>7, FS_AddElement
<1>9. {a, b, c, d, e} = Z \cup {e}  OBVIOUS
<1> QED  BY <1>8, <1>9

LEMMA FivePicks ==
    ASSUME NEW t \in Teams
    PROVE  IsFiniteSet(PicksTo(t, 24)) /\ Cardinality(PicksTo(t, 24)) = 5
<1>1. CASE t = "radiant"
  <2> DEFINE a == 9
             b == 13
             c == 15
             d == 17
             e == 23
  <2>1. \A y : y \in {a, b, c, d, e} => y \in 1..24  OBVIOUS
  <2>2. \A y \in 1..24 : PickOf(t, y) <=> y \in {a, b, c, d, e}  BY <1>1, TableSlots
  <2>3. PicksTo(t, 24) = {a, b, c, d, e}  BY <2>1, <2>2 DEF PicksTo
  <2>4. /\ a # b /\ a # c /\ a # d /\ a # e /\ b # c /\ b # d /\ b # e /\ c # d /\ c # e /\ d # e
    OBVIOUS
  <2> HIDE DEF a, b, c, d, e
  <2>5. IsFiniteSet({a, b, c, d, e}) /\ Cardinality({a, b, c, d, e}) = 5  BY <2>4, FiveOf
  <2> QED  BY <2>3, <2>5
<1>2. CASE t = "dire"
  <2> DEFINE a == 8
             b == 14
             c == 16
             d == 18
             e == 24
  <2>1. \A y : y \in {a, b, c, d, e} => y \in 1..24  OBVIOUS
  <2>2. \A y \in 1..24 : PickOf(t, y) <=> y \in {a, b, c, d, e}  BY <1>2, TableSlots
  <2>3. PicksTo(t, 24) = {a, b, c, d, e}  BY <2>1, <2>2 DEF PicksTo
  <2>4. /\ a # b /\ a # c /\ a # d /\ a # e /\ b # c /\ b # d /\ b # e /\ c # d /\ c # e /\ d # e
    OBVIOUS
  <2> HIDE DEF a, b, c, d, e
  <2>5. IsFiniteSet({a, b, c, d, e}) /\ Cardinality({a, b, c, d, e}) = 5  BY <2>4, FiveOf
  <2> QED  BY <2>3, <2>5
<1> QED  BY <1>1, <1>2 DEF Teams

LEMMA PicksNext ==
    ASSUME NEW t \in Teams, NEW x \in 0..23
    PROVE  /\ IsFiniteSet(PicksTo(t, x)) /\ Cardinality(PicksTo(t, x)) \in Nat
           /\ Cardinality(PicksTo(t, x)) <= 5
           /\ Cardinality(PicksTo(t, x + 1)) =
                 IF PickOf(t, x + 1) THEN Cardinality(PicksTo(t, x)) + 1 ELSE Cardinality(PicksTo(t, x))
           /\ PickOf(t, x + 1) => Cardinality(PicksTo(t, x)) <= 4
           /\ PicksTo(t, x) = {} <=> Cardinality(PicksTo(t, x)) = 0
<1> DEFINE A == PicksTo(t, x)
           W == PicksTo(t, 24)
<1>1. IsFiniteSet(W) /\ Cardinality(W) = 5  BY FivePicks
<1>2. A \in SUBSET W /\ x + 1 \notin A  BY DEF PicksTo
<1>3. PicksTo(t, x + 1) = IF PickOf(t, x + 1) THEN A \cup {x + 1} ELSE A
  <2>1. \A y : y \in 1..x + 1 <=> y \in 1..x \/ y = x + 1  OBVIOUS
  <2>2. CASE PickOf(t, x + 1)  BY <2>1, <2>2 DEF PicksTo
  <2>3. CASE ~PickOf(t, x + 1)  BY <2>1, <2>3 DEF PicksTo
  <2> QED  BY <2>2, <2>3
<1>4. PickOf(t, x + 1) => A \cup {x + 1} \in SUBSET W
  <2>1. x + 1 \in 1..24  OBVIOUS
  <2> QED  BY <1>2, <2>1 DEF PicksTo
<1> HIDE DEF A, W
<1>5. IsFiniteSet(A) /\ Cardinality(A) <= 5  BY <1>1, <1>2, FS_Subset
<1>6. Cardinality(A) \in Nat  BY <1>5, FS_CardinalityType
<1>7. Cardinality(A \cup {x + 1}) = Cardinality(A) + 1  BY <1>2, <1>5, FS_AddElement
<1>8. PickOf(t, x + 1) => Cardinality(A \cup {x + 1}) <= 5  BY <1>1, <1>4, FS_Subset
<1>9. A = {} <=> Cardinality(A) = 0  BY <1>5, FS_EmptySet
<1> QED  BY <1>3, <1>5, <1>6, <1>7, <1>8, <1>9 DEF A

-----------------------------------------------------------------------------
(* Simulate: the loop.  SimInv has that nothing is drafted twice (Apart),  *)
(* that a team has the picks of its slots so far, less those that failed   *)
(* (SimDraft), and what each step of the response says (SimSteps,          *)
(* SimTold); a loop that ended early had no hero left.                     *)

LEMMA GrownSeq ==
    ASSUME NEW S, NEW s \in Seq(S), NEW x
    PROVE  /\ Append(s, x) \in Seq(S \cup {x}) /\ Len(Append(s, x)) = Len(s) + 1 /\ Len(s) \in Nat
           /\ Append(s, x)[Len(s) + 1] = x /\ \A i \in 1..Len(s) : Append(s, x)[i] = s[i]
<1> DEFINE T == S \cup {x}
<1>1. x \in T /\ \A y \in S : y \in T  OBVIOUS
<1>2. s \in Seq(T)
  <2>1. Len(s) \in Nat /\ s \in [1..Len(s) -> S]  OBVIOUS
  <2> HIDE DEF T
  <2>2. s \in [1..Len(s) -> T]  BY <1>1, <2>1
  <2> QED  BY <2>1, <2>2
<1> HIDE DEF T
<1>3. /\ Append(s, x) \in Seq(T) /\ Len(Append(s, x)) = Len(s) + 1 /\ Len(s) \in Nat
      /\ Append(s, x)[Len(s) + 1] = x /\ \A i \in 1..Len(s) : Append(s, x)[i] = s[i]
  BY <1>1, <1>2
<1> QED  BY <1>3 DEF T

IsSeq(s) == \E S : s \in Seq(S)

LEMMA IsSeqGrows ==
    ASSUME NEW s, IsSeq(s), NEW x
    PROVE  /\ IsSeq(Append(s, x)) /\ Len(Append(s, x)) = Len(s) + 1 /\ Len(s) \in Nat
           /\ Append(s, x)[Len(s) + 1] = x /\ \A i \in 1..Len(s) : Append(s, x)[i] = s[i]
<1>1. PICK S : s \in Seq(S)  BY DEF IsSeq
<1>2. /\ Append(s, x) \in Seq(S \cup {x}) /\ Len(Append(s, x)) = Len(s) + 1 /\ Len(s) \in Nat
      /\ Append(s, x)[Len(s) + 1] = x /\ \A i \in 1..Len(s) : Append(s, x)[i] = s[i]
  BY <1>1, GrownSeq
<1>3. IsSeq(Append(s, x))  BY <1>2, Zenon DEF IsSeq
<1> QED  BY <1>2, <1>3

(* What a step of a simulation without failures says.                      *)
Told(e, i) ==
    LET team == CMPhaseTable[i].team
    IN  /\ e.phase = CMPhaseTable[i] /\ e.roster = {team}
        /\ e.features.is_first_pick <=> Cardinality(PicksTo(team, i - 1)) = 0
        /\ e.features.is_last_pick <=> Cardinality(PicksTo(team, i - 1)) = 4
        /\ e.features.remaining_team_picks = Limited(0, 5 - Cardinality(PicksTo(team, i - 1)), 5)

SimRequest ==
    (\E n \in Nat : n \in Catalogs /\ catalog = 0..n) /\ k \in Int /\ scoring \in Scorings

SimDraft ==
    /\ simSlot \in 0..24 /\ simFaults \in Nat /\ simDone \in BOOLEAN
    /\ IsDraft(sides) /\ Apart(sides) /\ HeroIDNone \notin Drafted(sides)
    /\ IsFiniteSet(Drafted(sides)) /\ Cardinality(Drafted(sides)) <= simSlot
    /\ \A t \in Teams : /\ Len(sides[t].picks) <= Cardinality(PicksTo(t, simSlot))
                        /\ simFaults = 0 => Len(sides[t].picks) = Cardinality(PicksTo(t, simSlot))

SimSteps ==
    /\ IsSeq(steps) /\ Len(steps) \in Nat /\ DOMAIN steps = 1..Len(steps)
    /\ \A i \in 1..Len(steps) :
          IF steps[i].recs = <<>> THEN simDone /\ i = Len(steps)
          ELSE steps[i].recs[1] \in Drafted(sides)
    /\ \A i, j \in 1..Len(steps) : i < j => steps[i].recs[1] \notin ToSet(steps[j].recs)

SimTold ==
    simFaults = 0 =>
       /\ ~simDone \/ simSlot = 24 => Len(steps) = simSlot
       /\ Len(steps) <= 24
       /\ \A i \in 1..Len(steps) : Told(steps[i], i)

SimInv ==
    /\ SimRequest /\ SimDraft /\ SimSteps /\ SimTold
    /\ simDone => simSlot = 24 \/ (simSlot < 24 /\ catalog \ {HeroIDNone} \subseteq Drafted(sides))

LEMMA PicksToTyped ==
    ASSUME NEW t \in Teams, NEW x \in 0..24
    PROVE  Cardinality(PicksTo(t, x)) \in Nat /\ Cardinality(PicksTo(t, x)) <= 5
<1>1. CASE x \in 0..23  BY <1>1, PicksNext
<1>2. CASE x = 24  BY <1>2, FivePicks
<1> QED  BY <1>1, <1>2

LEMMA SimStart ==
    ASSUME SimulateConstants, SimInit
    PROVE  SimInv
<1>1. /\ simSlot = 0 /\ sides = NoDraft /\ steps = <<>> /\ simFaults = 0 /\ simDone = FALSE
      /\ scoring \in Scorings
  BY DEF SimInit
<1>2. SimRequest
  <2>1. PICK n \in Catalogs : catalog = 0..n  BY DEF SimInit
  <2>2. n \in Nat  BY DEF SimulateConstants
  <2>3. k \in Int  BY DEF SimInit, SimulateConstants, DefaultK
  <2> QED  BY <1>1, <2>1, <2>2, <2>3 DEF SimRequest
<1>3. IsDraft(sides) /\ Drafted(sides) = {}  BY <1>1, NothingDrafted
<1>4. Apart(sides)
  <2>1. \A t \in Teams : sides[t].picks = <<>> /\ sides[t].bans = <<>>  BY <1>1 DEF NoDraft
  <2>2. IsInjective(<<>>) /\ ToSet(<<>>) = {}  BY DEF IsInjective, ToSet
  <2> QED  BY <2>1, <2>2 DEF Apart, Of
<1>5. IsFiniteSet({}) /\ Cardinality({}) = 0  BY FS_EmptySet
<1>6. ASSUME NEW t \in Teams
      PROVE  Len(sides[t].picks) = 0 /\ Cardinality(PicksTo(t, 0)) = 0
  <2>1. sides[t].picks = <<>>  BY <1>1 DEF NoDraft
  <2>2. PicksTo(t, 0) = {}  BY DEF PicksTo
  <2> QED  BY <1>5, <2>1, <2>2
<1>7. SimDraft
  <2>1. simSlot \in 0..24 /\ simFaults \in Nat /\ simDone \in BOOLEAN
    <3>1. simDone = FALSE  BY <1>1
    <3>2. simDone \in BOOLEAN  BY <3>1, Zenon
    <3> QED  BY <1>1, <3>2
  <2>2. /\ HeroIDNone \notin Drafted(sides) /\ IsFiniteSet(Drafted(sides))
        /\ Cardinality(Drafted(sides)) <= simSlot
    BY <1>1, <1>3, <1>5
  <2>3. \A t \in Teams : /\ Len(sides[t].picks) <= Cardinality(PicksTo(t, simSlot))
                          /\ Len(sides[t].picks) = Cardinality(PicksTo(t, simSlot))
    BY <1>1, <1>6
  <2> QED  BY <1>3, <1>4, <2>1, <2>2, <2>3 DEF SimDraft
<1>8. SimSteps
  <2>1. <<>> \in Seq({}) /\ Len(<<>>) = 0 /\ DOMAIN <<>> = 1..0 /\ 1..0 = {}  OBVIOUS
  <2>2. IsSeq(steps)  BY <1>1, <2>1, Zenon DEF IsSeq
  <2> QED  BY <1>1, <2>1, <2>2 DEF SimSteps
<1>9. SimTold
  <2>1. Len(steps) = 0 /\ 1..0 = {}  BY <1>1
  <2> QED  BY <1>1, <2>1 DEF SimTold
<1> QED  BY <1>1, <1>2, <1>7, <1>8, <1>9 DEF SimInv

(* The state that a slot is recommended from.                              *)
LEMMA SlotAt ==
    ASSUME SimInv, SlotsLeft
    PROVE  LET phase == CMPhaseTable[simSlot + 1]
               S == LegalHeroes(SlotState, catalog)
           IN  /\ simSlot \in 0..23 /\ simSlot + 1 \in 1..24 /\ ~simDone
               /\ phase.team \in Teams /\ phase.ban \in BOOLEAN
               /\ Phase(SlotState) = phase /\ SlotState.roster = {phase.team}
               /\ SlotState.us = sides[phase.team]
               /\ S = (catalog \ {HeroIDNone}) \ Drafted(sides)
               /\ S \in SUBSET Nat /\ IsFiniteSet(S)
<1>1. SimRequest /\ SimDraft  BY DEF SimInv
<1>2. simSlot \in 0..23 /\ simSlot + 1 \in 1..24 /\ ~simDone
  <2>1. simSlot \in 0..24 /\ simSlot < 24 /\ ~simDone  BY <1>1, TableSlots DEF SimDraft, SlotsLeft
  <2> QED  BY <2>1
<1>3. CMPhaseTable[simSlot + 1].team \in Teams /\ CMPhaseTable[simSlot + 1].ban \in BOOLEAN
  BY <1>2, TableSlots, Zenon
<1> DEFINE team == CMPhaseTable[simSlot + 1].team
<1>4. /\ SlotState.phases = CMPhaseTable /\ SlotState.slot = simSlot /\ SlotState.us = sides[team]
      /\ SlotState.drafted = Drafted(sides) /\ SlotState.roster = [t \in Teams |-> {t}][team]
  BY DEF SlotState, NewDraftState, Perspective
<1>5. Phase(SlotState) = CMPhaseTable[simSlot + 1]  BY <1>4 DEF Phase
<1>6. SlotState.roster = {team}  BY <1>3, <1>4
<1>7. LegalHeroes(SlotState, catalog) = (catalog \ {HeroIDNone}) \ Drafted(sides)
  BY <1>4 DEF LegalHeroes
<1>8. catalog \subseteq Nat /\ IsFiniteSet(catalog)
  <2>1. PICK n \in Nat : catalog = 0..n  BY <1>1 DEF SimRequest
  <2>2. 0..n \subseteq Nat /\ 0 \in Int /\ n \in Int  OBVIOUS
  <2>3. IsFiniteSet(0..n)  BY <2>2, FS_Interval
  <2> QED  BY <2>1, <2>2, <2>3
<1>9. (catalog \ {HeroIDNone}) \ Drafted(sides) \in SUBSET catalog  OBVIOUS
<1>10. LegalHeroes(SlotState, catalog) \in SUBSET catalog  BY <1>7, <1>9
<1>11. IsFiniteSet(LegalHeroes(SlotState, catalog))  BY <1>8, <1>10, FS_Subset
<1>12. LegalHeroes(SlotState, catalog) \in SUBSET Nat  BY <1>8, <1>10
<1> QED  BY <1>2, <1>3, <1>4, <1>5, <1>6, <1>7, <1>11, <1>12, Zenon

(* A slot with a recommendation: its first is drafted.                     *)
LEMMA SlotDrafted ==
    ASSUME SimInv, SlotsLeft, NEW h \in (catalog \ {HeroIDNone}) \ Drafted(sides), h \in Nat,
           sides' = Extend(sides, CMPhaseTable[simSlot + 1].team, ~CMPhaseTable[simSlot + 1].ban, h),
           simSlot' = simSlot + 1, simFaults' = simFaults, simDone' = simDone
    PROVE  SimDraft' /\ Drafted(sides') = Drafted(sides) \cup {h}
<1> DEFINE team == CMPhaseTable[simSlot + 1].team
           b == ~CMPhaseTable[simSlot + 1].ban
<1>1. /\ simSlot \in 0..23 /\ simSlot + 1 \in 1..24 /\ team \in Teams
      /\ CMPhaseTable[simSlot + 1].ban \in BOOLEAN
  BY SlotAt, Zenon
<1>2. b \in BOOLEAN  OBVIOUS
<1>3. \A t : PickOf(t, simSlot + 1) <=> b /\ t = team  BY DEF PickOf
<1>4. SimDraft  BY DEF SimInv
<1>5. sides' = Extend(sides, team, b, h)  OBVIOUS
<1> HIDE DEF team, b
<1>6. /\ simFaults \in Nat /\ simDone \in BOOLEAN /\ IsDraft(sides) /\ Apart(sides)
      /\ HeroIDNone \notin Drafted(sides)
      /\ IsFiniteSet(Drafted(sides)) /\ Cardinality(Drafted(sides)) <= simSlot
      /\ \A t \in Teams :
            /\ Len(sides[t].picks) <= Cardinality(PicksTo(t, simSlot))
            /\ simFaults = 0 => Len(sides[t].picks) = Cardinality(PicksTo(t, simSlot))
  BY <1>4 DEF SimDraft
<1> DEFINE e == Extend(sides, team, b, h)
<1>7. IsDraft(e) /\ Drafted(e) = Drafted(sides) \cup {h}  BY <1>1, <1>2, <1>6, DraftedGrows
<1>8. Apart(e)  BY <1>1, <1>2, <1>6, ApartGrows
<1>9. HeroIDNone \notin Drafted(e)  BY <1>6, <1>7
<1>10. IsFiniteSet(Drafted(e)) /\ Cardinality(Drafted(e)) <= simSlot + 1
  <2> DEFINE D == Drafted(sides)
  <2>1. IsFiniteSet(D) /\ Cardinality(D) <= simSlot /\ h \notin D  BY <1>6
  <2> HIDE DEF D
  <2>2. IsFiniteSet(D \cup {h}) /\ Cardinality(D \cup {h}) = Cardinality(D) + 1  BY <2>1, FS_AddElement
  <2>3. Cardinality(D) \in Nat  BY <2>1, FS_CardinalityType
  <2>4. Cardinality(D \cup {h}) <= simSlot + 1  BY <1>1, <2>1, <2>2, <2>3
  <2> QED  BY <1>7, <2>2, <2>4 DEF D
<1>11. ASSUME NEW t \in Teams
       PROVE  /\ Len(e[t].picks) <= Cardinality(PicksTo(t, simSlot + 1))
              /\ simFaults = 0 => Len(e[t].picks) = Cardinality(PicksTo(t, simSlot + 1))
  <2> DEFINE c == Cardinality(PicksTo(t, simSlot))
             d == Cardinality(PicksTo(t, simSlot + 1))
             l == Len(sides[t].picks)
             m == Len(e[t].picks)
  <2>1. c \in Nat /\ d = IF b /\ t = team THEN c + 1 ELSE c
    <3>1. c \in Nat /\ d = IF PickOf(t, simSlot + 1) THEN c + 1 ELSE c  BY <1>1, PicksNext
    <3> QED  BY <1>3, <3>1
  <2>2. m = (IF b /\ t = team THEN l + 1 ELSE l) /\ l \in Nat
    <3>1. sides[t].picks \in Seq(Nat)  BY <1>6, DraftFields
    <3>2. e[t].picks = IF b /\ t = team THEN Append(sides[t].picks, h) ELSE sides[t].picks
      BY <1>1, <1>2, <1>6, Extended
    <3>3. Len(Append(sides[t].picks, h)) = l + 1 /\ l \in Nat  BY <3>1
    <3> QED  BY <3>2, <3>3
  <2>3. l <= c /\ (simFaults = 0 => l = c)  BY <1>6
  <2> HIDE DEF c, d, l, m
  <2>4. m <= d /\ (simFaults = 0 => m = d)  BY <2>1, <2>2, <2>3
  <2> QED  BY <2>4 DEF m, d
<1> HIDE DEF e
<1>12. sides' = e  BY <1>5 DEF e
<1>13. simSlot + 1 \in 0..24  BY <1>1
<1>14. SimDraft'
  BY <1>6, <1>7, <1>8, <1>9, <1>10, <1>11, <1>12, <1>13 DEF SimDraft, PicksTo
<1> QED  BY <1>7, <1>12, <1>14

LEMMA SlotTold ==
    ASSUME SimInv, SlotsLeft, simFaults = 0, NEW e, e.phase = Phase(SlotState),
           e.features = DraftFeatures(SlotState), e.roster = SlotState.roster
    PROVE  Told(e, simSlot + 1) /\ Len(steps) = simSlot
<1> DEFINE phase == CMPhaseTable[simSlot + 1]
           c == Cardinality(PicksTo(phase.team, simSlot))
<1>1. /\ phase.team \in Teams /\ Phase(SlotState) = phase /\ SlotState.roster = {phase.team}
      /\ SlotState.us = sides[phase.team] /\ simSlot \in 0..23 /\ ~simDone
  BY SlotAt, Zenon
<1>2. Len(sides[phase.team].picks) = c  BY <1>1 DEF SimInv, SimDraft
<1>3. teamPicksBefore(SlotState) = c  BY <1>1, <1>2 DEF teamPicksBefore
<1>4. (simSlot + 1) - 1 = simSlot  BY <1>1
<1>5. /\ e.features.is_first_pick = (c = 0) /\ e.features.is_last_pick = (c = 4)
      /\ e.features.remaining_team_picks = Limited(0, 5 - c, 5)
  <2> HIDE DEF c
  <2> QED  BY <1>3 DEF DraftFeatures
<1>6. Len(steps) = simSlot  BY <1>1 DEF SimInv, SimTold
<1> HIDE DEF c
<1>7. (e.features.is_first_pick <=> c = 0) /\ (e.features.is_last_pick <=> c = 4)  BY <1>5, Zenon
<1>8. Told(e, simSlot + 1)
  BY <1>1, <1>4, <1>5, <1>7 DEF Told, c
<1> QED  BY <1>6, <1>8

LEMMA SimSlotStep ==
    ASSUME SimulateConstants, SimInv, SimulateSlot
    PROVE  SimInv'
<1> DEFINE phase == CMPhaseTable[simSlot + 1]
           S == LegalHeroes(SlotState, catalog)
           recs == Recommend(SlotState)
           e == [slot |-> simSlot + 1, phase |-> Phase(SlotState), recs |-> recs,
                 features |-> DraftFeatures(SlotState), roster |-> SlotState.roster]
<1>1. SlotsLeft /\ SimRequest /\ SimDraft /\ SimSteps /\ SimTold
  BY DEF SimulateSlot, SimInv
<1>2. /\ catalog' = catalog /\ k' = k /\ scoring' = scoring /\ simFaults' = simFaults
      /\ steps' = Append(steps, e)
  BY DEF SimulateSlot
<1>3. /\ simSlot \in 0..23 /\ simSlot + 1 \in 1..24 /\ ~simDone
      /\ Phase(SlotState) = phase /\ S = (catalog \ {HeroIDNone}) \ Drafted(sides)
      /\ S \in SUBSET Nat /\ IsFiniteSet(S)
  BY <1>1, SlotAt, Zenon
<1>4. /\ recs \in Seq(S) /\ (recs = <<>> <=> S = {}) /\ (recs # <<>> => recs[1] \in S)
  <2>1. PICK n \in Nat : n \in Catalogs /\ catalog = 0..n  BY <1>1 DEF SimRequest
  <2>2. S \subseteq 0..n  BY <1>3, <2>1
  <2>3. scoring \in Scorings /\ simSlot \in 0..Len(CMPhaseTable) - 1
    BY <1>1, <1>3, TableSlots DEF SimRequest
  <2> HIDE DEF S
  <2>4. Scored(S)  BY <2>1, <2>2, <2>3 DEF Scored, SimulateConstants
  <2>5. k \in Int /\ S = LegalHeroes(SlotState, catalog)  BY <1>1 DEF SimRequest, S
  <2> HIDE DEF recs
  <2> QED  BY <1>3, <2>4, <2>5, RecommendLegal DEF recs
<1>5. \/ recs = <<>> /\ simDone' = TRUE /\ sides' = sides /\ simSlot' = simSlot
      \/ /\ recs # <<>> /\ sides' = Extend(sides, phase.team, ~phase.ban, recs[1])
         /\ simSlot' = simSlot + 1 /\ simDone' = simDone
  <2>1. Phase(SlotState) = phase  BY <1>3
  <2> HIDE DEF phase, recs, e
  <2> QED  BY <2>1 DEF SimulateSlot, recs
<1>6. e.recs = recs /\ e.phase = Phase(SlotState) /\ e.features = DraftFeatures(SlotState)
      /\ e.roster = SlotState.roster
  OBVIOUS
<1>7. ToSet(recs) \cap Drafted(sides) = {}
  <2> HIDE DEF S, recs
  <2>1. \A x \in ToSet(recs) : x \in S  BY <1>4 DEF ToSet
  <2> QED  BY <1>3, <2>1
<1> HIDE DEF phase, S, recs, e
<1>8. SimRequest'  BY <1>1, <1>2 DEF SimRequest
<1>9. SimDraft' /\ Drafted(sides) \subseteq Drafted(sides') /\ (recs # <<>> => recs[1] \in Drafted(sides'))
  <2>1. CASE recs = <<>> /\ simDone' = TRUE /\ sides' = sides /\ simSlot' = simSlot
    BY <1>1, <1>2, <2>1 DEF SimDraft, PicksTo
  <2>2. CASE /\ recs # <<>> /\ sides' = Extend(sides, phase.team, ~phase.ban, recs[1])
             /\ simSlot' = simSlot + 1 /\ simDone' = simDone
    <3> DEFINE h == recs[1]
    <3>1. h \in (catalog \ {HeroIDNone}) \ Drafted(sides) /\ h \in Nat  BY <1>3, <1>4, <2>2
    <3>2. sides' = Extend(sides, CMPhaseTable[simSlot + 1].team, ~CMPhaseTable[simSlot + 1].ban, h)
      BY <2>2 DEF phase
    <3> HIDE DEF h
    <3>3. SimDraft' /\ Drafted(sides') = Drafted(sides) \cup {h}
      BY <1>1, <1>2, <2>2, <3>1, <3>2, SlotDrafted
    <3> QED  BY <3>3 DEF h
  <2> QED  BY <1>5, <2>1, <2>2
<1> DEFINE l == Len(steps)
<1>10. /\ IsSeq(steps) /\ l \in Nat
       /\ \A i \in 1..l : steps[i].recs # <<>> /\ steps[i].recs[1] \in Drafted(sides)
       /\ \A i, j \in 1..l : i < j => steps[i].recs[1] \notin ToSet(steps[j].recs)
  BY <1>1, <1>3 DEF SimSteps
<1>11. /\ IsSeq(steps') /\ Len(steps') = l + 1 /\ steps'[l + 1] = e
       /\ \A i \in 1..l : steps'[i] = steps[i]
  BY <1>2, <1>10, IsSeqGrows
<1> HIDE DEF l
<1>12. \A i \in 1..l + 1 : i \in 1..l \/ i = l + 1  BY <1>10
<1>13. SimSteps'
  <2>1. DOMAIN steps' = 1..Len(steps') /\ Len(steps') \in Nat  BY <1>10, <1>11 DEF IsSeq
  <2>2. ASSUME NEW i \in 1..l + 1
        PROVE  IF steps'[i].recs = <<>> THEN simDone' /\ i = l + 1
               ELSE steps'[i].recs[1] \in Drafted(sides')
    <3>1. CASE i \in 1..l
      <4>1. steps'[i] = steps[i] /\ steps[i].recs # <<>> /\ steps[i].recs[1] \in Drafted(sides)
        BY <1>10, <1>11, <3>1
      <4> QED  BY <1>9, <4>1
    <3>2. CASE i = l + 1
      <4>1. steps'[i].recs = recs  BY <1>6, <1>11, <3>2
      <4>2. recs = <<>> => simDone'  BY <1>5
      <4> QED  BY <1>9, <3>2, <4>1, <4>2
    <3> QED  BY <1>12, <3>1, <3>2
  <2>3. ASSUME NEW i \in 1..l + 1, NEW j \in 1..l + 1, i < j
        PROVE  steps'[i].recs[1] \notin ToSet(steps'[j].recs)
    <3>1. i \in 1..l  BY <1>10, <2>3
    <3>2. CASE j \in 1..l  BY <1>10, <1>11, <2>3, <3>1, <3>2
    <3>3. CASE j = l + 1
      <4>1. steps'[j].recs = recs /\ steps'[i].recs[1] \in Drafted(sides)
        BY <1>6, <1>10, <1>11, <3>1, <3>3
      <4> QED  BY <1>7, <4>1
    <3> QED  BY <1>12, <3>2, <3>3
  <2> QED  BY <1>11, <2>1, <2>2, <2>3 DEF SimSteps
<1>14. SimTold'
  <2> SUFFICES ASSUME simFaults' = 0
               PROVE  /\ ~simDone' \/ simSlot' = 24 => Len(steps') = simSlot'
                      /\ Len(steps') <= 24
                      /\ \A i \in 1..Len(steps') : Told(steps'[i], i)
    BY DEF SimTold
  <2>1. simFaults = 0  BY <1>2
  <2>2. Told(e, simSlot + 1) /\ l = simSlot  BY <1>1, <1>6, <2>1, SlotTold DEF l
  <2>3. Len(steps') <= 24 /\ (~simDone' \/ simSlot' = 24 => Len(steps') = simSlot')
    BY <1>3, <1>5, <1>11, <2>2
  <2>4. \A i \in 1..l : Told(steps[i], i)  BY <1>1, <2>1 DEF SimTold, l
  <2>5. ASSUME NEW i \in 1..l + 1  PROVE Told(steps'[i], i)
    <3>1. CASE i \in 1..l  BY <1>11, <2>4, <3>1
    <3>2. CASE i = l + 1  BY <1>11, <2>2, <3>2
    <3> QED  BY <1>12, <3>1, <3>2
  <2> QED  BY <1>11, <2>3, <2>5
<1>15. (simDone => simSlot = 24 \/ (simSlot < 24 /\ catalog \ {HeroIDNone} \subseteq Drafted(sides)))'
  <2>1. CASE recs = <<>> /\ simDone' = TRUE /\ sides' = sides /\ simSlot' = simSlot
    <3>1. S = {}  BY <1>4, <2>1
    <3>2. catalog \ {HeroIDNone} \subseteq Drafted(sides)  BY <1>3, <3>1
    <3> QED  BY <1>2, <1>3, <2>1, <3>2
  <2>2. CASE simDone' = simDone  BY <1>3, <2>2
  <2> QED  BY <1>5, <2>1, <2>2
<1> QED  BY <1>8, <1>9, <1>13, <1>14, <1>15 DEF SimInv

LEMMA SimOtherStep ==
    ASSUME SimInv, SlotFails \/ Respond \/ UNCHANGED simVars
    PROVE  SimInv'
<1>1. SimRequest /\ SimDraft /\ SimSteps /\ SimTold  BY DEF SimInv
<1>2. /\ catalog' = catalog /\ k' = k /\ scoring' = scoring /\ sides' = sides /\ steps' = steps
  BY DEF SlotFails, Respond, simVars
<1>3. SimRequest'  BY <1>1, <1>2 DEF SimRequest
<1>4. CASE SlotFails
  <2>1. /\ simSlot' = simSlot + 1 /\ simFaults' = simFaults + 1 /\ simDone' = simDone /\ SlotsLeft
    BY <1>4 DEF SlotFails
  <2>2. simSlot \in 0..23 /\ ~simDone /\ simFaults \in Nat
    BY <1>1, <2>1, SlotAt DEF SimDraft
  <2>3. simFaults' # 0 /\ simFaults' \in Nat /\ simSlot' \in 0..24  BY <2>1, <2>2
  <2>4. ASSUME NEW t \in Teams  PROVE Len(sides[t].picks) <= Cardinality(PicksTo(t, simSlot + 1))
    <3> DEFINE c == Cardinality(PicksTo(t, simSlot))
               d == Cardinality(PicksTo(t, simSlot + 1))
               x == Len(sides[t].picks)
    <3>1. c \in Nat /\ (d = c \/ d = c + 1)  BY <2>2, PicksNext
    <3>2. x <= c /\ x \in Nat
      <4>1. sides[t].picks \in Seq(Nat)  BY <1>1, DraftFields DEF SimDraft
      <4> QED  BY <1>1, <4>1 DEF SimDraft
    <3> HIDE DEF c, d, x
    <3>3. x <= d  BY <3>1, <3>2
    <3> QED  BY <3>3 DEF x, d
  <2>5. Cardinality(Drafted(sides)) <= simSlot + 1
    <3>1. Cardinality(Drafted(sides)) \in Nat /\ Cardinality(Drafted(sides)) <= simSlot
      BY <1>1, FS_CardinalityType DEF SimDraft
    <3> QED  BY <2>2, <3>1
  <2>6. SimDraft'  BY <1>1, <1>2, <2>1, <2>3, <2>4, <2>5 DEF SimDraft, PicksTo
  <2>7. SimSteps'  BY <1>1, <1>2, <2>1 DEF SimSteps
  <2>8. SimTold'  BY <2>3 DEF SimTold
  <2> QED  BY <1>3, <2>1, <2>2, <2>6, <2>7, <2>8 DEF SimInv
<1>5. CASE Respond
  <2>1. simSlot' = simSlot /\ simFaults' = simFaults /\ simDone' = TRUE /\ ~simDone /\ simSlot >= 24
    BY <1>5, TableSlots DEF Respond
  <2>2. simSlot = 24  BY <1>1, <2>1 DEF SimDraft
  <2>3. SimDraft'  BY <1>1, <1>2, <2>1 DEF SimDraft, PicksTo
  <2>4. SimSteps'  BY <1>1, <1>2, <2>1 DEF SimSteps
  <2>5. SimTold'  BY <1>1, <1>2, <2>1, <2>2 DEF SimTold
  <2> QED  BY <1>3, <2>1, <2>2, <2>3, <2>4, <2>5 DEF SimInv
<1>6. CASE UNCHANGED simVars
  <2>1. simSlot' = simSlot /\ simFaults' = simFaults /\ simDone' = simDone  BY <1>6 DEF simVars
  <2>2. SimDraft'  BY <1>1, <1>2, <2>1 DEF SimDraft, PicksTo
  <2>3. SimSteps'  BY <1>1, <1>2, <2>1 DEF SimSteps
  <2>4. SimTold'  BY <1>1, <1>2, <2>1 DEF SimTold
  <2> QED  BY <1>2, <1>3, <2>1, <2>2, <2>3, <2>4 DEF SimInv
<1> QED  BY <1>4, <1>5, <1>6

LEMMA SimImplies ==
    ASSUME SimInv
    PROVE  SimulationSound
<1>1. SimRequest /\ SimDraft /\ SimSteps /\ SimTold  BY DEF SimInv
<1>2. IsInjective(Entries) /\ ToSet(Entries) = Drafted(sides)  BY <1>1, EntriesApart DEF SimDraft
<1>3. HeroIDNone \notin ToSet(Entries)  BY <1>1, <1>2 DEF SimDraft
<1>4. \A i, j \in DOMAIN steps : i < j => steps[i].recs[1] \notin ToSet(steps[j].recs)
  BY <1>1 DEF SimSteps
<1>5. ASSUME NEW t \in Teams  PROVE Len(sides[t].picks) <= 5
  <2> DEFINE x == Len(sides[t].picks)
             c == Cardinality(PicksTo(t, simSlot))
  <2>1. sides[t].picks \in Seq(Nat)  BY <1>1, DraftFields DEF SimDraft
  <2>2. x \in Nat /\ x <= c  BY <1>1, <2>1 DEF SimDraft
  <2>3. simSlot \in 0..24  BY <1>1 DEF SimDraft
  <2>4. c \in Nat /\ c <= 5  BY <2>3, PicksToTyped
  <2> HIDE DEF x, c
  <2>5. x <= 5  BY <2>2, <2>4
  <2> QED  BY <2>5 DEF x
<1>6. ASSUME simDone, simFaults = 0, Cardinality(catalog) > 24
      PROVE  (\A t \in Teams : Len(sides[t].picks) = 5) /\ Len(steps) = 24
  <2>1. simSlot = 24
    <3> SUFFICES ASSUME simSlot < 24, catalog \ {HeroIDNone} \subseteq Drafted(sides)  PROVE FALSE
      BY <1>6 DEF SimInv
    <3>1. PICK n \in Nat : catalog = 0..n  BY <1>1 DEF SimRequest
    <3>2. 1..n \subseteq Drafted(sides)
      <4>1. \A y \in 1..n : y \in 0..n /\ y # 0  OBVIOUS
      <4> QED  BY <3>1, <4>1 DEF HeroIDNone
    <3>3. IsFiniteSet(Drafted(sides)) /\ Cardinality(Drafted(sides)) <= simSlot /\ simSlot \in 0..24
      BY <1>1 DEF SimDraft
    <3>4. Cardinality(1..n) <= Cardinality(Drafted(sides))  BY <3>2, <3>3, FS_Subset
    <3>5. Cardinality(1..n) = n
      <4>1. 1 \in Int /\ n \in Int  OBVIOUS
      <4>2. Cardinality(1..n) = IF 1 > n THEN 0 ELSE n - 1 + 1  BY <4>1, FS_Interval
      <4> QED  BY <4>2
    <3>6. Cardinality(0..n) = n + 1
      <4>1. 0 \in Int /\ n \in Int  OBVIOUS
      <4>2. Cardinality(0..n) = IF 0 > n THEN 0 ELSE n - 0 + 1  BY <4>1, FS_Interval
      <4> QED  BY <4>2
    <3>7. Cardinality(Drafted(sides)) \in Nat  BY <3>3, FS_CardinalityType
    <3>8. n + 1 > 24  BY <1>6, <3>1, <3>6
    <3> QED  BY <3>3, <3>4, <3>5, <3>7, <3>8
  <2>2. ASSUME NEW t \in Teams  PROVE Len(sides[t].picks) = 5
    <3>1. Len(sides[t].picks) = Cardinality(PicksTo(t, simSlot))  BY <1>1, <1>6 DEF SimDraft
    <3> QED  BY <2>1, <3>1, FivePicks
  <2>3. Len(steps) = 24  BY <1>1, <1>6, <2>1 DEF SimTold
  <2> QED  BY <2>2, <2>3
<1>7. SimulationLegal  BY <1>2, <1>3, <1>4, <1>5, <1>6 DEF SimulationLegal
<1>8. FirstAndLastPick
  <2> SUFFICES ASSUME simFaults = 0, NEW i \in DOMAIN steps
               PROVE  LET s == steps[i]
                          before == {j \in 1..i - 1 : ~steps[j].phase.ban /\ steps[j].phase.team = s.phase.team}
                      IN  /\ s.roster = {s.phase.team}
                          /\ ~s.phase.ban =>
                                /\ s.features.is_first_pick <=> before = {}
                                /\ s.features.is_last_pick <=> Cardinality(before) = 4
                                /\ s.features.remaining_team_picks = 5 - Cardinality(before)
                                /\ s.features.remaining_team_picks > 0
    BY DEF FirstAndLastPick
  <2> DEFINE team == CMPhaseTable[i].team
             before == {j \in 1..i - 1 : ~steps[j].phase.ban /\ steps[j].phase.team = steps[i].phase.team}
             c == Cardinality(PicksTo(team, i - 1))
  <2>1. /\ Len(steps) \in Nat /\ Len(steps) <= 24 /\ DOMAIN steps = 1..Len(steps)
        /\ \A j \in 1..Len(steps) : Told(steps[j], j)
    BY <1>1 DEF SimTold, SimSteps
  <2>2. i \in 1..24 /\ i - 1 \in 0..23 /\ (i - 1) + 1 = i /\ \A j \in 1..i - 1 : j \in 1..Len(steps)
    <3> DEFINE l == Len(steps)
    <3>1. l \in Nat /\ l <= 24 /\ i \in 1..l  BY <2>1
    <3> HIDE DEF l
    <3>2. i \in 1..24 /\ i - 1 \in 0..23 /\ (i - 1) + 1 = i /\ \A j \in 1..i - 1 : j \in 1..l  BY <3>1
    <3> QED  BY <3>2 DEF l
  <2>3. \A j \in 1..Len(steps) : steps[j].phase = CMPhaseTable[j]  BY <2>1 DEF Told
  <2>4. steps[i].phase = CMPhaseTable[i]  BY <2>1, <2>3
  <2>5. before = PicksTo(team, i - 1)
    <3>1. \A j \in 1..i - 1 : steps[j].phase = CMPhaseTable[j]  BY <2>2, <2>3
    <3> QED  BY <2>4, <3>1, Zenon DEF PicksTo, PickOf
  <2>6. team \in Teams  BY <2>2, TableSlots, Zenon
  <2>7. /\ c \in Nat /\ (PicksTo(team, i - 1) = {} <=> c = 0)
        /\ PickOf(team, i) => c <= 4
    BY <2>2, <2>6, PicksNext
  <2>8. /\ steps[i].roster = {team}
        /\ steps[i].features.is_first_pick <=> c = 0
        /\ steps[i].features.is_last_pick <=> c = 4
        /\ steps[i].features.remaining_team_picks = Limited(0, 5 - c, 5)
    BY <2>1, Zenon DEF Told
  <2>9. ~steps[i].phase.ban => PickOf(team, i)  BY <2>4 DEF PickOf
  <2> HIDE DEF c
  <2>10. c <= 4 => Limited(0, 5 - c, 5) = 5 - c /\ 5 - c > 0  BY <2>7 DEF Limited
  <2>11. Cardinality(before) = c  BY <2>5 DEF c
  <2>12. before = {} <=> c = 0  BY <2>5, <2>7
  <2>13. steps[i].phase.team = team  BY <2>4
  <2> HIDE DEF before, team
  <2>14. /\ steps[i].roster = {steps[i].phase.team}
         /\ ~steps[i].phase.ban =>
              /\ steps[i].features.is_first_pick <=> before = {}
              /\ steps[i].features.is_last_pick <=> Cardinality(before) = 4
              /\ steps[i].features.remaining_team_picks = 5 - Cardinality(before)
              /\ steps[i].features.remaining_team_picks > 0
    BY <2>7, <2>8, <2>9, <2>10, <2>11, <2>12, <2>13
  <2> QED  BY <2>14 DEF before
<1> QED  BY <1>7, <1>8 DEF SimulationSound

(* SimulateDraft, for every size of the catalog, every k and every way the *)
(* recommendations may fail: no hero is drafted twice or recommended when  *)
(* gone, no team picks more than five, and a simulation without failures   *)
(* is complete where the heroes suffice, with each team's first and last   *)
(* pick told as such.                                                      *)
THEOREM SimulationIsSound ==
    ASSUME SimulateConstants
    PROVE  SimSpec => []SimulationSound
<1>1. SimInit => SimInv  BY SimStart
<1>2. SimInv /\ [SimNext]_simVars => SimInv'
  BY SimSlotStep, SimOtherStep DEF SimNext
<1>3. SimInv => SimulationSound  BY SimImplies
<1> QED  BY <1>1, <1>2, <1>3, PTL DEF SimSpec

-----------------------------------------------------------------------------
(* DraftRules, for drafts of any length.  The greedy scan accepts exactly  *)
(* the patterns without some of their bans because, at each entry of the   *)
(* pattern, it has matched as many picks and as many bans of the present   *)
(* run as the draft has and the pattern allows (ScanAt).  Phases go by the *)
(* switches between two picks: two if there is a ban in between, none      *)
(* otherwise (NextPickPhase), whatever the number of bans.                 *)

LEMMA DraftTyped ==
    ASSUME NEW d \in Seq(BOOLEAN)
    PROVE  /\ Len(d) \in Nat /\ DOMAIN d = 1..Len(d)
           /\ \A x \in 1..Len(d) : d[x] = TRUE \/ d[x] = FALSE
<1>1. Len(d) \in Nat /\ DOMAIN d = 1..Len(d) /\ \A x \in 1..Len(d) : d[x] \in BOOLEAN  OBVIOUS
<1> QED  BY <1>1, Zenon

LEMMA PickCountNext ==
    ASSUME NEW d, NEW x \in Nat
    PROVE  /\ PicksUpTo(d, 0) = 0 /\ PicksUpTo(d, x) \in Nat
           /\ PicksUpTo(d, x + 1) = IF d[x + 1] THEN PicksUpTo(d, x) + 1 ELSE PicksUpTo(d, x)
<1> DEFINE A == {y \in 1..x : d[y]}
           B == {y \in 1..x + 1 : d[y]}
<1>1. IsFiniteSet(1..x)
  <2>1. 1 \in Int /\ x \in Int  OBVIOUS
  <2> QED  BY <2>1, FS_Interval
<1>2. A \in SUBSET (1..x) /\ x + 1 \notin A  OBVIOUS
<1>3. \A y : y \in 1..x + 1 <=> y \in 1..x \/ y = x + 1  OBVIOUS
<1>4. CASE d[x + 1]
  <2>1. B = A \cup {x + 1}  BY <1>3, <1>4
  <2> HIDE DEF A, B
  <2>2. IsFiniteSet(A)  BY <1>1, <1>2, FS_Subset
  <2>3. Cardinality(A) \in Nat /\ Cardinality(B) = Cardinality(A) + 1
    BY <1>2, <2>1, <2>2, FS_AddElement, FS_CardinalityType
  <2>4. PicksUpTo(d, x) = Cardinality(A) /\ PicksUpTo(d, x + 1) = Cardinality(B)
    BY DEF PicksUpTo, A, B
  <2>5. PicksUpTo(d, 0) = Cardinality({})
    <3>1. {y \in 1..0 : d[y]} = {}  OBVIOUS
    <3> QED  BY <3>1 DEF PicksUpTo
  <2> QED  BY <1>4, <2>3, <2>4, <2>5, FS_EmptySet
<1>5. CASE ~d[x + 1]
  <2>1. B = A  BY <1>3, <1>5
  <2> HIDE DEF A, B
  <2>2. IsFiniteSet(A)  BY <1>1, <1>2, FS_Subset
  <2>3. Cardinality(A) \in Nat  BY <2>2, FS_CardinalityType
  <2>4. PicksUpTo(d, x) = Cardinality(A) /\ PicksUpTo(d, x + 1) = Cardinality(B)
    BY DEF PicksUpTo, A, B
  <2>5. PicksUpTo(d, 0) = Cardinality({})
    <3>1. {y \in 1..0 : d[y]} = {}  OBVIOUS
    <3> QED  BY <3>1 DEF PicksUpTo
  <2> QED  BY <1>5, <2>1, <2>3, <2>4, <2>5, FS_EmptySet
<1> QED  BY <1>4, <1>5

LEMMA PickCountGrows ==
    ASSUME NEW d, NEW x \in Nat, NEW y \in Nat
    PROVE  /\ PicksUpTo(d, x) \in Nat /\ PicksUpTo(d, y) \in Nat
           /\ x <= y => PicksUpTo(d, x) <= PicksUpTo(d, y)
           /\ x < y /\ d[y] => PicksUpTo(d, x) < PicksUpTo(d, y)
<1>1. ASSUME NEW a \in Nat, NEW b \in Nat, a <= b
      PROVE  PicksUpTo(d, a) <= PicksUpTo(d, b) /\ PicksUpTo(d, a) \in Nat /\ PicksUpTo(d, b) \in Nat
  <2> DEFINE A == {z \in 1..a : d[z]}
             B == {z \in 1..b : d[z]}
  <2>1. A \in SUBSET B /\ B \in SUBSET (1..b)  BY <1>1
  <2>2. IsFiniteSet(1..b)
    <3>1. 1 \in Int /\ b \in Int  OBVIOUS
    <3> QED  BY <3>1, FS_Interval
  <2>3. PicksUpTo(d, a) = Cardinality(A) /\ PicksUpTo(d, b) = Cardinality(B)  BY DEF PicksUpTo
  <2> HIDE DEF A, B
  <2>4. IsFiniteSet(B)  BY <2>1, <2>2, FS_Subset
  <2>5. Cardinality(A) <= Cardinality(B)  BY <2>1, <2>4, FS_Subset
  <2> QED  BY <2>3, <2>5, PickCountNext
<1>2. ASSUME x < y, d[y]  PROVE PicksUpTo(d, x) < PicksUpTo(d, y)
  <2>1. y - 1 \in Nat /\ x <= y - 1 /\ (y - 1) + 1 = y  BY <1>2
  <2>2. PicksUpTo(d, x) <= PicksUpTo(d, y - 1)  BY <1>1, <2>1
  <2> DEFINE z == y - 1
  <2>3. PicksUpTo(d, z + 1) = IF d[z + 1] THEN PicksUpTo(d, z) + 1 ELSE PicksUpTo(d, z)
    BY <2>1, PickCountNext
  <2>4. PicksUpTo(d, y) = PicksUpTo(d, y - 1) + 1  BY <1>2, <2>1, <2>3
  <2>5. PicksUpTo(d, x) \in Nat /\ PicksUpTo(d, y - 1) \in Nat  BY <2>1, PickCountNext
  <2> QED  BY <2>2, <2>4, <2>5
<1> QED  BY <1>1, <1>2, PickCountNext

LEMMA CountIsUpTo ==
    ASSUME NEW d \in Seq(BOOLEAN)
    PROVE  CountOf(TRUE, d) = PicksUpTo(d, Len(d))
<1>1. DOMAIN d = 1..Len(d) /\ \A x \in 1..Len(d) : d[x] = TRUE \/ d[x] = FALSE  BY DraftTyped
<1>2. {x \in DOMAIN d : d[x] = TRUE} = {x \in 1..Len(d) : d[x]}  BY <1>1
<1> QED  BY <1>2 DEF CountOf, PicksUpTo

(* The bans after n picks among the first x entries.                       *)
BansTo(d, n, x) == Cardinality({i \in 1..x : ~d[i] /\ PicksUpTo(d, i) = n})

LEMMA RunIsBansTo ==
    ASSUME NEW d \in Seq(BOOLEAN), NEW n
    PROVE  BanRun(d, n) = BansTo(d, n, Len(d))
<1>1. DOMAIN d = 1..Len(d)  BY DraftTyped
<1> QED  BY <1>1 DEF BanRun, BansTo

LEMMA BanCountNext ==
    ASSUME NEW d, NEW n, NEW x \in Nat
    PROVE  /\ BansTo(d, n, 0) = 0 /\ BansTo(d, n, x) \in Nat
           /\ BansTo(d, n, x + 1) = IF ~d[x + 1] /\ PicksUpTo(d, x + 1) = n THEN BansTo(d, n, x) + 1
                                    ELSE BansTo(d, n, x)
<1> DEFINE P(y) == ~d[y] /\ PicksUpTo(d, y) = n
           A == {y \in 1..x : P(y)}
           B == {y \in 1..x + 1 : P(y)}
<1>1. IsFiniteSet(1..x)
  <2>1. 1 \in Int /\ x \in Int  OBVIOUS
  <2> QED  BY <2>1, FS_Interval
<1>2. BansTo(d, n, 0) = 0
  <2>1. {y \in 1..0 : P(y)} = {}  OBVIOUS
  <2> QED  BY <2>1, FS_EmptySet DEF BansTo
<1>3. BansTo(d, n, x) = Cardinality(A) /\ BansTo(d, n, x + 1) = Cardinality(B)  BY DEF BansTo
<1>4. P(x + 1) <=> ~d[x + 1] /\ PicksUpTo(d, x + 1) = n  OBVIOUS
<1> HIDE DEF P
<1>5. A \in SUBSET (1..x) /\ x + 1 \notin A  OBVIOUS
<1>6. \A y : y \in 1..x + 1 <=> y \in 1..x \/ y = x + 1  OBVIOUS
<1>7. P(x + 1) => B = A \cup {x + 1}  BY <1>6
<1>8. ~P(x + 1) => B = A  BY <1>6
<1> HIDE DEF A, B
<1>9. IsFiniteSet(A)  BY <1>1, <1>5, FS_Subset
<1>10. Cardinality(A) \in Nat  BY <1>9, FS_CardinalityType
<1>11. Cardinality(A \cup {x + 1}) = Cardinality(A) + 1  BY <1>5, <1>9, FS_AddElement
<1>12. CASE P(x + 1)  BY <1>2, <1>3, <1>4, <1>7, <1>10, <1>11, <1>12
<1>13. CASE ~P(x + 1)  BY <1>2, <1>3, <1>4, <1>8, <1>10, <1>13
<1> QED  BY <1>12, <1>13

LEMMA BanCountGrows ==
    ASSUME NEW d, NEW n, NEW x \in Nat, NEW y \in Nat, x <= y
    PROVE  /\ BansTo(d, n, x) <= BansTo(d, n, y)
           /\ BansTo(d, n, x) \in Nat /\ BansTo(d, n, y) \in Nat
           /\ (\A i \in 1..y : i > x => d[i] \/ PicksUpTo(d, i) # n) => BansTo(d, n, x) = BansTo(d, n, y)
<1> DEFINE P(i) == ~d[i] /\ PicksUpTo(d, i) = n
           A == {i \in 1..x : P(i)}
           B == {i \in 1..y : P(i)}
<1>1. BansTo(d, n, x) = Cardinality(A) /\ BansTo(d, n, y) = Cardinality(B)  BY DEF BansTo
<1>2. (\A i \in 1..y : i > x => d[i] \/ PicksUpTo(d, i) # n) => \A i \in 1..y : i > x => ~P(i)  OBVIOUS
<1> HIDE DEF P
<1>3. A \in SUBSET B /\ B \in SUBSET (1..y)  OBVIOUS
<1>4. (\A i \in 1..y : i > x => ~P(i)) => A = B
  <2> SUFFICES ASSUME \A i \in 1..y : i > x => ~P(i), NEW i \in B  PROVE i \in A
    BY <1>3
  <2>1. i \in 1..y /\ P(i)  OBVIOUS
  <2>2. i \in 1..x  BY <2>1
  <2> QED  BY <2>1, <2>2
<1> HIDE DEF A, B
<1>5. IsFiniteSet(1..y)
  <2>1. 1 \in Int /\ y \in Int  OBVIOUS
  <2> QED  BY <2>1, FS_Interval
<1>6. IsFiniteSet(B)  BY <1>3, <1>5, FS_Subset
<1>7. Cardinality(A) <= Cardinality(B)  BY <1>3, <1>6, FS_Subset
<1>8. BansTo(d, n, x) \in Nat /\ BansTo(d, n, y) \in Nat  BY BanCountNext
<1> QED  BY <1>1, <1>2, <1>4, <1>7, <1>8

(* A draft after its first x entries, n of them picks.                     *)
LEMMA RunAt ==
    ASSUME NEW d \in Seq(BOOLEAN), NEW x \in 0..Len(d), NEW n, n = PicksUpTo(d, x)
    PROVE  /\ n \in Nat /\ BansTo(d, n, x) \in Nat /\ BanRun(d, n) \in Nat
           /\ BansTo(d, n, x) <= BanRun(d, n)
           /\ x = Len(d) => BansTo(d, n, x) = BanRun(d, n)
           /\ x < Len(d) /\ d[x + 1] =>
                 /\ BansTo(d, n, x) = BanRun(d, n)
                 /\ PicksUpTo(d, x + 1) = n + 1 /\ BansTo(d, n + 1, x + 1) = 0
           /\ x < Len(d) /\ ~d[x + 1] =>
                 /\ BansTo(d, n, x + 1) = BansTo(d, n, x) + 1 /\ PicksUpTo(d, x + 1) = n
                 /\ BansTo(d, n, x + 1) <= BanRun(d, n)
<1>1. Len(d) \in Nat /\ x \in Nat /\ x <= Len(d)  BY DraftTyped
<1>2. n \in Nat  BY <1>1, PickCountNext
<1>3. BanRun(d, n) = BansTo(d, n, Len(d))  BY RunIsBansTo
<1>4. BansTo(d, n, x) <= BansTo(d, n, Len(d)) /\ BansTo(d, n, x) \in Nat /\ BansTo(d, n, Len(d)) \in Nat
  BY <1>1, BanCountGrows
<1>5. ASSUME x < Len(d), d[x + 1]
      PROVE  /\ BansTo(d, n, x) = BansTo(d, n, Len(d))
             /\ PicksUpTo(d, x + 1) = n + 1 /\ BansTo(d, n + 1, x + 1) = 0
  <2>1. PicksUpTo(d, x + 1) = n + 1  BY <1>1, <1>5, PickCountNext
  <2>2. ASSUME NEW i \in 1..Len(d), i > x  PROVE PicksUpTo(d, i) # n
    <3>1. i \in Nat /\ x + 1 \in Nat /\ x + 1 <= i  BY <1>1, <2>2
    <3>2. PicksUpTo(d, x + 1) <= PicksUpTo(d, i) /\ PicksUpTo(d, i) \in Nat  BY <3>1, PickCountGrows
    <3> QED  BY <1>2, <2>1, <3>2
  <2>3. BansTo(d, n, x) = BansTo(d, n, Len(d))  BY <1>1, <2>2, BanCountGrows
  <2>4. ASSUME NEW i \in 1..x + 1, i > 0  PROVE d[i] \/ PicksUpTo(d, i) # n + 1
    <3>1. CASE i = x + 1  BY <1>5, <3>1
    <3>2. CASE i <= x
      <4>1. i \in Nat  OBVIOUS
      <4>2. PicksUpTo(d, i) <= n /\ PicksUpTo(d, i) \in Nat  BY <1>1, <3>2, <4>1, PickCountGrows
      <4> QED  BY <1>2, <4>2
    <3> QED  BY <1>1, <3>1, <3>2
  <2>5. BansTo(d, n + 1, 0) = BansTo(d, n + 1, x + 1)
    <3> DEFINE y == x + 1
               m == n + 1
    <3>1. 0 \in Nat /\ y \in Nat /\ 0 <= y  BY <1>1
    <3>2. \A i \in 1..y : i > 0 => d[i] \/ PicksUpTo(d, i) # m  BY <2>4
    <3> HIDE DEF y, m
    <3>3. BansTo(d, m, 0) = BansTo(d, m, y)  BY <3>1, <3>2, BanCountGrows
    <3> QED  BY <3>3 DEF y, m
  <2>6. BansTo(d, n + 1, 0) = 0  BY <1>1, BanCountNext
  <2> QED  BY <2>1, <2>3, <2>5, <2>6
<1>6. ASSUME x < Len(d), ~d[x + 1]
      PROVE  /\ BansTo(d, n, x + 1) = BansTo(d, n, x) + 1 /\ PicksUpTo(d, x + 1) = n
             /\ BansTo(d, n, x + 1) <= BansTo(d, n, Len(d))
  <2>1. PicksUpTo(d, x + 1) = n  BY <1>1, <1>6, PickCountNext
  <2>2. BansTo(d, n, x + 1) = BansTo(d, n, x) + 1  BY <1>1, <1>6, <2>1, BanCountNext
  <2>3. x + 1 \in Nat /\ x + 1 <= Len(d)  BY <1>1, <1>6
  <2>4. BansTo(d, n, x + 1) <= BansTo(d, n, Len(d))  BY <1>1, <2>3, BanCountGrows
  <2> QED  BY <2>1, <2>2, <2>4
<1> QED  BY <1>2, <1>3, <1>4, <1>5, <1>6

Lesser(a, b) == IF a <= b THEN a ELSE b

(* The scan is at entry i of the draft d after q entries of the pattern p: *)
(* it has found as many picks, and all bans that the pattern allows.       *)
ScanAt(d, p, q, i) ==
    LET n == PicksUpTo(p, q)
    IN  \/ i = 0 /\ \E j \in 0..CountOf(TRUE, d) : BanRun(d, j) > BanRun(p, j)
        \/ /\ i \in 1..Len(d) + 1 /\ i <= q + 1
           /\ PicksUpTo(d, i - 1) = n
           /\ BansTo(d, n, i - 1) = Lesser(BanRun(d, n), BansTo(p, n, q))
           /\ \A j \in 0..n - 1 : BanRun(d, j) <= BanRun(p, j)

LEMMA ScanMoves ==
    ASSUME NEW d \in Seq(BOOLEAN), NEW p \in Seq(BOOLEAN), CountOf(TRUE, d) = CountOf(TRUE, p),
           NEW q \in 0..Len(p), q < Len(p), NEW i, ScanAt(d, p, q, i)
    PROVE  ScanAt(d, p, q + 1, Advance(d, i, p[q + 1]))
<1> DEFINE n == PicksUpTo(p, q)
           a == BanRun(d, n)
           b == BansTo(p, n, q)
           x == i - 1
<1>1. CASE i = 0 /\ \E j \in 0..CountOf(TRUE, d) : BanRun(d, j) > BanRun(p, j)
  BY <1>1 DEF ScanAt, Advance
<1>2. CASE /\ i \in 1..Len(d) + 1 /\ i <= q + 1
           /\ PicksUpTo(d, i - 1) = n
           /\ BansTo(d, n, i - 1) = Lesser(BanRun(d, n), BansTo(p, n, q))
           /\ \A j \in 0..n - 1 : BanRun(d, j) <= BanRun(p, j)
  <2>1. /\ Len(d) \in Nat /\ Len(p) \in Nat /\ q \in Nat /\ q + 1 \in Nat
        /\ \A y \in 1..Len(d) : d[y] = TRUE \/ d[y] = FALSE
        /\ \A y \in 1..Len(p) : p[y] = TRUE \/ p[y] = FALSE
    BY DraftTyped
  <2>2. x \in 0..Len(d) /\ x + 1 = i /\ i \in Nat /\ i # 0 /\ q + 1 \in 1..Len(p)  BY <1>2, <2>1
  <2>3. /\ n \in Nat /\ b \in Nat /\ BanRun(p, n) \in Nat /\ b <= BanRun(p, n)
        /\ p[q + 1] =>
              /\ b = BanRun(p, n)
              /\ PicksUpTo(p, q + 1) = n + 1 /\ BansTo(p, n + 1, q + 1) = 0
        /\ ~p[q + 1] =>
              /\ BansTo(p, n, q + 1) = b + 1 /\ PicksUpTo(p, q + 1) = n
    BY RunAt
  <2>4. /\ BansTo(d, n, x) \in Nat /\ a \in Nat /\ BansTo(d, n, x) <= a
        /\ x = Len(d) => BansTo(d, n, x) = a
        /\ x < Len(d) /\ d[x + 1] =>
              /\ BansTo(d, n, x) = a
              /\ PicksUpTo(d, x + 1) = n + 1 /\ BansTo(d, n + 1, x + 1) = 0
        /\ x < Len(d) /\ ~d[x + 1] =>
              /\ BansTo(d, n, x + 1) = BansTo(d, n, x) + 1 /\ PicksUpTo(d, x + 1) = n
              /\ BansTo(d, n, x + 1) <= a
    BY <1>2, <2>2, RunAt
  <2>5. BansTo(d, n, x) = Lesser(a, b)  BY <1>2
  <2>6. i > Len(d) <=> x = Len(d)  BY <2>1, <2>2
  <2>7. n <= CountOf(TRUE, d) /\ CountOf(TRUE, d) = PicksUpTo(d, Len(d)) /\ CountOf(TRUE, d) \in Nat
    <3>1. CountOf(TRUE, d) = PicksUpTo(d, Len(d))  BY CountIsUpTo
    <3>2. x \in Nat /\ x <= Len(d)  BY <2>1, <2>2
    <3>3. PicksUpTo(d, x) <= PicksUpTo(d, Len(d)) /\ PicksUpTo(d, Len(d)) \in Nat
      BY <2>1, <3>2, PickCountGrows
    <3> QED  BY <1>2, <3>1, <3>3
  <2> HIDE DEF n, a, b, x
  <2>8. CASE p[q + 1] /\ i > Len(d)
    <3>1. n = CountOf(TRUE, p)  BY <1>2, <2>2, <2>6, <2>7, <2>8 DEF x, n
    <3>2. CountOf(TRUE, p) = PicksUpTo(p, Len(p))  BY CountIsUpTo
    <3>3. PicksUpTo(p, q + 1) <= PicksUpTo(p, Len(p))  BY <2>1, PickCountGrows
    <3>4. PicksUpTo(p, q + 1) = n + 1  BY <2>3, <2>8, Zenon
    <3>5. n \in Nat  BY <2>3
    <3>6. n + 1 <= n  BY <3>1, <3>2, <3>3, <3>4
    <3> QED  BY <3>5, <3>6
  <2>9. CASE p[q + 1] /\ i <= Len(d) /\ d[i]
    <3> DEFINE e == i + 1
    <3>1. Advance(d, i, p[q + 1]) = e
      <4>1. i \in 1..Len(d) /\ ~(i = 0 \/ i > Len(d))  BY <2>1, <2>2, <2>9
      <4>2. d[i] = p[q + 1]
        <5>1. d[i] = TRUE  BY <2>1, <2>9, <4>1, Zenon
        <5>2. p[q + 1] = TRUE  BY <2>1, <2>2, <2>9, Zenon
        <5> QED  BY <5>1, <5>2, Zenon
      <4>3. ~(i = 0 \/ i > Len(d))  BY <4>1
      <4> QED  BY <4>2, <4>3 DEF Advance, e
    <3>2. /\ BansTo(d, n, x) = a /\ PicksUpTo(d, i) = n + 1 /\ BansTo(d, n + 1, i) = 0
      BY <2>1, <2>2, <2>4, <2>9
    <3>3. a <= b  BY <2>3, <2>4, <2>5, <3>2 DEF Lesser
    <3>4. \A j \in 0..n : BanRun(d, j) <= BanRun(p, j)
      <4>1. BanRun(d, n) <= BanRun(p, n)  BY <2>3, <2>9, <3>3 DEF a
      <4>2. \A j \in 0..n : j \in 0..n - 1 \/ j = n  BY <2>3
      <4> QED  BY <1>2, <4>1, <4>2 DEF n
    <3>5. BanRun(d, n + 1) \in Nat
      <4>1. i \in 0..Len(d)  BY <2>1, <2>2, <2>9
      <4> QED  BY <3>2, <4>1, RunAt
    <3>6. BansTo(d, n + 1, i) = Lesser(BanRun(d, n + 1), BansTo(p, n + 1, q + 1))
      BY <2>3, <2>9, <3>2, <3>5 DEF Lesser
    <3>7. e - 1 = i /\ e \in 1..Len(d) + 1 /\ e <= (q + 1) + 1 /\ (n + 1) - 1 = n
      BY <1>2, <2>1, <2>2, <2>3, <2>9
    <3>8. PicksUpTo(p, q + 1) = n + 1  BY <2>3, <2>9
    <3> HIDE DEF e
    <3>9. ScanAt(d, p, q + 1, e)  BY <3>2, <3>4, <3>6, <3>7, <3>8 DEF ScanAt
    <3> QED  BY <3>1, <3>9
  <2>10. CASE p[q + 1] /\ i <= Len(d) /\ ~d[i]
    <3>1. Advance(d, i, p[q + 1]) = 0
      <4>1. i \in 1..Len(d) /\ ~(i = 0 \/ i > Len(d))  BY <2>1, <2>2, <2>10
      <4>2. d[i] # p[q + 1]
        <5>1. d[i] = FALSE  BY <2>1, <2>10, <4>1, Zenon
        <5>2. p[q + 1] = TRUE  BY <2>1, <2>2, <2>10, Zenon
        <5> QED  BY <5>1, <5>2, Zenon
      <4> QED  BY <2>10, <4>1, <4>2, Zenon DEF Advance
    <3>2. BansTo(d, n, x) + 1 <= a  BY <2>1, <2>2, <2>4, <2>10
    <3>3. BansTo(d, n, x) = b /\ b < a  BY <2>3, <2>4, <2>5, <3>2 DEF Lesser
    <3>4. BanRun(d, n) > BanRun(p, n)
      <4>1. b = BanRun(p, n)  BY <2>3, <2>10, Zenon
      <4> QED  BY <2>3, <2>4, <3>3, <4>1 DEF a
    <3>5. n \in 0..CountOf(TRUE, d)
      <4> DEFINE c == CountOf(TRUE, d)
      <4>1. n \in Nat /\ c \in Nat /\ n <= c  BY <2>3, <2>7
      <4> HIDE DEF c
      <4>2. n \in 0..c  BY <4>1
      <4> QED  BY <4>2 DEF c
    <3>6. \E j \in 0..CountOf(TRUE, d) : BanRun(d, j) > BanRun(p, j)  BY <3>4, <3>5, Zenon
    <3>7. ScanAt(d, p, q + 1, 0)  BY <3>6, Zenon DEF ScanAt
    <3> QED  BY <3>1, <3>7, Zenon
  <2>11. CASE ~p[q + 1] /\ i <= Len(d) /\ ~d[i]
    <3> DEFINE e == i + 1
    <3>1. Advance(d, i, p[q + 1]) = e
      <4>1. i \in 1..Len(d) /\ ~(i = 0 \/ i > Len(d))  BY <2>1, <2>2, <2>11
      <4>2. d[i] = p[q + 1]
        <5>1. d[i] = FALSE  BY <2>1, <2>11, <4>1, Zenon
        <5>2. p[q + 1] = FALSE  BY <2>1, <2>2, <2>11, Zenon
        <5> QED  BY <5>1, <5>2, Zenon
      <4>3. ~(i = 0 \/ i > Len(d))  BY <4>1
      <4> QED  BY <4>2, <4>3 DEF Advance, e
    <3>2. BansTo(d, n, i) = BansTo(d, n, x) + 1 /\ PicksUpTo(d, i) = n /\ BansTo(d, n, i) <= a
      BY <2>1, <2>2, <2>4, <2>11
    <3>3. BansTo(d, n, x) = b  BY <2>3, <2>4, <2>5, <3>2 DEF Lesser
    <3>4. BansTo(p, n, q + 1) = b + 1 /\ PicksUpTo(p, q + 1) = n  BY <2>3, <2>11
    <3>5. BansTo(d, n, i) = Lesser(a, BansTo(p, n, q + 1))  BY <2>3, <2>4, <3>2, <3>3, <3>4 DEF Lesser
    <3>6. e - 1 = i /\ e \in 1..Len(d) + 1 /\ e <= (q + 1) + 1
      BY <1>2, <2>1, <2>2, <2>3, <2>11
    <3> HIDE DEF e
    <3>7. ScanAt(d, p, q + 1, e)
      BY <1>2, <3>2, <3>4, <3>5, <3>6 DEF ScanAt, a, n
    <3> QED  BY <3>1, <3>7
  <2>12. CASE ~p[q + 1] /\ (i > Len(d) \/ d[i])
    <3>1. Advance(d, i, p[q + 1]) = i
      <4>1. CASE i > Len(d)  BY <4>1 DEF Advance
      <4>2. CASE i <= Len(d) /\ d[i]
        <5>1. i \in 1..Len(d) /\ ~(i = 0 \/ i > Len(d))  BY <2>1, <2>2, <4>2
        <5>2. d[i] # p[q + 1]
          <6>1. d[i] = TRUE  BY <2>1, <4>2, <5>1, Zenon
          <6>2. p[q + 1] = FALSE  BY <2>1, <2>2, <2>12, Zenon
          <6> QED  BY <6>1, <6>2, Zenon
        <5> QED  BY <2>12, <5>1, <5>2, Zenon DEF Advance
      <4> QED  BY <2>1, <2>2, <2>12, <4>1, <4>2
    <3>2. BansTo(d, n, x) = a
      <4>1. CASE i > Len(d)  BY <2>4, <2>6, <4>1
      <4>2. CASE i <= Len(d) /\ d[i]  BY <2>1, <2>2, <2>4, <4>2
      <4> QED  BY <2>1, <2>2, <2>12, <4>1, <4>2
    <3>3. BansTo(p, n, q + 1) = b + 1 /\ PicksUpTo(p, q + 1) = n  BY <2>3, <2>12
    <3>4. BansTo(d, n, x) = Lesser(a, BansTo(p, n, q + 1))  BY <2>3, <2>4, <2>5, <3>2, <3>3 DEF Lesser
    <3>5. i <= (q + 1) + 1  BY <1>2, <2>1, <2>2
    <3>6. ScanAt(d, p, q + 1, i)
      BY <1>2, <3>3, <3>4, <3>5 DEF ScanAt, a, n, x
    <3> QED  BY <3>1, <3>6
  <2>13. (i <= Len(d)) \/ i > Len(d)  BY <2>1, <2>2
  <2> QED  BY <2>8, <2>9, <2>10, <2>11, <2>12, <2>13
<1> QED  BY <1>1, <1>2 DEF ScanAt

Scans(d, p, f, m) == f = [q \in 0..m |-> IF q = 0 THEN 1 ELSE Advance(d, f[q - 1], p[q])]

LEMMA ScanExists ==
    ASSUME NEW d, NEW p, NEW m \in Nat
    PROVE  \E f : Scans(d, p, f, m)
<1> DEFINE Bad == {n \in Nat : ~ \E f : Scans(d, p, f, n)}
<1> SUFFICES ASSUME Bad # {}  PROVE FALSE
  OBVIOUS
<1>1. PICK n \in Bad : \A y \in Bad : n <= y
  <2>1. Bad \in SUBSET Nat  OBVIOUS
  <2> HIDE DEF Bad
  <2> QED  BY <2>1, LeastOfNats
<1>2. n # 0
  <2> SUFFICES ASSUME n = 0  PROVE FALSE
    OBVIOUS
  <2>1. [q \in 0..0 |-> 1] =
           [q \in 0..0 |-> IF q = 0 THEN 1 ELSE Advance(d, [y \in 0..0 |-> 1][q - 1], p[q])]
    OBVIOUS
  <2> QED  BY <1>1, <2>1 DEF Scans
<1>3. n \in Nat /\ n - 1 \in Nat /\ n - 1 \notin Bad  BY <1>1, <1>2
<1>4. PICK f : Scans(d, p, f, n - 1)  BY <1>3
<1> DEFINE g == [q \in 0..n |-> IF q = n THEN Advance(d, f[n - 1], p[n]) ELSE f[q]]
<1>5. ASSUME NEW q \in 0..n
      PROVE  g[q] = IF q = 0 THEN 1 ELSE Advance(d, g[q - 1], p[q])
  <2>1. CASE q = n
    <3>1. g[q - 1] = f[n - 1] /\ g[q] = Advance(d, f[n - 1], p[n])  BY <1>3, <2>1
    <3> QED  BY <1>2, <2>1, <3>1
  <2>2. CASE q = 0  BY <1>2, <1>3, <1>4, <2>2 DEF Scans
  <2>3. CASE q # n /\ q # 0
    <3>1. q \in 0..(n - 1) /\ q - 1 \in 0..(n - 1) /\ q - 1 # n /\ q - 1 \in 0..n  BY <1>3, <2>3
    <3>2. g[q] = f[q] /\ g[q - 1] = f[q - 1]  BY <2>3, <3>1
    <3>3. f[q] = IF q = 0 THEN 1 ELSE Advance(d, f[q - 1], p[q])  BY <1>4, <3>1 DEF Scans
    <3> QED  BY <3>2, <3>3
  <2> QED  BY <2>1, <2>2, <2>3
<1>6. Scans(d, p, g, n)  BY <1>5 DEF Scans
<1> QED  BY <1>1, <1>6

LEMMA ScanStarts ==
    ASSUME NEW d \in Seq(BOOLEAN), NEW p \in Seq(BOOLEAN)
    PROVE  ScanAt(d, p, 0, 1)
<1>1. Len(d) \in Nat  BY DraftTyped
<1>2. PicksUpTo(p, 0) = 0 /\ PicksUpTo(d, 0) = 0  BY PickCountNext
<1>3. BansTo(d, 0, 0) = 0 /\ BansTo(p, 0, 0) = 0  BY BanCountNext
<1>4. 0 \in 0..Len(d)  BY <1>1
<1>5. BanRun(d, 0) \in Nat  BY <1>2, <1>4, RunAt
<1>6. 0 = Lesser(BanRun(d, 0), 0)  BY <1>5 DEF Lesser
<1>7. 1 \in 1..Len(d) + 1 /\ 1 <= 0 + 1 /\ 1 - 1 = 0 /\ 0..0 - 1 = {}  BY <1>1
<1> QED  BY <1>2, <1>3, <1>6, <1>7 DEF ScanAt

LEMMA ScanResult ==
    ASSUME NEW d \in Seq(BOOLEAN), NEW p \in Seq(BOOLEAN), CountOf(TRUE, d) = CountOf(TRUE, p)
    PROVE  ScanAt(d, p, Len(p), Scan(d, p))
<1> DEFINE last == Len(p)
           f == CHOOSE g : Scans(d, p, g, last)
<1>1. last \in Nat  BY DraftTyped
<1>2. Scans(d, p, f, last)
  <2>1. \E g : Scans(d, p, g, last)  BY <1>1, ScanExists
  <2> QED  BY <2>1
<1>3. Scan(d, p) = f[last]
  <2>1. f = CHOOSE g : g = [q \in 0..Len(p) |-> IF q = 0 THEN 1 ELSE Advance(d, g[q - 1], p[q])]
    BY DEF Scans
  <2> QED  BY <2>1 DEF Scan
<1> HIDE DEF f
<1> DEFINE Bad == {n \in 0..last : ~ScanAt(d, p, n, f[n])}
<1>4. Bad = {}
  <2> SUFFICES ASSUME Bad # {}  PROVE FALSE
    OBVIOUS
  <2>1. Bad \in SUBSET Nat  OBVIOUS
  <2>2. PICK n \in Bad : \A y \in Bad : n <= y
    <3> HIDE DEF Bad
    <3> QED  BY <2>1, LeastOfNats
  <2>3. CASE n = 0
    <3>1. f[0] = 1  BY <1>1, <1>2 DEF Scans
    <3> QED  BY <2>2, <2>3, <3>1, ScanStarts
  <2>4. CASE n # 0
    <3> DEFINE m == n - 1
    <3>1. m \in 0..last /\ m < last /\ m \notin Bad /\ m + 1 = n  BY <1>1, <2>2, <2>4
    <3>2. ScanAt(d, p, m, f[m])  BY <3>1
    <3>3. f[n] = Advance(d, f[m], p[m + 1])  BY <1>1, <1>2, <2>2, <2>4, <3>1 DEF Scans
    <3> HIDE DEF m
    <3>4. ScanAt(d, p, m + 1, Advance(d, f[m], p[m + 1]))  BY <3>1, <3>2, ScanMoves
    <3> QED  BY <2>2, <3>1, <3>3, <3>4
  <2> QED  BY <2>3, <2>4
<1> QED  BY <1>1, <1>3, <1>4

LEMMA ScanExact ==
    ASSUME NEW d \in Seq(BOOLEAN), NEW p \in Seq(BOOLEAN), CountOf(TRUE, d) = CountOf(TRUE, p),
           d # <<>>
    PROVE  /\ IsSubsequenceRemovesOnlyBans(d, p) <=> WithoutSomeBans(d, p)
           /\ IsSubsequenceRemovesOnlyBans(d, p) => Len(d) <= Len(p)
<1> DEFINE s == Scan(d, p)
           c == CountOf(TRUE, d)
           x == s - 1
           a == BanRun(d, c)
           b == BanRun(p, c)
<1>1. ScanAt(d, p, Len(p), s)  BY ScanResult
<1>2. IsSubsequenceRemovesOnlyBans(d, p) <=> s = Len(d) + 1  BY DEF IsSubsequenceRemovesOnlyBans
<1>3. WithoutSomeBans(d, p) <=> \A j \in 0..c : BanRun(d, j) <= BanRun(p, j)  BY DEF WithoutSomeBans
<1>4. c = PicksUpTo(d, Len(d)) /\ c = PicksUpTo(p, Len(p))  BY CountIsUpTo
<1>5. Len(d) \in Nat /\ Len(p) \in Nat /\ Len(p) \in 0..Len(p) /\ Len(d) \in 0..Len(d)  BY DraftTyped
<1> HIDE DEF s, c
<1>6. c \in Nat /\ BansTo(p, c, Len(p)) = b /\ b \in Nat  BY <1>4, <1>5, RunAt
<1>7. \A j \in 0..c : BanRun(d, j) \in Nat /\ BanRun(p, j) \in Nat
  <2> TAKE j \in 0..c
  <2>1. BanRun(d, j) = BansTo(d, j, Len(d)) /\ BanRun(p, j) = BansTo(p, j, Len(p))  BY RunIsBansTo
  <2> QED  BY <1>5, <2>1, BanCountNext
<1>8. CASE s = 0 /\ \E j \in 0..c : BanRun(d, j) > BanRun(p, j)
  <2>1. s # Len(d) + 1  BY <1>5, <1>8
  <2>2. PICK j \in 0..c : BanRun(d, j) > BanRun(p, j)  BY <1>8
  <2>3. ~(BanRun(d, j) <= BanRun(p, j))  BY <1>7, <2>2
  <2> QED  BY <1>2, <1>3, <2>1, <2>2, <2>3
<1>9. CASE /\ s \in 1..Len(d) + 1 /\ s <= Len(p) + 1
           /\ PicksUpTo(d, s - 1) = c
           /\ BansTo(d, c, s - 1) = Lesser(BanRun(d, c), BansTo(p, c, Len(p)))
           /\ \A j \in 0..c - 1 : BanRun(d, j) <= BanRun(p, j)
  <2>1. x \in 0..Len(d) /\ x + 1 = s /\ x \in Nat  BY <1>5, <1>9
  <2>2. /\ BansTo(d, c, x) \in Nat /\ a \in Nat
        /\ x = Len(d) => BansTo(d, c, x) = a
        /\ x < Len(d) /\ d[x + 1] => PicksUpTo(d, x + 1) = c + 1
        /\ x < Len(d) /\ ~d[x + 1] =>
              BansTo(d, c, x + 1) = BansTo(d, c, x) + 1 /\ BansTo(d, c, x + 1) <= a
    BY <1>9, <2>1, RunAt
  <2>3. BansTo(d, c, x) = Lesser(a, b)  BY <1>6, <1>9
  <2>4. CASE s = Len(d) + 1
    <3>1. a <= b  BY <1>5, <1>6, <2>1, <2>2, <2>3, <2>4 DEF Lesser
    <3>2. \A j \in 0..c : j \in 0..c - 1 \/ j = c  BY <1>6
    <3>3. \A j \in 0..c : BanRun(d, j) <= BanRun(p, j)  BY <1>9, <3>1, <3>2
    <3>4. Len(d) <= Len(p)  BY <1>5, <1>9, <2>4
    <3> QED  BY <1>2, <1>3, <2>4, <3>3, <3>4
  <2>5. CASE s # Len(d) + 1
    <3>1. x < Len(d) /\ x + 1 \in Nat /\ x + 1 <= Len(d)  BY <1>5, <1>9, <2>1, <2>5
    <3>2. ~d[x + 1]
      <4> SUFFICES ASSUME d[x + 1]  PROVE FALSE
        OBVIOUS
      <4>1. PicksUpTo(d, x + 1) = c + 1  BY <2>2, <3>1, Zenon
      <4>2. PicksUpTo(d, x + 1) <= PicksUpTo(d, Len(d))  BY <1>5, <3>1, PickCountGrows
      <4> HIDE DEF x
      <4> QED  BY <1>4, <1>6, <4>1, <4>2
    <3>3. BansTo(d, c, x) + 1 <= a  BY <2>2, <3>1, <3>2
    <3> HIDE DEF x, a, b
    <3>4. ~(a <= b)  BY <1>6, <2>2, <2>3, <3>3 DEF Lesser
    <3>5. c \in 0..c  BY <1>6
    <3>6. ~ \A j \in 0..c : BanRun(d, j) <= BanRun(p, j)  BY <3>4, <3>5 DEF a, b
    <3> QED  BY <1>2, <1>3, <2>5, <3>6
  <2> QED  BY <2>4, <2>5
<1>10. \/ s = 0 /\ \E j \in 0..c : BanRun(d, j) > BanRun(p, j)
       \/ /\ s \in 1..Len(d) + 1 /\ s <= Len(p) + 1
          /\ PicksUpTo(d, s - 1) = c
          /\ BansTo(d, c, s - 1) = Lesser(BanRun(d, c), BansTo(p, c, Len(p)))
          /\ \A j \in 0..c - 1 : BanRun(d, j) <= BanRun(p, j)
  BY <1>1, <1>4 DEF ScanAt, c
<1> QED  BY <1>8, <1>9, <1>10

(* The flags of the entries of a pattern, and how many of them are picks.  *)
LEMMA RunOfFlags ==
    ASSUME NEW n \in Nat, NEW flag \in BOOLEAN
    PROVE  /\ Times(n, flag) \in Seq(BOOLEAN) /\ Len(Times(n, flag)) = n
           /\ CountOf(TRUE, Times(n, flag)) = (IF flag THEN n ELSE 0)
           /\ \A i \in 1..n : Times(n, flag)[i] = flag
<1> DEFINE t == Times(n, flag)
<1>1. /\ t \in Seq(BOOLEAN) /\ Len(t) = n /\ DOMAIN t = 1..n
      /\ \A i \in 1..n : t[i] = flag
  BY DEF Times
<1> HIDE DEF t
<1>2. CASE flag
  <2>1. {i \in DOMAIN t : t[i] = TRUE} = 1..n  BY <1>1, <1>2
  <2>2. Cardinality(1..n) = n
    <3>1. 1 \in Int /\ n \in Int  OBVIOUS
    <3>2. Cardinality(1..n) = IF 1 > n THEN 0 ELSE n - 1 + 1  BY <3>1, FS_Interval
    <3> QED  BY <3>2
  <2> QED  BY <1>1, <1>2, <2>1, <2>2 DEF CountOf, t
<1>3. CASE ~flag
  <2>1. {i \in DOMAIN t : t[i] = TRUE} = {}  BY <1>1, <1>3
  <2> QED  BY <1>1, <1>3, <2>1, FS_EmptySet DEF CountOf, t
<1> QED  BY <1>2, <1>3

LEMMA RunAppended ==
    ASSUME NEW s \in Seq(BOOLEAN), NEW n \in Nat, NEW flag \in BOOLEAN
    PROVE  /\ s \o Times(n, flag) \in Seq(BOOLEAN) /\ Len(s \o Times(n, flag)) = Len(s) + n
           /\ CountOf(TRUE, s \o Times(n, flag)) = CountOf(TRUE, s) + (IF flag THEN n ELSE 0)
           /\ \A i \in 1..Len(s) : (s \o Times(n, flag))[i] = s[i]
           /\ \A i \in Len(s) + 1..Len(s) + n : (s \o Times(n, flag))[i] = flag
<1> DEFINE t == Times(n, flag)
           r == s \o t
           A == {i \in DOMAIN s : s[i] = TRUE}
           C == {i \in DOMAIN r : r[i] = TRUE}
           a == Len(s) + 1
           b == Len(s) + n
<1>1. t \in Seq(BOOLEAN) /\ Len(t) = n /\ \A i \in 1..n : t[i] = flag  BY RunOfFlags
<1>2. Len(s) \in Nat /\ DOMAIN s = 1..Len(s)  BY DraftTyped
<1> HIDE DEF t
<1>3. /\ r \in Seq(BOOLEAN) /\ Len(r) = Len(s) + n /\ DOMAIN r = 1..b
      /\ \A i \in 1..Len(s) : r[i] = s[i]
  BY <1>1, <1>2
<1>4. ASSUME NEW i \in a..b  PROVE r[i] = flag
  <2>1. i - Len(s) \in 1..n /\ i \in 1..Len(s) + Len(t) /\ i > Len(s)  BY <1>1, <1>2
  <2>2. r[i] = t[i - Len(s)]  BY <1>1, <1>2, <2>1
  <2> QED  BY <1>1, <2>1, <2>2
<1> HIDE DEF r
<1>5. IsFiniteSet(A) /\ A \in SUBSET (1..Len(s))
  <2>1. A \in SUBSET (1..Len(s))  BY <1>2
  <2>2. 1 \in Int /\ Len(s) \in Int  BY <1>2
  <2>3. IsFiniteSet(1..Len(s))  BY <2>2, FS_Interval
  <2> QED  BY <2>1, <2>3, FS_Subset
<1>6. IsFiniteSet(a..b) /\ Cardinality(a..b) = n /\ A \cap (a..b) = {}
  <2>1. a \in Int /\ b \in Int /\ (IF a > b THEN 0 ELSE b - a + 1) = n  BY <1>2
  <2>2. A \cap (a..b) = {}  BY <1>2, <1>5
  <2> HIDE DEF a, b
  <2> QED  BY <2>1, <2>2, FS_Interval
<1>7. \A i : i \in 1..b <=> i \in 1..Len(s) \/ i \in a..b  BY <1>2
<1>8. CASE flag
  <2>1. C = A \cup (a..b)  BY <1>2, <1>3, <1>4, <1>7, <1>8
  <2> HIDE DEF A, C, a, b
  <2>2. Cardinality(C) = Cardinality(A) + Cardinality(a..b) - Cardinality(A \cap (a..b))
    BY <1>5, <1>6, <2>1, FS_Union
  <2>3. Cardinality(A) \in Nat  BY <1>5, FS_CardinalityType
  <2>4. Cardinality(C) = Cardinality(A) + n
    <3>1. Cardinality(A \cap (a..b)) = 0  BY <1>6, FS_EmptySet
    <3> QED  BY <1>6, <2>2, <2>3, <3>1
  <2> QED  BY <1>3, <1>4, <1>8, <2>4 DEF CountOf, A, C, a, b, r, t
<1>9. CASE ~flag
  <2>1. C = A  BY <1>2, <1>3, <1>4, <1>7, <1>9
  <2> HIDE DEF A, C, a, b
  <2>2. Cardinality(A) \in Nat  BY <1>5, FS_CardinalityType
  <2>3. Cardinality(C) = Cardinality(A) + 0  BY <2>1, <2>2
  <2> QED  BY <1>3, <1>4, <1>9, <2>3 DEF CountOf, A, C, a, b, r, t
<1> QED  BY <1>8, <1>9

(* s has m entries, c of them picks.                                       *)
Shape(s, m, c) == s \in Seq(BOOLEAN) /\ Len(s) = m /\ CountOf(TRUE, s) = c

LEMMA PicksAppended ==
    ASSUME NEW s, NEW m \in Nat, NEW c \in Nat, NEW n \in Nat, Shape(s, m, c)
    PROVE  /\ Shape(s \o Picks(n), m + n, c + n)
           /\ \A i \in 1..m : (s \o Picks(n))[i] <=> s[i]
           /\ \A i \in m + 1..m + n : (s \o Picks(n))[i]
<1> DEFINE r == s \o Times(n, TRUE)
<1>0. s \in Seq(BOOLEAN) /\ Len(s) = m /\ CountOf(TRUE, s) = c  BY DEF Shape
<1>1. /\ r \in Seq(BOOLEAN) /\ Len(r) = Len(s) + n
      /\ CountOf(TRUE, r) = CountOf(TRUE, s) + (IF TRUE THEN n ELSE 0)
      /\ \A i \in 1..Len(s) : r[i] = s[i]
      /\ \A i \in Len(s) + 1..Len(s) + n : r[i] = TRUE
  <2>1. TRUE \in BOOLEAN  OBVIOUS
  <2> QED  BY <1>0, <2>1, RunAppended, Zenon
<1>2. s \o Picks(n) = r  BY DEF Picks
<1> HIDE DEF r
<1>3. (IF TRUE THEN n ELSE 0) = n  OBVIOUS
<1>4. Shape(r, m + n, c + n)  BY <1>0, <1>1, <1>3, Zenon DEF Shape
<1>5. \A i \in 1..m : r[i] <=> s[i]  BY <1>0, <1>1, Zenon
<1>6. \A i \in m + 1..m + n : r[i]  BY <1>0, <1>1, Zenon
<1> QED  BY <1>2, <1>4, <1>5, <1>6, Zenon

LEMMA BansAppended ==
    ASSUME NEW s, NEW m \in Nat, NEW c \in Nat, NEW n \in Nat, Shape(s, m, c)
    PROVE  /\ Shape(s \o Bans(n), m + n, c + 0)
           /\ \A i \in 1..m : (s \o Bans(n))[i] <=> s[i]
           /\ \A i \in m + 1..m + n : ~(s \o Bans(n))[i]
<1> DEFINE r == s \o Times(n, FALSE)
<1>0. s \in Seq(BOOLEAN) /\ Len(s) = m /\ CountOf(TRUE, s) = c  BY DEF Shape
<1>1. /\ r \in Seq(BOOLEAN) /\ Len(r) = Len(s) + n
      /\ CountOf(TRUE, r) = CountOf(TRUE, s) + (IF FALSE THEN n ELSE 0)
      /\ \A i \in 1..Len(s) : r[i] = s[i]
      /\ \A i \in Len(s) + 1..Len(s) + n : r[i] = FALSE
  <2>1. FALSE \in BOOLEAN  OBVIOUS
  <2> QED  BY <1>0, <2>1, RunAppended, Zenon
<1>2. s \o Bans(n) = r  BY DEF Bans
<1> HIDE DEF r
<1>3. (IF FALSE THEN n ELSE 0) = 0  OBVIOUS
<1>4. Shape(r, m + n, c + 0)  BY <1>0, <1>1, <1>3, Zenon DEF Shape
<1>5. \A i \in 1..m : r[i] <=> s[i]  BY <1>0, <1>1, Zenon
<1>6. \A i \in m + 1..m + n : ~r[i]  BY <1>0, <1>1, Zenon
<1> QED  BY <1>2, <1>4, <1>5, <1>6, Zenon

LEMMA FirstBans ==
    ASSUME NEW n \in Nat
    PROVE  Shape(Bans(n), n, 0) /\ \A i \in 1..n : ~Bans(n)[i]
<1>1. /\ Times(n, FALSE) \in Seq(BOOLEAN) /\ Len(Times(n, FALSE)) = n
      /\ CountOf(TRUE, Times(n, FALSE)) = (IF FALSE THEN n ELSE 0)
      /\ \A i \in 1..n : Times(n, FALSE)[i] = FALSE
  <2>1. FALSE \in BOOLEAN  OBVIOUS
  <2> QED  BY <2>1, RunOfFlags, Zenon
<1>2. \A i \in 1..n : ~Times(n, FALSE)[i]  BY <1>1, Zenon
<1>3. (IF FALSE THEN n ELSE 0) = 0  OBVIOUS
<1> QED  BY <1>1, <1>2, <1>3, Zenon DEF Bans, Shape

(* A pattern with a run of picks or of bans at its end.                    *)
LEMMA PicksAtEnd ==
    ASSUME NEW s, NEW r, NEW m \in Nat, NEW c \in Nat, NEW n \in Nat, NEW m1, NEW c1,
           Shape(s, m, c), r = s \o Picks(n), m1 = m + n, c1 = c + n
    PROVE  /\ Shape(r, m1, c1)
           /\ \A i \in 1..m1 : r[i] <=> (i > m \/ s[i])
<1>1. /\ Shape(r, m1, c1)
      /\ \A i \in 1..m : r[i] <=> s[i]
      /\ \A i \in m + 1..m + n : r[i]
  BY PicksAppended, Zenon
<1>2. \A i \in 1..m1 : (i \in 1..m /\ ~(i > m)) \/ (i \in m + 1..m + n /\ i > m)  OBVIOUS
<1> QED  BY <1>1, <1>2, Zenon

LEMMA BansAtEnd ==
    ASSUME NEW s, NEW r, NEW m \in Nat, NEW c \in Nat, NEW n \in Nat, NEW m1,
           Shape(s, m, c), r = s \o Bans(n), m1 = m + n
    PROVE  /\ Shape(r, m1, c)
           /\ \A i \in 1..m1 : r[i] <=> (i <= m /\ s[i])
<1>0. c + 0 = c  OBVIOUS
<1>1. /\ Shape(r, m1, c)
      /\ \A i \in 1..m : r[i] <=> s[i]
      /\ \A i \in m + 1..m + n : ~r[i]
  <2>1. /\ Shape(s \o Bans(n), m + n, c + 0)
        /\ \A i \in 1..m : (s \o Bans(n))[i] <=> s[i]
        /\ \A i \in m + 1..m + n : ~(s \o Bans(n))[i]
    BY BansAppended, Zenon
  <2>2. Shape(r, m1, c)  BY <1>0, <2>1
  <2> QED  BY <2>1, <2>2, Zenon
<1>2. \A i \in 1..m1 : (i \in 1..m /\ i <= m) \/ (i \in m + 1..m + n /\ ~(i <= m))  OBVIOUS
<1> QED  BY <1>1, <1>2, Zenon

LEMMA PatternFrom733 ==
    /\ Shape(CmDraftPatterns["from_7_33"], 24, 10)
    /\ \A i \in 1..24 : CmDraftPatterns["from_7_33"][i] <=> i \in {8, 9, 23, 24} \cup (13..18)
<1> DEFINE p1 == Bans(7)
           p2 == p1 \o Picks(2)
           p3 == p2 \o Bans(3)
           p4 == p3 \o Picks(6)
           p5 == p4 \o Bans(4)
           p6 == p5 \o Picks(2)
<1>0. CmDraftPatterns["from_7_33"] = p6  BY DEF CmDraftPatterns
<1>x2. p2 = p1 \o Picks(2)  OBVIOUS
<1>x3. p3 = p2 \o Bans(3)  OBVIOUS
<1>x4. p4 = p3 \o Picks(6)  OBVIOUS
<1>x5. p5 = p4 \o Bans(4)  OBVIOUS
<1>x6. p6 = p5 \o Picks(2)  OBVIOUS
<1>1. Shape(p1, 7, 0) /\ \A i \in 1..7 : ~p1[i]  BY FirstBans
<1> HIDE DEF p1, p2, p3, p4, p5, p6
<1>2. Shape(p2, 9, 2) /\ \A i \in 1..9 : p2[i] <=> (i > 7 \/ p1[i])
  <2> DEFINE m == 7
             c == 0
             n == 2
             m1 == 9
             c1 == 2
  <2>1. m \in Nat /\ c \in Nat /\ n \in Nat /\ m1 = m + n /\ c1 = c + n  OBVIOUS
  <2>2. Shape(p1, m, c) /\ p2 = p1 \o Picks(n)  BY <1>1, <1>x2
  <2> HIDE DEF m, c, n, m1, c1
  <2>3. Shape(p2, m1, c1) /\ \A i \in 1..m1 : p2[i] <=> (i > m \/ p1[i])
    BY <2>1, <2>2, PicksAtEnd, Zenon
  <2> QED  BY <2>3 DEF m, c, m1, c1
<1>3. Shape(p3, 12, 2) /\ \A i \in 1..12 : p3[i] <=> (i <= 9 /\ p2[i])
  <2> DEFINE m == 9
             c == 2
             n == 3
             m1 == 12
  <2>1. m \in Nat /\ c \in Nat /\ n \in Nat /\ m1 = m + n  OBVIOUS
  <2>2. Shape(p2, m, c) /\ p3 = p2 \o Bans(n)  BY <1>2, <1>x3
  <2> HIDE DEF m, c, n, m1
  <2>3. Shape(p3, m1, c) /\ \A i \in 1..m1 : p3[i] <=> (i <= m /\ p2[i])
    BY <2>1, <2>2, BansAtEnd, Zenon
  <2> QED  BY <2>3 DEF m, c, m1
<1>4. Shape(p4, 18, 8) /\ \A i \in 1..18 : p4[i] <=> (i > 12 \/ p3[i])
  <2> DEFINE m == 12
             c == 2
             n == 6
             m1 == 18
             c1 == 8
  <2>1. m \in Nat /\ c \in Nat /\ n \in Nat /\ m1 = m + n /\ c1 = c + n  OBVIOUS
  <2>2. Shape(p3, m, c) /\ p4 = p3 \o Picks(n)  BY <1>3, <1>x4
  <2> HIDE DEF m, c, n, m1, c1
  <2>3. Shape(p4, m1, c1) /\ \A i \in 1..m1 : p4[i] <=> (i > m \/ p3[i])
    BY <2>1, <2>2, PicksAtEnd, Zenon
  <2> QED  BY <2>3 DEF m, c, m1, c1
<1>5. Shape(p5, 22, 8) /\ \A i \in 1..22 : p5[i] <=> (i <= 18 /\ p4[i])
  <2> DEFINE m == 18
             c == 8
             n == 4
             m1 == 22
  <2>1. m \in Nat /\ c \in Nat /\ n \in Nat /\ m1 = m + n  OBVIOUS
  <2>2. Shape(p4, m, c) /\ p5 = p4 \o Bans(n)  BY <1>4, <1>x5
  <2> HIDE DEF m, c, n, m1
  <2>3. Shape(p5, m1, c) /\ \A i \in 1..m1 : p5[i] <=> (i <= m /\ p4[i])
    BY <2>1, <2>2, BansAtEnd, Zenon
  <2> QED  BY <2>3 DEF m, c, m1
<1>6. Shape(p6, 24, 10) /\ \A i \in 1..24 : p6[i] <=> (i > 22 \/ p5[i])
  <2> DEFINE m == 22
             c == 8
             n == 2
             m1 == 24
             c1 == 10
  <2>1. m \in Nat /\ c \in Nat /\ n \in Nat /\ m1 = m + n /\ c1 = c + n  OBVIOUS
  <2>2. Shape(p5, m, c) /\ p6 = p5 \o Picks(n)  BY <1>5, <1>x6
  <2> HIDE DEF m, c, n, m1, c1
  <2>3. Shape(p6, m1, c1) /\ \A i \in 1..m1 : p6[i] <=> (i > m \/ p5[i])
    BY <2>1, <2>2, PicksAtEnd, Zenon
  <2> QED  BY <2>3 DEF m, c, m1, c1
<1>7. \A i \in 1..24 : p6[i] <=> i \in {8, 9, 23, 24} \cup (13..18)
  BY <1>1, <1>2, <1>3, <1>4, <1>5, <1>6
<1> QED  BY <1>0, <1>6, <1>7

LEMMA PatternFrom730 ==
    /\ Shape(CmDraftPatterns["from_7_30"], 24, 10)
<1> DEFINE p1 == Bans(4)
           p2 == p1 \o Picks(4)
           p3 == p2 \o Bans(6)
           p4 == p3 \o Picks(4)
           p5 == p4 \o Bans(4)
           p6 == p5 \o Picks(2)
<1>0. CmDraftPatterns["from_7_30"] = p6  BY DEF CmDraftPatterns
<1>x2. p2 = p1 \o Picks(4)  OBVIOUS
<1>x3. p3 = p2 \o Bans(6)  OBVIOUS
<1>x4. p4 = p3 \o Picks(4)  OBVIOUS
<1>x5. p5 = p4 \o Bans(4)  OBVIOUS
<1>x6. p6 = p5 \o Picks(2)  OBVIOUS
<1>1. Shape(p1, 4, 0) /\ \A i \in 1..4 : ~p1[i]  BY FirstBans
<1> HIDE DEF p1, p2, p3, p4, p5, p6
<1>2. Shape(p2, 8, 4) /\ \A i \in 1..8 : p2[i] <=> (i > 4 \/ p1[i])
  <2> DEFINE m == 4
             c == 0
             n == 4
             m1 == 8
             c1 == 4
  <2>1. m \in Nat /\ c \in Nat /\ n \in Nat /\ m1 = m + n /\ c1 = c + n  OBVIOUS
  <2>2. Shape(p1, m, c) /\ p2 = p1 \o Picks(n)  BY <1>1, <1>x2
  <2> HIDE DEF m, c, n, m1, c1
  <2>3. Shape(p2, m1, c1) /\ \A i \in 1..m1 : p2[i] <=> (i > m \/ p1[i])
    BY <2>1, <2>2, PicksAtEnd, Zenon
  <2> QED  BY <2>3 DEF m, c, m1, c1
<1>3. Shape(p3, 14, 4) /\ \A i \in 1..14 : p3[i] <=> (i <= 8 /\ p2[i])
  <2> DEFINE m == 8
             c == 4
             n == 6
             m1 == 14
  <2>1. m \in Nat /\ c \in Nat /\ n \in Nat /\ m1 = m + n  OBVIOUS
  <2>2. Shape(p2, m, c) /\ p3 = p2 \o Bans(n)  BY <1>2, <1>x3
  <2> HIDE DEF m, c, n, m1
  <2>3. Shape(p3, m1, c) /\ \A i \in 1..m1 : p3[i] <=> (i <= m /\ p2[i])
    BY <2>1, <2>2, BansAtEnd, Zenon
  <2> QED  BY <2>3 DEF m, c, m1
<1>4. Shape(p4, 18, 8) /\ \A i \in 1..18 : p4[i] <=> (i > 14 \/ p3[i])
  <2> DEFINE m == 14
             c == 4
             n == 4
             m1 == 18
             c1 == 8
  <2>1. m \in Nat /\ c \in Nat /\ n \in Nat /\ m1 = m + n /\ c1 = c + n  OBVIOUS
  <2>2. Shape(p3, m, c) /\ p4 = p3 \o Picks(n)  BY <1>3, <1>x4
  <2> HIDE DEF m, c, n, m1, c1
  <2>3. Shape(p4, m1, c1) /\ \A i \in 1..m1 : p4[i] <=> (i > m \/ p3[i])
    BY <2>1, <2>2, PicksAtEnd, Zenon
  <2> QED  BY <2>3 DEF m, c, m1, c1
<1>5. Shape(p5, 22, 8) /\ \A i \in 1..22 : p5[i] <=> (i <= 18 /\ p4[i])
  <2> DEFINE m == 18
             c == 8
             n == 4
             m1 == 22
  <2>1. m \in Nat /\ c \in Nat /\ n \in Nat /\ m1 = m + n  OBVIOUS
  <2>2. Shape(p4, m, c) /\ p5 = p4 \o Bans(n)  BY <1>4, <1>x5
  <2> HIDE DEF m, c, n, m1
  <2>3. Shape(p5, m1, c) /\ \A i \in 1..m1 : p5[i] <=> (i <= m /\ p4[i])
    BY <2>1, <2>2, BansAtEnd, Zenon
  <2> QED  BY <2>3 DEF m, c, m1
<1>6. Shape(p6, 24, 10) /\ \A i \in 1..24 : p6[i] <=> (i > 22 \/ p5[i])
  <2> DEFINE m == 22
             c == 8
             n == 2
             m1 == 24
             c1 == 10
  <2>1. m \in Nat /\ c \in Nat /\ n \in Nat /\ m1 = m + n /\ c1 = c + n  OBVIOUS
  <2>2. Shape(p5, m, c) /\ p6 = p5 \o Picks(n)  BY <1>5, <1>x6
  <2> HIDE DEF m, c, n, m1, c1
  <2>3. Shape(p6, m1, c1) /\ \A i \in 1..m1 : p6[i] <=> (i > m \/ p5[i])
    BY <2>1, <2>2, PicksAtEnd, Zenon
  <2> QED  BY <2>3 DEF m, c, m1, c1
<1> QED  BY <1>0, <1>6

LEMMA PatternPre730 ==
    /\ Shape(CmDraftPatterns["pre_7_30"], 20, 10)
<1> DEFINE p1 == Bans(4)
           p2 == p1 \o Picks(6)
           p3 == p2 \o Bans(6)
           p4 == p3 \o Picks(4)
<1>0. CmDraftPatterns["pre_7_30"] = p4  BY DEF CmDraftPatterns
<1>x2. p2 = p1 \o Picks(6)  OBVIOUS
<1>x3. p3 = p2 \o Bans(6)  OBVIOUS
<1>x4. p4 = p3 \o Picks(4)  OBVIOUS
<1>1. Shape(p1, 4, 0) /\ \A i \in 1..4 : ~p1[i]  BY FirstBans
<1> HIDE DEF p1, p2, p3, p4
<1>2. Shape(p2, 10, 6) /\ \A i \in 1..10 : p2[i] <=> (i > 4 \/ p1[i])
  <2> DEFINE m == 4
             c == 0
             n == 6
             m1 == 10
             c1 == 6
  <2>1. m \in Nat /\ c \in Nat /\ n \in Nat /\ m1 = m + n /\ c1 = c + n  OBVIOUS
  <2>2. Shape(p1, m, c) /\ p2 = p1 \o Picks(n)  BY <1>1, <1>x2
  <2> HIDE DEF m, c, n, m1, c1
  <2>3. Shape(p2, m1, c1) /\ \A i \in 1..m1 : p2[i] <=> (i > m \/ p1[i])
    BY <2>1, <2>2, PicksAtEnd, Zenon
  <2> QED  BY <2>3 DEF m, c, m1, c1
<1>3. Shape(p3, 16, 6) /\ \A i \in 1..16 : p3[i] <=> (i <= 10 /\ p2[i])
  <2> DEFINE m == 10
             c == 6
             n == 6
             m1 == 16
  <2>1. m \in Nat /\ c \in Nat /\ n \in Nat /\ m1 = m + n  OBVIOUS
  <2>2. Shape(p2, m, c) /\ p3 = p2 \o Bans(n)  BY <1>2, <1>x3
  <2> HIDE DEF m, c, n, m1
  <2>3. Shape(p3, m1, c) /\ \A i \in 1..m1 : p3[i] <=> (i <= m /\ p2[i])
    BY <2>1, <2>2, BansAtEnd, Zenon
  <2> QED  BY <2>3 DEF m, c, m1
<1>4. Shape(p4, 20, 10) /\ \A i \in 1..20 : p4[i] <=> (i > 16 \/ p3[i])
  <2> DEFINE m == 16
             c == 6
             n == 4
             m1 == 20
             c1 == 10
  <2>1. m \in Nat /\ c \in Nat /\ n \in Nat /\ m1 = m + n /\ c1 = c + n  OBVIOUS
  <2>2. Shape(p3, m, c) /\ p4 = p3 \o Picks(n)  BY <1>3, <1>x4
  <2> HIDE DEF m, c, n, m1, c1
  <2>3. Shape(p4, m1, c1) /\ \A i \in 1..m1 : p4[i] <=> (i > m \/ p3[i])
    BY <2>1, <2>2, PicksAtEnd, Zenon
  <2> QED  BY <2>3 DEF m, c, m1, c1
<1> QED  BY <1>0, <1>4

LEMMA PatternsShaped ==
    /\ DOMAIN CmDraftPatterns = {"from_7_33", "from_7_30", "pre_7_30"}
    /\ Shape(CmDraftPatterns["from_7_33"], 24, 10) /\ Shape(CmDraftPatterns["from_7_30"], 24, 10)
    /\ Shape(CmDraftPatterns["pre_7_30"], 20, 10)
<1>1. DOMAIN CmDraftPatterns = {"from_7_33", "from_7_30", "pre_7_30"}  BY DEF CmDraftPatterns
<1> QED  BY <1>1, PatternFrom733, PatternFrom730, PatternPre730

LEMMA PatternTyped ==
    ASSUME NEW e \in DOMAIN CmDraftPatterns
    PROVE  /\ CmDraftPatterns[e] \in Seq(BOOLEAN) /\ CountOf(TRUE, CmDraftPatterns[e]) = 10
           /\ Len(CmDraftPatterns[e]) = (IF e = "pre_7_30" THEN 20 ELSE 24)
<1>1. /\ DOMAIN CmDraftPatterns = {"from_7_33", "from_7_30", "pre_7_30"}
      /\ Shape(CmDraftPatterns["from_7_33"], 24, 10) /\ Shape(CmDraftPatterns["from_7_30"], 24, 10)
      /\ Shape(CmDraftPatterns["pre_7_30"], 20, 10)
  BY PatternsShaped
<1>2. e = "from_7_33" \/ e = "from_7_30" \/ e = "pre_7_30"  BY <1>1
<1>3. "from_7_33" # "pre_7_30" /\ "from_7_30" # "pre_7_30"  OBVIOUS
<1>4. Shape(CmDraftPatterns[e], IF e = "pre_7_30" THEN 20 ELSE 24, 10)  BY <1>1, <1>2, <1>3
<1> QED  BY <1>4, Zenon DEF Shape

(* The scan against a pattern of ten picks.                                *)
LEMMA EraScan ==
    ASSUME NEW d \in Seq(BOOLEAN), d # <<>>, CountOf(TRUE, d) = 10, NEW e \in DOMAIN CmDraftPatterns
    PROVE  /\ IsSubsequenceRemovesOnlyBans(d, CmDraftPatterns[e]) <=> e \in ErasOf(d)
           /\ e \in ErasOf(d) => Len(d) <= Len(CmDraftPatterns[e])
<1> DEFINE p == CmDraftPatterns[e]
<1>1. p \in Seq(BOOLEAN) /\ CountOf(TRUE, d) = CountOf(TRUE, p)  BY PatternTyped
<1>2. e \in ErasOf(d) <=> WithoutSomeBans(d, p)  BY DEF ErasOf
<1> HIDE DEF p
<1>3. /\ IsSubsequenceRemovesOnlyBans(d, p) <=> WithoutSomeBans(d, p)
      /\ IsSubsequenceRemovesOnlyBans(d, p) => Len(d) <= Len(p)
  BY <1>1, ScanExact, Zenon
<1> QED  BY <1>2, <1>3 DEF p

LEMMA Counted10 ==
    ASSUME NEW d \in Seq(BOOLEAN), ErasOf(d) # {}
    PROVE  CountOf(TRUE, d) = 10
<1>1. PICK e \in DOMAIN CmDraftPatterns : WithoutSomeBans(d, CmDraftPatterns[e])  BY DEF ErasOf
<1>2. CountOf(TRUE, d) = CountOf(TRUE, CmDraftPatterns[e])  BY <1>1, Zenon DEF WithoutSomeBans
<1>3. CountOf(TRUE, CmDraftPatterns[e]) = 10  BY PatternTyped
<1> QED  BY <1>2, <1>3, Zenon

LEMMA ValidationIsExact ==
    ASSUME NEW d \in Seq(BOOLEAN)
    PROVE  ValidationExact(d)
<1>1. Len(d) \in 16..24 => d # <<>>
  <2> SUFFICES ASSUME d = <<>>  PROVE Len(d) \notin 16..24
    OBVIOUS
  <2>1. Len(d) = 0  OBVIOUS
  <2> QED  BY <2>1
<1>2. ASSUME ValidateDraft(d)  PROVE Len(d) \in 16..24 /\ ErasOf(d) # {}
  <2>1. Len(d) \in 16..24 /\ CountOf(TRUE, d) = 10 /\ MatchesAnyPatternAllowingDeclinedBans(d)
    BY <1>2, Zenon DEF ValidateDraft
  <2>2. PICK e \in DOMAIN CmDraftPatterns : IsSubsequenceRemovesOnlyBans(d, CmDraftPatterns[e])
    BY <2>1, Zenon DEF MatchesAnyPatternAllowingDeclinedBans
  <2>3. e \in ErasOf(d)  BY <1>1, <2>1, <2>2, EraScan, Zenon
  <2> QED  BY <2>1, <2>3, Zenon
<1>3. ASSUME Len(d) \in 16..24, ErasOf(d) # {}  PROVE ValidateDraft(d)
  <2>1. CountOf(TRUE, d) = 10  BY <1>3, Counted10, Zenon
  <2>2. PICK e \in DOMAIN CmDraftPatterns : e \in ErasOf(d)  BY <1>3 DEF ErasOf
  <2>3. IsSubsequenceRemovesOnlyBans(d, CmDraftPatterns[e])
    BY <1>1, <1>3, <2>1, <2>2, EraScan, Zenon
  <2>4. MatchesAnyPatternAllowingDeclinedBans(d)
    BY <2>3, Zenon DEF MatchesAnyPatternAllowingDeclinedBans
  <2> QED  BY <1>3, <2>1, <2>4, Zenon DEF ValidateDraft
<1> QED  BY <1>2, <1>3, Zenon DEF ValidationExact

LEMMA OwnEra ==
    ASSUME NEW e \in DOMAIN CmDraftPatterns
    PROVE  e \in ErasOf(CmDraftPatterns[e])
<1> DEFINE p == CmDraftPatterns[e]
<1>1. p \in Seq(BOOLEAN)  BY PatternTyped
<1> HIDE DEF p
<1>2. \A j : BanRun(p, j) <= BanRun(p, j)
  <2> TAKE j
  <2>1. BanRun(p, j) = BansTo(p, j, Len(p))  BY <1>1, RunIsBansTo
  <2>2. Len(p) \in Nat  BY <1>1, DraftTyped
  <2>3. BanRun(p, j) \in Nat  BY <2>1, <2>2, BanCountNext
  <2> QED  BY <2>3
<1>3. WithoutSomeBans(p, p)  BY <1>2, Zenon DEF WithoutSomeBans
<1> QED  BY <1>3 DEF ErasOf, p

LEMMA EraAlwaysFits ==
    ASSUME NEW d \in Seq(BOOLEAN)
    PROVE  EraFits(d)
<1> SUFFICES ASSUME ValidateDraft(d)
             PROVE  /\ DetectDraftEra(d) \in ErasOf(d)
                    /\ \A e \in ErasOf(d) :
                          Len(CmDraftPatterns[DetectDraftEra(d)]) <= Len(CmDraftPatterns[e])
  BY DEF EraFits
<1>1. Len(d) \in 16..24 /\ ErasOf(d) # {} /\ CountOf(TRUE, d) = 10
  <2>1. Len(d) \in 16..24 /\ ErasOf(d) # {}  BY ValidationIsExact, Zenon DEF ValidationExact
  <2> QED  BY <2>1, Counted10, Zenon
<1>2. d # <<>>
  <2> SUFFICES ASSUME d = <<>>  PROVE FALSE
    OBVIOUS
  <2>1. Len(d) = 0  OBVIOUS
  <2> QED  BY <1>1, <2>1
<1> DEFINE era(i) == OrderedEraPatterns[i]
           p(i) == CmDraftPatterns[era(i)]
           gap(i) == Len(p(i)) - Len(d)
           exact == {i \in 1..3 : d = p(i)}
           fits == {i \in 1..3 : IsSubsequenceRemovesOnlyBans(d, p(i)) /\ gap(i) <= Len(d)}
           best == {i \in fits : \A j \in fits : gap(i) < gap(j) \/ (gap(i) = gap(j) /\ i <= j)}
<1>3. DetectDraftEra(d) = IF exact # {} THEN era(CHOOSE i \in exact : TRUE)
                          ELSE IF best # {} THEN era(CHOOSE i \in best : TRUE)
                          ELSE "unknown"
  BY DEF DetectDraftEra
<1>4. /\ era(1) = "from_7_33" /\ era(2) = "from_7_30" /\ era(3) = "pre_7_30"
  BY DEF OrderedEraPatterns
<1>5. \A i \in 1..3 : era(i) \in DOMAIN CmDraftPatterns /\ Len(p(i)) = (IF i = 3 THEN 20 ELSE 24)
  <2>1. DOMAIN CmDraftPatterns = {"from_7_33", "from_7_30", "pre_7_30"}  BY PatternsShaped
  <2>2. \A i \in 1..3 : i = 1 \/ i = 2 \/ i = 3  OBVIOUS
  <2>3. "from_7_33" # "pre_7_30" /\ "from_7_30" # "pre_7_30"  OBVIOUS
  <2> HIDE DEF era
  <2>4. \A i \in 1..3 : era(i) \in DOMAIN CmDraftPatterns /\ (era(i) = "pre_7_30" <=> i = 3)
    BY <1>4, <2>1, <2>2, <2>3
  <2> QED  BY <2>4, PatternTyped
<1>6. \A e \in ErasOf(d) : \E i \in 1..3 : e = era(i)
  <2>1. \A e \in ErasOf(d) : e = "from_7_33" \/ e = "from_7_30" \/ e = "pre_7_30"
    BY PatternsShaped DEF ErasOf
  <2>2. 1 \in 1..3 /\ 2 \in 1..3 /\ 3 \in 1..3  OBVIOUS
  <2> HIDE DEF era
  <2> QED  BY <1>4, <2>1, <2>2
<1>7. \A i \in 1..3 : /\ IsSubsequenceRemovesOnlyBans(d, p(i)) <=> era(i) \in ErasOf(d)
                      /\ era(i) \in ErasOf(d) => Len(d) <= Len(p(i))
  <2> HIDE DEF era
  <2> QED  BY <1>1, <1>2, <1>5, EraScan, Zenon
<1> HIDE DEF era
<1>8. CASE exact # {}
  <2>1. PICK i \in exact : DetectDraftEra(d) = era(i)
    <3>1. (CHOOSE i \in exact : TRUE) \in exact  BY <1>8
    <3> HIDE DEF exact, best
    <3> QED  BY <1>3, <1>8, <3>1
  <2>2. i \in 1..3 /\ d = p(i)  OBVIOUS
  <2>3. era(i) \in ErasOf(d)  BY <1>5, <2>2, OwnEra
  <2>4. \A e \in ErasOf(d) : Len(CmDraftPatterns[era(i)]) <= Len(CmDraftPatterns[e])
    BY <1>6, <1>7, <2>2
  <2> QED  BY <2>1, <2>3, <2>4
<1>9. CASE exact = {}
  <2>1. \A i \in 1..3 : i \in fits <=> era(i) \in ErasOf(d)
    <3>1. \A i \in 1..3 : gap(i) <= Len(d)
      <4> TAKE i \in 1..3
      <4> DEFINE v == Len(p(i))
                 w == Len(d)
      <4>1. w \in 16..24  BY <1>1
      <4>2. v \in {20, 24}  BY <1>5
      <4> HIDE DEF v, w
      <4>3. v \in Int /\ w \in Int /\ v <= 24 /\ 16 <= w  BY <4>1, <4>2
      <4>4. v - w <= w  BY <4>3
      <4> QED  BY <4>4 DEF v, w
    <3> HIDE DEF p, gap
    <3> TAKE i \in 1..3
    <3>2. i \in fits <=> IsSubsequenceRemovesOnlyBans(d, p(i)) /\ gap(i) <= Len(d)  OBVIOUS
    <3>3. gap(i) <= Len(d)  BY <3>1
    <3>4. IsSubsequenceRemovesOnlyBans(d, p(i)) <=> era(i) \in ErasOf(d)  BY <1>7
    <3> HIDE DEF fits
    <3> QED  BY <3>2, <3>3, <3>4, Zenon
  <2>2. \E i \in 1..3 : i \in fits  BY <1>1, <1>6, <2>1
  <2>3. \A i \in fits : i \in 1..3  OBVIOUS
  <2>4. \A i \in 1..3 : gap(i) = (IF i = 3 THEN 20 ELSE 24) - Len(d)  BY <1>5
  <2>5. Len(d) \in Nat  BY <1>1
  <2> HIDE DEF fits, p, gap
  <2>6. best # {}
    <3>1. CASE 3 \in fits
      <4>1. \A j \in fits : gap(3) < gap(j) \/ (gap(3) = gap(j) /\ 3 <= j)
        BY <2>3, <2>4, <2>5
      <4> QED  BY <3>1, <4>1
    <3>2. CASE 3 \notin fits /\ 1 \in fits
      <4>1. \A j \in fits : gap(1) < gap(j) \/ (gap(1) = gap(j) /\ 1 <= j)
        BY <2>3, <2>4, <2>5, <3>2
      <4> QED  BY <3>2, <4>1
    <3>3. CASE 3 \notin fits /\ 1 \notin fits
      <4>1. \A j \in fits : j = 2  BY <2>3, <3>3
      <4>2. 2 \in fits  BY <2>2, <4>1
      <4>3. \A j \in fits : gap(2) < gap(j) \/ (gap(2) = gap(j) /\ 2 <= j)
        BY <4>1
      <4> QED  BY <4>2, <4>3
    <3> QED  BY <3>1, <3>2, <3>3
  <2>7. PICK i \in best : DetectDraftEra(d) = era(i)
    <3>1. (CHOOSE i \in best : TRUE) \in best  BY <2>6
    <3> HIDE DEF exact, best
    <3> QED  BY <1>3, <1>9, <2>6, <3>1
  <2>8. i \in fits /\ i \in 1..3 /\ \A j \in fits : gap(i) <= gap(j)
    <3>1. i \in fits /\ i \in 1..3  BY <2>3
    <3> QED  BY <2>3, <2>4, <2>5, <3>1
  <2>9. \A j \in fits : Len(p(i)) <= Len(p(j))
    <3>1. \A j \in 1..3 : Len(p(j)) \in Nat /\ gap(j) = Len(p(j)) - Len(d)  BY <1>5 DEF gap
    <3> QED  BY <2>3, <2>5, <2>8, <3>1
  <2>10. \A e \in ErasOf(d) : Len(CmDraftPatterns[era(i)]) <= Len(CmDraftPatterns[e])
    BY <1>6, <2>1, <2>9 DEF p
  <2> QED  BY <2>1, <2>7, <2>8, <2>10
<1> QED  BY <1>8, <1>9

(* The switches between picks and bans up to an entry.                     *)
LEMMA SwitchNext ==
    ASSUME NEW s \in Seq(BOOLEAN), NEW x \in Nat
    PROVE  /\ Switches(s, x) \in Nat /\ Switches(s, 1) = 0
           /\ x + 1 \in 2..Len(s) =>
                 Switches(s, x + 1) =
                    IF s[x + 1] <=> s[x] THEN Switches(s, x) ELSE Switches(s, x) + 1
<1> DEFINE P(y) == s[y] # s[y - 1]
           A == {y \in 2..x : P(y)}
           B == {y \in 2..x + 1 : P(y)}
<1>1. IsFiniteSet(2..x)
  <2>1. 2 \in Int /\ x \in Int  OBVIOUS
  <2> QED  BY <2>1, FS_Interval
<1>2. Switches(s, 1) = 0
  <2>1. {y \in 2..1 : P(y)} = {}  OBVIOUS
  <2> QED  BY <2>1, FS_EmptySet DEF Switches
<1>3. Switches(s, x) = Cardinality(A) /\ Switches(s, x + 1) = Cardinality(B)  BY DEF Switches
<1>4. A \in SUBSET (2..x) /\ x + 1 \notin A  OBVIOUS
<1>5. ASSUME x + 1 \in 2..Len(s)  PROVE P(x + 1) <=> ~(s[x + 1] <=> s[x])
  <2>1. (x + 1) - 1 = x /\ x \in 1..Len(s)  BY <1>5, DraftTyped
  <2>2. s[x + 1] = TRUE \/ s[x + 1] = FALSE
    <3>1. x + 1 \in 1..Len(s)  BY <1>5, DraftTyped
    <3> QED  BY <3>1, DraftTyped, Zenon
  <2>3. s[x] = TRUE \/ s[x] = FALSE  BY <2>1, DraftTyped, Zenon
  <2>4. P(x + 1) <=> s[x + 1] # s[x]  BY <2>1
  <2> HIDE DEF P
  <2> QED  BY <2>2, <2>3, <2>4, Zenon
<1> HIDE DEF P
<1>6. x + 1 \in 2..Len(s) => \A y : y \in 2..x + 1 <=> y \in 2..x \/ y = x + 1  OBVIOUS
<1>7. x + 1 \in 2..Len(s) /\ P(x + 1) => B = A \cup {x + 1}  BY <1>6
<1>8. x + 1 \in 2..Len(s) /\ ~P(x + 1) => B = A  BY <1>6
<1> HIDE DEF A, B
<1>9. IsFiniteSet(A)  BY <1>1, <1>4, FS_Subset
<1>10. Cardinality(A) \in Nat  BY <1>9, FS_CardinalityType
<1>11. Cardinality(A \cup {x + 1}) = Cardinality(A) + 1  BY <1>4, <1>9, FS_AddElement
<1>12. ASSUME x + 1 \in 2..Len(s)
       PROVE  Cardinality(B) = IF s[x + 1] <=> s[x] THEN Cardinality(A) ELSE Cardinality(A) + 1
  <2>1. CASE P(x + 1)
    <3>1. Cardinality(B) = Cardinality(A) + 1  BY <1>7, <1>11, <1>12, <2>1
    <3>2. ~(s[x + 1] <=> s[x])  BY <1>5, <1>12, <2>1, Zenon
    <3> QED  BY <3>1, <3>2, Zenon
  <2>2. CASE ~P(x + 1)
    <3>1. Cardinality(B) = Cardinality(A)  BY <1>8, <1>12, <2>2
    <3>2. s[x + 1] <=> s[x]  BY <1>5, <1>12, <2>2, Zenon
    <3> QED  BY <3>1, <3>2, Zenon
  <2> QED  BY <2>1, <2>2
<1> QED  BY <1>2, <1>3, <1>10, <1>12, Zenon

LEMMA SwitchParity ==
    ASSUME NEW s \in Seq(BOOLEAN), NEW x \in 1..Len(s)
    PROVE  (s[x] <=> s[1]) <=> Switches(s, x) % 2 = 0
<1> DEFINE Ok(y) == (s[y] <=> s[1]) <=> Switches(s, y) % 2 = 0
           Bad == {y \in 1..Len(s) : ~Ok(y)}
<1>1. Len(s) \in Nat  BY DraftTyped
<1>2. Ok(1)
  <2>1. Switches(s, 1) = 0  BY SwitchNext
  <2>2. Switches(s, 1) % 2 = 0  BY <2>1
  <2> QED  BY <2>2, Zenon
<1>3. ASSUME NEW y \in Nat, y + 1 \in 2..Len(s), Ok(y)  PROVE Ok(y + 1)
  <2> DEFINE a == Switches(s, y)
             b == Switches(s, y + 1)
  <2>1. a \in Nat /\ b = IF s[y + 1] <=> s[y] THEN a ELSE a + 1  BY <1>3, SwitchNext, Zenon
  <2>2. (s[y] <=> s[1]) <=> a % 2 = 0  BY <1>3, Zenon
  <2> HIDE DEF a, b
  <2>3. (s[y + 1] <=> s[1]) <=> b % 2 = 0
    <3>1. (a + 1) % 2 = 0 <=> ~(a % 2 = 0)  BY <2>1
    <3>2. CASE s[y + 1] <=> s[y]
      <4>1. b = a  BY <2>1, <3>2, Zenon
      <4> QED  BY <2>2, <3>2, <4>1, Zenon
    <3>3. CASE ~(s[y + 1] <=> s[y])
      <4>1. b = a + 1  BY <2>1, <3>3, Zenon
      <4>2. b % 2 = 0 <=> ~(a % 2 = 0)  BY <3>1, <4>1
      <4> QED  BY <2>2, <3>3, <4>2, Zenon
    <3> QED  BY <3>2, <3>3
  <2> QED  BY <2>3 DEF b
<1> HIDE DEF Ok
<1>4. Bad = {}
  <2> SUFFICES ASSUME Bad # {}  PROVE FALSE
    OBVIOUS
  <2>1. Bad \in SUBSET Nat  OBVIOUS
  <2>2. PICK y \in Bad : \A z \in Bad : y <= z
    <3> HIDE DEF Bad
    <3> QED  BY <2>1, LeastOfNats
  <2>3. y # 1  BY <1>2
  <2>4. y - 1 \in Nat /\ (y - 1) + 1 \in 2..Len(s) /\ y - 1 \in 1..Len(s) /\ (y - 1) + 1 = y
    BY <1>1, <2>3
  <2>5. Ok(y - 1)  BY <2>2, <2>4
  <2>6. Ok((y - 1) + 1)
    <3> DEFINE z == y - 1
    <3>1. z \in Nat /\ z + 1 \in 2..Len(s) /\ Ok(z)  BY <2>4, <2>5
    <3> HIDE DEF z
    <3>2. Ok(z + 1)  BY <1>3, <3>1
    <3> QED  BY <3>2 DEF z
  <2> QED  BY <2>4, <2>6
<1> QED  BY <1>4 DEF Ok

LEMMA NamesAgree ==
    ASSUME NEW d \in Seq(BOOLEAN)
    PROVE  PickNamesAgree(d)
<1> SUFFICES ASSUME NEW x \in DOMAIN d, d[x]
             PROVE  DerivePhaseTable(d)[x].name = PhaseNames(d)[x]
  BY DEF PickNamesAgree
<1>1. x \in 1..Len(d) /\ x \in Nat /\ Len(d) \in Nat  BY DraftTyped
<1> DEFINE a == Switches(d, x)
<1>2. a \in Nat  BY <1>1, SwitchNext
<1>3. DerivePhaseTable(d)[x].name = PhaseName(FirstPhase(d) + a, d[x])  BY DEF DerivePhaseTable
<1>4. PhaseNames(d)[x] = PhaseName(a, d[x])  BY DEF PhaseNames, AssignPhases
<1> HIDE DEF a
<1>5. (FirstPhase(d) + a) \div 2 = a \div 2
  <2>1. CASE d[1]
    <3>1. (d[x] <=> d[1]) <=> a % 2 = 0  BY <1>1, SwitchParity DEF a
    <3>2. a % 2 = 0  BY <2>1, <3>1, Zenon
    <3>3. FirstPhase(d) = 1  BY <2>1, Zenon DEF FirstPhase
    <3>4. (1 + a) \div 2 = a \div 2  BY <1>2, <3>2
    <3> QED  BY <3>3, <3>4
  <2>2. CASE ~d[1]
    <3>1. FirstPhase(d) = 0  BY <2>2, Zenon DEF FirstPhase
    <3>2. 0 + a = a  BY <1>2
    <3> QED  BY <3>1, <3>2
  <2> QED  BY <2>1, <2>2
<1> QED  BY <1>3, <1>4, <1>5, Zenon DEF PhaseName

(* The picks of a draft, and the bans between two of them.                 *)
LEMMA PickFound ==
    ASSUME NEW s \in Seq(BOOLEAN), NEW n \in Nat, n # 0, n <= PicksUpTo(s, Len(s))
    PROVE  /\ PickAt(s, n) \in 1..Len(s) /\ s[PickAt(s, n)] /\ PicksUpTo(s, PickAt(s, n)) = n
<1>1. Len(s) \in Nat /\ DOMAIN s = 1..Len(s)  BY DraftTyped
<1> DEFINE Enough == {x \in 0..Len(s) : n <= PicksUpTo(s, x)}
<1>2. Enough \in SUBSET Nat /\ Enough # {}  BY <1>1
<1>3. PICK x \in Enough : \A y \in Enough : x <= y
  <2> HIDE DEF Enough
  <2> QED  BY <1>2, LeastOfNats
<1>4. PicksUpTo(s, 0) = 0  BY PickCountNext
<1>5. x # 0  BY <1>3, <1>4
<1>6. x - 1 \in Nat /\ x - 1 \in 0..Len(s) /\ (x - 1) + 1 = x /\ x \in 1..Len(s)  BY <1>1, <1>5
<1> DEFINE y == x - 1
<1>7. ~(n <= PicksUpTo(s, y))  BY <1>3, <1>6
<1>8. n <= PicksUpTo(s, x)  BY <1>3
<1>9. /\ PicksUpTo(s, y) \in Nat
      /\ PicksUpTo(s, y + 1) = IF s[y + 1] THEN PicksUpTo(s, y) + 1 ELSE PicksUpTo(s, y)
  BY <1>6, PickCountNext
<1>10. y + 1 = x  BY <1>6
<1> HIDE DEF y
<1>11. CASE s[x]
  <2>1. PicksUpTo(s, x) = PicksUpTo(s, y) + 1  BY <1>9, <1>10, <1>11
  <2>2. PicksUpTo(s, x) = n  BY <1>7, <1>8, <1>9, <2>1
  <2>3. \E i \in DOMAIN s : s[i] /\ PicksUpTo(s, i) = n  BY <1>1, <1>6, <1>11, <2>2
  <2>4. PickAt(s, n) \in DOMAIN s /\ s[PickAt(s, n)] /\ PicksUpTo(s, PickAt(s, n)) = n
    BY <2>3, Zenon DEF PickAt
  <2> QED  BY <1>1, <2>4
<1>12. CASE ~s[x]
  <2>1. PicksUpTo(s, x) = PicksUpTo(s, y)  BY <1>9, <1>10, <1>12
  <2> QED  BY <1>7, <1>8, <2>1
<1> QED  BY <1>11, <1>12

LEMMA RunNonempty ==
    ASSUME NEW s \in Seq(BOOLEAN), NEW n
    PROVE  /\ BanRun(s, n) \in Nat
           /\ BanRun(s, n) > 0 <=> \E i \in 1..Len(s) : ~s[i] /\ PicksUpTo(s, i) = n
<1> DEFINE A == {i \in 1..Len(s) : ~s[i] /\ PicksUpTo(s, i) = n}
<1>1. Len(s) \in Nat /\ DOMAIN s = 1..Len(s)  BY DraftTyped
<1>2. BanRun(s, n) = Cardinality(A)  BY <1>1 DEF BanRun
<1>3. IsFiniteSet(A)
  <2>1. 1 \in Int /\ Len(s) \in Int  BY <1>1
  <2>2. IsFiniteSet(1..Len(s))  BY <2>1, FS_Interval
  <2>3. A \in SUBSET (1..Len(s))  OBVIOUS
  <2> HIDE DEF A
  <2> QED  BY <2>2, <2>3, FS_Subset
<1>4. A # {} <=> \E i \in 1..Len(s) : ~s[i] /\ PicksUpTo(s, i) = n  OBVIOUS
<1> HIDE DEF A
<1>5. Cardinality(A) \in Nat /\ (Cardinality(A) = 0 <=> A = {})  BY <1>3, FS_CardinalityType, FS_EmptySet
<1> QED  BY <1>2, <1>4, <1>5

(* Switches counts none among bans alone.                                  *)
LEMMA NoSwitchInBans ==
    ASSUME NEW s \in Seq(BOOLEAN), NEW a \in 1..Len(s), NEW b \in 1..Len(s), a <= b,
           \A y \in a..b : ~s[y]
    PROVE  Switches(s, a) = Switches(s, b)
<1>1. Len(s) \in Nat  BY DraftTyped
<1>2. ASSUME NEW y \in 2..b  PROVE y \in 2..a \/ s[y] = s[y - 1]
  <2>1. CASE y <= a  BY <1>1, <2>1
  <2>2. CASE y > a
    <3>1. y \in a..b /\ y - 1 \in a..b /\ y \in 1..Len(s) /\ y - 1 \in 1..Len(s)  BY <1>1, <2>2
    <3>2. s[y] = FALSE
      <4>1. s[y] = TRUE \/ s[y] = FALSE  BY <3>1, DraftTyped, Zenon
      <4> QED  BY <3>1, <4>1, Zenon
    <3>3. s[y - 1] = FALSE
      <4>1. s[y - 1] = TRUE \/ s[y - 1] = FALSE  BY <3>1, DraftTyped, Zenon
      <4> QED  BY <3>1, <4>1, Zenon
    <3> QED  BY <3>2, <3>3, Zenon
  <2> QED  BY <1>1, <2>1, <2>2
<1>3. \A y \in 2..a : y \in 2..b  BY <1>1
<1> DEFINE P(y) == s[y] # s[y - 1]
<1>4. \A y \in 2..b : P(y) => y \in 2..a  BY <1>2
<1> HIDE DEF P
<1>5. {y \in 2..a : P(y)} = {y \in 2..b : P(y)}  BY <1>3, <1>4
<1> QED  BY <1>5 DEF Switches, P

(* The switches before the first pick.                                     *)
LEMMA FirstPickPhase ==
    ASSUME NEW s \in Seq(BOOLEAN), 1 <= PicksUpTo(s, Len(s))
    PROVE  Switches(s, PickAt(s, 1)) = IF BanRun(s, 0) > 0 THEN 1 ELSE 0
<1> DEFINE a == PickAt(s, 1)
<1>1. a \in 1..Len(s) /\ s[a] /\ PicksUpTo(s, a) = 1  BY PickFound
<1>2. Len(s) \in Nat  BY DraftTyped
<1> HIDE DEF a
<1>3. ASSUME NEW y \in 1..Len(s), y < a  PROVE ~s[y] /\ PicksUpTo(s, y) = 0
  <2>1. y \in Nat /\ a \in Nat  BY <1>1, <1>2
  <2>2. PicksUpTo(s, y) \in Nat /\ PicksUpTo(s, y) < 1  BY <1>1, <1>3, <2>1, PickCountGrows
  <2>3. ASSUME s[y]  PROVE FALSE
    <3>1. PicksUpTo(s, 0) < PicksUpTo(s, y)  BY <2>1, <2>3, PickCountGrows
    <3>2. PicksUpTo(s, 0) = 0  BY PickCountNext
    <3> QED  BY <2>2, <3>1, <3>2
  <2> QED  BY <2>2, <2>3
<1>4. CASE a = 1
  <2>1. Switches(s, a) = 0  BY <1>4, SwitchNext
  <2>2. ~ \E i \in 1..Len(s) : ~s[i] /\ PicksUpTo(s, i) = 0
    <3> SUFFICES ASSUME NEW i \in 1..Len(s)  PROVE PicksUpTo(s, i) # 0
      OBVIOUS
    <3>1. i \in Nat /\ 1 <= i  BY <1>2
    <3>2. PicksUpTo(s, 1) <= PicksUpTo(s, i) /\ PicksUpTo(s, i) \in Nat  BY <3>1, PickCountGrows
    <3> QED  BY <1>1, <1>4, <3>2
  <2>3. ~(BanRun(s, 0) > 0)  BY <2>2, RunNonempty
  <2> QED  BY <2>1, <2>3 DEF a
<1>5. CASE a # 1
  <2> DEFINE b == a - 1
  <2>1. b \in Nat /\ b \in 1..Len(s) /\ 1 \in 1..Len(s) /\ 1 <= b /\ b + 1 = a /\ b + 1 \in 2..Len(s)
    BY <1>1, <1>2, <1>5
  <2>2. \A y \in 1..b : ~s[y]  BY <1>2, <1>3, <2>1
  <2> HIDE DEF b
  <2>3. Switches(s, 1) = Switches(s, b)  BY <2>1, <2>2, NoSwitchInBans
  <2>4. Switches(s, 1) = 0  BY <2>1, SwitchNext
  <2>5. Switches(s, b + 1) = IF s[b + 1] <=> s[b] THEN Switches(s, b) ELSE Switches(s, b) + 1
    BY <2>1, SwitchNext, Zenon
  <2>6. ~s[b]
    <3>1. b \in 1..b  BY <2>1
    <3> QED  BY <2>2, <3>1, Zenon
  <2>7. s[b + 1]  BY <1>1, <2>1, Zenon
  <2>8. Switches(s, a) = Switches(s, b) + 1  BY <2>1, <2>5, <2>6, <2>7, Zenon
  <2>9. Switches(s, a) = 1  BY <2>3, <2>4, <2>8
  <2>10. BanRun(s, 0) > 0
    <3>1. 1 < a  BY <1>1, <1>2, <1>5
    <3>2. ~s[1] /\ PicksUpTo(s, 1) = 0  BY <1>3, <2>1, <3>1
    <3>3. \E i \in 1..Len(s) : ~s[i] /\ PicksUpTo(s, i) = 0  BY <2>1, <3>2, Zenon
    <3> QED  BY <3>3, RunNonempty
  <2> QED  BY <2>9, <2>10 DEF a
<1> QED  BY <1>4, <1>5

(* The switches from one pick to the next.                                 *)
LEMMA NextPickPhase ==
    ASSUME NEW s \in Seq(BOOLEAN), NEW n \in Nat, n # 0, n + 1 <= PicksUpTo(s, Len(s))
    PROVE  /\ Switches(s, PickAt(s, n)) \in Nat
           /\ Switches(s, PickAt(s, n + 1)) =
                 IF BanRun(s, n) > 0 THEN Switches(s, PickAt(s, n)) + 2 ELSE Switches(s, PickAt(s, n))
<1> DEFINE a == PickAt(s, n)
           m == n + 1
           b == PickAt(s, m)
<1>0. Len(s) \in Nat  BY DraftTyped
<1>1. n <= PicksUpTo(s, Len(s)) /\ m \in Nat /\ m # 0
  <2>1. PicksUpTo(s, Len(s)) \in Nat  BY <1>0, PickCountNext
  <2> QED  BY <2>1
<1>2. a \in 1..Len(s) /\ s[a] /\ PicksUpTo(s, a) = n  BY <1>1, PickFound
<1> HIDE DEF a
<1>3. b \in 1..Len(s) /\ s[b] /\ PicksUpTo(s, b) = m
  <2>1. m <= PicksUpTo(s, Len(s))  OBVIOUS
  <2> HIDE DEF m, b
  <2>2. /\ PickAt(s, m) \in 1..Len(s) /\ s[PickAt(s, m)] /\ PicksUpTo(s, PickAt(s, m)) = m
    BY <1>1, <2>1, PickFound
  <2> QED  BY <2>2 DEF b
<1> HIDE DEF b
<1>4. a \in Nat /\ b \in Nat  BY <1>0, <1>2, <1>3
<1>5. a < b
  <2> SUFFICES ASSUME b <= a  PROVE FALSE
    BY <1>4
  <2>1. PicksUpTo(s, b) <= PicksUpTo(s, a)  BY <1>4, PickCountGrows
  <2> QED  BY <1>2, <1>3, <2>1
<1>6. ASSUME NEW y \in 1..Len(s), a < y, y < b  PROVE ~s[y] /\ PicksUpTo(s, y) = n
  <2>1. y \in Nat  BY <1>0
  <2>2. PicksUpTo(s, y) \in Nat /\ PicksUpTo(s, y) < m /\ n <= PicksUpTo(s, y)
    <3>1. PicksUpTo(s, y) < PicksUpTo(s, b)  BY <1>3, <1>4, <1>6, <2>1, PickCountGrows
    <3>2. PicksUpTo(s, a) <= PicksUpTo(s, y) /\ PicksUpTo(s, y) \in Nat
      BY <1>4, <1>6, <2>1, PickCountGrows
    <3> QED  BY <1>2, <1>3, <3>1, <3>2
  <2>3. ASSUME s[y]  PROVE FALSE
    <3>1. n < PicksUpTo(s, y)  BY <1>2, <1>4, <1>6, <2>1, <2>3, PickCountGrows
    <3> QED  BY <2>2, <3>1
  <2> QED  BY <2>2, <2>3
<1>7. Switches(s, a) \in Nat  BY <1>4, SwitchNext
<1>8. a + 1 \in 2..Len(s) /\ a + 1 \in 1..Len(s)  BY <1>0, <1>2, <1>3, <1>4, <1>5
<1>9. Switches(s, a + 1) = IF s[a + 1] <=> s[a] THEN Switches(s, a) ELSE Switches(s, a) + 1
  BY <1>4, <1>8, SwitchNext, Zenon
<1>10. CASE b = a + 1
  <2>1. s[a + 1]  BY <1>3, <1>10, Zenon
  <2>2. Switches(s, b) = Switches(s, a)  BY <1>2, <1>9, <1>10, <2>1, Zenon
  <2>3. ~ \E i \in 1..Len(s) : ~s[i] /\ PicksUpTo(s, i) = n
    <3> SUFFICES ASSUME NEW i \in 1..Len(s), ~s[i]  PROVE PicksUpTo(s, i) # n
      OBVIOUS
    <3>1. i \in Nat /\ PicksUpTo(s, i) \in Nat  BY <1>0, PickCountGrows
    <3>2. CASE i < a
      <4>1. PicksUpTo(s, i) < PicksUpTo(s, a)  BY <1>2, <1>4, <3>1, <3>2, PickCountGrows
      <4> QED  BY <1>2, <3>1, <4>1
    <3>3. CASE i > a
      <4>1. b <= i  BY <1>4, <1>10, <3>1, <3>3
      <4>2. PicksUpTo(s, b) <= PicksUpTo(s, i)  BY <1>4, <3>1, <4>1, PickCountGrows
      <4> QED  BY <1>3, <3>1, <4>2
    <3>4. i # a  BY <1>2, Zenon
    <3> QED  BY <1>4, <3>1, <3>2, <3>3, <3>4
  <2>4. ~(BanRun(s, n) > 0)  BY <2>3, RunNonempty
  <2> QED  BY <1>7, <2>2, <2>4 DEF a, b
<1>11. CASE b # a + 1
  <2> DEFINE c == b - 1
             e == a + 1
  <2>1. /\ c \in Nat /\ c \in 1..Len(s) /\ e <= c /\ c + 1 = b /\ c + 1 \in 2..Len(s)
        /\ e \in 1..Len(s) /\ a < e /\ e < b /\ a < c /\ c < b
    BY <1>0, <1>3, <1>4, <1>5, <1>8, <1>11
  <2>2. \A y \in e..c : ~s[y]
    <3> TAKE y \in e..c
    <3>1. y \in 1..Len(s) /\ a < y /\ y < b  BY <1>0, <1>4, <2>1
    <3> QED  BY <1>6, <3>1
  <2>3. ~s[e] /\ PicksUpTo(s, e) = n  BY <1>6, <2>1
  <2>4. ~s[c]  BY <1>6, <2>1
  <2>5. Switches(s, e) = Switches(s, a) + 1  BY <1>2, <1>9, <2>3, Zenon
  <2> HIDE DEF c, e
  <2>6. Switches(s, e) = Switches(s, c)  BY <2>1, <2>2, NoSwitchInBans
  <2>7. Switches(s, c + 1) = IF s[c + 1] <=> s[c] THEN Switches(s, c) ELSE Switches(s, c) + 1
    BY <2>1, SwitchNext, Zenon
  <2>8. s[c + 1]  BY <1>3, <2>1, Zenon
  <2>9. Switches(s, b) = Switches(s, c) + 1  BY <2>1, <2>4, <2>7, <2>8, Zenon
  <2>10. Switches(s, b) = Switches(s, a) + 2  BY <1>7, <2>5, <2>6, <2>9
  <2>11. \E i \in 1..Len(s) : ~s[i] /\ PicksUpTo(s, i) = n  BY <2>1, <2>3, Zenon
  <2>12. BanRun(s, n) > 0  BY <2>11, RunNonempty
  <2> QED  BY <1>7, <2>10, <2>12 DEF a, b
<1> QED  BY <1>10, <1>11

LEMMA PhasesAlwaysStable ==
    ASSUME NEW d \in Seq(BOOLEAN)
    PROVE  PhasesStable(d)
<1> SUFFICES ASSUME NEW e \in ErasOf(d), NoPhaseDeclined(d, CmDraftPatterns[e]), NEW n0 \in 1..10
             PROVE  AssignPhases(d)[PickAt(d, n0)] =
                       AssignPhases(CmDraftPatterns[e])[PickAt(CmDraftPatterns[e], n0)]
  BY DEF PhasesStable
<1> DEFINE p == CmDraftPatterns[e]
           Same(n) == Switches(d, PickAt(d, n)) = Switches(p, PickAt(p, n))
           Bad == {n \in 1..10 : ~Same(n)}
<1>1. e \in DOMAIN CmDraftPatterns /\ WithoutSomeBans(d, p)  BY DEF ErasOf
<1>2. p \in Seq(BOOLEAN) /\ CountOf(TRUE, p) = 10  BY <1>1, PatternTyped, Zenon
<1>3. CountOf(TRUE, d) = 10  BY Counted10
<1> HIDE DEF p
<1>4. PicksUpTo(d, Len(d)) = 10 /\ PicksUpTo(p, Len(p)) = 10  BY <1>2, <1>3, CountIsUpTo, Zenon
<1>5. \A j \in 0..10 : BanRun(d, j) > 0 <=> BanRun(p, j) > 0
  <2>1. \A j \in 0..10 : BanRun(d, j) <= BanRun(p, j)
    BY <1>1, <1>3, Zenon DEF WithoutSomeBans
  <2>2. \A j \in 0..10 : BanRun(p, j) > 0 => BanRun(d, j) > 0
    BY <1>3, Zenon DEF NoPhaseDeclined, p
  <2>3. \A j \in 0..10 : BanRun(d, j) \in Nat /\ BanRun(p, j) \in Nat  BY <1>2, RunNonempty
  <2> TAKE j \in 0..10
  <2>4. /\ BanRun(d, j) <= BanRun(p, j) /\ (BanRun(p, j) > 0 => BanRun(d, j) > 0)
        /\ BanRun(d, j) \in Nat /\ BanRun(p, j) \in Nat
    BY <2>1, <2>2, <2>3, Zenon
  <2> QED  BY <2>4
<1>6. Same(1)
  <2>1. Switches(d, PickAt(d, 1)) = IF BanRun(d, 0) > 0 THEN 1 ELSE 0  BY <1>4, FirstPickPhase
  <2>2. Switches(p, PickAt(p, 1)) = IF BanRun(p, 0) > 0 THEN 1 ELSE 0  BY <1>2, <1>4, FirstPickPhase
  <2>3. 0 \in 0..10  OBVIOUS
  <2> QED  BY <1>5, <2>1, <2>2, <2>3
<1>7. ASSUME NEW n \in 1..9, Same(n)  PROVE Same(n + 1)
  <2>0. n \in Nat /\ n # 0 /\ n \in 0..10 /\ n + 1 <= 10  OBVIOUS
  <2>1. /\ Switches(d, PickAt(d, n)) \in Nat
        /\ Switches(d, PickAt(d, n + 1)) =
              IF BanRun(d, n) > 0 THEN Switches(d, PickAt(d, n)) + 2 ELSE Switches(d, PickAt(d, n))
    BY <1>4, <2>0, NextPickPhase
  <2>2. /\ Switches(p, PickAt(p, n)) \in Nat
        /\ Switches(p, PickAt(p, n + 1)) =
              IF BanRun(p, n) > 0 THEN Switches(p, PickAt(p, n)) + 2 ELSE Switches(p, PickAt(p, n))
    BY <1>2, <1>4, <2>0, NextPickPhase
  <2>3. BanRun(d, n) > 0 <=> BanRun(p, n) > 0  BY <1>5, <2>0
  <2> QED  BY <1>7, <2>1, <2>2, <2>3
<1>8. Bad = {}
  <2> HIDE DEF Same
  <2> SUFFICES ASSUME Bad # {}  PROVE FALSE
    OBVIOUS
  <2>1. Bad \in SUBSET Nat  OBVIOUS
  <2>2. PICK n \in Bad : \A y \in Bad : n <= y
    <3> HIDE DEF Bad
    <3> QED  BY <2>1, LeastOfNats
  <2>3. n # 1  BY <1>6
  <2> DEFINE m == n - 1
  <2>4. m \in 1..9 /\ m \in 1..10 /\ m \notin Bad /\ m + 1 = n  BY <2>2, <2>3
  <2>5. Same(m)  BY <2>4
  <2> HIDE DEF m
  <2>6. Same(m + 1)  BY <1>7, <2>4, <2>5
  <2> QED  BY <2>4, <2>6
<1>9. Same(n0)
  <2> HIDE DEF Same
  <2> QED  BY <1>8
<1>10. PickAt(d, n0) \in DOMAIN d /\ PickAt(p, n0) \in DOMAIN p
  <2>1. n0 \in Nat /\ n0 # 0 /\ n0 <= 10  OBVIOUS
  <2>2. PickAt(d, n0) \in 1..Len(d)  BY <1>4, <2>1, PickFound
  <2>3. PickAt(p, n0) \in 1..Len(p)  BY <1>2, <1>4, <2>1, PickFound
  <2> QED  BY <1>2, <2>2, <2>3, DraftTyped
<1> QED  BY <1>9, <1>10 DEF AssignPhases, p

(* Odd entries are Radiant's, as ActingTeam has it.                        *)
LEMMA SlotKinds ==
    ASSUME NEW x \in 1..24
    PROVE  /\ CMPhaseTable[x].ban <=> ~(x \in {8, 9, 23, 24} \cup (13..18))
           /\ CMPhaseTable[x].team = ActingTeam(x - 1)
<1> DEFINE kind == IF x \in {8, 9, 23, 24} \cup (13..18) THEN "pick" ELSE "ban"
           team == IF x \in {1, 3, 5, 7, 9, 11, 13, 15, 17, 19, 21, 23} THEN "radiant" ELSE "dire"
<1>1. kind = "ban" <=> ~(x \in {8, 9, 23, 24} \cup (13..18))
  <2>1. "ban" # "pick"  OBVIOUS
  <2> QED  BY <2>1, Zenon
<1>2. \E n : CMPhaseTable[x] = Slot(kind, n, team)  BY TableAt
<1>3. team = ActingTeam(x - 1)
  <2>1. x \in {1, 3, 5, 7, 9, 11, 13, 15, 17, 19, 21, 23} <=> (x - 1) % 2 = 0  OBVIOUS
  <2> QED  BY <2>1, Zenon DEF ActingTeam
<1> HIDE DEF kind, team
<1>4. PICK n : CMPhaseTable[x] = Slot(kind, n, team)  BY <1>2
<1>5. /\ Slot(kind, n, team).ban \in BOOLEAN /\ Slot(kind, n, team).team = team
      /\ Slot(kind, n, team).ban <=> kind = "ban"
  BY SlotIs, Zenon
<1> QED  BY <1>1, <1>3, <1>4, <1>5, Zenon

LEMMA TablesAlwaysAgree ==
    ASSUME NEW d
    PROVE  TablesAgree(d)
<1> DEFINE p == CmDraftPatterns["from_7_33"]
           derived == DerivePhaseTable(p)
           K == {8, 9, 23, 24} \cup (13..18)
<1>1. p \in Seq(BOOLEAN) /\ Len(p) = 24  BY PatternFrom733, Zenon DEF Shape
<1>2. \A x \in 1..24 : p[x] <=> x \in K  BY PatternFrom733
<1>3. DOMAIN p = 1..24  BY <1>1, DraftTyped
<1> HIDE DEF p
<1>4. \A x \in 1..24 : derived[x].ban = ~p[x] /\ derived[x].team = ActingTeam(x - 1)
  BY <1>3 DEF DerivePhaseTable
<1> HIDE DEF derived
<1>5. \A x \in 1..24 : CMPhaseTable[x].ban \in BOOLEAN /\ CMPhaseTable[x].team \in Teams
  BY TableSlots
<1>6. \A x \in 1..24 : /\ CMPhaseTable[x].ban <=> ~(x \in K)
                       /\ CMPhaseTable[x].team = ActingTeam(x - 1)
  BY SlotKinds, Zenon
<1>7. ASSUME NEW x \in 1..24
      PROVE  CMPhaseTable[x].ban = derived[x].ban /\ CMPhaseTable[x].team = derived[x].team
  <2>1. CMPhaseTable[x].ban <=> ~p[x]  BY <1>2, <1>6, <1>7, Zenon
  <2>2. p[x] = TRUE \/ p[x] = FALSE  BY <1>1, DraftTyped, Zenon
  <2>3. CMPhaseTable[x].ban = ~p[x]  BY <1>5, <2>1, <2>2, Zenon
  <2> QED  BY <1>4, <1>6, <2>3, Zenon
<1>8. ASSUME NEW t \in Teams
      PROVE  Cardinality({i \in 1..24 : p[i] /\ CMPhaseTable[i].team = t}) = 5
  <2>1. \A i \in 1..24 : (p[i] /\ CMPhaseTable[i].team = t) <=> PickOf(t, i)
    BY <1>2, <1>6, Zenon DEF PickOf
  <2>2. {i \in 1..24 : p[i] /\ CMPhaseTable[i].team = t} = PicksTo(t, 24)  BY <2>1 DEF PicksTo
  <2> QED  BY <2>2, FivePicks
<1>9. Len(CMPhaseTable) = Len(p)  BY <1>1, TableSlots
<1> QED  BY <1>3, <1>7, <1>8, <1>9, Zenon DEF TablesAgree, Teams, p, derived

(* One draft, whatever it is.                                              *)
LEMMA RulesSound ==
    ASSUME NEW d \in Seq(BOOLEAN)
    PROVE  ValidationExact(d) /\ EraFits(d) /\ PhasesStable(d) /\ PickNamesAgree(d) /\ TablesAgree(d)
BY ValidationIsExact, EraAlwaysFits, PhasesAlwaysStable, NamesAgree, TablesAlwaysAgree

(* ValidateDraft, DetectDraftEra, AssignPhases, DerivePhaseTable: whatever *)
(* the draft, of any length, the scan accepts it iff it is a pattern       *)
(* without some of its bans, its era is the closest, its picks keep their  *)
(* phases and names, and the two services' tables agree on kinds and teams.*)
THEOREM DraftRulesAreSound ==
    [](On("drafts") => probe \in Seq(BOOLEAN)) => []DraftRulesSound
<1>1. (On("drafts") => probe \in Seq(BOOLEAN)) => DraftRulesSound
  BY RulesSound DEF DraftRulesSound
<1> QED  BY <1>1, PTL

=============================================================================
