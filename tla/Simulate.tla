------------------------------- MODULE Simulate -------------------------------
(***************************************************************************)
(* POST /v1/draft/simulate: a complete Captain's Mode draft in which every *)
(* slot takes the top recommendation.  The scores are any, and others at   *)
(* every slot; a recommendation may fail.                                  *)
(***************************************************************************)
EXTENDS DraftState

CONSTANTS
    Catalogs,     \* numbers of heroes that the catalog may have
    TopKs,        \* k of the request
    Scorings,     \* what the scorers may make of a request
    ScoreOf(_, _, _),  \* scoring, slot, hero: its score there
    MaxSimFaults  \* bound: recommendations that fail

VARIABLES
    catalog, k,
    scoring,
    simSlot,      \* next slot, from zero
    sides,        \* picks and bans so far
    steps,        \* the response so far
    simFaults,
    simDone

simVars == <<catalog, k, scoring, simSlot, sides, steps, simFaults, simDone>>

(* sort.Slice puts equal scores in some order: ScoreOf has no equal ones.  *)
SimulateConstants ==
    /\ Catalogs \subseteq Nat /\ TopKs \subseteq Int
    /\ \A n \in Catalogs, x \in Scorings, slot \in 0..Len(CMPhaseTable) - 1 :
          /\ \A h \in 0..n : ScoreOf(x, slot, h) \in Int
          /\ \A g, h \in 0..n : ScoreOf(x, slot, g) = ScoreOf(x, slot, h) => g = h

DefaultK == 5

SimInit ==
    /\ \E n \in Catalogs : catalog = 0..n
    /\ \E want \in TopKs : k = IF want <= 0 THEN DefaultK ELSE want
    /\ scoring \in Scorings
    /\ simSlot = 0 /\ sides = NoDraft /\ steps = <<>> /\ simFaults = 0 /\ simDone = FALSE

(* userTeam: the acting team, "not the requesting user's team".            *)
Perspective(phase) == phase.team

SlotState ==
    NewDraftState(Perspective(CMPhaseTable[simSlot + 1]), CMPhaseTable,
                  [t \in Teams |-> {t}], sides, simSlot)

(* The legal heroes by score, as many as are asked for and there are.      *)
Better(a, b) == ScoreOf(scoring, simSlot, a) > ScoreOf(scoring, simSlot, b)
Ranked(legal) ==
    [i \in 1..Cardinality(legal) |->
        CHOOSE h \in legal : Cardinality({g \in legal : Better(g, h)}) = i - 1]
Recommend(st) ==
    LET ranked == Ranked(LegalHeroes(st, catalog))
    IN  IF k <= 0 \/ k > Len(ranked) THEN ranked ELSE SubSeq(ranked, 1, k)

SlotsLeft == ~simDone /\ simSlot < Len(CMPhaseTable)

(* One pass of the loop.                                                   *)
SimulateSlot ==
    /\ SlotsLeft
    /\ LET recs  == Recommend(SlotState)
           phase == Phase(SlotState)
       IN  /\ steps' = Append(steps, [slot |-> simSlot + 1, phase |-> phase, recs |-> recs,
                                      features |-> DraftFeatures(SlotState),
                                      roster |-> SlotState.roster])
           /\ IF recs = <<>>
              THEN simDone' = TRUE /\ UNCHANGED <<sides, simSlot>>
              ELSE /\ sides' = Extend(sides, phase.team, ~phase.ban, recs[1])
                   /\ simSlot' = simSlot + 1
                   /\ UNCHANGED simDone
    /\ UNCHANGED <<catalog, k, scoring, simFaults>>

(* Recommend returns an error: the slot is skipped.                        *)
SlotFails ==
    /\ SlotsLeft /\ simFaults < MaxSimFaults
    /\ simFaults' = simFaults + 1
    /\ simSlot' = simSlot + 1
    /\ UNCHANGED <<catalog, k, scoring, sides, steps, simDone>>

Respond ==
    /\ ~simDone /\ simSlot >= Len(CMPhaseTable)
    /\ simDone' = TRUE
    /\ UNCHANGED <<catalog, k, scoring, simSlot, sides, steps, simFaults>>

SimNext == SimulateSlot \/ SlotFails \/ Respond
SimSpec == SimInit /\ [][SimNext]_simVars

-----------------------------------------------------------------------------
Entries == sides["radiant"].picks \o sides["radiant"].bans \o
           sides["dire"].picks \o sides["dire"].bans

(* SimulateDraft: "track picks AND bans so subsequent slots see an         *)
(* accurate legal-hero pool": no hero is drafted twice, no recommendation  *)
(* is of a hero that is gone, and a simulation without failures and with   *)
(* heroes enough is a complete draft with five picks for each team.        *)
SimulationLegal ==
    /\ IsInjective(Entries)
    /\ HeroIDNone \notin ToSet(Entries)
    /\ \A i, j \in DOMAIN steps : i < j =>
          steps[i].recs[1] \notin ToSet(steps[j].recs)
    /\ \A t \in Teams : Len(sides[t].picks) <= 5
    /\ (simDone /\ simFaults = 0 /\ Cardinality(catalog) > 24) =>
          /\ \A t \in Teams : Len(sides[t].picks) = 5
          /\ Len(steps) = 24

(* draft_source.go: "DraftState is always constructed with userTeam = next *)
(* actor": over a simulation without failures each team has one pick that  *)
(* is its first and one that is its last, with five and one to go, and its *)
(* own roster.                                                             *)
FirstAndLastPick ==
    simFaults = 0 =>
       \A i \in DOMAIN steps :
          LET s == steps[i]
              before == {j \in 1..i - 1 : ~steps[j].phase.ban /\ steps[j].phase.team = s.phase.team}
          IN  /\ s.roster = {s.phase.team}
              /\ ~s.phase.ban =>
                    /\ s.features.is_first_pick <=> before = {}
                    /\ s.features.is_last_pick <=> Cardinality(before) = 4
                    /\ s.features.remaining_team_picks = 5 - Cardinality(before)
                    /\ s.features.remaining_team_picks > 0

(* SimulateDraft and draft_source.go: no hero twice, five picks each, of   *)
(* which one is told to be the first and one the last.                     *)
SimulationSound == SimulationLegal /\ FirstAndLastPick

=============================================================================
