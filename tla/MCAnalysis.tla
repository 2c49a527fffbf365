------------------------------ MODULE MCAnalysis ------------------------------
(***************************************************************************)
(* The instances of the parts of go-analysis, and of the rules of a draft  *)
(* that both services have a copy of, which MCPlatform runs next to those  *)
(* of go-ingestion.                                                        *)
(***************************************************************************)
EXTENDS Serving, Simulate, Backtest

-----------------------------------------------------------------------------
(* platform.cfg has the other constants.                                   *)

(* Imitation models: the second has its features in another order, the     *)
(* third one that this binary has no source for.  Value models: of the     *)
(* first order, then from another source, and none.                        *)
SpecWith(f) == [version |-> FeatureSpecVersion, features |-> f]
Elsewhere(name) == [name |-> name, source |-> "other"]
Published ==
    [imitation |-> <<SpecWith(<<Def("hero_wr"), Def("team_picks")>>),
                     SpecWith(<<Def("team_picks"), Def("hero_wr")>>),
                     SpecWith(<<Def("hero_wr"), Def("new_feature")>>)>>,
     value     |-> <<SpecWith(<<Def("hero_wr"), Def("team_picks")>>),
                     SpecWith(<<Def("hero_wr"), Elsewhere("team_picks")>>), NoModel>>]

(* Scores: of the last hero, or of the first, the most in every slot; of   *)
(* both in turn; and in an order that is another one in every slot.        *)
Ways == {"up", "down", "turns", "mixed"}
ScoreIn(way, slot, h) ==
    CASE way = "up" \/ (way = "turns" /\ slot % 2 = 0)   -> h
      [] way = "down" \/ (way = "turns" /\ slot % 2 = 1) -> -h
      [] way = "mixed"                                   -> (h * (slot + 1)) % 29

(* Drafts with a first ban, with a first pick, with an unknown hero.       *)
Entry(isPick, team, hero) == [isPick |-> isPick, team |-> team, hero |-> hero]
Shapes == {<<Entry(FALSE, "radiant", 1), Entry(TRUE, "dire", 2), Entry(TRUE, "radiant", 3)>>,
           <<Entry(TRUE, "dire", 1), Entry(FALSE, "radiant", 3), Entry(TRUE, "radiant", 2)>>,
           <<Entry(TRUE, "radiant", 2), Entry(TRUE, "dire", 9)>>}

(* The rows of three matches, by match and by their order in it.           *)
RowsOf(m, d) ==
    [i \in DOMAIN d |-> [match |-> m, isPick |-> d[i].isPick, team |-> d[i].team, hero |-> d[i].hero]]
ThreeMatches == {FlattenSeq([m \in 1..3 |-> RowsOf(m, f[m])]) : f \in [1..3 -> Shapes]}
Heroes3 == 0..3

(* Drafts with bans in any number before, between and after the picks.     *)
DraftFrom(b, last, tail) ==
    Bans(b[1]) \o Picks(2) \o Bans(b[2]) \o Picks(2) \o Bans(b[3]) \o Picks(2) \o
    Bans(b[4]) \o Picks(2) \o Bans(b[5]) \o Picks(last) \o Bans(tail)
DraftInputs ==
    {d \in {DraftFrom(b, last, tail) :
               b \in [1..5 -> {0, 2, 3, 4, 6, 7}], last \in 1..2, tail \in 0..1} :
       Len(d) \in 15..25}

(* The instances meet what the theorems about their modules assume.        *)
ASSUME AnalysisConstants ==
    /\ ServingConstants /\ SimulateConstants /\ BacktestConstants
    /\ DraftInputs \subseteq Seq(BOOLEAN)

=============================================================================
