------------------------------ MODULE DraftState ------------------------------
(***************************************************************************)
(* A draft as go-analysis sees it while it goes on (domain/draft.go), and  *)
(* the features that depend on nothing else (features/draft_source.go).    *)
(* The API and the backtester both ask for recommendations with it.        *)
(***************************************************************************)
EXTENDS DraftRules

HeroIDNone == 0
Teams == {"radiant", "dire"}
Other(team) == IF team = "radiant" THEN "dire" ELSE "radiant"

NoDraft == [t \in Teams |-> [picks |-> <<>>, bans |-> <<>>]]

Drafted(sides) == UNION {ToSet(sides[t].picks) \cup ToSet(sides[t].bans) : t \in Teams}

(* An immutable copy, as team sees it.  slot counts from zero.             *)
NewDraftState(team, table, rosters, sides, slot) ==
    [us |-> sides[team], them |-> sides[Other(team)], roster |-> rosters[team],
     phases |-> table, slot |-> slot, drafted |-> Drafted(sides)]

LegalHeroes(st, catalog) == {h \in catalog : h # HeroIDNone /\ h \notin st.drafted}

Phase(st) == st.phases[st.slot + 1]

(* Bug variant: only the picks are kept.                                   *)
ExtendPicksOnly(sides, team, isPick, hero) ==
    IF isPick THEN [sides EXCEPT ![team].picks = Append(@, hero)] ELSE sides

(* What both callers do with the hero of a slot.                           *)
Extend(sides, team, isPick, hero) ==
    IF isPick THEN [sides EXCEPT ![team].picks = Append(@, hero)]
    ELSE [sides EXCEPT ![team].bans = Append(@, hero)]

-----------------------------------------------------------------------------
(* Features of the draft, the same for all candidates.                     *)

teamPicksBefore(st)  == Len(st.us.picks)
enemyPicksBefore(st) == Len(st.them.picks)

Limited(lo, v, hi) == IF v < lo THEN lo ELSE IF v > hi THEN hi ELSE v

(* draft_slot_norm in thirtieths, draft_progress in tenths.                *)
DraftFeatures(st) ==
    [draft_slot_norm      |-> st.slot,
     is_pick_phase        |-> ~Phase(st).ban,
     team_picks_before    |-> teamPicksBefore(st),
     enemy_picks_before   |-> enemyPicksBefore(st),
     is_first_pick        |-> teamPicksBefore(st) = 0,
     is_last_pick         |-> teamPicksBefore(st) = 4,
     is_counter_phase     |-> enemyPicksBefore(st) > teamPicksBefore(st),
     remaining_team_picks |-> Limited(0, 5 - teamPicksBefore(st), 5),
     draft_progress       |-> Limited(0, teamPicksBefore(st) + enemyPicksBefore(st), 10)]

=============================================================================
