------------------------------- MODULE Backtest -------------------------------
(***************************************************************************)
(* eval.Replay: the backtest replays the drafts of a patch and asks at     *)
(* every pick how high a baseline ranks the hero that was really picked.   *)
(* The rows come ordered by match and by their order in the match; the     *)
(* rank is the baseline's choice, and any where the hero is legal.         *)
(***************************************************************************)
EXTENDS DraftState

CONSTANTS
    Results,   \* what the query may return: rows of match, isPick, team, hero
    Matches,   \* the matches of the patch
    Limits,    \* cfg.Limit, 0 for all
    BackCatalog

VARIABLES
    rows,      \* the result of the query
    limit,
    doing,     \* rosters, query, collect, replay, done, or failed
    pos,       \* next row to collect
    phases,    \* match -> its rows so far, of the matches in order
    order,     \* matchOrder
    tables,    \* match -> its phase table
    cur, idx,  \* match and row under replay
    played,    \* picks and bans of the match under replay
    rosters,   \* match -> team -> roster, of the matches that have one
    acc,       \* phase name -> counts
    asked      \* history: what the baseline was asked

backVars == <<rows, limit, doing, pos, phases, order, tables, cur, idx, played, rosters, acc, asked>>

(* "ORDER BY pb.match_id, pb.ord".                                         *)
BacktestConstants ==
    /\ BackCatalog \subseteq Nat /\ IsFiniteSet(BackCatalog)
    /\ Matches \subseteq Nat /\ Limits \subseteq Nat
    /\ Results \subseteq Seq([match : Matches, isPick : BOOLEAN, team : Teams, hero : Nat])
    /\ \A r \in Results : \A i, j \in DOMAIN r : i < j => r[i].match <= r[j].match

BackInit ==
    /\ rows \in Results
    /\ limit \in Limits
    /\ doing = "rosters" /\ pos = 1
    /\ phases = <<>> /\ order = <<>> /\ tables = <<>>
    /\ cur = 1 /\ idx = 1 /\ played = NoDraft
    /\ rosters = [m \in {} |-> {}] /\ acc = [n \in {} |-> {}] /\ asked = {}

(* player_matches may lack a match, and the query may fail: optional.      *)
LoadRosters ==
    /\ doing = "rosters"
    /\ \E known \in SUBSET Matches :
          rosters' = [m \in known |-> [t \in Teams |-> {<<m, t>>}]]
    /\ doing' = "query"
    /\ UNCHANGED <<rows, limit, pos, phases, order, tables, cur, idx, played, acc, asked>>

(* All rows are read first; an error there ends the backtest.              *)
QueryRows ==
    /\ doing = "query"
    /\ doing' \in {"collect", "failed"}
    /\ UNCHANGED <<rows, limit, pos, phases, order, tables, cur, idx, played, rosters, acc, asked>>

(* Checked before every row: one row of one match too many is let in.      *)
LimitReached == limit > 0 /\ Len(order) > limit

PlaceOf(m) == CHOOSE i \in DOMAIN order : order[i] = m

Collect ==
    /\ doing = "collect" /\ pos <= Len(rows) /\ ~LimitReached
    /\ LET r == rows[pos]
       IN  IF r.match \in ToSet(order)
           THEN /\ phases' = [phases EXCEPT ![PlaceOf(r.match)] = Append(@, r)]
                /\ UNCHANGED order
           ELSE /\ phases' = Append(phases, <<r>>)
                /\ order' = Append(order, r.match)
    /\ pos' = pos + 1
    /\ UNCHANGED <<rows, limit, doing, tables, cur, idx, played, rosters, acc, asked>>

IsPickSeq(ps) == [i \in DOMAIN ps |-> ps[i].isPick]

TableOf(ps) == DerivePhaseTable(IsPickSeq(ps))

DeriveTables ==
    /\ doing = "collect" /\ (pos > Len(rows) \/ LimitReached)
    /\ tables' = [i \in DOMAIN phases |-> TableOf(phases[i])]
    /\ doing' = "replay"
    /\ UNCHANGED <<rows, limit, pos, phases, order, cur, idx, played, rosters, acc, asked>>

Replaying == doing = "replay" /\ cur <= Len(order) /\ idx <= Len(phases[cur])
ThisRow == phases[cur][idx]
Unchanged == UNCHANGED <<rows, limit, doing, pos, phases, order, tables, cur, rosters>>

ReplayBan ==
    /\ Replaying /\ ~ThisRow.isPick
    /\ played' = Extend(played, ThisRow.team, FALSE, ThisRow.hero)
    /\ idx' = idx + 1
    /\ Unchanged /\ UNCHANGED <<acc, asked>>

(* Bug variant: the pick is in the state that it is to be predicted from.  *)
KnownBeforeHindsight == Extend(played, ThisRow.team, TRUE, ThisRow.hero)

KnownBefore == played

Asked ==
    LET m == order[cur]
    IN  NewDraftState(ThisRow.team, tables[cur],
                      IF m \in DOMAIN rosters THEN rosters[m] ELSE [t \in Teams |-> {}],
                      KnownBefore, idx - 1)

computeRecall(rank, n) == IF rank <= n THEN 1 ELSE 0
Count(old, rank) == [total |-> old.total + 1, correct |-> old.correct + computeRecall(rank, 1),
                     recall3 |-> old.recall3 + computeRecall(rank, 3)]
Zero == [total |-> 0, correct |-> 0, recall3 |-> 0]

(* An illegal or unknown hero has no rank and is not counted; without a    *)
(* legal hero the pick is not even recorded.                               *)
ReplayPick ==
    /\ Replaying /\ ThisRow.isPick
    /\ LET legal == LegalHeroes(Asked, BackCatalog)
           name  == Phase(Asked).name
       IN  IF legal = {} THEN UNCHANGED <<played, acc, asked>>
           ELSE /\ played' = Extend(played, ThisRow.team, TRUE, ThisRow.hero)
                /\ asked' = asked \cup {[match |-> order[cur], idx |-> idx, legal |-> legal,
                                         roster |-> Asked.roster]}
                /\ IF ThisRow.hero \in legal
                   THEN \E rank \in 1..Cardinality(legal) :
                           acc' = [n \in DOMAIN acc \cup {name} |->
                                      IF n # name THEN acc[n]
                                      ELSE Count(IF n \in DOMAIN acc THEN acc[n] ELSE Zero, rank)]
                   ELSE UNCHANGED acc
    /\ idx' = idx + 1
    /\ Unchanged

StartOfMatch == NoDraft

NextMatch ==
    /\ doing = "replay" /\ cur <= Len(order) /\ idx > Len(phases[cur])
    /\ cur' = cur + 1 /\ idx' = 1 /\ played' = StartOfMatch
    /\ UNCHANGED <<rows, limit, doing, pos, phases, order, tables, rosters, acc, asked>>

(* The averages that are returned are taken from the counts.               *)
ReplayEnds ==
    /\ doing = "replay" /\ cur > Len(order)
    /\ doing' = "done"
    /\ UNCHANGED <<rows, limit, pos, phases, order, tables, cur, idx, played, rosters, acc, asked>>

BackNext ==
    \/ LoadRosters \/ QueryRows \/ Collect \/ DeriveTables
    \/ ReplayBan \/ ReplayPick \/ NextMatch \/ ReplayEnds

BackSpec == BackInit /\ [][BackNext]_backVars

-----------------------------------------------------------------------------
StartOf(m) ==
    CHOOSE j \in DOMAIN rows : rows[j].match = m /\ \A i \in DOMAIN rows : rows[i].match = m => j <= i
RowOf(m, i) == rows[StartOf(m) + i - 1]

(* The replay has the first rows of its i-th match, or all of them.        *)
Begun(i) == \A j \in DOMAIN phases[i] :
               StartOf(order[i]) + j - 1 \in DOMAIN rows /\ phases[i][j] = RowOf(order[i], j)
Whole(i) == {j \in DOMAIN rows : rows[j].match = order[i]} =
               StartOf(order[i])..(StartOf(order[i]) + Len(phases[i]) - 1)

(* Replay: whatever the limit and wherever it cuts the rows off, the first *)
(* matches up to it are replayed whole and in order, no match before or    *)
(* between them is left out, and of a match there are its first rows.      *)
LimitKeepsMatches ==
    doing \in {"replay", "done"} =>
       /\ \A i, j \in DOMAIN order : i < j => order[i] < order[j]
       /\ \A i \in DOMAIN order : Begun(i) /\ (limit = 0 \/ i <= limit => Whole(i))
       /\ \A i \in DOMAIN rows :
             rows[i].match \in ToSet(order) \/
             (limit > 0 /\ limit \in DOMAIN order /\ order[limit] < rows[i].match)

(* ReplayConfig.Limit, "max matches to replay": no further match is begun. *)
MaxMatches == (doing \in {"replay", "done"} /\ limit > 0) => Len(order) <= limit

(* Replay: the baseline is asked with what was known at that pick: the     *)
(* heroes that the earlier rows of this match, and of no other, leave, and *)
(* the roster of the side that picks or none.                              *)
NoHindsight ==
    \A q \in asked :
       /\ q.legal = (BackCatalog \ {HeroIDNone}) \ {RowOf(q.match, i).hero : i \in 1..q.idx - 1}
       /\ q.roster \in {{}, {<<q.match, RowOf(q.match, q.idx).team>>}}

(* The picks that there is something to count for: a hero of the catalog   *)
(* that the match has not had before.                                      *)
Countable(i, j) ==
    /\ phases[i][j].isPick
    /\ phases[i][j].hero \in BackCatalog \ {HeroIDNone}
    /\ \A h \in 1..j - 1 : phases[i][h].hero # phases[i][j].hero
Under(n) == {x \in (DOMAIN order) \X (DOMAIN rows) :
               x[2] \in DOMAIN phases[x[1]] /\ Countable(x[1], x[2])
                                           /\ tables[x[1]][x[2]].name = n}

(* Replay: "using raw ord corrupts the backtest by looking up the wrong    *)
(* phase": every count is under the name of a pick phase, and in the end   *)
(* it is the number of the picks that have this name in the table of their *)
(* match; none is left out.                                                *)
CountsAddUp ==
    /\ \A n \in DOMAIN acc : n[1] = "pick" /\ acc[n].correct <= acc[n].recall3
                                           /\ acc[n].recall3 <= acc[n].total
    /\ doing = "done" =>
          /\ \A n \in DOMAIN acc : acc[n].total = Cardinality(Under(n))
          /\ \A i \in DOMAIN order : \A j \in DOMAIN phases[i] :
                Countable(i, j) => tables[i][j].name \in DOMAIN acc

(* eval.Replay: the matches up to the limit are replayed whole, with what  *)
(* was known at each pick, and the counts add up under pick phases.        *)
BacktestSound == LimitKeepsMatches /\ NoHindsight /\ CountsAddUp

=============================================================================
