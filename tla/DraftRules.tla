------------------------------ MODULE DraftRules ------------------------------
(***************************************************************************)
(* Captain's Mode drafts: how go-ingestion validates a draft, assigns its  *)
(* phases and tells its era, and the phase tables of go-analysis.  A draft *)
(* is the sequence of its is_pick flags in the order of the match; a team  *)
(* that declines a ban leaves no entry.                                    *)
(***************************************************************************)
EXTENDS Integers, Sequences, FiniteSets, SequencesExt, Probes

Times(n, flag) == [i \in 1..n |-> flag]
Bans(n) == Times(n, FALSE)
Picks(n) == Times(n, TRUE)

CmDraftPatterns ==
    [pre_7_30     |-> Bans(4) \o Picks(6) \o Bans(6) \o Picks(4),
     from_7_30    |-> Bans(4) \o Picks(4) \o Bans(6) \o Picks(4) \o Bans(4) \o Picks(2),
     from_7_33    |-> Bans(7) \o Picks(2) \o Bans(3) \o Picks(6) \o Bans(4) \o Picks(2)]

(* Most recent first.                                                      *)
OrderedEraPatterns == <<"from_7_33", "from_7_30", "pre_7_30">>

CountOf(flag, s) == Cardinality({i \in DOMAIN s : s[i] = flag})

(* One pass over the pattern; i is the entry to match next, 0 a return of  *)
(* false.                                                                  *)
Advance(observed, i, flag) ==
    IF i = 0 \/ i > Len(observed) THEN i
    ELSE IF observed[i] = flag THEN i + 1
    ELSE IF flag THEN 0 ELSE i

Scan(observed, pattern) ==
    LET oi[p \in 0..Len(pattern)] ==
           IF p = 0 THEN 1 ELSE Advance(observed, oi[p - 1], pattern[p])
    IN  oi[Len(pattern)]

IsSubsequenceRemovesOnlyBans(observed, pattern) ==
    observed # <<>> /\ Scan(observed, pattern) = Len(observed) + 1

MatchesAnyPatternAllowingDeclinedBans(observed) ==
    \E era \in DOMAIN CmDraftPatterns :
       IsSubsequenceRemovesOnlyBans(observed, CmDraftPatterns[era])

ValidateDraft(d) ==
    /\ Len(d) \in 16..24
    /\ CountOf(TRUE, d) = 10
    /\ MatchesAnyPatternAllowingDeclinedBans(d)

(* An exact match, or else the first of the patterns with the smallest gap *)
(* to the draft that is less than Len(d) + 1.                              *)
DetectDraftEra(d) ==
    LET pattern(i) == CmDraftPatterns[OrderedEraPatterns[i]]
        gap(i) == Len(pattern(i)) - Len(d)
        exact == {i \in 1..3 : d = pattern(i)}
        fits == {i \in 1..3 : IsSubsequenceRemovesOnlyBans(d, pattern(i)) /\ gap(i) <= Len(d)}
        best == {i \in fits : \A j \in fits : gap(i) < gap(j) \/ (gap(i) = gap(j) /\ i <= j)}
    IN  IF exact # {} THEN OrderedEraPatterns[CHOOSE i \in exact : TRUE]
        ELSE IF best # {} THEN OrderedEraPatterns[CHOOSE i \in best : TRUE]
        ELSE "unknown"

(* Entries before which picks and bans switch.                             *)
Switches(d, i) == Cardinality({k \in 2..i : d[k] # d[k - 1]})

(* Bug variant: a draft with all its phases is taken for a complete one,   *)
(* and its phases are read off the pattern by position.                    *)
AssignPhasesByPosition(d) ==
    LET Like(full) == /\ IsSubsequenceRemovesOnlyBans(d, full)
                      /\ CountOf(TRUE, d) = CountOf(TRUE, full)
                      /\ Switches(d, Len(d)) = Switches(full, Len(full))
        alike == {e \in DOMAIN CmDraftPatterns : Like(CmDraftPatterns[e])}
        taken == IF alike = {} THEN d ELSE CmDraftPatterns[CHOOSE e \in alike : TRUE]
    IN  [i \in DOMAIN d |-> Switches(taken, i)]

AssignPhases(d) == [i \in DOMAIN d |-> Switches(d, i)]

(* "pick_n" or "ban_n".                                                    *)
PhaseName(phase, isPick) == <<IF isPick THEN "pick" ELSE "ban", phase \div 2 + 1>>

PhaseNames(d) ==
    LET phases == AssignPhases(d)
    IN  [i \in DOMAIN d |-> PhaseName(phases[i], d[i])]

-----------------------------------------------------------------------------
(* go-analysis: the table of a complete draft, and one made from a draft.  *)

Slot(kind, n, team) == [name |-> <<kind, n>>, ban |-> kind = "ban", team |-> team]

CMPhaseTable ==
    LET R(kind, n) == Slot(kind, n, "radiant")
        D(kind, n) == Slot(kind, n, "dire")
    IN  << R("ban", 1), D("ban", 1), R("ban", 2), D("ban", 2), R("ban", 3), D("ban", 3),
           R("ban", 4), D("pick", 1), R("pick", 1), D("ban", 5), R("ban", 5), D("ban", 6),
           R("pick", 2), D("pick", 2), R("pick", 3), D("pick", 3), R("pick", 4), D("pick", 4),
           R("ban", 7), D("ban", 7), R("ban", 8), D("ban", 8), R("pick", 5), D("pick", 5) >>

(* slot counts from zero.                                                  *)
ActingTeam(slot) == IF slot % 2 = 0 THEN "radiant" ELSE "dire"

(* A draft without its first bans starts with phase 1.                     *)
FirstPhase(d) == IF d[1] THEN 1 ELSE 0

DerivePhaseTable(d) ==
    [i \in DOMAIN d |->
        [name |-> PhaseName(FirstPhase(d) + Switches(d, i), d[i]),
         ban |-> ~d[i],
         team |-> ActingTeam(i - 1)]]

-----------------------------------------------------------------------------
(* Reference: a draft is a pattern without some of its bans iff it has as  *)
(* many picks and before each of them, and after the last, no more bans    *)
(* than the pattern has there.                                             *)

PicksUpTo(s, i) == Cardinality({k \in 1..i : s[k]})
PickAt(s, k) == CHOOSE i \in DOMAIN s : s[i] /\ PicksUpTo(s, i) = k

(* The number of bans between pick k and the next one.                     *)
BanRun(s, k) == Cardinality({i \in DOMAIN s : ~s[i] /\ PicksUpTo(s, i) = k})

WithoutSomeBans(d, pattern) ==
    /\ CountOf(TRUE, d) = CountOf(TRUE, pattern)
    /\ \A k \in 0..CountOf(TRUE, d) : BanRun(d, k) <= BanRun(pattern, k)

ErasOf(d) == {e \in DOMAIN CmDraftPatterns : WithoutSomeBans(d, CmDraftPatterns[e])}

(* The phases of pattern that d has an entry of.                           *)
NoPhaseDeclined(d, pattern) ==
    \A k \in 0..CountOf(TRUE, d) : BanRun(pattern, k) > 0 => BanRun(d, k) > 0

(* ValidateDraft: "allows for declined bans (fewer bans than the pattern   *)
(* specifies) as long as the overall structure is consistent": the greedy  *)
(* scan accepts exactly the drafts of 16 to 24 entries that are a pattern  *)
(* without some of its bans.                                               *)
ValidationExact(d) == ValidateDraft(d) <=> (Len(d) \in 16..24 /\ ErasOf(d) # {})

(* DetectDraftEra: "the pattern with the smallest gap (fewest declined     *)
(* bans) wins"; a draft that passed validation always has an era.          *)
EraFits(d) ==
    ValidateDraft(d) =>
       /\ DetectDraftEra(d) \in ErasOf(d)
       /\ \A e \in ErasOf(d) :
             Len(CmDraftPatterns[DetectDraftEra(d)]) <= Len(CmDraftPatterns[e])

(* AssignPhases: "Same phase numbers" when bans are declined: as long as   *)
(* no ban phase is declined as a whole, every pick has the phase that it   *)
(* has in the complete draft of its era.                                   *)
PhasesStable(d) ==
    \A e \in ErasOf(d) :
       LET full == CmDraftPatterns[e]
       IN  NoPhaseDeclined(d, full) =>
              \A k \in 1..10 : AssignPhases(d)[PickAt(d, k)] = AssignPhases(full)[PickAt(full, k)]

(* PhaseNames and DerivePhaseTable, the one in go-ingestion, the other in  *)
(* go-analysis: the backtester reports a pick under the name that          *)
(* ingestion gives it, for drafts that start with a pick, too.             *)
PickNamesAgree(d) ==
    \A i \in DOMAIN d : d[i] => DerivePhaseTable(d)[i].name = PhaseNames(d)[i]

(* CMPhaseTable, which the API recommends by, DerivePhaseTable and the     *)
(* validator's latest pattern describe the same complete draft: kinds and  *)
(* acting teams agree slot by slot, with five picks for each team.         *)
TablesAgree(d) ==
    LET full == CmDraftPatterns["from_7_33"]
        derived == DerivePhaseTable(full)
    IN  d = full =>
           /\ Len(CMPhaseTable) = Len(full)
           /\ \A i \in DOMAIN full : /\ CMPhaseTable[i].ban = derived[i].ban
                                     /\ CMPhaseTable[i].team = derived[i].team
           /\ \A t \in {"radiant", "dire"} :
                 Cardinality({i \in DOMAIN full : full[i] /\ CMPhaseTable[i].team = t}) = 5

(* ValidateDraft accepts exactly the patterns without some of their bans,  *)
(* and DetectDraftEra then finds the closest.  AssignPhases keeps picks in *)
(* their phase as long as no ban phase is declined as a whole.  The two    *)
(* services agree on the names of picks, their tables of the complete      *)
(* draft on kinds and teams; CMPhaseTable's own names are not compared,    *)
(* they differ from the derived ones (pick_3 for pick_2 at slot 14).       *)
DraftRulesSound ==
    On("drafts") =>
       /\ ValidationExact(probe) /\ EraFits(probe)
       /\ PhasesStable(probe) /\ PickNamesAgree(probe) /\ TablesAgree(probe)

=============================================================================
