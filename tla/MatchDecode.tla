----------------------------- MODULE MatchDecode -----------------------------
(***************************************************************************)
(* What the parser makes of a payload (decode_match.go, decode_players.go, *)
(* decode_events.go) and what the upserts of matchpg make of that: which   *)
(* columns are NULL, what a second payload of a match changes in its root  *)
(* row, which rows of the time series there are.                           *)
(*                                                                         *)
(* A JSON field is Nil when it is missing, as the pointer it decodes to;   *)
(* SQL's NULL is Nil too.  Of the many fields that are treated alike one   *)
(* is kept: score stands for towers, barracks, scores, first blood and     *)
(* salt, url for the texts, pauses for the raw JSON.  A list that is       *)
(* missing is an empty one; json says whether the payload is JSON at all.  *)
(***************************************************************************)
EXTENDS Integers, Sequences, FiniteSets, SequencesExt, Probes

CONSTANTS
    Nil,
    ParseTask,   \* the match_id of the task that payloads arrive under
    Messages     \* payloads that the parser may be given

VARIABLES
    message,     \* the last payload that handleMessage was given, or Nil
    held         \* what Postgres has of the match

decodeVars == <<message, held>>

MaxInt16 == 32767
TooMuch  == MaxInt16 + 8     \* a count that an int16 does not hold

deref(p, zero) == IF p = Nil THEN zero ELSE p
decToBool(p)   == IF p = Nil THEN Nil ELSE p # 0
safeIdx(s, i)  == IF i <= Len(s) THEN s[i] ELSE Nil

(* Conversion of an int32 to an int16.                                     *)
int16(v) == ((v + 32768) % 65536) - 32768

(* Bug variant: no limit before the conversion.                            *)
safeIdxSmallWraps(s, i) == IF i <= Len(s) THEN int16(s[i]) ELSE Nil

safeIdxSmall(s, i) ==
    IF i <= Len(s) THEN int16(IF s[i] > MaxInt16 THEN MaxInt16 ELSE s[i]) ELSE Nil

-----------------------------------------------------------------------------
(* Payloads.  A count is not negative; picks holds the teams of the picks  *)
(* and bans.                                                               *)
rawPlayer ==
    [slot : Nat, hero : Int, purchaseLog : {Nil, "null", "log"}, goldT : Seq(Int), xpT : Seq(Int),
     lhT : Seq(Nat), dnT : Seq(Nat), times : Seq(Int), win : {Nil, 0, 1},
     isRadiant : {Nil, TRUE, FALSE}, firstblood : {Nil, 0, 1}]

rawEvent ==
    [player : {Nil} \cup Nat, key : {Nil, "null", "other", "key"}, wellFormed : BOOLEAN]

rawMatch ==
    [json : BOOLEAN, matchID : Int, start : Int, duration : Int, radiantWin : {Nil, TRUE, FALSE},
     score : {Nil} \cup Int, url : {Nil, "", "url"}, pauses : {Nil, "null", "pauses"},
     objectives : Seq(rawEvent), chat : Seq(rawEvent), goldAdv : Seq(Int), xpAdv : Seq(Int),
     cosmetics : {Nil, "null", "cosmetics"}, picks : Seq(Int), players : Seq(rawPlayer)]

-----------------------------------------------------------------------------
(* decode_match.go                                                         *)

(* json.RawMessage holds a JSON null as "null".                            *)
HasLogs(p) == p.purchaseLog # Nil /\ p.purchaseLog # "null"

isMatchParsed(players) ==
    \E i \in DOMAIN players :
       HasLogs(players[i]) \/ players[i].goldT # <<>> \/ players[i].xpT # <<>>

(* What decodeMatch refuses: plain errors, which the ErrorTranslator does  *)
(* not know as JSON errors: the task is tried again, and then dead.        *)
MatchID(rm, task) == IF rm.matchID = 0 THEN task ELSE rm.matchID
Undecodable(rm, task) == MatchID(rm, task) <= 0 \/ rm.start = 0 \/ rm.duration < 0

validPlayerSlot(s) == s \in 0..4 \cup 128..132

(* What validate refuses: dropped.                                         *)
validate(rm, task) ==
    /\ MatchID(rm, task) > 0 /\ rm.start > 0
    /\ \A i \in DOMAIN rm.players : validPlayerSlot(rm.players[i].slot) /\ rm.players[i].hero >= 0
    /\ \A i \in DOMAIN rm.picks : rm.picks[i] \in {0, 1}

(* handleMessage up to the ingest.  An error of json.Unmarshal is one that *)
(* the ErrorTranslator turns into ErrDrop.                                 *)
Disposal(rm, task) ==
    IF ~rm.json THEN "drop"
    ELSE IF Undecodable(rm, task) THEN "retry"
    ELSE IF ~validate(rm, task) THEN "drop" ELSE "ingest"

decodeMatchRoot(rm, task) ==
    [matchID |-> MatchID(rm, task), start |-> rm.start, radiantWin |-> rm.radiantWin,
     score |-> deref(rm.score, 0), url |-> deref(rm.url, ""), pauses |-> rm.pauses,
     isParsed |-> isMatchParsed(rm.players)]

convertPlayer(rp) ==
    [slot |-> rp.slot, win |-> rp.win # Nil /\ rp.win = 1,
     isRadiant |-> deref(rp.isRadiant, FALSE),
     firstblood |-> deref(decToBool(rp.firstblood), FALSE), goldT |-> rp.goldT, xpT |-> rp.xpT]

convertPlayerDetail(rp) == [slot |-> rp.slot, purchaseLog |-> rp.purchaseLog]

decodePlayers(players) ==
    [players |-> [i \in DOMAIN players |-> convertPlayer(players[i])],
     details |-> [i \in DOMAIN players |-> convertPlayerDetail(players[i])]]

(* decode_events.go: an objective is kept unless it is malformed, a chat   *)
(* line always; a missing player becomes slot 0, a key that is neither a   *)
(* string nor a number none.                                               *)
objectiveKeyAsString(key) == IF key \in {Nil, "null", "other"} THEN "" ELSE key
decodeObjectives(raw) ==
    LET good == SelectSeq(raw, LAMBDA o : o.wellFormed)
    IN  [i \in DOMAIN good |-> [player |-> deref(good[i].player, 0),
                                key |-> objectiveKeyAsString(good[i].key)]]
decodeChat(raw) == [i \in DOMAIN raw |-> [player |-> deref(raw[i].player, 0),
                                          key |-> deref(raw[i].key, "")]]
decodeAdvantages(gold, xp) == IF gold = <<>> /\ xp = <<>> THEN Nil ELSE <<gold, xp>>

-----------------------------------------------------------------------------
(* The time series: minute i - 1 is position i of the lists.               *)

maxMin(p) ==
    LET lens == {Len(p.times), Len(p.goldT), Len(p.xpT), Len(p.lhT), Len(p.dnT)}
    IN  CHOOSE n \in lens : \A k \in lens : k <= n

(* The row of minute i, or Nil where there is no value at all.             *)
SeriesRow(p, i) ==
    LET gold == safeIdx(p.goldT, i)  xp == safeIdx(p.xpT, i)
        lh == safeIdxSmall(p.lhT, i)  dn == safeIdxSmall(p.dnT, i)
    IN  IF gold = Nil /\ xp = Nil /\ lh = Nil /\ dn = Nil THEN Nil
        ELSE [slot |-> p.slot, minute |-> int16(i - 1), gold |-> deref(gold, 0), xp |-> deref(xp, 0),
              lh |-> deref(lh, 0), dn |-> deref(dn, 0)]

(* The rows, by player and position, in the order of which they are made.  *)
expandTimeseries(players) ==
    LET minutes == UNION {{i} \X (1..maxMin(players[i])) : i \in DOMAIN players}
    IN  [x \in {y \in minutes : SeriesRow(players[y[1]], y[2]) # Nil} |->
            SeriesRow(players[x[1]], x[2])]

-----------------------------------------------------------------------------
(* matchpg: NULLs, and the upsert of the root row.                         *)
jsonbOrNull(raw) == IF raw = Nil \/ raw = "null" THEN Nil ELSE raw
nullIfStr(s)     == IF s = "" THEN Nil ELSE s
Coalesce(new, old) == IF new = Nil THEN old ELSE new

(* Bug variant: raw JSON goes in as it came.                               *)
RootArgsRaw(m) == [radiantWin |-> m.radiantWin, score |-> m.score, url |-> nullIfStr(m.url),
                   pauses |-> m.pauses, isParsed |-> m.isParsed]

RootArgs(m) == [radiantWin |-> m.radiantWin, score |-> m.score, url |-> nullIfStr(m.url),
                pauses |-> jsonbOrNull(m.pauses), isParsed |-> m.isParsed]

(* ON CONFLICT (match_id, start_time) DO UPDATE ... WHERE.                 *)
upsertMatchRoot(old, new) ==
    IF old = Nil THEN new
    ELSE IF old.isParsed /\ ~new.isParsed THEN old
    ELSE [radiantWin |-> Coalesce(new.radiantWin, old.radiantWin),
          score |-> Coalesce(new.score, old.score), url |-> Coalesce(new.url, old.url),
          pauses |-> Coalesce(new.pauses, old.pauses), isParsed |-> old.isParsed \/ new.isParsed]

(* replaceObjectives, replaceChat, upsertAdvantages, upsertCosmetics: with *)
(* nothing in the payload nothing is touched.  Else all that was there is  *)
(* overwritten, without COALESCE: gold and experience together, though one *)
(* of the lists may be empty, and the cosmetics by a JSON null as well.    *)
Replace(old, new) == IF new = <<>> THEN old ELSE new
Overwrite(old, new) == IF new = Nil THEN old ELSE new

(* A match in Postgres after IngestMatch.                                  *)
IngestedMatch(old, rm, task) ==
    LET m    == decodeMatchRoot(rm, task)
        root == upsertMatchRoot(old.root, RootArgs(m))
    IN  IF ~m.isParsed THEN [old EXCEPT !.root = root]
        ELSE [root |-> root,
              objectives |-> Replace(old.objectives, decodeObjectives(rm.objectives)),
              chat |-> Replace(old.chat, decodeChat(rm.chat)),
              advantages |-> Overwrite(old.advantages, decodeAdvantages(rm.goldAdv, rm.xpAdv)),
              cosmetics |-> Overwrite(old.cosmetics, rm.cosmetics)]

NothingHeld ==
    [root |-> Nil, objectives |-> <<>>, chat |-> <<>>, advantages |-> Nil, cosmetics |-> Nil]

DecodeInit == message = Nil /\ held = NothingHeld

(* handleMessage, with any payload of the match: the first, or a later one *)
(* that was fetched again.                                                 *)
HandleMessage ==
    \E rm \in Messages :
       /\ message' = rm
       /\ held' = IF Disposal(rm, ParseTask) = "ingest" THEN IngestedMatch(held, rm, ParseTask)
                  ELSE held

DecodeSpec == DecodeInit /\ [][HandleMessage]_decodeVars

-----------------------------------------------------------------------------
(* The positions at which one of a player's lists has a value.             *)
Valued(p) == 1..Len(p.goldT) \cup 1..Len(p.xpT) \cup 1..Len(p.lhT) \cup 1..Len(p.dnT)

(* expandTimeseries: each player has a row for exactly the positions at    *)
(* which one of the lists has a value, however much shorter Times or the   *)
(* others are: mismatched lengths are no error.  No count of last hits or  *)
(* denies turns negative on its way into an int16; the minute does after   *)
(* 32768 of them, and is right up to there.                                *)
TimeseriesComplete(players) ==
    LET rows == expandTimeseries(players)
    IN  /\ DOMAIN rows = UNION {{i} \X Valued(players[i]) : i \in DOMAIN players}
        /\ \A x \in DOMAIN rows :
              /\ rows[x].slot = players[x[1]].slot
              /\ rows[x].lh >= 0 /\ rows[x].dn >= 0
              /\ x[2] <= MaxInt16 + 1 => rows[x].minute = x[2] - 1

(* The root row, as far as it is kept here.  A missing value is none of    *)
(* the values and none of the rows.                                        *)
RootRow == [radiantWin : {Nil, TRUE, FALSE}, score : Int, url : {Nil, "url"},
            pauses : {Nil, "pauses"}, isParsed : BOOLEAN]
RowOfMinute == [slot : Nat, minute : Int, gold : Int, xp : Int, lh : Int, dn : Int]

DecodeConstants ==
    /\ Nil \notin Int /\ Nil \notin RowOfMinute /\ Nil \notin RootRow
    /\ Nil \notin Seq(Int) \X Seq(Int)
    /\ Nil \notin {"", "null", "pauses", "url", "cosmetics"}
    /\ Messages \subseteq rawMatch

(* decode_players.go, expandTimeseries: a row for each minute with a value *)
(* and no other, none with a negative count.                               *)
DecodeSound == On("players") => TimeseriesComplete(probe)

(* What a step of handleMessage from old to new may not do to the match,   *)
(* when it was given rm: it keeps what no payload is allowed to erase, and *)
(* stores what the payload decides, if it is taken and brings it.          *)
Keeps(old, new, rm) ==
    LET parsed == isMatchParsed(rm.players)
        taken  == Disposal(rm, ParseTask) = "ingest" /\
                  (old.root = Nil \/ ~old.root.isParsed \/ parsed)
    IN  /\ old.root # Nil => /\ new.root # Nil
                             /\ old.root.radiantWin # Nil => new.root.radiantWin # Nil
                             /\ old.root.url # Nil => new.root.url # Nil
                             /\ old.root.pauses # Nil => new.root.pauses # Nil
                             /\ old.root.isParsed => new.root.isParsed
        /\ old.objectives # <<>> => new.objectives # <<>>
        /\ old.chat # <<>> => new.chat # <<>>
        /\ old.advantages # Nil => new.advantages # Nil
        /\ old.cosmetics # Nil => new.cosmetics # Nil
        /\ taken => /\ rm.radiantWin # Nil => new.root.radiantWin = rm.radiantWin
                    /\ rm.pauses = "pauses" => new.root.pauses = "pauses"
                    /\ new.root.pauses # "null"
        /\ taken /\ parsed =>
              /\ rm.goldAdv # <<>> \/ rm.xpAdv # <<>> => new.advantages = <<rm.goldAdv, rm.xpAdv>>
              /\ rm.cosmetics = "cosmetics" => new.cosmetics = "cosmetics"
        /\ ~taken => new = old

(* upsertMatchRoot, replaceObjectives, replaceChat: what some payload      *)
(* brought for a COALESCE column that can be NULL, the objectives or the   *)
(* chat is never lost to a later payload without it, after any number of   *)
(* payloads, and a later one that is taken and has a value decides it.     *)
(* upsertAdvantages, upsertCosmetics: the row stays, but not what is in    *)
(* it: a payload with gold only empties the stored experience, one whose   *)
(* cosmetics are JSON null the stored ones.  The columns that a missing    *)
(* field decodes to 0 in are overwritten, too.                             *)
KnownKept == [][message' # Nil => Keeps(held, held', message')]_decodeVars

=============================================================================
