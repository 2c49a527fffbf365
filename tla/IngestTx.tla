------------------------------- MODULE IngestTx -------------------------------
(***************************************************************************)
(* Store.IngestMatch of matchpg: the transaction that writes a match, one  *)
(* action per statement, run by several parsers at once, for one match     *)
(* among them (a match published twice), with the locks Postgres takes.    *)
(*                                                                         *)
(* A row stands for all rows of a table for a match and is named by the    *)
(* transaction that wrote it.  Which statement comes first for a match is  *)
(* decided by the row of matches: its upsert locks the row, or the index   *)
(* entry of a new one, until the transaction ends.  A statement that fails *)
(* leaves the transaction aborted: all later statements fail.              *)
(***************************************************************************)
EXTENDS Integers, Sequences, FiniteSets, SequencesExt

CONSTANTS
    Txs,           \* parsers, each with one payload to ingest
    Stored,        \* the matches the payloads are of
    Docs,          \* the payloads there may be
    NewHeroes,     \* heroes that Postgres has no row of, ordered by id
    Nobody,        \* no holder of a lock
    MaxTries,      \* bound: deliveries of one payload
    MaxTxFaults    \* bound: statements or commits that fail

VARIABLES
    doc,       \* tx -> its payload
    content,   \* table -> match -> writers of the rows that are committed
    isParsed,  \* matches whose root row says is_parsed
    heroes,    \* heroes with a committed row
    heroHeld,  \* hero -> the open transaction that has inserted it
    rootHeld,  \* match -> the open transaction that has its root row
    at,        \* tx -> stubs, the number of its next statement, or ended
    stubs,     \* tx -> heroes it has not yet asked for
    aborted,   \* transactions in the aborted state
    deleted,   \* tx -> table -> rows that its delete removes
    result,    \* tx -> what IngestMatch returned last: none, ok, error
    tries, txFaults

locks == <<heroHeld, rootHeld>>
base == <<content, isParsed, heroes>>
txVars == <<doc, base, locks, at, stubs, aborted, deleted, result, tries, txFaults>>

-----------------------------------------------------------------------------
(* The statements in their order; an unparsed payload ends after players.  *)
Statements(d) ==
    IF d.parsed
    THEN <<"matches", "team_matches", "players", "details", "picks_bans", "checkDraftSchema",
           "draft_timings", "advantages", "objectives", "chat", "teamfights", "cosmetics",
           "timeseries">>
    ELSE <<"matches", "team_matches", "players">>

(* How a table treats the rows it has: DO NOTHING, DO UPDATE, or a DELETE  *)
(* of what the statement sees and an insert.                               *)
KeepsFirst == {"players", "details", "picks_bans", "draft_timings", "timeseries"}
Updates    == {"matches", "team_matches", "advantages", "cosmetics"}
Replaces   == {"objectives", "chat", "teamfights"}
Tables     == KeepsFirst \cup Updates \cup Replaces
ParsedOnly == Tables \ {"matches", "team_matches", "players"}

(* A payload: its match, whether it is parsed, whether its draft passes    *)
(* checkDraftSchema, and the tables it has rows for.  A list may be empty; *)
(* a match that counts as parsed has a player, and so details.             *)
Payload ==
    {d \in [match : Stored, parsed : BOOLEAN, legal : BOOLEAN, has : SUBSET Tables] :
       "matches" \in d.has /\ (d.parsed => {"players", "details"} \subseteq d.has)}

(* The tables it writes: a statement with no rows returns at once.         *)
Writes(d) == ToSet(Statements(d)) \cap d.has

(* A lock has a holder or none; the bounds are numbers.                    *)
IngestConstants ==
    Docs \subseteq Payload /\ Nobody \notin Txs /\ MaxTries \in Nat /\ MaxTxFaults \in Nat

TxInit ==
    /\ doc \in [Txs -> Docs]
    /\ content = [t \in Tables |-> [m \in Stored |-> {}]]
    /\ isParsed = {} /\ heroes = {}
    /\ heroHeld = [h \in NewHeroes |-> Nobody]
    /\ rootHeld = [m \in Stored |-> Nobody]
    /\ at = [t \in Txs |-> 0]
    /\ stubs = [t \in Txs |-> NewHeroes]
    /\ aborted = {}
    /\ deleted = [t \in Txs |-> [r \in Replaces |-> {}]]
    /\ result = [t \in Txs |-> "none"]
    /\ tries = [t \in Txs |-> 1]
    /\ txFaults = 0

Open(t) == result[t] = "none"
TxFault == txFaults < MaxTxFaults /\ txFaults' = txFaults + 1
NoTxFault == UNCHANGED txFaults

Unlock(t) ==
    /\ heroHeld' = [h \in NewHeroes |-> IF heroHeld[h] = t THEN Nobody ELSE heroHeld[h]]
    /\ rootHeld' = [m \in Stored |-> IF rootHeld[m] = t THEN Nobody ELSE rootHeld[m]]

-----------------------------------------------------------------------------
(* ensure_hero_stubs, a single statement whose rows are inserted one by    *)
(* one: Go sorts the ids, but SELECT DISTINCT may return them in another   *)
(* order.  A row that another open transaction inserted is waited for.     *)
InsertStub(t) ==
    /\ Open(t) /\ at[t] = 0
    /\ \E h \in stubs[t] :
          /\ heroHeld[h] = Nobody
          /\ stubs' = [stubs EXCEPT ![t] = @ \ {h}]
          /\ heroHeld' = IF h \in heroes THEN heroHeld ELSE [heroHeld EXCEPT ![h] = t]
    /\ UNCHANGED <<doc, base, rootHeld, at, aborted, deleted, result, tries, txFaults>>

StubsDone(t) ==
    /\ Open(t) /\ at[t] = 0 /\ stubs[t] = {}
    /\ at' = [at EXCEPT ![t] = 1]
    /\ UNCHANGED <<doc, base, locks, stubs, aborted, deleted, result, tries, txFaults>>

(* What t waits for: a stub, or the root row.                              *)
Blockers(t) ==
    IF ~Open(t) \/ t \in aborted THEN {}
    ELSE IF at[t] = 0 THEN {heroHeld[h] : h \in stubs[t]} \ {Nobody, t}
    ELSE IF at[t] = 1 THEN {rootHeld[doc[t].match]} \ {Nobody, t}
    ELSE {}

Deadlocked(t) == \E u \in Blockers(t) : t \in Blockers(u)

(* An error, or Postgres chooses t as the victim of a deadlock: logged     *)
(* only ("triggers will handle missing heroes"), yet Postgres has aborted  *)
(* the transaction.                                                        *)
StubsFail(t) ==
    /\ Open(t) /\ at[t] = 0 /\ stubs[t] # {}
    /\ \/ Deadlocked(t) /\ NoTxFault
       \/ TxFault
    /\ aborted' = aborted \cup {t}
    /\ at' = [at EXCEPT ![t] = 1]
    /\ UNCHANGED <<doc, base, locks, stubs, deleted, result, tries>>

(* Bug variant: the error is returned and the transaction left open.       *)
RollbackForgotten(t) ==
    /\ aborted' = aborted \ {t}
    /\ result' = [result EXCEPT ![t] = "error"]
    /\ UNCHANGED <<doc, base, locks, at, stubs, deleted, tries>>

(* pgx.BeginFunc rolls back, and IngestMatch returns the error.            *)
Rollback(t) ==
    /\ Unlock(t)
    /\ aborted' = aborted \ {t}
    /\ result' = [result EXCEPT ![t] = "error"]
    /\ UNCHANGED <<doc, base, at, stubs, deleted, tries>>

CurrentStatement(t) == Statements(doc[t])[at[t]]
AtStatement(t) == Open(t) /\ at[t] \in 1..Len(Statements(doc[t]))

(* Bug variant: the upsert leaves the row unlocked.                        *)
RootLockNone(t, s) == UNCHANGED rootHeld

(* upsertMatchRoot waits for, and then has, the row of the match.          *)
RootLock(t, s) ==
    IF s = "matches"
    THEN /\ rootHeld[doc[t].match] = Nobody
         /\ rootHeld' = [rootHeld EXCEPT ![doc[t].match] = t]
    ELSE UNCHANGED rootHeld

(* A DELETE sees the rows committed when it starts.                        *)
SeenByDelete(t, s) == content[s][doc[t].match]

Statement(t) ==
    /\ AtStatement(t) /\ t \notin aborted
    /\ CurrentStatement(t) # "checkDraftSchema"
    /\ RootLock(t, CurrentStatement(t))
    /\ deleted' = IF CurrentStatement(t) \in Replaces \cap doc[t].has
                  THEN [deleted EXCEPT ![t][CurrentStatement(t)] = SeenByDelete(t, CurrentStatement(t))]
                  ELSE deleted
    /\ at' = [at EXCEPT ![t] = @ + 1]
    /\ UNCHANGED <<doc, base, heroHeld, stubs, aborted, result, tries, txFaults>>

(* A draft without picks and bans is not looked at.                        *)
DraftValid(d) == d.legal \/ "picks_bans" \notin d.has

CheckDraftSchema(t) ==
    /\ AtStatement(t) /\ t \notin aborted
    /\ CurrentStatement(t) = "checkDraftSchema"
    /\ DraftValid(doc[t])
    /\ at' = [at EXCEPT ![t] = @ + 1]
    /\ UNCHANGED <<doc, base, locks, stubs, aborted, deleted, result, tries, txFaults>>

(* A statement fails: itself, because the transaction is aborted, because  *)
(* the draft is illegal or because Postgres breaks a deadlock here.        *)
StatementFails(t) ==
    /\ AtStatement(t)
    /\ \/ t \in aborted /\ NoTxFault
       \/ CurrentStatement(t) = "checkDraftSchema" /\ ~DraftValid(doc[t]) /\ NoTxFault
       \/ Deadlocked(t) /\ NoTxFault
       \/ TxFault
    /\ Rollback(t)

(* WHERE matches.is_parsed = FALSE OR EXCLUDED.is_parsed = TRUE            *)
RootStays(t) == doc[t].match \in isParsed /\ ~doc[t].parsed

Merged(t, s, old) ==
    IF (s \in KeepsFirst /\ old # {}) \/ (s = "matches" /\ RootStays(t)) THEN old
    ELSE IF s \in Replaces THEN (old \ deleted[t][s]) \cup {t}
    ELSE {t}

(* is_parsed = matches.is_parsed OR EXCLUDED.is_parsed                     *)
ParsedAfter(t) == IF doc[t].parsed THEN isParsed \cup {doc[t].match} ELSE isParsed

(* The commit; the reply may be lost, then IngestMatch returns an error.   *)
Commit(t) ==
    LET m == doc[t].match
    IN  /\ Open(t) /\ at[t] = Len(Statements(doc[t])) + 1
        /\ content' = [s \in Tables |->
                       IF s \in Writes(doc[t])
                       THEN [content[s] EXCEPT ![m] = Merged(t, s, @)] ELSE content[s]]
        /\ isParsed' = ParsedAfter(t)
        /\ heroes' = heroes \cup {h \in NewHeroes : heroHeld[h] = t}
        /\ Unlock(t)
        /\ \/ result' = [result EXCEPT ![t] = "ok"] /\ NoTxFault
           \/ result' = [result EXCEPT ![t] = "error"] /\ TxFault
        /\ UNCHANGED <<doc, at, stubs, aborted, deleted, tries>>

CommitFails(t) ==
    /\ Open(t) /\ at[t] = Len(Statements(doc[t])) + 1
    /\ TxFault
    /\ Rollback(t)

(* The queue delivers the task again.                                      *)
Redeliver(t) ==
    /\ result[t] = "error" /\ tries[t] < MaxTries
    /\ tries' = [tries EXCEPT ![t] = @ + 1]
    /\ result' = [result EXCEPT ![t] = "none"]
    /\ at' = [at EXCEPT ![t] = 0]
    /\ stubs' = [stubs EXCEPT ![t] = NewHeroes]
    /\ deleted' = [deleted EXCEPT ![t] = [r \in Replaces |-> {}]]
    /\ UNCHANGED <<doc, base, locks, aborted, txFaults>>

IngestMatch(t) ==
    \/ InsertStub(t) \/ StubsDone(t) \/ StubsFail(t) \/ Statement(t) \/ CheckDraftSchema(t)
    \/ StatementFails(t) \/ Commit(t) \/ CommitFails(t)

TxNext == \E t \in Txs : IngestMatch(t) \/ Redeliver(t)

(* Statements end, Postgres breaks deadlocks, the queue delivers again.    *)
TxFairness == \A t \in Txs : WF_txVars(IngestMatch(t)) /\ WF_txVars(Redeliver(t))
TxSpec == TxInit /\ [][TxNext]_txVars /\ TxFairness

-----------------------------------------------------------------------------
(* IngestMatch, one transaction, whichever of the statements, commits and  *)
(* deadlock victims fail: no part of a match is there without its root     *)
(* row, and every part is of a payload that brought it and, with what only *)
(* a parsed one brings, whose draft was legal.  The root row says parsed   *)
(* exactly when the details of a parsed payload are there, and the payload *)
(* it was last written from is in the tables with all it brought: with its *)
(* own rows where those are updated or replaced, so no part of it is lost. *)
AllOrNothing ==
    \A m \in Stored :
       /\ \A s \in Tables : \A t \in content[s][m] :
             /\ content["matches"][m] # {}
             /\ s \in Writes(doc[t])
             /\ s \in ParsedOnly => DraftValid(doc[t])
       /\ m \in isParsed <=> content["details"][m] # {}
       /\ \A t \in content["matches"][m] : \A s \in Writes(doc[t]) :
             /\ content[s][m] # {}
             /\ s \in ParsedOnly \ KeepsFirst => t \in content[s][m]

(* replaceObjectives, replaceChat, replaceTeamfights: "SELECT 1 FROM       *)
(* matches WHERE match_id = $1 FOR UPDATE", after the root row is locked   *)
(* anyway: two ingests of a match that delete and insert at a time never   *)
(* leave the events of both.                                               *)
EventsNotDoubled == \A s \in Replaces, m \in Stored : Cardinality(content[s][m]) <= 1

(* IngestMatch: what is acknowledged is stored: success is returned only   *)
(* when the root row is there, and says parsed if the payload was.  An     *)
(* error of ensureHeroStubs that is logged and ignored changes nothing of  *)
(* that: the transaction it aborted cannot commit.                         *)
OkMeansStored ==
    \A t \in Txs : result[t] = "ok" =>
       /\ content["matches"][doc[t].match] # {}
       /\ doc[t].parsed => doc[t].match \in isParsed

(* IngestMatch: all parts of a match or none, never the events of two      *)
(* payloads, and what is acknowledged is stored.                           *)
IngestSound == AllOrNothing /\ EventsNotDoubled /\ OkMeansStored

AllEnded == \A t \in Txs : result[t] = "ok" \/ (result[t] = "error" /\ tries[t] = MaxTries)

=============================================================================
