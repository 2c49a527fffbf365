----------------------------- MODULE StoreProofs ------------------------------
(***************************************************************************)
(* The store behind the parser, for all values of the constants: the       *)
(* migrations that make its tables (Migrator), the transaction that writes *)
(* a match (IngestTx) and what becomes of a payload's values on the way    *)
(* (MatchDecode).  They share no state; each section has the invariant of  *)
(* its part.                                                               *)
(***************************************************************************)
EXTENDS Migrator, IngestTx, MatchDecode, FiniteSetTheorems, SequenceTheorems,
        WellFoundedInduction, TLAPS

-----------------------------------------------------------------------------
(* Migrator.  What Run does is safe for one reason: it reads               *)
(* schema_migrations under the lock and keeps the lock until it ends, so   *)
(* the set it has read stays the set that is there (LoopCurrent), which    *)
(* needs that a loop has the lock (LoopLocked) and that a lost lock ends   *)
(* the loop that had it.                                                   *)
States == {"down", "lock", "load", "apply", "done"}
Locks  == {LockID[m] : m \in Migrators}

MigTypeOK ==
    /\ applied \in SUBSET Versions
    /\ effects \in [Versions -> Nat]
    /\ holder \in [Locks -> Migrators \cup {NoHolder}]
    /\ mig \in [Migrators -> States]
    /\ passed \in [Migrators -> SUBSET Versions]
    /\ migFaults \in 0..MaxMigFaults

(* A process past TryAdvisoryLock has the lock.                            *)
LoopLocked == \A m \in Migrators : mig[m] \in {"load", "apply"} => holder[LockID[m]] = m

(* What a loop takes for applied is what the table says.                   *)
LoopCurrent == \A m \in Migrators : mig[m] = "apply" => passed[m] = applied

MigInv == MigTypeOK /\ LoopLocked /\ LoopCurrent /\ MigrationsSound

-----------------------------------------------------------------------------
(* A set of versions that is not empty has a first one, the one Min takes. *)
LEMMA MinOfNats ==
    ASSUME NEW S \in SUBSET Nat, S # {}
    PROVE  Min(S) \in S /\ \A y \in S : Min(S) <= y
  <1>1. PICK x \in S : \A y \in S : ~(<<y, x>> \in OpToRel(<, Nat))
    BY WFMin, NatLessThanWellFounded
  <1>2. \A y \in S : x <= y
    <2> SUFFICES ASSUME NEW y \in S, y < x
                 PROVE  FALSE
      OBVIOUS
    <2>1. <<y, x>> \in Nat \X Nat
      OBVIOUS
    <2>2. <<y, x>>[1] < <<y, x>>[2]
      OBVIOUS
    <2>3. <<y, x>> \in OpToRel(<, Nat)
      BY <2>1, <2>2, Zenon DEF OpToRel
    <2> QED
      BY <1>1, <2>3
  <1> QED
    BY <1>2 DEF Min

(* Advisory locks exclude: one process at a time is in its loop.           *)
LEMMA OneLoop ==
    ASSUME MigratorConstants, LoopLocked, NEW m \in Migrators, NEW n \in Migrators,
           mig[m] \in {"load", "apply"}, mig[n] \in {"load", "apply"}
    PROVE  m = n
  BY DEF MigratorConstants, LoopLocked

LEMMA MigInit ==
    ASSUME MigratorConstants, MigratorInit
    PROVE  MigInv
  BY DEF MigratorInit, MigInv, MigTypeOK, States, Locks, LoopLocked, LoopCurrent, MigrationsSound,
         AppliedOnce, AppliedInOrder, MigratorConstants

(* The end of a process takes no lock from another one.                    *)
LEMMA ExitStep ==
    ASSUME MigratorConstants, MigInv, NEW m \in Migrators, NEW s \in {"down", "done"}, Exit(m, s),
           UNCHANGED <<applied, effects>>, migFaults' \in 0..MaxMigFaults
    PROVE  MigInv'
  <1> USE DEF MigInv, Exit, Unlocked
  <1>1. MigTypeOK'
    BY DEF MigTypeOK, States
  <1>2. LoopLocked'
    <2> SUFFICES ASSUME NEW n \in Migrators, mig'[n] \in {"load", "apply"}
                 PROVE  holder'[LockID[n]] = n
      BY DEF LoopLocked
    <2>1. n # m /\ mig[n] = mig'[n]
      BY DEF MigTypeOK
    <2> QED
      BY <2>1 DEF LoopLocked, MigTypeOK, Locks
  <1>3. LoopCurrent'
    BY DEF LoopCurrent, MigTypeOK
  <1>4. MigrationsSound'
    BY DEF MigrationsSound, AppliedOnce, AppliedInOrder
  <1> QED
    BY <1>1, <1>2, <1>3, <1>4

LEMMA ConnectStep ==
    ASSUME MigratorConstants, MigInv, NEW m \in Migrators, Connect(m)
    PROVE  MigInv'
  <1> USE DEF MigInv, Connect, Unlocked
  <1>1. MigTypeOK'
    BY DEF MigTypeOK, States
  <1>2. LoopLocked'
    <2> SUFFICES ASSUME NEW n \in Migrators, mig'[n] \in {"load", "apply"}
                 PROVE  holder'[LockID[n]] = n
      BY DEF LoopLocked
    <2>1. n # m /\ mig[n] = mig'[n]
      BY DEF MigTypeOK
    <2> QED
      BY <2>1 DEF LoopLocked, MigTypeOK, Locks
  <1>3. LoopCurrent'
    BY DEF LoopCurrent, MigTypeOK
  <1>4. MigrationsSound'
    BY DEF MigrationsSound, AppliedOnce, AppliedInOrder
  <1> QED
    BY <1>1, <1>2, <1>3, <1>4

LEMMA LockStep ==
    ASSUME MigratorConstants, MigInv, NEW m \in Migrators, TryAdvisoryLock(m)
    PROVE  MigInv'
  <1>1. CASE holder[LockID[m]] = NoHolder
    <2> USE <1>1 DEF MigInv, TryAdvisoryLock
    <2>1. MigTypeOK'
      BY DEF MigTypeOK, States, Locks
    <2>2. LoopLocked'
      <3> SUFFICES ASSUME NEW n \in Migrators, mig'[n] \in {"load", "apply"}
                   PROVE  holder'[LockID[n]] = n
        BY DEF LoopLocked
      <3>1. CASE n = m
        BY <3>1 DEF MigTypeOK, Locks
      <3>2. CASE n # m
        <4>1. holder[LockID[n]] = n
          BY <3>2 DEF LoopLocked, MigTypeOK
        <4> QED
          BY <4>1 DEF MigratorConstants
      <3> QED
        BY <3>1, <3>2
    <2>3. LoopCurrent'
      BY DEF LoopCurrent, MigTypeOK
    <2>4. MigrationsSound'
      BY DEF MigrationsSound, AppliedOnce, AppliedInOrder
    <2> QED
      BY <2>1, <2>2, <2>3, <2>4
  <1>2. CASE holder[LockID[m]] # NoHolder
    <2>1. Exit(m, "down") /\ UNCHANGED <<applied, effects, migFaults>>
      BY <1>2 DEF TryAdvisoryLock
    <2>2. migFaults' \in 0..MaxMigFaults
      BY <2>1 DEF MigInv, MigTypeOK
    <2> QED
      BY <2>1, <2>2, ExitStep
  <1> QED
    BY <1>1, <1>2

LEMMA LoadStep ==
    ASSUME MigratorConstants, MigInv, NEW m \in Migrators, LoadApplied(m)
    PROVE  MigInv'
  BY DEF MigInv, LoadApplied, MigTypeOK, States, LoopLocked, LoopCurrent, MigrationsSound,
         AppliedOnce, AppliedInOrder

(* apply: the first pending version is the first that is not in the table, *)
(* and no other loop is there to have a stale idea of it.                  *)
LEMMA ApplyStep ==
    ASSUME MigratorConstants, MigInv, NEW m \in Migrators, Apply(m)
    PROVE  MigInv'
  <1> DEFINE v == NextVersion(Pending(m))
  <1> USE DEF MigInv
  <1>1. /\ v \in Known[m] \ applied
        /\ \A y \in Known[m] \ applied : v <= y
    <2>1. Pending(m) = Known[m] \ applied /\ Pending(m) # {}
      BY DEF Apply, Pending, LoopCurrent
    <2>2. Pending(m) \in SUBSET Nat
      BY <2>1 DEF MigratorConstants
    <2> QED
      BY <2>1, <2>2, MinOfNats DEF NextVersion
  <1>2. /\ effects' = [effects EXCEPT ![v] = @ + 1]
        /\ applied' = applied \cup {v}
        /\ passed' = [passed EXCEPT ![m] = @ \cup {v}]
        /\ UNCHANGED <<holder, mig, migFaults>> /\ mig[m] = "apply"
    BY DEF Apply
  <1>3. v \in Versions /\ v \in Nat /\ v \notin applied
    BY <1>1 DEF MigratorConstants
  <1> HIDE DEF v
  <1>4. MigTypeOK'
    BY <1>2, <1>3 DEF MigTypeOK
  <1>5. LoopLocked'
    BY <1>2 DEF LoopLocked
  <1>6. LoopCurrent'
    <2> SUFFICES ASSUME NEW n \in Migrators, mig'[n] = "apply"
                 PROVE  passed'[n] = applied'
      BY DEF LoopCurrent
    <2>1. n = m
      BY <1>2, OneLoop
    <2> QED
      BY <1>2, <2>1 DEF LoopCurrent, MigTypeOK
  <1>7. AppliedOnce'
    BY <1>2, <1>3 DEF MigrationsSound, AppliedOnce, MigTypeOK
  <1>8. AppliedInOrder'
    <2> SUFFICES ASSUME NEW w \in applied', NEW u \in Versions, u < w
                 PROVE  u \in applied'
      BY <1>2 DEF AppliedInOrder
    <2>1. CASE w \in applied
      BY <1>2, <2>1 DEF MigrationsSound, AppliedInOrder
    <2>2. CASE w = v
      <3>1. u \in Known[m]
        BY <1>1, <2>2 DEF MigratorConstants
      <3>2. ~(v <= u)
        BY <1>3, <2>2 DEF MigratorConstants
      <3> QED
        BY <1>1, <1>2, <3>1, <3>2
    <2> QED
      BY <1>2, <2>1, <2>2
  <1> QED
    BY <1>4, <1>5, <1>6, <1>7, <1>8 DEF MigrationsSound

LEMMA MigStep ==
    ASSUME MigratorConstants, MigInv, [MigratorNext]_migVars
    PROVE  MigInv'
  <1>1. CASE UNCHANGED migVars
    BY <1>1 DEF migVars, MigInv, MigTypeOK, LoopLocked, LoopCurrent, MigrationsSound, AppliedOnce,
                AppliedInOrder
  <1>2. ASSUME NEW m \in Migrators, Step(m) \/ ApplyFails(m) \/ Kill(m)
        PROVE  MigInv'
    <2>1. CASE Connect(m)
      BY <2>1, ConnectStep
    <2>2. CASE TryAdvisoryLock(m)
      BY <2>2, LockStep
    <2>3. CASE LoadApplied(m)
      BY <2>3, LoadStep
    <2>4. CASE Apply(m)
      BY <2>4, ApplyStep
    <2>5. CASE Complete(m)
      <3>1. migFaults' \in 0..MaxMigFaults
        BY <2>5 DEF Complete, MigInv, MigTypeOK
      <3> QED
        BY <2>5, <3>1, ExitStep DEF Complete
    <2>6. CASE ApplyFails(m) \/ Kill(m)
      <3>1. migFaults' \in 0..MaxMigFaults
        BY <2>6 DEF ApplyFails, Kill, MigFault, MigInv, MigTypeOK, MigratorConstants
      <3> QED
        BY <2>6, <3>1, ExitStep DEF ApplyFails, Kill
    <2> QED
      BY <1>2, <2>1, <2>2, <2>3, <2>4, <2>5, <2>6 DEF Step
  <1> QED
    BY <1>1, <1>2 DEF MigratorNext

(* migrator.Run: for all images of one directory of migrations, started,   *)
(* refused, failing and killed in any order, the SQL of a migration takes  *)
(* effect once, together with its row, and after that of all earlier ones. *)
THEOREM MigratorSound ==
    ASSUME MigratorConstants
    PROVE  MigratorSpec => []MigrationsSound
  <1>1. MigratorInit => MigInv
    BY MigInit
  <1>2. MigInv /\ [MigratorNext]_migVars => MigInv'
    BY MigStep
  <1>3. MigInv => MigrationsSound
    BY DEF MigInv
  <1> QED
    BY <1>1, <1>2, <1>3, PTL DEF MigratorSpec

-----------------------------------------------------------------------------
(* IngestTx.  The properties speak of committed rows, which only Commit    *)
(* changes; what makes Commit right is what the open transaction has       *)
(* behind it (Done).  With upsertMatchRoot it has the row of its match and *)
(* keeps it to its end (RootKept), so no other ingest of the match commits *)
(* in between, and what its DELETEs saw is still what is there             *)
(* (DeletesCurrent); with checkDraftSchema its draft is legal              *)
(* (DraftChecked).                                                         *)
TxTypeOK ==
    /\ doc \in [Txs -> Payload]
    /\ content \in [Tables -> [Stored -> SUBSET Txs]]
    /\ isParsed \in SUBSET Stored
    /\ rootHeld \in [Stored -> Txs \cup {Nobody}]
    /\ at \in [Txs -> Nat]
    /\ deleted \in [Txs -> [Replaces -> SUBSET Txs]]
    /\ result \in [Txs -> {"none", "ok", "error"}]

(* The statements that t has behind it.                                    *)
Done(t) == {Statements(doc[t])[i] : i \in 1..(at[t] - 1)}

RootKept ==
    \A t \in Txs : Open(t) /\ "matches" \in Done(t) => rootHeld[doc[t].match] = t

DeletesCurrent ==
    \A t \in Txs : \A s \in Replaces :
       Open(t) /\ s \in Done(t) \cap doc[t].has => deleted[t][s] = content[s][doc[t].match]

DraftChecked ==
    \A t \in Txs : Open(t) /\ "checkDraftSchema" \in Done(t) => DraftValid(doc[t])

(* EventsNotDoubled without Cardinality.                                   *)
OneWriter == \A s \in Replaces, m \in Stored : \A t, u \in content[s][m] : t = u

IngestInv ==
    /\ TxTypeOK
    /\ RootKept /\ DeletesCurrent /\ DraftChecked
    /\ AllOrNothing /\ OneWriter /\ OkMeansStored

-----------------------------------------------------------------------------
LEMMA PayloadTyped ==
    ASSUME NEW d \in Payload
    PROVE  /\ d.match \in Stored /\ d.parsed \in BOOLEAN /\ d.has \in SUBSET Tables
           /\ "matches" \in d.has /\ (d.parsed => "details" \in d.has)
  BY DEF Payload

(* What a payload runs through: its root row first, and all tables and the *)
(* check of the draft if it is parsed.                                     *)
LEMMA StatementsRun ==
    ASSUME NEW d \in Payload
    PROVE  /\ Len(Statements(d)) \in Nat /\ Len(Statements(d)) >= 1
           /\ Statements(d)[1] = "matches"
           /\ DOMAIN Statements(d) = 1..Len(Statements(d))
           /\ ToSet(Statements(d)) = IF d.parsed THEN Tables \cup {"checkDraftSchema"}
                                     ELSE {"matches", "team_matches", "players"}
  <1>1. CASE d.parsed
    <2>1. Statements(d) = <<"matches", "team_matches", "players", "details", "picks_bans",
              "checkDraftSchema", "draft_timings", "advantages", "objectives", "chat",
              "teamfights", "cosmetics", "timeseries">>
      BY <1>1 DEF Statements
    <2>2. Len(Statements(d)) = 13 /\ DOMAIN Statements(d) = 1..13
      BY <2>1
    <2> QED
      BY <1>1, <2>1, <2>2 DEF ToSet, Tables, KeepsFirst, Updates, Replaces
  <1>2. CASE ~d.parsed
    BY <1>2 DEF ToSet, Statements
  <1> QED
    BY <1>1, <1>2

LEMMA SetsOfTables ==
    /\ Replaces \subseteq ParsedOnly /\ ParsedOnly \subseteq Tables
    /\ Replaces \cap KeepsFirst = {}
    /\ {"matches", "team_matches", "players"} \subseteq Tables
    /\ ParsedOnly \cap {"matches", "team_matches", "players"} = {}
    /\ "checkDraftSchema" \notin Tables
  BY DEF ParsedOnly, Tables, KeepsFirst, Updates, Replaces

(* Nothing is done before the root row.                                    *)
LEMMA RootFirst ==
    ASSUME TxTypeOK, NEW t \in Txs, NEW s \in Done(t)
    PROVE  "matches" \in Done(t)
  <1>1. doc[t] \in Payload /\ at[t] \in Nat
    BY DEF TxTypeOK
  <1>2. at[t] - 1 >= 1
    BY <1>1 DEF Done
  <1> QED
    BY <1>1, <1>2, StatementsRun DEF Done

(* Two open transactions of a match are never both past upsertMatchRoot.   *)
LEMMA OneAtATime ==
    ASSUME TxTypeOK, RootKept, NEW t \in Txs, NEW u \in Txs, Open(t), Open(u), Done(t) # {},
           Done(u) # {}, doc[t].match = doc[u].match
    PROVE  t = u
  <1>1. "matches" \in Done(t) /\ "matches" \in Done(u)
    BY RootFirst
  <1> QED
    BY <1>1 DEF RootKept

(* A transaction that may commit has all its statements behind it.         *)
LEMMA AllDone ==
    ASSUME TxTypeOK, NEW t \in Txs, at[t] = Len(Statements(doc[t])) + 1
    PROVE  Done(t) = ToSet(Statements(doc[t])) /\ Done(t) # {}
  <1>1. doc[t] \in Payload
    BY DEF TxTypeOK
  <1>2. at[t] - 1 = Len(Statements(doc[t]))
    BY <1>1, StatementsRun
  <1> QED
    BY <1>1, <1>2, StatementsRun DEF Done, ToSet

(* EventsNotDoubled of the invariant.                                      *)
LEMMA OneWriterCounts ==
    ASSUME TxTypeOK, OneWriter
    PROVE  EventsNotDoubled
  <1> SUFFICES ASSUME NEW s \in Replaces, NEW m \in Stored
               PROVE  Cardinality(content[s][m]) <= 1
    BY DEF EventsNotDoubled
  <1>1. CASE content[s][m] = {}
    BY <1>1, FS_EmptySet
  <1>2. CASE content[s][m] # {}
    <2>1. PICK t : t \in content[s][m]
      BY <1>2
    <2>2. content[s][m] = {t}
      BY <2>1 DEF OneWriter
    <2>3. Cardinality({t}) = 1
      BY FS_Singleton
    <2> QED
      BY <2>2, <2>3
  <1> QED
    BY <1>1, <1>2

-----------------------------------------------------------------------------
LEMMA IngestInit ==
    ASSUME IngestConstants, TxInit
    PROVE  IngestInv
  <1>1. TxTypeOK
    BY DEF TxInit, TxTypeOK, IngestConstants
  <1>2. \A t \in Txs : Done(t) = {}
    BY DEF TxInit, Done
  <1>3. RootKept /\ DeletesCurrent /\ DraftChecked
    BY <1>2 DEF RootKept, DeletesCurrent, DraftChecked
  <1>4. \A s \in Tables, m \in Stored : content[s][m] = {}
    BY DEF TxInit
  <1>5. AllOrNothing
    <2>1. \A s \in Tables, m \in Stored : \A t \in content[s][m] : FALSE
      BY <1>4
    <2>2. \A m \in Stored : content["details"][m] = {}
      BY <1>4 DEF Tables, KeepsFirst
    <2>3. \A m \in Stored : \A t \in content["matches"][m] : FALSE
      BY <2>1, SetsOfTables
    <2> QED
      BY <2>1, <2>2, <2>3 DEF AllOrNothing, TxInit
  <1>6. OneWriter
    BY <1>4, SetsOfTables DEF OneWriter
  <1>7. OkMeansStored
    BY DEF OkMeansStored, TxInit
  <1> QED
    BY <1>1, <1>3, <1>5, <1>6, <1>7 DEF IngestInv

(* What is committed changes with a commit only, and nobody's answer to ok *)
(* otherwise.                                                              *)
LEMMA BaseKept ==
    ASSUME IngestInv, UNCHANGED <<doc, base>>, \A t \in Txs : result'[t] = "ok" => result[t] = "ok"
    PROVE  AllOrNothing' /\ OneWriter' /\ OkMeansStored'
  BY DEF IngestInv, base, AllOrNothing, OneWriter, OkMeansStored

(* The hero stubs: no statement of the match yet.                          *)
LEMMA StubsStep ==
    ASSUME IngestInv, NEW t \in Txs, InsertStub(t) \/ StubsDone(t) \/ StubsFail(t)
    PROVE  IngestInv'
  <1>1. UNCHANGED <<doc, base, rootHeld, deleted, result>>
    BY DEF InsertStub, StubsDone, StubsFail, locks
  <1>2. at' = at \/ (at[t] = 0 /\ at' = [at EXCEPT ![t] = 1])
    BY DEF InsertStub, StubsDone, StubsFail
  <1>3. TxTypeOK'
    BY <1>1, <1>2 DEF IngestInv, TxTypeOK, base
  <1>4. ASSUME NEW u \in Txs
        PROVE  Done(u)' = Done(u) /\ (Open(u)' <=> Open(u))
    <2>1. CASE at'[u] = at[u]
      BY <1>1, <2>1 DEF Done, Open
    <2>2. CASE at[u] = 0 /\ at'[u] = 1
      BY <1>1, <2>2 DEF Done, Open
    <2> QED
      BY <1>2, <2>1, <2>2 DEF IngestInv, TxTypeOK
  <1>5. RootKept' /\ DeletesCurrent' /\ DraftChecked'
    BY <1>1, <1>4 DEF IngestInv, RootKept, DeletesCurrent, DraftChecked, DraftValid, base
  <1> QED
    BY <1>1, <1>3, <1>5, BaseKept DEF IngestInv

(* A statement that succeeds is the next thing its transaction has done.   *)
LEMMA DoneNext ==
    ASSUME TxTypeOK, NEW t \in Txs, AtStatement(t), at' = [at EXCEPT ![t] = @ + 1], UNCHANGED doc
    PROVE  /\ Done(t)' = Done(t) \cup {CurrentStatement(t)}
           /\ \A u \in Txs \ {t} : Done(u)' = Done(u)
  <1>1. at[t] \in Nat /\ at[t] >= 1 /\ at'[t] = at[t] + 1
    BY StatementsRun DEF TxTypeOK, AtStatement
  <1>2. 1..(at'[t] - 1) = (1..(at[t] - 1)) \cup {at[t]}
    BY <1>1
  <1>3. Done(t)' = Done(t) \cup {CurrentStatement(t)}
    BY <1>2 DEF Done, CurrentStatement
  <1> QED
    BY <1>3 DEF Done, TxTypeOK

LEMMA StatementStep ==
    ASSUME IngestConstants, IngestInv, NEW t \in Txs, Statement(t)
    PROVE  IngestInv'
  <1> DEFINE c == CurrentStatement(t)
  <1>1. /\ UNCHANGED <<doc, base, result>> /\ at' = [at EXCEPT ![t] = @ + 1]
        /\ AtStatement(t) /\ c # "checkDraftSchema" /\ TxTypeOK
    BY DEF Statement, IngestInv
  <1>2. /\ Done(t)' = Done(t) \cup {c}
        /\ \A u \in Txs \ {t} : Done(u)' = Done(u)
    BY <1>1, DoneNext
  <1>3. \A u \in Txs : Open(u)' <=> Open(u)
    BY <1>1 DEF Open
  <1>4. doc[t].match \in Stored
    BY <1>1, PayloadTyped DEF TxTypeOK
  <1>5. /\ RootLock(t, c)
        /\ deleted' = IF c \in Replaces \cap doc[t].has
                      THEN [deleted EXCEPT ![t][c] = content[c][doc[t].match]] ELSE deleted
    BY DEF Statement, SeenByDelete
  <1> HIDE DEF c
  <1>6. TxTypeOK'
    <2>1. rootHeld' \in [Stored -> Txs \cup {Nobody}]
      BY <1>1, <1>4, <1>5 DEF RootLock, TxTypeOK
    <2>2. deleted' \in [Txs -> [Replaces -> SUBSET Txs]]
      <3>1. CASE c \in Replaces \cap doc[t].has
        <4>1. content[c][doc[t].match] \in SUBSET Txs
          BY <1>1, <1>4, <3>1, SetsOfTables DEF TxTypeOK
        <4> QED
          BY <1>1, <1>5, <3>1, <4>1 DEF TxTypeOK
      <3>2. CASE c \notin Replaces \cap doc[t].has
        BY <1>1, <1>5, <3>2 DEF TxTypeOK
      <3> QED
        BY <3>1, <3>2
    <2>3. at' \in [Txs -> Nat]
      BY <1>1 DEF TxTypeOK
    <2> QED
      BY <1>1, <2>1, <2>2, <2>3 DEF TxTypeOK, base
  <1>7. RootKept'
    <2> SUFFICES ASSUME NEW u \in Txs, Open(u), "matches" \in Done(u)'
                 PROVE  rootHeld'[doc[u].match] = u
      BY <1>1, <1>3 DEF RootKept
    <2>1. CASE c = "matches"
      <3>1. rootHeld[doc[t].match] = Nobody
            /\ rootHeld' = [rootHeld EXCEPT ![doc[t].match] = t]
        BY <1>5, <2>1 DEF RootLock
      <3>2. CASE u = t
        BY <1>1, <1>4, <3>1, <3>2 DEF TxTypeOK
      <3>3. CASE u # t
        <4>1. rootHeld[doc[u].match] = u
          BY <1>2, <3>3 DEF IngestInv, RootKept
        <4>2. doc[u].match # doc[t].match
          BY <3>1, <4>1 DEF IngestConstants
        <4> QED
          BY <1>1, <3>1, <4>1, <4>2 DEF TxTypeOK
      <3> QED
        BY <3>2, <3>3
    <2>2. CASE c # "matches"
      BY <1>2, <1>5, <2>2 DEF RootLock, IngestInv, RootKept
    <2> QED
      BY <2>1, <2>2
  <1>8. DeletesCurrent'
    <2> SUFFICES ASSUME NEW u \in Txs, NEW s \in Replaces, Open(u), s \in Done(u)', s \in doc[u].has
                 PROVE  deleted'[u][s] = content[s][doc[u].match]
      BY <1>1, <1>3 DEF DeletesCurrent, base
    <2>1. CASE u = t /\ s = c
      BY <1>1, <1>5, <2>1 DEF TxTypeOK
    <2>2. CASE u # t \/ s # c
      <3>1. deleted'[u][s] = deleted[u][s]
        BY <1>1, <1>5, <2>2 DEF TxTypeOK
      <3>2. s \in Done(u)
        BY <1>2, <2>2
      <3> QED
        BY <3>1, <3>2 DEF IngestInv, DeletesCurrent
    <2> QED
      BY <2>1, <2>2
  <1>9. DraftChecked'
    BY <1>1, <1>2, <1>3 DEF IngestInv, DraftChecked, DraftValid
  <1> QED
    BY <1>1, <1>6, <1>7, <1>8, <1>9, BaseKept DEF IngestInv

LEMMA DraftStep ==
    ASSUME IngestInv, NEW t \in Txs, CheckDraftSchema(t)
    PROVE  IngestInv'
  <1>1. /\ UNCHANGED <<doc, base, rootHeld, deleted, result>> /\ at' = [at EXCEPT ![t] = @ + 1]
        /\ AtStatement(t) /\ CurrentStatement(t) = "checkDraftSchema" /\ DraftValid(doc[t]) /\ TxTypeOK
    BY DEF CheckDraftSchema, IngestInv, locks
  <1>2. /\ Done(t)' = Done(t) \cup {"checkDraftSchema"}
        /\ \A u \in Txs \ {t} : Done(u)' = Done(u)
    BY <1>1, DoneNext
  <1>3. \A u \in Txs : Open(u)' <=> Open(u)
    BY <1>1 DEF Open
  <1>4. TxTypeOK'
    BY <1>1 DEF TxTypeOK, base
  <1>5. RootKept'
    BY <1>1, <1>2, <1>3 DEF IngestInv, RootKept
  <1>6. DeletesCurrent'
    BY <1>1, <1>2, <1>3, SetsOfTables DEF IngestInv, DeletesCurrent, base
  <1>7. DraftChecked'
    BY <1>1, <1>2, <1>3 DEF IngestInv, DraftChecked, DraftValid
  <1> QED
    BY <1>1, <1>4, <1>5, <1>6, <1>7, BaseKept DEF IngestInv

(* The end of a transaction frees its own locks only.                      *)
LEMMA UnlockKeeps ==
    ASSUME TxTypeOK, NEW t \in Txs, Unlock(t)
    PROVE  /\ rootHeld' \in [Stored -> Txs \cup {Nobody}]
           /\ \A m \in Stored, u \in Txs \ {t} : rootHeld[m] = u => rootHeld'[m] = u
  BY DEF TxTypeOK, Unlock

(* A rolled back transaction is not open, and has committed nothing.       *)
LEMMA RollbackStep ==
    ASSUME IngestInv, NEW t \in Txs, Rollback(t)
    PROVE  IngestInv'
  <1>1. /\ UNCHANGED <<doc, base, at, deleted>> /\ result' = [result EXCEPT ![t] = "error"]
        /\ Unlock(t) /\ TxTypeOK
    BY DEF Rollback, IngestInv
  <1>2. \A u \in Txs : Done(u)' = Done(u)
    BY <1>1 DEF Done
  <1>3. \A u \in Txs : Open(u)' <=> Open(u) /\ u # t
    BY <1>1 DEF Open, TxTypeOK
  <1>4. TxTypeOK'
    BY <1>1, UnlockKeeps DEF TxTypeOK, base
  <1>5. RootKept'
    <2> SUFFICES ASSUME NEW u \in Txs, Open(u), u # t, "matches" \in Done(u)
                 PROVE  rootHeld'[doc[u].match] = u
      BY <1>1, <1>2, <1>3 DEF RootKept
    <2>1. doc[u].match \in Stored /\ rootHeld[doc[u].match] = u
      BY <1>1 DEF TxTypeOK, Payload, IngestInv, RootKept
    <2> QED
      BY <1>1, <2>1, UnlockKeeps
  <1>6. DeletesCurrent'
    BY <1>1, <1>2, <1>3 DEF IngestInv, DeletesCurrent, base
  <1>7. DraftChecked'
    BY <1>1, <1>2, <1>3 DEF IngestInv, DraftChecked, DraftValid
  <1>8. \A u \in Txs : result'[u] = "ok" => result[u] = "ok"
    BY <1>1 DEF TxTypeOK
  <1> QED
    BY <1>1, <1>4, <1>5, <1>6, <1>7, <1>8, BaseKept DEF IngestInv

(* A delivery begins with no statement done.                               *)
LEMMA RedeliverStep ==
    ASSUME IngestInv, NEW t \in Txs, Redeliver(t)
    PROVE  IngestInv'
  <1>1. /\ UNCHANGED <<doc, base, rootHeld>> /\ result' = [result EXCEPT ![t] = "none"]
        /\ at' = [at EXCEPT ![t] = 0]
        /\ deleted' = [deleted EXCEPT ![t] = [r \in Replaces |-> {}]] /\ TxTypeOK
    BY DEF Redeliver, IngestInv, locks
  <1>2. \A u \in Txs \ {t} : Done(u)' = Done(u) /\ (Open(u)' <=> Open(u))
    BY <1>1 DEF Done, Open, TxTypeOK
  <1>3. Done(t)' = {}
    BY <1>1 DEF Done, TxTypeOK
  <1>4. TxTypeOK'
    BY <1>1 DEF TxTypeOK, base
  <1>5. RootKept'
    BY <1>1, <1>2, <1>3 DEF IngestInv, RootKept
  <1>6. DeletesCurrent'
    <2> SUFFICES ASSUME NEW u \in Txs, NEW s \in Replaces, Open(u)', s \in Done(u)',
                        s \in doc[u].has
                 PROVE  deleted'[u][s] = content[s][doc[u].match]
      BY <1>1 DEF DeletesCurrent, base
    <2>1. u # t
      BY <1>3
    <2> QED
      BY <1>1, <1>2, <2>1 DEF IngestInv, DeletesCurrent, TxTypeOK
  <1>7. DraftChecked'
    BY <1>1, <1>2, <1>3 DEF IngestInv, DraftChecked, DraftValid
  <1>8. \A u \in Txs : result'[u] = "ok" => result[u] = "ok"
    BY <1>1 DEF TxTypeOK
  <1> QED
    BY <1>1, <1>4, <1>5, <1>6, <1>7, <1>8, BaseKept DEF IngestInv

(* A payload writes what it has of its statements: its root row always,    *)
(* its details if it is parsed, other parsed parts only then.              *)
LEMMA WritesOf ==
    ASSUME NEW d \in Payload
    PROVE  /\ Writes(d) \subseteq Tables /\ Writes(d) \subseteq d.has
           /\ Writes(d) \subseteq ToSet(Statements(d))
           /\ "matches" \in Writes(d)
           /\ d.parsed => "details" \in Writes(d) /\ "checkDraftSchema" \in ToSet(Statements(d))
           /\ ~d.parsed => Writes(d) \cap ParsedOnly = {}
  BY PayloadTyped, StatementsRun, SetsOfTables DEF Writes, ParsedOnly, Tables, KeepsFirst

(* The rows after a commit: changed for its match in its tables only.      *)
LEMMA CommitRows ==
    ASSUME TxTypeOK, NEW t \in Txs, Commit(t), NEW s \in Tables, NEW n \in Stored
    PROVE  content'[s][n] = IF s \in Writes(doc[t]) /\ n = doc[t].match
                            THEN Merged(t, s, content[s][n]) ELSE content[s][n]
  <1>1. content'[s] = IF s \in Writes(doc[t])
                      THEN [content[s] EXCEPT ![doc[t].match] = Merged(t, s, @)] ELSE content[s]
    BY DEF Commit
  <1>2. content[s] \in [Stored -> SUBSET Txs]
    BY DEF TxTypeOK
  <1> QED
    BY <1>1, <1>2

LEMMA CommitStep ==
    ASSUME IngestInv, NEW t \in Txs, Commit(t)
    PROVE  IngestInv'
  <1> DEFINE m == doc[t].match
  <1>1. /\ TxTypeOK /\ Open(t) /\ Unlock(t) /\ UNCHANGED <<doc, at, deleted>>
        /\ isParsed' = ParsedAfter(t)
        /\ content' = [s \in Tables |->
                       IF s \in Writes(doc[t])
                       THEN [content[s] EXCEPT ![m] = Merged(t, s, @)] ELSE content[s]]
        /\ \E r \in {"ok", "error"} : result' = [result EXCEPT ![t] = r]
    BY DEF IngestInv, Commit
  <1> DEFINE W == Writes(doc[t])
  <1>2. /\ doc[t] \in Payload /\ m \in Stored /\ doc[t].parsed \in BOOLEAN
        /\ W \subseteq Tables /\ "matches" \in W /\ (doc[t].parsed => "details" \in W)
        /\ (~doc[t].parsed => W \cap ParsedOnly = {})
    BY <1>1, PayloadTyped, WritesOf DEF TxTypeOK
  <1>3. /\ Done(t) # {} /\ W \subseteq Done(t) /\ W \subseteq doc[t].has
        /\ doc[t].parsed => "checkDraftSchema" \in Done(t)
    BY <1>1, <1>2, AllDone, WritesOf DEF Commit
  <1>4. \A s \in Tables, n \in Stored :
           content'[s][n] = IF s \in W /\ n = m THEN Merged(t, s, content[s][n]) ELSE content[s][n]
    BY <1>1, CommitRows
  <1>a. "matches" \in Tables /\ "details" \in Tables
    BY DEF Tables, Updates, KeepsFirst
  <1>b. RootStays(t) => content["matches"][m] # {}
    <2>1. RootStays(t) => m \in isParsed  BY DEF RootStays
    <2>2. m \in isParsed => content["details"][m] # {}  BY <1>2 DEF IngestInv, AllOrNothing
    <2>3. content["details"][m] # {} => content["matches"][m] # {}
      BY <1>2, <1>a DEF IngestInv, AllOrNothing
    <2> QED  BY <2>1, <2>2, <2>3
  \* A table it writes has rows, its own or those that were there: its own where
  \* rows are updated or replaced, and no others where its DELETE saw all.
  <1>c. ASSUME NEW s \in W
        PROVE  /\ Merged(t, s, content[s][m]) # {}
               /\ Merged(t, s, content[s][m]) \subseteq content[s][m] \cup {t}
               /\ s \in Replaces /\ deleted[t][s] = content[s][m] => Merged(t, s, content[s][m]) = {t}
               /\ s \in ParsedOnly \ KeepsFirst => t \in Merged(t, s, content[s][m])
               /\ s = "matches" => Merged(t, s, content[s][m]) = IF RootStays(t) THEN content[s][m] ELSE {t}
    BY <1>b DEF Merged, KeepsFirst, Replaces, ParsedOnly
  <1>5. \A s \in Tables, n \in Stored :
           /\ content'[s][n] \subseteq content[s][n] \cup {t}
           /\ content[s][n] # {} => content'[s][n] # {}
           /\ s \in W /\ n = m => content'[s][n] # {}
           /\ ~(s \in W /\ n = m) => content'[s][n] = content[s][n]
    BY <1>4, <1>c
  <1>6. \A u \in Txs : Done(u)' = Done(u)
    BY <1>1 DEF Done
  <1>7. \A u \in Txs : Open(u)' <=> Open(u) /\ u # t
    BY <1>1 DEF Open, TxTypeOK
  <1>8. isParsed' = IF doc[t].parsed THEN isParsed \cup {m} ELSE isParsed
    BY <1>1 DEF ParsedAfter
  <1> HIDE DEF m, W
  <1>9. TxTypeOK'
    <2>1. content' \in [Tables -> [Stored -> SUBSET Txs]]
      <3> SUFFICES ASSUME NEW s \in Tables
                   PROVE  content'[s] \in [Stored -> SUBSET Txs]
        BY <1>1
      <3>1. content[s] \in [Stored -> SUBSET Txs]
        BY <1>1 DEF TxTypeOK
      <3>2. s \in W => Merged(t, s, content[s][m]) \in SUBSET Txs
        BY <1>2, <1>c, <3>1
      <3>3. content'[s] = IF s \in W THEN [content[s] EXCEPT ![m] = Merged(t, s, @)]
                          ELSE content[s]
        BY <1>1 DEF W
      <3> QED
        BY <1>2, <3>1, <3>2, <3>3
    <2>2. isParsed' \in SUBSET Stored
      BY <1>1, <1>2, <1>8 DEF TxTypeOK
    <2>3. result' \in [Txs -> {"none", "ok", "error"}]
      BY <1>1 DEF TxTypeOK
    <2> QED
      BY <1>1, <2>1, <2>2, <2>3, UnlockKeeps DEF TxTypeOK
  <1>10. RootKept'
    <2> SUFFICES ASSUME NEW u \in Txs, Open(u), u # t, "matches" \in Done(u)
                 PROVE  rootHeld'[doc[u].match] = u
      BY <1>1, <1>6, <1>7 DEF RootKept
    <2>1. doc[u].match \in Stored /\ rootHeld[doc[u].match] = u
      BY <1>1, PayloadTyped DEF TxTypeOK, IngestInv, RootKept
    <2> QED
      BY <1>1, <2>1, UnlockKeeps
  <1>11. DeletesCurrent'
    <2> SUFFICES ASSUME NEW u \in Txs, NEW s \in Replaces, Open(u), u # t, s \in Done(u),
                        s \in doc[u].has
                 PROVE  deleted[u][s] = content'[s][doc[u].match]
      BY <1>1, <1>6, <1>7 DEF DeletesCurrent
    <2>1. doc[u].match # m
      BY <1>1, <1>3, OneAtATime DEF IngestInv, m
    <2>2. doc[u].match \in Stored /\ s \in Tables
      BY <1>1, SetsOfTables, PayloadTyped DEF TxTypeOK
    <2>3. content'[s][doc[u].match] = content[s][doc[u].match]
      BY <1>5, <2>1, <2>2
    <2> QED
      BY <2>3 DEF IngestInv, DeletesCurrent
  <1>12. DraftChecked'
    BY <1>1, <1>6, <1>7 DEF IngestInv, DraftChecked, DraftValid
  <1>13. AllOrNothing'
    <2> SUFFICES ASSUME NEW n \in Stored
                 PROVE  /\ \A s \in Tables : \A u \in content'[s][n] :
                              /\ content'["matches"][n] # {}
                              /\ s \in Writes(doc[u])
                              /\ s \in ParsedOnly => DraftValid(doc[u])
                        /\ n \in isParsed' <=> content'["details"][n] # {}
                        /\ \A u \in content'["matches"][n] : \A s \in Writes(doc[u]) :
                              /\ content'[s][n] # {}
                              /\ s \in ParsedOnly \ KeepsFirst => u \in content'[s][n]
      BY <1>1 DEF AllOrNothing
    <2>1. ASSUME NEW s \in Tables, NEW u \in content'[s][n]
          PROVE  /\ content'["matches"][n] # {}
                 /\ s \in Writes(doc[u])
                 /\ s \in ParsedOnly => DraftValid(doc[u])
      <3>1. CASE u \in content[s][n]
        <4>1. /\ content["matches"][n] # {}
              /\ s \in Writes(doc[u])
              /\ s \in ParsedOnly => DraftValid(doc[u])
          BY <3>1 DEF IngestInv, AllOrNothing
        <4> QED
          BY <1>5, <1>a, <4>1
      <3>2. CASE u \notin content[s][n]
        <4>1. u = t /\ s \in W /\ n = m
          BY <1>5, <3>2
        <4>2. content'["matches"][n] # {}
          BY <1>2, <1>5, <1>a, <4>1
        <4>3. s \in ParsedOnly => DraftValid(doc[t])
          <5> SUFFICES ASSUME s \in ParsedOnly
                       PROVE  DraftValid(doc[t])
            OBVIOUS
          <5>1. doc[t].parsed
            BY <1>2, <4>1
          <5> QED
            BY <1>1, <1>3, <5>1 DEF IngestInv, DraftChecked
        <4> QED
          BY <4>1, <4>2, <4>3 DEF W
      <3> QED
        BY <3>1, <3>2
    <2>2. n \in isParsed' <=> content'["details"][n] # {}
      <3>1. n \in isParsed <=> content["details"][n] # {}
        BY DEF IngestInv, AllOrNothing
      <3>2. ~doc[t].parsed => "details" \notin W
        BY <1>2 DEF ParsedOnly, Tables, KeepsFirst
      <3> QED
        BY <1>2, <1>5, <1>8, <1>a, <3>1, <3>2
    <2>3. ASSUME NEW u \in content'["matches"][n], NEW s \in Writes(doc[u])
          PROVE  /\ content'[s][n] # {}
                 /\ s \in ParsedOnly \ KeepsFirst => u \in content'[s][n]
      <3>1. u \in Txs /\ doc[u] \in Payload
        BY <1>1, <1>9, <1>a DEF TxTypeOK
      <3>2. s \in Tables
        BY <3>1, WritesOf
      <3>3. CASE n = m /\ ~RootStays(t)
        <4>1. u = t
          BY <1>2, <1>4, <1>a, <1>c, <3>3
        <4>2. s \in W
          BY <4>1 DEF W
        <4> QED
          BY <1>4, <1>c, <3>2, <3>3, <4>1, <4>2
      <3>4. CASE n = m /\ RootStays(t)
        <4>1. u \in content["matches"][n]
          BY <1>2, <1>4, <1>a, <1>c, <3>4
        <4>2. /\ content[s][n] # {}
              /\ s \in ParsedOnly \ KeepsFirst => u \in content[s][n]
          BY <4>1 DEF IngestInv, AllOrNothing
        <4>3. s \in ParsedOnly => s \notin W
          BY <1>2, <3>4 DEF RootStays
        <4> QED
          BY <1>5, <3>2, <4>2, <4>3
      <3>5. CASE n # m
        <4>1. u \in content["matches"][n]
          BY <1>5, <1>a, <3>5
        <4>2. /\ content[s][n] # {}
              /\ s \in ParsedOnly \ KeepsFirst => u \in content[s][n]
          BY <4>1 DEF IngestInv, AllOrNothing
        <4> QED
          BY <1>5, <3>2, <3>5, <4>2
      <3> QED
        BY <3>3, <3>4, <3>5
    <2> QED
      BY <2>1, <2>2, <2>3
  <1>14. OneWriter'
    <2> SUFFICES ASSUME NEW s \in Replaces, NEW n \in Stored
                 PROVE  \A u, w \in content'[s][n] : u = w
      BY DEF OneWriter
    <2>1. CASE s \in W /\ n = m
      <3>1. deleted[t][s] = content[s][n]
        BY <1>1, <1>3, <2>1 DEF IngestInv, DeletesCurrent, m
      <3>2. content'[s][n] = {t}
        BY <1>4, <1>c, <2>1, <3>1, SetsOfTables
      <3> QED
        BY <3>2
    <2>2. CASE ~(s \in W /\ n = m)
      BY <1>5, <2>2, SetsOfTables DEF IngestInv, OneWriter
    <2> QED
      BY <2>1, <2>2
  <1>15. OkMeansStored'
    <2> SUFFICES ASSUME NEW u \in Txs, result'[u] = "ok"
                 PROVE  /\ content'["matches"][doc[u].match] # {}
                        /\ doc[u].parsed => doc[u].match \in isParsed'
      BY <1>1 DEF OkMeansStored
    <2>1. CASE u = t
      BY <1>2, <1>5, <1>8, <1>a, <2>1 DEF m
    <2>2. CASE u # t
      <3>1. result[u] = "ok" /\ doc[u].match \in Stored
        BY <1>1, <2>2, PayloadTyped DEF TxTypeOK
      <3> QED
        BY <1>5, <1>8, <3>1, SetsOfTables DEF IngestInv, OkMeansStored
    <2> QED
      BY <2>1, <2>2
  <1> QED
    BY <1>9, <1>10, <1>11, <1>12, <1>13, <1>14, <1>15 DEF IngestInv

LEMMA IngestStep ==
    ASSUME IngestConstants, IngestInv, [TxNext]_txVars
    PROVE  IngestInv'
  <1>1. CASE UNCHANGED txVars
    <2>1. UNCHANGED <<doc, base, rootHeld, at, deleted, result>>
      BY <1>1 DEF txVars, locks
    <2>2. TxTypeOK'
      BY <2>1 DEF IngestInv, TxTypeOK, base
    <2>3. \A u \in Txs : Done(u)' = Done(u) /\ (Open(u)' <=> Open(u))
      BY <2>1 DEF Done, Open
    <2>4. RootKept' /\ DeletesCurrent' /\ DraftChecked'
      BY <2>1, <2>3 DEF IngestInv, RootKept, DeletesCurrent, DraftChecked, DraftValid, base
    <2> QED
      BY <2>1, <2>2, <2>4, BaseKept DEF IngestInv
  <1>2. ASSUME NEW t \in Txs, IngestMatch(t) \/ Redeliver(t)
        PROVE  IngestInv'
    <2>1. CASE InsertStub(t) \/ StubsDone(t) \/ StubsFail(t)
      BY <2>1, StubsStep
    <2>2. CASE Statement(t)
      BY <2>2, StatementStep
    <2>3. CASE CheckDraftSchema(t)
      BY <2>3, DraftStep
    <2>4. CASE StatementFails(t) \/ CommitFails(t)
      BY <2>4, RollbackStep DEF StatementFails, CommitFails
    <2>5. CASE Commit(t)
      BY <2>5, CommitStep
    <2>6. CASE Redeliver(t)
      BY <2>6, RedeliverStep
    <2> QED
      BY <1>2, <2>1, <2>2, <2>3, <2>4, <2>5, <2>6 DEF IngestMatch
  <1> QED
    BY <1>1, <1>2 DEF TxNext

(* Store.IngestMatch: for any parsers, matches and payloads, with any      *)
(* statements, commits and deadlock victims failing and any redeliveries,  *)
(* a match is stored with all its parts or not at all, its events are of   *)
(* one payload, and what is acknowledged is stored.                        *)
THEOREM IngestIsSound ==
    ASSUME IngestConstants
    PROVE  TxSpec => []IngestSound
  <1>1. TxInit => IngestInv
    BY IngestInit
  <1>2. IngestInv /\ [TxNext]_txVars => IngestInv'
    BY IngestStep
  <1>3. IngestInv => IngestSound
    BY OneWriterCounts DEF IngestInv, IngestSound
  <1> QED
    BY <1>1, <1>2, <1>3, PTL DEF TxSpec

-----------------------------------------------------------------------------
(* MatchDecode: a value has a row, and a count stays a count.              *)

LEMMA Fits16 ==
    ASSUME NEW v \in Nat, v <= 32767
    PROVE  int16(v) = v
<1>1. (v + 32768) % 65536 = v + 32768  OBVIOUS
<1> QED  BY <1>1 DEF int16

LEMMA SmallCounts ==
    ASSUME DecodeConstants, NEW s \in Seq(Nat), NEW i \in Nat \ {0}
    PROVE  /\ i \in 1..Len(s) => safeIdxSmall(s, i) \in Nat
           /\ i \notin 1..Len(s) => safeIdxSmall(s, i) = Nil
<1>1. CASE i \in 1..Len(s)
  <2>1. s[i] \in Nat /\ i <= Len(s)  BY <1>1
  <2>2. CASE s[i] > MaxInt16
    <3>1. safeIdxSmall(s, i) = int16(MaxInt16)  BY <2>1, <2>2 DEF safeIdxSmall
    <3>2. int16(MaxInt16) \in Nat  BY Fits16 DEF MaxInt16
    <3> QED  BY <1>1, <3>1, <3>2
  <2>3. CASE ~(s[i] > MaxInt16)
    <3>1. safeIdxSmall(s, i) = int16(s[i])  BY <2>1, <2>3 DEF safeIdxSmall
    <3>2. int16(s[i]) \in Nat  BY <2>1, <2>3, Fits16 DEF MaxInt16
    <3> QED  BY <1>1, <3>1, <3>2
  <2> QED  BY <2>2, <2>3
<1>2. CASE i \notin 1..Len(s)
  <2>1. ~(i <= Len(s))  BY <1>2
  <2> QED  BY <1>2, <2>1 DEF safeIdxSmall
<1> QED  BY <1>1, <1>2

LEMMA Values ==
    ASSUME DecodeConstants, NEW s \in Seq(Int), NEW i \in Nat \ {0}
    PROVE  /\ i \in 1..Len(s) => safeIdx(s, i) \in Int
           /\ i \notin 1..Len(s) => safeIdx(s, i) = Nil
BY DEF safeIdx

LEMMA LongestList ==
    ASSUME NEW p \in rawPlayer
    PROVE  /\ maxMin(p) \in Nat
           /\ Valued(p) \subseteq 1..maxMin(p)
<1> DEFINE a == Len(p.times)  b == Len(p.goldT)  c == Len(p.xpT)  d == Len(p.lhT)  e == Len(p.dnT)
           lens == {a, b, c, d, e}
<1>1. a \in Nat /\ b \in Nat /\ c \in Nat /\ d \in Nat /\ e \in Nat
  BY DEF rawPlayer
<1>2. maxMin(p) = CHOOSE n \in lens : \A k \in lens : k <= n
  BY DEF maxMin
<1>3. Valued(p) = 1..b \cup 1..c \cup 1..d \cup 1..e
  BY DEF Valued
<1> HIDE DEF a, b, c, d, e
<1>4. \E n \in lens : \A k \in lens : k <= n
  <2>1. ASSUME NEW x \in Nat, NEW y \in Nat  PROVE \E z \in {x, y} : x <= z /\ y <= z
    OBVIOUS
  <2>2. PICK u \in {a, b} : a <= u /\ b <= u  BY <1>1, <2>1
  <2>3. PICK v \in {u, c} : u <= v /\ c <= v  BY <1>1, <2>1, <2>2
  <2>4. PICK w \in {v, d} : v <= w /\ d <= w  BY <1>1, <2>1, <2>2, <2>3
  <2>5. PICK x \in {w, e} : w <= x /\ e <= x  BY <1>1, <2>1, <2>2, <2>3, <2>4
  <2>6. x \in lens  BY <2>2, <2>3, <2>4, <2>5
  <2>7. a <= x /\ b <= x /\ c <= x /\ d <= x /\ e <= x
    BY <1>1, <2>2, <2>3, <2>4, <2>5
  <2> QED  BY <2>6, <2>7
<1>5. maxMin(p) \in lens /\ \A k \in lens : k <= maxMin(p)
  BY <1>2, <1>4
<1>6. maxMin(p) \in Nat  BY <1>1, <1>5
<1>7. b <= maxMin(p) /\ c <= maxMin(p) /\ d <= maxMin(p) /\ e <= maxMin(p)
  BY <1>5
<1> QED  BY <1>1, <1>3, <1>6, <1>7

(* An int16 is a number, whatever was converted.                           *)
LEMMA Int16 ==
    ASSUME NEW v \in Int
    PROVE  int16(v) \in Int
BY DEF int16

LEMMA SeriesRows ==
    ASSUME DecodeConstants, NEW p \in rawPlayer, NEW m \in Nat \ {0}
    PROVE  /\ m \in Valued(p) <=> SeriesRow(p, m) # Nil
           /\ m \in Valued(p) =>
                 /\ SeriesRow(p, m).slot = p.slot
                 /\ SeriesRow(p, m).lh >= 0 /\ SeriesRow(p, m).dn >= 0
                 /\ m <= MaxInt16 + 1 => SeriesRow(p, m).minute = m - 1
<1> DEFINE gold == safeIdx(p.goldT, m)
           xp == safeIdx(p.xpT, m)
           lh == safeIdxSmall(p.lhT, m)
           dn == safeIdxSmall(p.dnT, m)
           minute == int16(m - 1)
           row == [slot |-> p.slot, minute |-> minute, gold |-> deref(gold, 0), xp |-> deref(xp, 0),
                   lh |-> deref(lh, 0), dn |-> deref(dn, 0)]
<1>1. /\ p.slot \in Nat /\ p.goldT \in Seq(Int) /\ p.xpT \in Seq(Int)
      /\ p.lhT \in Seq(Nat) /\ p.dnT \in Seq(Nat)
  BY DEF rawPlayer
<1>2. /\ m \in 1..Len(p.goldT) => gold \in Int
      /\ m \notin 1..Len(p.goldT) => gold = Nil
      /\ m \in 1..Len(p.xpT) => xp \in Int
      /\ m \notin 1..Len(p.xpT) => xp = Nil
  BY <1>1, Values
<1>3. /\ m \in 1..Len(p.lhT) => lh \in Nat
      /\ m \notin 1..Len(p.lhT) => lh = Nil
      /\ m \in 1..Len(p.dnT) => dn \in Nat
      /\ m \notin 1..Len(p.dnT) => dn = Nil
  BY <1>1, SmallCounts
<1>4. SeriesRow(p, m) = IF gold = Nil /\ xp = Nil /\ lh = Nil /\ dn = Nil THEN Nil ELSE row
  BY DEF SeriesRow
<1>5. minute \in Int /\ (m <= MaxInt16 + 1 => minute = m - 1)
  <2>1. m - 1 \in Nat  OBVIOUS
  <2>2. ASSUME m <= MaxInt16 + 1  PROVE minute = m - 1
    BY <2>1, <2>2, Fits16 DEF MaxInt16
  <2> QED  BY <2>1, <2>2, Int16
<1> HIDE DEF gold, xp, lh, dn, minute
<1>6. Nil \notin Int  BY DEF DecodeConstants
<1>7. m \in Valued(p) <=> ~(gold = Nil /\ xp = Nil /\ lh = Nil /\ dn = Nil)
  BY <1>2, <1>3, <1>6 DEF Valued
<1>8. deref(gold, 0) \in Int /\ deref(xp, 0) \in Int
  BY <1>2 DEF deref
<1>9. deref(lh, 0) \in Nat /\ deref(dn, 0) \in Nat
  BY <1>3 DEF deref
<1>10. row \in RowOfMinute  BY <1>1, <1>5, <1>8, <1>9 DEF RowOfMinute
<1>11. row # Nil  BY <1>10 DEF DecodeConstants
<1>12. row.slot = p.slot /\ row.lh >= 0 /\ row.dn >= 0 /\ row.minute = minute
  BY <1>9
<1> QED  BY <1>4, <1>5, <1>7, <1>11, <1>12

(* decode_players.go: for players with lists of any lengths there is a row *)
(* for each position with a value and no other, no count is negative, and  *)
(* the minute is right as long as an int16 can hold it.                    *)
THEOREM DecodingIsSound ==
    ASSUME DecodeConstants, On("players") => probe \in Seq(rawPlayer)
    PROVE  DecodeSound
<1> SUFFICES ASSUME probe \in Seq(rawPlayer)
             PROVE  TimeseriesComplete(probe)
  BY DEF DecodeSound
<1> DEFINE minutes == UNION {{i} \X (1..maxMin(probe[i])) : i \in DOMAIN probe}
           valued  == UNION {{i} \X Valued(probe[i]) : i \in DOMAIN probe}
           domain  == {y \in minutes : SeriesRow(probe[y[1]], y[2]) # Nil}
           series  == [x \in domain |-> SeriesRow(probe[x[1]], x[2])]
<1>1. expandTimeseries(probe) = series
  BY DEF expandTimeseries
<1>2. ASSUME NEW i \in DOMAIN probe
      PROVE  /\ probe[i] \in rawPlayer /\ maxMin(probe[i]) \in Nat
             /\ Valued(probe[i]) \subseteq 1..maxMin(probe[i])
  <2>1. probe[i] \in rawPlayer  OBVIOUS
  <2> QED  BY <2>1, LongestList
<1>3. ASSUME NEW i \in DOMAIN probe, NEW m \in 1..maxMin(probe[i])
      PROVE  /\ m \in Valued(probe[i]) <=> SeriesRow(probe[i], m) # Nil
             /\ m \in Valued(probe[i]) =>
                   /\ SeriesRow(probe[i], m).slot = probe[i].slot
                   /\ SeriesRow(probe[i], m).lh >= 0 /\ SeriesRow(probe[i], m).dn >= 0
                   /\ m <= MaxInt16 + 1 => SeriesRow(probe[i], m).minute = m - 1
  <2>1. m \in Nat \ {0}  BY <1>2
  <2> QED  BY <1>2, <2>1, SeriesRows
<1>4. \A x : x \in minutes <=> \E i \in DOMAIN probe : \E m \in 1..maxMin(probe[i]) : x = <<i, m>>
  OBVIOUS
<1>5. \A x : x \in valued <=> \E i \in DOMAIN probe : \E m \in Valued(probe[i]) : x = <<i, m>>
  OBVIOUS
<1> HIDE DEF minutes, valued
<1>6. \A x : x \in domain <=> x \in valued
  <2>1. ASSUME NEW x \in domain  PROVE x \in valued
    <3>3. PICK i \in DOMAIN probe : \E m \in 1..maxMin(probe[i]) : x = <<i, m>>
      BY <1>4
    <3>1. PICK m \in 1..maxMin(probe[i]) : x = <<i, m>>
      BY <3>3
    <3>2. SeriesRow(probe[i], m) # Nil  BY <3>1
    <3> QED  BY <1>3, <1>5, <3>1, <3>2
  <2>2. ASSUME NEW x \in valued  PROVE x \in domain
    <3>5. PICK i \in DOMAIN probe : \E m \in Valued(probe[i]) : x = <<i, m>>
      BY <1>5
    <3>1. PICK m \in Valued(probe[i]) : x = <<i, m>>
      BY <3>5
    <3>2. m \in 1..maxMin(probe[i])  BY <1>2
    <3>3. x \in minutes  BY <1>4, <3>1, <3>2
    <3>4. SeriesRow(probe[i], m) # Nil  BY <1>3, <3>2
    <3> QED  BY <3>1, <3>3, <3>4
  <2> QED  BY <2>1, <2>2
<1>7. ASSUME NEW x \in domain
      PROVE  /\ series[x].slot = probe[x[1]].slot
             /\ series[x].lh >= 0 /\ series[x].dn >= 0
             /\ x[2] <= MaxInt16 + 1 => series[x].minute = x[2] - 1
  <2>4. PICK i \in DOMAIN probe : \E m \in Valued(probe[i]) : x = <<i, m>>
    BY <1>5, <1>6
  <2>1. PICK m \in Valued(probe[i]) : x = <<i, m>>
    BY <2>4
  <2>2. m \in 1..maxMin(probe[i]) /\ x[1] = i /\ x[2] = m  BY <1>2, <2>1
  <2>3. series[x] = SeriesRow(probe[i], m)  BY <2>2
  <2> HIDE DEF series
  <2> QED  BY <1>3, <2>2, <2>3
<1>8. DOMAIN series = domain /\ domain = valued  BY <1>6
<1> HIDE DEF series
<1> QED  BY <1>1, <1>7, <1>8, Zenon DEF TimeseriesComplete, valued

(* What Postgres holds: a root row or none; JSON null is not stored.       *)
HeldOK ==
    /\ held = [root |-> held.root, objectives |-> held.objectives, chat |-> held.chat,
               advantages |-> held.advantages, cosmetics |-> held.cosmetics]
    /\ held.root = Nil \/ held.root \in RootRow

LEMMA ArgsTyped ==
    ASSUME DecodeConstants, NEW rm \in Messages
    PROVE  /\ RootArgs(decodeMatchRoot(rm, ParseTask)) \in RootRow
           /\ RootArgs(decodeMatchRoot(rm, ParseTask)).radiantWin = rm.radiantWin
           /\ RootArgs(decodeMatchRoot(rm, ParseTask)).pauses = jsonbOrNull(rm.pauses)
           /\ RootArgs(decodeMatchRoot(rm, ParseTask)).isParsed = isMatchParsed(rm.players)
           /\ decodeMatchRoot(rm, ParseTask).isParsed = isMatchParsed(rm.players)
<1> DEFINE m == decodeMatchRoot(rm, ParseTask)
<1>1. /\ m.radiantWin = rm.radiantWin /\ m.score = deref(rm.score, 0)
      /\ m.url = deref(rm.url, "") /\ m.pauses = rm.pauses
      /\ m.isParsed = isMatchParsed(rm.players)
  BY DEF decodeMatchRoot
<1>2. isMatchParsed(rm.players) \in BOOLEAN  BY DEF isMatchParsed
<1>3. deref(rm.score, 0) \in Int
  <2>1. rm.score = Nil \/ rm.score \in Int  BY DEF DecodeConstants, rawMatch
  <2> QED  BY <2>1 DEF deref
<1>4. nullIfStr(deref(rm.url, "")) \in {Nil, "url"}  BY DEF DecodeConstants, rawMatch, deref, nullIfStr
<1>5. jsonbOrNull(rm.pauses) \in {Nil, "pauses"}  BY DEF DecodeConstants, rawMatch, jsonbOrNull
<1>6. rm.radiantWin \in {Nil, TRUE, FALSE}  BY DEF DecodeConstants, rawMatch
<1>7. RootArgs(m) = [radiantWin |-> rm.radiantWin, score |-> deref(rm.score, 0),
                     url |-> nullIfStr(deref(rm.url, "")), pauses |-> jsonbOrNull(rm.pauses),
                     isParsed |-> isMatchParsed(rm.players)]
  BY <1>1 DEF RootArgs
<1> DEFINE b == deref(rm.score, 0)
           c == nullIfStr(deref(rm.url, ""))
           d == jsonbOrNull(rm.pauses)
           e == isMatchParsed(rm.players)
           row == RootArgs(m)
<1>9. row = [radiantWin |-> rm.radiantWin, score |-> b, url |-> c, pauses |-> d, isParsed |-> e]
  BY <1>7
<1>10. b \in Int /\ c \in {Nil, "url"} /\ d \in {Nil, "pauses"} /\ e \in BOOLEAN
  BY <1>2, <1>3, <1>4, <1>5
<1> HIDE DEF b, c, d, e, row
<1>11. row \in RootRow /\ row.radiantWin = rm.radiantWin /\ row.pauses = d /\ row.isParsed = e
  <2>1. row \in RootRow  BY <1>6, <1>9, <1>10 DEF RootRow
  <2> QED  BY <1>9, <2>1
<1>8. /\ RootArgs(m) \in RootRow
      /\ RootArgs(m).radiantWin = rm.radiantWin
      /\ RootArgs(m).pauses = jsonbOrNull(rm.pauses)
      /\ RootArgs(m).isParsed = isMatchParsed(rm.players)
  BY <1>11, Zenon DEF row, d, e
<1> QED  BY <1>1, <1>8, Zenon

LEMMA UpsertedRoot ==
    ASSUME DecodeConstants, NEW old, NEW new \in RootRow, old = Nil \/ old \in RootRow
    PROVE  LET root == upsertMatchRoot(old, new)
           IN  /\ root \in RootRow
               /\ old # Nil /\ old.isParsed /\ ~new.isParsed => root = old
               /\ ~(old # Nil /\ old.isParsed /\ ~new.isParsed) =>
                     /\ new.radiantWin # Nil => root.radiantWin = new.radiantWin
                     /\ new.pauses # Nil => root.pauses = new.pauses
               /\ old # Nil => /\ old.radiantWin # Nil => root.radiantWin # Nil
                               /\ old.url # Nil => root.url # Nil
                               /\ old.pauses # Nil => root.pauses # Nil
                               /\ old.isParsed => root.isParsed
<1> DEFINE root == upsertMatchRoot(old, new)
<1>1. CASE old = Nil
  <2>1. root = new  BY <1>1 DEF upsertMatchRoot
  <2> QED  BY <1>1, <2>1
<1>2. CASE old # Nil /\ old.isParsed /\ ~new.isParsed
  <2>1. root = old  BY <1>2 DEF upsertMatchRoot
  <2> QED  BY <1>2, <2>1
<1>3. CASE old # Nil /\ ~(old.isParsed /\ ~new.isParsed)
  <2>1. root = [radiantWin |-> Coalesce(new.radiantWin, old.radiantWin),
                score |-> Coalesce(new.score, old.score), url |-> Coalesce(new.url, old.url),
                pauses |-> Coalesce(new.pauses, old.pauses),
                isParsed |-> old.isParsed \/ new.isParsed]
    BY <1>3 DEF upsertMatchRoot
  <2>2. old \in RootRow  BY <1>3
  <2>3. ASSUME NEW S, NEW a \in S, NEW b \in S
        PROVE  Coalesce(a, b) \in S /\ (a # Nil => Coalesce(a, b) = a)
                                   /\ (b # Nil => Coalesce(a, b) # Nil)
    BY DEF Coalesce
  <2>4. /\ old.radiantWin \in {Nil, TRUE, FALSE} /\ new.radiantWin \in {Nil, TRUE, FALSE}
        /\ old.score \in Int /\ new.score \in Int
        /\ old.url \in {Nil, "url"} /\ new.url \in {Nil, "url"}
        /\ old.pauses \in {Nil, "pauses"} /\ new.pauses \in {Nil, "pauses"}
        /\ old.isParsed \in BOOLEAN /\ new.isParsed \in BOOLEAN
    BY <2>2 DEF RootRow
  <2>5. /\ Coalesce(new.radiantWin, old.radiantWin) \in {Nil, TRUE, FALSE}
        /\ Coalesce(new.score, old.score) \in Int
        /\ Coalesce(new.url, old.url) \in {Nil, "url"}
        /\ Coalesce(new.pauses, old.pauses) \in {Nil, "pauses"}
        /\ (old.isParsed \/ new.isParsed) \in BOOLEAN
    BY <2>3, <2>4
  <2> DEFINE a == Coalesce(new.radiantWin, old.radiantWin)
             b == Coalesce(new.score, old.score)
             c == Coalesce(new.url, old.url)
             d == Coalesce(new.pauses, old.pauses)
             e == old.isParsed \/ new.isParsed
  <2>8. root = [radiantWin |-> a, score |-> b, url |-> c, pauses |-> d, isParsed |-> e]
    BY <2>1
  <2>9. /\ a \in {Nil, TRUE, FALSE} /\ b \in Int /\ c \in {Nil, "url"}
        /\ d \in {Nil, "pauses"} /\ e \in BOOLEAN
    BY <2>5, Zenon
  <2> HIDE DEF root, a, b, c, d, e
  <2>10. /\ root \in RootRow
         /\ root.radiantWin = a /\ root.url = c /\ root.pauses = d /\ root.isParsed = e
    <3>1. root \in RootRow  BY <2>8, <2>9 DEF RootRow
    <3> QED  BY <2>8, <3>1
  <2>6. /\ root \in RootRow
        /\ root.radiantWin = Coalesce(new.radiantWin, old.radiantWin)
        /\ root.url = Coalesce(new.url, old.url)
        /\ root.pauses = Coalesce(new.pauses, old.pauses)
        /\ root.isParsed = (old.isParsed \/ new.isParsed)
    BY <2>10, Zenon DEF a, c, d, e
  <2>7. /\ new.radiantWin # Nil => root.radiantWin = new.radiantWin
        /\ new.pauses # Nil => root.pauses = new.pauses
        /\ old.radiantWin # Nil => root.radiantWin # Nil
        /\ old.url # Nil => root.url # Nil
        /\ old.pauses # Nil => root.pauses # Nil
    BY <2>6, Zenon DEF Coalesce
  <2> QED  BY <1>3, <2>6, <2>7, Zenon DEF root
<1> QED  BY <1>1, <1>2, <1>3

(* handleMessage, for all payloads: the step keeps what is known.          *)
LEMMA MessageStep ==
    ASSUME DecodeConstants, HeldOK, HandleMessage
    PROVE  HeldOK' /\ Keeps(held, held', message')
<1>1. PICK rm \in Messages :
         /\ message' = rm
         /\ held' = IF Disposal(rm, ParseTask) = "ingest" THEN IngestedMatch(held, rm, ParseTask)
                    ELSE held
  BY DEF HandleMessage
<1> DEFINE m == decodeMatchRoot(rm, ParseTask)
           root == upsertMatchRoot(held.root, RootArgs(m))
<1>2. /\ root \in RootRow
      /\ held.root # Nil /\ held.root.isParsed /\ ~isMatchParsed(rm.players) => root = held.root
      /\ ~(held.root # Nil /\ held.root.isParsed /\ ~isMatchParsed(rm.players)) =>
            /\ rm.radiantWin # Nil => root.radiantWin = rm.radiantWin
            /\ jsonbOrNull(rm.pauses) # Nil => root.pauses = jsonbOrNull(rm.pauses)
      /\ held.root # Nil => /\ held.root.radiantWin # Nil => root.radiantWin # Nil
                            /\ held.root.url # Nil => root.url # Nil
                            /\ held.root.pauses # Nil => root.pauses # Nil
                            /\ held.root.isParsed => root.isParsed
  BY ArgsTyped, UpsertedRoot DEF HeldOK
<1>3. root # Nil /\ root.pauses # "null"
  BY <1>2 DEF DecodeConstants, RootRow
<1>4. rm.pauses = "pauses" => jsonbOrNull(rm.pauses) = "pauses" /\ "pauses" # Nil
  BY DEF jsonbOrNull, DecodeConstants
<1>5. CASE Disposal(rm, ParseTask) # "ingest"
  <2>1. held' = held  BY <1>1, <1>5
  <2>2. HeldOK'  BY <2>1 DEF HeldOK
  <2>3. held.root = Nil \/ held.root \in RootRow  BY DEF HeldOK
  <2> QED  BY <1>1, <1>5, <2>1, <2>2 DEF Keeps
<1>6. CASE Disposal(rm, ParseTask) = "ingest" /\ ~isMatchParsed(rm.players)
  <2>1. held' = [held EXCEPT !.root = root]
    BY <1>1, <1>6, ArgsTyped DEF IngestedMatch
  <2>2. held' = [root |-> root, objectives |-> held.objectives, chat |-> held.chat,
                 advantages |-> held.advantages, cosmetics |-> held.cosmetics]
    BY <2>1 DEF HeldOK
  <2>3. /\ held'.root = root /\ held'.objectives = held.objectives
        /\ held'.chat = held.chat /\ held'.advantages = held.advantages
        /\ held'.cosmetics = held.cosmetics
    BY <2>2
  <2>4. HeldOK'  BY <1>2, <2>2, <2>3 DEF HeldOK
  <2>5. root = held.root => held' = held  BY <2>2 DEF HeldOK
  <2> HIDE DEF root
  <2> QED  BY <1>1, <1>2, <1>3, <1>4, <1>6, <2>3, <2>4, <2>5 DEF Keeps
<1>7. CASE Disposal(rm, ParseTask) = "ingest" /\ isMatchParsed(rm.players)
  <2> DEFINE adv == decodeAdvantages(rm.goldAdv, rm.xpAdv)
  <2>1. held' = [root |-> root,
                 objectives |-> Replace(held.objectives, decodeObjectives(rm.objectives)),
                 chat |-> Replace(held.chat, decodeChat(rm.chat)),
                 advantages |-> Overwrite(held.advantages, adv),
                 cosmetics |-> Overwrite(held.cosmetics, rm.cosmetics)]
    BY <1>1, <1>7, ArgsTyped DEF IngestedMatch
  <2> HIDE DEF adv
  <2>2. /\ held'.root = root
        /\ held'.objectives = Replace(held.objectives, decodeObjectives(rm.objectives))
        /\ held'.chat = Replace(held.chat, decodeChat(rm.chat))
        /\ held'.advantages = Overwrite(held.advantages, adv)
        /\ held'.cosmetics = Overwrite(held.cosmetics, rm.cosmetics)
    BY <2>1
  <2>3. HeldOK'  BY <1>2, <2>1, <2>2 DEF HeldOK
  <2>4. /\ held.objectives # <<>> => held'.objectives # <<>>
        /\ held.chat # <<>> => held'.chat # <<>>
    BY <2>2 DEF Replace
  <2>5. /\ held.advantages # Nil => held'.advantages # Nil
        /\ held.cosmetics # Nil => held'.cosmetics # Nil
    BY <2>2 DEF Overwrite
  <2>6. rm.goldAdv # <<>> \/ rm.xpAdv # <<>> => held'.advantages = <<rm.goldAdv, rm.xpAdv>>
    <3>1. rm.goldAdv # <<>> \/ rm.xpAdv # <<>> => adv = <<rm.goldAdv, rm.xpAdv>>
      BY DEF adv, decodeAdvantages
    <3>2. <<rm.goldAdv, rm.xpAdv>> # Nil
      <4>1. rm \in rawMatch  BY DEF DecodeConstants
      <4>2. rm.goldAdv \in Seq(Int) /\ rm.xpAdv \in Seq(Int)  BY <4>1 DEF rawMatch
      <4>3. <<rm.goldAdv, rm.xpAdv>> \in Seq(Int) \X Seq(Int)  BY <4>2
      <4>4. Nil \notin Seq(Int) \X Seq(Int)  BY DEF DecodeConstants
      <4> QED  BY <4>3, <4>4
    <3> QED  BY <2>2, <3>1, <3>2 DEF Overwrite
  <2>7. rm.cosmetics = "cosmetics" => held'.cosmetics = "cosmetics"
    BY <2>2 DEF Overwrite, DecodeConstants
  <2> HIDE DEF root
  <2> QED  BY <1>1, <1>2, <1>3, <1>4, <1>7, <2>2, <2>3, <2>4, <2>5, <2>6, <2>7 DEF Keeps
<1> QED  BY <1>5, <1>6, <1>7

(* upsertMatchRoot, replaceObjectives, replaceChat: after any number of    *)
(* payloads, what one of them brought for a column with COALESCE, the      *)
(* objectives or the chat is not lost to a later one without it, and JSON  *)
(* null never takes the place of a value there; rows of advantages and     *)
(* cosmetics stay, with what the last payload that has any brought.        *)
THEOREM ParserKeepsKnown ==
    ASSUME DecodeConstants
    PROVE  DecodeSpec => KnownKept
<1>1. DecodeInit => HeldOK
  BY DEF DecodeInit, HeldOK, NothingHeld
<1>2. HeldOK /\ [HandleMessage]_decodeVars => HeldOK'
  BY MessageStep DEF decodeVars, HeldOK
<1>3. HeldOK /\ [HandleMessage]_decodeVars =>
         [message' # Nil => Keeps(held, held', message')]_decodeVars
  BY MessageStep
<1> QED  BY <1>1, <1>2, <1>3, PTL DEF DecodeSpec, KnownKept

=============================================================================
