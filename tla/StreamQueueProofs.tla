-------------------------- MODULE StreamQueueProofs --------------------------
(***************************************************************************)
(* Theorems about StreamQueue, for any messages, workers, batch sizes,     *)
(* retry limits, stream lengths and configuration flags.                   *)
(***************************************************************************)
EXTENDS StreamQueue, FiniteSetTheorems, TLAPS

(* The entry is still accounted for: in the stream, in the dead letters,   *)
(* recorded as lost, or in the ZSET with its retry still to be added.      *)
Anchored(i) ==
    \/ Live(i)
    \/ Buried(i)
    \/ i \in lost
    \/ i \in delayed /\ ~Readded(i)

(* What a worker holds was delivered.                                      *)
HeldDelivered ==
    \A c \in Consumers : \A i \in Held(c) \cup broken[c] : i <= cursor

(* A pending entry was delivered, and only trimming takes its data away.   *)
PendingBacked ==
    \A i \in Ids : owner[i] # NoOne => i <= cursor /\ i \in present \cup lost

(* A retry that is delayed was acknowledged.                               *)
DelayedAcked ==
    /\ \A i \in delayed : i <= cursor /\ owner[i] = NoOne
    /\ \A c \in Consumers :
          /\ \A i \in maturing[c] : i <= cursor /\ owner[i] = NoOne
          /\ remDue[c] # NoId => remDue[c] <= cursor /\ owner[remDue[c]] = NoOne

(* An entry that does not decode was trimmed.                              *)
BrokenLost == \A c \in Consumers : broken[c] \subseteq lost

(* The message of every entry was settled or has an entry accounted for    *)
(* that was retried as often: a retry is never behind the one it replaces. *)
AllAnchored ==
    \A i \in Ids : i < nextId =>
        \/ msgOf[i] \in handled \cup dropped
        \/ \E j \in Ids : msgOf[j] = msgOf[i] /\ retries[j] >= retries[i] /\ Anchored(j)

IInv ==
    /\ TypeOK /\ HeldDelivered /\ PendingBacked /\ DelayedAcked /\ BrokenLost
    /\ AllAnchored

-----------------------------------------------------------------------------
(* Init establishes the inductive invariant.                               *)
LEMMA InitIInv == Init => IInv
  BY QueueAssumption
     DEF Init, IInv, TypeOK, HeldDelivered, PendingBacked, DelayedAcked, BrokenLost,
         AllAnchored, Held, Ids, NoId, NoGroup, Phases

(* A step that adds no entry keeps every message anchored if it keeps      *)
(* every entry anchored or settles its message.                            *)
LEMMA AnchorsKept ==
  ASSUME IInv, UNCHANGED <<nextId, msgOf, retries>>,
         handled \subseteq handled', dropped \subseteq dropped',
         \A j \in Ids : Anchored(j) => Anchored(j)' \/ msgOf[j] \in handled' \cup dropped'
  PROVE  AllAnchored'
  BY DEF IInv, AllAnchored

(* A step that only moves entries between a worker's own sets, all of them *)
(* delivered ones, preserves the invariant.                                *)
LEMMA LoopStep ==
  ASSUME IInv,
         UNCHANGED <<log, group, dead, async, fates>>,
         phase' \in [Consumers -> Phases],
         batch' \in [Consumers -> SUBSET Ids],
         running' \in [Consumers -> SUBSET Ids],
         broken' \in [Consumers -> SUBSET Ids],
         crashes' \in Nat, faults' \in Nat, slow' \in Nat,
         \A c \in Consumers : \A i \in (Held(c) \cup broken[c])' : i <= cursor,
         \A c \in Consumers : broken'[c] \subseteq lost
  PROVE  IInv'
  <1> USE DEF IInv, log, group, dead, async, fates
  <1>1. TypeOK'
    BY DEF TypeOK
  <1>2. HeldDelivered' /\ BrokenLost'
    BY DEF HeldDelivered, BrokenLost
  <1>3. PendingBacked' /\ DelayedAcked'
    BY DEF PendingBacked, DelayedAcked
  <1>4. AllAnchored'
    BY AnchorsKept DEF Anchored, Live, Buried, Readded
  <1> QED BY <1>1, <1>2, <1>3, <1>4

LEMMA PopEmptyInv == ASSUME NEW c \in Consumers, IInv, PopEmpty(c) PROVE IInv'
  <1> UNCHANGED <<log, group, dead, async, fates>>
    BY DEF PopEmpty
  <1> QED
    BY LoopStep DEF PopEmpty, IInv, TypeOK, HeldDelivered, BrokenLost, Held, Phases, budgets

LEMMA DispatchInv == ASSUME NEW c \in Consumers, IInv, Dispatch(c) PROVE IInv'
  <1>1. UNCHANGED <<log, group, dead, async, fates>>
    BY DEF Dispatch
  <1>2. PICK i \in batch[c] :
          /\ batch' = [batch EXCEPT ![c] = @ \ {i}]
          /\ running' = [running EXCEPT ![c] = @ \cup {i}]
    BY DEF Dispatch
  <1>3. UNCHANGED <<phase, broken, crashes, faults, slow>>
    BY DEF Dispatch, budgets
  <1>4. \A d \in Consumers : Held(d)' = Held(d)
    BY <1>2 DEF Held, IInv, TypeOK
  <1> QED
    BY LoopStep, <1>1, <1>2, <1>3, <1>4 DEF IInv, TypeOK, HeldDelivered, BrokenLost

LEMMA BatchDoneInv == ASSUME NEW c \in Consumers, IInv, BatchDone(c) PROVE IInv'
  <1> UNCHANGED <<log, group, dead, async, fates>>
    BY DEF BatchDone
  <1> QED
    BY LoopStep DEF BatchDone, IInv, TypeOK, HeldDelivered, BrokenLost, Held, Phases, budgets

LEMMA PopPendingInv == ASSUME NEW c \in Consumers, IInv, PopPending(c) PROVE IInv'
  <1>1. UNCHANGED <<log, group, dead, async, fates, running, budgets>>
    BY DEF PopPending
  <1>2. PICK S \in SUBSET Pending(c) :
          /\ batch' = [batch EXCEPT ![c] = S \cap present]
          /\ broken' = [broken EXCEPT ![c] = S \ present]
    BY DEF PopPending
  <1>3. \A i \in S : i \in Ids /\ i <= cursor /\ i \in present \cup lost
    BY QueueAssumption DEF IInv, PendingBacked, Pending
  <1>4. phase' \in [Consumers -> Phases]
    BY DEF PopPending, IInv, TypeOK, Phases
  <1>5. \A d \in Consumers : \A i \in (Held(d) \cup broken[d])' : i <= cursor
    BY <1>1, <1>2, <1>3 DEF IInv, TypeOK, HeldDelivered, Held
  <1>6. \A d \in Consumers : broken'[d] \subseteq lost
    BY <1>2, <1>3 DEF IInv, TypeOK, BrokenLost
  <1> QED
    BY LoopStep, <1>1, <1>2, <1>3, <1>4, <1>5, <1>6 DEF IInv, TypeOK, budgets

LEMMA PopPendingEmptyInv == ASSUME NEW c \in Consumers, IInv, PopPendingEmpty(c) PROVE IInv'
  <1> UNCHANGED <<log, group, dead, async, fates>>
    BY DEF PopPendingEmpty
  <1> QED
    BY LoopStep DEF PopPendingEmpty, IInv, TypeOK, HeldDelivered, BrokenLost, Held, Phases, budgets

LEMMA CrashInv == ASSUME NEW c \in Consumers, IInv, Crash(c) PROVE IInv'
  <1>1. UNCHANGED <<log, group, dead, delayed, fates>>
    BY DEF Crash
  <1>2. TypeOK'
    BY <1>1 DEF Crash, IInv, TypeOK, Phases, NoId, log, group, dead, fates
  <1>3. HeldDelivered' /\ BrokenLost'
    BY <1>1 DEF Crash, IInv, TypeOK, HeldDelivered, BrokenLost, Held, log, group
  <1>4. PendingBacked' /\ DelayedAcked'
    BY <1>1 DEF Crash, IInv, TypeOK, PendingBacked, DelayedAcked, log, group
  <1>5. \A i \in Ids : Anchored(i) => Anchored(i)'
    BY <1>1 DEF Anchored, Live, Buried, Readded, log, group, dead
  <1>6. AllAnchored'
    BY <1>1, <1>5, AnchorsKept DEF log, fates
  <1> QED BY <1>2, <1>3, <1>4, <1>6 DEF IInv

(* XREADGROUP ">" turns undelivered entries into pending ones.             *)
LEMMA DeliverInv ==
  ASSUME NEW c \in Consumers, NEW k \in Ids, IInv, Deliver(c, k),
         UNCHANGED <<log, dead, async, fates, running, broken>>,
         batch' = batch \/ batch' = [batch EXCEPT ![c] = {i \in Undelivered : i <= k}],
         phase' \in [Consumers -> Phases],
         crashes' \in Nat, faults' \in Nat, slow' \in Nat
  PROVE  IInv'
  <1> DEFINE S == {i \in Undelivered : i <= k}
  <1>1. /\ owner' = [i \in Ids |-> IF i \in S THEN c ELSE owner[i]]
        /\ cursor' = k /\ k \in present /\ k > cursor
        /\ S \subseteq Ids /\ S \subseteq present
    BY DEF Deliver, Undelivered, IInv, TypeOK
  <1> HIDE DEF S
  <1> USE DEF IInv, TypeOK, log, dead, async, fates
  <1>2. k \in Int /\ cursor \in Int /\ cursor < k /\ Ids \subseteq Int
    BY <1>1, QueueAssumption DEF Ids
  <1>b. /\ batch' \in [Consumers -> SUBSET Ids]
        /\ \A d \in Consumers : batch'[d] \subseteq batch[d] \cup S
    BY <1>1 DEF S
  <1>o. owner' \in [Ids -> Consumers \cup {NoOne}]
    BY <1>1
  <1>k. cursor' \in -1..MaxId /\ cursor' < nextId
    BY <1>1, QueueAssumption DEF Ids
  <1>3. TypeOK'
    BY <1>b, <1>o, <1>k
  <1>4. HeldDelivered' /\ BrokenLost'
    <2>1. \A d \in Consumers : \A i \in Held(d) \cup broken[d] \cup S : i <= k /\ i \in Ids
      BY <1>1, <1>2 DEF HeldDelivered, Held, S
    <2> QED BY <2>1, <1>1, <1>b DEF HeldDelivered, BrokenLost, Held
  <1>5. PendingBacked'
    BY <1>1, <1>2 DEF PendingBacked, S
  <1>6. DelayedAcked'
    <2>1. \A i \in Ids : i <= cursor /\ owner[i] = NoOne => i <= cursor' /\ owner'[i] = NoOne
      BY <1>1, <1>2 DEF S, Undelivered
    <2>2. \A d \in Consumers : maturing[d] \subseteq Ids /\ (remDue[d] # NoId => remDue[d] \in Ids)
      OBVIOUS
    <2> QED BY <2>1, <2>2 DEF DelayedAcked
  <1>7. \A i \in Ids : Anchored(i) => Anchored(i)'
    BY <1>1, <1>2, QueueAssumption DEF Anchored, Live, Buried, Readded, S, Undelivered
  <1>8. AllAnchored'
    BY <1>7, AnchorsKept
  <1> QED BY <1>3, <1>4, <1>5, <1>6, <1>8

LEMMA PopInv == ASSUME NEW c \in Consumers, IInv, Pop(c) PROVE IInv'
  BY DeliverInv DEF Pop, IInv, TypeOK, Phases, budgets

LEMMA PopReplyLostInv == ASSUME NEW c \in Consumers, IInv, PopReplyLost(c) PROVE IInv'
  BY DeliverInv DEF PopReplyLost, Fault, IInv, TypeOK, Phases

LEMMA StartFromInv == ASSUME NEW c \in Consumers, NEW p, IInv, StartFrom(c, p) PROVE IInv'
  <1> USE DEF IInv, TypeOK, StartFrom, EnsureGroup
  <1>1. UNCHANGED <<nextId, msgOf, retries, present, owner, dlq, dlqNext, batch, running, broken,
                    delayed, maturing, remDue, handled, dropped, crashes, faults, slow>>
    BY DEF dead, async, fates, budgets
  <1>2. nextId \in Int /\ cursor \in Int /\ cursor <= cursor' /\ cursor' \in -1..MaxId /\ cursor' < nextId
    BY QueueAssumption DEF NoGroup
  <1>3. lost \subseteq lost' /\ lost' \subseteq lost \cup present
    OBVIOUS
  <1>4. TypeOK'
    BY <1>1, <1>2, <1>3 DEF Phases
  <1>5. Ids \subseteq Int
    BY DEF Ids
  <1>l. \A i \in Ids : i <= cursor => i <= cursor'
    BY <1>2, <1>5
  <1>6. HeldDelivered' /\ BrokenLost' /\ PendingBacked' /\ DelayedAcked'
    <2>1. HeldDelivered'
      BY <1>1, <1>l DEF HeldDelivered, Held
    <2>2. BrokenLost' /\ PendingBacked'
      BY <1>1, <1>3, <1>l DEF BrokenLost, PendingBacked
    <2>3. DelayedAcked'
      BY <1>1, <1>l DEF DelayedAcked
    <2> QED BY <2>1, <2>2, <2>3
  <1>7. \A i \in Ids : Anchored(i) => Anchored(i)'
    BY <1>1, <1>2, <1>3, <1>5 DEF Anchored, Live, Buried, Readded
  <1>8. AllAnchored'
    BY <1>1, <1>7, AnchorsKept
  <1> QED BY <1>4, <1>6, <1>8

-----------------------------------------------------------------------------
(* Steps that acknowledge, add or claim entries leave the cursor alone and *)
(* give no worker anything new to hold; for these the invariant comes down *)
(* to its type part, to PendingBacked and to AllAnchored.                  *)
LEMMA EntryStep ==
  ASSUME IInv, TypeOK', cursor' = cursor, AllAnchored',
         \A d \in Consumers :
            /\ Held(d)' \subseteq Held(d)
            /\ broken'[d] \subseteq broken[d]
            /\ maturing'[d] \subseteq maturing[d] \cup delayed
            /\ remDue'[d] \in {remDue[d], NoId} \cup maturing[d],
         lost \subseteq lost',
         \A j \in Ids : owner'[j] # NoOne => owner[j] # NoOne /\ j \in present' \cup lost',
         \A j \in delayed' : j \in delayed \/ (j <= cursor /\ owner'[j] = NoOne)
  PROVE  IInv'
  <1> USE DEF IInv
  <1>1. HeldDelivered' /\ BrokenLost'
    BY DEF HeldDelivered, BrokenLost
  <1>2. PendingBacked'
    BY DEF PendingBacked
  <1>3. DelayedAcked'
    BY DEF DelayedAcked, TypeOK
  <1> QED BY <1>1, <1>2, <1>3

(* What XADD for m with retry count r, and the XDEL that follows it, do to *)
(* the stream: the new entry is anchored, and so stays every other one but *)
(* those it is the retry of.                                               *)
Added(m, r, gone) ==
    /\ nextId \in Ids /\ nextId' \in 1..(MaxId + 1) /\ nextId' = nextId + 1
    /\ msgOf' \in [Ids -> Msgs \cup {NoMsg}]
    /\ \A i \in Ids : (msgOf'[i] = NoMsg) <=> (i >= nextId')
    /\ retries' \in [Ids -> Nat]
    /\ present' \in SUBSET Ids /\ lost' \in SUBSET Ids /\ lost \subseteq lost'
    /\ \A i \in present' \cup lost' : i < nextId'
    /\ \A i \in present \ gone : i > cursor \/ owner[i] # NoOne => i \in present' \cup lost'
    /\ cursor < nextId' /\ \A d \in dlq : d.id < nextId'
    /\ msgOf'[nextId] = m /\ retries'[nextId] = r
    /\ \A i \in Ids : i # nextId => msgOf'[i] = msgOf[i] /\ retries'[i] = retries[i]
    /\ \A e \in Ids : e = nextId => Anchored(e)'
    /\ \A i \in Ids \ gone :
          i < nextId /\ Anchored(i) => Anchored(i)' \/ (msgOf[i] = m /\ retries[i] < r)

LEMMA XAddEffect ==
  ASSUME IInv, NEW m \in Msgs, NEW r \in Nat, NEW k \in Nat, NEW gone \in SUBSET Ids,
         XAdd(m, r, k, gone), nextId \notin gone,
         UNCHANGED <<cursor, dlq, delayed>>,
         \A i \in Ids \ gone : owner'[i] = owner[i]
  PROVE  Added(m, r, gone)
  <1>1. /\ nextId \in Ids /\ nextId' \in 1..(MaxId + 1) /\ nextId' = nextId + 1
        /\ nextId > cursor /\ Ids \subseteq Int /\ cursor \in Int
    BY QueueAssumption DEF IInv, TypeOK, Ids, XAdd
  <1>2. /\ msgOf' \in [Ids -> Msgs \cup {NoMsg}] /\ msgOf'[nextId] = m
        /\ retries' \in [Ids -> Nat] /\ retries'[nextId] = r
        /\ \A i \in Ids : i # nextId => msgOf'[i] = msgOf[i] /\ retries'[i] = retries[i]
    BY <1>1 DEF IInv, TypeOK, XAdd
  <1>3. \A i \in Ids : (msgOf'[i] = NoMsg) <=> (i >= nextId')
    BY <1>1, <1>2, QueueAssumption DEF IInv, TypeOK
  <1>4. /\ present \subseteq Ids /\ lost \subseteq Ids
        /\ \A i \in present \cup lost : i < nextId
    BY DEF IInv, TypeOK
  <1>d. cursor < nextId' /\ \A d \in dlq : d.id < nextId'
    <2>1. \A d \in dlq : d.id \in Ids /\ d.id < nextId
      BY DEF IInv, TypeOK
    <2>2. \A i \in Int : i < nextId => i < nextId'
      BY <1>1 DEF Ids
    <2>3. cursor < nextId'
      BY <1>1, <2>2
    <2>4. \A d \in dlq : d.id \in Int /\ d.id < nextId
      BY <1>1, <2>1
    <2> QED BY <2>2, <2>3, <2>4
  <1>5. /\ present' \subseteq present \cup {nextId}
        /\ lost' \subseteq lost \cup present \cup {nextId} /\ lost \subseteq lost'
    BY DEF XAdd
  <1>6. /\ present' \in SUBSET Ids /\ lost' \in SUBSET Ids
        /\ \A i \in present' \cup lost' : i < nextId'
    BY <1>1, <1>4, <1>5
  <1>7. \A i \in (present \cup {nextId}) \ gone :
           i > cursor \/ owner[i] # NoOne => i \in present' \cup lost'
    BY <1>1, <1>4 DEF XAdd
  <1>8. \A e \in Ids : e = nextId => Anchored(e)'
    BY <1>1, <1>7 DEF Anchored, Live
  <1>9. \A i \in Ids \ gone :
           i < nextId /\ Anchored(i) => Anchored(i)' \/ (msgOf[i] = m /\ retries[i] < r)
    <2> SUFFICES ASSUME NEW i \in Ids \ gone, i < nextId, Anchored(i), ~Anchored(i)'
                 PROVE  msgOf[i] = m /\ retries[i] < r
      OBVIOUS
    <2>1. i \in delayed /\ ~Readded(i) /\ Readded(i)'
      BY <1>1, <1>5, <1>7 DEF Anchored, Live, Buried
    <2>2. i # nextId /\ msgOf'[i] = msgOf[i] /\ retries'[i] = retries[i] /\ retries[i] \in Nat
      BY <1>1, <1>2 DEF Ids, IInv, TypeOK
    <2>3. PICK j \in Ids : msgOf'[j] = msgOf[i] /\ retries'[j] = retries[i] + 1
      BY <2>1, <2>2 DEF Readded
    <2>4. j = nextId
      BY <1>2, <2>1, <2>3 DEF Readded
    <2> QED BY <1>2, <2>2, <2>3, <2>4
  <1> QED BY <1>1, <1>2, <1>3, <1>d, <1>5, <1>6, <1>7, <1>8, <1>9 DEF Added

(* A new entry stands in for the entries of its message that go.           *)
LEMMA AddedInv ==
  ASSUME IInv, NEW m, NEW r \in Nat, NEW gone \in SUBSET Ids, Added(m, r, gone),
         \A g \in gone : msgOf[g] = m /\ retries[g] < r,
         UNCHANGED <<handled, dropped>>
  PROVE  AllAnchored'
  <1>1. nextId \in Ids /\ nextId \in Int /\ nextId' = nextId + 1 /\ Ids \subseteq Int
    BY DEF Added, Ids
  <1>2. /\ msgOf'[nextId] = m /\ retries'[nextId] = r
        /\ \A i \in Ids : i # nextId => msgOf'[i] = msgOf[i] /\ retries'[i] = retries[i]
        /\ \A e \in Ids : e = nextId => Anchored(e)'
        /\ retries \in [Ids -> Nat]
    BY DEF Added, IInv, TypeOK
  <1>3. \A j \in Ids : msgOf[j] # NoMsg => j < nextId /\ j # nextId
    BY <1>1 DEF IInv, TypeOK
  <1> SUFFICES ASSUME NEW i \in Ids, i < nextId'
               PROVE  \/ msgOf'[i] \in handled' \cup dropped'
                      \/ \E j \in Ids : msgOf'[j] = msgOf'[i] /\ retries'[j] >= retries'[i] /\ Anchored(j)'
    BY DEF AllAnchored
  <1>4. CASE i = nextId
    BY <1>1, <1>2, <1>4
  <1>5. CASE i # nextId
    <2>1. i < nextId /\ msgOf[i] # NoMsg /\ msgOf'[i] = msgOf[i] /\ retries'[i] = retries[i]
      BY <1>1, <1>2, <1>5 DEF IInv, TypeOK
    <2>2. CASE msgOf[i] \in handled \cup dropped
      BY <2>1, <2>2
    <2>3. CASE \E j \in Ids : msgOf[j] = msgOf[i] /\ retries[j] >= retries[i] /\ Anchored(j)
      <3>1. PICK j \in Ids : msgOf[j] = msgOf[i] /\ retries[j] >= retries[i] /\ Anchored(j)
        BY <2>3
      <3>2. j < nextId /\ msgOf'[j] = msgOf[j] /\ retries'[j] = retries[j]
        BY <1>2, <1>3, <2>1, <3>1
      <3>3. CASE Anchored(j)'
        BY <2>1, <3>1, <3>2, <3>3
      <3>4. CASE ~Anchored(j)'
        <4>1. msgOf[j] = m /\ retries[j] < r
          BY <3>1, <3>2, <3>4 DEF Added
        <4>2. retries'[nextId] >= retries'[i] /\ msgOf'[nextId] = msgOf'[i]
          BY <1>2, <2>1, <3>1, <4>1
        <4> QED BY <1>1, <1>2, <4>2
      <3> QED BY <3>3, <3>4
    <2> QED BY <2>1, <2>2, <2>3 DEF IInv, AllAnchored
  <1> QED BY <1>4, <1>5

LEMMA PublishInv == ASSUME NEW m \in Msgs, IInv, Publish(m) PROVE IInv'
  <1>1. PICK k \in 0..nextId : XAdd(m, 0, k, {})
    BY DEF Publish
  <1>2. UNCHANGED <<cursor, owner, dlq, dlqNext, phase, batch, running, broken, delayed, maturing,
                    remDue, handled, dropped, crashes, faults, slow>>
    BY DEF Publish, group, dead, loop, async, fates, budgets
  <1>3. k \in Nat
    BY DEF IInv, TypeOK
  <1>4. Added(m, 0, {})
    BY XAddEffect, <1>1, <1>2, <1>3
  <1>5. TypeOK'
    BY <1>2, <1>4 DEF IInv, TypeOK, Added
  <1>6. AllAnchored'
    BY <1>2, <1>4, AddedInv
  <1>7. \A j \in Ids : owner'[j] # NoOne => owner[j] # NoOne /\ j \in present' \cup lost'
    BY <1>2, <1>4 DEF IInv, PendingBacked, Added
  <1> QED BY <1>2, <1>4, <1>5, <1>6, <1>7, EntryStep DEF Held, Added

LEMMA MatureReadInv == ASSUME NEW c \in Consumers, IInv, MatureRead(c) PROVE IInv'
  <1>1. UNCHANGED <<log, group, dead, loop, delayed, remDue, fates, budgets>>
    BY DEF MatureRead
  <1>2. PICK S \in SUBSET delayed : maturing' = [maturing EXCEPT ![c] = S]
    BY DEF MatureRead
  <1> USE <1>1, <1>2 DEF log, group, dead, loop, fates, budgets
  <1>3. TypeOK'
    BY DEF IInv, TypeOK
  <1>4. AllAnchored'
    BY AnchorsKept DEF Anchored, Live, Buried, Readded
  <1>5. \A d \in Consumers : maturing'[d] \subseteq maturing[d] \cup delayed
    BY DEF IInv, TypeOK
  <1> QED BY <1>3, <1>4, <1>5, EntryStep DEF Held, IInv, PendingBacked

LEMMA MatureAddInv ==
  ASSUME NEW c \in Consumers, NEW i \in Ids, IInv, MatureAdd(c, i) PROVE IInv'
  <1>1. UNCHANGED <<cursor, owner, dlq, dlqNext, phase, batch, running, broken, delayed,
                    handled, dropped, crashes, faults, slow>>
    BY DEF MatureAdd, group, dead, loop, fates, budgets
  <1>2. i < nextId /\ msgOf[i] \in Msgs /\ retries[i] + 1 \in Nat
    BY DEF MatureAdd, IInv, TypeOK, DelayedAcked, Ids
  <1>3. Added(msgOf[i], retries[i] + 1, {})
    BY XAddEffect, <1>1, <1>2 DEF MatureAdd
  <1>4. /\ maturing' = [maturing EXCEPT ![c] = @ \ {i}]
        /\ remDue' = [remDue EXCEPT ![c] = i]
        /\ i \in maturing[c]
    BY DEF MatureAdd
  <1>5. TypeOK'
    <2>1. maturing' \in [Consumers -> SUBSET Ids] /\ remDue' \in [Consumers -> Ids \cup {NoId}]
      BY <1>4 DEF IInv, TypeOK
    <2> QED BY <2>1, <1>1, <1>3 DEF IInv, TypeOK, Added
  <1>6. AllAnchored'
    BY <1>1, <1>2, <1>3, AddedInv
  <1>7. \A j \in Ids : owner'[j] # NoOne => owner[j] # NoOne /\ j \in present' \cup lost'
    BY <1>1, <1>3 DEF IInv, PendingBacked, Added
  <1>8. \A d \in Consumers : /\ maturing'[d] \subseteq maturing[d]
                             /\ remDue'[d] \in {remDue[d]} \cup maturing[d]
    BY <1>4 DEF IInv, TypeOK
  <1> QED BY <1>1, <1>3, <1>5, <1>6, <1>7, <1>8, EntryStep DEF Held, Added

(* The pipeline goes wrong: XADD is refused, or the connection breaks.     *)
LEMMA MatureFaultInv ==
  ASSUME NEW c \in Consumers, IInv,
         MatureAborted(c) \/ \E i \in Ids : MatureAddRefused(c, i)
  PROVE  IInv'
  <1> USE DEF MatureAborted, MatureAddRefused, Fault, log, group, dead, loop, fates
  <1>1. TypeOK'
    BY DEF IInv, TypeOK
  <1>2. AllAnchored'
    BY AnchorsKept DEF Anchored, Live, Buried, Readded
  <1>3. \A d \in Consumers : /\ maturing'[d] \subseteq maturing[d]
                             /\ remDue'[d] \in {remDue[d], NoId} \cup maturing[d]
    BY DEF IInv, TypeOK
  <1> QED BY <1>1, <1>2, <1>3, EntryStep DEF Held, IInv, PendingBacked

LEMMA MatureRemoveInv == ASSUME NEW c \in Consumers, IInv, MatureRemove(c) PROVE IInv'
  <1> USE DEF MatureRemove, group, dead, loop, fates, budgets
  <1>1. TypeOK'
    <2>1. \A i \in delayed : i < nextId
      BY DEF IInv, TypeOK, DelayedAcked, Ids
    <2> QED BY <2>1 DEF IInv, TypeOK
  <1>2. \A j \in Ids : Anchored(j) => Anchored(j)'
    BY DEF Anchored, Live, Buried, Readded
  <1>3. AllAnchored'
    BY <1>2, AnchorsKept
  <1>4. \A d \in Consumers : remDue'[d] \in {remDue[d], NoId}
    BY DEF IInv, TypeOK
  <1> QED BY <1>1, <1>3, <1>4, EntryStep DEF Held, IInv, PendingBacked

-----------------------------------------------------------------------------
(* A finished entry was delivered, so it is an entry of a message, and it  *)
(* leaves its worker's hands.                                              *)
LEMMA HeldEntry ==
  ASSUME NEW c \in Consumers, IInv, NEW i \in Held(c) \cup broken[c]
  PROVE  i \in Ids /\ i < nextId /\ i <= cursor /\ msgOf[i] \in Msgs /\ retries[i] + 1 \in Nat
  BY DEF IInv, TypeOK, HeldDelivered, Held, Ids

LEMMA DoneShrinks ==
  ASSUME NEW c \in Consumers, NEW i, IInv, Done(c, i)
  PROVE  /\ running' \in [Consumers -> SUBSET Ids]
         /\ i \in Held(c)
         /\ UNCHANGED <<phase, batch, broken>>
         /\ \A d \in Consumers : Held(d)' \subseteq Held(d)
  BY DEF Done, Held, IInv, TypeOK

(* XACK of i and the loss of nothing but i keep the other entries anchored.*)
Acked(i) ==
    /\ owner' = [owner EXCEPT ![i] = NoOne]
    /\ present' \subseteq present /\ present \ {i} \subseteq present'
    /\ lost \subseteq lost' /\ lost' \subseteq Ids
    /\ \A j \in lost' : j < nextId
    /\ UNCHANGED <<nextId, msgOf, retries, cursor, maturing, remDue, crashes, slow>>

LEMMA AckedStep ==
  ASSUME IInv, NEW i \in Ids, i <= cursor, Acked(i),
         phase' \in [Consumers -> Phases],
         batch' \in [Consumers -> SUBSET Ids],
         running' \in [Consumers -> SUBSET Ids],
         broken' \in [Consumers -> SUBSET Ids],
         faults' \in Nat,
         dlq' \in SUBSET [n : Nat, id : Ids, full : BOOLEAN], dlqNext' \in Nat,
         \A d \in dlq' : d.id < nextId,
         delayed' \in SUBSET Ids, delayed' \subseteq delayed \cup {i},
         handled' \in SUBSET Msgs, dropped' \in SUBSET Msgs,
         \A d \in Consumers : Held(d)' \subseteq Held(d) /\ broken'[d] \subseteq broken[d],
         AllAnchored'
  PROVE  IInv'
  <1>1. owner' \in [Ids -> Consumers \cup {NoOne}] /\ owner'[i] = NoOne
    BY DEF IInv, TypeOK, Acked
  <1>2. TypeOK'
    BY <1>1 DEF IInv, TypeOK, Acked
  <1>3. \A j \in Ids : owner'[j] # NoOne => j # i /\ owner[j] # NoOne
    BY <1>1 DEF Acked, IInv, TypeOK
  <1>4. \A j \in Ids : owner'[j] # NoOne => owner[j] # NoOne /\ j \in present' \cup lost'
    BY <1>3 DEF Acked, IInv, PendingBacked
  <1>5. cursor' = cursor /\ maturing' = maturing /\ remDue' = remDue /\ lost \subseteq lost'
    BY DEF Acked
  <1> QED BY <1>1, <1>2, <1>4, <1>5, EntryStep

(* Entries other than i stay anchored when i is acknowledged.              *)
LEMMA AckedAnchors ==
  ASSUME IInv, NEW i \in Ids, Acked(i), delayed \subseteq delayed',
         \A j \in Ids : Buried(j) => Buried(j)' \/ j \in lost'
  PROVE  \A j \in Ids : j # i /\ Anchored(j) => Anchored(j)'
  <1>1. \A j \in Ids : j # i => owner'[j] = owner[j]
    BY DEF Acked, IInv, TypeOK
  <1> QED BY <1>1 DEF Acked, Anchored, Live, Readded

LEMMA SucceedInv ==
  ASSUME NEW c \in Consumers, NEW i \in Ids, IInv, Succeed(c, i) PROVE IInv'
  <1>1. i \in Held(c) /\ i <= cursor /\ msgOf[i] \in Msgs /\ i < nextId
    BY HeldEntry, DoneShrinks DEF Succeed
  <1>2. UNCHANGED <<cursor, dlq, dlqNext, delayed, maturing, remDue, dropped, crashes, faults, slow>>
    BY DEF Succeed, dead, async, budgets
  <1>3. Acked(i)
    BY <1>2 DEF Succeed, XAck, XDel, AckDeletes, Acked, IInv, TypeOK
  <1>4. handled' = handled \cup {msgOf[i]}
    BY DEF Succeed
  <1>5. AllAnchored'
    <2>1. \A j \in Ids : j # i /\ Anchored(j) => Anchored(j)'
      BY AckedAnchors, <1>2, <1>3 DEF Buried
    <2> QED BY <2>1, <1>2, <1>3, <1>4, AnchorsKept DEF Acked
  <1> QED BY <1>1, <1>2, <1>3, <1>4, <1>5, AckedStep, DoneShrinks DEF Succeed, IInv, TypeOK

LEMMA SucceedAckLostInv ==
  ASSUME NEW c \in Consumers, NEW i \in Ids, IInv, SucceedAckLost(c, i) PROVE IInv'
  <1>1. i \in Held(c) /\ msgOf[i] \in Msgs
    BY HeldEntry, DoneShrinks DEF SucceedAckLost
  <1>2. /\ handled' = handled \cup {msgOf[i]} /\ faults' = faults + 1
        /\ UNCHANGED <<log, group, dead, async, dropped, crashes, slow>>
    BY DEF SucceedAckLost, Fault
  <1>3. TypeOK'
    BY <1>1, <1>2, DoneShrinks DEF SucceedAckLost, IInv, TypeOK, log, group, dead, async
  <1>4. AllAnchored'
    BY <1>2, AnchorsKept DEF Anchored, Live, Buried, Readded, log, group, dead, async
  <1> QED
    BY <1>2, <1>3, <1>4, EntryStep, DoneShrinks
       DEF SucceedAckLost, log, group, async, IInv, PendingBacked

LEMMA FailRetryLostInv ==
  ASSUME NEW c \in Consumers, NEW i \in Ids, IInv, FailRetryLost(c, i) PROVE IInv'
  <1>1. /\ faults' = faults + 1
        /\ UNCHANGED <<log, group, dead, async, fates, crashes, slow>>
    BY DEF FailRetryLost, Fault
  <1> QED
    BY <1>1, LoopStep, DoneShrinks DEF FailRetryLost, IInv, TypeOK, HeldDelivered, BrokenLost

LEMMA RouteBrokenLostInv ==
  ASSUME NEW c \in Consumers, NEW i \in Ids, IInv, RouteBrokenLost(c, i) PROVE IInv'
  <1>1. /\ faults' = faults + 1
        /\ UNCHANGED <<log, group, dead, async, fates, crashes, slow, phase, batch, running>>
    BY DEF RouteBrokenLost, Fault
  <1>2. /\ broken' \in [Consumers -> SUBSET Ids]
        /\ \A d \in Consumers : broken'[d] \subseteq broken[d]
    BY DEF RouteBrokenLost, IInv, TypeOK
  <1> QED
    BY <1>1, <1>2, LoopStep DEF IInv, TypeOK, HeldDelivered, BrokenLost, Held

(* routeDLQ: the entry is acknowledged, and its message is in the dead     *)
(* letters, recorded as lost or dropped.                                   *)
LEMMA RouteDLQEffect ==
  ASSUME IInv, NEW i \in Ids, NEW full \in BOOLEAN, i < nextId, msgOf[i] \in Msgs,
         RouteDLQ(i, full),
         UNCHANGED <<cursor, delayed, maturing, remDue, crashes, slow>>
  PROVE  /\ Acked(i)
         /\ dlq' \in SUBSET [n : Nat, id : Ids, full : BOOLEAN] /\ dlqNext' \in Nat
         /\ \A d \in dlq' : d.id < nextId
         /\ dropped' \in SUBSET Msgs /\ dropped \subseteq dropped'
         /\ \A j \in Ids : Buried(j) => Buried(j)' \/ j \in lost'
         /\ full => Buried(i)' \/ i \in lost' \/ msgOf[i] \in dropped'
  <1>1. CASE HasDLQ
    <2>1. PICK k \in 0..dlqNext : XAddDLQ(i, full, k, {i})
      BY <1>1 DEF RouteDLQ
    <2> DEFINE new == [n |-> dlqNext, id |-> i, full |-> full]
    <2>2. /\ dlq' = {d \in dlq \cup {new} : d.n > k}
          /\ dlqNext' = dlqNext + 1
          /\ lost' = lost \cup {d.id : d \in {e \in dlq \cup {new} : e.n <= k /\ e.full}}
          /\ present' = present \ {i}
          /\ UNCHANGED <<nextId, msgOf, retries>>
      BY <2>1 DEF XAddDLQ
    <2>3. dlq \cup {new} \subseteq [n : Nat, id : Ids, full : BOOLEAN] /\ k \in Nat
      BY DEF IInv, TypeOK
    <2>4. dlq' \in SUBSET [n : Nat, id : Ids, full : BOOLEAN] /\ dlqNext' \in Nat
      BY <2>2, <2>3 DEF IInv, TypeOK
    <2>5. \A d \in dlq \cup {new} : d.full => d \in dlq' \/ d.id \in lost'
      BY <2>2, <2>3
    <2>6. new \in dlq \cup {new} /\ new.id = i /\ new.full = full
      OBVIOUS
    <2>7. lost' \subseteq Ids /\ lost \subseteq lost'
      BY <2>2, <2>3 DEF IInv, TypeOK
    <2>8. \A d \in dlq : d.id < nextId
      BY DEF IInv, TypeOK
    <2>9. \A j \in lost' : j < nextId
      BY <2>2, <2>8, <2>6 DEF IInv, TypeOK
    <2>d. \A d \in dlq' : d.id < nextId
      BY <2>2, <2>6, <2>8
    <2> HIDE DEF new
    <2>10. \A j \in Ids : Buried(j) => Buried(j)' \/ j \in lost'
      BY <2>5 DEF Buried
    <2>11. full => Buried(i)' \/ i \in lost'
      BY <2>5, <2>6 DEF Buried
    <2>12. Acked(i) /\ dropped' = dropped
      BY <1>1, <2>2, <2>7, <2>9 DEF Acked, RouteDLQ, XAck
    <2> QED BY <2>d, <2>4, <2>10, <2>11, <2>12 DEF IInv, TypeOK
  <1>2. CASE ~HasDLQ
    <2>1. /\ dropped' = IF full THEN dropped \cup {msgOf[i]} ELSE dropped
          /\ UNCHANGED <<dlq, dlqNext>>
      BY <1>2 DEF RouteDLQ, dead
    <2>2. Acked(i)
      BY <1>2 DEF RouteDLQ, XAck, XDel, AckDeletes, Acked, IInv, TypeOK
    <2> QED BY <2>1, <2>2 DEF IInv, TypeOK, Buried
  <1> QED BY <1>1, <1>2

LEMMA RouteBrokenInv ==
  ASSUME NEW c \in Consumers, NEW i \in Ids, IInv, RouteBroken(c, i) PROVE IInv'
  <1>1. i \in broken[c] /\ i < nextId /\ i <= cursor /\ msgOf[i] \in Msgs /\ i \in lost
    BY HeldEntry DEF RouteBroken, IInv, BrokenLost
  <1>2. /\ UNCHANGED <<cursor, phase, batch, running, delayed, maturing, remDue, handled,
                       crashes, faults, slow>>
        /\ RouteDLQ(i, FALSE)
    BY DEF RouteBroken, async, budgets
  <1>3. /\ Acked(i)
        /\ dlq' \in SUBSET [n : Nat, id : Ids, full : BOOLEAN] /\ dlqNext' \in Nat
        /\ \A d \in dlq' : d.id < nextId
        /\ dropped' \in SUBSET Msgs /\ dropped \subseteq dropped'
        /\ \A j \in Ids : Buried(j) => Buried(j)' \/ j \in lost'
    BY <1>1, <1>2, RouteDLQEffect
  <1>4. /\ broken' \in [Consumers -> SUBSET Ids]
        /\ \A d \in Consumers : broken'[d] \subseteq broken[d]
    BY DEF RouteBroken, IInv, TypeOK
  <1>5. AllAnchored'
    <2>1. \A j \in Ids : Anchored(j) => Anchored(j)'
      BY AckedAnchors, <1>1, <1>2, <1>3 DEF Acked, Anchored
    <2> QED BY <2>1, <1>2, <1>3, AnchorsKept DEF Acked
  <1> QED BY <1>1, <1>2, <1>3, <1>4, <1>5, AckedStep DEF IInv, TypeOK, Held

(* Retry by requeue.                                                       *)
LEMMA RequeueInv ==
  ASSUME NEW c \in Consumers, NEW i \in Ids, IInv, Done(c, i), Requeue(i),
         UNCHANGED <<cursor, maturing, remDue, handled, budgets>>
  PROVE  IInv'
  <1>1. i \in Held(c) /\ i < nextId /\ i <= cursor /\ msgOf[i] \in Msgs /\ retries[i] + 1 \in Nat
    BY HeldEntry, DoneShrinks
  <1>2. PICK k \in 0..nextId : XAdd(msgOf[i], retries[i] + 1, k, {i})
    BY DEF Requeue
  <1>3. UNCHANGED <<dlq, dlqNext, dropped, delayed, crashes, faults, slow>>
    BY DEF Requeue, dead, budgets
  <1>4. /\ owner' \in [Ids -> Consumers \cup {NoOne}] /\ owner'[i] = NoOne
        /\ \A j \in Ids \ {i} : owner'[j] = owner[j]
    BY DEF Requeue, XAck, IInv, TypeOK
  <1>5. k \in Nat /\ nextId \notin {i}
    BY <1>1 DEF IInv, TypeOK, Ids
  <1>6. Added(msgOf[i], retries[i] + 1, {i})
    BY <1>1, <1>2, <1>3, <1>4, <1>5, XAddEffect
  <1>7. TypeOK'
    BY <1>3, <1>4, <1>6, DoneShrinks DEF IInv, TypeOK, Added
  <1>8. AllAnchored'
    <2>1. \A g \in {i} : msgOf[g] = msgOf[i] /\ retries[g] < retries[i] + 1
      BY DEF IInv, TypeOK
    <2> QED BY <1>1, <1>3, <1>6, <2>1, AddedInv
  <1>9. \A j \in Ids : owner'[j] # NoOne => owner[j] # NoOne /\ j \in present' \cup lost'
    BY <1>4, <1>6 DEF IInv, PendingBacked, Added
  <1> QED BY <1>3, <1>6, <1>7, <1>8, <1>9, EntryStep, DoneShrinks DEF Added

(* Retry through the ZSET.                                                 *)
LEMMA ScheduleInv ==
  ASSUME NEW c \in Consumers, NEW i \in Ids, IInv, Done(c, i), ScheduleAsyncRetry(i),
         UNCHANGED <<cursor, maturing, remDue, handled, budgets>>
  PROVE  IInv'
  <1>1. i \in Held(c) /\ i <= cursor
    BY HeldEntry, DoneShrinks
  <1>2. /\ UNCHANGED <<dlq, dlqNext, dropped, crashes, faults, slow>>
        /\ delayed' = delayed \cup {i}
    BY DEF ScheduleAsyncRetry, dead, budgets
  <1>3. Acked(i)
    BY <1>2 DEF ScheduleAsyncRetry, XAck, XDel, Acked, IInv, TypeOK
  <1>4. AllAnchored'
    <2>1. \A j \in Ids : j # i /\ Anchored(j) => Anchored(j)'
      BY AckedAnchors, <1>2, <1>3 DEF Buried
    <2>2. UNCHANGED <<nextId, msgOf, retries, handled, dropped>>
      BY <1>2, <1>3 DEF Acked
    <2>3. CASE ~Readded(i)
      <3>1. Anchored(i)'
        BY <1>2, <2>2, <2>3 DEF Anchored, Readded
      <3> QED BY <2>1, <2>2, <3>1, AnchorsKept
    <2>4. CASE Readded(i)
      <3>1. PICK k \in Ids : msgOf[k] = msgOf[i] /\ retries[k] = retries[i] + 1
        BY <2>4 DEF Readded
      <3>2. k < nextId /\ retries \in [Ids -> Nat]
        BY <1>1, <3>1, HeldEntry DEF IInv, TypeOK, Ids
      <3>3. \/ msgOf[i] \in handled \cup dropped
            \/ \E j \in Ids \ {i} : msgOf[j] = msgOf[i] /\ retries[j] >= retries[i] /\ Anchored(j)
        BY <3>1, <3>2 DEF IInv, AllAnchored
      <3> SUFFICES ASSUME NEW e \in Ids, e < nextId
                   PROVE  \/ msgOf[e] \in handled \cup dropped
                          \/ \E j \in Ids : msgOf[j] = msgOf[e] /\ retries[j] >= retries[e] /\ Anchored(j)'
        BY <2>2 DEF AllAnchored
      <3>4. CASE msgOf[e] \in handled \cup dropped
        BY <3>4
      <3>5. CASE \E j \in Ids : msgOf[j] = msgOf[e] /\ retries[j] >= retries[e] /\ Anchored(j)
        <4>1. PICK j \in Ids : msgOf[j] = msgOf[e] /\ retries[j] >= retries[e] /\ Anchored(j)
          BY <3>5
        <4>2. CASE j # i
          BY <2>1, <4>1, <4>2
        <4>3. CASE j = i /\ msgOf[i] \in handled \cup dropped
          BY <4>1, <4>3
        <4>4. CASE j = i /\ msgOf[i] \notin handled \cup dropped
          <5>1. PICK n \in Ids \ {i} :
                  msgOf[n] = msgOf[i] /\ retries[n] >= retries[i] /\ Anchored(n)
            BY <3>3, <4>4
          <5>2. msgOf[n] = msgOf[e] /\ retries[n] >= retries[e] /\ Anchored(n)'
            BY <2>1, <3>2, <4>1, <4>4, <5>1
          <5> QED BY <5>2
        <4> QED BY <4>2, <4>3, <4>4
      <3> QED BY <3>4, <3>5 DEF IInv, AllAnchored
    <2> QED BY <2>3, <2>4
  <1> QED BY <1>1, <1>2, <1>3, <1>4, AckedStep, DoneShrinks DEF IInv, TypeOK

LEMMA FailInv ==
  ASSUME NEW c \in Consumers, NEW i \in Ids, IInv, Fail(c, i) PROVE IInv'
  <1>1. /\ Done(c, i) /\ Retry(i)
        /\ UNCHANGED <<cursor, maturing, remDue, handled, budgets>>
    BY DEF Fail
  <1>2. CASE Requeue(i)
    BY <1>1, <1>2, RequeueInv
  <1>3. CASE ScheduleAsyncRetry(i)
    BY <1>1, <1>3, ScheduleInv
  <1>4. CASE RouteDLQ(i, TRUE) /\ UNCHANGED delayed
    <2>1. i \in Held(c) /\ i < nextId /\ i <= cursor /\ msgOf[i] \in Msgs
      BY <1>1, HeldEntry, DoneShrinks
    <2>2. UNCHANGED <<crashes, faults, slow>>
      BY <1>1 DEF budgets
    <2>3. /\ Acked(i)
          /\ dlq' \in SUBSET [n : Nat, id : Ids, full : BOOLEAN] /\ dlqNext' \in Nat
          /\ \A d \in dlq' : d.id < nextId
          /\ dropped' \in SUBSET Msgs /\ dropped \subseteq dropped'
          /\ \A j \in Ids : Buried(j) => Buried(j)' \/ j \in lost'
          /\ Buried(i)' \/ i \in lost' \/ msgOf[i] \in dropped'
      BY <1>1, <1>4, <2>1, <2>2, RouteDLQEffect
    <2>4. AllAnchored'
      <3>1. \A j \in Ids : j # i /\ Anchored(j) => Anchored(j)'
        BY AckedAnchors, <1>4, <2>3
      <3>2. Anchored(i)' \/ msgOf[i] \in dropped'
        BY <2>3 DEF Anchored
      <3> QED BY <3>1, <3>2, <1>1, <2>3, AnchorsKept DEF Acked
    <2> QED BY <1>1, <1>4, <2>1, <2>2, <2>3, <2>4, AckedStep, DoneShrinks DEF IInv, TypeOK
  <1> QED BY <1>1, <1>2, <1>3, <1>4 DEF Retry

LEMMA RecoverStaleInv ==
  ASSUME NEW c \in Consumers, NEW i \in Ids, IInv, RecoverStale(c, i) PROVE IInv'
  <1>1. UNCHANGED <<log, cursor, dead, loop, async, fates, crashes, faults>>
    BY DEF RecoverStale
  <1>2. /\ owner[i] # NoOne
        /\ owner' = [owner EXCEPT ![i] = IF i \in present THEN c ELSE NoOne]
        /\ slow' \in Nat
    BY DEF RecoverStale, IInv, TypeOK
  <1> USE <1>1, <1>2 DEF log, dead, loop, async, fates
  <1>3. TypeOK'
    BY DEF IInv, TypeOK
  <1>4. \A j \in Ids : owner'[j] # NoOne => owner[j] # NoOne /\ j \in present' \cup lost'
    BY DEF IInv, TypeOK, PendingBacked
  <1>5. \A j \in Ids : Anchored(j) => Anchored(j)'
    BY QueueAssumption DEF IInv, TypeOK, Anchored, Live, Buried, Readded
  <1>6. AllAnchored'
    BY <1>5, AnchorsKept
  <1> QED BY <1>3, <1>4, <1>6, EntryStep DEF Held

-----------------------------------------------------------------------------
(* Every step of the queue preserves the inductive invariant.              *)
LEMMA NextIInv == IInv /\ [Next]_vars => IInv'
  <1> SUFFICES ASSUME IInv, [Next]_vars PROVE IInv'
    OBVIOUS
  <1>1. ASSUME NEW m \in Msgs, Publish(m) PROVE IInv'
    BY <1>1, PublishInv
  <1>2. ASSUME NEW c \in Consumers, Start(c) \/ Restart(c) PROVE IInv'
    BY <1>2, StartFromInv DEF Start, Restart
  <1>3. ASSUME NEW c \in Consumers, Loop(c) PROVE IInv'
    BY <1>3, PopInv, PopEmptyInv, DispatchInv, BatchDoneInv, PopPendingInv, PopPendingEmptyInv
       DEF Loop
  <1>4. ASSUME NEW c \in Consumers, Finish(c) PROVE IInv'
    BY <1>4, SucceedInv, FailInv, RouteBrokenInv DEF Finish
  <1>5. ASSUME NEW c \in Consumers, Failure(c) PROVE IInv'
    BY <1>5, PopReplyLostInv, SucceedAckLostInv, FailRetryLostInv, RouteBrokenLostInv, CrashInv,
       MatureFaultInv DEF Failure
  <1>6. ASSUME NEW c \in Consumers, Claim(c) PROVE IInv'
    BY <1>6, RecoverStaleInv DEF Claim
  <1>7. ASSUME NEW c \in Consumers, Mature(c) PROVE IInv'
    BY <1>7, MatureReadInv, MatureAddInv, MatureRemoveInv DEF Mature
  <1>8. CASE UNCHANGED vars
    <2>1. UNCHANGED <<log, group, dead, async, fates, loop, budgets>>
      BY <1>8 DEF vars
    <2> QED
      BY <2>1, LoopStep DEF IInv, TypeOK, HeldDelivered, BrokenLost, Held, loop, budgets, group, log
  <1> QED BY <1>1, <1>2, <1>3, <1>4, <1>5, <1>6, <1>7, <1>8 DEF Next

LEMMA SpecIInv == Spec => []IInv
  BY InitIInv, NextIInv, PTL DEF Spec

(* Type correctness of the queue model.                                    *)
THEOREM QueueTypeOK == Spec => []TypeOK
  <1>1. IInv => TypeOK
    BY DEF IInv
  <1> QED BY <1>1, SpecIInv, PTL

(* At-least-once delivery for any number of messages and workers and any   *)
(* setting of the queue: Retry, Ack, PopPending, RecoverStale and the      *)
(* delayed retries never lose a message but by MAXLEN, the creation of the *)
(* group, or an XADD refused within the pipeline of the delayed retries.   *)
THEOREM QueueNoTaskLost == Spec => []NoTaskLost
  <1>1. IInv => NoTaskLost
    <2> SUFFICES ASSUME IInv, NEW m \in Msgs, Fate(m) = "lost"
                 PROVE  \E i \in lost : msgOf[i] = m
      BY DEF NoTaskLost
    <2>1. m \in Published /\ m \notin handled /\ ~Dead(m) /\ ~Waiting(m)
      BY DEF Fate
    <2>2. m \notin dropped
      BY <2>1 DEF Dead
    <2>3. PICK i \in Ids : msgOf[i] = m /\ Anchored(i)
      <3>1. PICK e \in Ids : msgOf[e] = m
        BY <2>1 DEF Published
      <3>2. e < nextId
        BY <3>1, QueueAssumption DEF IInv, TypeOK, Ids
      <3> QED BY <2>1, <2>2, <3>1, <3>2 DEF IInv, AllAnchored
    <2>4. ~Buried(i) /\ ~Live(i) /\ i \notin delayed
      BY <2>1, <2>3 DEF Dead, Waiting
    <2> QED BY <2>3, <2>4 DEF Anchored
  <1> QED BY <1>1, SpecIInv, PTL

-----------------------------------------------------------------------------
(* The workers' hands.                                                     *)

(* What a worker holds or could not decode is in its own PEL, unless       *)
(* XAUTOCLAIM is on.                                                       *)
OwnHold ==
    ~Recover => \A c \in Consumers : \A i \in Held(c) \cup broken[c] : owner[i] = c

(* A worker holds an entry once.                                           *)
HeldOnce ==
    \A c \in Consumers : batch[c] \cap running[c] = {} /\ Held(c) \cap broken[c] = {}

(* Between two batches a worker holds nothing: wg.Wait, or the process is  *)
(* gone.                                                                   *)
IdleEmpty ==
    \A c \in Consumers : phase[c] \notin {"new", "pel"} => Held(c) \cup broken[c] = {}

HoldInv == OwnHold /\ HeldOnce /\ IdleEmpty

LEMMA InitHold == Init => HoldInv
  BY DEF Init, HoldInv, OwnHold, HeldOnce, IdleEmpty, Held

(* A step that leaves the PELs of others alone and takes entries out of    *)
(* the workers' hands, those whose owner changes among them.               *)
LEMMA HoldShrinks ==
  ASSUME TypeOK, HoldInv, phase' = phase,
         \A c \in Consumers :
            /\ batch'[c] \subseteq batch[c]
            /\ running'[c] \subseteq running[c]
            /\ broken'[c] \subseteq broken[c],
         ~Recover => \A c \in Consumers : \A i \in (Held(c) \cup broken[c])' : owner'[i] = owner[i]
  PROVE  HoldInv'
  <1>1. OwnHold'
    BY DEF HoldInv, OwnHold, Held
  <1>2. HeldOnce'
    BY DEF HoldInv, HeldOnce, Held
  <1>3. IdleEmpty'
    BY DEF HoldInv, IdleEmpty, Held
  <1> QED BY <1>1, <1>2, <1>3 DEF HoldInv

(* A worker that finishes an entry of its own PEL takes it from nobody     *)
(* else, and holds it no more.                                             *)
LEMMA FinishHold ==
  ASSUME IInv, HoldInv, NEW c \in Consumers, NEW i \in Ids, Done(c, i),
         \A j \in Ids \ {i} : owner'[j] = owner[j]
  PROVE  HoldInv'
  <1>1. /\ i \in running[c] /\ running' = [running EXCEPT ![c] = @ \ {i}]
        /\ UNCHANGED <<phase, batch, broken>>
    BY DEF Done
  <1>2. \A d \in Consumers : running'[d] \subseteq running[d]
    BY <1>1 DEF IInv, TypeOK
  <1>3. i \in Held(c) /\ i \notin (Held(c) \cup broken[c])'
    BY <1>1 DEF HoldInv, HeldOnce, Held, IInv, TypeOK
  <1>4. ASSUME ~Recover, NEW d \in Consumers, NEW j \in (Held(d) \cup broken[d])'
        PROVE  owner'[j] = owner[j]
    <2>1. j \in Held(d) \cup broken[d] /\ j \in Ids
      BY <1>1, <1>2, <1>4 DEF Held, IInv, TypeOK
    <2>2. owner[j] = d /\ owner[i] = c
      BY <1>3, <1>4, <2>1 DEF HoldInv, OwnHold
    <2>3. j # i
      BY <1>3, <1>4, <2>2
    <2> QED BY <2>1, <2>3
  <1> QED BY <1>1, <1>2, <1>4, HoldShrinks DEF IInv

LEMMA RouteBrokenHold ==
  ASSUME IInv, HoldInv, NEW c \in Consumers, NEW i \in Ids, RouteBroken(c, i)
  PROVE  HoldInv'
  <1>1. /\ i \in broken[c] /\ broken' = [broken EXCEPT ![c] = @ \ {i}]
        /\ UNCHANGED <<phase, batch, running>>
        /\ owner' = [owner EXCEPT ![i] = NoOne]
    BY DEF RouteBroken, RouteDLQ, XAck
  <1>2. \A d \in Consumers : broken'[d] \subseteq broken[d]
    BY <1>1 DEF IInv, TypeOK
  <1>3. i \notin (Held(c) \cup broken[c])'
    BY <1>1 DEF HoldInv, HeldOnce, Held, IInv, TypeOK
  <1>4. ASSUME ~Recover, NEW d \in Consumers, NEW j \in (Held(d) \cup broken[d])'
        PROVE  owner'[j] = owner[j]
    <2>1. j \in Held(d) \cup broken[d] /\ j \in Ids
      BY <1>1, <1>2, <1>4 DEF Held, IInv, TypeOK
    <2>2. owner[j] = d /\ owner[i] = c
      BY <1>1, <1>4, <2>1 DEF HoldInv, OwnHold
    <2>3. j # i
      BY <1>3, <1>4, <2>2
    <2> QED BY <1>1, <2>1, <2>3 DEF IInv, TypeOK
  <1> QED BY <1>1, <1>2, <1>4, HoldShrinks DEF IInv

(* XREADGROUP ">" gives c entries that nobody holds, for they were not     *)
(* delivered before.                                                       *)
LEMMA DeliverHold ==
  ASSUME IInv, HoldInv, NEW c \in Consumers, Pop(c) \/ PopReplyLost(c)
  PROVE  HoldInv'
  <1>1. PICK k \in Ids :
          /\ Deliver(c, k)
          /\ UNCHANGED <<running, broken>>
          /\ \/ /\ batch' = [batch EXCEPT ![c] = {i \in Undelivered : i <= k}]
                /\ phase' = [phase EXCEPT ![c] = "new"]
             \/ /\ batch' = batch
                /\ phase' = [phase EXCEPT ![c] = "pending"]
    BY DEF Pop, PopReplyLost
  <1> DEFINE S == {i \in Undelivered : i <= k}
  <1>2. /\ owner' = [i \in Ids |-> IF i \in S THEN c ELSE owner[i]]
        /\ phase[c] = "pop" /\ S \subseteq Ids
    BY <1>1 DEF Deliver, Undelivered, IInv, TypeOK
  <1>3. Held(c) \cup broken[c] = {}
    BY <1>2 DEF HoldInv, IdleEmpty
  <1>4. \A d \in Consumers : \A i \in Held(d) \cup broken[d] : i \notin S /\ i \in Ids
    <2>1. \A d \in Consumers : \A i \in Held(d) \cup broken[d] : i <= cursor /\ i \in Ids
      BY DEF IInv, HeldDelivered, TypeOK, Held
    <2> QED BY <2>1 DEF Undelivered, IInv, TypeOK, Ids
  <1>5. /\ \A d \in Consumers \ {c} : batch'[d] = batch[d] /\ phase'[d] = phase[d]
        /\ batch'[c] \subseteq S
        /\ phase'[c] \notin {"new", "pel"} => batch'[c] = {}
    BY <1>1, <1>3 DEF Held, IInv, TypeOK
  <1> HIDE DEF S
  <1>6. running' = running /\ broken' = broken
    BY <1>1
  <1>7. OwnHold'
    BY <1>2, <1>3, <1>4, <1>5, <1>6 DEF HoldInv, OwnHold, Held
  <1>8. HeldOnce'
    BY <1>3, <1>5, <1>6 DEF HoldInv, HeldOnce, Held
  <1>9. IdleEmpty'
    BY <1>3, <1>5, <1>6 DEF HoldInv, IdleEmpty, Held
  <1> QED BY <1>7, <1>8, <1>9 DEF HoldInv

(* XREADGROUP "0" gives c entries of its own PEL, once its hands are empty.*)
LEMMA PopPendingHold ==
  ASSUME IInv, HoldInv, NEW c \in Consumers, PopPending(c)
  PROVE  HoldInv'
  <1>1. PICK S \in SUBSET Pending(c) :
          /\ batch' = [batch EXCEPT ![c] = S \cap present]
          /\ broken' = [broken EXCEPT ![c] = S \ present]
    BY DEF PopPending
  <1>2. /\ phase[c] = "pending" /\ phase' = [phase EXCEPT ![c] = "pel"]
        /\ UNCHANGED <<owner, running>>
    BY DEF PopPending, group
  <1>3. Held(c) \cup broken[c] = {}
    BY <1>2 DEF HoldInv, IdleEmpty
  <1>4. /\ \A d \in Consumers \ {c} : batch'[d] = batch[d] /\ broken'[d] = broken[d]
                                      /\ phase'[d] = phase[d]
        /\ batch'[c] = S \cap present /\ broken'[c] = S \ present /\ phase'[c] = "pel"
        /\ \A i \in S : owner[i] = c
    BY <1>1, <1>2 DEF Pending, IInv, TypeOK
  <1>5. OwnHold' /\ HeldOnce' /\ IdleEmpty'
    BY <1>2, <1>3, <1>4 DEF HoldInv, OwnHold, HeldOnce, IdleEmpty, Held
  <1> QED BY <1>5 DEF HoldInv

LEMMA DispatchHold ==
  ASSUME IInv, HoldInv, NEW c \in Consumers, Dispatch(c)
  PROVE  HoldInv'
  <1>1. PICK i \in batch[c] :
          /\ batch' = [batch EXCEPT ![c] = @ \ {i}]
          /\ running' = [running EXCEPT ![c] = @ \cup {i}]
    BY DEF Dispatch
  <1>2. UNCHANGED <<owner, phase, broken>>
    BY DEF Dispatch, group
  <1>3. \A d \in Consumers : Held(d)' = Held(d) /\ (batch[d] \cap running[d] = {})'
    BY <1>1 DEF Held, HoldInv, HeldOnce, IInv, TypeOK
  <1> QED BY <1>2, <1>3 DEF HoldInv, OwnHold, HeldOnce, IdleEmpty

LEMMA CrashHold ==
  ASSUME IInv, HoldInv, NEW c \in Consumers, Crash(c)
  PROVE  HoldInv'
  <1>1. /\ \A d \in Consumers \ {c} : /\ batch'[d] = batch[d] /\ running'[d] = running[d]
                                      /\ broken'[d] = broken[d] /\ phase'[d] = phase[d]
        /\ batch'[c] = {} /\ running'[c] = {} /\ broken'[c] = {}
        /\ owner' = owner
    BY DEF Crash, IInv, TypeOK, group
  <1>2. OwnHold' /\ HeldOnce' /\ IdleEmpty'
    BY <1>1 DEF HoldInv, OwnHold, HeldOnce, IdleEmpty, Held
  <1> QED BY <1>2 DEF HoldInv

(* A worker moves on only with empty hands.                                *)
LEMMA PhaseHold ==
  ASSUME IInv, HoldInv, NEW c \in Consumers,
         Held(c) \cup broken[c] = {},
         UNCHANGED <<owner, batch, running, broken>>,
         \A d \in Consumers \ {c} : phase'[d] = phase[d]
  PROVE  HoldInv'
  BY DEF HoldInv, OwnHold, HeldOnce, IdleEmpty, Held

LEMMA NextHold == IInv /\ HoldInv /\ [Next]_vars => HoldInv'
  <1> SUFFICES ASSUME IInv, HoldInv, [Next]_vars PROVE HoldInv'
    OBVIOUS
  <1> USE DEF log, group, dead, loop, async, fates, budgets
  <1>1. ASSUME NEW m \in Msgs, Publish(m) PROVE HoldInv'
    BY <1>1, HoldShrinks DEF Publish, IInv, Held
  <1>2. ASSUME NEW c \in Consumers, Start(c) \/ Restart(c) PROVE HoldInv'
    BY <1>2, PhaseHold DEF Start, Restart, StartFrom, HoldInv, IdleEmpty, IInv, TypeOK
  <1>3. ASSUME NEW c \in Consumers, Loop(c) PROVE HoldInv'
    <2>1. CASE Pop(c)
      BY <2>1, DeliverHold
    <2>2. CASE PopEmpty(c) \/ PopPendingEmpty(c)
      BY <2>2, PhaseHold DEF PopEmpty, PopPendingEmpty, HoldInv, IdleEmpty, IInv, TypeOK
    <2>3. CASE BatchDone(c)
      BY <2>3, PhaseHold DEF BatchDone, IInv, TypeOK
    <2> QED BY <1>3, <2>1, <2>2, <2>3, DispatchHold, PopPendingHold DEF Loop
  <1>4. ASSUME NEW c \in Consumers, NEW i \in Ids, Succeed(c, i) PROVE HoldInv'
    <2>1. Done(c, i) /\ owner' = [owner EXCEPT ![i] = NoOne]
      BY <1>4 DEF Succeed, XAck
    <2> QED BY <2>1, FinishHold DEF IInv, TypeOK
  <1>5. ASSUME NEW c \in Consumers, NEW i \in Ids, Fail(c, i) PROVE HoldInv'
    <2>1. Done(c, i) /\ owner' = [owner EXCEPT ![i] = NoOne]
      BY <1>5 DEF Fail, Retry, RouteDLQ, ScheduleAsyncRetry, Requeue, XAck
    <2> QED BY <2>1, FinishHold DEF IInv, TypeOK
  <1>6. ASSUME NEW c \in Consumers, NEW i \in Ids, SucceedAckLost(c, i) \/ FailRetryLost(c, i)
        PROVE  HoldInv'
    <2>1. Done(c, i) /\ owner' = owner
      BY <1>6 DEF SucceedAckLost, FailRetryLost
    <2> QED BY <2>1, FinishHold
  <1>7. ASSUME NEW c \in Consumers, NEW i \in Ids, RouteBrokenLost(c, i) PROVE HoldInv'
    <2>1. /\ UNCHANGED <<owner, phase, batch, running>>
          /\ \A d \in Consumers : broken'[d] \subseteq broken[d]
      BY <1>7 DEF RouteBrokenLost, IInv, TypeOK
    <2> QED BY <2>1, HoldShrinks DEF IInv
  <1>8. ASSUME NEW c \in Consumers, Failure(c) PROVE HoldInv'
    <2>1. CASE MatureAborted(c) \/ \E i \in Ids : MatureAddRefused(c, i)
      <3>1. UNCHANGED <<owner, phase, batch, running, broken>>
        BY <2>1 DEF MatureAborted, MatureAddRefused
      <3> QED BY <3>1, HoldShrinks DEF IInv
    <2> QED BY <1>8, <1>6, <1>7, <2>1, DeliverHold, CrashHold DEF Failure
  <1>9. ASSUME NEW c \in Consumers, NEW i \in Ids, RecoverStale(c, i) PROVE HoldInv'
    BY <1>9, HoldShrinks DEF RecoverStale, IInv
  <1>10. ASSUME NEW c \in Consumers, Mature(c) PROVE HoldInv'
    <2>1. UNCHANGED <<owner, phase, batch, running, broken>>
      BY <1>10 DEF Mature, MatureRead, MatureAdd, MatureRemove
    <2> QED BY <2>1, HoldShrinks DEF IInv
  <1>11. CASE UNCHANGED vars
    BY <1>11, HoldShrinks DEF vars, IInv
  <1>12. ASSUME NEW c \in Consumers, Finish(c) PROVE HoldInv'
    BY <1>12, <1>4, <1>5, RouteBrokenHold DEF Finish
  <1> QED
    BY <1>1, <1>2, <1>3, <1>8, <1>9, <1>10, <1>11, <1>12 DEF Next, Claim

LEMMA SpecHold == Spec => []HoldInv
  BY SpecIInv, InitHold, NextHold, PTL DEF Spec

(* Without XAUTOCLAIM no entry is in the hands of two workers, however     *)
(* many workers crash, restart and lose acknowledgements.                  *)
THEOREM QueueExclusiveHold == Spec => []ExclusiveHold
  <1>1. HoldInv => ExclusiveHold
    BY DEF HoldInv, OwnHold, ExclusiveHold
  <1> QED BY <1>1, SpecHold, PTL

-----------------------------------------------------------------------------
(* The dead letters.                                                       *)

(* Only delivered entries reach the dead letters.                          *)
DeadDelivered == \A d \in dlq : d.id <= cursor

(* An entry with retry count n was preceded by entries of its message with *)
(* every smaller count.                                                    *)
RetryChain ==
    \A i \in Ids : i < nextId => \A r \in 0..retries[i] :
        \E j \in Ids : msgOf[j] = msgOf[i] /\ retries[j] = r

(* A message is given up with its retries used up.                         *)
DeadTried ==
    ~AsyncRetry => \A d \in dlq : d.full => MaxRetries > 0 /\ retries[d.id] >= MaxRetries

DeadInv == DeadDelivered /\ RetryChain /\ DeadTried

LEMMA InitDead == Init => DeadInv
  BY QueueAssumption DEF Init, DeadInv, DeadDelivered, RetryChain, DeadTried, Ids

(* A step that keeps the entries and adds no dead letter.                  *)
LEMMA DeadKept ==
  ASSUME IInv, DeadInv, UNCHANGED <<nextId, msgOf, retries>>, dlq' \subseteq dlq,
         cursor' \in Int, cursor <= cursor'
  PROVE  DeadInv'
  <1>1. \A d \in dlq : d.id \in Int
    BY DEF IInv, TypeOK, Ids
  <1>2. DeadDelivered' /\ DeadTried'
    BY <1>1 DEF DeadInv, DeadDelivered, DeadTried, IInv, TypeOK
  <1> QED BY <1>2 DEF DeadInv, RetryChain

(* XADD of a fresh message, or of one more retry of an entry.              *)
LEMMA DeadAdd ==
  ASSUME IInv, DeadInv, NEW m \in Msgs, NEW r \in Nat, NEW k, NEW gone, XAdd(m, r, k, gone),
         UNCHANGED <<cursor, dlq>>,
         r = 0 \/ \E i \in Ids : i < nextId /\ m = msgOf[i] /\ r = retries[i] + 1
  PROVE  DeadInv'
  <1>1. /\ nextId \in Ids /\ nextId' = nextId + 1 /\ nextId \in Int
        /\ msgOf'[nextId] = m /\ retries'[nextId] = r
        /\ \A i \in Ids : i < nextId => msgOf'[i] = msgOf[i] /\ retries'[i] = retries[i]
        /\ \A i \in Ids : i < nextId' <=> i < nextId \/ i = nextId
    BY DEF XAdd, IInv, TypeOK, Ids
  <1>2. DeadDelivered' /\ DeadTried'
    BY <1>1 DEF DeadInv, DeadDelivered, DeadTried, IInv, TypeOK
  <1>3. RetryChain'
    <2>1. \A i \in Ids : msgOf[i] # NoMsg => i < nextId
      BY DEF IInv, TypeOK, Ids
    <2>2. ASSUME NEW i \in Ids, i < nextId, NEW s \in 0..retries[i]
          PROVE  \E j \in Ids : msgOf'[j] = msgOf[i] /\ retries'[j] = s
      <3>1. PICK j \in Ids : msgOf[j] = msgOf[i] /\ retries[j] = s
        BY <2>2 DEF DeadInv, RetryChain
      <3>2. j < nextId
        BY <2>1, <2>2, <3>1 DEF IInv, TypeOK, Ids
      <3> QED BY <1>1, <3>1, <3>2
    <2>3. ASSUME NEW s \in 0..r
          PROVE  \E j \in Ids : msgOf'[j] = m /\ retries'[j] = s
      <3>1. CASE s = r
        BY <1>1, <3>1
      <3>2. CASE s # r
        <4>1. PICK i \in Ids : i < nextId /\ m = msgOf[i] /\ r = retries[i] + 1
          BY <2>3, <3>2
        <4>2. s \in 0..retries[i]
          BY <2>3, <3>2, <4>1 DEF IInv, TypeOK
        <4> QED BY <2>2, <4>1, <4>2
      <3> QED BY <3>1, <3>2
    <2> QED BY <1>1, <2>2, <2>3 DEF RetryChain
  <1> QED BY <1>2, <1>3 DEF DeadInv

(* routeDLQ adds a dead letter with its payload only when Retry gives up.  *)
LEMMA DeadRoute ==
  ASSUME IInv, DeadInv, NEW i \in Ids, NEW full \in BOOLEAN, i <= cursor, RouteDLQ(i, full),
         cursor' = cursor,
         full /\ ~AsyncRetry => ShouldDLQ(retries[i] + 1)
  PROVE  DeadInv'
  <1>1. CASE ~HasDLQ
    BY <1>1, DeadKept DEF RouteDLQ, XDel, dead, IInv, TypeOK
  <1>2. CASE HasDLQ
    <2> DEFINE new == [n |-> dlqNext, id |-> i, full |-> full]
    <2>1. dlq' \subseteq dlq \cup {new} /\ UNCHANGED <<nextId, msgOf, retries>>
      BY <1>2 DEF RouteDLQ, XAddDLQ
    <2>2. new.id = i /\ new.full = full
      OBVIOUS
    <2> HIDE DEF new
    <2>3. DeadDelivered'
      BY <2>1, <2>2 DEF DeadInv, DeadDelivered
    <2>4. full /\ ~AsyncRetry => MaxRetries > 0 /\ retries[i] >= MaxRetries
      BY QueueAssumption DEF ShouldDLQ, IInv, TypeOK
    <2>5. DeadTried'
      BY <2>1, <2>2, <2>4 DEF DeadInv, DeadTried
    <2> QED BY <2>1, <2>3, <2>5 DEF DeadInv, RetryChain
  <1> QED BY <1>1, <1>2

LEMMA NextDead == IInv /\ DeadInv /\ [Next]_vars => DeadInv'
  <1> SUFFICES ASSUME IInv, DeadInv, [Next]_vars PROVE DeadInv'
    OBVIOUS
  <1>0. cursor \in Int /\ nextId \in Int /\ cursor < nextId
    BY DEF IInv, TypeOK
  <1> USE DEF log, group, dead, loop, async, fates, budgets
  <1>1. ASSUME NEW m \in Msgs, Publish(m) PROVE DeadInv'
    BY <1>1, DeadAdd DEF Publish
  <1>2. ASSUME NEW c \in Consumers, Start(c) \/ Restart(c) PROVE DeadInv'
    <2>1. UNCHANGED <<nextId, msgOf, retries, dlq>> /\ EnsureGroup
      BY <1>2 DEF Start, Restart, StartFrom
    <2>2. cursor' \in Int /\ cursor <= cursor'
      BY <1>0, <2>1 DEF EnsureGroup
    <2> QED BY <2>1, <2>2, DeadKept
  <1>3. ASSUME NEW c \in Consumers, Pop(c) \/ PopReplyLost(c) PROVE DeadInv'
    <2>1. PICK k \in Ids : Deliver(c, k)
      BY <1>3 DEF Pop, PopReplyLost
    <2>2. cursor' \in Int /\ cursor <= cursor'
      BY <1>0, <2>1 DEF Deliver, Undelivered, Ids
    <2> QED BY <1>3, <2>2, DeadKept DEF Pop, PopReplyLost
  <1>4. ASSUME NEW c \in Consumers, NEW i \in Ids, Succeed(c, i) PROVE DeadInv'
    BY <1>0, <1>4, DeadKept DEF Succeed, XDel
  <1>5. ASSUME NEW c \in Consumers, NEW i \in Ids, Fail(c, i) PROVE DeadInv'
    <2>1. i < nextId /\ i <= cursor /\ msgOf[i] \in Msgs /\ retries[i] + 1 \in Nat /\ cursor' = cursor
      BY <1>5, DoneShrinks, HeldEntry DEF Fail
    <2>2. CASE Requeue(i)
      BY <2>1, <2>2, DeadAdd DEF Requeue
    <2>3. CASE ScheduleAsyncRetry(i)
      BY <1>0, <2>1, <2>3, DeadKept DEF ScheduleAsyncRetry, XDel
    <2>4. CASE RouteDLQ(i, TRUE) /\ (~AsyncRetry => ShouldDLQ(retries[i] + 1))
      BY <2>1, <2>4, DeadRoute
    <2> QED BY <1>5, <2>2, <2>3, <2>4 DEF Fail, Retry
  <1>6. ASSUME NEW c \in Consumers, NEW i \in Ids, RouteBroken(c, i) PROVE DeadInv'
    <2>1. i <= cursor /\ cursor' = cursor /\ RouteDLQ(i, FALSE)
      BY <1>6, HeldEntry DEF RouteBroken
    <2> QED BY <2>1, DeadRoute
  <1>7. ASSUME NEW c \in Consumers, NEW i \in Ids, MatureAdd(c, i) PROVE DeadInv'
    <2>1. i < nextId /\ msgOf[i] \in Msgs /\ retries[i] + 1 \in Nat
      BY <1>7 DEF MatureAdd, IInv, TypeOK, DelayedAcked, Ids
    <2> QED BY <1>7, <2>1, DeadAdd DEF MatureAdd
  <1>8. CASE UNCHANGED <<nextId, msgOf, retries, dlq, cursor>>
    BY <1>0, <1>8, DeadKept
  <1>9. ASSUME NEW c \in Consumers,
               \/ Loop(c) /\ ~Pop(c)
               \/ Failure(c) /\ ~PopReplyLost(c)
               \/ Claim(c) \/ MatureRead(c) \/ MatureRemove(c)
        PROVE  DeadInv'
    <2>1. UNCHANGED <<nextId, msgOf, retries, dlq, cursor>>
      BY <1>9 DEF Loop, PopEmpty, Dispatch, BatchDone, PopPending, PopPendingEmpty, Failure,
                  SucceedAckLost, FailRetryLost, RouteBrokenLost, MatureAddRefused,
                  MatureAborted, Crash, Claim, RecoverStale, MatureRead, MatureRemove
    <2> QED BY <1>8, <2>1
  <1> QED
    BY <1>1, <1>2, <1>3, <1>4, <1>5, <1>6, <1>7, <1>8, <1>9
       DEF Next, Finish, Loop, Failure, Mature, vars

LEMMA SpecDead == Spec => []DeadInv
  BY SpecIInv, InitDead, NextDead, PTL DEF Spec

(* Retry and ShouldDLQ, for any number of workers and any MaxRetries: no   *)
(* payload reaches the dead letters before every retry count was tried.    *)
THEOREM QueueDeadAfterAllRetries == Spec => []DeadAfterAllRetries
  <1>1. IInv /\ DeadInv => DeadAfterAllRetries
    <2> SUFFICES ASSUME IInv, DeadInv, ~AsyncRetry, NEW d \in dlq, d.full
                 PROVE  /\ MaxRetries > 0
                        /\ \A r \in 0..MaxRetries :
                              \E i \in Ids : msgOf[i] = msgOf[d.id] /\ retries[i] = r
      BY DEF DeadAfterAllRetries
    <2>1. MaxRetries > 0 /\ retries[d.id] >= MaxRetries
      BY DEF DeadInv, DeadTried
    <2>2. d.id \in Ids /\ d.id < nextId /\ retries[d.id] \in Nat
      BY DEF IInv, TypeOK
    <2>3. 0..MaxRetries \subseteq 0..retries[d.id]
      BY <2>1, <2>2, QueueAssumption
    <2> QED BY <2>1, <2>2, <2>3 DEF DeadInv, RetryChain
  <1> QED BY <1>1, SpecIInv, SpecDead, PTL

-----------------------------------------------------------------------------
(* The copies of a message.                                                *)

(* The wiring in production: neither XAUTOCLAIM nor delayed retries.       *)
Production == ~Recover /\ ~AsyncRetry

(* The entry is in the stream or in a worker's hands.                      *)
Active(i) == Live(i) \/ \E c \in Consumers : i \in Held(c)

NothingDelayed ==
    delayed = {} /\ \A c \in Consumers : maturing[c] = {} /\ remDue[c] = NoId

(* A dead letter's entry was acknowledged.                                 *)
BuriedAcked == \A i \in Ids : Buried(i) => owner[i] = NoOne

(* Messages settled were published.                                        *)
SettledPublished == handled \cup dropped \subseteq Published

(* A message that was dropped is not in play.                              *)
DroppedSettled == \A i \in Ids : msgOf[i] \in dropped => ~InPlay(i)

CopyInv ==
    Production => /\ NothingDelayed /\ BuriedAcked /\ SettledPublished /\ DroppedSettled
                  /\ SingleCopy

(* In a step no entry becomes active but those in new, and no payload      *)
(* reaches the dead letters but the one of an entry in dug.                *)
NoneBut(new, dug) ==
    /\ \A j \in Ids \ new : Active(j)' => Active(j)
    /\ \A d \in dlq' : d.full => d \in dlq \/ d.id \in dug
    /\ \A d, e \in dlq' \ dlq : d.full /\ e.full => d = e
    /\ \A j \in Ids : j <= cursor /\ owner[j] = NoOne => owner'[j] = NoOne

(* What a step of the queue does to the messages: nothing comes into play, *)
Quiet == NoneBut({}, {}) /\ UNCHANGED <<msgOf, handled, dropped>>

(* the message of entry i is handled,                                      *)
Handles(i) ==
    /\ NoneBut({}, {}) /\ Active(i)
    /\ handled' = handled \cup {msgOf[i]}
    /\ \A j \in Ids \ {i} : Active(j) => Active(j)'
    /\ UNCHANGED <<msgOf, dropped, dlq>>

(* it is buried or dropped,                                                *)
GivesUp(i) ==
    /\ Active(i) /\ ~Active(i)' /\ owner'[i] = NoOne
    /\ \/ NoneBut({}, {i}) /\ UNCHANGED dropped
       \/ NoneBut({}, {}) /\ dropped' = dropped \cup {msgOf[i]} /\ UNCHANGED dlq
    /\ \A j \in Ids \ {i} : Active(j) => Active(j)'
    /\ UNCHANGED <<msgOf, handled>>

(* a new entry takes the place of i,                                       *)
Replaces(i) ==
    /\ NoneBut({nextId}, {}) /\ Active(i) /\ ~Active(i)'
    /\ nextId \in Ids /\ msgOf' = [msgOf EXCEPT ![nextId] = msgOf[i]]
    /\ UNCHANGED <<handled, dropped, dlq>>

(* or m is published.                                                      *)
Sends(m) ==
    /\ NoneBut({nextId}, {}) /\ m \notin Published
    /\ \A e \in Ids : e = nextId => Active(e)'
    /\ nextId \in Ids /\ msgOf' = [msgOf EXCEPT ![nextId] = m]
    /\ UNCHANGED <<handled, dropped, dlq>>

QueueInv == IInv /\ HoldInv /\ DeadInv /\ CopyInv

(* An active entry was added and is not a dead letter.                     *)
LEMMA ActiveEntry ==
  ASSUME QueueInv, Production, NEW i \in Ids, Active(i)
  PROVE  i < nextId /\ msgOf[i] \in Msgs /\ msgOf[i] \in Published /\ ~Buried(i)
  <1>1. i < nextId /\ msgOf[i] \in Msgs
    <2>1. CASE Live(i)
      BY <2>1 DEF Live, QueueInv, IInv, TypeOK, Ids
    <2>2. CASE \E c \in Consumers : i \in Held(c)
      BY <2>2, HeldEntry DEF QueueInv
    <2> QED BY <2>1, <2>2 DEF Active
  <1>2. ASSUME Buried(i) PROVE FALSE
    <2>1. owner[i] = NoOne /\ i <= cursor
      BY <1>2 DEF QueueInv, CopyInv, BuriedAcked, DeadInv, DeadDelivered, Buried
    <2>2. ~Live(i)
      BY <2>1 DEF Live, QueueInv, IInv, TypeOK, Ids
    <2>3. PICK c \in Consumers : i \in Held(c)
      BY <2>2 DEF Active
    <2>4. owner[i] = c
      BY <2>3 DEF QueueInv, HoldInv, OwnHold, Production
    <2> QED BY <2>1, <2>4, QueueAssumption
  <1> QED BY <1>1, <1>2 DEF Published

LEMMA InPlayActive == \A i \in Ids : InPlay(i) <=> Active(i) \/ Buried(i)
  BY DEF InPlay, Active

(* Finishing entry i takes it out of play, and nothing else.               *)
LEMMA FinishActive ==
  ASSUME QueueInv, Production, NEW c \in Consumers, NEW i \in Ids, Done(c, i),
         owner' = [owner EXCEPT ![i] = NoOne], cursor' = cursor
  PROVE  /\ Active(i) /\ ~Active(i)' /\ owner'[i] = NoOne
         /\ \A j \in Ids \ {i} : (\E d \in Consumers : j \in Held(d)') <=> (\E d \in Consumers : j \in Held(d))
         /\ \A j \in Ids \ {i} : owner'[j] = owner[j]
  <1>1. i \in running[c] /\ running' = [running EXCEPT ![c] = @ \ {i}] /\ batch' = batch
    BY DEF Done
  <1>2. i \in Held(c) /\ i <= cursor /\ owner'[i] = NoOne
    BY <1>1, HeldEntry DEF Held, QueueInv, IInv, TypeOK
  <1>3. \A j \in Ids \ {i} : \A d \in Consumers : j \in Held(d)' <=> j \in Held(d)
    BY <1>1 DEF Held, QueueInv, IInv, TypeOK
  <1>4. \A d \in Consumers : i \notin Held(d)'
    <2> SUFFICES ASSUME NEW d \in Consumers, i \in Held(d)' PROVE FALSE
      OBVIOUS
    <2>1. i \in Held(d)
      BY <1>1 DEF Held, QueueInv, IInv, TypeOK
    <2>2. owner[i] = d /\ owner[i] = c
      BY <1>2, <2>1 DEF QueueInv, HoldInv, OwnHold, Production
    <2> QED BY <1>1, <2>2 DEF Held, QueueInv, HoldInv, HeldOnce, IInv, TypeOK
  <1>5. ~Live(i)'
    BY <1>2 DEF Live, QueueInv, IInv, TypeOK, Ids
  <1>6. \A j \in Ids \ {i} : owner'[j] = owner[j]
    BY DEF QueueInv, IInv, TypeOK
  <1> QED BY <1>2, <1>3, <1>4, <1>5, <1>6 DEF Active

(* A step that leaves the entries and the dead letters alone, in which     *)
(* workers take up only entries of the stream.                             *)
LEMMA QuietStep ==
  ASSUME UNCHANGED <<msgOf, present, owner, cursor, dlq, handled, dropped>>,
         \A c \in Consumers : \A i \in Ids : i \in Held(c)' => Active(i)
  PROVE  Quiet
  BY DEF Quiet, NoneBut, Active, Live

LEMMA LoopQuiet ==
  ASSUME QueueInv, Production, NEW c \in Consumers, Loop(c) \/ PopReplyLost(c)
  PROVE  Quiet /\ NothingDelayed'
  <1> USE DEF log, group, dead, loop, async, fates, budgets
  <1>0. NothingDelayed'
    BY DEF Loop, Pop, PopReplyLost, PopEmpty, Dispatch, BatchDone, PopPending, PopPendingEmpty,
           NothingDelayed, QueueInv, CopyInv
  <1>1. CASE PopEmpty(c) \/ BatchDone(c) \/ PopPendingEmpty(c)
    BY <1>0, <1>1, QuietStep DEF PopEmpty, BatchDone, PopPendingEmpty, Active, Held
  <1>2. CASE Dispatch(c)
    <2>1. PICK i \in batch[c] : /\ batch' = [batch EXCEPT ![c] = @ \ {i}]
                                /\ running' = [running EXCEPT ![c] = @ \cup {i}]
      BY <1>2 DEF Dispatch
    <2>2. \A d \in Consumers : Held(d)' = Held(d)
      BY <2>1 DEF Held, QueueInv, IInv, TypeOK
    <2> QED BY <1>0, <1>2, <2>2, QuietStep DEF Dispatch, Active
  <1>3. CASE PopPending(c)
    <2>1. PICK S \in SUBSET Pending(c) : batch' = [batch EXCEPT ![c] = S \cap present]
      BY <1>3 DEF PopPending
    <2>2. /\ UNCHANGED running
          /\ \A d \in Consumers : batch'[d] \subseteq batch[d] \cup (Pending(c) \cap present)
      BY <1>3, <2>1 DEF PopPending, QueueInv, IInv, TypeOK
    <2>3. \A i \in Pending(c) \cap present : Live(i)
      BY QueueAssumption DEF Pending, Live
    <2> QED BY <1>0, <1>3, <2>2, <2>3, QuietStep DEF PopPending, Active, Held
  <1>4. CASE Pop(c) \/ PopReplyLost(c)
    <2>1. PICK k \in Ids :
            /\ Deliver(c, k)
            /\ batch' = batch \/ batch' = [batch EXCEPT ![c] = {i \in Undelivered : i <= k}]
      BY <1>4 DEF Pop, PopReplyLost
    <2> DEFINE S == {i \in Undelivered : i <= k}
    <2>2. UNCHANGED <<msgOf, present, dlq, handled, dropped, running>>
      BY <1>4 DEF Pop, PopReplyLost
    <2>3. /\ owner' = [i \in Ids |-> IF i \in S THEN c ELSE owner[i]]
          /\ cursor' = k /\ k > cursor /\ k \in Int /\ cursor \in Int /\ Ids \subseteq Int
          /\ \A i \in S : i \in present /\ i > cursor
      BY <2>1 DEF Deliver, Undelivered, QueueInv, IInv, TypeOK, Ids
    <2>4. \A d \in Consumers : batch'[d] \subseteq batch[d] \cup S
      BY <2>1 DEF QueueInv, IInv, TypeOK
    <2> HIDE DEF S
    <2>5. \A j \in Ids : Live(j)' => Live(j)
      BY <2>2, <2>3 DEF Live
    <2>6. \A d \in Consumers : \A j \in Ids : j \in Held(d)' => j \in Held(d) \/ Live(j)
      BY <2>2, <2>3, <2>4 DEF Held, Live
    <2>7. \A j \in Ids : Active(j)' => Active(j)
      BY <2>5, <2>6 DEF Active
    <2>8. \A j \in Ids : j <= cursor /\ owner[j] = NoOne => owner'[j] = NoOne
      BY <2>3
    <2> QED BY <2>2, <2>7, <2>8, <1>0 DEF Quiet, NoneBut
  <1> QED BY <1>0, <1>1, <1>2, <1>3, <1>4 DEF Loop

LEMMA FailureQuiet ==
  ASSUME QueueInv, Production, NEW c \in Consumers,
         \/ Crash(c)
         \/ \E i \in Ids : FailRetryLost(c, i) \/ RouteBrokenLost(c, i)
  PROVE  Quiet /\ NothingDelayed'
  <1> USE DEF log, group, dead, loop, async, fates, budgets
  <1>1. NothingDelayed'
    BY DEF Crash, FailRetryLost, RouteBrokenLost, NothingDelayed, QueueInv, CopyInv, IInv, TypeOK
  <1>2. \A d \in Consumers : Held(d)' \subseteq Held(d)
    BY DEF Crash, FailRetryLost, RouteBrokenLost, Done, Held, QueueInv, IInv, TypeOK
  <1>3. UNCHANGED <<msgOf, present, owner, cursor, dlq, handled, dropped>>
    BY DEF Crash, FailRetryLost, RouteBrokenLost
  <1> QED BY <1>1, <1>2, <1>3, QuietStep DEF Active

LEMMA StartQuiet ==
  ASSUME QueueInv, Production, NEW c \in Consumers, Start(c) \/ Restart(c)
  PROVE  Quiet /\ NothingDelayed'
  <1> USE DEF log, group, dead, loop, async, fates, budgets
  <1>1. /\ EnsureGroup
        /\ UNCHANGED <<msgOf, present, owner, dlq, handled, dropped, batch, running, delayed,
                       maturing, remDue, nextId>>
    BY DEF Start, Restart, StartFrom
  <1>2. cursor \in Int /\ cursor' \in Int /\ cursor <= cursor' /\ present \subseteq Int
    BY <1>1 DEF EnsureGroup, QueueInv, IInv, TypeOK, Ids
  <1>3. \A j \in Ids : Live(j)' => Live(j)
    BY <1>1, <1>2 DEF Live
  <1>4. \A j \in Ids : Active(j)' => Active(j)
    BY <1>1, <1>3 DEF Active, Held
  <1> QED BY <1>1, <1>4 DEF Quiet, NoneBut, NothingDelayed, QueueInv, CopyInv

(* Ack: the entry leaves, or stays in the PEL when XACK failed.            *)
LEMMA SucceedHandles ==
  ASSUME QueueInv, Production, NEW c \in Consumers, NEW i \in Ids,
         Succeed(c, i) \/ SucceedAckLost(c, i)
  PROVE  Handles(i) /\ NothingDelayed'
  <1> USE DEF log, group, dead, loop, async, fates, budgets
  <1>0. NothingDelayed'
    BY DEF Succeed, SucceedAckLost, NothingDelayed, QueueInv, CopyInv
  <1>1. CASE Succeed(c, i)
    <2>1. /\ Done(c, i) /\ owner' = [owner EXCEPT ![i] = NoOne]
          /\ handled' = handled \cup {msgOf[i]}
          /\ present' \subseteq present /\ present \ {i} \subseteq present'
          /\ UNCHANGED <<msgOf, cursor, dlq, dropped>>
      BY <1>1 DEF Succeed, XAck, XDel, AckDeletes
    <2>2. /\ Active(i) /\ ~Active(i)' /\ owner'[i] = NoOne
          /\ \A j \in Ids \ {i} :
                (\E d \in Consumers : j \in Held(d)') <=> (\E d \in Consumers : j \in Held(d))
          /\ \A j \in Ids \ {i} : owner'[j] = owner[j]
      BY <2>1, FinishActive
    <2>3. \A j \in Ids \ {i} : Active(j)' <=> Active(j)
      BY <2>1, <2>2 DEF Active, Live
    <2> QED BY <1>0, <2>1, <2>2, <2>3 DEF Handles, NoneBut
  <1>2. CASE SucceedAckLost(c, i)
    <2>1. /\ Done(c, i) /\ handled' = handled \cup {msgOf[i]}
          /\ UNCHANGED <<msgOf, present, owner, cursor, dlq, dropped>>
      BY <1>2 DEF SucceedAckLost
    <2>2. /\ i \in Held(c)
          /\ \A d \in Consumers : Held(d)' \subseteq Held(d)
          /\ \A j \in Ids \ {i} : \A d \in Consumers : j \in Held(d)' <=> j \in Held(d)
      BY <2>1 DEF Done, Held, QueueInv, IInv, TypeOK
    <2>3. Active(i) /\ (Active(i)' => Active(i)) /\ \A j \in Ids \ {i} : Active(j)' <=> Active(j)
      BY <2>1, <2>2 DEF Active, Live
    <2> QED BY <1>0, <2>1, <2>3 DEF Handles, NoneBut
  <1> QED BY <1>1, <1>2

(* XADD to the dead letters adds the payload of i at most once.            *)
LEMMA LetterAdded ==
  ASSUME IInv, NEW i \in Ids, NEW full \in BOOLEAN, HasDLQ, RouteDLQ(i, full)
  PROVE  /\ \A d \in dlq' : d.full => d \in dlq \/ (full /\ d.id = i)
         /\ \A d, e \in dlq' \ dlq : d.full /\ e.full => d = e
         /\ present' = present \ {i} /\ UNCHANGED <<msgOf, dropped>>
  <1> DEFINE new == [n |-> dlqNext, id |-> i, full |-> full]
  <1>1. dlq' \subseteq dlq \cup {new} /\ present' = present \ {i} /\ UNCHANGED <<msgOf, dropped>>
    BY DEF RouteDLQ, XAddDLQ
  <1>2. new.id = i /\ new.full = full
    OBVIOUS
  <1> HIDE DEF new
  <1> QED BY <1>1, <1>2

(* Retry gives up: routeDLQ of an entry with its payload.                  *)
LEMMA RouteGivesUp ==
  ASSUME QueueInv, Production, NEW c \in Consumers, NEW i \in Ids, Done(c, i),
         RouteDLQ(i, TRUE), cursor' = cursor, handled' = handled
  PROVE  GivesUp(i)
  <1>1. owner' = [owner EXCEPT ![i] = NoOne]
    BY DEF RouteDLQ, XAck
  <1>2. /\ Active(i) /\ ~Active(i)' /\ owner'[i] = NoOne
        /\ \A j \in Ids \ {i} :
              (\E d \in Consumers : j \in Held(d)') <=> (\E d \in Consumers : j \in Held(d))
        /\ \A j \in Ids \ {i} : owner'[j] = owner[j]
    BY <1>1, FinishActive
  <1>3. present' \subseteq present /\ present \ {i} \subseteq present' /\ msgOf' = msgOf
    BY DEF RouteDLQ, XAddDLQ, XDel, AckDeletes
  <1>4. \A j \in Ids \ {i} : Active(j)' <=> Active(j)
    BY <1>2, <1>3 DEF Active, Live
  <1>5. CASE HasDLQ
    <2>1. /\ \A d \in dlq' : d.full => d \in dlq \/ d.id \in {i}
          /\ \A d, e \in dlq' \ dlq : d.full /\ e.full => d = e
          /\ UNCHANGED dropped
      BY <1>5, LetterAdded DEF QueueInv
    <2> QED BY <1>2, <1>3, <1>4, <2>1 DEF GivesUp, NoneBut
  <1>6. CASE ~HasDLQ
    <2>1. UNCHANGED dlq /\ dropped' = dropped \cup {msgOf[i]}
      BY <1>6 DEF RouteDLQ, dead
    <2> QED BY <1>2, <1>3, <1>4, <2>1 DEF GivesUp, NoneBut
  <1> QED BY <1>5, <1>6

(* routeDLQ of an entry that does not decode settles nothing.              *)
LEMMA BrokenQuiet ==
  ASSUME QueueInv, Production, NEW c \in Consumers, NEW i \in Ids, RouteBroken(c, i)
  PROVE  Quiet /\ NothingDelayed'
  <1> USE DEF async
  <1>1. /\ i \in broken[c] /\ RouteDLQ(i, FALSE) /\ owner' = [owner EXCEPT ![i] = NoOne]
        /\ UNCHANGED <<cursor, batch, running, delayed, maturing, remDue, handled>>
    BY DEF RouteBroken, RouteDLQ, XAck
  <1>2. present' \subseteq present /\ msgOf' = msgOf
    BY <1>1 DEF RouteDLQ, XAddDLQ, XDel
  <1>3. /\ \A d \in dlq' : d.full => d \in dlq
        /\ \A d, e \in dlq' \ dlq : d.full /\ e.full => d = e
        /\ dropped' = dropped
    <2>1. CASE HasDLQ
      BY <1>1, <2>1, LetterAdded DEF QueueInv
    <2>2. CASE ~HasDLQ
      BY <1>1, <2>2 DEF RouteDLQ, dead
    <2> QED BY <2>1, <2>2
  <1>4. \A j \in Ids : owner'[j] # NoOne => owner[j] = owner'[j]
    BY <1>1 DEF QueueInv, IInv, TypeOK
  <1>5. \A j \in Ids : Active(j)' => Active(j)
    BY <1>1, <1>2, <1>4 DEF Active, Live, Held
  <1> QED BY <1>1, <1>2, <1>3, <1>4, <1>5 DEF Quiet, NoneBut, NothingDelayed, QueueInv, CopyInv

(* requeue: one script takes the old entry out and puts the new one in.    *)
LEMMA RequeueReplaces ==
  ASSUME QueueInv, Production, NEW c \in Consumers, NEW i \in Ids, Done(c, i), Requeue(i),
         cursor' = cursor, handled' = handled
  PROVE  Replaces(i)
  <1>1. PICK k \in 0..nextId : XAdd(msgOf[i], retries[i] + 1, k, {i})
    BY DEF Requeue
  <1>2. owner' = [owner EXCEPT ![i] = NoOne] /\ UNCHANGED <<dlq, dropped>>
    BY DEF Requeue, XAck, dead
  <1>3. /\ Active(i) /\ ~Active(i)' /\ owner'[i] = NoOne
        /\ \A j \in Ids \ {i} :
              (\E d \in Consumers : j \in Held(d)') <=> (\E d \in Consumers : j \in Held(d))
        /\ \A j \in Ids \ {i} : owner'[j] = owner[j]
    BY <1>2, FinishActive
  <1>4. /\ nextId \in Ids /\ msgOf' = [msgOf EXCEPT ![nextId] = msgOf[i]]
        /\ present' \subseteq present \cup {nextId}
    BY <1>1 DEF XAdd, QueueInv, IInv, TypeOK, Ids
  <1>5. \A j \in Ids \ {nextId} : Active(j)' => Active(j)
    BY <1>3, <1>4 DEF Active, Live
  <1> QED BY <1>2, <1>3, <1>4, <1>5 DEF Replaces, NoneBut

(* Publish: the new entry is never trimmed by the command that adds it.    *)
LEMMA PublishSends ==
  ASSUME QueueInv, Production, NEW m \in Msgs, Publish(m)
  PROVE  Sends(m) /\ NothingDelayed'
  <1>1. PICK k \in 0..nextId :
          /\ IF MaxLen > 0 THEN MayTrim(present \cup {nextId}, MaxLen, k) ELSE k = 0
          /\ XAdd(m, 0, k, {})
    BY DEF Publish
  <1>2. UNCHANGED <<owner, cursor, dlq, batch, running, delayed, maturing, remDue, handled, dropped>>
    BY DEF Publish, group, dead, loop, async, fates
  <1>3. /\ nextId \in Ids /\ nextId \in Int /\ nextId >= 1 /\ cursor < nextId /\ k \in Int
        /\ msgOf' = [msgOf EXCEPT ![nextId] = m]
        /\ present' = {j \in present \cup {nextId} : j > k}
        /\ \A j \in present : j < nextId
    BY <1>1 DEF XAdd, QueueInv, IInv, TypeOK, Ids
  <1>4. k < nextId
    <2> SUFFICES ASSUME k = nextId PROVE FALSE
      BY <1>3
    <2>1. {j \in present \cup {nextId} : j > k} = {}
      <3>1. \A j \in present \cup {nextId} : j \in Int /\ j <= nextId
        BY <1>3 DEF QueueInv, IInv, TypeOK, Ids
      <3> QED BY <3>1
    <2>2. Cardinality({j \in present \cup {nextId} : j > k}) = 0
      BY <2>1, FS_EmptySet
    <2> QED BY <1>1, <1>3, <2>2, QueueAssumption DEF MayTrim
  <1>5. \A e \in Ids : e = nextId => Active(e)'
    BY <1>2, <1>3, <1>4 DEF Active, Live
  <1>6. \A j \in Ids \ {nextId} : Active(j)' => Active(j)
    BY <1>2, <1>3 DEF Active, Live, Held
  <1>7. m \notin Published
    BY DEF Publish
  <1> QED BY <1>2, <1>3, <1>5, <1>6, <1>7 DEF Sends, NoneBut, NothingDelayed, QueueInv, CopyInv

(* Every step of the queue does one of these things to the messages.       *)
LEMMA StepKinds ==
  ASSUME QueueInv, Production, [Next]_vars
  PROVE  /\ NothingDelayed'
         /\ \/ Quiet
            \/ \E i \in Ids : Handles(i) \/ GivesUp(i) \/ Replaces(i)
            \/ \E m \in Msgs : Sends(m)
  <1> DEFINE Kinds == /\ NothingDelayed'
                      /\ \/ Quiet
                         \/ \E i \in Ids : Handles(i) \/ GivesUp(i) \/ Replaces(i)
                         \/ \E m \in Msgs : Sends(m)
  <1>1. ASSUME NEW c \in Consumers, NEW i \in Ids, Fail(c, i) PROVE Kinds
    <2>1. /\ Done(c, i) /\ Retry(i)
          /\ UNCHANGED <<cursor, handled, maturing, remDue>>
      BY <1>1 DEF Fail
    <2>2. delayed' = delayed /\ (Requeue(i) \/ RouteDLQ(i, TRUE))
      BY <2>1 DEF Retry, Requeue, Production
    <2>3. NothingDelayed'
      BY <2>1, <2>2 DEF NothingDelayed, QueueInv, CopyInv
    <2> QED BY <2>1, <2>2, <2>3, RequeueReplaces, RouteGivesUp
  <1>2. ASSUME NEW c \in Consumers,
               \/ Claim(c) \/ Mature(c) \/ MatureAborted(c)
               \/ \E i \in Ids : MatureAddRefused(c, i)
        PROVE  FALSE
    BY <1>2 DEF Claim, RecoverStale, Mature, MatureRead, MatureAdd, MatureRemove, Production,
                MatureAborted, MatureAddRefused, NothingDelayed, QueueInv, CopyInv
  <1>3. CASE UNCHANGED vars
    BY <1>3, QuietStep
       DEF vars, log, group, dead, loop, async, fates, Held, Active, NothingDelayed, QueueInv, CopyInv
  <1>4. ASSUME NEW m \in Msgs, Publish(m) PROVE Kinds
    BY <1>4, PublishSends
  <1>5. ASSUME NEW c \in Consumers, Start(c) \/ Restart(c) \/ Loop(c) PROVE Kinds
    BY <1>5, StartQuiet, LoopQuiet
  <1>6. ASSUME NEW c \in Consumers, Finish(c) PROVE Kinds
    BY <1>6, <1>1, SucceedHandles, BrokenQuiet DEF Finish
  <1>7. ASSUME NEW c \in Consumers, Failure(c) PROVE Kinds
    BY <1>2, <1>7, LoopQuiet, SucceedHandles, FailureQuiet DEF Failure
  <1> QED BY <1>2, <1>3, <1>4, <1>5, <1>6, <1>7 DEF Next

(* In play are then only entries that were, or one new entry of a message  *)
(* that no other entry in play belongs to.                                 *)
LEMMA CopyStep ==
  ASSUME QueueInv, Production, NothingDelayed', NEW new, NEW dug,
         NoneBut(new, dug),
         \A j \in Ids : msgOf[j] # NoMsg => msgOf'[j] = msgOf[j],
         \A j \in Ids \ new : msgOf'[j] = msgOf[j],
         \A i \in dug : i \in Ids /\ owner'[i] = NoOne /\ Active(i),
         \A i, j \in Ids : i \in new /\ j \notin new /\ InPlay(j)' => msgOf'[j] # msgOf'[i],
         \A i, j \in new : i = j,
         \A i \in Ids : msgOf'[i] \in dropped' => ~InPlay(i)',
         handled' \cup dropped' \subseteq handled \cup dropped \cup Published
  PROVE  CopyInv'
  <1> USE DEF QueueInv, CopyInv
  <1>1. \A i \in Ids : Buried(i)' => Buried(i) \/ i \in dug
    BY DEF NoneBut, Buried
  <1>2. \A i \in dug : ~Buried(i)
    BY ActiveEntry
  <1>3. BuriedAcked'
    <2>1. \A i \in Ids : Buried(i) => i <= cursor /\ owner[i] = NoOne
      BY DEF BuriedAcked, DeadInv, DeadDelivered, Buried
    <2> QED BY <1>1, <2>1 DEF BuriedAcked, NoneBut
  <1>4. SettledPublished'
    BY QueueAssumption DEF SettledPublished, Published
  <1>5. DroppedSettled'
    BY DEF DroppedSettled
  <1>6. \A i \in Ids \ new : InPlay(i)' => InPlay(i)
    BY <1>1, InPlayActive DEF NoneBut, InPlay, Active
  <1>7. \A i, j \in Ids :
           msgOf'[i] = msgOf'[j] /\ msgOf'[i] # NoMsg /\ InPlay(i)' /\ InPlay(j)' => i = j
    BY <1>6 DEF SingleCopy, Production
  <1>8. \A d, e \in dlq' : d.full /\ e.full /\ d.id = e.id => d = e
    <2> SUFFICES ASSUME NEW d \in dlq', NEW e \in dlq', d.full, e.full, d.id = e.id, d # e
                 PROVE  FALSE
      OBVIOUS
    <2>1. d \in dlq \/ d.id \in dug
      BY DEF NoneBut
    <2>2. e \in dlq \/ e.id \in dug
      BY DEF NoneBut
    <2>3. ~(d \in dlq /\ e \in dlq)
      BY DEF SingleCopy, Production
    <2>4. d \in dlq \/ e \in dlq
      BY DEF NoneBut
    <2>5. d.id \in dug /\ Buried(d.id)
      BY <2>1, <2>2, <2>3, <2>4 DEF Buried
    <2> QED BY <1>2, <2>5
  <1> QED BY <1>3, <1>4, <1>5, <1>7, <1>8 DEF SingleCopy

LEMMA InitCopy == Init => CopyInv
  <1> SUFFICES ASSUME Init PROVE CopyInv
    OBVIOUS
  <1>1. Published = {} /\ handled = {} /\ dropped = {} /\ dlq = {}
    BY QueueAssumption DEF Init, Published
  <1>2. \A i \in Ids : msgOf[i] = NoMsg
    BY DEF Init
  <1>3. NothingDelayed
    BY DEF Init, NothingDelayed
  <1> QED
    BY <1>1, <1>2, <1>3
       DEF CopyInv, BuriedAcked, SettledPublished, DroppedSettled, SingleCopy, Buried

LEMMA NextCopy == QueueInv /\ [Next]_vars => CopyInv'
  <1> SUFFICES ASSUME QueueInv, [Next]_vars, Production PROVE CopyInv'
    BY DEF CopyInv
  <1>0. /\ NothingDelayed'
        /\ \/ Quiet
           \/ \E i \in Ids : Handles(i) \/ GivesUp(i) \/ Replaces(i)
           \/ \E m \in Msgs : Sends(m)
    BY StepKinds
  <1>p. /\ \A i \in Ids : msgOf[i] \in dropped => ~InPlay(i)
        /\ dropped \subseteq Published
    BY DEF QueueInv, CopyInv, DroppedSettled, SettledPublished
  <1>s. ASSUME NoneBut({}, {}), msgOf' = msgOf, dropped' = dropped,
               handled' \subseteq handled \cup Published
        PROVE  CopyInv'
    <2>1. \A i \in Ids : InPlay(i)' => InPlay(i)
      BY <1>s, InPlayActive DEF NoneBut, InPlay, Active, Buried
    <2>2. \A i \in Ids : msgOf'[i] \in dropped' => ~InPlay(i)'
      BY <1>p, <1>s, <2>1
    <2> QED BY <1>0, <1>s, <2>2, CopyStep
  <1>1. CASE Quiet
    BY <1>1, <1>s DEF Quiet
  <1>2. ASSUME NEW i \in Ids, Handles(i) PROVE CopyInv'
    BY <1>2, <1>s, ActiveEntry DEF Handles
  <1>3. ASSUME NEW i \in Ids, GivesUp(i) PROVE CopyInv'
    <2>1. /\ Active(i) /\ ~Active(i)' /\ owner'[i] = NoOne /\ msgOf' = msgOf /\ handled' = handled
          /\ msgOf[i] \in Published /\ ~Buried(i) /\ InPlay(i)
      BY <1>3, ActiveEntry, InPlayActive DEF GivesUp
    <2>2. CASE NoneBut({}, {i}) /\ dropped' = dropped
      <3>1. \A j \in Ids : InPlay(j)' => InPlay(j)
        BY <2>1, <2>2, InPlayActive DEF NoneBut, InPlay, Active, Buried
      <3>2. \A j \in Ids : msgOf'[j] \in dropped' => ~InPlay(j)'
        BY <1>p, <2>1, <2>2, <3>1
      <3> QED BY <1>0, <2>1, <2>2, <3>2, CopyStep
    <2>3. CASE NoneBut({}, {}) /\ dropped' = dropped \cup {msgOf[i]}
      <3>1. \A j \in Ids : InPlay(j)' => InPlay(j) /\ j # i
        BY <2>1, <2>3, InPlayActive DEF NoneBut, InPlay, Active, Buried
      <3>2. \A j \in Ids : msgOf[j] = msgOf[i] /\ InPlay(j) => j = i
        BY <2>1, QueueAssumption DEF QueueInv, CopyInv, SingleCopy, Production, Published
      <3>3. \A j \in Ids : msgOf'[j] \in dropped' => ~InPlay(j)'
        BY <1>p, <2>1, <2>3, <3>1, <3>2
      <3> QED BY <1>0, <2>1, <2>3, <3>3, CopyStep
    <2> QED BY <1>3, <2>2, <2>3 DEF GivesUp
  <1>n. /\ \A j \in Ids : j >= nextId <=> msgOf[j] = NoMsg
        /\ \A e \in Ids : e = nextId => msgOf[e] = NoMsg
        /\ NoMsg \notin Published
    BY QueueAssumption DEF QueueInv, IInv, TypeOK, Published, Ids
  <1>4. ASSUME NEW i \in Ids, Replaces(i) PROVE CopyInv'
    <2>1. /\ NoneBut({nextId}, {}) /\ Active(i) /\ ~Active(i)' /\ nextId \in Ids
          /\ msgOf' = [msgOf EXCEPT ![nextId] = msgOf[i]]
          /\ UNCHANGED <<handled, dropped, dlq>>
          /\ msgOf[i] \in Published /\ ~Buried(i) /\ InPlay(i)
      BY <1>4, ActiveEntry, InPlayActive DEF Replaces
    <2>2. /\ msgOf'[nextId] = msgOf[i]
          /\ \A j \in Ids \ {nextId} : msgOf'[j] = msgOf[j]
          /\ \A j \in Ids : msgOf[j] # NoMsg => msgOf'[j] = msgOf[j]
      BY <1>n, <2>1 DEF QueueInv, IInv, TypeOK
    <2>3. \A j \in Ids \ {nextId} : InPlay(j)' => InPlay(j) /\ j # i
      BY <2>1 DEF NoneBut, InPlay, Active, Buried
    <2>4. \A j \in Ids : msgOf[j] = msgOf[i] /\ InPlay(j) => j = i
      BY <2>1, QueueAssumption DEF QueueInv, CopyInv, SingleCopy, Production, Published
    <2>5. \A j \in Ids \ {nextId} : InPlay(j)' => msgOf'[j] # msgOf[i]
      BY <2>2, <2>3, <2>4
    <2>6. msgOf[i] \notin dropped
      BY <1>p, <2>1
    <2>7. \A j \in Ids : msgOf'[j] \in dropped' => ~InPlay(j)'
      BY <1>p, <2>1, <2>2, <2>3, <2>6
    <2> QED BY <1>0, <2>1, <2>2, <2>5, <2>7, CopyStep
  <1>5. ASSUME NEW m \in Msgs, Sends(m) PROVE CopyInv'
    <2>1. /\ NoneBut({nextId}, {}) /\ m \notin Published /\ nextId \in Ids
          /\ msgOf' = [msgOf EXCEPT ![nextId] = m]
          /\ UNCHANGED <<handled, dropped, dlq>>
      BY <1>5 DEF Sends
    <2>2. /\ msgOf'[nextId] = m
          /\ \A j \in Ids \ {nextId} : msgOf'[j] = msgOf[j] /\ msgOf[j] # m
          /\ \A j \in Ids : msgOf[j] # NoMsg => msgOf'[j] = msgOf[j]
      BY <1>n, <2>1 DEF QueueInv, IInv, TypeOK, Published
    <2>3. \A j \in Ids \ {nextId} : InPlay(j)' => InPlay(j)
      BY <2>1 DEF NoneBut, InPlay, Active, Buried
    <2>4. \A j \in Ids : msgOf'[j] \in dropped' => ~InPlay(j)'
      BY <1>p, <2>1, <2>2, <2>3
    <2> QED BY <1>0, <2>1, <2>2, <2>4, CopyStep
  <1> QED BY <1>0, <1>1, <1>2, <1>3, <1>4, <1>5

LEMMA SpecQueueInv == Spec => []QueueInv
  <1>1. IInv /\ HoldInv /\ DeadInv /\ CopyInv <=> QueueInv
    BY DEF QueueInv
  <1>2. Spec => []CopyInv
    BY <1>1, SpecIInv, SpecHold, SpecDead, InitCopy, NextCopy, PTL DEF Spec
  <1> QED BY <1>1, <1>2, SpecIInv, SpecHold, SpecDead, PTL

(* luaRequeueAtomic and luaRouteDLQAtomic: with neither XAUTOCLAIM nor     *)
(* delayed retries, no interleaving, crash or Redis error puts a message   *)
(* in play twice.                                                          *)
THEOREM QueueSingleCopy == Spec => []SingleCopy
  <1>1. QueueInv => SingleCopy
    BY DEF QueueInv, CopyInv, SingleCopy, Production
  <1> QED BY <1>1, SpecQueueInv, PTL

-----------------------------------------------------------------------------
(* The queue implements Delivery.                                          *)

(* In production a message waits as long as an entry of it is active, and  *)
(* one that is given up does not wait.                                     *)
LEMMA WaitingActive ==
  ASSUME QueueInv, Production, NEW m \in Msgs
  PROVE  /\ Waiting(m) <=> \E i \in Ids : msgOf[i] = m /\ Active(i)
         /\ Dead(m) => ~Waiting(m)
         /\ Waiting(m) \/ Dead(m) => m \in Published
  <1>1. Waiting(m) <=> \E i \in Ids : msgOf[i] = m /\ Active(i)
    BY DEF Waiting, Active, QueueInv, CopyInv, NothingDelayed
  <1>2. ASSUME Dead(m), Waiting(m) PROVE FALSE
    <2>1. PICK i \in Ids : msgOf[i] = m /\ Active(i)
      BY <1>1, <1>2
    <2>2. InPlay(i) /\ ~Buried(i)
      BY <2>1, InPlayActive, ActiveEntry
    <2>3. m \notin dropped
      BY <2>1, <2>2 DEF QueueInv, CopyInv, DroppedSettled
    <2>4. PICK j \in Ids : msgOf[j] = m /\ Buried(j)
      BY <1>2, <2>3 DEF Dead
    <2>5. i = j
      BY <2>1, <2>2, <2>4, InPlayActive, QueueAssumption
         DEF QueueInv, CopyInv, SingleCopy, Production
    <2> QED BY <2>2, <2>4, <2>5
  <1>3. Waiting(m) \/ Dead(m) => m \in Published
    BY DEF Waiting, Dead, Published, QueueInv, CopyInv, SettledPublished
  <1> QED BY <1>1, <1>2, <1>3

(* A message leaves: it is lost, or done if it had been handled.           *)
Leaves(m) ==
    \/ Fate(m) \in {"waiting", "dead"} /\ Fate(m)' = "lost"
    \/ Fate(m) = "again" /\ Fate(m)' = "done"

(* A step that publishes and settles nothing can only make messages leave. *)
LEMMA LeaveStep ==
  ASSUME QueueInv, Production, NEW m \in Msgs,
         m \in Published' <=> m \in Published,
         m \in handled' <=> m \in handled,
         Waiting(m)' => Waiting(m), Dead(m)' => Dead(m)
  PROVE  Fate(m)' = Fate(m) \/ Leaves(m)
  BY WaitingActive DEF Fate, Leaves

LEMMA LeaveMaps ==
  ASSUME \A m \in Msgs : Fate(m)' = Fate(m) \/ Leaves(m)
  PROVE  Lifecycle!Next
  <1> DEFINE S == {m \in Msgs : Fate(m)' # Fate(m)}
  <1>1. Lifecycle!Leave(S)
    BY DEF Lifecycle!Leave, Lifecycle!Gone, Leaves
  <1>2. S \in SUBSET Msgs
    OBVIOUS
  <1> QED BY <1>1, <1>2 DEF Lifecycle!Next

LEMMA WaitingNext ==
  ASSUME QueueInv', Production, NEW m \in Msgs
  PROVE  Waiting(m)' <=> \E i \in Ids : msgOf'[i] = m /\ Active(i)'
  BY DEF Waiting, Active, QueueInv, CopyInv, NothingDelayed

LEMMA QuietMaps ==
  ASSUME QueueInv, QueueInv', Production, NoneBut({}, {}), msgOf' = msgOf, dropped' = dropped,
         handled' = handled
  PROVE  Lifecycle!Next
  <1>1. Published' = Published
    BY DEF Published
  <1>2. ASSUME NEW m \in Msgs PROVE (Waiting(m)' => Waiting(m)) /\ (Dead(m)' => Dead(m))
    <2>1. \A i \in Ids : Buried(i)' => Buried(i)
      BY DEF NoneBut, Buried
    <2> QED BY <2>1, WaitingActive, WaitingNext DEF NoneBut, Dead
  <1> QED BY <1>1, <1>2, LeaveStep, LeaveMaps

LEMMA HandlesMaps ==
  ASSUME QueueInv, QueueInv', Production, NEW i \in Ids, Handles(i)
  PROVE  Lifecycle!Next
  <1>1. /\ NoneBut({}, {}) /\ Active(i) /\ handled' = handled \cup {msgOf[i]}
        /\ \A j \in Ids \ {i} : Active(j) => Active(j)'
        /\ UNCHANGED <<msgOf, dropped, dlq>>
    BY DEF Handles
  <1>2. msgOf[i] \in Msgs /\ msgOf[i] \in Published
    BY <1>1, ActiveEntry
  <1>3. CASE msgOf[i] \in handled
    <2>1. handled' = handled
      BY <1>1, <1>3
    <2> QED BY <1>1, <2>1, QuietMaps
  <1>4. CASE msgOf[i] \notin handled
    <2>1. Published' = Published
      BY <1>1 DEF Published
    <2>2. Fate(msgOf[i]) = "waiting"
      BY <1>1, <1>2, <1>4, WaitingActive DEF Fate
    <2>3. \A x \in Msgs : x = msgOf[i] => Fate(x)' \in {"done", "again"}
      BY <1>1, <1>2, <2>1 DEF Fate
    <2>4. ASSUME NEW x \in Msgs, x # msgOf[i] PROVE Fate(x)' = Fate(x)
      <3>1. Waiting(x)' <=> Waiting(x)
        BY <1>1, <2>4, WaitingActive, WaitingNext DEF NoneBut
      <3>2. Dead(x)' <=> Dead(x)
        BY <1>1 DEF Dead, Buried
      <3> QED BY <1>1, <2>1, <2>4, <3>1, <3>2 DEF Fate
    <2>5. Lifecycle!Handle(msgOf[i])
      BY <1>2, <2>2, <2>3, <2>4 DEF Lifecycle!Handle
    <2> QED BY <1>2, <2>5 DEF Lifecycle!Next
  <1> QED BY <1>3, <1>4

LEMMA GivesUpMaps ==
  ASSUME QueueInv, QueueInv', Production, NEW i \in Ids, GivesUp(i)
  PROVE  Lifecycle!Next
  <1>1. /\ Active(i) /\ ~Active(i)' /\ UNCHANGED <<msgOf, handled>>
        /\ \A j \in Ids \ {i} : Active(j)' <=> Active(j)
        /\ \A d \in dlq' : d.full => d \in dlq \/ d.id = i
        /\ dropped' \subseteq dropped \cup {msgOf[i]}
    BY DEF GivesUp, NoneBut
  <1>2. msgOf[i] \in Msgs /\ msgOf[i] \in Published
    BY <1>1, ActiveEntry
  <1>3. Published' = Published
    BY <1>1 DEF Published
  <1>4. ASSUME NEW x \in Msgs, x # msgOf[i]
        PROVE  Fate(x)' = Fate(x) \/ (Fate(x) = "dead" /\ Fate(x)' = "lost" /\ Leaves(x))
    <2>1. Waiting(x)' <=> Waiting(x)
      BY <1>1, <1>4, WaitingActive, WaitingNext
    <2>2. Dead(x)' => Dead(x)
      BY <1>1, <1>4 DEF Dead, Buried
    <2> QED BY <1>1, <1>3, <2>1, <2>2, WaitingActive DEF Fate, Leaves
  <1>5. CASE msgOf[i] \in handled
    <2>1. \A x \in Msgs : x = msgOf[i] => Fate(x)' = Fate(x) \/ Leaves(x)
      BY <1>1, <1>2, <1>3, <1>5, WaitingActive DEF Fate, Leaves
    <2> QED BY <1>4, <2>1, LeaveMaps
  <1>6. CASE msgOf[i] \notin handled
    <2>1. Fate(msgOf[i]) = "waiting"
      BY <1>1, <1>2, <1>6, WaitingActive DEF Fate
    <2>2. \A j \in Ids : msgOf[j] = msgOf[i] /\ Active(j) => j = i
      BY <1>1, <1>2, InPlayActive, QueueAssumption DEF QueueInv, CopyInv, SingleCopy, Production
    <2>3. \A x \in Msgs : x = msgOf[i] => Fate(x)' \in {"dead", "lost"}
      BY <1>1, <1>2, <1>3, <1>6, <2>2, WaitingNext DEF Fate
    <2>4. CASE \A x \in Msgs : x = msgOf[i] => Fate(x)' = "lost"
      BY <1>4, <2>1, <2>4, LeaveMaps DEF Leaves
    <2>5. CASE \A x \in Msgs : x = msgOf[i] => Fate(x)' = "dead"
      <3> DEFINE S == {x \in Msgs \ {msgOf[i]} : Fate(x)' # Fate(x)}
      <3>1. Lifecycle!GiveUp(msgOf[i], S)
        BY <1>2, <1>4, <2>1, <2>5 DEF Lifecycle!GiveUp
      <3>2. S \in SUBSET (Msgs \ {msgOf[i]})
        OBVIOUS
      <3> QED BY <1>2, <3>1, <3>2 DEF Lifecycle!Next
    <2> QED BY <1>2, <2>3, <2>4, <2>5
  <1> QED BY <1>5, <1>6

LEMMA ReplacesMaps ==
  ASSUME QueueInv, QueueInv', Production, NEW i \in Ids, Replaces(i)
  PROVE  Lifecycle!Next
  <1>1. /\ NoneBut({nextId}, {}) /\ Active(i) /\ nextId \in Ids
        /\ msgOf' = [msgOf EXCEPT ![nextId] = msgOf[i]]
        /\ UNCHANGED <<handled, dropped, dlq>>
    BY DEF Replaces
  <1>2. msgOf[i] \in Published /\ \A e \in Ids : e = nextId => msgOf[e] = NoMsg
    <2>1. msgOf[i] \in Published
      BY <1>1, ActiveEntry
    <2>2. \A e \in Ids : e = nextId => msgOf[e] = NoMsg
      BY DEF QueueInv, IInv, TypeOK, Ids
    <2> QED BY <2>1, <2>2
  <1>3. /\ msgOf'[nextId] = msgOf[i]
        /\ \A j \in Ids \ {nextId} : msgOf'[j] = msgOf[j]
    BY <1>1 DEF QueueInv, IInv, TypeOK
  <1>4. \A d \in dlq : d.id \in Ids \ {nextId}
    BY <1>1 DEF QueueInv, IInv, TypeOK, Ids
  <1>5. ASSUME NEW m \in Msgs
        PROVE  /\ m \in Published' <=> m \in Published
               /\ Waiting(m)' => Waiting(m)
               /\ Dead(m)' => Dead(m)
    <2>1. m \in Published' <=> m \in Published
      BY <1>2, <1>3, QueueAssumption DEF Published
    <2>2. Waiting(m)' => Waiting(m)
      BY <1>1, <1>3, WaitingActive, WaitingNext DEF NoneBut
    <2>3. Dead(m)' => Dead(m)
      BY <1>1, <1>3, <1>4 DEF Dead, Buried
    <2> QED BY <2>1, <2>2, <2>3
  <1> QED BY <1>1, <1>5, LeaveStep, LeaveMaps

LEMMA SendsMaps ==
  ASSUME QueueInv, QueueInv', Production, NEW m \in Msgs, Sends(m)
  PROVE  Lifecycle!Next
  <1>1. /\ NoneBut({nextId}, {}) /\ m \notin Published /\ nextId \in Ids
        /\ \A e \in Ids : e = nextId => Active(e)'
        /\ msgOf' = [msgOf EXCEPT ![nextId] = m]
        /\ UNCHANGED <<handled, dropped, dlq>>
    BY DEF Sends
  <1>2. /\ msgOf'[nextId] = m
        /\ \A j \in Ids \ {nextId} : msgOf'[j] = msgOf[j] /\ msgOf[j] # m
        /\ \A e \in Ids : e = nextId => msgOf[e] = NoMsg
        /\ \A d \in dlq : d.id \in Ids \ {nextId}
    BY <1>1 DEF QueueInv, IInv, TypeOK, Ids, Published
  <1>3. m \notin handled /\ m \notin dropped
    BY <1>1 DEF QueueInv, CopyInv, SettledPublished
  <1>4. Fate(m) = "unsent" /\ Fate(m)' = "waiting"
    <2>1. m \in Published' /\ Waiting(m)'
      BY <1>1, <1>2, WaitingNext DEF Published
    <2>2. ~Dead(m)'
      BY <1>1, <1>2, <1>3 DEF Dead, Buried
    <2> QED BY <1>1, <1>3, <2>1, <2>2 DEF Fate
  <1>5. ASSUME NEW x \in Msgs, x # m
        PROVE  \/ Fate(x)' = Fate(x)
               \/ Fate(x) = "waiting" /\ Fate(x)' = "lost"
               \/ Fate(x) = "again" /\ Fate(x)' = "done"
    <2>1. x \in Published' <=> x \in Published
      BY <1>2, <1>5, QueueAssumption DEF Published
    <2>2. Waiting(x)' => Waiting(x)
      BY <1>1, <1>2, <1>5, WaitingActive, WaitingNext DEF NoneBut
    <2>3. Dead(x)' <=> Dead(x)
      BY <1>1, <1>2, QueueAssumption DEF Dead, Buried
    <2> QED BY <1>1, <2>1, <2>2, <2>3 DEF Fate
  <1> DEFINE S == {x \in Msgs \ {m} : Fate(x)' # Fate(x)}
  <1>6. Lifecycle!Send(m, S)
    BY <1>4, <1>5 DEF Lifecycle!Send, Lifecycle!Gone
  <1>7. S \in SUBSET (Msgs \ {m})
    OBVIOUS
  <1> QED BY <1>6, <1>7 DEF Lifecycle!Next

(* The queue as it is wired in production implements the life cycle of     *)
(* Delivery: whatever workers, crashes and retries there are, a message is *)
(* handed out again after it was handled only while its acknowledgement is *)
(* missing, and one that is done, given up or lost never waits again.      *)
THEOREM QueueImplementsDelivery ==
  ASSUME ~Recover, ~AsyncRetry
  PROVE  Spec => LifecycleSpec
  <1>0. Production
    BY DEF Production
  <1>1. Init => Lifecycle!Init
    <2> SUFFICES ASSUME Init PROVE \A m \in Msgs : Fate(m) = "unsent"
      BY DEF Lifecycle!Init
    <2> QED BY QueueAssumption DEF Init, Fate, Published
  <1>2. QueueInv /\ QueueInv' /\ [Next]_vars => [Lifecycle!Next]_[m \in Msgs |-> Fate(m)]
    BY <1>0, StepKinds, QuietMaps, HandlesMaps, GivesUpMaps, ReplacesMaps, SendsMaps DEF Quiet
  <1>3. Spec => Lifecycle!Spec
    BY <1>1, <1>2, SpecQueueInv, PTL DEF Spec, Lifecycle!Spec
  <1> QED BY <1>3 DEF LifecycleSpec

=============================================================================
