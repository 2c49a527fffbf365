--------------------------- MODULE DeadLetterProofs ---------------------------
(***************************************************************************)
(* DeadLetter for any operators, matches, limit and number of letters.     *)
(* That a letter is replayed once rests on its guard key, which operators, *)
(* failures and the TTL add and remove: the key is there while an operator *)
(* is between SETNX and the script (ClaimGuarded), one operator has it     *)
(* (OneClaim), and a letter that was replayed and that somebody has still  *)
(* in his batch is kept from him by its key (SentGuarded) which no one     *)
(* else may then take away (SentUnclaimed).                                *)
(***************************************************************************)
EXTENDS DeadLetter, FiniteSetTheorems, SequenceTheorems, WellFoundedInduction, TLAPS

Letter  == [s : Streams, m : DeadMatches \cup {NoMatch}]
OpSteps == {"idle", "replay", "guard", "script", "unguard", "purge", "xdel"}
Busy    == {"guard", "script", "unguard", "xdel"}

TypeOK ==
    /\ letters \in Seq(Letter) /\ Len(letters) <= MaxLetters
    /\ dead \in SUBSET (1..Len(letters))
    /\ copies \in [1..MaxLetters -> Nat]
    /\ opc \in [Operators -> OpSteps]
    /\ batch \in [Operators -> Seq(1..Len(letters))]
    /\ \A o \in Operators : opc[o] \in Busy => batch[o] # <<>>

(* What was replayed is a letter that has left its stream.                 *)
ReplayedLeft == \A i \in 1..MaxLetters : copies[i] > 0 => i \in Numbers \ dead

(* o has set the key of its letter and not yet let go of it.               *)
Claims(o) == opc[o] \in {"script", "unguard"} /\ Named(Current(o))

ClaimGuarded == \A o \in Operators : Claims(o) => KeyOf(Current(o)) \in guard

OneClaim ==
    \A o, p \in Operators :
       Claims(o) /\ Claims(p) /\ KeyOf(Current(o)) = KeyOf(Current(p)) => o = p

(* i was replayed, and the tool was told so.                               *)
Sent(i) == copies[i] > 0 /\ Named(i) /\ i \notin unsure

SentGuarded == \A o \in Operators : \A i \in ToSet(batch[o]) : Sent(i) => KeyOf(i) \in guard

SentUnclaimed ==
    \A o, p \in Operators : \A i \in ToSet(batch[o]) :
       Sent(i) /\ Claims(p) => KeyOf(i) # KeyOf(Current(p))

LetterInv ==
    /\ TypeOK /\ ReplayedLeft
    /\ ClaimGuarded /\ OneClaim /\ SentGuarded /\ SentUnclaimed
    /\ NoLetterLost /\ ReplayedOnce

-----------------------------------------------------------------------------
(* XREVRANGE has something to return: every finite set of numbers can be   *)
(* put in descending order.  By a smallest size for which it cannot.       *)
Ordered(q, n) == \A i, j \in 1..n : i < j => q[i] > q[j]
Sortable(S) == \E q \in [1..Cardinality(S) -> S] : Ordered(q, Cardinality(S))

LEMMA FirstOfNats ==
    ASSUME NEW T \in SUBSET Nat, T # {}
    PROVE  \E x \in T : \A y \in T : x <= y
  <1>1. PICK x \in T : \A y \in T : ~(<<y, x>> \in OpToRel(<, Nat))
    BY WFMin, NatLessThanWellFounded
  <1> SUFFICES ASSUME NEW y \in T, y < x
               PROVE  FALSE
    OBVIOUS
  <1>2. <<y, x>> \in Nat \X Nat
    OBVIOUS
  <1>3. <<y, x>>[1] < <<y, x>>[2]
    OBVIOUS
  <1>4. <<y, x>> \in OpToRel(<, Nat)
    BY <1>2, <1>3, Zenon DEF OpToRel
  <1> QED
    BY <1>1, <1>4

LEMMA AllSortable ==
    ASSUME NEW S \in SUBSET Nat, IsFiniteSet(S)
    PROVE  Sortable(S)
  <1> DEFINE Fails(T) == IsFiniteSet(T) /\ ~Sortable(T)
             Sizes == {n \in Nat : \E T \in SUBSET Nat : Fails(T) /\ Cardinality(T) = n}
  <1> SUFFICES ASSUME Sizes # {}
               PROVE  FALSE
    BY FS_CardinalityType
  <1>1. PICK n \in Sizes : \A k \in Sizes : n <= k
    BY FirstOfNats
  <1>2. PICK T \in SUBSET Nat : Fails(T) /\ Cardinality(T) = n
    BY <1>1
  <1>3. n \in Nat
    BY <1>1
  <1>4. n # 0
    <2> SUFFICES ASSUME n = 0
                 PROVE  FALSE
      OBVIOUS
    <2>1. Ordered([i \in 1..0 |-> 0], 0)
      BY DEF Ordered
    <2>2. [i \in 1..0 |-> 0] \in [1..0 -> T]
      OBVIOUS
    <2> QED
      BY <1>2, <2>1, <2>2 DEF Sortable
  <1>5. T # {}
    BY <1>2, <1>4, FS_EmptySet
  <1>6. PICK x \in T : \A y \in T : x <= y
    BY <1>5, FirstOfNats
  <1>7. IsFiniteSet(T \ {x}) /\ Cardinality(T \ {x}) = n - 1
    BY <1>2, <1>6, FS_RemoveElement
  <1>8. n - 1 \in Nat /\ n - 1 \notin Sizes
    BY <1>1, <1>3, <1>4
  <1>9. Sortable(T \ {x})
    BY <1>7, <1>8
  <1>10. PICK q \in [1..(n - 1) -> T \ {x}] : Ordered(q, n - 1)
    BY <1>7, <1>9 DEF Sortable
  <1> DEFINE r == [i \in 1..n |-> IF i = n THEN x ELSE q[i]]
  <1>11. \A i \in 1..n : i # n => i \in 1..(n - 1) /\ q[i] \in T /\ q[i] > x
    <2> SUFFICES ASSUME NEW i \in 1..n, i # n
                 PROVE  i \in 1..(n - 1) /\ q[i] \in T /\ q[i] > x
      OBVIOUS
    <2>1. i \in 1..(n - 1)
      BY <1>3
    <2>2. q[i] \in T /\ q[i] # x /\ x <= q[i]
      BY <1>6, <1>10, <2>1
    <2>3. q[i] \in Nat /\ x \in Nat
      BY <2>2
    <2> QED
      BY <2>1, <2>2, <2>3
  <1>12. r \in [1..n -> T]
    BY <1>11
  <1>13. Ordered(r, n)
    <2> SUFFICES ASSUME NEW i \in 1..n, NEW j \in 1..n, i < j
                 PROVE  r[i] > r[j]
      BY DEF Ordered
    <2>1. i # n
      BY <1>3
    <2>2. CASE j = n
      BY <1>11, <2>1, <2>2
    <2>3. CASE j # n
      BY <1>10, <1>11, <2>1, <2>3 DEF Ordered
    <2> QED
      BY <2>2, <2>3
  <1> QED
    BY <1>2, <1>12, <1>13 DEF Sortable

(* XREVRANGE returns letters that are in the stream, in a sequence.        *)
LEMMA ReadsDead ==
    ASSUME LetterConstants, TypeOK, NEW s
    PROVE  XRevRange(s) \in Seq(dead)
  <1> DEFINE S == Newest({i \in dead : letters[i].s = s})
             n == Cardinality(S)
  <1>1. S \subseteq dead /\ dead \subseteq 1..Len(letters) /\ Len(letters) \in Nat
    BY DEF Newest, TypeOK
  <1> HIDE DEF S
  <1>2. IsFiniteSet(S)
    <2>1. IsFiniteSet(1..Len(letters))
      BY <1>1, FS_Interval
    <2>2. S \in SUBSET (1..Len(letters))
      BY <1>1
    <2> QED
      BY <2>1, <2>2, FS_Subset
  <1>3. S \in SUBSET Nat
    BY <1>1
  <1>4. n \in Nat
    BY <1>2, FS_CardinalityType
  <1>5. XRevRange(s) = CHOOSE q \in [1..n -> S] : Ordered(q, n)
    BY DEF XRevRange, Descending, Ordered, S
  <1>6. \E q \in [1..n -> S] : Ordered(q, n)
    BY <1>2, <1>3, AllSortable DEF Sortable
  <1> HIDE DEF n
  <1>7. XRevRange(s) \in [1..n -> S]
    BY <1>5, <1>6
  <1>8. XRevRange(s) \in [1..n -> dead]
    BY <1>1, <1>7
  <1> QED
    BY <1>4, <1>8, SeqDef

-----------------------------------------------------------------------------
LEMMA SubsequenceTyped ==
    ASSUME NEW S, NEW q \in Seq(S)
    PROVE  /\ ToSet(q) \subseteq S
           /\ q # <<>> => /\ Head(q) \in ToSet(q) /\ Head(q) \in S
                          /\ Tail(q) \in Seq(S) /\ ToSet(Tail(q)) \subseteq ToSet(q)
                          /\ Len(q) > 1 => Tail(q) # <<>>
  <1>1. \A i \in DOMAIN q : q[i] \in S
    OBVIOUS
  <1>2. ToSet(q) \subseteq S
    BY <1>1 DEF ToSet
  <1>3. ASSUME q # <<>>
        PROVE  /\ Head(q) \in ToSet(q)
               /\ Tail(q) \in Seq(S) /\ ToSet(Tail(q)) \subseteq ToSet(q)
               /\ Len(q) > 1 => Tail(q) # <<>>
    <2>1. Len(q) \in Nat /\ Len(q) >= 1 /\ DOMAIN q = 1..Len(q) /\ Head(q) = q[1]
      BY <1>3
    <2>2. /\ Tail(q) \in Seq(S) /\ Len(Tail(q)) = Len(q) - 1
          /\ DOMAIN Tail(q) = 1..(Len(q) - 1)
          /\ \A i \in 1..(Len(q) - 1) : Tail(q)[i] = q[i + 1]
      BY <1>3, <2>1
    <2>3. \A i \in 1..(Len(q) - 1) : i + 1 \in 1..Len(q)
      BY <2>1
    <2> QED
      BY <2>1, <2>2, <2>3 DEF ToSet
  <1> QED
    BY <1>2, <1>3

(* What an operator has read are letters.                                  *)
LEMMA BatchTyped ==
    ASSUME TypeOK, NEW o \in Operators
    PROVE  /\ ToSet(batch[o]) \subseteq 1..Len(letters)
           /\ opc[o] \in Busy =>
                 /\ Current(o) \in ToSet(batch[o]) /\ Current(o) \in 1..Len(letters)
                 /\ Tail(batch[o]) \in Seq(1..Len(letters))
                 /\ ToSet(Tail(batch[o])) \subseteq ToSet(batch[o])
                 /\ Len(batch[o]) > 1 => Tail(batch[o]) # <<>>
  BY SubsequenceTyped DEF TypeOK, Current

LEMMA NumbersAre ==
    ASSUME LetterConstants, TypeOK
    PROVE  /\ Numbers = 1..Len(letters) /\ Len(letters) \in Nat
           /\ Numbers \subseteq 1..MaxLetters
           /\ \A i \in Numbers : copies[i] \in Nat /\ letters[i] \in Letter
  <1>1. Numbers = 1..Len(letters) /\ Len(letters) \in Nat
    BY DEF TypeOK, Numbers
  <1>2. Numbers \subseteq 1..MaxLetters
    BY <1>1 DEF TypeOK, LetterConstants
  <1> QED
    BY <1>1, <1>2 DEF TypeOK

(* Only o moves, and keeps its types.                                      *)
Moves(o) ==
    /\ opc' \in [Operators -> OpSteps]
    /\ batch' \in [Operators -> Seq(1..Len(letters))]
    /\ opc'[o] \in Busy => batch'[o] # <<>>
    /\ \A p \in Operators \ {o} : opc'[p] = opc[p] /\ batch'[p] = batch[p]

LEMMA NextLetterMoves ==
    ASSUME TypeOK, NEW o \in Operators, opc[o] \in Busy, NextLetter(o)
    PROVE  Moves(o) /\ ToSet(batch'[o]) \subseteq ToSet(batch[o]) /\ ~Claims(o)'
  <1>1. batch' = [batch EXCEPT ![o] = Tail(batch[o])]
    BY DEF NextLetter
  <1>2. opc' = [opc EXCEPT ![o] = IF Len(batch[o]) > 1 THEN "guard"
                                  ELSE IF todo[o] # <<>> THEN "replay" ELSE "idle"]
    BY DEF NextLetter
  <1>3. batch'[o] = Tail(batch[o]) /\ batch' \in [Operators -> Seq(1..Len(letters))]
    BY <1>1, BatchTyped DEF TypeOK
  <1>4. opc' \in [Operators -> OpSteps] /\ opc'[o] \in {"guard", "replay", "idle"}
    BY <1>2 DEF TypeOK, OpSteps
  <1>5. opc'[o] \in Busy => batch'[o] # <<>>
    BY <1>2, <1>3, BatchTyped DEF TypeOK, Busy
  <1> QED
    BY <1>1, <1>2, <1>3, <1>4, <1>5, BatchTyped DEF Moves, Claims, TypeOK

LEMMA MovesTyped ==
    ASSUME TypeOK, NEW o \in Operators, Moves(o), UNCHANGED letters, dead' \subseteq dead,
           copies' \in [1..MaxLetters -> Nat]
    PROVE  TypeOK'
  BY DEF TypeOK, Moves

(* Operators that do not move claim what they claimed.                     *)
LEMMA ClaimFrame ==
    ASSUME UNCHANGED letters, NEW p, opc'[p] = opc[p], batch'[p] = batch[p]
    PROVE  /\ Claims(p)' <=> Claims(p)
           /\ Current(p)' = Current(p) /\ KeyOf(Current(p))' = KeyOf(Current(p))
  BY DEF Claims, Current, KeyOf, Named

KeysRight == ClaimGuarded /\ OneClaim /\ SentGuarded /\ SentUnclaimed

(* A step after which o claims nothing and has nothing new in its batch    *)
(* but letters of the stream, in which no key goes and no letter becomes   *)
(* sent.                                                                   *)
LEMMA QuietKeys ==
    ASSUME LetterConstants, TypeOK, ReplayedLeft, KeysRight,
           NEW o \in Operators, Moves(o), UNCHANGED letters,
           ~Claims(o)', ToSet(batch'[o]) \subseteq ToSet(batch[o]) \cup dead,
           guard \subseteq guard', \A i \in Numbers : Sent(i)' => Sent(i)
    PROVE  KeysRight'
  <1>1. ASSUME NEW p \in Operators, Claims(p)'
        PROVE  /\ p # o /\ Claims(p)
               /\ Current(p)' = Current(p) /\ KeyOf(Current(p))' = KeyOf(Current(p))
    <2>1. p # o
      BY <1>1
    <2>2. opc'[p] = opc[p] /\ batch'[p] = batch[p]
      BY <2>1 DEF Moves
    <2> QED
      BY <1>1, <2>1, <2>2, ClaimFrame
  <1>2. ASSUME NEW p \in Operators, NEW i \in ToSet(batch'[p]), Sent(i)'
        PROVE  i \in ToSet(batch[p]) /\ Sent(i) /\ KeyOf(i)' = KeyOf(i)
    <2>1. i \in ToSet(batch[p]) \cup dead
      BY <1>2 DEF Moves
    <2>2. i \in Numbers
      BY <2>1, BatchTyped, NumbersAre DEF TypeOK
    <2>3. Sent(i)
      BY <1>2, <2>2
    <2>4. i \notin dead
      BY <2>2, <2>3, NumbersAre DEF Sent, ReplayedLeft
    <2> QED
      BY <2>1, <2>3, <2>4 DEF KeyOf
  <1>3. ClaimGuarded'
    BY <1>1 DEF KeysRight, ClaimGuarded
  <1>4. OneClaim'
    BY <1>1 DEF KeysRight, OneClaim
  <1>5. SentGuarded'
    BY <1>2 DEF KeysRight, SentGuarded
  <1>6. SentUnclaimed'
    <2> SUFFICES ASSUME NEW p \in Operators, NEW q \in Operators, NEW i \in ToSet(batch'[p]),
                        Sent(i)', Claims(q)'
                 PROVE  KeyOf(i)' # KeyOf(Current(q))'
      BY DEF SentUnclaimed
    <2>1. i \in ToSet(batch[p]) /\ Sent(i) /\ KeyOf(i)' = KeyOf(i)
      BY <1>2
    <2>2. Claims(q) /\ KeyOf(Current(q))' = KeyOf(Current(q))
      BY <1>1
    <2> QED
      BY <2>1, <2>2 DEF KeysRight, SentUnclaimed
  <1> QED
    BY <1>3, <1>4, <1>5, <1>6 DEF KeysRight

Counts == ReplayedLeft /\ NoLetterLost /\ ReplayedOnce

LEMMA CountsKept ==
    ASSUME Counts, UNCHANGED <<letters, dead, copies, purged, unsure>>
    PROVE  Counts' /\ \A i \in Numbers : Sent(i)' => Sent(i)
  BY DEF Counts, ReplayedLeft, NoLetterLost, ReplayedOnce, Numbers, Named, Sent

LEMMA InvSplit == LetterInv <=> TypeOK /\ KeysRight /\ Counts
  BY DEF LetterInv, KeysRight, Counts

(* The steps that change neither letters nor their counts, and claim       *)
(* nothing.                                                                *)
LEMMA QuietStep ==
    ASSUME LetterConstants, LetterInv, NEW o \in Operators, Moves(o),
           UNCHANGED <<letters, dead, copies, purged, unsure>>,
           ~Claims(o)', ToSet(batch'[o]) \subseteq ToSet(batch[o]) \cup dead,
           guard \subseteq guard'
    PROVE  LetterInv'
  <1>1. TypeOK /\ KeysRight /\ Counts /\ ReplayedLeft
    BY InvSplit DEF Counts
  <1>2. Counts' /\ \A i \in Numbers : Sent(i)' => Sent(i)
    BY <1>1, CountsKept
  <1>3. TypeOK'
    BY <1>1, MovesTyped DEF TypeOK
  <1>4. KeysRight'
    BY <1>1, <1>2, QuietKeys
  <1> QED
    BY <1>2, <1>3, <1>4, InvSplit DEF LetterInv, KeysRight, Counts

LEMMA ReadStep ==
    ASSUME LetterConstants, LetterInv, NEW o \in Operators, NEW loop, NEW work,
           ReadStream(o, loop, work),
           <<loop, work>> \in {<<"replay", "guard">>, <<"purge", "xdel">>}
    PROVE  LetterInv'
  <1>1. TypeOK
    BY DEF LetterInv
  <1>2. PICK l : batch' = [batch EXCEPT ![o] = XRevRange(Head(l))]
    BY DEF ReadStream
  <1>3. XRevRange(Head(l)) \in Seq(dead)
    BY <1>1, ReadsDead
  <1>4. XRevRange(Head(l)) \in Seq(1..Len(letters))
    BY <1>1, <1>3, SeqMonotonic DEF TypeOK
  <1>5. batch' \in [Operators -> Seq(1..Len(letters))] /\ batch'[o] = XRevRange(Head(l))
    BY <1>1, <1>2, <1>4 DEF TypeOK
  <1>6. /\ opc' = [opc EXCEPT ![o] = IF batch'[o] # <<>> THEN work
                                     ELSE IF todo'[o] # <<>> THEN loop ELSE "idle"]
        /\ UNCHANGED <<letters, keys, opFaults>>
    BY DEF ReadStream
  <1>7. loop \in {"replay", "purge"} /\ work \in {"guard", "xdel"}
    OBVIOUS
  <1>8. Moves(o) /\ ~Claims(o)'
    BY <1>1, <1>2, <1>5, <1>6, <1>7 DEF Moves, Claims, TypeOK, OpSteps, Busy
  <1>9. ToSet(batch'[o]) \subseteq dead
    BY <1>3, <1>5, SubsequenceTyped
  <1> QED
    BY <1>6, <1>8, <1>9, QuietStep DEF keys

(* SETNX: whoever gets a key is alone with it, and no letter it stands for *)
(* was sent and is in a batch, else the key would have been there.         *)
LEMMA ClaimStep ==
    ASSUME LetterConstants, LetterInv, NEW o \in Operators, opc[o] = "guard",
           Named(Current(o)), KeyOf(Current(o)) \notin guard,
           guard' = guard \cup {KeyOf(Current(o))}, opc' = [opc EXCEPT ![o] = "script"],
           UNCHANGED <<letters, dead, copies, purged, unsure, batch>>
    PROVE  LetterInv'
  <1>1. TypeOK /\ KeysRight /\ Counts
    BY InvSplit
  <1>2. Counts' /\ \A i \in Numbers : Sent(i)' => Sent(i)
    BY <1>1, CountsKept
  <1>3. Moves(o)
    BY <1>1 DEF Moves, TypeOK, OpSteps, Busy
  <1>4. TypeOK'
    BY <1>1, <1>3, MovesTyped DEF TypeOK
  <1>5. ASSUME NEW p \in Operators
        PROVE  /\ Current(p)' = Current(p) /\ KeyOf(Current(p))' = KeyOf(Current(p))
               /\ Claims(p)' => p = o \/ Claims(p)
    BY <1>1 DEF Current, KeyOf, Claims, Named, TypeOK
  <1>6. ASSUME NEW p \in Operators, Claims(p)
        PROVE  KeyOf(Current(p)) # KeyOf(Current(o))
    BY <1>1, <1>6 DEF KeysRight, ClaimGuarded
  <1>7. ASSUME NEW p \in Operators, NEW i \in ToSet(batch[p]), Sent(i)'
        PROVE  /\ KeyOf(i)' = KeyOf(i) /\ KeyOf(i) \in guard /\ Sent(i)
    <2>1. Sent(i)
      BY <1>7 DEF Sent, Named
    <2> QED
      BY <1>1, <2>1 DEF KeyOf, KeysRight, SentGuarded
  <1>8. ClaimGuarded'
    BY <1>1, <1>5 DEF KeysRight, ClaimGuarded
  <1>9. OneClaim'
    BY <1>1, <1>5, <1>6 DEF KeysRight, OneClaim
  <1>10. SentGuarded'
    BY <1>7 DEF SentGuarded
  <1>11. SentUnclaimed'
    BY <1>1, <1>5, <1>7 DEF KeysRight, SentUnclaimed
  <1> QED
    BY <1>2, <1>4, <1>8, <1>9, <1>10, <1>11, InvSplit DEF LetterInv, Counts

LEMMA GuardSteps ==
    ASSUME LetterConstants, LetterInv, NEW o \in Operators, GuardStep(o) \/ GuardFails(o)
    PROVE  LetterInv'
  <1>1. TypeOK /\ opc[o] = "guard" /\ opc[o] \in Busy
        /\ UNCHANGED <<letters, dead, copies, purged, unsure>>
    BY DEF LetterInv, GuardStep, GuardFails, Busy
  <1>2. CASE NextLetter(o) /\ guard \subseteq guard'
    BY <1>1, <1>2, NextLetterMoves, QuietStep
  <1>3. CASE /\ Named(Current(o)) /\ KeyOf(Current(o)) \notin guard
             /\ guard' = guard \cup {KeyOf(Current(o))}
             /\ opc' = [opc EXCEPT ![o] = "script"] /\ UNCHANGED batch
    BY <1>1, <1>3, ClaimStep
  <1>4. CASE ~Named(Current(o)) /\ opc' = [opc EXCEPT ![o] = "script"] /\ UNCHANGED <<guard, batch>>
    <2>1. Moves(o)
      BY <1>1, <1>4 DEF Moves, TypeOK, OpSteps, Busy
    <2>2. ~Claims(o)'
      BY <1>1, <1>4 DEF Claims, Named, Current
    <2> QED
      BY <1>1, <1>4, <2>1, <2>2, QuietStep
  <1> QED
    BY <1>2, <1>3, <1>4 DEF GuardStep, SetNX, GuardFails

(* luaReplayAtomic on a letter: it has left the stream, and a claimed one  *)
(* that was not sent is sent once.                                         *)
LEMMA LuaCounts ==
    ASSUME LetterConstants, TypeOK, Counts, NEW i \in Numbers, LuaReplay(i),
           UNCHANGED <<letters, purged>>, unsure \subseteq unsure',
           Named(i) /\ i \notin unsure' => copies[i] = 0
    PROVE  /\ Counts' /\ dead' \subseteq dead /\ copies' \in [1..MaxLetters -> Nat]
           /\ \A j \in Numbers : j # i => (Sent(j)' => Sent(j))
  <1>1. i \in 1..MaxLetters /\ i \in 1..Len(letters) /\ copies[i] \in Nat
    BY NumbersAre
  <1>2. /\ copies' \in [1..MaxLetters -> Nat] /\ copies'[i] = copies[i] + 1
        /\ \A j \in 1..MaxLetters : j # i => copies'[j] = copies[j]
        /\ dead' = dead \ {i}
    BY <1>1 DEF LuaReplay, TypeOK
  <1>3. Numbers' = Numbers /\ \A j : Named(j)' <=> Named(j)
    BY DEF Numbers, Named
  <1>4. ReplayedLeft'
    BY <1>2, <1>3 DEF Counts, ReplayedLeft
  <1>5. NoLetterLost'
    BY <1>1, <1>2, <1>3, NumbersAre DEF Counts, NoLetterLost
  <1>6. ReplayedOnce'
    <2> SUFFICES ASSUME NEW j \in Numbers, Named(j), j \notin unsure'
                 PROVE  copies'[j] <= 1
      BY <1>3 DEF ReplayedOnce
    <2>1. CASE j = i
      BY <1>1, <1>2, <2>1
    <2>2. CASE j # i
      BY <1>2, <2>2, NumbersAre DEF Counts, ReplayedOnce
    <2> QED
      BY <2>1, <2>2
  <1>7. \A j \in Numbers : j # i => (Sent(j)' => Sent(j))
    BY <1>2, <1>3, NumbersAre DEF Sent
  <1> QED
    BY <1>2, <1>4, <1>5, <1>6, <1>7 DEF Counts

(* The script after a claim: the letter was not sent before.               *)
LEMMA UnsentBefore ==
    ASSUME LetterConstants, LetterInv, NEW o \in Operators, opc[o] = "script"
    PROVE  /\ Current(o) \in Numbers /\ opc[o] \in Busy
           /\ Named(Current(o)) /\ Current(o) \notin unsure => copies[Current(o)] = 0
  <1>1. TypeOK /\ opc[o] \in Busy
    BY DEF LetterInv, Busy
  <1>2. Current(o) \in Numbers /\ Current(o) \in ToSet(batch[o]) /\ copies[Current(o)] \in Nat
    BY <1>1, BatchTyped, NumbersAre
  <1>3. Named(Current(o)) => ~Sent(Current(o))
    BY <1>2 DEF LetterInv, SentUnclaimed, Claims
  <1> QED
    BY <1>1, <1>2, <1>3 DEF Sent

LEMMA ReplayStep ==
    ASSUME LetterConstants, LetterInv, NEW o \in Operators, Replay(o)
    PROVE  LetterInv'
  <1>1. /\ TypeOK /\ KeysRight /\ Counts /\ opc[o] = "script" /\ NextLetter(o)
        /\ UNCHANGED <<letters, purged, guard, unsure>>
    BY InvSplit DEF Replay
  <1> DEFINE x == Current(o)
  <1>2. /\ x \in Numbers /\ opc[o] \in Busy
        /\ Named(x) /\ x \notin unsure => copies[x] = 0
    BY <1>1, UnsentBefore
  <1>3. PICK i \in Numbers : i = x
    BY <1>2
  <1>4. LuaReplay(i) /\ (Named(i) /\ i \notin unsure' => copies[i] = 0)
    BY <1>1, <1>2, <1>3 DEF Replay
  <1>5. /\ Counts' /\ dead' \subseteq dead /\ copies' \in [1..MaxLetters -> Nat]
        /\ \A j \in Numbers : j # i => (Sent(j)' => Sent(j))
    BY <1>1, <1>4, LuaCounts
  <1>6. Moves(o) /\ ToSet(batch'[o]) \subseteq ToSet(batch[o]) /\ ~Claims(o)'
    BY <1>1, <1>2, NextLetterMoves
  <1>7. TypeOK'
    BY <1>1, <1>5, <1>6, MovesTyped
  <1> HIDE DEF x
  <1>8. ASSUME NEW p \in Operators, Claims(p)'
        PROVE  p # o /\ Claims(p) /\ KeyOf(Current(p))' = KeyOf(Current(p))
    BY <1>1, <1>6, <1>8, ClaimFrame DEF Moves
  <1>9. ASSUME NEW p \in Operators, NEW j \in ToSet(batch'[p]), Sent(j)'
        PROVE  /\ j \in ToSet(batch[p]) /\ KeyOf(j)' = KeyOf(j)
               /\ Sent(j) \/ (j = x /\ Named(x))
    <2>1. j \in ToSet(batch[p])
      BY <1>6 DEF Moves
    <2>2. j \in Numbers
      BY <1>1, <2>1, BatchTyped, NumbersAre
    <2>3. Named(j)
      BY <1>1, <1>9 DEF Sent, Named
    <2> QED
      BY <1>1, <1>3, <1>5, <1>9, <2>1, <2>2, <2>3 DEF KeyOf
  <1>10. Named(x) => Claims(o) /\ KeyOf(x) \in guard
    BY <1>1 DEF KeysRight, ClaimGuarded, Claims, x
  <1>11. ClaimGuarded'
    BY <1>1, <1>8 DEF KeysRight, ClaimGuarded
  <1>12. OneClaim'
    BY <1>1, <1>8 DEF KeysRight, OneClaim
  <1>13. SentGuarded'
    BY <1>1, <1>9, <1>10 DEF KeysRight, SentGuarded
  <1>14. SentUnclaimed'
    <2> SUFFICES ASSUME NEW p \in Operators, NEW q \in Operators, NEW j \in ToSet(batch'[p]),
                        Sent(j)', Claims(q)'
                 PROVE  KeyOf(j)' # KeyOf(Current(q))'
      BY DEF SentUnclaimed
    <2>1. q # o /\ Claims(q) /\ KeyOf(Current(q))' = KeyOf(Current(q))
      BY <1>8
    <2>2. CASE Sent(j)
      BY <1>1, <1>9, <2>1, <2>2 DEF KeysRight, SentUnclaimed
    <2>3. CASE j = x /\ Named(x)
      BY <1>1, <1>9, <1>10, <2>1, <2>3 DEF KeysRight, OneClaim, x
    <2> QED
      BY <1>9, <2>2, <2>3
  <1> QED
    BY <1>5, <1>7, <1>11, <1>12, <1>13, <1>14, InvSplit DEF LetterInv, Counts

(* A script that fails, or whose reply is lost: the claim is still held.   *)
LEMMA ReplayFailsStep ==
    ASSUME LetterConstants, LetterInv, NEW o \in Operators, ReplayFails(o)
    PROVE  LetterInv'
  <1>1. /\ TypeOK /\ KeysRight /\ Counts /\ ReplayedLeft /\ opc[o] = "script"
        /\ UNCHANGED <<letters, purged, guard>>
    BY InvSplit DEF ReplayFails, Counts
  <1>2. /\ Current(o) \in Numbers /\ opc[o] \in Busy
        /\ Named(Current(o)) /\ Current(o) \notin unsure => copies[Current(o)] = 0
    BY <1>1, UnsentBefore
  <1>3. PICK i \in Numbers : i = Current(o)
    BY <1>2
  <1>4. /\ Counts' /\ dead' \subseteq dead /\ copies' \in [1..MaxLetters -> Nat]
        /\ \A j \in Numbers : Sent(j)' => Sent(j)
    <2>1. CASE UNCHANGED <<dead, copies, unsure>>
      BY <1>1, <2>1, CountsKept DEF TypeOK
    <2>2. CASE LuaReplay(i) /\ unsure' = unsure \cup {i}
      <3>1. /\ Counts' /\ dead' \subseteq dead /\ copies' \in [1..MaxLetters -> Nat]
            /\ \A j \in Numbers : j # i => (Sent(j)' => Sent(j))
        BY <1>1, <2>2, LuaCounts
      <3>2. ~Sent(i)'
        BY <2>2 DEF Sent
      <3> QED
        BY <3>1, <3>2
    <2> QED
      BY <1>3, <2>1, <2>2 DEF ReplayFails
  <1>5. CASE NextLetter(o)
    <2>1. Moves(o) /\ ToSet(batch'[o]) \subseteq ToSet(batch[o]) /\ ~Claims(o)'
      BY <1>1, <1>2, <1>5, NextLetterMoves
    <2>2. TypeOK'
      BY <1>1, <1>4, <2>1, MovesTyped
    <2>3. KeysRight'
      BY <1>1, <1>4, <2>1, QuietKeys
    <2> QED
      BY <1>4, <2>2, <2>3, InvSplit DEF LetterInv, KeysRight, Counts
  <1>6. CASE opc' = [opc EXCEPT ![o] = "unguard"] /\ UNCHANGED batch
    <2>1. Moves(o)
      BY <1>1, <1>2, <1>6 DEF Moves, TypeOK, OpSteps
    <2>2. TypeOK'
      BY <1>1, <1>4, <2>1, MovesTyped
    <2>3. ASSUME NEW p \in Operators
          PROVE  (Claims(p)' => Claims(p)) /\ KeyOf(Current(p))' = KeyOf(Current(p))
      BY <1>1, <1>6 DEF Claims, Current, KeyOf, Named, TypeOK
    <2>4. ASSUME NEW p \in Operators, NEW j \in ToSet(batch[p]), Sent(j)'
          PROVE  Sent(j) /\ KeyOf(j)' = KeyOf(j)
      BY <1>1, <1>4, <2>4, BatchTyped, NumbersAre DEF KeyOf
    <2>5. ClaimGuarded'
      BY <1>1, <2>3 DEF KeysRight, ClaimGuarded
    <2>6. OneClaim'
      BY <1>1, <2>3 DEF KeysRight, OneClaim
    <2>7. SentGuarded'
      BY <1>1, <1>6, <2>4 DEF KeysRight, SentGuarded
    <2>8. SentUnclaimed'
      BY <1>1, <1>6, <2>3, <2>4 DEF KeysRight, SentUnclaimed
    <2> QED
      BY <1>4, <2>2, <2>5, <2>6, <2>7, <2>8, InvSplit DEF LetterInv, Counts
  <1> QED
    BY <1>5, <1>6 DEF ReplayFails

(* A key that goes, by its owner or by its TTL, is one that nobody else    *)
(* claims and that no letter in a batch needs.                             *)
LEMMA UnguardStep ==
    ASSUME LetterConstants, LetterInv, NEW o \in Operators, Unguard(o)
    PROVE  LetterInv'
  <1>1. /\ TypeOK /\ KeysRight /\ Counts /\ opc[o] = "unguard" /\ NextLetter(o)
        /\ UNCHANGED <<letters, dead, copies, purged, unsure>>
        /\ guard' = guard \ {KeyOf(Current(o))}
    BY InvSplit DEF Unguard
  <1>2. Moves(o) /\ ToSet(batch'[o]) \subseteq ToSet(batch[o]) /\ ~Claims(o)'
    BY <1>1, NextLetterMoves DEF Busy
  <1>3. TypeOK'
    BY <1>1, <1>2, MovesTyped DEF TypeOK
  <1>4. Counts'
    BY <1>1, CountsKept
  <1>5. ASSUME NEW p \in Operators, Claims(p)'
        PROVE  p # o /\ Claims(p) /\ KeyOf(Current(p))' = KeyOf(Current(p))
    BY <1>1, <1>2, <1>5, ClaimFrame DEF Moves
  <1>6. ASSUME NEW p \in Operators, NEW j \in ToSet(batch'[p]), Sent(j)'
        PROVE  j \in ToSet(batch[p]) /\ Sent(j) /\ KeyOf(j)' = KeyOf(j)
    BY <1>1, <1>2, <1>6 DEF Moves, Sent, Named, KeyOf
  <1>7. CASE Claims(o)
    <2>1. ClaimGuarded'
      BY <1>1, <1>5, <1>7 DEF KeysRight, ClaimGuarded, OneClaim
    <2>2. OneClaim'
      BY <1>1, <1>5 DEF KeysRight, OneClaim
    <2>3. SentGuarded'
      BY <1>1, <1>6, <1>7 DEF KeysRight, SentGuarded, SentUnclaimed
    <2>4. SentUnclaimed'
      BY <1>1, <1>5, <1>6 DEF KeysRight, SentUnclaimed
    <2> QED
      BY <1>3, <1>4, <2>1, <2>2, <2>3, <2>4 DEF LetterInv, Counts
  <1>8. CASE ~Claims(o)
    <2>1. ~Named(Current(o))
      BY <1>1, <1>8 DEF Claims
    <2>2. \A i : Named(i) => KeyOf(i) # KeyOf(Current(o))
      BY <2>1 DEF Named, KeyOf
    <2>3. ClaimGuarded'
      BY <1>1, <1>5, <2>2 DEF KeysRight, ClaimGuarded, Claims
    <2>4. OneClaim'
      BY <1>1, <1>5 DEF KeysRight, OneClaim
    <2>5. SentGuarded'
      BY <1>1, <1>6, <2>2 DEF KeysRight, SentGuarded, Sent
    <2>6. SentUnclaimed'
      BY <1>1, <1>5, <1>6 DEF KeysRight, SentUnclaimed
    <2> QED
      BY <1>3, <1>4, <2>3, <2>4, <2>5, <2>6 DEF LetterInv, Counts
  <1> QED
    BY <1>7, <1>8

LEMMA ExpireStep ==
    ASSUME LetterConstants, LetterInv, NEW k, GuardExpire(k)
    PROVE  LetterInv'
  <1>1. /\ TypeOK /\ KeysRight /\ Counts /\ guard' = guard \ {k}
        /\ UNCHANGED <<letters, dead, copies, purged, unsure, opc, batch>>
    BY InvSplit DEF GuardExpire
  <1>2. ASSUME NEW p \in Operators
        PROVE  (Claims(p)' <=> Claims(p)) /\ KeyOf(Current(p))' = KeyOf(Current(p))
    BY <1>1, ClaimFrame
  <1>3. \A i : (Sent(i)' <=> Sent(i)) /\ KeyOf(i)' = KeyOf(i)
    BY <1>1 DEF Sent, Named, KeyOf
  <1>4. ASSUME NEW p \in Operators, Claims(p)
        PROVE  KeyOf(Current(p)) # k
    <2>1. opc[p] \in Busy /\ opc[p] \in {"script", "unguard"}
      BY <1>4 DEF Claims, Busy
    <2>2. Current(p) \in ToSet(batch[p])
      BY <1>1, <2>1, BatchTyped
    <2> QED
      BY <2>1, <2>2 DEF GuardExpire
  <1>5. ASSUME NEW p \in Operators, NEW i \in ToSet(batch[p]), Sent(i)
        PROVE  KeyOf(i) # k
    <2>1. i \in Numbers /\ i \in 1..MaxLetters
      BY <1>1, BatchTyped, NumbersAre
    <2>2. i \notin dead
      BY <1>1, <1>5, <2>1 DEF Counts, ReplayedLeft, Sent
    <2> QED
      BY <2>2 DEF GuardExpire
  <1>6. ClaimGuarded'
    BY <1>1, <1>2, <1>4 DEF KeysRight, ClaimGuarded
  <1>7. OneClaim'
    BY <1>1, <1>2 DEF KeysRight, OneClaim
  <1>8. SentGuarded'
    BY <1>1, <1>3, <1>5 DEF KeysRight, SentGuarded
  <1>9. SentUnclaimed'
    BY <1>1, <1>2, <1>3 DEF KeysRight, SentUnclaimed
  <1>10. TypeOK'
    BY <1>1 DEF TypeOK
  <1>11. Counts'
    BY <1>1, CountsKept
  <1> QED
    BY <1>6, <1>7, <1>8, <1>9, <1>10, <1>11 DEF LetterInv, Counts

LEMMA EmptyBatchMoves ==
    ASSUME TypeOK, NEW o \in Operators, NEW st \in {"idle", "purge"},
           batch' = [batch EXCEPT ![o] = <<>>], opc' = [opc EXCEPT ![o] = st]
    PROVE  Moves(o) /\ ToSet(batch'[o]) \subseteq ToSet(batch[o]) /\ ~Claims(o)'
  <1>1. Moves(o) /\ ~Claims(o)'
    BY DEF Moves, Claims, TypeOK, OpSteps, Busy
  <1>2. batch'[o] = <<>> /\ ToSet(<<>>) = {}
    BY DEF TypeOK, ToSet
  <1> QED
    BY <1>1, <1>2

(* Purge: what leaves the stream is recorded as purged.                    *)
LEMMA PurgeStep ==
    ASSUME LetterConstants, LetterInv, NEW o \in Operators, Purge(o)
    PROVE  LetterInv'
  <1>1. /\ TypeOK /\ KeysRight /\ Counts /\ ReplayedLeft
        /\ UNCHANGED <<letters, copies, guard, unsure>>
        /\ purged' = purged \cup (ToSet(batch[o]) \cap dead) /\ dead' = dead \ ToSet(batch[o])
        /\ \E st \in {"idle", "purge"} : opc' = [opc EXCEPT ![o] = st]
        /\ batch' = [batch EXCEPT ![o] = <<>>]
    BY InvSplit DEF Purge, Counts
  <1>2. Moves(o) /\ ToSet(batch'[o]) \subseteq ToSet(batch[o]) /\ ~Claims(o)'
    BY <1>1, EmptyBatchMoves
  <1>3. TypeOK'
    BY <1>1, <1>2, MovesTyped DEF TypeOK
  <1>4. Counts'
    BY <1>1 DEF Counts, ReplayedLeft, NoLetterLost, ReplayedOnce, Numbers, Named
  <1>5. \A i \in Numbers : Sent(i)' => Sent(i)
    BY <1>1 DEF Sent, Named
  <1>6. KeysRight'
    BY <1>1, <1>2, <1>5, QuietKeys
  <1> QED
    BY <1>3, <1>4, <1>6 DEF LetterInv, KeysRight, Counts

(* A worker buries a letter: a new number, in nobody's batch.              *)
LEMMA BuryStep ==
    ASSUME LetterConstants, LetterInv, NEW s \in Streams, NEW m \in DeadMatches \cup {NoMatch},
           Bury(s, m)
    PROVE  LetterInv'
  <1> DEFINE n == Len(letters) + 1
  <1>1. /\ TypeOK /\ KeysRight /\ Counts /\ Len(letters) < MaxLetters
        /\ letters' = Append(letters, [s |-> s, m |-> m]) /\ dead' = dead \cup {Len(letters')}
        /\ UNCHANGED <<copies, purged, guard, unsure, opc, batch>>
    BY InvSplit DEF Bury
  <1>2. letters \in Seq(Letter) /\ [s |-> s, m |-> m] \in Letter
    BY <1>1 DEF TypeOK, Letter
  <1>3. /\ letters' \in Seq(Letter) /\ Len(letters') = n /\ n \in Nat /\ Len(letters) \in Nat
        /\ \A i \in 1..Len(letters) : letters'[i] = letters[i]
    BY <1>1, <1>2
  <1>4. Numbers = 1..Len(letters) /\ Numbers' = 1..n /\ 1..n = (1..Len(letters)) \cup {n}
    BY <1>2, <1>3 DEF Numbers
  <1>5. n \notin Numbers /\ n \in 1..MaxLetters
    BY <1>1, <1>3, <1>4 DEF LetterConstants
  <1> HIDE DEF n
  <1>6. copies[n] = 0
    <2>1. copies[n] \in Nat
      BY <1>1, <1>5 DEF TypeOK
    <2>2. ~(copies[n] > 0)
      BY <1>1, <1>5 DEF Counts, ReplayedLeft
    <2> QED
      BY <2>1, <2>2
  <1>7. TypeOK'
    <2>1. batch' \in [Operators -> Seq(1..Len(letters'))]
      <3> SUFFICES ASSUME NEW o \in Operators
                   PROVE  batch[o] \in Seq(1..n)
        BY <1>1, <1>3 DEF TypeOK
      <3>1. batch[o] \in Seq(1..Len(letters)) /\ 1..Len(letters) \subseteq 1..n
        BY <1>1, <1>4 DEF TypeOK
      <3> QED
        BY <3>1, SeqMonotonic
    <2>2. n <= MaxLetters
      BY <1>3, <1>5 DEF LetterConstants
    <2>3. dead' \in SUBSET (1..n)
      BY <1>1, <1>3, <1>4 DEF TypeOK
    <2> QED
      BY <1>1, <1>3, <2>1, <2>2, <2>3 DEF TypeOK
  <1>8. \A i \in Numbers : (Named(i)' <=> Named(i)) /\ KeyOf(i)' = KeyOf(i)
    BY <1>3, <1>4 DEF Named, KeyOf
  <1>9. \A i \in Numbers : Sent(i)' <=> Sent(i)
    BY <1>1, <1>8 DEF Sent
  <1>10. ReplayedLeft'
    BY <1>1, <1>3, <1>4, <1>6 DEF Counts, ReplayedLeft, LetterConstants
  <1>11. NoLetterLost'
    BY <1>1, <1>3, <1>4 DEF Counts, NoLetterLost
  <1>12. ReplayedOnce'
    BY <1>1, <1>4, <1>6, <1>8 DEF Counts, ReplayedOnce
  <1>13. ASSUME NEW p \in Operators
         PROVE  /\ Claims(p)' <=> Claims(p)
                /\ Claims(p) => KeyOf(Current(p))' = KeyOf(Current(p))
    <2>1. CASE opc[p] \in {"script", "unguard"}
      <3>1. PICK i \in Numbers : i = Current(p)
        BY <1>1, <2>1, BatchTyped, NumbersAre DEF Busy
      <3>2. Current(p)' = i
        BY <1>1, <3>1 DEF Current
      <3> QED
        BY <1>1, <1>8, <3>1, <3>2 DEF Claims, Named, KeyOf
    <2>2. CASE opc[p] \notin {"script", "unguard"}
      BY <1>1, <2>2 DEF Claims
    <2> QED
      BY <2>1, <2>2
  <1>14. ASSUME NEW p \in Operators, NEW i \in ToSet(batch[p])
         PROVE  i \in Numbers
    BY <1>1, BatchTyped, NumbersAre
  <1>15. ClaimGuarded'
    BY <1>1, <1>13 DEF KeysRight, ClaimGuarded
  <1>16. OneClaim'
    BY <1>1, <1>13 DEF KeysRight, OneClaim
  <1>17. SentGuarded'
    BY <1>1, <1>8, <1>9, <1>14 DEF KeysRight, SentGuarded
  <1>18. SentUnclaimed'
    BY <1>1, <1>8, <1>9, <1>13, <1>14 DEF KeysRight, SentUnclaimed
  <1> QED
    BY <1>7, <1>10, <1>11, <1>12, <1>15, <1>16, <1>17, <1>18 DEF LetterInv

-----------------------------------------------------------------------------
LEMMA LettersInit ==
    ASSUME LetterConstants, DlqInit
    PROVE  LetterInv
  <1>1. Numbers = {} /\ letters \in Seq(Letter) /\ Len(letters) = 0
    BY DEF DlqInit, Numbers
  <1>2. TypeOK
    BY <1>1 DEF DlqInit, TypeOK, OpSteps, Busy, LetterConstants
  <1>3. ReplayedLeft /\ NoLetterLost /\ ReplayedOnce
    BY <1>1 DEF DlqInit, ReplayedLeft, NoLetterLost, ReplayedOnce
  <1>4. \A o \in Operators : ~Claims(o) /\ ToSet(batch[o]) = {}
    BY DEF DlqInit, Claims, ToSet
  <1>5. ClaimGuarded /\ OneClaim /\ SentGuarded /\ SentUnclaimed
    BY <1>4 DEF ClaimGuarded, OneClaim, SentGuarded, SentUnclaimed
  <1> QED
    BY <1>2, <1>3, <1>5 DEF LetterInv

LEMMA LettersStep ==
    ASSUME LetterConstants, LetterInv, [DlqNext]_dlqVars
    PROVE  LetterInv'
  <1>1. CASE UNCHANGED dlqVars
    <2>1. UNCHANGED <<letters, dead, copies, purged, guard, unsure, opc, batch>>
      BY <1>1 DEF dlqVars, keys
    <2>2. \A p : /\ Claims(p)' <=> Claims(p)
                 /\ Sent(p)' <=> Sent(p)
                 /\ KeyOf(p)' = KeyOf(p) /\ KeyOf(Current(p))' = KeyOf(Current(p))
      BY <2>1 DEF Claims, Current, KeyOf, Named, Sent
    <2>3. TypeOK'
      BY <2>1 DEF LetterInv, TypeOK
    <2>4. Counts'
      BY <2>1, CountsKept DEF LetterInv, Counts
    <2>5. ClaimGuarded' /\ OneClaim' /\ SentGuarded' /\ SentUnclaimed'
      BY <2>1, <2>2 DEF LetterInv, ClaimGuarded, OneClaim, SentGuarded, SentUnclaimed
    <2> QED
      BY <2>3, <2>4, <2>5 DEF LetterInv, Counts
  <1>2. CASE \E s \in Streams, m \in DeadMatches \cup {NoMatch} : Bury(s, m)
    BY <1>2, BuryStep
  <1>3. CASE \E k \in Guards : GuardExpire(k)
    BY <1>3, ExpireStep
  <1>4. ASSUME NEW o \in Operators, Tool(o) \/ ToolFaults(o)
        PROVE  LetterInv'
    <2>1. CASE ReplayRead(o)
      BY <2>1, ReadStep DEF ReplayRead
    <2>2. CASE PurgeRead(o)
      BY <2>2, ReadStep DEF PurgeRead
    <2>3. CASE GuardStep(o) \/ GuardFails(o)
      BY <2>3, GuardSteps
    <2>4. CASE Replay(o)
      BY <2>4, ReplayStep
    <2>5. CASE ReplayFails(o)
      BY <2>5, ReplayFailsStep
    <2>6. CASE Unguard(o)
      BY <2>6, UnguardStep
    <2>7. CASE Purge(o)
      BY <2>7, PurgeStep
    <2>8. CASE Abort(o)
      <3>1. /\ batch' = [batch EXCEPT ![o] = <<>>] /\ opc' = [opc EXCEPT ![o] = "idle"]
            /\ UNCHANGED <<letters, dead, copies, purged, guard, unsure>> /\ TypeOK
        BY <2>8 DEF Abort, keys, LetterInv
      <3>2. Moves(o) /\ ToSet(batch'[o]) \subseteq ToSet(batch[o]) /\ ~Claims(o)'
        BY <3>1, EmptyBatchMoves
      <3> QED
        BY <3>1, <3>2, QuietStep
    <2> QED
      BY <1>4, <2>1, <2>2, <2>3, <2>4, <2>5, <2>6, <2>7, <2>8 DEF Tool, ToolFaults
  <1> QED
    BY <1>1, <1>2, <1>3, <1>4 DEF DlqNext

(* cmd/dlq: for any operators that replay, purge, fail and are killed at   *)
(* any time, while workers bury and keys expire, a letter leaves its       *)
(* stream only purged or added to its queue again, and one that names its  *)
(* match is added once unless a reply was lost.                            *)
THEOREM DeadLettersSound ==
    ASSUME LetterConstants
    PROVE  DlqSpec => []LettersSound
  <1>1. DlqInit => LetterInv
    BY LettersInit
  <1>2. LetterInv /\ [DlqNext]_dlqVars => LetterInv'
    BY LettersStep
  <1>3. LetterInv => LettersSound
    BY DEF LetterInv, LettersSound
  <1> QED
    BY <1>1, <1>2, <1>3, PTL DEF DlqSpec

=============================================================================
