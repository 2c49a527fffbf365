------------------------------ MODULE DeadLetter ------------------------------
(***************************************************************************)
(* cmd/dlq and internal/dlq: operators replay dead letters into the queue  *)
(* they came from, or purge them, while workers bury new ones.             *)
(*                                                                         *)
(* One action is one Redis command or script.  A letter is numbered when   *)
(* it is buried (the order of stream ids); it carries the stream and the   *)
(* match of its task, or no match when extractMatchID finds none (a        *)
(* malformed payload, an entry that lost its fields).  What a replayed     *)
(* copy does in its queue is StreamQueue's; here it may be buried again.   *)
(* List and the dry runs only read.                                        *)
(***************************************************************************)
EXTENDS Integers, Sequences, FiniteSets, SequencesExt

CONSTANTS
    DeadMatches,  \* match ids of tasks
    NoMatch,      \* a payload without a match id
    Operators,    \* people or scripts that run cmd/dlq
    Limit,        \* --limit
    MaxLetters,   \* bound: letters ever buried
    MaxOpFaults   \* bound: failed commands, lost replies, killed operators

VARIABLES
    letters,      \* all letters ever buried, by number
    dead,         \* numbers of those in the dead-letter streams
    copies,       \* number -> how often it was added to its queue again
    purged,       \* numbers that Purge deleted
    guard,        \* guard keys: <<stream, match>>
    unsure,       \* numbers whose replay was done and reported as an error
    opc,          \* operator -> its next step
    todo,         \* operator -> streams it still has to work on
    batch,        \* operator -> letters it has read, newest first
    opFaults      \* counter of MaxOpFaults

LetterConstants == MaxLetters \in Nat /\ MaxOpFaults \in Nat

keys    == <<dead, copies, purged, guard, unsure>>
dlqVars == <<letters, keys, opc, todo, batch, opFaults>>

Streams == {"fetch", "parse"}
Guards  == Streams \X DeadMatches
Lists   == {<<"fetch">>, <<"parse">>, <<"fetch", "parse">>}

DlqInit ==
    /\ letters = <<>> /\ dead = {} /\ purged = {} /\ guard = {} /\ unsure = {}
    /\ copies = [i \in 1..MaxLetters |-> 0]
    /\ opc = [o \in Operators |-> "idle"]
    /\ todo = [o \in Operators |-> <<>>]
    /\ batch = [o \in Operators |-> <<>>]
    /\ opFaults = 0

OpFault == opFaults < MaxOpFaults /\ opFaults' = opFaults + 1

KeyOf(i) == <<letters[i].s, letters[i].m>>
Named(i) == letters[i].m # NoMatch
Current(o) == Head(batch[o])

(* A worker gives a task up (StreamQueue!RouteDLQ).                        *)
Bury(s, m) ==
    /\ Len(letters) < MaxLetters
    /\ letters' = Append(letters, [s |-> s, m |-> m])
    /\ dead' = dead \cup {Len(letters')}
    /\ UNCHANGED <<copies, purged, guard, unsure, opc, todo, batch, opFaults>>

-----------------------------------------------------------------------------
(* XREVRANGE + - COUNT limit.                                              *)
Newest(S) == {i \in S : Cardinality({j \in S : j > i}) < Limit}
Descending(S) ==
    CHOOSE q \in [1..Cardinality(S) -> S] : \A i, j \in 1..Cardinality(S) : i < j => q[i] > q[j]
XRevRange(s) == Descending(Newest({i \in dead : letters[i].s = s}))

(* buildStreamList: --stream fetch, parse or all.                          *)
BuildStreamList(o) == IF opc[o] = "idle" THEN Lists ELSE {todo[o]}

(* A loop over streams reads the next one and goes on to `work`, to the    *)
(* next stream if there is nothing, or ends.                               *)
ReadStream(o, loop, work) ==
    /\ opc[o] \in {"idle", loop}
    /\ \E l \in BuildStreamList(o) :
          /\ todo' = [todo EXCEPT ![o] = Tail(l)]
          /\ batch' = [batch EXCEPT ![o] = XRevRange(Head(l))]
    /\ opc' = [opc EXCEPT ![o] = IF batch'[o] # <<>> THEN work
                                 ELSE IF todo'[o] # <<>> THEN loop ELSE "idle"]
    /\ UNCHANGED <<letters, keys, opFaults>>

ReplayRead(o) == ReadStream(o, "replay", "guard")
PurgeRead(o)  == ReadStream(o, "purge", "xdel")

(* Replay goes on with the next letter, with the next stream, or ends.     *)
NextLetter(o) ==
    /\ batch' = [batch EXCEPT ![o] = Tail(@)]
    /\ opc' = [opc EXCEPT ![o] = IF Len(batch[o]) > 1 THEN "guard"
                                 ELSE IF todo[o] # <<>> THEN "replay" ELSE "idle"]

(* Bug variant: a key that is there does not stop the replay.              *)
SetNXIgnored(o) ==
    /\ guard' = guard \cup {KeyOf(Current(o))}
    /\ opc' = [opc EXCEPT ![o] = "script"]
    /\ UNCHANGED batch

(* A key that is there means that the match was replayed before.           *)
SetNX(o) ==
    IF KeyOf(Current(o)) \in guard
    THEN NextLetter(o) /\ UNCHANGED guard
    ELSE /\ guard' = guard \cup {KeyOf(Current(o))}
         /\ opc' = [opc EXCEPT ![o] = "script"]
         /\ UNCHANGED batch

GuardStep(o) ==
    /\ opc[o] = "guard"
    /\ IF Named(Current(o))
       THEN SetNX(o)
       ELSE opc' = [opc EXCEPT ![o] = "script"] /\ UNCHANGED <<guard, batch>>
    /\ UNCHANGED <<letters, dead, copies, purged, unsure, todo, opFaults>>

(* "guard setnx failed": skipped, whether or not the key was set.          *)
GuardFails(o) ==
    /\ opc[o] = "guard"
    /\ Named(Current(o))
    /\ guard' \in {guard, guard \cup {KeyOf(Current(o))}}
    /\ NextLetter(o)
    /\ OpFault
    /\ UNCHANGED <<letters, dead, copies, purged, unsure, todo>>

(* luaReplayAtomic: XADD, then XDEL whether or not the entry is there.     *)
LuaReplay(i) ==
    /\ copies' = [copies EXCEPT ![i] = @ + 1]
    /\ dead' = dead \ {i}

Replay(o) ==
    /\ opc[o] = "script"
    /\ LuaReplay(Current(o))
    /\ NextLetter(o)
    /\ UNCHANGED <<letters, purged, guard, unsure, todo, opFaults>>

(* The script fails, or it runs and its reply is lost: either way the      *)
(* guard key is deleted.                                                   *)
ReplayFails(o) ==
    /\ opc[o] = "script"
    /\ OpFault
    /\ \/ UNCHANGED <<dead, copies, unsure>>
       \/ LuaReplay(Current(o)) /\ unsure' = unsure \cup {Current(o)}
    /\ IF Named(Current(o))
       THEN opc' = [opc EXCEPT ![o] = "unguard"] /\ UNCHANGED batch
       ELSE NextLetter(o)
    /\ UNCHANGED <<letters, purged, guard, todo>>

Unguard(o) ==
    /\ opc[o] = "unguard"
    /\ guard' = guard \ {KeyOf(Current(o))}
    /\ NextLetter(o)
    /\ UNCHANGED <<letters, dead, copies, purged, unsure, todo, opFaults>>

(* guardTTL: seven days pass, longer than an operator takes from the key   *)
(* to the script, or goes on with a letter that another one has replayed.  *)
GuardExpire(k) ==
    /\ k \in guard
    /\ \A o \in Operators : \A i \in ToSet(batch[o]) :
          KeyOf(i) = k => i \in dead /\ ~(opc[o] \in {"script", "unguard"} /\ i = Current(o))
    /\ guard' = guard \ {k}
    /\ UNCHANGED <<letters, dead, copies, purged, unsure, opc, todo, batch, opFaults>>

(* Purge deletes the letters it has read, in one XDEL.                     *)
Purge(o) ==
    /\ opc[o] = "xdel"
    /\ purged' = purged \cup (ToSet(batch[o]) \cap dead)
    /\ dead' = dead \ ToSet(batch[o])
    /\ batch' = [batch EXCEPT ![o] = <<>>]
    /\ opc' = [opc EXCEPT ![o] = IF todo[o] # <<>> THEN "purge" ELSE "idle"]
    /\ UNCHANGED <<letters, copies, guard, unsure, todo, opFaults>>

(* An XREVRANGE or XDEL error ends the tool, and so does a kill.           *)
Abort(o) ==
    /\ opc[o] # "idle"
    /\ opc' = [opc EXCEPT ![o] = "idle"]
    /\ todo' = [todo EXCEPT ![o] = <<>>]
    /\ batch' = [batch EXCEPT ![o] = <<>>]
    /\ OpFault
    /\ UNCHANGED <<letters, keys>>

Tool(o) == ReplayRead(o) \/ GuardStep(o) \/ Replay(o) \/ Unguard(o) \/ PurgeRead(o) \/ Purge(o)
ToolFaults(o) == GuardFails(o) \/ ReplayFails(o) \/ Abort(o)

DlqNext ==
    \/ \E s \in Streams, m \in DeadMatches \cup {NoMatch} : Bury(s, m)
    \/ \E o \in Operators : Tool(o) \/ ToolFaults(o)
    \/ \E k \in Guards : GuardExpire(k)

(* The tool runs on, somebody replays all streams again and again,         *)
(* keys expire.                                                            *)
ReplayAll(o) == opc[o] = "idle" /\ ReplayRead(o) /\ todo'[o] = <<"parse">>
DlqFairness ==
    /\ \A o \in Operators : WF_dlqVars(opc[o] # "idle" /\ Tool(o))
    /\ \A o \in Operators : SF_dlqVars(ReplayAll(o))
    /\ \A k \in Guards : WF_dlqVars(GuardExpire(k))

DlqSpec == DlqInit /\ [][DlqNext]_dlqVars /\ DlqFairness

-----------------------------------------------------------------------------
Numbers == DOMAIN letters

(* Replay, Purge: whatever fails in between, a letter leaves the stream    *)
(* only by being purged or after it was added to its queue again.          *)
NoLetterLost == \A i \in Numbers : i \in dead \/ i \in purged \/ copies[i] > 0

(* luaReplayAtomic is there "to prevent duplicates on partial failure":    *)
(* two operators that have both read a letter replay it once, if it names  *)
(* its match and no reply of the script was lost.                          *)
ReplayedOnce == \A i \in Numbers : Named(i) /\ i \notin unsure => copies[i] <= 1

(* cmd/dlq: a letter leaves its stream by a purge or after its replay, and *)
(* two operators replay it once.                                           *)
LettersSound == NoLetterLost /\ ReplayedOnce

=============================================================================
