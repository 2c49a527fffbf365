------------------------- MODULE CircuitBreakerProofs -------------------------
(***************************************************************************)
(* For any number of workers, timers and any thresholds: the breaker never *)
(* has two timers, has one only while it is open, and so never leaves its  *)
(* cycle closed -> open -> halfOpen -> open or closed; and its counters,   *)
(* which nothing protects, stay within fixed limits.                       *)
(***************************************************************************)
EXTENDS CircuitBreaker, FiniteSetTheorems, TLAPS

(* TypeOK and TimerOnlyWhileOpen are inductive together.  A timer leaves   *)
(* (fires or exits) alone; it arrives from the worker that opened the      *)
(* breaker, and that worker won its compare-and-swap when the breaker was  *)
(* not open, that is, when there was neither timer nor starter.            *)
IInv == TypeOK /\ TimerOnlyWhileOpen

LEMMA TypeStep == ASSUME TypeOK, [BreakerNext]_breakerVars PROVE TypeOK'
  <1> USE DEF TypeOK, States, Steps
  <1>1. ASSUME NEW w \in Workers, Allow(w) \/ Reject(w) \/ Outcome(w) PROVE TypeOK'
    BY <1>1 DEF Allow, Reject, Outcome, IngestNeutral, RecordFailure, RecordSuccess,
                AtStep, GoTo, breakerVars, counters, timer
  <1>2. ASSUME NEW w \in Workers, FailHalf(w) \/ TripStop(w) PROVE TypeOK'
    BY <1>2 DEF FailHalf, TripStop, StopTimer, AtStep, GoTo, counters
  <1>3. ASSUME NEW w \in Workers, Reopen(w) \/ Trip(w) \/ SwapClosed(w) PROVE TypeOK'
    BY <1>3 DEF Reopen, Trip, SwapClosed, CompareAndSwap, AtStep, GoTo, counters, timer
  <1>4. ASSUME NEW w \in Workers, FailAdd(w) \/ WinAdd(w) \/ WinDec(w) PROVE TypeOK'
    BY <1>4 DEF FailAdd, WinAdd, WinDec, AtStep, GoTo, timer
  <1>5. ASSUME NEW w \in Workers, ZeroSuccesses(w) \/ ZeroFailures(w) PROVE TypeOK'
    BY <1>5 DEF ZeroSuccesses, ZeroFailures, AfterZeroS, AfterZeroF, GoTo, timer
  <1>6. ASSUME NEW w \in Workers, Start(w) PROVE TypeOK'
    BY <1>6 DEF Start, StartTimer, GoTo, counters
  <1>7. ASSUME NEW t \in Timers, TimerFire(t) \/ TimerExit(t) PROVE TypeOK'
    BY <1>7 DEF TimerFire, TimerExit, counters
  <1>8. CASE UNCHANGED breakerVars
    BY <1>8 DEF breakerVars, counters, timer
  <1> QED BY <1>1, <1>2, <1>3, <1>4, <1>5, <1>6, <1>7, <1>8 DEF BreakerNext, InBreaker

(* A step that opens nothing and starts no timer disturbs nothing.         *)
LEMMA QuietStep ==
  ASSUME TimerOnlyWhileOpen, Starters' \subseteq Starters, alive' \subseteq alive,
         state' = state \/ alive' \cup Starters' = {}
  PROVE  TimerOnlyWhileOpen'
  BY DEF TimerOnlyWhileOpen

LEMMA TimerStep == ASSUME IInv, [BreakerNext]_breakerVars PROVE TimerOnlyWhileOpen'
  <1> USE DEF IInv
  <1>1. ASSUME NEW w \in Workers, Allow(w) \/ Reject(w) \/ Outcome(w) PROVE TimerOnlyWhileOpen'
    <2>1. Starters' \subseteq Starters /\ alive' = alive /\ state' = state
      BY <1>1 DEF Allow, Reject, Outcome, IngestNeutral, RecordFailure, RecordSuccess,
                  AtStep, GoTo, breakerVars, timer, Starters, TypeOK, States
    <2> QED BY <2>1, QuietStep
  <1>2. ASSUME NEW w \in Workers, FailHalf(w) \/ TripStop(w) PROVE TimerOnlyWhileOpen'
    <2>1. Starters' \subseteq Starters /\ alive' = alive /\ state' = state
      BY <1>2 DEF FailHalf, TripStop, StopTimer, AtStep, GoTo, Starters, TypeOK
    <2> QED BY <2>1, QuietStep
  <1>3. ASSUME NEW w \in Workers, Reopen(w) \/ Trip(w) \/ SwapClosed(w) PROVE TimerOnlyWhileOpen'
    <2>1. alive' = alive
      BY <1>3 DEF Reopen, Trip, SwapClosed, CompareAndSwap, timer
    <2>2. CASE state' = state
      <3>1. Starters' \subseteq Starters
        BY <1>3, <2>2 DEF Reopen, Trip, SwapClosed, CompareAndSwap, AtStep, GoTo, Starters, TypeOK
      <3> QED BY <2>1, <2>2, <3>1, QuietStep
    <2>3. CASE state' # state
      <3>1. state # "open" /\ Starters' \subseteq Starters \cup {w}
        BY <1>3, <2>3 DEF Reopen, Trip, SwapClosed, CompareAndSwap, AtStep, GoTo, Starters, TypeOK
      <3>2. alive = {} /\ Starters = {}
        BY <3>1 DEF TimerOnlyWhileOpen
      <3>3. state' = "open" \/ Starters' = {}
        BY <1>3, <2>3, <3>2 DEF Reopen, Trip, SwapClosed, CompareAndSwap, AtStep, GoTo, Starters, TypeOK
      <3> QED BY <2>1, <3>1, <3>2, <3>3 DEF TimerOnlyWhileOpen
    <2> QED BY <2>2, <2>3
  <1>4. ASSUME NEW w \in Workers, FailAdd(w) \/ WinAdd(w) \/ WinDec(w) PROVE TimerOnlyWhileOpen'
    <2>1. Starters' \subseteq Starters /\ alive' = alive /\ state' = state
      BY <1>4 DEF FailAdd, WinAdd, WinDec, AtStep, GoTo, timer, Starters, TypeOK
    <2> QED BY <2>1, QuietStep
  <1>5. ASSUME NEW w \in Workers, ZeroSuccesses(w) \/ ZeroFailures(w) PROVE TimerOnlyWhileOpen'
    <2>1. Starters' \subseteq Starters /\ alive' = alive /\ state' = state
      BY <1>5 DEF ZeroSuccesses, ZeroFailures, AfterZeroS, AfterZeroF, GoTo, timer,
                  Starters, TypeOK
    <2> QED BY <2>1, QuietStep
  <1>6. ASSUME NEW w \in Workers, Start(w) PROVE TimerOnlyWhileOpen'
    <2>1. w \in Starters /\ Starters' = Starters \ {w} /\ state' = state
      BY <1>6 DEF Start, GoTo, Starters, TypeOK
    <2>2. Starters' = {} /\ alive = {} /\ state = "open"
      BY <2>1 DEF TimerOnlyWhileOpen
    <2>3. PICK t \in Timers : alive' = alive \cup {t}
      BY <1>6 DEF Start, StartTimer
    <2> QED BY <2>1, <2>2, <2>3 DEF TimerOnlyWhileOpen
  <1>7. ASSUME NEW t \in Timers, TimerFire(t) PROVE TimerOnlyWhileOpen'
    <2>1. t \in alive /\ alive' = alive \ {t} /\ Starters' = Starters
      BY <1>7 DEF TimerFire, Starters
    <2>2. alive' = {} /\ Starters' = {}
      BY <2>1 DEF TimerOnlyWhileOpen
    <2> QED BY <2>1, <2>2, QuietStep
  <1>8. ASSUME NEW t \in Timers, TimerExit(t) PROVE TimerOnlyWhileOpen'
    <2>1. alive' \subseteq alive /\ Starters' = Starters /\ state' = state
      BY <1>8 DEF TimerExit, Starters
    <2> QED BY <2>1, QuietStep
  <1>9. CASE UNCHANGED breakerVars
    BY <1>9 DEF breakerVars, counters, timer, TimerOnlyWhileOpen, Starters
  <1> QED BY <1>1, <1>2, <1>3, <1>4, <1>5, <1>6, <1>7, <1>8, <1>9 DEF BreakerNext, InBreaker

LEMMA BreakerInvariant == BreakerSpec => []IInv
  <1>1. BreakerInit => IInv
    BY DEF BreakerInit, IInv, TypeOK, States, Steps, TimerOnlyWhileOpen, Starters
  <1>2. IInv /\ [BreakerNext]_breakerVars => IInv'
    BY TypeStep, TimerStep DEF IInv
  <1> QED BY <1>1, <1>2, PTL DEF BreakerSpec

(* Whatever workers interleave, a breaker has at most one timer, running   *)
(* or about to be started, and only while it is open.                      *)
THEOREM BreakerTimer == BreakerSpec => []TimerOnlyWhileOpen
  BY BreakerInvariant, PTL DEF IInv

(* The unconditional store of the timer and the compare-and-swaps of stale *)
(* calls never take the breaker along an edge its state machine lacks.     *)
THEOREM BreakerTransitions == BreakerSpec => LegalTransitions
  <1> DEFINE Legal == /\ state' = "closed" => state = "halfOpen"
                      /\ state' = "halfOpen" => state = "open"
  <1>1. ASSUME IInv, [BreakerNext]_breakerVars PROVE [Legal]_state
    <2>1. ASSUME NEW w \in Workers, Allow(w) \/ Reject(w) \/ Outcome(w) PROVE state' = state
      BY <2>1 DEF Allow, Reject, Outcome, IngestNeutral, RecordFailure, RecordSuccess, breakerVars
    <2>2. ASSUME NEW w \in Workers, Reopen(w) \/ Trip(w) \/ SwapClosed(w) PROVE [Legal]_state
      BY <2>2 DEF Reopen, Trip, SwapClosed, CompareAndSwap
    <2>3. ASSUME NEW w \in Workers,
                 FailHalf(w) \/ FailAdd(w) \/ TripStop(w) \/ Start(w) \/ WinAdd(w) \/ WinDec(w)
                 \/ ZeroSuccesses(w) \/ ZeroFailures(w)
          PROVE  state' = state
      BY <2>3 DEF FailHalf, FailAdd, TripStop, Start, WinAdd, WinDec, ZeroSuccesses, ZeroFailures
    <2>4. ASSUME NEW t \in Timers, TimerFire(t) PROVE [Legal]_state
      BY <1>1, <2>4 DEF TimerFire, IInv, TimerOnlyWhileOpen
    <2>5. ASSUME NEW t \in Timers, TimerExit(t) PROVE state' = state
      BY <2>5 DEF TimerExit
    <2>6. CASE UNCHANGED breakerVars
      BY <2>6 DEF breakerVars
    <2> QED BY <1>1, <2>1, <2>2, <2>3, <2>4, <2>5, <2>6 DEF BreakerNext, InBreaker
  <1> QED BY <1>1, BreakerInvariant, PTL DEF BreakerSpec, LegalTransitions

-----------------------------------------------------------------------------
(* The counters.                                                           *)

N == Cardinality(Workers)

(* How many workers are at step s.                                         *)
Count(s) == Cardinality({w \in Workers : pc[w] = s})

Closers    == {w \in Workers : pc[w] \in {"closeZeroS", "closeZeroF"}}
Unzeroed   == {w \in Workers : pc[w] \in {"tripZeroS", "tripZeroF", "reopenZeroS", "reopenZeroF"}}
UnzeroedS  == {w \in Workers : pc[w] \in {"tripZeroS", "reopenZeroS"}}

(* While the breaker is closed every failure above the threshold, or above *)
(* what the last round left, has a worker about to trip it.  From the trip *)
(* on no worker starts to add; once the failures are cleared, only the     *)
(* workers that were about to add still do.                                *)
FailureBound ==
    /\ failures \in Nat
    /\ state = "closed" =>
          \/ failures <= Threshold - 1 + Count("trip")
          \/ Closers # {} /\ failures <= N - 1 + Count("trip")
    /\ state = "open" /\ Unzeroed # {} => failures + Count("failAdd") <= MaxFailures
    /\ state = "halfOpen" \/ (state = "open" /\ Unzeroed = {}) =>
          failures + Count("failAdd") <= N - 1

(* The successes a half-open breaker may have before a worker is about to  *)
(* close it.                                                               *)
MaxStart == Larger(Target - 1, N - 1)

(* The same for successes: they are counted while the breaker is half-open *)
(* and cleared before it is again.                                         *)
SuccessBound ==
    /\ successes \in Nat
    /\ state = "halfOpen" => successes <= MaxStart + Count("close")
    /\ state = "closed" \/ (state = "open" /\ UnzeroedS # {}) =>
          successes + Count("winAdd") <= MaxSuccesses
    /\ state = "open" /\ UnzeroedS = {} => successes + Count("winAdd") <= N - 1

LEMMA CountType ==
  ASSUME NEW s
  PROVE  /\ N \in Nat /\ Count(s) \in Nat /\ Count(s) <= N
         /\ IsFiniteSet({w \in Workers : pc[w] = s})
  <1>1. {w \in Workers : pc[w] = s} \in SUBSET Workers
    OBVIOUS
  <1> QED BY <1>1, FS_Subset, FS_CardinalityType, BreakerAssumption DEF N, Count

(* A worker at another step leaves room for one fewer.                     *)
LEMMA CountRoom ==
  ASSUME NEW s, NEW t, s # t
  PROVE  /\ Count(s) + Count(t) <= N
         /\ \A w \in Workers : pc[w] \notin {s, t} => Count(s) + Count(t) <= N - 1
         /\ \A w \in Workers : pc[w] # s => Count(s) <= N - 1
  <1> DEFINE A == {w \in Workers : pc[w] = s}
             B == {w \in Workers : pc[w] = t}
  <1>1. IsFiniteSet(A) /\ IsFiniteSet(B) /\ Cardinality(A) = Count(s) /\ Cardinality(B) = Count(t)
        /\ Count(s) \in Nat /\ Count(t) \in Nat /\ N \in Nat
    BY CountType DEF Count
  <1>2. A \cap B = {} /\ A \subseteq Workers /\ B \subseteq Workers
    OBVIOUS
  <1>3. \A w \in Workers : pc[w] # s => w \notin A
    OBVIOUS
  <1>4. \A w \in Workers : pc[w] # t => w \notin B
    OBVIOUS
  <1> HIDE DEF A, B
  <1>5. IsFiniteSet(A \cup B) /\ Cardinality(A \cup B) = Count(s) + Count(t)
    <2>1. Cardinality(A \cap B) = 0
      BY <1>2, FS_EmptySet
    <2>2. /\ IsFiniteSet(A \cup B)
          /\ Cardinality(A \cup B) = Cardinality(A) + Cardinality(B) - Cardinality(A \cap B)
      BY <1>1, FS_Union
    <2> QED BY <1>1, <2>1, <2>2
  <1>6. Cardinality(A \cup B) <= N
    BY <1>2, FS_Subset, BreakerAssumption DEF N
  <1>7. ASSUME NEW w \in Workers, NEW C \in SUBSET Workers, w \notin C PROVE Cardinality(C) <= N - 1
    <2>1. IsFiniteSet(Workers \ {w}) /\ Cardinality(Workers \ {w}) = N - 1
      BY BreakerAssumption, FS_RemoveElement DEF N
    <2>2. C \in SUBSET (Workers \ {w})
      BY <1>7
    <2> QED BY <2>1, <2>2, FS_Subset
  <1>8. \A w \in Workers : pc[w] \notin {s, t} => Count(s) + Count(t) <= N - 1
    BY <1>2, <1>3, <1>4, <1>5, <1>7
  <1>9. \A w \in Workers : pc[w] # s => Count(s) <= N - 1
    BY <1>1, <1>2, <1>3, <1>7
  <1> QED BY <1>5, <1>6, <1>8, <1>9

(* A worker's move changes the counts of the step it leaves and of the one *)
(* it reaches.                                                             *)
LEMMA CountMove ==
  ASSUME TypeOK, NEW w \in Workers, NEW b, GoTo(w, b), NEW s
  PROVE  /\ (pc[w] = s) <=> (b = s) => Count(s)' = Count(s)
         /\ pc[w] = s /\ b # s => Count(s)' = Count(s) - 1
         /\ pc[w] # s /\ b = s => Count(s)' = Count(s) + 1
  <1> DEFINE A == {v \in Workers : pc[v] = s}
             B == {v \in Workers : pc'[v] = s}
  <1>1. pc' = [pc EXCEPT ![w] = b] /\ pc \in [Workers -> Steps]
    BY DEF GoTo, TypeOK
  <1>2. /\ (pc[w] = s) <=> (b = s) => B = A
        /\ pc[w] = s /\ b # s => B = A \ {w} /\ w \in A
        /\ pc[w] # s /\ b = s => B = A \cup {w} /\ w \notin A
    BY <1>1
  <1>3. IsFiniteSet(A) /\ Cardinality(A) = Count(s) /\ Cardinality(B) = Count(s)'
    BY CountType DEF Count
  <1> HIDE DEF A, B
  <1> QED BY <1>2, <1>3, FS_AddElement, FS_RemoveElement

LEMMA BoundTypes ==
  ASSUME NEW s
  PROVE  /\ Count(s) \in Nat /\ N \in Nat /\ Threshold \in Nat /\ Threshold >= 1
         /\ Target \in Nat /\ Target >= 1
         /\ MaxFailures \in Int /\ MaxFailures >= Threshold - 1 + N /\ MaxFailures >= N - 2 + N
         /\ MaxStart \in Int /\ MaxStart >= Target - 1 /\ MaxStart >= N - 1
         /\ MaxSuccesses = MaxStart + N
  <1>1. Count(s) \in Nat /\ N \in Nat
    BY CountType
  <1>2. Threshold \in Nat /\ Threshold >= 1 /\ Target \in Nat /\ Target >= 1
    BY BreakerAssumption
  <1>3. /\ MaxFailures = Larger(Threshold - 1, N - 2) + N
        /\ MaxSuccesses = MaxStart + N
    BY DEF MaxFailures, MaxSuccesses, MaxStart, N
  <1> QED BY <1>1, <1>2, <1>3 DEF Larger, MaxStart

(* A step that changes no counter and no state, and puts no worker in      *)
(* front of an addition unless the state allows it.                        *)
LEMMA FailureKept ==
  ASSUME FailureBound, failures' \in Nat, failures' <= failures, state' = state,
         Count("trip")' = Count("trip") \/ state # "closed",
         Count("failAdd")' = Count("failAdd") \/ state = "closed",
         Closers # {} => Closers' # {}, (Unzeroed = {}) <=> (Unzeroed' = {})
  PROVE  FailureBound'
  <1>1. /\ Count("trip") \in Nat /\ Count("failAdd") \in Nat /\ N \in Nat
        /\ Threshold \in Nat /\ MaxFailures \in Int /\ N' = N /\ MaxFailures' = MaxFailures
    BY BoundTypes DEF N, MaxFailures
  <1> QED BY <1>1 DEF FailureBound

(* A move of one worker that is not about to count or to trip.             *)
LEMMA FailureMove ==
  ASSUME TypeOK, FailureBound, NEW w \in Workers, NEW b, GoTo(w, b),
         failures' \in Nat, failures' <= failures, state' = state,
         pc[w] \notin {"trip", "failAdd"}, b # "trip", b = "failAdd" => state = "closed",
         pc[w] \in {"closeZeroS", "closeZeroF"} => b \in {"closeZeroS", "closeZeroF"},
         pc[w] \in {"tripZeroS", "tripZeroF", "reopenZeroS", "reopenZeroF"} <=>
             b \in {"tripZeroS", "tripZeroF", "reopenZeroS", "reopenZeroF"}
  PROVE  FailureBound'
  <1>1. pc' = [pc EXCEPT ![w] = b] /\ pc \in [Workers -> Steps]
    BY DEF GoTo, TypeOK
  <1>2. Count("trip")' = Count("trip") /\ (Count("failAdd")' = Count("failAdd") \/ state = "closed")
    BY CountMove
  <1>3. (Closers # {} => Closers' # {}) /\ ((Unzeroed = {}) <=> (Unzeroed' = {}))
    BY <1>1 DEF Closers, Unzeroed
  <1> QED BY <1>2, <1>3, FailureKept

LEMMA FailureStep == ASSUME IInv, FailureBound, [BreakerNext]_breakerVars PROVE FailureBound'
  <1> USE DEF IInv
  <1>0. /\ Count("trip") \in Nat /\ Count("failAdd") \in Nat /\ N \in Nat /\ failures \in Nat
        /\ Threshold \in Nat /\ Threshold >= 1 /\ MaxFailures \in Int
        /\ MaxFailures >= Threshold - 1 + N /\ MaxFailures >= N - 2 + N /\ MaxFailures >= N - 1
        /\ N' = N /\ MaxFailures' = MaxFailures
    BY BoundTypes DEF N, MaxFailures, FailureBound
  <1>t. pc \in [Workers -> Steps] /\ state \in States
    BY DEF TypeOK
  <1>1. ASSUME NEW w \in Workers, Allow(w) \/ IngestNeutral(w) \/ FailHalf(w) \/ TripStop(w)
                                 \/ Start(w)
        PROVE  FailureBound'
    BY <1>0, <1>1, FailureMove
       DEF Allow, IngestNeutral, FailHalf, TripStop, Start, AtStep, counters
  <1>2. ASSUME NEW w \in Workers, RecordFailure(w) \/ RecordSuccess(w) PROVE FailureBound'
    <2>1. PICK b \in {"idle", "failHalf", "failAdd", "winAdd", "winDec"} :
            /\ GoTo(w, b) /\ pc[w] = "call" /\ state' = state /\ failures' = failures
            /\ b = "failAdd" => state = "closed"
      BY <1>2, <1>t DEF RecordFailure, RecordSuccess, AtStep, counters, States
    <2> QED BY <1>0, <2>1, FailureMove
  <1>3. ASSUME NEW w \in Workers, WinAdd(w) \/ WinDec(w) PROVE FailureBound'
    <2>1. PICK b \in {"idle", "close"} :
            /\ GoTo(w, b) /\ pc[w] \in {"winAdd", "winDec"} /\ state' = state
            /\ failures' \in Nat /\ failures' <= failures
      BY <1>0, <1>3 DEF WinAdd, WinDec, AtStep
    <2> QED BY <2>1, FailureMove
  <1>4. ASSUME NEW w \in Workers, ZeroSuccesses(w) PROVE FailureBound'
    BY <1>0, <1>4, FailureMove DEF ZeroSuccesses, AfterZeroS
  <1>5. ASSUME NEW w \in Workers, Reopen(w) PROVE FailureBound'
    <2>1. pc[w] = "reopen" /\ failures' = failures
      BY <1>5 DEF Reopen, AtStep, CompareAndSwap, counters
    <2>2. CASE state = "halfOpen"
      <3>1. GoTo(w, "reopenZeroS") /\ state' = "open"
        BY <1>5, <2>2 DEF Reopen, CompareAndSwap
      <3>2. Unzeroed' # {} /\ Count("failAdd")' = Count("failAdd")
        BY <1>t, <2>1, <3>1, CountMove DEF GoTo, Unzeroed
      <3> QED BY <1>0, <2>1, <2>2, <3>1, <3>2 DEF FailureBound
    <2>3. CASE state # "halfOpen"
      BY <1>0, <1>5, <2>1, <2>3, FailureMove DEF Reopen, CompareAndSwap
    <2> QED BY <2>2, <2>3
  <1>6. ASSUME NEW w \in Workers, SwapClosed(w) PROVE FailureBound'
    <2>1. pc[w] = "close" /\ failures' = failures
      BY <1>6 DEF SwapClosed, AtStep, CompareAndSwap, counters
    <2>2. CASE state = "halfOpen"
      <3>1. GoTo(w, "closeZeroS") /\ state' = "closed"
        BY <1>6, <2>2 DEF SwapClosed, CompareAndSwap
      <3>2. Closers' # {} /\ Count("trip")' = Count("trip")
        BY <1>t, <2>1, <3>1, CountMove DEF GoTo, Closers
      <3> QED BY <1>0, <2>1, <2>2, <3>1, <3>2 DEF FailureBound
    <2>3. CASE state # "halfOpen"
      BY <1>0, <1>6, <2>1, <2>3, FailureMove DEF SwapClosed, CompareAndSwap
    <2> QED BY <2>2, <2>3
  <1>7. ASSUME NEW w \in Workers, Trip(w) PROVE FailureBound'
    <2>1. pc[w] = "trip" /\ failures' = failures
      BY <1>7 DEF Trip, AtStep, CompareAndSwap, counters
    <2>2. CASE state = "closed"
      <3>1. GoTo(w, "tripZeroS") /\ state' = "open"
        BY <1>7, <2>2 DEF Trip, CompareAndSwap
      <3>2. Unzeroed' # {} /\ Count("failAdd")' = Count("failAdd")
        BY <1>t, <2>1, <3>1, CountMove DEF GoTo, Unzeroed
      <3>3. /\ Count("trip") + Count("failAdd") <= N
            /\ Closers # {} => Count("trip") + Count("failAdd") <= N - 1
        BY CountRoom DEF Closers
      <3>4. failures + Count("failAdd") <= MaxFailures
        BY <1>0, <2>2, <3>3 DEF FailureBound
      <3> QED BY <1>0, <2>1, <3>1, <3>2, <3>4 DEF FailureBound
    <2>3. CASE state # "closed"
      <3>1. GoTo(w, "idle") /\ state' = state
        BY <1>7, <2>3 DEF Trip, CompareAndSwap
      <3>2. Count("failAdd")' = Count("failAdd") /\ Closers' = Closers /\ Unzeroed' = Unzeroed
        BY <1>t, <2>1, <3>1, CountMove DEF GoTo, Closers, Unzeroed
      <3> QED BY <1>0, <2>1, <2>3, <3>1, <3>2, FailureKept
    <2> QED BY <2>2, <2>3
  <1>8. ASSUME NEW w \in Workers, FailAdd(w) PROVE FailureBound'
    <2>1. /\ pc[w] = "failAdd" /\ failures' = failures + 1 /\ state' = state
          /\ GoTo(w, IF failures + 1 >= Threshold THEN "trip" ELSE "idle")
      BY <1>8 DEF FailAdd, AtStep
    <2>2. /\ Count("failAdd")' = Count("failAdd") - 1 /\ Closers' = Closers /\ Unzeroed' = Unzeroed
          /\ Count("trip")' = IF failures + 1 >= Threshold THEN Count("trip") + 1 ELSE Count("trip")
      <3>1. CASE failures + 1 >= Threshold
        <4>1. GoTo(w, "trip")
          BY <2>1, <3>1
        <4> QED BY <1>t, <2>1, <3>1, <4>1, CountMove DEF GoTo, Closers, Unzeroed
      <3>2. CASE ~(failures + 1 >= Threshold)
        <4>1. GoTo(w, "idle")
          BY <2>1, <3>2
        <4> QED BY <1>t, <2>1, <3>2, <4>1, CountMove DEF GoTo, Closers, Unzeroed
      <3> QED BY <3>1, <3>2
    <2> QED BY <1>0, <2>1, <2>2 DEF FailureBound
  <1>9. ASSUME NEW w \in Workers, ZeroFailures(w) PROVE FailureBound'
    <2>1. PICK b \in {"reopenStart", "tripStop", "idle"} :
            /\ GoTo(w, b) /\ pc[w] \in {"reopenZeroF", "tripZeroF", "closeZeroF"}
            /\ failures' = 0 /\ state' = state
      BY <1>9 DEF ZeroFailures, AfterZeroF
    <2>2. /\ Count("failAdd")' = Count("failAdd") /\ Count("trip")' = Count("trip")
          /\ Count("failAdd") <= N - 1
      <3>1. Count("failAdd")' = Count("failAdd") /\ Count("trip")' = Count("trip")
        BY <2>1, CountMove
      <3>2. Count("failAdd") <= N - 1
        BY <2>1, CountRoom
      <3> QED BY <3>1, <3>2
    <2> QED BY <1>0, <2>1, <2>2 DEF FailureBound
  <1>10. ASSUME NEW t \in Timers, TimerFire(t) PROVE FailureBound'
    <2>1. /\ t \in alive /\ state' = "halfOpen" /\ failures' = failures /\ pc' = pc
      BY <1>10 DEF TimerFire, counters
    <2>2. state = "open" /\ Unzeroed = {}
      BY <2>1 DEF TimerOnlyWhileOpen, Starters, Unzeroed
    <2>3. Count("failAdd")' = Count("failAdd")
      BY <2>1 DEF Count
    <2> QED BY <1>0, <2>1, <2>2, <2>3 DEF FailureBound
  <1>11. CASE UNCHANGED <<pc, failures, state>>
    BY <1>0, <1>11 DEF FailureBound, Count, Closers, Unzeroed
  <1>12. ASSUME NEW t \in Timers, TimerExit(t) PROVE FailureBound'
    BY <1>11, <1>12 DEF TimerExit, counters
  <1> QED
    BY <1>1, <1>2, <1>3, <1>4, <1>5, <1>6, <1>7, <1>8, <1>9, <1>10, <1>11, <1>12
       DEF BreakerNext, InBreaker, Outcome, Reject, breakerVars, counters, timer

LEMMA SuccessKept ==
  ASSUME SuccessBound, successes' = successes, state' = state,
         Count("close")' = Count("close") \/ state # "halfOpen",
         Count("winAdd")' = Count("winAdd") \/ state = "halfOpen",
         (UnzeroedS = {}) <=> (UnzeroedS' = {})
  PROVE  SuccessBound'
  <1>1. /\ Count("close") \in Nat /\ Count("winAdd") \in Nat
        /\ N' = N /\ MaxSuccesses' = MaxSuccesses /\ MaxStart' = MaxStart
    BY BoundTypes DEF N, MaxSuccesses, MaxStart
  <1> QED BY <1>1 DEF SuccessBound

(* A move of one worker that is not about to count or to close.            *)
LEMMA SuccessMove ==
  ASSUME TypeOK, SuccessBound, NEW w \in Workers, NEW b, GoTo(w, b),
         successes' = successes, state' = state,
         pc[w] \notin {"close", "winAdd"}, b # "close", b = "winAdd" => state = "halfOpen",
         pc[w] \in {"tripZeroS", "reopenZeroS"} <=> b \in {"tripZeroS", "reopenZeroS"}
  PROVE  SuccessBound'
  <1>1. pc' = [pc EXCEPT ![w] = b] /\ pc \in [Workers -> Steps]
    BY DEF GoTo, TypeOK
  <1>2. Count("close")' = Count("close") /\ (Count("winAdd")' = Count("winAdd") \/ state = "halfOpen")
    BY CountMove
  <1>3. (UnzeroedS = {}) <=> (UnzeroedS' = {})
    BY <1>1 DEF UnzeroedS
  <1> QED BY <1>2, <1>3, SuccessKept

LEMMA SuccessStep == ASSUME IInv, SuccessBound, [BreakerNext]_breakerVars PROVE SuccessBound'
  <1> USE DEF IInv
  <1>0. /\ Count("close") \in Nat /\ Count("winAdd") \in Nat /\ N \in Nat /\ successes \in Nat
        /\ Target \in Nat /\ Target >= 1
        /\ MaxStart \in Int /\ MaxStart >= Target - 1 /\ MaxStart >= N - 1
        /\ MaxSuccesses = MaxStart + N /\ N' = N /\ MaxStart' = MaxStart
        /\ MaxSuccesses' = MaxSuccesses
    BY BoundTypes DEF N, MaxSuccesses, MaxStart, SuccessBound
  <1>t. pc \in [Workers -> Steps] /\ state \in States
    BY DEF TypeOK
  <1>1. ASSUME NEW w \in Workers,
               \/ Allow(w) \/ IngestNeutral(w) \/ FailHalf(w) \/ TripStop(w) \/ Start(w)
               \/ WinDec(w)
        PROVE  SuccessBound'
    BY <1>1, SuccessMove DEF Allow, IngestNeutral, FailHalf, TripStop, Start, WinDec, AtStep, counters
  <1>2. ASSUME NEW w \in Workers, RecordFailure(w) \/ RecordSuccess(w) \/ FailAdd(w)
        PROVE  SuccessBound'
    <2>1. PICK b \in {"idle", "failHalf", "failAdd", "winAdd", "winDec", "trip"} :
            /\ GoTo(w, b) /\ pc[w] \in {"call", "failAdd"} /\ state' = state
            /\ successes' = successes
            /\ b = "winAdd" => state = "halfOpen"
      BY <1>2, <1>t DEF RecordFailure, RecordSuccess, FailAdd, AtStep, counters, States
    <2> QED BY <2>1, SuccessMove
  <1>3. ASSUME NEW w \in Workers, ZeroFailures(w) PROVE SuccessBound'
    BY <1>3, SuccessMove DEF ZeroFailures, AfterZeroF
  <1>4. ASSUME NEW w \in Workers, Reopen(w) \/ Trip(w) PROVE SuccessBound'
    <2>1. pc[w] \in {"reopen", "trip"} /\ successes' = successes
      BY <1>4 DEF Reopen, Trip, AtStep, CompareAndSwap, counters
    <2>2. CASE state' = state
      <3>1. GoTo(w, "idle")
        BY <1>4, <2>2 DEF Reopen, Trip, CompareAndSwap
      <3> QED BY <2>1, <2>2, <3>1, SuccessMove
    <2>3. CASE state' # state
      <3>1. PICK b \in {"reopenZeroS", "tripZeroS"} : GoTo(w, b)
        BY <1>4, <2>3 DEF Reopen, Trip, CompareAndSwap
      <3>2. state \in {"closed", "halfOpen"} /\ state' = "open"
        BY <1>4, <2>3 DEF Reopen, Trip, CompareAndSwap
      <3>3. UnzeroedS' # {} /\ Count("winAdd")' = Count("winAdd")
        BY <1>t, <2>1, <3>1, CountMove DEF GoTo, UnzeroedS
      <3>4. Count("close") + Count("winAdd") <= N
        BY CountRoom
      <3>5. successes + Count("winAdd") <= MaxSuccesses
        BY <1>0, <3>2, <3>4 DEF SuccessBound
      <3> QED BY <1>0, <2>1, <3>2, <3>3, <3>5 DEF SuccessBound
    <2> QED BY <2>2, <2>3
  <1>5. ASSUME NEW w \in Workers, SwapClosed(w) PROVE SuccessBound'
    <2>1. pc[w] = "close" /\ successes' = successes
      BY <1>5 DEF SwapClosed, AtStep, CompareAndSwap, counters
    <2>2. CASE state = "halfOpen"
      <3>1. GoTo(w, "closeZeroS") /\ state' = "closed"
        BY <1>5, <2>2 DEF SwapClosed, CompareAndSwap
      <3>2. Count("winAdd")' = Count("winAdd") /\ Count("close") + Count("winAdd") <= N
        BY <2>1, <3>1, CountMove, CountRoom
      <3>3. successes + Count("winAdd") <= MaxSuccesses
        BY <1>0, <2>2, <3>2 DEF SuccessBound
      <3> QED BY <1>0, <2>1, <3>1, <3>2, <3>3 DEF SuccessBound
    <2>3. CASE state # "halfOpen"
      <3>1. GoTo(w, "idle") /\ state' = state
        BY <1>5, <2>3 DEF SwapClosed, CompareAndSwap
      <3>2. Count("winAdd")' = Count("winAdd") /\ UnzeroedS' = UnzeroedS
        BY <1>t, <2>1, <3>1, CountMove DEF GoTo, UnzeroedS
      <3> QED BY <2>1, <2>3, <3>1, <3>2, SuccessKept
    <2> QED BY <2>2, <2>3
  <1>6. ASSUME NEW w \in Workers, WinAdd(w) PROVE SuccessBound'
    <2>1. /\ pc[w] = "winAdd" /\ successes' = successes + 1 /\ state' = state
          /\ GoTo(w, IF successes + 1 >= Target THEN "close" ELSE "idle")
      BY <1>6 DEF WinAdd, AtStep
    <2>2. /\ Count("winAdd")' = Count("winAdd") - 1 /\ UnzeroedS' = UnzeroedS
          /\ Count("close")' = IF successes + 1 >= Target THEN Count("close") + 1 ELSE Count("close")
      <3>1. CASE successes + 1 >= Target
        <4>1. GoTo(w, "close")
          BY <2>1, <3>1
        <4> QED BY <1>t, <2>1, <3>1, <4>1, CountMove DEF GoTo, UnzeroedS
      <3>2. CASE ~(successes + 1 >= Target)
        <4>1. GoTo(w, "idle")
          BY <2>1, <3>2
        <4> QED BY <1>t, <2>1, <3>2, <4>1, CountMove DEF GoTo, UnzeroedS
      <3> QED BY <3>1, <3>2
    <2> QED BY <1>0, <2>1, <2>2 DEF SuccessBound
  <1>7. ASSUME NEW w \in Workers, ZeroSuccesses(w) PROVE SuccessBound'
    <2>1. PICK b \in {"reopenZeroF", "tripZeroF", "closeZeroF"} :
            /\ GoTo(w, b) /\ pc[w] \in {"reopenZeroS", "tripZeroS", "closeZeroS"}
            /\ successes' = 0 /\ state' = state
      BY <1>7 DEF ZeroSuccesses, AfterZeroS
    <2>2. Count("winAdd")' = Count("winAdd") /\ Count("close")' = Count("close")
      BY <2>1, CountMove
    <2>3. Count("winAdd") <= N - 1
      BY <2>1, CountRoom
    <2> QED BY <1>0, <2>1, <2>2, <2>3 DEF SuccessBound
  <1>8. ASSUME NEW t \in Timers, TimerFire(t) PROVE SuccessBound'
    <2>1. t \in alive /\ state' = "halfOpen" /\ successes' = successes /\ pc' = pc
      BY <1>8 DEF TimerFire, counters
    <2>2. state = "open" /\ UnzeroedS = {}
      BY <2>1 DEF TimerOnlyWhileOpen, Starters, UnzeroedS
    <2>3. Count("winAdd")' = Count("winAdd") /\ Count("close")' = Count("close")
      BY <2>1 DEF Count
    <2> QED BY <1>0, <2>1, <2>2, <2>3 DEF SuccessBound
  <1>9. CASE UNCHANGED <<pc, successes, state>>
    BY <1>9, SuccessKept DEF Count, UnzeroedS
  <1>10. ASSUME NEW t \in Timers, TimerExit(t) PROVE SuccessBound'
    BY <1>9, <1>10 DEF TimerExit, counters
  <1> QED
    BY <1>1, <1>2, <1>3, <1>4, <1>5, <1>6, <1>7, <1>8, <1>9, <1>10
       DEF BreakerNext, InBreaker, Outcome, Reject, breakerVars, counters, timer

(* No interleaving of additions, decrements, compare-and-swaps and resets  *)
(* takes a counter below zero or above a bound that the thresholds and the *)
(* number of workers fix, however many cycles the breaker goes through.    *)
THEOREM BreakerCounters == BreakerSpec => []CountersBounded
  <1>1. BreakerInit => FailureBound /\ SuccessBound
    <2> SUFFICES ASSUME BreakerInit PROVE FailureBound /\ SuccessBound
      OBVIOUS
    <2>1. /\ Count("trip") \in Nat /\ Threshold \in Nat /\ Threshold >= 1
          /\ MaxSuccesses = MaxStart + N /\ MaxStart >= N - 1 /\ MaxStart \in Int /\ N \in Nat
          /\ MaxStart >= Target - 1 /\ Target \in Nat /\ Target >= 1
      BY BoundTypes
    <2>2. {w \in Workers : pc[w] = "winAdd"} = {}
      BY DEF BreakerInit
    <2>3. Count("winAdd") = 0
      BY <2>2, FS_EmptySet DEF Count
    <2> QED BY <2>1, <2>3 DEF BreakerInit, FailureBound, SuccessBound
  <1>2. IInv /\ FailureBound /\ SuccessBound /\ [BreakerNext]_breakerVars => FailureBound' /\ SuccessBound'
    BY FailureStep, SuccessStep
  <1>3. ASSUME IInv, FailureBound, SuccessBound PROVE CountersBounded
    <2>0. \A s \in Steps : Count(s) \in Nat /\ Count(s) <= N
      BY CountType
    <2>1. /\ Count("trip") \in Nat /\ Count("failAdd") \in Nat /\ Count("close") \in Nat
          /\ Count("winAdd") \in Nat /\ Count("trip") <= N /\ Count("close") <= N
      BY <2>0 DEF Steps
    <2>2. /\ N \in Nat /\ Threshold \in Nat /\ MaxFailures \in Int /\ Threshold >= 1
          /\ MaxFailures >= Threshold - 1 + N /\ MaxFailures >= N - 2 + N
          /\ MaxSuccesses = MaxStart + N /\ MaxStart \in Int /\ MaxStart >= N - 1
          /\ MaxStart >= Target - 1 /\ Target \in Nat /\ Target >= 1
      BY BoundTypes
    <2>3. Closers # {} => Count("trip") <= N - 1
      BY CountRoom DEF Closers
    <2>4. state \in {"closed", "open", "halfOpen"}
      BY <1>3 DEF IInv, TypeOK, States
    <2>5. failures \in 0..MaxFailures
      BY <1>3, <2>1, <2>2, <2>3, <2>4 DEF FailureBound
    <2>6. successes \in 0..MaxSuccesses
      BY <1>3, <2>1, <2>2, <2>4 DEF SuccessBound
    <2> QED BY <2>5, <2>6 DEF CountersBounded
  <1> QED BY <1>1, <1>2, <1>3, BreakerInvariant, PTL DEF BreakerSpec

=============================================================================
