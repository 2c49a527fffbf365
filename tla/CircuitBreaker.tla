---------------------------- MODULE CircuitBreaker ----------------------------
(***************************************************************************)
(* resilience.CircuitBreaker, shared by the parser's worker goroutines     *)
(* through ResilientIngester.Ingest                                        *)
(* (go-ingestion/internal/resilience/circuit_breaker.go and                *)
(* go-ingestion/internal/worker/ingester/resilient.go).                    *)
(*                                                                         *)
(* The breaker is lock-free but for its timer channel: each action is one  *)
(* atomic load, store, add or compare-and-swap, or one critical section of *)
(* mu, so that whatever the Go scheduler interleaves happens here too.     *)
(***************************************************************************)
EXTENDS Integers, FiniteSets

CONSTANTS
    Workers,     \* goroutines that call Ingest
    Timers,      \* names for timer goroutines and their stop channels
    NoTimer,     \* a nil stopCh
    Threshold,   \* failures that open the breaker
    Target       \* halfOpenSuccessTarget

ASSUME BreakerAssumption ==
    /\ NoTimer \notin Timers
    /\ IsFiniteSet(Workers)
    /\ {Threshold, Target} \subseteq Nat \ {0}

VARIABLES
    state,       \* closed, open or halfOpen
    failures, successes,
    stopCh,      \* the timer whose channel cb.stopCh is, or NoTimer
    alive,       \* timer goroutines that have not returned
    stopped,     \* those of them whose channel is closed
    pc           \* worker -> its next step

counters    == <<failures, successes>>
timer       == <<stopCh, alive, stopped>>
breakerVars == <<state, counters, timer, pc>>

States == {"closed", "open", "halfOpen"}

(* Where a worker is.  idle and call are outside the breaker; fail* are in *)
(* RecordFailure with a state read as half-open (failHalf, reopen) or as   *)
(* closed (failAdd, trip); win* are in RecordSuccess.  zero* reset the     *)
(* counters after a won compare-and-swap.                                  *)
Steps == {"idle", "call",
          "failHalf", "reopen", "reopenZeroS", "reopenZeroF", "reopenStart",
          "failAdd", "trip", "tripZeroS", "tripZeroF", "tripStop", "tripStart",
          "winAdd", "close", "closeZeroS", "closeZeroF", "winDec"}

BreakerInit ==
    /\ state = "closed"
    /\ failures = 0 /\ successes = 0
    /\ stopCh = NoTimer
    /\ alive = {} /\ stopped = {}
    /\ pc = [w \in Workers |-> "idle"]

AtStep(w, s) == pc[w] = s
GoTo(w, s) == pc' = [pc EXCEPT ![w] = s]

-----------------------------------------------------------------------------
(* Timer.  Closing the channel of a goroutine that already returned has no *)
(* effect.                                                                 *)
StopTimer ==
    /\ stopped' = stopped \cup ({stopCh} \cap alive)
    /\ stopCh' = NoTimer
    /\ UNCHANGED alive

(* startTimer overwrites stopCh without closing the channel it held.       *)
StartTimer ==
    /\ \E t \in Timers \ (alive \cup {stopCh}) :
          /\ stopCh' = t
          /\ alive' = alive \cup {t}
    /\ UNCHANGED stopped

(* The goroutine's select.  When the channel is closed about the time the  *)
(* delay is over both cases may be ready and either is taken; the store is *)
(* unconditional.                                                          *)
TimerFire(t) ==
    /\ t \in alive
    /\ state' = "halfOpen"
    /\ alive' = alive \ {t}
    /\ stopped' = stopped \ {t}
    /\ UNCHANGED <<counters, stopCh, pc>>

TimerExit(t) ==
    /\ t \in stopped
    /\ alive' = alive \ {t}
    /\ stopped' = stopped \ {t}
    /\ UNCHANGED <<state, counters, stopCh, pc>>

-----------------------------------------------------------------------------
(* ResilientIngester.Ingest.                                               *)

(* Allow: an open breaker rejects the call and nothing is recorded.        *)
Allow(w) ==
    /\ AtStep(w, "idle")
    /\ state # "open"
    /\ GoTo(w, "call")
    /\ UNCHANGED <<state, counters, timer>>

Reject(w) ==
    /\ AtStep(w, "idle")
    /\ state = "open"
    /\ UNCHANGED breakerVars

(* A duplicate or invalid match says nothing about the database.           *)
IngestNeutral(w) ==
    /\ AtStep(w, "call")
    /\ GoTo(w, "idle")
    /\ UNCHANGED <<state, counters, timer>>

(* Ingest failed: the load at the top of RecordFailure.                    *)
RecordFailure(w) ==
    /\ AtStep(w, "call")
    /\ GoTo(w, CASE state = "open" -> "idle"
                 [] state = "halfOpen" -> "failHalf"
                 [] state = "closed" -> "failAdd")
    /\ UNCHANGED <<state, counters, timer>>

(* Bug variant: a half-open breaker is treated like a closed one.          *)
RecordSuccessNoTrial(w) ==
    /\ AtStep(w, "call")
    /\ GoTo(w, IF state = "open" THEN "idle" ELSE "winDec")
    /\ UNCHANGED <<state, counters, timer>>

(* Ingest succeeded: the load at the top of RecordSuccess.                 *)
RecordSuccess(w) ==
    /\ AtStep(w, "call")
    /\ GoTo(w, CASE state = "open" -> "idle"
                 [] state = "halfOpen" -> "winAdd"
                 [] state = "closed" -> "winDec")
    /\ UNCHANGED <<state, counters, timer>>

-----------------------------------------------------------------------------
(* RecordFailure.                                                          *)

(* The timer is stopped before it is known whether the breaker is still    *)
(* half-open.                                                              *)
FailHalf(w) ==
    /\ AtStep(w, "failHalf")
    /\ StopTimer
    /\ GoTo(w, "reopen")
    /\ UNCHANGED <<state, counters>>

CompareAndSwap(w, old, new, won) ==
    /\ IF state = old THEN state' = new /\ GoTo(w, won)
                      ELSE UNCHANGED state /\ GoTo(w, "idle")
    /\ UNCHANGED <<counters, timer>>

Reopen(w) == AtStep(w, "reopen") /\ CompareAndSwap(w, "halfOpen", "open", "reopenZeroS")

FailAdd(w) ==
    /\ AtStep(w, "failAdd")
    /\ failures' = failures + 1
    /\ GoTo(w, IF failures + 1 >= Threshold THEN "trip" ELSE "idle")
    /\ UNCHANGED <<state, successes, timer>>

(* Bug variant: a plain store instead of the compare-and-swap.             *)
TripStore(w) ==
    /\ AtStep(w, "trip")
    /\ state' = "open"
    /\ GoTo(w, "tripZeroS")
    /\ UNCHANGED <<counters, timer>>

Trip(w) == AtStep(w, "trip") /\ CompareAndSwap(w, "closed", "open", "tripZeroS")

TripStop(w) ==
    /\ AtStep(w, "tripStop")
    /\ StopTimer
    /\ GoTo(w, "tripStart")
    /\ UNCHANGED <<state, counters>>

Start(w) ==
    /\ pc[w] \in {"reopenStart", "tripStart"}
    /\ StartTimer
    /\ GoTo(w, "idle")
    /\ UNCHANGED <<state, counters>>

-----------------------------------------------------------------------------
(* RecordSuccess.                                                          *)

WinAdd(w) ==
    /\ AtStep(w, "winAdd")
    /\ successes' = successes + 1
    /\ GoTo(w, IF successes + 1 >= Target THEN "close" ELSE "idle")
    /\ UNCHANGED <<state, failures, timer>>

(* Bug variant: a plain store instead of the compare-and-swap.             *)
CloseStore(w) ==
    /\ AtStep(w, "close")
    /\ state' = "closed"
    /\ GoTo(w, "closeZeroS")
    /\ UNCHANGED <<counters, timer>>

SwapClosed(w) == AtStep(w, "close") /\ CompareAndSwap(w, "halfOpen", "closed", "closeZeroS")

(* Bug variant: decrements without looking.                                *)
WinDecUnchecked(w) ==
    /\ AtStep(w, "winDec")
    /\ failures' = failures - 1
    /\ GoTo(w, "idle")
    /\ UNCHANGED <<state, successes, timer>>

(* The load/compare-and-swap loop is one atomic decrement of a positive    *)
(* counter.                                                                *)
WinDec(w) ==
    /\ AtStep(w, "winDec")
    /\ failures' = IF failures <= 0 THEN failures ELSE failures - 1
    /\ GoTo(w, "idle")
    /\ UNCHANGED <<state, successes, timer>>

-----------------------------------------------------------------------------
(* The winner of a compare-and-swap stores 0 in one counter, then in the   *)
(* other, while others go on counting.                                     *)
AfterZeroS(s) ==
    CASE s = "reopenZeroS" -> "reopenZeroF"
      [] s = "tripZeroS"   -> "tripZeroF"
      [] s = "closeZeroS"  -> "closeZeroF"

AfterZeroF(s) ==
    CASE s = "reopenZeroF" -> "reopenStart"
      [] s = "tripZeroF"   -> "tripStop"
      [] s = "closeZeroF"  -> "idle"

ZeroSuccesses(w) ==
    /\ pc[w] \in {"reopenZeroS", "tripZeroS", "closeZeroS"}
    /\ successes' = 0
    /\ GoTo(w, AfterZeroS(pc[w]))
    /\ UNCHANGED <<state, failures, timer>>

ZeroFailures(w) ==
    /\ pc[w] \in {"reopenZeroF", "tripZeroF", "closeZeroF"}
    /\ failures' = 0
    /\ GoTo(w, AfterZeroF(pc[w]))
    /\ UNCHANGED <<state, successes, timer>>

-----------------------------------------------------------------------------
InBreaker(w) ==
    \/ FailHalf(w) \/ Reopen(w) \/ FailAdd(w) \/ Trip(w) \/ TripStop(w) \/ Start(w)
    \/ WinAdd(w) \/ SwapClosed(w) \/ WinDec(w) \/ ZeroSuccesses(w) \/ ZeroFailures(w)

Outcome(w) == IngestNeutral(w) \/ RecordFailure(w) \/ RecordSuccess(w)

BreakerNext ==
    \/ \E w \in Workers : Allow(w) \/ Reject(w) \/ Outcome(w) \/ InBreaker(w)
    \/ \E t \in Timers : TimerFire(t) \/ TimerExit(t)

BreakerSpec == BreakerInit /\ [][BreakerNext]_breakerVars

(* The queue always has another match to ingest, an ingest returns, a      *)
(* goroutine inside the breaker runs on, a timer elapses or sees its       *)
(* channel closed.                                                         *)
BreakerFairSpec ==
    /\ BreakerSpec
    /\ \A w \in Workers : WF_breakerVars(Allow(w))
    /\ \A w \in Workers : WF_breakerVars(Outcome(w))
    /\ \A w \in Workers : WF_breakerVars(InBreaker(w))
    /\ \A t \in Timers : WF_breakerVars(TimerFire(t) \/ TimerExit(t))

-----------------------------------------------------------------------------
TypeOK ==
    /\ state \in States
    /\ failures \in Int /\ successes \in Int
    /\ stopCh \in Timers \cup {NoTimer}
    /\ alive \subseteq Timers
    /\ stopped \subseteq alive
    /\ pc \in [Workers -> Steps]

(* The workers between the compare-and-swap that opened the breaker and    *)
(* the start of its timer.                                                 *)
Starters ==
    {w \in Workers : pc[w] \in {"reopenZeroS", "reopenZeroF", "reopenStart",
                                "tripZeroS", "tripZeroF", "tripStop", "tripStart"}}

(* startTimer replaces the channel of the last timer without closing it    *)
(* and the goroutine stores half-open without looking.  All the same there *)
(* is never more than one timer, counting the one a worker is about to     *)
(* start, and only while the breaker is open: no left-over timer takes a   *)
(* closed or half-open breaker back to half-open.                          *)
TimerOnlyWhileOpen ==
    /\ \A s, t \in alive : s = t
    /\ \A v, w \in Starters : v = w
    /\ alive = {} \/ Starters = {}
    /\ alive \cup Starters # {} => state = "open"

(* How far the counters can go.  Workers that read the state before the    *)
(* breaker left it add to a counter that was reset meanwhile, and what     *)
(* they leave there is the start of the next round, in which every worker  *)
(* may add once more before the one that reached the limit has swapped the *)
(* state.  A round of failures starts while the worker that closed the     *)
(* breaker has yet to clear them, so one worker fewer takes part in it.    *)
Larger(a, b) == IF a > b THEN a ELSE b
MaxFailures  == Larger(Threshold - 1, Cardinality(Workers) - 2) + Cardinality(Workers)
MaxSuccesses == Larger(Target - 1, Cardinality(Workers) - 1) + Cardinality(Workers)

(* The failure and success counters are reset by plain stores that race    *)
(* with the workers' additions and decrements: neither ever goes below     *)
(* zero, nor drifts upwards from one cycle of the breaker to the next.     *)
CountersBounded ==
    /\ failures \in 0..MaxFailures
    /\ successes \in 0..MaxSuccesses

(* RecordFailure, RecordSuccess and the timer move the breaker only        *)
(* closed -> open -> halfOpen -> open or closed: no stale load or late     *)
(* timer skips the trial calls of a half-open breaker.                     *)
LegalTransitions ==
    [][/\ state' = "closed" => state = "halfOpen"
       /\ state' = "halfOpen" => state = "open"]_state

(* startTimer logs and stores HALF-OPEN halfOpenAfter later, and           *)
(* ResilientIngester is written so that the recovery is never prevented:   *)
(* an open breaker is tried again.                                         *)
OpenIsRetried == (state = "open") ~> (state = "halfOpen")

(* Once the database works for good (no more failures are recorded) and    *)
(* some worker keeps recording successes, the breaker closes and stays     *)
(* closed, whatever the racing additions and resets did to the counters.   *)
Recovers ==
    /\ <>[][\A w \in Workers : ~RecordFailure(w)]_breakerVars
    /\ \E w \in Workers : []<><<RecordSuccess(w)>>_breakerVars
    => <>[](state = "closed")

=============================================================================
