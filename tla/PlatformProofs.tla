---------------------------- MODULE PlatformProofs ----------------------------
(***************************************************************************)
(* Parts around the queues, for all values of their constants: the         *)
(* discoverer's scheduler and the ids it queues (Discoverer), the HTTP     *)
(* client (HttpDoer), the enricher's gate and the order of its sources     *)
(* (EnrichRunner).  They share no state; each section has the invariant of *)
(* its part.                                                               *)
(***************************************************************************)
EXTENDS HttpDoer, Discoverer, EnrichRunner, FiniteSetTheorems, WellFoundedInduction,
        TLAPS

(* What takes the place of induction: a least counterexample.              *)
LEMMA FirstOfNats ==
    ASSUME NEW S \in SUBSET Nat, S # {}
    PROVE  \E n \in S : \A k \in S : n <= k
  <1>1. \A k \in S, n \in S : ~(<<k, n>> \in OpToRel(<, Nat)) => n <= k
    BY DEF OpToRel
  <1>2. PICK n \in S : \A k \in S : <<k, n>> \notin OpToRel(<, Nat)
    BY NatLessThanWellFounded, WFMin
  <1> QED
    BY <1>1, <1>2

-----------------------------------------------------------------------------
(* Discoverer.  A list may be upserted over a newer one only if two runs   *)
(* of its cycle overlap.  The loop of Scheduler.Run is at the cycle whose  *)
(* first run is going on (FirstRun), and has left behind the cycles that   *)
(* have a ticker (Spawned); what a run has fetched is not older than what  *)
(* is stored (NotStale).                                                   *)
Whos == {"main", "ticker"}
Runs == [at : {"none", "sleep", "fetch", "write"}, got : Nat]

DiscTypeOK ==
    /\ main \in [i : Nat \ {0}, at : {"boot", "start", "first", "spawn"}]
    /\ main.at \in {"first", "spawn"} => main.i <= Len(Cycles)
    /\ main.at = "boot" => main.i = 1
    /\ run \in [Runners -> Runs]
    /\ edition \in [Kinds -> Nat] /\ stored \in [Kinds -> Nat]

Active(c, who) == run[<<c, who>>].at # "none"

FirstRun == \A c \in Kinds : Active(c, "main") => main.at = "first" /\ Cycles[main.i] = c

Spawned ==
    \A c \in Kinds : Active(c, "ticker") =>
       \E j \in 1..Len(Cycles) : j < main.i /\ Cycles[j] = c

NotStale ==
    \A c \in Kinds :
       /\ stored[c] <= edition[c]
       /\ \A who \in Whos : run[<<c, who>>].at = "write" =>
             stored[c] <= run[<<c, who>>].got /\ run[<<c, who>>].got <= edition[c]

DiscInv == DiscTypeOK /\ FirstRun /\ Spawned /\ NotStale

(* Cycles are distinct: one that has been left behind is not the current.  *)
LEMMA OneRun ==
    ASSUME DiscovererConstants, DiscInv, NEW c \in Kinds
    PROVE  ~(Active(c, "main") /\ Active(c, "ticker"))
  <1> SUFFICES ASSUME Active(c, "main"), Active(c, "ticker")
               PROVE  FALSE
    OBVIOUS
  <1>1. PICK j \in 1..Len(Cycles) : j < main.i /\ Cycles[j] = c
    BY DEF DiscInv, Spawned
  <1>2. main.at = "first" /\ Cycles[main.i] = c
    BY DEF DiscInv, FirstRun
  <1>3. main.i \in 1..Len(Cycles)
    BY <1>2 DEF DiscInv, DiscTypeOK, DiscovererConstants
  <1>4. j = main.i
    BY <1>1, <1>2, <1>3 DEF DiscovererConstants, IsInjective
  <1> QED
    BY <1>1, <1>3, <1>4

LEMMA CycleTyped ==
    ASSUME DiscovererConstants, DiscTypeOK, main.i <= Len(Cycles)
    PROVE  /\ main.i \in 1..Len(Cycles) /\ CurrentCycle \in Kinds
           /\ <<CurrentCycle, "main">> \in Runners /\ <<CurrentCycle, "ticker">> \in Runners
  <1>1. main.i \in 1..Len(Cycles)
    BY DEF DiscTypeOK, DiscovererConstants
  <1>2. CurrentCycle \in Kinds
    BY <1>1 DEF CurrentCycle, DiscovererConstants
  <1> QED
    BY <1>1, <1>2 DEF Runners

LEMMA DiscInitially ==
    ASSUME DiscovererConstants, DiscInit
    PROVE  DiscInv
  <1>0. NotRunning.at = "none"
    BY DEF NotRunning
  <1>1. \A c \in Kinds, who \in Whos : run[<<c, who>>] = NotRunning
    BY DEF DiscInit, Runners, Whos
  <1>2. DiscTypeOK
    BY DEF DiscInit, Booting, NotRunning, DiscTypeOK, Runs
  <1>8. \A c \in Kinds, who \in Whos : run[<<c, who>>].at = "none"
    BY <1>0, <1>1
  <1>3. \A c \in Kinds : ~Active(c, "main") /\ ~Active(c, "ticker")
    BY <1>8 DEF Active, Whos
  <1>6. FirstRun
    BY <1>3 DEF FirstRun
  <1>7. Spawned
    BY <1>3 DEF Spawned
  <1>4. \A c \in Kinds : stored[c] = 0 /\ edition[c] = 1
    BY DEF DiscInit
  <1>5. NotStale
    BY <1>4, <1>8 DEF NotStale
  <1> QED
    BY <1>2, <1>5, <1>6, <1>7 DEF DiscInv

LEMMA RunsTyped ==
    ASSUME DiscTypeOK
    PROVE  /\ run \in [Runners -> Runs]
           /\ \A d \in Kinds, v \in Whos : <<d, v>> \in Runners
  BY DEF DiscTypeOK, Runners, Whos

(* Scheduler.Run's loop: a cycle's ticker starts after its first run.      *)
LEMMA BootStep ==
    ASSUME DiscovererConstants, DiscInv, Boot
    PROVE  DiscInv'
  <1>1. /\ main.at = "boot" /\ main.i = 1 /\ main' = [i |-> 1, at |-> "start"]
        /\ UNCHANGED <<run, edition, stored>>
    BY DEF Boot, DiscInv, DiscTypeOK
  <1>2. DiscTypeOK'
    BY <1>1 DEF DiscInv, DiscTypeOK
  <1>3. FirstRun'
    BY <1>1 DEF DiscInv, FirstRun, Active
  <1>4. Spawned'
    BY <1>1 DEF DiscInv, Spawned, Active
  <1>5. NotStale'
    BY <1>1 DEF DiscInv, NotStale
  <1> QED
    BY <1>2, <1>3, <1>4, <1>5 DEF DiscInv

LEMMA StartStep ==
    ASSUME DiscovererConstants, DiscInv, StartCycle
    PROVE  DiscInv'
  <1>1. /\ main.at = "start" /\ main.i <= Len(Cycles)
        /\ main' = [main EXCEPT !.at = AfterStart] /\ UNCHANGED <<edition, stored>>
    BY DEF StartCycle
  <1>2. /\ DiscTypeOK /\ FirstRun /\ Spawned /\ NotStale
        /\ main \in [i : Nat \ {0}, at : {"boot", "start", "first", "spawn"}]
    BY DEF DiscInv, DiscTypeOK
  <1>3. /\ main.i \in 1..Len(Cycles) /\ CurrentCycle \in Kinds
        /\ <<CurrentCycle, "main">> \in Runners
    BY <1>1, <1>2, CycleTyped
  <1>4. \A c \in Kinds : ~Active(c, "main")
    BY <1>1, <1>2 DEF FirstRun
  <1>5. CASE CurrentCycle \in AtStart
    <2>1. main'.at = "first" /\ main'.i = main.i /\ main' \in [i : Nat \ {0}, at : {"first"}]
      BY <1>1, <1>2, <1>5 DEF AfterStart
    <2> DEFINE x == [run[<<CurrentCycle, "main">>] EXCEPT !.at = "fetch"]
    <2>2. x \in Runs /\ x.at = "fetch"
      BY <1>2, <1>3 DEF DiscTypeOK, Runs
    <2>3. run' = [run EXCEPT ![<<CurrentCycle, "main">>] = x]
      BY <1>5 DEF StartCycle
    <2> HIDE DEF x
    <2>4. PICK cur \in Kinds : cur = CurrentCycle
      BY <1>3
    <2>5. /\ run' \in [Runners -> Runs]
          /\ \A d \in Kinds, v \in Whos :
                run'[<<d, v>>] = IF d = cur /\ v = "main" THEN x ELSE run[<<d, v>>]
      <3>1. /\ run \in [Runners -> Runs]
            /\ \A d \in Kinds, v \in Whos : <<d, v>> \in Runners
        BY <1>2, RunsTyped
      <3> QED
        BY <2>2, <2>3, <2>4, <3>1 DEF Whos
    <2>6. DiscTypeOK'
      BY <1>1, <1>2, <1>3, <2>1, <2>5 DEF DiscTypeOK
    <2>7. FirstRun'
      BY <1>4, <2>1, <2>4, <2>5 DEF FirstRun, Active, Whos, CurrentCycle
    <2>8. Spawned'
      BY <1>2, <2>1, <2>5 DEF Spawned, Active, Whos
    <2>9. NotStale'
      BY <1>1, <1>2, <2>2, <2>5 DEF NotStale
    <2> QED
      BY <2>6, <2>7, <2>8, <2>9 DEF DiscInv
  <1>6. CASE CurrentCycle \notin AtStart
    <2>1. /\ main'.at = "spawn" /\ main'.i = main.i /\ main' \in [i : Nat \ {0}, at : {"spawn"}]
          /\ run' = run
      BY <1>1, <1>2, <1>6 DEF AfterStart, StartCycle
    <2>2. DiscTypeOK'
      BY <1>1, <1>2, <1>3, <2>1 DEF DiscTypeOK
    <2>3. FirstRun'
      BY <1>4, <2>1 DEF FirstRun, Active
    <2>4. Spawned'
      BY <1>2, <2>1 DEF Spawned, Active
    <2>5. NotStale'
      BY <1>1, <1>2, <2>1 DEF NotStale
    <2> QED
      BY <2>2, <2>3, <2>4, <2>5 DEF DiscInv
  <1> QED
    BY <1>5, <1>6

LEMMA SpawnStep ==
    ASSUME DiscovererConstants, DiscInv, Spawn
    PROVE  DiscInv'
  <1>1. /\ main.at = "spawn" /\ main' = [i |-> main.i + 1, at |-> "start"]
        /\ UNCHANGED <<edition, stored>>
    BY DEF Spawn
  <1>2. DiscTypeOK /\ FirstRun /\ Spawned /\ NotStale /\ main.i \in Nat \ {0}
    BY DEF DiscInv, DiscTypeOK
  <1>3. /\ main.i \in 1..Len(Cycles) /\ CurrentCycle \in Kinds
        /\ <<CurrentCycle, "ticker">> \in Runners
    BY <1>1, <1>2, CycleTyped DEF DiscTypeOK
  <1>4. \A c \in Kinds : ~Active(c, "main")
    BY <1>1, <1>2 DEF FirstRun
  <1>5. Len(Cycles) \in Nat
    BY DEF DiscovererConstants
  <1>6. PICK cur \in Kinds : cur = CurrentCycle
    BY <1>3
  <1>7. CASE CurrentCycle \in Repeated
    <2>1. Sleeping \in Runs /\ Sleeping.at = "sleep"
      BY DEF Sleeping, Runs
    <2>2. run' = [run EXCEPT ![<<cur, "ticker">>] = Sleeping]
      BY <1>6, <1>7 DEF Spawn
    <2>3. /\ run' \in [Runners -> Runs]
          /\ \A d \in Kinds, v \in Whos :
                run'[<<d, v>>] = IF d = cur /\ v = "ticker" THEN Sleeping ELSE run[<<d, v>>]
      <3>1. /\ run \in [Runners -> Runs]
            /\ \A d \in Kinds, v \in Whos : <<d, v>> \in Runners
        BY <1>2, RunsTyped
      <3> QED
        BY <2>1, <2>2, <3>1 DEF Whos
    <2>4. DiscTypeOK'
      BY <1>1, <1>2, <2>3 DEF DiscTypeOK
    <2>5. FirstRun'
      BY <1>4, <2>3 DEF FirstRun, Active, Whos
    <2>6. Spawned'
      <3>1. main.i < main'.i /\ Cycles[main.i] = cur /\ (\A j \in Nat : j < main.i => j < main'.i)
        BY <1>1, <1>2, <1>6 DEF CurrentCycle
      <3>2. SUFFICES ASSUME NEW c \in Kinds, Active(c, "ticker")'
                     PROVE  \E j \in 1..Len(Cycles) : j < main'.i /\ Cycles[j] = c
        BY DEF Spawned
      <3>3. CASE c = cur
        BY <1>3, <3>1, <3>3
      <3>4. CASE c # cur
        <4>1. Active(c, "ticker")
          BY <2>3, <3>2, <3>4 DEF Active, Whos
        <4>2. PICK j \in 1..Len(Cycles) : j < main.i /\ Cycles[j] = c
          BY <1>2, <4>1 DEF Spawned
        <4> QED
          BY <1>5, <3>1, <4>2
      <3> QED
        BY <3>3, <3>4
    <2>7. NotStale'
      BY <1>1, <1>2, <2>1, <2>3 DEF NotStale
    <2> QED
      BY <2>4, <2>5, <2>6, <2>7 DEF DiscInv
  <1>8. CASE CurrentCycle \notin Repeated
    <2>1. run' = run
      BY <1>8 DEF Spawn
    <2>2. DiscTypeOK'
      BY <1>1, <1>2, <2>1 DEF DiscTypeOK
    <2>3. FirstRun'
      BY <1>4, <2>1 DEF FirstRun, Active
    <2>4. Spawned'
      BY <1>1, <1>2, <2>1 DEF Spawned, Active
    <2>5. NotStale'
      BY <1>1, <1>2, <2>1 DEF NotStale
    <2> QED
      BY <2>2, <2>3, <2>4, <2>5 DEF DiscInv
  <1> QED
    BY <1>7, <1>8

(* runCycle returns: Scheduler.Run goes on, or the ticker waits again.      *)
LEMMA EndStep ==
    ASSUME DiscovererConstants, DiscInv, NEW c \in Kinds, NEW who \in Whos, NEW ok,
           Active(c, who), RunEnds(c, who, ok)
    PROVE  /\ DiscTypeOK /\ UNCHANGED <<edition, stored>> => DiscTypeOK'
           /\ FirstRun' /\ Spawned'
           /\ \A d \in Kinds, v \in Whos :
                 /\ d = c /\ v = who => run'[<<d, v>>].at # "write"
                 /\ ~(d = c /\ v = who) => run'[<<d, v>>] = run[<<d, v>>]
           /\ run' \in [Runners -> Runs]
           /\ main' \in [i : Nat \ {0}, at : {"boot", "start", "first", "spawn"}]
           /\ main'.at \in {"first", "spawn"} => main'.i <= Len(Cycles)
           /\ main'.at = "boot" => main'.i = 1
  <1>0. PICK x : x = Returned(c, who, ok)
    OBVIOUS
  <1>1. x.at # "write" /\ (who = "main" => x.at = "none")
    BY <1>0 DEF Returned, Sleeping, NotRunning, Runs, Whos
  <1>9. x \in Runs
    BY <1>0 DEF Returned, Sleeping, NotRunning, Runs
  <1>10. run' = [run EXCEPT ![<<c, who>>] = x]
    BY <1>0 DEF RunEnds
  <1>2. /\ DiscTypeOK /\ FirstRun /\ Spawned
        /\ main \in [i : Nat \ {0}, at : {"boot", "start", "first", "spawn"}]
        /\ main.at \in {"first", "spawn"} => main.i <= Len(Cycles)
        /\ main.at = "boot" => main.i = 1
    BY DEF DiscInv, DiscTypeOK
  <1>3. /\ run' \in [Runners -> Runs]
        /\ \A d \in Kinds, v \in Whos :
              run'[<<d, v>>] = IF d = c /\ v = who THEN x ELSE run[<<d, v>>]
    <2>1. /\ run \in [Runners -> Runs]
          /\ \A d \in Kinds, v \in Whos : <<d, v>> \in Runners
      BY <1>2, RunsTyped
    <2> QED
      BY <1>9, <1>10, <2>1
  <1>4. /\ main' \in [i : Nat \ {0}, at : {"boot", "start", "first", "spawn"}]
        /\ main'.at \in {"first", "spawn"} => main'.i <= Len(Cycles)
        /\ main'.at = "boot" => main'.i = 1 /\ main'.i = main.i
        /\ main'.i = main.i
        /\ who = "ticker" => main' = main
    BY <1>2 DEF RunEnds
  <1>5. FirstRun'
    <2>1. CASE who = "main"
      <3>1. \A d \in Kinds : Active(d, "main") => d = c
        BY <1>2, <2>1 DEF FirstRun
      <3>2. \A d \in Kinds : ~Active(d, "main")'
        BY <1>1, <1>3, <2>1, <3>1 DEF Active, Whos
      <3> QED
        BY <3>2 DEF FirstRun
    <2>2. CASE who = "ticker"
      BY <1>2, <1>3, <1>4, <2>2 DEF FirstRun, Active, Whos
    <2> QED
      BY <2>1, <2>2 DEF Whos
  <1>6. \A d \in Kinds : Active(d, "ticker")' => Active(d, "ticker")
    BY <1>3 DEF Active, Whos
  <1>7. Spawned'
    BY <1>2, <1>4, <1>6 DEF Spawned
  <1>8. DiscTypeOK /\ UNCHANGED <<edition, stored>> => DiscTypeOK'
    BY <1>3, <1>4 DEF DiscTypeOK
  <1> QED
    BY <1>1, <1>3, <1>4, <1>5, <1>7, <1>8

LEMMA FailedRunSteps ==
    ASSUME DiscovererConstants, DiscInv, NEW c \in Kinds, NEW who \in Whos,
           RunFails(c, who)
    PROVE  DiscInv' /\ UNCHANGED stored
  <1>1. UNCHANGED <<edition, stored>> /\ Active(c, who)
    BY DEF RunFails, FetchFails, FetchEmpty, UpsertFails, Active
  <1>2. CASE UNCHANGED <<main, run>>
    BY <1>1, <1>2 DEF DiscInv, DiscTypeOK, FirstRun, Spawned, NotStale, Active
  <1>3. ASSUME NEW ok \in BOOLEAN, RunEnds(c, who, ok)
        PROVE  DiscInv'
    <2>1. /\ DiscTypeOK' /\ FirstRun' /\ Spawned'
          /\ \A d \in Kinds, v \in Whos :
                /\ d = c /\ v = who => run'[<<d, v>>].at # "write"
                /\ ~(d = c /\ v = who) => run'[<<d, v>>] = run[<<d, v>>]
      BY <1>1, <1>3, EndStep DEF DiscInv
    <2>2. NotStale'
      BY <1>1, <2>1 DEF DiscInv, NotStale
    <2> QED
      BY <2>1, <2>2 DEF DiscInv
  <1>4. UNCHANGED <<main, run>> \/ \E ok \in BOOLEAN : RunEnds(c, who, ok)
    BY DEF RunFails, FetchFails, FetchEmpty, UpsertFails
  <1> QED
    BY <1>1, <1>2, <1>3, <1>4

(* The list that is upserted was fetched by the one run of its cycle.      *)
LEMMA UpsertStep ==
    ASSUME DiscovererConstants, DiscInv, NEW c \in Kinds, NEW who \in Whos,
           UpsertList(c, who)
    PROVE  DiscInv' /\ (\A d \in Kinds : stored'[d] >= stored[d])
  <1>1. /\ run[<<c, who>>].at = "write" /\ Active(c, who) /\ RunEnds(c, who, TRUE)
        /\ stored' = [stored EXCEPT ![c] = run[<<c, who>>].got] /\ edition' = edition
    BY DEF UpsertList, Active
  <1>2. /\ DiscTypeOK /\ NotStale /\ <<c, who>> \in Runners
        /\ edition \in [Kinds -> Nat] /\ stored \in [Kinds -> Nat]
    BY DEF DiscInv, DiscTypeOK, Runners, Whos
  <1>3. run[<<c, who>>].got \in Nat
    BY <1>2 DEF DiscTypeOK, Runs
  <1>4. /\ stored[c] <= run[<<c, who>>].got /\ run[<<c, who>>].got <= edition[c]
        /\ stored' \in [Kinds -> Nat] /\ stored'[c] = run[<<c, who>>].got
        /\ \A d \in Kinds : d # c => stored'[d] = stored[d]
    BY <1>1, <1>2, <1>3 DEF NotStale
  <1>5. \A d \in Kinds : stored'[d] >= stored[d]
    BY <1>2, <1>3, <1>4
  <1>6. /\ FirstRun' /\ Spawned' /\ run' \in [Runners -> Runs]
        /\ main' \in [i : Nat \ {0}, at : {"boot", "start", "first", "spawn"}]
        /\ main'.at \in {"first", "spawn"} => main'.i <= Len(Cycles)
        /\ main'.at = "boot" => main'.i = 1
        /\ \A d \in Kinds, v \in Whos :
              /\ d = c /\ v = who => run'[<<d, v>>].at # "write"
              /\ ~(d = c /\ v = who) => run'[<<d, v>>] = run[<<d, v>>]
    BY <1>1, EndStep
  <1>7. DiscTypeOK'
    BY <1>1, <1>2, <1>4, <1>6 DEF DiscTypeOK
  <1>8. \A v \in Whos : run'[<<c, v>>].at # "write"
    <2>1. \A v \in Whos : v # who => ~Active(c, v)
      BY <1>1, OneRun DEF Whos
    <2> QED
      BY <1>6, <2>1 DEF Active
  <1>9. NotStale'
    BY <1>1, <1>2, <1>4, <1>6, <1>8 DEF NotStale
  <1> QED
    BY <1>5, <1>6, <1>7, <1>9 DEF DiscInv

LEMMA FetchStep ==
    ASSUME DiscovererConstants, DiscInv, NEW c \in Kinds, NEW who \in Whos,
           FetchList(c, who)
    PROVE  DiscInv' /\ UNCHANGED stored
  <1> DEFINE x == [at |-> "write", got |-> edition[c]]
  <1>1. /\ Active(c, who) /\ UNCHANGED <<main, edition, stored>>
        /\ run' = [run EXCEPT ![<<c, who>>] = x]
    BY DEF FetchList, Active
  <1>2. DiscTypeOK /\ FirstRun /\ Spawned /\ NotStale /\ edition[c] \in Nat
    BY DEF DiscInv, DiscTypeOK
  <1>3. x \in Runs /\ x.got = edition[c]
    BY <1>2 DEF Runs
  <1> HIDE DEF x
  <1>4. /\ run' \in [Runners -> Runs]
        /\ \A d \in Kinds, v \in Whos :
              run'[<<d, v>>] = IF d = c /\ v = who THEN x ELSE run[<<d, v>>]
    <2>1. /\ run \in [Runners -> Runs]
          /\ \A d \in Kinds, v \in Whos : <<d, v>> \in Runners
      BY <1>2, RunsTyped
    <2> QED
      BY <1>1, <1>3, <2>1
  <1>5. DiscTypeOK'
    BY <1>1, <1>2, <1>4 DEF DiscTypeOK
  <1>6. \A d \in Kinds, v \in Whos : Active(d, v)' => Active(d, v)
    BY <1>1, <1>4 DEF Active
  <1>7. FirstRun' /\ Spawned'
    BY <1>1, <1>2, <1>6 DEF FirstRun, Spawned, Whos
  <1>8. NotStale'
    <2>1. SUFFICES ASSUME NEW d \in Kinds, NEW v \in Whos, run'[<<d, v>>].at = "write"
                   PROVE  stored[d] <= run'[<<d, v>>].got /\ run'[<<d, v>>].got <= edition[d]
      BY <1>1, <1>2 DEF NotStale
    <2>2. CASE d = c /\ v = who
      BY <1>2, <1>3, <1>4, <2>2 DEF NotStale
    <2>3. CASE ~(d = c /\ v = who)
      BY <1>2, <1>4, <2>1, <2>3 DEF NotStale
    <2> QED
      BY <2>2, <2>3
  <1> QED
    BY <1>1, <1>2, <1>5, <1>7, <1>8 DEF DiscInv

(* A tick reaches only a ticker's goroutine that exists.                   *)
LEMMA WakeSteps ==
    ASSUME DiscovererConstants, DiscInv, NEW c \in Kinds, Wakes(c) \/ NewEdition(c)
    PROVE  DiscInv' /\ UNCHANGED stored
  <1>0. DiscTypeOK /\ FirstRun /\ Spawned /\ NotStale /\ <<c, "ticker">> \in Runners
    BY DEF DiscInv, Runners
  <1>1. CASE Tick(c)
    BY <1>0, <1>1 DEF Tick, DiscInv, DiscTypeOK, FirstRun, Spawned, NotStale, Active
  <1>2. CASE TakeTick(c)
    <2> DEFINE x == [run[<<c, "ticker">>] EXCEPT !.at = "fetch"]
    <2>1. x \in Runs /\ x.at = "fetch"
      BY <1>0 DEF DiscTypeOK, Runs
    <2>2. /\ Active(c, "ticker") /\ UNCHANGED <<main, edition, stored>>
          /\ run' = [run EXCEPT ![<<c, "ticker">>] = x]
      BY <1>2 DEF TakeTick, Active
    <2> HIDE DEF x
    <2>3. /\ run' \in [Runners -> Runs]
          /\ \A d \in Kinds, v \in Whos :
                run'[<<d, v>>] = IF d = c /\ v = "ticker" THEN x ELSE run[<<d, v>>]
      <3>1. /\ run \in [Runners -> Runs]
            /\ \A d \in Kinds, v \in Whos : <<d, v>> \in Runners
        BY <1>0, RunsTyped
      <3> QED
        BY <2>1, <2>2, <3>1 DEF Whos
    <2>4. DiscTypeOK'
      BY <1>0, <2>2, <2>3 DEF DiscTypeOK
    <2>5. \A d \in Kinds, v \in Whos : Active(d, v)' => Active(d, v)
      BY <2>2, <2>3 DEF Active
    <2>6. FirstRun' /\ Spawned'
      BY <1>0, <2>2, <2>5 DEF FirstRun, Spawned, Whos
    <2>7. NotStale'
      BY <1>0, <2>1, <2>2, <2>3 DEF NotStale
    <2> QED
      BY <2>2, <2>4, <2>6, <2>7 DEF DiscInv
  <1>3. CASE NewEdition(c)
    <2>1. /\ UNCHANGED <<main, run, stored>> /\ edition' \in [Kinds -> Nat]
          /\ edition \in [Kinds -> Nat] /\ stored \in [Kinds -> Nat]
          /\ \A d \in Kinds : edition'[d] = edition[d] \/ edition'[d] = edition[d] + 1
      BY <1>0, <1>3 DEF NewEdition, DiscTypeOK
    <2>2. DiscTypeOK' /\ FirstRun' /\ Spawned'
      BY <1>0, <2>1 DEF DiscTypeOK, FirstRun, Spawned, Active
    <2>3. \A d \in Kinds, v \in Whos : run[<<d, v>>].got \in Nat
      BY <1>0 DEF DiscTypeOK, Runs, Runners, Whos
    <2>4. NotStale'
      BY <1>0, <2>1, <2>3 DEF NotStale
    <2> QED
      BY <2>1, <2>2, <2>4 DEF DiscInv
  <1> QED
    BY <1>1, <1>2, <1>3 DEF Wakes

(* The process ends: no run is left, and what is stored stays.             *)
LEMMA GoneStep ==
    ASSUME DiscInv, Gone
    PROVE  DiscInv' /\ UNCHANGED stored
  <1>0. NotRunning.at = "none"
    BY DEF NotRunning
  <1>1. \A c \in Kinds, who \in Whos : run'[<<c, who>>] = NotRunning
    BY DEF Gone, Runners, Whos
  <1>2. DiscTypeOK' /\ UNCHANGED <<edition, stored>>
    BY DEF Gone, Booting, NotRunning, DiscInv, DiscTypeOK, Runs
  <1>7. \A c \in Kinds, who \in Whos : run'[<<c, who>>].at = "none"
    BY <1>0, <1>1
  <1>3. \A c \in Kinds, who \in Whos : ~Active(c, who)'
    BY <1>7 DEF Active
  <1>4. FirstRun'
    BY <1>3 DEF FirstRun, Whos
  <1>5. Spawned'
    BY <1>3 DEF Spawned, Whos
  <1>6. NotStale'
    BY <1>2, <1>7 DEF DiscInv, NotStale
  <1> QED
    BY <1>2, <1>4, <1>5, <1>6 DEF DiscInv

LEMMA DiscStep ==
    ASSUME DiscovererConstants, DiscInv, [DiscNext]_(discVars)
    PROVE  DiscInv' /\ [\A c \in Kinds : stored'[c] >= stored[c]]_(discVars)
  <1>0. \A c \in Kinds : stored[c] \in Nat
    BY DEF DiscInv, DiscTypeOK
  <1>1. CASE Schedule
    <2>1. DiscInv'
      BY <1>1, BootStep, StartStep, SpawnStep DEF Schedule
    <2>2. UNCHANGED stored
      BY <1>1 DEF Schedule, Boot, StartCycle, Spawn
    <2> QED
      BY <1>0, <2>1, <2>2
  <1>2. CASE DiscCrash
    BY <1>0, <1>2, GoneStep DEF DiscCrash
  <1>3. ASSUME NEW c \in Kinds, Wakes(c) \/ NewEdition(c)
        PROVE  DiscInv' /\ [\A d \in Kinds : stored'[d] >= stored[d]]_(discVars)
    BY <1>0, <1>3, WakeSteps
  <1>4. ASSUME NEW x \in Runners, RunOnce(x[1], x[2]) \/ RunFails(x[1], x[2])
        PROVE  DiscInv' /\ [\A d \in Kinds : stored'[d] >= stored[d]]_(discVars)
    <2>1. x[1] \in Kinds /\ x[2] \in Whos
      BY DEF Runners, Whos
    <2>2. CASE UpsertList(x[1], x[2])
      BY <2>1, <2>2, UpsertStep
    <2>3. CASE FetchList(x[1], x[2]) \/ RunFails(x[1], x[2])
      <3>1. DiscInv' /\ UNCHANGED stored
        BY <2>1, <2>3, FetchStep, FailedRunSteps
      <3> QED
        BY <1>0, <3>1
    <2>4. CASE Panic(x[1], x[2])
      <3>1. DiscInv' /\ UNCHANGED stored
        BY <2>4, GoneStep DEF Panic
      <3> QED
        BY <1>0, <3>1
    <2> QED
      BY <1>4, <2>2, <2>3, <2>4 DEF RunOnce
  <1>5. CASE UNCHANGED discVars
    BY <1>5 DEF discVars, DiscInv, DiscTypeOK, FirstRun, Spawned, NotStale, Active
  <1> QED
    BY <1>1, <1>2, <1>3, <1>4, <1>5 DEF DiscNext

(* For any cycles, intervals and number of faults, crashes and restarts: a *)
(* list that the discoverer fetched earlier is never upserted over one it  *)
(* fetched later, since a cycle's ticker starts only after its first run   *)
(* (Scheduler.Run).                                                        *)
THEOREM SchedulerNeverOlder ==
    ASSUME DiscovererConstants
    PROVE  DiscSpec => NeverOlder
  <1>1. DiscInit => DiscInv
    BY DiscInitially
  <1>2. DiscInv /\ [DiscNext]_(discVars)
          => DiscInv' /\ [\A c \in Kinds : stored'[c] >= stored[c]]_(discVars)
    BY DiscStep
  <1> QED
    BY <1>1, <1>2, PTL DEF DiscSpec, NeverOlder


(* The ids that the references carry are the ids that are listed.          *)
LEMMA RefsListed ==
    ASSUME NEW sweep, SweepOK(sweep)
    PROVE  /\ {ref.m : ref \in parseMatchRefs(sweep.listed)} = ListedIDs(sweep.listed)
           /\ \A ref \in parseMatchRefs(sweep.listed) :
                 \A r \in sweep.table : r.m = ref.m => Joins(ref, r)
<1>1. ASSUME NEW i \in DOMAIN sweep.listed
      PROVE  /\ {ref.m : ref \in Refs(sweep.listed[i])} =
                   (IF sweep.listed[i].id = <<>>
                    THEN {sweep.listed[i].ids[j] : j \in DOMAIN sweep.listed[i].ids}
                    ELSE {sweep.listed[i].id[1]}) \ {Unreadable}
             /\ \A ref \in Refs(sweep.listed[i]) :
                   \A r \in sweep.table : r.m = ref.m => Joins(ref, r)
  <2> DEFINE row == sweep.listed[i]
  <2>1. CASE row.id = <<>>
    <3>1. \A j \in DOMAIN row.ids : row.ids[j] \in Nat
      BY <2>1 DEF SweepOK
    <3>2. UNION {extractID(row.ids[j]) : j \in DOMAIN row.ids}
             = {row.ids[j] : j \in DOMAIN row.ids} \ {0}
      BY <3>1 DEF extractID
    <3>3. Refs(row) = {[m |-> x, start |-> 0] : x \in {row.ids[j] : j \in DOMAIN row.ids} \ {0}}
      BY <2>1, <3>2 DEF Refs
    <3>4. {ref.m : ref \in Refs(row)} = {row.ids[j] : j \in DOMAIN row.ids} \ {0}
      <4> DEFINE ids == {row.ids[j] : j \in DOMAIN row.ids} \ {0}
      <4>1. Refs(row) = {[m |-> x, start |-> 0] : x \in ids}  BY <3>3
      <4> HIDE DEF ids
      <4>2. \A ref \in Refs(row) : ref.m \in ids  BY <4>1
      <4>3. ASSUME NEW x \in ids  PROVE \E ref \in Refs(row) : ref.m = x
        <5>1. [m |-> x, start |-> 0] \in Refs(row)  BY <4>1
        <5> QED  BY <5>1
      <4>4. {ref.m : ref \in Refs(row)} = ids  BY <4>2, <4>3
      <4> QED  BY <4>4 DEF ids
    <3>5. \A ref \in Refs(row) : ref.start = 0  BY <3>3
    <3> QED  BY <2>1, <3>4, <3>5 DEF Unreadable, Joins
  <2>2. CASE row.id # <<>>
    <3>1. row.id[1] \in Nat  BY <2>2 DEF SweepOK
    <3>2. \A r \in sweep.table : r.m = row.id[1] => row.start \in {0, r.start}
      BY <2>2 DEF SweepOK
    <3>3. extractID(row.id[1]) = {row.id[1]} \ {0}  BY <3>1 DEF extractID
    <3>4. Refs(row) = {[m |-> x, start |-> row.start] : x \in {row.id[1]} \ {0}}
      BY <2>2, <3>3 DEF Refs
    <3>5. {ref.m : ref \in Refs(row)} = {row.id[1]} \ {0}
      <4> DEFINE ids == {row.id[1]} \ {0}
      <4>1. Refs(row) = {[m |-> x, start |-> row.start] : x \in ids}  BY <3>4
      <4> HIDE DEF ids
      <4>2. \A ref \in Refs(row) : ref.m \in ids  BY <4>1
      <4>3. ASSUME NEW x \in ids  PROVE \E ref \in Refs(row) : ref.m = x
        <5>1. [m |-> x, start |-> row.start] \in Refs(row)  BY <4>1
        <5> QED  BY <5>1
      <4>4. {ref.m : ref \in Refs(row)} = ids  BY <4>2, <4>3
      <4> QED  BY <4>4 DEF ids
    <3>6. \A ref \in Refs(row) : ref.m = row.id[1] /\ ref.start = row.start  BY <3>4
    <3> QED  BY <2>2, <3>2, <3>5, <3>6 DEF Unreadable, Joins
  <2> QED  BY <2>1, <2>2
<1> DEFINE F(i) == {ref.m : ref \in Refs(sweep.listed[i])}
           G(i) == IF sweep.listed[i].id = <<>>
                   THEN {sweep.listed[i].ids[j] : j \in DOMAIN sweep.listed[i].ids}
                   ELSE {sweep.listed[i].id[1]}
<1>2. ListedIDs(sweep.listed) = (UNION {G(i) : i \in DOMAIN sweep.listed}) \ {Unreadable}
  BY DEF ListedIDs
<1>3. {ref.m : ref \in parseMatchRefs(sweep.listed)} = UNION {F(i) : i \in DOMAIN sweep.listed}
  <2>1. \A x : x \in {ref.m : ref \in parseMatchRefs(sweep.listed)} <=>
               \E i \in DOMAIN sweep.listed : \E ref \in Refs(sweep.listed[i]) : x = ref.m
    BY DEF parseMatchRefs
  <2>2. \A x : x \in UNION {F(i) : i \in DOMAIN sweep.listed} <=>
               \E i \in DOMAIN sweep.listed : \E ref \in Refs(sweep.listed[i]) : x = ref.m
    OBVIOUS
  <2> QED  BY <2>1, <2>2
<1>5. \A i \in DOMAIN sweep.listed : F(i) = G(i) \ {Unreadable}  BY <1>1
<1>6. UNION {F(i) : i \in DOMAIN sweep.listed}
         = (UNION {G(i) : i \in DOMAIN sweep.listed}) \ {Unreadable}
  <2> HIDE DEF F, G
  <2> QED  BY <1>5
<1>7. \A ref \in parseMatchRefs(sweep.listed) :
         \A r \in sweep.table : r.m = ref.m => Joins(ref, r)
  BY <1>1 DEF parseMatchRefs
<1> QED  BY <1>2, <1>3, <1>6, <1>7

(* matches.Cycle.RunOnce: for whatever rows the explorer lists and         *)
(* whatever Redis and the matches table hold, the ids that are queued are  *)
(* those that neither filter that is up knows.                             *)
THEOREM QueueIsExact ==
    ASSUME On("queue") => SweepOK(probe)
    PROVE  QueuesTheUnknown
<1> SUFFICES ASSUME On("queue"), NEW redisUp \in BOOLEAN, NEW dbUp \in BOOLEAN
             PROVE  Queued(probe.listed, probe.seen, probe.table, redisUp, dbUp) =
                      (ListedIDs(probe.listed) \ (IF redisUp THEN probe.seen ELSE {}))
                      \ (IF dbUp THEN {r.m : r \in {t \in probe.table : t.parsed}} ELSE {})
  BY DEF QueuesTheUnknown
<1> DEFINE refs == parseMatchRefs(probe.listed)
           parsed == {r.m : r \in {t \in probe.table : t.parsed}}
           left == {ref \in refs : ~redisUp \/ ref.m \notin probe.seen}
<1>1. SweepOK(probe)  OBVIOUS
<1>2. {ref.m : ref \in refs} = ListedIDs(probe.listed)  BY <1>1, RefsListed
<1>3. ASSUME NEW ref \in refs  PROVE Unknown(ref, probe.table) <=> ref.m \notin parsed
  <2>1. {r \in probe.table : Joins(ref, r)} = {r \in probe.table : r.m = ref.m}
    BY <1>1, RefsListed DEF Joins
  <2>2. \A r, t \in probe.table : r.m = t.m => r = t  BY <1>1 DEF SweepOK
  <2> QED  BY <2>1, <2>2 DEF Unknown
<1>4. UnknownIDs(left, probe.table) = {ref.m : ref \in left} \ parsed
  BY <1>3 DEF UnknownIDs
<1>5. QueueCandidates(probe.listed, probe.seen, probe.table, redisUp, dbUp) =
         {ref \in left : ~dbUp \/ ref.m \in UnknownIDs(left, probe.table)}
  BY DEF QueueCandidates
<1>6. Queued(probe.listed, probe.seen, probe.table, redisUp, dbUp) =
         {ref.m : ref \in {x \in left : ~dbUp \/ x.m \notin parsed}}
  BY <1>4, <1>5 DEF Queued
<1>7. {ref.m : ref \in {x \in left : ~dbUp \/ x.m \notin parsed}} =
         ({ref.m : ref \in refs} \ (IF redisUp THEN probe.seen ELSE {}))
         \ (IF dbUp THEN parsed ELSE {})
  OBVIOUS
<1> QED  BY <1>2, <1>6, <1>7

-----------------------------------------------------------------------------
(* HttpDoer.  The cache is within its limit because each proxy's client is *)
(* in the list (InStep): an eviction, which goes by the list, makes room.  *)
(* The limit is the inductive one of the proxies' clients (Sized); the map *)
(* may have the direct client besides.  A call is where its lease and its  *)
(* answer say (CallOK).                                                    *)

(* f is the function by which Without keeps the keys of n places.          *)
Filters(order, gone, f, n) ==
    f = [i \in 0..n |-> IF i = 0 THEN <<>>
                        ELSE IF order[i] \in gone THEN f[i - 1] ELSE Append(f[i - 1], order[i])]

(* There is one, for every length.                                         *)
LEMMA FilterExists ==
    ASSUME NEW order, NEW gone, NEW m \in Nat
    PROVE  \E f : Filters(order, gone, f, m)
  <1> DEFINE Bad == {n \in Nat : ~ \E f : Filters(order, gone, f, n)}
  <1> SUFFICES ASSUME Bad # {}
               PROVE  FALSE
    OBVIOUS
  <1>1. PICK n \in Bad : \A k \in Bad : n <= k
    BY FirstOfNats
  <1>2. n # 0
    <2> SUFFICES ASSUME n = 0
                 PROVE  FALSE
      OBVIOUS
    <2>1. [i \in 0..0 |-> <<>>] =
            [i \in 0..0 |-> IF i = 0 THEN <<>>
                ELSE IF order[i] \in gone THEN [j \in 0..0 |-> <<>>][i - 1]
                     ELSE Append([j \in 0..0 |-> <<>>][i - 1], order[i])]
      OBVIOUS
    <2> QED
      BY <1>1, <2>1 DEF Filters
  <1>3. n \in Nat /\ n - 1 \in Nat /\ n - 1 \notin Bad
    BY <1>1, <1>2
  <1>4. PICK f : Filters(order, gone, f, n - 1)
    BY <1>3
  <1> DEFINE top == IF order[n] \in gone THEN f[n - 1] ELSE Append(f[n - 1], order[n])
             g == [i \in 0..n |-> IF i = n THEN top ELSE f[i]]
  <1>5. ASSUME NEW i \in 0..n
        PROVE  g[i] = IF i = 0 THEN <<>>
                      ELSE IF order[i] \in gone THEN g[i - 1] ELSE Append(g[i - 1], order[i])
    <2>1. CASE i = n
      <3>1. g[i - 1] = f[n - 1] /\ g[i] = top
        BY <1>3, <2>1
      <3> QED
        BY <1>2, <2>1, <3>1
    <2>2. CASE i = 0
      BY <1>2, <1>3, <1>4, <2>2 DEF Filters
    <2>3. CASE i # n /\ i # 0
      <3>1. i \in 0..(n - 1) /\ i - 1 \in 0..(n - 1) /\ i - 1 # n /\ i - 1 \in 0..n
        BY <1>3, <2>3
      <3>2. g[i] = f[i] /\ g[i - 1] = f[i - 1]
        BY <2>3, <3>1
      <3>3. f[i] = IF i = 0 THEN <<>>
                   ELSE IF order[i] \in gone THEN f[i - 1] ELSE Append(f[i - 1], order[i])
        BY <1>4, <3>1 DEF Filters
      <3> QED
        BY <3>2, <3>3
    <2> QED
      BY <2>1, <2>2, <2>3
  <1>6. Filters(order, gone, g, n)
    BY <1>5 DEF Filters
  <1> QED
    BY <1>1, <1>6

LEMMA FilterUsed ==
    ASSUME NEW order, NEW gone, Len(order) \in Nat
    PROVE  \E f : Filters(order, gone, f, Len(order)) /\ Without(order, gone) = f[Len(order)]
  <1>1. \E f : Filters(order, gone, f, Len(order))
    BY FilterExists
  <1>2. Filters(order, gone, CHOOSE f : Filters(order, gone, f, Len(order)), Len(order))
    BY <1>1
  <1>3. Without(order, gone) = (CHOOSE f : Filters(order, gone, f, Len(order)))[Len(order)]
    BY DEF Without, Filters
  <1> QED
    BY <1>2, <1>3

Listed(s) == {s[k] : k \in 1..Len(s)}
Distinct(s) == \A j, k \in 1..Len(s) : s[j] = s[k] => j = k

LEMMA Appended ==
    ASSUME NEW S, NEW s \in Seq(S), NEW e \in S, Distinct(s), e \notin Listed(s)
    PROVE  /\ Append(s, e) \in Seq(S) /\ Distinct(Append(s, e))
           /\ Listed(Append(s, e)) = Listed(s) \cup {e}
  <1> DEFINE t == Append(s, e)
  <1>1. /\ t \in Seq(S) /\ Len(t) = Len(s) + 1 /\ t[Len(s) + 1] = e /\ Len(s) \in Nat
        /\ \A k \in 1..Len(s) : t[k] = s[k]
    OBVIOUS
  <1> HIDE DEF t
  <1>2. \A k \in 1..Len(t) : k \in 1..Len(s) \/ k = Len(s) + 1
    BY <1>1
  <1>3. Listed(t) = Listed(s) \cup {e}
    <2>1. ASSUME NEW x \in Listed(t)
          PROVE  x \in Listed(s) \cup {e}
      BY <1>1, <1>2 DEF Listed
    <2>2. ASSUME NEW x \in Listed(s) \cup {e}
          PROVE  x \in Listed(t)
      <3>1. 1..Len(s) \subseteq 1..Len(t) /\ Len(s) + 1 \in 1..Len(t)
        BY <1>1
      <3> QED
        BY <1>1, <3>1 DEF Listed
    <2> QED
      BY <2>1, <2>2
  <1>4. Distinct(t)
    BY <1>1, <1>2 DEF Distinct, Listed
  <1> QED
    BY <1>1, <1>3, <1>4 DEF t

(* touchAccessOrder and evictIdleEntries: exactly the keys that go are     *)
(* gone, and none is there twice.                                          *)
LEMMA WithoutFilters ==
    ASSUME NEW S, NEW order \in Seq(S), NEW gone, Distinct(order)
    PROVE  /\ Without(order, gone) \in Seq(S) /\ Distinct(Without(order, gone))
           /\ Listed(Without(order, gone)) = Listed(order) \ gone
  <1> DEFINE n == Len(order)
             Before(i) == {order[j] : j \in 1..i}
  <1>1. n \in Nat
    OBVIOUS
  <1>2. PICK f : Filters(order, gone, f, n) /\ Without(order, gone) = f[n]
    BY <1>1, FilterUsed
  <1>3. /\ f[0] = <<>>
        /\ \A i \in 1..n : f[i] = IF order[i] \in gone THEN f[i - 1]
                                   ELSE Append(f[i - 1], order[i])
    <2>1. \A i \in 0..n : f[i] = IF i = 0 THEN <<>> ELSE IF order[i] \in gone THEN f[i - 1]
                                   ELSE Append(f[i - 1], order[i])
      BY <1>2 DEF Filters
    <2> QED
      BY <1>1, <2>1
  <1> DEFINE Right(i) == f[i] \in Seq(S) /\ Distinct(f[i]) /\ Listed(f[i]) = Before(i) \ gone
             Wrong == {i \in 0..n : ~Right(i)}
  <1>4. Wrong = {}
    <2> SUFFICES ASSUME Wrong # {}
                 PROVE  FALSE
      OBVIOUS
    <2>1. PICK i \in Wrong : \A k \in Wrong : i <= k
      <3>1. Wrong \in SUBSET Nat
        BY <1>1
      <3> QED
        BY <3>1, FirstOfNats
    <2>2. i # 0
      <3> SUFFICES Right(0)
        BY <2>1
      <3> QED
        BY <1>3 DEF Distinct, Listed
    <2>3. i \in 1..n /\ i - 1 \in 0..n /\ i - 1 \notin Wrong
      <3>1. i \in 0..n
        BY <2>1
      <3>2. i \in 1..n /\ i - 1 \in 0..n /\ ~(i <= i - 1)
        BY <1>1, <2>2, <3>1
      <3> HIDE DEF Wrong
      <3> QED
        BY <2>1, <3>2
    <2>4. Right(i - 1)
      BY <2>3
    <2>5. order[i] \in S /\ order[i] \notin Before(i - 1) /\ Before(i) = Before(i - 1) \cup {order[i]}
      <3>1. order[i] \in S
        BY <2>3
      <3>2. \A j \in 1..i : j \in 1..(i - 1) \/ j = i
        BY <1>1, <2>3
      <3>3. \A j \in 1..(i - 1) : j \in 1..n /\ j # i /\ j \in 1..i
        BY <1>1, <2>3
      <3>4. i \in 1..i
        BY <2>3
      <3>5. order[i] \notin Before(i - 1)
        BY <2>3, <3>3 DEF Distinct
      <3> QED
        BY <3>1, <3>2, <3>3, <3>4, <3>5
    <2> HIDE DEF Before
    <2>6. CASE order[i] \in gone
      <3>1. f[i] = f[i - 1] /\ Before(i) \ gone = Before(i - 1) \ gone
        BY <1>3, <2>3, <2>5, <2>6
      <3> QED
        BY <2>1, <2>4, <3>1
    <2>7. CASE order[i] \notin gone
      <3>1. f[i] = Append(f[i - 1], order[i])
        BY <1>3, <2>3, <2>7
      <3>2. /\ Append(f[i - 1], order[i]) \in Seq(S) /\ Distinct(Append(f[i - 1], order[i]))
            /\ Listed(Append(f[i - 1], order[i])) = Listed(f[i - 1]) \cup {order[i]}
        BY <2>4, <2>5, Appended
      <3> QED
        BY <2>1, <2>4, <2>5, <2>7, <3>1, <3>2
    <2> QED
      BY <2>6, <2>7
  <1>5. Right(n)
    <2>1. n \in 0..n
      BY <1>1
    <2> HIDE DEF Right, n
    <2> QED
      BY <1>4, <2>1
  <1> QED
    BY <1>2, <1>5 DEF Listed

CacheTypeOK ==
    /\ accessOrder \in Seq(Proxies) /\ transports \subseteq Proxies \cup {Direct}
    /\ IsFiniteSet(transports)

InStep == Listed(accessOrder) = transports \ {Direct} /\ Distinct(accessOrder)
Sized == Cardinality(transports \ {Direct}) <= MaxCache

CacheInv == CacheTypeOK /\ InStep /\ Sized

Held == {"client", "request", "release"}
Surfaced == {"release", "decide", "returned"}
CallSteps ==
    {"idle", "loop", "direct", "directRequest", "fallback", "fallbackRequest", "backoff"}
      \cup Held \cup Surfaced

CallTypeOK ==
    /\ dpc \in [Callers -> CallSteps]
    /\ lease \in [Callers -> Proxies \cup {None}]
    /\ mark \in [Callers -> {"none", "success", "failure"}]
    /\ answer \in [Callers -> Answers \cup {"none", "noproxy", "context"}]

CallOK(c) ==
    /\ lease[c] # None <=> dpc[c] \in Held
    /\ dpc[c] = "release" => mark[c] # "none"
    /\ answer[c] \in {"permanent", "rate"} => dpc[c] \in Surfaced

CallInv == CallTypeOK /\ \A c \in Callers : CallOK(c)

LEMMA CallsInit ==
    ASSUME DoerConstants, DoerInit
    PROVE  CacheInv /\ CallInv
  <1>1. accessOrder = <<>> /\ transports = {} /\ transports \ {Direct} = {}
    BY DEF DoerInit
  <1>2. CacheInv
    BY <1>1, FS_EmptySet DEF CacheInv, CacheTypeOK, InStep, Sized, Listed, Distinct, DoerConstants
  <1>3. CallTypeOK
    BY DEF DoerInit, CallTypeOK, CallSteps
  <1>4. ASSUME NEW c \in Callers
        PROVE  CallOK(c)
    BY DEF DoerInit, CallOK, Held, Surfaced
  <1> QED
    BY <1>2, <1>3, <1>4 DEF CallInv

(* getClient, a hit.                                                       *)
LEMMA HitStep ==
    ASSUME DoerConstants, CacheInv, NEW p \in transports, p \in Proxies, Hit(p)
    PROVE  CacheInv'
  <1> DEFINE rest == Without(accessOrder, {p})
  <1>1. /\ accessOrder \in Seq(Proxies) /\ Listed(accessOrder) = transports \ {Direct}
        /\ Distinct(accessOrder) /\ p # Direct
    BY DEF CacheInv, CacheTypeOK, InStep, DoerConstants
  <1>2. rest \in Seq(Proxies) /\ Distinct(rest) /\ Listed(rest) = Listed(accessOrder) \ {p}
    BY <1>1, WithoutFilters
  <1>3. accessOrder' = Append(rest, p) /\ transports' = transports
    BY DEF Hit, TouchAccessOrder
  <1> HIDE DEF rest
  <1>4. /\ accessOrder' \in Seq(Proxies) /\ Distinct(accessOrder')
        /\ Listed(accessOrder') = Listed(rest) \cup {p}
    BY <1>2, <1>3, Appended
  <1>5. InStep'
    <2>1. Listed(rest) \cup {p} = transports \ {Direct}
      BY <1>1, <1>2
    <2> QED
      BY <1>3, <1>4, <2>1 DEF InStep
  <1> QED
    BY <1>3, <1>4, <1>5 DEF CacheInv, CacheTypeOK, Sized

(* getClient, a miss: the proxies' clients stay within the limit, also     *)
(* when the direct client takes a place and nothing can be evicted.        *)
LEMMA InsertStep ==
    ASSUME DoerConstants, CacheInv, NEW p \in Proxies, p \notin transports, Insert(p)
    PROVE  CacheInv'
  <1> DEFINE gone == IF CacheFull THEN {Head(accessOrder)} ELSE {}
             rest == IF CacheFull THEN Tail(accessOrder) ELSE accessOrder
  <1>1. /\ accessOrder \in Seq(Proxies) /\ Listed(accessOrder) = transports \ {Direct}
        /\ Distinct(accessOrder) /\ p # Direct /\ MaxCache \in Nat /\ MaxCache >= 1
        /\ IsFiniteSet(transports) /\ transports \subseteq Proxies \cup {Direct}
        /\ Cardinality(transports \ {Direct}) <= MaxCache
    BY DEF CacheInv, CacheTypeOK, InStep, Sized, DoerConstants
  <1>2. transports' = (transports \ gone) \cup {p} /\ accessOrder' = Append(rest, p)
    BY DEF Insert
  <1>3. rest \in Seq(Proxies) /\ Distinct(rest) /\ Listed(rest) = Listed(accessOrder) \ gone
    <2>1. CASE CacheFull
      <3>1. accessOrder # <<>>
        BY <2>1 DEF CacheFull
      <3>2. /\ Tail(accessOrder) \in Seq(Proxies) /\ Len(Tail(accessOrder)) = Len(accessOrder) - 1
            /\ Head(accessOrder) = accessOrder[1] /\ Len(accessOrder) \in Nat \ {0}
            /\ \A k \in 1..(Len(accessOrder) - 1) : Tail(accessOrder)[k] = accessOrder[k + 1]
        BY <1>1, <3>1
      <3>3. \A k \in 1..(Len(accessOrder) - 1) : k + 1 \in 1..Len(accessOrder) /\ k + 1 # 1
        BY <3>2
      <3>4. \A k \in 1..Len(accessOrder) : k # 1 =>
               k - 1 \in 1..(Len(accessOrder) - 1) /\ (k - 1) + 1 = k
        BY <3>2
      <3>5. 1 \in 1..Len(accessOrder)
        BY <3>2
      <3>6. Distinct(Tail(accessOrder))
        BY <1>1, <3>2, <3>3 DEF Distinct
      <3>7. Listed(Tail(accessOrder)) = Listed(accessOrder) \ {accessOrder[1]}
        <4>1. ASSUME NEW x \in Listed(Tail(accessOrder))
              PROVE  x \in Listed(accessOrder) \ {accessOrder[1]}
          BY <1>1, <3>2, <3>3, <3>5 DEF Listed, Distinct
        <4>2. ASSUME NEW x \in Listed(accessOrder) \ {accessOrder[1]}
              PROVE  x \in Listed(Tail(accessOrder))
          <5>1. PICK k \in 1..Len(accessOrder) : x = accessOrder[k]
            BY DEF Listed
          <5>2. k - 1 \in 1..(Len(accessOrder) - 1) /\ Tail(accessOrder)[k - 1] = x
            BY <3>2, <3>4, <5>1
          <5> QED
            BY <3>2, <5>2 DEF Listed
        <4> QED
          BY <4>1, <4>2
      <3> QED
        BY <2>1, <3>2, <3>6, <3>7
    <2>2. CASE ~CacheFull
      BY <1>1, <2>2
    <2> QED
      BY <2>1, <2>2
  <1>4. gone \subseteq Listed(accessOrder)
    <2>1. CASE CacheFull
      <3>1. /\ Head(accessOrder) = accessOrder[1] /\ 1 \in 1..Len(accessOrder)
        BY <1>1, <2>1 DEF CacheFull
      <3> QED
        BY <2>1, <3>1 DEF Listed
    <2> QED
      BY <2>1
  <1>9. IsFiniteSet(transports')
    <2>1. IsFiniteSet(transports \ gone)
      BY <1>1, FS_Subset
    <2> QED
      BY <1>2, <2>1, FS_AddElement
  <1>5. Cardinality(transports' \ {Direct}) <= MaxCache
    <2> DEFINE P == transports \ {Direct}
    <2>1. /\ IsFiniteSet(P) /\ Cardinality(P) \in Nat /\ Cardinality(transports) \in Nat
          /\ p \notin P /\ Cardinality(P) <= Cardinality(transports)
      BY <1>1, FS_Subset, FS_CardinalityType
    <2>2. transports' \ {Direct} = (P \ gone) \cup {p}
      BY <1>1, <1>2
    <2>3. CASE CacheFull
      <3>1. PICK h : gone = {h} /\ h \in P
        BY <1>1, <1>4, <2>3
      <3>2. IsFiniteSet(P \ {h}) /\ Cardinality(P \ {h}) = Cardinality(P) - 1
        BY <2>1, <3>1, FS_RemoveElement
      <3>3. /\ IsFiniteSet((P \ {h}) \cup {p})
            /\ Cardinality((P \ {h}) \cup {p}) = Cardinality(P \ {h}) + 1
        BY <2>1, <3>2, FS_AddElement
      <3>4. transports' \ {Direct} = (P \ {h}) \cup {p}
        BY <2>2, <3>1
      <3>5. Cardinality(P) <= MaxCache
        BY <1>1
      <3> HIDE DEF P, gone
      <3>6. Cardinality(transports' \ {Direct}) = Cardinality(P)
        BY <2>1, <3>2, <3>3, <3>4
      <3> QED
        BY <3>5, <3>6
    <2>4. CASE ~CacheFull
      <3>1. gone = {} /\ P \ gone = P
        BY <2>4
      <3>2. IsFiniteSet(P \cup {p}) /\ Cardinality(P \cup {p}) = Cardinality(P) + 1
        BY <2>1, FS_AddElement
      <3>3. Cardinality(transports) < MaxCache \/ accessOrder = <<>>
        BY <1>1, <2>1, <2>4 DEF CacheFull
      <3>6. Cardinality(transports' \ {Direct}) = Cardinality(P) + 1
        <4>1. transports' \ {Direct} = P \cup {p}
          BY <2>2, <3>1
        <4> HIDE DEF P
        <4> QED
          BY <3>2, <4>1
      <3>4. CASE accessOrder = <<>>
        <4>1. P = {}
          BY <1>1, <3>4 DEF Listed
        <4>2. Cardinality(P) = 0
          BY <4>1, FS_EmptySet
        <4> QED
          BY <1>1, <3>6, <4>2
      <3>5. CASE Cardinality(transports) < MaxCache
        BY <1>1, <2>1, <3>5, <3>6
      <3> QED
        BY <3>3, <3>4, <3>5
    <2> QED
      BY <2>3, <2>4
  <1> HIDE DEF rest
  <1>6. /\ Append(rest, p) \in Seq(Proxies) /\ Distinct(Append(rest, p))
        /\ Listed(Append(rest, p)) = Listed(rest) \cup {p}
    <2>1. p \notin Listed(rest)
      BY <1>1, <1>3
    <2> QED
      BY <1>3, <2>1, Appended
  <1>7. transports' \ {Direct} = (Listed(accessOrder) \ gone) \cup {p}
    BY <1>1, <1>2
  <1>8. transports' \subseteq Proxies \cup {Direct}
    BY <1>1, <1>2
  <1>10. InStep'
    BY <1>2, <1>3, <1>6, <1>7 DEF InStep
  <1> QED
    BY <1>2, <1>5, <1>6, <1>8, <1>9, <1>10 DEF CacheInv, CacheTypeOK, Sized

(* evictIdleEntries, Close, the direct client and time.                    *)
LEMMA OtherCacheSteps ==
    ASSUME DoerConstants, CacheInv
    PROVE  /\ \A c \in Callers : DirectClient(c) => CacheInv'
           /\ \A k : Age(k) => CacheInv'
           /\ EvictIdleEntries => CacheInv'
           /\ Close => CacheInv'
  <1>1. /\ accessOrder \in Seq(Proxies) /\ Listed(accessOrder) = transports \ {Direct}
        /\ Distinct(accessOrder) /\ MaxCache \in Nat
        /\ IsFiniteSet(transports) /\ transports \subseteq Proxies \cup {Direct}
        /\ Cardinality(transports \ {Direct}) <= MaxCache
    BY DEF CacheInv, CacheTypeOK, InStep, Sized, DoerConstants
  <1>2. ASSUME NEW c \in Callers, DirectClient(c)
        PROVE  CacheInv'
    <2>1. transports' = transports \cup {Direct} /\ accessOrder' = accessOrder
      BY <1>2 DEF DirectClient
    <2>2. /\ IsFiniteSet(transports') /\ transports' \ {Direct} = transports \ {Direct}
          /\ transports' \subseteq Proxies \cup {Direct}
      BY <1>1, <2>1, FS_AddElement
    <2> QED
      BY <1>1, <2>1, <2>2 DEF CacheInv, CacheTypeOK, InStep, Sized
  <1>3. ASSUME NEW k, Age(k)
        PROVE  CacheInv'
    BY <1>3 DEF Age, CacheInv, CacheTypeOK, InStep, Sized
  <1>4. ASSUME EvictIdleEntries
        PROVE  CacheInv'
    <2>1. transports' = transports \ old /\ accessOrder' = Without(accessOrder, old)
      BY <1>4 DEF EvictIdleEntries
    <2>2. PICK gone : gone = old
      OBVIOUS
    <2>3. /\ accessOrder' \in Seq(Proxies) /\ Distinct(accessOrder')
          /\ Listed(accessOrder') = Listed(accessOrder) \ old
      BY <1>1, <2>1, <2>2, WithoutFilters
    <2>4. InStep'
      <3>1. (transports \ {Direct}) \ old = (transports \ old) \ {Direct}
        OBVIOUS
      <3> QED
        BY <1>1, <2>1, <2>3, <3>1 DEF InStep
    <2>5. Sized' /\ IsFiniteSet(transports')
      <3>1. /\ IsFiniteSet(transports \ {Direct}) /\ IsFiniteSet(transports \ old)
            /\ (transports \ old) \ {Direct} \subseteq transports \ {Direct}
        BY <1>1, FS_Subset
      <3>2. /\ Cardinality((transports \ old) \ {Direct}) <= Cardinality(transports \ {Direct})
            /\ Cardinality((transports \ old) \ {Direct}) \in Nat
            /\ Cardinality(transports \ {Direct}) \in Nat
        BY <3>1, FS_Subset, FS_CardinalityType
      <3> QED
        BY <1>1, <2>1, <3>1, <3>2 DEF Sized
    <2> QED
      BY <1>1, <2>1, <2>3, <2>4, <2>5 DEF CacheInv, CacheTypeOK
  <1>5. ASSUME Close
        PROVE  CacheInv'
    <2>1. accessOrder' = <<>> /\ transports' = {} /\ transports' \ {Direct} = {}
      BY <1>5 DEF Close
    <2> QED
      BY <1>1, <2>1, FS_EmptySet DEF CacheInv, CacheTypeOK, InStep, Sized, Listed, Distinct
  <1> QED
    BY <1>2, <1>3, <1>4, <1>5

(* A step of one call keeps what is said of it, and surfaces its answer.    *)
SurfacesIt(c) ==
    answer[c] \in {"permanent", "rate"} =>
       \/ answer'[c] = answer[c] /\ dpc'[c] \in Surfaced
       \/ dpc'[c] = "idle"

OthersKept(c) ==
    \A d \in Callers : d # c =>
       dpc'[d] = dpc[d] /\ lease'[d] = lease[d] /\ mark'[d] = mark[d] /\ answer'[d] = answer[d]

LEMMA CallStep ==
    ASSUME DoerConstants, CallInv, NEW c \in Callers, Begin(c) \/ Do(c)
    PROVE  CallTypeOK' /\ OthersKept(c) /\ CallOK(c)' /\ SurfacesIt(c)
  <1>0. /\ dpc \in [Callers -> CallSteps] /\ lease \in [Callers -> Proxies \cup {None}]
        /\ mark \in [Callers -> {"none", "success", "failure"}]
        /\ answer \in [Callers -> Answers \cup {"none", "noproxy", "context"}]
        /\ CallOK(c) /\ None \notin Proxies
    BY DEF CallInv, CallTypeOK, DoerConstants
  <1> USE <1>0 DEF At, Goto, CallTypeOK, CallSteps, OthersKept, CallOK, SurfacesIt, Held, Surfaced
  <1>1. CASE Begin(c)
    BY <1>1 DEF Begin
  <1>2. CASE ContextDone(c)
    BY <1>2 DEF ContextDone, Ended
  <1>3. CASE Acquire(c)
    BY <1>3 DEF Acquire
  <1>4. CASE AcquireFails(c)
    BY <1>4 DEF AcquireFails, Answers
  <1>5. CASE GetClient(c)
    BY <1>5 DEF GetClient, RefuseProxy, Answers
  <1>6. CASE Request(c)
    BY <1>6 DEF Request, Verdict
  <1>7. CASE Release(c)
    BY <1>7 DEF Release
  <1>8. CASE DirectClient(c)
    BY <1>8 DEF DirectClient
  <1>9. CASE DirectRequest(c)
    BY <1>9 DEF DirectRequest
  <1>10. CASE Decide(c)
    <2>1. dpc[c] = "decide" /\ UNCHANGED <<lease, mark>>
      BY <1>10 DEF Decide
    <2>2. CASE Surfaces(answer[c])
      BY <1>10, <2>1, <2>2 DEF Decide
    <2>3. CASE ~Surfaces(answer[c])
      <3>1. answer[c] \notin {"permanent", "rate"}
        BY <2>3 DEF Surfaces, IsPermanent
      <3>2. CASE Ended(c, "context")
        BY <2>1, <3>1, <3>2 DEF Ended
      <3>3. CASE Again(c)
        BY <2>1, <3>1, <3>3 DEF Again, NextAttempt, Exhausted
      <3>4. CASE Goto(c, "backoff") /\ UNCHANGED answer
        BY <2>1, <3>1, <3>4
      <3> QED
        BY <1>10, <2>3, <3>2, <3>3, <3>4 DEF Decide
    <2> QED
      BY <2>2, <2>3
  <1>11. CASE Backoff(c)
    BY <1>11 DEF Backoff, Again, NextAttempt, Exhausted
  <1>12. CASE Return(c)
    BY <1>12 DEF Return
  <1> QED
    BY <1>1, <1>2, <1>3, <1>4, <1>5, <1>6, <1>7, <1>8, <1>9, <1>10, <1>11, <1>12 DEF Do

LEMMA DoerStep ==
    ASSUME DoerConstants, CacheInv, CallInv, [DoerNext]_(doerVars)
    PROVE  /\ CacheInv' /\ CallInv'
           /\ \A c \in Callers : SurfacesIt(c)
  <1>1. ASSUME NEW c \in Callers, Begin(c) \/ Do(c)
        PROVE  CacheInv' /\ CallInv' /\ \A d \in Callers : SurfacesIt(d)
    <2>1. CallTypeOK' /\ OthersKept(c) /\ CallOK(c)' /\ SurfacesIt(c)
      BY <1>1, CallStep
    <2>2. ASSUME NEW d \in Callers
          PROVE  CallOK(d)' /\ SurfacesIt(d)
      <3>1. CASE d = c
        BY <2>1, <3>1
      <3>2. CASE d # c
        BY <2>1, <3>2 DEF OthersKept, CallInv, CallOK, SurfacesIt
      <3> QED
        BY <3>1, <3>2
    <2>3. CacheInv'
      <3>1. CASE GetClient(c)
        <4>1. dpc[c] = "client" /\ lease[c] \in Proxies
          BY <3>1 DEF GetClient, At, CallInv, CallTypeOK, CallOK, Held
        <4>2. PICK p \in Proxies : p = lease[c]
          BY <4>1
        <4>3. \/ p \in transports /\ Hit(p)
              \/ p \notin transports /\ Insert(p)
              \/ UNCHANGED <<transports, accessOrder>>
          BY <3>1, <4>2 DEF GetClient, RefuseProxy
        <4>4. CASE UNCHANGED <<transports, accessOrder>>
          BY <4>4 DEF CacheInv, CacheTypeOK, InStep, Sized
        <4> QED
          BY <4>3, <4>4, HitStep, InsertStep
      <3>2. CASE DirectClient(c)
        BY <3>2, OtherCacheSteps
      <3>3. CASE UNCHANGED cache
        BY <3>3 DEF cache, CacheInv, CacheTypeOK, InStep, Sized
      <3> QED
        BY <1>1, <3>1, <3>2, <3>3
           DEF Begin, Do, ContextDone, Acquire, AcquireFails, Request, Release,
               DirectRequest, Decide, Backoff, Return
    <2> QED
      BY <2>1, <2>2, <2>3 DEF CallInv
  <1>2. ASSUME UNCHANGED calls
        PROVE  CallInv' /\ \A d \in Callers : SurfacesIt(d)
    BY <1>2 DEF calls, CallInv, CallTypeOK, CallOK, SurfacesIt
  <1>3. ASSUME NEW k, Age(k)
        PROVE  CacheInv' /\ UNCHANGED calls
    BY <1>3, OtherCacheSteps DEF Age
  <1>4. CASE EvictIdleEntries \/ Close
    BY <1>2, <1>4, OtherCacheSteps DEF EvictIdleEntries, Close
  <1>5. CASE UNCHANGED doerVars
    BY <1>2, <1>5 DEF doerVars, cache, CacheInv, CacheTypeOK, InStep, Sized
  <1> QED
    BY <1>1, <1>2, <1>3, <1>4, <1>5 DEF DoerNext

LEMMA DoerInvSound ==
    ASSUME DoerConstants, CacheInv, CallInv
    PROVE  DoerSound
  <1>1. CacheInStep
    <2>1. DOMAIN accessOrder = 1..Len(accessOrder)
      BY DEF CacheInv, CacheTypeOK
    <2> QED
      BY <2>1 DEF CacheInv, InStep, Listed, Distinct, CacheInStep, ToSet, IsInjective
  <1>2. CacheBounded
    <2>1. /\ IsFiniteSet(transports \ {Direct}) /\ Cardinality(transports \ {Direct}) \in Nat
          /\ IsFiniteSet(transports) /\ Cardinality(transports \ {Direct}) <= MaxCache
      BY FS_Subset, FS_CardinalityType DEF CacheInv, CacheTypeOK, Sized
    <2>2. Cardinality(transports) <= Cardinality(transports \ {Direct}) + 1
      <3>1. CASE Direct \in transports
        <4>1. Cardinality(transports \ {Direct}) = Cardinality(transports) - 1
          BY <2>1, <3>1, FS_RemoveElement
        <4>2. Cardinality(transports) \in Nat
          BY <2>1, FS_CardinalityType
        <4> QED
          BY <2>1, <4>1, <4>2
      <3>2. CASE Direct \notin transports
        <4>1. transports \ {Direct} = transports
          BY <3>2
        <4>2. Cardinality(transports) \in Nat
          BY <2>1, FS_CardinalityType
        <4>3. Cardinality(transports \ {Direct}) = Cardinality(transports)
          BY <4>1
        <4> QED
          BY <4>2, <4>3
      <3> QED
        BY <3>1, <3>2
    <2> QED
      BY <2>1, <2>2, FS_CardinalityType DEF CacheBounded, DoerConstants
  <1>3. LeaseReturned
    BY DEF CallInv, CallOK, Held, LeaseReturned, At
  <1> QED
    BY <1>1, <1>2, <1>3 DEF DoerSound

(* For any callers, proxies, cache size and number of attempts: the list   *)
(* and the map of clients name the same proxies, within the limit, and a   *)
(* lease goes back with its attempt and with a verdict (httpdo.Doer).      *)
THEOREM DoerIsSound ==
    ASSUME DoerConstants
    PROVE  DoerSpec => []DoerSound
  <1>1. DoerInit => CacheInv /\ CallInv
    BY CallsInit
  <1>2. CacheInv /\ CallInv /\ [DoerNext]_(doerVars) => CacheInv' /\ CallInv'
    BY DoerStep
  <1>3. CacheInv /\ CallInv => DoerSound
    BY DoerInvSound
  <1> QED
    BY <1>1, <1>2, <1>3, PTL DEF DoerSpec

(* Do: a permanent status or a 429 is the call's answer, and no step after *)
(* it asks for a proxy or for upstream again.                              *)
THEOREM DoerSurfaces ==
    ASSUME DoerConstants
    PROVE  DoerSpec => SurfacedAtOnce
  <1>1. DoerInit => CacheInv /\ CallInv
    BY CallsInit
  <1>2. CacheInv /\ CallInv /\ [DoerNext]_(doerVars) => CacheInv' /\ CallInv'
    BY DoerStep
  <1>3. CacheInv /\ CallInv /\ [DoerNext]_(doerVars) =>
          [\A c \in Callers :
             answer[c] \in {"permanent", "rate"} =>
                \/ answer'[c] = answer[c] /\ dpc'[c] \in {"release", "decide", "returned"}
                \/ dpc'[c] = "idle"]_(doerVars)
    BY DoerStep DEF SurfacesIt, Surfaced
  <1> QED
    BY <1>1, <1>2, <1>3, PTL DEF DoerSpec, SurfacedAtOnce


-----------------------------------------------------------------------------
(* EnrichRunner: sortByDependencies.  Its invariant, of the calls c that   *)
(* are to be made, the stack k, the names sorted s and the error e.        *)

Sources == Seq([name : Strings, critical : BOOLEAN, deps : Seq(Strings), writes : Seq(Strings)])
CallSeqs == Seq([name : Strings, leave : BOOLEAN])
DepsOf(sources, n) == ByName(sources, n).deps

IsKnown(sources) ==
    \A i \in DOMAIN sources : \A j \in DOMAIN sources[i].deps :
       sources[i].deps[j] \in SourceNames(sources)
IsBefore(sources, f) ==
    \A i \in DOMAIN sources : \A j \in DOMAIN sources[i].deps :
       f[sources[i].deps[j]] < f[sources[i].name]
Ranks(sources) == [SourceNames(sources) -> 1..Len(sources)]

(* The stack is that of the calls which are to return.                     *)
Stacked(c, k) ==
    /\ \A i \in 1..Len(c) : c[i].leave => c[i].name \in k
    /\ \A n \in k : \E i \in 1..Len(c) : c[i].leave /\ c[i].name = n
    /\ \A i, j \in 1..Len(c) : c[i].leave /\ c[j].leave /\ c[i].name = c[j].name => i = j

(* No source is forgotten.                                                 *)
AllCalled(sources, c, s) ==
    \A n \in SourceNames(sources) : n \in ToSet(s) \/ \E i \in 1..Len(c) : c[i].name = n

(* Before a call returns, what its source depends on is called.            *)
DepsCalled(sources, c, s) ==
    \A j \in 1..Len(c) : c[j].leave =>
       \A x \in DOMAIN DepsOf(sources, c[j].name) :
          \/ DepsOf(sources, c[j].name)[x] \in ToSet(s)
          \/ \E i \in 1..j - 1 : c[i].name = DepsOf(sources, c[j].name)[x]

InOrder(sources, s) ==
    \A i \in 1..Len(s) : \A x \in DOMAIN DepsOf(sources, s[i]) :
       \E l \in 1..i - 1 : s[l] = DepsOf(sources, s[i])[x]

(* Where the dependencies can be met by f, a call is made for a source     *)
(* below the one that waits for it, and there is no error.                 *)
Descends(sources, c, e) ==
    \A f \in Ranks(sources) : IsKnown(sources) /\ IsBefore(sources, f) =>
       /\ ~e
       /\ \A i \in 1..Len(c) : c[i].name \in SourceNames(sources)
       /\ \A j \in 1..Len(c) : c[j].leave => \A i \in 1..j - 1 : f[c[i].name] < f[c[j].name]

SearchInv(sources, c, k, s, e) ==
    /\ c \in CallSeqs /\ k \subseteq SourceNames(sources)
    /\ s \in Seq(SourceNames(sources)) /\ e \in BOOLEAN
    /\ k \cap ToSet(s) = {}
    /\ \A i, j \in 1..Len(s) : s[i] = s[j] => i = j
    /\ InOrder(sources, s)
    /\ e => c = <<>>
    /\ ~e => Stacked(c, k) /\ AllCalled(sources, c, s) /\ DepsCalled(sources, c, s)
    /\ Descends(sources, c, e)

LEMMA ElementOf ==
    ASSUME NEW S, NEW q \in Seq(S), NEW i \in DOMAIN q
    PROVE  q[i] \in S
OBVIOUS

LEMMA SourceFound ==
    ASSUME NEW sources, SortInputOK(sources), NEW n \in SourceNames(sources)
    PROVE  /\ DepsOf(sources, n) \in Seq(Strings)
           /\ \E i \in DOMAIN sources : sources[i].name = n /\ sources[i].deps = DepsOf(sources, n)
<1>1. sources \in Sources  BY DEF SortInputOK, Sources
<1>2. PICK i \in DOMAIN sources : sources[i].name = n  BY DEF SourceNames
<1>3. sources[i] \in ToSet(sources)  BY <1>2 DEF ToSet
<1>4. ByName(sources, n) \in ToSet(sources) /\ ByName(sources, n).name = n
  BY <1>2, <1>3 DEF ByName
<1>5. PICK j \in DOMAIN sources : sources[j] = ByName(sources, n)  BY <1>4 DEF ToSet
<1>6. sources[j].deps \in Seq(Strings)
  <2>1. sources[j] \in [name : Strings, critical : BOOLEAN, deps : Seq(Strings), writes : Seq(Strings)]
    BY <1>1, ElementOf DEF Sources
  <2> QED  BY <2>1
<1> QED  BY <1>4, <1>5, <1>6 DEF DepsOf

LEMMA InSorted ==
    ASSUME NEW S, NEW s \in Seq(S), NEW n
    PROVE  /\ n \in ToSet(s) <=> \E i \in 1..Len(s) : s[i] = n
           /\ ToSet(s) \subseteq S
BY DEF ToSet

LEMMA SortedGrows ==
    ASSUME NEW S, NEW s \in Seq(S), NEW n \in S
    PROVE  /\ Append(s, n) \in Seq(S) /\ Len(Append(s, n)) = Len(s) + 1 /\ Len(s) \in Nat
           /\ Append(s, n)[Len(s) + 1] = n
           /\ \A i \in 1..Len(s) : Append(s, n)[i] = s[i]
           /\ ToSet(Append(s, n)) = ToSet(s) \cup {n}
<1> DEFINE t == Append(s, n)
<1>1. /\ t \in Seq(S) /\ Len(t) = Len(s) + 1 /\ t[Len(s) + 1] = n /\ Len(s) \in Nat
      /\ \A k \in 1..Len(s) : t[k] = s[k]
  OBVIOUS
<1> HIDE DEF t
<1>2. DOMAIN t = 1..Len(t) /\ DOMAIN s = 1..Len(s)  BY <1>1
<1>3. \A k \in 1..Len(t) : k \in 1..Len(s) \/ k = Len(s) + 1  BY <1>1
<1>4. 1..Len(s) \subseteq 1..Len(t) /\ Len(s) + 1 \in 1..Len(t)  BY <1>1
<1>5. ASSUME NEW x \in ToSet(t)  PROVE x \in ToSet(s) \cup {n}
  BY <1>1, <1>2, <1>3 DEF ToSet
<1>6. ASSUME NEW x \in ToSet(s) \cup {n}  PROVE x \in ToSet(t)
  BY <1>1, <1>2, <1>4 DEF ToSet
<1> QED  BY <1>1, <1>5, <1>6 DEF t

LEMMA FirstCall ==
    ASSUME NEW c \in CallSeqs, c # <<>>
    PROVE  /\ Len(c) \in Nat \ {0} /\ Tail(c) \in CallSeqs /\ Len(Tail(c)) = Len(c) - 1
           /\ Head(c) = c[1] /\ c[1].name \in Strings /\ c[1].leave \in BOOLEAN
           /\ \A i \in 1..Len(c) - 1 : Tail(c)[i] = c[i + 1]
           /\ \A i \in 2..Len(c) : i - 1 \in 1..Len(c) - 1 /\ Tail(c)[i - 1] = c[i]
<1>1. /\ Len(c) \in Nat \ {0} /\ Tail(c) \in CallSeqs /\ Len(Tail(c)) = Len(c) - 1
      /\ Head(c) = c[1]
      /\ \A i \in 1..Len(c) - 1 : Tail(c)[i] = c[i + 1]
  BY DEF CallSeqs
<1>2. c[1] \in [name : Strings, leave : BOOLEAN]
  <2>1. 1 \in DOMAIN c  BY <1>1 DEF CallSeqs
  <2> QED  BY <2>1, ElementOf DEF CallSeqs
<1>3. \A i \in 2..Len(c) : i - 1 \in 1..Len(c) - 1 /\ Tail(c)[i - 1] = c[i]
  BY <1>1
<1> QED  BY <1>1, <1>2, <1>3

(* A name that is sorted: its call is dropped.                             *)
LEMMA SkipInv ==
    ASSUME NEW sources, SortInputOK(sources), NEW c, NEW k, NEW s, NEW e,
           SearchInv(sources, c, k, s, e), c # <<>>, ~c[1].leave, c[1].name \in ToSet(s)
    PROVE  SearchInv(sources, Tail(c), k, s, e)
<1> DEFINE t == Tail(c)
<1>1. /\ Len(c) \in Nat \ {0} /\ t \in CallSeqs /\ Len(t) = Len(c) - 1
      /\ \A i \in 1..Len(t) : i + 1 \in 2..Len(c) /\ t[i] = c[i + 1]
      /\ \A i \in 2..Len(c) : i - 1 \in 1..Len(t) /\ t[i - 1] = c[i]
  BY FirstCall DEF SearchInv
<1>2. e = FALSE /\ Stacked(c, k) /\ AllCalled(sources, c, s) /\ DepsCalled(sources, c, s)
  BY DEF SearchInv
<1> HIDE DEF t
<1>3. Stacked(t, k)
  <2>1. \A i \in 1..Len(t) : t[i].leave => t[i].name \in k  BY <1>1, <1>2 DEF Stacked
  <2>2. ASSUME NEW n \in k  PROVE \E i \in 1..Len(t) : t[i].leave /\ t[i].name = n
    <3>1. PICK i \in 1..Len(c) : c[i].leave /\ c[i].name = n  BY <1>2 DEF Stacked
    <3>2. i \in 2..Len(c)  BY <1>1, <3>1
    <3> QED  BY <1>1, <3>1, <3>2
  <2>3. \A i, j \in 1..Len(t) : t[i].leave /\ t[j].leave /\ t[i].name = t[j].name => i = j
    <3> TAKE i, j \in 1..Len(t)
    <3>1. /\ i + 1 \in 1..Len(c) /\ j + 1 \in 1..Len(c)
          /\ t[i] = c[i + 1] /\ t[j] = c[j + 1]
      BY <1>1
    <3>2. c[i + 1].leave /\ c[j + 1].leave /\ c[i + 1].name = c[j + 1].name => i + 1 = j + 1
      BY <1>2, <3>1 DEF Stacked
    <3> QED  BY <3>1, <3>2
  <2> QED  BY <2>1, <2>2, <2>3 DEF Stacked
<1>4. AllCalled(sources, t, s)
  <2> SUFFICES ASSUME NEW n \in SourceNames(sources), n \notin ToSet(s)
               PROVE  \E i \in 1..Len(t) : t[i].name = n
    BY DEF AllCalled
  <2>1. PICK i \in 1..Len(c) : c[i].name = n  BY <1>2 DEF AllCalled
  <2>2. i \in 2..Len(c)  BY <1>1, <2>1
  <2> QED  BY <1>1, <2>1, <2>2
<1>5. DepsCalled(sources, t, s)
  <2> SUFFICES ASSUME NEW j \in 1..Len(t), t[j].leave,
                      NEW x \in DOMAIN DepsOf(sources, t[j].name),
                      DepsOf(sources, t[j].name)[x] \notin ToSet(s)
               PROVE  \E i \in 1..j - 1 : t[i].name = DepsOf(sources, t[j].name)[x]
    BY DEF DepsCalled
  <2>1. j + 1 \in 1..Len(c) /\ t[j] = c[j + 1]  BY <1>1
  <2>2. PICK i \in 1..(j + 1) - 1 : c[i].name = DepsOf(sources, t[j].name)[x]
    BY <1>2, <2>1 DEF DepsCalled
  <2>3. i \in 2..Len(c) /\ i - 1 \in 1..j - 1  BY <1>1, <2>2
  <2> QED  BY <1>1, <2>2, <2>3
<1>6. Descends(sources, t, e)
  <2> SUFFICES ASSUME NEW f \in Ranks(sources), IsKnown(sources), IsBefore(sources, f)
               PROVE  /\ ~e
                      /\ \A i \in 1..Len(t) : t[i].name \in SourceNames(sources)
                      /\ \A j \in 1..Len(t) : t[j].leave =>
                            \A i \in 1..j - 1 : f[t[i].name] < f[t[j].name]
    BY DEF Descends
  <2>1. /\ \A i \in 1..Len(c) : c[i].name \in SourceNames(sources)
        /\ \A j \in 1..Len(c) : c[j].leave => \A i \in 1..j - 1 : f[c[i].name] < f[c[j].name]
    BY DEF SearchInv, Descends
  <2>2. \A i \in 1..Len(t) : t[i].name \in SourceNames(sources)  BY <1>1, <2>1
  <2>3. ASSUME NEW j \in 1..Len(t), t[j].leave, NEW i \in 1..j - 1
        PROVE  f[t[i].name] < f[t[j].name]
    <3>1. /\ j + 1 \in 1..Len(c) /\ i + 1 \in 1..(j + 1) - 1 /\ i \in 1..Len(t)
      BY <1>1
    <3>2. t[j] = c[j + 1] /\ t[i] = c[i + 1]  BY <1>1, <3>1
    <3> QED  BY <2>1, <2>3, <3>1, <3>2
  <2> QED  BY <1>2, <2>2, <2>3
<1> QED  BY <1>1, <1>2, <1>3, <1>4, <1>5, <1>6 DEF SearchInv, t

(* A call that returns: its source is sorted, all it depends on before.    *)
LEMMA LeaveInv ==
    ASSUME NEW sources, SortInputOK(sources), NEW c, NEW k, NEW s, NEW e,
           SearchInv(sources, c, k, s, e), c # <<>>, c[1].leave
    PROVE  SearchInv(sources, Tail(c), k \ {c[1].name}, Append(s, c[1].name), e)
<1> DEFINE t == Tail(c)
           n == c[1].name
           r == Append(s, n)
<1>1. /\ Len(c) \in Nat \ {0} /\ t \in CallSeqs /\ Len(t) = Len(c) - 1
      /\ \A i \in 1..Len(t) : i + 1 \in 2..Len(c) /\ t[i] = c[i + 1]
      /\ \A i \in 2..Len(c) : i - 1 \in 1..Len(t) /\ t[i - 1] = c[i]
  BY FirstCall DEF SearchInv
<1>2. e = FALSE /\ Stacked(c, k) /\ AllCalled(sources, c, s) /\ DepsCalled(sources, c, s)
  BY DEF SearchInv
<1>3. n \in k /\ n \in SourceNames(sources) /\ n \notin ToSet(s)
  BY <1>1, <1>2 DEF SearchInv, Stacked
<1>4. /\ r \in Seq(SourceNames(sources)) /\ Len(r) = Len(s) + 1 /\ Len(s) \in Nat
      /\ r[Len(s) + 1] = n
      /\ \A i \in 1..Len(s) : r[i] = s[i]
      /\ ToSet(r) = ToSet(s) \cup {n}
  BY <1>3, SortedGrows DEF SearchInv
<1> HIDE DEF t, r
<1>5. Stacked(t, k \ {n})
  <2>1. \A i, j \in 1..Len(t) : t[i].leave /\ t[j].leave /\ t[i].name = t[j].name => i = j
    <3> TAKE i, j \in 1..Len(t)
    <3>1. /\ i + 1 \in 1..Len(c) /\ j + 1 \in 1..Len(c)
          /\ t[i] = c[i + 1] /\ t[j] = c[j + 1]
      BY <1>1
    <3>2. c[i + 1].leave /\ c[j + 1].leave /\ c[i + 1].name = c[j + 1].name => i + 1 = j + 1
      BY <1>2, <3>1 DEF Stacked
    <3> QED  BY <3>1, <3>2
  <2>2. ASSUME NEW i \in 1..Len(t), t[i].leave  PROVE t[i].name \in k \ {n}
    <3>1. i + 1 \in 1..Len(c) /\ t[i] = c[i + 1] /\ 1 \in 1..Len(c) /\ i + 1 # 1  BY <1>1
    <3>2. c[i + 1].name \in k  BY <1>2, <2>2, <3>1 DEF Stacked
    <3>3. c[i + 1].name # n  BY <1>2, <2>2, <3>1 DEF Stacked
    <3> QED  BY <3>1, <3>2, <3>3
  <2>3. ASSUME NEW m \in k \ {n}  PROVE \E i \in 1..Len(t) : t[i].leave /\ t[i].name = m
    <3>1. PICK i \in 1..Len(c) : c[i].leave /\ c[i].name = m  BY <1>2 DEF Stacked
    <3>2. i \in 2..Len(c)  BY <1>1, <3>1
    <3> QED  BY <1>1, <3>1, <3>2
  <2> QED  BY <2>1, <2>2, <2>3 DEF Stacked
<1>6. AllCalled(sources, t, r)
  <2> SUFFICES ASSUME NEW m \in SourceNames(sources), m \notin ToSet(r)
               PROVE  \E i \in 1..Len(t) : t[i].name = m
    BY DEF AllCalled
  <2>1. PICK i \in 1..Len(c) : c[i].name = m  BY <1>2, <1>4 DEF AllCalled
  <2>2. i \in 2..Len(c)  BY <1>1, <1>4, <2>1
  <2> QED  BY <1>1, <2>1, <2>2
<1>7. DepsCalled(sources, t, r)
  <2> SUFFICES ASSUME NEW j \in 1..Len(t), t[j].leave,
                      NEW x \in DOMAIN DepsOf(sources, t[j].name),
                      DepsOf(sources, t[j].name)[x] \notin ToSet(r)
               PROVE  \E i \in 1..j - 1 : t[i].name = DepsOf(sources, t[j].name)[x]
    BY DEF DepsCalled
  <2>1. j + 1 \in 1..Len(c) /\ t[j] = c[j + 1]  BY <1>1
  <2> DEFINE dep == DepsOf(sources, t[j].name)[x]
  <2>4. dep \notin ToSet(s)  BY <1>4
  <2>2. PICK i \in 1..(j + 1) - 1 : c[i].name = DepsOf(sources, t[j].name)[x]
    BY <1>2, <2>1, <2>4 DEF DepsCalled
  <2>3. i \in 2..Len(c) /\ i - 1 \in 1..j - 1  BY <1>1, <1>4, <2>2
  <2> QED  BY <1>1, <2>2, <2>3
<1>8. Descends(sources, t, e)
  <2> SUFFICES ASSUME NEW f \in Ranks(sources), IsKnown(sources), IsBefore(sources, f)
               PROVE  /\ ~e
                      /\ \A i \in 1..Len(t) : t[i].name \in SourceNames(sources)
                      /\ \A j \in 1..Len(t) : t[j].leave =>
                            \A i \in 1..j - 1 : f[t[i].name] < f[t[j].name]
    BY DEF Descends
  <2>1. /\ \A i \in 1..Len(c) : c[i].name \in SourceNames(sources)
        /\ \A j \in 1..Len(c) : c[j].leave => \A i \in 1..j - 1 : f[c[i].name] < f[c[j].name]
    BY DEF SearchInv, Descends
  <2>2. \A i \in 1..Len(t) : t[i].name \in SourceNames(sources)  BY <1>1, <2>1
  <2>3. ASSUME NEW j \in 1..Len(t), t[j].leave, NEW i \in 1..j - 1
        PROVE  f[t[i].name] < f[t[j].name]
    <3>1. /\ j + 1 \in 1..Len(c) /\ i + 1 \in 1..(j + 1) - 1 /\ i \in 1..Len(t)
      BY <1>1
    <3>2. t[j] = c[j + 1] /\ t[i] = c[i + 1]  BY <1>1, <3>1
    <3> QED  BY <2>1, <2>3, <3>1, <3>2
  <2> QED  BY <1>2, <2>2, <2>3
<1>9. InOrder(sources, r)
  <2> SUFFICES ASSUME NEW i \in 1..Len(r), NEW x \in DOMAIN DepsOf(sources, r[i])
               PROVE  \E l \in 1..i - 1 : r[l] = DepsOf(sources, r[i])[x]
    BY DEF InOrder
  <2>1. CASE i \in 1..Len(s)
    <3>1. r[i] = s[i]  BY <1>4, <2>1
    <3>2. PICK l \in 1..i - 1 : s[l] = DepsOf(sources, s[i])[x]
      BY <2>1, <3>1 DEF SearchInv, InOrder
    <3>3. l \in 1..Len(s)  BY <1>4, <2>1
    <3> QED  BY <1>4, <3>1, <3>2, <3>3
  <2>2. CASE i = Len(s) + 1
    <3>1. r[i] = n  BY <1>4, <2>2
    <3>2. DepsOf(sources, n)[x] \in ToSet(s)
      <4>1. 1 \in 1..Len(c) /\ 1..1 - 1 = {}  BY <1>1
      <4> QED  BY <1>2, <3>1, <4>1 DEF DepsCalled
    <3>3. s \in Seq(SourceNames(sources))  BY DEF SearchInv
    <3>4. PICK l \in 1..Len(s) : s[l] = DepsOf(sources, n)[x]
      BY <3>2, <3>3, InSorted
    <3>5. l \in 1..i - 1 /\ r[l] = s[l]  BY <1>4, <2>2
    <3> QED  BY <3>1, <3>4, <3>5
  <2> QED  BY <1>4, <2>1, <2>2
<1>10. \A i, j \in 1..Len(r) : r[i] = r[j] => i = j
  <2>1. \A i \in 1..Len(s) : s[i] # n
    <3>1. s \in Seq(SourceNames(sources))  BY DEF SearchInv
    <3> QED  BY <1>3, <3>1, InSorted
  <2>2. \A i, j \in 1..Len(s) : s[i] = s[j] => i = j  BY DEF SearchInv
  <2>3. \A i \in 1..Len(r) : i \in 1..Len(s) \/ i = Len(s) + 1  BY <1>4
  <2> QED  BY <1>4, <2>1, <2>2, <2>3
<1>11. (k \ {n}) \cap ToSet(r) = {} /\ k \ {n} \subseteq SourceNames(sources)
  BY <1>4 DEF SearchInv
<1> QED  BY <1>1, <1>2, <1>4, <1>5, <1>6, <1>7, <1>8, <1>9, <1>10, <1>11 DEF SearchInv, t, r

(* A name in the stack, or one that nobody has: the search fails, where it *)
(* must.                                                                   *)
LEMMA ErrorInv ==
    ASSUME NEW sources, SortInputOK(sources), NEW c, NEW k, NEW s, NEW e,
           SearchInv(sources, c, k, s, e), c # <<>>, ~c[1].leave,
           c[1].name \in k \/ c[1].name \notin SourceNames(sources)
    PROVE  SearchInv(sources, <<>>, k, s, TRUE)
<1>1. Len(c) \in Nat \ {0} /\ 1 \in 1..Len(c)  BY FirstCall DEF SearchInv
<1>2. Stacked(c, k)  BY DEF SearchInv
<1>3. ASSUME NEW f \in Ranks(sources), IsKnown(sources), IsBefore(sources, f)
      PROVE  FALSE
  <2>1. /\ \A i \in 1..Len(c) : c[i].name \in SourceNames(sources)
        /\ \A j \in 1..Len(c) : c[j].leave => \A i \in 1..j - 1 : f[c[i].name] < f[c[j].name]
    BY <1>3 DEF SearchInv, Descends
  <2>2. c[1].name \in k /\ c[1].name \in SourceNames(sources)  BY <1>1, <2>1
  <2>3. PICK j \in 1..Len(c) : c[j].leave /\ c[j].name = c[1].name  BY <1>2, <2>2 DEF Stacked
  <2>4. 1 \in 1..j - 1  BY <1>1, <2>3
  <2>5. f[c[1].name] < f[c[1].name]  BY <2>1, <2>3, <2>4
  <2>6. f[c[1].name] \in 1..Len(sources)  BY <2>2 DEF Ranks
  <2>7. Len(sources) \in Nat  BY DEF SortInputOK
  <2> QED  BY <2>5, <2>6, <2>7
<1>4. Descends(sources, <<>>, TRUE)  BY <1>3 DEF Descends
<1>5. <<>> \in CallSeqs  BY DEF CallSeqs
<1> QED  BY <1>4, <1>5 DEF SearchInv

LEMMA CallFields ==
    ASSUME NEW n, NEW b \in BOOLEAN, NEW r, r = [name |-> n, leave |-> b]
    PROVE  r.name = n /\ r.leave = b
OBVIOUS

EnterCalls(deps, n, c) == Enter(deps) \o Leave(n) \o Tail(c)

LEMMA EnteredCalls ==
    ASSUME NEW deps \in Seq(Strings), NEW n \in Strings, NEW c \in CallSeqs, c # <<>>
    PROVE  LET new == EnterCalls(deps, n, c)
               m == Len(deps)
           IN  /\ m \in Nat /\ new \in CallSeqs /\ Len(new) = m + Len(c)
               /\ \A i \in 1..m : ~new[i].leave /\ new[i].name = deps[i]
               /\ new[m + 1].leave /\ new[m + 1].name = n
               /\ \A i \in m + 2..Len(new) : i - m \in 2..Len(c) /\ new[i] = c[i - m]
               /\ \A j \in 2..Len(c) : j + m \in m + 2..Len(new) /\ new[j + m] = c[j]
<1> DEFINE new == EnterCalls(deps, n, c)
           m == Len(deps)
           C == [name : Strings, leave : BOOLEAN]
           E == Enter(deps)
           x == [name |-> n, leave |-> TRUE]
           t == Tail(c)
<1>1. m \in Nat /\ DOMAIN deps = 1..m /\ \A i \in 1..m : deps[i] \in Strings  OBVIOUS
<1> HIDE DEF m
<1>2. E \in Seq(C) /\ Len(E) = m /\ \A i \in 1..m : E[i] = [name |-> deps[i], leave |-> FALSE]
  <2>1. E = [i \in 1..m |-> [name |-> deps[i], leave |-> FALSE]]  BY <1>1 DEF Enter
  <2>2. \A i \in 1..m : [name |-> deps[i], leave |-> FALSE] \in C  BY <1>1
  <2> HIDE DEF C
  <2>3. E \in [1..m -> C]  BY <2>1, <2>2
  <2> QED  BY <1>1, <2>1, <2>3
<1>3. x \in C  OBVIOUS
<1>4. /\ t \in Seq(C) /\ Len(t) = Len(c) - 1 /\ Len(c) \in Nat \ {0}
      /\ \A i \in 2..Len(c) : i - 1 \in 1..Len(c) - 1 /\ t[i - 1] = c[i]
  BY FirstCall DEF CallSeqs
<1>5. new = E \o <<x>> \o t  BY DEF Leave, EnterCalls
<1>6. x.leave = TRUE /\ x.name = n  OBVIOUS
<1> HIDE DEF C, E, x, t, new, m
<1>7. /\ new \in Seq(C) /\ Len(new) = m + 1 + (Len(c) - 1)
      /\ \A i \in 1..m : new[i] = E[i]
      /\ new[m + 1] = x
      /\ \A i \in 1..Len(c) - 1 : new[m + 1 + i] = t[i]
  <2> DEFINE z == Len(c) - 1
             A == E \o <<x>>
  <2>1. z = Len(t) /\ z \in Nat  BY <1>4
  <2>2. /\ A \in Seq(C) /\ Len(A) = m + 1 /\ A[m + 1] = x
        /\ \A i \in 1..m : A[i] = E[i]
    BY <1>1, <1>2, <1>3
  <2>3. new = A \o t  BY <1>5
  <2> HIDE DEF A, z
  <2>6. A \in Seq(C) /\ t \in Seq(C)  BY <1>4, <2>2
  <2>7. /\ A \o t \in Seq(C) /\ Len(A \o t) = Len(A) + Len(t)
        /\ \A i \in 1..Len(A) : (A \o t)[i] = A[i]
        /\ \A i \in 1..Len(t) : (A \o t)[Len(A) + i] = t[i]
    BY <2>6
  <2>4. /\ new \in Seq(C) /\ Len(new) = Len(A) + z
        /\ \A i \in 1..Len(A) : new[i] = A[i]
        /\ \A i \in 1..z : new[Len(A) + i] = t[i]
    BY <2>1, <2>3, <2>7, Zenon
  <2>5. m + 1 \in 1..Len(A) /\ \A i \in 1..m : i \in 1..Len(A)  BY <1>1, <2>2
  <2> QED  BY <2>2, <2>4, <2>5 DEF z
<1>8. Len(new) = m + Len(c)
  <2>1. Len(c) \in Nat  BY <1>4
  <2>2. m + 1 + (Len(c) - 1) = m + Len(c)  BY <1>1, <2>1
  <2> QED  BY <1>7, <2>2
<1>9. \A i \in 1..m : ~new[i].leave /\ new[i].name = deps[i]
  <2> TAKE i \in 1..m
  <2>2. new[i] = [name |-> deps[i], leave |-> FALSE]  BY <1>2, <1>7
  <2>3. new[i].name = deps[i] /\ new[i].leave = FALSE  BY <2>2, CallFields
  <2> QED  BY <2>3, Zenon
<1>10. new[m + 1].leave /\ new[m + 1].name = n
  BY <1>6, <1>7, Zenon
<1>11. \A j \in 2..Len(c) : j + m \in m + 2..Len(new) /\ new[j + m] = c[j]
  <2> TAKE j \in 2..Len(c)
  <2>1. j - 1 \in 1..Len(c) - 1 /\ t[j - 1] = c[j]  BY <1>4
  <2>2. m + 1 + (j - 1) = j + m  BY <1>1, <1>4
  <2>3. new[j + m] = c[j]  BY <1>7, <2>1, <2>2
  <2>4. j + m \in m + 2..m + Len(c)  BY <1>1, <1>4
  <2> QED  BY <1>8, <2>3, <2>4
<1>12. \A i \in m + 2..Len(new) : i - m \in 2..Len(c) /\ new[i] = c[i - m]
  <2> TAKE i \in m + 2..Len(new)
  <2>1. i \in m + 2..m + Len(c)  BY <1>8
  <2>2. i - m \in 2..Len(c) /\ (i - m) + m = i  BY <1>1, <1>4, <2>1
  <2>3. new[(i - m) + m] = c[i - m]  BY <1>11, <2>2
  <2> QED  BY <2>2, <2>3
<1>13. new \in CallSeqs  BY <1>7 DEF C, CallSeqs
<1> QED  BY <1>1, <1>8, <1>9, <1>10, <1>11, <1>12, <1>13, Zenon DEF new, m

(* A name that is entered: its dependencies are called first.              *)
LEMMA EnterInv ==
    ASSUME NEW sources, SortInputOK(sources), NEW c, NEW k, NEW s, NEW e,
           SearchInv(sources, c, k, s, e), c # <<>>, ~c[1].leave,
           c[1].name \in SourceNames(sources), c[1].name \notin k, c[1].name \notin ToSet(s)
    PROVE  SearchInv(sources, Enter(DepsOf(sources, c[1].name)) \o Leave(c[1].name) \o Tail(c),
                     k \cup {c[1].name}, s, e)
<1> DEFINE n == c[1].name
           deps == DepsOf(sources, n)
           m == Len(deps)
           new == EnterCalls(deps, n, c)
<1>1. c \in CallSeqs /\ Len(c) \in Nat \ {0} /\ n \in Strings  BY FirstCall DEF SearchInv
<1>2. e = FALSE /\ Stacked(c, k) /\ AllCalled(sources, c, s) /\ DepsCalled(sources, c, s)
  BY DEF SearchInv
<1>3. PICK at \in DOMAIN sources : sources[at].name = n /\ sources[at].deps = deps
  BY SourceFound
<1>4. deps \in Seq(Strings)  BY SourceFound
<1>5. /\ m \in Nat /\ new \in CallSeqs /\ Len(new) = m + Len(c)
      /\ \A i \in 1..m : ~new[i].leave /\ new[i].name = deps[i]
      /\ new[m + 1].leave /\ new[m + 1].name = n
      /\ \A i \in m + 2..Len(new) : i - m \in 2..Len(c) /\ new[i] = c[i - m]
      /\ \A j \in 2..Len(c) : j + m \in m + 2..Len(new) /\ new[j + m] = c[j]
  <2>2. deps \in Seq(Strings) /\ c \in CallSeqs /\ c # <<>> /\ n \in Strings  BY <1>1, <1>4
  <2> HIDE DEF deps, n
  <2> QED  BY <2>2, EnteredCalls
<1>6. DOMAIN deps = 1..m  BY <1>4
<1> HIDE DEF deps, m, new
<1>7. \A i \in 1..Len(new) : i \in 1..m \/ i = m + 1 \/ i \in m + 2..Len(new)
  BY <1>1, <1>5
<1>8. m + 1 \in 1..Len(new) /\ 1..m \subseteq 1..Len(new) /\ m + 2..Len(new) \subseteq 1..Len(new)
  BY <1>1, <1>5
<1>9. Stacked(new, k \cup {n})
  <2>1. ASSUME NEW i \in 1..Len(new), new[i].leave
        PROVE  /\ new[i].name \in k \cup {n}
               /\ new[i].name = n => i = m + 1
               /\ i # m + 1 => i \in m + 2..Len(new)
    <3>1. CASE i = m + 1  BY <1>5, <3>1
    <3>2. CASE i \in m + 2..Len(new)
      <4>1. i - m \in 1..Len(c) /\ new[i] = c[i - m]  BY <1>1, <1>5, <3>2
      <4>2. c[i - m].name \in k  BY <1>2, <2>1, <4>1 DEF Stacked
      <4> QED  BY <3>2, <4>1, <4>2
    <3>3. CASE i \in 1..m  BY <1>5, <2>1, <3>3
    <3> QED  BY <1>7, <3>1, <3>2, <3>3
  <2>2. ASSUME NEW x \in k \cup {n}  PROVE \E i \in 1..Len(new) : new[i].leave /\ new[i].name = x
    <3>1. CASE x = n  BY <1>5, <1>8, <3>1
    <3>2. CASE x \in k
      <4>1. PICK i \in 1..Len(c) : c[i].leave /\ c[i].name = x  BY <1>2, <3>2 DEF Stacked
      <4>2. i \in 2..Len(c)  BY <1>1, <4>1
      <4>3. i + m \in 1..Len(new) /\ new[i + m] = c[i]  BY <1>5, <1>8, <4>2
      <4> QED  BY <4>1, <4>3
    <3> QED  BY <3>1, <3>2
  <2>3. ASSUME NEW i \in 1..Len(new), NEW j \in 1..Len(new), new[i].leave, new[j].leave,
               new[i].name = new[j].name
        PROVE  i = j
    <3>1. CASE i = m + 1
      <4>1. new[j].name = n  BY <1>5, <2>3, <3>1
      <4> QED  BY <2>1, <2>3, <3>1, <4>1
    <3>2. CASE j = m + 1
      <4>1. new[i].name = n  BY <1>5, <2>3, <3>2
      <4> QED  BY <2>1, <2>3, <3>2, <4>1
    <3>3. CASE i # m + 1 /\ j # m + 1
      <4>1. i \in m + 2..Len(new) /\ j \in m + 2..Len(new)  BY <2>1, <2>3, <3>3
      <4>2. /\ i - m \in 1..Len(c) /\ j - m \in 1..Len(c)
            /\ new[i] = c[i - m] /\ new[j] = c[j - m]
        BY <1>1, <1>5, <4>1
      <4>3. i - m = j - m  BY <1>2, <2>3, <4>2 DEF Stacked
      <4> QED  BY <1>5, <4>1, <4>3
    <3> QED  BY <3>1, <3>2, <3>3
  <2> QED  BY <2>1, <2>2, <2>3 DEF Stacked
<1>10. AllCalled(sources, new, s)
  <2> SUFFICES ASSUME NEW x \in SourceNames(sources), x \notin ToSet(s)
               PROVE  \E i \in 1..Len(new) : new[i].name = x
    BY DEF AllCalled
  <2>1. PICK i \in 1..Len(c) : c[i].name = x  BY <1>2 DEF AllCalled
  <2>2. CASE i = 1  BY <1>5, <1>8, <2>1, <2>2
  <2>3. CASE i \in 2..Len(c)
    <3>1. i + m \in 1..Len(new) /\ new[i + m] = c[i]  BY <1>5, <1>8, <2>3
    <3> QED  BY <2>1, <3>1
  <2> QED  BY <1>1, <2>2, <2>3
<1>11. DepsCalled(sources, new, s)
  <2> SUFFICES ASSUME NEW j \in 1..Len(new), new[j].leave,
                      NEW x \in DOMAIN DepsOf(sources, new[j].name),
                      DepsOf(sources, new[j].name)[x] \notin ToSet(s)
               PROVE  \E i \in 1..j - 1 : new[i].name = DepsOf(sources, new[j].name)[x]
    BY DEF DepsCalled
  <2>1. CASE j = m + 1
    <3>1. DepsOf(sources, new[j].name) = deps  BY <1>5, <2>1 DEF deps
    <3>2. x \in 1..m /\ x \in 1..j - 1  BY <1>5, <1>6, <2>1, <3>1
    <3> QED  BY <1>5, <3>1, <3>2
  <2>2. CASE j \in m + 2..Len(new)
    <3>1. j - m \in 2..Len(c) /\ j - m \in 1..Len(c) /\ new[j] = c[j - m]  BY <1>1, <1>5, <2>2
    <3> DEFINE dep == DepsOf(sources, c[j - m].name)[x]
    <3>2. PICK i \in 1..(j - m) - 1 : c[i].name = dep
      BY <1>2, <3>1 DEF DepsCalled
    <3>3. CASE i = 1
      <4>1. m + 1 \in 1..j - 1 /\ new[m + 1].name = dep  BY <1>5, <2>2, <3>2, <3>3
      <4> QED  BY <3>1, <4>1
    <3>4. CASE i # 1
      <4>1. i \in 2..Len(c) /\ i + m \in 1..j - 1  BY <1>1, <1>5, <2>2, <3>1, <3>2, <3>4
      <4>2. new[i + m] = c[i]  BY <1>5, <4>1
      <4> QED  BY <3>1, <3>2, <4>1, <4>2
    <3> QED  BY <3>3, <3>4
  <2>3. CASE j \in 1..m  BY <1>5, <2>3
  <2> QED  BY <1>7, <2>1, <2>2, <2>3
<1>12. Descends(sources, new, e)
  <2> SUFFICES ASSUME NEW f \in Ranks(sources), IsKnown(sources), IsBefore(sources, f)
               PROVE  /\ ~e
                      /\ \A i \in 1..Len(new) : new[i].name \in SourceNames(sources)
                      /\ \A j \in 1..Len(new) : new[j].leave =>
                            \A i \in 1..j - 1 : f[new[i].name] < f[new[j].name]
    BY DEF Descends
  <2>1. /\ \A i \in 1..Len(c) : c[i].name \in SourceNames(sources)
        /\ \A j \in 1..Len(c) : c[j].leave => \A i \in 1..j - 1 : f[c[i].name] < f[c[j].name]
    BY DEF SearchInv, Descends
  <2>2. \A i \in 1..m : deps[i] \in SourceNames(sources) /\ f[deps[i]] < f[n]
    BY <1>3, <1>6 DEF IsKnown, IsBefore
  <2>3. \A i \in 1..Len(new) : new[i].name \in SourceNames(sources)
    <3> TAKE i \in 1..Len(new)
    <3>1. CASE i \in 1..m  BY <1>5, <2>2, <3>1
    <3>2. CASE i = m + 1  BY <1>5, <3>2
    <3>3. CASE i \in m + 2..Len(new)
      <4>1. i - m \in 1..Len(c) /\ new[i] = c[i - m]  BY <1>1, <1>5, <3>3
      <4> QED  BY <2>1, <4>1
    <3> QED  BY <1>7, <3>1, <3>2, <3>3
  <2>4. Len(sources) \in Nat  BY DEF SortInputOK
  <2>5. \A x \in SourceNames(sources) : f[x] \in Int  BY <2>4 DEF Ranks
  <2>6. ASSUME NEW j \in 1..Len(new), new[j].leave, NEW i \in 1..j - 1
        PROVE  f[new[i].name] < f[new[j].name]
    <3>1. CASE j = m + 1
      <4>1. i \in 1..m  BY <1>5, <2>6, <3>1
      <4> QED  BY <1>5, <2>2, <3>1, <4>1
    <3>2. CASE j \in m + 2..Len(new)
      <4>1. j - m \in 2..Len(c) /\ j - m \in 1..Len(c) /\ new[j] = c[j - m]
        BY <1>1, <1>5, <3>2
      <4>2. 1 \in 1..(j - m) - 1  BY <1>1, <1>5, <4>1
      <4>3. f[n] < f[c[j - m].name]  BY <2>1, <2>6, <4>1, <4>2
      <4>4. CASE i \in 1..m
        <5>1. f[deps[i]] < f[n] /\ new[i].name = deps[i]  BY <1>5, <2>2, <4>4
        <5>2. f[deps[i]] \in Int /\ f[n] \in Int /\ f[c[j - m].name] \in Int
          BY <2>1, <2>2, <2>5, <4>1, <4>4
        <5> QED  BY <4>1, <4>3, <5>1, <5>2
      <4>5. CASE i = m + 1  BY <1>5, <4>1, <4>3, <4>5
      <4>6. CASE i \in m + 2..Len(new)
        <5>1. new[i] = c[i - m]  BY <1>5, <4>6
        <5>2. m \in Nat /\ Len(new) \in Nat  BY <1>1, <1>5
        <5>3. i - m \in 1..(j - m) - 1  BY <2>6, <4>6, <5>2
        <5> QED  BY <2>1, <2>6, <4>1, <5>1, <5>3
      <4>7. i \in 1..Len(new)  BY <1>1, <1>5, <2>6
      <4> QED  BY <1>7, <4>4, <4>5, <4>6, <4>7
    <3>3. CASE j \in 1..m  BY <1>5, <2>6, <3>3
    <3> QED  BY <1>7, <3>1, <3>2, <3>3
  <2> QED  BY <1>2, <2>3, <2>6
<1>13. (k \cup {n}) \cap ToSet(s) = {} /\ k \cup {n} \subseteq SourceNames(sources)
  BY DEF SearchInv
<1> QED  BY <1>2, <1>5, <1>9, <1>10, <1>11, <1>12, <1>13 DEF SearchInv, new, deps, EnterCalls

LEMMA StartInv ==
    ASSUME NEW sources, SortInputOK(sources)
    PROVE  LET d == StartSearch(sources)
           IN  SearchInv(sources, d.calls, d.inStack, d.sorted, d.err) /\ Len(d.calls) = Len(sources)
<1> DEFINE ns == [i \in DOMAIN sources |-> sources[i].name]
           c == Enter(ns)
           d == StartSearch(sources)
           C == [name : Strings, leave : BOOLEAN]
<1>1. d.calls = c /\ d.inStack = {} /\ d.sorted = <<>> /\ d.err = FALSE
  BY DEF StartSearch
<1>2. Len(sources) \in Nat /\ DOMAIN sources = 1..Len(sources)
  BY DEF SortInputOK
<1>3. \A i \in 1..Len(sources) : sources[i].name \in Strings
  <2> TAKE i \in 1..Len(sources)
  <2>1. sources \in Sources  BY DEF SortInputOK, Sources
  <2>2. sources[i] \in [name : Strings, critical : BOOLEAN, deps : Seq(Strings), writes : Seq(Strings)]
    BY <1>2, <2>1, ElementOf DEF Sources
  <2> QED  BY <2>2
<1>4. c = [i \in 1..Len(sources) |-> [name |-> sources[i].name, leave |-> FALSE]]
  BY <1>2 DEF Enter
<1>5. c \in CallSeqs /\ Len(c) = Len(sources)
  <2>1. \A i \in 1..Len(sources) : [name |-> sources[i].name, leave |-> FALSE] \in C  BY <1>3
  <2> HIDE DEF C
  <2>2. c \in [1..Len(sources) -> C]  BY <1>4, <2>1
  <2>3. c \in Seq(C) /\ Len(c) = Len(sources)  BY <1>2, <1>4, <2>2
  <2> QED  BY <2>3 DEF C, CallSeqs
<1>6. \A i \in 1..Len(c) : ~c[i].leave /\ c[i].name = sources[i].name
  BY <1>4, <1>5
<1> HIDE DEF c
<1>7. Stacked(c, {})  BY <1>6 DEF Stacked
<1>8. AllCalled(sources, c, <<>>)  BY <1>2, <1>5, <1>6 DEF AllCalled, SourceNames
<1>9. DepsCalled(sources, c, <<>>)  BY <1>6 DEF DepsCalled
<1>10. InOrder(sources, <<>>)  BY DEF InOrder
<1>11. Descends(sources, c, FALSE)  BY <1>2, <1>5, <1>6 DEF Descends, SourceNames
<1>12. ToSet(<<>>) = {}  BY DEF ToSet
<1>13. SearchInv(sources, c, {}, <<>>, FALSE)
  <2>1. <<>> \in Seq(SourceNames(sources))  OBVIOUS
  <2>2. \A i, j \in 1..Len(<<>>) : <<>>[i] = <<>>[j] => i = j  OBVIOUS
  <2>3. {} \cap ToSet(<<>>) = {} /\ {} \subseteq SourceNames(sources)  OBVIOUS
  <2> QED
    BY <1>5, <1>7, <1>8, <1>9, <1>10, <1>11, <2>1, <2>2, <2>3, Zenon DEF SearchInv
<1> HIDE DEF d
<1>14. SearchInv(sources, d.calls, d.inStack, d.sorted, d.err) /\ Len(d.calls) = Len(sources)
  BY <1>1, <1>5, <1>13
<1> QED  BY <1>14 DEF d

(* The names of a sequence that has none twice are as many as its places.  *)
LEMMA CountedNames ==
    ASSUME NEW S, NEW q \in Seq(S), \A i, j \in 1..Len(q) : q[i] = q[j] => i = j,
           NEW T, \A x : x \in T <=> \E i \in 1..Len(q) : q[i] = x
    PROVE  IsFiniteSet(T) /\ Cardinality(T) = Len(q)
<1>1. Len(q) \in Nat /\ DOMAIN q = 1..Len(q)  OBVIOUS
<1>2. \A i \in 1..Len(q) : q[i] \in T  OBVIOUS
<1> DEFINE f == [i \in 1..Len(q) |-> q[i]]
<1>3. f \in Injection(1..Len(q), T)  BY <1>2 DEF Injection, IsInjective
<1>4. f \in Surjection(1..Len(q), T)  BY <1>2 DEF Surjection
<1>5. ExistsBijection(1..Len(q), T)  BY <1>3, <1>4 DEF ExistsBijection, Bijection
<1> QED  BY <1>1, <1>5, FS_CountingElements, FS_NatBijection

LEMMA CountedSources ==
    ASSUME NEW sources, SortInputOK(sources)
    PROVE  /\ IsFiniteSet(SourceNames(sources)) /\ Cardinality(SourceNames(sources)) = Len(sources)
           /\ Len(sources) \in Nat /\ DOMAIN sources = 1..Len(sources)
           /\ SourceNames(sources) \subseteq Strings
<1>1. Len(sources) \in Nat /\ DOMAIN sources = 1..Len(sources)  BY DEF SortInputOK
<1> DEFINE q == [i \in 1..Len(sources) |-> sources[i].name]
<1>2. \A i \in 1..Len(sources) : sources[i].name \in Strings
  <2> TAKE i \in 1..Len(sources)
  <2>1. sources \in Sources  BY DEF SortInputOK, Sources
  <2>2. sources[i] \in [name : Strings, critical : BOOLEAN, deps : Seq(Strings), writes : Seq(Strings)]
    BY <1>1, <2>1, ElementOf DEF Sources
  <2> QED  BY <2>2
<1>3. q \in Seq(Strings) /\ Len(q) = Len(sources)  BY <1>1, <1>2
<1>4. \A i, j \in 1..Len(q) : q[i] = q[j] => i = j
  <2>1. \A i, j \in 1..Len(sources) : sources[i].name = sources[j].name => i = j
    BY <1>1 DEF SortInputOK
  <2> QED  BY <1>3, <2>1
<1>5. \A x : x \in SourceNames(sources) <=> \E i \in 1..Len(q) : q[i] = x
  BY <1>1, <1>3 DEF SourceNames
<1> HIDE DEF q
<1>6. IsFiniteSet(SourceNames(sources)) /\ Cardinality(SourceNames(sources)) = Len(q)
  BY <1>3, <1>4, <1>5, CountedNames
<1>7. SourceNames(sources) \subseteq Strings  BY <1>1, <1>2 DEF SourceNames
<1> QED  BY <1>1, <1>3, <1>6, <1>7

(* No source has more dependencies than MostDeps.                          *)
LEMMA MostDepsBounds ==
    ASSUME NEW sources, SortInputOK(sources)
    PROVE  /\ MostDeps(sources) \in Nat
           /\ \A i \in DOMAIN sources : Len(sources[i].deps) <= MostDeps(sources)
<1> DEFINE M == {0} \cup {Len(sources[i].deps) : i \in DOMAIN sources}
           Bound(n) == \E m \in M : \A i \in 1..n : Len(sources[i].deps) <= m
           Bad == {n \in 0..Len(sources) : ~Bound(n)}
<1>1. Len(sources) \in Nat /\ DOMAIN sources = 1..Len(sources)  BY CountedSources
<1>2. \A i \in 1..Len(sources) : Len(sources[i].deps) \in Nat
  <2> TAKE i \in 1..Len(sources)
  <2>1. sources \in Sources  BY DEF SortInputOK, Sources
  <2>2. sources[i] \in [name : Strings, critical : BOOLEAN, deps : Seq(Strings), writes : Seq(Strings)]
    BY <1>1, <2>1, ElementOf DEF Sources
  <2>3. sources[i].deps \in Seq(Strings)  BY <2>2
  <2> QED  BY <2>3
<1>3. M \subseteq Nat /\ 0 \in M /\ \A i \in 1..Len(sources) : Len(sources[i].deps) \in M
  BY <1>1, <1>2
<1>4. Bad = {}
  <2> SUFFICES ASSUME Bad # {}  PROVE FALSE
    OBVIOUS
  <2> HIDE DEF M
  <2>1. Bad \subseteq Nat  BY <1>1
  <2>2. PICK n \in Bad : \A k \in Bad : n <= k  BY <2>1, FirstOfNats
  <2>3. n # 0
    <3>1. Bound(0)  BY <1>3
    <3> QED  BY <2>2, <3>1
  <2>4. n \in Nat /\ n \in 1..Len(sources) /\ n - 1 \in 0..Len(sources)  BY <1>1, <2>2, <2>3
  <2>5. n - 1 \notin Bad
    <3> HIDE DEF Bad
    <3>1. ~(n <= n - 1)  BY <2>4
    <3> QED  BY <2>2, <3>1
  <2>6. PICK m \in M : \A i \in 1..n - 1 : Len(sources[i].deps) <= m  BY <2>4, <2>5
  <2> DEFINE l == Len(sources[n].deps)
  <2>7. l \in M /\ l \in Nat /\ m \in Nat  BY <1>2, <1>3, <2>4, <2>6
  <2>8. \A i \in 1..n : i \in 1..n - 1 \/ i = n  BY <2>4
  <2>9. CASE l <= m
    <3>1. \A i \in 1..n : Len(sources[i].deps) <= m  BY <2>6, <2>8, <2>9
    <3> QED  BY <2>2, <2>6, <3>1
  <2>10. CASE m <= l
    <3>1. ASSUME NEW i \in 1..n  PROVE Len(sources[i].deps) <= l
      <4>1. CASE i = n  BY <2>7, <4>1
      <4>2. CASE i \in 1..n - 1
        <5>1. Len(sources[i].deps) <= m /\ i \in 1..Len(sources)  BY <1>1, <2>4, <2>6, <4>2
        <5>2. Len(sources[i].deps) \in Nat  BY <1>2, <5>1
        <5> QED  BY <2>7, <2>10, <5>1, <5>2
      <4> QED  BY <2>8, <4>1, <4>2
    <3> QED  BY <2>2, <2>7, <3>1
  <2> QED  BY <2>7, <2>9, <2>10
<1>5. Bound(Len(sources))
  <2>1. Len(sources) \in 0..Len(sources)  BY <1>1
  <2> HIDE DEF Bound
  <2> QED  BY <1>4, <2>1
<1>6. \E m \in M : \A i \in DOMAIN sources : Len(sources[i].deps) <= m  BY <1>1, <1>5
<1>7. MostDeps(sources) \in M /\ \A i \in DOMAIN sources : Len(sources[i].deps) <= MostDeps(sources)
  BY <1>6 DEF MostDeps
<1> QED  BY <1>3, <1>7

-----------------------------------------------------------------------------
(* The search as a whole: what is left to do falls with every step.        *)

Untouched(sources, k, s) == SourceNames(sources) \ (k \cup ToSet(s))
LeftToDo(sources, c, k, s) ==
    Cardinality(Untouched(sources, k, s)) * (MostDeps(sources) + 2) + Len(c)

State(c, k, s, e) == [calls |-> c, inStack |-> k, sorted |-> s, err |-> e]

SearchAt(sources, d, n) ==
    \E c, k, s, e :
       /\ d = State(c, k, s, e)
       /\ SearchInv(sources, c, k, s, e)
       /\ c = <<>> \/ LeftToDo(sources, c, k, s) + n <= LastStep(sources)

LEMMA OneLess ==
    ASSUME NEW u \in Nat, NEW w \in Nat, NEW v \in Nat, u = v + 1
    PROVE  u * w = v * w + w
OBVIOUS

LEMMA UntouchedFinite ==
    ASSUME NEW sources, SortInputOK(sources), NEW k, NEW s
    PROVE  IsFiniteSet(Untouched(sources, k, s)) /\ Cardinality(Untouched(sources, k, s)) \in Nat
<1>1. Untouched(sources, k, s) \subseteq SourceNames(sources)  BY DEF Untouched
<1>2. IsFiniteSet(SourceNames(sources))  BY CountedSources
<1>3. IsFiniteSet(Untouched(sources, k, s))  BY <1>1, <1>2, FS_Subset
<1> QED  BY <1>3, FS_CardinalityType

LEMMA StepAt ==
    ASSUME NEW sources, SortInputOK(sources), NEW d, NEW n \in Nat, SearchAt(sources, d, n)
    PROVE  SearchAt(sources, Visit(sources, d), n + 1)
<1> DEFINE z == Visit(sources, d)
<1>1. PICK c, k, s, e : /\ d = State(c, k, s, e)
                        /\ SearchInv(sources, c, k, s, e)
                        /\ c = <<>> \/ LeftToDo(sources, c, k, s) + n <= LastStep(sources)
  BY DEF SearchAt
<1>2. d.calls = c /\ d.inStack = k /\ d.sorted = s /\ d.err = e  BY <1>1 DEF State
<1>3. CASE c = <<>>
  <2>1. z = d  BY <1>2, <1>3 DEF Visit
  <2> QED  BY <1>1, <1>3, <2>1 DEF SearchAt
<1>4. CASE c # <<>>
  <2> DEFINE x == c[1].name
             W == MostDeps(sources) + 2
             last == LastStep(sources)
             u == Cardinality(Untouched(sources, k, s))
  <2>1. c \in CallSeqs  BY <1>1 DEF SearchInv
  <2>2. /\ Len(c) \in Nat \ {0} /\ Tail(c) \in CallSeqs /\ Len(Tail(c)) = Len(c) - 1
        /\ Head(c) = c[1] /\ x \in Strings /\ c[1].leave \in BOOLEAN
    BY <1>4, <2>1, FirstCall
  <2>3. W \in Nat /\ MostDeps(sources) \in Nat  BY MostDepsBounds
  <2>4. last \in Nat
    <3>1. Len(sources) \in Nat  BY CountedSources
    <3> QED  BY <2>3, <3>1 DEF LastStep
  <2>5. u \in Nat  BY UntouchedFinite
  <2>6. u * W + Len(c) + n <= last  BY <1>1, <1>4 DEF LeftToDo
  <2> HIDE DEF u, W, last, x
  <2>7. u * W \in Nat  BY <2>3, <2>5
  <2>8. CASE c[1].leave
    <3>1. z = LeaveName(d, x, Tail(c))  BY <1>2, <1>4, <2>2, <2>8 DEF Visit, x
    <3>2. z = State(Tail(c), k \ {x}, Append(s, x), e)  BY <1>1, <3>1 DEF LeaveName, State
    <3>3. SearchInv(sources, Tail(c), k \ {x}, Append(s, x), e)
      BY <1>1, <1>4, <2>8, LeaveInv DEF x
    <3>4. x \in SourceNames(sources) /\ s \in Seq(SourceNames(sources)) /\ x \in k
      <4>1. 1 \in 1..Len(c)  BY <2>2
      <4>2. e = FALSE  BY <1>1, <1>4 DEF SearchInv
      <4>3. x \in k  BY <1>1, <2>8, <4>1, <4>2 DEF SearchInv, Stacked, x
      <4> QED  BY <1>1, <4>3 DEF SearchInv
    <3>5. ToSet(Append(s, x)) = ToSet(s) \cup {x}  BY <3>4, SortedGrows
    <3>6. Untouched(sources, k \ {x}, Append(s, x)) = Untouched(sources, k, s)
      BY <3>4, <3>5 DEF Untouched
    <3>7. LeftToDo(sources, Tail(c), k \ {x}, Append(s, x)) = u * W + (Len(c) - 1)
      BY <2>2, <3>6 DEF LeftToDo, u, W
    <3>8. LeftToDo(sources, Tail(c), k \ {x}, Append(s, x)) + (n + 1) <= LastStep(sources)
      BY <2>2, <2>4, <2>6, <2>7, <3>7 DEF last
    <3> QED  BY <3>2, <3>3, <3>8 DEF SearchAt
  <2>9. CASE ~c[1].leave
    <3>1. z = VisitName(sources, d, x, Tail(c))  BY <1>2, <1>4, <2>2, <2>9 DEF Visit, x
    <3>2. CASE x \in ToSet(s)
      <4>1. z = State(Tail(c), k, s, e)  BY <1>1, <1>2, <3>1, <3>2 DEF VisitName, State
      <4>2. SearchInv(sources, Tail(c), k, s, e)  BY <1>1, <1>4, <2>9, <3>2, SkipInv DEF x
      <4>3. LeftToDo(sources, Tail(c), k, s) = u * W + (Len(c) - 1)
        BY <2>2 DEF LeftToDo, u, W
      <4>4. LeftToDo(sources, Tail(c), k, s) + (n + 1) <= LastStep(sources)
        BY <2>2, <2>4, <2>6, <2>7, <4>3 DEF last
      <4> QED  BY <4>1, <4>2, <4>4 DEF SearchAt
    <3>3. CASE x \notin ToSet(s) /\ (x \in k \/ x \notin SourceNames(sources))
      <4>1. z = State(<<>>, k, s, TRUE)  BY <1>1, <1>2, <3>1, <3>3 DEF VisitName, State
      <4>2. SearchInv(sources, <<>>, k, s, TRUE)  BY <1>1, <1>4, <2>9, <3>3, ErrorInv DEF x
      <4> QED  BY <4>1, <4>2 DEF SearchAt
    <3>4. CASE x \notin ToSet(s) /\ x \notin k /\ x \in SourceNames(sources)
      <4> DEFINE deps == DepsOf(sources, x)
                 new == EnterCalls(deps, x, c)
                 v == Cardinality(Untouched(sources, k \cup {x}, s))
      <4>1. z = State(new, k \cup {x}, s, e)
        BY <1>1, <1>2, <3>1, <3>4 DEF VisitName, State, EnterCalls, DepsOf
      <4>2. SearchInv(sources, new, k \cup {x}, s, e)
        BY <1>1, <1>4, <2>9, <3>4, EnterInv DEF x, EnterCalls
      <4>3. deps \in Seq(Strings) /\ Len(deps) <= MostDeps(sources) /\ Len(deps) \in Nat
        <5>1. deps \in Seq(Strings) /\ \E i \in DOMAIN sources : sources[i].deps = deps
          BY <3>4, SourceFound
        <5> HIDE DEF deps
        <5> QED  BY <5>1, MostDepsBounds
      <4>4. Len(new) = Len(deps) + Len(c)
        <5> HIDE DEF deps
        <5> QED  BY <1>4, <2>1, <2>2, <4>3, EnteredCalls
      <4>5. v \in Nat /\ u = v + 1
        <5>1. Untouched(sources, k \cup {x}, s) = Untouched(sources, k, s) \ {x}
          BY DEF Untouched
        <5>2. x \in Untouched(sources, k, s)  BY <3>4 DEF Untouched
        <5>3. IsFiniteSet(Untouched(sources, k, s))  BY UntouchedFinite
        <5>4. v = u - 1  BY <5>1, <5>2, <5>3, FS_RemoveElement DEF u
        <5>5. v \in Nat  BY UntouchedFinite
        <5> QED  BY <2>5, <5>4, <5>5
      <4>6. LeftToDo(sources, new, k \cup {x}, s) = v * W + Len(new)  BY DEF LeftToDo, W
      <4> DEFINE l == Len(deps)
      <4>7. l \in Nat /\ l + 2 <= W  BY <2>3, <4>3 DEF W
      <4>8. Len(new) = l + Len(c)  BY <4>4
      <4> HIDE DEF v, l, new
      <4>9. u * W = v * W + W /\ v * W \in Nat  BY <2>3, <2>5, <4>5, OneLess
      <4>10. v * W + Len(new) + (n + 1) <= last
        <5> DEFINE p == v * W
                   y == Len(c)
        <5>1. p + W + y + n <= last /\ p \in Nat /\ y \in Nat /\ Len(new) = l + y
          BY <2>2, <2>6, <4>8, <4>9
        <5> HIDE DEF p, y
        <5>2. p + (l + y) + (n + 1) <= last  BY <2>3, <2>4, <4>7, <5>1
        <5> QED  BY <5>1, <5>2 DEF p
      <4>11. LeftToDo(sources, new, k \cup {x}, s) + (n + 1) <= LastStep(sources)
        BY <4>6, <4>10 DEF last
      <4> QED  BY <4>1, <4>2, <4>11 DEF SearchAt
    <3> QED  BY <3>2, <3>3, <3>4
  <2> QED  BY <2>8, <2>9
<1> QED  BY <1>3, <1>4

LEMMA StartAt ==
    ASSUME NEW sources, SortInputOK(sources)
    PROVE  SearchAt(sources, StartSearch(sources), 0)
<1> DEFINE c == Enter([i \in DOMAIN sources |-> sources[i].name])
           d == StartSearch(sources)
           W == MostDeps(sources)
           L == Len(sources)
<1>1. d = State(c, {}, <<>>, FALSE)  BY DEF StartSearch, State
<1>2. d.calls = c /\ d.inStack = {} /\ d.sorted = <<>> /\ d.err = FALSE  BY DEF StartSearch
<1>3. SearchInv(sources, d.calls, d.inStack, d.sorted, d.err) /\ Len(d.calls) = L
  BY StartInv
<1>4. SearchInv(sources, c, {}, <<>>, FALSE) /\ Len(c) = L  BY <1>2, <1>3
<1>5. Untouched(sources, {}, <<>>) = SourceNames(sources)  BY DEF Untouched, ToSet
<1>6. L \in Nat /\ Cardinality(SourceNames(sources)) = L  BY CountedSources
<1>7. W \in Nat  BY MostDepsBounds
<1>8. LeftToDo(sources, c, {}, <<>>) = L * (W + 2) + L  BY <1>4, <1>5, <1>6 DEF LeftToDo
<1>9. LastStep(sources) = L * (W + 3)  BY DEF LastStep
<1> HIDE DEF c, d, W, L
<1>10. L * (W + 2) + L + 0 <= L * (W + 3)  BY <1>6, <1>7
<1>11. LeftToDo(sources, c, {}, <<>>) + 0 <= LastStep(sources)  BY <1>8, <1>9, <1>10
<1> QED  BY <1>1, <1>4, <1>11 DEF SearchAt, d

(* f is the function by which Search makes n steps.                        *)
Searches(sources, f, n) ==
    f = [i \in 0..n |-> IF i = 0 THEN StartSearch(sources) ELSE Visit(sources, f[i - 1])]

LEMMA SearchExists ==
    ASSUME NEW sources, NEW m \in Nat
    PROVE  \E f : Searches(sources, f, m)
  <1> DEFINE Bad == {n \in Nat : ~ \E f : Searches(sources, f, n)}
             s0 == StartSearch(sources)
  <1> SUFFICES ASSUME Bad # {}
               PROVE  FALSE
    OBVIOUS
  <1>1. PICK n \in Bad : \A k \in Bad : n <= k
    BY FirstOfNats
  <1>2. n # 0
    <2> SUFFICES ASSUME n = 0
                 PROVE  FALSE
      OBVIOUS
    <2>1. [i \in 0..0 |-> s0] =
            [i \in 0..0 |-> IF i = 0 THEN s0 ELSE Visit(sources, [j \in 0..0 |-> s0][i - 1])]
      OBVIOUS
    <2> QED
      BY <1>1, <2>1 DEF Searches
  <1>3. n \in Nat /\ n - 1 \in Nat /\ n - 1 \notin Bad
    BY <1>1, <1>2
  <1>4. PICK f : Searches(sources, f, n - 1)
    BY <1>3
  <1> DEFINE g == [i \in 0..n |-> IF i = n THEN Visit(sources, f[n - 1]) ELSE f[i]]
  <1>5. ASSUME NEW i \in 0..n
        PROVE  g[i] = IF i = 0 THEN s0 ELSE Visit(sources, g[i - 1])
    <2>1. CASE i = n
      <3>1. g[i - 1] = f[n - 1] /\ g[i] = Visit(sources, f[n - 1])
        BY <1>3, <2>1
      <3> QED
        BY <1>2, <2>1, <3>1
    <2>2. CASE i = 0
      BY <1>2, <1>3, <1>4, <2>2 DEF Searches
    <2>3. CASE i # n /\ i # 0
      <3>1. i \in 0..(n - 1) /\ i - 1 \in 0..(n - 1) /\ i - 1 # n /\ i - 1 \in 0..n
        BY <1>3, <2>3
      <3>2. g[i] = f[i] /\ g[i - 1] = f[i - 1]
        BY <2>3, <3>1
      <3>3. f[i] = IF i = 0 THEN s0 ELSE Visit(sources, f[i - 1])
        BY <1>4, <3>1 DEF Searches
      <3> QED
        BY <3>2, <3>3
    <2> QED
      BY <2>1, <2>2, <2>3
  <1>6. Searches(sources, g, n)
    BY <1>5 DEF Searches
  <1> QED
    BY <1>1, <1>6

(* What the search has found when it is over.                              *)
LEMMA SortResult ==
    ASSUME NEW sources, SortInputOK(sources)
    PROVE  \E k, s, e : /\ SortByDependencies(sources) = State(<<>>, k, s, e)
                        /\ SearchInv(sources, <<>>, k, s, e)
<1> DEFINE last == LastStep(sources)
           f == Search(sources)
<1>1. last \in Nat
  <2>1. Len(sources) \in Nat  BY CountedSources
  <2>2. MostDeps(sources) \in Nat  BY MostDepsBounds
  <2> QED  BY <2>1, <2>2 DEF LastStep
<1>2. Searches(sources, f, last)
  <2>1. \E g : Searches(sources, g, last)  BY <1>1, SearchExists
  <2>2. Searches(sources, CHOOSE g : Searches(sources, g, last), last)  BY <2>1
  <2>3. f = CHOOSE g : Searches(sources, g, last)  BY DEF Search, Searches
  <2> QED  BY <2>2, <2>3
<1> HIDE DEF f
<1> DEFINE Bad == {n \in 0..last : ~SearchAt(sources, f[n], n)}
<1>3. Bad = {}
  <2> SUFFICES ASSUME Bad # {}  PROVE FALSE
    OBVIOUS
  <2>1. Bad \subseteq Nat  OBVIOUS
  <2>2. PICK n \in Bad : \A k \in Bad : n <= k  BY <2>1, FirstOfNats
  <2>3. CASE n = 0
    <3>1. f[0] = StartSearch(sources)  BY <1>1, <1>2 DEF Searches
    <3>2. SearchAt(sources, f[0], 0)  BY <3>1, StartAt
    <3> QED  BY <2>2, <2>3, <3>2
  <2>4. CASE n # 0
    <3>1. n - 1 \in 0..last /\ n - 1 \in Nat /\ n - 1 \notin Bad /\ (n - 1) + 1 = n
      BY <1>1, <2>2, <2>4
    <3>2. SearchAt(sources, f[n - 1], n - 1)  BY <3>1
    <3>3. f[n] = Visit(sources, f[n - 1])  BY <1>1, <1>2, <2>2, <2>4 DEF Searches
    <3>4. SearchAt(sources, f[n], (n - 1) + 1)  BY <3>1, <3>2, <3>3, StepAt
    <3> QED  BY <2>2, <3>1, <3>4
  <2> QED  BY <2>3, <2>4
<1>4. SearchAt(sources, f[last], last)  BY <1>1, <1>3
<1>5. PICK c, k, s, e : /\ f[last] = State(c, k, s, e)
                        /\ SearchInv(sources, c, k, s, e)
                        /\ c = <<>> \/ LeftToDo(sources, c, k, s) + last <= last
  BY <1>4 DEF SearchAt
<1>6. c = <<>>
  <2> SUFFICES ASSUME c # <<>>  PROVE FALSE
    OBVIOUS
  <2>1. Len(c) \in Nat \ {0}  BY <1>5, FirstCall DEF SearchInv
  <2> DEFINE u == Cardinality(Untouched(sources, k, s))
             W == MostDeps(sources) + 2
  <2>2. u \in Nat /\ W \in Nat  BY MostDepsBounds, UntouchedFinite
  <2>3. LeftToDo(sources, c, k, s) = u * W + Len(c)  BY DEF LeftToDo
  <2> HIDE DEF u, W
  <2>4. u * W \in Nat  BY <2>2
  <2> HIDE DEF last
  <2> QED  BY <1>1, <1>5, <2>1, <2>3, <2>4
<1>7. SortByDependencies(sources) = f[last]  BY DEF SortByDependencies, f
<1> QED  BY <1>5, <1>6, <1>7

LEMMA SortIsSound ==
    ASSUME NEW sources, SortInputOK(sources)
    PROVE  DependenciesFirst(sources)
<1> DEFINE names == SourceNames(sources)
           result == SortByDependencies(sources)
           place == [n \in names |-> CHOOSE i \in DOMAIN result.sorted : result.sorted[i] = n]
<1>1. PICK k, s, e : /\ result = State(<<>>, k, s, e)
                     /\ SearchInv(sources, <<>>, k, s, e)
  BY SortResult
<1>2. result.calls = <<>> /\ result.sorted = s /\ result.err = e  BY <1>1 DEF State
<1>3. /\ s \in Seq(names) /\ e \in BOOLEAN /\ InOrder(sources, s)
      /\ \A i, j \in 1..Len(s) : s[i] = s[j] => i = j
      /\ ~e => AllCalled(sources, <<>>, s)
      /\ Descends(sources, <<>>, e)
  BY <1>1 DEF SearchInv
<1>4. Len(s) \in Nat /\ DOMAIN s = 1..Len(s) /\ ToSet(s) \subseteq names  BY <1>3, InSorted
<1>5. /\ IsFiniteSet(names) /\ Cardinality(names) = Len(sources) /\ Len(sources) \in Nat
      /\ DOMAIN sources = 1..Len(sources)
  BY CountedSources
<1>6. e => ~(IsKnown(sources) /\ \E f \in Ranks(sources) : IsBefore(sources, f))
  BY <1>3 DEF Descends
<1> HIDE DEF result, names
<1>7. ASSUME ~e
      PROVE  /\ ToSet(s) = names /\ Len(s) = Len(sources)
             /\ IsKnown(sources) /\ place \in Ranks(sources) /\ IsBefore(sources, place)
  <2>1. ToSet(s) = names
    <3>1. \A n \in names : n \in ToSet(s) \/ \E i \in 1..Len(<<>>) : <<>>[i].name = n
      BY <1>3, <1>7 DEF AllCalled, names
    <3>2. \A n \in names : n \in ToSet(s)  BY <3>1
    <3> QED  BY <1>4, <3>2
  <2>2. \A x : x \in names <=> \E i \in 1..Len(s) : s[i] = x  BY <1>3, <2>1, InSorted
  <2>3. Len(s) = Len(sources)  BY <1>3, <1>5, <2>2, CountedNames
  <2>4. ASSUME NEW i \in 1..Len(s)  PROVE s[i] \in names /\ place[s[i]] = i
    <3>1. s[i] \in names  BY <2>2
    <3>2. place[s[i]] = CHOOSE j \in 1..Len(s) : s[j] = s[i]  BY <1>2, <1>4, <3>1
    <3> HIDE DEF place
    <3> QED  BY <1>3, <3>1, <3>2
  <2>5. place \in [names -> 1..Len(sources)]
    <3>1. \A n \in names : place[n] \in 1..Len(sources)
      <4> TAKE n \in names
      <4>1. PICK i \in 1..Len(s) : s[i] = n  BY <2>2
      <4> HIDE DEF place
      <4> QED  BY <2>3, <2>4, <4>1
    <3> QED  BY <3>1
  <2> HIDE DEF place
  <2>6. ASSUME NEW i \in DOMAIN sources, NEW j \in DOMAIN sources[i].deps
        PROVE  /\ sources[i].deps[j] \in names
               /\ place[sources[i].deps[j]] < place[sources[i].name]
    <3> DEFINE n == sources[i].name
    <3>1. n \in names  BY DEF names, SourceNames
    <3>2. PICK a \in 1..Len(s) : s[a] = n  BY <2>2, <3>1
    <3>3. PICK h \in DOMAIN sources : sources[h].name = n /\ sources[h].deps = DepsOf(sources, n)
      BY <3>1, SourceFound DEF names
    <3>4. h = i  BY <3>3 DEF SortInputOK
    <3>5. sources[i].deps = DepsOf(sources, s[a])  BY <3>2, <3>3, <3>4
    <3>6. PICK b \in 1..a - 1 : s[b] = sources[i].deps[j]  BY <1>3, <3>2, <3>5 DEF InOrder
    <3>7. b \in 1..Len(s) /\ b < a  BY <1>4, <3>2, <3>6
    <3>8. place[s[b]] = b /\ place[s[a]] = a /\ s[b] \in names  BY <2>4, <3>2, <3>7
    <3> QED  BY <3>2, <3>6, <3>7, <3>8
  <2>7. IsKnown(sources)  BY <2>6 DEF IsKnown, names
  <2>8. IsBefore(sources, place)  BY <2>6 DEF IsBefore
  <2> QED  BY <2>1, <2>3, <2>5, <2>7, <2>8 DEF Ranks, names
<1>8. result.err <=> ~(IsKnown(sources) /\ \E f \in Ranks(sources) : IsBefore(sources, f))
  BY <1>2, <1>3, <1>6, <1>7, Zenon
<1>9. ~result.err => /\ ToSet(result.sorted) = names
                     /\ Len(result.sorted) = Len(sources)
                     /\ IsBefore(sources, place)
  BY <1>2, <1>7, Zenon
<1> QED  BY <1>2, <1>8, <1>9, Zenon
         DEF DependenciesFirst, IsKnown, IsBefore, Ranks, result, names

-----------------------------------------------------------------------------
(* The sources of buildSources.                                            *)

SourceRecord == [name : Strings, critical : BOOLEAN, deps : Seq(Strings), writes : Seq(Strings)]

LEMMA SourcesTyped ==
    ASSUME EnrichConstants
    PROVE  /\ AllSources \subseteq SourceRecord
           /\ \A s \in AllSources : s.writes \in Seq(Strings) /\ Len(s.writes) >= 1
           /\ \A s, t \in AllSources : s.name = t.name => s = t
<1> DEFINE OK(s) == s \in SourceRecord /\ s.writes \in Seq(Strings) /\ Len(s.writes) >= 1
<1>0. ASSUME NEW s \in AllSources, NEW n, NEW b \in BOOLEAN, NEW D, NEW d \in Seq(D), NEW W, NEW w \in Seq(W),
             s = Source(n, b, d, w), Len(w) >= 1
      PROVE  OK(s) /\ s.name = n
  <2>1. s.name = n /\ s.critical = b /\ s.deps = d /\ s.writes = w  BY <1>0 DEF Source
  <2>2. n \in Strings /\ ToSet(d) \subseteq Strings /\ ToSet(w) \subseteq Strings
    BY <2>1 DEF EnrichConstants
  <2>3. d \in Seq(Strings)  BY <2>2 DEF ToSet
  <2>4. w \in Seq(Strings)  BY <2>2 DEF ToSet
  <2>5. s \in SourceRecord  BY <1>0, <2>2, <2>3, <2>4 DEF Source, SourceRecord
  <2> QED  BY <1>0, <2>1, <2>4, <2>5
<1>1. OK(Heroes) /\ Heroes.name = "heroes"
  <2>1. <<>> \in Seq({}) /\ <<"heroes">> \in Seq({"heroes"}) /\ Len(<<"heroes">>) >= 1  OBVIOUS
  <2>2. Heroes \in AllSources /\ Heroes = Source("heroes", TRUE, <<>>, <<"heroes">>)  BY DEF AllSources, Heroes
  <2>3. TRUE \in BOOLEAN  OBVIOUS
  <2> HIDE DEF OK
  <2> QED  BY <1>0, <2>1, <2>2, <2>3, Zenon
<1>2. OK(Abilities) /\ Abilities.name = "abilities"
  <2>1. <<>> \in Seq({}) /\ <<"abilities">> \in Seq({"abilities"}) /\ Len(<<"abilities">>) >= 1  OBVIOUS
  <2>2. Abilities \in AllSources /\ Abilities = Source("abilities", TRUE, <<>>, <<"abilities">>)  BY DEF AllSources, Abilities
  <2>3. TRUE \in BOOLEAN  OBVIOUS
  <2> HIDE DEF OK
  <2> QED  BY <1>0, <2>1, <2>2, <2>3, Zenon
<1>3. OK(AbilityIDs) /\ AbilityIDs.name = "ability_ids"
  <2>1. <<"abilities">> \in Seq({"abilities"}) /\ <<"ability_ids">> \in Seq({"ability_ids"}) /\ Len(<<"ability_ids">>) >= 1  OBVIOUS
  <2>2. AbilityIDs \in AllSources /\ AbilityIDs = Source("ability_ids", FALSE, <<"abilities">>, <<"ability_ids">>)  BY DEF AllSources, AbilityIDs
  <2>3. FALSE \in BOOLEAN  OBVIOUS
  <2> HIDE DEF OK
  <2> QED  BY <1>0, <2>1, <2>2, <2>3, Zenon
<1>4. OK(HeroAbilities) /\ HeroAbilities.name = "hero_abilities"
  <2> DEFINE W == {"hero_abilities", "hero_talents", "hero_facets"}
             w == <<"hero_abilities", "hero_talents", "hero_facets">>
             d == <<"heroes">>
  <2>1. d \in Seq({"heroes"}) /\ w \in Seq(W) /\ Len(w) >= 1  OBVIOUS
  <2>2. HeroAbilities \in AllSources /\ HeroAbilities = Source("hero_abilities", TRUE, d, w)
    BY DEF AllSources, HeroAbilities
  <2>3. TRUE \in BOOLEAN  OBVIOUS
  <2> HIDE DEF OK, w, d, W
  <2> QED  BY <1>0, <2>1, <2>2, <2>3, Zenon
<1>5. OK(GameModes) /\ GameModes.name = "game_mode"
  <2>1. <<>> \in Seq({}) /\ <<"game_modes">> \in Seq({"game_modes"}) /\ Len(<<"game_modes">>) >= 1  OBVIOUS
  <2>2. GameModes \in AllSources /\ GameModes = Source("game_mode", FALSE, <<>>, <<"game_modes">>)  BY DEF AllSources, GameModes
  <2>3. FALSE \in BOOLEAN  OBVIOUS
  <2> HIDE DEF OK
  <2> QED  BY <1>0, <2>1, <2>2, <2>3, Zenon
<1>6. OK(LobbyTypes) /\ LobbyTypes.name = "lobby_type"
  <2>1. <<>> \in Seq({}) /\ <<"lobby_types">> \in Seq({"lobby_types"}) /\ Len(<<"lobby_types">>) >= 1  OBVIOUS
  <2>2. LobbyTypes \in AllSources /\ LobbyTypes = Source("lobby_type", FALSE, <<>>, <<"lobby_types">>)  BY DEF AllSources, LobbyTypes
  <2>3. FALSE \in BOOLEAN  OBVIOUS
  <2> HIDE DEF OK
  <2> QED  BY <1>0, <2>1, <2>2, <2>3, Zenon
<1>7. OK(Regions) /\ Regions.name = "region"
  <2>1. <<>> \in Seq({}) /\ <<"regions">> \in Seq({"regions"}) /\ Len(<<"regions">>) >= 1  OBVIOUS
  <2>2. Regions \in AllSources /\ Regions = Source("region", FALSE, <<>>, <<"regions">>)  BY DEF AllSources, Regions
  <2>3. FALSE \in BOOLEAN  OBVIOUS
  <2> HIDE DEF OK
  <2> QED  BY <1>0, <2>1, <2>2, <2>3, Zenon
<1>8. OK(Items) /\ Items.name = "items"
  <2>1. <<>> \in Seq({}) /\ <<"items">> \in Seq({"items"}) /\ Len(<<"items">>) >= 1  OBVIOUS
  <2>2. Items \in AllSources /\ Items = Source("items", TRUE, <<>>, <<"items">>)  BY DEF AllSources, Items
  <2>3. TRUE \in BOOLEAN  OBVIOUS
  <2> HIDE DEF OK
  <2> QED  BY <1>0, <2>1, <2>2, <2>3, Zenon
<1>9. OK(ItemIDs) /\ ItemIDs.name = "item_ids"
  <2>1. <<"items">> \in Seq({"items"}) /\ <<"item_ids">> \in Seq({"item_ids"}) /\ Len(<<"item_ids">>) >= 1  OBVIOUS
  <2>2. ItemIDs \in AllSources /\ ItemIDs = Source("item_ids", FALSE, <<"items">>, <<"item_ids">>)  BY DEF AllSources, ItemIDs
  <2>3. FALSE \in BOOLEAN  OBVIOUS
  <2> HIDE DEF OK
  <2> QED  BY <1>0, <2>1, <2>2, <2>3, Zenon
<1>10. OK(Patches) /\ Patches.name = "patch"
  <2>1. <<>> \in Seq({}) /\ <<"patches">> \in Seq({"patches"}) /\ Len(<<"patches">>) >= 1  OBVIOUS
  <2>2. Patches \in AllSources /\ Patches = Source("patch", TRUE, <<>>, <<"patches">>)  BY DEF AllSources, Patches
  <2>3. TRUE \in BOOLEAN  OBVIOUS
  <2> HIDE DEF OK
  <2> QED  BY <1>0, <2>1, <2>2, <2>3, Zenon
<1>11. \A s \in AllSources : OK(s)
  <2> HIDE DEF OK
  <2> QED  BY <1>1, <1>2, <1>3, <1>4, <1>5, <1>6, <1>7, <1>8, <1>9, <1>10, Zenon DEF AllSources
<1>12. \A s, t \in AllSources : s.name = t.name => s = t
  BY <1>1, <1>2, <1>3, <1>4, <1>5, <1>6, <1>7, <1>8, <1>9, <1>10 DEF AllSources
<1> QED  BY <1>11, <1>12

(* Sources without a name twice, none of them in t.                        *)
Listing(q) ==
    /\ q \in Seq(AllSources)
    /\ \A i, j \in 1..Len(q) : q[i] = q[j] => i = j
Lacks(q, t) == \A i \in 1..Len(q) : q[i] \notin t

LEMMA ListingGrows ==
    ASSUME NEW q, NEW x \in AllSources, NEW t, Listing(q), Lacks(q, {x} \cup t), x \notin t
    PROVE  Listing(q \o InUse(x)) /\ Lacks(q \o InUse(x), t)
<1>1. CASE InUse(x) = <<>>
  <2>1. q \o <<>> = q  BY DEF Listing
  <2> QED  BY <1>1, <2>1 DEF Lacks
<1>2. CASE InUse(x) = <<x>>
  <2> DEFINE r == q \o <<x>>
  <2>0. q \in Seq(AllSources)  BY DEF Listing
  <2>1. /\ r \in Seq(AllSources) /\ Len(r) = Len(q) + 1 /\ Len(q) \in Nat
        /\ r[Len(q) + 1] = x
        /\ \A i \in 1..Len(q) : r[i] = q[i]
    BY <2>0
  <2> HIDE DEF r
  <2>2. \A i \in 1..Len(r) : i \in 1..Len(q) \/ i = Len(q) + 1  BY <2>1
  <2>3. \A i \in 1..Len(q) : q[i] # x /\ q[i] \notin t  BY DEF Lacks
  <2>4. \A i, j \in 1..Len(q) : q[i] = q[j] => i = j  BY DEF Listing
  <2>5. \A i, j \in 1..Len(r) : r[i] = r[j] => i = j  BY <2>1, <2>2, <2>3, <2>4
  <2>6. \A i \in 1..Len(r) : r[i] \notin t  BY <2>1, <2>2, <2>3
  <2> QED  BY <1>2, <2>1, <2>5, <2>6 DEF r, Listing, Lacks
<1> QED  BY <1>1, <1>2 DEF InUse

LEMMA BuildSourcesListed ==
    ASSUME EnrichConstants
    PROVE  BuildSources \in Seq(AllSources) /\ SortInputOK(BuildSources)
<1> DEFINE q1 == InUse(Heroes)
           q2 == q1 \o InUse(Abilities)
           q3 == q2 \o InUse(AbilityIDs)
           q4 == q3 \o InUse(HeroAbilities)
           q5 == q4 \o InUse(GameModes)
           q6 == q5 \o InUse(LobbyTypes)
           q7 == q6 \o InUse(Regions)
           q8 == q7 \o InUse(Items)
           q9 == q8 \o InUse(ItemIDs)
           q10 == q9 \o InUse(Patches)
           t10 == {}
           t9 == {Patches} \cup t10
           t8 == {ItemIDs} \cup t9
           t7 == {Items} \cup t8
           t6 == {Regions} \cup t7
           t5 == {LobbyTypes} \cup t6
           t4 == {GameModes} \cup t5
           t3 == {HeroAbilities} \cup t4
           t2 == {AbilityIDs} \cup t3
           t1 == {Abilities} \cup t2
<1>1. /\ Heroes \in AllSources /\ Abilities \in AllSources /\ AbilityIDs \in AllSources
      /\ HeroAbilities \in AllSources /\ GameModes \in AllSources /\ LobbyTypes \in AllSources
      /\ Regions \in AllSources /\ Items \in AllSources /\ ItemIDs \in AllSources
      /\ Patches \in AllSources
  BY DEF AllSources
<1>2. /\ Heroes \notin t1 /\ Abilities \notin t2 /\ AbilityIDs \notin t3 /\ HeroAbilities \notin t4
      /\ GameModes \notin t5 /\ LobbyTypes \notin t6 /\ Regions \notin t7 /\ Items \notin t8
      /\ ItemIDs \notin t9 /\ Patches \notin t10
  <2>1. /\ Heroes.name = "heroes" /\ Abilities.name = "abilities"
        /\ AbilityIDs.name = "ability_ids" /\ HeroAbilities.name = "hero_abilities"
        /\ GameModes.name = "game_mode" /\ LobbyTypes.name = "lobby_type"
        /\ Regions.name = "region" /\ Items.name = "items" /\ ItemIDs.name = "item_ids"
        /\ Patches.name = "patch"
    BY DEF Source, Heroes, Abilities, AbilityIDs, HeroAbilities, GameModes, LobbyTypes, Regions,
           Items, ItemIDs, Patches
  <2> QED  BY <2>1
<1>3. Listing(q1) /\ Lacks(q1, t1)
  <2>1. Listing(<<>>) /\ Lacks(<<>>, {Heroes} \cup t1)  BY DEF Listing, Lacks
  <2>2. <<>> \o InUse(Heroes) = InUse(Heroes)  BY <1>1 DEF InUse
  <2> HIDE DEF t1
  <2>3. Listing(<<>> \o InUse(Heroes)) /\ Lacks(<<>> \o InUse(Heroes), t1)
    BY <1>1, <1>2, <2>1, ListingGrows
  <2> QED  BY <2>2, <2>3
<1> HIDE DEF q1, q2, q3, q4, q5, q6, q7, q8, q9, q10, t1, t2, t3, t4, t5, t6, t7, t8, t9, t10
<1>4. Listing(q2) /\ Lacks(q2, t2)  BY <1>1, <1>2, <1>3, ListingGrows DEF q2, t1
<1>5. Listing(q3) /\ Lacks(q3, t3)  BY <1>1, <1>2, <1>4, ListingGrows DEF q3, t2
<1>6. Listing(q4) /\ Lacks(q4, t4)  BY <1>1, <1>2, <1>5, ListingGrows DEF q4, t3
<1>7. Listing(q5) /\ Lacks(q5, t5)  BY <1>1, <1>2, <1>6, ListingGrows DEF q5, t4
<1>8. Listing(q6) /\ Lacks(q6, t6)  BY <1>1, <1>2, <1>7, ListingGrows DEF q6, t5
<1>9. Listing(q7) /\ Lacks(q7, t7)  BY <1>1, <1>2, <1>8, ListingGrows DEF q7, t6
<1>10. Listing(q8) /\ Lacks(q8, t8)  BY <1>1, <1>2, <1>9, ListingGrows DEF q8, t7
<1>11. Listing(q9) /\ Lacks(q9, t9)  BY <1>1, <1>2, <1>10, ListingGrows DEF q9, t8
<1>12. Listing(q10)  BY <1>1, <1>2, <1>11, ListingGrows DEF q10, t9
<1>13. BuildSources = q10  BY DEF BuildSources, q1, q2, q3, q4, q5, q6, q7, q8, q9, q10
<1>14. q10 \in Seq(AllSources) /\ \A i, j \in 1..Len(q10) : q10[i] = q10[j] => i = j
  BY <1>12 DEF Listing
<1>15. q10 \in Seq(SourceRecord)
  <2>1. AllSources \subseteq SourceRecord  BY SourcesTyped
  <2> QED  BY <1>14, <2>1
<1>16. \A i, j \in DOMAIN q10 : q10[i].name = q10[j].name => i = j
  <2>1. DOMAIN q10 = 1..Len(q10)  BY <1>14
  <2>2. \A i \in DOMAIN q10 : q10[i] \in AllSources  BY <1>14, ElementOf
  <2> QED  BY <1>14, <2>1, <2>2, SourcesTyped
<1> QED  BY <1>13, <1>14, <1>15, <1>16 DEF SortInputOK, SourceRecord

LEMMA RunnerSourcesListed ==
    ASSUME EnrichConstants
    PROVE  RunnerSources \in Seq(AllSources)
<1> DEFINE s == SortByDependencies(BuildSources).sorted
           B == BuildSources
<1>1. B \in Seq(AllSources) /\ SortInputOK(B)  BY BuildSourcesListed
<1> HIDE DEF B
<1>2. PICK k, t, e : /\ SortByDependencies(B) = State(<<>>, k, t, e)
                     /\ SearchInv(B, <<>>, k, t, e)
  BY <1>1, SortResult
<1>3. s = t /\ t \in Seq(SourceNames(B))  BY <1>2 DEF State, SearchInv, B
<1>4. Len(t) \in Nat /\ DOMAIN t = 1..Len(t) /\ \A i \in 1..Len(t) : t[i] \in SourceNames(B)
  BY <1>3
<1>5. \A i \in 1..Len(t) : ByName(B, t[i]) \in AllSources
  <2> TAKE i \in 1..Len(t)
  <2>1. PICK j \in DOMAIN B : B[j].name = t[i]  BY <1>4 DEF SourceNames
  <2>2. \E x \in ToSet(B) : x.name = t[i]  BY <2>1 DEF ToSet
  <2>3. ByName(B, t[i]) \in ToSet(B)  BY <2>2 DEF ByName
  <2>4. ToSet(B) \subseteq AllSources  BY <1>1 DEF ToSet
  <2> QED  BY <2>3, <2>4
<1>6. RunnerSources = [i \in 1..Len(t) |-> ByName(B, t[i])]  BY <1>3, <1>4 DEF RunnerSources, B
<1> QED  BY <1>4, <1>5, <1>6

-----------------------------------------------------------------------------
(* The gate.                                                               *)

GateInv ==
    /\ key \in [Used -> {"none", "failed", "recent", "aged"}]
    /\ plan \in Seq(AllSources) /\ cycle \in Seq(AllSources)
    /\ failure \in BOOLEAN /\ written \in Nat
    /\ step \in {"gate", "fetch"} => written = 0 /\ failure = FALSE
    /\ step = "write" =>
          /\ failure = FALSE
          /\ cycle # <<>> => /\ written < Len(CurrentSource.writes)
                             /\ \A i \in 1..written : CurrentSource.writes[i] \in filled
    /\ step = "record" /\ failure = FALSE /\ cycle # <<>> =>
          \A i \in 1..Len(CurrentSource.writes) : CurrentSource.writes[i] \in filled
    /\ GateHonest

LEMMA WritesFound ==
    ASSUME EnrichConstants, NEW s \in AllSources
    PROVE  WritesOf(s.name) = ToSet(s.writes)
<1>1. (CHOOSE x \in AllSources : x.name = s.name) = s
  <2>1. \E x \in AllSources : x.name = s.name  OBVIOUS
  <2> QED  BY <2>1, SourcesTyped
<1> QED  BY <1>1 DEF WritesOf

LEMMA HeadSource ==
    ASSUME EnrichConstants, NEW q \in Seq(AllSources), q # <<>>
    PROVE  /\ Head(q) \in AllSources /\ Tail(q) \in Seq(AllSources)
           /\ Head(q).writes \in Seq(Strings) /\ Len(Head(q).writes) \in Nat /\ Len(Head(q).writes) >= 1
<1>1. Head(q) \in AllSources /\ Tail(q) \in Seq(AllSources)  OBVIOUS
<1>2. Head(q).writes \in Seq(Strings) /\ Len(Head(q).writes) >= 1  BY <1>1, SourcesTyped
<1> QED  BY <1>1, <1>2

LEMMA GateStep ==
    ASSUME EnrichConstants, GateInv, [EnrichNext]_enrichVars
    PROVE  GateInv'
<1>1. ASSUME UNCHANGED enrichVars  PROVE GateInv'
  BY <1>1 DEF GateInv, enrichVars, progress, GateHonest, CurrentSource
<1>2. ASSUME NEW r, NEW q \in Seq(AllSources), BeginRun(r, q), plan' \in Seq(AllSources),
             UNCHANGED <<key, filled>>
      PROVE  GateInv'
  BY <1>2 DEF GateInv, BeginRun, GateHonest
<1>3. CASE EnricherStart \/ WaitForProxies
  BY <1>3 DEF GateInv, EnricherStart, WaitForProxies, progress, GateHonest, CurrentSource
<1>4. CASE WaitForPostgres
  BY <1>2, <1>4, RunnerSourcesListed DEF WaitForPostgres
<1>5. CASE CycleEnds
  BY <1>2, <1>5 DEF CycleEnds, GateInv
<1>6. CASE EnrichTick
  BY <1>2, <1>6 DEF EnrichTick, GateInv
<1>7. CASE EnricherCrash
  <2>1. <<>> \in Seq(AllSources)  OBVIOUS
  <2> QED  BY <1>2, <1>7, <2>1 DEF EnricherCrash
<1>8. CASE Gate
  <2>1. Tail(cycle) \in Seq(AllSources) /\ <<>> \in Seq(AllSources)
    BY <1>8, HeadSource DEF Gate, Doing, GateInv
  <2>2. /\ step = "gate" /\ step' \in {"gate", "fetch"} /\ cycle' \in {cycle, Tail(cycle), <<>>}
        /\ UNCHANGED <<plan, written, failure, key, filled>>
    BY <1>8 DEF Gate, Doing
  <2>3. cycle' \in Seq(AllSources)  BY <2>1, <2>2 DEF GateInv
  <2>4. GateHonest'  BY <2>2 DEF GateInv, GateHonest
  <2> QED  BY <2>2, <2>3, <2>4 DEF GateInv
<1>9. CASE FetchJSON
  <2>1. Len(CurrentSource.writes) \in Nat /\ Len(CurrentSource.writes) >= 1
    BY <1>9, HeadSource DEF FetchJSON, Doing, GateInv, CurrentSource
  <2>2. /\ step = "fetch" /\ UNCHANGED <<plan, cycle, written, key, filled>>
        /\ \/ step' = "write" /\ UNCHANGED failure
           \/ step' = "record" /\ failure' = TRUE
    BY <1>9 DEF FetchJSON, Doing
  <2>3. written = 0 /\ failure = FALSE  BY <2>2 DEF GateInv
  <2>4. GateHonest' /\ CurrentSource' = CurrentSource
    BY <2>2 DEF GateInv, GateHonest, CurrentSource
  <2>5. \A i \in 1..0 : CurrentSource.writes[i] \in filled  OBVIOUS
  <2>6. /\ key' \in [Used -> {"none", "failed", "recent", "aged"}]
        /\ plan' \in Seq(AllSources) /\ cycle' \in Seq(AllSources)
        /\ failure' \in BOOLEAN /\ written' = 0
    BY <2>2, <2>3 DEF GateInv
  <2>7. 0 < Len(CurrentSource.writes)  BY <2>1
  <2>8. /\ step' \notin {"gate", "fetch"} /\ (step' = "write" => failure' = FALSE)
        /\ (step' = "record" => failure' = TRUE) /\ filled' = filled
    BY <2>2, <2>3
  <2> QED  BY <2>4, <2>5, <2>6, <2>7, <2>8, Zenon DEF GateInv
<1>10. CASE UpsertTable
  <2> DEFINE w == CurrentSource.writes
             table == w[written + 1]
  <2>1. cycle # <<>> /\ step = "write" /\ UNCHANGED <<stage, plan, runner, cycle, key>>
    BY <1>10 DEF UpsertTable, Doing
  <2>2. Len(w) \in Nat  BY <2>1, HeadSource DEF GateInv, CurrentSource
  <2>3. written < Len(w) /\ written \in Nat /\ \A i \in 1..written : w[i] \in filled
    BY <2>1 DEF GateInv
  <2>4. CurrentSource' = CurrentSource  BY <2>1 DEF CurrentSource
  <2>5. GateHonest /\ filled \subseteq filled' => GateHonest'  BY <2>1 DEF GateHonest
  <2>6. CASE /\ filled' = filled \cup {table}
             /\ written' = written + 1
             /\ step' = IF written + 1 = Len(w) THEN "record" ELSE "write"
             /\ UNCHANGED failure
    <3>1. \A i \in 1..written + 1 : w[i] \in filled'
      <4>1. \A i \in 1..written + 1 : i \in 1..written \/ i = written + 1  BY <2>3
      <4> QED  BY <2>3, <2>6, <4>1
    <3>2. written' \in Nat /\ (step' = "write" => written' < Len(w))  BY <2>2, <2>3, <2>6
    <3>3. step' = "record" => written' = Len(w)  BY <2>6
    <3>4. failure' = FALSE  BY <2>1, <2>6 DEF GateInv
    <3>5. step' \in {"record", "write"} /\ filled \subseteq filled'  BY <2>6
    <3>6. key' \in [Used -> {"none", "failed", "recent", "aged"}]
          /\ plan' \in Seq(AllSources) /\ cycle' \in Seq(AllSources) /\ GateHonest'
      BY <2>1, <2>5, <3>5 DEF GateInv
    <3> HIDE DEF w
    <3>7. /\ step' = "write" => written' < Len(w) /\ \A i \in 1..written' : w[i] \in filled'
          /\ step' = "record" => \A i \in 1..Len(w) : w[i] \in filled'
      BY <2>6, <3>1, <3>2, <3>3
    <3> QED  BY <2>4, <3>2, <3>4, <3>5, <3>6, <3>7 DEF GateInv, w
  <2>7. CASE failure' = TRUE /\ step' = "record" /\ UNCHANGED <<filled, written>>
    BY <2>1, <2>4, <2>5, <2>7 DEF GateInv
  <2> QED  BY <1>10, <2>6, <2>7 DEF UpsertTable
<1>11. CASE RecordOutcome
  <2>1. cycle # <<>> /\ step = "record" /\ UNCHANGED <<stage, plan, runner, filled>>
    BY <1>11 DEF RecordOutcome, Doing
  <2>2. CurrentSource \in AllSources /\ Tail(cycle) \in Seq(AllSources)
        /\ CurrentSource.writes \in Seq(Strings)
    BY <2>1, HeadSource DEF GateInv, CurrentSource
  <2>3. cycle' \in Seq(AllSources) /\ step' = "gate" /\ written' = 0 /\ failure' = FALSE
    BY <1>11, <2>2 DEF RecordOutcome, After
  <2>4. plan' \in Seq(AllSources)  BY <2>1 DEF GateInv
  <2>5. CASE UNCHANGED key
    BY <2>1, <2>3, <2>4, <2>5 DEF GateInv, GateHonest
  <2>6. CASE key' = [key EXCEPT ![CurrentSource.name] = RecordRun(CurrentSource)]
    <3>1. key' \in [Used -> {"none", "failed", "recent", "aged"}]
      BY <2>6 DEF GateInv, RecordRun
    <3>2. ASSUME NEW s \in Used, key'[s] \in {"recent", "aged"}
          PROVE  WritesOf(s) \subseteq filled
      <4>1. CASE s = CurrentSource.name
        <5>1. key'[s] = RecordRun(CurrentSource)  BY <2>6, <4>1 DEF GateInv
        <5>2. failure = FALSE  BY <3>2, <5>1 DEF RecordRun, GateInv
        <5>3. \A i \in 1..Len(CurrentSource.writes) : CurrentSource.writes[i] \in filled
          BY <2>1, <5>2 DEF GateInv
        <5>4. ToSet(CurrentSource.writes) \subseteq filled  BY <2>2, <5>3 DEF ToSet
        <5> QED  BY <2>2, <4>1, <5>4, WritesFound
      <4>2. CASE s # CurrentSource.name
        <5>1. key'[s] = key[s]  BY <2>6, <4>2 DEF GateInv
        <5> QED  BY <3>2, <5>1 DEF GateInv, GateHonest
      <4> QED  BY <4>1, <4>2
    <3>3. GateHonest'  BY <2>1, <3>2 DEF GateHonest
    <3> QED  BY <2>3, <2>4, <3>1, <3>3 DEF GateInv
  <2> QED  BY <1>11, <2>5, <2>6 DEF RecordOutcome
<1>12. ASSUME NEW s \in Used, KeyAges(s) \/ KeyExpires(s)  PROVE GateInv'
  <2>1. UNCHANGED <<stage, plan, progress, filled, enrichFaults>>
    BY <1>12 DEF KeyAges, KeyExpires
  <2>2. key' \in [Used -> {"none", "failed", "recent", "aged"}]
    BY <1>12 DEF KeyAges, KeyExpires, GateInv
  <2>3. GateHonest'
    BY <1>12, <2>1 DEF KeyAges, KeyExpires, GateInv, GateHonest
  <2> QED  BY <2>1, <2>2, <2>3 DEF GateInv, progress, CurrentSource
<1> QED
  BY <1>1, <1>3, <1>4, <1>5, <1>6, <1>7, <1>8, <1>9, <1>10, <1>11, <1>12
  DEF EnrichNext, EnrichStep, RunOne

(* runOne, RecordRun: a key that blocks a source stands for a whole run.   *)
(* sortByDependencies: for all sources, it ends, fails exactly where it    *)
(* must, and else takes every source once, after all it depends on.        *)
THEOREM EnrichmentIsSound ==
    ASSUME EnrichConstants
    PROVE  EnrichSpec /\ [](On("sort") => SortInputOK(probe)) => []EnrichmentSound
<1>1. EnrichInit => GateInv
  <2> SUFFICES ASSUME EnrichInit  PROVE GateInv
    OBVIOUS
  <2>1. <<>> \in Seq(AllSources)  OBVIOUS
  <2> QED  BY <2>1 DEF EnrichInit, GateInv, GateHonest
<1>2. GateInv /\ [EnrichNext]_enrichVars => GateInv'
  BY GateStep
<1>3. GateInv /\ (On("sort") => SortInputOK(probe)) => EnrichmentSound
  BY SortIsSound DEF GateInv, EnrichmentSound
<1> QED
  BY <1>1, <1>2, <1>3, PTL DEF EnrichSpec

=============================================================================
