--------------------------- MODULE ProxyPoolProofs ---------------------------
(***************************************************************************)
(* ProxyPool for every pool, number of workers and setting.  Exclusive is  *)
(* not inductive: Acquire sees the leased ZSET and Release the lease key,  *)
(* neither sees the other workers.  LeaseBacked ties the ZSET to what each *)
(* worker has left of its lease, KeyBacked the key to it.                  *)
(***************************************************************************)
EXTENDS ProxyPool, TLAPS

(* While a lease is safe, its entry in leased is there, at most MaxLag     *)
(* seconds older than the lease: no acquire.lua cleans it away.            *)
LeaseBacked ==
    \A w \in Workers : w \notin robbed /\ left[w] >= MaxLag
        => url[w] \in Proxies /\ leased[url[w]] >= left[w] - MaxLag

(* A lease key is there only while its lease lasts.                        *)
KeyBacked == \A w \in Workers : key[w] => left[w] >= 0

LeaseInv == LeaseBacked /\ KeyBacked

IInv == TypeOK /\ LeaseInv /\ Exclusive

-----------------------------------------------------------------------------
LEMMA InitIInv == Init => IInv
  BY PoolAssumption DEF Init, IInv, TypeOK, LeaseInv, LeaseBacked, KeyBacked, Exclusive, Free, NoStats, Out, Proxies

LEMMA ParametersTyped ==
    /\ Hold \in Nat /\ Hold > 0 /\ Cooldown \in Nat /\ MaxFailures \in Nat
    /\ MaxLag \in Nat /\ Free \in Int /\ Free = -(MaxLag + 1) /\ Free <= -1
    /\ None \notin Proxies
  BY PoolAssumption DEF Free, Proxies

(* A mark concerns a proxy, since a worker with one is not idle.           *)
LEMMA MarkTyped ==
    ASSUME TypeOK, NEW w \in Workers, pc[w] # "idle"
    PROVE  url[w] \in Proxies /\ Streak(url[w]) \in NoStats..(MaxFailures + 1)
  <1>1. url[w] \in Proxies
    BY DEF TypeOK
  <1>2. stats[url[w]] \in NoStats..(MaxFailures + 1)
    BY <1>1 DEF TypeOK
  <1> QED
    BY <1>1, <1>2, ParametersTyped DEF Streak, NoStats

(* The scripts of the workers and the clock keep the types.                *)
LEMMA UseTyped ==
    ASSUME TypeOK, NEW w \in Workers, Use(w) \/ KeyExpire(w)
    PROVE  TypeOK'
  <1> USE ParametersTyped DEF TypeOK
  <1>1. CASE Acquire(w)
    <2>1. PICK lag \in 0..MaxLag, p \in set :
             /\ leased' = [Cleaned(lag) EXCEPT ![p] = Hold - lag]
             /\ url' = [url EXCEPT ![w] = p]
      BY <1>1 DEF Acquire
    <2>2. Cleaned(lag) \in [Proxies -> Free..Hold] /\ Hold - lag \in Free..Hold
      BY DEF Cleaned
    <2>3. leased' \in [Proxies -> Free..Hold]
      BY <2>1, <2>2
    <2>4. p \in Proxies /\ url' \in [Workers -> Proxies \cup {None}]
      BY <2>1
    <2>5. left' \in [Workers -> -1..Hold]
      BY <1>1 DEF Acquire
    <2>6. \A v \in Workers : (url'[v] = None) <=> (pc'[v] = "idle")
      BY <1>1, <2>1, <2>4 DEF Acquire
    <2> QED
      BY <1>1, <2>3, <2>4, <2>5, <2>6 DEF Acquire, loader, keeper
  <1>2. CASE MarkSuccess(w)
    BY <1>2, MarkTyped DEF MarkSuccess, Marked, loader, keeper, NoStats
  <1>3. CASE MarkFailure(w)
    <2>1. url[w] \in Proxies /\ Streak(url[w]) \in NoStats..(MaxFailures + 1)
      BY <1>3, MarkTyped DEF MarkFailure, Marked
    <2>2. Cooldown \in Out..Cooldown
      BY DEF Out
    <2>3. cooldown' \in [Proxies -> Out..Cooldown] /\ set' \in SUBSET Proxies
      BY <1>3, <2>1, <2>2 DEF MarkFailure
    <2> QED
      BY <1>3, <2>1, <2>3 DEF MarkFailure, Marked, loader, keeper
  <1>4. CASE MarkLost(w)
    BY <1>4 DEF MarkLost, Marked, loader, keeper
  <1>5. CASE Release(w)
    BY <1>5 DEF Release, Robbed, Idle, loader, keeper
  <1>6. CASE Abandon(w)
    BY <1>6 DEF Abandon, Idle, pool, loader, keeper
  <1>7. CASE KeyExpire(w)
    BY <1>7 DEF KeyExpire, pool, loader, keeper
  <1>8. CASE AcquireNone(w)
    <2>1. PICK lag \in 0..MaxLag : leased' = Cleaned(lag)
      BY <1>8 DEF AcquireNone
    <2>2. Cleaned(lag) \in [Proxies -> Free..Hold]
      BY DEF Cleaned
    <2> QED
      BY <1>8, <2>1, <2>2 DEF AcquireNone, worker, loader, keeper
  <1> QED
    BY <1>1, <1>2, <1>3, <1>4, <1>5, <1>6, <1>7, <1>8 DEF Use

LEMMA TickTyped ==
    ASSUME TypeOK, Tick
    PROVE  TypeOK'
  <1> USE ParametersTyped DEF TypeOK, Tick
  <1>1. left' \in [Workers -> -1..Hold]
    OBVIOUS
  <1>2. leased' \in [Proxies -> Free..Hold]
    OBVIOUS
  <1>3. cooldown' \in [Proxies -> Out..Cooldown]
    BY DEF Out
  <1> QED
    BY <1>1, <1>2, <1>3 DEF loader, keeper

LEMMA LoadTyped ==
    ASSUME TypeOK, Load
    PROVE  TypeOK'
  <1> USE ParametersTyped DEF TypeOK, pool, worker, keeper
  <1>1. CASE LoadStart
    BY <1>1, PoolAssumption DEF LoadStart, Proxies
  <1>2. CASE LoadChunk
    BY <1>2 DEF LoadChunk
  <1>3. CASE LoadNothing
    BY <1>3 DEF LoadNothing
  <1>4. CASE LoadRemote
    BY <1>4 DEF LoadRemote, Proxies
  <1>5. CASE LoadAbort
    BY <1>5 DEF LoadAbort, LoadEnd
  <1>6. CASE ReplaceRead
    BY <1>6 DEF ReplaceRead
  <1>7. CASE ReplaceReadCooldown
    BY <1>7 DEF ReplaceReadCooldown
  <1>8. CASE Replace
    <2>1. stats' \in [Proxies -> NoStats..(MaxFailures + 1)]
      BY <1>8 DEF Replace, NoStats
    <2>2. cooldown' \in [Proxies -> Out..Cooldown]
      BY <1>8 DEF Replace, Out
    <2> QED
      BY <1>8, <2>1, <2>2 DEF Replace, LoadEnd
  <1> QED
    BY <1>1, <1>2, <1>3, <1>4, <1>5, <1>6, <1>7, <1>8 DEF Load

LEMMA RecoveryTyped ==
    ASSUME TypeOK, NEW r \in Keepers, Recovery(r) \/ RecoverRefused(r) \/ RecoverFault(r)
    PROVE  TypeOK'
  <1> USE ParametersTyped DEF TypeOK, pool, worker, loader
  <1>1. Out \in Out..Cooldown /\ 0 \in NoStats..(MaxFailures + 1)
    BY DEF Out, NoStats
  <1>2. step[r] \in {"add", "reset", "rem"} => at[r] \in Proxies
    OBVIOUS
  <1>3. CASE RecoverRead(r)
    BY <1>3 DEF RecoverRead
  <1>4. CASE RecoverCheck(r)
    BY <1>1, <1>4 DEF RecoverCheck
  <1>5. CASE RecoverAdd(r)
    BY <1>2, <1>5 DEF RecoverAdd
  <1>6. CASE RecoverReset(r)
    BY <1>1, <1>2, <1>6 DEF RecoverReset
  <1>7. CASE RecoverRem(r)
    BY <1>1, <1>2, <1>7 DEF RecoverRem
  <1>8. CASE RecoverDone(r)
    BY <1>8 DEF RecoverDone
  <1>9. CASE RecoverFault(r)
    BY <1>9 DEF RecoverFault
  <1>10. CASE RecoverRefused(r)
    BY <1>10 DEF RecoverRefused
  <1> QED
    BY <1>3, <1>4, <1>5, <1>6, <1>7, <1>8, <1>9, <1>10 DEF Recovery

-----------------------------------------------------------------------------
(* Every step that can touch a lease keeps the leases apart.               *)
LEMMA StepLease ==
    ASSUME IInv, [Next]_vars
    PROVE  (LeaseInv /\ Exclusive)'
  <1> USE ParametersTyped DEF IInv, TypeOK, LeaseInv, LeaseBacked, KeyBacked, Exclusive
  <1>1. ASSUME UNCHANGED <<leased, url, left, key, robbed>>
        PROVE  (LeaseInv /\ Exclusive)'
    BY <1>1
  <1>2. CASE Tick
    <2>1. KeyBacked'
      BY <1>2 DEF Tick
    <2>2. ASSUME NEW w \in Workers, w \notin robbed, left'[w] >= MaxLag
          PROVE  url[w] \in Proxies /\ leased'[url[w]] >= left'[w] - MaxLag
      <3>1. left[w] \in -1..Hold /\ left'[w] = left[w] - 1
        BY <1>2, <2>2 DEF Tick
      <3>2. url[w] \in Proxies /\ leased[url[w]] >= left[w] - MaxLag /\ leased[url[w]] \in Free..Hold
        BY <2>2, <3>1
      <3>3. leased'[url[w]] = leased[url[w]] - 1
        BY <1>2, <2>2, <3>1, <3>2 DEF Tick
      <3> QED
        BY <3>1, <3>2, <3>3
    <2>3. LeaseBacked'
      BY <1>2, <2>2 DEF Tick
    <2>4. \A w \in Workers : left'[w] >= MaxLag => left[w] >= MaxLag
      BY <1>2 DEF Tick
    <2> QED
      BY <1>2, <2>1, <2>3, <2>4 DEF Tick
  <1>3. ASSUME NEW w \in Workers, Acquire(w)
        PROVE  (LeaseInv /\ Exclusive)'
    <2>1. PICK lag \in 0..MaxLag, p \in set :
             /\ Cleaned(lag)[p] = Free
             /\ leased' = [Cleaned(lag) EXCEPT ![p] = Hold - lag]
             /\ url' = [url EXCEPT ![w] = p]
      BY <1>3 DEF Acquire
    <2>2. /\ p \in Proxies /\ leased[p] < 0
          /\ leased'[p] = Hold - lag
          /\ \A q \in Proxies : q # p /\ leased[q] >= 0 => leased'[q] = leased[q]
      BY <2>1 DEF Cleaned
    <2>3. \A v \in Workers : v \notin robbed /\ left[v] >= MaxLag => url[v] # p
      BY <2>2
    <2>4. w \notin robbed
      BY <1>3 DEF Acquire
    <2>5. KeyBacked'
      BY <1>3 DEF Acquire
    <2>6. LeaseBacked'
      <3> SUFFICES ASSUME NEW v \in Workers, v \notin robbed', left'[v] >= MaxLag
                   PROVE  url'[v] \in Proxies /\ leased'[url'[v]] >= left'[v] - MaxLag
        OBVIOUS
      <3>1. CASE v = w
        BY <1>3, <2>1, <2>2, <3>1 DEF Acquire
      <3>2. CASE v # w
        <4>1. left'[v] = left[v] /\ url'[v] = url[v] /\ v \notin robbed
          BY <1>3, <2>1, <3>2 DEF Acquire
        <4>2. url[v] \in Proxies /\ url[v] # p /\ leased[url[v]] >= left[v] - MaxLag
          BY <2>3, <4>1
        <4>3. leased[url[v]] \in Free..Hold /\ left[v] \in -1..Hold /\ left[v] >= MaxLag
          BY <4>1, <4>2
        <4>4. leased'[url[v]] = leased[url[v]]
          BY <2>2, <4>2, <4>3
        <4> QED
          BY <4>1, <4>2, <4>4
      <3> QED
        BY <3>1, <3>2
    <2> QED
      BY <1>3, <2>1, <2>3, <2>4, <2>5, <2>6 DEF Acquire
  <1>4. ASSUME NEW w \in Workers, Release(w)
        PROVE  (LeaseInv /\ Exclusive)'
    <2>1. /\ robbed' = (robbed \cup Robbed(w)) \ {w}
          /\ url[w] \in Proxies
          /\ \A v \in Workers : v # w => left'[v] = left[v] /\ url'[v] = url[v] /\ key'[v] = key[v]
          /\ left'[w] = -1 /\ ~key'[w]
      BY <1>4 DEF Release, Idle
    <2>2. KeyBacked'
      BY <2>1
    <2>3. MaxLag = 0 => robbed' = {}
      BY <2>1 DEF Robbed
    <2>4. ASSUME NEW v \in Workers, v \notin robbed', left'[v] >= MaxLag
          PROVE  v # w /\ v \notin robbed /\ url[v] \in Proxies /\ leased'[url[v]] = leased[url[v]]
      <3>1. v # w /\ v \notin robbed
        BY <2>1, <2>4
      <3>2. url[v] \in Proxies
        BY <2>1, <2>4, <3>1
      <3>3. CASE ~key[w] \/ url[v] # url[w]
        BY <1>4, <3>1, <3>2, <3>3, <2>1 DEF Release
      <3>4. CASE key[w] /\ url[v] = url[w]
        <4>1. v \notin Robbed(w)
          BY <2>1, <2>4, <3>1
        <4>2. left[w] >= MaxLag /\ w \notin robbed
          BY <4>1, <3>4 DEF Robbed
        <4>3. left[v] >= MaxLag
          BY <2>1, <2>4, <3>1
        <4> QED
          BY <3>1, <3>2, <3>4, <4>2, <4>3
      <3> QED
        BY <3>1, <3>2, <3>3, <3>4
    <2>5. LeaseBacked'
      BY <2>1, <2>4
    <2>6. ASSUME NEW u \in Workers, NEW v \in Workers, u # v, left'[u] >= MaxLag, left'[v] >= MaxLag,
                 url'[u] = url'[v], url'[u] # None
          PROVE  u \in robbed' \/ v \in robbed'
      <3>1. u # w /\ v # w
        BY <2>1, <2>6
      <3> QED
        BY <2>1, <2>6, <3>1
    <2> QED
      BY <2>2, <2>3, <2>5, <2>6
  <1>5. ASSUME NEW w \in Workers, Abandon(w)
        PROVE  (LeaseInv /\ Exclusive)'
    <2>1. /\ robbed' = robbed \ {w} /\ leased' = leased
          /\ \A v \in Workers : v # w => left'[v] = left[v] /\ url'[v] = url[v] /\ key'[v] = key[v]
          /\ left'[w] = -1 /\ ~key'[w]
      BY <1>5 DEF Abandon, Idle, pool
    <2>2. LeaseInv'
      BY <2>1
    <2> QED
      BY <2>1, <2>2
  <1>6. ASSUME NEW w \in Workers, KeyExpire(w)
        PROVE  (LeaseInv /\ Exclusive)'
    BY <1>6 DEF KeyExpire, pool
  <1>7. ASSUME NEW w \in Workers, MarkSuccess(w) \/ MarkFailure(w) \/ MarkLost(w)
        PROVE  UNCHANGED <<leased, url, left, key, robbed>>
    BY <1>7 DEF MarkSuccess, MarkFailure, MarkLost, Marked
  <1>8. ASSUME Load
        PROVE  UNCHANGED <<leased, url, left, key, robbed>>
    BY <1>8 DEF Load, LoadStart, LoadChunk, LoadNothing, LoadRemote, LoadAbort, LoadEnd,
                ReplaceRead, ReplaceReadCooldown, Replace, pool, worker
  <1>9. ASSUME NEW r \in Keepers, Recovery(r) \/ RecoverRefused(r) \/ RecoverFault(r)
        PROVE  UNCHANGED <<leased, url, left, key, robbed>>
    BY <1>9 DEF Recovery, RecoverRefused, RecoverFault, RecoverRead, RecoverCheck, RecoverAdd,
                RecoverReset, RecoverRem, RecoverDone, pool, worker
  <1>10. ASSUME NEW w \in Workers, AcquireNone(w)
         PROVE  (LeaseInv /\ Exclusive)'
    <2>1. PICK lag \in 0..MaxLag : leased' = Cleaned(lag)
      BY <1>10 DEF AcquireNone
    <2>2. \A q \in Proxies : leased[q] >= 0 => leased'[q] = leased[q]
      BY <2>1 DEF Cleaned
    <2> QED
      BY <1>10, <2>2 DEF AcquireNone, worker
  <1>11. UNCHANGED vars => UNCHANGED <<leased, url, left, key, robbed>>
    BY DEF vars, pool, worker
  <1> QED
    BY <1>1, <1>2, <1>3, <1>4, <1>5, <1>6, <1>7, <1>8, <1>9, <1>10, <1>11 DEF Next, Use

LEMMA StepIInv == IInv /\ [Next]_vars => IInv'
  <1> SUFFICES ASSUME IInv, [Next]_vars
               PROVE  IInv'
    OBVIOUS
  <1>1. TypeOK'
    <2>1. UNCHANGED vars => TypeOK'
      BY DEF IInv, TypeOK, vars, pool, worker, loader, keeper
    <2> QED
      BY <2>1, UseTyped, TickTyped, LoadTyped, RecoveryTyped DEF IInv, Next
  <1>2. (LeaseInv /\ Exclusive)'
    BY StepLease
  <1> QED
    BY <1>1, <1>2 DEF IInv

LEMMA PoolIInv == Spec => []IInv
  BY InitIInv, StepIInv, PTL DEF Spec

-----------------------------------------------------------------------------
(* The pool's scripts, the loader and the recovery keep every variable in  *)
(* its range, whatever the pool, the workers and the settings.             *)
THEOREM PoolTypeOK == Spec => []TypeOK
  <1>1. IInv => TypeOK
    BY DEF IInv
  <1> QED
    BY <1>1, PoolIInv, PTL

(* acquire.lua and release.lua: whatever the number of proxies and workers *)
(* and the length of a lease, and however many seconds pass between the    *)
(* reading of the clock and the script, no two workers use one proxy       *)
(* within their leases but for the last MaxLag seconds of a lease and for  *)
(* a holder whose entry a release of those last seconds took.              *)
THEOREM PoolExclusive == Spec => []Exclusive
  <1>1. IInv => Exclusive
    BY DEF IInv
  <1> QED
    BY <1>1, PoolIInv, PTL
=============================================================================
