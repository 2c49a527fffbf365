------------------------------- MODULE HttpDoer -------------------------------
(***************************************************************************)
(* httpdo.Doer: one HTTP request over several proxies, the classes of      *)
(* answers that end it, and the cache of one http.Client per proxy, shared *)
(* by all callers under one mutex.                                         *)
(*                                                                         *)
(* One action is one critical section or one call to the pool or to the    *)
(* network.  The pool is what ProxyPool shows of it: any proxy, or none;   *)
(* since a lease may run out during a request, two callers may have the    *)
(* same one.  Answers are the classes that doWithLease tells apart:        *)
(*   ok          a complete body of at most maxResponseBodyBytes           *)
(*   permanent   400, 401, 403, 404, 410                                   *)
(*   target      any other status from 400 on that is not listed here      *)
(*   rate        429                                                       *)
(*   fault       a TLS error of the proxy (isProxyFault)                   *)
(*   transport   any other transport error, a body too large or cut off,   *)
(*               or 407, 502, 503, 504, which blame the proxy as well      *)
(* All callers send a GET without a body, so there is nothing to rewind.   *)
(***************************************************************************)
EXTENDS Integers, Sequences, FiniteSets, SequencesExt

CONSTANTS
    Proxies,      \* proxy URLs
    Unsupported,  \* those whose URL or scheme transport.For refuses
    Callers,      \* goroutines that share the Doer
    Direct,       \* the cache key "__direct__"
    None,         \* no lease
    MaxRetries,   \* Config.MaxRetries, after its default
    AllowDirect,  \* Config.AllowDirect
    MaxCache      \* maxCacheEntries

VARIABLES
    transports,   \* keys of the map of clients
    accessOrder,  \* the LRU list of its proxy keys
    old,          \* keys not used for ten minutes
    closed,       \* Close was called
    dpc,          \* caller -> where its Do is
    attempt,      \* caller -> the attempt that Do is in
    lease,        \* caller -> the proxy of its lease
    mark,         \* caller -> what it reported on its lease
    answer        \* caller -> how its last request ended

cache == <<transports, accessOrder, old, closed>>
calls == <<dpc, attempt, lease, mark, answer>>
doerVars == <<cache, calls>>

(* maxCacheEntries is 100; neither "__direct__" nor no lease is a URL.     *)
DoerConstants == None \notin Proxies /\ Direct \notin Proxies /\ MaxCache \in Nat \ {0}

Answers == {"ok", "permanent", "target", "rate", "fault", "transport"}

DoerInit ==
    /\ transports = {} /\ accessOrder = <<>> /\ old = {} /\ closed = FALSE
    /\ dpc = [c \in Callers |-> "idle"]
    /\ attempt = [c \in Callers |-> 0]
    /\ lease = [c \in Callers |-> None]
    /\ mark = [c \in Callers |-> "none"]
    /\ answer = [c \in Callers |-> "none"]

At(c, s) == dpc[c] = s
Goto(c, s) == dpc' = [dpc EXCEPT ![c] = s]

(* GetMatch, Proxied.Get, fetchOne: a new request.                         *)
Begin(c) ==
    /\ At(c, "idle")
    /\ ~closed
    /\ Goto(c, "loop")
    /\ attempt' = [attempt EXCEPT ![c] = 1]
    /\ UNCHANGED <<cache, lease, mark, answer>>

-----------------------------------------------------------------------------
(* The cache of clients.                                                   *)

SupportedScheme(p) == p \notin Unsupported

(* The list without some keys, in the order it had.                        *)
Without(order, gone) ==
    LET kept[i \in 0..Len(order)] ==
          IF i = 0 THEN <<>>
          ELSE IF order[i] \in gone THEN kept[i - 1] ELSE Append(kept[i - 1], order[i])
    IN  kept[Len(order)]

(* touchAccessOrder: the key moves to the end of the list.                 *)
TouchAccessOrder(order, p) == Append(Without(order, {p}), p)

CacheFull == Cardinality(transports) >= MaxCache /\ accessOrder # <<>>

(* A miss: the least recently used proxy makes room.  Closing an entry     *)
(* closes idle connections only, the requests on it go on.                 *)
Insert(p) ==
    LET gone == IF CacheFull THEN {Head(accessOrder)} ELSE {}
        rest == IF CacheFull THEN Tail(accessOrder) ELSE accessOrder
    IN  /\ transports' = (transports \ gone) \cup {p}
        /\ accessOrder' = Append(rest, p)
        /\ old' = old \ (gone \cup {p})

Hit(p) ==
    /\ transports' = transports
    /\ accessOrder' = TouchAccessOrder(accessOrder, p)
    /\ old' = old \ {p}

RefuseProxy(c) ==
    /\ mark' = [mark EXCEPT ![c] = "failure"]
    /\ answer' = [answer EXCEPT ![c] = "transport"]
    /\ Goto(c, "release")
    /\ UNCHANGED <<transports, accessOrder, old>>

(* getClient; a URL it cannot use is a failure of the proxy.               *)
GetClient(c) ==
    LET p == lease[c]
    IN  /\ At(c, "client")
        /\ IF SupportedScheme(p)
           THEN /\ IF p \in transports THEN Hit(p) ELSE Insert(p)
                /\ Goto(c, "request")
                /\ UNCHANGED <<mark, answer>>
           ELSE RefuseProxy(c)
        /\ UNCHANGED <<closed, attempt, lease>>

(* doDirect's entry is made without a look at the limit or the list.       *)
DirectClient(c) ==
    /\ dpc[c] \in {"direct", "fallback"}
    /\ transports' = transports \cup {Direct}
    /\ old' = old \ {Direct}
    /\ Goto(c, IF At(c, "direct") THEN "directRequest" ELSE "fallbackRequest")
    /\ UNCHANGED <<accessOrder, closed, attempt, lease, mark, answer>>

Age(k) ==
    /\ k \in transports \ old
    /\ old' = old \cup {k}
    /\ UNCHANGED <<transports, accessOrder, closed, calls>>

(* Bug variant: the list keeps the keys of entries that are gone.          *)
EvictIdleKeepsOrder ==
    /\ ~closed /\ old # {}
    /\ transports' = transports \ old
    /\ accessOrder' = accessOrder
    /\ old' = {}
    /\ UNCHANGED <<closed, calls>>

(* evictIdleEntries, every five minutes until Close.                       *)
EvictIdleEntries ==
    /\ ~closed /\ old # {}
    /\ transports' = transports \ old
    /\ accessOrder' = Without(accessOrder, old)
    /\ old' = {}
    /\ UNCHANGED <<closed, calls>>

(* The binaries close the Doer when their workers are gone.                *)
Close ==
    /\ ~closed
    /\ \A c \in Callers : At(c, "idle")
    /\ closed' = TRUE
    /\ transports' = {} /\ accessOrder' = <<>> /\ old' = {}
    /\ UNCHANGED calls

-----------------------------------------------------------------------------
(* Do and doWithLease.                                                     *)

Ended(c, r) ==
    /\ answer' = [answer EXCEPT ![c] = r]
    /\ Goto(c, "returned")

(* The caller's context may end at any time, by a shutdown or a deadline;  *)
(* it shows before an attempt, during the back-off, after an attempt that  *)
(* failed (Decide), and as a transport error of the request it cuts off.   *)
ContextDone(c) ==
    /\ dpc[c] \in {"loop", "backoff"}
    /\ Ended(c, "context")
    /\ UNCHANGED <<cache, attempt, lease, mark>>

Acquire(c) ==
    /\ At(c, "loop")
    /\ \E p \in Proxies : lease' = [lease EXCEPT ![c] = p]
    /\ Goto(c, "client")
    /\ UNCHANGED <<cache, attempt, mark, answer>>

(* ErrNoProxy, or Redis failed.                                            *)
AcquireFails(c) ==
    /\ At(c, "loop")
    /\ \/ /\ answer' = [answer EXCEPT ![c] = "noproxy"]
          /\ Goto(c, IF AllowDirect THEN "direct" ELSE "decide")
       \/ /\ answer' = [answer EXCEPT ![c] = "transport"]
          /\ Goto(c, "decide")
    /\ UNCHANGED <<cache, attempt, lease, mark>>

(* What is reported on the proxy: an error status of the target is no      *)
(* fault of the proxy, except that 429 means its address is limited.       *)
Verdict(a) == IF a \in {"ok", "permanent", "target"} THEN "success" ELSE "failure"

Request(c) ==
    /\ At(c, "request")
    /\ \E a \in Answers :
          /\ answer' = [answer EXCEPT ![c] = a]
          /\ mark' = [mark EXCEPT ![c] = Verdict(a)]
    /\ Goto(c, "release")
    /\ UNCHANGED <<cache, attempt, lease>>

Release(c) ==
    /\ At(c, "release")
    /\ lease' = [lease EXCEPT ![c] = None]
    /\ mark' = [mark EXCEPT ![c] = "none"]
    /\ Goto(c, IF answer[c] = "ok" THEN "returned" ELSE "decide")
    /\ UNCHANGED <<cache, attempt, answer>>

(* doDirect has no proxy to report on; within the loop its result is that  *)
(* of the attempt, after the loop that of Do.                              *)
DirectRequest(c) ==
    /\ dpc[c] \in {"directRequest", "fallbackRequest"}
    /\ \E a \in Answers :
          /\ answer' = [answer EXCEPT ![c] = a]
          /\ Goto(c, IF At(c, "fallbackRequest") \/ a = "ok" THEN "returned" ELSE "decide")
    /\ UNCHANGED <<cache, attempt, lease, mark>>

IsPermanent(a) == a = "permanent"

(* Bug variant: 429 is tried again like an error of the target.            *)
SurfacesPermanent(a) == IsPermanent(a)

Surfaces(a) == IsPermanent(a) \/ a = "rate"

NextAttempt(c, n) ==
    /\ attempt' = [attempt EXCEPT ![c] = n]
    /\ answer' = [answer EXCEPT ![c] = "none"]
    /\ Goto(c, "loop")

Exhausted(c) ==
    /\ UNCHANGED <<attempt, answer>>
    /\ Goto(c, IF AllowDirect THEN "fallback" ELSE "returned")

(* The next attempt, or the end of the loop with the last error.           *)
Again(c) ==
    IF attempt[c] < MaxRetries THEN NextAttempt(c, attempt[c] + 1) ELSE Exhausted(c)

(* The end of an attempt that failed: surfaced, given up, repeated at once *)
(* for a fault of the proxy, or after the back-off.                        *)
Decide(c) ==
    /\ At(c, "decide")
    /\ IF Surfaces(answer[c])
       THEN Goto(c, "returned") /\ UNCHANGED <<attempt, answer>>
       ELSE \/ Ended(c, "context") /\ UNCHANGED attempt
            \/ answer[c] = "fault" /\ Again(c)
            \/ answer[c] # "fault" /\ Goto(c, "backoff") /\ UNCHANGED <<attempt, answer>>
    /\ UNCHANGED <<cache, lease, mark>>

Backoff(c) ==
    /\ At(c, "backoff")
    /\ Again(c)
    /\ UNCHANGED <<cache, lease, mark>>

(* Do returns to the fetcher, the enricher or the discoverer.              *)
Return(c) ==
    /\ At(c, "returned")
    /\ Goto(c, "idle")
    /\ attempt' = [attempt EXCEPT ![c] = 0]
    /\ answer' = [answer EXCEPT ![c] = "none"]
    /\ UNCHANGED <<cache, lease, mark>>

Do(c) ==
    \/ ContextDone(c) \/ Acquire(c) \/ AcquireFails(c) \/ GetClient(c) \/ Request(c)
    \/ Release(c) \/ DirectClient(c) \/ DirectRequest(c) \/ Decide(c) \/ Backoff(c)
    \/ Return(c)

DoerNext ==
    \/ \E c \in Callers : Begin(c) \/ Do(c)
    \/ \E k \in Proxies \cup {Direct} : Age(k)
    \/ EvictIdleEntries \/ Close

(* Requests have a timeout and the pool answers, so a Do runs on.          *)
DoerFairness == \A c \in Callers : WF_doerVars(Do(c))
DoerSpec == DoerInit /\ [][DoerNext]_doerVars /\ DoerFairness

-----------------------------------------------------------------------------
(* getClient, touchAccessOrder, evictIdleEntries and Close keep the LRU    *)
(* list and the map of clients in step: every cached proxy is in the list  *)
(* once, so each can be evicted, and nothing else is, so an eviction       *)
(* always makes room; the direct client is in the map only.                *)
CacheInStep ==
    /\ ToSet(accessOrder) = transports \ {Direct}
    /\ IsInjective(accessOrder)

(* getClient: whatever callers, evictions and direct requests interleave,  *)
(* the map exceeds maxCacheEntries by the direct client at most.           *)
CacheBounded == Cardinality(transports) <= MaxCache + 1

(* Do: once upstream has answered with a permanent status or with 429,     *)
(* "surface immediately": no later step of that call asks for a proxy or   *)
(* for upstream again, and the caller gets that answer.                    *)
SurfacedAtOnce ==
    [][\A c \in Callers :
          answer[c] \in {"permanent", "rate"} =>
             \/ answer'[c] = answer[c] /\ dpc'[c] \in {"release", "decide", "returned"}
             \/ dpc'[c] = "idle"]_doerVars

(* doWithLease: "defer lease.Release": a lease never outlives its attempt, *)
(* and it goes back with a verdict on the proxy whatever path returns.     *)
LeaseReturned ==
    \A c \in Callers :
       /\ lease[c] # None <=> dpc[c] \in {"client", "request", "release"}
       /\ At(c, "release") => mark[c] # "none"

(* httpdo.Doer: the LRU list and the map of clients name the same proxies, *)
(* within the limit; a lease goes back with its attempt and a verdict.     *)
DoerSound == CacheInStep /\ CacheBounded /\ LeaseReturned

=============================================================================
