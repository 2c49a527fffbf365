------------------------------ MODULE MCProxyPool ------------------------------
(* ProxyPool on small instances.  Workers are interchangeable.             *)
EXTENDS ProxyPool, TLC
Symmetry == Permutations(Workers)

(* Bound: a run has a load of the pool or a failing recovery, not both,    *)
(* and a load and a recovery take turns.                                   *)
OneTrouble ==
    /\ loads + faults <= 1
    /\ load # "idle" => \A r \in Keepers : step[r] = "idle"
=============================================================================
