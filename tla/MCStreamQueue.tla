---------------------------- MODULE MCStreamQueue ----------------------------
(* StreamQueue on small instances.                                         *)
EXTENDS StreamQueue, TLC

(* Messages and workers are interchangeable (safety runs only).            *)
Symmetry == Permutations(Msgs) \cup Permutations(Consumers)
=============================================================================
