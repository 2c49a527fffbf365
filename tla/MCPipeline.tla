------------------------------ MODULE MCPipeline ------------------------------
(* Pipeline on small instances.                                            *)
EXTENDS Pipeline, TLC

(* Workers of a kind are interchangeable (safety runs only).               *)
Symmetry == Permutations(Fetchers) \cup Permutations(Parsers)
=============================================================================
