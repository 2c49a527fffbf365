------------------------- MODULE MCCircuitBreaker -------------------------
(* CircuitBreaker on small instances.                                      *)
EXTENDS CircuitBreaker
=============================================================================
