-------------------------------- MODULE Probes --------------------------------
(***************************************************************************)
(* What the modules around the queues share when a run puts them side by   *)
(* side.  A behaviour is of one part; when the part is an algorithm, probe *)
(* is the input that it is asked about.                                    *)
(***************************************************************************)
VARIABLES
    part,
    probe

On(p) == part = p

=============================================================================
