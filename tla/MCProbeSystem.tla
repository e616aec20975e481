---------------------------- MODULE MCProbeSystem ------------------------------
(* Small instances of ProbeSystem for TLC.                                       *)
EXTENDS ProbeSystem

CallSymmetry == Permutations(Calls)
================================================================================
