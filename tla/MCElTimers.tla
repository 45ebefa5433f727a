------------------------------ MODULE MCElTimers ------------------------------
(* Small instances of ElTimers for TLC.  There is no symmetry set: the run   *)
(* checks liveness.                                                          *)
EXTENDS ElTimers
===============================================================================
