---------------------------- MODULE MCClientSession ---------------------------
(* Instances of ClientSession for TLC.                                      *)
EXTENDS ClientSession, TLC

CONSTANTS l1, l2

(* A letter with lines and one without.                                     *)
LinesOf == (l1 :> 2) @@ (l2 :> 0)
===============================================================================
