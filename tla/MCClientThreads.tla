---------------------------- MODULE MCClientThreads ----------------------------
(* An instance of ClientThreads for TLC: descriptors 0 to 2 are the         *)
(* standard ones.                                                           *)
EXTENDS ClientThreads

CONSTANTS d1, d2

TwoDomains == <<d1, d2>>
TwoDescriptors == {3, 4}
===============================================================================
