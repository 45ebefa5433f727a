------------------------------- MODULE MCServer -------------------------------
(* Small instances of Server for TLC.                                       *)
EXTENDS Server

Symmetry == Permutations(Workers) \cup Permutations(Sockets) \cup Permutations(Users)
===============================================================================
