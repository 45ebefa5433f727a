----------------------------- MODULE MCLineReader -----------------------------
(* Instances of LineReader for TLC.                                         *)
EXTENDS LineReader, TLC
===============================================================================
