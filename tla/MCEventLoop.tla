------------------------------ MODULE MCEventLoop -----------------------------
(* Small instances of EventLoop for TLC.                                    *)
EXTENDS EventLoop, TLC

Symmetry == Permutations(Workers) \cup Permutations(Sockets) \cup Permutations(Events)
===============================================================================
