------------------------------ MODULE MCRouter ------------------------------
(* Router for TLC: the threads are interchangeable.                        *)
EXTENDS Router, TLC

ThreadSymmetry == Permutations(Threads)
=============================================================================
