---------------------------- MODULE MCWebSocket ----------------------------
(* WebSocket for TLC: the threads are interchangeable.                     *)
EXTENDS WebSocket, TLC

ThreadSymmetry == Permutations(Threads)
=============================================================================
