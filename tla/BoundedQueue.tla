---------------------------- MODULE BoundedQueue ----------------------------
(***************************************************************************)
(* What a single-producer single-consumer queue of capacity N promises to  *)
(* its two callers: the items taken out are the items put in, in order,    *)
(* none twice and none skipped, and at most N of them are inside.          *)
(* The state is the two histories, so the queue itself is what `put' has   *)
(* beyond `got'.                                                           *)
(***************************************************************************)
EXTENDS Naturals, Sequences

CONSTANTS N,        \* capacity
          Items     \* what may be queued

VARIABLES put,      \* every item accepted, oldest first
          got       \* every item handed out, oldest first

Init == put = << >> /\ got = << >>

Put(v) == /\ Len(put) - Len(got) < N
          /\ put' = Append(put, v)
          /\ UNCHANGED got

Get == /\ Len(got) < Len(put)
       /\ got' = Append(got, put[Len(got) + 1])
       /\ UNCHANGED put

Next == Get \/ \E v \in Items : Put(v)

Spec == Init /\ [][Next]_<<put, got>>
=============================================================================
