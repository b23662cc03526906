---------------------------- MODULE HealthServer ----------------------------
(***************************************************************************)
(* HealthServer of crates/core-engine/src/health.rs: one thread accepts a  *)
(* connection, reads once, answers and closes; the owner stops it on drop. *)
(* The network (external) delivers a request whole or in two parts, late   *)
(* or never.                                                               *)
(***************************************************************************)
EXTENDS Integers, Sequences, FiniteSets

CONSTANTS Conns          \* connections of the orchestrator's probes

VARIABLES is_ready, tier_code, stop_server,   \* shared with the server's thread
          hpc,           \* of that thread: "accept", "read", "joined"
          backlog,       \* connections not accepted yet, in order
          current,       \* the connection being served
          sent,          \* per connection: how much of the request is there
          wanted,        \* per connection: the path, "none" when unused
          answer         \* per connection: the answer, "none" or "closed"

healthVars == <<is_ready, tier_code, stop_server, hpc, backlog, current, sent, wanted, answer>>

Paths == {"/healthz", "/readyz", "/metrics", "/other"}
NoConn == "noconn"

HealthInit ==
  /\ is_ready = FALSE /\ tier_code = 1 /\ stop_server = FALSE /\ hpc = "accept" /\ backlog = <<>>
  /\ current = NoConn /\ sent = [c \in Conns |-> "nothing"] /\ wanted = [c \in Conns |-> "none"]
  /\ answer = [c \in Conns |-> "none"]

MarkReady == is_ready' = TRUE
SetTier(tier) == tier_code' = tier

\* A probe connects and sends: everything, a part that cuts the path, or nothing yet.
Connect(c, path, part) ==
  /\ wanted[c] = "none" /\ hpc # "joined"
  /\ wanted' = [wanted EXCEPT ![c] = path] /\ sent' = [sent EXCEPT ![c] = part]
  /\ backlog' = Append(backlog, c)
  /\ UNCHANGED <<is_ready, tier_code, stop_server, hpc, current, answer>>

SendRest(c) ==
  /\ wanted[c] # "none" /\ sent[c] # "all" /\ answer[c] = "none"
  /\ sent' = [sent EXCEPT ![c] = "all"]
  /\ UNCHANGED <<is_ready, tier_code, stop_server, hpc, backlog, current, wanted, answer>>

\* A set stop flag ends the loop; the connections left get no answer.
Accept ==
  /\ hpc = "accept" /\ ~stop_server /\ backlog # <<>>
  /\ hpc' = "read" /\ current' = Head(backlog) /\ backlog' = Tail(backlog)
  /\ UNCHANGED <<is_ready, tier_code, stop_server, sent, wanted, answer>>

\* accept fails and the connection is gone; the loop sleeps and goes on.
AcceptFails ==
  /\ hpc = "accept" /\ ~stop_server /\ backlog # <<>>
  /\ answer' = [answer EXCEPT ![Head(backlog)] = "closed"] /\ backlog' = Tail(backlog)
  /\ UNCHANGED <<is_ready, tier_code, stop_server, hpc, current, sent, wanted>>

\* handle_request: a first line that is cut matches no path.
Answer(c) ==
  IF sent[c] = "part" THEN "404"
  ELSE CASE wanted[c] = "/healthz" -> "OK"
         [] wanted[c] = "/readyz" -> IF is_ready THEN "READY" ELSE "INITIALIZING"
         [] wanted[c] = "/metrics" -> <<"tier 1", "tier 2", "tier 3">>[tier_code]
         [] OTHER -> "404"

\* Mutant: a read waits as long as the client does.
ReadReturns_NoTimeout(c) == sent[c] # "nothing"

\* read returns with what is there, or after 500 ms with an error.
ReadReturns(c) == TRUE

\* One read: what is there is answered, a silent connection is closed.
ReadOnce ==
  /\ hpc = "read" /\ ReadReturns(current)
  /\ hpc' = "accept" /\ current' = NoConn
  /\ answer' = [answer EXCEPT ![current] = IF sent[current] = "nothing" THEN "closed" ELSE Answer(current)]
  /\ UNCHANGED <<is_ready, tier_code, stop_server, backlog, sent, wanted>>

ThreadEnds ==
  /\ hpc = "accept" /\ stop_server
  /\ hpc' = "joined"
  /\ UNCHANGED <<is_ready, tier_code, stop_server, backlog, current, sent, wanted, answer>>

ServerThread == Accept \/ AcceptFails \/ ReadOnce \/ ThreadEnds

\* drop: set the flag; the join is hpc = "joined".
StopServer ==
  /\ stop_server' = TRUE
  /\ UNCHANGED <<is_ready, tier_code, hpc, backlog, current, sent, wanted, answer>>

\* The probe has its answer and is free to connect again.
Disconnect(c) ==
  /\ answer[c] # "none"
  /\ wanted' = [wanted EXCEPT ![c] = "none"] /\ sent' = [sent EXCEPT ![c] = "nothing"]
  /\ answer' = [answer EXCEPT ![c] = "none"]
  /\ UNCHANGED <<is_ready, tier_code, stop_server, hpc, backlog, current>>

Network ==
  \E c \in Conns : SendRest(c) \/ Disconnect(c) \/ \E path \in Paths, part \in {"nothing", "part", "all"} : Connect(c, path, part)
=============================================================================
