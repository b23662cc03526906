----------------------------- MODULE WebSocket -----------------------------
(***************************************************************************)
(* WebSocketServerEngine of crates/distribution/src/websocket.rs: what its *)
(* connection handlers do to the Router when frames come in, and what they *)
(* answer.  A handler is a thread of Router; the calls it makes are the    *)
(* actions of that module, and the answer (send_response) is a step of its *)
(* own after them.                                                         *)
(*                                                                         *)
(* A frame is its header fields, the number of payload bytes, how many     *)
(* bytes of it the caller has in its buffer, and the command in its text.  *)
(***************************************************************************)
EXTENDS Router

CONSTANTS PingSizes      \* payload lengths of Ping frames

ASSUME WebSocketAssumption == PingSizes \subseteq Nat

VARIABLE answer          \* per thread: the response to be sent once the router is done

wsVars == <<vars, answer>>

NoAnswer == [kind |-> "none"]

-----------------------------------------------------------------------------
(* Framing                                                                 *)

\* Bytes before the payload: two, the extended length, the mask.
LengthBytes(len) == IF len < 126 THEN 0 ELSE IF len <= 65535 THEN 2 ELSE 8
HeaderLen(f) == 2 + LengthBytes(f.len) + (IF f.masked THEN 4 ELSE 0)

Opcodes == 0..2 \cup 8..10

\* decode_ws_frame_header and the length check of handle_inbound_frame.  The opcode is
\* looked at before the rest of the header.
Decoded(f) ==
  IF f.have < 2 THEN "incomplete"
  ELSE IF f.op \notin Opcodes THEN "invalid"
  ELSE IF f.have < HeaderLen(f) + f.len THEN "incomplete" ELSE "frame"

\* encode_ws_frame: the server's frame, unmasked, must fit the buffer on the stack.
Fits(len, room) == 2 + LengthBytes(len) + len <= room

Frame(op, len, cmd) == [op |-> op, masked |-> TRUE, len |-> len, cmd |-> cmd,
                        have |-> 6 + LengthBytes(len) + len]
NoCmd == [action |-> "none"]

\* Frames a client may send: whole ones, ones cut at each part, one with a reserved opcode.
Commands == {[action |-> "subscribe", topic |-> t] : t \in Topics}
              \cup {[action |-> "unsubscribe", topic |-> t] : t \in Topics}
              \cup {[action |-> "ping"], [action |-> "pong"], NoCmd}
Whole == {Frame(1, 80, cmd) : cmd \in Commands} \cup {Frame(op, 0, NoCmd) : op \in {0, 2, 8, 10}}
           \cup {Frame(9, len, NoCmd) : len \in PingSizes}
Broken == {[Frame(1, 80, NoCmd) EXCEPT !.have = n] : n \in {1, 5, 85}} \cup {Frame(3, 0, NoCmd)}
Frames == Whole \cup Broken

-----------------------------------------------------------------------------
(* parse_client_command                                                    *)

\* An unsubscribe is parsed with flags 0 whatever the client names.
Parsed(cmd) ==
  IF cmd.action = "unsubscribe" THEN [cmd EXCEPT !.topic.flags = 0] ELSE cmd

-----------------------------------------------------------------------------
(* handle_inbound_frame, by a handler that is not in the middle of a call  *)

\* The frames of one connection are handled one after the other.
Ready(h, c) ==
  /\ Calls(h, c) /\ answer[h] = NoAnswer
  /\ Serialized => \A g \in Threads : answer[g] # NoAnswer => answer[g].client # c

Answer(h, a) == answer' = [answer EXCEPT ![h] = a]

\* handle_client_connect and handle_client_disconnect
Connect(h, c) == Ready(h, c) /\ RegisterClient(h, c) /\ UNCHANGED answer

Disconnect(h, c) == Ready(h, c) /\ UnregisterClient(h, c) /\ UNCHANGED answer

\* Frames the router never hears of: errors, Pong, Binary, Continuation, texts that are no
\* command or a pong, a Ping whose echo does not fit, a subscription of an unknown client.
Ignored(h, c, f) ==
  /\ Ready(h, c)
  /\ \/ Decoded(f) # "frame"
     \/ f.op \in {0, 2, 10}
     \/ f.op = 1 /\ f.cmd.action \in {"pong", "none"}
     \/ f.op = 9 /\ ~Fits(f.len, 256)
     \/ f.op = 1 /\ f.cmd.action = "subscribe" /\ clients[c] = NoSession
  /\ UNCHANGED wsVars

\* A Ping frame, or a ping command, is answered from the frame alone.
OnPing(h, c, f) ==
  /\ Ready(h, c) /\ Decoded(f) = "frame"
  /\ \/ f.op = 9 /\ Fits(f.len, 256)
     \/ f.op = 1 /\ f.cmd.action = "ping"
  /\ Answer(h, [kind |-> "pong", client |-> c])
  /\ UNCHANGED vars

\* Close: the client is unregistered first (also when it is not registered), then answered.
OnClose(h, c, f) ==
  /\ Ready(h, c) /\ Decoded(f) = "frame" /\ f.op = 8
  /\ IF clients[c] # NoSession THEN UnregisterClient(h, c) ELSE UNCHANGED vars
  /\ Answer(h, [kind |-> "close", client |-> c])

\* A subscribe command; the confirmation follows when the router has answered Ok.
OnSubscribe(h, c, f) ==
  /\ Ready(h, c) /\ Decoded(f) = "frame" /\ f.op = 1 /\ Parsed(f.cmd).action = "subscribe"
  /\ Subscribe(h, c, Parsed(f.cmd).topic)
  /\ Answer(h, [kind |-> "subscribed", client |-> c, topic |-> Parsed(f.cmd).topic])

OnUnsubscribe(h, c, f) ==
  /\ Ready(h, c) /\ Decoded(f) = "frame" /\ f.op = 1 /\ Parsed(f.cmd).action = "unsubscribe"
  /\ Unsubscribe(h, c, Parsed(f.cmd).topic)
  /\ UNCHANGED answer

\* The router's second sections, in the thread of the call.
RouterSection(h) == (UnregisterTopics(h) \/ SubscribeTopic(h)) /\ UNCHANGED answer

\* Mutant: the answer may leave before the router is done.
AnswerDue_Early(h) == answer[h] # NoAnswer

\* send_response comes after the router's part.
AnswerDue(h) == answer[h] # NoAnswer /\ pc[h] = "idle"

SendResponse(h) == AnswerDue(h) /\ Answer(h, NoAnswer) /\ UNCHANGED vars

\* broadcast_bbo and broadcast_trade: a dispatch whose sink frames the payload.
BroadcastBbo(h) == answer[h] = NoAnswer /\ (\E f \in Flags : DispatchBbo(h, f)) /\ UNCHANGED answer

BroadcastTrade(h) == answer[h] = NoAnswer /\ DispatchTrade(h) /\ UNCHANGED answer

\* Filters are set through the router, past the frames.
SetFilter(h) == answer[h] = NoAnswer /\ (\E c \in Clients, f \in Filters : UpdateFilter(h, c, f)) /\ UNCHANGED answer

Delivery(h) == (LockClients(h) \/ Visit(h) \/ Return(h)) /\ UNCHANGED answer

-----------------------------------------------------------------------------
WsInit == Init /\ answer = [h \in Threads |-> NoAnswer]

Inbound(h, c, f) ==
  Ignored(h, c, f) \/ OnPing(h, c, f) \/ OnClose(h, c, f) \/ OnSubscribe(h, c, f) \/ OnUnsubscribe(h, c, f)

WsNext ==
  \E h \in Threads :
    \/ \E c \in Clients : Connect(h, c) \/ Disconnect(h, c)
    \/ \E c \in Clients : Ready(h, c) /\ \E f \in Frames : Inbound(h, c, f)
    \/ RouterSection(h) \/ SendResponse(h) \/ BroadcastBbo(h) \/ BroadcastTrade(h) \/ SetFilter(h) \/ Delivery(h)

WsSpec == WsInit /\ [][WsNext]_wsVars

-----------------------------------------------------------------------------
(* Properties (with those of Router)                                       *)

\* The types of the state, the router's included.
WsTypeOK ==
  /\ TypeOK
  /\ \A h \in Threads : answer[h].kind \in {"none", "pong", "close", "subscribed"}

\* handle_inbound_frame: when {"type":"subscribed"} leaves, the index has the client in that
\* topic if its id has a bit, that is below Capacity, whatever the other threads did to the
\* router since the command came in; an id at or beyond Capacity is told the same and is not
\* in the index (bitmap.rs returns false, subscribe does not look at it).  When a Close is
\* answered the index has nothing of the client left, whatever its id.
AnswersMatchIndex ==
  \A h \in Threads : AnswerDue(h) =>
    /\ answer[h].kind = "subscribed" =>
         (answer[h].client \in topics[answer[h].topic] <=> answer[h].client < Capacity)
    /\ answer[h].kind = "close" => \A t \in Topics : answer[h].client \notin topics[t]

\* What a client takes the confirmation for: it is in the index.  Violated by ids at or
\* beyond Capacity, for which the router's CapacityExceeded is never returned.
ConfirmedIsIndexed ==
  \A h \in Threads : AnswerDue(h) /\ answer[h].kind = "subscribed" =>
    answer[h].client \in topics[answer[h].topic]
=============================================================================
