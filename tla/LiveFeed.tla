------------------------------ MODULE LiveFeed ------------------------------
(***************************************************************************)
(* crates/live-feed: the message-level state machine (session.rs) and the  *)
(* connection loop around it (bin/live_feed.rs), against an exchange that  *)
(* answers subscriptions with a snapshot ticker and a network that delays, *)
(* drops and garbles messages, loses connections and goes silent.          *)
(*                                                                         *)
(* The runner is one task on a single-threaded executor: handling a text   *)
(* frame (on_message, the sink, note_action_taken) is one step, and each   *)
(* send it awaits another, during which no other branch of the select is   *)
(* polled.  Pongs are left out, and so are the counters of Stats, which    *)
(* steer nothing, prices and sizes.                                        *)
(***************************************************************************)
EXTENDS Naturals, Sequences, FiniteSetsExt, SequencesExt

CONSTANTS Products,
          Deadlines,     \* of {"none", "ahead"}: without --seconds, and with --seconds N
          StaleAfter,    \* STALE_AFTER_MS, in periods of the 1 s watchdog tick
          MaxBackoff,    \* MAX_BACKOFF in seconds
          LoseSnapshots, \* whether the network may lose the answer to a subscription
          HeartbeatSteps,\* how far the sequence may move between messages: {1}, or {0, 1}
                         \* for a product so quiet that a heartbeat repeats a sequence
          MaxTrades,     \* bound: trades per product
          MaxSeq,        \* bound: sequence numbers per product
          MaxWire,       \* bound: messages in flight when the exchange adds one
          MaxRequests,   \* requests the socket takes before send().await blocks
          MaxFaults      \* bound: faults of network and exchange

MaxDoublings == 5        \* of the backoff: 2^5 s is beyond MAX_BACKOFF, which is 30 s

ASSUME FeedAssumption ==
  IsFiniteSet(Products) /\ HeartbeatSteps \subseteq Nat /\ MaxBackoff \in 1..2^MaxDoublings

None == 0                \* Option::None; sequence numbers and trade ids start at 1

VARIABLES
  \* the exchange and the network (external)
  trades, tick_seq, seq, \* per product: last trade id, its sequence, current sequence
  subscribed, live,      \* the subscription; FALSE once the link is half open
  wire, requests,        \* messages to the client, requests to the exchange
  faults,
  \* Session
  last_seq, last_trade_id, max_emitted_trade_id,
  age,                   \* now - last_message_ms, in ticks
  \* main and run_connection
  phase, backoff, got_message,
  unsent,                \* requests that the branch of the select still has to send
  deadline,              \* "none", or the deadline is "ahead" or "passed"
  \* histories
  emitted,               \* per product: the trade ids handed to the sink
  base,                  \* per product: the trade id of the current baseline
  lost_snapshot,         \* whether an answer to the last subscription was lost
  naps                   \* sleeps since the start or the last connection that got a message

exchange == <<trades, tick_seq, seq, subscribed, live>>
session == <<last_seq, last_trade_id, max_emitted_trade_id, age, emitted, base>>
runner == <<phase, backoff, got_message, unsent, deadline, naps>>
vars == <<exchange, wire, requests, faults, lost_snapshot, session, runner>>

Ticker(p, s, t, snap) == [type |-> "ticker", product |-> p, seq |-> s, trade |-> t, snapshot |-> snap]
Heartbeat(p, s, t) == [type |-> "heartbeat", product |-> p, seq |-> s, trade |-> t]
IsSnapshot(m) == m.type = "ticker" /\ m.snapshot
Other(kind) == [type |-> kind]    \* "error", "subscriptions", "malformed"

Init ==
  /\ trades = [p \in Products |-> 1] /\ tick_seq = [p \in Products |-> 1]
  /\ seq = [p \in Products |-> 1]
  /\ subscribed = FALSE /\ live = FALSE /\ wire = << >> /\ requests = << >> /\ faults = 0
  /\ last_seq = [p \in Products |-> None] /\ last_trade_id = [p \in Products |-> None]
  /\ max_emitted_trade_id = [p \in Products |-> 0] /\ age = 0
  /\ phase = "connect" /\ backoff = 1 /\ got_message = FALSE /\ unsent = << >> /\ deadline \in Deadlines /\ naps = 0
  /\ emitted = [p \in Products |-> << >>] /\ base = [p \in Products |-> None]
  /\ lost_snapshot = FALSE

-----------------------------------------------------------------------------
(* The exchange and the network (external)                                 *)

Fault == faults < MaxFaults /\ faults' = faults + 1

Sending == live /\ subscribed

\* A match: the sequence advances; subscribers get a ticker.
Trade(p) ==
  /\ trades[p] < MaxTrades /\ seq[p] < MaxSeq /\ Len(wire) < MaxWire
  /\ trades' = [trades EXCEPT ![p] = @ + 1]
  /\ seq' = [seq EXCEPT ![p] = @ + 1]
  /\ tick_seq' = [tick_seq EXCEPT ![p] = seq[p] + 1]
  /\ wire' = IF Sending THEN Append(wire, Ticker(p, seq[p] + 1, trades[p] + 1, FALSE)) ELSE wire
  /\ UNCHANGED <<subscribed, live, requests, faults, lost_snapshot, session, runner>>

\* About once a second per product; other order events may have advanced the sequence.
SendHeartbeat(p, advance) ==
  /\ Sending /\ Len(wire) < MaxWire /\ seq[p] + advance <= MaxSeq
  /\ seq' = [seq EXCEPT ![p] = @ + advance]
  /\ wire' = Append(wire, Heartbeat(p, seq[p] + advance, trades[p]))
  /\ UNCHANGED <<trades, tick_seq, subscribed, live, requests, faults, lost_snapshot, session, runner>>

\* The exchange reads a request; a subscription is answered by the latest ticker of
\* every product, which repeats its last trade, and an ack.
ServeRequest ==
  /\ live /\ requests # << >>
  /\ requests' = Tail(requests)
  /\ subscribed' = (Head(requests) = "subscribe")
  /\ wire' = IF Head(requests) = "subscribe"
               THEN wire \o SetToSeq({Ticker(p, tick_seq[p], trades[p], TRUE) : p \in Products})
                         \o <<Other("subscriptions")>>
               ELSE wire
  /\ lost_snapshot' = (lost_snapshot /\ Head(requests) # "subscribe")
  /\ UNCHANGED <<trades, tick_seq, seq, live, faults, session, runner>>

SendError ==
  /\ Sending /\ Len(wire) < MaxWire /\ Fault
  /\ wire' = Append(wire, Other("error"))
  /\ UNCHANGED <<exchange, requests, lost_snapshot, session, runner>>

\* The next message never arrives, or arrives with a field missing or an unknown product.
Lose ==
  /\ wire # << >> /\ Fault
  /\ LoseSnapshots \/ ~IsSnapshot(Head(wire))
  /\ wire' \in {Tail(wire), <<Other("malformed")>> \o Tail(wire)}
  /\ lost_snapshot' = (lost_snapshot \/ IsSnapshot(Head(wire)))
  /\ UNCHANGED <<exchange, requests, session, runner>>

\* The link dies without either end noticing; what was sent stays in the socket's buffer.
HalfOpen ==
  /\ phase = "up" /\ live /\ Fault
  /\ live' = FALSE /\ wire' = << >>
  /\ UNCHANGED <<trades, tick_seq, seq, subscribed, requests, lost_snapshot, session, runner>>

DeadlinePasses ==
  /\ deadline = "ahead" /\ deadline' = "passed"
  /\ UNCHANGED <<exchange, wire, requests, faults, lost_snapshot, session, phase, backoff,
                 got_message, unsent, naps>>

-----------------------------------------------------------------------------
(* Session: what on_message decides                                        *)

\* Mutant: heartbeats only show that the connection is alive.
OnHeartbeat_Ignored(m) == "none"

\* on_heartbeat: a regression, or a last trade ahead of ours.
OnHeartbeat(m) ==
  LET p == m.product
  IN  IF \/ last_seq[p] # None /\ m.seq <= last_seq[p]
         \/ last_trade_id[p] # None /\ m.trade > last_trade_id[p]
        THEN "resubscribe" ELSE "none"

\* Mutant: a jump of the trade id is not noticed.
OnTicker_NoGapCheck(m) ==
  LET p == m.product
  IN  IF last_seq[p] # None /\ m.seq <= last_seq[p] THEN "resubscribe" ELSE "none"

\* on_ticker, checks 1 and 2.
OnTicker(m) ==
  LET p == m.product
  IN  IF \/ last_seq[p] # None /\ m.seq <= last_seq[p]
         \/ last_trade_id[p] # None /\ m.trade # last_trade_id[p] + 1
        THEN "resubscribe" ELSE "none"

OnMessage(m) ==
  CASE m.type = "ticker"    -> OnTicker(m)
    [] m.type = "heartbeat" -> OnHeartbeat(m)
    [] m.type = "error"     -> "reconnect"
    [] OTHER                -> "none"

\* Mutant: only what is ahead of the last message of this subscription is deduplicated.
Emits_PerSubscription(m) == m.trade > last_trade_id[m.product]

\* Only a trade newer than every trade handed on is handed on.
Emits(m) == m.trade > max_emitted_trade_id[m.product]

EmitTrade(m) ==
  /\ max_emitted_trade_id' =
       IF Emits(m) THEN [max_emitted_trade_id EXCEPT ![m.product] = m.trade] ELSE max_emitted_trade_id
  /\ emitted' = IF Emits(m) THEN [emitted EXCEPT ![m.product] = Append(@, m.trade)] ELSE emitted

NoBaseline == [p \in Products |-> None]

\* reset_baselines
ResetBaselines == last_seq' = NoBaseline /\ last_trade_id' = NoBaseline /\ base' = NoBaseline

\* What the session remembers of a message that asks for nothing.
Remember(m) ==
  IF m.type \in {"ticker", "heartbeat"} /\ (m.type = "ticker" \/ last_seq[m.product] # None)
    THEN LET p == m.product IN
      /\ last_seq' = [last_seq EXCEPT ![p] = m.seq]
      /\ last_trade_id' = IF m.type = "ticker" THEN [last_trade_id EXCEPT ![p] = m.trade] ELSE last_trade_id
      /\ base' = IF base[p] = None THEN [base EXCEPT ![p] = m.trade] ELSE base
    ELSE UNCHANGED <<last_seq, last_trade_id, base>>

-----------------------------------------------------------------------------
(* run_connection and main                                                 *)

Min2(a, b) == IF a < b THEN a ELSE b

\* Mutant: a connection that worked does not reset the backoff.
EndConnection_NoReset(got) ==
  /\ backoff' = backoff
  /\ naps' = (IF got THEN 0 ELSE naps) + 1
  /\ phase' \in (IF deadline = "passed" THEN {} ELSE {"sleep"})
                  \cup (IF deadline = "none" THEN {} ELSE {"finished"})
  /\ wire' = << >> /\ requests' = << >> /\ unsent' = << >> /\ live' = FALSE /\ subscribed' = FALSE
  /\ UNCHANGED <<trades, tick_seq, seq, got_message, deadline>>

\* run_connection returned or failed: main resets the backoff after a connection that
\* got a message, then gives up if the next attempt would start past the deadline.
EndConnection(got) ==
  /\ backoff' = IF got THEN 1 ELSE backoff
  /\ naps' = (IF got THEN 0 ELSE naps) + 1
  /\ phase' \in (IF deadline = "passed" THEN {} ELSE {"sleep"})
                  \cup (IF deadline = "none" THEN {} ELSE {"finished"})
  /\ wire' = << >> /\ requests' = << >> /\ unsent' = << >> /\ live' = FALSE /\ subscribed' = FALSE
  /\ UNCHANGED <<trades, tick_seq, seq, got_message, deadline>>

\* connect_async succeeded: on_connected, then the subscription is sent.
Connect ==
  /\ phase = "connect" /\ phase' = "up"
  /\ ResetBaselines /\ age' = 0
  /\ live' = TRUE /\ subscribed' = FALSE /\ wire' = << >> /\ requests' = <<"subscribe">>
  /\ UNCHANGED <<trades, tick_seq, seq, faults, lost_snapshot, max_emitted_trade_id, emitted,
                 backoff, got_message, unsent, deadline, naps>>

\* connect_async failed or timed out.
ConnectFails ==
  /\ phase = "connect" /\ Fault /\ EndConnection(FALSE)
  /\ UNCHANGED <<lost_snapshot, session>>

\* The two requests of a resubscribe, in the order they are sent.
Resubscription == <<"unsubscribe", "subscribe">>

\* The select waits for a branch: none is polled while one of them awaits a send.
Polling == phase = "up" /\ unsent = << >>

\* A text frame: on_message, the sink, then the action it asks for.  A resubscribe has two
\* requests to send, and both reactions reset the baselines (note_action_taken).
HandleText ==
  /\ Polling /\ wire # << >>
  /\ age' = 0 /\ UNCHANGED <<faults, lost_snapshot>>
  /\ LET m == Head(wire)
         a == OnMessage(m)
     IN  /\ IF m.type = "ticker" THEN EmitTrade(m) ELSE UNCHANGED <<max_emitted_trade_id, emitted>>
         /\ IF a = "none" THEN Remember(m) ELSE ResetBaselines
         /\ \/ /\ a = "reconnect"
               /\ EndConnection(TRUE)
            \/ /\ a # "reconnect"
               /\ unsent' = IF a = "resubscribe" THEN Resubscription ELSE << >>
               /\ got_message' = TRUE /\ wire' = Tail(wire)
               /\ UNCHANGED <<exchange, requests, phase, backoff, deadline, naps>>

\* ws.send(..).await returns once the socket has room for the request.
Send ==
  /\ phase = "up" /\ unsent # << >> /\ Len(requests) < MaxRequests
  /\ requests' = Append(requests, Head(unsent)) /\ unsent' = Tail(unsent)
  /\ UNCHANGED <<exchange, wire, faults, lost_snapshot, session, phase, backoff, got_message, deadline, naps>>

\* It fails once TCP gives up on a peer that is gone (external).
SendFails ==
  /\ phase = "up" /\ unsent # << >> /\ Len(requests) = MaxRequests /\ ~live
  /\ EndConnection(got_message)
  /\ UNCHANGED <<faults, lost_snapshot, session>>

\* Mutant: on_tick never reports a stale connection.
Stale_Never(silence) == FALSE

\* on_tick
Stale(silence) == silence > StaleAfter

\* tick.tick().  That a live connection never gets stale is an assumption on the exchange and
\* not a condition of the code: its heartbeats arrive, and its sends return, within StaleAfter.
Tick ==
  /\ Polling /\ age <= StaleAfter /\ (live => age < StaleAfter)
  /\ age' = age + 1 /\ UNCHANGED <<faults, lost_snapshot, max_emitted_trade_id, emitted>>
  /\ IF Stale(age + 1)
       THEN ResetBaselines /\ EndConnection(got_message)
       ELSE UNCHANGED <<last_seq, last_trade_id, base, exchange, wire, requests, runner>>

\* End of stream, Close, a read error or a failing send; nothing tells the session.
Disconnect ==
  /\ phase = "up" /\ Fault /\ EndConnection(got_message)
  /\ UNCHANGED <<lost_snapshot, session>>

\* Mutant: an up connection is not interrupted by the deadline.
Finish_NoDeadline ==
  /\ Polling /\ deadline = "none" /\ phase' = "finished"
  /\ UNCHANGED <<exchange, wire, requests, faults, lost_snapshot, session, backoff, got_message, unsent, deadline, naps>>

\* The deadline branch of the select.
Finish ==
  /\ Polling /\ deadline = "passed" /\ phase' = "finished"
  /\ UNCHANGED <<exchange, wire, requests, faults, lost_snapshot, session, backoff, got_message, unsent, deadline, naps>>

\* Ctrl-C, which only the select of an open connection listens to.
CtrlC ==
  /\ Polling /\ phase' = "finished"
  /\ UNCHANGED <<exchange, wire, requests, faults, lost_snapshot, session, backoff, got_message, unsent, deadline, naps>>

\* (backoff * 2).min(MAX_BACKOFF)
NextBackoff == Min2(2 * backoff, MaxBackoff)

\* sleep(backoff) is over; the loop connects again.
SleepEnds ==
  /\ phase = "sleep" /\ phase' = "connect"
  /\ backoff' = NextBackoff /\ got_message' = FALSE
  /\ UNCHANGED <<exchange, wire, requests, faults, lost_snapshot, session, unsent, deadline, naps>>

-----------------------------------------------------------------------------
Exchange == \/ \E p \in Products : Trade(p) \/ \E d \in HeartbeatSteps : SendHeartbeat(p, d)
            \/ ServeRequest

Network == SendError \/ Lose \/ HalfOpen

Client == \/ Connect \/ ConnectFails \/ HandleText \/ Send \/ SendFails \/ Tick \/ Disconnect
          \/ Finish \/ CtrlC \/ SleepEnds

Next == Exchange \/ Network \/ DeadlinePasses \/ Client

Spec == Init /\ [][Next]_vars

(* Fairness.  The exchange serves requests and keeps sending heartbeats on a live        *)
(* subscription.  The executor polls the branches of the select whenever none of them is *)
(* awaiting a send, and tokio picks one of the ready ones at random: strong, as sends    *)
(* come in between.  The clock advances, a sleep ends, a connection attempt is made, a   *)
(* send returns when there is room and fails once TCP has given up.  Faults are finitely *)
(* many, and nobody has to press Ctrl-C.  Heartbeats come for every product however busy *)
(* another one is: strong, as MaxWire would let one product starve another.              *)
Fairness ==
  /\ WF_vars(ServeRequest) /\ \A p \in Products : SF_vars(\E d \in HeartbeatSteps : SendHeartbeat(p, d))
  /\ SF_vars(HandleText) /\ SF_vars(Tick) /\ SF_vars(Finish) /\ WF_vars(Send) /\ WF_vars(SendFails)
  /\ WF_vars(Connect) /\ WF_vars(SleepEnds) /\ WF_vars(DeadlinePasses)

FairSpec == Spec /\ Fairness

-----------------------------------------------------------------------------
(* Properties                                                              *)

Messages ==
  [type : {"ticker"}, product : Products, seq : 1..MaxSeq, trade : 1..MaxTrades, snapshot : BOOLEAN]
    \cup [type : {"heartbeat"}, product : Products, seq : 1..MaxSeq, trade : 1..MaxTrades]
    \cup [type : {"error", "subscriptions", "malformed"}]

\* The types of the state; the backoff stays within its cap.
TypeOK ==
  /\ trades \in [Products -> 1..MaxTrades] /\ seq \in [Products -> 1..MaxSeq]
  /\ tick_seq \in [Products -> 1..MaxSeq]
  /\ subscribed \in BOOLEAN /\ live \in BOOLEAN /\ wire \in Seq(Messages)
  /\ requests \in Seq({"subscribe", "unsubscribe"}) /\ Len(requests) <= MaxRequests
  /\ last_seq \in [Products -> 0..MaxSeq] /\ last_trade_id \in [Products -> 0..MaxTrades]
  /\ max_emitted_trade_id \in [Products -> 0..MaxTrades] /\ age \in 0..StaleAfter + 1
  /\ phase \in {"connect", "up", "sleep", "finished"} /\ backoff \in 1..MaxBackoff
  /\ got_message \in BOOLEAN /\ unsent \in {<< >>, Resubscription, Tail(Resubscription)} /\ deadline \in {"none", "ahead", "passed"}
  /\ lost_snapshot \in BOOLEAN
  /\ faults \in 0..MaxFaults /\ naps \in Nat
  /\ base \in [Products -> 0..MaxTrades] /\ \A p \in Products : emitted[p] \in Seq(1..MaxTrades)

\* A trade reaches the sink at most once and in order, across snapshots that repeat it,
\* resubscribes and reconnects.
TradesEmittedOnceInOrder ==
  \A p \in Products : \A i, j \in DOMAIN emitted[p] : i < j => emitted[p][i] < emitted[p][j]

\* No silent gap: while a baseline stands, every trade from it to the newest one seen has
\* been emitted.  A hole must have cost the baseline (a resubscribe was sent).
ContiguousSinceBaseline ==
  \A p \in Products : last_trade_id[p] # None =>
     (base[p]..last_trade_id[p]) \subseteq ToSet(emitted[p])

\* min(2^(n-1), 30) s; from MaxDoublings on the power is beyond the cap.
Scheduled(n) == Min2(2^Min2(n - 1, MaxDoublings), MaxBackoff)

\* The n-th sleep in a row without a message in between lasts min(2^(n-1), 30) s; a
\* connection that got a message starts the series again.
BackoffSchedule == phase = "sleep" => backoff = Scheduled(naps)

Reached(p, n) == max_emitted_trade_id[p] >= n \/ phase = "finished"

\* Whatever else is lost, the newest trade reaches the sink in the end, provided the
\* snapshot that answers a subscription arrives.
CaughtUp ==
  \A p \in Products : \A n \in 1..MaxTrades :
     (trades[p] >= n) ~> (Reached(p, n) \/ lost_snapshot)

\* docs/LIVE_FEED.md: a heartbeat whose last_trade_id is ahead of the last ticker leads to
\* a resubscribe, so the newest trade reaches the sink whatever was lost.
CaughtUpAnyway ==
  \A p \in Products : \A n \in 1..MaxTrades : (trades[p] >= n) ~> Reached(p, n)

\* A half-open connection does not last, be it that the watchdog notices the silence or that
\* a send that keeps the watchdog from being polled fails.
HalfOpenDetected == (phase = "up" /\ ~live) ~> (phase # "up")

\* With --seconds N the program ends, in whatever state the connection is, although an awaited
\* send keeps the deadline from being polled.
DeadlineEnds == (deadline # "none") ~> (phase = "finished")

\* session.rs: the snapshot that answers a resubscribe "becomes the new baseline": when
\* it arrives the product has none.
SnapshotBecomesBaseline ==
  (phase = "up" /\ wire # << >> /\ IsSnapshot(Head(wire)))
     => last_seq[Head(wire).product] = None
=============================================================================
