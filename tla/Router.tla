------------------------------- MODULE Router -------------------------------
(***************************************************************************)
(* InvertedTopicRouter of crates/distribution/src/router.rs, shared by the *)
(* threads that serve client connections and the ones that publish.        *)
(*                                                                         *)
(* It has two RwLocks, one on the map of client sessions and one on the    *)
(* map from topics to client bitmaps, and no operation holds both: subscribe *)
(* and unregister_client let go of the first before they take the second,  *)
(* and a dispatch copies the bitmap, lets go of the topics and then holds  *)
(* the clients' read lock while it walks the copy.  A step is one critical *)
(* section, or one client of a dispatch's walk.                            *)
(*                                                                         *)
(* A session is a number, new for each registration, so that two sessions  *)
(* under one client id can be told apart.  A filter is the set of streams  *)
(* it limits (max_spread_bps for quotes, min_notional_usd for trades), and *)
(* an update is within such limits or beyond them.  What the rate limiter  *)
(* makes of an update that passed is left open (see TokenBucket).          *)
(***************************************************************************)
EXTENDS Naturals, FiniteSets, FiniteSetsExt

CONSTANTS Threads,
          Clients,        \* client ids, a set of numbers
          Capacity,       \* MAX_CLIENT_CAPACITY: ids from here on have no bit
          Flags,          \* flags of BBO topics, with 0 for the default topic
          Filters,        \* filters of clients, with {} for the default
          Serialized,     \* whether one connection handler issues all calls for an id
          MaxSessions,    \* bound: registrations
          MaxFiltered     \* bound: sessions with a filter at a time

ASSUME RouterAssumption ==
  /\ Clients \subseteq Nat /\ {Capacity, MaxSessions, MaxFiltered} \subseteq Nat
  /\ 0 \in Flags /\ Flags \subseteq Nat /\ Filters \subseteq SUBSET {"bbo", "trade"}
  /\ Serialized \in BOOLEAN

NoSession == 0
Sessions == 1..MaxSessions

BboTopic(f) == [stream |-> "bbo", flags |-> f]
TradeTopic == [stream |-> "trade", flags |-> 0]
Topics == {BboTopic(f) : f \in Flags} \cup {TradeTopic}

VARIABLES
  clients,           \* per id: the session registered, or NoSession
  next_session,
  state, filter,     \* per session: SessionState, the streams its filter limits
  topics,            \* per topic: the bits set, none where the map has no entry
  pc, arg,           \* per thread: where it is, and the arguments of its call
  left,              \* per dispatching thread: bits of the copied bitmap still to visit
  \* histories
  want,              \* <<id, topic>> subscribed with Ok and neither unsubscribed nor closed
  owed, barred,      \* per dispatching thread: sessions it must and must not serve
  served             \* per dispatching thread: sessions whose filter let it pass

shared == <<clients, next_session, state, filter, topics, want>>
vars == <<shared, pc, arg, left, owed, barred, served>>

NoArg == [client |-> 0]

Init ==
  /\ clients = [c \in Clients |-> NoSession] /\ next_session = 1
  /\ state = [s \in Sessions |-> "disconnected"] /\ filter = [s \in Sessions |-> {}]
  /\ topics = [t \in Topics |-> {}] /\ want = {}
  /\ pc = [h \in Threads |-> "idle"] /\ arg = [h \in Threads |-> NoArg]
  /\ left = [h \in Threads |-> {}]
  /\ owed = [h \in Threads |-> {}] /\ barred = [h \in Threads |-> {}] /\ served = [h \in Threads |-> {}]

-----------------------------------------------------------------------------
\* A thread inside its call for client c.
Busy(h, c) == pc[h] \in {"subscribe", "unregister"} /\ arg[h].client = c

\* A thread starts a call for client c.
Calls(h, c) == /\ pc[h] = "idle"
               /\ Serialized => \A g \in Threads : ~Busy(g, c)

\* clients.write() waits for the dispatches that walk under the read lock.
ClientsWritable == \A h \in Threads : pc[h] # "walk"

\* The dispatches under way owe nothing to a session that stops wanting the topic.
Excuse(s) == owed' = [h \in Threads |-> owed[h] \ {s}]

Goto(h, place, a) == pc' = [pc EXCEPT ![h] = place] /\ arg' = [arg EXCEPT ![h] = a]

RegisterClient(h, c) ==
  /\ Calls(h, c) /\ ClientsWritable
  /\ clients[c] = NoSession /\ next_session <= MaxSessions
  /\ clients' = [clients EXCEPT ![c] = next_session]
  /\ state' = [state EXCEPT ![next_session] = "connected"]
  /\ next_session' = next_session + 1
  /\ UNCHANGED <<filter, topics, want, pc, arg, left, owed, barred, served>>

\* First section of unregister_client: out of the map, closed.
UnregisterClient(h, c) ==
  /\ Calls(h, c) /\ ClientsWritable
  /\ clients[c] # NoSession
  /\ clients' = [clients EXCEPT ![c] = NoSession]
  /\ state' = [state EXCEPT ![clients[c]] = "closed"] /\ filter' = [filter EXCEPT ![clients[c]] = {}]
  /\ Excuse(clients[c])
  /\ want' = {w \in want : w[1] # c}
  /\ Goto(h, "unregister", [client |-> c])
  /\ UNCHANGED <<next_session, topics, left, barred, served>>

\* Mutant: the client's bit is cleared only where it was the last one.
UnregisterTopics_OnlyEmptied(h) ==
  /\ pc[h] = "unregister"
  /\ topics' = [t \in Topics |-> IF topics[t] = {arg[h].client} THEN {} ELSE topics[t]]
  /\ Goto(h, "idle", NoArg)
  /\ UNCHANGED <<clients, next_session, state, filter, want, left, owed, barred, served>>

Remove(bits, c) == bits \ {c}

\* Second section: the bit is cleared in every topic; a topic left empty loses its entry.
UnregisterTopics(h) ==
  /\ pc[h] = "unregister"
  /\ topics' = [t \in Topics |-> Remove(topics[t], arg[h].client)]
  /\ Goto(h, "idle", NoArg)
  /\ UNCHANGED <<clients, next_session, state, filter, want, left, owed, barred, served>>

\* First section of subscribe: the client must be registered, and becomes Subscribed.
Subscribe(h, c, t) ==
  /\ Calls(h, c)
  /\ clients[c] # NoSession
  /\ state' = [state EXCEPT ![clients[c]] = "subscribed"]
  /\ Goto(h, "subscribe", [client |-> c, topic |-> t])
  /\ UNCHANGED <<clients, next_session, filter, topics, want, left, owed, barred, served>>

\* ClientBitmap::insert ignores an id beyond the bitmap.
Insert(bits, c) == IF c < Capacity THEN bits \cup {c} ELSE bits

\* Second section: the bit is set; the call returns Ok.
SubscribeTopic(h) ==
  LET c == arg[h].client
      t == arg[h].topic
  IN  /\ pc[h] = "subscribe"
      /\ topics' = [topics EXCEPT ![t] = Insert(@, c)]
      /\ want' = IF clients[c] = NoSession THEN want ELSE want \cup {<<c, t>>}
      /\ Goto(h, "idle", NoArg)
      /\ UNCHANGED <<clients, next_session, state, filter, left, owed, barred, served>>

\* unsubscribe does not ask whether the client exists.
Unsubscribe(h, c, t) ==
  /\ Calls(h, c)
  /\ topics' = [topics EXCEPT ![t] = Remove(@, c)]
  /\ want' = want \ {<<c, t>>}
  /\ IF clients[c] = NoSession THEN UNCHANGED owed ELSE Excuse(clients[c])
  /\ UNCHANGED <<clients, next_session, state, filter, pc, arg, left, barred, served>>

\* A filter keeps an update from its client when it limits the stream whose limits the
\* update is beyond ("none" for an update within them).
Bars(f, beyond) == beyond \in f

\* A thread that dispatches an update the filter f bars.
Barring(h, f) == pc[h] \in {"copied", "walk"} /\ Bars(f, arg[h].beyond)

\* update_filter: the clients' read lock, then the session's own.
UpdateFilter(h, c, f) ==
  LET s == clients[c]
  IN  /\ Calls(h, c) /\ s # NoSession /\ f # filter[s]
      /\ filter' = [filter EXCEPT ![s] = f]
      /\ Cardinality({x \in Sessions : filter'[x] # {}}) <= MaxFiltered
      /\ owed' = [g \in Threads |-> IF Barring(g, f) THEN owed[g] \ {s} ELSE owed[g]]
      /\ barred' = [g \in Threads |-> IF Barring(g, f) THEN barred[g] ELSE barred[g] \ {s}]
      /\ UNCHANGED <<clients, next_session, state, topics, want, pc, arg, left, served>>

-----------------------------------------------------------------------------
(* dispatch_bbo and dispatch_trade                                         *)

\* Mutant: only the exact topic is looked up.
TopicsOf_ExactOnly(u) == IF u.stream = "trade" THEN {TradeTopic} ELSE {BboTopic(u.flags)}

\* A BBO goes to the topic with its flags and to the default topic, a trade to its topic.
TopicsOf(u) ==
  IF u.stream = "trade" THEN {TradeTopic} ELSE {BboTopic(u.flags), BboTopic(0)}

\* The union of their bitmaps.
Candidates(u) == UNION {topics[t] : t \in TopicsOf(u)}

\* Who ought to hear of it: the subscribers of its stream, with its flags or with none.
Concerns(topic, u) == topic.stream = u.stream /\ topic.flags \in {0, u.flags}

\* Under the topics' read lock the candidate bitmap is copied; an empty one ends the call.
Dispatch(h, u) ==
  /\ pc[h] = "idle"
  /\ left' = [left EXCEPT ![h] = Candidates(u)]
  /\ owed' = [owed EXCEPT ![h] = {s \in {clients[w[1]] : w \in {w \in want : Concerns(w[2], u) /\ w[1] < Capacity}} :
                                    ~Bars(filter[s], u.beyond)}]
  /\ barred' = [barred EXCEPT ![h] = IF left'[h] = {} THEN {} ELSE {s \in Sessions : Bars(filter[s], u.beyond)}]
  /\ served' = [served EXCEPT ![h] = {}]
  /\ IF left'[h] = {} THEN UNCHANGED <<pc, arg>> ELSE Goto(h, "copied", [beyond |-> u.beyond])
  /\ UNCHANGED shared

\* An update no filter could bar is as good as one within the limits.
Beyond(stream) == {"none"} \cup ({stream} \cap UNION Filters)

DispatchBbo(h, flags) ==
  \E beyond \in Beyond("bbo") : Dispatch(h, [stream |-> "bbo", flags |-> flags, beyond |-> beyond])

DispatchTrade(h) ==
  \E beyond \in Beyond("trade") : Dispatch(h, [stream |-> "trade", flags |-> 0, beyond |-> beyond])

\* clients.read() for the whole walk.
LockClients(h) ==
  /\ pc[h] = "copied"
  /\ pc' = [pc EXCEPT ![h] = "walk"]
  /\ UNCHANGED <<shared, arg, left, owed, barred, served>>

IsActive(s) == state[s] \in {"connected", "subscribed"}

\* One candidate, in the order of for_each: unknown or inactive clients are passed over,
\* and those whose filter bars the update; the others get to their limiter and the sink.
Visit(h) ==
  LET c == Min(left[h])
      s == clients[c]
  IN  /\ pc[h] = "walk" /\ left[h] # {}
      /\ left' = [left EXCEPT ![h] = @ \ {c}]
      /\ served' = IF s # NoSession /\ IsActive(s) /\ ~Bars(filter[s], arg[h].beyond)
                   THEN [served EXCEPT ![h] = @ \cup {s}] ELSE served
      /\ UNCHANGED <<shared, pc, arg, owed, barred>>

\* The metrics are returned and the read lock released.
Return(h) ==
  /\ pc[h] = "walk" /\ left[h] = {}
  /\ Goto(h, "idle", NoArg)
  /\ owed' = [owed EXCEPT ![h] = {}] /\ barred' = [barred EXCEPT ![h] = {}]
  /\ served' = [served EXCEPT ![h] = {}]
  /\ UNCHANGED <<shared, left>>

-----------------------------------------------------------------------------
Handler(h) ==
  \/ \E c \in Clients : RegisterClient(h, c) \/ UnregisterClient(h, c)
  \/ \E c \in Clients, t \in Topics : Subscribe(h, c, t) \/ Unsubscribe(h, c, t)
  \/ \E c \in Clients, f \in Filters : UpdateFilter(h, c, f)
  \/ UnregisterTopics(h)
  \/ SubscribeTopic(h)

Publisher(h) ==
  (\E f \in Flags : DispatchBbo(h, f)) \/ DispatchTrade(h) \/ LockClients(h) \/ Visit(h) \/ Return(h)

Next == \E h \in Threads : Handler(h) \/ Publisher(h)

Spec == Init /\ [][Next]_vars

-----------------------------------------------------------------------------
(* Properties                                                              *)

\* The types of the state.
TypeOK ==
  /\ clients \in [Clients -> 0..MaxSessions] /\ next_session \in 1..MaxSessions + 1
  /\ state \in [Sessions -> {"disconnected", "connected", "subscribed", "closed"}]
  /\ topics \in [Topics -> SUBSET {c \in Clients : c < Capacity}]
  /\ pc \in [Threads -> {"idle", "subscribe", "unregister", "copied", "walk"}]
  /\ \A h \in Threads : left[h] \subseteq Clients /\ owed[h] \subseteq Sessions

\* With one connection handler per client id, the inverted index says exactly what the
\* clients asked for: every standing subscription has its bit (up to the capacity), and
\* nothing is left of a closed session for the next client that gets its id.
IndexExact ==
  Serialized => \A c \in Clients : c < Capacity /\ (\A h \in Threads : ~Busy(h, c)) =>
                  \A t \in Topics : c \in topics[t] <=> <<c, t>> \in want

\* A dispatch comes to every client that stays subscribed from the copy of the bitmap to
\* the end of the walk, by its exact or the default topic, and that no filter kept from it;
\* a client whose filter bars the update all that time never gets it.
StandingSubscribersServed ==
  \A h \in Threads : pc[h] = "walk" =>
    /\ left[h] = {} => owed[h] \subseteq served[h]
    /\ barred[h] \cap served[h] = {}

\* router.rs: unregister_client removes "all its topic subscriptions": once no call is
\* under way for it, an id that is not registered has no bit in any topic.
UnregisterRemovesAll ==
  \A c \in Clients : clients[c] = NoSession /\ (\A h \in Threads : ~Busy(h, c)) =>
     \A t \in Topics : c \notin topics[t]
=============================================================================
