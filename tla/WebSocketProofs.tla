--------------------------- MODULE WebSocketProofs --------------------------
(***************************************************************************)
(* Proofs about Router and the WebSocket handlers that use it, for any     *)
(* number of threads, clients, topics and sessions: with one connection    *)
(* handler per client id the index is exact, no dispatch passes over a     *)
(* standing subscriber, and the answers sent are true.                     *)
(***************************************************************************)
EXTENDS WebSocket, FiniteSetTheorems, TLAPS

-----------------------------------------------------------------------------
(* The walk of a bitmap                                                    *)

\* A non-empty set of numbers has a least element: the finitely many initial segments
\* below one of its members are well-founded under inclusion.
LEMMA LeastNumber ==
  ASSUME NEW S \in SUBSET Nat, S # {}
  PROVE  \E x \in S : \A y \in S : x <= y
<1>1. PICK k \in S : TRUE
  OBVIOUS
<1> DEFINE below == {n \in S : n <= k}
           T == {0..n : n \in below}
<1>2. IsFiniteSet(0..k)
  BY FS_Interval
<1>3. T \in SUBSET SUBSET (0..k) /\ T # {}
  BY <1>1
<1>4. PICK x \in T : \A y \in T : ~(<<y, x>> \in StrictSubsetOrdering(0..k))
  <2>1. IsWellFoundedOn(StrictSubsetOrdering(0..k), SUBSET (0..k))
    BY <1>2, FS_StrictSubsetOrderingWellFounded, FS_FiniteSubsetsOfFinite
  <2> HIDE DEF T
  <2> QED BY <1>3, <2>1, WFMin
<1>5. PICK n \in below : x = 0..n
  BY <1>4
<1>6. ASSUME NEW m \in S, m < n PROVE FALSE
  <2>1. 0..m \in T /\ 0..m \subseteq 0..n /\ 0..m # 0..n
    BY <1>1, <1>6
  <2>2. <<0..m, x>> \in StrictSubsetOrdering(0..k)
    BY <2>1, <1>3, <1>5, <1>4 DEF StrictSubsetOrdering
  <2> QED BY <2>1, <2>2, <1>4
<1> QED BY <1>5, <1>6

\* for_each comes to a bit that is set.
LEMMA NextCandidate ==
  ASSUME NEW S \in SUBSET Nat, S # {}
  PROVE  Min(S) \in S
BY LeastNumber DEF Min

-----------------------------------------------------------------------------
(* The router's inductive invariant                                        *)

Types ==
  /\ TypeOK
  /\ filter \in [Sessions -> SUBSET {"bbo", "trade"}]
  /\ want \subseteq Clients \X Topics
  /\ DOMAIN arg = Threads
  /\ left \in [Threads -> SUBSET Clients] /\ owed \in [Threads -> SUBSET Sessions]
  /\ barred \in [Threads -> SUBSET Sessions] /\ served \in [Threads -> SUBSET Sessions]

\* A subscription is of a client to a topic.
LEMMA WantParts ==
  ASSUME Types, NEW w \in want
  PROVE  \E d \in Clients, t \in Topics : w = <<d, t>>
<1>1. w \in Clients \X Topics
  BY DEF Types
<1> QED BY <1>1, SMT

\* A call's arguments are a client and a topic.
CallsInv ==
  \A h \in Threads : /\ pc[h] \in {"subscribe", "unregister"} => arg[h].client \in Clients
                     /\ pc[h] = "subscribe" => arg[h].topic \in Topics

\* A registered session is active and stands under one id; a session not yet handed out
\* has no filter; only registered clients have subscriptions.
SessionInv ==
  /\ \A c \in Clients : clients[c] # NoSession => clients[c] < next_session /\ IsActive(clients[c])
  /\ \A c, d \in Clients : clients[c] = clients[d] /\ clients[c] # NoSession => c = d
  /\ \A s \in Sessions : s >= next_session => filter[s] = {}
  /\ \A c \in Clients, t \in Topics : <<c, t>> \in want => clients[c] # NoSession

\* At most one call is under way for an id, and between its two sections the id stays
\* registered (subscribe) or free (unregister_client).
SerialInv ==
  /\ \A g, h \in Threads, c \in Clients : Busy(g, c) /\ Busy(h, c) => g = h
  /\ \A h \in Threads : /\ pc[h] = "subscribe" => clients[arg[h].client] # NoSession
                        /\ pc[h] = "unregister" => clients[arg[h].client] = NoSession

\* The index is exact for every id that is not in the middle of unregister_client.
IndexInv ==
  \A c \in Clients :
    c < Capacity /\ (\A h \in Threads : ~(pc[h] = "unregister" /\ arg[h].client = c)) =>
      \A t \in Topics : c \in topics[t] <=> <<c, t>> \in want

\* A dispatch has served whom it owes or has them still ahead of it; whom it must not serve
\* is still barred, or gone for good.
DispatchInv ==
  \A h \in Threads : pc[h] \in {"copied", "walk"} =>
    /\ \A s \in owed[h] : /\ s \in served[h] \/ \E c \in left[h] : clients[c] = s
                          /\ ~Bars(filter[s], arg[h].beyond)
    /\ \A s \in barred[h] : /\ s \notin served[h] /\ s < next_session
                            /\ Bars(filter[s], arg[h].beyond) \/ \A c \in Clients : clients[c] # s

IndInv == Types /\ CallsInv /\ SessionInv /\ SerialInv /\ IndexInv /\ DispatchInv

\* It holds of a new router.
LEMMA InitIndInv == Init => IndInv
<1> SUFFICES ASSUME Init PROVE IndInv
  OBVIOUS
<1> USE RouterAssumption DEF Init, NoSession, Sessions
<1>1. Types
  BY DEF Types, TypeOK
<1>2. CallsInv /\ SessionInv /\ SerialInv /\ IndexInv /\ DispatchInv
  BY DEF CallsInv, SessionInv, SerialInv, IndexInv, DispatchInv, Busy
<1> QED BY <1>1, <1>2 DEF IndInv

\* The updates a dispatch may be called with.
Updates == [stream : {"bbo"}, flags : Flags, beyond : Beyond("bbo")]
             \cup [stream : {"trade"}, flags : {0}, beyond : Beyond("trade")]

\* Every step of every thread preserves it, when one handler serves an id.
LEMMA NextIndInv ==
  ASSUME Serialized, IndInv, [Next]_vars
  PROVE  IndInv'
<1> USE RouterAssumption DEF IndInv, TypeOK, NoSession, Sessions
<1>1. ASSUME NEW h \in Threads, NEW c \in Clients, RegisterClient(h, c) PROVE IndInv'
  <2>1. Types'
    BY <1>1 DEF Types, RegisterClient, Calls, ClientsWritable
  <2>2. CallsInv'
    BY <1>1 DEF CallsInv, Types, RegisterClient, Calls, ClientsWritable
  <2>3. SessionInv'
    BY <1>1 DEF SessionInv, IsActive, Types, RegisterClient, Calls, ClientsWritable
  <2>4. SerialInv'
    BY <1>1 DEF SerialInv, CallsInv, Busy, Types, RegisterClient, Calls, ClientsWritable
  <2>5. IndexInv'
    BY <1>1 DEF IndexInv, Types, RegisterClient, Calls, ClientsWritable
  <2>6. DispatchInv'
    BY <1>1 DEF DispatchInv, Bars, Types, RegisterClient, Calls, ClientsWritable
  <2> QED BY <2>1, <2>2, <2>3, <2>4, <2>5, <2>6
<1>2. ASSUME NEW h \in Threads, NEW c \in Clients, UnregisterClient(h, c) PROVE IndInv'
  <2>1. Types'
    BY <1>2 DEF Types, UnregisterClient, Calls, ClientsWritable, Goto, Excuse
  <2>2. CallsInv'
    BY <1>2 DEF CallsInv, Types, UnregisterClient, Calls, ClientsWritable, Goto, Excuse
  <2>3. SessionInv'
    BY <1>2 DEF SessionInv, IsActive, Types, UnregisterClient, Calls, ClientsWritable, Goto, Excuse
  <2>4. SerialInv'
    BY <1>2 DEF SerialInv, CallsInv, Busy, Types, UnregisterClient, Calls, ClientsWritable, Goto, Excuse
  <2>5. IndexInv'
    BY <1>2 DEF IndexInv, Types, UnregisterClient, Calls, ClientsWritable, Goto, Excuse
  <2>6. DispatchInv'
    <3> SUFFICES ASSUME NEW g \in Threads, pc'[g] \in {"copied", "walk"}
                 PROVE  /\ \A s \in owed'[g] : /\ s \in served'[g] \/ \E d \in left'[g] : clients'[d] = s
                                               /\ ~Bars(filter'[s], arg'[g].beyond)
                        /\ \A s \in barred'[g] : /\ s \notin served'[g] /\ s < next_session'
                                                 /\ \/ Bars(filter'[s], arg'[g].beyond)
                                                    \/ \A d \in Clients : clients'[d] # s
      BY DEF DispatchInv
    <3>1. /\ pc[g] = "copied" /\ arg'[g] = arg[g] /\ owed'[g] = owed[g] \ {clients[c]} /\ clients[c] \in Sessions
          /\ UNCHANGED <<left, barred, served, next_session>>
          /\ \A d \in Clients : clients'[d] = IF d = c THEN 0 ELSE clients[d]
          /\ \A s \in Sessions : filter'[s] = IF s = clients[c] THEN {} ELSE filter[s]
      BY <1>2 DEF UnregisterClient, ClientsWritable, Goto, Excuse, Types, Calls
    <3>2. ASSUME NEW s \in owed[g], s # clients[c]
          PROVE  /\ s \in served[g] \/ \E d \in left[g] : clients'[d] = s
                 /\ ~Bars(filter'[s], arg[g].beyond)
      BY <3>1, <3>2 DEF DispatchInv, Types, Bars
    <3>3. ASSUME NEW s \in barred[g]
          PROVE  /\ s \notin served[g] /\ s < next_session
                 /\ Bars(filter'[s], arg[g].beyond) \/ \A d \in Clients : clients'[d] # s
      <4>1. CASE s = clients[c]
        BY <3>1, <4>1 DEF DispatchInv, SessionInv, Types
      <4>2. CASE s # clients[c]
        <5>1. /\ s \notin served[g] /\ s < next_session /\ s \in Sessions
              /\ Bars(filter[s], arg[g].beyond) \/ \A d \in Clients : clients[d] # s
          BY <3>1 DEF DispatchInv, Types
        <5> QED BY <3>1, <4>2, <5>1 DEF Bars
      <4> QED BY <4>1, <4>2
    <3> QED BY <3>1, <3>2, <3>3
  <2> QED BY <2>1, <2>2, <2>3, <2>4, <2>5, <2>6
<1>3. ASSUME NEW h \in Threads, NEW c \in Clients, NEW t \in Topics, Subscribe(h, c, t) PROVE IndInv'
  <2>1. Types'
    BY <1>3 DEF Types, Subscribe, Calls, Goto
  <2>2. CallsInv'
    BY <1>3 DEF CallsInv, Types, Subscribe, Calls, Goto
  <2>3. SessionInv'
    BY <1>3 DEF SessionInv, IsActive, Types, Subscribe, Calls, Goto
  <2>4. SerialInv'
    BY <1>3 DEF SerialInv, CallsInv, Busy, Types, Subscribe, Calls, Goto
  <2>5. IndexInv'
    BY <1>3 DEF IndexInv, Types, Subscribe, Calls, Goto
  <2>6. DispatchInv'
    BY <1>3 DEF DispatchInv, Bars, Types, Subscribe, Calls, Goto
  <2> QED BY <2>1, <2>2, <2>3, <2>4, <2>5, <2>6
<1>4. ASSUME NEW h \in Threads, NEW c \in Clients, NEW t \in Topics, Unsubscribe(h, c, t) PROVE IndInv'
  <2>1. Types'
    BY <1>4 DEF Types, Unsubscribe, Calls, Excuse, Remove
  <2>2. CallsInv'
    BY <1>4 DEF CallsInv, Types, Unsubscribe, Calls, Excuse, Remove
  <2>3. SessionInv'
    BY <1>4 DEF SessionInv, IsActive, Types, Unsubscribe, Calls, Excuse, Remove
  <2>4. SerialInv'
    BY <1>4 DEF SerialInv, CallsInv, Busy, Types, Unsubscribe, Calls, Excuse, Remove
  <2>5. IndexInv'
    <3>1. ASSUME NEW d \in Clients, NEW tt \in Topics
          PROVE  d \in topics'[tt] <=> d \in topics[tt] /\ ~(d = c /\ tt = t)
      BY <1>4 DEF Unsubscribe, Remove, Types
    <3>2. ASSUME NEW d \in Clients, NEW tt \in Topics
          PROVE  <<d, tt>> \in want' <=> <<d, tt>> \in want /\ ~(d = c /\ tt = t)
      BY <1>4 DEF Unsubscribe
    <3> QED BY <1>4, <3>1, <3>2 DEF Unsubscribe, IndexInv
  <2>6. DispatchInv'
    BY <1>4 DEF DispatchInv, Bars, Types, Unsubscribe, Calls, Excuse, Remove
  <2> QED BY <2>1, <2>2, <2>3, <2>4, <2>5, <2>6
<1>5. ASSUME NEW h \in Threads, NEW c \in Clients, NEW f \in Filters, UpdateFilter(h, c, f) PROVE IndInv'
  <2>1. Types'
    BY <1>5 DEF Types, UpdateFilter, Calls, Barring
  <2>2. CallsInv'
    BY <1>5 DEF CallsInv, Types, UpdateFilter, Calls, Barring
  <2>3. SessionInv'
    BY <1>5 DEF SessionInv, IsActive, Types, UpdateFilter, Calls, Barring
  <2>4. SerialInv'
    BY <1>5 DEF SerialInv, CallsInv, Busy, Types, UpdateFilter, Calls, Barring
  <2>5. IndexInv'
    BY <1>5 DEF IndexInv, Types, UpdateFilter, Calls, Barring
  <2>6. DispatchInv'
    <3> DEFINE s0 == clients[c]
    <3>1. /\ s0 \in Sessions /\ UNCHANGED <<pc, arg, left, served, clients, next_session>>
          /\ \A s \in Sessions : filter'[s] = IF s = s0 THEN f ELSE filter[s]
          /\ \A g \in Threads : owed'[g] = IF Barring(g, f) THEN owed[g] \ {s0} ELSE owed[g]
          /\ \A g \in Threads : barred'[g] = IF Barring(g, f) THEN barred[g] ELSE barred[g] \ {s0}
      BY <1>5 DEF UpdateFilter, Types
    <3> HIDE DEF s0
    <3>2. ASSUME NEW g \in Threads, pc[g] \in {"copied", "walk"}, NEW s \in owed'[g]
          PROVE  /\ s \in owed[g] /\ ~Bars(filter'[s], arg[g].beyond)
      <4>1. s \in owed[g] /\ (Barring(g, f) => s # s0)
        BY <3>1, <3>2, ZenonT(30)
      <4>2. s \in Sessions /\ ~Bars(filter[s], arg[g].beyond)
        BY <3>2, <4>1 DEF DispatchInv, Types
      <4>3. CASE s = s0
        BY <3>1, <3>2, <4>1, <4>2, <4>3 DEF Barring
      <4>4. CASE s # s0
        BY <3>1, <4>1, <4>2, <4>4 DEF Bars
      <4> QED BY <4>3, <4>4
    <3>3. ASSUME NEW g \in Threads, pc[g] \in {"copied", "walk"}, NEW s \in barred'[g]
          PROVE  /\ s \in barred[g]
                 /\ Bars(filter'[s], arg[g].beyond) \/ \A d \in Clients : clients[d] # s
      <4>1. s \in barred[g] /\ (s = s0 => Barring(g, f))
        <5>1. CASE Barring(g, f)
          BY <3>1, <3>3, <5>1
        <5>2. CASE ~Barring(g, f)
          <6>1. barred'[g] = barred[g] \ {s0}
            BY <3>1, <5>2
          <6> QED BY <3>3, <6>1, <5>2
        <5> QED BY <5>1, <5>2
      <4>2. /\ s \in Sessions
            /\ Bars(filter[s], arg[g].beyond) \/ \A d \in Clients : clients[d] # s
        BY <3>3, <4>1 DEF DispatchInv, Types
      <4>3. CASE s = s0
        BY <3>1, <3>3, <4>1, <4>2, <4>3 DEF Barring
      <4>4. CASE s # s0
        BY <3>1, <4>1, <4>2, <4>4 DEF Bars
      <4> QED BY <4>3, <4>4
    <3> QED BY <3>1, <3>2, <3>3 DEF DispatchInv
  <2> QED BY <2>1, <2>2, <2>3, <2>4, <2>5, <2>6
<1>6. ASSUME NEW h \in Threads, UnregisterTopics(h) PROVE IndInv'
  <2>1. Types'
    BY <1>6 DEF Types, UnregisterTopics, Goto, Remove
  <2>2. CallsInv'
    BY <1>6 DEF CallsInv, Types, UnregisterTopics, Goto, Remove
  <2>3. SessionInv'
    BY <1>6 DEF SessionInv, IsActive, Types, UnregisterTopics, Goto, Remove
  <2>4. SerialInv'
    BY <1>6 DEF SerialInv, CallsInv, Busy, Types, UnregisterTopics, Goto, Remove
  <2>5. IndexInv'
    <3> DEFINE k == arg[h].client
    <3>1. /\ k \in Clients /\ clients[k] = NoSession /\ pc[h] = "unregister"
          /\ \A t \in Topics : <<k, t>> \notin want
      BY <1>6 DEF UnregisterTopics, CallsInv, SerialInv, SessionInv
    <3>2. \A t \in Topics, d \in Clients : d \in topics'[t] <=> d \in topics[t] /\ d # k
      BY <1>6 DEF UnregisterTopics, Remove
    <3>3. \A g \in Threads : g # h => pc'[g] = pc[g] /\ arg'[g] = arg[g]
      BY <1>6 DEF UnregisterTopics, Goto, Types
    <3> HIDE DEF k
    <3>4. ASSUME NEW d \in Clients, d < Capacity, d # k,
                 \A g \in Threads : ~(pc'[g] = "unregister" /\ arg'[g].client = d)
          PROVE  \A t \in Topics : d \in topics[t] <=> <<d, t>> \in want
      <4>1. \A g \in Threads : ~(pc[g] = "unregister" /\ arg[g].client = d)
        BY <3>3, <3>4 DEF k
      <4> QED BY <3>4, <4>1 DEF IndexInv
    <3> QED BY <1>6, <3>1, <3>2, <3>4 DEF UnregisterTopics, IndexInv
  <2>6. DispatchInv'
    BY <1>6 DEF DispatchInv, Bars, Types, UnregisterTopics, Goto, Remove
  <2> QED BY <2>1, <2>2, <2>3, <2>4, <2>5, <2>6
<1>7. ASSUME NEW h \in Threads, SubscribeTopic(h) PROVE IndInv'
  <2>1. Types'
    BY <1>7 DEF Types, CallsInv, SubscribeTopic, Goto, Insert
  <2>2. CallsInv'
    BY <1>7 DEF CallsInv, Types, SubscribeTopic, Goto, Insert
  <2>3. SessionInv'
    BY <1>7 DEF SessionInv, IsActive, Types, SubscribeTopic, Goto, Insert
  <2>4. SerialInv'
    BY <1>7 DEF SerialInv, CallsInv, Busy, Types, SubscribeTopic, Goto, Insert
  <2>5. IndexInv'
    <3> DEFINE k == arg[h].client
               t == arg[h].topic
    <3>1. k \in Clients /\ t \in Topics /\ clients[k] # NoSession /\ pc[h] = "subscribe"
      BY <1>7 DEF SubscribeTopic, CallsInv, SerialInv
    <3>2. ASSUME NEW d \in Clients, NEW tt \in Topics, d < Capacity
          PROVE  d \in topics'[tt] <=> d \in topics[tt] \/ (d = k /\ tt = t)
      BY <1>7, <3>1, <3>2 DEF SubscribeTopic, Insert, Types
    <3>3. ASSUME NEW d \in Clients, NEW tt \in Topics
          PROVE  <<d, tt>> \in want' <=> <<d, tt>> \in want \/ (d = k /\ tt = t)
      BY <1>7, <3>1 DEF SubscribeTopic
    <3>4. \A g \in Threads : pc[g] = "unregister" => pc'[g] = "unregister" /\ arg'[g] = arg[g]
      BY <1>7, <3>1 DEF SubscribeTopic, Goto, Types
    <3> HIDE DEF k, t
    <3> QED BY <3>2, <3>3, <3>4 DEF IndexInv
  <2>6. DispatchInv'
    BY <1>7 DEF DispatchInv, Bars, Types, SubscribeTopic, Goto, Insert
  <2> QED BY <2>1, <2>2, <2>3, <2>4, <2>5, <2>6
<1>8. ASSUME NEW h \in Threads, NEW u \in Updates, Dispatch(h, u) PROVE IndInv'
  <2>1. Types'
    <3>1. left'[h] \subseteq Clients
      <4>1. TopicsOf(u) \subseteq Topics
        <5>1. u.flags \in Flags /\ 0 \in Flags
          BY <1>8 DEF Updates
        <5> QED BY <5>1 DEF TopicsOf, Topics
      <4>2. Candidates(u) \subseteq Clients
        BY <4>1 DEF Candidates, Types
      <4> QED BY <1>8, <4>2 DEF Dispatch, Types
    <3>2. ASSUME NEW w \in want PROVE clients[w[1]] \in Sessions
      <4>1. PICK d \in Clients, t \in Topics : w = <<d, t>>
        BY WantParts
      <4>2. clients[d] # NoSession /\ clients[d] \in 0..MaxSessions
        BY <4>1 DEF SessionInv, Types
      <4> QED BY <4>1, <4>2
    <3>3. owed'[h] \subseteq Sessions /\ barred'[h] \subseteq Sessions
      BY <1>8, <3>2 DEF Dispatch, Types
    <3> QED BY <1>8, <3>1, <3>3 DEF Dispatch, Types, Goto, shared
  <2>2. CallsInv'
    BY <1>8 DEF CallsInv, Types, Dispatch, Goto, shared
  <2>3. SessionInv'
    BY <1>8 DEF SessionInv, IsActive, Types, Dispatch, Goto, shared
  <2>4. SerialInv'
    <3>1. \A g \in Threads : pc'[g] \in {"subscribe", "unregister"} => pc[g] = pc'[g] /\ arg'[g] = arg[g]
      BY <1>8 DEF Dispatch, Goto, Types
    <3> QED BY <1>8, <3>1 DEF Dispatch, shared, SerialInv, Busy, Types
  <2>5. IndexInv'
    <3>1. \A g \in Threads : pc[g] = "unregister" => pc'[g] = "unregister" /\ arg'[g] = arg[g]
      BY <1>8 DEF Dispatch, Goto, Types
    <3>2. UNCHANGED <<topics, want>>
      BY <1>8 DEF Dispatch, shared
    <3> QED BY <3>1, <3>2 DEF IndexInv
  <2>6. DispatchInv'
    <3>1. /\ UNCHANGED <<clients, next_session, filter>>
          /\ \A g \in Threads : g # h => /\ pc'[g] = pc[g] /\ arg'[g] = arg[g] /\ left'[g] = left[g]
                                        /\ owed'[g] = owed[g] /\ barred'[g] = barred[g] /\ served'[g] = served[g]
      BY <1>8 DEF Dispatch, Goto, shared, Types
    <3>2. ASSUME pc'[h] \in {"copied", "walk"}
          PROVE  /\ arg'[h] = [beyond |-> u.beyond] /\ left'[h] = Candidates(u) /\ served'[h] = {}
                 /\ owed'[h] = {s \in {clients[w[1]] : w \in {w \in want : Concerns(w[2], u) /\ w[1] < Capacity}} :
                                    ~Bars(filter[s], u.beyond)}
                 /\ barred'[h] = {s \in Sessions : Bars(filter[s], u.beyond)}
      BY <1>8, <3>2 DEF Dispatch, Goto, Types
    <3>3. ASSUME pc'[h] \in {"copied", "walk"}, NEW s \in owed'[h]
          PROVE  (\E d \in left'[h] : clients[d] = s) /\ ~Bars(filter[s], u.beyond)
      <4>1. PICK w \in want : Concerns(w[2], u) /\ w[1] < Capacity /\ s = clients[w[1]]
        BY <3>2, <3>3
      <4>2. PICK d \in Clients, t \in Topics : w = <<d, t>>
        BY WantParts
      <4>3. d \in topics[t]
        <5>1. clients[d] # NoSession
          BY <4>2 DEF SessionInv
        <5> QED BY <4>1, <4>2, <5>1 DEF IndexInv, SerialInv
      <4>4. t \in TopicsOf(u)
        BY <1>8, <4>1, <4>2 DEF Concerns, TopicsOf, Updates, Topics, BboTopic, TradeTopic
      <4>5. d \in Candidates(u)
        BY <4>3, <4>4 DEF Candidates
      <4> QED BY <3>2, <3>3, <4>1, <4>2, <4>5
    <3>4. ASSUME pc'[h] \in {"copied", "walk"}, NEW s \in barred'[h]
          PROVE  s \notin served'[h] /\ s < next_session /\ Bars(filter[s], u.beyond)
      BY <3>2, <3>4 DEF SessionInv, Bars, Types
    <3> QED BY <3>1, <3>2, <3>3, <3>4 DEF DispatchInv
  <2> QED BY <2>1, <2>2, <2>3, <2>4, <2>5, <2>6
<1>9. ASSUME NEW h \in Threads, LockClients(h) PROVE IndInv'
  <2>1. Types'
    BY <1>9 DEF Types, LockClients, shared
  <2>2. CallsInv'
    BY <1>9 DEF CallsInv, Types, LockClients, shared
  <2>3. SessionInv'
    BY <1>9 DEF SessionInv, IsActive, Types, LockClients, shared
  <2>4. SerialInv'
    BY <1>9 DEF SerialInv, CallsInv, Busy, Types, LockClients, shared
  <2>5. IndexInv'
    BY <1>9 DEF IndexInv, Types, LockClients, shared
  <2>6. DispatchInv'
    BY <1>9 DEF DispatchInv, Bars, Types, LockClients, shared
  <2> QED BY <2>1, <2>2, <2>3, <2>4, <2>5, <2>6
<1>10. ASSUME NEW h \in Threads, Visit(h) PROVE IndInv'
  <2>1. Types'
    <3>1. Min(left[h]) \in left[h]
      <4>1. left[h] \in SUBSET Nat /\ left[h] # {}
        BY <1>10 DEF Visit, Types
      <4> QED BY <4>1, NextCandidate
    <3>2. clients[Min(left[h])] \in 0..MaxSessions /\ left'[h] \subseteq Clients
      BY <1>10, <3>1 DEF Visit, Types
    <3>3. served' \in [Threads -> SUBSET Sessions]
      BY <1>10, <3>2 DEF Visit, Types
    <3> QED BY <1>10, <3>1, <3>2, <3>3 DEF Visit, shared, Types
  <2>2. CallsInv'
    BY <1>10 DEF CallsInv, Types, Visit, shared
  <2>3. SessionInv'
    BY <1>10 DEF SessionInv, IsActive, Types, Visit, shared
  <2>4. SerialInv'
    BY <1>10 DEF SerialInv, CallsInv, Busy, Types, Visit, shared
  <2>5. IndexInv'
    BY <1>10 DEF IndexInv, Types, Visit, shared
  <2>6. DispatchInv'
    <3> DEFINE c == Min(left[h])
               sc == clients[c]
               passes == sc # NoSession /\ IsActive(sc) /\ ~Bars(filter[sc], arg[h].beyond)
    <3>1. c \in left[h] /\ c \in Clients
      <4>1. left[h] \in SUBSET Nat /\ left[h] \subseteq Clients /\ left[h] # {}
        BY <1>10 DEF Visit, Types
      <4> QED BY <4>1, NextCandidate
    <3>2. /\ UNCHANGED <<clients, next_session, filter, pc, arg, owed, barred>>
          /\ \A g \in Threads : g # h => left'[g] = left[g] /\ served'[g] = served[g]
          /\ left'[h] = left[h] \ {c} /\ served'[h] = IF passes THEN served[h] \cup {sc} ELSE served[h]
      BY <1>10 DEF Visit, shared, Types
    <3> HIDE DEF c
    <3>3. ASSUME pc[h] \in {"copied", "walk"}, NEW s \in owed[h]
          PROVE  s \in served'[h] \/ \E d \in left'[h] : clients[d] = s
      <4>1. CASE s = sc
        <5>1. passes
          BY <3>1, <3>3, <4>1 DEF DispatchInv, SessionInv, Types
        <5> QED BY <3>2, <4>1, <5>1
      <4>2. CASE s # sc
        BY <3>2, <3>3, <4>2 DEF DispatchInv
      <4> QED BY <4>1, <4>2
    <3>4. ASSUME pc[h] \in {"copied", "walk"}, NEW s \in barred[h]
          PROVE  s \notin served'[h]
      BY <3>1, <3>2, <3>4 DEF DispatchInv
    <3>5. ASSUME NEW g \in Threads, g # h, pc[g] \in {"copied", "walk"}
          PROVE  /\ \A s \in owed[g] : /\ s \in served'[g] \/ \E d \in left'[g] : clients[d] = s
                                       /\ ~Bars(filter[s], arg[g].beyond)
                 /\ \A s \in barred[g] : /\ s \notin served'[g] /\ s < next_session
                                         /\ \/ Bars(filter[s], arg[g].beyond)
                                            \/ \A d \in Clients : clients[d] # s
      BY <3>2, <3>5 DEF DispatchInv
    <3>6. ASSUME pc[h] \in {"copied", "walk"}
          PROVE  /\ \A s \in owed[h] : ~Bars(filter[s], arg[h].beyond)
                 /\ \A s \in barred[h] : /\ s < next_session
                                         /\ \/ Bars(filter[s], arg[h].beyond)
                                            \/ \A d \in Clients : clients[d] # s
      BY <3>6 DEF DispatchInv
    <3>7. \A s, b : Bars(filter'[s], b) <=> Bars(filter[s], b)
      BY <3>2
    <3> HIDE DEF sc, passes
    <3> QED BY <3>2, <3>3, <3>4, <3>5, <3>6, <3>7 DEF DispatchInv, Bars
  <2> QED BY <2>1, <2>2, <2>3, <2>4, <2>5, <2>6
<1>11. ASSUME NEW h \in Threads, Return(h) PROVE IndInv'
  <2>1. Types'
    BY <1>11 DEF Types, Return, Goto, shared
  <2>2. CallsInv'
    BY <1>11 DEF CallsInv, Types, Return, Goto, shared
  <2>3. SessionInv'
    BY <1>11 DEF SessionInv, IsActive, Types, Return, Goto, shared
  <2>4. SerialInv'
    BY <1>11 DEF SerialInv, CallsInv, Busy, Types, Return, Goto, shared
  <2>5. IndexInv'
    BY <1>11 DEF IndexInv, Types, Return, Goto, shared
  <2>6. DispatchInv'
    BY <1>11 DEF DispatchInv, Bars, Types, Return, Goto, shared
  <2> QED BY <2>1, <2>2, <2>3, <2>4, <2>5, <2>6
<1>12. CASE UNCHANGED vars
  BY <1>12 DEF vars, shared, Types, CallsInv, SessionInv, SerialInv, IndexInv, DispatchInv, Busy, IsActive
<1>13. ASSUME NEW h \in Threads, Publisher(h) PROVE IndInv'
  <2>1. ASSUME NEW f \in Flags, DispatchBbo(h, f) PROVE IndInv'
    BY <1>8, <2>1 DEF DispatchBbo, Updates
  <2>2. CASE DispatchTrade(h)
    BY <1>8, <2>2 DEF DispatchTrade, Updates
  <2> QED BY <1>9, <1>10, <1>11, <1>13, <2>1, <2>2 DEF Publisher
<1>14. ASSUME NEW h \in Threads, Handler(h) PROVE IndInv'
  BY <1>1, <1>2, <1>3, <1>4, <1>5, <1>6, <1>7, <1>14 DEF Handler
<1> QED BY <1>12, <1>13, <1>14 DEF Next

-----------------------------------------------------------------------------
(* The router                                                              *)

\* What every state of the router satisfies, when one handler serves an id.
THEOREM Invariance ==
  ASSUME Serialized
  PROVE  Spec => []IndInv
BY InitIndInv, NextIndInv, PTL DEF Spec

\* Between the calls for an id, its bits in the topic map are its standing subscriptions:
\* subscribe, unsubscribe and unregister_client, each in two critical sections of two
\* locks, leave no bit behind and lose none.
THEOREM Index == Spec => []IndexExact
<1>1. CASE Serialized
  <2>1. IndInv => IndexExact
    BY DEF IndInv, IndexInv, IndexExact, Busy
  <2> QED BY <1>1, <2>1, Invariance, PTL
<1>2. CASE ~Serialized
  <2>1. IndexExact
    BY <1>2 DEF IndexExact
  <2> QED BY <2>1, PTL
<1> QED BY <1>1, <1>2

\* dispatch_bbo and dispatch_trade walk a copy of the bitmap while clients come, go and
\* change their filters: they serve whoever stays subscribed, and never whoever stays barred.
THEOREM Dispatches ==
  ASSUME Serialized
  PROVE  Spec => []StandingSubscribersServed
<1>1. IndInv => StandingSubscribersServed
  BY DEF IndInv, DispatchInv, StandingSubscribersServed
<1> QED BY <1>1, Invariance, PTL

-----------------------------------------------------------------------------
(* The handlers                                                            *)

\* A command names a topic of the router, an unsubscribe too once its flags are dropped.
LEMMA CommandTopic ==
  ASSUME NEW f \in Frames, f.op = 1, Parsed(f.cmd).action \in {"subscribe", "unsubscribe"}
  PROVE  Parsed(f.cmd).topic \in Topics
<1>1. PICK cmd \in Commands : f = Frame(1, 80, cmd) \/ f.cmd = NoCmd
  BY DEF Frames, Whole, Broken, Frame, Commands
<1>2. f.cmd # NoCmd
  BY DEF Parsed, NoCmd
<1>3. f.cmd = cmd
  BY <1>1, <1>2 DEF Frame
<1>4. PICK t \in Topics : \/ cmd = [action |-> "subscribe", topic |-> t]
                          \/ cmd = [action |-> "unsubscribe", topic |-> t]
  BY <1>3 DEF Commands, Parsed, NoCmd
<1>5. [t EXCEPT !.flags = 0] \in Topics
  BY RouterAssumption DEF Topics, BboTopic, TradeTopic
<1> QED BY <1>3, <1>4, <1>5 DEF Parsed

\* Every step of a handler is a step of the router or leaves it alone.
LEMMA HandlersUseRouter == [WsNext]_wsVars => [Next]_vars
<1> SUFFICES ASSUME WsNext PROVE [Next]_vars
  BY DEF wsVars
<1>1. PICK h \in Threads :
        \/ \E c \in Clients : Connect(h, c) \/ Disconnect(h, c)
        \/ \E c \in Clients : Ready(h, c) /\ \E f \in Frames : Inbound(h, c, f)
        \/ RouterSection(h) \/ SendResponse(h) \/ BroadcastBbo(h) \/ BroadcastTrade(h) \/ SetFilter(h) \/ Delivery(h)
  BY DEF WsNext
<1>2. ASSUME NEW c \in Clients, Connect(h, c) \/ Disconnect(h, c)
      PROVE  [Next]_vars
  BY <1>2 DEF Connect, Disconnect, Next, Handler
<1>3. ASSUME NEW c \in Clients, NEW f \in Frames, Inbound(h, c, f)
      PROVE  [Next]_vars
  <2>1. CASE Ignored(h, c, f) \/ OnPing(h, c, f) \/ OnClose(h, c, f)
    BY <2>1 DEF Ignored, OnPing, OnClose, Next, Handler, wsVars
  <2>2. CASE OnSubscribe(h, c, f)
    <3>1. Parsed(f.cmd).topic \in Topics
      BY <2>2, CommandTopic DEF OnSubscribe
    <3> QED BY <2>2, <3>1 DEF OnSubscribe, Next, Handler
  <2>3. CASE OnUnsubscribe(h, c, f)
    <3>1. Parsed(f.cmd).topic \in Topics
      BY <2>3, CommandTopic DEF OnUnsubscribe
    <3> QED BY <2>3, <3>1 DEF OnUnsubscribe, Next, Handler
  <2> QED BY <1>3, <2>1, <2>2, <2>3 DEF Inbound
<1>4. CASE RouterSection(h) \/ SetFilter(h)
  BY <1>4 DEF RouterSection, SetFilter, Next, Handler
<1>5. CASE BroadcastBbo(h) \/ BroadcastTrade(h) \/ Delivery(h)
  BY <1>5 DEF BroadcastBbo, BroadcastTrade, Delivery, Next, Publisher
<1>6. CASE SendResponse(h)
  BY <1>6 DEF SendResponse
<1> QED BY <1>1, <1>2, <1>3, <1>4, <1>5, <1>6

\* An answer that waits is the only thing under way for its client, and either the router
\* is still at it or the index already shows it.
AnswerInv ==
  /\ DOMAIN answer = Threads
  /\ \A h \in Threads : answer[h] # NoAnswer =>
       /\ answer[h].client \in Clients
       /\ answer[h].kind = "subscribed" => answer[h].topic \in Topics
       /\ \A g \in Threads : g # h => /\ ~Busy(g, answer[h].client)
                                      /\ answer[g] # NoAnswer => answer[g].client # answer[h].client
       /\ \/ /\ answer[h].kind = "subscribed" /\ pc[h] = "subscribe"
             /\ arg[h] = [client |-> answer[h].client, topic |-> answer[h].topic]
          \/ /\ answer[h].kind = "close" /\ pc[h] = "unregister"
             /\ arg[h] = [client |-> answer[h].client]
          \/ /\ pc[h] = "idle"
             /\ answer[h].kind = "subscribed" /\ answer[h].client < Capacity =>
                  answer[h].client \in topics[answer[h].topic]
             /\ answer[h].kind = "close" => \A t \in Topics : answer[h].client \notin topics[t]

WsInv == IndInv /\ AnswerInv

\* Every step of a handler or a publisher preserves it.
LEMMA NextAnswerInv ==
  ASSUME Serialized, IndInv, AnswerInv, [WsNext]_wsVars
  PROVE  AnswerInv'
<1> USE RouterAssumption DEF AnswerInv, Busy, NoAnswer, Answer
<1>0. topics \in [Topics -> SUBSET Clients] /\ DOMAIN arg = Threads /\ DOMAIN pc = Threads
  BY DEF IndInv, Types, TypeOK
<1>1. ASSUME NEW h \in Threads, NEW c \in Clients, Connect(h, c) PROVE AnswerInv'
  BY <1>1 DEF Connect, RegisterClient
<1>2. ASSUME NEW h \in Threads, NEW c \in Clients, Ready(h, c), UnregisterClient(h, c),
             \/ UNCHANGED answer
             \/ answer' = [answer EXCEPT ![h] = [kind |-> "close", client |-> c]]
      PROVE AnswerInv'
  BY <1>0, <1>2 DEF Ready, Calls, UnregisterClient, Goto
<1>3. ASSUME NEW h \in Threads, NEW c \in Clients, NEW f \in Frames, Inbound(h, c, f)
      PROVE AnswerInv'
  <2>1. CASE Ignored(h, c, f)
    BY <2>1 DEF Ignored, wsVars, vars, shared
  <2>2. CASE OnPing(h, c, f)
    BY <2>2 DEF OnPing, Ready, Calls, vars, shared
  <2>3. CASE OnClose(h, c, f)
    <3>1. CASE clients[c] # NoSession
      BY <1>2, <2>3, <3>1 DEF OnClose
    <3>2. CASE clients[c] = NoSession
      <4>1. \A t \in Topics : c \notin topics[t]
        BY <2>3, <3>2 DEF OnClose, Ready, Calls, IndInv, Types, TypeOK, IndexInv, SessionInv
      <4> QED BY <2>3, <3>2, <4>1 DEF OnClose, Ready, Calls, vars, shared
    <3> QED BY <3>1, <3>2
  <2>4. CASE OnSubscribe(h, c, f)
    <3>1. Parsed(f.cmd).topic \in Topics
      BY <2>4, CommandTopic DEF OnSubscribe
    <3> QED BY <1>0, <2>4, <3>1 DEF OnSubscribe, Subscribe, Ready, Calls, Goto
  <2>5. CASE OnUnsubscribe(h, c, f)
    <3>1. Parsed(f.cmd).topic \in Topics
      BY <2>5, CommandTopic DEF OnUnsubscribe
    <3> QED BY <1>0, <2>5, <3>1 DEF OnUnsubscribe, Unsubscribe, Ready, Calls, Remove
  <2> QED BY <1>3, <2>1, <2>2, <2>3, <2>4, <2>5 DEF Inbound
<1>4. ASSUME NEW h \in Threads, UnregisterTopics(h), UNCHANGED answer PROVE AnswerInv'
  BY <1>0, <1>4 DEF UnregisterTopics, Goto, Remove
<1>5. ASSUME NEW h \in Threads, SubscribeTopic(h), UNCHANGED answer PROVE AnswerInv'
  BY <1>0, <1>5 DEF SubscribeTopic, Goto, Insert, IndInv, CallsInv
<1>6. ASSUME NEW h \in Threads, SendResponse(h) PROVE AnswerInv'
  BY <1>6 DEF SendResponse, vars, shared
<1>7. ASSUME NEW h \in Threads, answer[h] = NoAnswer, NEW u \in Updates, Dispatch(h, u), UNCHANGED answer
      PROVE AnswerInv'
  BY <1>0, <1>7 DEF Dispatch, Goto, shared
<1>8. ASSUME NEW h \in Threads, SetFilter(h) PROVE AnswerInv'
  BY <1>8 DEF SetFilter, UpdateFilter
<1>9. ASSUME NEW h \in Threads, Delivery(h) PROVE AnswerInv'
  BY <1>0, <1>9 DEF Delivery, LockClients, Visit, Return, Goto, shared
<1>10. CASE UNCHANGED wsVars
  BY <1>10 DEF wsVars, vars, shared
<1> HIDE DEF AnswerInv, NoAnswer
<1>11. ASSUME NEW h \in Threads, BroadcastBbo(h) \/ BroadcastTrade(h) PROVE AnswerInv'
  <2>1. PICK u \in Updates : answer[h] = NoAnswer /\ Dispatch(h, u) /\ UNCHANGED answer
    BY <1>11 DEF BroadcastBbo, BroadcastTrade, DispatchBbo, DispatchTrade, Updates
  <2> QED BY <1>7, <2>1
<1>12. ASSUME NEW h \in Threads, NEW c \in Clients, Disconnect(h, c) PROVE AnswerInv'
  BY <1>2, <1>12 DEF Disconnect
<1>13. ASSUME NEW h \in Threads, RouterSection(h) PROVE AnswerInv'
  BY <1>4, <1>5, <1>13 DEF RouterSection
<1> QED BY <1>1, <1>3, <1>6, <1>8, <1>9, <1>10, <1>11, <1>12, <1>13 DEF WsNext

\* When a subscription is confirmed the index has it exactly if the client's id has a bit in
\* the bitmap, and when a Close is answered the index has nothing of the client left, whatever
\* the other connections did to the router between handle_inbound_frame's calls and its
\* send_response.
THEOREM Answers ==
  ASSUME Serialized
  PROVE  WsSpec => []AnswersMatchIndex
<1>1. WsInit => WsInv
  <2>1. ASSUME WsInit PROVE AnswerInv
    BY <2>1 DEF WsInit, AnswerInv
  <2> QED BY <2>1, InitIndInv DEF WsInit, WsInv
<1>2. WsInv /\ [WsNext]_wsVars => WsInv'
  BY NextIndInv, NextAnswerInv, HandlersUseRouter DEF WsInv
<1>3. WsInv => AnswersMatchIndex
  <2>1. ASSUME IndInv, NEW c, NEW t \in Topics, c \in topics[t] PROVE c < Capacity
    BY <2>1 DEF IndInv, Types, TypeOK
  <2> QED BY <2>1 DEF WsInv, AnswerInv, AnswersMatchIndex, AnswerDue
<1> QED BY <1>1, <1>2, <1>3, PTL DEF WsSpec

\* The server's handlers keep the router's promises.
THEOREM HandlersRefineRouter == WsSpec => Spec
<1>1. WsInit => Init
  BY DEF WsInit
<1> QED BY <1>1, HandlersUseRouter, PTL DEF WsSpec, Spec

\* Behind the WebSocket server the index stays exact and every standing subscriber is served.
THEOREM ServedClients ==
  ASSUME Serialized
  PROVE  WsSpec => [](IndexExact /\ StandingSubscribersServed)
BY HandlersRefineRouter, Index, Dispatches, PTL
=============================================================================
