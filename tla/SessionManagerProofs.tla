------------------------ MODULE SessionManagerProofs ------------------------
(***************************************************************************)
(* Theorems about sessions, subscriptions, retained messages and last      *)
(* wills, for every number of clients, connections, topics and messages.   *)
(***************************************************************************)
EXTENDS SessionManager, FiniteSetTheorems, TLAPS

-----------------------------------------------------------------------------
(* The inductive invariant                                                  *)

\* What the store and the connections know of each other: a session belongs to
\* a connection that got past CONNECT, whose will was not published and which
\* did not disconnect; a connection with something left to handle has a client.
SessionInv ==
    /\ \A id \in ClientId : HasSession(id) =>
          /\ socket[sessions[id].connection] \in {"connected", "stopped", "gone"}
          /\ wills[sessions[id].connection] = 0
          /\ sessions[id].connection \notin disconnected
    /\ \A c \in Connection : socket[c] \in {"none", "connecting"} =>
          client_id[c] = NoClientId /\ wills[c] = 0 /\ c \notin disconnected
    /\ \A c \in Connection : (reads(c) \/ c \in late_close) => client_id[c] \in ClientId
    /\ \A c \in Connection : wills[c] <= 1

-----------------------------------------------------------------------------
(* Operators of the model                                                   *)

\* Max is the largest element of a set of QoS levels.
LEMMA MaxLevel ==
    ASSUME NEW S \in SUBSET (0 .. 3), S # {}
    PROVE  Max(S) \in S /\ \A x \in S : x <= Max(S)
  <1>1. \E m \in S : \A y \in S : m >= y
    <2>1. CASE 3 \in S
      BY <2>1
    <2>2. CASE 3 \notin S /\ 2 \in S
      BY <2>2
    <2>3. CASE 3 \notin S /\ 2 \notin S /\ 1 \in S
      BY <2>3
    <2>4. CASE 3 \notin S /\ 2 \notin S /\ 1 \notin S
      <3>1. PICK m \in S : TRUE
        OBVIOUS
      <3>2. \A y \in S : y = 0
        BY <2>4
      <3> QED
        BY <3>1, <3>2
    <2> QED
      BY <2>1, <2>2, <2>3, <2>4
  <1> DEFINE m == Max(S)
  <1>2. m \in S /\ \A y \in S : m >= y
    BY <1>1 DEF Max
  <1> QED
    BY <1>2

\* The levels the client with this id subscribed to the topic with.
Levels(id, topic) ==
    {s.maximum_qos : s \in {t \in subscriptions :
        t.client_id = id /\ topic_filter_matches_topic(t.topic_filter, topic)}}

\* resolve_subscribers returns clients, each with the highest of its levels.
LEMMA ResolvedLevel ==
    ASSUME TypeOK, NEW topic, NEW r \in resolve_subscribers(topic)
    PROVE  /\ r.client_id \in ClientId
           /\ r.maximum_qos \in Levels(r.client_id, topic)
           /\ r.maximum_qos \in MaximumQoS
           /\ \A l \in Levels(r.client_id, topic) : l <= r.maximum_qos
  <1>1. PICK id \in Subscribers(topic) :
            r = [client_id |-> id, maximum_qos |-> Max(Levels(id, topic))]
    BY DEF resolve_subscribers, Levels
  <1>2. PICK s \in subscriptions :
            s.client_id = id /\ topic_filter_matches_topic(s.topic_filter, topic)
    BY DEF Subscribers
  <1>3. s \in subscription_container /\ subscriptions \subseteq subscription_container
    BY DEF TypeOK
  <1>4. Levels(id, topic) \subseteq MaximumQoS
    BY <1>3 DEF Levels, subscription_container
  <1>5. Levels(id, topic) # {}
    BY <1>2 DEF Levels
  <1>6. Levels(id, topic) \in SUBSET (0 .. 3)
    BY <1>4, ConstantsAssumption
  <1>7. Max(Levels(id, topic)) \in Levels(id, topic)
        /\ \A l \in Levels(id, topic) : l <= Max(Levels(id, topic))
    BY <1>5, <1>6, MaxLevel
  <1> QED
    BY <1>1, <1>2, <1>3, <1>4, <1>7 DEF subscription_container

\* What publish sends is addressed to connections of sessions in the store.
LEMMA PublishType ==
    ASSUME TypeOK, NEW store \in [ClientId -> Session \cup {NoSession}],
           NEW topic \in Topic, NEW message \in Message \cup Connection
    PROVE  publish(store, topic, message) \subseteq OutgoingPublish
  <1> SUFFICES ASSUME NEW r \in resolve_subscribers(topic), r.maximum_qos # RESERVED,
                      store[r.client_id] # NoSession
               PROVE  [to |-> store[r.client_id].connection, topic |-> topic,
                       message |-> message, qos |-> r.maximum_qos, retain |-> FALSE]
                         \in OutgoingPublish
    BY DEF publish
  <1>1. r.client_id \in ClientId /\ r.maximum_qos \in MaximumQoS \ {RESERVED}
    BY ResolvedLevel
  <1>2. store[r.client_id] \in Session
    BY <1>1
  <1> QED
    BY <1>1, <1>2 DEF OutgoingPublish, Session

-----------------------------------------------------------------------------
(* The calls the handlers share                                             *)

\* How connections go on once they are started: open ones may be stopped and
\* stopped ones destroyed; what is left to handle is of connections that had a
\* client.
Closing ==
    /\ socket' \in [Connection -> {"none", "connecting", "connected", "stopped", "gone"}]
    /\ \A c \in Connection :
          \/ socket'[c] = socket[c]
          \/ socket[c] \in {"connecting", "connected"} /\ socket'[c] = "stopped"
          \/ socket[c] = "stopped" /\ socket'[c] = "gone"
    /\ late_close' \subseteq {c \in Connection : socket'[c] = "stopped"}
    /\ late_read' \subseteq {c \in Connection : socket'[c] = "stopped"}
    /\ \A c \in late_close' : c \in late_close \/ socket[c] = "connected"
    /\ \A c \in late_read' : reads(c)
    /\ granted' \in [Connection -> SUBSET subscription_container]

\* Closing connections: each open one among them is stopped and loses its
\* grants; only connections that had a client leave handlers behind.
LEMMA StopEffect ==
    ASSUME TypeOK, NEW cs \in SUBSET Connection, NEW handled, stop(cs, handled)
    PROVE  /\ Closing
           /\ \A c \in Connection :
                 IF c \in cs /\ socket[c] \in {"connecting", "connected"}
                 THEN socket'[c] = "stopped" /\ granted'[c] = {}
                 ELSE socket'[c] = socket[c] /\ granted'[c] = granted[c]
  BY DEF stop, TypeOK, reads, Closing

\* The end of a client's session: it is removed, its will is published if it
\* had one, and counted for the session's connection.
LEMMA UngracefulEffect ==
    ASSUME TypeOK, NEW id \in ClientId, client_disconnected_ungracefully(id)
    PROVE  /\ sessions' = remove(id)
           /\ sent' \subseteq OutgoingPublish
           /\ dispatched' \subseteq [topic : Topic, message : Message \cup Connection]
           /\ \/ wills' = wills
              \/ /\ HasSession(id)
                 /\ wills' = [wills EXCEPT ![sessions[id].connection] = @ + 1]
  <1>1. CASE HasSession(id) /\ sessions[id].lwt_message # NoMessage
    <2>1. sessions[id] \in Session
      BY <1>1 DEF TypeOK, HasSession
    <2>2. sessions[id].connection \in Connection /\ sessions[id].lwt_message \in Topic
      BY <1>1, <2>1 DEF Session
    <2>3. remove(id) \in [ClientId -> Session \cup {NoSession}]
      BY DEF remove, TypeOK
    <2>4. publish(remove(id), sessions[id].lwt_message, sessions[id].connection)
             \subseteq OutgoingPublish
      BY <2>2, <2>3, PublishType
    <2> QED
      BY <1>1, <2>2, <2>4 DEF client_disconnected_ungracefully, forwards
  <1>2. CASE ~(HasSession(id) /\ sessions[id].lwt_message # NoMessage)
    BY <1>2 DEF client_disconnected_ungracefully, nothing_sent
  <1> QED
    BY <1>1, <1>2

\* The end of a client's session sends nothing to the client itself: when its
\* will is published its session is no longer in the store, and any other
\* session there refers to a connection of its own client.
LEMMA WillToOthers ==
    ASSUME TypeOK, NEW id \in ClientId, client_disconnected_ungracefully(id),
           NEW p \in sent'
    PROVE  client_id[p.to] # id
  <1>1. HasSession(id) /\ sessions[id].lwt_message # NoMessage
    BY DEF client_disconnected_ungracefully, nothing_sent
  <1>2. p \in publish(remove(id), sessions[id].lwt_message, sessions[id].connection)
    BY <1>1 DEF client_disconnected_ungracefully, forwards
  <1>3. PICK r \in resolve_subscribers(sessions[id].lwt_message) :
            remove(id)[r.client_id] # NoSession /\ p.to = remove(id)[r.client_id].connection
    BY <1>2 DEF publish
  <1>4. r.client_id \in ClientId
    BY ResolvedLevel
  <1>5. r.client_id # id /\ remove(id)[r.client_id] = sessions[r.client_id]
    BY <1>3, <1>4 DEF remove, TypeOK
  <1>6. client_id[sessions[r.client_id].connection] = r.client_id
    BY <1>3, <1>4, <1>5 DEF TypeOK, HasSession
  <1> QED
    BY <1>3, <1>5, <1>6

-----------------------------------------------------------------------------
(* Every handler preserves the invariant                                    *)

LEMMA InitInv == Init => TypeOK /\ SessionInv
  BY ConstantsAssumption DEF Init, TypeOK, SessionInv, HasSession, reads, Message

LEMMA StartStep ==
    ASSUME TypeOK, SessionInv, NEW c \in Connection, start(c)
    PROVE  TypeOK' /\ SessionInv'
  <1>1. TypeOK'
    BY DEF start, TypeOK, nothing_sent, clientVars, subscriptionVars, HasSession
  <1>2. SessionInv'
    BY DEF start, SessionInv, TypeOK, HasSession, reads, Session, nothing_sent
  <1> QED
    BY <1>1, <1>2

LEMMA ConnectStep ==
    ASSUME TypeOK, SessionInv, NEW c \in Connection, process_connect_packet(c)
    PROVE  TypeOK' /\ SessionInv'
  <1>1. PICK id \in ClientId, lwt \in Topic \cup {NoMessage} :
            /\ client_id' = [client_id EXCEPT ![c] = id]
            /\ sessions' = insert(c, id, lwt)
    BY DEF process_connect_packet
  <1>2. [connection |-> c, lwt_message |-> lwt, rx_in_flight |-> {}] \in Session
    BY DEF Session
  <1>3. socket[c] = "connecting" /\ client_id[c] = NoClientId
    BY DEF process_connect_packet, SessionInv
  <1>4. sessions' \in [ClientId -> Session \cup {NoSession}]
    BY <1>1, <1>2 DEF insert, TypeOK
  <1>5. \A i \in ClientId : (HasSession(i))' =>
           \/ HasSession(i) /\ sessions'[i] = sessions[i]
           \/ i = id /\ sessions'[i].connection = c
    BY <1>1, <1>2 DEF insert, TypeOK, HasSession
  <1>6. \A i \in ClientId : HasSession(i) => sessions[i].connection \in Connection \ {c}
    BY <1>3 DEF SessionInv, TypeOK, HasSession, Session
  <1>7. TypeOK'
    BY <1>1, <1>3, <1>4, <1>5, <1>6
    DEF process_connect_packet, TypeOK, nothing_sent, clientVars, subscriptionVars
  <1>8. SessionInv'
    BY <1>1, <1>3, <1>5, <1>6 DEF process_connect_packet, SessionInv, TypeOK, reads
  <1> QED
    BY <1>7, <1>8

LEMMA CloseBeforeConnectStep ==
    ASSUME TypeOK, SessionInv, NEW c \in Connection, close_before_connect(c)
    PROVE  TypeOK' /\ SessionInv'
  <1>1. stop({c}, {}) /\ nothing_sent /\ socket[c] = "connecting"
    BY DEF close_before_connect
  <1>2. UNCHANGED <<client_id, disconnected, clientVars, sessions, subscriptions,
                    retained, wills, latest>>
    BY DEF close_before_connect
  <1>3. Closing
    BY <1>1, StopEffect
  <1>4. TypeOK'
    BY <1>1, <1>2, <1>3 DEF TypeOK, Closing, nothing_sent, clientVars, HasSession
  <1>5. \A i \in ClientId : HasSession(i) =>
           sessions[i].connection \in Connection /\ ((HasSession(i))' <=> HasSession(i))
    BY <1>2 DEF TypeOK, HasSession, Session
  <1>6. SessionInv'
    BY <1>2, <1>3, <1>5 DEF SessionInv, TypeOK, Closing, HasSession, reads
  <1> QED
    BY <1>4, <1>6

\* A session is removed, with or without its will, and its connection stopped or
\* left with handlers to run: the heart of both properties of last wills.
LEMMA RemoveStep ==
    ASSUME TypeOK, SessionInv, NEW c \in Connection, client_id[c] \in ClientId,
           client_disconnected_ungracefully(client_id[c]),
           NEW cs \in SUBSET Connection, NEW handled,
           \/ stop(cs, handled)
           \/ /\ late_close' \subseteq late_close
              /\ UNCHANGED <<socket, late_read, granted>>,
           UNCHANGED <<client_id, disconnected, clientVars, subscriptions, retained, latest>>
    PROVE  TypeOK' /\ SessionInv'
  <1> DEFINE id == client_id[c]
  <1>1. /\ sessions' = remove(id)
        /\ sent' \subseteq OutgoingPublish
        /\ dispatched' \subseteq [topic : Topic, message : Message \cup Connection]
        /\ \/ wills' = wills
           \/ /\ HasSession(id)
              /\ wills' = [wills EXCEPT ![sessions[id].connection] = @ + 1]
    BY UngracefulEffect
  <1>2. \A i \in ClientId : (HasSession(i))' =>
           HasSession(i) /\ i # id /\ sessions'[i] = sessions[i]
    BY <1>1 DEF remove, HasSession, TypeOK
  <1>3. sessions' \in [ClientId -> Session \cup {NoSession}] /\ wills' \in [Connection -> Nat]
    BY <1>1 DEF remove, TypeOK
  <1>4. \A i \in ClientId : HasSession(i) => sessions[i].connection \in Connection
    BY DEF HasSession, TypeOK, Session
  <1>5. Closing
    <2>1. CASE stop(cs, handled)
      BY <2>1, StopEffect
    <2>2. CASE late_close' \subseteq late_close /\ UNCHANGED <<socket, late_read, granted>>
      BY <2>2 DEF TypeOK, reads, Closing
    <2> QED
      BY <2>1, <2>2
  <1>6. TypeOK'
    BY <1>1, <1>2, <1>3, <1>5 DEF TypeOK, Closing, clientVars
  <1>7. \A i \in ClientId : (HasSession(i))' =>
           wills'[sessions[i].connection] = wills[sessions[i].connection]
    BY <1>1, <1>2, <1>4 DEF TypeOK
  <1>8. \A d \in Connection : wills'[d] <= 1
    BY <1>1, <1>4 DEF TypeOK, SessionInv
  <1>9. \A d \in Connection : socket'[d] \in {"none", "connecting"} => wills'[d] = 0
    BY <1>1, <1>4, <1>5 DEF TypeOK, Closing, SessionInv
  <1>10. SessionInv'
    BY <1>2, <1>4, <1>5, <1>7, <1>8, <1>9 DEF SessionInv, TypeOK, Closing, reads
  <1> QED
    BY <1>6, <1>10

LEMMA CloseRequestedStep ==
    ASSUME TypeOK, SessionInv, NEW c \in Connection,
           \/ connection_close_requested(c)
           \/ keep_alive_timeout_expired(c)
           \/ write_aborted(c)
    PROVE  TypeOK' /\ SessionInv'
  <1>1. CASE connection_close_requested(c)
    BY <1>1, RemoveStep DEF connection_close_requested, SessionInv
  <1>2. CASE keep_alive_timeout_expired(c)
    BY <1>2, RemoveStep DEF keep_alive_timeout_expired, SessionInv, reads
  <1>3. CASE write_aborted(c)
    <2>1. client_id[c] \in ClientId /\ late_close' \subseteq late_close
      BY <1>3 DEF write_aborted, late_handled, SessionInv
    <2> QED
      BY <1>3, <2>1, RemoveStep DEF write_aborted, subscriptionVars
  <1> QED
    BY <1>1, <1>2, <1>3

\* The session ends with its client's DISCONNECT, or one that is faked.
LEMMA DisconnectStep ==
    ASSUME TypeOK, SessionInv, NEW c \in Connection,
           process_disconnect_packet(c) \/ refused_written(c)
    PROVE  TypeOK' /\ SessionInv'
  <1> DEFINE id == client_id[c]
  <1>1. /\ sessions' = remove(id)
        /\ nothing_sent
        /\ UNCHANGED <<client_id, clientVars, subscriptions, retained, wills, latest>>
    BY DEF process_disconnect_packet, refused_written, client_disconnected
  <1>2. /\ id \in ClientId
        /\ disconnected' = disconnected \/ disconnected' = disconnected \cup {c}
        /\ socket[c] \notin {"none", "connecting"}
    BY DEF process_disconnect_packet, refused_written, late_handled, reads, SessionInv, TypeOK
  <1>3. \A i \in ClientId : (HasSession(i))' =>
           /\ HasSession(i)
           /\ i # id
           /\ sessions'[i] = sessions[i]
           /\ sessions[i].connection \in Connection \ {c}
    BY <1>1 DEF remove, HasSession, TypeOK, Session
  <1>4. sessions' \in [ClientId -> Session \cup {NoSession}]
    BY <1>1 DEF remove, TypeOK
  <1>5. Closing
    <2>1. CASE stop({c}, {c}) \/ stop({c}, {})
      BY <2>1, StopEffect
    <2>2. CASE late_handled(c) /\ UNCHANGED <<socket, late_read, subscriptionVars>>
      BY <2>2 DEF TypeOK, reads, late_handled, subscriptionVars, Closing
    <2> QED
      BY <2>1, <2>2 DEF process_disconnect_packet, refused_written
  <1>6. TypeOK'
    BY <1>1, <1>2, <1>3, <1>4, <1>5 DEF TypeOK, Closing, clientVars, nothing_sent
  <1>7. SessionInv'
    BY <1>1, <1>2, <1>3, <1>5 DEF SessionInv, TypeOK, Closing, reads
  <1> QED
    BY <1>6, <1>7

\* A step that publishes no will, and in which sessions end or keep their
\* connection, keeps sessions and connections in step.
LEMMA SessionsStay ==
    ASSUME TypeOK, SessionInv, Closing,
           sessions' \in [ClientId -> Session \cup {NoSession}],
           \A id \in ClientId : (HasSession(id))' =>
               HasSession(id) /\ sessions'[id].connection = sessions[id].connection,
           UNCHANGED <<client_id, disconnected, wills>>
    PROVE  /\ SessionInv'
           /\ \A id \in ClientId : (HasSession(id))' => client_id'[sessions'[id].connection] = id
  <1>1. \A id \in ClientId : HasSession(id) => sessions[id].connection \in Connection
    BY DEF HasSession, TypeOK, Session
  <1>2. \A id \in ClientId : (HasSession(id))' => client_id'[sessions'[id].connection] = id
    BY <1>1 DEF TypeOK
  <1>3. SessionInv'
    BY <1>1 DEF SessionInv, TypeOK, Closing, reads
  <1> QED
    BY <1>2, <1>3

\* session_send answers on the session's connection, or ends the session.
LEMMA SessionSend ==
    ASSUME TypeOK, NEW id \in ClientId, sessions' = session_send(id)
    PROVE  /\ sessions' \in [ClientId -> Session \cup {NoSession}]
           /\ \A i \in ClientId : (HasSession(i))' =>
                  HasSession(i) /\ sessions'[i] = sessions[i]
           /\ \A i \in ClientId : HasSession(i) /\ alive(sessions[i].connection) =>
                  sessions'[i] = sessions[i]
  BY DEF session_send, remove, HasSession, TypeOK

LEMMA ReadHandled ==
    ASSUME TypeOK, NEW c \in Connection, read_handled(c),
           granted' \in [Connection -> SUBSET subscription_container]
    PROVE  Closing
  BY DEF read_handled, TypeOK, Closing, reads

LEMMA DestroyedStep ==
    ASSUME TypeOK, SessionInv, NEW c \in Connection, connection_destroyed(c)
    PROVE  TypeOK' /\ SessionInv'
  <1>1. /\ socket[c] = "stopped" /\ c \notin late_close \cup late_read
        /\ socket' = [socket EXCEPT ![c] = "gone"]
        /\ unreleased' = [unreleased EXCEPT ![c] = {}]
        /\ nothing_sent
        /\ UNCHANGED <<late_close, late_read, client_id, disconnected, published, resent,
                        sessions, subscriptionVars, retained, wills, latest>>
    BY DEF connection_destroyed
  <1>2. Closing
    BY <1>1 DEF TypeOK, Closing, reads, subscriptionVars
  <1>3. sessions' \in [ClientId -> Session \cup {NoSession}]
    BY <1>1 DEF TypeOK
  <1>4. \A id \in ClientId : (HasSession(id))' =>
               HasSession(id) /\ sessions'[id].connection = sessions[id].connection
    BY <1>1 DEF HasSession
  <1>5. SessionInv' /\ \A id \in ClientId :
               (HasSession(id))' => client_id'[sessions'[id].connection] = id
    BY <1>1, <1>2, <1>3, <1>4, SessionsStay
  <1>6. unreleased' \in [Connection -> SUBSET Publish]
    BY <1>1 DEF TypeOK
  <1>7. TypeOK'
    BY <1>1, <1>2, <1>3, <1>5, <1>6 DEF TypeOK, Closing, nothing_sent, subscriptionVars
  <1> QED
    BY <1>5, <1>7

LEMMA ShutdownStep ==
    ASSUME TypeOK, SessionInv, do_close_connections
    PROVE  TypeOK' /\ SessionInv'
  <1>1. /\ stop(Connection, {}) /\ nothing_sent
        /\ UNCHANGED <<client_id, disconnected, clientVars, sessions, subscriptions,
                        retained, wills, latest>>
    BY DEF do_close_connections
  <1>2. Closing
    BY <1>1, StopEffect
  <1>3. sessions' \in [ClientId -> Session \cup {NoSession}]
    BY <1>1 DEF TypeOK
  <1>4. \A id \in ClientId : (HasSession(id))' =>
               HasSession(id) /\ sessions'[id].connection = sessions[id].connection
    BY <1>1 DEF HasSession
  <1>5. SessionInv' /\ \A id \in ClientId :
               (HasSession(id))' => client_id'[sessions'[id].connection] = id
    BY <1>1, <1>2, <1>3, <1>4, SessionsStay
  <1>6. TypeOK'
    BY <1>1, <1>2, <1>3, <1>5 DEF TypeOK, Closing, nothing_sent, clientVars
  <1> QED
    BY <1>5, <1>6

LEMMA ViolationStep ==
    ASSUME TypeOK, SessionInv, NEW c \in Connection, protocol_violation(c)
    PROVE  TypeOK' /\ SessionInv'
  <1>1. /\ HasSession(client_id[c]) /\ client_id[c] \in ClientId
        /\ stop({sessions[client_id[c]].connection}, {c}) /\ nothing_sent
        /\ UNCHANGED <<client_id, disconnected, clientVars, sessions, subscriptions,
                        retained, wills, latest>>
    BY DEF protocol_violation, SessionInv
  <1>2. Closing
    <2>1. sessions[client_id[c]].connection \in Connection
      BY <1>1 DEF HasSession, TypeOK, Session
    <2> QED
      BY <1>1, <2>1, StopEffect
  <1>3. sessions' \in [ClientId -> Session \cup {NoSession}]
    BY <1>1 DEF TypeOK
  <1>4. \A id \in ClientId : (HasSession(id))' =>
               HasSession(id) /\ sessions'[id].connection = sessions[id].connection
    BY <1>1 DEF HasSession
  <1>5. SessionInv' /\ \A id \in ClientId :
               (HasSession(id))' => client_id'[sessions'[id].connection] = id
    BY <1>1, <1>2, <1>3, <1>4, SessionsStay
  <1>6. TypeOK'
    BY <1>1, <1>2, <1>3, <1>5 DEF TypeOK, Closing, nothing_sent, clientVars
  <1> QED
    BY <1>5, <1>6

LEMMA SubscribedStep ==
    ASSUME TypeOK, SessionInv, NEW c \in Connection, client_subscribed(c)
    PROVE  TypeOK' /\ SessionInv'
  <1> DEFINE id == client_id[c]
  <1>1. id \in ClientId /\ sessions' = session_send(id) /\ read_handled(c)
    BY DEF client_subscribed, SessionInv
  <1>2. PICK filter \in TopicFilter, maximum_qos \in MaximumQoS :
          LET s == [topic_filter |-> filter, maximum_qos |-> maximum_qos, client_id |-> id]
          IN  /\ subscriptions' = subscriptions \cup {s}
              /\ sent' = IF HasSession(id) /\ socket[sessions[id].connection] = "connected"
                         THEN retained_messages_for(id, filter, maximum_qos)
                         ELSE {}
              /\ granted' = [d \in Connection |->
                    granted[d] \cup IF answers(id, d) /\ maximum_qos # RESERVED THEN {s} ELSE {}]
    BY DEF client_subscribed
  <1>3. [topic_filter |-> filter, maximum_qos |-> maximum_qos, client_id |-> id]
            \in subscription_container
    BY <1>1 DEF subscription_container
  <1>4. /\ subscriptions' \subseteq subscription_container
        /\ granted' \in [Connection -> SUBSET subscription_container]
    BY <1>2, <1>3 DEF TypeOK
  <1>5. sent' \subseteq OutgoingPublish
    <2>1. ASSUME HasSession(id)
          PROVE  retained_messages_for(id, filter, maximum_qos) \subseteq OutgoingPublish
      <3>1. sessions[id].connection \in Connection
        BY <1>1, <2>1 DEF HasSession, TypeOK, Session
      <3>2. \A t \in Topic : retained[t] # NoMessage => retained[t] \in Message
        BY DEF TypeOK
      <3>3. \A t \in Topic : (retained[t] # NoMessage /\ maximum_qos # RESERVED) =>
               [to |-> sessions[id].connection, topic |-> t, message |-> retained[t],
                qos |-> maximum_qos, retain |-> TRUE] \in OutgoingPublish
        BY <3>1, <3>2 DEF OutgoingPublish
      <3> QED
        BY <3>3 DEF retained_messages_for
    <2> QED
      BY <1>2, <2>1
  <1>6. Closing
    BY <1>1, <1>4, ReadHandled
  <1>7. UNCHANGED <<client_id, disconnected, clientVars, retained, wills, latest>>
        /\ dispatched' = {}
    BY DEF client_subscribed
  <1>8. SessionInv' /\ \A i \in ClientId :
               (HasSession(i))' => client_id'[sessions'[i].connection] = i
    BY <1>1, <1>6, <1>7, SessionSend, SessionsStay
  <1>9. TypeOK'
    BY <1>1, <1>4, <1>5, <1>6, <1>7, <1>8, SessionSend DEF TypeOK, Closing, clientVars
  <1> QED
    BY <1>8, <1>9

LEMMA UnsubscribedStep ==
    ASSUME TypeOK, SessionInv, NEW c \in Connection, client_unsubscribed(c)
    PROVE  TypeOK' /\ SessionInv'
  <1> DEFINE id == client_id[c]
  <1>1. id \in ClientId /\ sessions' = session_send(id) /\ read_handled(c)
    BY DEF client_unsubscribed, SessionInv
  <1>2. /\ subscriptions' \subseteq subscription_container
        /\ granted' \in [Connection -> SUBSET subscription_container]
    BY DEF client_unsubscribed, unsubscribe, TypeOK
  <1>3. Closing
    BY <1>1, <1>2, ReadHandled
  <1>4. UNCHANGED <<client_id, disconnected, clientVars, retained, wills, latest>>
        /\ nothing_sent
    BY DEF client_unsubscribed
  <1>5. SessionInv' /\ \A i \in ClientId :
               (HasSession(i))' => client_id'[sessions'[i].connection] = i
    BY <1>1, <1>3, <1>4, SessionSend, SessionsStay
  <1>6. TypeOK'
    BY <1>1, <1>2, <1>3, <1>4, <1>5, SessionSend DEF TypeOK, Closing, clientVars, nothing_sent
  <1> QED
    BY <1>5, <1>6

\* What becomes of a PUBLISH: the session records it or leaves it, and what is
\* retained is one of the messages.
\* A PUBLISH creates and removes no session.
LEMMA PublishedSessions ==
    ASSUME TypeOK, SessionInv, NEW c \in Connection, reads(c), NEW p \in Publish,
           client_published(c, p)
    PROVE  /\ sessions' \in [ClientId -> Session \cup {NoSession}]
           /\ \A i \in ClientId : (HasSession(i))' <=> HasSession(i)
           /\ \A i \in ClientId : HasSession(i) =>
                  sessions'[i].connection = sessions[i].connection
  <1> DEFINE id == client_id[c]
             dispatch == HasSession(id) /\ ~is_resent(id, p)
  <1>1. id \in ClientId
    BY DEF SessionInv
  <1>2. sessions' = IF dispatch THEN client_sent_publish(id, p) ELSE sessions
    BY DEF client_published
  <1>3. CASE dispatch /\ p.qos = 2
    <2>1. p.packet_identifier \in PacketIdentifier /\ sessions[id] \in Session
      BY <1>1, <1>3 DEF Publish, HasSession, TypeOK
    <2>2. [sessions[id] EXCEPT !.rx_in_flight = @ \cup {p.packet_identifier}] \in Session
      BY <2>1 DEF Session
    <2>3. \/ sessions' = sessions
          \/ sessions' = [sessions EXCEPT ![id] =
                   [sessions[id] EXCEPT !.rx_in_flight = @ \cup {p.packet_identifier}]]
      BY <1>2, <1>3 DEF client_sent_publish
    <2> QED
      BY <1>1, <2>1, <2>2, <2>3, ConstantsAssumption DEF TypeOK, HasSession, Session
  <1>4. CASE ~(dispatch /\ p.qos = 2)
    BY <1>2, <1>4 DEF client_sent_publish, TypeOK, HasSession
  <1> QED
    BY <1>3, <1>4

LEMMA PublishedStep ==
    ASSUME TypeOK, SessionInv, NEW c \in Connection, reads(c), NEW p \in Publish,
           client_published(c, p),
           unreleased' \in [Connection -> SUBSET Publish],
           published' \in 0 .. MaxMessages, resent' \in 0 .. MaxResends
    PROVE  TypeOK' /\ SessionInv'
  <1> DEFINE id == client_id[c]
             dispatch == HasSession(id) /\ ~is_resent(id, p)
  <1>1. /\ id \in ClientId
        /\ p.topic \in Topic /\ p.message \in Message
    BY DEF SessionInv, Publish
  <1>2. /\ sessions' = IF dispatch THEN client_sent_publish(id, p) ELSE sessions
        /\ IF dispatch THEN forwards(sessions, p.topic, p.message) ELSE nothing_sent
        /\ retained' = IF HasSession(id) /\ p.retain THEN retain(p) ELSE retained
        /\ latest' = IF dispatch /\ p.retain
                     THEN [latest EXCEPT ![p.topic] = IF p.message = 0 THEN NoMessage ELSE p.message]
                     ELSE latest
        /\ read_handled(c)
        /\ UNCHANGED <<client_id, disconnected, subscriptionVars, wills>>
    BY DEF client_published
  <1>3. /\ sessions' \in [ClientId -> Session \cup {NoSession}]
        /\ \A i \in ClientId : (HasSession(i))' =>
               HasSession(i) /\ sessions'[i].connection = sessions[i].connection
    BY PublishedSessions
  <1>4. /\ sent' \subseteq OutgoingPublish
        /\ dispatched' \subseteq [topic : Topic, message : Message \cup Connection]
    <2>1. publish(sessions, p.topic, p.message) \subseteq OutgoingPublish
      BY <1>1, PublishType DEF TypeOK
    <2> QED
      BY <1>1, <1>2, <2>1 DEF forwards, nothing_sent
  <1>5. /\ retained' \in [Topic -> Message \cup {NoMessage}]
        /\ latest' \in [Topic -> Message \cup {NoMessage}]
    BY <1>1, <1>2 DEF TypeOK, retain
  <1>6. Closing
    BY <1>2, ReadHandled DEF TypeOK, subscriptionVars
  <1>7. SessionInv' /\ \A i \in ClientId :
               (HasSession(i))' => client_id'[sessions'[i].connection] = i
    BY <1>2, <1>3, <1>6, SessionsStay
  <1>8. TypeOK'
    BY <1>2, <1>3, <1>4, <1>5, <1>6, <1>7 DEF TypeOK, Closing, subscriptionVars
  <1> QED
    BY <1>7, <1>8

LEMMA PublishesStep ==
    ASSUME TypeOK, SessionInv, NEW c \in Connection, client_publishes(c) \/ client_resends(c)
    PROVE  TypeOK' /\ SessionInv'
  <1>1. CASE client_publishes(c)
    <2>1. PICK p \in Publish :
              /\ unreleased' = [unreleased EXCEPT ![c] = IF p.qos = 2 THEN @ \cup {p} ELSE @]
              /\ client_published(c, p)
      BY <1>1 DEF client_publishes
    <2>2. unreleased' \in [Connection -> SUBSET Publish]
      BY <2>1 DEF TypeOK
    <2>3. published' \in 0 .. MaxMessages /\ resent' \in 0 .. MaxResends
      BY <1>1, ConstantsAssumption DEF client_publishes, TypeOK
    <2> QED
      BY <1>1, <2>1, <2>2, <2>3, PublishedStep DEF client_publishes
  <1>2. CASE client_resends(c)
    <2>1. PICK p \in unreleased[c] : client_published(c, p)
      BY <1>2 DEF client_resends
    <2>2. p \in Publish /\ unreleased' \in [Connection -> SUBSET Publish]
      BY <1>2, <2>1 DEF client_resends, TypeOK
    <2>3. published' \in 0 .. MaxMessages /\ resent' \in 0 .. MaxResends
      BY <1>2, ConstantsAssumption DEF client_resends, TypeOK
    <2> QED
      BY <1>2, <2>1, <2>2, <2>3, PublishedStep DEF client_resends
  <1> QED
    BY <1>1, <1>2

LEMMA ReleasedStep ==
    ASSUME TypeOK, SessionInv, NEW c \in Connection, client_released_publish(c)
    PROVE  TypeOK' /\ SessionInv'
  <1> DEFINE id == client_id[c]
             heard == HasSession(id) /\ alive(sessions[id].connection)
  <1>1. PICK p \in unreleased[c] :
          LET pktid == p.packet_identifier
              expected == heard /\ pktid \in sessions[id].rx_in_flight
          IN  /\ unreleased' = [unreleased EXCEPT ![c] = @ \ {p}]
              /\ sessions' = IF expected
                             THEN [sessions EXCEPT ![id].rx_in_flight = @ \ {pktid}]
                             ELSE sessions
              /\ stop(IF heard /\ ~expected THEN {sessions[id].connection} ELSE {}, {c})
    BY DEF client_released_publish
  <1>2. /\ id \in ClientId
        /\ nothing_sent
        /\ UNCHANGED <<client_id, disconnected, published, resent, subscriptions, retained,
                       wills, latest>>
    BY DEF client_released_publish, SessionInv
  <1>3. HasSession(id) => sessions[id] \in Session /\ sessions[id].connection \in Connection
    BY <1>2 DEF HasSession, TypeOK, Session
  <1>4. Closing
    BY <1>1, <1>3, StopEffect
  <1>5. /\ sessions' \in [ClientId -> Session \cup {NoSession}]
        /\ \A i \in ClientId : (HasSession(i))' =>
               HasSession(i) /\ sessions'[i].connection = sessions[i].connection
    BY <1>1, <1>2, <1>3 DEF TypeOK, HasSession, Session
  <1>6. SessionInv' /\ \A i \in ClientId :
               (HasSession(i))' => client_id'[sessions'[i].connection] = i
    BY <1>2, <1>4, <1>5, SessionsStay
  <1>7. unreleased' \in [Connection -> SUBSET Publish]
    BY <1>1 DEF TypeOK
  <1>8. TypeOK'
    BY <1>2, <1>4, <1>5, <1>6, <1>7 DEF TypeOK, Closing, nothing_sent
  <1> QED
    BY <1>6, <1>8

LEMMA PubrelTimeoutStep ==
    ASSUME TypeOK, SessionInv, NEW id \in ClientId, pubrel_timeout_expired(id)
    PROVE  TypeOK' /\ SessionInv'
  <1>1. PICK pktid \in sessions[id].rx_in_flight :
            sessions' = [sessions EXCEPT ![id].rx_in_flight = @ \ {pktid}]
    BY DEF pubrel_timeout_expired
  <1>2. /\ HasSession(id) /\ nothing_sent
        /\ UNCHANGED <<connectionVars, clientVars, subscriptionVars, retained, wills, latest>>
    BY DEF pubrel_timeout_expired
  <1>3. sessions[id] \in Session
    BY <1>2 DEF HasSession, TypeOK
  <1>4. /\ sessions' \in [ClientId -> Session \cup {NoSession}]
        /\ \A i \in ClientId : (HasSession(i))' =>
               HasSession(i) /\ sessions'[i].connection = sessions[i].connection
    BY <1>1, <1>2, <1>3 DEF TypeOK, HasSession, Session
  <1>5. Closing
    BY <1>2 DEF Closing, TypeOK, connectionVars, subscriptionVars, reads
  <1>6. SessionInv' /\ \A i \in ClientId :
               (HasSession(i))' => client_id'[sessions'[i].connection] = i
    BY <1>2, <1>4, <1>5, SessionsStay DEF connectionVars
  <1>7. TypeOK'
    BY <1>2, <1>4, <1>5, <1>6
    DEF TypeOK, Closing, nothing_sent, connectionVars, clientVars, subscriptionVars
  <1> QED
    BY <1>6, <1>7

\* One step of the network thread, or none.
LEMMA NextStep ==
    ASSUME TypeOK, SessionInv, [Next]_vars
    PROVE  TypeOK' /\ SessionInv'
  <1>1. ASSUME NEW c \in Connection,
               \/ start(c)
               \/ close_before_connect(c)
               \/ process_connect_packet(c)
               \/ connection_destroyed(c)
        PROVE  TypeOK' /\ SessionInv'
    BY <1>1, StartStep, CloseBeforeConnectStep, ConnectStep, DestroyedStep
  <1>2. ASSUME NEW c \in Connection,
               \/ connection_close_requested(c)
               \/ keep_alive_timeout_expired(c)
               \/ write_aborted(c)
               \/ process_disconnect_packet(c)
               \/ refused_written(c)
        PROVE  TypeOK' /\ SessionInv'
    BY <1>2, CloseRequestedStep, DisconnectStep
  <1>3. ASSUME NEW c \in Connection,
               \/ client_subscribed(c)
               \/ client_unsubscribed(c)
               \/ client_publishes(c)
               \/ client_resends(c)
               \/ client_released_publish(c)
               \/ protocol_violation(c)
        PROVE  TypeOK' /\ SessionInv'
    BY <1>3, SubscribedStep, UnsubscribedStep, PublishesStep, ReleasedStep, ViolationStep
  <1>4. CASE do_close_connections
    BY <1>4, ShutdownStep
  <1>5. ASSUME NEW id \in ClientId, pubrel_timeout_expired(id)
        PROVE  TypeOK' /\ SessionInv'
    BY <1>5, PubrelTimeoutStep
  <1>6. CASE UNCHANGED vars
    BY <1>6 DEF vars, connectionVars, clientVars, subscriptionVars, stepVars, TypeOK, SessionInv,
                HasSession, reads
  <1> QED
    BY <1>1, <1>2, <1>3, <1>4, <1>5, <1>6 DEF Next

-----------------------------------------------------------------------------
(* Types and last wills                                                     *)

LEMMA Invariance == Spec => [](TypeOK /\ SessionInv)
  <1>1. Init => TypeOK /\ SessionInv
    BY InitInv
  <1>2. (TypeOK /\ SessionInv) /\ [Next]_vars => (TypeOK /\ SessionInv)'
    BY NextStep
  <1> QED
    BY <1>1, <1>2, PTL DEF Spec

\* The store, the subscriptions and what is retained keep their types, and a
\* session found under a client's id is one of its connections'.
THEOREM TypeCorrect == Spec => []TypeOK
  BY Invariance, PTL

\* However many handlers of a connection ask for its close, and whatever other
\* connections of the client do, client_disconnected_ungracefully publishes the
\* last will announced on it once.
THEOREM WillPublishedAtMostOnce == Spec => []WillAtMostOnce
  <1>1. SessionInv => WillAtMostOnce
    BY DEF SessionInv, WillAtMostOnce
  <1> QED
    BY <1>1, Invariance, PTL

\* No handler publishes the last will of a connection on which DISCONNECT was
\* received: client_disconnected removed the session, and no other one refers
\* to that connection.  Nor is a will sent to a connection of its own client
\* (WillToOthers).
THEOREM WillGoesToOthers == Spec => WillOnlyToOthers
  <1> DEFINE Due ==
        \A c \in Connection : wills'[c] # wills[c] =>
            /\ c \notin disconnected
            /\ \A p \in sent' : client_id[p.to] # client_id[c]
  <1>1. TypeOK /\ SessionInv /\ [Next]_vars => [Due]_vars
    <2> SUFFICES ASSUME TypeOK, SessionInv, Next
                 PROVE  Due
      OBVIOUS
    <2>1. ASSUME NEW c \in Connection,
                 \/ connection_close_requested(c)
                 \/ keep_alive_timeout_expired(c)
                 \/ write_aborted(c)
          PROVE  Due
      <3>1. client_id[c] \in ClientId /\ client_disconnected_ungracefully(client_id[c])
        BY <2>1 DEF connection_close_requested, keep_alive_timeout_expired, write_aborted,
                    late_handled, reads, SessionInv
      <3> SUFFICES ASSUME NEW d \in Connection, wills'[d] # wills[d]
                   PROVE  /\ d \notin disconnected
                          /\ \A p \in sent' : client_id[p.to] # client_id[d]
        OBVIOUS
      <3>2. HasSession(client_id[c]) /\ d = sessions[client_id[c]].connection
        BY <3>1, UngracefulEffect DEF TypeOK
      <3>3. client_id[d] = client_id[c]
        BY <3>1, <3>2 DEF TypeOK
      <3>4. d \notin disconnected
        BY <3>1, <3>2 DEF SessionInv
      <3> QED
        BY <3>1, <3>3, <3>4, WillToOthers
    <2>2. ASSUME UNCHANGED wills
          PROVE  Due
      BY <2>2
    <2> HIDE DEF Due
    <2>3. ASSUME NEW c \in Connection,
                 \/ start(c)
                 \/ close_before_connect(c)
                 \/ process_connect_packet(c)
                 \/ process_disconnect_packet(c)
                 \/ refused_written(c)
                 \/ connection_destroyed(c)
          PROVE  UNCHANGED wills
      BY <2>3 DEF start, close_before_connect, process_connect_packet,
                  process_disconnect_packet, refused_written, connection_destroyed
    <2>4. ASSUME NEW c \in Connection,
                 \/ client_subscribed(c)
                 \/ client_unsubscribed(c)
                 \/ client_publishes(c)
                 \/ client_resends(c)
                 \/ client_released_publish(c)
                 \/ protocol_violation(c)
          PROVE  UNCHANGED wills
      BY <2>4 DEF client_subscribed, client_unsubscribed, client_publishes, client_resends,
                  client_published, client_released_publish, protocol_violation
    <2>5. ASSUME do_close_connections \/ \E id \in ClientId : pubrel_timeout_expired(id)
          PROVE  UNCHANGED wills
      BY <2>5 DEF do_close_connections, pubrel_timeout_expired
    <2> QED
      BY <2>1, <2>2, <2>3, <2>4, <2>5 DEF Next
  <1> QED
    BY <1>1, Invariance, PTL DEF Spec, WillOnlyToOthers

-----------------------------------------------------------------------------
(* One copy for each subscriber                                             *)

\* What SUBACK granted and what is stored agree as far as connections of one
\* client do not come between them.
GrantInv ==
    /\ \A c \in Connection : \A s \in granted[c] :
          s \in subscriptions /\ s.client_id = client_id[c] /\ s.maximum_qos # RESERVED
    /\ \A c \in Connection : granted[c] # {} => socket[c] = "connected"
    /\ \A c \in Connection : (socket[c] = "connected" /\ ~HasRival(c)) =>
          /\ answers(client_id[c], c)
          /\ \A s \in subscriptions :
                (s.client_id = client_id[c] /\ s.maximum_qos # RESERVED) => s \in granted[c]
    /\ \A s \in subscriptions : \E d \in Connection : client_id[d] = s.client_id

\* A step that changes neither subscriptions nor grants of connections that
\* stay open, nor takes the session of a client's only connection from it.
GrantsKept ==
    /\ UNCHANGED <<client_id, subscriptions>>
    /\ \A c \in Connection :
          \/ socket'[c] = socket[c] /\ granted'[c] = granted[c]
          \/ socket'[c] # "connected" /\ granted'[c] = {}
    /\ \A c \in Connection :
          (socket'[c] = "connected" /\ ~HasRival(c) /\ answers(client_id[c], c)) =>
              (answers(client_id[c], c))'

LEMMA GrantsStay ==
    ASSUME TypeOK, GrantInv, GrantsKept
    PROVE  GrantInv'
  <1>1. \A c \in Connection : (HasRival(c))' <=> HasRival(c)
    BY DEF HasRival, GrantsKept
  <1>2. \A c \in Connection : socket'[c] = "connected" => socket[c] = "connected"
    BY DEF GrantsKept
  <1> QED
    BY <1>1, <1>2 DEF GrantInv, GrantsKept

\* The copies of a message that go to a connection whose client has its session
\* on it: one, at the highest level the client subscribed with.
LEMMA OneCopy ==
    ASSUME TypeOK, GrantInv, NEW c \in Connection, NEW topic, NEW message, NEW store,
           socket[c] = "connected", client_id[c] \in ClientId,
           Granted(c, topic) # {}, ~AskedReserved(c, topic),
           store[client_id[c]] # NoSession, store[client_id[c]].connection = c,
           \A id \in ClientId : store[id] # NoSession => client_id[store[id].connection] = id
    PROVE  LET copies == {p \in publish(store, topic, message) : p.to = c}
               level  == Max(Granted(c, topic))
           IN  /\ Cardinality(copies) = 1
               /\ \A p \in copies : p.qos = level \/ (p.qos > level /\ HasRival(c))
  <1> DEFINE id == client_id[c]
             copies == {p \in publish(store, topic, message) : p.to = c}
             level == Max(Granted(c, topic))
             highest == Max(Levels(id, topic))
             copy == [to |-> c, topic |-> topic, message |-> message, qos |-> highest,
                      retain |-> FALSE]
  <1>1. Granted(c, topic) \subseteq Levels(id, topic)
    BY DEF Granted, Levels, GrantInv
  <1>2. Levels(id, topic) \in SUBSET (0 .. 3)
    <2>1. \A s \in subscriptions : s.maximum_qos \in 0 .. 3
      BY ConstantsAssumption DEF TypeOK, subscription_container
    <2> QED
      BY <2>1 DEF Levels
  <1>3. /\ level \in Granted(c, topic) /\ level \in 0 .. 3
        /\ \A l \in Granted(c, topic) : l <= level
    BY <1>1, <1>2, MaxLevel
  <1>4. /\ highest \in Levels(id, topic) /\ highest \in 0 .. 3
        /\ \A l \in Levels(id, topic) : l <= highest
    BY <1>1, <1>2, MaxLevel
  <1>5. highest # RESERVED
    BY <1>4 DEF Levels, AskedReserved
  <1>6. [client_id |-> id, maximum_qos |-> highest] \in resolve_subscribers(topic)
    <2>1. id \in Subscribers(topic)
      BY <1>4 DEF Levels, Subscribers
    <2> QED
      BY <2>1 DEF resolve_subscribers, Levels
  <1>7. \A r \in resolve_subscribers(topic) :
           r.client_id = id => r = [client_id |-> id, maximum_qos |-> highest]
    <2> SUFFICES ASSUME NEW r \in resolve_subscribers(topic), r.client_id = id
                 PROVE  r = [client_id |-> id, maximum_qos |-> highest]
      OBVIOUS
    <2>1. PICK i \in Subscribers(topic) :
              r = [client_id |-> i, maximum_qos |-> Max(Levels(i, topic))]
      BY DEF resolve_subscribers, Levels
    <2>2. i = id
      BY <2>1
    <2> QED
      BY <2>1, <2>2
  <1>8. copy \in copies
    <2> DEFINE r == [client_id |-> id, maximum_qos |-> highest]
    <2>1. /\ r \in resolve_subscribers(topic) /\ r.maximum_qos # RESERVED
          /\ store[r.client_id] # NoSession
          /\ socket[store[r.client_id].connection] = "connected"
      BY <1>5, <1>6
    <2>2. copy = [to |-> store[r.client_id].connection, topic |-> topic, message |-> message,
                  qos |-> r.maximum_qos, retain |-> FALSE]
      OBVIOUS
    <2>3. copy \in publish(store, topic, message)
      BY <2>1, <2>2 DEF publish
    <2> QED
      BY <2>3
  <1>9. \A p \in copies : p = copy
    <2> SUFFICES ASSUME NEW r \in resolve_subscribers(topic),
                        store[r.client_id] # NoSession, store[r.client_id].connection = c
                 PROVE  r = [client_id |-> id, maximum_qos |-> highest]
      BY DEF publish
    <2>1. r.client_id \in ClientId
      BY ResolvedLevel
    <2> QED
      BY <2>1, <1>7
  <1>10. copies = {copy}
    BY <1>8, <1>9
  <1>11. Cardinality(copies) = 1
    BY <1>10, FS_Singleton
  <1>12. highest = level \/ (highest > level /\ HasRival(c))
    <2>1. level <= highest
      BY <1>1, <1>3, <1>4
    <2>2. ASSUME ~HasRival(c)
          PROVE  highest \in Granted(c, topic)
      <3>1. PICK s \in subscriptions :
               /\ s.client_id = id /\ s.maximum_qos = highest
               /\ topic_filter_matches_topic(s.topic_filter, topic)
        BY <1>4 DEF Levels
      <3> HIDE DEF highest
      <3>2. s \in granted[c]
        BY <1>5, <2>2, <3>1 DEF GrantInv
      <3> QED
        BY <3>1, <3>2 DEF Granted
    <2> QED
      BY <1>3, <1>4, <2>1, <2>2
  <1> QED
    BY <1>9, <1>11, <1>12

\* A handler that forwards a message, to the sessions it leaves in the store,
\* gives each subscriber its one copy.
LEMMA ForwardedOnce ==
    ASSUME TypeOK, SessionInv, GrantInv, GrantsKept,
           NEW topic, NEW message, NEW store, forwards(store, topic, message),
           \A id \in ClientId : store[id] # NoSession =>
               HasSession(id) /\ store[id].connection = sessions[id].connection,
           \A id \in ClientId : (HasSession(id))' =>
               store[id] # NoSession /\ store[id].connection = sessions'[id].connection
    PROVE  SubscribersGetOneCopy'
  <1> SUFFICES ASSUME NEW c \in Connection, socket'[c] = "connected",
                      (Granted(c, topic))' # {}, ~(AskedReserved(c, topic))',
                      ~(HasRival(c) /\ ~answers(client_id[c], c))'
               PROVE  (GetsOneCopy(c, topic))'
    BY DEF SubscribersGetOneCopy, forwards
  <1>1. socket[c] = "connected" /\ granted'[c] = granted[c]
    BY DEF GrantsKept
  <1>2. client_id[c] \in ClientId
    BY <1>1 DEF SessionInv, reads
  <1>3. /\ (Granted(c, topic))' = Granted(c, topic)
        /\ (AskedReserved(c, topic))' <=> AskedReserved(c, topic)
        /\ (HasRival(c))' <=> HasRival(c)
    BY <1>1 DEF Granted, AskedReserved, HasRival, GrantsKept
  <1>4. (answers(client_id[c], c))'
    BY <1>1, <1>3 DEF GrantInv, GrantsKept
  <1>5. store[client_id[c]] # NoSession /\ store[client_id[c]].connection = c
    BY <1>2, <1>4 DEF answers, GrantsKept
  <1>6. \A id \in ClientId : store[id] # NoSession => client_id[store[id].connection] = id
    BY DEF TypeOK
  <1>7. LET copies == {p \in publish(store, topic, message) : p.to = c}
            level  == Max(Granted(c, topic))
        IN  /\ Cardinality(copies) = 1
            /\ \A p \in copies : p.qos = level \/ (p.qos > level /\ HasRival(c))
    BY <1>1, <1>2, <1>3, <1>5, <1>6, OneCopy
  <1> QED
    BY <1>3, <1>7 DEF GetsOneCopy, forwards

\* Handlers that forward nothing and leave the grants of open connections.
LEMMA QuietKeepsGrants ==
    ASSUME TypeOK, SessionInv, GrantInv,
           \/ \E c \in Connection :
                 \/ start(c)
                 \/ close_before_connect(c)
                 \/ process_disconnect_packet(c)
                 \/ refused_written(c)
                 \/ connection_destroyed(c)
                 \/ client_released_publish(c)
                 \/ protocol_violation(c)
           \/ do_close_connections
           \/ \E id \in ClientId : pubrel_timeout_expired(id)
    PROVE  GrantsKept /\ dispatched' = {}
  <1> USE DEF nothing_sent, subscriptionVars, connectionVars
  <1>1. ASSUME NEW c \in Connection, start(c)
        PROVE  GrantsKept /\ dispatched' = {}
    BY <1>1 DEF start, GrantsKept, GrantInv, answers, HasSession, TypeOK
  <1>2. ASSUME NEW c \in Connection, close_before_connect(c)
        PROVE  GrantsKept /\ dispatched' = {}
    <2>1. /\ UNCHANGED <<client_id, subscriptions, sessions>> /\ dispatched' = {}
          /\ stop({c}, {}) /\ socket[c] = "connecting"
      BY <1>2 DEF close_before_connect
    <2>2. \A d \in Connection :
             \/ socket'[d] = socket[d] /\ granted'[d] = granted[d]
             \/ socket'[d] # "connected" /\ granted'[d] = {}
      BY <2>1, StopEffect
    <2> QED
      BY <2>1, <2>2 DEF GrantsKept, answers, HasSession
  <1>3. ASSUME NEW c \in Connection, process_disconnect_packet(c) \/ refused_written(c)
        PROVE  GrantsKept /\ dispatched' = {}
    <2>1. /\ sessions' = remove(client_id[c]) /\ client_id[c] \in ClientId
          /\ UNCHANGED <<client_id, subscriptions>>
          /\ dispatched' = {}
      BY <1>3 DEF process_disconnect_packet, refused_written, client_disconnected,
                  late_handled, reads, SessionInv
    <2>2. /\ socket'[c] # "connected"
          /\ \A d \in Connection :
                \/ socket'[d] = socket[d] /\ granted'[d] = granted[d]
                \/ socket'[d] # "connected" /\ granted'[d] = {}
      BY <1>3, StopEffect DEF process_disconnect_packet, refused_written, late_handled, TypeOK
    <2>3. \A d \in Connection :
             (socket'[d] = "connected" /\ ~HasRival(d)) => client_id[d] # client_id[c]
      BY <2>2 DEF HasRival
    <2> QED
      BY <2>1, <2>2, <2>3 DEF GrantsKept, answers, remove, HasSession
  <1>4. ASSUME NEW c \in Connection, connection_destroyed(c)
        PROVE  GrantsKept /\ dispatched' = {}
    BY <1>4 DEF connection_destroyed, GrantsKept, GrantInv, answers, HasSession, TypeOK
  <1>5. ASSUME NEW c \in Connection, client_released_publish(c)
        PROVE  GrantsKept /\ dispatched' = {}
    <2> DEFINE id == client_id[c]
    <2>1. PICK p \in unreleased[c], cs \in {{}, {sessions[id].connection}} :
              /\ \/ sessions' = sessions
                 \/ /\ HasSession(id)
                    /\ sessions' = [sessions EXCEPT
                           ![id].rx_in_flight = @ \ {p.packet_identifier}]
              /\ cs = {} \/ HasSession(id)
              /\ stop(cs, {c})
      BY <1>5 DEF client_released_publish
    <2>2. id \in ClientId /\ (HasSession(id) => sessions[id] \in Session)
      BY <1>5 DEF client_released_publish, SessionInv, HasSession, TypeOK
    <2>3. cs \in SUBSET Connection
      BY <2>1, <2>2 DEF Session
    <2>4. \A d \in Connection :
             \/ socket'[d] = socket[d] /\ granted'[d] = granted[d]
             \/ socket'[d] # "connected" /\ granted'[d] = {}
      BY <2>1, <2>3, StopEffect
    <2>5. \A i \in ClientId : HasSession(i) =>
             (HasSession(i))' /\ sessions'[i].connection = sessions[i].connection
      BY <2>1, <2>2, ConstantsAssumption DEF HasSession, Session, TypeOK
    <2>6. \A d \in Connection : socket'[d] = "connected" => client_id[d] \in ClientId
      BY <2>4 DEF SessionInv, reads
    <2> QED
      BY <1>5, <2>4, <2>5, <2>6 DEF client_released_publish, GrantsKept, answers
  <1>6. ASSUME NEW c \in Connection, protocol_violation(c)
        PROVE  GrantsKept /\ dispatched' = {}
    <2>1. sessions[client_id[c]].connection \in Connection
      BY <1>6 DEF protocol_violation, SessionInv, HasSession, TypeOK, Session
    <2> QED
      BY <1>6, <2>1, StopEffect DEF protocol_violation, GrantsKept, answers, HasSession
  <1>7. CASE do_close_connections
    BY <1>7, StopEffect DEF do_close_connections, GrantsKept, answers, HasSession
  <1>8. ASSUME NEW id \in ClientId, pubrel_timeout_expired(id)
        PROVE  GrantsKept /\ dispatched' = {}
    <2>1. PICK pktid \in sessions[id].rx_in_flight :
              sessions' = [sessions EXCEPT ![id].rx_in_flight = @ \ {pktid}]
      BY <1>8 DEF pubrel_timeout_expired
    <2>2. HasSession(id) /\ sessions[id] \in Session
      BY <1>8 DEF pubrel_timeout_expired, HasSession, TypeOK
    <2>3. \A i \in ClientId : HasSession(i) =>
             (HasSession(i))' /\ sessions'[i].connection = sessions[i].connection
      BY <2>1, <2>2, ConstantsAssumption DEF HasSession, Session, TypeOK
    <2>4. \A d \in Connection : socket[d] = "connected" => client_id[d] \in ClientId
      BY DEF SessionInv, reads
    <2> QED
      BY <1>8, <2>3, <2>4 DEF pubrel_timeout_expired, GrantsKept, answers
  <1> QED
    BY <1>1, <1>2, <1>3, <1>4, <1>5, <1>6, <1>7, <1>8

\* A connection that ends without DISCONNECT takes its client's session along,
\* whose will goes out to the others.
LEMMA WillForwarded ==
    ASSUME TypeOK, SessionInv, GrantInv, NEW c \in Connection,
           \/ connection_close_requested(c)
           \/ keep_alive_timeout_expired(c)
           \/ write_aborted(c)
    PROVE  GrantsKept /\ SubscribersGetOneCopy'
  <1> DEFINE id == client_id[c]
  <1>1. /\ client_disconnected_ungracefully(id) /\ id \in ClientId
        /\ UNCHANGED <<client_id, subscriptions>>
    BY DEF connection_close_requested, keep_alive_timeout_expired, write_aborted,
           late_handled, reads, SessionInv, subscriptionVars
  <1>2. sessions' = remove(id)
    BY <1>1, UngracefulEffect
  <1>3. /\ socket'[c] # "connected"
        /\ \A d \in Connection :
              \/ socket'[d] = socket[d] /\ granted'[d] = granted[d]
              \/ socket'[d] # "connected" /\ granted'[d] = {}
    BY StopEffect DEF connection_close_requested, keep_alive_timeout_expired, write_aborted,
                      late_handled, TypeOK, subscriptionVars
  <1>4. \A d \in Connection :
           (socket'[d] = "connected" /\ ~HasRival(d)) => client_id[d] # id
    BY <1>3 DEF HasRival
  <1>5. GrantsKept
    BY <1>1, <1>2, <1>3, <1>4 DEF GrantsKept, answers, remove, HasSession
  <1>6. SubscribersGetOneCopy'
    <2>1. CASE dispatched' = {}
      BY <2>1 DEF SubscribersGetOneCopy
    <2>2. CASE forwards(remove(id), sessions[id].lwt_message, sessions[id].connection)
      <3>1. \A i \in ClientId : remove(id)[i] # NoSession =>
               HasSession(i) /\ remove(id)[i].connection = sessions[i].connection
        BY DEF remove, HasSession, TypeOK
      <3>2. \A i \in ClientId : (HasSession(i))' =>
               remove(id)[i] # NoSession /\ remove(id)[i].connection = sessions'[i].connection
        BY <1>2 DEF HasSession
      <3> QED
        BY <1>5, <2>2, <3>1, <3>2, ForwardedOnce
    <2> QED
      BY <1>1, <2>1, <2>2 DEF client_disconnected_ungracefully, nothing_sent
  <1> QED
    BY <1>5, <1>6

\* A PUBLISH is forwarded, and recorded by its publisher's session.
LEMMA PublishForwarded ==
    ASSUME TypeOK, SessionInv, GrantInv, NEW c \in Connection,
           client_publishes(c) \/ client_resends(c)
    PROVE  GrantsKept /\ SubscribersGetOneCopy'
  <1> DEFINE id == client_id[c]
  <1>1. PICK p \in Publish : client_published(c, p)
    BY DEF client_publishes, client_resends, TypeOK
  <1>2. /\ id \in ClientId
        /\ UNCHANGED <<socket, client_id, subscriptionVars>>
    BY <1>1 DEF client_publishes, client_resends, client_published, read_handled, SessionInv
  <1>3. \A i \in ClientId : HasSession(i) <=> (HasSession(i))'
    BY <1>1, PublishedSessions DEF client_publishes, client_resends
  <1>4. \A i \in ClientId : HasSession(i) => sessions'[i].connection = sessions[i].connection
    BY <1>1, PublishedSessions DEF client_publishes, client_resends
  <1>5. GrantsKept
    <2>1. \A d \in Connection : socket[d] = "connected" => client_id[d] \in ClientId
      BY DEF SessionInv, reads
    <2> QED
      BY <1>2, <1>3, <1>4, <2>1 DEF GrantsKept, answers, subscriptionVars
  <1>6. SubscribersGetOneCopy'
    <2>1. CASE dispatched' = {}
      BY <2>1 DEF SubscribersGetOneCopy
    <2>2. CASE forwards(sessions, p.topic, p.message)
      <3>1. \A i \in ClientId : sessions[i] # NoSession => HasSession(i)
        BY DEF HasSession
      <3>2. \A i \in ClientId : (HasSession(i))' =>
               sessions[i] # NoSession /\ sessions[i].connection = sessions'[i].connection
        BY <1>3, <1>4 DEF HasSession
      <3> QED
        BY <1>5, <2>2, <3>1, <3>2, ForwardedOnce
    <2> QED
      BY <1>1, <2>1, <2>2 DEF client_published, nothing_sent
  <1> QED
    BY <1>5, <1>6

\* A client that had no other connection gets a session, and nobody subscribed
\* on its behalf.
LEMMA ConnectGrants ==
    ASSUME TypeOK, SessionInv, GrantInv, NEW c \in Connection, process_connect_packet(c)
    PROVE  GrantInv' /\ dispatched' = {}
  <1>1. PICK id \in ClientId, lwt \in Topic \cup {NoMessage} :
            /\ client_id' = [client_id EXCEPT ![c] = id]
            /\ sessions' = insert(c, id, lwt)
    BY DEF process_connect_packet
  <1>2. /\ socket[c] = "connecting" /\ client_id[c] = NoClientId
        /\ socket' = [socket EXCEPT ![c] = "connected"]
        /\ UNCHANGED <<subscriptions, granted>>
        /\ dispatched' = {}
    BY DEF process_connect_packet, SessionInv, subscriptionVars, nothing_sent
  <1>3. \A d \in Connection \ {c} :
           (client_id[d] # NoClientId /\ ~(HasRival(d))') => (~HasRival(d) /\ client_id[d] # id)
    <2> SUFFICES ASSUME NEW d \in Connection \ {c}, client_id[d] # NoClientId, ~(HasRival(d))'
                 PROVE  ~HasRival(d) /\ client_id[d] # id
      OBVIOUS
    <2>1. \A e \in Connection \ {d} : client_id'[e] # client_id'[d]
      BY DEF HasRival
    <2>2. client_id'[c] = id /\ \A e \in Connection \ {c} : client_id'[e] = client_id[e]
      BY <1>1 DEF TypeOK
    <2>3. client_id[d] # id
      BY <2>1, <2>2
    <2>4. \A e \in Connection \ {d} : client_id[e] # client_id[d]
      BY <1>2, <2>1, <2>2
    <2> QED
      BY <2>3, <2>4 DEF HasRival
  <1>4. granted[c] = {}
    BY <1>2 DEF GrantInv
  <1>5. \A s \in subscriptions : s.client_id \in ClientId
    BY DEF TypeOK, subscription_container
  <1>6. (~HasRival(c))' =>
            /\ (answers(client_id[c], c))'
            /\ \A s \in subscriptions : s.client_id # id
    <2> SUFFICES ASSUME ~(HasRival(c))'
                 PROVE  (answers(client_id[c], c))' /\ \A s \in subscriptions : s.client_id # id
      OBVIOUS
    <2>1. \A d \in Connection \ {c} : client_id[d] # id
      BY <1>1 DEF HasRival, TypeOK
    <2>2. \A d \in Connection : client_id[d] # id
      BY <1>2, <2>1, ConstantsAssumption
    <2>3. ~HasSession(id)
      BY <2>2 DEF HasSession, TypeOK, Session
    <2>4. [connection |-> c, lwt_message |-> lwt, rx_in_flight |-> {}] \in Session
      BY DEF Session
    <2>5. (answers(client_id[c], c))'
      BY <1>1, <1>2, <2>3, <2>4, ConstantsAssumption DEF insert, answers, HasSession, TypeOK
    <2> QED
      BY <2>2, <2>5 DEF GrantInv
  <1>7. \A d \in Connection \ {c} : (socket[d] = "connected" /\ ~(HasRival(d))') =>
            (answers(client_id[d], d))'
    <2> SUFFICES ASSUME NEW d \in Connection \ {c}, socket[d] = "connected", ~(HasRival(d))'
                 PROVE  (answers(client_id[d], d))'
      OBVIOUS
    <2>1. client_id[d] \in ClientId
      BY DEF SessionInv, reads
    <2>2. answers(client_id[d], d) /\ client_id[d] # id
      BY <1>3, <2>1, ConstantsAssumption DEF GrantInv
    <2> QED
      BY <1>1, <1>2, <2>1, <2>2 DEF insert, answers, HasSession, TypeOK
  <1>8. \A d \in Connection : granted'[d] # {} => socket'[d] = "connected"
    BY <1>2 DEF GrantInv, TypeOK
  <1>9. \A d \in Connection : \A s \in granted'[d] :
           s \in subscriptions' /\ s.client_id = client_id'[d] /\ s.maximum_qos # RESERVED
    BY <1>1, <1>2, <1>4 DEF GrantInv, TypeOK
  <1>10. \A s \in subscriptions' : \E d \in Connection : client_id'[d] = s.client_id
    BY <1>1, <1>2, <1>5, ConstantsAssumption DEF GrantInv, TypeOK
  <1>11. \A d \in Connection : (socket'[d] = "connected" /\ ~(HasRival(d))') =>
          /\ (answers(client_id[d], d))'
          /\ \A s \in subscriptions' :
                (s.client_id = client_id'[d] /\ s.maximum_qos # RESERVED) => s \in granted'[d]
    <2> SUFFICES ASSUME NEW d \in Connection, socket'[d] = "connected", ~(HasRival(d))'
                 PROVE  /\ (answers(client_id[d], d))'
                        /\ \A s \in subscriptions' :
                              (s.client_id = client_id'[d] /\ s.maximum_qos # RESERVED)
                                  => s \in granted'[d]
      OBVIOUS
    <2>1. CASE d = c
      BY <1>1, <1>2, <1>6, <2>1 DEF TypeOK
    <2>2. CASE d # c
      <3>1. socket[d] = "connected" /\ client_id'[d] = client_id[d]
        BY <1>1, <1>2, <2>2 DEF TypeOK
      <3>2. client_id[d] \in ClientId
        BY <3>1 DEF SessionInv, reads
      <3>3. ~HasRival(d)
        BY <1>3, <2>2, <3>2, ConstantsAssumption
      <3> QED
        BY <1>2, <1>7, <2>2, <3>1, <3>3 DEF GrantInv
    <2> QED
      BY <2>1, <2>2
  <1> QED
    BY <1>2, <1>8, <1>9, <1>10, <1>11 DEF GrantInv

LEMMA SubscribedGrants ==
    ASSUME TypeOK, SessionInv, GrantInv, NEW c \in Connection, client_subscribed(c)
    PROVE  GrantInv' /\ dispatched' = {}
  <1> DEFINE id == client_id[c]
  <1>1. PICK filter \in TopicFilter, maximum_qos \in MaximumQoS :
          LET s == [topic_filter |-> filter, maximum_qos |-> maximum_qos, client_id |-> id]
          IN  /\ subscriptions' = subscriptions \cup {s}
              /\ granted' = [d \in Connection |->
                    granted[d] \cup IF answers(id, d) /\ maximum_qos # RESERVED THEN {s} ELSE {}]
    BY DEF client_subscribed
  <1>2. /\ id \in ClientId
        /\ sessions' = session_send(id)
        /\ UNCHANGED <<socket, client_id>>
        /\ dispatched' = {}
    BY DEF client_subscribed, SessionInv, read_handled
  <1>3. \A d \in Connection : answers(id, d) => client_id[d] = id /\ socket[d] = "connected"
    BY <1>2 DEF answers, TypeOK
  <1>4. \A d \in Connection : (socket[d] = "connected" /\ ~HasRival(d) /\ client_id[d] = id) =>
           answers(id, d)
    BY DEF GrantInv
  <1>5. \A d \in Connection : (socket[d] = "connected" /\ ~HasRival(d)) =>
           (answers(client_id[d], d))'
    <2> SUFFICES ASSUME NEW d \in Connection, socket[d] = "connected", ~HasRival(d)
                 PROVE  (answers(client_id[d], d))'
      OBVIOUS
    <2>1. answers(client_id[d], d) /\ client_id[d] \in ClientId
      BY DEF GrantInv, SessionInv, reads
    <2> QED
      BY <1>2, <2>1, SessionSend DEF answers, alive, HasSession
  <1>6. \A d \in Connection : (HasRival(d))' <=> HasRival(d)
    BY <1>2 DEF HasRival
  <1> QED
    BY <1>1, <1>2, <1>3, <1>4, <1>5, <1>6 DEF GrantInv

LEMMA UnsubscribedGrants ==
    ASSUME TypeOK, SessionInv, GrantInv, NEW c \in Connection, client_unsubscribed(c)
    PROVE  GrantInv' /\ dispatched' = {}
  <1> DEFINE id == client_id[c]
  <1>1. PICK filter \in TopicFilter :
              /\ subscriptions' = {s \in subscriptions : s.topic_filter \notin {filter}}
              /\ granted' = [d \in Connection |-> {s \in granted[d] : s.topic_filter # filter}]
    BY DEF client_unsubscribed, unsubscribe
  <1>2. /\ id \in ClientId
        /\ sessions' = session_send(id)
        /\ UNCHANGED <<socket, client_id>>
        /\ dispatched' = {}
    BY DEF client_unsubscribed, SessionInv, read_handled, nothing_sent
  <1>3. \A d \in Connection : (socket[d] = "connected" /\ ~HasRival(d)) =>
           (answers(client_id[d], d))'
    <2> SUFFICES ASSUME NEW d \in Connection, socket[d] = "connected", ~HasRival(d)
                 PROVE  (answers(client_id[d], d))'
      OBVIOUS
    <2>1. answers(client_id[d], d) /\ client_id[d] \in ClientId
      BY DEF GrantInv, SessionInv, reads
    <2> QED
      BY <1>2, <2>1, SessionSend DEF answers, alive, HasSession
  <1>4. \A d \in Connection : (HasRival(d))' <=> HasRival(d)
    BY <1>2 DEF HasRival
  <1> QED
    BY <1>1, <1>2, <1>3, <1>4 DEF GrantInv

LEMMA GrantStep ==
    ASSUME TypeOK, SessionInv, GrantInv, SubscribersGetOneCopy, [Next]_vars
    PROVE  GrantInv' /\ SubscribersGetOneCopy'
  <1>1. ASSUME GrantsKept \/ GrantInv', dispatched' = {}
        PROVE  GrantInv' /\ SubscribersGetOneCopy'
    BY <1>1, GrantsStay DEF SubscribersGetOneCopy
  <1>2. ASSUME GrantsKept /\ SubscribersGetOneCopy'
        PROVE  GrantInv' /\ SubscribersGetOneCopy'
    BY <1>2, GrantsStay
  <1>3. CASE UNCHANGED vars
    <2>1. UNCHANGED <<socket, client_id, sessions, subscriptions, granted, sent, dispatched>>
      BY <1>3 DEF vars, connectionVars, subscriptionVars, stepVars
    <2>2. GrantInv'
      BY <2>1 DEF GrantInv, HasRival, answers, HasSession
    <2>3. SubscribersGetOneCopy'
      BY <2>1 DEF SubscribersGetOneCopy, GetsOneCopy, Granted, AskedReserved, HasRival, answers,
                  HasSession
    <2> QED
      BY <2>2, <2>3
  <1>4. CASE Next
    BY <1>1, <1>2, <1>4, QuietKeepsGrants, WillForwarded, PublishForwarded, ConnectGrants,
       SubscribedGrants, UnsubscribedGrants DEF Next
  <1> QED
    BY <1>3, <1>4

\* What topic_subscriptions, the session store and the connections make of a
\* message together: every connected client that was granted the topic gets one
\* copy, at the level it was granted.
THEOREM OneCopyForEach == Spec => []SubscribersGetOneCopy
  <1>1. Init => GrantInv /\ SubscribersGetOneCopy
    BY DEF Init, GrantInv, SubscribersGetOneCopy
  <1>2. TypeOK /\ SessionInv /\ (GrantInv /\ SubscribersGetOneCopy) /\ [Next]_vars
            => (GrantInv /\ SubscribersGetOneCopy)'
    BY GrantStep
  <1> QED
    BY <1>1, <1>2, Invariance, PTL DEF Spec

-----------------------------------------------------------------------------
(* What is retained                                                         *)

\* While no client has sent PUBLISH again and none has two connections, a
\* session whose connection lives remembers only what its client has not
\* released: a new PUBLISH is never taken for a copy.
LatestInv ==
    NeitherResentNorReconnected =>
        /\ retained = latest
        /\ \A id \in ClientId : (HasSession(id) /\ alive(sessions[id].connection)) =>
              sessions[id].rx_in_flight
                  \subseteq {p.packet_identifier : p \in unreleased[sessions[id].connection]}

\* A step that retains nothing, and in which sessions only forget.
RetainedKept ==
    /\ UNCHANGED <<client_id, unreleased, resent, retained, latest>>
    /\ \A c \in Connection : (alive(c))' => alive(c)
    /\ \A id \in ClientId : (HasSession(id))' =>
          /\ HasSession(id)
          /\ sessions'[id].connection = sessions[id].connection
          /\ sessions'[id].rx_in_flight \subseteq sessions[id].rx_in_flight

LEMMA RetainedStays ==
    ASSUME TypeOK, LatestInv, RetainedKept
    PROVE  LatestInv'
  <1>1. \A id \in ClientId : HasSession(id) => sessions[id].connection \in Connection
    BY DEF HasSession, TypeOK, Session
  <1>2. (NeitherResentNorReconnected)' => NeitherResentNorReconnected
    BY DEF NeitherResentNorReconnected, RetainedKept
  <1> SUFFICES ASSUME (NeitherResentNorReconnected)'
               PROVE  /\ retained' = latest'
                      /\ \A id \in ClientId :
                            ((HasSession(id))' /\ (alive(sessions[id].connection))') =>
                               sessions'[id].rx_in_flight \subseteq
                                  {p.packet_identifier : p \in unreleased'[sessions'[id].connection]}
    BY DEF LatestInv
  <1>3. ASSUME NEW id \in ClientId, (HasSession(id))', (alive(sessions[id].connection))'
        PROVE  sessions'[id].rx_in_flight \subseteq
                   {p.packet_identifier : p \in unreleased'[sessions'[id].connection]}
    <2>1. /\ HasSession(id) /\ sessions'[id].connection = sessions[id].connection
          /\ sessions'[id].rx_in_flight \subseteq sessions[id].rx_in_flight
          /\ unreleased' = unreleased
      BY <1>3 DEF RetainedKept
    <2>2. alive(sessions[id].connection)
      BY <1>1, <1>3, <2>1 DEF RetainedKept, alive
    <2>3. sessions[id].rx_in_flight
              \subseteq {p.packet_identifier : p \in unreleased[sessions[id].connection]}
      BY <1>2, <2>1, <2>2 DEF LatestInv
    <2> QED
      BY <2>1, <2>3
  <1> QED
    BY <1>2, <1>3 DEF LatestInv, RetainedKept

LEMMA QuietKeepsRetained ==
    ASSUME TypeOK, SessionInv,
           \/ \E c \in Connection :
                 \/ start(c)
                 \/ close_before_connect(c)
                 \/ connection_close_requested(c)
                 \/ keep_alive_timeout_expired(c)
                 \/ process_disconnect_packet(c)
                 \/ refused_written(c)
                 \/ write_aborted(c)
                 \/ client_subscribed(c)
                 \/ client_unsubscribed(c)
                 \/ protocol_violation(c)
           \/ do_close_connections
           \/ \E id \in ClientId : pubrel_timeout_expired(id)
    PROVE  RetainedKept
  <1> USE DEF clientVars, connectionVars
  <1>1. \A d \in Connection, cs \in SUBSET Connection, handled \in SUBSET Connection :
           (stop(cs, handled) /\ (alive(d))') => alive(d)
    BY DEF stop, alive, TypeOK
  <1>2. ASSUME NEW c \in Connection, start(c)
        PROVE  RetainedKept
    BY <1>2 DEF start, RetainedKept, alive, HasSession, TypeOK
  <1>3. ASSUME NEW c \in Connection, close_before_connect(c)
        PROVE  RetainedKept
    BY <1>1, <1>3 DEF close_before_connect, RetainedKept, HasSession
  <1>4. ASSUME NEW c \in Connection,
               \/ connection_close_requested(c)
               \/ keep_alive_timeout_expired(c)
               \/ process_disconnect_packet(c)
               \/ refused_written(c)
               \/ write_aborted(c)
        PROVE  RetainedKept
    <2>1. client_id[c] \in ClientId
      BY <1>4 DEF connection_close_requested, keep_alive_timeout_expired, write_aborted,
                  process_disconnect_packet, refused_written, late_handled, reads, SessionInv
    <2>2. /\ sessions' = remove(client_id[c])
          /\ UNCHANGED <<client_id, unreleased, resent, retained, latest>>
      BY <1>4 DEF connection_close_requested, keep_alive_timeout_expired, write_aborted,
                  process_disconnect_packet, refused_written, client_disconnected,
                  client_disconnected_ungracefully
    <2>3. \A d \in Connection : (alive(d))' => alive(d)
      BY <1>1, <1>4 DEF connection_close_requested, keep_alive_timeout_expired, write_aborted,
                        process_disconnect_packet, refused_written, alive
    <2> QED
      BY <2>1, <2>2, <2>3 DEF RetainedKept, remove, HasSession, TypeOK
  <1>5. ASSUME NEW c \in Connection, client_subscribed(c) \/ client_unsubscribed(c)
        PROVE  RetainedKept
    <2>1. client_id[c] \in ClientId
      BY <1>5 DEF client_subscribed, client_unsubscribed, SessionInv
    <2>2. /\ sessions' = session_send(client_id[c])
          /\ UNCHANGED <<socket, client_id, unreleased, resent, retained, latest>>
      BY <1>5 DEF client_subscribed, client_unsubscribed, read_handled
    <2> QED
      BY <2>1, <2>2, SessionSend DEF RetainedKept, alive
  <1>6. ASSUME NEW c \in Connection, protocol_violation(c)
        PROVE  RetainedKept
    <2>1. sessions[client_id[c]].connection \in Connection
      BY <1>6 DEF protocol_violation, SessionInv, HasSession, TypeOK, Session
    <2> QED
      BY <1>1, <1>6, <2>1 DEF protocol_violation, RetainedKept, HasSession
  <1>7. CASE do_close_connections
    BY <1>1, <1>7 DEF do_close_connections, RetainedKept, HasSession
  <1>8. ASSUME NEW id \in ClientId, pubrel_timeout_expired(id)
        PROVE  RetainedKept
    <2>1. PICK pktid \in sessions[id].rx_in_flight :
              sessions' = [sessions EXCEPT ![id].rx_in_flight = @ \ {pktid}]
      BY <1>8 DEF pubrel_timeout_expired
    <2>2. HasSession(id) /\ sessions[id] \in Session
      BY <1>8 DEF pubrel_timeout_expired, HasSession, TypeOK
    <2>3. \A i \in ClientId : (HasSession(i))' =>
             /\ HasSession(i)
             /\ sessions'[i].connection = sessions[i].connection
             /\ sessions'[i].rx_in_flight \subseteq sessions[i].rx_in_flight
      BY <2>1, <2>2 DEF HasSession, Session, TypeOK
    <2> QED
      BY <1>8, <2>3 DEF pubrel_timeout_expired, RetainedKept, alive
  <1> QED
    BY <1>2, <1>3, <1>4, <1>5, <1>6, <1>7, <1>8

\* CONNECT of a client that has no other connection makes a new session.
LEMMA ConnectRetains ==
    ASSUME TypeOK, SessionInv, LatestInv, NEW c \in Connection, process_connect_packet(c)
    PROVE  LatestInv'
  <1> SUFFICES ASSUME (NeitherResentNorReconnected)'
               PROVE  LatestInv'
    BY DEF LatestInv
  <1>1. PICK id \in ClientId, lwt \in Topic \cup {NoMessage} :
            /\ client_id' = [client_id EXCEPT ![c] = id]
            /\ sessions' = insert(c, id, lwt)
    BY DEF process_connect_packet
  <1>2. /\ client_id[c] = NoClientId
        /\ socket' = [socket EXCEPT ![c] = "connected"] /\ socket[c] = "connecting"
        /\ UNCHANGED <<unreleased, resent, retained, latest>>
    BY DEF process_connect_packet, SessionInv, clientVars
  <1>3. client_id'[c] = id /\ \A d \in Connection \ {c} : client_id'[d] = client_id[d]
    BY <1>1 DEF TypeOK
  <1>4. NeitherResentNorReconnected
    BY <1>2, <1>3 DEF NeitherResentNorReconnected
  <1>5. \A d \in Connection : client_id[d] # id
    BY <1>2, <1>3, ConstantsAssumption DEF NeitherResentNorReconnected
  <1>6. ~HasSession(id)
    BY <1>5 DEF HasSession, TypeOK, Session
  <1>7. sessions' = [sessions EXCEPT ![id] =
            [connection |-> c, lwt_message |-> lwt, rx_in_flight |-> {}]]
    BY <1>1, <1>6 DEF insert
  <1>8. \A i \in ClientId \ {id} : HasSession(i) => sessions[i].connection \in Connection \ {c}
    BY <1>2 DEF SessionInv, HasSession, TypeOK, Session
  <1>9. ASSUME NEW i \in ClientId, (HasSession(i))', (alive(sessions[i].connection))'
        PROVE  sessions'[i].rx_in_flight \subseteq
                   {p.packet_identifier : p \in unreleased'[sessions'[i].connection]}
    <2>1. CASE i = id
      BY <1>7, <2>1 DEF TypeOK
    <2>2. CASE i # id
      <3>1. sessions'[i] = sessions[i] /\ HasSession(i)
        BY <1>7, <1>9, <2>2 DEF TypeOK, HasSession
      <3>2. alive(sessions[i].connection)
        BY <1>2, <1>8, <1>9, <2>2, <3>1 DEF alive, TypeOK
      <3> QED
        BY <1>2, <1>4, <3>1, <3>2 DEF LatestInv
    <2> QED
      BY <2>1, <2>2
  <1> QED
    BY <1>2, <1>4, <1>9 DEF LatestInv

LEMMA DestroyedRetains ==
    ASSUME TypeOK, LatestInv, NEW c \in Connection, connection_destroyed(c)
    PROVE  LatestInv'
  <1>1. /\ socket' = [socket EXCEPT ![c] = "gone"]
        /\ unreleased' = [unreleased EXCEPT ![c] = {}]
        /\ UNCHANGED <<client_id, sessions, resent, retained, latest>>
    BY DEF connection_destroyed
  <1>2. (NeitherResentNorReconnected)' => NeitherResentNorReconnected
    BY <1>1 DEF NeitherResentNorReconnected
  <1>3. ASSUME NeitherResentNorReconnected,
               NEW i \in ClientId, (HasSession(i))', (alive(sessions[i].connection))'
        PROVE  sessions'[i].rx_in_flight \subseteq
                   {p.packet_identifier : p \in unreleased'[sessions'[i].connection]}
    <2>1. HasSession(i) /\ sessions'[i] = sessions[i] /\ sessions[i].connection \in Connection
      BY <1>1, <1>3 DEF HasSession, TypeOK, Session
    <2>2. sessions[i].connection # c /\ alive(sessions[i].connection)
      BY <1>1, <1>3, <2>1 DEF alive, TypeOK
    <2>3. unreleased'[sessions[i].connection] = unreleased[sessions[i].connection]
      BY <1>1, <2>1, <2>2 DEF TypeOK
    <2> QED
      BY <1>3, <2>1, <2>2, <2>3 DEF LatestInv
  <1> QED
    BY <1>1, <1>2, <1>3 DEF LatestInv

\* The connection a packet is read from is the one of its client's session.
LEMMA OwnSession ==
    ASSUME TypeOK, SessionInv, NeitherResentNorReconnected, NEW c \in Connection, reads(c),
           HasSession(client_id[c])
    PROVE  sessions[client_id[c]].connection = c /\ alive(c)
  <1>1. client_id[c] \in ClientId
    BY DEF SessionInv
  <1>2. /\ sessions[client_id[c]].connection \in Connection
        /\ client_id[sessions[client_id[c]].connection] = client_id[c]
    BY <1>1 DEF HasSession, TypeOK, Session
  <1>3. sessions[client_id[c]].connection = c
    BY <1>1, <1>2, ConstantsAssumption DEF NeitherResentNorReconnected
  <1>4. alive(c)
    BY DEF reads, alive, TypeOK
  <1> QED
    BY <1>3, <1>4

\* What a client has released its session does not remember.
LEMMA ReleasedRetains ==
    ASSUME TypeOK, SessionInv, LatestInv, NEW c \in Connection, client_released_publish(c)
    PROVE  LatestInv'
  <1> DEFINE id == client_id[c]
  <1>1. PICK p \in unreleased[c], cs \in {{}, {sessions[id].connection}} :
          LET pktid == p.packet_identifier
              heard == HasSession(id) /\ alive(sessions[id].connection)
              expected == heard /\ pktid \in sessions[id].rx_in_flight
          IN  /\ unreleased' = [unreleased EXCEPT ![c] = @ \ {p}]
              /\ sessions' = IF expected
                             THEN [sessions EXCEPT ![id].rx_in_flight = @ \ {pktid}]
                             ELSE sessions
              /\ cs = {} \/ HasSession(id)
              /\ stop(cs, {c})
    BY DEF client_released_publish
  <1>2. reads(c) /\ id \in ClientId /\ UNCHANGED <<client_id, resent, retained, latest>>
    BY DEF client_released_publish, SessionInv
  <1>3. (NeitherResentNorReconnected)' => NeitherResentNorReconnected
    BY <1>2 DEF NeitherResentNorReconnected
  <1>4. \A d \in Connection : (alive(d))' => alive(d)
    BY <1>1, <1>2 DEF stop, alive, TypeOK
  <1>5. \A i \in ClientId : HasSession(i) =>
            sessions[i] \in Session /\ client_id[sessions[i].connection] = i
    BY DEF HasSession, TypeOK
  <1>6. ASSUME NeitherResentNorReconnected,
               NEW i \in ClientId, (HasSession(i))', (alive(sessions[i].connection))'
        PROVE  sessions'[i].rx_in_flight \subseteq
                   {q.packet_identifier : q \in unreleased'[sessions'[i].connection]}
    <2>1. CASE i = id
      <3>1. HasSession(id)
        BY <1>1, <1>6, <2>1 DEF HasSession
      <3>2. sessions[id].connection = c /\ alive(c)
        BY <1>2, <1>6, <3>1, OwnSession
      <3>3. /\ sessions'[id].connection = c
            /\ sessions'[id].rx_in_flight = sessions[id].rx_in_flight \ {p.packet_identifier}
        <4>1. CASE p.packet_identifier \in sessions[id].rx_in_flight
          <5>1. sessions' = [sessions EXCEPT ![id].rx_in_flight = @ \ {p.packet_identifier}]
            BY <1>1, <3>1, <3>2, <4>1
          <5> QED
            BY <1>2, <1>5, <3>1, <3>2, <5>1 DEF TypeOK, Session
        <4>2. CASE p.packet_identifier \notin sessions[id].rx_in_flight
          BY <1>1, <3>2, <4>2
        <4> QED
          BY <4>1, <4>2
      <3>4. sessions[id].rx_in_flight \subseteq {q.packet_identifier : q \in unreleased[c]}
        BY <1>2, <1>6, <3>1, <3>2 DEF LatestInv
      <3>5. unreleased'[c] = unreleased[c] \ {p}
        BY <1>1 DEF TypeOK
      <3> SUFFICES ASSUME NEW x \in sessions'[id].rx_in_flight
                   PROVE  x \in {q.packet_identifier : q \in unreleased'[c]}
        BY <2>1, <3>3
      <3>6. PICK q \in unreleased[c] : x = q.packet_identifier
        BY <3>3, <3>4
      <3>7. q \in unreleased'[c]
        BY <3>3, <3>5, <3>6
      <3> QED
        BY <3>6, <3>7
    <2>2. CASE i # id
      <3>1. sessions'[i] = sessions[i] /\ HasSession(i)
        BY <1>1, <1>6, <2>2 DEF HasSession, TypeOK
      <3>2. sessions[i].connection \in Connection \ {c}
        BY <1>5, <2>2, <3>1 DEF Session
      <3>3. unreleased'[sessions[i].connection] = unreleased[sessions[i].connection]
        BY <1>1, <3>2 DEF TypeOK
      <3>4. alive(sessions[i].connection)
        BY <1>4, <1>6, <3>1, <3>2 DEF alive
      <3> QED
        BY <1>6, <3>1, <3>3, <3>4 DEF LatestInv
    <2> QED
      BY <2>1, <2>2
  <1> QED
    BY <1>2, <1>3, <1>6 DEF LatestInv

\* A new PUBLISH is dispatched if its client has a session, and what it retains
\* is what is dispatched.
LEMMA PublishRetains ==
    ASSUME TypeOK, SessionInv, LatestInv, NEW c \in Connection, client_publishes(c)
    PROVE  LatestInv'
  <1> SUFFICES ASSUME (NeitherResentNorReconnected)'
               PROVE  LatestInv'
    BY DEF LatestInv
  <1> DEFINE id == client_id[c]
  <1>1. PICK p \in Publish :
            /\ \A q \in unreleased[c] : q.packet_identifier # p.packet_identifier
            /\ unreleased' = [unreleased EXCEPT ![c] = IF p.qos = 2 THEN @ \cup {p} ELSE @]
            /\ client_published(c, p)
    BY DEF client_publishes
  <1>2. reads(c) /\ id \in ClientId /\ UNCHANGED <<client_id, socket, resent>>
    BY <1>1 DEF client_publishes, client_published, read_handled, SessionInv
  <1>3. NeitherResentNorReconnected
    BY <1>2 DEF NeitherResentNorReconnected
  <1>4. \A i \in ClientId : HasSession(i) =>
            sessions[i] \in Session /\ client_id[sessions[i].connection] = i
    BY DEF HasSession, TypeOK
  <1>5. HasSession(id) => ~is_resent(id, p)
    <2> SUFFICES ASSUME HasSession(id), p.packet_identifier \in sessions[id].rx_in_flight
                 PROVE  FALSE
      BY DEF is_resent
    <2>1. sessions[id].connection = c /\ alive(c)
      BY <1>2, <1>3, OwnSession
    <2>2. p.packet_identifier \in {q.packet_identifier : q \in unreleased[c]}
      BY <1>2, <1>3, <2>1 DEF LatestInv
    <2> QED
      BY <1>1, <2>2
  <1>6. retained' = latest'
    BY <1>1, <1>3, <1>5 DEF client_published, retain, LatestInv
  <1>7. sessions' = IF HasSession(id) THEN client_sent_publish(id, p) ELSE sessions
    BY <1>1, <1>5 DEF client_published
  <1>8. ASSUME NEW i \in ClientId, (HasSession(i))', (alive(sessions[i].connection))'
        PROVE  sessions'[i].rx_in_flight \subseteq
                   {q.packet_identifier : q \in unreleased'[sessions'[i].connection]}
    <2>1. /\ HasSession(i) /\ sessions'[i].connection = sessions[i].connection
          /\ sessions[i].connection \in Connection
      BY <1>1, <1>2, <1>4, <1>8, PublishedSessions DEF Session
    <2>2. sessions[i].rx_in_flight
              \subseteq {q.packet_identifier : q \in unreleased[sessions[i].connection]}
      BY <1>2, <1>3, <1>8, <2>1 DEF LatestInv, alive
    <2>3. CASE i = id /\ p.qos = 2
      <3>1. sessions[i].connection = c
        BY <1>2, <1>3, <2>1, <2>3, OwnSession
      <3>2. unreleased'[c] = unreleased[c] \cup {p}
        BY <1>1, <2>3 DEF TypeOK
      <3>3. \/ sessions' = sessions
            \/ sessions' = [sessions EXCEPT ![id].rx_in_flight = @ \cup {p.packet_identifier}]
        BY <1>7 DEF client_sent_publish
      <3>4. sessions'[i].rx_in_flight \subseteq sessions[i].rx_in_flight \cup {p.packet_identifier}
        BY <1>2, <1>4, <2>1, <2>3, <3>3 DEF TypeOK, Session
      <3> QED
        BY <2>1, <2>2, <3>1, <3>2, <3>4
    <2>4. CASE i # id \/ p.qos # 2
      <3>1. sessions'[i] = sessions[i]
        BY <1>7, <2>4 DEF client_sent_publish, TypeOK
      <3>2. \A q \in unreleased[sessions[i].connection] :
                q \in unreleased'[sessions[i].connection]
        BY <1>1, <2>1 DEF TypeOK
      <3> QED
        BY <2>1, <2>2, <3>1, <3>2
    <2> QED
      BY <2>3, <2>4
  <1> QED
    BY <1>6, <1>8 DEF LatestInv

LEMMA LatestStep ==
    ASSUME TypeOK, SessionInv, LatestInv, [Next]_vars
    PROVE  LatestInv'
  <1>1. ASSUME NEW c \in Connection, client_resends(c)
        PROVE  LatestInv'
    <2>1. resent' # 0
      BY <1>1 DEF client_resends, TypeOK
    <2> QED
      BY <2>1 DEF LatestInv, NeitherResentNorReconnected
  <1>2. CASE UNCHANGED vars
    BY <1>2 DEF vars, connectionVars, clientVars, LatestInv, NeitherResentNorReconnected,
                HasSession, alive
  <1>3. CASE Next
    BY <1>1, <1>3, QuietKeepsRetained, RetainedStays, ConnectRetains, DestroyedRetains,
       ReleasedRetains, PublishRetains DEF Next
  <1> QED
    BY <1>2, <1>3

\* What retained_messages keeps for a topic is the retained message that went
\* to the subscribers last, as long as client_published retains none that it
\* does not forward, which takes a PUBLISH sent again.
THEOREM RetainedIsForwarded == Spec => []RetainedIsLatestDispatched
  <1>1. Init => LatestInv
    BY DEF Init, LatestInv, HasSession
  <1>2. TypeOK /\ SessionInv /\ LatestInv /\ [Next]_vars => LatestInv'
    BY LatestStep
  <1>3. LatestInv => RetainedIsLatestDispatched
    BY DEF LatestInv, RetainedIsLatestDispatched
  <1> QED
    BY <1>1, <1>2, <1>3, Invariance, PTL DEF Spec
=============================================================================
