--------------------------- MODULE SessionManager ---------------------------
(***************************************************************************)
(* What the connections of the server share: mqtt_client_session_manager   *)
(* with its sessions, its topic_subscriptions and its retained_messages,   *)
(* and the way connections come, fail, are stopped and go away.            *)
(*                                                                         *)
(* A session refers to its connection by a weak pointer and is found by    *)
(* the client's id, so a connection, a session and a client id can get out *)
(* of step.  Every handler runs on the one network thread: one action per  *)
(* handler, with all calls it makes.  Connections are as ConnectionLife    *)
(* has them: a stopped one lives on until its last handler has run.        *)
(*                                                                         *)
(* Of the publications in flight a session keeps only the identifiers of   *)
(* incoming QoS 2 ones, which decide whether a PUBLISH is dispatched; see  *)
(* TxPublications and RxPublications.  Of the packets sent only PUBLISH is *)
(* recorded.                                                               *)
(***************************************************************************)
EXTENDS Naturals, FiniteSets, FiniteSetsExt

CONSTANTS
    ClientId,
    Connection,
    Topic,
    AnyTopic,          \* the topic filter #
    QoS,               \* the levels clients publish with, of 0 .. 2
    MaximumQoS,        \* the levels they subscribe with, of 0 .. 3
    PacketIdentifier,  \* of incoming QoS 2 publications
    NoClientId,        \* client_id_ before CONNECT
    NoSession,
    NoMessage,         \* no retained message, no last will
    MaxSubscriptions,  \* bound on the subscriptions stored
    MaxMessages,       \* bound on the PUBLISH packets of clients
    MaxResends,        \* bound on those among them that are sent again
    MaxLoad            \* bound on subscriptions and PUBLISH packets together

TopicFilter == Topic \cup {AnyTopic}

\* packet::QoS::RESERVED, which no packet is sent with.
RESERVED == 3

\* A client's message is a number, 0 an empty one; the last will announced on
\* a connection is named by the connection.
Message == 0 .. MaxMessages

Session == [connection : Connection, lwt_message : Topic \cup {NoMessage},
            rx_in_flight : SUBSET PacketIdentifier]

ASSUME ConstantsAssumption ==
    /\ QoS \subseteq 0 .. 2
    /\ MaximumQoS \subseteq 0 .. 3
    /\ PacketIdentifier \subseteq Nat \ {0}
    /\ AnyTopic \notin Topic
    /\ NoClientId \notin ClientId
    /\ NoSession \notin Session
    /\ NoMessage \notin 0 .. MaxMessages
    /\ NoMessage \notin Topic \cup Connection
    /\ MaxSubscriptions \in Nat
    /\ MaxMessages \in Nat
    /\ MaxResends \in Nat
    /\ MaxLoad \in Nat

subscription_container ==
    [topic_filter : TopicFilter, maximum_qos : MaximumQoS, client_id : ClientId]

\* A PUBLISH of a client.
Publish ==
    {p \in [topic : Topic, message : Message, qos : QoS, retain : BOOLEAN,
            packet_identifier : PacketIdentifier \cup {0}] :
        p.packet_identifier = 0 <=> p.qos = 0}

\* A PUBLISH sent to a client.
OutgoingPublish == [to : Connection, topic : Topic, message : Message \cup Connection,
                    qos : MaximumQoS \ {RESERVED}, retain : BOOLEAN]

VARIABLES
    socket,         \* state of each connection, see TypeOK
    late_close,     \* connections stopped with a handler to run that asks for the close
    late_read,      \* connections stopped with a frame or error read but not handled
    client_id,      \* client_id_ of each connection
    sessions,       \* session_store::sessions_
    subscriptions,  \* topic_subscriptions::subscriptions_
    retained,       \* retained_messages::messages_
    unreleased,     \* client: QoS 2 PUBLISH packets it may still send again
    published,      \* counts the messages published
    resent,         \* counts the packets sent again
    sent,           \* the PUBLISH packets the last step sent
    disconnected,   \* history: connections on which DISCONNECT was received
    dispatched,     \* history: topic and message the last step forwarded
    granted,        \* history: subscriptions each connection was granted and nobody ended
    wills,          \* history: how often each connection's will was published
    latest          \* history: last retained message dispatched, by topic

connectionVars == <<socket, late_close, late_read, client_id, disconnected>>
clientVars == <<unreleased, published, resent>>
subscriptionVars == <<subscriptions, granted>>
stepVars == <<sent, dispatched>>
vars == <<connectionVars, clientVars, subscriptionVars, sessions, retained, stepVars,
          wills, latest>>

-----------------------------------------------------------------------------
(* topic_subscriptions, retained_messages                                   *)

\* Module TopicFilter is about the code that decides this.
topic_filter_matches_topic(filter, topic) == filter \in {topic, AnyTopic}

Subscribers(topic) ==
    {s.client_id : s \in {t \in subscriptions : topic_filter_matches_topic(t.topic_filter, topic)}}

\* Mutant: overlapping subscriptions of a client are not merged.
resolve_subscribers_unmerged(topic) ==
    {[client_id |-> s.client_id, maximum_qos |-> s.maximum_qos] :
        s \in {t \in subscriptions : topic_filter_matches_topic(t.topic_filter, topic)}}

\* Each client once, with the highest level it asked for.
resolve_subscribers(topic) ==
    {[client_id |-> id,
      maximum_qos |-> Max({s.maximum_qos : s \in {t \in subscriptions :
            t.client_id = id /\ topic_filter_matches_topic(t.topic_filter, topic)}})] :
        id \in Subscribers(topic)}

\* What unsubscribe leaves: it does not look at the client.
unsubscribe(id, filters) == {s \in subscriptions : s.topic_filter \notin filters}

\* Mutant: a retained message stays for good.
retain_first(p) ==
    [retained EXCEPT ![p.topic] = IF p.message = 0 THEN NoMessage ELSE IF @ = NoMessage THEN p.message ELSE @]

\* An empty application message removes what was retained.
retain(p) ==
    [retained EXCEPT ![p.topic] = IF p.message = 0 THEN NoMessage ELSE p.message]

-----------------------------------------------------------------------------
(* Sessions and connections                                                 *)

\* The weak pointer of a session can be locked.
alive(c) == socket[c] # "gone"

HasSession(id) == sessions[id] # NoSession

\* What the open connections of sessions in the given store are sent.
publish(store, topic, message) ==
    {[to |-> store[s.client_id].connection, topic |-> topic, message |-> message,
      qos |-> s.maximum_qos, retain |-> FALSE] :
        s \in {r \in resolve_subscribers(topic) :
                 /\ r.maximum_qos # RESERVED
                 /\ store[r.client_id] # NoSession
                 /\ socket[store[r.client_id].connection] = "connected"}}

\* A message is forwarded to the clients with a session in store, or none is.
forwards(store, topic, message) ==
    /\ sent' = publish(store, topic, message)
    /\ dispatched' = {[topic |-> topic, message |-> message]}

nothing_sent == sent' = {} /\ dispatched' = {}

remove(id) == [sessions EXCEPT ![id] = NoSession]

\* A packet or a read error of the client is handled.
reads(c) == socket[c] = "connected" \/ c \in late_read

\* mqtt_connection::stop of the connections cs: on the network thread
\* connection_manager_.stop and with it do_stop run at once.  Writes the
\* kernel has not taken yet are aborted later.  The handler consumes what the
\* connections in handled have read; a read of another one may have completed
\* and wait in the thread's queue.
stop(cs, handled) ==
    LET open == {c \in cs : socket[c] \in {"connecting", "connected"}}
        connected == {c \in cs : socket[c] = "connected"}
    IN  /\ socket' = [c \in Connection |-> IF c \in open THEN "stopped" ELSE socket[c]]
        /\ \E pending \in SUBSET connected : late_close' = late_close \cup pending
        /\ \E queued \in SUBSET (connected \ handled) :
               late_read' = (late_read \ handled) \cup queued
        /\ granted' = [c \in Connection |-> IF c \in open THEN {} ELSE granted[c]]

\* The handler of a packet leaves the connection as it is.
read_handled(c) ==
    /\ late_read' = late_read \ {c}
    /\ UNCHANGED <<socket, late_close>>

\* Mutant: the session is not removed.
client_disconnected_ungracefully_kept(id) ==
    /\ UNCHANGED sessions
    /\ IF HasSession(id) /\ sessions[id].lwt_message # NoMessage
       THEN LET c == sessions[id].connection
            IN  /\ forwards(remove(id), sessions[id].lwt_message, c)
                /\ wills' = [wills EXCEPT ![c] = @ + 1]
       ELSE nothing_sent /\ UNCHANGED wills

\* Mutant: the will is published while the session is still in the store.
client_disconnected_ungracefully_late(id) ==
    /\ sessions' = remove(id)
    /\ IF HasSession(id) /\ sessions[id].lwt_message # NoMessage
       THEN LET c == sessions[id].connection
            IN  /\ forwards(sessions, sessions[id].lwt_message, c)
                /\ wills' = [wills EXCEPT ![c] = @ + 1]
       ELSE nothing_sent /\ UNCHANGED wills

\* The session is removed before its will is published.
client_disconnected_ungracefully(id) ==
    /\ sessions' = remove(id)
    /\ IF HasSession(id) /\ sessions[id].lwt_message # NoMessage
       THEN LET c == sessions[id].connection
            IN  /\ forwards(remove(id), sessions[id].lwt_message, c)
                /\ wills' = [wills EXCEPT ![c] = @ + 1]
       ELSE nothing_sent /\ UNCHANGED wills

Init ==
    /\ socket = [c \in Connection |-> "none"]
    /\ late_close = {}
    /\ late_read = {}
    /\ client_id = [c \in Connection |-> NoClientId]
    /\ sessions = [id \in ClientId |-> NoSession]
    /\ subscriptions = {}
    /\ retained = [t \in Topic |-> NoMessage]
    /\ unreleased = [c \in Connection |-> {}]
    /\ published = 0
    /\ resent = 0
    /\ sent = {}
    /\ dispatched = {}
    /\ granted = [c \in Connection |-> {}]
    /\ disconnected = {}
    /\ wills = [c \in Connection |-> 0]
    /\ latest = [t \in Topic |-> NoMessage]

-----------------------------------------------------------------------------
(* Connections come and go                                                  *)

start(c) ==
    /\ socket[c] = "none"
    /\ socket' = [socket EXCEPT ![c] = "connecting"]
    /\ nothing_sent
    /\ UNCHANGED <<late_close, late_read, client_id, disconnected, clientVars,
                   sessions, subscriptionVars, retained, wills, latest>>

\* Connect timeout, failed authentication, malformed packet or network error
\* before the client is known.
close_before_connect(c) ==
    /\ socket[c] = "connecting"
    /\ stop({c}, {})
    /\ nothing_sent
    /\ UNCHANGED <<client_id, disconnected, clientVars, sessions, subscriptions,
                   retained, wills, latest>>

\* A session that exists already stays as it is: try_emplace.
insert(c, id, lwt) ==
    [sessions EXCEPT ![id] = IF HasSession(id) THEN @ ELSE
        [connection |-> c, lwt_message |-> lwt, rx_in_flight |-> {}]]

process_connect_packet(c) ==
    /\ socket[c] = "connecting"
    /\ \E id \in ClientId, lwt \in Topic \cup {NoMessage} :
           /\ client_id' = [client_id EXCEPT ![c] = id]
           /\ sessions' = insert(c, id, lwt)
    /\ socket' = [socket EXCEPT ![c] = "connected"]
    /\ nothing_sent
    /\ UNCHANGED <<late_close, late_read, disconnected, clientVars, subscriptionVars,
                   retained, wills, latest>>

\* Network error, second CONNECT or malformed packet.
connection_close_requested(c) ==
    /\ reads(c)
    /\ client_disconnected_ungracefully(client_id[c])
    /\ stop({c}, {c})
    /\ UNCHANGED <<client_id, disconnected, clientVars, subscriptions, retained, latest>>

\* Keep alive timeout or failed write, while the next read is under way.
keep_alive_timeout_expired(c) ==
    /\ socket[c] = "connected"
    /\ client_disconnected_ungracefully(client_id[c])
    /\ stop({c}, {})
    /\ UNCHANGED <<client_id, disconnected, clientVars, subscriptions, retained, latest>>

\* Mutant: the session of a client that sent DISCONNECT stays.
client_disconnected_kept(id) == sessions

\* What the client's DISCONNECT leaves of the sessions.
client_disconnected(id) == remove(id)

process_disconnect_packet(c) ==
    /\ reads(c)
    /\ sessions' = client_disconnected(client_id[c])
    /\ stop({c}, {c})
    /\ disconnected' = disconnected \cup {c}
    /\ nothing_sent
    /\ UNCHANGED <<client_id, clientVars, subscriptions, retained, wills, latest>>

\* A handler that was queued when the connection was stopped has run; it may
\* not be the last.
late_handled(c) == c \in late_close /\ late_close' \in {late_close, late_close \ {c}}

\* A write aborted by do_stop, or a timer that had expired before, requests the
\* close once more.
write_aborted(c) ==
    /\ late_handled(c)
    /\ client_disconnected_ungracefully(client_id[c])
    /\ UNCHANGED <<socket, late_read, client_id, disconnected, clientVars,
                   subscriptionVars, retained, latest>>

\* A CONNACK that refused an earlier CONNECT of the connection is written at
\* last, or its write is aborted: a DISCONNECT is faked.
refused_written(c) ==
    /\ \/ socket[c] = "connected" /\ stop({c}, {})
       \/ late_handled(c) /\ UNCHANGED <<socket, late_read, subscriptionVars>>
    /\ sessions' = client_disconnected(client_id[c])
    /\ nothing_sent
    /\ UNCHANGED <<client_id, disconnected, clientVars, subscriptions, retained, wills,
                   latest>>

\* Mutant: pending handlers do not own the connection.
connection_destroyed_early(c) ==
    /\ socket[c] = "stopped"
    /\ socket' = [socket EXCEPT ![c] = "gone"]
    /\ nothing_sent
    /\ UNCHANGED <<late_close, late_read, client_id, disconnected, clientVars,
                   sessions, subscriptionVars, retained, wills, latest>>

\* No handler is left that owns the connection.
connection_destroyed(c) ==
    /\ socket[c] = "stopped"
    /\ c \notin late_close \cup late_read
    /\ socket' = [socket EXCEPT ![c] = "gone"]
    /\ unreleased' = [unreleased EXCEPT ![c] = {}]
    /\ nothing_sent
    /\ UNCHANGED <<late_close, late_read, client_id, disconnected, published, resent,
                   sessions, subscriptionVars, retained, wills, latest>>

\* The server stops all connections and tells no session.
do_close_connections ==
    /\ \E c \in Connection : socket[c] \in {"connecting", "connected"}
    /\ stop(Connection, {})
    /\ nothing_sent
    /\ UNCHANGED <<client_id, disconnected, clientVars, sessions, subscriptions,
                   retained, wills, latest>>

-----------------------------------------------------------------------------
(* Packets of connected clients                                             *)

\* A message retained for a topic goes out once per SUBSCRIBE; the model's
\* SUBSCRIBE has one filter.
retained_messages_for(id, filter, maximum_qos) ==
    {[to |-> sessions[id].connection, topic |-> t, message |-> retained[t],
      qos |-> maximum_qos, retain |-> TRUE] :
        t \in {u \in Topic : /\ topic_filter_matches_topic(filter, u)
                             /\ retained[u] # NoMessage
                             /\ maximum_qos # RESERVED}}

\* The session sends SUBACK or UNSUBACK: without its connection it destroys itself.
session_send(id) ==
    IF HasSession(id) /\ ~alive(sessions[id].connection) THEN remove(id) ELSE sessions

Load == Cardinality(subscriptions) + published + resent

\* The session of client id answers on its connection c.
answers(id, c) == HasSession(id) /\ sessions[id].connection = c /\ socket[c] = "connected"

\* A level that is RESERVED is stored, too, though SUBACK reports a failure.
client_subscribed(c) ==
    /\ reads(c)
    /\ \E filter \in TopicFilter, maximum_qos \in MaximumQoS :
           LET id == client_id[c]
               s  == [topic_filter |-> filter, maximum_qos |-> maximum_qos, client_id |-> id]
           IN  /\ subscriptions' = subscriptions \cup {s}
               /\ Cardinality(subscriptions') <= MaxSubscriptions
               /\ Cardinality(subscriptions') + published + resent <= MaxLoad
               /\ sent' = IF HasSession(id) /\ socket[sessions[id].connection] = "connected"
                          THEN retained_messages_for(id, filter, maximum_qos)
                          ELSE {}
               /\ granted' = [d \in Connection |->
                     granted[d] \cup IF answers(id, d) /\ maximum_qos # RESERVED THEN {s} ELSE {}]
    /\ dispatched' = {}
    /\ sessions' = session_send(client_id[c])
    /\ read_handled(c)
    /\ UNCHANGED <<client_id, disconnected, clientVars, retained, wills, latest>>

client_unsubscribed(c) ==
    /\ reads(c)
    /\ \E filter \in TopicFilter :
           /\ subscriptions' = unsubscribe(client_id[c], {filter})
           /\ granted' = [d \in Connection |-> {s \in granted[d] : s.topic_filter # filter}]
    /\ sessions' = session_send(client_id[c])
    /\ read_handled(c)
    /\ nothing_sent
    /\ UNCHANGED <<client_id, disconnected, clientVars, retained, wills, latest>>

\* A QoS 2 publication with this identifier is in flight: p is a copy.
is_resent(id, p) == p.packet_identifier \in sessions[id].rx_in_flight

\* client_sent_publish of the session and of its rx_in_flight_publications.
client_sent_publish(id, p) ==
    IF p.qos = 2 /\ alive(sessions[id].connection)
    THEN [sessions EXCEPT ![id].rx_in_flight = @ \cup {p.packet_identifier}]
    ELSE sessions

client_published(c, p) ==
    LET id == client_id[c]
        dispatch == HasSession(id) /\ ~is_resent(id, p)
    IN  /\ sessions' = IF dispatch THEN client_sent_publish(id, p) ELSE sessions
        /\ IF dispatch THEN forwards(sessions, p.topic, p.message) ELSE nothing_sent
        /\ retained' = IF HasSession(id) /\ p.retain THEN retain(p) ELSE retained
        /\ latest' = IF dispatch /\ p.retain
                     THEN [latest EXCEPT ![p.topic] = IF p.message = 0 THEN NoMessage ELSE p.message]
                     ELSE latest
        /\ read_handled(c)
        /\ UNCHANGED <<client_id, disconnected, subscriptionVars, wills>>

\* The client uses identifiers that are free.
client_publishes(c) ==
    /\ reads(c)
    /\ published + resent < MaxMessages
    /\ Load < MaxLoad
    /\ \E p \in Publish :
           /\ p.message \in {0, published + 1}
           /\ \A q \in unreleased[c] : q.packet_identifier # p.packet_identifier
           /\ unreleased' = [unreleased EXCEPT ![c] = IF p.qos = 2 THEN @ \cup {p} ELSE @]
           /\ client_published(c, p)
    /\ published' = published + 1
    /\ UNCHANGED resent

\* PUBREC has not reached the client: it sends PUBLISH once more.
client_resends(c) ==
    /\ reads(c)
    /\ resent < MaxResends
    /\ published + resent < MaxMessages
    /\ Load < MaxLoad
    /\ \E p \in unreleased[c] : client_published(c, p)
    /\ resent' = resent + 1
    /\ UNCHANGED <<unreleased, published>>

\* PUBREL completes a publication in flight.  Any other PUBREL is a protocol
\* violation, for which the session stops its connection.
client_released_publish(c) ==
    /\ reads(c)
    /\ \E p \in unreleased[c] :
           LET id == client_id[c]
               pktid == p.packet_identifier
               heard == HasSession(id) /\ alive(sessions[id].connection)
               expected == heard /\ pktid \in sessions[id].rx_in_flight
           IN  /\ unreleased' = [unreleased EXCEPT ![c] = @ \ {p}]
               /\ sessions' = IF expected
                              THEN [sessions EXCEPT ![id].rx_in_flight = @ \ {pktid}]
                              ELSE sessions
               /\ stop(IF heard /\ ~expected THEN {sessions[id].connection} ELSE {}, {c})
    /\ nothing_sent
    /\ UNCHANGED <<client_id, disconnected, published, resent, subscriptions, retained,
                   wills, latest>>

\* A PUBACK, PUBREC or PUBCOMP that fits no publication in flight.
protocol_violation(c) ==
    /\ reads(c)
    /\ HasSession(client_id[c])
    /\ alive(sessions[client_id[c]].connection)
    /\ stop({sessions[client_id[c]].connection}, {c})
    /\ nothing_sent
    /\ UNCHANGED <<client_id, disconnected, clientVars, sessions, subscriptions,
                   retained, wills, latest>>

\* The server gives up waiting for PUBREL.
pubrel_timeout_expired(id) ==
    /\ HasSession(id)
    /\ \E pktid \in sessions[id].rx_in_flight :
           sessions' = [sessions EXCEPT ![id].rx_in_flight = @ \ {pktid}]
    /\ nothing_sent
    /\ UNCHANGED <<connectionVars, clientVars, subscriptionVars, retained, wills, latest>>

Next ==
    \/ \E c \in Connection :
           \/ start(c)
           \/ close_before_connect(c)
           \/ process_connect_packet(c)
           \/ connection_close_requested(c)
           \/ keep_alive_timeout_expired(c)
           \/ process_disconnect_packet(c)
           \/ refused_written(c)
           \/ write_aborted(c)
           \/ connection_destroyed(c)
           \/ client_subscribed(c)
           \/ client_unsubscribed(c)
           \/ client_publishes(c)
           \/ client_resends(c)
           \/ client_released_publish(c)
           \/ protocol_violation(c)
    \/ do_close_connections
    \/ \E id \in ClientId : pubrel_timeout_expired(id)

Spec == Init /\ [][Next]_vars

\* Aborted operations complete, and a connection nobody owns is destroyed.
FairSpec ==
    /\ Spec
    /\ \A c \in Connection : WF_vars(write_aborted(c)) /\ WF_vars(connection_destroyed(c))

-----------------------------------------------------------------------------
(* Properties                                                               *)

\* Types; a session refers to a connection of its own client.
TypeOK ==
    /\ socket \in [Connection -> {"none", "connecting", "connected", "stopped", "gone"}]
    /\ late_close \subseteq {c \in Connection : socket[c] = "stopped"}
    /\ late_read \subseteq {c \in Connection : socket[c] = "stopped"}
    /\ client_id \in [Connection -> ClientId \cup {NoClientId}]
    /\ sessions \in [ClientId -> Session \cup {NoSession}]
    /\ \A id \in ClientId : HasSession(id) => client_id[sessions[id].connection] = id
    /\ subscriptions \subseteq subscription_container
    /\ granted \in [Connection -> SUBSET subscription_container]
    /\ retained \in [Topic -> Message \cup {NoMessage}]
    /\ unreleased \in [Connection -> SUBSET Publish]
    /\ published \in 0 .. MaxMessages
    /\ resent \in 0 .. MaxResends
    /\ sent \subseteq OutgoingPublish
    /\ dispatched \subseteq [topic : Topic, message : Message \cup Connection]
    /\ disconnected \subseteq Connection
    /\ wills \in [Connection -> Nat]
    /\ latest \in [Topic -> Message \cup {NoMessage}]

\* However often a connection's end is noticed, by a read, a write, a timer or
\* another connection of the same client, its last will is published once.
WillAtMostOnce == \A c \in Connection : wills[c] <= 1

\* A last will is published for a client that went without DISCONNECT: nothing
\* that happens to a connection after its DISCONNECT, an aborted write for
\* instance, publishes its will.  And it goes to others, "so that we do not send
\* an LWT message to ourselves" (mqtt_client_session_manager.cpp:243), whichever
\* connections the client has and whatever they subscribed to.
WillOnlyToOthers ==
    [][\A c \in Connection : wills'[c] # wills[c] =>
          /\ c \notin disconnected
          /\ \A p \in sent' : client_id[p.to] # client_id[c]]_vars

\* Connection c was granted a level for the topic.
Granted(c, topic) ==
    {s.maximum_qos : s \in {g \in granted[c] : topic_filter_matches_topic(g.topic_filter, topic)}}

HasRival(c) == \E d \in Connection \ {c} : client_id[d] = client_id[c]

\* c gets one copy of the message, with the highest level it was granted; with a
\* higher one if another connection of the client subscribed before.
GetsOneCopy(c, topic) ==
    LET copies == {p \in sent : p.to = c}
        level  == Max(Granted(c, topic))
    IN  /\ Cardinality(copies) = 1
        /\ \A p \in copies : p.qos = level \/ (p.qos > level /\ HasRival(c))

\* Asked with a level that is RESERVED.
AskedReserved(c, topic) ==
    \E s \in subscriptions : /\ s.client_id = client_id[c] /\ s.maximum_qos = RESERVED
                             /\ topic_filter_matches_topic(s.topic_filter, topic)

\* "Determine set of clients subscribed to topic" (topic_subscriptions.hpp:109),
\* through sessions, connections and subscriptions that come and go on their
\* own: a connected client gets one copy of a message, at the level SUBACK
\* granted, unless it also asked for RESERVED, or its session is not this
\* connection's because it had another one.  Another client's UNSUBSCRIBE ends
\* what was granted, too.
SubscribersGetOneCopy ==
    \A d \in dispatched, c \in Connection :
        (socket[c] = "connected" /\ Granted(c, d.topic) # {}) =>
            \/ GetsOneCopy(c, d.topic)
            \/ AskedReserved(c, d.topic)
            \/ HasRival(c) /\ ~answers(client_id[c], c)

\* No client sent PUBLISH again, and none has two connections.
NeitherResentNorReconnected ==
    /\ resent = 0
    /\ \A c, d \in Connection : client_id[c] = client_id[d] => c = d \/ client_id[c] = NoClientId

\* What is retained for a topic is the last retained message that was
\* dispatched to the subscribers.  The premise is needed: a PUBLISH recognised
\* as sent again is "ignored" (mqtt_client_session.cpp:82), but client_published
\* retains it.
RetainedIsLatestDispatched == NeitherResentNorReconnected => retained = latest

-----------------------------------------------------------------------------
(* What the documentation says, and the code does not do                    *)

\* "Called when a client disconnected ungracefully, without sending a
\* DISCONNECT packet" (mqtt_client_session_manager.hpp:182): the will of a
\* connection that is still open is not published when all other connections
\* of the client ended with DISCONNECT.
UngracefulWithoutDisconnect ==
    [][\A c \in Connection :
          (wills'[c] > wills[c] /\ socket'[c] = "connected")
             => \E d \in Connection \ {c} : client_id[d] = client_id[c] /\ d \notin disconnected]_vars
=============================================================================
