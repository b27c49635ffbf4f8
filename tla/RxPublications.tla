--------------------------- MODULE RxPublications ---------------------------
(***************************************************************************)
(* Incoming publications of one client session: rx_in_flight_publications  *)
(* and the rx_publication it keeps per incomplete QoS 2 publication, their *)
(* retry timers, and the client that publishes.  "Dispatched" is what      *)
(* mqtt_client_session::client_sent_publish does with a PUBLISH it is told *)
(* to dispatch: the session manager forwards it to all subscribers.        *)
(***************************************************************************)
EXTENDS Naturals, Sequences

CONSTANTS
    MaxPacketIdentifier,  \* packet identifiers a client uses are 1 .. this
    MaxRetries,           \* option pub-max-retries
    MaxRetryCount,        \* largest value of the 16 bit retry_count_
    MaxPublications,      \* bound: how many messages the client publishes
    MaxClientRetries,     \* bound: how often the client resends anything
    NoPublication         \* an unused packet identifier

\* 0 is the packet identifier of a QoS 0 PUBLISH, which has none.
PacketId == 0 .. MaxPacketIdentifier

ClientPacketId == 1 .. MaxPacketIdentifier

Message == 1 .. MaxPublications

QoS == {"AT_MOST_ONCE", "AT_LEAST_ONCE", "EXACTLY_ONCE"}

\* An rx_publication seen between two handlers is waiting_for_rel.  Its timer
\* is armed while a wait is pending, queued once its handler is.
RxPublication == [retry_count : 0 .. MaxRetryCount, armed : BOOLEAN,
                  queued : BOOLEAN, message : Message]

\* What the client remembers of a PUBLISH it sent: unacknowledged ("publish"),
\* or released after a PUBREC ("release").
ClientPublication == [phase : {"publish", "release"}, qos : QoS, message : Message]

Publish(id, qos, m) == [type |-> "PUBLISH", id |-> id, qos |-> qos, message |-> m]
Pubrel(id) == [type |-> "PUBREL", id |-> id]
Ack(type, id) == [type |-> type, id |-> id]

ClientPacket ==
    [type : {"PUBLISH"}, id : PacketId, qos : QoS, message : Message]
        \cup [type : {"PUBREL"}, id : PacketId]

AckPacket == [type : {"PUBACK", "PUBREC", "PUBCOMP"}, id : PacketId]

ASSUME ConstantsAssumption ==
    /\ MaxPacketIdentifier \in Nat
    /\ MaxRetries \in Nat
    /\ MaxRetryCount \in Nat
    /\ MaxPublications \in Nat
    /\ MaxClientRetries \in Nat
    /\ NoPublication \notin RxPublication \cup ClientPublication

VARIABLES
    publications,   \* publications_, by packet identifier
    sender,         \* "open", "closing" (stopped, a read packet is still to be
                    \* handled), "closed" (stopped), "gone" (destroyed)
    session,        \* is the session still in the session store
    toClient,       \* packets under way to the client
    fromClient,     \* packets under way to the server
    outgoing,       \* the client's incomplete publications
    client_retries, \* how often the client resent something
    reconnected,    \* the client connected a second time
    published,      \* history: messages the client published so far
    publishedQoS,   \* history: the QoS each was published with
    dispatched,     \* history: how often each message was dispatched
    forgotten,      \* history: how often it was given up, or not recorded
    completed       \* history: messages the client takes for delivered

serverVars == <<publications, sender, session>>
channelVars == <<toClient, fromClient>>
clientVars == <<outgoing, client_retries, reconnected, published, publishedQoS, completed>>
historyVars == <<dispatched, forgotten>>
vars == <<serverVars, channelVars, clientVars, historyVars>>

InFlight == {id \in PacketId : publications[id] # NoPublication}

Init ==
    /\ publications = [id \in PacketId |-> NoPublication]
    /\ sender = "open"
    /\ session = TRUE
    /\ toClient = <<>>
    /\ fromClient = <<>>
    /\ outgoing = [id \in ClientPacketId |-> NoPublication]
    /\ client_retries = 0
    /\ reconnected = FALSE
    /\ published = 0
    /\ publishedQoS = [m \in Message |-> "AT_MOST_ONCE"]
    /\ dispatched = [m \in Message |-> 0]
    /\ forgotten = [m \in Message |-> 0]
    /\ completed = {}

-----------------------------------------------------------------------------

\* mqtt_connection::send drops packets once the socket is closed.
send(packet) ==
    toClient' = IF sender = "open" THEN Append(toClient, packet) ELSE toClient

\* mqtt_connection::stop closes the socket before it returns; the session is
\* not told.
stop == sender' = IF sender = "gone" THEN "gone" ELSE "closed"

\* The handler of the last packet read of a stopped connection has run.
packet_handled == sender' = IF sender = "closing" THEN "closed" ELSE sender

\* Mutant: retry_count_ counts down.
NextRetryCount_down(p) == p.retry_count - 1

\* ++retry_count_ on an std::uint16_t.
NextRetryCount(p) == IF p.retry_count = MaxRetryCount THEN 0 ELSE p.retry_count + 1

\* Mutant: no wait is started.
start_pubrel_timeout_not(p) == p

\* start_pubrel_timeout: a pending wait is replaced, a queued handler stays.
start_pubrel_timeout(p) == [p EXCEPT !.armed = TRUE]

\* The server has no record, or none any more, that it took a QoS 2 message.
forget(m) == forgotten' = [forgotten EXCEPT ![m] = @ + 1]

release(id) == publications' = [publications EXCEPT ![id] = NoPublication]

\* Mutant: acknowledged, yet not forwarded.
dispatch_forgotten(m) == UNCHANGED dispatched

\* mqtt_client_session_manager::publish.
dispatch(m) == dispatched' = [dispatched EXCEPT ![m] = @ + 1]

-----------------------------------------------------------------------------
(* Handlers of packets the client sent                                      *)

\* A PUBLISH whose identifier is not in use: if there is still a sender it is
\* acknowledged as its QoS asks for, and recorded.  It is dispatched in any case.
client_publish_accepted(pkt) ==
    /\ \/ /\ pkt.qos = "AT_MOST_ONCE"
          /\ UNCHANGED <<publications, toClient, forgotten>>
       \/ /\ pkt.qos = "AT_LEAST_ONCE"
          /\ IF sender = "gone" THEN UNCHANGED toClient ELSE send(Ack("PUBACK", pkt.id))
          /\ UNCHANGED <<publications, forgotten>>
       \/ /\ pkt.qos = "EXACTLY_ONCE" /\ sender = "gone"
          /\ forget(pkt.message)
          /\ UNCHANGED <<publications, toClient>>
       \/ /\ pkt.qos = "EXACTLY_ONCE" /\ sender # "gone"
          /\ send(Ack("PUBREC", pkt.id))
          /\ publications' = [publications EXCEPT ![pkt.id] =
                 start_pubrel_timeout([retry_count |-> 0, armed |-> FALSE,
                                       queued |-> FALSE, message |-> pkt.message])]
          /\ UNCHANGED forgotten
    /\ dispatch(pkt.message)

\* Mutant: a resent PUBLISH is not recognised.
client_sent_publish_no_dedup(pkt) == client_publish_accepted(pkt)

\* rx_in_flight_publications::client_sent_publish, followed by the dispatch
\* in mqtt_client_session::client_sent_publish if it returned true.
client_sent_publish(pkt) ==
    \/ /\ pkt.id \in InFlight
       /\ UNCHANGED <<publications, toClient, dispatched, forgotten>>
    \/ /\ pkt.id \notin InFlight
       /\ client_publish_accepted(pkt)

\* rx_in_flight_publications::client_sent_pubrel and, for a publication that
\* is in flight, rx_publication::client_sent_pubrel.
client_sent_pubrel(pkt) ==
    \/ /\ sender = "gone"
       /\ packet_handled
       /\ UNCHANGED <<publications, toClient>>
    \/ /\ sender # "gone" /\ pkt.id \in InFlight
       /\ send(Ack("PUBCOMP", pkt.id))
       /\ release(pkt.id)
       /\ packet_handled
    \/ /\ sender # "gone" /\ pkt.id \notin InFlight
       /\ stop
       /\ UNCHANGED <<publications, toClient>>

\* The session manager hands a packet to the session it finds under the
\* client's identifier; without one it is dropped.  A second connection of the
\* same client is routed to this session too.
packet_received ==
    /\ fromClient # <<>>
    /\ sender \in {"open", "closing"} \/ reconnected
    /\ fromClient' = Tail(fromClient)
    /\ LET pkt == Head(fromClient)
       IN  \/ /\ ~session
              /\ packet_handled
              /\ UNCHANGED <<publications, toClient, historyVars>>
           \/ /\ session /\ pkt.type = "PUBLISH"
              /\ client_sent_publish(pkt)
              /\ packet_handled
           \/ /\ session /\ pkt.type = "PUBREL"
              /\ client_sent_pubrel(pkt)
              /\ UNCHANGED historyVars
    /\ UNCHANGED <<session, clientVars>>

-----------------------------------------------------------------------------
(* The retry timers                                                         *)

\* The wait completes and its handler is queued.
timer_expires(id) ==
    /\ id \in InFlight
    /\ publications[id].armed /\ ~publications[id].queued
    /\ publications' = [publications EXCEPT ![id].armed = FALSE, ![id].queued = TRUE]
    /\ UNCHANGED <<sender, session, channelVars, clientVars, historyVars>>

\* The queued handler runs; one whose publication was released does nothing.
pubrel_timeout_expired(id) ==
    /\ id \in InFlight
    /\ publications[id].queued
    /\ LET p == [publications[id] EXCEPT !.queued = FALSE,
                                         !.retry_count = NextRetryCount(publications[id])]
       IN  \/ /\ p.retry_count <= MaxRetries
              /\ send(Ack("PUBREC", id))
              /\ publications' = [publications EXCEPT ![id] = start_pubrel_timeout(p)]
              /\ UNCHANGED forgotten
           \/ /\ p.retry_count > MaxRetries
              /\ release(id)
              /\ forget(p.message)
              /\ UNCHANGED toClient
    /\ UNCHANGED <<sender, session, fromClient, clientVars, dispatched>>

-----------------------------------------------------------------------------
(* The connection and the session                                           *)

\* The connection closes: network failure, timeouts, shutdown.  The read of one
\* more packet may have completed, with its handler still in the queue.
connection_closed ==
    /\ sender = "open"
    /\ sender' \in IF fromClient = <<>> THEN {"closed"} ELSE {"closing", "closed"}
    /\ UNCHANGED <<publications, session, channelVars, clientVars, historyVars>>

\* The last shared_ptr to it goes away; handlers of waits hold one.
connection_destroyed ==
    /\ sender = "closed"
    /\ \A id \in InFlight : ~publications[id].armed /\ ~publications[id].queued
    /\ sender' = "gone"
    /\ UNCHANGED <<publications, session, channelVars, clientVars, historyVars>>

\* The session leaves the session store and takes its publications with it.
session_destroyed ==
    /\ session
    /\ session' = FALSE
    /\ publications' = [id \in PacketId |-> NoPublication]
    /\ UNCHANGED <<sender, channelVars, clientVars, historyVars>>

-----------------------------------------------------------------------------
(* The client (external)                                                    *)

client_sends(packet) == fromClient' = Append(fromClient, packet)

\* A new message, under an identifier the client has no other publication for.
client_publishes(qos) ==
    LET m == published + 1
    IN  /\ published < MaxPublications
        /\ published' = m
        /\ publishedQoS' = [publishedQoS EXCEPT ![m] = qos]
        /\ \/ /\ qos = "AT_MOST_ONCE"
              /\ client_sends(Publish(0, qos, m))
              /\ UNCHANGED outgoing
           \/ /\ qos # "AT_MOST_ONCE"
              /\ \E id \in ClientPacketId :
                    /\ outgoing[id] = NoPublication
                    /\ outgoing' = [outgoing EXCEPT ![id] =
                           [phase |-> "publish", qos |-> qos, message |-> m]]
                    /\ client_sends(Publish(id, qos, m))
        /\ UNCHANGED <<serverVars, toClient, client_retries, reconnected, completed,
                       historyVars>>

\* The client retries a QoS 2 publication, the retry the code provides for.  One
\* of QoS 1 it does not resend on an open connection: MQTT 3.1.1 asks for that
\* on reconnect only, and a second PUBACK could meet the identifier's next use.
client_resends(id) ==
    /\ outgoing[id] # NoPublication
    /\ outgoing[id].qos = "EXACTLY_ONCE" \/ reconnected
    /\ client_retries < MaxClientRetries
    /\ client_retries' = client_retries + 1
    /\ client_sends(IF outgoing[id].phase = "publish"
                    THEN Publish(id, outgoing[id].qos, outgoing[id].message)
                    ELSE Pubrel(id))
    /\ UNCHANGED <<serverVars, toClient, outgoing, reconnected, published,
                   publishedQoS, completed, historyVars>>

\* An answer arrives.  A PUBREC is answered with PUBREL each time; one for a
\* publication the client has completed may also be ignored.
client_receives ==
    /\ toClient # <<>>
    /\ toClient' = Tail(toClient)
    /\ LET type == Head(toClient).type
           id   == Head(toClient).id
       IN  \/ /\ type = "PUBREC"
              /\ outgoing' = IF outgoing[id] = NoPublication THEN outgoing
                             ELSE [outgoing EXCEPT ![id].phase = "release"]
              /\ client_sends(Pubrel(id))
              /\ UNCHANGED completed
           \/ /\ type = "PUBREC" /\ outgoing[id] = NoPublication
              /\ UNCHANGED <<outgoing, fromClient, completed>>
           \/ /\ type # "PUBREC" /\ outgoing[id] # NoPublication
              /\ outgoing' = [outgoing EXCEPT ![id] = NoPublication]
              /\ completed' = completed \cup {outgoing[id].message}
              /\ UNCHANGED fromClient
           \/ /\ type # "PUBREC" /\ outgoing[id] = NoPublication
              /\ UNCHANGED <<outgoing, fromClient, completed>>
    /\ UNCHANGED <<serverVars, client_retries, reconnected, published, publishedQoS,
                   historyVars>>

\* The client connects again under the same identifier, and the session of the
\* closed connection is still in the session store.
client_reconnects ==
    /\ sender \in {"closed", "gone"}
    /\ ~reconnected
    /\ reconnected' = TRUE
    /\ toClient' = <<>>
    /\ fromClient' = <<>>
    /\ UNCHANGED <<serverVars, outgoing, client_retries, published, publishedQoS,
                   completed, historyVars>>

-----------------------------------------------------------------------------

Next ==
    \/ packet_received
    \/ \E id \in PacketId : timer_expires(id)
    \/ \E id \in PacketId : pubrel_timeout_expired(id)
    \/ connection_closed
    \/ connection_destroyed
    \/ session_destroyed
    \/ \E qos \in QoS : client_publishes(qos)
    \/ \E id \in ClientPacketId : client_resends(id)
    \/ client_receives
    \/ client_reconnects

Spec == Init /\ [][Next]_vars

\* Timers fire and the event loop runs the handlers it has queued; 0 has none.
Fairness ==
    \A id \in ClientPacketId : WF_vars(timer_expires(id)) /\ WF_vars(pubrel_timeout_expired(id))

FairSpec == Spec /\ Fairness

-----------------------------------------------------------------------------
(* Properties                                                               *)

\* The variables keep the types of their declarations in
\* rx_in_flight_publications.hpp and rx_publication.hpp.
TypeOK ==
    /\ publications \in [PacketId -> RxPublication \cup {NoPublication}]
    /\ sender \in {"open", "closing", "closed", "gone"}
    /\ session \in BOOLEAN
    /\ toClient \in Seq(AckPacket)
    /\ fromClient \in Seq(ClientPacket)
    /\ outgoing \in [ClientPacketId -> ClientPublication \cup {NoPublication}]
    /\ client_retries \in 0 .. MaxClientRetries
    /\ reconnected \in BOOLEAN
    /\ published \in 0 .. MaxPublications
    /\ publishedQoS \in [Message -> QoS]
    /\ dispatched \in [Message -> Nat]
    /\ forgotten \in [Message -> Nat]
    /\ completed \subseteq Message

\* A message is in flight until the client takes it for delivered.
delivery_status(m) ==
    CASE m > published -> "unpublished"
      [] m <= published /\ publishedQoS[m] = "AT_MOST_ONCE" -> "untracked"
      [] m \in completed -> "completed"
      [] OTHER -> "in_flight"

Hop == INSTANCE Delivery WITH
    qos <- [m \in Message |-> IF m > published THEN "none" ELSE publishedQoS[m]],
    status <- [m \in Message |-> delivery_status(m)],
    delivered <- dispatched

\* "MQTT 3.1.1 demands to treat this publish as a client retry"
\* (rx_in_flight_publications.cpp:49).  The hop from the client to the server's
\* subscribers keeps the promises of the QoS levels, over crossing retries of
\* both sides and a reconnect: what the client takes for delivered was dispatched
\* before, QoS 0 is dispatched at most once, QoS 2 once more for each time the
\* server lost its record of it, and the record is lost only once there is one.
ImplementsDelivery == Hop!Spec

\* A publication does not block its packet identifier for ever, whether PUBREL
\* arrives or not.
EveryPublicationEnds ==
    \A id \in ClientPacketId : []<>(id \notin InFlight)
=============================================================================
