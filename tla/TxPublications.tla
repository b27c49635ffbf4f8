--------------------------- MODULE TxPublications ---------------------------
(***************************************************************************)
(* Outgoing publications of one client session: the class                  *)
(* tx_in_flight_publications and the two kinds of tx_publication it owns,  *)
(* together with their retry timers, the packet sender they write to and   *)
(* the client at the other end of the TCP connection.                      *)
(*                                                                         *)
(* Every handler of the server runs on the one network thread, so each is  *)
(* one action.  What interleaves is the order in which the thread takes    *)
(* completed timer waits and received packets off its queue.               *)
(***************************************************************************)
EXTENDS Naturals, Sequences, FiniteSets

CONSTANTS
    MaxPacketIdentifier,  \* MAX_PACKET_IDENTIFIER, 0xFFFF in the code
    MaxRetries,           \* option pub-max-retries
    MaxRetryCount,        \* largest value of the 16 bit retry_count_
    MaxPublications,      \* bound: how many messages are published
    IncomingDup,          \* DUP flags of the incoming PUBLISH packets
    NoPublication         \* an unused packet identifier

PacketId == 0 .. MaxPacketIdentifier

Message == 1 .. MaxPublications

\* packet::QoS, RESERVED included.
QoS == {"AT_MOST_ONCE", "AT_LEAST_ONCE", "EXACTLY_ONCE", "RESERVED"}

\* The states a publication in the map can be in: initial, completed and
\* terminally_failed are never seen between two handlers.
WaitingState == {"waiting_for_ack", "waiting_for_rec", "waiting_for_comp"}

\* A steady_timer: armed while a wait is pending, queued once the wait has
\* completed and its handler sits in the io_service's queue.  cancel() and
\* expires_from_now() abort a pending wait; they cannot recall a queued one.
Timer == [armed : BOOLEAN, queued : BOOLEAN]

Publication == [state : WaitingState, retry_count : 0 .. MaxRetryCount,
                publish_dup : BOOLEAN, message : Message, timer : Timer]

\* Packets on the wire, without topic and payload; message stands for both.
Publish(id, qos, dup, m) ==
    [type |-> "PUBLISH", id |-> id, qos |-> qos, dup |-> dup, message |-> m]
Pubrel(id) == [type |-> "PUBREL", id |-> id]
Ack(type, id) == [type |-> type, id |-> id]

AckPacket == [type : {"PUBACK", "PUBREC", "PUBCOMP"}, id : PacketId]

ServerPacket ==
    [type : {"PUBLISH"}, id : PacketId, qos : QoS \ {"RESERVED"}, dup : BOOLEAN,
     message : Message] \cup [type : {"PUBREL"}, id : PacketId]

ASSUME ConstantsAssumption ==
    /\ MaxPacketIdentifier \in Nat
    /\ MaxRetries \in Nat
    /\ MaxRetryCount \in Nat
    /\ MaxPublications \in Nat
    /\ IncomingDup \subseteq BOOLEAN
    /\ NoPublication \notin Publication

VARIABLES
    publications,            \* publications_, by packet identifier
    next_packet_identifier,  \* next_packet_identifier_
    sender,                  \* "open", "closed" (stopped), "gone" (destroyed)
    failed_assert,           \* the assertion that aborted the server, or "none"
    toClient,                \* packets under way to the client
    fromClient,              \* the client's answers under way to the server
    awaitingRel,             \* packet identifiers the client holds until PUBREL
    published,               \* history: messages handed to publish() so far
    grantedQoS,              \* history: maximum_qos each message was published with
    delivered,               \* history: how often the client took each message
    pubrelSent,              \* history: messages a PUBREL was sent for
    outcome                  \* history: what became of each message

serverVars == <<publications, next_packet_identifier, sender, failed_assert>>
channelVars == <<toClient, fromClient>>
historyVars == <<published, grantedQoS, delivered, pubrelSent, outcome>>
vars == <<serverVars, channelVars, awaitingRel, historyVars>>

InFlight == {id \in PacketId : publications[id] # NoPublication}

Running == failed_assert = "none"

Init ==
    /\ publications = [id \in PacketId |-> NoPublication]
    /\ next_packet_identifier = 0
    /\ sender = "open"
    /\ failed_assert = "none"
    /\ toClient = <<>>
    /\ fromClient = <<>>
    /\ awaitingRel = {}
    /\ published = 0
    /\ grantedQoS = [m \in Message |-> "RESERVED"]
    /\ delivered = [m \in Message |-> 0]
    /\ pubrelSent = {}
    /\ outcome = [m \in Message |-> "unknown"]

-----------------------------------------------------------------------------
(* The packet sender and the timers, as the publications use them.          *)

\* mqtt_connection::send: a packet for a closed socket is dropped.
send(packet) ==
    toClient' = IF sender = "open" THEN Append(toClient, packet) ELSE toClient

\* mqtt_connection::stop: dispatched on the thread that runs it, so the socket
\* is closed when the call returns.  Nobody tells the session.
stop == sender' = IF sender = "open" THEN "closed" ELSE sender

\* Mutant: no wait is started.
armed_not(timer) == timer

\* expires_from_now() and async_wait(): a pending wait is replaced, a queued
\* handler stays queued.
armed(timer) == [timer EXCEPT !.armed = TRUE]

cancelled(timer) == [timer EXCEPT !.armed = FALSE]

NewTimer == [armed |-> FALSE, queued |-> FALSE]

-----------------------------------------------------------------------------
(* tx_publication                                                           *)

\* Mutant: waiting_for_rec is not left when the PUBREC arrives.
AfterStartAckTimeout_keeps_rec(state) ==
    CASE state \in {"initial_qos1", "waiting_for_ack"} -> "waiting_for_ack"
      [] state \in {"initial_qos2", "waiting_for_rec"} -> "waiting_for_rec"
      [] OTHER -> "waiting_for_comp"

\* The state start_ack_timeout enters.  For QoS 2 it is waiting_for_rec only
\* when coming from initial.
AfterStartAckTimeout(state) ==
    CASE state = "initial_qos1" -> "waiting_for_ack"
      [] state = "waiting_for_ack" -> "waiting_for_ack"
      [] state = "initial_qos2" -> "waiting_for_rec"
      [] OTHER -> "waiting_for_comp"

start_ack_timeout(p) ==
    [p EXCEPT !.state = AfterStartAckTimeout(p.state), !.timer = armed(p.timer)]

\* Mutant: retry_count_ counts down.
NextRetryCount_down(p) == p.retry_count - 1

\* Mutant: the counter wraps before it gets past the limit.
NextRetryCount_early(p) == IF p.retry_count = MaxRetries THEN 0 ELSE p.retry_count + 1

\* ++retry_count_ on an std::uint16_t.
NextRetryCount(p) == IF p.retry_count = MaxRetryCount THEN 0 ELSE p.retry_count + 1

store(id, p) == publications' = [publications EXCEPT ![id] = p]

\* Mutant: a publication that is given up counts as completed.
release_as_completed(id, result) ==
    /\ publications' = [publications EXCEPT ![id] = NoPublication]
    /\ outcome' = [outcome EXCEPT ![publications[id].message] = "completed"]

\* tx_in_flight_publications::release, and what the publication came to.
release(id, result) ==
    /\ publications' = [publications EXCEPT ![id] = NoPublication]
    /\ outcome' = [outcome EXCEPT ![publications[id].message] = result]

abort(assertion) == failed_assert' = assertion

-----------------------------------------------------------------------------
(* tx_in_flight_publications::publish                                       *)

\* Mutant: the counter is not advanced.
next_packet_id_stuck == next_packet_identifier

\* next_packet_identifier.
next_packet_id ==
    IF next_packet_identifier = MaxPacketIdentifier
    THEN 0 ELSE next_packet_identifier + 1

\* publish_using_qos0: the packet is only sent.  It has no packet identifier;
\* 0 stands for that.
publish_using_qos0(m, dup) ==
    /\ send(Publish(0, "AT_MOST_ONCE", dup, m))
    /\ UNCHANGED <<publications, next_packet_identifier, failed_assert, outcome>>

\* publish_using_qos1 and publish_using_qos2.  The outgoing packet is a copy
\* of the incoming one, DUP flag included, under the next identifier.
publish_tracked(m, qos, dup, initial) ==
    LET id == next_packet_id
        p  == [state |-> initial, retry_count |-> 0, publish_dup |-> dup,
               message |-> m, timer |-> NewTimer]
    IN  /\ next_packet_identifier' = id
        /\ \/ /\ publications[id] = NoPublication
              /\ send(Publish(id, qos, dup, m))
              /\ store(id, start_ack_timeout(p))
              /\ outcome' = [outcome EXCEPT ![m] = "in_flight"]
              /\ UNCHANGED failed_assert
           \/ /\ publications[id] # NoPublication
              /\ abort("inserted")
              /\ UNCHANGED <<publications, toClient, outcome>>

\* publish() is called with maximum_qos for a PUBLISH that some client sent.
publish(qos, dup) ==
    LET m == published + 1
    IN  /\ Running
        /\ published < MaxPublications
        /\ published' = m
        /\ grantedQoS' = [grantedQoS EXCEPT ![m] = qos]
        /\ \/ /\ sender = "gone" \/ qos = "RESERVED"
              /\ UNCHANGED <<publications, next_packet_identifier, failed_assert,
                             toClient, outcome>>
           \/ /\ sender # "gone"
              /\ \/ qos = "AT_MOST_ONCE" /\ publish_using_qos0(m, dup)
                 \/ qos = "AT_LEAST_ONCE" /\ publish_tracked(m, qos, dup, "initial_qos1")
                 \/ qos = "EXACTLY_ONCE" /\ publish_tracked(m, qos, dup, "initial_qos2")
        /\ UNCHANGED <<sender, fromClient, awaitingRel, delivered, pubrelSent>>

-----------------------------------------------------------------------------
(* tx_in_flight_publications::response_received                             *)

\* Mutant: the retry timer, cancelled on PUBREC, is not armed again.
send_pubrel_unarmed(id, p) ==
    /\ send(Pubrel(id))
    /\ pubrelSent' = pubrelSent \cup {p.message}
    /\ store(id, [p EXCEPT !.state = AfterStartAckTimeout(p.state)])
    /\ UNCHANGED <<sender, failed_assert, outcome>>

\* PUBREL goes out for a publication; p is what becomes of it.
send_pubrel(id, p) ==
    /\ send(Pubrel(id))
    /\ pubrelSent' = pubrelSent \cup {p.message}
    /\ store(id, start_ack_timeout(p))
    /\ UNCHANGED <<sender, failed_assert, outcome>>

\* qos1_tx_publication::response_received
qos1_response_received(id, type) ==
    \/ /\ type = "PUBACK"
       /\ release(id, "completed")
       /\ UNCHANGED <<sender, failed_assert, toClient, pubrelSent>>
    \/ /\ type # "PUBACK"
       /\ abort("ack_is_puback")
       /\ UNCHANGED <<publications, sender, toClient, pubrelSent, outcome>>

\* qos2_tx_publication::response_received
qos2_response_received(id, type) ==
    LET p == [publications[id] EXCEPT !.timer = cancelled(@)]
    IN  \/ /\ p.state = "waiting_for_rec"
           /\ type # "PUBREC"
           /\ stop
           /\ store(id, p)
           /\ UNCHANGED <<failed_assert, toClient, pubrelSent, outcome>>
        \/ /\ type = "PUBREC"
           /\ send_pubrel(id, p)
        \/ /\ p.state = "waiting_for_comp"
           /\ type = "PUBCOMP"
           /\ release(id, "completed")
           /\ UNCHANGED <<sender, failed_assert, toClient, pubrelSent>>
        \/ /\ p.state = "waiting_for_comp"
           /\ type = "PUBACK"
           /\ abort("ack_is_pubcomp")
           /\ UNCHANGED <<publications, sender, toClient, pubrelSent, outcome>>

\* The session is found by client identifier, so a further connection of the
\* same client feeds acknowledgements to it whatever state its own sender is in.
response_received ==
    /\ Running
    /\ fromClient # <<>>
    /\ fromClient' = Tail(fromClient)
    /\ LET id == Head(fromClient).id
           type == Head(fromClient).type
       IN  \/ /\ sender = "gone"
              /\ UNCHANGED <<publications, sender, failed_assert, toClient,
                             pubrelSent, outcome>>
           \/ /\ sender # "gone"
              /\ id \notin InFlight
              /\ stop
              /\ UNCHANGED <<publications, failed_assert, toClient, pubrelSent, outcome>>
           \/ /\ sender # "gone"
              /\ id \in InFlight
              /\ \/ /\ publications[id].state = "waiting_for_ack"
                    /\ qos1_response_received(id, type)
                 \/ /\ publications[id].state # "waiting_for_ack"
                    /\ qos2_response_received(id, type)
    /\ UNCHANGED <<next_packet_identifier, awaitingRel, published, grantedQoS, delivered>>

-----------------------------------------------------------------------------
(* The retry timers                                                         *)

\* The wait completes: its handler is queued.  Queued handlers all run before
\* the reactor looks at the timers again, so there is at most one per timer.
timer_expires(id) ==
    /\ Running
    /\ id \in InFlight
    /\ publications[id].timer = [armed |-> TRUE, queued |-> FALSE]
    /\ store(id, [publications[id] EXCEPT !.timer = [armed |-> FALSE, queued |-> TRUE]])
    /\ UNCHANGED <<next_packet_identifier, sender, failed_assert, channelVars,
                   awaitingRel, historyVars>>

\* The queued handler runs ack_timeout_expired.  A handler whose publication
\* was released or destroyed meanwhile holds an expired weak_ptr and does
\* nothing, so only those of publications in flight are modelled.
ack_timeout_expired(id) ==
    /\ Running
    /\ id \in InFlight
    /\ publications[id].timer.queued
    /\ LET p == [publications[id] EXCEPT !.timer.queued = FALSE,
                                         !.retry_count = NextRetryCount(publications[id])]
       IN  \/ /\ p.retry_count <= MaxRetries
              /\ p.state = "waiting_for_ack"
              /\ send(Publish(id, "AT_LEAST_ONCE", p.publish_dup, p.message))
              /\ store(id, start_ack_timeout(p))
              /\ UNCHANGED <<sender, failed_assert, pubrelSent, outcome>>
           \/ /\ p.retry_count <= MaxRetries
              /\ p.state = "waiting_for_rec"
              /\ send(Publish(id, "EXACTLY_ONCE", TRUE, p.message))
              /\ store(id, start_ack_timeout([p EXCEPT !.publish_dup = TRUE]))
              /\ UNCHANGED <<sender, failed_assert, pubrelSent, outcome>>
           \/ /\ p.retry_count <= MaxRetries
              /\ p.state = "waiting_for_comp"
              /\ send_pubrel(id, p)
           \/ /\ p.retry_count > MaxRetries
              /\ release(id, "terminally_failed")
              /\ UNCHANGED <<sender, failed_assert, toClient, pubrelSent>>
    /\ UNCHANGED <<next_packet_identifier, fromClient, awaitingRel, published,
                   grantedQoS, delivered>>

-----------------------------------------------------------------------------
(* The connection and the session                                           *)

\* The connection is closed under the session: network failure, keep alive
\* timeout, server shutdown.
connection_closed ==
    /\ Running
    /\ sender = "open"
    /\ sender' = "closed"
    /\ UNCHANGED <<publications, next_packet_identifier, failed_assert, channelVars,
                   awaitingRel, historyVars>>

\* The last shared_ptr to a stopped connection goes away.  Handlers of pending
\* and queued waits hold one.
connection_destroyed ==
    /\ Running
    /\ sender = "closed"
    /\ \A id \in InFlight : publications[id].timer = NewTimer
    /\ sender' = "gone"
    /\ UNCHANGED <<publications, next_packet_identifier, failed_assert, channelVars,
                   awaitingRel, historyVars>>

\* The session is destroyed, and its publications with it.  The weak_ptr of
\* every handler still queued expires.  From here on nothing reaches this
\* session, which is what a sender that is gone amounts to.
session_destroyed ==
    /\ Running
    /\ publications' = [id \in PacketId |-> NoPublication]
    /\ outcome' = [m \in Message |->
                     IF outcome[m] = "in_flight" THEN "discarded" ELSE outcome[m]]
    /\ sender' = "gone"
    /\ UNCHANGED <<next_packet_identifier, failed_assert, channelVars, awaitingRel,
                   published, grantedQoS, delivered, pubrelSent>>

-----------------------------------------------------------------------------
(* The client (external): it answers what it receives, in order, as MQTT    *)
(* 3.1.1 asks it to.                                                        *)

client_receives ==
    /\ toClient # <<>>
    /\ toClient' = Tail(toClient)
    /\ LET pkt == Head(toClient)
       IN  \/ /\ pkt.type = "PUBREL"
              /\ awaitingRel' = awaitingRel \ {pkt.id}
              /\ fromClient' = Append(fromClient, Ack("PUBCOMP", pkt.id))
              /\ UNCHANGED delivered
           \/ /\ pkt.type = "PUBLISH"
              /\ pkt.qos = "EXACTLY_ONCE"
              /\ awaitingRel' = awaitingRel \cup {pkt.id}
              /\ fromClient' = Append(fromClient, Ack("PUBREC", pkt.id))
              /\ delivered' = IF pkt.id \in awaitingRel THEN delivered
                              ELSE [delivered EXCEPT ![pkt.message] = @ + 1]
           \/ /\ pkt.type = "PUBLISH"
              /\ pkt.qos = "AT_LEAST_ONCE"
              /\ fromClient' = Append(fromClient, Ack("PUBACK", pkt.id))
              /\ delivered' = [delivered EXCEPT ![pkt.message] = @ + 1]
              /\ UNCHANGED awaitingRel
           \/ /\ pkt.type = "PUBLISH"
              /\ pkt.qos = "AT_MOST_ONCE"
              /\ delivered' = [delivered EXCEPT ![pkt.message] = @ + 1]
              /\ UNCHANGED <<fromClient, awaitingRel>>
    /\ UNCHANGED <<serverVars, published, grantedQoS, pubrelSent, outcome>>

-----------------------------------------------------------------------------

Next ==
    \/ \E qos \in QoS, dup \in IncomingDup : publish(qos, dup)
    \/ response_received
    \/ \E id \in PacketId : timer_expires(id)
    \/ \E id \in PacketId : ack_timeout_expired(id)
    \/ connection_closed
    \/ connection_destroyed
    \/ session_destroyed
    \/ client_receives

Spec == Init /\ [][Next]_vars

\* The event loop runs every handler it has queued and a timer fires.  Nothing
\* is assumed of the client, of publishers or of the network.
Fairness ==
    \A id \in PacketId : WF_vars(timer_expires(id)) /\ WF_vars(ack_timeout_expired(id))

FairSpec == Spec /\ Fairness

-----------------------------------------------------------------------------
(* Properties                                                               *)

Outcome == {"unknown", "in_flight", "completed", "terminally_failed", "discarded"}

\* Every variable stays within the type its declaration in
\* tx_in_flight_publications.hpp and tx_publication.hpp gives it: packet
\* identifiers and retry counts within their 16 bits, also across the wrap.
TypeOK ==
    /\ publications \in [PacketId -> Publication \cup {NoPublication}]
    /\ next_packet_identifier \in PacketId
    /\ sender \in {"open", "closed", "gone"}
    /\ failed_assert \in {"none", "inserted", "ack_is_puback", "ack_is_pubcomp"}
    /\ toClient \in Seq(ServerPacket)
    /\ fromClient \in Seq(AckPacket)
    /\ awaitingRel \subseteq PacketId
    /\ published \in 0 .. MaxPublications
    /\ grantedQoS \in [Message -> QoS]
    /\ delivered \in [Message -> Nat]
    /\ pubrelSent \subseteq Message
    /\ outcome \in [Message -> Outcome]

\* As long as the connection is open, a publication in flight has a retry
\* pending or about to run: no path through response_received and
\* ack_timeout_expired cancels the timer without arming it again, stopping the
\* connection or releasing the publication.
InFlightIsTimed ==
    sender = "open" => \A id \in InFlight : \/ publications[id].timer.armed
                                           \/ publications[id].timer.queued

\* Once PUBREL was sent for a QoS 2 message its PUBLISH is never sent again,
\* whichever timeouts were queued when the PUBREC arrived.
NoPublishAfterPubrel ==
    Len(toClient') > Len(toClient) =>
        \/ toClient'[Len(toClient')].type = "PUBREL"
        \/ toClient'[Len(toClient')].message \notin pubrelSent

PublishNeverFollowsPubrel == [][NoPublishAfterPubrel]_vars

\* The strengthening PublishNeverFollowsPubrel rests on: the publications in
\* flight carry different messages, all of them published, and one that would
\* resend its PUBLISH has not had a PUBREL sent.
ResendInv ==
    /\ \A id \in InFlight : publications[id].message <= published
    /\ \A m \in pubrelSent : m <= published
    /\ \A i, j \in InFlight :
          publications[i].message = publications[j].message => i = j
    /\ \A id \in InFlight : publications[id].state # "waiting_for_comp" =>
                              publications[id].message \notin pubrelSent

\* No packet identifier was used twice yet.
NoWrap == published <= MaxPacketIdentifier + 1

\* While identifiers have not wrapped, no assert in tx_publication.cpp and
\* tx_in_flight_publications.cpp fails for a client that answers as MQTT asks
\* it to, however late its answers are.
AssertionsHold == NoWrap => Running

\* How the history of a message looks to one who sees only deliveries.
delivery_status(m) ==
    CASE m > published -> "unpublished"
      [] m <= published /\ outcome[m] = "unknown" ->
             IF grantedQoS[m] = "AT_MOST_ONCE" THEN "untracked" ELSE "dropped"
      [] outcome[m] \in {"terminally_failed", "discarded"} -> "abandoned"
      [] OTHER -> outcome[m]

Hop == INSTANCE Delivery WITH
    qos <- [m \in Message |-> IF m > published THEN "none" ELSE grantedQoS[m]],
    status <- [m \in Message |-> delivery_status(m)],
    forgotten <- [m \in Message |-> 0]

\* As long as no identifier is used twice, outgoing publications take the steps
\* of Delivery: each message is delivered as often as its QoS allows, completed
\* only when delivered, and then for good.
DeliverySteps == Hop!Init /\ [][NoWrap' => [Hop!Next]_(Hop!vars)]_vars

\* Besides, each comes to an end, whether the client answers or not.
ImplementsDelivery ==
    /\ DeliverySteps
    /\ \A m \in Message : []<>(NoWrap => delivery_status(m) # "in_flight")
=============================================================================
