------------------------------ MODULE PacketFlow ------------------------------
(***************************************************************************)
(* What becomes of one packet's contents: a client encodes it, the frame   *)
(* may be damaged, the server decodes it, answers, and forwards a PUBLISH  *)
(* or a last will to one subscriber after another.  The PUBLISH object is  *)
(* shared: it is changed for each subscriber in turn, kept as retained     *)
(* message, and changed again for those who subscribe later.               *)
(*                                                                         *)
(* A handler's loop over subscribers is one action per subscriber; nothing *)
(* else happens in between.  Which sessions there are, and when they send, *)
(* is the business of SessionManager.                                      *)
(***************************************************************************)
EXTENDS PacketCodec

CONSTANTS
    String,       \* strings and messages clients use
    TopicString,  \* topics and topic filters they use, well-formed or not
    Identifier,   \* packet identifiers
    ConnectFlags, \* the connect flags clients use
    Byte,         \* bytes that get into a damaged frame
    MaxFilters,   \* bound on the filters of one SUBSCRIBE or UNSUBSCRIBE
    NoPacket

ASSUME ConstantsAssumption ==
    /\ String \subseteq Seq(0 .. 255)
    /\ TopicString \subseteq Seq(0 .. 255)
    /\ \A string \in String \cup TopicString : Len(string) <= MAX_UINT16
    /\ Identifier \subseteq 0 .. MAX_UINT16
    /\ ConnectFlags \subseteq 0 .. 255
    /\ Byte \subseteq 0 .. 255
    /\ MaxFilters \in Nat

VARIABLES
    intended, \* the packet the client encoded
    frame,    \* the frame read
    phase,    \* how far the server is, see TypeOK
    packet,   \* what the decoder returned or threw
    incoming, \* the shared PUBLISH object
    outgoing, \* the last copy made of it for a subscriber
    sent      \* the frame written last, and for whom

vars == <<intended, frame, phase, packet, incoming, outgoing, sent>>

-----------------------------------------------------------------------------
(* Clients                                                                  *)

clientConnect ==
    {[type |-> "CONNECT", protocol_name |-> name, protocol_level |-> 4, connect_flags |-> flags,
      keep_alive_secs |-> 1, client_id |-> id,
      will_topic |-> IF contains_last_will(flags) THEN will ELSE <<>>,
      will_message |-> IF contains_last_will(flags) THEN will ELSE <<>>,
      username |-> IF has_username(flags) THEN user ELSE <<>>,
      password |-> IF has_password(flags) THEN user ELSE <<>>] :
        name \in String, flags \in ConnectFlags, id \in String, will \in String, user \in String}

clientPublish ==
    {p \in [type : {"PUBLISH"}, flags : 0 .. 15, topic : TopicString,
            packet_identifier : Identifier \cup {0}, application_message : String] :
        qos_of(p.flags, 1) \notin {1, 2} => p.packet_identifier = 0}

clientSubscribe ==
    [type : {"SUBSCRIBE"}, packet_identifier : Identifier,
     subscriptions : BoundedSeq([topic_filter : TopicString, maximum_qos : 0 .. 3], MaxFilters)]

clientUnsubscribe ==
    [type : {"UNSUBSCRIBE"}, packet_identifier : Identifier, topic_filters : BoundedSeq(TopicString, MaxFilters)]

clientAck ==
    [type : {"PUBACK", "PUBREC", "PUBREL", "PUBCOMP"}, packet_identifier : Identifier]

\* The last two are no packets of a client.
ClientPacket ==
    clientConnect \cup clientPublish \cup clientSubscribe \cup clientUnsubscribe \cup clientAck
        \cup [type : {"PINGREQ", "DISCONNECT", "CONNACK", "RESERVED1"}]

flags_of(p) ==
    IF p.type = "PUBLISH" THEN p.flags
    ELSE IF p.type \in {"SUBSCRIBE", "UNSUBSCRIBE", "PUBREL"} THEN 2 ELSE 0

Optional(present, string) == IF present THEN encode_utf8_string(string) ELSE <<>>

\* A packet's bytes in MQTT 3.1.1.
client_body(p) ==
    CASE p.type = "CONNECT" ->
             encode_utf8_string(p.protocol_name) \o <<p.protocol_level, p.connect_flags>>
                 \o encode_uint16(p.keep_alive_secs) \o encode_utf8_string(p.client_id)
                 \o Optional(contains_last_will(p.connect_flags), p.will_topic)
                 \o Optional(contains_last_will(p.connect_flags), p.will_message)
                 \o Optional(has_username(p.connect_flags), p.username)
                 \o Optional(has_password(p.connect_flags), p.password)
      [] p.type = "PUBLISH" ->
             encode_utf8_string(p.topic)
                 \o (IF qos_of(p.flags, 1) \in {1, 2} THEN encode_uint16(p.packet_identifier) ELSE <<>>)
                 \o p.application_message
      [] p.type = "SUBSCRIBE" ->
             encode_uint16(p.packet_identifier)
                 \o FlattenSeq([i \in DOMAIN p.subscriptions |->
                        Append(encode_utf8_string(p.subscriptions[i].topic_filter),
                               p.subscriptions[i].maximum_qos)])
      [] p.type = "UNSUBSCRIBE" ->
             encode_uint16(p.packet_identifier)
                 \o FlattenSeq([i \in DOMAIN p.topic_filters |-> encode_utf8_string(p.topic_filters[i])])
      [] p.type \in {"PUBACK", "PUBREC", "PUBREL", "PUBCOMP"} -> encode_uint16(p.packet_identifier)
      [] OTHER -> <<>>

client_encode(p) == [type |-> p.type, flags |-> flags_of(p), body |-> client_body(p)]

\* A byte is missing, added or another one; or the flags are others.
Damaged(f) ==
    LET body == f.body
    IN  {[f EXCEPT !.body = SubSeq(body, 1, n)] : n \in 0 .. Len(body)}
            \cup {[f EXCEPT !.body = Append(body, b)] : b \in Byte}
            \cup {[f EXCEPT !.body[i] = b] : i \in DOMAIN body, b \in Byte}
            \cup {[f EXCEPT !.flags = n] : n \in {0, 2}}

Init ==
    /\ intended \in ClientPacket
    /\ frame \in Damaged(client_encode(intended))
    /\ phase = "received"
    /\ packet = NoPacket
    /\ incoming = NoPacket
    /\ outgoing = NoPacket
    /\ sent = NoPacket

-----------------------------------------------------------------------------
(* The server                                                               *)

\* The packet is encoded into the write buffer at once.  For whom: the QoS
\* granted to the subscriber, and whether it gets a retained message.
send(p, qos, stored) == sent' = [frame |-> encode(p), qos |-> qos, stored |-> stored]
answer(p) == send(p, 0, FALSE)

\* Malformed packets close the connection; nothing catches invalid_argument.
on_frame_read ==
    /\ phase = "received"
    /\ \E beyond \in Byte : packet' = decode(frame, beyond)
    /\ phase' = CASE packet' = malformed_mqtt_packet -> "closed"
                  [] packet' = invalid_argument -> "terminated"
                  [] OTHER -> "decoded"
    /\ UNCHANGED <<intended, frame, incoming, outgoing, sent>>

received(type) == phase = "decoded" /\ packet.type = type

CONNECTION_ACCEPTED == 0
BAD_USERNAME_OR_PASSWORD == 4

authentication_failed ==
    /\ received("CONNECT")
    /\ answer(connack(BAD_USERNAME_OR_PASSWORD))
    /\ phase' = "closed"
    /\ UNCHANGED <<intended, frame, packet, incoming, outgoing>>

\* The dispatcher asserts that a last will is not to be retained.
process_connect_packet ==
    /\ received("CONNECT")
    /\ IF contains_last_will(packet.connect_flags) /\ retain_last_will(packet.connect_flags)
       THEN phase' = "failed_assert" /\ UNCHANGED sent
       ELSE phase' = "connected" /\ answer(connack(CONNECTION_ACCEPTED))
    /\ UNCHANGED <<intended, frame, packet, incoming, outgoing>>

\* The client is gone: its last will becomes a PUBLISH.
client_disconnected_ungracefully ==
    /\ phase = "connected"
    /\ contains_last_will(packet.connect_flags)
    /\ incoming' = create(FALSE, last_will_qos(packet.connect_flags), FALSE, packet.will_topic, 0,
                          packet.will_message)
    /\ phase' = "dispatching"
    /\ UNCHANGED <<intended, frame, packet, outgoing, sent>>

\* Mutant: RETAIN is not taken back for the subscribers there are.
client_published_retaining ==
    /\ received("PUBLISH")
    /\ incoming' = packet
    /\ CASE qos_of(packet.flags, 1) = 0 -> UNCHANGED sent
         [] qos_of(packet.flags, 1) = 1 -> answer(ack("PUBACK", 0, packet.packet_identifier))
         [] qos_of(packet.flags, 1) = 2 -> answer(ack("PUBREC", 0, packet.packet_identifier))
    /\ phase' = "dispatching"
    /\ UNCHANGED <<intended, frame, packet, outgoing>>

\* client_published up to the loop over the subscribers: the packet is
\* acknowledged first.
client_published ==
    /\ received("PUBLISH")
    /\ incoming' = set_retain(packet, FALSE)
    /\ CASE qos_of(packet.flags, 1) = 0 -> UNCHANGED sent
         [] qos_of(packet.flags, 1) = 1 -> answer(ack("PUBACK", 0, packet.packet_identifier))
         [] qos_of(packet.flags, 1) = 2 -> answer(ack("PUBREC", 0, packet.packet_identifier))
    /\ phase' = "dispatching"
    /\ UNCHANGED <<intended, frame, packet, outgoing>>

\* client_published behind the loop.
retain ==
    /\ phase = "dispatching"
    /\ packet.type = "PUBLISH"
    /\ retain_of(packet.flags)
    /\ packet.application_message # <<>>
    /\ incoming' = set_retain(incoming, TRUE)
    /\ phase' = "retained"
    /\ UNCHANGED <<intended, frame, packet, outgoing, sent>>

\* A session publishes incoming to its client, in the loop or, if it is
\* retained, whenever a client subscribes.
publishing == phase \in {"dispatching", "retained"}

\* publish::qos asserts that the QoS so far is not RESERVED, that of a will.
qos_asserts ==
    /\ publishing
    /\ qos_of(incoming.flags, 1) = 3
    /\ phase' = "failed_assert"
    /\ UNCHANGED <<intended, frame, packet, incoming, outgoing, sent>>

publish_using_qos0 ==
    /\ publishing
    /\ qos_of(incoming.flags, 1) # 3
    /\ incoming' = set_qos(incoming, 0)
    /\ send(incoming', 0, phase = "retained")
    /\ UNCHANGED <<intended, frame, phase, packet, outgoing>>

\* QoS 1 and 2: a copy with an identifier of its own.
publish_tracked(qos) ==
    /\ publishing
    /\ qos_of(incoming.flags, 1) # 3
    /\ \E id \in Identifier :
           outgoing' = [packet |-> set_qos(with_new_packet_identifier(incoming, id), qos),
                        qos |-> qos, stored |-> phase = "retained"]
    /\ send(outgoing'.packet, qos, phase = "retained")
    /\ UNCHANGED <<intended, frame, phase, packet, incoming>>

\* Only a QoS 2 publication marks what it sends again.
ack_timeout_expired ==
    /\ outgoing # NoPacket
    /\ outgoing' = [outgoing EXCEPT !.packet = IF outgoing.qos = 2 THEN set_dup(@, TRUE) ELSE @]
    /\ send(outgoing'.packet, outgoing.qos, outgoing.stored)
    /\ UNCHANGED <<intended, frame, phase, packet, incoming>>

\* All other packets are answered, and that is all.
answers(type, p) ==
    /\ received(type)
    /\ answer(p)
    /\ phase' = "answered"
    /\ UNCHANGED <<intended, frame, packet, incoming, outgoing>>

client_subscribed == answers("SUBSCRIBE", succeed(packet))
client_unsubscribed == answers("UNSUBSCRIBE", ack("UNSUBACK", 0, packet.packet_identifier))
client_received_publish == answers("PUBREC", ack("PUBREL", 2, packet.packet_identifier))
client_released_publish == answers("PUBREL", ack("PUBCOMP", 0, packet.packet_identifier))
process_pingreq == answers("PINGREQ", pingresp)

Next ==
    \/ on_frame_read
    \/ authentication_failed
    \/ process_connect_packet
    \/ client_disconnected_ungracefully
    \/ client_published
    \/ retain
    \/ qos_asserts
    \/ publish_using_qos0
    \/ \E qos \in {1, 2} : publish_tracked(qos)
    \/ ack_timeout_expired
    \/ client_subscribed
    \/ client_unsubscribed
    \/ client_received_publish
    \/ client_released_publish
    \/ process_pingreq

Spec == Init /\ [][Next]_vars

-----------------------------------------------------------------------------
(* Properties                                                               *)

\* Types: the types of packet the server decodes and sends.
TypeOK ==
    /\ phase \in {"received", "closed", "terminated", "failed_assert", "decoded", "connected",
                  "dispatching", "retained", "answered"}
    /\ packet = NoPacket \/ packet.type \in {malformed_mqtt_packet.type, invalid_argument.type, frame.type}
    /\ incoming = NoPacket \/ (incoming.type = "PUBLISH" /\ incoming.flags \in 0 .. 15)
    /\ outgoing = NoPacket \/ (outgoing.packet.type = "PUBLISH" /\ outgoing.packet.flags \in 0 .. 15)
    /\ sent = NoPacket \/ (sent.frame.flags \in 0 .. 15 /\ sent.frame.body \in Seq(0 .. 255))

\* The remaining length, which the packet objects keep and adjust as their QoS
\* is changed back and forth, is the number of bytes the encoder writes.
LengthMatches == sent # NoPacket => sent.frame.remaining_length = Len(sent.frame.body)

\* Topic and message as the publisher sent them.
Published ==
    IF packet.type = "CONNECT" THEN [topic |-> packet.will_topic, message |-> packet.will_message]
    ELSE [topic |-> packet.topic, message |-> packet.application_message]

\* However the shared object was changed for others before, a subscriber reads
\* topic and message as they were published, the QoS granted to it, and RETAIN
\* exactly if it gets a retained message.
ForwardedIntact ==
    (sent # NoPacket /\ sent.frame.type = "PUBLISH") =>
        LET read == publish_fields(sent.frame)
        IN  /\ read.next # 0
            /\ read.value.topic = Published.topic
            /\ read.value.application_message = Published.message
            /\ qos_of(sent.frame.flags, 1) = sent.qos
            /\ retain_of(sent.frame.flags) <=> sent.stored

Accepted == phase \in {"decoded", "connected", "dispatching", "retained", "answered"}

HasNul(connect) ==
    \E field \in {"protocol_name", "client_id", "will_topic", "username", "password"} :
        Contains(connect[field], NUL)

\* A frame that is accepted is the encoding of what was decoded: no byte is
\* missing, left over or read twice.  Acknowledgements may be longer, the upper
\* bits of a QoS are ignored and a NUL ends a string of CONNECT.
AcceptsOnlyEncodings ==
    (Accepted /\ packet.type \in {"CONNECT", "PUBLISH", "UNSUBSCRIBE", "PINGREQ", "DISCONNECT"}) =>
        \/ frame = client_encode(packet)
        \/ packet.type = "CONNECT" /\ HasNul(connect_fields(frame.body, NUL).value)

\* What MQTT lets a client send.  The server is more generous: it does not look
\* at an UNSUBSCRIBE's filters and a will's topic.
LegalTopic(topic) == topic # <<>> /\ ToSet(topic) \cap {NUL, Plus, Hash} = {}

LegalFilter(filter) ==
    /\ filter # <<>>
    /\ ~Contains(filter, NUL)
    /\ \A i \in DOMAIN filter : filter[i] \in {Plus, Hash} =>
           /\ i = 1 \/ filter[i - 1] = Slash
           /\ i = Len(filter) \/ (filter[i] = Plus /\ filter[i + 1] = Slash)

Legal(p) ==
    CASE p.type = "CONNECT" -> p.protocol_name # <<>> /\ ~HasNul(p)
      [] p.type = "PUBLISH" ->
             /\ LegalTopic(p.topic)
             /\ qos_of(p.flags, 1) # 3
             /\ dup_of(p.flags) => qos_of(p.flags, 1) # 0
      [] p.type = "SUBSCRIBE" ->
             /\ p.subscriptions # <<>>
             /\ \A i \in DOMAIN p.subscriptions :
                    LegalFilter(p.subscriptions[i].topic_filter) /\ p.subscriptions[i].maximum_qos # 3
      [] p.type = "UNSUBSCRIBE" -> p.topic_filters # <<>>
      [] OTHER -> p.type \in {"PUBACK", "PUBREC", "PUBREL", "PUBCOMP", "PINGREQ", "DISCONNECT"}

\* What a client encodes as MQTT has it is accepted, and decoded to what the
\* client meant.
AcceptsWhatIsLegal ==
    (phase # "received" /\ frame = client_encode(intended) /\ Legal(intended)) =>
        \A field \in DOMAIN intended : packet[field] = intended[field]

\* The answer has the identifier of the packet answered, where the client finds
\* it, and SUBACK a return code for each filter, in their order.
AnswersFit ==
    (sent # NoPacket /\ sent.frame.type \notin {"PUBLISH", "CONNACK", "PINGRESP"}) =>
        /\ decode_uint16(sent.frame.body, 1).value = packet.packet_identifier
        /\ sent.frame.type = "PUBREL" => decode_publish_ack(sent.frame).type = "PUBREL"
        /\ sent.frame.type = "SUBACK" =>
               /\ Len(sent.frame.body) = 2 + Len(packet.subscriptions)
               /\ \A i \in DOMAIN packet.subscriptions :
                      sent.frame.body[i + 2] \in {packet.subscriptions[i].maximum_qos, FAILURE}
=============================================================================
