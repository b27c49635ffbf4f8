----------------------------- MODULE PacketCodec -----------------------------
(***************************************************************************)
(* Packets and their bytes: the decoders and encoders of codec/ and the    *)
(* packets of protocol/ as far as both depend on them.                     *)
(*                                                                         *)
(* A frame has the packet's type (upper half of the first byte, here its   *)
(* name), its flags (lower half) and its body; FrameReader is about how it *)
(* is found.  A byte is a number below 256, a string a sequence of bytes.  *)
(* A packet is a record of the fields its class has.                       *)
(***************************************************************************)
EXTENDS Integers, Sequences, SequencesExt

NUL == 0
Plus == 43
Hash == 35
Slash == 47

-----------------------------------------------------------------------------
(* Flags: protocol/common.hpp                                               *)

bit(byte, value) == (byte \div value) % 2 = 1

\* 0 .. 2, or 3 for RESERVED.
qos_of(byte, left_shift) == (byte \div 2 ^ left_shift) % 4
dup_of(flags) == bit(flags, 8)
retain_of(flags) == bit(flags, 1)

\* RESERVED has a mask of four bits: it sets DUP as well.
qos_into(qos, flags) ==
    IF qos = 3 THEN 14 + (flags % 2) ELSE flags - 2 * qos_of(flags, 1) + 2 * qos

\* Mutant: the flag is added where it should be set.
dup_into_added(dup, flags) == flags + (IF dup THEN 8 ELSE 0)

dup_into(dup, flags) == (flags % 8) + (IF dup THEN 8 ELSE 0)
retain_into(retain, flags) == flags - (flags % 2) + (IF retain THEN 1 ELSE 0)

-----------------------------------------------------------------------------
(* Decoding: codec/decoder.hpp.  A decoder starts at a position in the body *)
(* and returns a value and the next position.  That is 0 when it throws     *)
(* malformed_mqtt_packet; a decoder that starts at 0 passes that on.        *)

Throws == [next |-> 0, value |-> <<>>]

\* Bytes from a position to the end.
distance(body, at) == IF at > Len(body) THEN 0 ELSE Len(body) + 1 - at

decode_uint16(body, at) ==
    IF at = 0 \/ distance(body, at) < 2 THEN Throws
    ELSE [next |-> at + 2, value |-> 256 * body[at] + body[at + 1]]

\* The upper bits of the byte are not looked at.
decode_qos(body, at) ==
    IF at = 0 \/ distance(body, at) < 1 THEN Throws
    ELSE [next |-> at + 1, value |-> qos_of(body[at], 0)]

\* Mutant: what a string is too long by is not noticed.
decode_utf8_string_unchecked(body, at) ==
    LET length == decode_uint16(body, at)
    IN  IF length.next = 0 THEN Throws
        ELSE LET last == Len(body) - distance(body, length.next + length.value)
             IN  [next |-> last + 1, value |-> SubSeq(body, length.next, last)]

decode_utf8_string(body, at) ==
    LET length == decode_uint16(body, at)
    IN  IF length.next = 0 \/ distance(body, length.next) < length.value THEN Throws
        ELSE [next |-> length.next + length.value,
              value |-> SubSeq(body, length.next, length.next + length.value - 1)]

\* What is left of a string that is passed on by c_str().
c_str(string) ==
    IF Contains(string, NUL) THEN SubSeq(string, 1, SelectInSeq(string, LAMBDA b : b = NUL) - 1)
    ELSE string

-----------------------------------------------------------------------------
(* Packet decoders: codec/*_packet_decoder.hpp                              *)

\* What they throw, in the place of a packet.
malformed_mqtt_packet == [type |-> "malformed_mqtt_packet"]
invalid_argument == [type |-> "invalid_argument"]

has_username(connect_flags) == bit(connect_flags, 128)
has_password(connect_flags) == bit(connect_flags, 64)
retain_last_will(connect_flags) == bit(connect_flags, 32)
last_will_qos(connect_flags) == qos_of(connect_flags, 3)
contains_last_will(connect_flags) == bit(connect_flags, 4)

\* Protocol level and connect flags are read without a look at the frame's
\* end: beyond stands for what is in memory behind it.
byte_at(body, at, beyond) == IF at \in DOMAIN body THEN body[at] ELSE beyond

optional_string(present, body, at) ==
    IF present THEN decode_utf8_string(body, at) ELSE [next |-> at, value |-> <<>>]

\* The fields of CONNECT.
connect_fields(body, beyond) ==
    LET protocol_name == decode_utf8_string(body, 1)
        level_at == protocol_name.next
        flags == byte_at(body, level_at + 1, beyond)
        keep_alive_secs == decode_uint16(body, IF level_at = 0 THEN 0 ELSE level_at + 2)
        client_id == decode_utf8_string(body, keep_alive_secs.next)
        will_topic == optional_string(contains_last_will(flags), body, client_id.next)
        will_message == optional_string(contains_last_will(flags), body, will_topic.next)
        username == optional_string(has_username(flags), body, will_message.next)
        password == optional_string(has_password(flags), body, username.next)
    IN  [next |-> password.next,
         value |-> [type |-> "CONNECT", protocol_name |-> protocol_name.value,
                    protocol_level |-> byte_at(body, level_at, beyond), connect_flags |-> flags,
                    keep_alive_secs |-> keep_alive_secs.value, client_id |-> client_id.value,
                    will_topic |-> will_topic.value, will_message |-> will_message.value,
                    username |-> username.value, password |-> password.value]]

\* The will's message is the one field that is no C string.
decode_connect(f, beyond) ==
    LET fields == connect_fields(f.body, beyond)
        c == fields.value
    IN  IF f.flags # 0 \/ c.protocol_name = <<>> \/ fields.next # Len(f.body) + 1
        THEN malformed_mqtt_packet
        ELSE [c EXCEPT !.protocol_name = c_str(@), !.client_id = c_str(@), !.will_topic = c_str(@),
                       !.username = c_str(@), !.password = c_str(@)]

check_well_formed_topic_name(topic) ==
    topic # <<>> /\ \A i \in DOMAIN topic : topic[i] \notin {NUL, Plus, Hash}

\* Topic, packet identifier if the QoS has one, and the rest.
publish_fields(f) ==
    LET topic == decode_utf8_string(f.body, 1)
        packet_id == IF qos_of(f.flags, 1) \in {1, 2} THEN decode_uint16(f.body, topic.next)
                     ELSE [next |-> topic.next, value |-> 0]
    IN  IF packet_id.next = 0 THEN Throws ELSE
        [next |-> packet_id.next,
         value |-> [type |-> "PUBLISH", flags |-> f.flags, remaining_length |-> Len(f.body),
                    topic |-> topic.value, packet_identifier |-> packet_id.value,
                    application_message |-> SubSeq(f.body, packet_id.next, Len(f.body))]]

\* Mutant: DUP with QoS 1 is refused, without QoS accepted.
refuses_flags_wrong_qos(flags) == qos_of(flags, 1) = 3 \/ (dup_of(flags) /\ qos_of(flags, 1) = 1)

refuses_flags(flags) == qos_of(flags, 1) = 3 \/ (dup_of(flags) /\ qos_of(flags, 1) = 0)

decode_publish(f) ==
    LET fields == publish_fields(f)
    IN  IF refuses_flags(f.flags) \/ fields.next = 0 \/ ~check_well_formed_topic_name(fields.value.topic)
        THEN malformed_mqtt_packet ELSE fields.value

well_formed_topic_filter(filter) ==
    /\ filter # <<>>
    /\ \A i \in DOMAIN filter :
           /\ filter[i] # NUL
           /\ filter[i] = Hash => i = Len(filter)
           /\ (filter[i] \in {Plus, Hash} /\ i > 1) => filter[i - 1] = Slash
           /\ (i > 1 /\ filter[i - 1] = Plus) => filter[i] = Slash

\* The loop both decoders of lists have: items are decoded one after another
\* until exactly at the body's end.
decode_list(body, start, item) ==
    LET from[at \in 1 .. Len(body) + 1] ==
            IF at = Len(body) + 1 THEN [next |-> at, value |-> <<>>]
            ELSE LET one == item[at]
                 IN  IF one.next = 0 \/ from[one.next].next = 0 THEN Throws
                     ELSE [next |-> from[one.next].next, value |-> <<one.value>> \o from[one.next].value]
    IN  IF start = 0 THEN Throws ELSE from[start]

decode_subscribe(f) ==
    LET packet_id == decode_uint16(f.body, 1)
        subscription[at \in DOMAIN f.body] ==
            LET topic_filter == decode_utf8_string(f.body, at)
                maximum_qos == decode_qos(f.body, topic_filter.next)
            IN  IF maximum_qos.next = 0 \/ ~well_formed_topic_filter(topic_filter.value) THEN Throws
                ELSE [next |-> maximum_qos.next,
                      value |-> [topic_filter |-> topic_filter.value, maximum_qos |-> maximum_qos.value]]
        list == decode_list(f.body, packet_id.next, subscription)
    IN  IF f.flags # 2 \/ list.value = <<>> THEN malformed_mqtt_packet
        ELSE [type |-> "SUBSCRIBE", packet_identifier |-> packet_id.value, subscriptions |-> list.value]

\* The filters are not checked.
decode_unsubscribe(f) ==
    LET packet_id == decode_uint16(f.body, 1)
        topic_filter[at \in DOMAIN f.body] == decode_utf8_string(f.body, at)
        list == decode_list(f.body, packet_id.next, topic_filter)
    IN  IF f.flags # 2 \/ list.value = <<>> THEN malformed_mqtt_packet
        ELSE [type |-> "UNSUBSCRIBE", packet_identifier |-> packet_id.value, topic_filters |-> list.value]

\* PUBACK, PUBREC, PUBREL, PUBCOMP: what follows the identifier is not looked at.
decode_publish_ack(f) ==
    LET packet_id == decode_uint16(f.body, 1)
    IN  IF f.flags # (IF f.type = "PUBREL" THEN 2 ELSE 0) \/ packet_id.next = 0
        THEN malformed_mqtt_packet
        ELSE [type |-> f.type, packet_identifier |-> packet_id.value]

\* PINGREQ, DISCONNECT
decode_empty(f) ==
    IF f.flags # 0 \/ f.body # <<>> THEN malformed_mqtt_packet ELSE [type |-> f.type]

\* mqtt_packet_decoder::decode
decode(f, beyond) ==
    CASE f.type = "CONNECT" -> decode_connect(f, beyond)
      [] f.type = "PUBLISH" -> decode_publish(f)
      [] f.type = "SUBSCRIBE" -> decode_subscribe(f)
      [] f.type = "UNSUBSCRIBE" -> decode_unsubscribe(f)
      [] f.type \in {"PUBACK", "PUBREC", "PUBREL", "PUBCOMP"} -> decode_publish_ack(f)
      [] f.type \in {"PINGREQ", "DISCONNECT"} -> decode_empty(f)
      [] OTHER -> invalid_argument

-----------------------------------------------------------------------------
(* The PUBLISH object: protocol/publish_packet.hpp                          *)

set_retain(publish, retain) == [publish EXCEPT !.flags = retain_into(retain, @)]
set_dup(publish, dup) == [publish EXCEPT !.flags = dup_into(dup, @)]

\* Mutant: the remaining length only ever grows.
set_qos_no_shrink(publish, new_qos) ==
    LET old_qos == qos_of(publish.flags, 1)
    IN  [publish EXCEPT !.flags = @ - 2 * old_qos + 2 * new_qos,
                        !.remaining_length = IF old_qos = 0 /\ new_qos # 0 THEN @ + 2 ELSE @]

\* publish::qos: the remaining length follows when the packet identifier
\* comes or goes.
set_qos(publish, new_qos) ==
    LET old_qos == qos_of(publish.flags, 1)
    IN  [publish EXCEPT !.flags = @ - 2 * old_qos + 2 * new_qos,
                        !.remaining_length = IF old_qos = 0 /\ new_qos # 0 THEN @ + 2
                                             ELSE IF old_qos # 0 /\ new_qos = 0 THEN @ - 2
                                             ELSE @]

create(dup, qos, retain, topic, packet_identifier, application_message) ==
    [type |-> "PUBLISH",
     flags |-> retain_into(retain, qos_into(qos, dup_into(dup, 0))),
     remaining_length |-> (IF qos = 0 THEN 0 ELSE 2) + 2 + Len(topic) + Len(application_message),
     topic |-> topic, packet_identifier |-> packet_identifier,
     application_message |-> application_message]

with_new_packet_identifier(publish, new_packet_identifier) ==
    [publish EXCEPT !.packet_identifier = new_packet_identifier]

-----------------------------------------------------------------------------
(* Encoding: codec/encoder.hpp, codec/*_packet_encoder.hpp                  *)

\* The longest string, MAX_STRING_LENGTH, and the greatest packet identifier.
MAX_UINT16 == 65535

encode_uint16(value) == <<value \div 256, value % 256>>
encode_utf8_string(string) == encode_uint16(Len(string)) \o string

ack(type, flags, packet_identifier) ==
    [type |-> type, flags |-> flags, remaining_length |-> 2, packet_identifier |-> packet_identifier]

FAILURE == 128

\* Mutant: filters that are not granted are left out.
succeed_granted_only(subscribe) ==
    LET granted == SelectSeq(subscribe.subscriptions, LAMBDA s : s.maximum_qos # 3)
    IN  [type |-> "SUBACK", flags |-> 0, remaining_length |-> 2 + Len(granted),
         packet_identifier |-> subscribe.packet_identifier,
         return_codes |-> [i \in DOMAIN granted |-> granted[i].maximum_qos]]

\* subscribe::succeed
succeed(subscribe) ==
    LET subscriptions == subscribe.subscriptions
    IN  [type |-> "SUBACK", flags |-> 0, remaining_length |-> 2 + Len(subscriptions),
         packet_identifier |-> subscribe.packet_identifier,
         return_codes |-> [i \in DOMAIN subscriptions |->
             IF subscriptions[i].maximum_qos = 3 THEN FAILURE ELSE subscriptions[i].maximum_qos]]

\* session_present is never set, the codes are those of connect_return_code.
connack(return_code) ==
    [type |-> "CONNACK", flags |-> 0, remaining_length |-> 2, return_code |-> return_code]

pingresp == [type |-> "PINGRESP", flags |-> 0, remaining_length |-> 0]

body_of(p) ==
    CASE p.type = "CONNACK" -> <<0, p.return_code>>
      [] p.type = "PINGRESP" -> <<>>
      [] p.type = "SUBACK" -> encode_uint16(p.packet_identifier) \o p.return_codes
      [] p.type = "PUBLISH" -> encode_utf8_string(p.topic)
             \o (IF qos_of(p.flags, 1) = 0 THEN <<>> ELSE encode_uint16(p.packet_identifier))
             \o p.application_message
      [] OTHER -> encode_uint16(p.packet_identifier)

\* mqtt_packet_encoder::encode: a frame with the remaining length the packet
\* says it has.
encode(p) ==
    [type |-> p.type, flags |-> p.flags, remaining_length |-> p.remaining_length, body |-> body_of(p)]
=============================================================================
