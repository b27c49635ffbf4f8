-------------------------- MODULE PacketFlowProofs --------------------------
(***************************************************************************)
(* Theorems about the way of a packet through decoder, PUBLISH object and  *)
(* encoder, for packets and strings of every length and every way to       *)
(* damage them, and about topic_filter_matches_topic, for topics and       *)
(* filters of every length and over every set of characters.               *)
(***************************************************************************)
EXTENDS PacketFlow, TopicFilter, SequenceTheorems, WellFoundedInduction, TLAPS

Octet == 0 .. 255

Bytes == Seq(Octet)

\* What a length of two bytes can tell, and a number of two bytes.
Short == {s \in Bytes : Len(s) <= MAX_UINT16}

Word == {n \in Nat : n <= MAX_UINT16}

-----------------------------------------------------------------------------
(* The invariant                                                            *)

FrameType ==
    {"CONNECT", "PUBLISH", "SUBSCRIBE", "UNSUBSCRIBE", "PUBACK", "PUBREC", "PUBREL", "PUBCOMP",
     "PINGREQ", "DISCONNECT", "CONNACK", "RESERVED1"}

Frame == [type : FrameType, flags : 0 .. 15, body : Bytes]

\* A PUBLISH object with the remaining length its fields have.
PublishObject ==
    {p \in [type : {"PUBLISH"}, flags : 0 .. 15, remaining_length : Nat, topic : Short,
            packet_identifier : Word, application_message : Bytes] :
        p.remaining_length = 2 + Len(p.topic) + (IF qos_of(p.flags, 1) = 0 THEN 0 ELSE 2)
                                 + Len(p.application_message)}

\* What the decoder returns.
Decoded(p) ==
    /\ p.type = "CONNECT" => /\ p.connect_flags \in Octet
                             /\ p.will_topic \in Short /\ p.will_message \in Short
    /\ p.type = "PUBLISH" => p \in PublishObject /\ qos_of(p.flags, 1) # 3
    /\ p.type = "SUBSCRIBE" => /\ p.packet_identifier \in Word
                               /\ p.subscriptions \in Seq([topic_filter : Short, maximum_qos : 0 .. 3])
    /\ p.type \in {"UNSUBSCRIBE", "PUBREC", "PUBREL"} => p.packet_identifier \in Word

\* The object as the client published it, whatever its flags are by now.
Carries(p) ==
    /\ p \in PublishObject
    /\ p.topic = Published.topic
    /\ p.application_message = Published.message

\* Until the frame is read nothing else is there; what is accepted is a packet
\* as the decoder returns it.
FrameInv ==
    /\ frame \in Frame
    /\ phase = "received" =>
           packet = NoPacket /\ incoming = NoPacket /\ outgoing = NoPacket /\ sent = NoPacket
    /\ Accepted => Decoded(packet)
    /\ phase = "connected" => packet.type = "CONNECT"

\* The object all subscribers share: its RETAIN is set only for what is stored.
ObjectInv ==
    /\ incoming = NoPacket \/ Carries(incoming)
    /\ phase \in {"dispatching", "retained"} => Carries(incoming)
    /\ phase = "dispatching" => ~retain_of(incoming.flags)
    /\ phase = "retained" => retain_of(incoming.flags)

\* The last copy, which retries send again: its QoS was not changed since.
CopyInv ==
    outgoing = NoPacket \/
    /\ Carries(outgoing.packet)
    /\ outgoing = [packet |-> outgoing.packet, qos |-> outgoing.qos, stored |-> outgoing.stored]
    /\ outgoing.qos \in {1, 2}
    /\ qos_of(outgoing.packet.flags, 1) = outgoing.qos
    /\ retain_of(outgoing.packet.flags) <=> outgoing.stored

SentInv ==
    /\ sent # NoPacket => sent.frame.flags \in 0 .. 15 /\ sent.frame.body \in Bytes
    /\ LengthMatches /\ ForwardedIntact /\ AnswersFit

FlowInv == TypeOK /\ FrameInv /\ ObjectInv /\ CopyInv /\ SentInv

-----------------------------------------------------------------------------
(* Induction over a string, from either end                                 *)

\* Numbers have a least one among any of them; induction in the form that
\* needs no operator for a parameter.
LEMMA LeastNumber ==
    ASSUME NEW T \in SUBSET Nat, T # {}
    PROVE  \E x \in T : \A y \in T : x <= y
  <1>1. PICK x \in T : \A y \in T : ~(<<y, x>> \in OpToRel(<, Nat))
    BY NatLessThanWellFounded, WFMin
  <1>2. \A y \in T : y \in Nat /\ x \in Nat /\ ~(y < x)
    BY <1>1 DEF OpToRel
  <1> QED
    BY <1>2

\* What holds at the end, and at each place if at the next one, holds from
\* the first place to the end.
LEMMA Backwards ==
    ASSUME NEW m \in Nat, NEW n \in Nat, NEW P, n \in P,
           \A i \in m .. n : i < n /\ i + 1 \in P => i \in P
    PROVE  \A i \in m .. n : i \in P
  <1> DEFINE T == {d \in 0 .. n : n - d >= m /\ n - d \notin P}
  <1>1. ASSUME NEW d \in T, \A e \in T : d <= e PROVE FALSE
    <2>1. d \in Nat /\ d <= n /\ n - d \in m .. n /\ n - d \notin P
      OBVIOUS
    <2>2. d # 0
      BY <2>1
    <2>3. d - 1 \in 0 .. n /\ ~(d <= d - 1) /\ n - (d - 1) >= m
      BY <2>1, <2>2
    <2>4. n - (d - 1) \in P
      BY <1>1, <2>3
    <2>5. n - (d - 1) = (n - d) + 1 /\ n - d < n
      BY <2>1, <2>2
    <2> QED
      BY <2>1, <2>4, <2>5
  <1>2. T = {}
    <2>1. T \in SUBSET Nat
      OBVIOUS
    <2> HIDE DEF T
    <2> QED
      BY <1>1, <2>1, LeastNumber
  <1>3. ASSUME NEW i \in m .. n, i \notin P PROVE FALSE
    <2>1. n - i \in 0 .. n /\ n - (n - i) = i /\ i >= m
      OBVIOUS
    <2>2. n - i \in T
      BY <1>3, <2>1
    <2> QED
      BY <1>2, <2>2
  <1> QED
    BY <1>3

\* The same from the first place on.
LEMMA Forwards ==
    ASSUME NEW n \in Nat, n >= 1, NEW P, 1 \in P,
           \A j \in 1 .. n : j < n /\ j \in P => j + 1 \in P
    PROVE  n \in P
  <1> DEFINE T == {j \in 1 .. n : j \notin P}
  <1>1. ASSUME NEW j \in T, \A i \in T : j <= i PROVE FALSE
    <2>1. j \in 1 .. n /\ j \notin P /\ j # 1
      OBVIOUS
    <2>2. j - 1 \in 1 .. n /\ j - 1 < n /\ j - 1 + 1 = j /\ ~(j <= j - 1)
      BY <2>1
    <2>3. j - 1 \in P
      BY <1>1, <2>2
    <2> QED
      BY <2>1, <2>2, <2>3
  <1>2. T = {}
    <2>1. T \in SUBSET Nat
      OBVIOUS
    <2> HIDE DEF T
    <2> QED
      BY <1>1, <2>1, LeastNumber
  <1> QED
    BY <1>2

-----------------------------------------------------------------------------
(* Bytes and flags                                                          *)

\* The parts of a byte.
LEMMA QosOf ==
    /\ \A b : /\ qos_of(b, 0) = (b \div 1) % 4 /\ qos_of(b, 1) = (b \div 2) % 4
              /\ qos_of(b, 3) = (b \div 8) % 4
    /\ \A b \in Octet : qos_of(b, 0) \in 0 .. 3 /\ qos_of(b, 1) \in 0 .. 3 /\ qos_of(b, 3) \in 0 .. 3
  <1>1. 2 ^ 0 = 1 /\ 2 ^ 1 = 2 /\ 2 ^ 3 = 8
    OBVIOUS
  <1>2. \A b : /\ qos_of(b, 0) = (b \div 1) % 4 /\ qos_of(b, 1) = (b \div 2) % 4
               /\ qos_of(b, 3) = (b \div 8) % 4
    BY <1>1, Zenon DEF qos_of
  <1>3. \A b \in Octet : (b \div 1) % 4 \in 0 .. 3 /\ (b \div 2) % 4 \in 0 .. 3 /\ (b \div 8) % 4 \in 0 .. 3
    BY DEF Octet
  <1> QED
    BY <1>2, <1>3

LEMMA QosOfFlags == \A b \in 0 .. 15 : qos_of(b, 1) \in 0 .. 3
  BY QosOf DEF Octet

\* Each of the flags of PUBLISH is set without a change to the others.
LEMMA QosSet ==
    ASSUME NEW flags \in 0 .. 15, NEW qos \in 0 .. 2, NEW g,
           g = flags - 2 * qos_of(flags, 1) + 2 * qos, qos_of(flags, 1) # 3
    PROVE  g \in 0 .. 15 /\ qos_of(g, 1) = qos /\ (retain_of(g) <=> retain_of(flags))
  <1>1. g = flags - 2 * ((flags \div 2) % 4) + 2 * qos /\ qos_of(g, 1) = (g \div 2) % 4
    BY QosOf
  <1>2. g \in 0 .. 15 /\ (g \div 2) % 4 = qos /\ (g \div 1) % 2 = (flags \div 1) % 2
    BY <1>1
  <1> QED
    BY <1>1, <1>2 DEF retain_of, bit

LEMMA RetainSet ==
    ASSUME NEW flags \in 0 .. 15, NEW wanted \in BOOLEAN
    PROVE  /\ retain_into(wanted, flags) \in 0 .. 15
           /\ qos_of(retain_into(wanted, flags), 1) = qos_of(flags, 1)
           /\ retain_of(retain_into(wanted, flags)) <=> wanted
  <1>1. PICK r \in 0 .. 1 : r = IF wanted THEN 1 ELSE 0
    OBVIOUS
  <1>2. PICK g \in Int : g = flags - (flags % 2) + r
    OBVIOUS
  <1>3. retain_into(wanted, flags) = g
    BY <1>1, <1>2 DEF retain_into
  <1>4. g \in 0 .. 15 /\ (g \div 2) % 4 = (flags \div 2) % 4 /\ (g \div 1) % 2 = r
    BY <1>2
  <1>5. wanted <=> r = 1
    BY <1>1
  <1> QED
    BY <1>3, <1>4, <1>5, QosOf DEF retain_of, bit

LEMMA DupSet ==
    ASSUME NEW flags \in 0 .. 15, NEW dup \in BOOLEAN
    PROVE  /\ dup_into(dup, flags) \in 0 .. 15
           /\ qos_of(dup_into(dup, flags), 1) = qos_of(flags, 1)
           /\ retain_of(dup_into(dup, flags)) <=> retain_of(flags)
  <1>1. PICK d \in {0, 8} : d = IF dup THEN 8 ELSE 0
    OBVIOUS
  <1>2. PICK g \in Int : g = (flags % 8) + d
    OBVIOUS
  <1>3. dup_into(dup, flags) = g
    BY <1>1, <1>2 DEF dup_into
  <1>4. g \in 0 .. 15 /\ (g \div 2) % 4 = (flags \div 2) % 4 /\ (g \div 1) % 2 = (flags \div 1) % 2
    BY <1>2
  <1> QED
    BY <1>3, <1>4, QosOf DEF retain_of, bit

LEMMA LengthIsWord ==
    /\ \A w \in Word : w \in Nat
    /\ \A s \in Short : Len(s) \in Word
  <1>1. \A s \in Short : Len(s) \in Nat /\ Len(s) <= MAX_UINT16
    BY DEF Short, Bytes
  <1>2. \A n \in Nat : n <= MAX_UINT16 => n \in Word
    BY DEF Word
  <1>3. \A w \in Word : w \in Nat
    BY DEF Word
  <1> QED
    BY <1>1, <1>2, <1>3

LEMMA Constants ==
    /\ Byte \subseteq Octet /\ Identifier \subseteq Word
    /\ String \subseteq Short /\ TopicString \subseteq Short /\ ConnectFlags \subseteq Octet
  <1>1. Byte \subseteq Octet /\ Identifier \subseteq 0 .. MAX_UINT16
    BY ConstantsAssumption, Zenon DEF ConstantsAssumption, Octet
  <1>2. MAX_UINT16 \in Nat
    BY DEF MAX_UINT16
  <1>3. 0 .. MAX_UINT16 \subseteq Word
    BY <1>2 DEF Word
  <1>4. /\ String \subseteq Bytes /\ TopicString \subseteq Bytes /\ ConnectFlags \subseteq Octet
        /\ \A string \in String \cup TopicString : Len(string) <= MAX_UINT16
    BY ConstantsAssumption, Zenon DEF ConstantsAssumption, Octet, Bytes
  <1>5. String \subseteq Short /\ TopicString \subseteq Short
    BY <1>4 DEF Short
  <1> QED
    BY <1>1, <1>3, <1>4, <1>5, Zenon

\* Two bytes of a word.
LEMMA WordBytes ==
    ASSUME NEW w \in Word
    PROVE  w \div 256 \in Octet /\ w % 256 \in Octet /\ 256 * (w \div 256) + (w % 256) = w
  <1>1. w \in Int /\ 0 <= w /\ w <= 65535
    BY DEF Word, MAX_UINT16
  <1>2. w \div 256 \in Int /\ 0 <= w \div 256 /\ w \div 256 <= 255
    BY <1>1
  <1>4. w % 256 \in 0 .. 255
    BY <1>1
  <1>3. 256 * (w \div 256) + (w % 256) = w
    BY <1>1
  <1> QED
    BY <1>2, <1>3, <1>4 DEF Octet

-----------------------------------------------------------------------------
(* Decoders                                                                 *)

LEMMA Slice ==
    ASSUME NEW s \in Bytes, NEW first \in Nat, NEW last \in Nat,
           first >= 1, last <= Len(s), first <= last + 1
    PROVE  /\ SubSeq(s, first, last) \in Bytes
           /\ Len(SubSeq(s, first, last)) = last + 1 - first
           /\ \A i \in 1 .. last + 1 - first : SubSeq(s, first, last)[i] = s[first + i - 1]
  <1>1. \A i \in first .. last : s[i] \in Octet
    BY DEF Bytes
  <1>2. /\ SubSeq(s, first, last) \in Seq(Octet)
        /\ Len(SubSeq(s, first, last)) = IF first <= last THEN last - first + 1 ELSE 0
        /\ \A i \in 1 .. last - first + 1 : SubSeq(s, first, last)[i] = s[first + i - 1]
    BY <1>1, SubSeqProperties
  <1> QED
    BY <1>2 DEF Bytes

LEMMA DecodeUint16 ==
    ASSUME NEW body \in Bytes, NEW at \in Nat, NEW d, d = decode_uint16(body, at)
    PROVE  \/ d = Throws
           \/ /\ at >= 1 /\ at + 1 <= Len(body)
              /\ d = [next |-> at + 2, value |-> 256 * body[at] + body[at + 1]]
              /\ d.value \in Word
  <1>1. CASE at = 0 \/ distance(body, at) < 2
    BY <1>1 DEF decode_uint16
  <1>2. CASE ~(at = 0 \/ distance(body, at) < 2)
    <2>1. at >= 1 /\ at + 1 <= Len(body)
      BY <1>2 DEF distance, Bytes
    <2>2. PICK x \in Octet, y \in Octet : x = body[at] /\ y = body[at + 1]
      BY <2>1 DEF Bytes
    <2>3. 256 * x + y \in Word
      BY DEF Octet, Word, MAX_UINT16
    <2>4. d = [next |-> at + 2, value |-> 256 * body[at] + body[at + 1]]
      BY <1>2 DEF decode_uint16
    <2> QED
      BY <2>1, <2>2, <2>3, <2>4
  <1> QED
    BY <1>1, <1>2

\* A string is the bytes behind its length, as many of them as that says.
IsString(d, body, at, n) ==
    /\ at >= 1 /\ at + 1 + n <= Len(body)
    /\ n = 256 * body[at] + body[at + 1]
    /\ d = [next |-> at + 2 + n, value |-> SubSeq(body, at + 2, at + 1 + n)]
    /\ d.value \in Short /\ Len(d.value) = n

LEMMA DecodeString ==
    ASSUME NEW body \in Bytes, NEW at \in Nat, NEW d, d = decode_utf8_string(body, at)
    PROVE  \/ d = Throws
           \/ \E n \in Word : IsString(d, body, at, n)
  <1> DEFINE w == decode_uint16(body, at)
  <1>2. d = IF w.next = 0 \/ distance(body, w.next) < w.value THEN Throws
            ELSE [next |-> w.next + w.value, value |-> SubSeq(body, w.next, w.next + w.value - 1)]
    BY DEF decode_utf8_string
  <1>1. w = decode_uint16(body, at)
    OBVIOUS
  <1> HIDE DEF w
  <1>3. CASE w = Throws
    BY <1>2, <1>3 DEF Throws
  <1>4. ASSUME at >= 1, at + 1 <= Len(body), w.value \in Word,
               w = [next |-> at + 2, value |-> 256 * body[at] + body[at + 1]]
        PROVE  \/ d = Throws
               \/ \E n \in Word : IsString(d, body, at, n)
    <2>1. PICK n \in Word : n = w.value
      BY <1>4
    <2>2. w.next = at + 2 /\ n = 256 * body[at] + body[at + 1]
      BY <1>4, <2>1
    <2>3. CASE distance(body, at + 2) < n
      BY <1>2, <2>1, <2>2, <2>3
    <2>4. CASE ~(distance(body, at + 2) < n)
      <3>1. at + 1 + n <= Len(body)
        <4>1. PICK length \in Nat : length = Len(body)
          BY DEF Bytes
        <4>5. n \in Nat
          BY DEF Word
        <4>2. ~((IF at + 2 > length THEN 0 ELSE length + 1 - (at + 2)) < n)
          BY <2>4, <4>1 DEF distance
        <4>3. n \in Nat /\ at + 1 <= length
          BY <1>4, <4>1, <4>5
        <4>4. at + 1 + n <= length
          BY <4>1, <4>2, <4>3
        <4> QED
          BY <4>1, <4>4
      <3>2. d = [next |-> at + 2 + n, value |-> SubSeq(body, at + 2, at + 1 + n)]
        <4>1. at + 2 # 0 /\ at + 2 + n - 1 = at + 1 + n
          BY DEF Word
        <4> QED
          BY <1>2, <2>1, <2>2, <2>4, <4>1
      <3>3. SubSeq(body, at + 2, at + 1 + n) \in Bytes /\ Len(SubSeq(body, at + 2, at + 1 + n)) = n
        <4>0. n \in Nat
          BY DEF Word
        <4>1. PICK first \in Nat, last \in Nat : first = at + 2 /\ last = at + 1 + n
          BY <4>0
        <4>2. first >= 1 /\ last <= Len(body) /\ first <= last + 1 /\ last + 1 - first = n
          BY <3>1, <4>0, <4>1
        <4> QED
          BY <4>1, <4>2, Slice
      <3> QED
        <4>1. d.value \in Short /\ Len(d.value) = n
          BY <3>2, <3>3 DEF Short, Word
        <4>2. IsString(d, body, at, n)
          BY <1>4, <2>2, <3>1, <3>2, <4>1 DEF IsString
        <4> QED
          BY <4>2
    <2> QED
      BY <2>3, <2>4
  <1> QED
    BY <1>1, <1>3, <1>4, DecodeUint16

\* What is read of a PUBLISH adds up to the whole body.
LEMMA PublishFields ==
    ASSUME NEW f, f.body \in Bytes, f.flags \in 0 .. 15, qos_of(f.flags, 1) # 3,
           NEW r, r = publish_fields(f)
    PROVE  \/ r = Throws
           \/ /\ r.next # 0
              /\ r.value \in PublishObject
              /\ r.value.flags = f.flags
  <1> DEFINE body == f.body
             topic_string == decode_utf8_string(f.body, 1)
             packet_id == IF qos_of(f.flags, 1) \in {1, 2} THEN decode_uint16(f.body, topic_string.next)
                          ELSE [next |-> topic_string.next, value |-> 0]
             message == SubSeq(f.body, packet_id.next, Len(f.body))
  <1>1. r = IF packet_id.next = 0 THEN Throws ELSE
            [next |-> packet_id.next,
             value |-> [type |-> "PUBLISH", flags |-> f.flags, remaining_length |-> Len(f.body),
                    topic |-> topic_string.value, packet_identifier |-> packet_id.value,
                    application_message |-> message]]
    BY DEF publish_fields
  <1>2. PICK m : m = message
    OBVIOUS
  <1>3. PICK w : w = packet_id
    OBVIOUS
  <1>4. PICK t : t = topic_string
    OBVIOUS
  <1>5. PICK p : p = [type |-> "PUBLISH", flags |-> f.flags, remaining_length |-> Len(f.body),
                      topic |-> t.value, packet_identifier |-> w.value, application_message |-> m]
    OBVIOUS
  <1>6. /\ r = IF w.next = 0 THEN Throws ELSE [next |-> w.next, value |-> p]
        /\ w = IF qos_of(f.flags, 1) \in {1, 2} THEN decode_uint16(f.body, t.next)
               ELSE [next |-> t.next, value |-> 0]
        /\ m = SubSeq(f.body, w.next, Len(f.body))
    BY <1>1, <1>2, <1>3, <1>4, <1>5
  <1>7. t = decode_utf8_string(f.body, 1)
    BY <1>4
  <1> HIDE DEF body, topic_string, packet_id, message
  <1>8. t = Throws => w.next = 0
    BY <1>6 DEF Throws, decode_uint16
  <1>9. ASSUME t # Throws, w.next # 0
        PROVE  r.next # 0 /\ r.value \in PublishObject /\ r.value.flags = f.flags
    <2>1. PICK n \in Word : /\ 2 + n <= Len(f.body) /\ t.next = 3 + n
                            /\ t.value \in Short /\ Len(t.value) = n
      <3>1. PICK n \in Word : IsString(t, f.body, 1, n)
        BY <1>7, <1>9, DecodeString
      <3>2. n \in Nat
        BY DEF Word
      <3>3. t.next = 1 + 2 + n /\ 1 + 1 + n <= Len(f.body)
        BY <3>1 DEF IsString
      <3>4. t.value \in Short /\ Len(t.value) = n
        BY <3>1 DEF IsString
      <3> QED
        BY <3>2, <3>3, <3>4
    <2>2. n \in Nat /\ Len(f.body) \in Nat
      BY DEF Word, Bytes
    <2>3. qos_of(f.flags, 1) \in 0 .. 3
      BY QosOfFlags
    <2>4. PICK k \in {0, 2} : k = IF qos_of(f.flags, 1) \in {1, 2} THEN 2 ELSE 0
      OBVIOUS
    <2>5. w.next = 3 + n + k /\ w.value \in Word /\ w.next <= Len(f.body) + 1
      <3>1. CASE qos_of(f.flags, 1) \in {1, 2}
        <4>1. w = decode_uint16(f.body, t.next) /\ t.next \in Nat /\ k = 2
          BY <1>6, <2>1, <2>2, <2>4, <3>1
        <4>2. w # Throws
          BY <1>9 DEF Throws
        <4>3. /\ t.next + 1 <= Len(f.body) /\ w.next = t.next + 2 /\ w.value \in Word
          BY <4>1, <4>2, DecodeUint16
        <4> QED
          BY <2>1, <2>2, <4>1, <4>3
      <3>2. CASE qos_of(f.flags, 1) \notin {1, 2}
        <4>1. w.next = t.next /\ w.value = 0 /\ k = 0
          BY <1>6, <2>4, <3>2
        <4> QED
          BY <2>1, <2>2, <4>1 DEF Word, MAX_UINT16
      <3> QED
        BY <3>1, <3>2
    <2>6. m \in Bytes /\ Len(m) = Len(f.body) + 1 - w.next
      <3>1. w.next \in Nat /\ Len(f.body) \in Nat /\ w.next >= 1 /\ w.next <= Len(f.body) + 1
        BY <2>2, <2>4, <2>5
      <3> QED
        BY <1>6, <3>1, Slice, SMTT(30)
    <2>7. Len(f.body) = 2 + Len(t.value) + k + Len(m)
      <3>1. PICK a \in Nat, b \in Nat : a = Len(f.body) /\ b = Len(m)
        BY <2>2, <2>6 DEF Bytes
      <3>2. b = a + 1 - w.next /\ w.next = 3 + n + k
        BY <2>5, <2>6, <3>1
      <3>3. a = 2 + n + k + b
        BY <2>2, <2>4, <3>2
      <3> QED
        BY <2>1, <3>1, <3>3
    <2>8. k = IF qos_of(f.flags, 1) = 0 THEN 0 ELSE 2
      BY <2>3, <2>4
    <2>9. p \in [type : {"PUBLISH"}, flags : 0 .. 15, remaining_length : Nat, topic : Short,
                  packet_identifier : Word, application_message : Bytes]
      BY <2>1, <2>2, <2>5, <2>6, <1>5
    <2>10. p.remaining_length = 2 + Len(p.topic) + (IF qos_of(p.flags, 1) = 0 THEN 0 ELSE 2)
                                    + Len(p.application_message)
      BY <2>7, <2>8, <1>5
    <2>11. p \in PublishObject
      BY <2>9, <2>10 DEF PublishObject
    <2> QED
      <3>1. r.next = w.next /\ r.value = p /\ p.flags = f.flags
        BY <1>6, <1>9, <1>5
      <3> QED
        BY <1>9, <2>11, <3>1
  <1> QED
    BY <1>6, <1>8, <1>9

LEMMA DecodePublish ==
    ASSUME NEW f, f.body \in Bytes, f.flags \in 0 .. 15, NEW p, p = decode_publish(f)
    PROVE  p = malformed_mqtt_packet \/ (p \in PublishObject /\ qos_of(p.flags, 1) # 3)
  <1>1. PICK fields : fields = publish_fields(f)
    OBVIOUS
  <1>2. p = IF \/ refuses_flags(f.flags) \/ fields.next = 0
               \/ ~check_well_formed_topic_name(fields.value.topic)
            THEN malformed_mqtt_packet ELSE fields.value
    BY <1>1 DEF decode_publish
  <1>3. ASSUME p # malformed_mqtt_packet PROVE p \in PublishObject /\ qos_of(p.flags, 1) # 3
    <2>1. ~refuses_flags(f.flags) /\ fields.next # 0 /\ p = fields.value
      BY <1>2, <1>3
    <2>2. qos_of(f.flags, 1) # 3
      BY <2>1 DEF refuses_flags
    <2>3. fields # Throws
      BY <2>1 DEF Throws
    <2> QED
      BY <1>1, <2>1, <2>2, <2>3, PublishFields
  <1> QED
    BY <1>3

LEMMA EmptyIsShort == <<>> \in Short
  <1>1. <<>> \in Seq(Octet) /\ Len(<<>>) = 0
    OBVIOUS
  <1> QED
    BY <1>1 DEF Short, Bytes, MAX_UINT16

\* A decoder of strings returns one even if it throws: the empty one.
LEMMA StringRead ==
    ASSUME NEW body \in Bytes, NEW at \in Nat
    PROVE  decode_utf8_string(body, at).next \in Nat /\ decode_utf8_string(body, at).value \in Short
  <1>1. PICK d : d = decode_utf8_string(body, at)
    OBVIOUS
  <1>2. CASE d = Throws
    BY <1>1, <1>2, EmptyIsShort DEF Throws
  <1>3. ASSUME NEW n \in Word, IsString(d, body, at, n) PROVE d.next \in Nat /\ d.value \in Short
    <2>1. n \in Nat
      BY DEF Word
    <2>2. d.next = at + 2 + n /\ d.value \in Short
      BY <1>3 DEF IsString
    <2> QED
      BY <2>1, <2>2
  <1> QED
    BY <1>1, <1>2, <1>3, DecodeString

LEMMA OptionalRead ==
    ASSUME NEW body \in Bytes, NEW at \in Nat, NEW present
    PROVE  /\ optional_string(present, body, at).next \in Nat
           /\ optional_string(present, body, at).value \in Short
  BY StringRead, EmptyIsShort DEF optional_string

\* A string is cut short, at most.
LEMMA CString ==
    ASSUME NEW s \in Short
    PROVE  c_str(s) \in Short
  <1>1. s \in Bytes /\ Len(s) \in Nat /\ Len(s) <= MAX_UINT16
    BY DEF Short, Bytes
  <1>2. CASE Contains(s, NUL)
    <2> DEFINE I == {i \in 1 .. Len(s) : s[i] = NUL}
    <2>1. I # {} /\ I \in SUBSET Nat
      BY <1>1, <1>2 DEF Contains
    <2>2. SelectInSeq(s, LAMBDA b : b = NUL) = Min(I)
      BY <2>1 DEF SelectInSeq
    <2>3. Min(I) \in I
      <3> HIDE DEF I
      <3>1. PICK x \in I : \A y \in I : x <= y
        BY <2>1, LeastNumber
      <3> QED
        BY <3>1 DEF Min
    <2>4. PICK i \in 1 .. Len(s) : i = Min(I)
      BY <2>3
    <2>5. c_str(s) = SubSeq(s, 1, i - 1)
      BY <1>2, <2>2, <2>4 DEF c_str
    <2>6. PICK last \in Nat : last = i - 1
      BY <1>1
    <2>7. SubSeq(s, 1, last) \in Bytes /\ Len(SubSeq(s, 1, last)) = last
      <3>1. 1 \in Nat /\ 1 >= 1 /\ last <= Len(s) /\ 1 <= last + 1 /\ last + 1 - 1 = last
        BY <1>1, <2>6
      <3> QED
        BY <1>1, <3>1, Slice
    <2> QED
      BY <1>1, <2>5, <2>6, <2>7 DEF Short, MAX_UINT16
  <1>3. CASE ~Contains(s, NUL)
    BY <1>3 DEF c_str
  <1> QED
    BY <1>2, <1>3

LEMMA ConnectFields ==
    ASSUME NEW body \in Bytes, NEW beyond \in Octet, NEW c, c = connect_fields(body, beyond)
    PROVE  /\ c.value.connect_flags \in Octet
           /\ c.value.will_topic \in Short
           /\ c.value.will_message \in Short
           /\ c.value = [type |-> "CONNECT", protocol_name |-> c.value.protocol_name,
                    protocol_level |-> c.value.protocol_level, connect_flags |-> c.value.connect_flags,
                    keep_alive_secs |-> c.value.keep_alive_secs, client_id |-> c.value.client_id,
                    will_topic |-> c.value.will_topic, will_message |-> c.value.will_message,
                    username |-> c.value.username, password |-> c.value.password]
  <1> DEFINE protocol_name == decode_utf8_string(body, 1)
             level_at == protocol_name.next
             flags == byte_at(body, level_at + 1, beyond)
             keep_alive_secs == decode_uint16(body, IF level_at = 0 THEN 0 ELSE level_at + 2)
             client_id == decode_utf8_string(body, keep_alive_secs.next)
             will_topic == optional_string(contains_last_will(flags), body, client_id.next)
             will_message == optional_string(contains_last_will(flags), body, will_topic.next)
             username == optional_string(has_username(flags), body, will_message.next)
             password == optional_string(has_password(flags), body, username.next)
  <1>1. c = [next |-> password.next,
             value |-> [type |-> "CONNECT", protocol_name |-> protocol_name.value,
                    protocol_level |-> byte_at(body, level_at, beyond), connect_flags |-> flags,
                    keep_alive_secs |-> keep_alive_secs.value, client_id |-> client_id.value,
                    will_topic |-> will_topic.value, will_message |-> will_message.value,
                    username |-> username.value, password |-> password.value]]
    BY Zenon DEF connect_fields
  <1>2. level_at \in Nat
    BY StringRead
  <1> HIDE DEF level_at, protocol_name
  <1>3. flags \in Octet
    BY <1>2 DEF byte_at, Bytes
  <1>4. keep_alive_secs.next \in Nat
    <2>1. (IF level_at = 0 THEN 0 ELSE level_at + 2) \in Nat
      BY <1>2
    <2>2. PICK at \in Nat : at = IF level_at = 0 THEN 0 ELSE level_at + 2
      BY <2>1
    <2>3. decode_uint16(body, at).next \in Nat
      BY DecodeUint16 DEF Throws
    <2> QED
      BY <2>2, <2>3
  <1> HIDE DEF flags, keep_alive_secs
  <1>5. client_id.next \in Nat
    BY <1>4, StringRead
  <1> HIDE DEF client_id
  <1>6. will_topic.next \in Nat /\ will_topic.value \in Short
    BY <1>5, OptionalRead
  <1> HIDE DEF will_topic
  <1>7. will_message.value \in Short
    BY <1>6, OptionalRead
  <1> HIDE DEF will_message, username, password
  <1> QED
    BY <1>1, <1>3, <1>6, <1>7

LEMMA DecodeConnect ==
    ASSUME NEW f, f.body \in Bytes, NEW beyond \in Octet, NEW p, p = decode_connect(f, beyond)
    PROVE  \/ p = malformed_mqtt_packet
           \/ /\ p.type = "CONNECT" /\ p.connect_flags \in Octet
              /\ p.will_topic \in Short /\ p.will_message \in Short
  <1>1. PICK fields : fields = connect_fields(f.body, beyond)
    OBVIOUS
  <1>2. PICK c : c = fields.value
    OBVIOUS
  <1>3. PICK q : q = [c EXCEPT !.protocol_name = c_str(@), !.client_id = c_str(@),
                               !.will_topic = c_str(@), !.username = c_str(@), !.password = c_str(@)]
    OBVIOUS
  <1>4. p = malformed_mqtt_packet \/ p = q
    BY <1>1, <1>2, <1>3 DEF decode_connect
  <1>5. /\ c.connect_flags \in Octet /\ c.will_topic \in Short /\ c.will_message \in Short
        /\ c = [type |-> "CONNECT", protocol_name |-> c.protocol_name,
                    protocol_level |-> c.protocol_level, connect_flags |-> c.connect_flags,
                    keep_alive_secs |-> c.keep_alive_secs, client_id |-> c.client_id,
                    will_topic |-> c.will_topic, will_message |-> c.will_message,
                    username |-> c.username, password |-> c.password]
    BY <1>1, <1>2, ConnectFields
  <1>6. /\ q.type = "CONNECT" /\ q.connect_flags = c.connect_flags
        /\ q.will_topic = c_str(c.will_topic) /\ q.will_message = c.will_message
    BY <1>3, <1>5
  <1> QED
    BY <1>4, <1>5, <1>6, CString

\* Acknowledgements.
LEMMA DecodeAck ==
    ASSUME NEW f, f.body \in Bytes, NEW p, p = decode_publish_ack(f)
    PROVE  p = malformed_mqtt_packet \/ (p.type = f.type /\ p.packet_identifier \in Word)
  <1>1. PICK w : w = decode_uint16(f.body, 1)
    OBVIOUS
  <1>2. p = malformed_mqtt_packet
        \/ (w.next # 0 /\ p = [type |-> f.type, packet_identifier |-> w.value])
    BY <1>1, Zenon DEF decode_publish_ack
  <1>3. w.next # 0 => w.value \in Word
    BY <1>1, DecodeUint16 DEF Throws
  <1> QED
    BY <1>2, <1>3

-----------------------------------------------------------------------------
(* Lists                                                                    *)

\* One step of the recursion of decode_list, for a body of N bytes.
ListStep(N, item, from, at) ==
    IF at = N + 1 THEN [next |-> at, value |-> <<>>]
    ELSE LET one == item[at]
         IN  IF one.next = 0 \/ from[one.next].next = 0 THEN Throws
             ELSE [next |-> from[one.next].next, value |-> <<one.value>> \o from[one.next].value]

\* Each item ends behind its start.
Advances(N, item) == \A at \in 1 .. N : item[at].next = 0 \/ item[at].next \in at + 1 .. N + 1

LEMMA ListEnd ==
    ASSUME NEW N, NEW item, NEW from
    PROVE  ListStep(N, item, from, N + 1) = [next |-> N + 1, value |-> <<>>]
  BY Zenon DEF ListStep

ItemStep(from, one) ==
    IF one.next = 0 \/ from[one.next].next = 0 THEN Throws
    ELSE [next |-> from[one.next].next, value |-> <<one.value>> \o from[one.next].value]

LEMMA ListItem ==
    ASSUME NEW N, NEW item, NEW from, NEW at, at # N + 1
    PROVE  ListStep(N, item, from, at) = ItemStep(from, item[at])
  BY Zenon DEF ListStep, ItemStep

LEMMA SameListStep ==
    ASSUME NEW N, NEW item, NEW f, NEW g, NEW at,
           at = N + 1 \/ item[at].next = 0 \/ f[item[at].next] = g[item[at].next]
    PROVE  ListStep(N, item, f, at) = ListStep(N, item, g, at)
  <1>1. PICK one : one = item[at]
    OBVIOUS
  <1>2. \A h : ListStep(N, item, h, at) =
               IF at = N + 1 THEN [next |-> at, value |-> <<>>]
               ELSE IF one.next = 0 \/ h[one.next].next = 0 THEN Throws
                    ELSE [next |-> h[one.next].next, value |-> <<one.value>> \o h[one.next].value]
    BY <1>1, Zenon DEF ListStep
  <1>3. CASE at = N + 1 \/ one.next = 0
    BY <1>2, <1>3
  <1>4. CASE f[one.next] = g[one.next]
    BY <1>2, <1>4
  <1> QED
    BY <1>1, <1>3, <1>4

\* The recursion has a solution.
LEMMA ListDefined ==
    ASSUME NEW N \in Nat, NEW item, Advances(N, item)
    PROVE  \E from : from = [at \in 1 .. N + 1 |-> ListStep(N, item, from, at)]
  <1> DEFINE Right(f, i) == \A j \in i .. N + 1 : f[j] = ListStep(N, item, f, j)
             P == {i \in 1 .. N + 1 : \E f : Right(f, i)}
  <1>1. \A j \in 1 .. N : item[j].next = 0 \/ item[j].next \in j + 1 .. N + 1
    BY DEF Advances
  <1>2. N + 1 \in P
    <2> DEFINE f == [j \in 1 .. N + 1 |-> [next |-> j, value |-> <<>>]]
    <2>1. Right(f, N + 1)
      BY DEF ListStep
    <2> QED
      BY <2>1
  <1>3. ASSUME NEW i \in 1 .. N + 1, i < N + 1, i + 1 \in P PROVE i \in P
    <2>1. PICK g : Right(g, i + 1)
      BY <1>3
    <2> DEFINE f == [j \in 1 .. N + 1 |-> IF j = i THEN ListStep(N, item, g, i) ELSE g[j]]
    <2>2. \A j \in i + 1 .. N + 1 : f[j] = g[j] /\ j \in 1 .. N + 1
      OBVIOUS
    <2>3. f[i] = ListStep(N, item, g, i)
      OBVIOUS
    <2> HIDE DEF f
    <2>4. ASSUME NEW j \in i .. N + 1 PROVE ListStep(N, item, f, j) = ListStep(N, item, g, j)
      <3>1. j = N + 1 \/ j \in 1 .. N
        OBVIOUS
      <3>2. j = N + 1 \/ item[j].next = 0 \/ item[j].next \in i + 1 .. N + 1
        BY <1>1, <3>1
      <3>3. j = N + 1 \/ item[j].next = 0 \/ f[item[j].next] = g[item[j].next]
        BY <2>2, <3>2
      <3> QED
        BY <3>3, SameListStep
    <2>5. ASSUME NEW j \in i .. N + 1 PROVE f[j] = ListStep(N, item, f, j)
      <3>1. j = i \/ j \in i + 1 .. N + 1
        OBVIOUS
      <3>2. f[j] = ListStep(N, item, g, j)
        BY <2>1, <2>2, <2>3, <3>1
      <3> QED
        BY <2>4, <3>2
    <2>6. Right(f, i)
      BY <2>5
    <2> QED
      BY <2>6
  <1>4. 1 \in P
    <2>1. \A i \in 1 .. N + 1 : i < N + 1 /\ i + 1 \in P => i \in P
      BY <1>3
    <2> HIDE DEF P
    <2>2. PICK n \in Nat : n = N + 1
      OBVIOUS
    <2>3. \A i \in 1 .. n : i \in P
      BY <1>2, <2>1, <2>2, Backwards
    <2> QED
      BY <2>2, <2>3
  <1>5. PICK g : Right(g, 1)
    BY <1>4
  <1> DEFINE h == [i \in 1 .. N + 1 |-> g[i]]
  <1>6. ASSUME NEW j \in 1 .. N + 1 PROVE ListStep(N, item, h, j) = g[j]
    <2>1. j = N + 1 \/ j \in 1 .. N
      OBVIOUS
    <2>2. j = N + 1 \/ item[j].next = 0 \/ item[j].next \in 1 .. N + 1
      BY <1>1, <2>1
    <2>3. j = N + 1 \/ item[j].next = 0 \/ h[item[j].next] = g[item[j].next]
      BY <2>2
    <2> HIDE DEF h
    <2>4. ListStep(N, item, h, j) = ListStep(N, item, g, j)
      BY <2>3, SameListStep
    <2> QED
      BY <1>5, <2>4
  <1>7. h = [i \in 1 .. N + 1 |-> ListStep(N, item, h, i)]
    BY <1>6
  <1> QED
    BY <1>7

LEMMA DecodeList ==
    ASSUME NEW body \in Bytes, NEW item, Advances(Len(body), item), NEW start \in 1 .. Len(body) + 1
    PROVE  \E from :
               /\ from[Len(body) + 1] = [next |-> Len(body) + 1, value |-> <<>>]
               /\ \A at \in 1 .. Len(body) : from[at] = ItemStep(from, item[at])
               /\ decode_list(body, start, item) = from[start]
  <1>1. PICK N \in Nat : N = Len(body)
    BY DEF Bytes
  <1> DEFINE S(f) == f = [at \in 1 .. Len(body) + 1 |-> ListStep(Len(body), item, f, at)]
             from == CHOOSE f : S(f)
  <1>2. \E f : S(f)
    BY <1>1, ListDefined
  <1>3. S(from)
    BY <1>2, ZenonT(40)
  <1>4. decode_list(body, start, item) = from[start]
    BY DEF decode_list, ListStep
  <1>5. from = [at \in 1 .. Len(body) + 1 |-> ListStep(Len(body), item, from, at)]
    BY <1>3
  <1> HIDE DEF from
  <1>6. \A at \in 1 .. Len(body) + 1 : from[at] = ListStep(Len(body), item, from, at)
    BY <1>5
  <1>7. from[Len(body) + 1] = [next |-> Len(body) + 1, value |-> <<>>]
    <2>1. from[Len(body) + 1] = ListStep(Len(body), item, from, Len(body) + 1)
      BY <1>1, <1>6
    <2> QED
      BY <2>1, ListEnd, Zenon
  <1>8. ASSUME NEW at \in 1 .. Len(body) PROVE from[at] = ItemStep(from, item[at])
    <2>1. from[at] = ListStep(Len(body), item, from, at) /\ at # Len(body) + 1
      BY <1>1, <1>6
    <2> QED
      BY <2>1, ListItem, ZenonT(40)
  <1> QED
    BY <1>4, <1>7, <1>8

\* A list holds what the decoder of items returns.
LEMMA ListValues ==
    ASSUME NEW body \in Bytes, NEW item, Advances(Len(body), item), NEW start \in Nat,
           start <= Len(body) + 1, NEW V,
           \A at \in 1 .. Len(body) : item[at].next # 0 => item[at].value \in V
    PROVE  decode_list(body, start, item).value \in Seq(V)
  <1>1. PICK N \in Nat : N = Len(body)
    BY DEF Bytes
  <1>2. <<>> \in Seq(V)
    OBVIOUS
  <1>3. CASE start = 0
    BY <1>2, <1>3 DEF decode_list, Throws
  <1>4. ASSUME start \in 1 .. N + 1 PROVE decode_list(body, start, item).value \in Seq(V)
    <2>1. PICK from : /\ from[N + 1] = [next |-> N + 1, value |-> <<>>]
                      /\ \A at \in 1 .. N : from[at] = ItemStep(from, item[at])
                      /\ decode_list(body, start, item) = from[start]
      BY <1>1, <1>4, DecodeList
    <2> DEFINE P == {at \in 1 .. N + 1 : \A j \in at .. N + 1 : from[j].value \in Seq(V)}
    <2>3. N + 1 \in P
      <3>1. from[N + 1].value \in Seq(V)
        BY <1>2, <2>1
      <3> QED
        BY <3>1
    <2>4. ASSUME NEW i \in 1 .. N + 1, i < N + 1, i + 1 \in P PROVE i \in P
      <3>1. PICK one : one = item[i]
        OBVIOUS
      <3>2. from[i] = IF one.next = 0 \/ from[one.next].next = 0 THEN Throws
                      ELSE [next |-> from[one.next].next, value |-> <<one.value>> \o from[one.next].value]
        <4>1. i \in 1 .. N
          BY <2>4
        <4>2. from[i] = ItemStep(from, one)
          BY <2>1, <3>1, <4>1
        <4> QED
          BY <4>2, Zenon DEF ItemStep
      <3>3. i \in 1 .. N
        BY <2>4
      <3>4. one.next = 0 \/ (one.next \in i + 1 .. N + 1 /\ one.value \in V)
        BY <1>1, <3>1, <3>3 DEF Advances
      <3>5. one.next = 0 \/ (from[one.next].value \in Seq(V) /\ one.value \in V)
        BY <2>4, <3>4
      <3>6. from[i].value \in Seq(V)
        <4>1. CASE one.next = 0 \/ from[one.next].next = 0
          BY <1>2, <3>2, <4>1 DEF Throws
        <4>2. CASE ~(one.next = 0 \/ from[one.next].next = 0)
          <5>1. PICK rest \in Seq(V), x \in V : rest = from[one.next].value /\ x = one.value
            BY <3>5, <4>2
          <5>2. from[i].value = <<x>> \o rest
            BY <3>2, <4>2, <5>1
          <5> QED
            BY <5>1, <5>2
        <4> QED
          BY <4>1, <4>2
      <3>7. \A j \in i .. N + 1 : j = i \/ j \in i + 1 .. N + 1
        OBVIOUS
      <3> QED
        BY <2>4, <3>6, <3>7
    <2>5. start \in P
      <3>1. \A i \in 1 .. N + 1 : i < N + 1 /\ i + 1 \in P => i \in P
        BY <2>4
      <3> HIDE DEF P
      <3>2. PICK n \in Nat : n = N + 1
        OBVIOUS
      <3>3. \A i \in 1 .. n : i \in P
        BY <2>3, <3>1, <3>2, Backwards
      <3> QED
        BY <1>4, <3>2, <3>3
    <2> QED
      BY <1>4, <2>1, <2>5
  <1> QED
    BY <1>1, <1>3, <1>4

LEMMA DecodeUnsubscribe ==
    ASSUME NEW f, f.body \in Bytes, NEW p, p = decode_unsubscribe(f)
    PROVE  p = malformed_mqtt_packet \/ (p.type = "UNSUBSCRIBE" /\ p.packet_identifier \in Word)
  <1> DEFINE packet_id == decode_uint16(f.body, 1)
             filter_at[at \in DOMAIN f.body] == decode_utf8_string(f.body, at)
             list == decode_list(f.body, packet_id.next, filter_at)
  <1>1. p = malformed_mqtt_packet
        \/ (list.value # <<>> /\ p = [type |-> "UNSUBSCRIBE", packet_identifier |-> packet_id.value,
                                      topic_filters |-> list.value])
    BY DEF decode_unsubscribe
  <1>2. packet_id.next = 0 => list.value = <<>>
    <2> HIDE DEF packet_id, filter_at
    <2> QED
      BY DEF decode_list, Throws
  <1>3. packet_id.next # 0 => packet_id.value \in Word
    BY DecodeUint16 DEF Throws
  <1> HIDE DEF packet_id, list
  <1> QED
    BY <1>1, <1>2, <1>3

\* The items of SUBSCRIBE are a filter and a QoS.
OneSubscription(x, at) ==
    LET filter == decode_utf8_string(x, at)
        maximum_qos == decode_qos(x, filter.next)
    IN  IF maximum_qos.next = 0 \/ ~well_formed_topic_filter(filter.value) THEN Throws
        ELSE [next |-> maximum_qos.next,
              value |-> [topic_filter |-> filter.value, maximum_qos |-> maximum_qos.value]]

SubscriptionItems(x) == [at \in DOMAIN x |-> OneSubscription(x, at)]

Subscription == [topic_filter : Short, maximum_qos : 0 .. 3]

LEMMA OneSubscriptionIs ==
    ASSUME NEW x \in Bytes, NEW at \in 1 .. Len(x), NEW one, one = OneSubscription(x, at)
    PROVE  \/ one.next = 0
           \/ one.next \in at + 1 .. Len(x) + 1 /\ one.value \in Subscription
  <1>1. PICK t : t = decode_utf8_string(x, at)
    OBVIOUS
  <1>2. PICK q : q = decode_qos(x, t.next)
    OBVIOUS
  <1>3. \/ one = Throws
        \/ /\ q.next # 0
           /\ one = [next |-> q.next, value |-> [topic_filter |-> t.value, maximum_qos |-> q.value]]
    BY <1>1, <1>2 DEF OneSubscription
  <1>4. ASSUME q.next # 0
        PROVE  q.next \in at + 1 .. Len(x) + 1 /\ q.value \in 0 .. 3 /\ t.value \in Short
    <2>1. t # Throws
      BY <1>2, <1>4 DEF decode_qos, Throws
    <2>2. PICK n \in Word : IsString(t, x, at, n)
      BY <1>1, <2>1, DecodeString
    <2>3. t.next = at + 2 + n /\ t.value \in Short
      BY <2>2 DEF IsString
    <2>4. n \in Nat
      BY DEF Word
    <2>5. PICK next \in Nat : next = t.next /\ next >= at + 2
      BY <2>3, <2>4
    <2>6. q = [next |-> next + 1, value |-> qos_of(x[next], 0)] /\ next <= Len(x)
      <3>1. ~(next = 0 \/ distance(x, next) < 1)
        BY <1>2, <1>4, <2>5 DEF decode_qos, Throws
      <3>2. next <= Len(x)
        BY <3>1 DEF distance
      <3> QED
        BY <1>2, <2>5, <3>1, <3>2 DEF decode_qos
    <2>7. qos_of(x[next], 0) \in 0 .. 3
      <3>1. x[next] \in Octet
        BY <2>5, <2>6 DEF Bytes
      <3> QED
        BY <3>1, QosOf
    <2>8. Len(x) \in Nat
      BY DEF Bytes
    <2> QED
      BY <2>3, <2>5, <2>6, <2>7, <2>8
  <1>5. CASE one = Throws
    BY <1>5 DEF Throws
  <1>6. CASE one # Throws
    BY <1>3, <1>4, <1>6 DEF Subscription
  <1> QED
    BY <1>5, <1>6

LEMMA DecodeSubscribe ==
    ASSUME NEW f, f.body \in Bytes, NEW p, p = decode_subscribe(f)
    PROVE  \/ p = malformed_mqtt_packet
           \/ /\ p.type = "SUBSCRIBE" /\ p.packet_identifier \in Word
              /\ p.subscriptions \in Seq([topic_filter : Short, maximum_qos : 0 .. 3])
  <1> DEFINE packet_id == decode_uint16(f.body, 1)
             item == SubscriptionItems(f.body)
             list == decode_list(f.body, packet_id.next, item)
  <1>1. p = malformed_mqtt_packet
        \/ (list.value # <<>> /\ p = [type |-> "SUBSCRIBE", packet_identifier |-> packet_id.value,
                                      subscriptions |-> list.value])
    BY DEF decode_subscribe, SubscriptionItems, OneSubscription
  <1>2. packet_id.next = 0 => list.value = <<>>
    <2> HIDE DEF packet_id, item
    <2> QED
      BY DEF decode_list, Throws
  <1>3. packet_id.next # 0 => packet_id.value \in Word
    BY DecodeUint16 DEF Throws
  <1>4. packet_id.next \in Nat /\ packet_id.next <= Len(f.body) + 1
    <2>1. Len(f.body) \in Nat
      BY DEF Bytes
    <2> QED
      BY <2>1, DecodeUint16 DEF Throws
  <1>5. \A at \in 1 .. Len(f.body) : item[at] = OneSubscription(f.body, at)
    BY DEF Bytes, SubscriptionItems
  <1>6. Advances(Len(f.body), item)
        /\ \A at \in 1 .. Len(f.body) : item[at].next # 0 => item[at].value \in Subscription
    <2> HIDE DEF item
    <2> QED
      BY <1>5, OneSubscriptionIs DEF Advances
  <1>7. list.value \in Seq(Subscription)
    <2> HIDE DEF packet_id, item
    <2> QED
      BY <1>4, <1>6, ListValues
  <1> HIDE DEF packet_id, list
  <1> QED
    BY <1>1, <1>2, <1>3, <1>7 DEF Subscription

\* What is decoded has the type of the frame and the fields of its class.
LEMMA DecodeIs ==
    ASSUME NEW f \in Frame, NEW beyond \in Octet, NEW p, p = decode(f, beyond)
    PROVE  \/ p = malformed_mqtt_packet
           \/ p = invalid_argument
           \/ p.type = f.type /\ Decoded(p)
  <1>1. f.body \in Bytes /\ f.flags \in 0 .. 15 /\ f.type \in FrameType
    BY DEF Frame
  <1>2. CASE f.type = "CONNECT"
    <2>1. p = decode_connect(f, beyond)
      BY <1>2 DEF decode
    <2> QED
      BY <1>1, <1>2, <2>1, DecodeConnect DEF Decoded
  <1>3. CASE f.type = "PUBLISH"
    <2>1. p = decode_publish(f)
      BY <1>3 DEF decode
    <2>2. p = malformed_mqtt_packet \/ (p \in PublishObject /\ qos_of(p.flags, 1) # 3)
      BY <1>1, <2>1, DecodePublish
    <2>3. p \in PublishObject => p.type = "PUBLISH"
      BY DEF PublishObject
    <2> QED
      BY <1>3, <2>2, <2>3 DEF Decoded
  <1>4. CASE f.type = "SUBSCRIBE"
    <2>1. p = decode_subscribe(f)
      BY <1>4 DEF decode
    <2> QED
      BY <1>1, <1>4, <2>1, DecodeSubscribe DEF Decoded
  <1>5. CASE f.type = "UNSUBSCRIBE"
    <2>1. p = decode_unsubscribe(f)
      BY <1>5 DEF decode
    <2> QED
      BY <1>1, <1>5, <2>1, DecodeUnsubscribe DEF Decoded
  <1>6. CASE f.type \in {"PUBACK", "PUBREC", "PUBREL", "PUBCOMP"}
    <2>1. p = decode_publish_ack(f)
      BY <1>6 DEF decode
    <2> QED
      BY <1>1, <1>6, <2>1, DecodeAck DEF Decoded
  <1>7. CASE f.type \in {"PINGREQ", "DISCONNECT"}
    <2>1. p = decode_empty(f)
      BY <1>7 DEF decode
    <2> QED
      BY <1>7, <2>1 DEF decode_empty, Decoded
  <1>8. CASE f.type \in {"CONNACK", "RESERVED1"}
    BY <1>8 DEF decode
  <1> QED
    BY <1>1, <1>2, <1>3, <1>4, <1>5, <1>6, <1>7, <1>8 DEF FrameType

-----------------------------------------------------------------------------
(* Encoders                                                                 *)

\* The bytes t are in x, behind k others.
Holds(x, k, t) == k + Len(t) <= Len(x) /\ \A i \in 1 .. Len(t) : x[k + i] = t[i]

LEMMA ConcatHolds ==
    ASSUME NEW s \in Bytes, NEW t \in Bytes
    PROVE  /\ s \o t \in Bytes
           /\ Len(s \o t) = Len(s) + Len(t)
           /\ Holds(s \o t, 0, s)
           /\ Holds(s \o t, Len(s), t)
  <1>1. s \in Seq(Octet) /\ t \in Seq(Octet)
    BY DEF Bytes
  <1>2. /\ s \o t \in Seq(Octet)
        /\ Len(s \o t) = Len(s) + Len(t)
        /\ \A i \in 1 .. Len(s) + Len(t) : (s \o t)[i] = IF i <= Len(s) THEN s[i] ELSE t[i - Len(s)]
    BY <1>1, ConcatProperties
  <1>3. PICK x : x = s \o t
    OBVIOUS
  <1>4. PICK a \in Nat, b \in Nat : a = Len(s) /\ b = Len(t)
    BY <1>1
  <1>5. \A i \in 1 .. a : x[0 + i] = s[i]
    BY <1>2, <1>3, <1>4
  <1>6. ASSUME NEW i \in 1 .. b PROVE x[a + i] = t[i]
    <2>1. a + i \in 1 .. a + b /\ ~(a + i <= a) /\ a + i - a = i
      OBVIOUS
    <2> QED
      BY <1>2, <1>3, <1>4, <2>1
  <1> QED
    BY <1>2, <1>3, <1>4, <1>5, <1>6 DEF Bytes, Holds

LEMMA HoldsMore ==
    ASSUME NEW s \in Bytes, NEW t \in Bytes, NEW u \in Bytes, NEW k \in Nat, Holds(s, k, u)
    PROVE  Holds(s \o t, k, u)
  <1>1. PICK x : x = s \o t
    OBVIOUS
  <1>2. PICK a \in Nat, b \in Nat, c \in Nat : a = Len(s) /\ b = Len(t) /\ c = Len(u)
    BY DEF Bytes
  <1>3. Len(x) = a + b /\ \A i \in 1 .. a : x[0 + i] = s[i]
    BY <1>1, <1>2, ConcatHolds DEF Holds
  <1>4. k + c <= a /\ \A i \in 1 .. c : s[k + i] = u[i]
    BY <1>2 DEF Holds
  <1>5. ASSUME NEW i \in 1 .. c PROVE x[k + i] = u[i]
    <2>1. k + i \in 1 .. a /\ 0 + (k + i) = k + i
      BY <1>4
    <2> QED
      BY <1>3, <1>4, <2>1
  <1> QED
    BY <1>1, <1>2, <1>3, <1>4, <1>5 DEF Holds

LEMMA HoldsSlice ==
    ASSUME NEW x \in Bytes, NEW t \in Bytes, NEW k \in Nat, Holds(x, k, t),
           NEW first \in Nat, first = k + 1, NEW last \in Nat, last = k + Len(t)
    PROVE  SubSeq(x, first, last) = t
  <1>1. PICK c \in Nat : c = Len(t)
    BY DEF Bytes
  <1>2. first >= 1 /\ last <= Len(x) /\ first <= last + 1 /\ last + 1 - first = c
    BY <1>1 DEF Holds
  <1>3. PICK y : y = SubSeq(x, first, last)
    OBVIOUS
  <1>4. y \in Bytes /\ Len(y) = c /\ \A i \in 1 .. c : y[i] = x[first + i - 1]
    BY <1>2, <1>3, Slice
  <1>5. ASSUME NEW i \in 1 .. c PROVE y[i] = t[i]
    <2>1. first + i - 1 = k + i
      OBVIOUS
    <2> QED
      BY <1>1, <1>4, <2>1 DEF Holds
  <1>6. y \in Seq(Octet) /\ t \in Seq(Octet)
    BY <1>4 DEF Bytes
  <1>7. y = t
    BY <1>1, <1>4, <1>5, <1>6
  <1> QED
    BY <1>3, <1>7

\* What the encoders write is read back.
LEMMA WordReadBack ==
    ASSUME NEW w \in Word
    PROVE  /\ encode_uint16(w) \in Bytes /\ Len(encode_uint16(w)) = 2
           /\ \A x \in Bytes, k \in Nat : Holds(x, k, encode_uint16(w)) =>
                  decode_uint16(x, k + 1) = [next |-> k + 3, value |-> w]
  <1>1. PICK a \in Octet, b \in Octet : a = w \div 256 /\ b = w % 256 /\ 256 * a + b = w
    BY WordBytes
  <1>2. encode_uint16(w) = <<a, b>>
    BY <1>1 DEF encode_uint16
  <1>3. <<a, b>> \in Seq(Octet) /\ Len(<<a, b>>) = 2 /\ <<a, b>>[1] = a /\ <<a, b>>[2] = b
    OBVIOUS
  <1>4. ASSUME NEW x \in Bytes, NEW k \in Nat, Holds(x, k, encode_uint16(w))
        PROVE  decode_uint16(x, k + 1) = [next |-> k + 3, value |-> w]
    <2>1. k + 2 <= Len(x) /\ x[k + 1] = a /\ x[k + 2] = b
      BY <1>2, <1>3, <1>4 DEF Holds
    <2>2. Len(x) \in Nat
      BY DEF Bytes
    <2>3. PICK at \in Nat : at = k + 1
      OBVIOUS
    <2>4. ~(at = 0 \/ distance(x, at) < 2)
      BY <2>1, <2>2, <2>3 DEF distance
    <2>5. decode_uint16(x, at) = [next |-> at + 2, value |-> 256 * x[at] + x[at + 1]]
      BY <2>4 DEF decode_uint16
    <2>6. at + 2 = k + 3 /\ at + 1 = k + 2
      BY <2>3
    <2>7. x[at] = a /\ x[at + 1] = b
      BY <2>1, <2>3, <2>6
    <2>8. decode_uint16(x, at) = [next |-> k + 3, value |-> 256 * a + b]
      BY <2>5, <2>6, <2>7
    <2> QED
      BY <1>1, <2>3, <2>8
  <1> QED
    BY <1>2, <1>3, <1>4 DEF Bytes

LEMMA StringReadBack ==
    ASSUME NEW x \in Bytes, NEW t \in Short, NEW k \in Nat,
           Holds(x, k, encode_uint16(Len(t))), Holds(x, k + 2, t)
    PROVE  decode_utf8_string(x, k + 1) = [next |-> k + 3 + Len(t), value |-> t]
  <1>1. PICK n \in Word : n = Len(t)
    BY LengthIsWord
  <1>2. PICK d : d = decode_utf8_string(x, k + 1)
    OBVIOUS
  <1>3. PICK w : w = decode_uint16(x, k + 1)
    OBVIOUS
  <1>4. n \in Nat /\ t \in Bytes
    BY DEF Word, Short
  <1>5. w = [next |-> k + 3, value |-> n]
    BY <1>1, <1>3, WordReadBack
  <1>6. d = IF w.next = 0 \/ distance(x, w.next) < w.value THEN Throws
            ELSE [next |-> w.next + w.value, value |-> SubSeq(x, w.next, w.next + w.value - 1)]
    BY <1>2, <1>3, Zenon DEF decode_utf8_string
  <1>7. k + 2 + n <= Len(x) /\ Len(x) \in Nat
    BY <1>1 DEF Holds, Bytes
  <1>8. ~(k + 3 = 0 \/ distance(x, k + 3) < n)
    BY <1>4, <1>7 DEF distance
  <1>9. PICK first \in Nat, last \in Nat, j \in Nat : first = k + 3 /\ last = k + 3 + n - 1 /\ j = k + 2
    BY <1>4
  <1>10. SubSeq(x, first, last) = t
    <2>1. first = j + 1 /\ last = j + Len(t) /\ Holds(x, j, t)
      BY <1>1, <1>4, <1>9
    <2> QED
      BY <1>4, <2>1, HoldsSlice
  <1>11. d = [next |-> k + 3 + n, value |-> SubSeq(x, k + 3, k + 3 + n - 1)]
    BY <1>5, <1>6, <1>8
  <1> QED
    BY <1>1, <1>2, <1>9, <1>10, <1>11

\* A PUBLISH is read by its receivers as it was written, and its remaining
\* length is right.
LEMMA EncodePublish ==
    ASSUME NEW p \in PublishObject, qos_of(p.flags, 1) # 3, NEW f, f = encode(p)
    PROVE  /\ f.type = "PUBLISH" /\ f.flags = p.flags
           /\ f.body \in Bytes /\ f.remaining_length = Len(f.body)
           /\ publish_fields(f).next # 0
           /\ publish_fields(f).value.topic = p.topic
           /\ publish_fields(f).value.application_message = p.application_message
  <1>1. /\ p.type = "PUBLISH" /\ p.flags \in 0 .. 15 /\ p.topic \in Short /\ p.topic \in Bytes
        /\ p.packet_identifier \in Word /\ p.application_message \in Bytes
        /\ p.remaining_length = 2 + Len(p.topic) + (IF qos_of(p.flags, 1) = 0 THEN 0 ELSE 2)
                                    + Len(p.application_message)
    BY DEF PublishObject, Short
  <1>2. PICK t \in Short, m \in Bytes : t = p.topic /\ m = p.application_message
    BY <1>1
  <1>3. PICK n \in Word : n = Len(t)
    BY LengthIsWord
  <1>4. PICK l : l = encode_uint16(n)
    OBVIOUS
  <1>5. PICK i : i = IF qos_of(p.flags, 1) = 0 THEN <<>> ELSE encode_uint16(p.packet_identifier)
    OBVIOUS
  <1>6. PICK x : x = ((l \o t) \o i) \o m
    OBVIOUS
  <1>7. f = [type |-> "PUBLISH", flags |-> p.flags, remaining_length |-> p.remaining_length, body |-> x]
    <2>1. body_of(p) = x
      BY <1>1, <1>2, <1>3, <1>4, <1>5, <1>6 DEF body_of, encode_utf8_string
    <2> QED
      BY <1>1, <2>1 DEF encode
  <1>8. l \in Bytes /\ Len(l) = 2 /\ t \in Bytes /\ n \in Nat
    <2>1. t \in Bytes
      BY DEF Short
    <2> QED
      BY <1>4, <2>1, WordReadBack, LengthIsWord
  <1>9. PICK k \in {0, 2} : k = IF qos_of(p.flags, 1) = 0 THEN 0 ELSE 2
    OBVIOUS
  <1>10. i \in Bytes /\ Len(i) = k
    <2>1. <<>> \in Bytes /\ Len(<<>>) = 0
      BY EmptyIsShort DEF Short
    <2> QED
      BY <1>1, <1>5, <1>9, <2>1, WordReadBack
  <1> DEFINE head == l \o t
             front == head \o i
  <1>11. head \in Bytes /\ Len(head) = 2 + n /\ Holds(head, 0, l) /\ Holds(head, 2, t)
    BY <1>3, <1>8, ConcatHolds
  <1>12. front \in Bytes /\ Len(front) = 2 + n + k
         /\ Holds(front, 0, l) /\ Holds(front, 2, t) /\ Holds(front, 2 + n, i)
    <2> HIDE DEF head
    <2> QED
      BY <1>8, <1>10, <1>11, ConcatHolds, HoldsMore
  <1>13. x \in Bytes /\ Len(x) = 2 + n + k + Len(m)
         /\ Holds(x, 0, l) /\ Holds(x, 2, t) /\ Holds(x, 2 + n, i) /\ Holds(x, 2 + n + k, m)
    <2>1. x = front \o m
      BY <1>6
    <2> HIDE DEF front
    <2>2. x \in Bytes /\ Len(x) = 2 + n + k + Len(m) /\ Holds(x, 2 + n + k, m)
      BY <1>12, <2>1, ConcatHolds
    <2>3. Holds(x, 0, l)
      BY <1>8, <1>12, <2>1, HoldsMore
    <2>4. Holds(x, 2, t)
      BY <1>8, <1>12, <2>1, HoldsMore
    <2>5. PICK j \in Nat : j = 2 + n
      BY <1>8
    <2>6. Holds(x, j, i)
      BY <1>10, <1>12, <2>1, <2>5, HoldsMore
    <2> QED
      BY <2>2, <2>3, <2>4, <2>5, <2>6
  <1> HIDE DEF head, front
  <1>14. f.remaining_length = Len(x)
    BY <1>1, <1>2, <1>3, <1>7, <1>9, <1>13
  <1>15. decode_utf8_string(x, 1) = [next |-> 3 + n, value |-> t]
    <2>1. decode_utf8_string(x, 0 + 1) = [next |-> 0 + 3 + Len(t), value |-> t]
      <3>1. Holds(x, 0 + 2, t) /\ Holds(x, 0, encode_uint16(Len(t))) /\ 0 \in Nat
        BY <1>3, <1>4, <1>13
      <3> QED
        BY <1>13, <3>1, StringReadBack
    <2> QED
      BY <1>3, <1>8, <2>1
  <1>16. PICK w : w = IF qos_of(f.flags, 1) \in {1, 2} THEN decode_uint16(f.body, 3 + n)
                      ELSE [next |-> 3 + n, value |-> 0]
    OBVIOUS
  <1>17. w.next = 3 + n + k
    <2>1. qos_of(p.flags, 1) \in 0 .. 3
      BY <1>1, QosOfFlags
    <2>2. CASE qos_of(p.flags, 1) = 0
      BY <1>7, <1>8, <1>9, <1>16, <2>2
    <2>3. CASE qos_of(p.flags, 1) \in {1, 2}
      <3>1. PICK j \in Nat : j = 2 + n
        BY <1>8
      <3>2. decode_uint16(x, j + 1) = [next |-> j + 3, value |-> p.packet_identifier]
        <4>1. Holds(x, j, encode_uint16(p.packet_identifier))
          BY <1>5, <1>13, <2>3, <3>1
        <4> QED
          BY <1>1, <1>13, <4>1, WordReadBack
      <3>3. j + 1 = 3 + n /\ j + 3 = 3 + n + 2 /\ k = 2
        BY <1>8, <1>9, <2>3, <3>1
      <3> QED
        BY <1>7, <1>16, <2>3, <3>2, <3>3
    <2> QED
      BY <2>1, <2>2, <2>3
  <1>18. SubSeq(x, w.next, Len(x)) = m
    <2>1. PICK first \in Nat, last \in Nat, j \in Nat : first = w.next /\ last = Len(x) /\ j = 2 + n + k
      <3>1. 3 + n + k \in Nat /\ 2 + n + k \in Nat
        BY <1>8
      <3>2. Len(x) \in Nat
        BY <1>13 DEF Bytes
      <3> QED
        BY <1>17, <3>1, <3>2
    <2>2. first = j + 1 /\ last = j + Len(m)
      BY <1>8, <1>13, <1>17, <2>1
    <2> QED
      BY <1>13, <2>1, <2>2, HoldsSlice, SMTT(30)
  <1>19. publish_fields(f) =
             [next |-> w.next,
              value |-> [type |-> "PUBLISH", flags |-> f.flags, remaining_length |-> Len(f.body),
                         topic |-> t, packet_identifier |-> w.value, application_message |-> m]]
    <2> DEFINE topic_string == decode_utf8_string(f.body, 1)
               packet_id == IF qos_of(f.flags, 1) \in {1, 2} THEN decode_uint16(f.body, topic_string.next)
                            ELSE [next |-> topic_string.next, value |-> 0]
    <2>1. publish_fields(f) =
              IF packet_id.next = 0 THEN Throws ELSE
              [next |-> packet_id.next,
               value |-> [type |-> "PUBLISH", flags |-> f.flags, remaining_length |-> Len(f.body),
                          topic |-> topic_string.value, packet_identifier |-> packet_id.value,
                          application_message |-> SubSeq(f.body, packet_id.next, Len(f.body))]]
      BY DEF publish_fields
    <2>2. topic_string.next = 3 + n /\ topic_string.value = t
      BY <1>7, <1>15
    <2> HIDE DEF topic_string
    <2>3. packet_id = w
      BY <1>16, <2>2
    <2> HIDE DEF packet_id
    <2>4. w.next # 0 /\ SubSeq(f.body, w.next, Len(f.body)) = m
      BY <1>7, <1>8, <1>17, <1>18
    <2> QED
      BY <2>1, <2>2, <2>3, <2>4
  <1>20. w.next # 0
    BY <1>8, <1>17
  <1>21. f.type = "PUBLISH" /\ f.flags = p.flags /\ f.body = x
    BY <1>7
  <1>22. PICK fields : fields = publish_fields(f)
    OBVIOUS
  <1>23. fields.next # 0 /\ fields.value.topic = t /\ fields.value.application_message = m
    BY <1>19, <1>20, <1>22
  <1> QED
    BY <1>2, <1>13, <1>14, <1>21, <1>22, <1>23

-----------------------------------------------------------------------------
(* What is sent                                                             *)

LEMMA NothingSent ==
    ASSUME SentInv, UNCHANGED <<packet, sent>>
    PROVE  SentInv'
  BY DEF SentInv, LengthMatches, ForwardedIntact, Published, AnswersFit

LEMMA SentPublish ==
    ASSUME NEW p, Carries(p), NEW qos \in 0 .. 2, qos_of(p.flags, 1) = qos, NEW stored,
           retain_of(p.flags) <=> stored, packet' = packet, send(p, qos, stored)
    PROVE  SentInv'
  <1>1. PICK f : f = encode(p)
    OBVIOUS
  <1>2. sent'.frame = f /\ sent'.qos = qos /\ sent'.stored = stored
    BY <1>1 DEF send
  <1>3. /\ f.type = "PUBLISH" /\ f.flags = p.flags /\ p.flags \in 0 .. 15
        /\ f.body \in Bytes /\ f.remaining_length = Len(f.body)
        /\ publish_fields(f).next # 0
        /\ publish_fields(f).value.topic = Published.topic
        /\ publish_fields(f).value.application_message = Published.message
    <2>1. p \in PublishObject /\ qos_of(p.flags, 1) # 3
      BY DEF Carries
    <2>2. p.topic = Published.topic /\ p.application_message = Published.message
      BY DEF Carries
    <2>3. p.flags \in 0 .. 15
      BY <2>1 DEF PublishObject
    <2> QED
      BY <1>1, <2>1, <2>2, <2>3, EncodePublish
  <1>4. Published' = Published
    BY DEF Published
  <1>5. (sent # NoPacket => sent.frame.flags \in 0 .. 15 /\ sent.frame.body \in Bytes)'
    BY <1>2, <1>3
  <1>6. LengthMatches'
    BY <1>2, <1>3 DEF LengthMatches
  <1>7. ForwardedIntact'
    BY <1>2, <1>3, <1>4 DEF ForwardedIntact
  <1>8. AnswersFit'
    BY <1>2, <1>3 DEF AnswersFit
  <1> QED
    BY <1>5, <1>6, <1>7, <1>8 DEF SentInv

LEMMA SentAck ==
    ASSUME NEW type \in {"PUBACK", "PUBREC", "PUBREL", "PUBCOMP", "UNSUBACK"}, NEW flags,
           flags = IF type = "PUBREL" THEN 2 ELSE 0,
           packet.packet_identifier \in Word, packet' = packet,
           answer(ack(type, flags, packet.packet_identifier))
    PROVE  SentInv'
  <1>1. PICK id \in Word : id = packet.packet_identifier
    OBVIOUS
  <1>2. PICK x : x = encode_uint16(id)
    OBVIOUS
  <1>3. PICK f : f = [type |-> type, flags |-> flags, remaining_length |-> 2, body |-> x]
    OBVIOUS
  <1>4. encode(ack(type, flags, id)) = f
    BY <1>2, <1>3 DEF encode, ack, body_of
  <1>5. sent'.frame = f
    BY <1>1, <1>4 DEF answer, send
  <1>6. x \in Bytes /\ Len(x) = 2 /\ decode_uint16(x, 1) = [next |-> 3, value |-> id]
    <2>1. x \in Bytes /\ Len(x) = 2
      BY <1>2, WordReadBack
    <2>2. Holds(x, 0, encode_uint16(id)) /\ 0 \in Nat
      BY <1>2, <2>1 DEF Holds
    <2>3. decode_uint16(x, 0 + 1) = [next |-> 0 + 3, value |-> id]
      BY <2>1, <2>2, WordReadBack
    <2> QED
      BY <2>1, <2>3
  <1>7. type = "PUBREL" => decode_publish_ack(f).type = "PUBREL"
    <2>1. ASSUME type = "PUBREL"
          PROVE  decode_publish_ack(f) = [type |-> f.type, packet_identifier |-> id]
      BY <1>3, <1>6, <2>1 DEF decode_publish_ack
    <2> QED
      BY <1>3, <2>1
  <1>8. (sent # NoPacket => sent.frame.flags \in 0 .. 15 /\ sent.frame.body \in Bytes)'
    BY <1>3, <1>5, <1>6
  <1>9. LengthMatches'
    BY <1>3, <1>5, <1>6 DEF LengthMatches
  <1>10. ForwardedIntact'
    BY <1>3, <1>5 DEF ForwardedIntact
  <1>11. AnswersFit'
    BY <1>1, <1>3, <1>5, <1>6, <1>7 DEF AnswersFit
  <1> QED
    BY <1>8, <1>9, <1>10, <1>11 DEF SentInv

LEMMA SentConnack ==
    ASSUME NEW code \in {CONNECTION_ACCEPTED, BAD_USERNAME_OR_PASSWORD}, packet' = packet,
           answer(connack(code)) \/ answer(pingresp)
    PROVE  SentInv'
  <1>1. code \in Octet
    BY DEF CONNECTION_ACCEPTED, BAD_USERNAME_OR_PASSWORD, Octet
  <1>2. PICK f : f = sent'.frame
    OBVIOUS
  <1>3. \/ f = [type |-> "CONNACK", flags |-> 0, remaining_length |-> 2, body |-> <<0, code>>]
        \/ f = [type |-> "PINGRESP", flags |-> 0, remaining_length |-> 0, body |-> <<>>]
    BY <1>2 DEF answer, send, encode, connack, pingresp, body_of
  <1>4. f.flags = 0 /\ f.type \in {"CONNACK", "PINGRESP"}
        /\ f.body \in Bytes /\ f.remaining_length = Len(f.body)
    <2>1. 0 \in Octet
      BY DEF Octet
    <2>2. <<0, code>> \in Bytes /\ Len(<<0, code>>) = 2 /\ <<>> \in Bytes /\ Len(<<>>) = 0
      BY <1>1, <2>1 DEF Bytes
    <2>3. CASE f = [type |-> "CONNACK", flags |-> 0, remaining_length |-> 2, body |-> <<0, code>>]
      BY <2>2, <2>3
    <2>4. CASE f = [type |-> "PINGRESP", flags |-> 0, remaining_length |-> 0, body |-> <<>>]
      BY <2>2, <2>4
    <2> QED
      BY <1>3, <2>3, <2>4
  <1>5. LengthMatches'
    BY <1>2, <1>4 DEF LengthMatches
  <1>6. ForwardedIntact'
    BY <1>2, <1>4 DEF ForwardedIntact
  <1>7. AnswersFit'
    BY <1>2, <1>4 DEF AnswersFit
  <1> QED
    BY <1>2, <1>4, <1>5, <1>6, <1>7 DEF SentInv

LEMMA SentSuback ==
    ASSUME packet.packet_identifier \in Word, packet' = packet, answer(succeed(packet)),
           packet.subscriptions \in Seq([topic_filter : Short, maximum_qos : 0 .. 3])
    PROVE  SentInv'
  <1>1. PICK id \in Word : id = packet.packet_identifier
    OBVIOUS
  <1>2. PICK subs \in Seq([topic_filter : Short, maximum_qos : 0 .. 3]) : subs = packet.subscriptions
    OBVIOUS
  <1>3. PICK codes : codes = [i \in DOMAIN subs |->
                                  IF subs[i].maximum_qos = 3 THEN FAILURE ELSE subs[i].maximum_qos]
    OBVIOUS
  <1>4. PICK n \in Nat : n = Len(subs)
    OBVIOUS
  <1>5. \A i \in 1 .. n : codes[i] \in Octet /\ codes[i] \in {subs[i].maximum_qos, FAILURE}
    <2>1. \A i \in 1 .. n : subs[i].maximum_qos \in 0 .. 3
      <3> DEFINE S == [topic_filter : Short, maximum_qos : 0 .. 3]
      <3>1. \A s \in S : s.maximum_qos \in 0 .. 3
        OBVIOUS
      <3>2. subs \in Seq(S)
        OBVIOUS
      <3> HIDE DEF S
      <3>3. \A i \in 1 .. n : subs[i] \in S
        BY <1>4, <3>2
      <3> QED
        BY <3>1, <3>3
    <2>2. \A q \in 0 .. 3 : q \in Octet
      BY DEF Octet
    <2>3. FAILURE \in Octet
      BY DEF FAILURE, Octet
    <2>4. \A i \in 1 .. n : codes[i] = IF subs[i].maximum_qos = 3 THEN FAILURE ELSE subs[i].maximum_qos
      BY <1>3, <1>4
    <2> QED
      BY <2>1, <2>2, <2>3, <2>4
  <1>6. codes \in Bytes /\ Len(codes) = n
    <2>1. DOMAIN subs = 1 .. n
      BY <1>4
    <2>2. codes \in [1 .. n -> Octet]
      BY <1>3, <1>5, <2>1
    <2> QED
      BY <2>2 DEF Bytes
  <1>7. PICK l : l = encode_uint16(id)
    OBVIOUS
  <1>8. PICK x : x = l \o codes
    OBVIOUS
  <1>9. PICK f : f = [type |-> "SUBACK", flags |-> 0, remaining_length |-> 2 + n, body |-> x]
    OBVIOUS
  <1>10. sent'.frame = f
    <2>1. succeed(packet) = [type |-> "SUBACK", flags |-> 0, remaining_length |-> 2 + n,
                             packet_identifier |-> id, return_codes |-> codes]
      BY <1>1, <1>2, <1>3, <1>4 DEF succeed
    <2>2. encode(succeed(packet)) = f
      BY <1>7, <1>8, <1>9, <2>1 DEF encode, body_of
    <2> QED
      BY <2>2 DEF answer, send
  <1>11. l \in Bytes /\ Len(l) = 2
    BY <1>7, WordReadBack
  <1>12. x \in Bytes /\ Len(x) = 2 + n /\ Holds(x, 0, l) /\ Holds(x, 2, codes)
    BY <1>6, <1>8, <1>11, ConcatHolds
  <1>13. decode_uint16(x, 1).value = id
    <2>1. decode_uint16(x, 0 + 1) = [next |-> 0 + 3, value |-> id]
      BY <1>7, <1>12, WordReadBack
    <2> QED
      BY <2>1
  <1>14. \A i \in 1 .. n : x[i + 2] \in {subs[i].maximum_qos, FAILURE}
    <2>1. \A i \in 1 .. n : x[2 + i] = codes[i] /\ 2 + i = i + 2
      BY <1>6, <1>12 DEF Holds
    <2> QED
      BY <1>5, <2>1
  <1>15. DOMAIN subs = 1 .. n
    BY <1>4
  <1>16. LengthMatches'
    BY <1>9, <1>10, <1>12 DEF LengthMatches
  <1>17. ForwardedIntact'
    BY <1>9, <1>10 DEF ForwardedIntact
  <1>18. AnswersFit'
    BY <1>1, <1>2, <1>4, <1>9, <1>10, <1>12, <1>13, <1>14, <1>15 DEF AnswersFit
  <1>19. (sent # NoPacket => sent.frame.flags \in 0 .. 15 /\ sent.frame.body \in Bytes)'
    BY <1>9, <1>10, <1>12
  <1> QED
    BY <1>16, <1>17, <1>18, <1>19 DEF SentInv

-----------------------------------------------------------------------------
(* The steps                                                                *)

LEMMA StringEncoded ==
    ASSUME NEW t \in Short
    PROVE  encode_utf8_string(t) \in Bytes
  <1>1. encode_uint16(Len(t)) \in Bytes /\ t \in Bytes
    BY LengthIsWord, WordReadBack DEF Short
  <1> QED
    BY <1>1, ConcatHolds DEF encode_utf8_string

LEMMA OptionalEncoded ==
    ASSUME NEW t \in Short, NEW present
    PROVE  Optional(present, t) \in Bytes
  BY StringEncoded, EmptyIsShort DEF Optional, Short

\* Lists.  Like decode_list, FlattenSeq is defined by a recursion.
FlattenStep(seqs, f, i) == IF i = 1 THEN seqs[i] ELSE f[i - 1] \o seqs[i]

LEMMA FlattenLater ==
    ASSUME NEW seqs, NEW f, NEW j \in Nat, j >= 1
    PROVE  FlattenStep(seqs, f, j + 1) = f[j] \o seqs[j + 1]
  <1>1. PICK i \in Nat : i = j + 1
    OBVIOUS
  <1>2. i # 1 /\ i - 1 = j
    BY <1>1
  <1>3. FlattenStep(seqs, f, i) = f[i - 1] \o seqs[i]
    BY <1>2, Zenon DEF FlattenStep
  <1> QED
    BY <1>1, <1>2, <1>3

LEMMA FlattenDefined ==
    ASSUME NEW seqs, NEW n \in Nat, n >= 1
    PROVE  \E f : f = [i \in 1 .. n |-> FlattenStep(seqs, f, i)]
  <1> DEFINE Right(f, j) == \A i \in 1 .. j : f[i] = FlattenStep(seqs, f, i)
             P == {j \in 1 .. n : \E f : Right(f, j)}
  <1>1. 1 \in P
    <2> DEFINE f == [i \in 1 .. n |-> seqs[1]]
    <2>1. Right(f, 1)
      BY DEF FlattenStep
    <2> QED
      BY <2>1
  <1>2. ASSUME NEW j \in 1 .. n, j < n, j \in P PROVE j + 1 \in P
    <2>1. PICK g : Right(g, j)
      BY <1>2
    <2> DEFINE f == [i \in 1 .. n |-> IF i = j + 1 THEN g[j] \o seqs[j + 1] ELSE g[i]]
    <2>2. \A i \in 1 .. j : f[i] = g[i]
      BY <1>2
    <2>3. f[j + 1] = g[j] \o seqs[j + 1]
      <3>1. j + 1 \in 1 .. n
        BY <1>2
      <3> QED
        BY <3>1
    <2> HIDE DEF f
    <2>4. f[j + 1] = FlattenStep(seqs, f, j + 1)
      <3>1. f[j] = g[j]
        BY <1>2, <2>2
      <3>2. FlattenStep(seqs, f, j + 1) = f[j] \o seqs[j + 1]
        <4>1. j \in Nat /\ j >= 1
          OBVIOUS
        <4> HIDE DEF P, Right
        <4> QED
          BY <4>1, FlattenLater
      <3> QED
        BY <2>3, <3>1, <3>2
    <2>5. ASSUME NEW i \in 1 .. j PROVE f[i] = FlattenStep(seqs, f, i)
      <3>1. f[i] = g[i] /\ g[i] = FlattenStep(seqs, g, i)
        BY <2>1, <2>2
      <3>2. i # 1 => i - 1 \in 1 .. j
        OBVIOUS
      <3>3. i # 1 => f[i - 1] = g[i - 1]
        BY <2>2, <3>2
      <3> QED
        BY <3>1, <3>3 DEF FlattenStep
    <2>6. Right(f, j + 1)
      <3>1. \A i \in 1 .. j + 1 : i = j + 1 \/ i \in 1 .. j
        OBVIOUS
      <3> QED
        BY <2>4, <2>5, <3>1
    <2>7. j + 1 \in 1 .. n
      BY <1>2
    <2> QED
      BY <2>6, <2>7
  <1>3. n \in P
    <2>1. \A j \in 1 .. n : j < n /\ j \in P => j + 1 \in P
      BY <1>2
    <2> HIDE DEF P
    <2> QED
      BY <1>1, <2>1, Forwards
  <1>4. PICK g : Right(g, n)
    BY <1>3
  <1> DEFINE h == [i \in 1 .. n |-> g[i]]
  <1>5. ASSUME NEW i \in 1 .. n PROVE FlattenStep(seqs, h, i) = g[i]
    <2>1. i # 1 => i - 1 \in 1 .. n
      OBVIOUS
    <2>2. i # 1 => h[i - 1] = g[i - 1]
      BY <2>1
    <2> HIDE DEF h
    <2> QED
      BY <1>4, <2>2 DEF FlattenStep
  <1>6. h = [i \in 1 .. n |-> FlattenStep(seqs, h, i)]
    BY <1>5
  <1> QED
    BY <1>6

LEMMA FlattenIs ==
    ASSUME NEW seqs, Len(seqs) \in Nat, Len(seqs) >= 1
    PROVE  \E f : /\ \A i \in 1 .. Len(seqs) : f[i] = FlattenStep(seqs, f, i)
                  /\ FlattenSeq(seqs) = f[Len(seqs)]
  <1> DEFINE S(f) == f = [i \in 1 .. Len(seqs) |-> FlattenStep(seqs, f, i)]
             flatten == CHOOSE f : S(f)
  <1>1. \E f : S(f)
    BY FlattenDefined
  <1>2. S(flatten)
    BY <1>1, Zenon
  <1>3. FlattenSeq(seqs) = flatten[Len(seqs)]
    BY DEF FlattenSeq, FlattenStep
  <1>4. flatten = [i \in 1 .. Len(seqs) |-> FlattenStep(seqs, flatten, i)]
    BY <1>2
  <1> HIDE DEF flatten
  <1>5. \A i \in 1 .. Len(seqs) : flatten[i] = FlattenStep(seqs, flatten, i)
    BY <1>4
  <1> QED
    BY <1>3, <1>5

LEMMA FlattenBytes ==
    ASSUME NEW seqs \in Seq(Bytes)
    PROVE  FlattenSeq(seqs) \in Bytes
  <1>1. PICK n \in Nat : n = Len(seqs)
    OBVIOUS
  <1>2. CASE n = 0
    <2>1. seqs = <<>>
      BY <1>1, <1>2, EmptySeq
    <2>2. FlattenSeq(seqs) = seqs
      BY <1>1, <1>2, Zenon DEF FlattenSeq
    <2> QED
      BY <2>1, <2>2, EmptyIsShort DEF Short
  <1>3. CASE n # 0
    <2>1. PICK f : /\ \A i \in 1 .. n : f[i] = FlattenStep(seqs, f, i)
                   /\ FlattenSeq(seqs) = f[n]
      BY <1>1, <1>3, FlattenIs
    <2> DEFINE P == {i \in 1 .. n : f[i] \in Bytes}
    <2>2. \A i \in 1 .. n : seqs[i] \in Bytes
      BY <1>1
    <2>3. 1 \in P
      BY <1>3, <2>1, <2>2 DEF FlattenStep
    <2>4. ASSUME NEW j \in 1 .. n, j < n, j \in P PROVE j + 1 \in P
      <3>1. j + 1 \in 1 .. n /\ j \in Nat /\ j >= 1
        BY <2>4
      <3>2. f[j + 1] = f[j] \o seqs[j + 1]
        <4>1. FlattenStep(seqs, f, j + 1) = f[j] \o seqs[j + 1]
          BY <3>1, FlattenLater
        <4> QED
          BY <2>1, <3>1, <4>1
      <3>3. f[j + 1] \in Bytes
        BY <2>2, <2>4, <3>1, <3>2, ConcatHolds
      <3> QED
        BY <3>1, <3>3
    <2>5. n \in P
      <3>1. \A j \in 1 .. n : j < n /\ j \in P => j + 1 \in P
        BY <2>4
      <3> HIDE DEF P
      <3> QED
        BY <1>3, <2>3, <3>1, Forwards
    <2> QED
      BY <2>1, <2>5
  <1> QED
    BY <1>2, <1>3

\* What clients encode, whole or damaged, is a frame.
LEMMA Joined ==
    ASSUME NEW s \in Bytes, NEW t \in Bytes
    PROVE  s \o t \in Bytes
  BY ConcatHolds

LEMMA ConnectBody ==
    ASSUME NEW p \in clientConnect
    PROVE  p.type = "CONNECT" /\ client_body(p) \in Bytes
  <1>1. p.type = "CONNECT" /\ p.protocol_name \in Short /\ p.client_id \in Short
        /\ p.will_topic \in Short /\ p.will_message \in Short
        /\ p.username \in Short /\ p.password \in Short
        /\ p.connect_flags \in Octet /\ p.protocol_level = 4 /\ p.keep_alive_secs = 1
    <2>1. PICK name \in String, flags \in ConnectFlags, id \in String, will \in String, user \in String :
              p = [type |-> "CONNECT", protocol_name |-> name, protocol_level |-> 4,
                   connect_flags |-> flags, keep_alive_secs |-> 1, client_id |-> id,
                   will_topic |-> IF contains_last_will(flags) THEN will ELSE <<>>,
                   will_message |-> IF contains_last_will(flags) THEN will ELSE <<>>,
                   username |-> IF has_username(flags) THEN user ELSE <<>>,
                   password |-> IF has_password(flags) THEN user ELSE <<>>]
      BY DEF clientConnect
    <2>2. name \in Short /\ id \in Short /\ will \in Short /\ user \in Short /\ flags \in Octet
      BY Constants
    <2> QED
      BY <2>1, <2>2, EmptyIsShort
  <1> DEFINE flags == p.connect_flags
             head == encode_utf8_string(p.protocol_name)
             fixed == <<p.protocol_level, flags>>
             alive == encode_uint16(p.keep_alive_secs)
             id == encode_utf8_string(p.client_id)
             topic_string == Optional(contains_last_will(flags), p.will_topic)
             message == Optional(contains_last_will(flags), p.will_message)
             user == Optional(has_username(flags), p.username)
             password == Optional(has_password(flags), p.password)
  <1>2. client_body(p) = head \o fixed \o alive \o id \o topic_string \o message \o user \o password
    BY <1>1 DEF client_body
  <1>3. head \in Bytes /\ id \in Bytes
    BY <1>1, StringEncoded
  <1>4. fixed \in Bytes
    <2>1. 4 \in Octet
      BY DEF Octet
    <2> QED
      BY <1>1, <2>1 DEF Bytes
  <1>5. alive \in Bytes
    <2>1. 1 \in Word
      BY DEF Word, MAX_UINT16
    <2> QED
      BY <1>1, <2>1, WordReadBack
  <1>6. topic_string \in Bytes /\ message \in Bytes /\ user \in Bytes /\ password \in Bytes
    BY <1>1, OptionalEncoded
  <1> HIDE DEF head, fixed, alive, id, topic_string, message, user, password
  <1>7. head \o fixed \o alive \in Bytes
    BY <1>3, <1>4, <1>5, Joined
  <1>8. head \o fixed \o alive \o id \o topic_string \in Bytes
    BY <1>3, <1>6, <1>7, Joined
  <1>9. head \o fixed \o alive \o id \o topic_string \o message \o user \o password \in Bytes
    BY <1>6, <1>8, Joined
  <1> QED
    BY <1>1, <1>2, <1>9

LEMMA PublishBody ==
    ASSUME NEW p \in clientPublish
    PROVE  p.type = "PUBLISH" /\ p.flags \in 0 .. 15 /\ client_body(p) \in Bytes
  <1>1. p.type = "PUBLISH" /\ p.flags \in 0 .. 15 /\ p.topic \in Short /\ p.application_message \in Short
        /\ p.packet_identifier \in Word
    <2>1. p \in [type : {"PUBLISH"}, flags : 0 .. 15, topic : TopicString,
                 packet_identifier : Identifier \cup {0}, application_message : String]
      BY DEF clientPublish
    <2>2. p.type = "PUBLISH" /\ p.flags \in 0 .. 15 /\ p.topic \in TopicString
          /\ p.packet_identifier \in Identifier \cup {0} /\ p.application_message \in String
      BY <2>1
    <2>3. 0 \in Word
      BY DEF Word, MAX_UINT16
    <2> QED
      BY <2>2, <2>3, Constants
  <1> DEFINE topic_string == encode_utf8_string(p.topic)
             id == IF qos_of(p.flags, 1) \in {1, 2} THEN encode_uint16(p.packet_identifier) ELSE <<>>
  <1>2. client_body(p) = topic_string \o id \o p.application_message
    BY <1>1 DEF client_body
  <1>3. topic_string \in Bytes
    BY <1>1, StringEncoded
  <1>4. id \in Bytes
    <2>1. <<>> \in Bytes
      BY EmptyIsShort DEF Short
    <2> QED
      BY <1>1, <2>1, WordReadBack
  <1>5. p.application_message \in Bytes
    BY <1>1 DEF Short
  <1> HIDE DEF topic_string, id
  <1> QED
    BY <1>1, <1>2, <1>3, <1>4, <1>5, Joined

LEMMA SubscribeBody ==
    ASSUME NEW p \in clientSubscribe \cup clientUnsubscribe
    PROVE  p.type \in {"SUBSCRIBE", "UNSUBSCRIBE"} /\ client_body(p) \in Bytes
  <1>1. p.packet_identifier \in Word
    BY Constants DEF clientSubscribe, clientUnsubscribe
  <1>2. encode_uint16(p.packet_identifier) \in Bytes
    BY <1>1, WordReadBack
  <1>3. CASE p \in clientSubscribe
    <2> DEFINE item == [topic_filter : TopicString, maximum_qos : 0 .. 3]
               code(i) == Append(encode_utf8_string(p.subscriptions[i].topic_filter),
                                 p.subscriptions[i].maximum_qos)
               codes == [i \in DOMAIN p.subscriptions |-> code(i)]
    <2>1. p.type = "SUBSCRIBE" /\ p.subscriptions \in BoundedSeq(item, MaxFilters)
      BY <1>3 DEF clientSubscribe
    <2>2. PICK n \in 0 .. MaxFilters : p.subscriptions \in [1 .. n -> item]
      BY <2>1, ConstantsAssumption DEF BoundedSeq, SeqOf
    <2>3. ASSUME NEW i \in 1 .. n PROVE code(i) \in Bytes
      <3>1. p.subscriptions[i] \in item
        BY <2>2
      <3>2. p.subscriptions[i].topic_filter \in Short /\ p.subscriptions[i].maximum_qos \in Octet
        BY <3>1, Constants DEF Octet
      <3>3. encode_utf8_string(p.subscriptions[i].topic_filter) \in Bytes
        BY <3>2, StringEncoded
      <3> QED
        BY <3>2, <3>3 DEF Bytes
    <2> HIDE DEF code
    <2>4. codes \in [1 .. n -> Bytes]
      BY <2>2, <2>3
    <2>5. codes \in Seq(Bytes)
      BY <2>4
    <2>6. client_body(p) = encode_uint16(p.packet_identifier) \o FlattenSeq(codes)
      BY <2>1 DEF client_body, code
    <2> HIDE DEF codes
    <2> QED
      BY <1>2, <2>1, <2>5, <2>6, FlattenBytes, Joined
  <1>4. CASE p \in clientUnsubscribe
    <2> DEFINE codes == [i \in DOMAIN p.topic_filters |-> encode_utf8_string(p.topic_filters[i])]
    <2>1. p.type = "UNSUBSCRIBE" /\ p.topic_filters \in BoundedSeq(TopicString, MaxFilters)
      BY <1>4 DEF clientUnsubscribe
    <2>2. PICK n \in 0 .. MaxFilters : p.topic_filters \in [1 .. n -> TopicString]
      BY <2>1, ConstantsAssumption DEF BoundedSeq, SeqOf
    <2>3. ASSUME NEW i \in 1 .. n PROVE encode_utf8_string(p.topic_filters[i]) \in Bytes
      BY <2>2, Constants, StringEncoded
    <2>4. codes \in [1 .. n -> Bytes]
      BY <2>2, <2>3
    <2>5. codes \in Seq(Bytes)
      BY <2>4
    <2>6. client_body(p) = encode_uint16(p.packet_identifier) \o FlattenSeq(codes)
      BY <2>1 DEF client_body
    <2> HIDE DEF codes
    <2> QED
      BY <1>2, <2>1, <2>5, <2>6, FlattenBytes, Joined
  <1> QED
    BY <1>3, <1>4

LEMMA ClientFrame ==
    ASSUME NEW p \in ClientPacket
    PROVE  client_encode(p) \in Frame
  <1>1. \/ p \in clientConnect
        \/ p \in clientPublish
        \/ p \in clientSubscribe \cup clientUnsubscribe
        \/ p \in clientAck
        \/ p \in [type : {"PINGREQ", "DISCONNECT", "CONNACK", "RESERVED1"}]
    BY DEF ClientPacket
  <1>2. p.type \in FrameType /\ client_body(p) \in Bytes /\ (p.type = "PUBLISH" => p.flags \in 0 .. 15)
    <2>1. CASE p \in clientConnect
      BY <2>1, ConnectBody DEF FrameType
    <2>2. CASE p \in clientPublish
      BY <2>2, PublishBody DEF FrameType
    <2>3. CASE p \in clientSubscribe \cup clientUnsubscribe
      BY <2>3, SubscribeBody DEF FrameType
    <2>4. CASE p \in clientAck
      <3>1. p.type \in {"PUBACK", "PUBREC", "PUBREL", "PUBCOMP"} /\ p.packet_identifier \in Word
        BY <2>4, Constants DEF clientAck
      <3>2. client_body(p) = encode_uint16(p.packet_identifier)
        BY <3>1 DEF client_body
      <3> QED
        BY <3>1, <3>2, WordReadBack DEF FrameType
    <2>5. CASE p \in [type : {"PINGREQ", "DISCONNECT", "CONNACK", "RESERVED1"}]
      <3>1. p.type \in {"PINGREQ", "DISCONNECT", "CONNACK", "RESERVED1"}
        BY <2>5
      <3>2. client_body(p) = <<>>
        BY <3>1 DEF client_body
      <3> QED
        BY <3>1, <3>2, EmptyIsShort DEF FrameType, Short
    <2> QED
      BY <1>1, <2>1, <2>2, <2>3, <2>4, <2>5
  <1>3. flags_of(p) \in 0 .. 15
    BY <1>2 DEF flags_of
  <1> QED
    BY <1>2, <1>3 DEF client_encode, Frame

LEMMA DamagedFrame ==
    ASSUME NEW f \in Frame, NEW d \in Damaged(f)
    PROVE  d \in Frame
  <1>1. PICK x \in Bytes : x = f.body
    BY DEF Frame
  <1>2. \/ \E n \in 0 .. Len(x) : d = [f EXCEPT !.body = SubSeq(x, 1, n)]
        \/ \E b \in Byte : d = [f EXCEPT !.body = Append(x, b)]
        \/ \E i \in DOMAIN x, b \in Byte : d = [f EXCEPT !.body[i] = b]
        \/ \E n \in {0, 2} : d = [f EXCEPT !.flags = n]
    BY <1>1 DEF Damaged
  <1>3. \A y \in Bytes : [f EXCEPT !.body = y] \in Frame
    BY DEF Frame
  <1>4. CASE \E n \in 0 .. Len(x) : d = [f EXCEPT !.body = SubSeq(x, 1, n)]
    <2>1. PICK n \in 0 .. Len(x) : d = [f EXCEPT !.body = SubSeq(x, 1, n)]
      BY <1>4
    <2>2. SubSeq(x, 1, n) \in Bytes
      BY DEF Bytes
    <2> QED
      BY <1>3, <2>1, <2>2
  <1>5. CASE \E b \in Byte : d = [f EXCEPT !.body = Append(x, b)]
    <2>1. PICK b \in Octet : d = [f EXCEPT !.body = Append(x, b)]
      BY <1>5, Constants
    <2>2. Append(x, b) \in Bytes
      BY DEF Bytes
    <2> QED
      BY <1>3, <2>1, <2>2
  <1>6. CASE \E i \in DOMAIN x, b \in Byte : d = [f EXCEPT !.body[i] = b]
    <2>1. PICK i \in DOMAIN x, b \in Octet : d = [f EXCEPT !.body[i] = b]
      BY <1>6, Constants
    <2>2. [x EXCEPT ![i] = b] \in Bytes
      BY DEF Bytes
    <2>3. d = [f EXCEPT !.body = [x EXCEPT ![i] = b]]
      BY <1>1, <2>1
    <2> QED
      BY <1>3, <2>2, <2>3
  <1>7. CASE \E n \in {0, 2} : d = [f EXCEPT !.flags = n]
    BY <1>7 DEF Frame
  <1> QED
    BY <1>2, <1>4, <1>5, <1>6, <1>7

LEMMA InitInv == Init => FlowInv
  <1> SUFFICES ASSUME Init PROVE FlowInv
    OBVIOUS
  <1>1. /\ phase = "received" /\ packet = NoPacket /\ incoming = NoPacket
        /\ outgoing = NoPacket /\ sent = NoPacket
    BY DEF Init
  <1>2. frame \in Frame
    <2>1. PICK p \in ClientPacket : p = intended
      BY DEF Init
    <2>2. PICK f \in Frame : f = client_encode(p)
      BY <2>1, ClientFrame
    <2>3. frame \in Damaged(f)
      BY <2>1, <2>2 DEF Init
    <2> QED
      BY <2>3, DamagedFrame
  <1>3. TypeOK
    BY <1>1 DEF TypeOK
  <1>4. FrameInv
    BY <1>1, <1>2 DEF FrameInv, Accepted
  <1>5. ObjectInv
    BY <1>1 DEF ObjectInv
  <1>6. CopyInv
    BY <1>1 DEF CopyInv
  <1>7. SentInv
    BY <1>1 DEF SentInv, LengthMatches, ForwardedIntact, AnswersFit
  <1> QED
    BY <1>3, <1>4, <1>5, <1>6, <1>7 DEF FlowInv

\* TypeOK follows from the other parts and how far the server is.
Phases == {"received", "closed", "terminated", "failed_assert", "decoded", "connected",
           "dispatching", "retained", "answered"}

PacketTyped ==
    packet = NoPacket \/ packet.type \in {malformed_mqtt_packet.type, invalid_argument.type, frame.type}

LEMMA TypedWhen ==
    ASSUME phase' \in Phases, PacketTyped', ObjectInv', CopyInv', SentInv'
    PROVE  TypeOK'
  <1>1. (incoming = NoPacket \/ (incoming.type = "PUBLISH" /\ incoming.flags \in 0 .. 15))'
    BY DEF ObjectInv, Carries, PublishObject
  <1>2. (outgoing = NoPacket \/ (outgoing.packet.type = "PUBLISH" /\ outgoing.packet.flags \in 0 .. 15))'
    BY DEF CopyInv, Carries, PublishObject
  <1>3. (sent = NoPacket \/ (sent.frame.flags \in 0 .. 15 /\ sent.frame.body \in Seq(0 .. 255)))'
    BY DEF SentInv, Bytes, Octet
  <1> QED
    BY <1>1, <1>2, <1>3 DEF TypeOK, Phases, PacketTyped

\* What a PUBLISH carries depends on the packet decoded only.
LEMMA CarriesStays ==
    ASSUME packet' = packet
    PROVE  Published' = Published /\ \A p : Carries(p)' <=> Carries(p)
  BY DEF Published, Carries

LEMMA Read == ASSUME FlowInv, on_frame_read PROVE FlowInv'
  <1>1. phase = "received" /\ frame \in Frame /\ frame' = frame
        /\ incoming = NoPacket /\ outgoing = NoPacket /\ sent = NoPacket
        /\ incoming' = NoPacket /\ outgoing' = NoPacket /\ sent' = NoPacket
    BY DEF FlowInv, FrameInv, on_frame_read
  <1>2. PICK beyond \in Byte : packet' = decode(frame, beyond)
    BY DEF on_frame_read
  <1>3. beyond \in Octet
    BY Constants
  <1>4. \/ packet' = malformed_mqtt_packet
        \/ packet' = invalid_argument
        \/ packet'.type = frame.type /\ Decoded(packet')
    BY <1>1, <1>2, <1>3, DecodeIs
  <1>5. phase' = CASE packet' = malformed_mqtt_packet -> "closed"
                   [] packet' = invalid_argument -> "terminated"
                   [] OTHER -> "decoded"
    BY DEF on_frame_read
  <1>6. phase' \in {"closed", "terminated", "decoded"}
        /\ (phase' = "decoded" => packet' # malformed_mqtt_packet /\ packet' # invalid_argument)
    <2>1. malformed_mqtt_packet # invalid_argument
      BY DEF malformed_mqtt_packet, invalid_argument
    <2> QED
      BY <1>5, <2>1
  <1>7. PacketTyped'
    BY <1>1, <1>4 DEF PacketTyped
  <1>8. FrameInv'
    BY <1>1, <1>4, <1>6 DEF FrameInv, Accepted
  <1>9. ObjectInv' /\ CopyInv'
    BY <1>1, <1>6 DEF ObjectInv, CopyInv
  <1>10. SentInv'
    BY <1>1 DEF SentInv, LengthMatches, ForwardedIntact, AnswersFit
  <1>11. phase' \in Phases
    BY <1>6 DEF Phases
  <1>12. TypeOK'
    BY <1>7, <1>9, <1>10, <1>11, TypedWhen
  <1> QED
    BY <1>8, <1>9, <1>10, <1>12 DEF FlowInv

\* What a change of the PUBLISH object leaves as it was.
LEMMA LengthOf ==
    ASSUME NEW p \in PublishObject
    PROVE  /\ p.flags \in 0 .. 15 /\ Len(p.topic) \in Nat /\ Len(p.application_message) \in Nat
           /\ p.remaining_length = 2 + Len(p.topic) + (IF qos_of(p.flags, 1) = 0 THEN 0 ELSE 2)
                                     + Len(p.application_message)
  BY DEF PublishObject, Short, Bytes

LEMMA SetQos ==
    ASSUME NEW p \in PublishObject, qos_of(p.flags, 1) # 3, NEW qos \in 0 .. 2, NEW q, q = set_qos(p, qos)
    PROVE  /\ q \in PublishObject /\ qos_of(q.flags, 1) = qos /\ (retain_of(q.flags) <=> retain_of(p.flags))
           /\ q.topic = p.topic /\ q.application_message = p.application_message
  <1>1. PICK old : old = qos_of(p.flags, 1)
    OBVIOUS
  <1>2. PICK flags : flags = p.flags - 2 * old + 2 * qos
    OBVIOUS
  <1>3. PICK length : length = IF old = 0 /\ qos # 0 THEN p.remaining_length + 2
                               ELSE IF old # 0 /\ qos = 0 THEN p.remaining_length - 2
                               ELSE p.remaining_length
    OBVIOUS
  <1>4. q = [p EXCEPT !.flags = flags, !.remaining_length = length]
    BY <1>1, <1>2, <1>3 DEF set_qos
  <1>5. flags \in 0 .. 15 /\ qos_of(flags, 1) = qos /\ (retain_of(flags) <=> retain_of(p.flags))
    <2>1. p.flags \in 0 .. 15
      BY LengthOf
    <2> QED
      BY <1>1, <1>2, <2>1, QosSet
  <1>6. length \in Nat
        /\ length = 2 + Len(p.topic) + (IF qos = 0 THEN 0 ELSE 2) + Len(p.application_message)
    <2>1. PICK t \in Nat, m \in Nat : t = Len(p.topic) /\ m = Len(p.application_message)
      BY LengthOf
    <2>2. PICK before \in {0, 2}, after \in {0, 2} : /\ before = IF old = 0 THEN 0 ELSE 2
                                                   /\ after = IF qos = 0 THEN 0 ELSE 2
      OBVIOUS
    <2>3. PICK r \in Nat : r = p.remaining_length /\ r = 2 + t + before + m
      <3>1. p.remaining_length = 2 + Len(p.topic) + (IF qos_of(p.flags, 1) = 0 THEN 0 ELSE 2)
                                   + Len(p.application_message)
        BY LengthOf
      <3>2. (IF qos_of(p.flags, 1) = 0 THEN 0 ELSE 2) = before
        BY <1>1, <2>2
      <3>3. p.remaining_length = 2 + t + before + m
        BY <2>1, <3>1, <3>2
      <3>4. 2 + t + before + m \in Nat
        OBVIOUS
      <3> QED
        BY <3>3, <3>4
    <2>4. length = IF old = 0 /\ qos # 0 THEN r + 2 ELSE IF old # 0 /\ qos = 0 THEN r - 2 ELSE r
      BY <1>3, <2>3
    <2>5. length = r - before + after
      BY <2>2, <2>3, <2>4
    <2>6. length = 2 + t + after + m /\ length \in Nat
      BY <2>3, <2>5
    <2> QED
      BY <2>1, <2>2, <2>6
  <1>7. /\ q \in PublishObject /\ q.flags = flags
        /\ q.topic = p.topic /\ q.application_message = p.application_message
    <2>1. length = 2 + Len(p.topic) + (IF qos_of(flags, 1) = 0 THEN 0 ELSE 2) + Len(p.application_message)
      BY <1>5, <1>6
    <2> QED
      BY <1>4, <1>5, <1>6, <2>1 DEF PublishObject
  <1> QED
    BY <1>5, <1>7

\* RETAIN and DUP do not count for the length.
LEMMA SetFlags ==
    ASSUME NEW p \in PublishObject, NEW flags \in 0 .. 15, qos_of(flags, 1) = qos_of(p.flags, 1),
           NEW q, q = [p EXCEPT !.flags = flags]
    PROVE  /\ q \in PublishObject /\ q.flags = flags
           /\ q.topic = p.topic /\ q.application_message = p.application_message
  BY DEF PublishObject

LEMMA SetRetain ==
    ASSUME NEW p \in PublishObject, NEW wanted \in BOOLEAN, NEW q, q = set_retain(p, wanted)
    PROVE  /\ q \in PublishObject /\ (retain_of(q.flags) <=> wanted)
           /\ q.topic = p.topic /\ q.application_message = p.application_message
  <1>1. p.flags \in 0 .. 15
    BY LengthOf
  <1>2. PICK flags : flags = retain_into(wanted, p.flags)
    OBVIOUS
  <1>3. q = [p EXCEPT !.flags = flags]
    BY <1>2 DEF set_retain
  <1> QED
    BY <1>1, <1>2, <1>3, RetainSet, SetFlags

LEMMA SetDup ==
    ASSUME NEW p \in PublishObject, NEW dup \in BOOLEAN, NEW q, q = set_dup(p, dup)
    PROVE  /\ q \in PublishObject /\ qos_of(q.flags, 1) = qos_of(p.flags, 1)
           /\ (retain_of(q.flags) <=> retain_of(p.flags))
           /\ q.topic = p.topic /\ q.application_message = p.application_message
  <1>1. p.flags \in 0 .. 15
    BY LengthOf
  <1>2. PICK flags : flags = dup_into(dup, p.flags)
    OBVIOUS
  <1>3. q = [p EXCEPT !.flags = flags]
    BY <1>2 DEF set_dup
  <1> QED
    BY <1>1, <1>2, <1>3, DupSet, SetFlags

LEMMA WithIdentifier ==
    ASSUME NEW p \in PublishObject, NEW id \in Word, NEW q, q = with_new_packet_identifier(p, id)
    PROVE  /\ q \in PublishObject /\ q.flags = p.flags
           /\ q.topic = p.topic /\ q.application_message = p.application_message
  BY DEF PublishObject, with_new_packet_identifier

\* A last will's object.
Will(qos, name, message) == create(FALSE, qos, FALSE, name, 0, message)

LEMMA Created ==
    ASSUME NEW qos \in 0 .. 3, NEW t \in Short, NEW m \in Short, NEW p, p = Will(qos, t, m)
    PROVE  p \in PublishObject /\ ~retain_of(p.flags) /\ p.topic = t /\ p.application_message = m
  <1>1. PICK first \in 0 .. 15 : first = qos_into(qos, dup_into(FALSE, 0)) /\ qos_of(first, 1) = qos
    <2>1. dup_into(FALSE, 0) = 0 /\ qos_of(0, 1) = 0
      BY QosOf DEF dup_into
    <2>2. qos_into(qos, 0) \in 0 .. 15 /\ (qos_into(qos, 0) \div 2) % 4 = qos
      BY <2>1 DEF qos_into
    <2> QED
      BY <2>1, <2>2, QosOf
  <1>2. PICK flags \in 0 .. 15 : flags = retain_into(FALSE, first) /\ qos_of(flags, 1) = qos
                                  /\ ~retain_of(flags)
    BY <1>1, RetainSet
  <1>3. p = [type |-> "PUBLISH", flags |-> flags,
             remaining_length |-> (IF qos = 0 THEN 0 ELSE 2) + 2 + Len(t) + Len(m),
             topic |-> t, packet_identifier |-> 0, application_message |-> m]
    BY <1>1, <1>2 DEF create, Will
  <1>4. PICK length : length = (IF qos = 0 THEN 0 ELSE 2) + 2 + Len(t) + Len(m)
    OBVIOUS
  <1>5. length \in Nat /\ length = 2 + Len(t) + (IF qos_of(flags, 1) = 0 THEN 0 ELSE 2) + Len(m)
    <2>1. Len(t) \in Nat /\ Len(m) \in Nat
      BY DEF Short, Bytes
    <2>2. qos_of(flags, 1) = qos
      BY <1>2, Zenon
    <2> QED
      BY <1>4, <2>1, <2>2
  <1>6. 0 \in Word /\ m \in Bytes
    BY DEF Word, MAX_UINT16, Short
  <1>7. p.flags = flags /\ p.topic = t /\ p.application_message = m /\ p.remaining_length = length
    BY <1>3, <1>4
  <1>8. p \in [type : {"PUBLISH"}, flags : 0 .. 15, remaining_length : Nat, topic : Short,
              packet_identifier : Word, application_message : Bytes]
    BY <1>3, <1>4, <1>5, <1>6
  <1>9. p \in PublishObject
    BY <1>5, <1>7, <1>8 DEF PublishObject
  <1> QED
    BY <1>2, <1>7, <1>9

\* What a step leaves alone keeps its part of the invariant.
LEMMA ObjectStays ==
    ASSUME FlowInv, UNCHANGED <<packet, incoming>>,
           phase' = phase \/ phase' \notin {"dispatching", "retained"}
    PROVE  ObjectInv'
  <1>1. \A p : Carries(p)' <=> Carries(p)
    BY CarriesStays
  <1> QED
    BY <1>1 DEF FlowInv, ObjectInv, Carries, Published

LEMMA CopyStays ==
    ASSUME FlowInv, UNCHANGED <<packet, outgoing>>
    PROVE  CopyInv'
  BY DEF FlowInv, CopyInv, Carries, Published

LEMMA SentStays ==
    ASSUME FlowInv, UNCHANGED <<packet, sent>>
    PROVE  SentInv'
  BY NothingSent DEF FlowInv

LEMMA Goes ==
    ASSUME FlowInv, UNCHANGED <<frame, packet>>, phase' \in Phases, phase' # "received",
           phase' = "connected" => packet.type = "CONNECT", Accepted' => Accepted,
           ObjectInv', CopyInv', SentInv'
    PROVE  FlowInv'
  <1>1. PacketTyped'
    BY DEF FlowInv, TypeOK, PacketTyped
  <1>2. TypeOK'
    BY <1>1, TypedWhen
  <1>3. FrameInv'
    <2>1. frame' \in Frame
      BY DEF FlowInv, FrameInv
    <2>2. Accepted' => Decoded(packet')
      BY DEF FlowInv, FrameInv
    <2> QED
      BY <2>1, <2>2 DEF FrameInv
  <1> QED
    BY <1>2, <1>3 DEF FlowInv

LEMMA AuthenticationFailed == ASSUME FlowInv, authentication_failed PROVE FlowInv'
  <1>1. /\ phase' = "closed" /\ answer(connack(BAD_USERNAME_OR_PASSWORD))
        /\ UNCHANGED <<frame, packet, incoming, outgoing>>
    BY DEF authentication_failed
  <1>2. ObjectInv' /\ CopyInv'
    BY <1>1, ObjectStays, CopyStays
  <1>3. SentInv'
    BY <1>1, SentConnack
  <1>4. phase' \in Phases /\ phase' # "received" /\ phase' # "connected" /\ ~Accepted'
    BY <1>1 DEF Phases, Accepted
  <1> QED
    BY <1>1, <1>2, <1>3, <1>4, Goes

LEMMA Connects == ASSUME FlowInv, process_connect_packet PROVE FlowInv'
  <1>1. /\ phase = "decoded" /\ packet.type = "CONNECT"
        /\ \/ phase' = "failed_assert" /\ UNCHANGED sent
           \/ phase' = "connected" /\ answer(connack(CONNECTION_ACCEPTED))
        /\ UNCHANGED <<frame, packet, incoming, outgoing>>
    BY DEF process_connect_packet, received
  <1>2. ObjectInv' /\ CopyInv'
    BY <1>1, ObjectStays, CopyStays
  <1>3. SentInv'
    BY <1>1, SentConnack, SentStays
  <1>4. phase' \in Phases /\ phase' # "received" /\ Accepted
    BY <1>1 DEF Phases, Accepted
  <1> QED
    BY <1>1, <1>2, <1>3, <1>4, Goes

LEMMA Disconnects == ASSUME FlowInv, client_disconnected_ungracefully PROVE FlowInv'
  <1>1. /\ phase = "connected" /\ phase' = "dispatching"
        /\ incoming' = create(FALSE, last_will_qos(packet.connect_flags), FALSE, packet.will_topic, 0,
                              packet.will_message)
        /\ UNCHANGED <<frame, packet, outgoing, sent>>
    BY DEF client_disconnected_ungracefully
  <1>2. packet.type = "CONNECT" /\ Decoded(packet)
    BY <1>1 DEF FlowInv, FrameInv, Accepted
  <1>3. PICK t \in Short, m \in Short, flags \in Octet :
            t = packet.will_topic /\ m = packet.will_message /\ flags = packet.connect_flags
    BY <1>2 DEF Decoded
  <1>4. PICK qos \in 0 .. 3 : qos = last_will_qos(packet.connect_flags)
    BY <1>3, QosOf DEF last_will_qos
  <1>5. PICK p : p = Will(qos, t, m)
    OBVIOUS
  <1>6. p \in PublishObject /\ ~retain_of(p.flags) /\ p.topic = t /\ p.application_message = m
    BY <1>5, Created
  <1>7. incoming' = p
    BY <1>1, <1>3, <1>4, <1>5, Zenon DEF Will
  <1>8. Published'.topic = t /\ Published'.message = m
    BY <1>1, <1>2, <1>3 DEF Published
  <1>9. phase' = "dispatching" /\ packet' = packet
    BY <1>1
  <1>10. ObjectInv'
    BY <1>6, <1>7, <1>8, <1>9 DEF ObjectInv, Carries
  <1>11. CopyInv'
    BY <1>1, CopyStays
  <1>12. SentInv'
    BY <1>1, SentStays
  <1>13. phase' \in Phases /\ phase' # "received" /\ phase' # "connected" /\ Accepted
    BY <1>1 DEF Phases, Accepted
  <1>14. UNCHANGED <<frame, packet>>
    BY <1>1
  <1> QED
    BY <1>10, <1>11, <1>12, <1>13, <1>14, Goes

LEMMA Publishes == ASSUME FlowInv, client_published PROVE FlowInv'
  <1>1. /\ phase = "decoded" /\ packet.type = "PUBLISH" /\ phase' = "dispatching"
        /\ incoming' = set_retain(packet, FALSE)
        /\ UNCHANGED <<frame, packet, outgoing>>
    BY DEF client_published, received
  <1>2. packet \in PublishObject /\ qos_of(packet.flags, 1) # 3
    BY <1>1 DEF FlowInv, FrameInv, Accepted, Decoded
  <1>3. PICK old \in PublishObject : old = packet
    BY <1>2
  <1>4. PICK p : p = set_retain(old, FALSE)
    OBVIOUS
  <1>5. /\ p \in PublishObject /\ ~retain_of(p.flags)
        /\ p.topic = old.topic /\ p.application_message = old.application_message
    BY <1>4, SetRetain, Zenon
  <1>6. incoming' = p
    BY <1>1, <1>3, <1>4, Zenon
  <1>7. phase' = "dispatching" /\ packet' = packet /\ packet.type = "PUBLISH"
    BY <1>1
  <1>8. ObjectInv'
    <2>1. Published'.topic = old.topic /\ Published'.message = old.application_message
      BY <1>3, <1>7 DEF Published
    <2> QED
      BY <1>5, <1>6, <1>7, <2>1 DEF ObjectInv, Carries
  <1>9. CopyInv'
    BY <1>1, CopyStays
  <1>10. SentInv'
    <2>1. old.flags \in 0 .. 15 /\ old.packet_identifier \in Word
      BY DEF PublishObject
    <2>2. PICK qos \in 0 .. 3 : qos = qos_of(packet.flags, 1)
      BY <1>3, <2>1, QosOfFlags
    <2>6. (CASE qos = 0 -> UNCHANGED sent
             [] qos = 1 -> answer(ack("PUBACK", 0, packet.packet_identifier))
             [] qos = 2 -> answer(ack("PUBREC", 0, packet.packet_identifier)))
      BY <2>2, Zenon DEF client_published
    <2>3. CASE qos = 0
      <3>1. UNCHANGED sent
        BY <2>3, <2>6
      <3> QED
        BY <1>7, <3>1, SentStays
    <2>4. CASE qos = 1
      <3>1. answer(ack("PUBACK", 0, packet.packet_identifier))
        BY <2>4, <2>6
      <3> QED
        BY <1>3, <1>7, <2>1, <3>1, SentAck
    <2>5. CASE qos = 2
      <3>1. answer(ack("PUBREC", 0, packet.packet_identifier))
        BY <2>5, <2>6
      <3> QED
        BY <1>3, <1>7, <2>1, <3>1, SentAck
    <2> QED
      BY <1>2, <2>2, <2>3, <2>4, <2>5
  <1>11. phase' \in Phases /\ phase' # "received" /\ phase' # "connected" /\ Accepted
    BY <1>1 DEF Phases, Accepted
  <1>12. UNCHANGED <<frame, packet>>
    BY <1>1
  <1> QED
    BY <1>8, <1>9, <1>10, <1>11, <1>12, Goes

LEMMA Retains == ASSUME FlowInv, retain PROVE FlowInv'
  <1>1. /\ phase = "dispatching" /\ phase' = "retained"
        /\ incoming' = set_retain(incoming, TRUE)
        /\ UNCHANGED <<frame, packet, outgoing, sent>>
    BY DEF retain
  <1>2. Carries(incoming)
    BY <1>1 DEF FlowInv, ObjectInv
  <1>3. PICK old \in PublishObject : old = incoming
    BY <1>2 DEF Carries
  <1>4. PICK p : p = set_retain(old, TRUE)
    OBVIOUS
  <1>5. /\ p \in PublishObject /\ retain_of(p.flags)
        /\ p.topic = old.topic /\ p.application_message = old.application_message
    BY <1>4, SetRetain, Zenon
  <1>6. incoming' = p
    BY <1>1, <1>3, <1>4, Zenon
  <1>7. phase' = "retained" /\ packet' = packet
    BY <1>1
  <1>8. ObjectInv'
    <2>1. Published' = Published
      BY <1>7, CarriesStays
    <2>2. old.topic = Published.topic /\ old.application_message = Published.message
      BY <1>2, <1>3 DEF Carries
    <2> QED
      BY <1>5, <1>6, <1>7, <2>1, <2>2 DEF ObjectInv, Carries
  <1>9. CopyInv'
    BY <1>1, CopyStays
  <1>10. SentInv'
    BY <1>1, SentStays
  <1>11. phase' \in Phases /\ phase' # "received" /\ phase' # "connected" /\ Accepted
    BY <1>1 DEF Phases, Accepted
  <1>12. UNCHANGED <<frame, packet>>
    BY <1>1
  <1> QED
    BY <1>8, <1>9, <1>10, <1>11, <1>12, Goes

LEMMA Asserts == ASSUME FlowInv, qos_asserts PROVE FlowInv'
  <1>1. phase' = "failed_assert" /\ UNCHANGED <<frame, packet, incoming, outgoing, sent>>
    BY DEF qos_asserts
  <1>2. ObjectInv' /\ CopyInv' /\ SentInv'
    BY <1>1, ObjectStays, CopyStays, SentStays
  <1>3. phase' \in Phases /\ phase' # "received" /\ phase' # "connected" /\ ~Accepted'
    BY <1>1 DEF Phases, Accepted
  <1> QED
    BY <1>1, <1>2, <1>3, Goes

\* What a session publishes while the object is dispatched or retained.
LEMMA Publishing ==
    ASSUME FlowInv, publishing
    PROVE  /\ Carries(incoming) /\ Accepted
           /\ phase \in Phases /\ phase # "received" /\ phase # "connected"
           /\ retain_of(incoming.flags) <=> (phase = "retained")
  BY DEF FlowInv, ObjectInv, publishing, Accepted, Phases

LEMMA PublishesQos0 == ASSUME FlowInv, publish_using_qos0 PROVE FlowInv'
  <1>1. /\ publishing /\ qos_of(incoming.flags, 1) # 3
        /\ incoming' = set_qos(incoming, 0)
        /\ send(incoming', 0, phase = "retained")
        /\ UNCHANGED <<frame, phase, packet, outgoing>>
    BY DEF publish_using_qos0
  <1>2. /\ Carries(incoming) /\ Accepted
        /\ phase \in Phases /\ phase # "received" /\ phase # "connected"
        /\ retain_of(incoming.flags) <=> (phase = "retained")
    BY <1>1, Publishing
  <1>3. PICK old \in PublishObject : old = incoming
    BY <1>2 DEF Carries
  <1>4. PICK p : p = set_qos(old, 0)
    OBVIOUS
  <1>5. /\ p \in PublishObject /\ qos_of(p.flags, 1) = 0 /\ (retain_of(p.flags) <=> retain_of(old.flags))
        /\ p.topic = old.topic /\ p.application_message = old.application_message
    <2>1. qos_of(old.flags, 1) # 3 /\ 0 \in 0 .. 2
      BY <1>1, <1>3
    <2> QED
      BY <1>4, <2>1, SetQos
  <1>6. incoming' = p
    BY <1>1, <1>3, <1>4, Zenon
  <1>7. Carries(p)
    BY <1>2, <1>3, <1>5 DEF Carries
  <1>8. UNCHANGED <<phase, packet>>
    BY <1>1
  <1>9. ObjectInv'
    <2>1. Carries(p)'
      BY <1>7, <1>8, CarriesStays
    <2>2. Carries(incoming)'
      BY <1>6, <2>1 DEF Carries
    <2>3. retain_of(incoming'.flags) <=> (phase' = "retained")
      BY <1>2, <1>3, <1>5, <1>6, <1>8
    <2> QED
      BY <2>2, <2>3 DEF ObjectInv
  <1>10. CopyInv'
    BY <1>1, CopyStays
  <1>11. SentInv'
    <2>1. PICK stored : stored = (phase = "retained")
      OBVIOUS
    <2>2. send(p, 0, stored)
      BY <1>1, <1>6, <2>1, Zenon DEF send
    <2>3. retain_of(p.flags) <=> stored
      BY <1>2, <1>3, <1>5, <2>1, Zenon
    <2>4. 0 \in 0 .. 2 /\ qos_of(p.flags, 1) = 0
      BY <1>5
    <2> QED
      BY <1>7, <1>8, <2>2, <2>3, <2>4, SentPublish
  <1>12. Accepted' => Accepted
    BY <1>2
  <1>13. UNCHANGED <<frame, packet>>
    BY <1>1
  <1> QED
    BY <1>2, <1>8, <1>9, <1>10, <1>11, <1>12, <1>13, Goes

LEMMA PublishesTracked == ASSUME FlowInv, NEW qos \in {1, 2}, publish_tracked(qos) PROVE FlowInv'
  <1>1. /\ publishing /\ qos_of(incoming.flags, 1) # 3
        /\ send(outgoing'.packet, qos, phase = "retained")
        /\ UNCHANGED <<frame, phase, packet, incoming>>
    BY DEF publish_tracked
  <1>2. PICK id \in Identifier :
            outgoing' = [packet |-> set_qos(with_new_packet_identifier(incoming, id), qos),
                         qos |-> qos, stored |-> phase = "retained"]
    BY DEF publish_tracked
  <1>3. /\ Carries(incoming) /\ Accepted
        /\ phase \in Phases /\ phase # "received" /\ phase # "connected"
        /\ retain_of(incoming.flags) <=> (phase = "retained")
    BY <1>1, Publishing
  <1>4. PICK old \in PublishObject : old = incoming
    BY <1>3 DEF Carries
  <1>5. id \in Word
    BY Constants
  <1>6. PICK copy : copy = with_new_packet_identifier(old, id)
    OBVIOUS
  <1>7. /\ copy \in PublishObject /\ copy.flags = old.flags
        /\ copy.topic = old.topic /\ copy.application_message = old.application_message
    BY <1>5, <1>6, WithIdentifier
  <1>8. PICK p : p = set_qos(copy, qos)
    OBVIOUS
  <1>9. /\ p \in PublishObject /\ qos_of(p.flags, 1) = qos /\ (retain_of(p.flags) <=> retain_of(copy.flags))
        /\ p.topic = copy.topic /\ p.application_message = copy.application_message
    <2>1. qos_of(copy.flags, 1) # 3 /\ qos \in 0 .. 2
      BY <1>1, <1>4, <1>7
    <2> QED
      BY <1>7, <1>8, <2>1, SetQos
  <1>10. PICK stored : stored = (phase = "retained")
    OBVIOUS
  <1>11. outgoing' = [packet |-> p, qos |-> qos, stored |-> stored]
    BY <1>2, <1>4, <1>6, <1>8, <1>10, Zenon
  <1>12. retain_of(p.flags) <=> stored
    <2>1. retain_of(p.flags) <=> retain_of(incoming.flags)
      BY <1>4, <1>7, <1>9
    <2> QED
      BY <1>3, <1>10, <2>1, Zenon
  <1>13. Carries(p)
    BY <1>3, <1>4, <1>7, <1>9 DEF Carries
  <1>14. UNCHANGED <<phase, packet>>
    BY <1>1
  <1>15. CopyInv'
    <2>1. Carries(p)'
      BY <1>13, <1>14, CarriesStays
    <2>2. outgoing'.packet = p /\ outgoing'.qos = qos /\ outgoing'.stored = stored
      BY <1>11
    <2>3. Carries(outgoing.packet)'
      BY <2>1, <2>2 DEF Carries
    <2>4. outgoing' = [packet |-> outgoing'.packet, qos |-> outgoing'.qos, stored |-> outgoing'.stored]
      BY <1>11, <2>2
    <2> QED
      BY <1>9, <1>12, <2>2, <2>3, <2>4 DEF CopyInv
  <1>16. ObjectInv'
    BY <1>1, <1>14, ObjectStays
  <1>17. SentInv'
    <2>1. outgoing'.packet = p
      BY <1>11
    <2>2. send(p, qos, stored)
      BY <1>1, <1>10, <2>1, Zenon DEF send
    <2>3. qos \in 0 .. 2 /\ qos_of(p.flags, 1) = qos
      BY <1>9
    <2> QED
      BY <1>12, <1>13, <1>14, <2>2, <2>3, SentPublish
  <1>18. UNCHANGED <<frame, packet>>
    BY <1>1
  <1> QED
    BY <1>3, <1>14, <1>15, <1>16, <1>17, <1>18, Goes

LEMMA SendsAgain == ASSUME FlowInv, ack_timeout_expired PROVE FlowInv'
  <1>1. /\ outgoing # NoPacket
        /\ outgoing' = [outgoing EXCEPT !.packet = IF outgoing.qos = 2 THEN set_dup(@, TRUE) ELSE @]
        /\ send(outgoing'.packet, outgoing.qos, outgoing.stored)
        /\ UNCHANGED <<frame, phase, packet, incoming>>
    BY DEF ack_timeout_expired
  <1>2. /\ outgoing = [packet |-> outgoing.packet, qos |-> outgoing.qos, stored |-> outgoing.stored]
        /\ Carries(outgoing.packet) /\ outgoing.qos \in {1, 2}
        /\ qos_of(outgoing.packet.flags, 1) = outgoing.qos
        /\ retain_of(outgoing.packet.flags) <=> outgoing.stored
    BY <1>1 DEF FlowInv, CopyInv
  <1>3. PICK old : old = outgoing.packet
    OBVIOUS
  <1>4. PICK qos \in {1, 2} : qos = outgoing.qos
    BY <1>2
  <1>5. PICK stored : stored = outgoing.stored
    OBVIOUS
  <1>6. /\ outgoing = [packet |-> old, qos |-> qos, stored |-> stored]
        /\ Carries(old) /\ qos_of(old.flags, 1) = qos /\ (retain_of(old.flags) <=> stored)
    BY <1>2, <1>3, <1>4, <1>5, Zenon
  <1>7. old \in PublishObject
    BY <1>6 DEF Carries
  <1>8. PICK p : p = IF qos = 2 THEN set_dup(old, TRUE) ELSE old
    OBVIOUS
  <1>9. /\ p \in PublishObject /\ qos_of(p.flags, 1) = qos_of(old.flags, 1)
        /\ (retain_of(p.flags) <=> retain_of(old.flags))
        /\ p.topic = old.topic /\ p.application_message = old.application_message
    BY <1>7, <1>8, SetDup, Zenon
  <1>10. outgoing' = [packet |-> p, qos |-> qos, stored |-> stored]
        /\ outgoing.qos = qos /\ outgoing.stored = stored
    BY <1>1, <1>6, <1>8
  <1>11. Carries(p)
    BY <1>6, <1>9 DEF Carries
  <1>12. UNCHANGED <<phase, packet>>
    BY <1>1
  <1>13. CopyInv'
    <2>1. Carries(p)'
      BY <1>11, <1>12, CarriesStays
    <2>2. outgoing'.packet = p /\ outgoing'.qos = qos /\ outgoing'.stored = stored
      BY <1>10
    <2>3. Carries(outgoing.packet)'
      BY <2>1, <2>2 DEF Carries
    <2>4. outgoing' = [packet |-> outgoing'.packet, qos |-> outgoing'.qos, stored |-> outgoing'.stored]
      BY <1>10, <2>2
    <2> QED
      BY <1>6, <1>9, <2>2, <2>3, <2>4 DEF CopyInv
  <1>14. ObjectInv'
    BY <1>1, <1>12, ObjectStays
  <1>15. SentInv'
    <2>1. outgoing'.packet = p
      BY <1>10
    <2>2. send(p, qos, stored)
      BY <1>1, <1>10, <2>1, Zenon DEF send
    <2>3. qos \in 0 .. 2 /\ qos_of(p.flags, 1) = qos /\ (retain_of(p.flags) <=> stored)
      BY <1>6, <1>9
    <2> QED
      BY <1>11, <1>12, <2>2, <2>3, SentPublish
  <1>16. phase \in Phases /\ phase # "received"
    BY <1>1 DEF FlowInv, TypeOK, FrameInv, Phases
  <1>17. (phase = "connected" => packet.type = "CONNECT") /\ (Accepted' => Accepted)
    BY <1>12 DEF FlowInv, FrameInv, Accepted
  <1>18. UNCHANGED <<frame, packet>>
    BY <1>1
  <1> QED
    BY <1>12, <1>13, <1>14, <1>15, <1>16, <1>17, <1>18, Goes

LEMMA Answers ==
    ASSUME FlowInv, NEW type \in {"SUBSCRIBE", "UNSUBSCRIBE", "PUBREC", "PUBREL", "PINGREQ"}, NEW p,
           answers(type, p),
           (Decoded(packet) /\ packet.type = type /\ packet' = packet /\ answer(p)) => SentInv'
    PROVE  FlowInv'
  <1>1. /\ phase = "decoded" /\ packet.type = type /\ answer(p) /\ phase' = "answered"
        /\ UNCHANGED <<frame, packet, incoming, outgoing>>
    BY DEF answers, received
  <1>2. Decoded(packet)
    BY <1>1 DEF FlowInv, FrameInv, Accepted
  <1>3. SentInv'
    BY <1>1, <1>2
  <1>4. ObjectInv' /\ CopyInv'
    BY <1>1, ObjectStays, CopyStays
  <1>5. phase' \in Phases /\ phase' # "received" /\ phase' # "connected" /\ Accepted
    BY <1>1 DEF Phases, Accepted
  <1> QED
    BY <1>1, <1>3, <1>4, <1>5, Goes

LEMMA Answered ==
    ASSUME FlowInv,
           \/ client_subscribed \/ client_unsubscribed \/ client_received_publish
           \/ client_released_publish \/ process_pingreq
    PROVE  FlowInv'
  <1>1. CASE client_subscribed
    <2>1. answers("SUBSCRIBE", succeed(packet))
      BY <1>1 DEF client_subscribed
    <2>2. (Decoded(packet) /\ packet.type = "SUBSCRIBE" /\ packet' = packet /\ answer(succeed(packet)))
              => SentInv'
      BY SentSuback DEF Decoded
    <2> QED
      BY <2>1, <2>2, Answers
  <1>2. CASE client_unsubscribed
    <2>1. answers("UNSUBSCRIBE", ack("UNSUBACK", 0, packet.packet_identifier))
      BY <1>2 DEF client_unsubscribed
    <2>2. (/\ Decoded(packet) /\ packet.type = "UNSUBSCRIBE" /\ packet' = packet
           /\ answer(ack("UNSUBACK", 0, packet.packet_identifier))) => SentInv'
      BY SentAck DEF Decoded
    <2> QED
      BY <2>1, <2>2, Answers
  <1>3. CASE client_received_publish
    <2>1. answers("PUBREC", ack("PUBREL", 2, packet.packet_identifier))
      BY <1>3 DEF client_received_publish
    <2>2. (/\ Decoded(packet) /\ packet.type = "PUBREC" /\ packet' = packet
           /\ answer(ack("PUBREL", 2, packet.packet_identifier))) => SentInv'
      BY SentAck DEF Decoded
    <2> QED
      BY <2>1, <2>2, Answers
  <1>4. CASE client_released_publish
    <2>1. answers("PUBREL", ack("PUBCOMP", 0, packet.packet_identifier))
      BY <1>4 DEF client_released_publish
    <2>2. (/\ Decoded(packet) /\ packet.type = "PUBREL" /\ packet' = packet
           /\ answer(ack("PUBCOMP", 0, packet.packet_identifier))) => SentInv'
      BY SentAck DEF Decoded
    <2> QED
      BY <2>1, <2>2, Answers
  <1>5. CASE process_pingreq
    <2>1. answers("PINGREQ", pingresp)
      BY <1>5 DEF process_pingreq
    <2>2. (Decoded(packet) /\ packet.type = "PINGREQ" /\ packet' = packet /\ answer(pingresp)) => SentInv'
      <3>1. CONNECTION_ACCEPTED \in {CONNECTION_ACCEPTED, BAD_USERNAME_OR_PASSWORD}
        OBVIOUS
      <3> QED
        BY <3>1, SentConnack
    <2> QED
      BY <2>1, <2>2, Answers
  <1> QED
    BY <1>1, <1>2, <1>3, <1>4, <1>5

LEMMA FlowStep == ASSUME FlowInv, [Next]_vars PROVE FlowInv'
  <1>1. CASE UNCHANGED vars
    <2>1. UNCHANGED <<frame, phase, packet, incoming, outgoing, sent>>
      BY <1>1 DEF vars
    <2> QED
      BY <2>1 DEF FlowInv, TypeOK, FrameInv, ObjectInv, CopyInv, SentInv, LengthMatches, ForwardedIntact,
                  AnswersFit, Carries, Published, Accepted
  <1>2. CASE Next
    BY <1>2, Read, AuthenticationFailed, Connects, Disconnects, Publishes, Retains, Asserts,
       PublishesQos0, PublishesTracked, SendsAgain, Answered
    DEF Next
  <1> QED
    BY <1>1, <1>2

-----------------------------------------------------------------------------
(* Pieces.  Decoding and encoding are inverse to each other because a body   *)
(* falls into the same pieces either way.                                    *)

\* The bytes of x from one position to before another one are t.
Piece(x, at, next, t) == at >= 1 /\ next = at + Len(t) /\ Holds(x, at - 1, t)

LEMMA ConcatBytes ==
    ASSUME NEW s \in Bytes, NEW t \in Bytes, NEW u, u = s \o t
    PROVE  /\ Len(u) = Len(s) + Len(t)
           /\ \A i \in 1 .. Len(s) : u[i] = s[i]
           /\ \A i \in 1 .. Len(t) : u[Len(s) + i] = t[i]
  <1>1. PICK m \in Nat, n \in Nat : m = Len(s) /\ n = Len(t)
    BY DEF Bytes
  <1>2. s \in Seq(Octet) /\ t \in Seq(Octet)
    BY DEF Bytes
  <1>3. Len(u) = m + n /\ \A i \in 1 .. m + n : u[i] = IF i <= m THEN s[i] ELSE t[i - m]
    BY <1>1, <1>2, ConcatProperties
  <1>4. ASSUME NEW i \in 1 .. m PROVE u[i] = s[i]
    BY <1>3
  <1>5. ASSUME NEW i \in 1 .. n PROVE u[m + i] = t[i]
    <2>1. m + i \in 1 .. m + n /\ ~(m + i <= m) /\ m + i - m = i
      OBVIOUS
    <2> QED
      BY <1>3, <2>1
  <1> QED
    BY <1>1, <1>3, <1>4, <1>5

\* In numbers: t is as long as the piece, and each of its bytes is in x.
LEMMA PieceIs ==
    ASSUME NEW x \in Bytes, NEW t \in Bytes, NEW at \in Nat, NEW next \in Nat
    PROVE  Piece(x, at, next, t) <=>
               /\ at >= 1 /\ next = at + Len(t) /\ next <= Len(x) + 1
               /\ \A i \in at .. next - 1 : x[i] = t[i + 1 - at]
  <1>1. PICK m \in Nat, n \in Nat : m = Len(x) /\ n = Len(t)
    BY DEF Bytes
  <1>2. ASSUME at >= 1, next = at + n
        PROVE  Holds(x, at - 1, t) <=>
                   next <= m + 1 /\ \A i \in at .. next - 1 : x[i] = t[i + 1 - at]
    <2>1. Holds(x, at - 1, t) <=> at - 1 + n <= m /\ \A i \in 1 .. n : x[at - 1 + i] = t[i]
      BY <1>1 DEF Holds
    <2>2. at - 1 + n <= m <=> next <= m + 1
      BY <1>2
    <2>3. ASSUME \A i \in 1 .. n : x[at - 1 + i] = t[i], NEW i \in at .. next - 1
          PROVE  x[i] = t[i + 1 - at]
      <3>1. i + 1 - at \in 1 .. n /\ at - 1 + (i + 1 - at) = i
        BY <1>2
      <3> QED
        BY <2>3, <3>1
    <2>4. ASSUME \A i \in at .. next - 1 : x[i] = t[i + 1 - at], NEW i \in 1 .. n
          PROVE  x[at - 1 + i] = t[i]
      <3>1. at - 1 + i \in at .. next - 1 /\ (at - 1 + i) + 1 - at = i
        BY <1>2
      <3> QED
        BY <2>4, <3>1
    <2> QED
      BY <2>1, <2>2, <2>3, <2>4
  <1> QED
    BY <1>1, <1>2 DEF Piece

\* A piece and the next one.
LEMMA PieceJoined ==
    ASSUME NEW x \in Bytes, NEW s \in Bytes, NEW t \in Bytes, NEW a \in Nat, NEW b \in Nat, NEW c \in Nat,
           Piece(x, a, b, s), Piece(x, b, c, t)
    PROVE  Piece(x, a, c, s \o t) /\ s \o t \in Bytes
  <1>1. PICK m \in Nat, n \in Nat, u \in Bytes : m = Len(s) /\ n = Len(t) /\ u = s \o t
    <2>1. s \o t \in Bytes
      BY Joined
    <2>2. Len(s) \in Nat /\ Len(t) \in Nat
      BY DEF Bytes
    <2> QED
      BY <2>1, <2>2
  <1>2. Len(u) = m + n
    BY <1>1, ConcatHolds
  <1>3. /\ a >= 1 /\ b = a + m /\ c = b + n /\ c <= Len(x) + 1
        /\ \A i \in a .. b - 1 : x[i] = s[i + 1 - a]
        /\ \A i \in b .. c - 1 : x[i] = t[i + 1 - b]
    BY <1>1, PieceIs
  <1>4. \A i \in 1 .. m : u[i] = s[i]
    BY <1>1, ConcatBytes
  <1>5. \A i \in 1 .. n : u[m + i] = t[i]
    BY <1>1, ConcatBytes
  <1>6. ASSUME NEW i \in a .. c - 1 PROVE x[i] = u[i + 1 - a]
    <2>1. CASE i < b
      <3>1. i \in a .. b - 1 /\ i + 1 - a \in 1 .. m
        BY <1>3, <2>1
      <3> QED
        BY <1>3, <1>4, <3>1
    <2>2. CASE i >= b
      <3>1. i \in b .. c - 1 /\ i + 1 - b \in 1 .. n /\ m + (i + 1 - b) = i + 1 - a
        BY <1>3, <2>2
      <3>2. u[m + (i + 1 - b)] = t[i + 1 - b]
        BY <1>5, <3>1
      <3> QED
        BY <1>3, <3>1, <3>2
    <2> QED
      BY <2>1, <2>2
  <1>7. c = a + Len(u)
    BY <1>2, <1>3
  <1> QED
    BY <1>1, <1>3, <1>6, <1>7, PieceIs

LEMMA PieceSplit ==
    ASSUME NEW x \in Bytes, NEW s \in Bytes, NEW t \in Bytes, NEW a \in Nat, NEW c \in Nat,
           Piece(x, a, c, s \o t)
    PROVE  \E b \in Nat : Piece(x, a, b, s) /\ Piece(x, b, c, t)
  <1>1. PICK m \in Nat, n \in Nat, u \in Bytes : m = Len(s) /\ n = Len(t) /\ u = s \o t
    <2>1. s \o t \in Bytes
      BY Joined
    <2>2. Len(s) \in Nat /\ Len(t) \in Nat
      BY DEF Bytes
    <2> QED
      BY <2>1, <2>2
  <1>2. Len(u) = m + n
    BY <1>1, ConcatHolds
  <1>3. /\ a >= 1 /\ c = a + (m + n) /\ c <= Len(x) + 1
        /\ \A i \in a .. c - 1 : x[i] = u[i + 1 - a]
    <2>1. Piece(x, a, c, u)
      BY <1>1
    <2> QED
      BY <1>2, <2>1, PieceIs
  <1>4. \A i \in 1 .. m : u[i] = s[i]
    BY <1>1, ConcatBytes
  <1>5. \A i \in 1 .. n : u[m + i] = t[i]
    BY <1>1, ConcatBytes
  <1>6. PICK b \in Nat : b = a + m
    OBVIOUS
  <1>7. ASSUME NEW i \in a .. b - 1 PROVE x[i] = s[i + 1 - a]
    <2>1. i \in a .. c - 1 /\ i + 1 - a \in 1 .. m
      BY <1>3, <1>6
    <2> QED
      BY <1>3, <1>4, <2>1
  <1>8. ASSUME NEW i \in b .. c - 1 PROVE x[i] = t[i + 1 - b]
    <2>1. i \in a .. c - 1 /\ i + 1 - b \in 1 .. n /\ m + (i + 1 - b) = i + 1 - a
      BY <1>3, <1>6
    <2>2. u[m + (i + 1 - b)] = t[i + 1 - b]
      BY <1>5, <2>1
    <2> QED
      BY <1>3, <2>1, <2>2
  <1>9. b = a + Len(s) /\ b <= Len(x) + 1
    <2>1. Len(x) \in Nat
      BY DEF Bytes
    <2> QED
      BY <1>1, <1>3, <1>6, <2>1
  <1>10. b >= 1 /\ c = b + Len(t)
    BY <1>1, <1>3, <1>6
  <1>11. Piece(x, a, b, s)
    BY <1>3, <1>7, <1>9, PieceIs
  <1>12. Piece(x, b, c, t)
    BY <1>3, <1>8, <1>10, PieceIs
  <1> QED
    BY <1>11, <1>12

\* The whole is a piece of itself, and the only one from begin to end.
LEMMA PieceWhole ==
    ASSUME NEW x \in Bytes, NEW t \in Bytes, NEW next \in Nat, next = Len(x) + 1
    PROVE  Piece(x, 1, next, t) <=> t = x
  <1>1. PICK m \in Nat, n \in Nat : m = Len(x) /\ n = Len(t)
    BY DEF Bytes
  <1>2. Piece(x, 1, next, t) <=> next = 1 + n /\ \A i \in 1 .. next - 1 : x[i] = t[i + 1 - 1]
    <2>1. PICK one \in Nat : one = 1
      OBVIOUS
    <2>2. Piece(x, one, next, t) <=>
              /\ one >= 1 /\ next = one + Len(t) /\ next <= Len(x) + 1
              /\ \A i \in one .. next - 1 : x[i] = t[i + 1 - one]
      BY PieceIs
    <2> QED
      BY <1>1, <2>1, <2>2
  <1>3. ASSUME t = x PROVE Piece(x, 1, next, t)
    <2>1. \A i \in 1 .. next - 1 : i + 1 - 1 = i
      OBVIOUS
    <2> QED
      BY <1>1, <1>2, <1>3, <2>1
  <1>4. ASSUME Piece(x, 1, next, t) PROVE t = x
    <2>1. m = n /\ \A i \in 1 .. m : x[i] = t[i]
      <3>1. next = m + 1 /\ next = 1 + n /\ \A i \in 1 .. next - 1 : x[i] = t[i + 1 - 1]
        BY <1>1, <1>2, <1>4
      <3>2. next - 1 = m /\ \A i \in 1 .. m : i + 1 - 1 = i
        BY <3>1
      <3> QED
        BY <3>1, <3>2
    <2>2. x \in Seq(Octet) /\ t \in Seq(Octet)
      BY DEF Bytes
    <2>3. Len(x) = m /\ Len(t) = m
      BY <1>1, <2>1
    <2> QED
      BY <2>1, <2>2, <2>3, SeqEqual
  <1> QED
    BY <1>3, <1>4

LEMMA ByteIs ==
    ASSUME NEW b \in Octet
    PROVE  <<b>> \in Bytes /\ Len(<<b>>) = 1 /\ <<b>>[1] = b
  <1>1. <<b>> \in Seq(Octet) /\ Len(<<b>>) = 1 /\ <<b>>[1] = b
    OBVIOUS
  <1>2. <<b>> \in Bytes
    BY <1>1, Zenon DEF Bytes
  <1> QED
    BY <1>1, <1>2, Zenon

\* One byte, which is read without a look at the end of the frame.
LEMMA BytePiece ==
    ASSUME NEW x \in Bytes, NEW at \in Nat, NEW next \in Nat, NEW b \in Octet
    PROVE  /\ <<b>> \in Bytes /\ Len(<<b>>) = 1
           /\ Piece(x, at, next, <<b>>) <=> next = at + 1 /\ at \in 1 .. Len(x) /\ x[at] = b
  <1>1. PICK t \in Bytes : t = <<b>> /\ Len(t) = 1 /\ t[1] = b
    BY ByteIs, Zenon
  <1>2. PICK m \in Nat : m = Len(x)
    BY DEF Bytes
  <1>3. Piece(x, at, next, t) <=> /\ at >= 1 /\ next = at + 1 /\ next <= m + 1
                                  /\ \A i \in at .. next - 1 : x[i] = t[i + 1 - at]
    <2>1. Piece(x, at, next, t) <=>
              /\ at >= 1 /\ next = at + Len(t) /\ next <= Len(x) + 1
              /\ \A i \in at .. next - 1 : x[i] = t[i + 1 - at]
      BY PieceIs
    <2> QED
      BY <1>1, <1>2, <2>1
  <1>4. ASSUME next = at + 1
        PROVE  (\A i \in at .. next - 1 : x[i] = t[i + 1 - at]) <=> x[at] = b
    <2>1. \A i \in at .. next - 1 : i = at /\ i + 1 - at = 1
      BY <1>4
    <2>2. at \in at .. next - 1
      BY <1>4
    <2> QED
      BY <1>1, <2>1, <2>2
  <1> QED
    BY <1>1, <1>2, <1>3, <1>4

LEMMA TwoBytes ==
    ASSUME NEW a \in Octet, NEW b \in Octet
    PROVE  <<a>> \o <<b>> = <<a, b>>
  <1>1. PICK s \in Bytes, t \in Bytes :
            s = <<a>> /\ t = <<b>> /\ Len(s) = 1 /\ Len(t) = 1 /\ s[1] = a /\ t[1] = b
    BY ByteIs, Zenon
  <1>2. PICK u \in Bytes : u = s \o t
    BY Joined
  <1>3. /\ Len(u) = 2 /\ \A i \in 1 .. 1 : u[0 + i] = s[i]
        /\ \A i \in 1 .. 1 : u[1 + i] = t[i]
    BY <1>1, <1>2, ConcatHolds DEF Holds
  <1>4. 1 \in 1 .. 1 /\ 0 + 1 = 1 /\ 1 + 1 = 2
    OBVIOUS
  <1>5. u[1] = a /\ u[2] = b
    BY <1>1, <1>3, <1>4
  <1>6. PICK v \in Seq(Octet) : v = <<a, b>> /\ Len(v) = 2 /\ v[1] = a /\ v[2] = b
    <2>1. <<a, b>> \in Seq(Octet) /\ Len(<<a, b>>) = 2 /\ <<a, b>>[1] = a /\ <<a, b>>[2] = b
      OBVIOUS
    <2> QED
      BY <2>1, Zenon
  <1>7. u \in Seq(Octet)
    BY DEF Bytes
  <1>8. u = v
    <2>1. \A i \in 1 .. Len(u) : u[i] = v[i]
      BY <1>3, <1>5, <1>6
    <2>2. Len(u) = Len(v)
      BY <1>3, <1>6
    <2> QED
      BY <1>7, <2>1, <2>2, SeqEqual
  <1> QED
    BY <1>1, <1>2, <1>6, <1>8

\* Two bytes of a number.
LEMMA WordPiece ==
    ASSUME NEW x \in Bytes, NEW at \in Nat, NEW d, d = decode_uint16(x, at)
    PROVE  /\ d.next \in Nat
           /\ d.next # 0 => d.value \in Word /\ Piece(x, at, d.next, encode_uint16(d.value))
           /\ \A w \in Word, next \in Nat :
                  Piece(x, at, next, encode_uint16(w)) => d = [next |-> next, value |-> w]
  <1>1. PICK m \in Nat : m = Len(x)
    BY DEF Bytes
  <1>2. CASE d = Throws
    <2>1. d.next = 0
      BY <1>2 DEF Throws
    <2>2. ASSUME NEW w \in Word, NEW next \in Nat, Piece(x, at, next, encode_uint16(w))
          PROVE  FALSE
      <3>1. PICK k \in Nat : at = k + 1
        <4>1. at >= 1
          BY <2>2 DEF Piece
        <4>2. at - 1 \in Nat /\ at = (at - 1) + 1
          BY <4>1
        <4> QED
          BY <4>2
      <3>2. Holds(x, k, encode_uint16(w))
        <4>1. at - 1 = k
          BY <3>1
        <4> QED
          BY <2>2, <4>1 DEF Piece
      <3>3. decode_uint16(x, k + 1) = [next |-> k + 3, value |-> w]
        BY <3>2, WordReadBack
      <3>4. d.next = k + 3
        BY <3>1, <3>3
      <3> QED
        BY <2>1, <3>4
    <2> QED
      BY <2>1, <2>2
  <1>3. CASE d # Throws
    <2>1. /\ at >= 1 /\ at + 1 <= m
          /\ d = [next |-> at + 2, value |-> 256 * x[at] + x[at + 1]]
          /\ d.value \in Word
      BY <1>1, <1>3, DecodeUint16
    <2>2. PICK a \in Octet, b \in Octet : a = x[at] /\ b = x[at + 1]
      BY <1>1, <2>1 DEF Bytes
    <2>3. PICK w \in Word : w = d.value
      BY <2>1
    <2>4. w = 256 * a + b /\ d.next = at + 2
      BY <2>1, <2>2, <2>3
    <2>5. w \div 256 = a /\ w % 256 = b
      BY <2>4 DEF Octet
    <2>6. PICK s \in Bytes, t \in Bytes : s = <<a>> /\ t = <<b>> /\ s \o t = <<a, b>>
      BY ByteIs, TwoBytes, Zenon
    <2>7. encode_uint16(w) = s \o t
      BY <2>5, <2>6 DEF encode_uint16
    <2>8. PICK i \in Nat, j \in Nat : i = at + 1 /\ j = at + 2
      OBVIOUS
    <2>9. Piece(x, at, i, s) /\ Piece(x, i, j, t)
      BY <1>1, <2>1, <2>2, <2>6, <2>8, BytePiece
    <2>10. Piece(x, at, j, s \o t)
      BY <2>9, PieceJoined
    <2>11. Piece(x, at, d.next, encode_uint16(d.value))
      BY <2>3, <2>4, <2>7, <2>8, <2>10
    <2>12. ASSUME NEW v \in Word, NEW next \in Nat, Piece(x, at, next, encode_uint16(v))
           PROVE  d = [next |-> next, value |-> v]
      <3>1. PICK k \in Nat : at = k + 1 /\ at - 1 = k /\ at + 2 = k + 3
        <4>1. at - 1 \in Nat /\ at = (at - 1) + 1 /\ at + 2 = (at - 1) + 3
          BY <2>1
        <4> QED
          BY <4>1
      <3>2. Holds(x, k, encode_uint16(v)) /\ next = at + Len(encode_uint16(v))
        BY <2>12, <3>1 DEF Piece
      <3>3. next = k + 3
        BY <3>1, <3>2, WordReadBack
      <3>4. decode_uint16(x, k + 1) = [next |-> k + 3, value |-> v]
        BY <3>2, WordReadBack
      <3> QED
        BY <3>1, <3>3, <3>4
    <2>13. d.next \in Nat
      BY <2>4
    <2> QED
      BY <2>1, <2>11, <2>12, <2>13
  <1> QED
    BY <1>2, <1>3

\* A string behind its length.
LEMMA StringPiece ==
    ASSUME NEW x \in Bytes, NEW at \in Nat, NEW d, d = decode_utf8_string(x, at)
    PROVE  /\ d.next \in Nat
           /\ d.next # 0 => d.value \in Short /\ Piece(x, at, d.next, encode_utf8_string(d.value))
           /\ \A s \in Short, next \in Nat :
                  Piece(x, at, next, encode_utf8_string(s)) => d = [next |-> next, value |-> s]
  <1>1. ASSUME NEW s \in Short, NEW next \in Nat, Piece(x, at, next, encode_utf8_string(s))
        PROVE  d = [next |-> next, value |-> s]
    <2>1. PICK n \in Word : n = Len(s)
      BY LengthIsWord
    <2>2. PICK w \in Bytes : w = encode_uint16(n) /\ Len(w) = 2
      BY WordReadBack
    <2>3. s \in Bytes /\ n \in Nat
      BY <2>1 DEF Short, Word
    <2>4. Piece(x, at, next, w \o s)
      BY <1>1, <2>1, <2>2 DEF encode_utf8_string
    <2>5. PICK b \in Nat : Piece(x, at, b, w) /\ Piece(x, b, next, s)
      BY <2>3, <2>4, PieceSplit
    <2>6. b = at + 2 /\ next = b + n /\ at >= 1 /\ Holds(x, at - 1, w) /\ Holds(x, b - 1, s)
      BY <2>1, <2>2, <2>5 DEF Piece
    <2>7. PICK k \in Nat : at - 1 = k /\ at = k + 1 /\ b - 1 = k + 2 /\ next = k + 3 + n
      <3>1. at - 1 \in Nat /\ at = (at - 1) + 1 /\ b - 1 = (at - 1) + 2 /\ next = (at - 1) + 3 + n
        BY <2>3, <2>6
      <3> QED
        BY <3>1
    <2>8. Holds(x, k, encode_uint16(Len(s))) /\ Holds(x, k + 2, s)
      BY <2>1, <2>2, <2>6, <2>7
    <2>9. decode_utf8_string(x, k + 1) = [next |-> k + 3 + Len(s), value |-> s]
      BY <2>8, StringReadBack
    <2> QED
      BY <2>1, <2>7, <2>9
  <1>2. CASE d = Throws
    <2>1. d.next = 0
      BY <1>2 DEF Throws
    <2> QED
      BY <1>1, <2>1
  <1>3. CASE d # Throws
    <2>1. PICK n \in Word : IsString(d, x, at, n)
      BY <1>3, DecodeString
    <2>2. PICK s \in Short : s = d.value /\ Len(s) = n
      BY <2>1 DEF IsString
    <2>3. s \in Bytes /\ n \in Nat
      BY DEF Short, Word
    <2>4. PICK m \in Nat : m = Len(x)
      BY DEF Bytes
    <2>5. /\ at >= 1 /\ at + 1 + n <= m /\ n = 256 * x[at] + x[at + 1]
          /\ d.next = at + 2 + n /\ s = SubSeq(x, at + 2, at + 1 + n)
      BY <2>1, <2>2, <2>4 DEF IsString
    <2>6. PICK b \in Nat, next \in Nat : b = at + 2 /\ next = d.next /\ next = b + n
      BY <2>3, <2>5
    <2>7. Piece(x, at, b, encode_uint16(n))
      <3>1. PICK w : w = decode_uint16(x, at)
        OBVIOUS
      <3>2. w = [next |-> at + 2, value |-> 256 * x[at] + x[at + 1]]
        <4>1. ~(at = 0) /\ ~(at > m) /\ ~(m + 1 - at < 2)
          BY <2>3, <2>5
        <4>2. ~(distance(x, at) < 2)
          BY <2>4, <4>1 DEF distance
        <4> QED
          BY <3>1, <4>1, <4>2 DEF decode_uint16
      <3>3. w.next = b /\ w.value = n /\ w.next # 0
        BY <2>5, <2>6, <3>2
      <3> QED
        BY <3>1, <3>3, WordPiece
    <2>8. Piece(x, b, next, s)
      <3>1. PICK first \in Nat, last \in Nat : first = at + 2 /\ last = at + 1 + n
        BY <2>3
      <3>2. first >= 1 /\ last <= m /\ first <= last + 1 /\ s = SubSeq(x, first, last)
        BY <2>3, <2>5, <3>1
      <3>3. \A i \in 1 .. Len(s) : s[i] = x[first + i - 1]
        BY <2>4, <3>2, Slice
      <3>4. \A i \in b .. next - 1 : x[i] = s[i + 1 - b]
        <4>1. SUFFICES ASSUME NEW i \in b .. next - 1 PROVE x[i] = s[i + 1 - b]
          OBVIOUS
        <4>2. i + 1 - b \in 1 .. n /\ first + (i + 1 - b) - 1 = i
          BY <2>3, <2>6, <3>1
        <4> QED
          BY <2>2, <3>3, <4>2
      <3>5. b >= 1 /\ next = b + Len(s) /\ next <= Len(x) + 1
        BY <2>2, <2>3, <2>4, <2>5, <2>6
      <3> QED
        BY <2>3, <3>4, <3>5, PieceIs
    <2>9. encode_uint16(n) \in Bytes
      BY WordReadBack
    <2>10. Piece(x, at, next, encode_uint16(n) \o s)
      BY <2>3, <2>7, <2>8, <2>9, PieceJoined
    <2>11. Piece(x, at, d.next, encode_utf8_string(d.value))
      BY <2>2, <2>6, <2>10 DEF encode_utf8_string
    <2>12. d.next \in Nat
      BY <2>6
    <2> QED
      BY <1>1, <2>2, <2>11, <2>12
  <1> QED
    BY <1>2, <1>3

\* What begins behind the frame, or where nothing could be read, is not there.
LEMMA NothingRead ==
    ASSUME NEW x \in Bytes, NEW present
    PROVE  /\ decode_uint16(x, 0).next = 0
           /\ decode_utf8_string(x, 0).next = 0
           /\ optional_string(present, x, 0).next = 0
  <1>1. decode_uint16(x, 0).next = 0
    BY DEF decode_uint16, Throws
  <1>2. decode_utf8_string(x, 0).next = 0
    BY <1>1 DEF decode_utf8_string, Throws
  <1> QED
    BY <1>1, <1>2 DEF optional_string

\* An empty piece is anywhere.
LEMMA EmptyPiece ==
    ASSUME NEW x \in Bytes, NEW at \in Nat, NEW next \in Nat
    PROVE  /\ <<>> \in Bytes
           /\ Piece(x, at, next, <<>>) <=> next = at /\ at \in 1 .. Len(x) + 1
  <1>1. PICK e \in Bytes : e = <<>> /\ Len(e) = 0
    <2>1. <<>> \in Bytes /\ Len(<<>>) = 0
      BY EmptyIsShort DEF Short
    <2> QED
      BY <2>1, Zenon
  <1>2. PICK m \in Nat : m = Len(x)
    BY DEF Bytes
  <1>3. Piece(x, at, next, e) <=>
            /\ at >= 1 /\ next = at + Len(e) /\ next <= Len(x) + 1
            /\ \A i \in at .. next - 1 : x[i] = e[i + 1 - at]
    BY PieceIs
  <1>4. Piece(x, at, next, e) <=> next = at /\ at \in 1 .. m + 1
    BY <1>1, <1>2, <1>3
  <1> QED
    BY <1>1, <1>2, <1>4

\* An optional field of CONNECT.
LEMMA OptionalPiece ==
    ASSUME NEW x \in Bytes, NEW at \in Nat, NEW present, NEW d, d = optional_string(present, x, at)
    PROVE  /\ d.next \in Nat
           /\ (d.next # 0 /\ at <= Len(x) + 1) =>
                  /\ at # 0 /\ d.value \in Short /\ Piece(x, at, d.next, Optional(present, d.value))
                  /\ ~present => d.value = <<>>
           /\ \A s \in Short, next \in Nat :
                  (Piece(x, at, next, Optional(present, s)) /\ (~present => s = <<>>)) =>
                      d = [next |-> next, value |-> s]
  <1>1. CASE present
    <2>1. d = decode_utf8_string(x, at) /\ \A s : Optional(present, s) = encode_utf8_string(s)
      BY <1>1 DEF optional_string, Optional
    <2>2. at = 0 => d.next = 0
      BY <2>1, NothingRead
    <2>3. /\ d.next \in Nat
          /\ d.next # 0 => d.value \in Short /\ Piece(x, at, d.next, encode_utf8_string(d.value))
          /\ \A s \in Short, next \in Nat :
                 Piece(x, at, next, encode_utf8_string(s)) => d = [next |-> next, value |-> s]
      BY <2>1, StringPiece
    <2>4. d.next # 0 => Piece(x, at, d.next, Optional(present, d.value))
      BY <2>1, <2>3
    <2>5. ASSUME NEW s \in Short, NEW next \in Nat, Piece(x, at, next, Optional(present, s))
          PROVE  d = [next |-> next, value |-> s]
      <3>1. Piece(x, at, next, encode_utf8_string(s))
        BY <2>1, <2>5
      <3> QED
        BY <2>3, <3>1
    <2> QED
      BY <1>1, <2>2, <2>3, <2>4, <2>5
  <1>2. CASE ~present
    <2>1. d = [next |-> at, value |-> <<>>] /\ \A s : Optional(present, s) = <<>>
      BY <1>2 DEF optional_string, Optional
    <2>2. <<>> \in Short
      BY EmptyIsShort
    <2>3. (at # 0 /\ at <= Len(x) + 1) => Piece(x, at, at, <<>>)
      <3>1. Len(x) \in Nat
        BY DEF Bytes
      <3> QED
        BY <3>1, EmptyPiece
    <2>4. d.next = at /\ d.value = <<>>
      BY <2>1
    <2>5. ASSUME NEW s \in Short, NEW next \in Nat, Piece(x, at, next, <<>>), s = <<>>
          PROVE  d = [next |-> next, value |-> s]
      BY <2>1, <2>5, EmptyPiece
    <2> QED
      BY <1>2, <2>1, <2>2, <2>3, <2>4, <2>5
  <1> QED
    BY <1>1, <1>2

\* A piece ends in the body.
LEMMA PieceEnds ==
    ASSUME NEW x \in Bytes, NEW t \in Bytes, NEW at \in Nat, NEW next \in Nat, Piece(x, at, next, t)
    PROVE  at >= 1 /\ at <= next /\ next = at + Len(t) /\ next <= Len(x) + 1
  <1>1. Len(t) \in Nat
    BY DEF Bytes
  <1> QED
    BY <1>1, PieceIs

\* What is left from a position on.
LEMMA RestPiece ==
    ASSUME NEW x \in Bytes, NEW at \in Nat, at \in 1 .. Len(x) + 1, NEW next \in Nat, next = Len(x) + 1
    PROVE  /\ SubSeq(x, at, Len(x)) \in Bytes
           /\ \A t \in Bytes : Piece(x, at, next, t) <=> t = SubSeq(x, at, Len(x))
  <1>1. PICK m \in Nat : m = Len(x)
    BY DEF Bytes
  <1>2. at >= 1 /\ m <= Len(x) /\ at <= m + 1
    BY <1>1
  <1>3. PICK y : y = SubSeq(x, at, m)
    OBVIOUS
  <1>4. y \in Bytes /\ Len(y) = m + 1 - at /\ \A i \in 1 .. m + 1 - at : y[i] = x[at + i - 1]
    BY <1>2, <1>3, Slice
  <1>5. Piece(x, at, next, y)
    <2>1. ASSUME NEW i \in at .. next - 1 PROVE x[i] = y[i + 1 - at]
      <3>1. i + 1 - at \in 1 .. m + 1 - at /\ at + (i + 1 - at) - 1 = i
        BY <1>1
      <3> QED
        BY <1>4, <3>1
    <2>2. at >= 1 /\ next = at + Len(y) /\ next <= Len(x) + 1
      BY <1>1, <1>2, <1>4
    <2> QED
      BY <1>4, <2>1, <2>2, PieceIs
  <1>6. ASSUME NEW t \in Bytes, Piece(x, at, next, t) PROVE t = y
    <2>1. PICK k \in Nat : k = at - 1 /\ at = k + 1
      <3>1. at - 1 \in Nat /\ at = (at - 1) + 1
        BY <1>2
      <3> QED
        BY <3>1
    <2>2. Holds(x, k, t) /\ next = at + Len(t)
      BY <1>6, <2>1 DEF Piece
    <2>3. Len(t) \in Nat
      BY DEF Bytes
    <2>4. m = k + Len(t)
      BY <1>1, <2>1, <2>2, <2>3
    <2> QED
      BY <1>3, <2>1, <2>2, <2>4, HoldsSlice
  <1> QED
    BY <1>1, <1>3, <1>4, <1>5, <1>6

\* Several pieces one behind the other.
LEMMA PieceThen ==
    ASSUME NEW x \in Bytes, NEW s \in Bytes, NEW t \in Bytes, NEW a \in Nat, NEW c \in Nat
    PROVE  Piece(x, a, c, s \o t) <=> \E b \in Nat : Piece(x, a, b, s) /\ Piece(x, b, c, t)
  BY PieceJoined, PieceSplit

LEMMA ThreePieces ==
    ASSUME NEW x \in Bytes, NEW e1 \in Bytes, NEW e2 \in Bytes, NEW e3 \in Bytes,
           NEW last \in Nat, last = Len(x) + 1
    PROVE  x = e1 \o e2 \o e3 <=>
               \E p1, p2 \in Nat :
                   Piece(x, 1, p1, e1) /\ Piece(x, p1, p2, e2) /\ Piece(x, p2, last, e3)
  <1>1. PICK s2 \in Bytes : s2 = e1 \o e2
    BY Joined
  <1>2. PICK s3 \in Bytes : s3 = s2 \o e3
    BY Joined
  <1>3. PICK one \in Nat : one = 1
    OBVIOUS
  <1>4. x = s3 <=> Piece(x, one, last, s3)
    BY <1>3, PieceWhole
  <1>5. Piece(x, one, last, s3) <=> \E p2 \in Nat : Piece(x, one, p2, s2) /\ Piece(x, p2, last, e3)
    BY <1>2, PieceThen
  <1>6. \A p2 \in Nat : Piece(x, one, p2, s2) <=>
            \E p1 \in Nat : Piece(x, one, p1, e1) /\ Piece(x, p1, p2, e2)
    BY <1>1, PieceThen
  <1>7. x = s3 <=> \E p1, p2 \in Nat :
                       Piece(x, one, p1, e1) /\ Piece(x, p1, p2, e2) /\ Piece(x, p2, last, e3)
    BY <1>4, <1>5, <1>6
  <1> QED
    BY <1>1, <1>2, <1>3, <1>7

-----------------------------------------------------------------------------
(* CONNECT                                                                  *)

\* What the CONNECT decoder reads one after another.
WillString(flags, body, at) == optional_string(contains_last_will(flags), body, at)
UsernameString(flags, body, at) == optional_string(has_username(flags), body, at)
PasswordString(flags, body, at) == optional_string(has_password(flags), body, at)

ConnectParts(body, beyond, nm, lv, fl, ka, id, wt, wm, un, pw) ==
    /\ nm = decode_utf8_string(body, 1)
    /\ lv = byte_at(body, nm.next, beyond)
    /\ fl = byte_at(body, nm.next + 1, beyond)
    /\ ka = decode_uint16(body, IF nm.next = 0 THEN 0 ELSE nm.next + 2)
    /\ id = decode_utf8_string(body, ka.next)
    /\ wt = WillString(fl, body, id.next)
    /\ wm = WillString(fl, body, wt.next)
    /\ un = UsernameString(fl, body, wm.next)
    /\ pw = PasswordString(fl, body, un.next)

ConnectRecord(nm, lv, fl, ka, id, wt, wm, un, pw) ==
    [type |-> "CONNECT", protocol_name |-> nm.value, protocol_level |-> lv, connect_flags |-> fl,
     keep_alive_secs |-> ka.value, client_id |-> id.value, will_topic |-> wt.value,
     will_message |-> wm.value, username |-> un.value, password |-> pw.value]

LEMMA ConnectIsItsParts ==
    ASSUME NEW body, NEW beyond
    PROVE  \E nm, lv, fl, ka, id, wt, wm, un, pw :
               /\ ConnectParts(body, beyond, nm, lv, fl, ka, id, wt, wm, un, pw)
               /\ connect_fields(body, beyond) =
                      [next |-> pw.next, value |-> ConnectRecord(nm, lv, fl, ka, id, wt, wm, un, pw)]
  <1>1. PICK nm : nm = decode_utf8_string(body, 1)
    OBVIOUS
  <1>2. PICK lv : lv = byte_at(body, nm.next, beyond)
    OBVIOUS
  <1>3. PICK fl : fl = byte_at(body, nm.next + 1, beyond)
    OBVIOUS
  <1>4. PICK ka : ka = decode_uint16(body, IF nm.next = 0 THEN 0 ELSE nm.next + 2)
    OBVIOUS
  <1>5. PICK id : id = decode_utf8_string(body, ka.next)
    OBVIOUS
  <1>6. PICK wt : wt = WillString(fl, body, id.next)
    OBVIOUS
  <1>7. PICK wm : wm = WillString(fl, body, wt.next)
    OBVIOUS
  <1>8. PICK un : un = UsernameString(fl, body, wm.next)
    OBVIOUS
  <1>9. PICK pw : pw = PasswordString(fl, body, un.next)
    OBVIOUS
  <1>10. ConnectParts(body, beyond, nm, lv, fl, ka, id, wt, wm, un, pw)
    BY <1>1, <1>2, <1>3, <1>4, <1>5, <1>6, <1>7, <1>8, <1>9, Zenon DEF ConnectParts
  <1>11. connect_fields(body, beyond) =
             [next |-> pw.next, value |-> ConnectRecord(nm, lv, fl, ka, id, wt, wm, un, pw)]
    BY <1>1, <1>2, <1>3, <1>4, <1>5, <1>6, <1>7, <1>8, <1>9, Zenon
    DEF connect_fields, ConnectRecord, WillString, UsernameString, PasswordString
  <1> QED
    BY <1>10, <1>11, Zenon

\* The fields of a CONNECT: an optional one that is absent is empty.
ConnectTyped(v) ==
    /\ v = [type |-> "CONNECT", protocol_name |-> v.protocol_name, protocol_level |-> v.protocol_level,
            connect_flags |-> v.connect_flags, keep_alive_secs |-> v.keep_alive_secs,
            client_id |-> v.client_id, will_topic |-> v.will_topic, will_message |-> v.will_message,
            username |-> v.username, password |-> v.password]
    /\ v.protocol_level \in Octet /\ v.connect_flags \in Octet /\ v.keep_alive_secs \in Word
    /\ v.protocol_name \in Short /\ v.client_id \in Short
    /\ v.will_topic \in Short /\ v.will_message \in Short
    /\ v.username \in Short /\ v.password \in Short
    /\ ~contains_last_will(v.connect_flags) => v.will_topic = <<>> /\ v.will_message = <<>>
    /\ ~has_username(v.connect_flags) => v.username = <<>>
    /\ ~has_password(v.connect_flags) => v.password = <<>>

ConnectFalls(x, v, p1, p2, p3, p4, p5, p6, p7, last) ==
    /\ Piece(x, 1, p1, encode_utf8_string(v.protocol_name))
    /\ Piece(x, p1, p2, <<v.protocol_level, v.connect_flags>>)
    /\ Piece(x, p2, p3, encode_uint16(v.keep_alive_secs))
    /\ Piece(x, p3, p4, encode_utf8_string(v.client_id))
    /\ Piece(x, p4, p5, Optional(contains_last_will(v.connect_flags), v.will_topic))
    /\ Piece(x, p5, p6, Optional(contains_last_will(v.connect_flags), v.will_message))
    /\ Piece(x, p6, p7, Optional(has_username(v.connect_flags), v.username))
    /\ Piece(x, p7, last, Optional(has_password(v.connect_flags), v.password))

LEMMA TwoBytesAre ==
    ASSUME NEW a \in Octet, NEW b \in Octet
    PROVE  <<a, b>> \in Bytes
  <1>1. PICK s \in Bytes, t \in Bytes : s = <<a>> /\ t = <<b>>
    BY ByteIs, Zenon
  <1>2. s \o t = <<a, b>>
    BY <1>1, TwoBytes
  <1> QED
    BY <1>2, Joined

LEMMA ConnectFallsApart ==
    ASSUME NEW x \in Bytes, NEW v, ConnectTyped(v), NEW last \in Nat, last = Len(x) + 1
    PROVE  x = client_body(v) <=>
               \E p1, p2, p3, p4, p5, p6, p7 \in Nat : ConnectFalls(x, v, p1, p2, p3, p4, p5, p6, p7, last)
  <1>1. PICK flags \in Octet : flags = v.connect_flags
    BY DEF ConnectTyped
  <1>2. PICK e1 \in Bytes : e1 = encode_utf8_string(v.protocol_name)
    BY StringEncoded DEF ConnectTyped
  <1>3. PICK e2 \in Bytes : e2 = <<v.protocol_level, flags>>
    BY <1>1, TwoBytesAre DEF ConnectTyped
  <1>4. PICK e3 \in Bytes : e3 = encode_uint16(v.keep_alive_secs)
    BY WordReadBack DEF ConnectTyped
  <1>5. PICK e4 \in Bytes : e4 = encode_utf8_string(v.client_id)
    BY StringEncoded DEF ConnectTyped
  <1>6. PICK e5 \in Bytes : e5 = Optional(contains_last_will(flags), v.will_topic)
    BY OptionalEncoded DEF ConnectTyped
  <1>7. PICK e6 \in Bytes : e6 = Optional(contains_last_will(flags), v.will_message)
    BY OptionalEncoded DEF ConnectTyped
  <1>8. PICK e7 \in Bytes : e7 = Optional(has_username(flags), v.username)
    BY OptionalEncoded DEF ConnectTyped
  <1>9. PICK e8 \in Bytes : e8 = Optional(has_password(flags), v.password)
    BY OptionalEncoded DEF ConnectTyped
  <1>10. client_body(v) = e1 \o e2 \o e3 \o e4 \o e5 \o e6 \o e7 \o e8
    <2>1. v.type = "CONNECT"
      BY DEF ConnectTyped
    <2>2. client_body(v) =
              encode_utf8_string(v.protocol_name) \o <<v.protocol_level, v.connect_flags>>
                 \o encode_uint16(v.keep_alive_secs) \o encode_utf8_string(v.client_id)
                 \o Optional(contains_last_will(v.connect_flags), v.will_topic)
                 \o Optional(contains_last_will(v.connect_flags), v.will_message)
                 \o Optional(has_username(v.connect_flags), v.username)
                 \o Optional(has_password(v.connect_flags), v.password)
      BY <2>1 DEF client_body
    <2> QED
      BY <1>1, <1>2, <1>3, <1>4, <1>5, <1>6, <1>7, <1>8, <1>9, <2>2
  <1>11. PICK s2 \in Bytes : s2 = e1 \o e2
    BY Joined
  <1>12. PICK s3 \in Bytes : s3 = s2 \o e3
    BY Joined
  <1>13. PICK s4 \in Bytes : s4 = s3 \o e4
    BY Joined
  <1>14. PICK s5 \in Bytes : s5 = s4 \o e5
    BY Joined
  <1>15. PICK s6 \in Bytes : s6 = s5 \o e6
    BY Joined
  <1>16. PICK s7 \in Bytes : s7 = s6 \o e7
    BY Joined
  <1>17. PICK s8 \in Bytes : s8 = s7 \o e8
    BY Joined
  <1>18. PICK one \in Nat : one = 1
    OBVIOUS
  <1>19. x = s8 <=> Piece(x, one, last, s8)
    BY <1>18, PieceWhole
  <1>20. Piece(x, one, last, s8) <=> \E p \in Nat : Piece(x, one, p, s7) /\ Piece(x, p, last, e8)
    BY <1>17, PieceThen
  <1>21. \A p \in Nat : Piece(x, one, p, s7) <=> \E q \in Nat : Piece(x, one, q, s6) /\ Piece(x, q, p, e7)
    BY <1>16, PieceThen
  <1>22. \A p \in Nat : Piece(x, one, p, s6) <=> \E q \in Nat : Piece(x, one, q, s5) /\ Piece(x, q, p, e6)
    BY <1>15, PieceThen
  <1>23. \A p \in Nat : Piece(x, one, p, s5) <=> \E q \in Nat : Piece(x, one, q, s4) /\ Piece(x, q, p, e5)
    BY <1>14, PieceThen
  <1>24. \A p \in Nat : Piece(x, one, p, s4) <=> \E q \in Nat : Piece(x, one, q, s3) /\ Piece(x, q, p, e4)
    BY <1>13, PieceThen
  <1>25. \A p \in Nat : Piece(x, one, p, s3) <=> \E q \in Nat : Piece(x, one, q, s2) /\ Piece(x, q, p, e3)
    BY <1>12, PieceThen
  <1>26. \A p \in Nat : Piece(x, one, p, s2) <=> \E q \in Nat : Piece(x, one, q, e1) /\ Piece(x, q, p, e2)
    BY <1>11, PieceThen
  <1>27. s8 = client_body(v)
    BY <1>10, <1>11, <1>12, <1>13, <1>14, <1>15, <1>16, <1>17
  <1>28. ASSUME Piece(x, one, last, s8)
         PROVE  \E p1, p2, p3, p4, p5, p6, p7 \in Nat :
                    ConnectFalls(x, v, p1, p2, p3, p4, p5, p6, p7, last)
    <2>1. PICK p7 \in Nat : Piece(x, one, p7, s7) /\ Piece(x, p7, last, e8)
      BY <1>20, <1>28
    <2>2. PICK p6 \in Nat : Piece(x, one, p6, s6) /\ Piece(x, p6, p7, e7)
      BY <1>21, <2>1
    <2>3. PICK p5 \in Nat : Piece(x, one, p5, s5) /\ Piece(x, p5, p6, e6)
      BY <1>22, <2>2
    <2>4. PICK p4 \in Nat : Piece(x, one, p4, s4) /\ Piece(x, p4, p5, e5)
      BY <1>23, <2>3
    <2>5. PICK p3 \in Nat : Piece(x, one, p3, s3) /\ Piece(x, p3, p4, e4)
      BY <1>24, <2>4
    <2>6. PICK p2 \in Nat : Piece(x, one, p2, s2) /\ Piece(x, p2, p3, e3)
      BY <1>25, <2>5
    <2>7. PICK p1 \in Nat : Piece(x, one, p1, e1) /\ Piece(x, p1, p2, e2)
      BY <1>26, <2>6
    <2>8. ConnectFalls(x, v, p1, p2, p3, p4, p5, p6, p7, last)
      BY <1>1, <1>2, <1>3, <1>4, <1>5, <1>6, <1>7, <1>8, <1>9, <1>18,
         <2>1, <2>2, <2>3, <2>4, <2>5, <2>6, <2>7 DEF ConnectFalls
    <2> QED
      BY <2>8, Zenon
  <1>29. ASSUME NEW p1 \in Nat, NEW p2 \in Nat, NEW p3 \in Nat, NEW p4 \in Nat, NEW p5 \in Nat,
                NEW p6 \in Nat, NEW p7 \in Nat, ConnectFalls(x, v, p1, p2, p3, p4, p5, p6, p7, last)
         PROVE  Piece(x, one, last, s8)
    <2>1. /\ Piece(x, one, p1, e1) /\ Piece(x, p1, p2, e2) /\ Piece(x, p2, p3, e3)
          /\ Piece(x, p3, p4, e4) /\ Piece(x, p4, p5, e5) /\ Piece(x, p5, p6, e6)
          /\ Piece(x, p6, p7, e7) /\ Piece(x, p7, last, e8)
      BY <1>1, <1>2, <1>3, <1>4, <1>5, <1>6, <1>7, <1>8, <1>9, <1>18, <1>29 DEF ConnectFalls
    <2>2. Piece(x, one, p2, s2)
      BY <1>26, <2>1
    <2>3. Piece(x, one, p3, s3)
      BY <1>25, <2>1, <2>2
    <2>4. Piece(x, one, p4, s4)
      BY <1>24, <2>1, <2>3
    <2>5. Piece(x, one, p5, s5)
      BY <1>23, <2>1, <2>4
    <2>6. Piece(x, one, p6, s6)
      BY <1>22, <2>1, <2>5
    <2>7. Piece(x, one, p7, s7)
      BY <1>21, <2>1, <2>6
    <2> QED
      BY <1>20, <2>1, <2>7
  <1> QED
    BY <1>19, <1>27, <1>28, <1>29

\* A CONNECT that ends where the frame does is what its fields are encoded to.
LEMMA ConnectDecoded ==
    ASSUME NEW x \in Bytes, NEW beyond \in Octet, NEW c, c = connect_fields(x, beyond),
           c.next = Len(x) + 1, NEW v, v = c.value
    PROVE  ConnectTyped(v) /\ x = client_body(v)
  <1>1. PICK nm, lv, fl, ka, id, wt, wm, un, pw :
            /\ ConnectParts(x, beyond, nm, lv, fl, ka, id, wt, wm, un, pw)
            /\ c = [next |-> pw.next, value |-> ConnectRecord(nm, lv, fl, ka, id, wt, wm, un, pw)]
    BY ConnectIsItsParts
  <1>2. PICK m \in Nat, last \in Nat : m = Len(x) /\ last = m + 1
    BY DEF Bytes
  <1>3. pw.next = last /\ last # 0
    BY <1>1, <1>2
  <1>4. /\ v.type = "CONNECT" /\ v.protocol_name = nm.value /\ v.protocol_level = lv
        /\ v.connect_flags = fl /\ v.keep_alive_secs = ka.value /\ v.client_id = id.value
        /\ v.will_topic = wt.value /\ v.will_message = wm.value
        /\ v.username = un.value /\ v.password = pw.value
        /\ v = ConnectRecord(nm, lv, fl, ka, id, wt, wm, un, pw)
    BY <1>1 DEF ConnectRecord
  <1>5. /\ nm.next # 0 /\ ka.next # 0 /\ id.next # 0 /\ wt.next # 0 /\ wm.next # 0 /\ un.next # 0
    <2>1. un.next # 0
      BY <1>1, <1>3, NothingRead, Zenon DEF ConnectParts, PasswordString
    <2>2. wm.next # 0
      BY <1>1, <2>1, NothingRead, Zenon DEF ConnectParts, UsernameString
    <2>3. wt.next # 0
      BY <1>1, <2>2, NothingRead, Zenon DEF ConnectParts, WillString
    <2>4. id.next # 0
      BY <1>1, <2>3, NothingRead, Zenon DEF ConnectParts, WillString
    <2>5. ka.next # 0
      BY <1>1, <2>4, NothingRead, Zenon DEF ConnectParts
    <2>6. nm.next # 0
      BY <1>1, <2>5, NothingRead, Zenon DEF ConnectParts
    <2> QED
      BY <2>1, <2>2, <2>3, <2>4, <2>5, <2>6
  <1>6. PICK one \in Nat : one = 1
    OBVIOUS
  <1>7. PICK p1 \in Nat : p1 = nm.next /\ p1 # 0 /\ nm.value \in Short
                          /\ Piece(x, 1, p1, encode_utf8_string(nm.value))
    <2>1. nm = decode_utf8_string(x, one)
      BY <1>1, <1>6, Zenon DEF ConnectParts
    <2>2. nm.next \in Nat /\ nm.value \in Short /\ Piece(x, one, nm.next, encode_utf8_string(nm.value))
      BY <1>5, <2>1, StringPiece
    <2> QED
      BY <1>5, <1>6, <2>2
  <1>8. PICK p2 \in Nat : p2 = p1 + 2
    OBVIOUS
  <1>9. PICK p3 \in Nat : p3 = ka.next /\ ka.value \in Word
                          /\ Piece(x, p2, p3, encode_uint16(ka.value))
    <2>1. ka = decode_uint16(x, p2)
      BY <1>1, <1>7, <1>8, Zenon DEF ConnectParts
    <2> QED
      BY <1>5, <2>1, WordPiece
  <1>10. p2 <= m
    <2>1. PICK t \in Bytes : t = encode_uint16(ka.value) /\ Len(t) = 2
      BY <1>9, WordReadBack
    <2>2. Piece(x, p2, p3, t)
      BY <1>9, <2>1
    <2>4. p3 = p2 + Len(t) /\ p3 <= Len(x) + 1
      BY <2>2, PieceEnds
    <2>3. p3 = p2 + 2 /\ p3 <= m + 1
      BY <1>2, <2>1, <2>4
    <2> QED
      BY <1>2, <2>3
  <1>11. lv \in Octet /\ fl \in Octet /\ Piece(x, p1, p2, <<lv, fl>>)
    <2>1. p1 \in 1 .. m /\ p1 + 1 \in 1 .. m
      BY <1>2, <1>7, <1>8, <1>10
    <2>2. lv = x[p1] /\ fl = x[p1 + 1] /\ x[p1] \in Octet /\ x[p1 + 1] \in Octet
      <3>1. lv = byte_at(x, nm.next, beyond) /\ fl = byte_at(x, nm.next + 1, beyond)
        BY <1>1, Zenon DEF ConnectParts
      <3>2. byte_at(x, p1, beyond) = x[p1] /\ byte_at(x, p1 + 1, beyond) = x[p1 + 1]
        BY <1>2, <2>1 DEF byte_at, Bytes
      <3>3. x[p1] \in Octet /\ x[p1 + 1] \in Octet
        BY <1>2, <2>1 DEF Bytes
      <3> QED
        BY <1>7, <3>1, <3>2, <3>3
    <2>3. PICK q \in Nat : q = p1 + 1 /\ p2 = q + 1
      BY <1>8
    <2>4. PICK s \in Bytes, t \in Bytes : s = <<lv>> /\ t = <<fl>>
      BY <2>2, ByteIs, Zenon
    <2>5. Piece(x, p1, q, s) /\ Piece(x, q, p2, t)
      BY <1>2, <2>1, <2>2, <2>3, <2>4, BytePiece
    <2>6. Piece(x, p1, p2, s \o t)
      BY <2>5, PieceJoined
    <2> QED
      BY <2>2, <2>4, <2>6, TwoBytes
  <1>12. PICK p4 \in Nat : p4 = id.next /\ p4 # 0 /\ id.value \in Short
                           /\ Piece(x, p3, p4, encode_utf8_string(id.value)) /\ p4 <= m + 1
    <2>1. id = decode_utf8_string(x, p3)
      BY <1>1, <1>9, Zenon DEF ConnectParts
    <2>2. id.next \in Nat /\ id.value \in Short /\ Piece(x, p3, id.next, encode_utf8_string(id.value))
      BY <1>5, <2>1, StringPiece
    <2>3. encode_utf8_string(id.value) \in Bytes
      BY <2>2, StringEncoded
    <2>4. id.next <= m + 1
      BY <1>2, <2>2, <2>3, PieceEnds
    <2> QED
      BY <1>5, <2>2, <2>4
  <1>13. ASSUME NEW present, NEW at \in Nat, NEW d, d = optional_string(present, x, at),
                at <= m + 1, d.next # 0
         PROVE  /\ d.next \in Nat /\ d.next <= m + 1 /\ d.value \in Short
                /\ Piece(x, at, d.next, Optional(present, d.value))
                /\ ~present => d.value = <<>>
    <2>1. /\ d.next \in Nat /\ d.value \in Short
          /\ Piece(x, at, d.next, Optional(present, d.value))
          /\ ~present => d.value = <<>>
      BY <1>2, <1>13, OptionalPiece
    <2>2. Optional(present, d.value) \in Bytes
      BY <2>1, OptionalEncoded
    <2>3. d.next <= m + 1
      BY <1>2, <2>1, <2>2, PieceEnds
    <2> QED
      BY <2>1, <2>3
  <1>14. PICK p5 \in Nat :
             /\ p5 = wt.next /\ p5 <= m + 1 /\ wt.value \in Short
             /\ Piece(x, p4, p5, Optional(contains_last_will(fl), wt.value))
             /\ ~contains_last_will(fl) => wt.value = <<>>
    <2>1. wt = WillString(fl, x, id.next)
      BY <1>1, Zenon DEF ConnectParts
    <2>2. wt = optional_string(contains_last_will(fl), x, p4)
      BY <2>1, <1>12, Zenon DEF WillString
    <2> QED
      BY <1>5, <1>12, <1>13, <2>2
  <1>15. PICK p6 \in Nat :
             /\ p6 = wm.next /\ p6 <= m + 1 /\ wm.value \in Short
             /\ Piece(x, p5, p6, Optional(contains_last_will(fl), wm.value))
             /\ ~contains_last_will(fl) => wm.value = <<>>
    <2>1. wm = WillString(fl, x, wt.next)
      BY <1>1, Zenon DEF ConnectParts
    <2>2. wm = optional_string(contains_last_will(fl), x, p5)
      BY <2>1, <1>14, Zenon DEF WillString
    <2> QED
      BY <1>5, <1>13, <1>14, <2>2
  <1>16. PICK p7 \in Nat :
             /\ p7 = un.next /\ p7 <= m + 1 /\ un.value \in Short
             /\ Piece(x, p6, p7, Optional(has_username(fl), un.value))
             /\ ~has_username(fl) => un.value = <<>>
    <2>1. un = UsernameString(fl, x, wm.next)
      BY <1>1, Zenon DEF ConnectParts
    <2>2. un = optional_string(has_username(fl), x, p6)
      BY <2>1, <1>15, Zenon DEF UsernameString
    <2> QED
      BY <1>5, <1>13, <1>15, <2>2
  <1>17. /\ pw.value \in Short
         /\ Piece(x, p7, last, Optional(has_password(fl), pw.value))
         /\ ~has_password(fl) => pw.value = <<>>
    <2>1. pw = PasswordString(fl, x, un.next)
      BY <1>1, Zenon DEF ConnectParts
    <2>2. pw = optional_string(has_password(fl), x, p7)
      BY <2>1, <1>16, Zenon DEF PasswordString
    <2> QED
      BY <1>3, <1>13, <1>16, <2>2
  <1>18. ConnectTyped(v)
    <2>1. v = ConnectRecord(nm, lv, fl, ka, id, wt, wm, un, pw)
      BY <1>4
    <2>2. v = [type |-> "CONNECT", protocol_name |-> v.protocol_name,
               protocol_level |-> v.protocol_level, connect_flags |-> v.connect_flags,
               keep_alive_secs |-> v.keep_alive_secs, client_id |-> v.client_id,
               will_topic |-> v.will_topic, will_message |-> v.will_message,
               username |-> v.username, password |-> v.password]
      BY <2>1 DEF ConnectRecord
    <2>3. /\ v.protocol_level \in Octet /\ v.connect_flags \in Octet /\ v.keep_alive_secs \in Word
          /\ v.protocol_name \in Short /\ v.client_id \in Short
          /\ v.will_topic \in Short /\ v.will_message \in Short
          /\ v.username \in Short /\ v.password \in Short
      BY <1>4, <1>7, <1>9, <1>11, <1>12, <1>14, <1>15, <1>16, <1>17
    <2>4. /\ ~contains_last_will(fl) => v.will_topic = <<>> /\ v.will_message = <<>>
          /\ ~has_username(fl) => v.username = <<>>
          /\ ~has_password(fl) => v.password = <<>>
      BY <1>4, <1>14, <1>15, <1>16, <1>17
    <2>5. v.connect_flags = fl
      BY <1>4
    <2> QED
      BY <2>2, <2>3, <2>4, <2>5, Zenon DEF ConnectTyped
  <1>19. ConnectFalls(x, v, p1, p2, p3, p4, p5, p6, p7, last)
    BY <1>4, <1>7, <1>9, <1>11, <1>12, <1>14, <1>15, <1>16, <1>17 DEF ConnectFalls
  <1>20. x = client_body(v)
    <2>1. \E q1, q2, q3, q4, q5, q6, q7 \in Nat : ConnectFalls(x, v, q1, q2, q3, q4, q5, q6, q7, last)
      BY <1>19, Zenon
    <2> QED
      BY <1>2, <1>18, <2>1, ConnectFallsApart
  <1> QED
    BY <1>18, <1>20

\* What a client encodes the decoder reads, without a look at what is behind.
LEMMA ConnectEncoded ==
    ASSUME NEW x \in Bytes, NEW beyond, NEW v, ConnectTyped(v), x = client_body(v)
    PROVE  connect_fields(x, beyond) = [next |-> Len(x) + 1, value |-> v]
  <1>1. PICK nm, lv, fl, ka, id, wt, wm, un, pw :
            /\ ConnectParts(x, beyond, nm, lv, fl, ka, id, wt, wm, un, pw)
            /\ connect_fields(x, beyond) =
                   [next |-> pw.next, value |-> ConnectRecord(nm, lv, fl, ka, id, wt, wm, un, pw)]
    BY ConnectIsItsParts
  <1>2. PICK m \in Nat, last \in Nat : m = Len(x) /\ last = m + 1
    BY DEF Bytes
  <1>3. PICK p1, p2, p3, p4, p5, p6, p7 \in Nat : ConnectFalls(x, v, p1, p2, p3, p4, p5, p6, p7, last)
    BY <1>2, ConnectFallsApart
  <1>4. PICK one \in Nat : one = 1
    OBVIOUS
  <1>5. nm = [next |-> p1, value |-> v.protocol_name]
    <2>1. nm = decode_utf8_string(x, one) /\ Piece(x, one, p1, encode_utf8_string(v.protocol_name))
      BY <1>1, <1>3, <1>4, Zenon DEF ConnectParts, ConnectFalls
    <2> QED
      BY <2>1, StringPiece DEF ConnectTyped
  <1>6. p1 \in 1 .. m /\ p1 + 1 \in 1 .. m /\ p2 = p1 + 2
        /\ x[p1] = v.protocol_level /\ x[p1 + 1] = v.connect_flags
    <2>1. PICK a \in Octet, b \in Octet : a = v.protocol_level /\ b = v.connect_flags
      BY DEF ConnectTyped
    <2>2. PICK s \in Bytes, t \in Bytes : s = <<a>> /\ t = <<b>>
      BY ByteIs, Zenon
    <2>3. Piece(x, p1, p2, s \o t)
      <3>1. Piece(x, p1, p2, <<a, b>>)
        BY <1>3, <2>1 DEF ConnectFalls
      <3> QED
        BY <2>2, <3>1, TwoBytes
    <2>4. PICK q \in Nat : Piece(x, p1, q, s) /\ Piece(x, q, p2, t)
      BY <2>3, PieceSplit
    <2>5. q = p1 + 1 /\ p1 \in 1 .. m /\ x[p1] = a /\ p2 = q + 1 /\ q \in 1 .. m /\ x[q] = b
      BY <1>2, <2>2, <2>4, BytePiece
    <2> QED
      BY <2>1, <2>5
  <1>7. lv = v.protocol_level /\ fl = v.connect_flags
    <2>0. lv = byte_at(x, nm.next, beyond) /\ fl = byte_at(x, nm.next + 1, beyond)
      BY <1>1, Zenon DEF ConnectParts
    <2>4. nm.next = p1
      BY <1>5
    <2>1. lv = byte_at(x, p1, beyond) /\ fl = byte_at(x, p1 + 1, beyond)
      BY <2>0, <2>4
    <2>2. p1 \in DOMAIN x /\ p1 + 1 \in DOMAIN x
      BY <1>2, <1>6 DEF Bytes
    <2> QED
      BY <1>6, <2>1, <2>2 DEF byte_at
  <1>8. ka = [next |-> p3, value |-> v.keep_alive_secs]
    <2>1. ka = decode_uint16(x, p2)
      <3>1. ka = decode_uint16(x, IF nm.next = 0 THEN 0 ELSE nm.next + 2)
        BY <1>1, Zenon DEF ConnectParts
      <3>2. nm.next = p1 /\ p1 # 0 /\ p1 + 2 = p2
        BY <1>2, <1>5, <1>6
      <3> QED
        BY <3>1, <3>2
    <2> QED
      BY <1>3, <2>1, WordPiece DEF ConnectTyped, ConnectFalls
  <1>9. id = [next |-> p4, value |-> v.client_id]
    <2>1. id = decode_utf8_string(x, p3)
      <3>1. id = decode_utf8_string(x, ka.next)
        BY <1>1, Zenon DEF ConnectParts
      <3>2. ka.next = p3
        BY <1>8
      <3> QED
        BY <3>1, <3>2
    <2> QED
      BY <1>3, <2>1, StringPiece DEF ConnectTyped, ConnectFalls
  <1>10. wt = [next |-> p5, value |-> v.will_topic]
    <2>0. wt = WillString(fl, x, id.next)
      BY <1>1, Zenon DEF ConnectParts
    <2>4. id.next = p4
      BY <1>9
    <2>1. wt = optional_string(contains_last_will(fl), x, p4)
      BY <2>0, <2>4, Zenon DEF WillString
    <2>2. Piece(x, p4, p5, Optional(contains_last_will(fl), v.will_topic))
      BY <1>3, <1>7 DEF ConnectFalls
    <2>3. v.will_topic \in Short /\ (~contains_last_will(fl) => v.will_topic = <<>>)
      BY <1>7 DEF ConnectTyped
    <2> QED
      BY <2>1, <2>2, <2>3, OptionalPiece
  <1>11. wm = [next |-> p6, value |-> v.will_message]
    <2>0. wm = WillString(fl, x, wt.next)
      BY <1>1, Zenon DEF ConnectParts
    <2>4. wt.next = p5
      BY <1>10
    <2>1. wm = optional_string(contains_last_will(fl), x, p5)
      BY <2>0, <2>4, Zenon DEF WillString
    <2>2. Piece(x, p5, p6, Optional(contains_last_will(fl), v.will_message))
      BY <1>3, <1>7 DEF ConnectFalls
    <2>3. v.will_message \in Short /\ (~contains_last_will(fl) => v.will_message = <<>>)
      BY <1>7 DEF ConnectTyped
    <2> QED
      BY <2>1, <2>2, <2>3, OptionalPiece
  <1>12. un = [next |-> p7, value |-> v.username]
    <2>0. un = UsernameString(fl, x, wm.next)
      BY <1>1, Zenon DEF ConnectParts
    <2>4. wm.next = p6
      BY <1>11
    <2>1. un = optional_string(has_username(fl), x, p6)
      BY <2>0, <2>4, Zenon DEF UsernameString
    <2>2. Piece(x, p6, p7, Optional(has_username(fl), v.username))
      BY <1>3, <1>7 DEF ConnectFalls
    <2>3. v.username \in Short /\ (~has_username(fl) => v.username = <<>>)
      BY <1>7 DEF ConnectTyped
    <2> QED
      BY <2>1, <2>2, <2>3, OptionalPiece
  <1>13. pw = [next |-> last, value |-> v.password]
    <2>0. pw = PasswordString(fl, x, un.next)
      BY <1>1, Zenon DEF ConnectParts
    <2>4. un.next = p7
      BY <1>12
    <2>1. pw = optional_string(has_password(fl), x, p7)
      BY <2>0, <2>4, Zenon DEF PasswordString
    <2>2. Piece(x, p7, last, Optional(has_password(fl), v.password))
      BY <1>3, <1>7 DEF ConnectFalls
    <2>3. v.password \in Short /\ (~has_password(fl) => v.password = <<>>)
      BY <1>7 DEF ConnectTyped
    <2> QED
      BY <2>1, <2>2, <2>3, OptionalPiece
  <1>14. v = ConnectRecord(nm, lv, fl, ka, id, wt, wm, un, pw)
    BY <1>5, <1>7, <1>8, <1>9, <1>10, <1>11, <1>12, <1>13 DEF ConnectTyped, ConnectRecord
  <1> QED
    BY <1>1, <1>2, <1>13, <1>14

\* A string without a NUL is the same as C string.
LEMMA WithoutNul ==
    ASSUME NEW s, ~Contains(s, NUL)
    PROVE  c_str(s) = s
  BY DEF c_str

LEMMA ConnectAsC ==
    ASSUME NEW c, ConnectTyped(c), ~HasNul(c)
    PROVE  [c EXCEPT !.protocol_name = c_str(@), !.client_id = c_str(@), !.will_topic = c_str(@),
                     !.username = c_str(@), !.password = c_str(@)] = c
  <1>1. \A field \in {"protocol_name", "client_id", "will_topic", "username", "password"} :
            ~Contains(c[field], NUL)
    BY DEF HasNul
  <1>2. /\ ~Contains(c.protocol_name, NUL) /\ ~Contains(c.client_id, NUL) /\ ~Contains(c.will_topic, NUL)
        /\ ~Contains(c.username, NUL) /\ ~Contains(c.password, NUL)
    BY <1>1
  <1>3. /\ c_str(c.protocol_name) = c.protocol_name /\ c_str(c.client_id) = c.client_id
        /\ c_str(c.will_topic) = c.will_topic /\ c_str(c.username) = c.username
        /\ c_str(c.password) = c.password
    BY <1>2, WithoutNul
  <1>4. c = [type |-> "CONNECT", protocol_name |-> c.protocol_name, protocol_level |-> c.protocol_level,
             connect_flags |-> c.connect_flags, keep_alive_secs |-> c.keep_alive_secs,
             client_id |-> c.client_id, will_topic |-> c.will_topic, will_message |-> c.will_message,
             username |-> c.username, password |-> c.password]
    BY Zenon DEF ConnectTyped
  <1> QED
    BY <1>3, <1>4

\* A CONNECT accepted was encoded by a client, if no string had a NUL.
LEMMA ConnectAccepted ==
    ASSUME NEW f \in Frame, f.type = "CONNECT", NEW beyond \in Octet, NEW p,
           p = decode_connect(f, beyond), p # malformed_mqtt_packet
    PROVE  f = client_encode(p) \/ HasNul(connect_fields(f.body, NUL).value)
  <1>1. PICK x \in Bytes : x = f.body
    BY DEF Frame
  <1>2. PICK fields : fields = connect_fields(x, beyond)
    OBVIOUS
  <1>3. PICK c : c = fields.value
    OBVIOUS
  <1>4. /\ f.flags = 0 /\ fields.next = Len(x) + 1
        /\ p = [c EXCEPT !.protocol_name = c_str(@), !.client_id = c_str(@), !.will_topic = c_str(@),
                         !.username = c_str(@), !.password = c_str(@)]
    BY <1>1, <1>2, <1>3 DEF decode_connect
  <1>5. ConnectTyped(c) /\ x = client_body(c)
    BY <1>2, <1>3, <1>4, ConnectDecoded
  <1>6. connect_fields(x, NUL).value = c
    <2>1. connect_fields(x, NUL) = [next |-> Len(x) + 1, value |-> c]
      BY <1>5, ConnectEncoded
    <2> QED
      BY <2>1
  <1>7. CASE ~HasNul(c)
    <2>1. p = c
      BY <1>4, <1>5, <1>7, ConnectAsC
    <2>2. c.type = "CONNECT"
      BY <1>5 DEF ConnectTyped
    <2>3. client_encode(p) = [type |-> "CONNECT", flags |-> 0, body |-> x]
      BY <1>5, <2>1, <2>2 DEF client_encode, flags_of
    <2>4. f = [type |-> f.type, flags |-> f.flags, body |-> f.body]
      BY DEF Frame
    <2> QED
      BY <1>1, <1>4, <2>3, <2>4
  <1> QED
    BY <1>1, <1>6, <1>7

LEMMA ConnectLegal ==
    ASSUME NEW p \in clientConnect, p.protocol_name # <<>>, ~HasNul(p), NEW beyond
    PROVE  decode_connect(client_encode(p), beyond) = p
  <1>1. ConnectTyped(p)
    <2>1. PICK name \in String, flags \in ConnectFlags, id \in String, will \in String, user \in String :
              p = [type |-> "CONNECT", protocol_name |-> name, protocol_level |-> 4,
                   connect_flags |-> flags, keep_alive_secs |-> 1, client_id |-> id,
                   will_topic |-> IF contains_last_will(flags) THEN will ELSE <<>>,
                   will_message |-> IF contains_last_will(flags) THEN will ELSE <<>>,
                   username |-> IF has_username(flags) THEN user ELSE <<>>,
                   password |-> IF has_password(flags) THEN user ELSE <<>>]
      BY DEF clientConnect
    <2>2. name \in Short /\ id \in Short /\ will \in Short /\ user \in Short /\ flags \in Octet
      BY Constants
    <2>3. 4 \in Octet /\ 1 \in Word /\ <<>> \in Short
      BY EmptyIsShort DEF Octet, Word, MAX_UINT16
    <2>4. PICK w, u, s : /\ w = IF contains_last_will(flags) THEN will ELSE <<>>
                         /\ u = IF has_username(flags) THEN user ELSE <<>>
                         /\ s = IF has_password(flags) THEN user ELSE <<>>
      OBVIOUS
    <2>5. /\ w \in Short /\ u \in Short /\ s \in Short
          /\ ~contains_last_will(flags) => w = <<>>
          /\ ~has_username(flags) => u = <<>>
          /\ ~has_password(flags) => s = <<>>
      BY <2>2, <2>3, <2>4
    <2>6. p = [type |-> "CONNECT", protocol_name |-> name, protocol_level |-> 4,
               connect_flags |-> flags, keep_alive_secs |-> 1, client_id |-> id,
               will_topic |-> w, will_message |-> w, username |-> u, password |-> s]
      BY <2>1, <2>4
    <2>7. /\ p.protocol_name = name /\ p.protocol_level = 4 /\ p.connect_flags = flags
          /\ p.keep_alive_secs = 1 /\ p.client_id = id /\ p.will_topic = w /\ p.will_message = w
          /\ p.username = u /\ p.password = s
          /\ p = [type |-> "CONNECT", protocol_name |-> p.protocol_name,
                  protocol_level |-> p.protocol_level, connect_flags |-> p.connect_flags,
                  keep_alive_secs |-> p.keep_alive_secs, client_id |-> p.client_id,
                  will_topic |-> p.will_topic, will_message |-> p.will_message,
                  username |-> p.username, password |-> p.password]
      BY <2>6
    <2>8. /\ p.protocol_level \in Octet /\ p.connect_flags \in Octet /\ p.keep_alive_secs \in Word
          /\ p.protocol_name \in Short /\ p.client_id \in Short
          /\ p.will_topic \in Short /\ p.will_message \in Short
          /\ p.username \in Short /\ p.password \in Short
      BY <2>2, <2>3, <2>5, <2>7
    <2>9. /\ ~contains_last_will(flags) => p.will_topic = <<>> /\ p.will_message = <<>>
          /\ ~has_username(flags) => p.username = <<>>
          /\ ~has_password(flags) => p.password = <<>>
      BY <2>5, <2>7
    <2>10. p.connect_flags = flags
      BY <2>7
    <2> QED
      BY <2>7, <2>8, <2>9, <2>10, Zenon DEF ConnectTyped
  <1>2. p.type = "CONNECT" /\ client_body(p) \in Bytes
    BY ConnectBody
  <1>3. PICK x \in Bytes : x = client_body(p)
    BY <1>2
  <1>4. PICK f : f = client_encode(p)
    OBVIOUS
  <1>5. f.flags = 0 /\ f.body = x
    BY <1>2, <1>3, <1>4 DEF client_encode, flags_of
  <1>6. connect_fields(x, beyond) = [next |-> Len(x) + 1, value |-> p]
    BY <1>1, <1>3, ConnectEncoded
  <1>7. PICK fields : fields = connect_fields(x, beyond) /\ fields.next = Len(x) + 1 /\ fields.value = p
    BY <1>6
  <1>8. decode_connect(f, beyond) =
            [p EXCEPT !.protocol_name = c_str(@), !.client_id = c_str(@), !.will_topic = c_str(@),
                      !.username = c_str(@), !.password = c_str(@)]
    BY <1>5, <1>7 DEF decode_connect
  <1> QED
    BY <1>1, <1>4, <1>8, ConnectAsC

-----------------------------------------------------------------------------
(* PUBLISH                                                                  *)

\* Topic, identifier if there is one, message.
IdentifierBytes(flags, id) == IF qos_of(flags, 1) \in {1, 2} THEN encode_uint16(id) ELSE <<>>

LEMMA PublishBytes ==
    ASSUME NEW p, p.type = "PUBLISH", p.topic \in Short, p.packet_identifier \in Word,
           p.application_message \in Bytes
    PROVE  \E e1 \in Bytes, e2 \in Bytes, e3 \in Bytes :
               /\ e1 = encode_utf8_string(p.topic)
               /\ e2 = IdentifierBytes(p.flags, p.packet_identifier)
               /\ e3 = p.application_message
               /\ client_body(p) = e1 \o e2 \o e3
  <1>1. PICK e1 \in Bytes : e1 = encode_utf8_string(p.topic)
    BY StringEncoded
  <1>2. PICK e2 \in Bytes : e2 = IdentifierBytes(p.flags, p.packet_identifier)
    <2>1. <<>> \in Bytes
      BY EmptyIsShort DEF Short
    <2>2. encode_uint16(p.packet_identifier) \in Bytes
      BY WordReadBack
    <2> QED
      BY <2>1, <2>2 DEF IdentifierBytes
  <1>3. PICK e3 \in Bytes : e3 = p.application_message
    OBVIOUS
  <1>4. client_body(p) = e1 \o e2 \o e3
    BY <1>1, <1>2, <1>3 DEF client_body, IdentifierBytes
  <1> QED
    BY <1>1, <1>2, <1>3, <1>4

\* The identifier a decoder finds is the one encoded, and the other way round.
IdentifierAt(flags, x, at) ==
    IF qos_of(flags, 1) \in {1, 2} THEN decode_uint16(x, at) ELSE [next |-> at, value |-> 0]

LEMMA IdentifierPiece ==
    ASSUME NEW x \in Bytes, NEW at \in Nat, at \in 0 .. Len(x) + 1, NEW flags, NEW d, d = IdentifierAt(flags, x, at)
    PROVE  /\ d.next \in Nat
           /\ d.next # 0 => d.value \in Word /\ at # 0
                            /\ Piece(x, at, d.next, IdentifierBytes(flags, d.value))
           /\ \A w \in Word, next \in Nat :
                  /\ Piece(x, at, next, IdentifierBytes(flags, w))
                  /\ qos_of(flags, 1) \notin {1, 2} => w = 0
                  => d = [next |-> next, value |-> w]
  <1>1. CASE qos_of(flags, 1) \in {1, 2}
    <2>1. d = decode_uint16(x, at) /\ \A w : IdentifierBytes(flags, w) = encode_uint16(w)
      BY <1>1 DEF IdentifierAt, IdentifierBytes
    <2>2. at = 0 => d.next = 0
      BY <2>1, NothingRead
    <2>3. /\ d.next \in Nat
          /\ d.next # 0 => d.value \in Word /\ Piece(x, at, d.next, encode_uint16(d.value))
          /\ \A w \in Word, next \in Nat :
                 Piece(x, at, next, encode_uint16(w)) => d = [next |-> next, value |-> w]
      BY <2>1, WordPiece
    <2>4. d.next # 0 => Piece(x, at, d.next, IdentifierBytes(flags, d.value))
      BY <2>1, <2>3
    <2>5. ASSUME NEW w \in Word, NEW next \in Nat, Piece(x, at, next, IdentifierBytes(flags, w))
          PROVE  d = [next |-> next, value |-> w]
      <3>1. Piece(x, at, next, encode_uint16(w))
        BY <2>1, <2>5
      <3> QED
        BY <2>3, <3>1
    <2> QED
      BY <2>2, <2>3, <2>4, <2>5
  <1>2. CASE qos_of(flags, 1) \notin {1, 2}
    <2>1. d = [next |-> at, value |-> 0] /\ \A w : IdentifierBytes(flags, w) = <<>>
      BY <1>2 DEF IdentifierAt, IdentifierBytes
    <2>2. 0 \in Word
      BY DEF Word, MAX_UINT16
    <2>3. at # 0 => Piece(x, at, at, <<>>)
      <3>1. Len(x) \in Nat
        BY DEF Bytes
      <3>2. at # 0 => at \in 1 .. Len(x) + 1
        BY <3>1
      <3> QED
        BY <3>2, EmptyPiece
    <2>4. d.next = at /\ d.value = 0
      BY <2>1
    <2>5. ASSUME NEW w \in Word, NEW next \in Nat, Piece(x, at, next, <<>>), w = 0
          PROVE  d = [next |-> next, value |-> w]
      BY <2>1, <2>5, EmptyPiece
    <2> QED
      BY <1>2, <2>1, <2>2, <2>3, <2>4, <2>5
  <1> QED
    BY <1>1, <1>2

LEMMA PublishIsItsParts ==
    ASSUME NEW f
    PROVE  \E t, w : /\ t = decode_utf8_string(f.body, 1)
                     /\ w = IdentifierAt(f.flags, f.body, t.next)
                     /\ publish_fields(f) =
                            IF w.next = 0 THEN Throws ELSE
                            [next |-> w.next,
                             value |-> [type |-> "PUBLISH", flags |-> f.flags,
                                        remaining_length |-> Len(f.body), topic |-> t.value,
                                        packet_identifier |-> w.value,
                                        application_message |-> SubSeq(f.body, w.next, Len(f.body))]]
  <1>1. PICK t : t = decode_utf8_string(f.body, 1)
    OBVIOUS
  <1>2. PICK w : w = IdentifierAt(f.flags, f.body, t.next)
    OBVIOUS
  <1>3. w = IF qos_of(f.flags, 1) \in {1, 2} THEN decode_uint16(f.body, t.next)
            ELSE [next |-> t.next, value |-> 0]
    BY <1>2 DEF IdentifierAt
  <1>4. publish_fields(f) =
            IF w.next = 0 THEN Throws ELSE
            [next |-> w.next,
             value |-> [type |-> "PUBLISH", flags |-> f.flags,
                        remaining_length |-> Len(f.body), topic |-> t.value,
                        packet_identifier |-> w.value,
                        application_message |-> SubSeq(f.body, w.next, Len(f.body))]]
    BY <1>1, <1>3 DEF publish_fields
  <1> QED
    BY <1>1, <1>2, <1>4

\* A PUBLISH accepted was encoded by a client.
LEMMA PublishAccepted ==
    ASSUME NEW f \in Frame, f.type = "PUBLISH", NEW p, p = decode_publish(f), p # malformed_mqtt_packet
    PROVE  f = client_encode(p)
  <1>1. PICK x \in Bytes : x = f.body
    BY DEF Frame
  <1>2. PICK t, w : /\ t = decode_utf8_string(x, 1)
                    /\ w = IdentifierAt(f.flags, x, t.next)
                    /\ publish_fields(f) =
                           IF w.next = 0 THEN Throws ELSE
                           [next |-> w.next,
                            value |-> [type |-> "PUBLISH", flags |-> f.flags, remaining_length |-> Len(x),
                                       topic |-> t.value, packet_identifier |-> w.value,
                                       application_message |-> SubSeq(x, w.next, Len(x))]]
    <2>1. \E t, w : /\ t = decode_utf8_string(f.body, 1)
                    /\ w = IdentifierAt(f.flags, f.body, t.next)
                    /\ publish_fields(f) =
                           IF w.next = 0 THEN Throws ELSE
                           [next |-> w.next,
                            value |-> [type |-> "PUBLISH", flags |-> f.flags,
                                       remaining_length |-> Len(f.body), topic |-> t.value,
                                       packet_identifier |-> w.value,
                                       application_message |-> SubSeq(f.body, w.next, Len(f.body))]]
      BY PublishIsItsParts
    <2> QED
      BY <1>1, <2>1
  <1>3. PICK m : m = SubSeq(x, w.next, Len(x))
    OBVIOUS
  <1>4. /\ w.next # 0
        /\ p = [type |-> "PUBLISH", flags |-> f.flags, remaining_length |-> Len(x), topic |-> t.value,
                packet_identifier |-> w.value, application_message |-> m]
    <2>1. PICK fields : fields = publish_fields(f)
      OBVIOUS
    <2>2. fields.next # 0 /\ p = fields.value
      BY <2>1 DEF decode_publish
    <2>3. w.next # 0
      BY <1>2, <2>1, <2>2 DEF Throws
    <2> QED
      BY <1>2, <1>3, <2>1, <2>2, <2>3
  <1>5. PICK one \in Nat, last \in Nat : one = 1 /\ last = Len(x) + 1
    BY DEF Bytes
  <1>6. t.next \in Nat /\ (t.next # 0 => t.value \in Short /\ Piece(x, one, t.next, encode_utf8_string(t.value)))
    BY <1>2, <1>5, StringPiece
  <1>7. PICK p1 \in Nat : p1 = t.next
    BY <1>6
  <1>8. p1 <= last
    <2>1. CASE p1 = 0
      BY <2>1
    <2>2. CASE p1 # 0
      <3>1. PICK e \in Bytes : e = encode_utf8_string(t.value)
        BY <1>6, <1>7, <2>2, StringEncoded
      <3>2. Piece(x, one, p1, e)
        BY <1>6, <1>7, <2>2, <3>1
      <3> QED
        BY <1>5, <3>2, PieceEnds
    <2> QED
      BY <2>1, <2>2
  <1>9. p1 \in 0 .. Len(x) + 1
    BY <1>5, <1>8
  <1>10. /\ w.next \in Nat /\ w.value \in Word /\ p1 # 0
         /\ Piece(x, p1, w.next, IdentifierBytes(f.flags, w.value))
    <2>1. w = IdentifierAt(f.flags, x, p1)
      BY <1>2, <1>7
    <2> QED
      BY <1>4, <1>9, <2>1, IdentifierPiece
  <1>11. PICK p2 \in Nat : p2 = w.next
    BY <1>10
  <1>12. PICK e2 \in Bytes : e2 = IdentifierBytes(f.flags, w.value)
    <2>1. <<>> \in Bytes
      BY EmptyIsShort DEF Short
    <2>2. encode_uint16(w.value) \in Bytes
      BY <1>10, WordReadBack
    <2> QED
      BY <2>1, <2>2 DEF IdentifierBytes
  <1>13. Piece(x, p1, p2, e2)
    BY <1>10, <1>11, <1>12
  <1>14. p2 \in 1 .. Len(x) + 1
    <2>1. p1 >= 1 /\ p1 <= p2 /\ p2 <= Len(x) + 1
      BY <1>13, PieceEnds
    <2> QED
      BY <1>5, <2>1
  <1>15. m \in Bytes /\ Piece(x, p2, last, m)
    <2>1. SubSeq(x, p2, Len(x)) \in Bytes
      BY <1>5, <1>14, RestPiece
    <2>2. PICK y \in Bytes : y = SubSeq(x, p2, Len(x))
      BY <2>1
    <2>3. Piece(x, p2, last, y)
      BY <1>5, <1>14, <2>2, RestPiece
    <2>4. m = y
      BY <1>3, <1>11, <2>2
    <2> QED
      BY <2>3, <2>4
  <1>16. PICK e1 \in Bytes : e1 = encode_utf8_string(t.value)
    BY <1>6, <1>7, <1>10, StringEncoded
  <1>17. Piece(x, one, p1, e1)
    BY <1>6, <1>7, <1>10, <1>16
  <1>18. x = e1 \o e2 \o m
    BY <1>5, <1>13, <1>15, <1>17, ThreePieces
  <1>19. /\ p.type = "PUBLISH" /\ p.flags = f.flags /\ p.topic = t.value
         /\ p.packet_identifier = w.value /\ p.application_message = m
    BY <1>4
  <1>20. client_body(p) = x
    <2>1. client_body(p) = encode_utf8_string(p.topic) \o IdentifierBytes(p.flags, p.packet_identifier)
                               \o p.application_message
      BY <1>19 DEF client_body, IdentifierBytes
    <2> QED
      BY <1>12, <1>16, <1>18, <1>19, <2>1
  <1>21. client_encode(p) = [type |-> "PUBLISH", flags |-> f.flags, body |-> x]
    BY <1>19, <1>20 DEF client_encode, flags_of
  <1>22. f = [type |-> f.type, flags |-> f.flags, body |-> f.body]
    BY DEF Frame
  <1> QED
    BY <1>1, <1>21, <1>22

LEMMA PublishLegal ==
    ASSUME NEW v \in clientPublish, Legal(v), NEW p, p = decode_publish(client_encode(v))
    PROVE  \A field \in DOMAIN v : p[field] = v[field]
  <1>1. PICK type, flags, name, id, message :
            /\ v = [type |-> type, flags |-> flags, topic |-> name, packet_identifier |-> id,
                    application_message |-> message]
            /\ type = "PUBLISH" /\ flags \in 0 .. 15 /\ name \in Short /\ id \in Word /\ message \in Bytes
            /\ qos_of(flags, 1) \notin {1, 2} => id = 0
    <2>1. v \in [type : {"PUBLISH"}, flags : 0 .. 15, topic : TopicString,
                 packet_identifier : Identifier \cup {0}, application_message : String]
          /\ (qos_of(v.flags, 1) \notin {1, 2} => v.packet_identifier = 0)
      BY DEF clientPublish
    <2>2. /\ v = [type |-> v.type, flags |-> v.flags, topic |-> v.topic,
                  packet_identifier |-> v.packet_identifier,
                  application_message |-> v.application_message]
          /\ v.type = "PUBLISH" /\ v.flags \in 0 .. 15 /\ v.topic \in TopicString
          /\ v.packet_identifier \in Identifier \cup {0} /\ v.application_message \in String
      BY <2>1
    <2>3. 0 \in Word
      BY DEF Word, MAX_UINT16
    <2>4. v.topic \in Short /\ v.packet_identifier \in Word /\ v.application_message \in Bytes
      BY <2>2, <2>3, Constants DEF Short
    <2> QED
      BY <2>1, <2>2, <2>4
  <1>2. PICK f : f = client_encode(v)
    OBVIOUS
  <1>3. /\ v.type = "PUBLISH" /\ v.flags = flags /\ v.topic = name
        /\ v.packet_identifier = id /\ v.application_message = message
    BY <1>1
  <1>4. PICK e1 \in Bytes, e2 \in Bytes, e3 \in Bytes :
            /\ e1 = encode_utf8_string(name) /\ e2 = IdentifierBytes(flags, id) /\ e3 = message
            /\ client_body(v) = e1 \o e2 \o e3
    BY <1>1, <1>3, PublishBytes
  <1>5. PICK x \in Bytes : x = e1 \o e2 \o e3
    <2>1. e1 \o e2 \in Bytes
      BY Joined
    <2> QED
      BY <2>1, Joined
  <1>6. f.flags = flags /\ f.body = x /\ f.type = "PUBLISH"
    BY <1>2, <1>3, <1>4, <1>5 DEF client_encode, flags_of
  <1>7. PICK one \in Nat, last \in Nat : one = 1 /\ last = Len(x) + 1
    <2>1. Len(x) \in Nat
      BY DEF Bytes
    <2> QED
      BY <2>1
  <1>8. PICK p1, p2 \in Nat : Piece(x, one, p1, e1) /\ Piece(x, p1, p2, e2) /\ Piece(x, p2, last, e3)
    BY <1>5, <1>7, ThreePieces
  <1>9. PICK t, w : /\ t = decode_utf8_string(x, 1)
                    /\ w = IdentifierAt(flags, x, t.next)
                    /\ publish_fields(f) =
                           IF w.next = 0 THEN Throws ELSE
                           [next |-> w.next,
                            value |-> [type |-> "PUBLISH", flags |-> flags, remaining_length |-> Len(x),
                                       topic |-> t.value, packet_identifier |-> w.value,
                                       application_message |-> SubSeq(x, w.next, Len(x))]]
    <2>1. \E t, w : /\ t = decode_utf8_string(f.body, 1)
                    /\ w = IdentifierAt(f.flags, f.body, t.next)
                    /\ publish_fields(f) =
                           IF w.next = 0 THEN Throws ELSE
                           [next |-> w.next,
                            value |-> [type |-> "PUBLISH", flags |-> f.flags,
                                       remaining_length |-> Len(f.body), topic |-> t.value,
                                       packet_identifier |-> w.value,
                                       application_message |-> SubSeq(f.body, w.next, Len(f.body))]]
      BY PublishIsItsParts
    <2> QED
      BY <1>6, <2>1
  <1>10. t = [next |-> p1, value |-> name]
    <2>1. t = decode_utf8_string(x, one) /\ Piece(x, one, p1, encode_utf8_string(name))
      BY <1>4, <1>7, <1>8, <1>9
    <2> QED
      BY <1>1, <2>1, StringPiece
  <1>11. p1 \in 0 .. Len(x) + 1
    <2>1. p1 <= Len(x) + 1
      BY <1>8, PieceEnds
    <2> QED
      BY <1>7, <2>1
  <1>12. w = [next |-> p2, value |-> id]
    <2>1. w = IdentifierAt(flags, x, p1)
      BY <1>9, <1>10
    <2>2. Piece(x, p1, p2, IdentifierBytes(flags, id))
      BY <1>4, <1>8
    <2> QED
      BY <1>1, <1>11, <2>1, <2>2, IdentifierPiece
  <1>13. p2 \in 1 .. Len(x) + 1
    <2>1. p2 >= 1 /\ p2 <= last
      BY <1>8, PieceEnds
    <2> QED
      BY <1>7, <2>1
  <1>14. SubSeq(x, p2, Len(x)) = message
    BY <1>4, <1>7, <1>8, <1>13, RestPiece
  <1>15. PICK fields :
             /\ fields = publish_fields(f) /\ fields.next = p2 /\ fields.next # 0
             /\ fields.value = [type |-> "PUBLISH", flags |-> flags, remaining_length |-> Len(x),
                                topic |-> name, packet_identifier |-> id, application_message |-> message]
    <2>1. w.next = p2 /\ w.next # 0 /\ w.value = id /\ t.value = name
      BY <1>10, <1>12, <1>13
    <2>2. publish_fields(f) =
              [next |-> p2,
               value |-> [type |-> "PUBLISH", flags |-> flags, remaining_length |-> Len(x),
                          topic |-> name, packet_identifier |-> id,
                          application_message |-> SubSeq(x, p2, Len(x))]]
      BY <1>9, <2>1
    <2>3. PICK fields : fields = publish_fields(f)
      OBVIOUS
    <2>4. fields.next = p2 /\ p2 # 0
      BY <1>13, <2>2, <2>3
    <2>5. fields.value = [type |-> "PUBLISH", flags |-> flags, remaining_length |-> Len(x),
                          topic |-> name, packet_identifier |-> id, application_message |-> message]
      BY <1>14, <2>2, <2>3
    <2> QED
      BY <2>3, <2>4, <2>5
  <1>16. ~refuses_flags(flags) /\ check_well_formed_topic_name(name)
    <2>1. LegalTopic(name) /\ qos_of(flags, 1) # 3 /\ (dup_of(flags) => qos_of(flags, 1) # 0)
      BY <1>3 DEF Legal
    <2>2. ~refuses_flags(flags)
      BY <2>1 DEF refuses_flags
    <2>3. check_well_formed_topic_name(name)
      <3>1. name # <<>> /\ ToSet(name) \cap {NUL, Plus, Hash} = {}
        BY <2>1 DEF LegalTopic
      <3>2. ASSUME NEW i \in DOMAIN name PROVE name[i] \notin {NUL, Plus, Hash}
        <4>1. name[i] \in ToSet(name)
          BY DEF ToSet
        <4> QED
          BY <3>1, <4>1
      <3> QED
        BY <3>1, <3>2 DEF check_well_formed_topic_name
    <2> QED
      BY <2>2, <2>3
  <1>17. p = fields.value
    <2>1. fields.value.topic = name
      BY <1>15
    <2> QED
      BY <1>2, <1>6, <1>15, <1>16, <2>1, Zenon DEF decode_publish
  <1>18. /\ p.type = "PUBLISH" /\ p.flags = flags /\ p.topic = name
         /\ p.packet_identifier = id /\ p.application_message = message
    BY <1>15, <1>17
  <1> QED
    BY <1>1, <1>18

-----------------------------------------------------------------------------
(* Lists                                                                    *)

\* One item more in front.
LEMMA Prepended ==
    ASSUME NEW V, NEW v \in V, NEW vs \in Seq(V), NEW u, u = <<v>> \o vs
    PROVE  /\ u \in Seq(V) /\ Len(u) = Len(vs) + 1 /\ u[1] = v
           /\ \A i \in 1 .. Len(vs) : u[i + 1] = vs[i]
  <1>1. <<v>> \in Seq(V) /\ Len(<<v>>) = 1 /\ <<v>>[1] = v
    OBVIOUS
  <1>2. PICK s \in Seq(V) : s = <<v>> /\ Len(s) = 1 /\ s[1] = v
    BY <1>1, Zenon
  <1>3. u = s \o vs
    BY <1>2
  <1>4. PICK n \in Nat : n = Len(vs)
    OBVIOUS
  <1>5. /\ u \in Seq(V) /\ Len(u) = 1 + n
        /\ \A i \in 1 .. 1 + n : u[i] = IF i <= 1 THEN s[i] ELSE vs[i - 1]
    BY <1>2, <1>3, <1>4, ConcatProperties
  <1>6. u[1] = v
    BY <1>2, <1>5
  <1>7. ASSUME NEW i \in 1 .. n PROVE u[i + 1] = vs[i]
    <2>1. i + 1 \in 1 .. 1 + n /\ ~(i + 1 <= 1) /\ i + 1 - 1 = i
      OBVIOUS
    <2> QED
      BY <1>5, <2>1
  <1> QED
    BY <1>2, <1>3, <1>4, <1>5, <1>6, <1>7

IsFront(vs, v, rest) == vs = <<v>> \o rest /\ Len(vs) = Len(rest) + 1

LEMMA TakenFromFront ==
    ASSUME NEW V, NEW vs \in Seq(V), vs # <<>>
    PROVE  \E v \in V, rest \in Seq(V) : IsFront(vs, v, rest)
  <1>1. PICK n \in Nat : n = Len(vs) /\ n >= 1
    BY EmptySeq
  <1>2. PICK v \in V : v = vs[1]
    BY <1>1
  <1>3. PICK rest \in Seq(V) : Len(rest) = n - 1 /\ \A i \in 1 .. n - 1 : rest[i] = vs[i + 1]
    <2>1. /\ Tail(vs) \in Seq(V) /\ Len(Tail(vs)) = Len(vs) - 1
          /\ \A i \in 1 .. Len(Tail(vs)) : Tail(vs)[i] = vs[i + 1]
      BY HeadTailProperties
    <2>2. PICK rest : rest = Tail(vs)
      OBVIOUS
    <2>3. /\ rest \in Seq(V) /\ Len(rest) = Len(vs) - 1
          /\ \A i \in 1 .. Len(rest) : rest[i] = vs[i + 1]
      BY <2>1, <2>2
    <2> QED
      BY <1>1, <2>3
  <1>9. PICK u : u = <<v>> \o rest
    OBVIOUS
  <1>4. /\ u \in Seq(V) /\ Len(u) = Len(rest) + 1 /\ u[1] = v
        /\ \A i \in 1 .. Len(rest) : u[i + 1] = rest[i]
    BY <1>9, Prepended
  <1>5. Len(u) = n /\ \A i \in 1 .. n - 1 : u[i + 1] = vs[i + 1]
    <2>1. PICK k \in Nat : k = n - 1 /\ k = Len(rest)
      BY <1>1, <1>3, SMTT(30)
    <2>2. Len(u) = n
      BY <1>4, <2>1
    <2>3. \A i \in 1 .. k : u[i + 1] = rest[i] /\ rest[i] = vs[i + 1]
      BY <1>3, <1>4, <2>1
    <2> QED
      BY <2>1, <2>2, <2>3
  <1>6. ASSUME NEW i \in 1 .. n PROVE u[i] = vs[i]
    <2>1. CASE i = 1
      BY <1>2, <1>4, <2>1
    <2>2. CASE i # 1
      <3>1. PICK j \in 1 .. n - 1 : i = j + 1
        <4>1. i - 1 \in 1 .. n - 1 /\ i = (i - 1) + 1
          BY <2>2
        <4> QED
          BY <4>1
      <3> QED
        BY <1>5, <3>1
    <2> QED
      BY <2>1, <2>2
  <1>7. u = vs
    <2>1. Len(u) = Len(vs) /\ \A i \in 1 .. Len(u) : u[i] = vs[i]
      BY <1>1, <1>5, <1>6
    <2> QED
      BY <1>4, <2>1, SeqEqual
  <1>8. Len(vs) = Len(rest) + 1
    BY <1>1, <1>3
  <1> QED
    BY <1>7, <1>8, <1>9 DEF IsFront

LEMMA FlattenPrepended ==
    ASSUME NEW b \in Bytes, NEW bs \in Seq(Bytes)
    PROVE  FlattenSeq(<<b>> \o bs) = b \o FlattenSeq(bs)
  <1>1. PICK n \in Nat : n = Len(bs)
    OBVIOUS
  <1>7. PICK y : y = <<b>> \o bs
    OBVIOUS
  <1>2. y \in Seq(Bytes) /\ Len(y) = n + 1 /\ y[1] = b /\ \A i \in 1 .. n : y[i + 1] = bs[i]
    BY <1>1, <1>7, Prepended
  <1>3. PICK g : /\ \A i \in 1 .. n + 1 : g[i] = FlattenStep(y, g, i)
                 /\ FlattenSeq(y) = g[n + 1]
    <2>1. Len(y) \in Nat /\ Len(y) >= 1
      BY <1>2
    <2> QED
      BY <1>2, <2>1, FlattenIs
  <1>4. g[1] = b
    BY <1>2, <1>3 DEF FlattenStep
  <1>5. CASE n = 0
    <2>1. bs = <<>>
      BY <1>1, <1>5, EmptySeq
    <2>2. FlattenSeq(bs) = bs
      BY <1>1, <1>5, Zenon DEF FlattenSeq
    <2>3. b \in Seq(Octet)
      BY DEF Bytes
    <2>4. b \o <<>> = b
      BY <2>3, ConcatEmptySeq
    <2>5. FlattenSeq(y) = b
      BY <1>3, <1>4, <1>5
    <2> QED
      BY <1>7, <2>1, <2>2, <2>4, <2>5
  <1>6. CASE n # 0
    <2>1. PICK f : /\ \A i \in 1 .. n : f[i] = FlattenStep(bs, f, i)
                   /\ FlattenSeq(bs) = f[n]
      BY <1>1, <1>6, FlattenIs
    <2>2. \A i \in 1 .. n : bs[i] \in Bytes
      BY <1>1
    <2> DEFINE P == {i \in 1 .. n : f[i] \in Bytes /\ g[i + 1] = b \o f[i]}
    <2>3. 1 \in P
      <3>1. PICK i \in 1 .. n : i = 1
        BY <1>6
      <3>2. f[i] = bs[i]
        BY <2>1, <3>1 DEF FlattenStep
      <3>3. g[i + 1] = g[i] \o y[i + 1]
        <4>1. i + 1 \in 1 .. n + 1 /\ i \in Nat /\ i >= 1
          OBVIOUS
        <4>2. FlattenStep(y, g, i + 1) = g[i] \o y[i + 1]
          BY <4>1, FlattenLater
        <4> QED
          BY <1>3, <4>1, <4>2
      <3>4. y[i + 1] = bs[i] /\ g[i] = b
        BY <1>2, <1>4, <3>1
      <3> QED
        BY <2>2, <3>1, <3>2, <3>3, <3>4
    <2>4. ASSUME NEW j \in 1 .. n, j < n, j \in P PROVE j + 1 \in P
      <3>1. PICK k \in 1 .. n : k = j + 1 /\ k \in 1 .. n + 1 /\ k + 1 \in 1 .. n + 1
        BY <2>4
      <3>2. f[k] = f[j] \o bs[k]
        <4>1. FlattenStep(bs, f, j + 1) = f[j] \o bs[j + 1]
          <5>1. j \in Nat /\ j >= 1
            OBVIOUS
          <5> HIDE DEF P
          <5> QED
            BY <5>1, FlattenLater
        <4> QED
          BY <2>1, <3>1, <4>1
      <3>3. g[k + 1] = g[k] \o y[k + 1]
        <4>1. FlattenStep(y, g, k + 1) = g[k] \o y[k + 1]
          <5>1. k \in Nat /\ k >= 1
            OBVIOUS
          <5> HIDE DEF P
          <5> QED
            BY <5>1, FlattenLater
        <4> QED
          BY <1>3, <3>1, <4>1
      <3>4. PICK s \in Bytes, t \in Bytes : s = f[j] /\ t = bs[k]
        BY <2>2, <2>4
      <3>5. g[k] = b \o s /\ y[k + 1] = t
        BY <1>2, <2>4, <3>1, <3>4
      <3>6. b \in Seq(Octet) /\ s \in Seq(Octet) /\ t \in Seq(Octet)
        BY DEF Bytes
      <3>7. (b \o s) \o t = b \o (s \o t)
        BY <3>6, ConcatAssociative
      <3>8. s \o t \in Bytes
        BY Joined
      <3> QED
        BY <3>1, <3>2, <3>3, <3>4, <3>5, <3>7, <3>8
    <2>5. n \in P
      <3>1. \A j \in 1 .. n : j < n /\ j \in P => j + 1 \in P
        BY <2>4
      <3> HIDE DEF P
      <3> QED
        BY <1>6, <2>3, <3>1, Forwards
    <2> QED
      BY <1>3, <1>7, <2>1, <2>5
  <1> QED
    BY <1>5, <1>6

\* A list's bytes: those of its items, given by code.
Codes(code, vs) == [i \in DOMAIN vs |-> code[vs[i]]]

LEMMA CodesAre ==
    ASSUME NEW V, NEW code \in [V -> Bytes], NEW vs \in Seq(V), NEW c, c = Codes(code, vs)
    PROVE  c \in Seq(Bytes) /\ Len(c) = Len(vs) /\ \A i \in 1 .. Len(vs) : c[i] = code[vs[i]]
  <1>1. PICK n \in Nat : n = Len(vs) /\ DOMAIN vs = 1 .. n
    OBVIOUS
  <1>2. \A i \in 1 .. n : code[vs[i]] \in Bytes
    BY <1>1
  <1>3. c \in [1 .. n -> Bytes] /\ \A i \in 1 .. n : c[i] = code[vs[i]]
    BY <1>1, <1>2 DEF Codes
  <1>4. c \in Seq(Bytes) /\ Len(c) = n
    BY <1>3
  <1> QED
    BY <1>1, <1>3, <1>4

LEMMA NoCodes ==
    ASSUME NEW code
    PROVE  FlattenSeq(Codes(code, <<>>)) = <<>>
  <1>1. Codes(code, <<>>) = <<>> /\ Len(<<>>) = 0
    BY DEF Codes
  <1> QED
    BY <1>1, Zenon DEF FlattenSeq

LEMMA CodesPrepended ==
    ASSUME NEW V, NEW code \in [V -> Bytes], NEW v \in V, NEW vs \in Seq(V)
    PROVE  /\ FlattenSeq(Codes(code, vs)) \in Bytes
           /\ FlattenSeq(Codes(code, <<v>> \o vs)) = code[v] \o FlattenSeq(Codes(code, vs))
  <1>1. PICK n \in Nat : n = Len(vs)
    OBVIOUS
  <1>11. PICK us : us = <<v>> \o vs
    OBVIOUS
  <1>2. us \in Seq(V) /\ Len(us) = n + 1 /\ us[1] = v /\ \A i \in 1 .. n : us[i + 1] = vs[i]
    BY <1>1, <1>11, Prepended
  <1>3. PICK b \in Bytes : b = code[v]
    OBVIOUS
  <1>12. PICK cs, ds : cs = Codes(code, vs) /\ ds = Codes(code, us)
    OBVIOUS
  <1>4. cs \in Seq(Bytes) /\ Len(cs) = n /\ \A i \in 1 .. n : cs[i] = code[vs[i]]
    BY <1>1, <1>12, CodesAre
  <1>5. ds \in Seq(Bytes) /\ Len(ds) = n + 1 /\ \A i \in 1 .. n + 1 : ds[i] = code[us[i]]
    <2>1. ds \in Seq(Bytes) /\ Len(ds) = Len(us) /\ \A i \in 1 .. Len(us) : ds[i] = code[us[i]]
      <3>1. ASSUME NEW ws \in Seq(V)
            PROVE  /\ Codes(code, ws) \in Seq(Bytes) /\ Len(Codes(code, ws)) = Len(ws)
                   /\ \A i \in 1 .. Len(ws) : Codes(code, ws)[i] = code[ws[i]]
        BY CodesAre
      <3>2. us \in Seq(V) /\ ds = Codes(code, us)
        BY <1>2, <1>12
      <3> QED
        BY <3>1, <3>2
    <2> QED
      BY <1>2, <2>1
  <1>13. PICK es : es = <<b>> \o cs
    OBVIOUS
  <1>6. es \in Seq(Bytes) /\ Len(es) = n + 1 /\ es[1] = b /\ \A i \in 1 .. n : es[i + 1] = cs[i]
    BY <1>4, <1>13, Prepended
  <1>7. ASSUME NEW i \in 1 .. n + 1 PROVE ds[i] = es[i]
    <2>1. CASE i = 1
      BY <1>2, <1>3, <1>5, <1>6, <2>1
    <2>2. CASE i # 1
      <3>1. PICK j \in 1 .. n : i = j + 1
        <4>1. i - 1 \in 1 .. n /\ i = (i - 1) + 1
          BY <2>2
        <4> QED
          BY <4>1
      <3>2. ds[i] = code[vs[j]] /\ es[i] = cs[j] /\ cs[j] = code[vs[j]]
        BY <1>2, <1>4, <1>5, <1>6, <3>1
      <3> QED
        BY <3>2
    <2> QED
      BY <2>1, <2>2
  <1>8. ds = es
    BY <1>5, <1>6, <1>7, SeqEqual
  <1>9. FlattenSeq(es) = b \o FlattenSeq(cs)
    BY <1>4, <1>13, FlattenPrepended
  <1>10. FlattenSeq(cs) \in Bytes
    BY <1>4, FlattenBytes
  <1> QED
    BY <1>3, <1>8, <1>9, <1>10, <1>11, <1>12

\* A list decoded to the end of the body is what its items are encoded to.
LEMMA ListAccepted ==
    ASSUME NEW x \in Bytes, NEW item, Advances(Len(x), item), NEW V, NEW code \in [V -> Bytes],
           \A at \in 1 .. Len(x) : item[at].next # 0 =>
               item[at].value \in V /\ Piece(x, at, item[at].next, code[item[at].value]),
           NEW start \in 1 .. Len(x) + 1, NEW last \in Nat, last = Len(x) + 1,
           NEW list, list = decode_list(x, start, item), list.value # <<>>
    PROVE  list.value \in Seq(V) /\ Piece(x, start, last, FlattenSeq(Codes(code, list.value)))
  <1>1. PICK N \in Nat : N = Len(x)
    BY DEF Bytes
  <1>2. PICK from : /\ from[N + 1] = [next |-> N + 1, value |-> <<>>]
                    /\ \A at \in 1 .. N : from[at] = ItemStep(from, item[at])
                    /\ list = from[start]
    BY <1>1, DecodeList
  <1> DEFINE Listed(at) == /\ from[at].value \in Seq(V)
                           /\ Piece(x, at, last, FlattenSeq(Codes(code, from[at].value)))
             Right(at) == \/ from[at].next = 0 /\ from[at].value = <<>>
                          \/ from[at].next # 0 /\ Listed(at)
             P == {at \in 1 .. N + 1 : \A j \in at .. N + 1 : Right(j)}
  <1>3. Right(N + 1)
    <2>1. from[N + 1].next # 0 /\ from[N + 1].value = <<>>
      BY <1>2
    <2>2. <<>> \in Seq(V) /\ FlattenSeq(Codes(code, <<>>)) = <<>>
      BY NoCodes, EmptySeq
    <2>3. last \in 1 .. Len(x) + 1
      BY <1>1
    <2>4. Piece(x, last, last, <<>>)
      BY <2>3, EmptyPiece
    <2> QED
      BY <1>1, <2>1, <2>2, <2>4
  <1>4. ASSUME NEW i \in 1 .. N + 1, i < N + 1, i + 1 \in P PROVE i \in P
    <2>1. PICK one : one = item[i]
      OBVIOUS
    <2>2. i \in 1 .. N
      BY <1>4
    <2>3. from[i] = ItemStep(from, one)
      BY <1>2, <2>1, <2>2
    <2>4. from[i] = IF one.next = 0 \/ from[one.next].next = 0 THEN Throws
                    ELSE [next |-> from[one.next].next, value |-> <<one.value>> \o from[one.next].value]
      BY <2>3, Zenon DEF ItemStep
    <2>5. Right(i)
      <3>1. CASE one.next = 0 \/ from[one.next].next = 0
        BY <2>4, <3>1 DEF Throws
      <3>2. CASE ~(one.next = 0 \/ from[one.next].next = 0)
        <4>1. PICK b \in Nat : b = one.next /\ b \in i + 1 .. N + 1
          <5>1. one.next \in i + 1 .. N + 1
            BY <1>1, <2>1, <2>2, <3>2 DEF Advances
          <5> QED
            BY <5>1
        <4>2. from[b].next # 0 /\ Listed(b)
          <5>1. Right(b)
            BY <1>4, <4>1
          <5> QED
            BY <3>2, <4>1, <5>1
        <4>3. PICK v \in V : v = one.value /\ Piece(x, i, b, code[v])
          BY <1>1, <2>1, <2>2, <3>2, <4>1
        <4>4. PICK vs \in Seq(V) : vs = from[b].value /\ Piece(x, b, last, FlattenSeq(Codes(code, vs)))
          BY <4>2
        <4>5. PICK c \in Bytes : c = code[v]
          OBVIOUS
        <4>6. PICK us : us = <<v>> \o vs
          OBVIOUS
        <4>7. us \in Seq(V)
          BY <4>6, Prepended
        <4>8. PICK t \in Bytes : t = FlattenSeq(Codes(code, vs)) /\ FlattenSeq(Codes(code, us)) = c \o t
          <5>1. /\ FlattenSeq(Codes(code, vs)) \in Bytes
                /\ FlattenSeq(Codes(code, <<v>> \o vs)) = code[v] \o FlattenSeq(Codes(code, vs))
            BY CodesPrepended
          <5> QED
            BY <4>5, <4>6, <5>1
        <4>9. PICK at \in Nat : at = i
          BY <2>2
        <4>10. Piece(x, at, last, c \o t)
          <5>1. Piece(x, at, b, c) /\ Piece(x, b, last, t)
            BY <4>3, <4>4, <4>5, <4>8, <4>9
          <5> QED
            BY <5>1, PieceJoined
        <4>11. from[i].next # 0 /\ from[i].value = us
          <5>1. from[i] = [next |-> from[one.next].next, value |-> <<one.value>> \o from[one.next].value]
            BY <2>4, <3>2
          <5>2. from[i] = [next |-> from[b].next, value |-> us]
            BY <4>1, <4>3, <4>4, <4>6, <5>1
          <5> QED
            BY <4>2, <5>2
        <4> QED
          BY <4>7, <4>8, <4>9, <4>10, <4>11
      <3> QED
        BY <3>1, <3>2
    <2>6. \A j \in i .. N + 1 : j = i \/ j \in i + 1 .. N + 1
      OBVIOUS
    <2> HIDE DEF Right
    <2> QED
      BY <1>4, <2>5, <2>6
  <1>5. start \in P
    <2>1. N + 1 \in P
      <3> HIDE DEF Right
      <3>1. \A j \in N + 1 .. N + 1 : j = N + 1
        OBVIOUS
      <3> QED
        BY <1>3, <3>1
    <2>2. \A i \in 1 .. N + 1 : i < N + 1 /\ i + 1 \in P => i \in P
      BY <1>4
    <2> HIDE DEF P
    <2>3. PICK n \in Nat : n = N + 1
      OBVIOUS
    <2>4. \A i \in 1 .. n : i \in P
      BY <2>1, <2>2, <2>3, Backwards
    <2> QED
      BY <1>1, <2>3, <2>4
  <1>6. Right(start)
    <2> HIDE DEF Right
    <2> QED
      BY <1>1, <1>5
  <1> QED
    BY <1>2, <1>6

\* What a client encodes the loop decodes, if it does each item.
LEMMA ListLegal ==
    ASSUME NEW x \in Bytes, NEW item, Advances(Len(x), item), NEW V, NEW code \in [V -> Bytes],
           \A at \in 1 .. Len(x), v \in V, next \in Nat :
               Piece(x, at, next, code[v]) => item[at] = [next |-> next, value |-> v],
           \A v \in V : Len(code[v]) >= 1,
           NEW start \in 1 .. Len(x) + 1, NEW last \in Nat, last = Len(x) + 1,
           NEW vs \in Seq(V), Piece(x, start, last, FlattenSeq(Codes(code, vs)))
    PROVE  decode_list(x, start, item) = [next |-> last, value |-> vs]
  <1>1. PICK N \in Nat : N = Len(x) /\ last = N + 1
    BY DEF Bytes
  <1>2. PICK from : /\ from[N + 1] = [next |-> N + 1, value |-> <<>>]
                    /\ \A at \in 1 .. N : from[at] = ItemStep(from, item[at])
                    /\ decode_list(x, start, item) = from[start]
    BY <1>1, DecodeList
  <1> DEFINE ReadsOff(ws, at) == Piece(x, at, last, FlattenSeq(Codes(code, ws)))
                                 => from[at] = [next |-> last, value |-> ws]
             Right(k) == \A ws \in Seq(V) : Len(ws) = k => \A at \in 1 .. N + 1 : ReadsOff(ws, at)
             P == {j \in 1 .. Len(vs) + 1 : Right(j - 1)}
  <1>3. ASSUME NEW ws \in Seq(V), Len(ws) = 0, NEW at \in 1 .. N + 1 PROVE ReadsOff(ws, at)
    <2>1. ws = <<>> /\ FlattenSeq(Codes(code, ws)) = <<>>
      BY <1>3, EmptySeq, NoCodes
    <2>2. at \in Nat
      OBVIOUS
    <2>3. Piece(x, at, last, <<>>) => last = at
      BY <2>2, EmptyPiece
    <2> QED
      BY <1>1, <1>2, <2>1, <2>3
  <1>4. ASSUME NEW k \in Nat, Right(k), NEW ws \in Seq(V), Len(ws) = k + 1, NEW at \in 1 .. N + 1,
               Piece(x, at, last, FlattenSeq(Codes(code, ws)))
        PROVE  from[at] = [next |-> last, value |-> ws]
    <2>17. PICK v \in V, rest \in Seq(V) : IsFront(ws, v, rest)
      <3>1. ws # <<>>
        BY <1>4, EmptySeq
      <3> HIDE DEF Right
      <3> QED
        BY <3>1, TakenFromFront
    <2>1. ws = <<v>> \o rest /\ Len(ws) = Len(rest) + 1
      BY <2>17 DEF IsFront
    <2>2. Len(rest) = k
      BY <1>4, <2>1
    <2>3. PICK c \in Bytes : c = code[v]
      OBVIOUS
    <2>4. PICK t \in Bytes : t = FlattenSeq(Codes(code, rest)) /\ FlattenSeq(Codes(code, ws)) = c \o t
      <3> HIDE DEF Right
      <3>1. /\ FlattenSeq(Codes(code, rest)) \in Bytes
            /\ FlattenSeq(Codes(code, <<v>> \o rest)) = code[v] \o FlattenSeq(Codes(code, rest))
        BY CodesPrepended
      <3> QED
        BY <2>1, <2>3, <3>1
    <2>5. PICK a \in Nat : a = at
      OBVIOUS
    <2>6. PICK b \in Nat : Piece(x, a, b, c) /\ Piece(x, b, last, t)
      <3>1. Piece(x, a, last, c \o t)
        BY <1>4, <2>4, <2>5
      <3> HIDE DEF Right
      <3> QED
        BY <3>1, PieceSplit
    <2>7. Len(c) \in Nat /\ Len(c) >= 1 /\ Len(t) \in Nat
      BY <2>3 DEF Bytes
    <2>8. b = a + Len(c) /\ last = b + Len(t)
      BY <2>6 DEF Piece
    <2>9. at \in 1 .. N /\ b \in 1 .. N + 1 /\ b # 0 /\ at # N + 1
      BY <1>1, <2>5, <2>7, <2>8
    <2>10. item[at] = [next |-> b, value |-> v]
      BY <1>1, <2>3, <2>5, <2>6, <2>9
    <2>11. from[b] = [next |-> last, value |-> rest]
      BY <1>4, <2>2, <2>4, <2>6, <2>9
    <2>16. PICK one : one = item[at]
      OBVIOUS
    <2>12. one.next = b /\ one.value = v
      BY <2>10, <2>16
    <2>13. from[at] = IF one.next = 0 \/ from[one.next].next = 0 THEN Throws
                      ELSE [next |-> from[one.next].next, value |-> <<one.value>> \o from[one.next].value]
      <3>1. from[at] = ItemStep(from, one)
        BY <1>2, <2>9, <2>16
      <3> QED
        BY <3>1, Zenon DEF ItemStep
    <2>14. from[b].next = last /\ from[b].value = rest /\ last # 0
      BY <1>1, <2>11
    <2>15. from[at] = [next |-> last, value |-> <<v>> \o rest]
      BY <2>9, <2>12, <2>13, <2>14
    <2> QED
      BY <2>1, <2>15
  <1>5. PICK n \in Nat : n = Len(vs) + 1 /\ n >= 1
    OBVIOUS
  <1>6. n \in P
    <2>1. 1 \in P
      <3>1. Right(0)
        BY <1>3
      <3> HIDE DEF Right
      <3> QED
        BY <1>5, <3>1
    <2>2. ASSUME NEW j \in 1 .. n, j < n, j \in P PROVE j + 1 \in P
      <3>1. PICK k \in Nat : k = j - 1
        OBVIOUS
      <3>2. Right(k)
        BY <2>2, <3>1
      <3>3. Right(k + 1)
        BY <1>4, <3>2
      <3>4. (j + 1) - 1 = k + 1 /\ j + 1 \in 1 .. Len(vs) + 1
        BY <1>5, <2>2, <3>1
      <3> HIDE DEF Right
      <3> QED
        BY <3>3, <3>4
    <2>3. \A j \in 1 .. n : j < n /\ j \in P => j + 1 \in P
      BY <2>2
    <2> HIDE DEF P
    <2> QED
      BY <1>5, <2>1, <2>3, Forwards
  <1>7. Right(Len(vs))
    <2>1. n - 1 = Len(vs)
      BY <1>5
    <2> HIDE DEF Right
    <2> QED
      BY <1>6, <2>1
  <1> QED
    BY <1>1, <1>2, <1>7

-----------------------------------------------------------------------------
(* UNSUBSCRIBE                                                              *)

\* Both bodies have an identifier and a list.
IsListBody(x, id, p1, last, e2) ==
    /\ p1 \in 1 .. Len(x) + 1
    /\ decode_uint16(x, 1) = [next |-> p1, value |-> id]
    /\ Piece(x, p1, last, e2)

LEMMA ListBody ==
    ASSUME NEW x \in Bytes, NEW id \in Word, NEW e1 \in Bytes, e1 = encode_uint16(id), NEW e2 \in Bytes,
           x = e1 \o e2, NEW last \in Nat, last = Len(x) + 1
    PROVE  \E p1 \in Nat : IsListBody(x, id, p1, last, e2)
  <1>1. PICK one \in Nat : one = 1
    OBVIOUS
  <1>2. PICK p1 \in Nat : Piece(x, one, p1, e1) /\ Piece(x, p1, last, e2)
    <2>1. Piece(x, 1, last, x)
      BY PieceWhole
    <2>2. Piece(x, one, last, e1 \o e2)
      BY <1>1, <2>1
    <2> QED
      BY <2>2, PieceSplit
  <1>3. decode_uint16(x, one) = [next |-> p1, value |-> id]
    <2>1. Piece(x, one, p1, encode_uint16(id))
      BY <1>2
    <2> QED
      BY <2>1, WordPiece
  <1>4. one <= p1 /\ p1 <= Len(x) + 1
    BY <1>2, PieceEnds
  <1>5. p1 \in 1 .. Len(x) + 1
    BY <1>1, <1>4
  <1> QED
    BY <1>1, <1>2, <1>3, <1>5 DEF IsListBody

\* The items are strings.
StringCode == [s \in Short |-> encode_utf8_string(s)]

StringItems(x) == [at \in DOMAIN x |-> decode_utf8_string(x, at)]

LEMMA StringItem ==
    ASSUME NEW x \in Bytes, NEW item, item = StringItems(x)
    PROVE  /\ StringCode \in [Short -> Bytes]
           /\ \A s \in Short : StringCode[s] = encode_utf8_string(s) /\ Len(StringCode[s]) >= 1
           /\ Advances(Len(x), item)
           /\ \A at \in 1 .. Len(x) : item[at].next # 0 =>
                  item[at].value \in Short /\ Piece(x, at, item[at].next, StringCode[item[at].value])
           /\ \A at \in 1 .. Len(x), s \in Short, next \in Nat :
                  Piece(x, at, next, StringCode[s]) => item[at] = [next |-> next, value |-> s]
  <1>1. PICK N \in Nat : N = Len(x) /\ DOMAIN x = 1 .. N
    BY DEF Bytes
  <1>2. \A s \in Short : encode_utf8_string(s) \in Bytes
    BY StringEncoded
  <1>3. StringCode \in [Short -> Bytes] /\ \A s \in Short : StringCode[s] = encode_utf8_string(s)
    BY <1>2 DEF StringCode
  <1>4. ASSUME NEW s \in Short PROVE Len(encode_utf8_string(s)) >= 1
    <2>1. PICK w \in Bytes, t \in Bytes : w = encode_uint16(Len(s)) /\ Len(w) = 2 /\ t = s
      BY LengthIsWord, WordReadBack DEF Short
    <2>5. Len(w \o t) = Len(w) + Len(t)
      BY ConcatHolds
    <2>6. Len(t) \in Nat
      BY DEF Bytes
    <2>2. Len(w \o t) = 2 + Len(t) /\ Len(t) \in Nat
      BY <2>1, <2>5, <2>6
    <2>3. encode_utf8_string(s) = w \o t
      BY <2>1 DEF encode_utf8_string
    <2> QED
      BY <2>2, <2>3
  <1>5. ASSUME NEW at \in 1 .. N
        PROVE  /\ item[at] = decode_utf8_string(x, at)
               /\ item[at].next = 0 \/ item[at].next \in at + 1 .. N + 1
               /\ item[at].next # 0 =>
                      item[at].value \in Short /\ Piece(x, at, item[at].next, encode_utf8_string(item[at].value))
               /\ \A s \in Short, next \in Nat :
                      Piece(x, at, next, encode_utf8_string(s)) => item[at] = [next |-> next, value |-> s]
    <2>1. PICK d : d = decode_utf8_string(x, at)
      OBVIOUS
    <2>2. item[at] = d
      BY <1>1, <2>1 DEF StringItems
    <2>3. at \in Nat
      OBVIOUS
    <2>4. /\ d.next # 0 => d.value \in Short /\ Piece(x, at, d.next, encode_utf8_string(d.value))
          /\ \A s \in Short, next \in Nat :
                 Piece(x, at, next, encode_utf8_string(s)) => d = [next |-> next, value |-> s]
      BY <2>1, <2>3, StringPiece
    <2>5. d.next = 0 \/ d.next \in at + 1 .. N + 1
      <3>1. CASE d = Throws
        BY <3>1 DEF Throws
      <3>2. ASSUME NEW n \in Word, IsString(d, x, at, n) PROVE d.next \in at + 1 .. N + 1
        <4>1. n \in Nat
          BY DEF Word
        <4>2. d.next = at + 2 + n /\ at + 1 + n <= N
          BY <1>1, <3>2 DEF IsString
        <4> QED
          BY <4>1, <4>2
      <3> QED
        BY <2>1, <2>3, <3>1, <3>2, DecodeString
    <2> QED
      BY <2>1, <2>2, <2>4, <2>5
  <1>6. Advances(Len(x), item)
    BY <1>1, <1>5 DEF Advances
  <1>7. ASSUME NEW at \in 1 .. N, item[at].next # 0
        PROVE  item[at].value \in Short /\ Piece(x, at, item[at].next, StringCode[item[at].value])
    BY <1>3, <1>5, <1>7
  <1>8. ASSUME NEW at \in 1 .. N, NEW s \in Short, NEW next \in Nat, Piece(x, at, next, StringCode[s])
        PROVE  item[at] = [next |-> next, value |-> s]
    <2>1. Piece(x, at, next, encode_utf8_string(s))
      BY <1>3, <1>8
    <2> QED
      BY <1>5, <2>1
  <1> QED
    BY <1>1, <1>3, <1>4, <1>6, <1>7, <1>8

UnsubscribeList(x) == decode_list(x, decode_uint16(x, 1).next, StringItems(x))

LEMMA UnsubscribeIs ==
    ASSUME NEW f, NEW p, p = decode_unsubscribe(f), NEW list, list = UnsubscribeList(f.body)
    PROVE  p = IF f.flags # 2 \/ list.value = <<>> THEN malformed_mqtt_packet
               ELSE [type |-> "UNSUBSCRIBE", packet_identifier |-> decode_uint16(f.body, 1).value,
                     topic_filters |-> list.value]
  BY DEF decode_unsubscribe, UnsubscribeList, StringItems

LEMMA UnsubscribeBody ==
    ASSUME NEW p, p.type = "UNSUBSCRIBE", NEW vs \in Seq(Short), vs = p.topic_filters
    PROVE  client_body(p) = encode_uint16(p.packet_identifier) \o FlattenSeq(Codes(StringCode, vs))
  <1>1. client_body(p) = encode_uint16(p.packet_identifier)
                             \o FlattenSeq([i \in DOMAIN vs |-> encode_utf8_string(vs[i])])
    BY DEF client_body
  <1>2. \A i \in DOMAIN vs : vs[i] \in Short
    OBVIOUS
  <1>3. \A i \in DOMAIN vs : StringCode[vs[i]] = encode_utf8_string(vs[i])
    BY <1>2 DEF StringCode
  <1>4. Codes(StringCode, vs) = [i \in DOMAIN vs |-> encode_utf8_string(vs[i])]
    BY <1>3 DEF Codes
  <1> QED
    BY <1>1, <1>4

LEMMA UnsubscribeAccepted ==
    ASSUME NEW f \in Frame, f.type = "UNSUBSCRIBE", NEW p, p = decode_unsubscribe(f), p # malformed_mqtt_packet
    PROVE  f = client_encode(p)
  <1>1. PICK x \in Bytes : x = f.body
    BY DEF Frame
  <1>2. PICK id : id = decode_uint16(x, 1)
    OBVIOUS
  <1>3. PICK item : item = StringItems(x)
    OBVIOUS
  <1>4. PICK list : list = decode_list(x, id.next, item)
    OBVIOUS
  <1>5. /\ f.flags = 2 /\ list.value # <<>>
        /\ p = [type |-> "UNSUBSCRIBE", packet_identifier |-> id.value, topic_filters |-> list.value]
    <2>1. list = UnsubscribeList(f.body)
      BY <1>1, <1>2, <1>3, <1>4 DEF UnsubscribeList
    <2> QED
      BY <1>1, <1>2, <2>1, UnsubscribeIs
  <1>6. id.next # 0
    BY <1>4, <1>5, Zenon DEF decode_list, Throws
  <1>7. PICK one \in Nat, last \in Nat : one = 1 /\ last = Len(x) + 1
    BY DEF Bytes
  <1>8. PICK p1 \in Nat : p1 = id.next /\ id.value \in Word /\ Piece(x, one, p1, encode_uint16(id.value))
    <2>1. id = decode_uint16(x, one)
      BY <1>2, <1>7
    <2> QED
      BY <1>6, <2>1, WordPiece
  <1>9. PICK e1 \in Bytes : e1 = encode_uint16(id.value)
    BY <1>8, WordReadBack
  <1>10. p1 \in 1 .. Len(x) + 1
    <2>1. Piece(x, one, p1, e1)
      BY <1>8, <1>9
    <2>2. p1 <= Len(x) + 1 /\ one <= p1
      BY <2>1, PieceEnds
    <2> QED
      BY <1>7, <2>2
  <1>11. PICK code \in [Short -> Bytes] : code = StringCode
    BY StringItem
  <1>12. /\ Advances(Len(x), item)
         /\ \A at \in 1 .. Len(x) : item[at].next # 0 =>
                item[at].value \in Short /\ Piece(x, at, item[at].next, code[item[at].value])
    BY <1>3, <1>11, StringItem
  <1>13. list = decode_list(x, p1, item)
    BY <1>4, <1>8
  <1>14. list.value \in Seq(Short) /\ Piece(x, p1, last, FlattenSeq(Codes(code, list.value)))
    BY <1>5, <1>7, <1>10, <1>12, <1>13, ListAccepted
  <1>15. PICK vs \in Seq(Short) : vs = list.value
    BY <1>14
  <1>16. PICK e2 \in Bytes : e2 = FlattenSeq(Codes(code, vs))
    <2>1. PICK cs : cs = Codes(code, vs)
      OBVIOUS
    <2>2. cs \in Seq(Bytes)
      BY <2>1, CodesAre
    <2> QED
      BY <2>1, <2>2, FlattenBytes
  <1>17. x = e1 \o e2
    <2>1. Piece(x, one, p1, e1) /\ Piece(x, p1, last, e2)
      BY <1>8, <1>9, <1>14, <1>15, <1>16
    <2>2. PICK s \in Bytes : s = e1 \o e2
      BY Joined
    <2>3. Piece(x, one, last, s)
      BY <2>1, <2>2, PieceJoined
    <2>4. Piece(x, 1, last, s) /\ last = Len(x) + 1
      BY <1>7, <2>3
    <2>5. s = x
      BY <2>4, PieceWhole
    <2> QED
      BY <2>2, <2>5
  <1>18. p.type = "UNSUBSCRIBE" /\ p.packet_identifier = id.value /\ p.topic_filters = vs
    BY <1>5, <1>15
  <1>19. client_body(p) = x
    <2>1. client_body(p) = encode_uint16(p.packet_identifier) \o FlattenSeq(Codes(StringCode, vs))
      BY <1>18, UnsubscribeBody
    <2> QED
      BY <1>9, <1>11, <1>16, <1>17, <1>18, <2>1
  <1>20. client_encode(p) = [type |-> "UNSUBSCRIBE", flags |-> 2, body |-> x]
    BY <1>18, <1>19 DEF client_encode, flags_of
  <1>21. f = [type |-> f.type, flags |-> f.flags, body |-> f.body]
    BY DEF Frame
  <1> QED
    BY <1>1, <1>5, <1>20, <1>21

LEMMA UnsubscribeLegal ==
    ASSUME NEW v \in clientUnsubscribe, v.topic_filters # <<>>
    PROVE  decode_unsubscribe(client_encode(v)) = v
  <1>1. PICK id \in Word, vs \in Seq(Short) :
            v = [type |-> "UNSUBSCRIBE", packet_identifier |-> id, topic_filters |-> vs]
    <2>1. /\ v = [type |-> "UNSUBSCRIBE", packet_identifier |-> v.packet_identifier,
                  topic_filters |-> v.topic_filters]
          /\ v.packet_identifier \in Identifier /\ v.topic_filters \in BoundedSeq(TopicString, MaxFilters)
      BY DEF clientUnsubscribe
    <2>2. PICK n \in 0 .. MaxFilters : v.topic_filters \in [1 .. n -> TopicString]
      BY <2>1, ConstantsAssumption DEF BoundedSeq, SeqOf
    <2>3. v.topic_filters \in [1 .. n -> Short]
      BY <2>2, Constants
    <2>4. v.topic_filters \in Seq(Short)
      BY <2>3
    <2> QED
      BY <2>1, <2>4, Constants
  <1>2. v.type = "UNSUBSCRIBE" /\ v.packet_identifier = id /\ v.topic_filters = vs /\ vs # <<>>
    BY <1>1
  <1>3. PICK code \in [Short -> Bytes] : code = StringCode
    <2>1. <<>> \in Bytes
      BY EmptyIsShort DEF Short
    <2> QED
      BY <2>1, StringItem
  <1>4. PICK e1 \in Bytes : e1 = encode_uint16(id)
    BY WordReadBack
  <1>5. PICK e2 \in Bytes : e2 = FlattenSeq(Codes(code, vs))
    <2>1. PICK cs : cs = Codes(code, vs)
      OBVIOUS
    <2>2. cs \in Seq(Bytes)
      BY <2>1, CodesAre
    <2> QED
      BY <2>1, <2>2, FlattenBytes
  <1>6. PICK x \in Bytes : x = e1 \o e2
    BY Joined
  <1>7. client_body(v) = x
    <2>1. client_body(v) = encode_uint16(v.packet_identifier) \o FlattenSeq(Codes(StringCode, vs))
      BY <1>2, UnsubscribeBody
    <2> QED
      BY <1>2, <1>3, <1>4, <1>5, <1>6, <2>1
  <1>8. PICK f : f = client_encode(v)
    OBVIOUS
  <1>9. f.flags = 2 /\ f.body = x
    BY <1>2, <1>7, <1>8 DEF client_encode, flags_of
  <1>10. PICK last \in Nat : last = Len(x) + 1
    <2>1. Len(x) \in Nat
      BY DEF Bytes
    <2> QED
      BY <2>1
  <1>11. PICK p1 \in Nat : IsListBody(x, id, p1, last, e2)
    BY <1>4, <1>6, <1>10, ListBody, Zenon
  <1>12. decode_uint16(x, 1) = [next |-> p1, value |-> id]
    BY <1>11 DEF IsListBody
  <1>13. PICK item : item = StringItems(x)
    OBVIOUS
  <1>14. /\ Advances(Len(x), item)
         /\ \A at \in 1 .. Len(x), s \in Short, next \in Nat :
                Piece(x, at, next, code[s]) => item[at] = [next |-> next, value |-> s]
         /\ \A s \in Short : Len(code[s]) >= 1
    BY <1>3, <1>13, StringItem
  <1>15. p1 \in 1 .. Len(x) + 1
    BY <1>11 DEF IsListBody
  <1>16. decode_list(x, p1, item) = [next |-> last, value |-> vs]
    <2>1. Piece(x, p1, last, FlattenSeq(Codes(code, vs)))
      BY <1>5, <1>11 DEF IsListBody
    <2>2. last = Len(x) + 1 /\ Advances(Len(x), item)
      BY <1>10, <1>14
    <2>3. \A at \in 1 .. Len(x), s \in Short, next \in Nat :
              Piece(x, at, next, code[s]) => item[at] = [next |-> next, value |-> s]
      BY <1>14
    <2>4. \A s \in Short : Len(code[s]) >= 1
      BY <1>14
    <2> QED
      BY <1>15, <2>1, <2>2, <2>3, <2>4, ListLegal
  <1>17. PICK list : list = UnsubscribeList(x) /\ list.value = vs
    <2>1. decode_uint16(x, 1).next = p1
      BY <1>12
    <2>2. UnsubscribeList(x) = [next |-> last, value |-> vs]
      BY <1>13, <1>16, <2>1 DEF UnsubscribeList
    <2> QED
      BY <2>2
  <1>18. decode_unsubscribe(f) = [type |-> "UNSUBSCRIBE", packet_identifier |-> decode_uint16(x, 1).value,
                                  topic_filters |-> list.value]
    BY <1>2, <1>9, <1>17, UnsubscribeIs
  <1>19. decode_uint16(x, 1).value = id
    BY <1>12
  <1> QED
    BY <1>1, <1>8, <1>17, <1>18, <1>19

-----------------------------------------------------------------------------
(* SUBSCRIBE                                                                *)

LegalSubscription == {s \in Subscription : LegalFilter(s.topic_filter)}

SubscriptionBytes(s) == Append(encode_utf8_string(s.topic_filter), s.maximum_qos)

SubscriptionCode == [s \in LegalSubscription |-> SubscriptionBytes(s)]

\* The byte behind a filter is its QoS.
LEMMA SubscriptionBytesAre ==
    ASSUME NEW s \in LegalSubscription
    PROVE  /\ s.topic_filter \in Short /\ s.maximum_qos \in 0 .. 3 /\ LegalFilter(s.topic_filter)
           /\ s = [topic_filter |-> s.topic_filter, maximum_qos |-> s.maximum_qos]
           /\ SubscriptionBytes(s) \in Bytes /\ Len(SubscriptionBytes(s)) >= 1
           /\ SubscriptionBytes(s) = encode_utf8_string(s.topic_filter) \o <<s.maximum_qos>>
  <1>1. /\ s.topic_filter \in Short /\ s.maximum_qos \in 0 .. 3 /\ LegalFilter(s.topic_filter)
        /\ s = [topic_filter |-> s.topic_filter, maximum_qos |-> s.maximum_qos]
    BY DEF LegalSubscription, Subscription
  <1>2. PICK u \in Seq(Octet) : u = encode_utf8_string(s.topic_filter)
    BY <1>1, StringEncoded DEF Bytes
  <1>3. PICK q \in Octet : q = s.maximum_qos
    BY <1>1 DEF Octet
  <1>4. /\ Append(u, q) \in Seq(Octet) /\ Len(Append(u, q)) = Len(u) + 1
        /\ Append(u, q) = u \o <<q>>
    BY AppendProperties, AppendIsConcat
  <1>5. SubscriptionBytes(s) = Append(u, q)
    BY <1>2, <1>3 DEF SubscriptionBytes
  <1>6. Len(Append(u, q)) >= 1
    BY <1>4
  <1> QED
    BY <1>1, <1>2, <1>3, <1>4, <1>5, <1>6 DEF Bytes

\* A filter that is legal is well-formed.
LEMMA LegalIsWellFormed ==
    ASSUME NEW filter \in Short, LegalFilter(filter)
    PROVE  well_formed_topic_filter(filter)
  <1>1. PICK N \in Nat : N = Len(filter) /\ DOMAIN filter = 1 .. N
    BY DEF Short, Bytes
  <1>2. /\ filter # <<>> /\ ~Contains(filter, NUL)
        /\ \A i \in 1 .. N : filter[i] \in {Plus, Hash} =>
               /\ i = 1 \/ filter[i - 1] = Slash
               /\ i = N \/ (filter[i] = Plus /\ filter[i + 1] = Slash)
    BY <1>1 DEF LegalFilter
  <1>3. \A i \in 1 .. N : filter[i] # NUL
    BY <1>1, <1>2 DEF Contains
  <1>4. Plus # Hash
    BY DEF Plus, Hash
  <1>5. ASSUME NEW i \in 1 .. N
        PROVE  /\ filter[i] # NUL
               /\ filter[i] = Hash => i = N
               /\ (filter[i] \in {Plus, Hash} /\ i > 1) => filter[i - 1] = Slash
               /\ (i > 1 /\ filter[i - 1] = Plus) => filter[i] = Slash
    <2>1. ASSUME i > 1, filter[i - 1] = Plus PROVE filter[i] = Slash
      <3>1. PICK j \in 1 .. N : j = i - 1 /\ j # N /\ j + 1 = i
        BY <2>1
      <3> QED
        BY <1>2, <2>1, <3>1
    <2>2. filter[i] = Hash => i = N
      BY <1>2, <1>4
    <2>3. (filter[i] \in {Plus, Hash} /\ i > 1) => filter[i - 1] = Slash
      BY <1>2
    <2> QED
      BY <1>3, <2>1, <2>2, <2>3
  <1> QED
    BY <1>1, <1>2, <1>5 DEF well_formed_topic_filter

LEMMA SubscriptionItem ==
    ASSUME NEW x \in Bytes, NEW item, item = SubscriptionItems(x)
    PROVE  /\ SubscriptionCode \in [LegalSubscription -> Bytes]
           /\ \A s \in LegalSubscription :
                  SubscriptionCode[s] = SubscriptionBytes(s) /\ Len(SubscriptionCode[s]) >= 1
           /\ Advances(Len(x), item)
           /\ \A at \in 1 .. Len(x), s \in LegalSubscription, next \in Nat :
                  Piece(x, at, next, SubscriptionCode[s]) => item[at] = [next |-> next, value |-> s]
  <1>1. PICK N \in Nat : N = Len(x) /\ DOMAIN x = 1 .. N
    BY DEF Bytes
  <1>2. \A s \in LegalSubscription : SubscriptionBytes(s) \in Bytes /\ Len(SubscriptionBytes(s)) >= 1
    BY SubscriptionBytesAre
  <1>3. /\ SubscriptionCode \in [LegalSubscription -> Bytes]
        /\ \A s \in LegalSubscription : SubscriptionCode[s] = SubscriptionBytes(s)
    BY <1>2 DEF SubscriptionCode
  <1>4. \A at \in 1 .. N : item[at] = OneSubscription(x, at)
    BY <1>1 DEF SubscriptionItems
  <1>5. Advances(Len(x), item)
    <2>1. \A at \in 1 .. N : item[at].next = 0 \/ item[at].next \in at + 1 .. N + 1
      BY <1>1, <1>4, OneSubscriptionIs
    <2> QED
      BY <1>1, <2>1 DEF Advances
  <1>6. ASSUME NEW at \in 1 .. N, NEW s \in LegalSubscription, NEW next \in Nat,
               Piece(x, at, next, SubscriptionCode[s])
        PROVE  item[at] = [next |-> next, value |-> s]
    <2>1. PICK filter \in Short, q \in Octet :
              /\ filter = s.topic_filter /\ q = s.maximum_qos /\ q \in 0 .. 3 /\ LegalFilter(filter)
              /\ s = [topic_filter |-> filter, maximum_qos |-> q]
              /\ SubscriptionBytes(s) = encode_utf8_string(filter) \o <<q>>
      <3>1. s.maximum_qos \in 0 .. 3
        BY SubscriptionBytesAre
      <3>2. s.maximum_qos \in Octet
        BY <3>1 DEF Octet
      <3> QED
        BY <3>1, <3>2, SubscriptionBytesAre
    <2>2. PICK u \in Bytes, w \in Bytes : u = encode_utf8_string(filter) /\ w = <<q>>
      BY StringEncoded, ByteIs
    <2>3. PICK a \in Nat : a = at
      OBVIOUS
    <2>4. PICK b \in Nat : Piece(x, a, b, u) /\ Piece(x, b, next, w)
      <3>1. Piece(x, a, next, u \o w)
        BY <1>3, <1>6, <2>1, <2>2, <2>3
      <3> QED
        BY <3>1, PieceSplit
    <2>5. PICK t : t = decode_utf8_string(x, a)
      OBVIOUS
    <2>6. t = [next |-> b, value |-> filter]
      <3>1. Piece(x, a, b, encode_utf8_string(filter))
        BY <2>2, <2>4
      <3> QED
        BY <2>5, <3>1, StringPiece
    <2>7. next = b + 1 /\ b \in 1 .. N /\ x[b] = q
      <3>1. Piece(x, b, next, <<q>>)
        BY <2>2, <2>4
      <3> QED
        BY <1>1, <3>1, BytePiece
    <2>8. decode_qos(x, b) = [next |-> next, value |-> q]
      <3>1. ~(b = 0 \/ distance(x, b) < 1)
        BY <1>1, <2>7 DEF distance
      <3>2. qos_of(q, 0) = q
        <4>1. q \in 0 .. 3
          BY <2>1
        <4>2. (q \div 1) % 4 = q
          BY <4>1
        <4> QED
          BY <4>2, QosOf
      <3> QED
        BY <2>7, <3>1, <3>2 DEF decode_qos
    <2>9. PICK m : m = decode_qos(x, t.next) /\ m = [next |-> next, value |-> q]
      BY <2>6, <2>8
    <2>10. well_formed_topic_filter(filter)
      BY <2>1, LegalIsWellFormed
    <2>11. OneSubscription(x, a) = IF m.next = 0 \/ ~well_formed_topic_filter(t.value) THEN Throws
                                   ELSE [next |-> m.next, value |-> [topic_filter |-> t.value, maximum_qos |-> m.value]]
      BY <2>5, <2>9 DEF OneSubscription
    <2>12. m.next = next /\ m.value = q /\ t.value = filter /\ next # 0
      BY <2>6, <2>7, <2>9
    <2>13. OneSubscription(x, a) = [next |-> next, value |-> [topic_filter |-> filter, maximum_qos |-> q]]
      BY <2>10, <2>11, <2>12
    <2> QED
      BY <1>4, <2>1, <2>3, <2>13
  <1> QED
    BY <1>1, <1>2, <1>3, <1>5, <1>6

SubscribeList(x) == decode_list(x, decode_uint16(x, 1).next, SubscriptionItems(x))

LEMMA SubscribeIs ==
    ASSUME NEW f, NEW p, p = decode_subscribe(f), NEW list, list = SubscribeList(f.body)
    PROVE  p = IF f.flags # 2 \/ list.value = <<>> THEN malformed_mqtt_packet
               ELSE [type |-> "SUBSCRIBE", packet_identifier |-> decode_uint16(f.body, 1).value,
                     subscriptions |-> list.value]
  BY DEF decode_subscribe, SubscribeList, SubscriptionItems, OneSubscription

LEMMA SubscribeBodyIs ==
    ASSUME NEW p, p.type = "SUBSCRIBE", NEW vs \in Seq(LegalSubscription), vs = p.subscriptions
    PROVE  client_body(p) = encode_uint16(p.packet_identifier) \o FlattenSeq(Codes(SubscriptionCode, vs))
  <1>1. client_body(p) = encode_uint16(p.packet_identifier)
                             \o FlattenSeq([i \in DOMAIN vs |-> SubscriptionBytes(vs[i])])
    BY DEF client_body, SubscriptionBytes
  <1>2. \A i \in DOMAIN vs : vs[i] \in LegalSubscription
    OBVIOUS
  <1>3. \A i \in DOMAIN vs : SubscriptionCode[vs[i]] = SubscriptionBytes(vs[i])
    BY <1>2 DEF SubscriptionCode
  <1>4. Codes(SubscriptionCode, vs) = [i \in DOMAIN vs |-> SubscriptionBytes(vs[i])]
    BY <1>3 DEF Codes
  <1> QED
    BY <1>1, <1>4

LEMMA SubscribeLegal ==
    ASSUME NEW v \in clientSubscribe, Legal(v)
    PROVE  decode_subscribe(client_encode(v)) = v
  <1>1. PICK id \in Word, vs \in Seq(LegalSubscription) :
            /\ v = [type |-> "SUBSCRIBE", packet_identifier |-> id, subscriptions |-> vs]
            /\ vs # <<>>
    <2>1. /\ v = [type |-> "SUBSCRIBE", packet_identifier |-> v.packet_identifier,
                  subscriptions |-> v.subscriptions]
          /\ v.packet_identifier \in Identifier
          /\ v.subscriptions \in BoundedSeq([topic_filter : TopicString, maximum_qos : 0 .. 3], MaxFilters)
      BY DEF clientSubscribe
    <2>2. PICK n \in 0 .. MaxFilters :
              v.subscriptions \in [1 .. n -> [topic_filter : TopicString, maximum_qos : 0 .. 3]]
      BY <2>1, ConstantsAssumption DEF BoundedSeq, SeqOf
    <2>3. /\ v.subscriptions # <<>>
          /\ \A i \in DOMAIN v.subscriptions : LegalFilter(v.subscriptions[i].topic_filter)
      BY <2>1 DEF Legal
    <2>4. ASSUME NEW i \in 1 .. n PROVE v.subscriptions[i] \in LegalSubscription
      <3>1. v.subscriptions[i] \in [topic_filter : TopicString, maximum_qos : 0 .. 3]
        BY <2>2
      <3>2. v.subscriptions[i] \in Subscription
        BY <3>1, Constants DEF Subscription
      <3>3. LegalFilter(v.subscriptions[i].topic_filter)
        BY <2>2, <2>3
      <3> QED
        BY <3>2, <3>3 DEF LegalSubscription
    <2>5. v.subscriptions \in [1 .. n -> LegalSubscription]
      BY <2>2, <2>4
    <2>6. v.subscriptions \in Seq(LegalSubscription)
      BY <2>5
    <2> QED
      BY <2>1, <2>3, <2>6, Constants
  <1>2. v.type = "SUBSCRIBE" /\ v.packet_identifier = id /\ v.subscriptions = vs /\ vs # <<>>
    BY <1>1
  <1>3. PICK code \in [LegalSubscription -> Bytes] : code = SubscriptionCode
    <2>1. <<>> \in Bytes
      BY EmptyIsShort DEF Short
    <2> QED
      BY <2>1, SubscriptionItem
  <1>4. PICK e1 \in Bytes : e1 = encode_uint16(id)
    BY WordReadBack
  <1>5. PICK e2 \in Bytes : e2 = FlattenSeq(Codes(code, vs))
    <2>1. PICK cs : cs = Codes(code, vs)
      OBVIOUS
    <2>2. cs \in Seq(Bytes)
      BY <2>1, CodesAre
    <2> QED
      BY <2>1, <2>2, FlattenBytes
  <1>6. PICK x \in Bytes : x = e1 \o e2
    BY Joined
  <1>7. client_body(v) = x
    <2>1. client_body(v) = encode_uint16(v.packet_identifier) \o FlattenSeq(Codes(SubscriptionCode, vs))
      BY <1>2, SubscribeBodyIs
    <2> QED
      BY <1>2, <1>3, <1>4, <1>5, <1>6, <2>1
  <1>8. PICK f : f = client_encode(v)
    OBVIOUS
  <1>9. f.flags = 2 /\ f.body = x
    BY <1>2, <1>7, <1>8 DEF client_encode, flags_of
  <1>10. PICK last \in Nat : last = Len(x) + 1
    <2>1. Len(x) \in Nat
      BY DEF Bytes
    <2> QED
      BY <2>1
  <1>11. PICK p1 \in Nat : IsListBody(x, id, p1, last, e2)
    BY <1>4, <1>6, <1>10, ListBody, Zenon
  <1>12. decode_uint16(x, 1) = [next |-> p1, value |-> id]
    BY <1>11 DEF IsListBody
  <1>13. PICK item : item = SubscriptionItems(x)
    OBVIOUS
  <1>14. /\ Advances(Len(x), item)
         /\ \A at \in 1 .. Len(x), s \in LegalSubscription, next \in Nat :
                Piece(x, at, next, code[s]) => item[at] = [next |-> next, value |-> s]
         /\ \A s \in LegalSubscription : Len(code[s]) >= 1
    BY <1>3, <1>13, SubscriptionItem
  <1>15. p1 \in 1 .. Len(x) + 1
    BY <1>11 DEF IsListBody
  <1>16. decode_list(x, p1, item) = [next |-> last, value |-> vs]
    <2>1. Piece(x, p1, last, FlattenSeq(Codes(code, vs)))
      BY <1>5, <1>11 DEF IsListBody
    <2>2. last = Len(x) + 1 /\ Advances(Len(x), item)
      BY <1>10, <1>14
    <2>3. \A at \in 1 .. Len(x), s \in LegalSubscription, next \in Nat :
              Piece(x, at, next, code[s]) => item[at] = [next |-> next, value |-> s]
      BY <1>14
    <2>4. \A s \in LegalSubscription : Len(code[s]) >= 1
      BY <1>14
    <2> QED
      BY <1>15, <2>1, <2>2, <2>3, <2>4, ListLegal
  <1>17. PICK list : list = SubscribeList(x) /\ list.value = vs
    <2>1. decode_uint16(x, 1).next = p1
      BY <1>12
    <2>2. SubscribeList(x) = [next |-> last, value |-> vs]
      BY <1>13, <1>16, <2>1 DEF SubscribeList
    <2> QED
      BY <2>2
  <1>18. decode_subscribe(f) = [type |-> "SUBSCRIBE", packet_identifier |-> decode_uint16(x, 1).value,
                                  subscriptions |-> list.value]
    BY <1>2, <1>9, <1>17, SubscribeIs
  <1>19. decode_uint16(x, 1).value = id
    BY <1>12
  <1> QED
    BY <1>1, <1>8, <1>17, <1>18, <1>19

-----------------------------------------------------------------------------
(* Acknowledgements, PINGREQ and DISCONNECT                                 *)
AckType == {"PUBACK", "PUBREC", "PUBREL", "PUBCOMP"}

LEMMA AckLegal ==
    ASSUME NEW v \in clientAck
    PROVE  decode_publish_ack(client_encode(v)) = v
  <1>1. /\ v = [type |-> v.type, packet_identifier |-> v.packet_identifier]
        /\ v.type \in AckType /\ v.packet_identifier \in Identifier
    BY DEF clientAck, AckType
  <1>2. PICK id \in Word : id = v.packet_identifier
    BY <1>1, Constants
  <1>3. PICK x \in Bytes : x = encode_uint16(id)
    BY WordReadBack
  <1>4. client_body(v) = x
    BY <1>1, <1>2, <1>3 DEF client_body, AckType
  <1>5. PICK f : f = client_encode(v)
    OBVIOUS
  <1>6. f.type = v.type /\ f.flags = (IF v.type = "PUBREL" THEN 2 ELSE 0) /\ f.body = x
    BY <1>1, <1>4, <1>5 DEF client_encode, flags_of, AckType
  <1>7. PICK d : d = decode_uint16(x, 1)
    OBVIOUS
  <1>8. d.next # 0 /\ d.value = id
    <2>1. PICK one \in Nat : one = 1
      OBVIOUS
    <2>2. PICK n \in Nat : n = Len(x)
      BY DEF Bytes
    <2>3. PICK last \in Nat : last = n + 1
      OBVIOUS
    <2>4. Piece(x, one, last, x)
      <3>1. Piece(x, 1, last, x)
        BY <2>2, <2>3, PieceWhole
      <3> QED
        BY <2>1, <3>1
    <2>5. d = [next |-> last, value |-> id]
      <3>1. Piece(x, one, last, encode_uint16(id)) /\ d = decode_uint16(x, one)
        BY <1>3, <1>7, <2>1, <2>4
      <3> QED
        BY <3>1, WordPiece
    <2> QED
      BY <2>3, <2>5
  <1>9. decode_publish_ack(f) = [type |-> f.type, packet_identifier |-> d.value]
    BY <1>6, <1>7, <1>8 DEF decode_publish_ack
  <1> QED
    BY <1>1, <1>2, <1>5, <1>6, <1>8, <1>9

LEMMA EmptyAccepted ==
    ASSUME NEW f \in Frame, f.type \in {"PINGREQ", "DISCONNECT"}, NEW p, p = decode_empty(f),
           p # malformed_mqtt_packet
    PROVE  f = client_encode(p)
  <1>1. f.flags = 0 /\ f.body = <<>> /\ p = [type |-> f.type]
    BY DEF decode_empty
  <1>4. p.type = f.type
    BY <1>1
  <1>5. client_body(p) = <<>> /\ flags_of(p) = 0
    BY <1>4 DEF flags_of, client_body
  <1>2. client_encode(p) = [type |-> f.type, flags |-> 0, body |-> <<>>]
    BY <1>4, <1>5 DEF client_encode
  <1>3. f = [type |-> f.type, flags |-> f.flags, body |-> f.body]
    BY DEF Frame
  <1> QED
    BY <1>1, <1>2, <1>3

LEMMA EmptyLegal ==
    ASSUME NEW v \in [type : {"PINGREQ", "DISCONNECT"}]
    PROVE  decode_empty(client_encode(v)) = v
  <1>1. v = [type |-> v.type] /\ v.type \in {"PINGREQ", "DISCONNECT"}
    OBVIOUS
  <1>2. client_encode(v) = [type |-> v.type, flags |-> 0, body |-> <<>>]
    BY <1>1 DEF client_encode, flags_of, client_body
  <1> QED
    BY <1>1, <1>2 DEF decode_empty

-----------------------------------------------------------------------------
(* All packets                                                              *)

EncodedType == {"CONNECT", "PUBLISH", "UNSUBSCRIBE", "PINGREQ", "DISCONNECT"}

LEMMA OnlyEncodings ==
    ASSUME NEW f \in Frame, NEW beyond \in Octet, NEW p, p = decode(f, beyond),
           p # malformed_mqtt_packet, p # invalid_argument, p.type \in EncodedType
    PROVE  \/ f = client_encode(p)
           \/ p.type = "CONNECT" /\ HasNul(connect_fields(f.body, NUL).value)
  <1>1. f.type = p.type
    BY DecodeIs
  <1>2. CASE f.type = "CONNECT"
    <2>1. p = decode_connect(f, beyond)
      BY <1>2 DEF decode
    <2> QED
      BY <1>1, <1>2, <2>1, ConnectAccepted
  <1>3. CASE f.type = "PUBLISH"
    <2>1. p = decode_publish(f)
      BY <1>3 DEF decode
    <2> QED
      BY <1>3, <2>1, PublishAccepted
  <1>4. CASE f.type = "UNSUBSCRIBE"
    <2>1. p = decode_unsubscribe(f)
      BY <1>4 DEF decode
    <2> QED
      BY <1>4, <2>1, UnsubscribeAccepted
  <1>5. CASE f.type \in {"PINGREQ", "DISCONNECT"}
    <2>1. p = decode_empty(f)
      BY <1>5 DEF decode
    <2> QED
      BY <1>5, <2>1, EmptyAccepted
  <1> QED
    BY <1>1, <1>2, <1>3, <1>4, <1>5 DEF EncodedType

LEMMA LegalDecoded ==
    ASSUME NEW v \in ClientPacket, Legal(v), NEW beyond, NEW p, p = decode(client_encode(v), beyond)
    PROVE  \A field \in DOMAIN v : p[field] = v[field]
  <1>1. PICK f : f = client_encode(v)
    OBVIOUS
  <1>2. f.type = v.type
    BY <1>1 DEF client_encode
  <1>3. CASE v \in clientConnect
    <2>1. v.type = "CONNECT"
      BY <1>3 DEF clientConnect
    <2>2. v.protocol_name # <<>> /\ ~HasNul(v)
      BY <2>1 DEF Legal
    <2>3. p = decode_connect(f, beyond)
      BY <1>1, <1>2, <2>1 DEF decode
    <2> QED
      BY <1>1, <1>3, <2>2, <2>3, ConnectLegal
  <1>4. CASE v \in clientPublish
    <2>1. v.type = "PUBLISH"
      BY <1>4 DEF clientPublish
    <2>2. p = decode_publish(f)
      BY <1>1, <1>2, <2>1 DEF decode
    <2> QED
      BY <1>1, <1>4, <2>2, PublishLegal
  <1>5. CASE v \in clientSubscribe
    <2>1. v.type = "SUBSCRIBE"
      BY <1>5 DEF clientSubscribe
    <2>2. p = decode_subscribe(f)
      BY <1>1, <1>2, <2>1 DEF decode
    <2> QED
      BY <1>1, <1>5, <2>2, SubscribeLegal
  <1>6. CASE v \in clientUnsubscribe
    <2>1. v.type = "UNSUBSCRIBE"
      BY <1>6 DEF clientUnsubscribe
    <2>2. v.topic_filters # <<>>
      BY <2>1 DEF Legal
    <2>3. p = decode_unsubscribe(f)
      BY <1>1, <1>2, <2>1 DEF decode
    <2> QED
      BY <1>1, <1>6, <2>2, <2>3, UnsubscribeLegal
  <1>7. CASE v \in clientAck
    <2>1. v.type \in AckType
      BY <1>7 DEF clientAck, AckType
    <2>2. p = decode_publish_ack(f)
      BY <1>1, <1>2, <2>1 DEF decode, AckType
    <2> QED
      BY <1>1, <1>7, <2>2, AckLegal
  <1>8. CASE v \in [type : {"PINGREQ", "DISCONNECT", "CONNACK", "RESERVED1"}]
    <2>1. v.type \in {"PINGREQ", "DISCONNECT"}
      BY <1>8 DEF Legal
    <2>2. v \in [type : {"PINGREQ", "DISCONNECT"}]
      BY <1>8, <2>1
    <2>3. p = decode_empty(f)
      BY <1>1, <1>2, <2>1 DEF decode
    <2> QED
      BY <1>1, <2>2, <2>3, EmptyLegal
  <1> QED
    BY <1>3, <1>4, <1>5, <1>6, <1>7, <1>8 DEF ClientPacket

\* Packet and frame stay what they are once the frame is read.
Kept ==
    /\ UNCHANGED <<intended, frame, packet>>
    /\ Accepted' => Accepted
    /\ phase' # "received" => phase # "received"

LEMMA PacketKept == ASSUME Next PROVE on_frame_read \/ Kept
  <1>1. ASSUME authentication_failed \/ process_connect_packet PROVE Kept
    BY <1>1 DEF authentication_failed, process_connect_packet, received, Kept, Accepted
  <1>2. ASSUME client_disconnected_ungracefully \/ client_published \/ retain PROVE Kept
    BY <1>2 DEF client_disconnected_ungracefully, client_published, retain, received, Kept, Accepted
  <1>3. ASSUME qos_asserts \/ publish_using_qos0 PROVE Kept
    BY <1>3 DEF qos_asserts, publish_using_qos0, publishing, Kept, Accepted
  <1>4. ASSUME NEW qos \in {1, 2}, publish_tracked(qos) PROVE Kept
    BY <1>4 DEF publish_tracked, publishing, Kept, Accepted
  <1>5. ASSUME ack_timeout_expired PROVE Kept
    BY <1>5 DEF ack_timeout_expired, Kept, Accepted
  <1>6. ASSUME NEW type, NEW p, answers(type, p) PROVE Kept
    BY <1>6 DEF answers, received, Kept, Accepted
  <1>7. ASSUME \/ client_subscribed \/ client_unsubscribed \/ client_received_publish
               \/ client_released_publish \/ process_pingreq
        PROVE  Kept
    BY <1>6, <1>7 DEF client_subscribed, client_unsubscribed, client_received_publish,
                      client_released_publish, process_pingreq
  <1> QED
    BY <1>1, <1>2, <1>3, <1>4, <1>5, <1>7 DEF Next

RoundTripInv == intended \in ClientPacket /\ AcceptsOnlyEncodings /\ AcceptsWhatIsLegal

LEMMA RoundTripsRead ==
    ASSUME FlowInv, RoundTripInv, on_frame_read
    PROVE  RoundTripInv'
  <1>1. phase = "received" /\ frame \in Frame /\ frame' = frame /\ intended' = intended
    BY DEF FlowInv, FrameInv, on_frame_read
  <1>2. PICK beyond \in Octet : packet' = decode(frame, beyond)
    BY Constants DEF on_frame_read
  <1>3. phase' = CASE packet' = malformed_mqtt_packet -> "closed"
                   [] packet' = invalid_argument -> "terminated"
                   [] OTHER -> "decoded"
    BY DEF on_frame_read
  <1>4. Accepted' => packet' # malformed_mqtt_packet /\ packet' # invalid_argument
    <2>1. malformed_mqtt_packet # invalid_argument
      BY DEF malformed_mqtt_packet, invalid_argument
    <2> QED
      BY <1>3, <2>1 DEF Accepted
  <1>8. PICK f \in Frame : f = frame
    BY <1>1
  <1>5. PICK p : f = frame /\ p = packet' /\ p = decode(f, beyond)
    BY <1>2, <1>8
  <1>6. AcceptsOnlyEncodings'
    <2> SUFFICES ASSUME Accepted', p.type \in EncodedType
                 PROVE  f = client_encode(p) \/ (p.type = "CONNECT" /\ HasNul(connect_fields(f.body, NUL).value))
      BY <1>1, <1>5 DEF AcceptsOnlyEncodings, EncodedType
    <2>1. p # malformed_mqtt_packet /\ p # invalid_argument
      BY <1>4, <1>5
    <2> QED
      BY <1>5, <2>1, OnlyEncodings
  <1>7. AcceptsWhatIsLegal'
    <2>1. PICK v \in ClientPacket : v = intended
      BY DEF RoundTripInv
    <2> SUFFICES ASSUME f = client_encode(v), Legal(v)
                 PROVE  \A field \in DOMAIN v : p[field] = v[field]
      BY <1>1, <1>5, <2>1 DEF AcceptsWhatIsLegal
    <2>2. p = decode(client_encode(v), beyond)
      BY <1>5
    <2> QED
      BY <2>2, LegalDecoded
  <1> QED
    BY <1>1, <1>6, <1>7 DEF RoundTripInv

LEMMA RoundTripsStep ==
    ASSUME FlowInv, RoundTripInv, [Next]_vars
    PROVE  RoundTripInv'
  <1>1. CASE on_frame_read
    BY <1>1, RoundTripsRead
  <1>2. CASE Kept
    BY <1>2 DEF Kept, RoundTripInv, AcceptsOnlyEncodings, AcceptsWhatIsLegal
  <1>3. CASE UNCHANGED vars
    BY <1>3 DEF vars, RoundTripInv, AcceptsOnlyEncodings, AcceptsWhatIsLegal, Accepted
  <1> QED
    BY <1>1, <1>2, <1>3, PacketKept

-----------------------------------------------------------------------------
(* The levels of a string                                                   *)

Char == Character \cup {"/", "+", "#"}

\* One step of the recursion of LevelsFrom.
LevelsStep(s, f, i) ==
    IF i = Len(s) + 1 THEN << <<>> >>
    ELSE IF s[i] = "/" THEN << <<>> >> \o f[i + 1]
    ELSE [f[i + 1] EXCEPT ![1] = <<s[i]>> \o @]

LEMMA SameStep ==
    ASSUME NEW s, NEW f, NEW g, NEW i, i = Len(s) + 1 \/ f[i + 1] = g[i + 1]
    PROVE  LevelsStep(s, f, i) = LevelsStep(s, g, i)
  BY Zenon DEF LevelsStep

\* LevelsFrom is what its recursion says.
LEMMA LevelsDefined ==
    ASSUME NEW s \in Seq(Char)
    PROVE  LevelsFrom(s) = [i \in 1 .. Len(s) + 1 |-> LevelsStep(s, LevelsFrom(s), i)]
  <1>1. PICK N \in Nat : N = Len(s)
    OBVIOUS
  <1> DEFINE Right(f, i) == \A j \in i .. N + 1 : f[j] = LevelsStep(s, f, j)
             P == {i \in 1 .. N + 1 : \E f : Right(f, i)}
  <1>2. N + 1 \in P
    <2> DEFINE f == [j \in 1 .. N + 1 |-> << <<>> >>]
    <2>1. Right(f, N + 1)
      BY <1>1 DEF LevelsStep
    <2> QED
      BY <2>1
  <1>3. ASSUME NEW i \in 1 .. N + 1, i < N + 1, i + 1 \in P PROVE i \in P
    <2>1. PICK g : Right(g, i + 1)
      BY <1>3
    <2> DEFINE f == [j \in 1 .. N + 1 |-> IF j = i THEN LevelsStep(s, g, i) ELSE g[j]]
    <2>2. \A j \in i + 1 .. N + 1 : f[j] = g[j] /\ j \in 1 .. N + 1
      OBVIOUS
    <2>3. f[i] = LevelsStep(s, g, i)
      OBVIOUS
    <2> HIDE DEF f
    <2>4. LevelsStep(s, f, i) = LevelsStep(s, g, i)
      <3>1. i + 1 \in i + 1 .. N + 1
        BY <1>3
      <3> QED
        BY <2>2, <3>1, SameStep
    <2>5. ASSUME NEW j \in i + 1 .. N + 1 PROVE f[j] = LevelsStep(s, f, j)
      <3>1. f[j] = g[j] /\ g[j] = LevelsStep(s, g, j)
        BY <2>1, <2>2
      <3>2. j # N + 1 => j + 1 \in i + 1 .. N + 1
        OBVIOUS
      <3>3. LevelsStep(s, f, j) = LevelsStep(s, g, j)
        BY <1>1, <2>2, <3>2, SameStep
      <3> QED
        BY <3>1, <3>3
    <2>6. Right(f, i)
      <3> SUFFICES ASSUME NEW j \in i .. N + 1 PROVE f[j] = LevelsStep(s, f, j)
        OBVIOUS
      <3>1. j = i \/ j \in i + 1 .. N + 1
        OBVIOUS
      <3> QED
        BY <2>3, <2>4, <2>5, <3>1
    <2> QED
      BY <2>6
  <1>4. 1 \in P
    <2>1. \A i \in 1 .. N + 1 : i < N + 1 /\ i + 1 \in P => i \in P
      BY <1>3
    <2> HIDE DEF P
    <2>2. PICK n \in Nat : n = N + 1
      OBVIOUS
    <2>3. \A i \in 1 .. n : i \in P
      BY <1>2, <2>1, <2>2, Backwards
    <2> QED
      BY <2>2, <2>3
  <1>5. PICK g : Right(g, 1)
    BY <1>4
  <1> DEFINE h == [i \in 1 .. N + 1 |-> g[i]]
  <1>6. h = [i \in 1 .. N + 1 |-> LevelsStep(s, h, i)]
    <2>1. ASSUME NEW i \in 1 .. N + 1 PROVE LevelsStep(s, h, i) = LevelsStep(s, g, i)
      <3>1. i = N + 1 \/ i + 1 \in 1 .. N + 1
        OBVIOUS
      <3>2. i = N + 1 \/ h[i + 1] = g[i + 1]
        BY <3>1
      <3> HIDE DEF h
      <3> QED
        BY <1>1, <3>2, SameStep
    <2> QED
      BY <1>5, <2>1
  <1> HIDE DEF h
  <1>7. h = [i \in 1 .. Len(s) + 1 |->
                IF i = Len(s) + 1 THEN << <<>> >>
                ELSE IF s[i] = "/" THEN << <<>> >> \o h[i + 1]
                ELSE [h[i + 1] EXCEPT ![1] = <<s[i]>> \o @]]
    BY <1>1, <1>6 DEF LevelsStep
  <1> QED
    BY <1>7, Zenon DEF LevelsFrom, LevelsStep

-----------------------------------------------------------------------------
(* What one character does to the levels                                    *)

LevelList == {x \in Seq(Seq(Char)) : Len(x) >= 1}

\* A separator, or another character c, in front of the levels x.
Separated(x) == << <<>> >> \o x

With(c, x) == [x EXCEPT ![1] = <<c>> \o @]

\* An element replaced.
LEMMA Replaced ==
    ASSUME NEW S, NEW x \in Seq(S), NEW a \in S, Len(x) >= 1
    PROVE  /\ [x EXCEPT ![1] = a] \in Seq(S)
           /\ Len([x EXCEPT ![1] = a]) = Len(x)
           /\ [x EXCEPT ![1] = a][1] = a
           /\ \A k \in 2 .. Len(x) : [x EXCEPT ![1] = a][k] = x[k]
  OBVIOUS

LEMMA SeparatedIs ==
    ASSUME NEW x \in LevelList
    PROVE  /\ Separated(x) \in LevelList
           /\ Len(Separated(x)) = Len(x) + 1
           /\ Separated(x)[1] = <<>>
           /\ \A k \in 1 .. Len(x) : Separated(x)[k + 1] = x[k]
  <1>1. x \in Seq(Seq(Char)) /\ << <<>> >> \in Seq(Seq(Char)) /\ Len(<< <<>> >>) = 1
    BY DEF LevelList
  <1> QED
    BY <1>1 DEF Separated, LevelList

LEMMA WithIs ==
    ASSUME NEW c \in Char, NEW x \in LevelList
    PROVE  /\ With(c, x) \in LevelList
           /\ Len(With(c, x)) = Len(x)
           /\ With(c, x)[1] = <<c>> \o x[1]
           /\ \A k \in 2 .. Len(x) : With(c, x)[k] = x[k]
  <1>1. x \in Seq(Seq(Char)) /\ Len(x) \in Nat /\ Len(x) >= 1 /\ DOMAIN x = 1 .. Len(x)
    BY DEF LevelList
  <1>2. PICK a \in Seq(Char) : a = <<c>> \o x[1]
    <2>1. PICK b \in Seq(Char) : b = x[1]
      BY <1>1
    <2>2. <<c>> \o b \in Seq(Char)
      OBVIOUS
    <2> QED
      BY <2>1, <2>2
  <1>3. With(c, x) = [x EXCEPT ![1] = a]
    BY <1>2 DEF With
  <1> HIDE DEF LevelList
  <1>4. /\ With(c, x) \in Seq(Seq(Char))
        /\ Len(With(c, x)) = Len(x)
        /\ With(c, x)[1] = a
        /\ \A k \in 2 .. Len(x) : With(c, x)[k] = x[k]
    BY <1>1, <1>3, Replaced
  <1> QED
    BY <1>1, <1>2, <1>4 DEF LevelList

\* Two strings with a first character are equal if these and the rest are.
LEMMA FirstCharacter ==
    ASSUME NEW c \in Char, NEW a \in Seq(Char)
    PROVE  /\ <<c>> \o a # <<>>
           /\ \A d \in Char : <<c>> \o a = <<d>> <=> c = d /\ a = <<>>
           /\ \A d \in Char, b \in Seq(Char) : <<c>> \o a = <<d>> \o b <=> c = d /\ a = b
  <1>1. /\ Len(<<c>> \o a) = 1 + Len(a)
        /\ (<<c>> \o a)[1] = c
        /\ \A k \in 1 .. Len(a) : (<<c>> \o a)[k + 1] = a[k]
    OBVIOUS
  <1>2. <<c>> \o a # <<>>
    BY <1>1
  <1>3. ASSUME NEW d \in Char PROVE <<c>> \o a = <<d>> <=> c = d /\ a = <<>>
    <2>1. Len(<<d>>) = 1 /\ <<d>>[1] = d
      OBVIOUS
    <2>2. <<c>> \o a = <<d>> => c = d /\ a = <<>>
      <3> SUFFICES ASSUME <<c>> \o a = <<d>> PROVE c = d /\ a = <<>>
        OBVIOUS
      <3>0. Len(<<c>> \o a) = 1 /\ (<<c>> \o a)[1] = d
        BY <2>1, Zenon
      <3>1. c = d /\ Len(a) = 0
        BY <1>1, <3>0
      <3>2. a = <<>>
        BY <3>1
      <3> QED
        BY <3>1, <3>2
    <2>3. c = d /\ a = <<>> => <<c>> \o a = <<d>>
      OBVIOUS
    <2> QED
      BY <2>2, <2>3
  <1>4. ASSUME NEW d \in Char, NEW b \in Seq(Char), <<c>> \o a = <<d>> \o b
        PROVE  c = d /\ a = b
    <2>1. /\ Len(<<d>> \o b) = 1 + Len(b)
          /\ (<<d>> \o b)[1] = d
          /\ \A k \in 1 .. Len(b) : (<<d>> \o b)[k + 1] = b[k]
      OBVIOUS
    <2>2. c = d /\ Len(a) = Len(b)
      BY <1>1, <1>4, <2>1
    <2>3. \A k \in 1 .. Len(a) : a[k] = b[k]
      BY <1>1, <1>4, <2>1, <2>2
    <2> QED
      BY <2>2, <2>3
  <1> QED
    BY <1>2, <1>3, <1>4

\* The levels from a place on, given those from the next place on.
LEMMA LevelsAt ==
    ASSUME NEW s \in Seq(Char)
    PROVE  /\ LevelsFrom(s)[Len(s) + 1] = << <<>> >>
           /\ \A i \in 1 .. Len(s) :
                  LevelsFrom(s)[i] = IF s[i] = "/" THEN Separated(LevelsFrom(s)[i + 1])
                                     ELSE With(s[i], LevelsFrom(s)[i + 1])
  <1>1. \A i \in 1 .. Len(s) + 1 : LevelsFrom(s)[i] = LevelsStep(s, LevelsFrom(s), i)
    BY LevelsDefined
  <1>2. /\ Len(s) + 1 \in 1 .. Len(s) + 1
        /\ \A i \in 1 .. Len(s) : i \in 1 .. Len(s) + 1 /\ i # Len(s) + 1
    OBVIOUS
  <1> QED
    BY <1>1, <1>2 DEF LevelsStep, Separated, With

\* What is left at the end: one level, which is empty.
LEMMA EmptyLevel ==
    << <<>> >> \in LevelList /\ Len(<< <<>> >>) = 1 /\ << <<>> >>[1] = <<>>
  BY DEF LevelList

LEMMA LevelsType ==
    ASSUME NEW s \in Seq(Char)
    PROVE  \A i \in 1 .. Len(s) + 1 : LevelsFrom(s)[i] \in LevelList
  <1>1. PICK n \in Nat : n = Len(s) + 1
    OBVIOUS
  <1> DEFINE P == {i \in 1 .. n : LevelsFrom(s)[i] \in LevelList}
  <1>2. n \in P
    BY <1>1, EmptyLevel, LevelsAt
  <1>3. ASSUME NEW i \in 1 .. n, i < n, i + 1 \in P PROVE i \in P
    <2>1. i \in 1 .. Len(s) /\ s[i] \in Char /\ LevelsFrom(s)[i + 1] \in LevelList
      BY <1>1, <1>3
    <2>2. LevelsFrom(s)[i] \in LevelList
      BY <2>1, LevelsAt, SeparatedIs, WithIs
    <2> QED
      BY <2>2
  <1> HIDE DEF P
  <1>4. \A i \in 1 .. n : i \in P
    BY <1>2, <1>3, Backwards
  <1> QED
    BY <1>1, <1>4 DEF P

-----------------------------------------------------------------------------
(* Matching, one character at a time                                        *)

PlusLevel == <<"+">>

HashLevel == <<"#">>

\* The levels that have a counterpart.
Fixed(fs) == IF fs[Len(fs)] = HashLevel THEN Len(fs) - 1 ELSE Len(fs)

LEMMA MatchIs ==
    ASSUME NEW fs, NEW ts
    PROVE  LevelsMatch(fs, ts) <=>
               /\ IF fs[Len(fs)] = HashLevel THEN Len(ts) >= Fixed(fs) ELSE Len(ts) = Fixed(fs)
               /\ \A k \in 1 .. Fixed(fs) : fs[k] = PlusLevel \/ fs[k] = ts[k]
  BY DEF LevelsMatch, Last, PlusLevel, HashLevel, Fixed

LEMMA Wildcards ==
    /\ PlusLevel # HashLevel /\ <<>> # HashLevel /\ <<>> # PlusLevel
    /\ PlusLevel = <<"+">> \o <<>> /\ HashLevel = <<"#">> \o <<>>
    /\ \A c \in Char, a \in Seq(Char) :
           /\ <<c>> \o a = HashLevel => c = "#"
           /\ <<c>> \o a = PlusLevel => c = "+"
  <1>1. PlusLevel # HashLevel /\ <<>> # HashLevel /\ <<>> # PlusLevel
    <2>1. PlusLevel[1] = "+" /\ HashLevel[1] = "#" /\ Len(PlusLevel) = 1 /\ Len(HashLevel) = 1
      BY DEF PlusLevel, HashLevel
    <2> QED
      BY <2>1
  <1>2. PlusLevel = <<"+">> \o <<>> /\ HashLevel = <<"#">> \o <<>>
    BY DEF PlusLevel, HashLevel
  <1>3. "+" \in Char /\ "#" \in Char
    BY DEF Char
  <1>4. \A c \in Char, a \in Seq(Char) : /\ <<c>> \o a = HashLevel => c = "#"
                                         /\ <<c>> \o a = PlusLevel => c = "+"
    BY <1>3, FirstCharacter DEF PlusLevel, HashLevel
  <1> QED
    BY <1>1, <1>2, <1>4

\* The first level decides, unless it is a wildcard.
LEMMA FirstLevelDiffers ==
    ASSUME NEW fs \in LevelList, NEW ts \in LevelList,
           fs[1] # PlusLevel, fs[1] # HashLevel, fs[1] # ts[1]
    PROVE  ~LevelsMatch(fs, ts)
  <1>1. Len(fs) \in Nat /\ Len(fs) >= 1
    BY DEF LevelList
  <1>2. 1 \in 1 .. Fixed(fs)
    BY <1>1 DEF Fixed
  <1> QED
    BY <1>2, MatchIs

\* A separator in both leaves what is behind it to be matched.
LEMMA SeparatorTaken ==
    ASSUME NEW x \in LevelList, NEW y \in LevelList
    PROVE  LevelsMatch(Separated(x), Separated(y)) <=> LevelsMatch(x, y)
  <1>1. PICK fs \in LevelList, ts \in LevelList : fs = Separated(x) /\ ts = Separated(y)
    BY SeparatedIs
  <1>2. /\ Len(fs) = Len(x) + 1 /\ fs[1] = <<>> /\ \A k \in 1 .. Len(x) : fs[k + 1] = x[k]
        /\ Len(ts) = Len(y) + 1 /\ ts[1] = <<>> /\ \A k \in 1 .. Len(y) : ts[k + 1] = y[k]
    BY <1>1, SeparatedIs
  <1>3. PICK n \in Nat, m \in Nat : n = Len(x) /\ m = Len(y) /\ n >= 1 /\ m >= 1
    BY DEF LevelList
  <1>4. fs[n + 1] = x[n]
    BY <1>2, <1>3
  <1>5. PICK l \in Nat : l = Fixed(x) /\ l <= n /\ Fixed(fs) = l + 1
    <2>1. Fixed(x) = IF x[n] = HashLevel THEN n - 1 ELSE n
      BY <1>3 DEF Fixed
    <2>2. Fixed(fs) = IF x[n] = HashLevel THEN (n + 1) - 1 ELSE n + 1
      BY <1>2, <1>3, <1>4 DEF Fixed
    <2>3. CASE x[n] = HashLevel
      BY <1>3, <2>1, <2>2, <2>3
    <2>4. CASE x[n] # HashLevel
      BY <1>3, <2>1, <2>2, <2>4
    <2> QED
      BY <2>3, <2>4
  <1>6. ASSUME m >= l
        PROVE  (\A k \in 1 .. l + 1 : fs[k] = PlusLevel \/ fs[k] = ts[k])
                   <=> (\A k \in 1 .. l : x[k] = PlusLevel \/ x[k] = y[k])
    <2>1. \A k \in 1 .. l : k + 1 \in 1 .. l + 1 /\ fs[k + 1] = x[k] /\ ts[k + 1] = y[k]
      BY <1>2, <1>3, <1>5, <1>6
    <2>2. \A k \in 1 .. l + 1 : k # 1 => k - 1 \in 1 .. l /\ (k - 1) + 1 = k
      OBVIOUS
    <2>3. ASSUME \A k \in 1 .. l : x[k] = PlusLevel \/ x[k] = y[k], NEW k \in 1 .. l + 1
          PROVE  fs[k] = PlusLevel \/ fs[k] = ts[k]
      <3>1. CASE k = 1
        BY <1>2, <3>1
      <3>2. CASE k # 1
        <4>1. PICK j \in 1 .. l : j = k - 1 /\ j + 1 = k
          BY <2>2, <3>2
        <4> QED
          BY <2>1, <2>3, <4>1
      <3> QED
        BY <3>1, <3>2
    <2>4. ASSUME \A k \in 1 .. l + 1 : fs[k] = PlusLevel \/ fs[k] = ts[k], NEW k \in 1 .. l
          PROVE  x[k] = PlusLevel \/ x[k] = y[k]
      BY <2>1, <2>4
    <2> QED
      BY <2>3, <2>4
  <1>7. LevelsMatch(fs, ts) <=>
            /\ IF x[n] = HashLevel THEN m >= l ELSE m = l
            /\ \A k \in 1 .. l + 1 : fs[k] = PlusLevel \/ fs[k] = ts[k]
    <2>1. LevelsMatch(fs, ts) <=>
              /\ IF x[n] = HashLevel THEN m + 1 >= l + 1 ELSE m + 1 = l + 1
              /\ \A k \in 1 .. l + 1 : fs[k] = PlusLevel \/ fs[k] = ts[k]
      BY <1>2, <1>3, <1>4, <1>5, MatchIs
    <2>2. (m + 1 >= l + 1 <=> m >= l) /\ (m + 1 = l + 1 <=> m = l)
      OBVIOUS
    <2> QED
      BY <2>1, <2>2
  <1>8. LevelsMatch(x, y) <=>
            /\ IF x[n] = HashLevel THEN m >= l ELSE m = l
            /\ \A k \in 1 .. l : x[k] = PlusLevel \/ x[k] = y[k]
    BY <1>3, <1>5, MatchIs
  <1>9. (IF x[n] = HashLevel THEN m >= l ELSE m = l) => m >= l
    OBVIOUS
  <1> QED
    BY <1>1, <1>6, <1>7, <1>8, <1>9

\* The level n of x and of what differs from it in the first level only.
LEMMA SameLast ==
    ASSUME NEW x \in LevelList, NEW fs \in LevelList, Len(fs) = Len(x),
           \A k \in 2 .. Len(x) : fs[k] = x[k],
           x[1] # HashLevel, fs[1] # HashLevel
    PROVE  /\ fs[Len(fs)] = HashLevel <=> x[Len(x)] = HashLevel
           /\ Fixed(fs) = Fixed(x)
           /\ Fixed(x) \in 1 .. Len(x)
  <1>1. PICK n \in Nat : n = Len(x) /\ n >= 1
    BY DEF LevelList
  <1>2. fs[n] = HashLevel <=> x[n] = HashLevel
    <2>1. CASE n = 1
      BY <2>1
    <2>2. CASE n # 1
      BY <1>1, <2>2
    <2> QED
      BY <2>1, <2>2
  <1>3. x[n] = HashLevel => n # 1
    OBVIOUS
  <1>4. Fixed(x) = (IF x[n] = HashLevel THEN n - 1 ELSE n) /\ Fixed(fs) = Fixed(x)
    BY <1>1, <1>2 DEF Fixed
  <1> QED
    BY <1>1, <1>2, <1>3, <1>4

\* Lists that differ in the first level only, whose first levels match in one
\* pair if they match in the other.
LEMMA FirstReplaced ==
    ASSUME NEW x \in LevelList, NEW y \in LevelList, NEW fs \in LevelList, NEW ts \in LevelList,
           Len(fs) = Len(x), \A k \in 2 .. Len(x) : fs[k] = x[k],
           Len(ts) = Len(y), \A k \in 2 .. Len(y) : ts[k] = y[k],
           x[1] # HashLevel, fs[1] # HashLevel,
           (fs[1] = PlusLevel \/ fs[1] = ts[1]) <=> (x[1] = PlusLevel \/ x[1] = y[1])
    PROVE  LevelsMatch(fs, ts) <=> LevelsMatch(x, y)
  <1>1. PICK n \in Nat, m \in Nat : n = Len(x) /\ m = Len(y) /\ n >= 1 /\ m >= 1
    BY DEF LevelList
  <1>2. PICK l \in 1 .. n : /\ l = Fixed(x) /\ l = Fixed(fs)
                            /\ fs[n] = HashLevel <=> x[n] = HashLevel
    BY <1>1, SameLast
  <1>3. ASSUME m >= l
        PROVE  (\A k \in 1 .. l : fs[k] = PlusLevel \/ fs[k] = ts[k])
                   <=> (\A k \in 1 .. l : x[k] = PlusLevel \/ x[k] = y[k])
    <2>1. ASSUME NEW k \in 1 .. l
          PROVE  (fs[k] = PlusLevel \/ fs[k] = ts[k]) <=> (x[k] = PlusLevel \/ x[k] = y[k])
      <3>1. CASE k = 1
        BY <3>1
      <3>2. CASE k # 1
        <4>1. k \in 2 .. Len(x) /\ k \in 2 .. Len(y)
          BY <1>1, <1>2, <1>3, <3>2
        <4> QED
          BY <4>1
      <3> QED
        BY <3>1, <3>2
    <2> QED
      BY <2>1
  <1>4. /\ LevelsMatch(fs, ts) <=>
               /\ IF x[n] = HashLevel THEN m >= l ELSE m = l
               /\ \A k \in 1 .. l : fs[k] = PlusLevel \/ fs[k] = ts[k]
        /\ LevelsMatch(x, y) <=>
               /\ IF x[n] = HashLevel THEN m >= l ELSE m = l
               /\ \A k \in 1 .. l : x[k] = PlusLevel \/ x[k] = y[k]
    BY <1>1, <1>2, MatchIs
  <1>5. (IF x[n] = HashLevel THEN m >= l ELSE m = l) => m >= l
    BY <1>1, <1>2
  <1> QED
    BY <1>3, <1>4, <1>5

\* The same character in both leaves what is behind it to be matched, unless it
\* is a wildcard or followed by one.
LEMMA CharacterTaken ==
    ASSUME NEW c \in Char, c \notin {"+", "#"}, NEW x \in LevelList, NEW y \in LevelList,
           x[1] # PlusLevel, x[1] # HashLevel
    PROVE  LevelsMatch(With(c, x), With(c, y)) <=> LevelsMatch(x, y)
  <1>1. PICK fs \in LevelList, ts \in LevelList : fs = With(c, x) /\ ts = With(c, y)
    BY WithIs
  <1>2. /\ Len(fs) = Len(x) /\ fs[1] = <<c>> \o x[1] /\ \A k \in 2 .. Len(x) : fs[k] = x[k]
        /\ Len(ts) = Len(y) /\ ts[1] = <<c>> \o y[1] /\ \A k \in 2 .. Len(y) : ts[k] = y[k]
    BY <1>1, WithIs
  <1>3. x[1] \in Seq(Char) /\ y[1] \in Seq(Char)
    BY DEF LevelList
  <1>4. fs[1] # PlusLevel /\ fs[1] # HashLevel
    BY <1>2, <1>3, Wildcards
  <1>5. fs[1] = ts[1] <=> x[1] = y[1]
    <2>1. PICK a \in Seq(Char), b \in Seq(Char) : a = x[1] /\ b = y[1]
      BY <1>3
    <2>2. <<c>> \o a = <<c>> \o b <=> a = b
      BY FirstCharacter
    <2> QED
      BY <1>2, <2>1, <2>2
  <1>6. LevelsMatch(fs, ts) <=> LevelsMatch(x, y)
    BY <1>2, <1>4, <1>5, FirstReplaced
  <1> QED
    BY <1>1, <1>6

\* A level of its own, + takes the level it meets.
LEMMA WildcardTaken ==
    ASSUME NEW x \in LevelList, NEW y \in LevelList, NEW ts \in LevelList, x[1] = <<>>,
           Len(ts) = Len(y), \A k \in 2 .. Len(y) : ts[k] = y[k], y[1] = <<>>
    PROVE  LevelsMatch(With("+", x), ts) <=> LevelsMatch(x, y)
  <1>1. "+" \in Char
    BY DEF Char
  <1>2. PICK fs \in LevelList : fs = With("+", x)
    BY <1>1, WithIs
  <1>3. Len(fs) = Len(x) /\ fs[1] = PlusLevel /\ \A k \in 2 .. Len(x) : fs[k] = x[k]
    <2>1. /\ Len(fs) = Len(x) /\ fs[1] = <<"+">> \o x[1]
          /\ \A k \in 2 .. Len(x) : fs[k] = x[k]
      BY <1>1, <1>2, WithIs
    <2>2. PlusLevel = <<"+">> \o <<>>
      BY Wildcards
    <2> QED
      BY <2>1, <2>2
  <1>4. LevelsMatch(fs, ts) <=> LevelsMatch(x, y)
    BY <1>3, Wildcards, FirstReplaced
  <1> QED
    BY <1>2, <1>4

\* The end of both.
LEMMA BothEnd == LevelsMatch(<< <<>> >>, << <<>> >>)
  <1>1. PICK e \in LevelList : e = << <<>> >>
    BY EmptyLevel
  <1>2. Len(e) = 1 /\ e[1] = <<>>
    BY <1>1, EmptyLevel
  <1>3. Fixed(e) = 1
    BY <1>2, Wildcards DEF Fixed
  <1>4. LevelsMatch(e, e)
    BY <1>2, <1>3, Wildcards, MatchIs
  <1> QED
    BY <1>1, <1>4

\* # as all that is left.
LEMMA HashMatches ==
    ASSUME NEW fs, NEW ts \in LevelList, Len(fs) = 1, fs[1] = HashLevel
    PROVE  LevelsMatch(fs, ts)
  <1>1. Fixed(fs) = 0 /\ Len(ts) >= 0
    BY DEF Fixed, LevelList
  <1> QED
    BY <1>1, MatchIs

\* The end of the filter matches the end of the topic only.
LEMMA FilterEnds ==
    ASSUME NEW ts \in LevelList, LevelsMatch(<< <<>> >>, ts)
    PROVE  Len(ts) = 1 /\ ts[1] = <<>>
  <1>1. PICK e \in LevelList : e = << <<>> >>
    BY EmptyLevel
  <1>2. Len(e) = 1 /\ e[1] = <<>>
    BY <1>1, EmptyLevel
  <1>3. Fixed(e) = 1
    BY <1>2, Wildcards DEF Fixed
  <1> QED
    BY <1>1, <1>2, <1>3, Wildcards, MatchIs

\* The end of the topic matches the end of the filter, or a wildcard.
LEMMA TopicEnds ==
    ASSUME NEW fs \in LevelList, LevelsMatch(fs, << <<>> >>)
    PROVE  \/ Len(fs) = 1 /\ fs[1] \in {<<>>, PlusLevel, HashLevel}
           \/ Len(fs) = 2 /\ fs[2] = HashLevel
  <1>1. PICK e \in LevelList : e = << <<>> >>
    BY EmptyLevel
  <1>2. Len(e) = 1 /\ e[1] = <<>>
    BY <1>1, EmptyLevel
  <1>3. PICK n \in Nat : n = Len(fs) /\ n >= 1
    BY DEF LevelList
  <1>4. CASE fs[n] = HashLevel
    <2>1. Fixed(fs) = n - 1 /\ 1 >= n - 1
      BY <1>1, <1>2, <1>3, <1>4, MatchIs DEF Fixed
    <2>2. n = 1 \/ n = 2
      BY <1>3, <2>1
    <2> QED
      BY <1>3, <1>4, <2>2
  <1>5. CASE fs[n] # HashLevel
    <2>1. Fixed(fs) = n /\ 1 = n
      BY <1>1, <1>2, <1>3, <1>5, MatchIs DEF Fixed
    <2>2. fs[1] = PlusLevel \/ fs[1] = e[1]
      BY <1>1, <2>1, MatchIs
    <2> QED
      BY <1>2, <1>3, <2>1, <2>2
  <1> QED
    BY <1>4, <1>5

-----------------------------------------------------------------------------
(* Topics and filters                                                       *)

LEMMA Strings ==
    /\ \A t \in Topic : t \in Seq(Char) /\ Len(t) >= 1
    /\ \A f \in TopicFilters : f \in Seq(Char) /\ Len(f) >= 1 /\ WellFormed(f)
  <1>1. ASSUME NEW S, NEW n \in Nat, S \subseteq Char, NEW s \in BoundedSeq(S, n)
        PROVE  s \in Seq(Char)
    <2>1. PICK m \in 0 .. n : s \in [1 .. m -> S]
      BY <1>1 DEF BoundedSeq, SeqOf
    <2>2. s \in [1 .. m -> Char]
      BY <1>1, <2>1
    <2> QED
      BY <2>2
  <1>2. MaxTopicLength \in Nat /\ MaxFilterLength \in Nat
    BY TFConstantsAssumption
  <1>3. ASSUME NEW t \in Topic PROVE t \in Seq(Char) /\ Len(t) >= 1
    <2>1. t \in BoundedSeq(Character \cup {"/"}, MaxTopicLength) /\ t # <<>>
      BY DEF Topic
    <2>2. Character \cup {"/"} \subseteq Char
      BY DEF Char
    <2>3. t \in Seq(Char)
      BY <1>1, <1>2, <2>1, <2>2
    <2> QED
      BY <2>1, <2>3
  <1>4. ASSUME NEW f \in TopicFilters PROVE f \in Seq(Char) /\ Len(f) >= 1 /\ WellFormed(f)
    <2>1. f \in BoundedSeq(Char, MaxFilterLength) /\ WellFormed(f)
      BY DEF TopicFilters, Char
    <2>2. f \in Seq(Char)
      BY <1>1, <1>2, <2>1
    <2> QED
      BY <2>1, <2>2 DEF WellFormed
  <1> QED
    BY <1>3, <1>4

\* What the first level of the rest begins with.
LEMMA FirstLevel ==
    ASSUME NEW s \in Seq(Char), NEW i \in 1 .. Len(s) + 1
    PROVE  /\ i = Len(s) + 1 => LevelsFrom(s)[i] = << <<>> >>
           /\ i # Len(s) + 1 /\ s[i] = "/" =>
                  /\ LevelsFrom(s)[i] = Separated(LevelsFrom(s)[i + 1])
                  /\ LevelsFrom(s)[i][1] = <<>>
                  /\ Len(LevelsFrom(s)[i]) >= 2
           /\ i # Len(s) + 1 /\ s[i] # "/" =>
                  /\ LevelsFrom(s)[i] = With(s[i], LevelsFrom(s)[i + 1])
                  /\ LevelsFrom(s)[i][1] = <<s[i]>> \o LevelsFrom(s)[i + 1][1]
  <1>1. CASE i = Len(s) + 1
    BY <1>1, LevelsAt
  <1>2. CASE i # Len(s) + 1
    <2>1. i \in 1 .. Len(s) /\ i + 1 \in 1 .. Len(s) + 1 /\ s[i] \in Char
      BY <1>2
    <2>2. PICK x \in LevelList : x = LevelsFrom(s)[i + 1]
      BY <2>1, LevelsType
    <2>3. Len(x) \in Nat /\ Len(x) >= 1
      BY DEF LevelList
    <2>4. LevelsFrom(s)[i] = IF s[i] = "/" THEN Separated(x) ELSE With(s[i], x)
      BY <2>1, <2>2, LevelsAt
    <2>5. CASE s[i] = "/"
      BY <1>2, <2>2, <2>3, <2>4, <2>5, SeparatedIs
    <2>6. CASE s[i] # "/"
      <3>1. PICK c \in Char : c = s[i]
        BY <2>1
      <3>2. LevelsFrom(s)[i] = With(c, x) /\ With(c, x)[1] = <<c>> \o x[1]
        BY <2>4, <2>6, <3>1, WithIs
      <3> QED
        BY <1>2, <2>2, <2>6, <3>1, <3>2
    <2> QED
      BY <2>5, <2>6
  <1> QED
    BY <1>1, <1>2

\* The rest after a wildcard, or one that does not begin with one.
LEMMA RestOfFilter ==
    ASSUME NEW f \in TopicFilters, NEW i \in 1 .. Len(f)
    PROVE  /\ f[i] = "#" => /\ i = Len(f)
                            /\ Len(LevelsFrom(f)[i]) = 1
                            /\ LevelsFrom(f)[i][1] = HashLevel
           /\ f[i] = "+" => LevelsFrom(f)[i + 1][1] = <<>>
           /\ f[i] \notin {"+", "#", "/"} => /\ LevelsFrom(f)[i + 1][1] # PlusLevel
                                             /\ LevelsFrom(f)[i + 1][1] # HashLevel
  <1>1. f \in Seq(Char) /\ i + 1 \in 1 .. Len(f) + 1 /\ i \in 1 .. Len(f) + 1 /\ i # Len(f) + 1
    BY Strings
  <1>2. \A k \in 1 .. Len(f) : f[k] \in {"+", "#"} =>
            /\ k = 1 \/ f[k - 1] = "/"
            /\ k = Len(f) \/ (f[k] = "+" /\ f[k + 1] = "/")
    BY Strings DEF WellFormed
  <1>3. ASSUME f[i] = "#"
        PROVE  i = Len(f) /\ Len(LevelsFrom(f)[i]) = 1 /\ LevelsFrom(f)[i][1] = HashLevel
    <2>1. i = Len(f)
      BY <1>2, <1>3
    <2>2. PICK x \in LevelList : x = LevelsFrom(f)[i + 1] /\ Len(x) = 1 /\ x[1] = <<>>
      BY <1>1, <2>1, FirstLevel, EmptyLevel
    <2>3. f[i] # "/" /\ "#" \in Char
      BY <1>3 DEF Char
    <2>4. LevelsFrom(f)[i] = With("#", x)
      BY <1>1, <1>3, <2>2, <2>3, FirstLevel
    <2> QED
      BY <2>1, <2>2, <2>3, <2>4, WithIs, Wildcards
  <1>4. ASSUME f[i] = "+" PROVE LevelsFrom(f)[i + 1][1] = <<>>
    <2>1. i + 1 = Len(f) + 1 \/ (i + 1 # Len(f) + 1 /\ f[i + 1] = "/")
      BY <1>2, <1>4
    <2> QED
      BY <1>1, <2>1, FirstLevel, EmptyLevel
  <1>5. ASSUME f[i] \notin {"+", "#", "/"}
        PROVE  LevelsFrom(f)[i + 1][1] # PlusLevel /\ LevelsFrom(f)[i + 1][1] # HashLevel
    <2>1. CASE i + 1 = Len(f) + 1
      BY <1>1, <2>1, FirstLevel, EmptyLevel, Wildcards
    <2>2. CASE i + 1 # Len(f) + 1
      <3>1. i + 1 \in 1 .. Len(f) /\ i + 1 # 1 /\ (i + 1) - 1 = i
        BY <2>2
      <3>2. f[i + 1] \notin {"+", "#"}
        BY <1>2, <1>5, <3>1
      <3>3. CASE f[i + 1] = "/"
        BY <1>1, <2>2, <3>3, FirstLevel, Wildcards
      <3>4. CASE f[i + 1] # "/"
        <4>1. (i + 1) + 1 \in 1 .. Len(f) + 1 /\ f[i + 1] \in Char
          BY <1>1, <3>1
        <4>2. PICK a \in Seq(Char) : a = LevelsFrom(f)[(i + 1) + 1][1]
          BY <1>1, <4>1, LevelsType DEF LevelList
        <4>3. LevelsFrom(f)[i + 1][1] = <<f[i + 1]>> \o a
          BY <1>1, <2>2, <3>4, <4>2, FirstLevel
        <4> QED
          BY <3>2, <4>1, <4>3, Wildcards
      <3> QED
        BY <3>3, <3>4
    <2> QED
      BY <2>1, <2>2
  <1> QED
    BY <1>3, <1>4, <1>5

\* A last level that is # ends in that character.
LEMMA HashIsLast ==
    ASSUME NEW f \in TopicFilters
    PROVE  \A i \in 1 .. Len(f) + 1 :
               LevelsFrom(f)[i][Len(LevelsFrom(f)[i])] = HashLevel => f[Len(f)] = "#"
  <1>1. PICK n \in Nat : n = Len(f) + 1
    BY Strings
  <1>2. f \in Seq(Char)
    BY Strings
  <1> DEFINE last(i) == LevelsFrom(f)[i][Len(LevelsFrom(f)[i])]
             P == {i \in 1 .. n : last(i) = HashLevel => f[Len(f)] = "#"}
  <1>3. n \in P
    <2>1. LevelsFrom(f)[n] = << <<>> >> /\ n \in 1 .. n
      BY <1>1, <1>2, LevelsAt
    <2>2. last(n) = <<>>
      BY <2>1, EmptyLevel
    <2> QED
      BY <2>1, <2>2, Wildcards
  <1>4. ASSUME NEW i \in 1 .. n, i < n, i + 1 \in P PROVE i \in P
    <2>1. i \in 1 .. Len(f) /\ i \in 1 .. Len(f) + 1 /\ i # Len(f) + 1 /\ i + 1 \in 1 .. Len(f) + 1
      BY <1>1, <1>4
    <2>2. PICK x \in LevelList : x = LevelsFrom(f)[i + 1]
      BY <1>2, <2>1, LevelsType
    <2>3. PICK y \in LevelList : y = LevelsFrom(f)[i]
      BY <1>2, <2>1, LevelsType
    <2>4. PICK m \in Nat : m = Len(x) /\ m >= 1
      BY DEF LevelList
    <2>5. x[m] = HashLevel => f[Len(f)] = "#"
      BY <1>4, <2>2, <2>4
    <2>6. y[Len(y)] = HashLevel => f[Len(f)] = "#"
      <3>1. CASE f[i] = "/"
        <4>1. y = Separated(x)
          BY <1>2, <2>1, <2>2, <2>3, <3>1, FirstLevel
        <4>2. Len(y) = m + 1 /\ y[m + 1] = x[m]
          BY <2>4, <4>1, SeparatedIs
        <4> QED
          BY <2>5, <4>2
      <3>2. CASE f[i] # "/"
        <4>1. f[i] \in Char /\ y = With(f[i], x)
          <5>1. f[i] \in Char
            BY <1>2, <2>1
          <5> QED
            BY <1>2, <2>1, <2>2, <2>3, <3>2, <5>1, FirstLevel
        <4>2. Len(y) = m /\ y[1] = <<f[i]>> \o x[1] /\ \A k \in 2 .. m : y[k] = x[k]
          BY <2>4, <4>1, WithIs
        <4>3. CASE m = 1
          <5>1. PICK a \in Seq(Char) : a = x[1]
            BY <2>4 DEF LevelList
          <5>2. y[Len(y)] = HashLevel => f[i] = "#"
            BY <4>1, <4>2, <4>3, <5>1, Wildcards
          <5>3. f[i] = "#" => i = Len(f)
            BY <2>1, RestOfFilter
          <5> QED
            BY <5>2, <5>3
        <4>4. CASE m # 1
          BY <2>4, <2>5, <4>2, <4>4
        <4> QED
          BY <4>3, <4>4
      <3> QED
        BY <3>1, <3>2
    <2> QED
      BY <2>3, <2>6
  <1> HIDE DEF P
  <1>5. \A i \in 1 .. n : i \in P
    BY <1>3, <1>4, Backwards
  <1> QED
    BY <1>1, <1>5 DEF P

\* From the middle of a level to its end the levels behind it stay the same.
LEMMA LevelSkipped ==
    ASSUME NEW t \in Seq(Char), NEW a \in 0 .. Len(t), NEW e \in a .. Len(t),
           e = Len(t) \/ t[e + 1] = "/", \A j \in a .. e - 1 : t[j + 1] # "/"
    PROVE  /\ LevelsFrom(t)[e + 1][1] = <<>>
           /\ Len(LevelsFrom(t)[a + 1]) = Len(LevelsFrom(t)[e + 1])
           /\ \A k \in 2 .. Len(LevelsFrom(t)[e + 1]) :
                  LevelsFrom(t)[a + 1][k] = LevelsFrom(t)[e + 1][k]
  <1>1. PICK n \in Nat, b \in Nat : n = e /\ b = a /\ n + 1 \in 1 .. Len(t) + 1
    OBVIOUS
  <1>2. PICK y \in LevelList : y = LevelsFrom(t)[n + 1]
    BY <1>1, LevelsType
  <1> DEFINE same(x) == Len(x) = Len(y) /\ \A k \in 2 .. Len(y) : x[k] = y[k]
             P == {j \in b .. n : same(LevelsFrom(t)[j + 1])}
  <1>3. n \in P
    BY <1>1, <1>2
  <1>4. ASSUME NEW j \in b .. n, j < n, j + 1 \in P PROVE j \in P
    <2>1. j \in a .. e - 1 /\ j + 1 \in 1 .. Len(t) + 1 /\ (j + 1) + 1 \in 1 .. Len(t) + 1
      BY <1>1, <1>4
    <2>2. j + 1 # Len(t) + 1 /\ t[j + 1] # "/" /\ t[j + 1] \in Char
      BY <1>1, <1>4, <2>1
    <2>3. PICK x \in LevelList : x = LevelsFrom(t)[(j + 1) + 1]
      BY <2>1, LevelsType
    <2>4. same(x)
      BY <1>4, <2>3
    <2>5. LevelsFrom(t)[j + 1] = With(t[j + 1], x)
      BY <2>1, <2>2, <2>3, FirstLevel
    <2>6. same(With(t[j + 1], x))
      <3>1. PICK c \in Char : c = t[j + 1]
        BY <2>2
      <3>2. Len(With(c, x)) = Len(x) /\ \A k \in 2 .. Len(x) : With(c, x)[k] = x[k]
        BY WithIs
      <3> QED
        BY <2>4, <3>1, <3>2
    <2> QED
      BY <2>5, <2>6
  <1>5. b \in P
    <2> HIDE DEF P
    <2>1. \A j \in b .. n : j \in P
      BY <1>3, <1>4, Backwards
    <2> QED
      BY <1>1, <2>1
  <1>6. y[1] = <<>>
    BY <1>1, <1>2, FirstLevel, EmptyLevel
  <1> QED
    BY <1>1, <1>2, <1>5, <1>6

LEMMA FirstLevelType ==
    ASSUME NEW s \in Seq(Char), NEW i \in 1 .. Len(s) + 1
    PROVE  LevelsFrom(s)[i][1] \in Seq(Char)
  <1>1. \A x \in LevelList : x[1] \in Seq(Char)
    BY DEF LevelList
  <1> QED
    BY <1>1, LevelsType

\* The last two characters.
LEMMA LastTwo ==
    ASSUME NEW s \in Seq(Char), NEW n \in Nat, n = Len(s), n >= 2
    PROVE  SubSeq(s, n - 1, n) = <<s[n - 1], s[n]>>
  <1>1. PICK m \in Int : /\ m = n - 1 /\ m <= n /\ n \in Int /\ n - m + 1 = 2
                         /\ m + 1 - 1 = m /\ m + 2 - 1 = n
    OBVIOUS
  <1>2. \A i \in m .. n : s[i] \in Char
    BY <1>1
  <1>3. PICK u : u = SubSeq(s, m, n)
    OBVIOUS
  <1>4. /\ u \in Seq(Char)
        /\ Len(u) = IF m <= n THEN n - m + 1 ELSE 0
        /\ \A i \in 1 .. n - m + 1 : u[i] = s[m + i - 1]
    BY <1>1, <1>2, <1>3, SubSeqProperties
  <1>5. Len(u) = 2 /\ \A i \in 1 .. 2 : u[i] = s[m + i - 1]
    BY <1>1, <1>4
  <1>6. PICK c \in Char, d \in Char : c = s[m] /\ d = s[n]
    BY <1>1
  <1>7. u[1] = c /\ u[2] = d
    BY <1>1, <1>5, <1>6
  <1>8. u = <<c, d>>
    BY <1>4, <1>5, <1>7
  <1> QED
    BY <1>1, <1>3, <1>6, <1>8

-----------------------------------------------------------------------------
(* The loop                                                                 *)

\* Whether what is left of the filter matches what is left of the topic.
RestMatches == LevelsMatch(LevelsFrom(topic_filter)[tf_idx + 1], LevelsFrom(topic)[t_idx + 1])

\* Where a level of the filter begins a level of the topic does.
InStep ==
    tf_idx = 0 \/ topic_filter[tf_idx] = "/" => t_idx = 0 \/ topic[t_idx] = "/"

\* As long as the loop runs the rest decides, and what it decides is right but
\* for # and for an empty last level of the topic.
LoopInv ==
    /\ TFTypeOK
    /\ result = "running" => (Matches(topic_filter, topic) <=> RestMatches) /\ InStep
    /\ SoundWithoutHash
    /\ CompleteForNonEmptyLastLevel

\* The strings, and what of them is left.
LEMMA Types ==
    ASSUME TFTypeOK
    PROVE  /\ topic \in Seq(Char) /\ Len(topic) >= 1 /\ Len(topic) \in Nat
           /\ topic_filter \in Seq(Char) /\ Len(topic_filter) >= 1 /\ Len(topic_filter) \in Nat
           /\ t_idx \in Nat /\ t_idx + 1 \in 1 .. Len(topic) + 1
           /\ tf_idx \in Nat /\ tf_idx + 1 \in 1 .. Len(topic_filter) + 1
           /\ t_idx < Len(topic) => /\ t_idx + 1 \in 1 .. Len(topic)
                                    /\ (t_idx + 1) + 1 \in 1 .. Len(topic) + 1
           /\ tf_idx < Len(topic_filter) => /\ tf_idx + 1 \in 1 .. Len(topic_filter)
                                            /\ (tf_idx + 1) + 1 \in 1 .. Len(topic_filter) + 1
  <1>1. /\ topic \in Seq(Char) /\ Len(topic) >= 1
        /\ topic_filter \in Seq(Char) /\ Len(topic_filter) >= 1
    BY Strings DEF TFTypeOK
  <1>2. t_idx \in 0 .. Len(topic) /\ tf_idx \in 0 .. Len(topic_filter)
    BY DEF TFTypeOK
  <1> QED
    BY <1>1, <1>2

\* The inner loop stops at the end of the level.
LEMMA EndOfLevelIs ==
    ASSUME TFTypeOK
    PROVE  /\ EndOfLevel \in t_idx .. Len(topic)
           /\ EndOfLevel = Len(topic) \/ topic[EndOfLevel + 1] = "/"
           /\ \A j \in t_idx .. (EndOfLevel - 1) : topic[j + 1] # "/"
  <1>1. PICK n \in Nat, a \in Nat : n = Len(topic) /\ a = t_idx /\ a <= n
    <2>1. Len(topic) \in Nat /\ t_idx \in 0 .. Len(topic)
      BY Types DEF TFTypeOK
    <2> QED
      BY <2>1
  <1> DEFINE T == {i \in a .. n : i = n \/ topic[i + 1] = "/"}
  <1>2. n \in T /\ T \in SUBSET Nat
    BY <1>1
  <1>3. PICK i \in T : \A j \in T : i <= j
    <2> HIDE DEF T
    <2> QED
      BY <1>2, LeastNumber
  <1>4. i \in a .. n /\ (i = n \/ topic[i + 1] = "/")
    OBVIOUS
  <1>5. ASSUME NEW j \in a .. (i - 1) PROVE topic[j + 1] # "/"
    <2>1. j \in a .. n /\ ~(i <= j)
      BY <1>4
    <2> QED
      BY <1>3, <2>1
  <1>6. \E k \in t_idx .. Len(topic) :
            /\ k = Len(topic) \/ topic[k + 1] = "/"
            /\ \A j \in t_idx .. (k - 1) : topic[j + 1] # "/"
    BY <1>1, <1>4, <1>5
  <1> QED
    BY <1>6 DEF EndOfLevel

LEMMA LoopInitInv == TFInit => LoopInv
  <1> SUFFICES ASSUME TFInit
               PROVE  LoopInv
    OBVIOUS
  <1>1. TFTypeOK
    <2>1. Len(topic) \in Nat /\ Len(topic_filter) \in Nat
      BY Strings DEF TFInit
    <2> QED
      BY <2>1 DEF TFInit, TFTypeOK
  <1>2. Matches(topic_filter, topic) <=> RestMatches
    <2>1. tf_idx + 1 = 1 /\ t_idx + 1 = 1
      BY DEF TFInit
    <2> QED
      BY <2>1 DEF Matches, Levels, RestMatches
  <1> QED
    BY <1>1, <1>2 DEF TFInit, LoopInv, InStep, SoundWithoutHash, CompleteForNonEmptyLastLevel

\* As long as the loop goes on, two facts are all there is to keep.
LEMMA GoesOn ==
    ASSUME LoopInv, UNCHANGED <<topic, topic_filter, result>>, result = "running", TFTypeOK',
           RestMatches' <=> RestMatches, InStep'
    PROVE  LoopInv'
  BY DEF LoopInv, SoundWithoutHash, CompleteForNonEmptyLastLevel

LEMMA SingleLevel == ASSUME LoopInv, single_level_wildcard PROVE LoopInv'
  <1>1. TFTypeOK /\ result = "running" /\ InLoop /\ topic_filter \in TopicFilters
    BY DEF LoopInv, single_level_wildcard, InLoop, TFTypeOK
  <1>2. /\ UNCHANGED <<topic, topic_filter, result>>
        /\ topic_filter[tf_idx + 1] = "+"
        /\ t_idx' = EndOfLevel /\ tf_idx' = tf_idx + 1
    BY DEF single_level_wildcard, tf_char
  <1>3. t_idx < Len(topic) /\ tf_idx < Len(topic_filter)
    BY <1>1 DEF InLoop
  <1>4. PICK e \in t_idx .. Len(topic) :
            /\ e = EndOfLevel
            /\ e = Len(topic) \/ topic[e + 1] = "/"
            /\ \A j \in t_idx .. e - 1 : topic[j + 1] # "/"
    BY <1>1, EndOfLevelIs
  <1>5. e \in 0 .. Len(topic) /\ e + 1 \in 1 .. Len(topic) + 1
    BY <1>1, Types
  <1>6. TFTypeOK'
    <2>1. tf_idx' \in 0 .. Len(topic_filter)
      BY <1>1, <1>2, <1>3, Types
    <2> QED
      BY <1>1, <1>2, <1>4, <1>5, <2>1 DEF TFTypeOK
  <1>7. InStep'
    <2>1. tf_idx + 1 # 0 /\ topic_filter[tf_idx + 1] # "/"
      BY <1>1, <1>2, Types
    <2> QED
      BY <1>2, <2>1 DEF InStep
  <1>8. RestMatches' <=> RestMatches
    <2>1. PICK x \in LevelList : x = LevelsFrom(topic_filter)[(tf_idx + 1) + 1] /\ x[1] = <<>>
      BY <1>1, <1>2, <1>3, Types, LevelsType, RestOfFilter
    <2>2. PICK y \in LevelList : y = LevelsFrom(topic)[e + 1]
      BY <1>1, <1>5, Types, LevelsType
    <2>3. PICK ts \in LevelList : ts = LevelsFrom(topic)[t_idx + 1]
      BY <1>1, Types, LevelsType
    <2>4. t_idx \in 0 .. Len(topic)
      BY <1>1 DEF TFTypeOK
    <2>5. y[1] = <<>> /\ Len(ts) = Len(y) /\ \A k \in 2 .. Len(y) : ts[k] = y[k]
      BY <1>1, <1>4, <2>2, <2>3, <2>4, Types, LevelSkipped
    <2>6. LevelsFrom(topic_filter)[tf_idx + 1] = With("+", x)
      <3>1. tf_idx + 1 # Len(topic_filter) + 1
        BY <1>1, <1>3, Types
      <3> QED
        BY <1>1, <1>2, <2>1, <3>1, Types, FirstLevel
    <2>7. LevelsMatch(With("+", x), ts) <=> LevelsMatch(x, y)
      BY <2>1, <2>5, WildcardTaken
    <2>8. RestMatches <=> LevelsMatch(With("+", x), ts)
      BY <2>3, <2>6 DEF RestMatches
    <2>9. RestMatches' <=> LevelsMatch(x, y)
      BY <1>2, <1>4, <2>1, <2>2 DEF RestMatches
    <2> QED
      BY <2>7, <2>8, <2>9
  <1> QED
    BY <1>1, <1>2, <1>6, <1>7, <1>8, GoesOn

LEMMA MultiLevel == ASSUME LoopInv, multi_level_wildcard PROVE LoopInv'
  <1>1. /\ TFTypeOK /\ result = "running" /\ topic_filter \in TopicFilters
        /\ tf_idx < Len(topic_filter) /\ topic_filter[tf_idx + 1] = "#"
        /\ UNCHANGED <<topic, topic_filter, t_idx, tf_idx>> /\ result' = "match"
    BY DEF LoopInv, multi_level_wildcard, InLoop, TFTypeOK, tf_char
  <1>2. TFTypeOK'
    BY <1>1 DEF TFTypeOK
  <1>3. tf_idx + 1 = Len(topic_filter)
    BY <1>1, Types, RestOfFilter
  <1>4. EndsInHash(topic_filter)
    BY <1>1, <1>3 DEF EndsInHash, Last
  <1> QED
    BY <1>1, <1>2, <1>4 DEF LoopInv, SoundWithoutHash, CompleteForNonEmptyLastLevel

\* A character that differs cannot be made up for.
LEMMA Differs ==
    ASSUME LoopInv, InLoop, tf_char \notin {"+", "#"}, t_char # tf_char
    PROVE  ~Matches(topic_filter, topic)
  <1>1. /\ TFTypeOK /\ topic_filter \in TopicFilters
        /\ Matches(topic_filter, topic) <=> RestMatches
        /\ tf_idx < Len(topic_filter) /\ t_idx < Len(topic)
    BY DEF LoopInv, InLoop, TFTypeOK
  <1>2. /\ topic_filter \in Seq(Char) /\ tf_idx + 1 \in 1 .. Len(topic_filter)
        /\ tf_idx + 1 \in 1 .. Len(topic_filter) + 1
        /\ (tf_idx + 1) + 1 \in 1 .. Len(topic_filter) + 1
        /\ topic \in Seq(Char) /\ t_idx + 1 \in 1 .. Len(topic)
        /\ t_idx + 1 \in 1 .. Len(topic) + 1 /\ (t_idx + 1) + 1 \in 1 .. Len(topic) + 1
    BY <1>1, Types
  <1>3. tf_idx + 1 # Len(topic_filter) + 1 /\ t_idx + 1 # Len(topic) + 1
    BY <1>2
  <1>4. PICK c \in Char, d \in Char : c = topic_filter[tf_idx + 1] /\ d = topic[t_idx + 1]
    BY <1>2
  <1>5. c # d /\ c \notin {"+", "#"}
    BY <1>4 DEF t_char, tf_char
  <1>6. PICK fs \in LevelList, ts \in LevelList :
            fs = LevelsFrom(topic_filter)[tf_idx + 1] /\ ts = LevelsFrom(topic)[t_idx + 1]
    BY <1>2, LevelsType
  <1>7. PICK a \in Seq(Char), b \in Seq(Char) :
            /\ a = LevelsFrom(topic_filter)[(tf_idx + 1) + 1][1]
            /\ b = LevelsFrom(topic)[(t_idx + 1) + 1][1]
    <2>1. \A x \in LevelList : x[1] \in Seq(Char)
      BY DEF LevelList
    <2> QED
      BY <1>2, <2>1, LevelsType
  <1>8. fs[1] = IF c = "/" THEN <<>> ELSE <<c>> \o a
    BY <1>2, <1>3, <1>4, <1>6, <1>7, FirstLevel
  <1>9. ts[1] = IF d = "/" THEN <<>> ELSE <<d>> \o b
    BY <1>2, <1>3, <1>4, <1>6, <1>7, FirstLevel
  <1>10. fs[1] # PlusLevel /\ fs[1] # HashLevel
    BY <1>5, <1>8, Wildcards
  <1>11. fs[1] # ts[1]
    <2>1. <<c>> \o a # <<>> /\ <<d>> \o b # <<>>
      BY FirstCharacter
    <2>2. <<c>> \o a # <<d>> \o b
      BY <1>5, FirstCharacter
    <2> QED
      BY <1>5, <1>8, <1>9, <2>1, <2>2
  <1> QED
    BY <1>1, <1>6, <1>10, <1>11, FirstLevelDiffers DEF RestMatches

LEMMA Regular == ASSUME LoopInv, regular_character PROVE LoopInv'
  <1>1. /\ TFTypeOK /\ result = "running" /\ InLoop /\ topic_filter \in TopicFilters /\ InStep
        /\ tf_idx < Len(topic_filter) /\ t_idx < Len(topic)
        /\ tf_char \notin {"+", "#"}
        /\ UNCHANGED <<topic, topic_filter>>
    BY DEF LoopInv, regular_character, InLoop, TFTypeOK
  <1>2. ASSUME t_char # tf_char, result' = "no match", UNCHANGED <<t_idx, tf_idx>>
        PROVE  LoopInv'
    <2>1. ~Matches(topic_filter, topic)
      BY <1>1, <1>2, Differs
    <2>2. TFTypeOK'
      BY <1>1, <1>2 DEF TFTypeOK
    <2> QED
      BY <1>1, <1>2, <2>1, <2>2 DEF LoopInv, SoundWithoutHash, CompleteForNonEmptyLastLevel
  <1>3. ASSUME t_char = tf_char, t_idx' = t_idx + 1, tf_idx' = tf_idx + 1, UNCHANGED result
        PROVE  LoopInv'
    <2>1. /\ topic_filter \in Seq(Char) /\ tf_idx \in Nat /\ tf_idx + 1 \in 1 .. Len(topic_filter)
          /\ tf_idx + 1 \in 1 .. Len(topic_filter) + 1
          /\ (tf_idx + 1) + 1 \in 1 .. Len(topic_filter) + 1
          /\ topic \in Seq(Char) /\ t_idx \in Nat /\ t_idx + 1 \in 1 .. Len(topic)
          /\ t_idx + 1 \in 1 .. Len(topic) + 1 /\ (t_idx + 1) + 1 \in 1 .. Len(topic) + 1
      BY <1>1, Types
    <2>2. tf_idx + 1 # Len(topic_filter) + 1 /\ t_idx + 1 # Len(topic) + 1
      BY <2>1
    <2>3. PICK c \in Char : /\ c = topic_filter[tf_idx + 1] /\ c = topic[t_idx + 1]
                            /\ c \notin {"+", "#"}
      BY <1>1, <1>3, <2>1 DEF t_char, tf_char
    <2>4. TFTypeOK'
      <3>1. tf_idx' \in 0 .. Len(topic_filter) /\ t_idx' \in 0 .. Len(topic)
        BY <1>3, <2>1
      <3> QED
        BY <1>1, <1>3, <3>1 DEF TFTypeOK
    <2>5. InStep'
      <3>1. tf_idx + 1 # 0
        BY <2>1
      <3> QED
        BY <1>1, <1>3, <2>3, <3>1 DEF InStep
    <2>6. PICK x \in LevelList, y \in LevelList :
              /\ x = LevelsFrom(topic_filter)[(tf_idx + 1) + 1]
              /\ y = LevelsFrom(topic)[(t_idx + 1) + 1]
      BY <2>1, LevelsType
    <2>7. RestMatches' <=> LevelsMatch(x, y)
      BY <1>1, <1>3, <2>6 DEF RestMatches
    <2>8. RestMatches <=> LevelsMatch(x, y)
      <3>1. CASE c = "/"
        <4>1. /\ LevelsFrom(topic_filter)[tf_idx + 1] = Separated(x)
              /\ LevelsFrom(topic)[t_idx + 1] = Separated(y)
          BY <2>1, <2>2, <2>3, <2>6, <3>1, FirstLevel
        <4> QED
          BY <4>1, SeparatorTaken DEF RestMatches
      <3>2. CASE c # "/"
        <4>1. /\ LevelsFrom(topic_filter)[tf_idx + 1] = With(c, x)
              /\ LevelsFrom(topic)[t_idx + 1] = With(c, y)
          BY <2>1, <2>2, <2>3, <2>6, <3>2, FirstLevel
        <4>2. x[1] # PlusLevel /\ x[1] # HashLevel
          BY <1>1, <2>1, <2>3, <2>6, <3>2, RestOfFilter
        <4> QED
          BY <2>3, <4>1, <4>2, CharacterTaken DEF RestMatches
      <3> QED
        BY <3>1, <3>2
    <2> QED
      BY <1>1, <1>3, <2>4, <2>5, <2>7, <2>8, GoesOn
  <1> QED
    BY <1>2, <1>3 DEF regular_character

\* Behind the loop only a last level, empty and of the topic, can be missed, or #.
LEMMA NoMatchIsRight ==
    ASSUME LoopInv, result = "running", ~InLoop, ~BothExhausted, ~EndsInSlashHash,
           Last(topic) # "/"
    PROVE  ~Matches(topic_filter, topic)
  <1>1. /\ TFTypeOK /\ topic_filter \in TopicFilters
        /\ Matches(topic_filter, topic) <=> RestMatches
        /\ InStep
    BY DEF LoopInv, TFTypeOK
  <1>2. PICK n \in Nat, m \in Nat, i \in Nat, j \in Nat :
            /\ n = Len(topic_filter) /\ m = Len(topic) /\ i = tf_idx /\ j = t_idx
            /\ i <= n /\ j <= m /\ n >= 1 /\ m >= 1
    <2>1. tf_idx \in 0 .. Len(topic_filter) /\ t_idx \in 0 .. Len(topic)
      BY <1>1 DEF TFTypeOK
    <2> QED
      BY <1>1, <2>1, Types
  <1>3. /\ topic_filter \in Seq(Char) /\ i + 1 \in 1 .. Len(topic_filter) + 1
        /\ topic \in Seq(Char) /\ j + 1 \in 1 .. Len(topic) + 1
    BY <1>1, <1>2, Types
  <1>4. PICK fs \in LevelList, ts \in LevelList :
            fs = LevelsFrom(topic_filter)[i + 1] /\ ts = LevelsFrom(topic)[j + 1]
    BY <1>3, LevelsType
  <1>5. RestMatches <=> LevelsMatch(fs, ts)
    BY <1>2, <1>4 DEF RestMatches
  <1>6. (i = n /\ j < m) \/ (i < n /\ j = m)
    BY <1>2 DEF InLoop, BothExhausted
  <1>7. CASE i = n /\ j < m
    <2>1. fs = << <<>> >>
      BY <1>2, <1>3, <1>4, <1>7, FirstLevel
    <2>2. j + 1 # Len(topic) + 1 /\ topic[j + 1] \in Char /\ (j + 1) + 1 \in 1 .. Len(topic) + 1
      BY <1>2, <1>3, <1>7
    <2>3. Len(ts) >= 2 \/ ts[1] # <<>>
      <3>1. CASE topic[j + 1] = "/"
        BY <1>3, <1>4, <2>2, <3>1, FirstLevel
      <3>2. CASE topic[j + 1] # "/"
        <4>1. PICK a \in Seq(Char) : a = LevelsFrom(topic)[(j + 1) + 1][1]
          BY <1>3, <2>2, FirstLevelType
        <4>2. ts[1] = <<topic[j + 1]>> \o a
          BY <1>3, <1>4, <2>2, <3>2, <4>1, FirstLevel
        <4> QED
          BY <2>2, <4>2, FirstCharacter
      <3> QED
        BY <3>1, <3>2
    <2>4. ~LevelsMatch(fs, ts)
      <3>1. ~(Len(ts) = 1 /\ ts[1] = <<>>)
        <4>1. CASE Len(ts) >= 2
          <5>1. Len(ts) \in Nat /\ \A l \in Nat : l >= 2 => l # 1
            BY DEF LevelList
          <5>2. Len(ts) # 1
            BY <4>1, <5>1
          <5> QED
            BY <5>2
        <4>2. CASE ts[1] # <<>>
          BY <4>2
        <4> QED
          BY <2>3, <4>1, <4>2
      <3> QED
        BY <2>1, <3>1, FilterEnds
    <2> QED
      BY <1>1, <1>5, <2>4
  <1>8. CASE i < n /\ j = m
    <2>1. ts = << <<>> >>
      BY <1>2, <1>3, <1>4, <1>8, FirstLevel
    <2>2. i + 1 # Len(topic_filter) + 1 /\ i + 1 \in 1 .. Len(topic_filter)
          /\ topic_filter[i + 1] \in Char /\ (i + 1) + 1 \in 1 .. Len(topic_filter) + 1
      BY <1>2, <1>3, <1>8
    \* The topic ended in the middle of a level, and so did the filter.
    <2>3. i # 0 /\ topic_filter[i] # "/"
      <3>1. topic[m] # "/" /\ j # 0
        BY <1>2, <1>8 DEF Last
      <3> QED
        BY <1>1, <1>2, <1>8, <3>1 DEF InStep
    <2>4. topic_filter[i + 1] \notin {"+", "#"}
      <3>1. i + 1 # 1 /\ (i + 1) - 1 = i
        BY <1>2, <2>3
      <3> QED
        BY <1>1, <2>2, <2>3, <3>1, Strings DEF WellFormed
    <2>5. ~(Len(fs) = 1 /\ fs[1] \in {<<>>, PlusLevel, HashLevel})
      <3>1. CASE topic_filter[i + 1] = "/"
        <4>1. Len(fs) >= 2
          BY <1>3, <1>4, <2>2, <3>1, FirstLevel
        <4>2. Len(fs) \in Nat /\ \A l \in Nat : l >= 2 => l # 1
          BY DEF LevelList
        <4>3. Len(fs) # 1
          BY <4>1, <4>2
        <4> QED
          BY <4>3
      <3>2. CASE topic_filter[i + 1] # "/"
        <4>1. PICK a \in Seq(Char) : a = LevelsFrom(topic_filter)[(i + 1) + 1][1]
          BY <1>3, <2>2, FirstLevelType
        <4>2. fs[1] = <<topic_filter[i + 1]>> \o a
          BY <1>3, <1>4, <2>2, <3>2, <4>1, FirstLevel
        <4>3. fs[1] # <<>>
          BY <2>2, <4>2, FirstCharacter
        <4>4. fs[1] # PlusLevel /\ fs[1] # HashLevel
          BY <2>2, <2>4, <4>2, Wildcards
        <4> QED
          BY <4>3, <4>4
      <3> QED
        BY <3>1, <3>2
    <2>6. ~(Len(fs) = 2 /\ fs[2] = HashLevel)
      <3> SUFFICES ASSUME Len(fs) = 2, fs[2] = HashLevel PROVE FALSE
        OBVIOUS
      <3>1. topic_filter[n] = "#"
        BY <1>1, <1>2, <1>3, <1>4, HashIsLast
      <3>2. i + 1 # n
        BY <2>4, <3>1
      <3>3. i < n - 1 /\ n \in 1 .. n /\ n # 1 /\ n - 1 \in 1 .. n
        BY <1>2, <1>8, <2>3, <3>2
      <3>4. topic_filter[n - 1] = "/"
        BY <1>1, <1>2, <3>1, <3>3, Strings DEF WellFormed
      <3>5. SubSeq(topic_filter, n - 1, n) = <<"/", "#">>
        <4>1. SubSeq(topic_filter, n - 1, n) = <<topic_filter[n - 1], topic_filter[n]>>
          BY <1>2, <1>3, <3>3, LastTwo
        <4> QED
          BY <3>1, <3>4, <4>1
      <3> QED
        BY <1>2, <3>3, <3>5 DEF EndsInSlashHash
    <2>7. ~LevelsMatch(fs, ts)
      BY <2>1, <2>5, <2>6, TopicEnds
    <2> QED
      BY <1>1, <1>5, <2>7
  <1> QED
    BY <1>6, <1>7, <1>8

LEMMA AfterLoop == ASSUME LoopInv, after_loop PROVE LoopInv'
  <1>1. /\ TFTypeOK /\ result = "running" /\ ~InLoop /\ topic_filter \in TopicFilters
        /\ Matches(topic_filter, topic) <=> RestMatches
        /\ UNCHANGED <<topic, topic_filter, t_idx, tf_idx>>
        /\ result' = IF BothExhausted \/ EndsInSlashHash THEN "match" ELSE "no match"
    BY DEF LoopInv, after_loop, TFTypeOK
  <1>2. TFTypeOK'
    BY <1>1 DEF TFTypeOK
  <1>3. CASE BothExhausted
    <2>1. /\ LevelsFrom(topic_filter)[tf_idx + 1] = << <<>> >>
          /\ LevelsFrom(topic)[t_idx + 1] = << <<>> >>
      BY <1>1, <1>3, Types, LevelsAt DEF BothExhausted
    <2>2. Matches(topic_filter, topic)
      BY <1>1, <2>1, BothEnd DEF RestMatches
    <2> QED
      BY <1>1, <1>2, <1>3, <2>2 DEF LoopInv, SoundWithoutHash, CompleteForNonEmptyLastLevel
  <1>4. CASE ~BothExhausted /\ EndsInSlashHash
    <2>1. EndsInHash(topic_filter)
      <3>1. PICK n \in Nat : n = Len(topic_filter) /\ n >= 1 /\ tf_idx \in Nat /\ tf_idx < n - 1
        BY <1>1, <1>4, Types DEF EndsInSlashHash
      <3>2. n >= 2 /\ topic_filter \in Seq(Char)
        <4>1. topic_filter \in Seq(Char)
          BY <1>1, Types
        <4>2. n >= 2
          BY <3>1
        <4> QED
          BY <4>1, <4>2
      <3>3. PICK c, d : c = topic_filter[n - 1] /\ d = topic_filter[n]
        OBVIOUS
      <3>4. <<c, d>> = <<"/", "#">>
        BY <1>4, <3>1, <3>2, <3>3, LastTwo DEF EndsInSlashHash
      <3>5. d = "#"
        BY <3>4
      <3> QED
        BY <3>1, <3>3, <3>5 DEF EndsInHash, Last
    <2> QED
      BY <1>1, <1>2, <1>4, <2>1 DEF LoopInv, SoundWithoutHash, CompleteForNonEmptyLastLevel
  <1>5. CASE ~BothExhausted /\ ~EndsInSlashHash
    <2>1. Last(topic) # "/" => ~Matches(topic_filter, topic)
      BY <1>1, <1>5, NoMatchIsRight
    <2> QED
      BY <1>1, <1>2, <1>5, <2>1 DEF LoopInv, SoundWithoutHash, CompleteForNonEmptyLastLevel
  <1> QED
    BY <1>3, <1>4, <1>5

-----------------------------------------------------------------------------
(* Theorems                                                                 *)

\* Whatever the client sends, the decoder returns packets as they should be, and
\* object, copy and answers agree with what was received.
THEOREM Invariant == Spec => []FlowInv
  BY InitInv, FlowStep, PTL DEF Spec

\* Frames, packets, the object and its copies, and what is sent, stay within
\* their types.
THEOREM TypeCorrect == Spec => []TypeOK
  <1>1. FlowInv => TypeOK
    BY DEF FlowInv
  <1> QED
    BY <1>1, Invariant, PTL

\* The remaining length a PUBLISH object keeps, and every answer states, is the
\* number of bytes that mqtt_packet_encoder writes, through all changes of
\* the object's QoS.
THEOREM LengthKept == Spec => []LengthMatches
  <1>1. FlowInv => LengthMatches
    BY DEF FlowInv, SentInv
  <1> QED
    BY <1>1, Invariant, PTL

\* A subscriber reads topic and message as they were published, at the QoS that
\* was granted to it, with RETAIN exactly if the message was retained.
THEOREM ForwardsIntact == Spec => []ForwardedIntact
  <1>1. FlowInv => ForwardedIntact
    BY DEF FlowInv, SentInv
  <1> QED
    BY <1>1, Invariant, PTL

\* An answer has the identifier of the packet answered, and SUBACK one return
\* code for each filter, in their order.
THEOREM AnswersRight == Spec => []AnswersFit
  <1>1. FlowInv => AnswersFit
    BY DEF FlowInv, SentInv
  <1> QED
    BY <1>1, Invariant, PTL

\* What is accepted was encoded, and what is legal is accepted.
THEOREM RoundTrips == Spec => []RoundTripInv
  <1>1. Init => RoundTripInv
    BY DEF Init, RoundTripInv, AcceptsOnlyEncodings, AcceptsWhatIsLegal, Accepted
  <1>2. FlowInv /\ RoundTripInv /\ [Next]_vars => RoundTripInv'
    BY RoundTripsStep
  <1> QED
    BY <1>1, <1>2, Invariant, PTL DEF Spec

\* A frame that is accepted is the encoding of what the server goes on with: no
\* byte of it is missing, left over or read twice.
THEOREM AcceptsEncodings == Spec => []AcceptsOnlyEncodings
  <1>1. RoundTripInv => AcceptsOnlyEncodings
    BY DEF RoundTripInv
  <1> QED
    BY <1>1, RoundTrips, PTL

\* What a client encodes as MQTT has it is accepted, and every field decoded is
\* the one the client meant.
THEOREM LegalAccepted == Spec => []AcceptsWhatIsLegal
  <1>1. RoundTripInv => AcceptsWhatIsLegal
    BY DEF RoundTripInv
  <1> QED
    BY <1>1, RoundTrips, PTL

\* While topic_filter_matches_topic runs, what is left of topic and filter
\* matches if and only if the whole does.
THEOREM RestDecides == TFSpec => []LoopInv
  <1>1. LoopInv /\ [TFNext]_TFvars => LoopInv'
    <2> SUFFICES ASSUME LoopInv, [TFNext]_TFvars
                 PROVE  LoopInv'
      OBVIOUS
    <2>1. CASE UNCHANGED TFvars
      BY <2>1 DEF TFvars, LoopInv, TFTypeOK, InStep, RestMatches, SoundWithoutHash,
                  CompleteForNonEmptyLastLevel
    <2> QED
      BY <2>1, SingleLevel, MultiLevel, Regular, AfterLoop DEF TFNext
  <1> QED
    BY <1>1, LoopInitInv, PTL DEF TFSpec

\* The indices of topic_filter_matches_topic never leave the strings they index.
THEOREM FilterTypeCorrect == TFSpec => []TFTypeOK
  <1>1. LoopInv => TFTypeOK
    BY DEF LoopInv
  <1> QED
    BY <1>1, RestDecides, PTL

\* What topic_filter_matches_topic finds to match does, in MQTT's definition,
\* unless the filter ends in #.
THEOREM MatchIsRight == TFSpec => []SoundWithoutHash
  <1>1. LoopInv => SoundWithoutHash
    BY DEF LoopInv
  <1> QED
    BY <1>1, RestDecides, PTL

\* What it finds not to match does not, unless the topic ends in an empty level.
THEOREM NoMatchIsMissed == TFSpec => []CompleteForNonEmptyLastLevel
  <1>1. LoopInv => CompleteForNonEmptyLastLevel
    BY DEF LoopInv
  <1> QED
    BY <1>1, RestDecides, PTL
=============================================================================
