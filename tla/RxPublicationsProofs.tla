------------------------- MODULE RxPublicationsProofs -------------------------
(***************************************************************************)
(* Theorems about incoming publications, for every number of identifiers,  *)
(* messages and retries, and every order of packets, timeouts and closes.  *)
(***************************************************************************)
EXTENDS RxPublications, TLAPS

-----------------------------------------------------------------------------
(* Packets in a channel                                                     *)

Positions(queue) == 1 .. Len(queue)

LEMMA TailAt ==
    ASSUME NEW S, NEW queue \in Seq(S), queue # <<>>
    PROVE  /\ Tail(queue) \in Seq(S)
           /\ Head(queue) \in S
           /\ 1 \in Positions(queue) /\ queue[1] = Head(queue)
           /\ \A i \in Positions(Tail(queue)) :
                 i + 1 \in Positions(queue) /\ Tail(queue)[i] = queue[i + 1]
  BY DEF Positions

LEMMA AppendAt ==
    ASSUME NEW S, NEW queue \in Seq(S), NEW packet \in S
    PROVE  /\ Append(queue, packet) \in Seq(S)
           /\ \A i \in Positions(Append(queue, packet)) :
                 \/ i \in Positions(queue) /\ Append(queue, packet)[i] = queue[i]
                 \/ i = Len(queue) + 1 /\ Append(queue, packet)[i] = packet
           /\ \A i \in Positions(queue) : i < Len(queue) + 1
           /\ Len(queue) + 1 \in Positions(Append(queue, packet))
  BY DEF Positions

\* What the channels hold when a packet is sent.
LEMMA Sends ==
    ASSUME toClient \in Seq(AckPacket), NEW packet \in AckPacket, send(packet)
    PROVE  /\ toClient' \in {toClient, Append(toClient, packet)}
           /\ sender # "open" => toClient' = toClient
           /\ toClient' \in Seq(AckPacket)
  BY DEF send

-----------------------------------------------------------------------------
(* Types                                                                    *)

\* A packet has an identifier exactly if something is to be answered.
IdentifierInv ==
    /\ publications[0] = NoPublication
    /\ \A i \in Positions(toClient) : toClient[i].id # 0
    /\ \A i \in Positions(fromClient) :
          /\ fromClient[i].type = "PUBREL" => fromClient[i].id # 0
          /\ fromClient[i].type = "PUBLISH" =>
                 (fromClient[i].id = 0 <=> fromClient[i].qos = "AT_MOST_ONCE")
    /\ reconnected => sender \in {"closed", "gone"} /\ toClient = <<>>

TypeInv == TypeOK /\ IdentifierInv

LEMMA PacketTypes ==
    /\ \A id \in PacketId, qos \in QoS, m \in Message :
          /\ Publish(id, qos, m) \in ClientPacket
          /\ Publish(id, qos, m).type = "PUBLISH" /\ Publish(id, qos, m).id = id
          /\ Publish(id, qos, m).qos = qos /\ Publish(id, qos, m).message = m
    /\ \A id \in PacketId :
          Pubrel(id) \in ClientPacket /\ Pubrel(id).type = "PUBREL" /\ Pubrel(id).id = id
    /\ \A id \in PacketId, type \in {"PUBACK", "PUBREC", "PUBCOMP"} :
          Ack(type, id) \in AckPacket /\ Ack(type, id).type = type /\ Ack(type, id).id = id
  BY DEF Publish, Pubrel, Ack, ClientPacket, AckPacket

LEMMA ClientPacketFields ==
    ASSUME NEW p \in ClientPacket
    PROVE  /\ p.type \in {"PUBLISH", "PUBREL"}
           /\ p.id \in PacketId
           /\ p.type = "PUBLISH" => p.qos \in QoS /\ p.message \in Message
  BY DEF ClientPacket

LEMMA AckPacketFields ==
    ASSUME NEW p \in AckPacket
    PROVE  p.type \in {"PUBACK", "PUBREC", "PUBCOMP"} /\ p.id \in PacketId
  BY DEF AckPacket

LEMMA Identifiers ==
    /\ 0 \in PacketId
    /\ ClientPacketId \subseteq PacketId
    /\ \A id \in PacketId : id # 0 => id \in ClientPacketId
    /\ 0 \notin ClientPacketId
  BY ConstantsAssumption DEF PacketId, ClientPacketId

LEMMA InFlightType ==
    ASSUME TypeOK, NEW id \in InFlight
    PROVE  id \in PacketId /\ publications[id] \in RxPublication
  BY DEF TypeOK, InFlight

LEMMA InitTypes == Init => TypeInv
  <1> SUFFICES ASSUME Init
               PROVE  TypeInv
    OBVIOUS
  <1>1. /\ <<>> \in Seq(AckPacket) /\ <<>> \in Seq(ClientPacket)
        /\ Positions(<<>>) = {}
    BY DEF Positions
  <1>2. TypeOK
    <2>1. /\ publications \in [PacketId -> RxPublication \cup {NoPublication}]
          /\ outgoing \in [ClientPacketId -> ClientPublication \cup {NoPublication}]
      BY DEF Init
    <2>2. /\ publishedQoS \in [Message -> QoS]
          /\ dispatched \in [Message -> Nat] /\ forgotten \in [Message -> Nat]
      BY DEF Init, QoS
    <2>3. client_retries \in 0 .. MaxClientRetries /\ published \in 0 .. MaxPublications
      BY ConstantsAssumption DEF Init
    <2>4. /\ session \in BOOLEAN /\ reconnected \in BOOLEAN /\ completed \subseteq Message
          /\ sender \in {"open", "closing", "closed", "gone"}
      BY DEF Init
    <2>5. toClient \in Seq(AckPacket) /\ fromClient \in Seq(ClientPacket)
      BY <1>1 DEF Init
    <2> QED
      BY <2>1, <2>2, <2>3, <2>4, <2>5 DEF TypeOK
  <1>3. IdentifierInv
    BY <1>1, Identifiers DEF Init, IdentifierInv
  <1> QED
    BY <1>2, <1>3 DEF TypeInv

\* A packet the server has taken off the channel.
LEMMA Received ==
    ASSUME TypeInv, packet_received
    PROVE  LET p == Head(fromClient)
           IN  /\ fromClient # <<>> /\ p \in ClientPacket
               /\ fromClient' = Tail(fromClient) /\ fromClient' \in Seq(ClientPacket)
               /\ 1 \in Positions(fromClient) /\ fromClient[1] = p
               /\ \A i \in Positions(fromClient') :
                     i + 1 \in Positions(fromClient) /\ fromClient'[i] = fromClient[i + 1]
               /\ UNCHANGED <<session, clientVars>>
  <1>1. fromClient # <<>> /\ fromClient' = Tail(fromClient) /\ UNCHANGED <<session, clientVars>>
    BY DEF packet_received
  <1>2. fromClient \in Seq(ClientPacket)
    BY DEF TypeInv, TypeOK
  <1> QED
    BY <1>1, <1>2, TailAt

\* What the server makes of a packet.
Ignored ==
    UNCHANGED <<publications, toClient, dispatched, forgotten>>

DispatchedOnce(p) ==
    /\ p.type = "PUBLISH" /\ session /\ p.id \notin InFlight
    /\ dispatched' = [dispatched EXCEPT ![p.message] = @ + 1]
    /\ UNCHANGED publications
    /\ \/ /\ p.qos = "EXACTLY_ONCE"
          /\ forgotten' = [forgotten EXCEPT ![p.message] = @ + 1]
          /\ UNCHANGED toClient
       \/ /\ p.qos = "AT_MOST_ONCE"
          /\ UNCHANGED <<forgotten, toClient>>
       \/ /\ p.qos = "AT_LEAST_ONCE"
          /\ \/ UNCHANGED toClient
             \/ sender = "open" /\ toClient' = Append(toClient, Ack("PUBACK", p.id))
          /\ UNCHANGED forgotten

Recorded(p) ==
    /\ p.type = "PUBLISH" /\ session /\ p.id \notin InFlight /\ p.qos = "EXACTLY_ONCE"
    /\ dispatched' = [dispatched EXCEPT ![p.message] = @ + 1]
    /\ publications' = [publications EXCEPT ![p.id] =
           [retry_count |-> 0, armed |-> TRUE, queued |-> FALSE, message |-> p.message]]
    /\ \/ UNCHANGED toClient
       \/ sender = "open" /\ toClient' = Append(toClient, Ack("PUBREC", p.id))
    /\ UNCHANGED forgotten

ReleasedBy(p) ==
    /\ p.type = "PUBREL" /\ p.id \in InFlight
    /\ publications' = [publications EXCEPT ![p.id] = NoPublication]
    /\ \/ UNCHANGED toClient
       \/ sender = "open" /\ toClient' = Append(toClient, Ack("PUBCOMP", p.id))
    /\ UNCHANGED <<dispatched, forgotten>>

LEMMA ReceivedCases ==
    ASSUME TypeInv, packet_received
    PROVE  LET p == Head(fromClient)
           IN  /\ Ignored \/ DispatchedOnce(p) \/ Recorded(p) \/ ReleasedBy(p)
               /\ sender' \in {sender, "closed"}
               /\ sender = "gone" => sender' = "gone"
  <1> DEFINE p == Head(fromClient)
  <1>1. sender' \in {sender, "closed"} /\ (sender = "gone" => sender' = "gone")
    BY DEF packet_received, packet_handled, client_sent_pubrel, stop
  <1>2. Ignored \/ DispatchedOnce(p) \/ Recorded(p) \/ ReleasedBy(p)
    <2>2. CASE ~session
      BY <2>2 DEF packet_received, Ignored, historyVars
    <2>3. CASE session /\ p.type = "PUBLISH" /\ client_sent_publish(p)
      <3>1. CASE p.id \in InFlight
        BY <2>3, <3>1 DEF client_sent_publish, Ignored
      <3>2. CASE p.id \notin InFlight /\ client_publish_accepted(p)
        <4>1. dispatched' = [dispatched EXCEPT ![p.message] = @ + 1]
          BY <3>2 DEF client_publish_accepted, dispatch
        <4>2. CASE p.qos = "AT_MOST_ONCE"
          BY <2>3, <3>2, <4>1, <4>2 DEF client_publish_accepted, DispatchedOnce
        <4>3. CASE p.qos = "AT_LEAST_ONCE"
          BY <2>3, <3>2, <4>1, <4>3 DEF client_publish_accepted, DispatchedOnce, send
        <4>4. CASE p.qos = "EXACTLY_ONCE" /\ sender = "gone"
          BY <2>3, <3>2, <4>1, <4>4 DEF client_publish_accepted, DispatchedOnce, forget
        <4>5. CASE p.qos = "EXACTLY_ONCE" /\ sender # "gone"
          BY <2>3, <3>2, <4>1, <4>5
             DEF client_publish_accepted, Recorded, send, start_pubrel_timeout
        <4> QED
          BY <3>2, <4>2, <4>3, <4>4, <4>5 DEF client_publish_accepted
      <3> QED
        BY <2>3, <3>1, <3>2 DEF client_sent_publish
    <2>4. CASE session /\ p.type = "PUBREL" /\ client_sent_pubrel(p) /\ UNCHANGED historyVars
      BY <2>4 DEF client_sent_pubrel, Ignored, ReleasedBy, release, send, historyVars
    <2> QED
      BY <2>2, <2>3, <2>4 DEF packet_received
  <1> QED
    BY <1>1, <1>2

LEMMA ReceivedTypes ==
    ASSUME TypeInv, packet_received
    PROVE  TypeInv'
  <1> DEFINE p == Head(fromClient)
  <1>1. /\ fromClient # <<>> /\ p \in ClientPacket
        /\ fromClient' = Tail(fromClient) /\ fromClient' \in Seq(ClientPacket)
        /\ 1 \in Positions(fromClient) /\ fromClient[1] = p
        /\ \A i \in Positions(fromClient') :
              i + 1 \in Positions(fromClient) /\ fromClient'[i] = fromClient[i + 1]
        /\ UNCHANGED <<session, clientVars>>
    BY Received
  <1>2. /\ Ignored \/ DispatchedOnce(p) \/ Recorded(p) \/ ReleasedBy(p)
        /\ sender' \in {sender, "closed"}
        /\ sender = "gone" => sender' = "gone"
    BY ReceivedCases
  <1> HIDE DEF p
  <1>3. /\ p.type \in {"PUBLISH", "PUBREL"} /\ p.id \in PacketId
        /\ p.type = "PUBLISH" => p.qos \in QoS /\ p.message \in Message
    BY <1>1, ClientPacketFields
  <1>4. /\ p.type = "PUBREL" => p.id # 0
        /\ p.type = "PUBLISH" => (p.id = 0 <=> p.qos = "AT_MOST_ONCE")
    BY <1>1 DEF TypeInv, IdentifierInv
  \* Whatever is answered is answered under the identifier received.
  <1>5. \/ UNCHANGED toClient
        \/ /\ sender = "open" /\ p.id # 0
           /\ \E type \in {"PUBACK", "PUBREC", "PUBCOMP"} :
                 toClient' = Append(toClient, Ack(type, p.id))
    BY <1>2, <1>4 DEF Ignored, DispatchedOnce, Recorded, ReleasedBy
  <1>6. toClient' \in Seq(AckPacket) /\ \A i \in Positions(toClient') : toClient'[i].id # 0
    <2>1. CASE UNCHANGED toClient
      BY <2>1 DEF TypeInv, TypeOK, IdentifierInv
    <2>2. CASE p.id # 0 /\ \E type \in {"PUBACK", "PUBREC", "PUBCOMP"} :
                               toClient' = Append(toClient, Ack(type, p.id))
      <3>1. PICK type \in {"PUBACK", "PUBREC", "PUBCOMP"} :
                toClient' = Append(toClient, Ack(type, p.id))
        BY <2>2
      <3>2. Ack(type, p.id) \in AckPacket /\ Ack(type, p.id).id = p.id
        BY <1>3, PacketTypes
      <3>3. toClient \in Seq(AckPacket) /\ \A i \in Positions(toClient) : toClient[i].id # 0
        BY DEF TypeInv, TypeOK, IdentifierInv
      <3> QED
        BY <2>2, <3>1, <3>2, <3>3, AppendAt
    <2> QED
      BY <1>5, <2>1, <2>2
  <1>7. /\ publications' \in [PacketId -> RxPublication \cup {NoPublication}]
        /\ publications'[0] = NoPublication
    <2>1. p.type = "PUBLISH" => [retry_count |-> 0, armed |-> TRUE, queued |-> FALSE,
                                  message |-> p.message] \in RxPublication
      BY <1>3, ConstantsAssumption DEF RxPublication
    <2>2. /\ publications \in [PacketId -> RxPublication \cup {NoPublication}]
          /\ publications[0] = NoPublication
      BY DEF TypeInv, TypeOK, IdentifierInv
    <2>3. CASE Ignored \/ DispatchedOnce(p)
      BY <2>2, <2>3 DEF Ignored, DispatchedOnce
    <2>4. CASE Recorded(p)
      <3>1. /\ p.id \in PacketId /\ p.id # 0
            /\ publications' = [publications EXCEPT ![p.id] =
                   [retry_count |-> 0, armed |-> TRUE, queued |-> FALSE, message |-> p.message]]
        BY <1>3, <1>4, <2>4 DEF Recorded
      <3>2. p.type = "PUBLISH"
        BY <2>4 DEF Recorded
      <3> QED
        BY <2>1, <2>2, <3>1, <3>2, Identifiers
    <2>5. CASE ReleasedBy(p)
      <3>1. p.id \in PacketId /\ publications' = [publications EXCEPT ![p.id] = NoPublication]
        BY <1>3, <2>5 DEF ReleasedBy
      <3> QED
        BY <2>2, <3>1, Identifiers
    <2> QED
      BY <1>2, <2>3, <2>4, <2>5
  <1>8. dispatched' \in [Message -> Nat] /\ forgotten' \in [Message -> Nat]
    <2>1. dispatched \in [Message -> Nat] /\ forgotten \in [Message -> Nat]
      BY DEF TypeInv, TypeOK
    <2>2. \A m \in Message : /\ [dispatched EXCEPT ![m] = @ + 1] \in [Message -> Nat]
                             /\ [forgotten EXCEPT ![m] = @ + 1] \in [Message -> Nat]
      BY <2>1
    <2>3. \/ dispatched' = dispatched
          \/ p.message \in Message /\ dispatched' = [dispatched EXCEPT ![p.message] = @ + 1]
      BY <1>2, <1>3 DEF Ignored, DispatchedOnce, Recorded, ReleasedBy
    <2>4. \/ forgotten' = forgotten
          \/ p.message \in Message /\ forgotten' = [forgotten EXCEPT ![p.message] = @ + 1]
      BY <1>2, <1>3 DEF Ignored, DispatchedOnce, Recorded, ReleasedBy
    <2> QED
      BY <2>1, <2>2, <2>3, <2>4
  <1>9. /\ sender' \in {"open", "closing", "closed", "gone"}
        /\ reconnected => sender' \in {"closed", "gone"} /\ toClient' = <<>>
    BY <1>2, <1>5 DEF TypeInv, TypeOK, IdentifierInv
  <1>10. TypeOK'
    BY <1>1, <1>6, <1>7, <1>8, <1>9 DEF TypeInv, TypeOK, clientVars
  <1>11. IdentifierInv'
    <2>1. \A i \in Positions(fromClient') :
             /\ fromClient'[i].type = "PUBREL" => fromClient'[i].id # 0
             /\ fromClient'[i].type = "PUBLISH" =>
                    (fromClient'[i].id = 0 <=> fromClient'[i].qos = "AT_MOST_ONCE")
      BY <1>1 DEF TypeInv, IdentifierInv
    <2> QED
      BY <1>1, <1>6, <1>7, <1>9, <2>1 DEF IdentifierInv, clientVars
  <1> QED
    BY <1>10, <1>11 DEF TypeInv

\* What a timer does to a publication.
TimerStep(id) ==
    /\ id \in InFlight
    /\ UNCHANGED <<sender, session, fromClient, clientVars, dispatched>>
    /\ \/ /\ \E p \in RxPublication :
                p.message = publications[id].message
                    /\ publications' = [publications EXCEPT ![id] = p]
          /\ \/ UNCHANGED toClient
             \/ sender = "open" /\ toClient' = Append(toClient, Ack("PUBREC", id))
          /\ UNCHANGED forgotten
       \/ /\ publications' = [publications EXCEPT ![id] = NoPublication]
          /\ forgotten' = [forgotten EXCEPT ![publications[id].message] = @ + 1]
          /\ UNCHANGED toClient

LEMMA TimerCases ==
    ASSUME TypeInv, NEW id \in PacketId, timer_expires(id) \/ pubrel_timeout_expired(id)
    PROVE  TimerStep(id)
  <1>1. id \in InFlight /\ publications[id] \in RxPublication
    BY InFlightType DEF timer_expires, pubrel_timeout_expired, TypeInv
  <1>2. CASE timer_expires(id)
    <2> DEFINE p == [publications[id] EXCEPT !.armed = FALSE, !.queued = TRUE]
    <2>1. p \in RxPublication /\ p.message = publications[id].message
      BY <1>1 DEF RxPublication
    <2>2. publications' = [publications EXCEPT ![id] = p]
      BY <1>1, <1>2 DEF timer_expires, TypeInv, TypeOK
    <2> HIDE DEF p
    <2> QED
      BY <1>1, <1>2, <2>1, <2>2 DEF timer_expires, TimerStep, channelVars, historyVars
  <1>3. CASE pubrel_timeout_expired(id)
    <2> DEFINE p == [publications[id] EXCEPT !.queued = FALSE,
                                             !.retry_count = NextRetryCount(publications[id])]
               q == start_pubrel_timeout(p)
    <2>1. NextRetryCount(publications[id]) \in 0 .. MaxRetryCount
      BY <1>1, ConstantsAssumption DEF NextRetryCount, RxPublication
    <2>2. p \in RxPublication /\ p.message = publications[id].message
      BY <1>1, <2>1 DEF RxPublication
    <2>3. q = [p EXCEPT !.armed = TRUE]
      BY DEF start_pubrel_timeout
    <2>4. /\ UNCHANGED <<sender, session, fromClient, clientVars, dispatched>>
          /\ \/ /\ send(Ack("PUBREC", id))
                /\ publications' = [publications EXCEPT ![id] = q]
                /\ UNCHANGED forgotten
             \/ /\ release(id) /\ forget(p.message)
                /\ UNCHANGED toClient
      BY <1>3 DEF pubrel_timeout_expired
    <2> HIDE DEF p, q
    <2>5. q \in RxPublication /\ q.message = publications[id].message
      BY <2>2, <2>3 DEF RxPublication
    <2> QED
      BY <1>1, <2>2, <2>4, <2>5 DEF TimerStep, send, release, forget
  <1> QED
    BY <1>2, <1>3

LEMMA TimerTypes ==
    ASSUME TypeInv, NEW id \in PacketId, TimerStep(id)
    PROVE  TypeInv'
  <1>1. id # 0 /\ publications[id] \in RxPublication
    BY InFlightType DEF TimerStep, TypeInv, IdentifierInv, InFlight
  <1>2. publications[id].message \in Message
    BY <1>1 DEF RxPublication
  <1>3. toClient' \in Seq(AckPacket) /\ \A i \in Positions(toClient') : toClient'[i].id # 0
    <2>1. CASE UNCHANGED toClient
      BY <2>1 DEF TypeInv, TypeOK, IdentifierInv
    <2>2. CASE toClient' = Append(toClient, Ack("PUBREC", id))
      <3> DEFINE a == Ack("PUBREC", id)
      <3>1. a \in AckPacket /\ a.id = id
        BY PacketTypes
      <3>2. toClient \in Seq(AckPacket) /\ \A i \in Positions(toClient) : toClient[i].id # 0
        BY DEF TypeInv, TypeOK, IdentifierInv
      <3> HIDE DEF a
      <3>3. /\ Append(toClient, a) \in Seq(AckPacket)
            /\ \A i \in Positions(Append(toClient, a)) :
                 \/ i \in Positions(toClient) /\ Append(toClient, a)[i] = toClient[i]
                 \/ i = Len(toClient) + 1 /\ Append(toClient, a)[i] = a
        BY <3>1, <3>2, AppendAt
      <3> QED
        BY <1>1, <2>2, <3>1, <3>2, <3>3 DEF a
    <2> QED
      BY <2>1, <2>2 DEF TimerStep
  <1>4. /\ publications' \in [PacketId -> RxPublication \cup {NoPublication}]
        /\ publications'[0] = NoPublication
        /\ forgotten' \in [Message -> Nat]
    <2>1. /\ publications \in [PacketId -> RxPublication \cup {NoPublication}]
          /\ publications[0] = NoPublication /\ forgotten \in [Message -> Nat]
      BY DEF TypeInv, TypeOK, IdentifierInv
    <2>2. \E p \in RxPublication \cup {NoPublication} : publications' = [publications EXCEPT ![id] = p]
      BY DEF TimerStep
    <2>3. [forgotten EXCEPT ![publications[id].message] = @ + 1] \in [Message -> Nat]
      BY <1>2, <2>1
    <2>4. forgotten' \in {forgotten, [forgotten EXCEPT ![publications[id].message] = @ + 1]}
      BY DEF TimerStep
    <2> QED
      BY <1>1, <2>1, <2>2, <2>3, <2>4, Identifiers
  <1>5. TypeOK'
    BY <1>3, <1>4 DEF TypeInv, TypeOK, TimerStep, clientVars
  <1>6. IdentifierInv'
    <2>1. reconnected => UNCHANGED toClient
      BY DEF TimerStep, TypeInv, IdentifierInv
    <2> QED
      BY <1>3, <1>4, <2>1 DEF TypeInv, IdentifierInv, TimerStep, clientVars
  <1> QED
    BY <1>5, <1>6 DEF TypeInv

LEMMA ConnectionTypes ==
    ASSUME TypeInv, connection_closed \/ connection_destroyed \/ session_destroyed
    PROVE  TypeInv'
  <1>1. CASE connection_closed
    BY <1>1 DEF TypeInv, TypeOK, IdentifierInv, connection_closed, channelVars, clientVars,
                historyVars
  <1>2. CASE connection_destroyed
    BY <1>2 DEF TypeInv, TypeOK, IdentifierInv, connection_destroyed, channelVars, clientVars,
                historyVars
  <1>3. CASE session_destroyed
    <2>1. /\ publications' \in [PacketId -> RxPublication \cup {NoPublication}]
          /\ publications'[0] = NoPublication
      BY <1>3, Identifiers DEF session_destroyed
    <2> QED
      BY <1>3, <2>1 DEF TypeInv, TypeOK, IdentifierInv, session_destroyed, channelVars,
                        clientVars, historyVars
  <1> QED
    BY <1>1, <1>2, <1>3

\* A packet the client has put into its channel.
SentByClient(p) ==
    /\ p \in ClientPacket
    /\ fromClient' = Append(fromClient, p)
    /\ fromClient' \in Seq(ClientPacket)
    /\ \A i \in Positions(fromClient') :
          \/ i \in Positions(fromClient) /\ fromClient'[i] = fromClient[i]
          \/ i = Len(fromClient) + 1 /\ fromClient'[i] = p
    /\ \A i \in Positions(fromClient) : i < Len(fromClient) + 1

LEMMA Sent ==
    ASSUME TypeInv, NEW p \in ClientPacket, client_sends(p)
    PROVE  SentByClient(p)
  <1>1. fromClient \in Seq(ClientPacket) /\ fromClient' = Append(fromClient, p)
    BY DEF TypeInv, TypeOK, client_sends
  <1> QED
    BY <1>1, AppendAt DEF SentByClient

\* A new message m.
PublishesNew(m, qos, id) ==
    /\ m = published + 1 /\ m \in Message /\ published' = m
    /\ publishedQoS' = [publishedQoS EXCEPT ![m] = qos]
    /\ id \in PacketId /\ (id = 0 <=> qos = "AT_MOST_ONCE")
    /\ SentByClient(Publish(id, qos, m))
    /\ \/ id = 0 /\ UNCHANGED outgoing
       \/ /\ id # 0 /\ outgoing[id] = NoPublication
          /\ outgoing' = [outgoing EXCEPT ![id] = [phase |-> "publish", qos |-> qos, message |-> m]]
    /\ UNCHANGED <<serverVars, toClient, client_retries, reconnected, completed, historyVars>>

LEMMA PublishCases ==
    ASSUME TypeInv, NEW qos \in QoS, client_publishes(qos)
    PROVE  \E m \in Message, id \in PacketId : PublishesNew(m, qos, id)
  <1> DEFINE m == published + 1
  <1>1. m \in Message /\ published \in Nat
    BY ConstantsAssumption DEF client_publishes, TypeInv, TypeOK, Message
  <1>2. /\ published' = m /\ publishedQoS' = [publishedQoS EXCEPT ![m] = qos]
        /\ UNCHANGED <<serverVars, toClient, client_retries, reconnected, completed, historyVars>>
    BY DEF client_publishes
  <1>3. CASE qos = "AT_MOST_ONCE"
    <2>1. client_sends(Publish(0, qos, m)) /\ UNCHANGED outgoing
      BY <1>3 DEF client_publishes
    <2>2. 0 \in PacketId /\ Publish(0, qos, m) \in ClientPacket
      BY <1>1, PacketTypes, Identifiers
    <2>3. PublishesNew(m, qos, 0)
      BY <1>1, <1>2, <1>3, <2>1, <2>2, Sent DEF PublishesNew
    <2> QED
      BY <1>1, <2>2, <2>3
  <1>4. CASE qos # "AT_MOST_ONCE"
    <2>1. PICK id \in ClientPacketId :
              /\ outgoing[id] = NoPublication
              /\ outgoing' = [outgoing EXCEPT ![id] =
                     [phase |-> "publish", qos |-> qos, message |-> m]]
              /\ client_sends(Publish(id, qos, m))
      BY <1>4 DEF client_publishes
    <2>2. id \in PacketId /\ id # 0 /\ Publish(id, qos, m) \in ClientPacket
      BY <1>1, PacketTypes, Identifiers
    <2>3. PublishesNew(m, qos, id)
      BY <1>1, <1>2, <1>4, <2>1, <2>2, Sent DEF PublishesNew
    <2> QED
      BY <1>1, <2>2, <2>3
  <1> QED
    BY <1>3, <1>4

LEMMA PublishTypes ==
    ASSUME TypeInv, NEW m \in Message, NEW qos \in QoS, NEW id \in PacketId,
           PublishesNew(m, qos, id)
    PROVE  TypeInv'
  <1> DEFINE p == Publish(id, qos, m)
             o == [phase |-> "publish", qos |-> qos, message |-> m]
  <1>1. /\ p.type = "PUBLISH" /\ p.id = id /\ p.qos = qos
        /\ o \in ClientPublication
    BY PacketTypes DEF ClientPublication
  <1>2. /\ outgoing' \in [ClientPacketId -> ClientPublication \cup {NoPublication}]
        /\ publishedQoS' \in [Message -> QoS] /\ published' \in 0 .. MaxPublications
    <2>1. m \in 0 .. MaxPublications
      BY ConstantsAssumption DEF Message
    <2> QED
      BY <1>1, <2>1, Identifiers DEF TypeInv, TypeOK, PublishesNew
  <1> HIDE DEF p, o
  <1>3. SentByClient(p) /\ (id = 0 <=> qos = "AT_MOST_ONCE")
    BY DEF PublishesNew, p
  <1>4. TypeOK'
    BY <1>2, <1>3 DEF TypeInv, TypeOK, PublishesNew, SentByClient, serverVars, historyVars
  <1>5. \A i \in Positions(fromClient') :
           /\ fromClient'[i].type = "PUBREL" => fromClient'[i].id # 0
           /\ fromClient'[i].type = "PUBLISH" =>
                  (fromClient'[i].id = 0 <=> fromClient'[i].qos = "AT_MOST_ONCE")
    BY <1>1, <1>3 DEF TypeInv, IdentifierInv, SentByClient
  <1>6. IdentifierInv'
    BY <1>5 DEF TypeInv, IdentifierInv, PublishesNew, serverVars
  <1> QED
    BY <1>4, <1>6 DEF TypeInv

\* A retry of the client.
ResendsFor(id) ==
    /\ outgoing[id] # NoPublication
    /\ outgoing[id].qos = "EXACTLY_ONCE" \/ reconnected
    /\ \/ /\ outgoing[id].phase = "publish"
          /\ SentByClient(Publish(id, outgoing[id].qos, outgoing[id].message))
       \/ /\ outgoing[id].phase = "release"
          /\ SentByClient(Pubrel(id))
    /\ UNCHANGED <<serverVars, toClient, outgoing, reconnected, published,
                   publishedQoS, completed, historyVars>>

LEMMA ResendCases ==
    ASSUME TypeInv, NEW id \in ClientPacketId, client_resends(id)
    PROVE  ResendsFor(id) /\ client_retries' \in 0 .. MaxClientRetries
  <1>1. /\ outgoing[id] # NoPublication
        /\ outgoing[id].qos = "EXACTLY_ONCE" \/ reconnected
        /\ UNCHANGED <<serverVars, toClient, outgoing, reconnected, published,
                       publishedQoS, completed, historyVars>>
    BY DEF client_resends
  <1>2. outgoing[id] \in ClientPublication
    BY <1>1 DEF TypeInv, TypeOK
  <1>3. /\ outgoing[id].phase \in {"publish", "release"}
        /\ outgoing[id].qos \in QoS /\ outgoing[id].message \in Message
        /\ id \in PacketId
    BY <1>2, Identifiers DEF ClientPublication
  <1>4. CASE outgoing[id].phase = "publish"
    <2>1. /\ Publish(id, outgoing[id].qos, outgoing[id].message) \in ClientPacket
          /\ client_sends(Publish(id, outgoing[id].qos, outgoing[id].message))
      BY <1>3, <1>4, PacketTypes DEF client_resends
    <2> QED
      BY <1>1, <1>4, <2>1, Sent, ConstantsAssumption DEF ResendsFor, client_resends, TypeInv, TypeOK
  <1>5. CASE outgoing[id].phase = "release"
    <2>1. Pubrel(id) \in ClientPacket /\ client_sends(Pubrel(id))
      BY <1>3, <1>5, PacketTypes DEF client_resends
    <2> QED
      BY <1>1, <1>5, <2>1, Sent, ConstantsAssumption DEF ResendsFor, client_resends, TypeInv, TypeOK
  <1> QED
    BY <1>3, <1>4, <1>5

LEMMA ResendTypes ==
    ASSUME TypeInv, NEW id \in ClientPacketId, ResendsFor(id),
           outgoing[id].qos # "AT_MOST_ONCE", client_retries' \in 0 .. MaxClientRetries
    PROVE  TypeInv'
  <1>1. outgoing[id] \in ClientPublication /\ id \in PacketId /\ id # 0
    BY Identifiers DEF ResendsFor, TypeInv, TypeOK
  <1>2. PICK p \in ClientPacket :
            /\ SentByClient(p) /\ p.id = id
            /\ p.type = "PUBLISH" => p.qos # "AT_MOST_ONCE"
    <2>1. outgoing[id].qos \in QoS /\ outgoing[id].message \in Message
      BY <1>1 DEF ClientPublication
    <2>2. /\ Pubrel(id) \in ClientPacket /\ Pubrel(id).id = id /\ Pubrel(id).type = "PUBREL"
      BY <1>1, PacketTypes
    <2>3. /\ Publish(id, outgoing[id].qos, outgoing[id].message) \in ClientPacket
          /\ Publish(id, outgoing[id].qos, outgoing[id].message).id = id
          /\ Publish(id, outgoing[id].qos, outgoing[id].message).qos = outgoing[id].qos
      BY <1>1, <2>1, PacketTypes
    <2> QED
      BY <2>2, <2>3 DEF ResendsFor
  <1>3. TypeOK'
    BY <1>2 DEF TypeInv, TypeOK, ResendsFor, SentByClient, serverVars, historyVars
  <1>4. \A i \in Positions(fromClient') :
           /\ fromClient'[i].type = "PUBREL" => fromClient'[i].id # 0
           /\ fromClient'[i].type = "PUBLISH" =>
                  (fromClient'[i].id = 0 <=> fromClient'[i].qos = "AT_MOST_ONCE")
    BY <1>1, <1>2 DEF TypeInv, IdentifierInv, SentByClient
  <1>5. IdentifierInv'
    BY <1>4 DEF TypeInv, IdentifierInv, ResendsFor, serverVars
  <1> QED
    BY <1>3, <1>5 DEF TypeInv

\* The client takes an answer off its channel.
ReceivesAnswer(a) ==
    /\ toClient # <<>> /\ a \in AckPacket /\ a.id \in ClientPacketId
    /\ toClient' = Tail(toClient) /\ toClient' \in Seq(AckPacket)
    /\ 1 \in Positions(toClient) /\ toClient[1] = a
    /\ \A i \in Positions(toClient') :
          i + 1 \in Positions(toClient) /\ toClient'[i] = toClient[i + 1]
    /\ \/ UNCHANGED <<outgoing, fromClient, completed>>
       \/ /\ a.type = "PUBREC"
          /\ outgoing' = IF outgoing[a.id] = NoPublication THEN outgoing
                         ELSE [outgoing EXCEPT ![a.id].phase = "release"]
          /\ SentByClient(Pubrel(a.id))
          /\ UNCHANGED completed
       \/ /\ a.type # "PUBREC" /\ outgoing[a.id] # NoPublication
          /\ outgoing' = [outgoing EXCEPT ![a.id] = NoPublication]
          /\ completed' = completed \cup {outgoing[a.id].message}
          /\ UNCHANGED fromClient
    /\ UNCHANGED <<serverVars, client_retries, reconnected, published, publishedQoS, historyVars>>

LEMMA AnswerCases ==
    ASSUME TypeInv, client_receives
    PROVE  ReceivesAnswer(Head(toClient))
  <1> DEFINE a == Head(toClient)
  <1>1. toClient \in Seq(AckPacket) /\ toClient # <<>> /\ toClient' = Tail(toClient)
    BY DEF TypeInv, TypeOK, client_receives
  <1>2. /\ a \in AckPacket /\ toClient' \in Seq(AckPacket)
        /\ 1 \in Positions(toClient) /\ toClient[1] = a
        /\ \A i \in Positions(toClient') :
              i + 1 \in Positions(toClient) /\ toClient'[i] = toClient[i + 1]
    BY <1>1, TailAt
  <1>3. a.id \in ClientPacketId /\ a.id \in PacketId
    BY <1>2, AckPacketFields, Identifiers DEF TypeInv, IdentifierInv
  <1>4. Pubrel(a.id) \in ClientPacket
    BY <1>3, PacketTypes
  <1>5. UNCHANGED <<serverVars, client_retries, reconnected, published, publishedQoS, historyVars>>
    BY DEF client_receives
  <1>6. \/ UNCHANGED <<outgoing, fromClient, completed>>
        \/ /\ a.type = "PUBREC"
           /\ outgoing' = IF outgoing[a.id] = NoPublication THEN outgoing
                          ELSE [outgoing EXCEPT ![a.id].phase = "release"]
           /\ client_sends(Pubrel(a.id))
           /\ UNCHANGED completed
        \/ /\ a.type # "PUBREC" /\ outgoing[a.id] # NoPublication
           /\ outgoing' = [outgoing EXCEPT ![a.id] = NoPublication]
           /\ completed' = completed \cup {outgoing[a.id].message}
           /\ UNCHANGED fromClient
    BY DEF client_receives
  <1> HIDE DEF a
  <1>7. client_sends(Pubrel(a.id)) => SentByClient(Pubrel(a.id))
    BY <1>4, Sent
  <1> QED
    BY <1>1, <1>2, <1>3, <1>5, <1>6, <1>7 DEF ReceivesAnswer, a

LEMMA AnswerTypes ==
    ASSUME TypeInv, NEW a, ReceivesAnswer(a)
    PROVE  TypeInv'
  <1>1. /\ \A id \in ClientPacketId : outgoing[id] \in ClientPublication \cup {NoPublication}
        /\ a.id \in ClientPacketId /\ a.id \in PacketId /\ a.id # 0
    BY Identifiers DEF TypeInv, TypeOK, ReceivesAnswer
  <1>2. outgoing[a.id] # NoPublication =>
            /\ outgoing[a.id].message \in Message
            /\ [outgoing[a.id] EXCEPT !.phase = "release"] \in ClientPublication
    BY <1>1 DEF ClientPublication
  <1>3. /\ outgoing' \in [ClientPacketId -> ClientPublication \cup {NoPublication}]
        /\ completed' \subseteq Message
    BY <1>1, <1>2 DEF TypeInv, TypeOK, ReceivesAnswer
  <1>4. TypeOK'
    BY <1>3 DEF TypeInv, TypeOK, ReceivesAnswer, SentByClient, serverVars, historyVars
  <1>5. Pubrel(a.id).id = a.id /\ Pubrel(a.id).type = "PUBREL"
    BY <1>1, PacketTypes
  <1>6. \A i \in Positions(fromClient') :
           /\ fromClient'[i].type = "PUBREL" => fromClient'[i].id # 0
           /\ fromClient'[i].type = "PUBLISH" =>
                  (fromClient'[i].id = 0 <=> fromClient'[i].qos = "AT_MOST_ONCE")
    <2>1. UNCHANGED fromClient \/ SentByClient(Pubrel(a.id))
      BY DEF ReceivesAnswer
    <2>2. CASE UNCHANGED fromClient
      BY <2>2 DEF TypeInv, IdentifierInv
    <2>3. CASE SentByClient(Pubrel(a.id))
      BY <1>1, <1>5, <2>3 DEF TypeInv, IdentifierInv, SentByClient
    <2> QED
      BY <2>1, <2>2, <2>3
  <1>7. \A i \in Positions(toClient') : toClient'[i].id # 0
    BY DEF TypeInv, IdentifierInv, ReceivesAnswer
  <1>8. ~reconnected
    BY DEF TypeInv, IdentifierInv, ReceivesAnswer
  <1>9. IdentifierInv'
    BY <1>6, <1>7, <1>8 DEF TypeInv, IdentifierInv, ReceivesAnswer, serverVars
  <1> QED
    BY <1>4, <1>9 DEF TypeInv

LEMMA ReconnectTypes ==
    ASSUME TypeInv, client_reconnects
    PROVE  TypeInv'
  <1>1. /\ <<>> \in Seq(AckPacket) /\ <<>> \in Seq(ClientPacket)
        /\ Positions(<<>>) = {}
    BY DEF Positions
  <1>2. TypeOK'
    BY <1>1 DEF TypeInv, TypeOK, client_reconnects, serverVars, historyVars
  <1>3. IdentifierInv'
    BY <1>1 DEF TypeInv, IdentifierInv, client_reconnects, serverVars
  <1> QED
    BY <1>2, <1>3 DEF TypeInv

-----------------------------------------------------------------------------
(* The inductive invariant                                                  *)

PublishAt(i, id) == fromClient[i].type = "PUBLISH" /\ fromClient[i].id = id

PubrelAt(i, id) == fromClient[i].type = "PUBREL" /\ fromClient[i].id = id

FinalAckAt(i, id) == toClient[i].type # "PUBREC" /\ toClient[i].id = id

Publishing(id) == outgoing[id] # NoPublication /\ outgoing[id].phase = "publish"

\* The client has each message under one identifier, until it is completed.
OutgoingInv ==
    /\ \A id \in ClientPacketId : outgoing[id] # NoPublication =>
          /\ outgoing[id].message <= published
          /\ outgoing[id].qos = publishedQoS[outgoing[id].message]
          /\ outgoing[id].qos # "AT_MOST_ONCE"
          /\ outgoing[id].message \notin completed
    /\ \A id, k \in ClientPacketId :
          (/\ outgoing[id] # NoPublication /\ outgoing[k] # NoPublication
           /\ outgoing[id].message = outgoing[k].message) => id = k
    /\ \A m \in completed : m <= published /\ publishedQoS[m] # "AT_MOST_ONCE"
    /\ \A m \in Message : m > published => dispatched[m] = 0

\* A PUBLISH under way is of the publication its identifier stands for; one
\* that is sent but once is there but once.
PublishInv ==
    /\ \A i \in Positions(fromClient) : fromClient[i].type = "PUBLISH" =>
          /\ fromClient[i].message <= published
          /\ fromClient[i].qos = publishedQoS[fromClient[i].message]
          /\ fromClient[i].id # 0 =>
                /\ outgoing[fromClient[i].id] # NoPublication
                /\ outgoing[fromClient[i].id].message = fromClient[i].message
          /\ fromClient[i].id = 0 => dispatched[fromClient[i].message] = 0
    /\ \A i, j \in Positions(fromClient) :
          (/\ PublishAt(i, 0) /\ PublishAt(j, 0)
           /\ fromClient[i].message = fromClient[j].message) => i = j
    /\ ~reconnected => \A id \in ClientPacketId, i, j \in Positions(fromClient) :
          (/\ PublishAt(i, id) /\ PublishAt(j, id)
           /\ fromClient[i].qos = "AT_LEAST_ONCE") => i = j

\* What the server has recorded was dispatched, and the client awaits PUBCOMP.
FlightInv ==
    \A id \in ClientPacketId : publications[id] # NoPublication =>
       /\ outgoing[id] # NoPublication
       /\ outgoing[id].message = publications[id].message
       /\ outgoing[id].qos = "EXACTLY_ONCE"
       /\ forgotten[publications[id].message] < dispatched[publications[id].message]

\* A PUBREL ahead of a PUBLISH is left from an earlier publication.
OrderInv ==
    \A id \in ClientPacketId, i \in Positions(fromClient) :
       (/\ PubrelAt(i, id)
        /\ Publishing(id) \/ \E j \in Positions(fromClient) : i < j /\ PublishAt(j, id)) =>
           /\ publications[id] = NoPublication
           /\ \A k \in Positions(fromClient) : k < i => ~PublishAt(k, id)

\* A PUBACK or PUBCOMP under way is the last that is heard of its publication.
AckInv ==
    /\ \A id \in ClientPacketId, i \in Positions(toClient) : FinalAckAt(i, id) =>
          /\ publications[id] = NoPublication
          /\ \A j \in Positions(fromClient) : ~PublishAt(j, id)
          /\ outgoing[id] # NoPublication
          /\ outgoing[id].qos = "EXACTLY_ONCE" => outgoing[id].phase = "release"
          /\ dispatched[outgoing[id].message] > 0
    /\ \A id \in ClientPacketId, i, j \in Positions(toClient) :
          FinalAckAt(i, id) /\ FinalAckAt(j, id) => i = j

\* The client has released m, or is done with it.
Released(m) ==
    /\ \A i \in Positions(fromClient) :
          ~(fromClient[i].type = "PUBLISH" /\ fromClient[i].message = m)
    /\ \A id \in ClientPacketId :
          outgoing[id] # NoPublication /\ outgoing[id].message = m => ~Publishing(id)

Recording(m) ==
    \E id \in ClientPacketId : publications[id] # NoPublication /\ publications[id].message = m

\* A QoS 2 message taken more often than forgotten is on record, or released.
RecordInv ==
    /\ \A m \in Message : forgotten[m] <= dispatched[m]
    /\ \A m \in Message : publishedQoS[m] = "EXACTLY_ONCE" =>
          /\ dispatched[m] <= forgotten[m] + 1
          /\ (session /\ dispatched[m] > forgotten[m]) => Recording(m) \/ Released(m)

RxInv ==
    TypeInv /\ OutgoingInv /\ PublishInv /\ FlightInv /\ OrderInv /\ AckInv /\ RecordInv

LEMMA InvInit == Init => RxInv
  <1> SUFFICES ASSUME Init
               PROVE  RxInv
    OBVIOUS
  <1>1. /\ Positions(fromClient) = {} /\ Positions(toClient) = {}
        /\ \A id \in PacketId : publications[id] = NoPublication
        /\ \A id \in ClientPacketId : outgoing[id] = NoPublication
        /\ \A m \in Message : /\ dispatched[m] = 0 /\ forgotten[m] = 0
                              /\ publishedQoS[m] = "AT_MOST_ONCE"
        /\ completed = {}
    BY DEF Init, Positions
  <1>2. OutgoingInv /\ PublishInv /\ FlightInv /\ OrderInv /\ AckInv /\ RecordInv
    BY <1>1, Identifiers DEF OutgoingInv, PublishInv, FlightInv, OrderInv, AckInv, RecordInv
  <1> QED
    BY <1>2, InitTypes DEF RxInv

-----------------------------------------------------------------------------
(* Every step preserves it                                                  *)

LEMMA Types ==
    ASSUME TypeInv
    PROVE  /\ \A i \in Positions(fromClient) :
                 /\ fromClient[i] \in ClientPacket
                 /\ fromClient[i].type \in {"PUBLISH", "PUBREL"}
                 /\ fromClient[i].id \in PacketId
                 /\ fromClient[i].id # 0 => fromClient[i].id \in ClientPacketId
                 /\ fromClient[i].type = "PUBLISH" => fromClient[i].message \in Message
           /\ \A id \in ClientPacketId : outgoing[id] # NoPublication =>
                 /\ outgoing[id].phase \in {"publish", "release"}
                 /\ outgoing[id].message \in Message
           /\ \A id \in PacketId : publications[id] # NoPublication =>
                 publications[id] \in RxPublication /\ publications[id].message \in Message
           /\ \A m \in Message : dispatched[m] \in Nat /\ forgotten[m] \in Nat /\ m \in Nat
           /\ published \in Nat
  <1>1. \A i \in Positions(fromClient) : fromClient[i] \in ClientPacket
    BY DEF TypeInv, TypeOK, Positions
  <1>2. \A i \in Positions(fromClient) :
           /\ fromClient[i].type \in {"PUBLISH", "PUBREL"}
           /\ fromClient[i].id \in PacketId
           /\ fromClient[i].type = "PUBLISH" => fromClient[i].message \in Message
    BY <1>1, ClientPacketFields
  <1>3. \A id \in ClientPacketId : outgoing[id] # NoPublication =>
           outgoing[id].phase \in {"publish", "release"} /\ outgoing[id].message \in Message
    BY DEF TypeInv, TypeOK, ClientPublication
  <1>4. \A id \in PacketId : publications[id] # NoPublication =>
           publications[id] \in RxPublication /\ publications[id].message \in Message
    BY DEF TypeInv, TypeOK, RxPublication
  <1>5. /\ \A m \in Message : dispatched[m] \in Nat /\ forgotten[m] \in Nat /\ m \in Nat
        /\ published \in Nat
    BY ConstantsAssumption DEF TypeInv, TypeOK, Message
  <1> QED
    BY <1>1, <1>2, <1>3, <1>4, <1>5, Identifiers

LEMMA ReconnectInv ==
    ASSUME RxInv, client_reconnects
    PROVE  RxInv'
  <1>1. Positions(<<>>) = {}
    BY DEF Positions
  <1>2. /\ UNCHANGED <<publications, session, outgoing, published, publishedQoS, completed,
                       dispatched, forgotten>>
        /\ toClient' = <<>> /\ fromClient' = <<>> /\ reconnected'
    BY DEF client_reconnects, serverVars, historyVars
  <1>3. OutgoingInv' /\ FlightInv'
    BY <1>2 DEF RxInv, OutgoingInv, FlightInv
  <1>4. PublishInv' /\ OrderInv' /\ AckInv'
    BY <1>1, <1>2 DEF PublishInv, OrderInv, AckInv
  <1>5. RecordInv'
    <2>1. \A m \in Message : (Recording(m) => Recording(m)') /\ (Released(m) => Released(m)')
      BY <1>1, <1>2 DEF Recording, Released, Publishing
    <2> QED
      BY <1>2, <2>1 DEF RxInv, RecordInv
  <1> QED
    BY <1>3, <1>4, <1>5, ReconnectTypes DEF RxInv

LEMMA CloseInv ==
    ASSUME RxInv, connection_closed \/ connection_destroyed \/ session_destroyed
    PROVE  RxInv'
  <1>1. /\ UNCHANGED <<channelVars, clientVars, historyVars>>
        /\ \/ UNCHANGED <<publications, session>>
           \/ ~session' /\ \A id \in PacketId : publications'[id] = NoPublication
    BY DEF connection_closed, connection_destroyed, session_destroyed
  <1>2. UNCHANGED <<toClient, fromClient, outgoing, reconnected, published, publishedQoS,
                    completed, dispatched, forgotten>>
    BY <1>1 DEF channelVars, clientVars, historyVars
  <1>3. \A id \in ClientPacketId : publications'[id] \in {publications[id], NoPublication}
    BY <1>1, Identifiers
  <1>4. OutgoingInv' /\ PublishInv'
    BY <1>2 DEF RxInv, OutgoingInv, PublishInv, PublishAt
  <1>5. FlightInv' /\ OrderInv' /\ AckInv'
    <2>1. FlightInv'
      BY <1>2, <1>3 DEF RxInv, FlightInv
    <2>2. OrderInv'
      BY <1>2, <1>3 DEF RxInv, OrderInv, PublishAt, PubrelAt, Publishing
    <2>3. AckInv'
      BY <1>2, <1>3 DEF RxInv, AckInv, PublishAt, FinalAckAt
    <2> QED
      BY <2>1, <2>2, <2>3
  <1>6. RecordInv'
    <2>1. \A m \in Message : /\ Released(m)' <=> Released(m)
                             /\ session' => (Recording(m)' <=> Recording(m))
      BY <1>1, <1>2 DEF Recording, Released, Publishing
    <2>2. session' => session
      BY <1>1
    <2>3. UNCHANGED <<dispatched, forgotten, publishedQoS>>
      BY <1>2
    <2> SUFFICES ASSUME NEW m \in Message, publishedQoS[m] = "EXACTLY_ONCE"
                 PROVE  /\ dispatched[m] <= forgotten[m] + 1
                        /\ (session' /\ dispatched[m] > forgotten[m]) =>
                               Recording(m)' \/ Released(m)'
      BY <2>3 DEF RxInv, RecordInv
    <2>4. /\ dispatched[m] <= forgotten[m] + 1
          /\ (session /\ dispatched[m] > forgotten[m]) => Recording(m) \/ Released(m)
      BY DEF RxInv, RecordInv
    <2> QED
      BY <2>1, <2>2, <2>4
  <1> QED
    BY <1>4, <1>5, <1>6, ConnectionTypes DEF RxInv

\* The answers under way after one more may have been sent.
LEMMA Answers ==
    ASSUME TypeInv, NEW type \in {"PUBACK", "PUBREC", "PUBCOMP"}, NEW id \in PacketId,
           UNCHANGED toClient \/ toClient' = Append(toClient, Ack(type, id))
    PROVE  /\ Ack(type, id).type = type /\ Ack(type, id).id = id
           /\ \A i \in Positions(toClient') :
                 \/ i \in Positions(toClient) /\ toClient'[i] = toClient[i]
                 \/ i = Len(toClient) + 1 /\ toClient'[i] = Ack(type, id)
           /\ Len(toClient) + 1 \notin Positions(toClient)
  <1>1. toClient \in Seq(AckPacket) /\ Ack(type, id) \in AckPacket
    BY PacketTypes DEF TypeInv, TypeOK
  <1>2. /\ \A i \in Positions(Append(toClient, Ack(type, id))) :
              \/ i \in Positions(toClient) /\ Append(toClient, Ack(type, id))[i] = toClient[i]
              \/ i = Len(toClient) + 1 /\ Append(toClient, Ack(type, id))[i] = Ack(type, id)
        /\ \A i \in Positions(toClient) : i < Len(toClient) + 1
    BY <1>1, AppendAt
  <1>3. Len(toClient) + 1 \notin Positions(toClient)
    BY <1>1 DEF Positions
  <1>4. Ack(type, id).type = type /\ Ack(type, id).id = id
    BY PacketTypes
  <1>5. \A i \in Positions(toClient') :
           \/ i \in Positions(toClient) /\ toClient'[i] = toClient[i]
           \/ i = Len(toClient) + 1 /\ toClient'[i] = Ack(type, id)
    BY <1>2
  <1> QED
    BY <1>3, <1>4, <1>5

LEMMA TimerInv ==
    ASSUME RxInv, NEW id \in PacketId, TimerStep(id)
    PROVE  RxInv'
  <1> DEFINE m == publications[id].message
  <1>1. /\ id \in ClientPacketId /\ publications[id] # NoPublication
        /\ publications[id] \in RxPublication /\ m \in Message
    BY InFlightType, Identifiers, Types
       DEF TimerStep, RxInv, TypeInv, IdentifierInv, InFlight
  <1>2. UNCHANGED <<session, fromClient, outgoing, reconnected, published, publishedQoS,
                    completed, dispatched>>
    BY DEF TimerStep, clientVars
  <1>3. /\ \A k \in ClientPacketId : k # id => publications'[k] = publications[k]
        /\ \/ /\ publications'[id] \in RxPublication /\ publications'[id].message = m
              /\ UNCHANGED forgotten
           \/ /\ publications'[id] = NoPublication
              /\ forgotten' = [forgotten EXCEPT ![m] = @ + 1]
    <2>1. publications \in [PacketId -> RxPublication \cup {NoPublication}]
      BY DEF RxInv, TypeInv, TypeOK
    <2> QED
      BY <1>1, <2>1, Identifiers DEF TimerStep
  <1> HIDE DEF m
  <1>4. \A k \in ClientPacketId :
           /\ publications[k] = NoPublication => publications'[k] = NoPublication
           /\ publications'[k] # NoPublication =>
                 publications'[k].message = publications[k].message
    BY <1>1, <1>3 DEF m
  <1>5. \A n \in Message : \/ forgotten'[n] = forgotten[n]
                           \/ /\ n = m /\ forgotten'[n] = forgotten[n] + 1
                              /\ publications'[id] = NoPublication
    BY <1>1, <1>3 DEF RxInv, TypeInv, TypeOK
  <1>6. OutgoingInv' /\ PublishInv'
    BY <1>2 DEF RxInv, OutgoingInv, PublishInv, PublishAt
  \* Only this identifier's publication carries the message given up.
  <1>7. FlightInv'
    <2> SUFFICES ASSUME NEW k \in ClientPacketId, publications'[k] # NoPublication
                 PROVE  /\ outgoing[k] # NoPublication
                        /\ outgoing[k].message = publications'[k].message
                        /\ outgoing[k].qos = "EXACTLY_ONCE"
                        /\ forgotten'[publications'[k].message] < dispatched[publications'[k].message]
      BY <1>2 DEF FlightInv
    <2>1. publications[k] # NoPublication /\ publications'[k].message = publications[k].message
      BY <1>4
    <2>2. publications[k].message \in Message
      BY <2>1, Types, Identifiers DEF RxInv
    <2>3. publications[k].message = m => k = id
      BY <1>1, <2>1 DEF RxInv, FlightInv, OutgoingInv, m
    <2>4. forgotten'[publications[k].message] = forgotten[publications[k].message]
      BY <1>5, <2>2, <2>3
    <2> QED
      BY <2>1, <2>4 DEF RxInv, FlightInv
  <1>8. OrderInv'
    BY <1>2, <1>4 DEF RxInv, OrderInv, PublishAt, PubrelAt, Publishing
  <1>9. AckInv'
    <2>1. /\ \A i \in Positions(toClient') :
                \/ i \in Positions(toClient) /\ toClient'[i] = toClient[i]
                \/ i = Len(toClient) + 1 /\ toClient'[i] = Ack("PUBREC", id)
          /\ Ack("PUBREC", id).type = "PUBREC"
      BY Answers DEF TimerStep, RxInv
    <2>2. \A k \in ClientPacketId, i \in Positions(toClient') :
             FinalAckAt(i, k)' => i \in Positions(toClient) /\ FinalAckAt(i, k)
      BY <2>1 DEF FinalAckAt
    <2> QED
      BY <1>2, <1>4, <2>2 DEF RxInv, AckInv, PublishAt
  <1>10. RecordInv'
    <2> SUFFICES ASSUME NEW n \in Message, publishedQoS[n] = "EXACTLY_ONCE"
                 PROVE  /\ dispatched[n] <= forgotten'[n] + 1
                        /\ (session /\ dispatched[n] > forgotten'[n]) =>
                               Recording(n)' \/ Released(n)'
      <3>1. \A n \in Message : forgotten'[n] <= dispatched[n]
        <4>1. forgotten[m] < dispatched[m]
          BY <1>1 DEF RxInv, FlightInv, m
        <4>2. \A n \in Message : /\ forgotten[n] \in Nat /\ dispatched[n] \in Nat
                                 /\ forgotten[n] <= dispatched[n]
          BY Types DEF RxInv, RecordInv
        <4> QED
          BY <1>5, <4>1, <4>2
      <3> QED
        BY <1>2, <3>1 DEF RecordInv
    <2>1. /\ dispatched[n] \in Nat /\ forgotten[n] \in Nat
          /\ dispatched[n] <= forgotten[n] + 1
          /\ (session /\ dispatched[n] > forgotten[n]) => Recording(n) \/ Released(n)
      BY Types DEF RxInv, RecordInv
    <2>2. Released(n) => Released(n)'
      BY <1>2 DEF Released, Publishing
    <2>3. CASE forgotten'[n] = forgotten[n] /\ n # m
      <3>1. Recording(n) => Recording(n)'
        BY <1>3, <2>3 DEF Recording, m
      <3> QED
        BY <2>1, <2>2, <2>3, <3>1
    <2>4. CASE forgotten'[n] = forgotten[n] /\ publications'[id] \in RxPublication /\ publications'[id].message = m
      <3>1. Recording(n) => Recording(n)'
        BY <1>1, <1>3, <2>4, ConstantsAssumption DEF Recording, m
      <3> QED
        BY <2>1, <2>2, <2>4, <3>1
    <2>5. CASE forgotten'[n] = forgotten[n] + 1
      BY <2>1, <2>5
    <2>6. n = m => forgotten'[n] = forgotten[n] + 1
                      \/ (publications'[id] \in RxPublication /\ publications'[id].message = m)
      BY <1>3 DEF RxInv, TypeInv, TypeOK
    <2> QED
      BY <1>1, <1>3, <1>5, <2>3, <2>4, <2>5, <2>6
  <1>11. TypeInv'
    BY TimerTypes DEF RxInv
  <1> QED
    BY <1>6, <1>7, <1>8, <1>9, <1>10, <1>11 DEF RxInv

LEMMA SentAt ==
    ASSUME TypeInv, NEW p, SentByClient(p)
    PROVE  LET n == Len(fromClient) + 1
           IN  /\ n \in Nat /\ n \notin Positions(fromClient)
               /\ \A i \in Positions(fromClient) : i \in Nat /\ i < n
               /\ \A i \in Positions(fromClient') :
                     \/ i \in Positions(fromClient) /\ fromClient'[i] = fromClient[i]
                     \/ i = n
               /\ n \in Positions(fromClient') => fromClient'[n] = p
  <1> DEFINE n == Len(fromClient) + 1
  <1>1. /\ n \in Nat /\ n \notin Positions(fromClient)
        /\ \A i \in Positions(fromClient) : i \in Nat /\ i < n
    BY DEF TypeInv, TypeOK, Positions
  <1>2. \A i \in Positions(fromClient') :
           \/ i \in Positions(fromClient) /\ fromClient'[i] = fromClient[i]
           \/ i = n /\ fromClient'[i] = p
    BY DEF SentByClient
  <1> HIDE DEF n
  <1>3. n \in Positions(fromClient') => fromClient'[n] = p
    BY <1>1, <1>2
  <1> QED
    BY <1>1, <1>2, <1>3 DEF n

LEMMA ResendInv ==
    ASSUME RxInv, NEW id \in ClientPacketId, client_resends(id)
    PROVE  RxInv'
  <1> DEFINE o == outgoing[id]
             n == Len(fromClient) + 1
  <1>1. ResendsFor(id) /\ client_retries' \in 0 .. MaxClientRetries
    BY ResendCases DEF RxInv
  <1>2. /\ o # NoPublication /\ o.qos # "AT_MOST_ONCE" /\ o.message <= published
        /\ o.qos = publishedQoS[o.message] /\ o.message \in Message
        /\ id \in PacketId /\ id # 0 /\ o.qos \in QoS
        /\ o.qos = "EXACTLY_ONCE" \/ reconnected
    <2>1. o # NoPublication /\ (o.qos = "EXACTLY_ONCE" \/ reconnected)
      BY <1>1 DEF ResendsFor
    <2>2. o.qos \in QoS
      BY <2>1 DEF RxInv, TypeInv, TypeOK, ClientPublication
    <2> QED
      BY <2>1, <2>2, Types, Identifiers DEF RxInv, OutgoingInv
  <1>3. UNCHANGED <<publications, session, toClient, outgoing, reconnected, published,
                    publishedQoS, completed, dispatched, forgotten>>
    BY <1>1 DEF ResendsFor, serverVars, historyVars
  <1>4. /\ n \in Nat /\ n \notin Positions(fromClient)
        /\ \A i \in Positions(fromClient) : i \in Nat /\ i < n
        /\ \A i \in Positions(fromClient') :
              \/ i \in Positions(fromClient) /\ fromClient'[i] = fromClient[i]
              \/ i = n
    BY <1>1, SentAt DEF ResendsFor, RxInv
  <1>5. n \in Positions(fromClient') =>
           \/ /\ o.phase = "publish" /\ fromClient'[n].type = "PUBLISH"
              /\ fromClient'[n].id = id /\ fromClient'[n].qos = o.qos
              /\ fromClient'[n].message = o.message
           \/ /\ o.phase = "release" /\ fromClient'[n].type = "PUBREL"
              /\ fromClient'[n].id = id
    <2>1. CASE o.phase = "publish" /\ SentByClient(Publish(id, o.qos, o.message))
      BY <1>2, <2>1, PacketTypes, SentAt DEF RxInv
    <2>2. CASE o.phase = "release" /\ SentByClient(Pubrel(id))
      BY <1>2, <2>2, PacketTypes, SentAt DEF RxInv
    <2> QED
      BY <1>1, <2>1, <2>2 DEF ResendsFor
  <1> HIDE DEF n
  <1>6. OutgoingInv' /\ FlightInv'
    BY <1>3 DEF RxInv, OutgoingInv, FlightInv
  <1>7. PublishInv'
    <2>1. \A i \in Positions(fromClient') : fromClient'[i].type = "PUBLISH" =>
             /\ fromClient'[i].message <= published
             /\ fromClient'[i].qos = publishedQoS[fromClient'[i].message]
             /\ fromClient'[i].id # 0 =>
                   /\ outgoing[fromClient'[i].id] # NoPublication
                   /\ outgoing[fromClient'[i].id].message = fromClient'[i].message
             /\ fromClient'[i].id = 0 => dispatched[fromClient'[i].message] = 0
      BY <1>2, <1>4, <1>5 DEF RxInv, PublishInv
    <2>2. \A i, j \in Positions(fromClient') :
             (/\ PublishAt(i, 0)' /\ PublishAt(j, 0)'
              /\ fromClient'[i].message = fromClient'[j].message) => i = j
      BY <1>2, <1>4, <1>5 DEF RxInv, PublishInv, PublishAt
    \* What is resent on an open connection is of QoS 2.
    <2>3. ~reconnected => \A k \in ClientPacketId, i, j \in Positions(fromClient') :
             (/\ PublishAt(i, k)' /\ PublishAt(j, k)'
              /\ fromClient'[i].qos = "AT_LEAST_ONCE") => i = j
      <3> SUFFICES ASSUME ~reconnected, NEW k \in ClientPacketId,
                          NEW i \in Positions(fromClient'), NEW j \in Positions(fromClient'),
                          PublishAt(i, k)', PublishAt(j, k)', fromClient'[i].qos = "AT_LEAST_ONCE"
                   PROVE  i = j
        OBVIOUS
      <3>1. k # id
        <4>1. k = id => fromClient'[i].qos = o.qos
          BY <1>2, <2>1 DEF PublishAt
        <4> QED
          BY <1>2, <4>1
      <3>2. /\ i \in Positions(fromClient) /\ PublishAt(i, k) /\ fromClient[i].qos = "AT_LEAST_ONCE"
            /\ j \in Positions(fromClient) /\ PublishAt(j, k)
        BY <1>4, <1>5, <3>1 DEF PublishAt
      <3> QED
        BY <3>2 DEF RxInv, PublishInv
    <2> QED
      BY <1>3, <2>1, <2>2, <2>3 DEF PublishInv
  <1>8. OrderInv'
    <2> SUFFICES ASSUME NEW k \in ClientPacketId, NEW i \in Positions(fromClient'), PubrelAt(i, k)',
                        Publishing(k) \/ \E j \in Positions(fromClient') : i < j /\ PublishAt(j, k)'
                 PROVE  /\ publications[k] = NoPublication
                        /\ \A j \in Positions(fromClient') : j < i => ~PublishAt(j, k)'
      BY <1>3 DEF OrderInv, Publishing
    <2>1. \A j \in Positions(fromClient') : PublishAt(j, k)' =>
             \/ j \in Positions(fromClient) /\ PublishAt(j, k)
             \/ j = n /\ Publishing(k)
      BY <1>2, <1>4, <1>5 DEF PublishAt, Publishing
    <2>2. i \in Positions(fromClient) /\ PubrelAt(i, k)
      <3>1. i = n => k = id /\ ~Publishing(k)
        BY <1>5 DEF PubrelAt, Publishing
      <3>2. \A j \in Positions(fromClient') : ~(n < j)
        BY <1>4
      <3> QED
        BY <1>4, <3>1, <3>2 DEF PubrelAt
    <2>3. Publishing(k) \/ \E j \in Positions(fromClient) : i < j /\ PublishAt(j, k)
      BY <2>1
    <2>4. /\ publications[k] = NoPublication
          /\ \A j \in Positions(fromClient) : j < i => ~PublishAt(j, k)
      BY <2>2, <2>3 DEF RxInv, OrderInv
    <2>5. ~(n < i)
      BY <1>4, <2>2
    <2> QED
      BY <2>1, <2>4, <2>5
  <1>9. AckInv'
    <2>1. \A k \in ClientPacketId, i \in Positions(toClient) : FinalAckAt(i, k) =>
             \A j \in Positions(fromClient') : ~PublishAt(j, k)'
      <3> SUFFICES ASSUME NEW k \in ClientPacketId, NEW i \in Positions(toClient), FinalAckAt(i, k),
                          NEW j \in Positions(fromClient'), PublishAt(j, k)'
                   PROVE  FALSE
        OBVIOUS
      <3>1. j = n /\ k = id /\ o.phase = "publish"
        BY <1>4, <1>5 DEF RxInv, AckInv, PublishAt
      <3>2. o.qos # "EXACTLY_ONCE"
        BY <3>1 DEF RxInv, AckInv
      <3>3. toClient = <<>>
        BY <1>2, <3>2 DEF RxInv, TypeInv, IdentifierInv
      <3> QED
        BY <3>3 DEF Positions
    <2> QED
      BY <1>3, <2>1 DEF RxInv, AckInv, FinalAckAt
  <1>10. RecordInv'
    <2>1. \A m \in Message : (Recording(m) => Recording(m)') /\ (Released(m) => Released(m)')
      BY <1>2, <1>3, <1>4, <1>5 DEF Recording, Released, Publishing
    <2> QED
      BY <1>3, <2>1 DEF RxInv, RecordInv
  <1>11. TypeInv'
    BY <1>1, <1>2, ResendTypes DEF RxInv
  <1> QED
    BY <1>6, <1>7, <1>8, <1>9, <1>10, <1>11 DEF RxInv

LEMMA PublishesInv ==
    ASSUME RxInv, NEW m \in Message, NEW qos \in QoS, NEW id \in PacketId, PublishesNew(m, qos, id)
    PROVE  RxInv'
  <1> DEFINE n == Len(fromClient) + 1
  <1>1. /\ m = published + 1 /\ published' = m /\ published \in Nat /\ published < m
        /\ (id = 0 <=> qos = "AT_MOST_ONCE")
        /\ UNCHANGED <<publications, session, toClient, reconnected, completed, dispatched,
                       forgotten>>
    BY Types DEF PublishesNew, serverVars, historyVars, RxInv
  <1>2. /\ publishedQoS'[m] = qos
        /\ \A l \in Message : l # m => publishedQoS'[l] = publishedQoS[l]
    BY DEF PublishesNew, RxInv, TypeInv, TypeOK
  <1>3. /\ n \in Nat /\ n \notin Positions(fromClient)
        /\ \A i \in Positions(fromClient) : i \in Nat /\ i < n
        /\ \A i \in Positions(fromClient') :
              \/ i \in Positions(fromClient) /\ fromClient'[i] = fromClient[i]
              \/ i = n
        /\ n \in Positions(fromClient') =>
              /\ fromClient'[n].type = "PUBLISH" /\ fromClient'[n].id = id
              /\ fromClient'[n].qos = qos /\ fromClient'[n].message = m
    BY SentAt, PacketTypes DEF PublishesNew, RxInv
  <1>4. /\ \A k \in ClientPacketId : k # id => outgoing'[k] = outgoing[k]
        /\ id # 0 =>
              /\ id \in ClientPacketId /\ outgoing[id] = NoPublication
              /\ outgoing'[id] # NoPublication /\ outgoing'[id].message = m
              /\ outgoing'[id].qos = qos /\ outgoing'[id].phase = "publish"
    <2> DEFINE o == [phase |-> "publish", qos |-> qos, message |-> m]
    <2>1. o \in ClientPublication /\ o # NoPublication
      BY ConstantsAssumption DEF ClientPublication
    <2>2. o.message = m /\ o.qos = qos /\ o.phase = "publish"
      OBVIOUS
    <2>3. outgoing \in [ClientPacketId -> ClientPublication \cup {NoPublication}]
      BY DEF RxInv, TypeInv, TypeOK
    <2>4. \/ id = 0 /\ UNCHANGED outgoing
          \/ id # 0 /\ outgoing[id] = NoPublication /\ outgoing' = [outgoing EXCEPT ![id] = o]
      BY DEF PublishesNew
    <2>5. id # 0 => id \in ClientPacketId
      BY Identifiers
    <2> HIDE DEF o
    <2> QED
      BY <2>1, <2>2, <2>3, <2>4, <2>5
  <1>5. 0 \notin ClientPacketId /\ ClientPacketId \subseteq PacketId
    BY Identifiers
  <1> HIDE DEF n
  \* The message is new to everybody.
  <1>6. /\ \A k \in ClientPacketId : outgoing[k] # NoPublication =>
              outgoing[k].message # m /\ outgoing[k].message \in Message
        /\ \A i \in Positions(fromClient) : fromClient[i].type = "PUBLISH" =>
              fromClient[i].message # m /\ fromClient[i].message \in Message
        /\ \A l \in completed : l # m /\ l \in Nat /\ l \in Message
        /\ dispatched[m] = 0
    <2>1. /\ \A k \in ClientPacketId : outgoing[k] # NoPublication =>
                outgoing[k].message <= published /\ outgoing[k].message \in Message
          /\ \A i \in Positions(fromClient) : fromClient[i].type = "PUBLISH" =>
                fromClient[i].message <= published /\ fromClient[i].message \in Message
          /\ \A l \in completed : l <= published /\ l \in Message
          /\ dispatched[m] = 0
      BY <1>1, Types DEF RxInv, OutgoingInv, PublishInv, TypeInv, TypeOK
    <2> QED
      BY <1>1, <2>1 DEF Message
  <1>7. OutgoingInv'
    <2>1. \A k \in ClientPacketId : outgoing'[k] # NoPublication =>
             /\ outgoing'[k].message <= published'
             /\ outgoing'[k].qos = publishedQoS'[outgoing'[k].message]
             /\ outgoing'[k].qos # "AT_MOST_ONCE"
             /\ outgoing'[k].message \notin completed
      <3> SUFFICES ASSUME NEW k \in ClientPacketId, outgoing'[k] # NoPublication
                   PROVE  /\ outgoing'[k].message <= published'
                          /\ outgoing'[k].qos = publishedQoS'[outgoing'[k].message]
                          /\ outgoing'[k].qos # "AT_MOST_ONCE"
                          /\ outgoing'[k].message \notin completed
        OBVIOUS
      <3>1. CASE k = id
        BY <1>1, <1>2, <1>4, <1>5, <1>6, <3>1
      <3>2. CASE k # id
        <4>1. /\ outgoing'[k] = outgoing[k] /\ outgoing[k].message <= published
              /\ outgoing[k].qos = publishedQoS[outgoing[k].message]
              /\ outgoing[k].qos # "AT_MOST_ONCE"
              /\ outgoing[k].message \notin completed
              /\ outgoing[k].message # m /\ outgoing[k].message \in Message
          BY <1>4, <1>6, <3>2 DEF RxInv, OutgoingInv
        <4>2. outgoing[k].message \in Nat
          BY <4>1 DEF Message
        <4> QED
          BY <1>1, <1>2, <4>1, <4>2
      <3> QED
        BY <3>1, <3>2
    <2>2. \A j, k \in ClientPacketId :
             (/\ outgoing'[j] # NoPublication /\ outgoing'[k] # NoPublication
              /\ outgoing'[j].message = outgoing'[k].message) => j = k
      BY <1>4, <1>5, <1>6 DEF RxInv, OutgoingInv
    <2>3. \A l \in completed : l <= published' /\ publishedQoS'[l] # "AT_MOST_ONCE"
      BY <1>1, <1>2, <1>6 DEF RxInv, OutgoingInv
    <2>4. \A l \in Message : l > published' => dispatched[l] = 0
      BY <1>1 DEF RxInv, OutgoingInv, Message
    <2> QED
      BY <1>1, <2>1, <2>2, <2>3, <2>4 DEF OutgoingInv
  <1>8. PublishInv'
    <2>1. \A i \in Positions(fromClient') : fromClient'[i].type = "PUBLISH" =>
             /\ fromClient'[i].message <= published'
             /\ fromClient'[i].qos = publishedQoS'[fromClient'[i].message]
             /\ fromClient'[i].id # 0 =>
                   /\ outgoing'[fromClient'[i].id] # NoPublication
                   /\ outgoing'[fromClient'[i].id].message = fromClient'[i].message
             /\ fromClient'[i].id = 0 => dispatched[fromClient'[i].message] = 0
      <3> SUFFICES ASSUME NEW i \in Positions(fromClient'), fromClient'[i].type = "PUBLISH"
                   PROVE  /\ fromClient'[i].message <= published'
                          /\ fromClient'[i].qos = publishedQoS'[fromClient'[i].message]
                          /\ fromClient'[i].id # 0 =>
                                /\ outgoing'[fromClient'[i].id] # NoPublication
                                /\ outgoing'[fromClient'[i].id].message = fromClient'[i].message
                          /\ fromClient'[i].id = 0 => dispatched[fromClient'[i].message] = 0
        OBVIOUS
      <3>1. CASE i = n
        BY <1>1, <1>2, <1>3, <1>4, <1>6, <3>1
      <3>2. CASE i # n
        <4>1. i \in Positions(fromClient) /\ fromClient'[i] = fromClient[i]
          BY <1>3, <3>2
        <4>2. /\ fromClient[i].message <= published
              /\ fromClient[i].qos = publishedQoS[fromClient[i].message]
              /\ fromClient[i].id # 0 =>
                    /\ outgoing[fromClient[i].id] # NoPublication
                    /\ outgoing[fromClient[i].id].message = fromClient[i].message
              /\ fromClient[i].id = 0 => dispatched[fromClient[i].message] = 0
          BY <4>1 DEF RxInv, PublishInv
        <4>3. /\ fromClient[i].message # m /\ fromClient[i].message \in Message
              /\ fromClient[i].id # 0 => fromClient[i].id \in ClientPacketId
          BY <1>6, <4>1, Types DEF RxInv
        <4>4. fromClient[i].message <= published'
          BY <1>1, <4>2, <4>3 DEF Message
        <4>5. fromClient[i].id # 0 => outgoing'[fromClient[i].id] = outgoing[fromClient[i].id]
          BY <1>4, <4>2, <4>3
        <4> QED
          BY <1>2, <4>1, <4>2, <4>3, <4>4, <4>5
      <3> QED
        BY <3>1, <3>2
    <2>2. \A i, j \in Positions(fromClient') :
             (/\ PublishAt(i, 0)' /\ PublishAt(j, 0)'
              /\ fromClient'[i].message = fromClient'[j].message) => i = j
      BY <1>3, <1>6 DEF RxInv, PublishInv, PublishAt
    \* The identifier was not in use.
    <2>3. ~reconnected => \A k \in ClientPacketId, i, j \in Positions(fromClient') :
             (/\ PublishAt(i, k)' /\ PublishAt(j, k)'
              /\ fromClient'[i].qos = "AT_LEAST_ONCE") => i = j
      <3>1. \A i \in Positions(fromClient), k \in ClientPacketId : PublishAt(i, k) => k # id
        BY <1>4, <1>5 DEF RxInv, PublishInv, PublishAt
      <3> QED
        BY <1>3, <3>1 DEF RxInv, PublishInv, PublishAt
    <2> QED
      BY <1>1, <2>1, <2>2, <2>3 DEF PublishInv
  <1>9. FlightInv'
    <2>1. \A k \in ClientPacketId : publications[k] # NoPublication => k # id
      BY <1>4, <1>5 DEF RxInv, FlightInv
    <2> QED
      BY <1>1, <1>4, <2>1 DEF RxInv, FlightInv
  <1>10. OrderInv'
    <2> SUFFICES ASSUME NEW k \in ClientPacketId, NEW i \in Positions(fromClient'), PubrelAt(i, k)',
                        Publishing(k)' \/ \E j \in Positions(fromClient') : i < j /\ PublishAt(j, k)'
                 PROVE  /\ publications[k] = NoPublication
                        /\ \A j \in Positions(fromClient') : j < i => ~PublishAt(j, k)'
      BY <1>1 DEF OrderInv
    <2>1. i \in Positions(fromClient) /\ PubrelAt(i, k)
      BY <1>3 DEF PubrelAt
    <2>2. \A j \in Positions(fromClient') : PublishAt(j, k)' =>
             \/ j \in Positions(fromClient) /\ PublishAt(j, k)
             \/ j = n /\ k = id
      BY <1>3 DEF PublishAt
    <2>3. ~(n < i)
      BY <1>3, <2>1
    <2>4. CASE k = id
      <3>1. publications[k] = NoPublication
        BY <1>4, <1>5, <2>4 DEF RxInv, FlightInv
      <3>2. \A j \in Positions(fromClient) : ~PublishAt(j, k)
        BY <1>4, <1>5, <2>4 DEF RxInv, PublishInv, PublishAt
      <3> QED
        BY <2>2, <2>3, <3>1, <3>2
    <2>5. CASE k # id
      <3>1. Publishing(k) \/ \E j \in Positions(fromClient) : i < j /\ PublishAt(j, k)
        BY <1>4, <2>2, <2>5 DEF Publishing
      <3> QED
        BY <2>1, <2>2, <2>5, <3>1 DEF RxInv, OrderInv
    <2> QED
      BY <2>4, <2>5
  <1>11. AckInv'
    <2>1. \A k \in ClientPacketId, i \in Positions(toClient) : FinalAckAt(i, k) =>
             /\ k # id /\ outgoing'[k] = outgoing[k]
             /\ \A j \in Positions(fromClient') : ~PublishAt(j, k)'
      BY <1>3, <1>4, <1>5 DEF RxInv, AckInv, PublishAt
    <2> QED
      BY <1>1, <2>1 DEF RxInv, AckInv, FinalAckAt
  <1>12. RecordInv'
    <2>1. \A l \in Message : l # m =>
             (Recording(l) => Recording(l)') /\ (Released(l) => Released(l)')
      <3> SUFFICES ASSUME NEW l \in Message, l # m
                   PROVE  (Recording(l) => Recording(l)') /\ (Released(l) => Released(l)')
        OBVIOUS
      <3>1. Recording(l) => Recording(l)'
        BY <1>1 DEF Recording
      <3>2. Released(l) => Released(l)'
        BY <1>3, <1>4, <1>5 DEF Released, Publishing
      <3> QED
        BY <3>1, <3>2
    <2> SUFFICES ASSUME NEW l \in Message, publishedQoS'[l] = "EXACTLY_ONCE"
                 PROVE  /\ dispatched[l] <= forgotten[l] + 1
                        /\ (session /\ dispatched[l] > forgotten[l]) =>
                               Recording(l)' \/ Released(l)'
      BY <1>1 DEF RxInv, RecordInv
    <2>2. CASE l = m
      <3>1. forgotten[m] \in Nat
        BY Types DEF RxInv
      <3> QED
        BY <1>6, <2>2, <3>1
    <2>3. CASE l # m
      BY <1>2, <2>1, <2>3 DEF RxInv, RecordInv
    <2> QED
      BY <2>2, <2>3
  <1>13. TypeInv'
    BY PublishTypes DEF RxInv
  <1> QED
    BY <1>7, <1>8, <1>9, <1>10, <1>11, <1>12, <1>13 DEF RxInv

LEMMA AnswerInv ==
    ASSUME RxInv, client_receives
    PROVE  RxInv'
  <1> DEFINE a == Head(toClient)
             n == Len(fromClient) + 1
  <1>1. ReceivesAnswer(a)
    BY AnswerCases DEF RxInv
  <1> HIDE DEF a
  <1>2. UNCHANGED <<publications, session, reconnected, published, publishedQoS, dispatched,
                    forgotten>>
    BY <1>1 DEF ReceivesAnswer, serverVars, historyVars
  <1>3. /\ a.id \in ClientPacketId /\ 1 \in Positions(toClient) /\ toClient[1] = a
        /\ \A i \in Positions(toClient') :
              i \in Nat /\ i + 1 \in Positions(toClient) /\ toClient'[i] = toClient[i + 1]
    BY <1>1 DEF ReceivesAnswer, Positions
  \* All that is sent is a PUBREL.
  <1>4. /\ \A i \in Positions(fromClient) : i \in Nat /\ i < n
        /\ \A i \in Positions(fromClient') :
              \/ i \in Positions(fromClient) /\ fromClient'[i] = fromClient[i]
              \/ /\ i = n /\ fromClient'[i].type = "PUBREL" /\ fromClient'[i].id = a.id
                 /\ outgoing'[a.id] # NoPublication => outgoing'[a.id].phase = "release"
        /\ n \in Nat
    <2>1. UNCHANGED fromClient \/ SentByClient(Pubrel(a.id))
      BY <1>1 DEF ReceivesAnswer
    <2>2. n \in Nat /\ \A i \in Positions(fromClient) : i \in Nat /\ i < n
      BY DEF RxInv, TypeInv, TypeOK, Positions
    <2>3. CASE UNCHANGED fromClient
      BY <2>2, <2>3
    <2>4. CASE SentByClient(Pubrel(a.id)) /\ ~UNCHANGED fromClient
      <3>1. outgoing' = IF outgoing[a.id] = NoPublication THEN outgoing
                        ELSE [outgoing EXCEPT ![a.id].phase = "release"]
        BY <1>1, <2>4 DEF ReceivesAnswer
      <3>2. outgoing'[a.id] # NoPublication => outgoing'[a.id].phase = "release"
        BY <1>3, <3>1 DEF RxInv, TypeInv, TypeOK, ClientPublication
      <3>3. Pubrel(a.id).type = "PUBREL" /\ Pubrel(a.id).id = a.id
        BY <1>3, Identifiers, PacketTypes
      <3> QED
        BY <2>2, <2>4, <3>2, <3>3, SentAt DEF RxInv
    <2> QED
      BY <2>1, <2>3, <2>4
  <1>5. /\ \A k \in ClientPacketId : outgoing'[k] # NoPublication =>
              /\ outgoing[k] # NoPublication
              /\ outgoing'[k].message = outgoing[k].message
              /\ outgoing'[k].qos = outgoing[k].qos
              /\ outgoing[k].phase = "release" => outgoing'[k].phase = "release"
              /\ outgoing'[k].phase \in {"publish", "release"}
        /\ \/ /\ \A k \in ClientPacketId : outgoing[k] # NoPublication => outgoing'[k] # NoPublication
              /\ UNCHANGED completed
           \/ /\ a.type # "PUBREC" /\ outgoing[a.id] # NoPublication
              /\ completed' = completed \cup {outgoing[a.id].message}
              /\ \A k \in ClientPacketId :
                    outgoing'[k] = IF k = a.id THEN NoPublication ELSE outgoing[k]
    <2>1. outgoing \in [ClientPacketId -> ClientPublication \cup {NoPublication}]
      BY DEF RxInv, TypeInv, TypeOK
    <2>2. \A o \in ClientPublication :
             /\ [o EXCEPT !.phase = "release"] \in ClientPublication
             /\ [o EXCEPT !.phase = "release"].message = o.message
             /\ [o EXCEPT !.phase = "release"].qos = o.qos
             /\ [o EXCEPT !.phase = "release"].phase = "release"
             /\ o.phase \in {"publish", "release"}
             /\ o # NoPublication
      BY ConstantsAssumption DEF ClientPublication
    <2>3. CASE UNCHANGED <<outgoing, completed>>
      BY <2>1, <2>2, <2>3
    <2>4. CASE /\ outgoing[a.id] # NoPublication /\ UNCHANGED completed
               /\ outgoing' = [outgoing EXCEPT ![a.id] =
                                  [outgoing[a.id] EXCEPT !.phase = "release"]]
      <3> DEFINE o == [outgoing[a.id] EXCEPT !.phase = "release"]
      <3>1. /\ o # NoPublication /\ o.message = outgoing[a.id].message
            /\ o.qos = outgoing[a.id].qos /\ o.phase = "release"
        BY <1>3, <2>1, <2>2, <2>4
      <3>2. \A k \in ClientPacketId : outgoing'[k] = IF k = a.id THEN o ELSE outgoing[k]
        BY <2>1, <2>4
      <3>3. \A k \in ClientPacketId : outgoing[k] # NoPublication =>
               outgoing[k].phase \in {"publish", "release"}
        BY <2>1, <2>2
      <3> HIDE DEF o
      <3> QED
        BY <2>4, <3>1, <3>2, <3>3
    <2>5. CASE /\ a.type # "PUBREC" /\ outgoing[a.id] # NoPublication
               /\ completed' = completed \cup {outgoing[a.id].message}
               /\ outgoing' = [outgoing EXCEPT ![a.id] = NoPublication]
      <3>1. \A k \in ClientPacketId :
               outgoing'[k] = IF k = a.id THEN NoPublication ELSE outgoing[k]
        BY <2>1, <2>5
      <3>2. \A k \in ClientPacketId : outgoing[k] # NoPublication =>
               outgoing[k].phase \in {"publish", "release"}
        BY <2>1, <2>2
      <3> QED
        BY <2>5, <3>1, <3>2
    <2> QED
      BY <1>1, <2>3, <2>4, <2>5 DEF ReceivesAnswer
  <1> HIDE DEF n
  \* After a final answer nothing more is heard of the publication.
  <1>6. a.type # "PUBREC" =>
           /\ publications[a.id] = NoPublication
           /\ \A j \in Positions(fromClient) : ~PublishAt(j, a.id)
           /\ \A i \in Positions(toClient) : FinalAckAt(i, a.id) => i = 1
    BY <1>3 DEF RxInv, AckInv, FinalAckAt
  <1>7. OutgoingInv'
    <2>1. \A k \in ClientPacketId : outgoing'[k] # NoPublication =>
             outgoing'[k].message \notin completed'
      BY <1>3, <1>5 DEF RxInv, OutgoingInv
    <2>2. \A l \in completed' : l <= published /\ publishedQoS[l] # "AT_MOST_ONCE"
      BY <1>3, <1>5 DEF RxInv, OutgoingInv
    <2> QED
      BY <1>2, <1>5, <2>1, <2>2 DEF RxInv, OutgoingInv
  <1>8. PublishInv'
    <2>1. \A i \in Positions(fromClient') : fromClient'[i].type = "PUBLISH" =>
             i \in Positions(fromClient) /\ fromClient'[i] = fromClient[i]
      BY <1>4
    <2>2. \A i \in Positions(fromClient) :
             (fromClient[i].type = "PUBLISH" /\ fromClient[i].id # 0) =>
                /\ outgoing'[fromClient[i].id] # NoPublication
                /\ outgoing'[fromClient[i].id].message = fromClient[i].message
      <3> SUFFICES ASSUME NEW i \in Positions(fromClient), fromClient[i].type = "PUBLISH",
                          fromClient[i].id # 0
                   PROVE  /\ outgoing'[fromClient[i].id] # NoPublication
                          /\ outgoing'[fromClient[i].id].message = fromClient[i].message
        OBVIOUS
      <3>1. /\ fromClient[i].id \in ClientPacketId /\ outgoing[fromClient[i].id] # NoPublication
            /\ outgoing[fromClient[i].id].message = fromClient[i].message
        BY Types DEF RxInv, PublishInv
      <3>2. a.type # "PUBREC" => fromClient[i].id # a.id
        BY <1>6 DEF PublishAt
      <3> QED
        BY <1>5, <3>1, <3>2
    <2> QED
      BY <1>2, <2>1, <2>2 DEF RxInv, PublishInv, PublishAt
  <1>9. FlightInv'
    <2>1. \A k \in ClientPacketId : publications[k] # NoPublication => outgoing'[k] # NoPublication
      BY <1>5, <1>6 DEF RxInv, FlightInv
    <2> QED
      BY <1>2, <1>5, <2>1 DEF RxInv, FlightInv
  <1>10. OrderInv'
    <2> SUFFICES ASSUME NEW k \in ClientPacketId, NEW i \in Positions(fromClient'), PubrelAt(i, k)',
                        Publishing(k)' \/ \E j \in Positions(fromClient') : i < j /\ PublishAt(j, k)'
                 PROVE  /\ publications[k] = NoPublication
                        /\ \A j \in Positions(fromClient') : j < i => ~PublishAt(j, k)'
      BY <1>2 DEF OrderInv
    <2>1. \A j \in Positions(fromClient') : PublishAt(j, k)' =>
             j \in Positions(fromClient) /\ PublishAt(j, k)
      BY <1>4 DEF PublishAt
    <2>2. i \in Positions(fromClient) /\ PubrelAt(i, k)
      <3>1. CASE i \in Positions(fromClient) /\ fromClient'[i] = fromClient[i]
        BY <3>1 DEF PubrelAt
      <3>2. CASE i = n /\ fromClient'[i].id = a.id
        <4>1. k = a.id /\ Publishing(k)'
          BY <1>4, <2>1, <3>2 DEF PubrelAt
        <4> QED
          BY <1>4, <3>2, <4>1 DEF Publishing
      <3> QED
        BY <1>4, <3>1, <3>2
    <2>3. Publishing(k)' => Publishing(k)
      BY <1>5, Types DEF Publishing, RxInv
    <2> QED
      BY <2>1, <2>2, <2>3 DEF RxInv, OrderInv
  <1>11. AckInv'
    <2>1. \A k \in ClientPacketId, i \in Positions(toClient') : FinalAckAt(i, k)' =>
             i + 1 \in Positions(toClient) /\ FinalAckAt(i + 1, k)
      BY <1>3 DEF FinalAckAt
    <2>2. \A k \in ClientPacketId, i \in Positions(toClient') : FinalAckAt(i, k)' =>
             outgoing'[k] # NoPublication
      <3> SUFFICES ASSUME NEW k \in ClientPacketId, NEW i \in Positions(toClient'), FinalAckAt(i, k)'
                   PROVE  outgoing'[k] # NoPublication
        OBVIOUS
      <3>1. /\ i + 1 \in Positions(toClient) /\ FinalAckAt(i + 1, k) /\ outgoing[k] # NoPublication
        BY <2>1 DEF RxInv, AckInv
      <3>2. i + 1 # 1
        BY <1>3 DEF Positions
      <3>3. a.type # "PUBREC" => k # a.id
        BY <1>6, <3>1, <3>2
      <3> QED
        BY <1>5, <3>1, <3>3
    <2>3. \A k \in ClientPacketId, i \in Positions(toClient') : FinalAckAt(i, k)' =>
             /\ publications[k] = NoPublication
             /\ \A j \in Positions(fromClient') : ~PublishAt(j, k)'
             /\ outgoing'[k] # NoPublication
             /\ outgoing'[k].qos = "EXACTLY_ONCE" => outgoing'[k].phase = "release"
             /\ dispatched[outgoing'[k].message] > 0
      BY <1>4, <1>5, <2>1, <2>2 DEF RxInv, AckInv, PublishAt
    <2>4. \A k \in ClientPacketId, i, j \in Positions(toClient') :
             FinalAckAt(i, k)' /\ FinalAckAt(j, k)' => i = j
      <3> SUFFICES ASSUME NEW k \in ClientPacketId, NEW i \in Positions(toClient'),
                          NEW j \in Positions(toClient'), FinalAckAt(i, k)', FinalAckAt(j, k)'
                   PROVE  i = j
        OBVIOUS
      <3>1. i + 1 = j + 1
        BY <2>1 DEF RxInv, AckInv
      <3>2. i \in Nat /\ j \in Nat
        BY <1>3
      <3> QED
        BY <3>1, <3>2
    <2> QED
      BY <1>2, <2>3, <2>4 DEF AckInv
  <1>12. RecordInv'
    <2>1. \A m \in Message : (Recording(m) => Recording(m)') /\ (Released(m) => Released(m)')
      <3> SUFFICES ASSUME NEW m \in Message
                   PROVE  (Recording(m) => Recording(m)') /\ (Released(m) => Released(m)')
        OBVIOUS
      <3>1. Recording(m) => Recording(m)'
        BY <1>2 DEF Recording
      <3>2. Released(m) => Released(m)'
        BY <1>4, <1>5, Types DEF Released, Publishing, RxInv
      <3> QED
        BY <3>1, <3>2
    <2> QED
      BY <1>2, <2>1 DEF RxInv, RecordInv
  <1>13. TypeInv'
    BY <1>1, AnswerTypes DEF RxInv
  <1> QED
    BY <1>7, <1>8, <1>9, <1>10, <1>11, <1>12, <1>13 DEF RxInv

\* The packet the server takes off the channel, and those behind it.
Takes(p) ==
    /\ 1 \in Positions(fromClient) /\ fromClient[1] = p
    /\ \A i \in Positions(fromClient') :
          /\ i \in Nat /\ i + 1 \in Positions(fromClient) /\ i + 1 # 1
          /\ fromClient'[i] = fromClient[i + 1]
    /\ p.id \in PacketId /\ (p.id # 0 => p.id \in ClientPacketId)
    /\ p.type = "PUBREL" => p.id # 0
    /\ p.type = "PUBLISH" =>
          /\ p.message \in Message /\ p.message <= published
          /\ p.qos = publishedQoS[p.message]
          /\ p.id = 0 <=> p.qos = "AT_MOST_ONCE"
          /\ p.id # 0 => /\ outgoing[p.id] # NoPublication
                         /\ outgoing[p.id].message = p.message
                         /\ outgoing[p.id].qos = p.qos
          /\ p.id \notin InFlight => publications[p.id] = NoPublication
    /\ UNCHANGED <<session, outgoing, reconnected, published, publishedQoS, completed>>

LEMMA ReceivedTakes ==
    ASSUME RxInv, packet_received
    PROVE  Takes(Head(fromClient))
  <1> DEFINE p == Head(fromClient)
  <1>1. /\ fromClient # <<>> /\ p \in ClientPacket
        /\ 1 \in Positions(fromClient) /\ fromClient[1] = p
        /\ \A i \in Positions(fromClient') :
              i + 1 \in Positions(fromClient) /\ fromClient'[i] = fromClient[i + 1]
        /\ UNCHANGED <<session, clientVars>>
    BY Received DEF RxInv
  <1> HIDE DEF p
  <1>2. \A i \in Positions(fromClient') : i \in Nat /\ i + 1 # 1
    BY DEF Positions
  <1>3. /\ p.id \in PacketId /\ (p.id # 0 => p.id \in ClientPacketId)
        /\ p.type = "PUBLISH" => p.qos \in QoS /\ p.message \in Message
    BY <1>1, ClientPacketFields, Identifiers
  <1>4. /\ p.type = "PUBREL" => p.id # 0
        /\ p.type = "PUBLISH" => (p.id = 0 <=> p.qos = "AT_MOST_ONCE")
    BY <1>1 DEF RxInv, TypeInv, IdentifierInv
  <1>5. p.type = "PUBLISH" =>
           /\ p.message <= published /\ p.qos = publishedQoS[p.message]
           /\ p.id # 0 => outgoing[p.id] # NoPublication /\ outgoing[p.id].message = p.message
    BY <1>1 DEF RxInv, PublishInv
  <1>6. p.type = "PUBLISH" /\ p.id # 0 => outgoing[p.id].qos = p.qos
    BY <1>3, <1>5 DEF RxInv, OutgoingInv
  <1>7. p.id \notin InFlight => publications[p.id] = NoPublication
    BY <1>3 DEF InFlight
  <1> QED
    BY <1>1, <1>2, <1>3, <1>4, <1>5, <1>6, <1>7 DEF Takes, clientVars, p

LEMMA TakesAt ==
    ASSUME NEW p, Takes(p)
    PROVE  /\ \A k \in PacketId, i \in Positions(fromClient') :
                 /\ PublishAt(i, k)' => PublishAt(i + 1, k)
                 /\ PubrelAt(i, k)' => PubrelAt(i + 1, k)
           /\ p.type = "PUBLISH" => PublishAt(1, p.id)
           /\ p.type = "PUBREL" => PubrelAt(1, p.id)
           /\ \A m \in Message : Released(m) => Released(m)'
           /\ p.type = "PUBLISH" => ~Released(p.message)
           /\ \A k \in PacketId : Publishing(k)' <=> Publishing(k)
  BY Identifiers DEF Takes, PublishAt, PubrelAt, Released, Publishing

\* Every dispatch is counted, and forgotten at most as it happens.
LEMMA TakesHistory ==
    ASSUME RxInv, NEW p, Takes(p), Ignored \/ DispatchedOnce(p) \/ Recorded(p) \/ ReleasedBy(p)
    PROVE  \A m \in Message :
              \/ dispatched'[m] = dispatched[m] /\ forgotten'[m] = forgotten[m]
              \/ /\ p.type = "PUBLISH" /\ m = p.message
                 /\ dispatched'[m] = dispatched[m] + 1
                 /\ \/ forgotten'[m] = forgotten[m] /\ Recorded(p)
                    \/ /\ forgotten'[m] = forgotten[m] /\ DispatchedOnce(p)
                       /\ p.qos # "EXACTLY_ONCE"
                    \/ forgotten'[m] = forgotten[m] + 1 /\ DispatchedOnce(p)
  <1>1. dispatched \in [Message -> Nat] /\ forgotten \in [Message -> Nat]
    BY DEF RxInv, TypeInv, TypeOK
  <1>2. CASE Ignored \/ ReleasedBy(p)
    BY <1>2 DEF Ignored, ReleasedBy
  <1>3. CASE DispatchedOnce(p)
    <2>1. p.type = "PUBLISH" /\ dispatched' = [dispatched EXCEPT ![p.message] = @ + 1]
      BY <1>3 DEF DispatchedOnce
    <2>2. \/ p.qos # "EXACTLY_ONCE" /\ forgotten' = forgotten
          \/ forgotten' = [forgotten EXCEPT ![p.message] = @ + 1]
      BY <1>3 DEF DispatchedOnce
    <2> QED
      BY <1>1, <1>3, <2>1, <2>2
  <1>4. CASE Recorded(p)
    <2>1. /\ p.type = "PUBLISH" /\ dispatched' = [dispatched EXCEPT ![p.message] = @ + 1]
          /\ forgotten' = forgotten
      BY <1>4 DEF Recorded
    <2> QED
      BY <1>1, <1>4, <2>1
  <1> QED
    BY <1>2, <1>3, <1>4

LEMMA TakesPublishing ==
    ASSUME RxInv, NEW p, Takes(p), Ignored \/ DispatchedOnce(p) \/ Recorded(p) \/ ReleasedBy(p)
    PROVE  OutgoingInv' /\ PublishInv'
  <1>1. \A m \in Message : \/ dispatched'[m] = dispatched[m]
                           \/ p.type = "PUBLISH" /\ m = p.message
    BY TakesHistory
  <1>2. \A m \in Message : m > published => dispatched'[m] = 0
    <2>1. p.type = "PUBLISH" => ~(p.message > published)
      BY Types DEF Takes, RxInv
    <2> QED
      BY <1>1, <2>1 DEF RxInv, OutgoingInv
  <1>3. OutgoingInv'
    BY <1>2 DEF RxInv, OutgoingInv, Takes
  \* Of a QoS 0 message there is no second PUBLISH.
  <1>4. \A i \in Positions(fromClient') :
           (fromClient'[i].type = "PUBLISH" /\ fromClient'[i].id = 0) =>
               dispatched'[fromClient'[i].message] = 0
    <2> SUFFICES ASSUME NEW i \in Positions(fromClient'), fromClient'[i].type = "PUBLISH",
                        fromClient'[i].id = 0
                 PROVE  dispatched'[fromClient'[i].message] = 0
      OBVIOUS
    <2> DEFINE q == fromClient'[i]
    <2>1. i + 1 \in Positions(fromClient) /\ q = fromClient[i + 1] /\ i + 1 # 1
      BY DEF Takes
    <2>2. /\ q.message \in Message /\ dispatched[q.message] = 0
          /\ q.qos = publishedQoS[q.message] /\ q.qos = "AT_MOST_ONCE"
      BY <2>1, Types DEF RxInv, PublishInv, TypeInv, IdentifierInv
    <2>3. ~(p.type = "PUBLISH" /\ q.message = p.message)
      <3> SUFFICES ASSUME p.type = "PUBLISH", q.message = p.message
                   PROVE  FALSE
        OBVIOUS
      <3>1. p.id = 0
        BY <2>2 DEF Takes
      <3>2. PublishAt(1, 0) /\ PublishAt(i + 1, 0) /\ 1 \in Positions(fromClient)
        BY <2>1, <3>1 DEF PublishAt, Takes
      <3> QED
        BY <2>1, <3>2 DEF RxInv, PublishInv, Takes
    <2> QED
      BY <1>1, <2>2, <2>3
  <1>5. \A k \in PacketId, i, j \in Positions(fromClient') :
           (PublishAt(i, k)' /\ PublishAt(j, k)') =>
              /\ PublishAt(i + 1, k) /\ i + 1 \in Positions(fromClient)
              /\ PublishAt(j + 1, k) /\ j + 1 \in Positions(fromClient)
              /\ i + 1 = j + 1 => i = j
              /\ fromClient'[i] = fromClient[i + 1] /\ fromClient'[j] = fromClient[j + 1]
    BY TakesAt DEF Takes
  <1>6. \A i, j \in Positions(fromClient') :
           (/\ PublishAt(i, 0)' /\ PublishAt(j, 0)'
            /\ fromClient'[i].message = fromClient'[j].message) => i = j
    BY <1>5, Identifiers DEF RxInv, PublishInv
  <1>7. ~reconnected => \A k \in ClientPacketId, i, j \in Positions(fromClient') :
           (/\ PublishAt(i, k)' /\ PublishAt(j, k)'
            /\ fromClient'[i].qos = "AT_LEAST_ONCE") => i = j
    <2> SUFFICES ASSUME ~reconnected, NEW k \in ClientPacketId,
                        NEW i \in Positions(fromClient'), NEW j \in Positions(fromClient'),
                        PublishAt(i, k)', PublishAt(j, k)', fromClient'[i].qos = "AT_LEAST_ONCE"
                 PROVE  i = j
      OBVIOUS
    <2>1. /\ PublishAt(i + 1, k) /\ i + 1 \in Positions(fromClient)
          /\ PublishAt(j + 1, k) /\ j + 1 \in Positions(fromClient)
          /\ i + 1 = j + 1 => i = j
          /\ fromClient[i + 1].qos = "AT_LEAST_ONCE"
      BY <1>5, Identifiers
    <2> QED
      BY <2>1 DEF RxInv, PublishInv
  <1>8. \A i \in Positions(fromClient') : fromClient'[i].type = "PUBLISH" =>
           /\ fromClient'[i].message <= published
           /\ fromClient'[i].qos = publishedQoS[fromClient'[i].message]
           /\ fromClient'[i].id # 0 =>
                 /\ outgoing[fromClient'[i].id] # NoPublication
                 /\ outgoing[fromClient'[i].id].message = fromClient'[i].message
    BY DEF RxInv, PublishInv, Takes
  <1>9. PublishInv'
    BY <1>4, <1>6, <1>7, <1>8 DEF PublishInv, Takes
  <1> QED
    BY <1>3, <1>9

\* What stays true of the records while they only grow by none.
LEMMA TakesOrder ==
    ASSUME RxInv, NEW p, Takes(p),
           \A k \in ClientPacketId : publications[k] = NoPublication =>
               \/ publications'[k] = NoPublication
               \/ k = p.id /\ p.type = "PUBLISH"
    PROVE  OrderInv'
  <1> SUFFICES ASSUME NEW k \in ClientPacketId, NEW i \in Positions(fromClient'), PubrelAt(i, k)',
                      Publishing(k)' \/ \E j \in Positions(fromClient') : i < j /\ PublishAt(j, k)'
               PROVE  /\ publications'[k] = NoPublication
                      /\ \A j \in Positions(fromClient') : j < i => ~PublishAt(j, k)'
    BY DEF OrderInv
  <1>1. /\ 1 \in Positions(fromClient) /\ i \in Nat /\ i + 1 \in Positions(fromClient)
        /\ i + 1 # 1 /\ k \in PacketId
        /\ \A j \in Positions(fromClient') : j \in Nat /\ j + 1 \in Positions(fromClient)
    BY Identifiers DEF Takes
  <1>2. PubrelAt(i + 1, k) /\ \A j \in Positions(fromClient') : PublishAt(j, k)' => PublishAt(j + 1, k)
    BY <1>1, TakesAt
  <1>3. Publishing(k) \/ \E j \in Positions(fromClient) : i + 1 < j /\ PublishAt(j, k)
    <2>1. CASE Publishing(k)'
      BY <1>1, <2>1, TakesAt
    <2>2. CASE \E j \in Positions(fromClient') : i < j /\ PublishAt(j, k)'
      <3>1. PICK j \in Positions(fromClient') : i < j /\ PublishAt(j, k)'
        BY <2>2
      <3>2. i + 1 < j + 1 /\ j + 1 \in Positions(fromClient) /\ PublishAt(j + 1, k)
        BY <1>1, <1>2, <3>1
      <3> QED
        BY <3>2
    <2> QED
      BY <2>1, <2>2
  <1>4. /\ publications[k] = NoPublication
        /\ \A j \in Positions(fromClient) : j < i + 1 => ~PublishAt(j, k)
    BY <1>1, <1>2, <1>3 DEF RxInv, OrderInv
  <1>5. ~PublishAt(1, k)
    <2>1. 1 < i + 1
      BY <1>1
    <2> QED
      BY <1>1, <1>4, <2>1
  <1>6. publications'[k] = NoPublication
    BY <1>4, <1>5, TakesAt
  <1>7. \A j \in Positions(fromClient') : j < i => ~PublishAt(j, k)'
    <2> SUFFICES ASSUME NEW j \in Positions(fromClient'), j < i
                 PROVE  ~PublishAt(j, k)'
      OBVIOUS
    <2>1. j + 1 < i + 1 /\ j + 1 \in Positions(fromClient)
      BY <1>1
    <2> QED
      BY <1>2, <1>4, <2>1
  <1> QED
    BY <1>6, <1>7

\* The final answers that were under way before.
LEMMA TakesAnswered ==
    ASSUME RxInv, NEW p, Takes(p), Ignored \/ DispatchedOnce(p) \/ Recorded(p) \/ ReleasedBy(p),
           \A k \in ClientPacketId : publications[k] = NoPublication =>
               \/ publications'[k] = NoPublication
               \/ k = p.id /\ p.type = "PUBLISH"
    PROVE  \A k \in ClientPacketId, i \in Positions(toClient) : FinalAckAt(i, k) =>
              /\ publications'[k] = NoPublication
              /\ \A j \in Positions(fromClient') : ~PublishAt(j, k)'
              /\ outgoing'[k] # NoPublication
              /\ outgoing'[k].qos = "EXACTLY_ONCE" => outgoing'[k].phase = "release"
              /\ dispatched'[outgoing'[k].message] > 0
              /\ p.type = "PUBLISH" => k # p.id
  <1> SUFFICES ASSUME NEW k \in ClientPacketId, NEW i \in Positions(toClient), FinalAckAt(i, k)
               PROVE  /\ publications'[k] = NoPublication
                      /\ \A j \in Positions(fromClient') : ~PublishAt(j, k)'
                      /\ outgoing'[k] # NoPublication
                      /\ outgoing'[k].qos = "EXACTLY_ONCE" => outgoing'[k].phase = "release"
                      /\ dispatched'[outgoing'[k].message] > 0
                      /\ p.type = "PUBLISH" => k # p.id
    OBVIOUS
  <1>1. /\ publications[k] = NoPublication
        /\ \A j \in Positions(fromClient) : ~PublishAt(j, k)
        /\ outgoing[k] # NoPublication
        /\ outgoing[k].qos = "EXACTLY_ONCE" => outgoing[k].phase = "release"
        /\ dispatched[outgoing[k].message] > 0
    BY DEF RxInv, AckInv
  <1>2. 1 \in Positions(fromClient) /\ k \in PacketId /\ outgoing' = outgoing
    BY Identifiers DEF Takes
  <1>3. p.type = "PUBLISH" => k # p.id
    BY <1>1, <1>2, TakesAt
  <1>4. \A j \in Positions(fromClient') : ~PublishAt(j, k)'
    BY <1>1, <1>2, TakesAt DEF Takes
  <1>5. dispatched'[outgoing[k].message] > 0
    <2>1. outgoing[k].message \in Message
      BY <1>1, Types DEF RxInv
    <2> QED
      BY <1>1, <2>1, TakesHistory, Types DEF RxInv
  <1> QED
    BY <1>1, <1>2, <1>3, <1>4, <1>5

LEMMA IgnoredInv ==
    ASSUME RxInv, NEW p, Takes(p), Ignored
    PROVE  FlightInv' /\ OrderInv' /\ AckInv' /\ RecordInv'
  <1>1. UNCHANGED <<publications, toClient, dispatched, forgotten>>
    BY DEF Ignored
  <1>2. FlightInv'
    BY <1>1 DEF RxInv, FlightInv, Takes
  <1>3. OrderInv'
    BY <1>1, TakesOrder
  <1>4. AckInv'
    BY <1>1, TakesAnswered DEF RxInv, AckInv, FinalAckAt, Takes
  <1>5. RecordInv'
    <2>1. \A m \in Message : (Recording(m) => Recording(m)') /\ (Released(m) => Released(m)')
      <3>1. \A m \in Message : Recording(m) => Recording(m)'
        BY <1>1 DEF Recording
      <3> QED
        BY <3>1, TakesAt
    <2> QED
      BY <1>1, <2>1 DEF RxInv, RecordInv, Takes
  <1> QED
    BY <1>2, <1>3, <1>4, <1>5

LEMMA DispatchedInv ==
    ASSUME RxInv, NEW p, Takes(p), DispatchedOnce(p)
    PROVE  FlightInv' /\ OrderInv' /\ AckInv' /\ RecordInv'
  <1>1. /\ UNCHANGED publications /\ p.type = "PUBLISH" /\ p.message \in Message
        /\ publications[p.id] = NoPublication
        /\ UNCHANGED <<session, outgoing, reconnected, published, publishedQoS>>
    BY DEF DispatchedOnce, Takes
  <1>2. \A m \in Message :
           \/ dispatched'[m] = dispatched[m] /\ forgotten'[m] = forgotten[m]
           \/ /\ m = p.message /\ dispatched'[m] = dispatched[m] + 1
              /\ \/ forgotten'[m] = forgotten[m] /\ p.qos # "EXACTLY_ONCE"
                 \/ forgotten'[m] = forgotten[m] + 1
    <2>1. ~Recorded(p) \/ p.qos = "EXACTLY_ONCE"
      BY DEF Recorded
    <2>2. DispatchedOnce(p) /\ p.qos = "EXACTLY_ONCE" => forgotten'[p.message] = forgotten[p.message] + 1
      BY <1>1 DEF DispatchedOnce, RxInv, TypeInv, TypeOK
    <2> QED
      BY <1>1, <2>1, <2>2, TakesHistory
  <1>3. \A m \in Message : dispatched[m] \in Nat /\ forgotten[m] \in Nat
    BY Types DEF RxInv
  <1>4. FlightInv'
    <2> SUFFICES ASSUME NEW k \in ClientPacketId, publications[k] # NoPublication
                 PROVE  /\ outgoing[k] # NoPublication
                        /\ outgoing[k].message = publications[k].message
                        /\ outgoing[k].qos = "EXACTLY_ONCE"
                        /\ forgotten'[publications[k].message] < dispatched'[publications[k].message]
      BY <1>1 DEF FlightInv
    <2>1. publications[k].message \in Message
      BY Types, Identifiers DEF RxInv
    <2>2. forgotten[publications[k].message] < dispatched[publications[k].message]
      BY DEF RxInv, FlightInv
    <2>3. forgotten'[publications[k].message] < dispatched'[publications[k].message]
      BY <1>2, <1>3, <2>1, <2>2
    <2> QED
      BY <2>3 DEF RxInv, FlightInv
  <1>5. OrderInv'
    BY <1>1, TakesOrder
  <1>6. AckInv'
    <2>1. \A k \in ClientPacketId, i \in Positions(toClient) : FinalAckAt(i, k) =>
             /\ publications'[k] = NoPublication
             /\ \A j \in Positions(fromClient') : ~PublishAt(j, k)'
             /\ outgoing'[k] # NoPublication
             /\ outgoing'[k].qos = "EXACTLY_ONCE" => outgoing'[k].phase = "release"
             /\ dispatched'[outgoing'[k].message] > 0
             /\ k # p.id
      BY <1>1, TakesAnswered
    <2>2. CASE UNCHANGED toClient
      BY <2>1, <2>2 DEF RxInv, AckInv, FinalAckAt
    <2>3. CASE /\ p.qos = "AT_LEAST_ONCE" /\ sender = "open"
               /\ toClient' = Append(toClient, Ack("PUBACK", p.id))
      <3> DEFINE n == Len(toClient) + 1
      <3>1. /\ Ack("PUBACK", p.id).id = p.id
            /\ n \notin Positions(toClient)
            /\ \A i \in Positions(toClient') :
                  \/ i \in Positions(toClient) /\ toClient'[i] = toClient[i]
                  \/ i = n /\ toClient'[i] = Ack("PUBACK", p.id)
        <4>1. TypeInv /\ p.id \in PacketId
          BY DEF Takes, RxInv
        <4> DEFINE a == Ack("PUBACK", p.id)
        <4>2. toClient \in Seq(AckPacket) /\ a \in AckPacket /\ a.id = p.id
          BY <4>1, PacketTypes DEF TypeInv, TypeOK
        <4>3. \A i \in Positions(toClient) : i < n
          BY <4>2, AppendAt
        <4> HIDE DEF a
        <4>4. \A i \in Positions(Append(toClient, a)) :
                 \/ i \in Positions(toClient) /\ Append(toClient, a)[i] = toClient[i]
                 \/ i = n /\ Append(toClient, a)[i] = a
          BY <4>2, AppendAt
        <4>5. n \notin Positions(toClient)
          BY <4>2, <4>3
        <4> QED
          BY <2>3, <4>2, <4>4, <4>5 DEF a
      <3> HIDE DEF n
      <3>2. /\ p.id \in ClientPacketId /\ p.id # 0 /\ outgoing[p.id] # NoPublication
            /\ outgoing[p.id].message = p.message /\ outgoing[p.id].qos = "AT_LEAST_ONCE"
        BY <1>1, <2>3 DEF Takes
      <3>3. dispatched'[p.message] > 0
        <4>1. dispatched' = [dispatched EXCEPT ![p.message] = @ + 1]
          BY DEF DispatchedOnce
        <4> QED
          BY <1>1, <1>3, <4>1 DEF RxInv, TypeInv, TypeOK
      \* The connection is open, so that the PUBLISH was not resent.
      <3>4. \A j \in Positions(fromClient') : ~PublishAt(j, p.id)'
        <4> SUFFICES ASSUME NEW j \in Positions(fromClient'), PublishAt(j, p.id)'
                     PROVE  FALSE
          OBVIOUS
        <4>1. /\ 1 \in Positions(fromClient) /\ PublishAt(1, p.id) /\ fromClient[1] = p
              /\ j + 1 \in Positions(fromClient) /\ PublishAt(j + 1, p.id) /\ j + 1 # 1
          BY <1>1, <3>2, TakesAt, Identifiers DEF Takes
        <4>2. ~reconnected
          BY <2>3 DEF RxInv, TypeInv, IdentifierInv
        <4> QED
          BY <2>3, <3>2, <4>1, <4>2 DEF RxInv, PublishInv
      <3>5. \A k \in ClientPacketId, i \in Positions(toClient') : FinalAckAt(i, k)' =>
               \/ i \in Positions(toClient) /\ FinalAckAt(i, k)
               \/ i = n /\ k = p.id
        BY <3>1 DEF FinalAckAt
      <3>6. \A k \in ClientPacketId, i \in Positions(toClient') : FinalAckAt(i, k)' =>
               /\ publications'[k] = NoPublication
               /\ \A j \in Positions(fromClient') : ~PublishAt(j, k)'
               /\ outgoing'[k] # NoPublication
               /\ outgoing'[k].qos = "EXACTLY_ONCE" => outgoing'[k].phase = "release"
               /\ dispatched'[outgoing'[k].message] > 0
        BY <1>1, <2>1, <3>2, <3>3, <3>4, <3>5
      <3>7. \A k \in ClientPacketId, i, j \in Positions(toClient') :
               FinalAckAt(i, k)' /\ FinalAckAt(j, k)' => i = j
        BY <2>1, <3>5 DEF RxInv, AckInv
      <3> QED
        BY <3>6, <3>7 DEF AckInv
    <2> QED
      BY <2>2, <2>3 DEF DispatchedOnce
  <1>7. RecordInv'
    <2>1. \A m \in Message : forgotten'[m] <= dispatched'[m]
      BY <1>2, <1>3 DEF RxInv, RecordInv
    <2> SUFFICES ASSUME NEW m \in Message, publishedQoS[m] = "EXACTLY_ONCE"
                 PROVE  /\ dispatched'[m] <= forgotten'[m] + 1
                        /\ (session /\ dispatched'[m] > forgotten'[m]) =>
                               Recording(m)' \/ Released(m)'
      BY <1>1, <2>1 DEF RecordInv
    <2>2. /\ dispatched[m] <= forgotten[m] + 1
          /\ (session /\ dispatched[m] > forgotten[m]) => Recording(m) \/ Released(m)
      BY DEF RxInv, RecordInv
    <2>3. (Recording(m) => Recording(m)') /\ (Released(m) => Released(m)')
      <3>1. Recording(m) => Recording(m)'
        BY <1>1 DEF Recording
      <3> QED
        BY <3>1, TakesAt
    <2>4. m = p.message => p.qos = "EXACTLY_ONCE"
      BY <1>1 DEF Takes
    <2>5. \/ dispatched'[m] = dispatched[m] /\ forgotten'[m] = forgotten[m]
          \/ dispatched'[m] = dispatched[m] + 1 /\ forgotten'[m] = forgotten[m] + 1
      BY <1>2, <2>4
    <2>6. dispatched'[m] <= forgotten'[m] + 1
      BY <1>3, <2>2, <2>5
    <2>7. dispatched'[m] > forgotten'[m] => dispatched[m] > forgotten[m]
      BY <1>3, <2>5
    <2> QED
      BY <2>2, <2>3, <2>6, <2>7
  <1> QED
    BY <1>4, <1>5, <1>6, <1>7

\* A QoS 2 message that is not on record has not been taken, unless forgotten.
LEMMA NotTakenBefore ==
    ASSUME RxInv, NEW p, Takes(p), session, p.type = "PUBLISH", p.qos = "EXACTLY_ONCE",
           p.id \notin InFlight
    PROVE  dispatched[p.message] <= forgotten[p.message]
  <1>1. /\ p.message \in Message /\ p.qos = publishedQoS[p.message]
        /\ p.id \in ClientPacketId /\ publications[p.id] = NoPublication
        /\ outgoing[p.id] # NoPublication /\ outgoing[p.id].message = p.message
    BY DEF Takes
  <1>2. ~Recording(p.message)
    BY <1>1 DEF Recording, RxInv, FlightInv, OutgoingInv
  <1>3. ~Released(p.message)
    BY TakesAt
  <1>4. ~(dispatched[p.message] > forgotten[p.message])
    BY <1>1, <1>2, <1>3 DEF RxInv, RecordInv
  <1> QED
    BY <1>1, <1>4, Types DEF RxInv

LEMMA RecordedInv ==
    ASSUME RxInv, NEW p, Takes(p), Recorded(p)
    PROVE  FlightInv' /\ OrderInv' /\ AckInv' /\ RecordInv'
  <1>1. /\ p.type = "PUBLISH" /\ session /\ p.qos = "EXACTLY_ONCE" /\ p.message \in Message
        /\ p.qos = publishedQoS[p.message]
        /\ p.id \in PacketId /\ p.id # 0 /\ p.id \in ClientPacketId
        /\ publications[p.id] = NoPublication
        /\ outgoing[p.id] # NoPublication /\ outgoing[p.id].message = p.message
        /\ outgoing[p.id].qos = "EXACTLY_ONCE"
        /\ UNCHANGED <<session, outgoing, reconnected, published, publishedQoS>>
    BY DEF Recorded, Takes
  <1>2. /\ \A k \in ClientPacketId : k # p.id => publications'[k] = publications[k]
        /\ publications'[p.id] # NoPublication /\ publications'[p.id].message = p.message
    <2> DEFINE r == [retry_count |-> 0, armed |-> TRUE, queued |-> FALSE, message |-> p.message]
    <2>1. r \in RxPublication
      BY <1>1, ConstantsAssumption DEF RxPublication
    <2>2. r.message = p.message
      OBVIOUS
    <2>3. publications' = [publications EXCEPT ![p.id] = r]
      BY DEF Recorded
    <2> HIDE DEF r
    <2>4. r # NoPublication
      BY <2>1, ConstantsAssumption
    <2> QED
      BY <1>1, <2>2, <2>3, <2>4, Identifiers DEF RxInv, TypeInv, TypeOK
  <1>3. /\ \A m \in Message : dispatched[m] \in Nat /\ forgotten[m] \in Nat
        /\ \A m \in Message : m # p.message => dispatched'[m] = dispatched[m]
        /\ dispatched'[p.message] = dispatched[p.message] + 1
        /\ UNCHANGED forgotten
    <2>1. dispatched' = [dispatched EXCEPT ![p.message] = @ + 1] /\ UNCHANGED forgotten
      BY DEF Recorded
    <2> QED
      BY <1>1, <2>1, Types DEF RxInv, TypeInv, TypeOK
  <1>4. \A k \in ClientPacketId : publications[k] = NoPublication =>
           \/ publications'[k] = NoPublication
           \/ k = p.id /\ p.type = "PUBLISH"
    BY <1>1, <1>2
  <1>5. dispatched[p.message] <= forgotten[p.message]
    BY <1>1, NotTakenBefore DEF Recorded
  <1>6. FlightInv'
    <2> SUFFICES ASSUME NEW k \in ClientPacketId, publications'[k] # NoPublication
                 PROVE  /\ outgoing[k] # NoPublication
                        /\ outgoing[k].message = publications'[k].message
                        /\ outgoing[k].qos = "EXACTLY_ONCE"
                        /\ forgotten[publications'[k].message] < dispatched'[publications'[k].message]
      BY <1>1, <1>3 DEF FlightInv
    <2>1. CASE k = p.id
      <3>1. forgotten[p.message] < dispatched'[p.message]
        BY <1>1, <1>3 DEF RxInv, RecordInv
      <3> QED
        BY <1>1, <1>2, <2>1, <3>1
    <2>2. CASE k # p.id
      <3>1. publications'[k] = publications[k] /\ publications[k].message \in Message
        BY <1>2, <2>2, Types, Identifiers DEF RxInv
      <3>2. /\ outgoing[k] # NoPublication
            /\ outgoing[k].message = publications[k].message
            /\ outgoing[k].qos = "EXACTLY_ONCE"
            /\ forgotten[publications[k].message] < dispatched[publications[k].message]
        BY <3>1 DEF RxInv, FlightInv
      <3>3. forgotten[publications[k].message] < dispatched'[publications[k].message]
        BY <1>3, <3>1, <3>2
      <3> QED
        BY <3>1, <3>2, <3>3
    <2> QED
      BY <2>1, <2>2
  <1>7. OrderInv'
    BY <1>4, TakesOrder
  <1>8. AckInv'
    <2>1. \A k \in ClientPacketId, i \in Positions(toClient) : FinalAckAt(i, k) =>
             /\ publications'[k] = NoPublication
             /\ \A j \in Positions(fromClient') : ~PublishAt(j, k)'
             /\ outgoing'[k] # NoPublication
             /\ outgoing'[k].qos = "EXACTLY_ONCE" => outgoing'[k].phase = "release"
             /\ dispatched'[outgoing'[k].message] > 0
      BY <1>4, TakesAnswered
    <2>2. /\ Ack("PUBREC", p.id).type = "PUBREC"
          /\ \A i \in Positions(toClient') :
                \/ i \in Positions(toClient) /\ toClient'[i] = toClient[i]
                \/ i = Len(toClient) + 1 /\ toClient'[i] = Ack("PUBREC", p.id)
      BY <1>1, Answers DEF Recorded, RxInv
    <2>3. \A k \in ClientPacketId, i \in Positions(toClient') : FinalAckAt(i, k)' =>
             i \in Positions(toClient) /\ FinalAckAt(i, k)
      BY <2>2 DEF FinalAckAt
    <2> QED
      BY <2>1, <2>3 DEF RxInv, AckInv
  <1>9. RecordInv'
    <2>1. \A m \in Message : forgotten'[m] <= dispatched'[m]
      BY <1>3 DEF RxInv, RecordInv
    <2> SUFFICES ASSUME NEW m \in Message, publishedQoS[m] = "EXACTLY_ONCE"
                 PROVE  /\ dispatched'[m] <= forgotten'[m] + 1
                        /\ (session /\ dispatched'[m] > forgotten'[m]) =>
                               Recording(m)' \/ Released(m)'
      BY <1>1, <2>1 DEF RecordInv
    <2>2. CASE m = p.message
      <3>1. Recording(m)'
        BY <1>1, <1>2, <2>2 DEF Recording
      <3> QED
        BY <1>3, <1>5, <2>2, <3>1
    <2>3. CASE m # p.message
      <3>1. Recording(m) => Recording(m)'
        BY <1>1, <1>2 DEF Recording
      <3>2. Released(m) => Released(m)'
        BY TakesAt
      <3> QED
        BY <1>3, <2>3, <3>1, <3>2 DEF RxInv, RecordInv
    <2> QED
      BY <2>2, <2>3
  <1> QED
    BY <1>6, <1>7, <1>8, <1>9

LEMMA ReleasedInv ==
    ASSUME RxInv, NEW p, Takes(p), ReleasedBy(p)
    PROVE  FlightInv' /\ OrderInv' /\ AckInv' /\ RecordInv'
  <1>1. /\ p.type = "PUBREL" /\ p.id \in PacketId /\ p.id \in ClientPacketId
        /\ publications[p.id] # NoPublication
        /\ UNCHANGED <<session, outgoing, reconnected, published, publishedQoS, dispatched,
                       forgotten>>
    BY DEF ReleasedBy, Takes, InFlight
  <1>2. /\ publications'[p.id] = NoPublication
        /\ \A k \in ClientPacketId : k # p.id => publications'[k] = publications[k]
    BY <1>1, Identifiers DEF ReleasedBy, RxInv, TypeInv, TypeOK
  <1>3. \A k \in ClientPacketId : publications[k] = NoPublication => publications'[k] = NoPublication
    BY <1>2
  \* No PUBLISH of the publication follows, and the client has released it.
  <1>4. ~Publishing(p.id) /\ \A j \in Positions(fromClient) : ~PublishAt(j, p.id)
    <2>1. 1 \in Positions(fromClient) /\ PubrelAt(1, p.id)
      BY <1>1, TakesAt DEF Takes
    <2>2. ~Publishing(p.id) /\ \A j \in Positions(fromClient) : 1 < j => ~PublishAt(j, p.id)
      BY <1>1, <2>1 DEF RxInv, OrderInv
    <2>3. ~PublishAt(1, p.id)
      BY <2>1 DEF PublishAt, PubrelAt
    <2>4. \A j \in Positions(fromClient) : j = 1 \/ 1 < j
      BY DEF Positions
    <2> QED
      BY <2>2, <2>3, <2>4
  <1>5. FlightInv'
    BY <1>1, <1>2 DEF RxInv, FlightInv
  <1>6. OrderInv'
    BY <1>3, TakesOrder
  <1>7. AckInv'
    <2> DEFINE n == Len(toClient) + 1
    <2>1. \A k \in ClientPacketId, i \in Positions(toClient) : FinalAckAt(i, k) =>
             /\ publications'[k] = NoPublication
             /\ \A j \in Positions(fromClient') : ~PublishAt(j, k)'
             /\ outgoing'[k] # NoPublication
             /\ outgoing'[k].qos = "EXACTLY_ONCE" => outgoing'[k].phase = "release"
             /\ dispatched'[outgoing'[k].message] > 0
      BY <1>3, TakesAnswered
    <2>2. /\ Ack("PUBCOMP", p.id).id = p.id
          /\ \A i \in Positions(toClient') :
                \/ i \in Positions(toClient) /\ toClient'[i] = toClient[i]
                \/ i = n /\ toClient'[i] = Ack("PUBCOMP", p.id)
      BY <1>1, Answers DEF ReleasedBy, RxInv
    <2> HIDE DEF n
    <2>3. \A k \in ClientPacketId, i \in Positions(toClient') : FinalAckAt(i, k)' =>
             \/ i \in Positions(toClient) /\ FinalAckAt(i, k)
             \/ i = n /\ k = p.id
      BY <2>2 DEF FinalAckAt
    <2>4. \A i \in Positions(toClient) : ~FinalAckAt(i, p.id)
      BY <1>1 DEF RxInv, AckInv
    <2>5. \A j \in Positions(fromClient') : ~PublishAt(j, p.id)'
      BY <1>1, <1>4, TakesAt DEF Takes
    <2>6. /\ outgoing[p.id] # NoPublication /\ outgoing[p.id].phase = "release"
          /\ dispatched[outgoing[p.id].message] > 0
      <3>1. /\ outgoing[p.id] # NoPublication
            /\ outgoing[p.id].message = publications[p.id].message
            /\ forgotten[publications[p.id].message] < dispatched[publications[p.id].message]
        BY <1>1 DEF RxInv, FlightInv
      <3>2. /\ outgoing[p.id].phase \in {"publish", "release"}
            /\ outgoing[p.id].message \in Message
        BY <1>1, <3>1, Types DEF RxInv
      <3>3. outgoing[p.id].phase = "release"
        BY <1>4, <3>1, <3>2 DEF Publishing
      <3>4. dispatched[outgoing[p.id].message] > 0
        BY <3>1, <3>2, Types DEF RxInv
      <3> QED
        BY <3>1, <3>3, <3>4
    <2>7. \A k \in ClientPacketId, i \in Positions(toClient') : FinalAckAt(i, k)' =>
             /\ publications'[k] = NoPublication
             /\ \A j \in Positions(fromClient') : ~PublishAt(j, k)'
             /\ outgoing'[k] # NoPublication
             /\ outgoing'[k].qos = "EXACTLY_ONCE" => outgoing'[k].phase = "release"
             /\ dispatched'[outgoing'[k].message] > 0
      BY <1>1, <1>2, <2>1, <2>3, <2>5, <2>6
    <2>8. \A k \in ClientPacketId, i, j \in Positions(toClient') :
             FinalAckAt(i, k)' /\ FinalAckAt(j, k)' => i = j
      BY <2>3, <2>4 DEF RxInv, AckInv
    <2> QED
      BY <2>7, <2>8 DEF AckInv
  <1>8. RecordInv'
    <2> SUFFICES ASSUME NEW m \in Message, publishedQoS[m] = "EXACTLY_ONCE"
                 PROVE  /\ dispatched[m] <= forgotten[m] + 1
                        /\ (session /\ dispatched[m] > forgotten[m]) =>
                               Recording(m)' \/ Released(m)'
      BY <1>1 DEF RxInv, RecordInv
    <2>1. CASE m = publications[p.id].message
      <3>1. outgoing[p.id] # NoPublication /\ outgoing[p.id].message = m
        BY <1>1, <2>1 DEF RxInv, FlightInv
      <3>2. \A k \in ClientPacketId :
               outgoing[k] # NoPublication /\ outgoing[k].message = m => k = p.id
        BY <1>1, <3>1 DEF RxInv, OutgoingInv
      <3>3. \A i \in Positions(fromClient) :
               ~(fromClient[i].type = "PUBLISH" /\ fromClient[i].message = m)
        <4> SUFFICES ASSUME NEW i \in Positions(fromClient), fromClient[i].type = "PUBLISH",
                            fromClient[i].message = m
                     PROVE  FALSE
          OBVIOUS
        <4>1. fromClient[i].qos = "EXACTLY_ONCE"
          BY DEF RxInv, PublishInv
        <4>2. fromClient[i].id # 0
          BY <4>1 DEF RxInv, TypeInv, IdentifierInv
        <4>3. /\ fromClient[i].id \in ClientPacketId
              /\ outgoing[fromClient[i].id] # NoPublication
              /\ outgoing[fromClient[i].id].message = m
          BY <4>2, Types DEF RxInv, PublishInv
        <4> QED
          BY <1>4, <3>2, <4>3 DEF PublishAt
      <3>4. Released(m)
        BY <1>4, <3>2, <3>3 DEF Released
      <3> QED
        BY <3>4, TakesAt DEF RxInv, RecordInv
    <2>2. CASE m # publications[p.id].message
      <3>1. Recording(m) => Recording(m)'
        BY <1>2, <2>2 DEF Recording
      <3> QED
        BY <3>1, TakesAt DEF RxInv, RecordInv
    <2> QED
      BY <2>1, <2>2
  <1> QED
    BY <1>5, <1>6, <1>7, <1>8

LEMMA ReceivedInv ==
    ASSUME RxInv, packet_received
    PROVE  RxInv'
  <1> DEFINE p == Head(fromClient)
  <1>1. Takes(p) /\ (Ignored \/ DispatchedOnce(p) \/ Recorded(p) \/ ReleasedBy(p))
    BY ReceivedTakes, ReceivedCases DEF RxInv
  <1> HIDE DEF p
  <1>2. FlightInv' /\ OrderInv' /\ AckInv' /\ RecordInv'
    BY <1>1, IgnoredInv, DispatchedInv, RecordedInv, ReleasedInv
  <1> QED
    BY <1>1, <1>2, TakesPublishing, ReceivedTypes DEF RxInv

LEMMA InvNext ==
    ASSUME RxInv, [Next]_vars
    PROVE  RxInv'
  <1>1. CASE packet_received
    BY <1>1, ReceivedInv
  <1>2. CASE \E id \in PacketId : timer_expires(id) \/ pubrel_timeout_expired(id)
    BY <1>2, TimerCases, TimerInv DEF RxInv
  <1>3. CASE connection_closed \/ connection_destroyed \/ session_destroyed
    BY <1>3, CloseInv
  <1>4. CASE \E qos \in QoS : client_publishes(qos)
    BY <1>4, PublishCases, PublishesInv DEF RxInv
  <1>5. CASE \E id \in ClientPacketId : client_resends(id)
    BY <1>5, ResendInv
  <1>6. CASE client_receives
    BY <1>6, AnswerInv
  <1>7. CASE client_reconnects
    BY <1>7, ReconnectInv
  <1>8. CASE UNCHANGED vars
    <2>1. UNCHANGED <<publications, sender, session, toClient, fromClient, outgoing,
                      client_retries, reconnected, published, publishedQoS, completed,
                      dispatched, forgotten>>
      BY <1>8 DEF vars, serverVars, channelVars, clientVars, historyVars
    <2> QED
      BY <2>1 DEF RxInv, TypeInv, TypeOK, IdentifierInv, OutgoingInv, PublishInv, FlightInv,
                  OrderInv, AckInv, RecordInv, PublishAt, PubrelAt, FinalAckAt, Publishing,
                  Released, Recording
  <1> QED
    BY <1>1, <1>2, <1>3, <1>4, <1>5, <1>6, <1>7, <1>8 DEF Next

-----------------------------------------------------------------------------
(* Theorems                                                                 *)

\* The inductive invariant: types, identifiers, and what packets under way,
\* the server's records and the client's say of each other.
THEOREM Invariant == Spec => []RxInv
  <1>1. Init => RxInv
    BY InvInit
  <1>2. RxInv /\ [Next]_vars => RxInv'
    BY InvNext
  <1> QED
    BY <1>1, <1>2, PTL DEF Spec

\* rx_in_flight_publications.hpp and rx_publication.hpp: the variables keep the
\* types of their declarations.
THEOREM TypeCorrect == Spec => []TypeOK
  <1>1. RxInv => TypeOK
    BY DEF RxInv, TypeInv
  <1> QED
    BY <1>1, Invariant, PTL

-----------------------------------------------------------------------------
(* Refinement of Delivery                                                   *)

\* The variables of Delivery, as Hop maps them.
HopQoS == [m \in Message |-> IF m > published THEN "none" ELSE publishedQoS[m]]

HopStatus == [m \in Message |-> delivery_status(m)]

LEMMA StatusCases ==
    ASSUME RxInv, NEW m \in Message
    PROVE  /\ m > published => delivery_status(m) = "unpublished" /\ HopQoS[m] = "none"
           /\ m <= published => HopQoS[m] = publishedQoS[m]
           /\ m <= published /\ publishedQoS[m] = "AT_MOST_ONCE" =>
                 delivery_status(m) = "untracked"
           /\ m <= published /\ publishedQoS[m] # "AT_MOST_ONCE" /\ m \in completed =>
                 delivery_status(m) = "completed"
           /\ m <= published /\ publishedQoS[m] # "AT_MOST_ONCE" /\ m \notin completed =>
                 delivery_status(m) = "in_flight"
           /\ m > published \/ m <= published
           /\ ~(m > published /\ m <= published)
  <1>1. /\ m > published \/ m <= published
        /\ ~(m > published /\ m <= published)
    BY Types DEF RxInv
  <1>2. m > published => m \notin completed
    BY <1>1 DEF RxInv, OutgoingInv
  <1>3. m > published => HopQoS[m] = "none"
    BY DEF HopQoS
  <1>4. m <= published => HopQoS[m] = publishedQoS[m]
    BY <1>1 DEF HopQoS
  <1>5. m > published => delivery_status(m) = "unpublished"
    BY <1>1, <1>2, Zenon DEF delivery_status
  <1>6. m <= published /\ publishedQoS[m] = "AT_MOST_ONCE" => delivery_status(m) = "untracked"
    <2>1. publishedQoS[m] = "AT_MOST_ONCE" => m \notin completed
      BY DEF RxInv, OutgoingInv
    <2> QED
      BY <1>1, <2>1, Zenon DEF delivery_status
  <1>7. m <= published /\ publishedQoS[m] # "AT_MOST_ONCE" /\ m \in completed =>
           delivery_status(m) = "completed"
    BY <1>1, Zenon DEF delivery_status
  <1>8. m <= published /\ publishedQoS[m] # "AT_MOST_ONCE" /\ m \notin completed =>
           delivery_status(m) = "in_flight"
    BY <1>1, Zenon DEF delivery_status
  <1> QED
    BY <1>1, <1>3, <1>4, <1>5, <1>6, <1>7, <1>8

\* Neither the client's packets nor the server's records are visible in Delivery.
LEMMA HopUnchanged ==
    ASSUME UNCHANGED <<published, publishedQoS, completed>>
    PROVE  UNCHANGED HopQoS /\ UNCHANGED HopStatus
  BY DEF HopQoS, HopStatus, delivery_status

LEMMA HopInit == Init => Hop!Init
  <1> SUFFICES ASSUME Init
               PROVE  Hop!Init
    OBVIOUS
  <1>1. \A m \in Message : delivery_status(m) = "unpublished" /\ HopQoS[m] = "none"
    <2>1. \A m \in Message : m > published
      BY DEF Init, Message
    <2> QED
      BY <2>1, InvInit, StatusCases
  <1>2. HopQoS = [m \in Message |-> "none"]
    BY <1>1 DEF HopQoS
  <1>3. HopStatus = [m \in Message |-> "unpublished"]
    BY <1>1 DEF HopStatus
  <1> QED
    BY <1>2, <1>3 DEF Hop!Init, Init, HopQoS, HopStatus

LEMMA PublishesHop ==
    ASSUME RxInv, RxInv', NEW m \in Message, NEW qos \in QoS, NEW id \in PacketId,
           PublishesNew(m, qos, id)
    PROVE  Hop!Publish(m, qos)
  <1>1. /\ m = published + 1 /\ published' = m /\ published \in Nat
        /\ publishedQoS' = [publishedQoS EXCEPT ![m] = qos]
        /\ UNCHANGED <<completed, dispatched, forgotten>>
    BY Types DEF PublishesNew, historyVars, RxInv
  <1>2. /\ m > published /\ m <= published' /\ ~(m > published') /\ m \notin completed
        /\ \A l \in Message : l # m => (l > published' <=> l > published)
        /\ \A l \in Message : l # m => (l <= published' <=> l <= published)
    <2>1. m > published /\ m <= published' /\ ~(m > published')
      BY <1>1
    <2>2. /\ \A l \in Message : l # m => (l > published' <=> l > published)
          /\ \A l \in Message : l # m => (l <= published' <=> l <= published)
      BY <1>1 DEF Message
    <2>3. m \notin completed
      BY <2>1, Types DEF RxInv, OutgoingInv
    <2> QED
      BY <2>1, <2>2, <2>3
  <1>3. /\ publishedQoS \in [Message -> QoS] /\ publishedQoS'[m] = qos
        /\ \A l \in Message : l # m => publishedQoS'[l] = publishedQoS[l]
    BY <1>1 DEF RxInv, TypeInv, TypeOK
  <1>4. delivery_status(m) = "unpublished"
    BY <1>2, StatusCases
  <1>5. HopQoS' = [HopQoS EXCEPT ![m] = qos]
    <2>1. (IF m > published' THEN "none" ELSE publishedQoS'[m]) = qos
      BY <1>2, <1>3
    <2>2. \A l \in Message : l # m =>
             (IF l > published' THEN "none" ELSE publishedQoS'[l])
                 = (IF l > published THEN "none" ELSE publishedQoS[l])
      BY <1>2, <1>3
    <2> QED
      BY <2>1, <2>2 DEF HopQoS
  <1>6. /\ qos = "AT_MOST_ONCE" => delivery_status(m)' = "untracked"
        /\ qos # "AT_MOST_ONCE" => delivery_status(m)' = "in_flight"
    <2>1. ~(m > published') /\ m <= published' /\ m \notin completed' /\ publishedQoS'[m] = qos
      BY <1>1, <1>2, <1>3
    <2>2. qos = "AT_MOST_ONCE" => delivery_status(m)' = "untracked"
      BY <2>1, Zenon DEF delivery_status
    <2>3. qos # "AT_MOST_ONCE" => delivery_status(m)' = "in_flight"
      BY <2>1, Zenon DEF delivery_status
    <2> QED
      BY <2>2, <2>3
  <1>7. \A l \in Message : l # m => delivery_status(l)' = delivery_status(l)
    BY <1>1, <1>2, <1>3 DEF delivery_status
  <1>8. HopStatus' = [HopStatus EXCEPT ![m] = delivery_status(m)']
    BY <1>7 DEF HopStatus
  <1>9. /\ HopStatus[m] = "unpublished"
        /\ \E s \in CASE qos = "RESERVED"     -> {"dropped"}
                       [] qos = "AT_MOST_ONCE" -> {"untracked"}
                       [] OTHER                -> {"in_flight", "dropped"} :
              HopStatus' = [HopStatus EXCEPT ![m] = s]
    <2>1. HopStatus[m] = "unpublished"
      BY <1>4 DEF HopStatus
    <2>2. CASE qos = "AT_MOST_ONCE"
      <3>1. (CASE qos = "RESERVED"     -> {"dropped"}
               [] qos = "AT_MOST_ONCE" -> {"untracked"}
               [] OTHER                -> {"in_flight", "dropped"}) = {"untracked"}
        BY <2>2, Zenon
      <3>2. HopStatus' = [HopStatus EXCEPT ![m] = "untracked"]
        BY <1>6, <1>8, <2>2
      <3> QED
        BY <2>1, <3>1, <3>2, Zenon
    <2>3. CASE qos # "AT_MOST_ONCE"
      <3>1. qos # "RESERVED"
        BY DEF QoS
      <3>2. (CASE qos = "RESERVED"     -> {"dropped"}
               [] qos = "AT_MOST_ONCE" -> {"untracked"}
               [] OTHER                -> {"in_flight", "dropped"}) = {"in_flight", "dropped"}
        BY <2>3, <3>1, Zenon
      <3>3. HopStatus' = [HopStatus EXCEPT ![m] = "in_flight"]
        BY <1>6, <1>8, <2>3
      <3> QED
        BY <2>1, <3>2, <3>3, Zenon
    <2> QED
      BY <2>2, <2>3
  <1> QED
    BY <1>1, <1>5, <1>9, Zenon DEF Hop!Publish, HopQoS, HopStatus

LEMMA TimerHop ==
    ASSUME RxInv, NEW id \in PacketId, TimerStep(id)
    PROVE  (\E m \in Message : Hop!Forget(m)) \/ UNCHANGED Hop!vars
  <1> DEFINE m == publications[id].message
  <1>1. /\ UNCHANGED <<published, publishedQoS, completed, dispatched>>
        /\ forgotten' \in {forgotten, [forgotten EXCEPT ![m] = @ + 1]}
    BY DEF TimerStep, clientVars
  <1>2. UNCHANGED HopQoS /\ UNCHANGED HopStatus
    BY <1>1, HopUnchanged
  <1>3. id \in ClientPacketId /\ publications[id] # NoPublication /\ m \in Message
    BY InFlightType, Identifiers, Types DEF TimerStep, RxInv, TypeInv, IdentifierInv, InFlight
  <1>4. /\ outgoing[id] # NoPublication /\ outgoing[id].message = m
        /\ outgoing[id].qos = "EXACTLY_ONCE" /\ forgotten[m] < dispatched[m]
    BY <1>3 DEF RxInv, FlightInv
  <1>5. m <= published /\ publishedQoS[m] = "EXACTLY_ONCE"
    BY <1>3, <1>4 DEF RxInv, OutgoingInv
  <1> HIDE DEF m
  <1>6. HopQoS[m] = "EXACTLY_ONCE"
    BY <1>3, <1>5, StatusCases
  <1>7. CASE forgotten' = forgotten
    BY <1>1, <1>2, <1>7 DEF Hop!vars, HopQoS, HopStatus
  <1>8. CASE forgotten' = [forgotten EXCEPT ![m] = @ + 1]
    <2>1. Hop!Forget(m)
      BY <1>1, <1>2, <1>4, <1>6, <1>8 DEF Hop!Forget, HopQoS, HopStatus
    <2> QED
      BY <1>3, <2>1
  <1> QED
    BY <1>1, <1>7, <1>8

LEMMA ReceivedHop ==
    ASSUME RxInv, packet_received
    PROVE  (\E m \in Message : Hop!Deliver(m)) \/ UNCHANGED Hop!vars
  <1> DEFINE p == Head(fromClient)
  <1>1. Takes(p) /\ (Ignored \/ DispatchedOnce(p) \/ Recorded(p) \/ ReleasedBy(p))
    BY ReceivedTakes, ReceivedCases DEF RxInv
  <1> HIDE DEF p
  <1>2. UNCHANGED HopQoS /\ UNCHANGED HopStatus
    BY <1>1, HopUnchanged DEF Takes
  <1>3. CASE Ignored \/ ReleasedBy(p)
    <2>1. UNCHANGED <<dispatched, forgotten>>
      BY <1>3 DEF Ignored, ReleasedBy
    <2> QED
      BY <1>2, <2>1 DEF Hop!vars, HopQoS, HopStatus
  <1>4. CASE DispatchedOnce(p) \/ Recorded(p)
    <2> DEFINE m == p.message
    <2>1. /\ p.type = "PUBLISH" /\ session /\ p.id \notin InFlight
          /\ dispatched' = [dispatched EXCEPT ![m] = @ + 1]
          /\ \/ UNCHANGED forgotten
             \/ p.qos = "EXACTLY_ONCE" /\ forgotten' = [forgotten EXCEPT ![m] = @ + 1]
      BY <1>4 DEF DispatchedOnce, Recorded
    <2>2. /\ m \in Message /\ m <= published /\ p.qos = publishedQoS[m]
          /\ p.id = 0 <=> p.qos = "AT_MOST_ONCE"
      BY <1>1, <2>1 DEF Takes
    <2>3. p.qos = "EXACTLY_ONCE" => dispatched[m] <= forgotten[m]
      BY <1>1, <2>1, NotTakenBefore
    <2>4. p.qos = "AT_MOST_ONCE" => dispatched[m] = 0
      BY <1>1, <2>1, <2>2 DEF Takes, RxInv, PublishInv
    <2> HIDE DEF m
    <2>5. HopQoS[m] = p.qos
      BY <2>2, StatusCases
    <2>6. HopStatus[m] \in {"untracked", "completed", "in_flight"}
      BY <2>2, StatusCases DEF HopStatus
    <2>7. Hop!Deliver(m)
      <3>1. Hop!Deliverable(m)
        BY <2>3, <2>4, <2>5, <2>6 DEF Hop!Deliverable, HopQoS, HopStatus
      <3> QED
        BY <1>2, <2>1, <2>5, <3>1 DEF Hop!Deliver, HopQoS, HopStatus
    <2> QED
      BY <2>2, <2>7
  <1> QED
    BY <1>1, <1>3, <1>4

LEMMA AnswerHop ==
    ASSUME RxInv, client_receives
    PROVE  (\E m \in Message : Hop!Complete(m)) \/ UNCHANGED Hop!vars
  <1> DEFINE a == Head(toClient)
  <1>1. ReceivesAnswer(a)
    BY AnswerCases DEF RxInv
  <1> HIDE DEF a
  <1>2. UNCHANGED <<published, publishedQoS, dispatched, forgotten>>
    BY <1>1 DEF ReceivesAnswer, historyVars
  <1>3. CASE UNCHANGED completed
    <2>1. UNCHANGED HopQoS /\ UNCHANGED HopStatus
      BY <1>2, <1>3, HopUnchanged
    <2> QED
      BY <1>2, <2>1 DEF Hop!vars, HopQoS, HopStatus
  <1>4. CASE /\ a.type # "PUBREC" /\ outgoing[a.id] # NoPublication
             /\ completed' = completed \cup {outgoing[a.id].message}
    <2>1. a.id \in ClientPacketId /\ 1 \in Positions(toClient) /\ FinalAckAt(1, a.id)
      BY <1>1, <1>4 DEF ReceivesAnswer, FinalAckAt
    <2>2. PICK m \in Message :
              /\ m = outgoing[a.id].message
              /\ m <= published /\ publishedQoS[m] # "AT_MOST_ONCE"
              /\ m \notin completed /\ dispatched[m] > 0
      BY <1>4, <2>1, Types DEF RxInv, OutgoingInv, AckInv
    <2>3. HopStatus[m] = "in_flight"
      BY <2>2, StatusCases DEF HopStatus
    <2>4. HopStatus' = [HopStatus EXCEPT ![m] = "completed"]
      <3>1. ~(m > published)
        BY <2>2, Types DEF RxInv
      <3>2. delivery_status(m)' = "completed"
        <4>1. m \in completed'
          BY <1>4, <2>2
        <4> QED
          BY <1>2, <2>2, <3>1, <4>1, Zenon DEF delivery_status
      <3>3. \A l \in Message : l # m => delivery_status(l)' = delivery_status(l)
        <4>1. \A l \in Message : l # m => (l \in completed' <=> l \in completed)
          BY <1>4, <2>2
        <4> QED
          BY <1>2, <4>1 DEF delivery_status
      <3> QED
        BY <2>2, <3>2, <3>3 DEF HopStatus
    <2>5. UNCHANGED HopQoS
      BY <1>2 DEF HopQoS
    <2>6. Hop!Complete(m)
      BY <1>2, <2>2, <2>3, <2>4, <2>5 DEF Hop!Complete, HopQoS, HopStatus
    <2> QED
      BY <2>2, <2>6
  <1> QED
    BY <1>1, <1>3, <1>4 DEF ReceivesAnswer

LEMMA HopNext ==
    ASSUME RxInv, RxInv', [Next]_vars
    PROVE  [Hop!Next]_(Hop!vars)
  <1>1. CASE packet_received
    BY <1>1, ReceivedHop DEF Hop!Next
  <1>2. CASE \E id \in PacketId : timer_expires(id) \/ pubrel_timeout_expired(id)
    BY <1>2, TimerCases, TimerHop DEF Hop!Next, RxInv
  <1>3. CASE \E qos \in QoS : client_publishes(qos)
    <2>1. PICK qos \in QoS : client_publishes(qos)
      BY <1>3
    <2>2. PICK m \in Message, id \in PacketId : PublishesNew(m, qos, id)
      BY <2>1, PublishCases DEF RxInv
    <2>3. Hop!Publish(m, qos) /\ qos \in Hop!Level
      BY <2>2, PublishesHop DEF QoS, Hop!Level
    <2> QED
      BY <2>3 DEF Hop!Next
  <1>4. CASE client_receives
    BY <1>4, AnswerHop DEF Hop!Next
  <1>5. CASE \/ connection_closed \/ connection_destroyed \/ session_destroyed
             \/ \E id \in ClientPacketId : client_resends(id)
             \/ client_reconnects \/ UNCHANGED vars
    <2>1. UNCHANGED <<published, publishedQoS, completed, dispatched, forgotten>>
      BY <1>5 DEF connection_closed, connection_destroyed, session_destroyed, client_resends,
                  client_reconnects, vars, clientVars, historyVars
    <2>2. UNCHANGED HopQoS /\ UNCHANGED HopStatus
      BY <2>1, HopUnchanged
    <2> QED
      BY <2>1, <2>2 DEF Hop!vars, HopQoS, HopStatus
  <1> QED
    BY <1>1, <1>2, <1>3, <1>4, <1>5 DEF Next

\* The way of a publication from a client to the subscribers of the server
\* (rx_in_flight_publications.cpp:49, "treat this publish as a client retry")
\* keeps the promises of the QoS levels, whatever retries cross it.
THEOREM RefinesDelivery == Spec => ImplementsDelivery
  <1>1. Spec => []RxInv
    BY Invariant
  <1>2. Init => Hop!Init
    BY HopInit
  <1>3. RxInv /\ RxInv' /\ [Next]_vars => [Hop!Next]_(Hop!vars)
    BY HopNext
  <1> QED
    BY <1>1, <1>2, <1>3, PTL DEF Spec, ImplementsDelivery, Hop!Spec
-----------------------------------------------------------------------------
(* As long as nothing is repeated                                           *)

\* One packet at a time is under way for each publication of the client.  The
\* server has the record that the packet to come to it, PUBREL, is about.
InTurn ==
    /\ \A i, j \in Positions(fromClient) :
          (fromClient[i].id = fromClient[j].id /\ fromClient[i].id # 0) => i = j
    /\ \A i, j \in Positions(toClient) : toClient[i].id = toClient[j].id => i = j
    /\ \A i \in Positions(fromClient), j \in Positions(toClient) :
          fromClient[i].id # toClient[j].id
    /\ \A i \in Positions(fromClient) : fromClient[i].id # 0 =>
          /\ outgoing[fromClient[i].id] # NoPublication
          /\ fromClient[i].type = "PUBREL" => publications[fromClient[i].id] # NoPublication
    /\ \A i \in Positions(toClient) :
          /\ outgoing[toClient[i].id] # NoPublication
          /\ toClient[i].type = "PUBREC" => publications[toClient[i].id] # NoPublication

AnsweredInTurn == sender = "open" /\ session => InTurn

\* The answer to a packet goes where the packet was.
LEMMA ReceivedInTurn ==
    ASSUME RxInv, InTurn, sender = "open", session, packet_received
    PROVE  InTurn'
  <1>1. PICK p : p = Head(fromClient)
    OBVIOUS
  <1>2. Takes(p) /\ (Ignored \/ DispatchedOnce(p) \/ Recorded(p) \/ ReleasedBy(p))
    BY <1>1, ReceivedTakes, ReceivedCases DEF RxInv
  <1>3. /\ 1 \in Positions(fromClient) /\ fromClient[1] = p /\ p.id \in PacketId
        /\ \A i \in Positions(fromClient') :
              /\ i \in Nat /\ i + 1 \in Positions(fromClient) /\ i + 1 # 1
              /\ fromClient'[i] = fromClient[i + 1]
        /\ UNCHANGED outgoing
    BY <1>2 DEF Takes
  <1>4. /\ \A i \in Positions(fromClient') : fromClient'[i].id = p.id => p.id = 0
        /\ \A j \in Positions(toClient) : toClient[j].id # p.id
        /\ p.id # 0 => outgoing[p.id] # NoPublication
    BY <1>3 DEF InTurn
  <1>5. \A i \in Positions(toClient) : toClient[i].id \in PacketId /\ toClient[i].id # 0
    BY AckPacketFields DEF RxInv, TypeInv, TypeOK, IdentifierInv, Positions
  <1>6. \A id \in PacketId : id # p.id => publications'[id] = publications[id]
    <2>1. publications \in [PacketId -> RxPublication \cup {NoPublication}]
      BY DEF RxInv, TypeInv, TypeOK
    <2> QED
      BY <1>2, <2>1 DEF Ignored, DispatchedOnce, Recorded, ReleasedBy
  <1>7. \A i \in Positions(fromClient') : fromClient'[i].id \in PacketId
    <2>1. \A i \in Positions(fromClient) : fromClient[i].id \in PacketId
      BY ClientPacketFields DEF RxInv, TypeInv, TypeOK, Positions
    <2> QED
      BY <1>3, <2>1
  <1>8. \E type \in {"PUBACK", "PUBREC", "PUBCOMP"} :
           \/ UNCHANGED toClient
           \/ /\ toClient' = Append(toClient, Ack(type, p.id)) /\ p.id # 0
              /\ type = "PUBREC" => publications'[p.id] # NoPublication
    <2>1. CASE Ignored
      BY <2>1 DEF Ignored
    <2>2. CASE DispatchedOnce(p)
      BY <1>2, <2>2 DEF DispatchedOnce, Takes
    <2>3. CASE Recorded(p)
      <3>1. publications'[p.id] # NoPublication
        <4>1. PICK r : r = [retry_count |-> 0, armed |-> TRUE, queued |-> FALSE, message |-> p.message]
          OBVIOUS
        <4>2. r \in RxPublication
          BY <1>2, <2>3, <4>1, ConstantsAssumption DEF Takes, Recorded, RxPublication
        <4>3. publications' = [publications EXCEPT ![p.id] = r]
          BY <2>3, <4>1 DEF Recorded
        <4> QED
          BY <1>3, <4>2, <4>3, ConstantsAssumption DEF RxInv, TypeInv, TypeOK
      <3>2. \/ UNCHANGED toClient
            \/ toClient' = Append(toClient, Ack("PUBREC", p.id)) /\ p.id # 0
        BY <1>2, <2>3 DEF Recorded, Takes
      <3> QED
        BY <3>1, <3>2
    <2>4. CASE ReleasedBy(p)
      BY <1>2, <2>4 DEF ReleasedBy, Takes
    <2> QED
      BY <1>2, <2>1, <2>2, <2>3, <2>4
  <1>9. PICK type \in {"PUBACK", "PUBREC", "PUBCOMP"} :
           \/ UNCHANGED toClient
           \/ /\ toClient' = Append(toClient, Ack(type, p.id)) /\ p.id # 0
              /\ type = "PUBREC" => publications'[p.id] # NoPublication
    BY <1>8
  <1>10. \A j \in Positions(toClient') :
            \/ j \in Positions(toClient) /\ toClient'[j] = toClient[j]
            \/ /\ j = Len(toClient) + 1 /\ p.id # 0
               /\ toClient'[j].id = p.id /\ toClient'[j].type = type
               /\ type = "PUBREC" => publications'[p.id] # NoPublication
    <2>1. CASE UNCHANGED toClient
      BY <2>1
    <2>2. CASE ~UNCHANGED toClient
      BY <1>3, <1>9, <2>2, Answers DEF RxInv
    <2> QED
      BY <2>1, <2>2
  <1>11. \A i, j \in Positions(fromClient') :
            (fromClient'[i].id = fromClient'[j].id /\ fromClient'[i].id # 0) => i = j
    BY <1>3 DEF InTurn
  <1>12. \A i, j \in Positions(toClient') : toClient'[i].id = toClient'[j].id => i = j
    BY <1>4, <1>10 DEF InTurn
  <1>13. \A i \in Positions(fromClient'), j \in Positions(toClient') :
            fromClient'[i].id # toClient'[j].id
    BY <1>3, <1>4, <1>10 DEF InTurn
  <1>14. \A i \in Positions(fromClient') : fromClient'[i].id # 0 =>
            /\ outgoing'[fromClient'[i].id] # NoPublication
            /\ fromClient'[i].type = "PUBREL" => publications'[fromClient'[i].id] # NoPublication
    BY <1>3, <1>4, <1>6, <1>7 DEF InTurn
  <1>15. \A i \in Positions(toClient') :
            /\ outgoing'[toClient'[i].id] # NoPublication
            /\ toClient'[i].type = "PUBREC" => publications'[toClient'[i].id] # NoPublication
    BY <1>3, <1>4, <1>5, <1>6, <1>10 DEF InTurn
  <1> QED
    BY <1>11, <1>12, <1>13, <1>14, <1>15 DEF InTurn, Positions

\* An answer that is awaited does not make the session stop the connection.
LEMMA ReceivedStaysOpen ==
    ASSUME RxInv, AnsweredInTurn, sender = "open", packet_received
    PROVE  sender' = "open"
  <1>1. PICK p : p = Head(fromClient)
    OBVIOUS
  <1>2. CASE ~session \/ p.type = "PUBLISH"
    BY <1>1, <1>2 DEF packet_received, packet_handled
  <1>3. CASE session /\ p.type = "PUBREL"
    <2>1. Takes(p)
      BY <1>1, ReceivedTakes
    <2>2. p.id \in InFlight
      BY <1>3, <2>1 DEF Takes, AnsweredInTurn, InTurn, InFlight
    <2> QED
      BY <1>1, <1>3, <2>2 DEF packet_received, client_sent_pubrel, packet_handled
  <1> QED
    BY <1>1, <1>2, <1>3 DEF packet_received

\* A new message goes under an identifier nothing is under way for.
LEMMA PublishInTurn ==
    ASSUME RxInv, InTurn, NEW qos \in QoS, client_publishes(qos)
    PROVE  InTurn'
  <1>1. PICK m \in Message, id \in PacketId : PublishesNew(m, qos, id)
    BY PublishCases DEF RxInv
  <1>2. PICK p : p = Publish(id, qos, m)
    OBVIOUS
  <1>3. PICK n : n = Len(fromClient) + 1
    OBVIOUS
  <1>4. /\ SentByClient(p) /\ p.id = id /\ p.type = "PUBLISH"
        /\ UNCHANGED <<publications, toClient>>
        /\ \/ id = 0 /\ UNCHANGED outgoing
           \/ /\ id # 0 /\ outgoing[id] = NoPublication
              /\ outgoing' = [outgoing EXCEPT ![id] =
                     [phase |-> "publish", qos |-> qos, message |-> m]]
    BY <1>1, <1>2, PacketTypes DEF PublishesNew, serverVars
  <1>5. /\ n \in Nat /\ n \notin Positions(fromClient)
        /\ \A i \in Positions(fromClient') :
              \/ i \in Positions(fromClient) /\ fromClient'[i] = fromClient[i]
              \/ i = n /\ fromClient'[i] = p
    BY <1>3, <1>4, SentAt DEF RxInv
  <1>6. /\ \A k \in ClientPacketId : outgoing[k] # NoPublication => outgoing'[k] = outgoing[k]
        /\ id # 0 => outgoing'[id] # NoPublication
    <2>1. outgoing \in [ClientPacketId -> ClientPublication \cup {NoPublication}]
      BY DEF RxInv, TypeInv, TypeOK
    <2>2. CASE id = 0
      BY <1>4, <2>2
    <2>3. CASE id # 0
      <3>1. PICK r : r = [phase |-> "publish", qos |-> qos, message |-> m]
        OBVIOUS
      <3>2. r \in ClientPublication /\ r # NoPublication
        <4>1. qos # "AT_MOST_ONCE"
          BY <1>1, <2>3 DEF PublishesNew
        <4>2. r \in ClientPublication
          BY <3>1, <4>1 DEF ClientPublication
        <4> QED
          BY <4>2, ConstantsAssumption
      <3>3. id \in ClientPacketId /\ outgoing' = [outgoing EXCEPT ![id] = r]
        BY <1>1, <1>4, <2>3, <3>1, Identifiers
      <3> QED
        BY <1>4, <2>1, <2>3, <3>2, <3>3
    <2> QED
      BY <2>2, <2>3
  <1>7. /\ \A i \in Positions(fromClient) :
              fromClient[i].id \in PacketId /\ (fromClient[i].id # 0 => fromClient[i].id \in ClientPacketId)
        /\ \A i \in Positions(toClient) : toClient[i].id \in ClientPacketId /\ toClient[i].id # 0
    <2>1. fromClient \in Seq(ClientPacket) /\ toClient \in Seq(AckPacket)
      BY DEF RxInv, TypeInv, TypeOK
    <2>2. \A i \in Positions(fromClient) : fromClient[i].id \in PacketId
      BY <2>1, ClientPacketFields DEF Positions
    <2>3. \A i \in Positions(toClient) : toClient[i].id \in PacketId /\ toClient[i].id # 0
      BY <2>1, AckPacketFields DEF RxInv, TypeInv, IdentifierInv, Positions
    <2> QED
      BY <2>2, <2>3, Identifiers
  <1>8. /\ \A i \in Positions(fromClient) : fromClient[i].id = id => id = 0
        /\ \A i \in Positions(toClient) : toClient[i].id # id
    BY <1>4, <1>7 DEF InTurn
  <1>9. \A i, j \in Positions(fromClient') :
           (fromClient'[i].id = fromClient'[j].id /\ fromClient'[i].id # 0) => i = j
    BY <1>4, <1>5, <1>8 DEF InTurn
  <1>10. \A i \in Positions(fromClient'), j \in Positions(toClient') :
            fromClient'[i].id # toClient'[j].id
    BY <1>4, <1>5, <1>8 DEF InTurn
  <1>11. \A i \in Positions(fromClient') : fromClient'[i].id # 0 =>
            /\ outgoing'[fromClient'[i].id] # NoPublication
            /\ fromClient'[i].type = "PUBREL" => publications'[fromClient'[i].id] # NoPublication
    BY <1>4, <1>5, <1>6, <1>7 DEF InTurn
  <1>12. \A i \in Positions(toClient') :
            /\ outgoing'[toClient'[i].id] # NoPublication
            /\ toClient'[i].type = "PUBREC" => publications'[toClient'[i].id] # NoPublication
    BY <1>4, <1>6, <1>7 DEF InTurn
  <1>13. \A i, j \in Positions(toClient') : toClient'[i].id = toClient'[j].id => i = j
    BY <1>4 DEF InTurn
  <1> QED
    BY <1>9, <1>10, <1>11, <1>12, <1>13 DEF InTurn, Positions

\* PUBREL goes where PUBREC was; nothing goes where a last answer was.
LEMMA AnswerInTurn ==
    ASSUME RxInv, InTurn, client_receives
    PROVE  InTurn'
  <1>1. PICK a : a = Head(toClient) /\ ReceivesAnswer(a)
    BY AnswerCases DEF RxInv
  <1>2. /\ a.id \in ClientPacketId /\ a.id \in PacketId /\ a.id # 0
        /\ 1 \in Positions(toClient) /\ toClient[1] = a
        /\ \A i \in Positions(toClient') :
              /\ i \in Nat /\ i + 1 \in Positions(toClient) /\ i + 1 # 1
              /\ toClient'[i] = toClient[i + 1]
        /\ UNCHANGED publications
    BY <1>1, Identifiers DEF ReceivesAnswer, serverVars, Positions
  <1>3. /\ outgoing[a.id] # NoPublication
        /\ a.type = "PUBREC" => publications[a.id] # NoPublication
        /\ \A i \in Positions(fromClient) : fromClient[i].id # a.id
        /\ \A i \in Positions(toClient') : toClient'[i].id # a.id
    BY <1>2 DEF InTurn
  <1>4. /\ \A i \in Positions(fromClient) :
              fromClient[i].id \in PacketId /\ (fromClient[i].id # 0 => fromClient[i].id \in ClientPacketId)
        /\ \A i \in Positions(toClient') : toClient'[i].id \in ClientPacketId /\ toClient'[i].id # 0
    <2>1. fromClient \in Seq(ClientPacket) /\ toClient \in Seq(AckPacket)
      BY DEF RxInv, TypeInv, TypeOK
    <2>2. \A i \in Positions(fromClient) : fromClient[i].id \in PacketId
      BY <2>1, ClientPacketFields DEF Positions
    <2>3. \A i \in Positions(toClient) : toClient[i].id \in PacketId /\ toClient[i].id # 0
      BY <2>1, AckPacketFields DEF RxInv, TypeInv, IdentifierInv, Positions
    <2> QED
      BY <1>2, <2>2, <2>3, Identifiers
  <1>5. outgoing \in [ClientPacketId -> ClientPublication \cup {NoPublication}]
    BY DEF RxInv, TypeInv, TypeOK
  <1>6. /\ \A i, j \in Positions(toClient') : toClient'[i].id = toClient'[j].id => i = j
        /\ \A i \in Positions(toClient') :
              toClient'[i].type = "PUBREC" => publications'[toClient'[i].id] # NoPublication
        /\ \A i \in Positions(toClient') : outgoing[toClient'[i].id] # NoPublication
        /\ \A i \in Positions(fromClient), j \in Positions(toClient') :
              fromClient[i].id # toClient'[j].id
    BY <1>2 DEF InTurn
  <1>7. \A k \in ClientPacketId : k # a.id => outgoing'[k] = outgoing[k] \/ outgoing'[k] # NoPublication
    BY <1>1, <1>5 DEF ReceivesAnswer
  <1>8. CASE UNCHANGED fromClient
    <2>1. \A i \in Positions(fromClient') : fromClient'[i].id # 0 =>
             /\ outgoing'[fromClient'[i].id] # NoPublication
             /\ fromClient'[i].type = "PUBREL" => publications'[fromClient'[i].id] # NoPublication
      BY <1>2, <1>3, <1>4, <1>7, <1>8 DEF InTurn
    <2>2. \A i \in Positions(toClient') : outgoing'[toClient'[i].id] # NoPublication
      BY <1>3, <1>4, <1>6, <1>7
    <2>3. /\ \A i, j \in Positions(fromClient') :
                (fromClient'[i].id = fromClient'[j].id /\ fromClient'[i].id # 0) => i = j
          /\ \A i \in Positions(fromClient'), j \in Positions(toClient') :
                fromClient'[i].id # toClient'[j].id
      BY <1>6, <1>8 DEF InTurn
    <2> QED
      BY <1>6, <2>1, <2>2, <2>3 DEF InTurn, Positions
  <1>9. CASE a.type = "PUBREC" /\ SentByClient(Pubrel(a.id))
             /\ outgoing' = [outgoing EXCEPT ![a.id].phase = "release"]
    <2>1. PICK p : p = Pubrel(a.id)
      OBVIOUS
    <2>2. PICK n : n = Len(fromClient) + 1
      OBVIOUS
    <2>3. p.id = a.id /\ p.type = "PUBREL" /\ SentByClient(p)
      BY <1>2, <1>9, <2>1, PacketTypes
    <2>4. /\ n \in Nat /\ n \notin Positions(fromClient)
          /\ \A i \in Positions(fromClient') :
                \/ i \in Positions(fromClient) /\ fromClient'[i] = fromClient[i]
                \/ i = n /\ fromClient'[i] = p
      BY <2>2, <2>3, SentAt DEF RxInv
    <2>5. outgoing'[a.id] # NoPublication
      <3>1. PICK r : r = outgoing[a.id]
        OBVIOUS
      <3>2. r \in ClientPublication
        BY <1>2, <1>3, <1>5, <3>1
      <3>3. PICK s : s = [r EXCEPT !.phase = "release"]
        OBVIOUS
      <3>4. s \in ClientPublication
        BY <3>2, <3>3 DEF ClientPublication
      <3>5. outgoing'[a.id] = s
        BY <1>2, <1>5, <1>9, <3>1, <3>3
      <3> QED
        BY <3>4, <3>5, ConstantsAssumption
    <2>6. \A i \in Positions(fromClient') : fromClient'[i].id # 0 =>
             /\ outgoing'[fromClient'[i].id] # NoPublication
             /\ fromClient'[i].type = "PUBREL" => publications'[fromClient'[i].id] # NoPublication
      BY <1>2, <1>3, <1>4, <1>7, <1>9, <2>3, <2>4, <2>5 DEF InTurn
    <2>7. \A i \in Positions(toClient') : outgoing'[toClient'[i].id] # NoPublication
      BY <1>3, <1>4, <1>6, <1>7
    <2>8. \A i, j \in Positions(fromClient') :
             (fromClient'[i].id = fromClient'[j].id /\ fromClient'[i].id # 0) => i = j
      BY <1>3, <2>3, <2>4 DEF InTurn
    <2>9. \A i \in Positions(fromClient'), j \in Positions(toClient') :
             fromClient'[i].id # toClient'[j].id
      BY <1>3, <1>6, <2>3, <2>4
    <2> QED
      BY <1>6, <2>6, <2>7, <2>8, <2>9 DEF InTurn, Positions
  <1> QED
    BY <1>1, <1>3, <1>8, <1>9 DEF ReceivesAnswer

\* All steps but those that repeat something, or give it up.
LEMMA NextInTurn ==
    ASSUME RxInv, AnsweredInTurn,
           \/ packet_received
           \/ \E id \in PacketId : timer_expires(id)
           \/ connection_closed \/ connection_destroyed \/ session_destroyed
           \/ \E qos \in QoS : client_publishes(qos)
           \/ client_receives
    PROVE  AnsweredInTurn'
  <1> SUFFICES ASSUME sender' = "open", session'
               PROVE  InTurn'
    BY DEF AnsweredInTurn
  <1>1. CASE packet_received
    <2>1. sender = "open" /\ session
      <3>1. sender' \in {sender, "closed"}
        BY <1>1, ReceivedCases DEF RxInv
      <3> QED
        BY <1>1, <3>1 DEF packet_received
    <2> QED
      BY <1>1, <2>1, ReceivedInTurn DEF AnsweredInTurn
  <1>2. CASE \E id \in PacketId : timer_expires(id)
    <2>1. PICK id \in PacketId : timer_expires(id)
      BY <1>2
    <2>2. UNCHANGED <<sender, session, toClient, fromClient, outgoing>>
      BY <2>1 DEF timer_expires, channelVars, clientVars
    <2>3. \A k \in PacketId : publications[k] # NoPublication => publications'[k] # NoPublication
      <3>1. InFlight' = InFlight
        BY <2>1, InFlightType, ConstantsAssumption DEF timer_expires, InFlight, RxInv, TypeInv,
           TypeOK, RxPublication
      <3> QED
        BY <3>1 DEF InFlight
    <2>4. InTurn
      BY <2>2 DEF AnsweredInTurn
    <2>5. /\ \A i \in Positions(fromClient) : fromClient[i].id \in PacketId
          /\ \A i \in Positions(toClient) : toClient[i].id \in PacketId
      BY ClientPacketFields, AckPacketFields DEF RxInv, TypeInv, TypeOK, Positions
    <2> QED
      BY <2>2, <2>3, <2>4, <2>5 DEF InTurn, Positions
  <1>3. CASE connection_closed \/ connection_destroyed \/ session_destroyed
    BY <1>3 DEF connection_closed, connection_destroyed, session_destroyed
  <1>4. CASE \E qos \in QoS : client_publishes(qos)
    BY <1>4, PublishInTurn DEF AnsweredInTurn, client_publishes, serverVars
  <1>5. CASE client_receives
    BY <1>5, AnswerInTurn DEF AnsweredInTurn, client_receives, serverVars
  <1> QED
    BY <1>1, <1>2, <1>3, <1>4, <1>5

LEMMA InitInTurn == Init => AnsweredInTurn
  BY DEF Init, AnsweredInTurn, InTurn, Positions

=============================================================================
