------------------------ MODULE TxPublicationsProofs ------------------------
(***************************************************************************)
(* Theorems about the outgoing publications of a session, for every number *)
(* of packet identifiers, retries and messages.                            *)
(***************************************************************************)
EXTENDS TxPublications, TLAPS

StartingPublication ==
    [state : WaitingState \cup {"initial_qos1", "initial_qos2"},
     retry_count : 0 .. MaxRetryCount, publish_dup : BOOLEAN,
     message : Message, timer : Timer]

\* start_ack_timeout leaves a publication waiting, with its timer armed and
\* everything but its state as it was.
LEMMA StartAckTimeout ==
    ASSUME NEW p \in StartingPublication
    PROVE  /\ start_ack_timeout(p) \in Publication
           /\ start_ack_timeout(p).timer.armed
           /\ start_ack_timeout(p).message = p.message
           /\ start_ack_timeout(p).state = AfterStartAckTimeout(p.state)
  <1>1. AfterStartAckTimeout(p.state) \in WaitingState
    BY DEF AfterStartAckTimeout, WaitingState, StartingPublication
  <1>2. armed(p.timer) \in Timer /\ armed(p.timer).armed
    BY DEF armed, Timer, StartingPublication
  <1> QED
    BY <1>1, <1>2 DEF start_ack_timeout, StartingPublication, Publication

\* retry_count_ stays within its 16 bits.
LEMMA NextRetryCountType ==
    ASSUME NEW p \in Publication
    PROVE  NextRetryCount(p) \in 0 .. MaxRetryCount
  BY ConstantsAssumption DEF NextRetryCount, Publication

\* A packet identifier in flight stands for a publication.
LEMMA InFlightType ==
    ASSUME TypeOK, NEW id \in InFlight
    PROVE  id \in PacketId /\ publications[id] \in Publication
  BY DEF TypeOK, InFlight

\* Sending keeps the channel a sequence of the server's packets.
LEMMA SendType ==
    ASSUME toClient \in Seq(ServerPacket), NEW pkt \in ServerPacket, send(pkt)
    PROVE  toClient' \in Seq(ServerPacket)
  BY DEF send

\* What the server sends are packets of the server.
LEMMA PacketType ==
    /\ \A id \in PacketId, qos \in QoS \ {"RESERVED"}, dup \in BOOLEAN, m \in Message :
          Publish(id, qos, dup, m) \in ServerPacket
    /\ \A id \in PacketId : Pubrel(id) \in ServerPacket
    /\ \A id \in PacketId, type \in {"PUBACK", "PUBREC", "PUBCOMP"} :
          Ack(type, id) \in AckPacket
  BY DEF Publish, Pubrel, Ack, ServerPacket, AckPacket

-----------------------------------------------------------------------------

LEMMA InitTypeOK == Init => TypeOK
  BY ConstantsAssumption
  DEF Init, TypeOK, PacketId, Outcome, QoS, Message, InFlight

LEMMA PublishTypeOK ==
    ASSUME TypeOK, NEW qos \in QoS, NEW dup \in IncomingDup, publish(qos, dup)
    PROVE  TypeOK'
  <1> DEFINE m == published + 1
             id == next_packet_id
  <1>1. m \in Message /\ published' \in 0 .. MaxPublications /\ dup \in BOOLEAN
    BY ConstantsAssumption DEF publish, TypeOK, Message
  <1>2. id \in PacketId /\ 0 \in PacketId
    BY ConstantsAssumption DEF next_packet_id, PacketId, TypeOK
  <1>3. grantedQoS' \in [Message -> QoS]
    BY <1>1 DEF publish, TypeOK
  <1>4. UNCHANGED <<sender, fromClient, awaitingRel, delivered, pubrelSent>>
    BY DEF publish
  <1> DEFINE Rest == /\ publications' \in [PacketId -> Publication \cup {NoPublication}]
                     /\ next_packet_identifier' \in PacketId
                     /\ failed_assert' \in {"none", "inserted", "ack_is_puback", "ack_is_pubcomp"}
                     /\ toClient' \in Seq(ServerPacket)
                     /\ outcome' \in [Message -> Outcome]
  <1>5. CASE UNCHANGED <<publications, next_packet_identifier, failed_assert,
                         toClient, outcome>>
    BY <1>1, <1>3, <1>4, <1>5 DEF TypeOK
  <1>6. CASE publish_using_qos0(m, dup)
    <2>1. Publish(0, "AT_MOST_ONCE", dup, m) \in ServerPacket
      BY <1>1, <1>2, PacketType DEF QoS
    <2>2. toClient' \in Seq(ServerPacket)
      BY <1>6, <2>1, SendType DEF publish_using_qos0, TypeOK
    <2> QED
      BY <1>1, <1>3, <1>4, <1>6, <2>2 DEF publish_using_qos0, TypeOK
  <1>7. ASSUME NEW initial \in {"initial_qos1", "initial_qos2"},
               qos \in {"AT_LEAST_ONCE", "EXACTLY_ONCE"},
               publish_tracked(m, qos, dup, initial)
        PROVE  Rest
    <2> DEFINE p == [state |-> initial, retry_count |-> 0, publish_dup |-> dup,
                     message |-> m, timer |-> NewTimer]
    <2>1. start_ack_timeout(p) \in Publication
      <3>1. p \in StartingPublication
        BY <1>1, ConstantsAssumption DEF StartingPublication, NewTimer, Timer
      <3> QED
        BY <3>1, StartAckTimeout
    <2>2. CASE publications[id] = NoPublication
      <3>1. Publish(id, qos, dup, m) \in ServerPacket
        BY <1>1, <1>2, <1>7, PacketType DEF QoS
      <3>2. toClient' \in Seq(ServerPacket)
        BY <1>7, <2>2, <3>1, SendType DEF publish_tracked, TypeOK
      <3>3. publications' \in [PacketId -> Publication \cup {NoPublication}]
        BY <1>7, <2>1, <2>2 DEF publish_tracked, store, TypeOK
      <3> QED
        BY <1>1, <1>2, <1>7, <2>2, <3>2, <3>3 DEF publish_tracked, TypeOK, Outcome
    <2>3. CASE publications[id] # NoPublication
      BY <1>2, <1>7, <2>3 DEF publish_tracked, abort, TypeOK
    <2> QED
      BY <2>2, <2>3
  <1>8. CASE qos = "AT_LEAST_ONCE" /\ publish_tracked(m, qos, dup, "initial_qos1")
    BY <1>1, <1>3, <1>4, <1>7, <1>8 DEF TypeOK
  <1>9. CASE qos = "EXACTLY_ONCE" /\ publish_tracked(m, qos, dup, "initial_qos2")
    BY <1>1, <1>3, <1>4, <1>7, <1>9 DEF TypeOK
  <1> QED
    BY <1>5, <1>6, <1>8, <1>9 DEF publish

\* What one action does to the publication it is about: it is replaced by a
\* publication of the same message, or released.
LEMMA SendPubrelType ==
    ASSUME TypeOK, NEW id \in PacketId, NEW p \in Publication, send_pubrel(id, p)
    PROVE  /\ publications' \in [PacketId -> Publication \cup {NoPublication}]
           /\ toClient' \in Seq(ServerPacket)
           /\ pubrelSent' \subseteq Message
  <1>1. p \in StartingPublication
    BY DEF Publication, StartingPublication
  <1>2. start_ack_timeout(p) \in Publication
    BY <1>1, StartAckTimeout
  <1>3. toClient' \in Seq(ServerPacket)
    BY PacketType, SendType DEF send_pubrel, TypeOK
  <1> QED
    BY <1>2, <1>3 DEF send_pubrel, store, TypeOK, Publication

LEMMA ReleaseType ==
    ASSUME TypeOK, NEW id \in InFlight, NEW result \in Outcome, release(id, result)
    PROVE  /\ publications' \in [PacketId -> Publication \cup {NoPublication}]
           /\ outcome' \in [Message -> Outcome]
  BY InFlightType DEF release, TypeOK

LEMMA ResponseTypeOK ==
    ASSUME TypeOK, response_received
    PROVE  TypeOK'
  <1> DEFINE id == Head(fromClient).id
             type == Head(fromClient).type
  <1>1. id \in PacketId /\ type \in {"PUBACK", "PUBREC", "PUBCOMP"}
        /\ fromClient' \in Seq(AckPacket)
    <2>1. Head(fromClient) \in AckPacket /\ Tail(fromClient) \in Seq(AckPacket)
      BY DEF response_received, TypeOK
    <2> QED
      BY <2>1 DEF response_received, AckPacket
  <1>2. UNCHANGED <<next_packet_identifier, awaitingRel, published, grantedQoS, delivered>>
    BY DEF response_received
  <1> DEFINE Rest == /\ publications' \in [PacketId -> Publication \cup {NoPublication}]
                     /\ sender' \in {"open", "closed", "gone"}
                     /\ failed_assert' \in {"none", "inserted", "ack_is_puback", "ack_is_pubcomp"}
                     /\ toClient' \in Seq(ServerPacket)
                     /\ pubrelSent' \subseteq Message
                     /\ outcome' \in [Message -> Outcome]
  <1>3. CASE UNCHANGED <<publications, sender, failed_assert, toClient, pubrelSent, outcome>>
    BY <1>1, <1>2, <1>3 DEF TypeOK
  <1>4. CASE stop /\ UNCHANGED <<publications, failed_assert, toClient, pubrelSent, outcome>>
    BY <1>1, <1>2, <1>4 DEF TypeOK, stop
  <1>5. CASE id \in InFlight /\ qos1_response_received(id, type)
    <2>1. CASE /\ release(id, "completed")
               /\ UNCHANGED <<sender, failed_assert, toClient, pubrelSent>>
      BY <1>1, <1>2, <1>5, <2>1, ReleaseType DEF TypeOK, Outcome
    <2>2. CASE /\ abort("ack_is_puback")
               /\ UNCHANGED <<publications, sender, toClient, pubrelSent, outcome>>
      BY <1>1, <1>2, <2>2 DEF TypeOK, abort
    <2> QED
      BY <1>5, <2>1, <2>2 DEF qos1_response_received
  <1>6. CASE id \in InFlight /\ qos2_response_received(id, type)
    <2> DEFINE p == [publications[id] EXCEPT !.timer = cancelled(@)]
    <2>1. p \in Publication
      BY <1>6, InFlightType DEF Publication, cancelled, Timer
    <2>2. CASE stop /\ store(id, p) /\ UNCHANGED <<failed_assert, toClient, pubrelSent, outcome>>
      <3>1. publications' \in [PacketId -> Publication \cup {NoPublication}]
        BY <2>1, <2>2 DEF store, TypeOK
      <3> QED
        BY <1>1, <1>2, <2>2, <3>1 DEF TypeOK, stop
    <2>3. CASE send_pubrel(id, p)
      <3>1. Rest
        BY <1>1, <2>1, <2>3, SendPubrelType DEF TypeOK, send_pubrel
      <3> QED
        BY <1>1, <1>2, <3>1 DEF TypeOK
    <2>4. CASE /\ release(id, "completed")
               /\ UNCHANGED <<sender, failed_assert, toClient, pubrelSent>>
      BY <1>1, <1>2, <1>6, <2>4, ReleaseType DEF TypeOK, Outcome
    <2>5. CASE /\ abort("ack_is_pubcomp")
               /\ UNCHANGED <<publications, sender, toClient, pubrelSent, outcome>>
      BY <1>1, <1>2, <2>5 DEF TypeOK, abort
    <2> QED
      BY <1>6, <2>2, <2>3, <2>4, <2>5 DEF qos2_response_received
  <1> QED
    BY <1>3, <1>4, <1>5, <1>6 DEF response_received

LEMMA TimerExpiresTypeOK ==
    ASSUME TypeOK, NEW id \in PacketId, timer_expires(id)
    PROVE  TypeOK'
  <1>1. [publications[id] EXCEPT !.timer = [armed |-> FALSE, queued |-> TRUE]] \in Publication
    BY InFlightType DEF timer_expires, Publication, Timer
  <1> QED
    BY <1>1 DEF timer_expires, store, TypeOK, channelVars, historyVars

LEMMA AckTimeoutTypeOK ==
    ASSUME TypeOK, NEW id \in PacketId, ack_timeout_expired(id)
    PROVE  TypeOK'
  <1> DEFINE p == [publications[id] EXCEPT !.timer.queued = FALSE,
                                           !.retry_count = NextRetryCount(publications[id])]
  <1>0. id \in InFlight /\ publications[id] \in Publication
    BY InFlightType DEF ack_timeout_expired
  <1>1. p \in Publication
    BY <1>0, NextRetryCountType DEF Publication, Timer
  <1>2. p \in StartingPublication /\ [p EXCEPT !.publish_dup = TRUE] \in StartingPublication
    BY <1>1 DEF Publication, StartingPublication
  <1>3. UNCHANGED <<next_packet_identifier, fromClient, awaitingRel, published,
                    grantedQoS, delivered>>
    BY DEF ack_timeout_expired
  <1>4. CASE /\ send(Publish(id, "AT_LEAST_ONCE", p.publish_dup, p.message))
             /\ store(id, start_ack_timeout(p))
             /\ UNCHANGED <<sender, failed_assert, pubrelSent, outcome>>
    <2>1. Publish(id, "AT_LEAST_ONCE", p.publish_dup, p.message) \in ServerPacket
      BY <1>1, PacketType DEF Publication, QoS
    <2>2. toClient' \in Seq(ServerPacket)
      BY <1>4, <2>1, SendType DEF TypeOK
    <2> QED
      BY <1>2, <1>3, <1>4, <2>2, StartAckTimeout DEF store, TypeOK
  <1>5. CASE /\ send(Publish(id, "EXACTLY_ONCE", TRUE, p.message))
             /\ store(id, start_ack_timeout([p EXCEPT !.publish_dup = TRUE]))
             /\ UNCHANGED <<sender, failed_assert, pubrelSent, outcome>>
    <2>1. Publish(id, "EXACTLY_ONCE", TRUE, p.message) \in ServerPacket
      BY <1>1, PacketType DEF Publication, QoS
    <2>2. toClient' \in Seq(ServerPacket)
      BY <1>5, <2>1, SendType DEF TypeOK
    <2>3. start_ack_timeout([p EXCEPT !.publish_dup = TRUE]) \in Publication
      BY <1>2, StartAckTimeout
    <2> QED
      BY <1>3, <1>5, <2>2, <2>3 DEF store, TypeOK
  <1>6. CASE send_pubrel(id, p)
    <2>1. /\ publications' \in [PacketId -> Publication \cup {NoPublication}]
          /\ toClient' \in Seq(ServerPacket)
          /\ pubrelSent' \subseteq Message
      BY <1>1, <1>6, SendPubrelType
    <2> QED
      BY <1>3, <1>6, <2>1 DEF send_pubrel, TypeOK
  <1>7. CASE /\ release(id, "terminally_failed")
             /\ UNCHANGED <<sender, failed_assert, toClient, pubrelSent>>
    BY <1>0, <1>3, <1>7, ReleaseType DEF TypeOK, Outcome
  <1> QED
    BY <1>4, <1>5, <1>6, <1>7 DEF ack_timeout_expired

LEMMA ConnectionTypeOK ==
    ASSUME TypeOK, connection_closed \/ connection_destroyed \/ session_destroyed
    PROVE  TypeOK'
  <1>1. CASE connection_closed
    BY <1>1 DEF connection_closed, TypeOK, channelVars, historyVars
  <1>2. CASE connection_destroyed
    BY <1>2 DEF connection_destroyed, TypeOK, channelVars, historyVars
  <1>3. CASE session_destroyed
    BY <1>3 DEF session_destroyed, TypeOK, channelVars, Outcome
  <1> QED
    BY <1>1, <1>2, <1>3

LEMMA ClientTypeOK ==
    ASSUME TypeOK, client_receives
    PROVE  TypeOK'
  <1> DEFINE pkt == Head(toClient)
  <1>1. pkt \in ServerPacket /\ toClient' \in Seq(ServerPacket)
    BY DEF client_receives, TypeOK
  <1>2. /\ pkt.id \in PacketId
        /\ pkt.type = "PUBLISH" => pkt.message \in Message
    BY <1>1 DEF ServerPacket
  <1>3. /\ Append(fromClient, Ack("PUBCOMP", pkt.id)) \in Seq(AckPacket)
        /\ Append(fromClient, Ack("PUBREC", pkt.id)) \in Seq(AckPacket)
        /\ Append(fromClient, Ack("PUBACK", pkt.id)) \in Seq(AckPacket)
    BY <1>2, PacketType DEF TypeOK
  <1>4. fromClient' \in Seq(AckPacket)
    BY <1>3 DEF client_receives, TypeOK
  <1>5. awaitingRel' \subseteq PacketId
    BY <1>2 DEF client_receives, TypeOK
  <1>6. delivered' \in [Message -> Nat]
    BY <1>2 DEF client_receives, TypeOK
  <1> QED
    BY <1>1, <1>4, <1>5, <1>6 DEF client_receives, serverVars, TypeOK

\* All variables keep their types, packet identifiers and retry counts across
\* the wrap of their 16 bits included.
THEOREM TypeCorrect == Spec => []TypeOK
  <1>1. TypeOK /\ [Next]_vars => TypeOK'
    <2> SUFFICES ASSUME TypeOK, [Next]_vars PROVE TypeOK'
      OBVIOUS
    <2>1. ASSUME NEW qos \in QoS, NEW dup \in IncomingDup, publish(qos, dup) PROVE TypeOK'
      BY <2>1, PublishTypeOK
    <2>2. CASE response_received
      BY <2>2, ResponseTypeOK
    <2>3. ASSUME NEW id \in PacketId, timer_expires(id) PROVE TypeOK'
      BY <2>3, TimerExpiresTypeOK
    <2>4. ASSUME NEW id \in PacketId, ack_timeout_expired(id) PROVE TypeOK'
      BY <2>4, AckTimeoutTypeOK
    <2>5. CASE connection_closed \/ connection_destroyed \/ session_destroyed
      BY <2>5, ConnectionTypeOK
    <2>6. CASE client_receives
      BY <2>6, ClientTypeOK
    <2>7. CASE UNCHANGED vars
      BY <2>7 DEF vars, serverVars, channelVars, historyVars, TypeOK
    <2> QED
      BY <2>1, <2>2, <2>3, <2>4, <2>5, <2>6, <2>7 DEF Next
  <1> QED
    BY <1>1, InitTypeOK, PTL DEF Spec

-----------------------------------------------------------------------------

\* A publication that start_ack_timeout stored has its timer armed.
LEMMA StoredIsTimed ==
    ASSUME TypeOK, InFlightIsTimed, NEW id \in PacketId, NEW p \in StartingPublication,
           store(id, start_ack_timeout(p)), UNCHANGED sender
    PROVE  InFlightIsTimed'
  <1> SUFFICES ASSUME sender' = "open", NEW i \in InFlight'
               PROVE  publications'[i].timer.armed \/ publications'[i].timer.queued
    BY DEF InFlightIsTimed
  <1>1. CASE i = id
    BY <1>1, StartAckTimeout DEF store, TypeOK, InFlight
  <1>2. CASE i # id
    BY <1>2 DEF store, TypeOK, InFlight, InFlightIsTimed
  <1> QED
    BY <1>1, <1>2

\* Releasing a publication leaves the others as they are.
LEMMA ReleasedIsTimed ==
    ASSUME TypeOK, InFlightIsTimed, NEW id \in PacketId, NEW result,
           release(id, result), UNCHANGED sender
    PROVE  InFlightIsTimed'
  BY DEF release, TypeOK, InFlight, InFlightIsTimed

LEMMA NextIsTimed ==
    ASSUME TypeOK, InFlightIsTimed, [Next]_vars
    PROVE  InFlightIsTimed'
  <1>1. ASSUME UNCHANGED <<publications, sender>> PROVE InFlightIsTimed'
    BY <1>1 DEF InFlightIsTimed, InFlight
  <1>2. ASSUME NEW id \in PacketId, NEW p \in Publication, send_pubrel(id, p)
        PROVE  InFlightIsTimed'
    <2>1. p \in StartingPublication
      BY DEF Publication, StartingPublication
    <2> QED
      BY <1>2, <2>1, StoredIsTimed DEF send_pubrel
  <1>3. ASSUME NEW qos \in QoS, NEW dup \in IncomingDup, publish(qos, dup)
        PROVE  InFlightIsTimed'
    <2>1. ASSUME NEW initial \in {"initial_qos1", "initial_qos2"},
                 publish_tracked(published + 1, qos, dup, initial)
          PROVE  InFlightIsTimed'
      <3> DEFINE id == next_packet_id
                 p == [state |-> initial, retry_count |-> 0, publish_dup |-> dup,
                       message |-> published + 1, timer |-> NewTimer]
      <3>1. id \in PacketId
        BY ConstantsAssumption DEF next_packet_id, PacketId, TypeOK
      <3>2. p \in StartingPublication
        BY <1>3, ConstantsAssumption
        DEF StartingPublication, NewTimer, Timer, publish, TypeOK, Message
      <3>3. UNCHANGED sender
        BY <1>3 DEF publish
      <3>4. CASE store(id, start_ack_timeout(p))
        BY <3>1, <3>2, <3>3, <3>4, StoredIsTimed
      <3>5. CASE UNCHANGED publications
        BY <1>1, <3>3, <3>5
      <3> QED
        BY <2>1, <3>4, <3>5 DEF publish_tracked
    <2>2. CASE UNCHANGED publications
      BY <1>1, <1>3, <2>2 DEF publish
    <2> QED
      BY <1>3, <2>1, <2>2 DEF publish, publish_using_qos0
  <1>4. CASE response_received
    <2> DEFINE id == Head(fromClient).id
               type == Head(fromClient).type
    <2>1. ASSUME stop PROVE sender' # "open"
      BY <2>1 DEF stop
    <2>2. CASE stop
      BY <2>1, <2>2 DEF InFlightIsTimed
    <2>3. CASE id \in InFlight /\ qos1_response_received(id, type)
      BY <1>1, <2>3, ReleasedIsTimed, InFlightType DEF qos1_response_received
    <2>4. CASE id \in InFlight /\ qos2_response_received(id, type)
      <3> DEFINE p == [publications[id] EXCEPT !.timer = cancelled(@)]
      <3>1. p \in Publication /\ id \in PacketId
        BY <2>4, InFlightType DEF Publication, cancelled, Timer
      <3>2. CASE send_pubrel(id, p)
        BY <1>2, <3>1, <3>2
      <3>3. CASE release(id, "completed") /\ UNCHANGED sender
        BY <3>1, <3>3, ReleasedIsTimed
      <3>4. CASE UNCHANGED <<publications, sender>>
        BY <1>1, <3>4
      <3> QED
        BY <2>2, <2>4, <3>2, <3>3, <3>4 DEF qos2_response_received
    <2> QED
      BY <1>1, <1>4, <2>2, <2>3, <2>4 DEF response_received
  <1>5. ASSUME NEW id \in PacketId, timer_expires(id) PROVE InFlightIsTimed'
    BY <1>5 DEF timer_expires, store, InFlightIsTimed, InFlight, TypeOK, Publication
  <1>6. ASSUME NEW id \in PacketId, ack_timeout_expired(id) PROVE InFlightIsTimed'
    <2> DEFINE p == [publications[id] EXCEPT !.timer.queued = FALSE,
                                             !.retry_count = NextRetryCount(publications[id])]
    <2>1. id \in InFlight /\ publications[id] \in Publication
      BY <1>6, InFlightType DEF ack_timeout_expired
    <2>2. p \in Publication
      BY <2>1, NextRetryCountType DEF Publication, Timer
    <2>3. p \in StartingPublication /\ [p EXCEPT !.publish_dup = TRUE] \in StartingPublication
      BY <2>2 DEF Publication, StartingPublication
    <2>4. CASE store(id, start_ack_timeout(p)) /\ UNCHANGED sender
      BY <2>3, <2>4, StoredIsTimed
    <2>5. CASE store(id, start_ack_timeout([p EXCEPT !.publish_dup = TRUE])) /\ UNCHANGED sender
      BY <2>3, <2>5, StoredIsTimed
    <2>6. CASE send_pubrel(id, p)
      BY <1>2, <2>2, <2>6
    <2>7. CASE release(id, "terminally_failed") /\ UNCHANGED sender
      BY <2>7, ReleasedIsTimed
    <2> QED
      BY <1>6, <2>4, <2>5, <2>6, <2>7 DEF ack_timeout_expired
  <1>7. CASE connection_closed \/ connection_destroyed \/ session_destroyed
    BY <1>7 DEF connection_closed, connection_destroyed, session_destroyed, InFlightIsTimed
  <1>8. CASE client_receives
    BY <1>1, <1>8 DEF client_receives, serverVars
  <1>9. CASE UNCHANGED vars
    BY <1>1, <1>9 DEF vars, serverVars
  <1> QED
    BY <1>3, <1>4, <1>5, <1>6, <1>7, <1>8, <1>9 DEF Next

\* On an open connection no publication in flight is ever without a pending or
\* queued retry, whatever the client answers and however late.
THEOREM InFlightAlwaysTimed == Spec => []InFlightIsTimed
  <1>1. Init => InFlightIsTimed
    BY DEF Init, InFlightIsTimed, InFlight
  <1>2. TypeOK /\ InFlightIsTimed /\ [Next]_vars => InFlightIsTimed'
    BY NextIsTimed
  <1> QED
    BY <1>1, <1>2, TypeCorrect, PTL DEF Spec

-----------------------------------------------------------------------------

\* Replacing a publication by a later stage of itself keeps ResendInv.
LEMMA StoredKeepsResendInv ==
    ASSUME TypeOK, ResendInv, NEW id \in InFlight, NEW p \in Publication,
           p.message = publications[id].message, store(id, p), UNCHANGED published,
           pubrelSent' \subseteq pubrelSent \cup {p.message},
           p.state # "waiting_for_comp" => p.message \notin pubrelSent'
    PROVE  ResendInv'
  <1>1. id \in PacketId /\ InFlight' = InFlight
    BY ConstantsAssumption DEF store, TypeOK, InFlight
  <1>2. \A i \in InFlight : publications'[i] = IF i = id THEN p ELSE publications[i]
    BY <1>1 DEF store, TypeOK, InFlight
  <1>3. \A i \in InFlight : publications'[i].message = publications[i].message
    BY <1>2
  <1> QED
    BY <1>1, <1>2, <1>3 DEF ResendInv

\* So does releasing some publications.
LEMMA ReleasedKeepsResendInv ==
    ASSUME TypeOK, ResendInv, UNCHANGED <<published, pubrelSent>>,
           \A i \in PacketId : publications'[i] \in {publications[i], NoPublication}
    PROVE  ResendInv'
  BY DEF ResendInv, InFlight

\* What a send adds to the channel.
LEMMA SendStep ==
    ASSUME TypeOK, NEW pkt \in ServerPacket, send(pkt),
           pkt.type = "PUBREL" \/ pkt.message \notin pubrelSent
    PROVE  NoPublishAfterPubrel
  BY DEF send, TypeOK, NoPublishAfterPubrel

\* PUBREL goes out: the publication waits for PUBCOMP from here on.
LEMMA SendPubrelStep ==
    ASSUME TypeOK, ResendInv, NEW id \in InFlight, NEW p \in Publication,
           p.message = publications[id].message, p.state # "waiting_for_ack",
           send_pubrel(id, p), UNCHANGED published
    PROVE  ResendInv' /\ NoPublishAfterPubrel
  <1>1. p \in StartingPublication
    BY DEF Publication, StartingPublication
  <1>2. /\ start_ack_timeout(p) \in Publication
        /\ start_ack_timeout(p).message = p.message
        /\ start_ack_timeout(p).state = "waiting_for_comp"
    BY <1>1, StartAckTimeout DEF AfterStartAckTimeout, Publication, WaitingState
  <1>3. ResendInv'
    BY <1>2, StoredKeepsResendInv DEF send_pubrel
  <1>4. Pubrel(id) \in ServerPacket /\ Pubrel(id).type = "PUBREL"
    BY InFlightType, PacketType DEF Pubrel
  <1> QED
    BY <1>3, <1>4, SendStep DEF send_pubrel

\* A timeout resends PUBLISH: the publication is not one PUBREL was sent for.
LEMMA ResendStep ==
    ASSUME TypeOK, ResendInv, NEW id \in InFlight, NEW p \in StartingPublication,
           p.message = publications[id].message,
           publications[id].state # "waiting_for_comp",
           NEW qos \in QoS \ {"RESERVED"}, NEW dup \in BOOLEAN,
           send(Publish(id, qos, dup, p.message)),
           store(id, start_ack_timeout(p)), UNCHANGED <<published, pubrelSent>>
    PROVE  ResendInv' /\ NoPublishAfterPubrel
  <1>1. start_ack_timeout(p) \in Publication /\ start_ack_timeout(p).message = p.message
    BY StartAckTimeout
  <1>2. p.message \notin pubrelSent
    BY DEF ResendInv
  <1>3. ResendInv'
    BY <1>1, <1>2, StoredKeepsResendInv
  <1>4. /\ Publish(id, qos, dup, p.message) \in ServerPacket
        /\ Publish(id, qos, dup, p.message).message = p.message
    BY InFlightType, PacketType DEF Publish, StartingPublication
  <1> QED
    BY <1>2, <1>3, <1>4, SendStep

\* Publishing hands out a message no publication has carried before.
LEMMA PublishStep ==
    ASSUME TypeOK, ResendInv, NEW qos \in QoS, NEW dup \in IncomingDup, publish(qos, dup)
    PROVE  ResendInv' /\ NoPublishAfterPubrel
  <1> DEFINE m == published + 1
             id == next_packet_id
  <1>1. m \in Message /\ dup \in BOOLEAN /\ id \in PacketId /\ 0 \in PacketId
    BY ConstantsAssumption DEF publish, TypeOK, Message, next_packet_id, PacketId
  <1>2. published \in Nat /\ published' = published + 1 /\ pubrelSent' = pubrelSent
    BY DEF publish, TypeOK
  <1>3. m \notin pubrelSent
    BY <1>2 DEF ResendInv, TypeOK, Message
  <1>4. ASSUME UNCHANGED publications PROVE ResendInv'
    <2>1. InFlight' = InFlight
      BY <1>4 DEF InFlight
    <2>2. \A i \in InFlight : publications[i].message \in Nat
      BY InFlightType, ConstantsAssumption DEF Publication, Message
    <2> QED
      BY <1>2, <1>4, <2>1, <2>2 DEF ResendInv, TypeOK, Message
  <1>5. ASSUME UNCHANGED toClient PROVE NoPublishAfterPubrel
    BY <1>5 DEF NoPublishAfterPubrel, TypeOK
  <1>6. ASSUME NEW i \in PacketId, NEW q \in QoS \ {"RESERVED"}, send(Publish(i, q, dup, m))
        PROVE  NoPublishAfterPubrel
    <2>1. Publish(i, q, dup, m) \in ServerPacket /\ Publish(i, q, dup, m).message = m
      BY <1>1, PacketType DEF Publish
    <2> QED
      BY <1>3, <1>6, <2>1, SendStep
  <1>7. ASSUME NEW initial \in {"initial_qos1", "initial_qos2"}, qos # "RESERVED",
               publish_tracked(m, qos, dup, initial)
        PROVE  ResendInv' /\ NoPublishAfterPubrel
    <2> DEFINE p == [state |-> initial, retry_count |-> 0, publish_dup |-> dup,
                     message |-> m, timer |-> NewTimer]
               s == start_ack_timeout(p)
    <2>1. CASE publications[id] # NoPublication
      BY <1>4, <1>5, <1>7, <2>1 DEF publish_tracked
    <2>2. CASE publications[id] = NoPublication
      <3>1. p \in StartingPublication
        BY <1>1, ConstantsAssumption DEF StartingPublication, NewTimer, Timer
      <3>2. s \in Publication /\ s.message = m
        BY <3>1, StartAckTimeout
      <3>3. InFlight' = InFlight \cup {id} /\ id \notin InFlight
        BY <1>1, <1>7, <2>2, <3>2, ConstantsAssumption
        DEF publish_tracked, store, InFlight, TypeOK
      <3>4. \A i \in InFlight' : publications'[i] = IF i = id THEN s ELSE publications[i]
        BY <1>1, <1>7, <2>2 DEF publish_tracked, store, TypeOK, InFlight
      <3>5. \A i \in InFlight : publications[i].message \in Nat
                               /\ publications[i].message <= published
        BY InFlightType, ConstantsAssumption DEF Publication, Message, ResendInv
      <3>6. \A i \in InFlight : publications[i].message # m
        BY <1>2, <3>5
      <3>7. \A i \in InFlight' : publications'[i].message <= published'
        BY <1>2, <3>2, <3>3, <3>4, <3>5
      <3>8. \A r \in pubrelSent' : r <= published'
        BY <1>2 DEF ResendInv, TypeOK, Message
      <3>9. \A i, j \in InFlight' :
               publications'[i].message = publications'[j].message => i = j
        BY <3>2, <3>3, <3>4, <3>6 DEF ResendInv
      <3>10. \A i \in InFlight' : publications'[i].state # "waiting_for_comp" =>
                                  publications'[i].message \notin pubrelSent'
        BY <1>2, <1>3, <3>2, <3>3, <3>4 DEF ResendInv
      <3>11. ResendInv'
        BY <3>7, <3>8, <3>9, <3>10 DEF ResendInv
      <3> QED
        BY <1>1, <1>6, <1>7, <2>2, <3>11 DEF publish_tracked
    <2> QED
      BY <2>1, <2>2
  <1>8. CASE UNCHANGED <<publications, toClient>>
    BY <1>4, <1>5, <1>8
  <1>9. CASE publish_using_qos0(m, dup)
    BY <1>1, <1>4, <1>6, <1>9 DEF publish_using_qos0, QoS
  <1>10. CASE qos # "RESERVED" /\ publish_tracked(m, qos, dup, "initial_qos1")
    BY <1>7, <1>10
  <1>11. CASE qos # "RESERVED" /\ publish_tracked(m, qos, dup, "initial_qos2")
    BY <1>7, <1>11
  <1> QED
    BY <1>8, <1>9, <1>10, <1>11 DEF publish

LEMMA NextResend ==
    ASSUME TypeOK, ResendInv, [Next]_vars
    PROVE  ResendInv' /\ NoPublishAfterPubrel
  <1>1. ASSUME UNCHANGED toClient PROVE NoPublishAfterPubrel
    BY <1>1 DEF NoPublishAfterPubrel, TypeOK
  <1>2. ASSUME UNCHANGED <<publications, published, pubrelSent, toClient>>
        PROVE  ResendInv' /\ NoPublishAfterPubrel
    BY <1>1, <1>2, ReleasedKeepsResendInv DEF TypeOK
  <1>3. ASSUME NEW id \in PacketId, NEW result, release(id, result),
               UNCHANGED <<published, pubrelSent, toClient>>
        PROVE  ResendInv' /\ NoPublishAfterPubrel
    BY <1>1, <1>3, ReleasedKeepsResendInv DEF release, TypeOK
  <1>4. ASSUME NEW id \in InFlight, NEW p \in Publication, store(id, p),
               p.message = publications[id].message, p.state = publications[id].state,
               UNCHANGED <<published, pubrelSent, toClient>>
        PROVE  ResendInv' /\ NoPublishAfterPubrel
    <2>1. p.state # "waiting_for_comp" => p.message \notin pubrelSent'
      BY <1>4 DEF ResendInv
    <2> QED
      BY <1>1, <1>4, <2>1, StoredKeepsResendInv
  <1>5. CASE response_received
    <2> DEFINE id == Head(fromClient).id
               type == Head(fromClient).type
               p == [publications[id] EXCEPT !.timer = cancelled(@)]
    <2>1. UNCHANGED published
      BY <1>5 DEF response_received
    <2>2. CASE id \in InFlight /\ qos1_response_received(id, type)
      BY <1>2, <1>3, <2>1, <2>2, InFlightType DEF qos1_response_received
    <2>3. CASE id \in InFlight /\ publications[id].state # "waiting_for_ack"
               /\ qos2_response_received(id, type)
      <3>1. /\ p \in Publication /\ id \in PacketId
            /\ p.message = publications[id].message /\ p.state = publications[id].state
        BY <2>3, InFlightType DEF Publication, cancelled, Timer
      <3>2. CASE send_pubrel(id, p)
        BY <2>1, <2>3, <3>1, <3>2, SendPubrelStep
      <3>3. CASE release(id, "completed") /\ UNCHANGED <<toClient, pubrelSent>>
        BY <1>3, <2>1, <3>1, <3>3
      <3>4. CASE UNCHANGED <<publications, toClient, pubrelSent>>
        BY <1>2, <2>1, <3>4
      <3>5. CASE store(id, p) /\ UNCHANGED <<toClient, pubrelSent>>
        BY <1>4, <2>1, <2>3, <3>1, <3>5
      <3> QED
        BY <2>3, <3>2, <3>3, <3>4, <3>5 DEF qos2_response_received
    <2>4. CASE UNCHANGED <<publications, toClient, pubrelSent>>
      BY <1>2, <2>1, <2>4
    <2> QED
      BY <1>5, <2>2, <2>3, <2>4 DEF response_received
  <1>6. ASSUME NEW id \in PacketId, timer_expires(id)
        PROVE  ResendInv' /\ NoPublishAfterPubrel
    <2> DEFINE p == [publications[id] EXCEPT !.timer = [armed |-> FALSE, queued |-> TRUE]]
    <2>1. /\ p \in Publication /\ id \in InFlight
          /\ p.message = publications[id].message /\ p.state = publications[id].state
      BY <1>6, InFlightType DEF timer_expires, Publication, Timer
    <2> QED
      BY <1>4, <1>6, <2>1 DEF timer_expires, channelVars, historyVars
  <1>7. ASSUME NEW id \in PacketId, ack_timeout_expired(id)
        PROVE  ResendInv' /\ NoPublishAfterPubrel
    <2> DEFINE p == [publications[id] EXCEPT !.timer.queued = FALSE,
                                             !.retry_count = NextRetryCount(publications[id])]
               d == [p EXCEPT !.publish_dup = TRUE]
    <2>1. id \in InFlight /\ publications[id] \in Publication /\ UNCHANGED published
      BY <1>7, InFlightType DEF ack_timeout_expired
    <2>2. /\ p \in Publication /\ p.message = publications[id].message
          /\ p.state = publications[id].state
      BY <2>1, NextRetryCountType DEF Publication, Timer
    <2>3. /\ p \in StartingPublication /\ d \in StartingPublication
          /\ d.message = publications[id].message /\ p.publish_dup \in BOOLEAN
      BY <2>2 DEF Publication, StartingPublication
    <2>4. CASE /\ p.state = "waiting_for_ack"
               /\ send(Publish(id, "AT_LEAST_ONCE", p.publish_dup, p.message))
               /\ store(id, start_ack_timeout(p))
               /\ UNCHANGED pubrelSent
      BY <2>1, <2>2, <2>3, <2>4, ResendStep DEF QoS
    <2>5. CASE /\ p.state = "waiting_for_rec"
               /\ send(Publish(id, "EXACTLY_ONCE", TRUE, p.message))
               /\ store(id, start_ack_timeout(d))
               /\ UNCHANGED pubrelSent
      <3>1. send(Publish(id, "EXACTLY_ONCE", TRUE, d.message))
        BY <2>2, <2>3, <2>5
      <3> QED
        BY <2>1, <2>2, <2>3, <2>5, <3>1, ResendStep DEF QoS
    <2>6. CASE p.state = "waiting_for_comp" /\ send_pubrel(id, p)
      BY <2>1, <2>2, <2>6, SendPubrelStep
    <2>7. CASE /\ release(id, "terminally_failed")
               /\ UNCHANGED <<toClient, pubrelSent>>
      BY <1>3, <2>1, <2>7
    <2> QED
      BY <1>7, <2>4, <2>5, <2>6, <2>7 DEF ack_timeout_expired
  <1>8. CASE connection_closed \/ connection_destroyed
    BY <1>2, <1>8 DEF connection_closed, connection_destroyed, channelVars, historyVars
  <1>9. CASE session_destroyed
    BY <1>1, <1>9, ReleasedKeepsResendInv DEF session_destroyed, channelVars
  <1>10. CASE client_receives
    <2>1. NoPublishAfterPubrel
      BY <1>10 DEF client_receives, NoPublishAfterPubrel, TypeOK
    <2> QED
      BY <1>10, <2>1, ReleasedKeepsResendInv DEF client_receives, serverVars
  <1>11. CASE UNCHANGED vars
    BY <1>2, <1>11 DEF vars, serverVars, channelVars, historyVars
  <1> QED
    BY PublishStep, <1>5, <1>6, <1>7, <1>8, <1>9, <1>10, <1>11 DEF Next

\* Whichever retries are queued when a PUBREC arrives, the server does not send
\* a PUBLISH again once it has sent the PUBREL for it.
THEOREM NoResendAfterPubrel == Spec => PublishNeverFollowsPubrel
  <1>1. Init => ResendInv
    BY DEF Init, ResendInv, InFlight
  <1>2. TypeOK /\ ResendInv /\ [Next]_vars => ResendInv' /\ [NoPublishAfterPubrel]_vars
    BY NextResend
  <1> QED
    BY <1>1, <1>2, TypeCorrect, PTL DEF Spec, PublishNeverFollowsPubrel
-----------------------------------------------------------------------------
(* What the wire holds until an identifier is used twice                    *)

Positions(queue) == 1 .. Len(queue)

LEMMA TailAt ==
    ASSUME NEW S, NEW queue \in Seq(S), queue # <<>>
    PROVE  /\ Tail(queue) \in Seq(S)
           /\ Head(queue) \in S
           /\ 1 \in Positions(queue) /\ queue[1] = Head(queue)
           /\ \A i \in Positions(Tail(queue)) :
                 i + 1 \in Positions(queue) /\ Tail(queue)[i] = queue[i + 1]
           /\ \A i \in Positions(queue) :
                 i = 1 \/ (i - 1 \in Positions(Tail(queue)) /\ Tail(queue)[i - 1] = queue[i])
  BY DEF Positions

\* The identifiers handed out so far.
Used == IF published > MaxPacketIdentifier THEN PacketId ELSE 1 .. next_packet_identifier

\* A PUBLISH under identifier id; those with QoS 0 carry no identifier.
PublishAt(i, id) ==
    /\ toClient[i].type = "PUBLISH"
    /\ toClient[i].qos # "AT_MOST_ONCE"
    /\ toClient[i].id = id

PubrelAt(i, id) == toClient[i].type = "PUBREL" /\ toClient[i].id = id

\* The QoS of a publication, as its state tells it.
Level(id) ==
    IF publications[id].state = "waiting_for_ack" THEN "AT_LEAST_ONCE" ELSE "EXACTLY_ONCE"

Taken(m) == delivered[m] > 0

\* No identifier is anywhere before it is handed out.
IdentifierInv ==
    /\ next_packet_identifier <= published
    /\ InFlight \cup awaitingRel \subseteq Used
    /\ \A i \in Positions(toClient), id \in PacketId :
          PublishAt(i, id) \/ PubrelAt(i, id) => id \in Used
    /\ \A i \in Positions(fromClient) : fromClient[i].id \in Used

\* What is under way agrees with the history of its message.
MessageInv ==
    /\ \A m \in Message : m > published => delivered[m] = 0 /\ outcome[m] = "unknown"
    /\ \A id \in InFlight :
          /\ outcome[publications[id].message] = "in_flight"
          /\ grantedQoS[publications[id].message] = Level(id)
    /\ \A i \in Positions(toClient) : toClient[i].type = "PUBLISH" =>
          /\ toClient[i].message <= published
          /\ toClient[i].qos = grantedQoS[toClient[i].message]
          /\ IF toClient[i].qos = "AT_MOST_ONCE" THEN ~Taken(toClient[i].message)
             ELSE outcome[toClient[i].message] # "unknown"
    /\ \A i, j \in Positions(toClient) :
          (/\ toClient[i].type = "PUBLISH" /\ toClient[j].type = "PUBLISH"
           /\ toClient[i].message = toClient[j].message) =>
              /\ toClient[i].id = toClient[j].id
              /\ toClient[i].qos = "AT_MOST_ONCE" => i = j

\* An identifier stands for one message on either side, and an answer under way
\* to a publication in flight is one that it expects.
CarrierInv ==
    /\ \A id \in PacketId, i, j \in Positions(toClient) :
          PublishAt(i, id) /\ PublishAt(j, id) => toClient[i].message = toClient[j].message
    /\ \A i \in Positions(toClient), id \in InFlight :
          /\ PublishAt(i, id) => toClient[i].message = publications[id].message
          /\ (toClient[i].type = "PUBLISH" /\ toClient[i].message = publications[id].message) =>
                toClient[i].id = id
          /\ PubrelAt(i, id) => publications[id].state = "waiting_for_comp"
    /\ \A i \in Positions(fromClient), id \in InFlight : fromClient[i].id = id =>
          /\ fromClient[i].type = "PUBACK" <=> publications[id].state = "waiting_for_ack"
          /\ Taken(publications[id].message)

\* PUBLISH precedes PUBREL, and the client holds an identifier while it may
\* still see the PUBLISH that it has taken.
OrderInv ==
    /\ \A id \in PacketId, i, j \in Positions(toClient) :
          PublishAt(i, id) /\ PubrelAt(j, id) => i < j
    /\ \A id \in PacketId, i \in Positions(toClient) :
          (PublishAt(i, id) /\ toClient[i].qos = "EXACTLY_ONCE") =>
              (Taken(toClient[i].message) <=> id \in awaitingRel)
    /\ \A id \in InFlight : publications[id].state = "waiting_for_rec" =>
          (Taken(publications[id].message) <=> id \in awaitingRel)
    /\ \A id \in InFlight :
          (\/ publications[id].state = "waiting_for_comp" /\ sender = "open"
           \/ \E i \in Positions(toClient) : PubrelAt(i, id)) =>
              \/ Taken(publications[id].message)
              \/ \E i \in Positions(toClient) : PublishAt(i, id)

WireInv == IdentifierInv /\ MessageInv /\ CarrierInv /\ OrderInv

LEMMA InitWire == Init => WireInv
  <1> SUFFICES ASSUME Init PROVE WireInv
    OBVIOUS
  <1>1. Positions(toClient) = {} /\ Positions(fromClient) = {} /\ InFlight = {}
    BY DEF Init, Positions, InFlight
  <1>2. IdentifierInv
    BY <1>1 DEF Init, IdentifierInv
  <1>3. MessageInv
    BY <1>1 DEF Init, MessageInv
  <1> QED
    BY <1>1, <1>2, <1>3 DEF CarrierInv, OrderInv, WireInv

\* The types the following lemmas use.
LEMMA Types ==
    ASSUME TypeOK
    PROVE  /\ toClient \in Seq(ServerPacket) /\ fromClient \in Seq(AckPacket)
           /\ \A i \in Positions(toClient) :
                 /\ toClient[i] \in ServerPacket
                 /\ toClient[i].id \in PacketId
                 /\ toClient[i].type \in {"PUBLISH", "PUBREL"}
                 /\ toClient[i].type = "PUBLISH" =>
                       /\ toClient[i].message \in Message
                       /\ toClient[i].qos \in {"AT_MOST_ONCE", "AT_LEAST_ONCE", "EXACTLY_ONCE"}
           /\ \A i \in Positions(fromClient) :
                 fromClient[i] \in AckPacket /\ fromClient[i].id \in PacketId
           /\ \A id \in InFlight : /\ id \in PacketId
                                   /\ publications[id].message \in Message
                                   /\ publications[id].state \in WaitingState
           /\ published \in Nat /\ Message \subseteq Nat /\ MaxPacketIdentifier \in Nat
           /\ \A m \in Message : delivered[m] \in Nat
           /\ PacketId \subseteq Nat /\ next_packet_identifier \in PacketId
  <1>1. toClient \in Seq(ServerPacket) /\ fromClient \in Seq(AckPacket)
    BY DEF TypeOK
  <1>2. \A i \in Positions(toClient) : toClient[i] \in ServerPacket
    BY <1>1 DEF Positions
  <1>3. \A p \in ServerPacket :
           /\ p.id \in PacketId /\ p.type \in {"PUBLISH", "PUBREL"}
           /\ p.type = "PUBLISH" =>
                 /\ p.message \in Message
                 /\ p.qos \in {"AT_MOST_ONCE", "AT_LEAST_ONCE", "EXACTLY_ONCE"}
    BY DEF ServerPacket, QoS
  <1>4. \A i \in Positions(fromClient) : fromClient[i] \in AckPacket
    BY <1>1 DEF Positions
  <1>5. \A i \in Positions(fromClient) : fromClient[i].id \in PacketId
    BY <1>4 DEF AckPacket
  <1>6. \A id \in InFlight : /\ id \in PacketId
                             /\ publications[id].message \in Message
                             /\ publications[id].state \in WaitingState
    BY InFlightType DEF Publication
  <1>7. /\ published \in Nat /\ Message \subseteq Nat /\ MaxPacketIdentifier \in Nat
        /\ \A m \in Message : delivered[m] \in Nat
        /\ PacketId \subseteq Nat /\ next_packet_identifier \in PacketId
    BY ConstantsAssumption DEF TypeOK, Message, PacketId
  <1> QED
    BY <1>1, <1>2, <1>3, <1>4, <1>5, <1>6, <1>7
-----------------------------------------------------------------------------
(* Steps that send nothing                                                  *)

\* Publications stay as they are or come to their end, and answers are read.
Settles ==
    /\ UNCHANGED <<toClient, awaitingRel, published, grantedQoS, delivered,
                   next_packet_identifier>>
    /\ \A i \in Positions(fromClient') :
          \E j \in Positions(fromClient) : fromClient'[i] = fromClient[j]
    /\ InFlight' \subseteq InFlight
    /\ \A id \in InFlight' : /\ publications'[id].state = publications[id].state
                             /\ publications'[id].message = publications[id].message
                             /\ outcome'[publications[id].message] = "in_flight"
    /\ \A m \in Message : outcome'[m] = "unknown" <=> outcome[m] = "unknown"
    /\ sender' = "open" => sender = "open"

LEMMA SettlesInv ==
    ASSUME TypeOK, WireInv, Settles
    PROVE  WireInv'
  <1>1. /\ UNCHANGED <<toClient, awaitingRel, published, grantedQoS, delivered,
                       next_packet_identifier>>
        /\ InFlight' \subseteq InFlight
        /\ \A id \in InFlight' : /\ publications'[id].state = publications[id].state
                                 /\ publications'[id].message = publications[id].message
                                 /\ Level(id)' = Level(id)
    BY DEF Settles, Level
  <1>2. /\ Positions(toClient)' = Positions(toClient) /\ Used' = Used
        /\ \A i, id : /\ PublishAt(i, id)' = PublishAt(i, id)
                      /\ PubrelAt(i, id)' = PubrelAt(i, id)
        /\ \A m : Taken(m)' = Taken(m)
    BY <1>1 DEF Positions, Used, PublishAt, PubrelAt, Taken
  <1>3. IdentifierInv'
    <2>1. \A i \in Positions(fromClient') : fromClient'[i].id \in Used
      BY DEF Settles, WireInv, IdentifierInv
    <2> QED
      BY <1>1, <1>2, <2>1 DEF WireInv, IdentifierInv
  <1>4. MessageInv'
    <2>1. \A i \in Positions(toClient) :
             toClient[i].type = "PUBLISH" => toClient[i].message \in Message
      BY Types
    <2>2. \A m \in Message : outcome'[m] = "unknown" <=> outcome[m] = "unknown"
      BY DEF Settles
    <2>3. \A m \in Message : m > published' => delivered'[m] = 0 /\ outcome'[m] = "unknown"
      BY <1>1, <2>2 DEF WireInv, MessageInv
    <2>4. \A id \in InFlight' :
             /\ outcome'[publications'[id].message] = "in_flight"
             /\ grantedQoS'[publications'[id].message] = Level(id)'
      BY <1>1 DEF Settles, WireInv, MessageInv
    <2>5. \A i \in Positions(toClient)' : toClient'[i].type = "PUBLISH" =>
             /\ toClient'[i].message <= published'
             /\ toClient'[i].qos = grantedQoS'[toClient'[i].message]
             /\ IF toClient'[i].qos = "AT_MOST_ONCE" THEN ~Taken(toClient[i].message)'
                ELSE outcome'[toClient'[i].message] # "unknown"
      BY <1>1, <1>2, <2>1, <2>2 DEF WireInv, MessageInv
    <2> QED
      BY <1>1, <1>2, <2>3, <2>4, <2>5 DEF WireInv, MessageInv
  <1>5. CarrierInv'
    <2>1. \A i \in Positions(fromClient'), id \in InFlight' : fromClient'[i].id = id =>
             /\ fromClient'[i].type = "PUBACK" <=> publications'[id].state = "waiting_for_ack"
             /\ Taken(publications[id].message)
      BY <1>1 DEF Settles, WireInv, CarrierInv
    <2> QED
      BY <1>1, <1>2, <2>1 DEF WireInv, CarrierInv
  <1>6. OrderInv'
    <2>1. sender' = "open" => sender = "open"
      BY DEF Settles
    <2> QED
      BY <1>1, <1>2, <2>1 DEF WireInv, OrderInv
  <1> QED
    BY <1>3, <1>4, <1>5, <1>6 DEF WireInv

\* Releasing a publication that has an end settles it.
LEMMA ReleaseSettles ==
    ASSUME TypeOK, ResendInv, WireInv, NEW id \in InFlight,
           NEW result \in Outcome \ {"unknown"}, release(id, result),
           UNCHANGED <<toClient, awaitingRel, published, grantedQoS, delivered,
                       next_packet_identifier, sender>>,
           \A i \in Positions(fromClient') :
              \E j \in Positions(fromClient) : fromClient'[i] = fromClient[j]
    PROVE  Settles
  <1>1. id \in PacketId /\ publications[id].message \in Message
    BY Types
  <1>2. \A i \in PacketId : publications'[i] = IF i = id THEN NoPublication ELSE publications[i]
    BY <1>1 DEF release, TypeOK
  <1>3. InFlight' = InFlight \ {id}
    BY <1>1, <1>2 DEF InFlight
  <1>4. \A i \in InFlight' : /\ publications'[i] = publications[i]
                             /\ publications[i].message # publications[id].message
    BY <1>1, <1>2, <1>3 DEF InFlight, ResendInv
  <1>5. \A m \in Message :
           outcome'[m] = IF m = publications[id].message THEN result ELSE outcome[m]
    BY DEF release, TypeOK
  <1>6. \A i \in InFlight : publications[i].message \in Message
                            /\ outcome[publications[i].message] = "in_flight"
    BY Types DEF WireInv, MessageInv
  <1>7. \A i \in InFlight' : outcome'[publications[i].message] = "in_flight"
    BY <1>3, <1>4, <1>5, <1>6
  <1>8. \A m \in Message : outcome'[m] = "unknown" <=> outcome[m] = "unknown"
    BY <1>5, <1>6
  <1> QED
    BY <1>3, <1>4, <1>7, <1>8 DEF Settles
-----------------------------------------------------------------------------
(* Steps that send for a publication in flight                              *)

LEMMA SentAt ==
    ASSUME TypeOK, NEW pkt \in ServerPacket, send(pkt)
    PROVE  /\ \A i \in Positions(toClient) :
                 i \in Positions(toClient') /\ i < Len(toClient) + 1 /\ toClient'[i] = toClient[i]
           /\ \A i \in Positions(toClient') :
                 \/ i \in Positions(toClient)
                 \/ sender = "open" /\ i = Len(toClient) + 1 /\ toClient'[i] = pkt
           /\ sender = "open" => /\ Len(toClient) + 1 \in Positions(toClient')
                                 /\ toClient'[Len(toClient) + 1] = pkt
  <1>1. toClient \in Seq(ServerPacket)
    BY DEF TypeOK
  <1>2. CASE sender = "open"
    <2>1. toClient' = Append(toClient, pkt)
      BY <1>2 DEF send
    <2>2. /\ \A i \in Positions(toClient) :
                /\ i \in Positions(toClient') /\ i < Len(toClient) + 1
                /\ toClient'[i] = toClient[i]
          /\ \A i \in Positions(toClient') : i \in Positions(toClient) \/ i = Len(toClient) + 1
          /\ Len(toClient) + 1 \in Positions(toClient')
          /\ toClient'[Len(toClient) + 1] = pkt
      <3>1. /\ \A i \in Positions(toClient) :
                  /\ i \in Positions(Append(toClient, pkt)) /\ i < Len(toClient) + 1
                  /\ Append(toClient, pkt)[i] = toClient[i]
            /\ \A i \in Positions(Append(toClient, pkt)) :
                  i \in Positions(toClient) \/ i = Len(toClient) + 1
            /\ Len(toClient) + 1 \in Positions(Append(toClient, pkt))
            /\ Append(toClient, pkt)[Len(toClient) + 1] = pkt
        BY <1>1 DEF Positions
      <3> QED
        BY <2>1, <3>1
    <2> QED
      BY <1>2, <2>2
  <1>3. CASE sender # "open"
    BY <1>1, <1>3 DEF send, Positions
  <1> QED
    BY <1>2, <1>3

\* A later stage of publication id takes the place of it.
Advances(id, state) ==
    /\ id \in InFlight
    /\ InFlight' = InFlight
    /\ \A i \in InFlight :
          /\ publications'[i].message = publications[i].message
          /\ publications'[i].state = IF i = id THEN state ELSE publications[i].state
    /\ \A i \in Positions(fromClient') :
          \E j \in Positions(fromClient) : fromClient'[i] = fromClient[j]
    /\ UNCHANGED <<sender, awaitingRel, published, grantedQoS, delivered, outcome,
                   next_packet_identifier>>

\* A timeout sends the PUBLISH of a publication once more.
Resends(id) ==
    /\ publications[id].state \in {"waiting_for_ack", "waiting_for_rec"}
    /\ \E dup \in BOOLEAN : send(Publish(id, Level(id), dup, publications[id].message))
    /\ Advances(id, IF publications[id].state = "waiting_for_ack" THEN "waiting_for_ack"
                    ELSE "waiting_for_comp")

\* A timeout or a PUBREC makes PUBREL go out.
SendsPubrel(id) ==
    /\ \/ publications[id].state = "waiting_for_comp"
       \/ publications[id].state = "waiting_for_rec" /\ Taken(publications[id].message)
    /\ send(Pubrel(id))
    /\ Advances(id, "waiting_for_comp")

\* What all these steps leave alone.
LEMMA AdvancesKeeps ==
    ASSUME TypeOK, WireInv, NEW id, NEW state, Advances(id, state)
    PROVE  /\ Used' = Used
           /\ \A m : Taken(m)' = Taken(m)
           /\ (\A i \in Positions(toClient'), k \in PacketId :
                  (PublishAt(i, k)' \/ PubrelAt(i, k)') => k \in Used) => IdentifierInv'
           /\ \A m \in Message : m > published' => delivered'[m] = 0 /\ outcome'[m] = "unknown"
  <1>1. UNCHANGED <<awaitingRel, published, delivered, outcome, next_packet_identifier>>
        /\ InFlight' = InFlight
    BY DEF Advances
  <1>2. Used' = Used /\ \A m : Taken(m)' = Taken(m)
    BY <1>1 DEF Used, Taken
  <1>3. \A i \in Positions(fromClient') : fromClient'[i].id \in Used
    BY DEF Advances, WireInv, IdentifierInv
  <1> QED
    BY <1>1, <1>2, <1>3 DEF WireInv, IdentifierInv, MessageInv

LEMMA ResendsInv ==
    ASSUME TypeOK, ResendInv, WireInv, NEW id, Resends(id)
    PROVE  WireInv'
  <1> DEFINE m == publications[id].message
             state == IF publications[id].state = "waiting_for_ack" THEN "waiting_for_ack"
                      ELSE "waiting_for_comp"
  <1>1. id \in InFlight /\ InFlight \subseteq PacketId /\ m \in Message /\ Advances(id, state)
    BY Types DEF Resends, Advances
  <1>2. PICK dup \in BOOLEAN : send(Publish(id, Level(id), dup, m))
    BY DEF Resends
  <1>3. PICK pkt \in ServerPacket :
           /\ send(pkt) /\ pkt.type = "PUBLISH" /\ pkt.id = id /\ pkt.qos = Level(id)
           /\ pkt.message = m
    BY <1>1, <1>2, PacketType DEF Publish, QoS, Level
  <1>4. PICK last \in Nat :
           /\ \A i \in Positions(toClient) :
                 i \in Positions(toClient') /\ i < last /\ toClient'[i] = toClient[i]
           /\ \A i \in Positions(toClient') :
                 \/ i \in Positions(toClient)
                 \/ i = last /\ toClient'[i] = pkt
           /\ sender = "open" => last \in Positions(toClient') /\ toClient'[last] = pkt
    BY <1>3, SentAt, Types
  <1>5. /\ Used' = Used /\ id \in Used
        /\ \A l : Taken(l)' = Taken(l)
    BY <1>1, AdvancesKeeps DEF WireInv, IdentifierInv
  <1>6. UNCHANGED <<sender, awaitingRel, published, grantedQoS, delivered, outcome,
                    next_packet_identifier>> /\ InFlight' = InFlight
    BY <1>1 DEF Advances
  <1>7. Level(id) \in {"AT_LEAST_ONCE", "EXACTLY_ONCE"}
    BY DEF Level
  <1>8. /\ \A i \in Positions(toClient'), k \in PacketId : PubrelAt(i, k)' =>
                i \in Positions(toClient) /\ PubrelAt(i, k)
        /\ \A i \in Positions(toClient), k \in PacketId : PublishAt(i, k) => PublishAt(i, k)'
        /\ \A i \in Positions(toClient'), k \in PacketId : PublishAt(i, k)' =>
                \/ i \in Positions(toClient) /\ PublishAt(i, k)
                \/ i = last /\ k = id /\ toClient'[i] = pkt
    BY <1>3, <1>4 DEF PubrelAt, PublishAt
  <1>9. IdentifierInv'
    <2>1. \A i \in Positions(toClient'), k \in PacketId :
             (PublishAt(i, k)' \/ PubrelAt(i, k)') => k \in Used
      BY <1>5, <1>8 DEF WireInv, IdentifierInv
    <2> QED
      BY <1>1, <2>1, AdvancesKeeps
  <1>10. publications[id].state = "waiting_for_ack" \/ publications[id].state = "waiting_for_rec"
    BY DEF Resends
  <1>11. \A i \in InFlight : Level(i)' = Level(i)
    BY <1>1, <1>10 DEF Advances, Level
  <1>12. outcome[m] = "in_flight" /\ grantedQoS[m] = Level(id) /\ m <= published
    BY <1>1 DEF WireInv, MessageInv, ResendInv
  <1>13. \A i \in Positions(toClient) : toClient[i].type = "PUBLISH" =>
             (toClient[i].message = m => toClient[i].id = id)
    BY <1>1 DEF WireInv, CarrierInv
  <1>14. MessageInv'
    <2>1. \A i \in InFlight' : /\ outcome'[publications'[i].message] = "in_flight"
                               /\ grantedQoS'[publications'[i].message] = Level(i)'
      BY <1>1, <1>6, <1>11 DEF Advances, WireInv, MessageInv
    <2>2. \A i \in Positions(toClient') : toClient'[i].type = "PUBLISH" =>
             /\ toClient'[i].message <= published'
             /\ toClient'[i].qos = grantedQoS'[toClient'[i].message]
             /\ IF toClient'[i].qos = "AT_MOST_ONCE" THEN ~Taken(toClient'[i].message)
                ELSE outcome'[toClient'[i].message] # "unknown"
      BY <1>3, <1>4, <1>6, <1>7, <1>12 DEF WireInv, MessageInv
    <2>3. \A i \in Positions(toClient) :
             toClient[i].type = "PUBLISH" => toClient[i].qos = grantedQoS[toClient[i].message]
      BY DEF WireInv, MessageInv
    <2>4. \A i, j \in Positions(toClient') :
             (/\ toClient'[i].type = "PUBLISH" /\ toClient'[j].type = "PUBLISH"
              /\ toClient'[i].message = toClient'[j].message) =>
                 /\ toClient'[i].id = toClient'[j].id
                 /\ toClient'[i].qos = "AT_MOST_ONCE" => i = j
      <3> SUFFICES ASSUME NEW i \in Positions(toClient'), NEW j \in Positions(toClient'),
                          toClient'[i].type = "PUBLISH", toClient'[j].type = "PUBLISH",
                          toClient'[i].message = toClient'[j].message
                   PROVE  /\ toClient'[i].id = toClient'[j].id
                          /\ toClient'[i].qos = "AT_MOST_ONCE" => i = j
        OBVIOUS
      <3>1. CASE i \in Positions(toClient) /\ j \in Positions(toClient)
        BY <1>4, <3>1 DEF WireInv, MessageInv
      <3>2. CASE toClient'[i] = pkt \/ toClient'[j] = pkt
        BY <1>3, <1>4, <1>7, <1>12, <1>13, <2>3, <3>2
      <3> QED
        BY <1>4, <3>1, <3>2
    <2>5. \A l \in Message : l > published' => delivered'[l] = 0 /\ outcome'[l] = "unknown"
      BY <1>1, AdvancesKeeps
    <2>6. \A i \in Positions(toClient') : Taken(toClient'[i].message) <=> delivered'[toClient'[i].message] > 0
      BY <1>6 DEF Taken
    <2> QED
      BY <2>1, <2>2, <2>4, <2>5, <2>6 DEF MessageInv, Positions, Taken
  <1>15. CarrierInv'
    <2>1. \A k \in PacketId, i, j \in Positions(toClient') :
             PublishAt(i, k)' /\ PublishAt(j, k)' => toClient'[i].message = toClient'[j].message
      BY <1>1, <1>3, <1>4, <1>8 DEF WireInv, CarrierInv
    <2>2. \A i \in Positions(toClient'), k \in InFlight' :
             /\ PublishAt(i, k)' => toClient'[i].message = publications'[k].message
             /\ (toClient'[i].type = "PUBLISH"
                 /\ toClient'[i].message = publications'[k].message) => toClient'[i].id = k
      <3>1. \A k \in InFlight : publications'[k].message = publications[k].message
                                /\ (publications[k].message = m => k = id)
        BY <1>1 DEF Advances, ResendInv
      <3> QED
        BY <1>1, <1>3, <1>4, <1>6, <1>8, <3>1 DEF WireInv, CarrierInv
    <2>3. \A i \in Positions(toClient'), k \in InFlight' :
             PubrelAt(i, k)' => publications'[k].state = "waiting_for_comp"
      BY <1>1, <1>6, <1>8, <1>10 DEF Advances, WireInv, CarrierInv
    <2>4. \A i \in Positions(fromClient'), k \in InFlight' : fromClient'[i].id = k =>
             /\ fromClient'[i].type = "PUBACK" <=> publications'[k].state = "waiting_for_ack"
             /\ Taken(publications'[k].message)
      BY <1>1, <1>6, <1>10 DEF Advances, WireInv, CarrierInv
    <2> QED
      BY <1>6, <2>1, <2>2, <2>3, <2>4 DEF CarrierInv, Positions, Taken
  <1>16. OrderInv'
    <2>1. \A k \in PacketId, i, j \in Positions(toClient') :
             PublishAt(i, k)' /\ PubrelAt(j, k)' => i < j
      <3>1. \A j \in Positions(toClient) : ~PubrelAt(j, id)
        BY <1>1, <1>10 DEF WireInv, CarrierInv
      <3> QED
        BY <1>8, <3>1 DEF WireInv, OrderInv
    <2>2. Level(id) = "EXACTLY_ONCE" => (Taken(m) <=> id \in awaitingRel)
      BY <1>1, <1>10 DEF Level, WireInv, OrderInv
    <2>3. \A k \in PacketId, i \in Positions(toClient') :
             (PublishAt(i, k)' /\ toClient'[i].qos = "EXACTLY_ONCE") =>
                 (Taken(toClient'[i].message) <=> k \in awaitingRel')
      BY <1>3, <1>4, <1>6, <1>8, <2>2 DEF WireInv, OrderInv
    <2>4. \A k \in InFlight' : publications'[k].state = "waiting_for_rec" =>
             (Taken(publications'[k].message) <=> k \in awaitingRel')
      BY <1>1, <1>6 DEF Advances, WireInv, OrderInv
    <2>5. \A k \in InFlight' :
             (\/ publications'[k].state = "waiting_for_comp" /\ sender' = "open"
              \/ \E i \in Positions(toClient') : PubrelAt(i, k)') =>
                 \/ Taken(publications'[k].message)
                 \/ \E i \in Positions(toClient') : PublishAt(i, k)'
      <3>1. sender = "open" => last \in Positions(toClient') /\ PublishAt(last, id)'
        BY <1>3, <1>4, <1>7 DEF PublishAt
      <3>2. \A j \in Positions(toClient) : ~PubrelAt(j, id)
        BY <1>1, <1>10 DEF WireInv, CarrierInv
      <3>3. \A k \in InFlight : k # id =>
               ((\/ publications[k].state = "waiting_for_comp" /\ sender = "open"
                \/ \E i \in Positions(toClient) : PubrelAt(i, k)) =>
                   \/ Taken(publications[k].message)
                   \/ \E i \in Positions(toClient') : PublishAt(i, k)')
        BY <1>1, <1>4, <1>8 DEF WireInv, OrderInv
      <3>4. \A k \in InFlight : /\ publications'[k].message = publications[k].message
                                /\ k # id => publications'[k].state = publications[k].state
        BY <1>1 DEF Advances
      <3> QED
        BY <1>1, <1>6, <1>8, <3>1, <3>2, <3>3, <3>4
    <2> QED
      BY <1>6, <2>1, <2>3, <2>4, <2>5 DEF OrderInv, Positions, Taken
  <1> QED
    BY <1>9, <1>14, <1>15, <1>16 DEF WireInv

LEMMA SendsPubrelInv ==
    ASSUME TypeOK, ResendInv, WireInv, NEW id, SendsPubrel(id)
    PROVE  WireInv'
  <1> DEFINE m == publications[id].message
  <1>1. id \in InFlight /\ InFlight \subseteq PacketId /\ Advances(id, "waiting_for_comp")
    BY Types DEF SendsPubrel, Advances
  <1>2. PICK pkt \in ServerPacket : send(pkt) /\ pkt.type = "PUBREL" /\ pkt.id = id
    BY <1>1, PacketType DEF SendsPubrel, Pubrel
  <1>3. PICK last \in Nat :
           /\ \A i \in Positions(toClient) :
                 i \in Positions(toClient') /\ i < last /\ toClient'[i] = toClient[i]
           /\ \A i \in Positions(toClient') :
                 \/ i \in Positions(toClient)
                 \/ sender = "open" /\ i = last /\ toClient'[i] = pkt
    BY <1>2, SentAt, Types
  <1>4. /\ Used' = Used /\ id \in Used
        /\ \A l : Taken(l)' = Taken(l)
    BY <1>1, AdvancesKeeps DEF WireInv, IdentifierInv
  <1>5. UNCHANGED <<sender, awaitingRel, published, grantedQoS, delivered, outcome,
                    next_packet_identifier>> /\ InFlight' = InFlight
    BY <1>1 DEF Advances
  <1>6. /\ \A i \in Positions(toClient'), k \in PacketId : PublishAt(i, k)' =>
                i \in Positions(toClient) /\ PublishAt(i, k)
        /\ \A i \in Positions(toClient), k \in PacketId : PublishAt(i, k) => PublishAt(i, k)'
        /\ \A i \in Positions(toClient'), k \in PacketId : PubrelAt(i, k)' =>
                \/ i \in Positions(toClient) /\ PubrelAt(i, k)
                \/ sender = "open" /\ i = last /\ k = id
        /\ \A i \in Positions(toClient') : toClient'[i].type = "PUBLISH" =>
                i \in Positions(toClient) /\ toClient'[i] = toClient[i]
    BY <1>2, <1>3 DEF PubrelAt, PublishAt
  <1>7. publications[id].state \in {"waiting_for_rec", "waiting_for_comp"}
    BY DEF SendsPubrel
  <1>8. \A i \in InFlight : /\ Level(i)' = Level(i)
                            /\ publications'[i].message = publications[i].message
                            /\ i # id => publications'[i].state = publications[i].state
                            /\ i = id => publications'[i].state = "waiting_for_comp"
    BY <1>1, <1>7 DEF Advances, Level
  <1>9. IdentifierInv'
    <2>1. \A i \in Positions(toClient'), k \in PacketId :
             (PublishAt(i, k)' \/ PubrelAt(i, k)') => k \in Used
      BY <1>4, <1>6 DEF WireInv, IdentifierInv
    <2> QED
      BY <1>1, <2>1, AdvancesKeeps
  <1>10. MessageInv'
    <2>1. \A i \in InFlight' : /\ outcome'[publications'[i].message] = "in_flight"
                               /\ grantedQoS'[publications'[i].message] = Level(i)'
      BY <1>5, <1>8 DEF WireInv, MessageInv
    <2>2. \A i \in Positions(toClient') : toClient'[i].type = "PUBLISH" =>
             /\ toClient'[i].message <= published'
             /\ toClient'[i].qos = grantedQoS'[toClient'[i].message]
             /\ IF toClient'[i].qos = "AT_MOST_ONCE" THEN ~Taken(toClient'[i].message)
                ELSE outcome'[toClient'[i].message] # "unknown"
      BY <1>5, <1>6 DEF WireInv, MessageInv
    <2>3. \A i, j \in Positions(toClient') :
             (/\ toClient'[i].type = "PUBLISH" /\ toClient'[j].type = "PUBLISH"
              /\ toClient'[i].message = toClient'[j].message) =>
                 /\ toClient'[i].id = toClient'[j].id
                 /\ toClient'[i].qos = "AT_MOST_ONCE" => i = j
      BY <1>6 DEF WireInv, MessageInv
    <2>4. \A l \in Message : l > published' => delivered'[l] = 0 /\ outcome'[l] = "unknown"
      BY <1>1, AdvancesKeeps
    <2> QED
      BY <1>5, <2>1, <2>2, <2>3, <2>4 DEF MessageInv, Positions, Taken
  <1>11. CarrierInv'
    <2>1. \A k \in PacketId, i, j \in Positions(toClient') :
             PublishAt(i, k)' /\ PublishAt(j, k)' => toClient'[i].message = toClient'[j].message
      BY <1>3, <1>6 DEF WireInv, CarrierInv
    <2>2. \A i \in Positions(toClient'), k \in InFlight' :
             /\ PublishAt(i, k)' => toClient'[i].message = publications'[k].message
             /\ (toClient'[i].type = "PUBLISH"
                 /\ toClient'[i].message = publications'[k].message) => toClient'[i].id = k
      BY <1>1, <1>3, <1>5, <1>6, <1>8 DEF WireInv, CarrierInv
    <2>3. \A i \in Positions(toClient'), k \in InFlight' :
             PubrelAt(i, k)' => publications'[k].state = "waiting_for_comp"
      BY <1>1, <1>5, <1>6, <1>8 DEF WireInv, CarrierInv
    <2>4. \A i \in Positions(fromClient'), k \in InFlight' : fromClient'[i].id = k =>
             /\ fromClient'[i].type = "PUBACK" <=> publications'[k].state = "waiting_for_ack"
             /\ Taken(publications'[k].message)
      BY <1>1, <1>5, <1>7 DEF Advances, WireInv, CarrierInv
    <2> QED
      BY <1>5, <2>1, <2>2, <2>3, <2>4 DEF CarrierInv, Positions, Taken
  <1>12. OrderInv'
    <2>1. \A k \in PacketId, i, j \in Positions(toClient') :
             PublishAt(i, k)' /\ PubrelAt(j, k)' => i < j
      BY <1>3, <1>6 DEF WireInv, OrderInv
    <2>2. \A k \in PacketId, i \in Positions(toClient') :
             (PublishAt(i, k)' /\ toClient'[i].qos = "EXACTLY_ONCE") =>
                 (Taken(toClient'[i].message) <=> k \in awaitingRel')
      BY <1>3, <1>5, <1>6 DEF WireInv, OrderInv
    <2>3. \A k \in InFlight' : publications'[k].state = "waiting_for_rec" =>
             (Taken(publications'[k].message) <=> k \in awaitingRel')
      BY <1>5, <1>8 DEF WireInv, OrderInv
    <2>4. \A k \in InFlight' :
             (\/ publications'[k].state = "waiting_for_comp" /\ sender' = "open"
              \/ \E i \in Positions(toClient') : PubrelAt(i, k)') =>
                 \/ Taken(publications'[k].message)
                 \/ \E i \in Positions(toClient') : PublishAt(i, k)'
      <3>1. sender = "open" => \/ Taken(m)
                               \/ \E i \in Positions(toClient) : PublishAt(i, id)
        BY <1>1 DEF SendsPubrel, WireInv, OrderInv
      <3>2. (\E i \in Positions(toClient) : PubrelAt(i, id)) =>
               \/ Taken(m)
               \/ \E i \in Positions(toClient) : PublishAt(i, id)
        BY <1>1 DEF WireInv, OrderInv
      <3>3. \A k \in InFlight : k # id =>
               ((\/ publications[k].state = "waiting_for_comp" /\ sender = "open"
                 \/ \E i \in Positions(toClient) : PubrelAt(i, k)) =>
                   \/ Taken(publications[k].message)
                   \/ \E i \in Positions(toClient) : PublishAt(i, k))
        BY <1>1 DEF WireInv, OrderInv
      <3>4. \A k \in InFlight : (\E i \in Positions(toClient) : PublishAt(i, k)) =>
                                 \E i \in Positions(toClient') : PublishAt(i, k)'
        BY <1>1, <1>3, <1>6
      <3> QED
        BY <1>1, <1>5, <1>6, <1>8, <3>1, <3>2, <3>3, <3>4
    <2> QED
      BY <1>5, <2>1, <2>2, <2>3, <2>4 DEF OrderInv, Positions, Taken
  <1> QED
    BY <1>9, <1>10, <1>11, <1>12 DEF WireInv
-----------------------------------------------------------------------------
(* Publishing                                                               *)

\* Message m is published; ids holds the identifier it is tracked under, if any.
Publishes(m, qos, ids) ==
    /\ m \in Message /\ m = published + 1 /\ published' = m
    /\ grantedQoS' = [grantedQoS EXCEPT ![m] = qos]
    /\ ids \subseteq PacketId \ Used
    /\ Used \cup ids \subseteq Used'
    /\ next_packet_identifier' <= m
    /\ InFlight' = InFlight \cup ids
    /\ \A i \in InFlight : publications'[i] = publications[i]
    /\ \A i \in ids : /\ ids = {i}
                      /\ qos \in {"AT_LEAST_ONCE", "EXACTLY_ONCE"}
                      /\ publications'[i].message = m
                      /\ publications'[i].state = IF qos = "AT_LEAST_ONCE" THEN "waiting_for_ack"
                                                  ELSE "waiting_for_rec"
    /\ outcome' = IF ids = {} THEN outcome ELSE [outcome EXCEPT ![m] = "in_flight"]
    /\ \/ UNCHANGED toClient
       \/ \E id \in PacketId, dup \in BOOLEAN :
             /\ send(Publish(id, qos, dup, m))
             /\ ids = {id} \/ (ids = {} /\ id = 0 /\ qos = "AT_MOST_ONCE")
    /\ UNCHANGED <<sender, fromClient, awaitingRel, delivered>>

\* Before the identifiers wrap the next one was never used.
LEMMA NextIdentifier ==
    ASSUME TypeOK, next_packet_identifier <= published, published' = published + 1, NoWrap'
    PROVE  /\ next_packet_id \in PacketId \ Used
           /\ next_packet_id <= published + 1
           /\ next_packet_identifier' = next_packet_id => Used \cup {next_packet_id} \subseteq Used'
           /\ next_packet_identifier' = next_packet_identifier => Used \subseteq Used'
  <1>1. /\ published \in Nat /\ MaxPacketIdentifier \in Nat /\ published <= MaxPacketIdentifier
        /\ next_packet_identifier \in 0 .. MaxPacketIdentifier
    BY Types DEF NoWrap, PacketId
  <1>2. CASE next_packet_identifier = MaxPacketIdentifier
    BY <1>1, <1>2 DEF next_packet_id, Used, PacketId
  <1>3. CASE next_packet_identifier # MaxPacketIdentifier
    BY <1>1, <1>3 DEF next_packet_id, Used, PacketId
  <1> QED
    BY <1>2, <1>3

LEMMA PublishCases ==
    ASSUME TypeOK, WireInv, Running, NEW qos \in QoS, NEW dup \in IncomingDup,
           publish(qos, dup), NoWrap'
    PROVE  Running' /\ \E m, ids : Publishes(m, qos, ids)
  <1> DEFINE id == next_packet_id
  <1>1. PICK m : m = published + 1
    OBVIOUS
  <1>2. /\ m \in Message /\ published' = m /\ dup \in BOOLEAN /\ 0 \in PacketId
        /\ grantedQoS' = [grantedQoS EXCEPT ![m] = qos]
        /\ UNCHANGED <<sender, fromClient, awaitingRel, delivered>>
    BY <1>1, ConstantsAssumption DEF publish, TypeOK, Message, PacketId
  <1>3. next_packet_identifier <= published /\ InFlight \subseteq Used
    BY DEF WireInv, IdentifierInv
  <1>4. next_packet_identifier <= m
    BY <1>1, <1>3, Types
  <1>5. /\ id \in PacketId \ Used /\ id <= m
        /\ next_packet_identifier' = id => Used \cup {id} \subseteq Used'
        /\ next_packet_identifier' = next_packet_identifier => Used \subseteq Used'
    BY <1>1, <1>2, <1>3, NextIdentifier
  <1>6. CASE UNCHANGED <<publications, next_packet_identifier, failed_assert, toClient, outcome>>
    <2>1. InFlight' = InFlight /\ Running'
      BY <1>6 DEF InFlight, Running
    <2>2. Publishes(m, qos, {})
      BY <1>1, <1>2, <1>4, <1>5, <1>6, <2>1 DEF Publishes
    <2> QED
      BY <2>1, <2>2
  <1>7. CASE qos = "AT_MOST_ONCE" /\ publish_using_qos0(m, dup)
    <2>1. /\ UNCHANGED <<publications, next_packet_identifier, failed_assert, outcome>>
          /\ send(Publish(0, qos, dup, m))
      BY <1>7 DEF publish_using_qos0
    <2>2. InFlight' = InFlight /\ Running'
      BY <2>1 DEF InFlight, Running
    <2>3. Publishes(m, qos, {})
      BY <1>1, <1>2, <1>4, <1>5, <1>7, <2>1, <2>2 DEF Publishes
    <2> QED
      BY <2>2, <2>3
  <1>8. ASSUME NEW initial \in {"initial_qos1", "initial_qos2"},
               qos = IF initial = "initial_qos1" THEN "AT_LEAST_ONCE" ELSE "EXACTLY_ONCE",
               publish_tracked(m, qos, dup, initial)
        PROVE  Running' /\ Publishes(m, qos, {id})
    <2> DEFINE p == [state |-> initial, retry_count |-> 0, publish_dup |-> dup,
                     message |-> m, timer |-> NewTimer]
               s == start_ack_timeout(p)
    <2>1. publications[id] = NoPublication
      BY <1>3, <1>5 DEF InFlight
    <2>2. /\ next_packet_identifier' = id /\ send(Publish(id, qos, dup, m))
          /\ store(id, s)
          /\ outcome' = [outcome EXCEPT ![m] = "in_flight"] /\ UNCHANGED failed_assert
      BY <1>8, <2>1 DEF publish_tracked
    <2>3. p \in StartingPublication /\ p.message = m /\ p.state = initial
      BY <1>2, ConstantsAssumption DEF StartingPublication, NewTimer, Timer
    <2>4. s \in Publication /\ s.message = m /\ s.state = AfterStartAckTimeout(initial)
      BY <2>3, StartAckTimeout
    <2>5. s.state = IF qos = "AT_LEAST_ONCE" THEN "waiting_for_ack" ELSE "waiting_for_rec"
      BY <1>8, <2>4 DEF AfterStartAckTimeout
    <2>6. \A i \in PacketId : publications'[i] = IF i = id THEN s ELSE publications[i]
      BY <1>5, <2>2 DEF store, TypeOK
    <2>7. s # NoPublication
      BY <2>4, ConstantsAssumption
    <2> HIDE DEF id, s
    <2>8. InFlight' = InFlight \cup {id}
      BY <1>5, <2>6, <2>7 DEF InFlight
    <2>9. \A i \in InFlight : publications'[i] = publications[i]
      BY <2>1, <2>6 DEF InFlight
    <2>10. \A i \in {id} : /\ publications'[i].message = m
                           /\ publications'[i].state = IF qos = "AT_LEAST_ONCE"
                                                       THEN "waiting_for_ack"
                                                       ELSE "waiting_for_rec"
      BY <1>5, <2>4, <2>5, <2>6
    <2>11. Publishes(m, qos, {id})
      BY <1>1, <1>2, <1>5, <1>8, <2>2, <2>8, <2>9, <2>10 DEF Publishes
    <2> QED
      BY <2>2, <2>11 DEF Running
  <1>9. CASE qos = "AT_LEAST_ONCE" /\ publish_tracked(m, qos, dup, "initial_qos1")
    BY <1>8, <1>9
  <1>10. CASE qos = "EXACTLY_ONCE" /\ publish_tracked(m, qos, dup, "initial_qos2")
    BY <1>8, <1>10
  <1> QED
    BY <1>1, <1>6, <1>7, <1>9, <1>10 DEF publish

LEMMA PublishesInv ==
    ASSUME TypeOK, ResendInv, WireInv, NEW m, NEW qos, NEW ids, Publishes(m, qos, ids)
    PROVE  WireInv'
  <1>1. /\ m \in Message /\ m = published + 1 /\ published' = m /\ m \in Nat
        /\ \A i \in InFlight : publications'[i] = publications[i]
        /\ InFlight' = InFlight \cup ids /\ InFlight' \subseteq PacketId
        /\ \A i \in ids : i \notin Used
        /\ UNCHANGED <<sender, fromClient, awaitingRel, delivered>>
    BY Types DEF Publishes
  <1>2. \A l \in Message :
           /\ l # m => grantedQoS'[l] = grantedQoS[l] /\ outcome'[l] = outcome[l]
           /\ l = m => grantedQoS'[l] = qos
                       /\ (ids # {} => outcome'[l] = "in_flight")
                       /\ (ids = {} => outcome'[l] = outcome[l])
    BY DEF Publishes, TypeOK
  <1>3. /\ delivered[m] = 0 /\ outcome[m] = "unknown"
        /\ \A l \in Message : l > m => l > published
        /\ \A l \in Message : l <= published => l # m /\ l <= m
    BY <1>1, Types DEF WireInv, MessageInv
  <1>4. PICK last \in Nat :
           /\ \A i \in Positions(toClient) :
                 i \in Positions(toClient') /\ i < last /\ toClient'[i] = toClient[i]
           /\ \A i \in Positions(toClient') :
                 \/ i \in Positions(toClient)
                 \/ /\ i = last /\ toClient'[i].type = "PUBLISH"
                    /\ toClient'[i].qos = qos /\ toClient'[i].message = m
                    /\ toClient'[i].id \in PacketId
                    /\ ids = {toClient'[i].id} \/ (ids = {} /\ qos = "AT_MOST_ONCE")
    <2>1. CASE UNCHANGED toClient
      <3>1. /\ \A i \in Positions(toClient) : i < Len(toClient) + 1
            /\ Len(toClient) + 1 \in Nat
        BY Types DEF Positions
      <3> QED
        BY <2>1, <3>1
    <2>2. CASE \E id \in PacketId, dup \in BOOLEAN :
                  /\ send(Publish(id, qos, dup, m))
                  /\ ids = {id} \/ (ids = {} /\ id = 0 /\ qos = "AT_MOST_ONCE")
      <3>1. PICK id \in PacketId, dup \in BOOLEAN :
                  /\ send(Publish(id, qos, dup, m))
                  /\ ids = {id} \/ (ids = {} /\ id = 0 /\ qos = "AT_MOST_ONCE")
        BY <2>2
      <3>2. qos \in {"AT_MOST_ONCE", "AT_LEAST_ONCE", "EXACTLY_ONCE"}
        BY <3>1 DEF Publishes
      <3>3. PICK pkt \in ServerPacket :
               /\ send(pkt) /\ pkt.type = "PUBLISH" /\ pkt.id = id /\ pkt.qos = qos
               /\ pkt.message = m
        BY <1>1, <3>1, <3>2, PacketType DEF Publish, QoS
      <3> QED
        BY <3>1, <3>3, SentAt, Types
    <2> QED
      BY <2>1, <2>2 DEF Publishes
  <1>5. /\ \A i \in Positions(toClient'), k \in PacketId : PublishAt(i, k)' =>
                \/ i \in Positions(toClient) /\ PublishAt(i, k)
                \/ i = last /\ k \in ids /\ ids = {k} /\ toClient'[i].message = m
        /\ \A i \in Positions(toClient), k \in PacketId : PublishAt(i, k) => PublishAt(i, k)'
        /\ \A i \in Positions(toClient'), k \in PacketId : PubrelAt(i, k)' =>
                i \in Positions(toClient) /\ PubrelAt(i, k)
    BY <1>4 DEF PublishAt, PubrelAt
  <1>6. /\ \A i \in Positions(toClient), k \in PacketId :
              PublishAt(i, k) \/ PubrelAt(i, k) => k \notin ids
        /\ \A i \in Positions(fromClient) : fromClient[i].id \notin ids
        /\ \A k \in InFlight \cup awaitingRel : k \notin ids
    BY <1>1 DEF WireInv, IdentifierInv
  <1>7. \A k \in InFlight : /\ k \in PacketId
                            /\ publications[k].message \in Message
                            /\ publications[k].message <= published
                            /\ Level(k)' = Level(k)
    BY <1>1, Types DEF ResendInv, Level
  <1>8. \A k \in ids : /\ ids = {k} /\ qos \in {"AT_LEAST_ONCE", "EXACTLY_ONCE"}
                       /\ publications'[k].message = m
                       /\ publications'[k].state \in {"waiting_for_ack", "waiting_for_rec"}
                       /\ Level(k)' = qos
    BY DEF Publishes, Level
  <1>9. \A i \in Positions(toClient) : toClient[i].type = "PUBLISH" =>
            toClient[i].message \in Message /\ toClient[i].message <= published
            /\ toClient[i].message # m
    BY <1>3, Types DEF WireInv, MessageInv
  <1>10. IdentifierInv'
    <2>1. Used \cup ids \subseteq Used' /\ next_packet_identifier' <= published'
      BY DEF Publishes
    <2>2. \A i \in Positions(toClient'), k \in PacketId :
             (PublishAt(i, k)' \/ PubrelAt(i, k)') => k \in Used'
      BY <1>5, <2>1 DEF WireInv, IdentifierInv
    <2>3. InFlight' \cup awaitingRel' \subseteq Used'
      BY <1>1, <2>1 DEF WireInv, IdentifierInv
    <2>4. \A i \in Positions(fromClient') : fromClient'[i].id \in Used'
      BY <1>1, <2>1 DEF WireInv, IdentifierInv
    <2> QED
      BY <2>1, <2>2, <2>3, <2>4 DEF IdentifierInv, Positions
  <1>11. MessageInv'
    <2>1. \A l \in Message : l > published' => delivered'[l] = 0 /\ outcome'[l] = "unknown"
      <3>1. \A l \in Message : l > m => l # m
        BY <1>1, Types
      <3> QED
        BY <1>1, <1>2, <1>3, <3>1 DEF WireInv, MessageInv
    <2>2. \A k \in InFlight' : /\ outcome'[publications'[k].message] = "in_flight"
                               /\ grantedQoS'[publications'[k].message] = Level(k)'
      <3>1. \A k \in InFlight : /\ outcome'[publications'[k].message] = "in_flight"
                                /\ grantedQoS'[publications'[k].message] = Level(k)'
        BY <1>1, <1>2, <1>3, <1>7 DEF WireInv, MessageInv
      <3>2. \A k \in ids : /\ outcome'[publications'[k].message] = "in_flight"
                           /\ grantedQoS'[publications'[k].message] = Level(k)'
        BY <1>1, <1>2, <1>8
      <3> QED
        BY <1>1, <3>1, <3>2
    <2>3. \A i \in Positions(toClient') : toClient'[i].type = "PUBLISH" =>
             /\ toClient'[i].message <= published'
             /\ toClient'[i].qos = grantedQoS'[toClient'[i].message]
             /\ IF toClient'[i].qos = "AT_MOST_ONCE" THEN ~Taken(toClient'[i].message)
                ELSE outcome'[toClient'[i].message] # "unknown"
      <3> SUFFICES ASSUME NEW i \in Positions(toClient'), toClient'[i].type = "PUBLISH"
                   PROVE  /\ toClient'[i].message <= published'
                          /\ toClient'[i].qos = grantedQoS'[toClient'[i].message]
                          /\ IF toClient'[i].qos = "AT_MOST_ONCE"
                             THEN ~Taken(toClient'[i].message)
                             ELSE outcome'[toClient'[i].message] # "unknown"
        OBVIOUS
      <3>1. CASE i \in Positions(toClient)
        <4>1. toClient'[i] = toClient[i] /\ toClient[i].type = "PUBLISH"
          BY <1>4, <3>1
        <4>2. /\ toClient[i].message <= published
              /\ toClient[i].qos = grantedQoS[toClient[i].message]
              /\ IF toClient[i].qos = "AT_MOST_ONCE" THEN ~Taken(toClient[i].message)
                 ELSE outcome[toClient[i].message] # "unknown"
          BY <3>1, <4>1 DEF WireInv, MessageInv
        <4>3. /\ toClient[i].message <= m
              /\ grantedQoS'[toClient[i].message] = grantedQoS[toClient[i].message]
              /\ outcome'[toClient[i].message] = outcome[toClient[i].message]
          BY <1>2, <1>3, <1>9, <3>1, <4>1
        <4> QED
          BY <1>1, <4>1, <4>2, <4>3
      <3>2. CASE i \notin Positions(toClient)
        <4>1. /\ toClient'[i].qos = qos /\ toClient'[i].message = m
              /\ ids # {} \/ qos = "AT_MOST_ONCE"
          BY <1>4, <3>2
        <4>2. ~Taken(m)
          BY <1>3 DEF Taken
        <4> QED
          BY <1>1, <1>2, <4>1, <4>2
      <3> QED
        BY <3>1, <3>2
    <2>4. \A i, j \in Positions(toClient') :
             (/\ toClient'[i].type = "PUBLISH" /\ toClient'[j].type = "PUBLISH"
              /\ toClient'[i].message = toClient'[j].message) =>
                 /\ toClient'[i].id = toClient'[j].id
                 /\ toClient'[i].qos = "AT_MOST_ONCE" => i = j
      BY <1>4, <1>9 DEF WireInv, MessageInv
    <2> QED
      BY <1>1, <2>1, <2>2, <2>3, <2>4 DEF MessageInv, Positions, Taken
  <1>12. CarrierInv'
    <2>1. \A k \in PacketId, i, j \in Positions(toClient') :
             PublishAt(i, k)' /\ PublishAt(j, k)' => toClient'[i].message = toClient'[j].message
      BY <1>4, <1>5, <1>6 DEF WireInv, CarrierInv
    <2>2. \A i \in Positions(toClient'), k \in InFlight' :
             PublishAt(i, k)' => toClient'[i].message = publications'[k].message
      BY <1>1, <1>4, <1>5, <1>6, <1>8 DEF WireInv, CarrierInv
    <2>3. \A i \in Positions(toClient'), k \in InFlight' :
             (toClient'[i].type = "PUBLISH"
              /\ toClient'[i].message = publications'[k].message) => toClient'[i].id = k
      BY <1>1, <1>3, <1>4, <1>7, <1>8, <1>9 DEF WireInv, CarrierInv
    <2>4. \A i \in Positions(toClient'), k \in InFlight' :
             PubrelAt(i, k)' => publications'[k].state = "waiting_for_comp"
      BY <1>1, <1>5, <1>6 DEF WireInv, CarrierInv
    <2>5. \A i \in Positions(fromClient'), k \in InFlight' : fromClient'[i].id = k =>
             /\ fromClient'[i].type = "PUBACK" <=> publications'[k].state = "waiting_for_ack"
             /\ Taken(publications'[k].message)
      BY <1>1, <1>6 DEF WireInv, CarrierInv
    <2> QED
      BY <1>1, <2>1, <2>2, <2>3, <2>4, <2>5 DEF CarrierInv, Positions, Taken
  <1>13. OrderInv'
    <2>1. \A k \in PacketId, i, j \in Positions(toClient') :
             PublishAt(i, k)' /\ PubrelAt(j, k)' => i < j
      BY <1>5, <1>6 DEF WireInv, OrderInv
    <2>2. \A k \in PacketId, i \in Positions(toClient') :
             (PublishAt(i, k)' /\ toClient'[i].qos = "EXACTLY_ONCE") =>
                 (Taken(toClient'[i].message) <=> k \in awaitingRel')
      <3>1. ~Taken(m)
        BY <1>3 DEF Taken
      <3> QED
        BY <1>1, <1>4, <1>5, <1>6, <3>1 DEF WireInv, OrderInv
    <2>3. \A k \in InFlight' : publications'[k].state = "waiting_for_rec" =>
             (Taken(publications'[k].message) <=> k \in awaitingRel')
      <3>1. ~Taken(m)
        BY <1>3 DEF Taken
      <3> QED
        BY <1>1, <1>6, <1>8, <3>1 DEF WireInv, OrderInv
    <2>4. \A k \in InFlight' :
             (\/ publications'[k].state = "waiting_for_comp" /\ sender' = "open"
              \/ \E i \in Positions(toClient') : PubrelAt(i, k)') =>
                 \/ Taken(publications'[k].message)
                 \/ \E i \in Positions(toClient') : PublishAt(i, k)'
      <3>1. \A k \in InFlight :
               (\/ publications'[k].state = "waiting_for_comp" /\ sender' = "open"
                \/ \E i \in Positions(toClient') : PubrelAt(i, k)') =>
                   \/ Taken(publications'[k].message)
                   \/ \E i \in Positions(toClient') : PublishAt(i, k)'
        BY <1>1, <1>4, <1>5, <1>7 DEF WireInv, OrderInv
      <3>2. \A k \in ids : /\ publications'[k].state # "waiting_for_comp"
                           /\ ~\E i \in Positions(toClient') : PubrelAt(i, k)'
        BY <1>1, <1>5, <1>6, <1>8
      <3> QED
        BY <1>1, <3>1, <3>2
    <2> QED
      BY <1>1, <2>1, <2>2, <2>3, <2>4 DEF OrderInv, Positions, Taken
  <1> QED
    BY <1>10, <1>11, <1>12, <1>13 DEF WireInv
-----------------------------------------------------------------------------
(* The client                                                               *)

\* A PUBLISH that is new to the client.
IsTaken(p) == p.type = "PUBLISH" /\ (p.qos = "EXACTLY_ONCE" => p.id \notin awaitingRel)

Tracked(p) == p.type = "PUBLISH" /\ p.qos # "AT_MOST_ONCE"

AnswerTo(p) ==
    IF p.type = "PUBREL" THEN "PUBCOMP"
    ELSE IF p.qos = "EXACTLY_ONCE" THEN "PUBREC" ELSE "PUBACK"

\* The client takes packet p off its connection and answers it.
Receives(p) ==
    /\ p \in ServerPacket
    /\ 1 \in Positions(toClient) /\ toClient[1] = p
    /\ \A i \in Positions(toClient') :
          i + 1 \in Positions(toClient) /\ toClient'[i] = toClient[i + 1]
    /\ \A i \in Positions(toClient) :
          i = 1 \/ (i - 1 \in Positions(toClient') /\ toClient'[i - 1] = toClient[i])
    /\ \A i \in Positions(fromClient') :
          \/ \E j \in Positions(fromClient) : fromClient'[i] = fromClient[j]
          \/ /\ p.type = "PUBREL" \/ Tracked(p)
             /\ fromClient'[i].id = p.id /\ fromClient'[i].type = AnswerTo(p)
    /\ awaitingRel' = IF p.type = "PUBREL" THEN awaitingRel \ {p.id}
                      ELSE IF p.qos = "EXACTLY_ONCE" THEN awaitingRel \cup {p.id}
                      ELSE awaitingRel
    /\ delivered' = IF IsTaken(p) THEN [delivered EXCEPT ![p.message] = @ + 1] ELSE delivered
    /\ UNCHANGED <<serverVars, published, grantedQoS, outcome>>

LEMMA ReceivesCases ==
    ASSUME TypeOK, client_receives
    PROVE  \E p : Receives(p)
  <1>1. PICK p : p = Head(toClient)
    OBVIOUS
  <1>2. toClient \in Seq(ServerPacket) /\ toClient # <<>> /\ toClient' = Tail(toClient)
    BY DEF client_receives, TypeOK
  <1>3. /\ p \in ServerPacket /\ 1 \in Positions(toClient) /\ toClient[1] = p
        /\ \A i \in Positions(Tail(toClient)) :
              i + 1 \in Positions(toClient) /\ Tail(toClient)[i] = toClient[i + 1]
        /\ \A i \in Positions(toClient) :
              i = 1 \/ (i - 1 \in Positions(Tail(toClient))
                        /\ Tail(toClient)[i - 1] = toClient[i])
    BY <1>1, <1>2, TailAt
  <1>4. UNCHANGED <<serverVars, published, grantedQoS, outcome>>
    BY DEF client_receives
  <1>5. /\ p.id \in PacketId /\ p.type \in {"PUBLISH", "PUBREL"}
        /\ p.type = "PUBLISH" => p.qos \in {"AT_MOST_ONCE", "AT_LEAST_ONCE", "EXACTLY_ONCE"}
    BY <1>3, Types
  <1>6. \/ /\ p.type = "PUBREL"
           /\ awaitingRel' = awaitingRel \ {p.id} /\ delivered' = delivered
           /\ fromClient' = Append(fromClient, Ack(AnswerTo(p), p.id))
        \/ /\ p.type = "PUBLISH" /\ p.qos = "EXACTLY_ONCE"
           /\ awaitingRel' = awaitingRel \cup {p.id}
           /\ delivered' = IF p.id \in awaitingRel THEN delivered
                           ELSE [delivered EXCEPT ![p.message] = @ + 1]
           /\ fromClient' = Append(fromClient, Ack(AnswerTo(p), p.id))
        \/ /\ p.type = "PUBLISH" /\ p.qos = "AT_LEAST_ONCE"
           /\ awaitingRel' = awaitingRel
           /\ delivered' = [delivered EXCEPT ![p.message] = @ + 1]
           /\ fromClient' = Append(fromClient, Ack(AnswerTo(p), p.id))
        \/ /\ p.type = "PUBLISH" /\ p.qos = "AT_MOST_ONCE"
           /\ awaitingRel' = awaitingRel /\ fromClient' = fromClient
           /\ delivered' = [delivered EXCEPT ![p.message] = @ + 1]
    BY <1>1 DEF client_receives, AnswerTo
  <1>7. ASSUME fromClient' = Append(fromClient, Ack(AnswerTo(p), p.id))
        PROVE  \A i \in Positions(fromClient') :
                  \/ \E j \in Positions(fromClient) : fromClient'[i] = fromClient[j]
                  \/ fromClient'[i].id = p.id /\ fromClient'[i].type = AnswerTo(p)
    <2>1. PICK a \in AckPacket : a = Ack(AnswerTo(p), p.id)
      <3>1. AnswerTo(p) \in {"PUBACK", "PUBREC", "PUBCOMP"}
        BY DEF AnswerTo
      <3> QED
        BY <1>5, <3>1, PacketType
    <2>2. a.id = p.id /\ a.type = AnswerTo(p)
      BY <2>1 DEF Ack
    <2>3. /\ \A i \in Positions(Append(fromClient, a)) :
                i \in Positions(fromClient) \/ i = Len(fromClient) + 1
          /\ Append(fromClient, a)[Len(fromClient) + 1] = a
          /\ \A i \in Positions(fromClient) : Append(fromClient, a)[i] = fromClient[i]
      <3>1. fromClient \in Seq(AckPacket)
        BY Types
      <3>2. /\ \A i \in Positions(fromClient) :
                  /\ i \in Positions(Append(fromClient, a)) /\ i < Len(fromClient) + 1
                  /\ Append(fromClient, a)[i] = fromClient[i]
            /\ \A i \in Positions(Append(fromClient, a)) :
                  i \in Positions(fromClient) \/ i = Len(fromClient) + 1
            /\ Len(fromClient) + 1 \in Positions(Append(fromClient, a))
            /\ Append(fromClient, a)[Len(fromClient) + 1] = a
        BY <3>1 DEF Positions
      <3> QED
        BY <3>2
    <2> QED
      BY <1>7, <2>1, <2>2, <2>3
  <1>8. \A i \in Positions(fromClient') :
           \/ \E j \in Positions(fromClient) : fromClient'[i] = fromClient[j]
           \/ /\ p.type = "PUBREL" \/ Tracked(p)
              /\ fromClient'[i].id = p.id /\ fromClient'[i].type = AnswerTo(p)
    <2>1. CASE fromClient' = fromClient
      BY <2>1
    <2>2. CASE /\ fromClient' = Append(fromClient, Ack(AnswerTo(p), p.id))
               /\ p.type = "PUBREL" \/ Tracked(p)
      BY <1>7, <2>2
    <2> QED
      BY <1>6, <2>1, <2>2 DEF Tracked
  <1>9. /\ awaitingRel' = IF p.type = "PUBREL" THEN awaitingRel \ {p.id}
                          ELSE IF p.qos = "EXACTLY_ONCE" THEN awaitingRel \cup {p.id}
                          ELSE awaitingRel
        /\ delivered' = IF IsTaken(p) THEN [delivered EXCEPT ![p.message] = @ + 1]
                        ELSE delivered
    BY <1>6 DEF IsTaken
  <1>10. Receives(p)
    BY <1>2, <1>3, <1>4, <1>8, <1>9 DEF Receives
  <1> QED
    BY <1>10

LEMMA ReceivesInv ==
    ASSUME TypeOK, WireInv, NEW p, Receives(p)
    PROVE  WireInv'
  <1>1. /\ p \in ServerPacket /\ p.id \in PacketId /\ p.type \in {"PUBLISH", "PUBREL"}
        /\ p.type = "PUBLISH" =>
              /\ p.message \in Message /\ p.message <= published
              /\ p.qos \in {"AT_MOST_ONCE", "AT_LEAST_ONCE", "EXACTLY_ONCE"}
              /\ p.qos = grantedQoS[p.message]
        /\ 1 \in Positions(toClient) /\ toClient[1] = p
    BY Types DEF Receives, WireInv, MessageInv
  <1>2. \A i \in Positions(toClient') :
           i \in Nat \ {0} /\ i + 1 \in Positions(toClient) /\ toClient'[i] = toClient[i + 1]
    BY DEF Receives, Positions
  <1>3. \A i \in Positions(toClient) : /\ i \in Nat
                                       /\ \/ i = 1
                                          \/ /\ i - 1 \in Positions(toClient')
                                             /\ toClient'[i - 1] = toClient[i]
    BY DEF Receives, Positions
  <1>4. /\ UNCHANGED <<publications, next_packet_identifier, sender, published, grantedQoS,
                       outcome>>
        /\ InFlight' = InFlight /\ Used' = Used
        /\ \A k : Level(k)' = Level(k)
    BY DEF Receives, serverVars, InFlight, Used, Level
  <1>5. \A k \in InFlight : /\ k \in PacketId /\ publications[k].message \in Message
                            /\ publications[k].state \in WaitingState
    BY Types
  <1>6. /\ \A i \in Positions(toClient'), k \in PacketId :
              /\ PublishAt(i, k)' <=> PublishAt(i + 1, k)
              /\ PubrelAt(i, k)' <=> PubrelAt(i + 1, k)
        /\ PublishAt(1, p.id) <=> Tracked(p)
        /\ PubrelAt(1, p.id) <=> p.type = "PUBREL"
    BY <1>1, <1>2 DEF PublishAt, PubrelAt, Tracked
  <1>7. p.type = "PUBLISH" /\ p.qos = "EXACTLY_ONCE" =>
            (Taken(p.message) <=> p.id \in awaitingRel)
    BY <1>1, <1>6 DEF WireInv, OrderInv, Tracked
  <1>8. \A l \in Message : Taken(l)' <=> Taken(l) \/ (p.type = "PUBLISH" /\ l = p.message)
    <2>1. \A l \in Message : delivered[l] \in Nat
      BY Types
    <2>2. CASE IsTaken(p)
      <3>1. \A l \in Message :
               delivered'[l] = IF l = p.message THEN delivered[l] + 1 ELSE delivered[l]
        BY <2>2 DEF Receives, TypeOK
      <3> QED
        BY <2>1, <2>2, <3>1 DEF Taken, IsTaken
    <2>3. CASE ~IsTaken(p)
      BY <1>7, <2>3 DEF Receives, Taken, IsTaken
    <2> QED
      BY <2>2, <2>3
  <1>9. \A m \in Message : m > published => delivered'[m] = 0
    <2>1. IsTaken(p) => ~(p.message > published)
      BY <1>1, Types DEF IsTaken
    <2>2. \A m \in Message : m > published => delivered[m] = 0
      BY DEF WireInv, MessageInv
    <2>3. CASE IsTaken(p)
      <3>1. \A m \in Message : m # p.message => delivered'[m] = delivered[m]
        BY <2>3 DEF Receives, TypeOK
      <3> QED
        BY <2>1, <2>2, <2>3, <3>1
    <2>4. CASE ~IsTaken(p)
      BY <2>2, <2>4 DEF Receives
    <2> QED
      BY <2>3, <2>4
  <1>10. awaitingRel' = IF p.type = "PUBREL" THEN awaitingRel \ {p.id}
                        ELSE IF p.qos = "EXACTLY_ONCE" THEN awaitingRel \cup {p.id}
                        ELSE awaitingRel
    BY DEF Receives
  <1>11. p.type = "PUBREL" \/ Tracked(p) => p.id \in Used
    BY <1>1, <1>6 DEF WireInv, IdentifierInv
  <1>12. \A i \in Positions(toClient'), k \in PacketId :
            PublishAt(i, k)' => /\ toClient'[i].message \in Message
                                /\ ~(p.type = "PUBREL" /\ k = p.id)
                                /\ Tracked(p) /\ k = p.id =>
                                       toClient'[i].message = p.message
    <2>1. \A i \in Positions(toClient'), k \in PacketId :
             PublishAt(i, k)' => toClient'[i].message \in Message
      BY <1>2, <1>6, Types DEF PublishAt
    <2>2. \A i \in Positions(toClient') : ~(i + 1 < 1)
      BY <1>2
    <2> QED
      BY <1>1, <1>2, <1>6, <2>1, <2>2 DEF WireInv, CarrierInv, OrderInv
  <1>13. IdentifierInv'
    <2>1. \A i \in Positions(toClient'), k \in PacketId :
             (PublishAt(i, k)' \/ PubrelAt(i, k)') => k \in Used
      BY <1>2, <1>6 DEF WireInv, IdentifierInv
    <2>2. \A i \in Positions(fromClient') : fromClient'[i].id \in Used
      BY <1>11 DEF Receives, WireInv, IdentifierInv
    <2>3. InFlight' \cup awaitingRel' \subseteq Used'
      <3>1. p.type = "PUBLISH" /\ p.qos = "EXACTLY_ONCE" => p.id \in Used
        BY <1>11 DEF Tracked
      <3> QED
        BY <1>1, <1>4, <1>10, <3>1 DEF WireInv, IdentifierInv
    <2> QED
      BY <1>4, <2>1, <2>2, <2>3 DEF WireInv, IdentifierInv, Positions
  <1>14. MessageInv'
    <2>1. \A k \in InFlight' : /\ outcome'[publications'[k].message] = "in_flight"
                               /\ grantedQoS'[publications'[k].message] = Level(k)'
      BY <1>4 DEF WireInv, MessageInv
    <2>2. \A i \in Positions(toClient') : toClient'[i].type = "PUBLISH" =>
             /\ toClient'[i].message <= published'
             /\ toClient'[i].qos = grantedQoS'[toClient'[i].message]
             /\ IF toClient'[i].qos = "AT_MOST_ONCE" THEN ~(delivered'[toClient'[i].message] > 0)
                ELSE outcome'[toClient'[i].message] # "unknown"
      <3> SUFFICES ASSUME NEW i \in Positions(toClient'), toClient'[i].type = "PUBLISH"
                   PROVE  /\ toClient'[i].message <= published'
                          /\ toClient'[i].qos = grantedQoS'[toClient'[i].message]
                          /\ IF toClient'[i].qos = "AT_MOST_ONCE"
                             THEN ~(delivered'[toClient'[i].message] > 0)
                             ELSE outcome'[toClient'[i].message] # "unknown"
        OBVIOUS
      <3>1. PICK j \in Positions(toClient) : j = i + 1
        BY <1>2
      <3>2. /\ j # 1 /\ toClient'[i] = toClient[j] /\ toClient[j].type = "PUBLISH"
            /\ toClient[j].message \in Message
        <4>1. j # 1 /\ toClient'[i] = toClient[j]
          <5>1. i \in Nat \ {0} /\ toClient'[i] = toClient[i + 1]
            BY <1>2
          <5> QED
            BY <3>1, <5>1
        <4>2. toClient[j].type = "PUBLISH"
          BY <4>1
        <4> QED
          BY <4>1, <4>2, Types
      <3>3. PICK l \in Message : l = toClient[j].message
        BY <3>2
      <3>4. /\ l <= published /\ toClient[j].qos = grantedQoS[l]
            /\ IF toClient[j].qos = "AT_MOST_ONCE" THEN ~Taken(l)
               ELSE outcome[l] # "unknown"
        BY <3>2, <3>3 DEF WireInv, MessageInv
      <3>5. toClient[j].qos = "AT_MOST_ONCE" => ~(p.type = "PUBLISH" /\ l = p.message)
        BY <1>1, <3>2, <3>3 DEF WireInv, MessageInv
      <3>6. toClient[j].qos = "AT_MOST_ONCE" => ~(delivered'[l] > 0)
        BY <1>8, <3>4, <3>5 DEF Taken
      <3> QED
        BY <1>4, <3>2, <3>3, <3>4, <3>6
    <2>3. \A i, j \in Positions(toClient') :
             (/\ toClient'[i].type = "PUBLISH" /\ toClient'[j].type = "PUBLISH"
              /\ toClient'[i].message = toClient'[j].message) =>
                 /\ toClient'[i].id = toClient'[j].id
                 /\ toClient'[i].qos = "AT_MOST_ONCE" => i = j
      <3>1. \A i, j \in Positions(toClient') : i + 1 = j + 1 => i = j
        BY <1>2
      <3> QED
        BY <1>2, <3>1 DEF WireInv, MessageInv
    <2>4. \A l \in Message : l > published' => delivered'[l] = 0 /\ outcome'[l] = "unknown"
      BY <1>4, <1>9 DEF WireInv, MessageInv
    <2> QED
      BY <2>1, <2>2, <2>3, <2>4 DEF MessageInv, Positions, Taken
  <1>15. CarrierInv'
    <2>1. \A k \in PacketId, i, j \in Positions(toClient') :
             PublishAt(i, k)' /\ PublishAt(j, k)' => toClient'[i].message = toClient'[j].message
      BY <1>2, <1>6 DEF WireInv, CarrierInv
    <2>2. \A i \in Positions(toClient'), k \in InFlight' :
             /\ PublishAt(i, k)' => toClient'[i].message = publications'[k].message
             /\ (toClient'[i].type = "PUBLISH"
                 /\ toClient'[i].message = publications'[k].message) => toClient'[i].id = k
             /\ PubrelAt(i, k)' => publications'[k].state = "waiting_for_comp"
      BY <1>2, <1>4, <1>5, <1>6 DEF WireInv, CarrierInv
    <2>3. \A i \in Positions(fromClient'), k \in InFlight' : fromClient'[i].id = k =>
             /\ fromClient'[i].type = "PUBACK" <=> publications'[k].state = "waiting_for_ack"
             /\ delivered'[publications'[k].message] > 0
      <3> SUFFICES ASSUME NEW i \in Positions(fromClient'), NEW k \in InFlight,
                          fromClient'[i].id = k
                   PROVE  /\ fromClient'[i].type = "PUBACK" <=>
                                 publications[k].state = "waiting_for_ack"
                          /\ delivered'[publications[k].message] > 0
        BY <1>4
      <3>1. CASE \E j \in Positions(fromClient) : fromClient'[i] = fromClient[j]
        <4>1. /\ fromClient'[i].type = "PUBACK" <=> publications[k].state = "waiting_for_ack"
              /\ Taken(publications[k].message)
          BY <3>1 DEF WireInv, CarrierInv
        <4> QED
          BY <1>5, <1>8, <4>1 DEF Taken
      <3>2. CASE p.type = "PUBREL" /\ fromClient'[i].id = p.id
                 /\ fromClient'[i].type = AnswerTo(p)
        <4>1. publications[k].state = "waiting_for_comp"
          BY <1>1, <1>6, <3>2 DEF WireInv, CarrierInv
        <4>2. \A j \in Positions(toClient) : ~PublishAt(j, k)
          <5>1. \A j \in Positions(toClient) : ~(j < 1)
            BY <1>3 DEF Positions
          <5> QED
            BY <1>1, <1>6, <3>2, <5>1 DEF WireInv, OrderInv
        <4>3. Taken(publications[k].message)
          BY <1>1, <1>6, <3>2, <4>2 DEF WireInv, OrderInv
        <4> QED
          BY <1>5, <1>8, <3>2, <4>1, <4>3 DEF AnswerTo, Taken
      <3>3. CASE Tracked(p) /\ fromClient'[i].id = p.id /\ fromClient'[i].type = AnswerTo(p)
        <4>1. p.message = publications[k].message
          BY <1>1, <1>6, <3>3 DEF WireInv, CarrierInv
        <4>2. p.qos = Level(k)
          BY <1>1, <3>3, <4>1 DEF WireInv, MessageInv, Tracked
        <4> QED
          BY <1>5, <1>8, <3>3, <4>1, <4>2 DEF AnswerTo, Taken, Tracked, Level
      <3> QED
        BY <3>1, <3>2, <3>3 DEF Receives
    <2> QED
      BY <1>4, <2>1, <2>2, <2>3 DEF CarrierInv, Positions, Taken
  <1>16. OrderInv'
    <2>1. \A k \in PacketId, i, j \in Positions(toClient') :
             PublishAt(i, k)' /\ PubrelAt(j, k)' => i < j
      <3>1. \A i, j \in Positions(toClient') : i + 1 < j + 1 => i < j
        BY <1>2
      <3> QED
        BY <1>2, <1>6, <3>1 DEF WireInv, OrderInv
    <2>2. \A k \in PacketId, i \in Positions(toClient') :
             (PublishAt(i, k)' /\ toClient'[i].qos = "EXACTLY_ONCE") =>
                 (delivered'[toClient'[i].message] > 0 <=> k \in awaitingRel')
      <3> SUFFICES ASSUME NEW k \in PacketId, NEW i \in Positions(toClient'),
                          PublishAt(i, k)', toClient'[i].qos = "EXACTLY_ONCE"
                   PROVE  delivered'[toClient'[i].message] > 0 <=> k \in awaitingRel'
        OBVIOUS
      <3>1. /\ i + 1 \in Positions(toClient) /\ toClient'[i] = toClient[i + 1]
            /\ PublishAt(i + 1, k)
        BY <1>2, <1>6
      <3>2. Taken(toClient'[i].message) <=> k \in awaitingRel
        BY <3>1 DEF WireInv, OrderInv
      <3>3. p.type = "PUBLISH" /\ toClient'[i].message = p.message =>
                p.id = k /\ p.qos = "EXACTLY_ONCE"
        <4>1. /\ toClient[i + 1].type = "PUBLISH" /\ toClient[i + 1].id = k
              /\ toClient[i + 1].qos = grantedQoS[toClient[i + 1].message]
          BY <3>1 DEF PublishAt, WireInv, MessageInv
        <4>2. p.type = "PUBLISH" /\ toClient[i + 1].message = p.message => p.id = k
          BY <1>1, <3>1, <4>1 DEF WireInv, MessageInv
        <4> QED
          BY <1>1, <3>1, <4>1, <4>2
      <3>4. /\ toClient'[i].message \in Message
            /\ ~(p.type = "PUBREL" /\ k = p.id)
            /\ Tracked(p) /\ k = p.id => toClient'[i].message = p.message
        BY <1>12
      <3>5. delivered'[toClient'[i].message] > 0 <=>
                \/ Taken(toClient'[i].message)
                \/ p.type = "PUBLISH" /\ toClient'[i].message = p.message
        BY <1>8, <3>4 DEF Taken
      <3> QED
        BY <1>1, <1>10, <3>2, <3>3, <3>4, <3>5 DEF Tracked
    <2>3. \A k \in InFlight' : publications'[k].state = "waiting_for_rec" =>
             (delivered'[publications'[k].message] > 0 <=> k \in awaitingRel')
      <3> SUFFICES ASSUME NEW k \in InFlight, publications[k].state = "waiting_for_rec"
                   PROVE  delivered'[publications[k].message] > 0 <=> k \in awaitingRel'
        BY <1>4
      <3>1. Taken(publications[k].message) <=> k \in awaitingRel
        BY DEF WireInv, OrderInv
      <3>2. /\ ~(p.type = "PUBREL" /\ k = p.id)
            /\ Tracked(p) /\ k = p.id => p.message = publications[k].message
            /\ p.type = "PUBLISH" /\ p.message = publications[k].message => p.id = k
        BY <1>1, <1>6 DEF WireInv, CarrierInv
      <3>3. grantedQoS[publications[k].message] = "EXACTLY_ONCE"
        BY DEF Level, WireInv, MessageInv
      <3>4. delivered'[publications[k].message] > 0 <=>
                \/ Taken(publications[k].message)
                \/ p.type = "PUBLISH" /\ publications[k].message = p.message
        BY <1>5, <1>8 DEF Taken
      <3> QED
        BY <1>1, <1>10, <3>1, <3>2, <3>3, <3>4 DEF Tracked
    <2>4. \A k \in InFlight' :
             (\/ publications'[k].state = "waiting_for_comp" /\ sender' = "open"
              \/ \E i \in Positions(toClient') : PubrelAt(i, k)') =>
                 \/ delivered'[publications'[k].message] > 0
                 \/ \E i \in Positions(toClient') : PublishAt(i, k)'
      <3> SUFFICES ASSUME NEW k \in InFlight,
                          \/ publications[k].state = "waiting_for_comp" /\ sender = "open"
                          \/ \E i \in Positions(toClient') : PubrelAt(i, k)'
                   PROVE  \/ delivered'[publications[k].message] > 0
                          \/ \E i \in Positions(toClient') : PublishAt(i, k)'
        BY <1>4
      <3>1. \/ Taken(publications[k].message)
            \/ \E i \in Positions(toClient) : PublishAt(i, k)
        BY <1>2, <1>5, <1>6 DEF WireInv, OrderInv
      <3>2. CASE Taken(publications[k].message)
        BY <1>5, <1>8, <3>2 DEF Taken
      <3>3. CASE PublishAt(1, k)
        <4>1. p.type = "PUBLISH" /\ publications[k].message = p.message
          BY <1>1, <3>3 DEF PublishAt, WireInv, CarrierInv
        <4> QED
          BY <1>5, <1>8, <4>1 DEF Taken
      <3>4. ASSUME NEW i \in Positions(toClient), i # 1, PublishAt(i, k)
            PROVE  \E j \in Positions(toClient') : PublishAt(j, k)'
        <4>1. i - 1 \in Positions(toClient') /\ toClient'[i - 1] = toClient[i]
          BY <1>3, <3>4
        <4>2. PICK j \in Positions(toClient') : j = i - 1
          BY <4>1
        <4> QED
          BY <3>4, <4>1, <4>2 DEF PublishAt
      <3> QED
        BY <3>1, <3>2, <3>3, <3>4
    <2> QED
      BY <2>1, <2>2, <2>3, <2>4 DEF OrderInv, Positions, Taken
  <1> QED
    BY <1>13, <1>14, <1>15, <1>16 DEF WireInv
-----------------------------------------------------------------------------
(* Every step is one of these                                               *)

\* How messages in flight come to an end.
Ends ==
    \/ UNCHANGED outcome
    \/ \E m \in Message :
          /\ outcome[m] = "in_flight" /\ Taken(m)
          /\ outcome' = [outcome EXCEPT ![m] = "completed"]
    \/ \E ms \in SUBSET Message, result \in {"terminally_failed", "discarded"} :
          /\ \A m \in ms : outcome[m] = "in_flight"
          /\ outcome' = [m \in Message |-> IF m \in ms THEN result ELSE outcome[m]]

\* The variables a step about publications in flight leaves alone.
Quiet == UNCHANGED <<awaitingRel, published, grantedQoS, delivered, next_packet_identifier>>

\* The answers under way after a step were there before.
OldAnswers ==
    \A i \in Positions(fromClient') : \E j \in Positions(fromClient) : fromClient'[i] = fromClient[j]

LEMMA StoreSettles ==
    ASSUME TypeOK, WireInv, NEW id \in InFlight, NEW p \in Publication, store(id, p),
           p.state = publications[id].state, p.message = publications[id].message,
           UNCHANGED <<toClient, outcome>>, Quiet, OldAnswers,
           sender' = "open" => sender = "open"
    PROVE  Settles /\ Ends
  <1>1. InFlight' = InFlight
    BY ConstantsAssumption, InFlightType DEF store, TypeOK, InFlight
  <1>2. \A i \in InFlight : publications'[i] = IF i = id THEN p ELSE publications[i]
    BY InFlightType DEF store, TypeOK
  <1>3. \A i \in InFlight : outcome[publications[i].message] = "in_flight"
    BY DEF WireInv, MessageInv
  <1> QED
    BY <1>1, <1>2, <1>3 DEF Settles, Ends, Quiet, OldAnswers

LEMMA IdleSettles ==
    ASSUME TypeOK, WireInv, UNCHANGED <<publications, toClient, outcome>>, Quiet, OldAnswers,
           sender' = "open" => sender = "open"
    PROVE  Settles /\ Ends
  <1>1. InFlight' = InFlight
    BY DEF InFlight
  <1>2. \A i \in InFlight : outcome[publications[i].message] = "in_flight"
    BY DEF WireInv, MessageInv
  <1> QED
    BY <1>1, <1>2 DEF Settles, Ends, Quiet, OldAnswers

LEMMA ReleaseEnds ==
    ASSUME TypeOK, ResendInv, WireInv, NEW id \in InFlight,
           NEW result \in {"completed", "terminally_failed"}, release(id, result),
           result = "completed" => Taken(publications[id].message),
           UNCHANGED <<toClient, sender>>, Quiet, OldAnswers
    PROVE  Settles /\ Ends
  <1>1. Settles
    BY ReleaseSettles DEF Quiet, OldAnswers, Outcome
  <1>2. PICK m \in Message : m = publications[id].message
    BY Types
  <1>3. outcome[m] = "in_flight" /\ outcome' = [outcome EXCEPT ![m] = result]
    BY <1>2 DEF release, WireInv, MessageInv
  <1>4. CASE result = "completed"
    BY <1>1, <1>2, <1>3, <1>4 DEF Ends
  <1>5. CASE result = "terminally_failed"
    <2>1. {m} \in SUBSET Message /\ \A l \in {m} : outcome[l] = "in_flight"
      BY <1>3
    <2>2. outcome' = [l \in Message |-> IF l \in {m} THEN "terminally_failed" ELSE outcome[l]]
      BY <1>3, <1>5 DEF TypeOK
    <2> QED
      BY <1>1, <2>1, <2>2 DEF Ends
  <1> QED
    BY <1>4, <1>5

\* The publication that replaces id in the map.
LEMMA StoredAdvances ==
    ASSUME TypeOK, NEW id \in InFlight, NEW p \in StartingPublication,
           p.message = publications[id].message, store(id, start_ack_timeout(p)),
           UNCHANGED <<sender, outcome>>, Quiet, OldAnswers
    PROVE  Advances(id, AfterStartAckTimeout(p.state))
  <1>1. PICK s : s = start_ack_timeout(p)
    OBVIOUS
  <1>2. /\ s \in Publication /\ s.message = publications[id].message
        /\ s.state = AfterStartAckTimeout(p.state)
    BY <1>1, StartAckTimeout
  <1>3. InFlight' = InFlight
    BY <1>1, <1>2, ConstantsAssumption, InFlightType DEF store, TypeOK, InFlight
  <1>4. \A i \in InFlight : publications'[i] = IF i = id THEN s ELSE publications[i]
    BY <1>1, InFlightType DEF store, TypeOK
  <1> QED
    BY <1>2, <1>3, <1>4 DEF Advances, Quiet, OldAnswers

LEMMA ResponseCases ==
    ASSUME TypeOK, ResendInv, WireInv, Running, response_received
    PROVE  Running' /\ ((Settles /\ Ends) \/ \E id : SendsPubrel(id))
  <1> DEFINE id == Head(fromClient).id
             type == Head(fromClient).type
             p == [publications[id] EXCEPT !.timer = cancelled(@)]
  <1>1. OldAnswers /\ 1 \in Positions(fromClient) /\ fromClient[1] = Head(fromClient)
    <2>1. fromClient \in Seq(AckPacket) /\ fromClient # <<>> /\ fromClient' = Tail(fromClient)
      BY DEF response_received, TypeOK
    <2>2. /\ 1 \in Positions(fromClient) /\ fromClient[1] = Head(fromClient)
          /\ \A i \in Positions(Tail(fromClient)) :
                i + 1 \in Positions(fromClient) /\ Tail(fromClient)[i] = fromClient[i + 1]
      BY <2>1, TailAt
    <2> QED
      BY <2>1, <2>2 DEF OldAnswers
  <1>2. Quiet
    BY DEF response_received, Quiet
  <1>3. type \in {"PUBACK", "PUBREC", "PUBCOMP"}
    BY <1>1, Types DEF AckPacket
  <1>4. id \in InFlight => /\ type = "PUBACK" <=> publications[id].state = "waiting_for_ack"
                           /\ Taken(publications[id].message)
    BY <1>1 DEF WireInv, CarrierInv
  <1>5. ASSUME UNCHANGED failed_assert PROVE Running'
    BY <1>5 DEF Running
  <1>6. stop => sender' # "open"
    BY DEF stop
  <1> HIDE DEF type
  <1>7. CASE UNCHANGED <<publications, sender, failed_assert, toClient, pubrelSent, outcome>>
    BY <1>1, <1>2, <1>5, <1>7, IdleSettles
  <1>8. CASE stop /\ UNCHANGED <<publications, failed_assert, toClient, pubrelSent, outcome>>
    BY <1>1, <1>2, <1>5, <1>6, <1>8, IdleSettles
  <1>9. CASE /\ id \in InFlight /\ publications[id].state = "waiting_for_ack"
             /\ qos1_response_received(id, type)
    <2>1. /\ release(id, "completed")
          /\ UNCHANGED <<sender, failed_assert, toClient, pubrelSent>>
      BY <1>4, <1>9 DEF qos1_response_received
    <2> QED
      BY <1>1, <1>2, <1>4, <1>5, <1>9, <2>1, ReleaseEnds
  <1>10. CASE /\ id \in InFlight /\ publications[id].state # "waiting_for_ack"
              /\ qos2_response_received(id, type)
    <2>1. /\ publications[id] \in Publication
          /\ p \in Publication /\ p \in StartingPublication
          /\ p.state = publications[id].state /\ p.message = publications[id].message
          /\ p.state \in {"waiting_for_rec", "waiting_for_comp"}
      BY <1>10, InFlightType
      DEF Publication, cancelled, Timer, StartingPublication, WaitingState
    <2>2. CASE /\ stop /\ store(id, p)
               /\ UNCHANGED <<failed_assert, toClient, pubrelSent, outcome>>
      BY <1>1, <1>2, <1>5, <1>6, <1>10, <2>1, <2>2, StoreSettles
    <2>3. CASE send_pubrel(id, p)
      <3>1. /\ send(Pubrel(id)) /\ store(id, start_ack_timeout(p))
            /\ UNCHANGED <<sender, failed_assert, outcome>>
        BY <2>3 DEF send_pubrel
      <3>2. Advances(id, AfterStartAckTimeout(p.state))
        BY <1>1, <1>2, <1>10, <2>1, <3>1, StoredAdvances
      <3>3. AfterStartAckTimeout(p.state) = "waiting_for_comp"
        BY <2>1 DEF AfterStartAckTimeout
      <3>4. SendsPubrel(id)
        BY <1>4, <1>10, <2>1, <3>1, <3>2, <3>3 DEF SendsPubrel
      <3> QED
        BY <1>5, <3>1, <3>4
    <2>4. CASE /\ release(id, "completed")
               /\ UNCHANGED <<sender, failed_assert, toClient, pubrelSent>>
      BY <1>1, <1>2, <1>4, <1>5, <1>10, <2>4, ReleaseEnds
    <2> QED
      BY <1>4, <1>10, <2>2, <2>3, <2>4 DEF qos2_response_received
  <1> QED
    BY <1>7, <1>8, <1>9, <1>10 DEF response_received, type

LEMMA TimerCases ==
    ASSUME TypeOK, ResendInv, WireInv, Running, NEW id \in PacketId,
           timer_expires(id) \/ ack_timeout_expired(id)
    PROVE  Running' /\ ((Settles /\ Ends) \/ Resends(id) \/ SendsPubrel(id))
  <1>1. ASSUME UNCHANGED failed_assert PROVE Running'
    BY <1>1 DEF Running
  <1>2. ASSUME UNCHANGED fromClient PROVE OldAnswers
    BY <1>2 DEF OldAnswers
  <1>3. CASE timer_expires(id)
    <2> DEFINE p == [publications[id] EXCEPT !.timer = [armed |-> FALSE, queued |-> TRUE]]
    <2>1. /\ id \in InFlight /\ store(id, p) /\ Quiet
          /\ UNCHANGED <<toClient, fromClient, outcome, sender, failed_assert>>
      BY <1>3 DEF timer_expires, channelVars, historyVars, Quiet
    <2>2. /\ p \in Publication
          /\ p.message = publications[id].message /\ p.state = publications[id].state
      BY <2>1, InFlightType DEF Publication, Timer
    <2> QED
      BY <1>1, <1>2, <2>1, <2>2, StoreSettles
  <1>4. CASE ack_timeout_expired(id)
    <2> DEFINE p == [publications[id] EXCEPT !.timer.queued = FALSE,
                                             !.retry_count = NextRetryCount(publications[id])]
               d == [p EXCEPT !.publish_dup = TRUE]
               m == publications[id].message
    <2>1. /\ id \in InFlight /\ publications[id] \in Publication
          /\ Quiet /\ UNCHANGED fromClient
      BY <1>4, InFlightType DEF ack_timeout_expired, Quiet
    <2>2. p \in Publication /\ p.message = m /\ p.state = publications[id].state
      BY <2>1, NextRetryCountType DEF Publication, Timer
    <2>3. /\ p \in StartingPublication /\ d \in StartingPublication
          /\ d.message = m /\ d.state = p.state /\ p.publish_dup \in BOOLEAN
      BY <2>2 DEF Publication, StartingPublication
    <2>4. CASE /\ p.state = "waiting_for_ack"
               /\ send(Publish(id, "AT_LEAST_ONCE", p.publish_dup, p.message))
               /\ store(id, start_ack_timeout(p))
               /\ UNCHANGED <<sender, failed_assert, pubrelSent, outcome>>
      <3>1. Advances(id, AfterStartAckTimeout(p.state))
        BY <1>2, <2>1, <2>2, <2>3, <2>4, StoredAdvances
      <3>2. AfterStartAckTimeout(p.state) = "waiting_for_ack" /\ Level(id) = "AT_LEAST_ONCE"
        BY <2>2, <2>4 DEF AfterStartAckTimeout, Level
      <3>3. Resends(id)
        BY <2>2, <2>3, <2>4, <3>1, <3>2 DEF Resends
      <3> QED
        BY <1>1, <2>4, <3>3
    <2>5. CASE /\ p.state = "waiting_for_rec"
               /\ send(Publish(id, "EXACTLY_ONCE", TRUE, p.message))
               /\ store(id, start_ack_timeout(d))
               /\ UNCHANGED <<sender, failed_assert, pubrelSent, outcome>>
      <3>1. Advances(id, AfterStartAckTimeout(d.state))
        BY <1>2, <2>1, <2>3, <2>5, StoredAdvances
      <3>2. AfterStartAckTimeout(d.state) = "waiting_for_comp" /\ Level(id) = "EXACTLY_ONCE"
        BY <2>2, <2>3, <2>5 DEF AfterStartAckTimeout, Level
      <3>3. Resends(id)
        BY <2>2, <2>5, <3>1, <3>2 DEF Resends
      <3> QED
        BY <1>1, <2>5, <3>3
    <2>6. CASE p.state = "waiting_for_comp" /\ send_pubrel(id, p)
      <3>1. /\ send(Pubrel(id)) /\ store(id, start_ack_timeout(p))
            /\ UNCHANGED <<sender, failed_assert, outcome>>
        BY <2>6 DEF send_pubrel
      <3>2. Advances(id, AfterStartAckTimeout(p.state))
        BY <1>2, <2>1, <2>2, <2>3, <3>1, StoredAdvances
      <3>3. AfterStartAckTimeout(p.state) = "waiting_for_comp"
        BY <2>6 DEF AfterStartAckTimeout
      <3>4. SendsPubrel(id)
        BY <2>2, <2>6, <3>1, <3>2, <3>3 DEF SendsPubrel
      <3> QED
        BY <1>1, <3>1, <3>4
    <2>7. CASE /\ release(id, "terminally_failed")
               /\ UNCHANGED <<sender, failed_assert, toClient, pubrelSent>>
      <3>1. Settles /\ Ends
        BY <1>2, <2>1, <2>7, ReleaseEnds
      <3> QED
        BY <1>1, <2>7, <3>1
    <2> QED
      BY <1>4, <2>4, <2>5, <2>6, <2>7 DEF ack_timeout_expired
  <1> QED
    BY <1>3, <1>4

LEMMA ConnectionCases ==
    ASSUME TypeOK, WireInv, Running,
           \/ connection_closed \/ connection_destroyed \/ session_destroyed \/ UNCHANGED vars
    PROVE  Running' /\ Settles /\ Ends
  <1>1. /\ UNCHANGED <<failed_assert, fromClient, toClient>> /\ Quiet
        /\ sender' = "open" => sender = "open"
    BY DEF connection_closed, connection_destroyed, session_destroyed, vars, serverVars,
           channelVars, historyVars, Quiet
  <1>2. Running' /\ OldAnswers
    BY <1>1 DEF Running, OldAnswers
  <1>3. CASE connection_closed \/ connection_destroyed \/ UNCHANGED vars
    <2>1. UNCHANGED <<publications, outcome>>
      BY <1>3 DEF connection_closed, connection_destroyed, vars, serverVars, historyVars
    <2> QED
      BY <1>1, <1>2, <2>1, IdleSettles
  <1>4. CASE session_destroyed
    <2>1. /\ publications' = [id \in PacketId |-> NoPublication]
          /\ outcome' = [m \in Message |->
                           IF outcome[m] = "in_flight" THEN "discarded" ELSE outcome[m]]
      BY <1>4 DEF session_destroyed
    <2>2. InFlight' = {}
      BY <2>1 DEF InFlight
    <2>3. \A m \in Message : outcome'[m] = "unknown" <=> outcome[m] = "unknown"
      BY <2>1
    <2>4. Settles
      BY <1>1, <1>2, <2>2, <2>3 DEF Settles, Quiet, OldAnswers
    <2>5. PICK ms \in SUBSET Message : ms = {m \in Message : outcome[m] = "in_flight"}
      OBVIOUS
    <2>6. /\ \A m \in ms : outcome[m] = "in_flight"
          /\ outcome' = [m \in Message |-> IF m \in ms THEN "discarded" ELSE outcome[m]]
      BY <2>1, <2>5
    <2>7. Ends
      BY <2>6 DEF Ends
    <2> QED
      BY <1>2, <2>4, <2>7
  <1> QED
    BY <1>3, <1>4

\* What a step amounts to while no identifier is used twice.
LEMMA NextCases ==
    ASSUME TypeOK, ResendInv, WireInv, Running, [Next]_vars, NoWrap'
    PROVE  /\ Running'
           /\ \/ Settles /\ Ends
              \/ \E id : Resends(id) \/ SendsPubrel(id)
              \/ \E m, ids : \E qos \in QoS : Publishes(m, qos, ids)
              \/ \E p : Receives(p)
  <1>1. CASE \E qos \in QoS, dup \in IncomingDup : publish(qos, dup)
    BY <1>1, PublishCases
  <1>2. CASE response_received
    BY <1>2, ResponseCases
  <1>3. CASE \E id \in PacketId : timer_expires(id) \/ ack_timeout_expired(id)
    BY <1>3, TimerCases
  <1>4. CASE \/ connection_closed \/ connection_destroyed \/ session_destroyed
             \/ UNCHANGED vars
    BY <1>4, ConnectionCases
  <1>5. CASE client_receives
    <2>1. Running'
      BY <1>5 DEF client_receives, serverVars, Running
    <2> QED
      BY <1>5, <2>1, ReceivesCases
  <1> QED
    BY <1>1, <1>2, <1>3, <1>4, <1>5 DEF Next

UntilWrap == NoWrap => Running /\ WireInv

\* Messages are only ever added to those published.
LEMMA PublishedGrows ==
    ASSUME TypeOK, [Next]_vars, NoWrap'
    PROVE  NoWrap
  <1>1. published \in Nat /\ MaxPacketIdentifier \in Nat
    BY Types
  <1>2. published' = published \/ published' = published + 1
    <2>1. CASE \E qos \in QoS, dup \in IncomingDup : publish(qos, dup)
      BY <2>1 DEF publish
    <2>2. CASE response_received
      BY <2>2 DEF response_received
    <2>3. CASE \/ connection_closed \/ connection_destroyed \/ session_destroyed
               \/ UNCHANGED vars \/ client_receives
               \/ \E id \in PacketId : timer_expires(id)
      BY <2>3 DEF connection_closed, connection_destroyed, session_destroyed, vars,
                  client_receives, timer_expires, historyVars
    <2>4. CASE \E id \in PacketId : ack_timeout_expired(id)
      BY <2>4 DEF ack_timeout_expired
    <2> QED
      BY <2>1, <2>2, <2>3, <2>4 DEF Next
  <1> QED
    BY <1>1, <1>2 DEF NoWrap

LEMMA NextUntilWrap ==
    ASSUME TypeOK, ResendInv, UntilWrap, [Next]_vars
    PROVE  UntilWrap'
  <1> SUFFICES ASSUME NoWrap' PROVE Running' /\ WireInv'
    BY DEF UntilWrap
  <1>1. Running /\ WireInv
    BY PublishedGrows DEF UntilWrap
  <1> QED
    BY <1>1, NextCases, SettlesInv, ResendsInv, SendsPubrelInv, PublishesInv, ReceivesInv

\* The invariant of a session whose identifiers have not wrapped: what is under
\* way in either direction agrees with the state of the publications.
THEOREM WireAgrees == Spec => [](TypeOK /\ ResendInv /\ UntilWrap)
  <1>1. Init => ResendInv /\ UntilWrap
    BY InitWire DEF Init, ResendInv, InFlight, UntilWrap, Running
  <1>2. TypeOK /\ ResendInv /\ UntilWrap /\ [Next]_vars => ResendInv' /\ UntilWrap'
    BY NextResend, NextUntilWrap
  <1> QED
    BY <1>1, <1>2, TypeCorrect, PTL DEF Spec

\* No assertion of the code fails before an identifier is used a second time,
\* however late the answers of a client that follows MQTT come in.
THEOREM NoAssertionFails == Spec => []AssertionsHold
  <1>1. UntilWrap => AssertionsHold
    BY DEF UntilWrap, AssertionsHold
  <1> QED
    BY <1>1, WireAgrees, PTL
-----------------------------------------------------------------------------
(* Refinement of Delivery                                                   *)

\* The variables of Delivery, as Hop maps them.
HopQoS == [m \in Message |-> IF m > published THEN "none" ELSE grantedQoS[m]]

HopStatus == [m \in Message |-> delivery_status(m)]

\* How delivery_status and Hop's qos come out, case by case.
StatusFacts ==
    \A m \in Message : TypeOK /\ (m > published => outcome[m] = "unknown") =>
        /\ m > published => HopQoS[m] = "none" /\ HopStatus[m] = "unpublished"
        /\ m <= published =>
              /\ HopQoS[m] = grantedQoS[m]
              /\ outcome[m] = "unknown" =>
                    HopStatus[m] = IF grantedQoS[m] = "AT_MOST_ONCE" THEN "untracked"
                                   ELSE "dropped"
              /\ outcome[m] \in {"terminally_failed", "discarded"} =>
                    HopStatus[m] = "abandoned"
              /\ outcome[m] \in {"in_flight", "completed"} => HopStatus[m] = outcome[m]

LEMMA StatusCases == StatusFacts
  <1> SUFFICES ASSUME NEW m \in Message, TypeOK, m > published => outcome[m] = "unknown"
               PROVE  /\ m > published => HopQoS[m] = "none" /\ HopStatus[m] = "unpublished"
                      /\ m <= published =>
                            /\ HopQoS[m] = grantedQoS[m]
                            /\ outcome[m] = "unknown" =>
                                  HopStatus[m] = IF grantedQoS[m] = "AT_MOST_ONCE"
                                                 THEN "untracked" ELSE "dropped"
                            /\ outcome[m] \in {"terminally_failed", "discarded"} =>
                                  HopStatus[m] = "abandoned"
                            /\ outcome[m] \in {"in_flight", "completed"} =>
                                  HopStatus[m] = outcome[m]
    BY DEF StatusFacts
  <1>1. /\ m > published \/ m <= published
        /\ ~(m > published /\ m <= published)
    BY Types
  <1>2. HopStatus[m] = delivery_status(m)
    BY DEF HopStatus
  <1>3. CASE m > published
    <2>1. ~(m <= published)
      BY <1>1, <1>3
    <2>2. outcome[m] \notin {"terminally_failed", "discarded"}
      BY <1>3
    <2>3. HopStatus[m] = "unpublished"
      BY <1>2, <1>3, <2>1, <2>2, Zenon DEF delivery_status
    <2>4. HopQoS[m] = "none"
      BY <1>3 DEF HopQoS
    <2> QED
      BY <2>1, <2>3, <2>4
  <1>4. CASE m <= published
    <2>1. ~(m > published)
      BY <1>1, <1>4
    <2>2. HopQoS[m] = grantedQoS[m]
      BY <2>1 DEF HopQoS
    <2>3. CASE outcome[m] = "unknown"
      <3>1. outcome[m] \notin {"terminally_failed", "discarded", "in_flight", "completed"}
        BY <2>3
      <3>2. HopStatus[m] = IF grantedQoS[m] = "AT_MOST_ONCE" THEN "untracked" ELSE "dropped"
        BY <1>2, <1>4, <2>1, <2>3, <3>1, Zenon DEF delivery_status
      <3> QED
        BY <2>1, <2>2, <3>1, <3>2
    <2>4. CASE outcome[m] \in {"terminally_failed", "discarded"}
      <3>1. outcome[m] # "unknown" /\ outcome[m] \notin {"in_flight", "completed"}
        BY <2>4
      <3>2. HopStatus[m] = "abandoned"
        BY <1>2, <1>4, <2>1, <2>4, <3>1, Zenon DEF delivery_status
      <3> QED
        BY <2>1, <2>2, <3>1, <3>2
    <2>5. CASE outcome[m] \in {"in_flight", "completed"}
      <3>1. outcome[m] # "unknown" /\ outcome[m] \notin {"terminally_failed", "discarded"}
        BY <2>5
      <3>2. HopStatus[m] = outcome[m]
        BY <1>2, <1>4, <2>1, <3>1, Zenon DEF delivery_status
      <3> QED
        BY <2>1, <2>2, <3>1, <3>2
    <2>6. outcome[m] \in {"unknown", "in_flight", "completed", "terminally_failed", "discarded"}
      BY DEF TypeOK, Outcome
    <2> QED
      BY <2>3, <2>4, <2>5, <2>6
  <1> QED
    BY <1>1, <1>3, <1>4

LEMMA StatusCasesNext == StatusFacts'
  BY StatusCases, PTL

\* What is under way and how often it was sent is not visible in Delivery.
LEMMA HopUnchanged ==
    ASSUME UNCHANGED <<published, grantedQoS, outcome>>
    PROVE  UNCHANGED HopQoS /\ UNCHANGED HopStatus
  BY DEF HopQoS, HopStatus, delivery_status

LEMMA HopInit == Init => Hop!Init
  <1> SUFFICES ASSUME Init
               PROVE  Hop!Init
    OBVIOUS
  <1>1. \A m \in Message : HopStatus[m] = "unpublished" /\ HopQoS[m] = "none"
    <2>1. \A m \in Message : m > published
      BY ConstantsAssumption DEF Init, Message
    <2> QED
      BY <2>1, InitTypeOK, StatusCases DEF Init, StatusFacts
  <1>2. HopQoS = [m \in Message |-> "none"]
    BY <1>1 DEF HopQoS
  <1>3. HopStatus = [m \in Message |-> "unpublished"]
    BY <1>1 DEF HopStatus
  <1> QED
    BY <1>2, <1>3 DEF Hop!Init, Init, HopQoS, HopStatus

\* A step that only changes what became of messages.
LEMMA StatusStep ==
    ASSUME TypeOK, TypeOK', WireInv, UNCHANGED <<published, grantedQoS>>,
           NEW m \in Message
    PROVE  /\ outcome[m] = "in_flight" => HopStatus[m] = "in_flight" /\ m <= published
           /\ outcome'[m] = outcome[m] => HopStatus'[m] = HopStatus[m]
           /\ outcome[m] = "in_flight" /\ outcome'[m] = "completed" =>
                 HopStatus'[m] = "completed"
           /\ outcome[m] = "in_flight" /\ outcome'[m] \in {"terminally_failed", "discarded"} =>
                 HopStatus'[m] = "abandoned"
  <1>1. /\ m > published => outcome[m] = "unknown"
        /\ m > published \/ m <= published
        /\ outcome[m] = "in_flight" => m <= published
    BY Types DEF WireInv, MessageInv
  <1>2. /\ m <= published' /\ outcome'[m] = "completed" => HopStatus'[m] = "completed"
        /\ m <= published' /\ outcome'[m] \in {"terminally_failed", "discarded"} =>
              HopStatus'[m] = "abandoned"
    <2>1. m <= published' => ~(m > published')
      BY Types
    <2> QED
      BY <2>1, StatusCasesNext DEF StatusFacts
  <1>3. outcome'[m] = outcome[m] => HopStatus'[m] = HopStatus[m]
    BY DEF HopStatus, delivery_status
  <1> QED
    BY <1>1, <1>2, <1>3, StatusCases DEF StatusFacts

LEMMA SettlesHop ==
    ASSUME TypeOK, TypeOK', WireInv, Settles, Ends
    PROVE  \/ \E m \in Message : Hop!Complete(m)
           \/ \E ms \in SUBSET Message : Hop!Abandon(ms)
           \/ UNCHANGED Hop!vars
  <1>1. UNCHANGED <<published, grantedQoS, delivered>>
    BY DEF Settles
  <1>2. UNCHANGED HopQoS
    BY <1>1 DEF HopQoS
  <1>3. CASE UNCHANGED outcome
    BY <1>1, <1>2, <1>3, HopUnchanged DEF Hop!vars, HopQoS, HopStatus
  <1>4. ASSUME NEW m \in Message, outcome[m] = "in_flight", Taken(m),
               outcome' = [outcome EXCEPT ![m] = "completed"]
        PROVE  Hop!Complete(m)
    <2>1. outcome'[m] = "completed" /\ \A l \in Message : l # m => outcome'[l] = outcome[l]
      BY <1>4 DEF TypeOK
    <2>2. HopStatus[m] = "in_flight" /\ HopStatus'[m] = "completed"
      BY <1>1, <1>4, <2>1, StatusStep
    <2>3. \A l \in Message : l # m => HopStatus'[l] = HopStatus[l]
      BY <1>1, <2>1, StatusStep
    <2>4. HopStatus' = [HopStatus EXCEPT ![m] = "completed"]
      BY <2>2, <2>3 DEF HopStatus
    <2> QED
      BY <1>1, <1>2, <1>4, <2>2, <2>4 DEF Hop!Complete, HopQoS, HopStatus, Taken
  <1>5. ASSUME NEW ms \in SUBSET Message,
               NEW result \in {"terminally_failed", "discarded"},
               \A m \in ms : outcome[m] = "in_flight",
               outcome' = [m \in Message |-> IF m \in ms THEN result ELSE outcome[m]]
        PROVE  Hop!Abandon(ms)
    <2>1. \A m \in ms : HopStatus[m] = "in_flight" /\ HopStatus'[m] = "abandoned"
      BY <1>1, <1>5, StatusStep
    <2>2. \A m \in Message \ ms : HopStatus'[m] = HopStatus[m]
      BY <1>1, <1>5, StatusStep
    <2>3. HopStatus' = [m \in Message |-> IF m \in ms THEN "abandoned" ELSE HopStatus[m]]
      <3>1. \A m \in Message : HopStatus'[m] = IF m \in ms THEN "abandoned" ELSE HopStatus[m]
        BY <2>1, <2>2
      <3> QED
        BY <3>1 DEF HopStatus
    <2> QED
      BY <1>1, <1>2, <2>1, <2>3 DEF Hop!Abandon, HopQoS, HopStatus
  <1> QED
    BY <1>3, <1>4, <1>5 DEF Ends

LEMMA PublishesHop ==
    ASSUME TypeOK, TypeOK', WireInv, NEW m, NEW qos \in QoS, NEW ids, Publishes(m, qos, ids)
    PROVE  m \in Message /\ Hop!Publish(m, qos)
  <1>1. /\ m \in Message /\ m = published + 1 /\ published' = m /\ published \in Nat
        /\ UNCHANGED delivered
        /\ grantedQoS' = [grantedQoS EXCEPT ![m] = qos]
        /\ outcome' = IF ids = {} THEN outcome ELSE [outcome EXCEPT ![m] = "in_flight"]
    BY Types DEF Publishes
  <1>2. ids # {} => qos \in {"AT_LEAST_ONCE", "EXACTLY_ONCE"}
    BY DEF Publishes
  <1>3. /\ m > published /\ m <= published' /\ ~(m > published')
        /\ \A l \in Message : l # m => (l > published' <=> l > published)
        /\ \A l \in Message : l # m => (l <= published' <=> l <= published)
    BY <1>1, Types
  <1>4. outcome[m] = "unknown"
    BY <1>1, <1>3 DEF WireInv, MessageInv
  <1>5. /\ grantedQoS'[m] = qos
        /\ \A l \in Message : l # m => grantedQoS'[l] = grantedQoS[l] /\ outcome'[l] = outcome[l]
        /\ outcome'[m] = IF ids = {} THEN "unknown" ELSE "in_flight"
    BY <1>1, <1>4 DEF TypeOK
  <1>6. HopStatus[m] = "unpublished"
    BY <1>1, <1>3, <1>4, StatusCases DEF StatusFacts
  <1>7. HopQoS' = [HopQoS EXCEPT ![m] = qos]
    <2>1. HopQoS'[m] = qos
      BY <1>1, <1>3, <1>5 DEF HopQoS
    <2>2. \A l \in Message : l # m => HopQoS'[l] = HopQoS[l]
      BY <1>3, <1>5 DEF HopQoS
    <2> QED
      BY <2>1, <2>2 DEF HopQoS
  <1>8. /\ ids # {} => HopStatus'[m] = "in_flight"
        /\ ids = {} => HopStatus'[m] = IF qos = "AT_MOST_ONCE" THEN "untracked" ELSE "dropped"
    BY <1>1, <1>3, <1>5, StatusCasesNext DEF StatusFacts
  <1>9. HopStatus' = [HopStatus EXCEPT ![m] = HopStatus'[m]]
    <2>1. \A l \in Message : l # m => HopStatus'[l] = HopStatus[l]
      BY <1>3, <1>5 DEF HopStatus, delivery_status
    <2> QED
      BY <2>1 DEF HopStatus
  <1>10. HopStatus'[m] \in CASE qos = "RESERVED"     -> {"dropped"}
                              [] qos = "AT_MOST_ONCE" -> {"untracked"}
                              [] OTHER                -> {"in_flight", "dropped"}
    <2>1. CASE qos = "RESERVED"
      <3>1. qos # "AT_MOST_ONCE" /\ HopStatus'[m] = "dropped"
        BY <1>2, <1>8, <2>1
      <3> QED
        BY <2>1, <3>1, Zenon
    <2>2. CASE qos = "AT_MOST_ONCE"
      <3>1. qos # "RESERVED" /\ HopStatus'[m] = "untracked"
        BY <1>2, <1>8, <2>2
      <3> QED
        BY <2>2, <3>1, Zenon
    <2>3. CASE qos \in {"AT_LEAST_ONCE", "EXACTLY_ONCE"}
      <3>1. qos # "RESERVED" /\ qos # "AT_MOST_ONCE" /\ HopStatus'[m] \in {"in_flight", "dropped"}
        BY <1>8, <2>3
      <3> QED
        BY <3>1, Zenon
    <2> QED
      BY <2>1, <2>2, <2>3 DEF QoS
  <1> QED
    BY <1>1, <1>6, <1>7, <1>9, <1>10, Zenon DEF Hop!Publish, HopQoS, HopStatus

LEMMA ReceivesHop ==
    ASSUME TypeOK, WireInv, NEW p, Receives(p)
    PROVE  (\E m \in Message : Hop!Deliver(m)) \/ UNCHANGED Hop!vars
  <1>1. UNCHANGED <<published, grantedQoS, outcome>>
    BY DEF Receives
  <1>2. UNCHANGED HopQoS /\ UNCHANGED HopStatus
    BY <1>1, HopUnchanged
  <1>3. CASE ~IsTaken(p)
    <2>1. UNCHANGED delivered
      BY <1>3 DEF Receives
    <2> QED
      BY <1>2, <2>1 DEF Hop!vars, HopQoS, HopStatus
  <1>4. CASE IsTaken(p)
    <2>1. /\ 1 \in Positions(toClient) /\ toClient[1] = p /\ p.type = "PUBLISH"
          /\ p.id \in PacketId
      BY <1>4, Types DEF Receives, IsTaken
    <2>2. PICK m \in Message : m = p.message
      BY <2>1, Types
    <2>3. /\ m <= published /\ p.qos = grantedQoS[m]
          /\ p.qos = "AT_MOST_ONCE" => ~Taken(m)
          /\ p.qos # "AT_MOST_ONCE" => outcome[m] # "unknown"
      BY <2>1, <2>2 DEF WireInv, MessageInv
    <2>4. p.qos = "EXACTLY_ONCE" => ~Taken(m)
      BY <1>4, <2>1, <2>2 DEF IsTaken, PublishAt, WireInv, OrderInv
    <2>5. ~Taken(m) => delivered[m] = 0
      BY Types DEF Taken
    <2>6. HopQoS[m] = p.qos /\ HopStatus[m] \notin {"unpublished", "dropped"}
      <3>1. ~(m > published)
        BY <2>3, Types
      <3>2. outcome[m] \in Outcome
        BY DEF TypeOK
      <3> QED
        BY <2>3, <3>1, <3>2, StatusCases DEF StatusFacts, Outcome
    <2>7. delivered' = [delivered EXCEPT ![m] = @ + 1]
      BY <1>4, <2>2 DEF Receives
    <2>8. Hop!Deliverable(m)
      BY <2>3, <2>4, <2>5, <2>6 DEF Hop!Deliverable, HopQoS, HopStatus
    <2>9. Hop!Deliver(m)
      BY <1>2, <2>7, <2>8 DEF Hop!Deliver, HopQoS, HopStatus
    <2> QED
      BY <2>9
  <1> QED
    BY <1>3, <1>4

LEMMA HopNext ==
    ASSUME TypeOK, TypeOK', ResendInv, UntilWrap, [Next]_vars, NoWrap'
    PROVE  [Hop!Next]_(Hop!vars)
  <1>1. Running /\ WireInv
    BY PublishedGrows DEF UntilWrap
  <1>2. CASE Settles /\ Ends
    BY <1>1, <1>2, SettlesHop DEF Hop!Next
  <1>3. CASE \E id : Resends(id) \/ SendsPubrel(id)
    <2>1. UNCHANGED <<published, grantedQoS, outcome, delivered>>
      BY <1>3 DEF Resends, SendsPubrel, Advances
    <2> QED
      BY <2>1, HopUnchanged DEF Hop!vars, HopQoS, HopStatus
  <1>4. CASE \E m, ids : \E qos \in QoS : Publishes(m, qos, ids)
    <2>1. PICK m, ids : \E qos \in QoS : Publishes(m, qos, ids)
      BY <1>4
    <2>2. PICK qos \in QoS : Publishes(m, qos, ids)
      BY <2>1
    <2>3. m \in Message /\ Hop!Publish(m, qos) /\ qos \in Hop!Level
      BY <1>1, <2>2, PublishesHop DEF QoS, Hop!Level
    <2> QED
      BY <2>3 DEF Hop!Next
  <1>5. CASE \E p : Receives(p)
    BY <1>1, <1>5, ReceivesHop DEF Hop!Next
  <1> QED
    BY <1>1, <1>2, <1>3, <1>4, <1>5, NextCases

\* As long as no identifier is used twice, every step of the outgoing
\* publications, retries and late answers included, is one that Delivery allows
\* (response_received and ack_timeout_expired of tx_publication.cpp): all of
\* ImplementsDelivery but its liveness.
THEOREM FollowsDelivery == Spec => DeliverySteps
  <1>1. Init => Hop!Init
    BY HopInit
  <1>2. TypeOK /\ TypeOK' /\ ResendInv /\ UntilWrap /\ [Next]_vars
            => [NoWrap' => [Hop!Next]_(Hop!vars)]_vars
    BY HopNext
  <1> QED
    BY <1>1, <1>2, WireAgrees, PTL DEF Spec, DeliverySteps
-----------------------------------------------------------------------------
(* QoS 2 without duplicates, whether or not identifiers are used again      *)

\* The subscriber takes a message published with QoS 2 once.
TakenOnce == \A m \in Message : grantedQoS[m] = "EXACTLY_ONCE" => delivered[m] <= 1

ExactlyAt(i) == toClient[i].type = "PUBLISH" /\ toClient[i].qos = "EXACTLY_ONCE"

\* Histories of messages agree with publications and packets that carry them.
LevelInv ==
    /\ \A m \in Message : m > published => delivered[m] = 0
    /\ \A id \in InFlight : publications[id].state # "waiting_for_comp" =>
          grantedQoS[publications[id].message] = Level(id)
    /\ \A i \in Positions(toClient) : toClient[i].type = "PUBLISH" =>
          /\ toClient[i].message <= published
          /\ toClient[i].qos = grantedQoS[toClient[i].message]

\* While a PUBLISH of a message the client has taken is under way, the client
\* holds its identifier, and no PUBREL that would make it let go comes first.
HeldInv ==
    /\ \A i \in Positions(toClient) : ExactlyAt(i) /\ Taken(toClient[i].message) =>
          /\ toClient[i].id \in awaitingRel
          /\ \A k \in Positions(toClient) : k < i => ~PubrelAt(k, toClient[i].id)
    /\ \A i, j \in Positions(toClient) :
          ExactlyAt(i) /\ ExactlyAt(j) /\ toClient[i].message = toClient[j].message =>
              /\ toClient[i].id = toClient[j].id
              /\ \A k \in Positions(toClient) : i < k /\ k < j => ~PubrelAt(k, toClient[i].id)

\* The same for a PUBLISH that may still be sent again.
MayResendInv ==
    \A id \in InFlight : publications[id].state = "waiting_for_rec" =>
        /\ Taken(publications[id].message) =>
              /\ id \in awaitingRel
              /\ \A k \in Positions(toClient) : ~PubrelAt(k, id)
        /\ \A i \in Positions(toClient) :
              ExactlyAt(i) /\ toClient[i].message = publications[id].message =>
                  /\ toClient[i].id = id
                  /\ \A k \in Positions(toClient) : i < k => ~PubrelAt(k, id)

OnceInv == TakenOnce /\ LevelInv /\ HeldInv /\ MayResendInv

LEMMA InitOnce == Init => OnceInv
  <1> SUFFICES ASSUME Init PROVE OnceInv
    OBVIOUS
  <1>1. Positions(toClient) = {} /\ InFlight = {} /\ \A m \in Message : delivered[m] = 0
    BY DEF Init, Positions, InFlight
  <1> QED
    BY <1>1 DEF OnceInv, TakenOnce, LevelInv, HeldInv, MayResendInv

\* Nothing is sent or taken, and publications stay as they are or end.
Calm ==
    /\ UNCHANGED <<toClient, awaitingRel, published, grantedQoS, delivered>>
    /\ InFlight' \subseteq InFlight
    /\ \A id \in InFlight' : /\ publications'[id].state = publications[id].state
                             /\ publications'[id].message = publications[id].message

LEMMA CalmOnce ==
    ASSUME TypeOK, OnceInv, Calm
    PROVE  OnceInv'
  <1>1. /\ UNCHANGED <<toClient, awaitingRel, published, grantedQoS, delivered>>
        /\ InFlight' \subseteq InFlight
        /\ \A id \in InFlight' : /\ publications'[id].state = publications[id].state
                                 /\ publications'[id].message = publications[id].message
                                 /\ Level(id)' = Level(id)
    BY DEF Calm, Level
  <1>2. /\ Positions(toClient)' = Positions(toClient)
        /\ \A i, id : ExactlyAt(i)' = ExactlyAt(i) /\ PubrelAt(i, id)' = PubrelAt(i, id)
        /\ \A m : Taken(m)' = Taken(m)
    BY <1>1 DEF Positions, ExactlyAt, PubrelAt, Taken
  <1>3. TakenOnce' /\ LevelInv'
    BY <1>1, <1>2 DEF OnceInv, TakenOnce, LevelInv
  <1>4. HeldInv'
    BY <1>1, <1>2 DEF OnceInv, HeldInv
  <1>5. MayResendInv'
    BY <1>1, <1>2 DEF OnceInv, MayResendInv
  <1> QED
    BY <1>3, <1>4, <1>5 DEF OnceInv

\* A timeout or a PUBREC makes PUBREL go out, whoever the PUBREC was meant for.
Releases(id) ==
    /\ publications[id].state # "waiting_for_ack"
    /\ send(Pubrel(id))
    /\ Advances(id, "waiting_for_comp")

LEMMA ReleasesOnce ==
    ASSUME TypeOK, OnceInv, NEW id, Releases(id)
    PROVE  OnceInv'
  <1>1. /\ id \in InFlight /\ InFlight' = InFlight
        /\ \A k \in InFlight :
              /\ publications'[k].message = publications[k].message
              /\ publications'[k].state = IF k = id THEN "waiting_for_comp" ELSE publications[k].state
        /\ UNCHANGED <<sender, awaitingRel, published, grantedQoS, delivered>>
    BY DEF Releases, Advances
  <1>2. id \in PacketId /\ InFlight \subseteq PacketId
    BY <1>1, Types
  <1>3. PICK pkt \in ServerPacket : send(pkt) /\ pkt.type = "PUBREL" /\ pkt.id = id
    BY <1>2, PacketType DEF Pubrel, Releases
  <1>4. PICK last \in Nat :
           /\ \A i \in Positions(toClient) :
                 i \in Positions(toClient') /\ i < last /\ toClient'[i] = toClient[i]
           /\ \A i \in Positions(toClient') :
                 i \in Positions(toClient) \/ (i = last /\ toClient'[i] = pkt)
    <2>1. PICK last \in Nat : last = Len(toClient) + 1
      BY Types
    <2> QED
      BY <1>3, <2>1, SentAt
  <1>5. /\ \A i \in Positions(toClient') : toClient'[i].type = "PUBLISH" =>
              i \in Positions(toClient) /\ toClient'[i] = toClient[i]
        /\ \A i \in Positions(toClient') : toClient'[i].type = "PUBREL" =>
              \/ i \in Positions(toClient) /\ toClient'[i] = toClient[i]
              \/ i = last /\ toClient'[i].id = id
    BY <1>3, <1>4
  <1>6. \A m : Taken(m)' = Taken(m)
    BY <1>1 DEF Taken
  <1>7. \A i \in Positions(toClient) : ~(last < i)
    BY <1>4 DEF Positions
  <1>8. TakenOnce' /\ LevelInv'
    <2>1. \A k \in InFlight : k # id => Level(k)' = Level(k)
      BY <1>1 DEF Level
    <2>2. \A k \in InFlight' : publications'[k].state # "waiting_for_comp" =>
             grantedQoS'[publications'[k].message] = Level(k)'
      BY <1>1, <2>1 DEF OnceInv, LevelInv
    <2>3. \A i \in Positions(toClient') : toClient'[i].type = "PUBLISH" =>
             /\ toClient'[i].message <= published'
             /\ toClient'[i].qos = grantedQoS'[toClient'[i].message]
      BY <1>1, <1>5 DEF OnceInv, LevelInv
    <2> QED
      BY <1>1, <2>2, <2>3 DEF OnceInv, TakenOnce, LevelInv, Positions
  <1>9. HeldInv'
    <2>1. ASSUME NEW i \in Positions(toClient'), ExactlyAt(i)'
          PROVE  i \in Positions(toClient) /\ ExactlyAt(i) /\ toClient'[i] = toClient[i]
      BY <1>5, <2>1 DEF ExactlyAt
    <2>2. ASSUME NEW i \in Positions(toClient'), ExactlyAt(i)', Taken(toClient[i].message)
          PROVE  /\ toClient[i].id \in awaitingRel
                 /\ \A k \in Positions(toClient') : k < i =>
                       ~(toClient'[k].type = "PUBREL" /\ toClient'[k].id = toClient[i].id)
      BY <1>5, <1>7, <2>1, <2>2 DEF OnceInv, HeldInv, PubrelAt
    <2>3. ASSUME NEW i \in Positions(toClient'), NEW j \in Positions(toClient'),
                 ExactlyAt(i)', ExactlyAt(j)', toClient[i].message = toClient[j].message
          PROVE  /\ toClient[i].id = toClient[j].id
                 /\ \A k \in Positions(toClient') : i < k /\ k < j =>
                       ~(toClient'[k].type = "PUBREL" /\ toClient'[k].id = toClient[i].id)
      BY <1>5, <1>7, <2>1, <2>3 DEF OnceInv, HeldInv, PubrelAt
    <2> QED
      BY <1>1, <1>6, <2>1, <2>2, <2>3 DEF HeldInv, Positions, PubrelAt, Taken
  <1>10. MayResendInv'
    <2>1. ASSUME NEW k \in InFlight, publications'[k].state = "waiting_for_rec"
          PROVE  /\ Taken(publications[k].message) =>
                       /\ k \in awaitingRel
                       /\ \A j \in Positions(toClient') :
                             ~(toClient'[j].type = "PUBREL" /\ toClient'[j].id = k)
                 /\ \A i \in Positions(toClient') :
                       ExactlyAt(i)' /\ toClient'[i].message = publications[k].message =>
                           /\ toClient'[i].id = k
                           /\ \A j \in Positions(toClient') : i < j =>
                                 ~(toClient'[j].type = "PUBREL" /\ toClient'[j].id = k)
      <3>1. k # id /\ publications[k].state = "waiting_for_rec"
        BY <1>1, <2>1
      <3> QED
        BY <1>5, <3>1 DEF OnceInv, MayResendInv, PubrelAt, ExactlyAt
    <2> QED
      BY <1>1, <2>1 DEF MayResendInv, Positions, PubrelAt, Taken
  <1> QED
    BY <1>8, <1>9, <1>10 DEF OnceInv

\* A timeout sends a PUBLISH again, and that only if the client does not let go
\* of its identifier before.
LEMMA ResendsOnce ==
    ASSUME TypeOK, ResendInv, OnceInv, NEW id, Resends(id)
    PROVE  OnceInv'
  <1> DEFINE state == IF publications[id].state = "waiting_for_ack" THEN "waiting_for_ack"
                      ELSE "waiting_for_comp"
  <1>1. /\ id \in InFlight /\ InFlight' = InFlight
        /\ \A k \in InFlight :
              /\ publications'[k].message = publications[k].message
              /\ publications'[k].state = IF k = id THEN state ELSE publications[k].state
        /\ UNCHANGED <<sender, awaitingRel, published, grantedQoS, delivered>>
        /\ publications[id].state \in {"waiting_for_ack", "waiting_for_rec"}
    BY DEF Resends, Advances
  <1>2. PICK m \in Message : m = publications[id].message
    BY <1>1, Types
  <1>3. id \in PacketId /\ InFlight \subseteq PacketId
    BY <1>1, Types
  <1>4. PICK pkt \in ServerPacket :
           /\ send(pkt) /\ pkt.type = "PUBLISH" /\ pkt.id = id /\ pkt.qos = Level(id)
           /\ pkt.message = m
    BY <1>2, <1>3, PacketType DEF Publish, QoS, Level, Resends
  <1>5. PICK last \in Nat :
           /\ \A i \in Positions(toClient) :
                 i \in Positions(toClient') /\ i < last /\ toClient'[i] = toClient[i]
           /\ \A i \in Positions(toClient') :
                 i \in Positions(toClient) \/ (i = last /\ toClient'[i] = pkt)
    <2>1. PICK last \in Nat : last = Len(toClient) + 1
      BY Types
    <2> QED
      BY <1>4, <2>1, SentAt
  <1>6. /\ \A i \in Positions(toClient') : toClient'[i].type = "PUBLISH" =>
              \/ i \in Positions(toClient) /\ toClient'[i] = toClient[i]
              \/ i = last /\ toClient'[i] = pkt
        /\ \A i \in Positions(toClient') : toClient'[i].type = "PUBREL" =>
              i \in Positions(toClient) /\ toClient'[i] = toClient[i]
        /\ \A i \in Positions(toClient) : ~(last < i)
    BY <1>4, <1>5 DEF Positions
  <1>7. /\ grantedQoS[m] = Level(id) /\ m <= published
        /\ Level(id) = "EXACTLY_ONCE" <=> publications[id].state = "waiting_for_rec"
    BY <1>1, <1>2 DEF OnceInv, LevelInv, ResendInv, Level
  <1>8. TakenOnce' /\ LevelInv'
    <2>1. \A k \in InFlight : publications'[k].state # "waiting_for_comp" => Level(k)' = Level(k)
      BY <1>1 DEF Level
    <2>2. \A k \in InFlight' : publications'[k].state # "waiting_for_comp" =>
             grantedQoS'[publications'[k].message] = Level(k)'
      BY <1>1, <2>1 DEF OnceInv, LevelInv
    <2>3. \A i \in Positions(toClient') : toClient'[i].type = "PUBLISH" =>
             /\ toClient'[i].message <= published'
             /\ toClient'[i].qos = grantedQoS'[toClient'[i].message]
      BY <1>1, <1>4, <1>6, <1>7 DEF OnceInv, LevelInv
    <2> QED
      BY <1>1, <2>2, <2>3 DEF OnceInv, TakenOnce, LevelInv, Positions
  <1>9. ASSUME pkt.qos = "EXACTLY_ONCE"
        PROVE  /\ Taken(m) => /\ id \in awaitingRel
                              /\ \A k \in Positions(toClient) : ~PubrelAt(k, id)
               /\ \A i \in Positions(toClient) : ExactlyAt(i) /\ toClient[i].message = m =>
                     /\ toClient[i].id = id
                     /\ \A k \in Positions(toClient) : i < k => ~PubrelAt(k, id)
    BY <1>1, <1>2, <1>4, <1>7, <1>9 DEF OnceInv, MayResendInv
  <1>10. HeldInv'
    <2>1. ASSUME NEW i \in Positions(toClient'), ExactlyAt(i)'
          PROVE  \/ i \in Positions(toClient) /\ ExactlyAt(i) /\ toClient'[i] = toClient[i]
                 \/ i = last /\ toClient'[i] = pkt /\ pkt.qos = "EXACTLY_ONCE"
      BY <1>6, <2>1 DEF ExactlyAt
    <2>2. ASSUME NEW i \in Positions(toClient'), ExactlyAt(i)', Taken(toClient'[i].message)
          PROVE  /\ toClient'[i].id \in awaitingRel
                 /\ \A k \in Positions(toClient') : k < i =>
                       ~(toClient'[k].type = "PUBREL" /\ toClient'[k].id = toClient'[i].id)
      <3>1. CASE i \in Positions(toClient) /\ ExactlyAt(i) /\ toClient'[i] = toClient[i]
        BY <1>6, <2>2, <3>1 DEF OnceInv, HeldInv, PubrelAt
      <3>2. CASE i = last /\ toClient'[i] = pkt /\ pkt.qos = "EXACTLY_ONCE"
        BY <1>4, <1>6, <1>9, <2>2, <3>2 DEF PubrelAt
      <3> QED
        BY <2>1, <2>2, <3>1, <3>2
    <2>3. ASSUME NEW i \in Positions(toClient'), NEW j \in Positions(toClient'),
                 ExactlyAt(i)', ExactlyAt(j)', toClient'[i].message = toClient'[j].message
          PROVE  /\ toClient'[i].id = toClient'[j].id
                 /\ \A k \in Positions(toClient') : i < k /\ k < j =>
                       ~(toClient'[k].type = "PUBREL" /\ toClient'[k].id = toClient'[i].id)
      <3>1. CASE /\ i \in Positions(toClient) /\ ExactlyAt(i) /\ toClient'[i] = toClient[i]
                 /\ j \in Positions(toClient) /\ ExactlyAt(j) /\ toClient'[j] = toClient[j]
        BY <1>6, <2>3, <3>1 DEF OnceInv, HeldInv, PubrelAt
      <3>2. CASE /\ i \in Positions(toClient) /\ ExactlyAt(i) /\ toClient'[i] = toClient[i]
                 /\ j = last /\ toClient'[j] = pkt /\ pkt.qos = "EXACTLY_ONCE"
        <4>1. toClient[i].message = m
          BY <1>4, <2>3, <3>2
        <4>2. /\ toClient[i].id = id
              /\ \A k \in Positions(toClient) : i < k => ~PubrelAt(k, id)
          BY <1>9, <3>2, <4>1
        <4> QED
          BY <1>4, <1>6, <3>2, <4>2 DEF PubrelAt
      <3>3. CASE /\ i = last /\ toClient'[i] = pkt /\ pkt.qos = "EXACTLY_ONCE"
                 /\ j \in Positions(toClient) /\ ExactlyAt(j) /\ toClient'[j] = toClient[j]
        <4>1. toClient'[i].id = toClient'[j].id
          BY <1>4, <1>9, <2>3, <3>3
        <4>2. \A k \in Positions(toClient) : ~(last < k /\ k < j)
          BY <1>6
        <4> QED
          BY <1>6, <3>3, <4>1, <4>2
      <3>4. CASE i = last /\ j = last
        BY <1>6, <3>4
      <3> QED
        BY <2>1, <2>3, <3>1, <3>2, <3>3, <3>4
    <2> QED
      BY <1>1, <2>2, <2>3 DEF HeldInv, Positions, PubrelAt, Taken
  <1>11. MayResendInv'
    <2>1. ASSUME NEW k \in InFlight, publications'[k].state = "waiting_for_rec"
          PROVE  /\ Taken(publications[k].message) =>
                       /\ k \in awaitingRel
                       /\ \A j \in Positions(toClient') :
                             ~(toClient'[j].type = "PUBREL" /\ toClient'[j].id = k)
                 /\ \A i \in Positions(toClient') :
                       ExactlyAt(i)' /\ toClient'[i].message = publications[k].message =>
                           /\ toClient'[i].id = k
                           /\ \A j \in Positions(toClient') : i < j =>
                                 ~(toClient'[j].type = "PUBREL" /\ toClient'[j].id = k)
      <3>1. /\ k # id /\ publications[k].state = "waiting_for_rec"
            /\ publications[k].message # m
        BY <1>1, <1>2, <2>1 DEF ResendInv
      <3>2. \A i \in Positions(toClient') :
               ExactlyAt(i)' /\ toClient'[i].message = publications[k].message =>
                  i \in Positions(toClient) /\ ExactlyAt(i) /\ toClient'[i] = toClient[i]
        BY <1>4, <1>6, <3>1 DEF ExactlyAt
      <3> QED
        BY <1>6, <3>1, <3>2 DEF OnceInv, MayResendInv, PubrelAt
    <2> QED
      BY <1>1, <2>1 DEF MayResendInv, Positions, PubrelAt, Taken
  <1> QED
    BY <1>8, <1>10, <1>11 DEF OnceInv

\* Message m is published; ids holds the identifier it is tracked under, if any.
HandsOut(m, qos, ids) ==
    /\ m \in Message /\ m = published + 1 /\ published' = m
    /\ grantedQoS' = [grantedQoS EXCEPT ![m] = qos]
    /\ InFlight' = InFlight \cup ids
    /\ ids \cap InFlight = {}
    /\ \A i \in InFlight : publications'[i] = publications[i]
    /\ \A i \in ids : /\ publications'[i].message = m
                      /\ publications'[i].state = IF qos = "AT_LEAST_ONCE" THEN "waiting_for_ack"
                                                  ELSE "waiting_for_rec"
                      /\ qos \in {"AT_LEAST_ONCE", "EXACTLY_ONCE"}
    /\ \/ UNCHANGED toClient
       \/ \E id \in PacketId, dup \in BOOLEAN :
             /\ send(Publish(id, qos, dup, m))
             /\ qos # "RESERVED"
             /\ ids = {id} \/ (ids = {} /\ qos = "AT_MOST_ONCE")
    /\ UNCHANGED <<sender, awaitingRel, delivered>>

\* A message that is new to everybody, so that nothing is known of it.
LEMMA HandsOutOnce ==
    ASSUME TypeOK, ResendInv, OnceInv, NEW m, NEW qos \in QoS, NEW ids, HandsOut(m, qos, ids)
    PROVE  OnceInv'
  <1>1. /\ m \in Message /\ m = published + 1 /\ published' = m /\ published \in Nat
        /\ UNCHANGED <<sender, awaitingRel, delivered>>
        /\ InFlight' = InFlight \cup ids /\ ids \cap InFlight = {}
        /\ \A i \in InFlight : publications'[i] = publications[i]
        /\ \A i \in ids : /\ publications'[i].message = m
                          /\ publications'[i].state = IF qos = "AT_LEAST_ONCE"
                                                      THEN "waiting_for_ack"
                                                      ELSE "waiting_for_rec"
                          /\ qos \in {"AT_LEAST_ONCE", "EXACTLY_ONCE"}
    BY Types DEF HandsOut
  <1>2. /\ grantedQoS'[m] = qos
        /\ \A l \in Message : l # m => grantedQoS'[l] = grantedQoS[l]
    BY <1>1 DEF HandsOut, TypeOK
  <1>3. delivered[m] = 0 /\ ~Taken(m)
    <2>1. m > published
      BY <1>1
    <2> QED
      BY <1>1, <2>1 DEF OnceInv, LevelInv, Taken
  <1>4. /\ \A i \in Positions(toClient) : toClient[i].type = "PUBLISH" =>
              /\ toClient[i].message \in Message /\ toClient[i].message # m
              /\ toClient[i].message <= published'
              /\ toClient[i].qos = grantedQoS'[toClient[i].message]
        /\ \A k \in InFlight :
              publications[k].message \in Message /\ publications[k].message # m
    <2>1. \A l \in Message : l <= published => l # m /\ l <= published'
      BY <1>1, Types
    <2> QED
      BY <1>2, <2>1, Types DEF OnceInv, LevelInv, ResendInv
  <1>5. PICK last \in Nat :
           /\ \A i \in Positions(toClient) : ~(last < i)
           /\ \A i \in Positions(toClient') :
                 \/ i \in Positions(toClient) /\ toClient'[i] = toClient[i]
                 \/ /\ i = last /\ toClient'[i].type = "PUBLISH"
                    /\ toClient'[i].message = m /\ toClient'[i].qos = qos
                    /\ \/ ids = {toClient'[i].id}
                       \/ ids = {} /\ qos = "AT_MOST_ONCE"
    <2>1. CASE UNCHANGED toClient
      <3>1. \A i \in Positions(toClient) : ~(Len(toClient) < i)
        BY DEF Positions
      <3>2. Len(toClient) \in Nat
        BY Types
      <3> QED
        BY <2>1, <3>1, <3>2 DEF Positions
    <2>2. ASSUME NEW id \in PacketId, NEW dup \in BOOLEAN, send(Publish(id, qos, dup, m)),
                 qos # "RESERVED",
                 ids = {id} \/ (ids = {} /\ qos = "AT_MOST_ONCE")
          PROVE  \E last \in Nat :
                    /\ \A i \in Positions(toClient) : ~(last < i)
                    /\ \A i \in Positions(toClient') :
                          \/ i \in Positions(toClient) /\ toClient'[i] = toClient[i]
                          \/ /\ i = last /\ toClient'[i].type = "PUBLISH"
                             /\ toClient'[i].message = m /\ toClient'[i].qos = qos
                             /\ \/ ids = {toClient'[i].id}
                                \/ ids = {} /\ qos = "AT_MOST_ONCE"
      <3>1. PICK pkt \in ServerPacket :
               /\ send(pkt) /\ pkt.type = "PUBLISH" /\ pkt.id = id /\ pkt.qos = qos
               /\ pkt.message = m
        BY <1>1, <2>2, PacketType DEF Publish
      <3>2. PICK last \in Nat :
               /\ \A i \in Positions(toClient) :
                     i \in Positions(toClient') /\ i < last /\ toClient'[i] = toClient[i]
               /\ \A i \in Positions(toClient') :
                     i \in Positions(toClient) \/ (i = last /\ toClient'[i] = pkt)
        <4>1. PICK last \in Nat : last = Len(toClient) + 1
          BY Types
        <4> QED
          BY <3>1, <4>1, SentAt
      <3>3. \A i \in Positions(toClient) : ~(last < i)
        BY <3>2 DEF Positions
      <3> QED
        BY <2>2, <3>1, <3>2, <3>3
    <2> QED
      BY <2>1, <2>2 DEF HandsOut
  <1>6. \A l : Taken(l)' = Taken(l)
    BY <1>1 DEF Taken
  <1>7. TakenOnce' /\ LevelInv'
    <2>1. \A l \in Message : grantedQoS'[l] = "EXACTLY_ONCE" => delivered[l] <= 1
      BY <1>2, <1>3 DEF OnceInv, TakenOnce
    <2>2. \A l \in Message : l > published' => delivered[l] = 0
      <3>1. \A l \in Message : l > published' => l > published
        BY <1>1, Types
      <3> QED
        BY <3>1 DEF OnceInv, LevelInv
    <2>3. \A k \in InFlight' : publications'[k].state # "waiting_for_comp" =>
             grantedQoS'[publications'[k].message] = Level(k)'
      <3>1. \A k \in InFlight : Level(k)' = Level(k)
        BY <1>1 DEF Level
      <3>2. ASSUME NEW k \in ids
            PROVE  grantedQoS'[publications'[k].message] = Level(k)'
        BY <1>1, <1>2, <3>2 DEF Level
      <3> QED
        BY <1>1, <1>2, <1>4, <3>1, <3>2 DEF OnceInv, LevelInv
    <2>4. \A i \in Positions(toClient') : toClient'[i].type = "PUBLISH" =>
             /\ toClient'[i].message <= published'
             /\ toClient'[i].qos = grantedQoS'[toClient'[i].message]
      BY <1>1, <1>2, <1>4, <1>5, Types
    <2> QED
      BY <1>1, <2>1, <2>2, <2>3, <2>4 DEF TakenOnce, LevelInv, Positions
  <1>8. \A i \in Positions(toClient') : toClient'[i].type = "PUBREL" =>
           i \in Positions(toClient) /\ toClient'[i] = toClient[i]
    BY <1>5
  <1>9. HeldInv'
    <2>1. ASSUME NEW i \in Positions(toClient'), ExactlyAt(i)'
          PROVE  \/ i \in Positions(toClient) /\ ExactlyAt(i) /\ toClient'[i] = toClient[i]
                 \/ i = last /\ toClient'[i].message = m
      BY <1>5, <2>1 DEF ExactlyAt
    <2>2. ASSUME NEW i \in Positions(toClient'), ExactlyAt(i)', Taken(toClient'[i].message)
          PROVE  /\ toClient'[i].id \in awaitingRel
                 /\ \A k \in Positions(toClient') : k < i =>
                       ~(toClient'[k].type = "PUBREL" /\ toClient'[k].id = toClient'[i].id)
      <3>1. i \in Positions(toClient) /\ ExactlyAt(i) /\ toClient'[i] = toClient[i]
        BY <1>3, <2>1, <2>2
      <3> QED
        BY <1>8, <2>2, <3>1 DEF OnceInv, HeldInv, PubrelAt
    <2>3. ASSUME NEW i \in Positions(toClient'), NEW j \in Positions(toClient'),
                 ExactlyAt(i)', ExactlyAt(j)', toClient'[i].message = toClient'[j].message
          PROVE  /\ toClient'[i].id = toClient'[j].id
                 /\ \A k \in Positions(toClient') : i < k /\ k < j =>
                       ~(toClient'[k].type = "PUBREL" /\ toClient'[k].id = toClient'[i].id)
      <3>1. CASE /\ i \in Positions(toClient) /\ ExactlyAt(i) /\ toClient'[i] = toClient[i]
                 /\ j \in Positions(toClient) /\ ExactlyAt(j) /\ toClient'[j] = toClient[j]
        BY <1>8, <2>3, <3>1 DEF OnceInv, HeldInv, PubrelAt
      <3>2. CASE i = last /\ j = last
        BY <1>5, <1>8, <3>2
      <3>3. \A k \in Positions(toClient) : ExactlyAt(k) => toClient[k].message # m
        BY <1>4 DEF ExactlyAt
      <3> QED
        BY <2>1, <2>3, <3>1, <3>2, <3>3
    <2> QED
      BY <1>1, <2>2, <2>3 DEF HeldInv, Positions, PubrelAt, Taken
  <1>10. MayResendInv'
    <2>1. ASSUME NEW k \in InFlight, publications'[k].state = "waiting_for_rec"
          PROVE  /\ Taken(publications[k].message) =>
                       /\ k \in awaitingRel
                       /\ \A j \in Positions(toClient') :
                             ~(toClient'[j].type = "PUBREL" /\ toClient'[j].id = k)
                 /\ \A i \in Positions(toClient') :
                       ExactlyAt(i)' /\ toClient'[i].message = publications[k].message =>
                           /\ toClient'[i].id = k
                           /\ \A j \in Positions(toClient') : i < j =>
                                 ~(toClient'[j].type = "PUBREL" /\ toClient'[j].id = k)
      <3>1. publications[k].state = "waiting_for_rec" /\ publications[k].message # m
        BY <1>1, <1>4, <2>1
      <3>2. \A i \in Positions(toClient') :
               ExactlyAt(i)' /\ toClient'[i].message = publications[k].message =>
                  i \in Positions(toClient) /\ ExactlyAt(i) /\ toClient'[i] = toClient[i]
        BY <1>5, <3>1 DEF ExactlyAt
      <3> QED
        BY <1>8, <3>1, <3>2 DEF OnceInv, MayResendInv, PubrelAt
    <2>2. ASSUME NEW k \in ids, publications'[k].state = "waiting_for_rec"
          PROVE  /\ ~Taken(m)
                 /\ \A i \in Positions(toClient') : ExactlyAt(i)' /\ toClient'[i].message = m =>
                       /\ toClient'[i].id = k
                       /\ \A j \in Positions(toClient') : i < j =>
                             ~(toClient'[j].type = "PUBREL" /\ toClient'[j].id = k)
      <3>1. \A i \in Positions(toClient') : ExactlyAt(i)' /\ toClient'[i].message = m =>
               i = last /\ ids = {toClient'[i].id}
        BY <1>4, <1>5, <2>2 DEF ExactlyAt
      <3>2. \A i \in Positions(toClient') : i = last =>
               \A j \in Positions(toClient') : i < j =>
                   ~(toClient'[j].type = "PUBREL" /\ toClient'[j].id = k)
        BY <1>5, <1>8
      <3> QED
        BY <1>3, <2>2, <3>1, <3>2
    <2> QED
      BY <1>1, <2>1, <2>2 DEF MayResendInv, Positions, PubrelAt, Taken
  <1> QED
    BY <1>7, <1>9, <1>10 DEF OnceInv

\* The client takes what is first on its connection.
LEMMA ReceivesOnce ==
    ASSUME TypeOK, OnceInv, NEW p, Receives(p)
    PROVE  OnceInv'
  <1>1. /\ p \in ServerPacket /\ 1 \in Positions(toClient) /\ toClient[1] = p
        /\ \A i \in Positions(toClient') :
              i + 1 \in Positions(toClient) /\ toClient'[i] = toClient[i + 1]
        /\ awaitingRel' = IF p.type = "PUBREL" THEN awaitingRel \ {p.id}
                          ELSE IF p.qos = "EXACTLY_ONCE" THEN awaitingRel \cup {p.id}
                          ELSE awaitingRel
        /\ delivered' = IF IsTaken(p) THEN [delivered EXCEPT ![p.message] = @ + 1] ELSE delivered
        /\ UNCHANGED <<publications, sender, published, grantedQoS>>
    BY DEF Receives, serverVars
  <1>2. /\ p.type = "PUBLISH" => p.message \in Message
        /\ p.type \in {"PUBLISH", "PUBREL"}
        /\ \A i \in Positions(toClient') : i \in Nat /\ 1 < i + 1
        /\ \A i \in Positions(toClient), j \in Positions(toClient) : i \in Nat
        /\ \A i, j \in Positions(toClient') : i < j <=> i + 1 < j + 1
        /\ InFlight' = InFlight
    BY <1>1, Types DEF Positions, InFlight
  <1>3. /\ \A m \in Message : Taken(m)' => Taken(m) \/ (IsTaken(p) /\ m = p.message)
        /\ \A m \in Message : delivered'[m] = delivered[m]
                           \/ (IsTaken(p) /\ m = p.message /\ delivered'[m] = delivered[m] + 1)
    <2>1. \A m \in Message : delivered'[m] = delivered[m]
                          \/ (IsTaken(p) /\ m = p.message /\ delivered'[m] = delivered[m] + 1)
      BY <1>1, <1>2 DEF IsTaken, TypeOK
    <2> QED
      BY <2>1 DEF Taken
  <1>4. IsTaken(p) => /\ p.type = "PUBLISH" /\ p.message \in Message
                      /\ p.message <= published
                      /\ p.qos = grantedQoS[p.message]
                      /\ p.qos = "EXACTLY_ONCE" => ~Taken(p.message)
    <2>1. IsTaken(p) => p.type = "PUBLISH"
      BY DEF IsTaken
    <2>2. p.type = "PUBLISH" => p.message <= published /\ p.qos = grantedQoS[p.message]
      BY <1>1 DEF OnceInv, LevelInv
    <2>3. p.type = "PUBLISH" /\ p.qos = "EXACTLY_ONCE" /\ Taken(p.message) => p.id \in awaitingRel
      BY <1>1 DEF OnceInv, HeldInv, ExactlyAt
    <2> QED
      BY <1>2, <2>1, <2>2, <2>3 DEF IsTaken
  <1>5. TakenOnce' /\ LevelInv'
    <2>1. ASSUME NEW m \in Message, grantedQoS[m] = "EXACTLY_ONCE"
          PROVE  delivered'[m] <= 1
      <3>1. CASE IsTaken(p) /\ m = p.message
        <4>1. delivered[m] = 0
          BY <1>4, <2>1, <3>1, Types DEF Taken
        <4> QED
          BY <1>3, <4>1
      <3>2. delivered[m] <= 1
        BY <2>1 DEF OnceInv, TakenOnce
      <3> QED
        BY <1>3, <3>1, <3>2
    <2>2. ASSUME NEW m \in Message, m > published PROVE delivered'[m] = 0
      <3>1. ~(m <= published) /\ delivered[m] = 0
        BY <2>2, Types DEF OnceInv, LevelInv
      <3> QED
        BY <1>3, <1>4, <3>1
    <2>3. \A k \in InFlight : Level(k)' = Level(k)
      BY <1>1 DEF Level
    <2>4. \A i \in Positions(toClient') : toClient'[i].type = "PUBLISH" =>
             /\ toClient'[i].message <= published
             /\ toClient'[i].qos = grantedQoS[toClient'[i].message]
      BY <1>1 DEF OnceInv, LevelInv
    <2> QED
      BY <1>1, <1>2, <2>1, <2>2, <2>3, <2>4 DEF OnceInv, TakenOnce, LevelInv, Positions
  \* What is held for a message that was taken before stays held.
  <1>6. ASSUME NEW i \in Positions(toClient'), ExactlyAt(i)', delivered'[toClient'[i].message] > 0
        PROVE  /\ toClient'[i].id \in awaitingRel'
               /\ \A k \in Positions(toClient') : k < i =>
                     ~(toClient'[k].type = "PUBREL" /\ toClient'[k].id = toClient'[i].id)
    <2>1. /\ ExactlyAt(i + 1) /\ i + 1 \in Positions(toClient)
          /\ toClient[i + 1] = toClient'[i]
      BY <1>1, <1>6 DEF ExactlyAt
    <2>2. PICK m \in Message : m = toClient'[i].message
      BY <2>1, Types DEF ExactlyAt
    <2>3. CASE Taken(m)
      <3>1. /\ toClient[i + 1].id \in awaitingRel
            /\ \A k \in Positions(toClient) : k < i + 1 => ~PubrelAt(k, toClient[i + 1].id)
        BY <2>1, <2>2, <2>3 DEF OnceInv, HeldInv
      <3>2. ~PubrelAt(1, toClient[i + 1].id)
        BY <1>1, <1>2, <3>1
      <3>3. toClient'[i].id \in awaitingRel'
        BY <1>1, <2>1, <3>1, <3>2 DEF PubrelAt
      <3> QED
        BY <1>1, <1>2, <2>1, <3>1, <3>3 DEF PubrelAt
    <2>4. CASE IsTaken(p) /\ m = p.message
      <3>1. p.qos = "EXACTLY_ONCE" /\ ExactlyAt(1)
        <4>1. p.qos = grantedQoS[m] /\ p.type = "PUBLISH"
          BY <1>4, <2>4
        <4>2. grantedQoS[m] = "EXACTLY_ONCE"
          BY <2>1, <2>2 DEF OnceInv, LevelInv, ExactlyAt
        <4> QED
          BY <1>1, <4>1, <4>2 DEF ExactlyAt
      <3>2. /\ p.id = toClient[i + 1].id
            /\ \A k \in Positions(toClient) : 1 < k /\ k < i + 1 => ~PubrelAt(k, p.id)
        BY <1>1, <2>1, <2>2, <2>4, <3>1 DEF OnceInv, HeldInv
      <3>3. p.id \in awaitingRel'
        BY <1>1, <1>4, <2>4, <3>1
      <3> QED
        BY <1>1, <1>2, <2>1, <3>2, <3>3 DEF PubrelAt
    <2> QED
      BY <1>3, <1>6, <2>2, <2>3, <2>4 DEF Taken
  <1>7. ASSUME NEW i \in Positions(toClient'), NEW j \in Positions(toClient'),
               ExactlyAt(i)', ExactlyAt(j)', toClient'[i].message = toClient'[j].message
        PROVE  /\ toClient'[i].id = toClient'[j].id
               /\ \A k \in Positions(toClient') : i < k /\ k < j =>
                     ~(toClient'[k].type = "PUBREL" /\ toClient'[k].id = toClient'[i].id)
    <2>1. /\ ExactlyAt(i + 1) /\ i + 1 \in Positions(toClient) /\ toClient[i + 1] = toClient'[i]
          /\ ExactlyAt(j + 1) /\ j + 1 \in Positions(toClient) /\ toClient[j + 1] = toClient'[j]
      BY <1>1, <1>7 DEF ExactlyAt
    <2>2. /\ toClient[i + 1].id = toClient[j + 1].id
          /\ \A k \in Positions(toClient) :
                i + 1 < k /\ k < j + 1 => ~PubrelAt(k, toClient[i + 1].id)
      BY <1>7, <2>1 DEF OnceInv, HeldInv
    <2> QED
      BY <1>1, <1>2, <2>1, <2>2 DEF PubrelAt
  <1>8. HeldInv'
    BY <1>6, <1>7 DEF HeldInv, Positions, PubrelAt, Taken
  <1>9. ASSUME NEW id \in InFlight, publications[id].state = "waiting_for_rec"
         PROVE  /\ delivered'[publications[id].message] > 0 =>
                      /\ id \in awaitingRel'
                      /\ \A k \in Positions(toClient') :
                            ~(toClient'[k].type = "PUBREL" /\ toClient'[k].id = id)
                /\ \A i \in Positions(toClient') :
                      ExactlyAt(i)' /\ toClient'[i].message = publications[id].message =>
                          /\ toClient'[i].id = id
                          /\ \A k \in Positions(toClient') : i < k =>
                                ~(toClient'[k].type = "PUBREL" /\ toClient'[k].id = id)
    <2>1. PICK m \in Message : m = publications[id].message
      BY Types
    <2>2. /\ Taken(m) => id \in awaitingRel /\ \A k \in Positions(toClient) : ~PubrelAt(k, id)
          /\ \A i \in Positions(toClient) : ExactlyAt(i) /\ toClient[i].message = m =>
                /\ toClient[i].id = id
                /\ \A k \in Positions(toClient) : i < k => ~PubrelAt(k, id)
      BY <1>9, <2>1 DEF OnceInv, MayResendInv
    <2>3. CASE Taken(m)
      <3>1. id \in awaitingRel' /\ \A k \in Positions(toClient') :
               ~(toClient'[k].type = "PUBREL" /\ toClient'[k].id = id)
        BY <1>1, <2>2, <2>3 DEF PubrelAt
      <3>2. \A i \in Positions(toClient') :
               ExactlyAt(i)' /\ toClient'[i].message = m => toClient'[i].id = id
        BY <1>1, <2>2 DEF ExactlyAt
      <3> QED
        BY <2>1, <3>1, <3>2
    <2>4. CASE IsTaken(p) /\ m = p.message
      <3>1. p.qos = "EXACTLY_ONCE" /\ ExactlyAt(1)
        <4>1. p.qos = grantedQoS[m] /\ p.type = "PUBLISH"
          BY <1>4, <2>4
        <4>2. grantedQoS[m] = "EXACTLY_ONCE"
          BY <1>9, <2>1 DEF OnceInv, LevelInv, Level
        <4> QED
          BY <1>1, <4>1, <4>2 DEF ExactlyAt
      <3>2. p.id = id /\ \A k \in Positions(toClient) : 1 < k => ~PubrelAt(k, id)
        BY <1>1, <2>2, <2>4, <3>1
      <3>3. id \in awaitingRel'
        BY <1>1, <1>4, <2>4, <3>1, <3>2
      <3>4. \A k \in Positions(toClient') :
               ~(toClient'[k].type = "PUBREL" /\ toClient'[k].id = id)
        BY <1>1, <1>2, <3>2 DEF PubrelAt
      <3>5. \A i \in Positions(toClient') :
               ExactlyAt(i)' /\ toClient'[i].message = m => toClient'[i].id = id
        BY <1>1, <2>2 DEF ExactlyAt
      <3> QED
        BY <2>1, <3>3, <3>4, <3>5
    <2>5. CASE ~Taken(m)'
      <3>1. ASSUME NEW i \in Positions(toClient'), ExactlyAt(i)', toClient'[i].message = m
            PROVE  /\ toClient'[i].id = id
                   /\ \A k \in Positions(toClient') : i < k =>
                         ~(toClient'[k].type = "PUBREL" /\ toClient'[k].id = id)
        <4>1. /\ ExactlyAt(i + 1) /\ i + 1 \in Positions(toClient)
              /\ toClient[i + 1] = toClient'[i]
          BY <1>1, <3>1 DEF ExactlyAt
        <4>2. /\ toClient[i + 1].id = id
              /\ \A k \in Positions(toClient) : i + 1 < k => ~PubrelAt(k, id)
          BY <2>2, <3>1, <4>1
        <4> QED
          BY <1>1, <1>2, <4>1, <4>2 DEF PubrelAt
      <3> QED
        BY <2>1, <2>5, <3>1 DEF Taken
    <2> QED
      BY <1>3, <2>3, <2>4, <2>5
  <1>10. MayResendInv'
    BY <1>1, <1>2, <1>9 DEF MayResendInv, Positions, PubrelAt, Taken
  <1> QED
    BY <1>5, <1>8, <1>10 DEF OnceInv

LEMMA StoredIsCalm ==
    ASSUME TypeOK, NEW id \in InFlight, NEW p \in Publication, store(id, p),
           p.state = publications[id].state, p.message = publications[id].message,
           UNCHANGED toClient, Quiet
    PROVE  Calm
  <1>1. \A i \in PacketId : publications'[i] = IF i = id THEN p ELSE publications[i]
    BY InFlightType DEF store, TypeOK
  <1>2. InFlight' \subseteq InFlight
    BY <1>1 DEF InFlight
  <1>3. \A i \in InFlight' : i \in PacketId
    BY DEF InFlight
  <1> QED
    BY <1>1, <1>2, <1>3 DEF Calm, Quiet

LEMMA EndedIsCalm ==
    ASSUME \A i \in PacketId : publications'[i] \in {publications[i], NoPublication},
           UNCHANGED toClient, Quiet
    PROVE  Calm
  BY DEF Calm, Quiet, InFlight

LEMMA PublishHandsOut ==
    ASSUME TypeOK, NEW qos \in QoS, NEW dup \in IncomingDup, publish(qos, dup)
    PROVE  \E m, ids : HandsOut(m, qos, ids)
  <1>1. PICK m : m = published + 1
    OBVIOUS
  <1>2. PICK id \in PacketId : id = next_packet_id
    BY ConstantsAssumption DEF next_packet_id, PacketId, TypeOK
  <1>3. /\ m \in Message /\ published' = m /\ dup \in BOOLEAN /\ 0 \in PacketId
        /\ grantedQoS' = [grantedQoS EXCEPT ![m] = qos]
        /\ UNCHANGED <<sender, awaitingRel, delivered>>
    BY <1>1, ConstantsAssumption DEF publish, TypeOK, Message, PacketId
  <1>4. CASE UNCHANGED <<publications, toClient>>
    <2>1. InFlight' = InFlight
      BY <1>4 DEF InFlight
    <2>2. HandsOut(m, qos, {})
      BY <1>1, <1>3, <1>4, <2>1 DEF HandsOut
    <2> QED
      BY <2>2
  <1>5. CASE qos = "AT_MOST_ONCE" /\ publish_using_qos0(m, dup)
    <2>1. UNCHANGED publications /\ send(Publish(0, qos, dup, m))
      BY <1>5 DEF publish_using_qos0
    <2>2. InFlight' = InFlight
      BY <2>1 DEF InFlight
    <2>3. HandsOut(m, qos, {})
      BY <1>1, <1>3, <1>5, <2>1, <2>2 DEF HandsOut
    <2> QED
      BY <2>3
  <1>6. ASSUME NEW initial \in {"initial_qos1", "initial_qos2"},
               qos = IF initial = "initial_qos1" THEN "AT_LEAST_ONCE" ELSE "EXACTLY_ONCE",
               publish_tracked(m, qos, dup, initial)
        PROVE  \E n, ids : HandsOut(n, qos, ids)
    <2> DEFINE p == [state |-> initial, retry_count |-> 0, publish_dup |-> dup,
                     message |-> m, timer |-> NewTimer]
    <2>1. CASE UNCHANGED <<publications, toClient>>
      BY <1>4, <2>1
    <2>2. CASE /\ publications[id] = NoPublication
               /\ send(Publish(id, qos, dup, m)) /\ store(id, start_ack_timeout(p))
      <3>1. p \in StartingPublication /\ p.message = m /\ p.state = initial
        BY <1>3, ConstantsAssumption DEF StartingPublication, NewTimer, Timer
      <3>2. PICK s \in Publication : /\ s = start_ack_timeout(p) /\ s.message = m
                                     /\ s.state = AfterStartAckTimeout(initial)
        BY <3>1, StartAckTimeout
      <3>3. s.state = IF qos = "AT_LEAST_ONCE" THEN "waiting_for_ack" ELSE "waiting_for_rec"
        BY <1>6, <3>2 DEF AfterStartAckTimeout
      <3>4. \A i \in PacketId : publications'[i] = IF i = id THEN s ELSE publications[i]
        BY <2>2, <3>2 DEF store, TypeOK
      <3>5. s # NoPublication
        BY <3>2, ConstantsAssumption
      <3>6. /\ InFlight' = InFlight \cup {id} /\ id \notin InFlight
            /\ \A i \in InFlight : publications'[i] = publications[i]
        BY <2>2, <3>4, <3>5 DEF InFlight
      <3>7. publications'[id] = s
        BY <3>4
      <3>8. HandsOut(m, qos, {id})
        BY <1>1, <1>3, <1>6, <2>2, <3>2, <3>3, <3>6, <3>7 DEF HandsOut
      <3> QED
        BY <3>8
    <2> QED
      BY <1>2, <1>6, <2>1, <2>2 DEF publish_tracked
  <1>7. CASE qos = "AT_LEAST_ONCE" /\ publish_tracked(m, qos, dup, "initial_qos1")
    BY <1>6, <1>7
  <1>8. CASE qos = "EXACTLY_ONCE" /\ publish_tracked(m, qos, dup, "initial_qos2")
    BY <1>6, <1>8
  <1> QED
    BY <1>1, <1>4, <1>5, <1>7, <1>8 DEF publish

LEMMA ResponseIsCalm ==
    ASSUME TypeOK, response_received
    PROVE  Calm \/ \E id : Releases(id)
  <1> DEFINE id == Head(fromClient).id
             type == Head(fromClient).type
             p == [publications[id] EXCEPT !.timer = cancelled(@)]
  <1>1. OldAnswers
    <2>1. fromClient \in Seq(AckPacket) /\ fromClient # <<>> /\ fromClient' = Tail(fromClient)
      BY DEF response_received, TypeOK
    <2> QED
      BY <2>1, TailAt DEF OldAnswers
  <1>2. Quiet
    BY DEF response_received, Quiet
  <1>3. CASE UNCHANGED <<publications, toClient>>
    BY <1>2, <1>3, EndedIsCalm
  <1>4. CASE id \in InFlight /\ \E result : release(id, result) /\ UNCHANGED toClient
    <2>1. \A i \in PacketId : publications'[i] \in {publications[i], NoPublication}
      BY <1>4 DEF release, TypeOK
    <2> QED
      BY <1>2, <1>4, <2>1, EndedIsCalm
  <1>5. CASE id \in InFlight /\ publications[id].state # "waiting_for_ack"
             /\ (send_pubrel(id, p) \/ (store(id, p) /\ UNCHANGED toClient))
    <2>1. /\ publications[id] \in Publication
          /\ p \in Publication /\ p \in StartingPublication
          /\ p.state = publications[id].state /\ p.message = publications[id].message
          /\ p.state \in {"waiting_for_rec", "waiting_for_comp"}
      BY <1>5, InFlightType
      DEF Publication, cancelled, Timer, StartingPublication, WaitingState
    <2>2. CASE send_pubrel(id, p)
      <3>1. /\ send(Pubrel(id)) /\ store(id, start_ack_timeout(p))
            /\ UNCHANGED <<sender, outcome>>
        BY <2>2 DEF send_pubrel
      <3>2. Advances(id, AfterStartAckTimeout(p.state))
        BY <1>1, <1>2, <1>5, <2>1, <3>1, StoredAdvances
      <3>3. AfterStartAckTimeout(p.state) = "waiting_for_comp"
        BY <2>1 DEF AfterStartAckTimeout
      <3> QED
        BY <1>5, <3>1, <3>2, <3>3 DEF Releases
    <2>3. CASE store(id, p) /\ UNCHANGED toClient
      BY <1>2, <1>5, <2>1, <2>3, StoredIsCalm
    <2> QED
      BY <1>5, <2>2, <2>3
  <1>6. CASE /\ id \in InFlight /\ publications[id].state # "waiting_for_ack"
             /\ qos2_response_received(id, type)
    BY <1>3, <1>4, <1>5, <1>6 DEF qos2_response_received
  <1>7. CASE id \in InFlight /\ qos1_response_received(id, type)
    BY <1>3, <1>4, <1>7 DEF qos1_response_received
  <1> QED
    BY <1>3, <1>6, <1>7 DEF response_received

LEMMA TimerIsCalm ==
    ASSUME TypeOK, NEW id \in PacketId, timer_expires(id) \/ ack_timeout_expired(id)
    PROVE  Calm \/ Resends(id) \/ Releases(id)
  <1>1. CASE timer_expires(id)
    <2> DEFINE p == [publications[id] EXCEPT !.timer = [armed |-> FALSE, queued |-> TRUE]]
    <2>1. id \in InFlight /\ store(id, p) /\ Quiet /\ UNCHANGED toClient
      BY <1>1 DEF timer_expires, channelVars, historyVars, Quiet
    <2>2. /\ p \in Publication
          /\ p.message = publications[id].message /\ p.state = publications[id].state
      BY <2>1, InFlightType DEF Publication, Timer
    <2> QED
      BY <2>1, <2>2, StoredIsCalm
  <1>2. CASE ack_timeout_expired(id)
    <2> DEFINE p == [publications[id] EXCEPT !.timer.queued = FALSE,
                                             !.retry_count = NextRetryCount(publications[id])]
               d == [p EXCEPT !.publish_dup = TRUE]
               m == publications[id].message
    <2>1. id \in InFlight /\ publications[id] \in Publication /\ Quiet /\ OldAnswers
      BY <1>2, InFlightType DEF ack_timeout_expired, Quiet, OldAnswers
    <2>2. p \in Publication /\ p.message = m /\ p.state = publications[id].state
      BY <2>1, NextRetryCountType DEF Publication, Timer
    <2>3. /\ p \in StartingPublication /\ d \in StartingPublication
          /\ d.message = m /\ d.state = p.state /\ p.publish_dup \in BOOLEAN
      BY <2>2 DEF Publication, StartingPublication
    <2>4. CASE /\ p.state = "waiting_for_ack"
               /\ send(Publish(id, "AT_LEAST_ONCE", p.publish_dup, p.message))
               /\ store(id, start_ack_timeout(p))
               /\ UNCHANGED <<sender, outcome>>
      <3>1. Advances(id, AfterStartAckTimeout(p.state))
        BY <2>1, <2>2, <2>3, <2>4, StoredAdvances
      <3>2. AfterStartAckTimeout(p.state) = "waiting_for_ack" /\ Level(id) = "AT_LEAST_ONCE"
        BY <2>2, <2>4 DEF AfterStartAckTimeout, Level
      <3> QED
        BY <2>2, <2>3, <2>4, <3>1, <3>2 DEF Resends
    <2>5. CASE /\ p.state = "waiting_for_rec"
               /\ send(Publish(id, "EXACTLY_ONCE", TRUE, p.message))
               /\ store(id, start_ack_timeout(d))
               /\ UNCHANGED <<sender, outcome>>
      <3>1. Advances(id, AfterStartAckTimeout(d.state))
        BY <2>1, <2>3, <2>5, StoredAdvances
      <3>2. AfterStartAckTimeout(d.state) = "waiting_for_comp" /\ Level(id) = "EXACTLY_ONCE"
        BY <2>2, <2>3, <2>5 DEF AfterStartAckTimeout, Level
      <3> QED
        BY <2>2, <2>5, <3>1, <3>2 DEF Resends
    <2>6. CASE p.state = "waiting_for_comp" /\ send_pubrel(id, p)
      <3>1. /\ send(Pubrel(id)) /\ store(id, start_ack_timeout(p))
            /\ UNCHANGED <<sender, outcome>>
        BY <2>6 DEF send_pubrel
      <3>2. Advances(id, AfterStartAckTimeout(p.state))
        BY <2>1, <2>2, <2>3, <3>1, StoredAdvances
      <3>3. AfterStartAckTimeout(p.state) = "waiting_for_comp"
        BY <2>6 DEF AfterStartAckTimeout
      <3> QED
        BY <2>2, <2>6, <3>1, <3>2, <3>3 DEF Releases
    <2>7. CASE release(id, "terminally_failed") /\ UNCHANGED toClient
      <3>1. \A i \in PacketId : publications'[i] \in {publications[i], NoPublication}
        BY <2>7 DEF release, TypeOK
      <3> QED
        BY <2>1, <2>7, <3>1, EndedIsCalm
    <2> QED
      BY <1>2, <2>4, <2>5, <2>6, <2>7 DEF ack_timeout_expired
  <1> QED
    BY <1>1, <1>2

LEMMA NextOnce ==
    ASSUME TypeOK, ResendInv, OnceInv, [Next]_vars
    PROVE  OnceInv'
  <1>1. ASSUME NEW qos \in QoS, NEW dup \in IncomingDup, publish(qos, dup) PROVE OnceInv'
    BY <1>1, PublishHandsOut, HandsOutOnce
  <1>2. CASE response_received
    BY <1>2, ResponseIsCalm, CalmOnce, ReleasesOnce
  <1>3. ASSUME NEW id \in PacketId, timer_expires(id) \/ ack_timeout_expired(id) PROVE OnceInv'
    BY <1>3, TimerIsCalm, CalmOnce, ResendsOnce, ReleasesOnce
  <1>4. CASE connection_closed \/ connection_destroyed \/ UNCHANGED vars
    <2>1. UNCHANGED <<publications, toClient>> /\ Quiet
      BY <1>4 DEF connection_closed, connection_destroyed, vars, serverVars, channelVars,
                  historyVars, Quiet
    <2> QED
      BY <2>1, EndedIsCalm, CalmOnce
  <1>5. CASE session_destroyed
    <2>1. /\ UNCHANGED toClient /\ Quiet
          /\ publications' = [id \in PacketId |-> NoPublication]
      BY <1>5 DEF session_destroyed, channelVars, Quiet
    <2> QED
      BY <2>1, EndedIsCalm, CalmOnce
  <1>6. CASE client_receives
    BY <1>6, ReceivesCases, ReceivesOnce
  <1> QED
    BY <1>1, <1>2, <1>3, <1>4, <1>5, <1>6 DEF Next

\* A subscriber takes a message sent with QoS 2 once, whatever is resent and
\* also when its identifier was in use before: identifiers that wrap in
\* next_packet_identifier may cost a publication its acknowledgement, but they
\* do not make start_ack_timeout send a PUBLISH behind its PUBREL.
THEOREM NoDuplicates == Spec => []TakenOnce
  <1>1. TypeOK /\ ResendInv /\ OnceInv /\ [Next]_vars => OnceInv'
    BY NextOnce
  <1>2. OnceInv => TakenOnce
    BY DEF OnceInv
  <1> QED
    BY InitOnce, <1>1, <1>2, WireAgrees, PTL DEF Spec
-----------------------------------------------------------------------------
(* As long as nothing is repeated                                           *)

\* The stage of its publication in which a packet is under way.
Stage(p) ==
    CASE p.type = "PUBACK" -> "waiting_for_ack"
      [] p.type = "PUBREC" -> "waiting_for_rec"
      [] p.type = "PUBLISH" -> IF p.qos = "EXACTLY_ONCE" THEN "waiting_for_rec"
                               ELSE "waiting_for_ack"
      [] OTHER -> "waiting_for_comp"

IsInStage(p) == p.id \in InFlight /\ publications[p.id].state = Stage(p)

\* A packet about a publication the session keeps.
IsTracked(i) == toClient[i].type = "PUBLISH" => toClient[i].qos # "AT_MOST_ONCE"

\* One packet at a time is under way for each publication in flight, and it is
\* the one that its state is waiting for.
InTurn ==
    /\ \A i \in Positions(toClient) : IsTracked(i) => IsInStage(toClient[i])
    /\ \A i \in Positions(fromClient) : IsInStage(fromClient[i])
    /\ \A i, j \in Positions(toClient) :
          (IsTracked(i) /\ IsTracked(j) /\ toClient[i].id = toClient[j].id) => i = j
    /\ \A i, j \in Positions(fromClient) : fromClient[i].id = fromClient[j].id => i = j
    /\ \A i \in Positions(toClient), j \in Positions(fromClient) :
          IsTracked(i) => toClient[i].id # fromClient[j].id

AnsweredInTurn == sender = "open" => InTurn

\* The packets under way after the first was taken off a channel.
LEMMA TakenOff ==
    ASSUME NEW S, NEW queue \in Seq(S), queue # <<>>
    PROVE  /\ 1 \in Positions(queue) /\ queue[1] = Head(queue) /\ Head(queue) \in S
           /\ \A i \in Positions(Tail(queue)) :
                 /\ i \in Nat /\ i + 1 \in Positions(queue) /\ i + 1 # 1
                 /\ Tail(queue)[i] = queue[i + 1]
  BY DEF Positions

\* The packets under way after one more was put into a channel.
LEMMA PutInto ==
    ASSUME NEW S, NEW queue \in Seq(S), NEW packet \in S
    PROVE  /\ Len(queue) + 1 \notin Positions(queue)
           /\ \A i \in Positions(Append(queue, packet)) :
                 \/ i \in Positions(queue) /\ Append(queue, packet)[i] = queue[i]
                 \/ i = Len(queue) + 1 /\ Append(queue, packet)[i] = packet
  BY DEF Positions

\* The PUBLISH of a message goes under an identifier nothing is under way for.
LEMMA PublishInTurn ==
    ASSUME TypeOK, InTurn, NEW qos \in QoS, NEW dup \in IncomingDup, publish(qos, dup)
    PROVE  InTurn'
  <1>1. PICK m, ids : HandsOut(m, qos, ids)
    BY PublishHandsOut
  <1>2. UNCHANGED fromClient
    BY DEF publish
  <1>3. /\ InFlight' = InFlight \cup ids /\ ids \cap InFlight = {}
        /\ \A i \in InFlight : publications'[i] = publications[i]
        /\ \A i \in ids : /\ publications'[i].state = IF qos = "AT_LEAST_ONCE"
                                                      THEN "waiting_for_ack"
                                                      ELSE "waiting_for_rec"
                          /\ qos \in {"AT_LEAST_ONCE", "EXACTLY_ONCE"}
        /\ m \in Message
    BY <1>1 DEF HandsOut
  <1>4. /\ \A i \in Positions(fromClient) :
              fromClient[i].id \in InFlight' /\ publications'[fromClient[i].id].state = Stage(fromClient[i])
        /\ \A i \in Positions(toClient) : IsTracked(i) =>
              toClient[i].id \in InFlight' /\ publications'[toClient[i].id].state = Stage(toClient[i])
    BY <1>3 DEF InTurn, IsInStage
  <1>5. CASE UNCHANGED toClient
    BY <1>2, <1>4, <1>5 DEF InTurn, IsInStage, IsTracked, Positions
  <1>6. CASE ~UNCHANGED toClient
    <2>1. PICK id \in PacketId, d \in BOOLEAN :
             /\ send(Publish(id, qos, d, m))
             /\ qos # "RESERVED"
             /\ ids = {id} \/ (ids = {} /\ qos = "AT_MOST_ONCE")
      BY <1>1, <1>6 DEF HandsOut
    <2>2. PICK p : p = Publish(id, qos, d, m)
      OBVIOUS
    <2>3. /\ p \in ServerPacket /\ p.id = id /\ p.type = "PUBLISH" /\ p.qos = qos
          /\ toClient' = Append(toClient, p) /\ toClient \in Seq(ServerPacket)
      <3>1. p \in ServerPacket
        BY <1>3, <2>1, <2>2, PacketType
      <3> QED
        BY <1>6, <2>1, <2>2, <3>1 DEF send, Publish, TypeOK
    <2>4. PICK n : n = Len(toClient) + 1
      OBVIOUS
    <2>5. /\ n \notin Positions(toClient)
          /\ \A i \in Positions(toClient') :
                \/ i \in Positions(toClient) /\ toClient'[i] = toClient[i]
                \/ i = n /\ toClient'[i] = p
      BY <2>3, <2>4, PutInto
    <2>6. qos # "AT_MOST_ONCE" =>
             /\ id \in InFlight' /\ publications'[id].state = Stage(p) /\ id \notin InFlight
      BY <1>3, <2>1, <2>3 DEF Stage
    <2>7. \A i \in Positions(toClient') :
             /\ IsTracked(i)' <=> (toClient'[i].type = "PUBLISH" => toClient'[i].qos # "AT_MOST_ONCE")
             /\ IsInStage(toClient[i])' <=> /\ toClient'[i].id \in InFlight'
                                            /\ publications'[toClient'[i].id].state = Stage(toClient'[i])
      BY DEF IsTracked, IsInStage, Stage
    <2>8. \A i \in Positions(toClient') : IsTracked(i)' =>
             \/ i \in Positions(toClient) /\ toClient'[i] = toClient[i] /\ IsTracked(i)
             \/ i = n /\ toClient'[i] = p /\ qos # "AT_MOST_ONCE"
      BY <2>3, <2>5, <2>7 DEF IsTracked
    <2>9. \A i \in Positions(toClient') : IsTracked(i)' => IsInStage(toClient[i])'
      BY <1>4, <2>3, <2>6, <2>7, <2>8
    <2>10. \A i \in Positions(toClient) : IsTracked(i) => toClient[i].id \in InFlight
      BY DEF InTurn, IsInStage
    <2>11. \A i \in Positions(fromClient) : fromClient[i].id \in InFlight
      BY DEF InTurn, IsInStage
    <2>12. \A i, j \in Positions(toClient') :
              (IsTracked(i)' /\ IsTracked(j)' /\ toClient'[i].id = toClient'[j].id) => i = j
      <3>1. \A i \in Positions(toClient') : IsTracked(i)' =>
               \/ /\ i \in Positions(toClient) /\ IsTracked(i)
                  /\ toClient'[i].id = toClient[i].id
                  /\ qos # "AT_MOST_ONCE" => toClient'[i].id # id
               \/ i = n /\ toClient'[i].id = id /\ qos # "AT_MOST_ONCE"
        BY <2>3, <2>6, <2>8, <2>10
      <3> QED
        BY <3>1 DEF InTurn
    <2>13. \A i \in Positions(toClient'), j \in Positions(fromClient) :
              IsTracked(i)' => toClient'[i].id # fromClient[j].id
      <3>1. \A i \in Positions(toClient') : IsTracked(i)' =>
               \/ i \in Positions(toClient) /\ IsTracked(i) /\ toClient'[i].id = toClient[i].id
               \/ toClient'[i].id = id /\ id \notin InFlight
        BY <2>3, <2>6, <2>8
      <3> QED
        BY <2>11, <3>1 DEF InTurn
    <2>14. \A i \in Positions(fromClient') : IsInStage(fromClient[i])'
      BY <1>2, <1>4 DEF IsInStage, Positions, Stage
    <2> QED
      BY <1>2, <2>9, <2>12, <2>13, <2>14 DEF InTurn, Positions
  <1> QED
    BY <1>5, <1>6

\* The client's answer goes where the packet was that it answers.
LEMMA AnswerInTurn ==
    ASSUME TypeOK, InTurn, client_receives
    PROVE  InTurn'
  <1>1. PICK p : p = Head(toClient)
    OBVIOUS
  <1>2. /\ toClient \in Seq(ServerPacket) /\ fromClient \in Seq(AckPacket) /\ toClient # <<>>
        /\ toClient' = Tail(toClient) /\ UNCHANGED publications
    BY DEF client_receives, TypeOK, serverVars
  <1>3. /\ 1 \in Positions(toClient) /\ toClient[1] = p /\ p \in ServerPacket
        /\ \A i \in Positions(toClient') :
              /\ i \in Nat /\ i + 1 \in Positions(toClient) /\ i + 1 # 1
              /\ toClient'[i] = toClient[i + 1]
    BY <1>1, <1>2, TakenOff
  <1>4. InFlight' = InFlight /\ \A q : IsInStage(q) => IsInStage(q)'
    BY <1>2 DEF InFlight, IsInStage, Stage
  <1>5. \A i \in Positions(toClient') : IsTracked(i)' <=> IsTracked(i + 1)
    BY <1>3 DEF IsTracked
  <1>6. /\ \A i \in Positions(toClient') : IsTracked(i)' => IsInStage(toClient[i])'
        /\ \A i, j \in Positions(toClient') :
              (IsTracked(i)' /\ IsTracked(j)' /\ toClient'[i].id = toClient'[j].id) => i = j
        /\ \A i \in Positions(toClient'), j \in Positions(fromClient) :
              IsTracked(i)' => toClient'[i].id # fromClient[j].id
    <2>1. \A i \in Positions(toClient') : IsTracked(i)' => IsInStage(toClient[i])'
      <3>1. \A i \in Positions(toClient) : IsTracked(i) =>
               /\ toClient[i].id \in InFlight'
               /\ publications'[toClient[i].id].state = Stage(toClient[i])
        BY <1>2, <1>4 DEF InTurn, IsInStage
      <3>2. \A i \in Positions(toClient') : IsTracked(i)' =>
               /\ toClient'[i].id \in InFlight'
               /\ publications'[toClient'[i].id].state = Stage(toClient'[i])
        BY <1>3, <1>5, <3>1
      <3> QED
        BY <3>2 DEF IsInStage, Stage
    <2> QED
      BY <1>3, <1>5, <2>1 DEF InTurn
  <1>7. CASE UNCHANGED fromClient
    <2>1. \A i \in Positions(fromClient') : IsInStage(fromClient[i])'
      BY <1>2, <1>4, <1>7 DEF InTurn, IsInStage, Stage, Positions
    <2> QED
      BY <1>6, <1>7, <2>1 DEF InTurn, Positions
  <1>8. CASE ~UNCHANGED fromClient
    <2>1. PICK q \in AckPacket : /\ q.id = p.id /\ Stage(q) = Stage(p) /\ IsTracked(1)
                                 /\ fromClient' = Append(fromClient, q)
      <3>1. CASE p.type = "PUBREL"
        <4>1. fromClient' = Append(fromClient, Ack("PUBCOMP", p.id)) /\ p.id \in PacketId
          BY <1>1, <1>3, <3>1 DEF client_receives, ServerPacket
        <4>2. PICK q \in AckPacket : q = Ack("PUBCOMP", p.id)
          BY <4>1, PacketType
        <4>3. q.id = p.id /\ q.type = "PUBCOMP"
          BY <4>2 DEF Ack
        <4> QED
          BY <1>3, <3>1, <4>1, <4>2, <4>3 DEF Stage, IsTracked
      <3>2. CASE p.type = "PUBLISH" /\ p.qos = "EXACTLY_ONCE"
        <4>1. fromClient' = Append(fromClient, Ack("PUBREC", p.id)) /\ p.id \in PacketId
          BY <1>1, <1>3, <3>2 DEF client_receives, ServerPacket
        <4>2. PICK q \in AckPacket : q = Ack("PUBREC", p.id)
          BY <4>1, PacketType
        <4>3. q.id = p.id /\ q.type = "PUBREC"
          BY <4>2 DEF Ack
        <4> QED
          BY <1>3, <3>2, <4>1, <4>2, <4>3 DEF Stage, IsTracked
      <3>3. CASE p.type = "PUBLISH" /\ p.qos = "AT_LEAST_ONCE"
        <4>1. fromClient' = Append(fromClient, Ack("PUBACK", p.id)) /\ p.id \in PacketId
          BY <1>1, <1>3, <3>3 DEF client_receives, ServerPacket
        <4>2. PICK q \in AckPacket : q = Ack("PUBACK", p.id)
          BY <4>1, PacketType
        <4>3. q.id = p.id /\ q.type = "PUBACK"
          BY <4>2 DEF Ack
        <4> QED
          BY <1>3, <3>3, <4>1, <4>2, <4>3 DEF Stage, IsTracked
      <3> QED
        BY <1>1, <1>8, <3>1, <3>2, <3>3 DEF client_receives
    <2>2. PICK n : n = Len(fromClient) + 1
      OBVIOUS
    <2>3. /\ n \notin Positions(fromClient)
          /\ \A i \in Positions(fromClient') :
                \/ i \in Positions(fromClient) /\ fromClient'[i] = fromClient[i]
                \/ i = n /\ fromClient'[i] = q
      BY <1>2, <2>1, <2>2, PutInto
    <2>4. /\ IsInStage(p) /\ p.id = q.id
          /\ \A i \in Positions(fromClient) : fromClient[i].id # q.id
          /\ \A i \in Positions(toClient') : IsTracked(i)' => toClient'[i].id # q.id
      BY <1>3, <1>5, <2>1 DEF InTurn
    <2>5. q.id \in InFlight' /\ publications'[q.id].state = Stage(q)
      BY <1>2, <1>4, <2>1, <2>4 DEF IsInStage
    <2>6. \A i \in Positions(fromClient) :
             fromClient[i].id \in InFlight' /\ publications'[fromClient[i].id].state = Stage(fromClient[i])
      BY <1>2, <1>4 DEF InTurn, IsInStage
    <2>7. \A i \in Positions(fromClient') :
             fromClient'[i].id \in InFlight' /\ publications'[fromClient'[i].id].state = Stage(fromClient'[i])
      BY <2>3, <2>5, <2>6
    <2>8. \A i \in Positions(fromClient') : IsInStage(fromClient[i])'
      BY <2>7 DEF IsInStage, Stage
    <2>9. \A i, j \in Positions(fromClient') : fromClient'[i].id = fromClient'[j].id => i = j
      BY <2>3, <2>4 DEF InTurn
    <2>10. \A i \in Positions(toClient'), j \in Positions(fromClient') :
              IsTracked(i)' => toClient'[i].id # fromClient'[j].id
      BY <1>6, <2>3, <2>4
    <2> QED
      BY <1>6, <2>8, <2>9, <2>10 DEF InTurn, Positions
  <1> QED
    BY <1>7, <1>8

\* An answer that the state of its publication waits for is the end of it, or
\* makes PUBREL go out; the session does not stop the connection.
LEMMA ResponseInTurn ==
    ASSUME TypeOK, InTurn, sender = "open", response_received
    PROVE  InTurn' /\ UNCHANGED sender
  <1>1. PICK a : a = Head(fromClient)
    OBVIOUS
  <1>2. /\ fromClient \in Seq(AckPacket) /\ fromClient # <<>> /\ fromClient' = Tail(fromClient)
        /\ toClient \in Seq(ServerPacket)
        /\ publications \in [PacketId -> Publication \cup {NoPublication}]
    BY DEF response_received, TypeOK
  <1>3. /\ 1 \in Positions(fromClient) /\ fromClient[1] = a /\ a \in AckPacket
        /\ \A i \in Positions(fromClient') :
              /\ i \in Nat /\ i + 1 \in Positions(fromClient) /\ i + 1 # 1
              /\ fromClient'[i] = fromClient[i + 1]
    BY <1>1, <1>2, TakenOff
  <1>4. /\ a.id \in InFlight /\ publications[a.id].state = Stage(a)
        /\ a.type \in {"PUBACK", "PUBREC", "PUBCOMP"} /\ a.id \in PacketId
        /\ \A i \in Positions(fromClient') : fromClient'[i].id # a.id
        /\ \A i \in Positions(toClient) : IsTracked(i) => toClient[i].id # a.id
    BY <1>3 DEF InTurn, IsInStage, AckPacket
  <1>5. CASE /\ release(a.id, "completed") /\ UNCHANGED <<sender, toClient>>
    <2>1. \A id \in InFlight : id # a.id => id \in InFlight' /\ publications'[id] = publications[id]
      BY <1>2, <1>5 DEF release, InFlight
    <2>2. \A i \in Positions(toClient) : IsTracked(i) =>
             /\ toClient[i].id \in InFlight'
             /\ publications'[toClient[i].id].state = Stage(toClient[i])
      BY <1>4, <2>1 DEF InTurn, IsInStage
    <2>3. \A i \in Positions(fromClient') :
             /\ fromClient'[i].id \in InFlight'
             /\ publications'[fromClient'[i].id].state = Stage(fromClient'[i])
      BY <1>3, <1>4, <2>1 DEF InTurn, IsInStage
    <2>4. /\ \A i \in Positions(toClient') : IsTracked(i)' => IsInStage(toClient[i])'
          /\ \A i \in Positions(fromClient') : IsInStage(fromClient[i])'
      BY <1>5, <2>2, <2>3 DEF IsInStage, IsTracked, Stage, Positions
    <2>5. /\ \A i, j \in Positions(fromClient') : fromClient'[i].id = fromClient'[j].id => i = j
          /\ \A i \in Positions(toClient), j \in Positions(fromClient') :
                IsTracked(i) => toClient[i].id # fromClient'[j].id
      BY <1>3 DEF InTurn
    <2> QED
      BY <1>5, <2>4, <2>5 DEF InTurn, IsTracked, Positions
  <1>6. CASE a.type = "PUBREC"
    <2>1. /\ publications[a.id].state = "waiting_for_rec"
          /\ publications[a.id] \in Publication
      BY <1>4, <1>6, InFlightType DEF Stage
    <2>2. PICK p : p = [publications[a.id] EXCEPT !.timer = cancelled(@)]
      OBVIOUS
    <2>3. p \in StartingPublication /\ p.state = "waiting_for_rec"
      BY <2>1, <2>2 DEF Publication, StartingPublication, WaitingState, Timer, cancelled
    <2>4. send_pubrel(a.id, p)
      BY <1>1, <1>4, <1>6, <2>1, <2>2
      DEF response_received, qos2_response_received, stop
    <2>5. PICK s : s = start_ack_timeout(p)
      OBVIOUS
    <2>6. s \in Publication /\ s.state = "waiting_for_comp"
      BY <2>3, <2>5, StartAckTimeout DEF AfterStartAckTimeout
    <2>7. PICK r \in ServerPacket : r = Pubrel(a.id)
      BY <1>4, PacketType
    <2>8. /\ r.id = a.id /\ r.type = "PUBREL" /\ Stage(r) = "waiting_for_comp"
          /\ toClient' = Append(toClient, r)
          /\ publications' = [publications EXCEPT ![a.id] = s]
          /\ UNCHANGED sender
      BY <2>4, <2>5, <2>7 DEF send_pubrel, send, store, Pubrel, Stage
    <2>9. PICK n : n = Len(toClient) + 1
      OBVIOUS
    <2>10. /\ n \notin Positions(toClient)
           /\ \A i \in Positions(toClient') :
                 \/ i \in Positions(toClient) /\ toClient'[i] = toClient[i]
                 \/ i = n /\ toClient'[i] = r
      BY <1>2, <2>8, <2>9, PutInto
    <2>11. /\ \A id \in InFlight : id # a.id => id \in InFlight' /\ publications'[id] = publications[id]
           /\ a.id \in InFlight' /\ publications'[a.id].state = "waiting_for_comp"
      BY <1>2, <1>4, <2>6, <2>8, ConstantsAssumption DEF InFlight
    <2>12. \A i \in Positions(toClient') : IsTracked(i)' =>
              \/ /\ i \in Positions(toClient) /\ toClient'[i] = toClient[i] /\ IsTracked(i)
                 /\ toClient'[i].id = toClient[i].id /\ toClient'[i].id # a.id
              \/ i = n /\ toClient'[i] = r /\ toClient'[i].id = a.id
      <3>1. \A i \in Positions(toClient') : IsTracked(i)' =>
               \/ i \in Positions(toClient) /\ toClient'[i] = toClient[i] /\ IsTracked(i)
               \/ i = n /\ toClient'[i] = r
        BY <2>10 DEF IsTracked
      <3> QED
        BY <1>4, <2>8, <3>1
    <2>13. \A i \in Positions(toClient') : IsTracked(i)' =>
              /\ toClient'[i].id \in InFlight'
              /\ publications'[toClient'[i].id].state = Stage(toClient'[i])
      <3>1. \A i \in Positions(toClient) : IsTracked(i) =>
               toClient[i].id \in InFlight /\ publications[toClient[i].id].state = Stage(toClient[i])
        BY DEF InTurn, IsInStage
      <3>2. TAKE i \in Positions(toClient')
      <3>3. HAVE IsTracked(i)'
      <3>4. CASE i \in Positions(toClient) /\ toClient'[i] = toClient[i] /\ IsTracked(i)
                 /\ toClient[i].id # a.id
        BY <2>11, <3>1, <3>4
      <3>5. CASE toClient'[i] = r
        BY <2>8, <2>11, <3>5
      <3> QED
        BY <2>12, <3>3, <3>4, <3>5
    <2>14. \A i \in Positions(fromClient') :
              /\ fromClient'[i].id \in InFlight'
              /\ publications'[fromClient'[i].id].state = Stage(fromClient'[i])
      BY <1>3, <1>4, <2>11 DEF InTurn, IsInStage
    <2>15. /\ \A i \in Positions(toClient') : IsTracked(i)' => IsInStage(toClient[i])'
           /\ \A i \in Positions(fromClient') : IsInStage(fromClient[i])'
      BY <2>13, <2>14 DEF IsInStage, Stage
    <2>16. \A i, j \in Positions(toClient') :
              (IsTracked(i)' /\ IsTracked(j)' /\ toClient'[i].id = toClient'[j].id) => i = j
      <3>1. \A i \in Positions(toClient') : IsTracked(i)' =>
               \/ /\ i \in Positions(toClient) /\ IsTracked(i)
                  /\ toClient'[i].id = toClient[i].id /\ toClient'[i].id # a.id
               \/ i = n /\ toClient'[i].id = a.id
        BY <2>12
      <3> QED
        BY <3>1 DEF InTurn
    <2>17. \A i, j \in Positions(fromClient') : fromClient'[i].id = fromClient'[j].id => i = j
      BY <1>3 DEF InTurn
    <2>18. \A i \in Positions(toClient'), j \in Positions(fromClient') :
              IsTracked(i)' => toClient'[i].id # fromClient'[j].id
      <3>1. \A i \in Positions(toClient') : IsTracked(i)' =>
               \/ /\ i \in Positions(toClient) /\ IsTracked(i)
                  /\ toClient'[i].id = toClient[i].id
               \/ toClient'[i].id = a.id
        BY <2>12
      <3> QED
        BY <1>3, <1>4, <3>1 DEF InTurn
    <2> QED
      BY <2>8, <2>15, <2>16, <2>17, <2>18 DEF InTurn, Positions
  <1>7. CASE a.type = "PUBACK"
    <2>1. publications[a.id].state = "waiting_for_ack"
      BY <1>4, <1>7 DEF Stage
    <2>2. release(a.id, "completed") /\ UNCHANGED <<sender, toClient>>
      BY <1>1, <1>4, <1>7, <2>1 DEF response_received, qos1_response_received
    <2> QED
      BY <1>5, <2>2
  <1>8. CASE a.type = "PUBCOMP"
    <2>1. publications[a.id].state = "waiting_for_comp"
      BY <1>4, <1>8 DEF Stage
    <2>2. PICK p : p = [publications[a.id] EXCEPT !.timer = cancelled(@)]
      OBVIOUS
    <2>3. p.state = "waiting_for_comp"
      BY <1>4, <2>1, <2>2, InFlightType DEF Publication
    <2>4. qos2_response_received(a.id, "PUBCOMP")
      BY <1>1, <1>4, <1>8, <2>1 DEF response_received
    <2>5. release(a.id, "completed") /\ UNCHANGED <<sender, toClient>>
      BY <2>2, <2>3, <2>4 DEF qos2_response_received
    <2> QED
      BY <1>5, <2>5
  <1> QED
    BY <1>4, <1>6, <1>7, <1>8

\* All steps but the timeouts that repeat a packet, or give its publication up.
LEMMA NextInTurn ==
    ASSUME TypeOK, AnsweredInTurn,
           \/ \E qos \in QoS, dup \in IncomingDup : publish(qos, dup)
           \/ response_received
           \/ \E id \in PacketId : timer_expires(id)
           \/ connection_closed \/ connection_destroyed \/ session_destroyed
           \/ client_receives
    PROVE  AnsweredInTurn'
  <1> SUFFICES ASSUME sender' = "open"
               PROVE  InTurn'
    BY DEF AnsweredInTurn
  <1>1. CASE \E qos \in QoS, dup \in IncomingDup : publish(qos, dup)
    BY <1>1, PublishInTurn DEF AnsweredInTurn, publish
  <1>2. CASE response_received
    <2>1. sender = "open"
      BY <1>2 DEF response_received, qos1_response_received, qos2_response_received, stop,
         send_pubrel
    <2> QED
      BY <1>2, <2>1, ResponseInTurn DEF AnsweredInTurn
  <1>3. CASE \E id \in PacketId : timer_expires(id)
    <2>1. PICK id \in PacketId : timer_expires(id)
      BY <1>3
    <2>2. /\ UNCHANGED <<sender, toClient, fromClient>> /\ id \in InFlight
          /\ publications' = [publications EXCEPT ![id] =
                [publications[id] EXCEPT !.timer = [armed |-> FALSE, queued |-> TRUE]]]
      BY <2>1 DEF timer_expires, store, channelVars
    <2>3. \A k \in InFlight : k \in InFlight' /\ publications'[k].state = publications[k].state
      <3>1. publications \in [PacketId -> Publication \cup {NoPublication}]
        BY DEF TypeOK
      <3>2. PICK p : p = [publications[id] EXCEPT !.timer = [armed |-> FALSE, queued |-> TRUE]]
        OBVIOUS
      <3>3. p \in Publication /\ p.state = publications[id].state
        BY <2>2, <3>2, InFlightType DEF Publication, Timer
      <3> QED
        BY <2>2, <3>1, <3>2, <3>3, ConstantsAssumption DEF InFlight
    <2>4. InTurn
      BY <2>2 DEF AnsweredInTurn
    <2>5. /\ \A i \in Positions(toClient) : IsTracked(i) =>
                toClient[i].id \in InFlight' /\ publications'[toClient[i].id].state = Stage(toClient[i])
          /\ \A i \in Positions(fromClient) :
                fromClient[i].id \in InFlight' /\ publications'[fromClient[i].id].state = Stage(fromClient[i])
      BY <2>3, <2>4 DEF InTurn, IsInStage
    <2> QED
      BY <2>2, <2>4, <2>5 DEF InTurn, IsInStage, IsTracked, Stage, Positions
  <1>4. CASE connection_closed \/ connection_destroyed \/ session_destroyed
    BY <1>4 DEF connection_closed, connection_destroyed, session_destroyed
  <1>5. CASE client_receives
    BY <1>5, AnswerInTurn DEF AnsweredInTurn, client_receives, serverVars
  <1> QED
    BY <1>1, <1>2, <1>3, <1>4, <1>5

LEMMA InitInTurn == Init => AnsweredInTurn
  BY DEF Init, AnsweredInTurn, InTurn, Positions

=============================================================================
