----------------------------- MODULE RelayProofs -----------------------------
(***************************************************************************)
(* Theorems about the whole way of a message.  A behaviour of Relay is one *)
(* of RxPublications and one of TxPublications: what is proved of each hop *)
(* holds of the whole.                                                     *)
(***************************************************************************)
EXTENDS Relay, FiniteSetTheorems, WellFoundedInduction, TLAPS

RxP == INSTANCE RxPublicationsProofs WITH
    MaxPacketIdentifier <- RxMaxPacketIdentifier, MaxPublications <- RxMaxPublications,
    publications <- rx_publications, sender <- publisher, session <- rx_session,
    toClient <- to_publisher, fromClient <- from_publisher, published <- rx_published

TxP == INSTANCE TxPublicationsProofs WITH
    MaxPacketIdentifier <- TxMaxPacketIdentifier, MaxPublications <- TxMaxPublications,
    IncomingDup <- {FALSE},
    publications <- tx_publications, sender <- subscriber,
    toClient <- to_subscriber, fromClient <- from_subscriber, published <- tx_published

-----------------------------------------------------------------------------
(* The hops                                                                 *)

\* The first hop is RxPublications, in which its theorems are proved.
LEMMA RxActions ==
    /\ Rx!Message = RxP!Message /\ Rx!QoS = RxP!QoS
    /\ Rx!PacketId = RxP!PacketId /\ Rx!ClientPacketId = RxP!ClientPacketId
    /\ Rx!Init => RxP!Init
    /\ Rx!packet_received => RxP!packet_received
    /\ \A id : Rx!timer_expires(id) => RxP!timer_expires(id)
    /\ \A id : Rx!pubrel_timeout_expired(id) => RxP!pubrel_timeout_expired(id)
    /\ Rx!connection_closed => RxP!connection_closed
    /\ Rx!connection_destroyed => RxP!connection_destroyed
    /\ Rx!session_destroyed => RxP!session_destroyed
    /\ \A qos : Rx!client_publishes(qos) => RxP!client_publishes(qos)
    /\ \A id : Rx!client_resends(id) => RxP!client_resends(id)
    /\ Rx!client_receives => RxP!client_receives
    /\ Rx!client_reconnects => RxP!client_reconnects
  <1>1. Rx!Message = RxP!Message /\ Rx!QoS = RxP!QoS
    BY DEF Rx!Message, RxP!Message, Rx!QoS, RxP!QoS
  <1>2. Rx!PacketId = RxP!PacketId /\ Rx!ClientPacketId = RxP!ClientPacketId
    BY DEF Rx!PacketId, RxP!PacketId, Rx!ClientPacketId, RxP!ClientPacketId
  <1>3. Rx!Init => RxP!Init
    BY DEF Rx!Init, RxP!Init, Rx!PacketId, RxP!PacketId, Rx!ClientPacketId,
           RxP!ClientPacketId, Rx!Message, RxP!Message
  <1>4. Rx!packet_received => RxP!packet_received
    BY DEF Rx!packet_received, RxP!packet_received, Rx!client_sent_publish,
           RxP!client_sent_publish, Rx!client_publish_accepted,
           RxP!client_publish_accepted, Rx!client_sent_pubrel, RxP!client_sent_pubrel,
           Rx!send, RxP!send, Rx!stop, RxP!stop, Rx!packet_handled, RxP!packet_handled,
           Rx!start_pubrel_timeout, RxP!start_pubrel_timeout, Rx!forget, RxP!forget,
           Rx!release, RxP!release, Rx!dispatch, RxP!dispatch, Rx!Ack, RxP!Ack,
           Rx!InFlight, RxP!InFlight, Rx!PacketId, RxP!PacketId, Rx!serverVars,
           RxP!serverVars, Rx!channelVars, RxP!channelVars, Rx!clientVars,
           RxP!clientVars, Rx!historyVars, RxP!historyVars
  <1>5. \A id : Rx!timer_expires(id) => RxP!timer_expires(id)
    BY DEF Rx!timer_expires, RxP!timer_expires, Rx!InFlight, RxP!InFlight, Rx!PacketId,
           RxP!PacketId, Rx!serverVars, RxP!serverVars, Rx!channelVars, RxP!channelVars,
           Rx!clientVars, RxP!clientVars, Rx!historyVars, RxP!historyVars
  <1>6. \A id : Rx!pubrel_timeout_expired(id) => RxP!pubrel_timeout_expired(id)
    BY DEF Rx!pubrel_timeout_expired, RxP!pubrel_timeout_expired, Rx!NextRetryCount,
           RxP!NextRetryCount, Rx!start_pubrel_timeout, RxP!start_pubrel_timeout,
           Rx!send, RxP!send, Rx!release, RxP!release, Rx!forget, RxP!forget, Rx!Ack,
           RxP!Ack, Rx!InFlight, RxP!InFlight, Rx!PacketId, RxP!PacketId, Rx!serverVars,
           RxP!serverVars, Rx!channelVars, RxP!channelVars, Rx!clientVars,
           RxP!clientVars, Rx!historyVars, RxP!historyVars
  <1>7. Rx!connection_closed => RxP!connection_closed
    BY DEF Rx!connection_closed, RxP!connection_closed, Rx!InFlight, RxP!InFlight,
           Rx!PacketId, RxP!PacketId, Rx!serverVars, RxP!serverVars, Rx!channelVars,
           RxP!channelVars, Rx!clientVars, RxP!clientVars, Rx!historyVars,
           RxP!historyVars
  <1>8. Rx!connection_destroyed => RxP!connection_destroyed
    BY DEF Rx!connection_destroyed, RxP!connection_destroyed, Rx!InFlight, RxP!InFlight,
           Rx!PacketId, RxP!PacketId, Rx!serverVars, RxP!serverVars, Rx!channelVars,
           RxP!channelVars, Rx!clientVars, RxP!clientVars, Rx!historyVars,
           RxP!historyVars
  <1>9. Rx!session_destroyed => RxP!session_destroyed
    BY DEF Rx!session_destroyed, RxP!session_destroyed, Rx!InFlight, RxP!InFlight,
           Rx!PacketId, RxP!PacketId, Rx!serverVars, RxP!serverVars, Rx!channelVars,
           RxP!channelVars, Rx!clientVars, RxP!clientVars, Rx!historyVars,
           RxP!historyVars
  <1>10. \A qos : Rx!client_publishes(qos) => RxP!client_publishes(qos)
    BY DEF Rx!client_publishes, RxP!client_publishes, Rx!client_sends, RxP!client_sends,
           Rx!Publish, RxP!Publish, Rx!ClientPacketId, RxP!ClientPacketId, Rx!InFlight,
           RxP!InFlight, Rx!PacketId, RxP!PacketId, Rx!serverVars, RxP!serverVars,
           Rx!channelVars, RxP!channelVars, Rx!clientVars, RxP!clientVars,
           Rx!historyVars, RxP!historyVars
  <1>11. \A id : Rx!client_resends(id) => RxP!client_resends(id)
    BY DEF Rx!client_resends, RxP!client_resends, Rx!client_sends, RxP!client_sends,
           Rx!Publish, RxP!Publish, Rx!Pubrel, RxP!Pubrel, Rx!InFlight, RxP!InFlight,
           Rx!PacketId, RxP!PacketId, Rx!serverVars, RxP!serverVars, Rx!channelVars,
           RxP!channelVars, Rx!clientVars, RxP!clientVars, Rx!historyVars,
           RxP!historyVars
  <1>12. Rx!client_receives => RxP!client_receives
    BY DEF Rx!client_receives, RxP!client_receives, Rx!client_sends, RxP!client_sends,
           Rx!Pubrel, RxP!Pubrel, Rx!InFlight, RxP!InFlight, Rx!PacketId, RxP!PacketId,
           Rx!serverVars, RxP!serverVars, Rx!channelVars, RxP!channelVars, Rx!clientVars,
           RxP!clientVars, Rx!historyVars, RxP!historyVars
  <1>13. Rx!client_reconnects => RxP!client_reconnects
    BY DEF Rx!client_reconnects, RxP!client_reconnects, Rx!InFlight, RxP!InFlight,
           Rx!PacketId, RxP!PacketId, Rx!serverVars, RxP!serverVars, Rx!channelVars,
           RxP!channelVars, Rx!clientVars, RxP!clientVars, Rx!historyVars,
           RxP!historyVars
  <1> QED
    BY <1>1, <1>2, <1>3, <1>4, <1>5, <1>6, <1>7, <1>8, <1>9, <1>10, <1>11, <1>12, <1>13

\* The second hop is TxPublications.
LEMMA TxActions ==
    /\ Tx!Message = TxP!Message /\ Tx!QoS = TxP!QoS /\ Tx!PacketId = TxP!PacketId
    /\ Tx!Init => TxP!Init
    /\ \A qos, dup : Tx!publish(qos, dup) => TxP!publish(qos, dup)
    /\ Tx!response_received => TxP!response_received
    /\ \A id : Tx!timer_expires(id) => TxP!timer_expires(id)
    /\ \A id : Tx!ack_timeout_expired(id) => TxP!ack_timeout_expired(id)
    /\ Tx!connection_closed => TxP!connection_closed
    /\ Tx!connection_destroyed => TxP!connection_destroyed
    /\ Tx!session_destroyed => TxP!session_destroyed
    /\ Tx!client_receives => TxP!client_receives
  <1>1. Tx!Message = TxP!Message /\ Tx!QoS = TxP!QoS /\ Tx!PacketId = TxP!PacketId
    BY DEF Tx!Message, TxP!Message, Tx!QoS, TxP!QoS, Tx!PacketId, TxP!PacketId
  <1>2. Tx!Init => TxP!Init
    BY DEF Tx!Init, TxP!Init, Tx!PacketId, TxP!PacketId, Tx!Message, TxP!Message
  <1>3. \A qos, dup : Tx!publish(qos, dup) => TxP!publish(qos, dup)
    BY DEF Tx!publish, TxP!publish, Tx!publish_using_qos0, TxP!publish_using_qos0,
           Tx!publish_tracked, TxP!publish_tracked, Tx!next_packet_id,
           TxP!next_packet_id, Tx!send, TxP!send, Tx!Publish, TxP!Publish, Tx!NewTimer,
           TxP!NewTimer, Tx!start_ack_timeout, TxP!start_ack_timeout,
           Tx!AfterStartAckTimeout, TxP!AfterStartAckTimeout, Tx!armed, TxP!armed,
           Tx!store, TxP!store, Tx!abort, TxP!abort, Tx!InFlight, TxP!InFlight,
           Tx!PacketId, TxP!PacketId, Tx!serverVars, TxP!serverVars, Tx!channelVars,
           TxP!channelVars, Tx!historyVars, TxP!historyVars, Tx!Running, TxP!Running
  <1>4. Tx!response_received => TxP!response_received
    BY DEF Tx!response_received, TxP!response_received, Tx!qos1_response_received,
           TxP!qos1_response_received, Tx!qos2_response_received,
           TxP!qos2_response_received, Tx!stop, TxP!stop, Tx!send, TxP!send,
           Tx!cancelled, TxP!cancelled, Tx!release, TxP!release, Tx!send_pubrel,
           TxP!send_pubrel, Tx!Pubrel, TxP!Pubrel, Tx!start_ack_timeout,
           TxP!start_ack_timeout, Tx!AfterStartAckTimeout, TxP!AfterStartAckTimeout,
           Tx!armed, TxP!armed, Tx!store, TxP!store, Tx!abort, TxP!abort, Tx!InFlight,
           TxP!InFlight, Tx!PacketId, TxP!PacketId, Tx!serverVars, TxP!serverVars,
           Tx!channelVars, TxP!channelVars, Tx!historyVars, TxP!historyVars, Tx!Running,
           TxP!Running
  <1>5. \A id : Tx!timer_expires(id) => TxP!timer_expires(id)
    BY DEF Tx!timer_expires, TxP!timer_expires, Tx!store, TxP!store, Tx!InFlight,
           TxP!InFlight, Tx!PacketId, TxP!PacketId, Tx!serverVars, TxP!serverVars,
           Tx!channelVars, TxP!channelVars, Tx!historyVars, TxP!historyVars, Tx!Running,
           TxP!Running
  <1>6. \A id : Tx!ack_timeout_expired(id) => TxP!ack_timeout_expired(id)
    BY DEF Tx!ack_timeout_expired, TxP!ack_timeout_expired, Tx!NextRetryCount,
           TxP!NextRetryCount, Tx!send, TxP!send, Tx!Publish, TxP!Publish, Tx!Pubrel,
           TxP!Pubrel, Tx!send_pubrel, TxP!send_pubrel, Tx!start_ack_timeout,
           TxP!start_ack_timeout, Tx!AfterStartAckTimeout, TxP!AfterStartAckTimeout,
           Tx!armed, TxP!armed, Tx!store, TxP!store, Tx!release, TxP!release,
           Tx!InFlight, TxP!InFlight, Tx!PacketId, TxP!PacketId, Tx!serverVars,
           TxP!serverVars, Tx!channelVars, TxP!channelVars, Tx!historyVars,
           TxP!historyVars, Tx!Running, TxP!Running
  <1>7. Tx!connection_closed => TxP!connection_closed
    BY DEF Tx!connection_closed, TxP!connection_closed, Tx!InFlight, TxP!InFlight,
           Tx!PacketId, TxP!PacketId, Tx!serverVars, TxP!serverVars, Tx!channelVars,
           TxP!channelVars, Tx!historyVars, TxP!historyVars, Tx!Running, TxP!Running
  <1>8. Tx!connection_destroyed => TxP!connection_destroyed
    BY DEF Tx!connection_destroyed, TxP!connection_destroyed, Tx!NewTimer, TxP!NewTimer,
           Tx!InFlight, TxP!InFlight, Tx!PacketId, TxP!PacketId, Tx!serverVars,
           TxP!serverVars, Tx!channelVars, TxP!channelVars, Tx!historyVars,
           TxP!historyVars, Tx!Running, TxP!Running
  <1>9. Tx!session_destroyed => TxP!session_destroyed
    BY DEF Tx!session_destroyed, TxP!session_destroyed, Tx!Message, TxP!Message,
           Tx!InFlight, TxP!InFlight, Tx!PacketId, TxP!PacketId, Tx!serverVars,
           TxP!serverVars, Tx!channelVars, TxP!channelVars, Tx!historyVars,
           TxP!historyVars, Tx!Running, TxP!Running
  <1>10. Tx!client_receives => TxP!client_receives
    BY DEF Tx!client_receives, TxP!client_receives, Tx!Ack, TxP!Ack, Tx!InFlight,
           TxP!InFlight, Tx!PacketId, TxP!PacketId, Tx!serverVars, TxP!serverVars,
           Tx!channelVars, TxP!channelVars, Tx!historyVars, TxP!historyVars, Tx!Running,
           TxP!Running
  <1> QED
    BY <1>1, <1>2, <1>3, <1>4, <1>5, <1>6, <1>7, <1>8, <1>9, <1>10

\* A step of the whole is a step of either hop, or none of it.
LEMMA RxSteps == [Next]_vars => [RxP!Next]_(RxP!vars)
  <1> SUFFICES ASSUME Next
               PROVE  [RxP!Next]_(RxP!vars)
    BY DEF vars, rxVars, RxP!vars, RxP!serverVars, RxP!channelVars, RxP!clientVars,
           RxP!historyVars
  <1>1. CASE dispatch_publish
    BY <1>1, RxActions DEF dispatch_publish, RxP!Next
  <1>2. CASE publisher_side
    BY <1>2, RxActions DEF publisher_side, RxP!Next
  <1>3. CASE publisher_side_repeats
    BY <1>3, RxActions DEF publisher_side_repeats, RxP!Next
  <1>4. CASE subscriber_side \/ subscriber_side_repeats
    BY <1>4 DEF subscriber_side, subscriber_side_repeats, rxVars, RxP!vars, RxP!serverVars,
                RxP!channelVars, RxP!clientVars, RxP!historyVars
  <1> QED
    BY <1>1, <1>2, <1>3, <1>4 DEF Next

LEMMA TxSteps == maximum_qos \in MaximumQoS /\ [Next]_vars => [TxP!Next]_(TxP!vars)
  <1> SUFFICES ASSUME maximum_qos \in MaximumQoS, Next
               PROVE  [TxP!Next]_(TxP!vars)
    BY DEF vars, txVars, TxP!vars, TxP!serverVars, TxP!channelVars, TxP!historyVars
  <1>1. CASE dispatch_publish
    BY <1>1, TxActions, ConstantsAssumption DEF dispatch_publish, TxP!Next
  <1>2. CASE publisher_side \/ publisher_side_repeats
    BY <1>2 DEF publisher_side, publisher_side_repeats, txVars, TxP!vars, TxP!serverVars,
                TxP!channelVars, TxP!historyVars
  <1>3. CASE subscriber_side
    BY <1>3, TxActions DEF subscriber_side, TxP!Next
  <1>4. CASE subscriber_side_repeats
    BY <1>4, TxActions DEF subscriber_side_repeats, TxP!Next
  <1> QED
    BY <1>1, <1>2, <1>3, <1>4 DEF Next

LEMMA MaximumQoSKept == Spec => [](maximum_qos \in MaximumQoS)
  <1>1. Init => maximum_qos \in MaximumQoS
    BY DEF Init
  <1>2. maximum_qos \in MaximumQoS /\ [Next]_vars => (maximum_qos \in MaximumQoS)'
    BY DEF Next, dispatch_publish, publisher_side, publisher_side_repeats, subscriber_side,
           subscriber_side_repeats, relayVars, vars
  <1> QED
    BY <1>1, <1>2, PTL DEF Spec

LEMMA RxSpec == Spec => RxP!Spec
  <1>1. Init => RxP!Init
    BY RxActions DEF Init
  <1> QED
    BY <1>1, RxSteps, PTL DEF Spec, RxP!Spec

LEMMA TxSpec == Spec => TxP!Spec
  <1>1. Init => TxP!Init
    BY TxActions DEF Init
  <1> QED
    BY <1>1, TxSteps, MaximumQoSKept, PTL DEF Spec, TxP!Spec

\* Constants of the hops.
LEMMA RxConstants ==
    /\ RxMaxPacketIdentifier \in Nat /\ RxMaxPublications \in Nat /\ MaxClientRetries \in Nat
    /\ MaxRetries \in Nat /\ MaxRetryCount \in Nat
    /\ NoPublication \notin RxP!RxPublication \cup RxP!ClientPublication
  BY ConstantsAssumption DEF Rx!RxPublication, RxP!RxPublication, Rx!ClientPublication,
     RxP!ClientPublication, Rx!Message, RxP!Message, Rx!QoS, RxP!QoS

LEMMA TxConstants ==
    /\ TxMaxPacketIdentifier \in Nat /\ TxMaxPublications \in Nat
    /\ MaxRetries \in Nat /\ MaxRetryCount \in Nat
    /\ {FALSE} \subseteq BOOLEAN
    /\ NoPublication \notin TxP!Publication
  BY ConstantsAssumption DEF Tx!Publication, TxP!Publication, Tx!Message, TxP!Message,
     Tx!WaitingState, TxP!WaitingState, Tx!Timer, TxP!Timer

LEMMA HopsKept ==
    Spec => [](RxP!RxInv /\ TxP!TypeOK /\ TxP!TakenOnce)
  <1>1. RxP!Spec => []RxP!RxInv
    BY RxConstants, RxP!Invariant, PTL
  <1>2. TxP!Spec => []TxP!TypeOK
    BY TxConstants, TxP!TypeCorrect, PTL
  <1>3. TxP!Spec => []TxP!TakenOnce
    BY TxConstants, TxP!NoDuplicates, PTL
  <1> QED
    BY RxSpec, TxSpec, <1>1, <1>2, <1>3, PTL

-----------------------------------------------------------------------------
(* Copies                                                                   *)

\* Each dispatch of a message made one copy, for what the subscription asked.
CopiesInv ==
    /\ TypeOK
    /\ \A m \in Rx!Message : Cardinality(Copies(m)) = dispatched[m]
    /\ \A i \in 1 .. tx_published : grantedQoS[i] = maximum_qos

LEMMA InitCopies == Init => CopiesInv
  <1> SUFFICES ASSUME Init
               PROVE  CopiesInv
    OBVIOUS
  <1>1. \A m \in Rx!Message : Copies(m) = {} /\ dispatched[m] = 0
    BY DEF Init, Rx!Init, Copies
  <1>2. /\ forwarded = <<>> /\ dropped = {} /\ resent = FALSE /\ maximum_qos \in MaximumQoS
        /\ tx_published = 0
    BY DEF Init, Tx!Init
  <1>3. forwarded \in Seq(Rx!Message) /\ Len(forwarded) = 0
    BY <1>2
  <1>4. TypeOK
    BY <1>2, <1>3 DEF TypeOK
  <1>5. \A m \in Rx!Message : Cardinality(Copies(m)) = dispatched[m]
    BY <1>1, FS_EmptySet
  <1>6. \A i \in 1 .. tx_published : grantedQoS[i] = maximum_qos
    BY <1>2
  <1> QED
    BY <1>4, <1>5, <1>6 DEF CopiesInv

\* Exactly one message is dispatched at a time: the one whose copy is made.
LEMMA DispatchesOne ==
    ASSUME RxP!RxInv, Rx!packet_received, dispatched' # dispatched
    PROVE  \E m \in Rx!Message :
              /\ dispatched' = [dispatched EXCEPT ![m] = @ + 1]
              /\ m = CHOOSE k \in Rx!Message : dispatched'[k] # dispatched[k]
  <1> DEFINE p == Head(from_publisher)
  <1>1. RxP!TypeInv /\ RxP!packet_received
    BY RxActions DEF RxP!RxInv
  <1>2. RxP!DispatchedOnce(p) \/ RxP!Recorded(p)
    BY <1>1, RxConstants, RxP!ReceivedCases DEF RxP!Ignored, RxP!ReleasedBy
  <1>3. p.type = "PUBLISH" /\ dispatched' = [dispatched EXCEPT ![p.message] = @ + 1]
    BY <1>2 DEF RxP!DispatchedOnce, RxP!Recorded
  <1>4. p \in RxP!ClientPacket
    BY <1>1, RxConstants, RxP!Received
  <1>5. p.message \in Rx!Message
    BY <1>3, <1>4, RxConstants, RxActions, RxP!ClientPacketFields
  <1>6. dispatched \in [Rx!Message -> Nat]
    BY <1>1, RxActions DEF RxP!TypeInv, RxP!TypeOK
  <1>7. \A k \in Rx!Message : dispatched'[k] # dispatched[k] <=> k = p.message
    BY <1>3, <1>5, <1>6
  <1> QED
    BY <1>3, <1>5, <1>7

\* All other steps leave the counts and the copies alone.
LEMMA OtherSteps ==
    ASSUME Next, ~dispatch_publish
    PROVE  /\ UNCHANGED <<dispatched, tx_published, grantedQoS, forwarded, dropped, maximum_qos>>
           /\ resent' \in {resent, TRUE}
  <1>1. CASE publisher_side
    BY <1>1 DEF publisher_side, txVars, relayVars, Rx!timer_expires, Rx!connection_closed,
       Rx!connection_destroyed, Rx!session_destroyed, Rx!client_publishes, Rx!client_receives,
       Rx!historyVars
  <1>2. CASE publisher_side_repeats
    BY <1>2 DEF publisher_side_repeats, txVars, relayVars, Rx!pubrel_timeout_expired,
       Rx!client_resends, Rx!client_reconnects, Rx!historyVars
  <1>3. CASE subscriber_side
    BY <1>3 DEF subscriber_side, rxVars, relayVars, Tx!response_received, Tx!timer_expires,
       Tx!connection_closed, Tx!connection_destroyed, Tx!session_destroyed, Tx!client_receives,
       Tx!historyVars
  <1>4. CASE subscriber_side_repeats
    BY <1>4 DEF subscriber_side_repeats, rxVars, relayVars, Tx!ack_timeout_expired
  <1> QED
    BY <1>1, <1>2, <1>3, <1>4 DEF Next

LEMMA DispatchCopies ==
    ASSUME CopiesInv, RxP!RxInv, TxP!TypeOK, TxP!TypeOK', dispatch_publish
    PROVE  CopiesInv'
  <1>1. PICK m \in Rx!Message : /\ dispatched' = [dispatched EXCEPT ![m] = @ + 1]
                                /\ forwarded' = Append(forwarded, m)
    BY DispatchesOne DEF dispatch_publish
  <1>2. PICK n \in Nat : n = Len(forwarded) /\ n = tx_published
    BY DEF CopiesInv, TypeOK
  <1>3. /\ tx_published' = n + 1 /\ tx_published \in Nat
        /\ grantedQoS' = [grantedQoS EXCEPT ![n + 1] = maximum_qos]
        /\ dropped' \subseteq dropped \cup {n + 1}
        /\ UNCHANGED <<maximum_qos, resent>>
    BY <1>2 DEF dispatch_publish, Tx!publish
  <1>4. /\ forwarded \in Seq(Rx!Message) /\ forwarded' \in Seq(Rx!Message)
        /\ Len(forwarded') = n + 1 /\ forwarded'[n + 1] = m
        /\ \A i \in 1 .. n : forwarded'[i] = forwarded[i]
    BY <1>1, <1>2 DEF CopiesInv, TypeOK
  <1>5. TypeOK'
    BY <1>2, <1>3, <1>4 DEF CopiesInv, TypeOK
  <1>6. ASSUME NEW k \in Rx!Message
        PROVE  Cardinality(Copies(k))' = dispatched'[k]
    <2>1. Copies(k)' = IF k = m THEN Copies(k) \cup {n + 1} ELSE Copies(k)
      BY <1>2, <1>4 DEF Copies
    <2>2. PICK copies \in SUBSET (1 .. n) : copies = Copies(k)
      BY <1>2 DEF Copies
    <2>3. IsFiniteSet(copies) /\ n + 1 \notin copies
      <3>1. IsFiniteSet(1 .. n)
        BY <1>2, FS_Interval
      <3> QED
        BY <1>2, <2>2, <3>1, FS_Subset
    <2>4. /\ Cardinality(copies) = dispatched[k]
          /\ Cardinality(copies \cup {n + 1}) = Cardinality(copies) + 1
      BY <2>2, <2>3, FS_AddElement DEF CopiesInv
    <2>5. dispatched \in [Rx!Message -> Nat]
      BY RxActions DEF RxP!RxInv, RxP!TypeInv, RxP!TypeOK
    <2>6. CASE k = m
      <3>1. Cardinality(Copies(k)') = dispatched[k] + 1
        BY <2>1, <2>2, <2>4, <2>6
      <3> QED
        BY <1>1, <2>5, <2>6, <3>1
    <2>7. CASE k # m
      <3>1. Cardinality(Copies(k)') = dispatched[k]
        BY <2>1, <2>2, <2>4, <2>7
      <3> QED
        BY <1>1, <2>5, <2>7, <3>1
    <2> QED
      BY <2>6, <2>7
  <1>7. \A i \in 1 .. tx_published' : grantedQoS'[i] = maximum_qos'
    <2>1. n + 1 \in TxP!Message /\ grantedQoS \in [TxP!Message -> TxP!QoS]
      BY <1>3, TxConstants DEF TxP!TypeOK, TxP!Message
    <2>2. \A i \in 1 .. n + 1 : i \in TxP!Message /\ (i = n + 1 \/ i \in 1 .. n)
      BY <2>1, TxConstants DEF TxP!Message
    <2> QED
      BY <1>2, <1>3, <2>1, <2>2 DEF CopiesInv
  <1> QED
    BY <1>5, <1>6, <1>7 DEF CopiesInv

LEMMA NextCopies ==
    CopiesInv /\ RxP!RxInv /\ TxP!TypeOK /\ TxP!TypeOK' /\ [Next]_vars => CopiesInv'
  <1> SUFFICES ASSUME CopiesInv, RxP!RxInv, TxP!TypeOK, TxP!TypeOK', [Next]_vars
               PROVE  CopiesInv'
    OBVIOUS
  <1>1. CASE dispatch_publish
    BY <1>1, DispatchCopies
  <1>2. CASE ~dispatch_publish
    <2>1. /\ UNCHANGED <<dispatched, tx_published, grantedQoS, forwarded, dropped, maximum_qos>>
          /\ resent' \in {resent, TRUE}
      BY <1>2, OtherSteps DEF vars, rxVars, txVars, relayVars
    <2> QED
      BY <2>1 DEF CopiesInv, TypeOK, Copies
  <1> QED
    BY <1>1, <1>2

LEMMA CopiesKept == Spec => []CopiesInv
  <1> QED
    BY InitCopies, NextCopies, HopsKept, PTL DEF Spec

-----------------------------------------------------------------------------
(* Counting                                                                 *)

LEMMA LeastNumber ==
    ASSUME NEW T \in SUBSET Nat, T # {}
    PROVE  \E x \in T : \A y \in T : x <= y
  <1>1. PICK x \in T : \A y \in T : ~(<<y, x>> \in OpToRel(<, Nat))
    BY NatLessThanWellFounded, WFMin
  <1>2. \A y \in T : y \in Nat /\ x \in Nat /\ ~(y < x)
    BY <1>1 DEF OpToRel
  <1> QED
    BY <1>2

\* f[n][m] is the sum of step[i][m] for i up to n.
IsSum(f, N, S, step) ==
    /\ f \in [0 .. N -> [S -> Nat]]
    /\ \A m \in S : f[0][m] = 0
    /\ \A n \in 1 .. N, m \in S : f[n][m] = f[n - 1][m] + step[n][m]

\* A sum over a number of steps is defined, however many there are.
LEMMA SumDefined ==
    ASSUME NEW N \in Nat, NEW S, NEW step \in [1 .. N -> [S -> Nat]]
    PROVE  \E f : IsSum(f, N, S, step)
  <1> DEFINE Sums(k, f) == IsSum(f, k, S, step)
             Undefined == {k \in 0 .. N : ~ \E f : Sums(k, f)}
  <1>1. \E f : Sums(0, f)
    <2>1. Sums(0, [n \in 0 .. 0 |-> [m \in S |-> 0]])
      BY DEF IsSum
    <2> QED
      BY <2>1
  <1>2. ASSUME NEW k \in 1 .. N, \E f : Sums(k - 1, f)
        PROVE  \E f : Sums(k, f)
    <2>1. PICK g : Sums(k - 1, g)
      BY <1>2
    <2> DEFINE last == [m \in S |-> g[k - 1][m] + step[k][m]]
               f == [n \in 0 .. k |-> IF n < k THEN g[n] ELSE last]
    <2>2. g \in [0 .. k - 1 -> [S -> Nat]] /\ step[k] \in [S -> Nat] /\ k - 1 \in 0 .. k - 1
      BY <2>1 DEF IsSum
    <2>3. last \in [S -> Nat]
      BY <2>2
    <2>4. /\ f[k] = last
          /\ \A n \in 0 .. k - 1 : n \in 0 .. k /\ f[n] = g[n]
      OBVIOUS
    <2>5. f \in [0 .. k -> [S -> Nat]]
      BY <2>2, <2>3
    <2>6. ASSUME NEW n \in 1 .. k, NEW m \in S
          PROVE  f[n][m] = f[n - 1][m] + step[n][m]
      <3>1. CASE n = k
        BY <2>4, <3>1
      <3>2. CASE n # k
        <4>1. n \in 1 .. k - 1 /\ n \in 0 .. k - 1 /\ n - 1 \in 0 .. k - 1
          BY <3>2
        <4> QED
          BY <2>1, <2>4, <4>1 DEF IsSum
      <3> QED
        BY <3>1, <3>2
    <2>7. \A m \in S : f[0][m] = 0
      BY <2>1, <2>4 DEF IsSum
    <2>8. Sums(k, f)
      BY <2>5, <2>6, <2>7 DEF IsSum
    <2> QED
      BY <2>8
  <1> HIDE DEF Sums
  <1>3. Undefined = {}
    <2> SUFFICES ASSUME Undefined # {}
                 PROVE  FALSE
      OBVIOUS
    <2>1. PICK k \in Undefined : \A j \in Undefined : k <= j
      <3>1. Undefined \in SUBSET Nat
        OBVIOUS
      <3> HIDE DEF Undefined
      <3> QED
        BY <3>1, LeastNumber
    <2>2. k \in 1 .. N
      BY <1>1, <2>1
    <2>3. k - 1 \in 0 .. N /\ k - 1 \notin Undefined
      <3> HIDE DEF Undefined
      <3> QED
        BY <2>1, <2>2
    <2> QED
      BY <1>2, <2>1, <2>2, <2>3
  <1>4. N \notin Undefined
    BY <1>3
  <1>5. PICK f : Sums(N, f)
    BY <1>4
  <1> QED
    BY <1>5 DEF Sums

\* A sum whose steps are of one at most, for the members of a set only.
LEMMA SumOfOnes ==
    ASSUME NEW N \in Nat, NEW C \in SUBSET (1 .. N), NEW s \in [0 .. N -> Nat], s[0] = 0,
           \A n \in 1 .. N : /\ s[n] <= s[n - 1] + 1
                             /\ n \notin C => s[n] = s[n - 1]
    PROVE  s[N] <= Cardinality(C)
  <1> DEFINE Upto(n) == C \cap 1 .. n
             Above == {n \in 0 .. N : ~(s[n] <= Cardinality(Upto(n)))}
  <1>1. \A n \in 0 .. N : IsFiniteSet(Upto(n)) /\ Cardinality(Upto(n)) \in Nat
    <2> TAKE n \in 0 .. N
    <2>1. IsFiniteSet(1 .. n)
      BY FS_Interval
    <2>2. IsFiniteSet(Upto(n))
      BY <2>1, FS_Subset
    <2> QED
      BY <2>2, FS_CardinalityType
  <1>2. 0 \notin Above
    <2>1. s[0] <= Cardinality(Upto(0))
      <3> HIDE DEF Upto
      <3> QED
        BY <1>1
    <2> QED
      BY <2>1
  <1>3. ASSUME NEW n \in 1 .. N, n - 1 \notin Above
        PROVE  n \notin Above
    <2>0. n - 1 \in 0 .. N /\ n \in 0 .. N
      OBVIOUS
    <2>1. s[n - 1] <= Cardinality(Upto(n - 1)) /\ s[n - 1] \in Nat /\ s[n] \in Nat
      BY <1>3, <2>0
    <2>2. CASE n \in C
      <3>1. Upto(n) = Upto(n - 1) \cup {n} /\ n \notin Upto(n - 1)
        BY <2>2
      <3>2. Cardinality(Upto(n)) = Cardinality(Upto(n - 1)) + 1
        <4> HIDE DEF Upto
        <4> QED
          BY <1>1, <2>0, <3>1, FS_AddElement
      <3>3. s[n] <= Cardinality(Upto(n))
        <4> HIDE DEF Upto
        <4> QED
          BY <1>1, <2>0, <2>1, <3>2
      <3> QED
        BY <3>3
    <2>3. CASE n \notin C
      <3>1. Upto(n) = Upto(n - 1)
        BY <2>3
      <3>2. s[n] <= Cardinality(Upto(n))
        <4> HIDE DEF Upto
        <4> QED
          BY <2>1, <2>3, <3>1
      <3> QED
        BY <3>2
    <2> QED
      BY <2>2, <2>3
  <1>4. Above = {}
    <2> SUFFICES ASSUME Above # {}
                 PROVE  FALSE
      OBVIOUS
    <2>1. Above \in SUBSET Nat /\ Above \subseteq 0 .. N
      OBVIOUS
    <2> HIDE DEF Above
    <2>2. PICK n \in Above : \A j \in Above : n <= j
      BY <2>1, LeastNumber
    <2>3. n \in 1 .. N
      BY <1>2, <2>1, <2>2
    <2>4. n - 1 \notin Above
      BY <2>1, <2>2, <2>3
    <2> QED
      BY <1>3, <2>2, <2>3, <2>4
  <1>5. s[N] <= Cardinality(Upto(N))
    <2> HIDE DEF Upto
    <2> QED
      BY <1>4
  <1>6. Upto(N) = C
    OBVIOUS
  <1> QED
    BY <1>5, <1>6

-----------------------------------------------------------------------------
(* From end to end                                                          *)

\* What one copy adds to what the subscriber took of m.
Takes(n, m) == IF n \in Copies(m) THEN delivered[n] ELSE 0

LEMMA ReceivedDefined ==
    ASSUME delivered \in [1 .. TxMaxPublications -> Nat]
    PROVE  /\ received \in [0 .. TxMaxPublications -> [Rx!Message -> Nat]]
           /\ \A m \in Rx!Message : received[0][m] = 0
           /\ \A n \in 1 .. TxMaxPublications, m \in Rx!Message :
                 received[n][m] = received[n - 1][m] + Takes(n, m)
  <1> DEFINE N == TxMaxPublications
             M == Rx!Message
             step == [n \in 1 .. N |-> [m \in M |-> Takes(n, m)]]
  <1>1. N \in Nat
    BY TxConstants
  <1>2. step \in [1 .. N -> [M -> Nat]]
    BY DEF Takes
  <1>3. PICK f \in [0 .. N -> [M -> Nat]] :
           /\ \A m \in M : f[0][m] = 0
           /\ \A n \in 1 .. N, m \in M : f[n][m] = f[n - 1][m] + step[n][m]
    <2> HIDE DEF step, N, M
    <2>1. \E f : IsSum(f, N, M, step)
      BY <1>1, <1>2, SumDefined
    <2> QED
      BY <2>1 DEF IsSum
  <1>4. \A n \in 1 .. N, m \in M : f[n][m] = f[n - 1][m] + Takes(n, m)
    BY <1>3
  <1> HIDE DEF step
  <1> DEFINE Sum(g) == [n \in 0 .. N |-> [m \in M |->
                 IF n = 0 THEN 0 ELSE g[n - 1][m] + IF n \in Copies(m) THEN delivered[n] ELSE 0]]
  <1>5. f = Sum(f)
    <2>1. \A n \in 0 .. N : f[n] = Sum(f)[n]
      <3> TAKE n \in 0 .. N
      <3>1. f[n] \in [M -> Nat]
        BY <1>3
      <3>2. \A m \in M : f[n][m] = Sum(f)[n][m]
        BY <1>1, <1>3, <1>4 DEF Takes
      <3>3. Sum(f)[n] = [m \in M |-> Sum(f)[n][m]]
        OBVIOUS
      <3> QED
        BY <3>1, <3>2, <3>3
    <2> QED
      BY <1>3, <2>1
  <1>6. received = Sum(received)
    BY <1>5 DEF received
  <1>7. received = f
    <2> DEFINE Other == {n \in 0 .. N : received[n] # f[n]}
    <2>1. ASSUME NEW n \in 0 .. N, n # 0 => n - 1 \notin Other
          PROVE  n \notin Other
      <3>1. received[n] = Sum(received)[n] /\ f[n] = Sum(f)[n]
        BY <1>5, <1>6
      <3>2. n # 0 => n - 1 \in 0 .. N /\ received[n - 1] = f[n - 1]
        BY <1>1, <2>1
      <3>3. Sum(received)[n] = Sum(f)[n]
        BY <3>2
      <3> QED
        BY <3>1, <3>3
    <2>2. Other \subseteq 0 .. N /\ Other \in SUBSET Nat
      BY <1>1
    <2>3. Other = {}
      <3> HIDE DEF Other, N
      <3>1. ASSUME Other # {}
            PROVE  FALSE
        <4>1. PICK n \in Other : \A k \in Other : n <= k
          BY <2>2, <3>1, LeastNumber
        <4>2. n \in 0 .. N /\ (n # 0 => n - 1 \notin Other)
          BY <1>1, <2>2, <4>1
        <4> QED
          BY <2>1, <4>1, <4>2
      <3> QED
        BY <3>1
    <2>4. received = [n \in 0 .. N |-> received[n]]
      BY <1>6
    <2> QED
      BY <1>3, <2>3, <2>4
  <1> QED
    BY <1>3, <1>4, <1>7

\* What of m was taken is no more than its copies, if each is taken once.
LEMMA CopiesTaken ==
    ASSUME CopiesInv, TxP!TypeOK, NEW m \in Rx!Message,
           \A i \in Copies(m) : delivered[i] <= 1
    PROVE  received[tx_published][m] <= Cardinality(Copies(m))
  <1>1. PICK N \in 0 .. TxMaxPublications : N = tx_published /\ N = Len(forwarded)
    BY DEF CopiesInv, TypeOK, TxP!TypeOK
  <1>2. delivered \in [1 .. TxMaxPublications -> Nat] /\ TxMaxPublications \in Nat
    BY TxConstants DEF TxP!TypeOK, TxP!Message
  <1>3. PICK C \in SUBSET (1 .. N) : C = Copies(m)
    BY <1>1 DEF Copies
  <1>4. /\ received \in [0 .. TxMaxPublications -> [Rx!Message -> Nat]]
        /\ received[0][m] = 0
        /\ \A n \in 1 .. TxMaxPublications : received[n][m] = received[n - 1][m] + Takes(n, m)
    BY <1>2, ReceivedDefined
  <1>5. PICK s \in [0 .. N -> Nat] : \A n \in 0 .. N : s[n] = received[n][m]
    <2>1. \A n \in 0 .. N : received[n][m] \in Nat
      BY <1>1, <1>2, <1>4
    <2>2. [n \in 0 .. N |-> received[n][m]] \in [0 .. N -> Nat]
      BY <2>1
    <2> QED
      BY <2>2
  <1>6. s[0] = 0
    BY <1>1, <1>2, <1>4, <1>5
  <1>7. \A n \in 1 .. N : s[n] <= s[n - 1] + 1 /\ (n \notin C => s[n] = s[n - 1])
    <2> TAKE n \in 1 .. N
    <2>0. N \in Nat /\ N <= TxMaxPublications
      BY <1>1, <1>2
    <2>1. n \in 1 .. TxMaxPublications /\ n \in 0 .. N /\ n - 1 \in 0 .. N
      BY <1>2, <2>0
    <2>2. s[n] = s[n - 1] + Takes(n, m) /\ s[n] \in Nat /\ s[n - 1] \in Nat
      BY <1>4, <1>5, <2>1
    <2>3. Takes(n, m) <= 1 /\ Takes(n, m) \in Nat /\ (n \notin C => Takes(n, m) = 0)
      BY <1>2, <1>3, <2>1 DEF Takes
    <2> QED
      BY <2>2, <2>3
  <1>8. s[N] <= Cardinality(C)
    <2>1. N \in Nat
      BY <1>2
    <2> QED
      BY <2>1, <1>6, <1>7, SumOfOnes, Zenon
  <1> QED
    BY <1>1, <1>2, <1>3, <1>5, <1>8

\* Copies are as many as dispatches, and the publisher's session counts those.
LEMMA ExactlyOnceHolds ==
    CopiesInv /\ RxP!RxInv /\ TxP!TypeOK /\ TxP!TakenOnce => ExactlyOnceEndToEnd
  <1> SUFFICES ASSUME CopiesInv, RxP!RxInv, TxP!TypeOK, TxP!TakenOnce,
                      NEW m \in Rx!Message,
                      publishedQoS[m] = "EXACTLY_ONCE", maximum_qos = "EXACTLY_ONCE"
               PROVE  received[tx_published][m] <= 1 + forgotten[m]
    BY DEF ExactlyOnceEndToEnd
  <1>1. tx_published \in 0 .. TxMaxPublications /\ TxMaxPublications \in Nat
    BY TxConstants DEF TxP!TypeOK
  <1>2. \A i \in Copies(m) : delivered[i] <= 1
    BY <1>1 DEF CopiesInv, TypeOK, Copies, TxP!TakenOnce, TxP!Message
  <1>3. received[tx_published][m] <= dispatched[m]
    BY <1>2, CopiesTaken DEF CopiesInv
  <1>4. dispatched[m] <= forgotten[m] + 1 /\ dispatched[m] \in Nat /\ forgotten[m] \in Nat
    BY RxActions DEF RxP!RxInv, RxP!RecordInv, RxP!TypeInv, RxP!TypeOK
  <1>5. received[tx_published][m] \in Nat
    <2>1. delivered \in [1 .. TxMaxPublications -> Nat]
      BY DEF TxP!TypeOK, TxP!Message
    <2> QED
      BY <1>1, <2>1, ReceivedDefined
  <1> QED
    BY <1>3, <1>4, <1>5

\* However the retries of publisher, server and subscriber cross, and however
\* often the subscriber's identifiers wrap: a QoS 2 message for a QoS 2
\* subscription is taken once, and once more at most for each time that
\* rx_in_flight_publications had lost its record of having dispatched it.
THEOREM ExactlyOnce == Spec => []ExactlyOnceEndToEnd
  BY CopiesKept, HopsKept, ExactlyOnceHolds, PTL

\* Types; mqtt_client_session_manager::publish makes one copy of what the handler
\* of a PUBLISH dispatches, and each copy has its own number in the session.
THEOREM TypeCorrect == Spec => []TypeOK
  <1>1. CopiesInv => TypeOK
    BY DEF CopiesInv
  <1> QED
    BY <1>1, CopiesKept, PTL

\* Sessions that run together in one server still keep, each on its own hop,
\* what Delivery promises: nothing one of them does to a packet it shares with
\* the other breaks it.
THEOREM HopsDeliver == Spec => Rx!ImplementsDelivery /\ Tx!DeliverySteps
  <1>1. RxP!Spec => RxP!ImplementsDelivery
    BY RxConstants, RxP!RefinesDelivery, PTL
  <1>2. TxP!Spec => TxP!DeliverySteps
    BY TxConstants, TxP!FollowsDelivery, PTL
  <1>3. RxP!Hop!Init => Rx!Hop!Init
    BY DEF Rx!Hop!Init, RxP!Hop!Init, Rx!Message, RxP!Message, Rx!delivery_status,
           RxP!delivery_status
  <1>4. [RxP!Hop!Next]_(RxP!Hop!vars) => [Rx!Hop!Next]_(Rx!Hop!vars)
    BY DEF Rx!Hop!Next, RxP!Hop!Next, Rx!Hop!Publish, RxP!Hop!Publish, Rx!Hop!Deliver,
           RxP!Hop!Deliver, Rx!Hop!Deliverable, RxP!Hop!Deliverable, Rx!Hop!Forget,
           RxP!Hop!Forget, Rx!Hop!Complete, RxP!Hop!Complete, Rx!Hop!Abandon,
           RxP!Hop!Abandon, Rx!Hop!Level, RxP!Hop!Level, Rx!Hop!vars, RxP!Hop!vars,
           Rx!Message, RxP!Message, Rx!delivery_status, RxP!delivery_status
  <1>5. TxP!Hop!Init => Tx!Hop!Init
    BY DEF Tx!Hop!Init, TxP!Hop!Init, Tx!Message, TxP!Message, Tx!delivery_status,
           TxP!delivery_status
  <1>6. [TxP!NoWrap' => [TxP!Hop!Next]_(TxP!Hop!vars)]_(TxP!vars)
           => [Tx!NoWrap' => [Tx!Hop!Next]_(Tx!Hop!vars)]_(Tx!vars)
    BY DEF Tx!Hop!Next, TxP!Hop!Next, Tx!Hop!Publish, TxP!Hop!Publish, Tx!Hop!Deliver,
           TxP!Hop!Deliver, Tx!Hop!Deliverable, TxP!Hop!Deliverable, Tx!Hop!Forget,
           TxP!Hop!Forget, Tx!Hop!Complete, TxP!Hop!Complete, Tx!Hop!Abandon,
           TxP!Hop!Abandon, Tx!Hop!Level, TxP!Hop!Level, Tx!Hop!vars, TxP!Hop!vars,
           Tx!Message, TxP!Message, Tx!delivery_status, TxP!delivery_status, Tx!NoWrap,
           TxP!NoWrap,
           Tx!vars, TxP!vars, Tx!serverVars, TxP!serverVars, Tx!channelVars, TxP!channelVars,
           Tx!historyVars, TxP!historyVars
  <1>7. RxP!ImplementsDelivery => Rx!ImplementsDelivery
    BY <1>3, <1>4, PTL DEF RxP!ImplementsDelivery, Rx!ImplementsDelivery, RxP!Hop!Spec,
       Rx!Hop!Spec
  <1>8. TxP!DeliverySteps => Tx!DeliverySteps
    BY <1>5, <1>6, PTL DEF TxP!DeliverySteps, Tx!DeliverySteps
  <1> QED
    BY RxSpec, TxSpec, <1>1, <1>2, <1>7, <1>8, PTL
-----------------------------------------------------------------------------
(* As long as nothing is repeated                                           *)

\* Neither hop has more than one packet under way for a publication.
QuietInv == ~resent => RxP!AnsweredInTurn /\ TxP!AnsweredInTurn

LEMMA InitQuiet == Init => QuietInv
  <1>1. Init => RxP!Init /\ TxP!Init
    BY RxActions, TxActions DEF Init
  <1>2. RxP!Init => RxP!AnsweredInTurn
    BY RxConstants, RxP!InitInTurn
  <1>3. TxP!Init => TxP!AnsweredInTurn
    BY TxConstants, TxP!InitInTurn
  <1> QED
    BY <1>1, <1>2, <1>3 DEF QuietInv

LEMMA PublisherQuiet ==
    ASSUME RxP!RxInv, RxP!AnsweredInTurn, dispatch_publish \/ publisher_side \/ UNCHANGED rxVars
    PROVE  RxP!AnsweredInTurn'
  <1>1. CASE dispatch_publish \/ publisher_side
    <2>1. \/ RxP!packet_received
          \/ \E id \in RxP!PacketId : RxP!timer_expires(id)
          \/ RxP!connection_closed \/ RxP!connection_destroyed \/ RxP!session_destroyed
          \/ \E qos \in RxP!QoS : RxP!client_publishes(qos)
          \/ RxP!client_receives
      BY <1>1, RxActions DEF dispatch_publish, publisher_side
    <2> QED
      BY <2>1, RxConstants, RxP!NextInTurn
  <1>2. CASE UNCHANGED rxVars
    BY <1>2 DEF rxVars, RxP!AnsweredInTurn, RxP!InTurn, RxP!Positions
  <1> QED
    BY <1>1, <1>2

LEMMA SubscriberQuiet ==
    ASSUME TxP!TypeOK, TxP!AnsweredInTurn, maximum_qos \in MaximumQoS,
           dispatch_publish \/ subscriber_side \/ UNCHANGED txVars
    PROVE  TxP!AnsweredInTurn'
  <1>1. CASE dispatch_publish \/ subscriber_side
    <2>1. \/ \E qos \in TxP!QoS, dup \in {FALSE} : TxP!publish(qos, dup)
          \/ TxP!response_received
          \/ \E id \in TxP!PacketId : TxP!timer_expires(id)
          \/ TxP!connection_closed \/ TxP!connection_destroyed \/ TxP!session_destroyed
          \/ TxP!client_receives
      BY <1>1, TxActions, ConstantsAssumption DEF dispatch_publish, subscriber_side
    <2> QED
      BY <2>1, TxConstants, TxP!NextInTurn
  <1>2. CASE UNCHANGED txVars
    BY <1>2 DEF txVars, TxP!AnsweredInTurn, TxP!InTurn, TxP!Positions, TxP!IsTracked,
       TxP!IsInStage, TxP!Stage, TxP!InFlight
  <1> QED
    BY <1>1, <1>2

LEMMA NextQuiet ==
    RxP!RxInv /\ TxP!TypeOK /\ CopiesInv /\ QuietInv /\ [Next]_vars => QuietInv'
  <1> SUFFICES ASSUME RxP!RxInv, TxP!TypeOK, CopiesInv, QuietInv, [Next]_vars, ~resent'
               PROVE  RxP!AnsweredInTurn' /\ TxP!AnsweredInTurn'
    BY DEF QuietInv
  <1>1. /\ dispatch_publish \/ publisher_side \/ UNCHANGED rxVars
        /\ dispatch_publish \/ subscriber_side \/ UNCHANGED txVars
        /\ UNCHANGED resent
    BY DEF Next, dispatch_publish, publisher_side, publisher_side_repeats, subscriber_side,
       subscriber_side_repeats, vars
  <1>2. RxP!AnsweredInTurn /\ TxP!AnsweredInTurn
    BY <1>1 DEF QuietInv
  <1>3. maximum_qos \in MaximumQoS
    BY DEF CopiesInv, TypeOK
  <1> QED
    BY <1>1, <1>2, <1>3, PublisherQuiet, SubscriberQuiet

\* Only a packet that is received shortens its channel and stops a connection.
LEMMA StopsOnlyAfter ==
    RxP!RxInv /\ TxP!TypeOK /\ QuietInv /\ [Next]_vars => (SessionStopsConnection => resent)
  <1> SUFFICES ASSUME RxP!RxInv, TxP!TypeOK, QuietInv, Next, ~resent
               PROVE  ~SessionStopsConnection
    <2>1. UNCHANGED vars => ~SessionStopsConnection
      BY DEF vars, rxVars, txVars, SessionStopsConnection
    <2> QED
      BY <2>1
  <1>1. RxP!AnsweredInTurn /\ TxP!AnsweredInTurn
    BY DEF QuietInv
  <1>2. ~(Len(from_publisher') < Len(from_publisher) /\ publisher = "open" /\ publisher' = "closed")
    <2> SUFFICES ASSUME Len(from_publisher') < Len(from_publisher), publisher = "open",
                        publisher' = "closed"
                 PROVE  FALSE
      OBVIOUS
    <2>1. CASE Rx!packet_received
      BY <1>1, <2>1, RxActions, RxConstants, RxP!ReceivedStaysOpen
    <2>2. CASE ~Rx!packet_received
      <3>1. from_publisher' = from_publisher \/ publisher' = publisher
        BY <2>2 DEF Next, dispatch_publish, publisher_side, publisher_side_repeats,
           subscriber_side, subscriber_side_repeats, rxVars, Rx!timer_expires,
           Rx!connection_closed, Rx!connection_destroyed, Rx!session_destroyed,
           Rx!client_publishes, Rx!client_receives, Rx!pubrel_timeout_expired,
           Rx!client_resends, Rx!client_reconnects, Rx!serverVars, Rx!channelVars
      <3> QED
        BY <3>1 DEF RxP!RxInv, RxP!TypeInv, RxP!TypeOK
    <2> QED
      BY <2>1, <2>2
  <1>3. ~(Len(from_subscriber') < Len(from_subscriber) /\ subscriber = "open" /\ subscriber' = "closed")
    <2> SUFFICES ASSUME Len(from_subscriber') < Len(from_subscriber), subscriber = "open",
                        subscriber' = "closed"
                 PROVE  FALSE
      OBVIOUS
    <2>1. CASE Tx!response_received
      <3>1. TxP!response_received /\ TxP!InTurn
        BY <1>1, <2>1, TxActions DEF TxP!AnsweredInTurn
      <3>2. subscriber' = subscriber
        BY <3>1, TxConstants, TxP!ResponseInTurn
      <3> QED
        BY <3>2
    <2>2. CASE ~Tx!response_received
      <3>1. from_subscriber' = from_subscriber \/ subscriber' = subscriber
        BY <2>2 DEF Next, dispatch_publish, publisher_side, publisher_side_repeats,
           subscriber_side, subscriber_side_repeats, txVars, Tx!publish, Tx!timer_expires,
           Tx!connection_closed, Tx!connection_destroyed, Tx!session_destroyed,
           Tx!client_receives, Tx!ack_timeout_expired, Tx!serverVars, Tx!channelVars
      <3> QED
        BY <3>1 DEF TxP!TypeOK
    <2> QED
      BY <2>1, <2>2
  <1> QED
    BY <1>2, <1>3 DEF SessionStopsConnection

\* "[MQTT-4.8.0-1] Protocol violation": the answers that both classes of
\* publications take for one, and stop the connection for, never come from a
\* client that follows MQTT before something was sent twice, given up, or carried
\* over a reconnect; however many identifiers there are, and if they wrap.
THEOREM StopsOnlyAfterRepetition == Spec => StoppedOnlyAfterRepetition
  <1>1. RxP!RxInv /\ TxP!TypeOK /\ CopiesInv /\ QuietInv /\ [Next]_vars => QuietInv'
    BY NextQuiet
  <1>2. RxP!RxInv /\ TxP!TypeOK /\ QuietInv /\ [Next]_vars => (SessionStopsConnection => resent)
    BY StopsOnlyAfter
  <1> QED
    BY InitQuiet, <1>1, <1>2, HopsKept, CopiesKept, PTL DEF Spec, StoppedOnlyAfterRepetition

-----------------------------------------------------------------------------
(* What either hop promises.  Both implement Delivery, so that what follows *)
(* from it, for every set of messages, says something of both.              *)

CONSTANT HopMessage

VARIABLES hop_qos, hop_status, hop_delivered, hop_forgotten

Promise == INSTANCE Delivery WITH
    Message <- HopMessage, qos <- hop_qos, status <- hop_status,
    delivered <- hop_delivered, forgotten <- hop_forgotten

\* TakenAsOftenAsAllowed is not inductive without knowing that forgotten
\* counts no more than was delivered; CompletedWasDelivered is.
PromiseInv == Promise!TypeOK /\ Promise!TakenAsOftenAsAllowed /\ Promise!CompletedWasDelivered

\* Before anything is published nothing is known or delivered.
LEMMA InitPromiseInv == Promise!Init => PromiseInv
  BY DEF Promise!Init, PromiseInv, Promise!TypeOK, Promise!Level,
         Promise!TakenAsOftenAsAllowed, Promise!CompletedWasDelivered

\* The levels and statuses stay within their types.
LEMMA StepTypes == Promise!TypeOK /\ [Promise!Next]_Promise!vars => Promise!TypeOK'
  <1> SUFFICES ASSUME Promise!TypeOK, [Promise!Next]_Promise!vars PROVE Promise!TypeOK'
    OBVIOUS
  <1>1. ASSUME NEW m \in HopMessage, NEW level \in Promise!Level, Promise!Publish(m, level)
        PROVE  Promise!TypeOK'
    <2>1. PICK s \in {"untracked", "dropped", "in_flight"} :
              hop_status' = [hop_status EXCEPT ![m] = s]
      BY <1>1 DEF Promise!Publish
    <2> QED
      BY <1>1, <2>1 DEF Promise!Publish, Promise!TypeOK
  <1>2. ASSUME NEW m \in HopMessage, Promise!Deliver(m) \/ Promise!Forget(m) \/ Promise!Complete(m)
        PROVE  Promise!TypeOK'
    BY <1>2 DEF Promise!Deliver, Promise!Forget, Promise!Complete, Promise!TypeOK
  <1>3. ASSUME NEW ms \in SUBSET HopMessage, Promise!Abandon(ms) PROVE Promise!TypeOK'
    BY <1>3 DEF Promise!Abandon, Promise!TypeOK
  <1>4. CASE UNCHANGED Promise!vars
    BY <1>4 DEF Promise!vars, Promise!TypeOK
  <1> QED
    BY <1>1, <1>2, <1>3, <1>4 DEF Promise!Next

\* Every step keeps the number of deliveries within what was forgotten.
LEMMA StepTaken ==
    PromiseInv /\ [Promise!Next]_Promise!vars => Promise!TakenAsOftenAsAllowed'
  <1> SUFFICES ASSUME Promise!TypeOK, Promise!CompletedWasDelivered,
                      Promise!TakenAsOftenAsAllowed, [Promise!Next]_Promise!vars,
                      NEW n \in HopMessage
               PROVE  /\ hop_qos'[n] = "EXACTLY_ONCE" => hop_delivered'[n] <= 1 + hop_forgotten'[n]
                      /\ hop_qos'[n] = "AT_MOST_ONCE" => hop_delivered'[n] <= 1
    BY DEF PromiseInv, Promise!TakenAsOftenAsAllowed
  <1>0. hop_delivered[n] \in Nat /\ hop_forgotten[n] \in Nat
    BY DEF Promise!TypeOK
  <1>1. ASSUME NEW m \in HopMessage, NEW level \in Promise!Level, Promise!Publish(m, level)
        PROVE  /\ hop_qos'[n] = "EXACTLY_ONCE" => hop_delivered'[n] <= 1 + hop_forgotten'[n]
               /\ hop_qos'[n] = "AT_MOST_ONCE" => hop_delivered'[n] <= 1
    \* What is published now was not delivered before.
    <2>1. hop_status[m] = "unpublished" /\ hop_delivered[m] = 0
      BY <1>1 DEF Promise!Publish, Promise!CompletedWasDelivered
    <2> QED
      BY <1>0, <1>1, <2>1 DEF Promise!Publish, Promise!TypeOK, Promise!TakenAsOftenAsAllowed
  <1>2. ASSUME NEW m \in HopMessage, Promise!Deliver(m)
        PROVE  /\ hop_qos'[n] = "EXACTLY_ONCE" => hop_delivered'[n] <= 1 + hop_forgotten'[n]
               /\ hop_qos'[n] = "AT_MOST_ONCE" => hop_delivered'[n] <= 1
    BY <1>0, <1>2 DEF Promise!Deliver, Promise!Deliverable, Promise!TypeOK,
                      Promise!TakenAsOftenAsAllowed
  <1>3. ASSUME NEW m \in HopMessage, Promise!Forget(m) \/ Promise!Complete(m)
        PROVE  /\ hop_qos'[n] = "EXACTLY_ONCE" => hop_delivered'[n] <= 1 + hop_forgotten'[n]
               /\ hop_qos'[n] = "AT_MOST_ONCE" => hop_delivered'[n] <= 1
    BY <1>0, <1>3 DEF Promise!Forget, Promise!Complete, Promise!TypeOK,
                      Promise!TakenAsOftenAsAllowed
  <1>4. CASE (\E ms \in SUBSET HopMessage : Promise!Abandon(ms)) \/ UNCHANGED Promise!vars
    BY <1>4 DEF Promise!Abandon, Promise!vars, Promise!TakenAsOftenAsAllowed
  <1> QED
    BY <1>1, <1>2, <1>3, <1>4 DEF Promise!Next

\* A message completes after its delivery, and deliveries are not undone.
LEMMA StepCompleted ==
    Promise!TypeOK /\ Promise!CompletedWasDelivered /\ [Promise!Next]_Promise!vars
        => Promise!CompletedWasDelivered'
  <1> SUFFICES ASSUME Promise!TypeOK, Promise!CompletedWasDelivered,
                      [Promise!Next]_Promise!vars, NEW n \in HopMessage
               PROVE  /\ hop_status'[n] = "completed" => hop_delivered'[n] > 0
                      /\ hop_status'[n] \in {"unpublished", "dropped"} => hop_delivered'[n] = 0
    BY DEF Promise!CompletedWasDelivered
  <1>0. hop_delivered[n] \in Nat
    BY DEF Promise!TypeOK
  <1>1. ASSUME NEW m \in HopMessage, NEW level \in Promise!Level, Promise!Publish(m, level)
        PROVE  /\ hop_status'[n] = "completed" => hop_delivered'[n] > 0
               /\ hop_status'[n] \in {"unpublished", "dropped"} => hop_delivered'[n] = 0
    <2>1. PICK s \in {"untracked", "dropped", "in_flight"} :
              hop_status' = [hop_status EXCEPT ![m] = s]
      BY <1>1 DEF Promise!Publish
    <2> QED
      BY <1>1, <2>1 DEF Promise!Publish, Promise!TypeOK, Promise!CompletedWasDelivered
  <1>2. ASSUME NEW m \in HopMessage, Promise!Deliver(m)
        PROVE  /\ hop_status'[n] = "completed" => hop_delivered'[n] > 0
               /\ hop_status'[n] \in {"unpublished", "dropped"} => hop_delivered'[n] = 0
    BY <1>0, <1>2 DEF Promise!Deliver, Promise!Deliverable, Promise!TypeOK,
                      Promise!CompletedWasDelivered
  <1>3. ASSUME NEW m \in HopMessage, Promise!Forget(m) \/ Promise!Complete(m)
        PROVE  /\ hop_status'[n] = "completed" => hop_delivered'[n] > 0
               /\ hop_status'[n] \in {"unpublished", "dropped"} => hop_delivered'[n] = 0
    BY <1>3 DEF Promise!Forget, Promise!Complete, Promise!TypeOK, Promise!CompletedWasDelivered
  <1>4. ASSUME NEW ms \in SUBSET HopMessage, Promise!Abandon(ms)
        PROVE  /\ hop_status'[n] = "completed" => hop_delivered'[n] > 0
               /\ hop_status'[n] \in {"unpublished", "dropped"} => hop_delivered'[n] = 0
    BY <1>4 DEF Promise!Abandon, Promise!TypeOK, Promise!CompletedWasDelivered
  <1>5. CASE UNCHANGED Promise!vars
    BY <1>5 DEF Promise!vars, Promise!CompletedWasDelivered
  <1> QED
    BY <1>1, <1>2, <1>3, <1>4, <1>5 DEF Promise!Next

\* The conjunction is inductive.
LEMMA Promised == Promise!Spec => []PromiseInv
  <1>1. PromiseInv /\ [Promise!Next]_Promise!vars => PromiseInv'
    BY StepTypes, StepTaken, StepCompleted DEF PromiseInv
  <1> QED
    BY InitPromiseInv, <1>1, PTL DEF Promise!Spec

\* The promise of a hop is well typed.
THEOREM PromiseTyped == Promise!Spec => []Promise!TypeOK
  <1>1. PromiseInv => Promise!TypeOK
    BY DEF PromiseInv
  <1> QED
    BY Promised, <1>1, PTL

\* Whatever is sent again, a QoS 2 message is taken once for each time that the
\* receiver's record of it was lost, and one time more; a QoS 0 message once.
THEOREM TakenRight == Promise!Spec => []Promise!TakenAsOftenAsAllowed
  <1>1. PromiseInv => Promise!TakenAsOftenAsAllowed
    BY DEF PromiseInv
  <1> QED
    BY Promised, <1>1, PTL

\* A publication that its sender completes was taken by the receiver, and
\* nothing is taken that was not sent.
THEOREM CompletedRight == Promise!Spec => []Promise!CompletedWasDelivered
  <1>1. PromiseInv => Promise!CompletedWasDelivered
    BY DEF PromiseInv
  <1> QED
    BY Promised, <1>1, PTL
=============================================================================
