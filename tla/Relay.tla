-------------------------------- MODULE Relay --------------------------------
(***************************************************************************)
(* A message on its whole way: from a client that publishes, through the   *)
(* incoming publications of its session, to the outgoing publications of a *)
(* subscriber's session, and to the subscriber.                            *)
(*                                                                         *)
(* RxPublications and TxPublications are the two hops.  Where the first    *)
(* dispatches a message, in one handler of the network thread, the second  *)
(* publishes it; all else they do on their own.                            *)
(***************************************************************************)
EXTENDS Naturals, Sequences, SequencesExt

CONSTANTS
    RxMaxPacketIdentifier, RxMaxPublications, MaxClientRetries,  \* see RxPublications
    TxMaxPacketIdentifier, TxMaxPublications,                    \* see TxPublications
    MaxRetries, MaxRetryCount,                                   \* one option for both
    MaximumQoS,                                                  \* the subscription may ask for
    NoPublication

VARIABLES
    \* RxPublications
    rx_publications, publisher, rx_session, to_publisher, from_publisher, outgoing,
    client_retries, reconnected, rx_published, publishedQoS, dispatched, forgotten, completed,
    \* TxPublications
    tx_publications, next_packet_identifier, subscriber, failed_assert, to_subscriber,
    from_subscriber, awaitingRel, tx_published, grantedQoS, delivered, pubrelSent, outcome,
    \* of this module
    maximum_qos,  \* what the subscription asked for
    forwarded,    \* history: the publisher's message each outgoing one is a copy of
    dropped,      \* history: the copies for which the subscriber's connection was gone
    resent        \* history: somebody sent something again, gave up or reconnected

Rx == INSTANCE RxPublications WITH
    MaxPacketIdentifier <- RxMaxPacketIdentifier, MaxPublications <- RxMaxPublications,
    publications <- rx_publications, sender <- publisher, session <- rx_session,
    toClient <- to_publisher, fromClient <- from_publisher, published <- rx_published

Tx == INSTANCE TxPublications WITH
    MaxPacketIdentifier <- TxMaxPacketIdentifier, MaxPublications <- TxMaxPublications,
    IncomingDup <- {FALSE},
    publications <- tx_publications, sender <- subscriber,
    toClient <- to_subscriber, fromClient <- from_subscriber, published <- tx_published

rxVars == <<rx_publications, publisher, rx_session, to_publisher, from_publisher, outgoing,
            client_retries, reconnected, rx_published, publishedQoS, dispatched, forgotten,
            completed>>
txVars == <<tx_publications, next_packet_identifier, subscriber, failed_assert,
            to_subscriber, from_subscriber, awaitingRel, tx_published, grantedQoS, delivered,
            pubrelSent, outcome>>
relayVars == <<maximum_qos, forwarded, dropped>>
vars == <<rxVars, txVars, relayVars, resent>>

\* As RxPublications and TxPublications assume of theirs.
ASSUME ConstantsAssumption ==
    /\ RxMaxPacketIdentifier \in Nat
    /\ RxMaxPublications \in Nat
    /\ MaxClientRetries \in Nat
    /\ TxMaxPacketIdentifier \in Nat
    /\ TxMaxPublications \in Nat
    /\ MaxRetries \in Nat
    /\ MaxRetryCount \in Nat
    /\ MaximumQoS \subseteq Tx!QoS
    /\ NoPublication \notin Rx!RxPublication \cup Rx!ClientPublication \cup Tx!Publication

Init ==
    /\ Rx!Init
    /\ Tx!Init
    /\ maximum_qos \in MaximumQoS
    /\ forwarded = <<>>
    /\ dropped = {}
    /\ resent = FALSE

-----------------------------------------------------------------------------

\* Mutant: the message dispatched does not reach the subscriber's session.
dispatch_publish_lost ==
    /\ Rx!packet_received
    /\ dispatched' # dispatched
    /\ forwarded' = Append(forwarded, CHOOSE m \in Rx!Message : dispatched'[m] # dispatched[m])
    /\ Len(forwarded') <= TxMaxPublications
    /\ UNCHANGED <<txVars, dropped, maximum_qos, resent>>

\* mqtt_client_session_manager::publish, called by the handler of the PUBLISH.
\* Its guard also says that the model has a number left for the copy.
dispatch_publish ==
    /\ Rx!packet_received
    /\ dispatched' # dispatched
    /\ Tx!publish(maximum_qos, FALSE)
    /\ forwarded' = Append(forwarded, CHOOSE m \in Rx!Message : dispatched'[m] # dispatched[m])
    /\ dropped' = IF subscriber = "gone" THEN dropped \cup {tx_published'} ELSE dropped
    /\ UNCHANGED <<maximum_qos, resent>>

\* Other packets of the publisher, its connection and its session.
publisher_side ==
    /\ Tx!Running
    /\ \/ Rx!packet_received /\ dispatched' = dispatched
       \/ \E id \in Rx!PacketId : Rx!timer_expires(id)
       \/ Rx!connection_closed
       \/ Rx!connection_destroyed
       \/ Rx!session_destroyed
       \/ \E qos \in Rx!QoS : Rx!client_publishes(qos)
       \/ Rx!client_receives
    /\ UNCHANGED <<txVars, relayVars, resent>>

publisher_side_repeats ==
    /\ Tx!Running
    /\ \/ \E id \in Rx!PacketId : Rx!pubrel_timeout_expired(id)
       \/ \E id \in Rx!ClientPacketId : Rx!client_resends(id)
       \/ Rx!client_reconnects
    /\ resent' = TRUE
    /\ UNCHANGED <<txVars, relayVars>>

subscriber_side ==
    /\ \/ Tx!response_received
       \/ \E id \in Tx!PacketId : Tx!timer_expires(id)
       \/ Tx!connection_closed
       \/ Tx!connection_destroyed
       \/ Tx!session_destroyed
       \/ Tx!client_receives
    /\ UNCHANGED <<rxVars, relayVars, resent>>

subscriber_side_repeats ==
    /\ \E id \in Tx!PacketId : Tx!ack_timeout_expired(id)
    /\ resent' = TRUE
    /\ UNCHANGED <<rxVars, relayVars>>

Next ==
    \/ dispatch_publish
    \/ publisher_side
    \/ publisher_side_repeats
    \/ subscriber_side
    \/ subscriber_side_repeats

Spec == Init /\ [][Next]_vars

\* The event loop runs the handlers of the outgoing retry timers.
FairSpec ==
    /\ Spec
    /\ \A id \in Tx!PacketId :
          /\ WF_vars(Tx!timer_expires(id) /\ UNCHANGED <<rxVars, relayVars, resent>>)
          /\ WF_vars(Tx!ack_timeout_expired(id) /\ resent' = TRUE
                        /\ UNCHANGED <<rxVars, relayVars>>)

-----------------------------------------------------------------------------
(* Properties                                                               *)

Copies(m) == {i \in 1 .. Len(forwarded) : forwarded[i] = m}

\* Types of the variables of this module; each dispatch made one copy.
TypeOK ==
    /\ maximum_qos \in MaximumQoS
    /\ forwarded \in Seq(Rx!Message)
    /\ Len(forwarded) = tx_published
    /\ dropped \subseteq 1 .. tx_published
    /\ resent \in BOOLEAN

\* How often the subscriber took a copy of m.
received[n \in 0 .. TxMaxPublications] ==
    [m \in Rx!Message |->
        IF n = 0 THEN 0
        ELSE received[n - 1][m] + IF n \in Copies(m) THEN delivered[n] ELSE 0]

\* From end to end: a QoS 2 message for a QoS 2 subscription is taken by the
\* subscriber at most once, but for the times the server forgot that it had
\* dispatched it, whatever retries of publisher, server and subscriber cross.
ExactlyOnceEndToEnd ==
    \A m \in Rx!Message :
        (publishedQoS[m] = "EXACTLY_ONCE" /\ maximum_qos = "EXACTLY_ONCE") =>
            received[tx_published][m] <= 1 + forgotten[m]

\* A message that its publisher takes for delivered does not get lost in the
\* server: a copy reaches the subscriber, or was retried as often as
\* pub-max-retries says, or went with the subscriber's connection or session.
CompletedIsNotLost ==
    \A m \in Rx!Message : (m \in completed /\ maximum_qos # "AT_MOST_ONCE") ~>
        \E i \in Copies(m) : \/ delivered[i] > 0
                             \/ outcome[i] \in {"terminally_failed", "discarded"}
                             \/ i \in dropped

\* The last packet received made a session stop the connection it writes to.
SessionStopsConnection ==
    \/ Len(from_publisher') < Len(from_publisher) /\ publisher = "open" /\ publisher' = "closed"
    \/ Len(from_subscriber') < Len(from_subscriber) /\ subscriber = "open" /\ subscriber' = "closed"

\* "[MQTT-4.8.0-1] Protocol violation" is what both sides take an answer for
\* that fits no publication in flight.  Clients that answer as MQTT asks them
\* to lose their connection so only once something was sent twice or given up.
StoppedOnlyAfterRepetition == [][SessionStopsConnection => resent]_vars
=============================================================================
