------------------------------- MODULE Delivery -------------------------------
(***************************************************************************)
(* What one hop of MQTT promises about the messages it carries, whatever   *)
(* packets, timers and retries it takes.  TxPublications implements it for *)
(* the hop from the server to a subscriber, RxPublications for the hop     *)
(* from a publisher to the server.                                         *)
(***************************************************************************)
EXTENDS Naturals

CONSTANT Message

VARIABLES
    qos,        \* the level each message was published with, "none" before
    status,     \* what the sending side knows of it, see TypeOK
    delivered,  \* how often the receiving side took it
    forgotten   \* how often that side lost the record of having taken it

vars == <<qos, status, delivered, forgotten>>

Level == {"AT_MOST_ONCE", "AT_LEAST_ONCE", "EXACTLY_ONCE", "RESERVED"}

Init ==
    /\ qos = [m \in Message |-> "none"]
    /\ status = [m \in Message |-> "unpublished"]
    /\ delivered = [m \in Message |-> 0]
    /\ forgotten = [m \in Message |-> 0]

\* A message is sent for good ("untracked"), is sent and retried, or is
\* "dropped" at once because there is nobody to send it to.
Publish(m, level) ==
    /\ status[m] = "unpublished"
    /\ qos' = [qos EXCEPT ![m] = level]
    /\ \E s \in CASE level = "RESERVED"     -> {"dropped"}
                  [] level = "AT_MOST_ONCE" -> {"untracked"}
                  [] OTHER                  -> {"in_flight", "dropped"} :
           status' = [status EXCEPT ![m] = s]
    /\ UNCHANGED <<delivered, forgotten>>

\* Whether the receiver may take m now: at most once, but for the times it
\* forgot a QoS 2 message, or as often as it comes.
Deliverable(m) ==
    /\ status[m] \notin {"unpublished", "dropped"}
    /\ qos[m] = "AT_MOST_ONCE" => delivered[m] = 0
    /\ qos[m] = "EXACTLY_ONCE" => delivered[m] <= forgotten[m]

\* A receiver with nobody to answer takes a message without recording it.
Deliver(m) ==
    /\ Deliverable(m)
    /\ delivered' = [delivered EXCEPT ![m] = @ + 1]
    /\ \/ UNCHANGED forgotten
       \/ qos[m] = "EXACTLY_ONCE" /\ forgotten' = [forgotten EXCEPT ![m] = @ + 1]
    /\ UNCHANGED <<qos, status>>

\* The receiver stops waiting for the sender to release a QoS 2 message.
Forget(m) ==
    /\ qos[m] = "EXACTLY_ONCE"
    /\ forgotten[m] < delivered[m]
    /\ forgotten' = [forgotten EXCEPT ![m] = @ + 1]
    /\ UNCHANGED <<qos, status, delivered>>

\* The sender learns of the delivery.
Complete(m) ==
    /\ status[m] = "in_flight"
    /\ delivered[m] > 0
    /\ status' = [status EXCEPT ![m] = "completed"]
    /\ UNCHANGED <<qos, delivered, forgotten>>

\* The sender gives messages up, delivered or not.
Abandon(ms) ==
    /\ \A m \in ms : status[m] = "in_flight"
    /\ status' = [m \in Message |-> IF m \in ms THEN "abandoned" ELSE status[m]]
    /\ UNCHANGED <<qos, delivered, forgotten>>

Next ==
    \/ \E m \in Message, level \in Level : Publish(m, level)
    \/ \E m \in Message : Deliver(m) \/ Forget(m) \/ Complete(m)
    \/ \E ms \in SUBSET Message : Abandon(ms)

Spec == Init /\ [][Next]_vars

\* Nothing stays in flight for ever.
EveryPublicationEnds == \A m \in Message : []<>(status[m] # "in_flight")

EndingSpec == Spec /\ EveryPublicationEnds

-----------------------------------------------------------------------------

TypeOK ==
    /\ qos \in [Message -> Level \cup {"none"}]
    /\ status \in [Message -> {"unpublished", "untracked", "dropped", "in_flight",
                               "completed", "abandoned"}]
    /\ delivered \in [Message -> Nat]
    /\ forgotten \in [Message -> Nat]

\* A message published with QoS 2 is taken at most once, but for the times the
\* receiver forgot that it had taken it; one published with QoS 0, at most once.
TakenAsOftenAsAllowed ==
    \A m \in Message :
        /\ qos[m] = "EXACTLY_ONCE" => delivered[m] <= 1 + forgotten[m]
        /\ qos[m] = "AT_MOST_ONCE" => delivered[m] <= 1

\* The sender never takes for delivered what the receiver did not take, and the
\* receiver takes nothing that was not sent.
CompletedWasDelivered ==
    \A m \in Message : /\ status[m] = "completed" => delivered[m] > 0
                       /\ status[m] \in {"unpublished", "dropped"} => delivered[m] = 0
=============================================================================
