# wally: specifications, model checks and proofs

wally (`src/source/server/io_wally`) is an MQTT 3.1.1 server in C++17 on top of
Asio. This directory holds TLA+ specifications of its core, TLC
configurations that check them on small instances, and TLAPS proofs for all
instances. Paths below are relative to `src/source/server/io_wally` unless they
begin with `src/`.

## 1. Inventory

The server has **one network thread** (`mqtt_server.hpp:94` creates its
`io_service_pool` with one thread). All handlers - reads, writes, timers,
signals, posted work - run on it, one after the other, and are atomic to each
other. What interleaves is the *order* in which operations complete and handlers
are taken off the queue: cancelling a timer or closing a socket does nothing
about a handler that is queued already. Only startup and shutdown involve more
threads.

| component | state | operations | must hold |
|---|---|---|---|
| **outgoing publications** `dispatch/tx_in_flight_publications`, `dispatch/tx_publication` | `publications_` by packet identifier, `next_packet_identifier_`; per publication state, retry count, timer | `publish`, `response_received`, retry timers, `release` | each publication ends; QoS 2 reaches the client at most once; a completed one was delivered; nothing in flight is forgotten |
| **incoming publications** `dispatch/rx_in_flight_publications`, `dispatch/rx_publication` | `publications_` by the client's packet identifier; retry count, timer | PUBLISH, PUBREL, PUBREC retries, `release` | a QoS 2 message is dispatched once; a client is told "complete" only of what was dispatched; identifiers become free again |
| **sessions, subscriptions, retained messages** `dispatch/mqtt_client_session_manager`, `mqtt_client_session`, `topic_subscriptions`, `retained_messages`, `dispatcher` | sessions by client id with a weak pointer to their connection, subscriptions, retained message per topic | CONNECT, DISCONNECT, SUBSCRIBE, UNSUBSCRIBE, PUBLISH, acknowledgements, ungraceful disconnect | one copy per client; last will exactly when a client went without DISCONNECT, once, not to itself; retained is the latest |
| **topic filters** `dispatch/common.cpp`, `protocol/subscription.hpp` | - | `topic_filter_matches_topic` | MQTT's matching; indices stay inside the strings |
| **connection** `mqtt_connection`, `mqtt_connection_manager` | socket, timers for CONNECT and keep alive, read and write buffer, `client_id_` | read loop, packet handlers, `send`, `stop`, the two timers | one read at a time; silent or unconnected clients are closed; a stopped connection is released |
| **frame reading** `codec/decoder.hpp`, `codec/encoder.hpp` | read buffer, `frame_` | `frame_reader::operator()`, `decode_remaining_length` | the packets sent are the frames handed on, however TCP cuts the stream |
| **server and application** `mqtt_server`, `app/application`, `concurrency/io_service_pool.hpp` | acceptor, pool threads, condition variables | `run`, `wait_until_started`, `stop`, signals | no lost notification, shutdown completes, no thread is left |
| **packet codecs** `codec/*_packet_decoder.hpp`, `codec/*_packet_encoder.hpp` | - | decode, encode | what is accepted is an encoding of what is decoded; legal packets are accepted |
| **protocol packets** `protocol/` | immutable packets, but for QoS, flags and remaining length of PUBLISH, whose object publisher, subscribers and retained messages share | `qos`, `dup`, `retain`, `create`, `with_new_packet_identifier`, `succeed` | each subscriber reads what was published; the remaining length is the number of bytes encoded; answers fit |
| options, authentication, logging, errors | set up once | - | - |

**Interaction.** The server accepts sockets and hands each to the connection
manager. A connection reads a frame, decodes it, and calls the dispatcher, which
calls the session manager, all in one handler. A session writes to its
connection through a `weak_ptr<mqtt_packet_sender>` (`send`, `stop`): a
connection knows its client only by id, a session its connection only weakly.
A PUBLISH goes from the publisher's session (incoming publications) through
`topic_subscriptions::resolve_subscribers` to the sessions of the subscribers
(outgoing publications). A connection that fails reports
`client_disconnected_ungracefully` with the client id.

**What is hard here.** Timer handlers queued before an acknowledgement was
handled; retries of server and client crossing; packet identifiers and 16-bit
counters at their wrap; connection, session and client id getting out of step when
a client connects again; write handlers aborted by the close that then ask for
the close again; a keep alive chain that re-arms itself from its own
cancellation; portions of a TCP stream; two threads inside
`io_service_pool::stop`. `PROJECT.json` lists each hazard at its line.

## 2. Modules

| module | models | composed from |
|---|---|---|
| `Delivery` | what one hop promises about the messages it carries | |
| `TxPublications` | outgoing publications, their timers, the connection they write to, the client; implements `Delivery` until identifiers wrap | `Delivery` |
| `TxPublicationsProofs` | theorems about it | `TxPublications`, `TLAPS` |
| `RxPublications` | incoming publications, their timers, the publishing client; implements `Delivery` | `Delivery` |
| `RxPublicationsProofs` | theorems about it, with the refinement of `Delivery` | `RxPublications`, `TLAPS` |
| `Relay` | a message from its publisher through both hops to a subscriber | `RxPublications`, `TxPublications` |
| `RelayProofs` | theorems about it, with those of both hops carried over, and about `Delivery` | `Relay`, `RxPublicationsProofs`, `TxPublicationsProofs`, `Delivery` |
| `TopicFilter` | the matching loop, and MQTT's definition of matching | |
| `SessionManager` | dispatcher, session store, subscriptions, retained messages, last wills, over several connections | abstracts Tx/RxPublications, TopicFilter; its connections are those of `ConnectionLife` |
| `MCSessionManager` | symmetry for TLC | `SessionManager` |
| `SessionManagerProofs` | theorems about it | `SessionManager`, `TLAPS` |
| `ConnectionLife` | a connection as the dispatcher sees it | |
| `MqttConnection` | one connection with its queue of handlers; implements `ConnectionLife` | `ConnectionLife` |
| `MqttConnectionProofs` | theorems about it, with the refinement of `ConnectionLife` | `MqttConnection`, `TLAPS` |
| `FrameStream` | what reading frames promises | |
| `FrameReader` | `async_read` with `frame_reader`, shown to implement `FrameStream` | `FrameStream` |
| `FrameReaderProofs` | theorems about it, with the refinement of `FrameStream` | `FrameReader`, `TLAPS` |
| `PacketCodec` | decoders, encoders, bits of the flags, operations of the PUBLISH object; no state | |
| `PacketFlow` | one packet from the client through decoder, shared object and copies to the encoder | `PacketCodec` |
| `MCPacketFlow` | strings for TLC | `PacketFlow` |
| `PacketFlowProofs` | theorems about it, and about `TopicFilter` | `PacketFlow`, `TopicFilter`, `TLAPS` |
| `ServerLifecycle` | main thread, stopping thread, network thread | |
| `ServerLifecycleProofs` | theorems about it, and about `IoServicePool` | `ServerLifecycle`, `IoServicePool`, `TLAPS` |
| `IoServicePool` | `io_service_pool::io_service`, called by several threads | |

Conventions: definitions carry the name of the function they translate. An action
is a whole handler. A timer is `armed` while its wait is pending and `queued`
once its handler is in the `io_service`'s queue; cancelling clears the former
only. Variables marked "history" in their declaration record what happened, for
the properties; no guard of the server reads them. An operator under a comment
"Mutant:" is a plausible bug in the definition below it; nothing uses it but
the experiments listed under `mutants` in `PROJECT.json`, which show for every
property a change of the code it would notice.

Three abstract specifications are implemented by detailed ones (`INSTANCE ...
WITH` and a refinement mapping): `Delivery` by both hops, `ConnectionLife` by
`MqttConnection`, `FrameStream` by `FrameReader`.

### Delivery

Per message: its QoS, what the sending side knows of it (`status`), how often the
receiving side took it (`delivered`), how often that side lost the record of
having taken it (`forgotten`). Its steps are `Publish`, `Deliver`, `Forget`,
`Complete`, `Abandon`; packets, identifiers, timers and retries do not
occur. `Deliverable` is the promise: QoS 0 at most once, QoS 2 at most once more
than the record was lost, QoS 1 as often as it comes; `Complete` needs a delivery.

| | `TxPublications` | `RxPublications` |
|---|---|---|
| sender, receiver | server, subscriber | publisher, server |
| `delivered` | taken by the client | dispatched to the subscribers |
| `forgotten` | 0: the client modelled keeps its records | `rx_in_flight_publications` gave a record up (`max_retries_`), or had no sender and made none |
| `status` | `outcome`; dropped if there was no sender, or QoS RESERVED | completed once the client has PUBACK or PUBCOMP |

### TxPublications

`publications` is the map `publications_`; a record is a `qos1_tx_publication`
(state `waiting_for_ack`) or a `qos2_tx_publication` (`waiting_for_rec`,
`waiting_for_comp`). The initial and final states are passed through within a
handler and never seen. `sender` is the connection: open, stopped, or destroyed,
when the session's `weak_ptr` is empty; handlers of pending waits hold a
`shared_ptr`, so it is destroyed only when no timer is left
(`connection_destroyed`). An `assert` that fails sets `failed_assert`, after which
the server does nothing more (a debug build ends; what a release build does
then is not modelled). Packets and answers are FIFO queues, as TCP keeps
them; the client answers as MQTT asks it to, or not at all. The QoS of a copy
sent on the wire is the granted one: the constructors of the publications set it.

### RxPublications

The server's side is `publications`, `sender`, `session`. The client retries what
is unacknowledged (`client_resends`), and may reconnect while the old session
is in the store (`client_reconnects`), which is when the session's `sender` is
stopped or gone but packets still arrive. `sender = "closing"` is the time
between `stop()` inside a handler and the next packet that was read already.

### Relay

Both modules are instantiated. `dispatch_publish` is the one step they take
together: the handler of a PUBLISH reaches, through `mqtt_client_session_manager::publish`,
the subscriber's `tx_in_flight_publications::publish`. In every other step one hop
moves and the other stands still. The two `..._repeats` actions are apart because they
set `resent`: a timeout that sends again or gives up, a client that sends again or
reconnects.

### SessionManager

A connection goes from `none` over `connecting` (started, no CONNECT handled),
`connected` and `stopped` (closed, but handlers are left) to `gone` (destroyed).
`late_close` and `late_read` say that such handlers are left on a stopped connection:
one that asks for the close again (an aborted write, an expired timer), or a completed
read; these are what makes the close of a connection be noticed twice. Messages are numbers, 0 the empty one; a will is
named by the connection that announced it. `sent` holds what the last handler sent, `dispatched` the message it forwarded,
`granted` the subscriptions that SUBACK granted on each connection and that no UNSUBSCRIBE,
of whichever client, has ended. The level 3 of a subscription is
RESERVED: stored, answered with FAILURE, and never sent.

### ConnectionLife and MqttConnection

`ConnectionLife` is the protocol between a connection and the dispatcher: `report`
is what the last step told it. Its actions, those of `SessionManager`
and those of `MqttConnection` correspond as follows; TLC checks the last column
against the first (`ImplementsConnectionLife`), the middle one is by construction.

| `ConnectionLife` | `SessionManager` | `MqttConnection` |
|---|---|---|
| `Start` | `start` | `start` |
| `Connect` | `process_connect_packet` | `process_connect_packet`, accepted |
| `Packet` | `client_subscribed`, `client_publishes`, ... on an open connection | `dispatch_packet` |
| `CloseByRead` | `connection_close_requested`, `process_disconnect_packet`, `protocol_violation`, `close_before_connect` | `malformed_mqtt_packet`, a second CONNECT, `on_read_failed`, `process_disconnect_packet`, `dispatch_packet` that stops |
| `Close` | `keep_alive_timeout_expired`, `refused_written`, `do_close_connections`, `close_before_connect` | `handle_keep_alive_timeout`, `connect_timeout`, `packet_written`, `session_stops`, `stop_all` |
| `LateRead` | the same handlers of a connection in `late_read` | handlers of a read queued before the stop |
| `LateClose` | `write_aborted`, `refused_written` of one in `late_close` | `packet_written`, expired timers, queued before the stop |
| `Destroy`, or the last late handler | `connection_destroyed` | nothing refers to the connection any more |
| `Quiet` | - | completions, pings, writes |
| `Terminate` | - | `remote_endpoint_throws`, `no_client_id`, `unsupported_packet` |

A packet before CONNECT is a `stray` report, under whatever the empty `client_id_` reads
as; `SessionManager` leaves it out.

In `MqttConnection`, one record `connection` with the pending operations and `ready`, the queue of
handlers. The helpers take and return that record, so that a handler is the
composition of the calls it makes, as in the code. `terminated` is the end of the
process by an exception that no handler catches (`remote_endpoint()` on a
socket whose peer is gone, a packet type the decoder does not know) or by a read
of an empty `client_id_`.

### FrameReader and FrameStream

A byte is a number below `2 * Base`; its upper half has the MSB set, so
`Base = 128` is the code. asio's `async_read` notes the size of the buffer when it
starts and completes when that is full, whatever the completion condition
answers. (When `frame_reader` grows the vector, asio goes on writing to the old
memory; the model keeps the outcome all builds share, that no frame is found.)
`FrameStream` has two variables, `sent` and `delivered`, and `FrameReader`
implements it with the identity as mapping: every step of the reader is `send`,
`deliver` or a stutter.

### PacketCodec and PacketFlow

A body is a sequence of bytes; a decoder takes a position and returns a value and
the next position, 0 for `malformed_mqtt_packet`. The type is a name rather than
four bits of the first byte. `beyond` is the byte the CONNECT decoder may read
behind a frame's end.

`PacketFlow` starts with any packet a client can encode, or that encoding with its
end cut off, a byte added, a byte replaced or other flags. The loop over the
subscribers is one action per subscriber (`publish_using_qos0`,
`publish_tracked`), as are the later deliveries of a retained message and the
retries: what matters is the order in which they change `incoming`, the object all
of them share, and `outgoing`, the last copy. An answer's QoS and whether a message
was retained are kept beside the frame sent, for the properties. Failed asserts
(`qos_asserts`, a will to be retained) and `std::invalid_argument` end the flow.

### TopicFilter

One action per branch of the loop. The names every specification has begin with `TF`, so that
one module of proofs can extend both `TopicFilter` and `PacketFlow`. `Matches` is MQTT's definition over levels,
independent of the loop.

### ServerLifecycle

`pc` gives each of the two threads its next statement. A step ends where another
thread could see a difference: `joinable` and `join`, `work.reset()` read and
write, `is_open` and the wait are apart. Two threads resetting the same
`shared_ptr` at once, or joining the same thread at once, is undefined
behaviour: `crashed` is one outcome, going on another.

### IoServicePool

`next_io_service_` is the atomic counter; each access to it ends a step. The loop that
reduces it goes on after an exchange that succeeded and ends at one that failed,
as `while ( compare_exchange_strong( ... ) )` has it. The server takes the
pool's one `io_service` once, so no hazard lies there and no run has this module; that the class
keeps its contract for several callers is proved.

## 3. Runs

All runs switch deadlock checking off: publishers run out of messages, clients
need not send, the server may be shut down - every system here may stop.

| run | bounds | what it shows |
|---|---|---|
| `TxWrap` | 2 identifiers, 3 messages, 1 retry | types, every publication stays timed (`InFlightIsTimed`), no PUBLISH after its PUBREL (`PublishNeverFollowsPubrel`), also past the wrap; up to it no assertion fails (`AssertionsHold`) and the hop implements `Delivery` with its liveness: every publication ends (`ImplementsDelivery`) |
| `RxDelivery` | 2 identifiers, 2 messages, 1 retry, 2 client retries, 1 reconnect | the hop from the publisher implements `Delivery`; no identifier stays blocked (`EveryPublicationEnds`) |
| `RelayDelivery` | 1 message in, 1 copy out with an identifier to spare, 1 client retry, the server gives up at its first timeout, subscriptions of QoS 0, 1, 2 | QoS 2 is taken once from end to end but for records lost (`ExactlyOnceEndToEnd`); what the publisher takes for delivered is not lost in the server (`CompletedIsNotLost`); no client is cut off for a protocol violation while nothing was sent twice or given up (`StoppedOnlyAfterRepetition`) |
| `TopicFilterMatch` | 2 characters, lengths up to 5 | all well-formed filters against all topics: sound without `#`, complete unless the topic's last level is empty, indices in range |
| `Sessions` | 2 clients and 2 connections, of one client or of both; 1 topic and `#`, PUBLISH of QoS 0 and 2, subscriptions of QoS 0, 2 and RESERVED, up to 2 subscriptions and PUBLISH packets together (`MaxLoad`), of which one may be another sent again | each subscriber gets one copy of a message, at the level granted (`SubscribersGetOneCopy`), retained is what was last dispatched, a will is published at most once, never after DISCONNECT, and not to its own client (`WillOnlyToOthers`) |
| `Connection` | 3 frames, 1 packet sent on behalf of others | one read at a time, keep alive chain unbroken and single, unconnected and silent clients are closed; refinement of `ConnectionLife` with its liveness: stopped connections are released |
| `FrameReading` | base 2, 3 length digits, buffer of 8 bytes, bodies of 0, 1, 2, 4, 7 bytes, 3 packets | frames are the packets sent, only overlong lengths are malformed; refinement of `FrameStream` |
| `Packets` | strings of up to 2 bytes, lists of up to 2 items, 7 combinations of connect flags, all flags of PUBLISH, identifiers 1 and 256, 4 bytes that damage a frame | remaining length and bytes encoded agree, subscribers read what was published with their own QoS and RETAIN, accepted frames are encodings, legal packets are accepted as meant, answers fit |
| `Lifecycle` | 2 client connections | startup, startup failure, signal and `stop()` in any order |
| `SmUngraceful` | violation | see findings |
| `ConnectionSlow` | violation | see findings |
| `FrameTooLong` | violation | see findings |

**Why the bounds are enough.** `TxWrap` has more messages than identifiers, so
that one is reused, and two identifiers, so that publications interleave before
that; 1 retry lets every publication retry and be given up; `MaxRetryCount` is
`MaxRetries + 1` in all runs, the smallest counter that gets past the limit, as 16 bits are for a `pub-max-retries` of
65534 (with a smaller counter, or a higher limit, it would wrap and publications would never be given up; a counter that
wraps one earlier is among the mutants). In `RxDelivery` two client
retries are enough for a resent PUBLISH and a resent PUBREL to cross the
server's PUBREC, and two messages for one identifier to be used again.
In `RelayDelivery` the message is dispatched a second time when the
server gave up its record and the publisher retries, so the subscriber's side has room for
two copies; further retries of the server are the matter of the runs of the single
hops and would square the states here.
In `Sessions` one client may have both connections, so that a late handler of the
first meets the session of the second, or two clients one each; two
subscriptions overlap, and of two messages one overwrites the other. `MaxLoad`
leaves out histories with more than two of them together: overlapping subscriptions then
meet a last will rather than a PUBLISH, which takes the same way to them. The theorems about
`SessionManager` state all five properties of this run without these bounds.
`Packets` takes identifiers with a byte of 0 on either side, strings that are
empty, hold a NUL or a wildcard in each kind of place, and connect flags that
make each optional field present and absent, a retained will and a will of QoS
RESERVED; a damaged length then claims too much or too little in every field.
`Connection`'s three frames are
CONNECT, one more that re-arms keep alive, and one that ends the loop.
`FrameReading`'s lengths stand around 1, 2 and 3 digits in base 2 and the largest frame
just fits the buffer: every way to cut the stream is a different behaviour.

**Fairness.** Weak fairness of timers that expire and handlers that are
queued: the network thread runs `io_service::run` until it is stopped, and the
queue is FIFO. `ServerLifecycle` adds fairness per thread, as the operating system
schedules them. Nothing is assumed of clients, publishers, the network or whoever
asks for a shutdown. `SessionManager`'s fairness (aborted writes complete, free
connections are destroyed) serves only to make the counterexample of
`SmUngraceful` one that goes on.

**Premises inside properties.** They mark where the code does not keep the
promise. `NoWrap` in `TxPublications`: identifiers were not used twice yet; past the wrap
the assert on `inserted` may fail, an answer may be taken for another message's, and
a publication left over from a closed connection need not end. `forgotten` in `Delivery` and
`Relay` counts the QoS 2 records the server lost, after which a retry is a new message
to it. `SubscribersGetOneCopy` exempts a client that also asked for
RESERVED (`dispatch/topic_subscriptions.cpp:52`) and a connection whose client's session belongs to
another connection (`dispatch/mqtt_client_session_manager.cpp:56`), and another client's UNSUBSCRIBE
ends what was granted, too (`dispatch/topic_subscriptions.cpp:66`): nobody else misses a message or
gets it twice. `resent` in `StoppedOnlyAfterRepetition`: see the deviations below.
A hazard whose own case is wholly behind such a premise is listed in `PROJECT.json` without a property, and its note
says which property bounds it.
`NeitherResentNorReconnected` in `RetainedIsLatestDispatched`: a resent PUBLISH is
retained again. `~crashed` in `ServerLifecycle` is undefined behaviour.

## 4. Findings

Each is a violation run whose counterexample TLC prints.

* **`SmUngraceful`** (`mqtt_connection.cpp:361`): `do_stop` aborts writes under
  way; their handlers request the close again, by client id. A client that sent
  DISCONNECT and connected again loses its new session, and that session's will is
  published although the client is connected.
* **`ConnectionSlow`** (`mqtt_connection.cpp:352`): `write_packet` refills the one
  `write_buffer_` while an earlier `async_write` may still be sending it.
* **`FrameTooLong`** (`codec/decoder.hpp:82`): a packet longer than
  `conn-rbuf-size` is not read into an expanded buffer; `async_read` completes
  without a frame and `assert( frame )` fails.

Deviations met while modelling, in the modules but without a run of their own so
far (*TLC*: an invariant that states the opposite was seen violated; the others
follow from reading the code the action translates):

* the first retry of a QoS 2 PUBLISH enters `waiting_for_comp` although no PUBREL
  was sent (`dispatch/tx_publication.cpp:206`); further retries send PUBREL (*TLC*);
* after the wrap, `next_packet_identifier` returns one in flight and the assert
  on `inserted` fails (`dispatch/tx_in_flight_publications.cpp:101`) (*TLC*);
* a second acknowledgement that answers a retry stops the connection as a
  protocol violation, on both sides (`tx_in_flight_publications.cpp:91`,
  `rx_in_flight_publications.cpp:95`), and the sessions stay in the store (*TLC*);
* a copy published to subscribers carries the publisher's DUP flag; at QoS 0 it is
  then a packet that the server's own decoder refuses as
  "[MQTT-3.3.1-2] DUP flag set but QoS is 0" (`codec/publish_packet_decoder.hpp:39`) (*TLC*);
* a filter with QoS RESERVED is answered with FAILURE and stored all the same
  (`dispatch/topic_subscriptions.cpp:52`); where another filter of the client overlaps it,
  the client gets nothing (*TLC*);
* the CONNACK that refuses a first CONNECT may be written, or its write aborted, after a
  second CONNECT was accepted: its handler then fakes a DISCONNECT
  (`mqtt_connection.cpp:386`), so the session ends without its will, and
  it may be the session of the client's next connection (`refused_written`) (*TLC*);
* acknowledgements with bytes behind the identifier, and any upper bits in a
  SUBSCRIBE's QoS, are accepted; strings of CONNECT end at a NUL; a will's topic and
  UNSUBSCRIBE's filters are not checked;
* a CONNECT with a will to be retained, or the publication of a will with QoS
  RESERVED, fails an assert (`dispatch/dispatcher.cpp:42`, `protocol/publish_packet.hpp:129`) (*TLC*);
* a `retry_count_` that wraps never reaches a limit of 65535 or more;
* a QoS 2 message whose publication was given up is dispatched again when the client
  retries; after a reconnect to the old session it is dispatched with every retry;
* `ab/#` matches `a`, and `/+` does not match `/` (`dispatch/common.cpp:13,53`) (*TLC*);
* a client's second connection gets no session of its own while the first one's is
  in the store, against `mqtt_client_session_manager.hpp:116` (*TLC*);
* UNSUBSCRIBE removes all clients' subscriptions with the filter;
* a resent PUBLISH is retained again and overwrites a newer message;
* `wait_until_bound` returns once the acceptor is open, before it listens
  (`mqtt_server.cpp:60`), against `app/application.hpp:47` (*TLC*);
* `io_service_pool::stop` can run before the thread is in `threads_` and then does
  not wait for it, against `concurrency/io_service_pool.hpp:73` (*TLC*);
* QoS 0 delivery sets the QoS of the shared incoming packet to 0; harmless, since the
  copies made for other subscribers set their own (`ForwardedIntact`).

## 5. Proofs

`TxPublicationsProofs` proves for every number of identifiers, messages, retries
and every width of the counters (assumption: `ConstantsAssumption`, i.e. that
they are natural numbers and `NoPublication` is no publication):

* `TypeCorrect`: `Spec => []TypeOK`. `TypeOK` is inductive. Lemmas give the
  type of what each helper returns (`StartAckTimeout`, `NextRetryCountType`,
  `SendType`...), then one lemma per group of actions.
* `InFlightAlwaysTimed`: `Spec => []InFlightIsTimed`, the core liveness argument
  as an invariant: no path cancels a retry timer without arming it again,
  stopping the connection, or releasing the publication. Inductive with `TypeOK`:
  a handler changes one publication, and that one it leaves timed
  (`StoredIsTimed`) or releases (`ReleasedIsTimed`).
* `NoResendAfterPubrel`: `Spec => PublishNeverFollowsPubrel`. This needs
  `ResendInv`: publications in flight carry different messages, all of them
  published, and one that would resend its PUBLISH has had no PUBREL sent. Without
  it, a state in which PUBREL was sent for a publication still in `waiting_for_rec`
  would be a counterexample to the step. It holds across the wrap too, as `TxWrap`
  checks on an instance.
* `NoAssertionFails`: `Spec => []AssertionsHold`, and `FollowsDelivery`: `Spec => DeliverySteps`, all of
  `ImplementsDelivery` but its liveness, both for as long as no identifier is used twice
  (`NoWrap`; after the wrap an identifier may still be in flight, see section 4).

* `NoDuplicates`: `Spec => []TakenOnce`, that the client takes a QoS 2 message at most once,
  unconditionally: across the wrap an identifier may stand for two messages, but a message is published
  under one identifier only, and that one is on the client's record from its first PUBLISH to the PUBREL behind
  its last (`OnceInv`).

`NoAssertionFails` and `FollowsDelivery` need to know what is on the wire. The invariant `UntilWrap` (theorem `WireAgrees`)
has four parts: no identifier is anywhere before it is handed out (`IdentifierInv`, which is why
`assert( inserted )` holds); what is under way agrees with the history of its message
(`MessageInv`); an identifier stands for one message on either side, and
an answer under way to a publication in flight is one it expects, of a message that was taken
(`CarrierInv`, which is why the other asserts hold and only delivered messages are completed); a PUBLISH
precedes its PUBREL, and the client holds an identifier exactly while a PUBLISH it has
taken may still come (`OrderInv`, without which a retry would be delivered twice). The proof first brings each
handler down to one of five effects (`NextCases`: publications settle, PUBLISH or PUBREL is sent for one, a
message is published, the client takes a packet), then shows
for each effect that it keeps the invariant (`SettlesInv`, `ResendsInv`, `SendsPubrelInv`,
`PublishesInv`, `ReceivesInv`) and is a step of `Delivery` or a stutter (`HopNext`). TLC
checked the invariant with three identifiers before it was proved.

`RxPublicationsProofs` proves, for every number of identifiers, messages and retries of
either side:

* `RefinesDelivery`: `Spec => ImplementsDelivery`, the refinement as the run `RxDelivery`
  checks it. `ImplementsDelivery` has no liveness part on this side, so this is all of it.
  A step of the server or of the client is at most one step of
  `Delivery`: a completion needs that the message was dispatched (`AnswerHop`), a dispatch that a QoS 2 message
  was not dispatched before, or that a record of it was lost since (`ReceivedHop`).
* `TypeCorrect`: `Spec => []TypeOK`.

Neither follows from `TypeOK`. The inductive invariant `RxInv` (theorem `Invariant`) says what the two
queues, the server's map and the client's say of each other, in named parts: a
message has one identifier until it is completed (`OutgoingInv`); a PUBLISH under way is of
the message its identifier stands for (`PublishInv`); what is on record was dispatched and
its client still waits for PUBCOMP (`FlightInv`); a PUBREL ahead of a PUBLISH belongs to an earlier
publication, which the server has forgotten (`OrderInv`); a PUBACK or PUBCOMP under way is the last that
is heard of its publication (`AckInv`); and a QoS 2 message dispatched more often than it was forgotten is on
record, or its client has released it (`RecordInv`). Without the order of packets, a PUBLISH
resent behind its PUBREL would be dispatched a second time; without `AckInv`, a late PUBCOMP
would complete the message that reuses the identifier. TLC checked `RxInv` on
the instance of `RxDelivery` before it was proved.

`SessionManagerProofs` proves the five properties of the run `Sessions`, for all clients, connections,
topics and bounds (`ConstantsAssumption`: the names that stand for "none" name nothing else):

* `TypeCorrect` (`TypeOK`), `WillPublishedAtMostOnce` (`WillAtMostOnce`) and `WillGoesToOthers`
  (`WillOnlyToOthers`), with `SessionInv`: a session belongs to a connection that got past CONNECT,
  whose will was not published and which did not disconnect. That a will is sent to nobody of its own client needs the
  order in which session and will go (`WillToOthers`).
* `OneCopyForEach` (`SubscribersGetOneCopy`), with `GrantInv`: what a connection was granted is stored under its
  client's id, and a connected client whose id no other connection has owns its session.
* `RetainedIsForwarded` (`RetainedIsLatestDispatched`), with `LatestInv`: while no client sends
  PUBLISH again or has two connections, a session remembers only identifiers its client has not released.

`MqttConnectionProofs` proves, for every number of frames and packets sent:

* `RefinesConnectionLife`: `Spec => Life!Spec`, all of `ImplementsConnectionLife` but its liveness: one lemma per handler
  gives what it does to the connection and what the dispatcher is told (`AcceptOutcome`, `ReadOutcome`, ...), and each outcome is
  an action of `ConnectionLife` or a stutter.
* `TypeCorrect` (`TypeOK`), `OneRead` (`OneReadAtATime`) and `KeepAliveWatched` (`KeepAliveIsWatched`). The
  invariant `ConnectionInv` (theorem `Invariant`) says how the pending operations and
  the queue of handlers exclude each other: a pending read, or one in the queue; a pending wait of the keep
  alive timer, or one handler of it. The lemmas of its first part state for each helper
  that returns a connection that it keeps the connection `Sound`.

`ServerLifecycleProofs` proves for every number of connections `TypeCorrect` (`TypeOK`),
`RunOutlivesNetwork` (`RunReturnsAfterNetwork`) and `ThreadIsJoined` (`NoThreadLeftJoinable`). The invariant `LifecycleInv`
ties `pc` to the pool: how far `run` has come tells whether there is a
thread to join (`PoolInv`), and of the threads in `join` one has taken it (`JoinInv`).

The same module proves of `IoServicePool`, for every number of threads, every size of the pool and
width of the counter (`ConstantsAssumption`: a pool of at least one member, fewer than
the counter can count): `InTurn`, that the k-th call gets
member k modulo the pool's size until there are more calls than a `size_t` counts, from the
invariant that counter and number of calls have the same residue
(`NextResidue`: residues grow together); and `Bounded`, that the counter is
at most the pool's size when nobody calls, from the invariant that a larger one has
a caller whose exchange is still to succeed (`ReducerInv`).

`FrameReaderProofs` proves, for every base and number of length digits, all packets, every size of the
read buffer and every way to cut the stream (`ConstantsAssumption`: a base of at least two, and no packet whose
length takes more digits than allowed, for which the client's encoder throws):

* `RefinesFrameStream`: `Spec => Stream!Spec`, all of `ImplementsFrameStream` but its liveness: the frames handed
  on are the packets sent, whole and in their order, and the stream ends malformed only where it was broken.
* `OnlyOverlongRefused` (`OnlyOverlongIsMalformed`) and `TypeCorrect` (`TypeOK`).

None follows from `TypeOK`, which does not say that a frame found is one that was sent. The
invariant `FrameInv` (theorem `StreamAgrees`) does: what was read and what is under way is exactly the encoding of
what was not handed over yet (`StreamInv`), and `frame_reader` never asks for a byte beyond the packet it reads
(`ReaderInv`), which is why it finds the next packet, whole. Behind it are the lemmas about the
remaining length: the encoder's recursion is defined for every length (`EncodingDefined`, by the least
number for which it would not be), all its digits but the last have the MSB (`Digits`), and the decoder gives back the length
that was encoded, once all digits are there (`LengthDecoded`) and not before (`LengthNotYetDecoded`).

`RelayProofs` proves, for every number of identifiers, messages, copies and retries of both hops:

* `HopsDeliver`: each hop keeps its promise in the whole, since each behaviour of `Relay` is one of
  `RxPublications` and one of `TxPublications` (`RxSpec`, `TxSpec`); so all invariants of the
  hops hold of `Relay` too (`HopsKept`).
* `ExactlyOnce` (`ExactlyOnceEndToEnd`) and `TypeCorrect` (`TypeOK`). The invariant `CopiesInv` counts: of each message there are
  as many copies as it was dispatched. Each copy is taken at most once (`NoDuplicates` of the second
  hop, the wrap included), and a message is dispatched at most once more than its record was lost (the first hop's
  `RecordInv`). The sum `received` over the copies is a recursive function; what it amounts to
  is proved by looking at the least number for which it would fail (`LeastNumber`, `SumDefined`,
  `SumOfOnes`), since the library's induction theorems cannot be instantiated.
* `StopsOnlyAfterRepetition` (`StoppedOnlyAfterRepetition`). `QuietInv`: as long as nothing is repeated, either side
  has at most one packet under way for a publication, and it is the one that fits the publication's
  stage (`InTurn` of the hops: `PublishInTurn`, `ResponseInTurn`, ...); such an answer never stops a connection
  (`AnsweredInTurn`).

The same module proves for every set of messages, without assumptions, what an
implementation of `Delivery` inherits: `TakenRight` (`[]TakenAsOftenAsAllowed`: QoS 2
at most once more than the record was lost, QoS 0 at most once) and
`CompletedRight` (`[]CompletedWasDelivered`: what the sender completes was taken,
nothing is taken that was not sent). The two and `TypeOK` are inductive together: the first
needs that a message just published has not been delivered, which is half of the second.
As the runs check that the hops implement `Delivery`, they need not check these again.

`PacketFlowProofs` proves of `PacketFlow`, for packets and lists of every length, strings of up to 65535 bytes,
every way to damage a frame and every byte behind its end (`ConstantsAssumption`: a string is no longer than its
two bytes of length can tell, since the client could not encode it):

* `ForwardsIntact` (`ForwardedIntact`), `LengthKept` (`LengthMatches`), `AnswersRight` (`AnswersFit`) and
  `TypeCorrect` (`TypeOK`);
* `AcceptsEncodings` (`AcceptsOnlyEncodings`) and `LegalAccepted` (`AcceptsWhatIsLegal`), which together say that
  each decoder and MQTT's encoding are inverse to each other, on packets that are legal.

The first four are about what is sent at the end. The invariant `FlowInv` (theorem `Invariant`) carries them there: what a
decoder accepts is a packet of the frame's type whose fields fit two bytes (`FrameInv`, `Decoded`); whatever was done to
the shared object for other subscribers, it has topic and message of the packet received and the remaining length
of its fields, RETAIN is set exactly while stored messages are delivered (`ObjectInv`, `PublishObject`); and the
last copy is the object at the QoS granted, until it is sent again (`CopyInv`). Below it are lemmas for the parts of
the flags byte (`QosSet`, `RetainSet`, `DupSet`: setting one leaves the others), for each decoder (`DecodePublish`,
`DecodeConnect`, ...) and for what
the encoder writes being read back (`EncodePublish`, `StringReadBack`, `WordReadBack`). The list of a SUBSCRIBE is a recursive function over
positions, shown to be defined by going back from the end (`ListDefined`, `ListValues`), and `FlattenSeq` one over the items,
by going forwards (`FlattenDefined`).

The other two are about the moment the frame is read (`RoundTripsRead`); from then on nothing changes the packet
(`PacketKept`). They rest on one relation, `Piece(x, at, next, t)`: the bytes of `x` from `at` to before
`next` are `t`. A decoder that returns a value and the next position has read the piece that is the value's
encoding, and where that piece is it returns that value (`WordPiece`, `StringPiece`, `IdentifierPiece`, `OptionalPiece`
for the optional fields of CONNECT); and a body is the concatenation of parts if and only if it falls into them
(`PieceJoined`, `PieceSplit`, `PieceWhole`). So each packet has two lemmas, one for each direction:
`ConnectAccepted` and `ConnectLegal`, `PublishAccepted` and `PublishLegal`, and so on. The items of a list are taken
from its front, on both sides (`ListAccepted` goes back from the end of the body, `ListLegal` forwards by the number of items).

The same module proves of `TopicFilter`, for topics and filters of every length over every set of characters
(`TFConstantsAssumption`: the separator and the wildcards are none of them):

* `MatchIsRight` (`SoundWithoutHash`), `NoMatchIsMissed` (`CompleteForNonEmptyLastLevel`) and `FilterTypeCorrect` (`TFTypeOK`).

The properties speak of the end of the loop only. The invariant `LoopInv` (theorem `RestDecides`) says
why it gets there: as long as it runs, topic and filter match if and only if what is left of them does, and where a
level of the filter begins a level of the topic does (`InStep`, without which a `+` could meet the middle of
a level). The levels of a string are a recursive function from its end, which is proved to be
what its recursion says by going back from the end (`Backwards`, `LevelsDefined`). Three lemmas say what
one step of the loop takes away leaves the rest to be matched (`SeparatorTaken`, `CharacterTaken`, `WildcardTaken`), and one that a
character that differs decides (`Differs`). Behind the loop the two deviations of section 4 are all that is left:
`/#` where the topic ended earlier, and `+` or `#` where its last level is empty (`NoMatchIsRight`).

Only model-checked: the liveness properties, which are stated as "again and again not" (`[]<>~P`)
where the code promises that something ends (TLAPS proves nothing under fairness), `CompletedIsNotLost` of
`Relay` among them. Every invariant and every action property the runs check is a theorem.

## 6. Not modelled

Options, logging,
authentication services and exception classes, which have no behaviour the
other parts could disturb; asio, which is modelled as the code uses it: timers,
reads and writes complete, fail or are aborted, and their handlers are queued.
`destroy_all` of the sessions runs in the session manager's destructor, and in
`dispatcher::stop`, which nobody calls. Log output and `operator<<` are left out.
Time is not modelled, only that timers may expire at any moment.

## 7. Plan

In order of importance. Done: the modules above.

1. *Violation runs* for the deviations of section 4, in place of or beside the three.
2. *Several subscribers* in `Relay`, with `SessionManager`'s choice of them.
