--------------------------- MODULE MqttConnection ---------------------------
(***************************************************************************)
(* One mqtt_connection between its client and the dispatcher: the loop     *)
(* that reads frames, the writes, the timers for CONNECT and keep alive,   *)
(* and the ways it is closed.                                              *)
(*                                                                         *)
(* Every asynchronous operation is pending until it completes, is aborted  *)
(* or fails; then its handler waits in the queue of the one io_service.    *)
(* Cancelling a timer or closing the socket does nothing about handlers    *)
(* already queued.  A handler is one action with all calls it makes.  The  *)
(* handlers refer to the connection: it lives until the last one has run.  *)
(*                                                                         *)
(* SessionManager is about what the dispatcher does with the packets.      *)
(***************************************************************************)
EXTENDS Naturals, Sequences

CONSTANTS
    MaxFrames,  \* bound on the frames the client sends
    MaxSends    \* bound on the packets other clients' handlers make it send

ASSUME ConstantsAssumption == MaxFrames \in Nat /\ MaxSends \in Nat

\* What a client sends: CONNECT with credentials the authentication service
\* accepts or refuses, PINGREQ, DISCONNECT, a packet for the dispatcher, a
\* frame its decoder rejects, or a frame of a type only servers send.
Frame == {"connect", "connect refused", "pingreq", "disconnect", "other",
          "malformed", "unsupported"}

\* What the server sends.
Packet == {"connack", "connack refused", "pingresp", "other"}

\* A queued handler: operation, error code, and for a read the frame, for a
\* write "close" if its handler closes the connection in any case.
Handler == [op : {"read"}, ec : {"ok"}, arg : Frame]
    \cup [op : {"read", "connect timer", "keep alive timer"}, ec : {"ok", "failed", "aborted"}, arg : {"none"}]
    \cup [op : {"write"}, ec : {"ok", "failed", "aborted"}, arg : {"none", "close"}]

\* An async_write the socket has not taken yet.
Write == [packet : Packet, arg : {"none", "close"}]

VARIABLES
    connection,  \* the mqtt_connection, see TypeOK
    report,      \* history: what the last step told the dispatcher, see ConnectionLife
    process,     \* "running", or "terminated" by an exception no handler catches
    frames,      \* counts the frames received
    sends        \* counts the packets sent on behalf of others

vars == <<connection, report, process, frames, sends>>

-----------------------------------------------------------------------------
(* Operations on a connection c                                             *)

Queued(op, ec, arg) == [op |-> op, ec |-> ec, arg |-> arg]

If(condition, handler) == IF condition THEN <<handler>> ELSE <<>>

cancel_connect_timer(c) ==
    [c EXCEPT !.connect_timer = FALSE,
              !.ready = @ \o If(c.connect_timer, Queued("connect timer", "aborted", "none"))]

cancel_keep_alive_timer(c) ==
    [c EXCEPT !.keep_alive_timer = FALSE,
              !.ready = @ \o If(c.keep_alive_timer, Queued("keep alive timer", "aborted", "none"))]

\* Closing the socket aborts the pending read, then the pending writes.
close_socket(c) ==
    [c EXCEPT !.socket = "closed", !.reading = FALSE, !.writing = <<>>,
              !.ready = @ \o If(c.reading, Queued("read", "aborted", "none"))
                          \o [i \in 1 .. Len(c.writing) |-> Queued("write", "aborted", c.writing[i].arg)]]

do_stop(c) == close_socket(cancel_keep_alive_timer(cancel_connect_timer(c)))

\* Mutant: the connection stays in connections_.
stop_still_managed(c) == do_stop(c)

\* stop and mqtt_connection_manager::stop, run in place, for the strand of a
\* connection is free whenever the network thread calls stop.
stop(c) == [do_stop(c) EXCEPT !.managed = FALSE]

\* Mutant: "only fake DISCONNECT if we are actually CONNECTed" is not heeded.
close_report_always(c, reason) == reason

\* What the dispatcher is told of a close: the client is reported to be gone,
\* or a DISCONNECT is faked if the reason is a failed authentication.
close_report(c, reason) == IF c.client_id THEN reason ELSE "none"

\* Whatever the reason, it ends in stop.
connection_close_requested(c) == stop(c)

read_frame(c) == IF c.socket = "open" THEN [c EXCEPT !.reading = TRUE] ELSE c

\* The possible outcomes of an async_write: it queues behind others, or the
\* socket takes the packet at once, can take nothing now, or fails.
\* write_buffer_ is overwritten in any case.
write(c, packet, arg) ==
    LET b == [c EXCEPT !.write_buffer = packet]
        blocked == [b EXCEPT !.writing = Append(@, [packet |-> packet, arg |-> arg])]
    IN  IF c.socket # "open" THEN {c}
        ELSE IF c.writing # <<>> THEN {blocked}
        ELSE {blocked} \cup {[b EXCEPT !.ready = Append(@, Queued("write", ec, arg))] : ec \in {"ok", "failed"}}

write_packet(c, packet) == write(c, packet, "none")

write_packet_and_close_connection(c, packet) == write(c, packet, "close")

close_on_keep_alive_timeout(c) ==
    IF c.keep_alive THEN [cancel_keep_alive_timer(c) EXCEPT !.keep_alive_timer = TRUE] ELSE c

-----------------------------------------------------------------------------
(* Start                                                                    *)

Init ==
    /\ connection = [socket |-> "accepted", managed |-> FALSE, client_id |-> FALSE,
                     keep_alive |-> FALSE, reading |-> FALSE, connect_timer |-> FALSE,
                     keep_alive_timer |-> FALSE, writing |-> <<>>, write_buffer |-> "none",
                     ready |-> <<>>]
    /\ report = "none"
    /\ process = "running"
    /\ frames = 0
    /\ sends = 0

\* mqtt_connection_manager::start and mqtt_connection::start.
start ==
    /\ process = "running"
    /\ connection.socket = "accepted"
    /\ connection' = read_frame([connection EXCEPT !.socket = "open", !.managed = TRUE,
                                                   !.connect_timer = TRUE])
    /\ UNCHANGED <<report, process, frames, sends>>

-----------------------------------------------------------------------------
(* Operations complete                                                      *)

\* The connection becomes c, and the dispatcher is told.
tells(what, c) ==
    /\ process = "running"
    /\ connection' = c
    /\ report' = what
    /\ UNCHANGED process

completes(c) == tells("none", c)

frame_arrives(frame) ==
    /\ connection.reading
    /\ frames < MaxFrames
    /\ frames' = frames + 1
    /\ completes([connection EXCEPT !.reading = FALSE,
                                    !.ready = Append(@, Queued("read", "ok", frame))])
    /\ UNCHANGED sends

\* The client has closed or lost its end.
read_fails ==
    /\ connection.reading
    /\ completes([connection EXCEPT !.reading = FALSE,
                                    !.ready = Append(@, Queued("read", "failed", "none"))])
    /\ UNCHANGED <<frames, sends>>

\* The socket takes the first packet it could not take before, or fails.
write_completes ==
    /\ connection.writing # <<>>
    /\ \E ec \in {"ok", "failed"} :
           completes([connection EXCEPT !.writing = Tail(@),
                                        !.ready = Append(@, Queued("write", ec, Head(connection.writing).arg))])
    /\ UNCHANGED <<frames, sends>>

connect_timer_expires ==
    /\ connection.connect_timer
    /\ completes([connection EXCEPT !.connect_timer = FALSE,
                                    !.ready = Append(@, Queued("connect timer", "ok", "none"))])
    /\ UNCHANGED <<frames, sends>>

keep_alive_timer_expires ==
    /\ connection.keep_alive_timer
    /\ completes([connection EXCEPT !.keep_alive_timer = FALSE,
                                    !.ready = Append(@, Queued("keep alive timer", "ok", "none"))])
    /\ UNCHANGED <<frames, sends>>

-----------------------------------------------------------------------------
(* Handlers of frames                                                       *)

FrameRead(frame) ==
    /\ connection.ready # <<>>
    /\ Head(connection.ready) = Queued("read", "ok", frame)

ReadEnded(ec) ==
    /\ connection.ready # <<>>
    /\ Head(connection.ready) = Queued("read", ec, "none")

\* on_frame_read first cancels the keep alive timer, whatever was read.
FrameTaken == cancel_keep_alive_timer([connection EXCEPT !.ready = Tail(@)])

closes(reason, c) == tells(close_report(c, reason), connection_close_requested(c))

\* An exception leaves the handler, and io_service::run.
terminates ==
    /\ process = "running"
    /\ process' = "terminated"
    /\ report' = "none"
    /\ UNCHANGED <<connection, frames, sends>>

\* Mutant: the timer for CONNECT is cancelled before the credentials are known.
refused_unwatched(c) ==
    write_packet_and_close_connection(cancel_connect_timer(c), "connack refused")

\* The client has until the connect timeout to send a better CONNECT.
refused(c) == write_packet_and_close_connection(c, "connack refused")

\* Accepted: keep alive starts if CONNECT asks for it.
accepted(c, keep_alive) ==
    write_packet(close_on_keep_alive_timeout([cancel_connect_timer(c) EXCEPT
                    !.client_id = TRUE, !.keep_alive = keep_alive]), "connack")

process_connect_packet ==
    /\ \/ /\ FrameRead("connect") \/ FrameRead("connect refused")
          /\ connection.client_id
          /\ closes("ungraceful", FrameTaken)
       \/ /\ FrameRead("connect refused")
          /\ ~connection.client_id
          /\ connection.socket = "open"
          /\ \E c \in refused(FrameTaken) : completes(read_frame(c))
       \/ /\ FrameRead("connect")
          /\ ~connection.client_id
          /\ connection.socket = "open"
          /\ \E k \in BOOLEAN : \E c \in accepted(FrameTaken, k) : tells("connect", read_frame(c))
    /\ UNCHANGED <<frames, sends>>

\* remote_endpoint throws if the connection was stopped, or its client is gone.
remote_endpoint_throws ==
    /\ FrameRead("connect") \/ FrameRead("connect refused")
    /\ ~connection.client_id
    /\ terminates

process_pingreq ==
    /\ FrameRead("pingreq")
    /\ \E c \in write_packet(FrameTaken, "pingresp") : completes(read_frame(c))
    /\ UNCHANGED <<frames, sends>>

\* A packet, for a client that has not connected under the identifier that the
\* empty client_id_ happens to read as.
packet_report(what) == IF connection.client_id THEN what ELSE "stray"

\* The loop ends.
process_disconnect_packet ==
    /\ FrameRead("disconnect")
    /\ tells(packet_report("disconnect"), stop(FrameTaken))
    /\ UNCHANGED <<frames, sends>>

\* The session may answer, or stop the connection for a protocol violation.
dispatch_packet ==
    /\ FrameRead("other")
    /\ \E c \in {FrameTaken} \cup
                (IF connection.client_id
                 THEN write_packet(FrameTaken, "other") \cup {stop(FrameTaken)}
                 ELSE {}) :
           tells(packet_report("packet"), read_frame(c))
    /\ UNCHANGED <<frames, sends>>

\* *client_id_ is read before CONNECT: the packet is dispatched for a client
\* no session is found for, by the actions above, or the process ends.
no_client_id ==
    /\ FrameRead("disconnect") \/ FrameRead("other")
    /\ ~connection.client_id
    /\ terminates

\* decode throws malformed_mqtt_packet, which decode_packet catches.
malformed_mqtt_packet ==
    /\ FrameRead("malformed")
    /\ closes("ungraceful", FrameTaken)
    /\ UNCHANGED <<frames, sends>>

\* body_decoder_for throws invalid_argument, which it does not catch.
unsupported_packet ==
    /\ FrameRead("unsupported")
    /\ terminates

on_read_failed ==
    /\ \/ /\ ReadEnded("failed")
          /\ closes("ungraceful", FrameTaken)
       \/ /\ ReadEnded("aborted")
          /\ completes(FrameTaken)
    /\ UNCHANGED <<frames, sends>>

-----------------------------------------------------------------------------
(* Other handlers                                                           *)

HandlerDone == [connection EXCEPT !.ready = Tail(@)]

Runs(op, ec) ==
    /\ connection.ready # <<>>
    /\ Head(connection.ready).op = op
    /\ Head(connection.ready).ec = ec

\* The handlers of write_packet and write_packet_and_close_connection.
packet_written ==
    /\ \/ /\ Runs("write", "ok")
          /\ Head(connection.ready).arg = "none"
          /\ completes(HandlerDone)
       \/ /\ Runs("write", "failed") \/ Runs("write", "aborted")
          /\ Head(connection.ready).arg = "none"
          /\ closes("ungraceful", HandlerDone)
       \/ /\ Runs("write", "ok") \/ Runs("write", "failed") \/ Runs("write", "aborted")
          /\ Head(connection.ready).arg = "close"
          /\ closes("authentication_failed", HandlerDone)
    /\ UNCHANGED <<frames, sends>>

connect_timeout ==
    /\ \/ Runs("connect timer", "ok") /\ closes("ungraceful", HandlerDone)
       \/ Runs("connect timer", "aborted") /\ completes(HandlerDone)
    /\ UNCHANGED <<frames, sends>>

\* Mutant: the timer starts again on a connection that was stopped.
start_next_stopped(c) == close_on_keep_alive_timeout(c)

\* Mutant: the timer does not start again.
start_next_not(c) == c

\* Mutant: "keep us in the loop" taken for the loop that reads frames.
start_next_reading(c) == read_frame(close_on_keep_alive_timeout(c))

\* A frame was read, so the timer starts again; or the connection is stopped.
start_next(c) == IF c.socket = "open" THEN close_on_keep_alive_timeout(c) ELSE c

handle_keep_alive_timeout ==
    /\ \/ /\ Runs("keep alive timer", "ok")
          /\ closes("ungraceful", HandlerDone)
       \/ /\ Runs("keep alive timer", "aborted")
          /\ completes(start_next(HandlerDone))
    /\ UNCHANGED <<frames, sends>>

-----------------------------------------------------------------------------
(* The rest of the server                                                   *)

\* Some operation or handler refers to the connection, or the manager does.
Alive(c) ==
    \/ c.managed \/ c.reading \/ c.connect_timer \/ c.keep_alive_timer
    \/ c.writing # <<>> \/ c.ready # <<>>

\* The session sends a message of another client, or retries one.
send ==
    /\ connection.client_id /\ Alive(connection)
    /\ sends < MaxSends
    /\ sends' = sends + 1
    /\ \E c \in write_packet(connection, "other") : completes(c)
    /\ UNCHANGED frames

\* Another connection's packet makes the session stop this one.
session_stops ==
    /\ connection.client_id /\ Alive(connection)
    /\ completes(stop(connection))
    /\ UNCHANGED <<frames, sends>>

\* mqtt_server::do_close_connections.
stop_all ==
    /\ connection.managed
    /\ completes(stop(connection))
    /\ UNCHANGED <<frames, sends>>

Handlers ==
    \/ process_connect_packet \/ remote_endpoint_throws
    \/ process_pingreq
    \/ process_disconnect_packet
    \/ dispatch_packet \/ no_client_id
    \/ malformed_mqtt_packet
    \/ unsupported_packet
    \/ on_read_failed
    \/ packet_written
    \/ connect_timeout
    \/ handle_keep_alive_timeout

Next ==
    \/ start
    \/ \E frame \in Frame : frame_arrives(frame)
    \/ read_fails
    \/ write_completes
    \/ connect_timer_expires
    \/ keep_alive_timer_expires
    \/ Handlers
    \/ send
    \/ session_stops
    \/ stop_all

Spec == Init /\ [][Next]_vars

\* The network thread runs the queued handlers, and timers expire.  Nothing is
\* assumed of the client, which may neither send nor receive.
FairSpec ==
    /\ Spec
    /\ WF_vars(Handlers)
    /\ WF_vars(connect_timer_expires)
    /\ WF_vars(keep_alive_timer_expires)

-----------------------------------------------------------------------------
(* Properties                                                               *)

\* How the dispatcher sees the connection.
phase ==
    CASE process = "terminated" -> "gone"
      [] process = "running" /\ connection.socket # "closed" -> connection.socket
      [] OTHER -> IF Alive(connection) THEN "stopped" ELSE "gone"

LateHandlers ==
    IF phase = "stopped" THEN {connection.ready[i] : i \in 1 .. Len(connection.ready)} ELSE {}

late_read == \E h \in LateHandlers : h.op = "read" /\ h.ec # "aborted"

late_close ==
    \E h \in LateHandlers :
        \/ h.op = "write" /\ (h.ec # "ok" \/ h.arg = "close")
        \/ h.op \in {"connect timer", "keep alive timer"} /\ h.ec = "ok"

Life == INSTANCE ConnectionLife WITH client_id <- connection.client_id

\* The types, and: nothing is pending on a stopped connection, whichever
\* handlers were queued when it was stopped.
TypeOK ==
    /\ connection \in [socket : {"accepted", "open", "closed"}, managed : BOOLEAN,
                       client_id : BOOLEAN, keep_alive : BOOLEAN, reading : BOOLEAN,
                       connect_timer : BOOLEAN, keep_alive_timer : BOOLEAN,
                       writing : Seq(Write), write_buffer : Packet \cup {"none"},
                       ready : Seq(Handler)]
    /\ report \in Life!Report
    /\ process \in {"running", "terminated"}
    /\ frames \in 0 .. MaxFrames
    /\ sends \in 0 .. MaxSends
    /\ connection.socket = "closed" =>
           /\ ~connection.reading /\ ~connection.connect_timer /\ ~connection.keep_alive_timer
           /\ connection.writing = <<>>

InQueue(op) == {i \in 1 .. Len(connection.ready) : connection.ready[i].op = op}

\* read_buffer_ and frame_reader_ serve one async_read at a time, though the
\* loop is kept going from many handlers.
OneReadAtATime ==
    /\ \A i, j \in InQueue("read") : i = j
    /\ connection.reading => InQueue("read") = {}

\* While a client that asked for keep alive is connected, exactly one wait of
\* its timer is pending or about to be handled: every frame cancels it, and
\* the cancelled wait starts the next.
KeepAliveIsWatched ==
    (connection.socket = "open" /\ connection.keep_alive) =>
        /\ \A i, j \in InQueue("keep alive timer") : i = j
        /\ connection.keep_alive_timer <=> InQueue("keep alive timer") = {}

\* A client that does not get past CONNECT loses its connection, also if it
\* sends other packets, was refused, or does not take the refusal.
UnconnectedIsClosed ==
    []<>(connection.socket # "open" \/ connection.client_id \/ process = "terminated")

\* A client with keep alive that falls silent loses its connection.
SilentClientIsClosed ==
    []<>(\/ connection.socket # "open"
         \/ ~connection.client_id
         \/ ~connection.keep_alive
         \/ process = "terminated")

\* To the dispatcher every order of completions, failures and handlers comes
\* down to this: CONNECT once, packets, a stop; then at most one packet more,
\* and closes requested again; nothing of a connection that is gone, and all
\* stopped ones go.
ImplementsConnectionLife == Life!ReleasingSpec

-----------------------------------------------------------------------------
(* What the docs say, and the code does not do                              *)

\* "Send an mqtt_packet to connected client" (mqtt_packet_sender.hpp:32): the
\* packet, and not one written after it.  async_write needs the buffer it was
\* given until it completes.
BufferHoldsPendingWrites ==
    \A i \in 1 .. Len(connection.writing) : connection.writing[i].packet = connection.write_buffer
=============================================================================
