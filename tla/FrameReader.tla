----------------------------- MODULE FrameReader -----------------------------
(***************************************************************************)
(* How mqtt_connection reads packets off its socket: asio::async_read into *)
(* read_buffer_, with a frame_reader as completion condition that says     *)
(* after each portion how many bytes more it needs, and on_frame_read that *)
(* takes the frame it found and reads the next one.                        *)
(*                                                                         *)
(* TCP is a stream: a portion may be any part of what the client sent.  A  *)
(* byte is a number below 2 * Base; the upper half has the MSB set.        *)
(***************************************************************************)
EXTENDS Naturals, Sequences

CONSTANTS
    Base,             \* 0x80, of the remaining length's digits
    MaxLengthBytes,   \* 4, digits of a remaining length
    ReadBufferSize,   \* option conn-rbuf-size, in bytes
    Type,             \* first bytes of the packets clients send
    BodyLength,       \* remaining lengths of the packets clients send
    BodyByte,         \* what bodies are filled with
    MaxPackets,       \* bound on the packets the client sends
    NoFrame

Byte == 0 .. 2 * Base - 1

Packet ==
    {[type |-> t, body |-> [i \in 1 .. n |-> b]] : t \in Type, n \in BodyLength, b \in BodyByte}

VARIABLES
    unread,      \* bytes under way to the server
    read_buffer, \* what async_read has transferred to read_buffer_
    requested,   \* what the completion condition asked for
    phase,       \* "reading", "completed", or how the process ended
    frame,       \* frame_reader_.frame_
    sent,        \* history: packets the client sent
    broken,      \* history: whether the client sent an overlong length behind them
    delivered    \* history: frames handed to the packet decoder

vars == <<unread, read_buffer, requested, phase, frame, sent, broken, delivered>>

-----------------------------------------------------------------------------
(* The fixed header                                                         *)

\* The client's encoder, as encoder.hpp has it: least significant digit first,
\* the MSB set in all but the last.
encode_remaining_length[n \in Nat] ==
    IF n < Base THEN <<n>>
    ELSE <<Base + (n % Base)>> \o encode_remaining_length[n \div Base]

\* The client sends no remaining length that takes more digits than allowed:
\* its encoder throws, as that of encoder.hpp does.
ASSUME ConstantsAssumption ==
    /\ Base \in Nat \ {0, 1}
    /\ MaxLengthBytes \in Nat \ {0}
    /\ ReadBufferSize \in Nat \ {0, 1}
    /\ Type \subseteq Byte
    /\ BodyByte \subseteq Byte
    /\ BodyLength \subseteq Nat
    /\ \A n \in BodyLength : Len(encode_remaining_length[n]) <= MaxLengthBytes
    /\ MaxPackets \in Nat
    /\ NoFrame \notin [type : Byte, body : Seq(Byte)]

encode(p) == <<p.type>> \o encode_remaining_length[Len(p.body)] \o p.body

\* The bytes that may be digits, and among them the last one: the first
\* without the MSB.
LastDigit(bytes) ==
    {i \in 2 .. Len(bytes) : bytes[i] < Base /\ \A j \in 2 .. i - 1 : bytes[j] >= Base}

\* Mutant: all digits count the same.
decode_remaining_length_unweighted(bytes) ==
    LET last == CHOOSE i \in LastDigit(bytes) : TRUE
        value[i \in 2 .. last] == (bytes[i] % Base) + IF i = last THEN 0 ELSE value[i + 1]
    IN  [hlen |-> last, rlen |-> value[2]]

\* Mutant: the header is taken for one byte shorter than it is.
decode_remaining_length_short(bytes) ==
    LET last == CHOOSE i \in LastDigit(bytes) : TRUE
        value[i \in 2 .. last] == (bytes[i] % Base) + IF i = last THEN 0 ELSE Base * value[i + 1]
    IN  [hlen |-> last - 1, rlen |-> value[2]]

\* Length of the header and of what follows it: digits count Base times those
\* before them.
decode_remaining_length(bytes) ==
    LET last == CHOOSE i \in LastDigit(bytes) : TRUE
        value[i \in 2 .. last] == (bytes[i] % Base) + IF i = last THEN 0 ELSE Base * value[i + 1]
    IN  [hlen |-> last, rlen |-> value[2]]

\* Mutant: the last digit allowed is taken for one too many.
exceeds_maximum_early(bytes) ==
    /\ Len(bytes) > MaxLengthBytes
    /\ \A i \in 2 .. MaxLengthBytes : bytes[i] >= Base

\* A fifth digit has been looked at, whatever it is.
exceeds_maximum(bytes) ==
    /\ Len(bytes) > MaxLengthBytes + 1
    /\ \A i \in 2 .. MaxLengthBytes + 1 : bytes[i] >= Base

\* frame_reader::operator(): how many bytes are missing; one at a time as long
\* as the length is not known.
remaining(bytes) ==
    IF LastDigit(bytes) = {} THEN 1
    ELSE LET length == decode_remaining_length(bytes)
         IN  length.hlen + length.rlen - Len(bytes)

frame_of(bytes) ==
    [type |-> bytes[1],
     body |-> SubSeq(bytes, decode_remaining_length(bytes).hlen + 1, Len(bytes))]

-----------------------------------------------------------------------------

Init ==
    /\ unread = <<>>
    /\ read_buffer = <<>>
    /\ requested = 1
    /\ phase = "reading"
    /\ frame = NoFrame
    /\ sent = <<>>
    /\ broken = FALSE
    /\ delivered = <<>>

client_sends ==
    /\ ~broken
    /\ Len(sent) < MaxPackets
    /\ \E p \in Packet : /\ sent' = Append(sent, p)
                         /\ unread' = unread \o encode(p)
    /\ UNCHANGED <<read_buffer, requested, phase, frame, broken, delivered>>

\* The client sends a length with too many digits.
client_sends_overlong_length ==
    /\ ~broken
    /\ \E t \in Type : unread' = unread \o <<t>> \o [i \in 1 .. MaxLengthBytes + 1 |-> Base]
    /\ broken' = TRUE
    /\ UNCHANGED <<read_buffer, requested, phase, frame, sent, delivered>>

\* async_read_some transfers a portion, at most as much as was asked for and
\* as fits into the buffer, whose size async_read has noted at its start.  Then
\* async_read asks frame_reader what is missing.  An exception thrown there
\* leaves io_service::run.
read_some ==
    /\ phase = "reading"
    /\ \E n \in 1 .. Len(unread) :
           LET bytes == read_buffer \o SubSeq(unread, 1, n)
           IN  /\ n <= requested
               /\ Len(bytes) <= ReadBufferSize
               /\ read_buffer' = bytes
               /\ unread' = SubSeq(unread, n + 1, Len(unread))
               /\ \/ /\ exceeds_maximum(bytes)
                     /\ phase' = "malformed_mqtt_packet"
                     /\ UNCHANGED <<requested, frame>>
                  \/ /\ ~exceeds_maximum(bytes)
                     /\ remaining(bytes) = 0
                     /\ frame' = frame_of(bytes)
                     /\ phase' = "completed"
                     /\ UNCHANGED requested
                  \/ /\ ~exceeds_maximum(bytes)
                     /\ remaining(bytes) # 0
                     /\ requested' = remaining(bytes)
                     /\ phase' = IF Len(bytes) = ReadBufferSize THEN "completed" ELSE phase
                     /\ UNCHANGED frame
    /\ UNCHANGED <<sent, broken, delivered>>

\* on_frame_read, decode_packet and the read_frame at the end of each handler.
on_frame_read ==
    /\ phase = "completed"
    /\ \/ /\ frame # NoFrame
          /\ delivered' = Append(delivered, frame)
          /\ frame' = NoFrame
          /\ read_buffer' = <<>>
          /\ requested' = 1
          /\ phase' = "reading"
       \/ /\ frame = NoFrame
          /\ phase' = "assert_frame"
          /\ UNCHANGED <<read_buffer, requested, frame, delivered>>
    /\ UNCHANGED <<unread, sent, broken>>

Next ==
    \/ client_sends
    \/ client_sends_overlong_length
    \/ read_some
    \/ on_frame_read

Spec == Init /\ [][Next]_vars

\* What arrived is read and the handlers run.
FairSpec == Spec /\ WF_vars(read_some) /\ WF_vars(on_frame_read)

-----------------------------------------------------------------------------
(* Properties                                                               *)

\* The reader's state is that of frame_reader and of async_read.
TypeOK ==
    /\ unread \in Seq(Byte)
    /\ read_buffer \in Seq(Byte)
    /\ Len(read_buffer) <= ReadBufferSize
    /\ requested \in Nat \ {0}
    /\ phase \in {"reading", "completed", "malformed_mqtt_packet", "assert_frame"}
    /\ frame \in {NoFrame} \cup [type : Byte, body : Seq(Byte)]
    /\ sent \in Seq(Packet)
    /\ broken \in BOOLEAN
    /\ delivered \in Seq([type : Byte, body : Seq(Byte)])

\* No packet of at most four length digits is taken for one that has more.
OnlyOverlongIsMalformed ==
    phase = "malformed_mqtt_packet" => broken /\ delivered = sent

Stream == INSTANCE FrameStream

\* Reading frames does what FrameStream asks: what the packet decoder gets is
\* what the client sent, in order, nothing left out or twice; and unless a frame
\* turns out not to fit into the read buffer it gets all of it.
ImplementsFrameStream ==
    Stream!Spec /\ ([](phase # "assert_frame") => Stream!Fairness)

-----------------------------------------------------------------------------
(* What the repository says of this code, and it does not do                *)

\* "Expand buffer to accommodate entire frame if necessary" (decoder.hpp:79),
\* "Use initial read buffer of size <bytes>" (options_factory.cpp:62): a packet
\* longer than the initial buffer is read into an expanded one.
LongFramesAreRead == phase # "assert_frame"
=============================================================================
