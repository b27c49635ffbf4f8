------------------------ MODULE MqttConnectionProofs ------------------------
(***************************************************************************)
(* Theorems about a connection, for every number of frames and packets and *)
(* every order in which its operations complete and their handlers run.    *)
(***************************************************************************)
EXTENDS MqttConnection, SequenceTheorems, TLAPS

-----------------------------------------------------------------------------
(* The queue of handlers                                                    *)

Absent(op, queue) == \A i \in 1 .. Len(queue) : queue[i].op # op

AtMostOne(op, queue) ==
    \A i, j \in 1 .. Len(queue) : (queue[i].op = op /\ queue[j].op = op) => i = j

\* A handler that joins the queue.
LEMMA QueueAppend ==
    ASSUME NEW queue \in Seq(Handler), NEW h \in Handler, NEW op
    PROVE  /\ Append(queue, h) \in Seq(Handler)
           /\ Absent(op, Append(queue, h)) <=> (Absent(op, queue) /\ h.op # op)
           /\ AtMostOne(op, queue) /\ (Absent(op, queue) \/ h.op # op)
                  => AtMostOne(op, Append(queue, h))
  <1>1. /\ Append(queue, h) \in Seq(Handler)
        /\ Len(Append(queue, h)) = Len(queue) + 1
        /\ \A i \in 1 .. Len(queue) : Append(queue, h)[i] = queue[i]
        /\ Append(queue, h)[Len(queue) + 1] = h
        /\ Len(queue) \in Nat
    OBVIOUS
  <1> QED
    BY <1>1 DEF Absent, AtMostOne

\* The first handler leaves the queue.
LEMMA QueueTail ==
    ASSUME NEW queue \in Seq(Handler), queue # <<>>, NEW op
    PROVE  /\ Tail(queue) \in Seq(Handler)
           /\ Head(queue) \in Handler
           /\ Absent(op, queue) <=> (Absent(op, Tail(queue)) /\ Head(queue).op # op)
           /\ AtMostOne(op, queue) => AtMostOne(op, Tail(queue))
           /\ (AtMostOne(op, queue) /\ Head(queue).op = op) => Absent(op, Tail(queue))
  <1>1. /\ Tail(queue) \in Seq(Handler) /\ Head(queue) \in Handler
        /\ Len(queue) \in Nat \ {0}
        /\ Len(Tail(queue)) = Len(queue) - 1
        /\ \A i \in 1 .. Len(queue) - 1 : Tail(queue)[i] = queue[i + 1]
        /\ Head(queue) = queue[1]
    OBVIOUS
  <1>2. \A i \in 1 .. Len(queue) :
            \/ i = 1
            \/ i - 1 \in 1 .. Len(queue) - 1 /\ Tail(queue)[i - 1] = queue[i]
    BY <1>1
  <1>3. Absent(op, queue) <=> (Absent(op, Tail(queue)) /\ Head(queue).op # op)
    <2>1. ASSUME Absent(op, queue)
          PROVE  Absent(op, Tail(queue)) /\ Head(queue).op # op
      <3>1. \A i \in 1 .. Len(queue) - 1 : i + 1 \in 1 .. Len(queue)
        BY <1>1
      <3>2. 1 \in 1 .. Len(queue)
        BY <1>1
      <3> QED
        BY <1>1, <2>1, <3>1, <3>2 DEF Absent
    <2>2. ASSUME Absent(op, Tail(queue)), Head(queue).op # op
          PROVE  Absent(op, queue)
      BY <1>1, <1>2, <2>2 DEF Absent
    <2> QED
      BY <2>1, <2>2
  <1>4. AtMostOne(op, queue) => AtMostOne(op, Tail(queue))
    BY <1>1, <1>2 DEF AtMostOne
  <1>5. (AtMostOne(op, queue) /\ Head(queue).op = op) => Absent(op, Tail(queue))
    BY <1>1, <1>2 DEF AtMostOne, Absent
  <1> QED
    BY <1>1, <1>3, <1>4, <1>5

\* Handlers of other operations join the queue.
LEMMA QueueConcat ==
    ASSUME NEW queue \in Seq(Handler), NEW more \in Seq(Handler), NEW op
    PROVE  /\ queue \o more \in Seq(Handler)
           /\ Absent(op, queue \o more) <=> (Absent(op, queue) /\ Absent(op, more))
           /\ AtMostOne(op, queue) /\ Absent(op, more) => AtMostOne(op, queue \o more)
           /\ Absent(op, queue) /\ AtMostOne(op, more) => AtMostOne(op, queue \o more)
  <1>1. /\ queue \o more \in Seq(Handler)
        /\ Len(queue) \in Nat /\ Len(more) \in Nat
        /\ Len(queue \o more) = Len(queue) + Len(more)
        /\ \A i \in 1 .. Len(queue) : (queue \o more)[i] = queue[i]
        /\ \A i \in 1 .. Len(more) : (queue \o more)[Len(queue) + i] = more[i]
    OBVIOUS
  <1>2. \A i \in 1 .. Len(queue \o more) :
            \/ i \in 1 .. Len(queue) /\ (queue \o more)[i] = queue[i]
            \/ /\ i - Len(queue) \in 1 .. Len(more)
               /\ (queue \o more)[i] = more[i - Len(queue)]
    <2> SUFFICES ASSUME NEW i \in 1 .. Len(queue \o more), i \notin 1 .. Len(queue)
                 PROVE  /\ i - Len(queue) \in 1 .. Len(more)
                        /\ (queue \o more)[i] = more[i - Len(queue)]
      BY <1>1
    <2>1. i - Len(queue) \in 1 .. Len(more) /\ Len(queue) + (i - Len(queue)) = i
      BY <1>1
    <2> QED
      BY <1>1, <2>1
  <1>3. \A i \in 1 .. Len(more) : Len(queue) + i \in 1 .. Len(queue \o more)
    BY <1>1
  <1>4. \A i \in 1 .. Len(queue) : i \in 1 .. Len(queue \o more)
    BY <1>1
  <1>5. Absent(op, queue \o more) <=> (Absent(op, queue) /\ Absent(op, more))
    BY <1>1, <1>2, <1>3, <1>4 DEF Absent
  <1>6. AtMostOne(op, queue) /\ Absent(op, more) => AtMostOne(op, queue \o more)
    <2> SUFFICES ASSUME AtMostOne(op, queue), Absent(op, more),
                        NEW i \in 1 .. Len(queue \o more), NEW j \in 1 .. Len(queue \o more),
                        (queue \o more)[i].op = op, (queue \o more)[j].op = op
                 PROVE  i = j
      BY DEF AtMostOne
    <2>1. i \in 1 .. Len(queue) /\ (queue \o more)[i] = queue[i]
      BY <1>2 DEF Absent
    <2>2. j \in 1 .. Len(queue) /\ (queue \o more)[j] = queue[j]
      BY <1>2 DEF Absent
    <2> QED
      BY <2>1, <2>2 DEF AtMostOne
  <1>7. Absent(op, queue) /\ AtMostOne(op, more) => AtMostOne(op, queue \o more)
    <2> SUFFICES ASSUME Absent(op, queue), AtMostOne(op, more),
                        NEW i \in 1 .. Len(queue \o more), NEW j \in 1 .. Len(queue \o more),
                        (queue \o more)[i].op = op, (queue \o more)[j].op = op
                 PROVE  i = j
      BY DEF AtMostOne
    <2>1. i - Len(queue) \in 1 .. Len(more) /\ (queue \o more)[i] = more[i - Len(queue)]
      BY <1>2 DEF Absent
    <2>2. j - Len(queue) \in 1 .. Len(more) /\ (queue \o more)[j] = more[j - Len(queue)]
      BY <1>2 DEF Absent
    <2>3. i - Len(queue) = j - Len(queue)
      BY <2>1, <2>2 DEF AtMostOne
    <2> QED
      BY <1>1, <2>3
  <1> QED
    BY <1>1, <1>5, <1>6, <1>7

\* A handler that may join the queue.
LEMMA QueueJoin ==
    ASSUME NEW queue \in Seq(Handler), NEW h \in Handler,
           NEW longer \in {queue, Append(queue, h)}, NEW op
    PROVE  /\ longer \in Seq(Handler)
           /\ h.op # op => (Absent(op, longer) <=> Absent(op, queue))
           /\ h.op # op => (AtMostOne(op, queue) => AtMostOne(op, longer))
           /\ Absent(op, queue) => AtMostOne(op, longer)
           /\ h.op = op /\ longer = Append(queue, h) => ~Absent(op, longer)
  <1>1. Absent(op, queue) => AtMostOne(op, queue)
    BY DEF Absent, AtMostOne
  <1>2. CASE longer = queue
    <2>1. Len(queue) + 1 # Len(queue) /\ Len(Append(queue, h)) = Len(queue) + 1
      OBVIOUS
    <2> QED
      BY <1>1, <1>2, <2>1
  <1>3. CASE longer = Append(queue, h)
    BY <1>1, <1>3, QueueAppend
  <1> QED
    BY <1>2, <1>3

LEMMA QueueIf ==
    ASSUME NEW queue \in Seq(Handler), NEW h \in Handler, NEW condition \in BOOLEAN
    PROVE  queue \o If(condition, h) = IF condition THEN Append(queue, h) ELSE queue
  BY DEF If

LEMMA EmptyQueue ==
    ASSUME NEW op
    PROVE  <<>> \in Seq(Handler) /\ Absent(op, <<>>) /\ AtMostOne(op, <<>>)
  BY DEF Absent, AtMostOne

-----------------------------------------------------------------------------
(* The inductive invariant                                                  *)

ConnectionRecord ==
    [socket : {"accepted", "open", "closed"}, managed : BOOLEAN,
     client_id : BOOLEAN, keep_alive : BOOLEAN, reading : BOOLEAN,
     connect_timer : BOOLEAN, keep_alive_timer : BOOLEAN,
     writing : Seq(Write), write_buffer : Packet \cup {"none"}, ready : Seq(Handler)]

NothingPending(c) ==
    ~c.reading /\ ~c.connect_timer /\ ~c.keep_alive_timer /\ c.writing = <<>>

\* One read at most, pending or to be handled; and no wait of the keep alive
\* timer before a client asks for it.
Basic(c) ==
    /\ c \in ConnectionRecord
    /\ c.managed <=> c.socket = "open"
    /\ c.socket # "open" => NothingPending(c)
    /\ c.socket = "accepted" => c.ready = <<>> /\ ~c.client_id
    /\ AtMostOne("read", c.ready)
    /\ c.reading => Absent("read", c.ready)
    /\ c.keep_alive => c.client_id
    /\ ~c.keep_alive => ~c.keep_alive_timer /\ Absent("keep alive timer", c.ready)

\* One wait of the keep alive timer, as long as the connection is open.
Watched(c) ==
    (c.socket = "open" /\ c.keep_alive) =>
        /\ AtMostOne("keep alive timer", c.ready)
        /\ c.keep_alive_timer <=> Absent("keep alive timer", c.ready)

Sound(c) == Basic(c) /\ Watched(c)

-----------------------------------------------------------------------------
(* Operations keep a connection sound                                       *)

LEMMA CancelConnectTimer ==
    ASSUME NEW c, Basic(c)
    PROVE  /\ Basic(cancel_connect_timer(c))
           /\ Watched(c) => Watched(cancel_connect_timer(c))
           /\ cancel_connect_timer(c).connect_timer = FALSE
           /\ cancel_connect_timer(c).socket = c.socket
           /\ cancel_connect_timer(c).client_id = c.client_id
           /\ cancel_connect_timer(c).keep_alive = c.keep_alive
           /\ cancel_connect_timer(c).keep_alive_timer = c.keep_alive_timer
           /\ cancel_connect_timer(c).reading = c.reading
           /\ ~c.connect_timer => cancel_connect_timer(c).ready = c.ready
           /\ Absent("read", c.ready) <=> Absent("read", cancel_connect_timer(c).ready)
           /\ Absent("keep alive timer", c.ready)
                  <=> Absent("keep alive timer", cancel_connect_timer(c).ready)
  <1> DEFINE h == Queued("connect timer", "aborted", "none")
             queue == c.ready \o If(c.connect_timer, h)
             d == cancel_connect_timer(c)
  <1>1. c \in ConnectionRecord /\ h \in Handler
    BY DEF Basic, Handler, Queued
  <1>2. c.ready \in Seq(Handler) /\ c.connect_timer \in BOOLEAN /\ h.op = "connect timer"
    BY <1>1 DEF ConnectionRecord, Queued
  <1>3. /\ queue \in Seq(Handler)
        /\ ~c.connect_timer => queue = c.ready
        /\ Absent("read", queue) <=> Absent("read", c.ready)
        /\ AtMostOne("read", c.ready) => AtMostOne("read", queue)
        /\ Absent("keep alive timer", queue) <=> Absent("keep alive timer", c.ready)
        /\ AtMostOne("keep alive timer", c.ready) => AtMostOne("keep alive timer", queue)
    <2>1. queue = IF c.connect_timer THEN Append(c.ready, h) ELSE c.ready
      BY <1>1, <1>2, QueueIf
    <2> HIDE DEF h, queue
    <2>2. queue \in {c.ready, Append(c.ready, h)}
      BY <2>1
    <2>3. ASSUME NEW op
          PROVE  /\ queue \in Seq(Handler)
                 /\ h.op # op => (Absent(op, queue) <=> Absent(op, c.ready))
                 /\ h.op # op => (AtMostOne(op, c.ready) => AtMostOne(op, queue))
                 /\ Absent(op, c.ready) => AtMostOne(op, queue)
                 /\ h.op = op /\ queue = Append(c.ready, h) => ~Absent(op, queue)
      <3>1. c.ready \in Seq(Handler)
        BY <1>2
      <3>2. h \in Handler
        BY <1>1
      <3>3. queue \in {c.ready, Append(c.ready, h)}
        BY <2>2
      <3>4. queue \in Seq(Handler)
        BY <3>1, <3>2, <3>3, QueueJoin
      <3>5. h.op # op => (Absent(op, queue) <=> Absent(op, c.ready))
        BY <3>1, <3>2, <3>3, QueueJoin
      <3>6. h.op # op => (AtMostOne(op, c.ready) => AtMostOne(op, queue))
        BY <3>1, <3>2, <3>3, QueueJoin
      <3>7. Absent(op, c.ready) => AtMostOne(op, queue)
        BY <3>1, <3>2, <3>3, QueueJoin
      <3>8. h.op = op /\ queue = Append(c.ready, h) => ~Absent(op, queue)
        BY <3>1, <3>2, <3>3, QueueJoin
      <3> QED
        BY <3>4, <3>5, <3>6, <3>7, <3>8
    <2> QED
      BY <1>2, <2>1, <2>3
  <1>4. d = [c EXCEPT !.connect_timer = FALSE, !.ready = queue]
    BY DEF cancel_connect_timer
  <1>5. c.socket = "accepted" => queue = <<>>
    BY <1>3 DEF Sound, Basic, Watched, NothingPending
  <1> HIDE DEF queue, h
  <1>6. /\ d \in ConnectionRecord
        /\ d.socket = c.socket /\ d.managed = c.managed /\ d.client_id = c.client_id
        /\ d.keep_alive = c.keep_alive /\ d.reading = c.reading
        /\ d.keep_alive_timer = c.keep_alive_timer /\ d.writing = c.writing
        /\ d.connect_timer = FALSE /\ d.ready = queue
    BY <1>1, <1>3, <1>4 DEF ConnectionRecord
  <1>7. Basic(d)
    BY <1>3, <1>5, <1>6 DEF Basic, NothingPending
  <1>8. Watched(c) => Watched(d)
    BY <1>3, <1>6 DEF Watched
  <1> QED
    BY <1>3, <1>6, <1>7, <1>8

LEMMA CancelKeepAliveTimer ==
    ASSUME NEW c, Basic(c)
    PROVE  /\ Basic(cancel_keep_alive_timer(c))
           /\ Watched(c) => Watched(cancel_keep_alive_timer(c))
           /\ cancel_keep_alive_timer(c).keep_alive_timer = FALSE
           /\ cancel_keep_alive_timer(c).socket = c.socket
           /\ cancel_keep_alive_timer(c).client_id = c.client_id
           /\ cancel_keep_alive_timer(c).keep_alive = c.keep_alive
           /\ cancel_keep_alive_timer(c).connect_timer = c.connect_timer
           /\ cancel_keep_alive_timer(c).reading = c.reading
           /\ ~c.keep_alive_timer => cancel_keep_alive_timer(c).ready = c.ready
           /\ Absent("read", c.ready) <=> Absent("read", cancel_keep_alive_timer(c).ready)
  <1> DEFINE h == Queued("keep alive timer", "aborted", "none")
             queue == c.ready \o If(c.keep_alive_timer, h)
             d == cancel_keep_alive_timer(c)
  <1>1. c \in ConnectionRecord /\ h \in Handler
    BY DEF Basic, Handler, Queued
  <1>2. /\ c.ready \in Seq(Handler) /\ c.keep_alive_timer \in BOOLEAN
        /\ h.op = "keep alive timer"
    BY <1>1 DEF ConnectionRecord, Queued
  <1>3. /\ queue \in Seq(Handler)
        /\ ~c.keep_alive_timer => queue = c.ready
        /\ Absent("read", queue) <=> Absent("read", c.ready)
        /\ AtMostOne("read", c.ready) => AtMostOne("read", queue)
        /\ c.keep_alive_timer =>
               /\ ~Absent("keep alive timer", queue)
               /\ Absent("keep alive timer", c.ready) => AtMostOne("keep alive timer", queue)
    <2>1. queue = IF c.keep_alive_timer THEN Append(c.ready, h) ELSE c.ready
      BY <1>1, <1>2, QueueIf
    <2> HIDE DEF h, queue
    <2>2. queue \in {c.ready, Append(c.ready, h)}
      BY <2>1
    <2>3. ASSUME NEW op
          PROVE  /\ queue \in Seq(Handler)
                 /\ h.op # op => (Absent(op, queue) <=> Absent(op, c.ready))
                 /\ h.op # op => (AtMostOne(op, c.ready) => AtMostOne(op, queue))
                 /\ Absent(op, c.ready) => AtMostOne(op, queue)
                 /\ h.op = op /\ queue = Append(c.ready, h) => ~Absent(op, queue)
      <3>1. c.ready \in Seq(Handler)
        BY <1>2
      <3>2. h \in Handler
        BY <1>1
      <3>3. queue \in {c.ready, Append(c.ready, h)}
        BY <2>2
      <3>4. queue \in Seq(Handler)
        BY <3>1, <3>2, <3>3, QueueJoin
      <3>5. h.op # op => (Absent(op, queue) <=> Absent(op, c.ready))
        BY <3>1, <3>2, <3>3, QueueJoin
      <3>6. h.op # op => (AtMostOne(op, c.ready) => AtMostOne(op, queue))
        BY <3>1, <3>2, <3>3, QueueJoin
      <3>7. Absent(op, c.ready) => AtMostOne(op, queue)
        BY <3>1, <3>2, <3>3, QueueJoin
      <3>8. h.op = op /\ queue = Append(c.ready, h) => ~Absent(op, queue)
        BY <3>1, <3>2, <3>3, QueueJoin
      <3> QED
        BY <3>4, <3>5, <3>6, <3>7, <3>8
    <2> QED
      BY <1>2, <2>1, <2>3
  <1>4. ~c.keep_alive => Absent("keep alive timer", queue)
    BY <1>3 DEF Sound, Basic, Watched
  <1>5. (Watched(c) /\ c.socket = "open" /\ c.keep_alive) =>
            AtMostOne("keep alive timer", queue) /\ ~Absent("keep alive timer", queue)
    BY <1>3 DEF Sound, Basic, Watched
  <1>6. d = [c EXCEPT !.keep_alive_timer = FALSE, !.ready = queue]
    BY DEF cancel_keep_alive_timer
  <1>7. c.socket = "accepted" => queue = <<>>
    BY <1>3 DEF Sound, Basic, Watched, NothingPending
  <1> HIDE DEF queue, h
  <1>8. /\ d \in ConnectionRecord
        /\ d.socket = c.socket /\ d.managed = c.managed /\ d.client_id = c.client_id
        /\ d.keep_alive = c.keep_alive /\ d.reading = c.reading
        /\ d.connect_timer = c.connect_timer /\ d.writing = c.writing
        /\ d.keep_alive_timer = FALSE /\ d.ready = queue
    BY <1>1, <1>3, <1>6 DEF ConnectionRecord
  <1>9. Basic(d)
    BY <1>3, <1>4, <1>7, <1>8 DEF Basic, NothingPending
  <1>10. Watched(c) => Watched(d)
    BY <1>5, <1>8 DEF Watched
  <1> QED
    BY <1>3, <1>8, <1>9, <1>10


\* Closing the socket hands the pending operations to the queue.
LEMMA CloseSocket ==
    ASSUME NEW k, Basic(k), ~k.connect_timer, ~k.keep_alive_timer, k.socket # "accepted",
           NEW d, d = [close_socket(k) EXCEPT !.managed = FALSE]
    PROVE  /\ Sound(d)
           /\ d.socket = "closed"
           /\ d.client_id = k.client_id
           /\ k.socket = "closed" => d.ready = k.ready
           /\ (Absent("read", k.ready) /\ ~k.reading) => Absent("read", d.ready)
  <1> DEFINE r == Queued("read", "aborted", "none")
             first == k.ready \o If(k.reading, r)
             aborted == [i \in 1 .. Len(k.writing) |-> Queued("write", "aborted", k.writing[i].arg)]
             queue == first \o aborted
  <1>1. /\ k \in ConnectionRecord /\ r \in Handler /\ r.op = "read"
        /\ k.ready \in Seq(Handler) /\ k.reading \in BOOLEAN
        /\ k.writing \in Seq(Write) /\ Len(k.writing) \in Nat
    <2>1. r \in Handler /\ r.op = "read"
      BY DEF Handler, Queued
    <2>2. k \in ConnectionRecord
      BY DEF Sound, Basic, Watched
    <2>3. /\ k.ready \in Seq(Handler) /\ k.reading \in BOOLEAN
          /\ k.writing \in Seq(Write)
      BY <2>2 DEF ConnectionRecord
    <2> QED
      BY <2>1, <2>2, <2>3
  <1>2. close_socket(k) = [k EXCEPT !.socket = "closed", !.reading = FALSE, !.writing = <<>>,
                                    !.ready = queue]
    BY DEF close_socket
  <1>3. /\ aborted \in Seq(Handler) /\ Len(aborted) = Len(k.writing)
        /\ Absent("read", aborted) /\ Absent("keep alive timer", aborted)
    <2>1. \A i \in 1 .. Len(k.writing) : k.writing[i] \in Write
      BY <1>1
    <2>2. \A i \in 1 .. Len(k.writing) :
              Queued("write", "aborted", k.writing[i].arg) \in Handler
      BY <2>1 DEF Write, Handler, Queued
    <2>3. aborted \in Seq(Handler) /\ Len(aborted) = Len(k.writing)
      BY <1>1, <2>2
    <2>4. \A i \in 1 .. Len(aborted) : aborted[i].op = "write"
      BY <1>1, <2>3 DEF Queued
    <2> HIDE DEF aborted
    <2> QED
      BY <2>3, <2>4 DEF Absent
  <1>4. first = IF k.reading THEN Append(k.ready, r) ELSE k.ready
    BY <1>1, QueueIf
  <1>5. queue = first \o aborted
    OBVIOUS
  <1> HIDE DEF r, first, aborted, queue
  <1>6. /\ first \in Seq(Handler)
        /\ AtMostOne("read", first)
        /\ Absent("keep alive timer", first) <=> Absent("keep alive timer", k.ready)
    <2>1. first \in {k.ready, Append(k.ready, r)}
      BY <1>4
    <2>2. first \in Seq(Handler)
      BY <1>1, <2>1, QueueJoin
    <2>3. ASSUME NEW op
          PROVE  r.op # op => (Absent(op, first) <=> Absent(op, k.ready))
      <3>1. CASE first = k.ready
        BY <3>1
      <3>2. CASE first = Append(k.ready, r)
        BY <1>1, <3>2, QueueAppend
      <3> QED
        BY <2>1, <3>1, <3>2
    <2>4. Absent("read", k.ready) => AtMostOne("read", first)
      BY <1>1, <2>1, QueueJoin
    <2> QED
      BY <1>1, <1>4, <2>2, <2>3, <2>4 DEF Sound, Basic, Watched
  <1>7. /\ queue \in Seq(Handler)
        /\ AtMostOne("read", queue)
        /\ Absent("keep alive timer", k.ready) => Absent("keep alive timer", queue)
        /\ (Absent("read", k.ready) /\ ~k.reading) => Absent("read", queue)
    BY <1>3, <1>4, <1>5, <1>6, QueueConcat
  <1>8. k.socket = "closed" => queue = k.ready
    <2> SUFFICES ASSUME k.socket = "closed"
                 PROVE  queue = k.ready
      OBVIOUS
    <2>1. first = k.ready /\ Len(aborted) = 0
      BY <1>3, <1>4 DEF Sound, Basic, Watched, NothingPending
    <2>2. aborted = <<>>
      BY <1>3, <2>1, EmptySeq
    <2> QED
      BY <1>1, <1>5, <2>1, <2>2
  <1>9. /\ d \in ConnectionRecord
        /\ d.socket = "closed" /\ d.managed = FALSE /\ d.client_id = k.client_id
        /\ d.keep_alive = k.keep_alive /\ d.reading = FALSE
        /\ d.connect_timer = k.connect_timer /\ d.keep_alive_timer = k.keep_alive_timer
        /\ d.writing = <<>> /\ d.ready = queue
    <2> DEFINE e == close_socket(k)
    <2>1. /\ e \in ConnectionRecord
          /\ e.socket = "closed" /\ e.client_id = k.client_id
          /\ e.keep_alive = k.keep_alive /\ e.reading = FALSE
          /\ e.connect_timer = k.connect_timer /\ e.keep_alive_timer = k.keep_alive_timer
          /\ e.writing = <<>> /\ e.ready = queue
      <3>1. <<>> \in Seq(Write) /\ k \in ConnectionRecord /\ queue \in Seq(Handler)
        BY <1>1, <1>7, EmptySeq
      <3>2. e = [k EXCEPT !.socket = "closed", !.reading = FALSE, !.writing = <<>>,
                          !.ready = queue]
        BY <1>2
      <3> HIDE DEF e
      <3> QED
        BY <3>1, <3>2 DEF ConnectionRecord
    <2>2. d = [e EXCEPT !.managed = FALSE]
      OBVIOUS
    <2> HIDE DEF e
    <2> QED
      BY <2>1, <2>2 DEF ConnectionRecord
  <1>10. Sound(d)
    BY <1>7, <1>9 DEF Sound, Basic, Watched, NothingPending
  <1> QED
    BY <1>7, <1>8, <1>9, <1>10

\* A connection that is stopped once more keeps its queue.
LEMMA Stop ==
    ASSUME NEW c, Basic(c), c.socket # "accepted"
    PROVE  /\ Sound(stop(c))
           /\ stop(c).socket = "closed"
           /\ stop(c).client_id = c.client_id
           /\ c.socket = "closed" => stop(c).ready = c.ready
           /\ (Absent("read", c.ready) /\ ~c.reading) => Absent("read", stop(c).ready)
  <1> DEFINE b == cancel_connect_timer(c)
             k == cancel_keep_alive_timer(b)
             d == stop(c)
  <1>1. /\ Basic(b) /\ b.connect_timer = FALSE /\ b.socket = c.socket
        /\ b.client_id = c.client_id /\ b.keep_alive_timer = c.keep_alive_timer
        /\ ~c.connect_timer => b.ready = c.ready
        /\ Absent("read", c.ready) <=> Absent("read", b.ready)
        /\ b.reading = c.reading
    BY CancelConnectTimer
  <1>2. d = [close_socket(k) EXCEPT !.managed = FALSE]
    BY DEF stop, do_stop
  <1>3. k = cancel_keep_alive_timer(b)
    OBVIOUS
  <1> HIDE DEF b, k, d
  <1>4. /\ Basic(k) /\ k.keep_alive_timer = FALSE /\ k.socket = b.socket
        /\ k.client_id = b.client_id /\ k.connect_timer = b.connect_timer
        /\ ~b.keep_alive_timer => k.ready = b.ready
        /\ Absent("read", b.ready) <=> Absent("read", k.ready)
        /\ k.reading = b.reading
    BY <1>1, <1>3, CancelKeepAliveTimer
  <1>5. /\ Sound(d) /\ d.socket = "closed" /\ d.client_id = k.client_id
        /\ k.socket = "closed" => d.ready = k.ready
        /\ (Absent("read", k.ready) /\ ~k.reading) => Absent("read", d.ready)
    BY <1>1, <1>2, <1>4, CloseSocket
  <1>6. c.socket = "closed" => ~c.connect_timer /\ ~c.keep_alive_timer
    BY DEF Sound, Basic, Watched, NothingPending
  <1> QED
    BY <1>1, <1>4, <1>5, <1>6 DEF d

LEMMA ReadFrame ==
    ASSUME NEW c, Sound(c), ~c.reading, Absent("read", c.ready)
    PROVE  /\ Sound(read_frame(c))
           /\ read_frame(c).socket = c.socket
           /\ read_frame(c).client_id = c.client_id
           /\ read_frame(c).ready = c.ready
  <1>1. CASE c.socket = "open"
    <2> DEFINE d == read_frame(c)
    <2>1. c \in ConnectionRecord
      BY DEF Sound, Basic
    <2>2. d = [c EXCEPT !.reading = TRUE]
      BY <1>1 DEF read_frame
    <2> HIDE DEF d
    <2>3. /\ d \in ConnectionRecord
          /\ d.socket = c.socket /\ d.managed = c.managed /\ d.client_id = c.client_id
          /\ d.keep_alive = c.keep_alive /\ d.keep_alive_timer = c.keep_alive_timer
          /\ d.ready = c.ready
      BY <2>1, <2>2 DEF ConnectionRecord
    <2>4. Sound(d)
      BY <1>1, <2>3 DEF Sound, Basic, Watched
    <2> QED
      BY <2>3, <2>4 DEF d
  <1>2. CASE c.socket # "open"
    BY <1>2 DEF read_frame
  <1> QED
    BY <1>1, <1>2

\* An async_write leaves everything but the writes and their handlers alone.
LEMMA WritePacket ==
    ASSUME NEW c, Sound(c), NEW packet \in Packet, NEW arg \in {"none", "close"},
           NEW d \in write(c, packet, arg)
    PROVE  /\ Sound(d)
           /\ d.socket = c.socket
           /\ d.client_id = c.client_id
           /\ d.reading = c.reading
           /\ Absent("read", c.ready) <=> Absent("read", d.ready)
           /\ c.socket = "closed" => d = c
  <1>1. c \in ConnectionRecord
    BY DEF Sound, Basic
  <1>2. CASE c.socket # "open"
    BY <1>2 DEF write
  <1>3. CASE c.socket = "open"
    <2> DEFINE b == [c EXCEPT !.write_buffer = packet]
               w == [packet |-> packet, arg |-> arg]
    <2>1. \/ d = [b EXCEPT !.writing = Append(@, w)]
          \/ \E ec \in {"ok", "failed"} : d = [b EXCEPT !.ready = Append(@, Queued("write", ec, arg))]
      BY <1>3 DEF write
    <2>2. /\ b \in ConnectionRecord
          /\ b.socket = c.socket /\ b.managed = c.managed /\ b.client_id = c.client_id
          /\ b.keep_alive = c.keep_alive /\ b.keep_alive_timer = c.keep_alive_timer
          /\ b.ready = c.ready /\ b.reading = c.reading /\ b.writing = c.writing
      BY <1>1 DEF ConnectionRecord
    <2>3. w \in Write /\ c.writing \in Seq(Write) /\ c.ready \in Seq(Handler)
      BY <1>1 DEF Write, ConnectionRecord
    <2> HIDE DEF b, w
    <2>4. CASE d = [b EXCEPT !.writing = Append(@, w)]
      <3>1. Append(b.writing, w) \in Seq(Write)
        BY <2>2, <2>3
      <3>2. /\ d \in ConnectionRecord
            /\ d.socket = c.socket /\ d.managed = c.managed /\ d.client_id = c.client_id
            /\ d.keep_alive = c.keep_alive /\ d.keep_alive_timer = c.keep_alive_timer
            /\ d.ready = c.ready /\ d.reading = c.reading
        BY <2>2, <2>4, <3>1 DEF ConnectionRecord
      <3>3. Sound(d)
        BY <1>3, <3>2 DEF Sound, Basic, Watched
      <3> QED
        BY <1>3, <3>2, <3>3
    <2>5. ASSUME NEW ec \in {"ok", "failed"},
                 d = [b EXCEPT !.ready = Append(@, Queued("write", ec, arg))]
          PROVE  /\ Sound(d)
                 /\ d.socket = c.socket
                 /\ d.client_id = c.client_id
                 /\ d.reading = c.reading
                 /\ Absent("read", c.ready) <=> Absent("read", d.ready)
      <3> DEFINE h == Queued("write", ec, arg)
                 queue == Append(c.ready, h)
      <3>1. h \in Handler /\ h.op = "write"
        BY DEF Handler, Queued
      <3>2. d = [b EXCEPT !.ready = queue]
        BY <2>2, <2>5
      <3> HIDE DEF h
      <3>3. ASSUME NEW op
            PROVE  /\ queue \in Seq(Handler)
                   /\ h.op # op => (Absent(op, queue) <=> Absent(op, c.ready))
                   /\ h.op # op /\ AtMostOne(op, c.ready) => AtMostOne(op, queue)
        BY <2>3, <3>1, QueueAppend
      <3> HIDE DEF queue
      <3>4. /\ d \in ConnectionRecord
            /\ d.socket = c.socket /\ d.managed = c.managed /\ d.client_id = c.client_id
            /\ d.keep_alive = c.keep_alive /\ d.keep_alive_timer = c.keep_alive_timer
            /\ d.ready = queue /\ d.reading = c.reading
        BY <2>2, <3>2, <3>3 DEF ConnectionRecord
      <3>5. Sound(d)
        BY <1>3, <3>1, <3>3, <3>4 DEF Sound, Basic, Watched
      <3> QED
        BY <3>1, <3>3, <3>4, <3>5
    <2> QED
      BY <1>3, <2>1, <2>4, <2>5
  <1> QED
    BY <1>2, <1>3

\* The keep alive timer starts on an open connection on which none is waiting.
LEMMA StartKeepAlive ==
    ASSUME NEW c, Basic(c), c.socket = "open", ~c.keep_alive_timer,
           Absent("keep alive timer", c.ready)
    PROVE  /\ Sound(close_on_keep_alive_timeout(c))
           /\ close_on_keep_alive_timeout(c).socket = c.socket
           /\ close_on_keep_alive_timeout(c).client_id = c.client_id
           /\ close_on_keep_alive_timeout(c).reading = c.reading
           /\ close_on_keep_alive_timeout(c).ready = c.ready
  <1>1. c \in ConnectionRecord /\ AtMostOne("keep alive timer", c.ready)
    BY DEF Basic, Absent, AtMostOne
  <1>2. CASE ~c.keep_alive
    BY <1>2 DEF close_on_keep_alive_timeout, Sound, Watched
  <1>3. CASE c.keep_alive
    <2> DEFINE b == cancel_keep_alive_timer(c)
               d == close_on_keep_alive_timeout(c)
    <2>1. d = [b EXCEPT !.keep_alive_timer = TRUE]
      BY <1>3 DEF close_on_keep_alive_timeout
    <2>2. c.ready \o If(c.keep_alive_timer, Queued("keep alive timer", "aborted", "none")) = c.ready
      <3>1. /\ c.ready \in Seq(Handler) /\ c.keep_alive_timer \in BOOLEAN
            /\ Queued("keep alive timer", "aborted", "none") \in Handler
        BY <1>1 DEF ConnectionRecord, Queued, Handler
      <3> QED
        BY <3>1, QueueIf
    <2>3. b = [c EXCEPT !.keep_alive_timer = FALSE, !.ready = c.ready]
      BY <2>2 DEF cancel_keep_alive_timer
    <2> HIDE DEF b, d
    <2>4. /\ b \in ConnectionRecord
          /\ b.socket = c.socket /\ b.managed = c.managed /\ b.client_id = c.client_id
          /\ b.keep_alive = c.keep_alive /\ b.ready = c.ready /\ b.reading = c.reading
      BY <1>1, <2>3 DEF ConnectionRecord
    <2>5. /\ d \in ConnectionRecord
          /\ d.socket = c.socket /\ d.managed = c.managed /\ d.client_id = c.client_id
          /\ d.keep_alive = c.keep_alive /\ d.ready = c.ready /\ d.reading = c.reading
          /\ d.keep_alive_timer = TRUE
      BY <2>1, <2>4 DEF ConnectionRecord
    <2>6. Sound(d)
      BY <1>1, <1>3, <2>5 DEF Sound, Basic, Watched
    <2> QED
      BY <2>5, <2>6 DEF d
  <1> QED
    BY <1>2, <1>3

-----------------------------------------------------------------------------
(* Handlers keep a connection sound                                         *)

\* The first handler leaves the queue.
LEMMA HandlerTaken ==
    ASSUME Sound(connection), connection.ready # <<>>
    PROVE  /\ connection.socket # "accepted"
           /\ Head(connection.ready) \in Handler
           /\ Basic(HandlerDone)
           /\ Head(connection.ready).op # "keep alive timer" => Watched(HandlerDone)
           /\ HandlerDone.socket = connection.socket
           /\ HandlerDone.client_id = connection.client_id
           /\ HandlerDone.ready = Tail(connection.ready)
           /\ Head(connection.ready).op = "read" =>
                  ~HandlerDone.reading /\ Absent("read", HandlerDone.ready)
           /\ (Head(connection.ready).op = "keep alive timer" /\ connection.socket = "open") =>
                  ~HandlerDone.keep_alive_timer /\ Absent("keep alive timer", HandlerDone.ready)
  <1> DEFINE c == connection
             h == Head(c.ready)
             queue == Tail(c.ready)
             d == HandlerDone
  <1>1. c \in ConnectionRecord /\ c.socket # "accepted"
    BY DEF Sound, Basic
  <1>2. c.ready \in Seq(Handler)
    BY <1>1 DEF ConnectionRecord
  <1>3. ASSUME NEW op
        PROVE  /\ queue \in Seq(Handler)
               /\ h \in Handler
               /\ Absent(op, c.ready) <=> (Absent(op, queue) /\ h.op # op)
               /\ AtMostOne(op, c.ready) => AtMostOne(op, queue)
               /\ (AtMostOne(op, c.ready) /\ h.op = op) => Absent(op, queue)
    BY <1>2, QueueTail
  <1>4. d = [c EXCEPT !.ready = queue]
    BY DEF HandlerDone
  <1> HIDE DEF h, queue, d
  <1>5. /\ d \in ConnectionRecord
        /\ d.socket = c.socket /\ d.managed = c.managed /\ d.client_id = c.client_id
        /\ d.keep_alive = c.keep_alive /\ d.reading = c.reading
        /\ d.connect_timer = c.connect_timer /\ d.keep_alive_timer = c.keep_alive_timer
        /\ d.writing = c.writing /\ d.ready = queue
    BY <1>1, <1>3, <1>4 DEF ConnectionRecord
  <1>6. Basic(d)
    BY <1>1, <1>3, <1>5 DEF Sound, Basic, NothingPending
  <1>7. h.op # "keep alive timer" => Watched(d)
    BY <1>3, <1>5 DEF Sound, Watched
  <1>8. h.op = "read" => ~d.reading /\ Absent("read", d.ready)
    BY <1>3, <1>5 DEF Sound, Basic
  <1>9. (h.op = "keep alive timer" /\ c.socket = "open") =>
            ~d.keep_alive_timer /\ Absent("keep alive timer", d.ready)
    BY <1>3, <1>5 DEF Sound, Basic, Watched
  <1>10. h \in Handler
    BY <1>3
  <1> QED
    BY <1>1, <1>5, <1>6, <1>7, <1>8, <1>9, <1>10 DEF h, queue, d

\* After a read no other one is pending or to be handled.
LEMMA FrameTakenSound ==
    ASSUME Sound(connection), connection.ready # <<>>, Head(connection.ready).op = "read"
    PROVE  /\ Sound(FrameTaken)
           /\ connection.socket # "accepted"
           /\ FrameTaken.socket = connection.socket
           /\ FrameTaken.client_id = connection.client_id
           /\ FrameTaken.reading = FALSE
           /\ Absent("read", FrameTaken.ready)
           /\ connection.socket = "closed" => FrameTaken.ready = Tail(connection.ready)
  <1>1. /\ Sound(HandlerDone) /\ connection.socket # "accepted"
        /\ HandlerDone.socket = connection.socket
        /\ HandlerDone.client_id = connection.client_id
        /\ HandlerDone.ready = Tail(connection.ready)
        /\ ~HandlerDone.reading /\ Absent("read", HandlerDone.ready)
    BY HandlerTaken DEF Sound
  <1>2. FrameTaken = cancel_keep_alive_timer(HandlerDone)
    BY DEF FrameTaken, HandlerDone
  <1>3. connection.socket = "closed" => ~HandlerDone.keep_alive_timer
    BY <1>1 DEF Sound, Basic, NothingPending
  <1>4. HandlerDone.reading = FALSE
    BY <1>1 DEF Sound, Basic, ConnectionRecord
  <1> QED
    BY <1>1, <1>2, <1>3, <1>4, CancelKeepAliveTimer DEF Sound

\* What the handler of a read may leave of the connection.
LEMMA ReadHandled ==
    ASSUME Sound(connection), connection.ready # <<>>, Head(connection.ready).op = "read",
           NEW d,
           \/ d = FrameTaken
           \/ d = stop(FrameTaken)
           \/ d = read_frame(FrameTaken)
           \/ d = read_frame(stop(FrameTaken))
           \/ \E packet \in Packet, arg \in {"none", "close"} :
                 \E c \in write(FrameTaken, packet, arg) : d = read_frame(c)
    PROVE  /\ Sound(d)
           /\ connection.socket # "accepted"
           /\ d.socket \in {connection.socket, "closed"}
           /\ d.client_id = connection.client_id
           /\ d.socket = "closed" => Absent("read", d.ready)
           /\ connection.socket = "closed" => d.ready = Tail(connection.ready)
  <1> DEFINE f == FrameTaken
  <1>1. /\ Sound(f) /\ connection.socket # "accepted"
        /\ f.socket = connection.socket /\ f.client_id = connection.client_id
        /\ ~f.reading /\ Absent("read", f.ready)
        /\ connection.socket = "closed" => f.ready = Tail(connection.ready)
    BY FrameTakenSound
  <1> HIDE DEF f
  <1>2. CASE d = f
    BY <1>1, <1>2
  <1>3. CASE d = stop(f)
    BY <1>1, <1>3, Stop DEF Sound
  <1>4. CASE d = read_frame(f)
    BY <1>1, <1>4, ReadFrame
  <1>5. CASE d = read_frame(stop(f))
    <2>1. d = stop(f)
      BY <1>1, <1>5, Stop DEF read_frame, Sound
    <2> QED
      BY <1>3, <2>1
  <1>6. ASSUME NEW packet \in Packet, NEW arg \in {"none", "close"},
               NEW c \in write(f, packet, arg), d = read_frame(c)
        PROVE  /\ Sound(d)
               /\ d.socket = f.socket
               /\ d.client_id = f.client_id
               /\ Absent("read", d.ready)
               /\ connection.socket = "closed" => d.ready = f.ready
    <2>1. /\ Sound(c) /\ c.socket = f.socket /\ c.client_id = f.client_id
          /\ ~c.reading /\ Absent("read", c.ready)
          /\ f.socket = "closed" => c = f
      BY <1>1, WritePacket
    <2> QED
      BY <1>1, <1>6, <2>1, ReadFrame
  <1> QED
    BY <1>1, <1>2, <1>3, <1>4, <1>5, <1>6 DEF f

\* What the other handlers may leave of it.
LEMMA OtherHandled ==
    ASSUME Sound(connection), connection.ready # <<>>, Head(connection.ready).op # "read",
           NEW d,
           \/ d = HandlerDone /\ Head(connection.ready).op # "keep alive timer"
           \/ d = stop(HandlerDone)
           \/ d = start_next(HandlerDone) /\ Head(connection.ready).op = "keep alive timer"
    PROVE  /\ Sound(d)
           /\ connection.socket # "accepted"
           /\ d.socket \in {connection.socket, "closed"}
           /\ d.client_id = connection.client_id
           /\ connection.socket = "closed" => d.ready = Tail(connection.ready)
  <1> DEFINE f == HandlerDone
  <1>1. /\ Basic(f) /\ connection.socket # "accepted"
        /\ Head(connection.ready).op # "keep alive timer" => Watched(f)
        /\ f.socket = connection.socket /\ f.client_id = connection.client_id
        /\ f.ready = Tail(connection.ready)
        /\ (Head(connection.ready).op = "keep alive timer" /\ connection.socket = "open") =>
               ~f.keep_alive_timer /\ Absent("keep alive timer", f.ready)
    BY HandlerTaken
  <1> HIDE DEF f
  <1>2. CASE d = f /\ Head(connection.ready).op # "keep alive timer"
    BY <1>1, <1>2 DEF Sound
  <1>3. CASE d = stop(f)
    BY <1>1, <1>3, Stop
  <1>4. CASE d = start_next(f) /\ Head(connection.ready).op = "keep alive timer"
    <2>1. CASE f.socket = "open"
      <3>1. d = close_on_keep_alive_timeout(f)
        BY <1>4, <2>1 DEF start_next
      <3> QED
        BY <1>1, <1>4, <2>1, <3>1, StartKeepAlive
    <2>2. CASE f.socket # "open"
      <3>1. d = f
        BY <1>4, <2>2 DEF start_next
      <3>2. Sound(f)
        BY <1>1, <2>2 DEF Sound, Watched
      <3> QED
        BY <1>1, <3>1, <3>2
    <2> QED
      BY <2>1, <2>2
  <1> QED
    BY <1>2, <1>3, <1>4 DEF f

\* A pending operation is complete: its handler joins the queue.
LEMMA Completed ==
    ASSUME Sound(connection), NEW h \in Handler, NEW d \in ConnectionRecord,
           connection.socket = "open",
           d.ready = Append(connection.ready, h),
           d.socket = connection.socket, d.managed = connection.managed,
           d.client_id = connection.client_id, d.keep_alive = connection.keep_alive,
           h.op = "read" => connection.reading /\ d.reading = FALSE,
           h.op # "read" => d.reading = connection.reading,
           h.op = "keep alive timer" => connection.keep_alive_timer /\ d.keep_alive_timer = FALSE,
           h.op # "keep alive timer" => d.keep_alive_timer = connection.keep_alive_timer
    PROVE  Sound(d)
  <1> DEFINE c == connection
             queue == Append(c.ready, h)
  <1>1. c.ready \in Seq(Handler)
    BY DEF Sound, Basic, ConnectionRecord
  <1>2. ASSUME NEW op
        PROVE  /\ queue \in Seq(Handler)
               /\ Absent(op, queue) <=> (Absent(op, c.ready) /\ h.op # op)
               /\ AtMostOne(op, c.ready) /\ (Absent(op, c.ready) \/ h.op # op)
                      => AtMostOne(op, queue)
    BY <1>1, QueueAppend
  <1>3. Absent("keep alive timer", c.ready) => AtMostOne("keep alive timer", c.ready)
    BY DEF Absent, AtMostOne
  <1>4. Basic(d)
    BY <1>2 DEF Sound, Basic
  <1>5. Watched(d)
    BY <1>2, <1>3 DEF Sound, Basic, Watched
  <1> QED
    BY <1>4, <1>5 DEF Sound

\* No operation of another kind is pending on a connection that is not open.
LEMMA PendingIsOpen ==
    ASSUME NEW c, Sound(c),
           \/ c.reading \/ c.connect_timer \/ c.keep_alive_timer \/ c.writing # <<>>
    PROVE  c.socket = "open"
  BY DEF Sound, Basic, NothingPending

LEMMA Completions ==
    ASSUME Sound(connection),
           \/ \E frame \in Frame : frame_arrives(frame)
           \/ read_fails
           \/ write_completes
           \/ connect_timer_expires
           \/ keep_alive_timer_expires
    PROVE  /\ Sound(connection')
           /\ connection.socket = "open"
           /\ connection'.socket = "open"
           /\ connection'.client_id = connection.client_id
           /\ report' = "none"
           /\ process = "running" /\ process' = "running"
  <1> DEFINE c == connection
             d == connection'
  <1>1. c \in ConnectionRecord /\ c.ready \in Seq(Handler) /\ c.writing \in Seq(Write)
    BY DEF Sound, Basic, ConnectionRecord
  <1> USE DEF completes, tells, Queued
  <1>0. ASSUME NEW h \in Handler
        PROVE  Append(c.ready, h) \in Seq(Handler)
    BY <1>1
  <1>2. ASSUME NEW h \in Handler, h.op = "read", c.reading,
               d = [c EXCEPT !.reading = FALSE, !.ready = Append(@, h)]
        PROVE  Sound(d) /\ c.socket = "open" /\ d.socket = "open" /\ d.client_id = c.client_id
    <2>1. c.socket = "open"
      BY <1>2, PendingIsOpen
    <2>2. /\ d \in ConnectionRecord /\ d.ready = Append(c.ready, h)
          /\ d.socket = c.socket /\ d.managed = c.managed /\ d.client_id = c.client_id
          /\ d.keep_alive = c.keep_alive /\ d.reading = FALSE
          /\ d.keep_alive_timer = c.keep_alive_timer
      BY <1>0, <1>1, <1>2 DEF ConnectionRecord
    <2> QED
      BY <1>2, <2>1, <2>2, Completed
  <1>3. ASSUME NEW h \in Handler, h.op = "write", c.writing # <<>>,
               d = [c EXCEPT !.writing = Tail(@), !.ready = Append(@, h)]
        PROVE  Sound(d) /\ c.socket = "open" /\ d.socket = "open" /\ d.client_id = c.client_id
    <2>1. c.socket = "open" /\ Tail(c.writing) \in Seq(Write)
      BY <1>1, <1>3, PendingIsOpen
    <2>2. /\ d \in ConnectionRecord /\ d.ready = Append(c.ready, h)
          /\ d.socket = c.socket /\ d.managed = c.managed /\ d.client_id = c.client_id
          /\ d.keep_alive = c.keep_alive /\ d.reading = c.reading
          /\ d.keep_alive_timer = c.keep_alive_timer
      BY <1>0, <1>1, <1>3, <2>1 DEF ConnectionRecord
    <2> QED
      BY <1>3, <2>1, <2>2, Completed
  <1>4. ASSUME NEW h \in Handler, h.op = "connect timer", c.connect_timer,
               d = [c EXCEPT !.connect_timer = FALSE, !.ready = Append(@, h)]
        PROVE  Sound(d) /\ c.socket = "open" /\ d.socket = "open" /\ d.client_id = c.client_id
    <2>1. c.socket = "open"
      BY <1>4, PendingIsOpen
    <2>2. /\ d \in ConnectionRecord /\ d.ready = Append(c.ready, h)
          /\ d.socket = c.socket /\ d.managed = c.managed /\ d.client_id = c.client_id
          /\ d.keep_alive = c.keep_alive /\ d.reading = c.reading
          /\ d.keep_alive_timer = c.keep_alive_timer
      BY <1>0, <1>1, <1>4 DEF ConnectionRecord
    <2> QED
      BY <1>4, <2>1, <2>2, Completed
  <1>5. ASSUME NEW h \in Handler, h.op = "keep alive timer", c.keep_alive_timer,
               d = [c EXCEPT !.keep_alive_timer = FALSE, !.ready = Append(@, h)]
        PROVE  Sound(d) /\ c.socket = "open" /\ d.socket = "open" /\ d.client_id = c.client_id
    <2>1. c.socket = "open"
      BY <1>5, PendingIsOpen
    <2>2. /\ d \in ConnectionRecord /\ d.ready = Append(c.ready, h)
          /\ d.socket = c.socket /\ d.managed = c.managed /\ d.client_id = c.client_id
          /\ d.keep_alive = c.keep_alive /\ d.reading = c.reading
          /\ d.keep_alive_timer = FALSE
      BY <1>0, <1>1, <1>5 DEF ConnectionRecord
    <2> QED
      BY <1>5, <2>1, <2>2, Completed
  <1>6. CASE \E frame \in Frame : frame_arrives(frame)
    <2>1. PICK frame \in Frame : frame_arrives(frame)
      BY <1>6
    <2>2. Queued("read", "ok", frame) \in Handler
      BY DEF Handler
    <2> QED
      BY <1>2, <2>1, <2>2 DEF frame_arrives
  <1>7. CASE read_fails
    <2>1. Queued("read", "failed", "none") \in Handler
      BY DEF Handler
    <2> QED
      BY <1>2, <1>7, <2>1 DEF read_fails
  <1>8. CASE write_completes
    <2>1. PICK ec \in {"ok", "failed"} :
              completes([c EXCEPT !.writing = Tail(@),
                                  !.ready = Append(@, Queued("write", ec, Head(c.writing).arg))])
      BY <1>8 DEF write_completes
    <2>2. c.writing # <<>> /\ Head(c.writing) \in Write
      BY <1>1, <1>8 DEF write_completes
    <2>3. Queued("write", ec, Head(c.writing).arg) \in Handler
      BY <2>2 DEF Write, Handler
    <2> QED
      BY <1>3, <2>1, <2>2, <2>3
  <1>9. CASE connect_timer_expires
    <2>1. Queued("connect timer", "ok", "none") \in Handler
      BY DEF Handler
    <2> QED
      BY <1>4, <1>9, <2>1 DEF connect_timer_expires
  <1>10. CASE keep_alive_timer_expires
    <2>1. Queued("keep alive timer", "ok", "none") \in Handler
      BY DEF Handler
    <2> QED
      BY <1>5, <1>10, <2>1 DEF keep_alive_timer_expires
  <1> QED
    BY <1>6, <1>7, <1>8, <1>9, <1>10

\* What the handlers, or others that stop the connection, leave of it.
Handled ==
    /\ Sound(connection')
    /\ connection.socket # "accepted"
    /\ connection'.socket \in {connection.socket, "closed"}
    /\ connection'.client_id = connection.client_id

LEMMA ReadHandlers ==
    ASSUME \/ FrameRead("connect") \/ FrameRead("connect refused") \/ FrameRead("pingreq")
           \/ FrameRead("disconnect") \/ FrameRead("other") \/ FrameRead("malformed")
           \/ ReadEnded("failed") \/ ReadEnded("aborted")
    PROVE  connection.ready # <<>> /\ Head(connection.ready).op = "read"
  <1>1. \A ec, arg : Queued("read", ec, arg).op = "read"
    BY DEF Queued
  <1>2. connection.ready # <<>> /\ \E ec, arg : Head(connection.ready) = Queued("read", ec, arg)
    BY DEF FrameRead, ReadEnded
  <1> QED
    BY <1>1, <1>2

\* CONNECT that is accepted.
LEMMA Accepted ==
    ASSUME Sound(connection), FrameRead("connect"), ~connection.client_id,
           connection.socket = "open",
           NEW k \in BOOLEAN, NEW c \in accepted(FrameTaken, k)
    PROVE  /\ Sound(read_frame(c))
           /\ read_frame(c).socket = "open"
           /\ read_frame(c).client_id = TRUE
  <1> DEFINE f == FrameTaken
             b == cancel_connect_timer(f)
             e == [b EXCEPT !.client_id = TRUE, !.keep_alive = k]
             g == close_on_keep_alive_timeout(e)
  <1>1. connection.ready # <<>> /\ Head(connection.ready).op = "read"
    BY DEF FrameRead, Queued
  <1>2. /\ Sound(f) /\ f.socket = "open" /\ f.client_id = connection.client_id
        /\ f.reading = FALSE /\ Absent("read", f.ready)
    BY <1>1, FrameTakenSound
  <1>3. c \in write(g, "connack", "none")
    BY DEF accepted, write_packet
  <1>4. e = [b EXCEPT !.client_id = TRUE, !.keep_alive = k] /\ b = cancel_connect_timer(f)
        /\ g = close_on_keep_alive_timeout(e)
    OBVIOUS
  <1> HIDE DEF f, b, e, g
  <1>5. f.keep_alive = FALSE /\ f.keep_alive_timer = FALSE /\ Absent("keep alive timer", f.ready)
    BY <1>2 DEF Sound, Basic, ConnectionRecord
  <1>6. /\ Basic(b) /\ b.socket = "open" /\ b.keep_alive = FALSE
        /\ b.keep_alive_timer = FALSE /\ b.reading = FALSE
        /\ Absent("read", b.ready) /\ Absent("keep alive timer", b.ready)
    BY <1>2, <1>4, <1>5, CancelConnectTimer DEF Sound
  <1>7. /\ e \in ConnectionRecord /\ e.socket = "open" /\ e.managed = b.managed
        /\ e.client_id = TRUE /\ e.keep_alive = k /\ e.keep_alive_timer = FALSE
        /\ e.reading = FALSE /\ e.ready = b.ready
    BY <1>4, <1>6 DEF Basic, ConnectionRecord
  <1>8. Basic(e)
    BY <1>6, <1>7 DEF Basic
  <1>9. /\ Sound(g) /\ g.socket = "open" /\ g.client_id = TRUE
        /\ g.reading = FALSE /\ Absent("read", g.ready)
    BY <1>4, <1>6, <1>7, <1>8, StartKeepAlive
  <1>10. /\ Sound(c) /\ c.socket = "open" /\ c.client_id = TRUE
         /\ c.reading = FALSE /\ Absent("read", c.ready)
    BY <1>3, <1>9, WritePacket DEF Packet
  <1> QED
    BY <1>10, ReadFrame

LEMMA StartStep ==
    ASSUME Sound(connection), start
    PROVE  Sound(connection') /\ connection'.socket = "open" /\ connection'.client_id = FALSE
  <1> DEFINE c == connection
             b == [c EXCEPT !.socket = "open", !.managed = TRUE, !.connect_timer = TRUE]
  <1>1. /\ c \in ConnectionRecord /\ c.socket = "accepted" /\ ~c.client_id /\ c.ready = <<>>
        /\ ~c.reading /\ ~c.keep_alive_timer /\ ~c.keep_alive
    BY DEF start, Sound, Basic, NothingPending
  <1>2. connection' = read_frame(b)
    BY DEF start
  <1>3. /\ b \in ConnectionRecord /\ b.socket = "open" /\ b.managed = TRUE
        /\ b.client_id = FALSE /\ b.keep_alive = FALSE /\ b.ready = <<>>
        /\ b.reading = FALSE /\ b.keep_alive_timer = FALSE
    BY <1>1 DEF ConnectionRecord
  <1> HIDE DEF b
  <1>4. Absent("read", b.ready) /\ AtMostOne("read", b.ready) /\ Absent("keep alive timer", b.ready)
    BY <1>3, EmptyQueue
  <1>5. Sound(b)
    BY <1>3, <1>4 DEF Sound, Basic, Watched
  <1> QED
    BY <1>2, <1>3, <1>4, <1>5, ReadFrame

\* Other parts of the server send packets and stop the connection.
LEMMA ServerStep ==
    ASSUME Sound(connection), send \/ session_stops \/ stop_all
    PROVE  /\ Handled
           /\ connection.socket = "closed" => connection'.ready = connection.ready
           /\ report' = "none"
           /\ process = "running" /\ process' = "running"
  <1> USE DEF completes, tells
  <1>1. connection.socket # "accepted"
    BY DEF send, session_stops, stop_all, Sound, Basic
  <1>2. CASE send
    <2>1. PICK c \in write(connection, "other", "none") : completes(c)
      BY <1>2 DEF send, write_packet
    <2> QED
      BY <1>1, <2>1, WritePacket DEF Handled, Packet
  <1>3. CASE session_stops \/ stop_all
    BY <1>1, <1>3, Stop DEF session_stops, stop_all, Handled, Sound
  <1> QED
    BY <1>2, <1>3

-----------------------------------------------------------------------------
(* The handlers                                                             *)

\* What the handler of a read makes of the connection, and what it tells,
\* unless it accepts CONNECT or throws.
ReadOutcome ==
    /\ Handled
    /\ process = "running" /\ process' = "running"
    /\ connection.ready # <<>> /\ Head(connection.ready).op = "read"
    /\ connection'.socket = "closed" => Absent("read", connection'.ready)
    /\ connection.socket = "closed" => connection'.ready = Tail(connection.ready)
    /\ \/ report' = "none" /\ connection'.socket = connection.socket
       \/ Head(connection.ready).ec # "aborted" /\ report' = packet_report("packet")
       \/ /\ Head(connection.ready).ec # "aborted"
          /\ connection'.socket = "closed"
          /\ report' \in {packet_report("disconnect"), close_report(connection, "ungraceful")}

LEMMA ReadStep ==
    ASSUME Sound(connection),
           \/ process_connect_packet /\ ~connection.client_id /\ FrameRead("connect refused")
           \/ process_connect_packet /\ connection.client_id
           \/ process_pingreq
           \/ process_disconnect_packet
           \/ dispatch_packet
           \/ malformed_mqtt_packet
           \/ on_read_failed
    PROVE  ReadOutcome
  <1> DEFINE f == FrameTaken
  <1>1. connection.ready # <<>> /\ Head(connection.ready).op = "read"
    BY ReadHandlers DEF process_connect_packet, process_pingreq, process_disconnect_packet,
                        dispatch_packet, malformed_mqtt_packet, on_read_failed
  <1>2. /\ Sound(f)
        /\ f.socket = connection.socket /\ f.client_id = connection.client_id
        /\ connection.socket # "accepted"
    BY <1>1, FrameTakenSound
  <1>3. ASSUME NEW frame, FrameRead(frame)
        PROVE  Head(connection.ready).ec # "aborted"
    <2>1. Head(connection.ready) = Queued("read", "ok", frame)
      BY <1>3 DEF FrameRead
    <2>2. Queued("read", "ok", frame).ec = "ok"
      BY DEF Queued
    <2>3. Head(connection.ready).ec = "ok"
      BY <2>1, <2>2
    <2> QED
      BY <2>3
  <1>4. ASSUME NEW d, d = connection',
               \/ d = f
               \/ d = stop(f)
               \/ d = read_frame(f)
               \/ d = read_frame(stop(f))
               \/ \E packet \in Packet, arg \in {"none", "close"} :
                     \E c \in write(f, packet, arg) : d = read_frame(c)
        PROVE  /\ Handled
               /\ connection'.socket = "closed" => Absent("read", connection'.ready)
               /\ connection.socket = "closed" => connection'.ready = Tail(connection.ready)
    <2>1. /\ Sound(d)
          /\ d.socket \in {connection.socket, "closed"}
          /\ d.client_id = connection.client_id
          /\ d.socket = "closed" => Absent("read", d.ready)
          /\ connection.socket = "closed" => d.ready = Tail(connection.ready)
      BY <1>1, <1>4, ReadHandled
    <2> QED
      BY <1>2, <1>4, <2>1 DEF Handled
  <1>5. stop(f).socket = "closed"
    BY <1>2, Stop DEF Sound
  <1>6. ASSUME NEW packet \in Packet, NEW arg \in {"none", "close"}, NEW c \in write(f, packet, arg)
        PROVE  read_frame(c).socket = f.socket
    <2>1. c.socket = f.socket /\ c \in ConnectionRecord
      BY <1>2, WritePacket DEF Sound, Basic
    <2> QED
      BY <2>1 DEF read_frame, ConnectionRecord
  <1>7. read_frame(f).socket = f.socket
    BY <1>2 DEF read_frame, Sound, Basic, ConnectionRecord
  <1>8. close_report(f, "ungraceful") = close_report(connection, "ungraceful")
    BY <1>2 DEF close_report
  <1> HIDE DEF f
  <1>9. ASSUME closes("ungraceful", f), Head(connection.ready).ec # "aborted"
        PROVE  ReadOutcome
    <2>1. connection' = stop(f) /\ report' = close_report(connection, "ungraceful")
          /\ process = "running" /\ process' = "running"
      BY <1>8, <1>9 DEF closes, tells, connection_close_requested
    <2> QED
      BY <1>1, <1>4, <1>5, <1>9, <2>1 DEF ReadOutcome
  <1>10. ASSUME NEW packet \in Packet, NEW arg \in {"none", "close"},
                NEW c \in write(f, packet, arg), completes(read_frame(c))
         PROVE  ReadOutcome
    <2>1. connection' = read_frame(c) /\ report' = "none"
          /\ process = "running" /\ process' = "running"
      BY <1>10 DEF completes, tells
    <2> QED
      BY <1>1, <1>2, <1>4, <1>6, <2>1 DEF ReadOutcome
  <1>11. CASE process_connect_packet /\ ~connection.client_id /\ FrameRead("connect refused")
    <2>1. Queued("read", "ok", "connect") # Queued("read", "ok", "connect refused")
      BY DEF Queued
    <2>2. PICK c \in refused(f) : completes(read_frame(c))
      BY <1>11, <2>1 DEF process_connect_packet, FrameRead, f
    <2> QED
      BY <1>10, <2>2 DEF refused, write_packet_and_close_connection, Packet
  <1>12. CASE process_connect_packet /\ connection.client_id
    BY <1>3, <1>9, <1>12 DEF process_connect_packet, f
  <1>13. CASE process_pingreq
    BY <1>10, <1>13 DEF process_pingreq, write_packet, Packet, f
  <1>14. CASE process_disconnect_packet
    <2>1. connection' = stop(f) /\ report' = packet_report("disconnect")
          /\ process = "running" /\ process' = "running"
      BY <1>14 DEF process_disconnect_packet, tells, f
    <2> QED
      BY <1>1, <1>3, <1>4, <1>5, <1>14, <2>1 DEF ReadOutcome, process_disconnect_packet
  <1>15. CASE dispatch_packet
    <2>1. PICK c \in {f} \cup (IF connection.client_id
                               THEN write_packet(f, "other") \cup {stop(f)} ELSE {}) :
              tells(packet_report("packet"), read_frame(c))
      BY <1>15 DEF dispatch_packet, f
    <2>2. connection' = read_frame(c) /\ report' = packet_report("packet")
          /\ process = "running" /\ process' = "running"
      BY <2>1 DEF tells
    <2>3. c = f \/ c = stop(f) \/ c \in write(f, "other", "none")
      BY <2>1 DEF write_packet
    <2>4. Head(connection.ready).ec # "aborted" /\ "other" \in Packet
      BY <1>3, <1>15 DEF dispatch_packet, Packet
    <2> QED
      BY <1>1, <1>4, <2>2, <2>3, <2>4 DEF ReadOutcome
  <1>16. CASE malformed_mqtt_packet
    BY <1>3, <1>9, <1>16 DEF malformed_mqtt_packet, f
  <1>17. CASE on_read_failed
    <2>1. CASE ReadEnded("failed") /\ closes("ungraceful", f)
      <3>1. Head(connection.ready).ec # "aborted"
        <4>1. Head(connection.ready) = Queued("read", "failed", "none")
          BY <2>1 DEF ReadEnded
        <4>2. Queued("read", "failed", "none").ec = "failed"
          BY DEF Queued
        <4> QED
          BY <4>1, <4>2
      <3> QED
        BY <1>9, <2>1, <3>1
    <2>2. CASE ReadEnded("aborted") /\ completes(f)
      <3>1. connection' = f /\ report' = "none" /\ process = "running" /\ process' = "running"
        BY <2>2 DEF completes, tells
      <3> QED
        BY <1>1, <1>2, <1>4, <3>1 DEF ReadOutcome
    <2> QED
      BY <1>17, <2>1, <2>2 DEF on_read_failed, f
  <1> QED
    BY <1>11, <1>12, <1>13, <1>14, <1>15, <1>16, <1>17

\* CONNECT is accepted.
AcceptOutcome ==
    /\ Sound(connection')
    /\ connection.socket = "open" /\ connection'.socket = "open"
    /\ connection.client_id = FALSE /\ connection'.client_id = TRUE
    /\ process = "running" /\ process' = "running"
    /\ report' = "connect"

LEMMA AcceptStep ==
    ASSUME Sound(connection), process_connect_packet, ~connection.client_id,
           ~FrameRead("connect refused")
    PROVE  AcceptOutcome
  <1>1. /\ FrameRead("connect") /\ connection.socket = "open"
        /\ \E k \in BOOLEAN : \E c \in accepted(FrameTaken, k) : tells("connect", read_frame(c))
    BY DEF process_connect_packet
  <1>2. PICK k \in BOOLEAN : \E c \in accepted(FrameTaken, k) : tells("connect", read_frame(c))
    BY <1>1
  <1>3. PICK c \in accepted(FrameTaken, k) : tells("connect", read_frame(c))
    BY <1>2
  <1>4. /\ Sound(read_frame(c))
        /\ read_frame(c).socket = "open"
        /\ read_frame(c).client_id = TRUE
    BY <1>1, Accepted
  <1>5. connection.client_id = FALSE
    BY DEF Sound, Basic, ConnectionRecord
  <1> QED
    BY <1>1, <1>3, <1>4, <1>5 DEF AcceptOutcome, tells

\* A handler that asks for the close.
Closing(h) ==
    \/ h.op = "write" /\ (h.ec # "ok" \/ h.arg = "close")
    \/ h.op \in {"connect timer", "keep alive timer"} /\ h.ec = "ok"

OtherOutcome ==
    /\ Handled
    /\ process = "running" /\ process' = "running"
    /\ connection.ready # <<>> /\ Head(connection.ready).op # "read"
    /\ connection.socket = "closed" => connection'.ready = Tail(connection.ready)
    /\ \/ /\ report' = "none" /\ connection'.socket = connection.socket
          /\ ~Closing(Head(connection.ready))
       \/ /\ Closing(Head(connection.ready))
          /\ connection'.socket = "closed"
          /\ \E reason \in {"ungraceful", "authentication_failed"} :
                 report' = close_report(connection, reason)

LEMMA OtherStep ==
    ASSUME Sound(connection), packet_written \/ connect_timeout \/ handle_keep_alive_timeout
    PROVE  OtherOutcome
  <1> DEFINE f == HandlerDone
             h == Head(connection.ready)
  <1>1. connection.ready # <<>> /\ h.op # "read"
    BY DEF packet_written, connect_timeout, handle_keep_alive_timeout, Runs
  <1>2. /\ f.socket = connection.socket /\ f.client_id = connection.client_id
        /\ Basic(f) /\ f.socket # "accepted"
    BY <1>1, HandlerTaken
  <1>3. stop(f).socket = "closed"
    BY <1>2, Stop
  <1>4. ASSUME NEW d, d = connection',
               \/ d = f /\ h.op # "keep alive timer"
               \/ d = stop(f)
               \/ d = start_next(f) /\ h.op = "keep alive timer"
        PROVE  /\ Handled
               /\ connection.socket = "closed" => connection'.ready = Tail(connection.ready)
    <2>1. /\ Sound(d)
          /\ connection.socket # "accepted"
          /\ d.socket \in {connection.socket, "closed"}
          /\ d.client_id = connection.client_id
          /\ connection.socket = "closed" => d.ready = Tail(connection.ready)
      BY <1>1, <1>4, OtherHandled
    <2> QED
      BY <1>4, <2>1 DEF Handled
  <1>5. start_next(f).socket = f.socket
    BY DEF start_next, close_on_keep_alive_timeout, cancel_keep_alive_timer
  <1>6. ASSUME NEW reason, close_report(f, reason) # close_report(connection, reason)
        PROVE  FALSE
    BY <1>2, <1>6 DEF close_report
  <1> HIDE DEF f
  <1>7. ASSUME NEW reason \in {"ungraceful", "authentication_failed"}, closes(reason, f), Closing(h)
        PROVE  OtherOutcome
    <2>1. connection' = stop(f) /\ report' = close_report(connection, reason)
          /\ process = "running" /\ process' = "running"
      BY <1>6, <1>7 DEF closes, tells, connection_close_requested
    <2> QED
      BY <1>1, <1>3, <1>4, <1>7, <2>1 DEF OtherOutcome
  <1>8. ASSUME completes(f), h.op # "keep alive timer", ~Closing(h)
        PROVE  OtherOutcome
    <2>1. connection' = f /\ report' = "none" /\ process = "running" /\ process' = "running"
      BY <1>8 DEF completes, tells
    <2> QED
      BY <1>1, <1>2, <1>4, <1>8, <2>1 DEF OtherOutcome
  <1>9. CASE packet_written
    BY <1>7, <1>8, <1>9 DEF packet_written, Runs, Closing, f
  <1>10. CASE connect_timeout
    BY <1>7, <1>8, <1>10 DEF connect_timeout, Runs, Closing, f
  <1>11. CASE handle_keep_alive_timeout
    <2>1. CASE Runs("keep alive timer", "ok") /\ closes("ungraceful", f)
      BY <1>7, <2>1 DEF Runs, Closing
    <2>2. CASE Runs("keep alive timer", "aborted") /\ completes(start_next(f))
      <3>1. connection' = start_next(f) /\ report' = "none"
            /\ process = "running" /\ process' = "running"
        BY <2>2 DEF completes, tells
      <3>2. h.op = "keep alive timer" /\ ~Closing(h)
        BY <2>2 DEF Runs, Closing
      <3> QED
        BY <1>1, <1>2, <1>4, <1>5, <3>1, <3>2 DEF OtherOutcome
    <2> QED
      BY <1>11, <2>1, <2>2 DEF handle_keep_alive_timeout, f
  <1> QED
    BY <1>9, <1>10, <1>11

-----------------------------------------------------------------------------
(* Every step                                                               *)

Terminates ==
    /\ process = "running" /\ process' = "terminated"
    /\ report' = "none"
    /\ UNCHANGED connection

\* An operation completes, or another part of the server acts.
QuietOutcome ==
    /\ Handled
    /\ connection.socket = "closed" => connection'.ready = connection.ready
    /\ report' = "none"
    /\ process = "running" /\ process' = "running"

LEMMA Steps ==
    ASSUME Sound(connection), Next
    PROVE  start \/ AcceptOutcome \/ ReadOutcome \/ OtherOutcome \/ QuietOutcome \/ Terminates
  <1>1. CASE \/ \E frame \in Frame : frame_arrives(frame)
             \/ read_fails \/ write_completes
             \/ connect_timer_expires \/ keep_alive_timer_expires
    BY <1>1, Completions DEF QuietOutcome, Handled
  <1>2. CASE send \/ session_stops \/ stop_all
    BY <1>2, ServerStep DEF QuietOutcome
  <1>3. CASE Handlers
    <2>1. CASE remote_endpoint_throws \/ no_client_id \/ unsupported_packet
      BY <2>1 DEF remote_endpoint_throws, no_client_id, unsupported_packet, terminates, Terminates
    <2>2. CASE packet_written \/ connect_timeout \/ handle_keep_alive_timeout
      BY <2>2, OtherStep
    <2>3. CASE process_connect_packet
      BY <2>3, ReadStep, AcceptStep
    <2>4. CASE \/ process_pingreq \/ process_disconnect_packet \/ dispatch_packet
               \/ malformed_mqtt_packet \/ on_read_failed
      BY <2>4, ReadStep
    <2> QED
      BY <1>3, <2>1, <2>2, <2>3, <2>4 DEF Handlers
  <1> QED
    BY <1>1, <1>2, <1>3 DEF Next

ConnectionInv ==
    /\ Sound(connection)
    /\ report \in Life!Report
    /\ connection.socket = "accepted" => report = "none"
    /\ process \in {"running", "terminated"}
    /\ frames \in 0 .. MaxFrames
    /\ sends \in 0 .. MaxSends

LEMMA InvInit ==
    Init => ConnectionInv
  <1> SUFFICES ASSUME Init
               PROVE  ConnectionInv
    OBVIOUS
  <1>1. /\ connection.socket = "accepted" /\ connection.managed = FALSE
        /\ connection.client_id = FALSE /\ connection.keep_alive = FALSE
        /\ connection.reading = FALSE /\ connection.connect_timer = FALSE
        /\ connection.keep_alive_timer = FALSE
        /\ connection.writing = <<>> /\ connection.ready = <<>>
    BY DEF Init
  <1>2. <<>> \in Seq(Handler) /\ <<>> \in Seq(Write)
    OBVIOUS
  <1>3. connection \in ConnectionRecord
    BY <1>2 DEF Init, ConnectionRecord
  <1>4. /\ Absent("read", <<>>) /\ AtMostOne("read", <<>>)
        /\ Absent("keep alive timer", <<>>)
    BY EmptyQueue
  <1>5. Sound(connection)
    BY <1>1, <1>3, <1>4 DEF Sound, Basic, Watched, NothingPending
  <1> QED
    BY <1>5, ConstantsAssumption DEF Init, ConnectionInv, Life!Report

\* The two counters.
LEMMA CountersBounded ==
    ASSUME frames \in 0 .. MaxFrames, sends \in 0 .. MaxSends, Next
    PROVE  frames' \in 0 .. MaxFrames /\ sends' \in 0 .. MaxSends
  <1>1. \/ UNCHANGED <<frames, sends>>
        \/ /\ frames < MaxFrames /\ frames' = frames + 1
           /\ sends' = sends
        \/ /\ sends < MaxSends /\ sends' = sends + 1
           /\ frames' = frames
    <2>1. CASE Handlers
      BY <2>1 DEF Handlers, process_connect_packet, remote_endpoint_throws, process_pingreq,
                  process_disconnect_packet, dispatch_packet, no_client_id,
                  malformed_mqtt_packet, unsupported_packet, on_read_failed, packet_written,
                  connect_timeout, handle_keep_alive_timeout, terminates
    <2>2. CASE start \/ \E frame \in Frame : frame_arrives(frame)
      BY <2>2 DEF start, frame_arrives
    <2>3. CASE read_fails \/ write_completes \/ connect_timer_expires \/ keep_alive_timer_expires
      BY <2>3 DEF read_fails, write_completes, connect_timer_expires, keep_alive_timer_expires
    <2>4. CASE send \/ session_stops \/ stop_all
      BY <2>4 DEF send, session_stops, stop_all
    <2> QED
      BY <2>1, <2>2, <2>3, <2>4 DEF Next
  <1> QED
    BY <1>1, ConstantsAssumption

LEMMA InvNext ==
    ConnectionInv /\ [Next]_vars => ConnectionInv'
  <1> SUFFICES ASSUME ConnectionInv, [Next]_vars
               PROVE  ConnectionInv'
    OBVIOUS
  <1>1. CASE UNCHANGED vars
    <2>1. /\ connection' = connection /\ report' = report /\ process' = process
          /\ frames' = frames /\ sends' = sends
      BY <1>1 DEF vars
    <2> QED
      BY <2>1 DEF ConnectionInv
  <1>2. CASE Next
    <2>1. frames' \in 0 .. MaxFrames /\ sends' \in 0 .. MaxSends
      BY <1>2, CountersBounded DEF ConnectionInv
    <2>2. Sound(connection')
      BY <1>2, Steps, StartStep DEF ConnectionInv, AcceptOutcome, ReadOutcome, OtherOutcome,
                                    QuietOutcome, Terminates, Handled
    <2>3. process' \in {"running", "terminated"}
      BY <1>2, Steps DEF ConnectionInv, start, AcceptOutcome, ReadOutcome, OtherOutcome,
                         QuietOutcome, Terminates
    <2>4. report' \in Life!Report
      BY <1>2, Steps DEF ConnectionInv, start, AcceptOutcome, ReadOutcome, OtherOutcome,
                         QuietOutcome, Terminates, Life!Report, packet_report, close_report
    <2>5. connection'.socket = "accepted" => report' = "none"
      BY <1>2, Steps, StartStep DEF ConnectionInv, AcceptOutcome, ReadOutcome, OtherOutcome,
                                    QuietOutcome, Terminates, Handled
    <2> QED
      BY <2>1, <2>2, <2>3, <2>4, <2>5 DEF ConnectionInv
  <1> QED
    BY <1>1, <1>2

THEOREM Invariant ==
    Spec => []ConnectionInv
  BY InvInit, InvNext, PTL DEF Spec

\* TypeOK, which says with the types that nothing is pending on a connection
\* that stop has closed, whichever handlers were queued at the time.
THEOREM TypeCorrect ==
    Spec => []TypeOK
  <1>1. ConnectionInv => TypeOK
    BY DEF ConnectionInv, Sound, Basic, NothingPending, ConnectionRecord, TypeOK
  <1> QED
    BY <1>1, Invariant, PTL

\* OneReadAtATime: read_frame is called from many handlers, and still read_buffer_
\* serves one async_read.
THEOREM OneRead ==
    Spec => []OneReadAtATime
  <1>1. ConnectionInv => OneReadAtATime
    BY DEF ConnectionInv, Sound, Basic, AtMostOne, Absent, OneReadAtATime, InQueue
  <1> QED
    BY <1>1, Invariant, PTL

\* KeepAliveIsWatched: close_on_keep_alive_timeout keeps exactly one wait of the
\* timer under way for a client that asked for keep alive.
THEOREM KeepAliveWatched ==
    Spec => []KeepAliveIsWatched
  <1>1. ConnectionInv => KeepAliveIsWatched
    <2> SUFFICES ASSUME ConnectionInv, connection.socket = "open", connection.keep_alive
                 PROVE  /\ \A i, j \in InQueue("keep alive timer") : i = j
                        /\ connection.keep_alive_timer <=> InQueue("keep alive timer") = {}
      BY DEF KeepAliveIsWatched
    <2>1. /\ AtMostOne("keep alive timer", connection.ready)
          /\ connection.keep_alive_timer <=> Absent("keep alive timer", connection.ready)
      BY DEF ConnectionInv, Sound, Watched
    <2>2. Absent("keep alive timer", connection.ready) <=> InQueue("keep alive timer") = {}
      BY DEF Absent, InQueue
    <2>3. \A i, j \in InQueue("keep alive timer") : i = j
      BY <2>1 DEF AtMostOne, InQueue
    <2> QED
      BY <2>1, <2>2, <2>3
  <1> QED
    BY <1>1, Invariant, PTL

-----------------------------------------------------------------------------
(* What the dispatcher sees is a ConnectionLife                             *)

\* A read that is not aborted.
Telling(h) == h.op = "read" /\ h.ec # "aborted"

SomeTelling(queue) == \E i \in 1 .. Len(queue) : Telling(queue[i])

SomeClosing(queue) == \E i \in 1 .. Len(queue) : Closing(queue[i])

LEMMA QueueTells ==
    ASSUME NEW queue \in Seq(Handler)
    PROVE  /\ queue = <<>> => ~SomeTelling(queue) /\ ~SomeClosing(queue)
           /\ Absent("read", queue) => ~SomeTelling(queue)
           /\ queue # <<>> =>
                  /\ SomeTelling(queue) <=> SomeTelling(Tail(queue)) \/ Telling(Head(queue))
                  /\ SomeClosing(queue) <=> SomeClosing(Tail(queue)) \/ Closing(Head(queue))
  <1>1. queue = <<>> => ~SomeTelling(queue) /\ ~SomeClosing(queue)
    BY DEF SomeTelling, SomeClosing
  <1>2. Absent("read", queue) => ~SomeTelling(queue)
    BY DEF SomeTelling, Telling, Absent
  <1>3. ASSUME queue # <<>>, NEW P(_)
        PROVE  (\E i \in 1 .. Len(queue) : P(queue[i]))
                   <=> (\E i \in 1 .. Len(Tail(queue)) : P(Tail(queue)[i])) \/ P(Head(queue))
    <2>1. /\ Len(queue) \in Nat \ {0}
          /\ Len(Tail(queue)) = Len(queue) - 1
          /\ \A i \in 1 .. Len(queue) - 1 : Tail(queue)[i] = queue[i + 1]
          /\ Head(queue) = queue[1]
      BY <1>3
    <2>2. \A i \in 1 .. Len(queue) :
              i = 1 \/ (i - 1 \in 1 .. Len(Tail(queue)) /\ Tail(queue)[i - 1] = queue[i])
      BY <2>1
    <2>3. \A i \in 1 .. Len(Tail(queue)) :
              i + 1 \in 1 .. Len(queue) /\ Tail(queue)[i] = queue[i + 1]
      BY <2>1
    <2>4. 1 \in 1 .. Len(queue)
      BY <2>1
    <2> QED
      BY <2>1, <2>2, <2>3, <2>4
  <1> QED
    BY <1>1, <1>2, <1>3 DEF SomeTelling, SomeClosing

\* The refinement mapping, by cases.
Phase ==
    IF process = "terminated" THEN "gone"
    ELSE IF connection.socket # "closed" THEN connection.socket
    ELSE IF connection.ready = <<>> THEN "gone" ELSE "stopped"

Mapped ==
    /\ phase = Phase
    /\ late_read \in BOOLEAN /\ late_close \in BOOLEAN
    /\ late_read <=> phase = "stopped" /\ SomeTelling(connection.ready)
    /\ late_close <=> phase = "stopped" /\ SomeClosing(connection.ready)

LEMMA Mapping ==
    ConnectionInv => Mapped
  <1> SUFFICES ASSUME ConnectionInv
               PROVE  Mapped
    OBVIOUS
  <1>1. process \in {"running", "terminated"} /\ Sound(connection)
    BY DEF ConnectionInv
  <1>2. phase = Phase
    <2>1. CASE process = "terminated"
      <3>1. phase = "gone"
        BY <2>1, Zenon DEF phase
      <3> QED
        BY <2>1, <3>1 DEF Phase
    <2>2. CASE process = "running" /\ connection.socket # "closed"
      <3>1. phase = connection.socket
        BY <2>2, Zenon DEF phase
      <3> QED
        BY <2>2, <3>1 DEF Phase
    <2>3. CASE process = "running" /\ connection.socket = "closed"
      <3>1. Alive(connection) <=> connection.ready # <<>>
        BY <1>1, <2>3 DEF Alive, Sound, Basic, NothingPending
      <3>2. phase = IF Alive(connection) THEN "stopped" ELSE "gone"
        BY <2>3, Zenon DEF phase
      <3> QED
        BY <2>3, <3>1, <3>2 DEF Phase
    <2> QED
      BY <1>1, <2>1, <2>2, <2>3
  <1>3. late_read \in BOOLEAN /\ late_close \in BOOLEAN
    BY DEF late_read, late_close
  <1>4. late_read <=> phase = "stopped" /\ SomeTelling(connection.ready)
    BY DEF late_read, LateHandlers, SomeTelling, Telling
  <1>5. late_close <=> phase = "stopped" /\ SomeClosing(connection.ready)
    BY DEF late_close, LateHandlers, SomeClosing, Closing
  <1> QED
    BY <1>2, <1>3, <1>4, <1>5 DEF Mapped

LEMMA LifeStep ==
    ASSUME ConnectionInv, ConnectionInv', Mapped, Mapped', Next
    PROVE  Life!Next
  <1> DEFINE c == connection
             d == connection'
  <1>1. /\ c.ready \in Seq(Handler) /\ d.ready \in Seq(Handler)
        /\ c.client_id \in BOOLEAN
        /\ c.socket \in {"accepted", "open", "closed"}
    BY DEF ConnectionInv, Sound, Basic, ConnectionRecord
  <1>2. /\ phase = Phase
        /\ late_read \in BOOLEAN /\ late_close \in BOOLEAN
        /\ late_read <=> phase = "stopped" /\ SomeTelling(c.ready)
        /\ late_close <=> phase = "stopped" /\ SomeClosing(c.ready)
    BY DEF Mapped
  <1>3. /\ phase' = Phase'
        /\ late_read' \in BOOLEAN /\ late_close' \in BOOLEAN
        /\ late_read' <=> phase' = "stopped" /\ SomeTelling(d.ready)
        /\ late_close' <=> phase' = "stopped" /\ SomeClosing(d.ready)
    BY DEF Mapped
  <1>4. /\ c.ready = <<>> => ~SomeTelling(c.ready) /\ ~SomeClosing(c.ready)
        /\ d.ready = <<>> => ~SomeTelling(d.ready) /\ ~SomeClosing(d.ready)
        /\ Absent("read", d.ready) => ~SomeTelling(d.ready)
    BY <1>1, QueueTells
  <1>5. c.ready # <<>> =>
            /\ SomeTelling(c.ready) <=> SomeTelling(Tail(c.ready)) \/ Telling(Head(c.ready))
            /\ SomeClosing(c.ready) <=> SomeClosing(Tail(c.ready)) \/ Closing(Head(c.ready))
    BY <1>1, QueueTells
  \* Before and after the step, by the state of the socket.
  <1>6. process = "running" =>
            /\ c.socket # "closed" => phase = c.socket /\ late_read = FALSE /\ late_close = FALSE
            /\ c.socket = "closed" =>
                   /\ phase = IF c.ready = <<>> THEN "gone" ELSE "stopped"
                   /\ late_read <=> SomeTelling(c.ready)
                   /\ late_close <=> SomeClosing(c.ready)
    BY <1>1, <1>2, <1>4 DEF Phase
  <1>7. process' = "running" =>
            /\ d.socket # "closed" => phase' = d.socket /\ late_read' = FALSE /\ late_close' = FALSE
            /\ d.socket = "closed" =>
                   /\ phase' = IF d.ready = <<>> THEN "gone" ELSE "stopped"
                   /\ late_read' <=> SomeTelling(d.ready)
                   /\ late_close' <=> SomeClosing(d.ready)
    <2>1. d.socket \in {"accepted", "open", "closed"}
      BY DEF ConnectionInv, Sound, Basic, ConnectionRecord
    <2> QED
      BY <2>1, <1>3, <1>4 DEF Phase
  <1>8. Absent("read", d.ready) /\ process' = "running" => late_read' = FALSE
    BY <1>3, <1>4
  <1>9. (process' = "running" /\ d.socket = "closed") =>
            phase' \in {"stopped"} \cup IF late_read' \/ late_close' THEN {} ELSE {"gone"}
    BY <1>4, <1>7
  <1> HIDE DEF c, d
  <1>10. CASE start
    <2>1. /\ process = "running" /\ process' = "running" /\ c.socket = "accepted"
          /\ report' = "none"
      BY <1>10 DEF start, ConnectionInv, c
    <2>2. d.socket = "open" /\ d.client_id = FALSE /\ c.client_id = FALSE
      BY <1>10, <2>1, StartStep DEF ConnectionInv, Sound, Basic, ConnectionRecord, c, d
    <2> QED
      BY <1>6, <1>7, <2>1, <2>2 DEF Life!Next, Life!Start, c, d
  <1>11. CASE AcceptOutcome
    BY <1>6, <1>7, <1>11 DEF AcceptOutcome, Life!Next, Life!Connect, c, d
  <1>12. CASE QuietOutcome
    <2>1. /\ process = "running" /\ process' = "running" /\ report' = "none"
          /\ c.socket # "accepted" /\ d.socket \in {c.socket, "closed"}
          /\ d.client_id = c.client_id
          /\ c.socket = "closed" => d.ready = c.ready
      BY <1>12 DEF QuietOutcome, Handled, c, d
    <2>2. CASE d.socket = c.socket
      <3>1. phase' = phase /\ late_read' = late_read /\ late_close' = late_close
        BY <1>2, <1>3, <1>6, <1>7, <2>1, <2>2
      <3> QED
        BY <2>1, <3>1 DEF Life!Next, Life!Quiet, c, d
    <2>3. CASE c.socket = "open" /\ d.socket = "closed"
      <3>1. phase = "open"
        BY <1>6, <2>1, <2>3
      <3> QED
        BY <1>3, <1>9, <2>1, <2>3, <3>1 DEF Life!Next, Life!Close, Life!Stopped, c, d
    <2> QED
      BY <1>1, <2>1, <2>2, <2>3 DEF c
  <1>13. CASE Terminates
    <2>1. process' = "terminated" /\ report' = "none" /\ d.client_id = c.client_id
      BY <1>13 DEF Terminates, c, d
    <2>2. phase' = "gone" /\ late_read' = FALSE /\ late_close' = FALSE
      BY <1>3, <2>1 DEF Phase
    <2> QED
      BY <2>1, <2>2 DEF Life!Next, Life!Terminate, c, d
  \* A handler of a stopped connection leaves without a word.
  <1>14. ASSUME process = "running", process' = "running", report' = "none",
                c.socket = "closed", d.socket = "closed", d.client_id = c.client_id,
                c.ready # <<>>, d.ready = Tail(c.ready),
                ~Telling(Head(c.ready)), ~Closing(Head(c.ready))
         PROVE  Life!Next
    <2>1. late_read' = late_read /\ late_close' = late_close /\ phase = "stopped"
      BY <1>2, <1>3, <1>5, <1>6, <1>7, <1>14
    <2>2. CASE d.ready # <<>>
      <3>1. phase' = phase
        BY <1>6, <1>7, <1>14, <2>2
      <3> QED
        BY <1>14, <2>1, <3>1 DEF Life!Next, Life!Quiet, c, d
    <2>3. CASE d.ready = <<>>
      <3>1. phase' = "gone" /\ ~late_read /\ ~late_close
        BY <1>4, <1>7, <1>14, <2>1, <2>3
      <3> QED
        BY <1>14, <2>1, <3>1 DEF Life!Next, Life!Destroy, c, d
    <2> QED
      BY <2>2, <2>3
  <1>15. CASE ReadOutcome
    <2>1. /\ process = "running" /\ process' = "running"
          /\ c.socket # "accepted" /\ d.socket \in {c.socket, "closed"}
          /\ d.client_id = c.client_id
          /\ c.ready # <<>> /\ Head(c.ready).op = "read"
          /\ c.socket = "closed" => d.ready = Tail(c.ready)
          /\ d.socket = "closed" => late_read' = FALSE
      BY <1>8, <1>15 DEF ReadOutcome, Handled, c, d
    <2>2. \/ report' = "none" /\ d.socket = c.socket
          \/ Telling(Head(c.ready)) /\ report' = IF c.client_id THEN "packet" ELSE "stray"
          \/ /\ Telling(Head(c.ready)) /\ d.socket = "closed"
             /\ report' \in IF c.client_id THEN {"disconnect", "ungraceful"} ELSE {"stray", "none"}
      BY <1>15, <2>1 DEF ReadOutcome, Telling, packet_report, close_report, c, d
    <2>3. ~Closing(Head(c.ready))
      BY <2>1 DEF Closing
    <2>4. CASE d.socket = "open"
      <3>1. phase = "open" /\ UNCHANGED <<phase, late_read, late_close>>
        BY <1>6, <1>7, <2>1, <2>4
      <3> QED
        BY <2>1, <2>2, <2>4, <3>1 DEF Life!Next, Life!Quiet, Life!Packet, c, d
    <2>5. CASE c.socket = "open" /\ d.socket = "closed"
      <3>1. phase = "open"
        BY <1>6, <2>1, <2>5
      <3> QED
        BY <1>3, <1>9, <2>1, <2>2, <2>5, <3>1
           DEF Life!Next, Life!CloseByRead, Life!Stopped, c, d
    <2>6. CASE c.socket = "closed" /\ Telling(Head(c.ready))
      <3>1. phase = "stopped" /\ late_read /\ d.socket = "closed"
        BY <1>5, <1>6, <2>1, <2>6
      <3>2. late_close' = late_close
        BY <1>2, <1>3, <1>5, <1>6, <1>7, <2>1, <2>3, <3>1
      <3> QED
        BY <1>9, <2>1, <2>2, <3>1, <3>2 DEF Life!Next, Life!LateRead, Life!Stopped, c, d
    <2>7. CASE c.socket = "closed" /\ ~Telling(Head(c.ready))
      BY <1>14, <2>1, <2>2, <2>3, <2>7
    <2> QED
      BY <1>1, <2>1, <2>4, <2>5, <2>6, <2>7 DEF c
  <1>16. CASE OtherOutcome
    <2>1. /\ process = "running" /\ process' = "running"
          /\ c.socket # "accepted" /\ d.socket \in {c.socket, "closed"}
          /\ d.client_id = c.client_id
          /\ c.ready # <<>> /\ ~Telling(Head(c.ready))
          /\ c.socket = "closed" => d.ready = Tail(c.ready)
      BY <1>16 DEF OtherOutcome, Handled, Telling, c, d
    <2>2. \/ report' = "none" /\ d.socket = c.socket /\ ~Closing(Head(c.ready))
          \/ /\ Closing(Head(c.ready)) /\ d.socket = "closed"
             /\ report' \in IF c.client_id THEN {"ungraceful", "authentication_failed"} ELSE {"none"}
      BY <1>16 DEF OtherOutcome, close_report, c, d
    <2>3. CASE d.socket = "open"
      <3>1. phase = "open" /\ UNCHANGED <<phase, late_read, late_close>>
        BY <1>6, <1>7, <2>1, <2>3
      <3> QED
        BY <2>1, <2>2, <2>3, <3>1 DEF Life!Next, Life!Quiet, c, d
    <2>4. CASE c.socket = "open" /\ d.socket = "closed"
      <3>1. phase = "open"
        BY <1>6, <2>1, <2>4
      <3> QED
        BY <1>3, <1>9, <2>1, <2>2, <2>4, <3>1
           DEF Life!Next, Life!Close, Life!Stopped, Life!IfConnected, c, d
    <2>5. CASE c.socket = "closed" /\ Closing(Head(c.ready))
      <3>1. phase = "stopped" /\ late_close /\ d.socket = "closed"
        BY <1>5, <1>6, <2>1, <2>5
      <3>2. late_read' = late_read
        BY <1>2, <1>3, <1>5, <1>6, <1>7, <2>1, <3>1
      <3> QED
        BY <1>3, <1>9, <2>1, <2>2, <2>5, <3>1, <3>2
           DEF Life!Next, Life!LateClose, Life!Stopped, Life!IfConnected, c, d
    <2>6. CASE c.socket = "closed" /\ ~Closing(Head(c.ready))
      BY <1>14, <2>1, <2>2, <2>6
    <2> QED
      BY <1>1, <2>1, <2>3, <2>4, <2>5, <2>6 DEF c
  <1>17. start \/ AcceptOutcome \/ ReadOutcome \/ OtherOutcome \/ QuietOutcome \/ Terminates
    BY Steps DEF ConnectionInv
  <1> QED
    BY <1>10, <1>11, <1>12, <1>13, <1>15, <1>16, <1>17

\* The safety part of ImplementsConnectionLife: whatever the order in which reads,
\* writes and timers complete, fail or are aborted and their handlers run, the
\* dispatcher sees a ConnectionLife, with no packet after the one that was under
\* way when the connection was stopped.
THEOREM RefinesConnectionLife ==
    Spec => Life!Spec
  <1>1. Init => Life!Init
    <2> SUFFICES ASSUME Init
                 PROVE  Life!Init
      OBVIOUS
    <2>1. /\ connection.socket = "accepted" /\ connection.client_id = FALSE
          /\ process = "running" /\ report = "none"
      BY DEF Init
    <2>2. Mapped
      BY InvInit, Mapping
    <2>3. phase = "accepted" /\ late_read = FALSE /\ late_close = FALSE
      BY <2>1, <2>2 DEF Mapped, Phase
    <2> QED
      BY <2>1, <2>3 DEF Life!Init
  <1>2. ConnectionInv /\ ConnectionInv' /\ Mapped /\ Mapped' /\ [Next]_vars
            => [Life!Next]_(Life!vars)
    <2> SUFFICES ASSUME ConnectionInv, ConnectionInv', Mapped, Mapped', [Next]_vars
                 PROVE  [Life!Next]_(Life!vars)
      OBVIOUS
    <2>1. CASE Next
      BY <2>1, LifeStep
    <2>2. CASE UNCHANGED vars
      <3>1. connection' = connection /\ report' = report /\ process' = process
        BY <2>2 DEF vars
      <3>2. UNCHANGED <<phase, late_read, late_close>>
        BY <3>1 DEF Mapped, Phase
      <3> QED
        BY <3>1, <3>2 DEF Life!vars
    <2> QED
      BY <2>1, <2>2
  <1> QED
    BY <1>1, <1>2, Invariant, Mapping, PTL DEF Spec, Life!Spec
=============================================================================
