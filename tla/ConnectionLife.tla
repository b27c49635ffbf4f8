---------------------------- MODULE ConnectionLife ----------------------------
(***************************************************************************)
(* What the dispatcher sees of a connection, whatever reads, writes and    *)
(* timers it takes.  MqttConnection implements it; SessionManager takes    *)
(* its connections to be of this kind.                                     *)
(*                                                                         *)
(* A connection that was stopped lives on until its last handler has run.  *)
(* Until then it may still hand on one packet, and ask to be closed again. *)
(***************************************************************************)

VARIABLES
    phase,       \* "accepted", "open", "stopped", "gone"
    client_id,   \* whether CONNECT was accepted
    late_read,   \* stopped, and a frame or error that was read is not handled
    late_close,  \* stopped, and an operation is not handled that asks for the close
    report       \* what the last step told the dispatcher

vars == <<phase, client_id, late_read, late_close, report>>

Report == {"none", "connect", "packet", "disconnect", "ungraceful",
           "authentication_failed", "stray"}

\* Before CONNECT the dispatcher hears of no close, and a packet is stray.
IfConnected(reports) == IF client_id THEN reports ELSE {"none"}

Init ==
    /\ phase = "accepted"
    /\ client_id = FALSE
    /\ late_read = FALSE
    /\ late_close = FALSE
    /\ report = "none"

Start ==
    /\ phase = "accepted"
    /\ phase' = "open"
    /\ report' = "none"
    /\ UNCHANGED <<client_id, late_read, late_close>>

Connect ==
    /\ phase = "open" /\ ~client_id
    /\ client_id' = TRUE
    /\ report' = "connect"
    /\ UNCHANGED <<phase, late_read, late_close>>

Packet ==
    /\ phase = "open"
    /\ report' = IF client_id THEN "packet" ELSE "stray"
    /\ UNCHANGED <<phase, client_id, late_read, late_close>>

\* The connection is stopped, or the handler was its last.
Stopped == phase' \in {"stopped"} \cup IF late_read' \/ late_close' THEN {} ELSE {"gone"}

\* The handler of a read stops the connection: no other read is under way.
CloseByRead ==
    /\ phase = "open"
    /\ report' \in IF client_id THEN {"packet", "disconnect", "ungraceful"} ELSE {"stray", "none"}
    /\ late_read' = FALSE
    /\ late_close' \in BOOLEAN
    /\ Stopped
    /\ UNCHANGED client_id

\* A timer, a write or another part of the server stops it.
Close ==
    /\ phase = "open"
    /\ report' \in {"none"} \cup IfConnected({"ungraceful", "authentication_failed"})
    /\ late_read' \in BOOLEAN
    /\ late_close' \in BOOLEAN
    /\ Stopped
    /\ UNCHANGED client_id

LateRead ==
    /\ phase = "stopped" /\ late_read
    /\ report' \in {"none"} \cup IF client_id THEN {"packet", "disconnect", "ungraceful"} ELSE {"stray"}
    /\ late_read' = FALSE
    /\ UNCHANGED <<client_id, late_close>>
    /\ Stopped

LateClose ==
    /\ phase = "stopped" /\ late_close
    /\ report' \in IfConnected({"ungraceful", "authentication_failed"})
    /\ late_close' \in BOOLEAN
    /\ UNCHANGED <<client_id, late_read>>
    /\ Stopped

Destroy ==
    /\ phase = "stopped" /\ ~late_read /\ ~late_close
    /\ phase' = "gone"
    /\ report' = "none"
    /\ UNCHANGED <<client_id, late_read, late_close>>

\* Nothing is told.
Quiet ==
    /\ report' = "none"
    /\ UNCHANGED <<phase, client_id, late_read, late_close>>

\* The process ends, and all connections with it.
Terminate ==
    /\ phase' = "gone"
    /\ report' = "none"
    /\ late_read' = FALSE
    /\ late_close' = FALSE
    /\ UNCHANGED client_id

Next ==
    \/ Start \/ Connect \/ Packet \/ CloseByRead \/ Close \/ LateRead \/ LateClose
    \/ Destroy \/ Quiet \/ Terminate

Spec == Init /\ [][Next]_vars

\* No connection that was stopped stays.
StoppedIsReleased == []<>(phase # "stopped")

ReleasingSpec == Spec /\ StoppedIsReleased

-----------------------------------------------------------------------------

TypeOK ==
    /\ phase \in {"accepted", "open", "stopped", "gone"}
    /\ client_id \in BOOLEAN
    /\ late_read \in BOOLEAN
    /\ late_close \in BOOLEAN
    /\ report \in Report
=============================================================================
