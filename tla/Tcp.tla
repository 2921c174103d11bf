-------------------------------- MODULE Tcp --------------------------------
(***************************************************************************)
(* Two ends of one TCP tuple: the state machine of troe-net (tcp.rs), as   *)
(* the kernel's network service and the tcp-connect and tcp-listen         *)
(* services drive it.  The client opens actively, the server is a          *)
(* connection of a listener until the application accepts it.              *)
(*                                                                         *)
(* `net' holds the last few segments each end sent: each of them may       *)
(* arrive late, twice, after a later one or never.  Timers are not         *)
(* clocked: a retransmission or the end of TimeWait may be due at any      *)
(* moment.                                                                 *)
(***************************************************************************)
EXTENDS Integers, Sequences, SequencesExt, FiniteSets

CONSTANTS
    Width,    \* sequence numbers are taken modulo this (2^32)
    Isn,      \* initial sequence of the client, and of each server open
    Room,     \* MAX_TCP_RECEIVE_BYTES
    Mss,      \* MAX_TCP_PAYLOAD_BYTES
    Attempts, \* TCP_TRANSMIT_ATTEMPTS
    Bytes,    \* bound: bytes each application writes
    Lag,      \* bound: segments of one end that may still arrive
    MaxOpens, \* bound: passive opens
    MaxWork,  \* bound: bytes and passive opens together
    Nothing

VARIABLES
    conn,   \* the connection at each end, None when there is none
    net,    \* the segments of each end that may still arrive, oldest first
    opens,  \* passive opens so far
    wrote,  \* history: bytes handed to begin_send at each end
    got,    \* history: bytes admitted at each end, by their position
    told,   \* history: the ends that began a close
    heard,  \* history: the ends that admitted the other's FIN
    eof,    \* history: the ends whose reader was told end of stream
    paired  \* history: the passive open whose SYN+ACK the client admitted

history == <<wrote, got, told, heard, eof, paired>>
tcpVars == <<conn, net, opens, history>>

End == {"client", "server"}
Peer(e) == IF e = "client" THEN "server" ELSE "client"

Plus(a, n) == (a + n) % Width

Live(e) == conn[e] # Nothing
In(e, states) == Live(e) /\ conn[e].state \in states

HandshakeComplete(c) == c.state \notin {"SynSent", "SynReceived"}

\* advertised_window
Window(c) == Room - Len(c.receive)

\* Bound: what both applications wrote and the opens so far.
Work == wrote["client"] + wrote["server"] + opens

-----------------------------------------------------------------------------
(* Transmission. *)

InFlight(sequence, flags, data) ==
    [sequence |-> sequence, flags |-> flags, data |-> data, attempts |-> 0]

\* end_sequence
EndSequence(p) == Plus(p.sequence, Len(p.data) + IF p.flags = "DATA" THEN 0 ELSE 1)

Segment(e, c, sequence, flags, data) ==
    [from |-> e, sequence |-> sequence, flags |-> flags, data |-> data,
     acknowledgement |-> IF flags = "SYN" THEN 0 ELSE c.receive_next,
     window |-> Window(c)]

\* A segment on its way; the oldest one is lost when there are too many, and
\* one sent again counts as the latest.
Send(e, m) ==
    LET sent == Append(Remove(net[e], m), m)
    IN  net' = [net EXCEPT ![e] = IF Len(sent) > Lag THEN Tail(sent) ELSE sent]

\* poll_emission: an owed acknowledgement goes first.
EmitAck(e) ==
    /\ Live(e)
    /\ conn[e].ack_pending
    /\ Send(e, Segment(e, conn[e], conn[e].send_next, "ACK", <<>>))
    /\ conn' = [conn EXCEPT ![e].ack_pending = FALSE]
    /\ UNCHANGED <<opens, history>>

\* poll_emission: the first transmission, or one whose deadline has passed.
Transmit(e) ==
    /\ Live(e)
    /\ ~ conn[e].ack_pending
    /\ conn[e].pending # Nothing
    /\ conn[e].pending.attempts < Attempts
    /\ LET p == conn[e].pending
       IN  Send(e, Segment(e, conn[e], p.sequence, p.flags, p.data))
    /\ conn' = [conn EXCEPT ![e].pending.attempts = @ + 1]
    /\ UNCHANGED <<opens, history>>

\* poll_emission: the deadline of the last transmission has passed.
RetryTimer(e) ==
    /\ Live(e)
    /\ ~ conn[e].ack_pending
    /\ conn[e].pending # Nothing
    /\ conn[e].pending.attempts = Attempts
    /\ conn' = [conn EXCEPT ![e].pending = Nothing, ![e].state = "Closed", ![e].terminal = TRUE]
    /\ UNCHANGED <<net, opens, history>>

\* poll_emission: the retained tuple expires.
LeaveTimeWait(e) ==
    /\ In(e, {"TimeWait"})
    /\ conn' = [conn EXCEPT ![e].state = "Closed", ![e].pending = Nothing,
                            ![e].ack_pending = FALSE]
    /\ UNCHANGED <<net, opens, history>>

-----------------------------------------------------------------------------
(* The application's calls. *)

Fresh(state, isn, receive_next, flags, window) ==
    [state |-> state, send_unacknowledged |-> isn, send_next |-> Plus(isn, 1),
     receive_next |-> receive_next, receive |-> <<>>,
     pending |-> InFlight(isn, flags, <<>>), ack_pending |-> FALSE,
     peer_window |-> window, terminal |-> FALSE, accepted |-> FALSE]

\* The application holds the connection: its connect returned, or it accepted.
Held(e) == Live(e) /\ conn[e].accepted

\* poll_accept and retain_accepted
Accept ==
    /\ Live("server") /\ ~ conn["server"].accepted
    /\ HandshakeComplete(conn["server"])
    /\ conn["server"].state # "Closed"
    /\ conn' = [conn EXCEPT !["server"].accepted = TRUE]
    /\ UNCHANGED <<net, opens, history>>

\* begin_send, as tcp_write calls it: at most a segment, within the window.
BeginSend(e, n) ==
    /\ Held(e)
    /\ In(e, {"Established", "CloseWait"})
    /\ conn[e].pending = Nothing
    /\ n <= conn[e].peer_window
    /\ wrote[e] + n <= Bytes[e] /\ Work + n <= MaxWork
    /\ LET data == [i \in 1 .. n |-> wrote[e] + i]
       IN  conn' = [conn EXCEPT ![e].pending = InFlight(conn[e].send_next, "DATA", data),
                                ![e].send_next = Plus(@, n)]
    /\ wrote' = [wrote EXCEPT ![e] = @ + n]
    /\ UNCHANGED <<net, opens, got, told, heard, eof, paired>>

\* begin_close, as tcp_close calls it
BeginClose(e) ==
    /\ Held(e)
    /\ In(e, {"Established", "CloseWait"})
    /\ conn[e].pending = Nothing
    /\ conn' = [conn EXCEPT
                    ![e].state = IF @ = "Established" THEN "FinWaitOne" ELSE "LastAck",
                    ![e].pending = InFlight(conn[e].send_next, "FIN", <<>>),
                    ![e].send_next = Plus(@, 1)]
    /\ told' = told \cup {e}
    /\ UNCHANGED <<net, opens, wrote, got, heard, eof, paired>>

\* Mutant: end of stream in a state where the peer may still be sending.
PeerClosedEarly(c) == c.state \in {"FinWaitTwo", "CloseWait", "LastAck", "TimeWait", "Closed"}

\* read: the states in which an empty buffer is the end of the stream.
PeerClosed(c) == c.state \in {"CloseWait", "LastAck", "TimeWait", "Closed"}

\* read: one retained byte, which reopens the window, or end of stream.
Read(e) ==
    /\ Held(e)
    /\ ~ conn[e].terminal
    /\ \/ /\ conn[e].receive # <<>>
          /\ conn' = [conn EXCEPT ![e].receive = Tail(@), ![e].ack_pending = TRUE]
          /\ UNCHANGED eof
       \/ /\ conn[e].receive = <<>>
          /\ PeerClosed(conn[e])
          /\ eof' = eof \cup {e}
          /\ UNCHANGED conn
    /\ UNCHANGED <<net, opens, wrote, got, told, heard, paired>>

\* release: the owner is torn down, an operation failed or ran out of time, or
\* the ambient drain reclaims a closed connection.  Nothing is sent.
Release(e) ==
    /\ Live(e)
    /\ conn' = [conn EXCEPT ![e] = Nothing]
    /\ UNCHANGED <<net, opens, history>>

-----------------------------------------------------------------------------
(* Arrival of a segment. *)

\* TcpListener::on_segment: a bare SYN that no connection claims.
PassiveOpen(m) ==
    /\ ~ Live("server")
    /\ m.flags = "SYN"
    /\ opens < MaxOpens /\ Work < MaxWork
    /\ opens' = opens + 1
    /\ conn' = [conn EXCEPT !["server"] =
                    Fresh("SynReceived", Isn[opens' + 1], Plus(m.sequence, 1),
                          "SYN_ACK", m.window)]
    /\ UNCHANGED <<net, history>>

\* admit_syn_sent
AdmitSynSent(m) ==
    LET c == conn["client"]
    IN  /\ In("client", {"SynSent"})
        /\ m.flags = "SYN_ACK"
        /\ m.acknowledgement = c.send_next
        /\ conn' = [conn EXCEPT !["client"] =
                        [c EXCEPT !.send_unacknowledged = m.acknowledgement,
                                  !.receive_next = Plus(m.sequence, 1),
                                  !.peer_window = m.window, !.pending = Nothing,
                                  !.state = "Established", !.ack_pending = TRUE,
                                  !.accepted = TRUE]]
        /\ paired' = CHOOSE k \in 1 .. MaxOpens : Isn[k + 1] = m.sequence
        /\ UNCHANGED <<net, opens, wrote, got, told, heard, eof>>

\* Mutant: any acknowledgement at the expected sequence completes the open.
FinalAckLoose(c, m) == m.flags \notin {"SYN", "SYN_ACK"} /\ m.sequence = c.receive_next

\* admit_syn_received: the exact final acknowledgement.
FinalAck(c, m) ==
    /\ m.flags \notin {"SYN", "SYN_ACK"}
    /\ m.acknowledgement = c.send_next
    /\ m.sequence = c.receive_next

\* The connection after the handshake, if this segment completes it.
Completed(c, m) ==
    IF c.state # "SynReceived" THEN c
    ELSE [c EXCEPT !.send_unacknowledged = m.acknowledgement, !.peer_window = m.window,
                   !.pending = Nothing, !.state = "Established"]

\* Mutant: a repeated acknowledgement settles what is in flight.
AcknowledgesRepeated(c, m) == c.pending # Nothing

\* acknowledge: this settles the segment in flight.
Acknowledges(c, m) == c.pending # Nothing /\ m.acknowledgement = EndSequence(c.pending)

\* acknowledge: acceptable at all.
Acceptable(c, m) ==
    /\ m.flags \notin {"SYN", "SYN_ACK"}
    /\ m.acknowledgement = c.send_unacknowledged \/ Acknowledges(c, m)

Acknowledged(c, m) ==
    IF ~ Acknowledges(c, m) THEN c
    ELSE [c EXCEPT !.send_unacknowledged = m.acknowledgement, !.pending = Nothing,
                   !.state = CASE @ = "FinWaitOne" -> "FinWaitTwo"
                               [] @ = "Closing" -> "TimeWait"
                               [] @ = "LastAck" -> "Closed"
                               [] OTHER -> @]

\* on_segment: only the exact next sequence is admitted.
InOrder(c, m) == m.sequence = c.receive_next

InWindow(c, m) == Len(m.data) <= Window(c)

\* The state after the peer's FIN.
AfterFin(state) ==
    CASE state = "Established" -> "CloseWait"
      [] state = "FinWaitOne" -> "Closing"
      [] state \in {"FinWaitTwo", "Closing"} -> "TimeWait"
      [] OTHER -> state

\* on_segment: the bytes and the FIN of an in-order segment that fits.
Admitted(c, m) ==
    [c EXCEPT !.receive = @ \o m.data,
              !.receive_next = Plus(@, Len(m.data) + IF m.flags = "FIN" THEN 1 ELSE 0),
              !.ack_pending = @ \/ m.data # <<>> \/ m.flags = "FIN",
              !.state = IF m.flags = "FIN" THEN AfterFin(@) ELSE @]

Owing(c) == [c EXCEPT !.ack_pending = TRUE]

\* on_segment once the handshake is complete, or completes with this segment.
Arrive(e, m) ==
    LET c == Completed(conn[e], m)
        a == [Acknowledged(c, m) EXCEPT !.peer_window = m.window]
        taken == Acceptable(c, m) /\ InOrder(a, m) /\ InWindow(a, m)
    IN  /\ Live(e)
        /\ conn[e].state \notin {"SynSent", "Closed"}
        /\ conn[e].state = "SynReceived" => FinalAck(conn[e], m)
        /\ conn' = [conn EXCEPT ![e] = IF ~ Acceptable(c, m) THEN Owing(c)
                                       ELSE IF taken THEN Admitted(a, m) ELSE Owing(a)]
        /\ got' = IF taken THEN [got EXCEPT ![e] = @ \o m.data] ELSE got
        /\ heard' = IF taken /\ m.flags = "FIN" THEN heard \cup {e} ELSE heard
        /\ UNCHANGED <<net, opens, wrote, told, eof, paired>>

Receive(m) ==
    \/ m.from = "client" /\ PassiveOpen(m)
    \/ m.from = "server" /\ AdmitSynSent(m)
    \/ Arrive(Peer(m.from), m)

TcpInit ==
    /\ conn = [client |-> Fresh("SynSent", Isn[1], 0, "SYN", 0), server |-> Nothing]
    /\ net = [e \in End |-> <<>>]
    /\ opens = 0
    /\ wrote = [e \in End |-> 0]
    /\ got = [e \in End |-> <<>>]
    /\ told = {}
    /\ heard = {}
    /\ eof = {}
    /\ paired = 0

TcpNext ==
    \/ \E e \in End : \E m \in ToSet(net[e]) : Receive(m)
    \/ Accept
    \/ \E e \in End :
        \/ EmitAck(e) \/ Transmit(e) \/ RetryTimer(e) \/ LeaveTimeWait(e)
        \/ \E n \in 1 .. Mss : BeginSend(e, n)
        \/ BeginClose(e) \/ Read(e) \/ Release(e)

TcpSpec == TcpInit /\ [][TcpNext]_tcpVars

-----------------------------------------------------------------------------
(* What an end has received is the beginning of what the other end wrote,  *)
(* in order and once, through loss, repetition and reordering              *)
(* (on_segment admits the exact next sequence only).  End of stream is     *)
(* reported only when the peer began a close and every byte it ever wrote  *)
(* was received (read).                                                    *)
StreamExact ==
    /\ \A e \in End : got[e] = [i \in 1 .. Len(got[e]) |-> i] /\ Len(got[e]) <= wrote[Peer(e)]
    /\ \A e \in eof : Peer(e) \in told /\ Len(got[e]) = wrote[Peer(e)]

(* A write that completed, with nothing left in flight and no failure, is  *)
(* held by the other end; a close that completed was seen there            *)
(* (acknowledge, send_complete, tcp_close).                                *)
AcknowledgedIsHeld ==
    \A e \in End :
        (/\ Live(e) /\ ~ conn[e].terminal
         /\ HandshakeComplete(conn[e])
         /\ conn[e].pending = Nothing)
        => /\ Len(got[Peer(e)]) = wrote[e]
           /\ e \in told => Peer(e) \in heard

(* A passive open completes only with the client that answered its own     *)
(* SYN+ACK: an old SYN that arrives again after the connection is gone     *)
(* opens nothing an application could accept (admit_syn_received).         *)
NoGhostAccepted ==
    (Live("server") /\ HandshakeComplete(conn["server"]) /\ ~ conn["server"].terminal)
        => paired = opens
=============================================================================
