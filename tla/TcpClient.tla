----------------------------- MODULE TcpClient -----------------------------
(***************************************************************************)
(* run_client of TCP-stack/src/main.rs driving one connection: connect,    *)
(* poll until Established, send the request, then poll and read until the  *)
(* connection is closed, closing when the server has.  One call of         *)
(* TcpStack::poll is the retransmission pass followed by the handling of   *)
(* every frame the TAP device has ready, with nothing of the client in     *)
(* between.                                                                *)
(***************************************************************************)
EXTENDS TcpConn

\* A segment is sent at least twice before its connection is given up
ASSUME ClientAssumption == MAX_RETRANSMITS > 0

VARIABLE pc

clientVars == <<tcb, opened, app_sent, delivered, wire, peer, pc>>

Goto(from, to) == pc = from /\ pc' = to

is_closed == tcb.state \in {"Closed", "Absent"}

ClientInit == Init /\ pc = "connect"

CallConnect(iss) == Goto("connect", "wait") /\ Connect(iss)

\* The retransmission pass of poll, in the loop that waits for the handshake
\* and in the loop that reads
PollPass(from, to, due) ==
    /\ Goto(from, to)
    /\ IF tcb.state = "Absent"
       THEN due = FALSE /\ UNCHANGED vars
       ELSE Poll(due)

\* One frame of the batch; a segment for a key not in the table changes nothing
Frame(at, h) == Goto(at, at) /\ Receive(h)

\* read_frame says WouldBlock: poll returns
BatchEnd(from, to) == Goto(from, to) /\ UNCHANGED vars

WaitPoll(due) == tcb.state # "Established" /\ PollPass("wait", "wait_frames", due)

\* The loop ends; the request is sent in one call
SendRequest ==
    /\ tcb.state = "Established"
    /\ Goto("wait", "read")
    /\ Send(AppBytes)

ReadPoll(due) == ~is_closed /\ PollPass("read", "read_frames", due)

\* Mutant: close without reading first
ReadAndClose_unread ==
    /\ Goto("recv", "read")
    /\ IF tcb.state = "CloseWait"
       THEN Apply(close(tcb)) /\ UNCHANGED delivered
       ELSE tcb' = drain_data(tcb) /\ delivered' = delivered \o tcb.recv_buffer /\ UNCHANGED wire
    /\ UNCHANGED <<opened, app_sent, peer>>

\* recv, and close if that leaves the connection in CloseWait
ReadAndClose ==
    LET t == drain_data(tcb)
    IN  /\ Goto("recv", "read")
        /\ delivered' = delivered \o tcb.recv_buffer
        /\ Apply(IF t.state = "CloseWait" THEN close(t) ELSE Step(t, <<>>))
        /\ UNCHANGED <<opened, app_sent, peer>>

Finish == is_closed /\ Goto("read", "done") /\ UNCHANGED vars

ClientStep ==
    \/ \E iss \in Iss : CallConnect(iss)
    \/ \E due \in BOOLEAN : WaitPoll(due) \/ ReadPoll(due)
    \/ \E h \in PeerSegs : Frame("wait_frames", h) \/ Frame("read_frames", h)
    \/ BatchEnd("wait_frames", "wait")
    \/ BatchEnd("read_frames", "recv")
    \/ SendRequest
    \/ ReadAndClose
    \/ Finish

ClientNext == ClientStep \/ (Peer /\ UNCHANGED pc)

ClientSpec == ClientInit /\ [][ClientNext]_clientVars

\* The client never stops calling poll, a batch of frames is finite, and time
\* passes while it sleeps, so that a deadline that stays set is found passed.
ClientFairness ==
    /\ WF_clientVars(\E iss \in Iss : CallConnect(iss))
    /\ WF_clientVars(\E due \in BOOLEAN : WaitPoll(due) \/ ReadPoll(due))
    /\ WF_clientVars(SendRequest \/ ReadAndClose \/ Finish)
    /\ WF_clientVars(BatchEnd("wait_frames", "wait") \/ BatchEnd("read_frames", "recv"))
    /\ SF_clientVars(WaitPoll(TRUE) \/ ReadPoll(TRUE))

LiveClientSpec == ClientSpec /\ ClientFairness

-----------------------------------------------------------------------------
(* Properties *)

\* The request the server assembles is a prefix of the one sent: with a single
\* call of send the offset build_retransmit takes into the send buffer is
\* right, whatever is lost or repeated.
RequestIntact == peer.got = Bytes(1, Len(peer.got))

\* Our FIN is sent only when the whole response was read: recv comes before
\* close, and CloseWait is entered with every byte buffered.
ReadBeforeClose == tcb.state = "LastAck" => delivered = Bytes(1, PeerBytes)

\* In the reading loop no step throws away bytes that were not read, not
\* the one that removes the connection either.
NothingUnread ==
    [][tcb.recv_buffer # <<>> /\ pc \in {"read", "read_frames", "recv"}
          => tcb'.state # "Absent"]_clientVars

\* When the server's FIN comes in the reading loop, run_client ends, though
\* nothing it sends after that may arrive: it answers with its own FIN, and
\* either that is acknowledged or the retransmissions run out.  In the loop
\* before, the FIN comes in the poll that handled the SYN+ACK, and run_client
\* waits for Established for ever (see ServerCloseAnswered).
ReaderEnds ==
    /\ tcb.state = "CloseWait" /\ pc \in {"read", "read_frames", "recv"} ~> pc = "done"
    /\ [](tcb.state = "CloseWait" /\ pc \in {"wait", "wait_frames"}
             => [](pc \in {"wait", "wait_frames"}))

-----------------------------------------------------------------------------
(* What a comment of main.rs says and the code does not do *)

\* "Server closed (CloseWait) - send our FIN" (main.rs:80): whenever the server
\* has closed, the client answers with its own FIN.  The loop before it looks
\* only for Established, and misses it when the server's FIN comes in the poll
\* that ends the handshake.
ServerCloseAnswered == tcb.state = "CloseWait" ~> tcb.state = "LastAck"
=============================================================================
