------------------------------ MODULE TcpConn ------------------------------
(***************************************************************************)
(* One connection of the stack, its application, the network and a peer.   *)
(*                                                                         *)
(* tcb is the entry of TcpManager.connections for the connection's key     *)
(* (state "Absent" when there is none).  The stack is single-threaded: the *)
(* application's calls, the retransmission pass of TcpStack::poll and the  *)
(* handling of one frame each run to completion, in any order the          *)
(* application's loop produces.                                            *)
(*                                                                         *)
(* The network loses, duplicates, delays and reorders.  Towards the peer   *)
(* it is the set `wire` of all segments ever written that carry data, SYN   *)
(* or FIN; one is received any number of times, or never.  Towards the stack it is        *)
(* PeerSegs, every segment that a correct peer may have sent so far.       *)
(*                                                                         *)
(* The peer is external to the repository: a TCP endpoint that follows     *)
(* RFC 793.  Its stream is the bytes 1 .. PeerBytes, ours 1 .. app_sent.   *)
(***************************************************************************)
EXTENDS Tcp

CONSTANTS
    Iss,         \* initial sequence numbers rand_seq may return
    PeerIss,     \* the peer's initial sequence number
    PeerBytes,   \* length of the stream the peer sends before its FIN
    AppBytes,    \* bound: bytes the application sends
    MaxSend      \* bound: bytes in one call of send

ASSUME ConnAssumption ==
    /\ Iss \subseteq SeqNum
    /\ PeerIss \in SeqNum
    /\ PeerBytes \in Nat
    /\ AppBytes \in Nat
    /\ MaxSend \in Nat
    /\ PeerBytes + 3 < M
    /\ AppBytes + 3 < M

VARIABLES
    tcb,         \* the connection's TCB
    opened,      \* connect has been called
    app_sent,    \* number of bytes accepted from the application by send
    delivered,   \* bytes handed to the application by recv
    wire,        \* segments written to the network
    peer         \* the peer: state, our iss, the bytes it got, 1 once it got our FIN

vars == <<tcb, opened, app_sent, delivered, wire, peer>>

\* n consecutive bytes of a stream, from position i on
Bytes(i, n) == [k \in 1 .. n |-> i + k - 1]

-----------------------------------------------------------------------------
(* The stack *)

Init ==
    /\ tcb = NoTcb
    /\ opened = FALSE
    /\ app_sent = 0
    /\ delivered = <<>>
    /\ wire = {}
    /\ peer = [state |-> "Listen", irs |-> 0, got |-> <<>>, fin |-> 0]

\* What the network carries of the segments of a step: those that occupy
\* sequence numbers, without the acknowledgement (the peer may always have
\* sent any part of its stream, so what we acknowledge does not constrain it)
Carried(out) ==
    {[flags |-> out[i].flags \cap {"SYN", "FIN"},
      seq |-> out[i].seq, payload |-> out[i].payload] :
        i \in {j \in 1 .. Len(out) :
                 out[j].flags \cap {"SYN", "FIN"} # {} \/ out[j].payload # <<>>}}

\* A step of the stack: the TCB once the segments are sent, and the network
Apply(s) ==
    /\ tcb' = Sent(s)
    /\ wire' = wire \cup Carried(s.out)

Connect(iss) ==
    /\ ~opened
    /\ opened' = TRUE
    /\ Apply(initiate_connect(iss))
    /\ UNCHANGED <<app_sent, delivered, peer>>

\* send of n bytes; on a connection that is not Established nothing is taken
Send(n) ==
    /\ tcb.state = "Established"
    /\ app_sent + n <= AppBytes
    /\ Apply(socket_send(tcb, Bytes(app_sent + 1, n)))
    /\ app_sent' = app_sent + n
    /\ UNCHANGED <<opened, delivered, peer>>

Recv ==
    /\ tcb.state # "Absent"
    /\ delivered' = delivered \o tcb.recv_buffer
    /\ tcb' = drain_data(tcb)
    /\ UNCHANGED <<opened, app_sent, wire, peer>>

Close ==
    /\ tcb.state # "Absent"
    /\ Apply(close(tcb))
    /\ UNCHANGED <<opened, app_sent, delivered, peer>>

\* tcp_retransmit; due: the deadline is set and has passed
Poll(due) ==
    /\ tcb.state # "Absent"
    /\ due => tcb.retransmit_at = "Some"
    /\ Apply(poll_retransmit(tcb, due))
    /\ UNCHANGED <<opened, app_sent, delivered, peer>>

\* handle_ipv4 of a TCP segment for the connection's key
Receive(h) ==
    /\ tcb.state # "Absent"
    /\ Apply(process_existing_tcb(tcb, h))
    /\ UNCHANGED <<opened, app_sent, delivered, peer>>

-----------------------------------------------------------------------------
(* The peer *)

\* Sequence number of the peer's byte i; its FIN is number PeerBytes + 1
PeerSeq(i) == Add(PeerIss, i)

\* Acknowledgements the peer may have sent: everything up to what it has now
PeerAcks ==
    {Add(peer.irs, 1 + k) : k \in 0 .. Len(peer.got) + peer.fin}

\* Segments of the peer: data and FIN cut at any boundary, acknowledgements,
\* resets.  A FIN without ACK is what the FinWait1 arm calls "FIN before ACK".
PeerData(a) ==
    UNION {{Seg({"ACK"}, PeerSeq(i), a, Bytes(i, n)) : n \in 0 .. PeerBytes + 1 - i} :
           i \in 1 .. PeerBytes}
PeerFin(fl, a) ==
    {Seg(fl, PeerSeq(i), a, Bytes(i, PeerBytes + 1 - i)) : i \in 1 .. PeerBytes + 1}
PeerControl(a) ==
    {Seg({"ACK"}, PeerSeq(PeerBytes + 1), a, <<>>), Seg({"RST", "ACK"}, PeerSeq(1), a, <<>>)}

PeerSegs ==
    CASE peer.state = "Listen" -> {}
      [] peer.state = "Refused" -> {Seg({"RST", "ACK"}, 0, Add(peer.irs, 1), <<>>)}
      [] OTHER -> {Seg({"SYN", "ACK"}, PeerIss, Add(peer.irs, 1), <<>>)}
                    \cup PeerFin({"FIN"}, 0)
                    \cup (UNION {PeerData(a) \cup PeerFin({"FIN", "ACK"}, a) \cup PeerControl(a) :
                                  a \in PeerAcks})

\* The peer answers a SYN: it accepts the connection or refuses it
PeerSyn(s, answer) ==
    /\ peer.state = "Listen"
    /\ "SYN" \in s.flags
    /\ peer' = [peer EXCEPT !.state = answer, !.irs = s.seq]
    /\ UNCHANGED <<tcb, opened, app_sent, delivered, wire>>

\* The peer receives the part of a segment that starts where its stream ends,
\* and the FIN that follows its last byte
PeerReceive(s) ==
    LET want == Len(peer.got)
        pos  == Sub(s.seq, Add(peer.irs, 1))   \* stream position before the segment
        last == pos + Len(s.payload)
    IN  /\ peer.state = "Open"
        /\ peer.fin = 0
        /\ "SYN" \notin s.flags
        /\ pos <= want /\ want <= last
        /\ peer' = [peer EXCEPT
                      !.got = @ \o SubSeq(s.payload, want - pos + 1, Len(s.payload)),
                      !.fin = One(s, "FIN")]
        /\ UNCHANGED <<tcb, opened, app_sent, delivered, wire>>

-----------------------------------------------------------------------------
App == \/ \E iss \in Iss : Connect(iss)
       \/ \E n \in 0 .. MaxSend : Send(n)
       \/ Recv
       \/ Close

Stack == \/ \E due \in BOOLEAN : Poll(due)
         \/ \E h \in PeerSegs : Receive(h)

Peer == \E s \in wire : \/ \E answer \in {"Open", "Refused"} : PeerSyn(s, answer)
                        \/ PeerReceive(s)

Next == App \/ Stack \/ Peer

Spec == Init /\ [][Next]_vars

\* The application polls until the connection is gone and time passes, so a
\* deadline that stays set is eventually found to have passed.
Fairness == WF_vars(Poll(TRUE)) /\ WF_vars(Poll(FALSE))

LiveSpec == Spec /\ Fairness

-----------------------------------------------------------------------------
(* Properties *)

WireSegment == [flags : SUBSET {"SYN", "FIN"}, seq : SeqNum, payload : Seq(Nat)]

\* The types of the TCB's fields and of the environment; in particular the
\* retransmission count and the timeout stay within MAX_RETRANSMITS and
\* MAX_RTO although the timeout is doubled and never reset.
TypeOK ==
    /\ tcb \in Tcb
    /\ opened \in BOOLEAN
    /\ app_sent \in 0 .. AppBytes
    /\ delivered \in Seq(Nat)
    /\ wire \in SUBSET WireSegment
    /\ peer \in [state : {"Listen", "Open", "Refused"}, irs : SeqNum,
                 got : Seq(Nat), fin : {0, 1}]

\* Bytes accepted from the peer so far
Accepted == Len(delivered) + Len(tcb.recv_buffer)

\* What recv returned followed by what it will return next is a prefix of the
\* peer's stream, whatever the network duplicated, reordered or cut
\* differently on a retransmission, and whichever side closes first.
StreamPrefix ==
    /\ Accepted <= PeerBytes
    /\ delivered \o tcb.recv_buffer = Bytes(1, Accepted)

\* rcv_nxt is exactly one past the accepted bytes while data is accepted, and
\* one past the peer's FIN after a passive close, which is entered only when
\* no byte before the FIN is missing: the stack acknowledges what it holds.
AckMatchesBuffer ==
    /\ tcb.state \in {"Established", "FinWait1", "FinWait2"} =>
          tcb.rcv_nxt = PeerSeq(Accepted + 1)
    /\ tcb.state \in {"CloseWait", "LastAck"} =>
          /\ Accepted = PeerBytes
          /\ tcb.rcv_nxt = PeerSeq(PeerBytes + 2)

\* Position in our stream of a sequence number: bytes before it
Position(n) == Sub(n, Add(tcb.iss, 1))

\* Until our FIN is sent the send buffer holds exactly the bytes from snd_una
\* to snd_nxt, those sent and not acknowledged.
SendBufferIsUnacked ==
    tcb.state \in {"Established", "CloseWait"} =>
        /\ Position(tcb.snd_nxt) = app_sent
        /\ tcb.send_buffer = Bytes(Position(tcb.snd_una) + 1,
                                  app_sent - Position(tcb.snd_una))

\* A byte leaves the unacknowledged range only when the peer really has it:
\* a late or duplicated acknowledgement never moves snd_una too far.
AckedIsAtPeer ==
    tcb.state \notin {"Absent", "SynSent"} /\ tcb.snd_una # tcb.iss =>
        Position(tcb.snd_una) <= Len(peer.got) + peer.fin

\* Every FIN, first sent by close or rebuilt by build_retransmit, has the
\* sequence number right after the last byte taken from the application, and
\* every SYN the initial one.
ControlSegmentsInPlace ==
    tcb.state # "Absent" =>
        \A s \in wire : /\ "FIN" \in s.flags => Position(s.seq) = app_sent
                        /\ "SYN" \in s.flags => s.seq = tcb.iss

\* The connection implements the receiving side of a byte stream.
Stream == INSTANCE ByteStream WITH
    Length <- PeerBytes,
    unread <- tcb.recv_buffer,
    read <- delivered,
    cut <- opened /\ tcb.state = "Absent"
RefinesByteStream == Stream!StreamSpec

\* connect is answered one way or the other: a SYN that nobody answers does
\* not keep the connection in SynSent.
HandshakeEnds == tcb.state = "SynSent" ~> tcb.state # "SynSent"

\* Once our FIN is out and acknowledged or the peer's FIN is in, the TCB
\* leaves the table even if the peer falls silent; FinWait1 does not last.
CloseCompletes ==
    /\ tcb.state \in {"LastAck", "Closing", "TimeWait", "Closed"} ~> tcb.state = "Absent"
    /\ tcb.state = "FinWait1" ~> tcb.state # "FinWait1"

-----------------------------------------------------------------------------
(* What comments of tcp.rs say and the code does not do *)

\* "Stop retransmit timer if all data ACKed" (tcp.rs:329): a connection whose
\* data is all acknowledged does not run out of retransmissions.
IdleIsNotKilled ==
    [][tcb.state = "Established" /\ tcb.snd_una = tcb.snd_nxt
          => tcb'.state # "Absent"]_vars

\* "Retransmit oldest unacked data from send_buffer" (tcp.rs:750): what the
\* peer assembles is a prefix of what the application sent.
PeerStreamPrefix == peer.got = Bytes(1, Len(peer.got))

\* "Buffer any data" (tcp.rs:428): when the peer's FIN is acknowledged, all the
\* bytes before it have been buffered, in an active close too.
FinFollowsBufferedData == tcb.state = "TimeWait" => Accepted = PeerBytes
=============================================================================
