-------------------------------- MODULE Tcp --------------------------------
(***************************************************************************)
(* The transmission control block of TCP-stack/src/tcp.rs and the          *)
(* functions that step it, one operator per function or per arm of its     *)
(* `match tcb.state`.  An operator takes a TCB (and a segment) and returns *)
(* the new TCB together with the segments handed to the network layer.     *)
(*                                                                         *)
(* Sequence numbers are u32 in the code; here they live in 0 .. M-1 and    *)
(* wrap.  A byte is identified by its position in the stream it belongs    *)
(* to, so that a byte at the wrong place is a visible error.  The only     *)
(* thing kept of an Instant is whether a deadline is set: whether it has   *)
(* passed is chosen when the stack polls.                                  *)
(***************************************************************************)
EXTENDS Integers, Sequences

CONSTANTS
    M,                \* size of the sequence space (2^32 in the code)
    MAX_RETRANSMITS,  \* retransmissions before a connection is killed (5)
    INITIAL_RTO,      \* first retransmission timeout (1 s)
    MAX_RTO           \* largest retransmission timeout (60 s)

ASSUME TcpAssumption ==
    /\ M \in Nat \ {0}
    /\ MAX_RETRANSMITS \in Nat
    /\ INITIAL_RTO \in Nat \ {0}
    /\ MAX_RTO \in Nat
    /\ INITIAL_RTO <= MAX_RTO

SeqNum == 0 .. M - 1

\* wrapping_add and wrapping_sub of u32; n is at most one sequence space
Add(a, n) == IF a + n >= M THEN a + n - M ELSE a + n
Sub(a, b) == IF a >= b THEN a - b ELSE a - b + M

-----------------------------------------------------------------------------
(***************************************************************************)
(* The TCB.  "Absent" is a key that is not in TcpManager.connections; the  *)
(* code never inserts a TCB in Listen or SynReceived.                      *)
(***************************************************************************)
TcpState == {"SynSent", "Established", "FinWait1", "FinWait2", "CloseWait",
             "Closing", "LastAck", "TimeWait", "Closed"}

Flag == {"SYN", "ACK", "FIN", "RST", "PSH"}

Tcb == [state : TcpState \cup {"Absent"},
        iss : SeqNum, snd_una : SeqNum, snd_nxt : SeqNum,
        irs : SeqNum, rcv_nxt : SeqNum,
        rto : INITIAL_RTO .. MAX_RTO,
        retransmit_at : {"None", "Some"},
        retransmit_count : 0 .. MAX_RETRANSMITS,
        send_buffer : Seq(Nat), recv_buffer : Seq(Nat)]

Segment == [flags : SUBSET Flag, seq : SeqNum, ack : SeqNum, payload : Seq(Nat)]

NoTcb == [state |-> "Absent", iss |-> 0, snd_una |-> 0, snd_nxt |-> 0,
          irs |-> 0, rcv_nxt |-> 0, rto |-> INITIAL_RTO,
          retransmit_at |-> "None", retransmit_count |-> 0,
          send_buffer |-> <<>>, recv_buffer |-> <<>>]

\* An OutgoingSegment (the destination port is the peer's throughout)
Seg(flags, seq, ack, payload) ==
    [flags |-> flags, seq |-> seq, ack |-> ack, payload |-> payload]

\* What a function leaves behind: the TCB and the segments to send
Step(t, out) == [tcb |-> t, out |-> out]

Has(h, f) == f \in h.flags
One(h, f) == IF f \in h.flags THEN 1 ELSE 0

\* The pure ACK that every accepting branch answers with
AckOf(t) == Seg({"ACK"}, t.snd_nxt, t.rcv_nxt, <<>>)

-----------------------------------------------------------------------------
(* process_existing_tcb: one operator per state *)

OnSynSent(t, h) ==
    IF Has(h, "SYN") /\ Has(h, "ACK")
    THEN IF h.ack = t.snd_nxt
         THEN LET u == [t EXCEPT !.irs = h.seq,
                                 !.rcv_nxt = Add(h.seq, 1),
                                 !.snd_una = h.ack,
                                 !.state = "Established",
                                 !.retransmit_at = "None",
                                 !.retransmit_count = 0]
              IN  Step(u, <<AckOf(u)>>)
         ELSE Step(t, <<>>)
    ELSE Step([t EXCEPT !.state = IF Has(h, "RST") THEN "Closed" ELSE @], <<>>)

\* Mutants: acknowledged bytes stay in the buffer; any ACK acknowledges all
EstablishedAck_no_trim(t, h) ==
    IF Has(h, "ACK") /\ h.ack = t.snd_nxt THEN [t EXCEPT !.snd_una = h.ack] ELSE t
EstablishedAck_any(t, h) ==
    IF Has(h, "ACK")
    THEN [t EXCEPT !.send_buffer = <<>>, !.snd_una = t.snd_nxt, !.retransmit_at = "None"]
    ELSE t

\* The ACK part of the Established arm.  The code compares the wrapping
\* difference with snd_nxt as an unsigned number, hence "<= 0".
EstablishedAck(t, h) ==
    LET acked == Sub(h.ack, t.snd_una)
        trim  == IF acked <= Len(t.send_buffer) THEN acked ELSE Len(t.send_buffer)
        done  == h.ack = t.snd_nxt
    IN  IF Has(h, "ACK") /\ acked > 0 /\ Sub(h.ack, t.snd_nxt) <= 0
        THEN [t EXCEPT !.send_buffer = SubSeq(@, trim + 1, Len(@)),
                       !.snd_una = h.ack,
                       !.retransmit_at = IF done THEN "None" ELSE @,
                       !.retransmit_count = IF done THEN 0 ELSE @]
        ELSE t

\* Mutant: the FIN takes no sequence number
OnEstablished_fin_free(t, h) ==
    LET u == EstablishedAck(t, h)
        v == [u EXCEPT !.recv_buffer = @ \o h.payload,
                       !.rcv_nxt = Add(h.seq, Len(h.payload)),
                       !.state = IF Has(h, "FIN") THEN "CloseWait" ELSE @]
    IN  IF (h.payload # <<>> \/ Has(h, "FIN")) /\ h.seq = u.rcv_nxt
        THEN Step(v, <<AckOf(v)>>)
        ELSE Step(u, <<>>)

OnEstablished(t, h) ==
    LET u   == EstablishedAck(t, h)
        len == Len(h.payload) + One(h, "SYN") + One(h, "FIN")
        v   == [u EXCEPT !.recv_buffer = @ \o h.payload,
                         !.rcv_nxt = Add(h.seq, len),
                         !.state = IF Has(h, "FIN") THEN "CloseWait" ELSE @]
    IN  IF len > 0 /\ h.seq = u.rcv_nxt
        THEN Step(v, <<AckOf(v)>>)
        ELSE Step(u, <<>>)

\* Mutant: payload is buffered wherever it starts
Buffered_any_order(t, h) ==
    IF h.payload # <<>>
    THEN [t EXCEPT !.recv_buffer = @ \o h.payload,
                   !.rcv_nxt = Add(@, Len(h.payload))]
    ELSE t

\* Payload that arrives in order is appended and rcv_nxt moves past it
Buffered(t, h) ==
    IF h.payload # <<>> /\ h.seq = t.rcv_nxt
    THEN [t EXCEPT !.recv_buffer = @ \o h.payload,
                   !.rcv_nxt = Add(@, Len(h.payload))]
    ELSE t

OnCloseWait(t, h) ==
    LET u == Buffered(t, h)
    IN  Step(u, IF u = t THEN <<>> ELSE <<AckOf(u)>>)

OnLastAck(t, h) ==
    Step(IF Has(h, "ACK")
         THEN [t EXCEPT !.state = "Closed", !.retransmit_at = "None"]
         ELSE t, <<>>)

\* A FIN moves rcv_nxt past the segment; its payload is not buffered
FinSeen(t, h, next) ==
    [t EXCEPT !.rcv_nxt = Add(h.seq, Len(h.payload) + 1), !.state = next]

OnFinWait1(t, h) ==
    LET fin   == Has(h, "FIN")
        acked == [t EXCEPT !.snd_una = h.ack,
                           !.retransmit_at = "None",
                           !.retransmit_count = 0]
        both  == [FinSeen(acked, h, "TimeWait") EXCEPT !.retransmit_at = "Some"]
        early == FinSeen(t, h, "Closing")
    IN  IF Has(h, "ACK")
        THEN IF h.ack = t.snd_nxt
             THEN IF fin
                  THEN Step(both, <<AckOf(both)>>)
                  ELSE Step(Buffered([acked EXCEPT !.state = "FinWait2"], h), <<>>)
             ELSE Step(Buffered(t, h), <<>>)
        ELSE IF fin
             THEN Step(early, <<AckOf(early)>>)
             ELSE Step(Buffered(t, h), <<>>)

OnFinWait2(t, h) ==
    LET u == [FinSeen(t, h, "TimeWait") EXCEPT !.retransmit_at = "Some"]
    IN  IF Has(h, "FIN") /\ h.seq = t.rcv_nxt
        THEN Step(u, <<AckOf(u)>>)
        ELSE Step(Buffered(t, h), <<>>)

OnClosing(t, h) ==
    Step(IF Has(h, "ACK") /\ h.ack = t.snd_nxt
         THEN [t EXCEPT !.state = "TimeWait",
                        !.retransmit_at = "Some",
                        !.retransmit_count = 0]
         ELSE t, <<>>)

process_existing_tcb(t, h) ==
    CASE t.state = "SynSent"     -> OnSynSent(t, h)
      [] t.state = "Established" -> OnEstablished(t, h)
      [] t.state = "CloseWait"   -> OnCloseWait(t, h)
      [] t.state = "LastAck"     -> OnLastAck(t, h)
      [] t.state = "FinWait1"    -> OnFinWait1(t, h)
      [] t.state = "FinWait2"    -> OnFinWait2(t, h)
      [] t.state = "Closing"     -> OnClosing(t, h)
      [] OTHER                   -> Step(t, <<>>)

-----------------------------------------------------------------------------
(* Retransmission *)

\* Mutants: the offset counts from iss; the FIN is sent again at snd_nxt
build_retransmit_from_iss(t) ==
    IF t.state = "SynSent" THEN Seg({"SYN"}, t.iss, 0, <<>>)
    ELSE Seg({"PSH", "ACK"}, t.snd_una, t.rcv_nxt,
             SubSeq(t.send_buffer, Sub(t.snd_una, t.iss) + 1, Len(t.send_buffer)))
build_retransmit_fin_at_nxt(t) ==
    IF t.state \in {"FinWait1", "LastAck", "Closing"}
    THEN Seg({"FIN", "ACK"}, t.snd_nxt, t.rcv_nxt, <<>>)
    ELSE Seg({"ACK"}, t.snd_una, t.rcv_nxt, <<>>)

build_retransmit(t) ==
    LET offset  == Sub(t.snd_una, Add(t.iss, 1))
        payload == IF offset < Len(t.send_buffer)
                   THEN SubSeq(t.send_buffer, offset + 1, Len(t.send_buffer))
                   ELSE <<>>
    IN  CASE t.state = "SynSent" -> Seg({"SYN"}, t.iss, 0, <<>>)
          [] t.state \in {"Established", "CloseWait"} ->
                Seg(IF payload = <<>> THEN {"ACK"} ELSE {"PSH", "ACK"},
                    t.snd_una, t.rcv_nxt, payload)
          [] t.state \in {"FinWait1", "LastAck", "Closing"} ->
                Seg({"FIN", "ACK"}, Sub(t.snd_nxt, 1), t.rcv_nxt, <<>>)
          [] OTHER -> Seg({"ACK"}, t.snd_una, t.rcv_nxt, <<>>)

\* Mutants: one retransmission too many; the count never grows
Expire_off_by_one(t, due) ==
    IF ~due THEN Step(t, <<>>)
    ELSE IF t.retransmit_count > MAX_RETRANSMITS
         THEN Step([t EXCEPT !.state = "Closed"], <<>>)
         ELSE Step([t EXCEPT !.retransmit_count = @ + 1], <<build_retransmit(t)>>)
Expire_uncounted(t, due) ==
    IF ~due THEN Step(t, <<>>) ELSE Step(t, <<build_retransmit(t)>>)

\* The first loop of poll_retransmit for one TCB: due says that a deadline is
\* set and has passed
Expire(t, due) ==
    LET rearmed == [t EXCEPT !.retransmit_at = "Some",
                             !.rto = IF 2 * @ <= MAX_RTO THEN 2 * @ ELSE MAX_RTO,
                             !.retransmit_count = @ + 1]
    IN  IF ~due
        THEN Step(t, <<>>)
        ELSE IF t.retransmit_count >= MAX_RETRANSMITS
             THEN Step([t EXCEPT !.state = "Closed"], <<>>)
             ELSE Step(rearmed, <<build_retransmit(rearmed)>>)

\* Mutant: a closed connection stays in the table
Retain_all(t) == t

\* The retain that follows it.  A TimeWait whose deadline has passed was
\* re-armed by the loop (or killed), so only Closed is ever removed.
Retain(t) == IF t.state = "Closed" THEN NoTcb ELSE t

\* Both: the TCB that remains in the table and the segments to send
poll_retransmit(t, due) ==
    LET e == Expire(t, due) IN Step(Retain(e.tcb), e.out)

\* send_frame starts the timer for every segment that belongs to a
\* connection still in the table
record_sent(t) ==
    IF t.state # "Absent" /\ t.retransmit_at = "None"
    THEN [t EXCEPT !.retransmit_at = "Some"]
    ELSE t

\* send_segments_with_key: the TCB once the segments of a step are sent
Sent(s) == IF s.out = <<>> THEN s.tcb ELSE record_sent(s.tcb)

-----------------------------------------------------------------------------
(* Calls of the application *)

\* A new TCB in SynSent and its SYN
initiate_connect(iss) ==
    Step([NoTcb EXCEPT !.state = "SynSent",
                       !.iss = iss,
                       !.snd_una = iss,
                       !.snd_nxt = Add(iss, 1),
                       !.retransmit_at = "Some"],
         <<Seg({"SYN"}, iss, 0, <<>>)>>)

\* socket::send: nothing happens unless the connection is Established
socket_send(t, data) ==
    IF t.state # "Established"
    THEN Step(t, <<>>)
    ELSE Step([t EXCEPT !.snd_nxt = Add(@, Len(data)),
                        !.send_buffer = @ \o data],
              <<Seg({"PSH", "ACK"}, t.snd_nxt, t.rcv_nxt, data)>>)

\* Mutant: the buffer is read and not emptied
drain_data_keeps(t) == t

\* drain_data: the TCB once its receive buffer is handed to the application
drain_data(t) == [t EXCEPT !.recv_buffer = <<>>]

\* Send our FIN and enter the state given
SendFin(t, next) ==
    Step([t EXCEPT !.state = next,
                   !.snd_nxt = Add(@, 1),
                   !.retransmit_at = "Some"],
         <<Seg({"FIN", "ACK"}, t.snd_nxt, t.rcv_nxt, <<>>)>>)

close(t) ==
    CASE t.state = "Established" -> SendFin(t, "FinWait1")
      [] t.state = "CloseWait"   -> SendFin(t, "LastAck")
      [] t.state \in {"Absent", "Closed", "TimeWait"} -> Step(t, <<>>)
      [] OTHER -> Step([t EXCEPT !.state = "Closed"],
                       <<Seg({"RST"}, t.snd_nxt, 0, <<>>)>>)
=============================================================================
