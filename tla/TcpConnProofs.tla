--------------------------- MODULE TcpConnProofs ---------------------------
(***************************************************************************)
(* Facts about the operators of Tcp: arithmetic of sequence numbers, and   *)
(* that every function of tcp.rs takes a TCB to a TCB and sends segments;  *)
(* and about TcpConn for every size of the sequence space, every stream    *)
(* length and every initial sequence number: the shape of what the peer    *)
(* may send, type correctness, the receiving side, that it implements      *)
(* ByteStream, and the sending side.                                       *)
(***************************************************************************)
EXTENDS TcpConn, SequenceTheorems, TLAPS

-----------------------------------------------------------------------------
(* Sequence numbers *)

\* Adding at most one sequence space to a sequence number gives one.
LEMMA AddType ==
    ASSUME NEW a \in SeqNum, NEW n \in 0 .. M
    PROVE  Add(a, n) \in SeqNum
  BY TcpAssumption DEF Add, SeqNum

\* The wrapping difference of two sequence numbers is one.
LEMMA SubType ==
    ASSUME NEW a \in SeqNum, NEW b \in SeqNum
    PROVE  Sub(a, b) \in SeqNum
  BY TcpAssumption DEF Sub, SeqNum

\* Offsets smaller than the sequence space are told apart.
LEMMA AddInjective ==
    ASSUME NEW a \in SeqNum, NEW m \in 0 .. M - 1, NEW n \in 0 .. M - 1,
           Add(a, m) = Add(a, n)
    PROVE  m = n
  BY TcpAssumption DEF Add, SeqNum

\* Moving on from an offset is moving to the sum of the offsets.
LEMMA AddAdd ==
    ASSUME NEW a \in SeqNum, NEW m \in 0 .. M - 1, NEW n \in 0 .. M - 1, m + n < M
    PROVE  Add(Add(a, m), n) = Add(a, m + n)
  BY TcpAssumption DEF Add, SeqNum

-----------------------------------------------------------------------------
(* Types *)

StepType == [tcb : Tcb, out : Seq(Segment)]

\* A segment short enough not to wrap around the sequence space.  Nothing is
\* asked of its acknowledgement: the code takes no value it did not compare.
Short(h) ==
    /\ h.seq \in SeqNum
    /\ h.ack \in Nat
    /\ h.payload \in Seq(Nat)
    /\ Len(h.payload) + 2 <= M

\* The fields of a segment that fits, and the lengths the code adds up.
LEMMA ShortFields ==
    ASSUME NEW h, Short(h)
    PROVE  /\ h.seq \in SeqNum /\ h.ack \in Nat /\ h.payload \in Seq(Nat)
           /\ Len(h.payload) \in 0 .. M
           /\ Len(h.payload) + 1 \in 0 .. M
           /\ Len(h.payload) + One(h, "SYN") + One(h, "FIN") \in 0 .. M
           /\ 1 \in 0 .. M
<1>1. h.seq \in SeqNum /\ h.ack \in Nat /\ h.payload \in Seq(Nat)
  BY DEF Short
<1>2. Len(h.payload) \in Nat
  BY <1>1
<1>3. Len(h.payload) + 2 <= M
  BY DEF Short
<1>4. One(h, "SYN") \in {0, 1} /\ One(h, "FIN") \in {0, 1}
  BY DEF One
<1>5. QED BY <1>1, <1>2, <1>3, <1>4, TcpAssumption

\* The fields of a TCB.
LEMMA TcbFields ==
    ASSUME NEW t \in Tcb
    PROVE  /\ t.state \in TcpState \cup {"Absent"}
           /\ t.iss \in SeqNum /\ t.snd_una \in SeqNum /\ t.snd_nxt \in SeqNum
           /\ t.irs \in SeqNum /\ t.rcv_nxt \in SeqNum
           /\ t.rto \in INITIAL_RTO .. MAX_RTO
           /\ t.retransmit_at \in {"None", "Some"}
           /\ t.retransmit_count \in 0 .. MAX_RETRANSMITS
           /\ t.send_buffer \in Seq(Nat) /\ t.recv_buffer \in Seq(Nat)
  BY DEF Tcb

\* The values the code writes into a TCB.
LEMMA Constants ==
    /\ \A s \in TcpState : s \in TcpState \cup {"Absent"}
    /\ {"SynSent", "Established", "FinWait1", "FinWait2", "CloseWait",
        "Closing", "LastAck", "TimeWait", "Closed"} \subseteq TcpState
    /\ "None" \in {"None", "Some"} /\ "Some" \in {"None", "Some"}
    /\ 0 \in 0 .. MAX_RETRANSMITS
    /\ 0 \in SeqNum /\ 1 \in 0 .. M
    /\ <<>> \in Seq(Nat)
  BY TcpAssumption DEF TcpState, SeqNum

\* Appending bytes to bytes gives bytes.
LEMMA ConcatType ==
    ASSUME NEW a \in Seq(Nat), NEW b \in Seq(Nat)
    PROVE  a \o b \in Seq(Nat)
  BY ConcatProperties

\* A segment built from values of the right types is one.
LEMMA SegType ==
    ASSUME NEW fl \in SUBSET Flag, NEW a \in SeqNum, NEW b \in SeqNum, NEW p \in Seq(Nat)
    PROVE  Seg(fl, a, b, p) \in Segment
  BY DEF Seg, Segment

\* A step that sends nothing.
LEMMA StepNone ==
    ASSUME NEW t \in Tcb
    PROVE  Step(t, <<>>) \in StepType
  BY DEF Step, StepType

\* A step that sends one segment.
LEMMA StepOne ==
    ASSUME NEW t \in Tcb, NEW g \in Segment
    PROVE  Step(t, <<g>>) \in StepType
  BY DEF Step, StepType

\* The pure ACK is a segment.
LEMMA AckOfType ==
    ASSUME NEW t \in Tcb
    PROVE  AckOf(t) \in Segment
  BY DEF AckOf, Seg, Segment, Tcb, Flag

\* A step that sends the pure ACK.
LEMMA StepAck ==
    ASSUME NEW t \in Tcb
    PROVE  Step(t, <<AckOf(t)>>) \in StepType
  BY AckOfType, StepOne

\* The entry that stands for no connection is a TCB.
LEMMA NoTcbType == NoTcb \in Tcb
  BY TcpAssumption DEF NoTcb, Tcb, TcpState, SeqNum

-----------------------------------------------------------------------------
(* Updates of a TCB: the combinations of fields the functions write *)

\* The state alone.
LEMMA WithState ==
    ASSUME NEW t \in Tcb, NEW s \in TcpState
    PROVE  [t EXCEPT !.state = s] \in Tcb
  BY DEF Tcb

\* The deadline alone.
LEMMA WithTimer ==
    ASSUME NEW t \in Tcb, NEW r \in {"None", "Some"}
    PROVE  [t EXCEPT !.retransmit_at = r] \in Tcb
  BY DEF Tcb

\* State and deadline.
LEMMA WithStateTimer ==
    ASSUME NEW t \in Tcb, NEW s \in TcpState, NEW r \in {"None", "Some"}
    PROVE  [t EXCEPT !.state = s, !.retransmit_at = r] \in Tcb
  BY DEF Tcb

\* State, deadline and count.
LEMMA WithStateTimerCount ==
    ASSUME NEW t \in Tcb, NEW s \in TcpState, NEW r \in {"None", "Some"},
           NEW k \in 0 .. MAX_RETRANSMITS
    PROVE  [t EXCEPT !.state = s, !.retransmit_at = r, !.retransmit_count = k] \in Tcb
  BY DEF Tcb

\* An acknowledgement: snd_una, deadline and count.
LEMMA WithUna ==
    ASSUME NEW t \in Tcb, NEW a \in SeqNum, NEW r \in {"None", "Some"},
           NEW k \in 0 .. MAX_RETRANSMITS
    PROVE  [t EXCEPT !.snd_una = a, !.retransmit_at = r, !.retransmit_count = k] \in Tcb
  BY DEF Tcb

\* An acknowledgement that trims the send buffer.
LEMMA WithTrim ==
    ASSUME NEW t \in Tcb, NEW b \in Seq(Nat), NEW a \in SeqNum, NEW r \in {"None", "Some"},
           NEW k \in 0 .. MAX_RETRANSMITS
    PROVE  [t EXCEPT !.send_buffer = b, !.snd_una = a, !.retransmit_at = r,
                     !.retransmit_count = k] \in Tcb
  BY DEF Tcb

\* The handshake.
LEMMA WithHandshake ==
    ASSUME NEW t \in Tcb, NEW i \in SeqNum, NEW n \in SeqNum, NEW a \in SeqNum,
           NEW s \in TcpState, NEW r \in {"None", "Some"}, NEW k \in 0 .. MAX_RETRANSMITS
    PROVE  [t EXCEPT !.irs = i, !.rcv_nxt = n, !.snd_una = a, !.state = s,
                     !.retransmit_at = r, !.retransmit_count = k] \in Tcb
  BY DEF Tcb

\* Received data and the next number expected.
LEMMA WithData ==
    ASSUME NEW t \in Tcb, NEW b \in Seq(Nat), NEW n \in SeqNum
    PROVE  [t EXCEPT !.recv_buffer = b, !.rcv_nxt = n] \in Tcb
  BY DEF Tcb

\* Received data, the next number expected and the state.
LEMMA WithDataState ==
    ASSUME NEW t \in Tcb, NEW b \in Seq(Nat), NEW n \in SeqNum, NEW s \in TcpState \cup {"Absent"}
    PROVE  [t EXCEPT !.recv_buffer = b, !.rcv_nxt = n, !.state = s] \in Tcb
  BY DEF Tcb

\* The next number expected and the state.
LEMMA WithFin ==
    ASSUME NEW t \in Tcb, NEW n \in SeqNum, NEW s \in TcpState
    PROVE  [t EXCEPT !.rcv_nxt = n, !.state = s] \in Tcb
  BY DEF Tcb

-----------------------------------------------------------------------------
(* The arms of process_existing_tcb *)

\* SynSent.
LEMMA OnSynSentType ==
    ASSUME NEW t \in Tcb, NEW h, Short(h)
    PROVE  OnSynSent(t, h) \in StepType
<1> DEFINE u == [t EXCEPT !.irs = h.seq, !.rcv_nxt = Add(h.seq, 1), !.snd_una = h.ack,
                          !.state = "Established", !.retransmit_at = "None",
                          !.retransmit_count = 0]
           s == IF Has(h, "RST") THEN "Closed" ELSE t.state
           c == [t EXCEPT !.state = s]
<1>1. h.seq \in SeqNum /\ Add(h.seq, 1) \in SeqNum
  BY AddType, ShortFields
<1>2. h.ack = t.snd_nxt => u \in Tcb
  BY <1>1, Constants, TcbFields, WithHandshake
<1>3. c \in Tcb
  <2>1. s \in TcpState \cup {"Absent"}
    BY Constants, TcbFields
  <2> HIDE DEF s
  <2>2. QED BY <2>1 DEF Tcb
<1>4. h.ack = t.snd_nxt => Step(u, <<AckOf(u)>>) \in StepType
  <2> HIDE DEF u
  <2> QED BY <1>2, StepAck
<1>5. Step(c, <<>>) \in StepType /\ Step(t, <<>>) \in StepType
  <2> HIDE DEF c
  <2> QED BY <1>3, StepNone
<1>6. QED BY <1>4, <1>5 DEF OnSynSent

\* The acknowledgement of Established: the buffer is trimmed by no more than
\* it holds.
LEMMA EstablishedAckType ==
    ASSUME NEW t \in Tcb, NEW h, Short(h)
    PROVE  EstablishedAck(t, h) \in Tcb
<1> DEFINE acked == Sub(h.ack, t.snd_una)
           trim == IF acked <= Len(t.send_buffer) THEN acked ELSE Len(t.send_buffer)
           rest == SubSeq(t.send_buffer, trim + 1, Len(t.send_buffer))
           r == IF h.ack = t.snd_nxt THEN "None" ELSE t.retransmit_at
           k == IF h.ack = t.snd_nxt THEN 0 ELSE t.retransmit_count
<1>0. t.send_buffer \in Seq(Nat) /\ h.ack \in Nat /\ t.snd_una \in SeqNum /\ t.snd_nxt \in SeqNum
  BY TcbFields, ShortFields
<1>1. acked \in Nat /\ trim \in 0 .. Len(t.send_buffer)
  <2>1. acked \in Nat
    BY <1>0, TcpAssumption DEF Sub, SeqNum
  <2>2. Len(t.send_buffer) \in Nat
    BY <1>0
  <2> HIDE DEF acked
  <2>3. QED BY <2>1, <2>2
<1>2. rest \in Seq(Nat)
  <2>1. \A i \in trim + 1 .. Len(t.send_buffer) : t.send_buffer[i] \in Nat
    BY <1>0, <1>1
  <2> HIDE DEF trim
  <2>2. QED BY <1>0, <1>1, <2>1, SubSeqProperties
<1>3. r \in {"None", "Some"} /\ k \in 0 .. MAX_RETRANSMITS
  BY TcbFields, Constants
<1>4. Sub(h.ack, t.snd_nxt) <= 0 => h.ack \in SeqNum
  BY <1>0, TcpAssumption DEF Sub, SeqNum
<1>5. Sub(h.ack, t.snd_nxt) <= 0 =>
        [t EXCEPT !.send_buffer = rest, !.snd_una = h.ack, !.retransmit_at = r,
                  !.retransmit_count = k] \in Tcb
  <2> HIDE DEF rest, r, k
  <2> QED BY <1>2, <1>3, <1>4, WithTrim
<1>6. QED BY <1>5 DEF EstablishedAck

\* Established.
LEMMA OnEstablishedType ==
    ASSUME NEW t \in Tcb, NEW h, Short(h)
    PROVE  OnEstablished(t, h) \in StepType
<1> DEFINE u == EstablishedAck(t, h)
           len == Len(h.payload) + One(h, "SYN") + One(h, "FIN")
           s == IF Has(h, "FIN") THEN "CloseWait" ELSE u.state
           b == u.recv_buffer \o h.payload
           n == Add(h.seq, len)
           v == [u EXCEPT !.recv_buffer = b, !.rcv_nxt = n, !.state = s]
<1>1. u \in Tcb
  BY EstablishedAckType
<1>2. n \in SeqNum
  BY AddType, ShortFields
<1>3. b \in Seq(Nat) /\ s \in TcpState \cup {"Absent"}
  <2> HIDE DEF u
  <2> QED BY <1>1, TcbFields, ShortFields, ConcatType, Constants
<1>4. v \in Tcb
  <2> HIDE DEF u, b, n, s
  <2> QED BY <1>1, <1>2, <1>3, WithDataState
<1>5. Step(v, <<AckOf(v)>>) \in StepType
  <2> HIDE DEF v
  <2> QED BY <1>4, StepAck
<1>6. Step(u, <<>>) \in StepType
  <2> HIDE DEF u
  <2> QED BY <1>1, StepNone
<1>7. QED BY <1>5, <1>6 DEF OnEstablished

\* Payload in order.
LEMMA BufferedType ==
    ASSUME NEW t \in Tcb, NEW h, Short(h)
    PROVE  Buffered(t, h) \in Tcb
<1>1. Add(t.rcv_nxt, Len(h.payload)) \in SeqNum
  BY AddType, TcbFields, ShortFields
<1>2. t.recv_buffer \o h.payload \in Seq(Nat)
  BY ConcatType, TcbFields, ShortFields
<1>3. QED BY <1>1, <1>2, WithData DEF Buffered

\* CloseWait.
LEMMA OnCloseWaitType ==
    ASSUME NEW t \in Tcb, NEW h, Short(h)
    PROVE  OnCloseWait(t, h) \in StepType
  BY BufferedType, StepAck, StepNone DEF OnCloseWait

\* LastAck.
LEMMA OnLastAckType ==
    ASSUME NEW t \in Tcb, NEW h
    PROVE  OnLastAck(t, h) \in StepType
<1>1. [t EXCEPT !.state = "Closed", !.retransmit_at = "None"] \in Tcb
  BY Constants, WithStateTimer
<1>2. QED BY <1>1, StepNone DEF OnLastAck

\* A FIN.
LEMMA FinSeenType ==
    ASSUME NEW t \in Tcb, NEW h, Short(h), NEW next \in TcpState
    PROVE  FinSeen(t, h, next) \in Tcb
<1>1. Add(h.seq, Len(h.payload) + 1) \in SeqNum
  BY AddType, ShortFields
<1>2. QED BY <1>1, WithFin DEF FinSeen

\* FinWait1.
LEMMA OnFinWait1Type ==
    ASSUME NEW t \in Tcb, NEW h, Short(h)
    PROVE  OnFinWait1(t, h) \in StepType
<1> DEFINE acked == [t EXCEPT !.snd_una = h.ack, !.retransmit_at = "None", !.retransmit_count = 0]
           both  == [FinSeen(acked, h, "TimeWait") EXCEPT !.retransmit_at = "Some"]
           early == FinSeen(t, h, "Closing")
           moved == [acked EXCEPT !.state = "FinWait2"]
           new   == h.ack = t.snd_nxt
<1>1. new => acked \in Tcb
  BY TcbFields, Constants, WithUna
<1> HIDE DEF acked, new
<1>2. new => both \in Tcb
  <2>1. new => FinSeen(acked, h, "TimeWait") \in Tcb
    BY <1>1, FinSeenType, Constants
  <2>2. QED BY <2>1, WithTimer, Constants
<1>3. early \in Tcb
  BY FinSeenType, Constants
<1>4. new => Buffered(moved, h) \in Tcb
  <2>1. new => moved \in Tcb
    BY <1>1, WithState, Constants
  <2> HIDE DEF moved
  <2>2. QED BY <2>1, BufferedType
<1>5. Buffered(t, h) \in Tcb
  BY BufferedType
<1> HIDE DEF both, early, moved
<1>6. /\ new => Step(both, <<AckOf(both)>>) \in StepType
      /\ Step(early, <<AckOf(early)>>) \in StepType
      /\ new => Step(Buffered(moved, h), <<>>) \in StepType
      /\ Step(Buffered(t, h), <<>>) \in StepType
  BY <1>2, <1>3, <1>4, <1>5, StepAck, StepNone
<1>7. QED BY <1>6 DEF OnFinWait1, acked, both, early, moved, new

\* FinWait2.
LEMMA OnFinWait2Type ==
    ASSUME NEW t \in Tcb, NEW h, Short(h)
    PROVE  OnFinWait2(t, h) \in StepType
<1> DEFINE u == [FinSeen(t, h, "TimeWait") EXCEPT !.retransmit_at = "Some"]
<1>1. FinSeen(t, h, "TimeWait") \in Tcb
  BY FinSeenType, Constants
<1>2. u \in Tcb
  BY <1>1, WithTimer, Constants
<1>3. Step(u, <<AckOf(u)>>) \in StepType /\ Step(Buffered(t, h), <<>>) \in StepType
  <2> HIDE DEF u
  <2> QED BY <1>2, BufferedType, StepAck, StepNone
<1>4. QED BY <1>3 DEF OnFinWait2

\* Closing.
LEMMA OnClosingType ==
    ASSUME NEW t \in Tcb, NEW h
    PROVE  OnClosing(t, h) \in StepType
<1>1. [t EXCEPT !.state = "TimeWait", !.retransmit_at = "Some", !.retransmit_count = 0] \in Tcb
  BY Constants, WithStateTimerCount
<1>2. QED BY <1>1, StepNone DEF OnClosing

\* Handling a segment leaves a TCB and sends segments, in every state.
LEMMA ProcessType ==
    ASSUME NEW t \in Tcb, NEW h, Short(h)
    PROVE  process_existing_tcb(t, h) \in StepType
  BY OnSynSentType, OnEstablishedType, OnCloseWaitType, OnLastAckType, OnFinWait1Type,
     OnFinWait2Type, OnClosingType, StepNone
     DEF process_existing_tcb

-----------------------------------------------------------------------------
(* Retransmission and the calls of the application *)

\* A retransmission is a segment: the offset into the send buffer is checked
\* against its length.
LEMMA BuildRetransmitType ==
    ASSUME NEW t \in Tcb
    PROVE  build_retransmit(t) \in Segment
<1> DEFINE offset == Sub(t.snd_una, Add(t.iss, 1))
           payload == IF offset < Len(t.send_buffer)
                      THEN SubSeq(t.send_buffer, offset + 1, Len(t.send_buffer))
                      ELSE <<>>
<1>1. /\ t.send_buffer \in Seq(Nat) /\ t.iss \in SeqNum /\ t.snd_una \in SeqNum
      /\ t.snd_nxt \in SeqNum /\ t.rcv_nxt \in SeqNum
  BY TcbFields
<1>2. offset \in Nat
  <2>1. Add(t.iss, 1) \in SeqNum
    BY <1>1, AddType, Constants
  <2>2. offset \in SeqNum
    BY <1>1, <2>1, SubType
  <2> HIDE DEF offset
  <2>3. QED BY <2>2 DEF SeqNum
<1>3. payload \in Seq(Nat)
  <2> HIDE DEF offset
  <2>1. CASE offset < Len(t.send_buffer)
    <3>1. \A i \in offset + 1 .. Len(t.send_buffer) : t.send_buffer[i] \in Nat
      BY <1>1, <1>2
    <3>2. SubSeq(t.send_buffer, offset + 1, Len(t.send_buffer)) \in Seq(Nat)
      BY <1>1, <1>2, <2>1, <3>1, SubSeqProperties
    <3>3. QED BY <2>1, <3>2
  <2>2. CASE ~(offset < Len(t.send_buffer))
    BY <2>2, Constants
  <2>3. QED BY <2>1, <2>2
<1>4. Sub(t.snd_nxt, 1) \in SeqNum
  BY <1>1, TcpAssumption DEF Sub, SeqNum
<1>5. /\ Seg({"SYN"}, t.iss, 0, <<>>) \in Segment
      /\ Seg(IF payload = <<>> THEN {"ACK"} ELSE {"PSH", "ACK"}, t.snd_una, t.rcv_nxt, payload)
            \in Segment
      /\ Seg({"FIN", "ACK"}, Sub(t.snd_nxt, 1), t.rcv_nxt, <<>>) \in Segment
      /\ Seg({"ACK"}, t.snd_una, t.rcv_nxt, <<>>) \in Segment
  <2> HIDE DEF payload
  <2>1. /\ {"SYN"} \in SUBSET Flag /\ {"ACK"} \in SUBSET Flag
        /\ {"PSH", "ACK"} \in SUBSET Flag /\ {"FIN", "ACK"} \in SUBSET Flag
    BY DEF Flag
  <2>2. (IF payload = <<>> THEN {"ACK"} ELSE {"PSH", "ACK"}) \in SUBSET Flag
    BY <2>1
  <2>3. QED BY <1>1, <1>3, <1>4, <2>1, <2>2, SegType, Constants
<1>6. QED BY <1>5 DEF build_retransmit

\* The expiry of a deadline: the count and the timeout stay within their
\* limits.
LEMMA ExpireType ==
    ASSUME NEW t \in Tcb, NEW due \in BOOLEAN
    PROVE  Expire(t, due) \in StepType
<1> DEFINE r == IF 2 * t.rto <= MAX_RTO THEN 2 * t.rto ELSE MAX_RTO
           rearmed == [t EXCEPT !.retransmit_at = "Some", !.rto = r,
                                !.retransmit_count = t.retransmit_count + 1]
<1>1. r \in INITIAL_RTO .. MAX_RTO
  BY TcbFields, TcpAssumption
<1>2. CASE t.retransmit_count < MAX_RETRANSMITS
  <2>1. t.retransmit_count + 1 \in 0 .. MAX_RETRANSMITS
    BY <1>2, TcbFields, TcpAssumption
  <2>2. ASSUME NEW k \in 0 .. MAX_RETRANSMITS, NEW q \in INITIAL_RTO .. MAX_RTO,
               NEW a \in {"None", "Some"}
        PROVE  [t EXCEPT !.retransmit_at = a, !.rto = q, !.retransmit_count = k] \in Tcb
    BY DEF Tcb
  <2>3. rearmed \in Tcb
    <3> HIDE DEF r
    <3> QED BY <1>1, <2>1, <2>2, Constants
  <2>4. Step(rearmed, <<build_retransmit(rearmed)>>) \in StepType
    <3> HIDE DEF rearmed
    <3> QED BY <2>3, BuildRetransmitType, StepOne
  <2>5. ~(t.retransmit_count >= MAX_RETRANSMITS)
    BY <1>2, TcbFields, TcpAssumption
  <2>6. QED BY <2>4, <2>5, StepNone DEF Expire
<1>3. CASE t.retransmit_count >= MAX_RETRANSMITS
  <2>1. [t EXCEPT !.state = "Closed"] \in Tcb
    BY WithState, Constants
  <2>2. QED BY <1>3, <2>1, StepNone DEF Expire
<1>4. QED BY <1>2, <1>3, TcbFields, TcpAssumption

\* The retransmission pass.
LEMMA PollType ==
    ASSUME NEW t \in Tcb, NEW due \in BOOLEAN
    PROVE  poll_retransmit(t, due) \in StepType
<1> DEFINE e == Expire(t, due)
<1>1. e \in StepType
  BY ExpireType
<1>2. Retain(e.tcb) \in Tcb /\ e.out \in Seq(Segment)
  <2> HIDE DEF e
  <2> QED BY <1>1, NoTcbType DEF StepType, Retain
<1>3. QED
  <2> HIDE DEF e
  <2>1. Step(Retain(e.tcb), e.out) \in StepType
    BY <1>2 DEF Step, StepType
  <2>2. QED BY <2>1 DEF poll_retransmit, e

\* Sending the segments of a step.
LEMMA SentType ==
    ASSUME NEW s \in StepType
    PROVE  Sent(s) \in Tcb
<1>1. s.tcb \in Tcb
  BY DEF StepType
<1>2. record_sent(s.tcb) \in Tcb
  BY <1>1, WithTimer, Constants DEF record_sent
<1>3. QED BY <1>1, <1>2 DEF Sent

\* connect.
LEMMA ConnectType ==
    ASSUME NEW iss \in SeqNum
    PROVE  initiate_connect(iss) \in StepType
<1> DEFINE t == [NoTcb EXCEPT !.state = "SynSent", !.iss = iss, !.snd_una = iss,
                              !.snd_nxt = Add(iss, 1), !.retransmit_at = "Some"]
<1>1. Add(iss, 1) \in SeqNum
  BY AddType, Constants
<1>2. ASSUME NEW s \in TcpState, NEW a \in SeqNum, NEW b \in SeqNum, NEW c \in SeqNum,
             NEW r \in {"None", "Some"}, NEW u \in Tcb
      PROVE  [u EXCEPT !.state = s, !.iss = a, !.snd_una = b, !.snd_nxt = c,
                       !.retransmit_at = r] \in Tcb
  BY DEF Tcb
<1>3. t \in Tcb
  BY <1>1, <1>2, NoTcbType, Constants
<1>4. Seg({"SYN"}, iss, 0, <<>>) \in Segment
  <2>1. {"SYN"} \in SUBSET Flag
    BY DEF Flag
  <2>2. QED BY <2>1, SegType, Constants
<1>5. Step(t, <<Seg({"SYN"}, iss, 0, <<>>)>>) \in StepType
  <2> HIDE DEF t
  <2> QED BY <1>3, <1>4, StepOne
<1>6. QED BY <1>5 DEF initiate_connect

\* send.
LEMMA SendType ==
    ASSUME NEW t \in Tcb, NEW data \in Seq(Nat), Len(data) <= M
    PROVE  socket_send(t, data) \in StepType
<1>1. Len(data) \in 0 .. M
  BY TcpAssumption
<1>2. Add(t.snd_nxt, Len(data)) \in SeqNum /\ t.send_buffer \o data \in Seq(Nat)
  BY <1>1, AddType, ConcatType, TcbFields
<1>3. ASSUME NEW n \in SeqNum, NEW b \in Seq(Nat)
      PROVE  [t EXCEPT !.snd_nxt = n, !.send_buffer = b] \in Tcb
  BY DEF Tcb
<1>4. [t EXCEPT !.snd_nxt = Add(t.snd_nxt, Len(data)), !.send_buffer = t.send_buffer \o data] \in Tcb
  BY <1>2, <1>3
<1>5. Seg({"PSH", "ACK"}, t.snd_nxt, t.rcv_nxt, data) \in Segment
  <2>1. {"PSH", "ACK"} \in SUBSET Flag
    BY DEF Flag
  <2>2. QED BY <2>1, SegType, TcbFields
<1>6. QED BY <1>4, <1>5, StepOne, StepNone DEF socket_send

\* recv.
LEMMA DrainType ==
    ASSUME NEW t \in Tcb
    PROVE  drain_data(t) \in Tcb
<1>1. ASSUME NEW b \in Seq(Nat)
      PROVE  [t EXCEPT !.recv_buffer = b] \in Tcb
  BY DEF Tcb
<1>2. QED BY <1>1, Constants DEF drain_data

\* Our FIN.
LEMMA SendFinType ==
    ASSUME NEW t \in Tcb, NEW next \in TcpState
    PROVE  SendFin(t, next) \in StepType
<1>1. Add(t.snd_nxt, 1) \in SeqNum
  BY AddType, TcbFields, Constants
<1>2. ASSUME NEW n \in SeqNum, NEW r \in {"None", "Some"}
      PROVE  [t EXCEPT !.state = next, !.snd_nxt = n, !.retransmit_at = r] \in Tcb
  BY DEF Tcb
<1>3. [t EXCEPT !.state = next, !.snd_nxt = Add(t.snd_nxt, 1), !.retransmit_at = "Some"] \in Tcb
  BY <1>1, <1>2, Constants
<1>4. Seg({"FIN", "ACK"}, t.snd_nxt, t.rcv_nxt, <<>>) \in Segment
  <2>1. {"FIN", "ACK"} \in SUBSET Flag
    BY DEF Flag
  <2>2. QED BY <2>1, SegType, TcbFields, Constants
<1>5. QED BY <1>3, <1>4, StepOne DEF SendFin

\* close.
LEMMA CloseType ==
    ASSUME NEW t \in Tcb
    PROVE  close(t) \in StepType
<1>1. [t EXCEPT !.state = "Closed"] \in Tcb
  BY WithState, Constants
<1>2. Seg({"RST"}, t.snd_nxt, 0, <<>>) \in Segment
  <2>1. {"RST"} \in SUBSET Flag
    BY DEF Flag
  <2>2. QED BY <2>1, SegType, TcbFields, Constants
<1>3. SendFin(t, "FinWait1") \in StepType /\ SendFin(t, "LastAck") \in StepType
  BY SendFinType, Constants
<1>4. QED BY <1>1, <1>2, <1>3, StepOne, StepNone DEF close

-----------------------------------------------------------------------------
(* Stretches of a stream *)

\* A stretch is a sequence of its length whose elements are its positions.
LEMMA BytesType ==
    ASSUME NEW i \in Nat \ {0}, NEW n \in Nat
    PROVE  /\ Bytes(i, n) \in Seq(Nat)
           /\ Len(Bytes(i, n)) = n
           /\ \A k \in 1 .. n : Bytes(i, n)[k] = i + k - 1
  BY DEF Bytes

\* Two stretches that meet are one.
LEMMA BytesConcat ==
    ASSUME NEW i \in Nat \ {0}, NEW m \in Nat, NEW n \in Nat
    PROVE  Bytes(i, m) \o Bytes(i + m, n) = Bytes(i, m + n)
<1> DEFINE a == Bytes(i, m)
           b == Bytes(i + m, n)
           s == a \o b
           w == Bytes(i, m + n)
<1>0. i + m \in Nat \ {0} /\ m + n \in Nat
  OBVIOUS
<1>1. /\ a \in Seq(Nat) /\ Len(a) = m
      /\ b \in Seq(Nat) /\ Len(b) = n
      /\ w \in Seq(Nat) /\ Len(w) = m + n
  BY <1>0, BytesType, Zenon
<1>2. /\ s \in Seq(Nat) /\ Len(s) = m + n
      /\ \A k \in 1 .. m + n :
            s[k] = IF k <= m THEN a[k] ELSE b[k - m]
  <2> HIDE DEF a, b
  <2> QED BY <1>1, ConcatProperties
<1>3. \A k \in 1 .. m + n : s[k] = w[k]
  <2> TAKE k \in 1 .. m + n
  <2>1. w[k] = i + k - 1
    BY DEF Bytes
  <2>2. CASE k <= m
    <3>1. a[k] = i + k - 1
      BY <2>2 DEF Bytes
    <3> HIDE DEF a, b, s, w
    <3> QED BY <2>1, <2>2, <3>1, <1>2
  <2>3. CASE k > m
    <3>1. k - m \in 1 .. n
      BY <2>3
    <3>2. b[k - m] = (i + m) + (k - m) - 1
      BY <3>1 DEF Bytes
    <3> HIDE DEF a, b, s, w
    <3>3. QED BY <2>1, <2>3, <3>2, <1>2
  <2> HIDE DEF a, b, s, w
  <2>4. QED BY <2>2, <2>3
<1> HIDE DEF a, b, s, w
<1>4. s = w
  BY <1>1, <1>2, <1>3, SeqEqual
<1>5. QED BY <1>4 DEF s, w, a, b

\* The beginning of a stretch is a stretch.
LEMMA BytesPrefix ==
    ASSUME NEW d \in Seq(Nat), NEW b \in Seq(Nat),
           d \o b = Bytes(1, Len(d) + Len(b))
    PROVE  d = Bytes(1, Len(d))
<1>1. Bytes(1, Len(d)) \in Seq(Nat) /\ Len(Bytes(1, Len(d))) = Len(d)
  BY BytesType
<1>2. \A k \in 1 .. Len(d) : d[k] = Bytes(1, Len(d))[k]
  <2> TAKE k \in 1 .. Len(d)
  <2>1. d[k] = (d \o b)[k]
    OBVIOUS
  <2>2. Bytes(1, Len(d) + Len(b))[k] = 1 + k - 1
    BY DEF Bytes
  <2>3. Bytes(1, Len(d))[k] = 1 + k - 1
    BY DEF Bytes
  <2>4. QED BY <2>1, <2>2, <2>3
<1>3. QED BY <1>1, <1>2, SeqEqual

-----------------------------------------------------------------------------
(* What the network can deliver *)

\* A segment without payload and FIN, whose SYN is the peer's
Bare(h) ==
    /\ h.payload = <<>>
    /\ "FIN" \notin h.flags
    /\ "SYN" \in h.flags => h.seq = PeerIss

\* n bytes of the peer's stream from byte i on, with a FIN only after the last
Stretch(h, i, n) ==
    /\ h.seq = PeerSeq(i)
    /\ h.payload = Bytes(i, n)
    /\ "SYN" \notin h.flags
    /\ "FIN" \in h.flags => i + n = PeerBytes + 1

Shape(h) ==
    \/ Bare(h)
    \/ \E i \in 1 .. PeerBytes + 1 : \E n \in 0 .. PeerBytes + 1 - i : Stretch(h, i, n)

\* The acknowledgements of the peer are natural numbers.
LEMMA PeerAcksType ==
    ASSUME TypeOK
    PROVE  /\ PeerAcks \subseteq Nat
           /\ Add(peer.irs, 1) \in Nat
<1>1. peer.irs \in SeqNum /\ peer.fin \in {0, 1} /\ peer.got \in Seq(Nat)
  BY DEF TypeOK
<1>2. ASSUME NEW n \in Nat PROVE Add(peer.irs, n) \in Nat
  BY <1>1, TcpAssumption DEF Add, SeqNum
<1>3. QED BY <1>1, <1>2 DEF PeerAcks

\* A stretch of the peer's stream fits into the sequence space.
LEMMA StretchShort ==
    ASSUME NEW h, h.ack \in Nat,
           NEW i \in 1 .. PeerBytes + 1, NEW n \in 0 .. PeerBytes + 1 - i, Stretch(h, i, n)
    PROVE  Short(h) /\ Shape(h)
<1>1. i \in Nat \ {0} /\ n \in Nat /\ i \in 0 .. M
  BY ConnAssumption, TcpAssumption
<1>2. h.payload \in Seq(Nat) /\ Len(h.payload) = n
  BY <1>1, BytesType DEF Stretch
<1>3. h.seq \in SeqNum
  BY <1>1, AddType, ConnAssumption DEF Stretch, PeerSeq
<1>4. n + 2 <= M
  BY ConnAssumption, TcpAssumption
<1>5. Short(h)
  BY <1>2, <1>3, <1>4 DEF Short
<1>6. QED BY <1>5 DEF Shape

\* A bare segment fits into the sequence space.
LEMMA BareShort ==
    ASSUME NEW h, h.ack \in Nat, h.seq \in SeqNum, Bare(h)
    PROVE  Short(h) /\ Shape(h)
<1>1. h.payload \in Seq(Nat) /\ Len(h.payload) = 0
  BY DEF Bare
<1>2. 0 + 2 <= M
  BY ConnAssumption, TcpAssumption
<1>3. QED BY <1>1, <1>2 DEF Short, Shape

\* Every segment a correct peer may have sent is bare or a stretch of its
\* stream, and fits into the sequence space.
LEMMA PeerSegsShape ==
    ASSUME TypeOK, NEW h \in PeerSegs
    PROVE  Short(h) /\ Shape(h)
<1>1. /\ PeerAcks \subseteq Nat /\ Add(peer.irs, 1) \in Nat
      /\ PeerIss \in SeqNum /\ PeerSeq(1) \in SeqNum /\ PeerSeq(PeerBytes + 1) \in SeqNum
      /\ 0 \in SeqNum /\ 0 \in Nat
  <2>1. 1 \in 0 .. M /\ PeerBytes + 1 \in 0 .. M
    BY ConnAssumption, TcpAssumption
  <2>2. QED BY <2>1, PeerAcksType, AddType, ConnAssumption, Constants DEF PeerSeq
<1>2. ASSUME NEW a \in Nat, h \in PeerData(a)
      PROVE  Short(h) /\ Shape(h)
  <2>1. PICK i \in 1 .. PeerBytes : h \in {Seg({"ACK"}, PeerSeq(i), a, Bytes(i, n)) :
                                                 n \in 0 .. PeerBytes + 1 - i}
    BY <1>2 DEF PeerData
  <2>2. PICK n \in 0 .. PeerBytes + 1 - i : h = Seg({"ACK"}, PeerSeq(i), a, Bytes(i, n))
    BY <2>1
  <2>3. Stretch(h, i, n) /\ h.ack \in Nat
    BY <2>2 DEF Stretch, Seg
  <2>4. i \in 1 .. PeerBytes + 1
    BY ConnAssumption
  <2>5. QED BY <2>3, <2>4, StretchShort
<1>3. ASSUME NEW a \in Nat, NEW fl \in {{"FIN", "ACK"}, {"FIN"}}, h \in PeerFin(fl, a)
      PROVE  Short(h) /\ Shape(h)
  <2>1. PICK i \in 1 .. PeerBytes + 1 :
            h = Seg(fl, PeerSeq(i), a, Bytes(i, PeerBytes + 1 - i))
    BY <1>3 DEF PeerFin
  <2>2. PeerBytes + 1 - i \in 0 .. PeerBytes + 1 - i /\ i + (PeerBytes + 1 - i) = PeerBytes + 1
    BY ConnAssumption
  <2>3. Stretch(h, i, PeerBytes + 1 - i) /\ h.ack \in Nat
    BY <2>1, <2>2 DEF Stretch, Seg
  <2>4. QED BY <2>2, <2>3, StretchShort
<1>4. ASSUME NEW a \in Nat, h \in PeerControl(a)
      PROVE  Short(h) /\ Shape(h)
  <2>1. Bare(h) /\ h.ack \in Nat /\ h.seq \in SeqNum
    BY <1>1, <1>4 DEF PeerControl, Bare, Seg
  <2>2. QED BY <2>1, BareShort
<1>5. CASE peer.state = "Refused"
  <2>1. Bare(h) /\ h.ack \in Nat /\ h.seq \in SeqNum
    BY <1>1, <1>5 DEF PeerSegs, Bare, Seg
  <2>2. QED BY <2>1, BareShort
<1>6. CASE peer.state \notin {"Listen", "Refused"}
  <2>1. \/ h = Seg({"SYN", "ACK"}, PeerIss, Add(peer.irs, 1), <<>>)
        \/ \E a \in PeerAcks : h \in PeerData(a) \cup PeerFin({"FIN", "ACK"}, a) \cup PeerControl(a)
        \/ h \in PeerFin({"FIN"}, 0)
    BY <1>6 DEF PeerSegs
  <2>2. CASE h = Seg({"SYN", "ACK"}, PeerIss, Add(peer.irs, 1), <<>>)
    <3>1. Bare(h) /\ h.ack \in Nat /\ h.seq \in SeqNum
      BY <1>1, <2>2 DEF Bare, Seg
    <3>2. QED BY <3>1, BareShort
  <2>3. QED BY <1>1, <1>2, <1>3, <1>4, <2>1, <2>2
<1>7. QED BY <1>5, <1>6 DEF PeerSegs

-----------------------------------------------------------------------------
(* Type correctness *)

\* What the network carries of a step's segments has the type of the wire.
LEMMA CarriedType ==
    ASSUME NEW out \in Seq(Segment)
    PROVE  Carried(out) \subseteq WireSegment
<1>1. ASSUME NEW i \in 1 .. Len(out)
      PROVE  [flags |-> out[i].flags \cap {"SYN", "FIN"}, seq |-> out[i].seq,
              payload |-> out[i].payload] \in WireSegment
  <2>1. out[i] \in Segment
    OBVIOUS
  <2>2. out[i].seq \in SeqNum /\ out[i].payload \in Seq(Nat)
    BY <2>1 DEF Segment
  <2>3. QED BY <2>2 DEF WireSegment
<1>2. QED BY <1>1 DEF Carried

\* A typed step leaves the connection and the network typed.
LEMMA ApplyType ==
    ASSUME TypeOK, NEW s \in StepType, Apply(s)
    PROVE  tcb' \in Tcb /\ wire' \in SUBSET WireSegment
<1>1. tcb' \in Tcb
  BY SentType DEF Apply
<1>2. Carried(s.out) \subseteq WireSegment
  BY CarriedType DEF StepType
<1>3. QED BY <1>1, <1>2 DEF Apply, TypeOK

\* send, of any number of bytes that the bound leaves.
LEMMA TypeSend ==
    ASSUME TypeOK, NEW n \in Nat, Send(n)
    PROVE  TypeOK'
<1> DEFINE data == Bytes(app_sent + 1, n)
<1>0. tcb \in Tcb
  BY DEF TypeOK
<1>1. /\ app_sent \in Nat /\ app_sent + n \in 0 .. AppBytes /\ n <= M
      /\ app_sent + 1 \in Nat \ {0}
  BY ConnAssumption, TcpAssumption DEF Send, TypeOK
<1>2. data \in Seq(Nat) /\ Len(data) <= M
  BY <1>1, BytesType
<1>3. Apply(socket_send(tcb, data))
  BY DEF Send
<1> HIDE DEF data
<1>4. socket_send(tcb, data) \in StepType
  BY <1>0, <1>2, SendType
<1>5. tcb' \in Tcb /\ wire' \in SUBSET WireSegment
  BY <1>3, <1>4, ApplyType
<1>6. QED BY <1>1, <1>5 DEF Send, TypeOK

\* The type of the state is preserved by every step.
LEMMA TypeStep == TypeOK /\ [Next]_vars => TypeOK'
<1> SUFFICES ASSUME TypeOK, [Next]_vars PROVE TypeOK'
  OBVIOUS
<1>0. tcb \in Tcb
  BY DEF TypeOK
<1>1. ASSUME NEW iss \in Iss, Connect(iss) PROVE TypeOK'
  <2>1. initiate_connect(iss) \in StepType
    BY ConnectType, ConnAssumption
  <2>2. Apply(initiate_connect(iss))
    BY <1>1 DEF Connect
  <2>3. tcb' \in Tcb /\ wire' \in SUBSET WireSegment
    BY <2>1, <2>2, ApplyType
  <2>4. QED BY <1>1, <2>3 DEF Connect, TypeOK
<1>2. ASSUME NEW n \in 0 .. MaxSend, Send(n) PROVE TypeOK'
  BY <1>2, TypeSend, ConnAssumption
<1>3. ASSUME Recv PROVE TypeOK'
  <2>1. delivered \o tcb.recv_buffer \in Seq(Nat)
    BY <1>0, TcbFields, ConcatType DEF TypeOK
  <2>2. tcb' \in Tcb
    BY <1>0, <1>3, DrainType DEF Recv
  <2>3. QED BY <1>3, <2>1, <2>2 DEF Recv, TypeOK
<1>4. ASSUME Close PROVE TypeOK'
  <2>1. Apply(close(tcb)) /\ close(tcb) \in StepType
    BY <1>0, <1>4, CloseType DEF Close
  <2>2. tcb' \in Tcb /\ wire' \in SUBSET WireSegment
    BY <2>1, ApplyType
  <2>3. QED BY <1>4, <2>2 DEF Close, TypeOK
<1>5. ASSUME NEW due \in BOOLEAN, Poll(due) PROVE TypeOK'
  <2>1. Apply(poll_retransmit(tcb, due)) /\ poll_retransmit(tcb, due) \in StepType
    BY <1>0, <1>5, PollType DEF Poll
  <2>2. tcb' \in Tcb /\ wire' \in SUBSET WireSegment
    BY <2>1, ApplyType
  <2>3. QED BY <1>5, <2>2 DEF Poll, TypeOK
<1>6. ASSUME NEW h \in PeerSegs, Receive(h) PROVE TypeOK'
  <2>1. Apply(process_existing_tcb(tcb, h)) /\ process_existing_tcb(tcb, h) \in StepType
    BY <1>0, <1>6, PeerSegsShape, ProcessType DEF Receive
  <2>2. tcb' \in Tcb /\ wire' \in SUBSET WireSegment
    BY <2>1, ApplyType
  <2>3. QED BY <1>6, <2>2 DEF Receive, TypeOK
<1>7. ASSUME NEW s \in wire, NEW answer \in {"Open", "Refused"}, PeerSyn(s, answer) PROVE TypeOK'
  <2>1. s.seq \in SeqNum
    BY DEF TypeOK, WireSegment
  <2>2. QED BY <1>7, <2>1 DEF PeerSyn, TypeOK
<1>8. ASSUME NEW s \in wire, PeerReceive(s) PROVE TypeOK'
  <2> DEFINE want == Len(peer.got)
             pos == Sub(s.seq, Add(peer.irs, 1))
             more == SubSeq(s.payload, want - pos + 1, Len(s.payload))
  <2>1. /\ s.seq \in SeqNum /\ s.payload \in Seq(Nat)
        /\ peer.got \in Seq(Nat) /\ peer.irs \in SeqNum
    BY DEF TypeOK, WireSegment
  <2>2. Add(peer.irs, 1) \in SeqNum
    BY <2>1, AddType, Constants
  <2>3. pos \in SeqNum
    BY <2>1, <2>2, SubType
  <2>4. pos <= want /\ want <= pos + Len(s.payload)
    BY <1>8 DEF PeerReceive
  <2>5. peer' = [peer EXCEPT !.got = @ \o more, !.fin = One(s, "FIN")]
    BY <1>8 DEF PeerReceive
  <2>6. want \in Nat
    BY <2>1
  <2> HIDE DEF pos, want
  <2>7. want - pos + 1 \in 1 .. Len(s.payload) + 1
    BY <2>1, <2>3, <2>4, <2>6 DEF SeqNum
  <2>8. more \in Seq(Nat)
    <3>1. \A k \in want - pos + 1 .. Len(s.payload) : s.payload[k] \in Nat
      BY <2>1, <2>7
    <3> DEFINE from == want - pos + 1
    <3> HIDE DEF from
    <3>2. QED BY <2>1, <2>7, <3>1, SubSeqProperties DEF from
  <2> HIDE DEF more
  <2>9. peer.got \o more \in Seq(Nat) /\ One(s, "FIN") \in {0, 1}
    BY <2>1, <2>8, ConcatType DEF One
  <2>10. peer' \in [state : {"Listen", "Open", "Refused"}, irs : SeqNum,
                    got : Seq(Nat), fin : {0, 1}]
    BY <2>5, <2>9 DEF TypeOK
  <2>11. QED BY <1>8, <2>10 DEF PeerReceive, TypeOK
<1>9. CASE UNCHANGED vars
  BY <1>9 DEF vars, TypeOK
<1>10. QED
  BY <1>1, <1>2, <1>3, <1>4, <1>5, <1>6, <1>7, <1>8, <1>9 DEF Next, App, Stack, Peer

\* The initial state is typed.
LEMMA TypeInit == Init => TypeOK
<1> SUFFICES ASSUME Init PROVE TypeOK
  OBVIOUS
<1>1. peer \in [state : {"Listen", "Open", "Refused"}, irs : SeqNum, got : Seq(Nat), fin : {0, 1}]
  BY Constants DEF Init
<1>2. tcb \in Tcb /\ delivered \in Seq(Nat) /\ app_sent \in 0 .. AppBytes
  BY NoTcbType, Constants, ConnAssumption DEF Init
<1>3. QED BY <1>1, <1>2 DEF Init, TypeOK

\* In every behaviour the TCB and its environment keep their types: above all
\* snd_una and rcv_nxt stay sequence numbers whatever arrives, and the
\* retransmission count and the timeout stay within their limits.
THEOREM TypeCorrect == Spec => []TypeOK
  BY TypeInit, TypeStep, PTL DEF Spec

(***************************************************************************)
(* The receiving side of a connection: StreamPrefix and AckMatchesBuffer   *)
(* are invariants of TcpConn, for every length of the peer's stream, every *)
(* way of cutting, repeating and reordering it, and every initial sequence *)
(* number of either side.                                                  *)
(***************************************************************************)

-----------------------------------------------------------------------------
(* The invariant, of a TCB t and the bytes d already handed over *)

Got(t, d) == Len(d) + Len(t.recv_buffer)

Prefix(t, d) ==
    /\ Got(t, d) <= PeerBytes
    /\ d \o t.recv_buffer = Bytes(1, Got(t, d))

Open == {"Established", "FinWait1", "FinWait2"}
Passive == {"CloseWait", "LastAck"}

\* StreamPrefix and AckMatchesBuffer; SynSent is needed because the handshake
\* sets rcv_nxt as if nothing had been received
Good(t, d) ==
    /\ Prefix(t, d)
    /\ t.state \in Open => t.rcv_nxt = PeerSeq(Got(t, d) + 1)
    /\ t.state \in Passive => Got(t, d) = PeerBytes /\ t.rcv_nxt = PeerSeq(PeerBytes + 2)
    /\ t.state = "SynSent" => Got(t, d) = 0

\* A key is used once, so a new connection starts with nothing delivered
StreamInv ==
    /\ Good(tcb, delivered)
    /\ ~opened => tcb.state = "Absent" /\ tcb.recv_buffer = <<>> /\ delivered = <<>>

\* The invariant contains both properties.
LEMMA StreamInvImplies == StreamInv => StreamPrefix /\ AckMatchesBuffer
  BY DEF StreamInv, Good, Prefix, Got, Open, Passive, StreamPrefix, AckMatchesBuffer, Accepted

-----------------------------------------------------------------------------
(* Appending to the stream *)

\* Sequence numbers of the peer's stream are told apart, the SYN's and the
\* one after the FIN included.
LEMMA PeerSeqInjective ==
    ASSUME NEW i \in 0 .. PeerBytes + 2, NEW j \in 0 .. PeerBytes + 2, PeerSeq(i) = PeerSeq(j)
    PROVE  i = j
<1>1. i \in 0 .. M - 1 /\ j \in 0 .. M - 1
  BY ConnAssumption, TcpAssumption
<1>2. QED BY <1>1, AddInjective, ConnAssumption DEF PeerSeq

\* Moving along the peer's stream, at most past its FIN.
LEMMA PeerSeqAdd ==
    ASSUME NEW i \in 0 .. PeerBytes + 2, NEW n \in 0 .. PeerBytes + 2, i + n <= PeerBytes + 2
    PROVE  Add(PeerSeq(i), n) = PeerSeq(i + n)
<1>1. i \in 0 .. M - 1 /\ n \in 0 .. M - 1 /\ i + n < M
  BY ConnAssumption, TcpAssumption
<1>2. QED BY <1>1, AddAdd, ConnAssumption DEF PeerSeq

\* The peer's initial sequence number is number 0 of its stream.
LEMMA PeerSeqZero == PeerSeq(0) = PeerIss
  BY ConnAssumption, TcpAssumption DEF PeerSeq, Add, SeqNum

\* Bytes may be appended in either grouping.
LEMMA ConcatAssoc ==
    ASSUME NEW x \in Seq(Nat), NEW y \in Seq(Nat), NEW z \in Seq(Nat)
    PROVE  (x \o y) \o z = x \o (y \o z)
  OBVIOUS

-----------------------------------------------------------------------------
(* What each function does to the invariant *)

Done == {"Closing", "TimeWait", "Closed"}

\* A step that leaves the received bytes alone and moves to a state of the
\* same kind, or to one where nothing is received any more.
LEMMA GoodMove ==
    ASSUME NEW t, NEW u, NEW d, Good(t, d), u.recv_buffer = t.recv_buffer,
           \/ u.state \in Done
           \/ /\ u.rcv_nxt = t.rcv_nxt
              /\ \/ u.state = t.state
                 \/ u.state \in Open /\ t.state \in Open
                 \/ u.state \in Passive /\ t.state \in Passive
    PROVE  Good(u, d)
<1>1. Got(u, d) = Got(t, d)
  BY DEF Got
<1>2. Prefix(u, d)
  BY <1>1 DEF Good, Prefix
<1>3. CASE u.state \in Done
  BY <1>2, <1>3 DEF Good, Done, Open, Passive
<1>4. CASE u.rcv_nxt = t.rcv_nxt /\ u.state = t.state
  BY <1>1, <1>2, <1>4 DEF Good
<1>5. CASE u.rcv_nxt = t.rcv_nxt /\ u.state \in Open /\ t.state \in Open
  BY <1>1, <1>2, <1>5 DEF Good, Open, Passive
<1>6. CASE u.rcv_nxt = t.rcv_nxt /\ u.state \in Passive /\ t.state \in Passive
  BY <1>1, <1>2, <1>6 DEF Good, Open, Passive
<1>7. QED BY <1>3, <1>4, <1>5, <1>6

\* Taking a stretch that starts at rcv_nxt, with or without its FIN.
LEMMA GoodTake ==
    ASSUME NEW t \in Tcb, NEW u, NEW d \in Seq(Nat), Good(t, d), t.state \in Open,
           NEW i \in 1 .. PeerBytes + 1, NEW n \in 0 .. PeerBytes + 1 - i,
           PeerSeq(i) = t.rcv_nxt,
           u.recv_buffer = t.recv_buffer \o Bytes(i, n),
           \/ u.state \in Open /\ u.rcv_nxt = Add(PeerSeq(i), n)
           \/ /\ u.state = "CloseWait" /\ u.rcv_nxt = Add(PeerSeq(i), n + 1)
              /\ i + n = PeerBytes + 1
    PROVE  Good(u, d)
<1> DEFINE g == Got(t, d)
           b == t.recv_buffer
           c == Bytes(i, n)
<1>1. b \in Seq(Nat)
  BY TcbFields
<1>2. g \in 0 .. PeerBytes /\ g = Len(d) + Len(b) /\ Len(d) \in Nat /\ Len(b) \in Nat
  BY <1>1, ConnAssumption DEF Good, Prefix, Got
<1>3. d \o b = Bytes(1, g) /\ PeerSeq(i) = PeerSeq(g + 1)
  BY DEF Good, Prefix
<1>4. /\ i = g + 1 /\ g + n <= PeerBytes
      /\ Len(d) + Len(b \o c) = g + n
      /\ d \o (b \o c) = Bytes(1, g + n)
      /\ Add(PeerSeq(i), n) = PeerSeq(g + n + 1)
      /\ Add(PeerSeq(i), n + 1) = PeerSeq(g + n + 2)
  <2> HIDE DEF g, b
  <2>1. i = g + 1
    <3>1. i \in 0 .. PeerBytes + 2 /\ g + 1 \in 0 .. PeerBytes + 2
      BY <1>2, ConnAssumption
    <3>2. QED BY <1>3, <3>1, PeerSeqInjective
  <2>2. /\ i \in Nat \ {0} /\ n \in Nat /\ g \in Nat /\ g + n <= PeerBytes
        /\ i \in 0 .. PeerBytes + 2 /\ n \in 0 .. PeerBytes + 2 /\ n + 1 \in 0 .. PeerBytes + 2
        /\ i + n <= PeerBytes + 2 /\ i + (n + 1) <= PeerBytes + 2
        /\ i + n = g + n + 1 /\ i + (n + 1) = g + n + 2 /\ i = 1 + g /\ 1 \in Nat \ {0}
    BY <1>2, <2>1, ConnAssumption
  <2>3. c \in Seq(Nat) /\ Len(c) = n
    BY <2>2, BytesType
  <2>4. /\ Add(PeerSeq(i), n) = PeerSeq(g + n + 1)
        /\ Add(PeerSeq(i), n + 1) = PeerSeq(g + n + 2)
    <3>1. Add(PeerSeq(i), n) = PeerSeq(i + n)
      BY <2>2, PeerSeqAdd
    <3>2. Add(PeerSeq(i), n + 1) = PeerSeq(i + (n + 1))
      BY <2>2, PeerSeqAdd
    <3>3. QED BY <2>2, <3>1, <3>2
  <2>5. Bytes(1, g) \o c = Bytes(1, g + n)
    <3>1. Bytes(1, g) \o Bytes(1 + g, n) = Bytes(1, g + n)
      BY <2>2, BytesConcat, Zenon
    <3>2. QED BY <2>2, <3>1, Zenon
  <2> HIDE DEF c
  <2>6. Len(b \o c) = Len(b) + n
    BY <1>1, <2>3, ConcatProperties
  <2>7. (d \o b) \o c = d \o (b \o c)
    BY <1>1, <2>3, ConcatAssoc
  <2>8. Len(d) + Len(b \o c) = g + n
    BY <1>2, <2>2, <2>6
  <2>9. d \o (b \o c) = Bytes(1, g + n)
    BY <1>3, <2>5, <2>7, Zenon
  <2>10. QED BY <2>1, <2>2, <2>4, <2>8, <2>9, Zenon
<1> HIDE DEF g
<1>5. Got(u, d) = g + n
  BY <1>4 DEF Got
<1>6. Prefix(u, d)
  BY <1>4, <1>5 DEF Prefix
<1>7. CASE u.state \in Open /\ u.rcv_nxt = Add(PeerSeq(i), n)
  BY <1>4, <1>5, <1>6, <1>7 DEF Good, Open, Passive
<1>8. CASE /\ u.state = "CloseWait" /\ u.rcv_nxt = Add(PeerSeq(i), n + 1)
           /\ i + n = PeerBytes + 1
  <2>1. g + n = PeerBytes
    <3>1. i = g + 1 /\ i + n = PeerBytes + 1
      BY <1>4, <1>8
    <3>2. g \in Nat /\ n \in Nat /\ PeerBytes \in Nat
      BY <1>2, ConnAssumption
    <3>3. QED BY <3>1, <3>2
  <2>2. u.rcv_nxt = PeerSeq(PeerBytes + 2)
    BY <1>4, <1>8, <2>1
  <2>3. QED BY <1>5, <1>6, <1>8, <2>1, <2>2 DEF Good, Open, Passive
<1>9. QED BY <1>7, <1>8

\* Payload in order is the next stretch; after the peer's FIN there is none.
LEMMA GoodBuffered ==
    ASSUME NEW t \in Tcb, NEW d \in Seq(Nat), Good(t, d), t.state \in Open \cup {"CloseWait"},
           NEW h, Shape(h)
    PROVE  Good(Buffered(t, h), d)
<1> DEFINE u == [t EXCEPT !.recv_buffer = t.recv_buffer \o h.payload,
                          !.rcv_nxt = Add(t.rcv_nxt, Len(h.payload))]
<1>1. CASE h.payload = <<>> \/ h.seq # t.rcv_nxt
  BY <1>1 DEF Buffered
<1>2. CASE h.payload # <<>> /\ h.seq = t.rcv_nxt
  <2>1. PICK i \in 1 .. PeerBytes + 1 : \E n \in 0 .. PeerBytes + 1 - i : Stretch(h, i, n)
    BY <1>2 DEF Shape, Bare
  <2>2. PICK n \in 0 .. PeerBytes + 1 - i : Stretch(h, i, n)
    BY <2>1
  <2>3. /\ h.payload = Bytes(i, n) /\ Len(h.payload) = n /\ PeerSeq(i) = t.rcv_nxt
    <3>1. i \in Nat \ {0} /\ n \in Nat
      BY ConnAssumption
    <3>2. QED BY <1>2, <2>2, <3>1, BytesType DEF Stretch
  <2>4. n # 0
    <3>1. h.payload \in Seq(Nat)
      <4>1. i \in Nat \ {0} /\ n \in Nat
        BY ConnAssumption
      <4>2. QED BY <2>3, <4>1, BytesType
    <3>2. QED BY <1>2, <2>3, <3>1, EmptySeq
  <2>5. t.state \in Open
    <3>1. SUFFICES ASSUME t.state = "CloseWait" PROVE FALSE
      OBVIOUS
    <3>2. PeerSeq(i) = PeerSeq(PeerBytes + 2)
      BY <2>3, <3>1 DEF Good, Passive
    <3>3. i \in 0 .. PeerBytes + 2 /\ PeerBytes + 2 \in 0 .. PeerBytes + 2
      BY ConnAssumption
    <3>4. i = PeerBytes + 2
      BY <3>2, <3>3, PeerSeqInjective
    <3>5. QED BY <3>4, ConnAssumption
  <2>6. /\ u.recv_buffer = t.recv_buffer \o Bytes(i, n)
        /\ u.rcv_nxt = Add(PeerSeq(i), n) /\ u.state = t.state
    BY <2>3 DEF Tcb
  <2>7. Good(u, d)
    <3> HIDE DEF u
    <3> QED BY <2>3, <2>5, <2>6, GoodTake
  <2>8. QED BY <1>2, <2>7 DEF Buffered
<1>3. QED BY <1>1, <1>2

\* Processing an acknowledgement in Established touches the send side only.
LEMMA EstablishedAckKeeps ==
    ASSUME NEW t \in Tcb, NEW h
    PROVE  /\ EstablishedAck(t, h).recv_buffer = t.recv_buffer
           /\ EstablishedAck(t, h).rcv_nxt = t.rcv_nxt
           /\ EstablishedAck(t, h).state = t.state
  BY DEF EstablishedAck, Tcb

\* SynSent: the handshake expects the peer's first byte, and nothing was
\* received before it.
LEMMA GoodSynSent ==
    ASSUME NEW t \in Tcb, NEW d \in Seq(Nat), Good(t, d), t.state = "SynSent",
           NEW h, Shape(h)
    PROVE  Good(OnSynSent(t, h).tcb, d)
<1> DEFINE u == [t EXCEPT !.irs = h.seq, !.rcv_nxt = Add(h.seq, 1), !.snd_una = h.ack,
                          !.state = "Established", !.retransmit_at = "None",
                          !.retransmit_count = 0]
           c == [t EXCEPT !.state = "Closed"]
<1>1. ASSUME Has(h, "SYN") PROVE Good(u, d)
  <2>1. h.seq = PeerIss
    BY <1>1 DEF Shape, Bare, Stretch, Has
  <2>2. 0 \in 0 .. PeerBytes + 2 /\ 1 \in 0 .. PeerBytes + 2 /\ 0 + 1 <= PeerBytes + 2
    BY ConnAssumption
  <2>3. Add(h.seq, 1) = PeerSeq(0 + 1)
    BY <2>1, <2>2, PeerSeqAdd, PeerSeqZero
  <2>4. /\ u.recv_buffer = t.recv_buffer /\ u.rcv_nxt = Add(h.seq, 1)
        /\ u.state = "Established"
    BY DEF Tcb
  <2> HIDE DEF u
  <2>5. Got(t, d) = 0 /\ Got(u, d) = Got(t, d)
    BY <2>4 DEF Good, Got
  <2>6. Prefix(u, d)
    BY <2>4, <2>5 DEF Good, Prefix
  <2>7. u.rcv_nxt = PeerSeq(Got(u, d) + 1)
    BY <2>3, <2>4, <2>5
  <2>8. QED BY <2>4, <2>6, <2>7 DEF Good, Passive
<1>2. Good(c, d)
  <2>1. c.recv_buffer = t.recv_buffer /\ c.state = "Closed"
    BY DEF Tcb
  <2>2. c.state \in Done
    BY <2>1 DEF Done
  <2> HIDE DEF c
  <2>3. QED BY <2>1, <2>2, GoodMove
<1>3. [t EXCEPT !.state = t.state] = t
  BY DEF Tcb
<1>4. \/ OnSynSent(t, h).tcb = t
      \/ OnSynSent(t, h).tcb = u /\ Has(h, "SYN")
      \/ OnSynSent(t, h).tcb = c
  BY <1>3 DEF OnSynSent, Step
<1>5. QED BY <1>1, <1>2, <1>4

\* Established: a segment is taken when it starts at rcv_nxt, and the FIN is
\* taken with the last byte.
LEMMA GoodEstablished ==
    ASSUME NEW t \in Tcb, NEW d \in Seq(Nat), Good(t, d), t.state = "Established",
           NEW h, Shape(h), Short(h)
    PROVE  Good(OnEstablished(t, h).tcb, d)
<1> DEFINE u == EstablishedAck(t, h)
           len == Len(h.payload) + One(h, "SYN") + One(h, "FIN")
           s == IF Has(h, "FIN") THEN "CloseWait" ELSE u.state
           v == [u EXCEPT !.recv_buffer = u.recv_buffer \o h.payload,
                          !.rcv_nxt = Add(h.seq, len), !.state = s]
<1>1. u \in Tcb
  BY EstablishedAckType
<1>2. u.recv_buffer = t.recv_buffer /\ u.rcv_nxt = t.rcv_nxt /\ u.state = t.state
  BY EstablishedAckKeeps
<1>3. OnEstablished(t, h).tcb = IF len > 0 /\ h.seq = u.rcv_nxt THEN v ELSE u
  BY DEF OnEstablished, Step
<1> HIDE DEF u
<1>4. Good(u, d)
  BY <1>2, GoodMove
<1>5. ASSUME len > 0, h.seq = u.rcv_nxt PROVE Good(v, d)
  <2>1. u.rcv_nxt = PeerSeq(Got(u, d) + 1) /\ Got(u, d) \in 0 .. PeerBytes /\ u.state \in Open
    <3>1. u.recv_buffer \in Seq(Nat)
      BY <1>1, TcbFields
    <3>2. QED BY <1>2, <1>4, <3>1, ConnAssumption DEF Good, Prefix, Got, Open
  <2>2. ~Bare(h)
    <3> SUFFICES ASSUME Bare(h) PROVE FALSE
      OBVIOUS
    <3>1. Len(h.payload) = 0 /\ One(h, "FIN") = 0
      BY DEF Bare, One
    <3>2. "SYN" \in h.flags
      BY <1>5, <3>1 DEF One
    <3>3. PeerSeq(0) = PeerSeq(Got(u, d) + 1)
      BY <1>5, <2>1, <3>2, PeerSeqZero DEF Bare
    <3>4. 0 \in 0 .. PeerBytes + 2 /\ Got(u, d) + 1 \in 0 .. PeerBytes + 2
      BY <2>1, ConnAssumption
    <3>5. 0 = Got(u, d) + 1
      BY <3>3, <3>4, PeerSeqInjective
    <3>6. QED BY <2>1, <3>5
  <2>3. PICK i \in 1 .. PeerBytes + 1 : \E n \in 0 .. PeerBytes + 1 - i : Stretch(h, i, n)
    BY <2>2 DEF Shape
  <2>4. PICK n \in 0 .. PeerBytes + 1 - i : Stretch(h, i, n)
    BY <2>3
  <2>5. i \in Nat \ {0} /\ n \in Nat
    BY ConnAssumption
  <2>6. /\ h.payload = Bytes(i, n) /\ Len(h.payload) = n /\ h.seq = PeerSeq(i)
        /\ One(h, "SYN") = 0
    BY <2>4, <2>5, BytesType DEF Stretch, One
  <2>7. /\ v.recv_buffer = u.recv_buffer \o Bytes(i, n)
        /\ v.rcv_nxt = Add(PeerSeq(i), len)
        /\ v.state = s
    BY <1>1, <2>6 DEF Tcb
  <2>8. CASE Has(h, "FIN")
    <3>1. len = n + 1 /\ s = "CloseWait" /\ i + n = PeerBytes + 1
      BY <2>4, <2>5, <2>6, <2>8 DEF Has, One, Stretch
    <3> HIDE DEF v, len, s
    <3>2. QED BY <1>1, <1>4, <1>5, <2>1, <2>6, <2>7, <3>1, GoodTake
  <2>9. CASE ~Has(h, "FIN")
    <3>1. len = n /\ s = u.state
      BY <2>5, <2>6, <2>9 DEF Has, One
    <3> HIDE DEF v, len, s
    <3>2. QED BY <1>1, <1>4, <1>5, <2>1, <2>6, <2>7, <3>1, GoodTake
  <2>10. QED BY <2>8, <2>9
<1>6. QED BY <1>3, <1>4, <1>5

\* FinWait1 and FinWait2 take data in order and end with the peer's FIN.
LEMMA GoodFinWait ==
    ASSUME NEW t \in Tcb, NEW d \in Seq(Nat), Good(t, d), NEW h, Shape(h)
    PROVE  /\ t.state = "FinWait1" => Good(OnFinWait1(t, h).tcb, d)
           /\ t.state = "FinWait2" => Good(OnFinWait2(t, h).tcb, d)
<1>1. ASSUME t.state = "FinWait1" PROVE Good(OnFinWait1(t, h).tcb, d)
  <2> DEFINE acked == [t EXCEPT !.snd_una = h.ack, !.retransmit_at = "None", !.retransmit_count = 0]
             both  == [FinSeen(acked, h, "TimeWait") EXCEPT !.retransmit_at = "Some"]
             early == FinSeen(t, h, "Closing")
             moved == [acked EXCEPT !.state = "FinWait2"]
  <2>1. both.recv_buffer = t.recv_buffer /\ both.state = "TimeWait"
    BY DEF FinSeen, Tcb
  <2>2. early.recv_buffer = t.recv_buffer /\ early.state = "Closing"
    BY DEF FinSeen, Tcb
  <2>3. /\ moved.recv_buffer = t.recv_buffer /\ moved.rcv_nxt = t.rcv_nxt
        /\ moved.state = "FinWait2"
    BY DEF Tcb
  <2>4. ASSUME h.ack = t.snd_nxt PROVE moved \in Tcb
    <3>1. acked \in Tcb
      BY <2>4, TcbFields, Constants, WithUna
    <3> HIDE DEF acked
    <3>2. QED BY <3>1, WithState, Constants
  <2>5. \/ OnFinWait1(t, h).tcb = both
        \/ OnFinWait1(t, h).tcb = early
        \/ OnFinWait1(t, h).tcb = Buffered(moved, h) /\ h.ack = t.snd_nxt
        \/ OnFinWait1(t, h).tcb = Buffered(t, h)
    BY DEF OnFinWait1, Step
  <2> HIDE DEF acked, both, early, moved
  <2>6. Good(both, d)
    <3>1. both.state \in Done
      BY <2>1 DEF Done
    <3>2. QED BY <2>1, <3>1, GoodMove
  <2>7. Good(early, d)
    <3>1. early.state \in Done
      BY <2>2 DEF Done
    <3>2. QED BY <2>2, <3>1, GoodMove
  <2>8. ASSUME h.ack = t.snd_nxt PROVE Good(Buffered(moved, h), d)
    <3>1. moved.state \in Open /\ t.state \in Open
      BY <1>1, <2>3 DEF Open
    <3>2. Good(moved, d)
      BY <2>3, <3>1, GoodMove
    <3>3. QED BY <2>4, <2>8, <3>1, <3>2, GoodBuffered
  <2>9. Good(Buffered(t, h), d)
    <3>1. t.state \in Open
      BY <1>1 DEF Open
    <3>2. QED BY <3>1, GoodBuffered
  <2>10. QED BY <2>5, <2>6, <2>7, <2>8, <2>9
<1>2. ASSUME t.state = "FinWait2" PROVE Good(OnFinWait2(t, h).tcb, d)
  <2> DEFINE u == [FinSeen(t, h, "TimeWait") EXCEPT !.retransmit_at = "Some"]
  <2>1. u.recv_buffer = t.recv_buffer /\ u.state = "TimeWait"
    BY DEF FinSeen, Tcb
  <2>2. OnFinWait2(t, h).tcb = u \/ OnFinWait2(t, h).tcb = Buffered(t, h)
    BY DEF OnFinWait2, Step
  <2> HIDE DEF u
  <2>3. Good(u, d)
    <3>1. u.state \in Done
      BY <2>1 DEF Done
    <3>2. QED BY <2>1, <3>1, GoodMove
  <2>4. Good(Buffered(t, h), d)
    <3>1. t.state \in Open
      BY <1>2 DEF Open
    <3>2. QED BY <3>1, GoodBuffered
  <2>5. QED BY <2>2, <2>3, <2>4
<1>3. QED BY <1>1, <1>2

\* LastAck and Closing receive nothing more.
LEMMA GoodClosing ==
    ASSUME NEW t \in Tcb, NEW d, Good(t, d), NEW h
    PROVE  Good(OnLastAck(t, h).tcb, d) /\ Good(OnClosing(t, h).tcb, d)
<1> DEFINE u == [t EXCEPT !.state = "Closed", !.retransmit_at = "None"]
           v == [t EXCEPT !.state = "TimeWait", !.retransmit_at = "Some", !.retransmit_count = 0]
<1>1. /\ u.recv_buffer = t.recv_buffer /\ u.state \in Done
      /\ v.recv_buffer = t.recv_buffer /\ v.state \in Done
  BY DEF Tcb, Done
<1>2. OnLastAck(t, h).tcb \in {t, u} /\ OnClosing(t, h).tcb \in {t, v}
  BY DEF OnLastAck, OnClosing, Step
<1> HIDE DEF u, v
<1>3. QED BY <1>1, <1>2, GoodMove

\* Every segment the peer may have sent preserves the invariant.
LEMMA GoodProcess ==
    ASSUME NEW t \in Tcb, NEW d \in Seq(Nat), Good(t, d), NEW h, Shape(h), Short(h)
    PROVE  Good(process_existing_tcb(t, h).tcb, d)
<1>1. CASE t.state = "SynSent"
  BY <1>1, GoodSynSent DEF process_existing_tcb
<1>2. CASE t.state = "Established"
  BY <1>2, GoodEstablished DEF process_existing_tcb
<1>3. CASE t.state = "CloseWait"
  <2>1. Good(Buffered(t, h), d)
    BY <1>3, GoodBuffered
  <2>2. QED BY <1>3, <2>1 DEF process_existing_tcb, OnCloseWait, Step
<1>4. CASE t.state \in {"FinWait1", "FinWait2"}
  BY <1>4, GoodFinWait DEF process_existing_tcb
<1>5. CASE t.state \in {"LastAck", "Closing"}
  BY <1>5, GoodClosing DEF process_existing_tcb
<1>6. CASE t.state \notin {"SynSent", "Established", "CloseWait", "FinWait1", "FinWait2",
                           "LastAck", "Closing"}
  BY <1>6 DEF process_existing_tcb, Step
<1>7. QED BY <1>1, <1>2, <1>3, <1>4, <1>5, <1>6

\* Starting the timer for what is sent.
LEMMA GoodSent ==
    ASSUME NEW s \in StepType, NEW d, Good(s.tcb, d)
    PROVE  Good(Sent(s), d) /\ Sent(s).state = s.tcb.state
<1> DEFINE t == s.tcb
           u == [t EXCEPT !.retransmit_at = "Some"]
<1>1. /\ u.recv_buffer = t.recv_buffer /\ u.rcv_nxt = t.rcv_nxt /\ u.state = t.state
  BY DEF StepType, Tcb
<1>2. Sent(s) = t \/ Sent(s) = u
  BY DEF Sent, record_sent
<1> HIDE DEF u
<1>3. QED BY <1>1, <1>2, GoodMove

\* A connection that is removed leaves what was delivered.
LEMMA GoodAbsent ==
    ASSUME NEW t \in Tcb, NEW d \in Seq(Nat), Good(t, d)
    PROVE  Good(NoTcb, d)
<1>1. t.recv_buffer \in Seq(Nat) /\ Len(t.recv_buffer) \in Nat /\ Len(d) \in Nat
  BY TcbFields
<1>2. d = Bytes(1, Len(d)) /\ Len(d) <= PeerBytes
  <2>1. d \o t.recv_buffer = Bytes(1, Len(d) + Len(t.recv_buffer))
    BY DEF Good, Prefix, Got
  <2>2. d = Bytes(1, Len(d))
    BY <1>1, <2>1, BytesPrefix, Zenon
  <2>3. Len(d) <= PeerBytes
    BY <1>1, ConnAssumption DEF Good, Prefix, Got
  <2>4. QED BY <2>2, <2>3
<1>3. NoTcb.recv_buffer = <<>> /\ NoTcb.state = "Absent"
  BY DEF NoTcb
<1>4. Got(NoTcb, d) = Len(d) /\ d \o <<>> = d
  BY <1>1, <1>3 DEF Got
<1>5. QED BY <1>2, <1>3, <1>4 DEF Good, Prefix, Open, Passive

\* The retransmission pass keeps the received bytes or removes the TCB.
LEMMA GoodPoll ==
    ASSUME NEW t \in Tcb, NEW d \in Seq(Nat), Good(t, d), NEW due \in BOOLEAN
    PROVE  Good(poll_retransmit(t, due).tcb, d)
<1> DEFINE e == Expire(t, due).tcb
<1>1. /\ e.recv_buffer = t.recv_buffer /\ e.rcv_nxt = t.rcv_nxt
      /\ e.state = t.state \/ e.state = "Closed"
  BY DEF Expire, Step, Tcb
<1>2. poll_retransmit(t, due).tcb = Retain(e)
  BY DEF poll_retransmit, Step
<1> HIDE DEF e
<1>3. Good(e, d)
  BY <1>1, GoodMove DEF Done
<1>4. QED BY <1>2, <1>3, GoodAbsent DEF Retain

\* close changes the state only.
LEMMA GoodClose ==
    ASSUME NEW t \in Tcb, NEW d, Good(t, d)
    PROVE  Good(close(t).tcb, d)
<1> DEFINE c == close(t).tcb
<1>1. /\ c.recv_buffer = t.recv_buffer /\ c.rcv_nxt = t.rcv_nxt
      /\ \/ c.state \in {t.state, "Closed"}
         \/ t.state = "Established" /\ c.state = "FinWait1"
         \/ t.state = "CloseWait" /\ c.state = "LastAck"
  BY DEF close, SendFin, Step, Tcb
<1> HIDE DEF c
<1>2. Good(c, d)
  BY <1>1, GoodMove DEF Done, Open, Passive
<1>3. QED BY <1>2 DEF c

\* send changes the send side only.
LEMMA GoodSend ==
    ASSUME NEW t \in Tcb, NEW d, Good(t, d), NEW data
    PROVE  Good(socket_send(t, data).tcb, d)
<1> DEFINE c == socket_send(t, data).tcb
<1>1. c.recv_buffer = t.recv_buffer /\ c.rcv_nxt = t.rcv_nxt /\ c.state = t.state
  BY DEF socket_send, Step, Tcb
<1> HIDE DEF c
<1>2. Good(c, d)
  BY <1>1, GoodMove
<1>3. QED BY <1>2 DEF c

\* recv moves what was buffered to what was delivered.
LEMMA GoodDrain ==
    ASSUME NEW t \in Tcb, NEW d \in Seq(Nat), Good(t, d)
    PROVE  Good(drain_data(t), d \o t.recv_buffer)
<1> DEFINE b == t.recv_buffer
           u == drain_data(t)
           e == d \o b
<1>1. b \in Seq(Nat) /\ e \in Seq(Nat) /\ Len(e) = Len(d) + Len(b)
  BY TcbFields, ConcatProperties
<1>2. u.recv_buffer = <<>> /\ u.rcv_nxt = t.rcv_nxt /\ u.state = t.state
  BY DEF drain_data, Tcb
<1>3. Got(u, e) = Got(t, d)
  <2>1. Len(e) = Got(t, d) /\ Len(u.recv_buffer) = 0
    BY <1>1, <1>2 DEF Got
  <2>2. Len(e) \in Nat
    BY <1>1
  <2> HIDE DEF u, e
  <2>3. QED BY <2>1, <2>2 DEF Got
<1>4. e \o u.recv_buffer = d \o b
  BY <1>1, <1>2
<1> HIDE DEF u, e
<1>5. Good(u, e)
  BY <1>2, <1>3, <1>4 DEF Good, Prefix
<1>6. QED BY <1>5 DEF u, e

-----------------------------------------------------------------------------
(* The theorem *)

\* The invariant holds initially: nothing is delivered.
LEMMA StreamInvInit == Init => StreamInv
<1> SUFFICES ASSUME Init PROVE StreamInv
  OBVIOUS
<1>1. tcb.recv_buffer = <<>> /\ tcb.state = "Absent" /\ delivered = <<>>
  BY DEF Init, NoTcb
<1>2. Got(tcb, delivered) = 0 /\ delivered \o tcb.recv_buffer = <<>>
  BY <1>1 DEF Got
<1>3. Bytes(1, 0) = <<>>
  <2>1. Bytes(1, 0) \in Seq(Nat) /\ Len(Bytes(1, 0)) = 0
    BY BytesType
  <2>2. QED BY <2>1
<1>4. QED BY <1>1, <1>2, <1>3, ConnAssumption DEF StreamInv, Good, Prefix, Open, Passive, Init

\* A step of the stack that keeps the invariant of its TCB keeps it for the
\* connection.
LEMMA GoodApply ==
    ASSUME NEW s \in StepType, Good(s.tcb, delivered), Apply(s), UNCHANGED delivered
    PROVE  Good(tcb', delivered')
  BY GoodSent DEF Apply

\* send, of any number of bytes that the bound leaves.
LEMMA StreamInvSend ==
    ASSUME TypeOK, StreamInv, NEW n \in Nat, Send(n)
    PROVE  StreamInv'
<1> DEFINE data == Bytes(app_sent + 1, n)
<1>0. tcb \in Tcb /\ Good(tcb, delivered)
  BY DEF TypeOK, StreamInv
<1>1. n <= M /\ app_sent + 1 \in Nat \ {0}
  BY ConnAssumption, TcpAssumption DEF Send, TypeOK
<1>2. data \in Seq(Nat) /\ Len(data) <= M
  BY <1>1, BytesType
<1>3. Apply(socket_send(tcb, data)) /\ UNCHANGED <<opened, delivered>> /\ tcb.state # "Absent"
  BY DEF Send
<1> HIDE DEF data
<1>4. socket_send(tcb, data) \in StepType /\ Good(socket_send(tcb, data).tcb, delivered)
  BY <1>0, <1>2, SendType, GoodSend
<1>5. Good(tcb', delivered')
  BY <1>3, <1>4, GoodApply
<1>6. QED BY <1>3, <1>5 DEF StreamInv

\* Every step preserves the invariant.
LEMMA StreamInvStep == TypeOK /\ StreamInv /\ [Next]_vars => StreamInv'
<1> SUFFICES ASSUME TypeOK, StreamInv, [Next]_vars PROVE StreamInv'
  OBVIOUS
<1>0. tcb \in Tcb /\ delivered \in Seq(Nat) /\ opened \in BOOLEAN /\ Good(tcb, delivered)
  BY DEF TypeOK, StreamInv
<1>1. ASSUME NEW iss \in Iss, Connect(iss) PROVE StreamInv'
  <2> DEFINE s == initiate_connect(iss)
  <2>1. s \in StepType
    BY ConnectType, ConnAssumption
  <2>2. s.tcb.state = "SynSent" /\ s.tcb.recv_buffer = <<>>
    BY DEF initiate_connect, Step, NoTcb
  <2>3. delivered = <<>> /\ UNCHANGED delivered /\ opened' /\ Apply(s)
    BY <1>1 DEF Connect, StreamInv
  <2> HIDE DEF s
  <2>4. Got(s.tcb, delivered) = 0 /\ delivered \o s.tcb.recv_buffer = <<>>
    BY <2>2, <2>3 DEF Got
  <2>5. Bytes(1, 0) = <<>>
    <3>1. Bytes(1, 0) \in Seq(Nat) /\ Len(Bytes(1, 0)) = 0
      BY BytesType
    <3>2. QED BY <3>1
  <2>6. Good(s.tcb, delivered)
    BY <2>2, <2>4, <2>5, ConnAssumption DEF Good, Prefix, Open, Passive
  <2>7. QED BY <2>1, <2>3, <2>6, GoodApply DEF StreamInv
<1>2. ASSUME NEW n \in 0 .. MaxSend, Send(n) PROVE StreamInv'
  BY <1>2, StreamInvSend, ConnAssumption
<1>3. ASSUME Recv PROVE StreamInv'
  <2>1. tcb' = drain_data(tcb) /\ delivered' = delivered \o tcb.recv_buffer
        /\ UNCHANGED opened /\ tcb.state # "Absent"
    BY <1>3 DEF Recv
  <2>2. Good(tcb', delivered')
    BY <1>0, <2>1, GoodDrain
  <2>3. QED BY <2>1, <2>2 DEF StreamInv
<1>4. ASSUME Close PROVE StreamInv'
  <2>1. Apply(close(tcb)) /\ UNCHANGED <<opened, delivered>> /\ tcb.state # "Absent"
    BY <1>4 DEF Close
  <2>2. close(tcb) \in StepType /\ Good(close(tcb).tcb, delivered)
    BY <1>0, CloseType, GoodClose
  <2>3. QED BY <2>1, <2>2, GoodApply DEF StreamInv
<1>5. ASSUME NEW due \in BOOLEAN, Poll(due) PROVE StreamInv'
  <2>1. Apply(poll_retransmit(tcb, due)) /\ UNCHANGED <<opened, delivered>> /\ tcb.state # "Absent"
    BY <1>5 DEF Poll
  <2>2. /\ poll_retransmit(tcb, due) \in StepType
        /\ Good(poll_retransmit(tcb, due).tcb, delivered)
    BY <1>0, PollType, GoodPoll
  <2>3. QED BY <2>1, <2>2, GoodApply DEF StreamInv
<1>6. ASSUME NEW h \in PeerSegs, Receive(h) PROVE StreamInv'
  <2>1. Apply(process_existing_tcb(tcb, h)) /\ UNCHANGED <<opened, delivered>> /\ tcb.state # "Absent"
    BY <1>6 DEF Receive
  <2>2. Short(h) /\ Shape(h)
    BY PeerSegsShape
  <2>3. /\ process_existing_tcb(tcb, h) \in StepType
        /\ Good(process_existing_tcb(tcb, h).tcb, delivered)
    BY <1>0, <2>2, ProcessType, GoodProcess
  <2>4. QED BY <2>1, <2>3, GoodApply DEF StreamInv
<1>7. ASSUME UNCHANGED <<tcb, opened, delivered>> PROVE StreamInv'
  BY <1>7 DEF StreamInv
<1>8. CASE Peer \/ UNCHANGED vars
  BY <1>7, <1>8 DEF Peer, PeerSyn, PeerReceive, vars
<1>9. QED
  BY <1>1, <1>2, <1>3, <1>4, <1>5, <1>6, <1>8 DEF Next, App, Stack

\* The inductive invariant holds in every behaviour.
LEMMA StreamInvariant == Spec => []StreamInv
  BY StreamInvInit, StreamInvStep, TypeCorrect, PTL DEF Spec

\* In every behaviour what recv returned, followed by what it will return
\* next, is a prefix of the peer's stream: no loss, duplication, reordering or
\* different cut of the peer's segments makes the stack skip, repeat or
\* reorder a byte.
THEOREM ReceivesPrefix == Spec => []StreamPrefix
  BY StreamInvariant, StreamInvImplies, PTL

\* In every behaviour rcv_nxt, the number the stack acknowledges, is the one
\* right after the bytes it holds, and after a passive close the one after the
\* peer's FIN with no byte missing before it.
THEOREM AcknowledgesWhatItHolds == Spec => []AckMatchesBuffer
  BY StreamInvariant, StreamInvImplies, PTL

-----------------------------------------------------------------------------
(* The connection implements the byte stream *)

\* Bytes in front of two buffers can be dropped.
LEMMA Cancel ==
    ASSUME NEW d \in Seq(Nat), NEW x \in Seq(Nat), NEW y \in Seq(Nat), d \o x = d \o y
    PROVE  x = y
<1>1. Len(d \o x) = Len(d) + Len(x) /\ Len(d \o y) = Len(d) + Len(y)
  BY ConcatProperties
<1>2. Len(x) = Len(y) /\ Len(d) \in Nat /\ Len(x) \in Nat
  BY <1>1
<1>3. ASSUME NEW k \in 1 .. Len(x) PROVE x[k] = y[k]
  <2>1. Len(d) + k \in 1 .. Len(d) + Len(x) /\ ~(Len(d) + k <= Len(d)) /\ (Len(d) + k) - Len(d) = k
    BY <1>2
  <2>2. (d \o x)[Len(d) + k] = x[k] /\ (d \o y)[Len(d) + k] = y[k]
    BY <1>2, <2>1, ConcatProperties
  <2>3. QED BY <2>2
<1>4. QED BY <1>2, <1>3, SeqEqual

\* Of two prefixes of the stream with the same bytes in front the longer
\* continues the shorter.
LEMMA Continues ==
    ASSUME NEW t \in Tcb, NEW u \in Tcb, NEW d \in Seq(Nat), Good(t, d), Good(u, d),
           Len(t.recv_buffer) <= Len(u.recv_buffer)
    PROVE  \E n \in 0 .. PeerBytes :
              /\ Got(t, d) + n <= PeerBytes
              /\ u.recv_buffer = t.recv_buffer \o Bytes(Got(t, d) + 1, n)
              /\ n = 0 => u.recv_buffer = t.recv_buffer
<1> DEFINE b == t.recv_buffer
           c == u.recv_buffer
           g == Got(t, d)
           n == Len(c) - Len(b)
           m == Bytes(1 + g, n)
<1>1. b \in Seq(Nat) /\ c \in Seq(Nat)
  BY TcbFields
<1>2. /\ d \o b = Bytes(1, g) /\ g = Len(d) + Len(b)
      /\ d \o c = Bytes(1, Len(d) + Len(c)) /\ Len(d) + Len(c) <= PeerBytes
      /\ Len(b) <= Len(c)
  BY DEF Good, Prefix, Got
<1> HIDE DEF b, c, g
<1>3. /\ Len(b) \in Nat /\ Len(c) \in Nat /\ Len(d) \in Nat /\ g \in Nat
      /\ n \in 0 .. PeerBytes /\ n \in Nat /\ g + n = Len(d) + Len(c) /\ g + n <= PeerBytes
      /\ 1 + g \in Nat \ {0} /\ 1 \in Nat \ {0} /\ 1 + g = g + 1
  BY <1>1, <1>2, ConnAssumption
<1> HIDE DEF n
<1>4. Bytes(1, g) \o m = Bytes(1, g + n)
  BY <1>3, BytesConcat, Zenon
<1>5. m \in Seq(Nat) /\ Len(m) = n
  BY <1>3, BytesType
<1>6. d \o (b \o m) = d \o c
  <2> HIDE DEF m
  <2>1. (d \o b) \o m = d \o (b \o m)
    BY <1>1, <1>5, ConcatAssoc
  <2>2. QED BY <1>2, <1>3, <1>4, <2>1, Zenon
<1>7. c = b \o m
  <2> HIDE DEF m
  <2>1. b \o m \in Seq(Nat)
    BY <1>1, <1>5, ConcatType
  <2>2. QED BY <1>1, <1>6, <2>1, Cancel
<1>8. n = 0 => b \o m = b
  <2> HIDE DEF m
  <2>1. n = 0 => m = <<>>
    BY <1>5
  <2>2. QED BY <1>1, <2>1
<1>9. c = b \o Bytes(g + 1, n)
  BY <1>3, <1>7
<1>10. \E k \in 0 .. PeerBytes :
          /\ g + k <= PeerBytes
          /\ c = b \o Bytes(g + 1, k)
          /\ k = 0 => c = b
  <2> HIDE DEF m
  <2> n \in 0 .. PeerBytes
    BY <1>3
  <2> WITNESS n \in 0 .. PeerBytes
  <2> QED BY <1>3, <1>7, <1>8, <1>9
<1>11. QED BY <1>10 DEF b, c, g

\* A segment never shortens the receive buffer and never removes the TCB.
LEMMA ProcessGrows ==
    ASSUME NEW t \in Tcb, NEW h, Short(h), t.state # "Absent"
    PROVE  /\ Len(t.recv_buffer) <= Len(process_existing_tcb(t, h).tcb.recv_buffer)
           /\ process_existing_tcb(t, h).tcb.state # "Absent"
<1> DEFINE b == t.recv_buffer
           c == t.recv_buffer \o h.payload
<1>1. Len(b) <= Len(b) /\ Len(b) <= Len(c)
  <2>1. b \in Seq(Nat) /\ h.payload \in Seq(Nat)
    BY TcbFields, ShortFields
  <2>2. Len(b) \in Nat /\ Len(h.payload) \in Nat /\ Len(c) = Len(b) + Len(h.payload)
    BY <2>1, ConcatProperties
  <2> HIDE DEF b, c
  <2>3. QED BY <2>2
<1>2. ASSUME NEW u, u \in Tcb, u.recv_buffer = b, u.state # "Absent"
      PROVE  Buffered(u, h).recv_buffer \in {b, c} /\ Buffered(u, h).state # "Absent"
  BY <1>2 DEF Buffered, Tcb
<1> DEFINE p == process_existing_tcb(t, h).tcb
<1>3. p.recv_buffer \in {b, c} /\ p.state # "Absent"
  <2>1. CASE t.state = "SynSent"
    BY <2>1 DEF process_existing_tcb, OnSynSent, Step, Tcb
  <2>2. CASE t.state = "Established"
    <3> DEFINE u == EstablishedAck(t, h)
    <3>1. u \in Tcb /\ u.recv_buffer = b /\ u.state = t.state
      BY EstablishedAckType, EstablishedAckKeeps
    <3>2. p = OnEstablished(t, h).tcb
      BY <2>2 DEF process_existing_tcb
    <3> DEFINE v == [u EXCEPT !.recv_buffer = @ \o h.payload,
                              !.rcv_nxt = Add(h.seq, Len(h.payload) + One(h, "SYN") + One(h, "FIN")),
                              !.state = IF Has(h, "FIN") THEN "CloseWait" ELSE @]
    <3>3. p \in {u, v}
      BY <3>2 DEF OnEstablished, Step
    <3> HIDE DEF u
    <3>4. v.recv_buffer = c /\ v.state \in {"CloseWait", t.state}
      BY <3>1 DEF Tcb
    <3> HIDE DEF v
    <3>5. QED BY <2>2, <3>1, <3>3, <3>4
  <2>3. CASE t.state = "CloseWait"
    <3>1. p = Buffered(t, h)
      BY <2>3 DEF process_existing_tcb, OnCloseWait, Step
    <3>2. QED BY <1>2, <2>3, <3>1
  <2>4. CASE t.state = "FinWait1"
    <3> DEFINE acked == [t EXCEPT !.snd_una = h.ack, !.retransmit_at = "None", !.retransmit_count = 0]
               both  == [FinSeen(acked, h, "TimeWait") EXCEPT !.retransmit_at = "Some"]
               early == FinSeen(t, h, "Closing")
               moved == [acked EXCEPT !.state = "FinWait2"]
    <3>1. \/ p = both \/ p = early \/ p = Buffered(t, h)
          \/ p = Buffered(moved, h) /\ h.ack = t.snd_nxt
      BY <2>4 DEF process_existing_tcb, OnFinWait1, Step
    <3>2. /\ both.recv_buffer = b /\ both.state = "TimeWait"
          /\ early.recv_buffer = b /\ early.state = "Closing"
          /\ moved.recv_buffer = b /\ moved.state = "FinWait2"
      BY DEF FinSeen, Tcb
    <3>3. h.ack = t.snd_nxt => moved \in Tcb
      <4>1. h.ack = t.snd_nxt => acked \in Tcb
        BY TcbFields, Constants, WithUna
      <4> HIDE DEF acked
      <4>2. QED BY <4>1, WithState, Constants
    <3> HIDE DEF acked, both, early, moved
    <3>4. QED BY <1>2, <2>4, <3>1, <3>2, <3>3
  <2>5. CASE t.state = "FinWait2"
    <3> DEFINE u == [FinSeen(t, h, "TimeWait") EXCEPT !.retransmit_at = "Some"]
    <3>1. p = u \/ p = Buffered(t, h)
      BY <2>5 DEF process_existing_tcb, OnFinWait2, Step
    <3>2. u.recv_buffer = b /\ u.state = "TimeWait"
      BY DEF FinSeen, Tcb
    <3> HIDE DEF u
    <3>3. QED BY <1>2, <2>5, <3>1, <3>2
  <2>6. CASE t.state \notin {"SynSent", "Established", "CloseWait", "FinWait1", "FinWait2"}
    BY <2>6 DEF process_existing_tcb, OnLastAck, OnClosing, Step, Tcb
  <2>7. QED BY <2>1, <2>2, <2>3, <2>4, <2>5, <2>6
<1>4. QED
  <2> HIDE DEF b, c, p
  <2>1. Len(b) <= Len(p.recv_buffer) /\ p.state # "Absent"
    BY <1>1, <1>3
  <2>2. QED BY <2>1 DEF b, p

\* Sending the segments of a step leaves the receive buffer and the state.
LEMMA SentKeeps ==
    ASSUME NEW s \in StepType
    PROVE  Sent(s).recv_buffer = s.tcb.recv_buffer /\ Sent(s).state = s.tcb.state
  BY DEF Sent, record_sent, StepType, Tcb

\* The initial state is an initial state of the stream.
LEMMA RefineInit == Init => Stream!StreamInit
  BY DEF Init, NoTcb, Stream!StreamInit

\* Every step is a step of the stream or leaves it unchanged.
LEMMA RefineStep ==
    TypeOK /\ TypeOK' /\ StreamInv /\ StreamInv' /\ [Next]_vars
        => [Stream!StreamNext]_(Stream!streamVars)
<1> SUFFICES ASSUME TypeOK, TypeOK', StreamInv, StreamInv', [Next]_vars
             PROVE  [Stream!StreamNext]_(Stream!streamVars)
  OBVIOUS
<1>0. /\ tcb \in Tcb /\ tcb' \in Tcb /\ delivered \in Seq(Nat) /\ opened \in BOOLEAN
      /\ Good(tcb, delivered) /\ Good(tcb', delivered')
      /\ tcb.state # "Absent" => opened
  BY DEF TypeOK, StreamInv
<1> DEFINE Same == /\ tcb'.recv_buffer = tcb.recv_buffer /\ delivered' = delivered
                   /\ opened' = opened /\ (tcb'.state = "Absent") = (tcb.state = "Absent")
<1>1. ASSUME Same PROVE UNCHANGED Stream!streamVars
  BY <1>1 DEF Stream!streamVars
<1>2. ASSUME NEW iss \in Iss, Connect(iss) PROVE UNCHANGED Stream!streamVars
  <2>1. initiate_connect(iss) \in StepType /\ tcb' = Sent(initiate_connect(iss))
    BY <1>2, ConnectType, ConnAssumption DEF Connect, Apply
  <2>2. tcb'.recv_buffer = <<>> /\ tcb'.state = "SynSent"
    BY <2>1, SentKeeps DEF initiate_connect, Step, NoTcb
  <2>3. tcb.recv_buffer = <<>> /\ ~opened /\ delivered' = delivered
    BY <1>2 DEF Connect, StreamInv
  <2>4. QED BY <2>2, <2>3 DEF Stream!streamVars
<1>3. ASSUME NEW n \in 0 .. MaxSend, Send(n) PROVE Same
  <2> DEFINE data == Bytes(app_sent + 1, n)
             s == socket_send(tcb, data)
  <2>1. n \in Nat /\ n <= M /\ app_sent + 1 \in Nat \ {0}
    BY <1>3, ConnAssumption, TcpAssumption DEF Send, TypeOK
  <2>2. data \in Seq(Nat) /\ Len(data) <= M
    BY <2>1, BytesType
  <2>3. tcb' = Sent(s) /\ UNCHANGED <<opened, delivered>>
    BY <1>3 DEF Send, Apply
  <2> HIDE DEF data
  <2>4. s \in StepType /\ s.tcb.recv_buffer = tcb.recv_buffer /\ s.tcb.state = tcb.state
    <3>1. s \in StepType
      BY <1>0, <2>2, SendType
    <3>2. QED BY <1>0, <3>1 DEF socket_send, Step, Tcb
  <2> HIDE DEF s
  <2>5. QED BY <2>3, <2>4, SentKeeps
<1>4. ASSUME Recv PROVE Stream!Read
  <2>1. tcb'.recv_buffer = <<>> /\ tcb'.state = tcb.state
    BY <1>0, <1>4 DEF Recv, drain_data, Tcb
  <2>2. QED BY <1>4, <2>1 DEF Recv, Stream!Read
<1>5. ASSUME Close PROVE Same
  <2> DEFINE s == close(tcb)
  <2>1. s \in StepType /\ tcb' = Sent(s) /\ UNCHANGED <<opened, delivered>>
    BY <1>0, <1>5, CloseType DEF Close, Apply
  <2>2. s.tcb.recv_buffer = tcb.recv_buffer /\ s.tcb.state # "Absent" /\ tcb.state # "Absent"
    BY <1>0, <1>5 DEF Close, close, SendFin, Step, Tcb
  <2> HIDE DEF s
  <2>3. QED BY <2>1, <2>2, SentKeeps
<1>6. ASSUME NEW due \in BOOLEAN, Poll(due) PROVE Same \/ Stream!Cut
  <2> DEFINE s == poll_retransmit(tcb, due)
             e == Expire(tcb, due).tcb
  <2>1. s \in StepType /\ tcb' = Sent(s) /\ UNCHANGED <<opened, delivered>> /\ tcb.state # "Absent"
    BY <1>0, <1>6, PollType DEF Poll, Apply
  <2>2. e.recv_buffer = tcb.recv_buffer /\ e.state \in {tcb.state, "Closed"}
    BY <1>0 DEF Expire, Step, Tcb
  <2>3. s.tcb = Retain(e)
    BY DEF poll_retransmit, Step
  <2> HIDE DEF s, e
  <2>4. \/ s.tcb.recv_buffer = tcb.recv_buffer /\ s.tcb.state # "Absent"
        \/ s.tcb.recv_buffer = <<>> /\ s.tcb.state = "Absent"
    BY <2>1, <2>2, <2>3 DEF Retain, NoTcb
  <2>5. tcb'.recv_buffer = s.tcb.recv_buffer /\ tcb'.state = s.tcb.state
    BY <2>1, SentKeeps
  <2>6. QED BY <1>0, <2>1, <2>4, <2>5 DEF Stream!Cut
<1>7. ASSUME NEW h \in PeerSegs, Receive(h)
      PROVE  Same \/ \E n \in 1 .. PeerBytes : Stream!Deposit(n)
  <2> DEFINE s == process_existing_tcb(tcb, h)
  <2>1. Short(h) /\ Shape(h)
    BY PeerSegsShape
  <2>2. s \in StepType /\ tcb' = Sent(s) /\ UNCHANGED <<opened, delivered>> /\ tcb.state # "Absent"
    BY <1>0, <1>7, <2>1, ProcessType DEF Receive, Apply
  <2>3. Len(tcb.recv_buffer) <= Len(s.tcb.recv_buffer) /\ s.tcb.state # "Absent"
    BY <1>0, <2>1, <2>2, ProcessGrows
  <2> HIDE DEF s
  <2>4. tcb'.recv_buffer = s.tcb.recv_buffer /\ tcb'.state = s.tcb.state
    BY <2>2, SentKeeps
  <2>5. Good(tcb', delivered) /\ Len(tcb.recv_buffer) <= Len(tcb'.recv_buffer)
    BY <1>0, <2>2, <2>3, <2>4
  <2>6. PICK n \in 0 .. PeerBytes :
          /\ Got(tcb, delivered) + n <= PeerBytes
          /\ tcb'.recv_buffer = tcb.recv_buffer \o Bytes(Got(tcb, delivered) + 1, n)
          /\ n = 0 => tcb'.recv_buffer = tcb.recv_buffer
    BY <1>0, <2>5, Continues
  <2>7. CASE n = 0
    BY <2>2, <2>3, <2>4, <2>6, <2>7
  <2>8. CASE n # 0
    <3>1. n \in 1 .. PeerBytes
      BY <2>8, ConnAssumption
    <3>2. Stream!Run(Got(tcb, delivered) + 1, n) = Bytes(Got(tcb, delivered) + 1, n)
      BY DEF Stream!Run, Bytes
    <3>3. Stream!Deposit(n)
      BY <1>0, <2>2, <2>3, <2>4, <2>6, <3>2 DEF Stream!Deposit, Got
    <3>4. QED BY <3>1, <3>3
  <2>9. QED BY <2>7, <2>8
<1>8. CASE Peer \/ UNCHANGED vars
  <2>1. Same
    BY <1>8 DEF Peer, PeerSyn, PeerReceive, vars
  <2>2. QED BY <1>1, <2>1
<1> HIDE DEF Same
<1>9. QED
  BY <1>1, <1>2, <1>3, <1>4, <1>5, <1>6, <1>7, <1>8 DEF Next, App, Stack, Stream!StreamNext

\* The connection implements the byte stream: every behaviour of the stack,
\* its peer and the network, seen through the receive buffer and what recv
\* returned, is a behaviour of ByteStream.
THEOREM ImplementsByteStream == Spec => RefinesByteStream
<1>1. Spec => []TypeOK
  BY TypeCorrect
<1>2. Spec => []StreamInv
  BY StreamInvariant
<1>3. QED
  BY <1>1, <1>2, RefineInit, RefineStep, PTL DEF Spec, RefinesByteStream, Stream!StreamSpec

-----------------------------------------------------------------------------
(* The sending side: the invariant, of a TCB t, the number n of bytes      *)
(* taken from the application, and the number of bytes and FINs the peer   *)
(* has                                                                     *)

\* Sequence number after the first k bytes of our stream
OurSeq(t, k) == Add(t.iss, k + 1)

Sending == {"Established", "CloseWait"}
FinSent == {"FinWait1", "FinWait2", "Closing", "LastAck", "TimeWait"}
Later(t) == t.state \in FinSent \cup {"Closed"}

\* snd_una is a position of our stream that the peer has reached
Una(t, n, heard) == \E u \in 0 .. n + 1 : u <= heard /\ t.snd_una = OurSeq(t, u)

\* The buffer is what lies between snd_una and the end of the stream
Unacked(t, n, heard) ==
    \E u \in 0 .. n : /\ u <= heard
                      /\ t.snd_una = OurSeq(t, u)
                      /\ t.send_buffer = Bytes(u + 1, n - u)

SendGood(t, n, heard) ==
    /\ t.state = "SynSent" => /\ n = 0 /\ t.send_buffer = <<>>
                              /\ t.snd_una = t.iss /\ t.snd_nxt = OurSeq(t, 0)
    /\ t.state \in Sending => t.snd_nxt = OurSeq(t, n) /\ Unacked(t, n, heard)
    /\ t.state \in FinSent => t.snd_nxt = OurSeq(t, n + 1) /\ Una(t, n, heard)
    /\ t.state = "Closed" => t.snd_una = t.iss \/ Una(t, n, heard)

\* What a segment occupies: the SYN comes before the stream, data is within
\* it (its bytes need not be the right ones), and the FIN right after it,
\* once nothing more can be taken from the application
InPlace(g, t, n) ==
    LET control == g.flags \cap {"SYN", "FIN"} IN
    \/ control = {"SYN"} /\ g.seq = t.iss /\ g.payload = <<>>
    \/ control = {"FIN"} /\ g.seq = OurSeq(t, n) /\ g.payload = <<>> /\ Later(t)
    \/ /\ control = {}
       /\ g.payload # <<>> => \E p \in 0 .. n : g.seq = OurSeq(t, p) /\ p + Len(g.payload) <= n

Heard == Len(peer.got) + peer.fin

\* While the TCB is in the table; the peer knows our iss from a SYN
SendInv ==
    /\ tcb.state # "Absent" =>
         /\ SendGood(tcb, app_sent, Heard)
         /\ \A g \in wire : InPlace(g, tcb, app_sent)
         /\ peer.state # "Listen" => peer.irs = tcb.iss
         /\ Heard <= app_sent + 1
    /\ ~opened => /\ tcb.state = "Absent" /\ app_sent = 0 /\ wire = {}
                  /\ peer.state = "Listen" /\ Heard = 0

-----------------------------------------------------------------------------
(* Positions in our stream *)

\* Positions up to the one after the FIN have numbers of their own, and
\* Position finds them again.
LEMMA OurSeqPosition ==
    ASSUME NEW t, t.iss \in SeqNum, NEW k \in 0 .. AppBytes + 1
    PROVE  /\ OurSeq(t, k) \in SeqNum
           /\ Sub(OurSeq(t, k), Add(t.iss, 1)) = k
           /\ \A j \in 0 .. AppBytes + 1 : OurSeq(t, j) = OurSeq(t, k) => j = k
<1>1. k + 1 \in 0 .. M - 1 /\ k + 1 \in 0 .. M
  BY ConnAssumption, TcpAssumption
<1>2. OurSeq(t, k) \in SeqNum
  BY <1>1, AddType DEF OurSeq
<1>3. Sub(OurSeq(t, k), Add(t.iss, 1)) = k
  BY <1>1, TcpAssumption DEF OurSeq, Sub, Add, SeqNum
<1>4. ASSUME NEW j \in 0 .. AppBytes + 1, OurSeq(t, j) = OurSeq(t, k) PROVE j = k
  <2>1. j + 1 \in 0 .. M - 1
    BY ConnAssumption, TcpAssumption
  <2>2. j + 1 = k + 1
    BY <1>1, <1>4, <2>1, AddInjective DEF OurSeq
  <2>3. QED BY <2>2
<1>5. QED BY <1>2, <1>3, <1>4

\* Moving on in our stream, and one number back from after the FIN.
LEMMA OurSeqMove ==
    ASSUME NEW t, t.iss \in SeqNum, NEW k \in Nat, NEW m \in Nat, k + m <= AppBytes + 1
    PROVE  /\ Add(OurSeq(t, k), m) = OurSeq(t, k + m)
           /\ k <= AppBytes => Sub(OurSeq(t, k + 1), 1) = OurSeq(t, k)
<1>1. k + 1 \in 0 .. M - 1 /\ m \in 0 .. M - 1 /\ (k + 1) + m < M
  BY ConnAssumption, TcpAssumption
<1>2. Add(OurSeq(t, k), m) = Add(t.iss, (k + 1) + m)
  BY <1>1, AddAdd DEF OurSeq
<1>3. (k + 1) + m = (k + m) + 1
  OBVIOUS
<1>4. ASSUME k <= AppBytes PROVE Sub(OurSeq(t, k + 1), 1) = OurSeq(t, k)
  BY <1>4, <1>1, ConnAssumption, TcpAssumption DEF OurSeq, Add, Sub, SeqNum
<1>5. QED BY <1>2, <1>3, <1>4 DEF OurSeq

\* Nothing lies between a position and itself.
LEMMA NoBytes ==
    ASSUME NEW i \in Nat \ {0}
    PROVE  Bytes(i, 0) = <<>>
<1>1. Bytes(i, 0) \in Seq(Nat) /\ Len(Bytes(i, 0)) = 0
  BY BytesType
<1>2. QED BY <1>1

-----------------------------------------------------------------------------
(* What each function does to the sending side *)

\* A step that leaves the send fields alone and moves to a state of the same
\* kind or to Closed.
LEMMA SendMove ==
    ASSUME NEW t, NEW u, NEW n \in Nat, NEW heard \in Nat, SendGood(t, n, heard),
           u.iss = t.iss, u.snd_una = t.snd_una, u.snd_nxt = t.snd_nxt,
           u.send_buffer = t.send_buffer,
           \/ u.state = t.state
           \/ t.state \in Sending /\ u.state \in Sending
           \/ t.state \in FinSent /\ u.state \in FinSent
           \/ t.state \in FinSent \cup {"SynSent"} /\ u.state = "Closed"
    PROVE  SendGood(u, n, heard)
<1>1. \A k : OurSeq(u, k) = OurSeq(t, k)
  BY DEF OurSeq
<1>2. Una(u, n, heard) <=> Una(t, n, heard)
  BY <1>1 DEF Una
<1>3. Unacked(u, n, heard) <=> Unacked(t, n, heard)
  BY <1>1 DEF Unacked
<1>4. QED BY <1>1, <1>2, <1>3 DEF SendGood, Sending, FinSent

\* The peer having more is as good.
LEMMA SendHeard ==
    ASSUME NEW t, NEW n \in Nat, NEW a \in Nat, NEW b \in Nat, a <= b, SendGood(t, n, a)
    PROVE  SendGood(t, n, b)
<1>1. Una(t, n, a) => Una(t, n, b)
  BY DEF Una
<1>2. Unacked(t, n, a) => Unacked(t, n, b)
  BY DEF Unacked
<1>3. QED BY <1>1, <1>2 DEF SendGood

\* What a step of the stack must do: keep the invariant of the TCB, its
\* initial number and that a FIN was sent, and put what it sends in place
Keeps(t, s, n, heard) ==
    /\ SendGood(s.tcb, n, heard)
    /\ s.tcb.iss = t.iss
    /\ Later(t) => Later(s.tcb)
    /\ \A i \in 1 .. Len(s.out) : InPlace(s.out[i], s.tcb, n)

\* A step that sends nothing or a pure acknowledgement sends nothing that
\* has a place.
LEMMA KeepsQuiet ==
    ASSUME NEW t, NEW u, NEW out, NEW n \in Nat, NEW heard \in Nat, SendGood(u, n, heard),
           u.iss = t.iss, Later(t) => Later(u),
           out = <<>> \/ out = <<AckOf(u)>>
    PROVE  Keeps(t, Step(u, out), n, heard)
<1>1. InPlace(AckOf(u), u, n)
  <2>1. AckOf(u).flags \cap {"SYN", "FIN"} = {} /\ AckOf(u).payload = <<>>
    BY DEF AckOf, Seg
  <2>2. QED BY <2>1 DEF InPlace
<1>2. \A i \in 1 .. Len(out) : InPlace(out[i], u, n)
  <2>1. CASE out = <<>>
    BY <2>1
  <2>2. CASE out = <<AckOf(u)>>
    <3>1. Len(out) = 1 /\ out[1] = AckOf(u)
      BY <2>2
    <3>2. QED BY <1>1, <3>1
  <2>3. QED BY <2>1, <2>2
<1>3. QED BY <1>2 DEF Keeps, Step

\* An acknowledgement the peer may have sent, as our stream sees it
TrueAck(t, h, heard) == Has(h, "ACK") => \E k \in 0 .. heard : h.ack = OurSeq(t, k)

\* An acknowledgement of everything sent: the peer has it.
LEMMA AllAcked ==
    ASSUME NEW t, t.iss \in SeqNum, NEW h, NEW heard \in 0 .. AppBytes + 1,
           NEW k \in 0 .. AppBytes + 1,
           TrueAck(t, h, heard), Has(h, "ACK"), h.ack = OurSeq(t, k)
    PROVE  k <= heard
<1>1. PICK j \in 0 .. heard : h.ack = OurSeq(t, j)
  BY DEF TrueAck
<1>2. j \in 0 .. AppBytes + 1
  BY ConnAssumption
<1>3. j = k
  BY <1>1, <1>2, OurSeqPosition
<1>4. QED BY <1>3

\* SynSent: the SYN is acknowledged and our stream starts, or the connection
\* is closed before it did.
LEMMA SendSynSent ==
    ASSUME NEW t \in Tcb, NEW n \in 0 .. AppBytes, NEW heard \in 0 .. AppBytes + 1,
           SendGood(t, n, heard), t.state = "SynSent", NEW h
    PROVE  Keeps(t, OnSynSent(t, h), n, heard)
<1> DEFINE u == [t EXCEPT !.irs = h.seq, !.rcv_nxt = Add(h.seq, 1), !.snd_una = h.ack,
                          !.state = "Established", !.retransmit_at = "None",
                          !.retransmit_count = 0]
           c == [t EXCEPT !.state = "Closed"]
<1>1. n \in Nat /\ heard \in Nat
  BY ConnAssumption
<1>2. n = 0 /\ t.send_buffer = <<>> /\ t.snd_nxt = OurSeq(t, 0)
  BY DEF SendGood
<1>3. ASSUME h.ack = t.snd_nxt PROVE Keeps(t, Step(u, <<AckOf(u)>>), n, heard)
  <2>1. /\ u.iss = t.iss /\ u.snd_una = OurSeq(t, 0) /\ u.snd_nxt = OurSeq(t, 0)
        /\ u.send_buffer = <<>> /\ u.state = "Established"
    BY <1>2, <1>3 DEF Tcb
  <2> HIDE DEF u
  <2>2. OurSeq(u, 0) = OurSeq(t, 0)
    BY <2>1 DEF OurSeq
  <2>3. Bytes(0 + 1, 0 - 0) = <<>>
    BY NoBytes
  <2>4. Unacked(u, n, heard)
    BY <1>1, <1>2, <2>1, <2>2, <2>3 DEF Unacked
  <2>5. SendGood(u, n, heard)
    BY <1>2, <2>1, <2>2, <2>4 DEF SendGood, FinSent
  <2>6. ~Later(t)
    BY DEF Later, FinSent
  <2>7. QED BY <1>1, <2>1, <2>5, <2>6, KeepsQuiet
<1>4. Keeps(t, Step(c, <<>>), n, heard)
  <2>1. /\ c.iss = t.iss /\ c.snd_una = t.snd_una /\ c.snd_nxt = t.snd_nxt
        /\ c.send_buffer = t.send_buffer /\ c.state = "Closed"
    BY DEF Tcb
  <2> HIDE DEF c
  <2>2. SendGood(c, n, heard) /\ Later(c)
    BY <1>1, <2>1, SendMove DEF Later
  <2>3. QED BY <1>1, <2>1, <2>2, KeepsQuiet
<1>5. Keeps(t, Step(t, <<>>), n, heard)
  BY <1>1, KeepsQuiet
<1>6. [t EXCEPT !.state = t.state] = t
  BY DEF Tcb
<1>7. \/ OnSynSent(t, h) = Step(u, <<AckOf(u)>>) /\ h.ack = t.snd_nxt
      \/ OnSynSent(t, h) = Step(c, <<>>)
      \/ OnSynSent(t, h) = Step(t, <<>>)
  BY <1>6 DEF OnSynSent
<1>8. QED BY <1>3, <1>4, <1>5, <1>7

\* The acknowledgement of everything empties the buffer; no other one is
\* accepted, because the comparison is of unsigned numbers.
LEMMA SendEstablishedAck ==
    ASSUME NEW t \in Tcb, NEW n \in 0 .. AppBytes, NEW heard \in 0 .. AppBytes + 1,
           SendGood(t, n, heard), t.state = "Established",
           NEW h, Short(h), TrueAck(t, h, heard)
    PROVE  /\ SendGood(EstablishedAck(t, h), n, heard)
           /\ EstablishedAck(t, h).iss = t.iss
           /\ EstablishedAck(t, h).state = "Established"
           /\ EstablishedAck(t, h) = t \/ EstablishedAck(t, h).send_buffer = <<>>
<1> DEFINE acked == Sub(h.ack, t.snd_una)
           L == Len(t.send_buffer)
           trim == IF acked <= L THEN acked ELSE L
           done == h.ack = t.snd_nxt
           u == [t EXCEPT !.send_buffer = SubSeq(t.send_buffer, trim + 1, L),
                          !.snd_una = h.ack,
                          !.retransmit_at = IF done THEN "None" ELSE t.retransmit_at,
                          !.retransmit_count = IF done THEN 0 ELSE t.retransmit_count]
<1>1. n \in Nat /\ heard \in Nat /\ n \in 0 .. AppBytes + 1 /\ t.iss \in SeqNum /\ t.snd_nxt \in SeqNum
  BY ConnAssumption, TcbFields
<1>2. CASE ~(Has(h, "ACK") /\ acked > 0 /\ Sub(h.ack, t.snd_nxt) <= 0)
  BY <1>2 DEF EstablishedAck
<1>3. CASE Has(h, "ACK") /\ acked > 0 /\ Sub(h.ack, t.snd_nxt) <= 0
  <2>1. h.ack = t.snd_nxt
    BY <1>1, <1>3, TcpAssumption DEF Sub, SeqNum, Short
  <2>2. t.snd_nxt = OurSeq(t, n) /\ Unacked(t, n, heard)
    BY DEF SendGood, Sending
  <2>3. PICK w \in 0 .. n : t.snd_una = OurSeq(t, w) /\ t.send_buffer = Bytes(w + 1, n - w)
    BY <2>2 DEF Unacked
  <2>4. L = n - w /\ t.send_buffer \in Seq(Nat)
    <3>1. w + 1 \in Nat \ {0} /\ n - w \in Nat
      BY <1>1
    <3>2. QED BY <2>3, <3>1, BytesType
  <2>5. acked = n - w
    <3>1. w + 1 \in 0 .. M - 1 /\ n + 1 \in 0 .. M - 1 /\ w <= n
      BY <1>1, ConnAssumption, TcpAssumption
    <3>2. acked = Sub(Add(t.iss, n + 1), Add(t.iss, w + 1))
      BY <2>1, <2>2, <2>3 DEF OurSeq
    <3> HIDE DEF acked
    <3>3. QED BY <1>1, <3>1, <3>2, TcpAssumption DEF Add, Sub, SeqNum
  <2>6. trim = L
    BY <2>4, <2>5
  <2>7. SubSeq(t.send_buffer, trim + 1, L) = <<>>
    <3> HIDE DEF trim
    <3> QED BY <2>4, <2>6
  <2>8. n <= heard
    BY <1>1, <1>3, <2>1, <2>2, AllAcked
  <2>9. /\ u.iss = t.iss /\ u.snd_una = OurSeq(t, n) /\ u.snd_nxt = OurSeq(t, n)
        /\ u.send_buffer = <<>> /\ u.state = "Established"
    <3> HIDE DEF trim, done, L
    <3> QED BY <2>1, <2>2, <2>7 DEF Tcb
  <2>10. EstablishedAck(t, h) = u
    BY <1>3 DEF EstablishedAck
  <2> HIDE DEF u
  <2>11. OurSeq(u, n) = OurSeq(t, n)
    BY <2>9 DEF OurSeq
  <2>12. Bytes(n + 1, n - n) = <<>> /\ n \in 0 .. n
    <3>1. n - n = 0 /\ n + 1 \in Nat \ {0}
      BY <1>1
    <3>2. QED BY <1>1, <3>1, NoBytes
  <2>13. Unacked(u, n, heard)
    BY <2>8, <2>9, <2>11, <2>12 DEF Unacked
  <2>14. SendGood(u, n, heard)
    BY <2>9, <2>11, <2>13 DEF SendGood, FinSent
  <2>15. QED BY <2>9, <2>10, <2>14
<1>4. QED BY <1>2, <1>3

\* Established.
LEMMA SendEstablished ==
    ASSUME NEW t \in Tcb, NEW n \in 0 .. AppBytes, NEW heard \in 0 .. AppBytes + 1,
           SendGood(t, n, heard), t.state = "Established",
           NEW h, Short(h), TrueAck(t, h, heard)
    PROVE  Keeps(t, OnEstablished(t, h), n, heard)
<1> DEFINE u == EstablishedAck(t, h)
           len == Len(h.payload) + One(h, "SYN") + One(h, "FIN")
           s == IF Has(h, "FIN") THEN "CloseWait" ELSE u.state
           v == [u EXCEPT !.recv_buffer = u.recv_buffer \o h.payload,
                          !.rcv_nxt = Add(h.seq, len), !.state = s]
<1>1. u \in Tcb
  BY EstablishedAckType
<1>2. SendGood(u, n, heard) /\ u.iss = t.iss /\ u.state = "Established"
  BY SendEstablishedAck
<1>3. \/ OnEstablished(t, h) = Step(v, <<AckOf(v)>>)
      \/ OnEstablished(t, h) = Step(u, <<>>)
  BY DEF OnEstablished
<1>4. n \in Nat /\ heard \in Nat /\ ~Later(t)
  BY ConnAssumption DEF Later, FinSent
<1> HIDE DEF u
<1>5. /\ v.iss = u.iss /\ v.snd_una = u.snd_una /\ v.snd_nxt = u.snd_nxt
      /\ v.send_buffer = u.send_buffer /\ v.state \in Sending
  <2> HIDE DEF len
  <2> QED BY <1>1, <1>2 DEF Tcb, Sending
<1> HIDE DEF v
<1>6. SendGood(v, n, heard)
  BY <1>2, <1>4, <1>5, SendMove DEF Sending
<1>7. QED BY <1>2, <1>3, <1>4, <1>5, <1>6, KeepsQuiet

\* Buffering what arrives leaves the sending side alone.
LEMMA SendBuffered ==
    ASSUME NEW t \in Tcb, NEW h
    PROVE  /\ Buffered(t, h).iss = t.iss
           /\ Buffered(t, h).snd_una = t.snd_una /\ Buffered(t, h).snd_nxt = t.snd_nxt
           /\ Buffered(t, h).send_buffer = t.send_buffer /\ Buffered(t, h).state = t.state
  BY DEF Buffered, Tcb

\* CloseWait processes no acknowledgement.
LEMMA SendCloseWait ==
    ASSUME NEW t \in Tcb, NEW n \in Nat, NEW heard \in Nat, SendGood(t, n, heard), NEW h
    PROVE  Keeps(t, OnCloseWait(t, h), n, heard)
<1> DEFINE u == Buffered(t, h)
<1>1. SendGood(u, n, heard) /\ u.iss = t.iss /\ u.state = t.state
  BY SendBuffered, SendMove
<1>2. OnCloseWait(t, h) = Step(u, <<>>) \/ OnCloseWait(t, h) = Step(u, <<AckOf(u)>>)
  BY DEF OnCloseWait
<1> HIDE DEF u
<1>3. QED BY <1>1, <1>2, KeepsQuiet DEF Later

\* FinWait1: the acknowledgement of our FIN says that the peer has it; any
\* other leaves snd_una where it is.
LEMMA SendFinWait1 ==
    ASSUME NEW t \in Tcb, NEW n \in 0 .. AppBytes, NEW heard \in 0 .. AppBytes + 1,
           SendGood(t, n, heard), t.state = "FinWait1", NEW h, TrueAck(t, h, heard)
    PROVE  Keeps(t, OnFinWait1(t, h), n, heard)
<1> DEFINE acked == [t EXCEPT !.snd_una = h.ack, !.retransmit_at = "None", !.retransmit_count = 0]
           both == [FinSeen(acked, h, "TimeWait") EXCEPT !.retransmit_at = "Some"]
           early == FinSeen(t, h, "Closing")
           second == [acked EXCEPT !.state = "FinWait2"]
<1>1. n \in Nat /\ heard \in Nat /\ t.state \in FinSent /\ t.iss \in SeqNum
  BY ConnAssumption, TcbFields DEF FinSent
<1>2. t.snd_nxt = OurSeq(t, n + 1)
  BY <1>1 DEF SendGood
<1>3. /\ early.iss = t.iss /\ early.snd_una = t.snd_una /\ early.snd_nxt = t.snd_nxt
      /\ early.send_buffer = t.send_buffer /\ early.state = "Closing"
  BY DEF FinSeen, Tcb
<1>4. /\ both.iss = t.iss /\ both.snd_una = h.ack /\ both.snd_nxt = t.snd_nxt
      /\ both.state = "TimeWait"
  BY DEF FinSeen, Tcb
<1>5. /\ Buffered(second, h).iss = t.iss /\ Buffered(second, h).snd_una = h.ack
      /\ Buffered(second, h).snd_nxt = t.snd_nxt /\ Buffered(second, h).state = "FinWait2"
  BY DEF Buffered, Tcb
<1>6. \/ /\ OnFinWait1(t, h) = Step(both, <<AckOf(both)>>)
         /\ Has(h, "ACK") /\ h.ack = t.snd_nxt
      \/ /\ OnFinWait1(t, h) = Step(Buffered(second, h), <<>>)
         /\ Has(h, "ACK") /\ h.ack = t.snd_nxt
      \/ OnFinWait1(t, h) = Step(early, <<AckOf(early)>>)
      \/ OnFinWait1(t, h) = Step(Buffered(t, h), <<>>)
  BY DEF OnFinWait1
<1> HIDE DEF early, both, second
<1>7. ASSUME NEW u, u.iss = t.iss, u.snd_una = h.ack, u.snd_nxt = t.snd_nxt,
             u.state \in {"TimeWait", "FinWait2"}, Has(h, "ACK"), h.ack = t.snd_nxt
      PROVE  SendGood(u, n, heard) /\ Later(u)
  <2>1. n + 1 \in 0 .. AppBytes + 1 /\ n + 1 \in 0 .. n + 1
    BY <1>1, ConnAssumption
  <2>2. n + 1 <= heard
    BY <1>1, <1>2, <1>7, <2>1, AllAcked
  <2>3. OurSeq(u, n + 1) = OurSeq(t, n + 1)
    BY <1>7 DEF OurSeq
  <2>4. Una(u, n, heard)
    BY <1>2, <1>7, <2>1, <2>2, <2>3 DEF Una
  <2>5. QED BY <1>2, <1>7, <2>3, <2>4 DEF SendGood, Sending, FinSent, Later
<1>8. CASE OnFinWait1(t, h) = Step(both, <<AckOf(both)>>) /\ Has(h, "ACK") /\ h.ack = t.snd_nxt
  <2>1. SendGood(both, n, heard) /\ Later(both)
    BY <1>4, <1>7, <1>8
  <2>2. QED BY <1>1, <1>4, <1>8, <2>1, KeepsQuiet
<1>9. CASE OnFinWait1(t, h) = Step(Buffered(second, h), <<>>) /\ Has(h, "ACK") /\ h.ack = t.snd_nxt
  <2>1. SendGood(Buffered(second, h), n, heard) /\ Later(Buffered(second, h))
    BY <1>5, <1>7, <1>9
  <2>2. QED BY <1>1, <1>5, <1>9, <2>1, KeepsQuiet
<1>10. CASE OnFinWait1(t, h) = Step(early, <<AckOf(early)>>)
  <2>1. SendGood(early, n, heard) /\ Later(early)
    BY <1>1, <1>3, SendMove DEF FinSent, Later
  <2>2. QED BY <1>1, <1>3, <1>10, <2>1, KeepsQuiet
<1>11. CASE OnFinWait1(t, h) = Step(Buffered(t, h), <<>>)
  <2>1. SendGood(Buffered(t, h), n, heard) /\ Later(Buffered(t, h)) /\ Buffered(t, h).iss = t.iss
    BY <1>1, SendBuffered, SendMove DEF Later
  <2>2. QED BY <1>1, <1>11, <2>1, KeepsQuiet
<1>12. QED BY <1>6, <1>8, <1>9, <1>10, <1>11

\* FinWait2, Closing and LastAck leave snd_una where it is.
LEMMA SendClosing ==
    ASSUME NEW t \in Tcb, NEW n \in Nat, NEW heard \in Nat, SendGood(t, n, heard),
           t.state \in FinSent, NEW h
    PROVE  /\ Keeps(t, OnFinWait2(t, h), n, heard)
           /\ Keeps(t, OnClosing(t, h), n, heard)
           /\ Keeps(t, OnLastAck(t, h), n, heard)
<1> DEFINE w == [FinSeen(t, h, "TimeWait") EXCEPT !.retransmit_at = "Some"]
           c == [t EXCEPT !.state = "TimeWait", !.retransmit_at = "Some", !.retransmit_count = 0]
           l == [t EXCEPT !.state = "Closed", !.retransmit_at = "None"]
           b == Buffered(t, h)
<1>1. ASSUME NEW u, u.iss = t.iss, u.snd_una = t.snd_una, u.snd_nxt = t.snd_nxt,
             u.send_buffer = t.send_buffer, u.state \in {t.state, "TimeWait", "Closed"}
      PROVE  /\ Keeps(t, Step(u, <<>>), n, heard)
             /\ Keeps(t, Step(u, <<AckOf(u)>>), n, heard)
  <2>1. SendGood(u, n, heard) /\ Later(u)
    BY <1>1, SendMove DEF FinSent, Later
  <2>2. QED BY <1>1, <2>1, KeepsQuiet
<1>2. /\ w.iss = t.iss /\ w.snd_una = t.snd_una /\ w.snd_nxt = t.snd_nxt
      /\ w.send_buffer = t.send_buffer /\ w.state = "TimeWait"
  BY DEF FinSeen, Tcb
<1>3. /\ c.iss = t.iss /\ c.snd_una = t.snd_una /\ c.snd_nxt = t.snd_nxt
      /\ c.send_buffer = t.send_buffer /\ c.state = "TimeWait"
      /\ l.iss = t.iss /\ l.snd_una = t.snd_una /\ l.snd_nxt = t.snd_nxt
      /\ l.send_buffer = t.send_buffer /\ l.state = "Closed"
  BY DEF Tcb
<1>4. /\ b.iss = t.iss /\ b.snd_una = t.snd_una /\ b.snd_nxt = t.snd_nxt
      /\ b.send_buffer = t.send_buffer /\ b.state = t.state
  BY SendBuffered
<1>5. /\ OnFinWait2(t, h) = Step(w, <<AckOf(w)>>) \/ OnFinWait2(t, h) = Step(b, <<>>)
      /\ OnClosing(t, h) = Step(c, <<>>) \/ OnClosing(t, h) = Step(t, <<>>)
      /\ OnLastAck(t, h) = Step(l, <<>>) \/ OnLastAck(t, h) = Step(t, <<>>)
  BY DEF OnFinWait2, OnClosing, OnLastAck
<1> HIDE DEF w, c, l, b
<1>6. QED BY <1>1, <1>2, <1>3, <1>4, <1>5

\* Every segment the peer may have sent keeps the sending side right.
LEMMA SendProcess ==
    ASSUME NEW t \in Tcb, NEW n \in 0 .. AppBytes, NEW heard \in 0 .. AppBytes + 1,
           SendGood(t, n, heard), NEW h, Short(h), TrueAck(t, h, heard)
    PROVE  Keeps(t, process_existing_tcb(t, h), n, heard)
<1>0. n \in Nat /\ heard \in Nat
  BY ConnAssumption
<1>1. CASE t.state = "SynSent"
  BY <1>1, SendSynSent DEF process_existing_tcb
<1>2. CASE t.state = "Established"
  BY <1>2, SendEstablished DEF process_existing_tcb
<1>3. CASE t.state = "CloseWait"
  BY <1>0, <1>3, SendCloseWait DEF process_existing_tcb
<1>4. CASE t.state = "FinWait1"
  BY <1>4, SendFinWait1 DEF process_existing_tcb
<1>5. CASE t.state \in {"FinWait2", "Closing", "LastAck"}
  <2>1. t.state \in FinSent
    BY <1>5 DEF FinSent
  <2>2. QED BY <1>0, <1>5, <2>1, SendClosing DEF process_existing_tcb
<1>6. CASE t.state \notin {"SynSent", "Established", "CloseWait", "FinWait1", "FinWait2",
                           "LastAck", "Closing"}
  <2>1. process_existing_tcb(t, h) = Step(t, <<>>)
    BY <1>6 DEF process_existing_tcb
  <2>2. QED BY <1>0, <2>1, KeepsQuiet
<1>7. QED BY <1>1, <1>2, <1>3, <1>4, <1>5, <1>6

-----------------------------------------------------------------------------
(* Retransmission and the calls of the application *)

\* A retransmission is in place: the SYN at iss, the FIN one before snd_nxt,
\* and data from snd_una on, never past the end of our stream.
LEMMA RetransmitInPlace ==
    ASSUME NEW t \in Tcb, NEW n \in 0 .. AppBytes, NEW heard \in 0 .. AppBytes + 1,
           SendGood(t, n, heard)
    PROVE  InPlace(build_retransmit(t), t, n)
<1> DEFINE offset == Sub(t.snd_una, Add(t.iss, 1))
           payload == IF offset < Len(t.send_buffer)
                      THEN SubSeq(t.send_buffer, offset + 1, Len(t.send_buffer))
                      ELSE <<>>
           flags == IF payload = <<>> THEN {"ACK"} ELSE {"PSH", "ACK"}
           g == build_retransmit(t)
<1>1. n \in Nat /\ heard \in Nat /\ t.iss \in SeqNum
  BY ConnAssumption, TcbFields
<1>2. CASE t.state = "SynSent"
  <2>1. g.flags \cap {"SYN", "FIN"} = {"SYN"} /\ g.seq = t.iss /\ g.payload = <<>>
    BY <1>2 DEF build_retransmit, Seg
  <2>2. QED BY <2>1 DEF InPlace
<1>3. CASE t.state \in Sending
  <2>1. g = Seg(flags, t.snd_una, t.rcv_nxt, payload)
    BY <1>3 DEF build_retransmit, Sending
  <2>2. PICK u \in 0 .. n : t.snd_una = OurSeq(t, u) /\ t.send_buffer = Bytes(u + 1, n - u)
    BY <1>3 DEF SendGood, Unacked
  <2>3. offset = u
    <3>1. u \in 0 .. AppBytes + 1
      BY <1>1, ConnAssumption
    <3>2. QED BY <1>1, <2>2, <3>1, OurSeqPosition
  <2>4. t.send_buffer \in Seq(Nat) /\ Len(t.send_buffer) = n - u
    <3>1. u + 1 \in Nat \ {0} /\ n - u \in Nat
      BY <1>1
    <3>2. QED BY <2>2, <3>1, BytesType
  <2> HIDE DEF offset
  <2>5. ASSUME payload # <<>> PROVE Len(payload) = n - u - u /\ Len(payload) \in Nat
    <3>1. offset < Len(t.send_buffer) /\ u < n - u
      BY <2>3, <2>4, <2>5
    <3>2. payload = SubSeq(t.send_buffer, u + 1, n - u)
      BY <2>3, <2>4, <3>1
    <3> HIDE DEF payload
    <3>3. Len(SubSeq(t.send_buffer, u + 1, n - u)) = (n - u) - (u + 1) + 1
      BY <1>1, <2>4, <3>1
    <3>4. QED BY <1>1, <3>1, <3>2, <3>3
  <2>6. g.flags \cap {"SYN", "FIN"} = {} /\ g.seq = t.snd_una /\ g.payload = payload
    <3> HIDE DEF payload
    <3> QED BY <2>1 DEF Seg
  <2> HIDE DEF payload, g
  <2>7. payload # <<>> => u + Len(payload) <= n
    BY <1>1, <2>5
  <2>8. InPlace(g, t, n)
    BY <2>2, <2>6, <2>7 DEF InPlace
  <2>9. QED BY <2>8 DEF g
<1>4. CASE t.state \in {"FinWait1", "LastAck", "Closing"}
  <2>1. g = Seg({"FIN", "ACK"}, Sub(t.snd_nxt, 1), t.rcv_nxt, <<>>)
    BY <1>4 DEF build_retransmit
  <2>2. Later(t) /\ t.snd_nxt = OurSeq(t, n + 1)
    BY <1>4 DEF Later, FinSent, SendGood
  <2>3. Sub(t.snd_nxt, 1) = OurSeq(t, n)
    <3>1. n + 0 <= AppBytes + 1 /\ n <= AppBytes
      BY <1>1, ConnAssumption
    <3>2. QED BY <1>1, <2>2, <3>1, OurSeqMove
  <2>4. g.flags \cap {"SYN", "FIN"} = {"FIN"} /\ g.seq = OurSeq(t, n) /\ g.payload = <<>>
    BY <2>1, <2>3 DEF Seg
  <2>5. QED BY <2>2, <2>4 DEF InPlace
<1>5. CASE t.state \notin {"SynSent", "FinWait1", "LastAck", "Closing"} \cup Sending
  <2>1. g.flags \cap {"SYN", "FIN"} = {} /\ g.payload = <<>>
    BY <1>5 DEF build_retransmit, Seg, Sending
  <2>2. QED BY <2>1 DEF InPlace
<1>6. QED BY <1>2, <1>3, <1>4, <1>5

\* The retransmission pass keeps the sending side right or removes the TCB.
LEMMA SendPoll ==
    ASSUME NEW t \in Tcb, NEW n \in 0 .. AppBytes, NEW heard \in 0 .. AppBytes + 1,
           SendGood(t, n, heard), NEW due \in BOOLEAN
    PROVE  \/ Keeps(t, poll_retransmit(t, due), n, heard)
           \/ poll_retransmit(t, due).tcb = NoTcb
<1> DEFINE r == [t EXCEPT !.retransmit_at = "Some",
                          !.rto = IF 2 * t.rto <= MAX_RTO THEN 2 * t.rto ELSE MAX_RTO,
                          !.retransmit_count = t.retransmit_count + 1]
           c == [t EXCEPT !.state = "Closed"]
<1>1. n \in Nat /\ heard \in Nat
  BY ConnAssumption
<1>2. \/ Expire(t, due) = Step(t, <<>>)
      \/ Expire(t, due) = Step(c, <<>>)
      \/ /\ t.retransmit_count < MAX_RETRANSMITS
         /\ Expire(t, due) = Step(r, <<build_retransmit(r)>>)
  BY TcbFields, TcpAssumption DEF Expire
<1>3. CASE Expire(t, due) = Step(t, <<>>)
  <2>1. \/ poll_retransmit(t, due) = Step(t, <<>>)
        \/ poll_retransmit(t, due).tcb = NoTcb
    BY <1>3 DEF poll_retransmit, Retain, Step
  <2>2. QED BY <1>1, <2>1, KeepsQuiet
<1>4. CASE Expire(t, due) = Step(c, <<>>)
  <2>1. c.state = "Closed"
    BY DEF Tcb
  <2> HIDE DEF c
  <2>2. QED BY <1>4, <2>1 DEF poll_retransmit, Retain, Step
<1>5. CASE t.retransmit_count < MAX_RETRANSMITS /\ Expire(t, due) = Step(r, <<build_retransmit(r)>>)
  <2>1. /\ r.iss = t.iss /\ r.snd_una = t.snd_una /\ r.snd_nxt = t.snd_nxt
        /\ r.send_buffer = t.send_buffer /\ r.state = t.state
    BY DEF Tcb
  <2>2. r \in Tcb
    <3>1. t.retransmit_count + 1 \in 0 .. MAX_RETRANSMITS
      BY <1>5, TcbFields, TcpAssumption
    <3>2. (IF 2 * t.rto <= MAX_RTO THEN 2 * t.rto ELSE MAX_RTO) \in INITIAL_RTO .. MAX_RTO
      BY TcbFields, TcpAssumption
    <3>3. ASSUME NEW k \in 0 .. MAX_RETRANSMITS, NEW q \in INITIAL_RTO .. MAX_RTO,
                 NEW a \in {"None", "Some"}
          PROVE  [t EXCEPT !.retransmit_at = a, !.rto = q, !.retransmit_count = k] \in Tcb
      BY DEF Tcb
    <3>4. QED BY <3>1, <3>2, <3>3, Constants
  <2> HIDE DEF r
  <2>3. SendGood(r, n, heard)
    BY <1>1, <2>1, SendMove
  <2>4. InPlace(build_retransmit(r), r, n)
    BY <2>2, <2>3, RetransmitInPlace
  <2> DEFINE g == build_retransmit(r)
  <2> HIDE DEF g
  <2>5. \/ poll_retransmit(t, due) = Step(r, <<g>>)
        \/ poll_retransmit(t, due).tcb = NoTcb
    BY <1>5 DEF poll_retransmit, Retain, Step, g
  <2>6. Len(<<g>>) = 1 /\ <<g>>[1] = g
    OBVIOUS
  <2>7. Keeps(t, Step(r, <<g>>), n, heard)
    BY <2>1, <2>3, <2>4, <2>6 DEF Keeps, Step, Later, g
  <2>8. QED BY <2>5, <2>7
<1>6. QED BY <1>2, <1>3, <1>4, <1>5

\* A step that sends one segment.
LEMMA KeepsOne ==
    ASSUME NEW t, NEW u, NEW g, NEW n \in Nat, NEW heard \in Nat, SendGood(u, n, heard),
           u.iss = t.iss, Later(t) => Later(u), InPlace(g, u, n)
    PROVE  Keeps(t, Step(u, <<g>>), n, heard)
<1>1. Len(<<g>>) = 1 /\ <<g>>[1] = g
  OBVIOUS
<1>2. QED BY <1>1 DEF Keeps, Step

\* Our FIN takes the number after the last byte.
LEMMA SendSendFin ==
    ASSUME NEW t \in Tcb, NEW n \in 0 .. AppBytes, NEW heard \in 0 .. AppBytes + 1,
           SendGood(t, n, heard), t.state \in Sending, NEW next \in {"FinWait1", "LastAck"}
    PROVE  Keeps(t, SendFin(t, next), n, heard)
<1> DEFINE u == [t EXCEPT !.state = next, !.snd_nxt = Add(t.snd_nxt, 1), !.retransmit_at = "Some"]
           g == Seg({"FIN", "ACK"}, t.snd_nxt, t.rcv_nxt, <<>>)
<1>1. n \in Nat /\ heard \in Nat /\ t.iss \in SeqNum
  BY ConnAssumption, TcbFields
<1>2. t.snd_nxt = OurSeq(t, n) /\ Unacked(t, n, heard)
  BY DEF SendGood
<1>3. Add(t.snd_nxt, 1) = OurSeq(t, n + 1)
  <2>1. n + 1 <= AppBytes + 1 /\ 1 \in Nat
    BY <1>1, ConnAssumption
  <2>2. QED BY <1>1, <1>2, <2>1, OurSeqMove
<1>4. /\ u.iss = t.iss /\ u.snd_una = t.snd_una /\ u.snd_nxt = OurSeq(t, n + 1)
      /\ u.state = next
  BY <1>3 DEF Tcb
<1>5. g.flags \cap {"SYN", "FIN"} = {"FIN"} /\ g.seq = OurSeq(t, n) /\ g.payload = <<>>
  BY <1>2 DEF Seg
<1>6. SendFin(t, next) = Step(u, <<g>>)
  BY DEF SendFin
<1> HIDE DEF u, g
<1>7. \A k : OurSeq(u, k) = OurSeq(t, k)
  BY <1>4 DEF OurSeq
<1>8. Una(u, n, heard)
  <2>1. PICK w \in 0 .. n : w <= heard /\ t.snd_una = OurSeq(t, w)
    BY <1>2 DEF Unacked
  <2>2. w \in 0 .. n + 1
    BY <1>1
  <2>3. QED BY <1>4, <1>7, <2>1, <2>2 DEF Una
<1>9. SendGood(u, n, heard) /\ Later(u)
  BY <1>4, <1>7, <1>8 DEF SendGood, Sending, FinSent, Later
<1>10. InPlace(g, u, n)
  BY <1>5, <1>7, <1>9 DEF InPlace
<1>11. QED BY <1>1, <1>4, <1>6, <1>9, <1>10, KeepsOne

\* close.
LEMMA SendClose ==
    ASSUME NEW t \in Tcb, NEW n \in 0 .. AppBytes, NEW heard \in 0 .. AppBytes + 1,
           SendGood(t, n, heard)
    PROVE  Keeps(t, close(t), n, heard)
<1> DEFINE c == [t EXCEPT !.state = "Closed"]
           g == Seg({"RST"}, t.snd_nxt, 0, <<>>)
<1>1. n \in Nat /\ heard \in Nat
  BY ConnAssumption
<1>2. CASE t.state \in Sending
  <2>1. close(t) = SendFin(t, "FinWait1") \/ close(t) = SendFin(t, "LastAck")
    BY <1>2 DEF close, Sending
  <2>2. QED BY <1>2, <2>1, SendSendFin
<1>3. CASE t.state \in {"Absent", "Closed", "TimeWait"}
  <2>1. close(t) = Step(t, <<>>)
    BY <1>3 DEF close
  <2>2. QED BY <1>1, <2>1, KeepsQuiet
<1>4. CASE t.state \in {"SynSent", "FinWait1", "FinWait2", "Closing", "LastAck"}
  <2>1. close(t) = Step(c, <<g>>)
    BY <1>4 DEF close
  <2>2. /\ c.iss = t.iss /\ c.snd_una = t.snd_una /\ c.snd_nxt = t.snd_nxt
        /\ c.send_buffer = t.send_buffer /\ c.state = "Closed"
    BY DEF Tcb
  <2>3. g.flags \cap {"SYN", "FIN"} = {} /\ g.payload = <<>>
    BY DEF Seg
  <2> HIDE DEF c, g
  <2>4. SendGood(c, n, heard) /\ Later(c)
    BY <1>1, <1>4, <2>2, SendMove DEF FinSent, Later
  <2>5. InPlace(g, c, n)
    BY <2>3 DEF InPlace
  <2>6. QED BY <1>1, <2>1, <2>2, <2>4, <2>5, KeepsOne
<1>5. QED BY <1>2, <1>3, <1>4, TcbFields DEF TcpState, Sending

\* send: the new bytes go to the end of the stream and of the buffer.
LEMMA SendSend ==
    ASSUME NEW t \in Tcb, NEW n \in 0 .. AppBytes, NEW heard \in 0 .. AppBytes + 1,
           SendGood(t, n, heard), t.state = "Established",
           NEW k \in Nat, n + k <= AppBytes
    PROVE  Keeps(t, socket_send(t, Bytes(n + 1, k)), n + k, heard)
<1> DEFINE data == Bytes(n + 1, k)
           u == [t EXCEPT !.snd_nxt = Add(t.snd_nxt, Len(data)),
                          !.send_buffer = t.send_buffer \o data]
           g == Seg({"PSH", "ACK"}, t.snd_nxt, t.rcv_nxt, data)
<1>1. n \in Nat /\ heard \in Nat /\ n + k \in Nat /\ t.iss \in SeqNum /\ n + 1 \in Nat \ {0}
  BY ConnAssumption, TcbFields
<1>2. t.snd_nxt = OurSeq(t, n) /\ Unacked(t, n, heard)
  BY DEF SendGood, Sending
<1>3. Len(data) = k /\ data \in Seq(Nat)
  BY <1>1, BytesType
<1>4. Add(t.snd_nxt, k) = OurSeq(t, n + k)
  <2>1. n + k <= AppBytes + 1
    BY <1>1, ConnAssumption
  <2>2. QED BY <1>1, <1>2, <2>1, OurSeqMove
<1>5. PICK w \in 0 .. n : /\ w <= heard /\ t.snd_una = OurSeq(t, w)
                          /\ t.send_buffer = Bytes(w + 1, n - w)
  BY <1>2 DEF Unacked
<1>6. t.send_buffer \o data = Bytes(w + 1, (n + k) - w)
  <2>1. w + 1 \in Nat \ {0} /\ n - w \in Nat /\ (w + 1) + (n - w) = n + 1
        /\ (n - w) + k = (n + k) - w
    BY <1>1
  <2>2. Bytes(w + 1, n - w) \o Bytes((w + 1) + (n - w), k) = Bytes(w + 1, (n - w) + k)
    BY <2>1, BytesConcat
  <2>3. QED BY <1>5, <2>1, <2>2
<1>7. socket_send(t, data) = Step(u, <<g>>)
  BY DEF socket_send
<1> HIDE DEF data
<1>8. /\ u.iss = t.iss /\ u.snd_una = t.snd_una /\ u.snd_nxt = OurSeq(t, n + k)
      /\ u.send_buffer = Bytes(w + 1, (n + k) - w) /\ u.state = "Established"
  <2>1. /\ u.iss = t.iss /\ u.snd_una = t.snd_una /\ u.snd_nxt = Add(t.snd_nxt, Len(data))
        /\ u.send_buffer = t.send_buffer \o data /\ u.state = t.state
    BY DEF Tcb
  <2> HIDE DEF u
  <2>2. QED BY <1>3, <1>4, <1>6, <2>1
<1>9. g.flags \cap {"SYN", "FIN"} = {} /\ g.seq = OurSeq(t, n) /\ g.payload = data
  BY <1>2 DEF Seg
<1> HIDE DEF u, g
<1>10. \A j : OurSeq(u, j) = OurSeq(t, j)
  BY <1>8 DEF OurSeq
<1>11. w \in 0 .. n + k /\ n \in 0 .. n + k
  BY <1>1
<1>12. Unacked(u, n + k, heard)
  BY <1>5, <1>8, <1>10, <1>11 DEF Unacked
<1>13. SendGood(u, n + k, heard) /\ ~Later(t)
  BY <1>8, <1>10, <1>12 DEF SendGood, FinSent, Later
<1>14. InPlace(g, u, n + k)
  <2>1. n + Len(data) <= n + k
    BY <1>1, <1>3
  <2>2. QED BY <1>9, <1>10, <1>11, <2>1 DEF InPlace
<1>15. Keeps(t, Step(u, <<g>>), n + k, heard)
  BY <1>1, <1>8, <1>13, <1>14, KeepsOne
<1>16. QED BY <1>7, <1>15 DEF data

-----------------------------------------------------------------------------
(* The connection *)

\* A segment in place stays there as long as the stream does not grow past a
\* FIN.
LEMMA StaysInPlace ==
    ASSUME NEW g, NEW t, NEW u, NEW n \in Nat, NEW m \in Nat, InPlace(g, t, n),
           u.iss = t.iss, Later(t) => Later(u), n <= m, n = m \/ ~Later(t)
    PROVE  InPlace(g, u, m)
<1>1. \A k : OurSeq(u, k) = OurSeq(t, k)
  BY DEF OurSeq
<1>2. ASSUME NEW p \in 0 .. n, p + Len(g.payload) <= n, Len(g.payload) \in Int
      PROVE  p \in 0 .. m /\ p + Len(g.payload) <= m
  BY <1>2
<1>3. QED BY <1>1, <1>2 DEF InPlace

\* A step of the stack that keeps the sending side right keeps the
\* connection's invariant.
LEMMA SendApply ==
    ASSUME TypeOK, SendInv, tcb.state # "Absent",
           NEW s \in StepType, NEW m \in Nat, Keeps(tcb, s, m, Heard), Apply(s),
           app_sent' = m, app_sent <= m, app_sent = m \/ ~Later(tcb),
           UNCHANGED <<opened, peer>>
    PROVE  SendInv'
<1>1. /\ s.tcb \in Tcb /\ app_sent \in Nat
      /\ Heard' = Heard /\ Heard \in Nat /\ peer' = peer /\ opened' = opened
  BY DEF StepType, TypeOK, Heard
<1>2. /\ tcb'.iss = s.tcb.iss /\ tcb'.snd_una = s.tcb.snd_una /\ tcb'.snd_nxt = s.tcb.snd_nxt
      /\ tcb'.send_buffer = s.tcb.send_buffer /\ tcb'.state = s.tcb.state
  BY <1>1 DEF Apply, Sent, record_sent, Tcb
<1>3. SendGood(tcb', m, Heard)
  BY <1>1, <1>2, SendMove DEF Keeps
<1>4. /\ tcb'.iss = tcb.iss
      /\ Later(tcb) => Later(tcb')
      /\ Later(s.tcb) => Later(tcb')
  BY <1>2 DEF Keeps, Later
<1>5. ASSUME NEW g \in wire PROVE InPlace(g, tcb', m)
  <2>1. InPlace(g, tcb, app_sent)
    BY DEF SendInv
  <2>2. QED BY <1>1, <1>4, <2>1, StaysInPlace
<1>6. ASSUME NEW g \in Carried(s.out) PROVE InPlace(g, tcb', m)
  <2>1. PICK i \in 1 .. Len(s.out) :
            g = [flags |-> s.out[i].flags \cap {"SYN", "FIN"}, seq |-> s.out[i].seq,
                 payload |-> s.out[i].payload]
    BY DEF Carried
  <2>2. InPlace(s.out[i], s.tcb, m)
    BY DEF Keeps
  <2>3. /\ g.flags \cap {"SYN", "FIN"} = s.out[i].flags \cap {"SYN", "FIN"}
        /\ g.seq = s.out[i].seq /\ g.payload = s.out[i].payload
    BY <2>1
  <2>4. InPlace(g, s.tcb, m)
    BY <2>2, <2>3 DEF InPlace
  <2>5. m <= m /\ tcb'.iss = s.tcb.iss
    BY <1>2
  <2>6. QED BY <1>4, <2>4, <2>5, StaysInPlace
<1>7. \A g \in wire' : InPlace(g, tcb', m)
  BY <1>5, <1>6 DEF Apply
<1>8. Heard <= m + 1 /\ (peer.state # "Listen" => peer.irs = tcb'.iss) /\ opened
  BY <1>1, <1>4 DEF SendInv
<1>9. /\ SendGood(tcb', app_sent', Heard')
      /\ \A g \in wire' : InPlace(g, tcb', app_sent')
      /\ peer'.state # "Listen" => peer'.irs = tcb'.iss
      /\ Heard' <= app_sent' + 1 /\ opened'
  BY <1>1, <1>3, <1>7, <1>8
<1>10. QED BY <1>9 DEF SendInv

\* What the peer acknowledges it has.
LEMMA PeerSegsTrueAck ==
    ASSUME TypeOK, SendInv, tcb.state # "Absent", NEW h \in PeerSegs
    PROVE  TrueAck(tcb, h, Heard)
<1>1. Heard \in Nat /\ peer.irs = tcb.iss
  <2>1. peer.state # "Listen"
    BY DEF PeerSegs
  <2>2. QED BY <2>1 DEF TypeOK, Heard, SendInv
<1>2. 0 \in 0 .. Heard /\ Add(peer.irs, 1) = OurSeq(tcb, 0)
  <2>1. 0 + 1 = 1
    OBVIOUS
  <2>2. QED BY <1>1, <2>1 DEF OurSeq
<1>3. ASSUME NEW a \in PeerAcks PROVE \E k \in 0 .. Heard : a = OurSeq(tcb, k)
  <2>1. PICK k \in 0 .. Heard : a = Add(peer.irs, 1 + k)
    BY DEF PeerAcks, Heard
  <2>2. 1 + k = k + 1
    BY <1>1
  <2>3. QED BY <1>1, <2>1, <2>2 DEF OurSeq
<1>4. CASE peer.state = "Refused"
  <2>1. h.ack = Add(peer.irs, 1)
    BY <1>4 DEF PeerSegs, Seg
  <2>2. QED BY <1>2, <2>1 DEF TrueAck
<1>5. CASE peer.state \notin {"Listen", "Refused"}
  <2>1. \/ h = Seg({"SYN", "ACK"}, PeerIss, Add(peer.irs, 1), <<>>)
        \/ \E a \in PeerAcks : h \in PeerData(a) \cup PeerFin({"FIN", "ACK"}, a) \cup PeerControl(a)
        \/ h \in PeerFin({"FIN"}, 0)
    BY <1>5 DEF PeerSegs
  <2>2. CASE h = Seg({"SYN", "ACK"}, PeerIss, Add(peer.irs, 1), <<>>)
    <3>1. h.ack = Add(peer.irs, 1)
      BY <2>2 DEF Seg
    <3>2. QED BY <1>2, <3>1 DEF TrueAck
  <2>3. CASE h \in PeerFin({"FIN"}, 0)
    <3>1. h.flags = {"FIN"}
      BY <2>3 DEF PeerFin, Seg
    <3>2. QED BY <3>1 DEF TrueAck, Has
  <2>4. ASSUME NEW a \in PeerAcks, h \in PeerData(a) \cup PeerFin({"FIN", "ACK"}, a) \cup PeerControl(a)
        PROVE  TrueAck(tcb, h, Heard)
    <3>1. h.ack = a
      BY <2>4 DEF PeerData, PeerFin, PeerControl, Seg
    <3>2. QED BY <1>3, <3>1 DEF TrueAck
  <2>5. QED BY <2>1, <2>2, <2>3, <2>4
<1>6. QED BY <1>4, <1>5 DEF PeerSegs

\* connect: the SYN is the first segment on the wire.
LEMMA SendConnect ==
    ASSUME TypeOK, SendInv, NEW iss \in Iss, Connect(iss)
    PROVE  SendInv'
<1> DEFINE t == [NoTcb EXCEPT !.state = "SynSent", !.iss = iss, !.snd_una = iss,
                              !.snd_nxt = Add(iss, 1), !.retransmit_at = "Some"]
           g == Seg({"SYN"}, iss, 0, <<>>)
<1>1. /\ t.state = "SynSent" /\ t.iss = iss /\ t.snd_una = iss /\ t.snd_nxt = Add(iss, 1)
      /\ t.send_buffer = <<>>
  BY DEF NoTcb
<1>2. initiate_connect(iss) = Step(t, <<g>>)
  BY DEF initiate_connect
<1>3. t.retransmit_at = "Some"
  BY DEF NoTcb
<1>4. g.flags \cap {"SYN", "FIN"} = {"SYN"} /\ g.seq = iss /\ g.payload = <<>>
  BY DEF Seg
<1>5. ~opened /\ opened' /\ UNCHANGED <<app_sent, peer>> /\ Apply(Step(t, <<g>>))
  BY <1>2 DEF Connect
<1> HIDE DEF t, g
<1>6. app_sent' = 0 /\ wire = {} /\ peer'.state = "Listen" /\ Heard' = 0
  BY <1>5 DEF SendInv, Heard
<1>7. tcb' = t
  BY <1>3, <1>5 DEF Apply, Sent, record_sent, Step
<1>8. OurSeq(t, 0) = Add(iss, 1)
  <2>1. 0 + 1 = 1
    OBVIOUS
  <2>2. QED BY <1>1, <2>1 DEF OurSeq
<1>9. SendGood(t, 0, 0)
  BY <1>1, <1>8 DEF SendGood, Sending, FinSent
<1>10. ASSUME NEW w \in wire' PROVE InPlace(w, t, 0)
  <2>1. w \in Carried(<<g>>)
    BY <1>5, <1>6 DEF Apply, Step
  <2>2. Len(<<g>>) = 1 /\ <<g>>[1] = g
    OBVIOUS
  <2>3. w = [flags |-> g.flags \cap {"SYN", "FIN"}, seq |-> g.seq, payload |-> g.payload]
    BY <2>1, <2>2 DEF Carried
  <2>4. w.flags \cap {"SYN", "FIN"} = {"SYN"} /\ w.seq = iss /\ w.payload = <<>>
    BY <1>4, <2>3
  <2>5. QED BY <1>1, <2>4 DEF InPlace
<1>11. /\ SendGood(tcb', app_sent', Heard')
       /\ \A w \in wire' : InPlace(w, tcb', app_sent')
       /\ peer'.state = "Listen" /\ Heard' <= app_sent' + 1
  BY <1>6, <1>7, <1>9, <1>10
<1>12. QED BY <1>5, <1>11 DEF SendInv

\* The peer takes a segment: it never has more than we sent.
LEMMA SendPeerReceive ==
    ASSUME TypeOK, SendInv, NEW s \in wire, PeerReceive(s)
    PROVE  SendInv'
<1> DEFINE want == Len(peer.got)
           pos == Sub(s.seq, Add(peer.irs, 1))
           len == Len(s.payload)
           more == SubSeq(s.payload, want - pos + 1, len)
<1>1. /\ s.seq \in SeqNum /\ s.payload \in Seq(Nat) /\ s.flags \subseteq {"SYN", "FIN"}
      /\ peer.got \in Seq(Nat) /\ peer.irs \in SeqNum /\ app_sent \in 0 .. AppBytes
      /\ app_sent \in Nat /\ len \in Nat /\ want \in Nat /\ tcb \in Tcb /\ tcb.iss \in SeqNum
  BY TcbFields DEF TypeOK, WireSegment
<1>2. /\ peer.state = "Open" /\ peer.fin = 0 /\ "SYN" \notin s.flags
      /\ pos <= want /\ want <= pos + len
      /\ peer' = [peer EXCEPT !.got = @ \o more, !.fin = One(s, "FIN")]
      /\ UNCHANGED <<tcb, opened, app_sent, wire>>
  BY DEF PeerReceive
<1>3. opened
  BY <1>2 DEF SendInv
<1>4. pos \in Nat
  <2>1. Add(peer.irs, 1) \in SeqNum
    BY <1>1, AddType, Constants
  <2>2. pos \in SeqNum
    BY <1>1, <2>1, SubType
  <2> HIDE DEF pos
  <2>3. QED BY <2>2 DEF SeqNum
<1>5. /\ peer'.got = peer.got \o more /\ peer'.fin = One(s, "FIN")
      /\ peer'.irs = peer.irs /\ peer'.state = peer.state
  <2> HIDE DEF more
  <2> QED BY <1>2 DEF TypeOK
<1> HIDE DEF pos, want, len, more
<1>6. Len(peer'.got) = pos + len
  <2> DEFINE from == want - pos + 1
  <2>1. from \in 1 .. len + 1
    BY <1>1, <1>2, <1>4
  <2>2. more = SubSeq(s.payload, from, len) /\ len = Len(s.payload)
    BY DEF len, more
  <2> HIDE DEF from
  <2>3. \A i \in from .. len : s.payload[i] \in Nat
    <3>1. \A i \in 1 .. Len(s.payload) : s.payload[i] \in Nat
      BY <1>1
    <3>2. \A i \in from .. len : i \in 1 .. len
      BY <1>1, <2>1
    <3>3. QED BY <2>2, <3>1, <3>2
  <2>4. more \in Seq(Nat) /\ Len(more) = IF from <= len THEN len - from + 1 ELSE 0
    BY <1>1, <2>1, <2>2, <2>3, SubSeqProperties
  <2>5. Len(more) = len - from + 1
    BY <1>1, <2>1, <2>4
  <2>6. Len(peer'.got) = want + Len(more)
    BY <1>1, <1>5, <2>4, ConcatProperties DEF want
  <2>7. QED BY <1>1, <1>4, <2>1, <2>5, <2>6 DEF from
<1>7. Heard = want /\ Heard' = pos + len + One(s, "FIN")
  <2>1. Heard = Len(peer.got) + peer.fin /\ Heard' = Len(peer'.got) + peer'.fin
    BY DEF Heard
  <2>2. Heard = want
    BY <1>1, <1>2, <2>1 DEF want
  <2>3. QED BY <1>5, <1>6, <2>1, <2>2
<1>8. ASSUME tcb.state # "Absent"
      PROVE  /\ SendGood(tcb', app_sent', Heard')
             /\ \A g \in wire' : InPlace(g, tcb', app_sent')
             /\ peer'.irs = tcb'.iss
             /\ Heard' <= app_sent' + 1
  <2>1. /\ SendGood(tcb, app_sent, Heard) /\ InPlace(s, tcb, app_sent) /\ peer.irs = tcb.iss
        /\ Heard <= app_sent + 1 /\ \A g \in wire : InPlace(g, tcb, app_sent)
    BY <1>2, <1>8 DEF SendInv
  <2>2. One(s, "FIN") \in {0, 1} /\ Heard <= Heard' /\ Heard \in Nat /\ Heard' \in Nat
    BY <1>1, <1>2, <1>4, <1>7 DEF One
  <2>3. Heard' <= app_sent + 1
    <3>1. ASSUME NEW p \in 0 .. app_sent, s.seq = OurSeq(tcb, p) PROVE pos = p
      <4>1. p \in 0 .. AppBytes + 1
        BY <1>1, ConnAssumption
      <4>2. QED BY <1>1, <2>1, <3>1, <4>1, OurSeqPosition DEF pos
    <3>2. s.flags \cap {"SYN", "FIN"} = s.flags
      BY <1>1
    <3>3. CASE s.flags = {"FIN"} /\ s.seq = OurSeq(tcb, app_sent) /\ s.payload = <<>>
      <4>1. pos = app_sent /\ len = 0 /\ One(s, "FIN") = 1
        <5>1. app_sent \in 0 .. app_sent
          BY <1>1
        <5>2. len = 0 /\ One(s, "FIN") = 1
          BY <3>3 DEF len, One
        <5>3. QED BY <3>1, <3>3, <5>1, <5>2
      <4>2. QED BY <1>1, <1>7, <4>1
    <3>4. CASE s.flags = {} /\ s.payload = <<>>
      <4>1. len = 0 /\ One(s, "FIN") = 0
        BY <3>4 DEF len, One
      <4>2. QED BY <1>1, <1>2, <1>4, <1>7, <2>1, <4>1
    <3>5. CASE s.flags = {} /\ \E p \in 0 .. app_sent : s.seq = OurSeq(tcb, p) /\ p + len <= app_sent
      <4>1. One(s, "FIN") = 0
        BY <3>5 DEF One
      <4>2. pos + len <= app_sent
        BY <3>1, <3>5
      <4>3. QED BY <1>1, <1>4, <1>7, <4>1, <4>2
    <3>6. QED BY <1>2, <2>1, <3>2, <3>3, <3>4, <3>5 DEF InPlace, len
  <2>4. SendGood(tcb, app_sent, Heard')
    BY <1>1, <2>1, <2>2, SendHeard
  <2>5. QED BY <1>2, <1>5, <2>1, <2>3, <2>4
<1>9. QED BY <1>2, <1>3, <1>8 DEF SendInv

\* Nothing is sent, taken or heard before connect.
LEMMA SendInvInit == Init => SendInv
  BY DEF Init, SendInv, NoTcb, Heard

\* What the invariant says of a TCB in the table.
LEMMA SendInvGood ==
    ASSUME TypeOK, SendInv, tcb.state # "Absent"
    PROVE  /\ tcb \in Tcb /\ app_sent \in 0 .. AppBytes /\ app_sent \in Nat
           /\ SendGood(tcb, app_sent, Heard) /\ Heard \in 0 .. AppBytes + 1
<1>1. app_sent \in 0 .. AppBytes /\ Heard \in Nat
  BY DEF TypeOK, Heard
<1>2. QED BY <1>1, ConnAssumption DEF SendInv, TypeOK

\* send, of any number of bytes that the bound leaves.
LEMMA SendInvSend ==
    ASSUME TypeOK, SendInv, NEW n \in Nat, Send(n)
    PROVE  SendInv'
<1> DEFINE s == socket_send(tcb, Bytes(app_sent + 1, n))
           m == app_sent + n
<1>1. /\ tcb.state = "Established" /\ Apply(s) /\ app_sent' = m
      /\ UNCHANGED <<opened, peer>>
  BY DEF Send
<1>2. /\ tcb \in Tcb /\ app_sent \in 0 .. AppBytes /\ app_sent \in Nat
      /\ SendGood(tcb, app_sent, Heard) /\ Heard \in 0 .. AppBytes + 1
  BY <1>1, SendInvGood
<1>3. m \in Nat /\ m <= AppBytes /\ n <= M /\ app_sent <= m /\ app_sent + 1 \in Nat \ {0}
  BY <1>2, ConnAssumption, TcpAssumption DEF Send
<1>4. Bytes(app_sent + 1, n) \in Seq(Nat) /\ Len(Bytes(app_sent + 1, n)) <= M
  BY <1>3, BytesType
<1>5. s \in StepType
  BY <1>2, <1>4, SendType
<1>6. Keeps(tcb, s, m, Heard)
  BY <1>1, <1>2, <1>3, SendSend
<1>7. ~Later(tcb)
  BY <1>1 DEF Later, FinSent
<1> HIDE DEF s, m
<1>8. QED BY <1>1, <1>3, <1>5, <1>6, <1>7, SendApply

\* Every step preserves the invariant.
LEMMA SendInvStep == TypeOK /\ SendInv /\ [Next]_vars => SendInv'
<1> SUFFICES ASSUME TypeOK, SendInv, [Next]_vars PROVE SendInv'
  OBVIOUS
<1>0. /\ tcb \in Tcb /\ app_sent \in 0 .. AppBytes /\ app_sent \in Nat /\ Heard \in Nat
      /\ opened \in BOOLEAN /\ app_sent <= app_sent
  BY ConnAssumption DEF TypeOK, Heard
<1>a. ASSUME tcb.state # "Absent"
      PROVE  SendGood(tcb, app_sent, Heard) /\ Heard \in 0 .. AppBytes + 1
  BY <1>a, <1>0, ConnAssumption DEF SendInv
<1>1. ASSUME NEW iss \in Iss, Connect(iss) PROVE SendInv'
  BY <1>1, SendConnect
<1>2. ASSUME NEW n \in 0 .. MaxSend, Send(n) PROVE SendInv'
  BY <1>2, SendInvSend, ConnAssumption
<1>3. ASSUME Recv PROVE SendInv'
  <2>1. /\ tcb'.iss = tcb.iss /\ tcb'.snd_una = tcb.snd_una /\ tcb'.snd_nxt = tcb.snd_nxt
        /\ tcb'.send_buffer = tcb.send_buffer /\ tcb'.state = tcb.state
        /\ UNCHANGED <<opened, app_sent, wire, peer>> /\ tcb.state # "Absent"
    BY <1>0, <1>3 DEF Recv, drain_data, Tcb
  <2>2. SendGood(tcb', app_sent, Heard)
    BY <1>0, <1>a, <2>1, SendMove
  <2>3. ASSUME NEW g \in wire PROVE InPlace(g, tcb', app_sent)
    <3>1. InPlace(g, tcb, app_sent) /\ (Later(tcb) => Later(tcb'))
      BY <2>1 DEF SendInv, Later
    <3>2. QED BY <1>0, <2>1, <3>1, StaysInPlace
  <2>4. Heard' = Heard /\ wire' = wire /\ app_sent' = app_sent /\ peer' = peer /\ opened' = opened
    BY <2>1 DEF Heard
  <2>5. QED BY <2>1, <2>2, <2>3, <2>4 DEF SendInv
<1>4. ASSUME Close PROVE SendInv'
  <2>1. /\ Apply(close(tcb)) /\ tcb.state # "Absent" /\ app_sent' = app_sent
        /\ UNCHANGED <<opened, peer>>
    BY <1>4 DEF Close
  <2>2. close(tcb) \in StepType /\ Keeps(tcb, close(tcb), app_sent, Heard)
    BY <1>0, <1>a, <2>1, CloseType, SendClose
  <2>3. QED BY <1>0, <2>1, <2>2, SendApply
<1>5. ASSUME NEW due \in BOOLEAN, Poll(due) PROVE SendInv'
  <2> DEFINE s == poll_retransmit(tcb, due)
  <2>1. /\ Apply(s) /\ tcb.state # "Absent" /\ app_sent' = app_sent
        /\ UNCHANGED <<opened, peer>>
    BY <1>5 DEF Poll
  <2>2. s \in StepType /\ (Keeps(tcb, s, app_sent, Heard) \/ s.tcb = NoTcb)
    BY <1>0, <1>a, <2>1, PollType, SendPoll
  <2> HIDE DEF s
  <2>3. CASE Keeps(tcb, s, app_sent, Heard)
    BY <1>0, <2>1, <2>2, <2>3, SendApply
  <2>4. CASE s.tcb = NoTcb
    <3>1. tcb'.state = "Absent"
      BY <2>1, <2>4 DEF Apply, Sent, record_sent, NoTcb
    <3>2. opened /\ opened'
      BY <2>1 DEF SendInv
    <3>3. QED BY <3>1, <3>2 DEF SendInv
  <2>5. QED BY <2>2, <2>3, <2>4
<1>6. ASSUME NEW h \in PeerSegs, Receive(h) PROVE SendInv'
  <2> DEFINE s == process_existing_tcb(tcb, h)
  <2>1. /\ Apply(s) /\ tcb.state # "Absent" /\ app_sent' = app_sent
        /\ UNCHANGED <<opened, peer>>
    BY <1>6 DEF Receive
  <2>2. Short(h) /\ TrueAck(tcb, h, Heard)
    BY <2>1, PeerSegsShape, PeerSegsTrueAck
  <2>3. s \in StepType /\ Keeps(tcb, s, app_sent, Heard)
    BY <1>0, <1>a, <2>1, <2>2, ProcessType, SendProcess
  <2> HIDE DEF s
  <2>4. QED BY <1>0, <2>1, <2>3, SendApply
<1>7. ASSUME NEW s \in wire, NEW answer \in {"Open", "Refused"}, PeerSyn(s, answer) PROVE SendInv'
  <2>1. /\ "SYN" \in s.flags /\ peer.state = "Listen" /\ peer'.irs = s.seq
        /\ peer'.got = peer.got /\ peer'.fin = peer.fin
        /\ UNCHANGED <<tcb, opened, app_sent, wire>>
    BY <1>7 DEF PeerSyn, TypeOK
  <2>2. Heard' = Heard /\ opened
    BY <2>1 DEF Heard, SendInv
  <2>3. tcb.state # "Absent" => s.seq = tcb.iss
    BY <2>1 DEF SendInv, InPlace
  <2>4. tcb.state # "Absent" => /\ SendGood(tcb', app_sent', Heard')
                                /\ \A g \in wire' : InPlace(g, tcb', app_sent')
                                /\ peer'.irs = tcb'.iss
                                /\ Heard' <= app_sent' + 1
    BY <2>1, <2>2, <2>3 DEF SendInv
  <2>5. QED BY <2>1, <2>2, <2>4 DEF SendInv
<1>8. ASSUME NEW s \in wire, PeerReceive(s) PROVE SendInv'
  BY <1>8, SendPeerReceive
<1>9. CASE UNCHANGED vars
  BY <1>9 DEF vars, SendInv, Heard
<1>10. QED
  BY <1>1, <1>2, <1>3, <1>4, <1>5, <1>6, <1>7, <1>8, <1>9 DEF Next, App, Stack, Peer

\* The inductive invariant holds in every behaviour.
LEMMA SendInvariant == Spec => [](TypeOK /\ SendInv)
  BY SendInvInit, SendInvStep, TypeInit, TypeStep, PTL DEF Spec

\* The invariant contains the three properties.
LEMMA SendInvImplies ==
    ASSUME TypeOK, SendInv
    PROVE  SendBufferIsUnacked /\ AckedIsAtPeer /\ ControlSegmentsInPlace
<1>0. /\ tcb \in Tcb /\ tcb.iss \in SeqNum /\ app_sent \in 0 .. AppBytes
      /\ app_sent \in 0 .. AppBytes + 1 /\ app_sent \in Nat /\ wire \subseteq WireSegment
      /\ Heard = Len(peer.got) + peer.fin
  BY TcbFields, ConnAssumption DEF TypeOK, Heard
<1>1. ASSUME NEW k \in 0 .. AppBytes + 1 PROVE Position(OurSeq(tcb, k)) = k
  BY <1>0, OurSeqPosition DEF Position
<1>2. SendBufferIsUnacked
  <2> SUFFICES ASSUME tcb.state \in {"Established", "CloseWait"}
               PROVE  /\ Position(tcb.snd_nxt) = app_sent
                      /\ tcb.send_buffer = Bytes(Position(tcb.snd_una) + 1,
                                                 app_sent - Position(tcb.snd_una))
    BY DEF SendBufferIsUnacked
  <2>1. tcb.snd_nxt = OurSeq(tcb, app_sent) /\ Unacked(tcb, app_sent, Heard)
    BY DEF SendInv, SendGood, Sending
  <2>2. PICK u \in 0 .. app_sent : /\ tcb.snd_una = OurSeq(tcb, u)
                                   /\ tcb.send_buffer = Bytes(u + 1, app_sent - u)
    BY <2>1 DEF Unacked
  <2>3. u \in 0 .. AppBytes + 1
    BY <1>0, ConnAssumption
  <2>4. QED BY <1>0, <1>1, <2>1, <2>2, <2>3
<1>3. AckedIsAtPeer
  <2> SUFFICES ASSUME tcb.state \notin {"Absent", "SynSent"}, tcb.snd_una # tcb.iss
               PROVE  Position(tcb.snd_una) <= Heard
    BY <1>0 DEF AckedIsAtPeer
  <2>1. PICK u \in 0 .. app_sent + 1 : u <= Heard /\ tcb.snd_una = OurSeq(tcb, u)
    <3>1. SendGood(tcb, app_sent, Heard)
      BY DEF SendInv
    <3>2. CASE tcb.state \in Sending
      <4>1. \A u \in 0 .. app_sent : u \in 0 .. app_sent + 1
        BY <1>0
      <4>2. QED BY <3>1, <3>2, <4>1 DEF SendGood, Unacked
    <3>3. CASE tcb.state \in FinSent \cup {"Closed"}
      BY <3>1, <3>3 DEF SendGood, Una
    <3>4. QED BY <1>0, <3>2, <3>3, TcbFields DEF TcpState, Sending, FinSent
  <2>2. u \in 0 .. AppBytes + 1
    BY <1>0, ConnAssumption
  <2>3. QED BY <1>1, <2>1, <2>2
<1>4. ControlSegmentsInPlace
  <2> SUFFICES ASSUME tcb.state # "Absent", NEW s \in wire
               PROVE  /\ "FIN" \in s.flags => Position(s.seq) = app_sent
                      /\ "SYN" \in s.flags => s.seq = tcb.iss
    BY DEF ControlSegmentsInPlace
  <2>1. InPlace(s, tcb, app_sent)
    BY DEF SendInv
  <2>2. QED BY <1>0, <1>1, <2>1 DEF InPlace
<1>5. QED BY <1>2, <1>3, <1>4

\* Until our FIN is sent the send buffer holds exactly the bytes between
\* snd_una and snd_nxt: nothing unacknowledged is dropped, nothing
\* acknowledged is kept, whatever acknowledgement arrives.
THEOREM BuffersUnacked == Spec => []SendBufferIsUnacked
  BY SendInvariant, SendInvImplies, PTL

\* snd_una never passes what the peer has, in any state of the connection.
THEOREM AcksAreTrue == Spec => []AckedIsAtPeer
  BY SendInvariant, SendInvImplies, PTL

\* Every SYN and every FIN, sent or retransmitted, has its one place in our
\* stream, although the sequence numbers wrap.
THEOREM ControlInPlace == Spec => []ControlSegmentsInPlace
  BY SendInvariant, SendInvImplies, PTL
=============================================================================
