-------------------------- MODULE TcpClientProofs --------------------------
(***************************************************************************)
(* run_client on top of the connection: the invariants of both sides of    *)
(* the connection hold although recv and close are one step, the request   *)
(* arrives intact because it is sent in one call, and nothing the server   *)
(* sent is lost unread once the reading loop has begun.                    *)
(***************************************************************************)
EXTENDS TcpClient, TcpConnProofs

-----------------------------------------------------------------------------
(* The inductive invariant *)

\* The request is sent in one call: the buffer of a TCB holds all n bytes of
\* it or nothing
Whole(t, n) ==
    t.state \in Sending =>
        \/ t.send_buffer = <<>>
        \/ t.snd_una = OurSeq(t, 0) /\ t.send_buffer = Bytes(1, n)

\* Data on the wire is the whole request
Payloads(w, n) == \A g \in w : g.payload # <<>> => g.payload = Bytes(1, n)

\* and starts right after the SYN, the one the peer got or may still get; this
\* outlives the TCB
AfterSyn(w, p) ==
    \A g \in w : g.payload # <<>> =>
        /\ \A s \in w : "SYN" \in s.flags => g.seq = Add(s.seq, 1)
        /\ p.state # "Listen" => g.seq = Add(p.irs, 1)

RequestInv ==
    /\ Whole(tcb, app_sent)
    /\ Payloads(wire, app_sent)
    /\ AfterSyn(wire, peer)
    /\ RequestIntact

\* Our FIN is sent by the step that read what was left
ReadAll == tcb.state \in {"LastAck", "Absent"} => tcb.recv_buffer = <<>>

\* Where bytes may be unread no retransmission has been counted: poll is not
\* called between the handshake and the request
FreshTimer ==
    /\ pc \in {"wait", "wait_frames"} /\ tcb.state = "Established" => tcb.retransmit_count = 0
    /\ pc = "read" /\ tcb.recv_buffer # <<>> =>
          tcb.state = "Established" /\ tcb.retransmit_count = 0

ConnInv == TypeOK /\ StreamInv /\ SendInv

ClientInv == ConnInv /\ RequestInv /\ ReadAll /\ FreshTimer

-----------------------------------------------------------------------------
(* The client's steps as steps of the connection *)

\* recv and close in one step.
LEMMA ConnReadAndClose ==
    ASSUME ConnInv, ReadAndClose
    PROVE  ConnInv'
<1> DEFINE t == drain_data(tcb)
           s == IF t.state = "CloseWait" THEN close(t) ELSE Step(t, <<>>)
<1>1. tcb \in Tcb /\ delivered \in Seq(Nat) /\ Good(tcb, delivered) /\ TypeOK /\ StreamInv /\ SendInv
  BY DEF ConnInv, TypeOK, StreamInv
<1>2. /\ delivered' = delivered \o tcb.recv_buffer /\ Apply(s)
      /\ UNCHANGED <<opened, app_sent, peer>>
  BY DEF ReadAndClose
<1>3. t \in Tcb /\ delivered' \in Seq(Nat) /\ Good(t, delivered')
  BY <1>1, <1>2, DrainType, GoodDrain, ConcatType, TcbFields
<1>4. /\ t.iss = tcb.iss /\ t.snd_una = tcb.snd_una /\ t.snd_nxt = tcb.snd_nxt
      /\ t.send_buffer = tcb.send_buffer /\ t.state = tcb.state /\ t.recv_buffer = <<>>
  BY <1>1 DEF drain_data, Tcb
<1> HIDE DEF t
<1>5. s \in StepType
  BY <1>3, CloseType, StepNone
<1>6. Good(s.tcb, delivered')
  BY <1>3, GoodClose DEF Step
<1>7. CASE tcb.state = "Absent"
  <2>1. s = Step(t, <<>>)
    BY <1>4, <1>7
  <2>2. tcb' = t /\ wire' = wire \cup Carried(<<>>)
    BY <1>2, <2>1 DEF Apply, Sent, Step
  <2>3. Carried(<<>>) = {}
    BY DEF Carried
  <2>4. TypeOK'
    BY <1>1, <1>2, <1>3, <2>2, <2>3 DEF TypeOK
  <2>5. ~opened => delivered' = <<>> /\ delivered = <<>>
    BY <1>1, <1>2 DEF StreamInv
  <2>6. StreamInv'
    BY <1>2, <1>3, <1>4, <1>7, <2>2, <2>5 DEF StreamInv
  <2>7. Heard' = Heard /\ wire' = wire /\ tcb'.state = "Absent"
    BY <1>2, <1>4, <1>7, <2>2, <2>3 DEF Heard
  <2>8. SendInv'
    BY <1>1, <1>2, <2>7 DEF SendInv
  <2>9. QED BY <2>4, <2>6, <2>8 DEF ConnInv
<1>8. CASE tcb.state # "Absent"
  <2>1. TypeOK'
    <3>1. tcb' \in Tcb /\ wire' \in SUBSET WireSegment
      BY <1>1, <1>2, <1>5, ApplyType
    <3>2. QED BY <1>1, <1>2, <1>3, <3>1 DEF TypeOK
  <2>2. StreamInv'
    <3>1. Good(tcb', delivered')
      BY <1>2, <1>5, <1>6, GoodSent DEF Apply
    <3>2. opened'
      BY <1>1, <1>2, <1>8 DEF StreamInv
    <3>3. QED BY <3>1, <3>2 DEF StreamInv
  <2>3. /\ app_sent \in 0 .. AppBytes /\ app_sent \in Nat
        /\ SendGood(tcb, app_sent, Heard) /\ Heard \in 0 .. AppBytes + 1 /\ Heard \in Nat
    BY <1>1, <1>8, SendInvGood, ConnAssumption
  <2>4. SendGood(t, app_sent, Heard)
    BY <1>4, <2>3, SendMove
  <2>5. Keeps(t, s, app_sent, Heard)
    <3>1. Keeps(t, close(t), app_sent, Heard)
      BY <1>3, <2>3, <2>4, SendClose
    <3>2. Keeps(t, Step(t, <<>>), app_sent, Heard)
      BY <2>3, <2>4, KeepsQuiet
    <3>3. QED BY <3>1, <3>2
  <2> HIDE DEF s
  <2>6. Keeps(tcb, s, app_sent, Heard)
    BY <1>4, <2>5 DEF Keeps, Later
  <2>7. app_sent <= app_sent /\ app_sent' = app_sent
    BY <1>2, <2>3
  <2>8. SendInv'
    BY <1>1, <1>2, <1>5, <1>8, <2>3, <2>6, <2>7, SendApply
  <2>9. QED BY <2>1, <2>2, <2>8 DEF ConnInv
<1>9. QED BY <1>7, <1>8

\* Every other step of the client is a step of the connection or leaves it
\* alone.
LEMMA ClientSteps ==
    ASSUME [ClientNext]_clientVars
    PROVE  \/ [Next]_vars
           \/ Send(AppBytes)
           \/ ReadAndClose
<1>1. ASSUME NEW from, NEW to, NEW due \in BOOLEAN, PollPass(from, to, due) PROVE [Next]_vars
  BY <1>1 DEF PollPass, Next, Stack
<1>2. ASSUME NEW h \in PeerSegs, NEW at, Frame(at, h) PROVE [Next]_vars
  BY <1>2 DEF Frame, Next, Stack
<1>3. ASSUME NEW iss \in Iss, CallConnect(iss) PROVE [Next]_vars
  BY <1>3 DEF CallConnect, Next, App
<1>4. CASE BatchEnd("wait_frames", "wait") \/ BatchEnd("read_frames", "recv") \/ Finish
  BY <1>4 DEF BatchEnd, Finish
<1>5. CASE SendRequest
  BY <1>5 DEF SendRequest
<1>6. CASE Peer
  BY <1>6 DEF Next
<1>7. CASE UNCHANGED clientVars
  BY <1>7 DEF clientVars, vars
<1>8. QED
  BY <1>1, <1>2, <1>3, <1>4, <1>5, <1>6, <1>7 DEF ClientNext, ClientStep, WaitPoll, ReadPoll

\* The invariants of the connection hold when the client drives it.
LEMMA ConnStep == ConnInv /\ [ClientNext]_clientVars => ConnInv'
<1> SUFFICES ASSUME ConnInv, [ClientNext]_clientVars PROVE ConnInv'
  OBVIOUS
<1>0. TypeOK /\ StreamInv /\ SendInv
  BY DEF ConnInv
<1>1. CASE [Next]_vars
  BY <1>0, <1>1, TypeStep, StreamInvStep, SendInvStep DEF ConnInv
<1>2. CASE Send(AppBytes)
  BY <1>0, <1>2, TypeSend, StreamInvSend, SendInvSend, ConnAssumption DEF ConnInv
<1>3. CASE ReadAndClose
  BY <1>3, ConnReadAndClose
<1>4. QED BY <1>1, <1>2, <1>3, ClientSteps

-----------------------------------------------------------------------------
(* The request *)

\* Every segment of a step that carries data carries the whole request
WholeOut(out, n) == \A i \in 1 .. Len(out) : out[i].payload # <<>> => out[i].payload = Bytes(1, n)

\* Segments without data.
LEMMA NoData ==
    ASSUME NEW out, NEW u, NEW n, out = <<>> \/ out = <<AckOf(u)>>
    PROVE  WholeOut(out, n)
<1>1. AckOf(u).payload = <<>>
  BY DEF AckOf, Seg
<1>2. CASE out = <<>>
  BY <1>2 DEF WholeOut
<1>3. CASE out = <<AckOf(u)>>
  <2>1. Len(out) = 1 /\ out[1] = AckOf(u)
    BY <1>3
  <2>2. QED BY <1>1, <2>1 DEF WholeOut
<1>4. QED BY <1>2, <1>3

\* The buffer of a TCB that is no longer sending is not looked at, and one
\* whose send fields are left alone is as whole as before.
LEMMA WholeMove ==
    ASSUME NEW t, NEW u, NEW n, Whole(t, n), u.iss = t.iss,
           \/ u.state \notin Sending
           \/ u.send_buffer = <<>>
           \/ t.state \in Sending /\ u.send_buffer = t.send_buffer /\ u.snd_una = t.snd_una
    PROVE  Whole(u, n)
  BY DEF Whole, OurSeq

\* What arrives empties the buffer or leaves it alone, and only pure
\* acknowledgements are sent in return.
LEMMA WholeProcess ==
    ASSUME NEW t \in Tcb, NEW n \in 0 .. AppBytes, NEW heard \in 0 .. AppBytes + 1,
           SendGood(t, n, heard), Whole(t, n), NEW h, Short(h), TrueAck(t, h, heard)
    PROVE  /\ Whole(process_existing_tcb(t, h).tcb, n)
           /\ WholeOut(process_existing_tcb(t, h).out, n)
<1> DEFINE s == process_existing_tcb(t, h)
<1>0. s.tcb.iss = t.iss
  BY SendProcess DEF Keeps
<1>1. WholeOut(s.out, n)
  <2>1. s.out = <<>> \/ \E u : s.out = <<AckOf(u)>>
    BY DEF process_existing_tcb, OnSynSent, OnEstablished, OnCloseWait, OnLastAck, OnFinWait1,
           OnFinWait2, OnClosing, Step
  <2> HIDE DEF s
  <2>2. QED BY <2>1, NoData
<1>2. CASE t.state = "SynSent"
  <2>1. t.send_buffer = <<>>
    BY <1>2 DEF SendGood
  <2>2. s.tcb.send_buffer = t.send_buffer
    BY <1>2 DEF process_existing_tcb, OnSynSent, Step, Tcb
  <2> HIDE DEF s
  <2>3. Whole(s.tcb, n)
    BY <2>1, <2>2, <1>0, WholeMove
  <2>4. QED BY <1>1, <2>3 DEF s
<1>3. CASE t.state = "Established"
  <2> DEFINE e == EstablishedAck(t, h)
  <2>1. e \in Tcb
    BY EstablishedAckType
  <2>2. e = t \/ e.send_buffer = <<>>
    BY <1>3, SendEstablishedAck
  <2> HIDE DEF e
  <2>3. s.tcb.send_buffer = e.send_buffer /\ s.tcb.snd_una = e.snd_una
    BY <1>3, <2>1 DEF process_existing_tcb, OnEstablished, Step, Tcb, e
  <2> HIDE DEF s
  <2>4. Whole(s.tcb, n)
    BY <1>0, <1>3, <2>2, <2>3, WholeMove DEF Sending
  <2>5. QED BY <1>1, <2>4 DEF s
<1>4. CASE t.state = "CloseWait"
  <2>1. s.tcb = Buffered(t, h)
    BY <1>4 DEF process_existing_tcb, OnCloseWait, Step
  <2> HIDE DEF s
  <2>2. Whole(s.tcb, n)
    BY <1>0, <1>4, <2>1, SendBuffered, WholeMove DEF Sending
  <2>3. QED BY <1>1, <2>2 DEF s
<1>5. CASE t.state \notin Sending \cup {"SynSent"}
  <2>1. s.tcb.state \notin Sending
    BY <1>5 DEF process_existing_tcb, OnLastAck, OnFinWait1, OnFinWait2, OnClosing, Buffered,
                FinSeen, Step, Tcb, Sending
  <2> HIDE DEF s
  <2>2. Whole(s.tcb, n)
    BY <1>0, <2>1, WholeMove
  <2>3. QED BY <1>1, <2>2 DEF s
<1>6. QED BY <1>2, <1>3, <1>4, <1>5 DEF Sending

\* A retransmission carries the whole request or no data: the offset is 0
\* as long as the buffer holds something.
LEMMA WholeRetransmit ==
    ASSUME NEW t \in Tcb, NEW n \in 0 .. AppBytes, Whole(t, n)
    PROVE  build_retransmit(t).payload # <<>> => build_retransmit(t).payload = Bytes(1, n)
<1> DEFINE offset == Sub(t.snd_una, Add(t.iss, 1))
           payload == IF offset < Len(t.send_buffer)
                      THEN SubSeq(t.send_buffer, offset + 1, Len(t.send_buffer))
                      ELSE <<>>
           g == build_retransmit(t)
<1>1. CASE t.state \in Sending
  <2>1. g.payload = payload
    BY <1>1 DEF build_retransmit, Sending, Seg
  <2>2. t.iss \in SeqNum /\ t.snd_una \in SeqNum /\ t.send_buffer \in Seq(Nat)
    BY TcbFields
  <2>3. CASE t.send_buffer = <<>>
    <3>1. offset \in SeqNum
      <4>1. Add(t.iss, 1) \in SeqNum
        BY <2>2, AddType, Constants
      <4>2. QED BY <2>2, <4>1, SubType
    <3> HIDE DEF offset
    <3>2. offset >= 0 /\ offset \in Int /\ Len(t.send_buffer) = 0
      BY <2>3, <3>1 DEF SeqNum
    <3>3. payload = <<>>
      BY <3>2
    <3>4. QED BY <2>1, <3>3
  <2>4. CASE t.send_buffer # <<>>
    <3>1. t.snd_una = OurSeq(t, 0) /\ t.send_buffer = Bytes(1, n)
      BY <1>1, <2>4 DEF Whole
    <3>2. offset = 0
      <4>1. 0 \in 0 .. AppBytes + 1
        BY ConnAssumption
      <4>2. QED BY <2>2, <3>1, <4>1, OurSeqPosition
    <3> HIDE DEF offset
    <3> DEFINE b == t.send_buffer
    <3>3. SubSeq(b, 1, Len(b)) = b
      <4> HIDE DEF b
      <4>1. b \in Seq(Nat)
        BY <2>2 DEF b
      <4>2. QED BY <4>1
    <3>4. payload = IF offset < Len(b) THEN SubSeq(b, offset + 1, Len(b)) ELSE <<>>
      OBVIOUS
    <3>5. offset + 1 = 1
      BY <3>2
    <3>6. payload = b \/ payload = <<>>
      <4> HIDE DEF payload
      <4>1. QED BY <3>3, <3>4, <3>5
    <3>7. QED BY <2>1, <3>1, <3>6
  <2>5. QED BY <2>3, <2>4
<1>2. CASE t.state \notin Sending
  BY <1>2 DEF build_retransmit, Seg, Sending
<1>3. QED BY <1>1, <1>2

\* The retransmission pass.
LEMMA WholePoll ==
    ASSUME NEW t \in Tcb, NEW n \in 0 .. AppBytes, Whole(t, n), t.state # "Absent",
           NEW due \in BOOLEAN
    PROVE  LET s == poll_retransmit(t, due) IN
           /\ Whole(s.tcb, n)
           /\ WholeOut(s.out, n)
           /\ s.tcb.state = "Absent" => Carried(s.out) = {}
<1> DEFINE r == [t EXCEPT !.retransmit_at = "Some",
                          !.rto = IF 2 * t.rto <= MAX_RTO THEN 2 * t.rto ELSE MAX_RTO,
                          !.retransmit_count = t.retransmit_count + 1]
           c == [t EXCEPT !.state = "Closed"]
           s == poll_retransmit(t, due)
<1>1. Whole(NoTcb, n) /\ NoTcb.state = "Absent" /\ Carried(<<>>) = {} /\ WholeOut(<<>>, n)
  BY DEF Whole, NoTcb, Sending, Carried, WholeOut
<1>2. \/ Expire(t, due) = Step(t, <<>>)
      \/ Expire(t, due) = Step(c, <<>>)
      \/ /\ t.retransmit_count < MAX_RETRANSMITS
         /\ Expire(t, due) = Step(r, <<build_retransmit(r)>>)
  BY TcbFields, TcpAssumption DEF Expire
<1>3. CASE Expire(t, due) = Step(t, <<>>)
  <2>1. s.out = <<>> /\ (s.tcb = t \/ s.tcb = NoTcb)
    BY <1>3 DEF poll_retransmit, Retain, Step
  <2> HIDE DEF s
  <2>2. QED BY <1>1, <2>1 DEF s
<1>4. CASE Expire(t, due) = Step(c, <<>>)
  <2>1. c.state = "Closed"
    BY DEF Tcb
  <2> HIDE DEF c
  <2>2. s.out = <<>> /\ s.tcb = NoTcb
    BY <1>4, <2>1 DEF poll_retransmit, Retain, Step
  <2> HIDE DEF s
  <2>3. QED BY <1>1, <2>2 DEF s
<1>5. CASE t.retransmit_count < MAX_RETRANSMITS /\ Expire(t, due) = Step(r, <<build_retransmit(r)>>)
  <2>1. /\ r.iss = t.iss /\ r.snd_una = t.snd_una /\ r.send_buffer = t.send_buffer
        /\ r.state = t.state
    BY DEF Tcb
  <2>2. r \in Tcb
    <3>1. t.retransmit_count + 1 \in 0 .. MAX_RETRANSMITS
      BY <1>5, TcbFields, TcpAssumption
    <3>2. (IF 2 * t.rto <= MAX_RTO THEN 2 * t.rto ELSE MAX_RTO) \in INITIAL_RTO .. MAX_RTO
      BY TcbFields, TcpAssumption
    <3>3. ASSUME NEW k \in 0 .. MAX_RETRANSMITS, NEW q \in INITIAL_RTO .. MAX_RTO,
                 NEW a \in {"None", "Some"}
          PROVE  [t EXCEPT !.retransmit_at = a, !.rto = q, !.retransmit_count = k] \in Tcb
      BY DEF Tcb
    <3>4. QED BY <3>1, <3>2, <3>3, Constants
  <2> HIDE DEF r
  <2> DEFINE g == build_retransmit(r)
  <2>3. Whole(r, n)
    BY <2>1, WholeMove
  <2>4. g.payload # <<>> => g.payload = Bytes(1, n)
    BY <2>2, <2>3, WholeRetransmit
  <2>5. r.state = "Closed" => g.flags \cap {"SYN", "FIN"} = {} /\ g.payload = <<>>
    BY DEF build_retransmit, Seg
  <2> HIDE DEF g
  <2>6. /\ s.out = <<g>>
        /\ \/ s.tcb = r /\ s.tcb.state # "Absent"
           \/ s.tcb = NoTcb /\ r.state = "Closed"
    BY <1>5, <2>1 DEF poll_retransmit, Retain, Step, g
  <2> HIDE DEF s
  <2>7. Len(<<g>>) = 1 /\ <<g>>[1] = g
    OBVIOUS
  <2>8. WholeOut(s.out, n)
    BY <2>4, <2>6, <2>7 DEF WholeOut
  <2>9. r.state = "Closed" => Carried(s.out) = {}
    BY <2>5, <2>6, <2>7 DEF Carried
  <2>10. QED BY <1>1, <2>3, <2>6, <2>8, <2>9 DEF s
<1>6. QED BY <1>2, <1>3, <1>4, <1>5

\* close sends no data and ends the sending.
LEMMA WholeClose ==
    ASSUME NEW t \in Tcb, NEW n, Whole(t, n)
    PROVE  Whole(close(t).tcb, n) /\ WholeOut(close(t).out, n)
<1> DEFINE s == close(t)
<1>1. /\ s.tcb = t \/ s.tcb.state \notin Sending
      /\ s.out = <<>> \/ \E f, a, b : s.out = <<Seg(f, a, b, <<>>)>>
  BY DEF close, SendFin, Step, Tcb, Sending
<1> HIDE DEF s
<1>2. Whole(s.tcb, n)
  BY <1>1 DEF Whole
<1>3. WholeOut(s.out, n)
  <2>1. ASSUME NEW f, NEW a, NEW b, s.out = <<Seg(f, a, b, <<>>)>> PROVE WholeOut(s.out, n)
    <3>1. Len(s.out) = 1 /\ s.out[1].payload = <<>>
      BY <2>1 DEF Seg
    <3>2. QED BY <3>1 DEF WholeOut
  <2>2. CASE s.out = <<>>
    BY <2>2 DEF WholeOut
  <2>3. QED BY <1>1, <2>1, <2>2
<1>4. QED BY <1>2, <1>3 DEF s

\* While the TCB is there, data that is the whole request can only be at the
\* start of the stream.
LEMMA DataAfterSyn ==
    ASSUME NEW w, NEW t, NEW n \in 0 .. AppBytes, NEW p,
           \A g \in w : InPlace(g, t, n), Payloads(w, n),
           p.state # "Listen" => p.irs = t.iss
    PROVE  AfterSyn(w, p)
<1> SUFFICES ASSUME NEW g \in w, g.payload # <<>>
             PROVE  /\ \A s \in w : "SYN" \in s.flags => g.seq = Add(s.seq, 1)
                    /\ p.state # "Listen" => g.seq = Add(p.irs, 1)
  BY DEF AfterSyn
<1>1. n \in Nat /\ 1 \in Nat \ {0}
  BY ConnAssumption
<1>2. g.payload = Bytes(1, n) /\ Len(g.payload) = n
  BY <1>1, BytesType DEF Payloads
<1>3. PICK k \in 0 .. n : g.seq = OurSeq(t, k) /\ k + Len(g.payload) <= n
  BY DEF InPlace
<1>4. k = 0 /\ 0 + 1 = 1
  BY <1>1, <1>2, <1>3
<1>5. g.seq = Add(t.iss, 1)
  BY <1>3, <1>4 DEF OurSeq
<1>6. ASSUME NEW s \in w, "SYN" \in s.flags PROVE s.seq = t.iss
  BY <1>6 DEF InPlace
<1>7. QED BY <1>5, <1>6

\* A step of the stack that sends nothing but the whole request.
LEMMA RequestApply ==
    ASSUME ConnInv, ConnInv', RequestInv, NEW s \in StepType, Apply(s),
           Whole(s.tcb, app_sent), WholeOut(s.out, app_sent),
           s.tcb.state = "Absent" => Carried(s.out) = {},
           UNCHANGED <<app_sent, peer>>
    PROVE  RequestInv'
<1>1. s.tcb \in Tcb /\ app_sent' = app_sent /\ peer' = peer /\ app_sent \in 0 .. AppBytes
  BY DEF StepType, ConnInv, TypeOK
<1>2. /\ tcb'.iss = s.tcb.iss /\ tcb'.snd_una = s.tcb.snd_una
      /\ tcb'.send_buffer = s.tcb.send_buffer /\ tcb'.state = s.tcb.state
  BY <1>1 DEF Apply, Sent, record_sent, Tcb
<1>3. Whole(tcb', app_sent)
  BY <1>2 DEF Whole, OurSeq
<1>4. wire' = wire \cup Carried(s.out)
  BY DEF Apply
<1>5. Payloads(wire', app_sent)
  <2>1. ASSUME NEW g \in Carried(s.out), g.payload # <<>> PROVE g.payload = Bytes(1, app_sent)
    <3>1. PICK i \in 1 .. Len(s.out) :
              g = [flags |-> s.out[i].flags \cap {"SYN", "FIN"}, seq |-> s.out[i].seq,
                   payload |-> s.out[i].payload]
      BY DEF Carried
    <3>2. g.payload = s.out[i].payload
      BY <3>1
    <3>3. QED BY <2>1, <3>2 DEF WholeOut
  <2>2. QED BY <1>4, <2>1 DEF RequestInv, Payloads
<1>6. AfterSyn(wire', peer')
  <2>1. CASE tcb'.state = "Absent"
    BY <1>1, <1>2, <1>4, <2>1 DEF RequestInv
  <2>2. CASE tcb'.state # "Absent"
    <3>1. /\ \A g \in wire' : InPlace(g, tcb', app_sent')
          /\ peer'.state # "Listen" => peer'.irs = tcb'.iss
      BY <2>2 DEF ConnInv, SendInv
    <3>2. QED BY <1>1, <1>5, <3>1, DataAfterSyn
  <2>3. QED BY <2>1, <2>2
<1>7. RequestIntact'
  BY <1>1 DEF RequestInv, RequestIntact
<1>8. QED BY <1>1, <1>3, <1>5, <1>6, <1>7 DEF RequestInv

\* connect: the SYN carries no data.
LEMMA RequestConnect ==
    ASSUME ConnInv, ConnInv', RequestInv, NEW iss \in Iss, Connect(iss)
    PROVE  RequestInv'
<1> DEFINE s == initiate_connect(iss)
<1>1. s \in StepType
  BY ConnectType, ConnAssumption
<1>2. s.tcb.state = "SynSent" /\ s.out = <<Seg({"SYN"}, iss, 0, <<>>)>>
  BY DEF initiate_connect, Step, NoTcb
<1>3. Apply(s) /\ UNCHANGED <<app_sent, peer>>
  BY DEF Connect
<1> HIDE DEF s
<1>4. Whole(s.tcb, app_sent)
  BY <1>2 DEF Whole, Sending
<1>5. Len(s.out) = 1 /\ s.out[1].payload = <<>>
  BY <1>2 DEF Seg
<1>6. WholeOut(s.out, app_sent)
  BY <1>5 DEF WholeOut
<1>7. s.tcb.state # "Absent"
  BY <1>2
<1>8. QED BY <1>1, <1>3, <1>4, <1>6, <1>7, RequestApply

\* poll.
LEMMA RequestPoll ==
    ASSUME ConnInv, ConnInv', RequestInv, NEW due \in BOOLEAN, Poll(due)
    PROVE  RequestInv'
<1> DEFINE s == poll_retransmit(tcb, due)
<1>1. /\ tcb \in Tcb /\ app_sent \in 0 .. AppBytes /\ tcb.state # "Absent"
      /\ Apply(s) /\ UNCHANGED <<app_sent, peer>> /\ Whole(tcb, app_sent)
  BY DEF Poll, ConnInv, TypeOK, RequestInv
<1>2. s \in StepType
  BY <1>1, PollType
<1>3. /\ Whole(s.tcb, app_sent) /\ WholeOut(s.out, app_sent)
      /\ s.tcb.state = "Absent" => Carried(s.out) = {}
  BY <1>1, WholePoll
<1> HIDE DEF s
<1>4. QED BY <1>1, <1>2, <1>3, RequestApply

\* The state after a segment: no arm leaves the table or enters LastAck, and
\* the count is that of the handshake or of an acknowledgement or unchanged.
LEMMA ProcessStates ==
    ASSUME NEW t \in Tcb, NEW h, Short(h), t.state # "Absent"
    PROVE  LET u == process_existing_tcb(t, h).tcb IN
           /\ u.state # "Absent"
           /\ u.state = "LastAck" => t.state = "LastAck" /\ u.recv_buffer = t.recv_buffer
           /\ u.state = "Established" =>
                 \/ u.retransmit_count = 0
                 \/ t.state = "Established" /\ u.retransmit_count = t.retransmit_count
<1> DEFINE s == process_existing_tcb(t, h)
           Fine(u) ==
             /\ u.state # "Absent"
             /\ u.state = "LastAck" => t.state = "LastAck" /\ u.recv_buffer = t.recv_buffer
             /\ u.state = "Established" =>
                   \/ u.retransmit_count = 0
                   \/ t.state = "Established" /\ u.retransmit_count = t.retransmit_count
<1>1. Buffered(t, h).state = t.state
  BY DEF Buffered, Tcb
<1>2. CASE t.state = "SynSent"
  <2>1. s = OnSynSent(t, h)
    BY <1>2 DEF process_existing_tcb
  <2>2. Fine(OnSynSent(t, h).tcb)
    BY <1>2 DEF OnSynSent, Step, Tcb
  <2>3. QED BY <2>1, <2>2
<1>3. CASE t.state = "Established"
  <2> DEFINE e == EstablishedAck(t, h)
             n == Add(h.seq, Len(h.payload) + One(h, "SYN") + One(h, "FIN"))
             b == e.recv_buffer \o h.payload
             q == IF Has(h, "FIN") THEN "CloseWait" ELSE e.state
  <2>1. /\ e.state = "Established"
        /\ e.retransmit_count = 0 \/ e.retransmit_count = t.retransmit_count
    BY <1>3 DEF EstablishedAck, Tcb
  <2>2. e \in Tcb
    BY EstablishedAckType
  <2>3. s.tcb = e \/ s.tcb = [e EXCEPT !.recv_buffer = b, !.rcv_nxt = n, !.state = q]
    BY <1>3 DEF process_existing_tcb, OnEstablished, Step
  <2> HIDE DEF e, s, b, n
  <2>4. q \in {"CloseWait", "Established"}
    BY <2>1
  <2> HIDE DEF q
  <2>5. Fine([e EXCEPT !.recv_buffer = b, !.rcv_nxt = n, !.state = q])
    BY <1>3, <2>1, <2>2, <2>4 DEF Tcb
  <2>6. QED BY <1>3, <2>1, <2>3, <2>5 DEF s
<1>4. CASE t.state = "CloseWait"
  <2>1. s.tcb = Buffered(t, h)
    BY <1>4 DEF process_existing_tcb, OnCloseWait, Step
  <2>2. QED BY <1>1, <1>4, <2>1
<1>5. CASE t.state = "LastAck"
  <2>1. s = OnLastAck(t, h)
    BY <1>5 DEF process_existing_tcb
  <2>2. Fine(OnLastAck(t, h).tcb)
    BY <1>5 DEF OnLastAck, Step, Tcb
  <2>3. QED BY <2>1, <2>2
<1>6. CASE t.state \in {"FinWait1", "FinWait2", "Closing"}
  <2>1. s.tcb.state \in {"FinWait1", "FinWait2", "Closing", "TimeWait"}
    BY <1>6 DEF process_existing_tcb, OnFinWait1, OnFinWait2, OnClosing, Buffered, FinSeen, Step, Tcb
  <2>2. QED BY <2>1
<1>7. CASE t.state \in {"Listen", "SynReceived", "TimeWait", "Closed"}
  <2>1. s.tcb = t
    BY <1>7 DEF process_existing_tcb, Step
  <2>2. QED BY <1>7, <2>1
<1>8. QED BY <1>2, <1>3, <1>4, <1>5, <1>6, <1>7, TcbFields DEF TcpState

\* A segment.
LEMMA RequestReceive ==
    ASSUME ConnInv, ConnInv', RequestInv, NEW h \in PeerSegs, Receive(h)
    PROVE  RequestInv'
<1> DEFINE s == process_existing_tcb(tcb, h)
<1>1. /\ tcb.state # "Absent" /\ Apply(s) /\ UNCHANGED <<app_sent, peer>>
      /\ Whole(tcb, app_sent) /\ TypeOK /\ SendInv
  BY DEF Receive, ConnInv, RequestInv
<1>2. Short(h) /\ TrueAck(tcb, h, Heard)
  BY <1>1, PeerSegsShape, PeerSegsTrueAck
<1>3. /\ tcb \in Tcb /\ app_sent \in 0 .. AppBytes /\ Heard \in 0 .. AppBytes + 1
      /\ SendGood(tcb, app_sent, Heard)
  BY <1>1, SendInvGood
<1>4. s \in StepType
  BY <1>2, <1>3, ProcessType
<1>5. Whole(s.tcb, app_sent) /\ WholeOut(s.out, app_sent)
  BY <1>1, <1>2, <1>3, WholeProcess
<1>6. s.tcb.state # "Absent"
  BY <1>1, <1>2, <1>3, ProcessStates
<1> HIDE DEF s
<1>7. QED BY <1>1, <1>4, <1>5, <1>6, RequestApply

\* recv and close.
LEMMA RequestReadAndClose ==
    ASSUME ConnInv, ConnInv', RequestInv, ReadAndClose
    PROVE  RequestInv'
<1> DEFINE t == drain_data(tcb)
           s == IF t.state = "CloseWait" THEN close(t) ELSE Step(t, <<>>)
<1>1. tcb \in Tcb /\ Whole(tcb, app_sent) /\ Apply(s) /\ UNCHANGED <<app_sent, peer>>
  BY DEF ConnInv, TypeOK, RequestInv, ReadAndClose
<1>2. /\ t \in Tcb /\ t.state = tcb.state /\ t.iss = tcb.iss /\ t.snd_una = tcb.snd_una
      /\ t.send_buffer = tcb.send_buffer
  BY <1>1, DrainType DEF drain_data, Tcb
<1> HIDE DEF t
<1>3. Whole(t, app_sent)
  BY <1>1, <1>2 DEF Whole, OurSeq
<1>4. s \in StepType
  BY <1>2, CloseType, StepNone
<1>5. Whole(s.tcb, app_sent) /\ WholeOut(s.out, app_sent)
  BY <1>2, <1>3, WholeClose DEF Step, WholeOut
<1>6. Carried(<<>>) = {}
  BY DEF Carried
<1>7. s.tcb.state = "Absent" => s.out = <<>>
  BY <1>2 DEF close, SendFin, Step, Tcb
<1> HIDE DEF s
<1>8. QED BY <1>1, <1>4, <1>5, <1>6, <1>7, RequestApply

\* send, called once: nothing was sent before, so the buffer and the segment
\* both hold all of the request.
LEMMA RequestSend ==
    ASSUME ConnInv, ConnInv', RequestInv, Send(AppBytes)
    PROVE  RequestInv'
<1> DEFINE data == Bytes(1, AppBytes)
           u == [tcb EXCEPT !.snd_nxt = Add(tcb.snd_nxt, Len(data)),
                            !.send_buffer = tcb.send_buffer \o data]
           g == Seg({"PSH", "ACK"}, tcb.snd_nxt, tcb.rcv_nxt, data)
<1>1. /\ tcb.state = "Established" /\ app_sent + AppBytes <= AppBytes
      /\ app_sent' = app_sent + AppBytes /\ peer' = peer
      /\ Apply(socket_send(tcb, Bytes(app_sent + 1, AppBytes)))
      /\ TypeOK /\ SendInv
  BY DEF Send, ConnInv
<1>2. tcb \in Tcb /\ app_sent \in 0 .. AppBytes /\ AppBytes \in Nat
  BY <1>1, ConnAssumption DEF TypeOK
<1>3. app_sent = 0 /\ app_sent' = AppBytes /\ 0 + 1 = 1
  BY <1>1, <1>2
<1>4. socket_send(tcb, data) = Step(u, <<g>>) /\ Apply(Step(u, <<g>>))
  BY <1>1, <1>3 DEF socket_send
<1>5. data \in Seq(Nat) /\ Bytes(1, 0) = <<>>
  BY <1>2, BytesType, NoBytes
<1>6. tcb.send_buffer = <<>> /\ tcb.snd_una = OurSeq(tcb, 0)
  <2>1. SendGood(tcb, 0, Heard)
    BY <1>1, <1>3, SendInvGood
  <2>2. PICK k \in 0 .. 0 : tcb.snd_una = OurSeq(tcb, k) /\ tcb.send_buffer = Bytes(k + 1, 0 - k)
    BY <1>1, <2>1 DEF SendGood, Sending, Unacked
  <2>3. k = 0 /\ k + 1 = 1 /\ 0 - k = 0
    <3>1. \A j \in 0 .. 0 : j = 0
      OBVIOUS
    <3>2. k = 0
      BY <3>1
    <3>3. 0 + 1 = 1 /\ 0 - 0 = 0
      OBVIOUS
    <3>4. QED BY <3>2, <3>3
  <2>4. QED BY <1>5, <2>2, <2>3
<1>7. <<>> \o data = data
  <2> HIDE DEF data
  <2>1. QED BY <1>5
<1>8. /\ u.iss = tcb.iss /\ u.snd_una = tcb.snd_una /\ u.state = "Established"
      /\ u.send_buffer = data
  BY <1>1, <1>2, <1>6, <1>7 DEF Tcb
<1>9. u \in Tcb
  <2>1. Step(u, <<g>>) \in StepType
    <3>1. Len(data) <= M
      BY <1>2, BytesType, ConnAssumption, TcpAssumption
    <3>2. QED BY <1>2, <1>4, <1>5, <3>1, SendType
  <2>2. QED BY <2>1 DEF StepType, Step
<1>10. g.payload = data
  BY DEF Seg
<1> HIDE DEF u, g, data
<1>11. tcb'.iss = u.iss /\ tcb'.snd_una = u.snd_una /\ tcb'.send_buffer = data /\ tcb'.state = "Established"
  BY <1>4, <1>8, <1>9 DEF Apply, Sent, record_sent, Step, Tcb
<1>12. Whole(tcb', AppBytes)
  BY <1>6, <1>8, <1>11 DEF Whole, OurSeq, data
<1>13. Payloads(wire', AppBytes)
  <2>1. wire' = wire \cup Carried(<<g>>)
    BY <1>4 DEF Apply, Step
  <2>2. Len(<<g>>) = 1 /\ <<g>>[1] = g
    OBVIOUS
  <2>3. ASSUME NEW c \in Carried(<<g>>) PROVE c.payload = data
    <3>1. c.payload = g.payload
      BY <2>2 DEF Carried
    <3>2. QED BY <1>10, <3>1
  <2>4. ASSUME NEW c \in wire PROVE c.payload = <<>>
    BY <1>3, <1>5 DEF RequestInv, Payloads
  <2>5. QED BY <2>1, <2>3, <2>4 DEF Payloads, data
<1>14. AfterSyn(wire', peer')
  <2>1. /\ \A c \in wire' : InPlace(c, tcb', app_sent')
        /\ peer'.state # "Listen" => peer'.irs = tcb'.iss
    BY <1>11 DEF ConnInv, SendInv
  <2>2. AppBytes \in 0 .. AppBytes
    BY <1>2
  <2>3. QED BY <1>3, <1>13, <2>1, <2>2, DataAfterSyn
<1>15. RequestIntact'
  BY <1>1 DEF RequestInv, RequestIntact
<1>16. QED BY <1>3, <1>12, <1>13, <1>14, <1>15 DEF RequestInv

\* What the peer lacks of the whole request completes it.
LEMMA Completes ==
    ASSUME NEW n \in Nat, NEW k \in 0 .. n
    PROVE  Bytes(1, k) \o SubSeq(Bytes(1, n), k + 1, n) = Bytes(1, n)
<1> DEFINE b == Bytes(1, n)
           r == SubSeq(b, k + 1, n)
           e == Bytes(k + 1, n - k)
<1>1. /\ b \in Seq(Nat) /\ Len(b) = n /\ \A j \in 1 .. n : b[j] = 1 + j - 1
      /\ e \in Seq(Nat) /\ Len(e) = n - k /\ \A j \in 1 .. n - k : e[j] = (k + 1) + j - 1
  <2>1. k + 1 \in Nat \ {0} /\ n - k \in Nat /\ 1 \in Nat \ {0}
    OBVIOUS
  <2>2. QED BY <2>1, BytesType
<1> HIDE DEF b, e
<1>2. /\ r \in Seq(Nat) /\ Len(r) = n - k
      /\ \A j \in 1 .. n - k : r[j] = b[(k + 1) + j - 1]
  BY <1>1
<1>3. \A j \in 1 .. n - k : r[j] = e[j]
  BY <1>1, <1>2
<1> HIDE DEF r
<1>4. r = e
  BY <1>1, <1>2, <1>3
<1>5. k \in Nat /\ n - k \in Nat /\ k + 1 = 1 + k /\ k + (n - k) = n /\ 1 \in Nat \ {0}
  OBVIOUS
<1>6. Bytes(1, k) \o Bytes(1 + k, n - k) = Bytes(1, k + (n - k))
  BY <1>5, BytesConcat
<1>7. QED BY <1>4, <1>5, <1>6 DEF b, e, r

\* The peer takes what it lacks of a segment, whether or not the TCB that
\* sent it is still there.
LEMMA RequestPeerReceive ==
    ASSUME ConnInv, RequestInv, NEW g \in wire, PeerReceive(g)
    PROVE  RequestInv'
<1> DEFINE want == Len(peer.got)
           pos == Sub(g.seq, Add(peer.irs, 1))
           len == Len(g.payload)
           more == SubSeq(g.payload, want - pos + 1, len)
<1>1. /\ peer.got \in Seq(Nat) /\ peer.irs \in SeqNum /\ g.payload \in Seq(Nat)
      /\ g.seq \in SeqNum /\ app_sent \in 0 .. AppBytes /\ AppBytes \in Nat
      /\ peer \in [state : {"Listen", "Open", "Refused"}, irs : SeqNum,
                   got : Seq(Nat), fin : {0, 1}]
  BY ConnAssumption DEF ConnInv, TypeOK, WireSegment
<1>2. /\ peer.state = "Open" /\ pos <= want /\ want <= pos + len
      /\ peer' = [peer EXCEPT !.got = peer.got \o more, !.fin = One(g, "FIN")]
      /\ UNCHANGED <<tcb, app_sent, wire>>
  BY DEF PeerReceive
<1>3. peer.got = Bytes(1, want) /\ want \in Nat /\ len \in Nat
  BY <1>1 DEF RequestInv, RequestIntact
<1>4. peer'.got = peer.got \o more /\ peer'.state = peer.state /\ peer'.irs = peer.irs
  BY <1>1, <1>2
<1>5. peer'.got = Bytes(1, Len(peer'.got))
  <2>1. CASE g.payload = <<>>
    <3>1. pos \in SeqNum
      <4>1. Add(peer.irs, 1) \in SeqNum
        BY <1>1, AddType, Constants
      <4>2. QED BY <1>1, <4>1, SubType
    <3> HIDE DEF pos
    <3>2. len = 0
      BY <2>1
    <3> HIDE DEF want, len
    <3>3. want - pos + 1 = 1
      BY <1>2, <1>3, <3>1, <3>2 DEF SeqNum
    <3>4. more = SubSeq(<<>>, 1, 0)
      BY <2>1, <3>2, <3>3
    <3> HIDE DEF more
    <3>5. more = <<>>
      <4>1. ASSUME NEW q \in Seq(Nat) PROVE SubSeq(q, 1, 0) = <<>>
        OBVIOUS
      <4>2. QED BY <3>4, <4>1, Constants
    <3>6. peer.got \o <<>> = peer.got
      BY <1>1
    <3>7. QED BY <1>3, <1>4, <3>5, <3>6 DEF want
  <2>2. CASE g.payload # <<>>
    <3>1. g.payload = Bytes(1, app_sent) /\ g.seq = Add(peer.irs, 1)
      BY <1>2, <2>2 DEF RequestInv, Payloads, AfterSyn
    <3>2. pos = 0
      <4>1. Add(peer.irs, 1) \in SeqNum
        BY <1>1, AddType, Constants
      <4>2. QED BY <3>1, <4>1, TcpAssumption DEF Sub, SeqNum
    <3> HIDE DEF pos
    <3>3. app_sent \in Nat /\ 1 \in Nat \ {0}
      BY <1>1
    <3>4. len = app_sent /\ Len(Bytes(1, app_sent)) = app_sent
      BY <3>1, <3>3, BytesType
    <3> HIDE DEF want, len
    <3>5. want \in 0 .. app_sent /\ want - pos + 1 = want + 1
      BY <1>2, <1>3, <3>2, <3>3, <3>4
    <3>6. more = SubSeq(Bytes(1, app_sent), want + 1, app_sent)
      BY <3>1, <3>4, <3>5
    <3> HIDE DEF more
    <3>7. peer'.got = Bytes(1, app_sent)
      BY <1>3, <1>4, <3>3, <3>5, <3>6, Completes
    <3>8. QED BY <3>4, <3>7
  <2>3. QED BY <2>1, <2>2
<1> HIDE DEF want, pos, len, more
<1>6. Whole(tcb', app_sent') /\ Payloads(wire', app_sent')
  BY <1>2 DEF RequestInv
<1>7. AfterSyn(wire', peer')
  BY <1>2, <1>4 DEF RequestInv, AfterSyn
<1>8. QED BY <1>5, <1>6, <1>7 DEF RequestInv, RequestIntact

\* The peer takes a SYN that all data follows.
LEMMA RequestPeerSyn ==
    ASSUME ConnInv, RequestInv, NEW s \in wire, NEW answer, PeerSyn(s, answer)
    PROVE  RequestInv'
<1>1. /\ peer \in [state : {"Listen", "Open", "Refused"}, irs : SeqNum,
                   got : Seq(Nat), fin : {0, 1}]
      /\ peer' = [peer EXCEPT !.state = answer, !.irs = s.seq] /\ "SYN" \in s.flags
      /\ UNCHANGED <<tcb, app_sent, wire>>
  BY DEF ConnInv, TypeOK, PeerSyn
<1>2. peer'.got = peer.got /\ peer'.irs = s.seq
  BY <1>1
<1>3. AfterSyn(wire', peer')
  BY <1>1, <1>2 DEF RequestInv, AfterSyn
<1>4. QED BY <1>1, <1>2, <1>3 DEF RequestInv, RequestIntact

\* Reading takes nothing from the sending side.
LEMMA RequestStep ==
    ASSUME ConnInv, ConnInv', RequestInv, [ClientNext]_clientVars
    PROVE  RequestInv'
<1>1. ASSUME NEW iss \in Iss, CallConnect(iss) PROVE RequestInv'
  BY <1>1, RequestConnect DEF CallConnect
<1>2. ASSUME UNCHANGED vars PROVE RequestInv'
  <2>1. UNCHANGED <<tcb, app_sent, wire, peer>>
    BY <1>2 DEF vars
  <2>2. QED BY <2>1 DEF RequestInv, RequestIntact
<1>3. ASSUME NEW due \in BOOLEAN, WaitPoll(due) \/ ReadPoll(due) PROVE RequestInv'
  BY <1>2, <1>3, RequestPoll DEF WaitPoll, ReadPoll, PollPass
<1>4. ASSUME NEW h \in PeerSegs, Frame("wait_frames", h) \/ Frame("read_frames", h) PROVE RequestInv'
  BY <1>4, RequestReceive DEF Frame
<1>5. CASE BatchEnd("wait_frames", "wait") \/ BatchEnd("read_frames", "recv") \/ Finish
  BY <1>2, <1>5 DEF BatchEnd, Finish
<1>6. CASE SendRequest
  BY <1>6, RequestSend DEF SendRequest
<1>7. CASE ReadAndClose
  BY <1>7, RequestReadAndClose
<1>8. CASE Peer
  BY <1>8, RequestPeerReceive, RequestPeerSyn DEF Peer
<1>9. CASE UNCHANGED clientVars
  BY <1>2, <1>9 DEF clientVars, vars
<1>10. QED
  BY <1>1, <1>3, <1>4, <1>5, <1>6, <1>7, <1>8, <1>9 DEF ClientNext, ClientStep

-----------------------------------------------------------------------------
(* Reading before closing, and the timer *)

\* A step of the stack does not change what ReadAll and FreshTimer look at
\* beyond what the function did.
LEMMA SentFields ==
    ASSUME NEW s \in StepType, Apply(s)
    PROVE  /\ tcb'.state = s.tcb.state /\ tcb'.recv_buffer = s.tcb.recv_buffer
           /\ tcb'.retransmit_count = s.tcb.retransmit_count
<1>1. s.tcb \in Tcb
  BY DEF StepType
<1>2. QED BY <1>1 DEF Apply, Sent, record_sent, Tcb

\* The retransmission pass leaves the state, or removes the connection, which
\* it does not where no retransmission has been counted.
LEMMA PollStates ==
    ASSUME NEW t \in Tcb, NEW due \in BOOLEAN
    PROVE  LET u == poll_retransmit(t, due).tcb IN
           /\ u = NoTcb \/ (u.state = t.state /\ u.recv_buffer = t.recv_buffer)
           /\ t.state = "Established" /\ t.retransmit_count = 0 => u.state = "Established"
<1> DEFINE r == [t EXCEPT !.retransmit_at = "Some",
                          !.rto = IF 2 * t.rto <= MAX_RTO THEN 2 * t.rto ELSE MAX_RTO,
                          !.retransmit_count = t.retransmit_count + 1]
           c == [t EXCEPT !.state = "Closed"]
           u == poll_retransmit(t, due).tcb
<1>1. \/ Expire(t, due) = Step(t, <<>>)
      \/ Expire(t, due) = Step(c, <<>>) /\ t.retransmit_count # 0
      \/ Expire(t, due) = Step(r, <<build_retransmit(r)>>)
  BY TcbFields, TcpAssumption, ClientAssumption DEF Expire
<1>2. r.state = t.state /\ r.recv_buffer = t.recv_buffer /\ c.state = "Closed"
  BY DEF Tcb
<1> HIDE DEF r, c
<1>3. \/ u = Retain(t)
      \/ u = Retain(c) /\ t.retransmit_count # 0
      \/ u = Retain(r)
  BY <1>1 DEF poll_retransmit, Step
<1> HIDE DEF u
<1>4. QED BY <1>2, <1>3 DEF Retain, u

\* recv empties the buffer, and only an absent TCB stays absent.
LEMMA ReadAndCloseStates ==
    ASSUME ConnInv, ReadAndClose
    PROVE  /\ tcb'.recv_buffer = <<>>
           /\ tcb.state # "Absent" => tcb'.state # "Absent"
<1> DEFINE t == drain_data(tcb)
           s == IF t.state = "CloseWait" THEN close(t) ELSE Step(t, <<>>)
<1>1. tcb \in Tcb /\ Apply(s)
  BY DEF ConnInv, TypeOK, ReadAndClose
<1>2. t \in Tcb /\ t.state = tcb.state /\ t.recv_buffer = <<>>
  BY <1>1, DrainType DEF drain_data, Tcb
<1> HIDE DEF t
<1>3. s \in StepType
  BY <1>2, CloseType, StepNone
<1>4. s.tcb.recv_buffer = <<>> /\ s.tcb.state \in {t.state, "LastAck"}
  BY <1>2 DEF close, SendFin, Step, Tcb
<1> HIDE DEF s
<1>5. QED BY <1>1, <1>2, <1>3, <1>4, SentFields

\* What each kind of step does to the state, the buffer and the count.
LEMMA PollFields ==
    ASSUME ConnInv, NEW due \in BOOLEAN, Poll(due)
    PROVE  /\ \/ tcb'.state = "Absent" /\ tcb'.recv_buffer = <<>>
              \/ tcb'.state = tcb.state /\ tcb'.recv_buffer = tcb.recv_buffer
           /\ tcb.state = "Established" /\ tcb.retransmit_count = 0 => tcb'.state = "Established"
<1> DEFINE s == poll_retransmit(tcb, due)
<1>1. tcb \in Tcb /\ Apply(s)
  BY DEF ConnInv, TypeOK, Poll
<1>2. s \in StepType
  BY <1>1, PollType
<1>3. /\ s.tcb = NoTcb \/ (s.tcb.state = tcb.state /\ s.tcb.recv_buffer = tcb.recv_buffer)
      /\ tcb.state = "Established" /\ tcb.retransmit_count = 0 => s.tcb.state = "Established"
  BY <1>1, PollStates
<1> HIDE DEF s
<1>4. NoTcb.state = "Absent" /\ NoTcb.recv_buffer = <<>>
  BY DEF NoTcb
<1>5. QED BY <1>1, <1>2, <1>3, <1>4, SentFields

\* The same of a segment.
LEMMA ReceiveFields ==
    ASSUME ConnInv, NEW h \in PeerSegs, Receive(h)
    PROVE  /\ tcb'.state # "Absent"
           /\ tcb'.state = "LastAck" => tcb.state = "LastAck" /\ tcb'.recv_buffer = tcb.recv_buffer
           /\ tcb'.state = "Established" =>
                 \/ tcb'.retransmit_count = 0
                 \/ tcb.state = "Established" /\ tcb'.retransmit_count = tcb.retransmit_count
<1> DEFINE s == process_existing_tcb(tcb, h)
<1>1. TypeOK /\ tcb \in Tcb /\ tcb.state # "Absent" /\ Apply(s)
  BY DEF ConnInv, TypeOK, Receive
<1>2. Short(h)
  BY <1>1, PeerSegsShape
<1>3. s \in StepType
  BY <1>1, <1>2, ProcessType
<1>4. /\ s.tcb.state # "Absent"
      /\ s.tcb.state = "LastAck" => tcb.state = "LastAck" /\ s.tcb.recv_buffer = tcb.recv_buffer
      /\ s.tcb.state = "Established" =>
            \/ s.tcb.retransmit_count = 0
            \/ tcb.state = "Established" /\ s.tcb.retransmit_count = tcb.retransmit_count
  BY <1>1, <1>2, ProcessStates
<1> HIDE DEF s
<1>5. QED BY <1>1, <1>3, <1>4, SentFields

\* connect and send.
LEMMA ConnectFields ==
    ASSUME NEW iss \in Iss, Connect(iss)
    PROVE  tcb'.state = "SynSent"
<1> DEFINE s == initiate_connect(iss)
<1>1. s \in StepType /\ Apply(s)
  BY ConnectType, ConnAssumption DEF Connect
<1>2. s.tcb.state = "SynSent"
  BY DEF initiate_connect, Step, NoTcb
<1> HIDE DEF s
<1>3. QED BY <1>1, <1>2, SentFields

\* send leaves what was received and the count alone.
LEMMA SendFields ==
    ASSUME ConnInv, Send(AppBytes)
    PROVE  /\ tcb'.state = "Established" /\ tcb'.recv_buffer = tcb.recv_buffer
           /\ tcb'.retransmit_count = tcb.retransmit_count
<1> DEFINE data == Bytes(app_sent + 1, AppBytes)
           s == socket_send(tcb, data)
<1>1. /\ tcb \in Tcb /\ tcb.state = "Established" /\ Apply(s)
      /\ app_sent \in Nat /\ AppBytes \in Nat /\ app_sent + 1 \in Nat \ {0}
  BY ConnAssumption DEF ConnInv, TypeOK, Send
<1>2. data \in Seq(Nat) /\ Len(data) <= M
  BY <1>1, BytesType, ConnAssumption, TcpAssumption
<1> HIDE DEF data
<1>3. s \in StepType
  BY <1>1, <1>2, SendType
<1>4. /\ s.tcb.state = "Established" /\ s.tcb.recv_buffer = tcb.recv_buffer
      /\ s.tcb.retransmit_count = tcb.retransmit_count
  BY <1>1 DEF socket_send, Step, Tcb
<1> HIDE DEF s
<1>5. QED BY <1>1, <1>3, <1>4, SentFields

\* The FIN is sent by the step that empties the buffer.
LEMMA ReadAllStep ==
    ASSUME ConnInv, ReadAll, [ClientNext]_clientVars
    PROVE  ReadAll'
<1>1. ASSUME NEW iss \in Iss, CallConnect(iss) PROVE ReadAll'
  BY <1>1, ConnectFields DEF CallConnect, ReadAll
<1>2. ASSUME UNCHANGED tcb PROVE ReadAll'
  BY <1>2 DEF ReadAll
<1>3. ASSUME NEW due \in BOOLEAN, Poll(due) PROVE ReadAll'
  BY <1>3, PollFields DEF ReadAll
<1>4. ASSUME NEW due \in BOOLEAN, WaitPoll(due) \/ ReadPoll(due) PROVE ReadAll'
  BY <1>2, <1>3, <1>4 DEF WaitPoll, ReadPoll, PollPass, vars
<1>5. ASSUME NEW h \in PeerSegs, Frame("wait_frames", h) \/ Frame("read_frames", h) PROVE ReadAll'
  BY <1>5, ReceiveFields DEF Frame, ReadAll
<1>6. CASE BatchEnd("wait_frames", "wait") \/ BatchEnd("read_frames", "recv") \/ Finish
  BY <1>2, <1>6 DEF BatchEnd, Finish, vars
<1>7. CASE SendRequest
  BY <1>7, SendFields DEF SendRequest, ReadAll
<1>8. CASE ReadAndClose
  BY <1>8, ReadAndCloseStates DEF ReadAll
<1>9. CASE Peer \/ UNCHANGED clientVars
  BY <1>2, <1>9 DEF Peer, PeerSyn, PeerReceive, clientVars
<1>10. QED
  BY <1>1, <1>4, <1>5, <1>6, <1>7, <1>8, <1>9 DEF ClientNext, ClientStep

\* Between the handshake and the first poll of the reading loop no
\* retransmission is counted.
LEMMA FreshTimerStep ==
    ASSUME ConnInv, FreshTimer, [ClientNext]_clientVars
    PROVE  FreshTimer'
<1>1. ASSUME NEW iss \in Iss, CallConnect(iss) PROVE FreshTimer'
  BY <1>1, ConnectFields DEF CallConnect, Goto, FreshTimer
<1>2. ASSUME NEW due \in BOOLEAN, WaitPoll(due) PROVE FreshTimer'
  <2>1. pc' = "wait_frames" /\ tcb.state # "Established"
    BY <1>2 DEF WaitPoll, PollPass, Goto
  <2>2. tcb'.state # "Established"
    BY <1>2, <2>1, PollFields DEF WaitPoll, PollPass, vars
  <2>3. QED BY <2>1, <2>2 DEF FreshTimer
<1>3. ASSUME NEW due \in BOOLEAN, ReadPoll(due) PROVE FreshTimer'
  BY <1>3 DEF ReadPoll, PollPass, Goto, FreshTimer
<1>4. ASSUME NEW h \in PeerSegs, Frame("wait_frames", h) \/ Frame("read_frames", h)
      PROVE  FreshTimer'
  BY <1>4, ReceiveFields DEF Frame, Goto, FreshTimer
<1>5. CASE BatchEnd("wait_frames", "wait")
  BY <1>5 DEF BatchEnd, Goto, vars, FreshTimer
<1>6. CASE BatchEnd("read_frames", "recv") \/ Finish
  BY <1>6 DEF BatchEnd, Finish, Goto, FreshTimer
<1>7. CASE SendRequest
  BY <1>7, SendFields DEF SendRequest, Goto, FreshTimer
<1>8. CASE ReadAndClose
  <2>1. pc' = "read"
    BY <1>8 DEF ReadAndClose, Goto
  <2>2. QED BY <1>8, <2>1, ReadAndCloseStates DEF FreshTimer
<1>9. CASE (Peer /\ UNCHANGED pc) \/ UNCHANGED clientVars
  <2>1. UNCHANGED <<tcb, pc>>
    BY <1>9 DEF Peer, PeerSyn, PeerReceive, clientVars
  <2>2. QED BY <2>1 DEF FreshTimer
<1>10. QED
  BY <1>1, <1>2, <1>3, <1>4, <1>5, <1>6, <1>7, <1>8, <1>9 DEF ClientNext, ClientStep

-----------------------------------------------------------------------------
(* The theorems *)

\* Before connect.
LEMMA ClientInvInit == ClientInit => ClientInv
<1> SUFFICES ASSUME ClientInit PROVE ClientInv
  OBVIOUS
<1>1. Init /\ pc = "connect"
  BY DEF ClientInit
<1>2. ConnInv
  BY <1>1, TypeInit, StreamInvInit, SendInvInit DEF ConnInv
<1>3. RequestInv
  <2>1. tcb.state = "Absent" /\ wire = {} /\ peer.got = <<>>
    BY <1>1 DEF Init, NoTcb
  <2>2. Bytes(1, 0) = <<>>
    BY NoBytes
  <2>3. RequestIntact
    BY <2>1, <2>2 DEF RequestIntact
  <2>4. QED BY <2>1, <2>3 DEF RequestInv, Whole, Sending, Payloads, AfterSyn
<1>4. ReadAll /\ FreshTimer
  BY <1>1 DEF Init, NoTcb, ReadAll, FreshTimer
<1>5. QED BY <1>2, <1>3, <1>4 DEF ClientInv

\* Every step of the client, the network and the peer.
LEMMA ClientInvStep == ClientInv /\ [ClientNext]_clientVars => ClientInv'
  BY ConnStep, RequestStep, ReadAllStep, FreshTimerStep DEF ClientInv

\* The invariant always holds.
LEMMA ClientInvariant == ClientSpec => []ClientInv
  BY ClientInvInit, ClientInvStep, PTL DEF ClientSpec

\* The server assembles a prefix of the request, for every length of it,
\* every initial sequence number, and whatever is lost, repeated, reordered
\* or retransmitted, before and after the connection is removed.
THEOREM RequestArrivesIntact == ClientSpec => []RequestIntact
<1>1. ClientInv => RequestIntact
  BY DEF ClientInv, RequestInv
<1>2. QED BY <1>1, ClientInvariant, PTL

\* When our FIN is out the application has read the whole response.
THEOREM ClosesAfterReading == ClientSpec => []ReadBeforeClose
<1>1. ASSUME ClientInv, tcb.state = "LastAck" PROVE delivered = Bytes(1, PeerBytes)
  <2>1. tcb.recv_buffer = <<>> /\ Good(tcb, delivered) /\ delivered \in Seq(Nat)
    BY <1>1 DEF ClientInv, ReadAll, ConnInv, StreamInv, TypeOK
  <2>2. delivered \o <<>> = delivered /\ Len(<<>>) = 0
    BY <2>1
  <2>3. Got(tcb, delivered) = PeerBytes /\ delivered = Bytes(1, PeerBytes)
    BY <1>1, <2>1, <2>2 DEF Good, Passive, Prefix
  <2>4. QED BY <2>3
<1>2. ClientInv => ReadBeforeClose
  BY <1>1 DEF ReadBeforeClose
<1>3. QED BY <1>2, ClientInvariant, PTL

\* In the reading loop the connection is not removed while bytes are unread:
\* they can be there when poll runs only right after the handshake, when no
\* retransmission has been counted.
THEOREM LosesNothingUnread == ClientSpec => NothingUnread
<1>1. ASSUME ClientInv, [ClientNext]_clientVars, tcb.recv_buffer # <<>>,
             pc \in {"read", "read_frames", "recv"}
      PROVE  tcb'.state # "Absent"
  <2>0. ConnInv /\ tcb.state # "Absent"
    BY <1>1 DEF ClientInv, ReadAll
  <2>1. ASSUME NEW due \in BOOLEAN, ReadPoll(due) PROVE tcb'.state # "Absent"
    <3>1. Poll(due) /\ pc = "read"
      BY <2>0, <2>1 DEF ReadPoll, PollPass, Goto
    <3>2. tcb.state = "Established" /\ tcb.retransmit_count = 0
      BY <1>1, <3>1 DEF ClientInv, FreshTimer
    <3>3. QED BY <2>0, <3>1, <3>2, PollFields
  <2>2. ASSUME NEW h \in PeerSegs, Frame("read_frames", h) PROVE tcb'.state # "Absent"
    BY <2>0, <2>2, ReceiveFields DEF Frame
  <2>3. CASE ReadAndClose
    BY <2>0, <2>3, ReadAndCloseStates
  <2>4. CASE UNCHANGED tcb
    BY <2>0, <2>4
  <2>5. CASE BatchEnd("read_frames", "recv") \/ Finish \/ Peer \/ UNCHANGED clientVars
    BY <2>4, <2>5 DEF BatchEnd, Finish, Peer, PeerSyn, PeerReceive, clientVars, vars
  <2>6. QED
    BY <1>1, <2>1, <2>2, <2>3, <2>5
       DEF ClientNext, ClientStep, CallConnect, WaitPoll, PollPass, SendRequest, BatchEnd, Frame, Goto
<1>2. ClientInv /\ [ClientNext]_clientVars =>
        [tcb.recv_buffer # <<>> /\ pc \in {"read", "read_frames", "recv"}
            => tcb'.state # "Absent"]_clientVars
  BY <1>1
<1>3. QED BY <1>2, ClientInvariant, PTL DEF ClientSpec, NothingUnread

\* The connection's own invariants hold when run_client drives it.
THEOREM ConnectionHolds ==
    ClientSpec => [](TypeOK /\ StreamPrefix /\ AckMatchesBuffer /\ SendBufferIsUnacked
                       /\ AckedIsAtPeer /\ ControlSegmentsInPlace)
<1>1. ClientInv => TypeOK /\ StreamPrefix /\ AckMatchesBuffer /\ SendBufferIsUnacked
                     /\ AckedIsAtPeer /\ ControlSegmentsInPlace
  BY StreamInvImplies, SendInvImplies DEF ClientInv, ConnInv
<1>2. QED BY <1>1, ClientInvariant, PTL
=============================================================================
