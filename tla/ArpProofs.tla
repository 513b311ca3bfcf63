----------------------------- MODULE ArpProofs -----------------------------
(***************************************************************************)
(* Address resolution for every number of neighbours and packets, every    *)
(* timeout and every number of retries: no packet is lost, doubled or      *)
(* misdirected, and packets are given up only after the last request.      *)
(***************************************************************************)
EXTENDS ArpCache, SequenceTheorems, TLAPS

-----------------------------------------------------------------------------
(* What a step does to the queues *)

QueueType == [packets : Seq(Packet), age : 0 .. PENDING_RETRY_INTERVAL, retries : 0 .. MAX_RETRIES]

\* The queue of an address once a packet was added to it
Longer(q, pkt) ==
    [packets |-> Append(q.packets, pkt),
     age |-> IF q.retries = 0 THEN 0 ELSE q.age,
     retries |-> IF q.retries = 0 THEN 1 ELSE q.retries]

\* The queue of an address once poll has looked at it
Aged(q) == [q EXCEPT !.age = AtMost(@ + lag, PENDING_RETRY_INTERVAL)]

\* A queue is a record of its three fields.
LEMMA QueueFields ==
    ASSUME NEW q \in QueueType
    PROVE  /\ q = [packets |-> q.packets, age |-> q.age, retries |-> q.retries]
           /\ q.packets \in Seq(Packet)
           /\ q.age \in 0 .. PENDING_RETRY_INTERVAL
           /\ q.retries \in 0 .. MAX_RETRIES
  BY DEF QueueType

\* Another request for a queue.
LEMMA RequestedQueue ==
    ASSUME NEW q \in QueueType
    PROVE  record_request(q) = [packets |-> q.packets, age |-> 0, retries |-> q.retries + 1]
<1>1. ASSUME NEW a \in Int, NEW k \in Int
      PROVE  [q EXCEPT !.age = a, !.retries = k]
                = [packets |-> q.packets, age |-> a, retries |-> k]
  <2> DEFINE r == [q EXCEPT !.age = a, !.retries = k]
  <2>1. r \in [packets : Seq(Packet), age : Int, retries : Int]
    BY DEF QueueType
  <2>2. r.packets = q.packets /\ r.age = a /\ r.retries = k
    BY DEF QueueType
  <2> HIDE DEF r
  <2>3. r = [packets |-> q.packets, age |-> a, retries |-> k]
    BY <2>1, <2>2
  <2>4. QED BY <2>3 DEF r
<1>2. 0 \in Int /\ q.retries + 1 \in Int
  BY DEF QueueType
<1>3. QED BY <1>1, <1>2, Zenon DEF record_request

\* Adding a packet to a queue, with and without a first request.
LEMMA LongerQueue ==
    ASSUME NEW q \in QueueType, NEW pkt \in Packet
    PROVE  LET r == [q EXCEPT !.packets = Append(q.packets, pkt)]
           IN  Longer(q, pkt) = IF q.retries = 0 THEN record_request(r) ELSE r
<1>1. CASE q.retries = 0
  <2> DEFINE r == [q EXCEPT !.packets = Append(q.packets, pkt)]
  <2>1. r \in QueueType /\ r.packets = Append(q.packets, pkt) /\ r.retries = 0
    BY <1>1 DEF QueueType
  <2> HIDE DEF r
  <2>2. record_request(r) = [packets |-> r.packets, age |-> 0, retries |-> r.retries + 1]
    BY <2>1, RequestedQueue
  <2>3. record_request(r) = Longer(q, pkt)
    BY <1>1, <2>1, <2>2 DEF Longer
  <2>4. QED BY <1>1, <2>3 DEF r
<1>2. CASE q.retries # 0
  BY <1>2 DEF QueueType, Longer
<1>3. QED BY <1>1, <1>2

\* send_frame writes the packet, or puts it at the end of the queue of its
\* destination and asks if nobody has asked yet.
LEMMA SendCases ==
    ASSUME TypeOK, NEW ip \in Ip, NEW e, SendVia(e, ip)
    PROVE  LET pkt == Len(handed) + 1 IN
           /\ pkt \in Packet
           /\ handed' = Append(handed, ip)
           /\ \/ /\ Resolves(e, ip)
                 /\ written' = Append(written, [pkt |-> pkt, ip |-> ip, mac |-> e[ip].mac])
                 /\ UNCHANGED <<pending, asked>>
              \/ /\ pending' = [pending EXCEPT ![ip] = Longer(pending[ip], pkt)]
                 /\ asked' = [asked EXCEPT ![ip] = IF pending[ip].retries = 0 THEN 1 ELSE @]
                 /\ UNCHANGED written
<1> DEFINE pkt == Len(handed) + 1
           q == pending[ip]
<1>1. pkt \in Packet /\ handed' = Append(handed, ip)
  BY ArpAssumption DEF TypeOK, SendVia, Packet
<1>2. CASE Resolves(e, ip)
  BY <1>1, <1>2 DEF SendVia
<1>3. CASE ~Resolves(e, ip)
  <2> DEFINE p == queue_packet(pending, ip, pkt)
  <2>1. /\ pending \in [Ip -> QueueType] /\ asked \in [Ip -> 0 .. MAX_RETRIES]
        /\ q \in QueueType
    BY DEF TypeOK, QueueType
  <2>2. /\ pending' = IF q.retries = 0 THEN [p EXCEPT ![ip] = record_request(@)] ELSE p
        /\ asked' = IF q.retries = 0 THEN [asked EXCEPT ![ip] = 1] ELSE asked
        /\ UNCHANGED written
    BY <1>3 DEF SendVia
  <2>3. p = [pending EXCEPT ![ip] = [q EXCEPT !.packets = Append(q.packets, pkt)]]
    BY <2>1 DEF queue_packet
  <2>4. CASE q.retries = 0
    <3>1. record_request(p[ip]) = Longer(q, pkt)
      BY <1>1, <2>1, <2>3, <2>4, LongerQueue
    <3>2. pending' = [pending EXCEPT ![ip] = Longer(q, pkt)]
      BY <2>1, <2>2, <2>3, <2>4, <3>1
    <3>3. QED BY <1>1, <2>1, <2>2, <2>4, <3>2
  <2>5. CASE q.retries # 0
    <3>1. [q EXCEPT !.packets = Append(q.packets, pkt)] = Longer(q, pkt)
      BY <1>1, <2>1, <2>5, LongerQueue
    <3>2. pending' = [pending EXCEPT ![ip] = Longer(q, pkt)]
      BY <2>2, <2>3, <2>5, <3>1
    <3>3. asked' = [asked EXCEPT ![ip] = IF q.retries = 0 THEN 1 ELSE @]
      BY <2>1, <2>2, <2>5
    <3>4. QED BY <1>1, <2>2, <3>2, <3>3
  <2>6. QED BY <2>4, <2>5
<1>4. QED BY <1>2, <1>3

\* poll ages a queue; the one that is due is given up after the last request
\* and asked for again before it.
LEMMA PollCases ==
    ASSUME TypeOK, Poll, NEW ip \in Ip
    PROVE  LET q == Aged(pending[ip]) IN
           /\ q \in QueueType
           /\ q.packets = pending[ip].packets
           /\ q.retries = pending[ip].retries
           /\ \/ /\ TimedOut(q)
                 /\ pending'[ip] = NoQueue /\ asked'[ip] = 0
              \/ /\ ~TimedOut(q) /\ Retry(q) /\ q.retries \in 1 .. MAX_RETRIES - 1
                 /\ pending'[ip] = [packets |-> q.packets, age |-> 0, retries |-> q.retries + 1]
                 /\ asked'[ip] = asked[ip] + 1
              \/ /\ ~TimedOut(q) /\ ~Retry(q)
                 /\ pending'[ip] = q /\ asked'[ip] = asked[ip]
<1> DEFINE q == Aged(pending[ip])
<1>1. pending[ip] \in QueueType /\ lag \in 0 .. PENDING_RETRY_INTERVAL
  BY DEF TypeOK, QueueType
<1>2. /\ q \in QueueType /\ q.packets = pending[ip].packets
      /\ q.retries = pending[ip].retries
  BY <1>1, ArpAssumption DEF QueueType, Aged, AtMost
<1>3. /\ pending'[ip] = IF TimedOut(q) THEN NoQueue
                        ELSE IF Retry(q) THEN record_request(q) ELSE q
      /\ asked'[ip] = IF TimedOut(q) THEN 0 ELSE IF Retry(q) THEN asked[ip] + 1 ELSE asked[ip]
  BY DEF Poll, Aged
<1>4. CASE TimedOut(q)
  BY <1>2, <1>3, <1>4
<1>5. CASE ~TimedOut(q) /\ Retry(q)
  <2> HIDE DEF q
  <2>1. q.retries \in 1 .. MAX_RETRIES - 1
    BY <1>2, <1>5, QueueFields, ArpAssumption DEF TimedOut, Retry
  <2>2. record_request(q) = [packets |-> q.packets, age |-> 0, retries |-> q.retries + 1]
    BY <1>2, RequestedQueue
  <2>3. QED BY <1>2, <1>3, <1>5, <2>1, <2>2 DEF q
<1>6. CASE ~TimedOut(q) /\ ~Retry(q)
  BY <1>2, <1>3, <1>6
<1>7. QED BY <1>4, <1>5, <1>6

\* What a reply writes: the queue in its order, each packet once.
LEMMA Flushed ==
    ASSUME TypeOK, NEW ip \in Ip, NEW mac \in HwAddr, ArpReply(ip, mac)
    PROVE  LET n == Len(written)
               q == pending[ip].packets
           IN  /\ written' \in Seq([pkt : Packet, ip : Ip, mac : HwAddr])
               /\ Len(written') = n + Len(q)
               /\ \A i \in 1 .. n : written'[i] = written[i]
               /\ \A i \in 1 .. Len(q) :
                     written'[n + i] = [pkt |-> q[i], ip |-> ip, mac |-> mac]
<1> DEFINE Frame == [pkt : Packet, ip : Ip, mac : HwAddr]
           q == pending[ip].packets
           flushed == [i \in 1 .. Len(q) |-> [pkt |-> q[i], ip |-> ip, mac |-> mac]]
<1>1. q \in Seq(Packet) /\ written \in Seq(Frame)
  BY DEF TypeOK
<1>2. flushed \in Seq(Frame) /\ Len(flushed) = Len(q)
  BY <1>1
<1>3. written' = written \o flushed
  BY DEF ArpReply
<1>4. \A i \in 1 .. Len(q) : flushed[i] = [pkt |-> q[i], ip |-> ip, mac |-> mac]
  BY <1>1
<1> HIDE DEF q, flushed, Frame
<1>5. /\ written' \in Seq(Frame)
      /\ Len(written') = Len(written) + Len(q)
      /\ \A i \in 1 .. Len(written) + Len(q) :
            written'[i] = IF i <= Len(written) THEN written[i] ELSE flushed[i - Len(written)]
  <2> DEFINE both == written \o flushed
  <2>1. /\ both \in Seq(Frame)
        /\ Len(both) = Len(written) + Len(flushed)
        /\ \A i \in 1 .. Len(written) + Len(flushed) :
              both[i] = IF i <= Len(written) THEN written[i] ELSE flushed[i - Len(written)]
    BY <1>1, <1>2, ConcatProperties
  <2> HIDE DEF both
  <2>2. QED BY <1>2, <1>3, <2>1 DEF both
<1>6. /\ \A i \in 1 .. Len(written) : written'[i] = written[i]
      /\ \A i \in 1 .. Len(q) : written'[Len(written) + i] = flushed[i]
  <2>1. Len(written) \in Nat /\ Len(q) \in Nat
    BY <1>1, LenProperties
  <2>2. QED BY <1>5, <2>1
<1>7. QED BY <1>4, <1>5, <1>6 DEF q, Frame

-----------------------------------------------------------------------------
(* Types and requests *)

EntryType == [mac : HwAddr, ttl : -1 .. CACHE_TTL]

QueueOK(q, n) ==
    /\ q \in QueueType
    /\ q.retries = 0 <=> q.packets = <<>>
    /\ q.retries = n

\* The types of the queues and what is known of the requests for them
QueuesOK ==
    /\ pending \in [Ip -> QueueType]
    /\ asked \in [Ip -> 0 .. MAX_RETRIES]
    /\ \A ip \in Ip : QueueOK(pending[ip], asked[ip])

\* The two ways to state it agree.
LEMMA QueuesOKDef == TypeOK => (QueuesOK <=> QueueMatchesRequests)
  BY DEF TypeOK, QueuesOK, QueueOK, QueueType, QueueMatchesRequests

\* An absent queue is as it should be.
LEMMA NoQueueOK == QueueOK(NoQueue, 0)
  BY ArpAssumption DEF QueueOK, NoQueue, QueueType

\* So is one that has just been given its next packet.
LEMMA LongerOK ==
    ASSUME NEW q, NEW n \in 0 .. MAX_RETRIES, QueueOK(q, n), NEW pkt \in Packet
    PROVE  QueueOK(Longer(q, pkt), IF q.retries = 0 THEN 1 ELSE n)
<1>1. /\ q.packets \in Seq(Packet) /\ q.age \in 0 .. PENDING_RETRY_INTERVAL
      /\ q.retries \in 0 .. MAX_RETRIES /\ q.retries = n
  BY QueueFields DEF QueueOK
<1>2. Append(q.packets, pkt) \in Seq(Packet) /\ Append(q.packets, pkt) # <<>>
  BY <1>1
<1>3. QED BY <1>1, <1>2, ArpAssumption DEF QueueOK, Longer, QueueType

\* Learning keeps the type of the cache.
LEMMA EntriesType ==
    ASSUME entries \in [Ip -> EntryType], NEW ip \in Ip, NEW mac \in HwAddr
    PROVE  /\ learn(entries, ip, mac) \in [Ip -> EntryType]
           /\ insert(learn(entries, ip, mac), ip, mac) \in [Ip -> EntryType]
  BY ArpAssumption DEF EntryType, learn, insert, Entry

\* send_frame keeps the types and what is known of the requests.
LEMMA SendType ==
    ASSUME TypeOK, QueuesOK, NEW ip \in Ip, NEW e \in [Ip -> EntryType], SendVia(e, ip)
    PROVE  /\ QueuesOK'
           /\ written' \in Seq([pkt : Packet, ip : Ip, mac : HwAddr])
           /\ handed' \in Seq(Ip)
<1> DEFINE pkt == Len(handed) + 1
<1>1. /\ pkt \in Packet
      /\ handed' = Append(handed, ip)
      /\ \/ /\ Resolves(e, ip)
            /\ written' = Append(written, [pkt |-> pkt, ip |-> ip, mac |-> e[ip].mac])
            /\ UNCHANGED <<pending, asked>>
         \/ /\ pending' = [pending EXCEPT ![ip] = Longer(pending[ip], pkt)]
            /\ asked' = [asked EXCEPT ![ip] = IF pending[ip].retries = 0 THEN 1 ELSE @]
            /\ UNCHANGED written
  BY SendCases
<1>2. /\ handed \in Seq(Ip)
      /\ written \in Seq([pkt : Packet, ip : Ip, mac : HwAddr])
  BY DEF TypeOK
<1>3. handed' \in Seq(Ip)
  BY <1>1, <1>2
<1> HIDE DEF pkt
<1>4. CASE /\ UNCHANGED <<pending, asked>>
           /\ written' = Append(written, [pkt |-> pkt, ip |-> ip, mac |-> e[ip].mac])
  <2>1. [pkt |-> pkt, ip |-> ip, mac |-> e[ip].mac] \in [pkt : Packet, ip : Ip, mac : HwAddr]
    BY <1>1 DEF EntryType
  <2>2. written' \in Seq([pkt : Packet, ip : Ip, mac : HwAddr])
    BY <1>2, <1>4, <2>1
  <2>3. QED BY <1>3, <1>4, <2>2 DEF QueuesOK
<1>5. CASE /\ pending' = [pending EXCEPT ![ip] = Longer(pending[ip], pkt)]
           /\ asked' = [asked EXCEPT ![ip] = IF pending[ip].retries = 0 THEN 1 ELSE @]
           /\ UNCHANGED written
  <2>1. /\ QueueOK(Longer(pending[ip], pkt), IF pending[ip].retries = 0 THEN 1 ELSE asked[ip])
        /\ Longer(pending[ip], pkt) \in QueueType
    BY <1>1, LongerOK DEF QueuesOK, QueueOK
  <2>2. QueuesOK'
    BY <1>5, <2>1, ArpAssumption DEF QueuesOK
  <2>3. QED BY <1>2, <1>3, <1>5, <2>2
<1>6. QED BY <1>1, <1>4, <1>5

\* Types and requests are kept by every step.
LEMMA TypeStep ==
    ASSUME TypeOK, QueuesOK, [Next]_vars
    PROVE  TypeOK' /\ QueuesOK'
<1> DEFINE FrameSeq == Seq([pkt : Packet, ip : Ip, mac : HwAddr])
<1>1. /\ entries \in [Ip -> EntryType] /\ lag \in 0 .. PENDING_RETRY_INTERVAL
      /\ written \in FrameSeq /\ dropped \subseteq Packet /\ handed \in Seq(Ip)
  BY DEF TypeOK, EntryType
<1>2. SUFFICES /\ QueuesOK' /\ entries' \in [Ip -> EntryType]
               /\ lag' \in 0 .. PENDING_RETRY_INTERVAL
               /\ written' \in FrameSeq /\ dropped' \subseteq Packet /\ handed' \in Seq(Ip)
  BY DEF TypeOK, EntryType, QueuesOK, QueueType
<1> HIDE DEF FrameSeq
<1>3. ASSUME NEW ip \in Ip, SendFrame(ip)
      PROVE  /\ QueuesOK' /\ written' \in FrameSeq /\ handed' \in Seq(Ip)
             /\ UNCHANGED <<entries, lag, dropped>>
  <2>1. SendVia(entries, ip) /\ UNCHANGED <<entries, lag, dropped>>
    BY <1>3 DEF SendFrame
  <2>2. QED BY <1>1, <2>1, SendType DEF FrameSeq
<1>4. CASE Poll
  <2>1. /\ lag' = 0 /\ UNCHANGED <<entries, written, handed>>
        /\ pending' = [ip \in Ip |-> pending'[ip]]
        /\ asked' = [ip \in Ip |-> asked'[ip]]
    BY <1>4 DEF Poll
  <2>2. ASSUME NEW ip \in Ip PROVE QueueOK(pending'[ip], asked'[ip])
    <3> DEFINE q == Aged(pending[ip])
    <3>1. QueueOK(pending[ip], asked[ip])
      BY DEF QueuesOK
    <3>2. /\ q \in QueueType /\ q.packets = pending[ip].packets
          /\ q.retries = pending[ip].retries
          /\ \/ /\ TimedOut(q)
                /\ pending'[ip] = NoQueue /\ asked'[ip] = 0
             \/ /\ ~TimedOut(q) /\ Retry(q) /\ q.retries \in 1 .. MAX_RETRIES - 1
                /\ pending'[ip] = [packets |-> q.packets, age |-> 0, retries |-> q.retries + 1]
                /\ asked'[ip] = asked[ip] + 1
             \/ /\ ~TimedOut(q) /\ ~Retry(q)
                /\ pending'[ip] = q /\ asked'[ip] = asked[ip]
      BY <1>4, PollCases
    <3> HIDE DEF q
    <3>3. CASE pending'[ip] = NoQueue /\ asked'[ip] = 0
      BY <3>3, NoQueueOK
    <3>4. CASE /\ q.retries \in 1 .. MAX_RETRIES - 1
               /\ pending'[ip] = [packets |-> q.packets, age |-> 0, retries |-> q.retries + 1]
               /\ asked'[ip] = asked[ip] + 1
      <4>1. q.packets \in Seq(Packet) /\ q.packets # <<>>
        BY <3>1, <3>2, <3>4, QueueFields, ArpAssumption DEF QueueOK
      <4>2. pending'[ip] \in QueueType
        BY <3>4, <4>1, ArpAssumption DEF QueueType
      <4>3. QED BY <3>1, <3>2, <3>4, <4>1, <4>2, ArpAssumption DEF QueueOK
    <3>5. CASE pending'[ip] = q /\ asked'[ip] = asked[ip]
      BY <3>1, <3>2, <3>5 DEF QueueOK
    <3>6. QED BY <3>2, <3>3, <3>4, <3>5
  <2>3. QueuesOK'
    BY <2>1, <2>2 DEF QueuesOK, QueueOK, QueueType
  <2>4. dropped' \subseteq Packet
    <3>1. \A ip \in Ip : pending[ip].packets \in Seq(Packet)
      BY DEF TypeOK
    <3>2. \A ip \in Ip : Queued(ip) \subseteq Packet
      BY <3>1 DEF Queued
    <3>3. QED BY <1>1, <1>4, <3>2 DEF Poll
  <2>5. QED BY <1>1, <2>1, <2>3, <2>4, ArpAssumption
<1>5. ASSUME NEW ip \in Ip, NEW mac \in HwAddr, ArpRequest(ip, mac)
      PROVE  entries' \in [Ip -> EntryType] /\ UNCHANGED <<pending, lag, written, dropped, asked, handed>>
  BY <1>1, <1>5, EntriesType DEF ArpRequest
<1>6. ASSUME NEW ip \in Ip, NEW mac \in HwAddr, ArpReply(ip, mac)
      PROVE  /\ QueuesOK' /\ entries' \in [Ip -> EntryType] /\ written' \in FrameSeq
             /\ UNCHANGED <<lag, dropped, handed>>
  <2>1. entries' \in [Ip -> EntryType] /\ UNCHANGED <<lag, dropped, handed>>
    BY <1>1, <1>6, EntriesType DEF ArpReply
  <2>2. written' \in FrameSeq
    BY <1>6, Flushed DEF FrameSeq
  <2>3. /\ pending' = [pending EXCEPT ![ip] = NoQueue]
        /\ asked' = [asked EXCEPT ![ip] = 0]
    BY <1>6 DEF ArpReply
  <2>4. NoQueue \in QueueType /\ 0 \in 0 .. MAX_RETRIES
    BY NoQueueOK, ArpAssumption DEF QueueOK
  <2>5. QueuesOK'
    BY <2>3, <2>4, NoQueueOK DEF QueuesOK
  <2>6. QED BY <2>1, <2>2, <2>5
<1>7. ASSUME NEW ip \in Ip, NEW mac \in HwAddr, NEW b \in BOOLEAN, Ipv4(ip, mac, b)
      PROVE  /\ QueuesOK' /\ written' \in FrameSeq /\ handed' \in Seq(Ip)
             /\ entries' \in [Ip -> EntryType] /\ UNCHANGED <<lag, dropped>>
  <2> DEFINE e == learn(entries, ip, mac)
  <2>1. e \in [Ip -> EntryType]
    BY <1>1, EntriesType
  <2>2. entries' = e /\ UNCHANGED <<lag, dropped>>
    BY <1>7 DEF Ipv4
  <2>3. CASE SendVia(e, ip)
    <3> HIDE DEF e
    <3> QED BY <2>1, <2>2, <2>3, SendType DEF FrameSeq
  <2>4. CASE UNCHANGED <<handed, written, pending, asked>>
    BY <1>1, <2>1, <2>2, <2>4 DEF QueuesOK
  <2>5. QED BY <1>7, <2>3, <2>4 DEF Ipv4
<1>8. CASE Elapse
  <2>1. lag' \in 0 .. PENDING_RETRY_INTERVAL
    BY <1>1, <1>8, ArpAssumption DEF Elapse, AtMost
  <2>2. entries' \in [Ip -> EntryType]
    BY <1>1, <1>8, ArpAssumption DEF Elapse, EntryType
  <2>3. UNCHANGED <<pending, written, dropped, asked, handed>>
    BY <1>8 DEF Elapse
  <2>4. QED BY <1>1, <2>1, <2>2, <2>3 DEF QueuesOK
<1>9. CASE UNCHANGED vars
  BY <1>1, <1>9 DEF vars, QueuesOK
<1>10. (UNCHANGED <<pending, asked>>) => QueuesOK'
  BY DEF QueuesOK
<1>11. QED BY <1>1, <1>3, <1>4, <1>5, <1>6, <1>7, <1>8, <1>9, <1>10 DEF Next

\* They hold at the start.
LEMMA TypeInit == Init => TypeOK /\ QueuesOK
<1> SUFFICES ASSUME Init PROVE TypeOK /\ QueuesOK
  OBVIOUS
<1>1. NoQueue \in QueueType
  BY NoQueueOK DEF QueueOK
<1>2. QueuesOK
  BY <1>1, NoQueueOK, ArpAssumption DEF Init, QueuesOK
<1>3. entries \in [Ip -> EntryType]
  BY ArpAssumption DEF Init, Unknown, EntryType, HwAddr
<1>4. QED BY <1>2, <1>3, ArpAssumption DEF Init, TypeOK, QueuesOK, EntryType, QueueType

\* The types of the cache and the queues; in particular no resolution asks
\* more than MAX_RETRIES times (arp.rs: tick, record_request).
THEOREM TypeCorrect == Spec => []TypeOK
<1>1. (TypeOK /\ QueuesOK) /\ [Next]_vars => (TypeOK /\ QueuesOK)'
  BY TypeStep
<1>2. QED BY <1>1, TypeInit, PTL DEF Spec

\* A queue is in the map exactly while packets wait in it, and it knows how
\* many requests were broadcast for it, whatever is sent, learned or polled
\* in between (arp.rs: queue_packet, record_request, tick; stack.rs: handle_arp).
THEOREM QueuesMatchRequests == Spec => []QueueMatchesRequests
<1>1. (TypeOK /\ QueuesOK) /\ [Next]_vars => (TypeOK /\ QueuesOK)'
  BY TypeStep
<1>2. TypeOK /\ QueuesOK => QueueMatchesRequests
  BY QueuesOKDef
<1>3. QED BY <1>1, <1>2, TypeInit, PTL DEF Spec

-----------------------------------------------------------------------------
(* Where the packets are *)

Elements(s) == {s[i] : i \in 1 .. Len(s)}
Distinct(s) == \A i, j \in 1 .. Len(s) : s[i] = s[j] => i = j

\* A new element at the end of a sequence.
LEMMA AppendElements ==
    ASSUME NEW S, NEW s \in Seq(S), NEW x \in S
    PROVE  /\ Elements(Append(s, x)) = Elements(s) \cup {x}
           /\ Distinct(s) /\ x \notin Elements(s) => Distinct(Append(s, x))
<1> DEFINE t == Append(s, x)
<1>1. /\ t \in Seq(S) /\ Len(t) = Len(s) + 1 /\ t[Len(s) + 1] = x
      /\ \A i \in 1 .. Len(s) : t[i] = s[i]
  BY AppendProperties
<1>2. Len(s) \in Nat
  OBVIOUS
<1> HIDE DEF t
<1>3. \A i \in 1 .. Len(t) : i \in 1 .. Len(s) \/ i = Len(s) + 1
  BY <1>1, <1>2
<1>4. 1 .. Len(s) \subseteq 1 .. Len(t) /\ Len(s) + 1 \in 1 .. Len(t)
  BY <1>1, <1>2
<1>5. Elements(t) = Elements(s) \cup {x}
  BY <1>1, <1>3, <1>4 DEF Elements
<1>6. ASSUME Distinct(s), x \notin Elements(s) PROVE Distinct(t)
  <2> SUFFICES ASSUME NEW i \in 1 .. Len(t), NEW j \in 1 .. Len(t), t[i] = t[j]
               PROVE  i = j
    BY DEF Distinct
  <2>1. CASE i \in 1 .. Len(s) /\ j \in 1 .. Len(s)
    BY <1>1, <1>6, <2>1 DEF Distinct
  <2>2. CASE i \in 1 .. Len(s) /\ j = Len(s) + 1
    BY <1>1, <1>6, <2>2 DEF Elements
  <2>3. CASE j \in 1 .. Len(s) /\ i = Len(s) + 1
    BY <1>1, <1>6, <2>3 DEF Elements
  <2>4. QED BY <1>3, <2>1, <2>2, <2>3
<1>7. QED BY <1>5, <1>6 DEF t

\* The parts of EveryPacketAccountedFor for packets in other places
Placed(w, q, d, h) ==
    /\ 1 .. Len(h) = w \cup (UNION {q[ip] : ip \in Ip}) \cup d
    /\ w \cap d = {}
    /\ \A ip \in Ip : /\ q[ip] \cap w = {} /\ q[ip] \cap d = {}
                      /\ \A k \in q[ip] : h[k] = ip

Queues == [ip \in Ip |-> Queued(ip)]

\* The property in terms of its parts
Account ==
    /\ Placed(Written, Queues, dropped, handed)
    /\ \A i, j \in 1 .. Len(written) : written[i].pkt = written[j].pkt => i = j
    /\ \A i \in 1 .. Len(written) : handed[written[i].pkt] = written[i].ip
    /\ \A ip \in Ip : Distinct(pending[ip].packets)

\* The two ways to state it agree.
LEMMA AccountedDef == Account <=> EveryPacketAccountedFor
<1>1. /\ Waiting = UNION {Queues[ip] : ip \in Ip}
      /\ \A ip \in Ip : Queues[ip] = Queued(ip)
  BY DEF Waiting, Queues
<1>2. Placed(Written, Queues, dropped, handed)
       <=> /\ 1 .. Len(handed) = Written \cup Waiting \cup dropped
           /\ Written \cap Waiting = {} /\ Written \cap dropped = {} /\ Waiting \cap dropped = {}
           /\ \A ip \in Ip : \A k \in Queued(ip) : handed[k] = ip
  BY <1>1 DEF Placed
<1>3. QED BY <1>2 DEF Account, EveryPacketAccountedFor, Distinct

\* A packet is handed over: it is new, and those before it keep their
\* destination.
LEMMA HandedOver ==
    ASSUME TypeOK, NEW ip \in Ip, handed' = Append(handed, ip),
           Placed(Written, Queues, dropped, handed)
    PROVE  LET pkt == Len(handed) + 1 IN
           /\ pkt \notin Written /\ pkt \notin dropped
           /\ \A jp \in Ip : pkt \notin Queues[jp]
           /\ 1 .. Len(handed') = 1 .. Len(handed) \cup {pkt}
           /\ handed'[pkt] = ip
           /\ \A k \in 1 .. Len(handed) : handed'[k] = handed[k]
           /\ Written \subseteq 1 .. Len(handed)
           /\ \A jp \in Ip : Queues[jp] \subseteq 1 .. Len(handed)
<1> DEFINE pkt == Len(handed) + 1
<1>1. handed \in Seq(Ip) /\ Len(handed) \in Nat
  BY DEF TypeOK
<1>2. /\ Len(handed') = pkt /\ handed'[pkt] = ip
      /\ \A k \in 1 .. Len(handed) : handed'[k] = handed[k]
  BY <1>1, AppendProperties
<1>3. 1 .. pkt = 1 .. Len(handed) \cup {pkt} /\ pkt \notin 1 .. Len(handed)
  BY <1>1
<1>4. /\ Written \subseteq 1 .. Len(handed) /\ dropped \subseteq 1 .. Len(handed)
      /\ \A jp \in Ip : Queues[jp] \subseteq 1 .. Len(handed)
  BY DEF Placed
<1> HIDE DEF pkt
<1>5. QED BY <1>2, <1>3, <1>4 DEF pkt

\* send_frame keeps the account.
LEMMA SendAccounted ==
    ASSUME TypeOK, Account, NEW ip \in Ip, NEW e \in [Ip -> EntryType], SendVia(e, ip),
           UNCHANGED dropped
    PROVE  Account'
<1> DEFINE pkt == Len(handed) + 1
           frame == [pkt |-> pkt, ip |-> ip, mac |-> e[ip].mac]
<1>1. /\ Placed(Written, Queues, dropped, handed)
      /\ \A i, j \in 1 .. Len(written) : written[i].pkt = written[j].pkt => i = j
      /\ \A i \in 1 .. Len(written) : handed[written[i].pkt] = written[i].ip
      /\ \A jp \in Ip : Distinct(pending[jp].packets)
  BY DEF Account
<1>2. /\ pkt \in Packet
      /\ handed' = Append(handed, ip)
      /\ \/ /\ written' = Append(written, frame)
            /\ UNCHANGED <<pending, asked>>
         \/ /\ pending' = [pending EXCEPT ![ip] = Longer(pending[ip], pkt)]
            /\ UNCHANGED written
  BY SendCases
<1>3. /\ pkt \notin Written /\ pkt \notin dropped
      /\ \A jp \in Ip : pkt \notin Queues[jp]
      /\ 1 .. Len(handed') = 1 .. Len(handed) \cup {pkt}
      /\ handed'[pkt] = ip
      /\ \A k \in 1 .. Len(handed) : handed'[k] = handed[k]
      /\ Written \subseteq 1 .. Len(handed)
      /\ \A jp \in Ip : Queues[jp] \subseteq 1 .. Len(handed)
  BY <1>1, <1>2, HandedOver
<1>4. /\ written \in Seq([pkt : Packet, ip : Ip, mac : HwAddr]) /\ Len(written) \in Nat
      /\ \A jp \in Ip : pending[jp].packets \in Seq(Packet)
      /\ pending \in [Ip -> QueueType]
  BY DEF TypeOK, QueueType
<1>5. \A i \in 1 .. Len(written) : written[i].pkt \in Written
  BY DEF Written
<1> HIDE DEF pkt
<1>6. CASE written' = Append(written, frame) /\ UNCHANGED <<pending, asked>>
  <2>1. /\ Len(written') = Len(written) + 1 /\ written'[Len(written) + 1] = frame
        /\ \A i \in 1 .. Len(written) : written'[i] = written[i]
    <3>1. frame \in [pkt : Packet, ip : Ip, mac : HwAddr]
      BY <1>2 DEF EntryType
    <3> HIDE DEF frame
    <3>2. QED BY <1>4, <1>6, <3>1, AppendProperties
  <2>2. /\ frame.pkt = pkt /\ frame.ip = ip
        /\ \A i \in 1 .. Len(written') : i \in 1 .. Len(written) \/ i = Len(written) + 1
        /\ 1 .. Len(written) \subseteq 1 .. Len(written') /\ Len(written) + 1 \in 1 .. Len(written')
    BY <1>4, <2>1
  <2> HIDE DEF frame
  <2>3. Written' = Written \cup {pkt}
    BY <2>1, <2>2 DEF Written
  <2>4. Queues' = Queues
    BY <1>6 DEF Queues, Queued
  <2>5. Placed(Written', Queues', dropped', handed')
    BY <1>1, <1>3, <2>3, <2>4 DEF Placed
  <2>6. \A i, j \in 1 .. Len(written') : written'[i].pkt = written'[j].pkt => i = j
    <3> TAKE i, j \in 1 .. Len(written')
    <3>1. CASE i \in 1 .. Len(written) /\ j \in 1 .. Len(written)
      BY <1>1, <2>1, <3>1
    <3>2. CASE i = Len(written) + 1 \/ j = Len(written) + 1
      BY <1>3, <1>5, <2>1, <2>2, <3>2
    <3>3. QED BY <2>2, <3>1, <3>2
  <2>7. \A i \in 1 .. Len(written') : handed'[written'[i].pkt] = written'[i].ip
    <3> TAKE i \in 1 .. Len(written')
    <3>1. CASE i \in 1 .. Len(written)
      BY <1>1, <1>3, <1>5, <2>1, <3>1
    <3>2. CASE i = Len(written) + 1
      BY <1>3, <2>1, <2>2, <3>2
    <3>3. QED BY <2>2, <3>1, <3>2
  <2>8. QED BY <1>1, <1>6, <2>5, <2>6, <2>7 DEF Account
<1>7. CASE pending' = [pending EXCEPT ![ip] = Longer(pending[ip], pkt)] /\ UNCHANGED written
  <2>1. /\ pending'[ip].packets = Append(pending[ip].packets, pkt)
        /\ \A jp \in Ip \ {ip} : pending'[jp] = pending[jp]
    BY <1>4, <1>7 DEF Longer
  <2>2. Queues'[ip] = Queues[ip] \cup {pkt} /\ \A jp \in Ip \ {ip} : Queues'[jp] = Queues[jp]
    <3>1. Elements(pending'[ip].packets) = Elements(pending[ip].packets) \cup {pkt}
      BY <1>2, <1>4, <2>1, AppendElements
    <3>2. \A jp \in Ip : /\ Queues[jp] = Elements(pending[jp].packets)
                         /\ Queues'[jp] = Elements(pending'[jp].packets)
      BY DEF Queues, Queued, Elements
    <3>3. QED BY <2>1, <3>1, <3>2
  <2>3. Written' = Written
    BY <1>7 DEF Written
  <2>4. Placed(Written', Queues', dropped', handed')
    BY <1>1, <1>3, <2>2, <2>3 DEF Placed
  <2>5. \A i \in 1 .. Len(written) : handed'[written[i].pkt] = written[i].ip
    BY <1>1, <1>3, <1>5
  <2>6. \A jp \in Ip : Distinct(pending'[jp].packets)
    <3>1. pkt \notin Elements(pending[ip].packets)
      BY <1>3 DEF Queues, Queued, Elements
    <3>2. Distinct(pending'[ip].packets)
      BY <1>1, <1>2, <1>4, <2>1, <3>1, AppendElements
    <3>3. QED BY <1>1, <2>1, <3>2
  <2>7. QED BY <1>1, <1>7, <2>4, <2>5, <2>6 DEF Account
<1>8. QED BY <1>2, <1>6, <1>7

\* poll moves the queues it gives up to what was dropped, whole.
LEMMA PollQueues ==
    ASSUME TypeOK, Poll
    PROVE  LET out == {a \in Ip : TimedOut(Aged(pending[a]))} IN
           /\ dropped' = dropped \cup UNION {Queued(ip) : ip \in out}
           /\ \A ip \in out : Queues'[ip] = {} /\ pending'[ip].packets = <<>>
           /\ \A ip \in Ip \ out : /\ Queues'[ip] = Queues[ip]
                                   /\ pending'[ip].packets = pending[ip].packets
<1>1. dropped' = dropped \cup UNION {Queued(ip) : ip \in {a \in Ip : TimedOut(Aged(pending[a]))}}
  BY DEF Poll, Aged
<1>2. ASSUME NEW ip \in Ip
      PROVE  pending'[ip].packets = IF TimedOut(Aged(pending[ip])) THEN <<>> ELSE pending[ip].packets
  <2> DEFINE q == Aged(pending[ip])
  <2>1. /\ q.packets = pending[ip].packets
        /\ \/ TimedOut(q) /\ pending'[ip] = NoQueue
           \/ /\ ~TimedOut(q)
              /\ pending'[ip] = [packets |-> q.packets, age |-> 0, retries |-> q.retries + 1]
           \/ ~TimedOut(q) /\ pending'[ip] = q
    BY PollCases
  <2> HIDE DEF q
  <2>2. pending'[ip].packets = IF TimedOut(q) THEN <<>> ELSE q.packets
    BY <2>1 DEF NoQueue
  <2>3. QED BY <2>1, <2>2 DEF q
<1>3. \A ip \in Ip : /\ Queues[ip] = Elements(pending[ip].packets)
                     /\ Queues'[ip] = Elements(pending'[ip].packets)
  BY DEF Queues, Queued, Elements
<1>4. Elements(<<>>) = {}
  BY DEF Elements
<1>5. QED BY <1>1, <1>2, <1>3, <1>4

\* poll keeps the account.
LEMMA PollAccounted ==
    ASSUME TypeOK, Account, Poll
    PROVE  Account'
<1> DEFINE out == {a \in Ip : TimedOut(Aged(pending[a]))}
<1>1. /\ Placed(Written, Queues, dropped, handed)
      /\ \A jp \in Ip : Distinct(pending[jp].packets)
  BY DEF Account
<1>2. /\ dropped' = dropped \cup UNION {Queued(ip) : ip \in out}
      /\ \A ip \in out : Queues'[ip] = {} /\ pending'[ip].packets = <<>>
      /\ \A ip \in Ip \ out : /\ Queues'[ip] = Queues[ip]
                              /\ pending'[ip].packets = pending[ip].packets
  BY PollQueues
<1>3. UNCHANGED <<written, handed>> /\ Written' = Written
  BY DEF Poll, Written
<1>4. /\ \A ip \in Ip : Queued(ip) = Queues[ip]
      /\ out \subseteq Ip
  BY DEF Queues
<1> HIDE DEF out
<1>5. Placed(Written', Queues', dropped', handed')
  <2>1. /\ \A k \in dropped' : k \in dropped \/ \E ip \in out : k \in Queues[ip]
        /\ dropped \subseteq dropped' /\ \A ip \in out : Queues[ip] \subseteq dropped'
    BY <1>2, <1>4
  <2>2. \A ip, jp \in Ip : \A k \in Queues[ip] : k \in Queues[jp] => ip = jp
    BY <1>1 DEF Placed
  <2>3. (UNION {Queues[ip] : ip \in Ip}) \cup dropped
            = (UNION {Queues'[ip] : ip \in Ip}) \cup dropped'
    BY <1>2, <1>4, <2>1
  <2>4. Written \cap dropped' = {}
    BY <1>1, <1>4, <2>1 DEF Placed
  <2>5. \A ip \in Ip : /\ Queues'[ip] \cap Written = {} /\ Queues'[ip] \cap dropped' = {}
                       /\ \A k \in Queues'[ip] : handed[k] = ip
    BY <1>1, <1>2, <1>4, <2>1, <2>2 DEF Placed
  <2>6. QED BY <1>1, <1>3, <2>3, <2>4, <2>5 DEF Placed
<1>6. \A jp \in Ip : Distinct(pending'[jp].packets)
  BY <1>1, <1>2 DEF Distinct
<1>7. QED BY <1>3, <1>5, <1>6 DEF Account

\* A reply keeps the account: what it writes was waiting, and waits no longer.
LEMMA ReplyAccounted ==
    ASSUME TypeOK, Account, NEW ip \in Ip, NEW mac \in HwAddr, ArpReply(ip, mac)
    PROVE  Account'
<1> DEFINE n == Len(written)
           q == pending[ip].packets
<1>1. /\ Placed(Written, Queues, dropped, handed)
      /\ \A i, j \in 1 .. n : written[i].pkt = written[j].pkt => i = j
      /\ \A i \in 1 .. n : handed[written[i].pkt] = written[i].ip
      /\ \A jp \in Ip : Distinct(pending[jp].packets)
  BY DEF Account
<1>2. /\ Len(written') = n + Len(q)
      /\ \A i \in 1 .. n : written'[i] = written[i]
      /\ \A i \in 1 .. Len(q) : written'[n + i] = [pkt |-> q[i], ip |-> ip, mac |-> mac]
  BY Flushed
<1>3. n \in Nat /\ Len(q) \in Nat /\ pending \in [Ip -> QueueType]
  BY DEF TypeOK, QueueType
<1>4. UNCHANGED <<dropped, handed>> /\ pending' = [pending EXCEPT ![ip] = NoQueue]
  BY DEF ArpReply
<1>5. /\ pending'[ip].packets = <<>>
      /\ \A jp \in Ip \ {ip} : pending'[jp] = pending[jp]
  BY <1>3, <1>4 DEF NoQueue
<1>6. \A jp \in Ip : /\ Queues[jp] = Elements(pending[jp].packets)
                     /\ Queues'[jp] = Elements(pending'[jp].packets)
  BY DEF Queues, Queued, Elements
<1>7. Queues'[ip] = {} /\ \A jp \in Ip \ {ip} : Queues'[jp] = Queues[jp]
  <2>1. Elements(<<>>) = {}
    BY DEF Elements
  <2>2. QED BY <1>5, <1>6, <2>1
<1>8. /\ \A i \in 1 .. n : written[i].pkt \in Written
      /\ \A i \in 1 .. Len(q) : q[i] \in Queues[ip]
  BY <1>6 DEF Written, Elements
<1> HIDE DEF n, q
\* Each frame after the step is an old one or one of the queue
<1>9. \A i \in 1 .. Len(written') :
         \/ i \in 1 .. n
         \/ i - n \in 1 .. Len(q) /\ written'[i].pkt = q[i - n] /\ written'[i].ip = ip
  <2> TAKE i \in 1 .. Len(written')
  <2>1. CASE i <= n
    BY <1>2, <1>3, <2>1
  <2>2. CASE ~(i <= n)
    <3>1. i - n \in 1 .. Len(q) /\ n + (i - n) = i
      BY <1>2, <1>3, <2>2
    <3>2. written'[n + (i - n)] = [pkt |-> q[i - n], ip |-> ip, mac |-> mac]
      BY <1>2, <3>1
    <3>3. QED BY <3>1, <3>2
  <2>3. QED BY <2>1, <2>2
<1>10. Written' = Written \cup Queues[ip]
  <2>1. Written' \subseteq Written \cup Queues[ip]
    <3>1. \A i \in 1 .. Len(written') : written'[i].pkt \in Written \cup Queues[ip]
      <4> TAKE i \in 1 .. Len(written')
      <4>1. CASE i \in 1 .. n
        BY <1>2, <1>8, <4>1
      <4>2. CASE i \notin 1 .. n
        BY <1>8, <1>9, <4>2
      <4>3. QED BY <4>1, <4>2
    <3>2. QED BY <3>1 DEF Written
  <2>2. Written \subseteq Written'
    <3>1. 1 .. n \subseteq 1 .. Len(written')
      BY <1>2, <1>3
    <3>2. QED BY <1>2, <3>1 DEF Written, n
  <2>3. ASSUME NEW k \in Queues[ip] PROVE k \in Written'
    <3>1. PICK i \in 1 .. Len(q) : k = q[i]
      BY <1>6 DEF Elements, q
    <3>2. n + i \in 1 .. Len(written')
      BY <1>2, <1>3
    <3>3. written'[n + i] = [pkt |-> q[i], ip |-> ip, mac |-> mac]
      BY <1>2
    <3>4. written'[n + i].pkt = k
      BY <3>1, <3>3
    <3>5. QED BY <3>2, <3>4 DEF Written
  <2>4. QED BY <2>1, <2>2, <2>3
<1>11. Placed(Written', Queues', dropped', handed')
  <2>1. \A jp \in Ip \ {ip} : Queues[jp] \cap Queues[ip] = {}
    BY <1>1 DEF Placed
  <2>2. QED BY <1>1, <1>4, <1>7, <1>10, <2>1 DEF Placed
<1>12. \A i, j \in 1 .. Len(written') : written'[i].pkt = written'[j].pkt => i = j
  <2> SUFFICES ASSUME NEW i \in 1 .. Len(written'), NEW j \in 1 .. Len(written'),
                      written'[i].pkt = written'[j].pkt
               PROVE  i = j
    OBVIOUS
  <2>1. Written \cap Queues[ip] = {}
    BY <1>1 DEF Placed
  <2>2. CASE i \in 1 .. n /\ j \in 1 .. n
    BY <1>1, <1>2, <2>2 DEF n
  <2>3. CASE i \in 1 .. n /\ ~(j \in 1 .. n)
    BY <1>2, <1>8, <1>9, <2>1, <2>3
  <2>4. CASE ~(i \in 1 .. n) /\ j \in 1 .. n
    BY <1>2, <1>8, <1>9, <2>1, <2>4
  <2>5. CASE ~(i \in 1 .. n) /\ ~(j \in 1 .. n)
    <3>1. q[i - n] = q[j - n] /\ i - n \in 1 .. Len(q) /\ j - n \in 1 .. Len(q)
      BY <1>9, <2>5
    <3>2. i - n = j - n
      BY <1>1, <3>1 DEF Distinct, q
    <3>3. QED BY <1>3, <3>2
  <2>6. QED BY <2>2, <2>3, <2>4, <2>5
<1>13. \A i \in 1 .. Len(written') : handed'[written'[i].pkt] = written'[i].ip
  <2> TAKE i \in 1 .. Len(written')
  <2>1. CASE i \in 1 .. n
    BY <1>1, <1>2, <1>4, <2>1 DEF n
  <2>2. CASE ~(i \in 1 .. n)
    BY <1>1, <1>4, <1>8, <1>9, <2>2 DEF Placed
  <2>3. QED BY <2>1, <2>2
<1>14. \A jp \in Ip : Distinct(pending'[jp].packets)
  BY <1>1, <1>5 DEF Distinct
<1>15. QED BY <1>11, <1>12, <1>13, <1>14 DEF Account

\* Every step keeps the account.
LEMMA AccountStep == TypeOK /\ Account /\ [Next]_vars => Account'
<1> SUFFICES ASSUME TypeOK, Account, [Next]_vars PROVE Account'
  OBVIOUS
<1>1. entries \in [Ip -> EntryType]
  BY DEF TypeOK, EntryType
<1>2. ASSUME NEW ip \in Ip, SendFrame(ip) PROVE Account'
  BY <1>1, <1>2, SendAccounted DEF SendFrame
<1>3. CASE Poll
  BY <1>3, PollAccounted
<1>4. ASSUME NEW ip \in Ip, NEW mac \in HwAddr, ArpReply(ip, mac) PROVE Account'
  BY <1>4, ReplyAccounted
<1>5. CASE UNCHANGED <<pending, written, dropped, handed>>
  BY <1>5 DEF Account, Written, Queues, Queued
<1>6. ASSUME NEW ip \in Ip, NEW mac \in HwAddr, NEW b \in BOOLEAN, Ipv4(ip, mac, b)
      PROVE  Account'
  <2> DEFINE e == learn(entries, ip, mac)
  <2>1. e \in [Ip -> EntryType]
    BY <1>1, EntriesType
  <2>2. CASE SendVia(e, ip) /\ UNCHANGED dropped
    <3> HIDE DEF e
    <3> QED BY <2>1, <2>2, SendAccounted
  <2>3. QED BY <1>5, <1>6, <2>2 DEF Ipv4
<1>7. ASSUME NEW ip \in Ip, NEW mac \in HwAddr, ArpRequest(ip, mac) PROVE Account'
  BY <1>5, <1>7 DEF ArpRequest
<1>8. CASE Elapse
  BY <1>5, <1>8 DEF Elapse
<1>9. CASE UNCHANGED vars
  BY <1>5, <1>9 DEF vars
<1>10. QED BY <1>2, <1>3, <1>4, <1>6, <1>7, <1>8, <1>9 DEF Next

\* Nothing is on its way at the start.
LEMMA AccountInit == Init => Account
<1> SUFFICES ASSUME Init PROVE Account
  OBVIOUS
<1>1. /\ Len(written) = 0 /\ Len(handed) = 0 /\ dropped = {}
      /\ \A ip \in Ip : Len(pending[ip].packets) = 0
  BY DEF Init, NoQueue
<1>2. Written = {} /\ \A ip \in Ip : Queues[ip] = {}
  BY <1>1 DEF Written, Queues, Queued
<1>3. Placed(Written, Queues, dropped, handed)
  BY <1>1, <1>2 DEF Placed
<1>4. QED BY <1>1, <1>3 DEF Account, Distinct

\* No packet is lost, sent twice or sent to another address, in whatever
\* order sends, polls, requests and replies come: each is written once, waits
\* in the queue of its destination, or was dropped with it (stack.rs:
\* send_frame, arp_tick, handle_arp).
THEOREM PacketsAccountedFor == Spec => []EveryPacketAccountedFor
  BY AccountInit, AccountStep, AccountedDef, TypeCorrect, PTL DEF Spec

\* A step that throws packets away takes each from a queue all of whose
\* requests were sent and left without a reply.
LEMMA GiveUpStep ==
    ASSUME TypeOK, QueuesOK, [Next]_vars
    PROVE  /\ dropped \subseteq dropped'
           /\ \A k \in dropped' \ dropped : \E ip \in Ip :
                 /\ k \in Queued(ip) /\ GivenUp(ip)
                 /\ Queued(ip) \subseteq dropped' /\ asked'[ip] = 0
<1>1. CASE dropped' = dropped
  BY <1>1
<1>2. CASE dropped' # dropped
  <2>1. Poll
    BY <1>2 DEF Next, vars, SendFrame, ArpRequest, ArpReply, Ipv4, Elapse
  <2>2. dropped' = dropped \cup UNION {Queued(ip) : ip \in {a \in Ip : TimedOut(Aged(pending[a]))}}
    BY <2>1 DEF Poll, Aged
  <2>3. asked' = [ip \in Ip |-> IF TimedOut(Aged(pending[ip])) THEN 0
                                ELSE IF Retry(Aged(pending[ip])) THEN asked[ip] + 1
                                ELSE asked[ip]]
    BY <2>1 DEF Poll, Aged
  <2>4. ASSUME NEW k \in dropped' \ dropped
        PROVE  \E ip \in Ip : /\ k \in Queued(ip) /\ GivenUp(ip)
                              /\ Queued(ip) \subseteq dropped' /\ asked'[ip] = 0
    <3>1. PICK ip \in Ip : TimedOut(Aged(pending[ip])) /\ k \in Queued(ip)
      BY <2>2, <2>4
    <3>2. Queued(ip) \subseteq dropped' /\ asked'[ip] = 0
      BY <2>2, <2>3, <3>1
    <3>3. /\ Aged(pending[ip]).retries = pending[ip].retries
          /\ Aged(pending[ip]).age = AtMost(pending[ip].age + lag, PENDING_RETRY_INTERVAL)
      <4>1. pending[ip] \in [packets : Seq(Packet), age : 0 .. PENDING_RETRY_INTERVAL,
                             retries : 0 .. MAX_RETRIES]
        BY DEF TypeOK
      <4> QED
        BY <4>1 DEF Aged
    <3>4. /\ pending[ip].retries \in 0 .. MAX_RETRIES /\ pending[ip].retries = asked[ip]
          /\ pending[ip].age \in 0 .. PENDING_RETRY_INTERVAL /\ lag \in 0 .. PENDING_RETRY_INTERVAL
      BY DEF TypeOK, QueuesOK, QueueOK
    <3>5. asked[ip] = MAX_RETRIES
      BY <3>1, <3>3, <3>4, ArpAssumption DEF TimedOut
    <3>6. pending[ip].age + lag >= PENDING_RETRY_INTERVAL
      BY <3>1, <3>3, <3>4, ArpAssumption DEF TimedOut, AtMost
    <3> QED
      BY <3>1, <3>2, <3>5, <3>6 DEF GivenUp
  <2> QED
    BY <2>2, <2>4
<1> QED
  BY <1>1, <1>2

\* A packet is thrown away only when its address was asked for MAX_RETRIES
\* times and no reply came within the last interval, and then the whole queue
\* with it and no other (arp.rs: tick).
THEOREM GivesUpOnlyAfterLastRequest == Spec => GivesUpLast
<1>1. (TypeOK /\ QueuesOK) /\ [Next]_vars => (TypeOK /\ QueuesOK)'
  BY TypeStep
<1>2. (TypeOK /\ QueuesOK) /\ [Next]_vars
         => [/\ dropped \subseteq dropped'
             /\ \A k \in dropped' \ dropped : \E ip \in Ip :
                   /\ k \in Queued(ip) /\ GivenUp(ip)
                   /\ Queued(ip) \subseteq dropped' /\ asked'[ip] = 0]_vars
  BY GiveUpStep
<1>3. QED BY <1>1, <1>2, TypeInit, PTL DEF Spec, GivesUpLast
=============================================================================
