------------------------------ MODULE ArpCache ------------------------------
(***************************************************************************)
(* Address resolution of TCP-stack: arp.rs's cache and queues of packets   *)
(* waiting for a MAC address, and the part of stack.rs that uses them      *)
(* (send_frame, arp_tick, handle_arp, the learning of handle_ipv4).        *)
(*                                                                         *)
(* The code has two clocks: Instant::now() in lookup, insert and learn,    *)
(* and TcpStack.now, taken once per poll, for the queues.  lag is how far  *)
(* the second is behind the first.  Instants are kept relative: the ttl of *)
(* an entry is the time left to it, the age of a queue the time from its   *)
(* last request to TcpStack.now.                                           *)
(***************************************************************************)
EXTENDS Integers, Sequences

CONSTANTS
    Ip, Mac,                 \* neighbours and hardware addresses
    NullMac,                 \* 00:00:00:00:00:00
    CACHE_TTL, PENDING_RETRY_INTERVAL, MAX_RETRIES,
    MaxPackets               \* bound: packets handed to send_frame

ASSUME ArpAssumption ==
    /\ NullMac \notin Mac
    /\ CACHE_TTL \in Nat \ {0}
    /\ PENDING_RETRY_INTERVAL \in Nat \ {0}
    /\ MAX_RETRIES \in Nat \ {0}
    /\ MaxPackets \in Nat

VARIABLES
    entries,   \* ip -> mac and ttl; ttl -1: expired, or never learned
    pending,   \* ip -> packets, age, retries; retries 0: not in the map
    lag,       \* Instant::now() - TcpStack.now
    written,   \* IPv4 frames written to the device: packet, ip, mac
    dropped,   \* packets thrown away when a resolution timed out
    asked,     \* ip -> ARP requests broadcast for the queue it has now
    handed     \* packets handed to send_frame so far, with their destination

vars == <<entries, pending, lag, written, dropped, asked, handed>>

HwAddr == Mac \cup {NullMac}

Unknown == [mac |-> NullMac, ttl |-> -1]
NoQueue == [packets |-> <<>>, age |-> 0, retries |-> 0]

Init ==
    /\ entries = [ip \in Ip |-> Unknown]
    /\ pending = [ip \in Ip |-> NoQueue]
    /\ lag = 0
    /\ written = <<>>
    /\ dropped = {}
    /\ asked = [ip \in Ip |-> 0]
    /\ handed = <<>>

AtMost(x, y) == IF x <= y THEN x ELSE y

\* The packets waiting for an address
Queued(ip) == {pending[ip].packets[i] : i \in 1 .. Len(pending[ip].packets)}

-----------------------------------------------------------------------------
(* ArpCache *)

\* An entry is good up to and including its expiry
Resolves(e, ip) == e[ip].ttl >= 0

Entry(mac) == [mac |-> mac, ttl |-> CACHE_TTL]

insert(e, ip, mac) == [e EXCEPT ![ip] = Entry(mac)]

\* Learning ignores a null MAC and leaves the queue alone (0.0.0.0, which it
\* ignores too, is not in Ip: nothing is ever sent to it)
learn(e, ip, mac) ==
    IF mac = NullMac THEN e ELSE insert(e, ip, mac)

queue_packet(p, ip, pkt) == [p EXCEPT ![ip].packets = Append(@, pkt)]

\* record_request; a queue without a request is never left in the map, so
\* retries = 0 stands for its absence
record_request(q) == [q EXCEPT !.age = 0, !.retries = @ + 1]

\* Mutants: one request too many; given up after the first
TimedOut_off_by_one(q) == q.retries > MAX_RETRIES /\ q.age >= PENDING_RETRY_INTERVAL
TimedOut_at_once(q) == q.retries > 0 /\ q.age >= PENDING_RETRY_INTERVAL

\* Mutant: a request is never repeated
Retry_never(q) == FALSE

\* tick: queues to give up, and queues to ask for again
TimedOut(q) == q.retries >= MAX_RETRIES /\ q.age >= PENDING_RETRY_INTERVAL
Retry(q) == q.retries > 0 /\ q.age >= PENDING_RETRY_INTERVAL /\ ~TimedOut(q)

-----------------------------------------------------------------------------
(* TcpStack *)

\* send_frame of a new packet, with the cache as it is after e was learned
SendVia(e, ip) ==
    LET pkt == Len(handed) + 1
    IN  /\ pkt <= MaxPackets
        /\ handed' = Append(handed, ip)
        /\ IF Resolves(e, ip)
           THEN /\ written' = Append(written, [pkt |-> pkt, ip |-> ip, mac |-> e[ip].mac])
                /\ UNCHANGED <<pending, asked>>
           ELSE LET p     == queue_packet(pending, ip, pkt)
                    isNew == pending[ip].retries = 0
                IN  /\ pending' = IF isNew THEN [p EXCEPT ![ip] = record_request(@)] ELSE p
                    /\ asked' = IF isNew THEN [asked EXCEPT ![ip] = 1] ELSE asked
                    /\ UNCHANGED written

\* An application call or a retransmission sends a packet
SendFrame(ip) == SendVia(entries, ip) /\ UNCHANGED <<entries, lag, dropped>>

\* poll takes the time, then arp_tick runs
Poll ==
    LET aged == [ip \in Ip |->
                    [pending[ip] EXCEPT !.age = AtMost(@ + lag, PENDING_RETRY_INTERVAL)]]
    IN  /\ lag' = 0
        /\ pending' = [ip \in Ip |->
                         IF TimedOut(aged[ip]) THEN NoQueue
                         ELSE IF Retry(aged[ip]) THEN record_request(aged[ip])
                         ELSE aged[ip]]
        /\ asked' = [ip \in Ip |-> IF TimedOut(aged[ip]) THEN 0
                                     ELSE IF Retry(aged[ip]) THEN asked[ip] + 1
                                     ELSE asked[ip]]
        /\ dropped' = dropped \cup UNION {Queued(ip) : ip \in {a \in Ip : TimedOut(aged[a])}}
        /\ UNCHANGED <<entries, written, handed>>

\* handle_arp of a request for our address or another one: only learning (the
\* reply to a request for ours does not touch the cache)
ArpRequest(ip, mac) ==
    /\ entries' = learn(entries, ip, mac)
    /\ UNCHANGED <<pending, lag, written, dropped, asked, handed>>

\* Mutants: the flushed queue stays; only its packets are taken out
ArpReply_keeps_queue(ip, mac) ==
    /\ entries' = insert(entries, ip, mac)
    /\ written' = written \o [i \in 1 .. Len(pending[ip].packets) |->
                      [pkt |-> pending[ip].packets[i], ip |-> ip, mac |-> mac]]
    /\ UNCHANGED <<pending, asked, lag, dropped, handed>>
ArpReply_keeps_entry(ip, mac) ==
    /\ entries' = insert(entries, ip, mac)
    /\ written' = written \o [i \in 1 .. Len(pending[ip].packets) |->
                      [pkt |-> pending[ip].packets[i], ip |-> ip, mac |-> mac]]
    /\ pending' = [pending EXCEPT ![ip].packets = <<>>]
    /\ UNCHANGED <<asked, lag, dropped, handed>>

\* handle_arp of a reply: learn, insert, and flush the queue in its order
ArpReply(ip, mac) ==
    LET flushed == [i \in 1 .. Len(pending[ip].packets) |->
                      [pkt |-> pending[ip].packets[i], ip |-> ip, mac |-> mac]]
    IN  /\ entries' = insert(learn(entries, ip, mac), ip, mac)
        /\ written' = written \o flushed
        /\ pending' = [pending EXCEPT ![ip] = NoQueue]
        /\ asked' = [asked EXCEPT ![ip] = 0]
        /\ UNCHANGED <<lag, dropped, handed>>

\* handle_ipv4: learn the sender, and answer it when it is an echo request or
\* a segment that calls for one
Ipv4(ip, mac, answers) ==
    LET e == learn(entries, ip, mac)
    IN  /\ entries' = e
        /\ IF answers
           THEN SendVia(e, ip)
           ELSE UNCHANGED <<handed, written, pending, asked>>
        /\ UNCHANGED <<lag, dropped>>

\* One unit of time passes
Elapse ==
    /\ lag' = AtMost(lag + 1, PENDING_RETRY_INTERVAL)
    /\ entries' = [ip \in Ip |->
                     [entries[ip] EXCEPT !.ttl = IF @ >= 0 THEN @ - 1 ELSE @]]
    /\ UNCHANGED <<pending, written, dropped, asked, handed>>

Next ==
    \/ \E ip \in Ip : SendFrame(ip)
    \/ Poll
    \/ \E ip \in Ip, mac \in HwAddr : \/ ArpRequest(ip, mac)
                                        \/ ArpReply(ip, mac)
                                        \/ \E b \in BOOLEAN : Ipv4(ip, mac, b)
    \/ Elapse

Spec == Init /\ [][Next]_vars

\* The application keeps polling and time passes; no reply is promised.
LiveSpec == Spec /\ WF_vars(Poll) /\ WF_vars(Elapse)

-----------------------------------------------------------------------------
(* Properties *)

Packet == 1 .. MaxPackets
TypeOK ==
    /\ entries \in [Ip -> [mac : HwAddr, ttl : -1 .. CACHE_TTL]]
    /\ pending \in [Ip -> [packets : Seq(Packet), age : 0 .. PENDING_RETRY_INTERVAL,
                             retries : 0 .. MAX_RETRIES]]
    /\ lag \in 0 .. PENDING_RETRY_INTERVAL
    /\ written \in Seq([pkt : Packet, ip : Ip, mac : HwAddr])
    /\ dropped \subseteq Packet
    /\ asked \in [Ip -> 0 .. MAX_RETRIES]
    /\ handed \in Seq(Ip)

Written == {written[i].pkt : i \in 1 .. Len(written)}
Waiting == UNION {Queued(ip) : ip \in Ip}

\* No packet is lost, sent twice or sent to another address: each one handed
\* to send_frame was written once, waits once in the queue of its destination,
\* or was dropped with it, and only one of these.
EveryPacketAccountedFor ==
    /\ 1 .. Len(handed) = Written \cup Waiting \cup dropped
    /\ Written \cap Waiting = {} /\ Written \cap dropped = {} /\ Waiting \cap dropped = {}
    /\ \A i, j \in 1 .. Len(written) : written[i].pkt = written[j].pkt => i = j
    /\ \A i \in 1 .. Len(written) : handed[written[i].pkt] = written[i].ip
    /\ \A ip \in Ip : \A i, j \in 1 .. Len(pending[ip].packets) :
          pending[ip].packets[i] = pending[ip].packets[j] => i = j
    /\ \A ip \in Ip : \A k \in Queued(ip) : handed[k] = ip

\* A queue is in the map exactly while packets wait in it, and it knows how
\* many requests were broadcast for it: record_request never has to create an
\* entry of its own, and no resolution asks more than MAX_RETRIES times.
QueueMatchesRequests ==
    \A ip \in Ip :
        /\ pending[ip].retries = 0 <=> pending[ip].packets = <<>>
        /\ pending[ip].retries = asked[ip]

\* A packet is thrown away only from the queue of its address, when that was
\* asked for MAX_RETRIES times and the last request has been out for a whole
\* interval; the rest of the queue goes with it, and the next packet starts
\* a resolution of its own.  What was thrown away stays so.
GivenUp(ip) == asked[ip] = MAX_RETRIES /\ pending[ip].age + lag >= PENDING_RETRY_INTERVAL

GivesUpLast ==
    [][/\ dropped \subseteq dropped'
       /\ \A k \in dropped' \ dropped : \E ip \in Ip :
             /\ k \in Queued(ip) /\ GivenUp(ip)
             /\ Queued(ip) \subseteq dropped' /\ asked'[ip] = 0]_vars

\* A waiting packet is eventually written or dropped, reply or no reply.
NobodyWaitsForever ==
    \A k \in Packet : k \in Waiting ~> k \notin Waiting
=============================================================================
