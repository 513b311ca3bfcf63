# PPCA-network: TLA+ models and proofs

The repository is a set of network programs written in Rust: a TCP/IP stack in
user space (`TCP-stack`), a recursive DNS resolver, `ping` and `traceroute`
(`toolkit`), a SOCKS5 and transparent proxy (`my-proxy`) and an HTTP server
(`minicaddy`).  This directory models their core logic in TLA+, checks it with
TLC and proves part of it with TLAPS.

## 1. Inventory

| Part | State | Operations | What is hard |
|---|---|---|---|
| TCP connection (`tcp.rs`, `socket.rs`) | one TCB per connection: sequence variables, buffers, timer, count | `connect`, `send`, `recv`, `close`, segment handling by state, retransmission pass | loss, duplication, reordering, wrap-around, both sides closing, timers that race late answers |
| Stack loop (`stack.rs`) | manager, ARP cache, time of the last poll | `poll`: ARP tick, retransmission, every frame ready | several frames between two looks of the application |
| Client program (`main.rs`) | where `run_client` is | wait, send, read, close | states that come and go within one poll |
| ARP (`arp.rs`) | address cache with expiry, queues of packets with retries | lookup, learn, insert, queue, tick | two clocks, expiry, late replies |
| DNS resolver (`resolve.rs`, dnsresolver `main.rs`) | per thread: a stack of searches | resolve, iterate, refer, follow aliases | loops of three kinds, silent servers, threads over one cache |
| DNS cache (`cache.rs`) | positive and negative entries with expiry | get, put, put_nxdomain, is_nxdomain | one lock per call, expiry between calls |
| Rate limiter (`rate_limiter.rs`) | tokens, time of the last refill | `try_consume` | bursts, boundaries |
| HTTP server (`http.rs`, `http_proto.rs`, `http_files.rs`, `http_proxy.rs`) | per connection: buffer, body being read, place in the keep-alive loop; per listener: sites, rate limiter | parse a head, read a body, limit, route, serve a file or pass on | bodies and heads cut or joined anywhere by TCP, ranges at the end of a file, reads without a timeout |
| SOCKS5 and transparent proxy (`socks5.rs`, `socks5_proto.rs`, `tproxy.rs`) | per session: request, candidates, streams | handshake, request, resolve, connect, relay | candidates failing one by one, a client gone at any step, the select between TCP and UDP |
| UDP relay (`udp.rs`) | client address, targets seen | datagram of the client, datagram of another host, cleanup | one socket for everybody, failures that end everything |
| ping | map of probes in flight, statistics, the running flag | send, match reply, time out, SIGINT | two threads, late and duplicated replies, wrap of the sequence number, every way out |
| traceroute | probes in flight, addresses of the hops, where the target answered | send all, match answers, print | late, repeated and foreign answers, sizes in `u8` |
| DNS wire format (`message.rs`) | none | encode and decode names, records, messages | compression pointers, cut messages |
| Ethernet, IPv4, ICMP codecs, TAP device, configuration | none | parse, build | byte layout |

Interaction: the client program calls the stack; the stack's `poll` runs the ARP
tick, the retransmission pass and then handles frames, all in one thread; every
segment sent goes through `send_frame`, which starts the retransmission timer and
may queue the packet in the ARP cache.  The resolver's threads share only the
cache, and every message they write or read goes through the wire format.  All
connections of an HTTP listener share one rate limiter behind a mutex.  A SOCKS5
session owns its UDP relay and drops it, wherever it is, when its TCP connection ends.

What makes each part correct: the bytes read are a prefix of the peer's stream,
the bytes acknowledged are held, the peer assembles what was sent, connections end
(TCP); no packet is lost, duplicated or misdirected and none waits for ever (ARP);
answers and denials are true and every query is answered (DNS); no window of time
admits more than the limit (rate limiter); every probe is received or reported as
timed out, once and not too early, and the program ends (ping); requests are handled in
order, each with its body, and the connection ends (HTTP); replies say what happened,
datagrams go where they name and nowhere else, and a session ends with its client
(proxy); the report is what arrived and the program ends (traceroute); a name or message
is read as it was meant or refused (wire format).

## 2. Modules

| Module | Models | Notes |
|---|---|---|
| `Tcp` | TCB and the functions of `tcp.rs` and `socket.rs` on it | operators from a TCB and a segment to a TCB and segments, one per function or match arm |
| `TcpConn` | one connection, application, network, peer | state machine over `Tcp`'s operators |
| `ByteStream` | what a receiving endpoint promises | abstract specification implemented by `TcpConn` |
| `TcpClient` | `run_client` | `TcpConn` driven by the program's own control flow |
| `ArpCache` | `arp.rs` and its use in `stack.rs` | |
| `TokenBucket` | `rate_limiter.rs` | also the abstract specification of what `HttpServer` does with its limiter |
| `HttpServer` | one connection of `minicaddy` beside the others | composes `TokenBucket` |
| `UdpRelay` | `relay/udp.rs` | actions without a `Next` of its own |
| `Socks5` | a session of `my-proxy` | composes `UdpRelay` |
| `DnsResolver` | `resolve.rs`, `cache.rs`, the resolver's `main.rs` | threads with explicit call stacks |
| `DnsWire` | `message.rs` | operators on sequences of bytes, applied to datagrams |
| `Traceroute` | traceroute's `main.rs` and `icmp.rs` | both modes |
| `Ping` | ping's `main.rs` and the counters of `stats.rs` | both threads step by step |
| `MC...` | instances for TLC | `MCDns` holds the small world of servers |
| `TcpConnProofs` | lemmas about the operators of `Tcp`, types of `TcpConn`, shape of the peer's segments, the receiving side and its refinement of `ByteStream`, the sending side | used by the next |
| `TcpClientProofs` | `run_client` on top of both sides | |
| `ArpProofs` | types, queues and account of packets of `ArpCache` | |
| `PingProofs` | types, account of probes and timeouts of `Ping` | |
| `DnsProofs` | types, truth of answers and denials of `DnsResolver` | |
| `HttpProofs` | theorems about `TokenBucket`; `HttpServer` implements it, and what follows; framing of requests and ranges in `HttpServer` | |
| `TracerouteProofs` | the report of `Traceroute` | |
| `ProxyProofs` | the account of `UdpRelay` and the replies of `Socks5` | |

Definitions named `X_something` above a definition `X` are variants of it with one
plausible slip; `PROJECT.json` pairs each with the property that notices the slip.

### TCP

`tcb` is the entry of `TcpManager.connections` for the connection's key, `"Absent"`
when there is none; `Closed` entries stay until the next retransmission pass, as in
the code.  The stack is single-threaded, so each call of the application, each
retransmission pass and each frame is one action; `TcpConn` lets them come in any
order, `TcpClient` in the order `run_client` and `poll` produce, where all frames
ready are handled before the client looks again.  An action contains the whole
handler: `Sent` is the trailing `record_sent` of `send_frame`, which starts the timer
for every segment, pure ACKs too.

Data abstraction: a byte is its position in its stream; sequence numbers live in
`0 .. M-1` and wrap; of an `Instant` only whether a deadline is set is kept, and a
poll may find a set deadline passed or not.  ARP delays, windows (the code ignores
them), checksums and ports are left out.

Network and peer are external.  Towards the peer the network is the set of all
segments ever written, which may be received any number of times or never.  Towards
the stack it is the set of all segments a correct peer may have sent by now, with its
data cut at any boundary.  SYN, data and FIN of the peer always have the right
sequence numbers; acknowledgements cover at most what the peer has.

Fairness: `run_client` polls for ever, and time passes, so a deadline that stays set
is eventually found passed.  No segment is promised to arrive.

### ARP

`lag` is the distance between the two clocks of the code (`Instant::now()` in the
cache, `TcpStack.now` for the queues).  Entries keep the time left to them.  Actions:
a packet to send, a poll with its tick, requests, replies and IPv4 frames from
neighbours, time.  Fairness: polls and time go on; no reply is promised.

### DNS

One frame of the stack per activation of `resolve_iterative`; `found` and `todo` are the
locals of `extract_referral`.  Every call of the cache is a step of its own, and the
records of a message are stored one by one, because each takes the lock separately.
The servers are a constant relation `Answer`; a server may also stay silent
(`Lossy`).  `Truth` and `Existing` say what the world really has, and `WorldAssumption`
that servers do not lie about it: the resolver cannot know better.  `get_nameservers`
always yields the root's servers: the zone names it builds end in two dots and match
no cached key; `get_ns_ips` reads their names first and then, in a step of its own
(`"gather"`), their addresses.  Expired entries are dropped when they expire; no reader of the code
can tell.  The order in which servers of a list are tried is left open.  Fairness:
every thread goes on (each wait has a timeout).

### Rate limiter

Time is counted in units in which one unit of a token accrues, `COST` units make a
token; the observer's window (`since`, `spent`) may start anywhere.

### ping

The sender and the receiver thread are separate processes; each lock is held within one
step, and `send_to`, the insertion into the map and the count are three steps, because
the receiver may run between them.  `OnWire` bounds what the network can answer; a reply
may come repeatedly, late or never, and may overtake the insertion (it is then ignored and
the probe reported as timed out: the code promises no more).  `got` and `lost` record what
was counted and what was reported.  Fairness: both threads run, and the receiver's reads
end after 100 ms.

### DNS wire format

Offsets, lengths and pointers are those of the code; a string is the sequence of its
bytes.  `packet` is the datagram a socket hands over: noise, a message written by this
program (`Written`), one of a server that replaces names by pointers (`Answered`), or
a part of one.  The server may also count more bytes as data than the type of a record
needs, which are skipped, or one too few for data of a fixed size, which is refused.
Labels must be UTF-8 (`IsUtf8`).  `NameAt` is the reference for `decode_name`: it follows the bytes for as
many steps as there are bytes instead of keeping a set of visited pointers.

### HTTP server

A request head up to its last line end, a chunk-size line and a trailer are one symbol
each; CR, LF and every payload byte are symbols of their own, so that a read can end
between any two of them.  A symbol is named by its line, its request and its place in the
body, so `Succ` gives the symbol HTTP writes after it, and `Sent` is the constant sequence a
client sends: one that starts with the first head and follows `Succ`, perhaps not to the end
(`SentAssumption`).  The server looks only at what kind of symbol it has, and at a number in
a size line or a head.  `pc` is the place in `serve_connection`, `read_body`,
`read_chunked_body` and `handle_request`.  `Read(k)` is any read of the code; which loop
it belongs to follows from `pc` (`Starved`).  A response is begun in one step and written
whole in another (`WriteEnds`), or its writing fails and ends the connection; until then
`pc` is `"write"`, or `"refuse"` for a 400.  The file found (missing, directory, any length) and what the upstream
server does are open.  Other connections appear as their calls of the limiter
(`Elsewhere`).  HEAD, gzip, content types and the header lists are left out.
`parse_range` takes every header: one without `bytes=`, without a number where one is
needed or with several ranges is none (`Unparsable`); a suffix longer than the file wraps
around in `u64`, or panics in a debug build, and `seek` refuses what is no file offset.
Fairness: the server's own steps between two reads or writes, and the idle timer.  Nothing
is assumed of the client, which may stop sending or reading anywhere, nor that an upstream
server answers or closes; `Waits` lists the places where the code then waits without a
timeout, and `ConnectionEnds` says that a connection ends or waits in one of them.

### Proxy

`read_exact` hides how TCP cuts the handshake, so a client sends whole messages, but it
may be gone (`gone`) at any step.  `Lookup` gives the lists a name may resolve to.
`handle_client_packet` is two steps, before and after it awaits `resolve_ipv4`, because
the select may drop the relay in between.  The relay takes any socket, so peers of both
address families appear.  Fairness: names are looked up and connections tried until
they succeed or fail, and a pending read notices that the client is gone.

### traceroute

What the network will answer to a probe is fixed when it is sent; the answer may arrive
at any time, repeatedly or never.  A raw socket also gets the answers to other programs,
from any host: any sequence number with a foreign id, any port.  In UDP mode the code tells answers by
their port alone, so a foreign one may be taken for a probe's (`mistaken`).  `u8` and
`u16` expressions panic or wrap (debug and release builds).  `TracerouteAssumption`: the
command line's numbers are `u8`s, zero included, and there are no more probes than
ports (in the code 256 times 255 is less than 2^16).  Fairness: the loop runs, a
read returns within 100 ms, the deadline comes.

## 3. Runs

Passing runs:

* `tcp_connection`: M = 8 with both initial sequence numbers near the end, so that
  data, FIN and acknowledgements cross the wrap-around; two bytes from the peer, three
  from the application in sends of up to two, so that partial acknowledgements,
  re-cut segments and two sends in flight all happen; two retransmissions.  Safety,
  the refinement of `ByteStream`, and the end of handshake and close.
* `tcp_client`: the same with the program's control flow, three bytes each way, two
  initial sequence numbers.  `RequestIntact` holds because the program sends once.
  `ReaderEnds` says what the server's FIN does in each of the two loops: it ends the
  reading loop, and it leaves the client for ever in the one before, when the poll that
  handles the `SYN+ACK` handles the FIN too.
* `arp_resolution`: two neighbours, three packets, entries that live one unit, two
  requests before giving up.
* `dns_resolution`: two queries over a world with aliases in a circle, a referral to
  itself, name servers without glue (missing, found by recursion, known only to
  themselves), a dead server, and denials behind an alias; records live one unit, the
  root hints two, so both expire during a search.
* `dns_wire`: every buffer of up to five bytes over eight values (so loops of one and two
  pointers, pointers into labels and to the end, a character of two bytes and its halves),
  and messages with every kind of record in every section, with data longer or shorter than
  it should be, cut at every byte.
* `ping_probes`: four probes over three sequence numbers, a timeout of two units and an
  interval of one, so that sequence numbers wrap while their probe is waited for; errors
  of either thread and SIGINT anywhere.
* `http`: scripts of up to three requests with bodies of known length, chunks, a trailer,
  an invalid chunk size and an invalid head, cut into reads in every way, pipelined or not;
  ranges with bounds up to one past the largest file, suffixes longer than the file with
  and without a start that `seek` takes (a `u64` has 8 values here), and headers that are no
  range, of files of zero to two bytes;
  listeners with and without a limit, a password and a catch-all site; a burst that is
  not a multiple of a token.  `MaxClock` bounds time; the theorems have no such bound.
* `proxy`: every handshake, requests of each address type, a name with several addresses
  in both families and one with none; three datagrams from three hosts, so that one can
  come before the client's, one between and one after.
* `traceroute`: two hops with two probes each and three with one, the target at the second,
  a first hop that changes, foreign answers of any of four hosts, a start beyond the end,
  ttl 0, no queries, the largest `u8` (a `u8` has 4 values here) and, with 6 ports, the last
  port.

Deadlock is not checked where the system may stop: a TCP connection that is gone, a
client program that has ended, queries that are all answered, a closed HTTP
connection or proxy session, a traceroute that has printed its report, a datagram read.

Runs that find a violation, each against a sentence of the repository (quoted in
`PROJECT.json`):

* `tcp_retransmit_offset`: the offset into the send buffer is counted from the initial
  sequence number although acknowledged bytes were removed.
* `dns_alias`: an alias within one parent zone ends as a "referral cycle".
* `http_chunked`: when a read ends right after the last chunk-size line, the empty line
  that follows is not recognised and the next pipelined request is skipped as trailers.
  `ConversationInSync` of the run `http` holds in all other cases (`cut` marks this one).

Other disagreements met while modelling, stated as definitions where one is named and
left out of the runs:

* `TcpConn!IdleIsNotKilled` (`tcp.rs:329`): the ACK of the handshake arms a timer nothing
  stops, and an idle connection is removed.
* `TcpConn!FinFollowsBufferedData` (`tcp.rs:428`): payload that comes with a FIN is lost in
  an active close.
* `TcpClient!ServerCloseAnswered` (`main.rs:80`, "Server closed (CloseWait) — send our FIN"):
  when the poll that handles the `SYN+ACK` also handles the FIN, the loop that waits for
  `Established` never sees it and the close is not answered.  `ReaderEnds` states this case.
* `HttpServer!SuffixServed` (`http_proto.rs:90`; `REPORT.md:72` promises `bytes=-N`): for a
  suffix longer than the file the subtraction underflows.  A debug build panics; in a
  release build `seek` refuses most of the wrapped starts, and for the others a 206 is sent
  whose `Content-Range` begins beyond the end and which carries nothing.  The
  script `<<Ranged(-1, U64 - 1)>>` of `MCHttp` reaches it; `RangeServed` states this case.
* `DnsResolver!NxdomainIsReal` (`network-toolkit.zh.md:179`): NODATA is answered as NXDOMAIN.
* In `LastAck` the code takes any ACK for the one of its FIN (`tcp.rs:381`).
* `UDP_IDLE_TIMEOUT` (my-proxy `DEMO.md:41`) only clears a map nobody reads; an idle
  association lives as long as its TCP connection.
* A datagram for a name of one or two letters without payload is in SOCKS5 form but shorter
  than ten bytes, and the UDP relay drops it (`udp.rs:48`); nothing is owed for it
  (`UdpRelay!Whole`).
* The timeout of traceroute is for the whole run, not "per hop" (`config.rs:14`).
* Error responses announce `Connection: close` and the loop goes on when the request asked
  for keep-alive (`http.rs:98`).

## 4. Proofs

Each theorem holds for every value of the constants that meets the named assumptions
of its module (`TcpAssumption`, `ConnAssumption`, `ClientAssumption`, `ArpAssumption`,
`PingAssumption`, `DnsAssumption`, `WorldAssumption`, `BucketAssumption`, `ScriptAssumption`,
`SentAssumption`, `FileAssumption`, `HostAssumption`, `RequestAssumption`,
`TracerouteAssumption`); TLC evaluates them in every run.  The number of bytes, packets, probes, threads and clients is not
bounded by them.

**Receiving side of TCP** (`TcpConnProofs`).  `ReceivesPrefix`: what `recv` returned
followed by the receive buffer is a prefix of the peer's stream.
`AcknowledgesWhatItHolds`: `rcv_nxt` is one past the bytes held.
`ImplementsByteStream`: the connection implements `ByteStream`.  From `ConnAssumption`
the argument needs that the peer's stream with SYN and FIN is shorter than the sequence
space (`PeerBytes + 3 < M`): a stream longer than the sequence space, which TCP tells
apart by windows and time, is outside the theorem.

* The induction is on `StreamInv`.  Neither property is inductive alone: a segment at
  `rcv_nxt` continues the stream only if `rcv_nxt` matches what is held, and `rcv_nxt`
  still matches afterwards only if the stream was a prefix.  Two facts are added:
  nothing is held in `SynSent`, because the handshake sets `rcv_nxt` to the first byte,
  and nothing was delivered before `connect`.
* `PeerSegsShape` reduces what the network can deliver to two shapes: a segment without
  payload or FIN, and a stretch of the stream whose FIN follows the last byte.
* `GoodTake` is the heart: a stretch that starts at `rcv_nxt` starts right after the
  bytes held (`PeerSeqInjective`), so appending it gives the longer prefix
  (`BytesConcat`), and `rcv_nxt` moves to its end (`PeerSeqAdd`).  In `CloseWait` no
  stretch starts at `rcv_nxt`, so nothing follows the FIN (`GoodBuffered`).
* `GoodMove` covers all that leaves the received bytes alone: acknowledgements, timers,
  `send`, `close`.
* For the refinement, the invariant before and after a segment and the fact that the
  buffer never shrinks (`ProcessGrows`) determine the bytes that were deposited
  (`Continues`); the retransmission pass that removes the TCB is `Cut`.

The theorem speaks of what is accepted, not of completeness: bytes before the peer's FIN
can be missing at the end of an active close (`FinFollowsBufferedData`).

**Sending side of TCP** (`TcpConnProofs`).  `BuffersUnacked`: the send buffer starts with
the first unacknowledged byte.  `AcksAreTrue`: what the stack counts as acknowledged is at
the peer.  `ControlInPlace`: every SYN and FIN ever written has its own place in the
sequence space.

* The induction is on `SendInv`.  For the TCB (`SendGood`): `snd_una` lies between what the
  peer has and the initial sequence number, and the buffer runs from there to
  `snd_nxt` (`Una`, `Unacked`).  For the network (`InPlace`): every segment on `wire`
  carries the sequence number its content requires.  For the peer: it heard no more than
  the application sent, and the sequence number it starts from is ours.
* The three belong together: an acknowledgement is true only because the peer acknowledges
  what it has, it has only what segments in place gave it, and a segment is in place only
  if `snd_una` was true when it was cut.
* `AppBytes + 3 < M`, from `ConnAssumption`, makes distances in the sequence space unique.

The theorem says nothing of the data of a retransmission after a partial acknowledgement:
there the code is wrong (`tcp_retransmit_offset`).

**Client program** (`TcpClientProofs`).  `RequestArrivesIntact`: the peer assembles exactly
the request.  `ClosesAfterReading`: the client closes only when the server has, and after
all its bytes were read.  `LosesNothingUnread`: nothing received is left when the
connection goes.  `ConnectionHolds`: the invariants of both sides hold under the program's
control flow too.

* The induction is on `ClientInv`: the two invariants above; `Whole` (the buffer is the
  whole request or empty, because the program sends once, so the offset of a
  retransmission is 0), `Payloads` (every payload on the wire is the whole
  request), `AfterSyn` (it starts right after the SYN, also when the TCB is gone); `ReadAll`, which holds
  because a read and the close after it are one step; `FreshTimer`.
* `FreshTimer` says that no retransmission was counted between the handshake and the
  request, because the program does not poll in between.  With `ClientAssumption`
  (`MAX_RETRANSMITS` is not zero; 5 in the code) the connection cannot be given up there.

**ARP** (`ArpProofs`).  `QueuesMatchRequests`: a queue is in the map exactly while packets
wait in it, and its `retries` is the number of requests broadcast.  `PacketsAccountedFor`:
every packet handed over was written once to its neighbour, or waits once in the queue of
its destination, or was dropped, and only one of these.
`GivesUpOnlyAfterLastRequest`: each packet a step drops was waiting for an address that had
been asked `MAX_RETRIES` times, the last time a whole interval before, and its whole queue
goes with it; no other packet does.  The induction is on the types and the shape of the queues (`QueuesOK`) and
then on the account, which needs that no packet is in two queues.

**ping** (`PingProofs`).  `ProbesAccountedFor`: every probe counted as sent is in the map,
received or reported lost, exactly once.  `TimeoutsAreReal`: a probe is reported only after
its timeout.  `PingInv` adds where the sender is (`Control`), that the map has one slot per
sequence number (`Slots`) and what the counters count (`Counted`); two probes with the same
sequence number are apart by a whole round of it (`SeqApart`).

**DNS resolver** (`DnsProofs`).  For any number of threads, any queries and any world of
honest servers (`WorldAssumption`), whatever is silent and whenever records expire:
`TellsTheTruth`: the records returned to a client answer its question.
`DeniesWhatIsNot`: a denial in the negative cache is of a question without data.
`HasSomeoneToAsk`: `query_best_server` never gets an empty list.  `TypeCorrect`: types, and
the limits on iterations, aliases and recursion.

* `WorldAssumption`: records sent belong to their name, answers answer the question, a
  message the code takes for a denial (SOA, no name server, no answers or `NXDOMAIN`) is
  one, and an alias leads to the same data as the name it stands for.
* The induction is on `DnsInv`.  The cache has only real records and justified denials;
  every frame of every stack is `Sound`: its chain is part of the truth about the name it
  was called with, the name it is at leads to the same data (`OnTheWay`), its message is
  about the name it is at (`ToThePoint`), and it has a server when it is about to ask
  (`Manned`).  The bottom frame searches for the name of the query.
* `OnTheWay` is why a denial met behind aliases may be stored under the first name, and
  why what another thread has cached for an alias's target completes the chain.
* Three lemmas, `UpdateGood`, `CallGood` and `ReturnGood`, cover the ways a step changes a
  stack; each action then only shows that the one new frame is `Sound`.

**Proxy** (`ProxyProofs`).  For any requests, datagrams and addresses, whatever names resolve
to.  `RelaysFaithfully`: the relay sends what it owes, in order, to and from the first that
spoke SOCKS5.  `RepliesTruthfully`: the replies of a session are true.  Assumed are only that
an unset client is not an address and that names resolve to addresses (`HostAssumption`,
`RequestAssumption`).

* For the relay the induction is on `RelayInv`.  `Settled(sn, rc, owner, n)` says that the
  datagrams sent answer the first n received and no others; n is all of them, or all but the
  last while `handle_client_packet` is resolving or after the relay ended.  A datagram is
  received (`SettledReceive`), then skipped (`SettledSkip`) or answered (`SettledSend`).
* What is owed for earlier datagrams must not change when the client is found.  It does not,
  because nothing is owed before the first whole datagram (`OwedNone`), and a client stays
  the client (`OwnsAppend`).
* For the session, `Candidates` says that what was tried, and the address connected to after
  it, are the beginning of what was resolved, IPv4 first (`ResolvedInOrder`); `Protocol` says
  what was written at each place, so there is no third reply.  A session that has not bound
  the relay has left it empty (`ProxyInv`).

**Types of TCP** (`TcpConnProofs!TypeCorrect`).  One lemma per function
of `tcp.rs`.  Nothing is assumed of an acknowledgement number except that it is a
number: `snd_una` stays a sequence number because each arm compares before it assigns.

**Rate limiter** (`HttpProofs`).  `RateLimited`: no window of time admits more than
the burst plus what accrues in it.  The induction is on `BucketInv` (`Accounted`), which
relates what is left in the bucket to what was spent in the window.  `Admits`: after a
pause long enough for a token a request is admitted.  The `f64` of the code is taken as
exact.

**The limiter in the server** (`HttpProofs`).  `ImplementsTokenBucket`: `HttpServer` with any
scripts and sites implements `TokenBucket`; one step per action (`StepSimulation`), of which
only `Limit` and the calls of other connections touch the bucket.  `ServerRateLimited` and
`ServerAdmits` carry the two properties of the bucket over to the server.

**Framing of requests** (`HttpProofs`).  For every script of well-formed requests
(`ScriptAssumption`, `SentAssumption`), every way TCP cuts it, every configuration and
whatever files and upstream servers do.  `ConversationStaysInSync`: requests are handled in
the client's order, each with its body, each answered before the next is looked at.

* The induction is on `HttpInv`.  The property says what was handled and not where the
  reader is.  `PlaceInv` adds that the first symbol not looked at yet is the one the place
  in the loop expects (`AtRequest`, `AtLength`, `AtSize`, `AtData`, `AtLast`); `StreamInv`
  that this symbol and the ones after it, read or not, follow each other as the client sent
  them; `AnswerInv` that at most one request is without an answer.
* A taken line, chunk or body is the beginning of the buffer, and `LineOnWire`, `DataRun`
  and `EmptyLineOnWire` say, from `Succ` alone, what such a beginning contains and what
  comes after it.  `AfterEmptyLine` is the case of the finding: after the skipped empty line
  the next one the code accepts belongs to a later request, so that requests are lost but
  what is handled keeps its order and its body.
* Facts about runs of symbols need induction on their length.  The library's induction
  theorems take an operator, which the provers cannot instantiate; `Induction` states it of
  a set of numbers and follows from `WFMin`, that a set of numbers has a least one.

`RangesServed`: a 206 has exactly the bytes of the file the `Range` header asks for, and a 416
is sent only when there are none or the header is invalid, for every header and every file
whose length is a file offset (`FileAssumption`: below half of `U64`).  For a suffix longer than the file
(`LongSuffix`) it states what the code does instead: the start wraps around beyond the end,
and no byte is sent.  `RangeParsed`
computes `parse_range` by its cases (invalid, suffix, open end, both bounds); `RangeInv` keeps for the last
response which request and file it is about.

**traceroute** (`TracerouteProofs`).  `ReportsTruthfully`: the report is what arrived, for
every command line and path and whatever arrives in whichever order.

* The induction is on `TraceInv`, which speaks of one probe, one hop and one line at a time.
  `ProbesInv`: markers are consecutive and ttls those of the command line, so that all probes
  together are `Hops * nqueries`; `CountInv`: `unreceived` is what is left of them;
  `ReportInv`: a hop without an address has no received probe, and one with an address
  has a probe that justifies it; `PrintInv`: the lines so far.
* `MarkersDiffer` is why a packet is about one probe: there are at most `U16` probes, so
  markers that come round (a release build with a late base port) do not meet.
* The number of probes is not stored; `DivLess` relates the quotient that gives the next ttl
  to it, and `AllSentStep` concludes that `unreceived`, computed in `u8` arithmetic before
  anything was sent, is the number of probes.  For a start beyond the end the subtraction
  wraps, nothing is sent, and nothing is claimed of `unreceived`.
* After a panic the report is not claimed: a probe is marked before the hop is indexed.

Only model-checked:

* liveness under fairness (`HandshakeEnds`, `CloseCompletes`, that every packet leaves a
  queue, every query is answered, every connection, session and program ends), which TLAPS
  cannot prove;
* the DNS codec (`NamesFound`, `MessagesFaithful`): its decoder and the reference it is
  compared with are RECURSIVE operators, and what they compute is an induction over data;
* that the stable sort of `resolve_all` has a result for every list: `PreferIpv4` is the set
  of lists that are sorted stably, and the theorems hold for whatever is in it.

## 5. Not modelled, and the plan

Not modelled: Ethernet, IPv4 and ICMP codecs and checksums (no state), the TAP device,
argument and Caddyfile parsing, path sanitising, gzip and content types of the file
server, the header lists of the reverse proxy, the bytes of a TCP relay.  Of the TCP
stack, the table of several connections with the answers to unknown segments and the
choice of ports.

Next, in this order:

1. `TcpManager`: the table of connections, answers to unknown segments, ephemeral ports.
2. The IPv4 and ARP codecs with the checksum, in the style of `DnsWire`.
