------------------------------- MODULE Socks5 -------------------------------
(***************************************************************************)
(* A session of my-proxy: the SOCKS5 handshake and request (socks5_proto.rs *)
(* and inbounds/socks5.rs) up to the TCP relay or the UDP association, or   *)
(* a connection the kernel redirected to the transparent proxy              *)
(* (inbounds/tproxy.rs).  read_exact makes the cuts of TCP invisible, so a  *)
(* client sends whole messages; it may close at any time.                   *)
(***************************************************************************)
EXTENDS UdpRelay

CONSTANTS
    Request     \* the requests of the instance: [ver, cmd, kind, dest]

\* Numeric addresses are addresses, and names resolve to lists of them
ASSUME RequestAssumption ==
    \A r \in Request : IF r.kind = "domain" THEN Lookup(r.dest) \subseteq Seq(Host)
                        ELSE r.dest \in Host

VARIABLES
    pc,         \* where handle_client or handle_tproxy_connection is
    gone,       \* the client has closed its connection
    request,    \* the request read
    addrs,      \* candidates still to be tried
    resolved,   \* what resolve_all returned
    tried,      \* candidates connect failed for
    server,     \* the address the server stream is connected to
    open,       \* directions of the TCP relay that are open
    replies     \* what the proxy wrote to the client before the relay

sessionVars == <<pc, gone, request, addrs, resolved, tried, server, open, replies>>
vars == <<relayVars, sessionVars>>

NoRequest == [ver |-> 0, cmd |-> 0, kind |-> "", dest |-> NoClient]

Init ==
    /\ RelayInit
    /\ pc \in {"handshake", "tproxy"}
    /\ gone = FALSE
    /\ request = NoRequest
    /\ addrs = <<>> /\ resolved = <<>> /\ tried = <<>>
    /\ server = NoClient
    /\ open = {}
    /\ replies = <<>>

\* A step that only writes a reply and goes on
Reply(code, place) ==
    /\ replies' = Append(replies, code)
    /\ pc' = place

Close == pc' = "closed" /\ UNCHANGED replies

\* handshake: version 5 and the method "no authentication", or the end
handshake(ver, methods) ==
    /\ pc = "handshake" /\ ~gone
    /\ \/ ver # 5 /\ Close
       \/ ver = 5 /\ 0 \notin methods /\ Reply("NoMethod", "closed")
       \/ ver = 5 /\ 0 \in methods /\ Reply("Method", "request")
    /\ UNCHANGED <<relayVars, gone, request, addrs, resolved, tried, server, open>>

\* read_request: any other version, command or address type ends the session
\* without a reply
read_request(r) ==
    /\ pc = "request" /\ ~gone
    /\ request' = r
    /\ pc' = IF r.ver # 5 \/ r.cmd \notin {1, 3} \/ r.kind = "bad" THEN "closed"
             ELSE IF r.cmd = 1 THEN "resolve" ELSE "bind"
    /\ UNCHANGED <<relayVars, gone, addrs, resolved, tried, server, open, replies>>

\* A read or write of the handshake or the request fails
StreamFails ==
    /\ pc \in {"handshake", "request"}
    /\ Close
    /\ UNCHANGED <<relayVars, gone, request, addrs, resolved, tried, server, open>>

\* The results of the stable sort of resolve_all by is_ipv6 (there is one): p
\* takes the new places to the old
PreferIpv4(list) ==
    LET D == DOMAIN list
        Before(i, j) == IF list[i] \in V6 <=> list[j] \in V6 THEN i < j ELSE list[j] \in V6
    IN {[i \in D |-> list[p[i]]] :
           p \in {q \in [D -> D] : \A i, j \in D : i < j => Before(q[i], q[j])}}

\* Mutant: the addresses are taken as they come
resolve_all_unsorted(r) == IF r.kind = "domain" THEN Lookup(r.dest) ELSE {<<r.dest>>}

\* resolve_all: the lists it may return, <<>> for an error
resolve_all(r) ==
    IF r.kind = "domain" THEN UNION {PreferIpv4(list) : list \in Lookup(r.dest)} ELSE {<<r.dest>>}

Resolve ==
    /\ pc = "resolve"
    /\ resolved' \in resolve_all(request)
    /\ addrs' = resolved'
    /\ IF resolved' = <<>> THEN Reply("HostUnreachable", "closed")
       ELSE pc' = "connect" /\ UNCHANGED replies
    /\ UNCHANGED <<relayVars, gone, request, tried, server, open>>

\* The next candidate accepts or not.  A reply that cannot be written is
\* ignored, and the relay finds out.
Connect ==
    /\ pc = "connect"
    /\ addrs' = Tail(addrs)
    /\ \/ /\ server' = Head(addrs)
          /\ Reply("Success", "relay")
          /\ open' = {"up", "down"}
          /\ UNCHANGED tried
       \/ /\ tried' = Append(tried, Head(addrs))
          /\ IF Len(addrs) = 1 THEN Reply("ConnectionRefused", "closed")
             ELSE UNCHANGED <<pc, replies>>
          /\ UNCHANGED <<server, open>>
    /\ UNCHANGED <<relayVars, gone, request, resolved>>

\* handle_tproxy_connection: the address the client meant is the local one
Tproxy ==
    /\ pc = "tproxy"
    /\ \/ pc' = "relay" /\ open' = {"up", "down"}
       \/ pc' = "closed" /\ UNCHANGED open
    /\ UNCHANGED <<relayVars, gone, request, addrs, resolved, tried, server, replies>>

\* copy_bidirectional: each direction ends with its source; it returns when
\* both have, or one fails
RelayEof(dir) ==
    /\ pc = "relay" /\ dir \in open
    /\ dir = "up" => gone
    /\ open' = open \ {dir}
    /\ pc' = IF open' = {} THEN "closed" ELSE pc
    /\ UNCHANGED <<relayVars, gone, request, addrs, resolved, tried, server, replies>>

RelayError ==
    /\ pc = "relay"
    /\ open' = {}
    /\ pc' = "closed"
    /\ UNCHANGED <<relayVars, gone, request, addrs, resolved, tried, server, replies>>

\* UDP ASSOCIATE: bind the relay's socket and announce it
Bind ==
    /\ pc = "bind"
    /\ \/ Reply("Success", "udp") /\ relay' = "recv"
       \/ Close /\ UNCHANGED relay
    /\ UNCHANGED <<client, pending, seen, received, sent,
                   gone, request, addrs, resolved, tried, server, open>>

RunRelay == pc = "udp" /\ Run /\ UNCHANGED sessionVars

\* Mutant: the end of the stream is waited for only between two datagrams
TcpRead_between_packets ==
    /\ pc = "udp" /\ gone /\ relay = "recv"
    /\ Close
    /\ relay' = "off"
    /\ UNCHANGED <<client, pending, seen, received, sent,
                   gone, request, addrs, resolved, tried, server, open>>

\* The select: any result of a read from the client's connection, be it a byte
\* or the end, or an error of the relay ends the association
TcpRead ==
    /\ pc = "udp"
    /\ Close
    /\ relay' = "off"
    /\ UNCHANGED <<client, pending, seen, received, sent,
                   gone, request, addrs, resolved, tried, server, open>>

RelayEnded ==
    /\ pc = "udp" /\ relay = "ended"
    /\ Close
    /\ relay' = "off"
    /\ UNCHANGED <<client, pending, seen, received, sent,
                   gone, request, addrs, resolved, tried, server, open>>

ClientCloses ==
    /\ ~gone
    /\ gone' = TRUE
    /\ UNCHANGED <<relayVars, pc, request, addrs, resolved, tried, server, open, replies>>

Session == Resolve \/ Connect \/ Tproxy \/ Bind \/ RelayEnded

Next ==
    \/ \E ver \in {4, 5}, methods \in SUBSET {0, 2} : handshake(ver, methods)
    \/ \E r \in Request : read_request(r)
    \/ Session \/ StreamFails \/ RelayError \/ RunRelay \/ TcpRead \/ ClientCloses
    \/ \E dir \in {"up", "down"} : RelayEof(dir)

\* Names are looked up and connections tried until they succeed or fail, and
\* a read, alone or in the select, notices that the client has closed.
Spec ==
    /\ Init /\ [][Next]_vars
    /\ WF_vars(Session)
    /\ WF_vars(gone /\ StreamFails)
    /\ WF_vars(gone /\ TcpRead)

-----------------------------------------------------------------------------
(* Properties *)

\* The reply tells what happened: there is one for each step of the protocol
\* and none after it; success means a connection to an address the name has,
\* after every IPv4 address before it failed; refusal that every address was
\* tried; HostUnreachable that there is none; and bytes are relayed only after
\* success.
ReplyIsTrue ==
    LET last == replies[Len(replies)] IN
    /\ Len(replies) <= 2
    /\ Len(replies) = 2 =>
         /\ replies[1] = "Method"
         /\ last = "Success" /\ request.cmd = 1 => server = resolved[Len(tried) + 1]
         /\ last = "ConnectionRefused" => tried = resolved /\ resolved # <<>>
         /\ last = "HostUnreachable" => tried = <<>> /\ <<>> \in resolve_all(request)
    /\ \A i, j \in DOMAIN tried : tried[i] \in V6 /\ tried[j] \notin V6 => j < i
    /\ server \in V6 => \A i \in DOMAIN resolved : resolved[i] \notin V6 =>
                           \E j \in DOMAIN tried : tried[j] = resolved[i]
    /\ (pc \in {"relay", "udp"} /\ request # NoRequest) => replies = <<"Method", "Success">>

\* When the client closes its connection the session ends, in the middle of a
\* handshake, a connection attempt or a datagram; only a TCP relay also waits
\* for the server to close.
SessionEnds == gone ~> pc \in {"closed", "relay"}
=============================================================================
