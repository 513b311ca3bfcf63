------------------------------ MODULE UdpRelay ------------------------------
(***************************************************************************)
(* The UDP relay of my-proxy (relay/udp.rs) for one association: one       *)
(* socket, on which the datagrams of the client, which carry a SOCKS5      *)
(* header, and those of any other host arrive together.                    *)
(*                                                                         *)
(* A datagram is a record: its length, its fragment byte, the address type *)
(* and, for a domain, the length of the name, the address it names and an  *)
(* identity for its payload.  UDP may deliver it any number of times, in   *)
(* any order, from any peer.                                               *)
(***************************************************************************)
EXTENDS Integers, Sequences

LOCAL INSTANCE SequencesExt

CONSTANTS
    Datagram,       \* the datagrams of the instance
    Host,           \* addresses
    Peer,           \* those datagrams come from
    V6,             \* those that are IPv6
    Lookup(_),      \* name -> the lists lookup_host may return, <<>> for failure
    NoClient,
    IDLE_TIMEOUT,
    MaxPackets      \* bound: datagrams received

ASSUME HostAssumption == Peer \subseteq Host /\ V6 \subseteq Host /\ NoClient \notin Host

VARIABLES
    relay,      \* "off", "recv", "resolve" (in resolve_ipv4) or "ended" (an error)
    client,     \* self.client
    pending,    \* the datagram being resolved
    seen,       \* self.seen, with the time left before it is forgotten
    received,   \* the datagrams recv_from returned
    sent        \* the datagrams sent

relayVars == <<relay, client, pending, seen, received, sent>>

\* Bytes of an address in a SOCKS5 header: type, address, port
AddrLen(d) == CASE d.kind = "ipv4" -> 7
                [] d.kind = "domain" -> 4 + d.name
                [] d.kind = "ipv6" -> 19

\* Address::from_socks5 on what follows the first 3 bytes; the kind "bad" is
\* an unknown type, or a name that is not UTF-8
from_socks5(d) == d.kind # "bad" /\ d.len - 3 >= AddrLen(d)

\* What handle_client_packet lets through
Accepts(d) == d.len >= 10 /\ d.frag = 0 /\ from_socks5(d)

\* resolve_ipv4: the results it may have; NoClient stands for an error
resolve_ipv4(d) ==
    CASE d.kind = "ipv4" -> {d.dest}
      [] d.kind = "ipv6" -> {NoClient}
      [] d.kind = "domain" ->
            {LET i == SelectInSeq(list, LAMBDA a : a \notin V6)
             IN IF i = 0 THEN NoClient ELSE list[i] : list \in Lookup(d.dest)}

\* The payload sent on to a target, and the reply with the header of its sender
Forward(d, target) == [to |-> target, id |-> d.id, n |-> d.len - 3 - AddrLen(d), from |-> NoClient]
Wrap(d, peer, to) == [to |-> to, id |-> d.id, n |-> 10 + d.len, from |-> peer]

\* cleanup after insert(a)
Cleanup(s) == {e \in s : e.left > 0}
Insert(a) == {e \in seen : e.addr # a} \cup {[addr |-> a, left |-> IDLE_TIMEOUT]}

RelayInit ==
    /\ relay = "off"
    /\ client = NoClient
    /\ pending = NoClient
    /\ seen = {}
    /\ received = <<>>
    /\ sent = <<>>

Receive(d, p) ==
    /\ relay = "recv"
    /\ Len(received) < MaxPackets
    /\ received' = Append(received, [data |-> d, peer |-> p])

\* Mutant: the first datagram makes its sender the client, well-formed or not
HandleClientPacket_client_first(d, p) ==
    /\ Receive(d, p)
    /\ client \in {NoClient, p}
    /\ client' = p
    /\ IF Accepts(d)
       THEN pending' = d /\ relay' = "resolve" /\ UNCHANGED <<seen, sent>>
       ELSE seen' = Cleanup(seen) /\ UNCHANGED <<relay, pending, sent>>

\* handle_client_packet up to resolve_ipv4: the client is set before it
HandleClientPacket(d, p) ==
    /\ Receive(d, p)
    /\ client \in {NoClient, p}
    /\ IF Accepts(d)
       THEN client' = p /\ pending' = d /\ relay' = "resolve" /\ UNCHANGED <<seen, sent>>
       ELSE seen' = Cleanup(seen) /\ UNCHANGED <<relay, client, pending, sent>>

\* The rest of it: an address without IPv4, or a failed send, ends the relay
ResolveAndSend ==
    /\ relay = "resolve"
    /\ pending' = NoClient
    /\ \/ \E target \in resolve_ipv4(pending) \ {NoClient} :
             /\ sent' = Append(sent, Forward(pending, target))
             /\ seen' = Cleanup(Insert(target))
             /\ relay' = "recv"
       \/ relay' = "ended" /\ UNCHANGED <<sent, seen>>
    /\ UNCHANGED <<client, received>>

\* handle_server_packet: any host may answer (full cone), over IPv4
HandleServerPacket(d, p) ==
    /\ Receive(d, p)
    /\ client \notin {NoClient, p}
    /\ \/ /\ p \notin V6
          /\ sent' = Append(sent, Wrap(d, p, client))
          /\ seen' = Cleanup(Insert(p))
          /\ UNCHANGED relay
       \/ p \in V6 /\ seen' = Cleanup(seen) /\ UNCHANGED <<relay, sent>>
       \/ p \notin V6 /\ relay' = "ended" /\ UNCHANGED <<sent, seen>>   \* send_to fails
    /\ UNCHANGED <<client, pending>>

RecvError ==
    /\ relay = "recv"
    /\ relay' = "ended"
    /\ UNCHANGED <<client, pending, seen, received, sent>>

\* Time passes: nothing looks at it before the next datagram
Age ==
    /\ \E e \in seen : e.left > 0
    /\ seen' = {[e EXCEPT !.left = IF @ > 0 THEN @ - 1 ELSE 0] : e \in seen}
    /\ UNCHANGED <<relay, client, pending, received, sent>>

Run ==
    \/ \E d \in Datagram, p \in Peer : HandleClientPacket(d, p) \/ HandleServerPacket(d, p)
    \/ ResolveAndSend \/ RecvError \/ Age

-----------------------------------------------------------------------------
(* What the relay owes for the datagrams it received *)

\* A datagram in SOCKS5 form, which makes its sender the client.  Nothing is
\* owed for one shorter than the header of an IPv4 address, although a name of
\* one or two letters fits into it: the code ignores it.
Whole(d) == d.len >= 10 /\ d.frag = 0 /\ from_socks5(d)

\* What may be sent for the i-th of the datagrams rc when owner is the client
Owed(rc, owner, i) ==
    LET d == rc[i].data
        p == rc[i].peer
    IN IF \A k \in 1 .. i : ~Whole(rc[k].data) THEN {}
       ELSE IF p # owner THEN (IF p \in V6 THEN {} ELSE {Wrap(d, p, owner)})
       ELSE IF Whole(d) THEN {Forward(d, t) : t \in resolve_ipv4(d) \ {NoClient}}
       ELSE {}

\* f takes what was sent to the datagrams it was sent for, in their order
Explains(f, sn, rc, owner) ==
    /\ f \in [1 .. Len(sn) -> 1 .. Len(rc)]
    /\ \A j, k \in 1 .. Len(sn) : j < k => f[j] < f[k]
    /\ \A j \in 1 .. Len(sn) : sn[j] \in Owed(rc, owner, f[j])

\* The relay sends what it owes for what it received, in order, and nothing
\* else: payloads of the client go to the address they name, datagrams of other
\* hosts to the client with their sender's address.  Only the last can be
\* missing, and only when the relay is not waiting for another.  The client is
\* the first to speak SOCKS5, for good.
RelayIsFaithful ==
    /\ IF client = NoClient THEN \A i \in DOMAIN received : ~Whole(received[i].data)
       ELSE \E i \in DOMAIN received :
               /\ received[i].peer = client /\ Whole(received[i].data)
               /\ \A k \in 1 .. i - 1 : ~Whole(received[k].data)
    /\ \E f \in [DOMAIN sent -> DOMAIN received] :
          /\ Explains(f, sent, received, client)
          /\ \A i \in DOMAIN received :
                \/ Owed(received, client, i) = {}
                \/ \E j \in DOMAIN sent : f[j] = i
                \/ i = Len(received) /\ relay # "recv"
=============================================================================
