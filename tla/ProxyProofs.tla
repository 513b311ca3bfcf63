---------------------------- MODULE ProxyProofs ----------------------------
(***************************************************************************)
(* The proxy for any addresses, names, requests and datagrams: what the    *)
(* UDP relay sends is what it owes (RelayIsFaithful), and the replies of a *)
(* session are true (ReplyIsTrue).                                         *)
(***************************************************************************)
EXTENDS Socks5, SequenceTheorems, TLAPS

-----------------------------------------------------------------------------
(* The account of the relay, for the first n of the datagrams received *)

Message == [data : Datagram, peer : Peer]

Sendable ==
    {Forward(d, t) : d \in Datagram, t \in UNION {resolve_ipv4(e) : e \in Datagram}}
    \cup {Wrap(d, p, q) : d \in Datagram, p \in Peer, q \in Peer}

\* The first n datagrams of rc, and no others, were answered by sn
Settled(sn, rc, owner, n) ==
    /\ n \in 0 .. Len(rc)
    /\ \E f \in [1 .. Len(sn) -> 1 .. n] :
          /\ \A j, k \in 1 .. Len(sn) : j < k => f[j] < f[k]
          /\ \A j \in 1 .. Len(sn) : sn[j] \in Owed(rc, owner, f[j])
          /\ \A i \in 1 .. n : Owed(rc, owner, i) = {} \/ \E j \in 1 .. Len(sn) : f[j] = i

\* The client is the first that sent a whole datagram
Owns(rc, owner) ==
    IF owner = NoClient THEN \A i \in 1 .. Len(rc) : ~Whole(rc[i].data)
    ELSE \E i \in 1 .. Len(rc) :
            /\ rc[i].peer = owner /\ Whole(rc[i].data)
            /\ \A k \in 1 .. i - 1 : ~Whole(rc[k].data)

\* Between the two halves of handle_client_packet the last datagram is open
RelayInv ==
    /\ received \in Seq(Message)
    /\ sent \in Seq(Sendable)
    /\ client \in Peer \cup {NoClient}
    /\ Owns(received, client)
    /\ \E n \in {Len(received), Len(received) - 1} :
          /\ Settled(sent, received, client, n)
          /\ relay = "recv" => n = Len(received)
          /\ relay = "resolve" => n = Len(received) - 1
    /\ relay = "resolve" =>
          /\ received # <<>> /\ client # NoClient
          /\ received[Len(received)] = [data |-> pending, peer |-> client]
          /\ Whole(pending)

\* The invariant contains the property.
LEMMA RelayInvImplies == RelayInv => RelayIsFaithful
<1> SUFFICES ASSUME RelayInv PROVE RelayIsFaithful
  OBVIOUS
<1>1. DOMAIN received = 1 .. Len(received) /\ Len(received) \in Nat
  BY DEF RelayInv
<1>2. DOMAIN sent = 1 .. Len(sent) /\ Len(sent) \in Nat
  BY DEF RelayInv
<1>3. IF client = NoClient THEN \A i \in DOMAIN received : ~Whole(received[i].data)
      ELSE \E i \in DOMAIN received :
              /\ received[i].peer = client /\ Whole(received[i].data)
              /\ \A k \in 1 .. i - 1 : ~Whole(received[k].data)
  BY <1>1 DEF RelayInv, Owns
<1>4. PICK n \in {Len(received), Len(received) - 1} :
          /\ Settled(sent, received, client, n)
          /\ relay = "recv" => n = Len(received)
  BY DEF RelayInv
<1>5. n \in 0 .. Len(received)
  BY <1>4 DEF Settled
<1>6. PICK f \in [1 .. Len(sent) -> 1 .. n] :
          /\ \A j, k \in 1 .. Len(sent) : j < k => f[j] < f[k]
          /\ \A j \in 1 .. Len(sent) : sent[j] \in Owed(received, client, f[j])
          /\ \A i \in 1 .. n : \/ Owed(received, client, i) = {}
                               \/ \E j \in 1 .. Len(sent) : f[j] = i
  BY <1>4 DEF Settled
<1>7. f \in [1 .. Len(sent) -> 1 .. Len(received)]
  <2>1. \A a \in Nat : \A b \in 0 .. a : 1 .. b \subseteq 1 .. a
    OBVIOUS
  <2>2. 1 .. n \subseteq 1 .. Len(received)
    BY <2>1, <1>5, <1>1
  <2> QED
    BY <2>2
<1>8. Explains(f, sent, received, client)
  BY <1>6, <1>7 DEF Explains
<1>9. \A i \in 1 .. Len(received) :
          \/ Owed(received, client, i) = {}
          \/ \E j \in 1 .. Len(sent) : f[j] = i
          \/ i = Len(received) /\ relay # "recv"
  <2> SUFFICES ASSUME NEW i \in 1 .. Len(received), ~(i = Len(received) /\ relay # "recv")
               PROVE  Owed(received, client, i) = {} \/ \E j \in 1 .. Len(sent) : f[j] = i
    OBVIOUS
  <2>1. n = Len(received) \/ (n = Len(received) - 1 /\ i # Len(received))
    BY <1>4
  <2>2. \A a \in Nat : \A b \in 1 .. a : b # a => b \in 1 .. a - 1
    OBVIOUS
  <2>3. i \in 1 .. n
    BY <1>1, <2>1, <2>2
  <2> QED
    BY <2>3, <1>6
<1> QED
  BY <1>1, <1>2, <1>3, <1>7, <1>8, <1>9 DEF RelayIsFaithful

-----------------------------------------------------------------------------
(* How the account grows *)

\* Another datagram changes nothing of what is owed for the earlier ones.
LEMMA OwedAppend ==
    ASSUME NEW rc \in Seq(Message), NEW r \in Message, NEW owner, NEW i \in 1 .. Len(rc)
    PROVE  Owed(Append(rc, r), owner, i) = Owed(rc, owner, i)
<1>1. \A k \in 1 .. i : Append(rc, r)[k] = rc[k]
  BY AppendProperties
<1>2. Append(rc, r)[i] = rc[i]
  BY <1>1
<1> QED
  BY <1>1, <1>2 DEF Owed

\* Nothing is owed before the first whole datagram, whoever is the client.
LEMMA OwedNone ==
    ASSUME NEW rc, NEW owner, NEW n \in Nat, \A k \in 1 .. n : ~Whole(rc[k].data),
           NEW i \in 1 .. n
    PROVE  Owed(rc, owner, i) = {}
  BY DEF Owed

\* A new datagram is not settled at first.
LEMMA SettledReceive ==
    ASSUME NEW sn \in Seq(Sendable), NEW rc \in Seq(Message), NEW r \in Message,
           NEW o, NEW q, Settled(sn, rc, o, Len(rc)),
           \A i \in 1 .. Len(rc) : Owed(Append(rc, r), q, i) = Owed(rc, o, i)
    PROVE  Settled(sn, Append(rc, r), q, Len(rc))
<1>1. Len(rc) \in Nat /\ Len(Append(rc, r)) = Len(rc) + 1
  OBVIOUS
<1>2. PICK f \in [1 .. Len(sn) -> 1 .. Len(rc)] :
          /\ \A j, k \in 1 .. Len(sn) : j < k => f[j] < f[k]
          /\ \A j \in 1 .. Len(sn) : sn[j] \in Owed(rc, o, f[j])
          /\ \A i \in 1 .. Len(rc) : Owed(rc, o, i) = {} \/ \E j \in 1 .. Len(sn) : f[j] = i
  BY DEF Settled
<1>3. \A j \in 1 .. Len(sn) : sn[j] \in Owed(Append(rc, r), q, f[j])
  BY <1>2
<1>4. \A i \in 1 .. Len(rc) : \/ Owed(Append(rc, r), q, i) = {}
                              \/ \E j \in 1 .. Len(sn) : f[j] = i
  BY <1>2
<1>5. Len(rc) \in 0 .. Len(Append(rc, r))
  BY <1>1
<1> DEFINE rd == Append(rc, r)
<1> HIDE DEF rd
<1>6. Settled(sn, rd, q, Len(rc))
  BY <1>2, <1>3, <1>4, <1>5 DEF Settled, rd
<1> QED
  BY <1>6 DEF rd

\* A datagram for which nothing is owed is settled by sending nothing.
LEMMA SettledSkip ==
    ASSUME NEW sn \in Seq(Sendable), NEW rc \in Seq(Message), NEW o, NEW n \in Nat,
           n + 1 <= Len(rc), Settled(sn, rc, o, n), Owed(rc, o, n + 1) = {}
    PROVE  Settled(sn, rc, o, n + 1)
<1>1. PICK f \in [1 .. Len(sn) -> 1 .. n] :
          /\ \A j, k \in 1 .. Len(sn) : j < k => f[j] < f[k]
          /\ \A j \in 1 .. Len(sn) : sn[j] \in Owed(rc, o, f[j])
          /\ \A i \in 1 .. n : Owed(rc, o, i) = {} \/ \E j \in 1 .. Len(sn) : f[j] = i
  BY DEF Settled
<1>2. f \in [1 .. Len(sn) -> 1 .. n + 1]
  OBVIOUS
<1>3. \A i \in 1 .. n + 1 : Owed(rc, o, i) = {} \/ \E j \in 1 .. Len(sn) : f[j] = i
  <2> SUFFICES ASSUME NEW i \in 1 .. n + 1
               PROVE  Owed(rc, o, i) = {} \/ \E j \in 1 .. Len(sn) : f[j] = i
    OBVIOUS
  <2>1. i \in 1 .. n \/ i = n + 1
    OBVIOUS
  <2> QED
    BY <2>1, <1>1
<1>4. n + 1 \in 0 .. Len(rc)
  OBVIOUS
<1> QED
  BY <1>1, <1>2, <1>3, <1>4 DEF Settled

\* Sending what is owed for it settles the next datagram.
LEMMA SettledSend ==
    ASSUME NEW sn \in Seq(Sendable), NEW rc \in Seq(Message), NEW o, NEW n \in Nat,
           n + 1 <= Len(rc), Settled(sn, rc, o, n),
           NEW x \in Sendable, x \in Owed(rc, o, n + 1)
    PROVE  Settled(Append(sn, x), rc, o, n + 1)
<1> DEFINE m == Len(sn)
           s == Append(sn, x)
<1>1. PICK f \in [1 .. m -> 1 .. n] :
          /\ \A j, k \in 1 .. m : j < k => f[j] < f[k]
          /\ \A j \in 1 .. m : sn[j] \in Owed(rc, o, f[j])
          /\ \A i \in 1 .. n : Owed(rc, o, i) = {} \/ \E j \in 1 .. m : f[j] = i
  BY DEF Settled
<1>2. m \in Nat /\ Len(s) = m + 1 /\ s[m + 1] = x /\ \A j \in 1 .. m : s[j] = sn[j]
  BY AppendProperties
<1> DEFINE g == [j \in 1 .. m + 1 |-> IF j = m + 1 THEN n + 1 ELSE f[j]]
<1> HIDE DEF m, s
<1>3. g \in [1 .. m + 1 -> 1 .. n + 1] /\ g[m + 1] = n + 1 /\ \A j \in 1 .. m : g[j] = f[j]
  BY <1>2
<1> HIDE DEF g
<1>4. \A j, k \in 1 .. m + 1 : j < k => g[j] < g[k]
  <2> SUFFICES ASSUME NEW j \in 1 .. m + 1, NEW k \in 1 .. m + 1, j < k
               PROVE  g[j] < g[k]
    OBVIOUS
  <2>1. j \in 1 .. m /\ (k \in 1 .. m \/ k = m + 1)
    BY <1>2
  <2>2. f[j] \in 1 .. n
    BY <2>1
  <2> QED
    BY <2>1, <2>2, <1>1, <1>3
<1>5. \A j \in 1 .. m + 1 : s[j] \in Owed(rc, o, g[j])
  <2> SUFFICES ASSUME NEW j \in 1 .. m + 1 PROVE s[j] \in Owed(rc, o, g[j])
    OBVIOUS
  <2>1. j \in 1 .. m \/ j = m + 1
    BY <1>2
  <2> QED
    BY <2>1, <1>1, <1>2, <1>3
<1>6. \A i \in 1 .. n + 1 : Owed(rc, o, i) = {} \/ \E j \in 1 .. m + 1 : g[j] = i
  <2> SUFFICES ASSUME NEW i \in 1 .. n + 1
               PROVE  Owed(rc, o, i) = {} \/ \E j \in 1 .. m + 1 : g[j] = i
    OBVIOUS
  <2>1. CASE i = n + 1
    BY <2>1, <1>2, <1>3
  <2>2. CASE i \in 1 .. n
    <3>1. \A j \in 1 .. m : j \in 1 .. m + 1
      BY <1>2
    <3> QED
      BY <3>1, <2>2, <1>1, <1>3
  <2> QED
    BY <2>1, <2>2
<1>7. n + 1 \in 0 .. Len(rc)
  OBVIOUS
<1>8. Settled(s, rc, o, n + 1)
  <2>1. 1 .. Len(s) = 1 .. m + 1
    BY <1>2
  <2>2. \E h \in [1 .. m + 1 -> 1 .. n + 1] :
            /\ \A j, k \in 1 .. m + 1 : j < k => h[j] < h[k]
            /\ \A j \in 1 .. m + 1 : s[j] \in Owed(rc, o, h[j])
            /\ \A i \in 1 .. n + 1 : \/ Owed(rc, o, i) = {}
                                    \/ \E j \in 1 .. m + 1 : h[j] = i
    BY <1>3, <1>4, <1>5, <1>6, Zenon
  <2> QED
    BY <2>1, <2>2, <1>7, Zenon DEF Settled
<1> QED
  BY <1>8 DEF s

-----------------------------------------------------------------------------
(* The client *)

\* A client stays the client; without one, a datagram that is not whole names
\* nobody.
LEMMA OwnsAppend ==
    ASSUME NEW rc \in Seq(Message), NEW r \in Message, NEW o, Owns(rc, o),
           o = NoClient => ~Whole(r.data)
    PROVE  Owns(Append(rc, r), o)
<1> DEFINE rd == Append(rc, r)
<1>1. /\ Len(rc) \in Nat /\ Len(rd) = Len(rc) + 1 /\ rd[Len(rc) + 1] = r
      /\ \A k \in 1 .. Len(rc) : rd[k] = rc[k]
  BY AppendProperties
<1> HIDE DEF rd
<1>2. CASE o = NoClient
  <2> SUFFICES ASSUME NEW k \in 1 .. Len(rd) PROVE ~Whole(rd[k].data)
    BY <1>2 DEF Owns, rd
  <2>1. k \in 1 .. Len(rc) \/ k = Len(rc) + 1
    BY <1>1
  <2> QED
    BY <2>1, <1>1, <1>2 DEF Owns
<1>3. CASE o # NoClient
  <2>1. PICK i \in 1 .. Len(rc) :
            /\ rc[i].peer = o /\ Whole(rc[i].data)
            /\ \A k \in 1 .. i - 1 : ~Whole(rc[k].data)
    BY <1>3 DEF Owns
  <2>2. i \in 1 .. Len(rd) /\ \A k \in 1 .. i - 1 : k \in 1 .. Len(rc)
    BY <1>1
  <2>3. rd[i].peer = o /\ Whole(rd[i].data) /\ \A k \in 1 .. i - 1 : ~Whole(rd[k].data)
    BY <2>1, <2>2, <1>1
  <2>4. Owns(rd, o)
    BY <1>3, <2>2, <2>3 DEF Owns
  <2> QED
    BY <2>4 DEF rd
<1> QED
  BY <1>2, <1>3

\* The first whole datagram names its sender.
LEMMA OwnsFirst ==
    ASSUME NEW rc \in Seq(Message), NEW r \in Message, Owns(rc, NoClient),
           Whole(r.data), r.peer # NoClient
    PROVE  Owns(Append(rc, r), r.peer)
<1> DEFINE rd == Append(rc, r)
           i == Len(rc) + 1
<1>1. /\ Len(rc) \in Nat /\ Len(rd) = i /\ rd[i] = r
      /\ \A k \in 1 .. Len(rc) : rd[k] = rc[k]
  BY AppendProperties
<1>2. i \in 1 .. Len(rd) /\ 1 .. i - 1 = 1 .. Len(rc)
  BY <1>1
<1> HIDE DEF rd, i
<1>3. \A k \in 1 .. i - 1 : ~Whole(rd[k].data)
  BY <1>1, <1>2 DEF Owns
<1>4. Owns(rd, r.peer)
  BY <1>1, <1>2, <1>3 DEF Owns
<1> QED
  BY <1>4 DEF rd

\* Where there is a client something is owed for a datagram of another host,
\* and for one of the client that is whole; otherwise nothing.
LEMMA OwedLast ==
    ASSUME NEW rc \in Seq(Message), NEW o, Owns(rc, o), rc # <<>>,
           NEW r, r = rc[Len(rc)], r.peer # NoClient
    PROVE  Owed(rc, o, Len(rc)) =
              IF o = NoClient THEN {}
              ELSE IF r.peer # o THEN (IF r.peer \in V6 THEN {} ELSE {Wrap(r.data, r.peer, o)})
              ELSE IF Whole(r.data)
                   THEN {Forward(r.data, t) : t \in resolve_ipv4(r.data) \ {NoClient}}
              ELSE {}
<1>1. CASE o = NoClient
  BY <1>1 DEF Owed, Owns
<1>2. CASE o # NoClient
  <2>1. ~ \A k \in 1 .. Len(rc) : ~Whole(rc[k].data)
    BY <1>2 DEF Owns
  <2> QED
    BY <1>2, <2>1 DEF Owed
<1> QED
  BY <1>1, <1>2

-----------------------------------------------------------------------------
(* The steps of the relay *)

\* recv_from: one more datagram, of an address that is not the unknown client.
LEMMA Received ==
    ASSUME RelayInv, NEW d \in Datagram, NEW p \in Peer, Receive(d, p)
    PROVE  /\ relay = "recv" /\ p # NoClient
           /\ [data |-> d, peer |-> p] \in Message
           /\ received' = Append(received, [data |-> d, peer |-> p])
           /\ received' \in Seq(Message) /\ received' # <<>>
           /\ Len(received') = Len(received) + 1 /\ Len(received) \in Nat
           /\ received'[Len(received')] = [data |-> d, peer |-> p]
           /\ Settled(sent, received, client, Len(received))
<1> DEFINE r == [data |-> d, peer |-> p]
<1>1. r \in Message /\ p # NoClient
  BY HostAssumption DEF Message
<1>2. received \in Seq(Message) /\ received' = Append(received, r)
  BY DEF Receive, RelayInv
<1> HIDE DEF r
<1>3. /\ received' \in Seq(Message) /\ received' # <<>>
      /\ Len(received') = Len(received) + 1 /\ Len(received) \in Nat
      /\ received'[Len(received')] = r
  BY <1>1, <1>2, AppendProperties
<1>4. relay = "recv"
  BY DEF Receive
<1>5. Settled(sent, received, client, Len(received))
  BY <1>4 DEF RelayInv
<1> QED
  BY <1>1, <1>2, <1>3, <1>4, <1>5 DEF r

\* handle_client_packet up to resolve_ipv4 keeps the account.
LEMMA ClientPacketKeeps ==
    ASSUME RelayInv, NEW d \in Datagram, NEW p \in Peer, HandleClientPacket(d, p)
    PROVE  RelayInv'
<1> DEFINE r == [data |-> d, peer |-> p]
<1>1. /\ relay = "recv" /\ p # NoClient /\ r \in Message
      /\ received' = Append(received, r)
      /\ received' \in Seq(Message) /\ received' # <<>>
      /\ Len(received') = Len(received) + 1 /\ Len(received) \in Nat
      /\ received'[Len(received')] = r
      /\ Settled(sent, received, client, Len(received))
  BY Received DEF HandleClientPacket
<1>2. r.data = d /\ r.peer = p
  OBVIOUS
<1>3. /\ received \in Seq(Message) /\ sent \in Seq(Sendable) /\ Owns(received, client)
      /\ client \in Peer \cup {NoClient}
  BY DEF RelayInv
<1>4. client \in {NoClient, p} /\ (Accepts(d) <=> Whole(d))
  BY DEF HandleClientPacket, Accepts, Whole
<1> HIDE DEF r
<1>5. CASE Accepts(d)
  <2>1. client' = p /\ pending' = d /\ relay' = "resolve" /\ UNCHANGED <<seen, sent>>
    BY <1>5 DEF HandleClientPacket
  <2>2. \A i \in 1 .. Len(received) : Owed(Append(received, r), p, i) = Owed(received, client, i)
    <3>1. CASE client = p
      BY <3>1, <1>1, <1>3, OwedAppend
    <3>2. CASE client = NoClient
      <4>1. \A k \in 1 .. Len(received) : ~Whole(received[k].data)
        BY <3>2, <1>3 DEF Owns
      <4>2. \A i \in 1 .. Len(received) : Owed(received, client, i) = {}
        BY <4>1, <1>1, OwedNone
      <4>3. \A i \in 1 .. Len(received) : Owed(received, p, i) = {}
        BY <4>1, <1>1, OwedNone
      <4>4. \A i \in 1 .. Len(received) : Owed(Append(received, r), p, i) = Owed(received, p, i)
        BY <1>1, <1>3, OwedAppend
      <4> QED
        BY <4>2, <4>3, <4>4
    <3> QED
      BY <3>1, <3>2, <1>4
  <2>3. Settled(sent, received', p, Len(received))
    BY <2>2, <1>1, <1>3, SettledReceive
  <2>4. Owns(received', p)
    <3>1. CASE client = p
      BY <3>1, <1>1, <1>3, OwnsAppend
    <3>2. CASE client = NoClient
      BY <3>2, <1>1, <1>2, <1>3, <1>4, <1>5, OwnsFirst
    <3> QED
      BY <3>1, <3>2, <1>4
  <2>5. Len(received) = Len(received') - 1
    BY <1>1
  <2>6. Whole(pending') /\ received'[Len(received')] = [data |-> pending', peer |-> client']
    BY <2>1, <1>1, <1>4, <1>5 DEF r
  <2> QED
    BY <2>1, <2>3, <2>4, <2>5, <2>6, <1>1, <1>3 DEF RelayInv
<1>6. CASE ~Accepts(d)
  <2>1. UNCHANGED <<relay, client, pending, sent>>
    BY <1>6 DEF HandleClientPacket
  <2>2. \A i \in 1 .. Len(received) :
            Owed(Append(received, r), client, i) = Owed(received, client, i)
    BY <1>1, <1>3, OwedAppend
  <2>3. Settled(sent, received', client, Len(received))
    BY <2>2, <1>1, <1>3, SettledReceive
  <2>4. Owns(received', client)
    BY <1>1, <1>2, <1>3, <1>4, <1>6, OwnsAppend
  <2>5. Owed(received', client, Len(received')) = {}
    BY <2>4, <1>1, <1>2, <1>4, <1>6, OwedLast
  <2>6. Settled(sent, received', client, Len(received'))
    <3>1. Len(received) + 1 <= Len(received') /\ Owed(received', client, Len(received) + 1) = {}
      BY <2>5, <1>1
    <3>2. Settled(sent, received', client, Len(received) + 1)
      BY <3>1, <2>3, <1>1, <1>3, SettledSkip
    <3> QED
      BY <3>2, <1>1
  <2> QED
    BY <2>1, <2>4, <2>6, <1>1, <1>3 DEF RelayInv
<1> QED
  BY <1>5, <1>6

\* resolve_ipv4 and the send, which settles the datagram, or the end.
LEMMA ResolveAndSendKeeps ==
    ASSUME RelayInv, ResolveAndSend
    PROVE  RelayInv'
<1>1. /\ relay = "resolve" /\ UNCHANGED <<client, received>>
      /\ received \in Seq(Message) /\ sent \in Seq(Sendable)
      /\ Owns(received, client) /\ client \in Peer \cup {NoClient}
      /\ received # <<>> /\ client # NoClient
      /\ received[Len(received)] = [data |-> pending, peer |-> client]
      /\ Whole(pending)
  BY DEF ResolveAndSend, RelayInv
<1>2. Settled(sent, received, client, Len(received) - 1)
  BY <1>1 DEF RelayInv
<1>3. Len(received) \in Nat /\ Len(received) - 1 \in Nat /\ Len(received) - 1 + 1 = Len(received)
  BY <1>1
<1>4. CASE relay' = "ended" /\ UNCHANGED <<sent, seen>>
  BY <1>1, <1>2, <1>4 DEF RelayInv
<1>5. ASSUME NEW target \in resolve_ipv4(pending) \ {NoClient},
             sent' = Append(sent, Forward(pending, target)), relay' = "recv"
      PROVE  RelayInv'
  <2> DEFINE x == Forward(pending, target)
  <2>1. pending \in Datagram
    <3>1. Len(received) \in 1 .. Len(received)
      BY <1>3
    <3>2. received[Len(received)] \in Message
      BY <3>1, <1>1
    <3> QED
      BY <3>2, <1>1 DEF Message
  <2>2. x \in Sendable
    BY <2>1 DEF Sendable
  <2>3. Owed(received, client, Len(received))
            = {Forward(pending, t) : t \in resolve_ipv4(pending) \ {NoClient}}
    <3>1. received[Len(received)].data = pending /\ received[Len(received)].peer = client
      BY <1>1
    <3>2. ~ \A k \in 1 .. Len(received) : ~Whole(received[k].data)
      BY <1>1 DEF Owns
    <3> QED
      BY <3>1, <3>2, <1>1, Zenon DEF Owed
  <2>4. x \in Owed(received, client, Len(received))
    BY <2>3
  <2> HIDE DEF x
  <2>5. Settled(Append(sent, x), received, client, Len(received) - 1 + 1)
    BY <2>2, <2>4, <1>1, <1>2, <1>3, SettledSend
  <2>6. sent' = Append(sent, x) /\ sent' \in Seq(Sendable)
    BY <1>5, <2>2, <1>1 DEF x
  <2>7. Settled(sent', received, client, Len(received))
    BY <2>5, <2>6, <1>3
  <2> QED
    BY <2>6, <2>7, <1>1, <1>5 DEF RelayInv
<1> QED
  BY <1>4, <1>5 DEF ResolveAndSend

\* handle_server_packet: the datagram is wrapped for the client, skipped, or
\* ends the relay.
LEMMA ServerPacketKeeps ==
    ASSUME RelayInv, NEW d \in Datagram, NEW p \in Peer, HandleServerPacket(d, p)
    PROVE  RelayInv'
<1> DEFINE r == [data |-> d, peer |-> p]
           x == Wrap(d, p, client)
<1>1. /\ relay = "recv" /\ p # NoClient /\ r \in Message
      /\ received' = Append(received, r)
      /\ received' \in Seq(Message) /\ received' # <<>>
      /\ Len(received') = Len(received) + 1 /\ Len(received) \in Nat
      /\ received'[Len(received')] = r
      /\ Settled(sent, received, client, Len(received))
  BY Received DEF HandleServerPacket
<1>2. r.data = d /\ r.peer = p
  OBVIOUS
<1>3. /\ received \in Seq(Message) /\ sent \in Seq(Sendable) /\ Owns(received, client)
      /\ client \in Peer \cup {NoClient}
  BY DEF RelayInv
<1>4. client # NoClient /\ client # p /\ UNCHANGED <<client, pending>>
  BY DEF HandleServerPacket
<1>5. x \in Sendable
  BY <1>3, <1>4 DEF Sendable
<1> HIDE DEF r
<1>6. \A i \in 1 .. Len(received) :
          Owed(Append(received, r), client, i) = Owed(received, client, i)
  BY <1>1, <1>3, OwedAppend
<1>7. Settled(sent, received', client, Len(received))
  BY <1>6, <1>1, <1>3, SettledReceive
<1>8. Owns(received', client)
  BY <1>1, <1>3, <1>4, OwnsAppend
<1>9. Owed(received', client, Len(received')) = IF p \in V6 THEN {} ELSE {x}
  BY <1>8, <1>1, <1>2, <1>4, OwedLast
<1> HIDE DEF x
<1>10. Len(received) + 1 <= Len(received') /\ Len(received) = Len(received') - 1
  BY <1>1
<1>11. CASE p \notin V6 /\ sent' = Append(sent, x) /\ UNCHANGED relay
  <2>1. x \in Owed(received', client, Len(received) + 1)
    BY <1>9, <1>11, <1>1
  <2>2. Settled(Append(sent, x), received', client, Len(received) + 1)
    BY <2>1, <1>1, <1>3, <1>5, <1>7, <1>10, SettledSend
  <2>3. sent' \in Seq(Sendable)
    BY <1>11, <1>3, <1>5
  <2>4. Settled(sent', received', client, Len(received'))
    BY <2>2, <1>11, <1>1
  <2> QED
    BY <2>3, <2>4, <1>1, <1>3, <1>4, <1>8, <1>11 DEF RelayInv
<1>12. CASE p \in V6 /\ UNCHANGED <<relay, sent>>
  <2>1. Owed(received', client, Len(received) + 1) = {}
    BY <1>9, <1>12, <1>1
  <2>2. Settled(sent, received', client, Len(received) + 1)
    BY <2>1, <1>1, <1>3, <1>7, <1>10, SettledSkip
  <2>3. Settled(sent, received', client, Len(received'))
    BY <2>2, <1>1
  <2> QED
    BY <2>3, <1>1, <1>3, <1>4, <1>8, <1>12 DEF RelayInv
<1>13. CASE relay' = "ended" /\ UNCHANGED <<sent, seen>>
  BY <1>1, <1>3, <1>4, <1>7, <1>8, <1>10, <1>13 DEF RelayInv
<1> QED
  BY <1>11, <1>12, <1>13 DEF HandleServerPacket, x

\* A step of the relay keeps its account.
LEMMA RunKeeps == RelayInv /\ Run => RelayInv'
<1> SUFFICES ASSUME RelayInv, Run PROVE RelayInv'
  OBVIOUS
<1>1. CASE RecvError \/ Age
  BY <1>1 DEF RecvError, Age, RelayInv
<1> QED
  BY <1>1, ClientPacketKeeps, ServerPacketKeeps, ResolveAndSendKeeps DEF Run

-----------------------------------------------------------------------------
(* The session *)

\* IPv4 before IPv6
Ordered(list) ==
    \A i, j \in 1 .. Len(list) : i < j /\ list[i] \in V6 => list[j] \in V6

\* What was tried, and the address connected to after it, are the start of what
\* was resolved; addrs is the rest
Candidates ==
    /\ resolved \in Seq(Host) /\ tried \in Seq(Host) /\ addrs \in Seq(Host)
    /\ server \in Host \cup {NoClient}
    /\ Ordered(resolved)
    /\ Len(tried) <= Len(resolved)
    /\ \A i \in 1 .. Len(tried) : tried[i] = resolved[i]
    /\ server # NoClient => /\ Len(tried) < Len(resolved)
                            /\ server = resolved[Len(tried) + 1]
    /\ pc \in {"handshake", "tproxy", "request", "resolve", "bind", "udp"} =>
          resolved = <<>> /\ tried = <<>> /\ server = NoClient
    /\ pc = "connect" =>
          /\ server = NoClient /\ addrs # <<>>
          /\ Len(tried) + Len(addrs) = Len(resolved)
          /\ \A i \in 1 .. Len(addrs) : addrs[i] = resolved[Len(tried) + i]

\* The last of two replies is true
Honest ==
    \/ replies \in {<<>>, <<"NoMethod">>, <<"Method">>}
    \/ replies = <<"Method", "Success">> /\ (request.cmd # 1 \/ server # NoClient)
    \/ replies = <<"Method", "ConnectionRefused">> /\ tried = resolved /\ resolved # <<>>
    \/ replies = <<"Method", "HostUnreachable">> /\ tried = <<>> /\ <<>> \in resolve_all(request)

Before == {"handshake", "tproxy", "request", "resolve", "bind", "connect", "relay"}

\* What was written at each place
Protocol ==
    /\ pc \in Before \cup {"udp", "closed"}
    /\ pc \in {"handshake", "tproxy"} => replies = <<>> /\ request = NoRequest
    /\ pc \in {"request", "resolve", "bind", "connect"} => replies = <<"Method">>
    /\ pc \in {"resolve", "connect"} => request \in Request
    /\ pc \in {"bind", "udp"} => request.cmd = 3
    /\ pc = "relay" => \/ replies = <<"Method", "Success">>
                       \/ replies = <<>> /\ request = NoRequest
    /\ pc = "udp" => replies = <<"Method", "Success">>

SessionInv == Candidates /\ Honest /\ Protocol

\* Before the association the relay has neither received nor sent anything
ProxyInv ==
    /\ RelayInv
    /\ SessionInv
    /\ pc \in Before => /\ relay = "off" /\ client = NoClient
                        /\ received = <<>> /\ sent = <<>>

\* The invariant contains the property.
LEMMA SessionInvImplies == SessionInv => ReplyIsTrue
<1> SUFFICES ASSUME SessionInv PROVE ReplyIsTrue
  OBVIOUS
<1>1. /\ resolved \in Seq(Host) /\ tried \in Seq(Host) /\ Ordered(resolved)
      /\ Len(tried) <= Len(resolved) /\ \A i \in 1 .. Len(tried) : tried[i] = resolved[i]
      /\ server # NoClient => Len(tried) < Len(resolved) /\ server = resolved[Len(tried) + 1]
  BY DEF SessionInv, Candidates
<1>2. /\ Len(resolved) \in Nat /\ Len(tried) \in Nat
      /\ DOMAIN resolved = 1 .. Len(resolved) /\ DOMAIN tried = 1 .. Len(tried)
  BY <1>1
<1>3. /\ Len(replies) <= 2
      /\ Len(replies) = 2 =>
           /\ replies[1] = "Method"
           /\ replies[Len(replies)] = "Success" /\ request.cmd = 1 =>
                 server = resolved[Len(tried) + 1]
           /\ replies[Len(replies)] = "ConnectionRefused" => tried = resolved /\ resolved # <<>>
           /\ replies[Len(replies)] = "HostUnreachable" =>
                 tried = <<>> /\ <<>> \in resolve_all(request)
  <2>1. CASE replies \in {<<>>, <<"NoMethod">>, <<"Method">>}
    <3>1. Len(<<>>) = 0 /\ Len(<<"NoMethod">>) = 1 /\ Len(<<"Method">>) = 1
      OBVIOUS
    <3>2. Len(replies) = 0 \/ Len(replies) = 1
      BY <3>1, <2>1
    <3>3. \A k : k = 0 \/ k = 1 => k <= 2 /\ ~(k = 2)
      OBVIOUS
    <3>4. Len(replies) <= 2 /\ ~(Len(replies) = 2)
      BY <3>2, <3>3, Zenon
    <3> QED
      BY <3>4, Zenon
  <2>2. CASE replies = <<"Method", "Success">> /\ (request.cmd # 1 \/ server # NoClient)
    BY <2>2, <1>1
  <2>3. CASE replies = <<"Method", "ConnectionRefused">> /\ tried = resolved /\ resolved # <<>>
    BY <2>3
  <2>4. CASE replies = <<"Method", "HostUnreachable">> /\ tried = <<>> /\ <<>> \in resolve_all(request)
    BY <2>4
  <2> QED
    BY <2>1, <2>2, <2>3, <2>4 DEF SessionInv, Honest
<1>4. \A i, j \in DOMAIN tried : tried[i] \in V6 /\ tried[j] \notin V6 => j < i
  <2> SUFFICES ASSUME NEW i \in 1 .. Len(tried), NEW j \in 1 .. Len(tried),
                      tried[i] \in V6, tried[j] \notin V6
               PROVE  j < i
    BY <1>2
  <2>1. i \in 1 .. Len(resolved) /\ j \in 1 .. Len(resolved)
    BY <1>1, <1>2
  <2>2. resolved[i] \in V6 /\ resolved[j] \notin V6
    BY <1>1
  <2>3. ~(i < j) /\ i # j
    BY <2>1, <2>2, <1>1 DEF Ordered
  <2> QED
    BY <2>1, <2>3, <1>2
<1>5. server \in V6 => \A i \in DOMAIN resolved : resolved[i] \notin V6 =>
                           \E j \in DOMAIN tried : tried[j] = resolved[i]
  <2> SUFFICES ASSUME server \in V6, NEW i \in 1 .. Len(resolved), resolved[i] \notin V6
               PROVE  \E j \in DOMAIN tried : tried[j] = resolved[i]
    BY <1>2
  <2>1. server # NoClient
    BY HostAssumption
  <2>2. Len(tried) + 1 \in 1 .. Len(resolved) /\ resolved[Len(tried) + 1] \in V6
    BY <2>1, <1>1, <1>2
  <2>3. ~(Len(tried) + 1 < i) /\ i # Len(tried) + 1
    BY <2>2, <1>1 DEF Ordered
  <2>4. i \in 1 .. Len(tried)
    BY <2>3, <1>2
  <2> QED
    BY <2>4, <1>1, <1>2
<1>6. (pc \in {"relay", "udp"} /\ request # NoRequest) => replies = <<"Method", "Success">>
  BY DEF SessionInv, Protocol
<1> QED
  BY <1>3, <1>4, <1>5, <1>6 DEF ReplyIsTrue

\* resolve_all gives addresses, IPv4 before IPv6.
LEMMA ResolvedInOrder ==
    ASSUME NEW r \in Request, NEW list \in resolve_all(r)
    PROVE  list \in Seq(Host) /\ Ordered(list)
<1>1. CASE r.kind # "domain"
  <2>1. list = <<r.dest>> /\ r.dest \in Host
    BY <1>1, RequestAssumption DEF resolve_all
  <2>2. list \in Seq(Host) /\ Len(list) = 1
    BY <2>1
  <2> QED
    BY <2>2 DEF Ordered
<1>2. CASE r.kind = "domain"
  <2>1. PICK old \in Lookup(r.dest) : list \in PreferIpv4(old)
    BY <1>2 DEF resolve_all
  <2>2. old \in Seq(Host)
    BY <1>2, RequestAssumption
  <2> DEFINE n == Len(old)
  <2>3. n \in Nat /\ DOMAIN old = 1 .. n /\ \A i \in 1 .. n : old[i] \in Host
    BY <2>2
  <2> HIDE DEF n
  <2>4. PICK p \in [1 .. n -> 1 .. n] :
            /\ \A i, j \in 1 .. n : i < j =>
                  IF old[p[i]] \in V6 <=> old[p[j]] \in V6 THEN p[i] < p[j] ELSE old[p[j]] \in V6
            /\ list = [i \in 1 .. n |-> old[p[i]]]
    BY <2>1, <2>3 DEF PreferIpv4
  <2>5. list \in [1 .. n -> Host]
    BY <2>3, <2>4
  <2>6. list \in Seq(Host) /\ Len(list) = n
    BY <2>3, <2>5, SeqDef, LenProperties
  <2>7. \A i, j \in 1 .. n : i < j /\ list[i] \in V6 => list[j] \in V6
    BY <2>4
  <2> QED
    BY <2>6, <2>7 DEF Ordered
<1> QED
  BY <1>1, <1>2

-----------------------------------------------------------------------------
(* The steps of the session *)

\* The account of the relay depends on the variables of the relay only.
LEMMA RelayInvUnchanged == RelayInv /\ UNCHANGED relayVars => RelayInv'
  BY DEF RelayInv, relayVars

\* The relay has an empty account before it is bound.
LEMMA RelayInvInit ==
    /\ received = <<>> /\ sent = <<>>
    /\ client = NoClient /\ relay \in {"off", "recv"}
    => RelayInv
<1> SUFFICES ASSUME received = <<>>, sent = <<>>, client = NoClient, relay \in {"off", "recv"}
             PROVE  RelayInv
  OBVIOUS
<1>1. received \in Seq(Message) /\ sent \in Seq(Sendable) /\ Len(received) = 0 /\ Len(sent) = 0
  OBVIOUS
<1>2. Owns(received, client)
  BY <1>1 DEF Owns
<1>3. Settled(sent, received, client, 0)
  <2> DEFINE f == [j \in 1 .. 0 |-> 0]
  <2>1. f \in [1 .. 0 -> 1 .. 0]
    OBVIOUS
  <2>2. \A j \in 1 .. 0 : FALSE
    OBVIOUS
  <2>3. \E g \in [1 .. 0 -> 1 .. 0] :
            /\ \A j, k \in 1 .. 0 : j < k => g[j] < g[k]
            /\ \A j \in 1 .. 0 : sent[j] \in Owed(received, client, g[j])
            /\ \A i \in 1 .. 0 : Owed(received, client, i) = {} \/ \E j \in 1 .. 0 : g[j] = i
    BY <2>1, <2>2, Zenon
  <2>4. 0 \in 0 .. Len(received) /\ 1 .. Len(sent) = 1 .. 0
    BY <1>1
  <2> QED
    BY <2>3, <2>4, Zenon DEF Settled
<1> QED
  BY <1>1, <1>2, <1>3 DEF RelayInv

\* Writing a reply or ending at the beginning.
LEMMA HandshakeKeeps ==
    ASSUME ProxyInv, NEW ver, NEW methods, handshake(ver, methods)
    PROVE  ProxyInv'
<1>1. /\ pc = "handshake" /\ replies = <<>>
      /\ UNCHANGED <<relayVars, gone, request, addrs, resolved, tried, server, open>>
      /\ \/ pc' = "closed" /\ replies' = <<>>
         \/ pc' = "closed" /\ replies' = <<"NoMethod">>
         \/ pc' = "request" /\ replies' = <<"Method">>
  BY DEF handshake, Close, Reply, ProxyInv, SessionInv, Protocol
<1>2. Candidates'
  BY <1>1 DEF ProxyInv, SessionInv, Candidates
<1>3. Honest' /\ Protocol'
  BY <1>1 DEF ProxyInv, SessionInv, Honest, Protocol, Before
<1>4. RelayInv'
  BY <1>1, RelayInvUnchanged DEF ProxyInv
<1> QED
  BY <1>1, <1>2, <1>3, <1>4 DEF ProxyInv, SessionInv, Before, relayVars

\* The request decides what follows.
LEMMA ReadRequestKeeps ==
    ASSUME ProxyInv, NEW r \in Request, read_request(r)
    PROVE  ProxyInv'
<1>1. /\ pc = "request" /\ replies = <<"Method">> /\ request' = r
      /\ UNCHANGED <<relayVars, gone, addrs, resolved, tried, server, open, replies>>
      /\ \/ pc' = "closed"
         \/ pc' = "resolve" /\ r.cmd = 1
         \/ pc' = "bind" /\ r.cmd = 3
  BY DEF read_request, ProxyInv, SessionInv, Protocol
<1>2. Candidates'
  BY <1>1 DEF ProxyInv, SessionInv, Candidates
<1>3. Honest' /\ Protocol'
  BY <1>1 DEF ProxyInv, SessionInv, Honest, Protocol, Before
<1>4. RelayInv'
  BY <1>1, RelayInvUnchanged DEF ProxyInv
<1> QED
  BY <1>1, <1>2, <1>3, <1>4 DEF ProxyInv, SessionInv, Before, relayVars

\* The candidates are what resolve_all returned, none of them tried.
LEMMA ResolveKeeps ==
    ASSUME ProxyInv, Resolve
    PROVE  ProxyInv'
<1>1. /\ pc = "resolve" /\ replies = <<"Method">> /\ request \in Request
      /\ tried = <<>> /\ server = NoClient /\ tried \in Seq(Host)
      /\ resolved' \in resolve_all(request) /\ addrs' = resolved'
      /\ UNCHANGED <<relayVars, gone, request, tried, server, open>>
  BY DEF Resolve, ProxyInv, SessionInv, Protocol, Candidates
<1>2. resolved' \in Seq(Host) /\ Ordered(resolved')
  BY <1>1, ResolvedInOrder
<1>3. RelayInv'
  BY <1>1, RelayInvUnchanged DEF ProxyInv
<1>4. /\ Len(tried') = 0 /\ Len(resolved') \in Nat
      /\ \A i \in 1 .. Len(addrs') : addrs'[i] = resolved'[Len(tried') + i]
  BY <1>1, <1>2
<1>5. CASE resolved' = <<>>
  <2>1. replies' = <<"Method", "HostUnreachable">> /\ pc' = "closed"
    BY <1>1, <1>5 DEF Resolve, Reply
  <2>2. Candidates'
    BY <2>1, <1>1, <1>2, <1>4 DEF Candidates
  <2>3. <<>> \in resolve_all(request)'
    BY <1>1, <1>5 DEF resolve_all, PreferIpv4
  <2>4. Honest' /\ Protocol'
    BY <2>1, <2>3, <1>1 DEF Honest, Protocol, Before
  <2> QED
    BY <2>1, <2>2, <2>4, <1>3 DEF ProxyInv, SessionInv, Before
<1>6. CASE resolved' # <<>>
  <2>1. pc' = "connect" /\ replies' = replies
    BY <1>6 DEF Resolve
  <2>2. Candidates'
    BY <2>1, <1>1, <1>2, <1>4, <1>6 DEF Candidates
  <2>3. Honest' /\ Protocol'
    BY <2>1, <1>1 DEF Honest, Protocol, Before
  <2> QED
    BY <2>1, <2>2, <2>3, <1>1, <1>3 DEF ProxyInv, SessionInv, Before, relayVars
<1> QED
  BY <1>5, <1>6

\* The reply to the request follows the one to the handshake.
LEMMA SecondReply ==
    ASSUME NEW code
    PROVE  Append(<<"Method">>, code) = <<"Method", code>>
<1> DEFINE S == {"Method", code}
           s == Append(<<"Method">>, code)
           t == <<"Method", code>>
<1>1. <<"Method">> \in Seq(S) /\ code \in S
  OBVIOUS
<1>2. s \in Seq(S) /\ Len(s) = 2 /\ s[1] = "Method" /\ s[2] = code
  BY <1>1, AppendProperties
<1>3. t \in Seq(S) /\ Len(t) = 2 /\ t[1] = "Method" /\ t[2] = code
  OBVIOUS
<1> HIDE DEF S, s, t
<1>4. \A i \in 1 .. 2 : s[i] = t[i]
  <2>1. \A i \in 1 .. 2 : i = 1 \/ i = 2
    OBVIOUS
  <2> QED
    BY <2>1, <1>2, <1>3, Zenon
<1>5. s = t
  BY <1>2, <1>3, <1>4, SeqEqual
<1> QED
  BY <1>5 DEF s, t

\* A candidate accepts, or fails and the next is tried.
LEMMA ConnectKeeps ==
    ASSUME ProxyInv, Connect
    PROVE  ProxyInv'
<1> DEFINE n == Len(tried)
           a == Head(addrs)
<1>1. /\ pc = "connect" /\ replies = <<"Method">> /\ request \in Request
      /\ resolved \in Seq(Host) /\ tried \in Seq(Host) /\ addrs \in Seq(Host)
      /\ Ordered(resolved) /\ \A i \in 1 .. n : tried[i] = resolved[i]
      /\ server = NoClient /\ addrs # <<>> /\ n + Len(addrs) = Len(resolved)
      /\ \A i \in 1 .. Len(addrs) : addrs[i] = resolved[n + i]
      /\ addrs' = Tail(addrs)
      /\ UNCHANGED <<relayVars, gone, request, resolved>>
  BY DEF Connect, ProxyInv, SessionInv, Protocol, Candidates
<1>2. /\ n \in Nat /\ Len(resolved) \in Nat /\ Len(addrs) \in Nat \ {0}
      /\ a \in Host /\ a = addrs[1]
      /\ addrs' \in Seq(Host) /\ Len(addrs') = Len(addrs) - 1
      /\ \A i \in 1 .. Len(addrs) - 1 : addrs'[i] = addrs[i + 1]
  BY <1>1, HeadTailProperties
<1>3. a = resolved[n + 1] /\ n < Len(resolved) /\ a # NoClient
  BY <1>1, <1>2, HostAssumption
<1>4. RelayInv'
  BY <1>1, RelayInvUnchanged DEF ProxyInv
<1>5. relay' = "off" /\ client' = NoClient /\ received' = <<>> /\ sent' = <<>>
  BY <1>1 DEF ProxyInv, Before, relayVars
<1>6. CASE server' = a /\ Reply("Success", "relay") /\ UNCHANGED tried
  <2>1. replies' = <<"Method", "Success">> /\ pc' = "relay" /\ server' # NoClient
    <3>1. replies = <<"Method">> /\ replies' = Append(replies, "Success") /\ pc' = "relay"
      BY <1>1, <1>6 DEF Reply
    <3>2. server' # NoClient
      BY <1>3, <1>6
    <3> QED
      BY <3>1, <3>2, SecondReply, Zenon
  <2>2. /\ tried' = tried /\ resolved' = resolved
        /\ server' \in Host /\ server' = resolved[n + 1]
    BY <1>1, <1>2, <1>3, <1>6
  <2>3. Len(tried) <= Len(resolved) /\ Len(tried) < Len(resolved)
    BY <1>2, <1>3
  <2>4. Candidates'
    BY <2>1, <2>2, <2>3, <1>1, <1>2 DEF Candidates
  <2>5. Honest' /\ Protocol'
    BY <2>1 DEF Honest, Protocol, Before
  <2> QED
    BY <2>4, <2>5, <1>4, <1>5 DEF ProxyInv, SessionInv
<1>7. CASE tried' = Append(tried, a) /\ UNCHANGED <<server, open>>
           /\ (IF Len(addrs) = 1 THEN Reply("ConnectionRefused", "closed")
               ELSE UNCHANGED <<pc, replies>>)
  <2> HIDE DEF a
  <2>1. /\ tried' \in Seq(Host) /\ Len(tried') = n + 1 /\ tried'[n + 1] = a
        /\ \A i \in 1 .. n : tried'[i] = tried[i]
    BY <1>1, <1>2, <1>7, AppendProperties
  <2> HIDE DEF n
  <2>2. \A i \in 1 .. n + 1 : tried'[i] = resolved[i]
    <3> SUFFICES ASSUME NEW i \in 1 .. n + 1 PROVE tried'[i] = resolved[i]
      OBVIOUS
    <3>1. i \in 1 .. n \/ i = n + 1
      BY <1>2
    <3> QED
      BY <3>1, <2>1, <1>1, <1>3
  <2>3. \A i \in 1 .. Len(addrs') : addrs'[i] = resolved[n + 1 + i]
    <3> SUFFICES ASSUME NEW i \in 1 .. Len(addrs) - 1 PROVE addrs'[i] = resolved[n + 1 + i]
      BY <1>2
    <3>1. i + 1 \in 1 .. Len(addrs) /\ n + (i + 1) = n + 1 + i
      BY <1>2
    <3>2. addrs[i + 1] = resolved[n + (i + 1)]
      BY <3>1, <1>1
    <3> QED
      BY <3>1, <3>2, <1>2
  <2>4. CASE Len(addrs) = 1
    <3>1. replies' = <<"Method", "ConnectionRefused">> /\ pc' = "closed"
      BY <1>1, <1>7, <2>4 DEF Reply
    <3>2. Len(resolved) = n + 1 /\ resolved' = resolved /\ resolved # <<>>
      BY <1>1, <1>2, <2>4
    <3>3. tried' = resolved'
      BY <3>2, <2>1, <2>2, <1>1, SeqEqual
    <3>4. Candidates'
      BY <3>1, <3>2, <2>1, <2>2, <1>1, <1>2, <1>7 DEF Candidates
    <3>5. Honest' /\ Protocol'
      BY <3>1, <3>2, <3>3 DEF Honest, Protocol, Before
    <3> QED
      BY <3>4, <3>5, <1>4, <1>5 DEF ProxyInv, SessionInv
  <2>5. CASE Len(addrs) # 1
    <3>1. pc' = "connect" /\ replies' = <<"Method">>
      BY <1>1, <1>7, <2>5
    <3>2. Len(addrs') # 0 /\ n + 1 + Len(addrs') = Len(resolved) /\ n + 1 <= Len(resolved)
      BY <1>1, <1>2, <2>5
    <3>3. addrs' # <<>>
      BY <3>2
    <3>4. Candidates'
      BY <3>1, <3>2, <3>3, <2>1, <2>2, <2>3, <1>1, <1>2, <1>7 DEF Candidates
    <3>5. Honest' /\ Protocol'
      BY <3>1, <1>1 DEF Honest, Protocol, Before
    <3> QED
      BY <3>4, <3>5, <1>4, <1>5 DEF ProxyInv, SessionInv
  <2> QED
    BY <2>4, <2>5
<1> QED
  BY <1>6, <1>7 DEF Connect

\* The relay is bound with an empty account.
LEMMA BindKeeps ==
    ASSUME ProxyInv, Bind
    PROVE  ProxyInv'
<1>1. /\ pc = "bind" /\ replies = <<"Method">> /\ request.cmd = 3
      /\ relay = "off" /\ client = NoClient /\ received = <<>> /\ sent = <<>>
      /\ UNCHANGED <<client, received, sent, request, addrs, resolved, tried, server>>
  BY DEF Bind, ProxyInv, SessionInv, Protocol, Before
<1>2. \/ replies' = <<"Method", "Success">> /\ pc' = "udp" /\ relay' = "recv"
      \/ replies' = <<"Method">> /\ pc' = "closed" /\ relay' = "off"
  BY <1>1 DEF Bind, Reply, Close
<1>3. RelayInv'
  <2>1. (/\ received = <<>> /\ sent = <<>>
         /\ client = NoClient /\ relay \in {"off", "recv"}
         => RelayInv)'
    BY RelayInvInit, PTL
  <2> QED
    BY <2>1, <1>1, <1>2
<1>4. Candidates'
  BY <1>1, <1>2 DEF ProxyInv, SessionInv, Candidates
<1>5. Honest' /\ Protocol'
  BY <1>1, <1>2 DEF Honest, Protocol, Before
<1> QED
  BY <1>2, <1>3, <1>4, <1>5 DEF ProxyInv, SessionInv, Before

\* The end, which may come at any place, and the relay of a connection change
\* neither the candidates nor the replies.
LEMMA MoveKeeps ==
    ASSUME ProxyInv, UNCHANGED <<request, addrs, resolved, tried, server, replies>>,
           RelayInv',
           \/ pc' = pc /\ (pc \in Before => UNCHANGED relayVars)
           \/ pc' = "closed"
           \/ pc = "tproxy" /\ pc' = "relay" /\ UNCHANGED relayVars
    PROVE  ProxyInv'
<1>1. Candidates'
  BY DEF ProxyInv, SessionInv, Candidates
<1>2. Honest'
  BY DEF ProxyInv, SessionInv, Honest, resolve_all, PreferIpv4
<1>3. Protocol'
  BY DEF ProxyInv, SessionInv, Protocol, Before
<1> QED
  BY <1>1, <1>2, <1>3 DEF ProxyInv, SessionInv, Before, relayVars

\* Closing the relay keeps its account.
LEMMA RelayOff ==
    ASSUME RelayInv, relay' = "off", UNCHANGED <<client, received, sent>>
    PROVE  RelayInv'
  BY DEF RelayInv

\* Every step keeps the invariant.
LEMMA ProxyInvStep == ProxyInv /\ [Next]_vars => ProxyInv'
<1> SUFFICES ASSUME ProxyInv, [Next]_vars PROVE ProxyInv'
  OBVIOUS
<1>1. ASSUME NEW ver \in {4, 5}, NEW methods \in SUBSET {0, 2}, handshake(ver, methods)
      PROVE  ProxyInv'
  BY <1>1, HandshakeKeeps
<1>2. ASSUME NEW r \in Request, read_request(r) PROVE ProxyInv'
  BY <1>2, ReadRequestKeeps
<1>3. CASE Resolve
  BY <1>3, ResolveKeeps
<1>4. CASE Connect
  BY <1>4, ConnectKeeps
<1>5. CASE Bind
  BY <1>5, BindKeeps
<1>6. CASE RelayEnded \/ TcpRead
  <2>1. RelayInv'
    BY <1>6, RelayOff DEF RelayEnded, TcpRead, ProxyInv
  <2> QED
    BY <2>1, <1>6, MoveKeeps DEF RelayEnded, TcpRead, Close
<1>7. CASE RunRelay
  <2>1. RelayInv'
    BY <1>7, RunKeeps DEF RunRelay, ProxyInv
  <2>2. pc = "udp" /\ UNCHANGED sessionVars
    BY <1>7 DEF RunRelay
  <2> QED
    BY <2>1, <2>2, MoveKeeps DEF sessionVars, Before
<1>8. CASE Tproxy \/ StreamFails \/ RelayError \/ ClientCloses
  <2>1. RelayInv'
    BY <1>8, RelayInvUnchanged DEF Tproxy, StreamFails, RelayError, ClientCloses, ProxyInv
  <2> QED
    BY <2>1, <1>8, MoveKeeps DEF Tproxy, StreamFails, RelayError, ClientCloses, Close
<1>9. ASSUME NEW dir \in {"up", "down"}, RelayEof(dir) PROVE ProxyInv'
  <2>1. RelayInv'
    BY <1>9, RelayInvUnchanged DEF RelayEof, ProxyInv
  <2> QED
    BY <2>1, <1>9, MoveKeeps DEF RelayEof
<1>10. CASE UNCHANGED vars
  <2>1. RelayInv'
    BY <1>10, RelayInvUnchanged DEF vars, ProxyInv
  <2> QED
    BY <2>1, <1>10, MoveKeeps DEF vars, sessionVars
<1> QED
  BY <1>1, <1>2, <1>3, <1>4, <1>5, <1>6, <1>7, <1>8, <1>9, <1>10 DEF Next, Session

\* A session starts with nothing received, sent or written.
LEMMA ProxyInvInit == Init => ProxyInv
<1> SUFFICES ASSUME Init PROVE ProxyInv
  OBVIOUS
<1>1. RelayInv
  BY RelayInvInit DEF Init, RelayInit
<1>2. SessionInv
  BY DEF Init, SessionInv, Candidates, Ordered, Honest, Protocol, Before
<1> QED
  BY <1>1, <1>2 DEF ProxyInv, Init, RelayInit

LEMMA ProxyInvariant == Spec => []ProxyInv
  BY ProxyInvInit, ProxyInvStep, PTL DEF Spec

\* The UDP relay sends, in order, what it owes for the datagrams it received and
\* nothing else, to and from the first that spoke SOCKS5, whatever arrives from
\* whom and wherever the association ends (relay/udp.rs).
THEOREM RelaysFaithfully == Spec => []RelayIsFaithful
<1>1. ProxyInv => RelayIsFaithful
  BY RelayInvImplies DEF ProxyInv
<1> QED
  BY <1>1, ProxyInvariant, PTL

\* The replies of a session tell what happened: handshake, resolution, the
\* attempts to connect, in the order of preference (inbounds/socks5.rs).
THEOREM RepliesTruthfully == Spec => []ReplyIsTrue
<1>1. ProxyInv => ReplyIsTrue
  BY SessionInvImplies DEF ProxyInv
<1> QED
  BY <1>1, ProxyInvariant, PTL
=============================================================================
