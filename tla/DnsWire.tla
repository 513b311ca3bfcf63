------------------------------ MODULE DnsWire ------------------------------
(***************************************************************************)
(* The wire format of toolkit/dnsresolver (message.rs) as operators on     *)
(* sequences of bytes.  Offsets count from 0 as in the code.  A string is  *)
(* the sequence of its bytes; an Option is a set of at most one value, and *)
(* a decoder returns its value with the offset behind it.                  *)
(* RData keeps its fields as sequences: ip or raw bytes, numbers, names.   *)
(* The state is the datagram a socket hands over: noise of any kind, or a  *)
(* message of this program or of a server that compresses, whole or cut.   *)
(***************************************************************************)
EXTENDS Integers, Sequences

LOCAL INSTANCE SequencesExt
LOCAL INSTANCE FiniteSetsExt

CONSTANTS
    Bytes,      \* byte values in noise
    WireLen,    \* longest noise
    Messages    \* messages written by one side and read by the other

\* Noise is shorter than a header, so it is never a message.
ASSUME WireLenAssumption == WireLen \in 0 .. 11

VARIABLES
    packet,     \* the datagram
    said        \* {the message it carries}, or {} for noise and what is cut
vars == <<packet, said>>

Dot == 46
None == {}
Some(v, off) == {[v |-> v, off |-> off]}

At(msg, off) == msg[off + 1]
Slice(msg, off, n) == SubSeq(msg, off + 1, off + n)

\* to_be_bytes and from_be_bytes of an integer of k bytes
Be(n, k) == [i \in 1 .. k |-> (n \div 256 ^ (k - i)) % 256]
Num(bytes) == FoldLeft(LAMBDA a, b : a * 256 + b, 0, bytes)

Lower(s) == [i \in DOMAIN s |-> IF s[i] \in 65 .. 90 THEN s[i] + 32 ELSE s[i]]

-----------------------------------------------------------------------------
(* Names *)

\* name.split('.') without the empty labels
Labels(name) ==
    LET push(p) == IF p.cur = <<>> THEN p.done ELSE Append(p.done, p.cur)
        p == FoldLeft(LAMBDA a, b : IF b = Dot THEN [done |-> push(a), cur |-> <<>>]
                                    ELSE [a EXCEPT !.cur = Append(@, b)],
                      [done |-> <<>>, cur |-> <<>>], name)
    IN push(p)

Join(labels) ==
    IF labels = <<>> THEN <<Dot>> ELSE FlattenSeq([i \in DOMAIN labels |-> Append(labels[i], Dot)])

\* Mutant: no byte 0 for the root
encode_name_no_end(name) ==
    LET ls == Labels(name)
    IN FlattenSeq([i \in DOMAIN ls |-> <<Len(ls[i]) % 256>> \o ls[i]])

encode_name(name) ==
    LET ls == Labels(name)
    IN FlattenSeq([i \in DOMAIN ls |-> <<Len(ls[i]) % 256>> \o ls[i]]) \o <<0>>

\* Mutant: the offset after a pointer is where the pointed name ends
Consumed_after_jump(jump_end, off) == off

\* Where the name ends in the message: behind the first pointer, if any
\* (-1: no jump)
Consumed(jump_end, off) == IF jump_end >= 0 THEN jump_end ELSE off

\* str::from_utf8: characters of one to four bytes, none longer than it needs
\* to be, no surrogates, nothing above U+10FFFF
More == 128 .. 191
IsChar(c) ==
    /\ \A i \in 2 .. Len(c) : c[i] \in More
    /\ \/ Len(c) = 1 /\ c[1] < 128
       \/ Len(c) = 2 /\ c[1] \in 194 .. 223
       \/ Len(c) = 3 /\ c[1] \in 224 .. 239 /\ (c[1] = 224 => c[2] >= 160) /\ (c[1] = 237 => c[2] < 160)
       \/ Len(c) = 4 /\ c[1] \in 240 .. 244 /\ (c[1] = 240 => c[2] >= 144) /\ (c[1] = 244 => c[2] < 144)
IsUtf8(label) ==
    LET starts == {i \in DOMAIN label : label[i] \notin More}
        next(i) == Min({j \in starts : j > i} \cup {Len(label) + 1})
    IN  /\ label # <<>> => 1 \in starts
        /\ \A i \in starts : IsChar(SubSeq(label, i, next(i) - 1))

\* The loop of decode_name
RECURSIVE Walk(_, _, _, _, _)
Walk(msg, off, labels, visited, jump_end) ==
    LET len == At(msg, off)
        ptr == Num(Slice(msg, off, 2)) % 16384
        label == Slice(msg, off + 1, len)
    IN IF off >= Len(msg) THEN None
       ELSE IF len = 0 THEN Some(Join(labels), Consumed(jump_end, off + 1))
       ELSE IF len >= 192
       THEN IF off + 1 >= Len(msg) \/ ptr \in visited THEN None
            ELSE Walk(msg, ptr, labels, visited \cup {ptr}, IF jump_end >= 0 THEN jump_end ELSE off + 2)
       ELSE IF off + 1 + len > Len(msg) \/ ~IsUtf8(label) THEN None
            ELSE Walk(msg, off + 1 + len, Append(labels, Lower(label)), visited, jump_end)

decode_name(msg, start) == Walk(msg, start, <<>>, {}, -1)

-----------------------------------------------------------------------------
(* Header, questions and records *)

encode_header(h) == FlattenSeq([i \in 1 .. 6 |-> Be(h[i], 2)])
decode_header(msg) ==
    IF Len(msg) < 12 THEN None ELSE {[i \in 1 .. 6 |-> Num(Slice(msg, 2 * (i - 1), 2))]}

encode_question(q) == encode_name(q.qname) \o Be(q.qtype, 2) \o Be(q.qclass, 2)
decode_question(msg, off) ==
    {[v |-> [qname |-> n.v, qtype |-> Num(Slice(msg, n.off, 2)), qclass |-> Num(Slice(msg, n.off + 2, 2))],
      off |-> n.off + 4] : n \in {x \in decode_name(msg, off) : x.off + 4 <= Len(msg)}}

RData(bytes, nums, names) == [bytes |-> bytes, nums |-> nums, names |-> names]

encode_rdata(rtype, d) ==
    CASE rtype \in {2, 5} -> encode_name(d.names[1])
      [] rtype = 15 -> Be(d.nums[1], 2) \o encode_name(d.names[1])
      [] rtype = 6 -> encode_name(d.names[1]) \o encode_name(d.names[2])
                      \o FlattenSeq([i \in 1 .. 5 |-> Be(d.nums[i], 4)])
      [] OTHER -> d.bytes

\* An Option of RData; names in it may point anywhere into the message
decode_rdata(msg, rtype, start, len) ==
    LET s == Slice(msg, start, len)
        soa(m) == {RData(<<>>, [i \in 1 .. 5 |-> Num(Slice(msg, r.off + 4 * (i - 1), 4))], <<m.v, r.v>>) :
                       r \in {x \in decode_name(msg, m.off) : x.off + 20 <= start + len}}
    IN CASE rtype = 1 -> IF len < 4 THEN None ELSE {RData(SubSeq(s, 1, 4), <<>>, <<>>)}
         [] rtype = 28 -> IF len < 16 THEN None ELSE {RData(SubSeq(s, 1, 16), <<>>, <<>>)}
         [] rtype \in {2, 5} -> {RData(<<>>, <<>>, <<n.v>>) : n \in decode_name(msg, start)}
         [] rtype = 15 -> IF len < 3 THEN None
                          ELSE {RData(<<>>, <<Num(SubSeq(s, 1, 2))>>, <<n.v>>) :
                                    n \in decode_name(msg, start + 2)}
         [] rtype = 6 -> UNION {soa(m) : m \in decode_name(msg, start)}
         [] OTHER -> {RData(s, <<>>, <<>>)}

encode_rr(rr) ==
    LET d == encode_rdata(rr.rtype, rr.rdata)
    IN encode_name(rr.name) \o Be(rr.rtype, 2) \o Be(rr.class, 2) \o Be(rr.ttl, 4) \o Be(Len(d), 2) \o d

decode_rr(msg, off) ==
    LET data(n, rtype, len) ==
            {[v |-> [name |-> n.v, rtype |-> rtype, class |-> Num(Slice(msg, n.off + 2, 2)),
                     ttl |-> Num(Slice(msg, n.off + 4, 4)), rdata |-> d],
              off |-> n.off + 10 + len] :
                 d \in IF n.off + 10 + len > Len(msg) THEN None ELSE decode_rdata(msg, rtype, n.off + 10, len)}
    IN UNION {data(n, Num(Slice(msg, n.off, 2)), Num(Slice(msg, n.off + 8, 2))) :
                  n \in {x \in decode_name(msg, off) : x.off + 10 <= Len(msg)}}

-----------------------------------------------------------------------------
(* Messages *)

\* The questions and the records, one after the other: h is the header
Items(msg, h) ==
    LET item(i, off) == IF i <= h[3] THEN decode_question(msg, off) ELSE decode_rr(msg, off)
        then(a, i) == {[v |-> Append(a.v, r.v), off |-> r.off] : r \in item(i, a.off)}
    IN FoldLeft(LAMBDA acc, i : UNION {then(a, i) : a \in acc},
                Some(<<>>, 12), [i \in 1 .. h[3] + h[4] + h[5] + h[6] |-> i])

\* What was read, by the sections the header h counts
Sections(h, items) ==
    [header |-> h,
     questions |-> SubSeq(items, 1, h[3]),
     answers |-> SubSeq(items, h[3] + 1, h[3] + h[4]),
     authorities |-> SubSeq(items, h[3] + h[4] + 1, h[3] + h[4] + h[5]),
     additionals |-> SubSeq(items, h[3] + h[4] + h[5] + 1, Len(items))]

decode_message(msg) ==
    UNION {{Sections(h, items.v) : items \in Items(msg, h)} : h \in decode_header(msg)}

encode_message(m) ==
    LET all(Encode(_), items) == FlattenSeq([i \in DOMAIN items |-> Encode(items[i])])
    IN encode_header(m.header) \o all(encode_question, m.questions)
       \o all(encode_rr, m.answers) \o all(encode_rr, m.authorities) \o all(encode_rr, m.additionals)

-----------------------------------------------------------------------------
(* What the codec is for *)

\* The reference: from an offset the bytes lead on, over labels and pointers,
\* in one way.  A name is there if that way comes to a zero byte; it then does
\* within as many steps as there are bytes.
NameAt(msg, start) ==
    LET Bad(o) == \/ o >= Len(msg)
                  \/ At(msg, o) >= 192 /\ o + 1 >= Len(msg)
                  \/ At(msg, o) < 192 /\ (o + At(msg, o) >= Len(msg)
                        \/ ~IsUtf8(Slice(msg, o + 1, At(msg, o))))
        Step(o) == IF At(msg, o) >= 192 THEN Num(Slice(msg, o, 2)) % 16384 ELSE o + 1 + At(msg, o)
        way[k \in 0 .. Len(msg)] ==
            IF k = 0 THEN start
            ELSE IF way[k - 1] = -1 THEN -1
            ELSE IF Bad(way[k - 1]) THEN -1
            ELSE IF At(msg, way[k - 1]) = 0 THEN way[k - 1] ELSE Step(way[k - 1])
        last == way[Len(msg)]
        visited == SelectSeq([k \in 1 .. Len(msg) |-> k - 1],
                             LAMBDA k : ~Bad(way[k]) /\ At(msg, way[k]) \in 1 .. 191)
        jumps == {k \in 0 .. Len(msg) : ~Bad(way[k]) /\ At(msg, way[k]) >= 192}
        end == IF jumps = {} THEN last + 1
               ELSE way[CHOOSE k \in jumps : \A j \in jumps : k <= j] + 2
    IN IF last = -1 THEN None
       ELSE IF Bad(last) THEN None
       ELSE IF At(msg, last) # 0 THEN None
       ELSE Some(Join([i \in DOMAIN visited |->
                         Lower(Slice(msg, way[visited[i]] + 1, At(msg, way[visited[i]])))]), end)

\* A message as it is read back: names in lower case with a final dot
Canonical(name) == Lower(Join(Labels(name)))
CanonicalRR(rr) == [rr EXCEPT !.name = Canonical(@),
                              !.rdata.names = [i \in DOMAIN @ |-> Canonical(@[i])]]
CanonicalRRs(rrs) == [i \in DOMAIN rrs |-> CanonicalRR(rrs[i])]
CanonicalMessage(m) ==
    [header |-> m.header,
     questions |-> [i \in DOMAIN m.questions |-> [m.questions[i] EXCEPT !.qname = Canonical(@)]],
     answers |-> CanonicalRRs(m.answers), authorities |-> CanonicalRRs(m.authorities),
     additionals |-> CanonicalRRs(m.additionals)]

-----------------------------------------------------------------------------
(* Datagrams *)

Init == packet = <<>> /\ said = None

Noise(b) ==
    /\ said = None /\ Len(packet) < WireLen
    /\ packet' = Append(packet, b)
    /\ UNCHANGED said

\* send_to of an encoded query or response
Written(m) ==
    /\ packet = <<>>
    /\ packet' = encode_message(m)
    /\ said' = {CanonicalMessage(m)}

\* A server's response: every name that is the one of the question, owner or
\* the only name of the data, is a pointer to it.  The length of the data may
\* count extra bytes behind it, or, of data whose size is known, one too few.
AboutQuestion(m, rr) ==
    [rr EXCEPT !.name = m.questions[1].qname,
               !.rdata.names = IF rr.rtype \in {2, 5} THEN <<m.questions[1].qname>> ELSE @]
AnsweredRR(rr, extra, short) ==
    LET d == (IF rr.rtype \in {2, 5} THEN <<192, 12>> ELSE encode_rdata(rr.rtype, rr.rdata))
             \o (IF rr.rtype \in {1, 2, 5, 6, 15, 28} THEN extra ELSE <<>>)
    IN <<192, 12>> \o Be(rr.rtype, 2) \o Be(rr.class, 2) \o Be(rr.ttl, 4) \o Be(Len(d) - short, 2) \o d
Answered(m, extra, short) ==
    LET about(rrs) == [i \in DOMAIN rrs |-> AboutQuestion(m, rrs[i])]
        rrs == m.answers \o m.authorities \o m.additionals
    IN /\ packet = <<>> /\ m.questions # <<>>
       /\ short = 1 => extra = <<>> /\ rrs # <<>> /\ \A i \in DOMAIN rrs : rrs[i].rtype \in {1, 6, 28}
       /\ packet' = encode_header(m.header) \o encode_question(m.questions[1])
                    \o FlattenSeq([i \in DOMAIN rrs |-> AnsweredRR(rrs[i], extra, short)])
       /\ said' = IF short = 1 THEN None
                  ELSE {CanonicalMessage([m EXCEPT !.answers = about(@), !.authorities = about(@),
                                                   !.additionals = about(@)])}

\* The buffer given to recv_from is smaller than the datagram
Cut(n) ==
    /\ said # None
    /\ packet' = SubSeq(packet, 1, n)
    /\ said' = None

Next ==
    \/ \E b \in Bytes : Noise(b)
    \/ \E m \in Messages : \/ Written(m)
                           \/ \E extra \in {<<>>, <<0, 192>>}, short \in {0, 1} : Answered(m, extra, short)
    \/ \E n \in WireLen .. Len(packet) - 1 : Cut(n)

Spec == Init /\ [][Next]_vars

\* decode_name ends on every buffer, from every offset: it refuses loops of
\* pointers and labels or pointers that leave the buffer, and otherwise finds
\* the name that is there and where it ends in the message, whether or not
\* it was compressed (message.rs, decode_name).
NamesFound ==
    Len(packet) <= WireLen =>
        \A start \in 0 .. Len(packet) : decode_name(packet, start) = NameAt(packet, start)

\* A message is read as it was meant, with the names in lower case, by
\* whichever side and with whatever compression it was written, and bytes that a
\* record's length counts beyond its data are skipped; one that was cut, at any
\* byte, or whose records are too short for their data, is refused instead of
\* read in part (message.rs, decode_message against encode_message).
MessagesFaithful == decode_message(packet) = said
=============================================================================
