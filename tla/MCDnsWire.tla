----------------------------- MODULE MCDnsWire -----------------------------
(***************************************************************************)
(* Noise of lengths, letters, the first byte of pointers and the two bytes *)
(* of a character that is not ASCII (195 also begins a pointer), and       *)
(* messages with every kind of record the codec knows.                     *)
(***************************************************************************)
EXTENDS DnsWire

MCBytes == {0, 1, 2, 3, 65, 169, 192, 195}

com == <<67, 111, 109, Dot>>
a_com == <<97, Dot>> \o com
RR(name, rtype, rdata) == [name |-> name, rtype |-> rtype, class |-> 1, ttl |-> 300, rdata |-> rdata]
RRs == {RR(a_com, 1, RData(<<1, 2, 3, 4>>, <<>>, <<>>)),
        RR(<<Dot>>, 28, RData([i \in 1 .. 16 |-> i], <<>>, <<>>)),
        RR(com, 2, RData(<<>>, <<>>, <<a_com>>)),
        RR(a_com, 5, RData(<<>>, <<>>, <<<<Dot>>>>)),
        RR(com, 15, RData(<<>>, <<258>>, <<a_com>>)),
        RR(com, 6, RData(<<>>, <<1, 2, 65536, 4, 300>>, <<a_com, com>>)),
        RR(com, 16, RData(<<0, 192, 7>>, <<>>, <<>>)),
        RR(com, 16, RData(<<>>, <<>>, <<>>))}
Message(qs, an, au, ad) ==
    [header |-> <<4660, 33152, Len(qs), Len(an), Len(au), Len(ad)>>,
     questions |-> qs, answers |-> an, authorities |-> au, additionals |-> ad]
Question(n) == [qname |-> n, qtype |-> 1, qclass |-> 1]
MCMessages == {Message(<<>>, <<>>, <<>>, <<>>)}
    \cup {Message(<<Question(a_com)>>, <<r>>, <<s>>, <<r, s>>) : r \in RRs, s \in RRs}
=============================================================================
