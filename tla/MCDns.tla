------------------------------- MODULE MCDns -------------------------------
(***************************************************************************)
(* A small world for DnsResolver.  The root server answers for most names  *)
(* itself and refers those of "com" to another server.                     *)
(*   far    behind two name servers without glue: one does not exist, the  *)
(*          other is found by a recursive search                           *)
(*   self   behind a name server inside the zone, without glue             *)
(*   lame   behind a server that refers to itself or to a dead one         *)
(*   gone   does not exist;  bare  exists without an address               *)
(*   nick   an alias of gone                                               *)
(*   ring1, ring2  aliases of each other (ring2 also one of lame)          *)
(*   host   an address in com;  www  an alias of host in a zone of com     *)
(***************************************************************************)
EXTENDS DnsResolver

CONSTANTS
    Ttl, RootTtl,   \* time to live of the world's records and of the hints
    First           \* the thread that may be asked for every name

A(n, ip)   == [name |-> n, type |-> "A", data |-> ip, ttl |-> Ttl, minimum |-> 0]
NS(n, s)   == [name |-> n, type |-> "NS", data |-> s, ttl |-> Ttl, minimum |-> 0]
Cname(n, s) == [name |-> n, type |-> "CNAME", data |-> s, ttl |-> Ttl, minimum |-> 0]
Soa        == [name |-> ".", type |-> "SOA", data |-> "root.ns", ttl |-> Ttl, minimum |-> Ttl]

Msg(an, au, ad, rc) ==
    [answers |-> an, authorities |-> au, additionals |-> ad, rcode |-> rc]
Says(rr)         == Msg(<<rr>>, <<>>, <<>>, "NOERROR")
Refers(z, s, ip) == Msg(<<>>, <<NS(z, s)>>, <<A(s, ip)>>, "NOERROR")
NoGlue(z, ss)    == Msg(<<>>, [i \in 1 .. Len(ss) |-> NS(z, ss[i])], <<>>, "NOERROR")
NoData           == Msg(<<>>, <<Soa>>, <<>>, "NOERROR")
NoName           == Msg(<<>>, <<Soa>>, <<>>, "NXDOMAIN")
Refused          == Msg(<<>>, <<>>, <<>>, "REFUSED")

MCName == {".", "root.ns", "com", "com.ns", "w.ns", "host", "www", "far", "far.ns", "no.ns",
           "self", "self.ns", "dead.ns", "gone", "nick", "bare", "ring1", "ring2",
           "lame", "lame.ns"}
MCIp == {"ip.root", "ip.com", "ip.w", "ip.far", "ip.dead", "ip.lame", "addr"}
MCType == {"A", "NS", "CNAME", "SOA"}

MCRootHints == {[NS(".", "root.ns") EXCEPT !.ttl = RootTtl],
                [A("root.ns", "ip.root") EXCEPT !.ttl = RootTtl]}

FromRoot(n) ==
    CASE n \in {"host", "www"} -> {Refers("com", "com.ns", "ip.com")}
      [] n = "far"     -> {NoGlue("far", <<"no.ns", "far.ns">>)}
      [] n = "far.ns"  -> {Says(A("far.ns", "ip.far"))}
      [] n \in {"self", "self.ns"} -> {NoGlue("self", <<"self.ns">>)}
      [] n = "lame"    -> {Refers("lame", "lame.ns", "ip.lame")}
      [] n = "nick"    -> {Says(Cname("nick", "gone")),
                           Msg(<<Cname("nick", "gone")>>, <<Soa>>, <<>>, "NXDOMAIN")}
      [] n = "ring1"   -> {Says(Cname("ring1", "ring2"))}
      [] n = "ring2"   -> {Says(Cname("ring2", "ring1")), Says(Cname("ring2", "lame"))}
      [] n = "bare"    -> {NoData}
      [] n \in {"gone", "no.ns"} -> {NoName}
      [] OTHER         -> {Refused}

FromCom(n) ==
    CASE n = "host" -> {Says(A("host", "addr"))}
      [] n = "www"  -> {Refers("www", "w.ns", "ip.w")}
      [] OTHER      -> {Refused}

\* Only addresses are asked for
MCAnswer(ip, n, q) ==
    CASE q # "A"        -> {}
      [] ip = "ip.root" -> FromRoot(n)
      [] ip = "ip.com"  -> FromCom(n)
      [] ip = "ip.w" /\ n = "www" -> {Says(Cname("www", "host"))}
      [] ip = "ip.far" /\ n = "far" -> {Says(A("far", "addr"))}
      [] ip = "ip.lame" -> {Refers("lame", "lame.ns", "ip.lame"), Refers("lame", "dead.ns", "ip.dead")}
      [] OTHER          -> {}

\* The records of the world
Zones ==
    MCRootHints \cup
        UNION {RecordsOf(m.answers \o m.authorities \o m.additionals) :
                   m \in UNION {MCAnswer(ip, n, "A") : ip \in MCIp, n \in MCName}}

\* A name's own records and, behind an alias, those its chain leads to
Chain(n) ==
    CASE n = "www" -> {Cname("www", "host"), A("host", "addr")}
      [] n \in {"ring1", "ring2"} ->
            {Cname("ring1", "ring2"), Cname("ring2", "ring1"), Cname("ring2", "lame")}
      [] n = "nick" -> {Cname("nick", "gone")}
      [] OTHER -> {}
MCTruth(n, q) ==
    {rr \in Zones : rr.name = n /\ rr.type = q} \cup (IF q = "A" THEN Chain(n) ELSE {})

MCExisting == MCName \ {"gone", "no.ns"}

\* What each thread may be asked
Every(S)   == [t \in Thread |-> {<<n, "A">> : n \in S}]
MixedQuery == [Every({"far", "nick"}) EXCEPT
                  ![First] = {<<n, "A">> : n \in {"far", "nick", "ring1", "lame", "self"}}]
WwwQuery   == Every({"www"})
BareQuery  == Every({"bare"})
=============================================================================
