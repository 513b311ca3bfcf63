------------------------------ MODULE MCSocks5 ------------------------------
EXTENDS Socks5

\* Addresses: c is the client's, s and t are servers, x an IPv6 host.  A name
\* resolves to several addresses, to IPv6 only, or not at all.
MCLookup(name) == IF name = "host" THEN {<<"x", "s", "t">>, <<"t">>} ELSE {<<"x">>, <<>>}

D(id, frag, kind, name, dest, len) ==
    [id |-> id, frag |-> frag, kind |-> kind, name |-> name, dest |-> dest, len |-> len]

\* Whole datagrams of each address type, the shortest possible with a domain,
\* a fragment, a truncated header and an unknown type
MCDatagram ==
    {D(1, 0, "ipv4", 0, "s", 10), D(2, 0, "domain", 4, "host", 12), D(3, 0, "domain", 1, "host", 9),
     D(4, 0, "ipv6", 0, "x", 23), D(5, 1, "ipv4", 0, "s", 12), D(6, 0, "ipv6", 0, "x", 21),
     D(7, 0, "bad", 0, "s", 12), D(8, 0, "domain", 5, "none", 12)}

R(ver, cmd, kind, dest) == [ver |-> ver, cmd |-> cmd, kind |-> kind, dest |-> dest]

MCRequest ==
    {R(5, 1, "ipv4", "s"), R(5, 1, "ipv6", "x"), R(5, 1, "domain", "host"), R(5, 1, "domain", "none"),
     R(5, 3, "ipv4", "s"), R(5, 2, "ipv4", "s"), R(4, 1, "ipv4", "s"), R(5, 1, "bad", "s")}
=============================================================================
