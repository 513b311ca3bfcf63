------------------------------- MODULE MCHttp -------------------------------
EXTENDS HttpServer

\* Requests: framing, length of the body, where its chunks end, before which
\* of them the size is no number, and what the back ends look at
Get == [framing |-> "none", len |-> 0, cuts |-> {}, bad |-> {}, trailer |-> FALSE, keep |-> TRUE,
        host |-> "localhost", auth |-> FALSE, etag |-> FALSE, range |-> NoRange]
Post(n) == [Get EXCEPT !.framing = "length", !.len = n, !.cuts = {n}, !.host = "files"]
Upload(n, cuts) == [Get EXCEPT !.framing = "chunked", !.len = n, !.cuts = cuts, !.host = "files"]
Ranged(from, to) ==
    [Get EXCEPT !.host = "files", !.range = [bytes |-> TRUE, from |-> from, to |-> to]]

MCScripts ==
    {<<Post(2), [Get EXCEPT !.keep = FALSE], Get>>,
     <<Upload(3, {2, 3}), Post(1)>>,
     <<[Upload(2, {1, 2}) EXCEPT !.bad = {1}]>>,
     <<[Upload(1, {1}) EXCEPT !.trailer = TRUE], Get, [Get EXCEPT !.framing = "junk"]>>,
     <<[Get EXCEPT !.host = "proxy"], [Get EXCEPT !.host = "files", !.etag = TRUE]>>}
    \cup {<<Ranged(f, t)>> : f \in {-1, 0, 1, 2, U64}, t \in {-1, 0, 1, 2, 3, U64 - 1, U64}}
    \cup {<<[Ranged(0, 1) EXCEPT !.range.bytes = FALSE]>>}

PipelineScripts == {<<Upload(1, {1}), Get, Get>>}

\* The symbols of a script, each after the one before
MCSent(s) ==
    LET symbol[k \in Nat] == IF k = 1 THEN First(s, 1) ELSE Succ(s, symbol[k - 1])
        n == CHOOSE m \in 0 .. 100 : symbol[m + 1] = End
    IN [k \in 1 .. n |-> symbol[k]]

Site(host, backend) == [port |-> PORT, host |-> host, backend |-> backend,
                        basic_auth |-> FALSE, rate_limit |-> FALSE]

\* A listener with a rate limit and a catch-all behind a password; one without
\* a limit and without a catch-all; sites of another port do not count
MCConfigs ==
    {<<Site("files", "file_server"), [Site("proxy", "reverse_proxy") EXCEPT !.rate_limit = TRUE],
       [Site(NoHost, "file_server") EXCEPT !.basic_auth = TRUE]>>,
     <<Site("files", "file_server"), [Site(NoHost, "file_server") EXCEPT !.port = PORT + 1]>>,
     <<Site(NoHost, "none")>>}
=============================================================================
