---------------------------- MODULE DnsResolver ----------------------------
(***************************************************************************)
(* The recursive resolver of toolkit/dnsresolver: one thread per query     *)
(* (main.rs), iteration from the root servers down with recursion for name *)
(* servers that come without an address (resolve.rs), and the cache all    *)
(* threads share (cache.rs).  Each call of the cache takes its lock on its *)
(* own, so the threads interleave between the calls, and a message's       *)
(* records are stored one at a time.                                       *)
(*                                                                         *)
(* The servers of the world are external: Answer gives the messages a      *)
(* server may send for a question, and any of them may stay silent until   *)
(* QUERY_TIMEOUT.  Instants are kept as the time left; a record whose time *)
(* is up, which get removes when it next looks at its key, is dropped when *)
(* it expires.  In which order the servers of one list are tried, and the  *)
(* order of the records in an answer to a client, are left open.           *)
(***************************************************************************)
EXTENDS Integers, Sequences, FiniteSets

CONSTANTS
    Thread,            \* the threads, one for each query of the run
    Name, Type, Ip,    \* domain names, record types, server addresses
    Root,              \* the name "."
    RootHints,         \* records loaded by load_root_hints
    Answer(_, _, _),   \* (ip, name, type) -> messages the server may send
    Truth(_, _),       \* (name, type) -> the records that answer the question
    Existing,          \* the names that exist
    Query,             \* bound: thread -> the questions it may be asked
    MaxTtl,            \* bound: largest ttl in the world
    Lossy,             \* whether a server may stay silent
    MAX_CNAME_DEPTH, MAX_ITERATIONS, MAX_GLUE_DEPTH

ASSUME DnsAssumption ==
    /\ {"A", "NS", "CNAME", "SOA"} \subseteq Type
    /\ Root \in Name
    /\ Name \cap Ip = {}
    /\ MaxTtl \in Nat
    /\ Lossy \in BOOLEAN
    /\ {MAX_CNAME_DEPTH, MAX_ITERATIONS, MAX_GLUE_DEPTH} \subseteq Nat

VARIABLES
    records,     \* cached records, each with the time left to it
    negatives,   \* negative entries: name, type and the time left
    thread       \* thread -> its query, where it is and its call stack

vars == <<records, negatives, thread>>

\* A DnsRR.  data is the address of an A record or the name an NS or a CNAME
\* record points to, minimum the field of an SOA record.
RR == {rr \in [name : Name, type : Type, data : Name \cup Ip, ttl : 0 .. MaxTtl, minimum : 0 .. MaxTtl] :
          /\ rr.type = "A" => rr.data \in Ip
          /\ rr.type \in {"NS", "CNAME"} => rr.data \in Name}

RecordsOf(s) == {s[i] : i \in 1 .. Len(s)}
extract_matching(s, type) == {rr \in RecordsOf(s) : rr.type = type}

-----------------------------------------------------------------------------
(* The world outside *)

\* The records that belong to their name
Real == {rr \in RR : rr \in Truth(rr.name, rr.type)}

\* The response codes the resolver tells apart, and two others
Rcode == {"NOERROR", "NXDOMAIN", "SERVFAIL", "REFUSED"}

Message == [answers : Seq(Real), authorities : Seq(Real), additionals : Seq(Real), rcode : Rcode]

\* What resolve_iterative takes for a denial
Denies(m) ==
    /\ m.answers = <<>> \/ m.rcode = "NXDOMAIN"
    /\ extract_matching(m.authorities, "NS") = {}
    /\ extract_matching(m.authorities, "SOA") # {}

\* The data a question leads to
Data(n, q) == {rr \in Truth(n, q) : rr.type = q}

\* Servers are honest: every record they send is real, answers answer the
\* question, a denial is justified.  An alias leads to the same data as the
\* name it stands for.
ASSUME WorldAssumption ==
    /\ IsFiniteSet(Ip)
    /\ Query \in [Thread -> SUBSET (Name \X Type)]
    /\ RootHints \subseteq Real
    /\ \A ip \in Ip, n \in Name, q \in Type : \A m \in Answer(ip, n, q) :
          /\ m \in Message
          /\ RecordsOf(m.answers) \subseteq Truth(n, q)
          /\ Denies(m) => Data(n, q) = {}
    /\ \A n \in Name, q \in Type \ {"CNAME"} : \A c \in Truth(n, q) :
          c.type = "CNAME" => /\ Truth(c.data, q) \subseteq Truth(n, q)
                              /\ Data(c.data, q) = Data(n, q)

-----------------------------------------------------------------------------
(* DnsCache *)

\* The entries under a key
Entries(name, type) == {e \in records : e.rr.name = name /\ e.rr.type = type}

\* Mutant: the key forgets the type
get_any_type(name, type) == {e.rr : e \in {d \in records : d.rr.name = name}}

get(name, type) == {e.rr : e \in Entries(name, type)}

\* An entry, unless it has expired at once
Lasting(e) == IF e.left = 0 THEN {} ELSE {e}

\* Whether a cached record is one that put replaces: same key, same data
Replaced(e, rr) == e.rr.name = rr.name /\ e.rr.type = rr.type /\ e.rr.data = rr.data

\* The same data again takes the new ttl, longer or shorter
put(r, rr) == {e \in r : ~Replaced(e, rr)} \cup Lasting([rr |-> rr, left |-> rr.ttl])

put_nxdomain(n, name, type, ttl) ==
    {e \in n : e.name # name \/ e.type # type}
        \cup Lasting([name |-> name, type |-> type, left |-> ttl])

is_nxdomain(name, type) == \E e \in negatives : e.name = name /\ e.type = type

-----------------------------------------------------------------------------
(* Stack frames of resolve_iterative *)

NoMessage == [answers |-> <<>>, authorities |-> <<>>, additionals |-> <<>>, rcode |-> "NOERROR"]

Frame(name, type) ==
    [at |-> "start", name |-> name, type |-> type, current |-> name,
     ns |-> {}, servers |-> {}, visited |-> {}, chain |-> {}, cname_depth |-> 0, iteration |-> 0,
     msg |-> NoMessage, todo |-> <<>>, found |-> <<>>]

Idle == [at |-> "idle", name |-> Root, type |-> "A", stack |-> <<>>,
         result |-> {}, rcode |-> "NOERROR"]

Top(t) == thread[t].stack[Len(thread[t].stack)]
Below(t) == SubSeq(thread[t].stack, 1, Len(thread[t].stack) - 1)
Running(t, at) == thread[t].at = "run" /\ Top(t).at = at

\* glue_depth of the frame on top
glue_depth(t) == Len(thread[t].stack) - 1

Update(t, f) == thread' = [thread EXCEPT ![t].stack = Below(t) \o <<f>>]
Call(t, f, callee) == thread' = [thread EXCEPT ![t].stack = Append(Below(t) \o <<f>>, callee)]

\* One name server of a referral with its addresses, if it has any
Found(found, ns, ips) ==
    IF ips = {} THEN found ELSE Append(found, [ns |-> ns, ips |-> ips])

\* resolve_iterative returns rrs, or fails (rrs = {}): to resolve, or to the
\* extract_referral of the frame below, which keeps the addresses under the
\* name it had searched for
ReturnTo(t, rrs) ==
    IF glue_depth(t) = 0
    THEN [thread[t] EXCEPT !.stack = <<>>, !.result = rrs, !.at = "reply"]
    ELSE LET f == thread[t].stack[glue_depth(t)]
             ips == {rr.data : rr \in {r \in rrs : r.type = "A"}}
             g == [f EXCEPT !.found = Found(@, Top(t).name, ips)]
         IN  [thread[t] EXCEPT !.stack = SubSeq(@, 1, glue_depth(t) - 1) \o <<g>>]

Return(t, rrs) == thread' = [thread EXCEPT ![t] = ReturnTo(t, rrs)]
Fail(t) == Return(t, {})

-----------------------------------------------------------------------------
(* Helpers on the sections of a message *)

\* The first record of a section that is one of S, if there is one
FirstOf(s, S) ==
    {s[i] : i \in {j \in 1 .. Len(s) : s[j] \in S /\ \A k \in 1 .. j - 1 : s[k] \notin S}}

find_cname(answers) == FirstOf(answers, extract_matching(answers, "CNAME"))
extract_soa(authorities) == FirstOf(authorities, extract_matching(authorities, "SOA"))

\* The first address the additional section has for a name server
Glue(additionals, ns) ==
    {a.data : a \in FirstOf(additionals,
                            {rr \in extract_matching(additionals, "A") : rr.name = ns})}

\* Where the next name server of a referral is
NextNs(s) == {i \in 1 .. Len(s) : s[i].type = "NS" /\ \A j \in 1 .. i - 1 : s[j].type # "NS"}

-----------------------------------------------------------------------------
(* handle_query and resolve *)

\* A query arrives and its thread is spawned
Spawn(t, name, type) ==
    /\ thread[t].at = "idle"
    /\ thread' = [thread EXCEPT ![t] = [Idle EXCEPT !.at = "cache", !.name = name, !.type = type]]
    /\ UNCHANGED <<records, negatives>>

LookUp(t) ==
    LET rrs == get(thread[t].name, thread[t].type)
    IN  /\ thread[t].at = "cache"
        /\ thread' = [thread EXCEPT ![t].result = rrs,
                                    ![t].at = IF rrs = {} THEN "negative" ELSE "reply"]
        /\ UNCHANGED <<records, negatives>>

LookUpNegative(t) ==
    /\ thread[t].at = "negative"
    /\ IF is_nxdomain(thread[t].name, thread[t].type)
       THEN thread' = [thread EXCEPT ![t].at = "reply"]
       ELSE thread' = [thread EXCEPT ![t].at = "run",
                                     ![t].stack = <<Frame(thread[t].name, thread[t].type)>>]
    /\ UNCHANGED <<records, negatives>>

\* The response code looks at the negative cache once more
Reply(t) ==
    /\ thread[t].at = "reply"
    /\ thread' = [thread EXCEPT
                    ![t].at = "done",
                    ![t].rcode = IF thread[t].result = {} /\ is_nxdomain(thread[t].name, thread[t].type)
                                 THEN "NXDOMAIN" ELSE "NOERROR"]
    /\ UNCHANGED <<records, negatives>>

-----------------------------------------------------------------------------
(* resolve_iterative *)

\* get_nameservers: the zones it builds end in two dots and match no key, so
\* every name starts from the root.  get_ns_ips reads the names of the servers,
get_nameservers(f) ==
    [f EXCEPT !.ns = {rr.data : rr \in get(Root, "NS")}, !.servers = {}, !.at = "gather"]

Begin(t) ==
    /\ Running(t, "start")
    /\ Update(t, get_nameservers(Top(t)))
    /\ UNCHANGED <<records, negatives>>

\* and then, the lock released in between, the addresses of each
get_ns_ips(t) ==
    LET f == Top(t)
    IN  /\ Running(t, "gather")
        /\ \/ \E ns \in f.ns :
                 Update(t, [f EXCEPT !.ns = @ \ {ns},
                                     !.servers = @ \cup {rr.data : rr \in get(ns, "A")}])
           \/ f.ns = {} /\ f.servers = {} /\ Fail(t)
           \/ f.ns = {} /\ f.servers # {} /\ Update(t, [f EXCEPT !.at = "look"])
        /\ UNCHANGED <<records, negatives>>

\* The head of the loop
Iterate(t) ==
    LET f   == Top(t)
        rrs == get(f.current, f.type)
    IN  /\ Running(t, "look")
        /\ \/ f.iteration = MAX_ITERATIONS /\ Fail(t)
           \/ /\ f.iteration < MAX_ITERATIONS
              /\ IF rrs # {}
                 THEN Return(t, f.chain \cup rrs)
                 ELSE Update(t, [f EXCEPT !.at = "ask", !.iteration = @ + 1])
        /\ UNCHANGED <<records, negatives>>

\* The servers query_best_server has still to try
Asked(t) == IF Running(t, "ask") THEN Top(t).servers ELSE {}

\* query_best_server: a server answers; a message with rcode NXDOMAIN keeps
\* its answers for the cache only
Receive(t, ip, m) ==
    LET f == Top(t)
    IN  /\ Update(t, [f EXCEPT
                        !.at = "store",
                        !.todo = m.answers \o m.authorities \o m.additionals,
                        !.msg = IF m.rcode = "NXDOMAIN" THEN [m EXCEPT !.answers = <<>>] ELSE m])
        /\ UNCHANGED <<records, negatives>>

\* Mutant: the silent server is asked again and again
TimeOut_retries_forever(t, ip) ==
    /\ Lossy \/ Answer(ip, Top(t).current, Top(t).type) = {}
    /\ UNCHANGED vars

\* or it does not, and the next one is tried; also what becomes of a message
\* that does not decode
TimeOut(t, ip) ==
    LET f == Top(t)
    IN  /\ Lossy \/ Answer(ip, f.current, f.type) = {}
        /\ IF f.servers = {ip}
           THEN Fail(t)
           ELSE Update(t, [f EXCEPT !.servers = @ \ {ip}])
        /\ UNCHANGED <<records, negatives>>

\* put_all, one record under the lock at a time
Store(t) ==
    LET f == Top(t)
    IN  /\ Running(t, "store")
        /\ IF f.todo = <<>>
           THEN Update(t, [f EXCEPT !.at = "digest"]) /\ UNCHANGED records
           ELSE /\ records' = put(records, Head(f.todo))
                /\ Update(t, [f EXCEPT !.todo = Tail(@)])
        /\ UNCHANGED negatives

\* The message has answers: they match, or lead on to another name
DigestAnswers(t) ==
    LET f == Top(t)
        matching == extract_matching(f.msg.answers, f.type)
        follow(cname) ==
            get_nameservers([f EXCEPT !.cname_depth = @ + 1, !.current = cname.data,
                                      !.chain = @ \cup {cname}, !.msg = NoMessage])
    IN  /\ Running(t, "digest")
        /\ f.msg.answers # <<>>
        /\ IF matching # {}
           THEN Return(t, f.chain \cup matching)
           ELSE IF f.type # "CNAME" /\ extract_matching(f.msg.answers, "CNAME") # {}
                THEN IF f.cname_depth >= MAX_CNAME_DEPTH
                     THEN Fail(t)
                     ELSE \E cname \in find_cname(f.msg.answers) : Update(t, follow(cname))
                ELSE Return(t, f.chain)
        /\ UNCHANGED <<records, negatives>>

\* No answers, but name servers to go on with
DigestReferral(t) ==
    LET f == Top(t)
    IN  /\ Running(t, "digest")
        /\ f.msg.answers = <<>>
        /\ extract_matching(f.msg.authorities, "NS") # {}
        /\ Update(t, [f EXCEPT !.at = "refer", !.todo = f.msg.authorities, !.found = <<>>])
        /\ UNCHANGED <<records, negatives>>

\* Mutant: the denial is stored for the client's name, also when it is a name
\* server that does not exist
DigestDenial_of_query(t) ==
    LET f == Top(t)
    IN  /\ Running(t, "digest")
        /\ f.msg.answers = <<>>
        /\ \E soa \in extract_soa(f.msg.authorities) :
              negatives' = put_nxdomain(negatives, thread[t].name, thread[t].type, soa.minimum)
        /\ Fail(t)
        /\ UNCHANGED records

\* Neither: an SOA record is taken for the denial of the name first asked
\* for, anything else is a failure
DigestDenial(t) ==
    LET f == Top(t)
    IN  /\ Running(t, "digest")
        /\ f.msg.answers = <<>>
        /\ extract_matching(f.msg.authorities, "NS") = {}
        /\ IF extract_matching(f.msg.authorities, "SOA") = {}
           THEN UNCHANGED negatives
           ELSE \E soa \in extract_soa(f.msg.authorities) :
                   negatives' = put_nxdomain(negatives, f.name, f.type, soa.minimum)
        /\ Return(t, {})
        /\ UNCHANGED records

\* The referral branch with a name server that has the addresses ips
Served(f, ns, ips, rest) == [f EXCEPT !.found = Found(@, ns, ips), !.todo = rest]

\* Mutant: one level of recursion too many
ReferNs_too_deep(t) ==
    LET f == Top(t)
    IN  /\ Running(t, "refer")
        /\ \E i \in NextNs(f.todo) :
              LET ns == f.todo[i].data
                  rest == SubSeq(f.todo, i + 1, Len(f.todo))
                  glue == Glue(f.msg.additionals, ns)
              IN  IF glue # {} THEN Update(t, Served(f, ns, glue, rest))
                  ELSE IF glue_depth(t) > MAX_GLUE_DEPTH THEN Update(t, Served(f, ns, {}, rest))
                  ELSE Call(t, Served(f, ns, {}, rest), Frame(ns, "A"))
        /\ UNCHANGED <<records, negatives>>

\* extract_referral for the next name server: glue, the cache, or a recursive
\* call unless the recursion is too deep
ReferNs(t) ==
    LET f == Top(t)
    IN  /\ Running(t, "refer")
        /\ \E i \in NextNs(f.todo) :
              LET ns == f.todo[i].data
                  rest == SubSeq(f.todo, i + 1, Len(f.todo))
                  glue == Glue(f.msg.additionals, ns)
                  cached == {rr.data : rr \in get(ns, "A")}
              IN  IF glue # {} THEN Update(t, Served(f, ns, glue, rest))
                  ELSE IF cached # {} THEN Update(t, Served(f, ns, cached, rest))
                  ELSE IF glue_depth(t) >= MAX_GLUE_DEPTH THEN Update(t, Served(f, ns, {}, rest))
                  ELSE Call(t, Served(f, ns, {}, rest), Frame(ns, "A"))
        /\ UNCHANGED <<records, negatives>>

\* Mutant: a referral without addresses is followed
Refer_empty(t) ==
    LET f == Top(t)
    IN  /\ Running(t, "refer")
        /\ extract_matching(f.todo, "NS") = {}
        /\ Update(t, [f EXCEPT !.servers = UNION {f.found[i].ips : i \in 1 .. Len(f.found)},
                                !.todo = <<>>, !.found = <<>>, !.msg = NoMessage, !.at = "look"])
        /\ UNCHANGED <<records, negatives>>

\* The rest of the referral branch: the list of servers must not be empty, nor
\* one that was followed before
Refer(t) ==
    LET f == Top(t)
        ns_key == [i \in 1 .. Len(f.found) |-> <<f.found[i].ns, Cardinality(f.found[i].ips)>>]
    IN  /\ Running(t, "refer")
        /\ extract_matching(f.todo, "NS") = {}
        /\ IF f.found = <<>> \/ ns_key \in f.visited
           THEN Fail(t)
           ELSE Update(t, [f EXCEPT !.visited = @ \cup {ns_key},
                                    !.servers = UNION {f.found[i].ips : i \in 1 .. Len(f.found)},
                                    !.todo = <<>>, !.found = <<>>, !.msg = NoMessage, !.at = "look"])
        /\ UNCHANGED <<records, negatives>>

-----------------------------------------------------------------------------
Init ==
    /\ records = UNION {Lasting([rr |-> rr, left |-> rr.ttl]) : rr \in RootHints}
    /\ negatives = {}
    /\ thread = [t \in Thread |-> Idle]

\* The entries that are left after one second
Older(s) == {[e EXCEPT !.left = @ - 1] : e \in {d \in s : d.left > 1}}

Elapse ==
    /\ records' = Older(records)
    /\ negatives' = Older(negatives)
    /\ UNCHANGED thread

Step(t) ==
    \/ LookUp(t) \/ LookUpNegative(t) \/ Reply(t)
    \/ Begin(t) \/ get_ns_ips(t) \/ Iterate(t) \/ Store(t)
    \/ \E ip \in Asked(t) :
          \/ \E m \in Answer(ip, Top(t).current, Top(t).type) : Receive(t, ip, m)
          \/ TimeOut(t, ip)
    \/ DigestAnswers(t) \/ DigestReferral(t) \/ DigestDenial(t)
    \/ ReferNs(t) \/ Refer(t)

Within == \E t \in Thread : Step(t) \/ \E q \in Query[t] : Spawn(t, q[1], q[2])

Next == Within \/ Elapse

Spec == Init /\ [][Next]_vars

\* Everything happens before the first second is over
InstantSpec == Init /\ [][Within]_vars

\* A thread runs on: what it waits for, a lock or an answer, comes or times out
Fairness == \A t \in Thread : WF_vars(Step(t))

LiveSpec == Spec /\ Fairness

-----------------------------------------------------------------------------
(* Properties *)

\* The types; in particular no frame iterates or follows aliases beyond its
\* limits and the recursion for name servers stays within MAX_GLUE_DEPTH.
TypeOK ==
    /\ records \subseteq [rr : RR, left : 1 .. MaxTtl]
    /\ negatives \subseteq [name : Name, type : Type, left : 1 .. MaxTtl]
    /\ \A t \in Thread :
          LET th == thread[t]
          IN  /\ th.at \in {"idle", "cache", "negative", "run", "reply", "done"}
              /\ th.name \in Name /\ th.type \in Type
              /\ th.result \subseteq RR
              /\ (th.at = "run") <=> (th.stack # <<>>)
              /\ Len(th.stack) <= MAX_GLUE_DEPTH + 1
              /\ \A i \in 1 .. Len(th.stack) :
                    /\ th.stack[i].iteration <= MAX_ITERATIONS
                    /\ th.stack[i].cname_depth <= MAX_CNAME_DEPTH
                    /\ th.stack[i].servers \subseteq Ip

\* What a client is told is true: a result has only records of the chain that
\* leads from the name asked for to the data, although the cache is filled by
\* other queries, by referrals and by the search for name servers.
AnswersAreTrue ==
    \A t \in Thread : thread[t].result \subseteq Truth(thread[t].name, thread[t].type)

\* The negative cache denies only what the world does not have: an alias is
\* denied only when the end of its chain is, and never because a name server
\* met on the way does not exist.
NegativeIsTrue ==
    \A e \in negatives : \A rr \in Truth(e.name, e.type) : rr.type # e.type

\* A thread asks only when it knows a server to ask: an empty referral, or a
\* root that has expired, ends the search before.
SomeoneToAsk ==
    \A t \in Thread : Running(t, "ask") => Top(t).servers # {}

\* Every query is answered, whatever is silent, and although the world has
\* aliases in a circle, referrals in a circle, and name servers whose address
\* only they themselves know.
EveryQueryAnswered ==
    \A t \in Thread : thread[t].at = "cache" ~> thread[t].at = "done"

-----------------------------------------------------------------------------
(* What the documentation says and the code does not do *)

\* "CNAME chain (follow, resolve the target)" (network-toolkit.zh.md:173): when
\* every server answers, a name whose chain ends in a record has an answer.
AliasesFollowed ==
    \A t \in Thread :
        thread[t].at = "done"
            /\ (\E rr \in Truth(thread[t].name, thread[t].type) : rr.type = thread[t].type)
        => \E rr \in thread[t].result : rr.type = thread[t].type

\* "Negative cache (NXDOMAIN) as in RFC 2308" (network-toolkit.zh.md:179): a name
\* that exists, if without such a record, is not reported as nonexistent.
NxdomainIsReal ==
    \A t \in Thread : thread[t].rcode = "NXDOMAIN" => thread[t].name \notin Existing
=============================================================================
