----------------------------- MODULE DnsProofs -----------------------------
(***************************************************************************)
(* Theorems about DnsResolver: the types with the limits of the search,    *)
(* and that answers and denials are true and every question has a server   *)
(* to go to.  They hold for every number of threads, every world of honest *)
(* servers (WorldAssumption), whatever is silent and whenever the records  *)
(* in the cache expire.                                                    *)
(***************************************************************************)
EXTENDS DnsResolver, SequenceTheorems, FiniteSetTheorems, TLAPS

\* A stack frame of resolve_iterative
FrameSet ==
    [at : {"start", "gather", "look", "ask", "store", "digest", "refer"},
     name : Name, type : Type, current : Name, ns : SUBSET Name, servers : SUBSET Ip,
     visited : SUBSET Seq(Name \X Nat), chain : SUBSET RR,
     cname_depth : 0 .. MAX_CNAME_DEPTH, iteration : 0 .. MAX_ITERATIONS,
     msg : Message, todo : Seq(Real), found : Seq([ns : Name, ips : SUBSET Ip])]

\* The name the search is at leads where the name asked for leads
OnTheWay(f) ==
    /\ f.chain \subseteq Truth(f.name, f.type)
    /\ Truth(f.current, f.type) \subseteq Truth(f.name, f.type)
    /\ Data(f.current, f.type) = Data(f.name, f.type)

\* The message belongs to the name the search is at
ToThePoint(f) ==
    /\ RecordsOf(f.msg.answers) \subseteq Truth(f.current, f.type)
    /\ Denies(f.msg) => Data(f.current, f.type) = {}

\* There is a server to ask, and a referral lists only servers with addresses
Manned(f) ==
    /\ f.at \in {"look", "ask"} => f.servers # {}
    /\ \A i \in 1 .. Len(f.found) : f.found[i].ips # {}

Sound(f) == OnTheWay(f) /\ ToThePoint(f) /\ Manned(f)

ThreadSet ==
    [at : {"idle", "cache", "negative", "run", "reply", "done"},
     name : Name, type : Type, stack : Seq(FrameSet), result : SUBSET RR, rcode : Rcode]

\* A thread whose bottom frame searches for the name of the query
GoodThread(th) ==
    /\ th \in ThreadSet
    /\ (th.at = "run") <=> (th.stack # <<>>)
    /\ Len(th.stack) <= MAX_GLUE_DEPTH + 1
    /\ \A i \in 1 .. Len(th.stack) : Sound(th.stack[i])
    /\ th.stack # <<>> => th.stack[1].name = th.name /\ th.stack[1].type = th.type
    /\ th.result \subseteq Truth(th.name, th.type)

\* The cache has only what belongs there
GoodRecords(r) == r \subseteq [rr : Real, left : 1 .. MaxTtl]
GoodNegatives(n) ==
    /\ n \subseteq [name : Name, type : Type, left : 1 .. MaxTtl]
    /\ \A e \in n : Data(e.name, e.type) = {}

GoodThreads(th) == th \in [Thread -> ThreadSet] /\ \A t \in Thread : GoodThread(th[t])

\* The inductive invariant
DnsInv == GoodRecords(records) /\ GoodNegatives(negatives) /\ GoodThreads(thread)

-----------------------------------------------------------------------------
(* The cache *)

\* What get returns are real records of the name and the type asked for.
LEMMA GetReal ==
    ASSUME GoodRecords(records), NEW n, NEW q
    PROVE  /\ get(n, q) \subseteq Real
           /\ get(n, q) \subseteq RR
           /\ get(n, q) \subseteq Truth(n, q)
           /\ \A rr \in get(n, q) : rr.name = n /\ rr.type = q
  BY DEF GoodRecords, get, Entries, Real

\* Name servers have names, and their addresses are addresses.
LEMMA NsData ==
    ASSUME GoodRecords(records), NEW n
    PROVE  /\ {rr.data : rr \in get(n, "NS")} \subseteq Name
           /\ {rr.data : rr \in get(n, "A")} \subseteq Ip
  BY GetReal DEF RR

\* An entry that has not expired at once has time left.
LEMMA LastingEntry ==
    ASSUME NEW rr \in Real
    PROVE  Lasting([rr |-> rr, left |-> rr.ttl]) \subseteq [rr : Real, left : 1 .. MaxTtl]
<1>1. rr.ttl \in 0 .. MaxTtl /\ MaxTtl \in Nat
  BY DnsAssumption DEF Real, RR
<1> QED
  BY <1>1 DEF Lasting

\* put stores real records only.
LEMMA PutGood ==
    ASSUME GoodRecords(records), NEW rr \in Real
    PROVE  GoodRecords(put(records, rr))
  BY LastingEntry DEF GoodRecords, put

\* put_nxdomain keeps the denials true.
LEMMA PutNxdomainGood ==
    ASSUME GoodNegatives(negatives), NEW n \in Name, NEW q \in Type, NEW ttl \in 0 .. MaxTtl,
           Data(n, q) = {}
    PROVE  GoodNegatives(put_nxdomain(negatives, n, q, ttl))
<1> DEFINE new == [name |-> n, type |-> q, left |-> ttl]
<1>1. Lasting(new) \subseteq [name : Name, type : Type, left : 1 .. MaxTtl]
  <2>1. CASE ttl = 0
    BY <2>1 DEF Lasting
  <2>2. CASE ttl # 0
    BY <2>2, DnsAssumption DEF Lasting
  <2> QED
    BY <2>1, <2>2
<1>2. \A e \in Lasting(new) : Data(e.name, e.type) = {}
  BY DEF Lasting
<1> QED
  BY <1>1, <1>2 DEF GoodNegatives, put_nxdomain

\* A second passes: entries keep what they say.
LEMMA OlderRecords ==
    ASSUME GoodRecords(records)
    PROVE  GoodRecords(Older(records))
<1> SUFFICES ASSUME NEW d \in records, d.left > 1
             PROVE  [d EXCEPT !.left = @ - 1] \in [rr : Real, left : 1 .. MaxTtl]
  BY DEF GoodRecords, Older
<1>1. d \in [rr : Real, left : 1 .. MaxTtl]
  BY DEF GoodRecords
<1> QED
  BY <1>1, DnsAssumption

\* Denials that grow older stay true.
LEMMA OlderNegatives ==
    ASSUME GoodNegatives(negatives)
    PROVE  GoodNegatives(Older(negatives))
<1> SUFFICES ASSUME NEW d \in negatives, d.left > 1
             PROVE  /\ [d EXCEPT !.left = @ - 1] \in [name : Name, type : Type, left : 1 .. MaxTtl]
                    /\ Data([d EXCEPT !.left = @ - 1].name, [d EXCEPT !.left = @ - 1].type) = {}
  BY DEF GoodNegatives, Older
<1>1. d \in [name : Name, type : Type, left : 1 .. MaxTtl] /\ Data(d.name, d.type) = {}
  BY DEF GoodNegatives
<1>2. [d EXCEPT !.left = @ - 1].name = d.name /\ [d EXCEPT !.left = @ - 1].type = d.type
  BY <1>1
<1> QED
  BY <1>1, <1>2, DnsAssumption

-----------------------------------------------------------------------------
(* Stacks *)

\* What is below the frame on top
LEMMA BelowTop ==
    ASSUME NEW S, NEW s \in Seq(S), s # <<>>
    PROVE  /\ Len(s) \in Nat \ {0}
           /\ SubSeq(s, 1, Len(s) - 1) \in Seq(S)
           /\ Len(SubSeq(s, 1, Len(s) - 1)) = Len(s) - 1
           /\ \A i \in 1 .. Len(s) - 1 : SubSeq(s, 1, Len(s) - 1)[i] = s[i]
<1>1. Len(s) \in Nat \ {0} /\ \A i \in 1 .. Len(s) : s[i] \in S
  BY EmptySeq, LenProperties
<1> DEFINE n == Len(s) - 1
<1>2. n \in Nat /\ \A i \in 1 .. n : s[i] \in S
  BY <1>1
<1> HIDE DEF n
<1>3. /\ SubSeq(s, 1, n) \in Seq(S) /\ Len(SubSeq(s, 1, n)) = IF 1 <= n THEN n - 1 + 1 ELSE 0
      /\ \A i \in 1 .. n - 1 + 1 : SubSeq(s, 1, n)[i] = s[1 + i - 1]
  BY <1>2, SubSeqProperties, 1 \in Int, n \in Int
<1>4. n - 1 + 1 = n /\ \A i \in 1 .. n : 1 + i - 1 = i
  BY <1>2
<1>5. SubSeq(s, 1, n) \in Seq(S) /\ Len(SubSeq(s, 1, n)) = n /\ \A i \in 1 .. n : SubSeq(s, 1, n)[i] = s[i]
  BY <1>2, <1>3, <1>4
<1> QED
  BY <1>1, <1>5 DEF n

\* The frame on top replaced
LEMMA ReplaceTop ==
    ASSUME NEW S, NEW s \in Seq(S), s # <<>>, NEW g \in S,
           NEW r, r = SubSeq(s, 1, Len(s) - 1) \o <<g>>
    PROVE  /\ r \in Seq(S) /\ Len(r) = Len(s) /\ Len(s) \in Nat \ {0}
           /\ r[Len(s)] = g
           /\ \A i \in 1 .. Len(s) - 1 : r[i] = s[i]
<1> DEFINE b == SubSeq(s, 1, Len(s) - 1)
<1>1. /\ Len(s) \in Nat \ {0} /\ b \in Seq(S) /\ Len(b) = Len(s) - 1
      /\ \A i \in 1 .. Len(s) - 1 : b[i] = s[i]
  BY BelowTop
<1>2. r = b \o <<g>>
  OBVIOUS
<1> HIDE DEF b
<1>3. r \in Seq(S) /\ Len(r) = Len(s)
  BY <1>1, <1>2
<1>4. r[Len(s)] = g /\ \A i \in 1 .. Len(s) - 1 : r[i] = b[i]
  BY <1>1, <1>2
<1> QED
  BY <1>1, <1>3, <1>4

\* The frame on top taken away and the one below it replaced
LEMMA PopTop ==
    ASSUME NEW S, NEW s \in Seq(S), NEW n \in Nat \ {0}, Len(s) = n + 1, NEW g \in S,
           NEW r, r = SubSeq(s, 1, n - 1) \o <<g>>
    PROVE  /\ r \in Seq(S) /\ Len(r) = n
           /\ r[n] = g
           /\ \A i \in 1 .. n - 1 : r[i] = s[i]
<1> DEFINE m == n - 1
           b == SubSeq(s, 1, m)
<1>1. m \in Nat /\ n = m + 1 /\ \A i \in 1 .. m : s[i] \in S
  BY LenProperties
<1> HIDE DEF m
<1>2. /\ b \in Seq(S) /\ Len(b) = IF 1 <= m THEN m - 1 + 1 ELSE 0
      /\ \A i \in 1 .. m - 1 + 1 : b[i] = s[1 + i - 1]
  BY <1>1, SubSeqProperties, 1 \in Int, m \in Int
<1>3. m - 1 + 1 = m /\ \A i \in 1 .. m : 1 + i - 1 = i
  BY <1>1
<1>4. b \in Seq(S) /\ Len(b) = m /\ \A i \in 1 .. m : b[i] = s[i]
  BY <1>1, <1>2, <1>3
<1>5. r = b \o <<g>>
  BY DEF m
<1> HIDE DEF b
<1>6. r \in Seq(S) /\ Len(r) = n
  BY <1>1, <1>4, <1>5
<1>7. r[n] = g /\ \A i \in 1 .. m : r[i] = b[i]
  BY <1>1, <1>4, <1>5
<1> QED
  BY <1>1, <1>4, <1>6, <1>7 DEF m

\* The frame that is on top of a running thread
LEMMA TopGood ==
    ASSUME GoodThreads(thread), NEW t \in Thread, thread[t].at = "run"
    PROVE  /\ thread[t].stack \in Seq(FrameSet) /\ thread[t].stack # <<>>
           /\ Len(thread[t].stack) \in Nat \ {0}
           /\ Top(t) \in FrameSet /\ Sound(Top(t))
<1>1. thread[t].stack \in Seq(FrameSet) /\ thread[t].stack # <<>> /\ thread[t] \in ThreadSet
  BY DEF GoodThreads, GoodThread, ThreadSet
<1>2. Len(thread[t].stack) \in Nat \ {0}
  BY <1>1, EmptySeq, LenProperties
<1> QED
  BY <1>1, <1>2 DEF GoodThreads, GoodThread, Top

\* A frame on top that still searches for the same name keeps the thread good.
LEMMA UpdateGood ==
    ASSUME GoodThreads(thread), NEW t \in Thread, thread[t].at = "run",
           NEW g \in FrameSet, Sound(g), g.name = Top(t).name, g.type = Top(t).type,
           Update(t, g)
    PROVE  GoodThreads(thread')
<1> DEFINE s == thread[t].stack
           r == SubSeq(s, 1, Len(s) - 1) \o <<g>>
           th == [thread[t] EXCEPT !.stack = r]
<1>1. s \in Seq(FrameSet) /\ s # <<>> /\ thread[t] \in ThreadSet /\ GoodThread(thread[t])
  BY TopGood DEF GoodThreads, GoodThread
<1>2. /\ r \in Seq(FrameSet) /\ Len(r) = Len(s) /\ Len(s) \in Nat \ {0}
      /\ r[Len(s)] = g
      /\ \A i \in 1 .. Len(s) - 1 : r[i] = s[i]
  <2> HIDE DEF s
  <2>1. \A x : x = SubSeq(s, 1, Len(s) - 1) \o <<g>> =>
           /\ x \in Seq(FrameSet) /\ Len(x) = Len(s) /\ Len(s) \in Nat \ {0}
           /\ x[Len(s)] = g
           /\ \A i \in 1 .. Len(s) - 1 : x[i] = s[i]
    BY <1>1, ReplaceTop
  <2> QED
    BY <2>1, Zenon
<1>3. thread' = [thread EXCEPT ![t] = th]
  BY DEF Update, Below, GoodThreads
<1> HIDE DEF r
<1>4. /\ th \in ThreadSet /\ th.stack = r /\ th.at = "run" /\ th.name = thread[t].name
      /\ th.type = thread[t].type /\ th.result = thread[t].result
  BY <1>1, <1>2 DEF ThreadSet
<1>5. \A i \in 1 .. Len(r) : Sound(r[i])
  BY <1>1, <1>2 DEF GoodThread
<1>6. r # <<>> /\ r[1].name = thread[t].name /\ r[1].type = thread[t].type
  <2>1. s[1].name = thread[t].name /\ s[1].type = thread[t].type /\ Top(t) = s[Len(s)]
    BY <1>1 DEF GoodThread, Top
  <2>4. Len(s) = 1 \/ Len(s) > 1
    <3>1. \A n \in Nat \ {0} : n = 1 \/ n > 1
      OBVIOUS
    <3> QED
      BY <1>2, <3>1
  <2>2. CASE Len(s) = 1
    BY <2>1, <2>2, <1>2
  <2>3. CASE Len(s) > 1
    BY <2>1, <2>3, <1>2
  <2> QED
    BY <2>2, <2>3, <2>4
<1> HIDE DEF th
<1>7. GoodThread(th)
  BY <1>1, <1>2, <1>4, <1>5, <1>6 DEF GoodThread
<1> QED
  BY <1>3, <1>4, <1>7 DEF GoodThreads
\* A recursive call for the address of a name server, made with the frame g
LEMMA CallGood ==
    ASSUME GoodThreads(thread), NEW t \in Thread, thread[t].at = "run",
           NEW g \in FrameSet, Sound(g), g.name = Top(t).name, g.type = Top(t).type,
           NEW h \in FrameSet, Sound(h), glue_depth(t) < MAX_GLUE_DEPTH,
           Call(t, g, h)
    PROVE  GoodThreads(thread')
<1> DEFINE s == thread[t].stack
           b == SubSeq(s, 1, Len(s) - 1) \o <<g>>
           r == Append(b, h)
           th == [thread[t] EXCEPT !.stack = r]
<1>1. s \in Seq(FrameSet) /\ s # <<>> /\ thread[t] \in ThreadSet /\ GoodThread(thread[t])
  BY TopGood DEF GoodThreads, GoodThread
<1>2. /\ r \in Seq(FrameSet) /\ Len(r) = Len(s) + 1 /\ Len(s) \in Nat \ {0}
      /\ r[Len(s)] = g /\ r[Len(s) + 1] = h
      /\ \A i \in 1 .. Len(s) - 1 : r[i] = s[i]
  <2> HIDE DEF s
  <2>1. \A x : x = SubSeq(s, 1, Len(s) - 1) \o <<g>> =>
           /\ x \in Seq(FrameSet) /\ Len(x) = Len(s) /\ Len(s) \in Nat \ {0}
           /\ x[Len(s)] = g
           /\ \A i \in 1 .. Len(s) - 1 : x[i] = s[i]
    BY <1>1, ReplaceTop
  <2>2. /\ b \in Seq(FrameSet) /\ Len(b) = Len(s) /\ Len(s) \in Nat \ {0}
        /\ b[Len(s)] = g
        /\ \A i \in 1 .. Len(s) - 1 : b[i] = s[i]
    BY <2>1, Zenon
  <2> HIDE DEF b
  <2>3. /\ r \in Seq(FrameSet) /\ Len(r) = Len(b) + 1
        /\ \A i \in 1 .. Len(b) : r[i] = b[i]
        /\ r[Len(b) + 1] = h
    BY <2>2, AppendProperties
  <2>4. Len(r) = Len(s) + 1 /\ r[Len(s) + 1] = h /\ r \in Seq(FrameSet)
    BY <2>2, <2>3
  <2> HIDE DEF r
  <2>5. \A i \in 1 .. Len(s) : r[i] = b[i]
    BY <2>2, <2>3
  <2>6. Len(s) \in 1 .. Len(s) /\ \A i \in 1 .. Len(s) - 1 : i \in 1 .. Len(s)
    BY <2>2
  <2> QED
    BY <2>2, <2>4, <2>5, <2>6
<1>3. thread' = [thread EXCEPT ![t] = th]
  BY DEF Call, Below, GoodThreads
<1>4. Len(s) - 1 < MAX_GLUE_DEPTH
  BY DEF glue_depth
<1> HIDE DEF r
<1>5. /\ th \in ThreadSet /\ th.stack = r /\ th.at = "run" /\ th.name = thread[t].name
      /\ th.type = thread[t].type /\ th.result = thread[t].result
  BY <1>1, <1>2 DEF ThreadSet
<1>6. \A i \in 1 .. Len(r) : Sound(r[i])
  <2> SUFFICES ASSUME NEW i \in 1 .. Len(r) PROVE Sound(r[i])
    OBVIOUS
  <2>1. \A j \in 1 .. Len(s) : Sound(s[j])
    BY <1>1 DEF GoodThread
  <2> HIDE DEF s
  <2>2. i \in 1 .. Len(s) - 1 \/ i = Len(s) \/ i = Len(s) + 1
    BY <1>2
  <2> QED
    BY <1>2, <2>1, <2>2
<1>7. r # <<>> /\ r[1].name = thread[t].name /\ r[1].type = thread[t].type
  <2>1. s[1].name = thread[t].name /\ s[1].type = thread[t].type /\ Top(t) = s[Len(s)]
    BY <1>1 DEF GoodThread, Top
  <2>2. Len(s) = 1 \/ Len(s) > 1
    <3>1. \A n \in Nat \ {0} : n = 1 \/ n > 1
      OBVIOUS
    <3> QED
      BY <1>2, <3>1
  <2>5. r # <<>> /\ g.name = s[Len(s)].name /\ g.type = s[Len(s)].type
    BY <2>1, <1>2
  <2>3. CASE Len(s) = 1
    <3> HIDE DEF s
    <3>1. r[1] = g /\ s[Len(s)] = s[1]
      BY <2>3, <1>2
    <3> QED
      BY <2>1, <2>5, <3>1
  <2>4. CASE Len(s) > 1
    BY <2>1, <2>4, <1>2
  <2> QED
    BY <2>2, <2>3, <2>4
<1>8. Len(r) <= MAX_GLUE_DEPTH + 1
  <2> HIDE DEF s
  <2> QED
    BY <1>2, <1>4, DnsAssumption
<1> HIDE DEF th
<1>9. GoodThread(th)
  BY <1>1, <1>2, <1>5, <1>6, <1>7, <1>8 DEF GoodThread
<1> QED
  BY <1>3, <1>5, <1>9 DEF GoodThreads

\* The addresses found for one name server of a referral
LEMMA FoundGood ==
    ASSUME NEW found \in Seq([ns : Name, ips : SUBSET Ip]), NEW ns \in Name, NEW ips \in SUBSET Ip,
           \A i \in 1 .. Len(found) : found[i].ips # {}
    PROVE  /\ Found(found, ns, ips) \in Seq([ns : Name, ips : SUBSET Ip])
           /\ \A i \in 1 .. Len(Found(found, ns, ips)) : Found(found, ns, ips)[i].ips # {}
<1>1. CASE ips = {}
  BY <1>1 DEF Found
<1>2. CASE ips # {}
  <2> DEFINE e == [ns |-> ns, ips |-> ips]
             S == [ns : Name, ips : SUBSET Ip]
  <2>1. e \in S /\ e.ips # {} /\ Found(found, ns, ips) = Append(found, e)
    BY <1>2 DEF Found
  <2>2. Len(found) \in Nat
    BY LenProperties
  <2> HIDE DEF e, S
  <2>3. /\ Append(found, e) \in Seq(S)
        /\ \A i \in 1 .. Len(Append(found, e)) : Append(found, e)[i] = found[i] \/ Append(found, e)[i] = e
        /\ \A i \in 1 .. Len(Append(found, e)) : i \in 1 .. Len(found) \/ Append(found, e)[i] = e
    BY <2>1, <2>2, found \in Seq(S) DEF S
  <2> QED
    BY <2>1, <2>2, <2>3 DEF S
<1> QED
  BY <1>1, <1>2
\* A search that ends with real records for its name keeps the thread good:
\* they answer the query, or give addresses to the search that asked.
LEMMA ReturnGood ==
    ASSUME GoodThreads(thread), NEW t \in Thread, thread[t].at = "run",
           NEW rrs \in SUBSET RR, rrs \subseteq Truth(Top(t).name, Top(t).type),
           Return(t, rrs)
    PROVE  GoodThreads(thread')
<1> DEFINE s == thread[t].stack
           th == ReturnTo(t, rrs)
<1>1. /\ s \in Seq(FrameSet) /\ s # <<>> /\ thread[t] \in ThreadSet /\ GoodThread(thread[t])
      /\ Len(s) \in Nat \ {0}
  BY TopGood DEF GoodThreads, GoodThread
<1>2. thread' = [thread EXCEPT ![t] = th]
  BY DEF Return
<1>3. Top(t) = s[Len(s)] /\ glue_depth(t) = Len(s) - 1
  BY DEF Top, glue_depth
<1>4. CASE Len(s) = 1
  <2>1. th = [thread[t] EXCEPT !.stack = <<>>, !.result = rrs, !.at = "reply"]
    BY <1>3, <1>4 DEF ReturnTo
  <2>2. /\ th \in ThreadSet /\ th.stack = <<>> /\ th.at = "reply" /\ th.name = thread[t].name
        /\ th.type = thread[t].type /\ th.result = rrs
    <3>1. <<>> \in Seq(FrameSet)
      OBVIOUS
    <3> HIDE DEF th, s
    <3> QED
      BY <1>1, <2>1, <3>1 DEF ThreadSet
  <2>3. rrs \subseteq Truth(thread[t].name, thread[t].type)
    BY <1>1, <1>3, <1>4 DEF GoodThread
  <2>4. Len(th.stack) = 0 /\ 0 <= MAX_GLUE_DEPTH + 1
    BY <2>2, DnsAssumption
  <2> HIDE DEF th
  <2>5. \A i \in 1 .. Len(th.stack) : Sound(th.stack[i])
    BY <2>4
  <2>6. GoodThread(th)
    BY <2>2, <2>3, <2>4, <2>5 DEF GoodThread
  <2> QED
    BY <1>2, <2>2, <2>6 DEF GoodThreads
<1>5. CASE Len(s) # 1
  <2> DEFINE n == Len(s) - 1
             f == s[n]
             ips == {rr.data : rr \in {x \in rrs : x.type = "A"}}
             g == [f EXCEPT !.found = Found(@, Top(t).name, ips)]
             r == SubSeq(s, 1, n - 1) \o <<g>>
  <2>1. n \in Nat \ {0} /\ Len(s) = n + 1 /\ n # 0
    BY <1>1, <1>5
  <2>2. th = [thread[t] EXCEPT !.stack = r]
    BY <1>3, <2>1 DEF ReturnTo
  <2>3. f \in FrameSet /\ Sound(f) /\ Top(t) \in FrameSet
    <3>1. n \in 1 .. Len(s)
      <4> HIDE DEF s, n
      <4> QED
        BY <2>1
    <3> HIDE DEF n
    <3> QED
      BY <1>1, <3>1, TopGood DEF GoodThread
  <2>4. ips \in SUBSET Ip
    BY DEF RR
  <2> HIDE DEF ips
  <2>5. /\ Found(f.found, Top(t).name, ips) \in Seq([ns : Name, ips : SUBSET Ip])
        /\ \A i \in 1 .. Len(Found(f.found, Top(t).name, ips)) :
              Found(f.found, Top(t).name, ips)[i].ips # {}
    <3>1. /\ f.found \in Seq([ns : Name, ips : SUBSET Ip]) /\ Top(t).name \in Name
          /\ \A i \in 1 .. Len(f.found) : f.found[i].ips # {}
      BY <2>3 DEF FrameSet, Sound, Manned
    <3> QED
      BY <3>1, <2>4, FoundGood
  <2>6. g \in FrameSet /\ Sound(g) /\ g.name = f.name /\ g.type = f.type
    <3> HIDE DEF f
    <3>1. /\ g \in FrameSet /\ g.name = f.name /\ g.type = f.type /\ g.current = f.current
          /\ g.chain = f.chain /\ g.msg = f.msg /\ g.at = f.at /\ g.servers = f.servers
          /\ g.found = Found(f.found, Top(t).name, ips)
      BY <2>3, <2>5 DEF FrameSet
    <3> HIDE DEF g
    <3> QED
      BY <2>3, <2>5, <3>1 DEF Sound, OnTheWay, ToThePoint, Manned
  <2> HIDE DEF g
  <2>7. /\ r \in Seq(FrameSet) /\ Len(r) = n
        /\ r[n] = g
        /\ \A i \in 1 .. n - 1 : r[i] = s[i]
    <3>1. s \in Seq(FrameSet)
      BY <1>1
    <3> HIDE DEF s, n
    <3>2. \A x : x = SubSeq(s, 1, n - 1) \o <<g>> =>
            /\ x \in Seq(FrameSet) /\ Len(x) = n
            /\ x[n] = g
            /\ \A i \in 1 .. n - 1 : x[i] = s[i]
      BY <3>1, <2>1, <2>6, PopTop
    <3> QED
      BY <3>2, Zenon
  <2>8. s[1].name = thread[t].name /\ s[1].type = thread[t].type
    BY <1>1 DEF GoodThread
  <2> HIDE DEF r
  <2>9. /\ th \in ThreadSet /\ th.stack = r /\ th.at = "run" /\ th.name = thread[t].name
        /\ th.type = thread[t].type /\ th.result = thread[t].result
    <3> HIDE DEF s, th, n
    <3> QED
      BY <1>1, <2>2, <2>7 DEF ThreadSet
  <2>10. \A i \in 1 .. Len(s) : Sound(s[i])
    BY <1>1 DEF GoodThread
  <2>11. Len(s) <= MAX_GLUE_DEPTH + 1
    BY <1>1 DEF GoodThread
  <2>12. \A i \in 1 .. Len(r) : Sound(r[i])
    <3> HIDE DEF s, n
    <3> SUFFICES ASSUME NEW i \in 1 .. n PROVE Sound(r[i])
      BY <2>7
    <3>1. i = n \/ i \in 1 .. n - 1
      BY <2>1
    <3>2. i \in 1 .. Len(s)
      BY <2>1
    <3> QED
      BY <3>1, <3>2, <2>6, <2>7, <2>10
  <2>13. r # <<>> /\ r[1].name = thread[t].name /\ r[1].type = thread[t].type
    <3> DEFINE nm == thread[t].name
               ty == thread[t].type
    <3>1. s[1].name = nm /\ s[1].type = ty
      BY <2>8
    <3>2. f = s[n]
      OBVIOUS
    <3> HIDE DEF s, n, f, nm, ty
    <3>3. r # <<>>
      BY <2>1, <2>7
    <3>4. CASE n = 1
      <4>1. r[1] = g /\ f = s[1]
        BY <3>2, <3>4, <2>7
      <4> QED
        BY <4>1, <3>1, <3>3, <2>6 DEF nm, ty
    <3>5. CASE n # 1
      <4>1. 1 \in 1 .. n - 1
        BY <3>5, <2>1
      <4> QED
        BY <4>1, <3>1, <3>3, <2>7 DEF nm, ty
    <3> QED
      BY <3>3, <3>4, <3>5 DEF nm, ty
  <2>14. Len(r) <= MAX_GLUE_DEPTH + 1
    <3> HIDE DEF s, n
    <3> QED
      BY <2>1, <2>7, <2>11, DnsAssumption
  <2> HIDE DEF th
  <2>15. thread[t].result \subseteq Truth(thread[t].name, thread[t].type)
    BY <1>1 DEF GoodThread
  <2>16. GoodThread(th)
    BY <2>9, <2>12, <2>13, <2>14, <2>15 DEF GoodThread
  <2> QED
    BY <1>2, <2>9, <2>16 DEF GoodThreads
<1> QED
  BY <1>4, <1>5
-----------------------------------------------------------------------------
(* Messages and frames *)

\* A frame without a message has neither answers nor a denial.
LEMMA NoMessageGood ==
    NoMessage \in Message /\ RecordsOf(NoMessage.answers) = {} /\ ~Denies(NoMessage)
<1>1. NoMessage \in Message
  BY DEF NoMessage, Message, Rcode
<1>2. NoMessage.answers = <<>> /\ NoMessage.authorities = <<>>
  BY DEF NoMessage
<1>3. RecordsOf(<<>>) = {}
  BY DEF RecordsOf
<1> QED
  BY <1>1, <1>2, <1>3 DEF Denies, extract_matching

\* A search that begins is at the name it is for.
LEMMA FrameGood ==
    ASSUME NEW n \in Name, NEW q \in Type
    PROVE  Frame(n, q) \in FrameSet /\ Sound(Frame(n, q))
<1>1. Frame(n, q) \in FrameSet
  BY NoMessageGood, DnsAssumption DEF Frame, FrameSet
<1>2. /\ Frame(n, q).name = n /\ Frame(n, q).type = q /\ Frame(n, q).current = n
      /\ Frame(n, q).chain = {} /\ Frame(n, q).msg = NoMessage /\ Frame(n, q).at = "start"
      /\ Frame(n, q).found = <<>>
  BY DEF Frame
<1> QED
  BY <1>1, <1>2, NoMessageGood DEF Sound, OnTheWay, ToThePoint, Manned

\* Records of a section are real.
LEMMA SectionReal ==
    ASSUME NEW s \in Seq(Real)
    PROVE  RecordsOf(s) \subseteq Real /\ RecordsOf(s) \subseteq RR
  BY LenProperties DEF RecordsOf, Real

\* The first of some records is one of them.
LEMMA FirstIsOne ==
    ASSUME NEW s, NEW S
    PROVE  FirstOf(s, S) \subseteq S
  BY DEF FirstOf

\* Glue gives addresses only.
LEMMA GlueAddresses ==
    ASSUME NEW s \in Seq(Real), NEW ns
    PROVE  Glue(s, ns) \subseteq Ip
<1>1. FirstOf(s, {rr \in extract_matching(s, "A") : rr.name = ns}) \subseteq extract_matching(s, "A")
  BY FirstIsOne
<1>2. \A a \in extract_matching(s, "A") : a \in RR /\ a.type = "A"
  BY SectionReal DEF extract_matching
<1> QED
  BY <1>1, <1>2 DEF Glue, RR

\* The message of an honest server, as it is kept in the frame
LEMMA MessageGood ==
    ASSUME NEW ip \in Ip, NEW n \in Name, NEW q \in Type, NEW m \in Answer(ip, n, q),
           NEW k, k = IF m.rcode = "NXDOMAIN" THEN [m EXCEPT !.answers = <<>>] ELSE m
    PROVE  /\ m \in Message /\ k \in Message
           /\ m.answers \o m.authorities \o m.additionals \in Seq(Real)
           /\ RecordsOf(k.answers) \subseteq Truth(n, q)
           /\ Denies(k) => Data(n, q) = {}
<1>1. m \in Message /\ RecordsOf(m.answers) \subseteq Truth(n, q) /\ (Denies(m) => Data(n, q) = {})
  BY WorldAssumption
<1>2. m.answers \o m.authorities \o m.additionals \in Seq(Real)
  <2>1. m.answers \in Seq(Real) /\ m.authorities \in Seq(Real) /\ m.additionals \in Seq(Real)
    BY <1>1 DEF Message
  <2> QED
    BY <2>1
<1>3. CASE m.rcode = "NXDOMAIN"
  <2>1. k \in Message /\ k.answers = <<>> /\ k.authorities = m.authorities /\ k.rcode = m.rcode
    <3>1. <<>> \in Seq(Real)
      OBVIOUS
    <3> QED
      BY <1>1, <1>3, <3>1 DEF Message
  <2>2. RecordsOf(k.answers) = {}
    BY <2>1 DEF RecordsOf
  <2>3. Denies(k) => Denies(m)
    BY <2>1, <1>3 DEF Denies
  <2> QED
    BY <1>1, <1>2, <2>1, <2>2, <2>3
<1>4. CASE m.rcode # "NXDOMAIN"
  BY <1>1, <1>2, <1>4
<1> QED
  BY <1>3, <1>4

-----------------------------------------------------------------------------
(* The steps of a thread *)

\* A query that arrives has no result yet.
LEMMA SpawnStep ==
    ASSUME DnsInv, NEW t \in Thread, NEW q \in Query[t], Spawn(t, q[1], q[2])
    PROVE  DnsInv'
<1> DEFINE th == [Idle EXCEPT !.at = "cache", !.name = q[1], !.type = q[2]]
<1>1. q[1] \in Name /\ q[2] \in Type
  BY WorldAssumption
<1>2. /\ th \in ThreadSet /\ th.stack = <<>> /\ th.at = "cache" /\ th.result = {}
  <2>1. <<>> \in Seq(FrameSet)
    OBVIOUS
  <2> QED
    BY <1>1, <2>1 DEF ThreadSet, Idle, Rcode
<1>3. thread' = [thread EXCEPT ![t] = th]
  BY DEF Spawn
<1> HIDE DEF th
<1>4. GoodThread(th)
  BY <1>2, DnsAssumption DEF GoodThread
<1> QED
  BY <1>2, <1>3, <1>4 DEF DnsInv, GoodThreads, Spawn

\* The cache answers with records of the name and type asked for.
LEMMA LookUpStep ==
    ASSUME DnsInv, NEW t \in Thread, LookUp(t)
    PROVE  DnsInv'
<1> DEFINE rrs == get(thread[t].name, thread[t].type)
           at == IF rrs = {} THEN "negative" ELSE "reply"
           th == [thread[t] EXCEPT !.result = rrs, !.at = at]
<1>1. thread[t] \in ThreadSet /\ GoodThread(thread[t]) /\ thread[t].at = "cache"
  BY DEF DnsInv, GoodThreads, LookUp
<1>2. rrs \subseteq RR /\ rrs \subseteq Truth(thread[t].name, thread[t].type)
  BY GetReal DEF DnsInv
<1>3. thread' = [thread EXCEPT ![t] = th]
  BY DEF LookUp, DnsInv, GoodThreads
<1>4. at \in {"negative", "reply"}
  OBVIOUS
<1> HIDE DEF rrs, at
<1>5. /\ th \in ThreadSet /\ th.stack = thread[t].stack /\ th.at = at /\ th.result = rrs
      /\ th.name = thread[t].name /\ th.type = thread[t].type
  BY <1>1, <1>2, <1>4 DEF ThreadSet
<1> HIDE DEF th
<1>6. GoodThread(th)
  BY <1>1, <1>2, <1>4, <1>5 DEF GoodThread
<1> QED
  BY <1>3, <1>5, <1>6 DEF DnsInv, GoodThreads, LookUp

\* The negative cache ends the query, or a search for its name begins.
LEMMA LookUpNegativeStep ==
    ASSUME DnsInv, NEW t \in Thread, LookUpNegative(t)
    PROVE  DnsInv'
<1>1. thread[t] \in ThreadSet /\ GoodThread(thread[t]) /\ thread[t].at = "negative"
  BY DEF DnsInv, GoodThreads, LookUpNegative
<1>2. thread[t].name \in Name /\ thread[t].type \in Type
  BY <1>1 DEF ThreadSet
<1>3. CASE thread' = [thread EXCEPT ![t].at = "reply"]
  <2> DEFINE th == [thread[t] EXCEPT !.at = "reply"]
  <2>1. thread' = [thread EXCEPT ![t] = th]
    BY <1>3 DEF DnsInv, GoodThreads
  <2>2. /\ th \in ThreadSet /\ th.stack = thread[t].stack /\ th.at = "reply"
        /\ th.result = thread[t].result /\ th.name = thread[t].name /\ th.type = thread[t].type
    BY <1>1 DEF ThreadSet
  <2> HIDE DEF th
  <2>3. GoodThread(th)
    BY <1>1, <2>2 DEF GoodThread
  <2> QED
    BY <2>1, <2>2, <2>3 DEF DnsInv, GoodThreads, LookUpNegative
<1>4. CASE thread' = [thread EXCEPT ![t].at = "run", ![t].stack = <<Frame(thread[t].name, thread[t].type)>>]
  <2> DEFINE f == Frame(thread[t].name, thread[t].type)
             th == [thread[t] EXCEPT !.at = "run", !.stack = <<f>>]
  <2>1. thread' = [thread EXCEPT ![t] = th]
    BY <1>4 DEF DnsInv, GoodThreads
  <2>2. f \in FrameSet /\ Sound(f)
    BY <1>2, FrameGood
  <2>3. f.name = thread[t].name /\ f.type = thread[t].type
    BY DEF Frame
  <2> HIDE DEF f
  <2>4. /\ th \in ThreadSet /\ th.stack = <<f>> /\ th.at = "run"
        /\ th.result = thread[t].result /\ th.name = thread[t].name /\ th.type = thread[t].type
    <3>1. <<f>> \in Seq(FrameSet)
      BY <2>2
    <3> QED
      BY <1>1, <3>1 DEF ThreadSet
  <2> HIDE DEF th
  <2>5. Len(th.stack) = 1 /\ th.stack # <<>> /\ th.stack[1] = f /\ 1 <= MAX_GLUE_DEPTH + 1
    BY <2>4, DnsAssumption
  <2>6. \A i \in 1 .. Len(th.stack) : Sound(th.stack[i])
    <3>1. \A i \in 1 .. 1 : i = 1
      OBVIOUS
    <3> QED
      BY <2>2, <2>5, <3>1
  <2>7. GoodThread(th)
    BY <1>1, <2>3, <2>4, <2>5, <2>6 DEF GoodThread
  <2> QED
    BY <2>1, <2>4, <2>7 DEF DnsInv, GoodThreads, LookUpNegative
<1> QED
  BY <1>3, <1>4 DEF LookUpNegative

\* The reply leaves the result alone.
LEMMA ReplyStep ==
    ASSUME DnsInv, NEW t \in Thread, Reply(t)
    PROVE  DnsInv'
<1> DEFINE rc == IF thread[t].result = {} /\ is_nxdomain(thread[t].name, thread[t].type)
                 THEN "NXDOMAIN" ELSE "NOERROR"
           th == [thread[t] EXCEPT !.at = "done", !.rcode = rc]
<1>1. thread[t] \in ThreadSet /\ GoodThread(thread[t]) /\ thread[t].at = "reply"
  BY DEF DnsInv, GoodThreads, Reply
<1>2. rc \in Rcode
  BY DEF Rcode
<1>3. thread' = [thread EXCEPT ![t] = th]
  BY DEF Reply, DnsInv, GoodThreads
<1> HIDE DEF rc
<1>4. /\ th \in ThreadSet /\ th.stack = thread[t].stack /\ th.at = "done"
      /\ th.result = thread[t].result /\ th.name = thread[t].name /\ th.type = thread[t].type
  BY <1>1, <1>2 DEF ThreadSet
<1> HIDE DEF th
<1>5. GoodThread(th)
  BY <1>1, <1>4 DEF GoodThread
<1> QED
  BY <1>3, <1>4, <1>5 DEF DnsInv, GoodThreads, Reply

\* A frame that begins to look for the servers of the root
LEMMA GatherGood ==
    ASSUME GoodRecords(records), NEW f \in FrameSet, OnTheWay(f), ToThePoint(f),
           \A i \in 1 .. Len(f.found) : f.found[i].ips # {}
    PROVE  LET g == get_nameservers(f) IN
           /\ g \in FrameSet /\ Sound(g) /\ g.name = f.name /\ g.type = f.type
<1> DEFINE names == {rr.data : rr \in get(Root, "NS")}
           g == [f EXCEPT !.ns = names, !.servers = {}, !.at = "gather"]
<1>1. names \in SUBSET Name
  BY NsData
<1>2. get_nameservers(f) = g
  BY DEF get_nameservers
<1> HIDE DEF names
<1>3. /\ g \in FrameSet /\ g.name = f.name /\ g.type = f.type /\ g.current = f.current
      /\ g.chain = f.chain /\ g.msg = f.msg /\ g.at = "gather" /\ g.found = f.found
  BY <1>1 DEF FrameSet
<1> HIDE DEF g
<1>4. Sound(g)
  BY <1>3 DEF Sound, OnTheWay, ToThePoint, Manned
<1> QED
  BY <1>2, <1>3, <1>4

\* A search starts with the names of the root servers.
LEMMA BeginStep ==
    ASSUME DnsInv, NEW t \in Thread, Begin(t)
    PROVE  DnsInv'
<1> DEFINE f == Top(t)
           g == get_nameservers(f)
<1>1. thread[t].at = "run" /\ f \in FrameSet /\ Sound(f) /\ GoodThreads(thread)
  BY TopGood DEF Begin, Running, DnsInv
<1>2. g \in FrameSet /\ Sound(g) /\ g.name = f.name /\ g.type = f.type
  BY <1>1, GatherGood DEF DnsInv, Sound, Manned
<1>3. Update(t, g)
  BY DEF Begin
<1> HIDE DEF g
<1>4. GoodThreads(thread')
  BY <1>1, <1>2, <1>3, UpdateGood
<1> QED
  BY <1>4 DEF DnsInv, Begin

\* The addresses of the root servers are collected; without any the search fails.
LEMMA GetNsIpsStep ==
    ASSUME DnsInv, NEW t \in Thread, get_ns_ips(t)
    PROVE  DnsInv'
<1> DEFINE f == Top(t)
<1>1. /\ thread[t].at = "run" /\ f \in FrameSet /\ Sound(f) /\ GoodThreads(thread)
      /\ f.at = "gather"
  BY TopGood DEF get_ns_ips, Running, DnsInv
<1>2. CASE Fail(t)
  <2>1. GoodThreads(thread')
    BY <1>1, <1>2, ReturnGood DEF Fail
  <2> QED
    BY <2>1 DEF DnsInv, get_ns_ips
<1>3. ASSUME NEW ns \in f.ns,
             Update(t, [f EXCEPT !.ns = @ \ {ns},
                                 !.servers = @ \cup {rr.data : rr \in get(ns, "A")}])
      PROVE  DnsInv'
  <2> DEFINE ips == {rr.data : rr \in get(ns, "A")}
             g == [f EXCEPT !.ns = @ \ {ns}, !.servers = @ \cup ips]
  <2>1. ips \in SUBSET Ip
    BY NsData DEF DnsInv
  <2>2. Update(t, g)
    BY <1>3
  <2> HIDE DEF ips, f
  <2>3. /\ g \in FrameSet /\ g.name = f.name /\ g.type = f.type /\ g.current = f.current
        /\ g.chain = f.chain /\ g.msg = f.msg /\ g.at = f.at /\ g.found = f.found
    BY <1>1, <2>1 DEF FrameSet
  <2> HIDE DEF g
  <2>4. Sound(g)
    BY <1>1, <2>3 DEF Sound, OnTheWay, ToThePoint, Manned
  <2>5. GoodThreads(thread')
    BY <1>1, <2>2, <2>3, <2>4, UpdateGood DEF f
  <2> QED
    BY <2>5 DEF DnsInv, get_ns_ips
<1>4. CASE f.servers # {} /\ Update(t, [f EXCEPT !.at = "look"])
  <2> DEFINE g == [f EXCEPT !.at = "look"]
  <2>1. Update(t, g)
    BY <1>4
  <2> HIDE DEF f
  <2>2. /\ g \in FrameSet /\ g.name = f.name /\ g.type = f.type /\ g.current = f.current
        /\ g.chain = f.chain /\ g.msg = f.msg /\ g.servers = f.servers /\ g.found = f.found
    BY <1>1 DEF FrameSet
  <2> HIDE DEF g
  <2>3. Sound(g)
    BY <1>1, <1>4, <2>2 DEF Sound, OnTheWay, ToThePoint, Manned
  <2>4. GoodThreads(thread')
    BY <1>1, <2>1, <2>2, <2>3, UpdateGood DEF f
  <2> QED
    BY <2>4 DEF DnsInv, get_ns_ips
<1> QED
  BY <1>2, <1>3, <1>4 DEF get_ns_ips

\* What is cached for the name the search is at completes its chain.
LEMMA IterateStep ==
    ASSUME DnsInv, NEW t \in Thread, Iterate(t)
    PROVE  DnsInv'
<1> DEFINE f == Top(t)
           rrs == get(f.current, f.type)
           g == [f EXCEPT !.at = "ask", !.iteration = @ + 1]
<1>1. /\ thread[t].at = "run" /\ f \in FrameSet /\ Sound(f) /\ GoodThreads(thread)
      /\ f.at = "look"
  BY TopGood DEF Iterate, Running, DnsInv
<1>2. CASE Fail(t)
  <2>1. GoodThreads(thread')
    BY <1>1, <1>2, ReturnGood DEF Fail
  <2> QED
    BY <2>1 DEF DnsInv, Iterate
<1>3. CASE Return(t, f.chain \cup rrs)
  <2>1. rrs \subseteq RR /\ rrs \subseteq Truth(f.current, f.type)
    BY GetReal DEF DnsInv
  <2> HIDE DEF rrs
  <2>2. f.chain \cup rrs \in SUBSET RR
    BY <1>1, <2>1 DEF FrameSet
  <2>3. f.chain \cup rrs \subseteq Truth(f.name, f.type)
    BY <1>1, <2>1 DEF Sound, OnTheWay
  <2>4. GoodThreads(thread')
    BY <1>1, <1>3, <2>2, <2>3, ReturnGood
  <2> QED
    BY <2>4 DEF DnsInv, Iterate
<1>4. CASE f.iteration < MAX_ITERATIONS /\ Update(t, g)
  <2> HIDE DEF f
  <2>1. /\ g \in FrameSet /\ g.name = f.name /\ g.type = f.type /\ g.current = f.current
        /\ g.chain = f.chain /\ g.msg = f.msg /\ g.servers = f.servers /\ g.found = f.found
    <3>1. f.iteration \in 0 .. MAX_ITERATIONS /\ MAX_ITERATIONS \in Nat
      BY <1>1, DnsAssumption DEF FrameSet
    <3>2. f.iteration + 1 \in 0 .. MAX_ITERATIONS
      BY <1>4, <3>1
    <3> QED
      BY <1>1, <3>2 DEF FrameSet
  <2>2. Update(t, g)
    BY <1>4
  <2> HIDE DEF g
  <2>3. Sound(g)
    BY <1>1, <2>1 DEF Sound, OnTheWay, ToThePoint, Manned
  <2>4. GoodThreads(thread')
    BY <1>1, <2>1, <2>2, <2>3, UpdateGood DEF f
  <2> QED
    BY <2>4 DEF DnsInv, Iterate
<1> QED
  BY <1>2, <1>3, <1>4 DEF Iterate

\* The message of an honest server is about the name the search is at.
LEMMA ReceiveStep ==
    ASSUME DnsInv, NEW t \in Thread, NEW ip \in Asked(t),
           NEW m \in Answer(ip, Top(t).current, Top(t).type), Receive(t, ip, m)
    PROVE  DnsInv'
<1> DEFINE f == Top(t)
           k == IF m.rcode = "NXDOMAIN" THEN [m EXCEPT !.answers = <<>>] ELSE m
           all == m.answers \o m.authorities \o m.additionals
           g == [f EXCEPT !.at = "store", !.todo = all, !.msg = k]
<1>1. thread[t].at = "run" /\ f.at = "ask" /\ ip \in f.servers
  BY DEF Asked, Running
<1>2. f \in FrameSet /\ Sound(f) /\ GoodThreads(thread)
  BY <1>1, TopGood DEF DnsInv
<1>3. Update(t, g)
  BY DEF Receive
<1> HIDE DEF f
<1>4. ip \in Ip /\ f.current \in Name /\ f.type \in Type
  BY <1>1, <1>2 DEF FrameSet
<1>5. /\ k \in Message /\ all \in Seq(Real)
      /\ RecordsOf(k.answers) \subseteq Truth(f.current, f.type)
      /\ Denies(k) => Data(f.current, f.type) = {}
  <2>1. m \in Answer(ip, f.current, f.type)
    BY DEF f
  <2>2. \A x : x = (IF m.rcode = "NXDOMAIN" THEN [m EXCEPT !.answers = <<>>] ELSE m) =>
           /\ x \in Message /\ all \in Seq(Real)
           /\ RecordsOf(x.answers) \subseteq Truth(f.current, f.type)
           /\ Denies(x) => Data(f.current, f.type) = {}
    BY <1>4, <2>1, MessageGood, Zenon
  <2> QED
    BY <2>2, Zenon
<1> HIDE DEF k, all
<1>6. /\ g \in FrameSet /\ g.name = f.name /\ g.type = f.type /\ g.current = f.current
      /\ g.chain = f.chain /\ g.msg = k /\ g.at = "store" /\ g.found = f.found
  BY <1>2, <1>5 DEF FrameSet
<1> HIDE DEF g
<1>7. Sound(g)
  BY <1>2, <1>5, <1>6 DEF Sound, OnTheWay, ToThePoint, Manned
<1>8. GoodThreads(thread')
  BY <1>1, <1>2, <1>3, <1>6, <1>7, UpdateGood DEF f
<1> QED
  BY <1>8 DEF DnsInv, Receive

\* A silent server is left out; the last one ends the search.
LEMMA TimeOutStep ==
    ASSUME DnsInv, NEW t \in Thread, NEW ip \in Asked(t), TimeOut(t, ip)
    PROVE  DnsInv'
<1> DEFINE f == Top(t)
           g == [f EXCEPT !.servers = @ \ {ip}]
<1>1. thread[t].at = "run" /\ f.at = "ask" /\ ip \in f.servers
  BY DEF Asked, Running
<1>2. f \in FrameSet /\ Sound(f) /\ GoodThreads(thread)
  BY <1>1, TopGood DEF DnsInv
<1>3. CASE f.servers = {ip}
  <2>1. GoodThreads(thread')
    BY <1>1, <1>2, <1>3, ReturnGood DEF TimeOut, Fail
  <2> QED
    BY <2>1 DEF DnsInv, TimeOut
<1>4. CASE f.servers # {ip}
  <2>1. Update(t, g)
    BY <1>4 DEF TimeOut
  <2> HIDE DEF f
  <2>2. f.servers \ {ip} \in SUBSET Ip /\ f.servers \ {ip} # {}
    BY <1>1, <1>2, <1>4 DEF FrameSet
  <2>3. /\ g \in FrameSet /\ g.name = f.name /\ g.type = f.type /\ g.current = f.current
        /\ g.chain = f.chain /\ g.msg = f.msg /\ g.servers = f.servers \ {ip} /\ g.found = f.found
    BY <1>2, <2>2 DEF FrameSet
  <2> HIDE DEF g
  <2>4. Sound(g)
    BY <1>2, <2>2, <2>3 DEF Sound, OnTheWay, ToThePoint, Manned
  <2>5. GoodThreads(thread')
    BY <1>1, <1>2, <2>1, <2>3, <2>4, UpdateGood DEF f
  <2> QED
    BY <2>5 DEF DnsInv, TimeOut
<1> QED
  BY <1>3, <1>4

\* put_all: every record that is stored is real.
LEMMA StoreStep ==
    ASSUME DnsInv, NEW t \in Thread, Store(t)
    PROVE  DnsInv'
<1> DEFINE f == Top(t)
<1>1. thread[t].at = "run" /\ f.at = "store" /\ f \in FrameSet /\ Sound(f) /\ GoodThreads(thread)
  BY TopGood DEF DnsInv, Store, Running
<1>2. CASE f.todo = <<>>
  <2> DEFINE g == [f EXCEPT !.at = "digest"]
  <2>1. Update(t, g) /\ UNCHANGED <<records, negatives>>
    BY <1>2 DEF Store
  <2> HIDE DEF f
  <2>2. /\ g \in FrameSet /\ g.name = f.name /\ g.type = f.type /\ g.current = f.current
        /\ g.chain = f.chain /\ g.msg = f.msg /\ g.at = "digest" /\ g.found = f.found
    BY <1>1 DEF FrameSet
  <2> HIDE DEF g
  <2>3. Sound(g)
    BY <1>1, <2>2 DEF Sound, OnTheWay, ToThePoint, Manned
  <2>4. GoodThreads(thread')
    BY <1>1, <2>1, <2>2, <2>3, UpdateGood DEF f
  <2> QED
    BY <2>1, <2>4 DEF DnsInv
<1>3. CASE f.todo # <<>>
  <2> DEFINE g == [f EXCEPT !.todo = Tail(@)]
  <2>1. Update(t, g) /\ records' = put(records, Head(f.todo)) /\ UNCHANGED negatives
    BY <1>3 DEF Store
  <2>2. f.todo \in Seq(Real)
    BY <1>1 DEF FrameSet
  <2>3. Head(f.todo) \in Real /\ Tail(f.todo) \in Seq(Real)
    BY <1>3, <2>2, HeadTailProperties
  <2> HIDE DEF f
  <2>4. /\ g \in FrameSet /\ g.name = f.name /\ g.type = f.type /\ g.current = f.current
        /\ g.chain = f.chain /\ g.msg = f.msg /\ g.at = "store" /\ g.found = f.found
    BY <1>1, <2>3 DEF FrameSet
  <2> HIDE DEF g
  <2>5. Sound(g)
    BY <1>1, <2>4 DEF Sound, OnTheWay, ToThePoint, Manned
  <2>6. GoodThreads(thread')
    BY <1>1, <2>1, <2>4, <2>5, UpdateGood DEF f
  <2>7. GoodRecords(records')
    BY <2>1, <2>3, PutGood DEF DnsInv
  <2> QED
    BY <2>1, <2>6, <2>7 DEF DnsInv
<1> QED
  BY <1>2, <1>3

\* An alias in the answers: the search goes on with the name it points to,
\* which leads where the name asked for leads.
LEMMA FollowStep ==
    ASSUME DnsInv, NEW t \in Thread, Running(t, "digest"), Top(t).type # "CNAME",
           NEW c \in find_cname(Top(t).msg.answers),
           Top(t).cname_depth < MAX_CNAME_DEPTH,
           Update(t, get_nameservers(
                        [Top(t) EXCEPT !.cname_depth = @ + 1, !.current = c.data,
                                       !.chain = @ \cup {c}, !.msg = NoMessage]))
    PROVE  GoodThreads(thread')
<1> DEFINE f == Top(t)
           g == [f EXCEPT !.cname_depth = @ + 1, !.current = c.data,
                          !.chain = @ \cup {c}, !.msg = NoMessage]
           h == get_nameservers(g)
<1>1. thread[t].at = "run" /\ f.at = "digest" /\ f \in FrameSet /\ Sound(f) /\ GoodThreads(thread)
  BY TopGood DEF DnsInv, Running
<1>2. Update(t, h)
  OBVIOUS
<1>4. c \in f.chain \cup RecordsOf(f.msg.answers) /\ c.type = "CNAME" /\ c \in RecordsOf(f.msg.answers)
  BY FirstIsOne DEF find_cname, extract_matching
<1> HIDE DEF f
<1>5. f.msg.answers \in Seq(Real)
  BY <1>1 DEF FrameSet, Message
<1>6. c \in RR /\ c.data \in Name
  BY <1>4, <1>5, SectionReal DEF RR
<1>7. c \in Truth(f.current, f.type)
  BY <1>1, <1>4 DEF Sound, ToThePoint
<1>8. f.current \in Name /\ f.type \in Type \ {"CNAME"} /\ f.chain \in SUBSET RR
  BY <1>1 DEF FrameSet, f
<1>9. /\ Truth(c.data, f.type) \subseteq Truth(f.current, f.type)
      /\ Data(c.data, f.type) = Data(f.current, f.type)
  BY <1>4, <1>7, <1>8, WorldAssumption
<1>10. f.cname_depth + 1 \in 0 .. MAX_CNAME_DEPTH
  <2>1. f.cname_depth \in 0 .. MAX_CNAME_DEPTH /\ f.cname_depth < MAX_CNAME_DEPTH /\ MAX_CNAME_DEPTH \in Nat
    BY <1>1, DnsAssumption DEF FrameSet, f
  <2> QED
    BY <2>1
<1>11. f.chain \cup {c} \in SUBSET RR
  BY <1>6, <1>8
<1> HIDE DEF h
<1>12. /\ g \in FrameSet /\ g.name = f.name /\ g.type = f.type /\ g.current = c.data
       /\ g.chain = f.chain \cup {c} /\ g.msg = NoMessage /\ g.found = f.found
  BY <1>1, <1>6, <1>10, <1>11, NoMessageGood DEF FrameSet
<1> HIDE DEF g
<1>13. OnTheWay(g)
  BY <1>1, <1>7, <1>9, <1>12 DEF Sound, OnTheWay
<1>14. ToThePoint(g)
  BY <1>12, NoMessageGood DEF ToThePoint
<1>15. \A i \in 1 .. Len(g.found) : g.found[i].ips # {}
  BY <1>1, <1>12 DEF Sound, Manned
<1>16. h \in FrameSet /\ Sound(h) /\ h.name = g.name /\ h.type = g.type
  BY <1>12, <1>13, <1>14, <1>15, GatherGood DEF h, DnsInv
<1> QED
  BY <1>1, <1>2, <1>12, <1>16, UpdateGood DEF f

\* Answers end the search with true records or lead on to an alias.
LEMMA DigestAnswersStep ==
    ASSUME DnsInv, NEW t \in Thread, DigestAnswers(t)
    PROVE  DnsInv'
<1> DEFINE f == Top(t)
           matching == extract_matching(f.msg.answers, f.type)
<1>1. /\ thread[t].at = "run" /\ f.at = "digest" /\ f \in FrameSet /\ Sound(f) /\ GoodThreads(thread)
      /\ Running(t, "digest")
  BY TopGood DEF DnsInv, DigestAnswers, Running
<1>2. f.msg.answers \in Seq(Real) /\ f.chain \in SUBSET RR
  BY <1>1 DEF FrameSet, Message
<1>3. f.chain \subseteq Truth(f.name, f.type)
  BY <1>1 DEF Sound, OnTheWay
<1>4. CASE Fail(t)
  BY <1>1, <1>4, ReturnGood DEF Fail, DnsInv, DigestAnswers
<1>5. CASE Return(t, f.chain)
  BY <1>1, <1>2, <1>3, <1>5, ReturnGood DEF DnsInv, DigestAnswers
<1>6. CASE Return(t, f.chain \cup matching)
  <2>1. matching \subseteq RR
    BY <1>2, SectionReal DEF extract_matching
  <2>2. matching \subseteq Truth(f.name, f.type)
    BY <1>1 DEF Sound, OnTheWay, ToThePoint, extract_matching
  <2> HIDE DEF matching
  <2>3. f.chain \cup matching \in SUBSET RR /\ f.chain \cup matching \subseteq Truth(f.name, f.type)
    BY <1>2, <1>3, <2>1, <2>2
  <2>4. GoodThreads(thread')
    BY <1>1, <1>6, <2>3, ReturnGood
  <2> QED
    BY <2>4 DEF DnsInv, DigestAnswers
<1>7. CASE /\ f.type # "CNAME" /\ ~(f.cname_depth >= MAX_CNAME_DEPTH)
           /\ \E c \in find_cname(f.msg.answers) :
                 Update(t, get_nameservers(
                              [f EXCEPT !.cname_depth = @ + 1, !.current = c.data,
                                        !.chain = @ \cup {c}, !.msg = NoMessage]))
  <2>1. f.cname_depth < MAX_CNAME_DEPTH
    BY <1>1, <1>7, DnsAssumption DEF FrameSet
  <2>2. GoodThreads(thread')
    BY <1>1, <1>7, <2>1, FollowStep
  <2> QED
    BY <2>2 DEF DnsInv, DigestAnswers
<1> QED
  BY <1>4, <1>5, <1>6, <1>7 DEF DigestAnswers

\* A referral leaves the chain alone and starts with nothing found.
LEMMA DigestReferralStep ==
    ASSUME DnsInv, NEW t \in Thread, DigestReferral(t)
    PROVE  DnsInv'
<1> DEFINE f == Top(t)
           g == [f EXCEPT !.at = "refer", !.todo = f.msg.authorities, !.found = <<>>]
<1>1. thread[t].at = "run" /\ f.at = "digest" /\ f \in FrameSet /\ Sound(f) /\ GoodThreads(thread)
  BY TopGood DEF DnsInv, DigestReferral, Running
<1>2. Update(t, g)
  BY DEF DigestReferral
<1> HIDE DEF f
<1>3. f.msg.authorities \in Seq(Real) /\ <<>> \in Seq([ns : Name, ips : SUBSET Ip])
  BY <1>1 DEF FrameSet, Message
<1>4. /\ g \in FrameSet /\ g.name = f.name /\ g.type = f.type /\ g.current = f.current
      /\ g.chain = f.chain /\ g.msg = f.msg /\ g.at = "refer" /\ g.found = <<>>
  BY <1>1, <1>3 DEF FrameSet
<1> HIDE DEF g
<1>5. Sound(g)
  BY <1>1, <1>4 DEF Sound, OnTheWay, ToThePoint, Manned
<1>6. GoodThreads(thread')
  BY <1>1, <1>2, <1>4, <1>5, UpdateGood DEF f
<1> QED
  BY <1>6 DEF DnsInv, DigestReferral

\* A denial is of the name the search is at, and so of the one asked for.
LEMMA DigestDenialStep ==
    ASSUME DnsInv, NEW t \in Thread, DigestDenial(t)
    PROVE  DnsInv'
<1> DEFINE f == Top(t)
<1>1. thread[t].at = "run" /\ f.at = "digest" /\ f \in FrameSet /\ Sound(f) /\ GoodThreads(thread)
  BY TopGood DEF DnsInv, DigestDenial, Running
<1>2. GoodThreads(thread')
  BY <1>1, ReturnGood DEF DigestDenial
<1>3. GoodNegatives(negatives')
  <2>1. CASE UNCHANGED negatives
    BY <2>1 DEF DnsInv
  <2>2. ASSUME NEW soa \in extract_soa(f.msg.authorities),
               extract_matching(f.msg.authorities, "SOA") # {},
               negatives' = put_nxdomain(negatives, f.name, f.type, soa.minimum)
        PROVE  GoodNegatives(negatives')
    <3>1. f.msg.authorities \in Seq(Real) /\ f.name \in Name /\ f.type \in Type
      BY <1>1 DEF FrameSet, Message
    <3>2. soa \in RR
      BY <3>1, FirstIsOne, SectionReal DEF extract_soa, extract_matching
    <3>3. soa.minimum \in 0 .. MaxTtl
      BY <3>2 DEF RR
    <3>4. Denies(f.msg)
      BY <2>2 DEF DigestDenial, Denies
    <3>5. Data(f.name, f.type) = {}
      BY <1>1, <3>4 DEF Sound, ToThePoint, OnTheWay
    <3> HIDE DEF f
    <3> QED
      BY <2>2, <3>1, <3>3, <3>5, PutNxdomainGood DEF DnsInv
  <2> QED
    BY <2>1, <2>2 DEF DigestDenial
<1> QED
  BY <1>2, <1>3 DEF DnsInv, DigestDenial

\* A frame that notes the addresses of one more name server
LEMMA ServedGood ==
    ASSUME NEW f \in FrameSet, Sound(f), NEW ns \in Name, NEW ips \in SUBSET Ip, NEW rest \in Seq(Real)
    PROVE  /\ Served(f, ns, ips, rest) \in FrameSet /\ Sound(Served(f, ns, ips, rest))
           /\ Served(f, ns, ips, rest).name = f.name /\ Served(f, ns, ips, rest).type = f.type
<1> DEFINE n == Found(f.found, ns, ips)
           g == [f EXCEPT !.found = n, !.todo = rest]
<1>1. g = Served(f, ns, ips, rest)
  BY DEF Served, FrameSet
<1>2. /\ n \in Seq([ns : Name, ips : SUBSET Ip])
      /\ \A i \in 1 .. Len(n) : n[i].ips # {}
  <2>1. /\ f.found \in Seq([ns : Name, ips : SUBSET Ip])
        /\ \A i \in 1 .. Len(f.found) : f.found[i].ips # {}
    BY DEF FrameSet, Sound, Manned
  <2> QED
    BY <2>1, FoundGood
<1> HIDE DEF n
<1>3. /\ g \in FrameSet /\ g.name = f.name /\ g.type = f.type /\ g.current = f.current
      /\ g.chain = f.chain /\ g.msg = f.msg /\ g.at = f.at /\ g.servers = f.servers /\ g.found = n
  BY <1>2 DEF FrameSet
<1> HIDE DEF g
<1>4. Sound(g)
  BY <1>2, <1>3 DEF Sound, OnTheWay, ToThePoint, Manned
<1> QED
  BY <1>1, <1>3, <1>4

\* The addresses of a name server are noted, or searched for one level deeper.
LEMMA ReferNsStep ==
    ASSUME DnsInv, NEW t \in Thread, ReferNs(t)
    PROVE  DnsInv'
<1> DEFINE f == Top(t)
<1>1. thread[t].at = "run" /\ f \in FrameSet /\ Sound(f) /\ GoodThreads(thread)
  BY TopGood DEF DnsInv, ReferNs, Running
<1>2. PICK i \in NextNs(f.todo) :
        LET ns == f.todo[i].data
            rest == SubSeq(f.todo, i + 1, Len(f.todo))
            glue == Glue(f.msg.additionals, ns)
            cached == {rr.data : rr \in get(ns, "A")}
        IN  IF glue # {} THEN Update(t, Served(f, ns, glue, rest))
            ELSE IF cached # {} THEN Update(t, Served(f, ns, cached, rest))
            ELSE IF glue_depth(t) >= MAX_GLUE_DEPTH THEN Update(t, Served(f, ns, {}, rest))
            ELSE Call(t, Served(f, ns, {}, rest), Frame(ns, "A"))
  BY DEF ReferNs
<1> DEFINE ns == f.todo[i].data
           rest == SubSeq(f.todo, i + 1, Len(f.todo))
           glue == Glue(f.msg.additionals, ns)
           cached == {rr.data : rr \in get(ns, "A")}
<1>3. \/ Update(t, Served(f, ns, glue, rest)) \/ Update(t, Served(f, ns, cached, rest))
      \/ Update(t, Served(f, ns, {}, rest))
      \/ ~(glue_depth(t) >= MAX_GLUE_DEPTH) /\ Call(t, Served(f, ns, {}, rest), Frame(ns, "A"))
  BY <1>2
<1>4. f.todo \in Seq(Real) /\ f.msg.additionals \in Seq(Real)
  BY <1>1 DEF FrameSet, Message
<1>5. Len(f.todo) \in Nat /\ i \in 1 .. Len(f.todo) /\ f.todo[i] \in Real /\ f.todo[i].type = "NS"
  BY <1>2, <1>4, LenProperties DEF NextNs
<1>6. ns \in Name
  BY <1>5 DEF Real, RR
<1>7. rest \in Seq(Real)
  <2>1. \A j \in i + 1 .. Len(f.todo) : f.todo[j] \in Real
    BY <1>4, <1>5, LenProperties
  <2> QED
    BY <1>5, <2>1, SubSeqProperties, i + 1 \in Int, Len(f.todo) \in Int
<1>8. glue \in SUBSET Ip
  BY <1>4, GlueAddresses
<1>9. cached \in SUBSET Ip
  <2>1. \A rr \in get(ns, "A") : rr \in RR /\ rr.type = "A"
    BY GetReal DEF DnsInv
  <2> QED
    BY <2>1 DEF RR
<1> HIDE DEF f, ns, rest, glue, cached
<1>10. ASSUME NEW ips \in SUBSET Ip, Update(t, Served(f, ns, ips, rest))
       PROVE  GoodThreads(thread')
  <2> DEFINE g == Served(f, ns, ips, rest)
  <2>1. g \in FrameSet /\ Sound(g) /\ g.name = f.name /\ g.type = f.type
    BY <1>1, <1>6, <1>7, ServedGood
  <2>2. Update(t, g)
    BY <1>10
  <2> HIDE DEF g
  <2> QED
    BY <1>1, <2>1, <2>2, UpdateGood DEF f
<1>11. ASSUME ~(glue_depth(t) >= MAX_GLUE_DEPTH), Call(t, Served(f, ns, {}, rest), Frame(ns, "A"))
       PROVE  GoodThreads(thread')
  <2> DEFINE g == Served(f, ns, {}, rest)
             h == Frame(ns, "A")
  <2>1. g \in FrameSet /\ Sound(g) /\ g.name = f.name /\ g.type = f.type
    BY <1>1, <1>6, <1>7, ServedGood
  <2>2. h \in FrameSet /\ Sound(h)
    BY <1>6, FrameGood, DnsAssumption
  <2>3. glue_depth(t) < MAX_GLUE_DEPTH
    <3>1. glue_depth(t) \in Int
      BY <1>1, TopGood DEF glue_depth
    <3> QED
      BY <1>11, <3>1, DnsAssumption
  <2>4. Call(t, g, h)
    BY <1>11
  <2> HIDE DEF g, h
  <2> QED
    BY <1>1, <2>1, <2>2, <2>3, <2>4, CallGood DEF f
<1>12. GoodThreads(thread')
  BY <1>3, <1>8, <1>9, <1>10, <1>11
<1> QED
  BY <1>12 DEF DnsInv, ReferNs

\* A referral that is followed has a server.
LEMMA ReferStep ==
    ASSUME DnsInv, NEW t \in Thread, Refer(t)
    PROVE  DnsInv'
<1> DEFINE f == Top(t)
           S == [ns : Name, ips : SUBSET Ip]
           ns_key == [i \in 1 .. Len(f.found) |-> <<f.found[i].ns, Cardinality(f.found[i].ips)>>]
           all == UNION {f.found[i].ips : i \in 1 .. Len(f.found)}
           g == [f EXCEPT !.visited = @ \cup {ns_key}, !.servers = all,
                          !.todo = <<>>, !.found = <<>>, !.msg = NoMessage, !.at = "look"]
<1>1. thread[t].at = "run" /\ f \in FrameSet /\ Sound(f) /\ GoodThreads(thread)
  BY TopGood DEF DnsInv, Refer, Running
<1>2. CASE Fail(t)
  BY <1>1, <1>2, ReturnGood DEF Fail, DnsInv, Refer
<1>3. CASE f.found # <<>> /\ Update(t, g)
  <2>1. Update(t, g)
    BY <1>3
  <2> HIDE DEF f
  <2>2. /\ f.found \in Seq(S) /\ f.found # <<>> /\ f.visited \in SUBSET Seq(Name \X Nat)
        /\ \A i \in 1 .. Len(f.found) : f.found[i].ips # {}
    BY <1>1, <1>3 DEF FrameSet, Sound, Manned
  <2>3. Len(f.found) \in Nat \ {0} /\ \A i \in 1 .. Len(f.found) : f.found[i] \in S
    BY <2>2, EmptySeq, LenProperties
  <2>4. all \in SUBSET Ip
    BY <2>3
  <2>5. all # {}
    <3>1. 1 \in 1 .. Len(f.found)
      BY <2>3
    <3> QED
      BY <2>2, <3>1
  <2>6. ns_key \in Seq(Name \X Nat)
    <3>1. \A i \in 1 .. Len(f.found) : Cardinality(f.found[i].ips) \in Nat
      <4> SUFFICES ASSUME NEW i \in 1 .. Len(f.found) PROVE Cardinality(f.found[i].ips) \in Nat
        OBVIOUS
      <4>1. f.found[i].ips \subseteq Ip
        BY <2>3
      <4>2. IsFiniteSet(f.found[i].ips)
        BY <4>1, WorldAssumption, FS_Subset
      <4> QED
        BY <4>2, FS_CardinalityType
    <3>2. \A i \in 1 .. Len(f.found) : <<f.found[i].ns, Cardinality(f.found[i].ips)>> \in Name \X Nat
      BY <2>3, <3>1
    <3> QED
      BY <2>3, <3>2
  <2> HIDE DEF ns_key, all
  <2>7. f.visited \cup {ns_key} \in SUBSET Seq(Name \X Nat)
    BY <2>2, <2>6
  <2>8. /\ g \in FrameSet /\ g.name = f.name /\ g.type = f.type /\ g.current = f.current
        /\ g.chain = f.chain /\ g.msg = NoMessage /\ g.servers = all /\ g.found = <<>>
    <3>1. <<>> \in Seq(Real) /\ <<>> \in Seq([ns : Name, ips : SUBSET Ip])
      OBVIOUS
    <3> QED
      BY <1>1, <2>4, <2>7, <3>1, NoMessageGood DEF FrameSet
  <2> HIDE DEF g
  <2>9. Sound(g)
    BY <1>1, <2>5, <2>8, NoMessageGood DEF Sound, OnTheWay, ToThePoint, Manned
  <2>10. GoodThreads(thread')
    BY <1>1, <2>1, <2>8, <2>9, UpdateGood DEF f
  <2> QED
    BY <2>10 DEF DnsInv, Refer
<1> QED
  BY <1>2, <1>3 DEF Refer

-----------------------------------------------------------------------------
(* The theorems *)

\* The root hints are real and no thread runs.
LEMMA DnsInvInit == Init => DnsInv
<1> SUFFICES ASSUME Init PROVE DnsInv
  OBVIOUS
<1>1. GoodRecords(records)
  <2>1. \A rr \in RootHints : rr \in Real
    BY WorldAssumption
  <2>2. \A rr \in RootHints : Lasting([rr |-> rr, left |-> rr.ttl]) \subseteq [rr : Real, left : 1 .. MaxTtl]
    BY <2>1, LastingEntry, Zenon
  <2> QED
    BY <2>2, Zenon DEF Init, GoodRecords
<1>2. GoodNegatives(negatives)
  BY DEF Init, GoodNegatives
<1>3. Idle \in ThreadSet /\ GoodThread(Idle)
  <2>1. Idle \in ThreadSet /\ Idle.stack = <<>> /\ Idle.at = "idle" /\ Idle.result = {}
    <3>1. <<>> \in Seq(FrameSet)
      OBVIOUS
    <3> QED
      BY <3>1, DnsAssumption DEF Idle, ThreadSet, Rcode
  <2> QED
    BY <2>1, DnsAssumption DEF GoodThread
<1>4. GoodThreads(thread)
  BY <1>3 DEF Init, GoodThreads
<1> QED
  BY <1>1, <1>2, <1>4 DEF DnsInv

\* Every step keeps the invariant.
LEMMA DnsInvNext == DnsInv /\ [Next]_vars => DnsInv'
<1> SUFFICES ASSUME DnsInv, [Next]_vars PROVE DnsInv'
  OBVIOUS
<1>1. ASSUME NEW t \in Thread, Step(t) PROVE DnsInv'
  <2>1. CASE LookUp(t) \/ LookUpNegative(t) \/ Reply(t)
    BY <2>1, LookUpStep, LookUpNegativeStep, ReplyStep
  <2>2. CASE Begin(t) \/ get_ns_ips(t) \/ Iterate(t) \/ Store(t)
    BY <2>2, BeginStep, GetNsIpsStep, IterateStep, StoreStep
  <2>3. ASSUME NEW ip \in Asked(t),
               \/ \E m \in Answer(ip, Top(t).current, Top(t).type) : Receive(t, ip, m)
               \/ TimeOut(t, ip)
        PROVE  DnsInv'
    BY <2>3, ReceiveStep, TimeOutStep
  <2>4. CASE DigestAnswers(t) \/ DigestReferral(t) \/ DigestDenial(t)
    BY <2>4, DigestAnswersStep, DigestReferralStep, DigestDenialStep
  <2>5. CASE ReferNs(t) \/ Refer(t)
    BY <2>5, ReferNsStep, ReferStep
  <2> QED
    BY <1>1, <2>1, <2>2, <2>3, <2>4, <2>5 DEF Step
<1>2. CASE Elapse
  BY <1>2, OlderRecords, OlderNegatives DEF Elapse, DnsInv
<1>3. CASE UNCHANGED vars
  BY <1>3 DEF DnsInv, vars
<1> QED
  BY <1>1, <1>2, <1>3, SpawnStep DEF Next, Within

\* The invariant always holds.
LEMMA DnsInvariant == Spec => []DnsInv
  BY DnsInvInit, DnsInvNext, PTL DEF Spec

\* The types of cache and threads, and the limits of the search: iterations,
\* aliases and depth of recursion (resolve_iterative, extract_referral).
THEOREM TypeCorrect == Spec => []TypeOK
<1>1. DnsInv => TypeOK
  <2> SUFFICES ASSUME DnsInv PROVE TypeOK
    OBVIOUS
  <2>1. records \subseteq [rr : RR, left : 1 .. MaxTtl]
    BY DEF DnsInv, GoodRecords, Real
  <2>2. negatives \subseteq [name : Name, type : Type, left : 1 .. MaxTtl]
    BY DEF DnsInv, GoodNegatives
  <2>3. ASSUME NEW t \in Thread
        PROVE  /\ thread[t] \in ThreadSet /\ GoodThread(thread[t])
               /\ thread[t].stack \in Seq(FrameSet)
    BY DEF DnsInv, GoodThreads, ThreadSet
  <2>4. ASSUME NEW t \in Thread, NEW i \in 1 .. Len(thread[t].stack)
        PROVE  /\ thread[t].stack[i].iteration <= MAX_ITERATIONS
               /\ thread[t].stack[i].cname_depth <= MAX_CNAME_DEPTH
               /\ thread[t].stack[i].servers \subseteq Ip
    <3> DEFINE f == thread[t].stack[i]
    <3>1. f \in FrameSet
      BY <2>3, <2>4, LenProperties
    <3> HIDE DEF f
    <3>2. /\ f.iteration \in 0 .. MAX_ITERATIONS /\ f.cname_depth \in 0 .. MAX_CNAME_DEPTH
          /\ f.servers \subseteq Ip
      BY <3>1 DEF FrameSet
    <3>3. f.iteration <= MAX_ITERATIONS /\ f.cname_depth <= MAX_CNAME_DEPTH
      BY <3>2, DnsAssumption
    <3> QED
      BY <3>2, <3>3 DEF f
  <2>5. ASSUME NEW t \in Thread
        PROVE  /\ thread[t].at \in {"idle", "cache", "negative", "run", "reply", "done"}
               /\ thread[t].name \in Name /\ thread[t].type \in Type
               /\ thread[t].result \subseteq RR
               /\ (thread[t].at = "run") <=> (thread[t].stack # <<>>)
               /\ Len(thread[t].stack) <= MAX_GLUE_DEPTH + 1
    BY <2>3 DEF ThreadSet, GoodThread
  <2> QED
    BY <2>1, <2>2, <2>4, <2>5 DEF TypeOK
<1> QED
  BY <1>1, DnsInvariant, PTL

\* What a client is told is true (resolve): whoever filled the cache, and
\* whatever expired while the thread was searching, the records it returns
\* answer the question of its query.
THEOREM TellsTheTruth == Spec => []AnswersAreTrue
<1>1. DnsInv => AnswersAreTrue
  BY DEF DnsInv, GoodThreads, GoodThread, AnswersAreTrue
<1> QED
  BY <1>1, DnsInvariant, PTL

\* The negative cache denies only what does not exist (put_nxdomain), although
\* the denial met at the end of a chain of aliases is stored under its start.
THEOREM DeniesWhatIsNot == Spec => []NegativeIsTrue
<1>1. DnsInv => NegativeIsTrue
  BY DEF DnsInv, GoodNegatives, NegativeIsTrue, Data
<1> QED
  BY <1>1, DnsInvariant, PTL

\* query_best_server is never called with an empty list of servers.
THEOREM HasSomeoneToAsk == Spec => []SomeoneToAsk
<1>1. DnsInv => SomeoneToAsk
  BY TopGood DEF DnsInv, SomeoneToAsk, Running, Sound, Manned
<1> QED
  BY <1>1, DnsInvariant, PTL
=============================================================================
