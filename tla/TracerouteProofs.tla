-------------------------- MODULE TracerouteProofs --------------------------
(***************************************************************************)
(* ReportIsTrue holds for every command line, every path and every order   *)
(* in which answers come, are repeated or are lost.  The report is made    *)
(* up probe by probe, so the induction is on what each probe, each hop and *)
(* each line says, and on the markers: fewer probes are sent than there    *)
(* are 16-bit numbers, so that a marker finds at most one of them.         *)
(***************************************************************************)
EXTENDS Traceroute, SequenceTheorems, FiniteSetTheorems, TLAPS

-----------------------------------------------------------------------------
(* The inductive invariant *)

Hops == config.max_hops - config.first_ttl + 1
Base == IF mode = "udp" THEN BASE_PORT ELSE 0

Kind == {"exceeded", "unreachable", "port", "reply"}
Probe == [ttl : 0 .. U8 - 1, marker : 0 .. U16 - 1, received : BOOLEAN,
          answer : [from : Address, kind : Kind]]

Collecting == {"loop", "recv", "print", "done"}

\* The probes are in the order of their markers, which do not come round, and
\* their ttls are those of the command line.
ProbesInv ==
    /\ config \in Config /\ mode \in {"udp", "icmp"}
    /\ pc \in {"start", "send", "error", "panic"} \cup Collecting
    /\ probes \in Seq(Probe)
    /\ marker = (Base + Len(probes)) % U16
    /\ \A i \in 1 .. Len(probes) :
          /\ probes[i].marker = (Base + (i - 1)) % U16
          /\ probes[i].ttl > 0 /\ probes[i].ttl \in config.first_ttl .. config.max_hops
    /\ config.first_ttl > config.max_hops \/ config.first_ttl = 0 => Len(probes) = 0
    /\ config.first_ttl <= config.max_hops => Len(probes) <= Hops * config.nqueries
    /\ config.first_ttl <= config.max_hops /\ pc \in Collecting =>
          config.first_ttl > 0 /\ Len(probes) = Hops * config.nqueries

\* Nothing is received before all is sent.
CountInv ==
    /\ pc \in {"start", "send"} =>
          arrived = {} /\ mistaken = {} /\ Received = {} /\ target_reached_at = 0
    /\ pc = "send" => unreceived = Wrap(Hops, U8) * config.nqueries
    /\ pc \in Collecting /\ config.first_ttl <= config.max_hops =>
          unreceived = Len(probes) - Cardinality(Received)
    /\ hop_addrs \in [DOMAIN hop_addrs -> Address \cup {NoAddr}]
    /\ DOMAIN hop_addrs \subseteq Nat

\* What is known of a hop comes from a probe with its ttl.
ReportInv ==
    /\ arrived \subseteq DOMAIN probes /\ mistaken \subseteq Received
    /\ mode = "icmp" => mistaken = {}
    /\ \A i \in DOMAIN probes \ mistaken :
          probes[i].received
             <=> i \in arrived /\ Accepted([kind |-> probes[i].answer.kind, own |-> TRUE])
    /\ \A t \in DOMAIN hop_addrs :
          \/ hop_addrs[t] = NoAddr /\ \A i \in Received : probes[i].ttl # t - 1
          \/ \E i \in Received :
                /\ probes[i].ttl = t - 1
                /\ hop_addrs[t] \in Address
                /\ i \in mistaken \/ hop_addrs[t] = probes[i].answer.from
    /\ target_reached_at # 0 => target_reached_at \in config.first_ttl .. config.max_hops
    /\ mistaken = {} =>
          /\ target_reached_at # 0 =>
                \E i \in Received : Final(probes[i].answer) /\ probes[i].ttl = target_reached_at
          /\ \A i \in Received :
                Final(probes[i].answer) => target_reached_at # 0 /\ target_reached_at <= probes[i].ttl

\* The lines so far go from the first ttl, and not beyond the target.
PrintInv ==
    /\ printed \in Seq([ttl : Nat, addr : Address \cup {NoAddr}, got : SUBSET Nat])
    /\ \A i \in 1 .. Len(printed) : printed[i].ttl = config.first_ttl + i - 1
    /\ pc \in {"start", "send", "loop", "recv"} => Len(printed) = 0
    /\ config.first_ttl <= config.max_hops /\ pc = "print" =>
          /\ config.first_ttl + Len(printed) <= config.max_hops + 1
          /\ target_reached_at # 0 => config.first_ttl + Len(printed) <= target_reached_at
    /\ config.first_ttl <= config.max_hops /\ pc = "done" =>
          Len(printed) = (IF target_reached_at = 0 THEN config.max_hops ELSE target_reached_at)
                            - config.first_ttl + 1

TraceInv == ProbesInv /\ CountInv /\ (pc # "panic" => ReportInv) /\ PrintInv

-----------------------------------------------------------------------------
(* Numbers *)

LEMMA DivLess ==
    ASSUME NEW n \in Nat, NEW q \in Nat \ {0}, NEW h \in Nat
    PROVE  n \div q \in Nat /\ (n \div q < h <=> n < h * q)
  OBVIOUS

LEMMA MulOrder ==
    ASSUME NEW m \in Nat, NEW n \in Nat, NEW q \in Nat, m <= n
    PROVE  m * q \in Nat /\ n * q \in Nat /\ m * q <= n * q
  OBVIOUS

\* Markers go up by one and come round after u of them.
LEMMA MarkNext ==
    ASSUME NEW u \in Nat \ {0}, NEW b \in 0 .. u - 1, NEW k \in 0 .. u
    PROVE  (b + k) % u \in 0 .. u - 1 /\ (((b + k) % u) + 1) % u = (b + (k + 1)) % u
  OBVIOUS

LEMMA MarkInjective ==
    ASSUME NEW u \in Nat \ {0}, NEW b \in 0 .. u - 1, NEW j \in 0 .. u - 1, NEW k \in 0 .. u - 1,
           (b + j) % u = (b + k) % u
    PROVE  j = k
<1>1. \A i \in 0 .. u - 1 : (b + i) % u = IF b + i < u THEN b + i ELSE b + i - u
  OBVIOUS
<1> QED
  BY <1>1

LEMMA CommandLine ==
    ASSUME config \in Config
    PROVE  /\ config.first_ttl \in 0 .. U8 - 1 /\ config.max_hops \in 0 .. U8 - 1
           /\ config.nqueries \in 0 .. U8 - 1 /\ Hops \in Int
           /\ config.first_ttl <= config.max_hops =>
                 Hops \in Nat /\ Hops * config.nqueries \in Nat /\ Hops * config.nqueries <= U16
<1>1. /\ config.first_ttl \in 0 .. U8 - 1 /\ config.max_hops \in 0 .. U8 - 1
      /\ config.nqueries \in 0 .. U8 - 1 /\ (config.max_hops + 1) * config.nqueries <= U16
      /\ U8 \in Nat /\ U16 \in Nat
  BY TracerouteAssumption
<1>2. Hops \in Int
  BY <1>1 DEF Hops
<1>3. ASSUME config.first_ttl <= config.max_hops
      PROVE  Hops \in Nat /\ Hops * config.nqueries \in Nat /\ Hops * config.nqueries <= U16
  <2>1. Hops \in Nat /\ Hops <= config.max_hops + 1 /\ config.max_hops + 1 \in Nat /\ config.nqueries \in Nat
    BY <1>1, <1>3 DEF Hops
  <2>2. /\ Hops * config.nqueries \in Nat /\ (config.max_hops + 1) * config.nqueries \in Nat
        /\ Hops * config.nqueries <= (config.max_hops + 1) * config.nqueries
    BY <2>1, MulOrder
  <2> QED
    BY <1>1, <2>1, <2>2
<1> QED
  BY <1>1, <1>2, <1>3

LEMMA BaseType == Base \in 0 .. U16 - 1
  BY TracerouteAssumption DEF Base

\* A marker finds at most one probe.
LEMMA MarkersDiffer ==
    ASSUME ProbesInv, NEW i \in 1 .. Len(probes), NEW j \in 1 .. Len(probes),
           probes[i].marker = probes[j].marker
    PROVE  i = j
<1>1. Len(probes) \in Nat
  BY DEF ProbesInv
<1>2. config \in Config
  BY DEF ProbesInv
<1>3. Len(probes) <= U16 /\ U16 \in Nat \ {0}
  <2>1. config.first_ttl > config.max_hops => Len(probes) = 0
    BY DEF ProbesInv
  <2>2. config.first_ttl <= config.max_hops => Len(probes) <= Hops * config.nqueries
    BY DEF ProbesInv
  <2>3. config.first_ttl \in 0 .. U8 - 1 /\ config.max_hops \in 0 .. U8 - 1 /\ U8 \in Nat /\ U16 \in Nat \ {0}
    BY <1>2, CommandLine, TracerouteAssumption
  <2>4. CASE config.first_ttl > config.max_hops
    BY <2>1, <2>3, <2>4
  <2>5. CASE config.first_ttl <= config.max_hops
    <3>1. Hops * config.nqueries \in Nat /\ Hops * config.nqueries <= U16
      BY <2>5, <1>2, CommandLine
    <3> DEFINE all == Hops * config.nqueries
    <3>2. all \in Nat /\ all <= U16 /\ Len(probes) <= all
      BY <3>1, <2>2, <2>5
    <3> HIDE DEF all
    <3> QED
      BY <3>2, <2>3, <1>1
  <2> QED
    BY <2>3, <2>4, <2>5
<1>4. /\ i - 1 \in 0 .. U16 - 1 /\ j - 1 \in 0 .. U16 - 1
  BY <1>1, <1>3
<1>5. (Base + (i - 1)) % U16 = (Base + (j - 1)) % U16
  BY DEF ProbesInv
<1>6. i - 1 = j - 1
  BY <1>3, <1>4, <1>5, BaseType, MarkInjective
<1> QED
  BY <1>6

-----------------------------------------------------------------------------
(* The steps other than the receipt of a packet *)

LEMMA Init_TraceInv == Init => TraceInv
<1> SUFFICES ASSUME Init PROVE TraceInv
  OBVIOUS
<1>1. /\ probes = <<>> /\ hop_addrs = <<>> /\ printed = <<>> /\ arrived = {} /\ mistaken = {}
      /\ pc = "start" /\ target_reached_at = 0 /\ config \in Config /\ mode \in {"udp", "icmp"}
      /\ marker = Base
  BY DEF Init, Base
<1>2. Len(probes) = 0 /\ DOMAIN probes = {} /\ DOMAIN hop_addrs = {} /\ Len(printed) = 0
  BY <1>1
<1>3. Received = {}
  BY <1>2 DEF Received
<1>4. ProbesInv
  <2>1. probes \in Seq(Probe)
    BY <1>1
  <2>2. marker = (Base + 0) % U16
    BY <1>1, BaseType, TracerouteAssumption
  <2>3. config.first_ttl <= config.max_hops => 0 <= Hops * config.nqueries
    BY <1>1, CommandLine
  <2> QED
    BY <1>1, <1>2, <2>1, <2>2, <2>3 DEF ProbesInv, Collecting
<1>5. CountInv
  BY <1>1, <1>2, <1>3 DEF CountInv, Collecting
<1>6. ReportInv
  BY <1>1, <1>2, <1>3 DEF ReportInv
<1>7. PrintInv
  <2>1. printed \in Seq([ttl : Nat, addr : Address \cup {NoAddr}, got : SUBSET Nat])
    BY <1>1
  <2> QED
    BY <1>1, <1>2, <2>1 DEF PrintInv
<1> QED
  BY <1>4, <1>5, <1>6, <1>7 DEF TraceInv

\* The sizes do not matter before there is something to report.
LEMMA SameReport ==
    ASSUME ReportInv,
           UNCHANGED <<mode, config, probes, hop_addrs, target_reached_at, arrived, mistaken>>
    PROVE  ReportInv'
<1>1. Received' = Received
  BY DEF Received
<1>2. \A p : Accepted(p)' <=> Accepted(p)
  BY DEF Accepted
<1> QED
  BY <1>1, <1>2 DEF ReportInv, Accepted, Final

LEMMA StartStep ==
    ASSUME TraceInv, Start
    PROVE  TraceInv'
<1>1. /\ pc = "start" /\ pc' \in {"send", "panic"} /\ mode' = mode /\ config' = config
      /\ probes' = probes /\ marker' = marker /\ target_reached_at' = target_reached_at
      /\ printed' = printed /\ arrived' = arrived /\ mistaken' = mistaken
  BY DEF Start
<1>2. Hops' = Hops /\ Base' = Base /\ Received' = Received
  BY <1>1 DEF Hops, Base, Received
<1>3. ProbesInv'
  BY <1>1, <1>2 DEF TraceInv, ProbesInv, Collecting
<1>4. /\ arrived = {} /\ mistaken = {} /\ Received = {} /\ target_reached_at = 0
      /\ hop_addrs \in [DOMAIN hop_addrs -> Address \cup {NoAddr}] /\ DOMAIN hop_addrs \subseteq Nat
  BY <1>1 DEF TraceInv, CountInv
<1>5. PrintInv'
  BY <1>1 DEF TraceInv, PrintInv
<1>6. CASE pc' = "panic"
  <2>1. hop_addrs' = hop_addrs
    BY <1>6 DEF Start
  <2>2. CountInv'
    BY <1>4, <1>6, <2>1 DEF CountInv, Collecting
  <2> QED
    BY <1>3, <1>5, <1>6, <2>2 DEF TraceInv
<1>7. CASE pc' = "send"
  <2> DEFINE n == Wrap(config.max_hops + 1, U8)
  <2>1. /\ unreceived' = Wrap(Hops, U8) * config.nqueries
        /\ hop_addrs' = [i \in 1 .. n |-> NoAddr]
    BY <1>7 DEF Start, Hops
  <2>2. n \in Nat
    <3>1. config.max_hops \in Nat /\ U8 \in Nat \ {0}
      BY CommandLine, TracerouteAssumption DEF TraceInv, ProbesInv
    <3> QED
      BY <3>1 DEF Wrap
  <2> HIDE DEF n
  <2>3. /\ DOMAIN hop_addrs' = 1 .. n /\ \A t \in 1 .. n : hop_addrs'[t] = NoAddr
        /\ hop_addrs' \in [1 .. n -> Address \cup {NoAddr}] /\ 1 .. n \subseteq Nat
    BY <2>1, <2>2
  <2>4. CountInv'
    BY <1>1, <1>2, <1>4, <1>7, <2>1, <2>3 DEF CountInv, Collecting
  <2>5. ReportInv'
    <3>1. ReportInv
      BY <1>1 DEF TraceInv
    <3>2. \A p : Accepted(p)' <=> Accepted(p)
      BY <1>1 DEF Accepted
    <3> QED
      BY <3>1, <3>2, <1>1, <1>2, <1>4, <2>3 DEF ReportInv, Accepted
  <2> QED
    BY <1>3, <1>5, <2>4, <2>5 DEF TraceInv
<1> QED
  BY <1>1, <1>6, <1>7

\* A step that only moves on: to the next read, to the report, or to an end.
LEMMA PcStep ==
    ASSUME TraceInv,
           UNCHANGED <<mode, config, probes, marker, hop_addrs, target_reached_at, unreceived,
                       printed, arrived, mistaken>>,
           \/ pc' = pc
           \/ pc \in {"loop", "recv"} /\ pc' \in {"loop", "recv", "print"}
           \/ pc' = "panic"
           \/ pc = "send" /\ pc' = "error"
    PROVE  TraceInv'
<1>1. Hops' = Hops /\ Base' = Base /\ Received' = Received
  BY DEF Hops, Base, Received
<1>2. ProbesInv'
  BY <1>1 DEF TraceInv, ProbesInv, Collecting
<1>3. CountInv'
  BY <1>1 DEF TraceInv, CountInv, Collecting
<1>4. pc' # "panic" => ReportInv'
  <2> SUFFICES ASSUME pc' # "panic" PROVE ReportInv'
    OBVIOUS
  <2>1. ReportInv
    BY DEF TraceInv
  <2> QED
    BY <2>1, SameReport
<1>5. PrintInv'
  <2>1. CASE pc \in {"loop", "recv"} /\ pc' = "print"
    <3>1. ReportInv /\ Len(printed) = 0
      BY <2>1 DEF TraceInv, PrintInv
    <3>2. /\ config.first_ttl \in Nat /\ config.max_hops \in Nat
          /\ target_reached_at # 0 => target_reached_at \in config.first_ttl .. config.max_hops
      BY <3>1, CommandLine, TracerouteAssumption DEF TraceInv, ProbesInv, ReportInv
    <3>3. config.first_ttl <= config.max_hops =>
             /\ config.first_ttl + Len(printed) <= config.max_hops + 1
             /\ target_reached_at # 0 => config.first_ttl + Len(printed) <= target_reached_at
      BY <3>1, <3>2
    <3> QED
      BY <2>1, <3>3 DEF TraceInv, PrintInv
  <2>2. CASE ~(pc \in {"loop", "recv"} /\ pc' = "print")
    BY <2>2 DEF TraceInv, PrintInv
  <2> QED
    BY <2>1, <2>2
<1> QED
  BY <1>2, <1>3, <1>4, <1>5 DEF TraceInv

\* All probes are sent, and as many answers are waited for.
LEMMA AllSentStep ==
    ASSUME TraceInv, AllSent
    PROVE  TraceInv'
<1> DEFINE f == config.first_ttl
           m == config.max_hops
           q == config.nqueries
           n == Len(probes)
<1>1. /\ pc = "send" /\ pc' = "loop" /\ NextTtl > m /\ mode' = mode /\ config' = config
      /\ probes' = probes /\ marker' = marker /\ target_reached_at' = target_reached_at
      /\ printed' = printed /\ arrived' = arrived /\ mistaken' = mistaken
      /\ hop_addrs' = hop_addrs /\ unreceived' = unreceived
  BY DEF AllSent
<1>2. Hops' = Hops /\ Base' = Base /\ Received' = Received
  BY <1>1 DEF Hops, Base, Received
<1>3. /\ config \in Config /\ n \in Nat
      /\ f = 0 => n = 0
      /\ f <= m => n <= Hops * q
  BY DEF TraceInv, ProbesInv
<1>4. /\ f \in 0 .. U8 - 1 /\ m \in 0 .. U8 - 1 /\ q \in Nat /\ U8 \in Nat
      /\ f <= m => Hops \in Nat /\ Hops * q \in Nat
  BY <1>3, CommandLine, TracerouteAssumption
<1>5. /\ q # 0 => NextTtl = f + n \div q
      /\ q = 0 => NextTtl = IF f = 0 THEN 0 ELSE m + 1
      /\ Hops = m - f + 1
  BY <1>4 DEF NextTtl, Hops
<1> HIDE DEF f, m, q, n
<1>6. ASSUME f <= m, q = 0 PROVE f > 0 /\ n = Hops * q
  <2>1. Hops * q = 0
    BY <1>4, <1>6
  <2> QED
    BY <2>1, <1>1, <1>3, <1>4, <1>5, <1>6
<1>60. ASSUME f <= m, q # 0 PROVE f > 0 /\ n = Hops * q
  <2>1. n \div q \in Nat /\ (n \div q < Hops <=> n < Hops * q)
    BY <1>3, <1>4, <1>60, DivLess
  <2> DEFINE d == n \div q
             all == Hops * q
  <2>2. d \in Nat /\ (d < Hops <=> n < all) /\ all \in Nat /\ f + d > m /\ n <= all
    BY <2>1, <1>1, <1>3, <1>4, <1>5, <1>60
  <2>3. n = 0 => d = 0
    <3>1. 0 \div q = 0
      BY <1>4, <1>60
    <3> QED
      BY <3>1
  <2> HIDE DEF d, all
  <2>4. n = all
    BY <2>2, <1>3, <1>4, <1>5, <1>60
  <2>5. f > 0
    BY <2>2, <2>3, <1>3, <1>4, <1>60
  <2> QED
    BY <2>4, <2>5 DEF all
<1>7. ProbesInv'
  <2>1. config.first_ttl <= config.max_hops => config.first_ttl > 0 /\ Len(probes) = Hops * config.nqueries
    BY <1>6, <1>60 DEF f, m, q, n
  <2> QED
    BY <1>1, <1>2, <2>1 DEF TraceInv, ProbesInv, Collecting
<1>8. CountInv'
  <2>1. /\ Received = {} /\ unreceived = Wrap(Hops, U8) * q
    BY <1>1 DEF TraceInv, CountInv, q
  <2>2. Cardinality(Received) = 0
    BY <2>1, FS_EmptySet
  <2>3. f <= m => unreceived = n - Cardinality(Received)
    <3> SUFFICES ASSUME f <= m PROVE unreceived = n - 0
      BY <2>2
    <3>1. Hops \in 0 .. U8 - 1 /\ U8 \in Nat \ {0}
      BY <1>4, <1>5, <1>6, <1>60
    <3>2. Wrap(Hops, U8) = Hops
      BY <3>1 DEF Wrap
    <3> QED
      BY <2>1, <3>2, <1>3, <1>6, <1>60
  <2> QED
    BY <1>1, <1>2, <2>3 DEF TraceInv, CountInv, Collecting, f, m, n
<1>9. ReportInv'
  <2>1. ReportInv
    BY <1>1 DEF TraceInv
  <2> QED
    BY <1>1, <2>1, SameReport
<1>10. PrintInv'
  BY <1>1 DEF TraceInv, PrintInv
<1> QED
  BY <1>7, <1>8, <1>9, <1>10 DEF TraceInv

\* A probe is sent with a fresh marker and a ttl of the command line.
LEMMA SendStep ==
    ASSUME TraceInv, Send
    PROVE  TraceInv'
<1> DEFINE f == config.first_ttl
           m == config.max_hops
           q == config.nqueries
           n == Len(probes)
<1>1. /\ pc = "send" /\ NextTtl <= m /\ mode' = mode /\ config' = config
      /\ hop_addrs' = hop_addrs /\ target_reached_at' = target_reached_at
      /\ unreceived' = unreceived /\ expired' = expired
      /\ printed' = printed /\ arrived' = arrived /\ mistaken' = mistaken
  BY DEF Send
<1>2. CASE probes' = probes
  <2>1. probes \in Seq(Probe)
    BY DEF TraceInv, ProbesInv
  <2>2. pc' \in {"error", "panic"} /\ UNCHANGED <<probes, marker>>
    <3>1. \A a : Append(probes, a) # probes
      BY <2>1
    <3> QED
      BY <1>2, <3>1 DEF Send
  <2> QED
    BY <1>1, <2>2, PcStep
<1>3. CASE probes' # probes
  <2>1. PICK a \in Answers(NextTtl) :
           probes' = Append(probes, [ttl |-> NextTtl, marker |-> marker, received |-> FALSE,
                                     answer |-> a])
    BY <1>3 DEF Send
  <2>2. marker' = Wrap(marker + 1, U16) /\ pc' = "send" /\ NextTtl > 0
    BY <1>1, <1>3 DEF Send
  <2>3. /\ config \in Config /\ n \in Nat /\ probes \in Seq(Probe)
        /\ f > m \/ f = 0 => n = 0
        /\ f <= m => n <= Hops * q
        /\ marker = (Base + n) % U16
    BY DEF TraceInv, ProbesInv
  <2>31. q # 0 /\ q \in Nat
    <3>1. q \in Nat /\ m \in Nat
      BY <2>3, CommandLine, TracerouteAssumption
    <3>2. NextTtl <= m /\ NextTtl > 0
      BY <1>1, <2>2
    <3> QED
      BY <3>1, <3>2 DEF NextTtl
  <2>4. /\ f \in 0 .. U8 - 1 /\ m \in 0 .. U8 - 1 /\ q \in Nat \ {0} /\ U8 \in Nat \ {0} /\ U16 \in Nat \ {0}
        /\ Hops \in Int
        /\ f <= m => Hops \in Nat /\ Hops * q \in Nat /\ Hops * q <= U16
    BY <2>3, <2>31, CommandLine, TracerouteAssumption
  <2>5. NextTtl = f + n \div q /\ Hops = m - f + 1
    BY <2>4 DEF NextTtl, Hops
  <2> DEFINE t == NextTtl
             e == [ttl |-> NextTtl, marker |-> marker, received |-> FALSE, answer |-> a]
             all == Hops * q
  <2>6. n \div q \in Nat
    BY <2>3, <2>4, DivLess
  <2>7. f <= m /\ f > 0 /\ t \in f .. m /\ t > 0 /\ t \in 0 .. U8 - 1
    <3> DEFINE d == n \div q
    <3>1. d \in Nat /\ t = f + d /\ t <= m /\ t > 0
      BY <2>5, <2>6, <2>2, <1>1
    <3>2. n = 0 => d = 0
      <4>1. 0 \div q = 0
        BY <2>4
      <4> QED
        BY <4>1
    <3> HIDE DEF d, t, f, m, n
    <3> QED
      BY <3>1, <3>2, <2>3, <2>4
  <2>8. n < all /\ all \in Nat /\ all <= U16
    <3>1. n \div q < Hops <=> n < Hops * q
      BY <2>3, <2>4, <2>7, DivLess
    <3>2. n \div q < Hops
      <4> DEFINE d == n \div q
      <4>1. d \in Nat /\ f + d <= m
        BY <2>5, <2>6, <1>1
      <4> HIDE DEF d, f, m, n
      <4>2. d < Hops
        BY <4>1, <2>4, <2>5
      <4> QED
        BY <4>2 DEF d
    <3> QED
      BY <3>1, <3>2, <2>4, <2>7
  <2>9. marker \in 0 .. U16 - 1 /\ marker' = (Base + (n + 1)) % U16
    <3> HIDE DEF all, n
    <3>1. n \in 0 .. U16
      BY <2>3, <2>4, <2>8
    <3> QED
      BY <3>1, <2>2, <2>3, <2>4, BaseType, MarkNext DEF Wrap
  <2>10. a \in [from : Address, kind : Kind]
    <3>1. Router(t) \subseteq Address /\ Target \in Address
      BY <2>7 DEF Address
    <3> HIDE DEF t
    <3>2. a \in Answers(t)
      BY DEF t
    <3>3. CASE t < Distance
      <4>1. PICK r \in Router(t), k \in {"exceeded", "unreachable"} : a = [from |-> r, kind |-> k]
        BY <3>2, <3>3 DEF Answers
      <4> QED
        BY <4>1, <3>1 DEF Kind
    <3>4. CASE ~(t < Distance)
      <4>1. a = [from |-> Target, kind |-> IF mode = "udp" THEN "port" ELSE "reply"]
        BY <3>2, <3>4 DEF Answers
      <4> QED
        BY <4>1, <3>1 DEF Kind
    <3> QED
      BY <3>3, <3>4
  <2>11. e \in Probe
    BY <2>7, <2>9, <2>10 DEF Probe
  <2>12. e.ttl = t /\ e.marker = marker /\ e.received = FALSE
    OBVIOUS
  <2>13. probes' = Append(probes, e)
    BY <2>1
  <2> HIDE DEF e, t, all
  <2>14. /\ probes' \in Seq(Probe) /\ Len(probes') = n + 1 /\ probes'[n + 1] = e
         /\ \A i \in 1 .. n : probes'[i] = probes[i]
    BY <2>3, <2>11, <2>13
  <2>15. Hops' = Hops /\ Base' = Base
    BY <1>1 DEF Hops, Base
  <2>16. DOMAIN probes = 1 .. n /\ DOMAIN probes' = 1 .. n + 1
    BY <2>3, <2>14
  <2>17. ProbesInv'
    <3>1. \A i \in 1 .. n :
             /\ probes[i].marker = (Base + (i - 1)) % U16
             /\ probes[i].ttl > 0 /\ probes[i].ttl \in f .. m
      BY DEF TraceInv, ProbesInv
    <3>2. \A i \in 1 .. n + 1 :
             /\ probes'[i].marker = (Base + (i - 1)) % U16
             /\ probes'[i].ttl > 0 /\ probes'[i].ttl \in f .. m
      <4> SUFFICES ASSUME NEW i \in 1 .. n + 1
                   PROVE  /\ probes'[i].marker = (Base + (i - 1)) % U16
                          /\ probes'[i].ttl > 0 /\ probes'[i].ttl \in f .. m
        OBVIOUS
      <4>1. CASE i \in 1 .. n
        BY <4>1, <3>1, <2>14
      <4>2. CASE i = n + 1
        <5>1. i - 1 = n
          BY <4>2, <2>3
        <5> QED
          BY <4>2, <5>1, <2>3, <2>7, <2>12, <2>14
      <4> QED
        BY <4>1, <4>2, <2>3
    <3>3. n + 1 <= Hops * q
      <4> HIDE DEF n
      <4>1. n + 1 <= all
        BY <2>3, <2>8
      <4> QED
        BY <4>1 DEF all
    <3> HIDE DEF n, f, m, q
    <3>4. f = config'.first_ttl /\ m = config'.max_hops /\ q = config'.nqueries
      BY <1>1 DEF f, m, q
    <3>5. ~(f > m) /\ f # 0
      BY <2>4, <2>7
    <3>6. config' \in Config /\ mode' \in {"udp", "icmp"}
      BY <1>1 DEF TraceInv, ProbesInv
    <3> QED
      BY <3>2, <3>3, <3>4, <3>5, <3>6, <2>2, <2>9, <2>14, <2>15 DEF ProbesInv, Collecting
  <2>18. /\ arrived = {} /\ mistaken = {} /\ Received = {} /\ target_reached_at = 0
         /\ hop_addrs \in [DOMAIN hop_addrs -> Address \cup {NoAddr}] /\ DOMAIN hop_addrs \subseteq Nat
         /\ unreceived = Wrap(Hops, U8) * q
    BY <1>1 DEF TraceInv, CountInv
  <2>19. \A i \in DOMAIN probes' : ~probes'[i].received
    <3>1. \A i \in 1 .. n : ~probes[i].received
      BY <2>16, <2>18 DEF Received
    <3> QED
      BY <3>1, <2>3, <2>12, <2>14, <2>16
  <2>20. Received' = {}
    BY <2>19 DEF Received
  <2>21. CountInv'
    BY <1>1, <2>2, <2>15, <2>18, <2>20 DEF CountInv, Collecting
  <2>22. ReportInv'
    <3>1. \A h \in DOMAIN hop_addrs : hop_addrs[h] = NoAddr
      BY <1>1, <2>18 DEF TraceInv, ReportInv
    <3> QED
      BY <3>1, <1>1, <2>18, <2>19, <2>20 DEF ReportInv
  <2>23. PrintInv'
    BY <1>1, <2>2 DEF TraceInv, PrintInv
  <2> QED
    BY <2>17, <2>21, <2>22, <2>23 DEF TraceInv
<1> QED
  BY <1>2, <1>3

\* A line is printed, or the report ends.
LEMMA PrintHopStep ==
    ASSUME TraceInv, PrintHop
    PROVE  TraceInv'
<1> DEFINE f == config.first_ttl
           m == config.max_hops
           k == Len(printed)
           ttl == f + k
           Line == [ttl : Nat, addr : Address \cup {NoAddr}, got : SUBSET Nat]
           line == [ttl |-> ttl, addr |-> hop_addrs[ttl + 1],
                    got |-> {i \in DOMAIN probes : probes[i].ttl = ttl /\ probes[i].received}]
<1>1. /\ pc = "print" /\ mode' = mode /\ config' = config /\ probes' = probes /\ marker' = marker
      /\ hop_addrs' = hop_addrs /\ target_reached_at' = target_reached_at
      /\ unreceived' = unreceived /\ arrived' = arrived /\ mistaken' = mistaken
  BY DEF PrintHop
<1>2. Hops' = Hops /\ Base' = Base /\ Received' = Received
  BY <1>1 DEF Hops, Base, Received
<1>3. /\ printed \in Seq(Line) /\ \A i \in 1 .. k : printed[i].ttl = f + i - 1
      /\ f <= m => /\ ttl <= m + 1
                   /\ target_reached_at # 0 => ttl <= target_reached_at
  BY <1>1 DEF TraceInv, PrintInv
<1>4. /\ f \in Nat /\ m \in Nat /\ k \in Nat /\ probes \in Seq(Probe)
      /\ target_reached_at # 0 => target_reached_at \in f .. m
      /\ hop_addrs \in [DOMAIN hop_addrs -> Address \cup {NoAddr}]
      /\ ReportInv
  <2>1. f \in Nat /\ m \in Nat
    BY CommandLine, TracerouteAssumption DEF TraceInv, ProbesInv
  <2>2. k \in Nat
    BY <1>3
  <2> QED
    BY <2>1, <2>2, <1>1 DEF TraceInv, ProbesInv, CountInv, ReportInv
<1>5. CASE pc' = "panic" /\ printed' = printed
  BY <1>1, <1>5, PcStep
<1>6. CASE ttl > m /\ pc' = "done" /\ printed' = printed
  <2>1. ProbesInv'
    BY <1>1, <1>2, <1>6 DEF TraceInv, ProbesInv, Collecting
  <2>2. CountInv'
    BY <1>1, <1>2, <1>6 DEF TraceInv, CountInv, Collecting
  <2>3. ReportInv'
    BY <1>1, <1>4, SameReport
  <2>4. f <= m => k = (IF target_reached_at = 0 THEN m ELSE target_reached_at) - f + 1
    BY <1>3, <1>4, <1>6
  <2>5. PrintInv'
    BY <1>1, <1>6, <2>4 DEF TraceInv, PrintInv
  <2> QED
    BY <2>1, <2>2, <2>3, <2>5 DEF TraceInv
<1>7. CASE /\ ttl <= m /\ ttl + 1 \in DOMAIN hop_addrs /\ printed' = Append(printed, line)
           /\ pc' = IF target_reached_at = ttl THEN "done" ELSE "print"
  <2>1. ProbesInv'
    BY <1>1, <1>2, <1>7 DEF TraceInv, ProbesInv, Collecting
  <2>2. CountInv'
    BY <1>1, <1>2, <1>7 DEF TraceInv, CountInv, Collecting
  <2>3. ReportInv'
    BY <1>1, <1>4, SameReport
  <2>4. line \in Line
    <3>1. ttl \in Nat
      BY <1>4
    <3>2. hop_addrs[ttl + 1] \in Address \cup {NoAddr}
      BY <1>4, <1>7
    <3>3. {i \in DOMAIN probes : probes[i].ttl = ttl /\ probes[i].received} \in SUBSET Nat
      BY <1>4
    <3> HIDE DEF ttl
    <3> QED
      BY <3>1, <3>2, <3>3
  <2>5. line.ttl = ttl
    OBVIOUS
  <2> HIDE DEF line, Line
  <2>6. /\ printed' \in Seq(Line) /\ Len(printed') = k + 1 /\ printed'[k + 1] = line
        /\ \A i \in 1 .. k : printed'[i] = printed[i]
    BY <1>3, <1>7, <2>4
  <2>7. \A i \in 1 .. k + 1 : printed'[i].ttl = f + i - 1
    <3> SUFFICES ASSUME NEW i \in 1 .. k + 1 PROVE printed'[i].ttl = f + i - 1
      OBVIOUS
    <3>1. CASE i \in 1 .. k
      BY <3>1, <1>3, <2>6
    <3>2. CASE i = k + 1
      <4>1. f + k = f + i - 1
        BY <1>4, <3>2
      <4> QED
        BY <3>2, <4>1, <2>5, <2>6
    <3> QED
      BY <1>4, <3>1, <3>2
  <2>8. f <= m
    BY <1>4, <1>7
  <2>9. CASE target_reached_at = ttl
    <3>1. target_reached_at # 0 => k + 1 = target_reached_at - f + 1
      BY <1>4, <2>9
    <3>2. target_reached_at = 0 => f = 0
      BY <1>4, <2>9
    <3>3. f > 0
      BY <1>1, <2>8 DEF TraceInv, ProbesInv, Collecting
    <3>4. target_reached_at # 0
      BY <1>4, <3>2, <3>3
    <3>5. Len(printed') = (IF target_reached_at' = 0 THEN config'.max_hops ELSE target_reached_at')
                            - config'.first_ttl + 1
      BY <1>1, <2>6, <3>1, <3>4
    <3>6. pc' = "done"
      BY <1>7, <2>9
    <3>7. PrintInv'
      BY <1>1, <2>6, <2>7, <3>5, <3>6 DEF PrintInv, Line
    <3> QED
      BY <2>1, <2>2, <2>3, <3>7 DEF TraceInv
  <2>10. CASE target_reached_at # ttl
    <3>1. /\ f + (k + 1) <= m + 1
          /\ target_reached_at # 0 => f + (k + 1) <= target_reached_at
      <4>1. /\ f \in Nat /\ m \in Nat /\ k \in Nat /\ f + k <= m
            /\ target_reached_at # 0 => target_reached_at \in f .. m /\ f + k <= target_reached_at
        BY <1>3, <1>4, <1>7, <2>8
      <4>2. target_reached_at # f + k
        BY <2>10
      <4> HIDE DEF f, m, k, ttl
      <4> QED
        BY <4>1, <4>2
    <3>2. pc' = "print"
      BY <1>7, <2>10
    <3>3. PrintInv'
      BY <1>1, <2>6, <2>7, <3>1, <3>2 DEF PrintInv, Line
    <3> QED
      BY <2>1, <2>2, <2>3, <3>3 DEF TraceInv
  <2> QED
    BY <2>9, <2>10
<1> QED
  <2>1. ~(ttl > m) => ttl <= m
    BY <1>4
  <2> QED
    BY <2>1, <1>5, <1>6, <1>7 DEF PrintHop

-----------------------------------------------------------------------------
(* The receipt of a packet *)

\* A packet finds the one probe with its marker, when it has no answer yet.
LEMMA MatchingProbe ==
    ASSUME ProbesInv, NEW packet
    PROVE  \/ /\ Matching(packet) = 0
              /\ \A i \in DOMAIN probes : probes[i].marker = packet.marker => probes[i].received
           \/ /\ Matching(packet) \in DOMAIN probes \ {0}
              /\ probes[Matching(packet)].marker = packet.marker
              /\ ~probes[Matching(packet)].received
<1> DEFINE at == {i \in DOMAIN probes : probes[i].marker = packet.marker /\ ~probes[i].received}
<1>1. Len(probes) \in Nat /\ DOMAIN probes = 1 .. Len(probes)
  BY DEF ProbesInv
<1>2. CASE at = {}
  <2>1. Matching(packet) = 0
    BY <1>2 DEF Matching
  <2> QED
    BY <2>1, <1>2
<1>3. CASE at # {}
  <2>1. Matching(packet) = MinOf(at)
    BY <1>3 DEF Matching
  <2>2. PICK i \in at : TRUE
    BY <1>3
  <2>3. \A k \in at : k = i
    BY <1>1, <2>2, MarkersDiffer
  <2>4. \A k \in at : i <= k
    BY <1>1, <2>2, <2>3
  <2>5. MinOf(at) \in at
    <3> HIDE DEF at
    <3> QED
      BY <2>2, <2>4 DEF MinOf
  <2> QED
    BY <1>1, <2>1, <2>5
<1> QED
  BY <1>2, <1>3

\* A probe is marked as received, for its own answer or for another one.
Own(j, from, final) ==
    /\ arrived' = arrived \cup {j} /\ mistaken' = mistaken
    /\ from = probes[j].answer.from /\ (final <=> Final(probes[j].answer))
    /\ Accepted([kind |-> probes[j].answer.kind, own |-> TRUE])

Other(j) ==
    arrived' = arrived /\ mistaken' = mistaken \cup {j} /\ mode = "udp"

Noted(j, from, final) ==
    LET ttl == probes[j].ttl
    IN /\ ttl + 1 \in DOMAIN hop_addrs
       /\ hop_addrs' = [hop_addrs EXCEPT ![ttl + 1] = IF @ = NoAddr THEN from ELSE @]
       /\ target_reached_at' =
             IF final /\ (target_reached_at = 0 \/ ttl < target_reached_at)
             THEN ttl ELSE target_reached_at

\* The probe is counted once.
LEMMA MarkedProbe ==
    ASSUME ProbesInv, NEW j \in DOMAIN probes, ~probes[j].received,
           probes' = [probes EXCEPT ![j].received = TRUE]
    PROVE  /\ probes' \in Seq(Probe) /\ Len(probes') = Len(probes) /\ DOMAIN probes' = DOMAIN probes
           /\ \A i \in DOMAIN probes :
                 /\ probes'[i].ttl = probes[i].ttl /\ probes'[i].marker = probes[i].marker
                 /\ probes'[i].answer = probes[i].answer
                 /\ probes'[i].received <=> i = j \/ probes[i].received
           /\ Received' = Received \cup {j} /\ j \notin Received
           /\ Cardinality(Received) \in Nat /\ Cardinality(Received') = Cardinality(Received) + 1
<1>1. probes \in Seq(Probe) /\ Len(probes) \in Nat /\ DOMAIN probes = 1 .. Len(probes)
  BY DEF ProbesInv
<1>2. \A i \in DOMAIN probes : probes[i] \in Probe
  BY <1>1
<1> DEFINE e == [probes[j] EXCEPT !.received = TRUE]
<1>3. /\ e \in Probe /\ e.ttl = probes[j].ttl /\ e.marker = probes[j].marker
      /\ e.answer = probes[j].answer /\ e.received = TRUE
  BY <1>2 DEF Probe
<1>4. probes' = [probes EXCEPT ![j] = e]
  OBVIOUS
<1> HIDE DEF e
<1>5. probes' \in Seq(Probe) /\ Len(probes') = Len(probes) /\ DOMAIN probes' = DOMAIN probes
  <2>1. j \in 1 .. Len(probes)
    BY <1>1
  <2>2. /\ [probes EXCEPT ![j] = e] \in Seq(Probe)
        /\ Len([probes EXCEPT ![j] = e]) = Len(probes)
    BY <1>1, <1>3, <2>1, ExceptSeq
  <2> QED
    BY <1>4, <2>2
<1>6. probes'[j] = e /\ \A i \in DOMAIN probes : i # j => probes'[i] = probes[i]
  BY <1>1, <1>4
<1>7. \A i \in DOMAIN probes :
         /\ probes'[i].ttl = probes[i].ttl /\ probes'[i].marker = probes[i].marker
         /\ probes'[i].answer = probes[i].answer
         /\ probes'[i].received <=> i = j \/ probes[i].received
  BY <1>3, <1>6
<1>8. Received' = Received \cup {j} /\ j \notin Received
  BY <1>5, <1>7 DEF Received
<1>9. IsFiniteSet(Received)
  <2>1. IsFiniteSet(1 .. Len(probes))
    BY <1>1, FS_Interval
  <2>2. Received \subseteq 1 .. Len(probes)
    BY <1>1 DEF Received
  <2> QED
    BY <2>1, <2>2, FS_Subset
<1>10. Cardinality(Received) \in Nat /\ Cardinality(Received \cup {j}) = Cardinality(Received) + 1
  BY <1>8, <1>9, FS_CardinalityType, FS_AddElement
<1> QED
  BY <1>5, <1>7, <1>8, <1>10

LEMMA TakenStep ==
    ASSUME TraceInv, pc = "recv", NEW j \in DOMAIN probes, ~probes[j].received,
           NEW from \in Address, NEW final \in BOOLEAN,
           UNCHANGED <<mode, config, marker, printed>>,
           probes' = [probes EXCEPT ![j].received = TRUE], unreceived' = unreceived - 1,
           \/ pc' = "panic" /\ UNCHANGED <<hop_addrs, target_reached_at>>
           \/ pc' = "loop" /\ Noted(j, from, final),
           Own(j, from, final) \/ Other(j)
    PROVE  TraceInv'
<1> DEFINE n == Len(probes)
           ttl == probes[j].ttl
           f == config.first_ttl
           m == config.max_hops
<1>1. /\ ProbesInv /\ CountInv /\ ReportInv /\ PrintInv
  BY DEF TraceInv
<1>2. probes \in Seq(Probe) /\ n \in Nat /\ DOMAIN probes = 1 .. n
  BY <1>1 DEF ProbesInv
<1>3. /\ probes' \in Seq(Probe) /\ Len(probes') = n /\ DOMAIN probes' = DOMAIN probes
      /\ \A i \in DOMAIN probes :
            /\ probes'[i].ttl = probes[i].ttl /\ probes'[i].marker = probes[i].marker
            /\ probes'[i].answer = probes[i].answer
            /\ probes'[i].received <=> i = j \/ probes[i].received
      /\ Received' = Received \cup {j} /\ j \notin Received
      /\ Cardinality(Received) \in Nat /\ Cardinality(Received') = Cardinality(Received) + 1
  BY <1>1, MarkedProbe
<1>4. Hops' = Hops /\ Base' = Base
  BY DEF Hops, Base
<1>5. ttl > 0 /\ ttl \in f .. m /\ ttl \in Nat /\ f \in Nat /\ m \in Nat
  <2>1. ttl > 0 /\ ttl \in f .. m
    BY <1>1, <1>2 DEF ProbesInv
  <2>2. f \in Nat /\ m \in Nat
    BY <1>1, CommandLine, TracerouteAssumption DEF ProbesInv
  <2> QED
    BY <2>1, <2>2
<1>6. ProbesInv'
  <2>1. \A i \in 1 .. n :
           /\ probes'[i].marker = (Base + (i - 1)) % U16
           /\ probes'[i].ttl > 0 /\ probes'[i].ttl \in f .. m
    BY <1>1, <1>2, <1>3 DEF ProbesInv
  <2>2. /\ config \in Config /\ mode \in {"udp", "icmp"} /\ marker = (Base + n) % U16
        /\ f > m \/ f = 0 => n = 0
        /\ f <= m => n <= Hops * config.nqueries
        /\ f <= m => f > 0 /\ n = Hops * config.nqueries
    BY <1>1 DEF ProbesInv, Collecting
  <2>3. pc' \in {"start", "send", "error", "panic"} \cup Collecting
    BY DEF Collecting
  <2> QED
    BY <1>3, <1>4, <2>1, <2>2, <2>3 DEF ProbesInv
<1>7. PrintInv'
  BY <1>1 DEF PrintInv
<1>8. CASE pc' = "panic"
  <2>1. hop_addrs' = hop_addrs
    BY <1>8
  <2>2. CountInv'
    BY <1>1, <1>8, <2>1 DEF CountInv, Collecting
  <2> QED
    BY <1>6, <1>7, <1>8, <2>2 DEF TraceInv
<1>9. CASE pc' = "loop"
  <2>1. /\ ttl + 1 \in DOMAIN hop_addrs
        /\ hop_addrs' = [hop_addrs EXCEPT ![ttl + 1] = IF @ = NoAddr THEN from ELSE @]
        /\ target_reached_at' =
             IF final /\ (target_reached_at = 0 \/ ttl < target_reached_at)
             THEN ttl ELSE target_reached_at
    BY <1>9 DEF Noted
  <2>2. /\ hop_addrs \in [DOMAIN hop_addrs -> Address \cup {NoAddr}] /\ DOMAIN hop_addrs \subseteq Nat
    BY <1>1 DEF CountInv
  <2> DEFINE h == ttl + 1
  <2>3. /\ DOMAIN hop_addrs' = DOMAIN hop_addrs
        /\ hop_addrs' \in [DOMAIN hop_addrs' -> Address \cup {NoAddr}]
        /\ hop_addrs'[h] = IF hop_addrs[h] = NoAddr THEN from ELSE hop_addrs[h]
        /\ \A t \in DOMAIN hop_addrs : t # h => hop_addrs'[t] = hop_addrs[t]
    BY <2>1, <2>2
  <2>4. CountInv'
    <3>1. f <= m => unreceived = n - Cardinality(Received)
      BY <1>1 DEF CountInv, Collecting
    <3>2. f <= m => unreceived' = n - Cardinality(Received')
      <4> DEFINE c == Cardinality(Received)
      <4>1. c \in Nat /\ Cardinality(Received') = c + 1
        BY <1>3
      <4> HIDE DEF c, n
      <4>2. f <= m => unreceived = n - c
        BY <3>1 DEF c
      <4> QED
        BY <1>2, <4>1, <4>2
    <3> QED
      BY <1>3, <1>9, <2>2, <2>3, <3>2 DEF CountInv, Collecting
  <2>5. ReportInv'
    <3>1. /\ arrived \subseteq DOMAIN probes /\ mistaken \subseteq Received
          /\ mode = "icmp" => mistaken = {}
          /\ target_reached_at # 0 => target_reached_at \in f .. m
      BY <1>1 DEF ReportInv
    <3>2. j \notin mistaken
      BY <1>3, <3>1
    <3>3. /\ arrived' \subseteq DOMAIN probes' /\ mistaken' \subseteq Received'
          /\ mode' = "icmp" => mistaken' = {}
      BY <1>3, <3>1 DEF Own, Other
    <3>4. \A p : Accepted(p)' <=> Accepted(p)
      BY DEF Accepted
    <3>5. \A i \in DOMAIN probes' \ mistaken' :
             probes'[i].received
                <=> i \in arrived' /\ Accepted([kind |-> probes'[i].answer.kind, own |-> TRUE])
      <4> SUFFICES ASSUME NEW i \in DOMAIN probes, i \notin mistaken'
                   PROVE  probes'[i].received
                             <=> i \in arrived' /\ Accepted([kind |-> probes'[i].answer.kind, own |-> TRUE])
        BY <1>3
      <4>1. i # j => (i \in mistaken' <=> i \in mistaken) /\ (i \in arrived' <=> i \in arrived)
        BY DEF Own, Other
      <4>2. i \notin mistaken =>
               (probes[i].received
                  <=> i \in arrived /\ Accepted([kind |-> probes[i].answer.kind, own |-> TRUE]))
        BY <1>1 DEF ReportInv
      <4>3. CASE i = j
        <5>1. Own(j, from, final)
          BY <4>3 DEF Other
        <5> QED
          BY <4>3, <5>1, <1>3 DEF Own
      <4>4. CASE i # j
        BY <4>1, <4>2, <4>4, <1>3
      <4> QED
        BY <4>3, <4>4
    <3>6. \A t \in DOMAIN hop_addrs' :
             \/ hop_addrs'[t] = NoAddr /\ \A i \in Received' : probes'[i].ttl # t - 1
             \/ \E i \in Received' :
                   /\ probes'[i].ttl = t - 1
                   /\ hop_addrs'[t] \in Address
                   /\ i \in mistaken' \/ hop_addrs'[t] = probes'[i].answer.from
      <4> SUFFICES ASSUME NEW t \in DOMAIN hop_addrs
                   PROVE  \/ hop_addrs'[t] = NoAddr /\ \A i \in Received' : probes'[i].ttl # t - 1
                          \/ \E i \in Received' :
                                /\ probes'[i].ttl = t - 1
                                /\ hop_addrs'[t] \in Address
                                /\ i \in mistaken' \/ hop_addrs'[t] = probes'[i].answer.from
        BY <2>3
      <4>1. CASE t = h /\ hop_addrs[t] = NoAddr
        <5>1. hop_addrs'[t] = from /\ probes'[j].ttl = t - 1 /\ j \in Received'
          <6>1. hop_addrs'[t] = from
            BY <4>1, <2>3
          <6>2. ttl = t - 1
            BY <4>1, <1>5
          <6> QED
            BY <6>1, <6>2, <1>3
        <5>2. from \in Address /\ (j \in mistaken' \/ from = probes'[j].answer.from)
          BY <1>3, <3>2 DEF Own, Other
        <5> QED
          BY <5>1, <5>2
      <4>2. CASE hop_addrs[t] # NoAddr
        <5>1. PICK i \in Received :
                 /\ probes[i].ttl = t - 1
                 /\ hop_addrs[t] \in Address
                 /\ i \in mistaken \/ hop_addrs[t] = probes[i].answer.from
          BY <1>1, <4>2 DEF ReportInv
        <5>2. i # j /\ i \in DOMAIN probes /\ i \in Received'
          BY <1>3 DEF Received
        <5>3. i \in mistaken' <=> i \in mistaken
          BY <5>2 DEF Own, Other
        <5>4. hop_addrs'[t] = hop_addrs[t]
          BY <4>2, <2>3
        <5>5. probes'[i].ttl = probes[i].ttl /\ probes'[i].answer = probes[i].answer
          BY <1>3, <5>2
        <5> QED
          BY <5>1, <5>2, <5>3, <5>4, <5>5
      <4>3. CASE t # h /\ hop_addrs[t] = NoAddr
        <5>1. hop_addrs'[t] = NoAddr
          BY <4>3, <2>3
        <5>2. probes[j].ttl # t - 1
          BY <4>3, <1>5, <2>2
        <5>3. CASE \A i \in Received : probes[i].ttl # t - 1
          <6>1. \A i \in Received' : i \in DOMAIN probes /\ (i = j \/ i \in Received)
            BY <1>3 DEF Received
          <6>2. \A i \in Received' : probes'[i].ttl # t - 1
            BY <5>2, <5>3, <6>1, <1>3
          <6> QED
            BY <5>1, <6>2
        <5>4. CASE ~(\A i \in Received : probes[i].ttl # t - 1)
          <6>1. PICK i \in Received :
                 /\ probes[i].ttl = t - 1
                 /\ hop_addrs[t] \in Address
                 /\ i \in mistaken \/ hop_addrs[t] = probes[i].answer.from
            BY <1>1, <5>4 DEF ReportInv
          <6>2. NoAddr \notin Address
            BY TracerouteAssumption
          <6> QED
            BY <4>3, <6>1, <6>2
        <5> QED
          BY <5>3, <5>4
      <4> QED
        BY <4>1, <4>2, <4>3
    <3>7. target_reached_at' # 0 => target_reached_at' \in f .. m
      BY <1>5, <2>1, <3>1
    <3>8. ASSUME mistaken' = {}
          PROVE  /\ target_reached_at' # 0 =>
                       \E i \in Received' : Final(probes'[i].answer) /\ probes'[i].ttl = target_reached_at'
                 /\ \A i \in Received' :
                       Final(probes'[i].answer) => target_reached_at' # 0 /\ target_reached_at' <= probes'[i].ttl
      <4>1. mistaken = {} /\ (final <=> Final(probes[j].answer))
        BY <3>8 DEF Own, Other
      <4>2. /\ target_reached_at # 0 =>
                   \E i \in Received : Final(probes[i].answer) /\ probes[i].ttl = target_reached_at
            /\ \A i \in Received :
                   Final(probes[i].answer) => target_reached_at # 0 /\ target_reached_at <= probes[i].ttl
        BY <1>1, <4>1 DEF ReportInv
      <4>3. \A i \in Received : i \in DOMAIN probes /\ probes[i].ttl \in Nat
        <5>1. \A i \in Received : i \in DOMAIN probes /\ probes[i].ttl \in f .. m
          BY <1>1, <1>2 DEF ProbesInv, Received
        <5> QED
          BY <5>1, <1>5
      <4>4. target_reached_at \in Nat
        BY <3>1, <1>5
      <4>5. CASE final /\ (target_reached_at = 0 \/ ttl < target_reached_at)
        <5>1. target_reached_at' = ttl /\ ttl # 0
          BY <4>5, <2>1, <1>5
        <5>2. Final(probes'[j].answer) /\ probes'[j].ttl = ttl /\ j \in Received'
          BY <4>1, <4>5, <1>3
        <5>3. \A i \in Received : Final(probes[i].answer) => ttl <= probes[i].ttl
          BY <4>2, <4>3, <4>4, <4>5, <1>5
        <5>4. ASSUME NEW i \in Received', Final(probes'[i].answer)
              PROVE  ttl <= probes'[i].ttl
          <6>1. CASE i = j
            BY <6>1, <5>2, <1>5
          <6>2. CASE i # j
            <7>1. i \in Received /\ i \in DOMAIN probes
              BY <6>2, <1>3, <4>3
            <7>2. probes'[i].answer = probes[i].answer /\ probes'[i].ttl = probes[i].ttl
              BY <7>1, <1>3
            <7> QED
              BY <7>1, <7>2, <5>3, <5>4
          <6> QED
            BY <6>1, <6>2
        <5> QED
          BY <5>1, <5>2, <5>4
      <4>6. CASE ~(final /\ (target_reached_at = 0 \/ ttl < target_reached_at))
        <5>1. target_reached_at' = target_reached_at
          BY <4>6, <2>1
        <5>2. \A i \in Received : /\ i \in Received' /\ probes'[i].answer = probes[i].answer
                                  /\ probes'[i].ttl = probes[i].ttl
          BY <4>3, <1>3
        <5>3. target_reached_at # 0 =>
                 \E i \in Received' : Final(probes'[i].answer) /\ probes'[i].ttl = target_reached_at
          BY <4>2, <5>2
        <5>4. ASSUME NEW i \in Received', Final(probes'[i].answer)
              PROVE  target_reached_at # 0 /\ target_reached_at <= probes'[i].ttl
          <6>1. CASE i = j
            <7>1. final /\ probes'[i].ttl = ttl
              BY <6>1, <5>4, <4>1, <1>3
            <7> QED
              BY <7>1, <4>6, <4>4, <1>5
          <6>2. CASE i # j
            <7>1. i \in Received
              BY <6>2, <1>3
            <7>2. probes'[i].answer = probes[i].answer /\ probes'[i].ttl = probes[i].ttl
              BY <7>1, <5>2
            <7> QED
              BY <7>1, <7>2, <4>2, <5>4
          <6> QED
            BY <6>1, <6>2
        <5> QED
          BY <5>1, <5>3, <5>4
      <4> QED
        BY <4>5, <4>6
    <3> HIDE DEF f, m
    <3>9. f = config'.first_ttl /\ m = config'.max_hops
      BY DEF f, m
    <3> QED
      BY <3>3, <3>4, <3>5, <3>6, <3>7, <3>8, <3>9 DEF ReportInv
  <2> QED
    BY <1>6, <1>7, <2>4, <2>5 DEF TraceInv
<1> QED
  BY <1>8, <1>9

\* The answer to a probe: when it is its first and one that is looked at, the
\* probe is received; a repeated one changes nothing.
LEMMA RecvAnswerStep ==
    ASSUME TraceInv, NEW i \in DOMAIN probes, RecvAnswer(i)
    PROVE  TraceInv'
<1> DEFINE packet == [own |-> TRUE, marker |-> probes[i].marker, from |-> probes[i].answer.from,
                      kind |-> probes[i].answer.kind]
           j == IF Accepted(packet) THEN Matching(packet) ELSE 0
           ok == Accepted([kind |-> probes[i].answer.kind, own |-> TRUE])
<1>1. /\ pc = "recv" /\ arrived' = arrived \cup {i} /\ Handle(packet)
      /\ UNCHANGED <<mode, config, marker, expired, printed, mistaken>>
  BY DEF RecvAnswer
<1>2. ProbesInv /\ CountInv /\ ReportInv /\ PrintInv
  BY <1>1 DEF TraceInv
<1>3. /\ packet.marker = probes[i].marker /\ packet.from = probes[i].answer.from
      /\ Accepted(packet) <=> ok
      /\ Final(packet) <=> Final(probes[i].answer)
  BY DEF Accepted, Final
<1>4. probes \in Seq(Probe) /\ DOMAIN probes = 1 .. Len(probes) /\ probes[i] \in Probe
  BY <1>2 DEF ProbesInv
<1>5. probes[i].answer.from \in Address
  BY <1>4 DEF Probe
<1>6. CASE j = 0
  <2>1. pc' = "loop" /\ UNCHANGED <<probes, hop_addrs, target_reached_at, unreceived>>
    BY <1>1, <1>6 DEF Handle
  <2>2. ok => probes[i].received
    <3> HIDE DEF packet
    <3> SUFFICES ASSUME ok PROVE probes[i].received
      OBVIOUS
    <3>1. Matching(packet) = 0
      BY <1>3, <1>6
    <3> QED
      BY <3>1, <1>2, <1>3, MatchingProbe
  <2> HIDE DEF packet, j
  <2>3. Hops' = Hops /\ Base' = Base /\ Received' = Received
    BY <1>1, <2>1 DEF Hops, Base, Received
  <2>4. ProbesInv'
    BY <1>1, <1>2, <2>1, <2>3 DEF ProbesInv, Collecting
  <2>5. CountInv'
    BY <1>1, <1>2, <2>1, <2>3 DEF CountInv, Collecting
  <2>6. PrintInv'
    BY <1>1, <1>2, <2>1 DEF PrintInv
  <2>7. ReportInv'
    <3>1. \A p : Accepted(p)' <=> Accepted(p)
      BY <1>1 DEF Accepted
    <3>2. \A k \in DOMAIN probes \ mistaken :
             probes[k].received
                <=> k \in arrived /\ Accepted([kind |-> probes[k].answer.kind, own |-> TRUE])
      BY <1>2 DEF ReportInv
    <3>3. \A k \in DOMAIN probes \ mistaken :
             probes[k].received
                <=> k \in arrived' /\ Accepted([kind |-> probes[k].answer.kind, own |-> TRUE])
      BY <1>1, <2>2, <3>2
    <3>4. arrived' \subseteq DOMAIN probes
      BY <1>1, <1>2 DEF ReportInv
    <3> HIDE DEF ok
    <3> QED
      BY <1>1, <1>2, <2>1, <2>3, <3>1, <3>3, <3>4 DEF ReportInv
  <2> QED
    BY <2>4, <2>5, <2>6, <2>7 DEF TraceInv
<1>7. CASE j # 0
  <2>1. /\ Accepted(packet) /\ j = Matching(packet)
    BY <1>7
  <2>2. j \in DOMAIN probes /\ probes[j].marker = packet.marker /\ ~probes[j].received
    <3> HIDE DEF packet, j
    <3> QED
      BY <1>2, <1>7, <2>1, MatchingProbe
  <2>3. j = i
    <3> HIDE DEF packet, j
    <3> QED
      BY <1>2, <1>3, <1>4, <2>2, MarkersDiffer
  <2> DEFINE final == Final(packet)
  <2>4. final \in BOOLEAN
    BY DEF Final
  <2>5. /\ probes' = [probes EXCEPT ![i].received = TRUE] /\ unreceived' = unreceived - 1
        /\ \/ pc' = "panic" /\ UNCHANGED <<hop_addrs, target_reached_at>>
           \/ pc' = "loop" /\ Noted(i, probes[i].answer.from, final)
    <3>1. \/ probes[i].ttl + 1 \notin DOMAIN hop_addrs
          \/ probes[i].ttl + 1 \in DOMAIN hop_addrs
      OBVIOUS
    <3> HIDE DEF packet
    <3> QED
      BY <1>1, <1>3, <1>7, <2>3, <3>1 DEF Handle, Noted
  <2>6. Own(i, probes[i].answer.from, final)
    BY <1>1, <1>3, <2>1 DEF Own
  <2> HIDE DEF packet, j, final
  <2> QED
    BY <1>1, <1>5, <2>2, <2>3, <2>4, <2>5, <2>6, TakenStep
<1> QED
  BY <1>6, <1>7

\* An answer to another program: in UDP mode it may be taken for a probe's.
LEMMA RecvForeignStep ==
    ASSUME TraceInv, NEW m \in 0 .. U16 - 1, NEW kind \in {"exceeded", "reply", "port"},
           NEW from \in Address,
           RecvForeign(m, kind, from)
    PROVE  TraceInv'
<1> DEFINE packet == [own |-> FALSE, marker |-> m, from |-> from, kind |-> kind]
           j == IF Accepted(packet) THEN Matching(packet) ELSE 0
<1>1. /\ pc = "recv" /\ Handle(packet)
      /\ mistaken' = mistaken \cup {i \in {Matching(packet)} : i # 0 /\ Accepted(packet)}
      /\ UNCHANGED <<mode, config, marker, expired, printed, arrived>>
  BY DEF RecvForeign
<1>2. ProbesInv
  BY DEF TraceInv
<1>3. packet.from = from
  OBVIOUS
<1>4. CASE j = 0
  <2>1. pc' = "loop" /\ UNCHANGED <<probes, hop_addrs, target_reached_at, unreceived>>
    BY <1>1, <1>4 DEF Handle
  <2> HIDE DEF packet
  <2>2. mistaken' = mistaken
    BY <1>1, <1>4
  <2> QED
    BY <1>1, <2>1, <2>2, PcStep
<1>5. CASE j # 0
  <2>1. /\ Accepted(packet) /\ j = Matching(packet)
    BY <1>5
  <2>2. mode = "udp"
    BY <2>1 DEF Accepted
  <2>3. j \in DOMAIN probes /\ probes[j].marker = packet.marker /\ ~probes[j].received
    <3> HIDE DEF packet, j
    <3> QED
      BY <1>2, <1>5, <2>1, MatchingProbe
  <2> DEFINE final == Final(packet)
  <2>4. final \in BOOLEAN
    BY DEF Final
  <2>5. /\ probes' = [probes EXCEPT ![j].received = TRUE] /\ unreceived' = unreceived - 1
        /\ \/ pc' = "panic" /\ UNCHANGED <<hop_addrs, target_reached_at>>
           \/ pc' = "loop" /\ Noted(j, from, final)
    <3> HIDE DEF packet
    <3> QED
      BY <1>1, <1>3, <1>5 DEF Handle, Noted
  <2>6. Other(j)
    <3> HIDE DEF packet
    <3> QED
      BY <1>1, <1>5, <2>1, <2>2 DEF Other
  <2> HIDE DEF packet, j, final
  <2> QED
    BY <1>1, <1>3, <2>3, <2>4, <2>5, <2>6, TakenStep
<1> QED
  BY <1>4, <1>5

-----------------------------------------------------------------------------
(* The theorems *)

LEMMA Next_TraceInv == TraceInv /\ [Next]_vars => TraceInv'
<1> SUFFICES ASSUME TraceInv, [Next]_vars PROVE TraceInv'
  OBVIOUS
<1>1. CASE Start
  BY <1>1, StartStep
<1>2. CASE Send
  BY <1>2, SendStep
<1>3. CASE AllSent
  BY <1>3, AllSentStep
<1>4. CASE Loop
  BY <1>4, PcStep DEF Loop
<1>5. CASE RecvNothing
  BY <1>5, PcStep DEF RecvNothing
<1>6. CASE \E i \in DOMAIN probes : RecvAnswer(i)
  BY <1>6, RecvAnswerStep
<1>7. CASE Foreign
  BY <1>7, RecvForeignStep DEF Foreign
<1>8. CASE Expire
  BY <1>8, PcStep DEF Expire
<1>9. CASE PrintHop
  BY <1>9, PrintHopStep
<1>10. CASE UNCHANGED vars
  BY <1>10, PcStep DEF vars
<1> QED
  BY <1>1, <1>2, <1>3, <1>4, <1>5, <1>6, <1>7, <1>8, <1>9, <1>10 DEF Next, Recv

\* Each probe, hop and line of run_udp and run_icmp says what it should,
\* whatever the order, the number and the origin of the packets that arrive.
THEOREM TraceInvariant == Spec => []TraceInv
  BY Init_TraceInv, Next_TraceInv, PTL DEF Spec

\* What is said of each hop is what ReportIsTrue says of it.
LEMMA HopsTrue ==
    ASSUME ReportInv, probes \in Seq(Probe), NEW t \in DOMAIN hop_addrs
    PROVE  LET at == {i \in Received : probes[i].ttl = t - 1}
           IN IF at = {} THEN hop_addrs[t] = NoAddr
              ELSE /\ hop_addrs[t] \in Address
                   /\ \/ hop_addrs[t] \in {probes[i].answer.from : i \in at \ mistaken}
                      \/ at \cap mistaken # {}
<1> DEFINE at == {i \in Received : probes[i].ttl = t - 1}
<1>1. CASE hop_addrs[t] = NoAddr /\ \A i \in Received : probes[i].ttl # t - 1
  <2>1. at = {}
    BY <1>1
  <2> QED
    BY <1>1, <2>1
<1>2. CASE \E i \in Received :
              /\ probes[i].ttl = t - 1
              /\ hop_addrs[t] \in Address
              /\ i \in mistaken \/ hop_addrs[t] = probes[i].answer.from
  <2>1. PICK i \in at : /\ hop_addrs[t] \in Address
                        /\ i \in mistaken \/ hop_addrs[t] = probes[i].answer.from
    BY <1>2
  <2> HIDE DEF at
  <2>2. \/ hop_addrs[t] \in {probes[k].answer.from : k \in at \ mistaken}
        \/ at \cap mistaken # {}
    BY <2>1
  <2>3. at # {}
    BY <2>1
  <2>4. /\ hop_addrs[t] \in Address
        /\ \/ hop_addrs[t] \in {probes[k].answer.from : k \in at \ mistaken}
           \/ at \cap mistaken # {}
    BY <2>1, <2>2
  <2> QED
    BY <2>3, <2>4 DEF at
<1> QED
  BY <1>1, <1>2 DEF ReportInv

\* The target is at the smallest ttl at which it answered.
LEMMA TargetTrue ==
    ASSUME ReportInv, ProbesInv, mistaken = {}
    PROVE  LET final == {probes[i].ttl : i \in {j \in Received \ mistaken : Final(probes[j].answer)}}
           IN target_reached_at = IF final = {} THEN 0 ELSE MinOf(final)
<1> DEFINE final == {probes[i].ttl : i \in {j \in Received \ mistaken : Final(probes[j].answer)}}
<1>1. /\ target_reached_at # 0 =>
            \E i \in Received : Final(probes[i].answer) /\ probes[i].ttl = target_reached_at
      /\ \A i \in Received :
            Final(probes[i].answer) => target_reached_at # 0 /\ target_reached_at <= probes[i].ttl
  BY DEF ReportInv
<1>2. \A x \in final : x \in Nat /\ target_reached_at # 0 /\ target_reached_at <= x
  <2>1. config.first_ttl \in Nat /\ config.max_hops \in Nat
    BY CommandLine, TracerouteAssumption DEF ProbesInv
  <2>2. \A i \in Received : probes[i].ttl \in config.first_ttl .. config.max_hops
    BY DEF ProbesInv, Received
  <2>3. \A i \in Received : probes[i].ttl \in Nat
    BY <2>1, <2>2
  <2> QED
    BY <1>1, <2>3
<1>3. target_reached_at # 0 => target_reached_at \in final
  BY <1>1
<1> HIDE DEF final
<1>4. CASE final = {}
  BY <1>3, <1>4 DEF final
<1>5. CASE final # {}
  <2>1. target_reached_at \in final /\ \A x \in final : target_reached_at <= x
    BY <1>2, <1>3, <1>5
  <2>2. MinOf(final) \in final /\ \A x \in final : MinOf(final) <= x
    BY <2>1 DEF MinOf
  <2>3. MinOf(final) = target_reached_at
    BY <1>2, <2>1, <2>2
  <2> QED
    BY <1>5, <2>3 DEF final
<1> QED
  BY <1>4, <1>5

\* The invariant gives the report.
LEMMA TraceInvReport == TraceInv => ReportIsTrue
<1> SUFFICES ASSUME TraceInv PROVE ReportIsTrue
  OBVIOUS
<1> DEFINE ok(i) == Accepted([kind |-> probes[i].answer.kind, own |-> TRUE])
           final == {probes[i].ttl : i \in {j \in Received \ mistaken : Final(probes[j].answer)}}
           end == IF target_reached_at = 0 THEN config.max_hops ELSE target_reached_at
<1>1. probes \in Seq(Probe)
  BY DEF TraceInv, ProbesInv
<1>2. ASSUME pc # "panic"
      PROVE  /\ Received \ mistaken = {i \in arrived \ mistaken : ok(i)}
             /\ mistaken \subseteq Received
             /\ mode = "icmp" => mistaken = {}
             /\ \A t \in DOMAIN hop_addrs :
                   LET at == {i \in Received : probes[i].ttl = t - 1}
                   IN IF at = {} THEN hop_addrs[t] = NoAddr
                      ELSE /\ hop_addrs[t] \in Address
                           /\ \/ hop_addrs[t] \in {probes[i].answer.from : i \in at \ mistaken}
                              \/ at \cap mistaken # {}
             /\ mistaken = {} => target_reached_at = IF final = {} THEN 0 ELSE MinOf(final)
  <2>1. ReportInv /\ ProbesInv
    BY <1>2 DEF TraceInv
  <2>2. Received \ mistaken = {i \in arrived \ mistaken : ok(i)}
    <3>1. arrived \subseteq DOMAIN probes
      BY <2>1 DEF ReportInv
    <3>2. \A i \in DOMAIN probes \ mistaken : probes[i].received <=> i \in arrived /\ ok(i)
      BY <2>1 DEF ReportInv
    <3> HIDE DEF ok
    <3> QED
      BY <3>1, <3>2 DEF Received
  <2>3. mistaken \subseteq Received /\ (mode = "icmp" => mistaken = {})
    BY <2>1 DEF ReportInv
  <2>4. mistaken = {} => target_reached_at = IF final = {} THEN 0 ELSE MinOf(final)
    BY <2>1, TargetTrue
  <2>5. \A t \in DOMAIN hop_addrs :
           LET at == {i \in Received : probes[i].ttl = t - 1}
           IN IF at = {} THEN hop_addrs[t] = NoAddr
              ELSE /\ hop_addrs[t] \in Address
                   /\ \/ hop_addrs[t] \in {probes[i].answer.from : i \in at \ mistaken}
                      \/ at \cap mistaken # {}
    BY <1>1, <2>1, HopsTrue
  <2> QED
    BY <2>2, <2>3, <2>4, <2>5
<1>3. config.first_ttl <= config.max_hops /\ pc \in {"loop", "recv", "print", "done"} =>
         unreceived = Len(probes) - Cardinality(Received)
  BY DEF TraceInv, CountInv, Collecting
<1>4. ASSUME pc = "done", config.first_ttl <= config.max_hops
      PROVE  [i \in DOMAIN printed |-> printed[i].ttl] = [i \in 1 .. end - config.first_ttl + 1 |->
                                                             config.first_ttl + i - 1]
  <2>1. /\ DOMAIN printed = 1 .. Len(printed)
        /\ \A i \in 1 .. Len(printed) : printed[i].ttl = config.first_ttl + i - 1
        /\ Len(printed) = end - config.first_ttl + 1
    BY <1>4 DEF TraceInv, PrintInv
  <2> HIDE DEF end
  <2> QED
    BY <2>1
<1> HIDE DEF final, end, ok
<1> QED
  BY <1>2, <1>3, <1>4 DEF ReportIsTrue, final, end, ok

\* For every command line, path and run, the report of run_udp and run_icmp is
\* what arrived: each probe counted once, each hop an address that answered for
\* it, the target at the smallest ttl that reached it, and the lines up to there.
THEOREM ReportsTruthfully == Spec => []ReportIsTrue
  BY TraceInvariant, TraceInvReport, PTL
=============================================================================
