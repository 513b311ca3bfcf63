----------------------------- MODULE Traceroute -----------------------------
(***************************************************************************)
(* toolkit/traceroute: all the probes are sent at once, the answers are    *)
(* collected until the deadline, and the hops are printed up to the first  *)
(* one at which the target answered (run_udp and run_icmp of main.rs).     *)
(*                                                                         *)
(* What becomes of a probe is decided by the network when it is sent: the  *)
(* router or the target that answers it, and how.  The answer may arrive   *)
(* at any time, any number of times or never, among the answers to other   *)
(* programs, which a raw socket receives too.                              *)
(***************************************************************************)
EXTENDS Integers, Sequences, FiniteSets

CONSTANTS
    Config,        \* command lines: [first_ttl, max_hops, nqueries]
    U8, U16,       \* 2^8 and 2^16 in the code
    BASE_PORT,
    Router(_),     \* ttl -> routers at that distance
    Target,        \* address of the target
    Stranger,      \* addresses of the other hosts this one receives ICMP from
    Distance,      \* ttl with which a probe reaches it
    NoAddr

\* The addresses an answer may come from
Address == {Target} \cup Stranger \cup UNION {Router(ttl) : ttl \in 0 .. U8 - 1}

ASSUME TracerouteAssumption ==
    /\ U8 \in Nat \ {0} /\ U16 \in Nat \ {0}
    /\ Config \subseteq [first_ttl : 0 .. U8 - 1, max_hops : 0 .. U8 - 1, nqueries : 0 .. U8 - 1]
    /\ \A c \in Config : (c.max_hops + 1) * c.nqueries <= U16
    /\ BASE_PORT \in 0 .. U16 - 1
    /\ NoAddr \notin Address

VARIABLES
    mode,              \* "udp" or "icmp"
    config,
    pc,                \* "start", "send", "loop", "recv", "print", or the end
    probes,            \* the probes sent, with the answer the network has for each
    marker,            \* port or global_seq
    hop_addrs,
    target_reached_at, \* 0 for None
    unreceived,
    expired,           \* the deadline has passed
    printed,           \* lines printed
    arrived,           \* probes whose answer has arrived at the socket
    mistaken           \* probes for which an answer to another program was taken

vars == <<mode, config, pc, probes, marker, hop_addrs, target_reached_at, unreceived, expired,
          printed, arrived, mistaken>>

Init ==
    /\ mode \in {"udp", "icmp"}
    /\ config \in Config
    /\ pc = "start"
    /\ probes = <<>>
    /\ marker = IF mode = "udp" THEN BASE_PORT ELSE 0
    /\ hop_addrs = <<>>
    /\ target_reached_at = 0
    /\ unreceived = 0
    /\ expired = FALSE
    /\ printed = <<>>
    /\ arrived = {}
    /\ mistaken = {}

\* An expression that overflows: a debug build panics, a release build wraps
Wrap(n, width) == n % width
Overflows(n, width) == n \notin 0 .. width - 1

\* The sizes, computed in u8
Start ==
    LET hops == config.max_hops - config.first_ttl + 1
        len == config.max_hops + 1
    IN /\ pc = "start"
       /\ \/ /\ pc' = "send"
             /\ unreceived' = Wrap(hops, U8) * config.nqueries
             /\ hop_addrs' = [i \in 1 .. Wrap(len, U8) |-> NoAddr]
          \/ /\ Overflows(hops, U8) \/ Overflows(hops - 1, U8) \/ Overflows(len, U8)
             /\ pc' = "panic"
             /\ UNCHANGED <<unreceived, hop_addrs>>
       /\ UNCHANGED <<mode, config, probes, marker, target_reached_at, expired, printed, arrived, mistaken>>

\* The answers the network may have for a probe
Answers(ttl) ==
    IF ttl < Distance
    THEN {[from |-> r, kind |-> k] : r \in Router(ttl), k \in {"exceeded", "unreachable"}}
    ELSE {[from |-> Target, kind |-> IF mode = "udp" THEN "port" ELSE "reply"]}

\* The ttl to be set next, in the loop over first_ttl ..= max_hops.  Without
\* queries every ttl is set and none is used: only one of 0 makes a difference.
NextTtl ==
    IF config.nqueries > 0 THEN config.first_ttl + Len(probes) \div config.nqueries
    ELSE IF config.first_ttl = 0 THEN 0 ELSE config.max_hops + 1

\* A probe is sent, or its sending fails unnoticed.  A ttl of 0 is refused by
\* the system.  The port is incremented once more than it is used.
Send ==
    /\ pc = "send" /\ NextTtl <= config.max_hops
    /\ \/ /\ NextTtl > 0
          /\ \E a \in Answers(NextTtl) :
                probes' = Append(probes, [ttl |-> NextTtl, marker |-> marker, received |-> FALSE,
                                          answer |-> a])
          /\ marker' = Wrap(marker + 1, U16)
          /\ UNCHANGED pc
       \/ /\ NextTtl = 0 \/ (mode = "udp" /\ Overflows(marker + 1, U16))
          /\ pc' = (IF NextTtl = 0 THEN "error" ELSE "panic")
          /\ UNCHANGED <<probes, marker>>
    /\ UNCHANGED <<mode, config, hop_addrs, target_reached_at, unreceived, expired, printed, arrived, mistaken>>

AllSent ==
    /\ pc = "send" /\ NextTtl > config.max_hops
    /\ pc' = "loop"
    /\ UNCHANGED <<mode, config, probes, marker, hop_addrs, target_reached_at, unreceived, expired,
                   printed, arrived, mistaken>>

\* Mutant: only the answers end the loop
Loop_no_deadline ==
    /\ pc = "loop"
    /\ pc' = IF unreceived > 0 THEN "recv" ELSE "print"
    /\ UNCHANGED <<mode, config, probes, marker, hop_addrs, target_reached_at, unreceived, expired,
                   printed, arrived, mistaken>>

Loop ==
    /\ pc = "loop"
    /\ pc' = IF unreceived > 0 /\ ~expired THEN "recv" ELSE "print"
    /\ UNCHANGED <<mode, config, probes, marker, hop_addrs, target_reached_at, unreceived, expired,
                   printed, arrived, mistaken>>

\* What a packet must be to be looked at: in UDP mode an error about a UDP
\* packet, in ICMP mode a reply or a time exceeded with the program's own id
Accepted(packet) ==
    IF mode = "udp" THEN packet.kind \in {"exceeded", "unreachable", "port"}
    ELSE packet.kind \in {"exceeded", "reply"} /\ packet.own

Final(packet) == packet.kind \in {"port", "reply"}

MinOf(S) == CHOOSE x \in S : \A y \in S : x <= y

\* Mutant: a probe is taken again when its answer is repeated
Matching_repeated(packet) ==
    LET at == {i \in DOMAIN probes : probes[i].marker = packet.marker}
    IN IF at = {} THEN 0 ELSE MinOf(at)

\* The first probe with the marker that has no answer yet, or 0
Matching(packet) ==
    LET at == {i \in DOMAIN probes : probes[i].marker = packet.marker /\ ~probes[i].received}
    IN IF at = {} THEN 0 ELSE MinOf(at)

\* The body of the loop for a packet
Handle(packet) ==
    LET i == IF Accepted(packet) THEN Matching(packet) ELSE 0
        ttl == probes[i].ttl
    IN IF i = 0 THEN pc' = "loop" /\ UNCHANGED <<probes, hop_addrs, target_reached_at, unreceived>>
       ELSE /\ probes' = [probes EXCEPT ![i].received = TRUE]
            /\ unreceived' = unreceived - 1
            /\ IF ttl + 1 \notin DOMAIN hop_addrs
               THEN pc' = "panic" /\ UNCHANGED <<hop_addrs, target_reached_at>>
               ELSE /\ hop_addrs' = [hop_addrs EXCEPT ![ttl + 1] = IF @ = NoAddr THEN packet.from ELSE @]
                    /\ target_reached_at' =
                          IF Final(packet) /\ (target_reached_at = 0 \/ ttl < target_reached_at)
                          THEN ttl ELSE target_reached_at
                    /\ pc' = "loop"

\* The answer to probe i arrives, for the first time or again
RecvAnswer(i) ==
    /\ pc = "recv"
    /\ arrived' = arrived \cup {i}
    /\ Handle([own |-> TRUE, marker |-> probes[i].marker, from |-> probes[i].answer.from,
               kind |-> probes[i].answer.kind])
    /\ UNCHANGED <<mode, config, marker, expired, printed, mistaken>>

\* An answer to another program from any host, with any id of its own and any
\* sequence number, or about any port: UDP answers are matched by the port alone
RecvForeign(m, kind, from) ==
    LET packet == [own |-> FALSE, marker |-> m, from |-> from, kind |-> kind]
    IN /\ pc = "recv"
       /\ mistaken' = mistaken \cup {i \in {Matching(packet)} : i # 0 /\ Accepted(packet)}
       /\ Handle(packet)
       /\ UNCHANGED <<mode, config, marker, expired, printed, arrived>>

\* The read times out after 100 ms, or fails and ends the loop
RecvNothing ==
    /\ pc = "recv"
    /\ pc' \in {"loop", "print"}
    /\ UNCHANGED <<mode, config, probes, marker, hop_addrs, target_reached_at, unreceived, expired,
                   printed, arrived, mistaken>>

Expire ==
    /\ pc \in {"loop", "recv"} /\ ~expired
    /\ expired' = TRUE
    /\ UNCHANGED <<mode, config, pc, probes, marker, hop_addrs, target_reached_at, unreceived,
                   printed, arrived, mistaken>>

\* print_hop for the next ttl, and the end after the one the target answered
PrintHop ==
    LET ttl == config.first_ttl + Len(printed)
    IN /\ pc = "print"
       /\ IF ttl > config.max_hops THEN pc' = "done" /\ UNCHANGED printed
          ELSE IF ttl + 1 \notin DOMAIN hop_addrs THEN pc' = "panic" /\ UNCHANGED printed
          ELSE /\ printed' = Append(printed,
                     [ttl |-> ttl, addr |-> hop_addrs[ttl + 1],
                      got |-> {i \in DOMAIN probes : probes[i].ttl = ttl /\ probes[i].received}])
               /\ pc' = IF target_reached_at = ttl THEN "done" ELSE "print"
       /\ UNCHANGED <<mode, config, probes, marker, hop_addrs, target_reached_at, unreceived,
                      expired, arrived, mistaken>>

\* (unreachable with a code other than 3 is taken like exceeded)
Foreign ==
    \E m \in 0 .. U16 - 1, kind \in {"exceeded", "reply", "port"}, from \in Address :
        RecvForeign(m, kind, from)

Recv == RecvNothing \/ (\E i \in DOMAIN probes : RecvAnswer(i)) \/ Foreign

Next == Start \/ Send \/ AllSent \/ Loop \/ Recv \/ Expire \/ PrintHop

\* The program runs, a read returns within its timeout and the deadline comes
Spec ==
    /\ Init /\ [][Next]_vars
    /\ WF_vars(Start \/ Send \/ AllSent \/ Loop \/ Recv \/ PrintHop)
    /\ WF_vars(Expire)

-----------------------------------------------------------------------------
(* Properties *)

Received == {i \in DOMAIN probes : probes[i].received}

\* Whatever the order and the number in which answers arrive, the report is
\* what arrived: every probe is counted once; it counts as received when an
\* answer to it has come, the address of a hop answered a probe with its ttl,
\* and the target is at the smallest ttl at which it answered, unless an answer
\* to another program was taken for it; the lines go from the first ttl exactly
\* to the one of the target, or to the last (run_udp, run_icmp).
ReportIsTrue ==
    /\ pc # "panic" =>
         /\ Received \ mistaken = {i \in arrived \ mistaken :
                                      Accepted([kind |-> probes[i].answer.kind, own |-> TRUE])}
         /\ mistaken \subseteq Received
         /\ mode = "icmp" => mistaken = {}
         /\ \A t \in DOMAIN hop_addrs :
               LET at == {i \in Received : probes[i].ttl = t - 1}
               IN IF at = {} THEN hop_addrs[t] = NoAddr
                  ELSE /\ hop_addrs[t] \in Address
                       /\ \/ hop_addrs[t] \in {probes[i].answer.from : i \in at \ mistaken}
                          \/ at \cap mistaken # {}
         /\ LET final == {probes[i].ttl : i \in {j \in Received \ mistaken : Final(probes[j].answer)}}
            IN mistaken = {} => target_reached_at = IF final = {} THEN 0 ELSE MinOf(final)
    /\ config.first_ttl <= config.max_hops /\ pc \in {"loop", "recv", "print", "done"} =>
         unreceived = Len(probes) - Cardinality(Received)
    /\ pc = "done" /\ config.first_ttl <= config.max_hops =>
         LET end == IF target_reached_at = 0 THEN config.max_hops ELSE target_reached_at
         IN [i \in DOMAIN printed |-> printed[i].ttl] = [i \in 1 .. end - config.first_ttl + 1 |->
                                                            config.first_ttl + i - 1]

\* The program ends, whether or not the answers come and whatever else arrives.
TraceEnds == <>(pc \in {"done", "error", "panic"})
=============================================================================
