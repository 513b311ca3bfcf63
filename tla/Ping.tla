-------------------------------- MODULE Ping --------------------------------
(***************************************************************************)
(* toolkit/ping: the sender (main thread) and the receiver thread of       *)
(* main.rs, which share a flag, a map from sequence numbers to the time    *)
(* their probe was sent, and the counters of stats.rs.                     *)
(*                                                                         *)
(* Probes are numbered from 1; on the wire a probe carries its 16-bit      *)
(* sequence number, Seq.  Instants are kept relative to the present: an    *)
(* entry of the map has an age, lead is how far next_send is ahead, left   *)
(* what remains of the last sleep.  The network is external: it answers a  *)
(* probe that was sent any number of times, at any time, or never.  Round  *)
(* trip times, the payload and the process id are left out; a packet that  *)
(* parse_echo_reply or the id rejects is as good as none.                  *)
(***************************************************************************)
EXTENDS Integers, FiniteSets

CONSTANTS
    Count,                   \* -c; also the bound when ping runs without it
    SeqSpace,                \* sequence numbers; 65536 in the code
    Timeout, Interval

ASSUME PingAssumption ==
    /\ Count \in Nat
    /\ SeqSpace \in Nat \ {0}
    /\ Timeout \in Nat
    /\ Interval \in Nat

VARIABLES
    running,    \* the flag both threads and the signal handler share
    main,       \* where the main thread is
    lead,       \* next_send - now
    left,       \* what is left of the sleep before the end
    rcv,        \* where the receiver thread is
    sentTimes,  \* sequence number -> probe and age; NoProbe: not in the map
    sent, received,          \* RttStats
    got, lost   \* observer: probes counted as received, reported as timed out

vars == <<running, main, lead, left, rcv, sentTimes, sent, received, got, lost>>
mainVars == <<main, lead, left, sent>>
recvVars == <<rcv, received, got>>

NoProbe == [probe |-> 0, age |-> 0]

Seq(n) == (n - 1) % SeqSpace

\* Probes that have left the host, and probes that were entered in the map
OnWire == 1 .. (sent + IF main \in {"insert", "count"} THEN 1 ELSE 0)
Inserted == 1 .. (sent + IF main = "count" THEN 1 ELSE 0)

\* What is still waited for
Pending(times) == {times[s].probe : s \in DOMAIN times} \ {0}

AtMost(x, y) == IF x <= y THEN x ELSE y
AtLeast(x, y) == IF x >= y THEN x ELSE y

Init ==
    /\ running = TRUE
    /\ main = "check" /\ lead = 0 /\ left = 0
    /\ rcv = "top"
    /\ sentTimes = [s \in 0 .. SeqSpace - 1 |-> NoProbe]
    /\ sent = 0 /\ received = 0
    /\ got = {} /\ lost = {}

-----------------------------------------------------------------------------
(* The sender *)

\* Mutant: no sleep before the receiver is stopped
Leave_at_once == main' = "drain" /\ left' = 0

\* The loop is left: outstanding replies get one more timeout
Leave == main' = "drain" /\ left' = Timeout

\* Mutant: one probe too many
Check_off_by_one ==
    /\ main = "check"
    /\ IF running /\ sent <= Count THEN main' = "send" /\ UNCHANGED left ELSE Leave
    /\ UNCHANGED <<running, lead, sentTimes, sent, lost, recvVars>>

Check ==
    /\ main = "check"
    /\ IF running /\ sent < Count THEN main' = "send" /\ UNCHANGED left ELSE Leave
    /\ UNCHANGED <<running, lead, sentTimes, sent, lost, recvVars>>

\* send_to; an error ends the loop
SendTo ==
    /\ main = "send"
    /\ (main' = "insert" /\ UNCHANGED left) \/ Leave
    /\ UNCHANGED <<running, lead, sentTimes, sent, lost, recvVars>>

\* The probe enters the map only after it was sent
Insert ==
    /\ main = "insert"
    /\ sentTimes' = [sentTimes EXCEPT ![Seq(sent + 1)] = [probe |-> sent + 1, age |-> 0]]
    /\ main' = "count"
    /\ UNCHANGED <<running, lead, left, sent, lost, recvVars>>

\* sent is counted and next_send set; a sender that is late starts again
\* from now instead of catching up
Schedule ==
    /\ main = "count"
    /\ sent' = sent + 1
    /\ lead' = AtLeast(lead + Interval, 0)
    /\ main' = "sleep"
    /\ UNCHANGED <<running, left, sentTimes, lost, recvVars>>

Wake ==
    /\ main = "sleep" /\ lead <= 0
    /\ main' = "check"
    /\ UNCHANGED <<running, lead, left, sentTimes, sent, lost, recvVars>>

\* The last sleep is over: the receiver is told to stop
Stop ==
    /\ main = "drain" /\ left = 0
    /\ running' = FALSE
    /\ main' = "join"
    /\ UNCHANGED <<lead, left, sentTimes, sent, lost, recvVars>>

\* join returned: what is still in the map is reported
Join ==
    /\ main = "join" /\ rcv = "done"
    /\ lost' = lost \cup Pending(sentTimes)
    /\ main' = "done"
    /\ UNCHANGED <<running, lead, left, sentTimes, sent, recvVars>>

Sender == Check \/ SendTo \/ Insert \/ Schedule \/ Wake \/ Stop \/ Join

-----------------------------------------------------------------------------
(* The receiver *)

\* Mutant: the receiver does not look at the flag
RecvTop_deaf ==
    /\ rcv = "top"
    /\ rcv' = "recv"
    /\ UNCHANGED <<running, sentTimes, received, got, lost, mainVars>>

RecvTop ==
    /\ rcv = "top"
    /\ rcv' = IF running THEN "recv" ELSE "done"
    /\ UNCHANGED <<running, sentTimes, received, got, lost, mainVars>>

\* Mutant: the entry stays in the map
Reply_keeps(n) ==
    /\ rcv = "recv"
    /\ IF sentTimes[Seq(n)] # NoProbe
       THEN /\ received' = received + 1
            /\ got' = got \cup {sentTimes[Seq(n)].probe}
       ELSE UNCHANGED <<received, got>>
    /\ rcv' = "scan"
    /\ UNCHANGED <<running, sentTimes, lost, mainVars>>

\* A reply to probe n: whatever probe its sequence number stands for now is
\* taken from the map and recorded; if there is none the reply is ignored
Reply(n) ==
    /\ rcv = "recv"
    /\ IF sentTimes[Seq(n)] # NoProbe
       THEN /\ sentTimes' = [sentTimes EXCEPT ![Seq(n)] = NoProbe]
            /\ received' = received + 1
            /\ got' = got \cup {sentTimes[Seq(n)].probe}
       ELSE UNCHANGED <<sentTimes, received, got>>
    /\ rcv' = "scan"
    /\ UNCHANGED <<running, lost, mainVars>>

\* The read timed out, or the packet is not a reply to this process
NothingRead ==
    /\ rcv = "recv"
    /\ rcv' = "scan"
    /\ UNCHANGED <<running, sentTimes, received, got, lost, mainVars>>

\* Any other error ends the thread; the sender is not told
RecvError ==
    /\ rcv = "recv"
    /\ rcv' = "done"
    /\ UNCHANGED <<running, sentTimes, received, got, lost, mainVars>>

Overdue(e) == e # NoProbe /\ e.age > Timeout

\* Probes that timed out are reported and forgotten
Scan ==
    /\ rcv = "scan"
    /\ sentTimes' = [s \in DOMAIN sentTimes |->
                       IF Overdue(sentTimes[s]) THEN NoProbe ELSE sentTimes[s]]
    /\ lost' = lost \cup (Pending(sentTimes) \ Pending(sentTimes'))
    /\ rcv' = "top"
    /\ UNCHANGED <<running, received, got, mainVars>>

Receiver ==
    RecvTop \/ (\E n \in OnWire : Reply(n)) \/ NothingRead \/ RecvError \/ Scan

-----------------------------------------------------------------------------
\* SIGINT clears the flag and nothing else; no thread is woken
Sigint ==
    /\ running
    /\ running' = FALSE
    /\ UNCHANGED <<main, lead, left, rcv, sentTimes, sent, received, got, lost>>

\* Time passes; counted only as far as the code can tell
Elapse ==
    /\ main # "done"
    /\ sentTimes' = [s \in DOMAIN sentTimes |->
                       IF sentTimes[s] = NoProbe THEN NoProbe
                       ELSE [sentTimes[s] EXCEPT !.age = AtMost(@ + 1, Timeout + 1)]]
    /\ lead' = AtLeast(lead - 1, -Interval)
    /\ left' = AtLeast(left - 1, 0)
    /\ UNCHANGED <<running, main, rcv, sent, received, got, lost>>

Ended == main = "done" /\ UNCHANGED vars

Next == Sender \/ Receiver \/ Sigint \/ Elapse \/ Ended

\* Both threads run, and the receiver's reads end by their timeout of 100 ms
Fairness == WF_vars(Sender) /\ WF_vars(Receiver) /\ WF_vars(Elapse)

Spec == Init /\ [][Next]_vars /\ Fairness

-----------------------------------------------------------------------------
(* Properties *)

TypeOK ==
    /\ running \in BOOLEAN
    /\ main \in {"check", "send", "insert", "count", "sleep", "drain", "join", "done"}
    /\ lead \in -Interval .. Interval
    /\ left \in 0 .. Timeout
    /\ rcv \in {"top", "recv", "scan", "done"}
    /\ sentTimes \in [0 .. SeqSpace - 1 -> [probe : 0 .. Count, age : 0 .. Timeout + 1]]
    /\ sent \in 0 .. Count
    /\ received \in 0 .. Count
    /\ got \subseteq 1 .. Count
    /\ lost \subseteq 1 .. Count

\* Whatever the two threads do in between (main.rs 79-95, 105-115, 138-139):
\* a probe in the map is received, reported as timed out or still waited for,
\* and only one of these, unless a later probe took its sequence number; no
\* reply, duplicated or late, is counted twice; and at the end nothing is
\* waited for that was not reported
EveryProbeAccountedFor ==
    /\ got \cap lost = {}
    /\ main # "done" => (got \cup lost) \cap Pending(sentTimes) = {}
    /\ received = Cardinality(got)
    /\ \A n \in Inserted :
         \/ n \in got \cup lost \cup Pending(sentTimes)
         \/ n + SeqSpace \in Inserted
    /\ main = "done" => Pending(sentTimes) \subseteq lost

\* "Request timeout" is said of a probe only when its timeout has passed,
\* on every way out of the program: the scan, the end of the count, an error
\* of either thread, SIGINT (main.rs 105-115, 151-162)
TimeoutIsReal ==
    [][\A s \in DOMAIN sentTimes :
         sentTimes[s].probe \in lost' \ lost => sentTimes[s].age >= Timeout]_vars

\* ping ends: the sender is not kept from stopping and the receiver sees
\* that it must, so join returns (main.rs 71, 151-153)
PingEnds == <>(main = "done")
=============================================================================
