----------------------------- MODULE PingProofs -----------------------------
(***************************************************************************)
(* ping for every count, timeout, interval and size of the sequence space: *)
(* whatever the two threads do in between, every probe is accounted for    *)
(* and none is reported as timed out before its time.                      *)
(***************************************************************************)
EXTENDS Ping, FiniteSetTheorems, TLAPS

-----------------------------------------------------------------------------
(* The inductive invariant *)

\* What the main thread knows at each place, and that join has returned only
\* when the receiver had ended
Control ==
    /\ main \in {"check", "send", "insert", "count"} => lead <= 0
    /\ main \in {"send", "insert", "count"} => sent < Count
    /\ main = "done" => rcv = "done"

\* A slot of the map that is taken is taken by a probe that was entered there;
\* once the loop is left, its age and the rest of the sleep make up a timeout
Slot(s) ==
    LET e == sentTimes[s] IN
    /\ e.probe = 0 => e = NoProbe
    /\ e.probe # 0 => /\ e.probe \in Inserted
                      /\ Seq(e.probe) = s
                      /\ main = "drain" => e.age + left >= Timeout
                      /\ main = "join" => e.age >= Timeout

Slots == \A s \in 0 .. SeqSpace - 1 : Slot(s)

\* Only probes that were entered are counted or reported
Counted == got \subseteq Inserted /\ lost \subseteq Inserted

PingInv == TypeOK /\ Control /\ Slots /\ Counted /\ EveryProbeAccountedFor

-----------------------------------------------------------------------------
(* Sequence numbers *)

\* The number of a probe is one of the sequence space.
LEMMA SeqType ==
    ASSUME NEW n \in Nat \ {0}
    PROVE  Seq(n) \in 0 .. SeqSpace - 1
  BY PingAssumption DEF Seq

\* Two probes with the same number are a whole sequence space apart.
LEMMA SeqApart ==
    ASSUME NEW m \in Nat \ {0}, NEW n \in Nat \ {0}, m < n, Seq(m) = Seq(n)
    PROVE  m + SeqSpace <= n
<1> DEFINE N == SeqSpace
           a == (m - 1) \div N
           b == (n - 1) \div N
<1>1. N \in Nat \ {0}
  BY PingAssumption
<1>2. /\ a \in Int /\ b \in Int
      /\ m - 1 = N * a + ((m - 1) % N)
      /\ n - 1 = N * b + ((n - 1) % N)
  BY <1>1
<1>3. n - m = N * (b - a)
  BY <1>1, <1>2 DEF Seq
<1>4. b - a >= 1
  BY <1>1, <1>2, <1>3
<1>5. QED BY <1>1, <1>2, <1>3, <1>4

-----------------------------------------------------------------------------
(* The map *)

\* An entry of the map is a probe and an age.
LEMMA EntryFields ==
    ASSUME TypeOK, NEW s \in 0 .. SeqSpace - 1
    PROVE  /\ sentTimes[s].probe \in 0 .. Count
           /\ sentTimes[s].age \in 0 .. Timeout + 1
           /\ sentTimes[s] \in [probe : 0 .. Count, age : 0 .. Timeout + 1]
           /\ DOMAIN sentTimes = 0 .. SeqSpace - 1
  BY DEF TypeOK

\* A probe is waited for when some slot holds it.
LEMMA PendingIs ==
    ASSUME NEW times, DOMAIN times = 0 .. SeqSpace - 1
    PROVE  \A k : k \in Pending(times) <=> /\ k # 0
                                           /\ \E s \in 0 .. SeqSpace - 1 : times[s].probe = k
  BY DEF Pending

\* A probe is waited for in its own slot only.
LEMMA PendingSlot ==
    ASSUME TypeOK, Slots, NEW k \in Pending(sentTimes)
    PROVE  /\ k \in Inserted
           /\ Seq(k) \in 0 .. SeqSpace - 1
           /\ sentTimes[Seq(k)].probe = k
<1>1. PICK s \in 0 .. SeqSpace - 1 : sentTimes[s].probe = k /\ k # 0
  BY EntryFields, PendingIs DEF TypeOK
<1>2. QED BY <1>1 DEF Slots, Slot

\* The probes entered are the first ones.
LEMMA InsertedIs ==
    ASSUME TypeOK
    PROVE  LET n == IF main = "count" THEN sent + 1 ELSE sent
           IN  n \in Nat /\ Inserted = 1 .. n
  BY PingAssumption DEF TypeOK, Inserted

-----------------------------------------------------------------------------
(* Steps that leave the map alone *)

\* A step of either thread that touches neither the map nor the counts.
LEMMA Quiet ==
    ASSUME PingInv, UNCHANGED <<sentTimes, received, got, lost>>, Inserted' = Inserted,
           main' = "done" <=> main = "done",
           main' = "drain" => (main = "drain" /\ left' = left) \/ left' = Timeout,
           main' = "join" => main = "join" \/ (main = "drain" /\ left = 0)
    PROVE  Slots' /\ Counted' /\ EveryProbeAccountedFor'
<1>1. ASSUME NEW s \in 0 .. SeqSpace - 1 PROVE Slot(s)'
  <2>1. sentTimes[s].age \in Nat /\ Timeout \in Nat /\ left \in Nat
    BY EntryFields, PingAssumption DEF PingInv, TypeOK
  <2>2. Slot(s)
    BY DEF PingInv, Slots
  <2>3. QED BY <2>1, <2>2 DEF Slot
<1>2. Slots'
  BY <1>1 DEF Slots
<1>3. Counted'
  BY DEF PingInv, Counted
<1>4. EveryProbeAccountedFor'
  BY DEF PingInv, EveryProbeAccountedFor
<1>5. QED BY <1>2, <1>3, <1>4

\* The sender's steps around the map.
LEMMA SenderQuiet ==
    ASSUME PingInv, Check \/ SendTo \/ Schedule \/ Wake \/ Stop
    PROVE  PingInv'
<1> USE DEF mainVars, recvVars
<1>1. TypeOK /\ Control
  BY DEF PingInv
<1>2. CASE Check
  <2>1. TypeOK' /\ Control'
    BY <1>1, <1>2, PingAssumption DEF TypeOK, Control, Check, Leave
  <2>2. Inserted' = Inserted
    BY <1>2 DEF Check, Leave, Inserted
  <2>3. QED BY <1>2, <2>1, <2>2, Quiet DEF PingInv, Check, Leave
<1>3. CASE SendTo
  <2>1. TypeOK' /\ Control'
    BY <1>1, <1>3, PingAssumption DEF TypeOK, Control, SendTo, Leave
  <2>2. Inserted' = Inserted
    BY <1>3 DEF SendTo, Leave, Inserted
  <2>3. QED BY <1>3, <2>1, <2>2, Quiet DEF PingInv, SendTo, Leave
<1>4. CASE Schedule
  <2>1. TypeOK' /\ Control'
    BY <1>1, <1>4, PingAssumption DEF TypeOK, Control, Schedule, AtLeast
  <2>2. Inserted' = Inserted
    BY <1>1, <1>4, PingAssumption DEF Schedule, Inserted, TypeOK
  <2>3. QED BY <1>4, <2>1, <2>2, Quiet DEF PingInv, Schedule
<1>5. CASE Wake
  <2>1. TypeOK' /\ Control'
    BY <1>1, <1>5 DEF TypeOK, Control, Wake
  <2>2. Inserted' = Inserted
    BY <1>5 DEF Wake, Inserted
  <2>3. QED BY <1>5, <2>1, <2>2, Quiet DEF PingInv, Wake
<1>6. CASE Stop
  <2>1. TypeOK' /\ Control'
    BY <1>1, <1>6 DEF TypeOK, Control, Stop
  <2>2. Inserted' = Inserted
    BY <1>6 DEF Stop, Inserted
  <2>3. QED BY <1>6, <2>1, <2>2, Quiet DEF PingInv, Stop
<1>7. QED BY <1>2, <1>3, <1>4, <1>5, <1>6

\* The receiver's steps around the map, and the signal.
LEMMA ReceiverQuiet ==
    ASSUME PingInv, RecvTop \/ NothingRead \/ RecvError \/ Sigint
    PROVE  PingInv'
<1> USE DEF mainVars, recvVars
<1>1. /\ UNCHANGED <<main, lead, left, sent, sentTimes, received, got, lost>>
      /\ rcv' \in {"top", "recv", "scan", "done"} /\ running' \in BOOLEAN
      /\ rcv = "done" => rcv' = "done"
  BY DEF RecvTop, NothingRead, RecvError, Sigint, PingInv, TypeOK
<1>2. TypeOK' /\ Control' /\ Inserted' = Inserted
  BY <1>1 DEF PingInv, TypeOK, Control, Inserted
<1>3. Slots' /\ Counted' /\ EveryProbeAccountedFor'
  BY <1>1, <1>2, Quiet
<1>4. QED BY <1>2, <1>3 DEF PingInv

-----------------------------------------------------------------------------
(* Steps that change the map *)

\* The next probe takes its slot.  One that is still waited for there is a
\* whole sequence space older.
LEMMA InsertStep ==
    ASSUME PingInv, Insert
    PROVE  PingInv'
<1> DEFINE n == sent + 1
           Slot0 == 0 .. SeqSpace - 1
<1>1. TypeOK /\ Control /\ Slots /\ Counted /\ EveryProbeAccountedFor
  BY DEF PingInv
<1>2. /\ main = "insert" /\ main' = "count"
      /\ sentTimes' = [sentTimes EXCEPT ![Seq(n)] = [probe |-> n, age |-> 0]]
      /\ UNCHANGED <<running, lead, left, sent, lost, rcv, received, got>>
  BY DEF Insert, recvVars
<1>3. /\ n \in 1 .. Count /\ n \in Nat \ {0} /\ sent \in Nat
      /\ Inserted = 1 .. sent /\ Inserted' = 1 .. n
  BY <1>1, <1>2, PingAssumption DEF TypeOK, Control, Inserted
<1>4. Seq(n) \in Slot0
  BY <1>3, SeqType
<1>5. sentTimes \in [Slot0 -> [probe : 0 .. Count, age : 0 .. Timeout + 1]]
  BY <1>1 DEF TypeOK
<1>6. [probe |-> n, age |-> 0] \in [probe : 0 .. Count, age : 0 .. Timeout + 1]
  BY <1>3, PingAssumption
<1>7. /\ sentTimes' \in [Slot0 -> [probe : 0 .. Count, age : 0 .. Timeout + 1]]
      /\ sentTimes'[Seq(n)] = [probe |-> n, age |-> 0]
      /\ \A s \in Slot0 : s # Seq(n) => sentTimes'[s] = sentTimes[s]
  BY <1>2, <1>4, <1>5, <1>6
<1>8. TypeOK' /\ Control'
  BY <1>1, <1>2, <1>7 DEF TypeOK, Control
<1>9. 1 .. sent \subseteq 1 .. n /\ n \notin 1 .. sent /\ n \in 1 .. n
      /\ \A k \in 1 .. n : k \in 1 .. sent \/ k = n
  BY <1>3
<1>p. \A k : k \in Pending(sentTimes') <=> k # 0 /\ \E s \in Slot0 : sentTimes'[s].probe = k
  <2>1. DOMAIN sentTimes' = 0 .. SeqSpace - 1
    BY <1>7
  <2>2. QED BY <2>1, PendingIs
<1> HIDE DEF n, Slot0
<1>10. Slots'
  <2>1. ASSUME NEW s \in Slot0 PROVE Slot(s)'
    <3>1. CASE s = Seq(n)
      BY <1>2, <1>3, <1>7, <1>9, <3>1 DEF Slot
    <3>2. CASE s # Seq(n)
      <4>1. Slot(s) /\ sentTimes'[s] = sentTimes[s]
        BY <1>1, <1>7, <3>2 DEF Slots, Slot0
      <4>2. QED BY <1>2, <1>3, <1>9, <4>1 DEF Slot
    <3>3. QED BY <3>1, <3>2
  <2>2. QED BY <2>1 DEF Slots, Slot0
<1>11. Counted'
  BY <1>1, <1>2, <1>3, <1>9 DEF Counted
\* What is waited for afterwards: the new probe and all but the one it displaced
<1>12. ASSUME NEW k \in Pending(sentTimes)
       PROVE  k \in Pending(sentTimes') \/ k + SeqSpace \in 1 .. n
  <2>1. k \in 1 .. sent /\ Seq(k) \in Slot0 /\ sentTimes[Seq(k)].probe = k
    BY <1>1, <1>3, PendingSlot DEF Slot0
  <2>2. CASE Seq(k) = Seq(n)
    <3>1. k \in Nat \ {0} /\ k < n
      BY <1>3, <2>1 DEF n
    <3>2. k + SeqSpace <= n
      BY <1>3, <2>2, <3>1, SeqApart
    <3>3. QED BY <1>3, <3>1, <3>2, PingAssumption
  <2>3. CASE Seq(k) # Seq(n)
    <3>1. sentTimes'[Seq(k)].probe = k /\ k # 0
      BY <1>3, <1>7, <2>1, <2>3
    <3>2. QED BY <1>p, <2>1, <3>1
  <2>4. QED BY <2>2, <2>3
<1>13. Pending(sentTimes') \subseteq Pending(sentTimes) \cup {n}
  <2> SUFFICES ASSUME NEW k \in Pending(sentTimes'), k # n PROVE k \in Pending(sentTimes)
    OBVIOUS
  <2>1. PICK s \in Slot0 : sentTimes'[s].probe = k /\ k # 0
    BY <1>p
  <2>2. sentTimes[s].probe = k
    BY <1>7, <2>1
  <2>3. QED BY <1>5, <2>1, <2>2, PendingIs DEF Slot0
<1>14. n \in Pending(sentTimes')
  BY <1>3, <1>4, <1>7, <1>p
<1>15. EveryProbeAccountedFor'
  <2>1. got' \cap lost' = {} /\ received' = Cardinality(got')
    BY <1>1, <1>2 DEF EveryProbeAccountedFor
  <2>2. (got' \cup lost') \cap Pending(sentTimes') = {}
    BY <1>1, <1>2, <1>3, <1>9, <1>13 DEF EveryProbeAccountedFor, Counted
  <2>3. ASSUME NEW k \in 1 .. n
        PROVE  k \in got \cup lost \cup Pending(sentTimes') \/ k + SeqSpace \in 1 .. n
    <3>1. CASE k = n
      BY <1>14, <3>1
    <3>2. CASE k \in 1 .. sent
      <4>1. k \in got \cup lost \cup Pending(sentTimes) \/ k + SeqSpace \in 1 .. sent
        BY <1>1, <1>3, <3>2 DEF EveryProbeAccountedFor
      <4>2. QED BY <1>9, <1>12, <4>1
    <3>3. QED BY <1>9, <3>1, <3>2
  <2>4. QED BY <1>2, <1>3, <2>1, <2>2, <2>3 DEF EveryProbeAccountedFor
<1>16. QED BY <1>8, <1>10, <1>11, <1>15 DEF PingInv

\* A reply takes the probe its number stands for out of the map and counts
\* it, once.
LEMMA ReplyStep ==
    ASSUME PingInv, NEW n \in OnWire, Reply(n)
    PROVE  PingInv'
<1> DEFINE Slot0 == 0 .. SeqSpace - 1
           k == sentTimes[Seq(n)].probe
<1>1. TypeOK /\ Control /\ Slots /\ Counted /\ EveryProbeAccountedFor
  BY DEF PingInv
<1>2. n \in Nat \ {0} /\ Seq(n) \in Slot0
  <2>1. n \in Nat \ {0}
    BY <1>1, PingAssumption DEF OnWire, TypeOK
  <2>2. QED BY <2>1, SeqType
<1>3. /\ rcv = "recv" /\ rcv' = "scan"
      /\ UNCHANGED <<running, lost, main, lead, left, sent>>
      /\ Inserted' = Inserted
  BY DEF Reply, mainVars, Inserted
<1>4. main # "done"
  BY <1>1, <1>3 DEF Control
<1>5. CASE sentTimes[Seq(n)] = NoProbe
  <2>1. UNCHANGED <<sentTimes, received, got>>
    BY <1>5 DEF Reply
  <2>2. TypeOK' /\ Control'
    BY <1>1, <1>3, <1>4, <2>1 DEF TypeOK, Control
  <2>3. Slots' /\ Counted' /\ EveryProbeAccountedFor'
    BY <1>3, <2>1, Quiet
  <2>4. QED BY <2>2, <2>3 DEF PingInv
<1>6. CASE sentTimes[Seq(n)] # NoProbe
  <2>1. /\ sentTimes' = [sentTimes EXCEPT ![Seq(n)] = NoProbe]
        /\ received' = received + 1
        /\ got' = got \cup {k}
    BY <1>6 DEF Reply
  <2>2. k # 0 /\ k \in Inserted /\ Seq(k) = Seq(n)
    BY <1>1, <1>2, <1>6 DEF Slots, Slot
  <2>3. /\ sentTimes \in [Slot0 -> [probe : 0 .. Count, age : 0 .. Timeout + 1]]
        /\ NoProbe \in [probe : 0 .. Count, age : 0 .. Timeout + 1]
        /\ k \in 1 .. Count /\ got \subseteq 1 .. Count
    BY <1>1, <1>2, <2>2, PingAssumption DEF TypeOK, NoProbe
  <2>4. /\ sentTimes' \in [Slot0 -> [probe : 0 .. Count, age : 0 .. Timeout + 1]]
        /\ sentTimes'[Seq(n)] = NoProbe /\ NoProbe.probe = 0
        /\ \A s \in Slot0 : s # Seq(n) => sentTimes'[s] = sentTimes[s]
    BY <1>2, <2>1, <2>3 DEF NoProbe
  <2>5. /\ \A j : j \in Pending(sentTimes') <=> j # 0 /\ \E s \in Slot0 : sentTimes'[s].probe = j
        /\ \A j : j \in Pending(sentTimes) <=> j # 0 /\ \E s \in Slot0 : sentTimes[s].probe = j
    <3>1. DOMAIN sentTimes = 0 .. SeqSpace - 1 /\ DOMAIN sentTimes' = 0 .. SeqSpace - 1
      BY <2>3, <2>4
    <3>2. QED BY <3>1, PendingIs
  <2> HIDE DEF Slot0
  <2>6. Pending(sentTimes') = Pending(sentTimes) \ {k}
    <3>1. ASSUME NEW s \in Slot0, sentTimes[s].probe = k PROVE s = Seq(n)
      BY <1>1, <2>2, <3>1 DEF Slots, Slot, Slot0
    <3>2. ASSUME NEW j \in Pending(sentTimes'), j # 0 PROVE j \in Pending(sentTimes) /\ j # k
      <4>1. PICK s \in Slot0 : sentTimes'[s].probe = j
        BY <2>5
      <4>2. s # Seq(n) /\ sentTimes[s].probe = j
        BY <2>4, <3>2, <4>1
      <4>3. QED BY <2>5, <3>1, <3>2, <4>2
    <3>3. ASSUME NEW j \in Pending(sentTimes), j # k PROVE j \in Pending(sentTimes')
      <4>1. PICK s \in Slot0 : sentTimes[s].probe = j /\ j # 0
        BY <2>5
      <4>2. s # Seq(n) /\ sentTimes'[s].probe = j
        BY <2>4, <3>3, <4>1
      <4>3. QED BY <2>5, <4>1, <4>2
    <3>4. QED BY <2>5, <3>2, <3>3
  <2>7. k \in Pending(sentTimes) /\ k \notin got /\ k \notin lost
    BY <1>1, <1>2, <1>4, <2>2, <2>5 DEF EveryProbeAccountedFor
  <2>8. IsFiniteSet(got) /\ Cardinality(got') = Cardinality(got) + 1 /\ Cardinality(got') \in 0 .. Count
    <3>1. IsFiniteSet(1 .. Count) /\ Cardinality(1 .. Count) <= Count
      BY FS_Interval, PingAssumption
    <3>2. IsFiniteSet(got) /\ IsFiniteSet(got') /\ Cardinality(got') <= Cardinality(1 .. Count)
      BY <2>1, <2>3, <3>1, FS_Subset
    <3>3. Cardinality(got) \in Nat /\ Cardinality(got') \in Nat /\ Cardinality(1 .. Count) \in Nat
      BY <3>1, <3>2, FS_CardinalityType
    <3>4. Cardinality(got') = Cardinality(got) + 1
      BY <2>1, <2>7, <3>2, FS_AddElement
    <3>5. QED BY <3>1, <3>2, <3>3, <3>4, PingAssumption
  <2>9. received' = Cardinality(got')
    BY <1>1, <2>1, <2>8 DEF EveryProbeAccountedFor
  <2>10. TypeOK' /\ Control'
    BY <1>1, <1>3, <1>4, <2>1, <2>3, <2>4, <2>8, <2>9 DEF TypeOK, Control, Slot0
  <2>11. Slots'
    <3>1. ASSUME NEW s \in Slot0 PROVE Slot(s)'
      <4>1. CASE s = Seq(n)
        BY <2>4, <4>1 DEF Slot
      <4>2. CASE s # Seq(n)
        <5>1. Slot(s) /\ sentTimes'[s] = sentTimes[s]
          BY <1>1, <2>4, <4>2 DEF Slots, Slot0
        <5>2. QED BY <1>3, <5>1 DEF Slot
      <4>3. QED BY <4>1, <4>2
    <3>2. QED BY <3>1 DEF Slots, Slot0
  <2>12. Counted'
    BY <1>1, <1>3, <2>1, <2>2 DEF Counted
  <2>13. EveryProbeAccountedFor'
    <3>1. /\ got' \cap lost' = {}
          /\ (got' \cup lost') \cap Pending(sentTimes') = {}
          /\ got' \cup lost' \cup Pending(sentTimes') = got \cup lost \cup Pending(sentTimes)
      BY <1>1, <1>3, <1>4, <2>1, <2>6, <2>7 DEF EveryProbeAccountedFor
    <3>2. QED BY <1>1, <1>3, <1>4, <2>9, <3>1 DEF EveryProbeAccountedFor
  <2>14. QED BY <2>10, <2>11, <2>12, <2>13 DEF PingInv
<1>7. QED BY <1>5, <1>6

\* The scan reports overdue probes and takes them out of the map.
LEMMA ScanStep ==
    ASSUME PingInv, Scan
    PROVE  PingInv'
<1> DEFINE Slot0 == 0 .. SeqSpace - 1
<1>1. TypeOK /\ Control /\ Slots /\ Counted /\ EveryProbeAccountedFor
  BY DEF PingInv
<1>2. /\ rcv = "scan" /\ rcv' = "top"
      /\ UNCHANGED <<running, received, got, main, lead, left, sent>>
      /\ Inserted' = Inserted
      /\ lost' = lost \cup (Pending(sentTimes) \ Pending(sentTimes'))
  BY DEF Scan, mainVars, Inserted
<1>3. main # "done"
  BY <1>1, <1>2 DEF Control
<1>4. /\ sentTimes \in [Slot0 -> [probe : 0 .. Count, age : 0 .. Timeout + 1]]
      /\ NoProbe \in [probe : 0 .. Count, age : 0 .. Timeout + 1]
      /\ NoProbe.probe = 0
  BY <1>1, PingAssumption DEF TypeOK, NoProbe
<1>5. sentTimes' = [s \in Slot0 |-> IF Overdue(sentTimes[s]) THEN NoProbe ELSE sentTimes[s]]
  BY <1>4 DEF Scan
<1>6. /\ sentTimes' \in [Slot0 -> [probe : 0 .. Count, age : 0 .. Timeout + 1]]
      /\ \A s \in Slot0 : sentTimes'[s] = NoProbe \/ sentTimes'[s] = sentTimes[s]
  BY <1>4, <1>5
<1>7. /\ \A j : j \in Pending(sentTimes') <=> j # 0 /\ \E s \in Slot0 : sentTimes'[s].probe = j
      /\ \A j : j \in Pending(sentTimes) <=> j # 0 /\ \E s \in Slot0 : sentTimes[s].probe = j
  <2>1. DOMAIN sentTimes = 0 .. SeqSpace - 1 /\ DOMAIN sentTimes' = 0 .. SeqSpace - 1
    BY <1>4, <1>6
  <2>2. QED BY <2>1, PendingIs
<1>8. Pending(sentTimes) \subseteq Inserted /\ Inserted \subseteq 1 .. Count
  <2>1. Pending(sentTimes) \subseteq Inserted
    BY <1>1, PendingSlot
  <2>2. Inserted \subseteq 1 .. Count
    BY <1>1, PingAssumption DEF TypeOK, Control, Inserted
  <2>3. QED BY <2>1, <2>2
<1> HIDE DEF Slot0
<1>9. Pending(sentTimes') \subseteq Pending(sentTimes)
  BY <1>4, <1>6, <1>7
<1>10. TypeOK' /\ Control'
  BY <1>1, <1>2, <1>3, <1>6, <1>8 DEF TypeOK, Control, Slot0
<1>11. Slots'
  <2>1. ASSUME NEW s \in Slot0 PROVE Slot(s)'
    <3>1. CASE sentTimes'[s] = NoProbe
      BY <1>4, <3>1 DEF Slot
    <3>2. CASE sentTimes'[s] = sentTimes[s]
      <4>1. Slot(s)
        BY <1>1 DEF Slots, Slot0
      <4>2. QED BY <1>2, <3>2, <4>1 DEF Slot
    <3>3. QED BY <1>6, <3>1, <3>2
  <2>2. QED BY <2>1 DEF Slots, Slot0
<1>12. Counted'
  BY <1>1, <1>2, <1>8 DEF Counted
<1>13. EveryProbeAccountedFor'
  <2>1. /\ got' \cap lost' = {}
        /\ (got' \cup lost') \cap Pending(sentTimes') = {}
        /\ got' \cup lost' \cup Pending(sentTimes') = got \cup lost \cup Pending(sentTimes)
    BY <1>1, <1>2, <1>3, <1>9 DEF EveryProbeAccountedFor
  <2>2. QED BY <1>1, <1>2, <1>3, <2>1 DEF EveryProbeAccountedFor
<1>14. QED BY <1>10, <1>11, <1>12, <1>13 DEF PingInv

\* join returns: what is still in the map is reported.
LEMMA JoinStep ==
    ASSUME PingInv, Join
    PROVE  PingInv'
<1>1. TypeOK /\ Control /\ Slots /\ Counted /\ EveryProbeAccountedFor
  BY DEF PingInv
<1>2. /\ main = "join" /\ main' = "done" /\ rcv = "done"
      /\ UNCHANGED <<running, lead, left, sentTimes, sent, rcv, received, got>>
      /\ lost' = lost \cup Pending(sentTimes)
      /\ Inserted' = Inserted
  BY DEF Join, recvVars, Inserted
<1>3. Pending(sentTimes) \subseteq Inserted /\ Inserted \subseteq 1 .. Count
  <2>1. Pending(sentTimes) \subseteq Inserted
    BY <1>1, PendingSlot
  <2>2. Inserted \subseteq 1 .. Count
    BY <1>1, PingAssumption DEF TypeOK, Control, Inserted
  <2>3. QED BY <2>1, <2>2
<1>4. TypeOK' /\ Control'
  BY <1>1, <1>2, <1>3 DEF TypeOK, Control
<1>5. Slots'
  BY <1>1, <1>2 DEF Slots, Slot
<1>6. Counted'
  BY <1>1, <1>2, <1>3 DEF Counted
<1>7. EveryProbeAccountedFor'
  BY <1>1, <1>2 DEF EveryProbeAccountedFor
<1>8. QED BY <1>4, <1>5, <1>6, <1>7 DEF PingInv

\* Time passes: the probes grow older while the sleep grows shorter.
LEMMA ElapseStep ==
    ASSUME PingInv, Elapse
    PROVE  PingInv'
<1> DEFINE Slot0 == 0 .. SeqSpace - 1
           Ent == [probe : 0 .. Count, age : 0 .. Timeout + 1]
<1>1. TypeOK /\ Control /\ Slots /\ Counted /\ EveryProbeAccountedFor
  BY DEF PingInv
<1>2. /\ main # "done"
      /\ lead' = AtLeast(lead - 1, -Interval) /\ left' = AtLeast(left - 1, 0)
      /\ UNCHANGED <<running, main, rcv, sent, received, got, lost>>
      /\ Inserted' = Inserted
  BY DEF Elapse, Inserted
<1>3. sentTimes \in [Slot0 -> Ent] /\ left \in 0 .. Timeout
  BY <1>1 DEF TypeOK
<1>4. sentTimes' = [s \in Slot0 |->
                     IF sentTimes[s] = NoProbe THEN NoProbe
                     ELSE [sentTimes[s] EXCEPT !.age = AtMost(@ + 1, Timeout + 1)]]
  BY <1>3 DEF Elapse
<1>5. ASSUME NEW s \in Slot0
      PROVE  /\ sentTimes'[s] \in Ent
             /\ sentTimes'[s].probe = sentTimes[s].probe
             /\ \/ sentTimes[s] = NoProbe /\ sentTimes'[s] = NoProbe
                \/ sentTimes'[s].age = AtMost(sentTimes[s].age + 1, Timeout + 1)
  <2>1. CASE sentTimes[s] = NoProbe
    BY <1>3, <1>4, <2>1
  <2>2. CASE sentTimes[s] # NoProbe
    <3>1. sentTimes'[s] = [sentTimes[s] EXCEPT !.age = AtMost(@ + 1, Timeout + 1)]
      BY <1>4, <2>2
    <3>2. sentTimes[s] \in Ent /\ AtMost(sentTimes[s].age + 1, Timeout + 1) \in 0 .. Timeout + 1
      BY <1>3, PingAssumption DEF AtMost
    <3>3. QED BY <3>1, <3>2
  <2>3. QED BY <2>1, <2>2
<1>6. sentTimes' \in [Slot0 -> Ent]
  BY <1>4, <1>5
<1>7. TypeOK' /\ Control'
  <2>1. /\ lead' \in -Interval .. Interval /\ left' \in 0 .. Timeout
        /\ lead <= 0 => lead' <= 0
    BY <1>1, <1>2, PingAssumption DEF TypeOK, AtLeast
  <2>2. QED BY <1>1, <1>2, <1>6, <2>1 DEF TypeOK, Control
<1>8. Pending(sentTimes') = Pending(sentTimes)
  <2>1. DOMAIN sentTimes = Slot0 /\ DOMAIN sentTimes' = Slot0
    BY <1>3, <1>4
  <2>2. \A s \in Slot0 : sentTimes'[s].probe = sentTimes[s].probe
    BY <1>5
  <2> HIDE DEF Slot0
  <2>3. QED BY <2>1, <2>2 DEF Pending
<1>9. Slots'
  <2>1. ASSUME NEW s \in Slot0 PROVE Slot(s)'
    <3>1. Slot(s) /\ sentTimes[s].age \in 0 .. Timeout + 1
      BY <1>1, <1>3 DEF Slots
    <3>2. CASE sentTimes[s] = NoProbe /\ sentTimes'[s] = NoProbe
      BY <3>2 DEF Slot, NoProbe
    <3>3. CASE sentTimes[s].probe = 0
      <4>1. sentTimes[s] = NoProbe
        BY <3>1, <3>3 DEF Slot
      <4>2. sentTimes'[s] = NoProbe
        BY <1>4, <4>1
      <4>3. QED BY <3>2, <4>1, <4>2
    <3>4. CASE /\ sentTimes[s].probe # 0
               /\ sentTimes'[s].age = AtMost(sentTimes[s].age + 1, Timeout + 1)
      <4>1. sentTimes'[s].probe = sentTimes[s].probe /\ Timeout \in Nat
        BY <1>5, PingAssumption
      <4>2. /\ sentTimes[s].age + left >= Timeout => sentTimes'[s].age + left' >= Timeout
            /\ sentTimes[s].age >= Timeout => sentTimes'[s].age >= Timeout
        BY <1>2, <1>3, <3>1, <3>4, <4>1 DEF AtMost, AtLeast
      <4>3. QED BY <1>2, <3>1, <3>4, <4>1, <4>2 DEF Slot
    <3>5. QED BY <1>5, <3>2, <3>3, <3>4
  <2>2. QED BY <2>1 DEF Slots
<1>10. Counted'
  BY <1>1, <1>2 DEF Counted
<1>11. EveryProbeAccountedFor'
  BY <1>1, <1>2, <1>8 DEF EveryProbeAccountedFor
<1>12. QED BY <1>7, <1>9, <1>10, <1>11 DEF PingInv

-----------------------------------------------------------------------------
(* The theorems *)

\* ping starts with an empty map and nothing counted.
LEMMA PingInit == Init => PingInv
<1> SUFFICES ASSUME Init PROVE PingInv
  OBVIOUS
<1> DEFINE Slot0 == 0 .. SeqSpace - 1
<1>1. /\ \A s \in Slot0 : sentTimes[s] = NoProbe
      /\ DOMAIN sentTimes = Slot0
      /\ NoProbe.probe = 0 /\ NoProbe \in [probe : 0 .. Count, age : 0 .. Timeout + 1]
  BY PingAssumption DEF Init, NoProbe
<1>2. TypeOK /\ Control
  BY <1>1, PingAssumption DEF Init, TypeOK, Control
<1>3. Slots
  BY <1>1 DEF Slots, Slot
<1>4. Pending(sentTimes) = {}
  BY <1>1 DEF Pending
<1>5. Inserted = {} /\ Cardinality({}) = 0
  <2>1. Inserted = 1 .. 0
    BY DEF Init, Inserted
  <2>2. QED BY <2>1, FS_EmptySet
<1>6. Counted /\ EveryProbeAccountedFor
  BY <1>4, <1>5 DEF Init, Counted, EveryProbeAccountedFor
<1>7. QED BY <1>2, <1>3, <1>6 DEF PingInv

\* Every step of either thread, of the signal and of time keeps the invariant.
LEMMA PingStep == PingInv /\ [Next]_vars => PingInv'
<1> SUFFICES ASSUME PingInv, [Next]_vars PROVE PingInv'
  OBVIOUS
<1>1. CASE UNCHANGED vars
  BY <1>1 DEF vars, PingInv, TypeOK, Control, Slots, Slot, Counted, Inserted,
              EveryProbeAccountedFor
<1>2. CASE Sender
  BY <1>2, SenderQuiet, InsertStep, JoinStep DEF Sender
<1>3. CASE Receiver
  BY <1>3, ReceiverQuiet, ReplyStep, ScanStep DEF Receiver
<1>4. CASE Sigint
  BY <1>4, ReceiverQuiet
<1>5. CASE Elapse
  BY <1>5, ElapseStep
<1>6. QED BY <1>1, <1>2, <1>3, <1>4, <1>5 DEF Next, Ended

\* The variables of ping keep their types: above all no counter exceeds the
\* number of probes, although a reply may be duplicated without bound.
THEOREM TypeCorrect == Spec => []TypeOK
<1>1. PingInv => TypeOK
  BY DEF PingInv
<1>2. QED BY <1>1, PingInit, PingStep, PTL DEF Spec

\* Every probe entered in the map is received, reported or waited for, and
\* only one of these, until a later probe takes its number.
THEOREM ProbesAccountedFor == Spec => []EveryProbeAccountedFor
<1>1. PingInv => EveryProbeAccountedFor
  BY DEF PingInv
<1>2. QED BY <1>1, PingInit, PingStep, PTL DEF Spec

\* No probe is reported as timed out before its timeout has passed: the scan
\* looks at the age, and the last report comes after a sleep of one timeout.
THEOREM TimeoutsAreReal == Spec => TimeoutIsReal
<1> DEFINE Real == \A s \in DOMAIN sentTimes :
                     sentTimes[s].probe \in lost' \ lost => sentTimes[s].age >= Timeout
<1>1. ASSUME PingInv, [Next]_vars PROVE [Real]_vars
  <2>1. TypeOK /\ Slots
    BY <1>1 DEF PingInv
  <2>2. DOMAIN sentTimes = 0 .. SeqSpace - 1
    BY <2>1 DEF TypeOK
  <2>3. CASE lost' = lost
    BY <2>3
  <2>4. CASE Scan
    <3> SUFFICES ASSUME NEW s \in 0 .. SeqSpace - 1, sentTimes[s].probe \in lost' \ lost
                 PROVE  sentTimes[s].age >= Timeout
      BY <2>2
    <3>1. sentTimes[s].probe \in Pending(sentTimes) /\ sentTimes[s].probe \notin Pending(sentTimes')
      BY <2>4 DEF Scan
    <3>2. /\ sentTimes' = [t \in 0 .. SeqSpace - 1 |->
                            IF Overdue(sentTimes[t]) THEN NoProbe ELSE sentTimes[t]]
          /\ DOMAIN sentTimes' = 0 .. SeqSpace - 1
      BY <2>2, <2>4 DEF Scan
    <3>3. CASE Overdue(sentTimes[s])
      BY <2>1, <3>3, EntryFields, PingAssumption DEF Overdue
    <3>4. CASE ~Overdue(sentTimes[s])
      <4>1. sentTimes'[s] = sentTimes[s]
        BY <3>2, <3>4
      <4>2. sentTimes[s].probe # 0
        BY <3>1 DEF Pending
      <4>3. sentTimes[s].probe \in Pending(sentTimes')
        BY <3>2, <4>1, <4>2 DEF Pending
      <4>4. QED BY <3>1, <4>3
    <3>5. QED BY <3>3, <3>4
  <2>5. CASE Join
    <3> SUFFICES ASSUME NEW s \in 0 .. SeqSpace - 1, sentTimes[s].probe \in lost' \ lost
                 PROVE  sentTimes[s].age >= Timeout
      BY <2>2
    <3>1. main = "join" /\ sentTimes[s].probe # 0
      BY <2>5 DEF Join, Pending
    <3>2. QED BY <2>1, <3>1 DEF Slots, Slot
  <2>6. lost' = lost \/ Scan \/ Join
    BY <1>1 DEF Next, Sender, Receiver, Sigint, Elapse, Ended, vars, Check, SendTo, Insert,
                Schedule, Wake, Stop, RecvTop, Reply, NothingRead, RecvError
  <2>7. QED BY <2>3, <2>4, <2>5, <2>6
<1>2. QED BY <1>1, PingInit, PingStep, PTL DEF Spec, TimeoutIsReal
=============================================================================
