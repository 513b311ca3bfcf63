----------------------------- MODULE HttpProofs -----------------------------
(***************************************************************************)
(* The rate limiter's bound for every rate, capacity and window, of the    *)
(* bucket alone and in the server.  Spent units alone do not determine     *)
(* what a window may still admit, so the induction is on BucketInv, which  *)
(* adds the units left in the bucket.  A connection uses the limiter as    *)
(* TokenBucket describes it: each of its steps is a step of the bucket or  *)
(* leaves it alone.                                                        *)
(*                                                                         *)
(* The framing of requests for every script and every way to cut it.  What *)
(* is handled does not say where the reader is, so the induction is on     *)
(* HttpInv: the first symbol not looked at is the one the place in the     *)
(* loop expects, and what follows it follows from Succ.                    *)
(***************************************************************************)
EXTENDS HttpServer, SequenceTheorems, WellFoundedInduction, TLAPS

-----------------------------------------------------------------------------
(* The bucket *)

\* The bucket stays between empty and full, and refills never run backwards.
THEOREM TypeCorrect == Spec => []TypeOK
<1>1. Init => TypeOK
  BY BucketAssumption DEF Init, TypeOK
<1>2. TypeOK /\ [Next]_vars => TypeOK'
  <2> SUFFICES ASSUME TypeOK, [Next]_vars PROVE TypeOK'
    OBVIOUS
  <2>1. CASE try_consume
    BY <2>1, BucketAssumption DEF TypeOK, try_consume, Consumed, Charged, Refill
  <2>2. ASSUME NEW d \in 1 .. MaxStep, Elapse(d) PROVE TypeOK'
    BY <2>2, BucketAssumption DEF TypeOK, Elapse
  <2>3. CASE Observe
    BY <2>3 DEF TypeOK, Observe
  <2>4. CASE UNCHANGED vars
    BY <2>4 DEF TypeOK, vars
  <2>5. QED BY <2>1, <2>2, <2>3, <2>4 DEF Next
<1>3. QED BY <1>1, <1>2, PTL DEF Spec

\* Units left plus units spent never exceed what the window could provide.
THEOREM Accounted == Spec => []BucketInv
<1>1. Init => BucketInv
  BY BucketAssumption DEF Init, BucketInv
<1>2. TypeOK /\ BucketInv /\ [Next]_vars => BucketInv'
  <2> SUFFICES ASSUME TypeOK, BucketInv, [Next]_vars PROVE BucketInv'
    OBVIOUS
  <2>1. CASE try_consume
    BY <2>1, BucketAssumption DEF TypeOK, BucketInv, try_consume, Consumed, Charged, Refill
  <2>2. ASSUME NEW d \in 1 .. MaxStep, Elapse(d) PROVE BucketInv'
    BY <2>2, BucketAssumption DEF TypeOK, BucketInv, Elapse
  <2>3. CASE Observe
    BY <2>3, BucketAssumption DEF TypeOK, BucketInv, Observe
  <2>4. CASE UNCHANGED vars
    BY <2>4 DEF BucketInv, vars
  <2>5. QED BY <2>1, <2>2, <2>3, <2>4 DEF Next
<1>3. QED BY <1>1, <1>2, TypeCorrect, PTL DEF Spec

\* No window of time admits more than the burst plus what accrues in it, for
\* every rate and every capacity.
THEOREM RateLimited == Spec => []WindowBound
<1>1. TypeOK /\ BucketInv => WindowBound
  BY BucketAssumption DEF TypeOK, BucketInv, WindowBound
<1>2. QED BY <1>1, TypeCorrect, Accounted, PTL

\* A bucket left alone for the time of one token admits the next request.
THEOREM Admits == Spec => AdmitsAfterPause
<1>1. TypeOK /\ try_consume /\ clock - last_refill >= COST /\ BURST >= COST
         => spent' = spent + COST
  BY BucketAssumption DEF TypeOK, try_consume, Charged, Refill
<1>2. TypeOK /\ [Next]_vars
         => [try_consume /\ clock - last_refill >= COST /\ BURST >= COST
                => spent' = spent + COST]_vars
  BY <1>1
<1>3. QED BY <1>2, TypeCorrect, PTL DEF Spec, AdmitsAfterPause

-----------------------------------------------------------------------------
(* The server *)

\* Every step of the connection is a step of its bucket, or none.
LEMMA StepSimulation == HttpNext => [Next]_vars
<1> SUFFICES ASSUME HttpNext PROVE [Next]_vars
  OBVIOUS
<1>1. CASE Serve
  <2>1. CASE Limit
    BY <2>1 DEF Limit, Next
  <2>2. CASE TakeLength \/ TakeSize \/ TakeData \/ TakeLast
    BY <2>2 DEF TakeLength, TakeSize, TakeData, TakeLast, BodyRead, vars
  <2>3. CASE ParseComplete \/ ParseError \/ ParsePartial
    BY <2>3 DEF ParseComplete, ParseError, ParsePartial, vars
  <2>4. CASE Route \/ FileServer
    BY <2>4 DEF Route, FileServer
  <2>5. QED BY <1>1, <2>1, <2>2, <2>3, <2>4 DEF Serve
<1>2. CASE IdleTimeout \/ WriteEnds \/ Proxy \/ CopyEnds
  BY <1>2 DEF IdleTimeout, WriteEnds, Proxy, CopyEnds
<1>3. CASE ReadEnd
  BY <1>3 DEF ReadEnd, BodyRead, vars
<1>4. CASE Elsewhere
  BY <1>4 DEF Elsewhere, Next
<1>5. ASSUME NEW k \in 1 .. Len(todo), Read(k) PROVE [Next]_vars
  BY <1>5 DEF Read, vars
<1>6. QED BY <1>1, <1>2, <1>3, <1>4, <1>5 DEF HttpNext

\* A connection of the server, the other connections and the clock together
\* implement the specification of the bucket.
THEOREM ImplementsTokenBucket == HttpSpec => Spec
<1>1. HttpInit => Init
  BY DEF HttpInit
<1>2. [HttpNext]_allVars => [Next]_vars
  <2>1. UNCHANGED allVars => UNCHANGED vars
    BY DEF allVars, vars
  <2>2. QED BY <2>1, StepSimulation
<1>3. QED BY <1>1, <1>2, PTL DEF HttpSpec, Spec

\* Whatever the connections of a listener do, no window of time admits more
\* requests than the burst plus what accrues in it.
THEOREM ServerRateLimited == HttpSpec => []WindowBound
  BY ImplementsTokenBucket, RateLimited, PTL

\* A listener whose limiter was left alone for the time of one token admits
\* the next request.
THEOREM ServerAdmits == HttpSpec => AdmitsAfterPause
  BY ImplementsTokenBucket, Admits, PTL

-----------------------------------------------------------------------------
(* Induction *)

\* The order of the natural numbers, as a set of pairs, is well-founded.
LEMMA LessThan == IsWellFoundedOn(OpToRel(<, Nat), Nat)
  BY NatLessThanWellFounded

LEMMA LessThanPairs == \A x, y \in Nat : <<x, y>> \in OpToRel(<, Nat) <=> x < y
  BY DEF OpToRel

\* A set of natural numbers has a least one.
LEMMA Least ==
    ASSUME NEW T, T \subseteq Nat, T # {}
    PROVE  \E x \in T : \A y \in T : x <= y
<1> DEFINE R == OpToRel(<, Nat)
<1>1. IsWellFoundedOn(R, Nat)
  BY LessThan
<1>2. \A x, y \in Nat : <<x, y>> \in R <=> x < y
  BY LessThanPairs
<1> HIDE DEF R
<1>3. PICK x \in T : \A y \in T : ~(<<y, x>> \in R)
  BY <1>1, WFMin
<1>4. x \in Nat /\ \A y \in T : y \in Nat /\ ~(y < x)
  BY <1>2, <1>3
<1> QED
  BY <1>4

\* A set with 0 and the successor of each of its numbers has them all.
LEMMA Induction ==
    ASSUME NEW S, 0 \in S, \A n \in Nat : n \in S => n + 1 \in S
    PROVE  \A n \in Nat : n \in S
<1> SUFFICES ASSUME Nat \ S # {} PROVE FALSE
  OBVIOUS
<1>1. PICK m \in Nat \ S : \A y \in Nat \ S : m <= y
  BY Least
<1>2. m # 0 /\ m - 1 \in Nat
  BY <1>1
<1>3. m - 1 \in S
  BY <1>1, <1>2
<1> QED
  BY <1>1, <1>2, <1>3

-----------------------------------------------------------------------------
(* Buffers *)

\* What is left of a buffer when its first bytes are gone.
LEMMA FromType ==
    ASSUME NEW S, NEW w \in Seq(S), NEW i \in 1 .. Len(w) + 1
    PROVE  /\ From(w, i) \in Seq(S) /\ Len(From(w, i)) = Len(w) - i + 1
           /\ \A j \in 1 .. Len(w) - i + 1 : From(w, i)[j] = w[i + j - 1]
<1>1. Len(w) \in Nat /\ \A j \in i .. Len(w) : w[j] \in S
  OBVIOUS
<1>2. IF i <= Len(w) THEN Len(SubSeq(w, i, Len(w))) = Len(w) - i + 1
      ELSE Len(SubSeq(w, i, Len(w))) = 0
  BY <1>1
<1> QED
  BY <1>1, <1>2 DEF From

\* What was read and not looked at, and what was not read, together.
LEMMA FromUnread ==
    ASSUME NEW S, NEW b \in Seq(S), NEW t \in Seq(S), NEW i \in 1 .. Len(b) + 1
    PROVE  /\ From(b, i) \in Seq(S)
           /\ From(b, i) \o t = From(b \o t, i) /\ i \in 1 .. Len(b \o t) + 1
<1>1. /\ Len(b) \in Nat /\ Len(t) \in Nat /\ b \o t \in Seq(S) /\ Len(b \o t) = Len(b) + Len(t)
      /\ \A j \in 1 .. Len(b) + Len(t) : (b \o t)[j] = IF j <= Len(b) THEN b[j] ELSE t[j - Len(b)]
  BY ConcatProperties
<1>2. i \in 1 .. Len(b \o t) + 1
  BY <1>1
<1> DEFINE c == From(b, i)
           d == From(b \o t, i)
<1>3. /\ c \in Seq(S) /\ Len(c) = Len(b) - i + 1
      /\ \A j \in 1 .. Len(b) - i + 1 : c[j] = b[i + j - 1]
  BY FromType
<1>4. /\ d \in Seq(S) /\ Len(d) = Len(b) + Len(t) - i + 1
      /\ \A j \in 1 .. Len(b) + Len(t) - i + 1 : d[j] = (b \o t)[i + j - 1]
  <2> DEFINE w == b \o t
  <2>1. w \in Seq(S) /\ i \in 1 .. Len(w) + 1 /\ Len(w) = Len(b) + Len(t)
    BY <1>1, <1>2
  <2> HIDE DEF w
  <2>2. /\ From(w, i) \in Seq(S) /\ Len(From(w, i)) = Len(w) - i + 1
        /\ \A j \in 1 .. Len(w) - i + 1 : From(w, i)[j] = w[i + j - 1]
    BY <2>1, FromType
  <2> QED
    BY <2>1, <2>2 DEF w
<1> HIDE DEF c, d
<1>5. /\ c \o t \in Seq(S) /\ Len(c \o t) = Len(c) + Len(t)
      /\ \A j \in 1 .. Len(c) + Len(t) : (c \o t)[j] = IF j <= Len(c) THEN c[j] ELSE t[j - Len(c)]
  BY <1>3, ConcatProperties
<1>6. Len(c \o t) = Len(d)
  BY <1>1, <1>3, <1>4, <1>5
<1>7. \A j \in 1 .. Len(d) : (c \o t)[j] = d[j]
  <2> SUFFICES ASSUME NEW j \in 1 .. Len(d) PROVE (c \o t)[j] = d[j]
    OBVIOUS
  <2>1. j \in 1 .. Len(c) + Len(t) /\ i + j - 1 \in 1 .. Len(b) + Len(t)
    BY <1>1, <1>3, <1>4
  <2>2. CASE j <= Len(c)
    BY <2>1, <2>2, <1>1, <1>3, <1>4, <1>5
  <2>3. CASE ~(j <= Len(c))
    <3>1. ~(i + j - 1 <= Len(b)) /\ i + j - 1 - Len(b) = j - Len(c)
      BY <2>3, <1>1, <1>3
    <3>2. (b \o t)[i + j - 1] = t[i + j - 1 - Len(b)]
      BY <3>1, <2>1, <1>1
    <3>3. (c \o t)[j] = t[j - Len(c)] /\ d[j] = (b \o t)[i + j - 1]
      BY <2>1, <2>3, <1>4, <1>5
    <3> QED
      BY <3>1, <3>2, <3>3
  <2> QED
    BY <2>2, <2>3
<1>8. c \o t = d
  BY <1>4, <1>5, <1>6, <1>7, SeqEqual
<1> QED
  BY <1>2, <1>3, <1>8 DEF c, d

\* A read changes neither.
LEMMA ReadUnread ==
    ASSUME NEW S, NEW b \in Seq(S), NEW t \in Seq(S), NEW k \in 1 .. Len(t)
    PROVE  /\ SubSeq(t, 1, k) \in Seq(S) /\ From(t, k + 1) \in Seq(S)
           /\ (b \o SubSeq(t, 1, k)) \o From(t, k + 1) = b \o t
<1>1. Len(t) \in Nat /\ k \in 1 .. Len(t) /\ k + 1 \in 1 .. Len(t) + 1
  OBVIOUS
<1>2. SubSeq(t, 1, k) \in Seq(S)
  <2>1. \A j \in 1 .. k : t[j] \in S
    BY <1>1
  <2> QED
    BY <2>1, <1>1, SubSeqProperties
<1>3. From(t, k + 1) \in Seq(S)
  BY <1>1, FromType
<1>4. SubSeq(t, 1, k) \o From(t, k + 1) = t
  <2>1. SubSeq(t, 1, k) \o SubSeq(t, k + 1, Len(t)) = SubSeq(t, 1, Len(t))
    BY <1>1, ConcatAdjacentSubSeq
  <2>2. SubSeq(t, 1, Len(t)) = t
    BY SubSeqFull
  <2> QED
    BY <2>1, <2>2 DEF From
<1>5. (b \o SubSeq(t, 1, k)) \o From(t, k + 1) = b \o (SubSeq(t, 1, k) \o From(t, k + 1))
  BY <1>2, <1>3, ConcatAssociative
<1> QED
  BY <1>2, <1>3, <1>4, <1>5

-----------------------------------------------------------------------------
(* The client's stream *)

LEMMA SymbolFields ==
    ASSUME NEW t, NEW line, NEW r, NEW n
    PROVE  /\ Symbol(t, line, r, n).t = t /\ Symbol(t, line, r, n).line = line
           /\ Symbol(t, line, r, n).r = r /\ Symbol(t, line, r, n).n = n
  BY DEF Symbol

\* What follows each kind of symbol.
LEMMA Successors ==
    ASSUME NEW s, NEW line, NEW r, NEW n
    PROVE  /\ Succ(s, Cr(line, r, n)) = Symbol("lf", line, r, n)
           /\ Succ(s, Symbol("lf", line, r, n)) = AfterLine(s, line, r, n)
           /\ line # "data" => Succ(s, Text(line, r, n)) = Cr(line, r, n)
           /\ Succ(s, Text("data", r, n)) =
                 IF s[r].framing = "chunked" /\ n \in s[r].cuts THEN Cr("data", r, n)
                 ELSE IF n < s[r].len THEN Text("data", r, n + 1)
                 ELSE First(s, r + 1)
<1>1. Succ(s, Cr(line, r, n)) = Symbol("lf", line, r, n)
  BY DEF Succ, Cr, Symbol
<1>2. Succ(s, Symbol("lf", line, r, n)) = AfterLine(s, line, r, n)
  BY DEF Succ, Symbol
<1>3. line # "data" => Succ(s, Text(line, r, n)) = Cr(line, r, n)
  BY DEF Succ, Cr, Text, Symbol
<1>4. Succ(s, Text("data", r, n)) =
         IF s[r].framing = "chunked" /\ n \in s[r].cuts THEN Cr("data", r, n)
         ELSE IF n < s[r].len THEN Text("data", r, n + 1)
         ELSE First(s, r + 1)
  BY DEF Succ, Cr, Text, Symbol
<1> QED
  BY <1>1, <1>2, <1>3, <1>4

LEMMA Lines ==
    ASSUME NEW s, NEW r, NEW n
    PROVE  /\ AfterLine(s, "junk", r, n) = First(s, r + 1)
           /\ AfterLine(s, "head", r, n) = Cr("blank", r, n)
           /\ AfterLine(s, "blank", r, n) = IF s[r].framing = "chunked" THEN Text("size", r, 0)
                                            ELSE IF s[r].len > 0 THEN Text("data", r, 1)
                                            ELSE First(s, r + 1)
           /\ AfterLine(s, "size", r, n) = IF n < s[r].len THEN Text("data", r, n + 1)
                                           ELSE IF s[r].trailer THEN Text("trailer", r, n)
                                           ELSE Cr("end", r, n)
           /\ AfterLine(s, "data", r, n) = Text("size", r, n)
           /\ AfterLine(s, "trailer", r, n) = Cr("end", r, n)
           /\ AfterLine(s, "end", r, n) = First(s, r + 1)
  BY DEF AfterLine

\* A request begins with a text, and End is not sent.
LEMMA Firsts ==
    ASSUME NEW s, Len(s) \in Nat, NEW r \in Nat, First(s, r) \in Symbols(s)
    PROVE  /\ r <= Len(s) /\ First(s, r).t = "text" /\ First(s, r).r = r /\ First(s, r).n = 0
           /\ First(s, r).line = IF s[r].framing = "junk" THEN "junk" ELSE "head"
           /\ First(s, r) = Text(First(s, r).line, r, 0)
<1>1. r <= Len(s)
  <2> SUFFICES ASSUME ~(r <= Len(s)) PROVE FALSE
    OBVIOUS
  <2>1. First(s, r) = End
    BY DEF First
  <2>2. End.t = "none"
    BY DEF End, Symbol
  <2>3. End.t \in {"text", "cr", "lf"}
    BY <2>1 DEF Symbols
  <2> QED
    BY <2>2, <2>3
<1>2. First(s, r) = Text(IF s[r].framing = "junk" THEN "junk" ELSE "head", r, 0)
  BY <1>1 DEF First
<1> QED
  BY <1>1, <1>2, SymbolFields DEF Text

\* The end of a stream is one.
LEMMA FromChained ==
    ASSUME NEW s, NEW w \in Seq(Symbols(s)), Chained(s, w), NEW i \in 1 .. Len(w) + 1
    PROVE  /\ From(w, i) \in Seq(Symbols(s)) /\ Chained(s, From(w, i))
           /\ From(w, i) # <<>> => i <= Len(w) /\ From(w, i)[1] = w[i]
<1> DEFINE v == From(w, i)
<1>1. /\ v \in Seq(Symbols(s)) /\ Len(v) = Len(w) - i + 1
      /\ \A j \in 1 .. Len(w) - i + 1 : v[j] = w[i + j - 1]
  BY FromType
<1>2. Len(w) \in Nat /\ i \in Nat
  OBVIOUS
<1> HIDE DEF v
<1>3. ASSUME NEW j \in 1 .. Len(v) - 1 PROVE v[j + 1] = Succ(s, v[j])
  <2>1. /\ j \in 1 .. Len(w) - i + 1 /\ j + 1 \in 1 .. Len(w) - i + 1
        /\ i + j - 1 \in 1 .. Len(w) - 1 /\ i + (j + 1) - 1 = (i + j - 1) + 1
    BY <1>1, <1>2
  <2> QED
    BY <2>1, <1>1 DEF Chained
<1>4. v # <<>> => i <= Len(w) /\ v[1] = w[i]
  <2> SUFFICES ASSUME v # <<>> PROVE i <= Len(w) /\ v[1] = w[i]
    OBVIOUS
  <2>1. Len(v) # 0 /\ Len(v) \in Nat
    BY <1>1, EmptySeq
  <2>2. i <= Len(w) /\ 1 \in 1 .. Len(w) - i + 1 /\ i + 1 - 1 = i
    BY <2>1, <1>1, <1>2
  <2> QED
    BY <2>2, <1>1
<1> QED
  BY <1>1, <1>3, <1>4 DEF v, Chained

\* A line, and an empty line, on the wire.
LEMMA LineOnWire ==
    ASSUME NEW s, NEW w \in Seq(Symbols(s)), Chained(s, w), NEW i \in 1 .. Len(w),
           NEW line, NEW r, NEW n, w[i] = Text(line, r, n), line # "data"
    PROVE  /\ i + 1 <= Len(w) => w[i + 1] = Cr(line, r, n)
           /\ i + 2 <= Len(w) => w[i + 2] = Symbol("lf", line, r, n)
           /\ i + 3 <= Len(w) => w[i + 3] = AfterLine(s, line, r, n)
<1>1. \A j \in 1 .. Len(w) - 1 : w[j + 1] = Succ(s, w[j])
  BY DEF Chained
<1>2. Len(w) \in Nat /\ (i + 1) + 1 = i + 2 /\ (i + 2) + 1 = i + 3
  OBVIOUS
<1>3. i + 1 <= Len(w) => w[i + 1] = Cr(line, r, n)
  <2>1. i + 1 <= Len(w) => i \in 1 .. Len(w) - 1
    BY <1>2
  <2> QED
    BY <1>1, <2>1, Successors
<1>4. i + 2 <= Len(w) => w[i + 2] = Symbol("lf", line, r, n)
  <2>1. i + 2 <= Len(w) => i + 1 <= Len(w) /\ i + 1 \in 1 .. Len(w) - 1
    BY <1>2
  <2> QED
    BY <1>1, <1>2, <1>3, <2>1, Successors
<1>5. i + 3 <= Len(w) => w[i + 3] = AfterLine(s, line, r, n)
  <2>1. i + 3 <= Len(w) => i + 2 <= Len(w) /\ i + 2 \in 1 .. Len(w) - 1
    BY <1>2
  <2> QED
    BY <1>1, <1>2, <1>4, <2>1, Successors
<1> QED
  BY <1>3, <1>4, <1>5

LEMMA EmptyLineOnWire ==
    ASSUME NEW s, NEW w \in Seq(Symbols(s)), Chained(s, w), NEW i \in 1 .. Len(w),
           NEW line, NEW r, NEW n, w[i] = Cr(line, r, n)
    PROVE  /\ i + 1 <= Len(w) => w[i + 1] = Symbol("lf", line, r, n)
           /\ i + 2 <= Len(w) => w[i + 2] = AfterLine(s, line, r, n)
<1>1. \A j \in 1 .. Len(w) - 1 : w[j + 1] = Succ(s, w[j])
  BY DEF Chained
<1>2. Len(w) \in Nat /\ (i + 1) + 1 = i + 2
  OBVIOUS
<1>3. i + 1 <= Len(w) => w[i + 1] = Symbol("lf", line, r, n)
  <2>1. i + 1 <= Len(w) => i \in 1 .. Len(w) - 1
    BY <1>2
  <2> QED
    BY <1>1, <2>1, Successors
<1>4. i + 2 <= Len(w) => w[i + 2] = AfterLine(s, line, r, n)
  <2>1. i + 2 <= Len(w) => i + 1 <= Len(w) /\ i + 1 \in 1 .. Len(w) - 1
    BY <1>2
  <2> QED
    BY <1>1, <1>2, <1>3, <2>1, Successors
<1> QED
  BY <1>3, <1>4

\* Bytes k + 1 to k + m of the body of request r are within one chunk.
OneChunk(s, r, k, m) ==
    \A j \in 1 .. m - 1 : ~(s[r].framing = "chunked" /\ k + j \in s[r].cuts) /\ k + j < s[r].len

\* They are the first of a buffer, as far as it goes.
DataFirst(b, r, k, m) == \A j \in 1 .. m : j <= Len(b) => b[j] = Text("data", r, k + j)

\* Payload runs on to the end of its chunk, or of the body.
LEMMA DataRun ==
    ASSUME NEW s, NEW w \in Seq(Symbols(s)), Chained(s, w),
           NEW r, NEW k \in Nat, NEW m \in Nat,
           w # <<>> => w[1] = Text("data", r, k + 1), OneChunk(s, r, k, m)
    PROVE  DataFirst(w, r, k, m)
<1> DEFINE S == {j \in Nat : j + 1 <= m /\ j + 1 <= Len(w) => w[j + 1] = Text("data", r, k + (j + 1))}
<1>0. Len(w) \in Nat
  OBVIOUS
<1>1. 0 \in S
  <2>1. 0 + 1 <= Len(w) => w[1] = Text("data", r, k + 1)
    BY <1>0, EmptySeq
  <2> QED
    BY <2>1
<1>2. ASSUME NEW j \in Nat, j \in S PROVE j + 1 \in S
  <2> SUFFICES ASSUME (j + 1) + 1 <= m, (j + 1) + 1 <= Len(w)
               PROVE  w[(j + 1) + 1] = Text("data", r, k + ((j + 1) + 1))
    OBVIOUS
  <2>1. w[j + 1] = Text("data", r, k + (j + 1))
    BY <1>0, <1>2
  <2>2. j + 1 \in 1 .. m - 1 /\ j + 1 \in 1 .. Len(w) - 1
    BY <1>0
  <2>3. w[(j + 1) + 1] = Succ(s, Text("data", r, k + (j + 1)))
    BY <2>1, <2>2 DEF Chained
  <2>4. /\ ~(s[r].framing = "chunked" /\ k + (j + 1) \in s[r].cuts)
        /\ k + (j + 1) < s[r].len
    BY <2>2 DEF OneChunk
  <2>5. Succ(s, Text("data", r, k + (j + 1))) = Text("data", r, (k + (j + 1)) + 1)
    BY <2>4, Successors
  <2>6. (k + (j + 1)) + 1 = k + ((j + 1) + 1)
    OBVIOUS
  <2> QED
    BY <2>3, <2>5, <2>6
<1> HIDE DEF S
<1>3. \A j \in Nat : j \in S
  BY <1>1, <1>2, Induction
<1> SUFFICES ASSUME NEW j \in 1 .. m, j <= Len(w) PROVE w[j] = Text("data", r, k + j)
  BY DEF DataFirst
<1>4. j - 1 \in Nat /\ (j - 1) + 1 = j
  OBVIOUS
<1>5. j - 1 \in S
  BY <1>3, <1>4
<1> QED
  BY <1>4, <1>5 DEF S

\* A symbol is followed by one of the same request, or of the next.
LEMMA SuccOrder ==
    ASSUME NEW s, Len(s) \in Nat, NEW b \in Symbols(s), Succ(s, b) \in Symbols(s)
    PROVE  b.r <= Succ(s, b).r
<1> DEFINE line == b.line
           r == b.r
           n == b.n
<1>1. /\ r \in 1 .. Len(s) /\ n \in Nat /\ b.t \in {"text", "cr", "lf"}
      /\ line \in {"head", "junk", "blank", "size", "data", "trailer", "end"}
  BY DEF Symbols
<1>2. b = Symbol(b.t, line, r, n)
  BY DEF Symbols, Symbol
<1> HIDE DEF line, r, n
<1>3. r \in Nat /\ r + 1 \in Nat /\ r <= r + 1 /\ r <= r
  BY <1>1
<1>4. First(s, r + 1) \in Symbols(s) => First(s, r + 1).r = r + 1
  BY <1>3, Firsts
<1>5. CASE b.t = "cr"
  <2>1. Succ(s, b) = Symbol("lf", line, r, n)
    BY <1>2, <1>5, Successors DEF Cr
  <2> QED
    BY <2>1, <1>3, SymbolFields DEF r
<1>6. CASE b.t = "lf"
  <2>1. Succ(s, b) = AfterLine(s, line, r, n)
    BY <1>2, <1>6, Successors
  <2>2. Succ(s, b) = First(s, r + 1) \/ Succ(s, b).r = r
    BY <2>1, <1>1, Lines, SymbolFields DEF Text, Cr
  <2> QED
    BY <2>2, <1>3, <1>4 DEF r
<1>7. CASE b.t = "text" /\ line # "data"
  <2>1. Succ(s, b) = Cr(line, r, n)
    BY <1>2, <1>7, Successors DEF Text
  <2> QED
    BY <2>1, <1>3, SymbolFields DEF r, Cr
<1>8. CASE b.t = "text" /\ line = "data"
  <2>1. Succ(s, b) = Succ(s, Text("data", r, n))
    BY <1>2, <1>8 DEF Text
  <2>2. Succ(s, b) = First(s, r + 1) \/ Succ(s, b).r = r
    BY <2>1, Successors, SymbolFields DEF Text, Cr
  <2> QED
    BY <2>2, <1>3, <1>4 DEF r
<1> QED
  BY <1>1, <1>5, <1>6, <1>7, <1>8

\* A stream never goes back to an earlier request.
LEMMA StreamOrder ==
    ASSUME NEW s, Len(s) \in Nat, NEW w \in Seq(Symbols(s)), Chained(s, w)
    PROVE  \A j \in 1 .. Len(w) : w[1].r <= w[j].r
<1> DEFINE S == {j \in Nat : j + 1 <= Len(w) => w[1].r <= w[j + 1].r}
<1>0. Len(w) \in Nat /\ \A j \in 1 .. Len(w) : w[j] \in Symbols(s) /\ w[j].r \in Nat
  <2>1. Len(w) \in Nat /\ \A j \in 1 .. Len(w) : w[j] \in Symbols(s)
    OBVIOUS
  <2>2. \A b \in Symbols(s) : b.r \in Nat
    BY DEF Symbols
  <2> QED
    BY <2>1, <2>2
<1>1. 0 \in S
  <2>1. 0 + 1 <= Len(w) => w[1].r <= w[1].r
    BY <1>0
  <2> QED
    BY <2>1
<1>2. ASSUME NEW j \in Nat, j \in S PROVE j + 1 \in S
  <2> SUFFICES ASSUME (j + 1) + 1 <= Len(w) PROVE w[1].r <= w[(j + 1) + 1].r
    OBVIOUS
  <2>1. /\ j + 1 \in 1 .. Len(w) - 1 /\ j + 1 \in 1 .. Len(w) /\ 1 \in 1 .. Len(w)
        /\ (j + 1) + 1 \in 1 .. Len(w)
    BY <1>0
  <2>2. w[1].r <= w[j + 1].r
    BY <1>2, <2>1
  <2>3. w[(j + 1) + 1] = Succ(s, w[j + 1])
    BY <2>1 DEF Chained
  <2>4. w[j + 1].r <= w[(j + 1) + 1].r
    BY <2>1, <2>3, <1>0, SuccOrder
  <2>5. w[1].r \in Nat /\ w[j + 1].r \in Nat /\ w[(j + 1) + 1].r \in Nat
    BY <2>1, <1>0
  <2> QED
    BY <2>2, <2>4, <2>5
<1> HIDE DEF S
<1>3. \A j \in Nat : j \in S
  BY <1>1, <1>2, Induction
<1> SUFFICES ASSUME NEW j \in 1 .. Len(w) PROVE w[1].r <= w[j].r
  OBVIOUS
<1>4. j - 1 \in Nat /\ (j - 1) + 1 = j /\ j <= Len(w)
  BY <1>0
<1>5. j - 1 \in S
  BY <1>3, <1>4
<1> QED
  BY <1>4, <1>5 DEF S

\* After an empty line comes a body or a request, later than the line.
LEMMA AfterEmptyLine ==
    ASSUME NEW s, Len(s) \in Nat, NEW w \in Seq(Symbols(s)), Chained(s, w),
           NEW i \in 1 .. Len(w), i + 4 <= Len(w),
           w[i + 1].t = "lf", w[i + 2].t = "cr", w[i + 3].t = "lf"
    PROVE  /\ w[i + 4].t = "text"
           /\ w[i + 4].line = "head" => w[i + 4] = First(s, w[i + 4].r) /\ w[i + 4].r > w[1].r
<1>0. /\ Len(w) \in Nat /\ \A j \in 1 .. Len(w) : w[j] \in Symbols(s)
      /\ \A j \in 1 .. Len(w) - 1 : w[j + 1] = Succ(s, w[j])
  BY DEF Chained
<1>1. /\ i + 1 \in 1 .. Len(w) /\ i + 2 \in 1 .. Len(w) /\ i + 4 \in 1 .. Len(w)
      /\ i + 1 \in 1 .. Len(w) - 1 /\ (i + 1) + 1 = i + 2 /\ (i + 2) + 2 = i + 4
  BY <1>0
<1> DEFINE line == w[i + 1].line
           r == w[i + 1].r
           n == w[i + 1].n
<1>2. /\ w[i + 1] = Symbol("lf", line, r, n) /\ r \in 1 .. Len(s)
      /\ line \in {"head", "junk", "blank", "size", "data", "trailer", "end"}
  <2>1. w[i + 1] \in Symbols(s)
    BY <1>0, <1>1
  <2> QED
    BY <2>1 DEF Symbols, Symbol
<1>3. w[1].r <= r /\ w[1].r \in Nat
  <2>1. w[1] \in Symbols(s)
    BY <1>0
  <2>2. w[1].r \in Nat
    BY <2>1 DEF Symbols
  <2>3. w[1].r <= w[i + 1].r
    BY <1>1, StreamOrder
  <2> QED
    BY <2>2, <2>3
<1> HIDE DEF line, r, n
<1>4. w[i + 2] = AfterLine(s, line, r, n) /\ w[i + 2] \in Symbols(s)
  BY <1>0, <1>1, <1>2, Successors
<1>5. r \in Nat /\ r + 1 \in Nat
  BY <1>2
<1>6. w[i + 2] = Cr("blank", r, n) \/ w[i + 2] = Cr("end", r, n)
  <2>1. w[i + 2] # First(s, r + 1)
    <3> SUFFICES ASSUME w[i + 2] = First(s, r + 1) PROVE FALSE
      OBVIOUS
    <3>1. First(s, r + 1).t = "text"
      BY <1>4, <1>5, Firsts
    <3> QED
      BY <3>1
  <2>2. \A l : w[i + 2] # Text(l, r, n) /\ w[i + 2] # Text(l, r, n + 1)
               /\ w[i + 2] # Text(l, r, 0) /\ w[i + 2] # Text(l, r, 1)
    BY SymbolFields DEF Text
  <2> QED
    BY <2>1, <2>2, <1>2, <1>4, Lines
<1>7. w[i + 4] = AfterLine(s, "blank", r, n) \/ w[i + 4] = AfterLine(s, "end", r, n)
  BY <1>1, <1>6, EmptyLineOnWire
<1>8. w[i + 4] \in Symbols(s)
  BY <1>0, <1>1
<1>9. CASE w[i + 4] = First(s, r + 1)
  <2>1. w[i + 4].t = "text" /\ w[i + 4].r = r + 1
    BY <1>5, <1>8, <1>9, Firsts
  <2> QED
    BY <2>1, <1>3, <1>5, <1>9
<1>10. CASE w[i + 4] # First(s, r + 1)
  <2>1. w[i + 4] = Text("size", r, 0) \/ w[i + 4] = Text("data", r, 1)
    BY <1>7, <1>10, Lines
  <2> QED
    BY <2>1, SymbolFields DEF Text
<1> QED
  BY <1>9, <1>10

-----------------------------------------------------------------------------
(* What the parser finds in a buffer *)

LEMMA PositionFirst ==
    ASSUME NEW pattern, NEW buf, Len(buf) \in Nat
    PROVE  /\ Position(pattern, buf) # 0 =>
                 /\ Position(pattern, buf) \in 1 .. Len(buf)
                 /\ IsAt(pattern, buf, Position(pattern, buf))
                 /\ \A i \in 1 .. Len(buf) : IsAt(pattern, buf, i) => Position(pattern, buf) <= i
           /\ Position(pattern, buf) = 0 => \A i \in 1 .. Len(buf) : ~IsAt(pattern, buf, i)
<1> DEFINE at == {i \in 1 .. Len(buf) : IsAt(pattern, buf, i)}
           p == CHOOSE i \in at : \A j \in at : i <= j
<1>1. Position(pattern, buf) = IF at = {} THEN 0 ELSE p
  BY DEF Position
<1>2. ASSUME at # {} PROVE p \in at /\ \A j \in at : p <= j
  <2>1. at \subseteq Nat
    OBVIOUS
  <2>2. \E i \in at : \A j \in at : i <= j
    <3> HIDE DEF at
    <3> QED
      BY <1>2, <2>1, Least
  <2> HIDE DEF at
  <2> QED
    BY <2>2
<1>3. \A i \in at : i \in 1 .. Len(buf) /\ i # 0 /\ IsAt(pattern, buf, i)
  OBVIOUS
<1>4. \A i \in 1 .. Len(buf) : IsAt(pattern, buf, i) => i \in at
  OBVIOUS
<1> HIDE DEF at, p
<1> QED
  BY <1>1, <1>2, <1>3, <1>4

LEMMA Patterns ==
    ASSUME NEW buf, Len(buf) \in Nat, NEW i \in Nat
    PROVE  /\ IsAt(<<"text">>, buf, i) <=> i <= Len(buf) /\ buf[i].t = "text"
           /\ IsAt(CRLF, buf, i) <=> i + 1 <= Len(buf) /\ buf[i].t = "cr" /\ buf[i + 1].t = "lf"
           /\ IsAt(CRLF \o CRLF, buf, i) =>
                 /\ i + 3 <= Len(buf) /\ buf[i].t = "cr" /\ buf[i + 1].t = "lf"
                 /\ buf[i + 2].t = "cr" /\ buf[i + 3].t = "lf"
           /\ /\ i + 3 <= Len(buf) /\ buf[i].t = "cr" /\ buf[i + 1].t = "lf"
              /\ buf[i + 2].t = "cr" /\ buf[i + 3].t = "lf"
              => IsAt(CRLF \o CRLF, buf, i)
<1>0. i + 1 - 1 = i /\ i + 2 - 1 = i + 1 /\ i + 3 - 1 = i + 2 /\ i + 4 - 1 = i + 3
  OBVIOUS
<1>1. IsAt(<<"text">>, buf, i) <=> i <= Len(buf) /\ buf[i].t = "text"
  BY <1>0 DEF IsAt
<1>2. IsAt(CRLF, buf, i) <=> i + 1 <= Len(buf) /\ buf[i].t = "cr" /\ buf[i + 1].t = "lf"
  <2>1. Len(CRLF) = 2 /\ CRLF[1] = "cr" /\ CRLF[2] = "lf" /\ 1 .. 2 = {1, 2}
    BY DEF CRLF
  <2> QED
    BY <1>0, <2>1 DEF IsAt
<1>3. /\ Len(CRLF \o CRLF) = 4 /\ 1 .. 4 = {1, 2, 3, 4}
      /\ (CRLF \o CRLF)[1] = "cr" /\ (CRLF \o CRLF)[2] = "lf"
      /\ (CRLF \o CRLF)[3] = "cr" /\ (CRLF \o CRLF)[4] = "lf"
  <2>1. CRLF \in Seq({"cr", "lf"}) /\ Len(CRLF) = 2 /\ CRLF[1] = "cr" /\ CRLF[2] = "lf"
    BY DEF CRLF
  <2>2. /\ Len(CRLF \o CRLF) = Len(CRLF) + Len(CRLF)
        /\ \A j \in 1 .. Len(CRLF) + Len(CRLF) :
              (CRLF \o CRLF)[j] = IF j <= Len(CRLF) THEN CRLF[j] ELSE CRLF[j - Len(CRLF)]
    <3>1. CRLF \in Seq({"cr", "lf"})
      BY <2>1
    <3> QED
      BY <3>1, ConcatProperties, Zenon
  <2> QED
    BY <2>1, <2>2
<1>4. IsAt(CRLF \o CRLF, buf, i) <=>
         /\ i + 4 - 1 <= Len(buf)
         /\ \A j \in {1, 2, 3, 4} : buf[i + j - 1].t = (CRLF \o CRLF)[j]
  <2> DEFINE pattern == CRLF \o CRLF
  <2>1. Len(pattern) = 4 /\ 1 .. 4 = {1, 2, 3, 4}
    BY <1>3
  <2> HIDE DEF pattern
  <2>2. IsAt(pattern, buf, i) <=>
         /\ i + 4 - 1 <= Len(buf)
         /\ \A j \in {1, 2, 3, 4} : buf[i + j - 1].t = pattern[j]
    BY <2>1 DEF IsAt
  <2> QED
    BY <2>2 DEF pattern
<1> DEFINE q == CRLF \o CRLF
<1>5. q[1] = "cr" /\ q[2] = "lf" /\ q[3] = "cr" /\ q[4] = "lf"
  BY <1>3
<1>6. IsAt(q, buf, i) <=>
         /\ i + 4 - 1 <= Len(buf)
         /\ buf[i + 1 - 1].t = q[1] /\ buf[i + 2 - 1].t = q[2]
         /\ buf[i + 3 - 1].t = q[3] /\ buf[i + 4 - 1].t = q[4]
  BY <1>4
<1> HIDE DEF q
<1>7. IsAt(q, buf, i) <=>
         /\ i + 3 <= Len(buf) /\ buf[i].t = "cr" /\ buf[i + 1].t = "lf"
         /\ buf[i + 2].t = "cr" /\ buf[i + 3].t = "lf"
  BY <1>0, <1>5, <1>6
<1> QED
  BY <1>1, <1>2, <1>7 DEF q

\* A size that is a number is the distance to the next end of a chunk, zero
\* after the last.
LEMMA SizeIsDistance ==
    ASSUME NEW r \in 1 .. Len(script), IsRequest(script[r]), NEW k \in Nat, k <= script[r].len
    PROVE  LET n == Size(Text("size", r, k)) IN
           /\ k = script[r].len => n = 0
           /\ k < script[r].len => /\ n \in Nat \ {0} /\ k + n \in script[r].cuts
                                   /\ \A e \in script[r].cuts : e > k => e >= k + n
<1> DEFINE q == script[r]
           ends == {e \in q.cuts : e > k}
           m == CHOOSE e \in ends : \A f \in ends : e <= f
<1>1. q.len \in Nat /\ q.cuts \subseteq 1 .. q.len /\ q.len \in q.cuts \cup {0}
  BY DEF IsRequest
<1>2. Size(Text("size", r, k)) = IF ends = {} THEN 0 ELSE m - k
  <2> DEFINE b == Text("size", r, k)
             those == {e \in script[b.r].cuts : e > b.n}
  <2>1. b.r = r /\ b.n = k
    BY SymbolFields DEF Text
  <2> HIDE DEF b
  <2>2. Size(b) = IF those = {} THEN 0 ELSE (CHOOSE e \in those : \A f \in those : e <= f) - b.n
    BY DEF Size
  <2>3. those = ends
    BY <2>1
  <2> HIDE DEF those, ends
  <2> QED
    BY <2>1, <2>2, <2>3 DEF b
<1> HIDE DEF q
<1>3. \A e \in ends : e \in q.cuts /\ e \in 1 .. q.len /\ e > k
  BY <1>1
<1>4. \A e \in q.cuts : e > k => e \in ends
  OBVIOUS
<1>5. ASSUME ends # {} PROVE m \in ends /\ \A f \in ends : m <= f
  <2>1. ends \subseteq Nat
    BY <1>3
  <2> HIDE DEF ends
  <2>2. \E e \in ends : \A f \in ends : e <= f
    BY <1>5, <2>1, Least
  <2> QED
    BY <2>2
<1> HIDE DEF ends, m
<1>6. k = q.len => ends = {}
  BY <1>1, <1>3
<1>7. CASE k < q.len
  <2>1. q.len \in ends
    BY <1>1, <1>4, <1>7
  <2>2. m \in ends /\ \A f \in ends : m <= f
    BY <1>5, <2>1
  <2>3. m \in q.cuts /\ m \in Nat /\ m > k /\ m - k \in Nat \ {0} /\ k + (m - k) = m
    BY <2>2, <1>3
  <2>4. \A e \in q.cuts : e > k => e >= m
    BY <2>2, <2>3, <1>1, <1>4
  <2>5. Size(Text("size", r, k)) = m - k
    BY <1>2, <2>1
  <2> QED
    BY <1>7, <2>3, <2>4, <2>5, <1>1 DEF q
<1> QED
  BY <1>1, <1>2, <1>6, <1>7 DEF q

-----------------------------------------------------------------------------
(* The invariant of a connection *)

\* What the server has not looked at yet, and the request it handled last
Unread == buffer \o todo
LastOf(h) == IF h = <<>> THEN 0 ELSE h[Len(h)].of

Framed == {"length", "size", "data", "last"}
Serving == {"limit", "route", "file_server", "reverse_proxy"}

\* Data 1 to k of request r
Prefix(r, k) == [j \in 1 .. k |-> Text("data", r, j)]

\* The next symbol is where a request begins, the next one of the script
\* unless the end of a body was cut.
AtRequest(s, w, h, c) ==
    w # <<>> => /\ w[1].t = "text"
                /\ w[1].line = "head" => w[1] = First(s, w[1].r) /\ w[1].r > LastOf(h)
                /\ ~c => w[1] = First(s, Len(h) + 1)

\* Where the reader of a body is in it
AtLength(s, w, r) ==
    /\ s[r].framing \in {"none", "length"}
    /\ w # <<>> => w[1] = AfterLine(s, "blank", r, 0)

AtSize(s, w, r, b) ==
    /\ s[r].framing = "chunked"
    /\ Len(b) <= s[r].len /\ b = Prefix(r, Len(b))
    /\ w # <<>> => w[1] = Text("size", r, Len(b))

AtData(s, w, r, b, m) ==
    /\ s[r].framing = "chunked"
    /\ Len(b) < s[r].len /\ b = Prefix(r, Len(b))
    /\ m \in Nat \ {0} /\ Len(b) + m \in s[r].cuts
    /\ \A e \in s[r].cuts : e > Len(b) => e >= Len(b) + m
    /\ w # <<>> => w[1] = Text("data", r, Len(b) + 1)

AtLast(s, w, r, b, c) ==
    /\ b = Prefix(r, s[r].len)
    /\ ~c => s[r].trailer
    /\ w # <<>> => w[1] = AfterLine(s, "size", r, s[r].len)

\* What was read and what was not are one stream of the script.
IsStream(s, b, t) == b \in Seq(Symbols(s)) /\ t \in Seq(Symbols(s)) /\ Chained(s, b \o t)

\* The requests handled have their bodies, and come in their order.
InOrder(s, h, c) ==
    /\ h \in Seq([of : 1 .. Len(s), body : Seq(Symbols(s))])
    /\ \A i \in 1 .. Len(h) :
          /\ h[i].body = Prefix(h[i].of, s[h[i].of].len)
          /\ i > 1 => h[i - 1].of < h[i].of /\ s[h[i - 1].of].keep
          /\ ~c => h[i].of = i

StreamInv ==
    /\ script \in Scripts
    /\ IsStream(script, buffer, todo)
    /\ body \in Seq(Symbols(script))
    /\ cut \in BOOLEAN

HandledInv == InOrder(script, handled, cut)

PlaceInv ==
    /\ pc \in {"parse", "read", "copy", "write", "refuse", "closed"} \cup Framed \cup Serving
    /\ pc \in Framed =>
          /\ req \in 1 .. Len(script) /\ req > LastOf(handled)
          /\ ~cut => req = Len(handled) + 1
    /\ pc \in Serving \cup {"copy", "write"} => handled # <<>> /\ req = LastOf(handled)
    /\ pc \in Framed \cup {"parse", "read"} /\ handled # <<>> => script[LastOf(handled)].keep
    /\ pc \notin Framed \cup {"refuse", "closed"} => AtRequest(script, Unread, handled, cut)
    /\ pc = "length" => AtLength(script, Unread, req)
    /\ pc = "size" => AtSize(script, Unread, req, body)
    /\ pc = "data" => AtData(script, Unread, req, body, size)
    /\ pc = "last" => AtLast(script, Unread, req, body, cut)

AnswerInv ==
    /\ answered \in Nat
    /\ \/ answered = Len(handled) /\ pc \notin Serving
       \/ answered + 1 = Len(handled) /\ pc \in Serving \cup {"closed"}
    /\ answer.of # 0 => answered # 0 /\ answer.of = handled[answered].of
    /\ answer.status = 400 =>
          pc \in {"refuse", "closed"} /\ (~cut => script[Len(handled) + 1].framing = "junk")

HttpInv == StreamInv /\ HandledInv /\ PlaceInv /\ AnswerInv

-----------------------------------------------------------------------------
(* What is read of a body *)

LEMMA Buffered ==
    ASSUME NEW S, NEW b \in Seq(S), NEW t \in Seq(S)
    PROVE  /\ b \o t \in Seq(S) /\ Len(b \o t) = Len(b) + Len(t)
           /\ Len(b) \in Nat /\ Len(t) \in Nat /\ Len(b) <= Len(b \o t)
           /\ \A j \in 1 .. Len(b) : (b \o t)[j] = b[j]
<1>1. /\ b \o t \in Seq(S) /\ Len(b \o t) = Len(b) + Len(t)
      /\ \A j \in 1 .. Len(b) + Len(t) : (b \o t)[j] = IF j <= Len(b) THEN b[j] ELSE t[j - Len(b)]
  BY ConcatProperties
<1>2. Len(b) \in Nat /\ Len(t) \in Nat
  OBVIOUS
<1>3. \A j \in 1 .. Len(b) : j \in 1 .. Len(b) + Len(t) /\ j <= Len(b)
  BY <1>2
<1> QED
  BY <1>1, <1>2, <1>3

LEMMA BufferedData ==
    ASSUME NEW r, NEW k, NEW m \in Nat, NEW b, NEW w, Len(b) \in Nat, Len(w) \in Nat,
           Len(b) <= Len(w), \A j \in 1 .. Len(b) : w[j] = b[j], DataFirst(w, r, k, m)
    PROVE  DataFirst(b, r, k, m)
<1> SUFFICES ASSUME NEW j \in 1 .. m, j <= Len(b) PROVE b[j] = Text("data", r, k + j)
  BY DEF DataFirst
<1>1. j <= Len(w) /\ j \in 1 .. Len(b)
  OBVIOUS
<1> QED
  BY <1>1 DEF DataFirst

\* Payload in a buffer is added to the body.
LEMMA PrefixGrows ==
    ASSUME NEW s, NEW r \in 1 .. Len(s), NEW b \in Seq(Symbols(s)), NEW k \in Nat, NEW m \in Nat,
           m <= Len(b), DataFirst(b, r, k, m)
    PROVE  /\ Prefix(r, k) \in Seq(Symbols(s)) /\ Len(Prefix(r, k)) = k
           /\ Prefix(r, k) \o SubSeq(b, 1, m) = Prefix(r, k + m)
<1> DEFINE a == Prefix(r, k)
           c == SubSeq(b, 1, m)
           d == Prefix(r, k + m)
<1>0. \A i \in Nat \ {0} : Text("data", r, i) \in Symbols(s)
  BY DEF Text, Symbol, Symbols
<1>1. /\ a \in Seq(Symbols(s)) /\ Len(a) = k
      /\ \A j \in 1 .. k : a[j] = Text("data", r, j)
  BY <1>0 DEF Prefix
<1>2. /\ d \in Seq(Symbols(s)) /\ Len(d) = k + m
      /\ \A j \in 1 .. k + m : d[j] = Text("data", r, j)
  BY <1>0 DEF Prefix
<1>3. c \in Seq(Symbols(s)) /\ Len(c) = m /\ \A j \in 1 .. m : c[j] = Text("data", r, k + j)
  <2>1. Len(b) \in Nat /\ \A j \in 1 .. m : b[j] \in Symbols(s)
    OBVIOUS
  <2>2. c \in Seq(Symbols(s))
    BY <2>1, SubSeqProperties
  <2>3. Len(c) = m /\ \A j \in 1 .. m : c[j] = b[j] /\ j <= Len(b)
    BY <2>1
  <2> QED
    BY <2>2, <2>3 DEF DataFirst
<1> HIDE DEF a, c, d
<1>4. /\ a \o c \in Seq(Symbols(s)) /\ Len(a \o c) = k + m
      /\ \A j \in 1 .. k + m : (a \o c)[j] = IF j <= k THEN a[j] ELSE c[j - k]
  BY <1>1, <1>3, ConcatProperties
<1>5. \A j \in 1 .. k + m : (a \o c)[j] = d[j]
  <2> SUFFICES ASSUME NEW j \in 1 .. k + m PROVE (a \o c)[j] = d[j]
    OBVIOUS
  <2>1. CASE j <= k
    <3>1. j \in 1 .. k
      BY <2>1
    <3> QED
      BY <2>1, <3>1, <1>1, <1>2, <1>4
  <2>2. CASE ~(j <= k)
    <3>1. j - k \in 1 .. m /\ k + (j - k) = j
      BY <2>2
    <3> QED
      BY <2>2, <3>1, <1>2, <1>3, <1>4
  <2> QED
    BY <2>1, <2>2
<1>6. a \o c = d
  BY <1>2, <1>4, <1>5, SeqEqual
<1> QED
  BY <1>1, <1>6 DEF a, c, d

\* After a head comes the body it announces.
LEMMA HeadRead ==
    ASSUME NEW s, NEW w \in Seq(Symbols(s)), Chained(s, w), Len(w) >= 5,
           NEW r, w[1] = Text("head", r, 0)
    PROVE  From(w, 6) # <<>> => From(w, 6)[1] = AfterLine(s, "blank", r, 0)
<1>0. Len(w) \in Nat /\ 1 \in 1 .. Len(w) /\ 4 \in 1 .. Len(w) /\ 6 \in 1 .. Len(w) + 1
  OBVIOUS
<1>1. w[4] = Cr("blank", r, 0)
  <2>1. 1 + 3 <= Len(w) => w[1 + 3] = AfterLine(s, "head", r, 0)
    BY <1>0, LineOnWire
  <2> QED
    BY <2>1, <1>0, Lines
<1>2. 4 + 2 <= Len(w) => w[4 + 2] = AfterLine(s, "blank", r, 0)
  BY <1>0, <1>1, EmptyLineOnWire
<1>3. From(w, 6) # <<>> => 6 <= Len(w) /\ From(w, 6)[1] = w[6]
  BY <1>0, FromChained
<1> QED
  BY <1>2, <1>3

\* A body of a known length is read to the byte.
LEMMA LengthRead ==
    ASSUME NEW s, NEW r \in 1 .. Len(s), IsRequest(s[r]),
           NEW b \in Seq(Symbols(s)), NEW t \in Seq(Symbols(s)), Chained(s, b \o t),
           AtLength(s, b \o t, r), s[r].len <= Len(b)
    PROVE  /\ SubSeq(b, 1, s[r].len) = Prefix(r, s[r].len)
           /\ From(b \o t, s[r].len + 1) # <<>> => From(b \o t, s[r].len + 1)[1] = First(s, r + 1)
<1> DEFINE w == b \o t
           len == s[r].len
<1>0. /\ w \in Seq(Symbols(s)) /\ Chained(s, w) /\ Len(w) = Len(b) + Len(t)
      /\ Len(b) \in Nat /\ Len(t) \in Nat /\ \A j \in 1 .. Len(b) : w[j] = b[j]
  BY Buffered
<1>1. len \in Nat /\ s[r].framing # "chunked"
  BY DEF IsRequest, AtLength
<1>2. w # <<>> => w[1] = IF len > 0 THEN Text("data", r, 1) ELSE First(s, r + 1)
  <2>1. w # <<>> => w[1] = AfterLine(s, "blank", r, 0)
    BY DEF AtLength
  <2> HIDE DEF w
  <2> QED
    BY <2>1, <1>1, Lines
<1>3. len <= Len(b)
  OBVIOUS
<1> DEFINE k == 0
<1>k. k \in Nat /\ k = 0 /\ \A j \in Nat : k + j = j
  OBVIOUS
<1> HIDE DEF w, len, k
<1>4. DataFirst(w, r, k, len)
  <2>1. CASE len = 0
    BY <2>1 DEF DataFirst
  <2>2. CASE len # 0
    <3>1. w # <<>> => w[1] = Text("data", r, k + 1)
      BY <1>1, <1>2, <2>2, <1>k
    <3>2. OneChunk(s, r, k, len)
      BY <1>1, <1>k DEF len, OneChunk
    <3> QED
      BY <3>1, <3>2, <1>0, <1>1, <1>k, DataRun
  <2> QED
    BY <2>1, <2>2
<1>5. DataFirst(b, r, k, len)
  BY <1>0, <1>1, <1>4, BufferedData
<1>6. SubSeq(b, 1, len) = Prefix(r, len)
  <2>1. Prefix(r, k) \o SubSeq(b, 1, len) = Prefix(r, k + len)
    BY <1>1, <1>3, <1>5, <1>k, PrefixGrows
  <2>2. Prefix(r, k) \in Seq(Symbols(s)) /\ Len(Prefix(r, k)) = k
    BY <1>1, <1>3, <1>5, <1>k, PrefixGrows
  <2>3. Prefix(r, k) = <<>>
    BY <1>k, <2>2, EmptySeq
  <2>4. SubSeq(b, 1, len) \in Seq(Symbols(s))
    <3>1. \A j \in 1 .. len : b[j] \in Symbols(s)
      BY <1>0, <1>1, <1>3
    <3> QED
      BY <3>1, <1>0, <1>1, <1>3, SubSeqProperties
  <2>5. <<>> \o SubSeq(b, 1, len) = SubSeq(b, 1, len)
    BY <2>4, ConcatEmptySeq
  <2> QED
    BY <1>1, <1>k, <2>1, <2>3, <2>5
<1>7. From(w, len + 1) # <<>> => From(w, len + 1)[1] = First(s, r + 1)
  <2> SUFFICES ASSUME From(w, len + 1) # <<>> PROVE From(w, len + 1)[1] = First(s, r + 1)
    OBVIOUS
  <2>1. len + 1 \in 1 .. Len(w) + 1
    BY <1>0, <1>1, <1>3
  <2>2. len + 1 <= Len(w) /\ From(w, len + 1)[1] = w[len + 1]
    BY <2>1, <1>0, FromChained
  <2>3. CASE len = 0
    <3>1. w # <<>>
      BY <2>2, <1>0, <2>3, EmptySeq
    <3> QED
      BY <1>2, <2>2, <2>3, <3>1
  <2>4. CASE len # 0
    <3>1. len \in 1 .. len /\ len <= Len(w) /\ len \in 1 .. Len(w) - 1
      BY <1>0, <1>1, <2>2, <2>4
    <3>2. w[len] = Text("data", r, k + len)
      BY <1>4, <3>1 DEF DataFirst
    <3>3. w[len + 1] = Succ(s, Text("data", r, len))
      BY <3>1, <3>2, <1>0, <1>1, <1>k DEF Chained
    <3> QED
      BY <3>3, <2>2, <1>1, Successors DEF len
  <2> QED
    BY <2>3, <2>4
<1> QED
  BY <1>6, <1>7 DEF w, len

\* A size line in the buffer is looked for and found.
LEMMA SizeRead ==
    ASSUME NEW s, NEW r, NEW b \in Seq(Symbols(s)), NEW t \in Seq(Symbols(s)), Chained(s, b \o t),
           NEW a, AtSize(s, b \o t, r, a), Position(CRLF, b) # 0
    PROVE  /\ Position(CRLF, b) = 2 /\ Len(b) >= 3 /\ b[1] = Text("size", r, Len(a))
           /\ From(b \o t, 4) # <<>> => From(b \o t, 4)[1] = AfterLine(s, "size", r, Len(a))
<1> DEFINE w == b \o t
           p == Position(CRLF, b)
<1>0. /\ w \in Seq(Symbols(s)) /\ Chained(s, w) /\ Len(w) = Len(b) + Len(t)
      /\ Len(b) \in Nat /\ Len(t) \in Nat /\ \A j \in 1 .. Len(b) : w[j] = b[j]
  BY Buffered
<1>1. w # <<>> => w[1] = Text("size", r, Len(a))
  BY DEF AtSize
<1>2. p \in 1 .. Len(b) /\ IsAt(CRLF, b, p) /\ \A i \in 1 .. Len(b) : IsAt(CRLF, b, i) => p <= i
  BY <1>0, PositionFirst
<1> HIDE DEF w, p
<1>3. p \in Nat /\ p + 1 <= Len(b) /\ b[p].t = "cr"
  BY <1>0, <1>2, Patterns
<1>4. w # <<>> /\ 1 \in 1 .. Len(w) /\ 1 \in 1 .. Len(b) /\ Len(b) <= Len(w)
  BY <1>0, <1>3, EmptySeq
<1>5. b[1] = Text("size", r, Len(a)) /\ w[1] = Text("size", r, Len(a))
  BY <1>0, <1>1, <1>4
<1>6. p # 1
  BY <1>3, <1>5, SymbolFields DEF Text
<1>7. Len(b) >= 3
  BY <1>0, <1>2, <1>3, <1>6
<1>8. /\ w[2] = Cr("size", r, Len(a)) /\ w[3] = Symbol("lf", "size", r, Len(a))
      /\ 4 <= Len(w) => w[4] = AfterLine(s, "size", r, Len(a))
  <2>1. /\ 1 + 1 <= Len(w) => w[1 + 1] = Cr("size", r, Len(a))
        /\ 1 + 2 <= Len(w) => w[1 + 2] = Symbol("lf", "size", r, Len(a))
        /\ 1 + 3 <= Len(w) => w[1 + 3] = AfterLine(s, "size", r, Len(a))
    <3>1. w \in Seq(Symbols(s)) /\ Chained(s, w) /\ 1 \in 1 .. Len(w)
      BY <1>0, <1>4
    <3> QED
      BY <3>1, <1>5, LineOnWire
  <2> QED
    BY <2>1, <1>0, <1>4, <1>7
<1>9. IsAt(CRLF, b, 2)
  <2>1. b[2].t = "cr" /\ b[3].t = "lf"
    BY <1>0, <1>7, <1>8, SymbolFields DEF Cr
  <2> QED
    BY <2>1, <1>0, <1>7, Patterns
<1>10. p = 2
  BY <1>0, <1>2, <1>6, <1>7, <1>9
<1>11. From(w, 4) # <<>> => From(w, 4)[1] = AfterLine(s, "size", r, Len(a))
  <2>1. 4 \in 1 .. Len(w) + 1
    BY <1>0, <1>4, <1>7
  <2>2. From(w, 4) # <<>> => 4 <= Len(w) /\ From(w, 4)[1] = w[4]
    BY <2>1, <1>0, FromChained
  <2> QED
    BY <1>8, <2>2
<1> QED
  BY <1>5, <1>7, <1>10, <1>11 DEF w, p

\* After the empty line that ends a chunked body comes the next request.
LEMMA EndRead ==
    ASSUME NEW s, NEW w \in Seq(Symbols(s)), Chained(s, w), NEW r, NEW n,
           w[1] = Cr("end", r, n), Len(w) >= 2
    PROVE  From(w, 3) # <<>> => From(w, 3)[1] = First(s, r + 1)
<1>1. Len(w) \in Nat /\ 1 \in 1 .. Len(w) /\ 3 \in 1 .. Len(w) + 1
  OBVIOUS
<1>2. 1 + 2 <= Len(w) => w[1 + 2] = AfterLine(s, "end", r, n)
  BY <1>1, EmptyLineOnWire
<1>3. From(w, 3) # <<>> => 3 <= Len(w) /\ From(w, 3)[1] = w[3]
  BY <1>1, FromChained
<1> QED
  BY <1>2, <1>3, Lines

\* A chunk is added to the body, and a size line follows it.
LEMMA DataRead ==
    ASSUME NEW s, NEW r \in 1 .. Len(s), IsRequest(s[r]),
           NEW b \in Seq(Symbols(s)), NEW t \in Seq(Symbols(s)), Chained(s, b \o t),
           NEW a \in Seq(Symbols(s)), NEW m \in Nat, AtData(s, b \o t, r, a, m), Len(b) >= m + 2
    PROVE  /\ Len(a) + m \in Nat /\ Len(a) + m <= s[r].len
           /\ a \o SubSeq(b, 1, m) = Prefix(r, Len(a) + m)
           /\ From(b \o t, m + 3) # <<>> => From(b \o t, m + 3)[1] = Text("size", r, Len(a) + m)
<1> DEFINE w == b \o t
           k == Len(a)
           q == s[r]
<1>0. /\ w \in Seq(Symbols(s)) /\ Chained(s, w) /\ Len(w) = Len(b) + Len(t) /\ Len(b) <= Len(w)
      /\ Len(b) \in Nat /\ Len(t) \in Nat /\ \A j \in 1 .. Len(b) : w[j] = b[j]
  BY Buffered
<1>1. /\ q.len \in Nat /\ q.cuts \subseteq 1 .. q.len
  BY DEF IsRequest
<1>2. k \in Nat
  OBVIOUS
<1>3. /\ q.framing = "chunked" /\ k < q.len /\ a = Prefix(r, k) /\ m # 0 /\ k + m \in q.cuts
      /\ \A e \in q.cuts : e > k => e >= k + m
      /\ w # <<>> => w[1] = Text("data", r, k + 1)
  BY DEF AtData
<1>4. Len(b) >= m + 2
  OBVIOUS
<1> HIDE DEF w, k
<1>5. k + m \in 1 .. q.len
  BY <1>1, <1>3
<1>6. OneChunk(s, r, k, m)
  <2> SUFFICES ASSUME NEW j \in 1 .. m - 1 PROVE ~(k + j \in q.cuts) /\ k + j < q.len
    BY DEF OneChunk
  <2>1. k + j > k /\ ~(k + j >= k + m) /\ k + j < q.len
    BY <1>1, <1>2, <1>5
  <2> QED
    BY <2>1, <1>3
<1>7. DataFirst(w, r, k, m)
  BY <1>0, <1>2, <1>3, <1>6, DataRun
<1>8. DataFirst(b, r, k, m)
  BY <1>0, <1>7, BufferedData
<1>9. a \o SubSeq(b, 1, m) = Prefix(r, k + m)
  <2>1. m <= Len(b)
    BY <1>0, <1>4
  <2>2. Prefix(r, k) \o SubSeq(b, 1, m) = Prefix(r, k + m)
    BY <2>1, <1>2, <1>8, PrefixGrows
  <2> QED
    BY <1>3, <2>2
<1>10. From(w, m + 3) # <<>> => From(w, m + 3)[1] = Text("size", r, k + m)
  <2> SUFFICES ASSUME From(w, m + 3) # <<>> PROVE From(w, m + 3)[1] = Text("size", r, k + m)
    OBVIOUS
  <2>1. m + 3 \in 1 .. Len(w) + 1
    BY <1>0, <1>4
  <2>2. m + 3 <= Len(w) /\ From(w, m + 3)[1] = w[m + 3]
    BY <2>1, <1>0, FromChained
  <2>3. /\ m \in 1 .. m /\ m <= Len(w) /\ m \in 1 .. Len(w) - 1 /\ m + 1 \in 1 .. Len(w)
        /\ (m + 1) + 2 = m + 3
    BY <1>0, <1>3, <2>2
  <2>4. w[m] = Text("data", r, k + m)
    BY <1>7, <2>3 DEF DataFirst
  <2>5. w[m + 1] = Succ(s, Text("data", r, k + m))
    BY <2>3, <2>4, <1>0 DEF Chained
  <2>6. w[m + 1] = Cr("data", r, k + m)
    BY <2>5, <1>3, Successors
  <2>7. w[m + 3] = AfterLine(s, "data", r, k + m)
    <3>1. w \in Seq(Symbols(s)) /\ Chained(s, w) /\ m + 1 \in 1 .. Len(w)
      BY <1>0, <2>3
    <3>2. (m + 1) + 2 <= Len(w) => w[(m + 1) + 2] = AfterLine(s, "data", r, k + m)
      BY <3>1, <2>6, EmptyLineOnWire
    <3> QED
      BY <3>2, <2>2, <2>3
  <2> QED
    BY <2>2, <2>7, Lines
<1> QED
  BY <1>2, <1>5, <1>1, <1>9, <1>10 DEF w, k

\* The end of a chunked body is skipped, and at most what follows it: what
\* comes next is the next request if nothing was cut.
LEMMA LastRead ==
    ASSUME NEW s, Len(s) \in Nat, NEW r \in 1 .. Len(s), IsRequest(s[r]),
           NEW b \in Seq(Symbols(s)), NEW t \in Seq(Symbols(s)), Chained(s, b \o t),
           NEW a, NEW c, AtLast(s, b \o t, r, a, c), Position(CRLF \o CRLF, b) # 0
    PROVE  LET i == Position(CRLF \o CRLF, b) + 4
               v == From(b \o t, i)
           IN /\ i \in 1 .. Len(b) + 1
              /\ v # <<>> => /\ v[1].t = "text"
                             /\ v[1].line = "head" => v[1] = First(s, v[1].r) /\ v[1].r > r
                             /\ ~c => v[1] = First(s, r + 1)
<1> DEFINE w == b \o t
           p == Position(CRLF \o CRLF, b)
           v == From(w, p + 4)
           len == s[r].len
<1>0. /\ w \in Seq(Symbols(s)) /\ Chained(s, w) /\ Len(w) = Len(b) + Len(t) /\ Len(b) <= Len(w)
      /\ Len(b) \in Nat /\ Len(t) \in Nat /\ \A j \in 1 .. Len(b) : w[j] = b[j]
  BY Buffered
<1>1. len \in Nat /\ s[r].trailer \in BOOLEAN
  BY DEF IsRequest
<1>2. /\ ~c => s[r].trailer
      /\ w # <<>> => w[1] = AfterLine(s, "size", r, len)
  BY DEF AtLast
<1>3. /\ p \in 1 .. Len(b) /\ IsAt(CRLF \o CRLF, b, p)
      /\ \A i \in 1 .. Len(b) : IsAt(CRLF \o CRLF, b, i) => p <= i
  BY <1>0, PositionFirst
<1> HIDE DEF w, p, len
<1>4. /\ p \in Nat /\ p + 3 <= Len(b) /\ b[p].t = "cr" /\ b[p + 1].t = "lf"
      /\ b[p + 2].t = "cr" /\ b[p + 3].t = "lf"
  <2>1. p \in Nat
    BY <1>3
  <2> QED
    BY <2>1, <1>0, <1>3, Patterns
<1>5. p + 4 \in 1 .. Len(b) + 1 /\ p + 4 \in 1 .. Len(w) + 1
  BY <1>0, <1>4
<1>6. v # <<>> => p + 4 <= Len(w) /\ v[1] = w[p + 4]
  BY <1>0, <1>5, FromChained
<1>7. w # <<>> /\ 1 \in 1 .. Len(w) /\ 1 \in 1 .. Len(b)
  BY <1>0, <1>3, EmptySeq
<1>8. w[1] = IF s[r].trailer THEN Text("trailer", r, len) ELSE Cr("end", r, len)
  <2>1. ~(len < len)
    BY <1>1
  <2> QED
    BY <2>1, <1>2, <1>7, Lines DEF len
<1>9. w[1].r = r
  BY <1>8, SymbolFields DEF Text, Cr
<1> HIDE DEF v
<1>10. ASSUME v # <<>>
       PROVE  v[1].t = "text" /\ (v[1].line = "head" => v[1] = First(s, v[1].r) /\ v[1].r > r)
  <2>1. /\ p \in 1 .. Len(w) /\ p + 4 <= Len(w)
        /\ p + 1 \in 1 .. Len(b) /\ p + 2 \in 1 .. Len(b) /\ p + 3 \in 1 .. Len(b)
    <3>1. p + 4 <= Len(w)
      BY <1>6, <1>10
    <3>2. Len(b) \in Nat /\ Len(w) \in Nat /\ p \in 1 .. Len(b) /\ p + 3 <= Len(b) /\ Len(b) <= Len(w)
      BY <1>0, <1>3, <1>4
    <3> QED
      BY <3>1, <3>2
  <2>2. w[p + 1].t = "lf" /\ w[p + 2].t = "cr" /\ w[p + 3].t = "lf"
    BY <2>1, <1>0, <1>4
  <2>3. /\ w[p + 4].t = "text"
        /\ w[p + 4].line = "head" => w[p + 4] = First(s, w[p + 4].r) /\ w[p + 4].r > w[1].r
    BY <2>1, <2>2, <1>0, AfterEmptyLine
  <2> QED
    BY <2>3, <1>6, <1>9, <1>10
<1>11. ASSUME v # <<>>, ~c PROVE v[1] = First(s, r + 1)
  <2>1. w[1] = Text("trailer", r, len) /\ b[1] = w[1]
    BY <1>0, <1>2, <1>7, <1>8, <1>11
  <2>2. p # 1
    BY <2>1, <1>4, SymbolFields DEF Text
  <2>3. Len(b) >= 5 /\ Len(w) >= 5 /\ 2 \in 1 .. Len(b) /\ 2 \in Nat /\ 4 \in 1 .. Len(w)
    BY <1>0, <1>3, <1>4, <2>2
  <2>4. /\ w[2] = Cr("trailer", r, len) /\ w[3] = Symbol("lf", "trailer", r, len)
        /\ w[4] = Cr("end", r, len)
    <3>1. /\ 1 + 1 <= Len(w) => w[1 + 1] = Cr("trailer", r, len)
          /\ 1 + 2 <= Len(w) => w[1 + 2] = Symbol("lf", "trailer", r, len)
          /\ 1 + 3 <= Len(w) => w[1 + 3] = AfterLine(s, "trailer", r, len)
      <4>1. w \in Seq(Symbols(s)) /\ Chained(s, w) /\ 1 \in 1 .. Len(w)
        BY <1>0, <1>7
      <4>2. w[1] = Text("trailer", r, len)
        BY <2>1
      <4> QED
        BY <4>1, <4>2, LineOnWire
    <3> QED
      BY <3>1, <1>0, <2>3, Lines
  <2>5. /\ w[5] = Symbol("lf", "end", r, len)
        /\ 6 <= Len(w) => w[6] = First(s, r + 1)
    <3>1. /\ 4 + 1 <= Len(w) => w[4 + 1] = Symbol("lf", "end", r, len)
          /\ 4 + 2 <= Len(w) => w[4 + 2] = AfterLine(s, "end", r, len)
      <4>1. w \in Seq(Symbols(s)) /\ Chained(s, w) /\ 4 \in 1 .. Len(w)
        BY <1>0, <2>3
      <4>2. w[4] = Cr("end", r, len)
        BY <2>4
      <4> QED
        BY <4>1, <4>2, EmptyLineOnWire
    <3> QED
      BY <3>1, <1>0, <2>3, Lines
  <2>6. IsAt(CRLF \o CRLF, b, 2)
    <3>1. b[2] = w[2] /\ b[3] = w[3] /\ b[4] = w[4] /\ b[5] = w[5]
      BY <1>0, <2>3
    <3>2. b[2].t = "cr" /\ b[2 + 1].t = "lf" /\ b[2 + 2].t = "cr" /\ b[2 + 3].t = "lf"
      BY <3>1, <2>4, <2>5, SymbolFields DEF Cr
    <3> QED
      BY <3>2, <1>0, <2>3, Patterns
  <2>7. p = 2
    BY <1>3, <2>2, <2>3, <2>6
  <2>8. 6 <= Len(w) /\ v[1] = w[6]
    BY <1>6, <1>11, <2>7
  <2> QED
    BY <2>5, <2>8
<1> QED
  BY <1>5, <1>10, <1>11 DEF w, p, v

-----------------------------------------------------------------------------
(* The steps of a connection *)

LEMMA StreamDrops ==
    ASSUME NEW s, NEW b, NEW t, IsStream(s, b, t), NEW i \in 1 .. Len(b) + 1
    PROVE  /\ IsStream(s, From(b, i), t) /\ From(b, i) \o t = From(b \o t, i)
           /\ b \o t \in Seq(Symbols(s)) /\ From(b \o t, i) \in Seq(Symbols(s))
           /\ Chained(s, From(b \o t, i))
<1>1. /\ b \in Seq(Symbols(s)) /\ t \in Seq(Symbols(s)) /\ Chained(s, b \o t)
      /\ b \o t \in Seq(Symbols(s))
  BY Buffered DEF IsStream
<1>2. /\ From(b, i) \in Seq(Symbols(s))
      /\ From(b, i) \o t = From(b \o t, i) /\ i \in 1 .. Len(b \o t) + 1
  BY <1>1, FromUnread
<1>3. From(b \o t, i) \in Seq(Symbols(s)) /\ Chained(s, From(b \o t, i))
  BY <1>1, <1>2, FromChained
<1> QED
  BY <1>1, <1>2, <1>3 DEF IsStream

\* A read of k symbols keeps the stream as it is.
Whole(s, b, t, k) ==
    /\ IsStream(s, b \o SubSeq(t, 1, k), From(t, k + 1))
    /\ (b \o SubSeq(t, 1, k)) \o From(t, k + 1) = b \o t

LEMMA StreamReads ==
    ASSUME NEW s, NEW b, NEW t, IsStream(s, b, t), NEW k \in 1 .. Len(t)
    PROVE  Whole(s, b, t, k)
<1>1. /\ b \in Seq(Symbols(s)) /\ t \in Seq(Symbols(s)) /\ Chained(s, b \o t)
  BY DEF IsStream
<1>2. /\ SubSeq(t, 1, k) \in Seq(Symbols(s)) /\ From(t, k + 1) \in Seq(Symbols(s))
      /\ (b \o SubSeq(t, 1, k)) \o From(t, k + 1) = b \o t
  BY <1>1, ReadUnread
<1>3. b \o SubSeq(t, 1, k) \in Seq(Symbols(s))
  BY <1>1, <1>2, Buffered
<1> QED
  BY <1>1, <1>2, <1>3 DEF IsStream, Whole

\* A body that was read to its end is the next one handled.
LEMMA BodyHandled ==
    ASSUME NEW s, NEW h, NEW c, InOrder(s, h, c), NEW r \in 1 .. Len(s),
           NEW b \in Seq(Symbols(s)), b = Prefix(r, s[r].len), r > LastOf(h),
           ~c => r = Len(h) + 1, h # <<>> => s[LastOf(h)].keep
    PROVE  LET g == Append(h, [of |-> r, body |-> b]) IN
           /\ InOrder(s, g, c) /\ LastOf(g) = r /\ Len(g) = Len(h) + 1 /\ Len(h) \in Nat /\ g # <<>>
           /\ \A i \in 1 .. Len(h) : g[i] = h[i]
<1> DEFINE x == [of |-> r, body |-> b]
           H == [of : 1 .. Len(s), body : Seq(Symbols(s))]
           g == Append(h, x)
<1>1. h \in Seq(H) /\ x \in H /\ x.of = r /\ x.body = b
  BY DEF InOrder
<1>2. \A i \in 1 .. Len(h) :
         /\ h[i].body = Prefix(h[i].of, s[h[i].of].len)
         /\ i > 1 => h[i - 1].of < h[i].of /\ s[h[i - 1].of].keep
         /\ ~c => h[i].of = i
  BY DEF InOrder
<1> HIDE DEF x, H
<1>3. /\ g \in Seq(H) /\ Len(g) = Len(h) + 1 /\ Len(h) \in Nat /\ g[Len(h) + 1] = x
      /\ \A i \in 1 .. Len(h) : g[i] = h[i]
  BY <1>1, AppendProperties
<1> HIDE DEF g
<1>4. g # <<>>
  BY <1>3
<1>5. LastOf(g) = r
  BY <1>1, <1>3, <1>4 DEF LastOf
<1>6. ASSUME NEW i \in 1 .. Len(g)
      PROVE  /\ g[i].body = Prefix(g[i].of, s[g[i].of].len)
             /\ i > 1 => g[i - 1].of < g[i].of /\ s[g[i - 1].of].keep
             /\ ~c => g[i].of = i
  <2>1. CASE i \in 1 .. Len(h)
    <3>1. g[i] = h[i] /\ (i > 1 => g[i - 1] = h[i - 1])
      <4>1. i > 1 => i - 1 \in 1 .. Len(h)
        BY <1>3, <2>1
      <4> QED
        BY <1>3, <2>1, <4>1
    <3> QED
      BY <3>1, <1>2, <2>1
  <2>2. CASE i = Len(h) + 1
    <3>1. g[i] = x
      BY <1>3, <2>2
    <3>2. i > 1 => /\ i - 1 \in 1 .. Len(h) /\ g[i - 1] = h[Len(h)] /\ h # <<>>
                   /\ LastOf(h) = h[Len(h)].of
      <4> SUFFICES ASSUME i > 1 PROVE /\ i - 1 \in 1 .. Len(h) /\ g[i - 1] = h[Len(h)] /\ h # <<>>
                                      /\ LastOf(h) = h[Len(h)].of
        OBVIOUS
      <4>1. i - 1 = Len(h) /\ Len(h) \in 1 .. Len(h)
        BY <1>3, <2>2
      <4>2. h # <<>>
        BY <4>1
      <4> QED
        BY <1>3, <4>1, <4>2 DEF LastOf
    <3> QED
      BY <3>1, <3>2, <2>2, <1>1
  <2>3. QED
    BY <2>1, <2>2, <1>3
<1> QED
  BY <1>3, <1>4, <1>5, <1>6 DEF InOrder, g, x, H

LEMMA Script ==
    ASSUME StreamInv
    PROVE  Len(script) \in Nat /\ \A r \in 1 .. Len(script) : IsRequest(script[r])
  BY ScriptAssumption DEF StreamInv

LEMMA HttpInit_HttpInv == HttpInit => HttpInv
<1> SUFFICES ASSUME HttpInit PROVE HttpInv
  OBVIOUS
<1> DEFINE S == Symbols(script)
<1>1. /\ script \in Scripts /\ Len(script) \in Nat /\ Sent(script) \in Seq(S)
      /\ Chained(script, Sent(script)) /\ todo = Sent(script)
      /\ todo # <<>> => todo[1] = First(script, 1)
  BY ScriptAssumption, SentAssumption DEF HttpInit
<1>2. Unread = todo /\ buffer \in Seq(S) /\ body \in Seq(S) /\ buffer = <<>>
  <2>1. buffer = <<>> /\ body = <<>> /\ <<>> \in Seq(S)
    BY DEF HttpInit
  <2>2. <<>> \o todo = todo
    BY <1>1, ConcatEmptySeq
  <2> QED
    BY <2>1, <2>2 DEF Unread
<1>3. StreamInv
  BY <1>1, <1>2 DEF StreamInv, IsStream, Unread, HttpInit
<1>4. HandledInv
  <2>1. handled = <<>> /\ <<>> \in Seq([of : 1 .. Len(script), body : Seq(S)])
    BY DEF HttpInit
  <2> QED
    BY <2>1 DEF HandledInv, InOrder
<1>5. AtRequest(script, Unread, handled, cut)
  <2> SUFFICES ASSUME todo # <<>>
               PROVE  /\ todo[1].t = "text"
                      /\ todo[1].line = "head" => todo[1] = First(script, todo[1].r) /\ todo[1].r > LastOf(handled)
                      /\ ~cut => todo[1] = First(script, Len(handled) + 1)
    BY <1>2 DEF AtRequest
  <2>1. 1 \in 1 .. Len(todo)
    BY <1>1, EmptySeq
  <2>2. todo[1] \in S /\ todo[1] = First(script, 1)
    BY <1>1, <2>1
  <2>3. todo[1].t = "text" /\ todo[1].r = 1
    BY <2>2, <1>1, Firsts
  <2>4. Len(handled) = 0 /\ LastOf(handled) = 0
    BY DEF HttpInit, LastOf
  <2> QED
    BY <2>2, <2>3, <2>4
<1>6. PlaceInv
  BY <1>5 DEF HttpInit, PlaceInv, Framed, Serving
<1>7. AnswerInv
  BY DEF HttpInit, AnswerInv, NoAnswer, Serving
<1> QED
  BY <1>3, <1>4, <1>6, <1>7 DEF HttpInv

\* The connection is closed, or goes on to the next part of the loop.
LEMMA MoveStep ==
    ASSUME HttpInv, NEW place, Move(place),
           \/ place = "closed"
           \/ pc = "parse" /\ place = "read"
           \/ pc \in Serving /\ place \in Serving
           \/ pc \in {"copy", "write"} /\ place = "parse" /\ script[req].keep
    PROVE  HttpInv'
<1>1. /\ pc' = place /\ script' = script /\ todo' = todo /\ buffer' = buffer /\ req' = req
      /\ body' = body /\ size' = size /\ handled' = handled /\ answered' = answered
      /\ answer' = answer /\ cut' = cut /\ Unread' = Unread
  BY DEF Move, client, Unread
<1>2. StreamInv' /\ HandledInv'
  BY <1>1 DEF HttpInv, StreamInv, HandledInv
<1>3. PlaceInv'
  BY <1>1 DEF HttpInv, PlaceInv, Framed, Serving
<1>4. AnswerInv'
  BY <1>1 DEF HttpInv, AnswerInv, Serving
<1> QED
  BY <1>2, <1>3, <1>4 DEF HttpInv

\* The response to the last request is begun.
LEMMA AnswerStep ==
    ASSUME HttpInv, pc \in Serving, NEW a, a.of = req, a.status # 400,
           answer' = a, answered' = answered + 1,
           pc' \in {"write", "copy"},
           UNCHANGED <<client, todo, buffer, req, body, size, handled, cut>>
    PROVE  HttpInv'
<1>1. /\ script' = script /\ todo' = todo /\ buffer' = buffer /\ req' = req
      /\ body' = body /\ size' = size /\ handled' = handled /\ cut' = cut /\ Unread' = Unread
  BY DEF client, Unread
<1>2. StreamInv' /\ HandledInv'
  BY <1>1 DEF HttpInv, StreamInv, HandledInv
<1>3. req = LastOf(handled) /\ handled # <<>> /\ AtRequest(script, Unread, handled, cut)
  BY DEF HttpInv, PlaceInv, Serving, Framed
<1>4. PlaceInv'
  BY <1>1, <1>3 DEF PlaceInv, Framed, Serving
<1>5. AnswerInv'
  <2>1. answered \in Nat /\ answered + 1 = Len(handled)
    BY DEF HttpInv, AnswerInv, Serving
  <2>2. a.of = handled[answered + 1].of
    BY <1>3, <2>1 DEF LastOf
  <2>3. pc' \notin Serving
    BY DEF Serving
  <2> QED
    BY <1>1, <2>1, <2>2, <2>3 DEF AnswerInv
<1> QED
  BY <1>2, <1>4, <1>5 DEF HttpInv

LEMMA RespondStep ==
    ASSUME HttpInv, pc \in Serving, NEW a, a.of = req, a.status # 400, Respond(a)
    PROVE  HttpInv'
  BY AnswerStep DEF Respond

LEMMA ReadStep ==
    ASSUME HttpInv, NEW k \in 1 .. Len(todo), Read(k)
    PROVE  HttpInv'
<1>1. /\ script' = script /\ req' = req /\ body' = body /\ size' = size /\ handled' = handled
      /\ answered' = answered /\ answer' = answer /\ cut' = cut
      /\ pc' = (IF pc = "read" THEN "parse" ELSE pc)
      /\ buffer' = buffer \o SubSeq(todo, 1, k) /\ todo' = From(todo, k + 1)
  BY DEF Read, client
<1>2. IsStream(script, buffer, todo)
  BY DEF HttpInv, StreamInv
<1>3. IsStream(script', buffer', todo') /\ Unread' = Unread
  <2>1. /\ IsStream(script, buffer \o SubSeq(todo, 1, k), From(todo, k + 1))
        /\ (buffer \o SubSeq(todo, 1, k)) \o From(todo, k + 1) = buffer \o todo
    <3>1. Whole(script, buffer, todo, k)
      BY <1>2, StreamReads
    <3> QED
      BY <3>1 DEF Whole
  <2>2. Unread' = buffer' \o todo' /\ Unread = buffer \o todo
    BY DEF Unread
  <2> QED
    BY <1>1, <2>1, <2>2
<1>4. StreamInv' /\ HandledInv'
  BY <1>1, <1>3 DEF HttpInv, StreamInv, HandledInv
<1>5. pc \in {"read"} \cup Framed
  BY DEF Read, Starved, Framed
<1>6. PlaceInv'
  BY <1>1, <1>3, <1>5 DEF HttpInv, PlaceInv, Framed, Serving
<1>7. AnswerInv'
  BY <1>1, <1>5 DEF HttpInv, AnswerInv, Framed, Serving
<1> QED
  BY <1>4, <1>6, <1>7 DEF HttpInv

\* What a step that reads of a body has to start from.
LEMMA Reading ==
    ASSUME HttpInv, pc \in Framed
    PROVE  /\ req \in 1 .. Len(script) /\ IsRequest(script[req]) /\ Len(script) \in Nat
           /\ req > LastOf(handled) /\ (~cut => req = Len(handled) + 1)
           /\ handled # <<>> => script[LastOf(handled)].keep
           /\ IsStream(script, buffer, todo) /\ Len(buffer) \in Nat
           /\ buffer \in Seq(Symbols(script)) /\ todo \in Seq(Symbols(script))
           /\ Chained(script, buffer \o todo) /\ Unread = buffer \o todo
           /\ body \in Seq(Symbols(script)) /\ cut \in BOOLEAN
           /\ InOrder(script, handled, cut)
           /\ answered \in Nat /\ answered = Len(handled) /\ answer.status # 400
           /\ answer.of # 0 => answered # 0 /\ answer.of = handled[answered].of
<1>1. /\ req \in 1 .. Len(script) /\ req > LastOf(handled) /\ (~cut => req = Len(handled) + 1)
      /\ handled # <<>> => script[LastOf(handled)].keep
  BY DEF HttpInv, PlaceInv
<1>2. Len(script) \in Nat /\ IsRequest(script[req])
  BY <1>1, Script DEF HttpInv
<1>3. /\ IsStream(script, buffer, todo) /\ body \in Seq(Symbols(script)) /\ cut \in BOOLEAN
      /\ InOrder(script, handled, cut)
  BY DEF HttpInv, StreamInv, HandledInv
<1>4. /\ buffer \in Seq(Symbols(script)) /\ todo \in Seq(Symbols(script))
      /\ Chained(script, buffer \o todo) /\ Unread = buffer \o todo
  BY <1>3 DEF IsStream, Unread
<1>5. Len(buffer) \in Nat
  BY <1>4
<1>6. /\ answered \in Nat /\ answered = Len(handled) /\ answer.status # 400
      /\ answer.of # 0 => answered # 0 /\ answer.of = handled[answered].of
  BY DEF HttpInv, AnswerInv, Framed, Serving
<1> QED
  BY <1>1, <1>2, <1>3, <1>4, <1>5, <1>6

\* The body is read, to the byte, and the stream is at a request again.
LEMMA BodyReadStep ==
    ASSUME HttpInv, pc \in Framed, NEW b \in Seq(Symbols(script)), NEW leftover,
           BodyRead(b, leftover), cut' = cut,
           b = Prefix(req, script[req].len),
           IsStream(script, leftover, todo'),
           LET w == leftover \o todo' IN
              w # <<>> => /\ w[1].t = "text"
                          /\ w[1].line = "head" => w[1] = First(script, w[1].r) /\ w[1].r > req
                          /\ ~cut => w[1] = First(script, req + 1)
    PROVE  HttpInv'
<1> DEFINE g == Append(handled, [of |-> req, body |-> b])
           w == leftover \o todo'
<1>1. /\ script' = script /\ req' = req /\ body' = b /\ buffer' = leftover
      /\ answered' = answered /\ answer' = answer /\ pc' = "limit" /\ handled' = g
  BY DEF BodyRead, client
<1>2. /\ req \in 1 .. Len(script) /\ Len(script) \in Nat /\ req > LastOf(handled)
      /\ ~cut => req = Len(handled) + 1
      /\ handled # <<>> => script[LastOf(handled)].keep
      /\ InOrder(script, handled, cut)
      /\ answered \in Nat /\ answered = Len(handled) /\ answer.status # 400
      /\ answer.of # 0 => answered # 0 /\ answer.of = handled[answered].of
  BY Reading
<1>3. /\ InOrder(script, g, cut) /\ LastOf(g) = req /\ Len(g) = Len(handled) + 1
      /\ Len(handled) \in Nat /\ g # <<>>
      /\ \A i \in 1 .. Len(handled) : g[i] = handled[i]
  BY <1>2, BodyHandled
<1>4. AtRequest(script, w, g, cut)
  <2> HIDE DEF g
  <2> QED
    BY <1>2, <1>3 DEF AtRequest
<1>5. Unread' = w
  BY <1>1 DEF Unread
<1>6. cut \in BOOLEAN /\ script \in Scripts
  BY DEF HttpInv, StreamInv
<1> HIDE DEF g, w
<1>7. StreamInv' /\ HandledInv'
  BY <1>1, <1>3, <1>6 DEF StreamInv, HandledInv
<1>8. PlaceInv'
  BY <1>1, <1>3, <1>4, <1>5 DEF PlaceInv, Framed, Serving
<1>9. AnswerInv'
  <2>1. answered # 0 => answered \in 1 .. Len(handled)
    BY <1>2
  <2> QED
    BY <2>1, <1>1, <1>2, <1>3 DEF AnswerInv, Serving
<1> QED
  BY <1>7, <1>8, <1>9 DEF HttpInv

LEMMA ParseStep ==
    ASSUME HttpInv, ParseComplete
    PROVE  HttpInv'
<1> DEFINE w == buffer \o todo
<1>1. /\ script \in Scripts /\ Len(script) \in Nat /\ cut \in BOOLEAN /\ IsStream(script, buffer, todo)
      /\ buffer \in Seq(Symbols(script)) /\ todo \in Seq(Symbols(script)) /\ Chained(script, w)
  BY ScriptAssumption DEF HttpInv, StreamInv, IsStream
<1>2. /\ w \in Seq(Symbols(script)) /\ Len(w) = Len(buffer) + Len(todo)
      /\ Len(buffer) \in Nat /\ Len(todo) \in Nat /\ Len(buffer) <= Len(w)
      /\ \A j \in 1 .. Len(buffer) : w[j] = buffer[j]
  BY <1>1, Buffered
<1>3. pc = "parse" /\ FirstByte # 0 /\ buffer[FirstByte].line = "head" /\ Len(buffer) >= FirstByte + 4
  BY DEF ParseComplete, HeadComplete
<1>4. AtRequest(script, w, handled, cut) /\ (handled # <<>> => script[LastOf(handled)].keep)
  BY <1>3 DEF HttpInv, PlaceInv, Framed, Serving, Unread
<1>5. FirstByte \in 1 .. Len(buffer) /\ \A i \in 1 .. Len(buffer) : IsAt(<<"text">>, buffer, i) => FirstByte <= i
  BY <1>2, <1>3, PositionFirst DEF FirstByte
<1> HIDE DEF w
<1>6. /\ 1 \in 1 .. Len(buffer) /\ 1 \in 1 .. Len(w) /\ w # <<>>
      /\ w[1].t = "text" /\ w[1] = buffer[1]
      /\ w[1].line = "head" => w[1] = First(script, w[1].r) /\ w[1].r > LastOf(handled)
      /\ ~cut => w[1] = First(script, Len(handled) + 1)
  <2>1. 1 \in 1 .. Len(buffer) /\ 1 \in 1 .. Len(w)
    BY <1>2, <1>5
  <2>2. w # <<>>
    BY <2>1
  <2> QED
    BY <1>2, <1>4, <2>1, <2>2 DEF AtRequest
<1>7. FirstByte = 1
  <2>1. IsAt(<<"text">>, buffer, 1)
    BY <1>2, <1>6, Patterns
  <2> QED
    BY <2>1, <1>2, <1>5, <1>6
<1> DEFINE r == w[1].r
<1>8. w[1] \in Symbols(script) /\ r \in 1 .. Len(script) /\ r \in Nat
  <2>1. w[1] \in Symbols(script)
    BY <1>2, <1>6
  <2> QED
    BY <2>1 DEF Symbols
<1>9. w[1].line = "head" /\ w[1] = First(script, r) /\ r > LastOf(handled)
  BY <1>3, <1>6, <1>7
<1> HIDE DEF r
<1>10. w[1] = Text("head", r, 0) /\ script[r].framing # "junk"
  BY <1>1, <1>8, <1>9, Firsts
<1>11. ~cut => r = Len(handled) + 1
  <2> SUFFICES ASSUME ~cut PROVE r = Len(handled) + 1
    OBVIOUS
  <2>1. Len(handled) + 1 \in Nat
    BY DEF HttpInv, HandledInv, InOrder
  <2>2. First(script, Len(handled) + 1).r = Len(handled) + 1
    BY <2>1, <1>1, <1>6, <1>8, Firsts
  <2> QED
    BY <2>2, <1>6 DEF r
<1>12. /\ req' = r /\ buffer' = From(buffer, 6) /\ body' = <<>>
       /\ script' = script /\ todo' = todo /\ handled' = handled /\ answered' = answered
       /\ answer' = answer /\ cut' = cut
       /\ pc' = (IF script[r].framing = "chunked" THEN "size" ELSE "length")
  BY <1>6, <1>7 DEF ParseComplete, client, r
<1>13. /\ IsStream(script, From(buffer, 6), todo)
       /\ From(buffer, 6) \o todo = From(w, 6) /\ Len(w) >= 5
  <2>1. 6 \in 1 .. Len(buffer) + 1
    BY <1>2, <1>3, <1>7
  <2>2. Len(w) >= 5
    BY <1>2, <1>3, <1>7
  <2> QED
    BY <1>1, <2>1, <2>2, StreamDrops DEF w
<1>14. From(w, 6) # <<>> => From(w, 6)[1] = AfterLine(script, "blank", r, 0)
  BY <1>1, <1>2, <1>10, <1>13, HeadRead
<1>15. Unread' = From(w, 6)
  BY <1>12, <1>13 DEF Unread
<1>16. StreamInv' /\ HandledInv'
  <2>1. <<>> \in Seq(Symbols(script))
    OBVIOUS
  <2> QED
    BY <2>1, <1>1, <1>12, <1>13 DEF HttpInv, StreamInv, HandledInv
<1>17. PlaceInv'
  <2>1. CASE script[r].framing = "chunked"
    <3>1. AtSize(script, From(w, 6), r, <<>>)
      <4>1. Len(<<>>) = 0 /\ 0 <= script[r].len /\ <<>> = Prefix(r, 0)
        <5>1. script[r].len \in Nat
          BY <1>1, <1>8, ScriptAssumption DEF IsRequest
        <5>2. <<>> = Prefix(r, 0)
          BY DEF Prefix
        <5> QED
          BY <5>1, <5>2
      <4> QED
        BY <2>1, <4>1, <1>14, Lines DEF AtSize
    <3> QED
      BY <3>1, <2>1, <1>4, <1>8, <1>9, <1>11, <1>12, <1>15 DEF PlaceInv, Framed, Serving
  <2>2. CASE script[r].framing # "chunked"
    <3>1. AtLength(script, From(w, 6), r)
      <4>1. script[r].framing \in {"none", "length"}
        BY <1>1, <1>8, <1>10, <2>2, ScriptAssumption DEF IsRequest
      <4> QED
        BY <4>1, <1>14 DEF AtLength
    <3> QED
      BY <3>1, <2>2, <1>4, <1>8, <1>9, <1>11, <1>12, <1>15 DEF PlaceInv, Framed, Serving
  <2> QED
    BY <2>1, <2>2
<1>18. AnswerInv'
  BY <1>3, <1>12 DEF HttpInv, AnswerInv, Serving
<1> QED
  BY <1>16, <1>17, <1>18 DEF HttpInv

LEMMA ParseErrorStep ==
    ASSUME HttpInv, ParseError
    PROVE  HttpInv'
<1> DEFINE w == buffer \o todo
<1>1. /\ script \in Scripts /\ Len(script) \in Nat
      /\ buffer \in Seq(Symbols(script)) /\ todo \in Seq(Symbols(script))
  BY ScriptAssumption DEF HttpInv, StreamInv, IsStream
<1>2. /\ w \in Seq(Symbols(script)) /\ Len(buffer) \in Nat /\ Len(buffer) <= Len(w) /\ Len(w) \in Nat
      /\ \A j \in 1 .. Len(buffer) : w[j] = buffer[j]
  BY <1>1, Buffered
<1>3. pc = "parse" /\ FirstByte # 0 /\ buffer[FirstByte].line # "head"
  BY DEF ParseError, HeadInvalid
<1>4. AtRequest(script, w, handled, cut)
  BY <1>3 DEF HttpInv, PlaceInv, Framed, Serving, Unread
<1>5. FirstByte \in 1 .. Len(buffer) /\ \A i \in 1 .. Len(buffer) : IsAt(<<"text">>, buffer, i) => FirstByte <= i
  BY <1>2, <1>3, PositionFirst DEF FirstByte
<1> HIDE DEF w
<1>6. 1 \in 1 .. Len(buffer) /\ 1 \in 1 .. Len(w) /\ w # <<>> /\ w[1] = buffer[1] /\ w[1] \in Symbols(script)
  <2>1. 1 \in 1 .. Len(buffer) /\ 1 \in 1 .. Len(w)
    BY <1>2, <1>5
  <2>2. w # <<>>
    BY <2>1
  <2> QED
    BY <1>2, <2>1, <2>2
<1>7. w[1].t = "text" /\ (~cut => w[1] = First(script, Len(handled) + 1))
  BY <1>4, <1>6 DEF AtRequest
<1>8. FirstByte = 1
  <2>1. IsAt(<<"text">>, buffer, 1)
    BY <1>2, <1>6, <1>7, Patterns
  <2> QED
    BY <2>1, <1>2, <1>5, <1>6
<1>9. ~cut => script[Len(handled) + 1].framing = "junk"
  <2> SUFFICES ASSUME ~cut PROVE script[Len(handled) + 1].framing = "junk"
    OBVIOUS
  <2>1. Len(handled) + 1 \in Nat
    BY DEF HttpInv, HandledInv, InOrder
  <2>2. First(script, Len(handled) + 1).line =
           IF script[Len(handled) + 1].framing = "junk" THEN "junk" ELSE "head"
    BY <2>1, <1>1, <1>6, <1>7, Firsts
  <2> QED
    BY <2>2, <1>3, <1>6, <1>7, <1>8
<1>10. /\ script' = script /\ todo' = todo /\ buffer' = buffer /\ req' = req /\ body' = body
       /\ size' = size /\ handled' = handled /\ answered' = answered /\ cut' = cut
       /\ pc' = "refuse" /\ answer' = [NoAnswer EXCEPT !.status = 400]
  BY DEF ParseError, client
<1>11. StreamInv' /\ HandledInv'
  BY <1>10 DEF HttpInv, StreamInv, HandledInv
<1>12. PlaceInv'
  BY <1>10 DEF PlaceInv, Framed, Serving
<1>13. AnswerInv'
  <2>1. answer'.of = 0
    BY <1>10 DEF NoAnswer
  <2> QED
    BY <2>1, <1>3, <1>9, <1>10 DEF HttpInv, AnswerInv, Serving
<1> QED
  BY <1>11, <1>12, <1>13 DEF HttpInv

\* A stream that goes on with the request after req, or is at its end.
LEMMA ThenNext ==
    ASSUME NEW s, Len(s) \in Nat, NEW r \in 1 .. Len(s), NEW w \in Seq(Symbols(s)), NEW c,
           w # <<>> => w[1] = First(s, r + 1)
    PROVE  w # <<>> => /\ w[1].t = "text"
                       /\ w[1].line = "head" => w[1] = First(s, w[1].r) /\ w[1].r > r
                       /\ ~c => w[1] = First(s, r + 1)
<1> SUFFICES ASSUME w # <<>>
             PROVE  /\ w[1].t = "text"
                    /\ w[1].line = "head" => w[1] = First(s, w[1].r) /\ w[1].r > r
                    /\ ~c => w[1] = First(s, r + 1)
  OBVIOUS
<1>1. w[1] \in Symbols(s) /\ w[1] = First(s, r + 1) /\ r + 1 \in Nat
  <2>1. Len(w) \in Nat /\ Len(w) # 0
    BY EmptySeq
  <2>2. 1 \in 1 .. Len(w)
    BY <2>1
  <2> QED
    BY <2>2
<1>2. w[1].t = "text" /\ w[1].r = r + 1
  BY <1>1, Firsts
<1> QED
  BY <1>1, <1>2

LEMMA PrefixType ==
    ASSUME NEW s, NEW r \in 1 .. Len(s), NEW k \in Nat
    PROVE  Prefix(r, k) \in Seq(Symbols(s)) /\ Len(Prefix(r, k)) = k
<1>1. \A i \in Nat \ {0} : Text("data", r, i) \in Symbols(s)
  BY DEF Text, Symbol, Symbols
<1> QED
  BY <1>1 DEF Prefix

LEMMA TakeLengthStep ==
    ASSUME HttpInv, TakeLength
    PROVE  HttpInv'
<1> DEFINE len == script[req].len
           w == buffer \o todo
<1>1. pc = "length" /\ pc \in Framed /\ ~(Len(buffer) < ContentLength(req))
  BY DEF TakeLength, Starved, Framed
<1>2. /\ req \in 1 .. Len(script) /\ IsRequest(script[req]) /\ Len(script) \in Nat
      /\ IsStream(script, buffer, todo) /\ Len(buffer) \in Nat
      /\ buffer \in Seq(Symbols(script)) /\ todo \in Seq(Symbols(script))
      /\ Chained(script, w) /\ Unread = w
  BY <1>1, Reading
<1>3. AtLength(script, w, req)
  BY <1>1, <1>2 DEF HttpInv, PlaceInv
<1>4. len \in Nat /\ ContentLength(req) = len
  BY <1>2, <1>3 DEF IsRequest, AtLength, ContentLength
<1>5. len <= Len(buffer) /\ len + 1 \in 1 .. Len(buffer) + 1
  BY <1>1, <1>2, <1>4
<1>6. /\ SubSeq(buffer, 1, len) = Prefix(req, len)
      /\ From(w, len + 1) # <<>> => From(w, len + 1)[1] = First(script, req + 1)
  BY <1>2, <1>3, <1>5, LengthRead
<1>7. /\ IsStream(script, From(buffer, len + 1), todo) /\ From(buffer, len + 1) \o todo = From(w, len + 1)
      /\ From(w, len + 1) \in Seq(Symbols(script))
  <2> DEFINE i == len + 1
  <2>1. i \in 1 .. Len(buffer) + 1 /\ IsStream(script, buffer, todo)
    BY <1>2, <1>5
  <2> HIDE DEF i, w
  <2>2. /\ IsStream(script, From(buffer, i), todo) /\ From(buffer, i) \o todo = From(buffer \o todo, i)
        /\ From(buffer \o todo, i) \in Seq(Symbols(script))
    BY <2>1, StreamDrops
  <2> QED
    BY <2>2 DEF i, w
<1>8. /\ BodyRead(Prefix(req, len), From(buffer, len + 1)) /\ todo' = todo /\ cut' = cut
  BY <1>4, <1>6 DEF TakeLength
<1>9. Prefix(req, len) \in Seq(Symbols(script))
  BY <1>2, <1>4, PrefixType
<1> DEFINE v == From(w, len + 1)
<1>10. v # <<>> => /\ v[1].t = "text"
                   /\ v[1].line = "head" => v[1] = First(script, v[1].r) /\ v[1].r > req
                   /\ ~cut => v[1] = First(script, req + 1)
  <2> HIDE DEF v
  <2>1. v \in Seq(Symbols(script)) /\ (v # <<>> => v[1] = First(script, req + 1))
    BY <1>6, <1>7 DEF v
  <2> QED
    BY <1>2, <2>1, ThenNext
<1> HIDE DEF w, v
<1>11. IsStream(script, From(buffer, len + 1), todo') /\ From(buffer, len + 1) \o todo' = v
  BY <1>7, <1>8 DEF v
<1> QED
  BY <1>1, <1>8, <1>9, <1>10, <1>11, BodyReadStep

LEMMA TakeDataStep ==
    ASSUME HttpInv, TakeData
    PROVE  HttpInv'
<1> DEFINE w == buffer \o todo
           k == Len(body) + size
<1>1. pc = "data" /\ pc \in Framed /\ ~(Len(buffer) < size + 2)
  BY DEF TakeData, Starved, Framed
<1>2. /\ req \in 1 .. Len(script) /\ IsRequest(script[req]) /\ Len(script) \in Nat
      /\ IsStream(script, buffer, todo) /\ Len(buffer) \in Nat
      /\ buffer \in Seq(Symbols(script)) /\ todo \in Seq(Symbols(script))
      /\ Chained(script, w) /\ Unread = w /\ body \in Seq(Symbols(script))
      /\ req > LastOf(handled) /\ (~cut => req = Len(handled) + 1)
      /\ handled # <<>> => script[LastOf(handled)].keep
  BY <1>1, Reading
<1>3. AtData(script, w, req, body, size)
  BY <1>1, <1>2 DEF HttpInv, PlaceInv
<1>4. size \in Nat /\ script[req].framing = "chunked"
  BY <1>3 DEF AtData
<1>5. Len(buffer) >= size + 2 /\ size + 3 \in 1 .. Len(buffer) + 1
  BY <1>1, <1>2, <1>4
<1>6. /\ k \in Nat /\ k <= script[req].len
      /\ body \o SubSeq(buffer, 1, size) = Prefix(req, k)
      /\ From(w, size + 3) # <<>> => From(w, size + 3)[1] = Text("size", req, k)
  BY <1>2, <1>3, <1>4, <1>5, DataRead
<1>7. /\ IsStream(script, From(buffer, size + 3), todo)
      /\ From(buffer, size + 3) \o todo = From(w, size + 3)
  <2> DEFINE i == size + 3
  <2>1. i \in 1 .. Len(buffer) + 1 /\ IsStream(script, buffer, todo)
    BY <1>2, <1>5
  <2> HIDE DEF i, w
  <2>2. /\ IsStream(script, From(buffer, i), todo) /\ From(buffer, i) \o todo = From(buffer \o todo, i)
        /\ From(buffer \o todo, i) \in Seq(Symbols(script))
    BY <2>1, StreamDrops
  <2> QED
    BY <2>2 DEF i, w
<1>8. Prefix(req, k) \in Seq(Symbols(script)) /\ Len(Prefix(req, k)) = k
  BY <1>2, <1>6, PrefixType
<1>9. /\ body' = Prefix(req, k) /\ buffer' = From(buffer, size + 3) /\ pc' = "size"
      /\ script' = script /\ todo' = todo /\ req' = req /\ handled' = handled
      /\ answered' = answered /\ answer' = answer /\ cut' = cut
  BY <1>6 DEF TakeData, client
<1>10. Unread' = From(w, size + 3)
  BY <1>7, <1>9 DEF Unread
<1> DEFINE v == From(w, size + 3)
           p == Prefix(req, k)
<1>11. AtSize(script, v, req, p)
  <2> HIDE DEF k, v
  <2> QED
    BY <1>4, <1>6, <1>8 DEF AtSize, v
<1> HIDE DEF w, v, k, p
<1>12. StreamInv' /\ HandledInv'
  BY <1>7, <1>8, <1>9 DEF HttpInv, StreamInv, HandledInv, p
<1>13. PlaceInv'
  <2>1. AtSize(script, Unread, req, body)'
    BY <1>9, <1>10, <1>11 DEF v, p
  <2> QED
    BY <2>1, <1>2, <1>9 DEF PlaceInv, Framed, Serving
<1>14. AnswerInv'
  BY <1>1, <1>9 DEF HttpInv, AnswerInv, Serving
<1> QED
  BY <1>12, <1>13, <1>14 DEF HttpInv

LEMMA TakeLastStep ==
    ASSUME HttpInv, TakeLast
    PROVE  HttpInv'
<1> DEFINE w == buffer \o todo
           i == Position(CRLF \o CRLF, buffer) + 4
<1>1. pc = "last" /\ pc \in Framed /\ Position(CRLF \o CRLF, buffer) # 0
  BY DEF TakeLast, Starved, Framed
<1>2. /\ req \in 1 .. Len(script) /\ IsRequest(script[req]) /\ Len(script) \in Nat
      /\ IsStream(script, buffer, todo)
      /\ buffer \in Seq(Symbols(script)) /\ todo \in Seq(Symbols(script))
      /\ Chained(script, w) /\ Unread = w /\ body \in Seq(Symbols(script))
  BY <1>1, Reading
<1>3. AtLast(script, w, req, body, cut)
  BY <1>1, <1>2 DEF HttpInv, PlaceInv
<1> DEFINE v == From(w, i)
<1>4. /\ i \in 1 .. Len(buffer) + 1
      /\ v # <<>> => /\ v[1].t = "text"
                     /\ v[1].line = "head" => v[1] = First(script, v[1].r) /\ v[1].r > req
                     /\ ~cut => v[1] = First(script, req + 1)
  BY <1>1, <1>2, <1>3, LastRead
<1>5. BodyRead(body, From(buffer, i)) /\ todo' = todo /\ cut' = cut
  BY DEF TakeLast
<1> HIDE DEF i
<1>6. IsStream(script, From(buffer, i), todo) /\ From(buffer, i) \o todo = v
  BY <1>2, <1>4, StreamDrops
<1>7. body = Prefix(req, script[req].len)
  BY <1>3 DEF AtLast
<1> HIDE DEF w, v
<1>8. IsStream(script, From(buffer, i), todo') /\ From(buffer, i) \o todo' = v
  BY <1>5, <1>6
<1> QED
  BY <1>1, <1>2, <1>4, <1>5, <1>7, <1>8, BodyReadStep

LEMMA ReadEndStep ==
    ASSUME HttpInv, ReadEnd
    PROVE  HttpInv'
<1>1. CASE Move("closed")
  BY <1>1, MoveStep
<1>2. CASE pc = "last" /\ BodyRead(body, <<>>) /\ todo' = <<>> /\ UNCHANGED cut
  <2>1. pc \in Framed /\ cut' = cut
    BY <1>2 DEF Framed
  <2>2. body \in Seq(Symbols(script)) /\ Unread = buffer \o todo
    BY <2>1, Reading
  <2>3. body = Prefix(req, script[req].len)
    BY <1>2, <2>2 DEF HttpInv, PlaceInv, AtLast
  <2>4. <<>> \in Seq(Symbols(script)) /\ <<>> \o <<>> = <<>>
    BY ConcatEmptySeq
  <2>5. IsStream(script, <<>>, todo') /\ <<>> \o todo' = <<>>
    BY <1>2, <2>4 DEF IsStream, Chained
  <2> QED
    BY <1>2, <2>1, <2>2, <2>3, <2>5, BodyReadStep
<1> QED
  BY <1>1, <1>2 DEF ReadEnd

\* A chunk size: another chunk follows, or the end of the body, which is there
\* already or has to be looked for.
LEMMA TakeSizeStep ==
    ASSUME HttpInv, TakeSize
    PROVE  HttpInv'
<1> DEFINE w == buffer \o todo
           k == Len(body)
           len == script[req].len
           n == Size(buffer[1])
           rest == From(buffer, 4)
           v == From(w, 4)
<1>1. pc = "size" /\ pc \in Framed /\ Position(CRLF, buffer) # 0
  BY DEF TakeSize, Starved, Framed
<1>2. /\ req \in 1 .. Len(script) /\ IsRequest(script[req]) /\ Len(script) \in Nat
      /\ IsStream(script, buffer, todo)
      /\ buffer \in Seq(Symbols(script)) /\ todo \in Seq(Symbols(script))
      /\ Chained(script, w) /\ Unread = w /\ body \in Seq(Symbols(script))
      /\ req > LastOf(handled) /\ (~cut => req = Len(handled) + 1)
      /\ handled # <<>> => script[LastOf(handled)].keep
      /\ cut \in BOOLEAN /\ Len(buffer) \in Nat
  BY <1>1, Reading
<1>3. AtSize(script, w, req, body)
  BY <1>1, <1>2 DEF HttpInv, PlaceInv
<1>4. /\ script[req].framing = "chunked" /\ k \in Nat /\ len \in Nat /\ k <= len
      /\ body = Prefix(req, k) /\ script[req].trailer \in BOOLEAN
  BY <1>2, <1>3 DEF AtSize, IsRequest
<1>5. /\ Position(CRLF, buffer) = 2 /\ Len(buffer) >= 3 /\ buffer[1] = Text("size", req, k)
      /\ v # <<>> => v[1] = AfterLine(script, "size", req, k)
  BY <1>1, <1>2, <1>3, SizeRead
<1>6. /\ IsStream(script, rest, todo) /\ rest \o todo = v
      /\ v \in Seq(Symbols(script)) /\ Chained(script, v)
  <2>1. 4 \in 1 .. Len(buffer) + 1
    BY <1>2, <1>5
  <2> QED
    BY <1>2, <2>1, StreamDrops
<1>7. /\ k = len => n = 0
      /\ k < len => /\ n \in Nat \ {0} /\ k + n \in script[req].cuts
                    /\ \A e \in script[req].cuts : e > k => e >= k + n
  <2>1. n = Size(Text("size", req, k))
    BY <1>5
  <2> HIDE DEF k
  <2> QED
    BY <2>1, <1>2, <1>4, SizeIsDistance
<1>8. Position(CRLF, buffer) + 2 = 4
  BY <1>5
<1>9. \/ Move("closed")
      \/ /\ n > 0 /\ buffer' = rest /\ size' = n /\ pc' = "data"
         /\ UNCHANGED <<vars, client, todo, req, body, handled, answered, answer, cut>>
      \/ n = 0 /\ IsAt(CRLF, rest, 1) /\ BodyRead(body, From(rest, 3)) /\ UNCHANGED <<todo, cut>>
      \/ /\ n = 0 /\ buffer' = rest /\ pc' = "last" /\ cut' = (cut \/ ~script[req].trailer)
         /\ UNCHANGED <<vars, client, todo, req, body, size, handled, answered, answer>>
  BY <1>8 DEF TakeSize
<1>10. n > 0 => k < len
  BY <1>4, <1>7
<1>11. n = 0 => k = len
  BY <1>4, <1>7
<1> HIDE DEF n, k, len, rest, v, w
<1>12. CASE Move("closed")
  BY <1>12, MoveStep
<1>13. CASE /\ n > 0 /\ buffer' = rest /\ size' = n /\ pc' = "data"
            /\ UNCHANGED <<vars, client, todo, req, body, handled, answered, answer, cut>>
  <2>1. /\ buffer' = rest /\ size' = n /\ pc' = "data" /\ script' = script /\ todo' = todo
        /\ req' = req /\ body' = body /\ handled' = handled /\ answered' = answered
        /\ answer' = answer /\ cut' = cut
    BY <1>13 DEF client
  <2>2. Unread' = v
    BY <2>1, <1>6 DEF Unread
  <2>3. AtData(script, v, req, body, n)
    <3>1. v # <<>> => v[1] = Text("data", req, k + 1)
      BY <1>5, <1>10, <1>13, Lines DEF len
    <3> QED
      BY <3>1, <1>4, <1>7, <1>10, <1>13 DEF AtData, k, len
  <2>4. StreamInv' /\ HandledInv'
    BY <1>6, <2>1 DEF HttpInv, StreamInv, HandledInv
  <2>5. PlaceInv'
    BY <1>2, <2>1, <2>2, <2>3 DEF PlaceInv, Framed, Serving
  <2>6. AnswerInv'
    BY <1>1, <2>1 DEF HttpInv, AnswerInv, Serving
  <2> QED
    BY <2>4, <2>5, <2>6 DEF HttpInv
<1>14. CASE n = 0 /\ IsAt(CRLF, rest, 1) /\ BodyRead(body, From(rest, 3)) /\ UNCHANGED <<todo, cut>>
  <2>1. /\ rest \in Seq(Symbols(script)) /\ todo \in Seq(Symbols(script)) /\ Len(rest) \in Nat
    BY <1>6 DEF IsStream
  <2>2. Len(rest) >= 2 /\ rest[1].t = "cr"
    BY <1>14, <2>1, Patterns
  <2>3. /\ Len(v) \in Nat /\ Len(v) >= 2 /\ v # <<>> /\ v[1] = rest[1]
    <3>1. /\ Len(rest) <= Len(rest \o todo) /\ Len(rest \o todo) \in Nat
          /\ \A j \in 1 .. Len(rest) : (rest \o todo)[j] = rest[j]
      BY <2>1, Buffered
    <3>2. Len(v) \in Nat /\ Len(v) >= 2 /\ v[1] = rest[1]
      BY <3>1, <2>1, <2>2, <1>6
    <3> QED
      BY <3>2
  <2>4. v[1] = Cr("end", req, k)
    <3>1. v[1] = IF script[req].trailer THEN Text("trailer", req, k) ELSE Cr("end", req, k)
      <4>1. ~(k < script[req].len)
        BY <1>4, <1>11, <1>14 DEF len
      <4> QED
        BY <4>1, <1>5, <2>3, Lines
    <3>2. Text("trailer", req, k).t = "text"
      BY SymbolFields DEF Text
    <3> QED
      BY <3>1, <3>2, <2>2, <2>3
  <2> DEFINE u == From(v, 3)
  <2>5. u # <<>> => u[1] = First(script, req + 1)
    BY <1>6, <2>3, <2>4, EndRead
  <2>6. /\ IsStream(script, From(rest, 3), todo) /\ From(rest, 3) \o todo = u
        /\ u \in Seq(Symbols(script))
    <3>1. 3 \in 1 .. Len(rest) + 1
      BY <2>1, <2>2
    <3>2. /\ IsStream(script, From(rest, 3), todo) /\ From(rest, 3) \o todo = From(rest \o todo, 3)
          /\ From(rest \o todo, 3) \in Seq(Symbols(script))
      <4> DEFINE i == 3
      <4>1. i \in 1 .. Len(rest) + 1 /\ IsStream(script, rest, todo)
        BY <3>1, <1>6
      <4> HIDE DEF i
      <4>2. /\ IsStream(script, From(rest, i), todo) /\ From(rest, i) \o todo = From(rest \o todo, i)
            /\ From(rest \o todo, i) \in Seq(Symbols(script))
        BY <4>1, StreamDrops
      <4> QED
        BY <4>2 DEF i
    <3> QED
      BY <3>2, <1>6
  <2> HIDE DEF u
  <2>7. u # <<>> => /\ u[1].t = "text"
                    /\ u[1].line = "head" => u[1] = First(script, u[1].r) /\ u[1].r > req
                    /\ ~cut => u[1] = First(script, req + 1)
    BY <1>2, <2>5, <2>6, ThenNext
  <2>8. /\ IsStream(script, From(rest, 3), todo') /\ From(rest, 3) \o todo' = u
        /\ BodyRead(body, From(rest, 3)) /\ cut' = cut
    BY <1>14, <2>6
  <2>9. body = Prefix(req, script[req].len)
    BY <1>4, <1>11, <1>14 DEF len
  <2> QED
    BY <1>1, <1>2, <2>7, <2>8, <2>9, BodyReadStep
<1>15. CASE /\ n = 0 /\ buffer' = rest /\ pc' = "last" /\ cut' = (cut \/ ~script[req].trailer)
            /\ UNCHANGED <<vars, client, todo, req, body, size, handled, answered, answer>>
  <2>1. /\ buffer' = rest /\ pc' = "last" /\ script' = script /\ todo' = todo
        /\ req' = req /\ body' = body /\ handled' = handled /\ answered' = answered
        /\ answer' = answer /\ cut' = (cut \/ ~script[req].trailer)
    BY <1>15 DEF client
  <2>2. Unread' = v
    BY <2>1, <1>6 DEF Unread
  <2>3. cut' \in BOOLEAN /\ (~cut' => ~cut /\ script[req].trailer)
    BY <1>2, <1>4, <2>1
  <2>4. AtLast(script, v, req, body, cut')
    <3>1. k = script[req].len
      BY <1>11, <1>15 DEF len
    <3> QED
      BY <3>1, <1>4, <1>5, <2>3 DEF AtLast
  <2>5. StreamInv'
    BY <1>6, <2>1, <2>3 DEF HttpInv, StreamInv
  <2>6. HandledInv'
    <3>1. InOrder(script, handled, cut)
      BY DEF HttpInv, HandledInv
    <3>2. InOrder(script, handled, cut')
      BY <3>1, <2>3 DEF InOrder
    <3> QED
      BY <3>2, <2>1 DEF HandledInv
  <2>7. PlaceInv'
    BY <1>2, <2>1, <2>2, <2>3, <2>4 DEF PlaceInv, Framed, Serving
  <2>8. AnswerInv'
    BY <1>1, <2>1, <2>3 DEF HttpInv, AnswerInv, Serving
  <2> QED
    BY <2>5, <2>6, <2>7, <2>8 DEF HttpInv
<1> QED
  BY <1>9, <1>12, <1>13, <1>14, <1>15

LEMMA StatusFields ==
    ASSUME NEW s
    PROVE  Status(s).of = req /\ Status(s).status = s
  BY DEF Status

\* The back ends: whatever they answer, it answers the last request.
LEMMA ServingStep ==
    ASSUME HttpInv, Limit \/ Route \/ FileServer \/ Proxy \/ CopyEnds \/ WriteEnds
    PROVE  HttpInv'
<1>1. CASE Limit
  <2>1. pc = "limit" /\ (Respond(Status(429)) \/ Move("route"))
    BY <1>1 DEF Limit
  <2> QED
    BY <2>1, StatusFields, MoveStep, RespondStep DEF Serving
<1>2. CASE Route
  <2>1. /\ pc = "route"
        /\ \/ Move("closed") \/ Move("reverse_proxy") \/ Move("file_server")
           \/ Respond(Status(401)) \/ Respond(Status(404))
    BY <1>2 DEF Route
  <2> QED
    BY <2>1, StatusFields, MoveStep, RespondStep DEF Serving
<1>3. CASE FileServer
  <2>1. /\ pc = "file_server"
        /\ \/ Move("closed") \/ \E a : a.of = req /\ a.status # 400 /\ Respond(a)
    <3>1. pc = "file_server"
      BY <1>3 DEF FileServer
    <3>2. CASE Respond(Status(404)) \/ Respond(Status(200)) \/ Respond(Status(304)) \/ Move("closed")
      BY <3>1, <3>2, StatusFields
    <3>3. ASSUME NEW len \in 0 .. MaxFile,
                 LET range == script[req].range
                     part == parse_range(range, len)
                 IN IF range = NoRange THEN Respond([Status(200) EXCEPT !.len = len])
                    ELSE IF part = <<>> THEN Respond([Status(416) EXCEPT !.len = len])
                    ELSE \/ LongSuffix(range, len) /\ Move("closed")
                         \/ part[1] >= U64 \div 2 /\ Move("closed")
                         \/ /\ part[1] < U64 \div 2
                            /\ Respond([of |-> req, status |-> 206, part |-> part, len |-> len])
          PROVE  Move("closed") \/ \E a : a.of = req /\ a.status # 400 /\ Respond(a)
      <4>1. /\ [Status(200) EXCEPT !.len = len].of = req
            /\ [Status(200) EXCEPT !.len = len].status = 200
            /\ [Status(416) EXCEPT !.len = len].of = req
            /\ [Status(416) EXCEPT !.len = len].status = 416
        BY DEF Status
      <4> DEFINE part == parse_range(script[req].range, len)
                 x == [Status(200) EXCEPT !.len = len]
                 y == [Status(416) EXCEPT !.len = len]
                 z == [of |-> req, status |-> 206, part |-> part, len |-> len]
      <4>2. x.of = req /\ x.status # 400 /\ y.of = req /\ y.status # 400
        BY <4>1
      <4>3. z.of = req /\ z.status # 400
        OBVIOUS
      <4>4. Respond(x) \/ Respond(y) \/ Move("closed") \/ Respond(z)
        BY <3>3
      <4> HIDE DEF x, y, z
      <4> QED
        BY <4>2, <4>3, <4>4
    <3> QED
      BY <1>3, <3>1, <3>2, <3>3 DEF FileServer
  <2> QED
    BY <2>1, MoveStep, RespondStep DEF Serving
<1>4. CASE Proxy
  <2>1. CASE Respond(Status(502))
    BY <1>4, <2>1, StatusFields, RespondStep DEF Serving, Proxy
  <2>2. CASE /\ answer' = Status(200) /\ answered' = answered + 1 /\ pc' = "copy"
             /\ UNCHANGED <<client, todo, buffer, req, body, size, handled, cut>>
    BY <1>4, <2>2, StatusFields, AnswerStep DEF Serving, Proxy
  <2> QED
    BY <1>4, <2>1, <2>2 DEF Proxy
<1>5. CASE CopyEnds
  <2>1. pc = "copy" /\ (Move("closed") \/ (Move("parse") /\ script[req].keep))
    BY <1>5 DEF CopyEnds, Goto
  <2> QED
    BY <2>1, MoveStep
<1>6. CASE WriteEnds
  <2>1. /\ pc \in {"write", "refuse"}
        /\ Move("closed") \/ (pc = "write" /\ Move(Goto(req)))
    BY <1>6 DEF WriteEnds
  <2>2. Goto(req) = "closed" \/ (Goto(req) = "parse" /\ script[req].keep)
    BY DEF Goto
  <2> QED
    BY <2>1, <2>2, MoveStep
<1> QED
  BY <1>1, <1>2, <1>3, <1>4, <1>5, <1>6

LEMMA HttpNext_HttpInv == HttpInv /\ [HttpNext]_allVars => HttpInv'
<1> SUFFICES ASSUME HttpInv, [HttpNext]_allVars PROVE HttpInv'
  OBVIOUS
<1>1. CASE UNCHANGED httpVars
  <2>1. /\ pc' = pc /\ script' = script /\ todo' = todo /\ buffer' = buffer /\ req' = req
        /\ body' = body /\ size' = size /\ handled' = handled /\ answered' = answered
        /\ answer' = answer /\ cut' = cut /\ Unread' = Unread
    BY <1>1 DEF httpVars, Unread
  <2>2. StreamInv' /\ HandledInv' /\ PlaceInv' /\ AnswerInv'
    BY <2>1 DEF HttpInv, StreamInv, HandledInv, PlaceInv, AnswerInv
  <2> QED
    BY <2>2 DEF HttpInv
<1>2. CASE Serve
  <2>1. CASE ParsePartial
    <3>1. pc = "parse" /\ Move("read")
      BY <2>1 DEF ParsePartial
    <3> QED
      BY <3>1, MoveStep
  <2> QED
    BY <1>2, <2>1, ParseStep, ParseErrorStep, TakeLengthStep, TakeSizeStep, TakeDataStep,
       TakeLastStep, ServingStep DEF Serve
<1>3. CASE IdleTimeout
  <2>1. Move("closed")
    BY <1>3 DEF IdleTimeout
  <2> QED
    BY <2>1, MoveStep
<1>4. CASE ReadEnd
  BY <1>4, ReadEndStep
<1>5. CASE Proxy \/ CopyEnds \/ WriteEnds
  BY <1>5, ServingStep
<1>6. CASE Elsewhere
  BY <1>1, <1>6 DEF Elsewhere
<1>7. ASSUME NEW k \in 1 .. Len(todo), Read(k) PROVE HttpInv'
  BY <1>7, ReadStep
<1>8. UNCHANGED allVars => UNCHANGED httpVars
  BY DEF allVars
<1> QED
  BY <1>1, <1>2, <1>3, <1>4, <1>5, <1>6, <1>7, <1>8 DEF HttpNext

\* Whatever is pipelined and however it is cut into reads, the place in
\* serve_connection, read_body and read_chunked_body, the bytes left in the
\* buffer and what was taken from it fit together.
THEOREM HttpInvariant == HttpSpec => []HttpInv
  BY HttpInit_HttpInv, HttpNext_HttpInv, PTL DEF HttpSpec

\* For every script, every way TCP cuts it and every configuration, the server
\* and its client agree on where each request and each body begins and ends,
\* and every response answers the request it is written for.
THEOREM ConversationStaysInSync == HttpSpec => []ConversationInSync
<1>1. HttpInv => ConversationInSync
  <2> SUFFICES ASSUME HttpInv PROVE ConversationInSync
    OBVIOUS
  <2>1. /\ handled \in Seq([of : 1 .. Len(script), body : Seq(Symbols(script))])
        /\ \A i \in 1 .. Len(handled) :
              /\ handled[i].body = Prefix(handled[i].of, script[handled[i].of].len)
              /\ i > 1 => handled[i - 1].of < handled[i].of /\ script[handled[i - 1].of].keep
              /\ ~cut => handled[i].of = i
    BY DEF HttpInv, HandledInv, InOrder
  <2>2. DOMAIN handled = 1 .. Len(handled) /\ Len(handled) \in Nat
    BY <2>1
  <2>3. \A r : Body(r) = Prefix(r, script[r].len)
    BY DEF Body, Prefix
  <2>4. /\ answered \in Nat
        /\ \/ answered = Len(handled) /\ pc \notin Serving
           \/ answered + 1 = Len(handled) /\ pc \in Serving \cup {"closed"}
        /\ answer.of # 0 => answer.of = handled[answered].of
        /\ answer.status = 400 => (~cut => script[Len(handled) + 1].framing = "junk")
    BY DEF HttpInv, AnswerInv
  <2>5. \A i \in DOMAIN handled :
           /\ handled[i].body = Body(handled[i].of)
           /\ i > 1 => handled[i - 1].of < handled[i].of /\ script[handled[i - 1].of].keep
    BY <2>1, <2>2, <2>3
  <2>6. LET pending == Len(handled) - answered
        IN pending = (IF pc \in {"limit", "route", "file_server", "reverse_proxy"} THEN 1 ELSE 0)
           \/ (pending = 1 /\ pc = "closed")
    <3>1. CASE answered = Len(handled) /\ pc \notin Serving
      <4>1. Len(handled) - answered = 0
        BY <2>2, <3>1
      <4> QED
        BY <3>1, <4>1 DEF Serving
    <3>2. CASE answered + 1 = Len(handled) /\ pc \in Serving \cup {"closed"}
      <4>1. Len(handled) - answered = 1
        <5>1. answered \in Nat
          BY <2>4
        <5> QED
          BY <5>1, <3>2
      <4> QED
        BY <3>2, <4>1 DEF Serving
    <3> QED
      BY <2>4, <3>1, <3>2
  <2>7. ~cut => /\ \A i \in DOMAIN handled : handled[i].of = i
                /\ answer.status = 400 => script[Len(handled) + 1].framing = "junk"
    BY <2>1, <2>2, <2>4
  <2> QED
    BY <2>4, <2>5, <2>6, <2>7 DEF ConversationInSync
<1> QED
  BY <1>1, HttpInvariant, PTL

-----------------------------------------------------------------------------
(* Ranges *)

\* parse_range finds the part of a file that a Range header asks for, and none
\* only if it asks for none; a suffix longer than the file starts beyond its end.
LEMMA RangeParsed ==
    ASSUME NEW range, {range.from, range.to} \subseteq -1 .. U64, NEW len \in 0 .. MaxFile
    PROVE  LET part == parse_range(range, len) IN
           /\ part = <<>> => Wanted(range, len) = {}
           /\ part # <<>> /\ ~LongSuffix(range, len) =>
                 part[1] .. part[2] = Wanted(range, len) /\ part[1] .. part[2] # {}
           /\ part # <<>> /\ LongSuffix(range, len) => part[1] .. part[2] = {}
<1> DEFINE from == range.from
           to == range.to
           bad == Unparsable(range)
           part == parse_range(range, len)
           wanted == Wanted(range, len)
<1>1. /\ from \in Nat \cup {-1} /\ to \in Nat \cup {-1} /\ len \in Nat
      /\ U64 \in Nat /\ len < U64
  BY FileAssumption
<1>2. \A x : x \in wanted <=>
         /\ x \in 0 .. len - 1 /\ ~bad
         /\ IF from = -1 THEN x >= len - to ELSE x >= from /\ (to = -1 \/ x <= to)
  BY DEF Wanted
<1> DEFINE end == IF to = -1 \/ to > len - 1 THEN len - 1 ELSE to
<1>3. part = IF bad \/ len = 0 THEN <<>>
             ELSE IF from = -1
             THEN IF to \in {-1, 0} THEN <<>> ELSE <<(len - to) % U64, len - 1>>
             ELSE IF from < len /\ from <= end THEN <<from, end>> ELSE <<>>
  BY DEF parse_range
<1>4. \A a, b : <<a, b>> # <<>> /\ <<a, b>>[1] = a /\ <<a, b>>[2] = b
  OBVIOUS
<1>5. LongSuffix(range, len) <=> from = -1 /\ to > len
  BY DEF LongSuffix
<1> HIDE DEF from, to, bad, part, wanted
<1>6. CASE part = <<>>
  <2>1. ASSUME NEW x \in wanted PROVE FALSE
    <3>1. /\ x \in 0 .. len - 1 /\ ~bad
          /\ IF from = -1 THEN x >= len - to ELSE x >= from /\ (to = -1 \/ x <= to)
      BY <1>2, <2>1
    <3>2. len # 0
      BY <1>1, <3>1
    <3>3. CASE from = -1
      <4>1. to \in {-1, 0}
        BY <1>3, <1>4, <1>6, <3>1, <3>2, <3>3
      <4> QED
        BY <1>1, <3>1, <3>3, <4>1
    <3>4. CASE from # -1
      <4>1. ~(from < len /\ from <= end)
        BY <1>3, <1>4, <1>6, <3>1, <3>2, <3>4
      <4> QED
        BY <1>1, <3>1, <3>4, <4>1
    <3> QED
      BY <3>3, <3>4
  <2> QED
    BY <2>1, <1>6 DEF part, wanted
<1>7. CASE part # <<>> /\ LongSuffix(range, len)
  <2>1. from = -1 /\ to > len /\ ~bad /\ len # 0
    BY <1>3, <1>5, <1>7
  <2>2. to # U64
    BY <2>1 DEF bad, to, Unparsable
  <2>3. to \in Nat /\ to <= U64 - 1
    <3>1. to \in -1 .. U64
      BY DEF to
    <3> QED
      BY <1>1, <2>1, <2>2, <3>1
  <2>4. part = <<(len - to) % U64, len - 1>>
    BY <1>1, <1>3, <1>4, <1>7, <2>1, <2>3
  <2>5. (len - to) % U64 = len - to + U64
    BY <1>1, <2>1, <2>3
  <2>6. part[1] = len - to + U64 /\ part[2] = len - 1
    BY <1>4, <2>4, <2>5
  <2>7. part[1] .. part[2] = {}
    BY <1>1, <2>3, <2>6
  <2> QED
    BY <1>7, <2>7 DEF part
<1>8. CASE part # <<>> /\ ~LongSuffix(range, len)
  <2> SUFFICES ASSUME ~LongSuffix(range, len)
               PROVE  part[1] .. part[2] = wanted /\ part[1] .. part[2] # {}
    BY <1>8 DEF part, wanted
  <2>0. ~bad /\ len # 0
    BY <1>3, <1>8
  <2>1. CASE from = -1
    <3>1. part = <<(len - to) % U64, len - 1>> /\ to \in Nat /\ to # 0 /\ to <= len
      BY <1>1, <1>3, <1>5, <1>8, <2>0, <2>1
    <3>2. (len - to) % U64 = len - to
      BY <1>1, <3>1
    <3>3. part[1] = len - to /\ part[2] = len - 1
      BY <3>1, <3>2, <1>4
    <3>4. /\ \A x : x \in (len - to) .. (len - 1) <=> x \in 0 .. len - 1 /\ x >= len - to
          /\ len - 1 \in (len - to) .. (len - 1)
      BY <3>1, <1>1
    <3> QED
      BY <3>3, <3>4, <2>0, <2>1, <1>2
  <2>2. CASE from # -1
    <3>1. part = <<from, end>> /\ from \in Nat /\ from < len /\ from <= end
      BY <1>1, <1>3, <1>8, <2>0, <2>2
    <3>2. part[1] = from /\ part[2] = end
      BY <3>1, <1>4
    <3>3. /\ \A x : x \in from .. end <=> x \in 0 .. len - 1 /\ x >= from /\ (to = -1 \/ x <= to)
          /\ from \in from .. end
      BY <3>1, <1>1
    <3> QED
      BY <3>2, <3>3, <2>0, <2>2, <1>2
  <2> QED
    BY <2>1, <2>2
<1> QED
  BY <1>6, <1>7, <1>8 DEF part, wanted

\* A partial or refused response comes from parse_range, for a request with a
\* Range header.
RangeInv ==
    answer.status \in {206, 416} =>
       LET range == script[answer.of].range
           part == parse_range(range, answer.len)
       IN /\ answer.of \in 1 .. Len(script) /\ range # NoRange /\ answer.len \in 0 .. MaxFile
          /\ answer.status = 206 => answer.part = part /\ part # <<>>
          /\ answer.status = 416 => part = <<>>

\* A response without a part.
LEMMA OtherAnswer ==
    ASSUME RangeInv, script' = script, NEW a, a.status \notin {206, 416}, answer' = a \/ answer' = answer
    PROVE  RangeInv'
  BY DEF RangeInv

LEMMA FileServerRange ==
    ASSUME HttpInv, RangeInv, FileServer
    PROVE  RangeInv'
<1>1. script' = script
  BY DEF FileServer, Respond, Move, client
<1>2. pc = "file_server" /\ req \in 1 .. Len(script)
  <2>1. pc = "file_server"
    BY DEF FileServer
  <2>2. handled # <<>> /\ req = LastOf(handled)
    BY <2>1 DEF HttpInv, PlaceInv, Serving
  <2>3. handled \in Seq([of : 1 .. Len(script), body : Seq(Symbols(script))])
    BY DEF HttpInv, HandledInv, InOrder
  <2>4. Len(handled) \in 1 .. Len(handled)
    BY <2>2, <2>3, EmptySeq
  <2>5. handled[Len(handled)].of \in 1 .. Len(script)
    <3> DEFINE H == [of : 1 .. Len(script), body : Seq(Symbols(script))]
    <3>1. \A h \in H : h.of \in 1 .. Len(script)
      OBVIOUS
    <3>2. handled \in Seq(H)
      BY <2>3
    <3> HIDE DEF H
    <3>3. handled[Len(handled)] \in H
      BY <3>2, <2>4
    <3> QED
      BY <3>1, <3>3
  <2> QED
    BY <2>1, <2>2, <2>5 DEF LastOf
<1>3. ASSUME UNCHANGED answer PROVE RangeInv'
  BY <1>1, <1>3 DEF RangeInv
<1>4. ASSUME NEW s \in {200, 304, 404}, Respond(Status(s)) PROVE RangeInv'
  <2>1. Status(s).status \notin {206, 416}
    BY StatusFields
  <2> QED
    BY <2>1, <1>1, <1>4, OtherAnswer DEF Respond
<1>5. ASSUME NEW len \in 0 .. MaxFile,
             LET range == script[req].range
                 part == parse_range(range, len)
             IN IF range = NoRange THEN Respond([Status(200) EXCEPT !.len = len])
                ELSE IF part = <<>> THEN Respond([Status(416) EXCEPT !.len = len])
                ELSE \/ LongSuffix(range, len) /\ Move("closed")
                     \/ part[1] >= U64 \div 2 /\ Move("closed")
                     \/ /\ part[1] < U64 \div 2
                        /\ Respond([of |-> req, status |-> 206, part |-> part, len |-> len])
      PROVE  RangeInv'
  <2> DEFINE range == script[req].range
             part == parse_range(range, len)
             x == [Status(200) EXCEPT !.len = len]
             y == [Status(416) EXCEPT !.len = len]
             z == [of |-> req, status |-> 206, part |-> part, len |-> len]
  <2>1. CASE range = NoRange
    <3>1. x.status \notin {206, 416}
      BY DEF Status
    <3>2. Respond(x)
      BY <1>5, <2>1
    <3> QED
      BY <3>1, <3>2, <1>1, OtherAnswer DEF Respond
  <2>2. CASE range # NoRange /\ part = <<>>
    <3>1. y.status = 416 /\ y.of = req /\ y.len = len
      BY DEF Status
    <3>2. Respond(y)
      BY <1>5, <2>2
    <3> HIDE DEF y
    <3>3. CASE answer' = y
      BY <3>1, <3>3, <2>2, <1>1, <1>2 DEF RangeInv
    <3> QED
      BY <3>2, <3>3, <1>3 DEF Respond
  <2>3. CASE range # NoRange /\ part # <<>>
    <3>1. z.status = 206 /\ z.of = req /\ z.len = len /\ z.part = part
      OBVIOUS
    <3>2. Move("closed") \/ Respond(z)
      BY <1>5, <2>3
    <3> HIDE DEF z
    <3>3. CASE answer' = z
      BY <3>1, <3>3, <2>3, <1>1, <1>2 DEF RangeInv
    <3> QED
      BY <3>2, <3>3, <1>3 DEF Respond, Move
  <2> QED
    BY <2>1, <2>2, <2>3
<1>6. CASE Move("closed")
  BY <1>6, <1>3 DEF Move
<1> QED
  BY <1>4, <1>5, <1>6 DEF FileServer

LEMMA HttpNext_RangeInv == HttpInv /\ RangeInv /\ [HttpNext]_allVars => RangeInv'
<1> SUFFICES ASSUME HttpInv, RangeInv, [HttpNext]_allVars PROVE RangeInv'
  OBVIOUS
<1>1. CASE UNCHANGED <<script, answer>>
  BY <1>1 DEF RangeInv
<1>2. ASSUME NEW s \in {429, 401, 404, 502}, Respond(Status(s)) PROVE RangeInv'
  <2>1. Status(s).status \notin {206, 416}
    BY StatusFields
  <2> QED
    BY <2>1, <1>2, OtherAnswer DEF Respond, client
<1>3. ASSUME NEW place, Move(place) PROVE RangeInv'
  BY <1>1, <1>3 DEF Move, client
<1>4. CASE Serve
  <2>1. CASE ParseComplete \/ ParsePartial \/ TakeLength \/ TakeSize \/ TakeData \/ TakeLast
    BY <1>1, <2>1 DEF ParseComplete, ParsePartial, TakeLength, TakeSize, TakeData, TakeLast,
                      BodyRead, Move, client
  <2>2. CASE ParseError
    <3>1. answer'.status = 400 /\ script' = script
      BY <2>2 DEF ParseError, NoAnswer, client
    <3> QED
      BY <3>1, OtherAnswer
  <2>3. CASE Limit
    <3>1. Respond(Status(429)) \/ Move("route")
      BY <2>3 DEF Limit
    <3> QED
      BY <3>1, <1>2, <1>3
  <2>4. CASE Route
    <3>1. \/ Move("closed") \/ Move("reverse_proxy") \/ Move("file_server")
          \/ Respond(Status(401)) \/ Respond(Status(404))
      BY <2>4 DEF Route
    <3> QED
      BY <3>1, <1>2, <1>3
  <2> QED
    BY <1>4, <2>1, <2>2, <2>3, <2>4, FileServerRange DEF Serve
<1>5. CASE IdleTimeout \/ CopyEnds \/ WriteEnds
  BY <1>3, <1>5 DEF IdleTimeout, CopyEnds, WriteEnds
<1>6. CASE ReadEnd
  BY <1>1, <1>6 DEF ReadEnd, BodyRead, Move, client
<1>7. CASE Proxy
  <2>1. CASE Respond(Status(502))
    BY <1>2, <2>1
  <2>2. CASE answer' = Status(200) /\ UNCHANGED client
    <3>1. Status(200).status \notin {206, 416}
      BY StatusFields
    <3> QED
      BY <2>2, <3>1, OtherAnswer DEF client
  <2> QED
    BY <1>7, <2>1, <2>2 DEF Proxy
<1>8. CASE Elsewhere \/ UNCHANGED allVars
  BY <1>1, <1>8 DEF Elsewhere, allVars, httpVars
<1>9. ASSUME NEW k \in 1 .. Len(todo), Read(k) PROVE RangeInv'
  BY <1>1, <1>9 DEF Read, client
<1> QED
  BY <1>4, <1>5, <1>6, <1>7, <1>8, <1>9 DEF HttpNext

\* For every file and every Range header, invalid ones too, a partial response is
\* exactly the part asked for, which is not empty, and a refusal means that no
\* byte was; a suffix longer than the file, for which the subtraction of
\* parse_range overflows, gets no byte at all.
THEOREM RangesServed == HttpSpec => []RangeServed
<1>1. HttpInit => RangeInv
  BY DEF HttpInit, RangeInv, NoAnswer
<1>2. HttpInv /\ RangeInv => RangeServed
  <2> SUFFICES ASSUME HttpInv, RangeInv, answer.status \in {206, 416} PROVE RangeServed
    BY DEF RangeServed
  <2> DEFINE range == script[answer.of].range
             part == parse_range(range, answer.len)
  <2>1. /\ answer.of \in 1 .. Len(script) /\ range # NoRange /\ answer.len \in 0 .. MaxFile
        /\ answer.status = 206 => answer.part = part /\ part # <<>>
        /\ answer.status = 416 => part = <<>>
    BY DEF RangeInv
  <2>2. {range.from, range.to} \subseteq -1 .. U64
    BY <2>1, Script DEF IsRequest, HttpInv
  <2>3. /\ part = <<>> => Wanted(range, answer.len) = {}
        /\ part # <<>> /\ ~LongSuffix(range, answer.len) =>
              part[1] .. part[2] = Wanted(range, answer.len) /\ part[1] .. part[2] # {}
        /\ part # <<>> /\ LongSuffix(range, answer.len) => part[1] .. part[2] = {}
    BY <2>1, <2>2, RangeParsed
  <2>4. CASE answer.status = 206
    <3>1. IF LongSuffix(Asked, answer.len) THEN Part = {}
          ELSE Part = Wanted(Asked, answer.len) /\ Part # {}
      BY <2>1, <2>3, <2>4 DEF Asked, Part
    <3> QED
      BY <2>4, <3>1 DEF RangeServed
  <2>5. CASE answer.status = 416
    BY <2>1, <2>3, <2>5 DEF RangeServed, Asked
  <2> QED
    BY <2>4, <2>5
<1>3. QED
  BY <1>1, <1>2, HttpInvariant, HttpNext_RangeInv, PTL DEF HttpSpec
=============================================================================
