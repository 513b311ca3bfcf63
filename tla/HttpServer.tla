----------------------------- MODULE HttpServer -----------------------------
(***************************************************************************)
(* One connection of minicaddy's HTTP server (inbounds/http.rs with the    *)
(* body framing of http_proto.rs, the files of http_files.rs and the       *)
(* reverse proxy of http_proxy.rs), beside the other connections of the    *)
(* listener, which share its rate limiter (TokenBucket).                   *)
(*                                                                         *)
(* The client sends a script of requests; TCP may cut its bytes anywhere.  *)
(* What it sends is a sequence of symbols: the text of a line (a request   *)
(* head up to its last line end, a chunk size, a trailer), CR, LF, or one  *)
(* byte of a body.  A symbol knows its place, so that Succ tells which one *)
(* HTTP puts after it.  Payload is such that it cannot begin a head.       *)
(***************************************************************************)
EXTENDS TokenBucket, Sequences

SequencesExt == INSTANCE SequencesExt

CONSTANTS
    Scripts,     \* what a client may ask for: sequences of requests
    Sent(_),     \* the symbols in which it sends a script
    Configs,     \* Caddyfiles: sequences of sites
    PORT,        \* the port of this listener
    NoHost,      \* a site without a host name
    NoRange,     \* a request without a Range header
    U64,         \* 2^64 in the code
    MaxFile,     \* bound: largest file
    MaxClock     \* bound: the clock of the instance

VARIABLES
    config,      \* the Caddyfile
    script,      \* the requests of the client
    pipelined,   \* the client does not wait for answers
    todo,        \* bytes the server has not read yet
    buffer,      \* buffer, or buf while a body is read
    pc,          \* where serve_connection is
    req,         \* index in script of the request being handled
    body,        \* body of that request, as far as it is read
    size,        \* size of the chunk being read
    handled,     \* the requests and bodies read_body returned
    answered,    \* number of them whose response was begun
    answer,      \* the last response
    cut          \* a read ended inside the end of a chunked body

httpVars == <<config, script, pipelined, todo, buffer, pc, req, body, size,
              handled, answered, answer, cut>>

allVars == <<vars, httpVars>>

-----------------------------------------------------------------------------
(* What the client writes *)

\* A symbol of request r: its text, or the CR or LF that ends it.  n is the
\* number of body bytes up to it.
Symbol(t, line, r, n) == [t |-> t, line |-> line, r |-> r, n |-> n]
Text(line, r, n) == Symbol("text", line, r, n)
Cr(line, r, n) == Symbol("cr", line, r, n)
End == Symbol("none", "none", 0, 0)

\* The first symbol of request r of script s
First(s, r) ==
    IF r > Len(s) THEN End ELSE Text(IF s[r].framing = "junk" THEN "junk" ELSE "head", r, 0)

\* The symbol after a line.  A chunked body is cut at q.cuts, and ends with a
\* size of zero, a trailer perhaps, and an empty line.
AfterLine(s, line, r, n) ==
    LET q == s[r] IN
    CASE line = "junk" -> First(s, r + 1)
      [] line = "head" -> Cr("blank", r, n)
      [] line = "blank" -> IF q.framing = "chunked" THEN Text("size", r, 0)
                           ELSE IF q.len > 0 THEN Text("data", r, 1)
                           ELSE First(s, r + 1)
      [] line = "size" -> IF n < q.len THEN Text("data", r, n + 1)
                          ELSE IF q.trailer THEN Text("trailer", r, n)
                          ELSE Cr("end", r, n)
      [] line = "data" -> Text("size", r, n)
      [] line = "trailer" -> Cr("end", r, n)
      [] line = "end" -> First(s, r + 1)

Succ(s, b) ==
    CASE b.t = "cr" -> [b EXCEPT !.t = "lf"]
      [] b.t = "lf" -> AfterLine(s, b.line, b.r, b.n)
      [] b.t = "text" /\ b.line # "data" -> [b EXCEPT !.t = "cr"]
      [] b.t = "text" /\ b.line = "data" ->
            IF s[b.r].framing = "chunked" /\ b.n \in s[b.r].cuts THEN [b EXCEPT !.t = "cr"]
            ELSE IF b.n < s[b.r].len THEN [b EXCEPT !.n = @ + 1]
            ELSE First(s, b.r + 1)

Symbols(s) ==
    [t : {"text", "cr", "lf"}, r : 1 .. Len(s), n : Nat,
     line : {"head", "junk", "blank", "size", "data", "trailer", "end"}]

Chained(s, seq) == \A i \in 1 .. Len(seq) - 1 : seq[i + 1] = Succ(s, seq[i])

\* Requests with a body have a length or chunks.  A Range begins with "bytes="
\* or not; -1 is a bound left out, U64 a text that is no u64 (a second range
\* after a comma, too).
IsRequest(q) ==
    /\ q.framing \in {"none", "junk", "length", "chunked"}
    /\ q.len \in Nat /\ (q.framing \in {"none", "junk"} => q.len = 0)
    /\ q.cuts \subseteq 1 .. q.len /\ q.len \in q.cuts \cup {0}
    /\ q.trailer \in BOOLEAN /\ q.keep \in BOOLEAN
    /\ q.range # NoRange =>
          q.range.bytes \in BOOLEAN /\ {q.range.from, q.range.to} \subseteq -1 .. U64

ASSUME ScriptAssumption ==
    \A s \in Scripts : Len(s) \in Nat /\ \A r \in 1 .. Len(s) : IsRequest(s[r])

\* The length of a file is a file offset, which has a sign
ASSUME FileAssumption == U64 \in Nat /\ MaxFile \in Nat /\ MaxFile < U64 \div 2

\* The client sends its requests as HTTP writes them, perhaps not all of them
ASSUME SentAssumption ==
    \A s \in Scripts : /\ Sent(s) \in Seq(Symbols(s)) /\ Chained(s, Sent(s))
                       /\ Sent(s) # <<>> => Sent(s)[1] = First(s, 1)

\* The body the client means
Body(r) == [j \in 1 .. script[r].len |-> Text("data", r, j)]

-----------------------------------------------------------------------------
(* Configuration *)

\* run_all: the sites of one listen address; run_http: the first rate limit
SitesOf(port) == SelectSeq(config, LAMBDA s : s.port = port)
sites == SitesOf(PORT)
Limited == \E i \in DOMAIN sites : sites[i].rate_limit

\* handle_request: the site of a Host, else the first without a host name;
\* 0 when there is none
SiteFor(host) ==
    LET first(Test(_)) == SequencesExt!SelectInSeq(sites, Test)
        named == first(LAMBDA s : s.host = host)
    IN IF named # 0 THEN named ELSE first(LAMBDA s : s.host = NoHost)

-----------------------------------------------------------------------------
(* Parsing *)

CRLF == <<"cr", "lf">>

\* A pattern is at place i of a buffer
IsAt(pattern, buf, i) ==
    /\ i + Len(pattern) - 1 <= Len(buf)
    /\ \A j \in 1 .. Len(pattern) : buf[i + j - 1].t = pattern[j]

\* Its first place, 0 when it is absent (windows().position)
Position(pattern, buf) ==
    LET at == {i \in 1 .. Len(buf) : IsAt(pattern, buf, i)}
    IN IF at = {} THEN 0 ELSE CHOOSE i \in at : \A j \in at : i <= j

From(buf, i) == SubSeq(buf, i, Len(buf))

\* httparse::Request::parse: empty lines before the request line are skipped
FirstByte == Position(<<"text">>, buffer)
HeadComplete == FirstByte # 0 /\ buffer[FirstByte].line = "head" /\ Len(buffer) >= FirstByte + 4
HeadInvalid == FirstByte # 0 /\ buffer[FirstByte].line # "head"

\* A size line that is a number, and the number
IsSize(b) == b.t = "text" /\ b.line = "size" /\ b.n \notin script[b.r].bad
Size(b) ==
    LET ends == {e \in script[b.r].cuts : e > b.n}
    IN IF ends = {} THEN 0 ELSE (CHOOSE e \in ends : \A f \in ends : e <= f) - b.n

\* Header values parse_range takes for no range
Unparsable(range) == ~range.bytes \/ U64 \in {range.from, range.to}

\* Mutant: the end of the range is not limited to the file
parse_range_no_min(range, len) ==
    IF Unparsable(range) \/ len = 0 THEN <<>>
    ELSE IF range.from = -1
    THEN IF range.to \in {-1, 0} THEN <<>> ELSE <<(len - range.to) % U64, len - 1>>
    ELSE LET end == IF range.to = -1 THEN len - 1 ELSE range.to
         IN IF range.from < len /\ range.from <= end THEN <<range.from, end>> ELSE <<>>

\* parse_range; <<>> is None.  A suffix longer than the file wraps around (or
\* panics, see FileServer).
parse_range(range, len) ==
    IF Unparsable(range) \/ len = 0 THEN <<>>
    ELSE IF range.from = -1
    THEN IF range.to \in {-1, 0} THEN <<>> ELSE <<(len - range.to) % U64, len - 1>>
    ELSE LET end == IF range.to = -1 \/ range.to > len - 1 THEN len - 1 ELSE range.to
         IN IF range.from < len /\ range.from <= end THEN <<range.from, end>> ELSE <<>>

\* "bytes=-N" with N beyond the length of the file
LongSuffix(range, len) == range.from = -1 /\ range.to > len

-----------------------------------------------------------------------------
(* The connection *)

NoAnswer == [of |-> 0, status |-> 0, part |-> <<>>, len |-> 0]

HttpInit ==
    /\ Init
    /\ config \in Configs
    /\ script \in Scripts
    /\ pipelined \in BOOLEAN
    /\ todo = Sent(script)
    /\ buffer = <<>>
    /\ pc = "parse"
    /\ req = 0 /\ body = <<>> /\ size = 0
    /\ handled = <<>> /\ answered = 0 /\ answer = NoAnswer
    /\ cut = FALSE

client == <<config, script, pipelined>>

\* A step that only changes where the loop is
Move(place) ==
    /\ pc' = place
    /\ UNCHANGED <<client, todo, buffer, req, body, size, handled, answered, answer, cut>>

\* The loop goes on unless the request asked for Connection: close
Goto(r) == IF script[r].keep THEN "parse" ELSE "closed"

\* A response is begun
Respond(a) ==
    /\ answer' = a
    /\ answered' = answered + 1
    /\ pc' = "write"
    /\ UNCHANGED <<client, todo, buffer, req, body, size, handled, cut>>

Status(s) == [of |-> req, status |-> s, part |-> <<>>, len |-> 0]

\* A complete head: read_body starts with what follows it
ParseComplete ==
    /\ pc = "parse" /\ HeadComplete
    /\ req' = buffer[FirstByte].r
    /\ buffer' = From(buffer, FirstByte + 5)
    /\ pc' = IF script[req'].framing = "chunked" THEN "size" ELSE "length"
    /\ body' = <<>>
    /\ UNCHANGED <<vars, client, todo, size, handled, answered, answer, cut>>

\* An invalid head: 400 is begun, and then the connection is closed
ParseError ==
    /\ pc = "parse" /\ HeadInvalid
    /\ answer' = [NoAnswer EXCEPT !.status = 400]
    /\ pc' = "refuse"
    /\ UNCHANGED <<vars, client, todo, buffer, req, body, size, handled, answered, cut>>

ParsePartial ==
    /\ pc = "parse" /\ ~HeadComplete /\ ~HeadInvalid
    /\ Move("read")
    /\ UNCHANGED vars

ContentLength(r) == IF script[r].framing = "length" THEN script[r].len ELSE 0

\* The loops that read from the socket: the keep-alive loop, the body of a
\* known length, a chunk-size line, a chunk and the trailers
Starved ==
    \/ pc = "read"
    \/ pc = "length" /\ Len(buffer) < ContentLength(req)
    \/ pc = "size" /\ Position(CRLF, buffer) = 0
    \/ pc = "data" /\ Len(buffer) < size + 2
    \/ pc = "last" /\ Position(CRLF \o CRLF, buffer) = 0

\* A read returns the next k bytes.  A client that does not pipeline sends a
\* request when the one before is answered.
Read(k) ==
    /\ Starved
    /\ pipelined \/ \A j \in 1 .. k : todo[j].line = "head" => todo[j].r <= answered + 1
    /\ buffer' = buffer \o SubSeq(todo, 1, k)
    /\ todo' = From(todo, k + 1)
    /\ pc' = IF pc = "read" THEN "parse" ELSE pc
    /\ UNCHANGED <<vars, client, req, body, size, handled, answered, answer, cut>>

\* read_body returns the body and what is left
BodyRead(b, leftover) ==
    /\ body' = b
    /\ buffer' = leftover
    /\ handled' = Append(handled, [of |-> req, body |-> b])
    /\ pc' = "limit"
    /\ UNCHANGED <<vars, client, req, size, answered, answer>>

\* A read returns 0 or fails: the connection ends, except after the last
\* chunk, where the end of the stream also ends the trailers
ReadEnd ==
    /\ Starved
    /\ \/ Move("closed") /\ UNCHANGED vars
       \/ pc = "last" /\ BodyRead(body, <<>>) /\ todo' = <<>> /\ UNCHANGED cut

\* Mutant: the timer only guards a head that has begun
IdleTimeout_in_head ==
    /\ pc = "read" /\ buffer # <<>>
    /\ Move("closed")
    /\ UNCHANGED vars

\* Only the keep-alive loop reads under a timeout
IdleTimeout ==
    /\ pc = "read"
    /\ Move("closed")
    /\ UNCHANGED vars

\* Mutant: what was read beyond the body is dropped
TakeLength_drops_rest ==
    /\ pc = "length" /\ ~Starved
    /\ BodyRead(SubSeq(buffer, 1, ContentLength(req)), <<>>)
    /\ UNCHANGED <<todo, cut>>

\* A body of a known length
TakeLength ==
    /\ pc = "length" /\ ~Starved
    /\ BodyRead(SubSeq(buffer, 1, ContentLength(req)), From(buffer, ContentLength(req) + 1))
    /\ UNCHANGED <<todo, cut>>

\* A chunk-size line.  After the last one the body ends at once when the empty
\* line is there already; otherwise everything up to an empty line is skipped.
TakeSize ==
    /\ pc = "size" /\ ~Starved
    /\ LET rest == From(buffer, Position(CRLF, buffer) + 2)
           n == Size(buffer[1])
       IN \/ ~IsSize(buffer[1]) /\ Move("closed") /\ UNCHANGED vars
          \/ /\ IsSize(buffer[1]) /\ n > 0
             /\ buffer' = rest
             /\ size' = n
             /\ pc' = "data"
             /\ UNCHANGED <<vars, client, todo, req, body, handled, answered, answer, cut>>
          \/ /\ IsSize(buffer[1]) /\ n = 0 /\ IsAt(CRLF, rest, 1)
             /\ BodyRead(body, From(rest, 3))
             /\ UNCHANGED <<todo, cut>>
          \/ /\ IsSize(buffer[1]) /\ n = 0 /\ ~IsAt(CRLF, rest, 1)
             /\ buffer' = rest
             /\ pc' = "last"
             /\ cut' = (cut \/ ~script[req].trailer)
             /\ UNCHANGED <<vars, client, todo, req, body, size, handled, answered, answer>>

TakeData ==
    /\ pc = "data" /\ ~Starved
    /\ body' = body \o SubSeq(buffer, 1, size)
    /\ buffer' = From(buffer, size + 3)
    /\ pc' = "size"
    /\ UNCHANGED <<vars, client, todo, req, size, handled, answered, answer, cut>>

TakeLast ==
    /\ pc = "last" /\ ~Starved
    /\ BodyRead(body, From(buffer, Position(CRLF \o CRLF, buffer) + 4))
    /\ UNCHANGED <<todo, cut>>

\* The rate limiter, shared with the other connections: 429 when it refuses
Limit ==
    /\ pc = "limit"
    /\ IF Limited THEN try_consume ELSE UNCHANGED vars
    /\ IF Limited /\ Charged(Refill) = 0
       THEN Respond(Status(429))
       ELSE Move("route")

\* The site and its back end.  Without a site the task panics.
Route ==
    /\ pc = "route"
    /\ LET i == SiteFor(script[req].host)
       IN IF i = 0 THEN Move("closed")
          ELSE IF sites[i].basic_auth /\ ~script[req].auth THEN Respond(Status(401))
          ELSE IF sites[i].backend = "reverse_proxy" THEN Move("reverse_proxy")
          ELSE IF sites[i].backend = "file_server" THEN Move("file_server")
          ELSE Respond(Status(404))
    /\ UNCHANGED vars

\* reverse_proxy: the upstream server refuses, closes, or answers with a head
\* that is not complete and valid in the first read: 502.  Any other failure
\* ends the connection.  Otherwise the response is passed on as it comes.
Proxy ==
    /\ pc = "reverse_proxy"
    /\ \/ Respond(Status(502))
       \/ /\ answer' = Status(200)
          /\ answered' = answered + 1
          /\ pc' = "copy"
          /\ UNCHANGED <<client, todo, buffer, req, body, size, handled, cut>>
    /\ UNCHANGED vars

\* The upstream server closes its connection, or one of the two fails
CopyEnds ==
    /\ pc = "copy"
    /\ Move(Goto(req)) \/ Move("closed")
    /\ UNCHANGED vars

\* file_server, with the file it finds: missing, a directory, or a length
FileServer ==
    /\ pc = "file_server"
    /\ LET range == script[req].range IN
          \/ Respond(Status(404))
          \/ Respond(Status(200))                       \* a directory
          \/ Move("closed")                             \* open, metadata
          \/ script[req].etag /\ Respond(Status(304))
          \/ \E len \in 0 .. MaxFile :
                LET part == parse_range(range, len)
                IN IF range = NoRange THEN Respond([Status(200) EXCEPT !.len = len])
                   ELSE IF part = <<>> THEN Respond([Status(416) EXCEPT !.len = len])
                   ELSE \/ LongSuffix(range, len) /\ Move("closed")   \* a debug build panics
                        \/ part[1] >= U64 \div 2 /\ Move("closed")    \* seek refuses
                        \/ /\ part[1] < U64 \div 2
                           /\ Respond([of |-> req, status |-> 206, part |-> part, len |-> len])
    /\ UNCHANGED vars

\* The response is written whole and the loop goes on, or the write fails and
\* the connection ends.  No write has a timeout.
WriteEnds ==
    /\ pc \in {"write", "refuse"}
    /\ (pc = "write" /\ Move(Goto(req))) \/ Move("closed")
    /\ UNCHANGED vars

\* What happens to the limiter elsewhere: time passes, other connections ask
\* it, an observer looks at it
Elsewhere ==
    /\ Limited
    /\ \/ try_consume
       \/ \E d \in 1 .. MaxStep : clock + d <= MaxClock /\ Elapse(d)
       \/ Observe
    /\ UNCHANGED httpVars

\* Steps the server takes on its own
Serve ==
    \/ ParseComplete \/ ParseError \/ ParsePartial
    \/ TakeLength \/ TakeSize \/ TakeData \/ TakeLast
    \/ Limit \/ Route \/ FileServer

HttpNext ==
    \/ Serve \/ IdleTimeout \/ ReadEnd \/ WriteEnds \/ Proxy \/ CopyEnds \/ Elsewhere
    \/ \E k \in 1 .. Len(todo) : Read(k)

\* The server runs and the idle timer runs out.  Of the client nothing is
\* assumed: it may stop sending or reading anywhere, and never close.  Nor is it
\* that an upstream server answers or closes.
HttpSpec ==
    /\ HttpInit /\ [][HttpNext]_allVars
    /\ WF_allVars(Serve)
    /\ WF_allVars(IdleTimeout)

-----------------------------------------------------------------------------
(* Properties *)

\* The requests handled are requests of the client, in its order, each with
\* its body to the byte, and after one with Connection: close there is none;
\* each is answered before the next head is looked at; only an invalid head
\* gets a 400.  No request is skipped, unless the end of a chunked body came
\* in two reads (see PipelineInSync).
ConversationInSync ==
    /\ \A i \in DOMAIN handled :
          /\ handled[i].body = Body(handled[i].of)
          /\ i > 1 => handled[i - 1].of < handled[i].of /\ script[handled[i - 1].of].keep
    /\ LET pending == Len(handled) - answered
       IN pending = (IF pc \in {"limit", "route", "file_server", "reverse_proxy"} THEN 1 ELSE 0)
          \/ (pending = 1 /\ pc = "closed")
    /\ answer.of # 0 => answer.of = handled[answered].of
    /\ ~cut => /\ \A i \in DOMAIN handled : handled[i].of = i
               /\ answer.status = 400 => script[Len(handled) + 1].framing = "junk"

\* Every request of the client, pipelined or not, is handled in its turn: what
\* follows a chunked body in the buffer is left for the next request.
PipelineInSync == \A i \in DOMAIN handled : handled[i].of = i

\* The bytes of a file a Range header asks for
Wanted(range, len) ==
    {x \in 0 .. len - 1 : /\ ~Unparsable(range)
                          /\ IF range.from = -1
                             THEN x >= len - range.to
                             ELSE x >= range.from /\ (range.to = -1 \/ x <= range.to)}

\* The header of a request and the bytes its partial response carries
Asked == script[answer.of].range
Part == answer.part[1] .. answer.part[2]

\* A partial response is exactly the part of the file that the Range header
\* asks for, which is not empty, and 416 is answered only when the header is
\* invalid or asks for no byte of the file.  For a suffix longer than the file
\* the response, if there is one, carries nothing: the start that has wrapped
\* around is beyond the end (see SuffixServed).
RangeServed ==
    /\ answer.status = 206 =>
          IF LongSuffix(Asked, answer.len) THEN Part = {}
          ELSE Part = Wanted(Asked, answer.len) /\ Part # {}
    /\ answer.status = 416 => Wanted(Asked, answer.len) = {}

\* Whatever the client does, the connection ends, or one of the waits for which
\* there is no timeout goes on: for the client to read a response, for it to
\* send the rest of a body it has not sent whole, for an upstream server, or,
\* after a chunked body whose end was cut, for an empty line already gone.
Waits ==
    \/ pc \in {"write", "refuse", "reverse_proxy", "copy"}
    \/ pc \in {"length", "size", "data", "last"} /\ Starved /\ todo # <<>>
    \/ pc = "last" /\ cut

ConnectionEnds == <>[](pc = "closed" \/ Waits)

-----------------------------------------------------------------------------
(* What REPORT.md says and the code does not do *)

\* "Range 206: bytes=N-M and the suffix bytes=-N" (REPORT.md:72): a partial
\* response has the bytes asked for, the last N of them for a suffix, which are
\* all of them when the file is shorter.
SuffixServed == answer.status = 206 => Part = Wanted(Asked, answer.len)
=============================================================================
