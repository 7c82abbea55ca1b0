----------------------------- MODULE Connection -----------------------------
(***************************************************************************)
(* One accepted connection: connection.rs `handle`, the task that reads    *)
(* requests off the socket into one growing buffer, calls the handler for  *)
(* each and writes the answers.  A step is the code between two awaits.    *)
(*                                                                         *)
(* A byte is its offset in the stream the client sends; what it says is    *)
(* abstracted to the request it belongs to (`cur`, the request that begins *)
(* at offset `start`).  The next request of a pipelined stream is chosen   *)
(* when the server gets to it, which loses no stream.                      *)
(***************************************************************************)
EXTENDS Integers

CONSTANTS
  InitBuf,        \* INITIAL_BUF_CAPACITY
  MaxBuf,         \* MAX_BUF_CAPACITY
  MaxBody,        \* MAX_BODY_CAPACITY
  MaxKeepalive,   \* max_keepalive
  RecvBuf,        \* bytes the kernel holds for the socket: the most one read returns
  MaxChunks,      \* bound: chunks a spooled response body is written in
  Requests        \* what a client may send

(***************************************************************************)
(* hdr is the length of the request line and headers, for a malformed      *)
(* request the offset at which httparse or content_length gives up; body   *)
(* is the declared Content-Length.                                         *)
(***************************************************************************)
Kinds == {"plain", "head", "bad_utf8", "malformed"}

ASSUME BufAssumption == /\ InitBuf \in Nat \ {0}
                        /\ MaxBuf \in Nat
                        /\ InitBuf <= MaxBuf
                        /\ MaxBody \in Nat
                        /\ RecvBuf \in Nat \ {0}
                        /\ MaxKeepalive \in Nat
                        /\ MaxChunks \in Nat

ASSUME RequestsAssumption ==
  /\ Requests \subseteq [hdr : Nat \ {0}, body : Nat, kind : Kinds]
  /\ Requests # {}

VARIABLES
  pc,         \* where the task stands
  outcome,    \* why it returned ("open" until then)
  cur,        \* the request the client put at offset start
  start,      \* stream offset at which cur begins
  wire,       \* bytes the kernel holds, not yet read
  eof,        \* the client has finished sending
  received,   \* bytes read off the socket so far
  base,       \* stream offset of the byte in buf[0]
  filled,     \* bytes in use at the front of buf
  bufLen,     \* buf.len()
  served,     \* requests_served
  answered,   \* responses written completely
  inFlight,   \* this connection's part of ConnectionCounter::in_flight_requests
  head,       \* header fields of the response being written
  file,       \* whether its body is read back out of a file
  todo,       \* writes its body still takes
  owed,       \* body chunks the client still expects, by the head it is sent
  unsound     \* history: a response of the handler has contradicted itself

clientVars == <<cur, start>>
wireVars == <<wire, eof, received>>
bufVars == <<base, filled, bufLen>>
countVars == <<served, answered, inFlight>>
respVars == <<head, file, todo, owed, unsound>>
vars == <<pc, outcome, clientVars, wireVars, bufVars, countVars, respVars>>

Rejections == {"reject_400", "reject_413", "reject_431"}

\* The points at which the in_flight guard is alive.
Guarded == {"body", "call", "head", "payload", "reject_400", "reject_413"}

PCs == {"parse", "read", "reject_431", "closed"} \cup Guarded

Outcomes == {"open", "eof", "idle", "truncated", "error", "limit"} \cup Rejections

\* The points at which the task waits in write_all for the client to read.
InWrite == pc = "head" \/ pc \in Rejections \/ (pc = "payload" /\ todo > 0)

\* A head without Content-Length or Transfer-Encoding: the client cannot tell
\* where the body ends.
NoLength == MaxChunks + 1

\* No buffer the loop allocates is longer than this; RecvBuf is in it because
\* the cap on headers is only looked at after a read.
BufLimit == MaxBuf + RecvBuf - 1 + MaxBody

\* The last answer a connection gives: max_keepalive = 0 still answers one.
Limit == IF MaxKeepalive = 0 THEN 1 ELSE MaxKeepalive

MinOf(a, b) == IF a <= b THEN a ELSE b
MaxOf(a, b) == IF a >= b THEN a ELSE b

consumed == cur.hdr
bodyEnd == consumed + cur.body

Init == /\ pc = "parse" /\ outcome = "open"
        /\ cur \in Requests /\ start = 0
        /\ wire = 0 /\ eof = FALSE /\ received = 0
        /\ base = 0 /\ filled = 0 /\ bufLen = InitBuf
        /\ served = 0 /\ answered = 0 /\ inFlight = 0
        /\ head = {} /\ file = FALSE /\ todo = 0 /\ owed = 0 /\ unsound = FALSE

-----------------------------------------------------------------------------
(***************************************************************************)
(* The client and the network.                                             *)
(***************************************************************************)
Send == /\ pc # "closed" /\ ~eof
        /\ wire < RecvBuf
        /\ wire' = wire + 1
        /\ UNCHANGED <<pc, outcome, clientVars, eof, received, bufVars, countVars, respVars>>

Fin == /\ pc # "closed" /\ ~eof
       /\ eof' = TRUE
       /\ UNCHANGED <<pc, outcome, clientVars, wire, received, bufVars, countVars, respVars>>

-----------------------------------------------------------------------------
(***************************************************************************)
(* Returning from `handle` drops the InFlightGuard that is alive.          *)
(***************************************************************************)
\* Slip: the counter is only decremented by hand after an answer.
XDropAfterAnswer == inFlight' = inFlight - (IF pc = "payload" THEN 1 ELSE 0)

DropGuard == inFlight' = inFlight - (IF pc \in Guarded THEN 1 ELSE 0)

Return(why) == /\ pc' = "closed"
               /\ outcome' = why
               /\ DropGuard
               /\ UNCHANGED <<clientVars, bufVars, served, respVars>>

Receive(n) == /\ wire' = wire - n
              /\ received' = received + n
              /\ filled' = filled + n

-----------------------------------------------------------------------------
(***************************************************************************)
(* Parsing what is buffered.                                               *)
(***************************************************************************)
\* Slip: a request that ends exactly with the buffered bytes is not seen.
XNeedsOneMore == filled > consumed

HeadersComplete == filled >= consumed

ParseError == /\ pc = "parse"
              /\ HeadersComplete /\ cur.kind = "malformed"
              /\ Return("error")
              /\ UNCHANGED <<wireVars, answered>>

\* The guard starts before the body is read; 413 is decided before buf grows.
ParseHead == /\ pc = "parse"
             /\ HeadersComplete /\ cur.kind # "malformed"
             /\ inFlight' = inFlight + 1
             /\ IF cur.body > MaxBody
                THEN pc' = "reject_413" /\ UNCHANGED bufLen
                ELSE pc' = "body" /\ bufLen' = MaxOf(bufLen, bodyEnd)
             /\ UNCHANGED <<outcome, clientVars, wireVars, base, filled,
                            served, answered, respVars>>

\* Slips: the cap looks at the buffer's length, which a body may have grown,
\* when the buffer is full or at any time.
XFullAtCap == filled = bufLen /\ bufLen >= MaxBuf

XLengthAtCap == bufLen >= MaxBuf

TooLong == filled >= MaxBuf

HeadersTooLarge == /\ pc = "parse"
                   /\ ~HeadersComplete /\ TooLong
                   /\ pc' = "reject_431"
                   /\ UNCHANGED <<outcome, clientVars, wireVars, bufVars, countVars, respVars>>

\* Slip: a full buffer is read into without growing it.
XNotGrown == bufLen

Grown == IF filled = bufLen THEN MinOf(2 * bufLen, MaxBuf) ELSE bufLen

AwaitMore == /\ pc = "parse"
             /\ ~HeadersComplete /\ ~TooLong
             /\ bufLen' = Grown
             /\ pc' = "read"
             /\ UNCHANGED <<outcome, clientVars, wireVars, base, filled, countVars, respVars>>

-----------------------------------------------------------------------------
(***************************************************************************)
(* Reading: headers into all the room there is, a body up to its end only. *)
(* A read into no room returns 0, which the code takes for the end.        *)
(***************************************************************************)
Read == /\ pc = "read"
        /\ \E n \in 1..MinOf(wire, bufLen - filled) : Receive(n)
        /\ pc' = "parse"
        /\ UNCHANGED <<outcome, clientVars, eof, base, bufLen, countVars, respVars>>

ReadEof == /\ pc = "read"
           /\ filled = bufLen \/ (wire = 0 /\ eof)
           /\ Return("eof")
           /\ UNCHANGED <<wireVars, answered>>

\* The keep-alive timer runs only while nothing of a request is buffered.
\* Slip: the timer runs over every read at the bottom of the loop.
XTimerAlwaysRuns == TRUE

TimerRuns == filled = 0

IdleTimeout == /\ pc = "read"
               /\ TimerRuns
               /\ Return("idle")
               /\ UNCHANGED <<wireVars, answered>>

BodyRead == /\ pc = "body"
            /\ \E n \in 1..MinOf(wire, bodyEnd - filled) : Receive(n)
            /\ UNCHANGED <<pc, outcome, clientVars, eof, base, bufLen, countVars, respVars>>

BodyEof == /\ pc = "body"
           /\ filled < bodyEnd
           /\ wire = 0 /\ eof
           /\ Return("truncated")
           /\ UNCHANGED <<wireVars, answered>>

\* The second parse; a header that is not UTF-8 is refused only here.
BodyComplete == /\ pc = "body"
                /\ filled >= bodyEnd
                /\ pc' = IF cur.kind = "bad_utf8" THEN "reject_400" ELSE "call"
                /\ UNCHANGED <<outcome, clientVars, wireVars, bufVars, countVars, respVars>>

-----------------------------------------------------------------------------
(***************************************************************************)
(* Handler::call and what the engine does to its response.                 *)
(***************************************************************************)
\* What a handler may return.  A framing header announces `length` chunks: those of
\* a Content-Length, or what a client makes of the body under a Transfer-Encoding.
\* bodiless is a status that has no body, 204 or 304.
Responses == [headers  : SUBSET {"connection", "framing"},
              length   : 0..MaxChunks,
              bodiless : BOOLEAN,
              spooled  : BOOLEAN,
              chunks   : 0..MaxChunks]

\* A body in memory is one write; without framing there is no length.
Answers == {r \in Responses : /\ r.spooled \/ r.chunks <= 1
                              /\ "framing" \notin r.headers => r.length = 0}

StripConnection(r) == [r EXCEPT !.headers = @ \ {"connection"}]

\* Slip: a response without framing headers is written as it is.
XFramingUnchanged(r) == r

\* A framing header the handler has set is left as it is, right or wrong.
EnsureFraming(r) ==
  IF "framing" \in r.headers THEN r
  ELSE [r EXCEPT !.headers = @ \cup {"framing"}, !.length = r.chunks]

\* Slip: the last response is recognised one request late.
XCloseHeaderLate(n) == IF n > MaxKeepalive THEN {"close"} ELSE {}

\* The engine's own line on the last response it will write here.
CloseHeader(n) == IF n >= MaxKeepalive THEN {"close"} ELSE {}

\* What the client expects after a head: no body for HEAD and for 204 and 304,
\* whatever the head announces.
Expected(r) == IF cur.kind = "head" \/ r.bodiless THEN 0
               ELSE IF "framing" \in r.headers THEN r.length ELSE NoLength

\* A response that contradicts itself, which the engine leaves to the handler: a body
\* with a status that has none, or another one than the handler announced.
Contradicts(r) ==
  /\ cur.kind # "head"
  /\ IF r.bodiless THEN r.chunks > 0
     ELSE "framing" \in r.headers /\ r.length # r.chunks

Call == /\ pc = "call"
        /\ \E r \in Answers :
             LET framed == EnsureFraming(StripConnection(r))
             IN  /\ served' = served + 1
                 /\ head' = framed.headers \cup CloseHeader(served')
                 /\ owed' = Expected(framed)
                 /\ file' = r.spooled
                 /\ todo' = r.chunks
                 /\ unsound' = (unsound \/ Contradicts(r))
        /\ pc' = "head"
        /\ UNCHANGED <<outcome, clientVars, wireVars, bufVars, answered, inFlight>>

\* The length of an unframed spooled body is read from its file, which may fail.
FramingFails == /\ pc = "call"
                /\ \E r \in Answers : r.spooled /\ "framing" \notin r.headers
                /\ Return("error")
                /\ UNCHANGED <<wireVars, answered>>

-----------------------------------------------------------------------------
(***************************************************************************)
(* Writing.                                                                *)
(***************************************************************************)
\* Slip: the body is written for HEAD too.
XBodyAlways == todo

\* The engine writes the body that follows, none for HEAD.
BodyWrites == IF cur.kind = "head" THEN 0 ELSE todo

WriteHead == /\ pc = "head"
             /\ todo' = BodyWrites
             /\ file' = (file /\ cur.kind # "head")
             /\ pc' = "payload"
             /\ UNCHANGED <<outcome, clientVars, wireVars, bufVars, countVars, head, owed, unsound>>

WriteChunk == /\ pc = "payload"
              /\ todo > 0
              /\ todo' = todo - 1
              /\ owed' = owed - 1
              /\ UNCHANGED <<pc, outcome, clientVars, wireVars, bufVars, countVars,
                             head, file, unsound>>

\* Slip: the connection is kept open for one request too many.
XLastOneLate == served > MaxKeepalive

IsLast == served >= MaxKeepalive

FinishLast == /\ pc = "payload" /\ todo = 0
              /\ IsLast
              /\ answered' = answered + 1
              /\ Return("limit")
              /\ UNCHANGED wireVars

\* Slip: the body is left in the buffer.
XShiftPastHeaders == /\ base' = base + bodyEnd
                     /\ filled' = filled - consumed

\* Bytes behind the answered request move to the front of the buffer, and the
\* next request is the one the client put right behind this one.
Shift == /\ base' = base + bodyEnd
         /\ filled' = filled - bodyEnd

FinishAndShift == /\ pc = "payload" /\ todo = 0
                  /\ ~IsLast
                  /\ answered' = answered + 1
                  /\ inFlight' = inFlight - 1
                  /\ Shift
                  /\ cur' \in Requests
                  /\ start' = start + bodyEnd
                  /\ pc' = "parse"
                  /\ UNCHANGED <<outcome, wireVars, bufLen, served, respVars>>

RejectWritten == /\ pc \in Rejections
                 /\ Return(pc)
                 /\ UNCHANGED <<wireVars, answered>>

\* The socket may fail at any await, the file of a spooled body at any read of it,
\* the one that finds its end included; `?` returns.
IoFails == /\ \/ InWrite
              \/ pc = "read"
              \/ pc = "body" /\ filled < bodyEnd
              \/ pc = "payload" /\ file
           /\ Return("error")
           /\ UNCHANGED <<wireVars, answered>>

-----------------------------------------------------------------------------
\* What the task does by itself when what it awaits is there.
Compute == \/ ParseError \/ ParseHead \/ HeadersTooLarge \/ AwaitMore
           \/ Read \/ ReadEof \/ BodyRead \/ BodyEof \/ BodyComplete
           \/ Call \/ FinishLast \/ FinishAndShift

\* A write_all that is done: the client has taken what was written.
Write == WriteHead \/ WriteChunk \/ RejectWritten

Step == Compute \/ Write

Fault == IdleTimeout \/ FramingFails \/ IoFails

\* `handle` has returned.
Closed == pc = "closed" /\ UNCHANGED vars

Next == Send \/ Fin \/ Step \/ Fault \/ Closed

Spec == Init /\ [][Next]_vars

\* The runtime polls the task again when what it awaits is there, and a handler
\* returns.  Nothing is assumed of the client, which need not send and need not
\* read: no write is fair.  Nor of the timer or of failures.
FairSpec == Spec /\ WF_vars(Compute)

\* The hypothesis that the client reads what it is sent.  write_all has no
\* timeout, so without it a write may take for ever.
ClientReads == WF_vars(Write)

-----------------------------------------------------------------------------
TypeOK == /\ pc \in PCs /\ outcome \in Outcomes
          /\ cur \in Requests /\ start \in Nat
          /\ wire \in 0..RecvBuf /\ eof \in BOOLEAN /\ received \in Nat
          /\ base \in Nat /\ filled \in Nat /\ bufLen \in Nat
          /\ served \in 0..Limit /\ answered \in 0..Limit /\ inFlight \in {0, 1}
          /\ head \subseteq {"framing", "close"}
          /\ {file, unsound} \subseteq BOOLEAN
          /\ todo \in 0..MaxChunks /\ owed \in -MaxChunks..MaxChunks

(***************************************************************************)
(* No byte of the stream is skipped, parsed twice or attributed to the     *)
(* wrong request, however requests are split and pipelined: buf[0] is      *)
(* always the first byte of the request being handled and buf[..filled]    *)
(* all that was read since (the shift at the bottom of the parse loop, the *)
(* body read bounded by body_end, the buffer that is only ever extended).  *)
(***************************************************************************)
StreamIntact == base = start /\ received = base + filled

(***************************************************************************)
(* Every read has room: a read into an empty slice returns 0 and would be  *)
(* taken for the client closing, and a body's slice lies inside buf.       *)
(***************************************************************************)
ReadHasRoom == /\ pc = "read" => filled < bufLen
               /\ pc = "body" => bodyEnd <= bufLen
               /\ filled <= bufLen

(***************************************************************************)
(* The buffer stays bounded over any sequence of requests, though it never *)
(* shrinks and the header cap is checked against `filled`, not its length. *)
(***************************************************************************)
BufferBounded == bufLen <= BufLimit

(***************************************************************************)
(* A connection counts as in flight exactly between the end of a request's *)
(* headers and the end of its response, a 413 or 400 included, on every    *)
(* path out of `handle`: what the comments inside `handle` say of          *)
(* InFlightGuard.  The doc comments of ConnectionCounter and of `handle`   *)
(* say less, see CountedAroundCall.                                        *)
(***************************************************************************)
InFlightExact == inFlight = IF pc \in Guarded THEN 1 ELSE 0

(***************************************************************************)
(* The same as the doc comments word it: a request is counted from just    *)
(* before Handler::call until its response is written.  The code counts    *)
(* earlier, while the body arrives, and rejections too.                    *)
(***************************************************************************)
CountedAroundCall == inFlight = IF pc \in {"call", "head", "payload"} THEN 1 ELSE 0

(***************************************************************************)
(* A request is refused only for what it is: 431 for headers longer than   *)
(* the cap (however large a buffer an earlier body left behind), 413 for a *)
(* body above its cap, 400 for a complete request with a bad header value. *)
(***************************************************************************)
RejectionJustified ==
  /\ pc = "reject_431" \/ outcome = "reject_431" => consumed > MaxBuf
  /\ pc = "reject_413" \/ outcome = "reject_413" => cur.body > MaxBody
  /\ pc = "reject_400" \/ outcome = "reject_400" =>
       cur.kind = "bad_utf8" /\ filled >= bodyEnd

(***************************************************************************)
(* As long as no response of the connection's handler contradicted itself, *)
(* the client can tell where each response ends, and the next one begins   *)
(* there: what is written after a head is what the client expects after    *)
(* it, whether the handler or ensure_framing announced it, and nothing     *)
(* follows a HEAD whatever its response holds.                             *)
(***************************************************************************)
ClientFramed ==
  ~unsound => /\ pc = "payload" => owed = todo
              /\ pc \in {"parse", "read", "body", "call"} => owed = 0

(***************************************************************************)
(* The only Connection header a client sees is the engine's, on the last   *)
(* response the connection may give, and it is then the last.              *)
(***************************************************************************)
CloseAnnounced ==
  /\ pc \in {"head", "payload"} => (("close" \in head) <=> (served = Limit))
  /\ "connection" \notin head
  /\ answered = Limit => pc = "closed"

(***************************************************************************)
(* The loop returns quietly only when no complete request it has read is   *)
(* left unanswered: pipelined requests are not dropped at EOF, and the     *)
(* idle timer never closes a connection with part of a request buffered.   *)
(***************************************************************************)
NothingDropped ==
  /\ outcome = "eof" => filled < consumed
  /\ outcome = "truncated" => filled < bodyEnd
  /\ outcome = "idle" => received = start

(***************************************************************************)
(* A request the client has sent completely is answered, or the connection *)
(* closes, provided that the client reads what it is sent; it is never     *)
(* left waiting in the buffer or in the kernel.                            *)
(***************************************************************************)
RequestSettled ==
  ClientReads =>
    \A k \in 0..Limit :
       (answered = k /\ start + bodyEnd <= received + wire)
          ~> (answered > k \/ pc = "closed")

(***************************************************************************)
(* The header cap as the tests state it: headers longer than               *)
(* MAX_BUF_CAPACITY are never served, not even right after a large body.   *)
(***************************************************************************)
HeaderCapExact == pc \in Guarded => consumed <= MaxBuf

-----------------------------------------------------------------------------
(***************************************************************************)
(* The inductive invariant: what holds at each await.                      *)
(***************************************************************************)
\* The most a read can leave buffered when the cap on headers is looked at.
HeadLimit == MaxBuf + RecvBuf - 1

\* Where buf stands at each point of the loop.
BufferAt ==
  /\ InitBuf <= bufLen
  /\ pc = "parse" => filled <= HeadLimit
  /\ pc = "read" => filled < MaxBuf /\ filled < consumed
  /\ pc = "reject_431" => MaxBuf <= filled /\ filled < consumed
  /\ pc \in Guarded => consumed <= filled /\ consumed <= HeadLimit
  /\ pc \in Guarded \ {"reject_413"} =>
       /\ cur.body <= MaxBody
       /\ bodyEnd <= bufLen
       /\ filled <= bodyEnd \/ filled <= HeadLimit
  /\ pc \in {"call", "head", "payload", "reject_400"} => bodyEnd <= filled

\* How requests_served, answers and what the client was told relate.
CountsAt ==
  /\ pc \in {"head", "payload"} => served = answered + 1
  /\ pc \notin {"head", "payload", "closed"} => served = answered /\ answered < Limit
  /\ pc # "closed" => (outcome = "open" /\ answered < Limit)
  /\ pc = "head" => "framing" \in head

\* What the client expects of a response whose head is still to be written, and the
\* most that can be written beyond it.
FramedAt == /\ (pc = "head" /\ ~unsound) => owed = BodyWrites
            /\ pc \in {"head", "payload"} => todo <= owed + MaxChunks

(***************************************************************************)
(* BufferAt, CountsAt and FramedAt make the safety properties inductive:   *)
(* they say which of the checks and answers made earlier in the loop still *)
(* hold at this await.                                                     *)
(***************************************************************************)
Inv == /\ TypeOK /\ StreamIntact /\ ReadHasRoom /\ BufferBounded /\ InFlightExact
       /\ RejectionJustified /\ ClientFramed /\ CloseAnnounced /\ NothingDropped
       /\ BufferAt /\ CountsAt /\ FramedAt

-----------------------------------------------------------------------------
(***************************************************************************)
(* The promise to the rest of the server.                                  *)
(***************************************************************************)
Phase == IF pc = "closed" THEN "closed"
         ELSE IF pc \in Guarded THEN "busy" ELSE "idle"

Service == INSTANCE ConnectionService WITH phase <- Phase

(***************************************************************************)
(* `handle` implements ConnectionService: one request at a time, counted   *)
(* while it is handled, at most Limit answers, none after closing.         *)
(***************************************************************************)
ServiceSpec == Service!Spec
=============================================================================
