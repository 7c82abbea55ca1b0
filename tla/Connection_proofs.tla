------------------------- MODULE Connection_proofs -------------------------
(***************************************************************************)
(* Proofs about Connection, for every size of the buffers, every set of    *)
(* requests and every max_keepalive: the inductive invariant, the safety   *)
(* properties that follow from it, the promise ConnectionService makes,    *)
(* that a request is handled without pause, and what the cap on headers    *)
(* comes to.                                                               *)
(***************************************************************************)
EXTENDS Connection, TLAPS

\* The lengths of the request at the front of the buffer.
LEMMA RequestLengths ==
  ASSUME cur \in Requests
  PROVE  /\ cur.hdr \in Nat \ {0} /\ cur.body \in Nat /\ cur.kind \in Kinds
         /\ consumed \in Nat \ {0} /\ bodyEnd \in Nat /\ consumed <= bodyEnd
BY RequestsAssumption DEF consumed, bodyEnd

\* The limits are numbers, and there is at least one answer to give.
LEMMA Limits ==
  /\ Limit \in Nat \ {0} /\ HeadLimit \in Nat /\ BufLimit \in Nat
  /\ MaxKeepalive \in Nat /\ MaxBuf <= HeadLimit /\ HeadLimit <= BufLimit
BY BufAssumption DEF Limit, HeadLimit, BufLimit

\* A response that does not contradict itself announces what the client gets.
LEMMA Framed ==
  ASSUME NEW r \in Responses, "framing" \notin r.headers => r.length = 0
  PROVE  LET framed == EnsureFraming(StripConnection(r))
         IN  /\ framed.headers = {"framing"} /\ r.chunks \in 0..MaxChunks
             /\ Expected(framed) \in 0..MaxChunks
             /\ ~Contradicts(r) =>
                  Expected(framed) = IF cur.kind = "head" THEN 0 ELSE r.chunks
<1> DEFINE stripped == StripConnection(r)
           framed == EnsureFraming(stripped)
<1>1. /\ r.headers \subseteq {"connection", "framing"} /\ r.bodiless \in BOOLEAN
      /\ r.length \in 0..MaxChunks /\ r.chunks \in 0..MaxChunks /\ MaxChunks \in Nat
  BY BufAssumption DEF Responses
<1>2. /\ stripped.headers = r.headers \ {"connection"} /\ stripped.length = r.length
      /\ stripped.bodiless = r.bodiless /\ stripped.chunks = r.chunks
      /\ stripped \in Responses
  BY DEF StripConnection, Responses
<1> HIDE DEF stripped
<1>3. /\ framed.headers = {"framing"} /\ framed.bodiless = r.bodiless
      /\ framed.length = IF "framing" \in r.headers THEN r.length ELSE r.chunks
  BY <1>1, <1>2 DEF EnsureFraming, Responses
<1> HIDE DEF framed
<1>4. Expected(framed) = IF cur.kind = "head" \/ r.bodiless THEN 0 ELSE framed.length
  BY <1>3 DEF Expected
<1>5. ~Contradicts(r) => \/ cur.kind = "head"
                         \/ r.bodiless /\ r.chunks = 0
                         \/ ~r.bodiless /\ framed.length = r.chunks
  BY <1>1, <1>3 DEF Contradicts
<1> QED
  BY <1>1, <1>3, <1>4, <1>5 DEF framed, stripped

LEMMA InvInit == Init => Inv
<1> SUFFICES ASSUME Init PROVE Inv
    OBVIOUS
<1> USE BufAssumption, Limits
<1> USE DEF Init
<1>1. TypeOK
  <2>1. pc \in PCs /\ outcome \in Outcomes
    BY DEF PCs, Outcomes, Guarded, Rejections
  <2>2. /\ cur \in Requests /\ start \in Nat
        /\ wire \in 0..RecvBuf /\ received \in Nat
        /\ base \in Nat /\ filled \in Nat /\ bufLen \in Nat
    OBVIOUS
  <2>3. /\ served \in 0..Limit /\ answered \in 0..Limit /\ inFlight \in {0, 1}
        /\ head \subseteq {"framing", "close"}
        /\ todo \in 0..MaxChunks /\ owed \in -MaxChunks..MaxChunks
    OBVIOUS
  <2>4. {eof, file, unsound} \subseteq BOOLEAN
    OBVIOUS
  <2> QED
    BY <2>1, <2>2, <2>3, <2>4 DEF TypeOK
<1>2. StreamIntact /\ ReadHasRoom /\ BufferBounded
  BY DEF StreamIntact, ReadHasRoom, BufferBounded, BufLimit
<1>3. InFlightExact /\ RejectionJustified /\ ClientFramed /\ CloseAnnounced /\ NothingDropped
  BY DEF InFlightExact, RejectionJustified, ClientFramed, CloseAnnounced,
         NothingDropped, Guarded
<1>4. BufferAt /\ CountsAt /\ FramedAt
  BY DEF BufferAt, CountsAt, FramedAt, Guarded
<1> QED
  BY <1>1, <1>2, <1>3, <1>4 DEF Inv

LEMMA InvNext == Inv /\ [Next]_vars => Inv'
<1> SUFFICES ASSUME Inv, [Next]_vars PROVE Inv'
    OBVIOUS
<1> USE RequestLengths, Limits, BufAssumption
<1> USE DEF Inv, TypeOK, StreamIntact, ReadHasRoom, BufferBounded, InFlightExact,
        RejectionJustified, ClientFramed, CloseAnnounced, NothingDropped, BufferAt,
        CountsAt, FramedAt, BodyWrites, PCs, Outcomes, Rejections, Guarded,
        clientVars, wireVars, bufVars, countVars, respVars
<1>1. CASE Send
  BY <1>1 DEF Send, consumed, bodyEnd
<1>2. CASE Fin
  BY <1>2 DEF Fin, consumed, bodyEnd
<1>3. CASE ParseError
  BY <1>3 DEF ParseError, Return, DropGuard, consumed, bodyEnd
<1>4. CASE ParseHead
  <2>1. CASE cur.body > MaxBody
    BY <1>4, <2>1 DEF ParseHead, HeadersComplete, consumed, bodyEnd
  <2>2. CASE cur.body <= MaxBody
    <3>1. bodyEnd <= BufLimit
      BY <1>4, <2>2 DEF ParseHead, HeadersComplete, consumed, bodyEnd, HeadLimit, BufLimit
    <3>2. filled <= HeadLimit /\ consumed <= filled
      BY <1>4 DEF ParseHead, HeadersComplete
    <3> QED
      BY <1>4, <2>2, <3>1, <3>2 DEF ParseHead, MaxOf, consumed, bodyEnd
  <2> QED
    BY <2>1, <2>2
<1>5. CASE HeadersTooLarge
  BY <1>5 DEF HeadersTooLarge, HeadersComplete, TooLong, consumed, bodyEnd
<1>6. CASE AwaitMore
  <2>1. filled < consumed /\ filled < MaxBuf
    BY <1>6 DEF AwaitMore, HeadersComplete, TooLong
  <2>2. bufLen' \in Nat /\ InitBuf <= bufLen' /\ filled < bufLen' /\ bufLen' <= BufLimit
    <3>1. CASE filled = bufLen
      BY <1>6, <2>1, <3>1 DEF AwaitMore, Grown, MinOf
    <3>2. CASE filled < bufLen
      BY <1>6, <3>2 DEF AwaitMore, Grown
    <3> QED
      BY <3>1, <3>2
  <2> QED
    BY <1>6, <2>1, <2>2 DEF AwaitMore, consumed, bodyEnd
<1>7. CASE Read
  BY <1>7 DEF Read, Receive, MinOf, consumed, bodyEnd, HeadLimit
<1>8. CASE ReadEof
  BY <1>8 DEF ReadEof, Return, DropGuard, consumed, bodyEnd
<1>9. CASE BodyRead
  BY <1>9 DEF BodyRead, Receive, MinOf, consumed, bodyEnd
<1>10. CASE BodyEof
  BY <1>10 DEF BodyEof, Return, DropGuard, consumed, bodyEnd
<1>11. CASE BodyComplete
  BY <1>11 DEF BodyComplete, consumed, bodyEnd
<1>12. CASE Call
  <2>1. PICK r \in Answers :
          LET framed == EnsureFraming(StripConnection(r))
          IN  /\ served' = served + 1
              /\ head' = framed.headers \cup CloseHeader(served')
              /\ owed' = Expected(framed)
              /\ file' = r.spooled
              /\ todo' = r.chunks
              /\ unsound' = (unsound \/ Contradicts(r))
    BY <1>12 DEF Call
  <2> DEFINE framed == EnsureFraming(StripConnection(r))
  <2>2. /\ framed.headers = {"framing"} /\ r.chunks \in 0..MaxChunks
        /\ Expected(framed) \in 0..MaxChunks
        /\ ~Contradicts(r) => Expected(framed) = IF cur.kind = "head" THEN 0 ELSE r.chunks
    BY Framed DEF Answers
  <2>3. unsound' \in BOOLEAN
    BY <2>1
  <2> HIDE DEF framed
  <2>4. /\ served' = served + 1 /\ head' = {"framing"} \cup CloseHeader(served + 1)
        /\ owed' = Expected(framed) /\ file' \in BOOLEAN /\ todo' = r.chunks
        /\ unsound' = (unsound \/ Contradicts(r))
    BY <2>1, <2>2 DEF framed, Answers, Responses
  <2>5. /\ pc = "call" /\ pc' = "head"
        /\ UNCHANGED <<outcome, cur, start, wire, eof, received>>
        /\ UNCHANGED <<base, filled, bufLen, answered, inFlight>>
    BY <1>12 DEF Call
  <2>6. TypeOK'
    <3>1. head' \subseteq {"framing", "close"} /\ unsound' \in BOOLEAN
      BY <2>3, <2>4 DEF CloseHeader
    <3>2. served' \in 0..Limit /\ owed' \in -MaxChunks..MaxChunks
      BY <2>2, <2>4, <2>5 DEF Limit
    <3> QED
      BY <2>2, <2>4, <2>5, <3>1, <3>2
  <2>7. StreamIntact' /\ ReadHasRoom' /\ BufferBounded' /\ InFlightExact'
    BY <2>5 DEF consumed, bodyEnd
  <2>8. RejectionJustified' /\ ClientFramed' /\ CloseAnnounced' /\ NothingDropped'
    BY <2>2, <2>4, <2>5 DEF CloseHeader, Limit, consumed, bodyEnd
  <2>9. BufferAt' /\ CountsAt'
    BY <2>2, <2>4, <2>5 DEF CloseHeader, Limit, consumed, bodyEnd
  <2>10. FramedAt'
    <3>1. ~unsound' => ~Contradicts(r)
      BY <2>1
    <3>2. ~unsound' => owed' = BodyWrites'
      BY <2>2, <2>4, <2>5, <3>1
    <3> QED
      BY <2>2, <2>4, <2>5, <3>2
  <2> QED
    BY <2>6, <2>7, <2>8, <2>9, <2>10 DEF Inv
<1>13. CASE WriteHead
  <2>1. file' \in BOOLEAN
    BY <1>13 DEF WriteHead
  <2>2. /\ pc = "head" /\ pc' = "payload" /\ todo' = BodyWrites
        /\ UNCHANGED <<outcome, cur, start, wire, eof, received, base, filled>>
        /\ UNCHANGED <<bufLen, served, answered, inFlight, head, owed, unsound>>
    BY <1>13 DEF WriteHead
  <2> QED
    BY <2>1, <2>2 DEF consumed, bodyEnd
<1>14. CASE WriteChunk
  BY <1>14 DEF WriteChunk, consumed, bodyEnd
<1>15. CASE FinishLast
  BY <1>15 DEF FinishLast, IsLast, Return, DropGuard, Limit, consumed, bodyEnd
<1>16. CASE FinishAndShift
  <2>1. cur' \in Requests /\ cur'.hdr \in Nat /\ cur'.body \in Nat
    BY <1>16, RequestsAssumption DEF FinishAndShift
  <2>2. filled' \in Nat /\ filled' <= HeadLimit
    BY <1>16 DEF FinishAndShift, Shift
  <2>3. served < Limit /\ answered' = served
    BY <1>16 DEF FinishAndShift, IsLast, Limit
  <2> QED
    BY <1>16, <2>1, <2>2, <2>3 DEF FinishAndShift, Shift, consumed, bodyEnd
<1>17. CASE RejectWritten
  BY <1>17 DEF RejectWritten, Return, DropGuard, consumed, bodyEnd
<1>18. CASE IdleTimeout
  BY <1>18 DEF IdleTimeout, TimerRuns, Return, DropGuard, consumed, bodyEnd
<1>19. CASE FramingFails
  BY <1>19 DEF FramingFails, Return, DropGuard, consumed, bodyEnd
<1>20. CASE IoFails
  BY <1>20 DEF IoFails, Return, DropGuard, consumed, bodyEnd
<1>21. CASE Closed \/ UNCHANGED vars
  <2>1. UNCHANGED <<pc, outcome, cur, start, wire, eof, received, base, filled>>
    BY <1>21 DEF Closed, vars
  <2>2. UNCHANGED <<bufLen, served, answered, inFlight, head, file, todo, owed, unsound>>
    BY <1>21 DEF Closed, vars
  <2>3. TypeOK' /\ StreamIntact' /\ ReadHasRoom' /\ BufferBounded' /\ InFlightExact'
    BY <2>1, <2>2 DEF consumed, bodyEnd
  <2>4. RejectionJustified' /\ ClientFramed' /\ CloseAnnounced' /\ NothingDropped'
    BY <2>1, <2>2 DEF consumed, bodyEnd
  <2>5. BufferAt' /\ CountsAt' /\ FramedAt'
    BY <2>1, <2>2 DEF consumed, bodyEnd
  <2> QED
    BY <2>3, <2>4, <2>5 DEF Inv
<1> QED
  BY <1>1, <1>2, <1>3, <1>4, <1>5, <1>6, <1>7, <1>8, <1>9, <1>10, <1>11, <1>12, <1>13,
     <1>14, <1>15, <1>16, <1>17, <1>18, <1>19, <1>20, <1>21 DEF Next, Step, Compute, Write, Fault

-----------------------------------------------------------------------------
(***************************************************************************)
(* The inductive invariant holds in every reachable state of `handle`.     *)
(***************************************************************************)
THEOREM Invariance == Spec => []Inv
BY InvInit, InvNext, PTL DEF Spec

(***************************************************************************)
(* Type correctness of the loop's locals; in particular the client is      *)
(* never owed less than nothing and filled -= body_end never underflows.   *)
(***************************************************************************)
THEOREM TypeCorrect == Spec => []TypeOK
<1>1. Inv => TypeOK
  BY DEF Inv
<1> QED
  BY Invariance, <1>1, PTL

(***************************************************************************)
(* However a client splits and pipelines its requests, the parser always   *)
(* starts at the first byte of a request and no byte is skipped.           *)
(***************************************************************************)
THEOREM StreamIsIntact == Spec => []StreamIntact
<1>1. Inv => StreamIntact
  BY DEF Inv
<1> QED
  BY Invariance, <1>1, PTL

(***************************************************************************)
(* No read is issued into an empty slice, so a read of 0 bytes always      *)
(* means that the client has closed.                                       *)
(***************************************************************************)
THEOREM ReadsHaveRoom == Spec => []ReadHasRoom
<1>1. Inv => ReadHasRoom
  BY DEF Inv
<1> QED
  BY Invariance, <1>1, PTL

(***************************************************************************)
(* The memory of a connection is bounded over any sequence of requests.    *)
(***************************************************************************)
THEOREM BufferIsBounded == Spec => []BufferBounded
<1>1. Inv => BufferBounded
  BY DEF Inv
<1> QED
  BY Invariance, <1>1, PTL

(***************************************************************************)
(* The in-flight count is exact on every path through `handle`.            *)
(***************************************************************************)
THEOREM InFlightIsExact == Spec => []InFlightExact
<1>1. Inv => InFlightExact
  BY DEF Inv
<1> QED
  BY Invariance, <1>1, PTL

(***************************************************************************)
(* 431, 413 and 400 are only ever sent to requests that deserve them.      *)
(***************************************************************************)
THEOREM RejectionsAreJustified == Spec => []RejectionJustified
<1>1. Inv => RejectionJustified
  BY DEF Inv
<1> QED
  BY Invariance, <1>1, PTL

(***************************************************************************)
(* With handlers that contradict themselves in no response, the client can *)
(* tell where every response ends, for any number of chunks and requests.  *)
(***************************************************************************)
THEOREM ResponsesAreFramed == Spec => []ClientFramed
<1>1. Inv => ClientFramed
  BY DEF Inv
<1> QED
  BY Invariance, <1>1, PTL

(***************************************************************************)
(* Connection: close is the engine's, and is on the last response only.    *)
(***************************************************************************)
THEOREM CloseIsAnnounced == Spec => []CloseAnnounced
<1>1. Inv => CloseAnnounced
  BY DEF Inv
<1> QED
  BY Invariance, <1>1, PTL

(***************************************************************************)
(* A quiet return leaves no complete request unanswered.                   *)
(***************************************************************************)
THEOREM NothingIsDropped == Spec => []NothingDropped
<1>1. Inv => NothingDropped
  BY DEF Inv
<1> QED
  BY Invariance, <1>1, PTL

-----------------------------------------------------------------------------
(***************************************************************************)
(* Refinement.                                                             *)
(***************************************************************************)
LEMMA ServiceInit == Init => Service!Init
BY DEF Init, Service!Init, Phase, Guarded

LEMMA ServiceNext == Inv /\ [Next]_vars => [Service!Next]_(Service!vars)
<1> SUFFICES ASSUME Inv, [Next]_vars PROVE [Service!Next]_(Service!vars)
    OBVIOUS
<1> USE Limits
<1> USE DEF Service!Next, Service!vars, Phase, Guarded, Rejections, Inv, InFlightExact,
        TypeOK, CountsAt, countVars, Return, DropGuard
<1>1. CASE Send \/ Fin \/ HeadersTooLarge \/ AwaitMore \/ Read \/ BodyRead
  BY <1>1 DEF Send, Fin, HeadersTooLarge, AwaitMore, Read, BodyRead
<1>2. CASE BodyComplete \/ Call \/ WriteHead \/ WriteChunk
  BY <1>2 DEF BodyComplete, Call, WriteHead, WriteChunk
<1>3. CASE ParseHead
  BY <1>3 DEF ParseHead, Service!Begin
<1>4. CASE FinishAndShift
  BY <1>4 DEF FinishAndShift, IsLast, Limit, Service!Answer
<1>5. CASE FinishLast
  BY <1>5 DEF FinishLast, IsLast, Limit, Service!AnswerLast
<1>6. CASE ParseError \/ ReadEof \/ BodyEof \/ RejectWritten \/ IdleTimeout
  BY <1>6 DEF ParseError, ReadEof, BodyEof, RejectWritten, IdleTimeout, Service!Close
<1>7. CASE FramingFails \/ IoFails
  BY <1>7 DEF FramingFails, IoFails, Service!Close
<1>8. CASE Closed \/ UNCHANGED vars
  BY <1>8 DEF Closed, vars
<1> QED
  BY <1>1, <1>2, <1>3, <1>4, <1>5, <1>6, <1>7, <1>8 DEF Next, Step, Compute, Write, Fault

(***************************************************************************)
(* `handle` keeps ConnectionService's promise, for every client.           *)
(***************************************************************************)
THEOREM ImplementsService == Spec => ServiceSpec
BY ServiceInit, ServiceNext, Invariance, PTL DEF Spec, ServiceSpec, Service!Spec

-----------------------------------------------------------------------------
(***************************************************************************)
(* Progress: what of RequestSettled does not need an induction.  While a   *)
(* request that was sent completely is unanswered, the task has what it    *)
(* awaits, and each of its steps brings the answer, or the end, nearer.    *)
(***************************************************************************)
\* The client has sent all of the request at the front of the buffer.
Complete == start + bodyEnd <= received + wire

\* The task has what it awaits.
HasInput == /\ pc = "read" => filled < bufLen /\ wire > 0
            /\ pc = "body" => filled >= bodyEnd \/ wire > 0

\* Bytes of the request that are still to be read.
Missing == MaxOf(bodyEnd - filled, 0)

\* An upper bound of the steps a request takes from here.
Rank == CASE pc = "closed"    -> 0
          [] pc \in Rejections -> 1
          [] pc = "payload"   -> todo + 1
          [] pc = "head"      -> MaxChunks + 2
          [] pc = "call"      -> MaxChunks + 3
          [] pc = "body"      -> MaxChunks + 4 + Missing
          [] pc = "read"      -> MaxChunks + 5 + 2 * Missing
          [] pc = "parse"     -> MaxChunks + 6 + 2 * Missing

\* The same, case by case.
RankAt == /\ Missing \in Nat /\ Rank \in Nat /\ todo \in 0..MaxChunks
          /\ pc = "closed" => Rank = 0
          /\ pc \in Rejections => Rank = 1
          /\ pc = "payload" => Rank = todo + 1
          /\ pc = "head" => Rank = MaxChunks + 2
          /\ pc = "call" => Rank = MaxChunks + 3
          /\ pc = "body" => Rank = MaxChunks + 4 + Missing
          /\ pc = "read" => Rank = MaxChunks + 5 + 2 * Missing
          /\ pc = "parse" => Rank = MaxChunks + 6 + 2 * Missing

LEMMA Ranks == Inv => RankAt
<1> SUFFICES ASSUME Inv PROVE RankAt
    OBVIOUS
<1>1. Missing \in Nat /\ MaxChunks \in Nat /\ todo \in 0..MaxChunks /\ pc \in PCs
  BY RequestLengths, BufAssumption DEF Inv, TypeOK, Missing, MaxOf
<1> HIDE DEF Missing
<1> QED
  BY <1>1 DEF Rank, RankAt, Rejections, PCs, Guarded

LEMMA RanksNext == Inv' => RankAt'
BY Ranks, PTL

\* Returning from `handle` ends it.
LEMMA ReturnRank ==
  ASSUME Inv, Inv', pc # "closed", pc' = "closed" PROVE Rank' < Rank
<1>1. RankAt /\ RankAt' /\ MaxChunks \in Nat
  BY Ranks, RanksNext, BufAssumption
<1>2. Rank > 0
  BY <1>1 DEF Inv, TypeOK, PCs, Guarded, Rejections, RankAt
<1> QED
  BY <1>1, <1>2 DEF RankAt

\* How the ranks of successive points compare.
LEMMA RankOrder ==
  /\ \A m \in Nat : 1 < MaxChunks + 4 + m /\ MaxChunks + 3 < MaxChunks + 4 + m
  /\ \A m, n \in Nat : n < m => MaxChunks + 4 + n < MaxChunks + 4 + m
  /\ \A m, n \in Nat : n < m => MaxChunks + 6 + 2 * n < MaxChunks + 5 + 2 * m
  /\ \A m \in 0..MaxChunks : m + 1 < MaxChunks + 2
  /\ MaxChunks + 2 < MaxChunks + 3
BY BufAssumption

\* A step of the task.
LEMMA RankStep ==
  ASSUME Inv, Inv', Step
  PROVE  answered' = answered + 1 \/ (answered' = answered /\ Rank' < Rank)
<1> USE DEF countVars, bufVars, clientVars, respVars
<1>1. /\ RankAt /\ RankAt' /\ MaxChunks \in Nat
      /\ cur.body \in Nat /\ consumed \in Nat /\ bodyEnd \in Nat /\ consumed <= bodyEnd
      /\ filled \in Nat /\ wire \in Nat /\ bufLen \in Nat
  BY Ranks, RanksNext, BufAssumption, RequestLengths DEF Inv, TypeOK
<1>2. UNCHANGED <<cur, filled>> => Missing' = Missing
  BY DEF Missing, bodyEnd, consumed
<1>3. CASE ParseError \/ ReadEof \/ BodyEof \/ RejectWritten
  <2>1. pc # "closed" /\ pc' = "closed" /\ answered' = answered
    BY <1>3 DEF ParseError, ReadEof, BodyEof, RejectWritten, Return, Rejections
  <2> QED
    BY <2>1, ReturnRank
<1>4. CASE ParseHead \/ HeadersTooLarge \/ AwaitMore
  <2>1. /\ pc = "parse" /\ pc' \in {"body", "read", "reject_413", "reject_431"}
        /\ answered' = answered /\ Missing' = Missing
    BY <1>2, <1>4 DEF ParseHead, HeadersTooLarge, AwaitMore
  <2> QED
    BY <1>1, <2>1 DEF RankAt, Rejections
<1>5. CASE BodyComplete
  <2>1. pc = "body" /\ pc' \in {"reject_400", "call"} /\ answered' = answered
    BY <1>5 DEF BodyComplete
  <2>2. Rank = MaxChunks + 4 + Missing /\ Rank' \in {1, MaxChunks + 3}
    BY <1>1, <2>1 DEF RankAt, Rejections
  <2> QED
    BY <1>1, <2>1, <2>2, RankOrder DEF RankAt
<1>6. CASE Call \/ WriteHead
  <2>1. /\ \/ pc = "call" /\ pc' = "head"
           \/ pc = "head" /\ pc' = "payload"
        /\ answered' = answered
    BY <1>6 DEF Call, WriteHead
  <2>2. \/ Rank = MaxChunks + 3 /\ Rank' = MaxChunks + 2
        \/ Rank = MaxChunks + 2 /\ Rank' = todo' + 1
    BY <1>1, <2>1 DEF RankAt
  <2> QED
    BY <1>1, <2>1, <2>2, RankOrder DEF RankAt
<1>7. CASE WriteChunk
  BY <1>1, <1>7 DEF WriteChunk, RankAt
<1>8. CASE Read
  <2>1. filled < consumed
    BY <1>8 DEF Read, Inv, BufferAt
  <2>2. cur' = cur /\ filled' \in Nat /\ filled' > filled
    BY <1>1, <1>8 DEF Read, Receive, MinOf
  <2>3. Missing' < Missing
    BY <1>1, <2>1, <2>2 DEF Missing, MaxOf, bodyEnd, consumed
  <2>4. pc = "read" /\ pc' = "parse" /\ answered' = answered
    BY <1>8 DEF Read
  <2>5. Rank' = MaxChunks + 6 + 2 * Missing' /\ Rank = MaxChunks + 5 + 2 * Missing
    BY <1>1, <2>4 DEF RankAt
  <2> QED
    BY <1>1, <2>3, <2>4, <2>5, RankOrder DEF RankAt
<1>9. CASE BodyRead
  <2>1. cur' = cur /\ filled' \in Nat /\ filled' > filled /\ filled < bodyEnd
    BY <1>1, <1>9 DEF BodyRead, Receive, MinOf
  <2>2. Missing' < Missing
    BY <1>1, <2>1 DEF Missing, MaxOf, bodyEnd, consumed
  <2>3. pc = "body" /\ pc' = "body" /\ answered' = answered
    BY <1>9 DEF BodyRead
  <2> QED
    BY <1>1, <2>2, <2>3, RankOrder DEF RankAt
<1>10. CASE FinishLast \/ FinishAndShift
  BY <1>10 DEF FinishLast, FinishAndShift
<1> QED
  BY <1>3, <1>4, <1>5, <1>6, <1>7, <1>8, <1>9, <1>10 DEF Step, Compute, Write

\* What the client and a fault do to a request: nothing, or they end it.
LEMMA RankOther ==
  ASSUME Inv, Inv', Send \/ Fin \/ Fault \/ Closed \/ UNCHANGED vars
  PROVE  answered' = answered /\ Rank' <= Rank
<1>1. RankAt /\ RankAt'
  BY Ranks, RanksNext
<1>2. CASE Fault
  <2>1. pc # "closed" /\ pc' = "closed" /\ answered' = answered
    BY <1>2 DEF Fault, IdleTimeout, FramingFails, IoFails, InWrite, Return, Rejections
  <2> QED
    BY <1>1, <2>1, ReturnRank DEF RankAt
<1>3. CASE Send \/ Fin \/ Closed \/ UNCHANGED vars
  <2>1. UNCHANGED <<pc, cur, filled, todo, answered>>
    BY <1>3 DEF Send, Fin, Closed, vars, clientVars, bufVars, countVars, respVars
  <2>2. Rank' = Rank
    BY <2>1 DEF Rank, Missing, bodyEnd, consumed
  <2> QED
    BY <1>1, <2>1, <2>2 DEF RankAt
<1> QED
  BY <1>2, <1>3

(***************************************************************************)
(* `handle` never loops without getting on: whatever the sizes of buffer   *)
(* and request and however the bytes arrive, each step of the task either  *)
(* completes an answer or lowers Rank, and nothing else ever raises it.    *)
(***************************************************************************)
THEOREM TaskAdvances ==
  Spec => [][\/ answered' = answered + 1
             \/ answered' = answered /\ Rank' <= Rank /\ (Step => Rank' < Rank)]_vars
<1>1. Inv /\ Inv' /\ [Next]_vars =>
        \/ answered' = answered + 1
        \/ answered' = answered /\ Rank' <= Rank /\ (Step => Rank' < Rank)
  <2> SUFFICES ASSUME Inv, Inv', [Next]_vars
               PROVE  \/ answered' = answered + 1
                      \/ answered' = answered /\ Rank' <= Rank /\ (Step => Rank' < Rank)
    OBVIOUS
  <2>1. RankAt /\ RankAt'
    BY Ranks, RanksNext
  <2> QED
    BY <2>1, RankStep, RankOther DEF Next, RankAt
<1> QED
  BY <1>1, Invariance, PTL DEF Spec

LEMMA CompleteHasInput == Inv /\ Complete => HasInput
<1> SUFFICES ASSUME Inv, Complete PROVE HasInput
    OBVIOUS
<1>1. /\ start \in Nat /\ wire \in Nat /\ received = start + filled /\ filled \in Nat
      /\ consumed \in Nat /\ bodyEnd \in Nat /\ consumed <= bodyEnd
  BY RequestLengths DEF Inv, TypeOK, StreamIntact
<1>2. filled < bodyEnd => wire > 0
  BY <1>1 DEF Complete
<1>3. pc = "read" => filled < bufLen /\ filled < consumed
  BY DEF Inv, ReadHasRoom, BufferAt
<1> QED
  BY <1>1, <1>2, <1>3 DEF HasInput

(***************************************************************************)
(* The server never waits for bytes of a request that it already holds:    *)
(* once the client has sent a request completely, a read the task awaits   *)
(* has bytes to return and room for them, whatever was buffered with       *)
(* earlier requests.                                                       *)
(***************************************************************************)
THEOREM InputIsThere == Spec => [](Complete => HasInput)
BY CompleteHasInput, Invariance, PTL

\* A request that was sent stays sent until it is answered.
LEMMA CompleteNext ==
  ASSUME Inv, Complete, [Next]_vars PROVE Complete' \/ answered' = answered + 1
<1> USE RequestLengths DEF Complete, clientVars, wireVars, bufVars, countVars, respVars
<1>1. start \in Nat /\ wire \in Nat /\ received \in Nat /\ bodyEnd \in Nat
  BY DEF Inv, TypeOK
<1>2. CASE FinishLast \/ FinishAndShift
  BY <1>2 DEF FinishLast, FinishAndShift
<1>3. ASSUME UNCHANGED <<cur, start>>, received' + wire' = received + wire \/ Send PROVE Complete'
  <2>1. bodyEnd' = bodyEnd
    BY <1>3 DEF bodyEnd, consumed
  <2>2. start' + bodyEnd' = start + bodyEnd
    BY <1>3, <2>1
  <2>3. CASE Send
    BY <1>1, <2>2, <2>3 DEF Send
  <2> QED
    BY <1>1, <1>3, <2>2, <2>3
<1>4. CASE Send \/ Fin \/ Closed \/ UNCHANGED vars
  BY <1>3, <1>4 DEF Send, Fin, Closed, vars
<1>5. CASE Read \/ BodyRead
  <2>1. PICK n \in Int : Receive(n)
    BY <1>5 DEF Read, BodyRead
  <2> QED
    BY <1>1, <1>3, <1>5, <2>1 DEF Read, BodyRead, Receive
<1>6. CASE ParseError \/ ReadEof \/ BodyEof \/ RejectWritten \/ Fault
  BY <1>3, <1>6 DEF ParseError, ReadEof, BodyEof, RejectWritten, Fault, IdleTimeout, FramingFails,
                    IoFails, Return
<1>7. CASE \/ ParseHead \/ HeadersTooLarge \/ AwaitMore
           \/ BodyComplete \/ Call \/ WriteHead \/ WriteChunk
  BY <1>3, <1>7 DEF ParseHead, HeadersTooLarge, AwaitMore, BodyComplete, Call, WriteHead, WriteChunk
<1> QED
  BY <1>2, <1>4, <1>5, <1>6, <1>7 DEF Next, Step, Compute, Write

\* The prover has no rules for ENABLED; this is what reading the guards shows.
GuardsEnable == /\ [](pc # "closed" /\ ~InWrite /\ HasInput => ENABLED <<Compute>>_vars)
                /\ [](InWrite => ENABLED <<Write>>_vars)

\* Request number k + 1 is there completely, and the task is at rank n of it.
At(k, n) == Complete /\ answered = k /\ Rank = n

\* It has come nearer to its end.
Left(k, n) == answered > k \/ pc = "closed" \/ (Complete /\ answered = k /\ Rank < n)

\* Until a step of the task the rank stands, and whether the task is writing.
LEMMA AtNext ==
  ASSUME NEW k \in 0..Limit, NEW n \in Nat, Inv, Inv', [Next]_vars, At(k, n)
  PROVE  /\ Left(k, n)' \/ (At(k, n)' /\ (InWrite' <=> InWrite))
         /\ Step => ~At(k, n)'
<1>1. RankAt /\ RankAt' /\ k \in Nat
  BY Ranks, RanksNext, Limits
<1>2. answered' = answered + 1 \/ (answered' = answered /\ Rank' <= Rank)
  BY <1>1, RankStep, RankOther DEF Next, RankAt
<1>3. At(k, n)' \/ Left(k, n)'
  BY <1>1, <1>2, CompleteNext DEF RankAt, At, Left
<1>4. Step => ~At(k, n)'
  BY <1>1, RankStep DEF RankAt, At
<1>5. CASE Step
  BY <1>3, <1>4, <1>5
<1>6. CASE Send \/ Fin \/ Closed \/ UNCHANGED vars
  <2>1. pc' = pc /\ todo' = todo
    BY <1>6 DEF Send, Fin, Closed, vars, respVars
  <2> QED
    BY <1>3, <1>4, <2>1 DEF InWrite
<1>7. CASE Fault
  BY <1>4, <1>7 DEF Fault, IdleTimeout, FramingFails, IoFails, Return, Left
<1> QED
  BY <1>5, <1>6, <1>7 DEF Next

LEMMA AtOrLeft ==
  ASSUME NEW k \in 0..Limit, NEW n \in Nat
  PROVE  /\ Inv /\ Inv' /\ [Next]_vars =>
              /\ At(k, n) /\ InWrite => (At(k, n)' /\ InWrite') \/ Left(k, n)'
              /\ At(k, n) /\ ~InWrite => (At(k, n)' /\ ~InWrite') \/ Left(k, n)'
         /\ Inv /\ Inv' /\ [Next]_vars /\ <<Compute>>_vars => (At(k, n) => ~At(k, n)')
         /\ Inv /\ Inv' /\ [Next]_vars /\ <<Write>>_vars => (At(k, n) => ~At(k, n)')
BY AtNext DEF Step

(***************************************************************************)
(* The server itself never holds a request up.  Whatever the client does,  *)
(* a request that was sent completely leaves every rank at which the task  *)
(* is not in write_all: for a lower one, or it is answered or the          *)
(* connection closes.                                                      *)
(***************************************************************************)
THEOREM ServerNeverWaits ==
  FairSpec /\ GuardsEnable =>
    \A k \in 0..Limit, n \in Nat : (At(k, n) /\ ~InWrite) ~> Left(k, n)
<1> SUFFICES ASSUME NEW k \in 0..Limit, NEW n \in Nat
             PROVE  FairSpec /\ GuardsEnable => ((At(k, n) /\ ~InWrite) ~> Left(k, n))
  OBVIOUS
<1> DEFINE Computing == pc # "closed" /\ ~InWrite /\ HasInput
<1>1. Inv /\ At(k, n) /\ ~InWrite => Computing \/ Left(k, n)
  BY CompleteHasInput DEF At, Left
<1>2. Computing <=> pc # "closed" /\ ~InWrite /\ HasInput
  OBVIOUS
<1> HIDE DEF Computing
<1> QED
  BY <1>1, <1>2, AtOrLeft, Invariance, PTL DEF FairSpec, Spec, GuardsEnable

(***************************************************************************)
(* A request that was sent completely leaves each rank for a lower one,    *)
(* unless it is answered or the connection closes, provided that the       *)
(* client reads what it is sent.  RequestSettled follows from this by      *)
(* induction on the rank, the one step that is not checked here.           *)
(***************************************************************************)
THEOREM RankIsLeft ==
  FairSpec /\ ClientReads /\ GuardsEnable =>
    \A k \in 0..Limit, n \in Nat : At(k, n) ~> Left(k, n)
<1> SUFFICES ASSUME NEW k \in 0..Limit, NEW n \in Nat
             PROVE  FairSpec /\ ClientReads /\ GuardsEnable => (At(k, n) ~> Left(k, n))
  OBVIOUS
<1>1. FairSpec /\ GuardsEnable => ((At(k, n) /\ ~InWrite) ~> Left(k, n))
  BY ServerNeverWaits
<1>2. FairSpec /\ ClientReads /\ GuardsEnable => ((At(k, n) /\ InWrite) ~> Left(k, n))
  BY AtOrLeft, Invariance, PTL DEF FairSpec, Spec, ClientReads, GuardsEnable
<1> QED
  BY <1>1, <1>2, PTL

-----------------------------------------------------------------------------
(***************************************************************************)
(* The cap on headers.                                                     *)
(***************************************************************************)
\* Until its first answer a connection's buffer grows for headers up to the cap,
\* and beyond only for the body of the request it is about to answer.
FirstCap == answered = 0 =>
              /\ pc \notin Guarded \cup {"closed"} => bufLen <= MaxBuf
              /\ pc \in Guarded => consumed <= MaxBuf

\* HeaderCapExact, of the first request on a connection.
FirstRequestCapped == answered = 0 /\ pc \in Guarded => consumed <= MaxBuf

LEMMA FirstCapNext == Inv /\ Inv' /\ FirstCap /\ [Next]_vars => FirstCap'
<1> SUFFICES ASSUME Inv, Inv', FirstCap, [Next]_vars, answered' = 0
             PROVE  /\ pc' \notin Guarded \cup {"closed"} => bufLen' <= MaxBuf
                    /\ pc' \in Guarded => consumed' <= MaxBuf
    BY DEF FirstCap
<1> USE BufAssumption, RequestLengths
    DEF Guarded, Rejections, clientVars, wireVars, bufVars, countVars, respVars
<1>1. answered = 0 /\ bufLen \in Nat /\ filled \in Nat /\ filled <= bufLen
  <2>1. answered \in Nat /\ answered' \in Nat
    BY Limits DEF Inv, TypeOK
  <2>2. answered' = answered + 1 \/ answered' = answered
    BY RankStep, RankOther DEF Next
  <2> QED
    BY <2>1, <2>2 DEF Inv, TypeOK, ReadHasRoom
<1>2. /\ pc \notin Guarded \cup {"closed"} => bufLen <= MaxBuf
      /\ pc \in Guarded => consumed <= MaxBuf
  BY <1>1 DEF FirstCap
<1>3. CASE pc' = "closed"
  BY <1>3
<1>4. CASE ParseHead
  <2>1. /\ bufLen <= MaxBuf /\ consumed <= filled
        /\ cur' = cur /\ pc' \in Guarded
    BY <1>2, <1>4 DEF ParseHead, HeadersComplete
  <2>2. consumed' = consumed /\ consumed \in Nat
    BY <2>1 DEF consumed, Inv, TypeOK
  <2> QED
    BY <1>1, <2>1, <2>2
<1>5. CASE AwaitMore
  BY <1>1, <1>2, <1>5 DEF AwaitMore, Grown, MinOf
<1>6. CASE FinishLast \/ FinishAndShift
  BY <1>1, <1>6 DEF FinishLast, FinishAndShift
<1>7. ASSUME UNCHANGED <<cur, bufLen>>,
             pc \in Guarded <=> pc' \in Guarded, pc # "closed"
      PROVE  /\ pc' \notin Guarded \cup {"closed"} => bufLen' <= MaxBuf
             /\ pc' \in Guarded => consumed' <= MaxBuf
  BY <1>2, <1>7 DEF consumed
<1>8. CASE Send \/ Fin \/ HeadersTooLarge \/ Read \/ BodyRead \/ BodyComplete
  BY <1>7, <1>8 DEF Send, Fin, HeadersTooLarge, Read, BodyRead, BodyComplete
<1>9. CASE Call \/ WriteHead \/ WriteChunk
  BY <1>7, <1>9 DEF Call, WriteHead, WriteChunk
<1>10. CASE Closed \/ UNCHANGED vars
  BY <1>2, <1>10 DEF Closed, vars, consumed
<1>11. CASE ParseError \/ ReadEof \/ BodyEof \/ RejectWritten \/ Fault
  BY <1>3, <1>11 DEF ParseError, ReadEof, BodyEof, RejectWritten, Fault, IdleTimeout,
                     FramingFails, IoFails, Return
<1> QED
  BY <1>4, <1>5, <1>6, <1>8, <1>9, <1>10, <1>11 DEF Next, Step, Compute, Write

(***************************************************************************)
(* The first request on a connection is held to MAX_BUF_CAPACITY exactly:  *)
(* only a buffer that an earlier body has grown lets longer headers        *)
(* through.                                                                *)
(***************************************************************************)
THEOREM FirstRequestIsCapped == Spec => []FirstRequestCapped
<1>1. Init => FirstCap
  BY BufAssumption DEF Init, FirstCap, Guarded
<1>2. FirstCap => FirstRequestCapped
  BY DEF FirstCap, FirstRequestCapped
<1> QED
  BY <1>1, <1>2, FirstCapNext, Invariance, PTL DEF Spec

(***************************************************************************)
(* HeaderCapExact holds of clients none of whose requests is larger than   *)
(* the cap on headers, body included: then no read has room beyond         *)
(* MAX_BUF_CAPACITY.                                                       *)
(***************************************************************************)
THEOREM CapIsExact ==
  ASSUME \A r \in Requests : r.hdr <= MaxBuf => r.hdr + r.body <= MaxBuf
  PROVE  Spec => []HeaderCapExact
<1> USE BufAssumption, RequestLengths
    DEF Guarded, Rejections, clientVars, wireVars, bufVars, countVars, respVars
<1> DEFINE Cap == bufLen <= MaxBuf
<1>1. Init => Cap
  BY DEF Init
<1>2. Inv /\ Cap /\ [Next]_vars => Cap'
  <2> SUFFICES ASSUME Inv, Cap, [Next]_vars PROVE Cap'
    OBVIOUS
  <2>1. bufLen \in Nat /\ filled \in Nat /\ filled <= bufLen /\ cur \in Requests
    BY DEF Inv, TypeOK, ReadHasRoom
  <2>2. CASE ParseHead
    <3>1. consumed <= MaxBuf
      BY <2>1, <2>2 DEF ParseHead, HeadersComplete
    <3>2. bodyEnd <= MaxBuf
      BY <2>1, <3>1 DEF consumed, bodyEnd
    <3> QED
      BY <2>1, <2>2, <3>2 DEF ParseHead, MaxOf
  <2>3. CASE AwaitMore
    BY <2>1, <2>3 DEF AwaitMore, Grown, MinOf
  <2>4. CASE ~(ParseHead \/ AwaitMore)
    <3>1. bufLen' = bufLen
      BY <2>4 DEF Next, Send, Fin, Step, Compute, Write, ParseError, HeadersTooLarge, Read, ReadEof, BodyRead,
         BodyEof, BodyComplete, Call, WriteHead, WriteChunk, FinishLast, FinishAndShift,
         RejectWritten, Fault, IdleTimeout, FramingFails, IoFails, Return, Shift, Closed, vars
    <3> QED
      BY <3>1
  <2> QED
    BY <2>2, <2>3, <2>4
<1>3. Inv /\ Cap => HeaderCapExact
  BY DEF Inv, TypeOK, ReadHasRoom, BufferAt, HeaderCapExact
<1> QED
  BY <1>1, <1>2, <1>3, Invariance, PTL DEF Spec

(***************************************************************************)
(* What the cap does hold every request to, after whatever bodies: a       *)
(* single read, of at most what the kernel holds, can carry headers over   *)
(* it.                                                                     *)
(***************************************************************************)
THEOREM HeadersAreBounded == Spec => [](pc \in Guarded => consumed <= MaxBuf + RecvBuf - 1)
<1>1. Inv => (pc \in Guarded => consumed <= MaxBuf + RecvBuf - 1)
  BY DEF Inv, BufferAt, HeadLimit
<1> QED
  BY <1>1, Invariance, PTL
=============================================================================
