-------------------------- MODULE BodySpool_proofs --------------------------
(***************************************************************************)
(* Proofs about BodySpool, for any threads, chunk sizes, number of chunks  *)
(* and threshold: a file is made exactly at the threshold, wherever chunks *)
(* are yielded; a body is exact and leaves nothing behind, but for chunks  *)
(* that cross from one thread to another.                                  *)
(***************************************************************************)
EXTENDS BodySpool, TLAPS

(***************************************************************************)
(* The fields of an accumulator and of a chunk.                            *)
(***************************************************************************)
LEMMA AccumulatorFields ==
  ASSUME NEW a \in Accumulators
  PROVE  a.chunks \in Seq(Chunks) /\ a.size \in Nat /\ a.spooled \in BOOLEAN
<1>1. CASE a \in [spooled : {FALSE}, chunks : Seq(Chunks), size : 0..Threshold]
  <2>1. a.size \in 0..Threshold /\ a.chunks \in Seq(Chunks) /\ a.spooled = FALSE
    BY <1>1
  <2>2. a.size \in Nat
    BY <2>1, SpoolAssumption
  <2> QED
    BY <2>1, <2>2
<1>2. CASE a \in [spooled : {TRUE}, chunks : Seq(Chunks), size : Nat]
  BY <1>2
<1> QED
  BY <1>1, <1>2 DEF Accumulators

LEMMA ChunkSize == ASSUME NEW c \in Chunks PROVE c.size \in Nat
<1>1. c.size \in 1..MaxChunk
  BY DEF Chunks
<1> QED
  BY <1>1, SpoolAssumption

(***************************************************************************)
(* What spool_chunk does to an accumulator.                                *)
(***************************************************************************)
LEMMA SpoolChunkAppends ==
  ASSUME NEW a \in Accumulators, NEW c \in Chunks
  PROVE  /\ SpoolChunk(a, c) \in Accumulators
         /\ SpoolChunk(a, c).chunks = Append(a.chunks, c)
         /\ SpoolChunk(a, c).size = a.size + c.size
<1> USE SpoolAssumption
<1>1. a.chunks \in Seq(Chunks) /\ a.size \in Nat /\ a.spooled \in BOOLEAN
  BY AccumulatorFields
<1>2. c.size \in Nat /\ Append(a.chunks, c) \in Seq(Chunks) /\ a.size + c.size \in Nat
  BY <1>1, ChunkSize
<1>3. CASE a.spooled \/ TooLarge(a, c)
  <2>1. SpoolChunk(a, c) = Spooled(Append(a.chunks, c), a.size + c.size)
    BY <1>3 DEF SpoolChunk, Moved
  <2> QED
    BY <2>1, <1>2 DEF Spooled, Accumulators
<1>4. CASE ~a.spooled /\ ~TooLarge(a, c)
  <2>1. SpoolChunk(a, c) = InMemory(Append(a.chunks, c), a.size + c.size)
    BY <1>4 DEF SpoolChunk
  <2>2. a.size + c.size \in 0..Threshold
    BY <1>4, <1>2 DEF TooLarge
  <2> QED
    BY <2>1, <2>2, <1>2 DEF InMemory, Accumulators
<1> QED
  BY <1>3, <1>4

LEMMA SpoolChunkAtThreshold ==
  ASSUME NEW a \in Accumulators, NEW c \in Chunks, a.spooled <=> a.size > Threshold
  PROVE  SpoolChunk(a, c).spooled <=> SpoolChunk(a, c).size > Threshold
<1> USE SpoolAssumption
<1>1. a.size \in Nat /\ c.size \in Nat
  BY AccumulatorFields, ChunkSize
<1>2. CASE a.spooled
  <2>1. a.size + c.size > Threshold
    BY <1>1, <1>2
  <2> QED
    BY <2>1, <1>2 DEF SpoolChunk, Spooled
<1>3. CASE ~a.spooled /\ TooLarge(a, c)
  BY <1>3 DEF SpoolChunk, Moved, Spooled, TooLarge
<1>4. CASE ~a.spooled /\ ~TooLarge(a, c)
  BY <1>4, <1>1 DEF SpoolChunk, InMemory, TooLarge
<1> QED
  BY <1>2, <1>3, <1>4

(***************************************************************************)
(* What a write that fails leaves in the file of a body.                   *)
(***************************************************************************)
LEMMA TornIsSpooled ==
  ASSUME NEW a \in Accumulators, a.spooled, NEW c \in Chunks, NEW n \in 0..c.size - 1,
         a.size > Threshold
  PROVE  /\ Torn(a, c, n) \in Accumulators
         /\ Torn(a, c, n).spooled /\ Torn(a, c, n).size > Threshold
<1>1. CASE n = 0
  BY <1>1 DEF Torn
<1>2. CASE n # 0
  <2>1. a.chunks \in Seq(Chunks) /\ a.size \in Nat /\ c.size \in Nat /\ n \in Nat
    BY AccumulatorFields, ChunkSize
  <2>2. [c EXCEPT !.size = n] \in Chunks
    BY <1>2, <2>1, SpoolAssumption DEF Chunks
  <2>3. Append(a.chunks, [c EXCEPT !.size = n]) \in Seq(Chunks)
    BY <2>1, <2>2
  <2>4. a.size + n \in Nat /\ a.size + n > Threshold
    BY <2>1, SpoolAssumption
  <2>5. Torn(a, c, n) = Spooled(Append(a.chunks, [c EXCEPT !.size = n]), a.size + n)
    BY <1>2 DEF Torn
  <2> QED
    BY <2>3, <2>4, <2>5 DEF Spooled, Accumulators
<1> QED
  BY <1>1, <1>2

LEMMA EmptyIsAccumulator == /\ Empty \in Accumulators
                            /\ Empty.chunks = <<>> /\ Empty.size = 0 /\ ~Empty.spooled
<1>1. 0 \in 0..Threshold /\ <<>> \in Seq(Chunks)
  BY SpoolAssumption
<1> QED
  BY <1>1 DEF Empty, InMemory, Accumulators

(***************************************************************************)
(* The chunk a body yields next is one that the type of chunks has.        *)
(***************************************************************************)
LEMMA NextChunkIsChunk ==
  ASSUME TypeOK, NEW t \in Threads, NEW size \in 1..MaxChunk,
         bodies[t] # 0, Len(yielded[t]) < MaxYields
  PROVE  NextChunk(t, size) \in Chunks
<1>1. bodies[t] \in 1..MaxBodies
  BY SpoolAssumption DEF TypeOK
<1>2. Len(yielded[t]) + 1 \in 1..MaxYields
  <2>1. Len(yielded[t]) \in Nat
    BY DEF TypeOK
  <2> QED
    BY <2>1, SpoolAssumption
<1> QED
  BY <1>1, <1>2 DEF NextChunk, Chunks
-----------------------------------------------------------------------------
(***************************************************************************)
(* A body that is being read has been begun.                               *)
(***************************************************************************)
Begun == \A t \in Threads : phase[t] # "over" => bodies[t] # 0

TInv == TypeOK /\ Begun /\ SpooledWhenLarge

LEMMA TInit == Init => TInv
  BY SpoolAssumption, EmptyIsAccumulator
     DEF Init, TInv, TypeOK, Begun, SpooledWhenLarge

LEMMA TNext == TInv /\ [Next]_vars => TInv'
<1> SUFFICES ASSUME TInv, [Next]_vars PROVE TInv'
    OBVIOUS
<1> USE SpoolAssumption
<1>1. ASSUME NEW t \in Threads, Enter(t) PROVE TInv'
  <2>1. bodies[t] + 1 \in 0..MaxBodies /\ bodies[t] + 1 # 0
    BY <1>1 DEF TInv, TypeOK, Enter, ClearedBefore
  <2>2. <<>> \in Seq(Chunks)
    OBVIOUS
  <2>3. TypeOK'
    BY <1>1, <2>1, <2>2, EmptyIsAccumulator DEF TInv, TypeOK, Enter, ClearedBefore
  <2>4. Begun'
    BY <1>1, <2>1 DEF TInv, TypeOK, Begun, Enter
  <2>5. SpooledWhenLarge'
    BY <1>1, EmptyIsAccumulator DEF TInv, TypeOK, SpooledWhenLarge, Enter, ClearedBefore
  <2> QED
    BY <2>3, <2>4, <2>5 DEF TInv
<1>2. ASSUME NEW t \in Threads, EnterNested(t) PROVE TInv'
  BY <1>2 DEF TInv, TypeOK, Begun, SpooledWhenLarge, EnterNested, Refused,
              resultVars, historyVars
<1>3. ASSUME NEW t \in Threads, Yield(t) PROVE TInv'
  <2>1. PICK u \in Threads, size \in 1..MaxChunk :
          /\ acc' = [acc EXCEPT ![u] = SpoolChunk(@, NextChunk(t, size))]
          /\ yielded' = [yielded EXCEPT ![t] = Append(@, NextChunk(t, size))]
          /\ crossed' = [v \in Threads |-> crossed[v] \/ (u # t /\ v \in {u, t})]
    BY <1>3 DEF Yield, Crossing
  <2>2. crossed' \in [Threads -> BOOLEAN]
    BY <2>1
  <2>3. NextChunk(t, size) \in Chunks
    BY <1>3, NextChunkIsChunk DEF TInv, Begun, Yield
  <2>4. acc[u] \in Accumulators /\ yielded[t] \in Seq(Chunks)
    BY DEF TInv, TypeOK
  <2>5. SpoolChunk(acc[u], NextChunk(t, size)) \in Accumulators
    BY <2>3, <2>4, SpoolChunkAppends
  <2>6. Append(yielded[t], NextChunk(t, size)) \in Seq(Chunks)
    BY <2>3, <2>4
  <2>7. TypeOK'
    BY <1>3, <2>1, <2>2, <2>5, <2>6 DEF TInv, TypeOK, Yield, resultVars
  <2>8. acc'[u].spooled <=> acc'[u].size > Threshold
    BY <2>1, <2>2, <2>3, <2>4, SpoolChunkAtThreshold DEF TInv, TypeOK, SpooledWhenLarge
  <2>9. SpooledWhenLarge'
    BY <2>1, <2>2, <2>8 DEF TInv, TypeOK, SpooledWhenLarge
  <2>10. Begun'
    BY <1>3 DEF TInv, Begun, Yield
  <2> QED
    BY <2>7, <2>9, <2>10 DEF TInv
<1>4. ASSUME NEW t \in Threads, YieldFails(t) PROVE TInv'
  <2>1. PICK u \in Threads, size \in 1..MaxChunk :
          /\ yielded' = [yielded EXCEPT ![t] = Append(@, NextChunk(t, size))]
          /\ \/ UNCHANGED <<acc, crossed>>
             \/ /\ acc[u].spooled
                /\ \E n \in 0..size - 1 :
                     /\ acc' = [acc EXCEPT ![u] = Torn(@, NextChunk(t, size), n)]
                     /\ crossed' = IF n = 0 THEN crossed ELSE Crossing(t, u)
    BY <1>4 DEF YieldFails
  <2>2. NextChunk(t, size) \in Chunks /\ NextChunk(t, size).size = size
    BY <1>4, NextChunkIsChunk DEF TInv, Begun, YieldFails, NextChunk
  <2>3. acc[u] \in Accumulators /\ yielded[t] \in Seq(Chunks)
    BY DEF TInv, TypeOK
  <2>4. Append(yielded[t], NextChunk(t, size)) \in Seq(Chunks)
    BY <2>2, <2>3
  <2>5. yielded' \in [Threads -> Seq(Chunks)]
    BY <2>1, <2>4 DEF TInv, TypeOK
  <2>6. crossed' \in [Threads -> BOOLEAN]
    BY <2>1 DEF TInv, TypeOK, Crossing
  <2>7. /\ acc' \in [Threads -> Accumulators]
        /\ SpooledWhenLarge'
    <3>1. CASE UNCHANGED acc
      BY <3>1 DEF TInv, TypeOK, SpooledWhenLarge
    <3>2. ASSUME acc[u].spooled, NEW n \in 0..size - 1,
                 acc' = [acc EXCEPT ![u] = Torn(@, NextChunk(t, size), n)]
          PROVE  acc' \in [Threads -> Accumulators] /\ SpooledWhenLarge'
      <4>1. acc[u].size > Threshold
        BY <3>2 DEF TInv, SpooledWhenLarge
      <4>2. /\ Torn(acc[u], NextChunk(t, size), n) \in Accumulators
            /\ Torn(acc[u], NextChunk(t, size), n).spooled
            /\ Torn(acc[u], NextChunk(t, size), n).size > Threshold
        BY <2>2, <2>3, <3>2, <4>1, TornIsSpooled
      <4> QED
        BY <3>2, <4>2 DEF TInv, TypeOK, SpooledWhenLarge
    <3> QED
      BY <2>1, <3>1, <3>2
  <2>8. phase' = [phase EXCEPT ![t] = "failed"] /\ UNCHANGED <<reading, resultVars, bodies, rescued>>
    BY <1>4 DEF YieldFails, Raise
  <2>9. TypeOK'
    BY <2>5, <2>6, <2>7, <2>8 DEF TInv, TypeOK, resultVars
  <2>10. Begun'
    BY <1>4, <2>8 DEF TInv, TypeOK, Begun, YieldFails
  <2> QED
    BY <2>7, <2>9, <2>10 DEF TInv
<1>5. ASSUME NEW t \in Threads, YieldsNoString(t) PROVE TInv'
  BY <1>5 DEF TInv, TypeOK, Begun, SpooledWhenLarge, YieldsNoString, Raise,
              resultVars, historyVars
<1>6. ASSUME NEW t \in Threads, Rescue(t) PROVE TInv'
  <2>1. rescued' \in [Threads -> BOOLEAN]
    <3>1. rescued' = [rescued EXCEPT ![t] = @ \/ phase[t] = "failed"]
      BY <1>6 DEF Rescue
    <3> QED
      BY <3>1 DEF TInv, TypeOK
  <2> QED
    BY <1>6, <2>1 DEF TInv, TypeOK, Begun, SpooledWhenLarge, Rescue, resultVars
<1>7. ASSUME NEW t \in Threads, EachReturns(t) PROVE TInv'
  BY <1>7, EmptyIsAccumulator DEF TInv, TypeOK, Begun, SpooledWhenLarge, EachReturns,
              Return, ResetOnDrop, historyVars
<1>8. ASSUME NEW t \in Threads, EachRaises(t) PROVE TInv'
  BY <1>8, EmptyIsAccumulator DEF TInv, TypeOK, Begun, SpooledWhenLarge, EachRaises,
              Return, ResetOnDrop, historyVars
<1>9. CASE UNCHANGED vars
  BY <1>9 DEF TInv, TypeOK, Begun, SpooledWhenLarge, vars, resultVars, historyVars
<1> QED
  BY <1>1, <1>2, <1>3, <1>4, <1>5, <1>6, <1>7, <1>8, <1>9 DEF Next, Done

(***************************************************************************)
(* Every reachable accumulator, result and flag is of its type; a body in  *)
(* memory never has more than the threshold.                               *)
(***************************************************************************)
THEOREM TypeCorrect == Spec => []TypeOK
<1>1. TInv => TypeOK
  BY DEF TInv
<1> QED
  BY <1>1, TInit, TNext, PTL DEF Spec

(***************************************************************************)
(* spool_chunk switches to a file exactly when the body passes the         *)
(* threshold, also when chunks come from the wrong thread, when yields     *)
(* fail and when nested reads are refused.                                 *)
(***************************************************************************)
THEOREM SpoolsAtThreshold == Spec => []SpooledWhenLarge
<1>1. TInv => SpooledWhenLarge
  BY DEF TInv
<1> QED
  BY <1>1, TInit, TNext, PTL DEF Spec
-----------------------------------------------------------------------------
(***************************************************************************)
(* While `each` runs, the accumulator is what it has yielded, whatever was *)
(* in it before; a result is there only after it has ended.                *)
(***************************************************************************)
Collecting ==
  \A t \in Threads : phase[t] # "over" =>
                       /\ outcome[t] = "none"
                       /\ \/ rescued[t] \/ crossed[t]
                          \/ phase[t] = "failed"
                          \/ acc[t].chunks = yielded[t]

EInv == TInv /\ Collecting /\ BodyExact /\ NothingLeftBehind

LEMMA EInit == Init => EInv
  BY TInit DEF Init, EInv, Collecting, BodyExact, NothingLeftBehind

LEMMA ENext == EInv /\ [Next]_vars => EInv'
<1> SUFFICES ASSUME EInv, [Next]_vars PROVE EInv'
    OBVIOUS
<1>0. TInv'
  BY TNext DEF EInv
<1>1. ASSUME NEW t \in Threads, Enter(t) PROVE EInv'
  BY <1>0, <1>1, EmptyIsAccumulator DEF EInv, TInv, TypeOK, Collecting, BodyExact,
     NothingLeftBehind, Enter, ClearedBefore
<1>2. ASSUME NEW t \in Threads, EnterNested(t) PROVE EInv'
  BY <1>0, <1>2 DEF EInv, Collecting, BodyExact, NothingLeftBehind, EnterNested, Refused,
     resultVars, historyVars
<1>3. ASSUME NEW t \in Threads, Yield(t) PROVE EInv'
  <2>1. PICK u \in Threads, size \in 1..MaxChunk :
          /\ acc' = [acc EXCEPT ![u] = SpoolChunk(@, NextChunk(t, size))]
          /\ yielded' = [yielded EXCEPT ![t] = Append(@, NextChunk(t, size))]
          /\ crossed' = [v \in Threads |-> crossed[v] \/ (u # t /\ v \in {u, t})]
    BY <1>3 DEF Yield, Crossing
  <2>2. phase[t] = "each" /\ reading[t] /\ UNCHANGED <<reading, phase, outcome, result, rescued>>
    BY <1>3 DEF EInv, NothingLeftBehind, Yield, resultVars
  <2>3. \A v \in Threads \ {t, u} :
          acc'[v] = acc[v] /\ yielded'[v] = yielded[v] /\ crossed'[v] = crossed[v]
    BY <2>1 DEF EInv, TInv, TypeOK
  <2>4. u # t => crossed'[u] /\ crossed'[t]
    BY <2>1
  <2>5. ASSUME u = t
        PROVE  /\ crossed'[t] = crossed[t]
               /\ acc[t].chunks = yielded[t] => acc'[t].chunks = yielded'[t]
    <3>1. NextChunk(t, size) \in Chunks
      BY <1>3, NextChunkIsChunk DEF EInv, TInv, Begun, Yield
    <3>2. acc[t] \in Accumulators
      BY DEF EInv, TInv, TypeOK
    <3>3. acc'[t].chunks = Append(acc[t].chunks, NextChunk(t, size))
      BY <2>1, <2>5, <3>1, <3>2, SpoolChunkAppends DEF EInv, TInv, TypeOK
    <3>4. yielded'[t] = Append(yielded[t], NextChunk(t, size))
      BY <2>1 DEF EInv, TInv, TypeOK
    <3>5. crossed'[t] = crossed[t]
      BY <2>1, <2>5 DEF EInv, TInv, TypeOK
    <3> QED
      BY <3>3, <3>4, <3>5
  <2>6. Collecting'
    BY <2>2, <2>3, <2>4, <2>5 DEF EInv, Collecting
  <2>7. BodyExact'
    BY <2>2, <2>3, <2>4, <2>5 DEF EInv, Collecting, BodyExact
  <2>8. NothingLeftBehind'
    BY <2>2, <2>3, <2>4 DEF EInv, NothingLeftBehind
  <2> QED
    BY <1>0, <2>6, <2>7, <2>8 DEF EInv
<1>4. ASSUME NEW t \in Threads, YieldFails(t) PROVE EInv'
  <2>1. PICK u \in Threads, size \in 1..MaxChunk :
          /\ yielded' = [yielded EXCEPT ![t] = Append(@, NextChunk(t, size))]
          /\ \/ UNCHANGED <<acc, crossed>>
             \/ \E n \in 0..size - 1 :
                  /\ acc' = [acc EXCEPT ![u] = Torn(@, NextChunk(t, size), n)]
                  /\ crossed' = IF n = 0 THEN crossed ELSE Crossing(t, u)
    BY <1>4 DEF YieldFails
  <2>2. /\ phase[t] = "each" /\ reading[t] /\ phase'[t] = "failed"
        /\ \A v \in Threads \ {t} : phase'[v] = phase[v] /\ yielded'[v] = yielded[v]
        /\ UNCHANGED <<reading, outcome, result, rescued>>
    BY <1>4, <2>1 DEF EInv, TInv, TypeOK, NothingLeftBehind, YieldFails, Raise, resultVars
  <2>3. \A v \in Threads \ {t} : crossed'[v] \/ (UNCHANGED <<acc[v], crossed[v]>>)
    <3>1. CASE UNCHANGED <<acc, crossed>>
      BY <3>1
    <3>2. ASSUME NEW n \in 0..size - 1,
                 acc' = [acc EXCEPT ![u] = Torn(@, NextChunk(t, size), n)],
                 crossed' = IF n = 0 THEN crossed ELSE Crossing(t, u)
          PROVE  \A v \in Threads \ {t} : crossed'[v] \/ (UNCHANGED <<acc[v], crossed[v]>>)
      <4>1. CASE n = 0
        BY <3>2, <4>1 DEF EInv, TInv, TypeOK, Torn
      <4>2. CASE n # 0
        BY <3>2, <4>2 DEF EInv, TInv, TypeOK, Crossing
      <4> QED
        BY <4>1, <4>2
    <3> QED
      BY <2>1, <3>1, <3>2
  <2>4. crossed[t] => crossed'[t]
    BY <2>1 DEF Crossing
  <2> QED
    BY <1>0, <2>2, <2>3, <2>4 DEF EInv, Collecting, BodyExact, NothingLeftBehind
<1>5. ASSUME NEW t \in Threads, YieldsNoString(t) PROVE EInv'
  BY <1>0, <1>5 DEF EInv, TInv, TypeOK, Collecting, BodyExact, NothingLeftBehind,
     YieldsNoString, Raise, resultVars, historyVars
<1>6. ASSUME NEW t \in Threads, Rescue(t) PROVE EInv'
  <2>1. /\ phase[t] \in {"raised", "failed"} /\ phase'[t] = "each"
        /\ phase[t] = "failed" => rescued'[t]
        /\ rescued[t] => rescued'[t]
    BY <1>6 DEF EInv, TInv, TypeOK, Rescue
  <2>2. \A v \in Threads \ {t} : phase'[v] = phase[v] /\ rescued'[v] = rescued[v]
    BY <1>6 DEF EInv, TInv, TypeOK, Rescue
  <2>3. UNCHANGED <<acc, reading, outcome, result, bodies, yielded, crossed>>
    BY <1>6 DEF Rescue, resultVars
  <2> QED
    BY <1>0, <2>1, <2>2, <2>3 DEF EInv, Collecting, BodyExact, NothingLeftBehind
<1>7. ASSUME NEW t \in Threads, EachReturns(t) PROVE EInv'
  <2>1. rescued[t] \/ crossed[t] \/ acc[t].chunks = yielded[t]
    BY <1>7 DEF EInv, Collecting, EachReturns
  <2>2. /\ phase'[t] = "over" /\ ~reading'[t] /\ acc'[t] = Empty
        /\ outcome'[t] = "body" /\ result'[t] = acc[t]
        /\ UNCHANGED <<yielded, rescued, crossed>>
    BY <1>7 DEF EInv, TInv, TypeOK, EachReturns, Return, ResetOnDrop, historyVars
  <2>3. \A v \in Threads \ {t} :
          UNCHANGED <<phase[v], reading[v], acc[v], outcome[v], result[v]>>
    BY <1>7 DEF EInv, TInv, TypeOK, EachReturns, Return, ResetOnDrop
  <2>4. Collecting'
    BY <2>2, <2>3 DEF EInv, Collecting
  <2>5. BodyExact'
    BY <2>1, <2>2, <2>3 DEF EInv, BodyExact
  <2>6. NothingLeftBehind'
    BY <2>2, <2>3 DEF EInv, NothingLeftBehind
  <2> QED
    BY <1>0, <2>4, <2>5, <2>6 DEF EInv
<1>8. ASSUME NEW t \in Threads, EachRaises(t) PROVE EInv'
  BY <1>0, <1>8 DEF EInv, TInv, TypeOK, Collecting, BodyExact, NothingLeftBehind,
     EachRaises, Return, ResetOnDrop, historyVars
<1>9. CASE UNCHANGED vars
  BY <1>0, <1>9 DEF EInv, Collecting, BodyExact, NothingLeftBehind, vars, resultVars,
     historyVars
<1> QED
  BY <1>1, <1>2, <1>3, <1>4, <1>5, <1>6, <1>7, <1>8, <1>9 DEF Next, Done

(***************************************************************************)
(* read_body returns the chunks of its body, all of them and in order, if  *)
(* they were yielded on its thread and no other body's bytes came there,   *)
(* also those of a write that failed; an `each` that goes on after a       *)
(* failed file operation is the one exception.                             *)
(***************************************************************************)
THEOREM ReadsExactly == Spec => []BodyExact
<1>1. EInv => BodyExact
  BY DEF EInv
<1> QED
  BY <1>1, EInit, ENext, PTL DEF Spec

(***************************************************************************)
(* And ResetOnDrop leaves nothing behind on any path out of read_body.     *)
(***************************************************************************)
THEOREM LeavesNothing == Spec => []NothingLeftBehind
<1>1. EInv => NothingLeftBehind
  BY DEF EInv
<1> QED
  BY <1>1, EInit, ENext, PTL DEF Spec
=============================================================================
