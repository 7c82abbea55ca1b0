----------------------- MODULE SignalTrapsChain_proofs -----------------------
(***************************************************************************)
(* What follows a signal: the chain of previous handlers ends with the     *)
(* embedder's, no request is older than the call it stops, and calls that  *)
(* do not overlap put back what they found and are ended by a signal.  For *)
(* any number of calls and, but for that end, any set of signals.          *)
(***************************************************************************)
EXTENDS SignalTraps_proofs

-----------------------------------------------------------------------------
(***************************************************************************)
(* Requests.                                                               *)
(***************************************************************************)
LEMMA RequestNext == TypeOK /\ NoStaleRequest /\ [Next]_vars => NoStaleRequest'
<1> SUFFICES ASSUME TypeOK, NoStaleRequest, [Next]_vars PROVE NoStaleRequest'
    OBVIOUS
<1> USE DEF NoStaleRequest, TypeOK, callVars, processVars, signalVars
<1>1. ASSUME NEW c \in Calls, Begin(c) PROVE NoStaleRequest'
  BY <1>1 DEF Begin, ResetShutdownRequest
<1>2. CASE TrapBody
  BY <1>2 DEF TrapBody
\* Every other step of a call that ends in Running starts there.
<1>3. ASSUME UNCHANGED <<requested, signalled>>,
             \A d \in Calls : pc'[d] \in Running => pc[d] \in Running
      PROVE  NoStaleRequest'
  BY <1>3
<1>4. ASSUME NEW c \in Calls, CallStep(c) \/ NativeRaises(c) \/ Killed(c) PROVE NoStaleRequest'
  <2>1. UNCHANGED <<requested, signalled>>
    BY <1>4 DEF CallStep, LockToInstall, SetTrap, AssignPrevious, EnterNative, Stop, LockToRestore,
                RestoreTrap, ServeReturns, NativeRaises, Killed
  <2>2. \A d \in Calls : pc'[d] \in Running => pc[d] \in Running
    BY <1>4 DEF CallStep, LockToInstall, SetTrap, AssignPrevious, EnterNative, Stop, LockToRestore,
                RestoreTrap, ServeReturns, NativeRaises, Killed, AfterEarlyKill, Goto,
                Running, Installing
  <2> QED
    BY <1>3, <2>1, <2>2
<1>5. CASE (\E s \in Signals : Deliver(s)) \/ OriginalRuns \/ UNCHANGED vars
  BY <1>3, <1>5 DEF Deliver, OriginalRuns, vars
<1> QED
  BY <1>1, <1>2, <1>4, <1>5 DEF Next

(***************************************************************************)
(* A server is never stopped by a signal that is older than its call.      *)
(***************************************************************************)
THEOREM NoRequestIsStale == Spec => []NoStaleRequest
<1>1. Init => NoStaleRequest
  BY DEF Init, NoStaleRequest
<1> QED
  BY <1>1, TypeCorrect, RequestNext, PTL DEF Spec

-----------------------------------------------------------------------------
(***************************************************************************)
(* The chain.                                                              *)
(***************************************************************************)
\* What Signal.trap returned to a call for s, assigned or not; Nil before it has
\* trapped s.
Found(c, s) == IF returned[c] # Nil /\ returned[c][1] = s THEN returned[c][2] ELSE previous[c][s]

\* A call has found nothing on what it has not trapped yet.
Fresh(c) ==
  /\ returned[c] # Nil => pc[c] \in {"assign", "killed"}
  /\ pc[c] \in {"idle", "lock"} => \A s \in Signals : Found(c, s) = Nil
  /\ pc[c] \in {"trap", "assign"} => \A s \in todo[c] : Found(c, s) = Nil

\* Traps that are installed, or to be chained to, belong to calls that have trapped s.
Linked(s) == \A h \in {handler[s]} \cup {Found(c, s) : c \in Calls} :
               h \in Calls => Found(h, s) # Nil

\* No set of calls that have trapped s is closed: one of them leads out of it.
Acyclic(s) == \A S \in SUBSET Calls :
                (\E c \in S : Found(c, s) # Nil) => \E c \in S : Found(c, s) \in Handlers \ S

Chain == (\A c \in Calls : Fresh(c)) /\ \A s \in Signals : Linked(s) /\ Acyclic(s)

LEMMA ChainInit == Init => Chain
BY TrapsAssumption DEF Init, Chain, Fresh, Linked, Acyclic, Found

LEMMA NilIsNone == Nil \notin Handlers /\ Nil \notin Signals \X Handlers
BY TrapsAssumption DEF Handlers

\* Steps that find nothing new and install nothing.
LEMMA ChainKeeps ==
  ASSUME Chain, UNCHANGED handler, \A c \in Calls : Fresh(c)',
         \A c \in Calls, s \in Signals : Found(c, s)' = Found(c, s)
  PROVE  Chain'
BY DEF Chain, Linked, Acyclic

LEMMA ChainSetTrap ==
  ASSUME Inv, Chain, NEW c \in Calls, NEW s \in Signals, SetTrap(c, s)
  PROVE  Chain'
<1> USE NilIsNone
<1>1. /\ pc[c] = "trap" /\ pc'[c] = "assign" /\ s \in todo[c] /\ todo'[c] = todo[c] \ {s}
      /\ previous' = previous /\ handler' = [handler EXCEPT ![s] = c]
      /\ returned'[c] = <<s, handler[s]>> /\ handler[s] \in Handlers
      /\ \A d \in Calls \ {c} : /\ pc'[d] = pc[d] /\ todo'[d] = todo[d]
                                /\ returned'[d] = returned[d]
  BY DEF SetTrap, Goto, Inv, TypeOK, PCs, Running, Installing
<1>2. returned[c] = Nil
  BY <1>1 DEF Chain, Fresh
<1>3. returned'[c] # Nil /\ returned'[c][1] = s /\ returned'[c][2] = handler[s]
  BY <1>1 DEF Handlers
<1>4. Found(c, s) = Nil /\ Found(c, s)' = handler[s]
  BY <1>1, <1>3 DEF Chain, Fresh, Found
<1>5. \A d \in Calls, t \in Signals : d # c \/ t # s => Found(d, t)' = Found(d, t)
  BY <1>1, <1>2, <1>3 DEF Found
<1>6. ASSUME NEW d \in Calls PROVE Fresh(d)'
  <2>1. CASE d = c
    <3>1. \A t \in todo[c] : Found(c, t) = Nil /\ t \in Signals
      BY <1>1 DEF Chain, Fresh, Inv, TypeOK
    <3> QED
      BY <1>1, <1>5, <2>1, <3>1 DEF Fresh
  <2>2. CASE d # c
    <3>1. Fresh(d) /\ \A t \in todo[d] : t \in Signals
      BY DEF Chain, Inv, TypeOK
    <3> QED
      BY <1>1, <1>5, <2>2, <3>1 DEF Fresh
  <2> QED
    BY <2>1, <2>2
\* Nothing led to c for s before.
<1>7. handler[s] # c /\ \A d \in Calls : Found(d, s) # c
  BY <1>4 DEF Chain, Linked
<1>8. ASSUME NEW t \in Signals \ {s} PROVE Linked(t)' /\ Acyclic(t)'
  <2>1. handler'[t] = handler[t] /\ \A d \in Calls : Found(d, t)' = Found(d, t)
    BY <1>1, <1>5 DEF Inv, TypeOK
  <2>2. Linked(t) /\ Acyclic(t)
    BY DEF Chain
  <2> QED
    BY <2>1, <2>2 DEF Linked, Acyclic
<1>9. Linked(s)'
  <2>1. handler'[s] = c
    BY <1>1 DEF Inv, TypeOK
  <2>2. \A d \in Calls : Found(d, s) # Nil => Found(d, s)' # Nil
    BY <1>1, <1>4, <1>5
  <2>3. handler[s] \in Calls => Found(handler[s], s) # Nil
    BY DEF Chain, Linked
  <2>4. \A d \in Calls : Found(d, s) \in Calls => Found(Found(d, s), s) # Nil
    BY DEF Chain, Linked
  <2>5. SUFFICES ASSUME NEW h \in {handler'[s]} \cup {Found(d, s)' : d \in Calls}, h \in Calls
                 PROVE  Found(h, s)' # Nil
    BY DEF Linked
  <2>6. h = c \/ h = handler[s] \/ \E d \in Calls : h = Found(d, s)
    BY <1>4, <1>5, <2>1, <2>5
  <2> QED
    BY <1>1, <1>4, <2>2, <2>3, <2>4, <2>5, <2>6
<1>10. Acyclic(s)'
  <2>1. SUFFICES ASSUME NEW S \in SUBSET Calls, NEW d \in S, Found(d, s)' # Nil
                 PROVE  \E e \in S : Found(e, s)' \in Handlers \ S
    BY DEF Acyclic
  <2>2. \A T \in SUBSET Calls :
          (\E e \in T : Found(e, s) # Nil) => \E e \in T : Found(e, s) \in Handlers \ T
    BY DEF Chain, Acyclic
  <2>3. CASE c \notin S
    BY <1>5, <2>1, <2>2, <2>3
  <2>4. CASE c \in S /\ handler[s] \notin S
    BY <1>1, <1>4, <2>4
  <2>5. CASE c \in S /\ handler[s] \in S
    <3>1. handler[s] \in S \ {c} /\ Found(handler[s], s) # Nil
      BY <1>7, <2>5 DEF Chain, Linked
    <3>2. PICK e \in S \ {c} : Found(e, s) \in Handlers \ (S \ {c})
      BY <2>2, <3>1
    <3>3. Found(e, s) # c /\ Found(e, s)' = Found(e, s)
      BY <1>5, <1>7, <3>2
    <3> QED
      BY <3>2, <3>3
  <2> QED
    BY <2>3, <2>4, <2>5
<1> QED
  BY <1>6, <1>8, <1>9, <1>10 DEF Chain

LEMMA ChainAssign == ASSUME Inv, Chain, NEW c \in Calls, AssignPrevious(c) PROVE Chain'
<1> USE NilIsNone
<1>1. /\ pc[c] = "assign" /\ pc'[c] \in {"trap", "installed"}
      /\ previous' = [previous EXCEPT ![c][returned[c][1]] = returned[c][2]]
      /\ returned' = [returned EXCEPT ![c] = Nil]
      /\ \A d \in Calls \ {c} : pc'[d] = pc[d]
      /\ UNCHANGED <<todo, handler>>
  BY DEF AssignPrevious, Kept, Goto, Inv, TypeOK
<1>2. returned[c] \in Signals \X Handlers /\ returned[c] # Nil
  BY <1>1 DEF Inv, LoopAt, TypeOK
<1>3. \A d \in Calls, s \in Signals : Found(d, s)' = Found(d, s)
  BY <1>1, <1>2 DEF Found, Inv, TypeOK
<1>4. ASSUME NEW d \in Calls PROVE Fresh(d)'
  <2>1. Fresh(d) /\ todo[d] \subseteq Signals
    BY DEF Chain, Inv, TypeOK
  <2>2. CASE d = c
    BY <1>1, <1>3, <2>1, <2>2 DEF Fresh, Inv, TypeOK
  <2>3. CASE d # c
    BY <1>1, <1>3, <2>1, <2>3 DEF Fresh, Inv, TypeOK
  <2> QED
    BY <2>2, <2>3
<1> QED
  BY <1>1, <1>3, <1>4, ChainKeeps

LEMMA ChainRestore ==
  ASSUME Inv, Chain, NEW c \in Calls, NEW s \in Signals, RestoreTrap(c, s)
  PROVE  Chain'
<1>1. /\ pc[c] = "restore" /\ s \in todo[c] /\ todo'[c] = todo[c] \ {s}
      /\ handler' = [handler EXCEPT ![s] = previous[c][s]]
      /\ UNCHANGED <<pc, returned, previous>>
      /\ \A d \in Calls \ {c} : todo'[d] = todo[d]
  BY DEF RestoreTrap, Inv, TypeOK
<1>2. returned[c] = Nil /\ previous[c][s] = Found(c, s)
  BY <1>1 DEF Chain, Fresh, Found
<1>3. \A d \in Calls, t \in Signals : Found(d, t)' = Found(d, t)
  BY <1>1 DEF Found
<1>4. ASSUME NEW d \in Calls PROVE Fresh(d)'
  <2>1. Fresh(d) /\ todo[d] \subseteq Signals
    BY DEF Chain, Inv, TypeOK
  <2>2. UNCHANGED <<pc[d], returned[d]>> /\ (pc[d] \in {"trap", "assign"} => todo'[d] = todo[d])
    BY <1>1
  <2> QED
    BY <1>3, <2>1, <2>2 DEF Fresh
<1>5. ASSUME NEW t \in Signals PROVE Linked(t)' /\ Acyclic(t)'
  <2>1. Linked(t) /\ Acyclic(t)
    BY DEF Chain
  <2>2. handler'[t] = handler[t] \/ handler'[t] = Found(c, t)
    BY <1>1, <1>2 DEF Inv, TypeOK
  <2> QED
    BY <1>3, <2>1, <2>2 DEF Linked, Acyclic
<1> QED
  BY <1>4, <1>5 DEF Chain

LEMMA ChainNext == Inv /\ Chain /\ [Next]_vars => Chain'
<1> SUFFICES ASSUME Inv, Chain, [Next]_vars PROVE Chain'
    OBVIOUS
<1> USE DEF callVars, processVars, signalVars
\* What is left of a call's steps: they move it on and find nothing.
<1>1. ASSUME NEW c \in Calls, UNCHANGED <<returned, previous, handler>>,
             \A d \in Calls \ {c} : pc'[d] = pc[d] /\ todo'[d] = todo[d],
             \/ pc[c] \in {"idle", "lock"} /\ pc'[c] \in {"lock", "trap"} /\ todo'[c] \subseteq Signals
             \/ pc'[c] \notin {"idle", "lock", "trap", "assign"}
                  /\ pc[c] # "killed" /\ (pc[c] = "assign" => pc'[c] = "killed")
      PROVE  Chain'
  <2>1. \A d \in Calls, s \in Signals : Found(d, s)' = Found(d, s)
    BY <1>1 DEF Found
  <2>2. ASSUME NEW d \in Calls PROVE Fresh(d)'
    <3>1. Fresh(d) /\ todo[d] \subseteq Signals
      BY DEF Chain, Inv, TypeOK
    <3>2. CASE d # c
      BY <1>1, <2>1, <3>1, <3>2 DEF Fresh
    <3>3. CASE d = c
      <4>1. returned'[c] # Nil => pc'[c] = "killed"
        BY <1>1, <3>1, <3>3 DEF Fresh
      <4>2. CASE pc[c] \in {"idle", "lock"} /\ pc'[c] \in {"lock", "trap"} /\ todo'[c] \subseteq Signals
        BY <2>1, <3>1, <3>3, <4>1, <4>2 DEF Fresh
      <4>3. CASE pc'[c] \notin {"idle", "lock", "trap", "assign"}
        BY <3>3, <4>1, <4>3 DEF Fresh
      <4> QED
        BY <1>1, <4>2, <4>3
    <3> QED
      BY <3>2, <3>3
  <2> QED
    BY <1>1, <2>1, <2>2, ChainKeeps
<1>2. ASSUME NEW c \in Calls,
             \/ Begin(c) \/ LockToInstall(c) \/ EnterNative(c) \/ Stop(c) \/ NativeRaises(c)
             \/ Killed(c) \/ LockToRestore(c) \/ ServeReturns(c)
      PROVE  Chain'
  <2>1. UNCHANGED <<returned, previous, handler>>
    BY <1>2 DEF Begin, LockToInstall, EnterNative, Stop, NativeRaises, Killed, LockToRestore,
                ServeReturns
  <2>2. \A d \in Calls \ {c} : pc'[d] = pc[d] /\ todo'[d] = todo[d]
    BY <1>2 DEF Begin, LockToInstall, EnterNative, Stop, NativeRaises, Killed, LockToRestore,
                ServeReturns, Goto, Inv, TypeOK
  <2>3. \/ pc[c] \in {"idle", "lock"} /\ pc'[c] \in {"lock", "trap"} /\ todo'[c] \subseteq Signals
        \/ pc'[c] \notin {"idle", "lock", "trap", "assign"}
             /\ pc[c] # "killed" /\ (pc[c] = "assign" => pc'[c] = "killed")
    BY <1>2 DEF Begin, LockToInstall, EnterNative, Stop, NativeRaises, Killed, LockToRestore,
                ServeReturns, Goto, AfterEarlyKill, Installing, Inv, TypeOK
  <2> QED
    BY <1>1, <2>1, <2>2, <2>3
<1>3. CASE (\E s \in Signals : Deliver(s)) \/ TrapBody \/ OriginalRuns \/ UNCHANGED vars
  <2>1. UNCHANGED <<pc, todo, returned, previous, handler>>
    BY <1>3 DEF Deliver, TrapBody, OriginalRuns, vars
  <2>2. \A d \in Calls, s \in Signals : Found(d, s)' = Found(d, s)
    BY <2>1 DEF Found
  <2>3. \A d \in Calls : todo[d] \subseteq Signals
    BY DEF Inv, TypeOK
  <2>4. ASSUME NEW d \in Calls PROVE Fresh(d)'
    BY <2>1, <2>2, <2>3 DEF Chain, Fresh
  <2> QED
    BY <2>1, <2>2, <2>4, ChainKeeps
<1> QED
  BY <1>2, <1>3, ChainSetTrap, ChainAssign, ChainRestore DEF Next, CallStep

(***************************************************************************)
(* Whatever trap a signal finds, the handlers it chains to lead to the     *)
(* embedder's own, but for a call that has not assigned yet what           *)
(* Signal.trap returned.                                                   *)
(***************************************************************************)
THEOREM ChainIsWhole == Spec => []ChainReachesOriginal
<1>1. TypeOK /\ Chain => ChainReachesOriginal
  <2>1. SUFFICES ASSUME TypeOK, Chain, NEW s \in Signals,
                        \A c \in Calls : returned[c] = Nil \/ returned[c][1] # s,
                        NEW S \in SUBSET Calls, handler[s] \in S
                 PROVE  \E c \in S : previous[c][s] \in Handlers \ S
    BY DEF ChainReachesOriginal
  <2>2. \A c \in Calls : Found(c, s) = previous[c][s]
    BY <2>1 DEF Found
  <2>3. Found(handler[s], s) # Nil
    BY <2>1 DEF Chain, Linked
  <2> QED
    BY <2>1, <2>2, <2>3 DEF Chain, Acyclic
<1>2. Spec => [](Inv /\ Chain)
  BY InvInit, ChainInit, InvNext, ChainNext, PTL DEF Spec
<1>3. Inv => TypeOK
  BY DEF Inv
<1> QED
  BY <1>1, <1>2, <1>3, PTL

-----------------------------------------------------------------------------
(***************************************************************************)
(* Calls that do not overlap.                                              *)
(***************************************************************************)
Active(c) == pc[c] \notin {"idle", "done", "killed"}

\* Where a call has s as it found it.
AsFound(c, s) == \/ pc[c] = "lock"
                 \/ pc[c] \in {"trap", "assign"} /\ s \in todo[c]
                 \/ pc[c] = "restore" /\ s \notin todo[c]

\* One call at a time; unless one was killed, each finds the embedder's handlers,
\* keeps them, is the current one, and puts them back.
Alone ==
  /\ \A c, d \in Calls : Active(c) /\ Active(d) => c = d
  /\ (\A c \in Calls : pc[c] # "killed") =>
       /\ (\A c \in Calls : ~Active(c)) => \A s \in Signals : handler[s] = Original
       /\ \A c \in Calls, s \in Signals :
            Active(c) => IF AsFound(c, s) THEN handler[s] = Original ELSE Found(c, s) = Original
       /\ \A c \in Calls : pc[c] \in {"installed", "native", "ensure"} => IsCurrent(c)

LEMMA AloneInit == Init => Alone
BY DEF Init, Alone, Active

LEMMA AloneNext ==
  ASSUME MayOverlap = FALSE, Inv, Chain, Alone, [Next]_vars PROVE Alone'
<1> USE NilIsNone DEF callVars, processVars, signalVars
<1>0. /\ pc \in [Calls -> PCs] /\ todo \in [Calls -> SUBSET Signals]
      /\ returned \in [Calls -> {Nil} \cup (Signals \X Handlers)]
      /\ handler \in [Signals -> Handlers]
      /\ previous \in [Calls -> [Signals -> Handlers \cup {Nil}]]
      /\ generation \in [Calls -> Nat]
  BY DEF Inv, TypeOK
\* A step of the active call c, described by what Alone sees of it.
<1>1. ASSUME NEW c \in Calls, \A d \in Calls \ {c} : pc'[d] = pc[d] /\ ~Active(d),
             pc'[c] = "killed"
             \/ (\A d \in Calls : pc[d] # "killed") =>
                  /\ pc'[c] \in {"idle", "done"} => \A s \in Signals : handler'[s] = Original
                  /\ Active(c)' => \A s \in Signals : IF AsFound(c, s)' THEN handler'[s] = Original
                                                      ELSE Found(c, s)' = Original
                  /\ pc'[c] \in {"installed", "native", "ensure"} => IsCurrent(c)',
             pc[c] # "killed"
      PROVE  Alone'
  <2>1. \A d \in Calls \ {c} : ~Active(d)'
    BY <1>1 DEF Active
  <2>2. \A d, e \in Calls : Active(d)' /\ Active(e)' => d = e
    BY <2>1
  <2>3. SUFFICES ASSUME \A d \in Calls : pc'[d] # "killed"
                 PROVE  /\ (\A d \in Calls : ~Active(d)') =>
                              \A s \in Signals : handler'[s] = Original
                        /\ \A d \in Calls, s \in Signals :
                             Active(d)' => IF AsFound(d, s)' THEN handler'[s] = Original
                                           ELSE Found(d, s)' = Original
                        /\ \A d \in Calls :
                             pc'[d] \in {"installed", "native", "ensure"} => IsCurrent(d)'
    BY <2>2 DEF Alone
  <2>4. \A d \in Calls : pc[d] # "killed"
    BY <1>1, <2>3
  <2>5. /\ pc'[c] \in {"idle", "done"} => \A s \in Signals : handler'[s] = Original
        /\ Active(c)' => \A s \in Signals : IF AsFound(c, s)' THEN handler'[s] = Original
                                            ELSE Found(c, s)' = Original
        /\ pc'[c] \in {"installed", "native", "ensure"} => IsCurrent(c)'
    BY <1>1, <2>3, <2>4
  <2>6. (\A d \in Calls : ~Active(d)') => \A s \in Signals : handler'[s] = Original
    BY <2>3, <2>5 DEF Active
  <2>7. \A d \in Calls : pc'[d] \in {"installed", "native", "ensure"} => d = c
    BY <2>1 DEF Active
  <2> QED
    BY <2>1, <2>5, <2>6, <2>7
\* What Alone says of the call that steps, and of the others.
<1>2. ASSUME NEW c \in Calls, Active(c)
      PROVE  /\ \A d \in Calls \ {c} : ~Active(d)
             /\ (\A d \in Calls : pc[d] # "killed") =>
                  /\ \A s \in Signals : IF AsFound(c, s) THEN handler[s] = Original
                                         ELSE Found(c, s) = Original
                  /\ pc[c] \in {"installed", "native", "ensure"} => IsCurrent(c)
  BY <1>2 DEF Alone
<1>3. ASSUME NEW c \in Calls, Begin(c) PROVE Alone'
  <2>1. /\ pc[c] = "idle" /\ pc'[c] = "lock" /\ \A d \in Calls \ {c} : pc'[d] = pc[d]
        /\ \A d \in Calls : ~Active(d)
        /\ handler' = handler
    BY <1>0, <1>3 DEF Begin, Goto, Active
  <2>2. (\A d \in Calls : pc[d] # "killed") => \A s \in Signals : handler'[s] = Original
    BY <2>1 DEF Alone
  <2>3. \A s \in Signals : AsFound(c, s)'
    BY <2>1 DEF AsFound
  <2> QED
    BY <1>1, <2>1, <2>2, <2>3
<1>4. ASSUME NEW c \in Calls, LockToInstall(c) PROVE Alone'
  <2>1. /\ pc[c] = "lock" /\ pc'[c] = "trap" /\ \A d \in Calls \ {c} : pc'[d] = pc[d]
        /\ todo'[c] = Signals /\ handler' = handler
    BY <1>0, <1>4 DEF LockToInstall, Goto
  <2>2. Active(c) /\ \A s \in Signals : AsFound(c, s) /\ AsFound(c, s)'
    BY <2>1 DEF Active, AsFound
  <2> QED
    BY <1>1, <1>2, <2>1, <2>2
<1>5. ASSUME NEW c \in Calls, NEW s \in Signals, SetTrap(c, s) PROVE Alone'
  <2>1. /\ pc[c] = "trap" /\ s \in todo[c] /\ pc'[c] = "assign"
        /\ \A d \in Calls \ {c} : pc'[d] = pc[d]
        /\ todo'[c] = todo[c] \ {s} /\ returned[c] = Nil /\ returned'[c] = <<s, handler[s]>>
        /\ previous' = previous /\ \A t \in Signals \ {s} : handler'[t] = handler[t]
    BY <1>0, <1>5 DEF SetTrap, Goto, Chain, Fresh
  <2>2. returned'[c] # Nil /\ returned'[c][1] = s /\ returned'[c][2] = handler[s]
    BY <1>0, <2>1
  <2>3. Active(c) /\ AsFound(c, s) /\ ~AsFound(c, s)'
    BY <2>1 DEF Active, AsFound
  <2>4. Found(c, s)' = handler[s]
    BY <2>2 DEF Found
  <2>5. (\A d \in Calls : pc[d] # "killed") =>
          \A t \in Signals : IF AsFound(c, t)' THEN handler'[t] = Original
                             ELSE Found(c, t)' = Original
    <3>1. SUFFICES ASSUME \A d \in Calls : pc[d] # "killed", NEW t \in Signals
                   PROVE  IF AsFound(c, t)' THEN handler'[t] = Original
                          ELSE Found(c, t)' = Original
      OBVIOUS
    <3>2. \A r \in Signals : IF AsFound(c, r) THEN handler[r] = Original ELSE Found(c, r) = Original
      BY <1>2, <2>3, <3>1
    <3>3. CASE t = s
      BY <2>1, <2>3, <2>4, <3>2, <3>3
    <3>4. CASE t # s
      <4>1. /\ AsFound(c, t)' <=> AsFound(c, t)
            /\ Found(c, t)' = Found(c, t) /\ handler'[t] = handler[t]
        BY <2>1, <2>2, <3>4 DEF AsFound, Found
      <4>2. AsFound(c, t) => handler'[t] = Original
        BY <3>2, <4>1
      <4>3. ~AsFound(c, t) => Found(c, t)' = Original
        BY <3>2, <4>1
      <4> QED
        BY <4>1, <4>2, <4>3
    <3> QED
      BY <3>3, <3>4
  <2> QED
    BY <1>1, <1>2, <2>1, <2>3, <2>5
<1>6. ASSUME NEW c \in Calls, AssignPrevious(c) PROVE Alone'
  <2>1. /\ pc[c] = "assign" /\ \A d \in Calls \ {c} : pc'[d] = pc[d]
        /\ previous' = [previous EXCEPT ![c][returned[c][1]] = returned[c][2]]
        /\ returned' = [returned EXCEPT ![c] = Nil]
        /\ pc'[c] = "trap" \/ (pc'[c] = "installed" /\ todo[c] = {})
        /\ UNCHANGED <<todo, handler, generation, trapGeneration>>
    BY <1>0, <1>6 DEF AssignPrevious, Kept, Goto
  <2>2. returned[c] \in Signals \X Handlers
    BY <1>0, <2>1 DEF Inv, LoopAt
  <2>3. \A s \in Signals : Found(c, s)' = Found(c, s) /\ (AsFound(c, s)' <=> AsFound(c, s))
    BY <1>0, <2>1, <2>2 DEF Found, AsFound
  <2>4. Active(c) /\ IsCurrent(c) /\ IsCurrent(c)'
    BY <2>1 DEF Active, Inv, Generations, IsCurrent
  <2> QED
    BY <1>1, <1>2, <2>1, <2>3, <2>4
<1>7. ASSUME NEW c \in Calls, EnterNative(c) \/ Stop(c) \/ NativeRaises(c) PROVE Alone'
  <2>1. /\ pc[c] \in {"installed", "native"} /\ pc'[c] \in {"native", "ensure"}
        /\ \A d \in Calls \ {c} : pc'[d] = pc[d]
        /\ UNCHANGED <<todo, handler, generation, trapGeneration, returned, previous>>
    BY <1>0, <1>7 DEF EnterNative, Stop, NativeRaises, Goto
  <2>2. Active(c) /\ IsCurrent(c)' = IsCurrent(c)
    BY <2>1 DEF Active, IsCurrent
  <2>3. \A s \in Signals : ~AsFound(c, s) /\ ~AsFound(c, s)' /\ Found(c, s)' = Found(c, s)
    BY <2>1 DEF Found, AsFound
  <2> QED
    BY <1>1, <1>2, <2>1, <2>2, <2>3
<1>8. ASSUME NEW c \in Calls, Killed(c) PROVE Alone'
  <2>1. /\ pc[c] \in Installing \cup {"ensure", "restore"} /\ pc'[c] = "killed"
        /\ \A d \in Calls \ {c} : pc'[d] = pc[d]
    BY <1>0, <1>8 DEF Killed, AfterEarlyKill, Goto
  <2>2. Active(c) /\ pc[c] # "killed"
    BY <2>1 DEF Active, Installing
  <2>3. \A d \in Calls \ {c} : ~Active(d)
    BY <1>2, <2>2
  <2>4. \A d \in Calls : ~Active(d)'
    BY <2>1, <2>3 DEF Active
  <2> QED
    BY <2>1, <2>4 DEF Alone
<1>9. ASSUME NEW c \in Calls, LockToRestore(c) PROVE Alone'
  <2>1. /\ pc[c] = "ensure" /\ pc'[c] = "restore" /\ \A d \in Calls \ {c} : pc'[d] = pc[d]
        /\ todo'[c] = ToRestore(c) /\ UNCHANGED <<returned, previous, handler>>
    BY <1>0, <1>9 DEF LockToRestore, Goto
  <2>2. Active(c) /\ \A s \in Signals : ~AsFound(c, s) /\ Found(c, s)' = Found(c, s)
    BY <2>1 DEF Active, AsFound, Found
  <2>3. IsCurrent(c) => \A s \in Signals : ~AsFound(c, s)'
    BY <2>1 DEF AsFound, ToRestore
  <2> QED
    BY <1>1, <1>2, <2>1, <2>2, <2>3
<1>10. ASSUME NEW c \in Calls, NEW s \in Signals, RestoreTrap(c, s) PROVE Alone'
  <2>1. /\ pc[c] = "restore" /\ s \in todo[c] /\ todo'[c] = todo[c] \ {s}
        /\ handler'[s] = previous[c][s] /\ \A t \in Signals \ {s} : handler'[t] = handler[t]
        /\ UNCHANGED <<pc, returned, previous>> /\ returned[c] = Nil
    BY <1>0, <1>10 DEF RestoreTrap, Chain, Fresh
  <2>2. Active(c) /\ ~AsFound(c, s) /\ AsFound(c, s)' /\ handler'[s] = Found(c, s)
    BY <2>1 DEF Active, AsFound, Found
  <2>3. (\A d \in Calls : pc[d] # "killed") =>
          \A t \in Signals : IF AsFound(c, t)' THEN handler'[t] = Original
                             ELSE Found(c, t)' = Original
    <3>1. SUFFICES ASSUME \A d \in Calls : pc[d] # "killed", NEW t \in Signals
                   PROVE  IF AsFound(c, t)' THEN handler'[t] = Original
                          ELSE Found(c, t)' = Original
      OBVIOUS
    <3>2. \A r \in Signals : IF AsFound(c, r) THEN handler[r] = Original ELSE Found(c, r) = Original
      BY <1>2, <2>2, <3>1
    <3>3. CASE t = s
      BY <2>1, <2>2, <3>2, <3>3
    <3>4. CASE t # s
      <4>1. /\ AsFound(c, t)' <=> AsFound(c, t)
            /\ Found(c, t)' = Found(c, t) /\ handler'[t] = handler[t]
        BY <2>1, <3>4 DEF AsFound, Found
      <4>2. AsFound(c, t) => handler'[t] = Original
        BY <3>2, <4>1
      <4>3. ~AsFound(c, t) => Found(c, t)' = Original
        BY <3>2, <4>1
      <4> QED
        BY <4>1, <4>2, <4>3
    <3> QED
      BY <3>3, <3>4
  <2> QED
    BY <1>1, <1>2, <2>1, <2>2, <2>3
<1>11. ASSUME NEW c \in Calls, ServeReturns(c) PROVE Alone'
  <2>1. /\ pc[c] = "restore" /\ todo[c] = {} /\ pc'[c] = "done" /\ handler' = handler
        /\ \A d \in Calls \ {c} : pc'[d] = pc[d]
    BY <1>0, <1>11 DEF ServeReturns, Goto
  <2>2. Active(c) /\ ~Active(c)' /\ \A s \in Signals : AsFound(c, s)
    BY <2>1 DEF Active, AsFound
  <2> QED
    BY <1>1, <1>2, <2>1, <2>2
<1>12. CASE (\E s \in Signals : Deliver(s)) \/ TrapBody \/ OriginalRuns \/ UNCHANGED vars
  <2>1. UNCHANGED <<pc, todo, returned, previous, handler, generation, trapGeneration>>
    BY <1>12 DEF Deliver, TrapBody, OriginalRuns, vars
  <2> QED
    BY <2>1 DEF Alone, Active, AsFound, Found, IsCurrent
<1> QED
  BY <1>3, <1>4, <1>5, <1>6, <1>7, <1>8, <1>9, <1>10, <1>11, <1>12 DEF Next, CallStep

(***************************************************************************)
(* Calls of serve that do not overlap leave the signals as they found      *)
(* them, as serve's documentation says, unless one was killed outside      *)
(* _serve_native.                                                          *)
(***************************************************************************)
THEOREM TrapsAreRestored == ASSUME MayOverlap = FALSE PROVE Spec => []TrapsRestored
<1>1. Alone => TrapsRestored
  BY DEF Alone, Active, TrapsRestored
<1>2. Inv /\ Chain /\ Alone /\ [Next]_vars => Alone'
  BY AloneNext
<1>3. Spec => [](Inv /\ Chain /\ Alone)
  BY InvInit, ChainInit, AloneInit, InvNext, ChainNext, <1>2, PTL DEF Spec
<1> QED
  BY <1>1, <1>3, PTL

-----------------------------------------------------------------------------
(***************************************************************************)
(* Liveness, for calls that do not overlap.  The prover has no rules for   *)
(* ENABLED; GuardsEnable says what reading the guards shows.               *)
(***************************************************************************)
\* Where a call can take a step of its own.
CanStep(c) == \/ pc[c] \in {"installed", "restore"}
              \/ pc[c] = "native" /\ requested = TRUE
              \/ pc[c] = "ensure" /\ mutex = Nil

StepEnabled(c) == [](CanStep(c) => ENABLED <<CallStep(c)>>_vars)

StepsEnabled == \A c \in Calls : StepEnabled(c)

GuardsEnable == /\ StepsEnabled
                /\ [](trap # Nil => ENABLED <<TrapBody \/ OriginalRuns>>_vars)

\* While a call runs alone, only its own steps, a kill or a failure move it.
LEMMA OthersKeepOff ==
  ASSUME MayOverlap = FALSE, Inv, Alone, [Next]_vars, NEW c \in Calls, Active(c)
  PROVE  /\ requested = TRUE => requested' = TRUE
         /\ \/ pc'[c] = pc[c] /\ todo'[c] = todo[c]
            \/ CallStep(c)
            \/ pc'[c] = "killed"
            \/ pc[c] = "native" /\ pc'[c] = "ensure"
<1> USE TrapsAssumption DEF Inv, TypeOK, callVars, processVars, signalVars
<1>1. \A d \in Calls : Active(d) => d = c
  BY DEF Alone
<1>2. ASSUME NEW d \in Calls PROVE ~Begin(d)
  BY <1>1 DEF Begin, Active
<1>3. ASSUME NEW d \in Calls, CallStep(d) PROVE d = c /\ requested' = requested
  <2>1. Active(d) /\ requested' = requested
    BY <1>3 DEF CallStep, LockToInstall, SetTrap, AssignPrevious, EnterNative, Stop, LockToRestore,
                RestoreTrap, ServeReturns, Active
  <2> QED
    BY <1>1, <2>1
<1>4. ASSUME NEW d \in Calls, NativeRaises(d) \/ Killed(d)
      PROVE  /\ requested' = requested
             /\ pc'[c] = "killed" \/ (pc[c] = "native" /\ pc'[c] = "ensure")
  <2>1. Active(d)
    BY <1>4 DEF NativeRaises, Killed, Active, Installing
  <2>2. d = c
    BY <1>1, <2>1
  <2> QED
    BY <1>4, <2>2 DEF NativeRaises, Killed, Goto, AfterEarlyKill
<1>5. ASSUME (\E s \in Signals : Deliver(s)) \/ TrapBody \/ OriginalRuns \/ UNCHANGED vars
      PROVE  pc' = pc /\ todo' = todo /\ (requested = TRUE => requested' = TRUE)
  BY <1>5 DEF Deliver, TrapBody, OriginalRuns, vars
<1> QED
  BY <1>2, <1>3, <1>4, <1>5 DEF Next

\* Nobody else has the mutex when the call comes to restore its traps.
LEMMA MutexIsFree ==
  ASSUME Inv, Alone, NEW c \in Calls, pc[c] = "ensure" PROVE mutex = Nil
<1>1. \A d \in Calls : mutex = d => Active(d) /\ pc[d] # "ensure"
  BY DEF Inv, Generations, Locked, Active
<1> QED
  BY <1>1 DEF Alone, Active, Inv, TypeOK

\* Where the call's own steps take it on its way out.
LEMMA EndStep ==
  ASSUME Inv, NEW c \in Calls, CallStep(c)
  PROVE  /\ pc[c] = "installed" => pc'[c] = "native"
         /\ pc[c] = "native" => pc'[c] = "ensure"
         /\ pc[c] = "ensure" => pc'[c] = "restore" /\ todo'[c] \in {Signals, {}}
         /\ pc[c] = "restore" =>
              \/ pc'[c] = "done"
              \/ pc'[c] = "restore" /\ \E s \in todo[c] : todo'[c] = todo[c] \ {s}
BY DEF CallStep, LockToInstall, SetTrap, AssignPrevious, EnterNative, Stop, LockToRestore,
       RestoreTrap, ServeReturns, Goto, ToRestore, Inv, TypeOK

\* A trap body that was started sets the flag.
LEMMA TrapStays ==
  ASSUME Inv, [Next]_vars, NEW c \in Calls, trap # Nil, trap[2] = c
  PROVE  trap' = trap \/ requested' = TRUE
<1> USE TrapsAssumption DEF callVars, processVars, signalVars
<1>1. ASSUME NEW d \in Calls,
             CallStep(d) \/ NativeRaises(d) \/ Killed(d) \/ Begin(d)
      PROVE  trap' = trap
  BY <1>1 DEF CallStep, LockToInstall, SetTrap, AssignPrevious, EnterNative, Stop, LockToRestore,
              RestoreTrap, ServeReturns, NativeRaises, Killed, Begin
<1>2. CASE (\E s \in Signals : Deliver(s)) \/ TrapBody \/ OriginalRuns \/ UNCHANGED vars
  BY <1>2 DEF Deliver, TrapBody, OriginalRuns, vars
<1> QED
  BY <1>1, <1>2 DEF Next

(***************************************************************************)
(* A signal whose trap runs while its server is starting or serving ends   *)
(* that call: the flag stays up, as no other call can begin and clear it,  *)
(* the server stops, and the ensure puts both signals back.                *)
(***************************************************************************)
THEOREM SignalsStop ==
  ASSUME MayOverlap = FALSE, NEW TERM, NEW INT, Signals = {TERM, INT}
  PROVE  FairSpec /\ GuardsEnable => SignalStops
<1>1. Inv /\ Chain /\ Alone /\ [Next]_vars => Alone'
  BY AloneNext
<1>2. Spec => [](Inv /\ Alone)
  BY InvInit, ChainInit, AloneInit, InvNext, ChainNext, <1>1, PTL DEF Spec
<1> SUFFICES ASSUME NEW c \in Calls
             PROVE  FairSpec /\ GuardsEnable =>
                      ((trap # Nil /\ trap[2] = c /\ pc[c] \in {"installed", "native"})
                        ~> (pc[c] \in {"done", "killed"}))
  BY DEF SignalStops
<1> DEFINE Trapped == trap # Nil /\ trap[2] = c /\ pc[c] \in {"installed", "native"}
           Pending == trap # Nil
           Installed == requested = TRUE /\ pc[c] = "installed"
           Native == requested = TRUE /\ pc[c] = "native"
           Ensure == pc[c] = "ensure"
           Left(S) == pc[c] = "restore" /\ todo[c] = S
           Both == Left({TERM, INT})
           OnlyTERM == Left({TERM})
           OnlyINT == Left({INT})
           None == Left({})
           Over == pc[c] \in {"done", "killed"}
           Ready == CanStep(c)
<1>3. Inv /\ Alone /\ [Next]_vars =>
        /\ Trapped => Trapped' \/ Installed' \/ Native' \/ Ensure' \/ Over'
        /\ Installed => Installed' \/ Native' \/ Over'
        /\ Native => Native' \/ Ensure' \/ Over'
        /\ Ensure => Ensure' \/ Both' \/ None' \/ Over'
        /\ Both => Both' \/ OnlyTERM' \/ OnlyINT' \/ None' \/ Over'
        /\ OnlyTERM => OnlyTERM' \/ None' \/ Over'
        /\ OnlyINT => OnlyINT' \/ None' \/ Over'
        /\ None => None' \/ Over'
  <2> SUFFICES ASSUME Inv, Alone, [Next]_vars, Active(c)
               PROVE  /\ Trapped => Trapped' \/ Installed' \/ Native' \/ Ensure' \/ Over'
                      /\ Installed => Installed' \/ Native' \/ Over'
                      /\ Native => Native' \/ Ensure' \/ Over'
                      /\ Ensure => Ensure' \/ Both' \/ None' \/ Over'
                      /\ Both => Both' \/ OnlyTERM' \/ OnlyINT' \/ None' \/ Over'
                      /\ OnlyTERM => OnlyTERM' \/ None' \/ Over'
                      /\ OnlyINT => OnlyINT' \/ None' \/ Over'
                      /\ None => None' \/ Over'
    BY DEF Active
  <2>1. \/ pc'[c] = pc[c] /\ todo'[c] = todo[c]
        \/ CallStep(c)
        \/ pc'[c] = "killed"
        \/ pc[c] = "native" /\ pc'[c] = "ensure"
    BY OthersKeepOff
  <2>2. requested = TRUE => requested' = TRUE
    BY OthersKeepOff
  <2>3. trap # Nil /\ trap[2] = c => trap' = trap \/ requested' = TRUE
    BY TrapStays
  <2> QED
    BY <2>1, <2>2, <2>3, EndStep
<1>4. Inv /\ <<CallStep(c)>>_vars =>
        /\ Installed => ~Installed'
        /\ Native => ~Native'
        /\ Ensure => ~Ensure'
        /\ Both => ~Both'
        /\ OnlyTERM => ~OnlyTERM'
        /\ OnlyINT => ~OnlyINT'
        /\ None => ~None'
  BY EndStep
<1>5. <<TrapBody \/ OriginalRuns>>_vars => (Trapped => (requested = TRUE)')
  BY TrapsAssumption DEF TrapBody, OriginalRuns
<1>6. Inv /\ Alone /\ Ensure => Ready
  BY MutexIsFree DEF CanStep
<1>7. /\ Installed \/ Native \/ Both \/ OnlyTERM \/ OnlyINT \/ None => Ready
      /\ Trapped /\ requested = TRUE => Installed \/ Native
      /\ Trapped => Pending
  BY DEF CanStep
<1>8. CallsGoOn => GoesOn(c)
  BY DEF CallsGoOn
<1>9. StepsEnabled => StepEnabled(c)
  BY DEF StepsEnabled
<1>10. FairSpec /\ GuardsEnable =>
         /\ Spec /\ CallsGoOn /\ WF_vars(TrapBody \/ OriginalRuns)
         /\ StepsEnabled /\ [](trap # Nil => ENABLED <<TrapBody \/ OriginalRuns>>_vars)
  BY PTL DEF FairSpec, GuardsEnable
<1>11. /\ Ready <=> CanStep(c)
       /\ Pending <=> trap # Nil
       /\ Trapped <=> trap # Nil /\ trap[2] = c /\ pc[c] \in {"installed", "native"}
       /\ Over <=> pc[c] \in {"done", "killed"}
  OBVIOUS
<1> HIDE DEF Trapped, Pending, Installed, Native, Ensure, Left, Both, OnlyTERM, OnlyINT, None,
             Over, Ready
<1> QED
  BY <1>2, <1>3, <1>4, <1>5, <1>6, <1>7, <1>8, <1>9, <1>10, <1>11, PTL
  DEF Spec, GoesOn, StepEnabled
=============================================================================
