------------------------- MODULE SignalTraps_proofs -------------------------
(***************************************************************************)
(* Proofs about SignalTraps, for any number of calls that overlap in any   *)
(* way and any set of signals.                                             *)
(***************************************************************************)
EXTENDS SignalTraps, TLAPS

Loops == \A c \in Calls : LoopAt(c)

Parts == Generations /\ \A c \in Calls : LoopAt(c) /\ Owns(c)

LEMMA InvInit == Init => Inv
<1> SUFFICES ASSUME Init PROVE Inv
    OBVIOUS
<1> USE TrapsAssumption DEF Init
<1>1. TypeOK
  BY DEF TypeOK, PCs, Running, Installing, Handlers
<1>2. Generations
  BY DEF Generations, Locked
<1>3. \A c \in Calls : LoopAt(c) /\ Owns(c)
  BY DEF LoopAt, Owns
<1> QED
  BY <1>1, <1>2, <1>3 DEF Inv

\* Types first: restored traps are handlers because LoopAt says so.
LEMMA TypeNext == TypeOK /\ Loops /\ [Next]_vars => TypeOK'
<1> SUFFICES ASSUME TypeOK, Loops, [Next]_vars PROVE TypeOK'
    OBVIOUS
<1> USE TrapsAssumption
<1> USE DEF TypeOK, PCs, Running, Installing, Handlers, Goto, callVars, processVars, signalVars
<1>1. ASSUME NEW c \in Calls, Begin(c) PROVE TypeOK'
  BY <1>1 DEF Begin, ResetShutdownRequest
<1>2. ASSUME NEW c \in Calls, LockToInstall(c) PROVE TypeOK'
  BY <1>2 DEF LockToInstall
<1>3. ASSUME NEW c \in Calls, NEW s \in Signals, SetTrap(c, s) PROVE TypeOK'
  BY <1>3 DEF SetTrap
<1>4. ASSUME NEW c \in Calls, AssignPrevious(c) PROVE TypeOK'
  <2>1. returned[c] \in Signals \X Handlers
    BY <1>4 DEF AssignPrevious, Loops, LoopAt
  <2>2. previous' \in [Calls -> [Signals -> Handlers \cup {Nil}]]
    BY <1>4, <2>1 DEF AssignPrevious, Kept
  <2>3. returned' \in [Calls -> {Nil} \cup (Signals \X Handlers)]
    BY <1>4 DEF AssignPrevious
  <2>4. pc' \in [Calls -> PCs] /\ mutex' \in Calls \cup {Nil}
    BY <1>4 DEF AssignPrevious
  <2>5. UNCHANGED <<generation, todo, handler, trapGeneration, signalVars>>
    BY <1>4 DEF AssignPrevious
  <2> QED
    BY <2>2, <2>3, <2>4, <2>5
<1>5. ASSUME NEW c \in Calls, EnterNative(c) \/ Stop(c) \/ NativeRaises(c) PROVE TypeOK'
  BY <1>5 DEF EnterNative, Stop, NativeRaises
<1>6. ASSUME NEW c \in Calls, Killed(c) PROVE TypeOK'
  BY <1>6 DEF Killed, AfterEarlyKill
<1>7. ASSUME NEW c \in Calls, LockToRestore(c) PROVE TypeOK'
  BY <1>7 DEF LockToRestore, ToRestore
<1>8. ASSUME NEW c \in Calls, NEW s \in Signals, RestoreTrap(c, s) PROVE TypeOK'
  BY <1>8 DEF RestoreTrap, Loops, LoopAt
<1>9. ASSUME NEW c \in Calls, ServeReturns(c) PROVE TypeOK'
  BY <1>9 DEF ServeReturns
<1>10. ASSUME NEW s \in Signals, Deliver(s) PROVE TypeOK'
  BY <1>10 DEF Deliver
<1>11. CASE TrapBody
  <2>1. trap' \in {Nil} \cup (Signals \X Handlers)
    BY <1>11 DEF TrapBody
  <2> QED
    BY <1>11, <2>1 DEF TrapBody
<1>12. CASE OriginalRuns
  BY <1>12 DEF OriginalRuns
<1>13. CASE UNCHANGED vars
  BY <1>13 DEF vars
<1> QED
  BY <1>1, <1>2, <1>3, <1>4, <1>5, <1>6, <1>7, <1>8, <1>9, <1>10, <1>11, <1>12, <1>13
  DEF Next, CallStep

LEMMA PartsNext == Inv /\ [Next]_vars => Parts'
<1> SUFFICES ASSUME Inv, [Next]_vars PROVE Parts'
    OBVIOUS
<1> USE TrapsAssumption
<1> USE DEF Inv, Parts, TypeOK, Generations, LoopAt, Owns, IsCurrent, Locked, PCs, Running, Installing,
        Handlers, Goto, callVars, processVars, signalVars
<1>1. ASSUME NEW c \in Calls, Begin(c) PROVE Parts'
  BY <1>1 DEF Begin
<1>2. ASSUME NEW c \in Calls, LockToInstall(c) PROVE Parts'
  <2>1. generation'[c] = trapGeneration + 1 /\ trapGeneration' = trapGeneration + 1
    BY <1>2 DEF LockToInstall
  <2>2. \A d \in Calls \ {c} : /\ generation'[d] = generation[d] /\ pc'[d] = pc[d]
                               /\ pc[d] \notin Locked
                               /\ generation[d] < trapGeneration'
    BY <1>2 DEF LockToInstall
  <2>3. pc'[c] = "trap" /\ mutex' = c /\ todo'[c] = Signals
    BY <1>2 DEF LockToInstall
  <2>4. Generations'
    BY <1>2, <2>1, <2>2, <2>3 DEF LockToInstall
  <2>5. ASSUME NEW d \in Calls PROVE LoopAt(d)'
    BY <1>2, <2>1, <2>2, <2>3 DEF LockToInstall
  <2>6. ASSUME NEW d \in Calls PROVE Owns(d)'
    BY <1>2, <2>1, <2>2, <2>3 DEF LockToInstall
  <2> QED
    BY <2>4, <2>5, <2>6
<1>3. ASSUME NEW c \in Calls, NEW s \in Signals, SetTrap(c, s)
      PROVE Parts'
  <2>1. Generations'
    BY <1>3 DEF SetTrap
  <2>2. /\ returned'[c] = <<s, handler[s]>> /\ returned'[c] # Nil
        /\ returned'[c][1] = s
        /\ todo'[c] = todo[c] \ {s} /\ pc'[c] = "assign" /\ previous' = previous
        /\ \A t \in Signals \ todo[c] : previous[c][t] # Nil
    BY <1>3 DEF SetTrap
  <2>3. \A d \in Calls \ {c} : /\ pc'[d] = pc[d] /\ todo'[d] = todo[d]
                               /\ returned'[d] = returned[d] /\ IsCurrent(d)' = IsCurrent(d)
    BY <1>3 DEF SetTrap
  <2>4. LoopAt(c)' /\ Owns(c)'
    BY <1>3, <2>2 DEF SetTrap
  <2>5. ASSUME NEW d \in Calls \ {c} PROVE LoopAt(d)' /\ Owns(d)'
    <3>1. LoopAt(d)'
      BY <2>2, <2>3
    <3>2. ~IsCurrent(d)
      <4>1. pc[c] = "trap" /\ IsCurrent(c) /\ generation[c] > 0
        BY <1>3 DEF SetTrap
      <4>2. generation[d] # generation[c]
        BY <4>1
      <4> QED
        BY <4>1, <4>2
    <3> QED
      BY <2>3, <3>1, <3>2
  <2> QED
    BY <2>1, <2>4, <2>5
<1>4. ASSUME NEW c \in Calls, AssignPrevious(c) PROVE Parts'
  <2>1. returned[c] \in Signals \X Handlers
    BY <1>4 DEF AssignPrevious
  <2>2. /\ previous'[c] = [previous[c] EXCEPT ![returned[c][1]] = returned[c][2]]
        /\ todo' = todo /\ pc[c] = "assign" /\ mutex = c
        /\ generation' = generation /\ trapGeneration' = trapGeneration
    BY <1>4 DEF AssignPrevious, Kept
  <2>3. \A d \in Calls \ {c} : /\ pc'[d] = pc[d] /\ pc[d] \notin Locked
                               /\ returned'[d] = returned[d] /\ previous'[d] = previous[d]
    BY <1>4 DEF AssignPrevious
  <2>4. \A t \in Signals \ todo[c] : previous'[c][t] # Nil
    BY <2>1, <2>2
  <2>5. \/ todo[c] = {} /\ mutex' = Nil /\ pc'[c] = "installed"
        \/ mutex' = c /\ pc'[c] = "trap"
    BY <1>4 DEF AssignPrevious
  <2>6. Generations'
    <3>1. \A d \in Calls : mutex' = d <=> pc'[d] \in Locked
      BY <2>2, <2>3, <2>5
    <3>2. \A d \in Calls : pc'[d] \in {"idle", "lock", "killed"} <=>
                            pc[d] \in {"idle", "lock", "killed"}
      BY <2>2, <2>3, <2>5
    <3>3. \A d \in Calls : pc'[d] \in {"trap", "assign"} => pc[d] \in {"trap", "assign"}
      BY <2>2, <2>3, <2>5
    <3> QED
      BY <2>2, <3>1, <3>2, <3>3
  <2>7. LoopAt(c)'
    BY <2>2, <2>4, <2>5
  <2>8. ASSUME NEW d \in Calls \ {c} PROVE LoopAt(d)'
    BY <2>2, <2>3
  <2>9. ASSUME NEW d \in Calls PROVE Owns(d)'
    BY <1>4 DEF AssignPrevious
  <2> QED
    BY <2>6, <2>7, <2>8, <2>9
<1>5. ASSUME NEW c \in Calls, EnterNative(c) \/ Stop(c) \/ NativeRaises(c)
      PROVE Parts'
  <2>1. \/ pc[c] = "installed" /\ pc'[c] = "native"
        \/ pc[c] = "native" /\ pc'[c] = "ensure"
    BY <1>5 DEF EnterNative, Stop, NativeRaises
  <2>2. \A d \in Calls \ {c} : pc'[d] = pc[d]
    BY <1>5 DEF EnterNative, Stop, NativeRaises
  <2>3. UNCHANGED <<generation, todo, returned, previous, handler, trapGeneration, mutex>>
    BY <1>5 DEF EnterNative, Stop, NativeRaises
  <2>4. Generations'
    BY <2>1, <2>2, <2>3
  <2>5. ASSUME NEW d \in Calls PROVE LoopAt(d)' /\ Owns(d)'
    BY <2>1, <2>2, <2>3
  <2> QED
    BY <2>4, <2>5
<1>6. ASSUME NEW c \in Calls, Killed(c) PROVE Parts'
  BY <1>6 DEF Killed, AfterEarlyKill
<1>7. ASSUME NEW c \in Calls, LockToRestore(c) PROVE Parts'
  BY <1>7 DEF LockToRestore, ToRestore
<1>8. ASSUME NEW c \in Calls, NEW s \in Signals, RestoreTrap(c, s)
      PROVE Parts'
  <2>1. IsCurrent(c) /\ generation[c] > 0
    BY <1>8 DEF RestoreTrap
  <2>2. \A d \in Calls \ {c} : ~IsCurrent(d)
    BY <2>1
  <2> QED
    BY <1>8, <2>2 DEF RestoreTrap
<1>9. ASSUME NEW c \in Calls, ServeReturns(c) PROVE Parts'
  BY <1>9 DEF ServeReturns
<1>10. ASSUME NEW s \in Signals, Deliver(s) PROVE Parts'
  BY <1>10 DEF Deliver
<1>11. CASE TrapBody \/ OriginalRuns
  BY <1>11 DEF TrapBody, OriginalRuns
<1>12. CASE UNCHANGED vars
  BY <1>12 DEF vars
<1> QED
  BY <1>1, <1>2, <1>3, <1>4, <1>5, <1>6, <1>7, <1>8, <1>9, <1>10, <1>11, <1>12
  DEF Next, CallStep

LEMMA InvNext == Inv /\ [Next]_vars => Inv'
BY TypeNext, PartsNext DEF Inv, Loops, Parts

(***************************************************************************)
(* The inductive invariant of serve and its traps.                         *)
(***************************************************************************)
THEOREM Invariance == Spec => []Inv
BY InvInit, InvNext, PTL DEF Spec

(***************************************************************************)
(* A restored trap is always a handler that Ruby returned: no path of      *)
(* serve passes nil back to Signal.trap.                                   *)
(***************************************************************************)
THEOREM TypeCorrect == Spec => []TypeOK
<1>1. Inv => TypeOK
  BY DEF Inv
<1> QED
  BY Invariance, <1>1, PTL

(***************************************************************************)
(* The call that installed its traps last owns every signal while its      *)
(* server runs, however many calls begin and end around it.                *)
(***************************************************************************)
THEOREM NewestOwns == Spec => []NewestOwnsSignals
<1>1. Inv => NewestOwnsSignals
  BY DEF Inv, Owns, LoopAt, NewestOwnsSignals
<1> QED
  BY Invariance, <1>1, PTL
=============================================================================
