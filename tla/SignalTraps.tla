---------------------------- MODULE SignalTraps ----------------------------
(***************************************************************************)
(* The signal side of HelixRack.serve (lib/helix_rack.rb): each call       *)
(* clears the process-wide shutdown flag, puts its own trap on every       *)
(* signal, runs _serve_native and restores the traps it found, but only if *)
(* no later call has installed its own since.  Calls may overlap, each in  *)
(* a thread of its own, and Ruby runs the trap bodies, one at a time, on   *)
(* the main thread between any two steps of theirs.                        *)
(***************************************************************************)
EXTENDS Naturals

CONSTANTS Calls,        \* calls of HelixRack.serve in one process
          Signals,      \* TERM and INT
          Original,     \* the handler the embedder registered, a callable one
          Nil,          \* Ruby's nil
          MayOverlap    \* a call may begin while another one runs

ASSUME TrapsAssumption == /\ Original \notin Calls \cup {Nil}
                          /\ Nil \notin Calls \cup (Signals \X (Calls \cup {Original}))
                          /\ MayOverlap \in BOOLEAN

VARIABLES
  pc,              \* where each call stands
  generation,      \* the local `generation` of each call, 0 before it has one
  todo,            \* signals its loop has still to trap or restore
  returned,        \* <<signal, what Signal.trap returned>> before it is assigned
  previous,        \* previous_handler of each call and signal
  handler,         \* the process's handler for each signal
  trapGeneration,  \* @trap_generation
  mutex,           \* who holds @trap_generation_mutex
  requested,       \* SHUTDOWN_REQUESTED
  signalled,       \* history: a trap body ran since the call began
  trap             \* the trap body on the main thread: its signal, and the
                   \* handler it is about to run; Nil when none runs

callVars == <<pc, generation, todo, returned, previous>>
processVars == <<handler, trapGeneration, mutex>>
signalVars == <<requested, signalled, trap>>
vars == <<callVars, processVars, signalVars>>

Handlers == Calls \cup {Original}

\* Before `begin`, where `ensure` does not apply yet.
Installing == {"lock", "trap", "assign", "installed"}

Running == Installing \cup {"native"}

PCs == Running \cup {"idle", "ensure", "restore", "done", "killed"}

Init == /\ pc = [c \in Calls |-> "idle"]
        /\ generation = [c \in Calls |-> 0]
        /\ todo = [c \in Calls |-> {}]
        /\ returned = [c \in Calls |-> Nil]
        /\ previous = [c \in Calls |-> [s \in Signals |-> Nil]]
        /\ handler = [s \in Signals |-> Original]
        /\ trapGeneration = 0 /\ mutex = Nil
        /\ requested = FALSE
        /\ signalled = [c \in Calls |-> FALSE]
        /\ trap = Nil

Goto(c, l) == pc' = [pc EXCEPT ![c] = l]

-----------------------------------------------------------------------------
(***************************************************************************)
(* A call of serve.                                                        *)
(***************************************************************************)
\* Slip: the flag is left as the last server found it.
XNoReset == UNCHANGED requested

ResetShutdownRequest == requested' = FALSE

Begin(c) == /\ pc[c] = "idle"
            /\ MayOverlap \/ \A d \in Calls : pc[d] \in {"idle", "done", "killed"}
            /\ ResetShutdownRequest
            /\ Goto(c, "lock")
            /\ UNCHANGED <<generation, todo, returned, previous, processVars, signalled, trap>>

LockToInstall(c) == /\ pc[c] = "lock"
                    /\ mutex = Nil
                    /\ mutex' = c
                    /\ trapGeneration' = trapGeneration + 1
                    /\ generation' = [generation EXCEPT ![c] = trapGeneration']
                    /\ todo' = [todo EXCEPT ![c] = Signals]
                    /\ Goto(c, "trap")
                    /\ UNCHANGED <<returned, previous, handler, signalVars>>

\* Signal.trap takes effect before its result is assigned.
SetTrap(c, s) == /\ pc[c] = "trap" /\ s \in todo[c]
                 /\ handler' = [handler EXCEPT ![s] = c]
                 /\ returned' = [returned EXCEPT ![c] = <<s, handler[s]>>]
                 /\ todo' = [todo EXCEPT ![c] = @ \ {s}]
                 /\ Goto(c, "assign")
                 /\ UNCHANGED <<generation, previous, trapGeneration, mutex, signalVars>>

\* Slip: a trap of the server's own is not chained to.
XKept(h) == IF h \in Calls THEN Nil ELSE h

\* What previous_handler is given.
Kept(h) == h

AssignPrevious(c) ==
  /\ pc[c] = "assign"
  /\ previous' = [previous EXCEPT ![c][returned[c][1]] = Kept(returned[c][2])]
  /\ returned' = [returned EXCEPT ![c] = Nil]
  /\ IF todo[c] = {}
     THEN mutex' = Nil /\ Goto(c, "installed")
     ELSE UNCHANGED mutex /\ Goto(c, "trap")
  /\ UNCHANGED <<generation, todo, handler, trapGeneration, signalVars>>

\* Slip: the flag is cleared behind the installed traps, by _serve_native.
XResetInside(c) == /\ pc[c] = "installed"
                   /\ Goto(c, "native")
                   /\ requested' = FALSE
                   /\ UNCHANGED <<generation, todo, returned, previous, processVars,
                                  signalled, trap>>

EnterNative(c) == /\ pc[c] = "installed"
                  /\ Goto(c, "native")
                  /\ UNCHANGED <<generation, todo, returned, previous, processVars, signalVars>>

\* `cancelled` finds the flag, the server drains and _serve_native returns.
Stop(c) == /\ pc[c] = "native"
           /\ requested
           /\ Goto(c, "ensure")
           /\ UNCHANGED <<generation, todo, returned, previous, processVars, signalVars>>

\* _serve_native raises, or Thread#kill ends it.
NativeRaises(c) == /\ pc[c] = "native"
                   /\ Goto(c, "ensure")
                   /\ UNCHANGED <<generation, todo, returned, previous, processVars, signalVars>>

\* Slip: `begin` comes before the traps are installed.
XThroughEnsure == "ensure"

\* A kill before `begin` leaves the method without its `ensure`.
AfterEarlyKill == "killed"

\* A kill outside _serve_native, also inside the `ensure`; the mutex is released.
Killed(c) == /\ pc[c] \in Installing \cup {"ensure", "restore"}
             /\ mutex' = IF mutex = c THEN Nil ELSE mutex
             /\ Goto(c, IF pc[c] \in Installing THEN AfterEarlyKill ELSE "killed")
             /\ UNCHANGED <<generation, todo, returned, previous, handler,
                            trapGeneration, signalVars>>

\* Slip: the traps are restored whatever the generation.
XAnyGeneration(c) == TRUE

IsCurrent(c) == generation[c] = trapGeneration

\* Slip: a call that ends restores nothing.
XRestoresNothing(c) == {}

\* What a call that still is the current one has to restore.
ToRestore(c) == IF IsCurrent(c) THEN Signals ELSE {}

LockToRestore(c) == /\ pc[c] = "ensure"
                    /\ mutex = Nil
                    /\ todo' = [todo EXCEPT ![c] = ToRestore(c)]
                    /\ mutex' = c
                    /\ Goto(c, "restore")
                    /\ UNCHANGED <<generation, returned, previous, handler, trapGeneration,
                                   signalVars>>

RestoreTrap(c, s) == /\ pc[c] = "restore" /\ s \in todo[c]
                     /\ handler' = [handler EXCEPT ![s] = previous[c][s]]
                     /\ todo' = [todo EXCEPT ![c] = @ \ {s}]
                     /\ UNCHANGED <<pc, generation, returned, previous, trapGeneration, mutex,
                                    signalVars>>

ServeReturns(c) == /\ pc[c] = "restore" /\ todo[c] = {}
                   /\ mutex' = Nil
                   /\ Goto(c, "done")
                   /\ UNCHANGED <<generation, todo, returned, previous, handler,
                                  trapGeneration, signalVars>>

-----------------------------------------------------------------------------
(***************************************************************************)
(* Signals.                                                                *)
(***************************************************************************)
Deliver(s) == /\ trap = Nil
              /\ trap' = <<s, handler[s]>>
              /\ UNCHANGED <<callVars, processVars, requested, signalled>>

\* handle_shutdown_signal, then the handler that was there before, with the
\* previous_handler its block sees; what nil or an exception leaves out.
TrapBody == /\ trap # Nil /\ trap[2] \in Calls
            /\ requested' = TRUE
            /\ signalled' = [c \in Calls |-> signalled[c] \/ pc[c] \in Running]
            /\ trap' = LET h == previous[trap[2]][trap[1]]
                       IN  IF h = Nil THEN Nil ELSE <<trap[1], h>>
            /\ UNCHANGED <<callVars, processVars>>

OriginalRuns == /\ trap # Nil /\ trap[2] = Original
                /\ trap' = Nil
                /\ UNCHANGED <<callVars, processVars, requested, signalled>>

-----------------------------------------------------------------------------
\* What a call does by itself, but for its end in _serve_native.
CallStep(c) == \/ LockToInstall(c) \/ AssignPrevious(c) \/ EnterNative(c) \/ Stop(c)
               \/ LockToRestore(c) \/ ServeReturns(c)
               \/ \E s \in Signals : SetTrap(c, s) \/ RestoreTrap(c, s)

Next == \/ \E c \in Calls : Begin(c) \/ CallStep(c) \/ NativeRaises(c) \/ Killed(c)
        \/ \E s \in Signals : Deliver(s)
        \/ TrapBody \/ OriginalRuns

Spec == Init /\ [][Next]_vars

\* Ruby runs the calls' threads, a mutex that is released again and again is
\* given to who waits for it, and a trap body that was started goes on.
GoesOn(c) == SF_vars(CallStep(c))

CallsGoOn == \A c \in Calls : GoesOn(c)

FairSpec == Spec /\ CallsGoOn /\ WF_vars(TrapBody \/ OriginalRuns)

-----------------------------------------------------------------------------
TypeOK == /\ pc \in [Calls -> PCs]
          /\ generation \in [Calls -> Nat]
          /\ todo \in [Calls -> SUBSET Signals]
          /\ returned \in [Calls -> {Nil} \cup (Signals \X Handlers)]
          /\ previous \in [Calls -> [Signals -> Handlers \cup {Nil}]]
          /\ handler \in [Signals -> Handlers]
          /\ trapGeneration \in Nat
          /\ mutex \in Calls \cup {Nil}
          /\ requested \in BOOLEAN /\ signalled \in [Calls -> BOOLEAN]
          /\ trap \in {Nil} \cup (Signals \X Handlers)

(***************************************************************************)
(* However calls overlap, the one that installed its traps last owns both  *)
(* signals while its server runs: no call that ends in the meantime puts   *)
(* back what it found (restore_shutdown_traps under the mutex, and its     *)
(* check of the generation).                                               *)
(***************************************************************************)
NewestOwnsSignals ==
  \A c \in Calls : pc[c] = "native" /\ IsCurrent(c) => \A s \in Signals : handler[s] = c

(***************************************************************************)
(* From whatever trap is installed, the chain of previous handlers leads   *)
(* to the embedder's own handler: no set of traps it enters is closed, and *)
(* none ends in nil, but for a call that has not yet assigned what         *)
(* Signal.trap returned, or was killed before it did.                      *)
(***************************************************************************)
ChainReachesOriginal ==
  \A s \in Signals :
    (\A c \in Calls : returned[c] = Nil \/ returned[c][1] # s) =>
      \A S \in SUBSET Calls :
        handler[s] \in S => \E c \in S : previous[c][s] \in Handlers \ S

(***************************************************************************)
(* A server is never stopped by a signal that is older than the call: if   *)
(* the flag is up, a trap ran since every call that is starting or serving *)
(* began (_reset_shutdown_request).                                        *)
(***************************************************************************)
NoStaleRequest == requested => \A c \in Calls : pc[c] \in Running => signalled[c]

(***************************************************************************)
(* Calls that ended through their `ensure` leave the signals as they found *)
(* them: when no call runs and none was killed outside _serve_native, the   *)
(* embedder's handlers are installed again.  (It holds of calls that do    *)
(* not overlap; serve's documentation says it of all.)                     *)
(***************************************************************************)
TrapsRestored == (\A c \in Calls : pc[c] \in {"idle", "done"}) =>
                   \A s \in Signals : handler[s] = Original

(***************************************************************************)
(* A signal whose trap runs while the server it belongs to is serving ends *)
(* that call.  (It holds of calls that do not overlap.)                    *)
(***************************************************************************)
SignalStops ==
  \A c \in Calls :
    (trap # Nil /\ trap[2] = c /\ pc[c] \in {"installed", "native"})
      ~> (pc[c] \in {"done", "killed"})
-----------------------------------------------------------------------------
(***************************************************************************)
(* The inductive invariant.                                                *)
(***************************************************************************)
Locked == {"trap", "assign", "restore"}

\* Generations are given out once, under the mutex, which its holder keeps.
Generations ==
  /\ \A c \in Calls : mutex = c <=> pc[c] \in Locked
  /\ \A c \in Calls : generation[c] <= trapGeneration
  /\ \A c, d \in Calls : generation[c] = generation[d] => c = d \/ generation[c] = 0
  /\ \A c \in Calls : pc[c] \notin {"idle", "lock", "killed"} => generation[c] > 0
  /\ \A c \in Calls : pc[c] \in {"trap", "assign"} => IsCurrent(c)

\* How far the loop of a call over the signals is, and what it has done by then.
LoopAt(c) ==
  /\ pc[c] \in {"installed", "native"} => todo[c] = {}
  /\ pc[c] = "restore" /\ todo[c] # {} => IsCurrent(c)
  /\ pc[c] = "assign" => returned[c] # Nil
  /\ pc[c] = "trap" => \A s \in Signals \ todo[c] : previous[c][s] # Nil
  /\ pc[c] = "assign" =>
       \A s \in Signals \ todo[c] : s = returned[c][1] \/ previous[c][s] # Nil
  /\ pc[c] \in {"installed", "native", "ensure", "restore"} =>
       \A s \in Signals : previous[c][s] # Nil

\* What the current call has trapped is still its own.
Owns(c) == IsCurrent(c) /\ pc[c] \in {"trap", "assign", "installed", "native"} =>
             \A s \in Signals \ todo[c] : handler[s] = c

(***************************************************************************)
(* What makes NewestOwnsSignals inductive: only the holder of the mutex    *)
(* writes traps, and it is the current call or, when it restores, has      *)
(* found that it still is.                                                 *)
(***************************************************************************)
Inv == TypeOK /\ Generations /\ \A c \in Calls : LoopAt(c) /\ Owns(c)
=============================================================================
