------------------------ MODULE GracefulServerProofs ------------------------
(***************************************************************************)
(* Proofs about GracefulServer for every number of connections, hooks and  *)
(* requests.                                                               *)
(***************************************************************************)
EXTENDS GracefulServer, TLAPS

USE NHooksAssumption, MaxRequestsAssumption

(***************************************************************************)
(* The inductive invariant.  Bounded: what the loop and read guards imply  *)
(* one step later, without which the two counters have no type.  Order:    *)
(* what Run has established by the time it reaches each place.  Quiet: a   *)
(* drain that succeeded left no connection that can carry an answer.       *)
(***************************************************************************)
Bounded == /\ pc = "inhook" => hooksRun < NHooks
           /\ \A c \in Conns : hpc[c] # "waiting" => answered[c] < MaxRequests

\* Shutdown has set inShutdown; listenerGroup.Wait has returned.
Marked == \/ pc \in {"close", "wait", "poll", "tick", "hooks", "inhook"}
          \/ pc \in {"returned", "exited"} /\ err # "listen"
Waited == \/ pc \in {"poll", "tick", "hooks", "inhook"}
          \/ pc \in {"returned", "exited"} /\ err # "listen"

Order == /\ Marked => inShutdown
         /\ Waited => ~Serving
         /\ pc \in {"start", "select"} \/ Draining => err = "none"
         /\ pc \in {"hooks", "inhook"} => err # "listen"
         /\ pc \in {"returned", "exited"} /\ err # "listen" => hooksRun = NHooks
         /\ \A c \in Conns : hpc[c] # "waiting" => conn[c] # "none"

Quiet == Drained => \A c \in Conns : conn[c] \in {"none", "closed"}

IInv == TypeOK /\ Bounded /\ Order /\ Quiet

-----------------------------------------------------------------------------
(* Type correctness *)

\* The first state is well typed.
LEMMA TypeInit == Init => TypeOK /\ Bounded
<1> SUFFICES ASSUME Init PROVE TypeOK /\ Bounded
    OBVIOUS
<1>1. failed \subseteq 1..hooksRun /\ hooksRun \in 0..NHooks
      BY DEF Init
<1>2. answered \in [Conns -> 0..MaxRequests]
      BY DEF Init
<1>3. ctxDone \in BOOLEAN /\ inShutdown \in BOOLEAN
      BY DEF Init
<1>4. /\ conn \in [Conns -> {"none", "new", "stale", "idle", "active", "closed"}]
      /\ hpc \in [Conns -> {"waiting", "read", "handling"}]
      BY DEF Init
<1>5. TypeOK
      BY <1>1, <1>2, <1>3, <1>4 DEF Init, TypeOK
<1>6. Bounded
      BY DEF Init, Bounded
<1> QED BY <1>5, <1>6

\* Every step keeps the types and the bounds the guards establish.
LEMMA TypeStep == TypeOK /\ Bounded /\ [Next]_vars => TypeOK' /\ Bounded'
<1> SUFFICES ASSUME TypeOK, Bounded, [Next]_vars PROVE TypeOK' /\ Bounded'
    OBVIOUS
<1> USE DEF TypeOK, Bounded, mainVars, listenVars, connVars
<1>1. CASE Environment
  <2>1. CASE Signal
        BY <2>1 DEF Signal
  <2>2. CASE Expire
        BY <2>2 DEF Expire
  <2>3. ASSUME NEW c \in Conns, Stale(c) PROVE TypeOK' /\ Bounded'
        BY <2>3 DEF Stale
  <2>4. ASSUME NEW c \in Conns, Disconnect(c) PROVE TypeOK' /\ Bounded'
        BY <2>4 DEF Disconnect
  <2> QED BY <1>1, <2>1, <2>2, <2>3, <2>4 DEF Environment
<1>2. CASE Connection
  <2>1. ASSUME NEW c \in Conns, Read(c) PROVE TypeOK' /\ Bounded'
        BY <2>1 DEF Read
  <2>2. ASSUME NEW c \in Conns, Handle(c) PROVE TypeOK' /\ Bounded'
        BY <2>2 DEF Handle
  <2>3. ASSUME NEW c \in Conns, Finish(c) PROVE TypeOK' /\ Bounded'
        BY <2>3 DEF Finish
  <2> QED BY <1>2, <2>1, <2>2, <2>3 DEF Connection
<1>3. CASE Listener
  <2>1. CASE Listen
        BY <2>1 DEF Listen
  <2>2. CASE Bind
        BY <2>2 DEF Bind
  <2>3. CASE Track
        BY <2>3 DEF Track
  <2>4. CASE Accept
        BY <2>4 DEF Accept
  <2>5. CASE AcceptFails
        BY <2>5 DEF AcceptFails
  <2>6. CASE AcceptClosed
        BY <2>6 DEF AcceptClosed
  <2>7. CASE SendError
        BY <2>7 DEF SendError, CanSend
  <2>8. ASSUME NEW c \in Conns, Admit(c) PROVE TypeOK' /\ Bounded'
        BY <2>8 DEF Admit
  <2> QED BY <1>3, <2>1, <2>2, <2>3, <2>4, <2>5, <2>6, <2>7, <2>8 DEF
             Listener
<1>4. CASE Main
  <2>1. CASE Spawn
        BY <2>1 DEF Spawn
  <2>2. CASE SelectError
        BY <2>2 DEF SelectError
  <2>3. CASE SelectDone
        BY <2>3 DEF SelectDone, ShutdownBudget
  <2>4. CASE MarkShutdown
        BY <2>4 DEF MarkShutdown
  <2>5. CASE CloseListeners
        BY <2>5 DEF CloseListeners
  <2>6. CASE WaitListeners
        BY <2>6 DEF WaitListeners
  <2>7. CASE Poll
        BY <2>7 DEF Poll, Closable, Quiescent
  <2>8. CASE Tick
        BY <2>8 DEF Tick
  <2>9. CASE ShutdownExpired
        BY <2>9 DEF ShutdownExpired
  <2>10. CASE StartHook
        BY <2>10 DEF StartHook, HookLeft
  <2>11. CASE ReturnHook
        BY <2>11 DEF ReturnHook
  <2>12. CASE Return
        BY <2>12 DEF Return, HookLeft
  <2>13. CASE Exit
        BY <2>13 DEF Exit
  <2> QED BY <1>4, <2>1, <2>2, <2>3, <2>4, <2>5, <2>6, <2>7, <2>8, <2>9,
             <2>10, <2>11, <2>12, <2>13 DEF Main
<1>5. CASE Exited \/ UNCHANGED vars
  <2>1. UNCHANGED <<mainVars, listenVars, connVars, ctxDone, errCh, inShutdown>>
        BY <1>5 DEF Exited, vars
  <2>2. TypeOK'
        BY <2>1
  <2>3. Bounded'
        BY <2>1
  <2> QED BY <2>2, <2>3
<1> QED BY <1>1, <1>2, <1>3, <1>4, <1>5 DEF Next

\* Every variable keeps its type: the hooks counted and failed are hooks of
\* this call, and no channel, connection or counter leaves its range.
THEOREM TypeCorrect == Spec => []TypeOK
<1>1. Init => TypeOK /\ Bounded
      BY TypeInit
<1>2. TypeOK /\ Bounded /\ [Next]_vars => (TypeOK /\ Bounded)'
      BY TypeStep
<1> QED BY <1>1, <1>2, PTL DEF Spec

-----------------------------------------------------------------------------
(* The inductive invariant *)

\* Before Run has spawned anything the inductive invariant holds.
LEMMA InvInit == Init => IInv
<1>1. Init => Order /\ Quiet
      BY DEF Init, Order, Quiet, Marked, Waited, Drained, Stopping, Draining,
             Serving
<1> QED BY <1>1, TypeInit DEF IInv

\* What a step does to the order of Run's phases.
LEMMA OrderStep == IInv /\ [Next]_vars => Order'
<1> SUFFICES ASSUME IInv, [Next]_vars PROVE Order'
    OBVIOUS
<1> USE DEF IInv, TypeOK, Bounded, Order, Marked, Waited, Serving, Draining,
            mainVars, listenVars, connVars
<1>1. CASE Environment
  <2>1. CASE Signal
        BY <2>1 DEF Signal
  <2>2. CASE Expire
        BY <2>2 DEF Expire
  <2>3. ASSUME NEW c \in Conns, Stale(c) PROVE Order'
        BY <2>3 DEF Stale
  <2>4. ASSUME NEW c \in Conns, Disconnect(c) PROVE Order'
        BY <2>4 DEF Disconnect
  <2> QED BY <1>1, <2>1, <2>2, <2>3, <2>4 DEF Environment
<1>2. CASE Connection
  <2>1. ASSUME NEW c \in Conns, Read(c) PROVE Order'
        BY <2>1 DEF Read
  <2>2. ASSUME NEW c \in Conns, Handle(c) PROVE Order'
        BY <2>2 DEF Handle
  <2>3. ASSUME NEW c \in Conns, Finish(c) PROVE Order'
        BY <2>3 DEF Finish
  <2> QED BY <1>2, <2>1, <2>2, <2>3 DEF Connection
<1>3. CASE Listener
  <2>1. CASE Listen
        BY <2>1 DEF Listen
  <2>2. CASE Bind
        BY <2>2 DEF Bind
  <2>3. CASE Track
        BY <2>3 DEF Track
  <2>4. CASE Accept
        BY <2>4 DEF Accept
  <2>5. CASE AcceptFails
        BY <2>5 DEF AcceptFails
  <2>6. CASE AcceptClosed
        BY <2>6 DEF AcceptClosed
  <2>7. CASE SendError
        BY <2>7 DEF SendError, CanSend
  <2>8. ASSUME NEW c \in Conns, Admit(c) PROVE Order'
        BY <2>8 DEF Admit
  <2> QED BY <1>3, <2>1, <2>2, <2>3, <2>4, <2>5, <2>6, <2>7, <2>8 DEF
             Listener
<1>4. CASE Main
  <2>1. CASE Spawn
        BY <2>1 DEF Spawn
  <2>2. CASE SelectError
        BY <2>2 DEF SelectError
  <2>3. CASE SelectDone
        BY <2>3 DEF SelectDone, ShutdownBudget
  <2>4. CASE MarkShutdown
        BY <2>4 DEF MarkShutdown
  <2>5. CASE CloseListeners
        BY <2>5 DEF CloseListeners
  <2>6. CASE WaitListeners
        BY <2>6 DEF WaitListeners
  <2>7. CASE Poll
        BY <2>7 DEF Poll, Closable, Quiescent
  <2>8. CASE Tick
        BY <2>8 DEF Tick
  <2>9. CASE ShutdownExpired
        BY <2>9 DEF ShutdownExpired
  <2>10. CASE StartHook
        BY <2>10 DEF StartHook, HookLeft
  <2>11. CASE ReturnHook
        BY <2>11 DEF ReturnHook
  <2>12. CASE Return
        BY <2>12 DEF Return, HookLeft
  <2>13. CASE Exit
        BY <2>13 DEF Exit
  <2> QED BY <1>4, <2>1, <2>2, <2>3, <2>4, <2>5, <2>6, <2>7, <2>8, <2>9,
             <2>10, <2>11, <2>12, <2>13 DEF Main
<1>5. CASE Exited \/ UNCHANGED vars
      BY <1>5 DEF Exited, vars
<1> QED BY <1>1, <1>2, <1>3, <1>4, <1>5 DEF Next

\* Once a drain has succeeded no connection comes back to life.
LEMMA QuietStep == IInv /\ [Next]_vars => Quiet'
<1> SUFFICES ASSUME IInv, [Next]_vars PROVE Quiet'
    OBVIOUS
<1> USE DEF IInv, TypeOK, Order, Quiet, Waited, Serving, Draining, Drained,
            Stopping, mainVars, listenVars, connVars
<1>1. CASE Environment
  <2>1. CASE Signal
        BY <2>1 DEF Signal
  <2>2. CASE Expire
        BY <2>2 DEF Expire
  <2>3. ASSUME NEW c \in Conns, Stale(c) PROVE Quiet'
        BY <2>3 DEF Stale
  <2>4. ASSUME NEW c \in Conns, Disconnect(c) PROVE Quiet'
        BY <2>4 DEF Disconnect
  <2> QED BY <1>1, <2>1, <2>2, <2>3, <2>4 DEF Environment
<1>2. CASE Connection
  <2>1. ASSUME NEW c \in Conns, Read(c) PROVE Quiet'
        BY <2>1 DEF Read
  <2>2. ASSUME NEW c \in Conns, Handle(c) PROVE Quiet'
        BY <2>2 DEF Handle
  <2>3. ASSUME NEW c \in Conns, Finish(c) PROVE Quiet'
        BY <2>3 DEF Finish
  <2> QED BY <1>2, <2>1, <2>2, <2>3 DEF Connection
<1>3. CASE Listener
  <2>1. CASE Listen
        BY <2>1 DEF Listen
  <2>2. CASE Bind
        BY <2>2 DEF Bind
  <2>3. CASE Track
        BY <2>3 DEF Track
  <2>4. CASE Accept
        BY <2>4 DEF Accept
  <2>5. CASE AcceptFails
        BY <2>5 DEF AcceptFails
  <2>6. CASE AcceptClosed
        BY <2>6 DEF AcceptClosed
  <2>7. CASE SendError
        BY <2>7 DEF SendError, CanSend
  <2>8. ASSUME NEW c \in Conns, Admit(c) PROVE Quiet'
        BY <2>8 DEF Admit
  <2> QED BY <1>3, <2>1, <2>2, <2>3, <2>4, <2>5, <2>6, <2>7, <2>8 DEF
             Listener
<1>4. CASE Main
  <2>1. CASE Spawn
        BY <2>1 DEF Spawn
  <2>2. CASE SelectError
        BY <2>2 DEF SelectError
  <2>3. CASE SelectDone
        BY <2>3 DEF SelectDone, ShutdownBudget
  <2>4. CASE MarkShutdown
        BY <2>4 DEF MarkShutdown
  <2>5. CASE CloseListeners
        BY <2>5 DEF CloseListeners
  <2>6. CASE WaitListeners
        BY <2>6 DEF WaitListeners
  <2>7. CASE Poll
        BY <2>7 DEF Poll, Closable, Quiescent
  <2>8. CASE Tick
        BY <2>8 DEF Tick
  <2>9. CASE ShutdownExpired
        BY <2>9 DEF ShutdownExpired
  <2>10. CASE StartHook
        BY <2>10 DEF StartHook, HookLeft
  <2>11. CASE ReturnHook
        BY <2>11 DEF ReturnHook
  <2>12. CASE Return
        BY <2>12 DEF Return, HookLeft
  <2>13. CASE Exit
        BY <2>13 DEF Exit
  <2> QED BY <1>4, <2>1, <2>2, <2>3, <2>4, <2>5, <2>6, <2>7, <2>8, <2>9,
             <2>10, <2>11, <2>12, <2>13 DEF Main
<1>5. CASE Exited \/ UNCHANGED vars
      BY <1>5 DEF Exited, vars
<1> QED BY <1>1, <1>2, <1>3, <1>4, <1>5 DEF Next

\* Run and the goroutines around it keep the inductive invariant for ever.
LEMMA Invariance == Spec => []IInv
<1>1. IInv /\ [Next]_vars => IInv'
      BY TypeStep, OrderStep, QuietStep DEF IInv
<1> QED BY <1>1, InvInit, PTL DEF Spec

-----------------------------------------------------------------------------
(* The safety properties *)

\* A Run that returned nil drained everything and ran every hook.
THEOREM NilReturnIsClean == Spec => []NilMeansDrained
<1>1. IInv => NilMeansDrained
      BY DEF IInv, Order, Quiet, NilMeansDrained, ReturnedNil, Drained,
             Stopping, Marked, Waited
<1> QED BY <1>1, Invariance, PTL

\* No connection is admitted once the hooks may run.
THEOREM DoorStaysClosed == Spec => NoAcceptAfterHooks
<1>1. IInv /\ [Next]_vars =>
        (Stopping /\ err # "listen" =>
           \A c \in Conns : conn[c] = "none" => conn'[c] = "none")
  <2> SUFFICES ASSUME IInv, [Next]_vars, Stopping, err # "listen",
                      NEW d \in Conns, conn[d] = "none"
               PROVE  conn'[d] = "none"
      OBVIOUS
  <2> USE DEF IInv, TypeOK, Order, Waited, Serving, Stopping, mainVars, listenVars,
              connVars
  <2>1. ~Serving
        OBVIOUS
  <2>2. CASE Environment
        BY <2>2 DEF Environment, Signal, Expire, Stale, Disconnect
  <2>3. CASE Connection
        BY <2>3 DEF Connection, Read, Handle, Finish
  <2>4. CASE Listener
        BY <2>1, <2>4 DEF Listener, Listen, Bind, Track, Accept, AcceptFails,
           AcceptClosed, SendError, Admit
  <2>5. CASE Main
        BY <2>5 DEF Main, Spawn, SelectError, SelectDone, MarkShutdown,
           CloseListeners, WaitListeners, Poll, Tick, ShutdownExpired,
           StartHook, ReturnHook, Return, Exit
  <2>6. CASE Exited \/ UNCHANGED vars
        BY <2>6 DEF Exited, vars
  <2> QED BY <2>2, <2>3, <2>4, <2>5, <2>6 DEF Next
<1> QED BY <1>1, Invariance, PTL DEF Spec, NoAcceptAfterHooks

\* After a drain that succeeded nothing is answered: a flush hook sees all of
\* what clients were told.
THEOREM NothingAnsweredAfterDrain == Spec => NoAnswerAfterDrain
<1>1. IInv /\ [Next]_vars => (Drained => answered' = answered)
  <2> SUFFICES ASSUME IInv, [Next]_vars, Drained PROVE answered' = answered
      OBVIOUS
  <2> USE DEF mainVars, listenVars, connVars
  <2>1. CASE Environment
        BY <2>1 DEF Environment, Signal, Expire, Stale, Disconnect
  <2>2. CASE Connection
    <3>1. \A c \in Conns : conn[c] # "active"
          BY DEF IInv, Quiet
    <3> QED BY <2>2, <3>1 DEF Connection, Read, Handle, Finish
  <2>3. CASE Listener
        BY <2>3 DEF Listener, Listen, Bind, Track, Accept, AcceptFails,
           AcceptClosed, SendError, Admit
  <2>4. CASE Main
        BY <2>4 DEF Main, Spawn, SelectError, SelectDone, MarkShutdown,
           CloseListeners, WaitListeners, Poll, Tick, ShutdownExpired,
           StartHook, ReturnHook, Return, Exit
  <2>5. CASE Exited \/ UNCHANGED vars
        BY <2>5 DEF Exited, vars
  <2> QED BY <2>1, <2>2, <2>3, <2>4, <2>5 DEF Next
<1> QED BY <1>1, Invariance, PTL DEF Spec, NoAnswerAfterDrain

-----------------------------------------------------------------------------
(* Refinement *)

\* A Run that has just been called starts where its contract starts.
LEMMA ContractInit == Init => Contract!Init
BY DEF Init, Contract!Init, Phase, Drained, Stopping, Draining

\* Every step of Run and of the goroutines around it is a step of the
\* contract, or changes nothing the contract speaks of.
LEMMA ContractStep == IInv /\ [Next]_vars => [Contract!Next]_Contract!vars
<1> SUFFICES ASSUME IInv, [Next]_vars PROVE [Contract!Next]_Contract!vars
    OBVIOUS
<1> USE DEF mainVars, listenVars, connVars, Phase, Drained, Stopping, Draining
<1> DEFINE Stutter == UNCHANGED <<Phase, Drained, answered, hooksRun, failed, err>>
<1>1. Stutter => [Contract!Next]_Contract!vars
      BY DEF Contract!vars
<1>2. CASE Environment
      BY <1>1, <1>2 DEF Environment, Signal, Expire, Stale, Disconnect
<1>3. CASE Connection
  <2>1. ASSUME NEW c \in Conns, Read(c) \/ Handle(c) PROVE Stutter
        BY <2>1 DEF Read, Handle
  <2>2. ASSUME NEW c \in Conns, Finish(c) PROVE Stutter \/ Contract!Answer(c)
    <3>1. Drained => conn[c] # "active"
          BY DEF IInv, Quiet
    <3> QED BY <2>2, <3>1 DEF Finish, Contract!Answer
  <2> QED BY <1>1, <1>3, <2>1, <2>2 DEF Connection, Contract!Next
<1>4. CASE Listener
      BY <1>1, <1>4 DEF Listener, Listen, Bind, Track, Accept, AcceptFails,
         AcceptClosed, SendError, Admit
<1>5. CASE Main
  <2>1. CASE Spawn \/ MarkShutdown \/ CloseListeners \/ WaitListeners \/ Tick
             \/ StartHook \/ Exit
        BY <1>1, <2>1 DEF Spawn, MarkShutdown, CloseListeners, WaitListeners, Tick,
           StartHook, Exit
  <2>2. CASE SelectError
    <3>1. Contract!Fail
          BY <2>2 DEF SelectError, Contract!Fail, IInv, Order
    <3> QED BY <3>1 DEF Contract!Next
  <2>3. CASE SelectDone
    <3>1. Contract!BeginDrain
          BY <2>3 DEF SelectDone, Contract!BeginDrain
    <3> QED BY <3>1 DEF Contract!Next
  <2>4. CASE Poll
    <3>1. err = "none"
          BY <2>4 DEF Poll, IInv, Order
    <3>2. Stutter \/ Contract!Drained
          BY <2>4, <3>1 DEF Poll, Contract!Drained
    <3> QED BY <1>1, <3>2 DEF Contract!Next
  <2>5. CASE ShutdownExpired
    <3>1. Contract!GiveUp
          BY <2>5 DEF ShutdownExpired, Contract!GiveUp
    <3> QED BY <3>1 DEF Contract!Next
  <2>6. CASE ReturnHook
    <3>1. hooksRun < NHooks
          BY <2>6 DEF ReturnHook, IInv, Bounded
    <3>2. Contract!Flush
          BY <2>6, <3>1 DEF ReturnHook, Contract!Flush
    <3> QED BY <3>2 DEF Contract!Next
  <2>7. CASE Return
    <3>1. hooksRun = NHooks
          BY <2>7 DEF Return, HookLeft, IInv, TypeOK
    <3>2. Contract!Return
          BY <2>7, <3>1 DEF Return, Contract!Return
    <3> QED BY <3>2 DEF Contract!Next
  <2> QED BY <1>5, <2>1, <2>2, <2>3, <2>4, <2>5, <2>6, <2>7 DEF Main
<1>6. CASE Exited \/ UNCHANGED vars
      BY <1>1, <1>6 DEF Exited, vars
<1> QED BY <1>2, <1>3, <1>4, <1>5, <1>6 DEF Next

\* Run keeps the contract of GracefulStop: drain or give up, then every hook
\* once and in order, then return, and no answer after a drain that succeeded.
THEOREM Implements == Spec => ContractSpec
<1> QED BY ContractInit, ContractStep, Invariance, PTL
        DEF Spec, ContractSpec, Contract!Spec

=============================================================================
