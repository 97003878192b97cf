---------------------------- MODULE GracefulStop ----------------------------
(***************************************************************************)
(* What httpx.Server.Run promises its caller, with no listener, no polling *)
(* and no goroutines: a service answers requests until it is asked to      *)
(* stop, drains or gives up draining, runs every shutdown hook once and in *)
(* order, and returns.  After a drain that succeeded nothing is answered   *)
(* any more, so a hook that flushes sees everything that was acknowledged. *)
(* GracefulServer.tla is the implementation and is shown to refine this.   *)
(***************************************************************************)
EXTENDS Naturals

CONSTANTS Conns,    \* client connections
          NHooks    \* number of shutdown hooks given to Run

VARIABLES phase,    \* open -> draining -> flushing -> stopped
          drained,  \* the drain completed: no request is in flight
          answered, \* answers delivered on each connection
          hooksRun, \* hooks that have returned
          failed,   \* the hooks, by position, that returned an error
          err       \* the server's own error: none, listen or shutdown

vars == <<phase, drained, answered, hooksRun, failed, err>>

Init == /\ phase = "open"
        /\ drained = FALSE
        /\ answered = [c \in Conns |-> 0]
        /\ hooksRun = 0
        /\ failed = {}
        /\ err = "none"

Answer(c) == /\ ~drained
             /\ answered' = [answered EXCEPT ![c] = @ + 1]
             /\ UNCHANGED <<phase, drained, hooksRun, failed, err>>

\* Serving failed: there is nothing to drain.
Fail == /\ phase = "open"
        /\ phase' = "stopped"
        /\ err' = "listen"
        /\ UNCHANGED <<drained, answered, hooksRun, failed>>

BeginDrain == /\ phase = "open"
              /\ phase' = "draining"
              /\ UNCHANGED <<drained, answered, hooksRun, failed, err>>

Drained == /\ phase = "draining"
           /\ phase' = "flushing"
           /\ drained' = TRUE
           /\ UNCHANGED <<answered, hooksRun, failed, err>>

GiveUp == /\ phase = "draining"
          /\ phase' = "flushing"
          /\ err' = "shutdown"
          /\ UNCHANGED <<drained, answered, hooksRun, failed>>

Flush == /\ phase = "flushing"
         /\ hooksRun < NHooks
         /\ hooksRun' = hooksRun + 1
         /\ failed' \in {failed, failed \union {hooksRun + 1}}
         /\ UNCHANGED <<phase, drained, answered, err>>

Return == /\ phase = "flushing"
          /\ hooksRun = NHooks
          /\ phase' = "stopped"
          /\ UNCHANGED <<drained, answered, hooksRun, failed, err>>

Next == \/ \E c \in Conns : Answer(c)
        \/ Fail
        \/ BeginDrain
        \/ Drained
        \/ GiveUp
        \/ Flush
        \/ Return

Spec == Init /\ [][Next]_vars

=============================================================================
