--------------------------- MODULE GracefulServer ---------------------------
(***************************************************************************)
(* httpx.Server.Run (backend/internal/httpx/server.go) and the part of     *)
(* net/http it drives.  Three kinds of process interleave:                 *)
(*   - the goroutine that called Run (pc): it waits for the first of a     *)
(*     serve error and a signal, shuts the HTTP server down within the     *)
(*     timeout, runs the hooks with the same context, and returns;         *)
(*   - the goroutine Run starts (lpc): http.Server.ListenAndServe;         *)
(*   - one goroutine per connection (hpc), which reads a request, runs the *)
(*     handler chain, and answers.                                         *)
(* The environment delivers the signal, opens and drops connections, and   *)
(* lets time pass.  net/http is external: its steps are those that decide  *)
(* when Shutdown returns and what may still run afterwards.                *)
(***************************************************************************)
EXTENDS Naturals, FiniteSets

CONSTANTS Conns,       \* client connections
          NHooks,      \* number of shutdown hooks given to Run
          MaxRequests  \* bound: requests read on one connection

ASSUME NHooksAssumption == NHooks \in Nat
ASSUME MaxRequestsAssumption == MaxRequests \in Nat

VARIABLES
  pc,         \* where Run is; the values are listed in TypeOK
  ctxDone,    \* the context of signal.NotifyContext is done
  errCh,      \* number of errors buffered in errCh
  deadline,   \* shutdownCtx: unset, running or expired
  err,        \* Run's own error so far: none, listen or shutdown
  hooksRun,   \* hooks that have returned
  failed,     \* positions of the hooks that returned an error
  inShutdown, \* http.Server.inShutdown
  lpc,        \* where the ListenAndServe goroutine is
  listener,   \* the listening socket: none, bound, open (tracked) or closed
  conn,       \* net/http's state of each connection
  hpc,        \* what each connection's goroutine does
  answered    \* responses delivered to the client of each connection

mainVars == <<pc, deadline, err, hooksRun, failed>>
listenVars == <<lpc, listener>>
connVars == <<conn, hpc, answered>>
vars == <<mainVars, ctxDone, errCh, inShutdown, listenVars, connVars>>

-----------------------------------------------------------------------------

Init == /\ pc = "start"
        /\ ctxDone = FALSE
        /\ errCh = 0
        /\ deadline = "unset"
        /\ err = "none"
        /\ hooksRun = 0
        /\ failed = {}
        /\ inShutdown = FALSE
        /\ lpc = "none"
        /\ listener = "none"
        /\ conn = [c \in Conns |-> "none"]
        /\ hpc = [c \in Conns |-> "waiting"]
        /\ answered = [c \in Conns |-> 0]

\* The process, and every goroutine with it, is still there.
Alive == pc # "exited"

\* Faulty: an unbuffered errCh needs Run to be receiving.
CanSendUnbuffered == pc = "select"

\* errCh has a buffer of one.
CanSend == errCh < 1

\* Faulty: shutdownCtx without a timeout.
ShutdownBudgetUnbounded == "unset"

\* shutdownCtx: detached from the cancelled context, with the timeout.
ShutdownBudget == "running"

\* Faulty: the loop runs one hook too many.
HookLeftOneMore == hooksRun <= NHooks

\* Faulty: a hook that failed ends the loop.
HookLeftUntilError == hooksRun < NHooks /\ failed = {}

HookLeft == hooksRun < NHooks

\* Connections Shutdown closes in one poll: idle ones, and those that sent no
\* request for five seconds after they were accepted.
Closable == {c \in Conns : conn[c] \in {"idle", "stale"}}

\* closeIdleConns found nothing it has to wait for.
Quiescent == \A c \in Conns : conn[c] \in {"none", "idle", "stale", "closed"}

\* The accept loop has not returned: it holds a place in listenerGroup.
Serving == lpc \in {"accepting", "accepted"}

-----------------------------------------------------------------------------
(* The environment *)

\* SIGINT, SIGTERM or the cancellation of the caller's context.
Signal == /\ pc \in {"start", "select"}
          /\ ~ctxDone
          /\ ctxDone' = TRUE
          /\ UNCHANGED <<mainVars, errCh, inShutdown, listenVars, connVars>>

\* The shutdown timeout elapses, wherever Run is by then.
Expire == /\ Alive
          /\ deadline = "running"
          /\ deadline' = "expired"
          /\ UNCHANGED <<pc, err, hooksRun, failed, ctxDone, errCh, inShutdown,
                         listenVars, connVars>>

\* A connection that sent nothing for five seconds.
Stale(c) == /\ Alive
            /\ conn[c] = "new"
            /\ hpc[c] = "waiting"
            /\ conn' = [conn EXCEPT ![c] = "stale"]
            /\ UNCHANGED <<mainVars, ctxDone, errCh, inShutdown, listenVars,
                           hpc, answered>>

\* The client leaves, or a read or idle timeout ends the connection.
Disconnect(c) == /\ Alive
                 /\ hpc[c] = "waiting"
                 /\ conn[c] \in {"new", "stale", "idle"}
                 /\ conn' = [conn EXCEPT ![c] = "closed"]
                 /\ UNCHANGED <<mainVars, ctxDone, errCh, inShutdown,
                                listenVars, hpc, answered>>

-----------------------------------------------------------------------------
(* Connections (net/http conn.serve) *)

\* A request has been read; net/http has not marked the connection active yet.
Read(c) == /\ Alive
           /\ hpc[c] = "waiting"
           /\ conn[c] \in {"new", "stale", "idle"}
           /\ answered[c] < MaxRequests
           /\ hpc' = [hpc EXCEPT ![c] = "read"]
           /\ UNCHANGED <<mainVars, ctxDone, errCh, inShutdown, listenVars,
                          conn, answered>>

\* The handler starts, on a connection Shutdown may have closed meanwhile.
Handle(c) == /\ Alive
             /\ hpc[c] = "read"
             /\ hpc' = [hpc EXCEPT ![c] = "handling"]
             /\ conn' = [conn EXCEPT ![c] = IF @ = "closed" THEN @ ELSE "active"]
             /\ UNCHANGED <<mainVars, ctxDone, errCh, inShutdown, listenVars,
                            answered>>

\* The handler returns.  The answer reaches the client unless the connection
\* is gone; a server that is shutting down does not keep the connection.
Finish(c) == /\ Alive
             /\ hpc[c] = "handling"
             /\ hpc' = [hpc EXCEPT ![c] = "waiting"]
             /\ \/ /\ conn[c] = "active"
                   /\ answered' = [answered EXCEPT ![c] = @ + 1]
                   /\ conn' = [conn EXCEPT ![c] = IF inShutdown THEN "closed" ELSE "idle"]
                \/ /\ conn' = [conn EXCEPT ![c] = "closed"]
                   /\ UNCHANGED answered
             /\ UNCHANGED <<mainVars, ctxDone, errCh, inShutdown, listenVars>>

-----------------------------------------------------------------------------
(* The goroutine running http.Server.ListenAndServe *)

\* ListenAndServe refuses a server that is already shutting down.
Listen == /\ Alive
          /\ lpc = "spawned"
          /\ lpc' = IF inShutdown THEN "ended" ELSE "binding"
          /\ UNCHANGED <<mainVars, ctxDone, errCh, inShutdown, listener, connVars>>

\* net.Listen: the address is free or it is not.
Bind == /\ Alive
        /\ lpc = "binding"
        /\ \/ lpc' = "bound" /\ listener' = "bound"
           \/ lpc' = "failed" /\ UNCHANGED listener
        /\ UNCHANGED <<mainVars, ctxDone, errCh, inShutdown, connVars>>

\* trackListener: under the server's mutex, refuse or register the listener.
Track == /\ Alive
         /\ lpc = "bound"
         /\ IF inShutdown
            THEN lpc' = "ended" /\ listener' = "closed"
            ELSE lpc' = "accepting" /\ listener' = "open"
         /\ UNCHANGED <<mainVars, ctxDone, errCh, inShutdown, connVars>>

Accept == /\ Alive
          /\ lpc = "accepting"
          /\ listener = "open"
          /\ \E c \in Conns : conn[c] = "none"
          /\ lpc' = "accepted"
          /\ UNCHANGED <<mainVars, ctxDone, errCh, inShutdown, listener, connVars>>

\* The accepted connection is registered and gets its goroutine, even when
\* the listener was closed after Accept returned it.
Admit(c) == /\ Alive
            /\ lpc = "accepted"
            /\ conn[c] = "none"
            /\ conn' = [conn EXCEPT ![c] = "new"]
            /\ lpc' = "accepting"
            /\ UNCHANGED <<mainVars, ctxDone, errCh, inShutdown, listener, hpc,
                           answered>>

\* Accept fails for good.  During a shutdown that is ErrServerClosed, which
\* Run's goroutine drops; at any other time it is an error it reports.
AcceptFails == /\ Alive
               /\ lpc = "accepting"
               /\ listener = "open"
               /\ listener' = "closed"
               /\ lpc' = IF inShutdown THEN "ended" ELSE "failed"
               /\ UNCHANGED <<mainVars, ctxDone, errCh, inShutdown, connVars>>

\* Accept on the listener Shutdown closed.
AcceptClosed == /\ Alive
                /\ lpc = "accepting"
                /\ listener = "closed"
                /\ lpc' = IF inShutdown THEN "ended" ELSE "failed"
                /\ UNCHANGED <<mainVars, ctxDone, errCh, inShutdown, listener,
                               connVars>>

\* Faulty: an error that is not ErrServerClosed is dropped too.
SendErrorDropped == /\ Alive
                    /\ lpc = "failed"
                    /\ lpc' = "ended"
                    /\ UNCHANGED <<mainVars, ctxDone, errCh, inShutdown,
                                   listener, connVars>>

\* errCh <- err, with the channel's buffer of one.
SendError == /\ Alive
             /\ lpc = "failed"
             /\ CanSend
             /\ errCh' = errCh + 1
             /\ lpc' = "ended"
             /\ UNCHANGED <<mainVars, ctxDone, inShutdown, listener, connVars>>

-----------------------------------------------------------------------------
(* The goroutine that called Run *)

Spawn == /\ pc = "start"
         /\ pc' = "select"
         /\ lpc' = "spawned"
         /\ UNCHANGED <<deadline, err, hooksRun, failed, ctxDone, errCh,
                        inShutdown, listener, connVars>>

\* case err := <-errCh: Run returns at once, without shutdown and hooks.
SelectError == /\ pc = "select"
               /\ errCh > 0
               /\ errCh' = errCh - 1
               /\ err' = "listen"
               /\ pc' = "returned"
               /\ UNCHANGED <<deadline, hooksRun, failed, ctxDone, inShutdown,
                              listenVars, connVars>>

\* Faulty: the hooks are run first, while the server still serves.
SelectDoneHooksFirst == /\ pc = "select"
                        /\ ctxDone
                        /\ deadline' = ShutdownBudget
                        /\ pc' = "hooks"
                        /\ UNCHANGED <<err, hooksRun, failed, ctxDone, errCh,
                                       inShutdown, listenVars, connVars>>

\* case <-ctx.Done(): the budget of the shutdown starts to run.
SelectDone == /\ pc = "select"
              /\ ctxDone
              /\ deadline' = ShutdownBudget
              /\ pc' = "mark"
              /\ UNCHANGED <<err, hooksRun, failed, ctxDone, errCh, inShutdown,
                             listenVars, connVars>>

\* http.Server.Shutdown, first step: inShutdown.Store(true).
MarkShutdown == /\ pc = "mark"
                /\ inShutdown' = TRUE
                /\ pc' = "close"
                /\ UNCHANGED <<deadline, err, hooksRun, failed, ctxDone, errCh,
                               listenVars, connVars>>

\* Only a listener that was tracked by now is closed here.
CloseListeners == /\ pc = "close"
                  /\ listener' = IF listener = "open" THEN "closed" ELSE listener
                  /\ pc' = "wait"
                  /\ UNCHANGED <<deadline, err, hooksRun, failed, ctxDone, errCh,
                                 inShutdown, lpc, connVars>>

\* listenerGroup.Wait(): not bounded by the timeout.
WaitListeners == /\ pc = "wait"
                 /\ ~Serving
                 /\ pc' = "poll"
                 /\ UNCHANGED <<deadline, err, hooksRun, failed, ctxDone, errCh,
                                inShutdown, listenVars, connVars>>

\* One closeIdleConns: done if quiescent, otherwise wait for the next tick.
Poll == /\ pc = "poll"
        /\ conn' = [c \in Conns |-> IF c \in Closable THEN "closed" ELSE conn[c]]
        /\ pc' = IF Quiescent THEN "hooks" ELSE "tick"
        /\ UNCHANGED <<deadline, err, hooksRun, failed, ctxDone, errCh,
                       inShutdown, listenVars, hpc, answered>>

Tick == /\ pc = "tick"
        /\ pc' = "poll"
        /\ UNCHANGED <<deadline, err, hooksRun, failed, ctxDone, errCh,
                       inShutdown, listenVars, connVars>>

\* Faulty: the timeout is not reported as an error.
ShutdownExpiredSilently == /\ pc = "tick"
                           /\ deadline = "expired"
                           /\ pc' = "hooks"
                           /\ UNCHANGED <<deadline, err, hooksRun, failed,
                                ctxDone, errCh, inShutdown, listenVars, connVars>>

\* Shutdown returns the context's error; open connections stay open.
ShutdownExpired == /\ pc = "tick"
                   /\ deadline = "expired"
                   /\ err' = "shutdown"
                   /\ pc' = "hooks"
                   /\ UNCHANGED <<deadline, hooksRun, failed, ctxDone, errCh,
                                  inShutdown, listenVars, connVars>>

\* The next hook is called, with shutdownCtx whatever is left of it.
StartHook == /\ pc = "hooks"
             /\ HookLeft
             /\ pc' = "inhook"
             /\ UNCHANGED <<deadline, err, hooksRun, failed, ctxDone, errCh,
                            inShutdown, listenVars, connVars>>

\* The hook returns nil or an error, which is joined to what failed before.
ReturnHook == /\ pc = "inhook"
              /\ hooksRun' = hooksRun + 1
              /\ failed' \in {failed, failed \union {hooksRun + 1}}
              /\ pc' = "hooks"
              /\ UNCHANGED <<deadline, err, ctxDone, errCh, inShutdown,
                             listenVars, connVars>>

Return == /\ pc = "hooks"
          /\ ~HookLeft
          /\ pc' = "returned"
          /\ UNCHANGED <<deadline, err, hooksRun, failed, ctxDone, errCh,
                         inShutdown, listenVars, connVars>>

\* main returns or calls os.Exit(1); a test that calls Run goes on instead.
Exit == /\ pc = "returned"
        /\ pc' = "exited"
        /\ UNCHANGED <<deadline, err, hooksRun, failed, ctxDone, errCh,
                       inShutdown, listenVars, connVars>>

Exited == pc = "exited" /\ UNCHANGED vars

-----------------------------------------------------------------------------

Environment == \/ Signal
               \/ Expire
               \/ \E c \in Conns : Stale(c) \/ Disconnect(c)

Connection == \E c \in Conns : Read(c) \/ Handle(c) \/ Finish(c)

Listener == \/ Listen \/ Bind \/ Track \/ Accept \/ AcceptFails
            \/ AcceptClosed \/ SendError
            \/ \E c \in Conns : Admit(c)

Main == \/ Spawn \/ SelectError \/ SelectDone \/ MarkShutdown
        \/ CloseListeners \/ WaitListeners \/ Poll \/ Tick \/ ShutdownExpired
        \/ StartHook \/ ReturnHook \/ Return \/ Exit

Next == Environment \/ Connection \/ Listener \/ Main \/ Exited

Spec == Init /\ [][Next]_vars

(***************************************************************************)
(* Every goroutine that can step eventually does, time passes, and a hook  *)
(* returns.  Handlers may run for ever, signals and failures may never     *)
(* come, and the caller of Run need not exit.  In "tick" Go's select picks *)
(* at random among a timer and an expired context, which is what strong    *)
(* fairness of ShutdownExpired stands for.                                 *)
(***************************************************************************)
Fairness == /\ WF_vars(Expire)
            /\ WF_vars(Listen) /\ WF_vars(Bind) /\ WF_vars(Track)
            /\ WF_vars(\E c \in Conns : Admit(c))
            /\ WF_vars(AcceptClosed) /\ WF_vars(SendError)
            /\ WF_vars(Spawn) /\ WF_vars(SelectError \/ SelectDone)
            /\ WF_vars(MarkShutdown) /\ WF_vars(CloseListeners)
            /\ WF_vars(WaitListeners) /\ WF_vars(Poll) /\ WF_vars(Tick)
            /\ SF_vars(ShutdownExpired)
            /\ WF_vars(StartHook) /\ WF_vars(ReturnHook) /\ WF_vars(Return)

FairSpec == Spec /\ Fairness

-----------------------------------------------------------------------------
(* Properties *)

\* Where Run is, in the terms of its contract; Drained: Shutdown returned nil.
Draining == pc \in {"mark", "close", "wait", "poll", "tick"}
Stopping == pc \in {"hooks", "inhook", "returned", "exited"}
Drained == Stopping /\ err = "none"

\* Every variable has its type, and the hooks counted and those that failed
\* are hooks of this call of Run.
TypeOK ==
  /\ pc \in {"start", "select", "mark", "close", "wait", "poll", "tick",
             "hooks", "inhook", "returned", "exited"}
  /\ ctxDone \in BOOLEAN
  /\ errCh \in 0..1
  /\ deadline \in {"unset", "running", "expired"}
  /\ err \in {"none", "listen", "shutdown"}
  /\ hooksRun \in 0..NHooks
  /\ failed \subseteq 1..hooksRun
  /\ inShutdown \in BOOLEAN
  /\ lpc \in {"none", "spawned", "binding", "bound", "accepting", "accepted",
              "failed", "ended"}
  /\ listener \in {"none", "bound", "open", "closed"}
  /\ conn \in [Conns -> {"none", "new", "stale", "idle", "active", "closed"}]
  /\ hpc \in [Conns -> {"waiting", "read", "handling"}]
  /\ answered \in [Conns -> 0..MaxRequests]

\* A Run that returns nil has drained every connection and closed the door:
\* no connection is left on which a request could still be answered, the
\* accept loop is over, and every hook ran without an error.
ReturnedNil == pc = "returned" /\ err = "none" /\ failed = {}
NilMeansDrained ==
  ReturnedNil => /\ \A c \in Conns : conn[c] \in {"none", "closed"}
                 /\ ~Serving
                 /\ inShutdown
                 /\ hooksRun = NHooks

\* From the moment the first hook may run, after a drain or a timeout, no new
\* connection is admitted, whatever the listener's goroutine was doing when
\* the shutdown began.
NoAcceptAfterHooks ==
  [][Stopping /\ err # "listen" =>
       \A c \in Conns : conn[c] = "none" => conn'[c] = "none"]_vars

\* After a Shutdown that returned nil no request is answered any more, not
\* even one whose handler started late: what a flush hook sees is everything
\* any client was told was accepted.
NoAnswerAfterDrain == [][Drained => answered' = answered]_vars

\* Whatever the handlers and the listener do, a stop request makes Run return,
\* even if it arrives before the server listens, and even if a handler never
\* returns.
ShutdownTerminates == ctxDone ~> pc \in {"returned", "exited"}

\* A server that cannot listen or accept does not stay up doing nothing.
FailureEndsRun == lpc = "failed" ~> pc \in {"returned", "exited"}

\* The listening goroutine ends even if Run no longer receives from errCh.
NoGoroutineLeak == lpc = "failed" ~> lpc = "ended" \/ pc = "exited"

\* Run implements the contract of GracefulStop.
Phase == IF pc \in {"start", "select"} THEN "open"
         ELSE IF Draining THEN "draining"
         ELSE IF pc \in {"hooks", "inhook"} THEN "flushing"
         ELSE "stopped"

Contract == INSTANCE GracefulStop WITH phase <- Phase, drained <- Drained
ContractSpec == Contract!Spec

\* server.go:48-49: "hooks run after the HTTP listener is closed and before Run
\* returns", so that no accepted event is lost: whoever was answered, the hooks
\* run before Run is over.  Refuted when the accept loop fails.
AnsweredMeansFlushed ==
  pc = "returned" /\ (\E c \in Conns : answered[c] > 0) => hooksRun = NHooks

\* server.go:82-83: hooks run even when the shutdown timed out, because the
\* flush matters more.  So after a timeout the first hook is called with time
\* left to work.  Refuted: it gets the context whose deadline has just passed.
FlushHasBudget ==
  [][pc = "hooks" /\ pc' = "inhook" /\ hooksRun = 0 /\ err = "shutdown"
       => deadline = "running"]_vars

=============================================================================
