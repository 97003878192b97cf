------------------------------ MODULE Readiness ------------------------------
(***************************************************************************)
(* GET /readyz (backend/internal/handler/health_handler.go).  A request    *)
(* asks the probes one after the other, all under one context that ends    *)
(* when probeTimeout has passed or the client has left, while the          *)
(* dependencies behind the probes come, go and hang, and while other       *)
(* /readyz requests do the same.  The probes are external: none is written *)
(* yet, and what is assumed of one is what Prober's comments say.          *)
(***************************************************************************)
EXTENDS Naturals

CONSTANTS Requests,   \* goroutines serving /readyz
          NProbes,    \* probes, each with a name of its own
          MaxChanges  \* bound: changes of state of a dependency

ASSUME NProbesAssumption == NProbes \in Nat
ASSUME MaxChangesAssumption == MaxChanges \in Nat

Probes == 1..NProbes

VARIABLES
  dep,      \* each dependency as it is: up, down or hung
  changes,  \* changes of dep so far
  pc,       \* idle, asking, waiting (inside Check), answering or answered
  probe,    \* the probe the loop is at
  ctx,      \* the request's context: live, expired or cancelled
  checks,   \* resp.Checks: unset, ok or error
  body,     \* resp.Status: ok or degraded
  status,   \* the HTTP status
  wasUp,    \* history: dependencies up at some time since the request began
  wasBad    \* history: dependencies not up at some time since then

depVars == <<dep, changes>>
answer == <<checks, body, status>>
history == <<wasUp, wasBad>>
vars == <<depVars, pc, probe, ctx, answer, history>>

Up == {p \in Probes : dep[p] = "up"}

Init == /\ dep \in [Probes -> {"up", "down", "hung"}]
        /\ changes = 0
        /\ pc = [r \in Requests |-> "idle"]
        /\ probe = [r \in Requests |-> 1]
        /\ ctx = [r \in Requests |-> "live"]
        /\ checks = [r \in Requests |-> [p \in Probes |-> "unset"]]
        /\ body = [r \in Requests |-> "ok"]
        /\ status = [r \in Requests |-> 200]
        /\ wasUp = [r \in Requests |-> {}]
        /\ wasBad = [r \in Requests |-> {}]

-----------------------------------------------------------------------------

InFlight(r) == pc[r] \in {"asking", "waiting", "answering"}

\* A dependency comes, goes, hangs or recovers.
Change(p) ==
  /\ changes < MaxChanges
  /\ changes' = changes + 1
  /\ dep' \in {[dep EXCEPT ![p] = s] : s \in {"up", "down", "hung"} \ {dep[p]}}
  /\ wasUp' = [r \in Requests |-> wasUp[r] \union (IF InFlight(r) THEN Up' ELSE {})]
  /\ wasBad' = [r \in Requests |->
                  wasBad[r] \union (IF InFlight(r) THEN Probes \ Up' ELSE {})]
  /\ UNCHANGED <<pc, probe, ctx, answer>>

Begin(r) == /\ pc[r] = "idle"
            /\ pc' = [pc EXCEPT ![r] = IF NProbes = 0 THEN "answering" ELSE "asking"]
            /\ wasUp' = [wasUp EXCEPT ![r] = Up]
            /\ wasBad' = [wasBad EXCEPT ![r] = Probes \ Up]
            /\ UNCHANGED <<depVars, probe, ctx, answer>>

\* Faulty: the client's context is used as it is.
EndingsNoTimeout == {"cancelled"}

\* probeTimeout passes, or the client disconnects.
Endings == {"expired", "cancelled"}

EndContext(r, how) == /\ InFlight(r)
                      /\ ctx[r] = "live"
                      /\ how \in Endings
                      /\ ctx' = [ctx EXCEPT ![r] = how]
                      /\ UNCHANGED <<depVars, pc, probe, answer, history>>

\* The loop calls Check of the probe it is at.
Ask(r) == /\ pc[r] = "asking"
          /\ pc' = [pc EXCEPT ![r] = "waiting"]
          /\ UNCHANGED <<depVars, probe, ctx, answer, history>>

\* Faulty: every result goes to the first probe's name.
NamedFirst(r) == 1

\* Whose name the result is recorded under.
Named(r) == probe[r]

\* Faulty: the loop runs once more.
MoreProbesByOne(r) == probe[r] <= NProbes

MoreProbes(r) == probe[r] < NProbes

\* What the loop does with the answer of a probe, and goes on.
Record(r, entry) ==
  /\ checks' = [checks EXCEPT ![r][Named(r)] = entry]
  /\ probe' = [probe EXCEPT ![r] = @ + 1]
  /\ pc' = [pc EXCEPT ![r] = IF MoreProbes(r) THEN "asking" ELSE "answering"]

\* Check returns nil: the dependency is usable right now.
CheckOk(r) == /\ pc[r] = "waiting"
              /\ dep[probe[r]] = "up"
              /\ Record(r, "ok")
              /\ UNCHANGED <<depVars, ctx, body, status, history>>

\* Faulty: only the last probe decides.
StatusOfLastProbe(r) == IF probe[r] = NProbes THEN 503 ELSE status[r]

\* One failed check is enough.
StatusAfterError(r) == 503

\* Check returns an error: the dependency is down, or it has hung until the
\* context was done, or the context was done before it could answer.
CheckError(r) == /\ pc[r] = "waiting"
                 /\ dep[probe[r]] = "down" \/ ctx[r] # "live"
                 /\ Record(r, "error")
                 /\ body' = [body EXCEPT ![r] = "degraded"]
                 /\ status' = [status EXCEPT ![r] = StatusAfterError(r)]
                 /\ UNCHANGED <<depVars, ctx, history>>

\* c.JSON: the response is written, and the context is cancelled by defer.
Answer(r) == /\ pc[r] = "answering"
             /\ pc' = [pc EXCEPT ![r] = "answered"]
             /\ UNCHANGED <<depVars, probe, ctx, answer, history>>

Settled == /\ \A r \in Requests : pc[r] = "answered"
           /\ UNCHANGED vars

Next == \/ \E p \in Probes : Change(p)
        \/ \E r \in Requests : \/ Begin(r) \/ Ask(r) \/ CheckOk(r)
                               \/ CheckError(r) \/ Answer(r)
                               \/ \E how \in Endings : EndContext(r, how)
        \/ Settled

Spec == Init /\ [][Next]_vars

(***************************************************************************)
(* Time passes, a request goroutine runs, and a probe answers: nil or an   *)
(* error when it can, and an error at the latest when its context is done. *)
(* A client need not leave and a dependency need not recover.              *)
(***************************************************************************)
Fairness == \A r \in Requests :
              /\ WF_vars(EndContext(r, "expired"))
              /\ WF_vars(Ask(r)) /\ WF_vars(CheckOk(r) \/ CheckError(r))
              /\ WF_vars(Answer(r))

FairSpec == Spec /\ Fairness

-----------------------------------------------------------------------------
(* Properties *)

\* Every variable has its type, and the loop never passes the last probe by
\* more than one.
TypeOK ==
  /\ dep \in [Probes -> {"up", "down", "hung"}]
  /\ changes \in 0..MaxChanges
  /\ pc \in [Requests -> {"idle", "asking", "waiting", "answering", "answered"}]
  /\ probe \in [Requests -> 1..NProbes + 1]
  /\ \A r \in Requests : pc[r] \in {"asking", "waiting"} => probe[r] \in Probes
  /\ ctx \in [Requests -> {"live", "expired", "cancelled"}]
  /\ checks \in [Requests -> [Probes -> {"unset", "ok", "error"}]]
  /\ body \in [Requests -> {"ok", "degraded"}]
  /\ status \in [Requests -> {200, 503}]
  /\ wasUp \in [Requests -> SUBSET Probes]
  /\ wasBad \in [Requests -> SUBSET Probes]

\* A load balancer that is told 200 may send traffic: every dependency was
\* usable at some time since it asked, however they came and went meanwhile,
\* and what the body says agrees with the status.
ReadyIsEarned ==
  \A r \in Requests : pc[r] = "answered" =>
    /\ status[r] = 200 => wasUp[r] = Probes
    /\ status[r] = 200 <=> body[r] = "ok"
    /\ status[r] = 200 <=> \A p \in Probes : checks[r][p] = "ok"

\* A dependency is reported broken only if it was not usable at some time
\* since the request began, or the context they all share was done.  The second
\* does happen to one that was usable throughout, asked after another has hung:
\* the two seconds of probeTimeout are one deadline for all of the loop.
BlameHasCause ==
  \A r \in Requests, p \in Probes :
    checks[r][p] = "error" => p \in wasBad[r] \/ ctx[r] # "live"

\* A slow dependency does not hold the response open.
AlwaysAnswers == \A r \in Requests : InFlight(r) ~> pc[r] = "answered"

=============================================================================
