--------------------------- MODULE ReadinessProofs ---------------------------
(***************************************************************************)
(* Proofs about Readiness, for any set of requests, any number of probes   *)
(* and any number of changes.                                              *)
(***************************************************************************)
EXTENDS Readiness, TLAPS

\* The history keeps up with the dependencies while a request is in flight.
Witnessed(r) == InFlight(r) => Up \subseteq wasUp[r] /\ Probes \ Up \subseteq wasBad[r]

\* The loop has recorded what is behind it and nothing else; each "ok" was
\* seen up, each "error" has a cause, and body and status are the tally.
Tallied(r) ==
  /\ pc[r] = "idle" => probe[r] = 1
  /\ pc[r] \in {"answering", "answered"} => probe[r] = NProbes + 1
  /\ \A p \in Probes : checks[r][p] = "unset" <=> p >= probe[r]
  /\ \A p \in Probes : checks[r][p] = "ok" => p \in wasUp[r]
  /\ \A p \in Probes : checks[r][p] = "error" => p \in wasBad[r] \/ ctx[r] # "live"
  /\ body[r] = "ok" <=> \A p \in Probes : checks[r][p] # "error"
  /\ status[r] = 200 <=> body[r] = "ok"

IInv == TypeOK /\ \A r \in Requests : Witnessed(r) /\ Tallied(r)

-----------------------------------------------------------------------------

LEMMA InitEstablishes == Init => IInv
<1> SUFFICES ASSUME Init PROVE IInv
  OBVIOUS
<1>1. TypeOK
  BY NProbesAssumption, MaxChangesAssumption DEF Init, TypeOK, Probes
<1>2. ASSUME NEW r \in Requests PROVE Witnessed(r) /\ Tallied(r)
  BY <1>2, NProbesAssumption DEF Init, Witnessed, Tallied, InFlight, Probes
<1> QED
  BY <1>1, <1>2 DEF IInv

\* The types, action by action.
LEMMA TypesKept == IInv /\ [Next]_vars => TypeOK'
<1> SUFFICES ASSUME IInv, [Next]_vars PROVE TypeOK'
  OBVIOUS
<1> USE NProbesAssumption, MaxChangesAssumption
<1>0. TypeOK
  BY DEF IInv
<1>1. ASSUME NEW p \in Probes, Change(p) PROVE TypeOK'
  BY <1>0, <1>1 DEF TypeOK, Change, Up, answer
<1>2. ASSUME NEW r \in Requests, Begin(r) PROVE TypeOK'
  <2>1. Up \subseteq Probes
    BY DEF Up
  <2>2. probe[r] = 1
    BY <1>2 DEF IInv, Tallied, Begin
  <2> QED
    BY <1>0, <1>2, <2>1, <2>2 DEF TypeOK, Begin, depVars, answer, Probes
<1>3. ASSUME NEW r \in Requests, NEW how \in Endings, EndContext(r, how) PROVE TypeOK'
  BY <1>0, <1>3 DEF TypeOK, EndContext, Endings, depVars, answer, history
<1>4. ASSUME NEW r \in Requests, Ask(r) PROVE TypeOK'
  BY <1>0, <1>4 DEF TypeOK, Ask, depVars, answer, history
<1>5. ASSUME NEW r \in Requests, NEW entry \in {"ok", "error"},
             pc[r] = "waiting", Record(r, entry)
      PROVE /\ pc' \in [Requests -> {"idle", "asking", "waiting", "answering", "answered"}]
            /\ probe' \in [Requests -> 1..NProbes + 1]
            /\ \A s \in Requests : pc'[s] \in {"asking", "waiting"} => probe'[s] \in Probes
            /\ checks' \in [Requests -> [Probes -> {"unset", "ok", "error"}]]
  <2>1. probe[r] \in 1..NProbes
    BY <1>0, <1>5 DEF TypeOK, Probes
  <2> QED
    BY <1>0, <1>5, <2>1 DEF TypeOK, Record, MoreProbes, Named, Probes
<1>6. ASSUME NEW r \in Requests, CheckOk(r) PROVE TypeOK'
  <2>1. Record(r, "ok") /\ pc[r] = "waiting"
    BY <1>6 DEF CheckOk
  <2> QED
    BY <1>0, <1>5, <1>6, <2>1 DEF TypeOK, CheckOk, depVars, history
<1>7. ASSUME NEW r \in Requests, CheckError(r) PROVE TypeOK'
  <2>1. Record(r, "error") /\ pc[r] = "waiting"
    BY <1>7 DEF CheckError
  <2> QED
    BY <1>0, <1>5, <1>7, <2>1 DEF TypeOK, CheckError, StatusAfterError, depVars, history
<1>8. ASSUME NEW r \in Requests, Answer(r) PROVE TypeOK'
  BY <1>0, <1>8 DEF TypeOK, Answer, depVars, answer, history
<1>9. ASSUME UNCHANGED vars PROVE TypeOK'
  BY <1>0, <1>9 DEF TypeOK, vars, depVars, answer, history
<1> QED
  BY <1>1, <1>2, <1>3, <1>4, <1>6, <1>7, <1>8, <1>9 DEF Next, Settled

\* What is said of one request, action by action: another request's step
\* leaves it as it was, and a change of a dependency only adds to its history.
LEMMA RequestKept ==
  ASSUME IInv, [Next]_vars, NEW s \in Requests
  PROVE  Witnessed(s)' /\ Tallied(s)'
<1> USE NProbesAssumption
<1>0. TypeOK /\ Witnessed(s) /\ Tallied(s)
  BY DEF IInv
<1>1. ASSUME NEW p \in Probes, Change(p) PROVE Witnessed(s)' /\ Tallied(s)'
  <2>1. /\ wasUp'[s] = wasUp[s] \union (IF InFlight(s) THEN Up' ELSE {})
        /\ wasBad'[s] = wasBad[s] \union (IF InFlight(s) THEN Probes \ Up' ELSE {})
        /\ UNCHANGED <<pc, probe, ctx, checks, body, status>>
    BY <1>1 DEF Change, answer
  <2>2. Witnessed(s)'
    BY <2>1 DEF Witnessed, InFlight
  <2>3. Tallied(s)'
    BY <1>0, <2>1 DEF Tallied
  <2> QED
    BY <2>2, <2>3
<1>2. ASSUME NEW r \in Requests, Begin(r) PROVE Witnessed(s)' /\ Tallied(s)'
  <2>0. UNCHANGED <<dep, probe, ctx, checks, body, status>> /\ Up' = Up
    BY <1>2 DEF Begin, depVars, answer, Up
  <2>1. CASE s = r
    <3>1. /\ wasUp'[s] = Up /\ wasBad'[s] = Probes \ Up
          /\ pc[s] = "idle"
          /\ pc'[s] = IF NProbes = 0 THEN "answering" ELSE "asking"
      BY <1>0, <1>2, <2>1 DEF Begin, TypeOK
    <3>2. probe[s] = 1
      BY <1>0, <3>1 DEF Tallied
    <3>3. \A p \in Probes : checks[s][p] = "unset"
      BY <1>0, <3>2 DEF Tallied, Probes
    <3>4. Witnessed(s)'
      BY <2>0, <3>1 DEF Witnessed
    <3> QED
      BY <1>0, <2>0, <3>1, <3>2, <3>3, <3>4 DEF Tallied
  <2>2. CASE s # r
    <3>1. pc'[s] = pc[s] /\ wasUp'[s] = wasUp[s] /\ wasBad'[s] = wasBad[s]
      BY <1>0, <1>2, <2>2 DEF Begin, TypeOK
    <3> QED
      BY <1>0, <2>0, <3>1 DEF Witnessed, Tallied, InFlight
  <2> QED
    BY <2>1, <2>2
<1>3. ASSUME NEW r \in Requests, NEW how \in Endings, EndContext(r, how)
      PROVE Witnessed(s)' /\ Tallied(s)'
  <2>0. UNCHANGED <<dep, pc, probe, checks, body, status, wasUp, wasBad>> /\ Up' = Up
    BY <1>3 DEF EndContext, depVars, answer, history, Up
  <2>1. ctx'[s] = ctx[s] \/ ctx'[s] # "live"
    BY <1>0, <1>3 DEF EndContext, Endings, TypeOK
  <2> QED
    BY <1>0, <2>0, <2>1 DEF Witnessed, Tallied, InFlight
<1>4. ASSUME NEW r \in Requests, Ask(r) PROVE Witnessed(s)' /\ Tallied(s)'
  <2>0. UNCHANGED <<dep, probe, ctx, checks, body, status, wasUp, wasBad>> /\ Up' = Up
    BY <1>4 DEF Ask, depVars, answer, history, Up
  <2>1. pc'[s] = pc[s] \/ (pc[s] = "asking" /\ pc'[s] = "waiting")
    BY <1>0, <1>4 DEF Ask, TypeOK
  <2> QED
    BY <1>0, <2>0, <2>1 DEF Witnessed, Tallied, InFlight
<1>5. ASSUME NEW r \in Requests, NEW entry \in {"ok", "error"}, pc[r] = "waiting",
             Record(r, entry), UNCHANGED <<dep, ctx, wasUp, wasBad>>,
             entry = "ok" => /\ dep[probe[r]] = "up"
                             /\ UNCHANGED <<body, status>>,
             entry = "error" => /\ dep[probe[r]] = "down" \/ ctx[r] # "live"
                                /\ body' = [body EXCEPT ![r] = "degraded"]
                                /\ status' = [status EXCEPT ![r] = 503]
      PROVE Witnessed(s)' /\ Tallied(s)'
  <2>0. Up' = Up
    BY <1>5 DEF Up
  <2>1. CASE s # r
    <3>1. /\ pc'[s] = pc[s] /\ probe'[s] = probe[s] /\ checks'[s] = checks[s]
          /\ body'[s] = body[s] /\ status'[s] = status[s]
      BY <1>0, <1>5, <2>1 DEF Record, TypeOK
    <3> QED
      BY <1>0, <1>5, <2>0, <3>1 DEF Witnessed, Tallied, InFlight
  <2>2. CASE s = r
    <3>0. probe[s] \in Probes /\ probe[s] \in 1..NProbes
      BY <1>0, <1>5, <2>2 DEF TypeOK, Probes
    <3>1. /\ probe'[s] = probe[s] + 1
          /\ pc'[s] = IF probe[s] < NProbes THEN "asking" ELSE "answering"
          /\ checks'[s] = [checks[s] EXCEPT ![probe[s]] = entry]
      BY <1>0, <1>5, <2>2 DEF Record, TypeOK, Named, MoreProbes
    <3>2. /\ checks'[s][probe[s]] = entry
          /\ \A p \in Probes : p # probe[s] => checks'[s][p] = checks[s][p]
      BY <1>0, <3>0, <3>1 DEF TypeOK
    <3>3. Up \subseteq wasUp[s] /\ Probes \ Up \subseteq wasBad[s]
      BY <1>0, <1>5, <2>2 DEF Witnessed, InFlight
    <3>4. Witnessed(s)'
      BY <1>5, <2>0, <3>3 DEF Witnessed
    <3>5. \A p \in Probes : checks'[s][p] = "unset" <=> p >= probe'[s]
      BY <1>0, <3>0, <3>1, <3>2 DEF Tallied, Probes
    <3>6. \A p \in Probes : checks'[s][p] = "ok" => p \in wasUp'[s]
      <4>1. entry = "ok" => probe[s] \in wasUp[s]
        BY <1>5, <2>2, <3>0, <3>3 DEF Up
      <4> QED
        BY <1>0, <1>5, <3>2, <4>1 DEF Tallied
    <3>7. \A p \in Probes : checks'[s][p] = "error" => p \in wasBad'[s] \/ ctx'[s] # "live"
      <4>1. entry = "error" => probe[s] \in wasBad[s] \/ ctx[s] # "live"
        BY <1>5, <2>2, <3>0, <3>3 DEF Up
      <4> QED
        BY <1>0, <1>5, <3>2, <4>1 DEF Tallied
    <3>8. body'[s] = "ok" <=> \A p \in Probes : checks'[s][p] # "error"
      <4>1. entry = "error" => body'[s] = "degraded"
        BY <1>0, <1>5, <2>2 DEF TypeOK
      <4>2. entry = "ok" => body'[s] = body[s]
        BY <1>5
      <4>3. checks[s][probe[s]] = "unset"
        BY <1>0, <3>0 DEF Tallied, Probes
      <4> QED
        BY <1>0, <3>0, <3>2, <4>1, <4>2, <4>3 DEF Tallied
    <3>9. status'[s] = 200 <=> body'[s] = "ok"
      BY <1>0, <1>5, <2>2 DEF Tallied, TypeOK
    <3>10. /\ pc'[s] = "idle" => probe'[s] = 1
           /\ pc'[s] \in {"answering", "answered"} => probe'[s] = NProbes + 1
      BY <3>0, <3>1
    <3> QED
      BY <3>4, <3>5, <3>6, <3>7, <3>8, <3>9, <3>10 DEF Tallied
  <2> QED
    BY <2>1, <2>2
<1>6. ASSUME NEW r \in Requests, CheckOk(r) PROVE Witnessed(s)' /\ Tallied(s)'
  BY <1>5, <1>6 DEF CheckOk, depVars, history
<1>7. ASSUME NEW r \in Requests, CheckError(r) PROVE Witnessed(s)' /\ Tallied(s)'
  BY <1>5, <1>7 DEF CheckError, StatusAfterError, depVars, history
<1>8. ASSUME NEW r \in Requests, Answer(r) PROVE Witnessed(s)' /\ Tallied(s)'
  <2>0. UNCHANGED <<dep, probe, ctx, checks, body, status, wasUp, wasBad>> /\ Up' = Up
    BY <1>8 DEF Answer, depVars, answer, history, Up
  <2>1. pc'[s] = pc[s] \/ (pc[s] = "answering" /\ pc'[s] = "answered")
    BY <1>0, <1>8 DEF Answer, TypeOK
  <2> QED
    BY <1>0, <2>0, <2>1 DEF Witnessed, Tallied, InFlight
<1>9. ASSUME UNCHANGED vars PROVE Witnessed(s)' /\ Tallied(s)'
  BY <1>0, <1>9 DEF Witnessed, Tallied, InFlight, Up, vars, depVars, answer, history
<1> QED
  BY <1>1, <1>2, <1>3, <1>4, <1>6, <1>7, <1>8, <1>9 DEF Next, Settled

\* The invariant the theorems below follow from.
LEMMA Inductive == Spec => []IInv
<1>1. IInv /\ [Next]_vars => IInv'
  BY TypesKept, RequestKept DEF IInv
<1> QED
  BY InitEstablishes, <1>1, PTL DEF Spec

-----------------------------------------------------------------------------

\* Every variable of Readyz keeps its type, however many probes there are.
THEOREM TypeCorrect == Spec => []TypeOK
<1>1. IInv => TypeOK
  BY DEF IInv
<1> QED
  BY Inductive, <1>1, PTL

\* The loop of Readyz answers 200 only after every dependency was usable at
\* some time since the request began; body and checks agree with the status.
THEOREM ReadyEarned == Spec => []ReadyIsEarned
<1>1. IInv => ReadyIsEarned
  <2> SUFFICES ASSUME IInv, NEW r \in Requests, pc[r] = "answered"
               PROVE  /\ status[r] = 200 => wasUp[r] = Probes
                      /\ status[r] = 200 <=> body[r] = "ok"
                      /\ status[r] = 200 <=> \A p \in Probes : checks[r][p] = "ok"
    BY DEF ReadyIsEarned
  <2>1. TypeOK /\ Tallied(r)
    BY DEF IInv
  <2>2. \A p \in Probes : checks[r][p] \in {"ok", "error"}
    BY <2>1, NProbesAssumption DEF TypeOK, Tallied, Probes
  <2>3. status[r] = 200 <=> \A p \in Probes : checks[r][p] = "ok"
    BY <2>1, <2>2 DEF Tallied
  <2>4. status[r] = 200 => wasUp[r] = Probes
    <3>1. wasUp[r] \subseteq Probes
      BY <2>1 DEF TypeOK
    <3>2. (\A p \in Probes : checks[r][p] = "ok") => Probes \subseteq wasUp[r]
      BY <2>1 DEF Tallied
    <3> QED
      BY <2>3, <3>1, <3>2
  <2>5. status[r] = 200 <=> body[r] = "ok"
    BY <2>1 DEF Tallied
  <2> QED
    BY <2>3, <2>4, <2>5
<1> QED
  BY Inductive, <1>1, PTL

\* A probe that Readyz reports as failing was not usable at some time since
\* the request began, or the context shared by all of them was done.
THEOREM BlameCaused == Spec => []BlameHasCause
<1>1. IInv => BlameHasCause
  BY DEF IInv, Tallied, BlameHasCause
<1> QED
  BY Inductive, <1>1, PTL

=============================================================================
