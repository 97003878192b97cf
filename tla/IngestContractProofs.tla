------------------------ MODULE IngestContractProofs ------------------------
(***************************************************************************)
(* IngestValidation implements IngestContract: whatever the goroutines do  *)
(* in between, a caller is told at once, and about its own events.  And    *)
(* the counters of metrics.IngestObserver agree with the answers: what is  *)
(* counted is what was rejected and what was repaired, over all requests.  *)
(***************************************************************************)
EXTENDS IngestProofs

-----------------------------------------------------------------------------
(* What a caller is told *)

LEMMA SameValues ==
  /\ Contract!NoInput = NoInput
  /\ Contract!Blank(Contract!Empty) = Blank(Empty)
  /\ \A q : Refusal(q) = "none" <=> Contract!WholeFaults(q) = {}
  /\ \A q : Refusal(q) # "none" => Refusal(q) \in Contract!WholeFaults(q)
<1>1. Contract!NoInput = NoInput
  BY SameLimits DEF Contract!NoInput, NoInput
<1>2. Contract!Blank(Contract!Empty) = Blank(Empty)
  BY SameLimits DEF Contract!Blank, Blank
<1>3. ASSUME NEW q
      PROVE  /\ Refusal(q) = "none" <=> Contract!WholeFaults(q) = {}
             /\ Refusal(q) # "none" => Refusal(q) \in Contract!WholeFaults(q)
  BY SameLimits DEF Refusal, Contract!WholeFaults, Contract!When
<1> QED
  BY <1>1, <1>2, <1>3

\* The entry of an event is found in its list.
LEMMA EntryFound ==
  ASSUME NEW list, NEW i \in Indices(list)
  PROVE  \E k \in DOMAIN list : list[k].index = i /\ EntryOf(list, i) = list[k]
<1>1. \E k \in DOMAIN list : list[k].index = i
  BY DEF Indices
<1> QED
  BY <1>1 DEF EntryOf

\* A verdict that is fair in the sense of the invariant is one the contract has.
LEMMA FairVerdict ==
  ASSUME NEW kept, NEW refusals, NEW q, NEW then, NEW now,
         NEW i \in Indices(kept) \union Indices(refusals),
         \A k \in DOMAIN kept : FairlyAccepted(q, kept[k].index, kept[k].event, then, now),
         \A k \in DOMAIN refusals :
           FairlyRejected(q, refusals[k].index, refusals[k].reason)
  PROVE  (IF i \in Indices(kept)
          THEN [reason |-> "none", event |-> EntryOf(kept, i).event]
          ELSE [reason |-> EntryOf(refusals, i).reason, event |-> Blank(Empty)])
           \in Contract!Verdicts(q, i, then, now)
<1>1. CASE i \in Indices(kept)
  <2>1. PICK k \in DOMAIN kept : kept[k].index = i /\ EntryOf(kept, i) = kept[k]
    BY <1>1, EntryFound
  <2>2. FairlyAccepted(q, i, EntryOf(kept, i).event, then, now)
    BY <2>1
  <2> QED
    BY <1>1, <2>2 DEF FairlyAccepted, Contract!Verdicts, Contract!Accepted
<1>2. CASE i \notin Indices(kept)
  <2>1. PICK k \in DOMAIN refusals :
          refusals[k].index = i /\ EntryOf(refusals, i) = refusals[k]
    BY <1>2, EntryFound
  <2>2. FairlyRejected(q, i, EntryOf(refusals, i).reason)
    BY <2>1
  <2> QED
    BY <1>2, <2>2, SameValues DEF FairlyRejected, Contract!Verdicts, Contract!Rejected
<1> QED
  BY <1>1, <1>2

\* A step that leaves the lists and the phase of a request tells it nothing.
LEMMA ToldSame ==
  ASSUME NEW s, pc'[s] = pc[s], refused'[s] = refused[s], at'[s] = at[s],
         accepted'[s] = accepted[s], rejected'[s] = rejected[s]
  PROVE  Told(s)' = Told(s)
BY DEF Told, VerdictAt, EntryOf, Indices

LEMMA NothingToldYet ==
  ASSUME NEW r
  PROVE  /\ pc[r] # "answered" => Told(r) = Contract!Pending
         /\ pc'[r] # "answered" => Told(r)' = Contract!Pending
BY DEF Told, Contract!Pending

-----------------------------------------------------------------------------
(* Every step of the pipeline is a step of the contract, or none *)

\* Where the answers did not change, neither did what the contract sees of them.
LEMMA AnswersSame ==
  (\A s \in Requests : Told(s)' = Told(s))
    => [s \in Requests |-> Told(s)]' = [s \in Requests |-> Told(s)]
BY Zenon

LEMMA AnswerOfOne ==
  ASSUME NEW r \in Requests, NEW a
  PROVE  /\ Told(r)' = a /\ \A s \in Requests \ {r} : Told(s)' = Told(s)
         => [s \in Requests |-> Told(s)]' = [[s \in Requests |-> Told(s)] EXCEPT ![r] = a]
<1> SUFFICES ASSUME Told(r)' = a, \A s \in Requests \ {r} : Told(s)' = Told(s)
             PROVE  [s \in Requests |-> Told(s)]'
                      = [[s \in Requests |-> Told(s)] EXCEPT ![r] = a]
  OBVIOUS
<1>1. \A s \in Requests : Told(s)' = IF s = r THEN a ELSE Told(s)
  BY Zenon
<1> QED
  BY <1>1

LEMMA ContractInit == Init => Contract!Init
<1> SUFFICES ASSUME Init PROVE Contract!Init
  OBVIOUS
<1>1. /\ clock = 0 /\ input = [r \in Requests |-> NoInput]
      /\ begun = [r \in Requests |-> 0]
  BY DEF Init
<1>2. \A r \in Requests : pc[r] = "idle"
  BY DEF Init
<1>3. \A r \in Requests : Told(r) = Contract!Pending
  BY <1>2, NothingToldYet
<1>4. [r \in Requests |-> Told(r)] = [r \in Requests |-> Contract!Pending]
  BY <1>3, Zenon
<1> QED
  BY <1>1, <1>4, SameValues DEF Contract!Init

\* A request arrives: it is refused or taken.
LEMMA ReceiveStep ==
  ASSUME NEW r \in Requests
  PROVE  IInv /\ Receive(r) => Contract!Next
<1> SUFFICES ASSUME IInv, Receive(r) PROVE Contract!Take(r) \/ Contract!Refuse(r)
  BY Zenon DEF Contract!Next
<1>1. TypeOK /\ Phase(r)
  BY DEF IInv, Local
<1>2. PICK q \in Inputs :
        /\ input' = [input EXCEPT ![r] = q]
        /\ refused' = [refused EXCEPT ![r] = Refusal(q)]
        /\ pc' = [pc EXCEPT ![r] = IF Refusal(q) = "none" THEN "validating"
                                                          ELSE "answered"]
  BY DEF Receive
<1>3. /\ pc[r] = "idle" /\ begun' = [begun EXCEPT ![r] = clock]
      /\ UNCHANGED <<clock, at, accepted, rejected>>
  BY DEF Receive, work
<1>4. /\ input[r] = NoInput /\ at[r] = 1 /\ Told(r) = Contract!Pending
  BY <1>1, <1>3, NothingToldYet DEF Phase
<1>5. /\ pc'[r] = IF Refusal(q) = "none" THEN "validating" ELSE "answered"
      /\ refused'[r] = Refusal(q)
      /\ \A s \in Requests \ {r} : pc'[s] = pc[s] /\ refused'[s] = refused[s]
  BY <1>1, <1>2 DEF TypeOK
<1>6. \A s \in Requests \ {r} : Told(s)' = Told(s)
  <2> SUFFICES ASSUME NEW s \in Requests \ {r} PROVE Told(s)' = Told(s)
    BY Zenon
  <2>1. /\ pc'[s] = pc[s] /\ refused'[s] = refused[s] /\ at'[s] = at[s]
        /\ accepted'[s] = accepted[s] /\ rejected'[s] = rejected[s]
    BY <1>3, <1>5
  <2> QED
    BY <2>1, ToldSame
<1> DEFINE answer == [s \in Requests |-> Told(s)]
<1>7. answer[r] = Contract!Pending
  BY <1>4
<1>8. CASE Refusal(q) = "none"
  <2>1. Told(r)' = Told(r)
    <3>1. pc'[r] # "answered"
      BY <1>5, <1>8
    <3> QED
      BY <1>4, <3>1, NothingToldYet, Zenon
  <2>2. \A s \in Requests : Told(s)' = Told(s)
    BY <1>6, <2>1, Zenon
  <2>3. answer' = answer
    BY <2>2, AnswersSame
  <2> QED
    BY <1>2, <1>3, <1>4, <1>7, <1>8, <2>3, SameValues DEF Contract!Take
<1>9. CASE Refusal(q) # "none"
  <2> DEFINE told == [refused |-> Refusal(q), verdicts |-> <<>>]
  <2>1. Told(r)' = told
    <3>1. at'[r] - 1 = 0
      BY <1>3, <1>4
    <3>2. 1..0 = {}
      OBVIOUS
    <3>3. Told(r)' = [refused |-> Refusal(q), verdicts |-> [i \in {} |-> VerdictAt(r, i)']]
      BY <1>5, <1>9, <3>1, <3>2 DEF Told
    <3> QED
      BY <3>3
  <2> HIDE DEF told
  <2>2. answer' = [answer EXCEPT ![r] = told]
    BY <1>6, <2>1, AnswerOfOne, Zenon
  <2> QED
    BY <1>2, <1>3, <1>4, <1>7, <1>9, <2>2, SameValues DEF Contract!Refuse, told
<1> QED
  BY <1>8, <1>9

\* The last event is finished: its request's batch is judged.
LEMMA JudgeStep ==
  ASSUME NEW r \in Requests
  PROVE  /\ IInv /\ IInv' /\ pc[r] = "validating" /\ pc'[r] = "answered"
         /\ UNCHANGED <<clock, input, begun, refused>>
         /\ \A s \in Requests \ {r} : Told(s)' = Told(s)
         => Contract!Next
<1> SUFFICES ASSUME IInv, IInv', pc[r] = "validating", pc'[r] = "answered",
                    UNCHANGED <<clock, input, begun, refused>>,
                    \A s \in Requests \ {r} : Told(s)' = Told(s)
             PROVE  Contract!Judge(r)
  BY Zenon DEF Contract!Next
<1> DEFINE n == Len(input[r].events)
           Allowed(i) == Contract!Verdicts(input[r], i, begun[r], clock)
           verdicts == [i \in 1..n |-> VerdictAt(r, i)']
           answer == [s \in Requests |-> Told(s)]
<1>1. Phase(r) /\ Phase(r)' /\ Lists(r)' /\ Fair(r)'
  BY DEF IInv, Local
<1>2. /\ input[r] \in Inputs /\ refused[r] = "none" /\ Refusal(input[r]) = "none"
  BY <1>1 DEF Phase
<1>3. n \in Nat /\ input[r] # NoInput
  <2>1. input[r].key # Empty /\ n \in 1..Limits.MaxEventsPerRequest
    BY <1>2, Batch
  <2> QED
    BY <2>1 DEF NoInput
<1>4. at'[r] = n + 1
  BY <1>1, <1>2 DEF Phase
<1>5. at'[r] - 1 = n
  BY <1>3, <1>4
<1>6. Told(r)' = [refused |-> "none", verdicts |-> verdicts]
  BY <1>2, <1>5 DEF Told
<1>7. \A i \in 1..n : VerdictAt(r, i)' \in Allowed(i)
  <2> SUFFICES ASSUME NEW i \in 1..n PROVE VerdictAt(r, i)' \in Allowed(i)
    BY Zenon
  <2>1. i \in Indices(accepted'[r]) \union Indices(rejected'[r])
    BY <1>1, <1>5 DEF Lists, Split, Indices
  <2>2. /\ \A k \in DOMAIN accepted'[r] :
             FairlyAccepted(input[r], accepted'[r][k].index, accepted'[r][k].event,
                            begun[r], clock)
        /\ \A k \in DOMAIN rejected'[r] :
             FairlyRejected(input[r], rejected'[r][k].index, rejected'[r][k].reason)
    BY <1>1 DEF Fair, FairlyAccepted, FairlyRejected
  <2>3. (IF i \in Indices(accepted'[r])
         THEN [reason |-> "none", event |-> EntryOf(accepted'[r], i).event]
         ELSE [reason |-> EntryOf(rejected'[r], i).reason, event |-> Blank(Empty)])
          \in Allowed(i)
    BY <2>1, <2>2, FairVerdict
  <2> QED
    BY <2>3 DEF VerdictAt, EntryOf, Indices
<1>8. answer' = [answer EXCEPT ![r] = [refused |-> "none", verdicts |-> verdicts]]
  BY <1>6, AnswerOfOne, Zenon
<1>9. answer[r] = Contract!Pending
  BY NothingToldYet
<1> HIDE DEF Allowed
<1>10. verdicts \in [1..n -> UNION {Allowed(i) : i \in 1..n}]
  BY <1>7
<1>11. \A i \in 1..n : verdicts[i] \in Allowed(i)
  BY <1>7
<1> HIDE DEF verdicts
<1>12. /\ input[r] # Contract!NoInput
       /\ \E v \in [1..n -> UNION {Allowed(i) : i \in 1..n}] :
            /\ \A i \in 1..n : v[i] \in Allowed(i)
            /\ answer' = [answer EXCEPT ![r] = [refused |-> "none", verdicts |-> v]]
  BY <1>3, <1>8, <1>10, <1>11, SameValues
<1> QED
  BY <1>9, <1>12, Zenon DEF Contract!Judge, Allowed

\* A step of the loop judges the batch if it was the last, else it is hidden.
LEMMA LoopStep ==
  ASSUME NEW r \in Requests
  PROVE  IInv /\ IInv' /\ (Decode(r) \/ Apply(r))
           => [Contract!Next]_(Contract!contractVars)
<1> SUFFICES ASSUME IInv, IInv', Decode(r) \/ Apply(r)
             PROVE  [Contract!Next]_(Contract!contractVars)
  OBVIOUS
<1>1. TypeOK /\ TypeOK'
  BY DEF IInv
<1>2. /\ pc[r] = "validating" /\ UNCHANGED <<clock, input, begun, refused>>
      /\ \/ UNCHANGED <<at, pc, accepted, rejected, rejectedTotal>>
         \/ \E reason : Rejects(r, reason)
         \/ \E event : Accepts(r, event)
  BY Effect
<1>3. \A s \in Requests \ {r} :
        /\ pc'[s] = pc[s] /\ refused'[s] = refused[s] /\ at'[s] = at[s]
        /\ accepted'[s] = accepted[s] /\ rejected'[s] = rejected[s]
  BY <1>1, <1>2 DEF TypeOK, Rejects, Accepts, Advance
<1>4. \A s \in Requests \ {r} : Told(s)' = Told(s)
  <2> SUFFICES ASSUME NEW s \in Requests \ {r} PROVE Told(s)' = Told(s)
    BY Zenon
  <2> QED
    BY <1>3, ToldSame
<1>5. CASE pc'[r] = "answered"
  BY <1>2, <1>4, <1>5, JudgeStep
<1>6. CASE pc'[r] # "answered"
  <2>1. Told(r)' = Told(r)
    <3>1. pc[r] # "answered"
      BY <1>2
    <3> QED
      BY <1>6, <3>1, NothingToldYet, Zenon
  <2>2. \A s \in Requests : Told(s)' = Told(s)
    BY <1>4, <2>1, Zenon
  <2>3. [s \in Requests |-> Told(s)]' = [s \in Requests |-> Told(s)]
    BY <2>2, AnswersSame
  <2> QED
    BY <1>2, <2>3 DEF Contract!contractVars
<1> QED
  BY <1>5, <1>6

LEMMA ContractStep ==
  IInv /\ IInv' /\ [Next]_vars => [Contract!Next]_(Contract!contractVars)
<1> SUFFICES ASSUME IInv, IInv', [Next]_vars
             PROVE  [Contract!Next]_(Contract!contractVars)
  OBVIOUS
<1>1. ASSUME NEW r \in Requests, Receive(r) \/ Decode(r) \/ Apply(r)
      PROVE  [Contract!Next]_(Contract!contractVars)
  BY <1>1, ReceiveStep, LoopStep
<1>2. CASE Tick \/ Finished \/ UNCHANGED vars
  <2>1. /\ clock' = clock + 1 \/ clock' = clock
        /\ UNCHANGED <<pc, input, begun, at, accepted, rejected, refused>>
    BY <1>2 DEF Tick, Finished, vars, work, result
  <2>2. \A s \in Requests : Told(s)' = Told(s)
    <3> SUFFICES ASSUME NEW s \in Requests PROVE Told(s)' = Told(s)
      BY Zenon
    <3> QED
      BY <2>1, ToldSame
  <2>3. [s \in Requests |-> Told(s)]' = [s \in Requests |-> Told(s)]
    BY <2>2, AnswersSame
  <2> QED
    BY <2>1, <2>3 DEF Contract!Next, Contract!Tick, Contract!contractVars
<1> QED
  BY <1>1, <1>2 DEF Next

\* The validator implements its contract: however the rules of one request
\* interleave with the other requests and the clock, each caller is answered
\* at once, for faults of its own or with verdicts about its own events.
THEOREM Implements == Spec => ContractSpec
<1>1. Spec => Contract!Spec
  BY ContractInit, ContractStep, Inductive, PTL DEF Spec, Contract!Spec
<1> QED
  BY <1>1 DEF ContractSpec

-----------------------------------------------------------------------------
(* Counting places *)

LEMMA PlacesFinite == IsFiniteSet(Places)
<1>1. 1 \in Int /\ Limits.MaxEventsPerRequest \in Int
  BY LimitsPositive
<1>2. IsFiniteSet(1..Limits.MaxEventsPerRequest)
  BY <1>1, FS_Interval
<1> QED
  BY <1>2, RequestsAssumption, FS_Product DEF Places

LEMMA OneMore ==
  ASSUME NEW S, IsFiniteSet(S), NEW p, p \notin S
  PROVE  Cardinality(S \union {p}) = Cardinality(S) + 1
BY FS_AddElement

\* A list has room for the current event.
LEMMA Room ==
  ASSUME NEW r \in Requests, IInv, pc[r] = "validating"
  PROVE  /\ <<r, Len(accepted[r]) + 1>> \in Places
         /\ <<r, Len(rejected[r]) + 1>> \in Places
         /\ Len(accepted[r]) + 1 \notin DOMAIN accepted[r]
         /\ Len(rejected[r]) + 1 \notin DOMAIN rejected[r]
<1>1. TypeOK /\ Phase(r) /\ Split(accepted[r], rejected[r], at[r])
  BY DEF IInv, Local, Lists
<1>2. at[r] \in 1..Len(input[r].events) /\ Len(input[r].events) \in 1..Limits.MaxEventsPerRequest
  BY <1>1, Batch DEF Phase
<1>3. accepted[r] \in Seq(AcceptedEntries) /\ rejected[r] \in Seq(RejectedEntries)
  BY <1>1 DEF TypeOK
<1>4. /\ Len(accepted[r]) \in Nat /\ DOMAIN accepted[r] = 1..Len(accepted[r])
      /\ Len(rejected[r]) \in Nat /\ DOMAIN rejected[r] = 1..Len(rejected[r])
  BY <1>3, LenProperties
<1>5. Len(accepted[r]) + Len(rejected[r]) = at[r] - 1
  BY <1>1 DEF Split
<1>6. Limits.MaxEventsPerRequest \in Nat
  BY LimitsPositive
<1>7. /\ Len(accepted[r]) + 1 \in 1..Limits.MaxEventsPerRequest
      /\ Len(rejected[r]) + 1 \in 1..Limits.MaxEventsPerRequest
  <2>1. at[r] \in Nat /\ at[r] - 1 < Limits.MaxEventsPerRequest
    BY <1>2, <1>6
  <2>2. \A a, b, m, n \in Nat : a + b = n - 1 /\ n - 1 < m => a + 1 \in 1..m /\ b + 1 \in 1..m
    OBVIOUS
  <2> QED
    BY <1>4, <1>5, <1>6, <2>1, <2>2, Zenon
<1> QED
  BY <1>4, <1>7 DEF Places

\* A request that has not arrived has empty lists.
LEMMA NothingYet ==
  ASSUME NEW r \in Requests, IInv, pc[r] = "idle"
  PROVE  DOMAIN accepted[r] = {} /\ DOMAIN rejected[r] = {}
<1>1. Phase(r) /\ Split(accepted[r], rejected[r], at[r])
  BY DEF IInv, Local, Lists
<1>2. at[r] = 1
  BY <1>1 DEF Phase
<1>3. Indices(accepted[r]) \union Indices(rejected[r]) = {}
  BY <1>1, <1>2 DEF Split
<1> QED
  BY <1>3 DEF Indices

-----------------------------------------------------------------------------
(* Rejections *)

LEMMA RejectionsInit == Init => RejectionsCounted
<1> SUFFICES ASSUME Init, NEW site \in Sites, NEW reason \in Reasons
             PROVE  rejectedTotal[<<site, reason>>]
                      = Cardinality(RejectedWith(site, reason))
  BY DEF RejectionsCounted
<1>1. rejectedTotal[<<site, reason>>] = 0
  BY DEF Init, Zero
<1>2. \A r \in Requests : DOMAIN rejected[r] = {}
  BY DEF Init
<1>3. RejectedWith(site, reason) = {}
  BY <1>2 DEF RejectedWith, Places
<1> QED
  BY <1>1, <1>3, FS_EmptySet

\* A step that leaves the rejections of every request alone, and gives an
\* input only to a request without any.
LEMMA RejectionsSame ==
  ASSUME NEW site, NEW reason
  PROVE  /\ rejected' = rejected
         /\ \A r \in Requests : DOMAIN rejected[r] = {} \/ input'[r] = input[r]
         => RejectedWith(site, reason)' = RejectedWith(site, reason)
<1> SUFFICES ASSUME rejected' = rejected,
                    \A r \in Requests : DOMAIN rejected[r] = {} \/ input'[r] = input[r]
             PROVE  RejectedWith(site, reason)' = RejectedWith(site, reason)
  OBVIOUS
<1>1. \A p \in Places : p[1] \in Requests
  BY DEF Places
<1>2. Places' = Places
  BY DEF Places
<1> QED
  BY <1>1, <1>2 DEF RejectedWith

LEMMA RejectionsStep ==
  IInv /\ RejectionsCounted /\ [Next]_vars => RejectionsCounted'
<1> SUFFICES ASSUME IInv, RejectionsCounted, [Next]_vars,
                    NEW site \in Sites, NEW reason \in Reasons
             PROVE  rejectedTotal'[<<site, reason>>]
                      = Cardinality(RejectedWith(site, reason)')
  BY DEF RejectionsCounted
<1>1. rejectedTotal[<<site, reason>>] = Cardinality(RejectedWith(site, reason))
  BY DEF RejectionsCounted
<1>2. TypeOK
  BY DEF IInv
<1>3. CASE /\ rejected' = rejected /\ rejectedTotal' = rejectedTotal
           /\ \A r \in Requests : DOMAIN rejected[r] = {} \/ input'[r] = input[r]
  BY <1>1, <1>3, RejectionsSame
<1>4. ASSUME NEW r \in Requests, Receive(r)
      PROVE  rejectedTotal'[<<site, reason>>] = Cardinality(RejectedWith(site, reason)')
  <2>1. /\ pc[r] = "idle" /\ rejected' = rejected /\ rejectedTotal' = rejectedTotal
        /\ \A s \in Requests \ {r} : input'[s] = input[s]
    BY <1>2, <1>4 DEF Receive, counters, TypeOK
  <2>2. DOMAIN rejected[r] = {}
    BY <2>1, NothingYet
  <2> QED
    BY <1>3, <2>1, <2>2
<1>5. ASSUME NEW r \in Requests, pc[r] = "validating", input' = input,
             NEW why, Rejects(r, why)
      PROVE  rejectedTotal'[<<site, reason>>] = Cardinality(RejectedWith(site, reason)')
  <2> DEFINE place == <<r, Len(rejected[r]) + 1>>
             before == RejectedWith(site, reason)
             entry == [index |-> at[r], reason |-> why]
  <2>1. place \in Places /\ Len(rejected[r]) + 1 \notin DOMAIN rejected[r]
    BY <1>5, Room
  <2>2. /\ rejected' = [rejected EXCEPT ![r] = Append(rejected[r], entry)]
        /\ rejectedTotal' = Inc(rejectedTotal, {<<input[r].key, why>>})
    BY <1>5 DEF Rejects
  <2>3. /\ rejected[r] \in Seq(RejectedEntries)
        /\ Len(rejected[r]) \in Nat /\ DOMAIN rejected[r] = 1..Len(rejected[r])
    BY <1>2, LenProperties DEF TypeOK
  <2>4. /\ rejected'[r] = Append(rejected[r], entry)
        /\ \A s \in Requests \ {r} : rejected'[s] = rejected[s]
    BY <1>2, <2>2 DEF TypeOK
  <2>5. /\ DOMAIN rejected'[r] = DOMAIN rejected[r] \union {Len(rejected[r]) + 1}
        /\ \A k \in DOMAIN rejected[r] : rejected'[r][k] = rejected[r][k]
        /\ rejected'[r][Len(rejected[r]) + 1] = entry
    BY <2>3, <2>4
  <2>6. \A p \in Places : p \in RejectedWith(site, reason)' <=>
           \/ p \in before
           \/ p = place /\ input[r].key = site /\ why = reason
    <3> SUFFICES ASSUME NEW p \in Places
                 PROVE  p \in RejectedWith(site, reason)' <=>
                          \/ p \in before
                          \/ p = place /\ input[r].key = site /\ why = reason
      BY Zenon
    <3>1. p \in RejectedWith(site, reason)' <=>
            /\ p[2] \in DOMAIN rejected'[p[1]] /\ input[p[1]].key = site
            /\ rejected'[p[1]][p[2]].reason = reason
      BY <1>5 DEF RejectedWith, Places
    <3>2. p \in before <=>
            /\ p[2] \in DOMAIN rejected[p[1]] /\ input[p[1]].key = site
            /\ rejected[p[1]][p[2]].reason = reason
      BY DEF RejectedWith
    <3>3. p[1] \in Requests /\ p = <<p[1], p[2]>>
      BY DEF Places
    <3>4. CASE p[1] # r
      BY <2>4, <3>1, <3>2, <3>3, <3>4
    <3>5. CASE p[1] = r /\ p[2] = Len(rejected[r]) + 1
      BY <2>1, <2>5, <3>1, <3>2, <3>3, <3>5
    <3>6. CASE p[1] = r /\ p[2] # Len(rejected[r]) + 1
      BY <2>5, <3>1, <3>2, <3>3, <3>6
    <3> QED
      BY <3>4, <3>5, <3>6
  <2>7. RejectedWith(site, reason)' \subseteq Places /\ before \subseteq Places
    BY DEF RejectedWith, Places
  <2>8. IsFiniteSet(before) /\ Cardinality(before) \in Nat
    BY <2>7, PlacesFinite, FS_Subset, FS_CardinalityType
  <2>9. place \notin before
    BY <2>1 DEF RejectedWith
  <2>10. <<site, reason>> \in DOMAIN rejectedTotal
    BY <1>2 DEF TypeOK
  <2>11. CASE input[r].key = site /\ why = reason
    <3>1. RejectedWith(site, reason)' = before \union {place}
      BY <2>1, <2>6, <2>7, <2>11
    <3>2. rejectedTotal'[<<site, reason>>] = rejectedTotal[<<site, reason>>] + 1
      BY <2>2, <2>10, <2>11 DEF Inc
    <3> QED
      BY <1>1, <2>8, <2>9, <3>1, <3>2, OneMore
  <2>12. CASE ~(input[r].key = site /\ why = reason)
    <3>1. RejectedWith(site, reason)' = before
      BY <2>6, <2>7, <2>12
    <3>2. rejectedTotal'[<<site, reason>>] = rejectedTotal[<<site, reason>>]
      BY <2>2, <2>10, <2>12 DEF Inc
    <3> QED
      BY <1>1, <3>1, <3>2
  <2> QED
    BY <2>11, <2>12
<1>6. ASSUME NEW r \in Requests, Decode(r) \/ Apply(r)
      PROVE  rejectedTotal'[<<site, reason>>] = Cardinality(RejectedWith(site, reason)')
  <2>1. /\ pc[r] = "validating" /\ input' = input
        /\ \/ UNCHANGED <<rejected, rejectedTotal>>
           \/ \E why : Rejects(r, why)
    BY <1>6, Effect DEF Accepts
  <2> QED
    BY <1>3, <1>5, <2>1
<1>7. CASE Tick \/ Finished \/ UNCHANGED vars
  <2>1. UNCHANGED <<input, rejected, rejectedTotal>>
    BY <1>7 DEF Tick, Finished, vars, result, counters
  <2> QED
    BY <1>3, <2>1
<1> QED
  BY <1>4, <1>6, <1>7 DEF Next

\* Each site and reason is counted exactly as often as it is reported, however
\* many requests count at the same time.
THEOREM EveryRejectionCounted == Spec => []RejectionsCounted
<1>1. Init => RejectionsCounted
  BY RejectionsInit
<1>2. IInv /\ RejectionsCounted /\ [Next]_vars => RejectionsCounted'
  BY RejectionsStep
<1> QED
  BY <1>1, <1>2, Inductive, PTL DEF Spec

-----------------------------------------------------------------------------
(* What each rule reports *)

\* The repairs rule n makes in an event it passes on.
RepairsBy(n, e) ==
  CASE n = 2 -> When(e.id # "uuid", <<"event_id", "defaulted">>)
    [] n = 3 -> When(e.time.shape = "absent", <<"timestamp", "defaulted">>)
    [] n = 4 -> Truncated(e, {"user_id", "session_id"})
    [] n = 5 -> UrlRepairs("page", e.url["page"])
    [] n = 6 -> UrlRepairs("referrer", e.url["referrer"])
    [] n = 7 -> Truncated(e, {"utm_source", "utm_medium", "utm_campaign"})
    [] n = 8 -> Truncated(e, {"city", "os", "browser"})
                \union When(e.country = "other", <<"country", "stripped">>)
                \union When(e.device = "other", <<"device", "normalised">>)
    [] n = 9 -> When(e.currency = "other", <<"currency", "normalised">>)
    [] OTHER -> {}

\* The repairs the rules before n have made.
Due(n, e) == UNION {RepairsBy(m, e) : m \in 1..(n - 1)}

LEMMA DueGrows ==
  ASSUME NEW n \in 1..NumRules, NEW e
  PROVE  Due(n + 1, e) = Due(n, e) \union RepairsBy(n, e)
<1>1. 1..((n + 1) - 1) = 1..(n - 1) \union {n}
  BY DEF NumRules
<1> QED
  BY <1>1 DEF Due

LEMMA NothingDue ==
  ASSUME NEW e
  PROVE  Due(0, e) = {} /\ Due(1, e) = {}
<1>1. 1..(0 - 1) = {} /\ 1..(1 - 1) = {}
  OBVIOUS
<1> QED
  BY <1>1 DEF Due

\* A rule that passes an event on reports every repair it makes, and the
\* instant it replaces; no other rule touches the instant.
Reports(n, e, o, done) ==
  done.reason = "none" =>
    /\ RepairsBy(n, e) \subseteq done.repairs
    /\ n = 3 => (TimeReplaced(e, done.out) => done.skew \in Directions)
    /\ n # 3 => done.out.time = o.time

LEMMA RuleReports ==
  ASSUME NEW n \in 1..NumRules, NEW e \in Events, NEW o \in ValidatedEvents,
         NEW now \in Int, NEW fresh \in BOOLEAN
  PROVE  Reports(n, e, o, ApplyRule(n, e, o, now, fresh))
<1>1. CASE n = 1
  BY <1>1 DEF ApplyRule, RuleEventName, Reports, RepairsBy, Pass, Reject, ValidatedEvents
<1>2. CASE n = 2
  <2>1. /\ n # 1 /\ n # 3 /\ n # 4 /\ n # 5 /\ n # 6 /\ n # 7 /\ n # 8
        /\ n # 9 /\ n # 10
    BY <1>2
  <2>2. ApplyRule(n, e, o, now, fresh) = RuleEventID(e, o, fresh)
    BY <1>2, <2>1, Zenon DEF ApplyRule
  <2>3. RepairsBy(n, e) = When(e.id # "uuid", <<"event_id", "defaulted">>)
    BY <1>2 DEF RepairsBy
  <2>4. e.id \in {"absent", "uuid", "malformed"}
    BY DEF Events
  <2>5. [o EXCEPT !.id = "server"].time = o.time /\ [o EXCEPT !.id = "client"].time = o.time
    BY DEF ValidatedEvents
  <2> DEFINE done == RuleEventID(e, o, fresh)
  <2>6. done.reason = "none" => RepairsBy(n, e) \subseteq done.repairs /\ done.out.time = o.time
    <3>1. CASE e.id = "absent" /\ fresh
      <4>1. /\ done.out = [o EXCEPT !.id = "server"]
            /\ done.repairs = {<<"event_id", "defaulted">>}
        BY <3>1 DEF RuleEventID, Pass
      <4> HIDE DEF done
      <4> QED
        BY <2>3, <2>5, <4>1 DEF When
    <3>2. CASE e.id = "uuid"
      <4>1. done.out = [o EXCEPT !.id = "client"]
        BY <3>2 DEF RuleEventID, Pass
      <4> HIDE DEF done
      <4> QED
        BY <2>3, <2>5, <3>2, <4>1 DEF When
    <3>3. CASE ~(e.id = "absent" /\ fresh) /\ e.id # "uuid"
      <4>1. done.reason = "invalid_event_id"
        BY <3>3 DEF RuleEventID, Reject
      <4> HIDE DEF done
      <4> QED
        BY <4>1
    <3> QED
      BY <3>1, <3>2, <3>3
  <2>7. Reports(n, e, o, done)
    <3> HIDE DEF done
    <3> QED
      BY <1>2, <2>6 DEF Reports
  <2> QED
    BY <2>2, <2>7, Zenon
<1>3. CASE n = 3
  <2>1. ApplyRule(n, e, o, now, fresh) = RuleTimestamp(e, o, now)
    BY <1>3 DEF ApplyRule
  <2>2. RepairsBy(n, e) = When(e.time.shape = "absent", <<"timestamp", "defaulted">>)
    BY <1>3 DEF RepairsBy
  <2> DEFINE done == RuleTimestamp(e, o, now)
  <2>3. /\ done.reason = "none" /\ e.time.shape = "absent"
             => done.repairs = {<<"timestamp", "defaulted">>}
        /\ done.reason = "none" /\ e.time.shape = "instant"
             => \/ done.skew \in {"future", "past"}
                \/ done.out = [o EXCEPT !.time = e.time.at]
    BY DEF RuleTimestamp, Pass, Skewed, Reject
  <2>4. [o EXCEPT !.time = e.time.at].time = e.time.at
    BY DEF ValidatedEvents
  <2>5. Reports(n, e, o, done)
    <3> HIDE DEF done
    <3>1. done.reason = "none" => RepairsBy(n, e) \subseteq done.repairs
      BY <2>2, <2>3 DEF When
    <3>2. done.reason = "none" => (TimeReplaced(e, done.out) => done.skew \in Directions)
      BY <2>3, <2>4 DEF TimeReplaced, Directions
    <3> QED
      BY <1>3, <3>1, <3>2 DEF Reports
  <2> QED
    BY <2>1, <2>5
<1>4. CASE n = 4
  BY <1>4 DEF ApplyRule, RuleIdentity, Reports, RepairsBy, Pass, ValidatedEvents
<1>5. CASE n = 5
  BY <1>5 DEF ApplyRule, RulePage, RuleUrl, Reports, RepairsBy, Pass, ValidatedEvents
<1>6. CASE n = 6
  BY <1>6 DEF ApplyRule, RuleReferrer, RuleUrl, Reports, RepairsBy, Pass, ValidatedEvents
<1>7. CASE n = 7
  BY <1>7 DEF ApplyRule, RuleUTM, Reports, RepairsBy, Pass, ValidatedEvents
<1>8. CASE n = 8
  <2>1. ApplyRule(n, e, o, now, fresh) = RuleAudience(e, o)
    BY <1>8 DEF ApplyRule
  <2> DEFINE done == RuleAudience(e, o)
  <2>2. done.repairs = RepairsBy(n, e)
    BY <1>8 DEF RuleAudience, Pass, RepairsBy
  <2>3. done.out.time = o.time
    <3>1. done.out = [o EXCEPT !.text = BoundedText(e, o, {"city", "os", "browser"}),
                               !.country = IF e.country = "code" THEN "code" ELSE Empty,
                               !.device = IF e.device = "known" THEN "known" ELSE "unknown"]
      BY DEF RuleAudience, Pass
    <3> QED
      BY <3>1 DEF ValidatedEvents
  <2>4. Reports(n, e, o, done)
    <3> HIDE DEF done
    <3> QED
      BY <1>8, <2>2, <2>3 DEF Reports
  <2> QED
    BY <2>1, <2>4
<1>9. CASE n = 9
  BY <1>9 DEF ApplyRule, RuleCommerce, Reports, RepairsBy, Pass, Reject, ValidatedEvents
<1>10. CASE n = 10
  BY <1>10 DEF ApplyRule, RuleProperties, Reports, RepairsBy, Pass, Reject, ValidatedEvents
<1> QED
  BY <1>1, <1>2, <1>3, <1>4, <1>5, <1>6, <1>7, <1>8, <1>9, <1>10 DEF NumRules

\* Whatever differs between what was sent and what is stored, a rule repaired.
LEMMA AllDue ==
  ASSUME NEW e \in Events, NEW site, NEW t
  PROVE  RepairsOf(e, Contract!Stored(e, site, t)) \subseteq Due(11, e)
<1> DEFINE kept == Contract!Stored(e, site, t)
<1>1. \A m \in 1..NumRules : RepairsBy(m, e) \subseteq Due(11, e)
  <2>1. 1..(11 - 1) = 1..NumRules
    BY DEF NumRules
  <2> QED
    BY <2>1 DEF Due
<1>2. 2 \in 1..NumRules /\ 3 \in 1..NumRules /\ 4 \in 1..NumRules /\ 5 \in 1..NumRules
      /\ 6 \in 1..NumRules /\ 7 \in 1..NumRules /\ 8 \in 1..NumRules /\ 9 \in 1..NumRules
  BY DEF NumRules
<1>3. \A f \in TextFields : kept.text[f] < e.text[f] => <<f, "truncated">> \in Due(11, e)
  <2> SUFFICES ASSUME NEW f \in TextFields, kept.text[f] < e.text[f]
               PROVE  <<f, "truncated">> \in Due(11, e)
    OBVIOUS
  <2>1. e.text[f] \in Nat
    BY DEF Events
  <2>2. kept.text[f] = Cut(e.text[f], TextLimit[f])
    BY SameLimits DEF Contract!Stored, Contract!Cut, Contract!Exceeds, Cut, Exceeds
  <2>3. Exceeds(e.text[f], TextLimit[f])
    BY <2>1, <2>2, FieldLimits DEF Cut, Exceeds
  <2>4. CASE f \in {"user_id", "session_id"}
    <3>1. <<f, "truncated">> \in RepairsBy(4, e)
      BY <2>3, <2>4 DEF RepairsBy, Truncated, Exceeds
    <3> QED
      BY <1>1, <1>2, <3>1
  <2>5. CASE f \in {"utm_source", "utm_medium", "utm_campaign"}
    <3>1. <<f, "truncated">> \in RepairsBy(7, e)
      BY <2>3, <2>5 DEF RepairsBy, Truncated, Exceeds
    <3> QED
      BY <1>1, <1>2, <3>1
  <2>6. CASE f \in {"city", "os", "browser"}
    <3>1. <<f, "truncated">> \in RepairsBy(8, e)
      BY <2>3, <2>6 DEF RepairsBy, Truncated, Exceeds
    <3> QED
      BY <1>1, <1>2, <3>1
  <2> QED
    BY <2>4, <2>5, <2>6 DEF TextFields
<1>4. \A f \in UrlFields :
        /\ kept.url[f].len < e.url[f].kept => <<f, "truncated">> \in Due(11, e)
        /\ e.url[f].sensitive => <<f, "stripped">> \in Due(11, e)
  <2> SUFFICES ASSUME NEW f \in UrlFields
               PROVE  /\ kept.url[f].len < e.url[f].kept => <<f, "truncated">> \in Due(11, e)
                      /\ e.url[f].sensitive => <<f, "stripped">> \in Due(11, e)
    OBVIOUS
  <2>1. e.url[f].kept \in Nat
    BY DEF Events
  <2>2. kept.url[f].len = Cut(e.url[f].kept, UrlLimit[f])
    BY SameLimits DEF Contract!Stored, Contract!Cut, Contract!Exceeds, Cut, Exceeds
  <2>3. kept.url[f].len < e.url[f].kept => Exceeds(e.url[f].kept, UrlLimit[f])
    BY <2>1, <2>2, FieldLimits DEF Cut, Exceeds
  <2>4. UrlRepairs(f, e.url[f]) \subseteq Due(11, e)
    <3>1. f = "page" => UrlRepairs(f, e.url[f]) = RepairsBy(5, e)
      BY DEF RepairsBy
    <3>2. f = "referrer" => UrlRepairs(f, e.url[f]) = RepairsBy(6, e)
      BY DEF RepairsBy
    <3> QED
      BY <1>1, <1>2, <3>1, <3>2 DEF UrlFields
  <2> QED
    BY <2>3, <2>4 DEF UrlRepairs, When
<1>5. /\ kept.id # "client" => <<"event_id", "defaulted">> \in Due(11, e)
      /\ e.time.shape = "absent" => <<"timestamp", "defaulted">> \in Due(11, e)
      /\ e.country \notin {"absent", kept.country} => <<"country", "stripped">> \in Due(11, e)
      /\ e.device \notin {"absent", kept.device} => <<"device", "normalised">> \in Due(11, e)
      /\ e.currency \notin {"absent", kept.currency} =>
           <<"currency", "normalised">> \in Due(11, e)
  <2>1. /\ e.id # "uuid" => <<"event_id", "defaulted">> \in RepairsBy(2, e)
        /\ e.time.shape = "absent" => <<"timestamp", "defaulted">> \in RepairsBy(3, e)
        /\ e.country = "other" => <<"country", "stripped">> \in RepairsBy(8, e)
        /\ e.device = "other" => <<"device", "normalised">> \in RepairsBy(8, e)
        /\ e.currency = "other" => <<"currency", "normalised">> \in RepairsBy(9, e)
    BY DEF RepairsBy, When
  <2>2. \A n \in {2, 3, 8, 9} : RepairsBy(n, e) \subseteq Due(11, e)
    BY <1>1, <1>2
  <2>3. /\ kept.id # "client" => e.id # "uuid"
        /\ e.country \notin {"absent", kept.country} => e.country = "other"
        /\ e.device \notin {"absent", kept.device} => e.device = "other"
        /\ e.currency \notin {"absent", kept.currency} => e.currency = "other"
    BY DEF Contract!Stored, Events
  <2> HIDE DEF kept
  <2> QED
    BY <2>1, <2>2, <2>3
<1> HIDE DEF kept
<1>6. RepairsOf(e, kept) \subseteq Due(11, e)
  <2> DEFINE due == Due(11, e)
  <2>1. /\ {<<f, "truncated">> : f \in {g \in TextFields : kept.text[g] < e.text[g]}} \subseteq due
        /\ {<<f, "truncated">> : f \in {g \in UrlFields : kept.url[g].len < e.url[g].kept}}
             \subseteq due
        /\ {<<f, "stripped">> : f \in {g \in UrlFields : e.url[g].sensitive}} \subseteq due
    BY <1>3, <1>4
  <2>2. /\ When(kept.id # "client", <<"event_id", "defaulted">>) \subseteq due
        /\ When(e.time.shape = "absent", <<"timestamp", "defaulted">>) \subseteq due
        /\ When(e.country \notin {"absent", kept.country}, <<"country", "stripped">>)
             \subseteq due
        /\ When(e.device \notin {"absent", kept.device}, <<"device", "normalised">>)
             \subseteq due
        /\ When(e.currency \notin {"absent", kept.currency}, <<"currency", "normalised">>)
             \subseteq due
    BY <1>5 DEF When
  <2> HIDE DEF due
  <2>3. RepairsOf(e, kept) \subseteq due
    BY <2>1, <2>2, Zenon DEF RepairsOf
  <2> QED
    BY <2>3 DEF due
<1> QED
  BY <1>6 DEF kept

-----------------------------------------------------------------------------
(* Repairs *)

\* A place of a list of accepted events, or the next one, of the event in hand.
NotedAt(p, label) ==
  \/ p[2] \in DOMAIN accepted[p[1]] /\ label \in RepairsOf(SentAt(p), KeptAt(p))
  \/ p[2] = Len(accepted[p[1]]) + 1 /\ label \in Due(rule[p[1]], in[p[1]])
MovedAt(p) ==
  \/ p[2] \in DOMAIN accepted[p[1]] /\ TimeReplaced(SentAt(p), KeptAt(p))
  \/ /\ p[2] = Len(accepted[p[1]]) + 1
     /\ rule[p[1]] > 3 /\ TimeReplaced(in[p[1]], out[p[1]])

Noted(label) == {p \in Places : NotedAt(p, label)}
Moved == {p \in Places : MovedAt(p)}

\* NoSilentRepair, with the repairs made so far in events not yet finished.
\* Without them it is not inductive: the event is accepted at its last rule,
\* when what the earlier rules changed in it has to be counted already.
CountedAhead ==
  /\ \A label \in RepairedFields \X Repairs : Cardinality(Noted(label)) <= repairedTotal[label]
  /\ Cardinality(Moved) <= skewTotal["future"] + skewTotal["past"]

LEMMA CountedInit == Init => CountedAhead
<1> SUFFICES ASSUME Init PROVE CountedAhead
  OBVIOUS
<1>1. \A r \in Requests : /\ DOMAIN accepted[r] = {} /\ rule[r] = 0
                         /\ Due(rule[r], in[r]) = {}
  BY NothingDue DEF Init
<1>2. \A p \in Places : p[1] \in Requests
  BY DEF Places
<1>3. \A label : Noted(label) = {}
  BY <1>1, <1>2 DEF Noted, NotedAt
<1>4. Moved = {}
  BY <1>1, <1>2 DEF Moved, MovedAt
<1>5. /\ \A label \in RepairedFields \X Repairs : repairedTotal[label] = 0
      /\ skewTotal["future"] = 0 /\ skewTotal["past"] = 0
  BY DEF Init, Zero, Directions
<1> QED
  BY <1>3, <1>4, <1>5, FS_EmptySet DEF CountedAhead

\* Where a step notes nothing: the list is the same, and the event in hand is
\* the same too, or none, or not looked at yet.
LEMMA Quiet ==
  ASSUME NEW p \in Places, NEW label,
         accepted'[p[1]] = accepted[p[1]],
         input'[p[1]] = input[p[1]] \/ DOMAIN accepted[p[1]] = {},
         \/ rule'[p[1]] = 0 \/ rule'[p[1]] = 1
         \/ /\ rule'[p[1]] = rule[p[1]]
            /\ in'[p[1]] = in[p[1]] /\ out'[p[1]] = out[p[1]]
  PROVE  /\ NotedAt(p, label)' => NotedAt(p, label)
         /\ MovedAt(p)' => MovedAt(p)
<1> DEFINE r == p[1]
<1>1. p[2] \in DOMAIN accepted[r] => SentAt(p)' = SentAt(p) /\ KeptAt(p)' = KeptAt(p)
  BY DEF SentAt, KeptAt, Sent
<1>2. label \in Due(rule'[r], in'[r]) => label \in Due(rule[r], in[r])
  BY NothingDue
<1>3. rule'[r] > 3 => rule'[r] = rule[r] /\ in'[r] = in[r] /\ out'[r] = out[r]
  OBVIOUS
<1>4. NotedAt(p, label)' => NotedAt(p, label)
  BY <1>1, <1>2 DEF NotedAt
<1>5. MovedAt(p)' => MovedAt(p)
  BY <1>1, <1>3 DEF MovedAt
<1> QED
  BY <1>4, <1>5

\* What a step may note, and where: nothing its counters are not told of.
Notes(place, repairs, skew) ==
  /\ \A label : \A p \in Places :
       NotedAt(p, label)' => NotedAt(p, label) \/ (p = place /\ label \in repairs)
  /\ \A p \in Places : MovedAt(p)' => MovedAt(p) \/ (p = place /\ skew \in Directions)
  /\ repairedTotal' = Inc(repairedTotal, repairs)
  /\ skewTotal' = Inc(skewTotal, {skew})

LEMMA NoIncrement ==
  ASSUME NEW labels, NEW counter \in [labels -> Nat], NEW added, added \intersect labels = {}
  PROVE  Inc(counter, added) = counter
BY DEF Inc

\* A step that repairs nothing.
LEMMA QuietStep ==
  ASSUME IInv, UNCHANGED <<repairedTotal, skewTotal>>,
         \A label : \A p \in Places : NotedAt(p, label)' => NotedAt(p, label),
         \A p \in Places : MovedAt(p)' => MovedAt(p)
  PROVE  \E place, repairs, skew : Notes(place, repairs, skew)
<1>1. /\ repairedTotal \in [RepairedFields \X Repairs -> Nat]
      /\ skewTotal \in [Directions -> Nat]
  BY DEF IInv, TypeOK
<1>2. Inc(repairedTotal, {}) = repairedTotal
  BY <1>1, NoIncrement
<1>3. {"none"} \intersect Directions = {}
  BY DEF Directions
<1>4. Inc(skewTotal, {"none"}) = skewTotal
  BY <1>1, <1>3, NoIncrement
<1>5. Notes({}, {}, "none")
  <2>1. /\ \A label : \A p \in Places :
             NotedAt(p, label)' => NotedAt(p, label) \/ (p = {} /\ label \in {})
        /\ \A p \in Places : MovedAt(p)' => MovedAt(p) \/ (p = {} /\ "none" \in Directions)
    BY Zenon
  <2>2. repairedTotal' = Inc(repairedTotal, {}) /\ skewTotal' = Inc(skewTotal, {"none"})
    BY <1>2, <1>4
  <2> QED
    BY <2>1, <2>2, Zenon DEF Notes
<1> QED
  BY <1>5

LEMMA ApplyNotes ==
  ASSUME NEW r \in Requests, IInv, Apply(r)
  PROVE  \E place, repairs, skew : Notes(place, repairs, skew)
<1>1. /\ pc[r] = "validating" /\ rule[r] > 0 /\ input' = input /\ in' = in
  BY DEF Apply
<1>2. PICK fresh \in BOOLEAN : Ruled(r, ApplyRule(rule[r], in[r], out[r], clock, fresh))
  BY AppliedRule
<1> DEFINE done == ApplyRule(rule[r], in[r], out[r], clock, fresh)
           place == <<r, Len(accepted[r]) + 1>>
<1>3. Outcome(r, done)
  BY <1>1, RuleOutcome, Zenon
<1>4. /\ TypeOK /\ rule[r] \in 1..NumRules /\ in[r] \in Events
      /\ out[r] \in ValidatedEvents /\ clock \in Int
      /\ accepted[r] \in Seq(AcceptedEntries)
  BY <1>1 DEF IInv, TypeOK, NumRules
<1>5. Reports(rule[r], in[r], out[r], done)
  BY <1>4, RuleReports, Zenon
<1>6. /\ out' = [out EXCEPT ![r] = done.out]
      /\ repairedTotal' = Inc(repairedTotal, done.repairs)
      /\ skewTotal' = Inc(skewTotal, {done.skew})
      /\ \/ done.reason # "none" /\ Rejecting(r, done.reason)
         \/ /\ done.reason = "none" /\ rule[r] < NumRules
            /\ rule' = [rule EXCEPT ![r] = @ + 1]
            /\ UNCHANGED <<at, pc, accepted, rejected, rejectedTotal>>
         \/ /\ done.reason = "none" /\ ~(rule[r] < NumRules)
            /\ accepted' = [accepted EXCEPT ![r] =
                              Append(@, [index |-> at[r], event |-> done.out])]
            /\ Advance(r)
            /\ UNCHANGED <<rejected, rejectedTotal>>
  BY <1>2, Zenon DEF Ruled
<1> HIDE DEF done
<1>7. /\ out'[r] = done.out
      /\ \A s \in Requests \ {r} : out'[s] = out[s] /\ rule'[s] = rule[s]
                                 /\ accepted'[s] = accepted[s]
  BY <1>4, <1>6 DEF TypeOK, Rejecting, Advance
\* It is enough to look at the places of this request.
<1>8. SUFFICES ASSUME NEW p \in Places, NEW label, p[1] = r
               PROVE  /\ NotedAt(p, label)' =>
                           NotedAt(p, label) \/ (p = place /\ label \in done.repairs)
                      /\ MovedAt(p)' => MovedAt(p) \/ (p = place /\ done.skew \in Directions)
  <2>1. ASSUME NEW p \in Places, NEW label
        PROVE  /\ NotedAt(p, label)' =>
                    NotedAt(p, label) \/ (p = place /\ label \in done.repairs)
               /\ MovedAt(p)' => MovedAt(p) \/ (p = place /\ done.skew \in Directions)
    <3>1. p[1] \in Requests
      BY DEF Places
    <3>2. CASE p[1] # r
      <4>1. /\ accepted'[p[1]] = accepted[p[1]] /\ input'[p[1]] = input[p[1]]
            /\ rule'[p[1]] = rule[p[1]] /\ in'[p[1]] = in[p[1]] /\ out'[p[1]] = out[p[1]]
        BY <1>1, <1>7, <3>1, <3>2
      <4> QED
        BY <4>1, Quiet
    <3> QED
      BY <1>8, <3>2, Zenon
  <2>2. Notes(place, done.repairs, done.skew)
    BY <1>6, <2>1, Zenon DEF Notes
  <2> QED
    BY <2>2, Zenon
<1>9. p[2] \in Int /\ p = <<r, p[2]>>
  BY <1>8 DEF Places
<1>10. Len(accepted[r]) \in Nat /\ DOMAIN accepted[r] = 1..Len(accepted[r])
  BY <1>4, LenProperties
<1>11. CASE done.reason # "none" /\ Rejecting(r, done.reason)
  <2>1. rule'[r] = 0 /\ accepted' = accepted
    BY <1>4, <1>11 DEF TypeOK, Rejecting, Advance
  <2>2. /\ NotedAt(p, label)' => NotedAt(p, label)
        /\ MovedAt(p)' => MovedAt(p)
    BY <1>1, <1>8, <2>1, Quiet
  <2> QED
    BY <2>2
<1>12. CASE /\ done.reason = "none" /\ rule[r] < NumRules
            /\ rule' = [rule EXCEPT ![r] = @ + 1]
            /\ UNCHANGED <<at, pc, accepted, rejected, rejectedTotal>>
  <2>1. rule'[r] = rule[r] + 1
    BY <1>4, <1>12 DEF TypeOK
  <2>2. Due(rule[r] + 1, in[r]) = Due(rule[r], in[r]) \union RepairsBy(rule[r], in[r])
    BY <1>4, DueGrows
  <2>3. p[2] \in DOMAIN accepted[r] => SentAt(p)' = SentAt(p) /\ KeptAt(p)' = KeptAt(p)
    BY <1>1, <1>8, <1>12 DEF SentAt, KeptAt, Sent
  <2>4. NotedAt(p, label)' => NotedAt(p, label) \/ (p = place /\ label \in done.repairs)
    <3>1. label \in Due(rule'[r], in'[r]) => label \in Due(rule[r], in[r]) \/ label \in done.repairs
      BY <1>1, <1>5, <1>12, <2>1, <2>2 DEF Reports
    <3> QED
      BY <1>8, <1>9, <1>12, <2>3, <3>1 DEF NotedAt
  <2>5. MovedAt(p)' => MovedAt(p) \/ (p = place /\ done.skew \in Directions)
    <3>1. rule'[r] > 3 => rule[r] = 3 \/ rule[r] > 3
      BY <1>4, <2>1
    <3>2. rule[r] = 3 /\ TimeReplaced(in[r], done.out) => done.skew \in Directions
      BY <1>5, <1>12 DEF Reports
    <3>3. rule[r] # 3 /\ TimeReplaced(in[r], done.out) => TimeReplaced(in[r], out[r])
      BY <1>5, <1>12 DEF Reports, TimeReplaced
    <3>4. TimeReplaced(in[r], out[r])' => TimeReplaced(in[r], done.out)
      BY <1>1, <1>7 DEF TimeReplaced
    <3> QED
      BY <1>8, <1>9, <1>12, <2>3, <3>1, <3>2, <3>3, <3>4 DEF MovedAt
  <2> QED
    BY <2>4, <2>5
<1>13. CASE /\ done.reason = "none" /\ ~(rule[r] < NumRules)
            /\ accepted' = [accepted EXCEPT ![r] =
                              Append(@, [index |-> at[r], event |-> done.out])]
            /\ Advance(r)
            /\ UNCHANGED <<rejected, rejectedTotal>>
  <2> DEFINE entry == [index |-> at[r], event |-> done.out]
  <2>1. rule'[r] = 0 /\ rule[r] = 10 /\ rule[r] + 1 = 11
    BY <1>4, <1>13 DEF TypeOK, Advance, NumRules
  <2>2. accepted'[r] = Append(accepted[r], entry)
    BY <1>4, <1>13 DEF TypeOK
  <2>3. /\ DOMAIN accepted'[r] = DOMAIN accepted[r] \union {Len(accepted[r]) + 1}
        /\ \A k \in DOMAIN accepted[r] : accepted'[r][k] = accepted[r][k]
        /\ accepted'[r][Len(accepted[r]) + 1] = entry
    BY <1>4, <1>10, <2>2
  <2>4. Due(rule'[r], in'[r]) = {}
    BY <2>1, NothingDue
  <2>5. CASE p[2] \in DOMAIN accepted[r]
    <3>1. SentAt(p)' = SentAt(p) /\ KeptAt(p)' = KeptAt(p)
      BY <1>1, <1>8, <2>3, <2>5 DEF SentAt, KeptAt, Sent
    <3>2. NotedAt(p, label)' => NotedAt(p, label)
      BY <1>8, <2>4, <2>5, <3>1 DEF NotedAt
    <3>3. MovedAt(p)' => MovedAt(p)
      BY <1>8, <2>1, <2>5, <3>1 DEF MovedAt
    <3> QED
      BY <3>2, <3>3
  <2>6. CASE p[2] = Len(accepted[r]) + 1
    <3>1. /\ in[r] = Sent(r, at[r])
          /\ FairlyAccepted(input[r], at[r], done.out, begun[r], clock)
      BY <1>3, <1>4, <1>13, <2>1 DEF Outcome, NumRules
    <3>2. SentAt(p)' = in[r] /\ KeptAt(p)' = done.out
      BY <1>1, <1>8, <2>3, <2>6, <3>1 DEF SentAt, KeptAt, Sent
    <3>3. RepairsOf(in[r], done.out) \subseteq Due(11, in[r])
      <4>1. PICK t \in begun[r]..clock : done.out = Contract!Stored(in[r], input[r].key, t)
        BY <3>1 DEF FairlyAccepted, Sent
      <4> QED
        BY <1>4, <4>1, AllDue
    <3>4. Due(11, in[r]) \subseteq Due(rule[r], in[r]) \union done.repairs
      <4>1. Due(rule[r] + 1, in[r]) = Due(rule[r], in[r]) \union RepairsBy(rule[r], in[r])
        BY <1>4, DueGrows
      <4>2. RepairsBy(rule[r], in[r]) \subseteq done.repairs
        BY <1>5, <1>13 DEF Reports
      <4> QED
        BY <2>1, <4>1, <4>2
    <3>5. NotedAt(p, label)' => NotedAt(p, label) \/ (p = place /\ label \in done.repairs)
      <4>1. NotedAt(p, label)' => label \in RepairsOf(in[r], done.out)
        BY <1>8, <2>4, <3>2 DEF NotedAt
      <4>2. label \in Due(rule[r], in[r]) => NotedAt(p, label)
        BY <1>8, <2>6 DEF NotedAt
      <4> QED
        BY <1>9, <2>6, <3>3, <3>4, <4>1, <4>2
    <3>6. MovedAt(p)' => MovedAt(p)
      <4>1. MovedAt(p)' => TimeReplaced(in[r], done.out)
        BY <1>8, <2>1, <3>2 DEF MovedAt
      <4>2. done.out.time = out[r].time
        BY <1>5, <1>13, <2>1 DEF Reports
      <4>3. TimeReplaced(in[r], done.out) => TimeReplaced(in[r], out[r])
        BY <4>2 DEF TimeReplaced
      <4>4. TimeReplaced(in[r], out[r]) => MovedAt(p)
        BY <1>8, <2>1, <2>6 DEF MovedAt
      <4> QED
        BY <4>1, <4>3, <4>4
    <3> QED
      BY <3>5, <3>6
  <2>7. CASE p[2] \notin DOMAIN accepted[r] \union {Len(accepted[r]) + 1}
    <3>1. ~NotedAt(p, label)'
      BY <1>8, <2>3, <2>4, <2>7 DEF NotedAt
    <3>2. ~MovedAt(p)'
      BY <1>8, <2>1, <2>3, <2>7 DEF MovedAt
    <3> QED
      BY <3>1, <3>2
  <2> QED
    BY <2>5, <2>6, <2>7
<1> QED
  BY <1>6, <1>11, <1>12, <1>13

LEMMA StepNotes ==
  ASSUME IInv, [Next]_vars
  PROVE  \E place, repairs, skew : Notes(place, repairs, skew)
<1>1. TypeOK
  BY DEF IInv
<1>2. \A p \in Places : p[1] \in Requests
  BY DEF Places
<1>3. ASSUME UNCHANGED <<accepted, repairedTotal, skewTotal>>,
             \A r \in Requests :
               /\ input'[r] = input[r] \/ DOMAIN accepted[r] = {}
               /\ \/ rule'[r] = 0 \/ rule'[r] = 1
                  \/ rule'[r] = rule[r] /\ in'[r] = in[r] /\ out'[r] = out[r]
      PROVE  \E place, repairs, skew : Notes(place, repairs, skew)
  <2>1. \A label : \A p \in Places : NotedAt(p, label)' => NotedAt(p, label)
    BY <1>2, <1>3, Quiet
  <2>2. \A p \in Places : MovedAt(p)' => MovedAt(p)
    BY <1>2, <1>3, Quiet
  <2> QED
    BY <1>3, <2>1, <2>2, QuietStep
<1>4. ASSUME NEW r \in Requests, Receive(r)
      PROVE  \E place, repairs, skew : Notes(place, repairs, skew)
  <2>1. /\ pc[r] = "idle" /\ UNCHANGED <<accepted, rule, in, out, repairedTotal, skewTotal>>
        /\ \A s \in Requests \ {r} : input'[s] = input[s]
    BY <1>1, <1>4 DEF Receive, work, counters, TypeOK
  <2>2. DOMAIN accepted[r] = {}
    BY <2>1, NothingYet
  <2> QED
    BY <1>3, <2>1, <2>2
<1>5. ASSUME NEW r \in Requests, Decode(r)
      PROVE  \E place, repairs, skew : Notes(place, repairs, skew)
  <2>1. UNCHANGED <<input, accepted, repairedTotal, skewTotal>>
    BY <1>5 DEF Decode, Rejecting
  <2>2. /\ rule'[r] = 0 \/ rule'[r] = 1
        /\ \A s \in Requests \ {r} :
             rule'[s] = rule[s] /\ in'[s] = in[s] /\ out'[s] = out[s]
    BY <1>1, <1>5 DEF Decode, Rejecting, Advance, TypeOK
  <2> QED
    BY <1>3, <2>1, <2>2
<1>6. ASSUME NEW r \in Requests, Apply(r)
      PROVE  \E place, repairs, skew : Notes(place, repairs, skew)
  BY <1>6, ApplyNotes
<1>7. CASE Tick \/ Finished \/ UNCHANGED vars
  <2>1. UNCHANGED <<input, accepted, rule, in, out, repairedTotal, skewTotal>>
    BY <1>7 DEF Tick, Finished, vars, work, result, counters
  <2> QED
    BY <1>3, <2>1
<1> QED
  BY <1>4, <1>5, <1>6, <1>7 DEF Next

\* A set that gains at most one element.
LEMMA GainsOne ==
  ASSUME NEW S, IsFiniteSet(S), NEW p, NEW T, T \subseteq S \union {p}
  PROVE  Cardinality(T) \in Nat /\ Cardinality(T) <= Cardinality(S) + 1
<1>1. /\ IsFiniteSet(S \union {p}) /\ Cardinality(S \union {p}) <= Cardinality(S) + 1
  <2>1. Cardinality(S) \in Nat
    BY FS_CardinalityType
  <2>2. IsFiniteSet(S \union {p})
    BY FS_AddElement
  <2>3. Cardinality(S \union {p}) \in {Cardinality(S), Cardinality(S) + 1}
    BY FS_AddElement
  <2> QED
    BY <2>1, <2>2, <2>3
<1>2. IsFiniteSet(T) /\ Cardinality(T) <= Cardinality(S \union {p})
  BY <1>1, FS_Subset
<1>3. /\ Cardinality(T) \in Nat /\ Cardinality(S) \in Nat
      /\ Cardinality(S \union {p}) \in Nat
  BY <1>1, <1>2, FS_CardinalityType
<1> QED
  BY <1>1, <1>2, <1>3

LEMMA CountedStep == IInv /\ IInv' /\ CountedAhead /\ [Next]_vars => CountedAhead'
<1> SUFFICES ASSUME IInv, IInv', CountedAhead, [Next]_vars PROVE CountedAhead'
  OBVIOUS
<1>1. PICK place, repairs, skew : Notes(place, repairs, skew)
  BY StepNotes
<1>2. /\ repairedTotal \in [RepairedFields \X Repairs -> Nat]
      /\ skewTotal \in [Directions -> Nat]
  BY DEF IInv, TypeOK
<1>3. Places' = Places
  BY DEF Places
<1>4. \A S : S \subseteq Places => IsFiniteSet(S) /\ Cardinality(S) \in Nat
  BY PlacesFinite, FS_Subset, FS_CardinalityType
<1>5. ASSUME NEW label \in RepairedFields \X Repairs
      PROVE  Cardinality(Noted(label)') <= repairedTotal'[label]
  <2>1. /\ Noted(label) \subseteq Places
        /\ Noted(label)' \subseteq Noted(label) \union (IF label \in repairs THEN {place} ELSE {})
    BY <1>1, <1>3 DEF Noted, Notes
  <2>2. /\ Cardinality(Noted(label)) \in Nat /\ IsFiniteSet(Noted(label))
        /\ Cardinality(Noted(label)) <= repairedTotal[label] /\ repairedTotal[label] \in Nat
    BY <1>2, <1>4, <2>1 DEF CountedAhead
  <2>3. CASE label \in repairs
    <3>1. repairedTotal'[label] = repairedTotal[label] + 1
      BY <1>1, <1>2, <2>3 DEF Notes, Inc
    <3>2. /\ Cardinality(Noted(label)') \in Nat
          /\ Cardinality(Noted(label)') <= Cardinality(Noted(label)) + 1
      BY <2>1, <2>2, <2>3, GainsOne
    <3> QED
      BY <2>2, <3>1, <3>2
  <2>4. CASE label \notin repairs
    <3>1. repairedTotal'[label] = repairedTotal[label]
      BY <1>1, <1>2, <2>4 DEF Notes, Inc
    <3>2. Noted(label)' \subseteq Noted(label)
      BY <2>1, <2>4
    <3>3. Cardinality(Noted(label)') <= Cardinality(Noted(label))
      BY <2>2, <3>2, FS_Subset
    <3>4. Cardinality(Noted(label)') \in Nat
      BY <1>4, <2>1, <3>2
    <3> QED
      BY <2>2, <3>1, <3>3, <3>4
  <2> QED
    BY <2>3, <2>4
<1>6. Cardinality(Moved') <= skewTotal'["future"] + skewTotal'["past"]
  <2>1. /\ Moved \subseteq Places
        /\ Moved' \subseteq Moved \union (IF skew \in Directions THEN {place} ELSE {})
    BY <1>1, <1>3 DEF Moved, Notes
  <2>2. /\ Cardinality(Moved) \in Nat /\ IsFiniteSet(Moved)
        /\ Cardinality(Moved) <= skewTotal["future"] + skewTotal["past"]
        /\ skewTotal["future"] \in Nat /\ skewTotal["past"] \in Nat
    BY <1>2, <1>4, <2>1 DEF CountedAhead, Directions
  <2>3. CASE skew \in Directions
    <3>1. /\ skewTotal' = Inc(skewTotal, {skew})
          /\ skew = "future" \/ skew = "past"
      BY <1>1, <2>3 DEF Notes, Directions
    <3>2. \/ /\ skewTotal'["future"] = skewTotal["future"] + 1
             /\ skewTotal'["past"] = skewTotal["past"]
          \/ /\ skewTotal'["future"] = skewTotal["future"]
             /\ skewTotal'["past"] = skewTotal["past"] + 1
      <4>1. /\ DOMAIN skewTotal = {"future", "past"} /\ "future" # "past"
            /\ \A d \in {"future", "past"} :
                 skewTotal'[d] = IF d = skew THEN skewTotal[d] + 1 ELSE skewTotal[d]
        <5>1. DOMAIN skewTotal = Directions /\ Directions = {"future", "past"}
          BY <1>2 DEF Directions
        <5>2. \A d \in DOMAIN skewTotal :
                skewTotal'[d] = IF d \in {skew} THEN skewTotal[d] + 1 ELSE skewTotal[d]
          BY <3>1 DEF Inc
        <5>3. \A d : d \in {skew} <=> d = skew
          OBVIOUS
        <5> QED
          BY <5>1, <5>2, <5>3
      <4>2. CASE skew = "future"
        BY <4>1, <4>2
      <4>3. CASE skew = "past"
        BY <4>1, <4>3
      <4> QED
        BY <3>1, <4>2, <4>3
    <3>3. /\ Cardinality(Moved') \in Nat
          /\ Cardinality(Moved') <= Cardinality(Moved) + 1
      BY <2>1, <2>2, <2>3, GainsOne
    <3> QED
      BY <2>2, <3>2, <3>3
  <2>4. CASE skew \notin Directions
    <3>1. /\ skewTotal'["future"] = skewTotal["future"]
          /\ skewTotal'["past"] = skewTotal["past"]
      BY <1>1, <1>2, <2>4 DEF Notes, Inc, Directions
    <3>2. Moved' \subseteq Moved
      BY <2>1, <2>4
    <3>3. Cardinality(Moved') <= Cardinality(Moved) /\ Cardinality(Moved') \in Nat
      BY <1>4, <2>1, <2>2, <3>2, FS_Subset
    <3> QED
      BY <2>2, <3>1, <3>3
  <2> QED
    BY <2>3, <2>4
<1> QED
  BY <1>5, <1>6 DEF CountedAhead

\* A field without a label of its own is stored as it was sent.
LEMMA NothingElseChanged ==
  ASSUME IInv, NEW p \in AcceptedEvents
  PROVE  UncountedKept(SentAt(p), KeptAt(p))
<1> DEFINE r == p[1]
           k == p[2]
           e == SentAt(p)
<1>1. r \in Requests /\ k \in DOMAIN accepted[r]
  BY DEF AcceptedEvents, Places
<1>2. e = Sent(r, accepted[r][k].index) /\ KeptAt(p) = accepted[r][k].event
  BY DEF SentAt, KeptAt
<1> HIDE DEF r, k, e
<1>3. e \in Events /\ Contract!Faults(e) = {}
  BY <1>1, <1>2, AcceptedIsStored
<1>4. PICK t \in begun[r]..clock : KeptAt(p) = Contract!Stored(e, input[r].key, t)
  BY <1>1, <1>2, AcceptedIsStored
<1>5. e.revenue \in {"absent", "fits"}
  <2>1. e.revenue # "unfit"
    BY <1>3 DEF Contract!Faults, Contract!When
  <2> QED
    BY <1>3, <2>1 DEF Events
<1>6. UncountedKept(e, KeptAt(p))
  BY <1>4, <1>5 DEF UncountedKept, Contract!Stored
<1> QED
  BY <1>6 DEF e

\* No value that was sent is changed, and no id or instant made up, without a
\* counter, one count per field, repair and event, with any number of requests
\* counting at the same time; what has no counter is stored as it was sent.
THEOREM NothingSilent == Spec => []NoSilentRepair
<1>1. IInv /\ CountedAhead => NoSilentRepair
  <2> SUFFICES ASSUME IInv, CountedAhead PROVE NoSilentRepair
    OBVIOUS
  <2>1. \A S : S \subseteq Places => IsFiniteSet(S) /\ Cardinality(S) \in Nat
    BY PlacesFinite, FS_Subset, FS_CardinalityType
  <2>2. \A S, T : S \subseteq Places /\ T \subseteq S => Cardinality(T) <= Cardinality(S)
    BY <2>1, FS_Subset
  <2>3. /\ repairedTotal \in [RepairedFields \X Repairs -> Nat]
        /\ skewTotal["future"] \in Nat /\ skewTotal["past"] \in Nat
    BY DEF IInv, TypeOK, Directions
  <2>4. ASSUME NEW label \in RepairedFields \X Repairs
        PROVE  Repaired(label) <= repairedTotal[label]
    <3> DEFINE fixed == {p \in AcceptedEvents : label \in RepairsOf(SentAt(p), KeptAt(p))}
    <3>1. fixed \subseteq Noted(label) /\ Noted(label) \subseteq Places
      BY DEF AcceptedEvents, Noted, NotedAt
    <3>2. Cardinality(Noted(label)) <= repairedTotal[label]
      BY DEF CountedAhead
    <3> HIDE DEF fixed
    <3>3. /\ Cardinality(fixed) <= Cardinality(Noted(label))
          /\ Cardinality(fixed) \in Nat /\ Cardinality(Noted(label)) \in Nat
      BY <2>1, <2>2, <3>1
    <3>4. repairedTotal[label] \in Nat
      BY <2>3
    <3>5. Cardinality(fixed) <= repairedTotal[label]
      BY <3>2, <3>3, <3>4
    <3> QED
      BY <3>5 DEF Repaired, fixed
  <2>5. Replaced <= skewTotal["future"] + skewTotal["past"]
    <3> DEFINE moved == {p \in AcceptedEvents : TimeReplaced(SentAt(p), KeptAt(p))}
    <3>1. moved \subseteq Moved /\ Moved \subseteq Places
      BY DEF AcceptedEvents, Moved, MovedAt
    <3>2. Cardinality(Moved) <= skewTotal["future"] + skewTotal["past"]
      BY DEF CountedAhead
    <3> HIDE DEF moved
    <3>3. /\ Cardinality(moved) <= Cardinality(Moved)
          /\ Cardinality(moved) \in Nat /\ Cardinality(Moved) \in Nat
      BY <2>1, <2>2, <3>1
    <3>4. Cardinality(moved) <= skewTotal["future"] + skewTotal["past"]
      BY <2>3, <3>2, <3>3
    <3> QED
      BY <3>4 DEF Replaced, moved
  <2>6. \A p \in AcceptedEvents : UncountedKept(SentAt(p), KeptAt(p))
    BY NothingElseChanged
  <2> QED
    BY <2>4, <2>5, <2>6 DEF NoSilentRepair
<1>2. Init => CountedAhead
  BY CountedInit
<1>3. IInv /\ IInv' /\ CountedAhead /\ [Next]_vars => CountedAhead'
  BY CountedStep
<1> QED
  BY <1>1, <1>2, <1>3, Inductive, PTL DEF Spec

=============================================================================
