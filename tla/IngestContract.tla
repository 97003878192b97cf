--------------------------- MODULE IngestContract ---------------------------
(***************************************************************************)
(* What validate.Validator promises to the handler that will call it: one  *)
(* answer per request, given at once.  The request is refused for a fault  *)
(* of its own, or each of its events gets a verdict that depends on that   *)
(* event, the key's site and one reading of the clock, and on nothing      *)
(* else: not on its neighbours, not on other requests, not on the order of *)
(* the rules.                                                              *)
(***************************************************************************)
EXTENDS EventRules, Sequences

CONSTANTS Requests, Inputs

VARIABLES
  clock,   \* the server clock
  input,   \* each request, NoInput before it arrives
  begun,   \* the clock when it arrived
  answer   \* what its caller was told

contractVars == <<clock, input, begun, answer>>

NoInput == [key |-> Empty, body |-> Empty, events |-> <<>>]
Pending == [refused |-> "pending", verdicts |-> <<>>]

Init == /\ clock = 0
        /\ input = [r \in Requests |-> NoInput]
        /\ begun = [r \in Requests |-> 0]
        /\ answer = [r \in Requests |-> Pending]

\* Faults of a request as a whole.
WholeFaults(q) ==
  When(q.key = Empty \/ q.body \notin {Empty, q.key}, "site_id_mismatch")
  \union When(q.events = <<>>, "empty_batch")
  \union When(Len(q.events) > Limits.MaxEventsPerRequest, "batch_too_large")

\* What one element of the batch decodes to; null leaves every field absent.
Sent(q, i) == IF q.events[i].json = "null" THEN EmptyEvent ELSE q.events[i].event

\* Faults of one element taken alone.
Faults(e) ==
  When(e.name.shape = "absent", "missing_event_name")
  \union When(e.name.shape = "other" \/ e.name.len > Limits.MaxEventNameLen,
              "invalid_event_name")
  \union When(e.id = "malformed", "invalid_event_id")
  \union When(e.time.shape = "unparseable", "invalid_timestamp")
  \union When(e.revenue = "unfit", "invalid_revenue")
  \union When(e.props.raw > Limits.MaxPropertiesBytes, "properties_too_large")
  \union When(e.props.shape = "other", "invalid_properties")

\* An id the client left out is a fault only if the server can make none.
PossibleFaults(e) == Faults(e) \union When(e.id = "absent", "invalid_event_id")

InWindow(e, now) == /\ e.time.shape = "instant"
                    /\ e.time.at \in (now - Limits.PastSkew)..(now + Limits.FutureSkew)

\* What is stored of an event without faults that is looked at when the clock is now.
Stored(e, site, now) ==
  [site |-> site,
   name |-> e.name.len,
   id |-> IF e.id = "uuid" THEN "client" ELSE "server",
   time |-> IF InWindow(e, now) THEN e.time.at ELSE now,
   text |-> [f \in TextFields |-> Cut(e.text[f], TextLimit[f])],
   url |-> [f \in UrlFields |-> [len |-> Cut(e.url[f].kept, UrlLimit[f]),
                                 sensitive |-> FALSE]],
   country |-> IF e.country = "code" THEN "code" ELSE Empty,
   device |-> IF e.device = "known" THEN "known" ELSE "unknown",
   revenue |-> IF e.revenue = "fits" THEN "literal" ELSE Empty,
   currency |-> IF e.currency = "code" THEN "code" ELSE "VND",
   props |-> IF e.props.shape = "absent" THEN 2 ELSE e.props.compact]

Rejected(reason) == [reason |-> reason, event |-> Blank(Empty)]
Accepted(event) == [reason |-> "none", event |-> event]

\* The verdicts element i of q may get while the clock goes from then to now.
Verdicts(q, i, then, now) ==
  IF q.events[i].json = "malformed" THEN {Rejected("malformed_event")}
  ELSE LET e == Sent(q, i)
       IN  {Rejected(reason) : reason \in PossibleFaults(e)}
           \union (IF Faults(e) = {} THEN {Accepted(Stored(e, q.key, t)) : t \in then..now}
                                     ELSE {})

-----------------------------------------------------------------------------

\* A request arrives that cannot be processed at all.
Refuse(r) == /\ input[r] = NoInput /\ answer[r] = Pending
             /\ \E q \in Inputs : \E fault \in WholeFaults(q) :
                  /\ input' = [input EXCEPT ![r] = q]
                  /\ answer' = [answer EXCEPT ![r] = [refused |-> fault, verdicts |-> <<>>]]
             /\ begun' = [begun EXCEPT ![r] = clock]
             /\ UNCHANGED clock

Take(r) == /\ input[r] = NoInput /\ answer[r] = Pending
           /\ \E q \in Inputs : /\ WholeFaults(q) = {}
                                /\ input' = [input EXCEPT ![r] = q]
           /\ begun' = [begun EXCEPT ![r] = clock]
           /\ UNCHANGED <<clock, answer>>

\* Every event of the batch is answered, all at once.
Judge(r) ==
  LET n == Len(input[r].events)
      Fair(i) == Verdicts(input[r], i, begun[r], clock)
  IN  /\ input[r] # NoInput /\ answer[r] = Pending
      /\ \E verdicts \in [1..n -> UNION {Fair(i) : i \in 1..n}] :
           /\ \A i \in 1..n : verdicts[i] \in Fair(i)
           /\ answer' = [answer EXCEPT ![r] = [refused |-> "none", verdicts |-> verdicts]]
      /\ UNCHANGED <<clock, input, begun>>

Tick == /\ clock' = clock + 1
        /\ UNCHANGED <<input, begun, answer>>

Next == \/ \E r \in Requests : Refuse(r) \/ Take(r) \/ Judge(r)
        \/ Tick

Spec == Init /\ [][Next]_contractVars

=============================================================================
