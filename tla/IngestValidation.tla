-------------------------- MODULE IngestValidation --------------------------
(***************************************************************************)
(* validate.Validator as the ingest API shares it: one request goroutine   *)
(* per request runs Validate on a batch, event by event and rule by rule,  *)
(* while the other goroutines run theirs.  They share the immutable        *)
(* Validator, the server clock and the counters of metrics.IngestObserver. *)
(***************************************************************************)
EXTENDS EventRules, Sequences, FiniteSets

CONSTANTS Requests,  \* request goroutines
          Inputs,    \* what may arrive: the key's site, the body's site, events
          MaxClock   \* bound: hours the server clock advances

ASSUME RequestsAssumption == IsFiniteSet(Requests)
ASSUME InputsAssumption ==
  Inputs \subseteq [key : STRING, body : STRING,
                    events : Seq([json : {"object", "null", "malformed"},
                                  event : Events])]
ASSUME MaxClockAssumption == MaxClock \in Nat

VARIABLES
  clock,     \* the server clock, in hours
  pc,        \* idle, validating or answered, for each request
  input,     \* the request being validated
  begun,     \* the clock when Validate was called
  at,        \* index of the event being validated
  rule,      \* the rule to apply next; 0 while the event is not decoded
  in,        \* the decoded event
  out,       \* the event as the rules have built it so far
  accepted,  \* Result.Accepted: the event, and its index in the request
  rejected,  \* Result.Rejected: index and reason
  refused,   \* the sentinel error of a request refused as a whole
  rejectedTotal,  \* pulse_events_rejected_total{site, reason}
  repairedTotal,  \* pulse_events_field_repaired_total{field, repair}
  skewTotal       \* pulse_events_clock_skew_total{direction}

result == <<accepted, rejected, refused>>
counters == <<rejectedTotal, repairedTotal, skewTotal>>
work == <<at, rule, in, out>>
vars == <<clock, pc, input, begun, work, result, counters>>

\* The labels of the counters.
Sites == {q.key : q \in Inputs} \union {q.body : q \in Inputs}
Reasons == {"malformed_event", "missing_event_name", "invalid_event_name",
            "invalid_event_id", "invalid_timestamp", "invalid_revenue",
            "properties_too_large", "invalid_properties"}
Repairs == {"truncated", "stripped", "defaulted", "normalised"}
RepairedFields == TextFields \union UrlFields
                    \union {"event_id", "timestamp", "country", "device", "currency"}
Directions == {"future", "past"}

\* A counter without a series yet reads 0; Inc is atomic for each label.
Zero(labels) == [l \in labels |-> 0]
Inc(counter, labels) ==
  [l \in DOMAIN counter |-> IF l \in labels THEN counter[l] + 1 ELSE counter[l]]

NoInput == [key |-> Empty, body |-> Empty, events |-> <<>>]

Init == /\ clock = 0
        /\ pc = [r \in Requests |-> "idle"]
        /\ input = [r \in Requests |-> NoInput]
        /\ begun = [r \in Requests |-> 0]
        /\ at = [r \in Requests |-> 1]
        /\ rule = [r \in Requests |-> 0]
        /\ in = [r \in Requests |-> EmptyEvent]
        /\ out = [r \in Requests |-> Blank(Empty)]
        /\ accepted = [r \in Requests |-> <<>>]
        /\ rejected = [r \in Requests |-> <<>>]
        /\ refused = [r \in Requests |-> "none"]
        /\ rejectedTotal = Zero(Sites \X Reasons)
        /\ repairedTotal = Zero(RepairedFields \X Repairs)
        /\ skewTotal = Zero(Directions)

-----------------------------------------------------------------------------

\* Faulty: the size of the batch is not checked.
RefusalNoSize(q) ==
  CASE q.key = Empty \/ q.body \notin {Empty, q.key} -> "site_id_mismatch"
    [] q.key # Empty /\ q.body \in {Empty, q.key} /\ q.events = <<>> -> "empty_batch"
    [] OTHER -> "none"

\* The faults of a request as a whole, in the order they are looked for.
Refusal(q) ==
  CASE q.key = Empty \/ q.body \notin {Empty, q.key} -> "site_id_mismatch"
    [] q.key # Empty /\ q.body \in {Empty, q.key} /\ q.events = <<>> -> "empty_batch"
    [] /\ q.key # Empty /\ q.body \in {Empty, q.key}
       /\ Len(q.events) > Limits.MaxEventsPerRequest -> "batch_too_large"
    [] OTHER -> "none"

\* A request arrives and Validate is called.
Receive(r) == /\ pc[r] = "idle"
              /\ \E q \in Inputs :
                   /\ input' = [input EXCEPT ![r] = q]
                   /\ refused' = [refused EXCEPT ![r] = Refusal(q)]
                   /\ pc' = [pc EXCEPT ![r] = IF Refusal(q) = "none" THEN "validating"
                                                                     ELSE "answered"]
              /\ begun' = [begun EXCEPT ![r] = clock]
              /\ UNCHANGED <<clock, work, accepted, rejected, counters>>

Raw(r) == input[r].events[at[r]]

\* The loop goes on with the next event, or Validate returns.
Advance(r) == /\ at' = [at EXCEPT ![r] = @ + 1]
              /\ rule' = [rule EXCEPT ![r] = 0]
              /\ pc' = [pc EXCEPT ![r] = IF at[r] < Len(input[r].events)
                                         THEN "validating" ELSE "answered"]

\* Faulty: counted under the site the body claims.
CountedSiteOfBody(r) == input[r].body

CountedSite(r) == input[r].key

\* Faulty: the index counts the rejected events, not the request's.
RejectedIndexInList(r) == Len(rejected[r]) + 1

RejectedIndex(r) == at[r]

Rejecting(r, reason) ==
  /\ rejected' = [rejected EXCEPT ![r] =
                    Append(@, [index |-> RejectedIndex(r), reason |-> reason])]
  /\ rejectedTotal' = Inc(rejectedTotal, {<<CountedSite(r), reason>>})
  /\ Advance(r)
  /\ UNCHANGED accepted

\* Faulty: one model.Event is reused, and null leaves the last event's fields.
DecodedReused(r) == IF Raw(r).json = "null" THEN in[r] ELSE Raw(r).event

\* json.Unmarshal into a fresh model.Event; null changes nothing in it.
Decoded(r) == IF Raw(r).json = "null" THEN EmptyEvent ELSE Raw(r).event

Decode(r) == /\ pc[r] = "validating"
             /\ rule[r] = 0
             /\ \/ /\ Raw(r).json = "malformed"
                   /\ Rejecting(r, "malformed_event")
                   /\ UNCHANGED <<in, out>>
                \/ /\ Raw(r).json # "malformed"
                   /\ in' = [in EXCEPT ![r] = Decoded(r)]
                   /\ out' = [out EXCEPT ![r] = Blank(input[r].key)]
                   /\ rule' = [rule EXCEPT ![r] = 1]
                   /\ UNCHANGED <<at, pc, accepted, rejected, rejectedTotal>>
             /\ UNCHANGED <<clock, input, begun, refused, repairedTotal, skewTotal>>

\* One rule of the pipeline; the last one that passes makes the event accepted.
\* Which events find uuid.NewV7 without entropy is the environment's choice.
Apply(r) ==
  /\ pc[r] = "validating"
  /\ rule[r] > 0
  /\ \E fresh \in (IF rule[r] = 2 THEN BOOLEAN ELSE {TRUE}) :
       LET done == ApplyRule(rule[r], in[r], out[r], clock, fresh)
       IN  /\ out' = [out EXCEPT ![r] = done.out]
           /\ repairedTotal' = Inc(repairedTotal, done.repairs)
           /\ skewTotal' = Inc(skewTotal, {done.skew})
           /\ CASE done.reason # "none" -> Rejecting(r, done.reason)
                [] done.reason = "none" /\ rule[r] < NumRules ->
                     /\ rule' = [rule EXCEPT ![r] = @ + 1]
                     /\ UNCHANGED <<at, pc, accepted, rejected, rejectedTotal>>
                [] OTHER ->
                     /\ accepted' = [accepted EXCEPT ![r] =
                                       Append(@, [index |-> at[r], event |-> done.out])]
                     /\ Advance(r)
                     /\ UNCHANGED <<rejected, rejectedTotal>>
  /\ UNCHANGED <<clock, input, begun, in, refused>>

\* The server clock moves on, also between two events of one batch.
Tick == /\ clock < MaxClock
        /\ clock' = clock + 1
        /\ UNCHANGED <<pc, input, begun, work, result, counters>>

Finished == /\ \A r \in Requests : pc[r] = "answered"
            /\ UNCHANGED vars

Next == \/ \E r \in Requests : Receive(r) \/ Decode(r) \/ Apply(r)
        \/ Tick
        \/ Finished

Spec == Init /\ [][Next]_vars

-----------------------------------------------------------------------------
(* Properties *)

ValidatedEvents ==
  [site : Sites \union {Empty}, name : Nat, id : {"none", "client", "server"}, time : Int,
   text : [TextFields -> Nat], url : [UrlFields -> [len : Nat, sensitive : BOOLEAN]],
   country : {"code", Empty}, device : {"known", "unknown", Empty},
   revenue : {"literal", Empty}, currency : {"code", "VND", Empty}, props : Nat]
AcceptedEntries == [index : Nat, event : ValidatedEvents]
RejectedEntries == [index : Nat, reason : Reasons]

\* Every variable has its type; the loop never leaves the batch, and the batch
\* of a request that is validated is never larger than the contract allows.
TypeOK ==
  /\ clock \in 0..MaxClock
  /\ pc \in [Requests -> {"idle", "validating", "answered"}]
  /\ input \in [Requests -> Inputs \union {NoInput}]
  /\ begun \in [Requests -> 0..MaxClock]
  /\ at \in [Requests -> 1..Limits.MaxEventsPerRequest + 1]
  /\ rule \in [Requests -> 0..NumRules]
  /\ in \in [Requests -> Events] /\ out \in [Requests -> ValidatedEvents]
  /\ \A r \in Requests : pc[r] = "validating" => at[r] <= Len(input[r].events)
  /\ accepted \in [Requests -> Seq(AcceptedEntries)]
  /\ rejected \in [Requests -> Seq(RejectedEntries)]
  /\ refused \in [Requests -> {"none", "site_id_mismatch", "empty_batch",
                               "batch_too_large"}]
  /\ rejectedTotal \in [Sites \X Reasons -> Nat]
  /\ repairedTotal \in [RepairedFields \X Repairs -> Nat]
  /\ skewTotal \in [Directions -> Nat]

Indices(list) == {list[k].index : k \in DOMAIN list}
Ascending(list) == \A j, k \in DOMAIN list : j < k => list[j].index < list[k].index

\* Partial success: every event of a batch before the current one is either
\* accepted or rejected, never both and never neither, in the order of the
\* request, and a validated request answers for all of its events.
EveryEventAnswered ==
  \A r \in Requests :
    /\ Indices(accepted[r]) \intersect Indices(rejected[r]) = {}
    /\ Indices(accepted[r]) \union Indices(rejected[r]) = 1..(at[r] - 1)
    /\ Ascending(accepted[r]) /\ Ascending(rejected[r])
    /\ pc[r] = "answered" /\ refused[r] = "none" => at[r] = Len(input[r].events) + 1

\* What the answer of a request looks like to its caller, and only once it is
\* given: the verdict of each event by its index.
EntryOf(list, i) == list[CHOOSE k \in DOMAIN list : list[k].index = i]
VerdictAt(r, i) ==
  IF i \in Indices(accepted[r])
  THEN [reason |-> "none", event |-> EntryOf(accepted[r], i).event]
  ELSE [reason |-> EntryOf(rejected[r], i).reason, event |-> Blank(Empty)]
Told(r) ==
  IF pc[r] # "answered" THEN [refused |-> "pending", verdicts |-> <<>>]
  ELSE [refused |-> refused[r],
        verdicts |-> [i \in 1..(at[r] - 1) |-> VerdictAt(r, i)]]

Contract == INSTANCE IngestContract WITH answer <- [r \in Requests |-> Told(r)]

\* The steps of the pipeline, event by event and rule by rule, with other
\* requests and the clock in between, come to one answer given at once, as
\* IngestContract has it.
ContractSpec == Contract!Spec

Sent(r, i) == Contract!Sent(input[r], i)

\* One bad element never costs another: whatever came before it in the batch
\* and whatever other requests do, an event is accepted only if it has no
\* fault of its own and rejected only for a fault of its own.
VerdictIsOwn ==
  \A r \in Requests :
    /\ \A k \in DOMAIN accepted[r] :
         LET i == accepted[r][k].index
         IN  input[r].events[i].json # "malformed" /\ Contract!Faults(Sent(r, i)) = {}
    /\ \A k \in DOMAIN rejected[r] :
         LET i == rejected[r][k].index
             reason == rejected[r][k].reason
         IN  IF input[r].events[i].json = "malformed" THEN reason = "malformed_event"
             ELSE reason \in Contract!PossibleFaults(Sent(r, i))

\* The bound of a column: what was configured, if it is a bound at all, else
\* what the contract ships.
Bound(l) == IF Configured[l] > 0 THEN Configured[l] ELSE DefaultLimits[l]
ColumnBound == [user_id |-> "MaxUserIDLen", session_id |-> "MaxSessionIDLen",
                utm_source |-> "MaxLabelLen", utm_medium |-> "MaxLabelLen",
                utm_campaign |-> "MaxLabelLen", city |-> "MaxCityLen",
                os |-> "MaxLabelLen", browser |-> "MaxLabelLen",
                page |-> "MaxPageLen", referrer |-> "MaxReferrerLen"]

\* What is accepted fits the columns it is stored in and carries the key's
\* site, whatever was configured: a bound that was left out, or set to nothing
\* or less, never means that there is none.
AcceptedFits ==
  \A r \in Requests : \A k \in DOMAIN accepted[r] :
    LET e == accepted[r][k].event
    IN  /\ e.site = input[r].key /\ e.site # Empty
        /\ e.name \in 1..Bound("MaxEventNameLen")
        /\ e.id \in {"client", "server"}
        /\ \A f \in TextFields : e.text[f] <= Bound(ColumnBound[f])
        /\ \A f \in UrlFields : e.url[f].len <= Bound(ColumnBound[f])
        /\ e.currency # Empty /\ e.device # Empty
        /\ e.props = 2 \/ e.props \in 2..Bound("MaxPropertiesBytes")

\* However long validation takes, an accepted instant is no further in the
\* past than the bound was when Validate was called, and no further in the
\* future than it is now.
AcceptedTimeInWindow ==
  \A r \in Requests : \A k \in DOMAIN accepted[r] :
    accepted[r][k].event.time \in (begun[r] - Limits.PastSkew)..(clock + Limits.FutureSkew)

\* Places in the lists of the results: a request and a position.
Places == Requests \X (1..Limits.MaxEventsPerRequest)

RejectedWith(site, reason) ==
  {p \in Places : /\ p[2] \in DOMAIN rejected[p[1]]
                  /\ input[p[1]].key = site
                  /\ rejected[p[1]][p[2]].reason = reason}

\* The rejection counter and the answers agree: over all requests, each site
\* and reason is counted exactly as often as it is reported to a client.
RejectionsCounted ==
  \A site \in Sites, reason \in Reasons :
    rejectedTotal[<<site, reason>>] = Cardinality(RejectedWith(site, reason))

\* What was done to an accepted event, from what was sent and what is stored.
\* A value the client left out is not a repair, except for an id and an instant.
RepairsOf(sent, kept) ==
  {<<f, "truncated">> : f \in {g \in TextFields : kept.text[g] < sent.text[g]}}
  \union {<<f, "truncated">> : f \in {g \in UrlFields : kept.url[g].len < sent.url[g].kept}}
  \union {<<f, "stripped">> : f \in {g \in UrlFields : sent.url[g].sensitive}}
  \union When(kept.id # "client", <<"event_id", "defaulted">>)
  \union When(sent.time.shape = "absent", <<"timestamp", "defaulted">>)
  \union When(sent.country \notin {"absent", kept.country}, <<"country", "stripped">>)
  \union When(sent.device \notin {"absent", kept.device}, <<"device", "normalised">>)
  \union When(sent.currency \notin {"absent", kept.currency}, <<"currency", "normalised">>)
TimeReplaced(sent, kept) == sent.time.shape = "instant" /\ kept.time # sent.time.at

\* Fields no counter has a label for are kept as they were sent.
UncountedKept(sent, kept) ==
  /\ kept.name = sent.name.len
  /\ sent.revenue # "absent" => kept.revenue = "literal"
  /\ sent.props.shape # "absent" => kept.props = sent.props.compact

AcceptedEvents == {p \in Places : p[2] \in DOMAIN accepted[p[1]]}
SentAt(p) == Sent(p[1], accepted[p[1]][p[2]].index)
KeptAt(p) == accepted[p[1]][p[2]].event
Repaired(label) ==
  Cardinality({p \in AcceptedEvents : label \in RepairsOf(SentAt(p), KeptAt(p))})
Replaced == Cardinality({p \in AcceptedEvents : TimeReplaced(SentAt(p), KeptAt(p))})

\* No value the client sent is changed, and no id and no instant made up,
\* without a counter saying so, one count per field, repair and event.  Blanks
\* around a value, the case of a code and white space in properties are not
\* part of it.  Neither are a device, a currency or properties the client left
\* out: those are filled in and not counted, though observer.go:39-40 calls that
\* a value defaulted.
NoSilentRepair ==
  /\ \A label \in RepairedFields \X Repairs :
       Repaired(label) <= repairedTotal[label]
  /\ Replaced <= skewTotal["future"] + skewTotal["past"]
  /\ \A p \in AcceptedEvents : UncountedKept(SentAt(p), KeptAt(p))

\* observer.go: FieldRepaired "reports one field corrected instead of the event
\* being rejected".  So between two events the counter is what was repaired in
\* accepted events.  Refuted by an event a later rule rejects.
RepairsAreOfKeptEvents ==
  (\A r \in Requests : rule[r] = 0) =>
    \A label \in RepairedFields \X Repairs :
      repairedTotal[label] = Repaired(label)

\* limits.go:39-40: MaxPropertiesBytes is "measured on the bytes that will be
\* stored".  So an object is too large only if what would be stored of it is.
\* Refuted: ruleProperties compares the bytes as sent, before json.Compact.
TooLargeAsStored ==
  \A r \in Requests : \A k \in DOMAIN rejected[r] :
    rejected[r][k].reason = "properties_too_large" =>
      Sent(r, rejected[r][k].index).props.compact > Limits.MaxPropertiesBytes

=============================================================================
