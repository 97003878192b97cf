----------------------------- MODULE EventRules -----------------------------
(***************************************************************************)
(* The rules of internal/validate (rules.go) as operators.  A rule reads   *)
(* the client's event, writes its part of the stored event, and passes or  *)
(* names a reason.                                                         *)
(*                                                                         *)
(* Values are abstracted to what the rules tell apart: a text by its       *)
(* length in characters after trimming, an enumeration by whether it is    *)
(* absent, in the vocabulary or outside it, an instant by the hour, and a  *)
(* URL by its length, whether sanitizeURL takes something out of it, and   *)
(* the length of what is then left.                                        *)
(***************************************************************************)
EXTENDS Integers

Empty == "empty"  \* the empty string

CONSTANT Configured  \* Options.Limits: what the caller asked for, 0 if nothing

\* limits.go: the shipped contract, in events, characters, bytes and hours.
DefaultLimits == [MaxEventsPerRequest |-> 500,
                  MaxEventNameLen |-> 64,
                  MaxUserIDLen |-> 128, MaxSessionIDLen |-> 128,
                  MaxPageLen |-> 2048, MaxReferrerLen |-> 2048,
                  MaxLabelLen |-> 64, MaxCityLen |-> 128,
                  MaxPropertiesBytes |-> 8192,
                  RevenuePrecision |-> 18, RevenueScale |-> 4,
                  FutureSkew |-> 24, PastSkew |-> 720]

ASSUME ConfiguredAssumption == Configured \in [DOMAIN DefaultLimits -> Int]

\* Faulty: only an unset bound falls back.
OrDefaultUnset(value, fallback) == IF value = 0 THEN fallback ELSE value

\* Unset and negative bounds fall back.
OrDefault(value, fallback) == IF value <= 0 THEN fallback ELSE value

\* Limits.withDefaults
Limits == [l \in DOMAIN DefaultLimits |-> OrDefault(Configured[l], DefaultLimits[l])]

TextFields == {"user_id", "session_id", "utm_source", "utm_medium",
               "utm_campaign", "city", "os", "browser"}
UrlFields == {"page", "referrer"}

\* The bound each rule passes for the fields it owns.
TextLimit == [f \in TextFields |->
                CASE f = "user_id" -> Limits.MaxUserIDLen
                  [] f = "session_id" -> Limits.MaxSessionIDLen
                  [] f = "city" -> Limits.MaxCityLen
                  [] OTHER -> Limits.MaxLabelLen]
UrlLimit == [f \in UrlFields |-> IF f = "page" THEN Limits.MaxPageLen
                                               ELSE Limits.MaxReferrerLen]

\* What model.Event can decode to.  Compaction takes white space out, and the
\* shortest object is {}.
Events ==
  {e \in [name : [shape : {"absent", "snake", "other"}, len : Nat],
          id : {"absent", "uuid", "malformed"},
          time : [shape : {"absent", "unparseable", "instant"}, at : Int],
          text : [TextFields -> Nat],
          url : [UrlFields -> [len : Nat, sensitive : BOOLEAN, kept : Nat]],
          country : {"absent", "code", "other"}, device : {"absent", "known", "other"},
          revenue : {"absent", "fits", "unfit"}, currency : {"absent", "code", "other"},
          props : [shape : {"absent", "object", "other"}, raw : Nat, compact : Nat]] :
     /\ e.name.shape = "absent" => e.name.len = 0
     /\ e.name.shape = "snake" => e.name.len >= 1
     /\ e.props.shape = "absent" => e.props.raw = 0
     /\ e.props.shape = "object" => 2 <= e.props.compact /\ e.props.compact <= e.props.raw}

\* model.Event with every field absent, which is also what JSON null decodes to.
EmptyEvent == [name |-> [shape |-> "absent", len |-> 0],
               id |-> "absent",
               time |-> [shape |-> "absent", at |-> 0],
               text |-> [f \in TextFields |-> 0],
               url |-> [f \in UrlFields |-> [len |-> 0, sensitive |-> FALSE, kept |-> 0]],
               country |-> "absent", device |-> "absent",
               revenue |-> "absent", currency |-> "absent",
               props |-> [shape |-> "absent", raw |-> 0, compact |-> 0]]

\* model.ValidatedEvent before any rule ran: only the site is set.
Blank(site) == [site |-> site, name |-> 0, id |-> "none", time |-> 0,
                text |-> [f \in TextFields |-> 0],
                url |-> [f \in UrlFields |-> [len |-> 0, sensitive |-> FALSE]],
                country |-> Empty, device |-> Empty, revenue |-> Empty, currency |-> Empty,
                props |-> 0]

-----------------------------------------------------------------------------
(* What a rule answers *)

Pass(out, repairs) == [reason |-> "none", out |-> out, repairs |-> repairs,
                       skew |-> "none"]
Reject(reason, out) == [reason |-> reason, out |-> out, repairs |-> {},
                        skew |-> "none"]
Skewed(out, direction) == [Pass(out, {}) EXCEPT !.skew = direction]

\* truncateRunes: a limit of zero or less is no limit.
Exceeds(len, limit) == limit > 0 /\ len > limit
Cut(len, limit) == IF Exceeds(len, limit) THEN limit ELSE len

\* Validator.bounded over the fields one rule owns.
BoundedText(in, out, fields) ==
  [f \in TextFields |-> IF f \in fields THEN Cut(in.text[f], TextLimit[f])
                                        ELSE out.text[f]]
Truncated(in, fields) ==
  {<<f, "truncated">> : f \in {g \in fields : Exceeds(in.text[g], TextLimit[g])}}

When(holds, repair) == IF holds THEN {repair} ELSE {}

\* Faulty: one repair is reported even when two were made.
UrlRepairsOnlyOne(f, url) ==
  IF url.sensitive THEN {<<f, "stripped">>}
  ELSE When(Exceeds(url.kept, UrlLimit[f]), <<f, "truncated">>)

\* Validator.sanitizedURL: what is sensitive goes first, the rest is bounded.
UrlRepairs(f, url) == When(url.sensitive, <<f, "stripped">>)
                      \union When(Exceeds(url.kept, UrlLimit[f]), <<f, "truncated">>)
SanitizedURL(f, url) == [len |-> Cut(url.kept, UrlLimit[f]), sensitive |-> FALSE]

-----------------------------------------------------------------------------
(* The rules, in the order of eventRules *)

RuleEventName(in, out) ==
  CASE in.name.shape = "absent" -> Reject("missing_event_name", out)
    [] in.name.shape = "other" -> Reject("invalid_event_name", out)
    [] in.name.shape = "snake" /\ in.name.len > Limits.MaxEventNameLen
         -> Reject("invalid_event_name", out)
    [] OTHER -> Pass([out EXCEPT !.name = in.name.len], {})

\* Faulty: a client's id is replaced, so a retry is stored twice.
RuleEventIDReplaced(in, out, fresh) ==
  CASE in.id = "absent" /\ fresh ->
         Pass([out EXCEPT !.id = "server"], {<<"event_id", "defaulted">>})
    [] in.id = "uuid" -> Pass([out EXCEPT !.id = "server"], {})
    [] OTHER -> Reject("invalid_event_id", out)

\* fresh: uuid.NewV7 had the entropy it needs.
RuleEventID(in, out, fresh) ==
  CASE in.id = "absent" /\ fresh ->
         Pass([out EXCEPT !.id = "server"], {<<"event_id", "defaulted">>})
    [] in.id = "uuid" -> Pass([out EXCEPT !.id = "client"], {})
    [] OTHER -> Reject("invalid_event_id", out)

\* Faulty: a clock that runs behind is believed.
RuleTimestampNoPast(in, out, now) ==
  CASE in.time.shape = "absent" ->
         Pass([out EXCEPT !.time = now], {<<"timestamp", "defaulted">>})
    [] in.time.shape = "unparseable" -> Reject("invalid_timestamp", out)
    [] in.time.shape = "instant" /\ in.time.at > now + Limits.FutureSkew ->
         Skewed([out EXCEPT !.time = now], "future")
    [] OTHER -> Pass([out EXCEPT !.time = in.time.at], {})

RuleTimestamp(in, out, now) ==
  CASE in.time.shape = "absent" ->
         Pass([out EXCEPT !.time = now], {<<"timestamp", "defaulted">>})
    [] in.time.shape = "unparseable" -> Reject("invalid_timestamp", out)
    [] in.time.shape = "instant" /\ in.time.at > now + Limits.FutureSkew ->
         Skewed([out EXCEPT !.time = now], "future")
    [] in.time.shape = "instant" /\ in.time.at < now - Limits.PastSkew ->
         Skewed([out EXCEPT !.time = now], "past")
    [] OTHER -> Pass([out EXCEPT !.time = in.time.at], {})

RuleIdentity(in, out) ==
  LET own == {"user_id", "session_id"}
  IN  Pass([out EXCEPT !.text = BoundedText(in, out, own)], Truncated(in, own))

RuleUrl(f, in, out) ==
  Pass([out EXCEPT !.url[f] = SanitizedURL(f, in.url[f])], UrlRepairs(f, in.url[f]))
RulePage(in, out) == RuleUrl("page", in, out)
RuleReferrer(in, out) == RuleUrl("referrer", in, out)

RuleUTM(in, out) ==
  LET own == {"utm_source", "utm_medium", "utm_campaign"}
  IN  Pass([out EXCEPT !.text = BoundedText(in, out, own)], Truncated(in, own))

\* A country or device outside its vocabulary is cleared for enrichment.
RuleAudience(in, out) ==
  LET own == {"city", "os", "browser"}
  IN  Pass([out EXCEPT !.text = BoundedText(in, out, own),
                       !.country = IF in.country = "code" THEN "code" ELSE Empty,
                       !.device = IF in.device = "known" THEN "known" ELSE "unknown"],
           Truncated(in, own)
           \union When(in.country = "other", <<"country", "stripped">>)
           \union When(in.device = "other", <<"device", "normalised">>))

\* The only optional field whose fault costs the event is the money.
RuleCommerce(in, out) ==
  IF in.revenue = "unfit" THEN Reject("invalid_revenue", out)
  ELSE Pass([out EXCEPT !.revenue = IF in.revenue = "fits" THEN "literal" ELSE Empty,
                        !.currency = IF in.currency = "code" THEN "code" ELSE "VND"],
            When(in.currency = "other", <<"currency", "normalised">>))

\* Absent (or null) is stored as {}; the bound is on the bytes as sent.
RuleProperties(in, out) ==
  CASE in.props.shape = "absent" -> Pass([out EXCEPT !.props = 2], {})
    [] in.props.shape # "absent" /\ in.props.raw > Limits.MaxPropertiesBytes ->
         Reject("properties_too_large", out)
    [] in.props.shape = "other" /\ in.props.raw <= Limits.MaxPropertiesBytes ->
         Reject("invalid_properties", out)
    [] OTHER -> Pass([out EXCEPT !.props = in.props.compact], {})

NumRules == 10

ApplyRule(n, in, out, now, fresh) ==
  CASE n = 1 -> RuleEventName(in, out)
    [] n = 2 -> RuleEventID(in, out, fresh)
    [] n = 3 -> RuleTimestamp(in, out, now)
    [] n = 4 -> RuleIdentity(in, out)
    [] n = 5 -> RulePage(in, out)
    [] n = 6 -> RuleReferrer(in, out)
    [] n = 7 -> RuleUTM(in, out)
    [] n = 8 -> RuleAudience(in, out)
    [] n = 9 -> RuleCommerce(in, out)
    [] n = 10 -> RuleProperties(in, out)

=============================================================================
