---------------------------- MODULE IngestProofs ----------------------------
(***************************************************************************)
(* Proofs about IngestValidation, for any set of requests, any batches and *)
(* any configured limits: first what the ten rules make of one event, then *)
(* what the requests make of their batches.                                *)
(***************************************************************************)
EXTENDS IngestValidation, SequenceTheorems, FiniteSetTheorems, TLAPS

-----------------------------------------------------------------------------
(* Limits *)

\* No bound is zero or negative, whatever was configured.
LEMMA LimitsPositive ==
  /\ Limits.MaxEventsPerRequest \in Nat \ {0} /\ Limits.MaxEventNameLen \in Nat \ {0}
  /\ Limits.MaxUserIDLen \in Nat \ {0} /\ Limits.MaxSessionIDLen \in Nat \ {0}
  /\ Limits.MaxPageLen \in Nat \ {0} /\ Limits.MaxReferrerLen \in Nat \ {0}
  /\ Limits.MaxLabelLen \in Nat \ {0} /\ Limits.MaxCityLen \in Nat \ {0}
  /\ Limits.MaxPropertiesBytes \in Nat \ {0}
  /\ Limits.FutureSkew \in Nat \ {0} /\ Limits.PastSkew \in Nat \ {0}
BY ConfiguredAssumption DEF Limits, OrDefault, DefaultLimits

LEMMA FieldLimits ==
  /\ \A f \in TextFields : TextLimit[f] \in Nat \ {0}
  /\ \A f \in UrlFields : UrlLimit[f] \in Nat \ {0}
BY LimitsPositive DEF TextLimit, UrlLimit, TextFields, UrlFields

\* What validation goes by is what was configured, where that is a bound.
LEMMA LimitsBound ==
  /\ \A l \in DOMAIN DefaultLimits : Limits[l] = Bound(l)
  /\ \A f \in TextFields : TextLimit[f] = Bound(ColumnBound[f])
  /\ \A f \in UrlFields : UrlLimit[f] = Bound(ColumnBound[f])
<1>1. \A l \in DOMAIN DefaultLimits : Limits[l] = Bound(l)
  <2>1. DefaultLimits \in [DOMAIN DefaultLimits -> Int]
    BY DEF DefaultLimits
  <2> QED
    BY <2>1, ConfiguredAssumption DEF Limits, OrDefault, Bound
<1>2. /\ Limits["MaxUserIDLen"] = Bound("MaxUserIDLen")
      /\ Limits["MaxSessionIDLen"] = Bound("MaxSessionIDLen")
      /\ Limits["MaxLabelLen"] = Bound("MaxLabelLen")
      /\ Limits["MaxCityLen"] = Bound("MaxCityLen")
      /\ Limits["MaxPageLen"] = Bound("MaxPageLen")
      /\ Limits["MaxReferrerLen"] = Bound("MaxReferrerLen")
  BY <1>1 DEF DefaultLimits
<1> QED
  BY <1>1, <1>2 DEF TextLimit, UrlLimit, ColumnBound, TextFields, UrlFields

\* IngestContract has the limits and the helpers of EventRules.
LEMMA SameLimits ==
  /\ Contract!Limits = Limits
  /\ Contract!TextLimit = TextLimit
  /\ Contract!UrlLimit = UrlLimit
  /\ Contract!TextFields = TextFields
  /\ Contract!UrlFields = UrlFields
  /\ Contract!EmptyEvent = EmptyEvent
  /\ Contract!Empty = Empty
<1>1. Contract!Limits = Limits
  BY DEF Contract!Limits, Limits, Contract!OrDefault, OrDefault,
         Contract!DefaultLimits, DefaultLimits
<1>2. Contract!TextFields = TextFields /\ Contract!UrlFields = UrlFields
      /\ Contract!Empty = Empty
  BY DEF Contract!TextFields, TextFields, Contract!UrlFields, UrlFields,
         Contract!Empty, Empty
<1>3. Contract!TextLimit = TextLimit /\ Contract!UrlLimit = UrlLimit
  BY <1>1, <1>2 DEF Contract!TextLimit, TextLimit, Contract!UrlLimit, UrlLimit
<1>4. Contract!EmptyEvent = EmptyEvent
  BY <1>2 DEF Contract!EmptyEvent, EmptyEvent
<1> QED
  BY <1>1, <1>2, <1>3, <1>4

-----------------------------------------------------------------------------
(* Progress through the rules *)

\* The rule that writes a text.
TextRule == [f \in TextFields |->
               IF f \in {"user_id", "session_id"} THEN 4
               ELSE IF f \in {"utm_source", "utm_medium", "utm_campaign"} THEN 7 ELSE 8]

\* The rules before n have written their part of the stored event, at some
\* moment from then to now.
Built(n, e, o, site, then, now) ==
  /\ o \in ValidatedEvents
  /\ o.site = site
  /\ n > 1 => o.name = e.name.len
  /\ n > 2 => o.id = IF e.id = "uuid" THEN "client" ELSE "server"
  /\ n > 3 => \E t \in then..now : o.time = IF Contract!InWindow(e, t) THEN e.time.at ELSE t
  /\ \A f \in TextFields : n > TextRule[f] => o.text[f] = Cut(e.text[f], TextLimit[f])
  /\ n > 5 => o.url["page"] = SanitizedURL("page", e.url["page"])
  /\ n > 6 => o.url["referrer"] = SanitizedURL("referrer", e.url["referrer"])
  /\ n > 8 => o.country = IF e.country = "code" THEN "code" ELSE Empty
  /\ n > 8 => o.device = IF e.device = "known" THEN "known" ELSE "unknown"
  /\ n > 9 => o.revenue = IF e.revenue = "fits" THEN "literal" ELSE Empty
  /\ n > 9 => o.currency = IF e.currency = "code" THEN "code" ELSE "VND"
  /\ n > 10 => o.props = IF e.props.shape = "absent" THEN 2 ELSE e.props.compact

\* They have found no fault.
Clean(n, e) ==
  /\ n > 1 => e.name.shape = "snake" /\ e.name.len <= Limits.MaxEventNameLen
  /\ n > 2 => e.id # "malformed"
  /\ n > 3 => e.time.shape # "unparseable"
  /\ n > 9 => e.revenue # "unfit"
  /\ n > 10 => e.props.shape # "other" /\ e.props.raw <= Limits.MaxPropertiesBytes

\* What a rule owes: it passes the event on with its part written, or names a
\* fault the event has.
Keeps(n, e, o, site, then, now, done) ==
  IF done.reason = "none"
  THEN Built(n + 1, e, done.out, site, then, now) /\ Clean(n + 1, e)
  ELSE done.reason \in Contract!PossibleFaults(e) /\ done.out = o

LEMMA EventNameKeeps ==
  ASSUME NEW e \in Events, NEW o, NEW site, NEW then \in Int, NEW now \in Int
  PROVE  Built(1, e, o, site, then, now) /\ Clean(1, e) =>
           Keeps(1, e, o, site, then, now, RuleEventName(e, o))
<1> SUFFICES ASSUME Built(1, e, o, site, then, now), Clean(1, e)
             PROVE  Keeps(1, e, o, site, then, now, RuleEventName(e, o))
  OBVIOUS
<1>1. /\ e.name.shape \in {"absent", "snake", "other"} /\ e.name.len \in Nat
      /\ e.name.shape = "absent" => e.name.len = 0
  BY DEF Events
<1>2. CASE e.name.shape = "snake" /\ e.name.len <= Limits.MaxEventNameLen
  <2>1. RuleEventName(e, o) = Pass([o EXCEPT !.name = e.name.len], {})
    BY <1>1, <1>2, LimitsPositive DEF RuleEventName
  <2>2. Built(2, e, [o EXCEPT !.name = e.name.len], site, then, now)
    BY <1>1 DEF Built, ValidatedEvents, TextRule
  <2> QED
    BY <1>2, <2>1, <2>2 DEF Keeps, Clean, Pass
<1>3. CASE ~(e.name.shape = "snake" /\ e.name.len <= Limits.MaxEventNameLen)
  BY <1>1, <1>3, LimitsPositive, SameLimits
  DEF RuleEventName, Keeps, Reject, Contract!PossibleFaults, Contract!Faults, Contract!When
<1> QED
  BY <1>2, <1>3

LEMMA EventIDKeeps ==
  ASSUME NEW e \in Events, NEW o, NEW site, NEW then \in Int, NEW now \in Int,
         NEW fresh \in BOOLEAN
  PROVE  Built(2, e, o, site, then, now) /\ Clean(2, e) =>
           Keeps(2, e, o, site, then, now, RuleEventID(e, o, fresh))
<1> SUFFICES ASSUME Built(2, e, o, site, then, now), Clean(2, e)
             PROVE  Keeps(2, e, o, site, then, now, RuleEventID(e, o, fresh))
  OBVIOUS
<1>1. e.id \in {"absent", "uuid", "malformed"}
  BY DEF Events
<1>2. CASE e.id = "uuid"
  <2>1. RuleEventID(e, o, fresh) = Pass([o EXCEPT !.id = "client"], {})
    BY <1>2 DEF RuleEventID
  <2>2. Built(3, e, [o EXCEPT !.id = "client"], site, then, now)
    BY <1>2 DEF Built, ValidatedEvents, TextRule
  <2> QED
    BY <1>2, <2>1, <2>2 DEF Keeps, Clean, Pass
<1>3. CASE e.id = "absent" /\ fresh
  <2>1. /\ RuleEventID(e, o, fresh).reason = "none"
        /\ RuleEventID(e, o, fresh).out = [o EXCEPT !.id = "server"]
    BY <1>3 DEF RuleEventID, Pass
  <2>2. Built(3, e, [o EXCEPT !.id = "server"], site, then, now)
    BY <1>3 DEF Built, ValidatedEvents, TextRule
  <2> QED
    <3>1. /\ Built(2 + 1, e, [o EXCEPT !.id = "server"], site, then, now)
          /\ Clean(2 + 1, e)
      BY <1>3, <2>2 DEF Clean
    <3> QED
      BY <2>1, <3>1, Zenon DEF Keeps
<1>4. CASE e.id = "malformed" \/ (e.id = "absent" /\ ~fresh)
  BY <1>1, <1>4
  DEF RuleEventID, Keeps, Reject, Contract!PossibleFaults, Contract!Faults, Contract!When
<1> QED
  BY <1>1, <1>2, <1>3, <1>4

LEMMA TimestampKeeps ==
  ASSUME NEW e \in Events, NEW o, NEW site, NEW then \in Int, NEW now \in Int,
         then <= now
  PROVE  Built(3, e, o, site, then, now) /\ Clean(3, e) =>
           Keeps(3, e, o, site, then, now, RuleTimestamp(e, o, now))
<1> SUFFICES ASSUME Built(3, e, o, site, then, now), Clean(3, e)
             PROVE  Keeps(3, e, o, site, then, now, RuleTimestamp(e, o, now))
  OBVIOUS
<1>1. e.time.shape \in {"absent", "unparseable", "instant"} /\ e.time.at \in Int
  BY DEF Events
<1>2. Limits.FutureSkew \in Nat /\ Limits.PastSkew \in Nat /\ now \in then..now
  BY LimitsPositive
<1>3. CASE e.time.shape = "unparseable"
  BY <1>1, <1>3
  DEF RuleTimestamp, Keeps, Reject, Contract!PossibleFaults, Contract!Faults, Contract!When
<1>4. CASE e.time.shape # "unparseable"
  <2> DEFINE stamp == IF Contract!InWindow(e, now) THEN e.time.at ELSE now
  <2>1. RuleTimestamp(e, o, now).reason = "none"
    BY <1>1, <1>4 DEF RuleTimestamp, Pass, Skewed
  <2>2. RuleTimestamp(e, o, now).out = [o EXCEPT !.time = stamp]
    BY <1>1, <1>2, <1>4, SameLimits
    DEF RuleTimestamp, Pass, Skewed, Contract!InWindow
  <2>3. Built(4, e, [o EXCEPT !.time = stamp], site, then, now)
    BY <1>1, <1>2 DEF Built, ValidatedEvents, TextRule
  <2> QED
    BY <1>4, <2>1, <2>2, <2>3 DEF Keeps, Clean
<1> QED
  BY <1>3, <1>4

LEMMA IdentityKeeps ==
  ASSUME NEW e \in Events, NEW o, NEW site, NEW then \in Int, NEW now \in Int
  PROVE  Built(4, e, o, site, then, now) /\ Clean(4, e) =>
           Keeps(4, e, o, site, then, now, RuleIdentity(e, o))
<1> SUFFICES ASSUME Built(4, e, o, site, then, now), Clean(4, e)
             PROVE  Keeps(4, e, o, site, then, now, RuleIdentity(e, o))
  OBVIOUS
<1>1. /\ e.text \in [TextFields -> Nat] /\ o \in ValidatedEvents
  BY DEF Events, Built
<1> DEFINE text == BoundedText(e, o, {"user_id", "session_id"})
<1>2. text \in [TextFields -> Nat]
  BY <1>1, FieldLimits DEF BoundedText, Cut, Exceeds, ValidatedEvents
<1>3. \A f \in TextFields : 5 > TextRule[f] => text[f] = Cut(e.text[f], TextLimit[f])
  BY DEF BoundedText, TextRule
<1>4. RuleIdentity(e, o)
        = Pass([o EXCEPT !.text = text], Truncated(e, {"user_id", "session_id"}))
  BY DEF RuleIdentity
<1>5. Built(5, e, [o EXCEPT !.text = text], site, then, now)
  BY <1>2, <1>3 DEF Built, ValidatedEvents
<1> QED
  BY <1>4, <1>5 DEF Keeps, Clean, Pass

LEMMA PageKeeps ==
  ASSUME NEW e \in Events, NEW o, NEW site, NEW then \in Int, NEW now \in Int
  PROVE  Built(5, e, o, site, then, now) /\ Clean(5, e) =>
           Keeps(5, e, o, site, then, now, RulePage(e, o))
<1> SUFFICES ASSUME Built(5, e, o, site, then, now), Clean(5, e)
             PROVE  Keeps(5, e, o, site, then, now, RulePage(e, o))
  OBVIOUS
<1>1. /\ e.url \in [UrlFields -> [len : Nat, sensitive : BOOLEAN, kept : Nat]]
      /\ o \in ValidatedEvents
  BY DEF Events, Built
<1> DEFINE url == [o.url EXCEPT !["page"] = SanitizedURL("page", e.url["page"])]
<1>2. url \in [UrlFields -> [len : Nat, sensitive : BOOLEAN]]
  BY <1>1, FieldLimits DEF SanitizedURL, Cut, Exceeds, ValidatedEvents, UrlFields
<1>3. /\ url["page"] = SanitizedURL("page", e.url["page"])
      /\ \A f \in UrlFields \ {"page"} : url[f] = o.url[f]
  BY <1>1 DEF ValidatedEvents, UrlFields
<1>4. /\ RulePage(e, o).reason = "none"
      /\ RulePage(e, o).out = [o EXCEPT !.url = url]
  BY DEF RulePage, RuleUrl, Pass
<1>5. Built(6, e, [o EXCEPT !.url = url], site, then, now)
  BY <1>2, <1>3 DEF Built, ValidatedEvents, UrlFields, TextRule
<1> QED
  BY <1>4, <1>5 DEF Keeps, Clean

LEMMA ReferrerKeeps ==
  ASSUME NEW e \in Events, NEW o, NEW site, NEW then \in Int, NEW now \in Int
  PROVE  Built(6, e, o, site, then, now) /\ Clean(6, e) =>
           Keeps(6, e, o, site, then, now, RuleReferrer(e, o))
<1> SUFFICES ASSUME Built(6, e, o, site, then, now), Clean(6, e)
             PROVE  Keeps(6, e, o, site, then, now, RuleReferrer(e, o))
  OBVIOUS
<1>1. /\ e.url \in [UrlFields -> [len : Nat, sensitive : BOOLEAN, kept : Nat]]
      /\ o \in ValidatedEvents
  BY DEF Events, Built
<1> DEFINE url == [o.url EXCEPT !["referrer"] = SanitizedURL("referrer", e.url["referrer"])]
<1>2. url \in [UrlFields -> [len : Nat, sensitive : BOOLEAN]]
  BY <1>1, FieldLimits DEF SanitizedURL, Cut, Exceeds, ValidatedEvents, UrlFields
<1>3. /\ url["referrer"] = SanitizedURL("referrer", e.url["referrer"])
      /\ \A f \in UrlFields \ {"referrer"} : url[f] = o.url[f]
  BY <1>1 DEF ValidatedEvents, UrlFields
<1>4. /\ RuleReferrer(e, o).reason = "none"
      /\ RuleReferrer(e, o).out = [o EXCEPT !.url = url]
  BY DEF RuleReferrer, RuleUrl, Pass
<1>5. Built(7, e, [o EXCEPT !.url = url], site, then, now)
  BY <1>2, <1>3 DEF Built, ValidatedEvents, UrlFields, TextRule
<1> QED
  BY <1>4, <1>5 DEF Keeps, Clean

LEMMA UTMKeeps ==
  ASSUME NEW e \in Events, NEW o, NEW site, NEW then \in Int, NEW now \in Int
  PROVE  Built(7, e, o, site, then, now) /\ Clean(7, e) =>
           Keeps(7, e, o, site, then, now, RuleUTM(e, o))
<1> SUFFICES ASSUME Built(7, e, o, site, then, now), Clean(7, e)
             PROVE  Keeps(7, e, o, site, then, now, RuleUTM(e, o))
  OBVIOUS
<1>1. e.text \in [TextFields -> Nat] /\ o \in ValidatedEvents
  BY DEF Events, Built
<1> DEFINE own == {"utm_source", "utm_medium", "utm_campaign"}
           text == BoundedText(e, o, own)
<1>2. text \in [TextFields -> Nat]
  BY <1>1, FieldLimits DEF BoundedText, Cut, Exceeds, ValidatedEvents
<1>3. \A f \in TextFields : 8 > TextRule[f] => text[f] = Cut(e.text[f], TextLimit[f])
  BY DEF BoundedText, TextRule, Built
<1>4. RuleUTM(e, o) = Pass([o EXCEPT !.text = text], Truncated(e, own))
  BY DEF RuleUTM
<1>5. Built(8, e, [o EXCEPT !.text = text], site, then, now)
  BY <1>2, <1>3 DEF Built, ValidatedEvents
<1> QED
  BY <1>4, <1>5 DEF Keeps, Clean, Pass

LEMMA AudienceKeeps ==
  ASSUME NEW e \in Events, NEW o, NEW site, NEW then \in Int, NEW now \in Int
  PROVE  Built(8, e, o, site, then, now) /\ Clean(8, e) =>
           Keeps(8, e, o, site, then, now, RuleAudience(e, o))
<1> SUFFICES ASSUME Built(8, e, o, site, then, now), Clean(8, e)
             PROVE  Keeps(8, e, o, site, then, now, RuleAudience(e, o))
  OBVIOUS
<1>1. e.text \in [TextFields -> Nat] /\ o \in ValidatedEvents
  BY DEF Events, Built
<1> DEFINE text == BoundedText(e, o, {"city", "os", "browser"})
           country == IF e.country = "code" THEN "code" ELSE Empty
           device == IF e.device = "known" THEN "known" ELSE "unknown"
           kept == [o EXCEPT !.text = text, !.country = country, !.device = device]
<1>2. text \in [TextFields -> Nat]
  BY <1>1, FieldLimits DEF BoundedText, Cut, Exceeds, ValidatedEvents
<1>3. \A f \in TextFields : 9 > TextRule[f] => text[f] = Cut(e.text[f], TextLimit[f])
  <2>1. \A f \in TextFields : 8 > TextRule[f] => o.text[f] = Cut(e.text[f], TextLimit[f])
    BY DEF Built
  <2> QED
    BY <2>1 DEF BoundedText, TextRule, TextFields
<1>4. RuleAudience(e, o).reason = "none" /\ RuleAudience(e, o).out = kept
  BY DEF RuleAudience, Pass
<1>5. Built(9, e, kept, site, then, now)
  <2>1. /\ kept \in ValidatedEvents /\ kept.site = o.site /\ kept.name = o.name
        /\ kept.id = o.id /\ kept.time = o.time /\ kept.url = o.url
        /\ kept.text = text /\ kept.country = country /\ kept.device = device
    BY <1>1, <1>2 DEF ValidatedEvents
  <2> HIDE DEF kept, text
  <2> QED
    BY <1>3, <2>1 DEF Built
<1> QED
  BY <1>4, <1>5 DEF Keeps, Clean

LEMMA CommerceKeeps ==
  ASSUME NEW e \in Events, NEW o, NEW site, NEW then \in Int, NEW now \in Int
  PROVE  Built(9, e, o, site, then, now) /\ Clean(9, e) =>
           Keeps(9, e, o, site, then, now, RuleCommerce(e, o))
<1> SUFFICES ASSUME Built(9, e, o, site, then, now), Clean(9, e)
             PROVE  Keeps(9, e, o, site, then, now, RuleCommerce(e, o))
  OBVIOUS
<1> DEFINE revenue == IF e.revenue = "fits" THEN "literal" ELSE Empty
           currency == IF e.currency = "code" THEN "code" ELSE "VND"
           kept == [o EXCEPT !.revenue = revenue, !.currency = currency]
<1>1. CASE e.revenue = "unfit"
  BY <1>1
  DEF RuleCommerce, Keeps, Reject, Contract!PossibleFaults, Contract!Faults, Contract!When
<1>2. CASE e.revenue # "unfit"
  <2>1. RuleCommerce(e, o).reason = "none" /\ RuleCommerce(e, o).out = kept
    BY <1>2 DEF RuleCommerce, Pass
  <2>2. Built(10, e, kept, site, then, now)
    <3>1. o \in ValidatedEvents
      BY DEF Built
    <3>2. /\ kept \in ValidatedEvents /\ kept.site = o.site /\ kept.name = o.name
          /\ kept.id = o.id /\ kept.time = o.time /\ kept.text = o.text
          /\ kept.url = o.url /\ kept.country = o.country /\ kept.device = o.device
          /\ kept.revenue = revenue /\ kept.currency = currency
      BY <3>1 DEF ValidatedEvents
    <3> HIDE DEF kept
    <3>3. \A f \in TextFields : TextRule[f] \in {4, 7, 8}
      BY DEF TextRule
    <3> QED
      BY <3>2, <3>3 DEF Built
  <2> QED
    BY <1>2, <2>1, <2>2 DEF Keeps, Clean
<1> QED
  BY <1>1, <1>2

LEMMA PropertiesKeeps ==
  ASSUME NEW e \in Events, NEW o, NEW site, NEW then \in Int, NEW now \in Int
  PROVE  Built(10, e, o, site, then, now) /\ Clean(10, e) =>
           Keeps(10, e, o, site, then, now, RuleProperties(e, o))
<1> SUFFICES ASSUME Built(10, e, o, site, then, now), Clean(10, e)
             PROVE  Keeps(10, e, o, site, then, now, RuleProperties(e, o))
  OBVIOUS
<1>1. /\ e.props.shape \in {"absent", "object", "other"}
      /\ e.props.raw \in Nat /\ e.props.compact \in Nat
      /\ e.props.shape = "absent" => e.props.raw = 0
  BY DEF Events
<1>2. Limits.MaxPropertiesBytes \in Nat /\ 0 <= Limits.MaxPropertiesBytes
  BY LimitsPositive
<1> DEFINE props == IF e.props.shape = "absent" THEN 2 ELSE e.props.compact
<1>3. CASE e.props.shape = "other" \/ e.props.raw > Limits.MaxPropertiesBytes
  BY <1>1, <1>2, <1>3, SameLimits
  DEF RuleProperties, Keeps, Reject, Contract!PossibleFaults, Contract!Faults, Contract!When
<1>4. CASE e.props.shape # "other" /\ e.props.raw <= Limits.MaxPropertiesBytes
  <2>1. RuleProperties(e, o) = Pass([o EXCEPT !.props = props], {})
    BY <1>1, <1>2, <1>4 DEF RuleProperties
  <2>2. Built(11, e, [o EXCEPT !.props = props], site, then, now)
    <3> DEFINE kept == [o EXCEPT !.props = props]
    <3>1. o \in ValidatedEvents /\ props \in Nat
      BY <1>1 DEF Built
    <3>2. /\ kept \in ValidatedEvents /\ kept.site = o.site /\ kept.name = o.name
          /\ kept.id = o.id /\ kept.time = o.time /\ kept.text = o.text
          /\ kept.url = o.url /\ kept.country = o.country /\ kept.device = o.device
          /\ kept.revenue = o.revenue /\ kept.currency = o.currency
          /\ kept.props = props
      BY <3>1 DEF ValidatedEvents
    <3> HIDE DEF kept
    <3>3. \A f \in TextFields : TextRule[f] \in {4, 7, 8}
      BY DEF TextRule
    <3>4. Built(11, e, kept, site, then, now)
      BY <3>2, <3>3 DEF Built
    <3> QED
      BY <3>4 DEF kept
  <2> QED
    BY <1>4, <2>1, <2>2 DEF Keeps, Clean, Pass
<1> QED
  BY <1>1, <1>2, <1>3, <1>4

-----------------------------------------------------------------------------
(* The rules together *)

\* Each rule in turn passes the event on, or names a fault of this event.
LEMMA RuleKeeps ==
  ASSUME NEW n \in 1..NumRules, NEW e \in Events, NEW o, NEW site,
         NEW then \in Int, NEW now \in Int, then <= now, NEW fresh \in BOOLEAN
  PROVE  Built(n, e, o, site, then, now) /\ Clean(n, e) =>
           Keeps(n, e, o, site, then, now, ApplyRule(n, e, o, now, fresh))
<1> SUFFICES ASSUME Built(n, e, o, site, then, now), Clean(n, e)
             PROVE  Keeps(n, e, o, site, then, now, ApplyRule(n, e, o, now, fresh))
  OBVIOUS
<1>1. CASE n = 1
  BY <1>1, EventNameKeeps DEF ApplyRule
<1>2. CASE n = 2
  <2>1. /\ n # 1 /\ n # 3 /\ n # 4 /\ n # 5 /\ n # 6 /\ n # 7 /\ n # 8
        /\ n # 9 /\ n # 10
    BY <1>2
  <2>2. ApplyRule(n, e, o, now, fresh) = RuleEventID(e, o, fresh)
    BY <1>2, <2>1, Zenon DEF ApplyRule
  <2> QED
    BY <1>2, <2>2, EventIDKeeps, Zenon
<1>3. CASE n = 3
  BY <1>3, TimestampKeeps DEF ApplyRule
<1>4. CASE n = 4
  BY <1>4, IdentityKeeps DEF ApplyRule
<1>5. CASE n = 5
  BY <1>5, PageKeeps DEF ApplyRule
<1>6. CASE n = 6
  BY <1>6, ReferrerKeeps DEF ApplyRule
<1>7. CASE n = 7
  BY <1>7, UTMKeeps DEF ApplyRule
<1>8. CASE n = 8
  BY <1>8, AudienceKeeps DEF ApplyRule
<1>9. CASE n = 9
  BY <1>9, CommerceKeeps DEF ApplyRule
<1>10. CASE n = 10
  BY <1>10, PropertiesKeeps DEF ApplyRule
<1> QED
  BY <1>1, <1>2, <1>3, <1>4, <1>5, <1>6, <1>7, <1>8, <1>9, <1>10 DEF NumRules

\* Before the first rule.
LEMMA BlankBuilt ==
  ASSUME NEW e, NEW site \in Sites, NEW then, NEW now
  PROVE  Built(1, e, Blank(site), site, then, now) /\ Clean(1, e)
<1>1. Blank(site) \in ValidatedEvents /\ Blank(site).site = site
  BY DEF Blank, ValidatedEvents
<1>2. \A f \in TextFields : TextRule[f] \in {4, 7, 8}
  BY DEF TextRule
<1> QED
  BY <1>1, <1>2 DEF Built, Clean

\* The clock moving on takes nothing back.
LEMMA BuiltLater ==
  ASSUME NEW n, NEW e, NEW o, NEW site, NEW then \in Int, NEW now \in Int,
         NEW later \in Int, now <= later
  PROVE  Built(n, e, o, site, then, now) => Built(n, e, o, site, then, later)
<1> SUFFICES ASSUME Built(n, e, o, site, then, now)
             PROVE  Built(n, e, o, site, then, later)
  OBVIOUS
<1>1. then..now \subseteq then..later
  OBVIOUS
<1> QED
  BY <1>1 DEF Built

\* After the last: the event is what the contract stores, and it has no fault.
LEMMA AllBuilt ==
  ASSUME NEW e \in Events, NEW o, NEW site \in Sites, NEW then \in Int, NEW now \in Int
  PROVE  Built(11, e, o, site, then, now) /\ Clean(11, e) =>
           /\ Contract!Faults(e) = {}
           /\ \E t \in then..now : o = Contract!Stored(e, site, t)
<1> SUFFICES ASSUME Built(11, e, o, site, then, now), Clean(11, e)
             PROVE  /\ Contract!Faults(e) = {}
                    /\ \E t \in then..now : o = Contract!Stored(e, site, t)
  OBVIOUS
<1>1. Contract!Faults(e) = {}
  <2>1. e.name.shape = "snake" /\ e.name.len \in Nat /\ e.props.raw \in Nat
    BY DEF Clean, Events
  <2> QED
    BY <2>1, LimitsPositive, SameLimits DEF Clean, Contract!Faults, Contract!When
<1>2. PICK t \in then..now : o.time = IF Contract!InWindow(e, t) THEN e.time.at ELSE t
  BY DEF Built
<1> DEFINE s == Contract!Stored(e, site, t)
<1>3. /\ s.site = site /\ s.name = e.name.len
      /\ s.id = IF e.id = "uuid" THEN "client" ELSE "server"
      /\ s.time = IF Contract!InWindow(e, t) THEN e.time.at ELSE t
      /\ s.country = IF e.country = "code" THEN "code" ELSE Empty
      /\ s.device = IF e.device = "known" THEN "known" ELSE "unknown"
      /\ s.revenue = IF e.revenue = "fits" THEN "literal" ELSE Empty
      /\ s.currency = IF e.currency = "code" THEN "code" ELSE "VND"
      /\ s.props = IF e.props.shape = "absent" THEN 2 ELSE e.props.compact
  BY SameLimits DEF Contract!Stored
<1>4. s.text = [f \in TextFields |-> Cut(e.text[f], TextLimit[f])]
  BY SameLimits DEF Contract!Stored, Contract!Cut, Contract!Exceeds, Cut, Exceeds
<1>5. s.url = [f \in UrlFields |-> SanitizedURL(f, e.url[f])]
  BY SameLimits DEF Contract!Stored, Contract!Cut, Contract!Exceeds, Cut, Exceeds, SanitizedURL
<1>6. o \in ValidatedEvents
  BY DEF Built
<1>7. /\ o.site = s.site /\ o.name = s.name /\ o.id = s.id /\ o.time = s.time
      /\ o.country = s.country /\ o.device = s.device /\ o.revenue = s.revenue
      /\ o.currency = s.currency /\ o.props = s.props
  BY <1>2, <1>3 DEF Built
<1>8. o.text = s.text
  <2>1. \A f \in TextFields : o.text[f] = Cut(e.text[f], TextLimit[f])
    <3>1. \A f \in TextFields : 11 > TextRule[f]
      BY DEF TextRule
    <3> QED
      BY <3>1 DEF Built
  <2>2. o.text \in [TextFields -> Nat]
    BY <1>6 DEF ValidatedEvents
  <2> QED
    BY <1>4, <2>1, <2>2
<1>9. o.url = s.url
  <2>1. \A f \in UrlFields : o.url[f] = SanitizedURL(f, e.url[f])
    BY DEF Built, UrlFields
  <2>2. o.url \in [UrlFields -> [len : Nat, sensitive : BOOLEAN]]
    BY <1>6 DEF ValidatedEvents
  <2> QED
    BY <1>5, <2>1, <2>2
<1>10. o = s
  <2>1. o = [site |-> o.site, name |-> o.name, id |-> o.id, time |-> o.time,
             text |-> o.text, url |-> o.url, country |-> o.country,
             device |-> o.device, revenue |-> o.revenue, currency |-> o.currency,
             props |-> o.props]
    BY <1>6 DEF ValidatedEvents
  <2>2. s = [site |-> s.site, name |-> s.name, id |-> s.id, time |-> s.time,
             text |-> s.text, url |-> s.url, country |-> s.country,
             device |-> s.device, revenue |-> s.revenue, currency |-> s.currency,
             props |-> s.props]
    BY DEF Contract!Stored
  <2> QED
    BY <1>7, <1>8, <1>9, <2>1, <2>2, Zenon
<1> QED
  BY <1>1, <1>10

\* A fault is a reason, and none of them is "none".
LEMMA FaultsAreReasons ==
  ASSUME NEW e
  PROVE  /\ Contract!PossibleFaults(e) \subseteq Reasons
         /\ "none" \notin Contract!PossibleFaults(e) /\ "none" \notin Reasons
BY DEF Contract!PossibleFaults, Contract!Faults, Contract!When, Reasons

\* The contract's stored event fits its columns, if the event had no fault.
LEMMA StoredFits ==
  ASSUME NEW e \in Events, NEW site, NEW t \in Int, Contract!Faults(e) = {}
  PROVE  LET s == Contract!Stored(e, site, t)
         IN  /\ s.site = site
             /\ s.name \in 1..Limits.MaxEventNameLen
             /\ s.id \in {"client", "server"}
             /\ \A f \in TextFields : s.text[f] <= TextLimit[f]
             /\ \A f \in UrlFields : s.url[f].len <= UrlLimit[f] /\ ~s.url[f].sensitive
             /\ s.currency # Empty /\ s.device # Empty
             /\ s.props = 2 \/ s.props \in 2..Limits.MaxPropertiesBytes
             /\ s.time \in (t - Limits.PastSkew)..(t + Limits.FutureSkew)
<1> DEFINE s == Contract!Stored(e, site, t)
<1>1. /\ e.name.shape = "snake" /\ e.name.len \in 1..Limits.MaxEventNameLen
      /\ e.props.shape \in {"absent", "object"}
      /\ e.props.shape = "object" => e.props.compact \in 2..Limits.MaxPropertiesBytes
  <2>1. /\ e.name.shape # "absent" /\ e.name.shape # "other"
        /\ ~(e.name.len > Limits.MaxEventNameLen)
        /\ ~(e.props.raw > Limits.MaxPropertiesBytes) /\ e.props.shape # "other"
    BY SameLimits DEF Contract!Faults, Contract!When
  <2>2. /\ e.name.shape \in {"absent", "snake", "other"} /\ e.name.len \in Nat
        /\ e.name.shape = "snake" => e.name.len >= 1
        /\ e.props.shape \in {"absent", "object", "other"}
        /\ e.props.raw \in Nat /\ e.props.compact \in Nat
        /\ e.props.shape = "object" =>
             2 <= e.props.compact /\ e.props.compact <= e.props.raw
    BY DEF Events
  <2> QED
    BY <2>1, <2>2, LimitsPositive
<1>2. /\ s.site = site /\ s.name = e.name.len
      /\ s.id \in {"client", "server"}
      /\ s.device \in {"known", "unknown"} /\ s.currency \in {"code", "VND"}
      /\ s.props = IF e.props.shape = "absent" THEN 2 ELSE e.props.compact
      /\ s.time = IF Contract!InWindow(e, t) THEN e.time.at ELSE t
  BY DEF Contract!Stored
<1>3. \A f \in TextFields : s.text[f] <= TextLimit[f]
  <2>1. e.text \in [TextFields -> Nat]
    BY DEF Events
  <2>2. \A f \in TextFields : s.text[f] = Cut(e.text[f], TextLimit[f])
    BY SameLimits DEF Contract!Stored, Contract!Cut, Contract!Exceeds, Cut, Exceeds
  <2> QED
    BY <2>1, <2>2, FieldLimits DEF Cut, Exceeds
<1>4. \A f \in UrlFields : s.url[f].len <= UrlLimit[f] /\ ~s.url[f].sensitive
  <2>1. e.url \in [UrlFields -> [len : Nat, sensitive : BOOLEAN, kept : Nat]]
    BY DEF Events
  <2>2. \A f \in UrlFields : s.url[f] = SanitizedURL(f, e.url[f])
    BY SameLimits DEF Contract!Stored, Contract!Cut, Contract!Exceeds, Cut, Exceeds, SanitizedURL
  <2>3. \A f \in UrlFields : LET url == SanitizedURL(f, e.url[f])
                            IN  url.len <= UrlLimit[f] /\ ~url.sensitive
    BY <2>1, FieldLimits DEF Cut, Exceeds, SanitizedURL
  <2> HIDE DEF s
  <2> QED
    BY <2>2, <2>3
<1>5. s.time \in (t - Limits.PastSkew)..(t + Limits.FutureSkew)
  <2>1. Limits.PastSkew \in Nat /\ Limits.FutureSkew \in Nat
    BY LimitsPositive
  <2> QED
    BY <1>2, <2>1, SameLimits DEF Contract!InWindow
<1> HIDE DEF s
<1>6. s.currency # Empty /\ s.device # Empty
  BY <1>2 DEF Empty
<1>7. s.props = 2 \/ s.props \in 2..Limits.MaxPropertiesBytes
  BY <1>1, <1>2
<1>8. s.name \in 1..Limits.MaxEventNameLen
  BY <1>1, <1>2
<1> QED
  BY <1>2, <1>3, <1>4, <1>5, <1>6, <1>7, <1>8 DEF s

-----------------------------------------------------------------------------
(* Requests *)

\* Where a request is in Validate.
Phase(r) ==
  /\ pc[r] = "idle" => input[r] = NoInput /\ at[r] = 1 /\ refused[r] = "none"
  /\ pc[r] # "idle" => input[r] \in Inputs /\ refused[r] = Refusal(input[r])
  /\ pc[r] # "validating" => rule[r] = 0
  /\ pc[r] = "validating" => /\ refused[r] = "none"
                             /\ at[r] \in 1..Len(input[r].events)
  /\ pc[r] = "answered" => at[r] = IF refused[r] = "none" THEN Len(input[r].events) + 1
                                                          ELSE 1
  /\ begun[r] <= clock

\* Every event before the current one is in one of the lists, and only once.
Split(list, other, current) ==
  /\ Indices(list) \intersect Indices(other) = {}
  /\ Indices(list) \union Indices(other) = 1..(current - 1)
  /\ Ascending(list) /\ Ascending(other)
  /\ Len(list) + Len(other) = current - 1
Lists(r) == Split(accepted[r], rejected[r], at[r])

\* The rules so far have made their part of what the contract stores, and
\* found no fault.
Progress(r) ==
  rule[r] > 0 =>
    /\ Raw(r).json # "malformed"
    /\ in[r] = Sent(r, at[r])
    /\ Built(rule[r], in[r], out[r], input[r].key, begun[r], clock)
    /\ Clean(rule[r], in[r])

\* What may be said of element i of a batch.
FairlyAccepted(q, i, event, then, now) ==
  /\ q.events[i].json # "malformed"
  /\ Contract!Faults(Contract!Sent(q, i)) = {}
  /\ \E t \in then..now : event = Contract!Stored(Contract!Sent(q, i), q.key, t)
FairlyRejected(q, i, reason) ==
  IF q.events[i].json = "malformed" THEN reason = "malformed_event"
  ELSE reason \in Contract!PossibleFaults(Contract!Sent(q, i))

\* Every verdict given so far is about its own event.
Fair(r) ==
  /\ \A k \in DOMAIN accepted[r] :
       FairlyAccepted(input[r], accepted[r][k].index, accepted[r][k].event,
                      begun[r], clock)
  /\ \A k \in DOMAIN rejected[r] :
       FairlyRejected(input[r], rejected[r][k].index, rejected[r][k].reason)

Local(r) == Phase(r) /\ Lists(r) /\ Progress(r) /\ Fair(r)

IInv == TypeOK /\ \A r \in Requests : Local(r)

-----------------------------------------------------------------------------
(* Lemmas about lists and requests *)

LEMMA Appended ==
  ASSUME NEW S, NEW list \in Seq(S), NEW e \in S
  PROVE  /\ Append(list, e) \in Seq(S)
         /\ Len(Append(list, e)) = Len(list) + 1
         /\ Indices(Append(list, e)) = Indices(list) \union {e.index}
         /\ \A k \in DOMAIN list : k \in DOMAIN Append(list, e) /\ Append(list, e)[k] = list[k]
         /\ \A k \in DOMAIN Append(list, e) :
              k \in DOMAIN list \/ (k = Len(list) + 1 /\ Append(list, e)[k] = e)
<1> DEFINE longer == Append(list, e)
<1>1. /\ longer \in Seq(S) /\ Len(longer) = Len(list) + 1
      /\ \A k \in 1..Len(list) : longer[k] = list[k]
      /\ longer[Len(list) + 1] = e
  BY AppendProperties
<1>2. /\ Len(list) \in Nat /\ DOMAIN list = 1..Len(list)
      /\ DOMAIN longer = 1..(Len(list) + 1)
  BY <1>1, LenProperties
<1> HIDE DEF longer
<1>3. Indices(longer) = Indices(list) \union {e.index}
  BY <1>1, <1>2 DEF Indices
<1> QED
  BY <1>1, <1>2, <1>3 DEF longer

LEMMA AppendedAscending ==
  ASSUME NEW S, NEW list \in Seq(S), NEW e \in S, Ascending(list),
         e.index \in Int, \A i \in Indices(list) : i \in Int /\ i < e.index
  PROVE  Ascending(Append(list, e))
<1> DEFINE longer == Append(list, e)
<1>1. /\ \A k \in DOMAIN list : longer[k] = list[k]
      /\ \A k \in DOMAIN longer :
           k \in DOMAIN list \/ (k = Len(list) + 1 /\ longer[k] = e)
  BY Appended
<1>2. Len(list) \in Nat /\ DOMAIN list = 1..Len(list)
  BY LenProperties
<1>3. \A k \in DOMAIN list : list[k].index < e.index
  BY DEF Indices
<1> HIDE DEF longer
<1>4. ASSUME NEW j \in DOMAIN longer, NEW k \in DOMAIN longer, j < k
      PROVE  longer[j].index < longer[k].index
  <2>1. j \in DOMAIN list
    BY <1>1, <1>2, <1>4
  <2>2. CASE k \in DOMAIN list
    BY <1>1, <1>4, <2>1, <2>2 DEF Ascending
  <2>3. CASE k = Len(list) + 1 /\ longer[k] = e
    BY <1>1, <1>3, <2>1, <2>3
  <2> QED
    BY <1>1, <2>2, <2>3
<1>5. Ascending(longer)
  BY <1>4 DEF Ascending
<1> QED
  BY <1>5 DEF longer

\* A request that is validated: its batch fits, and its elements decode.
LEMMA Batch ==
  ASSUME NEW q \in Inputs, Refusal(q) = "none"
  PROVE  /\ q.key # Empty /\ q.key \in Sites
         /\ q.events # <<>> /\ Len(q.events) \in 1..Limits.MaxEventsPerRequest
<1>1. q.events \in Seq([json : {"object", "null", "malformed"}, event : Events])
  BY InputsAssumption
<1>2. q.key # Empty /\ q.events # <<>> /\ ~(Len(q.events) > Limits.MaxEventsPerRequest)
  BY DEF Refusal
<1>3. Len(q.events) \in Nat \ {0}
  BY <1>1, <1>2, EmptySeq, LenProperties
<1> QED
  BY <1>2, <1>3, LimitsPositive DEF Sites

LEMMA SentIsEvent ==
  ASSUME NEW q \in Inputs, NEW i \in 1..Len(q.events)
  PROVE  /\ q.events[i].json \in {"object", "null", "malformed"}
         /\ Contract!Sent(q, i) \in Events
<1>1. q.events \in Seq([json : {"object", "null", "malformed"}, event : Events])
  BY InputsAssumption
<1>2. q.events[i] \in [json : {"object", "null", "malformed"}, event : Events]
  BY <1>1, ElementOfSeq
<1>3. EmptyEvent \in Events
  BY DEF EmptyEvent, Events, TextFields, UrlFields
<1> QED
  BY <1>2, <1>3, SameLimits DEF Contract!Sent

\* A step of another request, or of the clock.
Same(s) ==
  /\ pc'[s] = pc[s] /\ input'[s] = input[s] /\ begun'[s] = begun[s]
  /\ at'[s] = at[s] /\ rule'[s] = rule[s] /\ in'[s] = in[s] /\ out'[s] = out[s]
  /\ accepted'[s] = accepted[s] /\ rejected'[s] = rejected[s]
  /\ refused'[s] = refused[s]

LEMMA Elsewhere ==
  ASSUME NEW s \in Requests, IInv, Same(s), clock' \in Int, clock <= clock'
  PROVE  Local(s)'
<1>1. Local(s) /\ begun[s] \in Int /\ clock \in Int
  BY DEF IInv, TypeOK
<1>2. Phase(s)'
  BY <1>1 DEF Local, Phase, Same
<1>3. Lists(s)'
  BY <1>1 DEF Local, Lists, Split, Same
<1>4. Progress(s)'
  BY <1>1, BuiltLater DEF Local, Progress, Same, Raw, Sent
<1>5. Fair(s)'
  <2>1. begun[s]..clock \subseteq begun[s]..clock'
    BY <1>1
  <2> QED
    BY <1>1, <2>1 DEF Local, Fair, Same, FairlyAccepted, FairlyRejected
<1> QED
  BY <1>2, <1>3, <1>4, <1>5 DEF Local

LEMMA IncType ==
  ASSUME NEW labels, NEW counter \in [labels -> Nat], NEW added
  PROVE  Inc(counter, added) \in [labels -> Nat]
BY DEF Inc

-----------------------------------------------------------------------------
(* The invariant, action by action *)

LEMMA InitEstablishes == Init => IInv
<1> SUFFICES ASSUME Init PROVE IInv
  OBVIOUS
<1>1. TypeOK
  <2>1. <<>> \in Seq(AcceptedEntries) /\ <<>> \in Seq(RejectedEntries)
    BY EmptySeq
  <2>2. Limits.MaxEventsPerRequest + 1 \in Nat /\ 1 \in 1..Limits.MaxEventsPerRequest + 1
        /\ 0 \in 0..MaxClock /\ 0 \in 0..NumRules
    BY LimitsPositive, MaxClockAssumption DEF NumRules
  <2>3. /\ rejectedTotal \in [Sites \X Reasons -> Nat]
        /\ repairedTotal \in [RepairedFields \X Repairs -> Nat]
        /\ skewTotal \in [Directions -> Nat]
    BY DEF Init, Zero
  <2>4. EmptyEvent \in Events
    BY DEF EmptyEvent, Events, TextFields, UrlFields
  <2>5. Blank(Empty) \in ValidatedEvents
    BY DEF Blank, ValidatedEvents
  <2> QED
    BY <2>1, <2>2, <2>3, <2>4, <2>5 DEF Init, TypeOK
<1>2. ASSUME NEW r \in Requests PROVE Local(r)
  <2>1. Indices(<<>>) = {} /\ Ascending(<<>>) /\ Len(<<>>) = 0
    BY EmptySeq DEF Indices, Ascending
  <2>2. /\ accepted[r] = <<>> /\ rejected[r] = <<>> /\ at[r] = 1 /\ rule[r] = 0
        /\ pc[r] = "idle" /\ input[r] = NoInput /\ refused[r] = "none"
        /\ begun[r] = 0 /\ clock = 0
    BY DEF Init
  <2>3. Lists(r)
    BY <2>1, <2>2 DEF Lists, Split
  <2>4. Fair(r)
    BY <2>2 DEF Fair
  <2> QED
    BY <2>2, <2>3, <2>4 DEF Local, Phase, Progress
<1> QED
  BY <1>1, <1>2 DEF IInv

LEMMA ReceiveKeeps ==
  ASSUME NEW r \in Requests
  PROVE  IInv /\ Receive(r) => IInv'
<1> SUFFICES ASSUME IInv, Receive(r) PROVE IInv'
  OBVIOUS
<1>1. TypeOK /\ Local(r)
  BY DEF IInv
<1>2. PICK q \in Inputs :
        /\ input' = [input EXCEPT ![r] = q]
        /\ refused' = [refused EXCEPT ![r] = Refusal(q)]
        /\ pc' = [pc EXCEPT ![r] = IF Refusal(q) = "none" THEN "validating"
                                                          ELSE "answered"]
  BY DEF Receive
<1>3. /\ pc[r] = "idle" /\ begun' = [begun EXCEPT ![r] = clock]
      /\ UNCHANGED <<clock, at, rule, in, out, accepted, rejected>>
      /\ UNCHANGED <<rejectedTotal, repairedTotal, skewTotal>>
  BY DEF Receive, work, counters
<1>4. /\ pc'[r] = IF Refusal(q) = "none" THEN "validating" ELSE "answered"
      /\ input'[r] = q /\ refused'[r] = Refusal(q) /\ begun'[r] = clock
      /\ \A s \in Requests \ {r} : Same(s)
  BY <1>1, <1>2, <1>3 DEF TypeOK, Same
<1>5. /\ at[r] = 1 /\ rule[r] = 0
  BY <1>1, <1>3 DEF Local, Phase
<1>6. Refusal(q) = "none" => 1 \in 1..Len(q.events)
  BY Batch
<1>7. TypeOK'
  <2>1. Refusal(q) \in {"none", "site_id_mismatch", "empty_batch", "batch_too_large"}
    BY DEF Refusal
  <2>2. pc' \in [Requests -> {"idle", "validating", "answered"}]
    BY <1>1, <1>2 DEF TypeOK
  <2>3. \A s \in Requests : pc'[s] = "validating" => at'[s] <= Len(input'[s].events)
    <3>1. pc'[r] = "validating" => at'[r] <= Len(input'[r].events)
      BY <1>3, <1>4, <1>5, <1>6
    <3> QED
      BY <1>1, <1>4, <3>1 DEF TypeOK, Same
  <2> QED
    BY <1>1, <1>2, <1>3, <2>1, <2>2, <2>3 DEF TypeOK
<1>8. Local(r)'
  <2>1. Phase(r)'
    <3>1. clock <= clock
      BY <1>1 DEF TypeOK
    <3> QED
      BY <1>3, <1>4, <1>5, <1>6, <3>1 DEF Phase
  <2>2. Lists(r)' /\ Progress(r)'
    <3>1. Lists(r)'
      BY <1>1, <1>3 DEF Local, Lists, Split
    <3>2. Progress(r)'
      BY <1>3, <1>5 DEF Progress
    <3> QED
      BY <3>1, <3>2
  <2>3. Fair(r)'
    <3>1. /\ accepted[r] \in Seq(AcceptedEntries) /\ rejected[r] \in Seq(RejectedEntries)
      BY <1>1 DEF TypeOK
    <3>2. Indices(accepted[r]) = {} /\ Indices(rejected[r]) = {}
      BY <1>1, <1>5 DEF Local, Lists, Split
    <3>3. DOMAIN accepted[r] = {} /\ DOMAIN rejected[r] = {}
      BY <3>2 DEF Indices
    <3> QED
      BY <1>3, <3>3 DEF Fair
  <2> QED
    BY <2>1, <2>2, <2>3 DEF Local
<1>9. \A s \in Requests \ {r} : Local(s)'
  <2>1. clock' \in Int /\ clock <= clock'
    BY <1>1, <1>3 DEF TypeOK
  <2> QED
    BY <1>4, <2>1, Elsewhere
<1> QED
  BY <1>7, <1>8, <1>9 DEF IInv

\* The end of an event, whatever came of it.
LEMMA Advanced ==
  ASSUME NEW r \in Requests
  PROVE  /\ IInv /\ pc[r] = "validating" /\ Advance(r)
         /\ UNCHANGED <<clock, input, begun, refused>>
         => /\ at' \in [Requests -> 1..Limits.MaxEventsPerRequest + 1]
            /\ rule' \in [Requests -> 0..NumRules]
            /\ pc' \in [Requests -> {"idle", "validating", "answered"}]
            /\ \A s \in Requests : pc'[s] = "validating" => at'[s] <= Len(input'[s].events)
            /\ Phase(r)' /\ Progress(r)'
            /\ at[r] \in Nat \ {0} /\ at[r] <= Limits.MaxEventsPerRequest
            /\ at'[r] = at[r] + 1
            /\ \A s \in Requests \ {r} : at'[s] = at[s] /\ rule'[s] = rule[s] /\ pc'[s] = pc[s]
<1> SUFFICES ASSUME IInv, pc[r] = "validating", Advance(r),
                    UNCHANGED <<clock, input, begun, refused>>
             PROVE  /\ at' \in [Requests -> 1..Limits.MaxEventsPerRequest + 1]
                    /\ rule' \in [Requests -> 0..NumRules]
                    /\ pc' \in [Requests -> {"idle", "validating", "answered"}]
                    /\ \A s \in Requests : pc'[s] = "validating" => at'[s] <= Len(input'[s].events)
                    /\ Phase(r)' /\ Progress(r)'
                    /\ at[r] \in Nat \ {0} /\ at[r] <= Limits.MaxEventsPerRequest
                    /\ at'[r] = at[r] + 1
                    /\ \A s \in Requests \ {r} :
                         at'[s] = at[s] /\ rule'[s] = rule[s] /\ pc'[s] = pc[s]
  OBVIOUS
<1>1. TypeOK /\ Phase(r)
  BY DEF IInv, Local
<1>2. /\ at' = [at EXCEPT ![r] = at[r] + 1]
      /\ rule' = [rule EXCEPT ![r] = 0]
      /\ pc' = [pc EXCEPT ![r] = IF at[r] < Len(input[r].events)
                                 THEN "validating" ELSE "answered"]
  BY DEF Advance
<1>3. /\ input[r] \in Inputs /\ refused[r] = "none" /\ refused[r] = Refusal(input[r])
      /\ at[r] \in 1..Len(input[r].events)
  BY <1>1 DEF Phase
<1>4. Len(input[r].events) \in 1..Limits.MaxEventsPerRequest
  BY <1>3, Batch
<1>5. /\ at'[r] = at[r] + 1 /\ rule'[r] = 0
      /\ pc'[r] = IF at[r] < Len(input[r].events) THEN "validating" ELSE "answered"
      /\ \A s \in Requests \ {r} : at'[s] = at[s] /\ rule'[s] = rule[s] /\ pc'[s] = pc[s]
  BY <1>1, <1>2 DEF TypeOK
<1>6. at[r] + 1 \in 1..Limits.MaxEventsPerRequest + 1 /\ at[r] <= Limits.MaxEventsPerRequest
  <2>1. Limits.MaxEventsPerRequest \in Nat
    BY LimitsPositive
  <2>2. at[r] \in Nat /\ at[r] >= 1 /\ at[r] <= Len(input[r].events)
        /\ Len(input[r].events) \in Nat
        /\ Len(input[r].events) <= Limits.MaxEventsPerRequest
    BY <1>3, <1>4
  <2> QED
    BY <2>1, <2>2
<1>7. /\ at' \in [Requests -> 1..Limits.MaxEventsPerRequest + 1]
      /\ rule' \in [Requests -> 0..NumRules]
      /\ pc' \in [Requests -> {"idle", "validating", "answered"}]
  BY <1>1, <1>2, <1>6 DEF TypeOK, NumRules
<1>8. Phase(r)'
  BY <1>1, <1>3, <1>4, <1>5 DEF Phase
<1>9. Progress(r)'
  BY <1>5 DEF Progress
<1>10. \A s \in Requests : pc'[s] = "validating" => at'[s] <= Len(input'[s].events)
  <2>1. pc'[r] = "validating" => at'[r] <= Len(input'[r].events)
    BY <1>3, <1>4, <1>5
  <2> QED
    BY <1>1, <1>5, <2>1 DEF TypeOK
<1> QED
  BY <1>3, <1>4, <1>5, <1>6, <1>7, <1>8, <1>9, <1>10

LEMMA SplitSymmetric ==
  ASSUME NEW S, NEW T, NEW list \in Seq(S), NEW other \in Seq(T), NEW n \in Int,
         Split(list, other, n)
  PROVE  Split(other, list, n)
<1>1. Len(list) \in Nat /\ Len(other) \in Nat
  BY LenProperties
<1>2. Len(list) + Len(other) = n - 1
  BY DEF Split
<1>3. Len(other) + Len(list) = n - 1
  BY <1>1, <1>2
<1> QED
  BY <1>3 DEF Split

\* The current event joins one of the two lists.
LEMMA SplitGrows ==
  ASSUME NEW S, NEW T, NEW list \in Seq(S), NEW other \in Seq(T), NEW e \in S,
         NEW n \in Nat \ {0}, e.index = n, Split(list, other, n)
  PROVE  Split(Append(list, e), other, n + 1)
<1> DEFINE longer == Append(list, e)
<1>1. Indices(longer) = Indices(list) \union {n} /\ Len(longer) = Len(list) + 1
  BY Appended
<1>2. /\ Indices(list) \intersect Indices(other) = {}
      /\ Indices(list) \union Indices(other) = 1..(n - 1)
      /\ Ascending(list) /\ Ascending(other)
      /\ Len(list) + Len(other) = n - 1
  BY DEF Split
<1>3. \A i \in Indices(list) \union Indices(other) : i \in Int /\ i < n
  BY <1>2
<1>4. Ascending(longer)
  BY <1>2, <1>3, AppendedAscending
<1>5. Len(list) \in Nat /\ Len(other) \in Nat
  BY LenProperties
<1> HIDE DEF longer
<1>6. Indices(longer) \intersect Indices(other) = {}
  BY <1>1, <1>2, <1>3
<1>7. Indices(longer) \union Indices(other) = 1..((n + 1) - 1)
  <2>1. 1..((n + 1) - 1) = 1..(n - 1) \union {n}
    OBVIOUS
  <2> QED
    BY <1>1, <1>2, <2>1
<1>8. Len(longer) + Len(other) = (n + 1) - 1
  BY <1>1, <1>2, <1>5
<1>9. Split(longer, other, n + 1)
  BY <1>2, <1>4, <1>6, <1>7, <1>8 DEF Split
<1> QED
  BY <1>9 DEF longer

\* What the steps that finish an event have in common.
Finishing(r) ==
  /\ pc[r] = "validating" /\ Advance(r)
  /\ UNCHANGED <<clock, input, begun, refused>>
  /\ rejectedTotal' \in [Sites \X Reasons -> Nat]
  /\ repairedTotal' \in [RepairedFields \X Repairs -> Nat]
  /\ skewTotal' \in [Directions -> Nat]
  /\ in' \in [Requests -> Events] /\ out' \in [Requests -> ValidatedEvents]
  /\ \A s \in Requests \ {r} : in'[s] = in[s] /\ out'[s] = out[s]

LEMMA RejectedKeeps ==
  ASSUME NEW r \in Requests, NEW reason \in Reasons
  PROVE  /\ IInv /\ Finishing(r)
         /\ rejected' = [rejected EXCEPT ![r] =
                           Append(@, [index |-> at[r], reason |-> reason])]
         /\ accepted' = accepted
         /\ FairlyRejected(input[r], at[r], reason)
         => IInv'
<1> SUFFICES ASSUME IInv, Finishing(r), accepted' = accepted,
                    rejected' = [rejected EXCEPT ![r] =
                                   Append(rejected[r], [index |-> at[r], reason |-> reason])],
                    FairlyRejected(input[r], at[r], reason)
             PROVE  IInv'
  OBVIOUS
<1>1. TypeOK /\ Local(r)
  BY DEF IInv
<1>2. /\ at' \in [Requests -> 1..Limits.MaxEventsPerRequest + 1]
      /\ rule' \in [Requests -> 0..NumRules]
      /\ pc' \in [Requests -> {"idle", "validating", "answered"}]
      /\ \A s \in Requests : pc'[s] = "validating" => at'[s] <= Len(input'[s].events)
      /\ Phase(r)' /\ Progress(r)'
      /\ at[r] \in Nat \ {0} /\ at'[r] = at[r] + 1
      /\ \A s \in Requests \ {r} : at'[s] = at[s] /\ rule'[s] = rule[s] /\ pc'[s] = pc[s]
  BY Advanced DEF Finishing
<1>3. UNCHANGED <<clock, input, begun, refused>>
  BY DEF Finishing
<1> DEFINE entry == [index |-> at[r], reason |-> reason]
<1>4. entry \in RejectedEntries /\ entry.index = at[r] /\ entry.reason = reason
  BY <1>2 DEF RejectedEntries
<1>5. /\ rejected[r] \in Seq(RejectedEntries) /\ accepted[r] \in Seq(AcceptedEntries)
      /\ rejected'[r] = Append(rejected[r], entry)
      /\ \A s \in Requests \ {r} : rejected'[s] = rejected[s]
  BY <1>1 DEF TypeOK
<1> HIDE DEF entry
<1>6. TypeOK'
  <2>1. Append(rejected[r], entry) \in Seq(RejectedEntries)
    BY <1>4, <1>5, AppendProperties
  <2>2. rejected' \in [Requests -> Seq(RejectedEntries)]
    BY <1>1, <2>1 DEF TypeOK, entry
  <2> QED
    BY <1>1, <1>2, <1>3, <2>2 DEF TypeOK, Finishing
<1>7. Lists(r)'
  <2>1. Split(accepted[r], rejected[r], at[r])
    BY <1>1 DEF Local, Lists
  <2>2. Split(rejected[r], accepted[r], at[r])
    BY <1>2, <1>5, <2>1, SplitSymmetric
  <2>3. Split(rejected'[r], accepted[r], at[r] + 1)
    BY <1>2, <1>4, <1>5, <2>2, SplitGrows
  <2>4. rejected'[r] \in Seq(RejectedEntries) /\ at[r] + 1 \in Int
    BY <1>2, <1>6 DEF TypeOK
  <2>5. Split(accepted[r], rejected'[r], at[r] + 1)
    BY <1>5, <2>3, <2>4, SplitSymmetric
  <2>6. Split(accepted'[r], rejected'[r], at'[r])
    BY <1>2, <2>5
  <2> QED
    BY <2>6 DEF Lists, Split
<1>8. Fair(r)'
  <2>1. \A k \in DOMAIN rejected'[r] :
          \/ k \in DOMAIN rejected[r] /\ rejected'[r][k] = rejected[r][k]
          \/ rejected'[r][k] = entry
    BY <1>4, <1>5, Appended
  <2>2. \A k \in DOMAIN rejected'[r] :
          FairlyRejected(input[r], rejected'[r][k].index, rejected'[r][k].reason)
    BY <1>1, <1>4, <2>1 DEF Local, Fair
  <2>3. \A k \in DOMAIN accepted[r] :
          FairlyAccepted(input[r], accepted[r][k].index, accepted[r][k].event,
                         begun[r], clock)
    BY <1>1 DEF Local, Fair
  <2> QED
    BY <1>3, <2>2, <2>3 DEF Fair, FairlyAccepted, FairlyRejected
<1>9. Local(r)'
  BY <1>2, <1>7, <1>8 DEF Local
<1>10. \A s \in Requests \ {r} : Local(s)'
  <2>1. clock' \in Int /\ clock <= clock'
    BY <1>1, <1>3 DEF TypeOK
  <2>2. \A s \in Requests \ {r} : Same(s)
    BY <1>2, <1>3, <1>5 DEF Same, Finishing
  <2> QED
    BY <2>1, <2>2, Elsewhere
<1> QED
  BY <1>6, <1>9, <1>10 DEF IInv

LEMMA AcceptedKeeps ==
  ASSUME NEW r \in Requests, NEW event \in ValidatedEvents
  PROVE  /\ IInv /\ Finishing(r)
         /\ accepted' = [accepted EXCEPT ![r] =
                           Append(@, [index |-> at[r], event |-> event])]
         /\ rejected' = rejected
         /\ FairlyAccepted(input[r], at[r], event, begun[r], clock)
         => IInv'
<1> SUFFICES ASSUME IInv, Finishing(r), rejected' = rejected,
                    accepted' = [accepted EXCEPT ![r] =
                                   Append(accepted[r], [index |-> at[r], event |-> event])],
                    FairlyAccepted(input[r], at[r], event, begun[r], clock)
             PROVE  IInv'
  OBVIOUS
<1>1. TypeOK /\ Local(r)
  BY DEF IInv
<1>2. /\ at' \in [Requests -> 1..Limits.MaxEventsPerRequest + 1]
      /\ rule' \in [Requests -> 0..NumRules]
      /\ pc' \in [Requests -> {"idle", "validating", "answered"}]
      /\ \A s \in Requests : pc'[s] = "validating" => at'[s] <= Len(input'[s].events)
      /\ Phase(r)' /\ Progress(r)'
      /\ at[r] \in Nat \ {0} /\ at'[r] = at[r] + 1
      /\ \A s \in Requests \ {r} : at'[s] = at[s] /\ rule'[s] = rule[s] /\ pc'[s] = pc[s]
  BY Advanced DEF Finishing
<1>3. UNCHANGED <<clock, input, begun, refused>>
  BY DEF Finishing
<1> DEFINE entry == [index |-> at[r], event |-> event]
<1>4. entry \in AcceptedEntries /\ entry.index = at[r] /\ entry.event = event
  BY <1>2 DEF AcceptedEntries
<1>5. /\ rejected[r] \in Seq(RejectedEntries) /\ accepted[r] \in Seq(AcceptedEntries)
      /\ accepted'[r] = Append(accepted[r], entry)
      /\ \A s \in Requests \ {r} : accepted'[s] = accepted[s]
  BY <1>1 DEF TypeOK
<1> HIDE DEF entry
<1>6. TypeOK'
  <2>1. Append(accepted[r], entry) \in Seq(AcceptedEntries)
    BY <1>4, <1>5, AppendProperties
  <2>2. accepted' \in [Requests -> Seq(AcceptedEntries)]
    BY <1>1, <2>1 DEF TypeOK, entry
  <2> QED
    BY <1>1, <1>2, <1>3, <2>2 DEF TypeOK, Finishing
<1>7. Lists(r)'
  <2>1. Split(accepted[r], rejected[r], at[r])
    BY <1>1 DEF Local, Lists
  <2>2. Split(accepted'[r], rejected[r], at[r] + 1)
    BY <1>2, <1>4, <1>5, <2>1, SplitGrows
  <2>3. Split(accepted'[r], rejected'[r], at'[r])
    BY <1>2, <2>2
  <2> QED
    BY <2>3 DEF Lists, Split
<1>8. Fair(r)'
  <2>1. \A k \in DOMAIN accepted'[r] :
          \/ k \in DOMAIN accepted[r] /\ accepted'[r][k] = accepted[r][k]
          \/ accepted'[r][k] = entry
    BY <1>4, <1>5, Appended
  <2>2. \A k \in DOMAIN accepted'[r] :
          FairlyAccepted(input[r], accepted'[r][k].index, accepted'[r][k].event,
                         begun[r], clock)
    BY <1>1, <1>4, <2>1 DEF Local, Fair
  <2>3. \A k \in DOMAIN rejected[r] :
          FairlyRejected(input[r], rejected[r][k].index, rejected[r][k].reason)
    BY <1>1 DEF Local, Fair
  <2> QED
    BY <1>3, <2>2, <2>3 DEF Fair, FairlyAccepted, FairlyRejected
<1>9. Local(r)'
  BY <1>2, <1>7, <1>8 DEF Local
<1>10. \A s \in Requests \ {r} : Local(s)'
  <2>1. clock' \in Int /\ clock <= clock'
    BY <1>1, <1>3 DEF TypeOK
  <2>2. \A s \in Requests \ {r} : Same(s)
    BY <1>2, <1>3, <1>5 DEF Same, Finishing
  <2> QED
    BY <2>1, <2>2, Elsewhere
<1> QED
  BY <1>6, <1>9, <1>10 DEF IInv

\* A step that does not finish the event.
Within(r) ==
  /\ pc[r] = "validating"
  /\ UNCHANGED <<clock, pc, input, begun, at, accepted, rejected, refused>>
  /\ rejectedTotal' \in [Sites \X Reasons -> Nat]
  /\ repairedTotal' \in [RepairedFields \X Repairs -> Nat]
  /\ skewTotal' \in [Directions -> Nat]
  /\ in' \in [Requests -> Events] /\ out' \in [Requests -> ValidatedEvents]
  /\ \A s \in Requests \ {r} : in'[s] = in[s] /\ out'[s] = out[s]

LEMMA WithinKeeps ==
  ASSUME NEW r \in Requests, NEW n \in 1..NumRules
  PROVE  IInv /\ Within(r) /\ rule' = [rule EXCEPT ![r] = n] /\ Progress(r)' => IInv'
<1> SUFFICES ASSUME IInv, Within(r), rule' = [rule EXCEPT ![r] = n], Progress(r)'
             PROVE  IInv'
  OBVIOUS
<1>1. TypeOK /\ Local(r)
  BY DEF IInv
<1>2. /\ rule' \in [Requests -> 0..NumRules]
      /\ \A s \in Requests \ {r} : rule'[s] = rule[s]
  BY <1>1 DEF TypeOK, NumRules
<1>3. TypeOK'
  BY <1>1, <1>2 DEF TypeOK, Within
<1>4. Phase(r)'
  BY <1>1 DEF Local, Phase, Within
<1>5. Lists(r)'
  BY <1>1 DEF Local, Lists, Split, Within
<1>6. Fair(r)'
  BY <1>1 DEF Local, Fair, FairlyAccepted, FairlyRejected, Within
<1>7. \A s \in Requests \ {r} : Local(s)'
  <2>1. clock' \in Int /\ clock <= clock'
    BY <1>1 DEF TypeOK, Within
  <2>2. \A s \in Requests \ {r} : Same(s)
    BY <1>2 DEF Same, Within
  <2> QED
    BY <2>1, <2>2, Elsewhere
<1> QED
  BY <1>3, <1>4, <1>5, <1>6, <1>7 DEF IInv, Local

\* What is known of the request whose step it is.
LEMMA Validating ==
  ASSUME NEW r \in Requests, IInv, pc[r] = "validating"
  PROVE  /\ TypeOK /\ Phase(r) /\ Progress(r)
         /\ input[r] \in Inputs /\ input[r].key \in Sites
         /\ at[r] \in 1..Len(input[r].events)
         /\ Raw(r).json \in {"object", "null", "malformed"}
         /\ Sent(r, at[r]) \in Events /\ Sent(r, at[r]) = Decoded(r)
         /\ clock \in Int /\ begun[r] \in Int /\ begun[r] <= clock
<1>1. TypeOK /\ Phase(r) /\ Progress(r)
  BY DEF IInv, Local
<1>2. /\ input[r] \in Inputs /\ Refusal(input[r]) = "none"
      /\ at[r] \in 1..Len(input[r].events)
  BY <1>1 DEF Phase
<1>3. Sent(r, at[r]) \in Events /\ Raw(r).json \in {"object", "null", "malformed"}
  BY <1>2, SentIsEvent DEF Sent, Raw
<1>4. Sent(r, at[r]) = Decoded(r)
  BY SameLimits DEF Sent, Contract!Sent, Decoded, Raw
<1>5. clock \in Int /\ begun[r] \in Int /\ begun[r] <= clock
  <2>1. clock \in 0..MaxClock /\ begun[r] \in 0..MaxClock
    BY <1>1 DEF TypeOK
  <2>2. begun[r] <= clock
    BY <1>1 DEF Phase
  <2> QED
    BY <2>1, <2>2
<1>6. input[r].key \in Sites
  BY <1>2, Batch
<1> QED
  BY <1>1, <1>2, <1>3, <1>4, <1>5, <1>6

LEMMA DecodeKeeps ==
  ASSUME NEW r \in Requests
  PROVE  IInv /\ Decode(r) => IInv'
<1> SUFFICES ASSUME IInv, Decode(r) PROVE IInv'
  OBVIOUS
<1>1. /\ pc[r] = "validating" /\ rule[r] = 0
      /\ UNCHANGED <<clock, input, begun, refused, repairedTotal, skewTotal>>
  BY DEF Decode
<1>2. /\ TypeOK /\ input[r].key \in Sites
      /\ Sent(r, at[r]) \in Events /\ Sent(r, at[r]) = Decoded(r)
      /\ clock \in Int /\ begun[r] \in Int /\ begun[r] <= clock
  BY <1>1, Validating
<1>3. /\ rejectedTotal \in [Sites \X Reasons -> Nat]
      /\ repairedTotal' \in [RepairedFields \X Repairs -> Nat]
      /\ skewTotal' \in [Directions -> Nat]
  BY <1>1, <1>2 DEF TypeOK
<1>4. CASE /\ Raw(r).json = "malformed" /\ Rejecting(r, "malformed_event")
           /\ UNCHANGED <<in, out>>
  <2>1. /\ rejected' = [rejected EXCEPT ![r] =
                          Append(@, [index |-> at[r], reason |-> "malformed_event"])]
        /\ accepted' = accepted /\ Advance(r)
        /\ rejectedTotal' = Inc(rejectedTotal, {<<CountedSite(r), "malformed_event">>})
    BY <1>4 DEF Rejecting, RejectedIndex
  <2>2. rejectedTotal' \in [Sites \X Reasons -> Nat]
    BY <1>3, <2>1, IncType
  <2>3. Finishing(r)
    BY <1>1, <1>2, <1>3, <1>4, <2>1, <2>2 DEF Finishing, TypeOK
  <2>4. FairlyRejected(input[r], at[r], "malformed_event") /\ "malformed_event" \in Reasons
    BY <1>4 DEF FairlyRejected, Raw, Reasons
  <2> QED
    BY <2>1, <2>3, <2>4, RejectedKeeps
<1>5. CASE /\ Raw(r).json # "malformed"
           /\ in' = [in EXCEPT ![r] = Decoded(r)]
           /\ out' = [out EXCEPT ![r] = Blank(input[r].key)]
           /\ rule' = [rule EXCEPT ![r] = 1]
           /\ UNCHANGED <<at, pc, accepted, rejected, rejectedTotal>>
  <2>1. Within(r)
    <3>1. Blank(input[r].key) \in ValidatedEvents
      BY <1>2 DEF Blank, ValidatedEvents
    <3>2. in' \in [Requests -> Events] /\ out' \in [Requests -> ValidatedEvents]
      BY <1>2, <1>5, <3>1 DEF TypeOK
    <3> QED
      BY <1>1, <1>2, <1>3, <1>5, <3>2 DEF Within, TypeOK
  <2>2. 1 \in 1..NumRules
    BY DEF NumRules
  <2>3. /\ in'[r] = Sent(r, at[r]) /\ out'[r] = Blank(input[r].key) /\ rule'[r] = 1
    BY <1>2, <1>5 DEF TypeOK
  <2>4. /\ Built(rule'[r], in'[r], out'[r], input[r].key, begun[r], clock)
        /\ Clean(rule'[r], in'[r])
    BY <1>2, <2>3, BlankBuilt
  <2>5. Progress(r)'
    BY <1>1, <1>5, <2>3, <2>4 DEF Progress, Raw, Sent
  <2> QED
    BY <1>5, <2>1, <2>2, <2>5, WithinKeeps
<1> QED
  BY <1>4, <1>5 DEF Decode

\* What one rule does to the event of a request.
Outcome(r, done) ==
  /\ in[r] = Sent(r, at[r]) /\ Raw(r).json # "malformed"
  /\ done.out \in ValidatedEvents
  /\ done.reason # "none" =>
       /\ done.reason \in Reasons
       /\ FairlyRejected(input[r], at[r], done.reason)
  /\ done.reason = "none" /\ rule[r] < NumRules =>
       /\ Built(rule[r] + 1, in[r], done.out, input[r].key, begun[r], clock)
       /\ Clean(rule[r] + 1, in[r])
  /\ done.reason = "none" /\ rule[r] >= NumRules =>
       FairlyAccepted(input[r], at[r], done.out, begun[r], clock)

LEMMA RuleOutcome ==
  ASSUME NEW r \in Requests, IInv, pc[r] = "validating", rule[r] > 0,
         NEW fresh \in BOOLEAN
  PROVE  Outcome(r, ApplyRule(rule[r], in[r], out[r], clock, fresh))
<1> DEFINE done == ApplyRule(rule[r], in[r], out[r], clock, fresh)
<1> SUFFICES Outcome(r, done)
  BY Zenon
<1>1. /\ TypeOK /\ Progress(r) /\ input[r].key \in Sites
      /\ Sent(r, at[r]) \in Events
      /\ clock \in Int /\ begun[r] \in Int /\ begun[r] <= clock
  BY Validating
<1>2. /\ Raw(r).json # "malformed" /\ in[r] = Sent(r, at[r])
      /\ Built(rule[r], in[r], out[r], input[r].key, begun[r], clock)
      /\ Clean(rule[r], in[r])
  BY <1>1 DEF Progress
<1>3. rule[r] \in 1..NumRules
  BY <1>1 DEF TypeOK, NumRules
<1>4. Keeps(rule[r], in[r], out[r], input[r].key, begun[r], clock, done)
  BY <1>1, <1>2, <1>3, RuleKeeps, Zenon
<1>5. CASE done.reason = "none"
  <2> HIDE DEF done
  <2>1. /\ Built(rule[r] + 1, in[r], done.out, input[r].key, begun[r], clock)
        /\ Clean(rule[r] + 1, in[r])
    BY <1>4, <1>5 DEF Keeps
  <2>2. done.out \in ValidatedEvents
    BY <2>1 DEF Built
  <2>3. CASE rule[r] < NumRules
    BY <1>2, <1>3, <1>5, <2>1, <2>2, <2>3 DEF Outcome, NumRules
  <2>4. CASE rule[r] >= NumRules
    <3>1. rule[r] + 1 = 11
      BY <1>3, <2>4 DEF NumRules
    <3>2. /\ Contract!Faults(in[r]) = {}
          /\ \E t \in begun[r]..clock : done.out = Contract!Stored(in[r], input[r].key, t)
      BY <1>1, <1>2, <2>1, <3>1, AllBuilt
    <3>3. FairlyAccepted(input[r], at[r], done.out, begun[r], clock)
      BY <1>2, <3>2 DEF FairlyAccepted, Sent, Raw
    <3> QED
      BY <1>2, <1>3, <1>5, <2>2, <3>1, <3>3 DEF Outcome, NumRules
  <2> QED
    BY <1>1, <1>3, <2>3, <2>4 DEF NumRules
<1>6. CASE done.reason # "none"
  <2> HIDE DEF done
  <2>1. done.reason \in Contract!PossibleFaults(in[r]) /\ done.out = out[r]
    BY <1>4, <1>6 DEF Keeps
  <2>2. done.out \in ValidatedEvents
    BY <1>1, <2>1 DEF TypeOK
  <2>3. done.reason \in Reasons
    BY <2>1, FaultsAreReasons
  <2>4. FairlyRejected(input[r], at[r], done.reason)
    BY <1>2, <2>1 DEF FairlyRejected, Sent, Raw
  <2> QED
    BY <1>2, <1>6, <2>2, <2>3, <2>4 DEF Outcome
<1> QED
  BY <1>5, <1>6

\* A step of Apply is a rule, and what follows from its answer.
Ruled(r, done) ==
  /\ out' = [out EXCEPT ![r] = done.out]
  /\ repairedTotal' = Inc(repairedTotal, done.repairs)
  /\ skewTotal' = Inc(skewTotal, {done.skew})
  /\ \/ done.reason # "none" /\ Rejecting(r, done.reason)
     \/ /\ done.reason = "none" /\ rule[r] < NumRules
        /\ rule' = [rule EXCEPT ![r] = @ + 1]
        /\ UNCHANGED <<at, pc, accepted, rejected, rejectedTotal>>
     \/ /\ done.reason = "none" /\ ~(rule[r] < NumRules)
        /\ accepted' = [accepted EXCEPT ![r] =
                          Append(@, [index |-> at[r], event |-> done.out])]
        /\ Advance(r)
        /\ UNCHANGED <<rejected, rejectedTotal>>

LEMMA AppliedRule ==
  ASSUME NEW r \in Requests, Apply(r)
  PROVE  \E fresh \in BOOLEAN : Ruled(r, ApplyRule(rule[r], in[r], out[r], clock, fresh))
<1>1. PICK fresh \in BOOLEAN :
       LET done == ApplyRule(rule[r], in[r], out[r], clock, fresh)
       IN  /\ out' = [out EXCEPT ![r] = done.out]
           /\ repairedTotal' = Inc(repairedTotal, done.repairs)
           /\ skewTotal' = Inc(skewTotal, {done.skew})
           /\ CASE done.reason # "none" -> Rejecting(r, done.reason)
                [] done.reason = "none" /\ rule[r] < NumRules ->
                     /\ rule' = [rule EXCEPT ![r] = @ + 1]
                     /\ UNCHANGED <<at, pc, accepted, rejected, rejectedTotal>>
                [] OTHER ->
                     /\ accepted' = [accepted EXCEPT ![r] =
                                       Append(@, [index |-> at[r], event |-> done.out])]
                     /\ Advance(r)
                     /\ UNCHANGED <<rejected, rejectedTotal>>
  <2>1. (IF rule[r] = 2 THEN BOOLEAN ELSE {TRUE}) \subseteq BOOLEAN
    OBVIOUS
  <2> QED
    BY <2>1, Zenon DEF Apply
<1> QED
  BY <1>1, Zenon DEF Ruled

LEMMA ApplyKeeps ==
  ASSUME NEW r \in Requests
  PROVE  IInv /\ Apply(r) => IInv'
<1> SUFFICES ASSUME IInv, Apply(r) PROVE IInv'
  OBVIOUS
<1>1. /\ pc[r] = "validating" /\ rule[r] > 0
      /\ UNCHANGED <<clock, input, begun, in, refused>>
  BY DEF Apply
<1>2. PICK fresh \in BOOLEAN : Ruled(r, ApplyRule(rule[r], in[r], out[r], clock, fresh))
  BY AppliedRule
<1> DEFINE done == ApplyRule(rule[r], in[r], out[r], clock, fresh)
<1>3. Outcome(r, done)
  BY <1>1, RuleOutcome, Zenon
<1>4. /\ out' = [out EXCEPT ![r] = done.out]
      /\ repairedTotal' = Inc(repairedTotal, done.repairs)
      /\ skewTotal' = Inc(skewTotal, {done.skew})
  BY <1>2, Zenon DEF Ruled
<1>5. \/ done.reason # "none" /\ Rejecting(r, done.reason)
      \/ /\ done.reason = "none" /\ rule[r] < NumRules
         /\ rule' = [rule EXCEPT ![r] = @ + 1]
         /\ UNCHANGED <<at, pc, accepted, rejected, rejectedTotal>>
      \/ /\ done.reason = "none" /\ ~(rule[r] < NumRules)
         /\ accepted' = [accepted EXCEPT ![r] =
                           Append(@, [index |-> at[r], event |-> done.out])]
         /\ Advance(r)
         /\ UNCHANGED <<rejected, rejectedTotal>>
  BY <1>2, Zenon DEF Ruled
<1> HIDE DEF done
<1>6. TypeOK /\ rule[r] \in 0..NumRules
  BY DEF IInv, TypeOK
<1>7. /\ rejectedTotal \in [Sites \X Reasons -> Nat]
      /\ repairedTotal' \in [RepairedFields \X Repairs -> Nat]
      /\ skewTotal' \in [Directions -> Nat]
      /\ in' \in [Requests -> Events] /\ out' \in [Requests -> ValidatedEvents]
      /\ \A s \in Requests \ {r} : in'[s] = in[s] /\ out'[s] = out[s]
  <2>1. /\ repairedTotal' \in [RepairedFields \X Repairs -> Nat]
        /\ skewTotal' \in [Directions -> Nat]
    BY <1>4, <1>6, IncType DEF TypeOK
  <2> QED
    BY <1>1, <1>3, <1>4, <1>6, <2>1 DEF TypeOK, Outcome
<1>8. CASE done.reason # "none" /\ Rejecting(r, done.reason)
  <2>1. /\ rejected' = [rejected EXCEPT ![r] =
                          Append(@, [index |-> at[r], reason |-> done.reason])]
        /\ accepted' = accepted /\ Advance(r)
        /\ rejectedTotal' = Inc(rejectedTotal, {<<CountedSite(r), done.reason>>})
    BY <1>8 DEF Rejecting, RejectedIndex
  <2>2. rejectedTotal' \in [Sites \X Reasons -> Nat]
    BY <1>7, <2>1, IncType
  <2>3. Finishing(r)
    BY <1>1, <1>7, <2>1, <2>2 DEF Finishing
  <2> QED
    BY <1>3, <1>8, <2>1, <2>3, RejectedKeeps DEF Outcome
<1>9. CASE /\ done.reason = "none" /\ rule[r] < NumRules
           /\ rule' = [rule EXCEPT ![r] = @ + 1]
           /\ UNCHANGED <<at, pc, accepted, rejected, rejectedTotal>>
  <2>1. Within(r)
    BY <1>1, <1>7, <1>9 DEF Within
  <2>2. rule[r] + 1 \in 1..NumRules
    BY <1>1, <1>6, <1>9 DEF NumRules
  <2>3. rule'[r] = rule[r] + 1 /\ out'[r] = done.out /\ in'[r] = in[r]
    BY <1>1, <1>4, <1>6, <1>9 DEF TypeOK
  <2>4. Progress(r)'
    <3>1. /\ Built(rule'[r], in'[r], out'[r], input[r].key, begun[r], clock)
          /\ Clean(rule'[r], in'[r])
      BY <1>3, <1>9, <2>3 DEF Outcome
    <3> QED
      BY <1>1, <1>3, <1>9, <2>3, <3>1 DEF Progress, Raw, Sent, Outcome
  <2> QED
    BY <1>9, <2>1, <2>2, <2>4, WithinKeeps
<1>10. CASE /\ done.reason = "none" /\ ~(rule[r] < NumRules)
            /\ accepted' = [accepted EXCEPT ![r] =
                              Append(@, [index |-> at[r], event |-> done.out])]
            /\ Advance(r)
            /\ UNCHANGED <<rejected, rejectedTotal>>
  <2>1. Finishing(r)
    BY <1>1, <1>7, <1>10 DEF Finishing
  <2>2. FairlyAccepted(input[r], at[r], done.out, begun[r], clock)
    <3>1. rule[r] >= NumRules
      BY <1>6, <1>10 DEF NumRules
    <3> QED
      BY <1>3, <1>10, <3>1 DEF Outcome
  <2> QED
    BY <1>3, <1>10, <2>1, <2>2, AcceptedKeeps DEF Outcome
<1> QED
  BY <1>5, <1>8, <1>9, <1>10

LEMMA TickKeeps == IInv /\ Tick => IInv'
<1> SUFFICES ASSUME IInv, Tick PROVE IInv'
  OBVIOUS
<1>1. /\ clock' = clock + 1 /\ clock < MaxClock
      /\ UNCHANGED <<pc, input, begun, at, rule, in, out>>
      /\ UNCHANGED <<accepted, rejected, refused>>
      /\ UNCHANGED <<rejectedTotal, repairedTotal, skewTotal>>
  BY DEF Tick, work, result, counters
<1>2. clock \in Int /\ clock' \in 0..MaxClock /\ clock <= clock'
  BY <1>1, MaxClockAssumption DEF IInv, TypeOK
<1>3. TypeOK'
  BY <1>1, <1>2 DEF IInv, TypeOK
<1>4. \A s \in Requests : Same(s)
  BY <1>1 DEF Same
<1>5. \A s \in Requests : Local(s)'
  BY <1>2, <1>4, Elsewhere
<1> QED
  BY <1>3, <1>5 DEF IInv

LEMMA StutterKeeps == IInv /\ UNCHANGED vars => IInv'
<1> SUFFICES ASSUME IInv, UNCHANGED vars PROVE IInv'
  OBVIOUS
<1>1. /\ UNCHANGED <<clock, pc, input, begun, at, rule, in, out>>
      /\ UNCHANGED <<accepted, rejected, refused>>
      /\ UNCHANGED <<rejectedTotal, repairedTotal, skewTotal>>
  BY DEF vars, work, result, counters
<1>2. clock' \in Int /\ clock <= clock' /\ \A s \in Requests : Same(s)
  BY <1>1 DEF IInv, TypeOK, Same
<1>3. TypeOK'
  BY <1>1 DEF IInv, TypeOK
<1>4. \A s \in Requests : Local(s)'
  BY <1>2, Elsewhere
<1> QED
  BY <1>3, <1>4 DEF IInv

LEMMA StepKeeps == IInv /\ [Next]_vars => IInv'
<1>1. SUFFICES ASSUME IInv, [Next]_vars PROVE IInv'
  OBVIOUS
<1>2. ASSUME NEW r \in Requests, Receive(r) \/ Decode(r) \/ Apply(r) PROVE IInv'
  BY <1>1, <1>2, ReceiveKeeps, DecodeKeeps, ApplyKeeps
<1>3. CASE Tick
  BY <1>1, <1>3, TickKeeps
<1>4. CASE Finished \/ UNCHANGED vars
  BY <1>1, <1>4, StutterKeeps DEF Finished
<1> QED
  BY <1>1, <1>2, <1>3, <1>4 DEF Next

-----------------------------------------------------------------------------
(* What a step does to the results of its request *)

Rejects(r, reason) ==
  /\ Advance(r)
  /\ rejected' = [rejected EXCEPT ![r] = Append(@, [index |-> at[r], reason |-> reason])]
  /\ rejectedTotal' = Inc(rejectedTotal, {<<input[r].key, reason>>})
  /\ UNCHANGED accepted
Accepts(r, event) ==
  /\ Advance(r)
  /\ accepted' = [accepted EXCEPT ![r] = Append(@, [index |-> at[r], event |-> event])]
  /\ UNCHANGED <<rejected, rejectedTotal>>

LEMMA Effect ==
  ASSUME NEW r \in Requests
  PROVE  Decode(r) \/ Apply(r) =>
           /\ pc[r] = "validating" /\ UNCHANGED <<clock, input, begun, refused>>
           /\ \/ UNCHANGED <<at, pc, accepted, rejected, rejectedTotal>>
              \/ \E reason : Rejects(r, reason)
              \/ \E event : Accepts(r, event)
<1>1. ASSUME NEW reason, Rejecting(r, reason) PROVE Rejects(r, reason)
  BY <1>1 DEF Rejecting, Rejects, RejectedIndex, CountedSite
<1>2. Decode(r) => /\ pc[r] = "validating" /\ UNCHANGED <<clock, input, begun, refused>>
                   /\ \/ UNCHANGED <<at, pc, accepted, rejected, rejectedTotal>>
                      \/ \E reason : Rejects(r, reason)
  BY <1>1 DEF Decode
<1>3. ASSUME Apply(r)
      PROVE  /\ pc[r] = "validating" /\ UNCHANGED <<clock, input, begun, refused>>
             /\ \/ UNCHANGED <<at, pc, accepted, rejected, rejectedTotal>>
                \/ \E reason : Rejects(r, reason)
                \/ \E event : Accepts(r, event)
  <2>1. PICK fresh \in BOOLEAN :
          Ruled(r, ApplyRule(rule[r], in[r], out[r], clock, fresh))
    BY <1>3, AppliedRule
  <2> DEFINE done == ApplyRule(rule[r], in[r], out[r], clock, fresh)
  <2>2. \/ Rejecting(r, done.reason)
        \/ UNCHANGED <<at, pc, accepted, rejected, rejectedTotal>>
        \/ /\ accepted' = [accepted EXCEPT ![r] =
                              Append(@, [index |-> at[r], event |-> done.out])]
           /\ Advance(r)
           /\ UNCHANGED <<rejected, rejectedTotal>>
    BY <2>1, Zenon DEF Ruled
  <2> HIDE DEF done
  <2>3. pc[r] = "validating" /\ UNCHANGED <<clock, input, begun, refused>>
    BY <1>3 DEF Apply
  <2> QED
    BY <1>1, <2>2, <2>3 DEF Accepts
<1> QED
  BY <1>2, <1>3

-----------------------------------------------------------------------------
(* Theorems *)

\* The invariant holds in every reachable state.
THEOREM Inductive == Spec => []IInv
BY InitEstablishes, StepKeeps, PTL DEF Spec

\* Every variable keeps its type; the loop stays within the batch, and a batch
\* that is validated within the limit, for any limits and any batches.
THEOREM TypeCorrect == Spec => []TypeOK
<1>1. IInv => TypeOK
  BY DEF IInv
<1> QED
  BY Inductive, <1>1, PTL

\* Partial success: each event before the current one is accepted or rejected,
\* never both, in order, and an answered request has a verdict for each.
THEOREM Answered == Spec => []EveryEventAnswered
<1>1. IInv => EveryEventAnswered
  <2> SUFFICES ASSUME IInv, NEW r \in Requests
               PROVE  /\ Indices(accepted[r]) \intersect Indices(rejected[r]) = {}
                      /\ Indices(accepted[r]) \union Indices(rejected[r]) = 1..(at[r] - 1)
                      /\ Ascending(accepted[r]) /\ Ascending(rejected[r])
                      /\ pc[r] = "answered" /\ refused[r] = "none" =>
                           at[r] = Len(input[r].events) + 1
    BY Zenon DEF EveryEventAnswered
  <2>1. Phase(r) /\ Split(accepted[r], rejected[r], at[r])
    BY DEF IInv, Local, Lists
  <2> QED
    BY <2>1 DEF Phase, Split
<1> QED
  BY Inductive, <1>1, PTL

\* An event is accepted only if it has no fault, and rejected only for a fault
\* of its own, whatever its neighbours and the other requests do.
THEOREM Own == Spec => []VerdictIsOwn
<1>1. IInv => VerdictIsOwn
  BY DEF IInv, Local, Fair, FairlyAccepted, FairlyRejected, VerdictIsOwn, Sent
<1> QED
  BY Inductive, <1>1, PTL

\* What an accepted event is: what the contract stores of what was sent, at
\* some moment since Validate was called.
LEMMA AcceptedIsStored ==
  ASSUME NEW r \in Requests, NEW k \in DOMAIN accepted[r], IInv
  PROVE  /\ input[r].key # Empty
         /\ Sent(r, accepted[r][k].index) \in Events
         /\ Contract!Faults(Sent(r, accepted[r][k].index)) = {}
         /\ \E t \in begun[r]..clock :
              accepted[r][k].event =
                Contract!Stored(Sent(r, accepted[r][k].index), input[r].key, t)
<1> DEFINE i == accepted[r][k].index
<1>1. /\ TypeOK /\ Phase(r) /\ Split(accepted[r], rejected[r], at[r])
      /\ FairlyAccepted(input[r], i, accepted[r][k].event, begun[r], clock)
  BY DEF IInv, Local, Lists, Fair
<1>2. i \in 1..(at[r] - 1) /\ at[r] \in Nat
  BY <1>1 DEF Split, Indices, TypeOK
<1>3. pc[r] \in {"idle", "validating", "answered"}
  BY <1>1 DEF TypeOK
<1>4. /\ input[r] \in Inputs /\ refused[r] = "none" /\ Refusal(input[r]) = "none"
      /\ at[r] <= Len(input[r].events) + 1
  <2>1. at[r] # 1
    BY <1>2
  <2>2. pc[r] # "idle" /\ (pc[r] = "answered" => refused[r] = "none")
    BY <1>1, <2>1 DEF Phase
  <2>3. input[r] \in Inputs /\ refused[r] = "none" /\ Refusal(input[r]) = "none"
    BY <1>1, <1>3, <2>2 DEF Phase
  <2>4. Len(input[r].events) \in Nat
    BY <2>3, Batch
  <2>5. at[r] \in 1..Len(input[r].events) \/ at[r] = Len(input[r].events) + 1
    BY <1>1, <1>3, <2>2, <2>3 DEF Phase
  <2> QED
    BY <1>2, <2>3, <2>4, <2>5
<1>5. i \in 1..Len(input[r].events)
  <2>1. Len(input[r].events) \in Nat
    BY <1>4, Batch
  <2> QED
    BY <1>2, <1>4, <2>1
<1>6. Contract!Sent(input[r], i) \in Events
  BY <1>4, <1>5, SentIsEvent
<1>7. input[r].key # Empty
  BY <1>4, Batch
<1> QED
  BY <1>1, <1>6, <1>7 DEF FairlyAccepted, Sent

\* What is accepted fits the columns it is stored in, whatever was configured:
\* a bound that is unset or negative is the shipped one.
THEOREM Fits == Spec => []AcceptedFits
<1>1. IInv => AcceptedFits
  <2> SUFFICES ASSUME IInv, NEW r \in Requests, NEW k \in DOMAIN accepted[r]
               PROVE  LET e == accepted[r][k].event
                      IN  /\ e.site = input[r].key /\ e.site # Empty
                          /\ e.name \in 1..Bound("MaxEventNameLen")
                          /\ e.id \in {"client", "server"}
                          /\ \A f \in TextFields : e.text[f] <= Bound(ColumnBound[f])
                          /\ \A f \in UrlFields : e.url[f].len <= Bound(ColumnBound[f])
                          /\ e.currency # Empty /\ e.device # Empty
                          /\ e.props = 2 \/ e.props \in 2..Bound("MaxPropertiesBytes")
    BY Zenon DEF AcceptedFits
  <2> DEFINE e == Sent(r, accepted[r][k].index)
  <2>1. PICK t \in begun[r]..clock :
          accepted[r][k].event = Contract!Stored(e, input[r].key, t)
    BY AcceptedIsStored
  <2>2. e \in Events /\ Contract!Faults(e) = {} /\ input[r].key # Empty
    BY AcceptedIsStored
  <2>3. t \in Int
    BY DEF IInv, TypeOK
  <2>4. /\ Limits.MaxEventNameLen = Bound("MaxEventNameLen")
        /\ Limits.MaxPropertiesBytes = Bound("MaxPropertiesBytes")
        /\ \A f \in TextFields : TextLimit[f] = Bound(ColumnBound[f])
        /\ \A f \in UrlFields : UrlLimit[f] = Bound(ColumnBound[f])
    BY LimitsBound DEF DefaultLimits
  <2> HIDE DEF e
  <2> QED
    BY <2>1, <2>2, <2>3, <2>4, StoredFits
<1> QED
  BY Inductive, <1>1, PTL

\* An accepted instant is no further in the past than the bound was when
\* Validate was called, and no further ahead than it is now.
THEOREM TimeInWindow == Spec => []AcceptedTimeInWindow
<1>1. IInv => AcceptedTimeInWindow
  <2> SUFFICES ASSUME IInv, NEW r \in Requests, NEW k \in DOMAIN accepted[r]
               PROVE  accepted[r][k].event.time
                        \in (begun[r] - Limits.PastSkew)..(clock + Limits.FutureSkew)
    BY Zenon DEF AcceptedTimeInWindow
  <2> DEFINE e == Sent(r, accepted[r][k].index)
  <2>1. PICK t \in begun[r]..clock :
          accepted[r][k].event = Contract!Stored(e, input[r].key, t)
    BY AcceptedIsStored
  <2>2. t \in Int /\ begun[r] \in Int /\ clock \in Int /\ begun[r] <= t /\ t <= clock
    BY DEF IInv, TypeOK
  <2>3. accepted[r][k].event.time \in (t - Limits.PastSkew)..(t + Limits.FutureSkew)
    <3>1. e \in Events /\ Contract!Faults(e) = {}
      BY AcceptedIsStored
    <3> HIDE DEF e
    <3> QED
      BY <2>1, <2>2, <3>1, StoredFits
  <2>4. Limits.PastSkew \in Int /\ Limits.FutureSkew \in Int
    BY LimitsPositive
  <2> QED
    BY <2>2, <2>3, <2>4
<1> QED
  BY Inductive, <1>1, PTL

=============================================================================
