------------------------- MODULE MCIngestValidation -------------------------
(* A small instance of IngestValidation: the shipped limits, except for     *)
(* batches of two, and one event for each thing the rules tell apart.       *)
EXTENDS IngestValidation

MCConfigured == [l \in DOMAIN DefaultLimits |->
                   CASE l = "MaxEventsPerRequest" -> 2
                     [] l = "MaxCityLen" -> -1
                     [] OTHER -> 0]

Obj(e) == [json |-> "object", event |-> e]
Null == [json |-> "null", event |-> EmptyEvent]
Malformed == [json |-> "malformed", event |-> EmptyEvent]

Bare == [EmptyEvent EXCEPT !.name = [shape |-> "snake", len |-> 64]]
Plain == [Bare EXCEPT !.id = "uuid",
                      !.time = [shape |-> "instant", at |-> 0],
                      !.text = [f \in TextFields |-> 64],
                      !.country = "code", !.device = "known",
                      !.revenue = "fits", !.currency = "code",
                      !.props = [shape |-> "object", raw |-> 8192, compact |-> 8000]]
\* One hour too far ahead, and exactly as old as is allowed, when the clock is 0.
Ahead == [Plain EXCEPT !.time.at = 25]
Old == [Plain EXCEPT !.time.at = -720]
\* Everything that can be repaired needs it.
Messy == [Plain EXCEPT !.text = [f \in TextFields |-> 129],
                       !.url = [f \in UrlFields |->
                                  [len |-> 3000, sensitive |-> TRUE, kept |-> 2049]],
                       !.country = "other", !.device = "other", !.currency = "other"]
MessyPoor == [Messy EXCEPT !.revenue = "unfit"]
Heavy == [Plain EXCEPT !.props = [shape |-> "object", raw |-> 8193, compact |-> 8193]]
\* Too long only because of its white space.
Indented == [Plain EXCEPT !.props = [shape |-> "object", raw |-> 8193, compact |-> 8000]]
ListProps == [Plain EXCEPT !.props = [shape |-> "other", raw |-> 2, compact |-> 2]]

From(key, body, events) == [key |-> key, body |-> body, events |-> events]

MCInputs ==
  {From("s1", Empty, <<Obj(Bare), Obj(Ahead)>>),
   From("s1", "s1", <<Obj(Messy), Null>>),
   From("s2", Empty, <<Obj(MessyPoor), Obj(Old)>>),
   From("s2", Empty, <<Malformed, Obj(Heavy)>>),
   From("s1", Empty, <<Obj([Plain EXCEPT !.name.len = 65]), Obj(ListProps)>>),
   From("s2", Empty, <<Obj([Plain EXCEPT !.id = "malformed"]),
                    Obj([Plain EXCEPT !.time.shape = "unparseable"])>>),
   From("s1", Empty, <<Obj([Plain EXCEPT !.name.shape = "other"]), Obj(Indented)>>),
   From("s1", "s2", <<Obj(Plain)>>),
   From("s1", Empty, <<>>),
   From("s1", Empty, <<Null, Null, Null>>)}
=============================================================================
