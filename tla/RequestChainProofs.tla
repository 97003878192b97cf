-------------------------- MODULE RequestChainProofs --------------------------
(***************************************************************************)
(* Proofs about RequestChain, for any set of requests and any limit.       *)
(***************************************************************************)
EXTENDS RequestChain, SequenceTheorems, TLAPS

\* The frame the logger leaves.
LoggerFrame == IF req.polled THEN "skipped" ELSE "Logger"

Depth == Len(stack)

\* Frames lie in the order of the chain, so Recover's is always the second.
Stacked ==
  /\ stack \in Seq(Middleware)
  /\ Depth >= 1 => stack[1] = "RequestID"
  /\ Depth >= 2 => stack[2] = "Recover"
  /\ Depth >= 3 => stack[3] = LoggerFrame
  /\ \A k \in 4..Depth : stack[k] \in {"CORS", "MaxBodySize"}

\* On the way in, nothing has been answered, and the first three middleware
\* have stacked themselves; a panic finds at least Recover.
Inbound ==
  /\ Redirected => pos = 1 /\ stack = <<>> /\ ~panicking /\ outcome = "none"
  /\ ~Over /\ ~panicking => /\ ~resp.sent /\ resp.envelope = NoEnvelope
                            /\ ~done /\ outcome = "none"
                            /\ IF pos <= 4 THEN Depth = pos - 1 ELSE Depth >= 3
  /\ panicking => Depth >= 2 /\ ~done /\ Panicked /\ pos > 4
  /\ done => stack = <<>>
  /\ done => resp.sent

\* The line is written when the logger's frame is left, or Recover's by a panic.
Logged ==
  /\ Depth >= 3 \/ panicking \/ ~Over \/ Redirected => log = <<>>
  /\ Over /\ ~Redirected /\ ~panicking /\ Panicked =>
       Depth <= 1 /\ log = <<[kind |-> "panic", id |-> id, status |-> 0]>>
  /\ Over /\ ~Redirected /\ ~panicking /\ ~Panicked /\ Depth < 3 =>
       log = IF req.polled THEN <<>> ELSE <<Line>>

\* The id is settled by the first middleware; a panic on its way up has sent a
\* header only if its answer was broken off, and then with 200; one that was
\* caught has the status that follows, and carries the envelope.
Named ==
  /\ pos > 1 => /\ id # NoId /\ resp.id = id
                /\ req.inbound # NoId => id = req.inbound
  /\ resp.envelope \in {NoEnvelope, resp.id}
  /\ panicking => (resp.sent <=> outcome = "broken_off")
  /\ outcome = "broken_off" => resp.status = 200
  /\ outcome = "panic" /\ ~panicking => resp.status = 500
  /\ Panicked /\ ~panicking => resp.envelope = id

Bounded ==
  /\ consumed <= BodyLimit
  /\ outcome = "served" /\ req.route = "api" => req.body <= BodyLimit

IInv == TypeOK /\ Stacked /\ Inbound /\ Logged /\ Named /\ Bounded

-----------------------------------------------------------------------------
(* Lemmas about the chain and the stack *)

Frontal == {"RequestID", "Recover", "Logger", "CORS"}

\* Whatever the route, the shared middleware come first and only once.
LEMMA ChainShape ==
  ASSUME req \in Inputs, ~Redirected
  PROVE  /\ Len(Chain) \in {5, 6}
         /\ Chain[1] = "RequestID" /\ Chain[2] = "Recover"
         /\ Chain[3] = "Logger" /\ Chain[4] = "CORS"
         /\ \A k \in 5..Len(Chain) : Chain[k] \notin Frontal
         /\ \A k \in 5..Len(Chain) : Chain[k] = "handler" => k = Len(Chain)
<1>1. req.route \in {"api", "get", "unknown", "wrong_method"}
  BY InputsAssumption DEF Redirected
<1>2. Chain = <<"RequestID", "Recover", "Logger", "CORS">> \o RouteChain[req.route]
  BY DEF Chain, Shared
<1>3. CASE req.route = "api"
  <2>1. Chain = <<"RequestID", "Recover", "Logger", "CORS">> \o <<"MaxBodySize", "handler">>
    BY <1>2, <1>3 DEF RouteChain
  <2> QED
    BY <2>1 DEF Frontal
<1>4. CASE req.route = "get"
  <2>1. Chain = <<"RequestID", "Recover", "Logger", "CORS">> \o <<"handler">>
    BY <1>2, <1>4 DEF RouteChain
  <2> QED
    BY <2>1 DEF Frontal
<1>5. CASE req.route = "unknown"
  <2>1. Chain = <<"RequestID", "Recover", "Logger", "CORS">> \o <<"NotFoundHandler">>
    BY <1>2, <1>5 DEF RouteChain
  <2> QED
    BY <2>1 DEF Frontal
<1>6. CASE req.route = "wrong_method"
  <2>1. Chain = <<"RequestID", "Recover", "Logger", "CORS">> \o <<"MethodNotAllowedHandler">>
    BY <1>2, <1>6 DEF RouteChain
  <2> QED
    BY <2>1 DEF Frontal
<1> QED
  BY <1>1, <1>3, <1>4, <1>5, <1>6

\* Where a middleware is called.
LEMMA Called ==
  ASSUME req \in Inputs, pos \in 1..Len(Chain) + 1, NEW m, Calling(m)
  PROVE  /\ ~done /\ ~panicking /\ ~Over /\ ~Redirected
         /\ m = "RequestID" <=> pos = 1
         /\ m = "Recover" <=> pos = 2
         /\ m = "Logger" <=> pos = 3
         /\ m = "CORS" <=> pos = 4
         /\ m \notin Frontal <=> pos > 4
<1>1. ~Redirected
  BY DEF Calling, Over, Redirected, Chain
<1>2. ~done /\ ~panicking /\ ~Over /\ Chain[pos] = m
  BY DEF Calling
<1>3. pos \in 1..Len(Chain)
  BY <1>1, <1>2, ChainShape DEF Over
<1> QED
  BY <1>1, <1>2, <1>3, ChainShape DEF Frontal

LEMMA PrefixLength ==
  ASSUME NEW S, NEW s \in Seq(S), NEW n \in 0..Len(s)
  PROVE  Len(SubSeq(s, 1, n)) = n
OBVIOUS

LEMMA AllButLast ==
  ASSUME NEW S, NEW s \in Seq(S), Len(s) \in Nat \ {0}
  PROVE  /\ SubSeq(s, 1, Len(s) - 1) \in Seq(S)
         /\ Len(SubSeq(s, 1, Len(s) - 1)) = Len(s) - 1
         /\ \A k \in 1..Len(s) - 1 : SubSeq(s, 1, Len(s) - 1)[k] = s[k]
<1>1. \A k \in 1..Len(s) - 1 : s[k] \in S
  BY ElementOfSeq
<1>2. Len(s) - 1 \in Int /\ 1 \in Int
  OBVIOUS
<1>3. SubSeq(s, 1, Len(s) - 1) \in Seq(S)
  BY <1>1, <1>2, SubSeqProperties, Zenon
<1>4. Len(SubSeq(s, 1, Len(s) - 1)) = Len(s) - 1
  <2>1. Len(s) - 1 \in 0..Len(s)
    OBVIOUS
  <2> QED
    BY <2>1, PrefixLength
<1>5. \A k \in 1..Len(s) - 1 : SubSeq(s, 1, Len(s) - 1)[k] = s[k]
  OBVIOUS
<1> QED
  BY <1>3, <1>4, <1>5

LEMMA DepthType ==
  ASSUME Stacked
  PROVE  stack \in Seq(Middleware) /\ Depth \in Nat /\ (Depth = 0 <=> stack = <<>>)
<1>1. stack \in Seq(Middleware)
  BY DEF Stacked
<1> QED
  BY <1>1, EmptySeq, LenProperties DEF Depth

\* A frame on top.
LEMMA Pushed ==
  ASSUME NEW m \in Middleware
  PROVE  /\ Stacked /\ stack' = Append(stack, m) /\ req' = req
         /\ Depth = 0 => m = "RequestID"
         /\ Depth = 1 => m = "Recover"
         /\ Depth = 2 => m = LoggerFrame
         /\ Depth > 2 => m \in {"CORS", "MaxBodySize"}
         => Stacked' /\ Depth' = Depth + 1
<1>1. SUFFICES ASSUME Stacked, stack' = Append(stack, m), req' = req,
                      Depth = 0 => m = "RequestID",
                      Depth = 1 => m = "Recover",
                      Depth = 2 => m = LoggerFrame,
                      Depth > 2 => m \in {"CORS", "MaxBodySize"}
               PROVE  Stacked' /\ Depth' = Depth + 1
  OBVIOUS
<1>2. stack \in Seq(Middleware) /\ Depth \in Nat
  BY <1>1, DepthType
<1>3. /\ stack' \in Seq(Middleware)
      /\ Depth' = Depth + 1
      /\ \A k \in 1..Depth : stack'[k] = stack[k]
      /\ stack'[Depth + 1] = m
  BY <1>1, <1>2, AppendProperties DEF Depth
<1>4. LoggerFrame' = LoggerFrame
  BY <1>1 DEF LoggerFrame
<1>5. /\ Depth = 0 => m = "RequestID"
      /\ Depth = 1 => m = "Recover"
      /\ Depth = 2 => m = LoggerFrame
      /\ Depth > 2 => m \in {"CORS", "MaxBodySize"}
  BY <1>1
<1>6. \A k \in 4..Depth + 1 : stack'[k] \in {"CORS", "MaxBodySize"}
  <2> SUFFICES ASSUME NEW k \in 4..Depth + 1 PROVE stack'[k] \in {"CORS", "MaxBodySize"}
    OBVIOUS
  <2>1. CASE k = Depth + 1
    BY <1>2, <1>3, <1>5, <2>1
  <2>2. CASE k # Depth + 1
    <3>1. k \in 4..Depth /\ k \in 1..Depth
      BY <1>2, <2>2
    <3>2. stack[k] \in {"CORS", "MaxBodySize"}
      BY <1>1, <3>1 DEF Stacked
    <3> QED
      BY <1>3, <3>1, <3>2
  <2> QED
    BY <2>1, <2>2
<1>7. Depth + 1 >= 1 => stack'[1] = "RequestID"
  <2>1. Depth >= 1 => stack[1] = "RequestID"
    BY <1>1 DEF Stacked
  <2> QED
    BY <1>2, <1>3, <1>5, <2>1
<1>8. Depth + 1 >= 2 => stack'[2] = "Recover"
  <2>1. Depth >= 2 => stack[2] = "Recover"
    BY <1>1 DEF Stacked
  <2> QED
    BY <1>2, <1>3, <1>5, <2>1
<1>9. Depth + 1 >= 3 => stack'[3] = LoggerFrame
  <2>1. Depth >= 3 => stack[3] = LoggerFrame
    BY <1>1 DEF Stacked
  <2> QED
    BY <1>2, <1>3, <1>5, <2>1
<1> QED
  BY <1>3, <1>4, <1>6, <1>7, <1>8, <1>9 DEF Stacked

\* The top frame off.
LEMMA Popped ==
  ASSUME Stacked, stack # <<>>, Pop, req' = req
  PROVE  /\ Stacked' /\ Depth' = Depth - 1
         /\ Top = "Recover" <=> Depth = 2
         /\ Top = "Logger" <=> Depth = 3 /\ ~req.polled
<1>1. stack \in Seq(Middleware) /\ Depth \in Nat \ {0}
  BY DepthType
<1>2. /\ stack' \in Seq(Middleware)
      /\ Depth' = Depth - 1
      /\ \A k \in 1..Depth - 1 : stack'[k] = stack[k]
  BY <1>1, AllButLast DEF Pop, Depth
<1>3. LoggerFrame' = LoggerFrame
  BY DEF LoggerFrame
<1>4. Stacked'
  BY <1>1, <1>2, <1>3 DEF Stacked
<1>5. Top = stack[Depth]
  BY DEF Top, Depth
<1>6. Top = "Recover" <=> Depth = 2
  BY <1>1, <1>5 DEF Stacked, LoggerFrame
<1>7. Top = "Logger" <=> Depth = 3 /\ ~req.polled
  BY <1>1, <1>5 DEF Stacked, LoggerFrame
<1> QED
  BY <1>2, <1>4, <1>6, <1>7

-----------------------------------------------------------------------------
(* The invariant, action by action *)

\* What no step changes.
LEMMA Fixed ==
  ASSUME UNCHANGED <<origins, req>>
  PROVE  /\ Redirected' = Redirected /\ Chain' = Chain
         /\ Over' <=> pos' > Len(Chain)
BY DEF Redirected, Chain, Over, RouteChain, Shared

LEMMA InitEstablishes == Init => IInv
<1> SUFFICES ASSUME Init PROVE IInv
  OBVIOUS
<1>1. /\ req \in Inputs /\ pos = 1 /\ stack = <<>> /\ log = <<>>
      /\ panicking = FALSE /\ done = FALSE /\ outcome = "none" /\ consumed = 0
      /\ origins \in {"none", "all", "listed"} /\ id = NoId
      /\ resp = [id |-> NoId, status |-> 200, sent |-> FALSE, envelope |-> NoEnvelope]
  BY DEF Init
<1>2. Depth = 0 /\ stack \in Seq(Middleware)
  BY <1>1, EmptySeq DEF Depth
<1>3. Len(Chain) \in Nat /\ (~Redirected => ~Over)
  <2>1. CASE Redirected
    <3>1. Chain = <<>>
      BY <2>1 DEF Chain
    <3> QED
      BY <2>1, <3>1
  <2>2. CASE ~Redirected
    BY <1>1, <2>2, ChainShape DEF Over
  <2> QED
    BY <2>1, <2>2
<1>4. TypeOK
  <2>1. pos \in 1..Len(Chain) + 1
    BY <1>1, <1>3
  <2>2. log \in Seq(Lines)
    BY <1>1, EmptySeq
  <2>3. resp \in Responses
    BY <1>1 DEF Responses, Statuses, Ids
  <2>4. id \in Ids /\ panicking \in BOOLEAN /\ done \in BOOLEAN
    BY <1>1 DEF Ids
  <2> QED
    BY <1>1, <1>2, <2>1, <2>2, <2>3, <2>4 DEF TypeOK
<1>5. Stacked
  BY <1>2 DEF Stacked
<1>6. Inbound
  BY <1>1, <1>2 DEF Inbound, Panicked
<1>7. Logged
  BY <1>1, <1>3 DEF Logged, Panicked
<1>8. Named
  BY <1>1 DEF Named, Panicked
<1>9. Bounded
  BY <1>1, BodyLimitAssumption DEF Bounded
<1> QED
  BY <1>4, <1>5, <1>6, <1>7, <1>8, <1>9 DEF IInv

\* A middleware that calls c.Next before anything was answered.
LEMMA DescendKeeps ==
  ASSUME IInv, NEW m, Calling(m), NEW f \in Middleware, Descend(f),
         UNCHANGED <<origins, req, panicking, log, consumed, outcome, done>>,
         m = "RequestID" => f = "RequestID",
         m = "Recover" => f = "Recover",
         m = "Logger" => f = LoggerFrame,
         m \notin {"RequestID", "Recover", "Logger"} => f \in {"CORS", "MaxBodySize"},
         resp' \in Responses,
         id' \in Ids, ~resp'.sent, resp'.envelope = NoEnvelope, Named'
  PROVE  IInv'
<1>1. /\ pos \in 1..Len(Chain) + 1 /\ req \in Inputs
      /\ TypeOK /\ Stacked /\ Inbound /\ Logged /\ Bounded
  BY DEF IInv, TypeOK
<1>2. /\ ~done /\ ~panicking /\ ~Over /\ ~Redirected
      /\ m = "RequestID" <=> pos = 1
      /\ m = "Recover" <=> pos = 2
      /\ m = "Logger" <=> pos = 3
  BY <1>1, Called
<1>3. Redirected' = Redirected /\ Chain' = Chain /\ (Over' <=> pos' > Len(Chain))
  BY Fixed
<1>4. Len(Chain) \in {5, 6} /\ pos \in 1..Len(Chain) /\ pos' = pos + 1
  BY <1>1, <1>2, ChainShape DEF Over, Descend
<1>5. /\ Depth \in Nat
      /\ IF pos <= 4 THEN Depth = pos - 1 ELSE Depth >= 3
  BY <1>1, <1>2, DepthType DEF Inbound
<1>6. Stacked' /\ Depth' = Depth + 1
  <2>1. /\ Depth = 0 => f = "RequestID"
        /\ Depth = 1 => f = "Recover"
        /\ Depth = 2 => f = LoggerFrame
        /\ Depth > 2 => f \in {"CORS", "MaxBodySize"}
    BY <1>2, <1>4, <1>5
  <2> QED
    BY <1>1, <2>1, Pushed DEF Descend
<1>7. TypeOK'
  <2>1. pos' \in 1..Len(Chain)' + 1
    BY <1>3, <1>4
  <2>2. stack' \in Seq(Middleware)
    BY <1>6 DEF Stacked
  <2> QED
    BY <1>1, <2>1, <2>2 DEF TypeOK
<1>8. Inbound'
  BY <1>1, <1>2, <1>3, <1>4, <1>5, <1>6 DEF Inbound
<1>9. log = <<>> /\ outcome = "none"
  BY <1>1, <1>2 DEF Logged, Inbound
<1>10. Logged'
  BY <1>2, <1>3, <1>4, <1>5, <1>6, <1>9 DEF Logged, Panicked
<1>11. Bounded'
  BY <1>1 DEF Bounded
<1> QED
  BY <1>6, <1>7, <1>8, <1>10, <1>11 DEF IInv

LEMMA RequestIDKeeps == IInv /\ RequestID => IInv'
<1>1. SUFFICES ASSUME IInv, RequestID PROVE IInv'
  OBVIOUS
<1>2. /\ pos \in 1..Len(Chain) + 1 /\ req \in Inputs
      /\ TypeOK /\ Inbound /\ Named
  BY <1>1 DEF IInv, TypeOK
<1>3. Calling("RequestID") /\ ~Over /\ ~panicking /\ pos = 1
  BY <1>1, <1>2, Called DEF RequestID
<1>4. ~resp.sent /\ resp.envelope = NoEnvelope /\ resp \in Responses
  BY <1>2, <1>3 DEF Inbound, TypeOK
<1>5. id' \in Ids /\ id' # NoId /\ (req.inbound # NoId => id' = req.inbound)
  <2>1. CASE req.inbound # NoId
    BY <1>1, <1>2, <2>1 DEF RequestID, Ids
  <2>2. CASE req.inbound = NoId
    BY <1>1, <2>2 DEF RequestID, Ids, NoId
  <2> QED
    BY <2>1, <2>2
<1>6. resp' = [resp EXCEPT !.id = id']
  BY <1>1 DEF RequestID
<1>7. /\ resp' \in Responses /\ resp'.id = id'
      /\ ~resp'.sent /\ resp'.envelope = NoEnvelope
  BY <1>4, <1>5, <1>6 DEF Responses
<1>8. Named'
  BY <1>1, <1>2, <1>3, <1>5, <1>7 DEF Named, RequestID, Inbound, Panicked
<1> QED
  BY <1>1, <1>2, <1>5, <1>7, <1>8, DescendKeeps DEF RequestID, Middleware

\* Nothing that is said of the id changes as long as it does not.
LEMMA NamedKept ==
  ASSUME IInv, UNCHANGED <<req, id, resp, panicking, outcome>>, pos > 1, pos' > 1
  PROVE  Named'
BY DEF IInv, Named, Panicked

\* A middleware behind the first that only calls c.Next.
LEMMA NextKeeps ==
  ASSUME IInv, NEW m, NEW f \in Middleware
  PROVE  /\ Calling(m) /\ m # "RequestID" /\ Descend(f)
         /\ UNCHANGED <<origins, req, panicking, id, resp, log, consumed, outcome, done>>
         /\ m = "Recover" => f = "Recover"
         /\ m = "Logger" => f = LoggerFrame
         /\ m \notin {"RequestID", "Recover", "Logger"} => f \in {"CORS", "MaxBodySize"}
         => IInv'
<1>1. SUFFICES ASSUME Calling(m), m # "RequestID", Descend(f),
                      UNCHANGED <<origins, req, panicking, id, resp, log, consumed,
                                  outcome, done>>,
                      m = "Recover" => f = "Recover",
                      m = "Logger" => f = LoggerFrame,
                      m \notin {"RequestID", "Recover", "Logger"} =>
                        f \in {"CORS", "MaxBodySize"}
               PROVE  IInv'
  OBVIOUS
<1>2. /\ pos \in 1..Len(Chain) + 1 /\ req \in Inputs
      /\ TypeOK /\ Inbound /\ Named
  BY DEF IInv, TypeOK
<1>3. ~Over /\ ~panicking /\ pos # 1
  BY <1>1, <1>2, Called
<1>4. pos > 1 /\ pos' > 1
  <2>1. pos' = pos + 1
    BY <1>1 DEF Descend
  <2> QED
    BY <1>2, <1>3, <2>1
<1>5. Named'
  BY <1>1, <1>4, NamedKept
<1>6. /\ resp \in Responses /\ id \in Ids
      /\ ~resp.sent /\ resp.envelope = NoEnvelope
  BY <1>2, <1>3 DEF TypeOK, Inbound
<1>7. /\ resp' \in Responses /\ id' \in Ids
      /\ ~resp'.sent /\ resp'.envelope = NoEnvelope
  BY <1>1, <1>6
<1> QED
  BY <1>1, <1>5, <1>7, DescendKeeps

LEMMA RecoverKeeps == IInv /\ Recover => IInv'
BY NextKeeps DEF Recover, Middleware

LEMMA LoggerKeeps == IInv /\ Logger => IInv'
<1>1. SUFFICES ASSUME IInv, Logger PROVE IInv'
  OBVIOUS
<1>2. LoggerFrame \in Middleware /\ Descend(LoggerFrame)
  BY <1>1 DEF Logger, LoggerFrame, Middleware
<1>3. /\ Calling("Logger")
      /\ UNCHANGED <<origins, req, panicking, id, resp, log, consumed, outcome, done>>
  BY <1>1 DEF Logger
<1> QED
  BY <1>1, <1>2, <1>3, NextKeeps

\* The request is answered on the way in, by whatever is called: the frames
\* stay, and only the handler is behind.
LEMMA AnswerKeeps ==
  ASSUME IInv, NEW m
  PROVE  /\ Calling(m) /\ m \notin {"RequestID", "Recover", "Logger"}
         /\ pos' = Len(Chain) + 1
         /\ UNCHANGED <<origins, req, stack, panicking, id, log, done>>
         /\ outcome' \in {"none", "served", "refused"}
         /\ resp' \in Responses /\ resp'.id = resp.id
         /\ resp'.envelope \in {NoEnvelope, id}
         /\ consumed' \in Nat /\ Bounded'
         => IInv'
<1>1. SUFFICES ASSUME Calling(m), m \notin {"RequestID", "Recover", "Logger"},
                      pos' = Len(Chain) + 1,
                      UNCHANGED <<origins, req, stack, panicking, id, log, done>>,
                      outcome' \in {"none", "served", "refused"},
                      resp' \in Responses, resp'.id = resp.id,
                      resp'.envelope \in {NoEnvelope, id},
                      consumed' \in Nat, Bounded'
               PROVE  IInv'
  OBVIOUS
<1>2. /\ pos \in 1..Len(Chain) + 1 /\ req \in Inputs
      /\ TypeOK /\ Stacked /\ Inbound /\ Logged /\ Named
  BY DEF IInv, TypeOK
<1>3. ~done /\ ~Over /\ ~panicking /\ ~Redirected /\ pos \notin {1, 2, 3}
  BY <1>1, <1>2, Called
<1>4. Depth >= 3 /\ Depth \in Nat /\ pos > 1
  <2>1. IF pos <= 4 THEN Depth = pos - 1 ELSE Depth >= 3
    BY <1>2, <1>3 DEF Inbound
  <2> QED
    BY <1>2, <1>3, <2>1, DepthType
<1>5. log = <<>>
  BY <1>2, <1>3 DEF Logged, Panicked
<1>6. Redirected' = Redirected /\ Chain' = Chain /\ Depth' = Depth
  BY <1>1, Fixed DEF Depth
<1>7. Len(Chain) \in {5, 6}
  BY <1>2, <1>3, ChainShape
<1>8. Over'
  BY <1>1, <1>6, <1>7 DEF Over
<1>9. TypeOK'
  <2>1. pos' \in 1..Len(Chain)' + 1
    BY <1>1, <1>6, <1>7
  <2> QED
    BY <1>1, <1>2, <2>1 DEF TypeOK
<1>10. Stacked'
  <2>1. LoggerFrame' = LoggerFrame
    BY <1>1 DEF LoggerFrame
  <2> QED
    BY <1>1, <1>2, <1>6, <2>1 DEF Stacked
<1>11. Inbound'
  BY <1>1, <1>3, <1>6, <1>8 DEF Inbound
<1>12. Logged'
  BY <1>1, <1>4, <1>5, <1>6 DEF Logged, Panicked
<1>13. Named'
  BY <1>1, <1>2, <1>3, <1>4 DEF Named, Panicked
<1> QED
  BY <1>1, <1>9, <1>10, <1>11, <1>12, <1>13 DEF IInv

\* What WithStatus and WithError make of an answer.
LEMMA Answers ==
  ASSUME TypeOK, NEW status \in Statuses
  PROVE  /\ WithStatus(status) \in Responses /\ WithError(status) \in Responses
         /\ WithStatus(status).id = resp.id /\ WithError(status).id = resp.id
         /\ WithStatus(status).envelope = resp.envelope
         /\ WithError(status).envelope = id
         /\ ~resp.sent => WithStatus(status).status = status /\ WithError(status).status = status
         /\ resp.sent => WithError(status).status = resp.status
         /\ WithStatus(status).sent /\ WithError(status).sent
<1>1. resp \in Responses /\ id \in Ids
  BY DEF TypeOK
<1>2. /\ WithStatus(status) \in Responses
      /\ WithStatus(status).id = resp.id /\ WithStatus(status).envelope = resp.envelope
      /\ ~resp.sent => WithStatus(status).status = status
      /\ resp.sent => WithStatus(status).status = resp.status
      /\ WithStatus(status).sent
  BY <1>1 DEF WithStatus, Responses
<1>3. WithError(status) = [WithStatus(status) EXCEPT !.envelope = id]
  BY DEF WithError
<1> QED
  BY <1>1, <1>2, <1>3 DEF Responses

\* What holds wherever a middleware is called: nothing is answered or logged.
LEMMA Unanswered ==
  ASSUME IInv, NEW m, Calling(m)
  PROVE  /\ TypeOK /\ Stacked /\ Inbound /\ Logged /\ Named /\ Bounded
         /\ req \in Inputs /\ pos \in 1..Len(Chain) + 1
         /\ ~resp.sent /\ resp.envelope = NoEnvelope /\ outcome = "none"
         /\ log = <<>> /\ ~Over /\ ~panicking /\ ~done /\ ~Redirected
<1>1. /\ TypeOK /\ Stacked /\ Inbound /\ Logged /\ Named /\ Bounded
      /\ req \in Inputs /\ pos \in 1..Len(Chain) + 1
  BY DEF IInv, TypeOK
<1>2. ~Over /\ ~panicking /\ ~done /\ ~Redirected
  BY <1>1, Called
<1> QED
  BY <1>1, <1>2 DEF Inbound, Logged

\* CORS lets a request by without a frame of its own.
LEMMA PassKeeps ==
  ASSUME IInv
  PROVE  /\ Calling("CORS") /\ Pass
         /\ UNCHANGED <<origins, req, panicking, id, resp, log, consumed, outcome, done>>
         => IInv'
<1>1. SUFFICES ASSUME Calling("CORS"), Pass,
                      UNCHANGED <<origins, req, panicking, id, resp, log, consumed,
                                  outcome, done>>
               PROVE  IInv'
  OBVIOUS
<1>2. /\ TypeOK /\ Stacked /\ Inbound /\ Logged /\ Named /\ Bounded
      /\ req \in Inputs /\ pos \in 1..Len(Chain) + 1
      /\ ~resp.sent /\ resp.envelope = NoEnvelope /\ outcome = "none"
      /\ log = <<>> /\ ~Over /\ ~panicking /\ ~done /\ ~Redirected
  BY <1>1, Unanswered
<1>3. pos = 4 /\ pos' = 5 /\ stack' = stack
  <2>1. pos = 4
    BY <1>1, <1>2, Called
  <2> QED
    BY <1>1, <2>1 DEF Pass
<1>4. Depth = 3
  BY <1>2, <1>3 DEF Inbound, Panicked
<1>5. Redirected' = Redirected /\ Chain' = Chain /\ Depth' = Depth
  BY <1>1, <1>3, Fixed DEF Depth
<1>6. Len(Chain) \in {5, 6}
  BY <1>2, ChainShape
<1>7. TypeOK'
  <2>1. pos' \in 1..Len(Chain)' + 1
    BY <1>3, <1>5, <1>6
  <2> QED
    BY <1>1, <1>2, <1>3, <2>1 DEF TypeOK
<1>8. Stacked'
  <2>1. LoggerFrame' = LoggerFrame
    BY <1>1 DEF LoggerFrame
  <2> QED
    BY <1>2, <1>3, <1>5, <2>1 DEF Stacked
<1>9. Inbound'
  BY <1>1, <1>2, <1>3, <1>4, <1>5 DEF Inbound, Panicked
<1>10. Logged'
  BY <1>1, <1>2, <1>4, <1>5 DEF Logged, Panicked
<1>11. Named'
  BY <1>1, <1>3, NamedKept
<1>12. Bounded'
  BY <1>1, <1>2 DEF Bounded
<1> QED
  BY <1>7, <1>8, <1>9, <1>10, <1>11, <1>12 DEF IInv

LEMMA CORSKeeps == IInv /\ CORS => IInv'
<1>1. SUFFICES ASSUME IInv, CORS PROVE IInv'
  OBVIOUS
<1>2. /\ Calling("CORS")
      /\ UNCHANGED <<origins, req, panicking, id, log, consumed, outcome, done>>
  BY <1>1 DEF CORS
<1>3. TypeOK /\ Bounded /\ resp.envelope = NoEnvelope
  BY <1>1, <1>2, Unanswered
<1>4. CASE Descend("CORS") /\ UNCHANGED resp
  BY <1>1, <1>2, <1>4, NextKeeps DEF Middleware
<1>5. CASE Pass /\ UNCHANGED resp
  BY <1>1, <1>2, <1>5, PassKeeps
<1>6. CASE \E status \in {204, 403} : resp' = WithStatus(status) /\ Aborting
  <2>1. PICK status \in {204, 403} : resp' = WithStatus(status) /\ Aborting
    BY <1>6
  <2>2. /\ resp' \in Responses /\ resp'.id = resp.id
        /\ resp'.envelope \in {NoEnvelope, id}
    BY <1>3, <2>1, Answers DEF Statuses
  <2>3. /\ pos' = Len(Chain) + 1
        /\ UNCHANGED <<origins, req, stack, panicking, id, log, done>>
    BY <1>2, <2>1 DEF Aborting
  <2>4. outcome' \in {"none", "served", "refused"} /\ consumed' \in Nat /\ Bounded'
    BY <1>1, <1>2, <1>3, Unanswered DEF TypeOK, Bounded
  <2> QED
    BY <1>1, <1>2, <2>2, <2>3, <2>4, AnswerKeeps
<1>7. \/ Descend("CORS") /\ UNCHANGED resp
      \/ Pass /\ UNCHANGED resp
      \/ \E status \in {204, 403} : resp' = WithStatus(status) /\ Aborting
  BY <1>1 DEF CORS
<1> QED
  BY <1>4, <1>5, <1>6, <1>7

\* A refusal with an envelope that goes past the rest of the chain.
LEMMA RefusalKeeps ==
  ASSUME IInv, NEW m, NEW status \in Statuses
  PROVE  /\ Calling(m) /\ m \notin {"RequestID", "Recover", "Logger"}
         /\ resp' = WithError(status) /\ Aborting
         /\ UNCHANGED <<origins, req, panicking, id, log, consumed, outcome, done>>
         => IInv'
<1>1. SUFFICES ASSUME Calling(m), m \notin {"RequestID", "Recover", "Logger"},
                      resp' = WithError(status), Aborting,
                      UNCHANGED <<origins, req, panicking, id, log, consumed,
                                  outcome, done>>
               PROVE  IInv'
  OBVIOUS
<1>2. TypeOK /\ Bounded /\ outcome = "none"
  BY <1>1, Unanswered
<1>3. /\ resp' \in Responses /\ resp'.id = resp.id
      /\ resp'.envelope \in {NoEnvelope, id}
  BY <1>1, <1>2, Answers
<1>4. /\ pos' = Len(Chain) + 1
      /\ UNCHANGED <<origins, req, stack, panicking, id, log, done>>
  BY <1>1 DEF Aborting
<1>5. outcome' \in {"none", "served", "refused"} /\ consumed' \in Nat /\ Bounded'
  BY <1>1, <1>2 DEF TypeOK, Bounded
<1> QED
  BY <1>1, <1>3, <1>4, <1>5, AnswerKeeps

LEMMA NoRouteKeeps == IInv /\ (NotFoundHandler \/ MethodNotAllowedHandler) => IInv'
<1>1. ASSUME IInv, NotFoundHandler PROVE IInv'
  BY <1>1, RefusalKeeps DEF NotFoundHandler, Statuses
<1>2. ASSUME IInv, MethodNotAllowedHandler PROVE IInv'
  BY <1>2, RefusalKeeps DEF MethodNotAllowedHandler, Statuses
<1> QED
  BY <1>1, <1>2

LEMMA MaxBodySizeKeeps == IInv /\ MaxBodySize => IInv'
<1>1. SUFFICES ASSUME IInv, MaxBodySize PROVE IInv'
  OBVIOUS
<1>2. /\ Calling("MaxBodySize")
      /\ UNCHANGED <<origins, req, panicking, id, log, consumed, outcome, done>>
  BY <1>1 DEF MaxBodySize
<1>3. CASE resp' = WithError(413) /\ Aborting
  BY <1>1, <1>2, <1>3, RefusalKeeps DEF Statuses
<1>4. CASE Descend("MaxBodySize") /\ UNCHANGED resp
  BY <1>1, <1>2, <1>4, NextKeeps DEF Middleware
<1> QED
  BY <1>1, <1>3, <1>4 DEF MaxBodySize

LEMMA ServeKeeps == IInv /\ Serve => IInv'
<1>1. SUFFICES ASSUME IInv, Serve PROVE IInv'
  OBVIOUS
<1>2. Calling("handler") /\ UNCHANGED <<origins, req, stack, panicking, id, log, done>>
  BY <1>1 DEF Serve, Pass
<1>3. /\ TypeOK /\ req \in Inputs /\ pos \in 1..Len(Chain) + 1
      /\ resp.envelope = NoEnvelope /\ ~Over /\ ~Redirected
  BY <1>1, <1>2, Unanswered
<1>4. pos' = Len(Chain) + 1
  <2>1. pos \in 1..Len(Chain) /\ pos > 4 /\ Chain[pos] = "handler"
    BY <1>2, <1>3, Called, ChainShape DEF Over, Calling, Frontal
  <2>2. pos = Len(Chain)
    BY <1>3, <2>1, ChainShape
  <2> QED
    BY <1>1, <2>2 DEF Serve, Pass
<1>5. req.body \in Nat /\ BodyLimit \in Nat
  BY <1>3, InputsAssumption, BodyLimitAssumption
<1>6. Readable \in Nat /\ Readable <= BodyLimit /\ (Readable >= req.body => req.body <= BodyLimit)
  BY <1>5 DEF Readable
<1>7. /\ outcome' \in {"served", "refused"} /\ req' = req
      /\ consumed' = IF req.route = "api" THEN Readable ELSE 0
      /\ outcome' = "served" /\ req.route = "api" => ~(consumed' < req.body)
      /\ resp' \in {WithError(413), WithStatus(200)}
  BY <1>1 DEF Serve
<1>8. consumed' \in Nat /\ consumed' <= BodyLimit
  BY <1>5, <1>6, <1>7
<1>9. outcome' = "served" /\ req.route = "api" => req.body <= BodyLimit
  BY <1>5, <1>6, <1>7
<1>10. Bounded'
  BY <1>7, <1>8, <1>9 DEF Bounded
<1>11. /\ resp' \in Responses /\ resp'.id = resp.id
       /\ resp'.envelope \in {NoEnvelope, id}
  BY <1>3, <1>7, Answers DEF Statuses
<1> QED
  BY <1>1, <1>2, <1>4, <1>7, <1>8, <1>10, <1>11, AnswerKeeps

LEMMA PanicKeeps == IInv /\ Panic => IInv'
<1>1. SUFFICES ASSUME IInv, Panic PROVE IInv'
  OBVIOUS
<1>2. /\ Calling("handler") /\ UNCHANGED <<origins, req, pos, stack, id, log, consumed, done>>
      /\ resp' \in {resp, WithStatus(200)} /\ panicking' = TRUE
      /\ outcome' = IF resp'.sent THEN "broken_off" ELSE "panic"
  BY <1>1 DEF Panic
<1>3. /\ TypeOK /\ Stacked /\ Inbound /\ Logged /\ Named /\ Bounded
      /\ req \in Inputs /\ pos \in 1..Len(Chain) + 1
      /\ ~resp.sent /\ resp.envelope = NoEnvelope
      /\ log = <<>> /\ ~Over /\ ~panicking /\ ~done /\ ~Redirected
  BY <1>1, <1>2, Unanswered
<1>4. pos > 4
  BY <1>2, <1>3, Called DEF Frontal
<1>5. Depth \in Nat /\ Depth >= 3
  BY <1>3, <1>4, DepthType DEF Inbound
<1>6. Redirected' = Redirected /\ Chain' = Chain /\ Depth' = Depth
  BY <1>2, Fixed DEF Depth
<1>7. /\ resp' \in Responses /\ resp'.id = resp.id /\ resp'.envelope = NoEnvelope
      /\ resp'.sent => resp'.status = 200
  <2>1. resp \in Responses /\ 200 \in Statuses
    BY <1>3 DEF TypeOK, Statuses
  <2> QED
    BY <1>2, <1>3, <2>1, Answers
<1>8. Panicked' /\ (resp'.sent <=> outcome' = "broken_off")
  BY <1>2 DEF Panicked
<1>9. TypeOK'
  BY <1>2, <1>3, <1>6, <1>7 DEF TypeOK
<1>10. Stacked'
  <2>1. LoggerFrame' = LoggerFrame
    BY <1>2 DEF LoggerFrame
  <2> QED
    BY <1>2, <1>3, <1>6, <2>1 DEF Stacked
<1>11. Inbound'
  BY <1>2, <1>3, <1>4, <1>5, <1>6, <1>8 DEF Inbound
<1>12. Logged'
  BY <1>2, <1>3, <1>5, <1>6 DEF Logged
<1>13. Named'
  BY <1>2, <1>3, <1>7, <1>8 DEF Named
<1>14. Bounded'
  BY <1>2, <1>3 DEF Bounded
<1> QED
  BY <1>9, <1>10, <1>11, <1>12, <1>13, <1>14 DEF IInv

LEMMA UnstackKeeps == IInv /\ Unstack => IInv'
<1>1. SUFFICES ASSUME IInv, Unstack PROVE IInv'
  OBVIOUS
<1>2. /\ ~panicking /\ Over /\ stack # <<>> /\ Pop
      /\ UNCHANGED <<origins, req, pos, panicking, id, resp, consumed, outcome, done>>
      /\ log' = IF Top = "Logger" THEN Append(log, Line) ELSE log
  BY <1>1 DEF Unstack
<1>3. TypeOK /\ Stacked /\ Inbound /\ Logged /\ Named /\ Bounded
  BY <1>1 DEF IInv
<1>4. ~done /\ ~Redirected
  BY <1>2, <1>3 DEF Inbound
<1>5. /\ Stacked' /\ Depth' = Depth - 1
      /\ Top = "Logger" <=> Depth = 3 /\ ~req.polled
  BY <1>2, <1>3, Popped
<1>6. Depth \in Nat /\ Depth > 0
  BY <1>2, <1>3, DepthType
<1>7. Redirected' = Redirected /\ Chain' = Chain /\ Over'
  BY <1>2, Fixed DEF Over
<1>8. Line \in Lines
  BY <1>3 DEF Line, Lines, TypeOK, Responses
<1>9. TypeOK'
  <2>1. log' \in Seq(Lines)
    <3>1. log \in Seq(Lines)
      BY <1>3 DEF TypeOK
    <3> QED
      BY <1>2, <1>8, <3>1, AppendProperties
  <2>2. stack' \in Seq(Middleware)
    BY <1>5 DEF Stacked
  <2> QED
    BY <1>2, <1>3, <1>7, <2>1, <2>2 DEF TypeOK
<1>10. Inbound'
  BY <1>2, <1>3, <1>4, <1>7 DEF Inbound, Panicked
<1>11. Logged'
  <2>1. Line' = Line /\ Panicked' = Panicked
    BY <1>2 DEF Line, Panicked
  <2>2. CASE Panicked
    <3>1. Depth = 1 /\ log = <<[kind |-> "panic", id |-> id, status |-> 0]>>
      BY <1>2, <1>3, <1>4, <1>6, <2>2 DEF Logged
    <3>2. log' = log /\ Depth' = 0
      BY <1>2, <1>5, <3>1
    <3> QED
      BY <1>2, <1>4, <1>7, <2>1, <2>2, <3>1, <3>2 DEF Logged
  <2>3. CASE ~Panicked /\ Depth > 3
    <3>1. log = <<>>
      BY <1>3, <1>6, <2>3 DEF Logged
    <3>2. log' = <<>> /\ Depth' >= 3 /\ ~(Depth' < 3)
      BY <1>2, <1>5, <1>6, <2>3, <3>1
    <3> QED
      BY <1>2, <2>1, <2>3, <3>2 DEF Logged
  <2>4. CASE ~Panicked /\ Depth = 3
    <3>1. log = <<>>
      BY <1>3, <2>4 DEF Logged
    <3>2. Append(<<>>, Line) = <<Line>>
      OBVIOUS
    <3>3. /\ log' = IF req.polled THEN <<>> ELSE <<Line>>
          /\ Depth' < 3 /\ ~(Depth' >= 3)
      BY <1>2, <1>5, <2>4, <3>1, <3>2
    <3> QED
      BY <1>2, <1>4, <1>7, <2>1, <2>4, <3>3 DEF Logged
  <2>5. CASE ~Panicked /\ Depth < 3
    <3>1. log = IF req.polled THEN <<>> ELSE <<Line>>
      BY <1>2, <1>3, <1>4, <2>5 DEF Logged
    <3>2. log' = log /\ Depth' < 3 /\ ~(Depth' >= 3)
      BY <1>2, <1>5, <1>6, <2>5
    <3> QED
      BY <1>2, <1>4, <1>7, <2>1, <2>5, <3>1, <3>2 DEF Logged
  <2> QED
    BY <1>6, <2>2, <2>3, <2>4, <2>5
<1>12. Named' /\ Bounded'
  BY <1>2, <1>3 DEF Named, Bounded, Panicked
<1> QED
  BY <1>5, <1>9, <1>10, <1>11, <1>12 DEF IInv

LEMMA UnwindKeeps == IInv /\ Unwind => IInv'
<1>1. SUFFICES ASSUME IInv, Unwind PROVE IInv'
  OBVIOUS
<1>2. /\ panicking /\ stack # <<>> /\ Pop
      /\ UNCHANGED <<origins, req, id, consumed, outcome, done>>
  BY <1>1 DEF Unwind
<1>3. TypeOK /\ Stacked /\ Inbound /\ Logged /\ Named /\ Bounded
  BY <1>1 DEF IInv
<1>4. /\ ~done /\ ~Redirected /\ Panicked /\ pos > 4 /\ Depth >= 2
      /\ log = <<>>
  BY <1>2, <1>3 DEF Inbound, Logged
<1>5. /\ Stacked' /\ Depth' = Depth - 1
      /\ Top = "Recover" <=> Depth = 2
  BY <1>2, <1>3, Popped
<1>6. Depth \in Nat
  BY <1>3, DepthType
<1>7. Redirected' = Redirected /\ Chain' = Chain /\ (Over' <=> pos' > Len(Chain))
  BY <1>2, Fixed
<1>8. req \in Inputs /\ pos \in Nat /\ Len(Chain) \in {5, 6}
  BY <1>3, <1>4, ChainShape DEF TypeOK
<1>9. stack' \in Seq(Middleware)
  BY <1>5 DEF Stacked
<1>10. Bounded'
  BY <1>2, <1>3 DEF Bounded
<1>11. Panicked' = Panicked
  BY <1>2 DEF Panicked
<1>12. CASE Depth = 2
  <2>1. /\ panicking' = FALSE /\ resp' = WithError(500) /\ pos' = Len(Chain) + 1
        /\ log' = Append(log, [kind |-> "panic", id |-> id, status |-> 0])
    BY <1>1, <1>5, <1>12 DEF Unwind, CaughtResponse
  <2>2. log' = <<[kind |-> "panic", id |-> id, status |-> 0]>>
    <3>1. Append(<<>>, [kind |-> "panic", id |-> id, status |-> 0])
            = <<[kind |-> "panic", id |-> id, status |-> 0]>>
      OBVIOUS
    <3> QED
      BY <1>4, <2>1, <3>1
  <2>3. /\ resp' \in Responses /\ resp'.id = resp.id /\ resp'.envelope = id
        /\ outcome = "panic" => resp'.status = 500
        /\ outcome = "broken_off" => resp'.status = 200
    <3>1. /\ 500 \in Statuses /\ (resp.sent <=> outcome = "broken_off")
          /\ (resp.sent => resp.status = 200) /\ resp \in Responses
      BY <1>2, <1>3 DEF Statuses, Named, TypeOK
    <3> QED
      BY <1>3, <2>1, <3>1, Answers DEF Responses
  <2>4. Depth' = 1 /\ Over'
    BY <1>5, <1>7, <1>8, <1>12, <2>1
  <2>5. TypeOK'
    <3>1. log' \in Seq(Lines)
      <4>1. [kind |-> "panic", id |-> id, status |-> 0] \in Lines
        BY <1>3 DEF Lines, TypeOK
      <4>2. log \in Seq(Lines)
        BY <1>3 DEF TypeOK
      <4> QED
        BY <2>1, <4>1, <4>2, AppendProperties
    <3>2. pos' \in 1..Len(Chain)' + 1
      BY <1>7, <1>8, <2>1
    <3> QED
      BY <1>2, <1>3, <1>9, <2>1, <2>3, <3>1, <3>2 DEF TypeOK
  <2>6. Inbound'
    BY <1>2, <1>4, <1>7, <1>11, <2>1, <2>4 DEF Inbound
  <2>7. Logged'
    BY <1>2, <1>4, <1>7, <1>11, <2>1, <2>2, <2>4 DEF Logged
  <2>8. Named'
    BY <1>2, <1>3, <1>4, <1>8, <1>11, <2>1, <2>3 DEF Named
  <2> QED
    BY <1>5, <1>10, <2>5, <2>6, <2>7, <2>8 DEF IInv
<1>13. CASE Depth > 2
  <2>1. UNCHANGED <<panicking, log, resp, pos>>
    <3>1. Top # "Recover"
      BY <1>5, <1>6, <1>13
    <3> QED
      BY <1>1, <3>1 DEF Unwind
  <2>2. Depth' >= 2
    BY <1>5, <1>6, <1>13
  <2>3. TypeOK'
    BY <1>2, <1>3, <1>7, <1>9, <2>1 DEF TypeOK
  <2>4. Inbound'
    BY <1>2, <1>3, <1>4, <1>7, <1>11, <2>1, <2>2 DEF Inbound
  <2>5. Logged'
    BY <1>2, <1>4, <1>7, <1>11, <2>1 DEF Logged
  <2>6. Named'
    BY <1>2, <1>3, <1>11, <2>1 DEF Named
  <2> QED
    BY <1>5, <1>10, <2>3, <2>4, <2>5, <2>6 DEF IInv
<1> QED
  BY <1>4, <1>6, <1>12, <1>13

LEMMA ReturnKeeps == IInv /\ Return => IInv'
<1>1. SUFFICES ASSUME IInv, Return PROVE IInv'
  OBVIOUS
<1>2. /\ ~done /\ stack = <<>> /\ ~Redirected /\ done' = TRUE
      /\ UNCHANGED <<origins, req, pos, stack, panicking, id, log, consumed, outcome>>
  BY <1>1 DEF Return
<1>3. TypeOK /\ Stacked /\ Inbound /\ Logged /\ Named /\ Bounded
  BY <1>1 DEF IInv
<1>4. Depth = 0
  BY <1>2, <1>3, DepthType
<1>5. ~panicking /\ Over
  BY <1>1, <1>3, <1>4 DEF Inbound, Return
<1>6. resp' = [resp EXCEPT !.sent = TRUE] /\ resp \in Responses
  BY <1>1, <1>3, <1>5 DEF Return, TypeOK
<1>7. /\ resp' \in Responses /\ resp'.sent = TRUE /\ resp'.id = resp.id
      /\ resp'.status = resp.status /\ resp'.envelope = resp.envelope
  BY <1>6 DEF Responses
<1>8. Redirected' = Redirected /\ Chain' = Chain /\ Over' /\ Depth' = Depth
  BY <1>2, <1>5, Fixed DEF Depth, Over
<1>9. TypeOK'
  BY <1>2, <1>3, <1>7, <1>8 DEF TypeOK
<1>10. Stacked'
  <2>1. LoggerFrame' = LoggerFrame
    BY <1>2 DEF LoggerFrame
  <2> QED
    BY <1>2, <1>3, <1>8, <2>1 DEF Stacked
<1>11. Inbound'
  BY <1>2, <1>5, <1>7, <1>8 DEF Inbound, Panicked
<1>12. Logged'
  <2>1. Line' = Line
    BY <1>2, <1>7 DEF Line
  <2> QED
    BY <1>2, <1>3, <1>5, <1>8, <2>1 DEF Logged, Panicked
<1>13. Named' /\ Bounded'
  BY <1>2, <1>3, <1>5, <1>7 DEF Named, Bounded, Panicked
<1> QED
  BY <1>9, <1>10, <1>11, <1>12, <1>13 DEF IInv

LEMMA RedirectKeeps == IInv /\ Redirect => IInv'
<1>1. SUFFICES ASSUME IInv, Redirect PROVE IInv'
  OBVIOUS
<1>2. /\ ~done /\ Redirected /\ done' = TRUE
      /\ resp' = [resp EXCEPT !.status = 301, !.sent = TRUE]
      /\ UNCHANGED <<origins, req, pos, stack, panicking, id, log, consumed, outcome>>
  BY <1>1 DEF Redirect
<1>3. TypeOK /\ Stacked /\ Inbound /\ Logged /\ Named /\ Bounded
  BY <1>1 DEF IInv
<1>4. pos = 1 /\ stack = <<>> /\ ~panicking /\ outcome = "none" /\ log = <<>>
  BY <1>2, <1>3 DEF Inbound, Logged, Panicked
<1>5. /\ resp' \in Responses /\ resp'.sent = TRUE /\ resp'.id = resp.id
      /\ resp'.envelope = resp.envelope
  <2>1. resp \in Responses /\ 301 \in Statuses
    BY <1>3 DEF TypeOK, Statuses
  <2>2. resp' = [resp EXCEPT !.status = 301, !.sent = TRUE]
    BY <1>2
  <2>3. resp' \in Responses
    BY <2>1, <2>2 DEF Responses
  <2>4. resp'.sent = TRUE /\ resp'.id = resp.id /\ resp'.envelope = resp.envelope
    BY <2>1, <2>2 DEF Responses
  <2> QED
    BY <2>3, <2>4
<1>6. /\ Redirected' = Redirected /\ Chain' = Chain /\ Depth' = Depth
      /\ Over' <=> pos' > Len(Chain)
  BY <1>2, Fixed DEF Depth
<1>7. Over'
  <2>1. Chain = <<>>
    BY <1>2 DEF Chain
  <2>2. Len(Chain) = 0
    BY <2>1
  <2> QED
    BY <1>2, <1>4, <1>6, <2>2
<1>8. TypeOK'
  BY <1>2, <1>3, <1>5, <1>6 DEF TypeOK
<1>9. Stacked'
  <2>1. LoggerFrame' = LoggerFrame
    BY <1>2 DEF LoggerFrame
  <2> QED
    BY <1>2, <1>3, <1>6, <2>1 DEF Stacked
<1>10. Inbound'
  BY <1>2, <1>4, <1>5, <1>6, <1>7 DEF Inbound, Panicked
<1>11. Logged'
  BY <1>2, <1>4, <1>6 DEF Logged, Panicked
<1>12. Named' /\ Bounded'
  BY <1>2, <1>3, <1>4, <1>5 DEF Named, Bounded, Panicked
<1> QED
  BY <1>8, <1>9, <1>10, <1>11, <1>12 DEF IInv

LEMMA StutterKeeps == IInv /\ UNCHANGED vars => IInv'
<1>1. SUFFICES ASSUME IInv, UNCHANGED vars PROVE IInv'
  OBVIOUS
<1>2. /\ UNCHANGED <<origins, req, pos, stack, panicking, id, resp, log>>
      /\ UNCHANGED <<consumed, outcome, done>>
  BY <1>1 DEF vars
<1>3. Redirected' = Redirected /\ Chain' = Chain /\ Depth' = Depth
  BY <1>2, Fixed DEF Depth
<1>4. (Over' <=> Over) /\ LoggerFrame' = LoggerFrame /\ Line' = Line
      /\ Panicked' = Panicked
  BY <1>2, <1>3 DEF Over, LoggerFrame, Line, Panicked
<1>5. TypeOK' /\ Stacked'
  BY <1>1, <1>2, <1>3, <1>4 DEF IInv, TypeOK, Stacked
<1>6. Inbound' /\ Logged'
  BY <1>1, <1>2, <1>3, <1>4 DEF IInv, Inbound, Logged
<1>7. Named' /\ Bounded'
  BY <1>1, <1>2, <1>4 DEF IInv, Named, Bounded
<1> QED
  BY <1>5, <1>6, <1>7 DEF IInv

-----------------------------------------------------------------------------
(* Theorems *)

\* The invariant holds in every reachable state.
THEOREM Inductive == Spec => []IInv
<1>1. IInv /\ [Next]_vars => IInv'
  <2> SUFFICES ASSUME IInv, [Next]_vars PROVE IInv'
    OBVIOUS
  <2>1. CASE Redirect
    BY <2>1, RedirectKeeps
  <2>2. CASE RequestID \/ Recover \/ Logger \/ CORS \/ MaxBodySize
    BY <2>2, RequestIDKeeps, RecoverKeeps, LoggerKeeps, CORSKeeps, MaxBodySizeKeeps
  <2>3. CASE Serve \/ Panic \/ NotFoundHandler \/ MethodNotAllowedHandler
    BY <2>3, ServeKeeps, PanicKeeps, NoRouteKeeps
  <2>4. CASE Unstack \/ Unwind \/ Return
    BY <2>4, UnstackKeeps, UnwindKeeps, ReturnKeeps
  <2>5. CASE Returned \/ UNCHANGED vars
    BY <2>5, StutterKeeps DEF Returned
  <2> QED
    BY <2>1, <2>2, <2>3, <2>4, <2>5 DEF Next
<1> QED
  BY InitEstablishes, <1>1, PTL DEF Spec

\* Every variable keeps its type, and gin's index stays within one of the end
\* of the chain, for any requests.
THEOREM TypeCorrect == Spec => []TypeOK
<1>1. IInv => TypeOK
  BY DEF IInv
<1> QED
  BY Inductive, <1>1, PTL

\* What holds of a request that went down the chain and has returned.
LEMMA AtReturn ==
  ASSUME IInv, Chained
  PROVE  Depth = 0 /\ ~panicking /\ Over /\ ~Redirected /\ pos > 1
<1>1. done /\ ~Redirected /\ req \in Inputs /\ pos \in Nat /\ Inbound /\ Stacked
  BY DEF Chained, IInv, TypeOK
<1>2. Depth = 0
  BY <1>1, DepthType DEF Inbound
<1>3. ~panicking /\ Over
  BY <1>1, <1>2 DEF Inbound
<1>4. pos > 1
  BY <1>1, <1>3, ChainShape DEF Over
<1> QED
  BY <1>1, <1>2, <1>3, <1>4

\* A request leaves exactly one line, with the status its client got, or the
\* line of its panic; a polled path leaves none unless it panics.
THEOREM RequestTraced == Spec => []EveryRequestTraced
<1>1. IInv => EveryRequestTraced
  <2> SUFFICES ASSUME IInv, Chained PROVE EveryRequestTraced
    BY DEF EveryRequestTraced
  <2>1. Depth = 0 /\ ~panicking /\ Over /\ ~Redirected /\ Logged
    BY AtReturn DEF IInv
  <2>2. CASE Panicked
    <3>1. log = <<[kind |-> "panic", id |-> id, status |-> 0]>>
      BY <2>1, <2>2 DEF Logged
    <3> QED
      BY <2>2, <3>1 DEF EveryRequestTraced
  <2>3. CASE ~Panicked
    <3>1. log = IF req.polled THEN <<>> ELSE <<Line>>
      BY <2>1, <2>3 DEF Logged
    <3> QED
      BY <2>3, <3>1 DEF EveryRequestTraced, Line
  <2> QED
    BY <2>2, <2>3
<1> QED
  BY Inductive, <1>1, PTL

\* One id names the request in its header, in its envelope and in its lines,
\* and it is the caller's own if there was one.
THEOREM OneIdEverywhere == Spec => []OneId
<1>1. IInv => OneId
  <2> SUFFICES ASSUME IInv, Chained PROVE OneId
    BY DEF OneId
  <2>1. Depth = 0 /\ ~panicking /\ Over /\ ~Redirected /\ pos > 1 /\ Logged /\ Named
    BY AtReturn DEF IInv
  <2>2. /\ id # NoId /\ resp.id = id /\ (req.inbound # NoId => id = req.inbound)
        /\ resp.envelope \in {NoEnvelope, resp.id}
    BY <2>1 DEF Named
  <2>3. \A k \in DOMAIN log : log[k].id = id
    <3>1. \/ log = <<[kind |-> "panic", id |-> id, status |-> 0]>>
          \/ log = <<>>
          \/ log = <<Line>>
      BY <2>1 DEF Logged
    <3> QED
      BY <3>1 DEF Line
  <2> QED
    BY <2>2, <2>3 DEF OneId
<1> QED
  BY Inductive, <1>1, PTL

\* A panic never reaches net/http, and every request that returns is answered:
\* one whose handler panicked before it had sent anything with 500 and the
\* envelope, one whose answer it broke off with the status already sent and the
\* envelope behind it.
THEOREM PanicAnswered == Spec => []PanicIsAnswered
<1>1. IInv => PanicIsAnswered
  <2> SUFFICES ASSUME IInv, done PROVE PanicIsAnswered
    BY DEF PanicIsAnswered
  <2>1. Inbound /\ Named /\ Stacked
    BY DEF IInv
  <2>2. resp.sent /\ ~panicking
    BY <2>1 DEF Inbound
  <2>3. /\ outcome = "panic" => resp.status = 500
        /\ outcome = "broken_off" => resp.status = 200
    BY <2>1, <2>2 DEF Named
  <2>4. Panicked => resp.envelope = resp.id
    <3>1. CASE Redirected
      BY <2>1, <3>1 DEF Inbound, Panicked
    <3>2. CASE ~Redirected
      BY <2>1, <2>2, <3>2, AtReturn DEF Named, Chained
    <3> QED
      BY <3>1, <3>2
  <2> QED
    BY <2>2, <2>3, <2>4 DEF PanicIsAnswered
<1> QED
  BY Inductive, <1>1, PTL

\* No handler reads more than the limit, declared or not, and a body above it
\* is never answered as a success, for any limit and any length.
THEOREM BodyBounded == Spec => []BodyIsBounded
<1>1. IInv => BodyIsBounded
  BY DEF IInv, Bounded, BodyIsBounded
<1> QED
  BY Inductive, <1>1, PTL
=============================================================================
