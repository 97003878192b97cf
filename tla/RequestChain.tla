---------------------------- MODULE RequestChain ----------------------------
(***************************************************************************)
(* One request through the middleware chain of httpx.NewEngine             *)
(* (backend/internal/httpx/middleware.go, router.go, response.go).  gin    *)
(* keeps an index into the chain; a middleware that calls c.Next stays on  *)
(* the call stack until everything behind it has returned, a middleware    *)
(* that aborts moves the index past the end, and a panic unwinds the stack *)
(* up to Recover, past whatever the frames in between meant to do after    *)
(* c.Next.  gin, gin-contrib/cors and the route handlers are external.     *)
(***************************************************************************)
EXTENDS Naturals, Sequences

CONSTANTS BodyLimit, \* http.max_body_bytes
          Inputs     \* requests: what the router makes of method and path,
                     \* whether the path is in operationalPaths, the inbound
                     \* id, the origin, preflight, body, declared length

ASSUME BodyLimitAssumption == BodyLimit \in Nat \ {0}
ASSUME InputsAssumption ==
  Inputs \subseteq [route : {"get", "api", "unknown", "wrong_method", "redirected"},
                    polled : BOOLEAN, inbound : STRING,
                    origin : {"same", "listed", "other"}, preflight : BOOLEAN,
                    body : Nat, declared : BOOLEAN]

VARIABLES
  origins,   \* what CORS was configured with: none, all or listed
  req,       \* the request
  pos,       \* gin's index: the position of the next middleware to call
  stack,     \* middleware whose call of c.Next has not returned
  panicking, \* a panic is unwinding the stack
  id,        \* ContextKeyRequestID
  resp,      \* id header, status, whether the header is sent, id in the envelope
  log,       \* lines logged
  consumed,  \* bytes of the body the handler has read
  outcome,   \* what the route's handler did: none, served, refused, panic
             \* (nothing was sent yet) or broken_off (the answer had begun)
  done       \* ServeHTTP has returned

vars == <<origins, req, pos, stack, panicking, id, resp, log, consumed, outcome, done>>

NoEnvelope == "none"
NoId == "no_id"  \* the empty string

Init == /\ origins \in {"none", "all", "listed"}
        /\ req \in Inputs
        /\ pos = 1
        /\ stack = <<>>
        /\ panicking = FALSE
        /\ id = NoId
        /\ resp = [id |-> NoId, status |-> 200, sent |-> FALSE, envelope |-> NoEnvelope]
        /\ log = <<>>
        /\ consumed = 0
        /\ outcome = "none"
        /\ done = FALSE

-----------------------------------------------------------------------------

\* Faulty: the id is made up last.
SharedIDLast == <<"Recover", "Logger", "CORS", "RequestID">>

\* The chain every service shares.
Shared == <<"RequestID", "Recover", "Logger", "CORS">>

Redirected == req.route = "redirected"

\* What a route adds; the /api/v1 group of the ingest API bounds the body.
RouteChain == [api |-> <<"MaxBodySize", "handler">>,
               get |-> <<"handler">>,
               unknown |-> <<"NotFoundHandler">>,
               wrong_method |-> <<"MethodNotAllowedHandler">>]

Chain == IF Redirected THEN <<>> ELSE Shared \o RouteChain[req.route]

Over == pos > Len(Chain)
Calling(m) == ~done /\ ~panicking /\ ~Over /\ Chain[pos] = m

\* The middleware calls c.Next.
Descend(m) == /\ stack' = Append(stack, m)
              /\ pos' = pos + 1

\* It returns without c.Next: gin's loop goes on.
Pass == /\ pos' = pos + 1
        /\ UNCHANGED stack

Aborting == /\ pos' = Len(Chain) + 1
            /\ UNCHANGED stack

\* A status can be set until the header is sent.
WithStatus(status) == IF resp.sent THEN resp
                                   ELSE [resp EXCEPT !.status = status, !.sent = TRUE]

\* AbortWithError: the envelope carries the id of the context.
WithError(status) == [WithStatus(status) EXCEPT !.envelope = id]

\* RedirectTrailingSlash: gin answers by itself, and the chain is not run.
Redirect == /\ ~done /\ Redirected
            /\ resp' = [resp EXCEPT !.status = 301, !.sent = TRUE]
            /\ done' = TRUE
            /\ UNCHANGED <<origins, req, pos, stack, panicking, id, log,
                           consumed, outcome>>

RequestID == /\ Calling("RequestID")
             /\ id' = IF req.inbound # NoId THEN req.inbound ELSE "generated"
             /\ resp' = [resp EXCEPT !.id = id']
             /\ Descend("RequestID")
             /\ UNCHANGED <<origins, req, panicking, log, consumed, outcome, done>>

Recover == /\ Calling("Recover")
           /\ Descend("Recover")
           /\ UNCHANGED <<origins, req, panicking, id, resp, log, consumed,
                          outcome, done>>

\* A path that is polled is not logged: the frame left behind does nothing.
Logger == /\ Calling("Logger")
          /\ Descend(IF req.polled THEN "skipped" ELSE "Logger")
          /\ UNCHANGED <<origins, req, panicking, id, resp, log, consumed,
                         outcome, done>>

Allowed == origins = "all" \/ (origins = "listed" /\ req.origin = "listed")

\* Without configured origins a no-op; otherwise a request from another origin
\* is refused and a preflight is answered here.
CORS ==
  /\ Calling("CORS")
  /\ \/ /\ origins = "none"
        /\ Descend("CORS")
        /\ UNCHANGED resp
     \/ /\ origins # "none"
        /\ req.origin = "same" \/ (Allowed /\ ~req.preflight)
        /\ Pass
        /\ UNCHANGED resp
     \/ /\ origins # "none" /\ req.origin # "same" /\ ~Allowed
        /\ resp' = WithStatus(403)
        /\ Aborting
     \/ /\ origins # "none" /\ req.origin # "same" /\ Allowed /\ req.preflight
        /\ resp' = WithStatus(204)
        /\ Aborting
  /\ UNCHANGED <<origins, req, panicking, id, log, consumed, outcome, done>>

\* Faulty: an undeclared length is let through without a bound.
ReadableDeclaredOnly == IF req.declared /\ req.body > BodyLimit THEN BodyLimit
                                                                ELSE req.body

\* What http.MaxBytesReader hands to the handler.
Readable == IF req.body > BodyLimit THEN BodyLimit ELSE req.body

\* Faulty: no return after the refusal, so c.Next moves an index that has
\* already been moved past the end.
MaxBodySizeNoReturn ==
  /\ Calling("MaxBodySize")
  /\ IF req.declared /\ req.body > BodyLimit
     THEN /\ resp' = WithError(413)
          /\ pos' = Len(Chain) + 2
          /\ stack' = Append(stack, "MaxBodySize")
     ELSE Descend("MaxBodySize") /\ UNCHANGED resp
  /\ UNCHANGED <<origins, req, panicking, id, log, consumed, outcome, done>>

\* Only a declared length can be refused before the body is read.
MaxBodySize ==
  /\ Calling("MaxBodySize")
  /\ IF req.declared /\ req.body > BodyLimit
     THEN resp' = WithError(413) /\ Aborting
     ELSE Descend("MaxBodySize") /\ UNCHANGED resp
  /\ UNCHANGED <<origins, req, panicking, id, log, consumed, outcome, done>>

\* The handler of an API route reads the body and answers; a read that hits
\* the bound fails, which the handler reports.
Serve == /\ Calling("handler")
         /\ consumed' = IF req.route = "api" THEN Readable ELSE 0
         /\ IF consumed' < req.body /\ req.route = "api"
            THEN outcome' = "refused" /\ resp' = WithError(413)
            ELSE outcome' = "served" /\ resp' = WithStatus(200)
         /\ Pass
         /\ UNCHANGED <<origins, req, panicking, id, log, done>>

\* Or it panics: before it has written anything, or afterwards.
Panic == /\ Calling("handler")
         /\ resp' \in {resp, WithStatus(200)}
         /\ outcome' = IF resp'.sent THEN "broken_off" ELSE "panic"
         /\ panicking' = TRUE
         /\ UNCHANGED <<origins, req, pos, stack, id, log, consumed, done>>

NotFoundHandler == /\ Calling("NotFoundHandler")
                   /\ resp' = WithError(404)
                   /\ Aborting
                   /\ UNCHANGED <<origins, req, panicking, id, log, consumed,
                                  outcome, done>>

MethodNotAllowedHandler == /\ Calling("MethodNotAllowedHandler")
                           /\ resp' = WithError(405)
                           /\ Aborting
                           /\ UNCHANGED <<origins, req, panicking, id, log,
                                          consumed, outcome, done>>

-----------------------------------------------------------------------------

Top == stack[Len(stack)]
Pop == stack' = SubSeq(stack, 1, Len(stack) - 1)

\* Faulty: the status is read before the rest of the chain has run.
LineOfStart == [kind |-> "request", id |-> id, status |-> 200]

\* The attributes are read once c.Next has returned.
Line == [kind |-> "request", id |-> id, status |-> resp.status]

\* c.Next returns, and the middleware does what it does afterwards.
Unstack == /\ ~panicking /\ Over /\ stack # <<>>
           /\ Pop
           /\ log' = IF Top = "Logger" THEN Append(log, Line) ELSE log
           /\ UNCHANGED <<origins, req, pos, panicking, id, resp, consumed,
                          outcome, done>>

\* Faulty: a panic is answered as a success.
CaughtResponseOK == WithError(200)

CaughtResponse == WithError(500)

\* A panic leaves every frame but Recover's, which logs it and answers.
Unwind == /\ panicking /\ stack # <<>>
          /\ Pop
          /\ IF Top = "Recover"
             THEN /\ panicking' = FALSE
                  /\ log' = Append(log, [kind |-> "panic", id |-> id, status |-> 0])
                  /\ resp' = CaughtResponse
                  /\ pos' = Len(Chain) + 1
             ELSE UNCHANGED <<panicking, log, resp, pos>>
          /\ UNCHANGED <<origins, req, id, consumed, outcome, done>>

\* gin sends a header nothing has sent yet; net/http drops the connection of
\* a request whose panic nothing caught.
Return == /\ ~done /\ stack = <<>> /\ ~Redirected
          /\ panicking \/ Over
          /\ resp' = IF panicking THEN resp ELSE [resp EXCEPT !.sent = TRUE]
          /\ done' = TRUE
          /\ UNCHANGED <<origins, req, pos, stack, panicking, id, log, consumed, outcome>>

Returned == done /\ UNCHANGED vars

Next == \/ Redirect \/ RequestID \/ Recover \/ Logger \/ CORS \/ MaxBodySize
        \/ Serve \/ Panic \/ NotFoundHandler \/ MethodNotAllowedHandler
        \/ Unstack \/ Unwind \/ Return \/ Returned

Spec == Init /\ [][Next]_vars

-----------------------------------------------------------------------------
(* Properties *)

Ids == {NoId, "generated"} \union {q.inbound : q \in Inputs}
Middleware == {"RequestID", "Recover", "Logger", "skipped", "CORS", "MaxBodySize"}
Statuses == {200, 204, 301, 403, 404, 405, 413, 500}
Responses == [id : Ids, status : Statuses, sent : BOOLEAN,
              envelope : Ids \union {NoEnvelope}]
Lines == [kind : {"request", "panic"}, id : Ids, status : Statuses \union {0}]

\* Every variable has its type, and the index never passes the end of the
\* chain by more than one.
TypeOK ==
  /\ origins \in {"none", "all", "listed"}
  /\ req \in Inputs
  /\ pos \in 1..Len(Chain) + 1
  /\ stack \in Seq(Middleware)
  /\ panicking \in BOOLEAN /\ done \in BOOLEAN
  /\ id \in Ids
  /\ resp \in Responses
  /\ log \in Seq(Lines)
  /\ consumed \in Nat
  /\ outcome \in {"none", "served", "refused", "panic", "broken_off"}

Chained == done /\ ~Redirected
Panicked == outcome \in {"panic", "broken_off"}

\* A request that reaches the chain leaves exactly one line, which carries the
\* status the client got, or the panic; a polled path leaves one only if it
\* panics.
EveryRequestTraced ==
  Chained => LET line == IF Panicked THEN "panic" ELSE "request"
             IN  /\ Len(log) = IF req.polled /\ line = "request" THEN 0 ELSE 1
                 /\ \A k \in DOMAIN log :
                      /\ log[k].kind = line
                      /\ line = "request" => log[k].status = resp.status

\* One id names a request of the chain everywhere: in the header of the answer,
\* in its error envelope and in the log, wherever in the chain the answer was
\* made.  It is the caller's own if it sent one.
OneId ==
  Chained => /\ resp.id # NoId
             /\ req.inbound # NoId => resp.id = req.inbound
             /\ resp.envelope \in {NoEnvelope, resp.id}
             /\ \A k \in DOMAIN log : log[k].id = resp.id

\* A panic costs its own request only.  A client that had been sent nothing
\* when the handler panicked gets a 500 with the envelope; the answer that had
\* begun keeps the status it was sent with, and the envelope is added to it.
PanicIsAnswered ==
  done => /\ resp.sent /\ ~panicking
          /\ outcome = "panic" => resp.status = 500
          /\ outcome = "broken_off" => resp.status = 200
          /\ Panicked => resp.envelope = resp.id

\* No handler reads more of a body than the limit, whether its length was
\* declared or not, and no body above the limit is answered as a success.
BodyIsBounded ==
  /\ consumed <= BodyLimit
  /\ done /\ outcome = "served" /\ req.route = "api" => req.body <= BodyLimit

\* middleware.go:35: "Logger emits one structured line per request".  Refuted:
\* a panic unwinds the logger's frame, and the request has no such line.
OneLinePerRequest ==
  Chained /\ ~req.polled => \E k \in DOMAIN log : log[k].kind = "request"

=============================================================================
