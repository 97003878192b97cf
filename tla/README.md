# Verification of the Pulse analytics backend

TLA+ models, model-checking configurations and proofs for the Go code under
`src/backend`. The repository is at the stage its roadmap calls level 1: the
process lifecycle, the HTTP stack, the configuration and the validation of
events are written; the buffer, Kafka, the repositories and the consumer are
empty directories. What is written is modelled from the code, and what is only
planned is not modelled.

## 1. The system

| Component | Code | State | Operations | Hard behaviour |
|---|---|---|---|---|
| HTTP server lifecycle | `internal/httpx/server.go`, `cmd/*/main.go` | where `Run` is, `errCh`, the shutdown context, the joined error; in net/http: `inShutdown`, the listener, each connection's state | start, serve, signal, drain, time out, run hooks, return | three kinds of goroutine interleave with signals and a timeout |
| Event validation | `internal/validate/{validator,rules,limits,observer}.go` | an immutable `Validator`; per call: the event at hand, `Accepted`, `Rejected` | `Validate`, ten rules | partial success, one call per request goroutine, a clock that moves |
| URL, decimal and code helpers | `internal/validate/sanitize.go` | the denylist | `sanitizeURL`, `truncateRunes`, `fitsDecimal` | boundaries, re-encoding |
| Event model | `internal/model` | none | types, reasons, enumerations | - |
| Ingest counters | `internal/metrics/ingest.go` | three counter vectors | one increment per call of the observer | shared by every goroutine |
| Middleware chain | `internal/httpx/{middleware,router,response,context}.go`, `internal/handler/router.go` | gin's context: index, keys, response | request id, recovery, log, CORS, body bound, envelopes | aborts and panics leave frames in the middle |
| Readiness | `internal/handler/health_handler.go` | the probes; per request: checks, status | `Readyz`, `Healthz`, `Version` | dependencies change during the loop; one deadline for all |
| Configuration | `internal/config`, `httpx/middleware.go` (`CORS`) | environment, `.env`, YAML | search, load, expand, decode, validate; build the router | precedence, the order of a map, rules across sections, a panic after all was accepted |
| Metrics registry, logging, version | `internal/{metrics/metrics.go,logging,version}` | constants | registration, formatting | none |

How they interact: `main` loads the configuration, builds a router and calls
`Server.Run`. net/http starts a goroutine per connection, which runs the
middleware chain and then a handler. The handler of `POST /api/v1/events` does
not exist yet; when it does, each request goroutine calls `Validate` on the one
shared `Validator`, which calls the observer, which increments the counters.
`Readyz` calls the probes with a context of its own. `Run` calls the hooks after
the HTTP server has shut down, while handlers it gave up on may still run.

What makes each part correct:

- server: a nil error means drained; hooks run once, in order, whatever failed
  before; nothing is answered after a drain that succeeded; nothing new is
  accepted once the hooks may run; a stop request always ends `Run`; the
  listening goroutine is never left behind.
- validation: every event of a batch is answered exactly once, by its own
  merits; what is accepted fits its columns, whatever was configured; counters and
  answers agree; nothing a client sent is changed without a counter.
- chain: one log line, one id and one answer for each request, however it
  leaves the chain; a panic is a 500 for a client that was sent nothing yet; the
  body is bounded.
- readiness: 200 is earned by every dependency; blame has a cause; an answer
  always comes.
- helpers: nothing sensitive that can be decoded is left and nothing else is lost; an untouched
  page is verbatim and a touched one has one spelling; a decimal is let through
  when its column can hold it.
- configuration: never a partially valid result; every problem is reported, and
  missing variables in one order; a file found is the nearest one; a value comes
  from the source that wins.

## 2. Modules

| Module | What it is |
|---|---|
| `GracefulStop` | abstract contract of `Server.Run` |
| `GracefulServer` | `Server.Run` and the net/http steps around it; instantiates `GracefulStop` |
| `GracefulServerProofs` | proofs about `GracefulServer`, and that it refines `GracefulStop` |
| `EventRules` | the rules of `rules.go` as operators |
| `IngestValidation` | `Validate` on concurrent request goroutines, with the counters; extends `EventRules` |
| `IngestContract` | abstract contract of `Validate`: one answer per request, each verdict by its event alone |
| `MCIngestValidation` | events and batches for model checking |
| `IngestProofs` | which part of the stored event each rule builds; the inductive invariant of `IngestValidation` and what follows from it about one request |
| `IngestContractProofs` | proof that `IngestValidation` refines `IngestContract`, and proofs about the counters all requests share |
| `Ordering` | finite sets written out in order: what sorting and filtering do |
| `OrderingProofs` | lemmas about `Ordering`, and about least and greatest numbers |
| `Sanitize` | `sanitizeURL` and `fitsDecimal` of `sanitize.go`, with the `net/url` they use |
| `SanitizeProofs` | proofs about `Sanitize` |
| `MCSanitize` | texts, spellings and literals for model checking |
| `ConfigLoad` | `config.Load` from `.env` to `Validate`, and the CORS middleware built from it |
| `ConfigLoadProofs` | proofs about `ConfigLoad` |
| `MCConfigLoad` | directories, files and environments for model checking |
| `RequestChain` | one request through the middleware of `NewEngine` |
| `RequestChainProofs` | proofs about `RequestChain` |
| `MCRequestChain` | requests for model checking |
| `Readiness` | `Readyz` over changing dependencies |
| `ReadinessProofs` | proofs about `Readiness` |

Operators whose comment begins with "Faulty:" are the mistakes the properties
are there to catch; each has the form of the definition that follows it and is
used by no specification.

### GracefulServer

`pc` is the line `Run` is at: `start`, `select` (server.go:64), `mark`, `close`,
`wait`, `poll`, `tick` (inside `http.Server.Shutdown`, :77), `hooks` and `inhook`
(:84-89), `returned`. `lpc` is the goroutine of :55-62, inside
`ListenAndServe` (`spawned`, `binding`, `bound`, `accepting`, `accepted`), at
`errCh <-` (`failed`) or over (`ended`). `hpc` and `conn` are a connection's
goroutine and the state net/http keeps for it. `deadline` is `shutdownCtx`.

`Shutdown` is five steps because other goroutines run between them: it sets
`inShutdown`, closes the listeners *tracked so far*, waits for the accept loop
(not bounded by the timeout), and then polls. A poll closes idle connections and
those silent for five seconds after they were accepted; it is done when nothing
else is left. Between two polls, `select` chooses between a timer and the
context. A request that was read from an idle connection (`Read`) is marked
active only later (`Handle`), so a poll can close the connection in between;
its handler then runs on a closed connection, beside the hooks.

Simplified: listeners close without an error, Accept has no temporary errors,
connections are not hijacked. A socket that is bound but not tracked
when `Shutdown` begins is closed by its own goroutine, possibly after the hooks.
Bound: `MaxRequests` requests on a connection, in the guard of `Read`.

After a timeout, handlers that were given up on may answer while hooks run:
`GracefulStop` allows `Answer` as long as the drain has not succeeded.

### EventRules and IngestValidation

A text is its length after trimming, an enumeration is absent, known or other
(`Empty` is the empty string), an instant is an hour, a URL is its length, whether something has to be taken
out of it, and the length of what is left. `Exceeds` is the test of `truncateRunes`,
for which a limit of zero or less is none; that `Limits` never has one is what
`AcceptedFits` shows, by bounds of its own. `ApplyRule(n, ...)` is the n-th
entry of `eventRules`. Each rule gives the event as it leaves it, a reason or
`none`, the repairs it reports and the clock skew it reports.

`Receive` is a call of `Validate` with its three refusals; `Decode` is one turn
of the loop up to `json.Unmarshal`; `Apply` is one rule, and with the last one,
or with one that rejects, the rest of the turn. Other goroutines and the clock
run between any two of these. Whether `uuid.NewV7` finds entropy is chosen freely
(`fresh`). `MaxClock` bounds how far the clock moves; it is assumed not to move
back. No handler calls `Validate` yet; `Inputs` are what a handler may pass,
and they include a body without a site and a key's site different from it.

Each counter is a function from its labels to a count; `Inc` is one increment of
the Prometheus vector. `Events` is what `model.Event` can decode to as far as the
rules tell it apart: an absent name is empty, a compacted object is at least
`{}` and never longer than it was sent.

`IngestContract` has no rules, no loop and no counters: a request is refused
for a fault of its own, or taken and answered at once, and the verdict of an
event is a function of that event, the key's site and one reading of the clock
during the call. `ContractSpec` is that specification with `answer` read off
`accepted`, `rejected` and `refused` when `pc` is `answered`; so the steps in
between, of this request and of others, must stutter.

### Sanitize

A text is a sequence of `Letters`, and a whole parameter of a query is one
letter: `Name`, `Canonical` and `Broken` say how `net/url` reads it, the
separator is left out and a cut falls between parameters. `Call` is
sanitize.go:71-77, `Parse` is :89-107 up to the loop, `Visit` one turn of the loop
over the map, in any order, `Return` the rest of `stripFrom` and the bound.
`query` is `url.Values`: it gives each name the places its parameters have in the
query, in order, which is all that deleting and encoding need. `Judge` is a call of
`fitsDecimal`. `Parsed`, `Values`, `Encode` and `Assembled` are external, as far
as `stripFrom` uses them; `Encode` sorts by `Rank`, the place of a name in the
order of its bytes.

Two things the code does that `NothingSensitiveLeft` allows for: a parameter that
cannot be decoded (a bad escape, or a semicolon) is not looked at, even when its
name is on the denylist, and of a text that is no URL only the fragment is taken.
The second is what sanitize.go:67-70 and :92-94 say; the first nobody says, and
`sanitize_undecodable_kept` holds it against sanitize.go:37. It shows only where
nothing else is removed: `Encode` does not write what was not decoded. An empty fragment is returned with its `#`. Left out: characters
`URL.String` escapes in a path, a cut inside an escape, bytes against runes, and
a `?` inside a query. `EventRules` has a URL as its length, whether something is
taken out, and what is left; `Sanitize` is where that comes from.

### ConfigLoad

`start` is what a process is started in: its environment, the directories from
the working directory to the root, and the files that may be read as `.env`
(`dotenvs`) and as YAML (`configs`). One action for each step of
`Load`: `LoadDotEnv`, `Locate`, `Read`, `Expand` (one key with a placeholder, in
any order; a key without one does not change), `Expanded`, `Decode`, `Validate`;
then `BuildRouter`. `pc` ends as `serving`, `failed` (`failure` is the kind of
error `Load` returns) or `panicked`. `SearchUp` is the set of the nearest place
that is a file, empty if there is none. `missing` is what `expandEnvVars`
collects, key by key, and then sorts by `Rank`, the place of a variable or a key in
the order of its bytes; `problems` is the set of the keys `Validate` objects to,
its order left out. Trimming, folding, splitting and number parsing are tables; a
scalar is one literal or one placeholder, not a text around one. Lists are only
written for keys that take lists, and keys no rule reads are left out. cors.New
is external: it panics on an origin without a scheme or a `*`, and takes a `*`
among other origins for all of them.

`AllowAll` is the `allowAll` of middleware.go:112: a `*` that is the only entry
which is not blank. A `*` among others is not that, but cors.New takes it for all
origins, so everyone is allowed and credentials stay on. `StartsAsConfigured` says
so; .env.example:38 says otherwise ("`*` allows everything (and disables
credentials)"), and middleware.go:104-105 speaks of a single `*` only.

Observed while modelling and without a run of its own: `KAFKA_BROKERS=","` decodes
to a list of blank entries, which `Enabled` (kafka.go:14) counts, so a process starts
with `ingest.sink=kafka` and no broker at all, where config.go:40-41 says that "is
refused at startup instead"; enums.go:48 says that log formats are matched in any case, and log.go:20
compares them as written; a blank entry survives everywhere but in
the list of origins; a batch size of 0 hides that the buffer will be too small.

### RequestChain

`pos` is gin's index and `stack` the middleware whose `c.Next` has not
returned. `Descend` is a middleware that calls `c.Next`, `Pass` one that just
returns, `Aborting` one that aborts. `Unstack` returns from `c.Next`, which is
where `Logger` logs. `NoId` is the empty string. `Unwind` is a panic leaving a frame; `Recover` catches it.
`Redirect` is gin's answer to a trailing slash, before any middleware. The
handlers of API routes are external: they read the body and report a read error
as `middleware_test.go` does, or panic before or after they have begun their
answer: `outcome` is `panic` when nothing had been sent and `broken_off` when the
header had. No route is mounted behind `MaxBodySize` yet. Panics that gin takes for a
broken connection are not modelled.

### Readiness

`asking` and `waiting` are before and inside `Check`. `ctx` is the context of
health_handler.go:60: it ends when `probeTimeout` passes or the client leaves.
Probes are external: `Check` may return nil only while the dependency is up,
and returns an error when it is down or when the context is done. Two history
variables remember which dependencies were up, and which were not, at some time
since the request began. One deadline of two seconds is shared by all
probes, so one that is usable is reported broken when another has hung before
it; `BlameHasCause` allows for that. health_handler.go:22 ("bounds a single
readiness check") and docs/reference/observability.md:115 ("Each check is bounded
by a two-second timeout.") can be read as a bound for each probe, which the code
does not give. Probes are identified with their names. Bound:
`MaxChanges` changes of the dependencies.

## 3. Runs

| Run | Question | Result |
|---|---|---|
| `server` | does `Run` stop cleanly and always, and keep its contract? | holds |
| `server_hooks_skipped` | do hooks run before every return of a server that answered requests? | no: not when the accept loop fails (server.go:65-66) |
| `server_hook_budget` | does a hook have time left after a drain that timed out? | no: it gets the context that has just expired (:85) |
| `ingest` | partial success, verdicts, stored values, counters, the contract | holds |
| `ingest_repair_count` | does the repair counter speak of accepted events? | no: a later rule may reject the event |
| `ingest_properties_bound` | are properties measured as stored? | no: before white space is removed |
| `chain` | one line, one id, one answer, a bounded body | holds |
| `chain_panic_unlogged` | does every request have a line in the request log? | no: not one that panics |
| `readiness` | is 200 earned, is blame caused, does an answer come? | holds |
| `sanitize` | what leaves a page and what stays, which decimals fit | holds |
| `sanitize_undecodable_kept` | does a parameter on the denylist never reach storage? | no: one that cannot be decoded may stay (sanitize.go:105) |
| `config` | which file, which values, which report, which router | holds |

What the properties of the passing runs say:

- `NilMeansDrained`, `NoAcceptAfterHooks`, `NoAnswerAfterDrain`: see section 1.
  The second allows for an accept loop that has just taken a connection when
  the listener is closed; the third for a handler that starts after the drain.
- `ShutdownTerminates`, `FailureEndsRun`, `NoGoroutineLeak`: liveness, under
  `FairSpec`.
- `ContractSpec`: refinement of `GracefulStop` by `Phase` and `Drained`.
- `EveryEventAnswered`, `VerdictIsOwn`: partial success. `Faults` says what is
  wrong with one element alone, without rules and without order.
- `AcceptedFits`, `AcceptedTimeInWindow`: what is stored fits the bounds of its
  columns, which are written down apart from the limits the rules use: `Bound` is
  what was configured if that is positive, and what `DefaultLimits` ships if not. An accepted
  instant lies in the window of some moment of the call.
- `RejectionsCounted`, `NoSilentRepair`: counters against answers. The first
  is an equality over all requests. The second is an inequality, because the
  equality is refuted by `ingest_repair_count`. It compares what was sent with
  what was kept: a value that was sent is kept, or its change is counted, and an id
  or an instant that is made up is counted. It does not speak of a device, a
  currency or properties that were left out and are filled in with `unknown`,
  `VND` and `{}`. Nothing counts those (rules.go:192-193, :226-227), although
  observer.go:40 says "RepairDefaulted means the value was missing and the server
  supplied one."; rules_test.go:348 expects a missing device to be uncounted, and
  properties have no label. Nor does it speak of blanks, the case of a
  code, and white space in properties.
- `ContractSpec` of `ingest`: refinement of `IngestContract`. It is the one that
  says *which* value is stored, field by field.
- `NothingSensitiveLeft`, `BenignSurvives`: both directions of stripping, in any
  order of the map and with the bound applied last. `VerbatimUnlessStripped`,
  `OneSpelling`: page as a grouping key. `FitsMeansStorable`: an equivalence
  with the value of the literal, up to zeros beyond the scale.
- `NearestFile`, `Precedence`, `MissingReport`: said of `start` alone, so that
  no order of steps and no order of the map matters. `OnePassFixes`: repairing
  the keys a report names makes the configuration valid, and no named key is
  superfluous; a batch size that has to change is the exception.
  `StartsAsConfigured`: an empty list is no cross-origin access, a `*` in it is
  everyone, otherwise exactly the origins named have access; credentials are on
  for any list but an empty one and a `*` alone; blanks never become origins, and
  only a text that is no origin stops the process after its configuration was
  accepted.
- `EveryRequestTraced`, `OneId`, `PanicIsAnswered`, `BodyIsBounded`: chain. The
  third tells a client that had been sent nothing, which gets 500, from one whose
  answer had begun, which keeps the 200 it was sent; both get the envelope.
- `ReadyIsEarned`, `BlameHasCause`, `AlwaysAnswers`: readiness.

Bounds. `server`: two connections, so that one is drained while the other is
stuck or late; two requests on each, so that one is kept alive and used again;
two hooks, so that one fails before another runs. `ingest`: two requests, since
they meet only in the clock and the counters; batches of up to two events (the
limit is set to two, and one batch has three), so that each event has one before
or after it; one tick of the clock, which moves one instant into the window and
one out; an event for each thing a rule tells apart, at both sides of its
limits. `chain`: every combination of the request's features; requests share
nothing but the log. `readiness`: two probes, so that one can spend the time of the other;
two requests; two changes, so that a dependency can go and come back.
`sanitize`: up to three parameters, so that two of a name surround another, and a
bound of three letters, which can fall before, in or after them; literals of up to
five letters against columns of two or three digits, so that both parts can be too
long. `config`: five directories, one more than are searched, with files on both sides
of the last; two required variables, so that they can be met in either order; every
rule broken alone and together with every other; every shape of a list of origins
and of brokers.

Fairness. Goroutines that can run do run, timers fire, hooks return, and a probe
returns when its context is done. In `tick` Go's `select` chooses at random when
the timer and the context are both ready; strong fairness of
`ShutdownExpired` says that it does not choose the timer for ever. Nothing is
assumed of handlers, clients, signals, or of the caller of `Run`.

## 4. Proofs

`GracefulServerProofs` proves, for any set of connections, any number of
hooks and any `MaxRequests` (`NHooksAssumption`, `MaxRequestsAssumption`: both
are natural numbers):

- `TypeCorrect`: `Spec => []TypeOK`. `TypeOK` is not inductive: a hook that
  returns counts up, and only the loop's guard, one step earlier, says that there
  was one left; likewise for requests. `Bounded` adds both.
- `NilReturnIsClean`, `DoorStaysClosed`, `NothingAnsweredAfterDrain`: from
  the invariant `IInv == TypeOK /\ Bounded /\ Order /\ Quiet`. `Order` says what
  holds by the time `Run` is at each place: `inShutdown` is set from `close` on,
  the accept loop is over from `poll` on, the error is still unset while
  draining, a connection that is read from is registered. `Quiet` says that after a
  successful drain every connection is unused or closed. The argument for
  `Quiet`: the last poll found every connection unused, closed or closable,
  and closed the last kind; later a connection would have to be admitted, which
  `Order` excludes, or a handler would have to revive a closed one, which `Handle`
  does not.
- `Implements`: `Spec => ContractSpec`. `Poll` maps to `Drained` or a stutter,
  `Finish` to `Answer` or a stutter, `ReturnHook` to `Flush`, `SelectError` to
  `Fail`; `Quiet` shows that no `Finish` answers after `Drained`.

`ReadinessProofs` proves, for any set of requests, any number of probes and any
number of changes (`NProbesAssumption`, `MaxChangesAssumption`: both are natural
numbers), `TypeCorrect`, `ReadyEarned` (`ReadyIsEarned`) and `BlameCaused`
(`BlameHasCause`). `ReadyIsEarned` is not inductive: it speaks of answered
requests, and says nothing of the loop that made the answer. The invariant
`IInv` adds two parts for each request. `Witnessed`: while a request is in flight,
what is up now is in its `wasUp` and what is not is in its `wasBad`, because
`Begin` starts the history and every `Change` adds to it. `Tallied`: the checks set
are exactly those behind the loop, each "ok" was seen up, each "error" has a cause,
and body and status say whether there is an "error". At the end every check is
set, so a 200 means "ok" for all of them, and each was seen up.

`RequestChainProofs` proves all five invariants of `chain`, for any set of requests
and any limit (`InputsAssumption`: the fields a request has; `BodyLimitAssumption`:
the limit is positive). The invariant says how
gin's stack, the request and the answer belong together. `Stacked`: frames lie in
the order of the chain, `Recover`'s second. `Inbound`: on the way in nothing has
been answered and the first middleware have stacked themselves, so that a panic
finds at least `Recover`; a request that is done has left every frame. `Logged`:
there is no line until the logger's frame is left, or `Recover`'s by a panic, and
then exactly that one. `Named`: the id is settled by the first middleware,
envelope and header carry it, and a panic on its way up has sent a header just when
the answer is `broken_off`, which decides what status `Recover` can still set. `Bounded` is `BodyIsBounded` before the request is
done. The properties are not inductive because they speak of a request that is
done: an abort moves `pos` past the end while the frames are still there, and
what the answer and the log will be is decided by those frames.

`IngestProofs` and `IngestContractProofs` prove every property of `ingest`, for
any finite set of requests, any batches, any configured limits and any range of the
clock (`RequestsAssumption`, `InputsAssumption`, `ConfiguredAssumption`: any
integers, since `withDefaults` repairs what is not positive, which `LimitsBound`
states and `Fits` rests on; `MaxClockAssumption`).

- The first half of `IngestProofs` says of each rule which part of the stored event it writes,
  that it writes what the contract's `Stored` has there, and that it leaves the
  parts of earlier rules alone. `Built(n, ...)` is what has been written before rule
  n, `Clean(n, ...)` that no earlier rule had a reason to reject.
- `IngestProofs`: `IInv` is `TypeOK` and, for each request, `Phase` (which
  values go with idle, validating and answered), `Lists` (the two lists split what
  lies before `at`, in order), `Progress` (the event in hand is the decoded one,
  `Built` and `Clean` up to `rule`, with the instant read from a clock between
  the call and now) and `Fair` (each verdict given is the contract's for that
  event). The properties speak of verdicts that were given; `Progress` carries
  the half-built event from rule to rule.
- `IngestContractProofs`: `Implements`. `Receive` maps to `Refuse` or `Take`, the
  last `Apply` or `Decode` of a batch to `Judge`, `Tick` to `Tick`, and every other
  step stutters. `Fair` gives the verdicts the contract asks for.
- Its second half: `EveryRejectionCounted`, by counting the places that
  a step adds to `RejectedWith`; and `NothingSilent`. `NoSilentRepair` is not
  inductive: the counters move rule by rule, and the event counts only when it is
  accepted. `CountedAhead` adds to the accepted events the repairs already
  reported for the event each request has in hand; the last rule then moves that
  event from one side to the other.

`ConfigLoadProofs` proves every property of `config`, for any files, directories,
variables and tables. `SituationsAssumption` says what parsers return: variables
have names and texts, and a configuration file gives some of the keys values.
`TablesAssumption` says that numbers decode to integers, that "info" is in lower
case, and that no two variables or keys have one `Rank`.

- `Nearest`: what `SearchUp` finds comes before every other place that is a file,
  and it finds nothing only if there is none. The first of the hits is taken
  twice, by directory and then by place, from `LeastNatural`, which rests on `<`
  being well-founded on the naturals. `DotEnvFound` and `ConfigFound` apply it to
  the two searches, and `EnvironmentLoaded` concludes that the environment
  `loadDotEnv` leaves is `Given`.
- `IInv` is `TypeOK`, `NearestFile`, `StartsAsConfigured` and five parts more.
  `Started`: from `locate` on the environment is `Given`, so what is looked up later
  is what the process was given. `Placed`: the file that is read exists, parses, and
  has the name `Given` asks for. `Expansion`: a key still to be looked at is as the
  file writes it, any other is resolved; `Precedence` is this once no key is left,
  and by itself says nothing while keys are expanded. `Judged`: numbers are
  integers when rules compare them, and `problems` are those of `cfg`. `Reported`:
  while keys are expanded, `missing` holds what the keys already looked at lack, so
  that with the last of them it is all that is lacking; after that it is empty, or
  the process has failed with it.
- `AllNamed` (`MissingReport`) is `Reported` with two lemmas: `PickedElements`, that
  filtering keeps exactly what was asked for, and `SortedReport`, that sorting keeps
  the elements and puts them in order. Both rest on `Enumeration` below.
- `OnePass` (`OnePassFixes`): `Objections` gives each rule its key, `OwnKey` says
  that all rules but two look at that key alone, and `OnePassRepairs` and
  `NoneNamedInVain` follow for every `cfg` with decoded numbers, key by key. The two
  others are the buffer, which is compared with the batch size, and the brokers,
  which only count for one sink.
- `NearestFound`, `SourcesWin` (`Precedence`), `RouterAsConfigured`
  (`StartsAsConfigured`) and `TypeCorrect` follow from `IInv`.

`OrderingProofs`: `Enumeration` says that `Enumerated(S, R)` gives every member of
a finite set one place, and that places follow the total order `R`. A member's
place is how many are not behind it; that is an injection into `1..Cardinality(S)`,
and so onto it. `LeastNatural` replaces induction: to show that something holds of
every number, take the least one for which it does not.

`SanitizeProofs` proves every property of `sanitize`, for any letters and texts,
any names and denylist, any bounds, any literals and columns. `TablesAssumption`
says that `Encode` writes what would be read and written the same again and that
`Rank` tells names apart; `TextsAssumption` that what stands behind a `?` is
parameters; `LiteralsAssumption` that a column has at least as many digits as
decimals.

- `FirstPlace`, `CutFound`, `CutMissing` and `CutBeginning` say what `strings.Cut`
  does to any text and to the beginning of one; `ParsedBeginning` lifts that to
  `url.Parse`, so that a cut answer is still known to parse into a beginning of
  the parts. `AssembledParsed`: what `URL.String` writes parses into the parts it
  was written from. `Encoded`: what `Encode` writes is the parameters that are
  kept, each once, sorted by name and then by place.
- `IInv` is `Types`, `Ranged`, `Finished` and `Ruled`. `Ranged` is the loop over
  the map: `query` is what the URL had, less the sensitive names already looked at,
  and `removed` says whether there was one; so the order of the names has no part
  in what is left. `Finished` and `Ruled` say that an answer is what `stripFrom`,
  the bound and `fitsDecimal` make of the input.
- `SensitiveGone`, `BenignStays`, `Verbatim`, `SpelledOnce` and `TypeCorrect` follow
  from `IInv` and the lemmas. `SensitiveGone` is about parameters that can be
  decoded, of texts that are URLs, and about the fragment of any text; without that
  it is false, as `sanitize_undecodable_kept` shows. `BenignStays` needs besides that the answer is long
  enough not to have lost a parameter: `WordingLength` counts those that are left.
- `FitsExactly` (`FitsMeansStorable`): `WellFormedParts` is about the letters, and
  `BelowPower` about the value: a number of n digits is below the p-th power of ten
  just when its first n - p digits are zeros. It is proved on the sequences of
  prefixes and of powers (`Grows`, `Powers`), by the least prefix for which it
  fails.

Only model-checked: the liveness properties, because fairness is out of reach of
the prover. The runs that expect a violation have nothing to prove.

## 5. Not modelled

- The redirect of a trailing slash beyond the fact that gin answers it before the
  chain: it carries no request id and leaves no line, and `OneId` and
  `EveryRequestTraced` leave it out.
- JSON encoding and decoding beyond what a rule tells apart; `SlogLevel` and
  `FlushInterval`, which only read a configuration.
- The construction of the `Validator` from a configuration: no binary does it yet.
- A hook that never returns; a second signal.
- Registration of metrics, log formatting, build information: constant.
- Directories without code.

## 6. Plan

1. Done: the server with its contract and proofs; validation with its contract;
   the helpers; the configuration; the chain; readiness.
2. Proofs, done: every safety property, action property and refinement the passing
   runs check.
3. Composition: the chain and `Validate` inside the connections of
   `GracefulServer`, when the ingest handler exists.
