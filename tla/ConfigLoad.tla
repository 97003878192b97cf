----------------------------- MODULE ConfigLoad -----------------------------
(***************************************************************************)
(* How a process gets its configuration before it serves anything:         *)
(* config.Load (backend/internal/config), step by step as run in           *)
(* cmd/*/main.go calls it, and the CORS middleware the router is then      *)
(* built with.                                                             *)
(*                                                                         *)
(* A file is what its parser makes of it: a .env file is a set of          *)
(* variables, a configuration file gives each key a value.  A value is a   *)
(* scalar or a list of items, and an item is a literal (var = Empty) or    *)
(* one placeholder ${var} or ${var:-text}.  How a text is trimmed, folded, *)
(* split at its commas or read as a number is given by tables.             *)
(***************************************************************************)
EXTENDS Integers, Sequences, SequencesExt, TLC, Ordering

CONSTANTS
  Situations,    \* what a process may be started in: env, dirs, dotenvs, configs
  Trimmed,       \* strings.TrimSpace
  Folded,        \* strings.ToLower
  Split,         \* a text at its commas; nothing of the empty text
  IntegerOf,     \* the texts that decode as an integer, "" being 0
  DurationOf,    \* the texts time.ParseDuration accepts
  QueryStrings,  \* texts that hold one of =&?#
  Origins,       \* texts cors.New takes for an origin: a scheme, or a "*"
  Rank           \* of each variable and key: its place in the order slices.Sort uses

\* How many parents of the working directory are searched.
SearchDepth == 3

ListKeys == {"http.cors_allowed_origins", "ingest.sensitive_query_params", "kafka.brokers"}
IntegerKeys == {"http.max_body_bytes", "ingest.batch_size", "ingest.flush_interval_ms",
                "ingest.buffer_size", "ingest.workers", "ingest.max_events_per_request"}
DurationKeys == {"app.shutdown_timeout"}
TextKeys == {"app.env", "log.level", "log.format", "http.ingest_addr", "http.analytics_addr",
             "clickhouse.dsn", "ingest.sink", "ingest.insert_mode"}
Keys == ListKeys \union IntegerKeys \union DurationKeys \union TextKeys

Empty == ""  \* the empty string

Environment(vars_) == /\ vars_ \in [DOMAIN vars_ -> STRING]
                      /\ Empty \notin DOMAIN vars_
Values == [list : BOOLEAN,
           items : Seq([var : DOMAIN Rank, hasText : BOOLEAN, text : STRING])]

\* dotenvs and configs are the files that may be read as .env and as YAML, by
\* directory, subdirectory and name.
ASSUME SituationsAssumption ==
  \A s \in Situations :
    /\ Environment(s.env)
    /\ s.dirs \in Seq(STRING)
    /\ \A path \in DOMAIN s.dotenvs :
         s.dotenvs[path].ok => Environment(s.dotenvs[path].vars)
    /\ \A path \in DOMAIN s.configs :
         LET file == s.configs[path]
         IN  file.ok => /\ file.values \in [DOMAIN file.values -> Values]
                        /\ DOMAIN file.values \subseteq Keys

ASSUME TablesAssumption == /\ IntegerOf \in [DOMAIN IntegerOf -> Int]
                           /\ DurationOf \in [DOMAIN DurationOf -> Int]
                           /\ Folded["info"] = "info"
                           /\ Rank \in [DOMAIN Rank -> Int] /\ Keys \subseteq DOMAIN Rank
                           /\ \A m, n \in DOMAIN Rank : Rank[m] = Rank[n] => m = n

VARIABLES
  start,      \* the situation the process was started in
  env,        \* its environment
  pc,         \* the step of Load, or serving, failed or panicked
  at,         \* where the configuration file was found: directory, subdirectory, name
  values,     \* viper: of each key of the file, its value
  unexpanded, \* keys expandEnvVars has still to look at
  missing,    \* <<variable, key>> that nothing gave a value
  cfg,        \* the decoded Config, by key
  problems,   \* the keys Validate objects to
  failure,    \* the error Load returns, or none
  cors        \* what the CORS middleware answers browsers

vars == <<start, env, pc, at, values, unexpanded, missing, cfg, problems, failure, cors>>

Nowhere == <<Empty, Empty, Empty>>
NoCors == [origins |-> {}, all |-> FALSE, credentials |-> FALSE]

Init == /\ start \in Situations
        /\ env = start.env
        /\ pc = "dotenv"
        /\ at = Nowhere
        /\ values = <<>> /\ unexpanded = {} /\ missing = <<>>
        /\ cfg = <<>> /\ problems = {} /\ failure = "none"
        /\ cors = NoCors

-----------------------------------------------------------------------------
(* Files *)

\* os.Getenv: unset and empty are the same.
Getenv(var) == IF var \in DOMAIN env THEN env[var] ELSE Empty

\* The directories searchUp looks into, up to the root.
Searched == {i \in DOMAIN start.dirs : i <= SearchDepth + 1}

Below(i, place) == <<start.dirs[i], place[1], place[2]>>

\* searchUp: match tries places below a directory in their order, the nearest
\* directory first; the first of them that is a file, if there is one.
SearchUp(files, places) ==
  LET hits == {p \in Searched \X DOMAIN places : Below(p[1], places[p[2]]) \in DOMAIN files}
      Before(p, q) == p[1] < q[1] \/ (p[1] = q[1] /\ p[2] < q[2])
  IN  {Below(p[1], places[p[2]]) : p \in {h \in hits : \A g \in hits : ~Before(g, h)}}

Fail(why) == /\ pc' = "failed"
             /\ failure' = why

\* The variables of one environment, and those only the other has.
Merged(over, under) == [v \in DOMAIN over \union DOMAIN under |->
                          IF v \in DOMAIN over THEN over[v] ELSE under[v]]

\* Faulty: godotenv.Overload.
WithVariablesOverloaded(file) == Merged(file.vars, env)

\* godotenv.Load: a variable that is set, even to nothing, is left alone.
WithVariables(file) == Merged(env, file.vars)

\* The path ENV_FILE names, file or not, else what searchUp finds.
DotEnvPath == LET named == Getenv("ENV_FILE")
              IN  IF named # Empty THEN {<<named, Empty, Empty>>}
                  ELSE SearchUp(start.dotenvs, <<<<Empty, ".env">>>>)

\* loadDotEnv
LoadDotEnv ==
  /\ pc = "dotenv"
  /\ \/ /\ DotEnvPath = {}
        /\ pc' = "locate"
        /\ UNCHANGED <<env, failure>>
     \/ /\ \E path \in DotEnvPath : path \notin DOMAIN start.dotenvs
        /\ Fail("no such file")
        /\ UNCHANGED env
     \/ /\ \E path \in DotEnvPath \intersect DOMAIN start.dotenvs : ~start.dotenvs[path].ok
        /\ Fail("malformed .env")
        /\ UNCHANGED env
     \/ /\ \E path \in DotEnvPath \intersect DOMAIN start.dotenvs :
             /\ start.dotenvs[path].ok
             /\ env' = WithVariables(start.dotenvs[path])
        /\ pc' = "locate"
        /\ UNCHANGED failure
  /\ UNCHANGED <<start, at, values, unexpanded, missing, cfg, problems, cors>>

\* Faulty: the environment is chosen before .env is loaded.
AppEnvOfProcess ==
  IF "APP_ENV" \in DOMAIN start.env /\ Trimmed[start.env["APP_ENV"]] # Empty
  THEN Trimmed[start.env["APP_ENV"]] ELSE "development"

AppEnv == IF Trimmed[Getenv("APP_ENV")] = Empty THEN "development" ELSE Trimmed[Getenv("APP_ENV")]

\* configFilePath: CONFIG_DIR alone if it is set, else the nearest config/ or
\* backend/config/ that has the file.
ConfigPath ==
  LET dir == Getenv("CONFIG_DIR")
  IN  IF dir # Empty THEN {<<dir, Empty, AppEnv>>} \intersect DOMAIN start.configs
      ELSE SearchUp(start.configs, <<<<"config", AppEnv>>, <<"backend/config", AppEnv>>>>)

Locate ==
  /\ pc = "locate"
  /\ \/ /\ ConfigPath = {}
        /\ Fail("no configuration file")
        /\ UNCHANGED at
     \/ /\ at' \in ConfigPath
        /\ pc' = "read"
        /\ UNCHANGED failure
  /\ UNCHANGED <<start, env, values, unexpanded, missing, cfg, problems, cors>>

-----------------------------------------------------------------------------
(* Placeholders *)

Items(value) == ToSet(value.items)
HasPlaceholder(value) == \E item \in Items(value) : item.var # Empty

\* viper.ReadInConfig.  Expanding a key without a placeholder changes nothing.
Read ==
  LET file == start.configs[at]
  IN  /\ pc = "read"
      /\ \/ /\ ~file.ok
            /\ Fail("malformed configuration")
            /\ UNCHANGED <<values, unexpanded>>
         \/ /\ file.ok
            /\ values' = file.values
            /\ unexpanded' = {k \in DOMAIN file.values : HasPlaceholder(file.values[k])}
            /\ pc' = "expand"
            /\ UNCHANGED failure
      /\ UNCHANGED <<start, env, at, missing, cfg, problems, cors>>

Unresolved(item) == item.var # Empty /\ item.var \notin DOMAIN env /\ ~item.hasText

\* Faulty: a variable set to nothing is taken for an unset one.
ResolvedNonEmpty(item) ==
  IF Getenv(item.var) # Empty THEN Getenv(item.var) ELSE item.text

\* os.LookupEnv first, then what is written after ":-".
Resolved(item) == IF item.var \in DOMAIN env THEN env[item.var] ELSE item.text

\* One turn of the loop over AllKeys, which come from maps: in any order.
Expand(k) ==
  LET items == values[k].items
      lacking == {i \in DOMAIN items : Unresolved(items[i])}
  IN  /\ pc = "expand"
      /\ unexpanded' = unexpanded \ {k}
      /\ values' = [values EXCEPT ![k].items =
                      [i \in DOMAIN items |-> [var |-> Empty, hasText |-> TRUE,
                                               text |-> Resolved(items[i])]]]
      /\ missing' = missing \o Picked([i \in DOMAIN items |-> <<items[i].var, k>>], lacking)
      /\ UNCHANGED <<start, env, pc, at, cfg, problems, failure, cors>>

Precedes(m, n) == \/ Rank[m[1]] < Rank[n[1]]
                  \/ m[1] = n[1] /\ Rank[m[2]] <= Rank[n[2]]

\* Faulty: reported as they were met.
MissingAsMet == missing

\* slices.Sort
MissingSorted ==
  LET places == DOMAIN missing
      order == {p \in places \X places :
                  /\ Precedes(missing[p[1]], missing[p[2]])
                  /\ missing[p[1]] = missing[p[2]] => p[1] <= p[2]}
  IN  [j \in places |-> missing[Enumerated(places, order)[j]]]

Expanded == /\ pc = "expand" /\ unexpanded = {}
            /\ \/ /\ missing # <<>>
                  /\ missing' = MissingSorted
                  /\ Fail("unset variables")
               \/ /\ missing = <<>>
                  /\ pc' = "decode"
                  /\ UNCHANGED <<missing, failure>>
            /\ UNCHANGED <<start, env, at, values, unexpanded, cfg, problems, cors>>

-----------------------------------------------------------------------------
(* Decoding *)

Text(k) == IF k \in DOMAIN values /\ values[k].items # <<>> THEN values[k].items[1].text ELSE Empty

Decodable(k) == /\ k \in IntegerKeys => Text(k) \in DOMAIN IntegerOf
                /\ k \in DurationKeys /\ k \in DOMAIN values => Text(k) \in DOMAIN DurationOf

\* viper.Unmarshal with its default hooks; a key the file leaves out is zero.
DecodedDuration(k) == IF k \in DOMAIN values THEN DurationOf[Text(k)] ELSE 0
DecodedList(k) == IF k \in DOMAIN values /\ values[k].list
                  THEN [i \in DOMAIN values[k].items |-> values[k].items[i].text]
                  ELSE Split[Text(k)]
Decoded(k) == IF k \in IntegerKeys THEN IntegerOf[Text(k)]
              ELSE IF k \in DurationKeys THEN DecodedDuration(k)
              ELSE IF k \in ListKeys THEN DecodedList(k)
              ELSE Text(k)

\* Then app.env must be what selected the file.
Decode ==
  LET decoded == [k \in Keys |-> Decoded(k)]
      named == IF decoded["app.env"] = Empty THEN AppEnv ELSE decoded["app.env"]
  IN  /\ pc = "decode"
      /\ \/ /\ \E k \in Keys : ~Decodable(k)
            /\ Fail("undecodable")
            /\ UNCHANGED cfg
         \/ /\ \A k \in Keys : Decodable(k)
            /\ cfg' = [decoded EXCEPT !["app.env"] = named]
            /\ \/ /\ named # AppEnv
                  /\ Fail("wrong environment")
               \/ /\ named = AppEnv
                  /\ pc' = "validate"
                  /\ UNCHANGED failure
      /\ UNCHANGED <<start, env, at, values, unexpanded, missing, problems, cors>>

-----------------------------------------------------------------------------
(* Rules: every section adds its problems; the order of the list is left out *)

Environments == {"development", "staging", "production", "test"}
LogLevels == {"debug", "info", "warn", "error"}
LogFormats == {"json", "text"}
Sinks == {"direct", "kafka"}
InsertModes == {"batch", "single"}
MaxEventsPerRequestLimit == 500

Problem(broken, key) == IF broken THEN {key} ELSE {}

AppProblems(c) ==
  Problem(c["app.env"] \notin Environments, "app.env")
  \union Problem(c["app.shutdown_timeout"] <= 0, "app.shutdown_timeout")

\* The level in any case, the format as it is written.
LogProblems(c) ==
  Problem(Folded[c["log.level"]] \notin LogLevels, "log.level")
  \union Problem(c["log.format"] \notin LogFormats, "log.format")

HttpProblems(c) ==
  Problem(c["http.ingest_addr"] = Empty, "http.ingest_addr")
  \union Problem(c["http.analytics_addr"] = Empty, "http.analytics_addr")
  \union Problem(c["http.max_body_bytes"] <= 0, "http.max_body_bytes")

ClickHouseProblems(c) == Problem(c["clickhouse.dsn"] = Empty, "clickhouse.dsn")

IngestProblems(c) ==
  Problem(c["ingest.sink"] \notin Sinks, "ingest.sink")
  \union Problem(c["ingest.insert_mode"] \notin InsertModes, "ingest.insert_mode")
  \union Problem(c["ingest.batch_size"] <= 0, "ingest.batch_size")
  \union Problem(c["ingest.flush_interval_ms"] <= 0, "ingest.flush_interval_ms")
  \union Problem(c["ingest.buffer_size"] < c["ingest.batch_size"], "ingest.buffer_size")
  \union Problem(c["ingest.workers"] <= 0, "ingest.workers")
  \union Problem(c["ingest.max_events_per_request"] \notin 1..MaxEventsPerRequestLimit,
                 "ingest.max_events_per_request")
  \union Problem(\E p \in ToSet(c["ingest.sensitive_query_params"]) : p \in QueryStrings,
                 "ingest.sensitive_query_params")

KafkaEnabled(c) == c["kafka.brokers"] # <<>>

\* Faulty: a section with a problem hides the ones after it.
ProblemsOfFirstSection(c) ==
  LET behind == LogProblems(c) \union HttpProblems(c) \union ClickHouseProblems(c)
                \union IngestProblems(c)
                \union Problem(c["ingest.sink"] = "kafka" /\ ~KafkaEnabled(c), "kafka.brokers")
  IN  IF AppProblems(c) # {} THEN AppProblems(c) ELSE behind

\* Config.Validate; the kafka section has no rule of its own.
Problems(c) ==
  AppProblems(c) \union LogProblems(c) \union HttpProblems(c) \union ClickHouseProblems(c)
  \union IngestProblems(c)
  \union Problem(c["ingest.sink"] = "kafka" /\ ~KafkaEnabled(c), "kafka.brokers")

Validate == /\ pc = "validate"
            /\ problems' = Problems(cfg)
            /\ \/ /\ Problems(cfg) # {}
                  /\ Fail("invalid configuration")
               \/ /\ Problems(cfg) = {}
                  /\ pc' = "router"
                  /\ UNCHANGED failure
            /\ UNCHANGED <<start, env, at, values, unexpanded, missing, cfg, cors>>

-----------------------------------------------------------------------------
(* The router *)

\* nonEmpty, as the positions of the entries it keeps, trimmed.
NonEmpty(list) == {i \in DOMAIN list : Trimmed[list[i]] # Empty}

\* Faulty: a "*" is an origin like any other, so its answers carry credentials.
AllowAllNever(list) == FALSE

\* allowAll: the "*" is the only entry.
AllowAll(list) == \E i \in NonEmpty(list) :
                    NonEmpty(list) = {i} /\ Trimmed[list[i]] = "*"

\* CORS, and cors.New, which panics on what it does not take for an origin and
\* reads a "*" among others as all of them.
BuildRouter ==
  LET list == cfg["http.cors_allowed_origins"]
      kept == NonEmpty(list)
      origins == {Trimmed[list[i]] : i \in kept}
      allowAll == AllowAll(list)
  IN  /\ pc = "router"
      /\ \/ /\ kept = {} \/ allowAll
            /\ cors' = [origins |-> {}, all |-> allowAll, credentials |-> FALSE]
            /\ pc' = "serving"
         \/ /\ kept # {} /\ ~allowAll /\ origins \subseteq Origins
            /\ cors' = [origins |-> origins, all |-> "*" \in origins, credentials |-> TRUE]
            /\ pc' = "serving"
         \/ /\ kept # {} /\ ~allowAll /\ ~(origins \subseteq Origins)
            /\ pc' = "panicked"
            /\ UNCHANGED cors
      /\ UNCHANGED <<start, env, at, values, unexpanded, missing, cfg, problems, failure>>

Ended == pc \in {"serving", "failed", "panicked"} /\ UNCHANGED vars

Next == \/ LoadDotEnv \/ Locate \/ Read \/ Expanded \/ Decode \/ Validate \/ BuildRouter
        \/ \E k \in unexpanded : Expand(k)
        \/ Ended

Spec == Init /\ [][Next]_vars

-----------------------------------------------------------------------------
(* Properties, said of the situation the process was started in *)

\* The .env file that counts: the one that is named, else the nearest.
Named == IF "ENV_FILE" \in DOMAIN start.env THEN start.env["ENV_FILE"] ELSE Empty
DotEnvIn(i) == <<start.dirs[i], Empty, ".env">> \in DOMAIN start.dotenvs
NearestDotEnv ==
  {<<start.dirs[i], Empty, ".env">> :
     i \in {k \in DOMAIN start.dirs : k <= 4 /\ DotEnvIn(k) /\ \A j \in 1..k - 1 : ~DotEnvIn(j)}}
DotEnv ==
  LET paths == IF Named # Empty THEN {<<Named, Empty, Empty>>} ELSE NearestDotEnv
  IN  IF \E p \in paths : p \in DOMAIN start.dotenvs /\ start.dotenvs[p].ok
      THEN start.dotenvs[CHOOSE p \in paths : TRUE].vars ELSE <<>>

\* The process environment wins over .env, even with an empty value.
Given == Merged(start.env, DotEnv)
GivenText(var) == IF var \in DOMAIN Given THEN Given[var] ELSE Empty

\* Every variable has its type; what the process was given is never changed,
\* whatever .env says.
TypeOK ==
  /\ pc \in {"dotenv", "locate", "read", "expand", "decode", "validate", "router",
             "serving", "failed", "panicked"}
  /\ \A v \in DOMAIN start.env : env[v] = start.env[v]
  /\ at \in DOMAIN start.configs \union {Nowhere}
  /\ unexpanded \subseteq DOMAIN values /\ DOMAIN values \subseteq Keys
  /\ pc = "failed" <=> failure # "none"
  /\ problems \subseteq Keys
  /\ problems # {} <=> failure = "invalid configuration"

NameGiven == IF Trimmed[GivenText("APP_ENV")] # Empty THEN Trimmed[GivenText("APP_ENV")]
             ELSE "development"
ConfigsIn(i) == {sub \in {"config", "backend/config"} :
                   <<start.dirs[i], sub, NameGiven>> \in DOMAIN start.configs}

\* A process runs with the configuration it was pointed at: the file named by
\* APP_ENV, wherever that is set, from CONFIG_DIR and nowhere else if that is
\* set, and else from the nearest directory that has it, config/ before
\* backend/config/, no further up than three parents.
NearestFile ==
  /\ at # Nowhere =>
       /\ at[3] = NameGiven
       /\ IF GivenText("CONFIG_DIR") # Empty
          THEN at[1] = GivenText("CONFIG_DIR") /\ at[2] = Empty
          ELSE \E i \in DOMAIN start.dirs :
                 /\ i <= 4 /\ at[1] = start.dirs[i] /\ at[2] \in ConfigsIn(i)
                 /\ "config" \in ConfigsIn(i) => at[2] = "config"
                 /\ \A j \in 1..i - 1 : ConfigsIn(j) = {}
  /\ failure = "no configuration file" /\ GivenText("CONFIG_DIR") = Empty =>
       \A i \in DOMAIN start.dirs : i <= 4 => ConfigsIn(i) = {}

\* The order keys were expanded in does not matter: each placeholder became what
\* the process environment says, else .env, else its fallback.
Precedence ==
  pc \in {"decode", "validate", "router", "serving", "panicked"} =>
    \A k \in DOMAIN values : \A i \in DOMAIN values[k].items :
      LET written == start.configs[at].values[k].items[i]
      IN  values[k].items[i].text = IF written.var \in DOMAIN Given THEN Given[written.var]
                                    ELSE written.text

\* What key k requires and nothing gives.
LackedBy(k) ==
  {<<item.var, k>> : item \in {x \in Items(start.configs[at].values[k]) :
                                 x.var \notin DOMAIN Given \union {Empty} /\ ~x.hasText}}
Lacked == UNION {LackedBy(k) : k \in DOMAIN start.configs[at].values}

\* A variable that is required and not given stops the process, and all of
\* them are named, in an order that is always the same.
MissingReport ==
  values # <<>> /\ pc # "expand" =>
    IF Lacked = {} THEN missing = <<>>
    ELSE pc = "failed" /\ ToSet(missing) = Lacked /\ IsSorted(missing, Precedes)

\* A value for each key that no rule objects to.
SoundText(k) == CASE k = "app.env" -> "development"
                  [] k = "log.level" -> "info"
                  [] k = "log.format" -> "json"
                  [] k = "ingest.sink" -> "direct"
                  [] k = "ingest.insert_mode" -> "batch"
                  [] OTHER -> "set"
SoundNumber(c, k) == IF k = "ingest.buffer_size" /\ c["ingest.batch_size"] > 0
                     THEN c["ingest.batch_size"] ELSE 1
SoundList(k) == IF k = "kafka.brokers" THEN <<"broker">> ELSE <<>>
Sound(c, k) == IF k \in ListKeys THEN SoundList(k)
               ELSE IF k \in IntegerKeys \union DurationKeys THEN SoundNumber(c, k)
               ELSE SoundText(k)

\* c with sound values for some keys; a buffer has to hold the batch it gets.
Repaired(c, keys) ==
  [k \in Keys |-> IF k \in keys \/ (k = "ingest.buffer_size" /\ "ingest.batch_size" \in keys)
                  THEN Sound(c, k) ELSE c[k]]

\* A misconfigured deployment is fixed in one pass: once the keys the report
\* names are given sound values the configuration loads, and none of them is
\* named in vain.  A batch size that has to be replaced is the exception: the
\* buffer may turn out too small for the one that replaces it.
\* What loads has room for its batch, and for Kafka a list of brokers with an
\* entry in it; the code lets that entry be blank, which config.go:40-41 does not.
OnePassFixes ==
  /\ failure = "invalid configuration" =>
       /\ Problems(Repaired(cfg, problems)) = {}
       /\ \A k \in problems \ {"ingest.buffer_size"} :
            Problems(Repaired(cfg, problems \ {k})) # {}
  /\ pc \in {"router", "serving", "panicked"} =>
       /\ cfg["app.env"] = at[3]
       /\ cfg["ingest.batch_size"] \in 1..cfg["ingest.buffer_size"]
       /\ cfg["ingest.sink"] = "kafka" => cfg["kafka.brokers"] # <<>>

\* What a list of origins names, and whether it has but one entry.
NamedIn(list) == {Trimmed[list[i]] : i \in DOMAIN list} \ {Empty}
OneEntry(list) == \E i \in DOMAIN list :
                    \A j \in DOMAIN list : Trimmed[list[j]] # Empty <=> j = i

\* The list of origins means what it says, whatever blanks and commas it came
\* with.  Nothing is no cross-origin access; a "*" somewhere in it is everyone,
\* and nothing else is; without one exactly the origins named have access.  It
\* comes with credentials unless the list is a "*" alone: among other entries it
\* is everyone with credentials, which .env.example:38 says a "*" never is.  Only
\* a text that is no origin stops the process.
StartsAsConfigured ==
  LET list == cfg["http.cors_allowed_origins"]
      origins == NamedIn(list)
  IN  /\ pc = "serving" =>
           /\ origins = {} <=> cors = NoCors
           /\ cors.all <=> "*" \in origins
           /\ ~cors.all => cors.origins = origins
           /\ cors.credentials <=> origins # {} /\ ~(origins = {"*"} /\ OneEntry(list))
      /\ pc = "panicked" => ~(origins \subseteq Origins)

=============================================================================
