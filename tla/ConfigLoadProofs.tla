-------------------------- MODULE ConfigLoadProofs --------------------------
(***************************************************************************)
(* Proofs about ConfigLoad, for any situation a process may be started in. *)
(***************************************************************************)
EXTENDS ConfigLoad, OrderingProofs, SequenceTheorems

\* Of the places that are files, searchUp takes the first one of the nearest
\* directory that has any.
LEMMA Nearest ==
  ASSUME start.dirs \in Seq(STRING),
         NEW files, NEW places, DOMAIN places \subseteq Nat
  PROVE  /\ \A path \in SearchUp(files, places) :
              \E i \in Searched, j \in DOMAIN places :
                /\ path = Below(i, places[j]) /\ path \in DOMAIN files
                /\ \A g \in Searched, h \in DOMAIN places :
                     Below(g, places[h]) \in DOMAIN files => i < g \/ (i = g /\ j <= h)
         /\ SearchUp(files, places) = {} =>
              \A g \in Searched, h \in DOMAIN places : Below(g, places[h]) \notin DOMAIN files
<1> DEFINE hits == {p \in Searched \X DOMAIN places : Below(p[1], places[p[2]]) \in DOMAIN files}
           Before(p, q) == p[1] < q[1] \/ (p[1] = q[1] /\ p[2] < q[2])
           first == {h \in hits : \A g \in hits : ~Before(g, h)}
<1>1. SearchUp(files, places) = {Below(p[1], places[p[2]]) : p \in first}
  BY DEF SearchUp
<1>2. Searched \subseteq Nat /\ DOMAIN places \subseteq Nat
  BY DEF Searched
<1>3. \A g \in Searched, h \in DOMAIN places :
        Below(g, places[h]) \in DOMAIN files => <<g, h>> \in hits
  OBVIOUS
<1>4. \A p \in hits : /\ p[1] \in Searched /\ p[2] \in DOMAIN places
                      /\ Below(p[1], places[p[2]]) \in DOMAIN files
  OBVIOUS
<1> HIDE DEF hits
<1>5. hits # {} => first # {}
  <2> SUFFICES ASSUME hits # {} PROVE first # {}
    OBVIOUS
  <2> DEFINE I == {p[1] : p \in hits}
  <2>1. PICK i \in I : \A k \in I : i <= k
    <3>1. I \subseteq Nat /\ I # {}
      BY <1>2, <1>4
    <3> HIDE DEF I
    <3> QED
      BY <3>1, LeastNatural
  <2> DEFINE J == {p[2] : p \in {q \in hits : q[1] = i}}
  <2>2. PICK j \in J : \A k \in J : j <= k
    <3>1. J \subseteq Nat /\ J # {}
      BY <1>2, <1>4
    <3> HIDE DEF J
    <3> QED
      BY <3>1, LeastNatural
  <2>3. PICK p \in hits : p[1] = i /\ p[2] = j
    OBVIOUS
  <2>4. ASSUME NEW q \in hits PROVE ~Before(q, p)
    <3>1. i <= q[1]
      BY <2>1
    <3>2. q[1] = i => j <= q[2]
      BY <2>2
    <3>3. q[1] \in Nat /\ q[2] \in Nat /\ p[1] \in Nat /\ p[2] \in Nat
      BY <1>2, <1>4
    <3> HIDE DEF I, J
    <3> QED
      BY <2>3, <3>1, <3>2, <3>3
  <2> QED
    BY <2>3, <2>4
<1>6. \A p \in first : \A g \in Searched, h \in DOMAIN places :
        Below(g, places[h]) \in DOMAIN files => p[1] < g \/ (p[1] = g /\ p[2] <= h)
  <2> SUFFICES ASSUME NEW p \in first, NEW g \in Searched, NEW h \in DOMAIN places,
                      Below(g, places[h]) \in DOMAIN files
               PROVE  p[1] < g \/ (p[1] = g /\ p[2] <= h)
    OBVIOUS
  <2>1. ~Before(<<g, h>>, p)
    BY <1>3
  <2>2. g \in Nat /\ h \in Nat /\ p[1] \in Nat /\ p[2] \in Nat
    BY <1>2, <1>4
  <2> QED
    BY <2>1, <2>2
<1>7. first \subseteq hits
  OBVIOUS
<1> HIDE DEF first
<1>8. ASSUME NEW path \in SearchUp(files, places)
      PROVE  \E i \in Searched, j \in DOMAIN places :
                /\ path = Below(i, places[j]) /\ path \in DOMAIN files
                /\ \A g \in Searched, h \in DOMAIN places :
                     Below(g, places[h]) \in DOMAIN files => i < g \/ (i = g /\ j <= h)
  <2>1. PICK p \in first : path = Below(p[1], places[p[2]])
    BY <1>1
  <2>2. /\ p[1] \in Searched /\ p[2] \in DOMAIN places /\ path \in DOMAIN files
    BY <1>4, <1>7, <2>1
  <2> QED
    BY <1>6, <2>1, <2>2
<1>9. ASSUME SearchUp(files, places) = {},
             NEW g \in Searched, NEW h \in DOMAIN places
      PROVE  Below(g, places[h]) \notin DOMAIN files
  <2>1. first = {}
    BY <1>1, <1>9
  <2> QED
    BY <1>3, <1>5, <2>1
<1> QED
  BY <1>8, <1>9

LEMMA DotEnvPlaces ==
  ASSUME start.dirs \in Seq(STRING)
  PROVE  SearchUp(start.dotenvs, <<<<Empty, ".env">>>>) = NearestDotEnv
<1> DEFINE places == <<<<Empty, ".env">>>>
           near == {k \in DOMAIN start.dirs :
                      k <= 4 /\ DotEnvIn(k) /\ \A j \in 1..k - 1 : ~DotEnvIn(j)}
<1>1. DOMAIN places = {1} /\ places[1][1] = Empty /\ places[1][2] = ".env"
  OBVIOUS
<1>2. \A i : Below(i, places[1]) = <<start.dirs[i], Empty, ".env">>
  BY <1>1 DEF Below
<1>3. \A i : Below(i, places[1]) \in DOMAIN start.dotenvs <=> DotEnvIn(i)
  BY <1>2 DEF DotEnvIn
<1>4. \A i : i \in Searched <=> i \in DOMAIN start.dirs /\ i <= 4
  BY DEF Searched, SearchDepth
<1>5. DOMAIN start.dirs = 1..Len(start.dirs) /\ Len(start.dirs) \in Nat
  OBVIOUS
<1> HIDE DEF places
<1>6. ASSUME NEW path \in SearchUp(start.dotenvs, places) PROVE path \in NearestDotEnv
  <2>1. PICK i \in Searched, j \in DOMAIN places :
          /\ path = Below(i, places[j]) /\ path \in DOMAIN start.dotenvs
          /\ \A g \in Searched, h \in DOMAIN places :
               Below(g, places[h]) \in DOMAIN start.dotenvs => i < g \/ (i = g /\ j <= h)
    BY <1>1, Nearest
  <2>2. j = 1
    BY <1>1
  <2>3. \A g \in 1..i - 1 : ~DotEnvIn(g)
    BY <1>1, <1>3, <1>4, <1>5, <2>1
  <2>4. i \in near
    BY <1>3, <1>4, <2>1, <2>2, <2>3
  <2> QED
    BY <1>2, <2>1, <2>2, <2>4 DEF NearestDotEnv
<1>7. ASSUME NEW path \in NearestDotEnv PROVE path \in SearchUp(start.dotenvs, places)
  <2>1. PICK i \in near : path = <<start.dirs[i], Empty, ".env">>
    BY DEF NearestDotEnv
  <2>2. i \in Searched /\ Below(i, places[1]) \in DOMAIN start.dotenvs
    BY <1>3, <1>4, <2>1
  <2>3. SearchUp(start.dotenvs, places) # {}
    BY <1>1, <2>2, Nearest
  <2>4. PICK other \in SearchUp(start.dotenvs, places) : TRUE
    BY <2>3
  <2>5. PICK k \in Searched, j \in DOMAIN places :
          /\ other = Below(k, places[j]) /\ other \in DOMAIN start.dotenvs
          /\ \A g \in Searched, h \in DOMAIN places :
               Below(g, places[h]) \in DOMAIN start.dotenvs => k < g \/ (k = g /\ j <= h)
    BY <1>1, Nearest
  <2>6. j = 1 /\ k <= i
    BY <1>1, <1>4, <1>5, <2>2, <2>5
  <2>7. ~(k < i)
    BY <1>3, <1>4, <1>5, <2>1, <2>5, <2>6
  <2>8. k = i
    BY <1>4, <1>5, <2>2, <2>5, <2>6, <2>7
  <2> QED
    BY <1>2, <2>1, <2>4, <2>5, <2>6, <2>8
<1> QED
  BY <1>6, <1>7 DEF places

\* At most one .env file counts, and loadDotEnv goes for that one.
LEMMA DotEnvFound ==
  ASSUME start \in Situations
  PROVE  /\ DotEnv = <<>> \/ \E path \in DOMAIN start.dotenvs :
              start.dotenvs[path].ok /\ DotEnv = start.dotenvs[path].vars
         /\ env = start.env /\ DotEnvPath = {} => DotEnv = <<>>
         /\ \A path \in DotEnvPath \intersect DOMAIN start.dotenvs :
              env = start.env /\ start.dotenvs[path].ok => DotEnv = start.dotenvs[path].vars
<1> DEFINE paths == IF Named # Empty THEN {<<Named, Empty, Empty>>} ELSE NearestDotEnv
<1>1. start.dirs \in Seq(STRING)
  BY SituationsAssumption
<1>2. env = start.env => DotEnvPath = paths
  BY <1>1, DotEnvPlaces DEF DotEnvPath, Getenv, Named
<1>3. \A p, q \in NearestDotEnv : p = q
  <2>1. DOMAIN start.dirs \subseteq Nat
    BY <1>1
  <2>2. ASSUME NEW i \in DOMAIN start.dirs, NEW k \in DOMAIN start.dirs,
               DotEnvIn(i), \A j \in 1..i - 1 : ~DotEnvIn(j),
               DotEnvIn(k), \A j \in 1..k - 1 : ~DotEnvIn(j)
        PROVE  i = k
    <3>1. i \in Nat /\ k \in Nat /\ i >= 1 /\ k >= 1
      BY <1>1
    <3> QED
      BY <2>2, <3>1
  <2> QED
    BY <2>2 DEF NearestDotEnv
<1>4. \A p, q \in paths : p = q
  BY <1>3
<1>5. DotEnv = IF \E p \in paths : p \in DOMAIN start.dotenvs /\ start.dotenvs[p].ok
               THEN start.dotenvs[CHOOSE p \in paths : TRUE].vars ELSE <<>>
  BY DEF DotEnv
<1> HIDE DEF paths
<1>6. \A p \in paths : p = CHOOSE q \in paths : TRUE
  BY <1>4
<1> QED
  BY <1>2, <1>5, <1>6

\* No variable without a name comes from anywhere.
LEMMA GivenNamed ==
  ASSUME start \in Situations
  PROVE  /\ Empty \notin DOMAIN Given
         /\ \A v \in DOMAIN start.env : v \in DOMAIN Given /\ Given[v] = start.env[v]
<1>1. Empty \notin DOMAIN start.env
  BY SituationsAssumption DEF Environment
<1>2. Empty \notin DOMAIN DotEnv
  <2>1. CASE DotEnv = <<>>
    BY <2>1
  <2>2. CASE \E path \in DOMAIN start.dotenvs :
               start.dotenvs[path].ok /\ DotEnv = start.dotenvs[path].vars
    BY <2>2, SituationsAssumption DEF Environment
  <2> QED
    BY <2>1, <2>2, DotEnvFound
<1>3. /\ DOMAIN Given = DOMAIN start.env \union DOMAIN DotEnv
      /\ \A v \in DOMAIN start.env : Given[v] = start.env[v]
  BY DEF Given, Merged
<1> QED
  BY <1>1, <1>2, <1>3

\* What loadDotEnv leaves is what the process was given.
LEMMA EnvironmentLoaded ==
  ASSUME start \in Situations, env = start.env, LoadDotEnv, pc' = "locate"
  PROVE  env' = Given
<1>1. \/ DotEnvPath = {} /\ env' = env
      \/ \E path \in DotEnvPath \intersect DOMAIN start.dotenvs :
           start.dotenvs[path].ok /\ env' = WithVariables(start.dotenvs[path])
  BY DEF LoadDotEnv, Fail
<1>2. CASE DotEnvPath = {} /\ env' = env
  <2>1. DotEnv = <<>>
    BY <1>2, DotEnvFound
  <2>2. start.env \in [DOMAIN start.env -> STRING]
    BY SituationsAssumption DEF Environment
  <2>3. start.env = [v \in DOMAIN start.env |-> start.env[v]]
    BY <2>2
  <2>4. Given = [v \in DOMAIN start.env |-> start.env[v]]
    BY <2>1 DEF Given, Merged
  <2> QED
    BY <1>2, <2>3, <2>4
<1>3. CASE \E path \in DotEnvPath \intersect DOMAIN start.dotenvs :
             start.dotenvs[path].ok /\ env' = WithVariables(start.dotenvs[path])
  BY <1>3, DotEnvFound DEF Given, WithVariables
<1> QED
  BY <1>1, <1>2, <1>3

\* configFilePath finds the file NearestFile speaks of, or there is none.
LEMMA ConfigFound ==
  ASSUME start \in Situations, env = Given
  PROVE  /\ \A path \in ConfigPath :
              /\ path \in DOMAIN start.configs /\ path[3] = NameGiven
              /\ IF GivenText("CONFIG_DIR") # Empty
                 THEN path[1] = GivenText("CONFIG_DIR") /\ path[2] = Empty
                 ELSE \E i \in DOMAIN start.dirs :
                        /\ i <= 4 /\ path[1] = start.dirs[i] /\ path[2] \in ConfigsIn(i)
                        /\ "config" \in ConfigsIn(i) => path[2] = "config"
                        /\ \A j \in 1..i - 1 : ConfigsIn(j) = {}
         /\ ConfigPath = {} /\ GivenText("CONFIG_DIR") = Empty =>
              \A i \in DOMAIN start.dirs : i <= 4 => ConfigsIn(i) = {}
<1> DEFINE dir == GivenText("CONFIG_DIR")
           places == <<<<"config", AppEnv>>, <<"backend/config", AppEnv>>>>
<1>1. AppEnv = NameGiven
  BY DEF AppEnv, NameGiven, Getenv, GivenText
<1>2. Getenv("CONFIG_DIR") = dir
  BY DEF Getenv, GivenText
<1>3. /\ DOMAIN places = {1, 2}
      /\ places[1][1] = "config" /\ places[1][2] = NameGiven
      /\ places[2][1] = "backend/config" /\ places[2][2] = NameGiven
  BY <1>1
<1>4. ConfigPath = IF dir # Empty THEN {<<dir, Empty, NameGiven>>} \intersect DOMAIN start.configs
                   ELSE SearchUp(start.configs, places)
  BY <1>1, <1>2 DEF ConfigPath
<1> HIDE DEF places, dir
<1>5. /\ \A i : Below(i, places[1]) = <<start.dirs[i], "config", NameGiven>>
      /\ \A i : Below(i, places[2]) = <<start.dirs[i], "backend/config", NameGiven>>
  BY <1>3 DEF Below
<1>6. \A i : /\ "config" \in ConfigsIn(i) <=> Below(i, places[1]) \in DOMAIN start.configs
             /\ "backend/config" \in ConfigsIn(i) <=> Below(i, places[2]) \in DOMAIN start.configs
             /\ ConfigsIn(i) \subseteq {"config", "backend/config"}
  BY <1>5 DEF ConfigsIn
<1>7. /\ DOMAIN start.dirs = 1..Len(start.dirs) /\ Len(start.dirs) \in Nat
      /\ start.dirs \in Seq(STRING)
  BY SituationsAssumption
<1>8. \A i : i \in Searched <=> i \in DOMAIN start.dirs /\ i <= 4
  BY DEF Searched, SearchDepth
<1>9. ASSUME dir = Empty, NEW path \in ConfigPath
      PROVE  /\ path \in DOMAIN start.configs /\ path[3] = NameGiven
             /\ \E i \in DOMAIN start.dirs :
                  /\ i <= 4 /\ path[1] = start.dirs[i] /\ path[2] \in ConfigsIn(i)
                  /\ "config" \in ConfigsIn(i) => path[2] = "config"
                  /\ \A j \in 1..i - 1 : ConfigsIn(j) = {}
  <2>1. PICK i \in Searched, j \in DOMAIN places :
          /\ path = Below(i, places[j]) /\ path \in DOMAIN start.configs
          /\ \A g \in Searched, h \in DOMAIN places :
               Below(g, places[h]) \in DOMAIN start.configs => i < g \/ (i = g /\ j <= h)
    BY <1>3, <1>4, <1>7, <1>9, Nearest
  <2>2. i \in DOMAIN start.dirs /\ i <= 4 /\ i \in Nat
    BY <1>7, <1>8
  <2>3. path[1] = start.dirs[i] /\ path[3] = NameGiven /\ path[2] = places[j][1]
    BY <1>3, <2>1 DEF Below
  <2>4. path[2] \in ConfigsIn(i)
    BY <1>3, <1>6, <2>1, <2>3
  <2>5. "config" \in ConfigsIn(i) => path[2] = "config"
    <3>1. "config" \in ConfigsIn(i) => j <= 1
      BY <1>3, <1>6, <2>1, <2>2
    <3> QED
      BY <1>3, <2>3, <3>1
  <2>6. ASSUME NEW k \in 1..i - 1 PROVE ConfigsIn(k) = {}
    <3>1. k \in Searched /\ ~(i < k) /\ i # k
      BY <1>7, <1>8, <2>2
    <3> QED
      BY <1>3, <1>6, <2>1, <3>1
  <2> QED
    BY <2>1, <2>2, <2>3, <2>4, <2>5, <2>6
<1>10. ASSUME dir = Empty, ConfigPath = {}, NEW i \in DOMAIN start.dirs, i <= 4
       PROVE  ConfigsIn(i) = {}
  <2>1. \A h \in {1, 2} : Below(i, places[h]) \notin DOMAIN start.configs
    BY <1>3, <1>4, <1>7, <1>8, <1>10, Nearest
  <2> QED
    BY <1>6, <2>1
<1>11. ASSUME dir # Empty, NEW path \in ConfigPath
       PROVE  /\ path \in DOMAIN start.configs /\ path[3] = NameGiven
              /\ path[1] = dir /\ path[2] = Empty
  <2>1. path = <<dir, Empty, NameGiven>> /\ path \in DOMAIN start.configs
    BY <1>4, <1>11
  <2> QED
    BY <2>1
<1> QED
  BY <1>9, <1>10, <1>11 DEF dir

-----------------------------------------------------------------------------
(* The rules *)

Rules == {"app.env", "app.shutdown_timeout", "log.level", "log.format", "http.ingest_addr",
          "http.analytics_addr", "http.max_body_bytes", "clickhouse.dsn", "ingest.sink",
          "ingest.insert_mode", "ingest.batch_size", "ingest.flush_interval_ms",
          "ingest.buffer_size", "ingest.workers", "ingest.max_events_per_request",
          "ingest.sensitive_query_params", "kafka.brokers"}

\* What each rule objects to.
Objects(c, k) ==
  CASE k = "app.env" -> c[k] \notin Environments
    [] k = "log.level" -> Folded[c[k]] \notin LogLevels
    [] k = "log.format" -> c[k] \notin LogFormats
    [] k = "ingest.sink" -> c[k] \notin Sinks
    [] k = "ingest.insert_mode" -> c[k] \notin InsertModes
    [] k \in {"http.ingest_addr", "http.analytics_addr", "clickhouse.dsn"} -> c[k] = Empty
    [] k = "ingest.buffer_size" -> c[k] < c["ingest.batch_size"]
    [] k = "ingest.max_events_per_request" -> c[k] \notin 1..MaxEventsPerRequestLimit
    [] k = "ingest.sensitive_query_params" -> \E p \in ToSet(c[k]) : p \in QueryStrings
    [] k = "kafka.brokers" -> c["ingest.sink"] = "kafka" /\ c[k] = <<>>
    [] OTHER -> c[k] <= 0

LEMMA Objections ==
  ASSUME NEW c
  PROVE  /\ Problems(c) \subseteq Rules
         /\ \A k \in Rules : k \in Problems(c) <=> Objects(c, k)
<1>1. Problems(c) \subseteq Rules
  BY DEF Problems, AppProblems, LogProblems, HttpProblems, ClickHouseProblems, IngestProblems,
         Problem, Rules
<1>2. ASSUME NEW k \in Rules PROVE k \in Problems(c) <=> Objects(c, k)
  <2> USE DEF Problems, AppProblems, LogProblems, HttpProblems, ClickHouseProblems,
              IngestProblems, Problem, Objects, KafkaEnabled
  <2>1. CASE k \in {"app.env", "log.level", "log.format", "ingest.sink", "ingest.insert_mode"}
    BY <2>1
  <2>2. CASE k \in {"http.ingest_addr", "http.analytics_addr", "clickhouse.dsn"}
    BY <2>2
  <2>3. CASE k \in {"ingest.buffer_size", "ingest.max_events_per_request"}
    BY <2>3
  <2>4. CASE k = "ingest.sensitive_query_params"
    BY <2>4
  <2>5. CASE k = "kafka.brokers"
    BY <2>5
  <2>6. CASE k \in {"app.shutdown_timeout", "http.max_body_bytes", "ingest.batch_size",
                    "ingest.flush_interval_ms", "ingest.workers"}
    BY <2>6
  <2> QED
    BY <2>1, <2>2, <2>3, <2>4, <2>5, <2>6 DEF Rules
<1> QED
  BY <1>1, <1>2

\* The keys whose rule compares numbers.
NumbersDecoded(c) == \A k \in IntegerKeys \union DurationKeys : c[k] \in Int

Plain == Rules \ {"ingest.buffer_size", "kafka.brokers"}

\* All rules but those of the buffer and of the brokers look at one key.
LEMMA OwnKey ==
  ASSUME NEW c, NEW d, NEW k \in Plain, c[k] = d[k], Objects(c, k)
  PROVE  Objects(d, k)
BY DEF Objects, Plain

LEMMA SoundValues ==
  ASSUME NEW c, NEW k \in Rules
  PROVE  /\ k \in {"ingest.sensitive_query_params", "kafka.brokers"} => Sound(c, k) = SoundList(k)
         /\ k \in {"app.shutdown_timeout", "http.max_body_bytes", "ingest.batch_size",
                    "ingest.flush_interval_ms", "ingest.buffer_size", "ingest.workers",
                    "ingest.max_events_per_request"} => Sound(c, k) = SoundNumber(c, k)
         /\ k \in {"app.env", "log.level", "log.format", "http.ingest_addr",
                    "http.analytics_addr", "clickhouse.dsn", "ingest.sink",
                    "ingest.insert_mode"} => Sound(c, k) = SoundText(k)
BY DEF Sound, ListKeys, IntegerKeys, DurationKeys

LEMMA RepairedValues ==
  ASSUME NEW c, NEW keys
  PROVE  /\ \A k \in Rules \ {"ingest.buffer_size"} :
              Repaired(c, keys)[k] = IF k \in keys THEN Sound(c, k) ELSE c[k]
         /\ Repaired(c, keys)["ingest.buffer_size"] =
              IF "ingest.buffer_size" \in keys \/ "ingest.batch_size" \in keys
              THEN (IF c["ingest.batch_size"] > 0 THEN c["ingest.batch_size"] ELSE 1)
              ELSE c["ingest.buffer_size"]
<1>1. Rules \subseteq Keys
  BY DEF Rules, Keys, ListKeys, IntegerKeys, DurationKeys, TextKeys
<1>2. \A k \in Rules \ {"ingest.buffer_size"} :
        Repaired(c, keys)[k] = IF k \in keys THEN Sound(c, k) ELSE c[k]
  BY <1>1 DEF Repaired
<1>3. Repaired(c, keys)["ingest.buffer_size"] =
        IF "ingest.buffer_size" \in keys \/ "ingest.batch_size" \in keys
        THEN Sound(c, "ingest.buffer_size") ELSE c["ingest.buffer_size"]
  BY <1>1 DEF Repaired, Rules
<1>4. Sound(c, "ingest.buffer_size") =
        IF c["ingest.batch_size"] > 0 THEN c["ingest.batch_size"] ELSE 1
  BY SoundValues DEF SoundNumber, Rules
<1> QED
  BY <1>2, <1>3, <1>4

LEMMA SoundIsSound ==
  ASSUME NEW c, NEW d, NEW k \in Rules \ {"ingest.buffer_size"}, d[k] = Sound(c, k)
  PROVE  ~Objects(d, k)
<1>1. CASE k \in {"app.env", "log.format", "ingest.sink", "ingest.insert_mode"}
  <2>1. d[k] = SoundText(k)
    BY <1>1, SoundValues
  <2> QED
    BY <1>1, <2>1 DEF Objects, SoundText, Environments, LogFormats, Sinks, InsertModes
<1>2. CASE k = "log.level"
  <2>1. d[k] = "info"
    BY <1>2, SoundValues DEF SoundText
  <2> QED
    BY <1>2, <2>1, TablesAssumption DEF Objects, LogLevels
<1>3. CASE k \in {"http.ingest_addr", "http.analytics_addr", "clickhouse.dsn"}
  <2>1. d[k] = "set"
    BY <1>3, SoundValues DEF SoundText
  <2>2. Objects(d, k) <=> d[k] = Empty
    BY <1>3 DEF Objects
  <2>3. "set" # Empty
    BY DEF Empty
  <2> QED
    BY <2>1, <2>2, <2>3
<1>4. CASE k \in {"app.shutdown_timeout", "http.max_body_bytes", "ingest.batch_size",
                  "ingest.flush_interval_ms", "ingest.workers", "ingest.max_events_per_request"}
  <2>1. d[k] = 1
    BY <1>4, SoundValues DEF SoundNumber
  <2> QED
    BY <1>4, <2>1 DEF Objects, MaxEventsPerRequestLimit
<1>5. CASE k = "ingest.sensitive_query_params"
  <2>1. d[k] = <<>>
    BY <1>5, SoundValues DEF SoundList
  <2>2. ToSet(d[k]) = {}
    BY <2>1 DEF ToSet
  <2> QED
    BY <1>5, <2>2 DEF Objects
<1>6. CASE k = "kafka.brokers"
  <2>1. d[k] = <<"broker">>
    BY <1>6, SoundValues DEF SoundList
  <2>2. d[k] # <<>>
    BY <2>1
  <2> QED
    BY <1>6, <2>2 DEF Objects
<1> QED
  BY <1>1, <1>2, <1>3, <1>4, <1>5, <1>6 DEF Rules

\* Repairing what is named leaves nothing to object to.
LEMMA OnePassRepairs ==
  ASSUME NEW c, NumbersDecoded(c)
  PROVE  Problems(Repaired(c, Problems(c))) = {}
<1> DEFINE r == Repaired(c, Problems(c))
<1>1. /\ \A k \in Rules \ {"ingest.buffer_size"} :
           r[k] = IF k \in Problems(c) THEN Sound(c, k) ELSE c[k]
      /\ r["ingest.buffer_size"] =
           IF "ingest.buffer_size" \in Problems(c) \/ "ingest.batch_size" \in Problems(c)
           THEN (IF c["ingest.batch_size"] > 0 THEN c["ingest.batch_size"] ELSE 1)
           ELSE c["ingest.buffer_size"]
  BY RepairedValues
<1>2. \A k \in Rules : k \in Problems(c) <=> Objects(c, k)
  BY Objections
<1> HIDE DEF r
<1>3. ASSUME NEW k \in Plain PROVE ~Objects(r, k)
  <2>1. k \in Rules \ {"ingest.buffer_size"}
    BY DEF Plain
  <2>2. CASE k \in Problems(c)
    BY <1>1, <2>1, <2>2, SoundIsSound
  <2>3. CASE k \notin Problems(c)
    <3>1. r[k] = c[k] /\ ~Objects(c, k)
      BY <1>1, <1>2, <2>1, <2>3
    <3> QED
      BY <3>1, OwnKey
  <2> QED
    BY <2>2, <2>3
<1>4. ~Objects(r, "ingest.buffer_size")
  <2>1. /\ "ingest.batch_size" \in Rules /\ "ingest.buffer_size" \in Rules
        /\ c["ingest.batch_size"] \in Int /\ c["ingest.buffer_size"] \in Int
    BY DEF Rules, NumbersDecoded, IntegerKeys
  <2>2. "ingest.batch_size" \in Problems(c) <=> c["ingest.batch_size"] <= 0
    BY <1>2, <2>1 DEF Objects
  <2>3. "ingest.buffer_size" \in Problems(c) <=> c["ingest.buffer_size"] < c["ingest.batch_size"]
    BY <1>2, <2>1 DEF Objects
  <2>4. r["ingest.batch_size"] = IF c["ingest.batch_size"] <= 0 THEN 1 ELSE c["ingest.batch_size"]
    BY <1>1, <2>1, <2>2, SoundValues DEF SoundNumber
  <2>5. ~(r["ingest.buffer_size"] < r["ingest.batch_size"])
    BY <1>1, <2>1, <2>2, <2>3, <2>4
  <2> QED
    BY <2>5 DEF Objects
<1>5. ~Objects(r, "kafka.brokers")
  <2>1. "kafka.brokers" \in Rules /\ "ingest.sink" \in Rules
    BY DEF Rules
  <2>2. CASE "kafka.brokers" \in Problems(c)
    BY <1>1, <2>1, <2>2, SoundIsSound
  <2>3. CASE "kafka.brokers" \notin Problems(c)
    <3>1. r["kafka.brokers"] = c["kafka.brokers"]
      BY <1>1, <2>1, <2>3
    <3>2. ~(c["ingest.sink"] = "kafka" /\ c["kafka.brokers"] = <<>>)
      BY <1>2, <2>1, <2>3 DEF Objects
    <3>3. r["ingest.sink"] \in {"direct", c["ingest.sink"]}
      BY <1>1, <2>1, SoundValues DEF SoundText
    <3> QED
      BY <3>1, <3>2, <3>3 DEF Objects
  <2> QED
    BY <2>2, <2>3
<1>6. \A k \in Rules : ~Objects(r, k)
  BY <1>3, <1>4, <1>5 DEF Plain
<1>7. Problems(r) = {}
  BY <1>6, Objections
<1> QED
  BY <1>7 DEF r

\* Leaving one of the named keys as it is leaves its problem.
LEMMA NoneNamedInVain ==
  ASSUME NEW c, NEW k \in Problems(c) \ {"ingest.buffer_size"}
  PROVE  Problems(Repaired(c, Problems(c) \ {k})) # {}
<1> DEFINE r == Repaired(c, Problems(c) \ {k})
<1>1. k \in Rules \ {"ingest.buffer_size"} /\ Objects(c, k)
  BY Objections
<1>2. \A j \in Rules \ {"ingest.buffer_size"} :
        r[j] = IF j \in Problems(c) \ {k} THEN Sound(c, j) ELSE c[j]
  BY RepairedValues
<1> HIDE DEF r
<1>3. r[k] = c[k]
  BY <1>1, <1>2
<1>4. Objects(r, k)
  <2>1. CASE k \in Plain
    BY <1>1, <1>3, <2>1, OwnKey
  <2>2. CASE k = "kafka.brokers"
    <3>1. c["ingest.sink"] = "kafka" /\ c["kafka.brokers"] = <<>>
      BY <1>1, <2>2 DEF Objects
    <3>2. "ingest.sink" \in Rules \ {"ingest.buffer_size"} /\ ~Objects(c, "ingest.sink")
      BY <3>1 DEF Objects, Sinks, Rules
    <3>3. r["ingest.sink"] = c["ingest.sink"]
      BY <1>2, <3>2, Objections
    <3> QED
      BY <1>3, <2>2, <3>1, <3>3 DEF Objects
  <2> QED
    BY <1>1, <2>1, <2>2 DEF Plain
<1>5. Problems(r) # {}
  BY <1>1, <1>4, Objections
<1> QED
  BY <1>5 DEF r

-----------------------------------------------------------------------------
(* What is reported as missing *)

Pairs == (DOMAIN Rank) \X Keys

\* The elements of q are those s has at the positions in T.
Picks(q, s, T) == \A x : x \in ToSet(q) <=> \E i \in T : x = s[i]

LEMMA PickedElements ==
  ASSUME NEW S, NEW s, NEW n \in Nat, s \in [1..n -> S], NEW T, T \subseteq 1..n
  PROVE  Picked(s, T) \in Seq(S) /\ Picks(Picked(s, T), s, T)
<1> DEFINE c == Cardinality(T)
           e == Enumerated(T, Upward(T))
           p == [j \in 1..c |-> s[e[j]]]
<1>1. IsFiniteSet(T)
  <2>1. IsFiniteSet(1..n)
    BY FS_Interval
  <2> QED
    BY <2>1, FS_Subset
<1>2. InOrder(e, c, T, Upward(T))
  <2>1. TotalOrder(Upward(T), T)
    <3>1. T \subseteq Int
      OBVIOUS
    <3> QED
      BY <3>1, UpwardOrder
  <2> QED
    BY <1>1, <2>1, Enumeration
<1>3. Picked(s, T) = p
  BY DEF Picked
<1> HIDE DEF c, e
<1>4. /\ c \in Nat /\ \A j \in 1..c : e[j] \in T
      /\ \A i \in T : \E j \in 1..c : e[j] = i
  BY <1>2 DEF InOrder
<1>5. DOMAIN p = 1..c /\ \A j \in 1..c : p[j] = s[e[j]] /\ p[j] \in S
  BY <1>4
<1>6. p \in Seq(S)
  <2>1. p \in [1..c -> S]
    BY <1>5
  <2> HIDE DEF p
  <2> QED
    BY <1>4, <2>1
<1> HIDE DEF p
<1>7. \A x : x \in ToSet(p) <=> \E j \in 1..c : x = p[j]
  BY <1>5 DEF ToSet
<1>8. ASSUME NEW x, NEW j \in 1..c, x = p[j] PROVE \E i \in T : x = s[i]
  BY <1>4, <1>5, <1>8
<1>9. ASSUME NEW i \in T PROVE \E j \in 1..c : s[i] = p[j]
  <2>1. PICK j \in 1..c : e[j] = i
    BY <1>4
  <2> QED
    BY <1>5, <2>1
<1>10. \A x : x \in ToSet(p) <=> \E i \in T : x = s[i]
  <2> TAKE x
  <2>1. ASSUME x \in ToSet(p) PROVE \E i \in T : x = s[i]
    <3>1. PICK j \in 1..c : x = p[j]
      BY <1>7, <2>1
    <3> QED
      BY <1>8, <3>1
  <2>2. ASSUME NEW i \in T, x = s[i] PROVE x \in ToSet(p)
    BY <1>7, <1>9, <2>2
  <2> QED
    BY <2>1, <2>2
<1> QED
  BY <1>3, <1>6, <1>10 DEF Picks

LEMMA ToSetConcat ==
  ASSUME NEW S, NEW s \in Seq(S), NEW t \in Seq(S)
  PROVE  s \o t \in Seq(S) /\ ToSet(s \o t) = ToSet(s) \union ToSet(t)
<1>1. /\ s \o t \in Seq(S) /\ Len(s \o t) = Len(s) + Len(t)
      /\ \A i \in 1..Len(s) + Len(t) : (s \o t)[i] = IF i <= Len(s) THEN s[i] ELSE t[i - Len(s)]
  BY ConcatProperties
<1> DEFINE u == s \o t
<1>2. /\ u \in Seq(S) /\ Len(u) = Len(s) + Len(t)
      /\ \A i \in 1..Len(s) + Len(t) : u[i] = IF i <= Len(s) THEN s[i] ELSE t[i - Len(s)]
  BY <1>1
<1> HIDE DEF u
<1>3. /\ DOMAIN s = 1..Len(s) /\ DOMAIN t = 1..Len(t) /\ DOMAIN u = 1..Len(u)
      /\ Len(s) \in Nat /\ Len(t) \in Nat
  BY <1>2
<1>4. ASSUME NEW i \in 1..Len(u) PROVE u[i] \in ToSet(s) \union ToSet(t)
  <2>1. CASE i <= Len(s)
    <3>1. i \in DOMAIN s /\ u[i] = s[i]
      BY <1>2, <1>3, <2>1
    <3> QED
      BY <3>1 DEF ToSet
  <2>2. CASE ~(i <= Len(s))
    <3>1. i - Len(s) \in DOMAIN t /\ u[i] = t[i - Len(s)]
      BY <1>2, <1>3, <2>2
    <3> QED
      BY <3>1 DEF ToSet
  <2> QED
    BY <2>1, <2>2
<1>5. ASSUME NEW i \in DOMAIN s PROVE s[i] \in ToSet(u)
  <2>1. i \in DOMAIN u /\ u[i] = s[i]
    BY <1>2, <1>3
  <2> QED
    BY <2>1 DEF ToSet
<1>6. ASSUME NEW i \in DOMAIN t PROVE t[i] \in ToSet(u)
  <2>1. Len(s) + i \in DOMAIN u /\ ~(Len(s) + i <= Len(s)) /\ (Len(s) + i) - Len(s) = i
    BY <1>2, <1>3
  <2>2. u[Len(s) + i] = t[i]
    BY <1>2, <1>3, <2>1
  <2> QED
    BY <2>1, <2>2 DEF ToSet
<1>7. ToSet(u) = ToSet(s) \union ToSet(t)
  BY <1>3, <1>4, <1>5, <1>6 DEF ToSet
<1> QED
  BY <1>2, <1>7 DEF u

\* Sorting keeps what is there, and puts it in order.
LEMMA SortedReport ==
  ASSUME missing \in Seq(Pairs)
  PROVE  /\ MissingSorted \in Seq(Pairs)
         /\ ToSet(MissingSorted) = ToSet(missing)
         /\ IsSorted(MissingSorted, Precedes)
<1> DEFINE n == Len(missing)
           Order(i, j) == /\ Precedes(missing[i], missing[j])
                          /\ missing[i] = missing[j] => i <= j
           R == {p \in (1..n) \X (1..n) : Order(p[1], p[2])}
           e == Enumerated(1..n, R)
           q == [j \in 1..n |-> missing[e[j]]]
<1>1. n \in Nat /\ DOMAIN missing = 1..n
  OBVIOUS
<1>2. MissingSorted = q
  BY <1>1 DEF MissingSorted
<1>3. IsFiniteSet(1..n) /\ Cardinality(1..n) = n
  BY <1>1, FS_Interval
<1>4. \A i \in 1..n : /\ missing[i] \in Pairs
                       /\ missing[i] = <<missing[i][1], missing[i][2]>>
                       /\ missing[i][1] \in DOMAIN Rank /\ missing[i][2] \in DOMAIN Rank
                       /\ Rank[missing[i][1]] \in Int /\ Rank[missing[i][2]] \in Int
  <2> TAKE i \in 1..n
  <2>1. missing[i] \in Pairs
    BY <1>1
  <2> QED
    BY <2>1, TablesAssumption DEF Pairs
<1>5. \A i, j \in 1..n : <<i, j>> \in R <=> Order(i, j)
  OBVIOUS
<1>6. ASSUME NEW i \in 1..n, NEW j \in 1..n
      PROVE  /\ Precedes(missing[i], missing[j]) \/ Precedes(missing[j], missing[i])
             /\ Precedes(missing[i], missing[j]) /\ Precedes(missing[j], missing[i])
                => missing[i] = missing[j]
  <2> DEFINE a == missing[i]
             b == missing[j]
  <2>1. /\ a = <<a[1], a[2]>> /\ b = <<b[1], b[2]>>
        /\ a[1] \in DOMAIN Rank /\ a[2] \in DOMAIN Rank
        /\ b[1] \in DOMAIN Rank /\ b[2] \in DOMAIN Rank
        /\ Rank[a[1]] \in Int /\ Rank[a[2]] \in Int
        /\ Rank[b[1]] \in Int /\ Rank[b[2]] \in Int
    BY <1>4
  <2> HIDE DEF a, b
  <2>2. /\ Rank[a[1]] = Rank[b[1]] => a[1] = b[1]
        /\ Rank[a[2]] = Rank[b[2]] => a[2] = b[2]
    BY <2>1, TablesAssumption
  <2>3. Precedes(a, b) \/ Precedes(b, a)
    BY <2>1, <2>2 DEF Precedes
  <2>4. ASSUME Precedes(a, b), Precedes(b, a) PROVE a = b
    <3>1. a[1] = b[1] /\ a[2] = b[2]
      BY <2>1, <2>2, <2>4 DEF Precedes
    <3> QED
      BY <2>1, <3>1
  <2> QED
    BY <2>3, <2>4 DEF a, b
<1>7. ASSUME NEW i \in 1..n, NEW j \in 1..n, NEW k \in 1..n,
             Precedes(missing[i], missing[j]), Precedes(missing[j], missing[k])
      PROVE  Precedes(missing[i], missing[k])
  BY <1>4, <1>7 DEF Precedes
<1>8. TotalOrder(R, 1..n)
  <2>1. \A i \in 1..n : Order(i, i)
    BY <1>6
  <2>2. \A i, j \in 1..n : Order(i, j) \/ Order(j, i)
    BY <1>6
  <2>3. \A i, j \in 1..n : Order(i, j) /\ Order(j, i) => i = j
    BY <1>6
  <2>4. ASSUME NEW i \in 1..n, NEW j \in 1..n, NEW k \in 1..n, Order(i, j), Order(j, k)
        PROVE  Order(i, k)
    <3>1. Precedes(missing[i], missing[k])
      BY <1>7, <2>4
    <3>2. missing[i] = missing[k] => missing[i] = missing[j] /\ missing[j] = missing[k]
      BY <1>6, <2>4
    <3> QED
      BY <2>4, <3>1, <3>2
  <2> HIDE DEF R, Order
  <2> QED
    BY <1>5, <2>1, <2>2, <2>3, <2>4 DEF TotalOrder
<1>9. InOrder(e, n, 1..n, R)
  <2> HIDE DEF R
  <2> QED
    BY <1>3, <1>8, Enumeration
<1> HIDE DEF e
<1>10. /\ \A j \in 1..n : e[j] \in 1..n
       /\ \A i \in 1..n : \E j \in 1..n : e[j] = i
       /\ \A i, j \in 1..n : i <= j => <<e[i], e[j]>> \in R
  <2> HIDE DEF R
  <2> QED
    BY <1>9 DEF InOrder
<1>11. DOMAIN q = 1..n /\ \A j \in 1..n : q[j] = missing[e[j]] /\ q[j] \in Pairs
  BY <1>4, <1>10
<1>12. q \in Seq(Pairs) /\ Len(q) = n
  <2>1. q \in [1..n -> Pairs]
    BY <1>11
  <2> HIDE DEF q
  <2> QED
    BY <1>1, <2>1
<1> HIDE DEF q
<1>13. ToSet(q) = ToSet(missing)
  <2>1. \A x : x \in ToSet(q) <=> \E j \in 1..n : x = q[j]
    BY <1>11 DEF ToSet
  <2>2. \A x : x \in ToSet(missing) <=> \E j \in 1..n : x = missing[j]
    BY <1>1 DEF ToSet
  <2>3. ASSUME NEW x \in ToSet(q) PROVE x \in ToSet(missing)
    <3>1. PICK j \in 1..n : x = q[j]
      BY <2>1
    <3>2. e[j] \in 1..n /\ x = missing[e[j]]
      BY <1>10, <1>11, <3>1
    <3> QED
      BY <2>2, <3>2
  <2>4. ASSUME NEW x \in ToSet(missing) PROVE x \in ToSet(q)
    <3>1. PICK i \in 1..n : x = missing[i]
      BY <2>2
    <3>2. PICK j \in 1..n : e[j] = i
      BY <1>10
    <3>3. x = q[j]
      BY <1>11, <3>1, <3>2
    <3> QED
      BY <2>1, <3>3
  <2> QED
    BY <2>3, <2>4
<1>14. ASSUME NEW i \in 1..n, NEW j \in 1..n, i < j PROVE Precedes(q[i], q[j])
  <2>0. i <= j
    BY <1>14
  <2> HIDE DEF R
  <2>1. <<e[i], e[j]>> \in R
    BY <1>10, <2>0
  <2>2. Order(e[i], e[j])
    BY <1>5, <1>10, <2>1
  <2> QED
    BY <1>11, <2>2
<1>15. IsSorted(q, Precedes)
  BY <1>12, <1>14 DEF IsSorted
<1> QED
  BY <1>2, <1>12, <1>13, <1>15

-----------------------------------------------------------------------------
(* The inductive invariant *)

DotEnvFailures == {"no such file", "malformed .env"}
EarlyFailures == DotEnvFailures \union {"no configuration file", "malformed configuration"}
LateFailures == {"undecodable", "wrong environment", "invalid configuration"}
Running == {"serving", "panicked"}
Judging == {"validate", "router"} \union Running
Expanding == {"expand", "decode"} \union Judging

\* From .env on the environment is what was given, and stays so.
Started ==
  /\ start \in Situations
  /\ pc = "dotenv" => env = start.env
  /\ pc # "dotenv" => env = Given \/ failure \in DotEnvFailures
  /\ pc \in {"dotenv", "locate"} \/ failure \in DotEnvFailures \union {"no configuration file"}
       => at = Nowhere

\* The file that is read is there, has the name that was asked for, and parses.
Placed ==
  /\ pc \in {"read"} \union Expanding => at \in DOMAIN start.configs /\ at[3] = NameGiven
  /\ pc \in Expanding => start.configs[at].ok

\* A key waits as it is written, or has been resolved.
Resolving(k) ==
  LET written == start.configs[at].values[k].items
  IN  /\ DOMAIN values[k].items = DOMAIN written
      /\ k \in unexpanded => values[k] = start.configs[at].values[k]
      /\ k \notin unexpanded => \A i \in DOMAIN written :
           values[k].items[i].text = IF written[i].var \in DOMAIN Given
                                     THEN Given[written[i].var] ELSE written[i].text

\* None is left behind.
Expansion ==
  pc \in Expanding => /\ DOMAIN values = DOMAIN start.configs[at].values
                      /\ pc # "expand" => unexpanded = {}
                      /\ \A k \in DOMAIN values : Resolving(k)

\* Numbers are numbers when rules compare them, and what Validate says is kept.
Judged ==
  /\ pc \in Judging \/ failure = "invalid configuration" => NumbersDecoded(cfg)
  /\ pc \in Judging => cfg["app.env"] = at[3]
  /\ failure = "invalid configuration" => problems = Problems(cfg)
  /\ pc \in {"router"} \union Running => Problems(cfg) = {}

\* What the keys already looked at lack is what is missing, until it is sorted;
\* nothing is after that, unless it was reported.
Reported ==
  /\ missing \in Seq(Pairs)
  /\ pc \in {"dotenv", "locate", "read"} \/ failure \in EarlyFailures
       => values = <<>> /\ missing = <<>>
  /\ pc = "failed" => failure \in EarlyFailures \union {"unset variables"} \union LateFailures
  /\ pc = "expand" =>
       ToSet(missing) = UNION {LackedBy(k) : k \in DOMAIN start.configs[at].values \ unexpanded}
  /\ pc \in Expanding \ {"expand"} \/ failure \in LateFailures
       => Lacked = {} /\ missing = <<>>
  /\ failure = "unset variables" =>
       missing # <<>> /\ ToSet(missing) = Lacked /\ IsSorted(missing, Precedes)

IInv == /\ TypeOK /\ NearestFile /\ StartsAsConfigured
        /\ Started /\ Placed /\ Expansion /\ Judged /\ Reported

-----------------------------------------------------------------------------
(* Steps *)

\* The properties of the situation are about start alone.
LEMMA Same ==
  ASSUME start' = start
  PROVE  /\ Given' = Given /\ NameGiven' = NameGiven
         /\ \A v : GivenText(v)' = GivenText(v)
         /\ \A i : ConfigsIn(i)' = ConfigsIn(i)
<1>1. Named' = Named /\ NearestDotEnv' = NearestDotEnv
  BY DEF Named, NearestDotEnv, DotEnvIn
<1>2. DotEnv' = DotEnv
  BY <1>1 DEF DotEnv
<1>3. Given' = Given
  BY <1>2 DEF Given, Merged
<1>4. \A v : GivenText(v)' = GivenText(v)
  BY <1>3 DEF GivenText
<1>5. NameGiven' = NameGiven
  BY <1>4 DEF NameGiven
<1> QED
  BY <1>3, <1>4, <1>5 DEF ConfigsIn

LEMMA NearestKept ==
  ASSUME NearestFile, UNCHANGED <<start, at>>,
         failure' = failure \/ failure' # "no configuration file"
  PROVE  NearestFile'
<1>1. /\ at' = at /\ start' = start /\ NameGiven' = NameGiven
      /\ \A v : GivenText(v)' = GivenText(v)
      /\ \A i : ConfigsIn(i)' = ConfigsIn(i)
  BY Same
<1> QED
  BY <1>1 DEF NearestFile

LEMMA ExpansionKept ==
  ASSUME IInv, pc \in Expanding, UNCHANGED <<start, at, values, unexpanded>>,
         pc # "expand" \/ unexpanded = {} \/ pc' = "expand"
  PROVE  Expansion'
<1>1. Given' = Given
  BY Same
<1>2. \A k : Resolving(k)' <=> Resolving(k)
  BY <1>1 DEF Resolving
<1>3. /\ DOMAIN values = DOMAIN start.configs[at].values
      /\ pc # "expand" => unexpanded = {}
      /\ \A k \in DOMAIN values : Resolving(k)
  BY DEF IInv, Expansion
<1> QED
  BY <1>2, <1>3 DEF Expansion

LEMMA SameLacked ==
  ASSUME UNCHANGED <<start, at>>
  PROVE  Lacked' = Lacked /\ \A k : LackedBy(k)' = LackedBy(k)
<1>1. Given' = Given
  BY Same
<1>2. \A k : LackedBy(k)' = LackedBy(k)
  BY <1>1 DEF LackedBy
<1> QED
  BY <1>2 DEF Lacked

\* Before a file was read there is nothing to report.
LEMMA NothingRead ==
  ASSUME values' = <<>>, missing' = <<>>,
         \/ pc' \in {"dotenv", "locate", "read"} /\ failure' = "none"
         \/ pc' = "failed" /\ failure' \in EarlyFailures
  PROVE  Reported'
<1>1. missing' \in Seq(Pairs)'
  OBVIOUS
<1>2. failure' \notin LateFailures /\ failure' # "unset variables"
  BY DEF EarlyFailures, LateFailures, DotEnvFailures
<1>3. pc' \notin Expanding
  BY DEF Expanding, Judging, Running
<1> QED
  BY <1>1, <1>2, <1>3 DEF Reported, Expanding

\* Once every variable is known to be there it stays so.
LEMMA NothingMissing ==
  ASSUME UNCHANGED <<start, at, missing>>, missing = <<>>, Lacked = {},
         \/ pc' \in Expanding \ {"expand"} /\ failure' = "none"
         \/ pc' = "failed" /\ failure' \in LateFailures
  PROVE  Reported'
<1>1. missing' \in Seq(Pairs)' /\ missing' = <<>> /\ Lacked' = {}
  BY SameLacked
<1>2. failure' \notin EarlyFailures /\ failure' # "unset variables"
  BY DEF EarlyFailures, LateFailures, DotEnvFailures
<1>3. /\ pc' \notin {"dotenv", "locate", "read"} /\ pc' # "expand"
      /\ pc' = "failed" => failure' \in LateFailures
  BY DEF Expanding, Judging, Running
<1> QED
  BY <1>1, <1>2, <1>3 DEF Reported

LEMMA InitHolds == Init => IInv
<1> SUFFICES ASSUME Init PROVE IInv
  OBVIOUS
<1>1. TypeOK
  BY DEF Init, TypeOK
<1>2. NearestFile /\ StartsAsConfigured /\ Started
  BY DEF Init, NearestFile, StartsAsConfigured, Started
<1>3. Placed /\ Expansion /\ Judged
  BY DEF Init, Placed, Expansion, Judged, Expanding, Judging, Running
<1>4. Reported
  <2>1. missing \in Seq(Pairs) /\ values = <<>> /\ missing = <<>> /\ pc = "dotenv" /\ failure = "none"
    BY DEF Init
  <2> QED
    BY <2>1 DEF Reported, Expanding, Judging, Running, EarlyFailures, LateFailures, DotEnvFailures
<1> QED
  BY <1>1, <1>2, <1>3, <1>4 DEF IInv

LEMMA LoadDotEnvStep ==
  ASSUME IInv, LoadDotEnv
  PROVE  IInv'
<1>1. /\ pc = "dotenv" /\ failure = "none" /\ problems = {}
      /\ start \in Situations /\ env = start.env /\ at = Nowhere
  BY DEF IInv, TypeOK, Started, LoadDotEnv
<1>2. UNCHANGED <<start, at, values, unexpanded, missing, cfg, problems, cors>>
  BY DEF LoadDotEnv
<1>3. \/ pc' = "locate" /\ failure' = "none"
      \/ pc' = "failed" /\ failure' \in DotEnvFailures /\ env' = env
  BY <1>1 DEF LoadDotEnv, Fail, DotEnvFailures
<1>4. pc' = "locate" => env' = Given
  BY <1>1, EnvironmentLoaded
<1>5. \A v \in DOMAIN start.env : env'[v] = start.env[v]
  BY <1>1, <1>3, <1>4, GivenNamed
<1>6. TypeOK'
  BY <1>1, <1>2, <1>3, <1>5 DEF IInv, TypeOK, DotEnvFailures
<1>7. NearestFile'
  BY <1>1, <1>2, <1>3, NearestKept DEF IInv, DotEnvFailures
<1>8. StartsAsConfigured'
  BY <1>3 DEF StartsAsConfigured
<1>9. Started'
  BY <1>1, <1>2, <1>3, <1>4, Same DEF Started, DotEnvFailures
<1>10. Placed' /\ Expansion' /\ Judged'
  BY <1>3 DEF Placed, Expansion, Judged, Expanding, Judging, Running, DotEnvFailures
<1>11. Reported'
  <2>1. values = <<>> /\ missing = <<>>
    BY <1>1 DEF IInv, Reported
  <2> QED
    BY <1>2, <1>3, <2>1, NothingRead DEF EarlyFailures
<1> QED
  BY <1>6, <1>7, <1>8, <1>9, <1>10, <1>11 DEF IInv

LEMMA LocateStep ==
  ASSUME IInv, Locate
  PROVE  IInv'
<1>1. /\ pc = "locate" /\ failure = "none" /\ problems = {}
      /\ start \in Situations /\ env = Given /\ at = Nowhere
  BY DEF IInv, TypeOK, Started, Locate, DotEnvFailures
<1>2. UNCHANGED <<start, env, values, unexpanded, missing, cfg, problems, cors>>
  BY DEF Locate
<1>3. \/ pc' = "read" /\ failure' = "none" /\ at' \in ConfigPath
      \/ pc' = "failed" /\ failure' = "no configuration file" /\ at' = at /\ ConfigPath = {}
  BY <1>1 DEF Locate, Fail
<1>4. TypeOK'
  BY <1>1, <1>2, <1>3, ConfigFound DEF IInv, TypeOK
<1>5. /\ NameGiven' = NameGiven /\ Given' = Given
      /\ \A v : GivenText(v)' = GivenText(v)
      /\ \A i : ConfigsIn(i)' = ConfigsIn(i)
  BY <1>2, Same
<1>6. NearestFile'
  <2>1. CASE pc' = "read"
    BY <1>1, <1>2, <1>3, <1>5, <2>1, ConfigFound DEF NearestFile
  <2>2. CASE pc' = "failed"
    BY <1>1, <1>2, <1>3, <1>5, <2>2, ConfigFound DEF NearestFile
  <2> QED
    BY <1>3, <2>1, <2>2
<1>7. StartsAsConfigured'
  BY <1>3 DEF StartsAsConfigured
<1>8. Started'
  BY <1>1, <1>2, <1>3, <1>5 DEF Started, DotEnvFailures
<1>9. Placed'
  BY <1>1, <1>2, <1>3, <1>5, ConfigFound DEF Placed, Expanding, Judging, Running
<1>10. Expansion' /\ Judged'
  BY <1>3 DEF Expansion, Judged, Expanding, Judging, Running
<1>11. Reported'
  <2>1. values = <<>> /\ missing = <<>>
    BY <1>1 DEF IInv, Reported
  <2> QED
    BY <1>2, <1>3, <2>1, NothingRead DEF EarlyFailures
<1> QED
  BY <1>4, <1>6, <1>7, <1>8, <1>9, <1>10, <1>11 DEF IInv

LEMMA ReadStep ==
  ASSUME IInv, Read
  PROVE  IInv'
<1> DEFINE file == start.configs[at]
<1>1. /\ pc = "read" /\ failure = "none" /\ problems = {}
      /\ start \in Situations /\ env = Given
      /\ at \in DOMAIN start.configs /\ at[3] = NameGiven
  BY DEF IInv, TypeOK, Started, Placed, Read, DotEnvFailures
<1>2. UNCHANGED <<start, env, at, missing, cfg, problems, cors>>
  BY DEF Read
<1>3. \/ /\ pc' = "failed" /\ failure' = "malformed configuration"
         /\ UNCHANGED <<values, unexpanded>>
      \/ /\ file.ok /\ pc' = "expand" /\ failure' = "none" /\ values' = file.values
         /\ unexpanded' = {k \in DOMAIN file.values : HasPlaceholder(file.values[k])}
  BY <1>1 DEF Read, Fail
<1>4. file.ok => /\ file.values \in [DOMAIN file.values -> Values]
                 /\ DOMAIN file.values \subseteq Keys
  BY <1>1, SituationsAssumption
<1>5. /\ NameGiven' = NameGiven /\ Given' = Given
  BY <1>2, Same
<1>6. TypeOK'
  BY <1>1, <1>2, <1>3, <1>4 DEF IInv, TypeOK
<1>7. NearestFile'
  BY <1>2, <1>3, NearestKept DEF IInv
<1>8. StartsAsConfigured'
  BY <1>3 DEF StartsAsConfigured
<1>9. Started'
  BY <1>1, <1>2, <1>3, <1>5 DEF Started, DotEnvFailures
<1>10. Placed'
  BY <1>1, <1>2, <1>3, <1>5 DEF Placed, Expanding, Judging, Running
<1>11. Expansion'
  <2> SUFFICES ASSUME pc' = "expand" PROVE Expansion'
    BY <1>3 DEF Expansion, Expanding, Judging, Running
  <2>1. file' = file /\ values' = file.values
    BY <1>2, <1>3
  <2>2. ASSUME NEW k \in DOMAIN file.values, k \notin unexpanded',
               NEW i \in DOMAIN file.values[k].items
        PROVE  file.values[k].items[i].var \notin DOMAIN Given
    <3>1. ~HasPlaceholder(file.values[k])
      BY <1>3, <2>2
    <3>2. file.values[k].items[i] \in Items(file.values[k])
      BY DEF Items, ToSet
    <3> QED
      BY <1>1, <3>1, <3>2, GivenNamed DEF HasPlaceholder
  <2>3. ASSUME NEW k \in DOMAIN file.values PROVE Resolving(k)'
    <3>1. values'[k] = file.values[k] /\ start.configs[at].values' = file.values
      BY <2>1
    <3>2. ASSUME k \notin unexpanded', NEW i \in DOMAIN file.values[k].items
          PROVE  file.values[k].items[i].var \notin DOMAIN Given
      BY <2>2, <3>2
    <3> HIDE DEF file
    <3> QED
      BY <1>5, <3>1, <3>2 DEF Resolving
  <2> QED
    BY <2>1, <2>3 DEF Expansion
<1>12. Judged'
  BY <1>3 DEF Judged, Judging, Running
<1>13. Reported'
  <2>1. values = <<>> /\ missing = <<>>
    BY <1>1 DEF IInv, Reported
  <2>2. CASE pc' = "failed"
    BY <1>2, <1>3, <2>1, <2>2, NothingRead DEF EarlyFailures
  <2>3. CASE pc' = "expand"
    <3>1. missing' \in Seq(Pairs)' /\ missing' = <<>> /\ failure' = "none"
      BY <1>2, <1>3, <2>1, <2>3
    <3>2. ASSUME NEW k \in DOMAIN file.values \ unexpanded' PROVE LackedBy(k) = {}
      <4>1. ~HasPlaceholder(file.values[k])
        BY <1>3, <2>3
      <4>2. \A item \in Items(file.values[k]) : item.var = Empty
        BY <4>1 DEF HasPlaceholder
      <4> QED
        BY <4>2 DEF LackedBy
    <3>4. UNION {LackedBy(k) : k \in DOMAIN file.values \ unexpanded'} = {}
      BY <3>2
    <3>5. ToSet(missing') = {}
      BY <3>1 DEF ToSet
    <3>6. file' = file /\ \A k : LackedBy(k)' = LackedBy(k)
      BY <1>2, SameLacked
    <3>7. ToSet(missing') = UNION {LackedBy(k)' : k \in DOMAIN file'.values \ unexpanded'}
      BY <3>4, <3>5, <3>6
    <3> QED
      BY <2>3, <3>1, <3>7 DEF Reported, Expanding, EarlyFailures, LateFailures, DotEnvFailures
  <2> QED
    BY <1>3, <2>2, <2>3
<1> QED
  BY <1>6, <1>7, <1>8, <1>9, <1>10, <1>11, <1>12, <1>13 DEF IInv

LEMMA ExpandStep ==
  ASSUME IInv, NEW k \in unexpanded, Expand(k)
  PROVE  IInv'
<1> DEFINE written == start.configs[at].values
           items == values[k].items
           resolved == [i \in DOMAIN items |-> [var |-> Empty, hasText |-> TRUE,
                                                text |-> Resolved(items[i])]]
<1>1. /\ pc = "expand" /\ failure = "none" /\ problems = {}
      /\ start \in Situations /\ env = Given
  BY DEF IInv, TypeOK, Started, Expand, DotEnvFailures
<1>2. UNCHANGED <<start, env, pc, at, cfg, problems, failure, cors>>
  BY DEF Expand
<1>3. /\ values' = [values EXCEPT ![k].items = resolved]
      /\ unexpanded' = unexpanded \ {k}
  BY DEF Expand
<1>4. /\ DOMAIN values = DOMAIN written
      /\ unexpanded \subseteq DOMAIN values /\ k \in DOMAIN written
      /\ \A j \in DOMAIN written : Resolving(j)
      /\ values[k] = written[k]
  <2>1. /\ DOMAIN values = DOMAIN written
        /\ \A j \in DOMAIN values : Resolving(j)
    BY <1>1 DEF IInv, Expansion, Expanding
  <2>2. unexpanded \subseteq DOMAIN values
    BY DEF IInv, TypeOK
  <2> QED
    BY <2>1, <2>2 DEF Resolving
<1>5. values[k] \in Values
  BY <1>1, <1>4, SituationsAssumption DEF IInv, Placed, Expanding
<1>6. ASSUME NEW i \in DOMAIN items
      PROVE  resolved[i].text = IF items[i].var \in DOMAIN Given THEN Given[items[i].var]
                                ELSE items[i].text
  BY <1>1 DEF Resolved
<1>7. DOMAIN resolved = DOMAIN items
  OBVIOUS
<1> HIDE DEF resolved
<1>8. values'[k].items = resolved
  <2>1. values'[k] = [values[k] EXCEPT !.items = resolved]
    BY <1>3, <1>4
  <2> QED
    BY <1>5, <2>1 DEF Values
<1> HIDE DEF items
<1>9. /\ DOMAIN values' = DOMAIN values
      /\ \A j \in DOMAIN values \ {k} : values'[j] = values[j]
  BY <1>3
<1>10. NameGiven' = NameGiven /\ Given' = Given /\ written' = written
  BY <1>2, Same
<1>11. TypeOK'
  BY <1>1, <1>2, <1>3, <1>4, <1>9 DEF IInv, TypeOK
<1>12. NearestFile'
  BY <1>2, NearestKept DEF IInv
<1>13. StartsAsConfigured'
  BY <1>1, <1>2 DEF StartsAsConfigured
<1>14. Started'
  BY <1>1, <1>2, <1>10 DEF IInv, Started, DotEnvFailures
<1>15. Placed'
  BY <1>1, <1>2, <1>10 DEF IInv, Placed, Expanding, Judging, Running
<1>16. Expansion'
  <2>1. ASSUME NEW j \in DOMAIN written PROVE Resolving(j)'
    <3>1. CASE j = k
      <4>1. items = written[j].items /\ j \notin unexpanded'
        BY <1>3, <1>4, <3>1 DEF items
      <4>2. /\ DOMAIN values'[j].items = DOMAIN written[j].items
            /\ \A i \in DOMAIN written[j].items :
                 values'[j].items[i].text = IF written[j].items[i].var \in DOMAIN Given
                                            THEN Given[written[j].items[i].var]
                                            ELSE written[j].items[i].text
        BY <1>6, <1>7, <1>8, <3>1, <4>1
      <4> QED
        BY <1>10, <4>1, <4>2 DEF Resolving
    <3>2. CASE j # k
      <4>1. /\ values'[j] = values[j] /\ Resolving(j)
            /\ j \in unexpanded' <=> j \in unexpanded
        BY <1>3, <1>4, <1>9, <3>2
      <4> QED
        BY <1>10, <4>1 DEF Resolving
    <3> QED
      BY <3>1, <3>2
  <2>2. DOMAIN values' = DOMAIN written /\ pc' = "expand"
    BY <1>1, <1>2, <1>4, <1>9
  <2> HIDE DEF written
  <2>3. \A j \in DOMAIN values' : Resolving(j)'
    BY <2>1, <2>2
  <2> QED
    BY <1>10, <2>2, <2>3 DEF Expansion, written
<1>17. Judged'
  BY <1>1, <1>2 DEF Judged, Judging, Running
<1>18. Reported'
  <2> DEFINE lacking == {i \in DOMAIN items : Unresolved(items[i])}
             pairs == [i \in DOMAIN items |-> <<items[i].var, k>>]
             more == Picked(pairs, lacking)
  <2>1. /\ missing \in Seq(Pairs)
        /\ ToSet(missing) = UNION {LackedBy(j) : j \in DOMAIN written \ unexpanded}
    BY <1>1 DEF IInv, Reported
  <2>2. missing' = missing \o more
    BY DEF Expand, items
  <2>3. /\ DOMAIN items = 1..Len(items) /\ Len(items) \in Nat
        /\ \A i \in DOMAIN items : items[i].var \in DOMAIN Rank
    <3>1. values[k].items \in Seq([var : DOMAIN Rank, hasText : BOOLEAN, text : STRING])
      BY <1>5 DEF Values
    <3> DEFINE I == [var : DOMAIN Rank, hasText : BOOLEAN, text : STRING]
    <3>2. items \in Seq(I)
      BY <3>1 DEF items
    <3>3. \A item \in I : item.var \in DOMAIN Rank
      OBVIOUS
    <3> HIDE DEF I
    <3>4. /\ DOMAIN items = 1..Len(items) /\ Len(items) \in Nat
          /\ \A i \in DOMAIN items : items[i] \in I
      BY <3>2
    <3> QED
      BY <3>3, <3>4
  <2>4. k \in Keys
    BY <1>4 DEF IInv, TypeOK
  <2>5. /\ \A i \in DOMAIN items : pairs[i] = <<items[i].var, k>>
        /\ pairs \in [1..Len(items) -> Pairs]
    BY <2>3, <2>4 DEF Pairs
  <2>6. lacking \subseteq 1..Len(items)
    BY <2>3
  <2> HIDE DEF pairs
  <2>7. more \in Seq(Pairs) /\ \A x : x \in ToSet(more) <=> \E i \in lacking : x = pairs[i]
    <3>1. Len(items) \in Nat
      BY <2>3
    <3>2. pairs \in [1..Len(items) -> Pairs]
      BY <2>5
    <3> HIDE DEF lacking
    <3> DEFINE n == Len(items)
    <3> HIDE DEF n
    <3>3. n \in Nat /\ pairs \in [1..n -> Pairs] /\ lacking \subseteq 1..n
      BY <2>6, <3>1, <3>2 DEF n
    <3>4. Picked(pairs, lacking) \in Seq(Pairs) /\ Picks(Picked(pairs, lacking), pairs, lacking)
      BY <3>3, PickedElements
    <3> QED
      BY <3>4 DEF more, Picks
  <2> HIDE DEF more
  <2>8. ToSet(more) = LackedBy(k)
    <3>1. \A i \in DOMAIN items : Unresolved(items[i]) <=>
            items[i].var \notin DOMAIN Given \union {Empty} /\ ~items[i].hasText
      BY <1>1 DEF Unresolved
    <3>2. \A x : x \in Items(written[k]) <=> \E i \in DOMAIN items : x = items[i]
      BY <1>4 DEF Items, ToSet, items
    <3> HIDE DEF written
    <3>3. \A x : x \in LackedBy(k) <=>
            \E i \in DOMAIN items : /\ items[i].var \notin DOMAIN Given \union {Empty}
                                     /\ ~items[i].hasText /\ x = <<items[i].var, k>>
      BY <3>2 DEF LackedBy, written
    <3>4. \A i : i \in lacking <=> i \in DOMAIN items /\ Unresolved(items[i])
      OBVIOUS
    <3> HIDE DEF lacking
    <3>5. \A x : x \in LackedBy(k) <=> \E i \in lacking : x = <<items[i].var, k>>
      BY <3>1, <3>3, <3>4
    <3>6. \A i \in lacking : pairs[i] = <<items[i].var, k>>
      BY <2>5, <3>4
    <3>7. ASSUME NEW x \in ToSet(more) PROVE x \in LackedBy(k)
      <4>1. PICK i \in lacking : x = pairs[i]
        BY <2>7
      <4> QED
        BY <3>5, <3>6, <4>1
    <3>8. ASSUME NEW x \in LackedBy(k) PROVE x \in ToSet(more)
      <4>1. PICK i \in lacking : x = <<items[i].var, k>>
        BY <3>5
      <4>2. x = pairs[i]
        BY <3>6, <4>1
      <4> QED
        BY <2>7, <4>2
    <3> QED
      BY <3>7, <3>8
  <2>9. missing' \in Seq(Pairs) /\ ToSet(missing') = ToSet(missing) \union LackedBy(k)
    BY <2>1, <2>2, <2>7, <2>8, ToSetConcat
  <2>10. ToSet(missing') = UNION {LackedBy(j) : j \in DOMAIN written \ unexpanded'}
    <3>1. DOMAIN written \ unexpanded' = (DOMAIN written \ unexpanded) \union {k}
      BY <1>3, <1>4
    <3> HIDE DEF written
    <3> QED
      BY <2>1, <2>9, <3>1
  <2>11. \A j : LackedBy(j)' = LackedBy(j)
    BY <1>2, SameLacked
  <2>12. ToSet(missing') = UNION {LackedBy(j)' : j \in DOMAIN written' \ unexpanded'}
    BY <1>10, <2>10, <2>11
  <2>13. missing' \in Seq(Pairs)'
    BY <2>9 DEF Pairs
  <2>14. pc' = "expand" /\ failure' = "none"
    BY <1>1, <1>2
  <2> QED
    BY <2>12, <2>13, <2>14 DEF Reported, Expanding, EarlyFailures, LateFailures, DotEnvFailures
<1> QED
  BY <1>11, <1>12, <1>13, <1>14, <1>15, <1>16, <1>17, <1>18 DEF IInv

LEMMA ExpandedStep ==
  ASSUME IInv, Expanded
  PROVE  IInv'
<1>1. /\ pc = "expand" /\ failure = "none" /\ problems = {} /\ unexpanded = {}
      /\ start \in Situations /\ env = Given
  BY DEF IInv, TypeOK, Started, Expanded, DotEnvFailures
<1>2. UNCHANGED <<start, env, at, values, unexpanded, cfg, problems, cors>>
  BY DEF Expanded
<1>3. \/ pc' = "failed" /\ failure' = "unset variables"
      \/ pc' = "decode" /\ failure' = "none"
  BY <1>1 DEF Expanded, Fail
<1>4. NameGiven' = NameGiven /\ Given' = Given
  BY <1>2, Same
<1>5. TypeOK'
  BY <1>1, <1>2, <1>3 DEF IInv, TypeOK
<1>6. NearestFile'
  BY <1>2, <1>3, NearestKept DEF IInv
<1>7. StartsAsConfigured'
  BY <1>3 DEF StartsAsConfigured
<1>8. Started'
  BY <1>1, <1>2, <1>3, <1>4 DEF IInv, Started, DotEnvFailures
<1>9. Placed'
  BY <1>1, <1>2, <1>3, <1>4 DEF IInv, Placed, Expanding, Judging, Running
<1>10. Expansion'
  BY <1>1, <1>2, <1>3, ExpansionKept DEF Expanding, Judging, Running
<1>11. Judged'
  BY <1>3 DEF Judged, Judging, Running
<1>12. Reported'
  <2>1. missing \in Seq(Pairs) /\ ToSet(missing) = Lacked
    BY <1>1 DEF IInv, Reported, Lacked
  <2>2. Lacked' = Lacked
    BY <1>2, SameLacked
  <2>3. CASE missing = <<>> /\ pc' = "decode"
    <3>1. missing' = missing /\ Lacked = {} /\ failure' = "none"
      BY <1>3, <2>1, <2>3 DEF Expanded, Fail, ToSet
    <3> QED
      BY <1>2, <2>3, <3>1, NothingMissing DEF Expanding
  <2>4. CASE missing # <<>> /\ missing' = MissingSorted /\ pc' = "failed"
    <3>1. /\ missing' \in Seq(Pairs) /\ ToSet(missing') = Lacked
          /\ IsSorted(missing', Precedes) /\ failure' = "unset variables"
      BY <1>3, <2>1, <2>4, SortedReport
    <3>2. missing' # <<>>
      <4>1. Lacked # {}
        <5>1. 1 \in DOMAIN missing
          BY <2>1, <2>4
        <5>2. missing[1] \in ToSet(missing)
          BY <5>1 DEF ToSet
        <5> QED
          BY <2>1, <5>2
      <4>2. ToSet(<<>>) = {}
        BY DEF ToSet
      <4> QED
        BY <3>1, <4>1, <4>2
    <3> QED
      BY <2>2, <2>4, <3>1, <3>2 DEF Reported, Pairs, Expanding, Judging, Running, EarlyFailures,
         LateFailures, DotEnvFailures
  <2> QED
    BY <2>3, <2>4 DEF Expanded, Fail
<1> QED
  BY <1>5, <1>6, <1>7, <1>8, <1>9, <1>10, <1>11, <1>12 DEF IInv

\* What Unmarshal takes for a number is one.
LEMMA DecodedNumbers ==
  ASSUME NEW k \in IntegerKeys \union DurationKeys, Decodable(k)
  PROVE  Decoded(k) \in Int
<1>1. CASE k \in IntegerKeys
  <2>1. Decoded(k) = IntegerOf[Text(k)]
    BY <1>1 DEF Decoded
  <2>2. Text(k) \in DOMAIN IntegerOf
    BY <1>1 DEF Decodable
  <2> QED
    BY <2>1, <2>2, TablesAssumption
<1>2. CASE k \in DurationKeys
  <2>1. Decoded(k) = IF k \in DOMAIN values THEN DurationOf[Text(k)] ELSE 0
    BY <1>2 DEF Decoded, DecodedDuration, IntegerKeys, DurationKeys
  <2>2. k \in DOMAIN values => Text(k) \in DOMAIN DurationOf
    BY <1>2 DEF Decodable
  <2> QED
    BY <2>1, <2>2, TablesAssumption
<1> QED
  BY <1>1, <1>2

LEMMA DecodeStep ==
  ASSUME IInv, Decode
  PROVE  IInv'
<1> DEFINE decoded == [k \in Keys |-> Decoded(k)]
           named == IF decoded["app.env"] = Empty THEN AppEnv ELSE decoded["app.env"]
<1>1. /\ pc = "decode" /\ failure = "none" /\ problems = {} /\ unexpanded = {}
      /\ start \in Situations /\ env = Given /\ at[3] = NameGiven
  BY DEF IInv, TypeOK, Started, Placed, Expansion, Expanding, Decode, DotEnvFailures
<1>2. UNCHANGED <<start, env, at, values, unexpanded, missing, problems, cors>>
  BY DEF Decode
<1>3. \/ pc' = "failed" /\ failure' \in {"undecodable", "wrong environment"}
      \/ /\ \A k \in Keys : Decodable(k)
         /\ cfg' = [decoded EXCEPT !["app.env"] = named] /\ named = AppEnv
         /\ pc' = "validate" /\ failure' = "none"
  BY <1>1 DEF Decode, Fail
<1>4. ASSUME pc' = "validate"
      PROVE  NumbersDecoded(cfg') /\ cfg'["app.env"] = NameGiven
  <2>1. /\ \A k \in Keys : Decodable(k)
        /\ cfg' = [decoded EXCEPT !["app.env"] = named] /\ named = NameGiven
    <3>1. AppEnv = NameGiven
      BY <1>1 DEF AppEnv, NameGiven, Getenv, GivenText
    <3> QED
      BY <1>3, <1>4, <3>1
  <2>2. DOMAIN decoded = Keys /\ \A k \in Keys : decoded[k] = Decoded(k)
    OBVIOUS
  <2>3. /\ IntegerKeys \union DurationKeys \subseteq Keys /\ "app.env" \in Keys
        /\ "app.env" \notin IntegerKeys \union DurationKeys
    BY DEF Keys, IntegerKeys, DurationKeys, TextKeys
  <2> HIDE DEF decoded, named
  <2>4. /\ cfg'["app.env"] = named
        /\ \A k \in Keys \ {"app.env"} : cfg'[k] = decoded[k]
    BY <2>1, <2>2, <2>3
  <2>5. ASSUME NEW k \in IntegerKeys \union DurationKeys PROVE cfg'[k] \in Int
    BY <2>1, <2>2, <2>3, <2>4, DecodedNumbers
  <2> QED
    BY <2>1, <2>4, <2>5 DEF NumbersDecoded
<1>5. NameGiven' = NameGiven /\ Given' = Given
  BY <1>2, Same
<1>6. TypeOK'
  BY <1>1, <1>2, <1>3 DEF IInv, TypeOK
<1>7. NearestFile'
  BY <1>2, <1>3, NearestKept DEF IInv
<1>8. StartsAsConfigured'
  BY <1>3 DEF StartsAsConfigured
<1>9. Started'
  BY <1>1, <1>2, <1>3, <1>5 DEF IInv, Started, DotEnvFailures
<1>10. Placed'
  BY <1>1, <1>2, <1>3, <1>5 DEF IInv, Placed, Expanding, Judging, Running
<1>11. Expansion'
  BY <1>1, <1>2, <1>3, ExpansionKept DEF Expanding, Judging, Running
<1>12. Judged'
  BY <1>1, <1>2, <1>3, <1>4 DEF Judged, Judging, Running
<1>13. Reported'
  <2>1. Lacked = {} /\ missing = <<>>
    BY <1>1 DEF IInv, Reported, Expanding, Judging, Running
  <2> QED
    BY <1>2, <1>3, <2>1, NothingMissing DEF Expanding, Judging, Running, LateFailures
<1> QED
  BY <1>6, <1>7, <1>8, <1>9, <1>10, <1>11, <1>12, <1>13 DEF IInv

LEMMA ValidateStep ==
  ASSUME IInv, Validate
  PROVE  IInv'
<1>1. /\ pc = "validate" /\ failure = "none" /\ problems = {}
      /\ start \in Situations /\ env = Given
      /\ NumbersDecoded(cfg) /\ cfg["app.env"] = at[3]
  BY DEF IInv, TypeOK, Started, Judged, Judging, Validate, DotEnvFailures
<1>2. UNCHANGED <<start, env, at, values, unexpanded, missing, cfg, cors>>
  BY DEF Validate
<1>3. /\ problems' = Problems(cfg)
      /\ \/ pc' = "failed" /\ failure' = "invalid configuration" /\ Problems(cfg) # {}
         \/ pc' = "router" /\ failure' = "none" /\ Problems(cfg) = {}
  BY <1>1 DEF Validate, Fail
<1>4. NameGiven' = NameGiven /\ Given' = Given
  BY <1>2, Same
<1>5. TypeOK'
  <2>1. Problems(cfg) \subseteq Keys
    <3>1. Rules \subseteq Keys
      BY DEF Rules, Keys, ListKeys, IntegerKeys, DurationKeys, TextKeys
    <3> QED
      BY <3>1, Objections
  <2> QED
    BY <1>1, <1>2, <1>3, <2>1 DEF IInv, TypeOK
<1>6. NearestFile'
  BY <1>2, <1>3, NearestKept DEF IInv
<1>7. StartsAsConfigured'
  BY <1>3 DEF StartsAsConfigured
<1>8. Started'
  BY <1>1, <1>2, <1>3, <1>4 DEF IInv, Started, DotEnvFailures
<1>9. Placed'
  BY <1>1, <1>2, <1>3, <1>4 DEF IInv, Placed, Expanding, Judging, Running
<1>10. Expansion'
  BY <1>1, <1>2, <1>3, ExpansionKept DEF Expanding, Judging, Running
<1>11. Judged'
  <2>1. Problems(cfg)' = Problems(cfg) /\ NumbersDecoded(cfg)'
    BY <1>1, <1>2
  <2> QED
    BY <1>1, <1>2, <1>3, <2>1 DEF Judged, Judging, Running
<1>12. Reported'
  <2>1. Lacked = {} /\ missing = <<>>
    BY <1>1 DEF IInv, Reported, Expanding, Judging, Running
  <2> QED
    BY <1>2, <1>3, <2>1, NothingMissing DEF Expanding, Judging, Running, LateFailures
<1> QED
  BY <1>5, <1>6, <1>7, <1>8, <1>9, <1>10, <1>11, <1>12 DEF IInv

LEMMA BuildRouterStep ==
  ASSUME IInv, BuildRouter
  PROVE  IInv'
<1> DEFINE list == cfg["http.cors_allowed_origins"]
           kept == NonEmpty(list)
           origins == {Trimmed[list[i]] : i \in kept}
           allowAll == AllowAll(list)
<1>1. /\ pc = "router" /\ failure = "none" /\ problems = {}
      /\ start \in Situations /\ env = Given
      /\ NumbersDecoded(cfg) /\ cfg["app.env"] = at[3] /\ Problems(cfg) = {}
  BY DEF IInv, TypeOK, Started, Judged, Judging, BuildRouter, DotEnvFailures
<1>2. UNCHANGED <<start, env, at, values, unexpanded, missing, cfg, problems, failure>>
  BY DEF BuildRouter
<1>3. \/ /\ kept = {} \/ allowAll
         /\ cors' = [origins |-> {}, all |-> allowAll, credentials |-> FALSE]
         /\ pc' = "serving"
      \/ /\ kept # {} /\ ~allowAll
         /\ cors' = [origins |-> origins, all |-> "*" \in origins, credentials |-> TRUE]
         /\ pc' = "serving"
      \/ /\ ~(origins \subseteq Origins)
         /\ pc' = "panicked"
  BY DEF BuildRouter
<1>4. NameGiven' = NameGiven /\ Given' = Given
  BY <1>2, Same
<1>5. TypeOK'
  BY <1>1, <1>2, <1>3 DEF IInv, TypeOK
<1>6. NearestFile'
  BY <1>2, <1>3, NearestKept DEF IInv
<1>7. StartsAsConfigured'
  <2> DEFINE meant == NamedIn(list)
             alone == meant = {"*"} /\ OneEntry(list)
  <2>1. origins = meant
    BY DEF NonEmpty, NamedIn
  <2>2. allowAll <=> alone
    BY DEF AllowAll, NonEmpty, NamedIn, OneEntry
  <2>3. kept = {} <=> origins = {}
    OBVIOUS
  <2>4. list' = list
    BY <1>2
  <2> DEFINE Answers(c) == /\ meant = {} <=> c = NoCors
                           /\ c.all <=> "*" \in meant
                           /\ ~c.all => c.origins = meant
                           /\ c.credentials <=> meant # {} /\ ~alone
  <2>5. alone => meant = {"*"}
    OBVIOUS
  <2> HIDE DEF kept, origins, allowAll, list, meant, alone
  <2>6. ASSUME pc' = "serving", kept = {}
        PROVE  Answers(cors')
    <3>1. ~allowAll
      BY <2>1, <2>2, <2>3, <2>5, <2>6
    <3>2. cors' = [origins |-> {}, all |-> FALSE, credentials |-> FALSE]
      BY <1>3, <2>6, <3>1
    <3> QED
      BY <2>1, <2>3, <2>6, <3>2 DEF NoCors
  <2>7. ASSUME pc' = "serving", allowAll
        PROVE  Answers(cors')
    <3>1. cors' = [origins |-> {}, all |-> TRUE, credentials |-> FALSE]
      BY <1>3, <2>7
    <3> QED
      BY <2>2, <2>5, <2>7, <3>1 DEF NoCors
  <2>8. ASSUME pc' = "serving", kept # {} /\ ~allowAll
        PROVE  Answers(cors')
    <3>1. cors' = [origins |-> origins, all |-> "*" \in origins, credentials |-> TRUE]
      BY <1>3, <2>8
    <3> QED
      BY <2>1, <2>2, <2>3, <2>8, <3>1 DEF NoCors
  <2>9. pc' = "serving" => Answers(cors')
    BY <1>3, <2>6, <2>7, <2>8
  <2>10. pc' = "panicked" => ~(meant \subseteq Origins)
    BY <1>3, <2>1
  <2> QED
    BY <2>4, <2>9, <2>10 DEF StartsAsConfigured, list, meant, alone
<1>8. Started'
  BY <1>1, <1>2, <1>3, <1>4 DEF IInv, Started, DotEnvFailures
<1>9. Placed'
  BY <1>1, <1>2, <1>3, <1>4 DEF IInv, Placed, Expanding, Judging, Running
<1>10. Expansion'
  BY <1>1, <1>2, <1>3, ExpansionKept DEF Expanding, Judging, Running
<1>11. Judged'
  <2>1. Problems(cfg)' = Problems(cfg) /\ NumbersDecoded(cfg)'
    BY <1>1, <1>2
  <2> QED
    BY <1>1, <1>2, <1>3, <2>1 DEF Judged, Judging, Running
<1>12. Reported'
  <2>1. Lacked = {} /\ missing = <<>>
    BY <1>1 DEF IInv, Reported, Expanding, Judging, Running
  <2> QED
    BY <1>1, <1>2, <1>3, <2>1, NothingMissing DEF Expanding, Judging, Running, LateFailures
<1> QED
  BY <1>5, <1>6, <1>7, <1>8, <1>9, <1>10, <1>11, <1>12 DEF IInv

\* The invariant holds in every situation a process is started in.
THEOREM Inductive == Spec => []IInv
<1>1. IInv /\ [Next]_vars => IInv'
  <2> SUFFICES ASSUME IInv, [Next]_vars PROVE IInv'
    OBVIOUS
  <2>1. CASE UNCHANGED vars
    <3>1. /\ UNCHANGED <<start, env, pc, at, values, unexpanded, cfg, problems, failure, cors>>
          /\ NameGiven' = NameGiven /\ Given' = Given
      BY <2>1, Same DEF vars
    <3>2. TypeOK'
      BY <3>1 DEF IInv, TypeOK
    <3>3. NearestFile'
      BY <3>1, NearestKept DEF IInv
    <3>4. StartsAsConfigured'
      BY <3>1 DEF IInv, StartsAsConfigured
    <3>5. Started' /\ Placed'
      BY <3>1 DEF IInv, Started, Placed
    <3>6. Expansion'
      BY <3>1, ExpansionKept DEF IInv, Expansion
    <3>7. Judged'
      BY <3>1 DEF IInv, Judged
    <3>8. Reported'
      <4>1. Lacked' = Lacked /\ \A k : LackedBy(k)' = LackedBy(k)
        BY <3>1, SameLacked
      <4> QED
        BY <2>1, <3>1, <4>1 DEF IInv, Reported, vars
    <3> QED
      BY <3>2, <3>3, <3>4, <3>5, <3>6, <3>7, <3>8 DEF IInv
  <2>2. CASE Next
    BY <2>1, <2>2, LoadDotEnvStep, LocateStep, ReadStep, ExpandStep, ExpandedStep, DecodeStep,
       ValidateStep, BuildRouterStep DEF Next, Ended
  <2> QED
    BY <2>1, <2>2
<1> QED
  BY <1>1, InitHolds, PTL DEF Spec

\* Every variable keeps its type, the environment the process was started in
\* wins over .env, and a process has failed exactly if it says why.
THEOREM TypeCorrect == Spec => []TypeOK
<1>1. IInv => TypeOK
  BY DEF IInv
<1> QED
  BY <1>1, Inductive, PTL

\* A process runs with the configuration file it was pointed at, the nearest
\* one unless a directory is named, and gives up only if there is none.
THEOREM NearestFound == Spec => []NearestFile
<1>1. IInv => NearestFile
  BY DEF IInv
<1> QED
  BY <1>1, Inductive, PTL

\* Whatever order the keys are expanded in, each placeholder is what the
\* process environment says, else .env, else the fallback.
THEOREM SourcesWin == Spec => []Precedence
<1>1. IInv => Precedence
  BY DEF IInv, Expansion, Resolving, Precedence, Expanding, Judging, Running
<1> QED
  BY <1>1, Inductive, PTL

\* All that is required and not given is named, always in the same order, and
\* nothing runs without it.
THEOREM AllNamed == Spec => []MissingReport
<1>1. IInv => MissingReport
  <2> SUFFICES ASSUME IInv, values # <<>>, pc # "expand"
               PROVE  IF Lacked = {} THEN missing = <<>>
                      ELSE pc = "failed" /\ ToSet(missing) = Lacked /\ IsSorted(missing, Precedes)
    BY DEF MissingReport
  <2>1. pc \notin {"dotenv", "locate", "read"} /\ failure \notin EarlyFailures
    BY DEF IInv, Reported
  <2>2. \/ pc \in Expanding \ {"expand"} \/ failure \in LateFailures
        \/ pc = "failed" /\ failure = "unset variables"
    BY <2>1 DEF IInv, TypeOK, Reported, Expanding, Judging, Running
  <2>3. CASE pc \in Expanding \ {"expand"} \/ failure \in LateFailures
    BY <2>3 DEF IInv, Reported
  <2>4. CASE pc = "failed" /\ failure = "unset variables"
    <3>1. missing # <<>> /\ ToSet(missing) = Lacked /\ IsSorted(missing, Precedes)
      BY <2>4 DEF IInv, Reported
    <3>2. missing \in Seq(Pairs)
      BY DEF IInv, Reported
    <3>3. Lacked # {}
      BY <3>1, <3>2 DEF ToSet
    <3> QED
      BY <2>4, <3>1, <3>3
  <2> QED
    BY <2>2, <2>3, <2>4
<1> QED
  BY <1>1, Inductive, PTL

\* A deployment that Validate refuses loads once the named keys are given sound
\* values, and not before; and what it lets through holds together.
THEOREM OnePass == Spec => []OnePassFixes
<1>1. IInv => OnePassFixes
  <2> SUFFICES ASSUME IInv PROVE OnePassFixes
    OBVIOUS
  <2>1. ASSUME failure = "invalid configuration"
        PROVE  /\ Problems(Repaired(cfg, problems)) = {}
               /\ \A k \in problems \ {"ingest.buffer_size"} :
                    Problems(Repaired(cfg, problems \ {k})) # {}
    <3>1. NumbersDecoded(cfg) /\ problems = Problems(cfg)
      BY <2>1 DEF IInv, Judged
    <3> QED
      BY <3>1, OnePassRepairs, NoneNamedInVain
  <2>2. ASSUME pc \in {"router"} \union Running
        PROVE  /\ cfg["app.env"] = at[3]
               /\ cfg["ingest.batch_size"] \in 1..cfg["ingest.buffer_size"]
               /\ cfg["ingest.sink"] = "kafka" => cfg["kafka.brokers"] # <<>>
    <3>1. NumbersDecoded(cfg) /\ cfg["app.env"] = at[3] /\ Problems(cfg) = {}
      BY <2>2 DEF IInv, Judged, Judging
    <3>2. ASSUME NEW k \in {"ingest.batch_size", "ingest.buffer_size", "kafka.brokers"}
          PROVE  ~Objects(cfg, k)
      BY <3>1, Objections DEF Rules
    <3>3. cfg["ingest.batch_size"] \in Int /\ cfg["ingest.buffer_size"] \in Int
      BY <3>1 DEF NumbersDecoded, IntegerKeys
    <3>4. ~(cfg["ingest.batch_size"] <= 0)
      BY <3>2 DEF Objects
    <3>5. ~(cfg["ingest.buffer_size"] < cfg["ingest.batch_size"])
      BY <3>2 DEF Objects
    <3>6. ~(cfg["ingest.sink"] = "kafka" /\ cfg["kafka.brokers"] = <<>>)
      BY <3>2 DEF Objects
    <3>7. cfg["ingest.batch_size"] \in 1..cfg["ingest.buffer_size"]
      BY <3>3, <3>4, <3>5
    <3> QED
      BY <3>1, <3>6, <3>7
  <2> QED
    BY <2>1, <2>2 DEF OnePassFixes, Running
<1> QED
  BY <1>1, Inductive, PTL

\* Whatever the list of origins, with any blanks in it: a "*" in it is everyone,
\* nothing is nobody, and otherwise those named have access; credentials go with
\* it except for a "*" alone; only an entry that is no origin stops the process.
THEOREM RouterAsConfigured == Spec => []StartsAsConfigured
<1>1. IInv => StartsAsConfigured
  BY DEF IInv
<1> QED
  BY <1>1, Inductive, PTL

=============================================================================
