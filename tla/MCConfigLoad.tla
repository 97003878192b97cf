--------------------------- MODULE MCConfigLoad ----------------------------
(* A small instance of ConfigLoad: one file whose keys are sound, and the    *)
(* situations that differ from it in one respect or two.                     *)
EXTENDS ConfigLoad

Lit(text) == [var |-> "", hasText |-> TRUE, text |-> text]
Var(v) == [var |-> v, hasText |-> FALSE, text |-> ""]
VarOr(v, text) == [var |-> v, hasText |-> TRUE, text |-> text]
Scalar(item) == [list |-> FALSE, items |-> <<item>>]
List(items) == [list |-> TRUE, items |-> items]

\* Placeholders as the shipped files have them; the rest is literal.
SoundFile ==
  "app.shutdown_timeout" :> Scalar(Lit("30s")) @@
  "log.level" :> Scalar(Lit("Info")) @@ "log.format" :> Scalar(Lit("json")) @@
  "http.ingest_addr" :> Scalar(VarOr("HTTP_ADDR", "addr")) @@
  "http.analytics_addr" :> Scalar(Lit("addr")) @@
  "http.max_body_bytes" :> Scalar(Lit("10")) @@
  "http.cors_allowed_origins" :> Scalar(Var("CORS_ALLOWED_ORIGINS")) @@
  "clickhouse.dsn" :> Scalar(Var("CLICKHOUSE_DSN")) @@
  "ingest.sink" :> Scalar(VarOr("SINK", "direct")) @@
  "ingest.insert_mode" :> Scalar(Lit("batch")) @@
  "ingest.batch_size" :> Scalar(Lit("10")) @@ "ingest.flush_interval_ms" :> Scalar(Lit("10")) @@
  "ingest.buffer_size" :> Scalar(Lit("10")) @@ "ingest.workers" :> Scalar(Lit("10")) @@
  "ingest.max_events_per_request" :> Scalar(Lit("500")) @@
  "ingest.sensitive_query_params" :> List(<<Lit("code"), VarOr("PARAM", "")>>) @@
  "kafka.brokers" :> Scalar(VarOr("KAFKA_BROKERS", ""))
File(over) == [ok |-> TRUE, values |-> over @@ SoundFile]
Env(vars_) == [ok |-> TRUE, vars |-> vars_]
Malformed == [ok |-> FALSE]

Dirs == <<"d1", "d2", "d3", "d4", "d5">>
Secrets == "CLICKHOUSE_DSN" :> "dsn" @@ "CORS_ALLOWED_ORIGINS" :> "http://a"
In(sub, name, dir) == <<dir, sub, name>>
Start(process, dotenvs, configs) ==
  [env |-> process, dirs |-> Dirs, dotenvs |-> dotenvs, configs |-> configs]
Direct(file) == In("config", "development", "d1") :> file

Optional(var, values_) == {<<>>} \union {var :> t : t \in values_}

\* Where the files are, and who says what the variables are.
EnvFiles == {<<>>, In("", ".env", "d1") :> Malformed}
            \union {In("", ".env", d) :> Env("CLICKHOUSE_DSN" :> "dsn2" @@ "APP_ENV" :> "staging"
                                             @@ "HTTP_ADDR" :> "addr2") : d \in {"d1", "d4", "d5"}}
            \union {In("", ".env", "d1") :> Env("CORS_ALLOWED_ORIGINS" :> "" @@ "CONFIG_DIR" :> "etc")
                    @@ In("", ".env", "d2") :> Env("CLICKHOUSE_DSN" :> "dsn2")}
Configs == {In("config", "development", "d2") :> File(<<>>)
              @@ In("backend/config", "staging", "d1") :> File("app.env" :> Scalar(Lit("staging"))),
            In("config", "staging", "d4") :> File(<<>>)
              @@ In("backend/config", "staging", "d4") :> Malformed
              @@ In("config", "development", "d5") :> File(<<>>),
            In("config", "development", "d1") :> Malformed
              @@ In("config", "staging", "d1") :> File("app.env" :> Scalar(Lit("test")))
              @@ In("", "development", "etc") :> File(<<>>)}
Lookups ==
  {Start(dsn @@ addr @@ app, files, configs) :
     dsn \in Optional("CLICKHOUSE_DSN", {"", "dsn"}) \union {Secrets},
     addr \in Optional("HTTP_ADDR", {""}),
     app \in Optional("APP_ENV", {" ", "staging "}),
     files \in EnvFiles, configs \in Configs}
  \union {Start("ENV_FILE" :> "elsewhere" @@ "CONFIG_DIR" :> "etc" @@ Secrets, files, configs) :
            files \in EnvFiles \union {In("", "", "elsewhere") :> Env("APP_ENV" :> "staging")},
            configs \in Configs}

\* No placeholders: expansion is not what these are about.
Quiet == [k \in DOMAIN SoundFile |-> [SoundFile[k] EXCEPT !.items =
            [i \in DOMAIN @ |-> Lit(CASE @[i].var = "CLICKHOUSE_DSN" -> "dsn"
                                       [] @[i].var = "CORS_ALLOWED_ORIGINS" -> "http://a"
                                       [] OTHER -> @[i].text)]]]

\* One or two keys that a rule objects to.
Breakages ==
  {"app.shutdown_timeout" :> Scalar(Lit("0s")), "app.shutdown_timeout" :> Scalar(Lit("30")),
   "log.level" :> Scalar(Lit("loud")), "log.format" :> Scalar(Lit("JSON")),
   "http.ingest_addr" :> Scalar(Lit("")), "http.analytics_addr" :> Scalar(Lit("")),
   "http.max_body_bytes" :> Scalar(Lit("")), "http.max_body_bytes" :> Scalar(Lit("ten")),
   "clickhouse.dsn" :> Scalar(Lit("")),
   "ingest.sink" :> Scalar(Lit("Kafka")), "ingest.sink" :> Scalar(Lit("kafka")),
   "ingest.insert_mode" :> Scalar(Lit("")),
   "ingest.batch_size" :> Scalar(Lit("0")), "ingest.batch_size" :> Scalar(Lit("500")),
   "ingest.flush_interval_ms" :> Scalar(Lit("0")), "ingest.buffer_size" :> Scalar(Lit("0")),
   "ingest.workers" :> Scalar(Lit("0")),
   "ingest.max_events_per_request" :> Scalar(Lit("501")),
   "ingest.sensitive_query_params" :> List(<<Lit("?a"), Lit("b=1")>>),
   "app.env" :> Scalar(Lit("test"))}
Broken == {Start(<<>>, <<>>, Direct([ok |-> TRUE, values |-> b @@ c @@ Quiet])) : b \in Breakages, c \in Breakages \union {<<>>}}
          \union {Start("APP_ENV" :> "qa" @@ Secrets, <<>>, In("config", "qa", "d3") :> File(<<>>))}

\* What the environment gives the sink and the router.
Routers ==
  {Start("CLICKHOUSE_DSN" :> "dsn" @@ "CORS_ALLOWED_ORIGINS" :> c @@ sink @@ brokers,
         <<>>, Direct(File(<<>>))) :
     c \in {"", "*", "*,", "*,*", " ,http://a", "a.b", "*,http://a"},
     sink \in Optional("SINK", {"kafka", ""}),
     brokers \in Optional("KAFKA_BROKERS", {"", " ", ",", "k1"})}

MCSituations == Lookups \union Broken \union Routers

MCTrimmed == " " :> "" @@ "staging " :> "staging" @@ [t \in {"", "development", "staging", "qa", "http://a", "*", "a.b", "k1"} |-> t]
MCFolded == "Info" :> "info" @@ [t \in {"info", "loud"} |-> t]
MCSplit == "" :> <<>> @@ " ,http://a" :> <<" ", "http://a">> @@ "*,http://a" :> <<"*", "http://a">>
           @@ "*," :> <<"*", "">> @@ "*,*" :> <<"*", "*">>
            @@ "," :> <<"", "">> @@ [t \in {" ", "*", "http://a", "a.b", "k1"} |-> <<t>>]
MCIntegerOf == "" :> 0 @@ "0" :> 0 @@ "10" :> 10 @@ "500" :> 500 @@ "501" :> 501
MCDurationOf == "0s" :> 0 @@ "30s" :> 30
Alphabet == <<"", "CLICKHOUSE_DSN", "CORS_ALLOWED_ORIGINS", "HTTP_ADDR", "KAFKA_BROKERS", "PARAM",
              "SINK", "app.env", "app.shutdown_timeout", "clickhouse.dsn", "http.analytics_addr",
              "http.cors_allowed_origins", "http.ingest_addr", "http.max_body_bytes",
              "ingest.batch_size", "ingest.buffer_size", "ingest.flush_interval_ms",
              "ingest.insert_mode", "ingest.max_events_per_request",
              "ingest.sensitive_query_params", "ingest.sink", "ingest.workers", "kafka.brokers",
              "log.format", "log.level">>
MCRank == [t \in ToSet(Alphabet) |-> CHOOSE i \in DOMAIN Alphabet : Alphabet[i] = t]
=============================================================================
