------------------------------ MODULE MCStages ------------------------------
(***************************************************************************)
(* Stages for TLC: a configuration with one of everything, the same one    *)
(* with one entry at a time made wrong or unusual, and three pipelines.    *)
(***************************************************************************)
EXTENDS Stages, TLC

Cond(field, op, value) == [field |-> field, op |-> op, value |-> value]
ErrorWord == Str(<<"error">>)

MCConditions ==
  {Cond(f, op, v) : f \in {"message", "severity", "user", "hostname", "timestamp", "n"},
                    op \in {"eq", "ne", "contains", "matches", "exists", "not_exists"},
                    v \in {ErrorWord, Num(3), Null, Absent}}

Step(kind, field) == [step |-> kind, field |-> field, when |-> Absent]
MaskStep == [pattern |-> <<"secret">>, by |-> "*"] @@ Step("mask", "message")
Pipelines ==
  {<<MaskStep, [to |-> "host"] @@ Step("rename_field", "user")>>,
   <<[Step("keep", "severity") EXCEPT !.when = Cond("severity", "ne", Num(7))],
     [to |-> "string"] @@ Step("convert", "n"), [value |-> Num(9)] @@ Step("add_field", "severity")>>,
   <<[Step("drop", "message") EXCEPT !.when = Cond("message", "contains", Str(<<"error">>))],
     [Step("remove_field", "hostname") EXCEPT !.when = Cond("n", "gt", Num(2))],
     [to |-> "hostname"] @@ Step("rename_field", "user")>>,
   <<[value |-> Num(24)] @@ Step("add_field", "facility")>>,
   <<[to |-> "process_id"] @@ Step("rename_field", "user"),
     [value |-> Str(<<"long">>)] @@ Step("add_field", "application"),
     [value |-> Str(<<"x">>)] @@ Step("add_field", "[")>>}

File == [id |-> "f", paths |-> {<<"log">>}, exclude |-> {<<"gz">>},
         poll_interval_ms |-> 50, discovery_interval_ms |-> 50,
         parser |-> [mode |-> "json", pattern |-> Absent, pair_separator |-> " ",
                     kv_separator |-> "=", keep_raw_message |-> TRUE]]
Pem(file) == [file |-> file]
Pair(key) == [ca |-> Pem("root"), cert |-> Pem("cert"), key |-> Pem(key)]
Syslog == [id |-> "s", bind |-> "127.0.0.1", port |-> 5514, max_connections |-> 1,
           idle_timeout_secs |-> 1, handshake_timeout_secs |-> 1, protocol |-> "tls",
           tls |-> Pair("key"), allowed_senders |-> {"CIDR"},
           format |-> "auto", keep_raw_message |-> FALSE]
Windows == [id |-> "w", channels |-> {"System"}, query |-> "*"]
Tls == [ca |-> Pem("root"), cert |-> Absent, key |-> Absent]
Output == [id |-> "a", kind |-> "syslog", address |-> "host:port", protocol |-> "tls",
           tls |-> Tls, when |-> Absent, failover_for |-> Absent,
           batch_size |-> 200, format |-> "rfc5424"]
Standby == [Output EXCEPT !.id = "b", !.kind = "stdout", !.tls = Absent, !.format = "rfc3164",
              !.failover_for = [id |-> "a"], !.when = Cond("severity", "lt", Num(7))]

Sound ==
  [files |-> <<File>>, syslog |-> <<Syslog>>, eventlog |-> <<Windows>>,
   transforms |-> <<>>, outputs |-> <<Output, Standby>>,
   buffer |-> [max_size_mb |-> 1, segment_size_mb |-> 1],
   web |-> [enabled |-> TRUE, bind |-> "loopback", auth_token |-> Absent],
   log_level |-> "info",
   enrich |-> [hostname |-> Str(<<"here">>),
               fields |-> [environment |-> Str(<<"prod", "]", " ", "\"">>), n |-> Num(1)]]]

Bad == Str(<<"(">>)
BadWhens == {Cond("message", "matches", Bad), Cond("message", "eq", Absent),
             Cond("message", "like", Num(1)), Cond("message", "matches", Num(1))}

WithFile(f) == [Sound EXCEPT !.files = <<f>>]
WithSyslog(s) == [Sound EXCEPT !.syslog = <<s>>]
WithOutput(o) == [Sound EXCEPT !.outputs = <<o, Standby>>]

Unusual ==
  {WithFile([File EXCEPT !.parser.mode = m, !.parser.pattern = p]) :
     m \in {"raw", "kv", "regex", "syslog"}, p \in {Absent, Bad, ErrorWord}}
  \cup {WithFile([File EXCEPT !.exclude = {<<"(">>}]),
        WithFile([File EXCEPT !.paths = {}]), WithFile([File EXCEPT !.poll_interval_ms = 49]),
        WithFile([File EXCEPT !.parser.mode = "kv", !.parser.kv_separator = ""]),
        WithFile([File EXCEPT !.id = "s"])}
  \cup {WithSyslog([Syslog EXCEPT !.bind = b]) : b \in {"::1", "name"}}
  \cup {WithSyslog([Syslog EXCEPT !.tls = t]) :
          t \in {Absent, [Pair("key") EXCEPT !.ca.file = "refused root"],
                 [Pair("key") EXCEPT !.cert.file = "not PEM"]}
                \cup {Pair(k) : k \in {"missing", "not PEM", "other key"}}}
  \cup {[Sound EXCEPT !.syslog = <<Syslog, [s EXCEPT !.id = "s2"]>>] :
          s \in {Syslog, [Syslog EXCEPT !.bind = "0.0.0.0", !.protocol = "tcp"],
                 [Syslog EXCEPT !.protocol = "udp"], [Syslog EXCEPT !.port = 5515]}}
  \cup {WithSyslog([Syslog EXCEPT !.port = 0]), WithSyslog([Syslog EXCEPT !.max_connections = 0]),
        WithSyslog([Syslog EXCEPT !.allowed_senders = {"name"}])}
  \cup {WithSyslog([Syslog EXCEPT !.protocol = "udp", !.format = f]) :
          f \in {"raw", "json", "rfc5424", "rfc3164"}}
  \cup {WithOutput([Output EXCEPT !.when = w]) : w \in BadWhens}
  \cup {WithOutput([Output EXCEPT !.tls = t]) :
          t \in {Absent, [Tls EXCEPT !.ca.file = "missing"], [Tls EXCEPT !.ca.file = "not PEM"],
                 [Tls EXCEPT !.ca.file = "refused root"], [Tls EXCEPT !.cert = Pem("cert")]}
                \cup {Pair(k) : k \in {"missing", "other key"}}}
  \cup {WithOutput([Output EXCEPT !.failover_for = [id |-> i]]) : i \in {"a", "b", "f"}}
  \cup {WithOutput([Output EXCEPT !.address = "host"]), WithOutput([Output EXCEPT !.batch_size = 0]),
        [Sound EXCEPT !.outputs = <<[Output EXCEPT !.id = "no file name"]>>]}
  \cup {[Sound EXCEPT !.transforms = <<t>>] :
          t \in {[Step("drop", "") EXCEPT !.when = w] : w \in BadWhens}
                 \cup {[MaskStep EXCEPT !.pattern = <<"(">>],
                       [to |-> "date"] @@ Step("convert", "n")}}
  \cup {[Sound EXCEPT !.eventlog[1].query = " "], [Sound EXCEPT !.buffer.segment_size_mb = 2],
        [Sound EXCEPT !.web.bind = "IPv4"], [Sound EXCEPT !.log_level = "loud"]}

MCConfigs ==
  Unusual
  \cup {[Sound EXCEPT !.transforms = p, !.outputs[1].format = f] :
          p \in Pipelines, f \in {"rfc5424", "rfc3164", "json", "raw"}}

Texts == {<<"error", " ", "a:">>, <<" ", "secret">>, <<"[", "x", "]", ":", " ", "y">>,
          <<"BOM", " ", "secret", " ">>, <<" ", "BOM", "\n", "y">>}
Pairs(message, user, level) ==
  <<<<"msg", Str(message)>>, <<"n", Num(3)>>, <<"severity", level>>, <<"user", Str(user)>>>>
JsonLine(message, user, level) ==
  [NoLine EXCEPT !.text = <<"{", "}">> \o message,
     !.pairs = [json |-> Pairs(message, user, level), kv |-> <<<<"", Null>>>>, regex |-> <<>>]]
KvLine(message, user) ==
  [NoLine EXCEPT !.text = message,
     !.pairs = [json |-> <<>>,
                kv |-> <<<<"message", Str(message)>>, <<"pid", Str(user)>>, <<"ts", Str(<<"t1">>)>>>>,
                regex |-> <<<<"level", Str(<<"7">>)>>, <<"app", Str(user)>>>>]]
SyslogLines(message) ==
  {[NoLine EXCEPT !.text = <<"<14>">> \o t] :
     t \in {<<"1", " ", "t1", " ", "host", " ", "app", " ", "-", " ", "-", " ", "-", " ">> \o message,
            <<"1", " ", "-", " ", "host", " ", "-", " ", "1", " ", "-", " ",
              "[", "id", " ", "k", "=", "\"", "\\", "]", "\"", "]", "[", "id2", "]", " ">> \o message,
            <<"d1", " ", "host", " ", "app", "[", "1", "]", ":", " ">> \o message,
            message}}

MCLines ==
  {JsonLine(m, u, l) :
     m \in Texts, l \in {Num(3), ErrorWord, Str(<<"unheard">>)},
     u \in {<<>>, <<"amy">>, <<"long">>, <<"a", " ", "b">>, <<"[", "\"">>, <<"\\", "]">>}}
  \cup {KvLine(m, <<"1">>) : m \in Texts}
  \cup UNION {SyslogLines(m) : m \in Texts}

MCKeyOrder == <<"[", "environment", "host", "n", "parse_status", "remote_addr", "severity", "user">>
=============================================================================
