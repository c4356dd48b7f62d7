------------------------------- MODULE Config -------------------------------
(***************************************************************************)
(* A configuration, what validation asks of it (src/config/validate.rs)    *)
(* and what building the engine from it needs (Engine::build and the       *)
(* constructors it calls).  The two are kept in agreement by hand.         *)
(*                                                                         *)
(* A configuration is a record of sections; the sections that list inputs, *)
(* transforms and outputs are sequences.  Absent stands for None.          *)
(***************************************************************************)
EXTENDS Event

Given(x) == x # Absent

(* A file, by what it holds: nothing that its use needs, a root that       *)
(* rustls refuses, or a key that is not the certificate's, when it is      *)
(* there.                                                                  *)
require_file(f) == f # "missing"
LoadsPem(f) == f \notin {"missing", "not PEM"}
TakesRoot(f) == LoadsPem(f) /\ f # "refused root"
TakesPair(cert, key) == LoadsPem(cert) /\ LoadsPem(key) /\ key # "other key"

(* A syslog input's addresses, by the family they belong to *)
IPv4 == {"0.0.0.0", "127.0.0.1"}
IPv6 == {"::1"}

-----------------------------------------------------------------------------
(* validate *)

Named(x) == x.id \notin {"", " "}

validate_parser(p) ==
  /\ p.mode = "regex" => Given(p.pattern) /\ Compiles(p.pattern.str)
  /\ p.mode = "kv" => p.pair_separator # "" /\ p.kv_separator # ""

(* Variant: a condition's pattern is not tried out. *)
UntriedCondition(c) ==
  /\ c.op \in {"eq", "ne", "contains", "gt", "lt", "matches", "exists", "not_exists"}
  /\ c.op \in {"eq", "ne", "contains", "gt", "lt", "matches"} => Given(c.value)

validate_condition(c) ==
  /\ c.op \in {"eq", "ne", "contains", "gt", "lt", "matches", "exists", "not_exists"}
  /\ c.op \in {"eq", "ne", "contains", "gt", "lt"} => Given(c.value)
  /\ c.op = "matches" => IsStr(c.value) /\ Compiles(c.value.str)

validate_transform(t) ==
  /\ t.step = "mask" => Compiles(t.pattern)
  /\ t.step = "convert" => t.to \in {"int", "float", "string", "bool"}
  /\ Given(t.when) => validate_condition(t.when)

ValidFile(f) ==
  /\ Named(f)
  /\ f.paths # {}
  /\ \A glob \in f.paths \cup f.exclude : Compiles(glob)
  /\ f.poll_interval_ms >= 50 /\ f.discovery_interval_ms >= 50
  /\ validate_parser(f.parser)

ValidSyslog(s) ==
  /\ Named(s)
  /\ s.bind \in IPv4 \cup IPv6
  /\ 0 \notin {s.port, s.max_connections, s.idle_timeout_secs, s.handshake_timeout_secs}
  /\ s.protocol = "tls" =>
       /\ Given(s.tls)
       /\ require_file(s.tls.cert.file) /\ require_file(s.tls.key.file)
       /\ Given(s.tls.ca) => require_file(s.tls.ca.file)
  /\ s.allowed_senders \subseteq {"IPv4", "IPv6", "CIDR"}

ValidEventLog(e) == Named(e) /\ e.channels # {} /\ e.query \notin {"", " "}

ValidTarget(o) ==
  /\ o.address = "host:port"
  /\ o.protocol = "tls" /\ Given(o.tls) =>
       /\ Given(o.tls.ca) => require_file(o.tls.ca.file)
       /\ Given(o.tls.cert) <=> Given(o.tls.key)
       /\ Given(o.tls.cert) => require_file(o.tls.cert.file) /\ require_file(o.tls.key.file)

ValidOutput(o, ids) ==
  /\ Named(o)
  /\ o.kind = "syslog" => ValidTarget(o)
  /\ Given(o.when) => validate_condition(o.when)
  /\ Given(o.failover_for) => o.failover_for.id \in ids \ {o.id}
  /\ o.batch_size \in 1..10000

(* Every input and output has an id of its own *)
DistinctIds(c) ==
  LET named == c.files \o c.syslog \o c.eventlog \o c.outputs
  IN \A i, j \in DOMAIN named : named[i].id = named[j].id => i = j

ValidBuffer(b) ==
  b.max_size_mb >= 1 /\ b.segment_size_mb >= 1 /\ b.segment_size_mb <= b.max_size_mb

ValidWeb(w) ==
  w.enabled => /\ w.bind \in {"loopback", "IPv4", "IPv6"}
               /\ w.bind # "loopback" => Given(w.auth_token) /\ w.auth_token.token # " "

validate(c) ==
  /\ \A f \in Range(c.files) : ValidFile(f)
  /\ \A s \in Range(c.syslog) : ValidSyslog(s)
  /\ \A e \in Range(c.eventlog) : ValidEventLog(e)
  /\ \A t \in Range(c.transforms) : validate_transform(t)
  /\ \A o \in Range(c.outputs) : ValidOutput(o, {p.id : p \in Range(c.outputs)})
  /\ DistinctIds(c)
  /\ ValidBuffer(c.buffer)
  /\ ValidWeb(c.web)
  /\ c.log_level \in {"trace", "debug", "info", "warn", "error"}

-----------------------------------------------------------------------------
(* What each part of Engine::build fails on, in the order it builds them *)

(* A queue's directory is named after its output *)
QueueOpens(o) == o.id # "no file name"

(* The certificates and the key of either end; a server has both of the    *)
(* latter, and a client uses them only together.                           *)
server_config(tls) ==
  /\ TakesPair(tls.cert.file, tls.key.file)
  /\ Given(tls.ca) => TakesRoot(tls.ca.file)

(* The default options are used when a client's section is left out *)
client_config(tls) ==
  Given(tls) =>
    /\ Given(tls.ca) => TakesRoot(tls.ca.file)
    /\ Given(tls.cert) /\ Given(tls.key) => TakesPair(tls.cert.file, tls.key.file)

SinkOpens(o) == o.kind = "syslog" /\ o.protocol = "tls" => client_config(o.tls)

CompilesWhen(when) == Given(when) => CanCompile(when)

TransformerCompiles(steps) ==
  \A t \in Range(steps) :
     CompilesWhen(t.when) /\ (t.step = "mask" => Compiles(t.pattern))

(* Two sockets of one transport cannot be bound to one port of an address, *)
(* nor of all addresses.                                                   *)
Transport(s) == IF s.protocol = "udp" THEN "udp" ELSE "tcp"
Collide(s, t) ==
  /\ Transport(s) = Transport(t) /\ s.port = t.port
  /\ s.bind = t.bind \/ "0.0.0.0" \in {s.bind, t.bind}

(* "addr:port" must parse as a socket address, which an IPv6 address does  *)
(* only between brackets, and the bind finds the ones before it in place.  *)
ListenerOpens(listeners, i) ==
  LET s == listeners[i] IN
  /\ s.bind \in IPv4
  /\ s.protocol = "tls" => Given(s.tls) /\ server_config(s.tls)
  /\ \A j \in DOMAIN listeners : j < i => ~Collide(listeners[j], s)

(* The parser compiles the pattern it is given in any mode *)
ParserCompiles(p) == Given(p.pattern) => Compiles(p.pattern.str)
FileInputOpens(f) == ParserCompiles(f.parser) /\ \A glob \in f.exclude : Compiles(glob)

Parts == <<"queues", "workers", "routers", "transformer", "syslog", "files">>

Builds(c, part) ==
  CASE part = "queues" -> \A o \in Range(c.outputs) : QueueOpens(o)
    [] part = "workers" -> \A o \in Range(c.outputs) : SinkOpens(o)
    [] part = "routers" -> \A o \in Range(c.outputs) : CompilesWhen(o.when)
    [] part = "transformer" -> TransformerCompiles(c.transforms)
    [] part = "syslog" -> \A i \in DOMAIN c.syslog : ListenerOpens(c.syslog, i)
    [] part = "files" -> \A f \in Range(c.files) : FileInputOpens(f)
=============================================================================
