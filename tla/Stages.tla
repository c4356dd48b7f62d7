------------------------------- MODULE Stages -------------------------------
(***************************************************************************)
(* One event from the line it is read from to the agent it is sent to.     *)
(*                                                                         *)
(* The agent loads a configuration, builds its engine, and takes a line    *)
(* through the parser (src/pipeline/parser.rs, syslog.rs), the transforms  *)
(* one at a time (transform.rs), the enrichment (enrich.rs), an output's   *)
(* condition and the wire format (src/outputs/format.rs); another agent's  *)
(* syslog input, in its automatic format, parses what arrives.             *)
(*                                                                         *)
(* A line is [text, pairs]: its atoms, of which one is a priority between  *)
(* angle brackets, and for each structured syntax the keys and values it   *)
(* has in that syntax.                                                     *)
(***************************************************************************)
EXTENDS Config, SequencesExt, TLC

CONSTANTS
  Configs,      \* the configurations an operator may write
  Lines,        \* the lines the inputs may read
  Conditions,   \* the conditions that are compared on both paths
  KeyOrder      \* every custom field's name, in the order a map lists them

(* The parser's mode and the listener's format are enums; a server's       *)
(* options name a certificate and a key; the hostname to fill in, if there *)
(* is one, is a string.                                                    *)
ASSUME ConfigsAssumption ==
  \A c \in Configs :
    /\ \A i \in DOMAIN c.files :
         c.files[i].parser.mode \in {"raw", "json", "kv", "regex", "syslog"}
    /\ \A i \in DOMAIN c.syslog :
         c.syslog[i].format \in {"raw", "json", "rfc5424", "rfc3164", "auto"}
    /\ \A i \in DOMAIN c.syslog :
         Given(c.syslog[i].tls) => Given(c.syslog[i].tls.cert) /\ Given(c.syslog[i].tls.key)
    /\ Given(c.enrich.hostname) => IsStr(c.enrich.hostname)
ASSUME LinesAssumption ==
  \A l \in Lines, x \in {"json", "kv", "regex"} :
    LET n == Len(l.pairs[x]) IN n \in Nat /\ DOMAIN l.pairs[x] = 1 .. n
(* The operators that do not compare numbers                               *)
ASSUME ConditionsAssumption ==
  \A c \in Conditions :
    c.op \in {"eq", "ne", "contains", "matches", "exists", "not_exists"}

VARIABLES
  cfg,          \* the configuration
  stage,        \* how far the configuration, and then the event, has come
  at,           \* the part of the engine to build, the transform to apply, or
                \* the output sent to
  ev,           \* the event
  wire,         \* the line it is sent as
  arrived       \* the event another agent makes of that line

vars == <<cfg, stage, at, ev, wire, arrived>>

NoEvent == [core |-> <<>>, fields |-> <<>>]
Syntaxes == {"json", "kv", "regex"}
NoLine == [text |-> <<>>, pairs |-> [x \in Syntaxes |-> <<>>]]

AtMost(n, most) == IF n < most THEN n ELSE most
First(c, s) == SelectInSeq(s, LAMBDA a : a = c)
From(s, i) == SubSeq(s, i, Len(s))
TrimStart(s) == LET i == SelectInSeq(s, LAMBDA a : a # " ")
                IN IF i = 0 THEN <<>> ELSE From(s, i)
Trim(s) == LET t == TrimStart(s)
           IN SubSeq(t, 1, SelectLastInSeq(t, LAMBDA a : a # " "))
SetCore(e, name, v) == [e EXCEPT !.core[name] = v]

-----------------------------------------------------------------------------
(* Parsing a line of a file *)

(* The event with a key the schema knows set, if the value suits it *)
apply_known_key(e, key, v) ==
  CASE key \in {"timestamp", "time", "@timestamp", "ts"} ->
         {SetCore(e, "timestamp", s) : s \in {v} \cap {Str(<<t>>) : t \in Instants}}
    [] key \in {"host", "hostname"} -> {SetCore(e, "hostname", value_to_string(v))}
    [] key \in {"severity", "level", "loglevel"} ->
         {SetCore(e, "severity", Num(AtMost(n.num, 7))) : n \in {value_to_u8(v)} \ {Absent}}
    [] key \in {"message", "msg"} -> IF IsStr(v) THEN {SetCore(e, "message", v)} ELSE {}
    [] key \in {"application", "app", "appname", "program"} ->
         {SetCore(e, "application", value_to_string(v))}
    [] key \in {"pid", "process_id", "procid"} ->
         {SetCore(e, "process_id", value_to_string(v))}
    [] OTHER -> {}

(* The rest of the keys become custom fields *)
TakeKey(e, pair) ==
  LET known == apply_known_key(e, pair[1], pair[2])
  IN IF known = {} THEN Insert(e, pair[1], pair[2]) ELSE CHOOSE k \in known : TRUE

parse_json_into(e, line) == FoldLeft(TakeKey, e, line.pairs["json"])
parse_kv_into(e, line) ==
  LET kv == line.pairs["kv"]
  IN FoldLeft(TakeKey, e, Restrict(kv, {i \in DOMAIN kv : kv[i][1] # ""}))
parse_regex_into(e, line) == FoldLeft(TakeKey, e, line.pairs["regex"])

-----------------------------------------------------------------------------
(* Parsing a syslog line.  Each parser gives the event, or none *)

Pri == [n \in 0..255 |-> "<" \o ToString(n) \o ">"]

(* What follows a priority, in the event with the priority's two numbers *)
parse_pri(e, line) ==
  {[e |-> SetCore(SetCore(e, "facility", Num(n \div 8)), "severity", Num(n % 8)),
    rest |-> Tail(line.text)] :
     n \in {n \in 0..191 : line.text # <<>> /\ Head(line.text) = Pri[n]}}

(* Where the structured data that a tail starts with ends: at the bracket  *)
(* that closes the last element, counting brackets that are not escaped.   *)
SdEnd(tail) ==
  LET Scan(s, i) ==
        IF s.end # 0 THEN s
        ELSE IF s.skip THEN [s EXCEPT !.skip = FALSE]
        ELSE CASE tail[i] = "[" -> [s EXCEPT !.depth = @ + 1]
               [] tail[i] = "]" ->
                    LET depth == IF s.depth = 0 THEN 0 ELSE s.depth - 1
                    IN [s EXCEPT !.depth = depth,
                          !.end = IF depth = 0 /\ (i = Len(tail) \/ tail[i + 1] # "[")
                                  THEN i ELSE 0]
               [] tail[i] = "\\" -> [s EXCEPT !.skip = TRUE]
               [] OTHER -> s
      end == FoldLeftDomain(Scan, [depth |-> 0, skip |-> FALSE, end |-> 0], tail).end
  IN IF end = 0 THEN Len(tail) ELSE end

(* A byte order mark in front of the message is not part of it *)
Unmarked(s) == IF s # <<>> /\ Head(s) = "BOM" THEN Tail(s) ELSE s

TakeTail(e, tail) ==
  IF tail # <<>> /\ Head(tail) = "-"
  THEN SetCore(e, "message", Str(Unmarked(TrimStart(Tail(tail)))))
  ELSE IF tail # <<>> /\ Head(tail) = "["
  THEN SetCore(Insert(e, "structured_data", Str(SubSeq(tail, 1, SdEnd(tail)))),
               "message", Str(Unmarked(TrimStart(From(tail, SdEnd(tail) + 1)))))
  ELSE SetCore(e, "message", Str(Unmarked(tail)))

(* <PRI>1 TIMESTAMP HOSTNAME APP-NAME PROCID MSGID [SD] MSG *)
TakeHeader(p) ==
  LET rest == From(p.rest, 3)
      cuts == SelectSeq([i \in DOMAIN rest |-> i], LAMBDA i : rest[i] = " ")
      Part(k) == SubSeq(rest, IF k = 1 THEN 1 ELSE cuts[k - 1] + 1, cuts[k] - 1)
      Keep(e, name, part) == IF part = <<"-">> THEN e ELSE SetCore(e, name, Str(part))
      Stamped == IF Part(1) \in {<<t>> : t \in Instants}
                 THEN SetCore(p.e, "timestamp", Str(Part(1))) ELSE p.e
  IN IF ~IsPrefix(<<"1", " ">>, p.rest) \/ Len(cuts) < 5 THEN {}
     ELSE {TakeTail(Keep(Keep(Keep(Stamped, "hostname", Part(2)), "application", Part(3)),
                         "process_id", Part(4)), From(rest, cuts[5] + 1))}

parse_rfc5424(e, line) == UNION {TakeHeader(p) : p \in parse_pri(e, line)}

(* The date of an older line: one atom, without its year *)
Dates == [t0 |-> "d0", t1 |-> "d1", t2 |-> "d2"]

TakeDate(p) ==
  LET on == {t \in DOMAIN Dates : p.rest # <<>> /\ Head(p.rest) = Dates[t]}
  IN IF on = {} THEN p
     ELSE [e |-> SetCore(p.e, "timestamp", Str(<<CHOOSE t \in on : TRUE>>)),
           rest |-> TrimStart(Tail(p.rest))]

TakeHost(p) ==
  LET sp == First(" ", p.rest)
      host == SubSeq(p.rest, 1, sp - 1)
  IN IF sp > 1 /\ First(":", host) = 0
     THEN [e |-> SetCore(p.e, "hostname", Str(host)), rest |-> From(p.rest, sp + 1)]
     ELSE p

(* A tag's length: its words have a byte, but for a long one *)
Bytes(s) == FoldLeft(LAMBDA n, a : n + (IF a = "long" THEN 40 ELSE 1), 0, s)

TakeTag(p) ==
  LET colon == First(":", p.rest)
      tag == SubSeq(p.rest, 1, colon - 1)
      br == First("[", tag)
      pid == SubSeq(tag, br + 1, SelectLastInSeq(tag, LAMBDA a : a # "]"))
      named == IF br > 0
               THEN SetCore(SetCore(p.e, "application", Str(SubSeq(tag, 1, br - 1))),
                            "process_id", Str(pid))
               ELSE IF tag # <<>> THEN SetCore(p.e, "application", Str(tag)) ELSE p.e
  IN IF colon = 0 \/ First(" ", tag) # 0 \/ Bytes(tag) > 48
     THEN SetCore(p.e, "message", Str(p.rest))
     ELSE SetCore(named, "message", Str(TrimStart(From(p.rest, colon + 1))))

(* <PRI>Mmm dd hh:mm:ss HOSTNAME TAG[pid]: MSG *)
parse_rfc3164(e, line) ==
  {TakeTag(TakeHost(TakeDate(p))) : p \in parse_pri(e, line)}

(* The automatic format tries one after the other, and marks the rest *)
ParseAny(e, line) ==
  LET t == TrimStart(line.text)
      read == IF parse_rfc5424(e, line) # {} THEN parse_rfc5424(e, line)
              ELSE parse_rfc3164(e, line)
  IN IF read # {} THEN CHOOSE a \in read : TRUE
     ELSE IF t # <<>> /\ Head(t) = "{" THEN parse_json_into(e, line)
     ELSE Insert(e, "parse_status", Str(<<"unparsed">>))

parse_syslog_into(e, line, format) ==
  LET Or(read) == IF read = {} THEN e ELSE CHOOSE a \in read : TRUE IN
  CASE format = "raw" -> e
    [] format = "json" -> parse_json_into(e, line)
    [] format = "rfc5424" -> Or(parse_rfc5424(e, line))
    [] format = "rfc3164" -> Or(parse_rfc3164(e, line))
    [] format = "auto" -> ParseAny(e, line)

Opened(line, source_type, keep_raw_message) ==
  LET e == New(<<"source">>, <<source_type>>, line.text)
  IN IF keep_raw_message THEN preserve_raw(e, line.text) ELSE e

Parse(p, line) ==
  LET e == Opened(line, "file", p.keep_raw_message) IN
  CASE p.mode = "raw" -> e
    [] p.mode = "json" -> parse_json_into(e, line)
    [] p.mode = "kv" -> parse_kv_into(e, line)
    [] p.mode = "regex" -> parse_regex_into(e, line)
    [] p.mode = "syslog" -> parse_syslog_into(e, line, "auto")

(* The lines a listener reads in what it receives, trimmed; the empty ones *)
(* are skipped.                                                            *)
LinesOf(s) ==
  LET ends == {0, Len(s) + 1} \cup {i \in DOMAIN s : s[i] = "\n"}
  IN {SubSeq(s, i + 1, Min({j \in ends : j > i}) - 1) : i \in ends \ {Len(s) + 1}}
Heard(line) ==
  {[text |-> t, pairs |-> line.pairs] : t \in {Trim(l) : l \in LinesOf(line.text)} \ {<<>>}}

(* A syslog input also names the peer *)
make_event(s, line) ==
  LET e == parse_syslog_into(Opened(line, "syslog", s.keep_raw_message), line, s.format)
      hosted == IF e.core["hostname"] = Absent THEN SetCore(e, "hostname", Str(<<"peer">>)) ELSE e
  IN Insert(hosted, "remote_addr", Str(<<"peer">>))

-----------------------------------------------------------------------------
(* Transforming, enriching and formatting an event *)

Applies(t, e) == t.when = Absent \/ eval_condition(t.when, e)

convert_value(v, to) ==
  LET s == IF IsStr(v) THEN v.str ELSE <<>> IN
  CASE to = "string" -> value_to_string(v)
    [] to \in {"int", "float"} ->
         IF IsNum(v) THEN v
         ELSE IF to = "int" /\ "bool" \in DOMAIN v THEN Num(IF v.bool THEN 1 ELSE 0)
         ELSE IF NumberOf(s) # {} THEN Num(CHOOSE n \in NumberOf(s) : TRUE) ELSE Absent
    [] to = "bool" ->
         IF "bool" \in DOMAIN v THEN v
         ELSE IF IsNum(v) THEN Bool(v.num # 0)
         ELSE IF s \in {<<"true">>, <<"1">>, <<"yes">>} THEN Bool(TRUE)
         ELSE IF s \in {<<"false">>, <<"0">>, <<"no">>} THEN Bool(FALSE) ELSE Absent

(* Masking the message masks the copy kept of the line it came from *)
MaskRaw(t, e) ==
  IF t.field = "message" /\ e.core["raw_message"] # Absent
  THEN SetCore(e, "raw_message", Str(replace_all(t.pattern, e.core["raw_message"].str, t.by)))
  ELSE e

Mask(t, e) ==
  LET read == IF get_str(e, t.field) # Absent THEN get_str(e, t.field)
              ELSE value_to_string(get_field(e, t.field))
  IN MaskRaw(t, IF read = Absent THEN e
                ELSE set_field(e, t.field, Str(replace_all(t.pattern, read.str, t.by))))

Rename(t, e) ==
  LET v == get_field(e, t.field)
  IN IF v = Absent THEN e ELSE set_field(remove_field(e, t.field), t.to, v)

Convert(t, e) ==
  LET v == get_field(e, t.field)
      converted == IF v = Absent THEN Absent ELSE convert_value(v, t.to)
  IN IF converted = Absent THEN e ELSE set_field(e, t.field, converted)

Drops(t, e) ==
  \/ t.step = "drop" /\ Applies(t, e)
  \/ t.step = "keep" /\ ~Applies(t, e)

Applied(t, e) ==
  IF ~Applies(t, e) THEN e ELSE
  CASE t.step = "add_field" -> set_field(e, t.field, t.value)
    [] t.step = "remove_field" -> remove_field(e, t.field)
    [] t.step = "rename_field" -> Rename(t, e)
    [] t.step = "convert" -> Convert(t, e)
    [] t.step = "mask" -> Mask(t, e)
    [] OTHER -> e

(* The enrichment fills in what is not there *)
Enriched(add, e) ==
  LET hosted == IF e.core["hostname"] = Absent THEN SetCore(e, "hostname", add.hostname) ELSE e
  IN [hosted EXCEPT !.fields = @ @@ add.fields]

(* Variant: a bracket that ends an element is left as it is. *)
EscapedButBracket(s) ==
  FoldLeft(LAMBDA out, a : (IF a \in {"\"", "\\"} THEN Append(out, "\\") ELSE out) \o <<a>>,
           <<>>, s)

sd_escape(s) ==
  FoldLeft(LAMBDA out, a : (IF a \in {"\"", "\\", "]"} THEN Append(out, "\\") ELSE out) \o <<a>>,
           <<>>, s)

(* The fields that an element may carry: all but the raw text of one *)
Params(e) ==
  SelectSeq(KeyOrder, LAMBDA k : /\ k \in DOMAIN e.fields \ {"structured_data", "not a name"}
                                 /\ value_to_string(e.fields[k]) # Absent)

rfc5424_structured_data(e) ==
  LET Param(out, k) == out \o <<" ", k, "=", "\"">>
                           \o sd_escape(value_to_string(e.fields[k]).str) \o <<"\"">>
  IN IF Params(e) = <<>> THEN <<"-">>
     ELSE FoldLeft(Param, <<"[", "softnix@32473">>, Params(e)) \o <<"]">>

Or(e, name, default) == IF e.core[name] = Absent THEN default ELSE e.core[name].str
NumOr(e, name, default) == IF e.core[name] = Absent THEN default ELSE e.core[name].num

pri_of(e) == AtMost(NumOr(e, "facility", 1), 31) * 8 + AtMost(NumOr(e, "severity", 6), 7)

Stamp(e) == e.core["timestamp"].str

(* The object's members that hold one value; custom fields stay nested *)
CoreOrder == <<"timestamp", "received_at", "hostname", "source", "source_type", "severity",
               "facility", "application", "process_id", "message", "raw_message",
               "collector_version">>
Members(e) ==
  LET there == SelectSeq(CoreOrder, LAMBDA n : e.core[n] # Absent)
  IN [i \in DOMAIN there |-> <<there[i], e.core[there[i]]>>]

Tag(e) ==
  Or(e, "application", <<"softnix">>)
    \o (IF e.core["process_id"] = Absent THEN <<>>
        ELSE <<"[">> \o e.core["process_id"].str \o <<"]">>)

format_event(e, format) ==
  LET message == e.core["message"].str IN
  CASE format = "json" ->
         [NoLine EXCEPT !.text = <<"{", "members", "}">>, !.pairs["json"] = Members(e)]
    [] format = "raw" -> [NoLine EXCEPT !.text = message]
    [] format = "rfc5424" ->
         [NoLine EXCEPT
            !.text = <<Pri[pri_of(e)], "1", " ">> \o Stamp(e) \o <<" ">> \o Or(e, "hostname", <<"-">>)
                     \o <<" ">> \o Or(e, "application", <<"softnix-log-agent">>)
                     \o <<" ">> \o Or(e, "process_id", <<"-">>) \o <<" ", "-", " ">>
                     \o rfc5424_structured_data(e) \o <<" ">> \o message]
    [] format = "rfc3164" ->
         [NoLine EXCEPT
            !.text = <<Pri[pri_of(e)], Dates[Stamp(e)[1]], " ">> \o Or(e, "hostname", <<"-">>)
                     \o <<" ">> \o Tag(e) \o <<":", " ">> \o message]

-----------------------------------------------------------------------------
Init ==
  /\ cfg \in Configs
  /\ stage = "read"
  /\ at = 0
  /\ ev = NoEvent /\ arrived = NoEvent
  /\ wire = NoLine

(* load: the configuration is validated before anything is built *)
Validate ==
  /\ stage = "read"
  /\ stage' = IF validate(cfg) THEN "accepted" ELSE "refused"
  /\ at' = 1
  /\ UNCHANGED <<cfg, ev, wire, arrived>>

(* Engine::build, one part after the other; one that fails ends the start *)
Build ==
  /\ stage = "accepted"
  /\ at' = at + 1
  /\ stage' = IF ~Builds(cfg, Parts[at]) THEN "not started"
              ELSE IF at = Len(Parts) THEN "running" ELSE "accepted"
  /\ UNCHANGED <<cfg, ev, wire, arrived>>

Becomes(e) ==
  /\ ev' = e
  /\ at' = 1
  /\ stage' = "transforming"
  /\ UNCHANGED <<cfg, wire, arrived>>

ReadLine ==
  /\ stage = "running"
  /\ \E line \in Lines, f \in {cfg.files[i] : i \in DOMAIN cfg.files} :
       Becomes(Parse(f.parser, line))

ReceiveLine ==
  /\ stage = "running"
  /\ \E line \in Lines, s \in {cfg.syslog[i] : i \in DOMAIN cfg.syslog} :
       \E heard \in Heard(line) : Becomes(make_event(s, heard))

Transform ==
  /\ stage = "transforming"
  /\ at <= Len(cfg.transforms)
  /\ at' = at + 1
  /\ ev' = Applied(cfg.transforms[at], ev)
  /\ stage' = IF Drops(cfg.transforms[at], ev) THEN "dropped" ELSE "transforming"
  /\ UNCHANGED <<cfg, wire, arrived>>

Enrich ==
  /\ stage = "transforming"
  /\ at > Len(cfg.transforms)
  /\ ev' = Enriched(cfg.enrich, ev)
  /\ stage' = "routed"
  /\ UNCHANGED <<cfg, at, wire, arrived>>

(* An output's condition, and the format its sink writes *)
Send ==
  /\ stage = "routed"
  /\ \E i \in DOMAIN cfg.outputs :
       /\ cfg.outputs[i].when # Absent => eval_condition(cfg.outputs[i].when, ev)
       /\ wire' = format_event(ev, cfg.outputs[i].format)
       /\ at' = i
  /\ stage' = "sent"
  /\ UNCHANGED <<cfg, ev, arrived>>

(* Another agent's syslog input, with the options it has by default, makes *)
(* an event of a line it is sent, which is not longer than it takes.       *)
Arrive ==
  /\ stage = "sent"
  /\ cfg.outputs[at].kind = "syslog"
  /\ \E line \in Heard(wire) :
       arrived' = make_event([format |-> "auto", keep_raw_message |-> FALSE], line)
  /\ stage' = "arrived"
  /\ UNCHANGED <<cfg, at, ev, wire>>

Next ==
  \/ Validate \/ Build \/ ReadLine \/ ReceiveLine
  \/ Transform \/ Enrich \/ Send \/ Arrive

Spec == Init /\ [][Next]_vars

-----------------------------------------------------------------------------
(* A configuration that validation accepts can be built, so that a reload  *)
(* does not stop a running engine for one that cannot start.  These are    *)
(* accepted and cannot be: an output's name that is no file's, a pattern   *)
(* that does not compile beside a mode that does not use it, a listener's  *)
(* IPv6 address, two listeners in each other's way, and a certificate or   *)
(* key that is there and of no use.  What the machine refuses, a port that *)
(* another program holds or a directory it may not make, is beside it.     *)
Useless == {"not PEM", "refused root", "other key"}
Files(tls) == {part.file : part \in {tls.ca, tls.cert, tls.key} \ {Absent}}
Unbuildable(c) ==
  \/ \E i \in DOMAIN c.outputs : c.outputs[i].id = "no file name"
  \/ \E i \in DOMAIN c.files :
       c.files[i].parser.mode # "regex" /\ ~ParserCompiles(c.files[i].parser)
  \/ \E i \in DOMAIN c.syslog : c.syslog[i].bind \in IPv6
  \/ \E i, j \in DOMAIN c.syslog : i < j /\ Collide(c.syslog[i], c.syslog[j])
  \/ \E x \in Range(c.syslog) \cup Range(c.outputs) :
       x.protocol = "tls" /\ Given(x.tls) /\ Files(x.tls) \cap Useless # {}
ValidatedStarts == stage = "not started" => Unbuildable(cfg)

(* Reading a field in place and reading a copy of it answer every condition *)
(* alike, on any event the stages produce, which the fast path of           *)
(* eval_condition rests on: also when a custom field has a core field's     *)
(* name.                                                                    *)
OwnedAnswer(c, e) ==
  CASE c.op = "exists" -> get_field(e, c.field) # Absent
    [] c.op = "not_exists" -> get_field(e, c.field) = Absent
    [] OTHER -> eval_value_op(c, e)
SameAnswer ==
  ev # NoEvent => \A c \in Conditions : eval_condition(c, ev) = OwnedAnswer(c, ev)

(* What one agent sends in a syslog format or in JSON, another reads back   *)
(* as the same message at the same severity, whatever custom fields are     *)
(* sent beside it.  The spaces around a message in a syslog format, and the *)
(* byte order mark at its head in the newer one, do not arrive.  Not so     *)
(* when                                                                     *)
(*   - a header holds what separates headers, or a line break is sent;      *)
(*   - the facility is above 23, whose priority no reader takes;            *)
(*   - a custom field's name or value holds an opening bracket, which the   *)
(*     writer of the newer format does not escape and the reader counts;    *)
(*   - in the older format, the application and the process together are    *)
(*     longer than a reader's tag.                                          *)
Separators == [rfc5424 |-> {" "}, rfc3164 |-> {" ", ":"}]
Headers(e) == {Or(e, n, <<>>) : n \in {"hostname", "application", "process_id"}}
Values(e) == {value_to_string(e.fields[k]).str : k \in Range(Params(e))}
Holds(parts, atoms) == \E s \in parts : Range(s) \cap atoms # {}
Plain(e, format) ==
  format # "json" =>
    /\ ~Holds(Headers(e), Separators[format])
    /\ ~Holds(Headers(e) \cup {e.core["message"].str}, {"\n"})
    /\ NumOr(e, "facility", 1) <= 23
    /\ IF format = "rfc5424"
       THEN "[" \notin Range(Params(e)) /\ ~Holds(Values(e), {"[", "\n"})
       ELSE Bytes(Tag(e)) <= 48
Received(message, format) ==
  CASE format = "json" -> message
    [] format = "rfc5424" -> Unmarked(Trim(message))
    [] format = "rfc3164" -> Trim(message)
Severity(e) == AtMost(NumOr(e, "severity", 6), 7)
ArrivesWhole ==
  stage = "arrived" =>
    LET format == cfg.outputs[at].format IN
    format # "raw" /\ Plain(ev, format) =>
      /\ arrived.core["message"].str = Received(ev.core["message"].str, format)
      /\ Severity(arrived) = Severity(ev)
=============================================================================
