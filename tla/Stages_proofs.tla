---------------------------- MODULE Stages_proofs ----------------------------
(***************************************************************************)
(* What validation is worth: a configuration that validate accepts fails   *)
(* to become an engine for one of the known reasons only, for every        *)
(* configuration, whatever lines are read.  Validation and construction    *)
(* are two pieces of code that nothing but care keeps in agreement; each   *)
(* part of Engine::build has a lemma, which compares the two.              *)
(* And what the fast path of a condition rests on: the fields that are     *)
(* read in place hold text or nothing in every event the stages produce.   *)
(***************************************************************************)
EXTENDS Stages, WellFoundedInduction, TLAPS

(* A condition that passed validation compiles.                            *)
LEMMA ConditionsCompile ==
  ASSUME NEW when, Given(when) => validate_condition(when)
  PROVE  CompilesWhen(when)
  BY DEF validate_condition, CompilesWhen, CanCompile

(* A queue fails to open on its name alone.                                *)
LEMMA QueuesBuild ==
  ASSUME NEW c, ~Builds(c, "queues")
  PROVE  Unbuildable(c)
<1>1. PICK o \in Range(c.outputs) : ~QueueOpens(o)
  BY DEF Builds
<1>2. QED
  BY <1>1 DEF Range, QueueOpens, Unbuildable

(* Files that are there and that TLS makes nothing of are useless ones.    *)
LEMMA RootsLoad ==
  ASSUME NEW f, require_file(f), ~TakesRoot(f)
  PROVE  f \in Useless
  BY DEF require_file, TakesRoot, LoadsPem, Useless

LEMMA PairsLoad ==
  ASSUME NEW cert, NEW key, require_file(cert), require_file(key), ~TakesPair(cert, key)
  PROVE  cert \in Useless \/ key \in Useless
  BY DEF require_file, TakesPair, LoadsPem, Useless

LEMMA PartsOfTls ==
  ASSUME NEW tls, NEW part \in {tls.ca, tls.cert, tls.key}, Given(part)
  PROVE  part.file \in Files(tls)
  BY DEF Given, Files

(* A sink fails to open on what its files hold alone.                      *)
LEMMA WorkersBuild ==
  ASSUME NEW c, validate(c), ~Builds(c, "workers")
  PROVE  Unbuildable(c)
<1>1. PICK o \in Range(c.outputs) : ~SinkOpens(o)
  BY DEF Builds
<1>2. /\ o.protocol = "tls" /\ Given(o.tls) /\ ~client_config(o.tls)
      /\ o.kind = "syslog"
  BY <1>1 DEF SinkOpens, client_config
<1>3. ValidTarget(o)
  BY <1>1, <1>2 DEF validate, ValidOutput
<1>4. Files(o.tls) \cap Useless # {}
  <2>1. CASE Given(o.tls.ca) /\ ~TakesRoot(o.tls.ca.file)
    <3>1. o.tls.ca.file \in Useless
      BY <1>2, <1>3, <2>1, RootsLoad DEF ValidTarget
    <3>2. o.tls.ca.file \in Files(o.tls)
      BY <2>1, PartsOfTls
    <3>3. QED
      BY <3>1, <3>2
  <2>2. CASE Given(o.tls.cert) /\ Given(o.tls.key) /\ ~TakesPair(o.tls.cert.file, o.tls.key.file)
    <3>1. o.tls.cert.file \in Useless \/ o.tls.key.file \in Useless
      BY <1>2, <1>3, <2>2, PairsLoad DEF ValidTarget
    <3>2. o.tls.cert.file \in Files(o.tls) /\ o.tls.key.file \in Files(o.tls)
      BY <2>2, PartsOfTls
    <3>3. QED
      BY <3>1, <3>2
  <2>3. QED
    BY <1>2, <2>1, <2>2 DEF client_config
<1>5. QED
  BY <1>1, <1>2, <1>4 DEF Unbuildable

(* The routers' conditions have all been validated.                        *)
LEMMA RoutersBuild ==
  ASSUME NEW c, validate(c)
  PROVE  Builds(c, "routers")
<1>1. ASSUME NEW o \in Range(c.outputs) PROVE CompilesWhen(o.when)
  BY <1>1, ConditionsCompile DEF validate, ValidOutput
<1>2. QED
  BY <1>1 DEF Builds

(* ... and so have the transforms' conditions and patterns.                *)
LEMMA TransformerBuilds ==
  ASSUME NEW c, validate(c)
  PROVE  Builds(c, "transformer")
<1>1. ASSUME NEW t \in Range(c.transforms)
      PROVE  CompilesWhen(t.when) /\ (t.step = "mask" => Compiles(t.pattern))
  BY <1>1, ConditionsCompile DEF validate, validate_transform
<1>2. QED
  BY <1>1 DEF Builds, TransformerCompiles

(* A listener whose options were validated fails to open on its IPv6       *)
(* address, on what its files hold or on a listener that is in its way.    *)
LEMMA ListenersBuild ==
  ASSUME NEW c \in Configs, validate(c), ~Builds(c, "syslog")
  PROVE  Unbuildable(c)
<1>1. PICK i \in DOMAIN c.syslog : ~ListenerOpens(c.syslog, i)
  BY DEF Builds
<1> DEFINE s == c.syslog[i]
<1>2. s \in Range(c.syslog)
  BY DEF Range
<1>3. ValidSyslog(s)
  BY <1>2 DEF validate
<1>4. CASE s.bind \notin IPv4
  BY <1>3, <1>4 DEF Unbuildable, ValidSyslog
<1>5. CASE \E j \in DOMAIN c.syslog : j < i /\ Collide(c.syslog[j], s)
  BY <1>5 DEF Unbuildable
<1>6. CASE s.protocol = "tls" /\ ~(Given(s.tls) /\ server_config(s.tls))
  <2>1. /\ Given(s.tls)
        /\ require_file(s.tls.cert.file) /\ require_file(s.tls.key.file)
        /\ Given(s.tls.ca) => require_file(s.tls.ca.file)
    BY <1>3, <1>6 DEF ValidSyslog
  <2>2. s.tls.cert.file \in Files(s.tls) /\ s.tls.key.file \in Files(s.tls)
    BY <2>1, ConfigsAssumption, PartsOfTls
  <2>3. CASE ~TakesPair(s.tls.cert.file, s.tls.key.file)
    <3>1. s.tls.cert.file \in Useless \/ s.tls.key.file \in Useless
      BY <2>1, <2>3, PairsLoad
    <3>2. QED
      BY <1>2, <1>6, <2>1, <2>2, <3>1 DEF Unbuildable
  <2>4. CASE Given(s.tls.ca) /\ ~TakesRoot(s.tls.ca.file)
    <3>1. s.tls.ca.file \in Useless
      BY <2>1, <2>4, RootsLoad
    <3>2. s.tls.ca.file \in Files(s.tls)
      BY <2>4, PartsOfTls
    <3>3. QED
      BY <1>2, <1>6, <2>1, <3>1, <3>2 DEF Unbuildable
  <2>5. QED
    BY <1>6, <2>1, <2>3, <2>4 DEF server_config
<1>7. QED
  BY <1>1, <1>4, <1>5, <1>6 DEF ListenerOpens

(* A file input whose options were validated fails to open on a pattern    *)
(* that its parser's mode does not use.                                    *)
LEMMA FileInputsBuild ==
  ASSUME NEW c, validate(c), ~Builds(c, "files")
  PROVE  Unbuildable(c)
<1>1. PICK f \in Range(c.files) : ~FileInputOpens(f)
  BY DEF Builds
<1>2. PICK i \in DOMAIN c.files : f = c.files[i]
  BY DEF Range
<1>3. ValidFile(f)
  BY <1>1 DEF validate
<1>4. ~ParserCompiles(f.parser)
  BY <1>1, <1>3 DEF FileInputOpens, ValidFile
<1>5. f.parser.mode # "regex"
  BY <1>3, <1>4 DEF ValidFile, validate_parser, ParserCompiles
<1>6. QED
  BY <1>2, <1>4, <1>5 DEF Unbuildable

(* Every part of the engine, together.                                     *)
LEMMA PartsBuild ==
  ASSUME NEW c \in Configs, validate(c), NEW n \in 1 .. Len(Parts), ~Builds(c, Parts[n])
  PROVE  Unbuildable(c)
<1>1. Parts[n] \in {"queues", "workers", "routers", "transformer", "syslog", "files"}
  BY DEF Parts
<1>2. QED
  BY <1>1, QueuesBuild, WorkersBuild, RoutersBuild, TransformerBuilds, ListenersBuild, FileInputsBuild

(* The inductive invariant: what is being built has been validated, and    *)
(* the engine has a part left to build.                                    *)
SInv ==
  /\ cfg \in Configs
  /\ stage = "accepted" => validate(cfg) /\ at \in 1 .. Len(Parts)
  /\ ValidatedStarts

LEMMA InitSInv == Init => SInv
  BY DEF Init, SInv, ValidatedStarts

LEMMA StepSInv == SInv /\ [Next]_vars => SInv'
<1> SUFFICES ASSUME SInv, [Next]_vars PROVE SInv'
  OBVIOUS
<1>1. Len(Parts) = 6
  BY DEF Parts
<1>2. CASE Validate
  BY <1>1, <1>2 DEF Validate, SInv, ValidatedStarts
<1>3. CASE Build
  <2>1. cfg \in Configs /\ validate(cfg) /\ at \in 1 .. Len(Parts) /\ cfg' = cfg
    BY <1>3 DEF Build, SInv
  <2>2. CASE ~Builds(cfg, Parts[at])
    <3>1. Unbuildable(cfg)
      BY <2>1, <2>2, PartsBuild
    <3>2. QED
      BY <1>3, <2>1, <2>2, <3>1 DEF Build, SInv, ValidatedStarts
  <2>3. CASE Builds(cfg, Parts[at])
    BY <1>1, <1>3, <2>1, <2>3 DEF Build, SInv, ValidatedStarts
  <2>4. QED
    BY <2>2, <2>3
<1>4. CASE ReadLine \/ ReceiveLine
  BY <1>4 DEF ReadLine, ReceiveLine, Becomes, SInv, ValidatedStarts
<1>5. CASE Transform
  BY <1>5 DEF Transform, SInv, ValidatedStarts
<1>6. CASE Enrich
  BY <1>6 DEF Enrich, SInv, ValidatedStarts
<1>7. CASE Send
  BY <1>7 DEF Send, SInv, ValidatedStarts
<1>8. CASE Arrive
  BY <1>8 DEF Arrive, SInv, ValidatedStarts
<1>9. CASE UNCHANGED vars
  BY <1>9 DEF vars, SInv, ValidatedStarts
<1>10. QED
  BY <1>2, <1>3, <1>4, <1>5, <1>6, <1>7, <1>8, <1>9 DEF Next

(* A reload that passed validation ends in a running engine or in one of   *)
(* the known failures: Config::load's checks cover all else that           *)
(* Engine::build can fail on.                                              *)
THEOREM ValidatedBuilds == Spec => []ValidatedStarts
<1>1. SInv => ValidatedStarts
  BY DEF SInv
<1>2. QED
  BY <1>1, InitSInv, StepSInv, PTL DEF Spec

-----------------------------------------------------------------------------
(* The fields that are read in place hold a string or nothing, in every    *)
(* event that the stages produce.                                          *)

Text(v) == v = Absent \/ IsStr(v)

WellFormed(e) ==
  /\ e = [core |-> e.core, fields |-> e.fields]
  /\ e.core = [n \in Core |-> e.core[n]]
  /\ \A n \in Optional \cup Always : Text(e.core[n])

(* A set of numbers that has an element has a least one.                   *)
LEMMA LeastNatural ==
  ASSUME NEW T \in SUBSET Nat, T # {}
  PROVE  \E n \in T : \A m \in T : n <= m
<1> DEFINE R == OpToRel(<, Nat)
<1>1. IsWellFoundedOn(R, Nat)
  BY NatLessThanWellFounded
<1>2. \A x, y \in Nat : x < y => <<x, y>> \in R
  BY DEF OpToRel
<1> HIDE DEF R
<1>3. PICK n \in T : \A m \in T : ~(<<m, n>> \in R)
  BY <1>1, WFMin
<1>4. \A m \in T : ~(m < n)
  BY <1>2, <1>3
<1>5. QED
  BY <1>4

(* A set of indices that has an element has a greatest one.                *)
LEMMA GreatestIndex ==
  ASSUME NEW n \in Nat, NEW S \in SUBSET (1 .. n), S # {}
  PROVE  Max(S) \in S /\ \A m \in S : m <= Max(S)
<1> DEFINE T == {k \in Nat : \A m \in S : m <= k}
<1>1. n \in T
  OBVIOUS
<1>2. PICK k \in T : \A j \in T : k <= j
  BY <1>1, LeastNatural
<1>3. k \in Nat /\ \A m \in S : m \in Nat /\ 1 <= m /\ m <= k
  BY <1>2
<1>4. k \in S
  <2>1. SUFFICES ASSUME k \notin S PROVE FALSE
    OBVIOUS
  <2>2. k # 0
    <3>1. PICK m \in S : TRUE
      OBVIOUS
    <3>2. QED
      BY <1>3, <3>1
  <2>3. k - 1 \in T
    BY <1>3, <2>1, <2>2
  <2>4. QED
    BY <1>2, <1>3, <2>3
<1>5. \E x \in S : \A y \in S : x >= y
  BY <1>3, <1>4
<1>6. Max(S) \in S /\ \A y \in S : Max(S) >= y
  BY <1>5 DEF Max
<1>7. QED
  BY <1>3, <1>6

LEMMA ToStringText ==
  ASSUME NEW v
  PROVE  Text(value_to_string(v))
  BY DEF value_to_string, Text, IsStr, Str, Absent

LEMMA SetCoreWellFormed ==
  ASSUME NEW e, NEW name \in Core, NEW v, WellFormed(e),
         name \in Optional \cup Always => Text(v)
  PROVE  WellFormed(SetCore(e, name, v))
<1> DEFINE c == [e.core EXCEPT ![name] = v]
<1>1. e = [core |-> e.core, fields |-> e.fields] /\ e.core = [n \in Core |-> e.core[n]]
  BY DEF WellFormed
<1>2. SetCore(e, name, v) = [core |-> c, fields |-> e.fields]
  BY <1>1 DEF SetCore
<1>3. c = [n \in Core |-> IF n = name THEN v ELSE e.core[n]]
  BY <1>1
<1>4. \A n \in Optional \cup Always : n \in Core
  BY DEF Core
<1> HIDE DEF c
<1>5. QED
  BY <1>2, <1>3, <1>4 DEF WellFormed

LEMMA FieldsWellFormed ==
  ASSUME NEW e, NEW f, WellFormed(e)
  PROVE  WellFormed([e EXCEPT !.fields = f])
<1>1. [e EXCEPT !.fields = f] = [core |-> e.core, fields |-> f]
  BY DEF WellFormed
<1>2. QED
  BY <1>1 DEF WellFormed

LEMMA InsertWellFormed ==
  ASSUME NEW e, NEW name, NEW v, WellFormed(e)
  PROVE  WellFormed(Insert(e, name, v))
  BY FieldsWellFormed DEF Insert

LEMMA StrText == \A s : Text(Str(s))
  BY DEF Text, Str, IsStr

LEMMA CoreNames ==
  /\ Optional \subseteq Core /\ Always \subseteq Core /\ Levels \subseteq Core
  /\ Stamps \subseteq Core
  /\ (Levels \cup Stamps) \cap (Optional \cup Always) = {}
  /\ "timestamp" \in Stamps
  /\ Levels = {"severity", "facility"}
  /\ {"hostname", "application", "process_id", "raw_message"} = Optional
  /\ "message" \in Always
  BY DEF Core, Optional, Always, Levels, Stamps

LEMMA SetFieldWellFormed ==
  ASSUME NEW e, NEW name, NEW v, WellFormed(e)
  PROVE  WellFormed(set_field(e, name, v))
<1>1. Text(value_to_string(v))
  BY ToStringText
<1>2. name \in Optional \cup Always => WellFormed(SetCore(e, name, value_to_string(v)))
  BY <1>1, CoreNames, SetCoreWellFormed
<1>3. name \in Levels => WellFormed(SetCore(e, name, value_to_u8(v)))
  BY CoreNames, SetCoreWellFormed
<1>4. WellFormed(SetCore(e, "timestamp", value_to_string(v)))
  BY CoreNames, SetCoreWellFormed
<1>5. WellFormed(Insert(e, name, v))
  BY InsertWellFormed
<1>6. CASE name \in Optional
  <2>1. set_field(e, name, v) = SetCore(e, name, value_to_string(v))
    BY <1>6 DEF set_field, SetCore, Optional, Always, Levels
  <2>2. QED
    BY <1>2, <1>6, <2>1
<1>7. CASE name \in Always
  <2>1. set_field(e, name, v) = IF value_to_string(v) = Absent THEN e
                              ELSE SetCore(e, name, value_to_string(v))
    BY <1>7 DEF set_field, SetCore, Optional, Always, Levels
  <2>2. QED
    BY <1>2, <1>7, <2>1
<1>8. CASE name \in Levels
  BY <1>3, <1>8 DEF set_field, SetCore, Optional, Always, Levels
<1>9. CASE name = "timestamp"
  BY <1>4, <1>9 DEF set_field, SetCore, Optional, Always, Levels
<1>10. CASE name \notin Optional \cup Always \cup Levels \cup {"timestamp"}
  BY <1>5, <1>10 DEF set_field
<1>11. QED
  BY <1>6, <1>7, <1>8, <1>9, <1>10

LEMMA RemoveFieldWellFormed ==
  ASSUME NEW e, NEW name, WellFormed(e)
  PROVE  WellFormed(remove_field(e, name))
<1>1. CASE name \in Optional \cup Levels
  <2>1. WellFormed(SetCore(e, name, Absent))
    BY <1>1, CoreNames, SetCoreWellFormed DEF Text
  <2>2. QED
    BY <1>1, <2>1 DEF remove_field, SetCore
<1>2. CASE name \notin Optional \cup Levels
  BY <1>2, FieldsWellFormed DEF remove_field
<1>3. QED
  BY <1>1, <1>2

LEMMA KnownKeyWellFormed ==
  ASSUME NEW e, NEW key, NEW v, WellFormed(e), NEW k \in apply_known_key(e, key, v)
  PROVE  WellFormed(k)
<1>1. /\ \A name \in Optional : WellFormed(SetCore(e, name, value_to_string(v)))
      /\ \A w : /\ WellFormed(SetCore(e, "timestamp", w))
                /\ WellFormed(SetCore(e, "severity", w))
      /\ IsStr(v) => WellFormed(SetCore(e, "message", v))
  BY ToStringText, CoreNames, SetCoreWellFormed DEF Text
<1>2. CASE key \in {"timestamp", "time", "@timestamp", "ts"}
  BY <1>1, <1>2 DEF apply_known_key
<1>3. CASE key \in {"host", "hostname"}
  BY <1>1, <1>3, CoreNames DEF apply_known_key
<1>4. CASE key \in {"severity", "level", "loglevel"}
  BY <1>1, <1>4 DEF apply_known_key
<1>5. CASE key \in {"message", "msg"}
  BY <1>1, <1>5 DEF apply_known_key
<1>6. CASE key \in {"application", "app", "appname", "program"}
  BY <1>1, <1>6, CoreNames DEF apply_known_key
<1>7. CASE key \in {"pid", "process_id", "procid"}
  BY <1>1, <1>7, CoreNames DEF apply_known_key
<1>8. QED
  BY <1>2, <1>3, <1>4, <1>5, <1>6, <1>7 DEF apply_known_key

LEMMA TakeKeyWellFormed ==
  ASSUME NEW e, NEW pair, WellFormed(e)
  PROVE  WellFormed(TakeKey(e, pair))
<1> DEFINE known == apply_known_key(e, pair[1], pair[2])
<1>1. \A k \in known : WellFormed(k)
  BY KnownKeyWellFormed
<1>2. WellFormed(Insert(e, pair[1], pair[2]))
  BY InsertWellFormed
<1>3. TakeKey(e, pair) = IF known = {} THEN Insert(e, pair[1], pair[2])
                         ELSE CHOOSE k \in known : TRUE
  BY DEF TakeKey
<1> HIDE DEF known
<1>4. known # {} => (CHOOSE k \in known : TRUE) \in known
  OBVIOUS
<1>5. QED
  BY <1>1, <1>2, <1>3, <1>4

(* What is left without the greatest index lies below it.                  *)
LEMMA LowerIndices ==
  ASSUME NEW k \in Nat, NEW D, NEW S \in SUBSET (D \cap (1 .. k)), S # {}
  PROVE  /\ k # 0 /\ k - 1 \in Nat
         /\ S \ {Max(S)} \in SUBSET (D \cap (1 .. (k - 1)))
<1> DEFINE x == Max(S)
<1>1. S \in SUBSET (1 .. k)
  OBVIOUS
<1>2. x \in S /\ \A n \in S : n <= x
  BY <1>1, GreatestIndex
<1> HIDE DEF x
<1>3. \A n \in S : n \in Nat /\ 1 <= n /\ n <= k /\ n \in D
  BY <1>1
<1>4. k # 0 /\ k - 1 \in Nat
  BY <1>2, <1>3
<1>5. ASSUME NEW n \in S, n # x PROVE n \in D /\ n \in 1 .. (k - 1)
  <2>1. n \in Nat /\ 1 <= n /\ n <= x /\ x \in Nat /\ x <= k /\ n \in D
    BY <1>2, <1>3
  <2>2. n <= k - 1
    BY <1>5, <2>1
  <2>3. QED
    BY <1>4, <2>1, <2>2
<1>6. QED
  BY <1>4, <1>5 DEF x

(* Taking a line's keys one after the other.  The fold is a function on    *)
(* the sets of indices, defined by recursion on the greatest index; that   *)
(* it exists, and that its values are well formed, is shown for the sets   *)
(* of indices up to m, of which there would otherwise be a least one that  *)
(* fails.                                                                  *)
Taken(e, s, h, S) == IF S = {} THEN e ELSE TakeKey(h[S \ {Max(S)}], s[Max(S)])

IsFold(e, s, D, h) == h = [S \in SUBSET D |-> Taken(e, s, h, S)]

LEMMA TakenExists ==
  ASSUME NEW e, NEW s, NEW m \in Nat, NEW D \in SUBSET (1 .. m)
  PROVE  \E h : IsFold(e, s, D, h)
<1> DEFINE U(k) == SUBSET (D \cap (1 .. k))
           Defines(h, k) == h = [S \in U(k) |-> Taken(e, s, h, S)]
           Undefined == {k \in Nat : ~ \E h : Defines(h, k)}
<1>1. SUFFICES Undefined = {}
  <2>1. \E h : Defines(h, m)
    BY <1>1
  <2>2. D \cap (1 .. m) = D
    OBVIOUS
  <2>3. QED
    BY <2>1, <2>2 DEF IsFold
<1>2. SUFFICES ASSUME Undefined # {} PROVE FALSE
  OBVIOUS
<1>3. PICK k \in Undefined : \A j \in Undefined : k <= j
  BY <1>2, LeastNatural
<1>4. k \in Nat /\ ~ \E h : Defines(h, k)
  BY <1>3
<1>5. k # 0
  <2>1. SUFFICES ASSUME k = 0 PROVE FALSE
    OBVIOUS
  <2>2. U(k) = {{}}
    BY <2>1
  <2> DEFINE h == [S \in U(k) |-> e]
  <2>3. \A S \in U(k) : Taken(e, s, h, S) = e
    BY <2>2 DEF Taken
  <2>4. Defines(h, k)
    BY <2>3
  <2>5. QED
    BY <1>4, <2>4
<1>6. k - 1 \in Nat /\ k - 1 \notin Undefined
  <2>1. k - 1 \in Nat /\ ~(k <= k - 1)
    BY <1>4, <1>5
  <2> HIDE DEF Undefined
  <2>2. QED
    BY <1>3, <2>1
<1>7. PICK g : Defines(g, k - 1)
  BY <1>6
<1> DEFINE h == [S \in U(k) |-> Taken(e, s, g, S)]
<1>8. ASSUME NEW S \in U(k) PROVE Taken(e, s, h, S) = Taken(e, s, g, S)
  <2>1. CASE S = {}
    BY <2>1 DEF Taken
  <2>2. CASE S # {}
    <3> DEFINE R == S \ {Max(S)}
    <3>1. R \in U(k - 1)
      BY <1>4, <2>2, LowerIndices
    <3>2. R \in U(k)
      OBVIOUS
    <3>3. g[R] = Taken(e, s, g, R)
      BY <1>7, <3>1
    <3>4. h[R] = Taken(e, s, g, R)
      BY <3>2
    <3>5. QED
      BY <3>3, <3>4 DEF Taken
  <2>3. QED
    BY <2>1, <2>2
<1>9. Defines(h, k)
  BY <1>8
<1>10. QED
  BY <1>4, <1>9

LEMMA TakenWellFormed ==
  ASSUME NEW e, WellFormed(e), NEW s, NEW m \in Nat, NEW D \in SUBSET (1 .. m),
         NEW h, IsFold(e, s, D, h)
  PROVE  WellFormed(h[D])
<1> DEFINE Bad == {k \in Nat : \E S \in SUBSET (D \cap (1 .. k)) : ~WellFormed(h[S])}
<1>1. SUFFICES Bad = {}
  <2>1. D \in SUBSET (D \cap (1 .. m))
    OBVIOUS
  <2>2. QED
    BY <1>1, <2>1
<1>2. SUFFICES ASSUME Bad # {} PROVE FALSE
  OBVIOUS
<1>3. PICK k \in Bad : \A j \in Bad : k <= j
  BY <1>2, LeastNatural
<1>4. k \in Nat
  BY <1>3
<1>5. PICK S \in SUBSET (D \cap (1 .. k)) : ~WellFormed(h[S])
  BY <1>3
<1>6. h[S] = Taken(e, s, h, S)
  BY <1>5 DEF IsFold
<1>7. S # {}
  BY <1>5, <1>6 DEF Taken
<1> DEFINE R == S \ {Max(S)}
<1>8. k - 1 \in Nat /\ R \in SUBSET (D \cap (1 .. (k - 1))) /\ ~(k <= k - 1)
  <2>1. k - 1 \in Nat /\ S \ {Max(S)} \in SUBSET (D \cap (1 .. (k - 1)))
    BY <1>4, <1>5, <1>7, LowerIndices
  <2>2. QED
    BY <1>4, <2>1
<1>9. h[S] = TakeKey(h[R], s[Max(S)])
  BY <1>6, <1>7 DEF Taken
<1>10. ~WellFormed(h[R])
  BY <1>5, <1>9, TakeKeyWellFormed
<1>11. k - 1 \in Bad
  BY <1>8, <1>10
<1> HIDE DEF Bad, R
<1>12. QED
  BY <1>3, <1>8, <1>11

LEMMA FoldWellFormed ==
  ASSUME NEW e, WellFormed(e), NEW s, NEW m \in Nat, DOMAIN s \subseteq 1 .. m
  PROVE  WellFormed(FoldLeft(TakeKey, e, s))
<1> DEFINE D == DOMAIN s
           h == CHOOSE g : IsFold(e, s, D, g)
<1>1. FoldLeft(TakeKey, e, s) = h[D]
  BY Zenon DEF FoldLeft, MapThenFoldSet, Taken, IsFold
<1>2. D \in SUBSET (1 .. m)
  OBVIOUS
<1> HIDE DEF D
<1>3. \E g : IsFold(e, s, D, g)
  BY <1>2, TakenExists
<1>4. IsFold(e, s, D, h)
  BY <1>3
<1> HIDE DEF h
<1>5. WellFormed(h[D])
  BY <1>2, <1>4, TakenWellFormed
<1>6. QED
  BY <1>1, <1>5

-----------------------------------------------------------------------------
(* Every parser makes a well-formed event of a well-formed one.            *)

Finite(pairs) ==
  \A x \in {"json", "kv", "regex"} : \E n \in Nat : DOMAIN pairs[x] \subseteq 1 .. n

LEMMA LinePairs ==
  ASSUME NEW line \in Lines
  PROVE  Finite(line.pairs)
  BY LinesAssumption DEF Finite

(* A line that a listener hears has the pairs of the line that was sent.   *)
LEMMA HeardPairs ==
  ASSUME NEW line \in Lines, NEW heard \in Heard(line)
  PROVE  Finite(heard.pairs)
<1>1. heard.pairs = line.pairs
  BY DEF Heard
<1>2. QED
  BY <1>1, LinePairs

LEMMA KeysWellFormed ==
  ASSUME NEW e, WellFormed(e), NEW line, Finite(line.pairs)
  PROVE  /\ WellFormed(parse_json_into(e, line))
         /\ WellFormed(parse_kv_into(e, line))
         /\ WellFormed(parse_regex_into(e, line))
<1>1. WellFormed(parse_json_into(e, line))
  <2>1. PICK n \in Nat : DOMAIN line.pairs["json"] \subseteq 1 .. n
    BY DEF Finite
  <2>2. QED
    BY <2>1, FoldWellFormed DEF parse_json_into
<1>2. WellFormed(parse_regex_into(e, line))
  <2>1. PICK n \in Nat : DOMAIN line.pairs["regex"] \subseteq 1 .. n
    BY DEF Finite
  <2>2. QED
    BY <2>1, FoldWellFormed DEF parse_regex_into
<1>3. WellFormed(parse_kv_into(e, line))
  <2> DEFINE kv == line.pairs["kv"]
             s == Restrict(kv, {i \in DOMAIN kv : kv[i][1] # ""})
  <2>1. PICK n \in Nat : DOMAIN kv \subseteq 1 .. n
    BY DEF Finite
  <2>2. DOMAIN s \subseteq 1 .. n
    BY <2>1 DEF Restrict
  <2>3. parse_kv_into(e, line) = FoldLeft(TakeKey, e, s)
    BY Zenon DEF parse_kv_into
  <2> HIDE DEF s
  <2>4. WellFormed(FoldLeft(TakeKey, e, s))
    BY <2>2, FoldWellFormed
  <2>5. QED
    BY <2>3, <2>4
<1>4. QED
  BY <1>1, <1>2, <1>3

(* A text in one of the fields that a syslog header sets.                  *)
LEMMA SetStr ==
  ASSUME NEW e, WellFormed(e), NEW s,
         NEW name \in {"timestamp", "hostname", "application", "process_id", "raw_message",
                       "message"}
  PROVE  WellFormed(SetCore(e, name, Str(s)))
  BY StrText, CoreNames, SetCoreWellFormed

LEMMA PriWellFormed ==
  ASSUME NEW e, WellFormed(e), NEW line, NEW p \in parse_pri(e, line)
  PROVE  WellFormed(p.e)
<1>1. PICK n \in 0 .. 191 :
        p = [e |-> SetCore(SetCore(e, "facility", Num(n \div 8)), "severity", Num(n % 8)),
             rest |-> Tail(line.text)]
  BY Zenon DEF parse_pri
<1> DEFINE a == Num(n \div 8)
           b == Num(n % 8)
<1>2. p.e = SetCore(SetCore(e, "facility", a), "severity", b)
  BY <1>1
<1> HIDE DEF a, b
<1>3. WellFormed(SetCore(e, "facility", a))
  BY CoreNames, SetCoreWellFormed
<1>4. WellFormed(SetCore(SetCore(e, "facility", a), "severity", b))
  BY <1>3, CoreNames, SetCoreWellFormed
<1>5. QED
  BY <1>2, <1>4

LEMMA TailWellFormed ==
  ASSUME NEW e, WellFormed(e), NEW tail
  PROVE  WellFormed(TakeTail(e, tail))
<1>1. \A s : WellFormed(SetCore(e, "message", Str(s)))
  BY SetStr
<1>2. \A s, t : WellFormed(SetCore(Insert(e, "structured_data", Str(s)), "message", Str(t)))
  <2>1. \A s : WellFormed(Insert(e, "structured_data", Str(s)))
    BY InsertWellFormed
  <2>2. QED
    BY <2>1, SetStr
<1>3. QED
  BY <1>1, <1>2 DEF TakeTail

LEMMA HeaderWellFormed ==
  ASSUME NEW p, WellFormed(p.e), NEW a \in TakeHeader(p)
  PROVE  WellFormed(a)
<1> DEFINE rest == From(p.rest, 3)
           cuts == SelectSeq([i \in DOMAIN rest |-> i], LAMBDA i : rest[i] = " ")
           Part(k) == SubSeq(rest, IF k = 1 THEN 1 ELSE cuts[k - 1] + 1, cuts[k] - 1)
           Keep(e, name, part) == IF part = <<"-">> THEN e ELSE SetCore(e, name, Str(part))
           Stamped == IF Part(1) \in {<<t>> : t \in Instants}
                      THEN SetCore(p.e, "timestamp", Str(Part(1))) ELSE p.e
           Hosted == Keep(Stamped, "hostname", Part(2))
           Sourced == Keep(Hosted, "application", Part(3))
           Numbered == Keep(Sourced, "process_id", Part(4))
<1>1. a = TakeTail(Numbered, From(rest, cuts[5] + 1))
  BY DEF TakeHeader
<1>2. WellFormed(Stamped)
  BY SetStr
<1> HIDE DEF Stamped, Part
<1>3. WellFormed(Hosted)
  BY <1>2, SetStr
<1> HIDE DEF Hosted
<1>4. WellFormed(Sourced)
  BY <1>3, SetStr
<1> HIDE DEF Sourced
<1>5. WellFormed(Numbered)
  BY <1>4, SetStr
<1> HIDE DEF Numbered
<1>6. QED
  BY <1>1, <1>5, TailWellFormed

LEMMA DateWellFormed ==
  ASSUME NEW p, WellFormed(p.e)
  PROVE  WellFormed(TakeDate(p).e)
<1>1. \A s : WellFormed(SetCore(p.e, "timestamp", Str(s)))
  BY SetStr
<1>2. QED
  BY <1>1 DEF TakeDate

LEMMA HostWellFormed ==
  ASSUME NEW p, WellFormed(p.e)
  PROVE  WellFormed(TakeHost(p).e)
<1>1. \A s : WellFormed(SetCore(p.e, "hostname", Str(s)))
  BY SetStr
<1>2. QED
  BY <1>1 DEF TakeHost

LEMMA TagWellFormed ==
  ASSUME NEW p, WellFormed(p.e)
  PROVE  WellFormed(TakeTag(p))
<1>1. \A s : WellFormed(SetCore(p.e, "application", Str(s)))
  BY SetStr
<1>2. \A s, t : WellFormed(SetCore(SetCore(p.e, "application", Str(s)), "process_id", Str(t)))
  BY <1>1, SetStr
<1>3. \A s : WellFormed(SetCore(p.e, "message", Str(s)))
  BY SetStr
<1>4. \A s, r : WellFormed(SetCore(SetCore(p.e, "application", Str(s)), "message", Str(r)))
  BY <1>1, SetStr
<1>5. \A s, t, r : WellFormed(SetCore(SetCore(SetCore(p.e, "application", Str(s)),
                                              "process_id", Str(t)), "message", Str(r)))
  BY <1>2, SetStr
<1>6. QED
  BY <1>3, <1>4, <1>5 DEF TakeTag

LEMMA SyslogParsersWellFormed ==
  ASSUME NEW e, WellFormed(e), NEW line,
         NEW a \in parse_rfc5424(e, line) \cup parse_rfc3164(e, line)
  PROVE  WellFormed(a)
<1>1. CASE a \in parse_rfc5424(e, line)
  <2>1. PICK p \in parse_pri(e, line) : a \in TakeHeader(p)
    BY <1>1 DEF parse_rfc5424
  <2>2. QED
    BY <2>1, PriWellFormed, HeaderWellFormed
<1>2. CASE a \in parse_rfc3164(e, line)
  <2>1. PICK p \in parse_pri(e, line) : a = TakeTag(TakeHost(TakeDate(p)))
    BY <1>2 DEF parse_rfc3164
  <2>2. WellFormed(TakeDate(p).e)
    BY <2>1, PriWellFormed, DateWellFormed
  <2>3. WellFormed(TakeHost(TakeDate(p)).e)
    BY <2>2, HostWellFormed
  <2>4. QED
    BY <2>1, <2>3, TagWellFormed
<1>3. QED
  BY <1>1, <1>2

LEMMA ParseAnyWellFormed ==
  ASSUME NEW e, WellFormed(e), NEW line, Finite(line.pairs)
  PROVE  WellFormed(ParseAny(e, line))
<1> DEFINE read == IF parse_rfc5424(e, line) # {} THEN parse_rfc5424(e, line)
                   ELSE parse_rfc3164(e, line)
<1>1. \A a \in read : WellFormed(a)
  BY SyslogParsersWellFormed
<1>2. WellFormed(parse_json_into(e, line))
  BY KeysWellFormed
<1>3. WellFormed(Insert(e, "parse_status", Str(<<"unparsed">>)))
  BY InsertWellFormed
<1>4. read # {} => (CHOOSE a \in read : TRUE) \in read
  OBVIOUS
<1>5. read # {} => ParseAny(e, line) = CHOOSE a \in read : TRUE
  BY DEF ParseAny
<1>6. read = {} => ParseAny(e, line) \in {parse_json_into(e, line),
                                        Insert(e, "parse_status", Str(<<"unparsed">>))}
  BY DEF ParseAny
<1> HIDE DEF read
<1>7. QED
  BY <1>1, <1>2, <1>3, <1>4, <1>5, <1>6

LEMMA SyslogWellFormed ==
  ASSUME NEW e, WellFormed(e), NEW line, Finite(line.pairs),
         NEW format \in {"raw", "json", "rfc5424", "rfc3164", "auto"}
  PROVE  WellFormed(parse_syslog_into(e, line, format))
<1>1. WellFormed(parse_json_into(e, line)) /\ WellFormed(ParseAny(e, line))
  BY KeysWellFormed, ParseAnyWellFormed
<1>2. \A a \in parse_rfc5424(e, line) \cup parse_rfc3164(e, line) : WellFormed(a)
  BY SyslogParsersWellFormed
<1> DEFINE First5 == CHOOSE a \in parse_rfc5424(e, line) : TRUE
           First3 == CHOOSE a \in parse_rfc3164(e, line) : TRUE
<1>3. /\ parse_rfc5424(e, line) # {} => WellFormed(First5)
      /\ parse_rfc3164(e, line) # {} => WellFormed(First3)
  BY <1>2
<1>4. CASE format = "rfc5424"
  <2>1. parse_syslog_into(e, line, format) = IF parse_rfc5424(e, line) = {} THEN e ELSE First5
    BY <1>4 DEF parse_syslog_into
  <2>2. QED
    BY <1>3, <2>1
<1>5. CASE format = "rfc3164"
  <2>1. parse_syslog_into(e, line, format) = IF parse_rfc3164(e, line) = {} THEN e ELSE First3
    BY <1>5 DEF parse_syslog_into
  <2>2. QED
    BY <1>3, <2>1
<1>6. CASE format = "raw"
  BY <1>6 DEF parse_syslog_into
<1>7. CASE format = "json"
  BY <1>1, <1>7 DEF parse_syslog_into
<1>8. CASE format = "auto"
  BY <1>1, <1>8 DEF parse_syslog_into
<1>9. QED
  BY <1>4, <1>5, <1>6, <1>7, <1>8

LEMMA OpenedWellFormed ==
  ASSUME NEW line, NEW source_type, NEW keep
  PROVE  WellFormed(Opened(line, source_type, keep))
<1> DEFINE e == New(<<"source">>, <<source_type>>, line.text)
<1>1. WellFormed(e)
  BY CoreNames DEF New, WellFormed, Text, IsStr, Str, Absent, Core, Optional, Always
<1> HIDE DEF e
<1>2. WellFormed(SetCore(e, "raw_message", Str(line.text)))
  BY <1>1, SetStr
<1>3. QED
  BY <1>1, <1>2 DEF Opened, preserve_raw, SetCore, e

(* ... and so do the two kinds of input.                                   *)
LEMMA InputsWellFormed ==
  ASSUME NEW c \in Configs, NEW line, Finite(line.pairs)
  PROVE  /\ \A i \in DOMAIN c.files : WellFormed(Parse(c.files[i].parser, line))
         /\ \A i \in DOMAIN c.syslog : WellFormed(make_event(c.syslog[i], line))
<1>1. ASSUME NEW i \in DOMAIN c.files PROVE WellFormed(Parse(c.files[i].parser, line))
  <2> DEFINE p == c.files[i].parser
             e == Opened(line, "file", p.keep_raw_message)
  <2>1. p.mode \in {"raw", "json", "kv", "regex", "syslog"}
    BY ConfigsAssumption
  <2>2. WellFormed(e)
    BY OpenedWellFormed
  <2>3. /\ WellFormed(parse_json_into(e, line)) /\ WellFormed(parse_kv_into(e, line))
        /\ WellFormed(parse_regex_into(e, line))
        /\ WellFormed(parse_syslog_into(e, line, "auto"))
    BY <2>2, KeysWellFormed, SyslogWellFormed
  <2>4. Parse(p, line) \in {e, parse_json_into(e, line), parse_kv_into(e, line),
                            parse_regex_into(e, line), parse_syslog_into(e, line, "auto")}
    BY <2>1 DEF Parse
  <2> HIDE DEF e, p
  <2>5. WellFormed(Parse(p, line))
    BY <2>2, <2>3, <2>4
  <2>6. QED
    BY <2>5 DEF p
<1>2. ASSUME NEW i \in DOMAIN c.syslog PROVE WellFormed(make_event(c.syslog[i], line))
  <2> DEFINE s == c.syslog[i]
             e == parse_syslog_into(Opened(line, "syslog", s.keep_raw_message), line, s.format)
             hosted == IF e.core["hostname"] = Absent
                       THEN SetCore(e, "hostname", Str(<<"peer">>)) ELSE e
  <2>1. s.format \in {"raw", "json", "rfc5424", "rfc3164", "auto"}
    BY ConfigsAssumption
  <2>2. WellFormed(e)
    BY <2>1, OpenedWellFormed, SyslogWellFormed
  <2>3. make_event(s, line) = Insert(hosted, "remote_addr", Str(<<"peer">>))
    BY DEF make_event
  <2> HIDE DEF e
  <2>4. WellFormed(hosted)
    BY <2>2, SetStr
  <2> HIDE DEF hosted, s
  <2>5. WellFormed(make_event(s, line))
    BY <2>3, <2>4, InsertWellFormed
  <2>6. QED
    BY <2>5 DEF s
<1>3. QED
  BY <1>1, <1>2

-----------------------------------------------------------------------------
(* The transforms and the enrichment keep an event well formed.            *)

LEMMA MaskWellFormed ==
  ASSUME NEW t, NEW e, WellFormed(e)
  PROVE  WellFormed(Mask(t, e))
<1> DEFINE read == IF get_str(e, t.field) # Absent THEN get_str(e, t.field)
                   ELSE value_to_string(get_field(e, t.field))
           masked == IF read = Absent THEN e
                     ELSE set_field(e, t.field, Str(replace_all(t.pattern, read.str, t.by)))
<1>1. Mask(t, e) = MaskRaw(t, masked)
  BY DEF Mask
<1>2. WellFormed(masked)
  BY SetFieldWellFormed
<1> HIDE DEF masked
<1>3. \A s : WellFormed(SetCore(masked, "raw_message", Str(s)))
  BY <1>2, SetStr
<1>4. WellFormed(MaskRaw(t, masked))
  BY <1>2, <1>3 DEF MaskRaw
<1>5. QED
  BY <1>1, <1>4

LEMMA RenameWellFormed ==
  ASSUME NEW t, NEW e, WellFormed(e)
  PROVE  WellFormed(Rename(t, e))
<1>1. WellFormed(remove_field(e, t.field))
  BY RemoveFieldWellFormed
<1>2. \A v : WellFormed(set_field(remove_field(e, t.field), t.to, v))
  BY <1>1, SetFieldWellFormed
<1>3. QED
  BY <1>2 DEF Rename

LEMMA ConvertWellFormed ==
  ASSUME NEW t, NEW e, WellFormed(e)
  PROVE  WellFormed(Convert(t, e))
<1>1. \A v : WellFormed(set_field(e, t.field, v))
  BY SetFieldWellFormed
<1>2. QED
  BY <1>1 DEF Convert

LEMMA AppliedWellFormed ==
  ASSUME NEW t, NEW e, WellFormed(e)
  PROVE  WellFormed(Applied(t, e))
<1>1. /\ WellFormed(set_field(e, t.field, t.value)) /\ WellFormed(remove_field(e, t.field))
      /\ WellFormed(Rename(t, e)) /\ WellFormed(Convert(t, e)) /\ WellFormed(Mask(t, e))
  BY SetFieldWellFormed, RemoveFieldWellFormed, RenameWellFormed, ConvertWellFormed,
     MaskWellFormed
<1>2. Applied(t, e) \in {e, set_field(e, t.field, t.value), remove_field(e, t.field),
                         Rename(t, e), Convert(t, e), Mask(t, e)}
  BY DEF Applied
<1>3. QED
  BY <1>1, <1>2

LEMMA EnrichedWellFormed ==
  ASSUME NEW c \in Configs, NEW e, WellFormed(e)
  PROVE  WellFormed(Enriched(c.enrich, e))
<1> DEFINE hosted == IF e.core["hostname"] = Absent
                     THEN SetCore(e, "hostname", c.enrich.hostname) ELSE e
<1>1. Text(c.enrich.hostname)
  BY ConfigsAssumption DEF Text, Given
<1>2. WellFormed(hosted)
  BY <1>1, CoreNames, SetCoreWellFormed
<1>3. Enriched(c.enrich, e) = [hosted EXCEPT !.fields = @ @@ c.enrich.fields]
  BY DEF Enriched
<1> HIDE DEF hosted
<1>4. QED
  BY <1>2, <1>3, FieldsWellFormed

(* ... so that every event between the stages is well formed.              *)
EInv ==
  /\ cfg \in Configs
  /\ ev = NoEvent \/ WellFormed(ev)
  /\ stage \in {"transforming", "routed"} => WellFormed(ev)

LEMMA StepEInv == EInv /\ [Next]_vars => EInv'
<1> SUFFICES ASSUME EInv, [Next]_vars PROVE EInv'
  OBVIOUS
<1>1. CASE Validate
  BY <1>1 DEF Validate, EInv
<1>2. CASE Build
  BY <1>2 DEF Build, EInv
<1>3. CASE ReadLine
  <2>1. PICK line \in Lines, i \in DOMAIN cfg.files : Becomes(Parse(cfg.files[i].parser, line))
    BY <1>3 DEF ReadLine
  <2>2. WellFormed(Parse(cfg.files[i].parser, line))
    BY LinePairs, InputsWellFormed DEF EInv
  <2>3. QED
    BY <2>1, <2>2 DEF Becomes, EInv
<1>4. CASE ReceiveLine
  <2>1. PICK line \in Lines, i \in DOMAIN cfg.syslog :
               \E heard \in Heard(line) : Becomes(make_event(cfg.syslog[i], heard))
    BY <1>4 DEF ReceiveLine
  <2>2. PICK heard \in Heard(line) : Becomes(make_event(cfg.syslog[i], heard))
    BY <2>1
  <2>3. WellFormed(make_event(cfg.syslog[i], heard))
    BY HeardPairs, InputsWellFormed DEF EInv
  <2>4. QED
    BY <2>2, <2>3 DEF Becomes, EInv
<1>5. CASE Transform
  <2>1. WellFormed(Applied(cfg.transforms[at], ev))
    BY <1>5, AppliedWellFormed DEF Transform, EInv
  <2>2. QED
    BY <1>5, <2>1 DEF Transform, EInv
<1>6. CASE Enrich
  <2>1. WellFormed(Enriched(cfg.enrich, ev))
    BY <1>6, EnrichedWellFormed DEF Enrich, EInv
  <2>2. QED
    BY <1>6, <2>1 DEF Enrich, EInv
<1>7. CASE Send
  BY <1>7 DEF Send, EInv
<1>8. CASE Arrive
  BY <1>8 DEF Arrive, EInv
<1>9. CASE UNCHANGED vars
  BY <1>9 DEF vars, EInv
<1>10. QED
  BY <1>1, <1>2, <1>3, <1>4, <1>5, <1>6, <1>7, <1>8, <1>9 DEF Next

-----------------------------------------------------------------------------
(* On a well-formed event the read in place finds what the copy holds, or  *)
(* nothing.                                                                *)
LEMMA BorrowedIsRead ==
  ASSUME NEW e, NEW name, WellFormed(e), get_str(e, name) # Absent
  PROVE  get_str(e, name) = get_field(e, name) /\ IsStr(get_field(e, name))
<1>1. CASE name \in Optional \cup Always
  BY <1>1, CoreNames DEF get_str, get_field, WellFormed, Text
<1>2. CASE name \notin Optional \cup Always
  BY <1>2 DEF get_str, get_field
<1>3. QED
  BY <1>1, <1>2

LEMMA SameOnWellFormed ==
  ASSUME NEW c \in Conditions, NEW e, WellFormed(e)
  PROVE  eval_condition(c, e) = OwnedAnswer(c, e)
<1> DEFINE a == get_field(e, c.field)
<1>1. c.op \in {"eq", "ne", "contains", "matches", "exists", "not_exists"}
  BY ConditionsAssumption
<1>2. CASE c.op \in {"exists", "not_exists"}
  <2>1. field_present(c, e) <=> a # Absent
    BY BorrowedIsRead DEF field_present
  <2>2. field_present(c, e) = (a # Absent)
    BY <2>1 DEF field_present
  <2>3. CASE c.op = "exists"
    BY <2>2, <2>3 DEF eval_condition, OwnedAnswer
  <2>4. CASE c.op = "not_exists"
    <3>1. eval_condition(c, e) = ~field_present(c, e)
      BY <2>4 DEF eval_condition
    <3>2. OwnedAnswer(c, e) = (a = Absent)
      BY <2>4 DEF OwnedAnswer
    <3>3. QED
      BY <2>1, <3>1, <3>2 DEF field_present
  <2>5. QED
    BY <1>2, <2>3, <2>4
<1>3. CASE c.op \in {"eq", "ne", "contains", "matches"} /\ get_str(e, c.field) = Absent
  BY <1>3 DEF eval_condition, OwnedAnswer
<1>4. CASE c.op \in {"eq", "ne", "contains", "matches"} /\ get_str(e, c.field) # Absent
  <2>1. get_str(e, c.field) = a /\ IsStr(a)
    BY <1>4, BorrowedIsRead
  <2>2. eval_condition(c, e) = eval_str_op(c, a) /\ OwnedAnswer(c, e) = eval_value_op(c, e)
    BY <1>4, <2>1 DEF eval_condition, OwnedAnswer
  <2>3. value_to_string(a) = a /\ a # Absent
    BY <2>1 DEF value_to_string, IsStr, Absent
  <2>4. value_to_string(Absent) = Absent
    BY DEF value_to_string, Absent, IsStr, IsNum
  <2>5. CASE c.op = "eq"
    <3>1. eval_str_op(c, a) = (value_to_string(c.value) = a)
      BY <2>5 DEF eval_str_op
    <3>2. eval_value_op(c, e) = (a # Absent /\ c.value # Absent /\ values_eq(a, c.value))
      BY <2>5 DEF eval_value_op
    <3>3. QED
      BY <2>2, <2>3, <2>4, <3>1, <3>2 DEF values_eq
  <2>6. CASE c.op = "ne"
    <3>1. eval_str_op(c, a) = (c.value # Absent /\ value_to_string(c.value) # a)
      BY <2>6 DEF eval_str_op
    <3>2. eval_value_op(c, e) = (c.value # Absent /\ (a = Absent \/ ~values_eq(a, c.value)))
      BY <2>6 DEF eval_value_op
    <3>3. QED
      BY <2>2, <2>3, <2>4, <3>1, <3>2 DEF values_eq
  <2>7. CASE c.op = "contains"
    BY <2>2, <2>3, <2>7 DEF eval_str_op, eval_value_op
  <2>8. CASE c.op = "matches"
    BY <2>2, <2>3, <2>8 DEF eval_str_op, eval_value_op
  <2>9. QED
    BY <1>4, <2>5, <2>6, <2>7, <2>8
<1>5. QED
  BY <1>1, <1>2, <1>3, <1>4

(* The fast path of eval_condition, which reads a field in place, answers  *)
(* as the path that copies the value does, for every event that any        *)
(* configuration's parsers, transforms and enrichment make of any line.    *)
THEOREM PathsAgree == Spec => []SameAnswer
<1>1. Init => EInv
  BY DEF Init, EInv
<1>2. EInv => SameAnswer
  BY SameOnWellFormed DEF EInv, SameAnswer
<1>3. QED
  BY <1>1, <1>2, StepEInv, PTL DEF Spec
=============================================================================
