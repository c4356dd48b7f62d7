------------------------------- MODULE Event -------------------------------
(***************************************************************************)
(* An event's fields and the conditions on them (src/event.rs and          *)
(* src/pipeline/condition.rs), as operators.                               *)
(*                                                                         *)
(* A string is a sequence of atoms: a character the code looks for, or a   *)
(* word it never looks into.  A value is a record with one field, named    *)
(* for its type; arrays and objects are left out.  A pattern is a string   *)
(* whose atoms are the ones it matches, and "(" makes it invalid.          *)
(***************************************************************************)
EXTENDS Naturals, Sequences, Functions

Str(s) == [str |-> s]
Num(n) == [num |-> n]
Bool(b) == [bool |-> b]
Null == [null |-> TRUE]
Absent == [absent |-> TRUE]
IsStr(v) == "str" \in DOMAIN v
IsNum(v) == "num" \in DOMAIN v

Digits == <<"0", "1", "2", "3", "4", "5", "6", "7", "8", "9">>
NumberOf(s) == {n \in 0..9 : s = <<Digits[n + 1]>>}
Instants == {"t0", "t1", "t2"}
Severities == [error |-> 3, warn |-> 4, info |-> 6]

Compiles(pattern) == "(" \notin Range(pattern)
Matches(pattern, s) == Range(pattern) \cap Range(s) # {}
replace_all(pattern, s, by) ==
  [i \in DOMAIN s |-> IF s[i] \in Range(pattern) THEN by ELSE s[i]]
Occurs(b, a) == \E i \in 0..(Len(a) - Len(b)) : SubSeq(a, i + 1, i + Len(b)) = b

-----------------------------------------------------------------------------
(* The core fields, by how get_field, get_str and set_field treat them *)

Optional == {"hostname", "application", "process_id", "raw_message"}
Always == {"source", "source_type", "message"}
Levels == {"severity", "facility"}
Stamps == {"timestamp", "received_at", "collector_version"}
Core == Optional \cup Always \cup Levels \cup Stamps

New(source, source_type, raw) ==
  [core |-> [n \in Core |->
      CASE n = "message" -> Str(raw)
        [] n = "source" -> Str(source)
        [] n = "source_type" -> Str(source_type)
        [] n = "collector_version" -> Str(<<"version">>)
        [] n \in {"timestamp", "received_at"} -> Str(<<"t0">>)
        [] OTHER -> Absent],
   fields |-> <<>>]

preserve_raw(e, raw) ==
  IF e.core["raw_message"] = Absent
  THEN [e EXCEPT !.core["raw_message"] = Str(raw)] ELSE e

InField(e, name) == IF name \in DOMAIN e.fields THEN e.fields[name] ELSE Absent

get_field(e, name) == IF name \in Core THEN e.core[name] ELSE InField(e, name)

(* Variant: the borrowing read forgets the names that have priority. *)
BorrowedAnywhere(e, name) ==
  IF name \in Optional \cup Always THEN e.core[name]
  ELSE IF IsStr(InField(e, name)) THEN InField(e, name) ELSE Absent

get_str(e, name) ==
  IF name \in Optional \cup Always THEN e.core[name]
  ELSE IF name \notin Core /\ IsStr(InField(e, name)) THEN InField(e, name)
  ELSE Absent

value_to_string(v) ==
  IF IsStr(v) THEN v ELSE
  CASE IsNum(v) -> Str(<<Digits[v.num + 1]>>)
    [] "bool" \in DOMAIN v -> Str(<<IF v.bool THEN "true" ELSE "false">>)
    [] OTHER -> Absent

severity_from_name(s) == {Severities[w] : w \in {w \in DOMAIN Severities : s = <<w>>}}

(* A number, or the number a string spells, or the one its name stands for *)
value_to_u8(v) ==
  LET found == IF IsNum(v) THEN {v.num}
               ELSE IF IsStr(v) THEN NumberOf(v.str) \cup severity_from_name(v.str)
               ELSE {}
  IN IF found = {} THEN Absent ELSE Num(CHOOSE n \in found : TRUE)

Insert(e, name, v) ==
  [e EXCEPT !.fields = [n \in DOMAIN e.fields \cup {name} |->
                          IF n = name THEN v ELSE e.fields[n]]]

set_field(e, name, v) ==
  LET s == value_to_string(v) IN
  CASE name \in Optional -> [e EXCEPT !.core[name] = s]
    [] name \in Always -> IF s = Absent THEN e ELSE [e EXCEPT !.core[name] = s]
    [] name \in Levels -> [e EXCEPT !.core[name] = value_to_u8(v)]
    [] name = "timestamp" ->
         IF s # Absent /\ s.str \in {<<t>> : t \in Instants}
         THEN [e EXCEPT !.core[name] = s] ELSE e
    [] OTHER -> Insert(e, name, v)

remove_field(e, name) ==
  IF name \in Optional \cup Levels THEN [e EXCEPT !.core[name] = Absent]
  ELSE [e EXCEPT !.fields = [n \in DOMAIN e.fields \ {name} |-> e.fields[n]]]

-----------------------------------------------------------------------------
(* Conditions: [field, op, value], where value may be Absent *)

CanCompile(c) == c.op = "matches" /\ IsStr(c.value) => Compiles(c.value.str)
HasRegex(c) == c.op = "matches" /\ IsStr(c.value)

values_eq(a, b) ==
  \/ a = b
  \/ value_to_string(a) # Absent /\ value_to_string(a) = value_to_string(b)

value_to_f64(v) == IF IsNum(v) THEN {v.num} ELSE IF IsStr(v) THEN NumberOf(v.str) ELSE {}

field_present(c, e) == get_str(e, c.field) # Absent \/ get_field(e, c.field) # Absent

(* The fast path, for a field a is borrowed from *)
eval_str_op(c, a) ==
  LET b == value_to_string(c.value) IN
  CASE c.op = "contains" -> b # Absent /\ Occurs(b.str, a.str)
    [] c.op = "eq" -> b = a
    [] c.op = "ne" -> c.value # Absent /\ b # a
    [] c.op = "matches" -> HasRegex(c) /\ Matches(c.value.str, a.str)

(* The path that clones the value: what the fast path is to agree with *)
eval_value_op(c, e) ==
  LET a == get_field(e, c.field)
      s == value_to_string(a)
      b == value_to_string(c.value)
  IN CASE c.op = "eq" -> a # Absent /\ c.value # Absent /\ values_eq(a, c.value)
       [] c.op = "ne" -> c.value # Absent /\ (a = Absent \/ ~values_eq(a, c.value))
       [] c.op = "contains" -> s # Absent /\ b # Absent /\ Occurs(b.str, s.str)
       [] c.op = "matches" -> s # Absent /\ HasRegex(c) /\ Matches(c.value.str, s.str)

eval_condition(c, e) ==
  CASE c.op = "exists" -> field_present(c, e)
    [] c.op = "not_exists" -> ~field_present(c, e)
    [] c.op \in {"eq", "ne", "contains", "matches"} ->
         IF get_str(e, c.field) # Absent THEN eval_str_op(c, get_str(e, c.field))
         ELSE eval_value_op(c, e)
    [] c.op = "gt" -> \E x \in value_to_f64(get_field(e, c.field)),
                         y \in value_to_f64(c.value) : x > y
    [] c.op = "lt" -> \E x \in value_to_f64(get_field(e, c.field)),
                         y \in value_to_f64(c.value) : x < y
    [] OTHER -> FALSE
=============================================================================
