----------------------------- MODULE StateFile -----------------------------
(***************************************************************************)
(* What the state manager keeps (src/state.rs, struct StateFile): the read *)
(* offsets of files, the inputs that have run, the resume tokens of        *)
(* others.  Each operator is the effect of one method under the mutex.     *)
(***************************************************************************)
EXTENDS Naturals

CONSTANTS
  Keys,            (* "<input id>|<file identity>"                         *)
  Hashes,          (* first-line hashes                                    *)
  Inputs,          (* input ids                                            *)
  CheckpointKeys, Tokens,  (* resume tokens and their keys                 *)
  None,            (* Option::None                                         *)
  Minute,          (* an unchanged cursor is touched once in this time     *)
  Retention        (* agent.state_retention_hours                          *)

FileCursor == [offset : Nat, hash : Hashes \cup {None}, touched : Nat]

ASSUME NoneAssumption == None \notin FileCursor \cup Tokens \cup Nat
ASSUME TimeAssumption == Minute \in Nat \ {0} /\ Retention \in Nat

StateFile ==
  [files : [Keys -> FileCursor \cup {None}],
   known_inputs : SUBSET Inputs,
   checkpoints : [CheckpointKeys -> Tokens \cup {None}]]

Default ==
  [files |-> [k \in Keys |-> None],
   known_inputs |-> {},
   checkpoints |-> [k \in CheckpointKeys |-> None]]

Cursor(offset, hash, now) == [offset |-> offset, hash |-> hash, touched |-> now]

(* Variant: an unchanged cursor is never touched again.                    *)
ThrottledForEver(c, offset, hash, now) ==
  c # None /\ c.offset = offset /\ c.hash = hash

(* set_cursor leaves an unchanged cursor alone until a minute has passed.  *)
Throttled(c, offset, hash, now) ==
  c # None /\ c.offset = offset /\ c.hash = hash /\ now < c.touched + Minute

WithCursor(st, k, offset, hash, now) ==
  IF Throttled(st.files[k], offset, hash, now) THEN st
  ELSE [st EXCEPT !.files[k] = Cursor(offset, hash, now)]

WithCheckpoint(st, k, value) == [st EXCEPT !.checkpoints[k] = value]

WithKnownInput(st, i) == [st EXCEPT !.known_inputs = @ \cup {i}]

Retained(c, now) == c # None /\ c.touched + Retention >= now

Pruned(st, now) ==
  [st EXCEPT !.files = [k \in Keys |-> IF Retained(st.files[k], now)
                                       THEN st.files[k] ELSE None]]
=============================================================================
