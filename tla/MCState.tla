------------------------------ MODULE MCState ------------------------------
(***************************************************************************)
(* State for TLC: one file, one input, one checkpoint.  The throttle and   *)
(* the retention are two ticks each, so that a cursor can be left alone by *)
(* set_cursor, be touched, and expire, within the clock's bound.           *)
(***************************************************************************)
EXTENDS State
=============================================================================
