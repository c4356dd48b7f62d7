---------------------------- MODULE MCEventLog ----------------------------
(***************************************************************************)
(* EventLog for TLC: batches of two, so that a batch can be short, full    *)
(* and cut off in the middle, and a backoff that reaches its cap at the    *)
(* second failure.                                                         *)
(***************************************************************************)
EXTENDS EventLog
=============================================================================
