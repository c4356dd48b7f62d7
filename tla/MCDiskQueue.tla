---------------------------- MODULE MCDiskQueue ----------------------------
(***************************************************************************)
(* DiskQueue for TLC.  Sizes are in units of the shortest record;          *)
(* MCDiskQueue*.cfg give the constants.                                    *)
(***************************************************************************)
EXTENDS DiskQueue

=============================================================================
