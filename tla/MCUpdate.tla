------------------------------ MODULE MCUpdate ------------------------------
(***************************************************************************)
(* Update for TLC: the build installed by hand, a good release, a release  *)
(* that never becomes healthy, a second issue of its version that is       *)
(* unsteady, and an expired, a forged, a damaged and an unfit release.     *)
(***************************************************************************)
EXTENDS Update

Sound == [version |-> 1, serial |-> 0, min_from |-> 0, expired |-> FALSE,
          authentic |-> TRUE, intact |-> TRUE, starts |-> TRUE, health |-> "good"]

MCInstalled == Sound

MCReleases ==
  {MCInstalled,
   [Sound EXCEPT !.version = 2, !.serial = 1],
   [Sound EXCEPT !.version = 3, !.serial = 2, !.health = "bad"],
   [Sound EXCEPT !.version = 3, !.serial = 3, !.health = "unsteady", !.min_from = 2],
   [Sound EXCEPT !.version = 3, !.serial = 4, !.expired = TRUE],
   [Sound EXCEPT !.version = 3, !.serial = 4, !.authentic = FALSE],
   [Sound EXCEPT !.version = 3, !.serial = 4, !.intact = FALSE],
   [Sound EXCEPT !.version = 3, !.serial = 4, !.starts = FALSE]}
=============================================================================
