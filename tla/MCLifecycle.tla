---------------------------- MODULE MCLifecycle ----------------------------
(***************************************************************************)
(* Lifecycle for TLC: a configuration that binds the port, one that binds  *)
(* none, one that cannot be started and one that does not parse.           *)
(***************************************************************************)
EXTENDS Lifecycle, TLC

CONSTANTS Serving, Plain, Unstartable, Broken, c1, c2

MCConfigs == {Serving, Plain, Unstartable, Broken}
MCValid == {Serving, Plain, Unstartable}
MCStartable == {Serving, Plain}
MCBinding == {Serving}
MCClients == {c1, c2}
Symmetry == Permutations(MCClients)
=============================================================================
