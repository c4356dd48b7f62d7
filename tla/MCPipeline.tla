----------------------------- MODULE MCPipeline -----------------------------
(***************************************************************************)
(* Pipeline for TLC: one input of each kind, a blocking destination and    *)
(* one that sheds, which in one setup stands by for the first.             *)
(***************************************************************************)
EXTENDS Pipeline

CONSTANTS file, windows, A, B, N

MCSenders == {file}
MCBlocking == {windows}
MCEvents == 1..N
MCSize == [e \in MCEvents |-> IF e = 2 THEN 2 ELSE 1]
MCReader == [e \in MCEvents |-> IF e = 2 THEN windows ELSE file]
MCDests == {A, B}
MCOrder == <<A, B>>
Setup(cut, capacity, toA, toB, policy, primary) ==
  [cut |-> cut, capacity |-> capacity,
   when |-> [d \in MCDests |-> IF d = A THEN toA ELSE toB],
   policy |-> [d \in MCDests |-> IF d = A THEN "block" ELSE policy],
   failover_for |-> [d \in MCDests |-> IF d = A THEN None ELSE primary]]
MCSetups ==
  {Setup({}, 2, {1}, MCEvents, "drop_oldest", None),
   Setup({}, 1, MCEvents, {1, 2}, "drop_newest", A),
   Setup({1}, 1, MCEvents, MCEvents, "drop_oldest", None)}
=============================================================================
