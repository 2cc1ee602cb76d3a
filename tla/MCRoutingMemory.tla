--------------------------- MODULE MCRoutingMemory --------------------------
(* RoutingMemory on small instances: the values its configurations use. *)
EXTENDS RoutingMemory, TLC

CONSTANTS r1, r2, p1

OneRun == {r1}
TwoRuns == {r1, r2}
OnlyR2 == {r2}
Nobody == {}
OneProvider == {p1}
=============================================================================
