------------------------------ MODULE MCRouter ------------------------------
(* Router on small instances: the values its configurations use. *)
EXTENDS Router, TLC

CONSTANTS r1, r2, p1, p2

TwoRuns == {r1, r2}
OnlyR1 == {r1}
TwoProviders == {p1, p2}
OnlyP1 == {p1}
BothThenOne == r1 :> {p1, p2} @@ r2 :> {p1}
OneEach == [r \in TwoRuns |-> {p1}]
EitherMode == [r \in TwoRuns |-> BOOLEAN]
SecondSkips == r1 :> BOOLEAN @@ r2 :> {TRUE}
=============================================================================
