--------------------------- MODULE MCTargetCircuit ---------------------------
(* Targets of an endpoint domain and a deployment domain each.              *)
EXTENDS TargetCircuit, TLC

CONSTANTS e1, e2, d1, d2, d3

\* l and n share an endpoint; together the targets need more than every table holds.
ManyTargets == "l" :> <<e1, d1>> @@ "m" :> <<e2, d2>> @@ "n" :> <<e1, d3>>

OwnId == [d \in Domains |-> d]
Kinds == [d \in Domains |-> IF d \in {e1, e2} THEN "endpoint" ELSE "deployment"]

AttemptSymmetry == Permutations(Attempts)
=============================================================================
