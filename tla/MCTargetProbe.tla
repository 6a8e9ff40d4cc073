---------------------------- MODULE MCTargetProbe ----------------------------
(* A target that is bound anew, leaves the plan and comes back.              *)
EXTENDS TargetProbe

Rebound == <<"b1", None, "b2">>
==============================================================================
