------------------------- MODULE MCPolicyActivation -------------------------
(* A small instance of PolicyActivation.                                    *)
EXTENDS PolicyActivation
=============================================================================
