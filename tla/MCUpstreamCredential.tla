------------------------- MODULE MCUpstreamCredential -------------------------
(* A small instance of one upstream credential.                             *)
EXTENDS UpstreamCredential, TLC

CallerSymmetry == Permutations(Callers)
=============================================================================
