---------------------------- MODULE MCStrictLease ----------------------------
(* A small instance of the strict leases: requests are interchangeable.     *)
EXTENDS StrictLease, TLC

RequestSymmetry == Permutations(Requests)
=============================================================================
