------------------------------ MODULE MCIdentity ------------------------------
(***************************************************************************)
(* An installation with one organization, its owner u1 and u2, an admin or *)
(* invited to be an owner, both bound to subjects of the issuer; u3, o2    *)
(* and the subject s3 are new.                                             *)
(***************************************************************************)
EXTENDS Identity, TLC

CONSTANTS u1, u2, u3, o1, o2, s1, s2, s3, i1

Members(role) == [o \in Orgs |-> [u \in Users |->
    CASE o = o1 /\ u = u1 -> "owner" [] o = o1 /\ u = u2 -> role [] OTHER -> "none"]]
MCInstallations == {[members |-> Members("admin"), invited |-> {}],
                    [members |-> Members("none"), invited |-> {<<i1, o1>>}]}
MCUser == [s \in Subjects |-> IF s = s1 THEN u1 ELSE IF s = s2 THEN u2 ELSE None]

Perms == Permutations(Callbacks) \cup Permutations(Requests)
================================================================================
