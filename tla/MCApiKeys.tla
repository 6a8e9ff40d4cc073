-------------------------------- MODULE MCApiKeys --------------------------------
(* Three small policies: a wide one, one that admits members, a narrow one.        *)
EXTENDS ApiKeys, TLC

Sec(on, values, n, days, overlap, budget) ==
    [on |-> on, values |-> values, keys |-> n, days |-> days, overlap |-> overlap, budget |-> budget]
Pol(m, mm, g, gm) ==
    [f \in Families |-> [c \in Classes |-> IF f = "management" THEN (IF c = "standard" THEN m ELSE mm)
                                                               ELSE (IF c = "standard" THEN g ELSE gm)]]
Off == Sec(FALSE, {}, 0, 0, 0, 0)
Wide == Pol(Sec(TRUE, Values, 2, 2, 1, 0), Off, Sec(TRUE, Values, 1, 1, 1, 2), Off)
Open == Pol(Sec(TRUE, Values, 2, 2, 1, 0), Sec(TRUE, {"r"}, 1, 1, 1, 0),
            Sec(TRUE, Values, 2, 2, 1, 1), Sec(TRUE, {"r"}, 1, 1, 1, 1))
Narrow == Pol(Sec(TRUE, {"r"}, 1, 1, 0, 0), Off, Sec(TRUE, {"r"}, 1, 1, 0, 2), Off)
MCPolicies == {Open, Narrow}
Perms == Permutations(Keys)
================================================================================
