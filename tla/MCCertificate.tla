--------------------------- MODULE MCCertificate ---------------------------
(* Model-checking instance of Certificate: the opaque payload values are   *)
(* model values, so permuting each set of them is a symmetry.              *)
EXTENDS Certificate, TLC

CONSTANTS n1, n2, b1, b2, p1, p2

MCNameValues == {n1, n2}
MCKeyUsageBits == {b1, b2}
MCPolicyIds == {p1, p2}

MCSymmetry == Permutations(MCNameValues) \cup Permutations(MCKeyUsageBits)
                \cup Permutations(MCPolicyIds)
=============================================================================
