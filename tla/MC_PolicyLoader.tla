--------------------------- MODULE MC_PolicyLoader ---------------------------
(* Two systems and two key references; the second policy swaps them, the     *)
(* third drops a system.                                                     *)
EXTENDS PolicyLoader

CONSTANTS s1, s2, r1, r2

Conf(s, r) == [system |-> s, ref |-> r]

MCPolicies == {<<Conf(s1, r1), Conf(s2, r2)>>, <<Conf(s2, r1), Conf(s1, r2)>>, <<Conf(s1, r2)>>}
=============================================================================
