------------------------ MODULE MCGroupPolicyStore ------------------------
(* An instance of GroupPolicyStore for TLC.                                *)
EXTENDS GroupPolicyStore

\* "a long" stands for a name whose first 32 characters are "a".
MCNames == {"a", "b", "c", "a long"}
MCCut == [g \in MCNames |-> IF g = "a long" THEN "a" ELSE g]
MCLimits == {[cpu_max_pct |-> 1]}
=============================================================================
