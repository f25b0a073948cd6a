------------------------- MODULE MCPolicyRegistrar --------------------------
(* PolicyRegistrar during a rolling deployment: the old and the new instance *)
(* have different schema versions of the same policies; the new one's        *)
(* directory also has a file that does not parse, policy.default and a        *)
(* second file of one policy.                                                *)
EXTENDS PolicyRegistrar

CONSTANTS old, new, fraud, lending

File(id, version) == [id |-> id, version |-> version]

MCInstances == {old, new}
MCIds == {fraud, lending}
MCFiles == [i \in MCInstances |->
  IF i = old THEN <<File(fraud, 2), File(lending, 2)>>
             ELSE <<File(fraud, 2), File(ReservedPolicy, 2), File(lending, 3),
                    File(Unreadable, 2), File(fraud, 3)>>]
=============================================================================
