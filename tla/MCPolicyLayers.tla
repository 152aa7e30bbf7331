--------------------------- MODULE MCPolicyLayers ---------------------------
(* PolicyLayers on a project two directories below the root, with policies *)
(* that differ from a silent one in one or two rules.                      *)
EXTENDS PolicyLayers

CONSTANTS a, b

\* A policy that constrains nothing beyond the baseline.
Silent ==
    [f \in Rules |->
        CASE f \in Allowlists \cup Unions -> {}
          [] f \in Flags -> ~Loose(f)
          [] f = "network.mode" -> "deny"
          [] OTHER -> Null]

MCPolicies ==
    {Silent,
     [Silent EXCEPT !["allowedConnectors"] = {a, b}],
     [Silent EXCEPT !["allowedConnectors"] = {a}, !["maxBundleKilobytes"] = 1],
     [Silent EXCEPT !["deniedConnectors"] = {a}, !["requiredApprovals"] = {b}],
     [Silent EXCEPT !["filesystem.write"] = {a}, !["maxBundleKilobytes"] = 2],
     [Silent EXCEPT !["filesystem.write"] = {b}, !["deniedConnectors"] = {b}],
     [Silent EXCEPT !["allowExperimental"] = TRUE],
     [Silent EXCEPT !["network.allowedHosts"] = {a}],
     [Silent EXCEPT !["network.mode"] = "allowlist", !["network.allowedHosts"] = {a}]}

\* Any policy in the project root and its parent; the root directory holds
\* at most one that denies, or two files.
MCTrees ==
    {tree \in [0..2 -> MCPolicies \cup {NoPolicy, Ambiguous, Invalid}] :
        tree[0] \in {NoPolicy, Ambiguous, Silent}}
=============================================================================
