--------------------------- MODULE MCApplyService ---------------------------
(* Instances of ApplyService: a small tree with one directory, d, and the  *)
(* inputs each run calls for.                                              *)
EXTENDS ApplyService, TLC

CONSTANTS d, f, g, new, old

MCPaths == {d, f, g}
MCAncestors == [p \in MCPaths |-> IF p = f THEN {d} ELSE {}]
MCContents == {new, old}
MCRunIdOf == [nonce \in {1, 2, 3} |-> IF nonce = 3 THEN "run_b" ELSE "run_a"]

Create(p) == [operation |-> "create-file", path |-> p, content |-> new]
Replace(p) == [operation |-> "replace-file", path |-> p, content |-> new]
Delete(p) == [operation |-> "delete-file", path |-> p, content |-> new]

Empty == [p \in MCPaths |-> Absent]
Used == [Empty EXCEPT ![g] = old]
AllTrees ==
    {tree \in [MCPaths -> {Absent, Directory, old}] :
        tree[f] # Absent => tree[d] = Directory}

Input(nonce, operations, maxOperations) ==
    [nonce |-> nonce, operations |-> operations, limit |-> maxOperations,
     maxOperations |-> maxOperations, expiresAt |-> 0,
     binds |-> TRUE, permitted |-> TRUE]

\* Two approvals of one nonce, of which one runs out of operations, one whose
\* nonce gives the same run id, and two with another nonce.
RacingInputs ==
    {Input(1, <<Replace(g), Create(f)>>, 4), Input(1, <<Create(f)>>, 2),
     Input(2, <<Create(f)>>, 4),
     [Input(3, <<Delete(g)>>, 4) EXCEPT !.permitted = FALSE, !.expiresAt = 1],
     Input(3, <<Delete(g)>>, 4)}
OldTrees == {Used}

\* Every plan of at most two operations, under three policies.
AllOperations ==
    UNION {{Create(p), Delete(p)} : p \in MCPaths}
AllPlans == {<<>>} \cup {<<a>> : a \in AllOperations}
                   \cup {<<a, b>> : a, b \in AllOperations}
AllInputs == {Input(1, plan, max) : plan \in AllPlans, max \in {1, 3, 6}}

Symmetry ==
    Permutations(Runs) \cup Permutations(SandboxIds) \cup Permutations(Preparations)
=============================================================================
