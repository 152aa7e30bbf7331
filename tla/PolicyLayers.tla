---------------------------- MODULE PolicyLayers ----------------------------
(***************************************************************************)
(* The policy resolver (packages/config/src/policy.ts) with the discovery  *)
(* of its file layers (configuration.ts, discovery.ts).                    *)
(*                                                                         *)
(* A resolution takes an organization and a run policy from its caller,    *)
(* finds a workspace policy by walking up from the project's parent        *)
(* directory and a project policy in the project root, and folds the       *)
(* layers, in the order organization, workspace, project, run, over a      *)
(* built-in baseline.  A layer may only restrict what it inherits: one     *)
(* that loosens it ends the resolution with an error.                      *)
(*                                                                         *)
(* Directories are the ancestors of one path and are named by their depth; *)
(* 0 is the root of the file system.  A policy is the function of its      *)
(* rules, a list of which is the set of its members: the code sorts lists  *)
(* and drops duplicates.  Policy ids and digests are left out.             *)
(***************************************************************************)
EXTENDS Integers, Sequences, SequencesExt

CONSTANTS
    Policies,           \* the policy documents a layer may hold
    ProjectDepth,       \* the depth of the project root
    Trees,              \* what the directories hold, see Files
    Null,               \* an unset value
    NoPolicy,           \* a directory or a caller without a policy
    Ambiguous,          \* both policy.yaml and policy.json
    Invalid             \* a policy file that fails its contract

Allowlists ==
    {"allowedConnectors", "allowedLicenses", "network.allowedHosts",
     "filesystem.read", "filesystem.write"}
Unions == {"deniedConnectors", "requiredApprovals"}
Flags ==
    {"allowExperimental", "allowPaidServices", "allowRemoteProjectContent",
     "requireReducedMotion"}
Rules == Allowlists \cup Unions \cup Flags \cup {"network.mode", "maxBundleKilobytes"}

\* The value of a flag that loosens it.
Loose(f) == f # "requireReducedMotion"

Rank == [unrestricted |-> 0, allowlist |-> 1, deny |-> 2]

Depths == 0..ProjectDepth
Files == Policies \cup {NoPolicy, Ambiguous, Invalid}
Scopes == {"organization", "workspace", "project", "run"}

IsPolicy(p) ==
    /\ DOMAIN p = Rules
    /\ \A f \in Allowlists : p[f] # Null
    /\ \A f \in Flags : p[f] \in BOOLEAN
    /\ p["network.mode"] \in DOMAIN Rank
    /\ p["maxBundleKilobytes"] \in Nat \cup {Null}

ASSUME PoliciesAssumption == \A p \in Policies : IsPolicy(p)
ASSUME DepthAssumption == ProjectDepth \in Nat
ASSUME TreesAssumption == Trees \subseteq [Depths -> Files]
ASSUME NullAssumption == Null \notin Nat
ASSUME MarksAssumption == {NoPolicy, Ambiguous, Invalid} \cap Policies = {}

VARIABLES
    given,      \* the caller's input and the directories
    pc,         \* the step of the resolution
    dir,        \* the directory the walk is in
    layers,     \* the layers above the built-in one, lowest first
    folded,     \* how many of them are folded
    state,      \* FoldState
    decisions,  \* the recorded decisions
    outcome     \* the resolved rules, or the error

vars == <<given, pc, dir, layers, folded, state, decisions, outcome>>

-----------------------------------------------------------------------------
(* Folding one layer *)

Baseline ==
    [f \in Rules |->
        CASE f \in Allowlists -> Null
          [] f \in Unions -> {}
          [] f \in Flags -> ~Loose(f)
          [] f = "network.mode" -> "deny"
          [] OTHER -> Null]

\* The rules in the order the fold visits them, without the denied
\* connectors, which it joins after the allowed ones and never records.
FoldOrder ==
    <<"allowedConnectors", "allowedLicenses", "allowExperimental",
      "allowPaidServices", "allowRemoteProjectContent", "network.mode",
      "network.allowedHosts", "filesystem.read", "filesystem.write",
      "maxBundleKilobytes", "requiredApprovals", "requireReducedMotion">>

\* foldAllowlist: an empty list is no constraint.
Widens(f, s, r) == r[f] # {} /\ s[f] # Null /\ ~(r[f] \subseteq s[f])

\* Mutant: a lower layer's denials are not looked at.
WeakensIgnoringDenied(f, s, r) ==
    \/ f \in Allowlists /\ Widens(f, s, r)
    \/ f \in Flags /\ r[f] # s[f] /\ r[f] = Loose(f)
    \/ f = "network.mode" /\ Rank[r[f]] < Rank[s[f]]
    \/ f = "maxBundleKilobytes" /\ r[f] # s[f] /\ s[f] # Null
                                /\ (r[f] = Null \/ r[f] > s[f])

Weakens(f, s, r) ==
    \/ f \in Allowlists /\ Widens(f, s, r)
    \/ f = "allowedConnectors" /\ r[f] \cap s["deniedConnectors"] # {}
    \/ f \in Flags /\ r[f] # s[f] /\ r[f] = Loose(f)
    \/ f = "network.mode" /\ Rank[r[f]] < Rank[s[f]]
    \/ f = "maxBundleKilobytes" /\ r[f] # s[f] /\ s[f] # Null
                                /\ (r[f] = Null \/ r[f] > s[f])

StrayHosts(f, r) ==
    f = "network.allowedHosts" /\ r[f] # {} /\ r["network.mode"] # "allowlist"

Throws(f, s, r) == Weakens(f, s, r) \/ StrayHosts(f, r)

Fold(s, r) ==
    [f \in Rules |->
        CASE f \in Allowlists -> IF r[f] = {} THEN s[f] ELSE r[f]
          [] f \in Unions -> s[f] \cup r[f]
          [] OTHER -> r[f]]

Decision(f, value, reason, scope) ==
    [field |-> f, value |-> value, reasonCode |-> reason, layer |-> scope]

\* What folding r over s records, rule by rule: those that it changes.
Recorded(s, r, scope) ==
    LET upTo[i \in 0..Len(FoldOrder)] ==
            IF i = 0 THEN <<>>
            ELSE LET f == FoldOrder[i] IN
                 IF Fold(s, r)[f] = s[f] THEN upTo[i - 1]
                 ELSE Append(upTo[i - 1],
                             Decision(f, Fold(s, r)[f],
                                      IF f \in Allowlists /\ s[f] = Null
                                      THEN "POLICY_SOURCE" ELSE "POLICY_TIGHTEN", scope))
    IN  upTo[Len(FoldOrder)]

BaselineDecisions ==
    [i \in 1..5 |->
        LET f == <<"allowExperimental", "allowPaidServices",
                   "allowRemoteProjectContent", "requireReducedMotion",
                   "network.mode">>[i]
        IN  Decision(IF f = "network.mode" THEN "networkMode" ELSE f,
                     Baseline[f], "POLICY_SOURCE_BUILTIN", "builtin")]

\* Mutant: what is denied after it was allowed stays allowed.
ResolvedUnstripped(s) ==
    [f \in Rules |-> IF f \in Allowlists /\ s[f] = Null THEN {} ELSE s[f]]

\* The rules resolved from the final state: the denied connectors are taken
\* out of the allowed ones, and a list that no layer set is empty.
Resolved(s) ==
    [f \in Rules |->
        CASE f = "allowedConnectors" ->
                (IF s[f] = Null THEN {} ELSE s[f]) \ s["deniedConnectors"]
          [] f \in Allowlists \ {"allowedConnectors"} ->
                IF s[f] = Null THEN {} ELSE s[f]
          [] OTHER -> s[f]]

\* Mutant: the removal of denied connectors is not recorded.
StripsUnrecorded(s) == FALSE

Strips(s) == s["allowedConnectors"] # Null
             /\ s["allowedConnectors"] \cap s["deniedConnectors"] # {}

-----------------------------------------------------------------------------
(* The resolution *)

Init ==
    /\ given \in [organization : Policies \cup {NoPolicy},
                  run : Policies \cup {NoPolicy},
                  files : Trees,
                  workspaceRoot : Depths \cup {Null}]
    /\ pc = "walk"
    /\ dir = IF ProjectDepth = 0 THEN 0 ELSE ProjectDepth - 1
    /\ layers = <<>>
    /\ folded = 0
    /\ state = Baseline
    /\ decisions = <<>>
    /\ outcome = Null

Layer(scope, policy) == [scope |-> scope, rules |-> policy]
Optional(scope, policy) ==
    IF policy = NoPolicy THEN <<>> ELSE <<Layer(scope, policy)>>

FailWith(error) ==
    /\ pc' = "failed"
    /\ outcome' = error
    /\ UNCHANGED <<given, dir, layers, folded, state, decisions>>

LoadError(file) ==
    [code |-> IF file = Ambiguous THEN "CONFIG_AMBIGUOUS" ELSE "CONFIG_INVALID"]

\* #findWorkspacePolicyLayer: no policy in this directory, so on to its
\* parent, unless this is the root of the file system or of the workspace.
Walk ==
    /\ pc = "walk"
    /\ given.files[dir] = NoPolicy
    /\ IF dir = 0 \/ dir = given.workspaceRoot
       THEN pc' = "project" /\ UNCHANGED dir
       ELSE dir' = dir - 1 /\ UNCHANGED pc
    /\ UNCHANGED <<given, layers, folded, state, decisions, outcome>>

FindWorkspaceLayer ==
    /\ pc = "walk"
    /\ given.files[dir] \in Policies
    /\ layers' = <<Layer("workspace", given.files[dir])>>
    /\ pc' = "project"
    /\ UNCHANGED <<given, dir, folded, state, decisions, outcome>>

\* #findProjectPolicyLayer, and resolve puts the layers in their order.
LoadProjectLayer ==
    /\ pc = "project"
    /\ given.files[ProjectDepth] \notin {Ambiguous, Invalid}
    /\ layers' = Optional("organization", given.organization) \o layers
                   \o Optional("project", given.files[ProjectDepth])
                   \o Optional("run", given.run)
    /\ decisions' = BaselineDecisions
    /\ pc' = "fold"
    /\ UNCHANGED <<given, dir, folded, state, outcome>>

FailToLoad ==
    \E at \in {IF pc = "walk" THEN dir ELSE ProjectDepth} :
        /\ pc \in {"walk", "project"}
        /\ given.files[at] \in {Ambiguous, Invalid}
        /\ FailWith(LoadError(given.files[at]))

FoldLayer ==
    /\ pc = "fold" /\ folded < Len(layers)
    /\ LET layer == layers[folded + 1] IN
        /\ \A f \in Rules : ~Throws(f, state, layer.rules)
        /\ state' = Fold(state, layer.rules)
        /\ decisions' = decisions \o Recorded(state, layer.rules, layer.scope)
    /\ folded' = folded + 1
    /\ UNCHANGED <<given, pc, dir, layers, outcome>>

\* The first rule that throws names the error.
RefuseLayer ==
    /\ pc = "fold" /\ folded < Len(layers)
    /\ LET layer == layers[folded + 1]
           thrown == {i \in DOMAIN FoldOrder : Throws(FoldOrder[i], state, layer.rules)}
       IN  \E i \in thrown :
            /\ \A j \in thrown : i <= j
            /\ FailWith([code |-> IF StrayHosts(FoldOrder[i], layer.rules)
                                  THEN "POLICY_INVALID" ELSE "POLICY_WEAKENING_DENIED",
                         field |-> FoldOrder[i], layer |-> layer.scope])

Finish ==
    /\ pc = "fold" /\ folded = Len(layers)
    /\ outcome' = Resolved(state)
    /\ decisions' =
        IF Strips(state)
        THEN Append(decisions, Decision("allowedConnectors",
                Resolved(state)["allowedConnectors"], "POLICY_DENY_INHERITED", "run"))
        ELSE decisions
    /\ pc' = "resolved"
    /\ UNCHANGED <<given, dir, layers, folded, state>>

Next ==
    \/ Walk \/ FindWorkspaceLayer \/ LoadProjectLayer \/ FailToLoad
    \/ FoldLayer \/ RefuseLayer \/ Finish

Spec == Init /\ [][Next]_vars

-----------------------------------------------------------------------------
(* Properties *)

\* Values have their types, and the fold is within its layers.
TypeOK ==
    /\ pc \in {"walk", "project", "fold", "resolved", "failed"}
    /\ dir \in Depths
    /\ folded \in 0..Len(layers)
    /\ \A i \in DOMAIN layers :
        layers[i].scope \in Scopes /\ layers[i].rules \in Policies
    /\ DOMAIN state = Rules
    /\ \A f \in Flags : state[f] \in BOOLEAN
    /\ state["network.mode"] \in DOMAIN Rank
    /\ state["maxBundleKilobytes"] \in Nat \cup {Null}
    /\ pc \in {"walk", "project"} => folded = 0
    /\ pc = "resolved" => folded = Len(layers) /\ outcome = Resolved(state)

\* The rules s permit nothing that r does not: each list r gives bounds the
\* one in s, what r denies or asks for is denied or asked for, and no flag,
\* mode or size is looser than in r.
RespectsLayer(s, r) ==
    /\ \A f \in Allowlists : r[f] # {} => s[f] \subseteq r[f]
    /\ \A f \in Unions : r[f] \subseteq s[f]
    /\ \A f \in Flags : r[f] = ~Loose(f) => s[f] = ~Loose(f)
    /\ Rank[r["network.mode"]] <= Rank[s["network.mode"]]
    /\ LET max == "maxBundleKilobytes" IN
        r[max] # Null => s[max] # Null /\ s[max] <= r[max]

\* docs/POLICY-RESOLUTION.md, tighten-only: a resolved policy respects every
\* layer that took part, however many layers were folded after it, and
\* allows no connector that any of them, lower or higher, denies
\* (policy.ts:354-392).
ResolvedRespectsEveryLayer ==
    pc = "resolved" =>
        \A i \in DOMAIN layers :
            /\ RespectsLayer(outcome, layers[i].rules)
            /\ outcome["allowedConnectors"]
                 \cap layers[i].rules["deniedConnectors"] = {}

\* Two policies that cannot be layered, low below high.
Conflict(low, high) ==
    \/ \E f \in Allowlists : low[f] # {} /\ ~(high[f] \subseteq low[f])
    \/ high["allowedConnectors"] \cap low["deniedConnectors"] # {}
    \/ LET max == "maxBundleKilobytes" IN
        low[max] # Null /\ (high[max] = Null \/ high[max] > low[max])

\* A policy that no stack accepts: looser than the built-in baseline.
LooserThanBaseline(r) ==
    \/ \E f \in Flags : r[f] = Loose(f)
    \/ r["network.mode"] # "deny"
    \/ r["network.allowedHosts"] # {}

\* One of the first n layers is looser than the baseline, or two of them conflict.
LayersConflict(n) ==
    \/ \E i \in 1..n : LooserThanBaseline(layers[i].rules)
    \/ \E i, j \in 1..n : i < j /\ Conflict(layers[i].rules, layers[j].rules)

\* The fold compares a layer with what it accumulated.  That refuses a stack
\* exactly when one of its layers is looser than the baseline or two of them
\* conflict, be they neighbours or not: nothing is refused without such a
\* pair, and nothing between a pair can hide it (policy.ts:158-219, :354-381).
RefusedIffLayersConflict ==
    /\ pc \in {"fold", "resolved"} => ~LayersConflict(folded)
    /\ pc = "failed" /\ "layer" \in DOMAIN outcome => LayersConflict(folded + 1)

\* The last decision recorded of a rule tells its resolved value, with the
\* removal of denied connectors told after the layers' own decisions
\* (policy.ts:383-400).
LastDecisionTellsValue ==
    pc = "resolved" =>
        \A i \in DOMAIN decisions :
            LET f == decisions[i].field IN
            f \in Rules /\ (\A j \in DOMAIN decisions : j > i => decisions[j].field # f)
                => decisions[i].value = outcome[f]
=============================================================================
