------------------------- MODULE PolicyLayersProofs -------------------------
(***************************************************************************)
(* A resolved policy respects every layer it was resolved from, a stack is *)
(* refused exactly when layers of it conflict, and the recorded decisions  *)
(* tell the resolved values, for any policies, any directories and any     *)
(* number of layers.                                                       *)
(*                                                                         *)
(* The invariant of the fold: what is accumulated respects each layer      *)
(* folded so far.  It is kept because a layer that would loosen what is    *)
(* accumulated is refused, so that a step only restricts, and because      *)
(* respecting a layer is transitive along restrictions.  That nothing is   *)
(* refused without a conflict needs the converse: what is accumulated was  *)
(* given by some layer.                                                    *)
(***************************************************************************)
EXTENDS PolicyLayers, WellFoundedInduction, TLAPS

\* The accumulated rules: lists may be unset, the rest is as in a policy.
StateOK(s) ==
    /\ DOMAIN s = Rules
    /\ \A f \in Flags : s[f] \in BOOLEAN
    /\ s["network.mode"] \in DOMAIN Rank
    /\ s["maxBundleKilobytes"] \in Nat \cup {Null}

InputSet ==
    [organization : Policies \cup {NoPolicy}, run : Policies \cup {NoPolicy},
     files : Trees, workspaceRoot : Depths \cup {Null}]

LayerSet == [scope : Scopes, rules : Policies]

ResolutionInv ==
    /\ given \in InputSet
    /\ pc \in {"walk", "project", "fold", "resolved", "failed"}
    /\ dir \in Depths
    /\ layers \in Seq(LayerSet)
    /\ folded \in 0..Len(layers)
    /\ StateOK(state)
    /\ pc \in {"walk", "project"} => folded = 0
    /\ pc = "resolved" => folded = Len(layers) /\ outcome = Resolved(state)

\* The accumulated rules s respect r, and each list r gives is set in s.
Accumulates(s, r) ==
    /\ \A f \in Allowlists : r[f] # {} => s[f] # Null
    /\ RespectsLayer(s, r)

FoldInv == \A i \in 1..folded : Accumulates(state, layers[i].rules)

-----------------------------------------------------------------------------

\* The fold of one layer, rule by rule.
LEMMA FoldByRule ==
    ASSUME NEW s, NEW r
    PROVE  /\ DOMAIN Fold(s, r) = Rules
           /\ \A f \in Allowlists : Fold(s, r)[f] = IF r[f] = {} THEN s[f] ELSE r[f]
           /\ \A f \in Unions : Fold(s, r)[f] = s[f] \cup r[f]
           /\ \A f \in Flags \cup {"network.mode", "maxBundleKilobytes"} :
                Fold(s, r)[f] = r[f]
  BY DEF Fold, Rules, Allowlists, Unions, Flags

\* The resolved rules, rule by rule.
LEMMA ResolvedByRule ==
    ASSUME NEW s
    PROVE  /\ Resolved(s)["allowedConnectors"] =
                (IF s["allowedConnectors"] = Null THEN {} ELSE s["allowedConnectors"])
                    \ s["deniedConnectors"]
           /\ \A f \in Allowlists : s[f] # Null => Resolved(s)[f] \subseteq s[f]
           /\ \A f \in Allowlists \ {"allowedConnectors"} :
                Resolved(s)[f] = IF s[f] = Null THEN {} ELSE s[f]
           /\ \A f \in Rules \ Allowlists : Resolved(s)[f] = s[f]
  BY DEF Resolved, Rules, Allowlists, Unions, Flags

\* A layer that is not refused only restricts the rules it is folded over, so
\* the layers they respected are respected still (policy.ts:158-248).
LEMMA FoldKeepsRespect ==
    ASSUME NEW s, StateOK(s), NEW r, IsPolicy(r),
           \A f \in Rules : ~Throws(f, s, r),
           NEW q, IsPolicy(q), Accumulates(s, q)
    PROVE  Accumulates(Fold(s, r), q)
<1>1. ASSUME NEW f \in Allowlists, q[f] # {}
      PROVE  Fold(s, r)[f] # Null /\ Fold(s, r)[f] \subseteq q[f]
  <2>1. s[f] # Null /\ s[f] \subseteq q[f]
    BY <1>1 DEF Accumulates, RespectsLayer
  <2>2. CASE r[f] = {}
    BY <2>1, <2>2, FoldByRule
  <2>3. CASE r[f] # {}
    <3>1. f \in Rules /\ ~Weakens(f, s, r)
      BY DEF Throws, Rules
    <3>2. r[f] \subseteq s[f]
      BY <2>1, <2>3, <3>1 DEF Weakens, Widens
    <3>3. Fold(s, r)[f] = r[f] /\ r[f] # Null
      BY <2>3, FoldByRule DEF IsPolicy
    <3> QED
      BY <2>1, <3>2, <3>3
  <2> QED
    BY <2>2, <2>3
<1>2. ASSUME NEW f \in Unions
      PROVE  q[f] \subseteq Fold(s, r)[f]
  BY <1>2, FoldByRule DEF Accumulates, RespectsLayer
<1>3. ASSUME NEW f \in Flags, q[f] = ~Loose(f)
      PROVE  Fold(s, r)[f] = ~Loose(f)
  <2>1. s[f] = ~Loose(f)
    BY <1>3 DEF Accumulates, RespectsLayer
  <2>2. f \in Rules /\ ~Weakens(f, s, r)
    BY DEF Throws, Rules
  <2> QED
    BY <2>1, <2>2, FoldByRule DEF Weakens, IsPolicy, Loose
<1>4. Rank[q["network.mode"]] <= Rank[Fold(s, r)["network.mode"]]
  <2>1. Fold(s, r)["network.mode"] = r["network.mode"]
    BY FoldByRule
  <2>2. ~(Rank[r["network.mode"]] < Rank[s["network.mode"]])
    BY DEF Throws, Weakens, Rules
  <2>3. Rank[q["network.mode"]] <= Rank[s["network.mode"]]
    BY DEF Accumulates, RespectsLayer
  <2> QED
    BY <2>1, <2>2, <2>3 DEF IsPolicy, StateOK, Rank
<1>5. q["maxBundleKilobytes"] # Null =>
        /\ Fold(s, r)["maxBundleKilobytes"] # Null
        /\ Fold(s, r)["maxBundleKilobytes"] <= q["maxBundleKilobytes"]
  <2>1. Fold(s, r)["maxBundleKilobytes"] = r["maxBundleKilobytes"]
    BY FoldByRule
  <2>2. ~Weakens("maxBundleKilobytes", s, r)
    BY DEF Throws, Rules
  <2>3. q["maxBundleKilobytes"] # Null =>
            /\ s["maxBundleKilobytes"] # Null
            /\ s["maxBundleKilobytes"] <= q["maxBundleKilobytes"]
    BY DEF Accumulates, RespectsLayer
  <2> QED
    BY <2>1, <2>2, <2>3, NullAssumption DEF Weakens, IsPolicy, StateOK
<1> QED
  BY <1>1, <1>2, <1>3, <1>4, <1>5 DEF Accumulates, RespectsLayer

\* The rules respect the layer that was folded last.
LEMMA FoldRespectsItsLayer ==
    ASSUME NEW s, StateOK(s), NEW r, IsPolicy(r)
    PROVE  Accumulates(Fold(s, r), r)
<1>1. \A f \in Allowlists : r[f] # {} => Fold(s, r)[f] = r[f] /\ r[f] # Null
  BY FoldByRule DEF IsPolicy
<1>2. \A f \in Flags \cup {"network.mode", "maxBundleKilobytes"} : Fold(s, r)[f] = r[f]
  BY FoldByRule
<1>3. \A f \in Unions : r[f] \subseteq Fold(s, r)[f]
  BY FoldByRule
<1> QED
  BY <1>1, <1>2, <1>3 DEF Accumulates, RespectsLayer, IsPolicy, Rank

\* The fold keeps the accumulated rules well typed.
LEMMA FoldKeepsTypes ==
    ASSUME NEW s, NEW r, IsPolicy(r)
    PROVE  StateOK(Fold(s, r))
  BY FoldByRule DEF StateOK, IsPolicy

\* Taking denied connectors out and reading an unset list as empty keeps what
\* the accumulated rules respect.
LEMMA ResolvedKeepsRespect ==
    ASSUME NEW s, NEW q, Accumulates(s, q)
    PROVE  /\ RespectsLayer(Resolved(s), q)
           /\ Resolved(s)["allowedConnectors"] \cap q["deniedConnectors"] = {}
<1>1. \A f \in Allowlists : q[f] # {} => Resolved(s)[f] \subseteq q[f]
  BY ResolvedByRule DEF Accumulates, RespectsLayer
<1>2. \A f \in Unions \cup Flags \cup {"network.mode", "maxBundleKilobytes"} :
        Resolved(s)[f] = s[f]
  BY ResolvedByRule DEF Rules, Allowlists, Unions, Flags
<1>3. RespectsLayer(Resolved(s), q)
  BY <1>1, <1>2 DEF Accumulates, RespectsLayer
<1>4. q["deniedConnectors"] \subseteq s["deniedConnectors"]
  BY DEF Accumulates, RespectsLayer, Unions
<1> QED
  BY <1>3, <1>4, ResolvedByRule

-----------------------------------------------------------------------------

\* A caller's policy or a project's gives at most one layer.
LEMMA OptionalIsLayers ==
    ASSUME NEW scope \in Scopes, NEW p \in Policies \cup {NoPolicy}
    PROVE  Optional(scope, p) \in Seq(LayerSet)
<1>1. CASE p = NoPolicy
  BY <1>1 DEF Optional
<1>2. CASE p # NoPolicy
  <2>1. [scope |-> scope, rules |-> p] \in LayerSet
    BY <1>2 DEF LayerSet
  <2>2. Optional(scope, p) = <<[scope |-> scope, rules |-> p]>>
    BY <1>2 DEF Optional, Layer
  <2> QED
    BY <2>1, <2>2
<1> QED
  BY <1>1, <1>2

\* Each layer has a scope and holds a policy.
LEMMA LayersHoldPolicies ==
    ASSUME NEW ls \in Seq(LayerSet), NEW i \in 1..Len(ls)
    PROVE  ls[i].scope \in Scopes /\ ls[i].rules \in Policies /\ IsPolicy(ls[i].rules)
<1>1. ls[i] \in LayerSet
  OBVIOUS
<1> QED
  BY <1>1, PoliciesAssumption DEF LayerSet

\* The resolution starts with nothing folded.
LEMMA InitResolution == Init => ResolutionInv /\ FoldInv
<1> SUFFICES ASSUME Init PROVE ResolutionInv /\ FoldInv
  OBVIOUS
<1>1. dir \in Depths
  BY DepthAssumption DEF Init, Depths
<1>2. StateOK(state)
  BY DEF Init, StateOK, Baseline, Rules, Allowlists, Unions, Flags, Rank, Loose
<1>3. layers \in Seq(LayerSet) /\ folded \in 0..Len(layers)
  BY DEF Init
<1> QED
  BY <1>1, <1>2, <1>3 DEF Init, ResolutionInv, InputSet, FoldInv

\* Each step of the resolution keeps its types: the walk stays among the
\* directories, and the layers are put in order before the first is folded.
LEMMA NextResolution == ResolutionInv /\ [Next]_vars => ResolutionInv'
<1> SUFFICES ASSUME ResolutionInv, [Next]_vars PROVE ResolutionInv'
  OBVIOUS
<1> USE DEF ResolutionInv
<1>1. CASE Walk
  <2>1. dir' \in Depths
    BY <1>1, DepthAssumption DEF Walk, Depths
  <2> QED
    BY <1>1, <2>1 DEF Walk
<1>2. CASE FindWorkspaceLayer
  <2>1. layers' \in Seq(LayerSet) /\ Len(layers') = 1
    BY <1>2 DEF FindWorkspaceLayer, Layer, Scopes, LayerSet
  <2> QED
    BY <1>2, <2>1 DEF FindWorkspaceLayer
<1>3. CASE LoadProjectLayer
  <2>1. /\ given.organization \in Policies \cup {NoPolicy}
        /\ given.run \in Policies \cup {NoPolicy}
        /\ given.files[ProjectDepth] \in Policies \cup {NoPolicy}
    BY <1>3, DepthAssumption, TreesAssumption
       DEF LoadProjectLayer, InputSet, Depths, Files
  <2>2. /\ Optional("organization", given.organization) \in Seq(LayerSet)
        /\ Optional("project", given.files[ProjectDepth]) \in Seq(LayerSet)
        /\ Optional("run", given.run) \in Seq(LayerSet)
    BY <2>1, OptionalIsLayers DEF Scopes
  <2>3. layers' \in Seq(LayerSet)
    <3> DEFINE above == Optional("organization", given.organization) \o layers
    <3>1. above \in Seq(LayerSet)
      BY <2>2
    <3>2. above \o Optional("project", given.files[ProjectDepth]) \in Seq(LayerSet)
      <4> HIDE DEF above
      <4> QED
        BY <2>2, <3>1
    <3>3. layers' = above \o Optional("project", given.files[ProjectDepth])
                      \o Optional("run", given.run)
      BY <1>3 DEF LoadProjectLayer
    <3> HIDE DEF above
    <3> QED
      BY <2>2, <3>2, <3>3
  <2>4. folded' \in 0..Len(layers')
    BY <1>3, <2>3 DEF LoadProjectLayer
  <2> QED
    BY <1>3, <2>3, <2>4 DEF LoadProjectLayer
<1>4. CASE FailToLoad
  BY <1>4 DEF FailToLoad, FailWith
<1>5. CASE FoldLayer
  <2>1. folded + 1 \in 1..Len(layers)
    BY <1>5 DEF FoldLayer
  <2>2. IsPolicy(layers[folded + 1].rules)
    BY <2>1, LayersHoldPolicies
  <2>3. StateOK(state')
    BY <1>5, <2>2, FoldKeepsTypes DEF FoldLayer
  <2> QED
    BY <1>5, <2>1, <2>3 DEF FoldLayer
<1>6. CASE RefuseLayer
  BY <1>6 DEF RefuseLayer, FailWith
<1>7. CASE Finish
  BY <1>7 DEF Finish
<1>8. CASE UNCHANGED vars
  BY <1>8 DEF vars
<1> QED
  BY <1>1, <1>2, <1>3, <1>4, <1>5, <1>6, <1>7, <1>8 DEF Next

\* Only FoldLayer changes what is accumulated, and it adds its own layer to
\* the ones that are respected.
LEMMA NextFold == ResolutionInv /\ FoldInv /\ [Next]_vars => FoldInv'
<1> SUFFICES ASSUME ResolutionInv, FoldInv, [Next]_vars PROVE FoldInv'
  OBVIOUS
<1>1. CASE FoldLayer
  <2> DEFINE r == layers[folded + 1].rules
  <2>1. folded + 1 \in 1..Len(layers) /\ layers' = layers /\ folded' = folded + 1
    BY <1>1 DEF FoldLayer, ResolutionInv
  <2>2. \A i \in 1..Len(layers) : IsPolicy(layers[i].rules)
    BY LayersHoldPolicies DEF ResolutionInv
  <2>3. state' = Fold(state, r) /\ \A f \in Rules : ~Throws(f, state, r)
    BY <1>1 DEF FoldLayer
  <2>4. StateOK(state) /\ folded \in Nat
    BY DEF ResolutionInv
  <2>5. ASSUME NEW i \in 1..folded
        PROVE  Accumulates(state', layers[i].rules)
    <3>1. IsPolicy(layers[i].rules)
      BY <2>1, <2>2, <2>4
    <3>2. Accumulates(state, layers[i].rules)
      BY DEF FoldInv
    <3> QED
      BY <2>1, <2>2, <2>3, <2>4, <3>1, <3>2, FoldKeepsRespect
  <2>6. Accumulates(state', r)
    BY <2>1, <2>2, <2>3, <2>4, FoldRespectsItsLayer
  <2>7. \A i \in 1..(folded + 1) : i \in 1..folded \/ i = folded + 1
    BY <2>4
  <2> QED
    BY <2>1, <2>5, <2>6, <2>7 DEF FoldInv
<1>2. CASE Walk \/ FindWorkspaceLayer \/ LoadProjectLayer
  <2>1. folded' = 0
    BY <1>2 DEF ResolutionInv, Walk, FindWorkspaceLayer, LoadProjectLayer
  <2> QED
    BY <2>1 DEF FoldInv
<1>3. CASE FailToLoad \/ RefuseLayer \/ Finish \/ UNCHANGED vars
  <2>1. UNCHANGED <<state, layers, folded>>
    BY <1>3 DEF FailToLoad, RefuseLayer, FailWith, Finish, vars
  <2> QED
    BY <2>1 DEF FoldInv
<1> QED
  BY <1>1, <1>2, <1>3 DEF Next

\* The resolution is always in its invariant.
LEMMA ResolutionCorrect == Spec => [](ResolutionInv /\ FoldInv)
<1>1. ResolutionInv /\ FoldInv /\ [Next]_vars => (ResolutionInv /\ FoldInv)'
  BY NextResolution, NextFold
<1> QED
  BY InitResolution, <1>1, PTL DEF Spec

\* Values have their types throughout a resolution, whatever files, policies
\* and directories it is given (policy.ts:276-473, configuration.ts:125-159).
THEOREM ResolutionTyped == Spec => []TypeOK
<1>1. ResolutionInv => TypeOK
  BY LayersHoldPolicies DEF ResolutionInv, TypeOK, StateOK
<1> QED
  BY <1>1, ResolutionCorrect, PTL

\* A resolved policy permits nothing that one of its layers does not permit:
\* the tighten-only rule of docs/POLICY-RESOLUTION.md, for any set of policies
\* (policy.ts:354-425).
THEOREM ResolutionOnlyTightens == Spec => []ResolvedRespectsEveryLayer
<1>1. ResolutionInv /\ FoldInv => ResolvedRespectsEveryLayer
  <2> SUFFICES ASSUME ResolutionInv, FoldInv, pc = "resolved", NEW i \in DOMAIN layers
               PROVE  /\ RespectsLayer(outcome, layers[i].rules)
                      /\ outcome["allowedConnectors"]
                           \cap layers[i].rules["deniedConnectors"] = {}
    BY DEF ResolvedRespectsEveryLayer
  <2>1. i \in 1..folded /\ outcome = Resolved(state)
    BY DEF ResolutionInv
  <2>2. Accumulates(state, layers[i].rules)
    BY <2>1 DEF FoldInv
  <2> QED
    BY <2>1, <2>2, ResolvedKeepsRespect
<1> QED
  BY <1>1, ResolutionCorrect, PTL

-----------------------------------------------------------------------------
(* Which stacks are refused *)

\* What is accumulated was given by a layer folded so far, but for what the
\* baseline gives, and these layers are all in accord.
GatheredInv ==
    /\ \A f \in Allowlists : state[f] # Null =>
          /\ state[f] # {}
          /\ \E i \in 1..folded : layers[i].rules[f] = state[f]
    /\ \A x \in state["deniedConnectors"] :
          \E i \in 1..folded : x \in layers[i].rules["deniedConnectors"]
    /\ \A f \in Flags : state[f] = ~Loose(f)
    /\ state["network.mode"] = "deny"
    /\ state["maxBundleKilobytes"] # Null =>
          \E i \in 1..folded :
              layers[i].rules["maxBundleKilobytes"] = state["maxBundleKilobytes"]
    /\ ~LayersConflict(folded)

\* A resolution that a layer ended met a conflict.
RefusalInv ==
    pc = "failed" /\ "layer" \in DOMAIN outcome => LayersConflict(folded + 1)

\* A rule that throws is one that a layer gives against the baseline or against
\* a layer below it: what is compared was given by some layer.
LEMMA ThrowsConflict ==
    ASSUME ResolutionInv, GatheredInv, folded < Len(layers),
           NEW f \in Rules, Throws(f, state, layers[folded + 1].rules)
    PROVE  LayersConflict(folded + 1)
<1> DEFINE n == folded + 1
           r == layers[n].rules
<1>1. /\ folded \in Nat /\ n \in 1..n /\ n \in 1..Len(layers)
      /\ \A i \in 1..folded : i \in 1..n /\ i < n
  BY DEF ResolutionInv
<1>2. IsPolicy(r)
  BY <1>1, LayersHoldPolicies DEF ResolutionInv
<1>3. LooserThanBaseline(r) => LayersConflict(n)
  BY <1>1 DEF LayersConflict
<1>4. (\E i \in 1..folded : Conflict(layers[i].rules, r)) => LayersConflict(n)
  BY <1>1 DEF LayersConflict
<1>5. CASE StrayHosts(f, r)
  BY <1>3, <1>5 DEF StrayHosts, LooserThanBaseline
<1>6. CASE f \in Allowlists /\ Widens(f, state, r)
  <2>1. PICK i \in 1..folded : layers[i].rules[f] = state[f] /\ state[f] # {}
    BY <1>6 DEF GatheredInv, Widens
  <2>2. Conflict(layers[i].rules, r)
    BY <1>6, <2>1 DEF Conflict, Widens
  <2> QED BY <1>4, <2>2
<1>7. CASE f = "allowedConnectors" /\ r[f] \cap state["deniedConnectors"] # {}
  <2>1. PICK x : x \in r["allowedConnectors"] /\ x \in state["deniedConnectors"]
    BY <1>7
  <2>2. PICK i \in 1..folded : x \in layers[i].rules["deniedConnectors"]
    BY <2>1 DEF GatheredInv
  <2>3. Conflict(layers[i].rules, r)
    BY <2>1, <2>2 DEF Conflict
  <2> QED BY <1>4, <2>3
<1>8. CASE f \in Flags /\ r[f] = Loose(f)
  BY <1>3, <1>8 DEF LooserThanBaseline
<1>9. CASE f = "network.mode" /\ Rank[r[f]] < Rank[state[f]]
  <2>1. r["network.mode"] # "deny"
    BY <1>9 DEF GatheredInv, Rank
  <2> QED BY <1>3, <2>1 DEF LooserThanBaseline
<1>10. CASE /\ f = "maxBundleKilobytes" /\ state[f] # Null
            /\ r[f] = Null \/ r[f] > state[f]
  <2>1. PICK i \in 1..folded : layers[i].rules[f] = state[f]
    BY <1>10 DEF GatheredInv
  <2>2. Conflict(layers[i].rules, r)
    BY <1>10, <2>1 DEF Conflict
  <2> QED BY <1>4, <2>2
<1> QED
  BY <1>5, <1>6, <1>7, <1>8, <1>9, <1>10 DEF Throws, Weakens

\* A layer of which no rule throws conflicts with none below it: what is
\* accumulated is at least as strict as each of them.
LEMMA AcceptedAccords ==
    ASSUME ResolutionInv, FoldInv, GatheredInv, folded < Len(layers),
           \A f \in Rules : ~Throws(f, state, layers[folded + 1].rules)
    PROVE  ~LayersConflict(folded + 1)
<1> DEFINE n == folded + 1
           r == layers[n].rules
<1>1. /\ folded \in Nat /\ n \in 1..Len(layers)
      /\ \A i \in 1..n : i \in 1..folded \/ i = n
      /\ \A i \in 1..folded : i \in 1..Len(layers)
  BY DEF ResolutionInv
<1>2. IsPolicy(r) /\ \A i \in 1..folded : IsPolicy(layers[i].rules)
  BY <1>1, LayersHoldPolicies DEF ResolutionInv
<1>3. ~LooserThanBaseline(r)
  <2>1. ASSUME NEW f \in Flags PROVE r[f] # Loose(f)
    <3>1. ~Weakens(f, state, r)
      BY DEF Throws, Rules
    <3>2. state[f] = ~Loose(f)
      BY DEF GatheredInv
    <3> QED BY <3>1, <3>2, <1>2 DEF Weakens, IsPolicy, Loose
  <2>2. r["network.mode"] = "deny"
    <3>1. ~Weakens("network.mode", state, r)
      BY DEF Throws, Rules
    <3>2. state["network.mode"] = "deny"
      BY DEF GatheredInv
    <3> QED BY <3>1, <3>2, <1>2 DEF Weakens, IsPolicy, Rank
  <2>3. r["network.allowedHosts"] = {}
    <3>1. ~StrayHosts("network.allowedHosts", r)
      BY DEF Throws, Rules, Allowlists
    <3> QED BY <2>2, <3>1 DEF StrayHosts
  <2> QED BY <2>1, <2>2, <2>3 DEF LooserThanBaseline
<1>4. ASSUME NEW i \in 1..folded PROVE ~Conflict(layers[i].rules, r)
  <2> DEFINE q == layers[i].rules
  <2>1. Accumulates(state, q)
    BY DEF FoldInv
  <2>2. ASSUME NEW f \in Allowlists, q[f] # {} PROVE r[f] \subseteq q[f]
    <3>1. state[f] # Null /\ state[f] \subseteq q[f]
      BY <2>1, <2>2 DEF Accumulates, RespectsLayer
    <3>2. ~Weakens(f, state, r)
      BY DEF Throws, Rules
    <3> QED BY <3>1, <3>2 DEF Weakens, Widens
  <2>3. r["allowedConnectors"] \cap q["deniedConnectors"] = {}
    <3>1. ~Weakens("allowedConnectors", state, r)
      BY DEF Throws, Rules, Allowlists
    <3>2. q["deniedConnectors"] \subseteq state["deniedConnectors"]
      BY <2>1 DEF Accumulates, RespectsLayer, Unions
    <3> QED BY <3>1, <3>2 DEF Weakens
  <2>4. q["maxBundleKilobytes"] # Null =>
          /\ r["maxBundleKilobytes"] # Null
          /\ ~(r["maxBundleKilobytes"] > q["maxBundleKilobytes"])
    <3>1. ~Weakens("maxBundleKilobytes", state, r)
      BY DEF Throws, Rules
    <3>2. q["maxBundleKilobytes"] # Null =>
            /\ state["maxBundleKilobytes"] # Null
            /\ state["maxBundleKilobytes"] <= q["maxBundleKilobytes"]
      BY <2>1 DEF Accumulates, RespectsLayer
    <3> QED BY <3>1, <3>2, <1>2, NullAssumption DEF Weakens, IsPolicy, StateOK, ResolutionInv
  <2> QED BY <2>2, <2>3, <2>4 DEF Conflict
<1>5. ~LayersConflict(folded)
  BY DEF GatheredInv
<1> QED BY <1>1, <1>3, <1>4, <1>5 DEF LayersConflict

\* A step of the fold, accepted or refused, keeps account of where the
\* accumulated rules come from.
LEMMA NextGathered ==
    ResolutionInv /\ FoldInv /\ GatheredInv /\ RefusalInv /\ [Next]_vars
        => (GatheredInv /\ RefusalInv)'
<1> SUFFICES ASSUME ResolutionInv, FoldInv, GatheredInv, RefusalInv, [Next]_vars
             PROVE  (GatheredInv /\ RefusalInv)'
  OBVIOUS
<1>1. CASE FoldLayer
  <2> DEFINE n == folded + 1
             r == layers[n].rules
  <2>1. /\ layers' = layers /\ folded' = n /\ pc' = "fold"
        /\ state' = Fold(state, r) /\ folded < Len(layers)
        /\ \A f \in Rules : ~Throws(f, state, r)
    BY <1>1 DEF FoldLayer
  <2>2. /\ folded \in Nat /\ n \in 1..n /\ n \in 1..Len(layers)
        /\ \A i \in 1..folded : i \in 1..n
    BY <2>1 DEF ResolutionInv
  <2>3. IsPolicy(r)
    BY <2>2, LayersHoldPolicies DEF ResolutionInv
  <2>4. ~LayersConflict(n)
    BY <2>1, AcceptedAccords
  <2>5. ~LooserThanBaseline(r)
    BY <2>2, <2>4 DEF LayersConflict
  <2>6. ASSUME NEW f \in Allowlists, state'[f] # Null
        PROVE  state'[f] # {} /\ \E i \in 1..n : layers[i].rules[f] = state'[f]
    <3>1. state'[f] = IF r[f] = {} THEN state[f] ELSE r[f]
      BY <2>1, FoldByRule
    <3> QED BY <2>2, <2>6, <3>1 DEF GatheredInv
  <2>7. ASSUME NEW x \in state'["deniedConnectors"]
        PROVE  \E i \in 1..n : x \in layers[i].rules["deniedConnectors"]
    <3>1. x \in state["deniedConnectors"] \/ x \in r["deniedConnectors"]
      BY <2>1, <2>7, FoldByRule DEF Unions
    <3> QED BY <2>2, <3>1 DEF GatheredInv
  <2>8. \A f \in Flags \cup {"network.mode", "maxBundleKilobytes"} : state'[f] = r[f]
    BY <2>1, FoldByRule
  <2>9. /\ \A f \in Flags : state'[f] = ~Loose(f)
        /\ state'["network.mode"] = "deny"
        /\ layers[n].rules["maxBundleKilobytes"] = state'["maxBundleKilobytes"]
    BY <2>3, <2>5, <2>8 DEF LooserThanBaseline, IsPolicy, Loose
  <2>10. GatheredInv'
    BY <2>1, <2>2, <2>4, <2>6, <2>7, <2>9 DEF GatheredInv, LayersConflict
  <2> QED BY <2>1, <2>10 DEF RefusalInv
<1>2. CASE Walk \/ FindWorkspaceLayer \/ LoadProjectLayer
  <2>1. folded' = 0 /\ folded = 0 /\ state' = state /\ pc' # "failed"
    BY <1>2 DEF ResolutionInv, Walk, FindWorkspaceLayer, LoadProjectLayer
  <2> QED
    BY <2>1 DEF GatheredInv, RefusalInv, LayersConflict
<1>3. CASE RefuseLayer
  <2>1. /\ folded < Len(layers) /\ UNCHANGED <<state, layers, folded>>
        /\ \E f \in Rules : Throws(f, state, layers[folded + 1].rules)
    BY <1>3 DEF RefuseLayer, FailWith, FoldOrder, Rules, Allowlists, Unions, Flags
  <2>2. LayersConflict(folded + 1)
    BY <2>1, ThrowsConflict
  <2> QED
    BY <2>1, <2>2 DEF GatheredInv, RefusalInv, LayersConflict
<1>4. CASE FailToLoad
  <2>1. UNCHANGED <<state, layers, folded>> /\ "layer" \notin DOMAIN outcome'
    BY <1>4 DEF FailToLoad, FailWith, LoadError
  <2> QED
    BY <2>1 DEF GatheredInv, RefusalInv, LayersConflict
<1>5. CASE Finish \/ UNCHANGED vars
  <2>1. /\ UNCHANGED <<state, layers, folded>>
        /\ pc' # "failed" \/ UNCHANGED <<pc, outcome>>
    BY <1>5 DEF Finish, vars
  <2> QED
    BY <2>1 DEF GatheredInv, RefusalInv, LayersConflict
<1> QED
  BY <1>1, <1>2, <1>3, <1>4, <1>5 DEF Next

\* The resolver refuses a stack of policies exactly when one is looser than the
\* baseline or two of them conflict, neighbours or not: comparing a layer with
\* what is accumulated hides no conflict and makes up none (policy.ts:158-248).
THEOREM RefusalsAreConflicts == Spec => []RefusedIffLayersConflict
<1>1. Init => GatheredInv /\ RefusalInv
  BY DEF Init, GatheredInv, RefusalInv, LayersConflict, Baseline, Rules, Allowlists, Unions,
         Flags, Loose
<1>2. GatheredInv /\ RefusalInv => RefusedIffLayersConflict
  BY DEF GatheredInv, RefusalInv, RefusedIffLayersConflict
<1> QED
  BY <1>1, <1>2, ResolutionCorrect, NextGathered, PTL DEF Spec

-----------------------------------------------------------------------------
(* What is recorded *)

\* A set of naturals that is not empty has a least member.
LEMMA LeastMember ==
    ASSUME NEW S \in SUBSET Nat, S # {}
    PROVE  \E i \in S : \A j \in S : i <= j
<1>1. PICK i \in S : \A j \in Nat : <<j, i>> \in OpToRel(<, Nat) => j \notin S
  BY NatLessThanWellFounded, WFMin
<1>2. ASSUME NEW j \in S PROVE i <= j
  <2>1. ~ (j < i)
    BY <1>1 DEF OpToRel
  <2> QED BY <2>1
<1> QED BY <1>2

\* The rules that decisions are recorded of.
FoldFields == {FoldOrder[i] : i \in DOMAIN FoldOrder}

\* What the fold of the rule f adds to the decisions recorded before it.
RecordRule(s, r, scope, f, before) ==
    IF Fold(s, r)[f] = s[f] THEN before
    ELSE Append(before,
                Decision(f, Fold(s, r)[f],
                         IF f \in Allowlists /\ s[f] = Null
                         THEN "POLICY_SOURCE" ELSE "POLICY_TIGHTEN", scope))

\* The decisions recorded after each of the first n rules.
Recording(s, r, scope, n, upTo) ==
    upTo = [i \in 0..n |->
              IF i = 0 THEN <<>> ELSE RecordRule(s, r, scope, FoldOrder[i], upTo[i - 1])]

\* The rules can be recorded one after the other.
LEMMA RecordingExists ==
    ASSUME NEW s, NEW r, NEW scope
    PROVE  \A n \in Nat : \E upTo : Recording(s, r, scope, n, upTo)
<1> DEFINE Bad == {n \in Nat : ~ \E upTo : Recording(s, r, scope, n, upTo)}
<1> SUFFICES ASSUME Bad # {} PROVE FALSE
  OBVIOUS
<1>1. PICK n \in Bad : \A m \in Bad : n <= m
  BY LeastMember
<1>2. CASE n = 0
  <2> DEFINE upTo == [i \in 0..0 |-> <<>>]
  <2>1. Recording(s, r, scope, 0, upTo)
    BY DEF Recording
  <2> QED BY <1>2, <2>1
<1>3. CASE n # 0
  <2>1. n - 1 \in Nat /\ n - 1 \notin Bad
    BY <1>1, <1>3
  <2>2. PICK g : Recording(s, r, scope, n - 1, g)
    BY <2>1
  <2> DEFINE h == [i \in 0..n |->
                     IF i = n THEN RecordRule(s, r, scope, FoldOrder[n], g[n - 1]) ELSE g[i]]
  <2>3. ASSUME NEW i \in 0..n
        PROVE  h[i] = IF i = 0 THEN <<>> ELSE RecordRule(s, r, scope, FoldOrder[i], h[i - 1])
    <3>1. CASE i = n
      <4>1. h[n - 1] = g[n - 1]
        BY <2>1
      <4> QED BY <1>3, <3>1, <4>1
    <3>2. CASE i # n /\ i # 0
      <4>1. i \in 0..(n - 1) /\ i - 1 \in 0..n /\ i - 1 # n
        BY <2>1, <3>2
      <4>2. h[i] = g[i] /\ h[i - 1] = g[i - 1]
        BY <3>2, <4>1
      <4>3. g[i] = RecordRule(s, r, scope, FoldOrder[i], g[i - 1])
        BY <2>2, <3>2, <4>1 DEF Recording
      <4> QED BY <3>2, <4>2, <4>3
    <3>3. CASE i # n /\ i = 0
      <4>1. 0 \in 0..(n - 1)
        BY <2>1
      <4>2. g[0] = <<>>
        BY <2>2, <4>1 DEF Recording
      <4> QED BY <3>3, <4>2
    <3> QED BY <3>1, <3>2, <3>3
  <2>4. h = [i \in 0..n |->
               IF i = 0 THEN <<>> ELSE RecordRule(s, r, scope, FoldOrder[i], h[i - 1])]
    <3>1. h = [i \in 0..n |-> h[i]]
      OBVIOUS
    <3> HIDE DEF h
    <3> QED BY <2>3, <3>1
  <2> HIDE DEF h
  <2>5. Recording(s, r, scope, n, h)
    BY <2>4 DEF Recording
  <2> QED BY <2>5
<1> QED BY <1>2, <1>3

\* q holds a decision for each rule of the set that the fold changes, and these
\* alone.
Decides(s, r, fields, q) ==
    /\ \E T : q \in Seq(T)
    /\ \A k \in DOMAIN q :
        /\ q[k].field \in fields
        /\ Fold(s, r)[q[k].field] # s[q[k].field]
        /\ q[k].value = Fold(s, r)[q[k].field]
    /\ \A f \in fields : Fold(s, r)[f] # s[f] => \E k \in DOMAIN q : q[k].field = f

\* One rule more.
LEMMA RecordRuleDecides ==
    ASSUME NEW s, NEW r, NEW scope, NEW fields, NEW f, NEW q, Decides(s, r, fields, q)
    PROVE  Decides(s, r, fields \cup {f}, RecordRule(s, r, scope, f, q))
<1>1. CASE Fold(s, r)[f] = s[f]
  BY <1>1 DEF Decides, RecordRule
<1>2. CASE Fold(s, r)[f] # s[f]
  <2> DEFINE d == Decision(f, Fold(s, r)[f],
                           IF f \in Allowlists /\ s[f] = Null
                           THEN "POLICY_SOURCE" ELSE "POLICY_TIGHTEN", scope)
             new == Append(q, d)
  <2>1. d.field = f /\ d.value = Fold(s, r)[f]
    BY DEF Decision
  <2> HIDE DEF d
  <2>2. PICK T : q \in Seq(T)
    BY DEF Decides
  <2>3. q \in Seq(T \cup {d}) /\ d \in T \cup {d}
    BY <2>2
  <2>4. /\ new \in Seq(T \cup {d}) /\ DOMAIN q = 1..Len(q) /\ Len(q) \in Nat
        /\ DOMAIN new = 1..(Len(q) + 1) /\ new[Len(q) + 1] = d
        /\ \A k \in DOMAIN q : k \in DOMAIN new /\ new[k] = q[k]
        /\ \A k \in DOMAIN new : k \in DOMAIN q \/ k = Len(q) + 1
    BY <2>3
  <2>5. Len(q) + 1 \in DOMAIN new
    BY <2>4
  <2>6. RecordRule(s, r, scope, f, q) = new
    BY <1>2 DEF RecordRule, d
  <2> HIDE DEF new
  <2>7. Decides(s, r, fields \cup {f}, new)
    BY <1>2, <2>1, <2>4, <2>5 DEF Decides
  <2> QED BY <2>6, <2>7
<1> QED BY <1>1, <1>2

\* What the fold of a layer records.
LEMMA RecordedDecides ==
    ASSUME NEW s, NEW r, NEW scope
    PROVE  Decides(s, r, FoldFields, Recorded(s, r, scope))
<1>1. Len(FoldOrder) = 12 /\ DOMAIN FoldOrder = 1..12
  BY DEF FoldOrder
<1>2. PICK g : Recording(s, r, scope, 12, g)
  BY RecordingExists
<1>3. \E upTo : Recording(s, r, scope, 12, upTo) /\ Recorded(s, r, scope) = upTo[12]
  BY <1>1, <1>2 DEF Recorded, Recording, RecordRule
<1>4. PICK upTo : Recording(s, r, scope, 12, upTo) /\ Recorded(s, r, scope) = upTo[12]
  BY <1>3
<1> DEFINE First(n) == {FoldOrder[i] : i \in 1..n}
           Right(n) == Decides(s, r, First(n), upTo[n])
           Bad == {n \in 0..12 : ~Right(n)}
<1>5. ASSUME Bad # {} PROVE FALSE
  <2>0. PICK n \in Bad : \A m \in Bad : n <= m
    <3> HIDE DEF Right
    <3>1. Bad \in SUBSET Nat
      OBVIOUS
    <3> QED BY <1>5, <3>1, LeastMember
  <2>1. n \in 0..12 /\ ~Right(n) /\ \A m \in 0..(n - 1) : Right(m)
    <3> HIDE DEF Right
    <3>1. n \in 0..12 /\ ~Right(n)
      OBVIOUS
    <3> QED BY <2>0, <3>1
  <2>2. CASE n = 0
    <3>1. upTo[0] = <<>>
      BY <1>4 DEF Recording
    <3>2. Decides(s, r, First(0), <<>>)
      <4>1. <<>> \in Seq({}) /\ DOMAIN <<>> = {} /\ First(0) = {}
        OBVIOUS
      <4> QED BY <4>1 DEF Decides
    <3> QED BY <2>1, <2>2, <3>1, <3>2
  <2>3. CASE n # 0
    <3>1. n \in 0..12 /\ n - 1 \in 0..(n - 1)
      BY <2>1, <2>3
    <3>2. Decides(s, r, First(n - 1), upTo[n - 1])
      BY <2>1, <3>1
    <3>3. upTo[n] = RecordRule(s, r, scope, FoldOrder[n], upTo[n - 1])
      BY <1>4, <2>3, <3>1 DEF Recording
    <3>4. First(n) = First(n - 1) \cup {FoldOrder[n]}
      <4>1. \A i \in 1..n : i \in 1..(n - 1) \/ i = n
        BY <3>1
      <4>2. n \in 1..n /\ \A i \in 1..(n - 1) : i \in 1..n
        BY <2>3, <3>1
      <4> QED BY <4>1, <4>2
    <3> HIDE DEF First
    <3>5. Decides(s, r, First(n), upTo[n])
      BY <3>2, <3>3, <3>4, RecordRuleDecides
    <3> QED BY <2>1, <3>5
  <2> QED BY <2>2, <2>3
<1>6. First(12) = FoldFields
  BY <1>1 DEF FoldFields
<1>7. Decides(s, r, First(12), upTo[12])
  <2> HIDE DEF First
  <2> QED BY <1>5
<1> QED BY <1>4, <1>6, <1>7

\* The last decision of a rule tells what s holds, which is a value.
Tells(ds, s) ==
    \A i \in DOMAIN ds :
        ds[i].field \in Rules /\ (\A j \in DOMAIN ds : j > i => ds[j].field # ds[i].field)
            => /\ ds[i].value = s[ds[i].field]
               /\ ds[i].field \in Allowlists => ds[i].value # Null

\* What is recorded throughout a resolution.
DecisionsInv ==
    /\ \E T : decisions \in Seq(T)
    /\ \A i \in DOMAIN decisions : decisions[i].field \in FoldFields \cup {"networkMode"}
    /\ pc \in {"walk", "project"} => state = Baseline
    /\ pc = "fold" => Tells(decisions, state)
    /\ LastDecisionTellsValue

\* These are all the rules but the denied connectors.
LEMMA FoldFieldsAre ==
    FoldFields = Rules \ {"deniedConnectors"}
<1>1. DOMAIN FoldOrder = 1..12
  BY DEF FoldOrder
<1> QED BY <1>1 DEF FoldFields, FoldOrder, Rules, Allowlists, Unions, Flags

\* The decisions about the baseline tell its flags; the one about its network
\* mode has a name that is no rule's.
LEMMA BaselineTells ==
    /\ \E T : BaselineDecisions \in Seq(T)
    /\ \A i \in DOMAIN BaselineDecisions :
          BaselineDecisions[i].field \in FoldFields \cup {"networkMode"}
    /\ Tells(BaselineDecisions, Baseline)
<1> DEFINE names == <<"allowExperimental", "allowPaidServices",
                      "allowRemoteProjectContent", "requireReducedMotion", "network.mode">>
           B == BaselineDecisions
<1>1. /\ DOMAIN B = 1..5
      /\ \A i \in 1..5 :
          /\ B[i].field = (IF names[i] = "network.mode" THEN "networkMode" ELSE names[i])
          /\ B[i].value = Baseline[names[i]]
  BY DEF BaselineDecisions, Decision
<1>2. B \in Seq({B[i] : i \in 1..5})
  BY DEF BaselineDecisions
<1>3. ASSUME NEW i \in 1..5
      PROVE  \/ B[i].field = "networkMode"
             \/ B[i].field \in Flags /\ B[i].value = Baseline[B[i].field]
  BY <1>1, <1>3 DEF Flags
<1>4. "networkMode" \notin Rules /\ Flags \cap Allowlists = {} /\ Flags \subseteq FoldFields
  BY FoldFieldsAre DEF Rules, Allowlists, Unions, Flags
<1>5. DOMAIN B = 1..5
  BY <1>1
<1> HIDE DEF B, names
<1>6. Tells(B, Baseline)
  BY <1>3, <1>4, <1>5 DEF Tells
<1> QED BY <1>2, <1>3, <1>4, <1>5, <1>6 DEF B

\* Two sequences of decisions one after the other.
LEMMA Joined ==
    ASSUME NEW p, NEW q, \E T : p \in Seq(T), \E T : q \in Seq(T)
    PROVE  /\ \E T : p \o q \in Seq(T)
           /\ Len(p) \in Nat /\ Len(q) \in Nat
           /\ DOMAIN p = 1..Len(p) /\ DOMAIN q = 1..Len(q)
           /\ DOMAIN (p \o q) = 1..(Len(p) + Len(q))
           /\ \A i \in 1..Len(p) : (p \o q)[i] = p[i]
           /\ \A i \in 1..Len(q) : (p \o q)[Len(p) + i] = q[i]
<1>1. PICK T : p \in Seq(T)
  OBVIOUS
<1>2. PICK U : q \in Seq(U)
  OBVIOUS
<1>3. p \in Seq(T \cup U) /\ q \in Seq(T \cup U)
  BY <1>1, <1>2
<1>4. p \o q \in Seq(T \cup U)
  BY <1>3
<1> QED BY <1>3, <1>4

\* What a layer records tells what its fold made of the rules it changed; of
\* the others the decisions recorded before it tell.
LEMMA FoldTells ==
    ASSUME NEW s, NEW r, IsPolicy(r), NEW ds, NEW q,
           \E T : ds \in Seq(T), Tells(ds, s), Decides(s, r, FoldFields, q),
           \A i \in DOMAIN ds : ds[i].field \in FoldFields \cup {"networkMode"}
    PROVE  /\ \E T : ds \o q \in Seq(T)
           /\ Tells(ds \o q, Fold(s, r))
           /\ \A i \in DOMAIN (ds \o q) : (ds \o q)[i].field \in FoldFields \cup {"networkMode"}
<1> DEFINE new == ds \o q
           n == Len(ds)
<1>1. /\ \E T : new \in Seq(T)
      /\ n \in Nat /\ Len(q) \in Nat
      /\ DOMAIN ds = 1..n /\ DOMAIN q = 1..Len(q) /\ DOMAIN new = 1..(n + Len(q))
      /\ \A i \in 1..n : new[i] = ds[i]
      /\ \A i \in 1..Len(q) : new[n + i] = q[i]
  BY Joined DEF Decides
<1> HIDE DEF new, n
<1>2. ASSUME NEW i \in DOMAIN new
      PROVE  \/ i \in 1..n /\ i \in DOMAIN ds /\ new[i] = ds[i]
             \/ \E k \in DOMAIN q : i = n + k /\ new[i] = q[k]
  <2>1. CASE i \in 1..n
    BY <1>1, <2>1
  <2>2. CASE i \notin 1..n
    <3>1. i - n \in 1..Len(q) /\ i = n + (i - n)
      BY <1>1, <2>2
    <3> QED BY <1>1, <3>1
  <2> QED BY <2>1, <2>2
<1>3. ASSUME NEW i \in DOMAIN new PROVE new[i].field \in FoldFields \cup {"networkMode"}
  BY <1>2, <1>3 DEF Decides
<1>4. ASSUME NEW i \in DOMAIN new, new[i].field \in Rules,
             \A j \in DOMAIN new : j > i => new[j].field # new[i].field
      PROVE  /\ new[i].value = Fold(s, r)[new[i].field]
             /\ new[i].field \in Allowlists => new[i].value # Null
  <2> DEFINE f == new[i].field
  <2>1. CASE i \in 1..n /\ i \in DOMAIN ds /\ new[i] = ds[i]
    <3>1. \A k \in DOMAIN q : q[k].field # f
      <4> SUFFICES ASSUME NEW k \in DOMAIN q PROVE q[k].field # f
        OBVIOUS
      <4>1. n + k \in DOMAIN new /\ n + k > i /\ new[n + k] = q[k]
        BY <1>1, <2>1
      <4> QED BY <1>4, <4>1
    <3>2. f \in FoldFields
      BY <1>3, <1>4 DEF Rules, Allowlists, Unions, Flags
    <3>3. Fold(s, r)[f] = s[f]
      BY <3>1, <3>2 DEF Decides
    <3>4. \A j \in DOMAIN ds : j > i => ds[j].field # ds[i].field
      <4> SUFFICES ASSUME NEW j \in DOMAIN ds, j > i PROVE ds[j].field # ds[i].field
        OBVIOUS
      <4>1. j \in DOMAIN new /\ new[j] = ds[j]
        BY <1>1
      <4> QED BY <1>4, <2>1, <4>1
    <3> QED BY <1>4, <2>1, <3>3, <3>4 DEF Tells
  <2>2. CASE \E k \in DOMAIN q : i = n + k /\ new[i] = q[k]
    <3>1. new[i].value = Fold(s, r)[f] /\ Fold(s, r)[f] # s[f]
      BY <2>2 DEF Decides
    <3>2. f \in Allowlists => Fold(s, r)[f] # Null
      BY <3>1, FoldByRule DEF IsPolicy
    <3> QED BY <3>1, <3>2
  <2> QED BY <1>2, <2>1, <2>2
<1>5. Tells(new, Fold(s, r))
  BY <1>4 DEF Tells
<1> QED BY <1>1, <1>3, <1>5 DEF new

\* The removal of denied connectors is told last.
LEMMA FinishTells ==
    ASSUME DecisionsInv, ResolutionInv, Finish
    PROVE  DecisionsInv'
<1> DEFINE d == Decision("allowedConnectors", Resolved(state)["allowedConnectors"],
                         "POLICY_DENY_INHERITED", "run")
           new == decisions'
           n == Len(decisions)
<1>1. PICK T : decisions \in Seq(T)
  BY DEF DecisionsInv
<1>2. /\ pc = "fold" /\ pc' = "resolved" /\ outcome' = Resolved(state)
      /\ Tells(decisions, state)
  BY DEF Finish, DecisionsInv
<1>3. n \in Nat /\ DOMAIN decisions = 1..n
  BY <1>1
<1>4. "allowedConnectors" \in FoldFields
  BY FoldFieldsAre DEF Rules, Allowlists
<1>5. ASSUME NEW i \in DOMAIN decisions, decisions[i].field \in Rules,
             \A j \in DOMAIN decisions : j > i => decisions[j].field # decisions[i].field,
             decisions[i].field = "allowedConnectors" => ~Strips(state)
      PROVE  decisions[i].value = Resolved(state)[decisions[i].field]
  <2> DEFINE f == decisions[i].field
  <2>1. decisions[i].value = state[f] /\ (f \in Allowlists => state[f] # Null)
    BY <1>2, <1>5 DEF Tells
  <2>2. CASE f = "allowedConnectors"
    <3>1. ~Strips(state) /\ f \in Allowlists
      BY <1>5, <2>2 DEF Allowlists
    <3>2. state["allowedConnectors"] \cap state["deniedConnectors"] = {}
      BY <2>1, <2>2, <3>1 DEF Strips
    <3>3. Resolved(state)["allowedConnectors"] = state["allowedConnectors"]
      <4>1. state["allowedConnectors"] # Null
        BY <2>1, <2>2, <3>1
      <4>2. state["allowedConnectors"] \ state["deniedConnectors"] = state["allowedConnectors"]
        BY <3>2
      <4> QED BY <4>1, <4>2, ResolvedByRule
    <3> QED BY <2>1, <2>2, <3>3
  <2>3. CASE f # "allowedConnectors"
    BY <1>5, <2>1, <2>3, ResolvedByRule
  <2> QED BY <2>2, <2>3
<1>6. CASE ~Strips(state)
  <2>1. new = decisions
    BY <1>6 DEF Finish
  <2>2. LastDecisionTellsValue'
    BY <1>2, <1>5, <1>6, <2>1 DEF LastDecisionTellsValue
  <2> QED BY <1>2, <2>1, <2>2 DEF DecisionsInv
<1>7. CASE Strips(state)
  <2>1. new = Append(decisions, d)
    BY <1>7 DEF Finish
  <2>2. d.field = "allowedConnectors" /\ d.value = Resolved(state)["allowedConnectors"]
    BY DEF Decision
  <2> HIDE DEF d
  <2>3. decisions \in Seq(T \cup {d})
    BY <1>1
  <2>4. /\ new \in Seq(T \cup {d}) /\ DOMAIN new = 1..(n + 1) /\ new[n + 1] = d
        /\ \A i \in 1..n : new[i] = decisions[i]
    BY <2>1, <2>3
  <2>5. \A i \in 1..(n + 1) : i \in 1..n \/ i = n + 1
    BY <1>3
  <2>6. n + 1 \in 1..(n + 1) /\ \A i \in 1..n : i \in 1..(n + 1) /\ n + 1 > i
    BY <1>3
  <2> HIDE DEF n, new
  <2>7. ASSUME NEW i \in DOMAIN new, new[i].field \in Rules,
               \A j \in DOMAIN new : j > i => new[j].field # new[i].field
        PROVE  new[i].value = Resolved(state)[new[i].field]
    <3>1. CASE i = n + 1
      BY <2>2, <2>4, <3>1
    <3>2. CASE i \in 1..n
      <4>1. new[i] = decisions[i] /\ new[n + 1].field # new[i].field
        BY <2>4, <2>6, <2>7, <3>2
      <4>2. \A j \in DOMAIN decisions : j > i => decisions[j].field # decisions[i].field
        BY <1>3, <2>4, <2>6, <2>7, <3>2
      <4> QED BY <1>3, <1>5, <2>2, <2>4, <2>7, <3>2, <4>1, <4>2
    <3> QED BY <2>4, <2>5, <3>1, <3>2
  <2>8. LastDecisionTellsValue'
    BY <1>2, <2>7 DEF LastDecisionTellsValue, new
  <2>9. \A i \in DOMAIN new : new[i].field \in FoldFields \cup {"networkMode"}
    BY <1>3, <1>4, <2>2, <2>4, <2>5 DEF DecisionsInv
  <2> QED BY <1>2, <2>4, <2>8, <2>9 DEF DecisionsInv, new
<1> QED BY <1>6, <1>7

\* Each step records what it changes.
LEMMA NextDecisions ==
    ResolutionInv /\ DecisionsInv /\ [Next]_vars => DecisionsInv'
<1> SUFFICES ASSUME ResolutionInv, DecisionsInv, [Next]_vars PROVE DecisionsInv'
  OBVIOUS
<1>1. CASE FoldLayer
  <2> DEFINE layer == layers[folded + 1]
             q == Recorded(state, layer.rules, layer.scope)
  <2>1. /\ decisions' = decisions \o q /\ state' = Fold(state, layer.rules)
        /\ pc = "fold" /\ pc' = "fold" /\ folded + 1 \in 1..Len(layers)
    BY <1>1 DEF FoldLayer, ResolutionInv
  <2>2. IsPolicy(layer.rules)
    BY <2>1, LayersHoldPolicies DEF ResolutionInv
  <2>3. Decides(state, layer.rules, FoldFields, q)
    BY RecordedDecides
  <2> HIDE DEF q, layer
  <2>4. /\ \E T : decisions \o q \in Seq(T)
        /\ Tells(decisions \o q, Fold(state, layer.rules))
        /\ \A i \in DOMAIN (decisions \o q) :
              (decisions \o q)[i].field \in FoldFields \cup {"networkMode"}
    BY <2>1, <2>2, <2>3, FoldTells DEF DecisionsInv
  <2> QED BY <2>1, <2>4 DEF DecisionsInv, LastDecisionTellsValue
<1>2. CASE Walk \/ FindWorkspaceLayer
  BY <1>2 DEF Walk, FindWorkspaceLayer, DecisionsInv, LastDecisionTellsValue
<1>3. CASE LoadProjectLayer
  <2>1. /\ decisions' = BaselineDecisions /\ state' = Baseline /\ pc' = "fold"
    BY <1>3 DEF LoadProjectLayer, DecisionsInv
  <2> QED BY <2>1, BaselineTells DEF DecisionsInv, LastDecisionTellsValue
<1>4. CASE FailToLoad \/ RefuseLayer
  BY <1>4 DEF FailToLoad, RefuseLayer, FailWith, DecisionsInv, LastDecisionTellsValue
<1>5. CASE Finish
  BY <1>5, FinishTells
<1>6. CASE UNCHANGED vars
  BY <1>6 DEF vars, DecisionsInv, LastDecisionTellsValue, Tells
<1> QED
  BY <1>1, <1>2, <1>3, <1>4, <1>5, <1>6 DEF Next

\* The decisions tell the resolved value of every rule they are about, for any
\* number of layers (policy.ts:354-400).
THEOREM DecisionsTellValues == Spec => []LastDecisionTellsValue
<1>1. Init => DecisionsInv
  <2>1. <<>> \in Seq({}) /\ DOMAIN <<>> = {}
    OBVIOUS
  <2> QED BY <2>1 DEF Init, DecisionsInv, LastDecisionTellsValue
<1>2. DecisionsInv => LastDecisionTellsValue
  BY DEF DecisionsInv
<1> QED
  BY <1>1, <1>2, ResolutionCorrect, NextDecisions, PTL DEF Spec
=============================================================================
