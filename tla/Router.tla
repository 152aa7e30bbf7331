------------------------------- MODULE Router -------------------------------
(***************************************************************************)
(* The native-first router (packages/core/src/router): routeCapabilities   *)
(* with the candidates, ownership, ranking and policy it calls.            *)
(*                                                                         *)
(* A route assigns capabilities to providers: a function from the covered  *)
(* capabilities, those it omits being the rest.  The router extends a set  *)
(* of routes one capability at a time, in the order of their ids, splits   *)
(* the ones within the provider limit by their ownership, and chooses.     *)
(*                                                                         *)
(* Left out: digests, messages, the contents of an integration that no     *)
(* check looks at, and the order in which equal routes are listed.  A      *)
(* provider claims a capability at most once, as in every manifest of      *)
(* sdk-connectors.  A confidence is a natural number.                      *)
(***************************************************************************)
EXTENDS Integers, FiniteSets, SequencesExt

CONSTANTS
    CapabilityOrder,    \* every capability id, in the order of their names
    Known,              \* those of the capability catalog
    DefaultProperty,    \* the property of a capability's ownership template
    Possible,           \* the properties that may stand for
    BaseLicenses,       \* the licenses of PHASE4_POLICY
    Inputs,             \* the calls of routeCapabilities, see IsInput
    Null

ProviderOrder == <<"gsap", "motion", "web-platform">>
Providers == {"gsap", "motion", "web-platform"}
Native == "web-platform"
Capabilities == {CapabilityOrder[i] : i \in DOMAIN CapabilityOrder}

ASSUME KnownAssumption == Known \subseteq Capabilities
ASSUME OrderAssumption ==
    /\ CapabilityOrder \in Seq(Capabilities)
    /\ \A i, j \in DOMAIN CapabilityOrder :
        CapabilityOrder[i] = CapabilityOrder[j] => i = j

\* Why a provider is rejected before any route is made.
RejectionCodes ==
    {"FORBIDDEN_PROVIDER", "POLICY_DENIED", "CONNECTOR_UNHEALTHY",
     "RUNTIME_ARTIFACT_UNAVAILABLE", "LICENSE_DENIED", "PAID_ARTIFACT_DENIED"}

ASSUME NullAssumption == Null \notin RejectionCodes

\* A provider's runtime is the sequence of its integrations, each of which
\* tells its license, whether it needs a paid plan and whether it is risky
\* (writes, network, commands).
IsRuntime(runtime) ==
    /\ runtime \in Seq(ToSet(runtime))
    /\ \A i \in DOMAIN runtime :
        runtime[i].paid \in BOOLEAN /\ runtime[i].risky \in BOOLEAN

\* requested is the set of the request's capability entries, so that entries
\* that agree are one.
IsInput(in) ==
    /\ \A r \in in.requested :
        r.id \in Capabilities /\ r.required \in BOOLEAN
    /\ in.requested # {}
    /\ in.sameSnapshot \in BOOLEAN
    /\ DOMAIN in.catalog = Providers
    /\ \A p \in Providers : IsRuntime(in.catalog[p].runtime)
    /\ in.forbidden \subseteq Providers /\ in.installed \subseteq Providers
    /\ in.maxProviders \in Nat
    /\ in.policy # Null => in.policy.loosens \in BOOLEAN

ASSUME InputsAssumption == \A in \in Inputs : IsInput(in)

VARIABLES
    input,      \* the call
    pc,
    candidates, \* the providers that passed buildProviderCandidates
    rejections, \* the reason of each of the others
    next,       \* the index in CapabilityOrder of the next capability
    routes,     \* combinations
    plan        \* the plan or the error

vars == <<input, pc, candidates, rejections, next, routes, plan>>

-----------------------------------------------------------------------------
(* Policy and candidates *)

\* getPhase4Policy
Policy(in) ==
    IF in.policy = Null
    THEN [allowedConnectors |-> Providers, deniedConnectors |-> {},
          allowedLicenses |-> BaseLicenses, allowPaidServices |-> FALSE]
    ELSE in.policy

WeakensBase(policy) ==
    \/ ~(policy.allowedConnectors \subseteq Providers)
    \/ ~(policy.allowedLicenses \subseteq BaseLicenses)
    \/ policy.allowPaidServices
    \/ policy.loosens

\* policyAllowsRuntime of one integration.
IntegrationFailure(integration, in) ==
    IF integration.license \notin Policy(in).allowedLicenses THEN "LICENSE_DENIED"
    ELSE IF integration.paid /\ ~(Policy(in).allowPaidServices /\ in.allowPaid)
    THEN "PAID_ARTIFACT_DENIED"
    ELSE IF integration.risky THEN "POLICY_DENIED" ELSE Null

RuntimeFailure(runtime, in) ==
    LET failed == {i \in DOMAIN runtime : IntegrationFailure(runtime[i], in) # Null}
    IN  IF failed = {} THEN Null ELSE IntegrationFailure(runtime[Min(failed)], in)

\* Why buildProviderCandidates rejects the provider, or Null.
Rejection(p, in) ==
    LET connector == in.catalog[p] IN
    IF p \in in.forbidden THEN "FORBIDDEN_PROVIDER"
    ELSE IF p \notin Policy(in).allowedConnectors \/ p \in Policy(in).deniedConnectors
    THEN "POLICY_DENIED"
    ELSE IF ~connector.healthy THEN "CONNECTOR_UNHEALTHY"
    ELSE IF connector.runtime = <<>> THEN "RUNTIME_ARTIFACT_UNAVAILABLE"
    ELSE RuntimeFailure(connector.runtime, in)

Claims(p, c) == c \in DOMAIN input.catalog[p].claims
InEnvironment(p) == p = "motion" => input.reactProven

Supporting(c) == {p \in candidates : Claims(p, c) /\ InEnvironment(p)}
OutOfEnvironment(c) == {p \in candidates : Claims(p, c) /\ ~InEnvironment(p)}
RejectedFor(c) == {p \in DOMAIN rejections : Claims(p, c)}

FirstProvider(providers) ==
    ProviderOrder[Min({i \in DOMAIN ProviderOrder : ProviderOrder[i] \in providers})]

-----------------------------------------------------------------------------
(* Ownership and ranking of a route *)

Entry(c) == CHOOSE r \in input.requested : r.id = c

\* The scope and property a route's capability owns; an entry without a scope
\* has one of its own.
Property(c) ==
    IF Entry(c).property # Null THEN Entry(c).property ELSE DefaultProperty[c]
PossibleProperties(c) ==
    IF Entry(c).property # Null THEN {Entry(c).property} ELSE Possible[c]

SharesScope(c, d, route) ==
    /\ route[c] # route[d]
    /\ Entry(c).scope # Null /\ Entry(c).scope = Entry(d).scope

Collides(c, d, route) ==
    /\ SharesScope(c, d, route)
    /\ Entry(c).property # Null /\ Entry(d).property # Null
    /\ Property(c) = Property(d)

MayOverlap(c, d, route) ==
    /\ SharesScope(c, d, route)
    /\ Entry(c).property = Null \/ Entry(d).property = Null
    /\ PossibleProperties(c) \cap PossibleProperties(d) # {}

Ownership(route) ==
    IF \E c, d \in DOMAIN route : Collides(c, d, route) THEN "blocked"
    ELSE IF \E c, d \in DOMAIN route : MayOverlap(c, d, route) THEN "needs-input"
    ELSE "ok"

Selected(route) == {route[c] : c \in DOMAIN route} \ {Native}

Unranked == Len(ProviderOrder) + 1
PreferredRank(p) ==
    LET at == {i \in DOMAIN input.preferred : input.preferred[i] = p}
    IN  IF at = {} THEN Unranked ELSE Min(at)

\* preferredRankVector: the ranks of the selected providers in order, the k-th
\* being the least that k of them do not exceed.
RankVector(route) ==
    LET ranks == {PreferredRank(p) : p \in Selected(route)}
        upTo(r) == Cardinality({p \in Selected(route) : PreferredRank(p) <= r})
    IN  [k \in 1..Cardinality(Selected(route)) |->
            Min({r \in ranks : upTo(r) >= k})]

ClaimOf(c, route) == input.catalog[route[c]].claims[c]
CountOf(route, support) ==
    Cardinality({c \in DOMAIN route : ClaimOf(c, route).support = support})
ConfidenceOf(route) ==
    SumFunction([c \in DOMAIN route |-> ClaimOf(c, route).confidence])

\* rankRouteCandidate: what compareRouteCandidates compares, in its order,
\* each to be the smaller the better.
RankOf(route) ==
    <<Cardinality(Selected(route)),
      -Cardinality({c \in DOMAIN route : route[c] = Native}),
      -Cardinality(Selected(route) \cap input.installed)>>
    \o RankVector(route)
    \o <<-CountOf(route, "primary"), -CountOf(route, "secondary"),
         CountOf(route, "fallback"),
         -ConfidenceOf(route)>>

Better(route, other) ==
    LET r == RankOf(route) o == RankOf(other) IN
    \E i \in DOMAIN r : (\A j \in 1..(i - 1) : r[j] = o[j]) /\ r[i] < o[i]

Best(set) == {route \in set : \A other \in set : ~Better(other, route)}

-----------------------------------------------------------------------------
(* The call *)

Init ==
    /\ input \in Inputs
    /\ pc = "validate"
    /\ candidates = {}
    /\ rejections = <<>>
    /\ next = 1
    /\ routes = {<<>>}
    /\ plan = Null

FailWith(code) ==
    /\ pc' = "failed"
    /\ plan' = [code |-> code]
    /\ UNCHANGED <<input, candidates, rejections, next, routes>>

\* normalizeRequest refuses entries of one id that differ.
RejectRequest ==
    /\ pc = "validate"
    /\ \/ \E r, s \in input.requested : r.id = s.id /\ r # s
       \/ ~input.sameSnapshot
    /\ FailWith("ROUTE_INPUT_INVALID")

ValidRequest ==
    /\ \A r, s \in input.requested : r.id = s.id => r = s
    /\ input.sameSnapshot

RejectPolicy ==
    /\ pc = "validate" /\ ValidRequest
    /\ input.policy # Null /\ WeakensBase(input.policy)
    /\ FailWith("POLICY_WEAKENING_DENIED")

BuildCandidates ==
    /\ pc = "validate" /\ ValidRequest
    /\ input.policy # Null => ~WeakensBase(input.policy)
    /\ candidates' = {p \in Providers : Rejection(p, input) = Null}
    /\ rejections' = [p \in Providers \ candidates' |-> Rejection(p, input)]
    /\ pc' = "extend"
    /\ UNCHANGED <<input, next, routes, plan>>

\* Mutant: the candidates' rejections are forgotten.
RejectedProvidersOfCandidates(route, overrides) ==
    [p \in Providers \ {route[c] : c \in DOMAIN route} |->
        IF p \in DOMAIN overrides THEN overrides[p] ELSE "ALTERNATIVE_NOT_NEEDED"]

\* buildRejectedProviders, with the overrides merged over it.
RejectedProviders(route, overrides) ==
    [p \in (Providers \ {route[c] : c \in DOMAIN route}) \cup DOMAIN rejections |->
        IF p \in DOMAIN overrides THEN overrides[p]
        ELSE IF p \in DOMAIN rejections THEN rejections[p]
        ELSE IF \E r \in input.requested : Claims(p, r.id)
        THEN "ALTERNATIVE_NOT_NEEDED" ELSE "CAPABILITY_NOT_SUPPORTED"]

\* buildPlan; only a native or selected plan carries its assignments.
PlanOf(status, code, route, overrides) ==
    LET carried == IF status \in {"native", "selected"} THEN route ELSE <<>> IN
    [status |-> status, code |-> code, assignments |-> carried,
     selectedProviders |-> IF status = "selected" THEN Selected(route) ELSE {},
     rejectedProviders |-> RejectedProviders(carried, overrides)]

Return(p) ==
    /\ plan' = p
    /\ pc' = "planned"
    /\ UNCHANGED <<input, candidates, rejections, next, routes>>

Current == CapabilityOrder[next]
AtCapability ==
    pc = "extend" /\ next <= Len(CapabilityOrder)
IsRequested == \E r \in input.requested : r.id = Current

BlockUnknown ==
    /\ AtCapability /\ IsRequested
    /\ Current \notin Known /\ Entry(Current).required
    /\ Return(PlanOf("blocked", "CAPABILITY_NOT_SUPPORTED", <<>>, <<>>))

\* An unsupported required capability: the environment is named before the
\* first rejected provider that claims it.
BlockUnsupported ==
    /\ AtCapability /\ IsRequested
    /\ Current \in Known /\ Entry(Current).required
    /\ Supporting(Current) = {}
    /\ LET out == OutOfEnvironment(Current)
           rejected == RejectedFor(Current)
           code == IF out # {} THEN "ENVIRONMENT_UNSUPPORTED"
                   ELSE IF rejected # {} THEN rejections[FirstProvider(rejected)]
                   ELSE "CAPABILITY_NOT_SUPPORTED"
           overrides == IF rejected = {} /\ out # {}
                        THEN [p \in {FirstProvider(out)} |-> "ENVIRONMENT_UNSUPPORTED"]
                        ELSE <<>>
       IN  Return(PlanOf("blocked", code, <<>>, overrides))

Assign(route, c, p) ==
    [d \in DOMAIN route \cup {c} |-> IF d = c THEN p ELSE route[d]]

\* A capability that is not requested has no turn; an optional one may be
\* omitted, an unknown optional one always is.
ExtendRoutes ==
    /\ AtCapability
    /\ LET supporting == IF IsRequested /\ Current \in Known
                         THEN Supporting(Current) ELSE {}
           mayOmit == IsRequested => ~Entry(Current).required
       IN  /\ ~mayOmit => supporting # {}
           /\ routes' = (IF mayOmit THEN routes ELSE {})
                          \cup {Assign(route, Current, p) :
                                route \in routes, p \in supporting}
    /\ next' = next + 1
    /\ UNCHANGED <<input, pc, candidates, rejections, plan>>

\* Mutant: the limit is off by one.
WithinLimitOffByOne ==
    {r \in routes : Cardinality(Selected(r)) <= input.maxProviders + 1}

WithinLimit == {r \in routes : Cardinality(Selected(r)) <= input.maxProviders}
Owned(status) == {r \in WithinLimit : Ownership(r) = status}

AtChoice == pc = "extend" /\ next > Len(CapabilityOrder)

\* Mutant: a tie is broken by taking any of the best routes.
ChooseAnyBest ==
    /\ AtChoice
    /\ \E route \in Best(Owned("ok")) :
        Return(PlanOf(IF route = <<>> THEN "no-sdk"
                      ELSE IF Selected(route) = {} THEN "native" ELSE "selected",
                      Null, route, <<>>))

ChooseRoute ==
    /\ AtChoice
    /\ \E route \in Best(Owned("ok")) :
        /\ Best(Owned("ok")) = {route}
        /\ Return(PlanOf(IF route = <<>> THEN "no-sdk"
                         ELSE IF Selected(route) = {} THEN "native" ELSE "selected",
                         Null, route, <<>>))

AskForArchitecture ==
    /\ AtChoice
    /\ Cardinality(Best(Owned("ok"))) > 1
    /\ Return(PlanOf("needs-input", "MATERIAL_TIE", <<>>, <<>>))

AskForOwnership ==
    /\ AtChoice
    /\ Owned("ok") = {} /\ Owned("needs-input") # {}
    /\ Return(PlanOf("needs-input", "OWNERSHIP_AMBIGUOUS", <<>>, <<>>))

BlockOnOwnership ==
    /\ AtChoice
    /\ Owned("ok") = {} /\ Owned("needs-input") = {} /\ Owned("blocked") # {}
    /\ Return(PlanOf("blocked", "OWNERSHIP_CONFLICT", <<>>, <<>>))

BlockOnLimit ==
    /\ AtChoice
    /\ WithinLimit = {}
    /\ Return(PlanOf("blocked", IF routes # {} THEN "PROVIDER_LIMIT_EXCEEDED"
                                ELSE "CAPABILITY_NOT_SUPPORTED", <<>>, <<>>))

Next ==
    \/ RejectRequest \/ RejectPolicy \/ BuildCandidates
    \/ BlockUnknown \/ BlockUnsupported \/ ExtendRoutes
    \/ ChooseRoute \/ AskForArchitecture \/ AskForOwnership
    \/ BlockOnOwnership \/ BlockOnLimit

Spec == Init /\ [][Next]_vars

-----------------------------------------------------------------------------
(* Properties.  The routes a request admits are defined here by what the   *)
(* documents ask of each provider and each assignment, all at once; the    *)
(* router gets them from three filters and one extension per capability.   *)

Permitted(p) ==
    /\ p \in Policy(input).allowedConnectors
               \ (Policy(input).deniedConnectors \cup input.forbidden)
    /\ input.catalog[p].healthy
    /\ input.catalog[p].runtime # <<>>
    /\ \A i \in DOMAIN input.catalog[p].runtime :
        LET integration == input.catalog[p].runtime[i] IN
        /\ integration.license \in Policy(input).allowedLicenses
        /\ ~integration.risky
        /\ integration.paid => Policy(input).allowPaidServices /\ input.allowPaid

RequestedIds == {r.id : r \in input.requested}
RequiredIds == {r.id : r \in {q \in input.requested : q.required}}

\* Routes that cover what is required with providers the request, the policy
\* and the catalog permit.
Admitted ==
    {f \in UNION {[S -> Providers] : S \in SUBSET (RequestedIds \cap Known)} :
        /\ RequiredIds \subseteq DOMAIN f
        /\ \A c \in DOMAIN f : Permitted(f[c]) /\ Claims(f[c], c) /\ InEnvironment(f[c])
        /\ Cardinality(Selected(f)) <= input.maxProviders}

Safe == {f \in Admitted : Ownership(f) = "ok"}

\* A planned route covers every required capability, from providers that the
\* request, the policy and the catalog permit, within the provider limit and
\* without two owners of one property; it uses no more third-party providers
\* than any other such route and, among those that use as few, covers as much
\* natively as any (core/README.md, decision order; route-capabilities.ts:
\* 536-594, rank.ts:115-127).
PlannedRouteIsLeast ==
    pc = "planned" /\ plan.status \in {"native", "selected"} =>
        LET used(f) == Cardinality(Selected(f))
            native(f) == Cardinality({c \in DOMAIN f : f[c] = Native})
        IN  /\ plan.assignments \in Safe
            /\ \A f \in Safe :
                \/ used(plan.assignments) < used(f)
                \/ /\ used(plan.assignments) = used(f)
                   /\ native(plan.assignments) >= native(f)

\* What the safe routes that rank first, or else the open ones, call for.
StatusOfRoutes ==
    LET open == {f \in Admitted : Ownership(f) = "needs-input"} IN
    IF Cardinality(Best(Safe)) > 1 THEN "needs-input"
    ELSE IF Best(Safe) = {<<>>} THEN "no-sdk"
    ELSE IF Safe # {}
    THEN IF \E f \in Best(Safe) : Selected(f) = {} THEN "native" ELSE "selected"
    ELSE IF open # {} THEN "needs-input" ELSE "blocked"

\* The status tells what there is: a plan is made exactly when one safe route
\* ranks before the others, the caller is asked when several do or when the
\* only routes leave an ownership open, and the answer is "blocked" when no
\* route is left (docs/ARCHITECTURE.md 7.6; route-capabilities.ts:596-733).
StatusTellsRoutes == pc = "planned" => plan.status = StatusOfRoutes

\* Every provider of the router is used by the plan or rejected with a reason,
\* never both; one that was filtered out keeps the reason it was filtered out
\* for (explain.ts:59-107, route-capabilities.ts:286-299).
EveryProviderExplained ==
    pc = "planned" =>
        LET used == {plan.assignments[c] : c \in DOMAIN plan.assignments} IN
        /\ used \cup DOMAIN plan.rejectedProviders = Providers
        /\ used \cap DOMAIN plan.rejectedProviders = {}
        /\ \A p \in Providers : ~Permitted(p) =>
            /\ p \in DOMAIN plan.rejectedProviders
            /\ plan.rejectedProviders[p] \notin
                {"ALTERNATIVE_NOT_NEEDED", "ENVIRONMENT_UNSUPPORTED"}
=============================================================================
