--------------------------- MODULE PlanningProofs ----------------------------
(***************************************************************************)
(* Proofs about the two halves of planning, each for any values of its     *)
(* constants.                                                              *)
(*                                                                         *)
(* Router, for any capabilities, catalog, policy and request: the routes   *)
(* made one capability at a time are all the routes the request admits,    *)
(* hence a plan is the least of them, its status tells how many there are, *)
(* and every provider is explained.                                        *)
(*                                                                         *)
(* PlanEvidence, for any inputs, proposals, requirements and results: the  *)
(* order of ids is an order of the set of items alone; hence evidence has  *)
(* one digest however its parts were ordered, an altered envelope is told  *)
(* from the one that was made, a passed check has its result, and a plan   *)
(* shows drift just when planning again gives another plan.                *)
(*                                                                         *)
(* The two share no state: Spec and RouterInv are the router's,            *)
(* EvidenceSpec and EvidenceInv those of plans and evidence.               *)
(***************************************************************************)
EXTENDS Router, PlanEvidence, FiniteSetTheorems, WellFoundedInduction, TLAPS

-----------------------------------------------------------------------------
(* The router: the inductive invariant *)

\* The capabilities that have had their turn when the n-th is next.
Before(n) == {CapabilityOrder[i] : i \in 1..(n - 1)}

\* The routes over those: one for every way to cover the required ones, and
\* any of the others, with providers that support them.
PartialRoutes(n) ==
    {f \in UNION {[S -> Providers] : S \in SUBSET (RequestedIds \cap Known \cap Before(n))} :
        /\ RequiredIds \cap Before(n) \subseteq DOMAIN f
        /\ \A c \in DOMAIN f : f[c] \in Supporting(c)}

\* Every provider is a candidate or rejected, with the reason of the policy.
ProvidersSorted ==
    /\ candidates = {p \in Providers : Permitted(p)}
    /\ rejections = [p \in Providers \ candidates |-> Rejection(p, input)]

RoutesComplete ==
    /\ ValidRequest
    /\ ProvidersSorted
    /\ next \in 1..(Len(CapabilityOrder) + 1)
    /\ routes = PartialRoutes(next)

RouterInv ==
    /\ input \in Inputs
    /\ pc \in {"validate", "extend", "planned", "failed"}
    /\ pc = "validate" => next = 1 /\ routes = {<<>>}
    /\ pc = "extend" => RoutesComplete
    /\ PlannedRouteIsLeast /\ StatusTellsRoutes /\ EveryProviderExplained

-----------------------------------------------------------------------------
(* The ranks of a route: the two its comparison starts with *)

LEMMA HeadOfThree ==
    ASSUME NEW a, NEW b, NEW d, NEW e, NEW f, NEW g, NEW h,
           NEW S, NEW s \in Seq(S)
    PROVE  LET r == <<a, b, d>> \o s \o <<e, f, g, h>> IN
           /\ 1 \in DOMAIN r /\ 2 \in DOMAIN r
           /\ r[1] = a /\ r[2] = b
<1> DEFINE T == S \cup {a, b, d, e, f, g, h}
<1>1. <<a, b, d>> \in Seq(T) /\ s \in Seq(T) /\ <<e, f, g, h>> \in Seq(T)
    OBVIOUS
<1> QED
    BY <1>1

LEMMA RanksSelected ==
    ASSUME NEW route, IsFiniteSet(Selected(route))
    PROVE  /\ RankOf(route)[1] = Cardinality(Selected(route))
           /\ RankOf(route)[2] = -Cardinality({c \in DOMAIN route : route[c] = Native})
           /\ 1 \in DOMAIN RankOf(route) /\ 2 \in DOMAIN RankOf(route)
<1> DEFINE n == Cardinality(Selected(route))
           ranks == {PreferredRank(p) : p \in Selected(route)}
           upTo(r) == Cardinality({p \in Selected(route) : PreferredRank(p) <= r})
           at(k) == Min({r \in ranks : upTo(r) >= k})
           S == {at(k) : k \in 1..n}
<1>1. n \in Nat
    BY FS_CardinalityType
<1>2. RankVector(route) = [k \in 1..n |-> at(k)]
    BY DEF RankVector
<1>3. [k \in 1..n |-> at(k)] \in Seq(S)
    <2> HIDE DEF n, at
    <2> QED BY <1>1
<1>4. RankVector(route) \in Seq(S)
    BY <1>2, <1>3
<1> DEFINE a == Cardinality(Selected(route))
           b == -Cardinality({c \in DOMAIN route : route[c] = Native})
           d == -Cardinality(Selected(route) \cap input.installed)
           e == -CountOf(route, "primary")
           f == -CountOf(route, "secondary")
           g == CountOf(route, "fallback")
           h == -ConfidenceOf(route)
<1>5. RankOf(route) = <<a, b, d>> \o RankVector(route) \o <<e, f, g, h>>
    BY Zenon DEF RankOf
<1> HIDE DEF S, at, ranks, upTo, a, b, d, e, f, g, h
<1>6. /\ 1 \in DOMAIN RankOf(route) /\ 2 \in DOMAIN RankOf(route)
      /\ RankOf(route)[1] = a /\ RankOf(route)[2] = b
    BY <1>4, <1>5, HeadOfThree
<1> QED
    BY <1>6, Zenon DEF a, b

-----------------------------------------------------------------------------
(* Candidates: what the three filters leave is what is permitted *)

LEMMA LeastIsMember ==
    ASSUME NEW S \in SUBSET Nat, S # {}
    PROVE  Min(S) \in S
<1>1. \E x \in S : \A y \in S : <<y, x>> \notin OpToRel(<, Nat)
    BY NatLessThanWellFounded, WFMin
<1>2. PICK x \in S : \A y \in S : ~(y < x)
    BY <1>1 DEF OpToRel
<1>3. \A y \in S : x =< y
    BY <1>2
<1> QED
    BY <1>3 DEF Min

LEMMA IntegrationFailures ==
    ASSUME NEW in, NEW integration,
           integration.paid \in BOOLEAN, integration.risky \in BOOLEAN
    PROVE  /\ IntegrationFailure(integration, in) \in RejectionCodes \cup {Null}
           /\ IntegrationFailure(integration, in) = Null <=>
                /\ integration.license \in Policy(in).allowedLicenses
                /\ ~integration.risky
                /\ integration.paid => Policy(in).allowPaidServices /\ in.allowPaid
BY NullAssumption DEF IntegrationFailure, RejectionCodes

LEMMA RuntimeFailures ==
    ASSUME NEW in, NEW runtime, IsRuntime(runtime)
    PROVE  /\ RuntimeFailure(runtime, in) \in RejectionCodes \cup {Null}
           /\ RuntimeFailure(runtime, in) = Null <=>
                \A i \in DOMAIN runtime : IntegrationFailure(runtime[i], in) = Null
<1> DEFINE failed == {i \in DOMAIN runtime : IntegrationFailure(runtime[i], in) # Null}
<1>1. failed \in SUBSET Nat
    BY DEF IsRuntime
<1>2. CASE failed = {}
    BY <1>2 DEF RuntimeFailure
<1>3. CASE failed # {}
    <2>1. Min(failed) \in failed
        BY <1>1, <1>3, LeastIsMember
    <2>2. RuntimeFailure(runtime, in) = IntegrationFailure(runtime[Min(failed)], in)
        BY <1>3 DEF RuntimeFailure
    <2>3. IntegrationFailure(runtime[Min(failed)], in) \in RejectionCodes \cup {Null}
        BY <2>1, IntegrationFailures DEF IsRuntime
    <2> QED
        BY <2>1, <2>2, <2>3
<1> QED
    BY <1>2, <1>3

LEMMA RejectedIffNotPermitted ==
    ASSUME input \in Inputs, NEW p \in Providers
    PROVE  /\ Rejection(p, input) \in RejectionCodes \cup {Null}
           /\ Rejection(p, input) = Null <=> Permitted(p)
<1> DEFINE runtime == input.catalog[p].runtime
<1>1. IsRuntime(runtime)
    BY InputsAssumption DEF IsInput
<1>2. /\ RuntimeFailure(runtime, input) \in RejectionCodes \cup {Null}
      /\ RuntimeFailure(runtime, input) = Null <=>
            \A i \in DOMAIN runtime : IntegrationFailure(runtime[i], input) = Null
    BY <1>1, RuntimeFailures
<1>3. \A i \in DOMAIN runtime :
        IntegrationFailure(runtime[i], input) = Null <=>
            /\ runtime[i].license \in Policy(input).allowedLicenses
            /\ ~runtime[i].risky
            /\ runtime[i].paid => Policy(input).allowPaidServices /\ input.allowPaid
    BY <1>1, IntegrationFailures DEF IsRuntime
<1>4. Rejection(p, input) \in RejectionCodes \cup {Null}
    BY <1>2 DEF Rejection, RejectionCodes
<1>5. Rejection(p, input) = Null <=>
        /\ p \notin input.forbidden
        /\ p \in Policy(input).allowedConnectors /\ p \notin Policy(input).deniedConnectors
        /\ input.catalog[p].healthy
        /\ runtime # <<>>
        /\ RuntimeFailure(runtime, input) = Null
    BY NullAssumption DEF Rejection, RejectionCodes
<1> QED
    BY <1>2, <1>3, <1>4, <1>5 DEF Permitted

-----------------------------------------------------------------------------
(* Partial routes: one more capability extends them as ExtendRoutes does *)

LEMMA APartialRoute ==
    ASSUME candidates \subseteq Providers, NEW n, NEW f
    PROVE  f \in PartialRoutes(n) <=>
            /\ f = [c \in DOMAIN f |-> f[c]]
            /\ DOMAIN f \subseteq RequestedIds \cap Known \cap Before(n)
            /\ RequiredIds \cap Before(n) \subseteq DOMAIN f
            /\ \A c \in DOMAIN f : f[c] \in Supporting(c)
<1> DEFINE R == RequestedIds \cap Known \cap Before(n)
           covers == RequiredIds \cap Before(n) \subseteq DOMAIN f
           supported == \A c \in DOMAIN f : f[c] \in Supporting(c)
<1> SUFFICES covers /\ supported =>
        (f \in UNION {[S -> Providers] : S \in SUBSET R} <=>
            f = [c \in DOMAIN f |-> f[c]] /\ DOMAIN f \subseteq R)
    BY DEF PartialRoutes
<1>1. supported => \A c \in DOMAIN f : f[c] \in Providers
    BY DEF Supporting
<1> HIDE DEF R, covers, supported
<1>2. ASSUME supported, f = [c \in DOMAIN f |-> f[c]], DOMAIN f \subseteq R
      PROVE  f \in UNION {[S -> Providers] : S \in SUBSET R}
    <2>1. f \in [DOMAIN f -> Providers]
        BY <1>1, <1>2
    <2> QED
        BY <1>2, <2>1
<1>3. ASSUME f \in UNION {[S -> Providers] : S \in SUBSET R}
      PROVE  f = [c \in DOMAIN f |-> f[c]] /\ DOMAIN f \subseteq R
    <2>1. PICK S \in SUBSET R : f \in [S -> Providers]
        BY <1>3
    <2> QED
        BY <2>1
<1> QED
    BY <1>2, <1>3

LEMMA NothingBefore ==
    ASSUME candidates \subseteq Providers
    PROVE  PartialRoutes(1) = {<<>>}
<1>1. Before(1) = {}
    BY DEF Before
<1>2. ASSUME NEW f \in PartialRoutes(1) PROVE f = <<>>
    <2>1. f = [c \in DOMAIN f |-> f[c]] /\ DOMAIN f = {}
        BY <1>1, APartialRoute
    <2> QED
        BY <2>1
<1>3. <<>> \in PartialRoutes(1)
    <2>1. <<>> = [c \in DOMAIN <<>> |-> <<>>[c]] /\ DOMAIN <<>> = {}
        OBVIOUS
    <2> QED
        BY <1>1, <2>1, APartialRoute
<1> QED
    BY <1>2, <1>3

LEMMA OneMoreBefore ==
    ASSUME NEW n \in 1..Len(CapabilityOrder)
    PROVE  /\ Before(n + 1) = Before(n) \cup {CapabilityOrder[n]}
           /\ CapabilityOrder[n] \notin Before(n)
           /\ CapabilityOrder[n] \in Capabilities
<1>1. DOMAIN CapabilityOrder = 1..Len(CapabilityOrder) /\ Len(CapabilityOrder) \in Nat
    BY OrderAssumption
<1>2. 1..((n + 1) - 1) = 1..(n - 1) \cup {n}
    OBVIOUS
<1>3. Before(n + 1) = Before(n) \cup {CapabilityOrder[n]}
    BY <1>2 DEF Before
<1>4. CapabilityOrder[n] \notin Before(n)
    <2> SUFFICES ASSUME NEW i \in 1..(n - 1), CapabilityOrder[i] = CapabilityOrder[n]
                 PROVE  FALSE
        BY DEF Before
    <2>1. i \in DOMAIN CapabilityOrder /\ n \in DOMAIN CapabilityOrder /\ i # n
        BY <1>1
    <2> QED
        BY <2>1, OrderAssumption
<1> QED
    BY <1>1, <1>3, <1>4 DEF Capabilities

LEMMA AllBefore == Before(Len(CapabilityOrder) + 1) = Capabilities
<1>1. DOMAIN CapabilityOrder = 1..Len(CapabilityOrder) /\ Len(CapabilityOrder) \in Nat
    BY OrderAssumption
<1>2. 1..((Len(CapabilityOrder) + 1) - 1) = DOMAIN CapabilityOrder
    BY <1>1
<1> QED
    BY <1>2 DEF Before, Capabilities

\* An entry that agrees with every other of its id is the one found.
LEMMA RequiredEntry ==
    ASSUME ValidRequest, NEW c
    PROVE  c \in RequiredIds <=> c \in RequestedIds /\ Entry(c).required
<1>1. ASSUME c \in RequestedIds
      PROVE  Entry(c) \in input.requested /\ Entry(c).id = c
    BY <1>1 DEF RequestedIds, Entry
<1>2. \A r \in input.requested : r.id = c => r = Entry(c)
    <2> SUFFICES ASSUME NEW r \in input.requested, r.id = c PROVE r = Entry(c)
        OBVIOUS
    <2>1. Entry(c) \in input.requested /\ Entry(c).id = c
        BY <1>1 DEF RequestedIds
    <2> QED
        BY <2>1 DEF ValidRequest
<1> QED
    BY <1>1, <1>2 DEF RequiredIds, RequestedIds

\* A capability without a turn: not requested or not known.
LEMMA PassedCapability ==
    ASSUME candidates \subseteq Providers, NEW n \in 1..Len(CapabilityOrder),
           CapabilityOrder[n] \notin RequestedIds \cap Known,
           CapabilityOrder[n] \notin RequiredIds
    PROVE  PartialRoutes(n + 1) = PartialRoutes(n)
<1>1. RequestedIds \cap Known \cap Before(n + 1) = RequestedIds \cap Known \cap Before(n)
    BY OneMoreBefore
<1>2. RequiredIds \cap Before(n + 1) = RequiredIds \cap Before(n)
    BY OneMoreBefore
<1> QED
    BY <1>1, <1>2 DEF PartialRoutes

LEMMA TakenCapability ==
    ASSUME candidates \subseteq Providers, NEW n \in 1..Len(CapabilityOrder),
           CapabilityOrder[n] \in RequestedIds \cap Known
    PROVE  \A f : f \in PartialRoutes(n + 1) <=>
                \/ CapabilityOrder[n] \notin RequiredIds /\ f \in PartialRoutes(n)
                \/ \E route \in PartialRoutes(n), p \in Supporting(CapabilityOrder[n]) :
                        f = Assign(route, CapabilityOrder[n], p)
<1> DEFINE k == CapabilityOrder[n]
<1>1. /\ Before(n + 1) = Before(n) \cup {k}
      /\ k \notin Before(n)
    BY OneMoreBefore
<1>2. ASSUME NEW f \in PartialRoutes(n), k \notin RequiredIds
      PROVE  f \in PartialRoutes(n + 1)
    BY <1>1, <1>2, APartialRoute
<1>3. ASSUME NEW route \in PartialRoutes(n), NEW p \in Supporting(k)
      PROVE  Assign(route, k, p) \in PartialRoutes(n + 1)
    <2>1. /\ DOMAIN route \subseteq RequestedIds \cap Known \cap Before(n)
          /\ RequiredIds \cap Before(n) \subseteq DOMAIN route
          /\ \A c \in DOMAIN route : route[c] \in Supporting(c)
        BY APartialRoute
    <2>2. DOMAIN Assign(route, k, p) = DOMAIN route \cup {k}
        BY DEF Assign
    <2>3. Assign(route, k, p) = [c \in DOMAIN Assign(route, k, p) |-> Assign(route, k, p)[c]]
        BY DEF Assign
    <2>4. \A c \in DOMAIN Assign(route, k, p) : Assign(route, k, p)[c] \in Supporting(c)
        BY <2>1, <2>2 DEF Assign
    <2>5. DOMAIN Assign(route, k, p) \subseteq RequestedIds \cap Known \cap Before(n + 1)
        BY <1>1, <2>1, <2>2
    <2>6. RequiredIds \cap Before(n + 1) \subseteq DOMAIN Assign(route, k, p)
        BY <1>1, <2>1, <2>2
    <2> QED
        BY <2>3, <2>4, <2>5, <2>6, APartialRoute
<1>4. ASSUME NEW f \in PartialRoutes(n + 1), k \notin DOMAIN f
      PROVE  k \notin RequiredIds /\ f \in PartialRoutes(n)
    <2>1. /\ f = [c \in DOMAIN f |-> f[c]]
          /\ DOMAIN f \subseteq RequestedIds \cap Known \cap Before(n + 1)
          /\ RequiredIds \cap Before(n + 1) \subseteq DOMAIN f
          /\ \A c \in DOMAIN f : f[c] \in Supporting(c)
        BY APartialRoute
    <2>2. DOMAIN f \subseteq RequestedIds \cap Known \cap Before(n)
        BY <1>1, <1>4, <2>1
    <2>3. RequiredIds \cap Before(n) \subseteq DOMAIN f /\ k \notin RequiredIds
        BY <1>1, <1>4, <2>1
    <2> QED
        BY <2>1, <2>2, <2>3, APartialRoute
<1>5. ASSUME NEW f \in PartialRoutes(n + 1), k \in DOMAIN f
      PROVE  \E route \in PartialRoutes(n), p \in Supporting(k) : f = Assign(route, k, p)
    <2> DEFINE route == [c \in DOMAIN f \ {k} |-> f[c]]
    <2>1. /\ f = [c \in DOMAIN f |-> f[c]]
          /\ DOMAIN f \subseteq RequestedIds \cap Known \cap Before(n + 1)
          /\ RequiredIds \cap Before(n + 1) \subseteq DOMAIN f
          /\ \A c \in DOMAIN f : f[c] \in Supporting(c)
        BY APartialRoute
    <2>2. f = Assign(route, k, f[k])
        BY <1>5, <2>1 DEF Assign
    <2>3. DOMAIN route = DOMAIN f \ {k} /\ route = [c \in DOMAIN route |-> route[c]]
        OBVIOUS
    <2>4. \A c \in DOMAIN route : route[c] \in Supporting(c)
        BY <2>1
    <2> HIDE DEF route
    <2>5. DOMAIN route \subseteq RequestedIds \cap Known \cap Before(n)
        BY <1>1, <2>1, <2>3
    <2>6. RequiredIds \cap Before(n) \subseteq DOMAIN route
        BY <1>1, <2>1, <2>3
    <2>7. route \in PartialRoutes(n)
        BY <2>3, <2>4, <2>5, <2>6, APartialRoute
    <2> QED
        BY <1>5, <2>1, <2>2, <2>7
<1> QED
    BY <1>2, <1>3, <1>4, <1>5

-----------------------------------------------------------------------------
(* At the choice: what is within the limit is what the request admits *)

LEMMA SelectedProviders ==
    ASSUME NEW f, \A c \in DOMAIN f : f[c] \in Providers
    PROVE  IsFiniteSet(Selected(f)) /\ Cardinality(Selected(f)) \in Nat
<1>1. IsFiniteSet(Providers)
    <2>1. IsFiniteSet({}) /\ IsFiniteSet({} \cup {"gsap"})
        BY FS_EmptySet, FS_AddElement
    <2>2. IsFiniteSet(({} \cup {"gsap"}) \cup {"motion"})
        BY <2>1, FS_AddElement
    <2>3. IsFiniteSet((({} \cup {"gsap"}) \cup {"motion"}) \cup {"web-platform"})
        BY <2>2, FS_AddElement
    <2>4. (({} \cup {"gsap"}) \cup {"motion"}) \cup {"web-platform"} = Providers
        BY DEF Providers
    <2> QED
        BY <2>3, <2>4
<1>2. Selected(f) \in SUBSET Providers
    BY DEF Selected
<1> QED
    BY <1>1, <1>2, FS_Subset, FS_CardinalityType

LEMMA FinitelyManyNative ==
    ASSUME NEW f, DOMAIN f \subseteq RequestedIds, input \in Inputs
    PROVE  Cardinality({c \in DOMAIN f : f[c] = Native}) \in Nat
<1> DEFINE n == Len(CapabilityOrder)
<1>1. n \in Nat /\ DOMAIN CapabilityOrder = 1..n
    BY OrderAssumption
<1>2. IsFiniteSet(1..n)
    BY <1>1, FS_Interval
<1>3. CapabilityOrder \in Surjection(1..n, Capabilities)
    BY <1>1, OrderAssumption DEF Surjection, Capabilities
<1>4. IsFiniteSet(Capabilities)
    BY <1>2, <1>3, FS_Surjection
<1>5. {c \in DOMAIN f : f[c] = Native} \in SUBSET Capabilities
    BY InputsAssumption DEF IsInput, RequestedIds
<1> QED
    BY <1>4, <1>5, FS_Subset, FS_CardinalityType

LEMMA AnAdmittedRoute ==
    ASSUME input \in Inputs, NEW f
    PROVE  f \in Admitted <=>
            /\ f = [c \in DOMAIN f |-> f[c]]
            /\ DOMAIN f \subseteq RequestedIds \cap Known
            /\ \A c \in DOMAIN f : f[c] \in Providers
            /\ RequiredIds \subseteq DOMAIN f
            /\ \A c \in DOMAIN f : Permitted(f[c]) /\ Claims(f[c], c) /\ InEnvironment(f[c])
            /\ Cardinality(Selected(f)) <= input.maxProviders
<1> DEFINE R == RequestedIds \cap Known
           fits == /\ RequiredIds \subseteq DOMAIN f
                   /\ \A c \in DOMAIN f :
                        Permitted(f[c]) /\ Claims(f[c], c) /\ InEnvironment(f[c])
                   /\ Cardinality(Selected(f)) <= input.maxProviders
<1>1. f \in Admitted <=> f \in UNION {[S -> Providers] : S \in SUBSET R} /\ fits
    BY DEF Admitted
<1>2. f \in UNION {[S -> Providers] : S \in SUBSET R} <=>
        /\ f = [c \in DOMAIN f |-> f[c]]
        /\ DOMAIN f \subseteq R
        /\ \A c \in DOMAIN f : f[c] \in Providers
    <2> HIDE DEF R
    <2>1. ASSUME f \in UNION {[S -> Providers] : S \in SUBSET R}
          PROVE  /\ f = [c \in DOMAIN f |-> f[c]]
                 /\ DOMAIN f \subseteq R
                 /\ \A c \in DOMAIN f : f[c] \in Providers
        <3>1. PICK S \in SUBSET R : f \in [S -> Providers]
            BY <2>1
        <3> QED
            BY <3>1
    <2>2. ASSUME /\ f = [c \in DOMAIN f |-> f[c]]
                 /\ DOMAIN f \subseteq R
                 /\ \A c \in DOMAIN f : f[c] \in Providers
          PROVE  f \in UNION {[S -> Providers] : S \in SUBSET R}
        <3>1. f \in [DOMAIN f -> Providers]
            BY <2>2
        <3> QED
            BY <2>2, <3>1
    <2> QED
        BY <2>1, <2>2
<1> QED
    BY <1>1, <1>2

LEMMA WithinLimitIsAdmitted ==
    ASSUME input \in Inputs, RoutesComplete, next > Len(CapabilityOrder)
    PROVE  WithinLimit = Admitted
<1>1. candidates = {p \in Providers : Permitted(p)} /\ candidates \subseteq Providers
    BY DEF RoutesComplete, ProvidersSorted
<1>2. next = Len(CapabilityOrder) + 1
    <2>1. Len(CapabilityOrder) \in Nat
        BY OrderAssumption
    <2> QED
        BY <2>1 DEF RoutesComplete
<1>3. Before(next) = Capabilities
    BY <1>2, AllBefore
<1>4. RequestedIds \subseteq Capabilities /\ RequiredIds \subseteq Capabilities
    BY InputsAssumption DEF IsInput, RequestedIds, RequiredIds
<1>5. routes = PartialRoutes(next)
    BY DEF RoutesComplete
<1>6. ASSUME NEW f
      PROVE  f \in routes <=>
                /\ f = [c \in DOMAIN f |-> f[c]]
                /\ DOMAIN f \subseteq RequestedIds \cap Known
                /\ RequiredIds \subseteq DOMAIN f
                /\ \A c \in DOMAIN f : f[c] \in Supporting(c)
    <2>1. f \in routes <=>
                /\ f = [c \in DOMAIN f |-> f[c]]
                /\ DOMAIN f \subseteq RequestedIds \cap Known \cap Before(next)
                /\ RequiredIds \cap Before(next) \subseteq DOMAIN f
                /\ \A c \in DOMAIN f : f[c] \in Supporting(c)
        BY <1>1, <1>5, APartialRoute
    <2>2. RequestedIds \cap Known \cap Before(next) = RequestedIds \cap Known
        BY <1>3, <1>4
    <2>3. RequiredIds \cap Before(next) = RequiredIds
        BY <1>3, <1>4
    <2> QED
        BY <2>1, <2>2, <2>3
<1>7. ASSUME NEW f
      PROVE  (\A c \in DOMAIN f : f[c] \in Supporting(c)) <=>
                /\ \A c \in DOMAIN f : f[c] \in Providers
                /\ \A c \in DOMAIN f :
                    Permitted(f[c]) /\ Claims(f[c], c) /\ InEnvironment(f[c])
    BY <1>1 DEF Supporting
<1>8. \A f : f \in routes /\ Cardinality(Selected(f)) <= input.maxProviders <=> f \in Admitted
    BY <1>6, <1>7, AnAdmittedRoute
<1> QED
    BY <1>8 DEF WithinLimit, Admitted

\* A route that none is better than uses as few third-party providers as any
\* and, of those that use as few, covers as much natively.
LEMMA BestIsLeast ==
    ASSUME input \in Inputs, NEW route \in Best(Safe), NEW f \in Safe
    PROVE  \/ Cardinality(Selected(route)) < Cardinality(Selected(f))
           \/ /\ Cardinality(Selected(route)) = Cardinality(Selected(f))
              /\ Cardinality({c \in DOMAIN route : route[c] = Native})
                    >= Cardinality({c \in DOMAIN f : f[c] = Native})
<1> DEFINE used(g) == Cardinality(Selected(g))
           native(g) == Cardinality({c \in DOMAIN g : g[c] = Native})
<1>1. route \in Safe /\ ~Better(f, route)
    BY DEF Best
<1>2. ASSUME NEW g \in Safe
      PROVE  /\ used(g) \in Nat /\ native(g) \in Nat
             /\ RankOf(g)[1] = used(g) /\ RankOf(g)[2] = -native(g)
             /\ 1 \in DOMAIN RankOf(g) /\ 2 \in DOMAIN RankOf(g)
    <2>1. DOMAIN g \subseteq RequestedIds /\ \A c \in DOMAIN g : g[c] \in Providers
        BY AnAdmittedRoute DEF Safe
    <2>2. IsFiniteSet(Selected(g)) /\ used(g) \in Nat /\ native(g) \in Nat
        BY <2>1, SelectedProviders, FinitelyManyNative
    <2> QED
        BY <2>2, RanksSelected
<1> DEFINE r == RankOf(f)  o == RankOf(route)
<1>3. \A i \in DOMAIN r : ~((\A j \in 1..(i - 1) : r[j] = o[j]) /\ r[i] < o[i])
    BY <1>1 DEF Better
<1>4. /\ r[1] = used(f) /\ r[2] = -native(f) /\ 1 \in DOMAIN r /\ 2 \in DOMAIN r
      /\ o[1] = used(route) /\ o[2] = -native(route)
      /\ used(f) \in Nat /\ native(f) \in Nat /\ used(route) \in Nat /\ native(route) \in Nat
    BY <1>1, <1>2
<1> HIDE DEF r, o, used, native
<1>5. ~(r[1] < o[1])
    <2>1. \A j \in 1..(1 - 1) : r[j] = o[j]
        OBVIOUS
    <2> QED
        BY <1>3, <1>4, <2>1
<1>6. r[1] = o[1] => ~(r[2] < o[2])
    <2>1. r[1] = o[1] => \A j \in 1..(2 - 1) : r[j] = o[j]
        OBVIOUS
    <2> QED
        BY <1>3, <1>4, <2>1
<1>7. used(route) < used(f) \/ (used(route) = used(f) /\ native(route) >= native(f))
    BY <1>4, <1>5, <1>6
<1> QED
    BY <1>7 DEF used, native

-----------------------------------------------------------------------------
(* What the properties read of the state besides the plan is the call,     *)
(* which no step changes.                                                  *)

LEMMA SameAdmitted ==
    ASSUME input' = input
    PROVE  /\ Admitted' = Admitted
           /\ \A p : Permitted(p)' <=> Permitted(p)
<1>1. \A p : Permitted(p)' <=> Permitted(p)
    BY DEF Permitted, Policy
<1>2. \A p, c : (Claims(p, c)' <=> Claims(p, c)) /\ (InEnvironment(p)' <=> InEnvironment(p))
    BY DEF Claims, InEnvironment
<1>3. RequestedIds' = RequestedIds /\ RequiredIds' = RequiredIds
    BY DEF RequestedIds, RequiredIds
<1>4. \A f : f \in Admitted' <=> f \in Admitted
    BY <1>1, <1>2, <1>3 DEF Admitted, Selected
<1> QED
    BY <1>1, <1>4 DEF Admitted

LEMMA SameSafe ==
    ASSUME input' = input
    PROVE  /\ Safe' = Safe
           /\ \A f : Ownership(f)' = Ownership(f)
<1>1. \A c : Entry(c)' = Entry(c)
    BY DEF Entry
<1>2. \A c, d, f : SharesScope(c, d, f)' <=> SharesScope(c, d, f)
    BY <1>1 DEF SharesScope
<1>3. \A c : Property(c)' = Property(c) /\ PossibleProperties(c)' = PossibleProperties(c)
    BY <1>1 DEF Property, PossibleProperties
<1>4. \A c, d, f : /\ Collides(c, d, f)' <=> Collides(c, d, f)
                   /\ MayOverlap(c, d, f)' <=> MayOverlap(c, d, f)
    BY <1>1, <1>2, <1>3 DEF Collides, MayOverlap
<1>5. \A f : Ownership(f)' = Ownership(f)
    BY <1>4 DEF Ownership
<1> QED
    BY <1>5, SameAdmitted DEF Safe

LEMMA SameBest ==
    ASSUME input' = input
    PROVE  Best(Safe)' = Best(Safe)
<1>1. \A c, f : ClaimOf(c, f)' = ClaimOf(c, f)
    BY DEF ClaimOf
<1>2. \A f, support : CountOf(f, support)' = CountOf(f, support)
    BY <1>1 DEF CountOf
<1>3. \A f : ConfidenceOf(f)' = ConfidenceOf(f)
    BY <1>1 DEF ConfidenceOf
<1>4. \A p : PreferredRank(p)' = PreferredRank(p)
    BY DEF PreferredRank
<1>5. \A f : RankVector(f)' = RankVector(f)
    BY <1>4 DEF RankVector
<1>6. \A f : RankOf(f)' = RankOf(f)
    BY <1>2, <1>3, <1>5 DEF RankOf
<1>7. \A f, g : Better(f, g)' <=> Better(f, g)
    BY <1>6 DEF Better
<1> QED
    BY <1>7, SameSafe DEF Best

LEMMA SamePartialRoutes ==
    ASSUME input' = input, candidates' = candidates, NEW n
    PROVE  PartialRoutes(n)' = PartialRoutes(n)
<1>1. RequestedIds' = RequestedIds /\ RequiredIds' = RequiredIds
    BY DEF RequestedIds, RequiredIds
<1>2. \A c : Supporting(c)' = Supporting(c)
    BY DEF Supporting, Claims, InEnvironment
<1>3. Before(n)' = Before(n)
    BY DEF Before
<1>4. \A f : f \in PartialRoutes(n)' <=> f \in PartialRoutes(n)
    BY <1>1, <1>2, <1>3 DEF PartialRoutes
<1> QED
    BY <1>4 DEF PartialRoutes

-----------------------------------------------------------------------------
(* A plan that is returned *)

\* What EveryProviderExplained asks of a plan.
Explained(p) ==
    LET used == {p.assignments[c] : c \in DOMAIN p.assignments} IN
    /\ used \cup DOMAIN p.rejectedProviders = Providers
    /\ used \cap DOMAIN p.rejectedProviders = {}
    /\ \A q \in Providers : ~Permitted(q) =>
        /\ q \in DOMAIN p.rejectedProviders
        /\ p.rejectedProviders[q] \notin
            {"ALTERNATIVE_NOT_NEEDED", "ENVIRONMENT_UNSUPPORTED"}

LEMMA PlanExplains ==
    ASSUME input \in Inputs, ProvidersSorted,
           NEW status, NEW code, NEW route, NEW overrides,
           status \in {"native", "selected"} => \A c \in DOMAIN route : route[c] \in candidates,
           DOMAIN overrides \subseteq candidates
    PROVE  Explained(PlanOf(status, code, route, overrides))
<1> DEFINE carried == IF status \in {"native", "selected"} THEN route ELSE <<>>
           used == {carried[c] : c \in DOMAIN carried}
           rejected == RejectedProviders(carried, overrides)
<1>1. /\ PlanOf(status, code, route, overrides).assignments = carried
      /\ PlanOf(status, code, route, overrides).rejectedProviders = rejected
    BY DEF PlanOf
<1>2. used \subseteq candidates
    OBVIOUS
<1>3. /\ candidates = {p \in Providers : Permitted(p)}
      /\ rejections = [p \in Providers \ candidates |-> Rejection(p, input)]
    BY DEF ProvidersSorted
<1> HIDE DEF carried
<1>4. DOMAIN rejected = (Providers \ used) \cup (Providers \ candidates)
    BY <1>3 DEF RejectedProviders
<1>5. ASSUME NEW q \in Providers, ~Permitted(q)
      PROVE  /\ q \in DOMAIN rejected
             /\ rejected[q] \notin {"ALTERNATIVE_NOT_NEEDED", "ENVIRONMENT_UNSUPPORTED"}
    <2>1. q \notin candidates /\ q \in DOMAIN rejections
        BY <1>3, <1>5
    <2>2. rejected[q] = Rejection(q, input)
        BY <1>3, <2>1 DEF RejectedProviders
    <2>3. Rejection(q, input) \in RejectionCodes
        BY <1>5, RejectedIffNotPermitted
    <2> QED
        BY <1>4, <2>1, <2>2, <2>3 DEF RejectionCodes
<1> HIDE DEF rejected
<1>6. used \cup DOMAIN rejected = Providers /\ used \cap DOMAIN rejected = {}
    <2> HIDE DEF used
    <2> QED
        BY <1>2, <1>3, <1>4
<1> QED
    BY <1>1, <1>5, <1>6 DEF Explained

LEMMA ReturnKeeps ==
    ASSUME input \in Inputs, NEW p, Return(p),
           p.status \in {"native", "selected"} => p.assignments \in Best(Safe),
           p.status = StatusOfRoutes,
           Explained(p)
    PROVE  RouterInv'
<1>1. plan' = p /\ pc' = "planned" /\ input' = input
    BY DEF Return
<1>2. Best(Safe)' = Best(Safe) /\ Safe' = Safe /\ Admitted' = Admitted
    BY <1>1, SameBest, SameSafe, SameAdmitted
<1>3. PlannedRouteIsLeast'
    <2> DEFINE route == p.assignments
               used(f) == Cardinality(Selected(f))
               native(f) == Cardinality({c \in DOMAIN f : f[c] = Native})
    <2>1. ASSUME p.status \in {"native", "selected"}
          PROVE  /\ route \in Safe
                 /\ \A f \in Safe :
                    \/ used(route) < used(f)
                    \/ used(route) = used(f) /\ native(route) >= native(f)
        <3>1. route \in Best(Safe) /\ route \in Safe
            BY <2>1 DEF Best
        <3> QED
            BY <3>1, BestIsLeast
    <2> QED
        BY <1>1, <1>2, <2>1 DEF PlannedRouteIsLeast, Selected
<1>4. StatusTellsRoutes'
    <2>1. \A f : Ownership(f)' = Ownership(f)
        BY <1>1, SameSafe
    <2>2. {f \in Admitted : Ownership(f) = "needs-input"}' =
            {f \in Admitted : Ownership(f) = "needs-input"}
        BY <1>2, <2>1
    <2> QED
        BY <1>1, <1>2, <2>2 DEF StatusTellsRoutes, StatusOfRoutes, Selected
<1>5. EveryProviderExplained'
    <2>1. \A q : Permitted(q)' <=> Permitted(q)
        BY <1>1, SameAdmitted
    <2> QED
        BY <1>1, <2>1 DEF EveryProviderExplained, Explained
<1> QED
    BY <1>1, <1>3, <1>4, <1>5 DEF RouterInv

-----------------------------------------------------------------------------
(* Every action *)

LEMMA FailureKeeps ==
    ASSUME RouterInv, NEW code, FailWith(code)
    PROVE  RouterInv'
BY DEF RouterInv, FailWith, PlannedRouteIsLeast, StatusTellsRoutes, EveryProviderExplained

LEMMA NoRouteAtFirst ==
    candidates \subseteq Providers => PartialRoutes(1) = {<<>>}
BY NothingBefore

LEMMA CandidatesAreComplete ==
    ASSUME RouterInv, BuildCandidates
    PROVE  RouterInv'
<1>1. /\ input' = input /\ input \in Inputs /\ pc' = "extend" /\ plan' = plan
      /\ next' = 1 /\ routes' = {<<>>}
      /\ candidates' = {p \in Providers : Rejection(p, input) = Null}
      /\ rejections' = [p \in Providers \ candidates' |-> Rejection(p, input)]
      /\ ValidRequest
    BY DEF RouterInv, BuildCandidates
<1>2. ValidRequest'
    BY <1>1 DEF ValidRequest
<1>3. ProvidersSorted'
    <2>1. candidates' = {p \in Providers : Permitted(p)}
        BY <1>1, RejectedIffNotPermitted
    <2>2. \A p : Permitted(p)' <=> Permitted(p)
        BY <1>1, SameAdmitted
    <2>3. \A p : Rejection(p, input)' = Rejection(p, input)
        BY <1>1
    <2> QED
        BY <1>1, <2>1, <2>2, <2>3 DEF ProvidersSorted
<1>4. routes' = PartialRoutes(1)'
    <2>1. candidates' \subseteq Providers
        BY <1>1
    <2>2. (candidates \subseteq Providers => PartialRoutes(1) = {<<>>})'
        BY NoRouteAtFirst, PTL
    <2> QED
        BY <1>1, <2>1, <2>2
<1>5. 1 \in 1..(Len(CapabilityOrder) + 1)
    BY OrderAssumption
<1>6. RoutesComplete'
    BY <1>1, <1>2, <1>3, <1>4, <1>5 DEF RoutesComplete
<1> QED
    BY <1>1, <1>6 DEF RouterInv, PlannedRouteIsLeast, StatusTellsRoutes, EveryProviderExplained

LEMMA ExtensionIsComplete ==
    ASSUME RouterInv, ExtendRoutes
    PROVE  RouterInv'
<1> DEFINE k == CapabilityOrder[next]
           supporting == IF IsRequested /\ k \in Known THEN Supporting(k) ELSE {}
           mayOmit == IsRequested => ~Entry(k).required
<1>1. /\ input' = input /\ pc' = pc /\ pc = "extend" /\ next <= Len(CapabilityOrder)
      /\ candidates' = candidates /\ rejections' = rejections /\ plan' = plan
      /\ next' = next + 1
      /\ ~mayOmit => supporting # {}
      /\ routes' = (IF mayOmit THEN routes ELSE {})
                    \cup {Assign(route, k, p) : route \in routes, p \in supporting}
    BY DEF ExtendRoutes, AtCapability, Current
<1>2. /\ input \in Inputs /\ ValidRequest /\ ProvidersSorted
      /\ next \in 1..(Len(CapabilityOrder) + 1)
      /\ routes = PartialRoutes(next)
    BY <1>1 DEF RouterInv, RoutesComplete
<1>3. next \in 1..Len(CapabilityOrder) /\ next + 1 \in 1..(Len(CapabilityOrder) + 1)
    <2>1. Len(CapabilityOrder) \in Nat
        BY OrderAssumption
    <2> QED
        BY <1>1, <1>2, <2>1
<1>4. candidates \subseteq Providers
    BY <1>2 DEF ProvidersSorted
<1>5. IsRequested <=> k \in RequestedIds
    BY DEF IsRequested, Current, RequestedIds
<1>6. mayOmit <=> k \notin RequiredIds
    BY <1>2, <1>5, RequiredEntry
<1>k. k = CapabilityOrder[next]
    OBVIOUS
<1> HIDE DEF k, mayOmit
<1>7. routes' = PartialRoutes(next + 1)
    <2>1. CASE k \in RequestedIds \cap Known
        <3>1. supporting = Supporting(k)
            BY <1>5, <2>1
        <3> HIDE DEF supporting
        <3>2. \A f : f \in PartialRoutes(next + 1) <=>
                \/ k \notin RequiredIds /\ f \in PartialRoutes(next)
                \/ \E route \in PartialRoutes(next), p \in Supporting(k) :
                        f = Assign(route, k, p)
            <4>1. CapabilityOrder[next] \in RequestedIds \cap Known
                BY <1>k, <2>1
            <4>2. \A f : f \in PartialRoutes(next + 1) <=>
                    \/ CapabilityOrder[next] \notin RequiredIds /\ f \in PartialRoutes(next)
                    \/ \E route \in PartialRoutes(next), p \in Supporting(CapabilityOrder[next]) :
                            f = Assign(route, CapabilityOrder[next], p)
                BY <1>3, <1>4, <4>1, TakenCapability, Zenon
            <4> QED
                BY <1>k, <4>2
        <3>3. \A f : f \in routes' <=>
                \/ mayOmit /\ f \in routes
                \/ \E route \in routes, p \in supporting : f = Assign(route, k, p)
            BY <1>1
        <3>4. \A f : f \in routes' <=> f \in PartialRoutes(next + 1)
            BY <1>2, <1>6, <3>1, <3>2, <3>3
        <3> QED
            BY <1>1, <3>4 DEF PartialRoutes
    <2>2. CASE k \notin RequestedIds \cap Known
        <3>1. supporting = {}
            BY <1>5, <2>2
        <3> HIDE DEF supporting
        <3>2. k \notin RequiredIds
            BY <1>1, <1>6, <3>1
        <3>3. PartialRoutes(next + 1) = PartialRoutes(next)
            BY <1>3, <1>4, <2>2, <3>2, PassedCapability DEF k
        <3>4. {Assign(route, k, p) : route \in routes, p \in supporting} = {}
            BY <3>1
        <3> DEFINE extended == {Assign(route, k, p) : route \in routes, p \in supporting}
        <3>5. routes' = (IF mayOmit THEN routes ELSE {}) \cup extended
            BY <1>1
        <3> HIDE DEF extended
        <3>6. extended = {}
            BY <3>4 DEF extended
        <3> QED
            BY <1>2, <1>6, <3>2, <3>3, <3>5, <3>6
    <2> QED
        BY <2>1, <2>2
<1>8. RoutesComplete'
    <2>2. \A n : PartialRoutes(n)' = PartialRoutes(n)
        BY <1>1, SamePartialRoutes
    <2>3. routes' = PartialRoutes(next)'
        BY <1>1, <1>7, <2>2
    <2>4. ProvidersSorted'
        <3>1. \A p : Permitted(p)' <=> Permitted(p)
            BY <1>1, SameAdmitted
        <3> QED
            BY <1>1, <1>2, <3>1 DEF ProvidersSorted
    <2>5. ValidRequest'
        BY <1>1, <1>2 DEF ValidRequest
    <2> QED
        BY <1>1, <1>3, <2>3, <2>4, <2>5 DEF RoutesComplete
<1> QED
    BY <1>1, <1>2, <1>8
    DEF RouterInv, PlannedRouteIsLeast, StatusTellsRoutes, EveryProviderExplained

\* Without an admitted route there is no safe one and no open one.
LEMMA NothingAdmitted ==
    ASSUME Admitted = {}
    PROVE  StatusOfRoutes = "blocked"
<1>1. Safe = {} /\ Best(Safe) = {}
    BY DEF Safe, Best
<1>2. Cardinality(Best(Safe)) = 0
    BY <1>1, FS_EmptySet
<1>3. Best(Safe) # {<<>>}
    BY <1>1
<1>4. {f \in Admitted : Ownership(f) = "needs-input"} = {}
    OBVIOUS
<1> QED
    BY <1>1, <1>2, <1>3, <1>4 DEF StatusOfRoutes

LEMMA UnknownKeeps ==
    ASSUME RouterInv, BlockUnknown
    PROVE  RouterInv'
<1> DEFINE p == PlanOf("blocked", "CAPABILITY_NOT_SUPPORTED", <<>>, <<>>)
<1>1. /\ input \in Inputs /\ ValidRequest /\ ProvidersSorted /\ Return(p)
      /\ Current \notin Known /\ IsRequested /\ Entry(Current).required
    BY DEF RouterInv, RoutesComplete, BlockUnknown, AtCapability
<1>2. Current \in RequiredIds
    BY <1>1, RequiredEntry DEF IsRequested, RequestedIds
<1>3. Admitted = {}
    <2> SUFFICES ASSUME NEW f \in Admitted PROVE FALSE
        OBVIOUS
    <2>1. RequiredIds \subseteq DOMAIN f /\ DOMAIN f \subseteq Known
        BY <1>1, AnAdmittedRoute
    <2> QED
        BY <1>1, <1>2, <2>1
<1>4. p.status = "blocked" /\ StatusOfRoutes = "blocked"
    BY <1>3, NothingAdmitted DEF PlanOf
<1>5. Explained(p)
    BY <1>1, PlanExplains
<1> HIDE DEF p
<1> QED
    BY <1>1, <1>4, <1>5, ReturnKeeps

LEMMA FirstIsMember ==
    ASSUME NEW providers \in SUBSET Providers, providers # {}
    PROVE  FirstProvider(providers) \in providers
<1> DEFINE at == {i \in DOMAIN ProviderOrder : ProviderOrder[i] \in providers}
<1>1. at \in SUBSET Nat /\ at # {}
    <2>1. /\ DOMAIN ProviderOrder = 1..3
          /\ ProviderOrder[1] = "gsap" /\ ProviderOrder[2] = "motion"
          /\ ProviderOrder[3] = "web-platform"
        BY DEF ProviderOrder
    <2>2. "gsap" \in providers \/ "motion" \in providers \/ "web-platform" \in providers
        BY DEF Providers
    <2>3. 1 \in at \/ 2 \in at \/ 3 \in at
        BY <2>1, <2>2
    <2> QED
        BY <2>1, <2>3
<1>2. Min(at) \in at
    BY <1>1, LeastIsMember
<1> QED
    BY <1>2 DEF FirstProvider

LEMMA UnsupportedKeeps ==
    ASSUME RouterInv, BlockUnsupported
    PROVE  RouterInv'
<1> DEFINE out == OutOfEnvironment(Current)
           rejected == RejectedFor(Current)
           code == IF out # {} THEN "ENVIRONMENT_UNSUPPORTED"
                   ELSE IF rejected # {} THEN rejections[FirstProvider(rejected)]
                   ELSE "CAPABILITY_NOT_SUPPORTED"
           overrides == IF rejected = {} /\ out # {}
                        THEN [p \in {FirstProvider(out)} |-> "ENVIRONMENT_UNSUPPORTED"]
                        ELSE <<>>
           plan0 == PlanOf("blocked", code, <<>>, overrides)
<1>1. /\ input \in Inputs /\ ValidRequest /\ ProvidersSorted /\ Return(plan0)
      /\ IsRequested /\ Entry(Current).required /\ Supporting(Current) = {}
    BY DEF RouterInv, RoutesComplete, BlockUnsupported, AtCapability
<1>2. Current \in RequiredIds
    BY <1>1, RequiredEntry DEF IsRequested, RequestedIds
<1>3. Admitted = {}
    <2> SUFFICES ASSUME NEW f \in Admitted PROVE FALSE
        OBVIOUS
    <2>1. /\ Current \in DOMAIN f /\ f[Current] \in Providers
          /\ Permitted(f[Current]) /\ Claims(f[Current], Current) /\ InEnvironment(f[Current])
        BY <1>1, <1>2, AnAdmittedRoute
    <2>2. f[Current] \in Supporting(Current)
        BY <1>1, <2>1 DEF Supporting, ProvidersSorted
    <2> QED
        BY <1>1, <2>2
<1>4. plan0.status = "blocked" /\ StatusOfRoutes = "blocked"
    BY <1>3, NothingAdmitted DEF PlanOf
<1>5. DOMAIN overrides \subseteq candidates
    <2>1. out \in SUBSET Providers /\ out \subseteq candidates
        BY <1>1 DEF OutOfEnvironment, ProvidersSorted
    <2>2. out # {} => FirstProvider(out) \in candidates
        BY <2>1, FirstIsMember
    <2> HIDE DEF out, rejected
    <2> QED
        BY <2>2
<1>6. Explained(plan0)
    <2> HIDE DEF overrides, code
    <2> QED
        BY <1>1, <1>5, PlanExplains
<1> HIDE DEF plan0
<1> QED
    BY <1>1, <1>4, <1>6, ReturnKeeps

\* What holds at the choice.
LEMMA AtTheChoice ==
    ASSUME RouterInv, AtChoice
    PROVE  /\ input \in Inputs /\ ProvidersSorted
           /\ WithinLimit = Admitted /\ Owned("ok") = Safe
           /\ \A f \in Safe : \A c \in DOMAIN f : f[c] \in candidates
           /\ Best(Safe) \subseteq Safe
<1>1. input \in Inputs /\ RoutesComplete /\ next > Len(CapabilityOrder)
    BY DEF RouterInv, AtChoice
<1>2. ProvidersSorted /\ candidates = {p \in Providers : Permitted(p)}
    BY <1>1 DEF RoutesComplete, ProvidersSorted
<1>3. WithinLimit = Admitted
    BY <1>1, WithinLimitIsAdmitted
<1>4. Owned("ok") = Safe
    BY <1>3 DEF Owned, Safe
<1>5. \A f \in Admitted : \A c \in DOMAIN f : f[c] \in candidates
    BY <1>1, <1>2, AnAdmittedRoute
<1>6. Safe \subseteq Admitted /\ Best(Safe) \subseteq Safe
    BY DEF Safe, Best
<1> QED
    BY <1>1, <1>2, <1>3, <1>4, <1>5, <1>6

LEMMA ChoiceKeeps ==
    ASSUME RouterInv, ChooseRoute
    PROVE  RouterInv'
<1> DEFINE status(route) == IF route = <<>> THEN "no-sdk"
                            ELSE IF Selected(route) = {} THEN "native" ELSE "selected"
           planFor(route) == PlanOf(status(route), Null, route, <<>>)
<1>1. /\ input \in Inputs /\ ProvidersSorted /\ Owned("ok") = Safe
      /\ \A f \in Safe : \A c \in DOMAIN f : f[c] \in candidates
      /\ Best(Safe) \subseteq Safe
    BY AtTheChoice DEF ChooseRoute
<1>2. PICK route \in Best(Safe) : Best(Safe) = {route} /\ Return(planFor(route))
    BY <1>1 DEF ChooseRoute
<1>3. StatusOfRoutes = status(route)
    <2>1. Cardinality(Best(Safe)) = 1
        BY <1>2, FS_Singleton
    <2>2. Safe # {}
        BY <1>1, <1>2
    <2>3. Best(Safe) = {<<>>} <=> route = <<>>
        BY <1>2
    <2>4. (\E f \in Best(Safe) : Selected(f) = {}) <=> Selected(route) = {}
        BY <1>2
    <2>5. ~(Cardinality(Best(Safe)) > 1)
        BY <2>1
    <2> QED
        BY <2>2, <2>3, <2>4, <2>5 DEF StatusOfRoutes
<1>4. planFor(route).status = status(route)
    BY DEF PlanOf
<1>5. planFor(route).status \in {"native", "selected"} =>
        planFor(route).assignments \in Best(Safe)
    BY <1>2 DEF PlanOf
<1>6. Explained(planFor(route))
    <2>1. \A c \in DOMAIN route : route[c] \in candidates
        BY <1>1, <1>2
    <2> HIDE DEF status
    <2> QED
        BY <1>1, <2>1, PlanExplains
<1> HIDE DEF planFor
<1> QED
    BY <1>1, <1>2, <1>3, <1>4, <1>5, <1>6, ReturnKeeps

\* A plan without assignments.
LEMMA BareReturnKeeps ==
    ASSUME RouterInv, AtChoice, NEW status \in {"needs-input", "blocked"}, NEW code,
           Return(PlanOf(status, code, <<>>, <<>>)), StatusOfRoutes = status
    PROVE  RouterInv'
<1> DEFINE p == PlanOf(status, code, <<>>, <<>>)
<1>1. input \in Inputs /\ ProvidersSorted
    BY AtTheChoice
<1>2. p.status = status
    BY DEF PlanOf
<1>3. Explained(p)
    BY <1>1, PlanExplains
<1> HIDE DEF p
<1>4. Return(p)
    BY DEF p
<1> QED
    BY <1>1, <1>2, <1>3, <1>4, ReturnKeeps

LEMMA OtherAnswersKeep ==
    ASSUME RouterInv,
           AskForArchitecture \/ AskForOwnership \/ BlockOnOwnership \/ BlockOnLimit
    PROVE  RouterInv'
<1> DEFINE open == {f \in Admitted : Ownership(f) = "needs-input"}
<1>1. AtChoice
    BY DEF AskForArchitecture, AskForOwnership, BlockOnOwnership, BlockOnLimit
<1>2. WithinLimit = Admitted /\ Owned("ok") = Safe /\ Owned("needs-input") = open
    BY <1>1, AtTheChoice DEF Owned
<1>3. CASE AskForArchitecture
    <2>1. StatusOfRoutes = "needs-input"
        BY <1>2, <1>3 DEF AskForArchitecture, StatusOfRoutes
    <2> QED
        BY <1>1, <1>3, <2>1, BareReturnKeeps DEF AskForArchitecture
<1>4. ASSUME Safe = {}
      PROVE  StatusOfRoutes = IF open # {} THEN "needs-input" ELSE "blocked"
    <2>1. Best(Safe) = {} /\ Best(Safe) # {<<>>}
        BY <1>4 DEF Best
    <2>2. Cardinality(Best(Safe)) = 0
        BY <2>1, FS_EmptySet
    <2> QED
        BY <1>4, <2>1, <2>2 DEF StatusOfRoutes
<1>5. CASE AskForOwnership
    <2>1. StatusOfRoutes = "needs-input"
        BY <1>2, <1>4, <1>5 DEF AskForOwnership
    <2> QED
        BY <1>1, <1>5, <2>1, BareReturnKeeps DEF AskForOwnership
<1>6. CASE BlockOnOwnership
    <2>1. StatusOfRoutes = "blocked"
        BY <1>2, <1>4, <1>6 DEF BlockOnOwnership
    <2> QED
        BY <1>1, <1>6, <2>1, BareReturnKeeps DEF BlockOnOwnership
<1>7. CASE BlockOnLimit
    <2>1. StatusOfRoutes = "blocked"
        BY <1>2, <1>7, NothingAdmitted DEF BlockOnLimit
    <2> QED
        BY <1>1, <1>7, <2>1, BareReturnKeeps DEF BlockOnLimit
<1> QED
    BY <1>3, <1>5, <1>6, <1>7

-----------------------------------------------------------------------------
(* The theorems *)

LEMMA RouterInitial == Init => RouterInv
BY DEF Init, RouterInv, PlannedRouteIsLeast, StatusTellsRoutes, EveryProviderExplained

LEMMA RouterStep == RouterInv /\ [Next]_vars => RouterInv'
<1> SUFFICES ASSUME RouterInv, [Next]_vars PROVE RouterInv'
    OBVIOUS
<1>1. CASE RejectRequest
    BY <1>1, FailureKeeps DEF RejectRequest
<1>2. CASE RejectPolicy
    BY <1>2, FailureKeeps DEF RejectPolicy
<1>3. CASE BuildCandidates
    BY <1>3, CandidatesAreComplete
<1>4. CASE BlockUnknown
    BY <1>4, UnknownKeeps
<1>5. CASE BlockUnsupported
    BY <1>5, UnsupportedKeeps
<1>6. CASE ExtendRoutes
    BY <1>6, ExtensionIsComplete
<1>7. CASE ChooseRoute
    BY <1>7, ChoiceKeeps
<1>8. CASE AskForArchitecture \/ AskForOwnership \/ BlockOnOwnership \/ BlockOnLimit
    BY <1>8, OtherAnswersKeep
<1>9. CASE UNCHANGED vars
    <2>1. /\ input' = input /\ pc' = pc /\ candidates' = candidates
          /\ rejections' = rejections /\ next' = next /\ routes' = routes /\ plan' = plan
        BY <1>9 DEF vars
    <2>2. /\ Best(Safe)' = Best(Safe) /\ Safe' = Safe /\ Admitted' = Admitted
          /\ \A f : Ownership(f)' = Ownership(f)
          /\ \A p : Permitted(p)' <=> Permitted(p)
        BY <2>1, SameBest, SameSafe, SameAdmitted
    <2>3. StatusOfRoutes' = StatusOfRoutes
        BY <2>2 DEF StatusOfRoutes, Selected
    <2>4. RoutesComplete' <=> RoutesComplete
        <3>1. \A n : PartialRoutes(n)' = PartialRoutes(n)
            BY <2>1, SamePartialRoutes
        <3>2. ValidRequest' <=> ValidRequest
            BY <2>1 DEF ValidRequest
        <3>3. ProvidersSorted' <=> ProvidersSorted
            BY <2>1, <2>2 DEF ProvidersSorted
        <3> QED
            BY <2>1, <3>1, <3>2, <3>3 DEF RoutesComplete
    <2>5. PlannedRouteIsLeast' <=> PlannedRouteIsLeast
        BY <2>1, <2>2 DEF PlannedRouteIsLeast, Selected
    <2>6. /\ StatusTellsRoutes' <=> StatusTellsRoutes
          /\ EveryProviderExplained' <=> EveryProviderExplained
        BY <2>1, <2>2, <2>3 DEF StatusTellsRoutes, EveryProviderExplained
    <2> QED
        BY <2>1, <2>4, <2>5, <2>6 DEF RouterInv
<1> QED
    BY <1>1, <1>2, <1>3, <1>4, <1>5, <1>6, <1>7, <1>8, <1>9 DEF Next

\* The routes the router makes one capability at a time are, when it comes to
\* choose, all those that cover what is required with permitted providers.
THEOREM RoutesAreComplete == Spec => []RouterInv
BY RouterInitial, RouterStep, PTL DEF Spec

\* A planned route covers every required capability with permitted providers,
\* and no route that does uses fewer third-party providers or, using as few,
\* covers more natively.
THEOREM PlansAreLeast == Spec => []PlannedRouteIsLeast
<1>1. RouterInv => PlannedRouteIsLeast
    BY DEF RouterInv
<1> QED
    BY <1>1, RoutesAreComplete, PTL

\* A plan's status tells how many safe routes there are, whichever way the
\* router came to its answer.
THEOREM StatusesTellRoutes == Spec => []StatusTellsRoutes
<1>1. RouterInv => StatusTellsRoutes
    BY DEF RouterInv
<1> QED
    BY <1>1, RoutesAreComplete, PTL

\* Every provider is used or rejected with a reason, and one the request, the
\* policy or the catalog does not permit keeps the reason it was filtered out.
THEOREM ProvidersAreExplained == Spec => []EveryProviderExplained
<1>1. RouterInv => EveryProviderExplained
    BY DEF RouterInv
<1> QED
    BY <1>1, RoutesAreComplete, PTL


-----------------------------------------------------------------------------
(* Plans and evidence.                                                     *)
(*                                                                         *)
(* ById: a permutation of the items, the same for every order of items     *)
(* with distinct ids.                                                      *)

Keys == ToSet(KeyOrder)

\* A sequence of items that ById can order.
Keyed(items) ==
  /\ items \in Seq(ToSet(items))
  /\ \A i \in DOMAIN items : "id" \in DOMAIN items[i] /\ items[i].id \in Keys

LEMMA Positions ==
  ASSUME NEW k \in Keys
  PROVE  Position[k] \in Nat /\ KeyOrder[Position[k]] = k
<1>1. PICK i \in DOMAIN KeyOrder : KeyOrder[i] = k
  BY DEF Keys, ToSet
<1>2. Position[k] = CHOOSE j \in DOMAIN KeyOrder : KeyOrder[j] = k
  BY DEF Position, Keys
<1>3. Position[k] \in DOMAIN KeyOrder /\ KeyOrder[Position[k]] = k
  BY <1>1, <1>2
<1>4. DOMAIN KeyOrder \subseteq Nat
  BY PlannerAssumption
<1> QED
  BY <1>3, <1>4

LEMMA SamePosition ==
  ASSUME NEW k \in Keys, NEW l \in Keys, Position[k] = Position[l]
  PROVE  k = l
BY Positions

Earlier(items, i) == {j \in DOMAIN items : Precedes(items, j, i)}

LEMMA PrecedesOrders ==
  ASSUME NEW s, Keyed(s)
  PROVE  \A i, j, k \in DOMAIN s :
           /\ ~Precedes(s, i, i)
           /\ i # j => Precedes(s, i, j) \/ Precedes(s, j, i)
           /\ Precedes(s, i, j) /\ Precedes(s, j, k) => Precedes(s, i, k)
<1>1. \A i \in DOMAIN s : Position[s[i].id] \in Nat /\ i \in Nat
  BY Positions DEF Keyed
<1> QED
  BY <1>1 DEF Precedes

LEMMA PlacesPermute ==
  ASSUME NEW s, Keyed(s)
  PROVE  /\ \A i \in 1..Len(s) : Place(s, i) \in 1..Len(s)
         /\ \A i, j \in 1..Len(s) : Place(s, i) = Place(s, j) => i = j
         /\ \A n \in 1..Len(s) : \E i \in 1..Len(s) : Place(s, i) = n
<1> DEFINE N == Len(s)
<1>1. DOMAIN s = 1..N /\ N \in Nat
  BY DEF Keyed
<1>2. IsFiniteSet(1..N) /\ Cardinality(1..N) = N
  <2>1. /\ IsFiniteSet(1..N)
        /\ Cardinality(1..N) = IF 1 > N THEN 0 ELSE N - 1 + 1
    BY <1>1, FS_Interval, 1 \in Int, N \in Int, Zenon
  <2> QED
    BY <1>1, <2>1
<1> HIDE DEF N
<1>3. ASSUME NEW i \in 1..N
      PROVE  /\ IsFiniteSet(Earlier(s, i))
             /\ Cardinality(Earlier(s, i)) \in 0..(N - 1)
             /\ Place(s, i) = 1 + Cardinality(Earlier(s, i))
  <2>1. Earlier(s, i) \subseteq (1..N) \ {i}
    BY <1>1, <1>3, PrecedesOrders DEF Earlier
  <2>2. IsFiniteSet((1..N) \ {i}) /\ Cardinality((1..N) \ {i}) = N - 1
    BY <1>2, <1>3, FS_RemoveElement
  <2>3. /\ IsFiniteSet(Earlier(s, i))
        /\ Cardinality(Earlier(s, i)) <= N - 1
        /\ Cardinality(Earlier(s, i)) \in Nat
    BY <2>1, <2>2, FS_Subset, FS_CardinalityType
  <2> QED
    BY <1>1, <2>3 DEF Place, Earlier
<1>4. ASSUME NEW i \in 1..N, NEW j \in 1..N, Precedes(s, i, j)
      PROVE  Cardinality(Earlier(s, i)) < Cardinality(Earlier(s, j))
  <2>1. Earlier(s, i) \subseteq Earlier(s, j)
    BY <1>1, <1>4, PrecedesOrders DEF Earlier
  <2>2. i \in Earlier(s, j) /\ i \notin Earlier(s, i)
    BY <1>1, <1>4, PrecedesOrders DEF Earlier
  <2>3. IsFiniteSet(Earlier(s, j)) /\ Earlier(s, i) # Earlier(s, j)
    BY <1>3, <2>2
  <2>4. Earlier(s, i) \in SUBSET Earlier(s, j)
    BY <2>1
  <2>5. /\ Cardinality(Earlier(s, i)) <= Cardinality(Earlier(s, j))
        /\ Cardinality(Earlier(s, i)) # Cardinality(Earlier(s, j))
    BY <2>3, <2>4, FS_Subset
  <2>6. Cardinality(Earlier(s, i)) \in Nat /\ Cardinality(Earlier(s, j)) \in Nat
    BY <1>3, <1>1
  <2> QED
    BY <2>5, <2>6
<1>5. ASSUME NEW i \in 1..N, NEW j \in 1..N, Place(s, i) = Place(s, j)
      PROVE  i = j
  <2> SUFFICES ASSUME i # j PROVE FALSE
    OBVIOUS
  <2>1. Precedes(s, i, j) \/ Precedes(s, j, i)
    BY <1>1, PrecedesOrders
  <2>2. /\ Cardinality(Earlier(s, i)) \in Nat /\ Cardinality(Earlier(s, j)) \in Nat
        /\ Cardinality(Earlier(s, i)) = Cardinality(Earlier(s, j))
    BY <1>3, <1>5, <1>1
  <2> QED
    BY <1>4, <2>1, <2>2
<1>6. ASSUME NEW i \in 1..N
      PROVE  Place(s, i) \in 1..N
  <2>1. /\ Cardinality(Earlier(s, i)) \in 0..(N - 1)
        /\ Place(s, i) = 1 + Cardinality(Earlier(s, i))
    BY <1>3
  <2> QED
    BY <1>1, <2>1
<1> DEFINE place == [i \in 1..N |-> Place(s, i)]
<1>7. place \in Injection(1..N, 1..N)
  BY <1>5, <1>6 DEF Injection, IsInjective
<1>8. place \in Surjection(1..N, 1..N)
  BY <1>2, <1>7, FS_Injection
<1>9. \A n \in 1..N : \E i \in 1..N : Place(s, i) = n
  BY <1>8 DEF Surjection
<1> QED
  BY <1>5, <1>6, <1>9 DEF N

LEMMA ByIdPermutes ==
  ASSUME NEW s, Keyed(s)
  PROVE  /\ ById(s) \in Seq(ToSet(s)) /\ Len(ById(s)) = Len(s)
         /\ \A n \in 1..Len(s) : \E i \in 1..Len(s) : Place(s, i) = n /\ ById(s)[n] = s[i]
         /\ \A i \in 1..Len(s) : Place(s, i) \in 1..Len(s) /\ ById(s)[Place(s, i)] = s[i]
<1> DEFINE N == Len(s)
           at(n) == CHOOSE i \in 1..N : Place(s, i) = n
<1>1. DOMAIN s = 1..N /\ N \in Nat /\ s \in Seq(ToSet(s))
  BY DEF Keyed
<1>2. ById(s) = [n \in 1..N |-> s[at(n)]]
  <2> DEFINE place == [i \in 1..N |-> Place(s, i)]
             atPlace(n) == CHOOSE i \in 1..N : place[i] = n
  <2>1. ById(s) = [n \in 1..N |-> s[atPlace(n)]]
    BY <1>1 DEF ById
  <2>2. ASSUME NEW n \in 1..N PROVE atPlace(n) = at(n)
    <3>1. \A i \in 1..N : place[i] = n <=> Place(s, i) = n
      OBVIOUS
    <3> HIDE DEF place
    <3> QED
      BY <3>1
  <2> HIDE DEF at, atPlace
  <2> QED
    BY <2>1, <2>2
<1>3. ASSUME NEW n \in 1..N
      PROVE  at(n) \in 1..N /\ Place(s, at(n)) = n
  BY PlacesPermute
<1>4. ASSUME NEW i \in 1..N
      PROVE  Place(s, i) \in 1..N /\ at(Place(s, i)) = i
  <2>1. Place(s, i) \in 1..N
    BY PlacesPermute
  <2>2. at(Place(s, i)) \in 1..N /\ Place(s, at(Place(s, i))) = Place(s, i)
    BY <1>3, <2>1
  <2> HIDE DEF at
  <2> QED
    BY <2>1, <2>2, PlacesPermute
<1> HIDE DEF at, N
<1>5. \A n \in 1..N : s[at(n)] \in ToSet(s)
  BY <1>1, <1>3 DEF ToSet
<1>6. ById(s) \in Seq(ToSet(s)) /\ Len(ById(s)) = N
  BY <1>1, <1>2, <1>5
<1>7. \A n \in 1..N : \E i \in 1..N : Place(s, i) = n /\ ById(s)[n] = s[i]
  BY <1>2, <1>3
<1>8. \A i \in 1..N : Place(s, i) \in 1..N /\ ById(s)[Place(s, i)] = s[i]
  BY <1>2, <1>4
<1> QED
  BY <1>6, <1>7, <1>8 DEF N

LEMMA ByIdKeeps ==
  ASSUME NEW s, Keyed(s)
  PROVE  /\ ToSet(ById(s)) = ToSet(s)
         /\ Keyed(ById(s))
         /\ DistinctIds(ById(s)) <=> DistinctIds(s)
<1> DEFINE t == ById(s)  N == Len(s)
<1>1. /\ DOMAIN s = 1..N /\ DOMAIN t = 1..N
      /\ t \in Seq(ToSet(s))
      /\ \A n \in 1..N : \E i \in 1..N : Place(s, i) = n /\ t[n] = s[i]
      /\ \A i \in 1..N : Place(s, i) \in 1..N /\ t[Place(s, i)] = s[i]
  BY ByIdPermutes DEF Keyed
<1>2. \A i, j \in 1..N : Place(s, i) = Place(s, j) => i = j
  BY PlacesPermute
<1> HIDE DEF t, N
<1>3. ToSet(t) = ToSet(s)
  BY <1>1 DEF ToSet
<1>4. Keyed(t)
  <2>1. t \in Seq(ToSet(t))
    BY <1>1, <1>3
  <2>2. \A n \in DOMAIN t : "id" \in DOMAIN t[n] /\ t[n].id \in Keys
    BY <1>1 DEF Keyed
  <2> QED
    BY <2>1, <2>2 DEF Keyed
<1>5. ASSUME DistinctIds(s) PROVE DistinctIds(t)
  <2>1. \A i, j \in 1..N : s[i].id = s[j].id => i = j
    BY <1>1, <1>5 DEF DistinctIds, DistinctOver
  <2>2. ASSUME NEW m \in 1..N, NEW n \in 1..N, t[m].id = t[n].id PROVE m = n
    <3>1. PICK i \in 1..N : Place(s, i) = m /\ t[m] = s[i]
      BY <1>1
    <3>2. PICK j \in 1..N : Place(s, j) = n /\ t[n] = s[j]
      BY <1>1
    <3> QED
      BY <2>1, <2>2, <3>1, <3>2
  <2> QED
    BY <1>1, <2>2 DEF DistinctIds, DistinctOver
<1>6. ASSUME DistinctIds(t) PROVE DistinctIds(s)
  <2>1. \A m, n \in 1..N : t[m].id = t[n].id => m = n
    BY <1>1, <1>6 DEF DistinctIds, DistinctOver
  <2>2. ASSUME NEW i \in 1..N, NEW j \in 1..N, s[i].id = s[j].id PROVE i = j
    <3>1. /\ Place(s, i) \in 1..N /\ t[Place(s, i)] = s[i]
          /\ Place(s, j) \in 1..N /\ t[Place(s, j)] = s[j]
      BY <1>1
    <3>2. Place(s, i) = Place(s, j)
      BY <2>1, <2>2, <3>1
    <3> QED
      BY <1>2, <3>2
  <2> QED
    BY <1>1, <2>2 DEF DistinctIds, DistinctOver
<1> QED
  BY <1>3, <1>4, <1>5, <1>6 DEF t

\* With distinct ids an item's place depends on the set of ids alone.
IdsBefore(items, key) ==
  {k \in {item.id : item \in ToSet(items)} : Position[k] < Position[key]}

LEMMA PlaceOfId ==
  ASSUME NEW s, Keyed(s), DistinctIds(s), NEW i \in DOMAIN s
  PROVE  Place(s, i) = 1 + Cardinality(IdsBefore(s, s[i].id))
<1> DEFINE S == Earlier(s, i)
           T == IdsBefore(s, s[i].id)
           f == [j \in S |-> s[j].id]
<1>1. \A j, k \in DOMAIN s : s[j].id = s[k].id => j = k
  BY DEF DistinctIds, DistinctOver
<1>2. \A j \in DOMAIN s : s[j].id \in Keys
  BY DEF Keyed
<1>3. \A j \in DOMAIN s : Precedes(s, j, i) <=> Position[s[j].id] < Position[s[i].id]
  <2> SUFFICES ASSUME NEW j \in DOMAIN s
               PROVE  Precedes(s, j, i) <=> Position[s[j].id] < Position[s[i].id]
    OBVIOUS
  <2>1. Position[s[j].id] = Position[s[i].id] => j = i
    BY <1>1, <1>2, SamePosition
  <2>2. i \in Nat /\ j \in Nat /\ Position[s[j].id] \in Nat /\ Position[s[i].id] \in Nat
    BY <1>2, Positions DEF Keyed
  <2> QED
    BY <2>1, <2>2 DEF Precedes
<1>4. IsFiniteSet(S)
  <2>1. IsFiniteSet(1..Len(s))
    BY FS_Interval DEF Keyed
  <2>2. S \in SUBSET (1..Len(s))
    BY DEF Earlier, Keyed
  <2> QED
    BY <2>1, <2>2, FS_Subset
<1>5. \A j \in S : s[j].id \in T
  BY <1>3 DEF Earlier, IdsBefore, ToSet
<1>6. \A k \in T : \E j \in S : s[j].id = k
  BY <1>3 DEF Earlier, IdsBefore, ToSet
<1>7. S \subseteq DOMAIN s
  BY DEF Earlier
<1> HIDE DEF S, T
<1>8. f \in Bijection(S, T)
  <2>1. f \in [S -> T]
    BY <1>5
  <2>2. \A j, k \in S : f[j] = f[k] => j = k
    BY <1>1, <1>7
  <2>3. \A k \in T : \E j \in S : f[j] = k
    BY <1>6
  <2> HIDE DEF f
  <2> QED
    BY <2>1, <2>2, <2>3 DEF Bijection, Injection, Surjection, IsInjective
<1>9. Cardinality(T) = Cardinality(S)
  BY <1>4, <1>8, FS_Bijection DEF ExistsBijection
<1> QED
  BY <1>9 DEF S, T, Place, Earlier

LEMMA ByIdTellsSet ==
  ASSUME NEW s, NEW t, Keyed(s), Keyed(t), DistinctIds(s), DistinctIds(t),
         ToSet(s) = ToSet(t)
  PROVE  ById(s) = ById(t)
<1>1. ASSUME NEW a, NEW b, Keyed(a), Keyed(b), DistinctIds(a), DistinctIds(b),
             ToSet(a) = ToSet(b), NEW n \in 1..Len(a)
      PROVE  n \in 1..Len(b) /\ ById(a)[n] = ById(b)[n]
  <2>1. PICK i \in 1..Len(a) : Place(a, i) = n /\ ById(a)[n] = a[i]
    BY <1>1, ByIdPermutes
  <2>2. DOMAIN a = 1..Len(a) /\ DOMAIN b = 1..Len(b)
    BY <1>1 DEF Keyed
  <2>3. PICK j \in 1..Len(b) : b[j] = a[i]
    BY <1>1, <2>2 DEF ToSet
  <2>4. Place(a, i) = 1 + Cardinality(IdsBefore(a, a[i].id))
    BY <1>1, <2>2, PlaceOfId
  <2>5. Place(b, j) = 1 + Cardinality(IdsBefore(b, b[j].id))
    BY <1>1, <2>2, PlaceOfId
  <2>6. IdsBefore(a, a[i].id) = IdsBefore(b, b[j].id)
    BY <1>1, <2>3 DEF IdsBefore
  <2>7. Place(b, j) = n
    BY <2>1, <2>4, <2>5, <2>6
  <2>8. Place(b, j) \in 1..Len(b) /\ ById(b)[Place(b, j)] = b[j]
    BY <1>1, ByIdPermutes
  <2> QED
    BY <2>1, <2>3, <2>7, <2>8
<1>2. /\ ById(s) \in Seq(ToSet(s)) /\ Len(ById(s)) = Len(s)
      /\ ById(t) \in Seq(ToSet(t)) /\ Len(ById(t)) = Len(t)
  BY ByIdPermutes
<1>3. Len(s) = Len(t)
  <2>1. Len(s) \in Nat /\ Len(t) \in Nat
    BY DEF Keyed
  <2>2. \A n \in 1..Len(s) : n \in 1..Len(t)
    BY <1>1
  <2>3. \A n \in 1..Len(t) : n \in 1..Len(s)
    BY <1>1
  <2> QED
    BY <2>1, <2>2, <2>3
<1>4. \A n \in 1..Len(s) : ById(s)[n] = ById(t)[n]
  BY <1>1
<1> QED
  BY <1>2, <1>3, <1>4

-----------------------------------------------------------------------------
(* The inductive invariant: everything kept was made as the actions make   *)
(* it, of results that have arrived.                                       *)

AllPlans ==
  {Plan(i, q, t) : i \in PlanningInputs, q \in Proposals, t \in Times}

PlansMade == plans \subseteq AllPlans

ResultsMade ==
  \A r \in reports :
    /\ {"planId", "checkId", "status", "diagnostics", "artifacts"} \subseteq DOMAIN r
    /\ r.artifacts \in Seq(ToSet(r.artifacts))

EnvelopesMade ==
  \A e \in envelopes :
    \E ep \in AllPlans : \E vp \in VerificationPlans(ep) :
      \E results \in ResultLists, c \in Contents :
        Accepts(ep, vp, results, c) /\ e = Envelope(ep, vp, results)

RecordsMade ==
  \A e \in records :
    \E ep \in AllPlans, r \in Requirements, results \in ResultLists :
      e = Record(ep, RequiredChecks(r), results)

EvidenceInv == PlansMade /\ ResultsMade /\ EnvelopesMade /\ RecordsMade

LEMMA MoreLists ==
  ASSUME reports \subseteq reports'
  PROVE  ResultLists \subseteq ResultLists'
<1> SUFFICES ASSUME NEW n \in 0..MaxReports, NEW f \in [1..n -> reports]
             PROVE  f \in [1..n -> reports']
  BY DEF ResultLists
<1> QED
  OBVIOUS

LEMMA EnvelopesKept ==
  ASSUME EnvelopesMade, envelopes' = envelopes, reports \subseteq reports'
  PROVE  EnvelopesMade'
<1>1. ResultLists \subseteq ResultLists'
  BY MoreLists
<1>2. AllPlans' = AllPlans
  BY DEF AllPlans
<1>3. \A ep : VerificationPlans(ep)' = VerificationPlans(ep)
  BY DEF VerificationPlans
<1> SUFFICES ASSUME NEW e \in envelopes
             PROVE  \E ep \in AllPlans : \E vp \in VerificationPlans(ep) :
                      \E results \in ResultLists', c \in Contents :
                        Accepts(ep, vp, results, c) /\ e = Envelope(ep, vp, results)
  BY <1>2, <1>3 DEF EnvelopesMade
<1> QED
  BY <1>1 DEF EnvelopesMade

LEMMA RecordsKept ==
  ASSUME RecordsMade, records' = records, reports \subseteq reports'
  PROVE  RecordsMade'
<1>1. ResultLists \subseteq ResultLists'
  BY MoreLists
<1> QED
  BY <1>1 DEF RecordsMade, AllPlans

LEMMA EvidenceInitial == EvidenceInit => EvidenceInv
BY DEF EvidenceInit, EvidenceInv, PlansMade, ResultsMade, EnvelopesMade, RecordsMade

LEMMA EvidenceStep == EvidenceInv /\ [EvidenceNext]_evidenceVars => EvidenceInv'
<1> SUFFICES ASSUME EvidenceInv, [EvidenceNext]_evidenceVars PROVE EvidenceInv'
  OBVIOUS
<1>0. PlansMade /\ ResultsMade /\ EnvelopesMade /\ RecordsMade
  BY DEF EvidenceInv
<1>1. CASE UNCHANGED evidenceVars
  <2>1. plans' = plans /\ reports' = reports /\ envelopes' = envelopes /\ records' = records
    BY <1>1 DEF evidenceVars
  <2>2. EnvelopesMade' /\ RecordsMade'
    BY <1>0, <2>1, EnvelopesKept, RecordsKept
  <2> QED
    BY <1>0, <2>1, <2>2 DEF EvidenceInv, PlansMade, ResultsMade, AllPlans
<1>2. ASSUME NEW i \in PlanningInputs, NEW q \in Proposals, NEW t \in Times, CreatePlan(i, q, t)
      PROVE  EvidenceInv'
  <2>1. /\ plans' = {p \in plans : p.executionPlanId # Plan(i, q, t).executionPlanId}
                      \cup {Plan(i, q, t)}
        /\ reports' = reports /\ envelopes' = envelopes /\ records' = records
    BY <1>2 DEF CreatePlan
  <2>2. EnvelopesMade' /\ RecordsMade'
    BY <1>0, <2>1, EnvelopesKept, RecordsKept
  <2>3. PlansMade'
    BY <1>0, <2>1 DEF PlansMade, AllPlans
  <2> QED
    BY <1>0, <2>1, <2>2, <2>3 DEF EvidenceInv, ResultsMade
<1>3. ASSUME NEW ep \in plans, NEW claim \in ResultClaims, Report(ep, claim)
      PROVE  EvidenceInv'
  <2>1. /\ plans' = plans /\ envelopes' = envelopes /\ records' = records
        /\ reports \subseteq reports'
        /\ \A r \in reports' :
             \/ r \in reports
             \/ /\ r.artifacts = claim.artifacts
                /\ {"planId", "checkId", "status", "diagnostics", "artifacts"} \subseteq DOMAIN r
    BY <1>3 DEF Report
  <2>2. EnvelopesMade' /\ RecordsMade'
    BY <1>0, <2>1, EnvelopesKept, RecordsKept
  <2>3. ResultsMade'
    BY <1>0, <2>1, PlanEvidenceAssumption DEF ResultsMade
  <2> QED
    BY <1>0, <2>1, <2>2, <2>3 DEF EvidenceInv, PlansMade, AllPlans
<1>4. ASSUME NEW ep \in plans, NEW vp \in VerificationPlans(ep),
             NEW results \in ResultLists, NEW c \in Contents,
             IngestResults(ep, vp, results, c)
      PROVE  EvidenceInv'
  <2>1. /\ plans' = plans /\ reports' = reports /\ records' = records
        /\ envelopes' = envelopes \cup {Envelope(ep, vp, results)}
        /\ Accepts(ep, vp, results, c)
    BY <1>4 DEF IngestResults
  <2>2. RecordsMade'
    BY <1>0, <2>1, RecordsKept
  <2>3. ep \in AllPlans
    BY <1>0 DEF PlansMade
  <2>4. ResultLists' = ResultLists /\ AllPlans' = AllPlans
        /\ \A p : VerificationPlans(p)' = VerificationPlans(p)
    BY <2>1 DEF ResultLists, AllPlans, VerificationPlans
  <2>5. EnvelopesMade'
    BY <1>0, <2>1, <2>3, <2>4 DEF EnvelopesMade
  <2> QED
    BY <1>0, <2>1, <2>2, <2>5 DEF EvidenceInv, PlansMade, ResultsMade, AllPlans
<1>5. ASSUME NEW ep \in plans, NEW r \in Requirements, NEW results \in ResultLists,
             RecordResults(ep, r, results)
      PROVE  EvidenceInv'
  <2>1. /\ plans' = plans /\ reports' = reports /\ envelopes' = envelopes
        /\ records' = records \cup {Record(ep, RequiredChecks(r), results)}
    BY <1>5 DEF RecordResults
  <2>2. EnvelopesMade'
    BY <1>0, <2>1, EnvelopesKept
  <2>3. ep \in AllPlans
    BY <1>0 DEF PlansMade
  <2>4. ResultLists' = ResultLists /\ AllPlans' = AllPlans
    BY <2>1 DEF ResultLists, AllPlans
  <2>5. RecordsMade'
    BY <1>0, <2>1, <2>3, <2>4 DEF RecordsMade
  <2> QED
    BY <1>0, <2>1, <2>2, <2>5 DEF EvidenceInv, PlansMade, ResultsMade, AllPlans
<1> QED
  BY <1>1, <1>2, <1>3, <1>4, <1>5 DEF EvidenceNext

\* Plans, results, envelopes and records stay what the actions make.
THEOREM AllIsMade == EvidenceSpec => []EvidenceInv
BY EvidenceInitial, EvidenceStep, PTL DEF EvidenceSpec

-----------------------------------------------------------------------------
(* Drift *)

LEMMA DriftOfPlans ==
  ASSUME NEW i, NEW q0, NEW t, NEW current, NEW q,
         ById(q0.operations) = ById(q.operations),
         q0.permissions = q.permissions, q0.unresolvedInputs = q.unresolvedInputs,
         q0.deniedSteps = q.deniedSteps
  PROVE  Compare(Plan(i, q0, t), current) = {} <=>
           SemanticPlan(current, q) = SemanticPlan(i, q0)
<1> DEFINE A == Normalized(i, BoundFields)
           B == Normalized(current, BoundFields)
<1>1. /\ A = [f \in ComparedFields |-> A[f]] /\ B = [f \in ComparedFields |-> B[f]]
      /\ A["objective"] = i.objective /\ B["objective"] = current.objective
  BY DEF Normalized, BoundFields, ComparedFields
<1>2. Compare(Plan(i, q0, t), current) = Differences(ComparisonRecord(A), ComparisonRecord(B))
  <2>1. BoundFields = ComparedFields
    BY DEF BoundFields, ComparedFields
  <2> QED
    BY <2>1 DEF Compare, Plan, SemanticPlan
<1> HIDE DEF A, B
<1>3. Differences(ComparisonRecord(A), ComparisonRecord(B)) = {} <=> A = B
  <2> DEFINE optional == {"lockfile", "runnerCapabilities"}
             present(X) == {g \in ComparedFields : g \in optional => X[g] # {}}
             a == ComparisonRecord(A)
             b == ComparisonRecord(B)
  <2>1. /\ DOMAIN a = present(A) /\ \A f \in present(A) : a[f] = A[f]
        /\ DOMAIN b = present(B) /\ \A f \in present(B) : b[f] = B[f]
    BY DEF ComparisonRecord
  <2>2. A = B => a = b
    OBVIOUS
  <2> HIDE DEF a, b
  <2>3. Differences(a, b) = {} <=>
          \A f \in DOMAIN a \cup DOMAIN b : f \in DOMAIN a /\ f \in DOMAIN b /\ a[f] = b[f]
    BY DEF Differences
  <2>4. ASSUME Differences(a, b) = {} PROVE A = B
    <3>1. \A f \in ComparedFields : A[f] = B[f]
      BY <2>1, <2>3, <2>4
    <3> QED
      BY <1>1, <3>1
  <2>5. ASSUME a = b PROVE Differences(a, b) = {}
    BY <2>3, <2>5
  <2> QED
    BY <2>2, <2>4, <2>5 DEF a, b
<1>4. SemanticPlan(current, q) = SemanticPlan(i, q0) <=> A = B
  <2>1. A = B => Status(i, q0) = Status(current, q)
    BY <1>1 DEF Status
  <2>2. A = B => SemanticPlan(current, q) = SemanticPlan(i, q0)
    BY <2>1 DEF SemanticPlan, A, B
  <2>3. SemanticPlan(i, q0).inputs = A /\ SemanticPlan(current, q).inputs = B
    BY DEF SemanticPlan, A, B
  <2> QED
    BY <2>2, <2>3
<1> QED
  BY <1>2, <1>3, <1>4

LEMMA DriftTold == EvidenceInv => DriftTellsPlan
<1> SUFFICES ASSUME EvidenceInv, NEW p \in plans, NEW current \in CurrentInputs,
                    NEW q \in Proposals,
                    p.semantic.operations = ById(q.operations),
                    p.semantic.approval.scopes = q.permissions,
                    p.semantic.unresolvedInputs = q.unresolvedInputs,
                    p.semantic.deniedSteps = q.deniedSteps
             PROVE  Compare(p, current) = {} <=>
                      Plan(current, q, 0).executionPlanId = p.executionPlanId
  BY DEF DriftTellsPlan
<1>1. PICK i \in PlanningInputs, q0 \in Proposals, t \in Times : p = Plan(i, q0, t)
  BY DEF EvidenceInv, PlansMade, AllPlans
<1>2. /\ p.semantic = SemanticPlan(i, q0) /\ p.executionPlanId = SemanticPlan(i, q0)
      /\ Plan(current, q, 0).executionPlanId = SemanticPlan(current, q)
  BY <1>1 DEF Plan
<1>3. /\ ById(q0.operations) = ById(q.operations)
      /\ q0.permissions = q.permissions /\ q0.unresolvedInputs = q.unresolvedInputs
      /\ q0.deniedSteps = q.deniedSteps
  BY <1>2 DEF SemanticPlan
<1> QED
  BY <1>1, <1>2, <1>3, DriftOfPlans

-----------------------------------------------------------------------------
(* The checks and the results an envelope is made of *)

LEMMA ListOfItsItems ==
  ASSUME NEW S, NEW s \in Seq(S)
  PROVE  s \in Seq(ToSet(s))
<1>1. Len(s) \in Nat /\ s \in [1..Len(s) -> S]
  OBVIOUS
<1>2. \A i \in 1..Len(s) : s[i] \in ToSet(s)
  BY <1>1 DEF ToSet
<1>3. s \in [1..Len(s) -> ToSet(s)]
  BY <1>1, <1>2
<1> QED
  BY <1>1, <1>3

\* A list whose items are items of a list ById can order is one itself.
LEMMA KeyedItems ==
  ASSUME NEW s, Keyed(s), NEW t \in Seq(ToSet(s))
  PROVE  Keyed(t)
<1>1. t \in Seq(ToSet(t))
  BY ListOfItsItems
<1>2. \A i \in DOMAIN t : t[i] \in ToSet(s)
  OBVIOUS
<1>3. \A x \in ToSet(s) : "id" \in DOMAIN x /\ x.id \in Keys
  BY DEF Keyed, ToSet
<1> QED
  BY <1>1, <1>2, <1>3 DEF Keyed

LEMMA KeyedReverse ==
  ASSUME NEW s, Keyed(s)
  PROVE  Keyed(Reverse(s))
<1>1. s \in Seq(ToSet(s))
  BY DEF Keyed
<1>2. Reverse(s) \in Seq(ToSet(s))
  BY <1>1 DEF Reverse
<1> QED
  BY <1>2, KeyedItems

LEMMA KeyedReplace ==
  ASSUME NEW s, Keyed(s), NEW i, NEW x, "id" \in DOMAIN x, x.id \in Keys
  PROVE  Keyed([s EXCEPT ![i] = x])
<1> DEFINE u == [s EXCEPT ![i] = x]
<1>1. DOMAIN s = 1..Len(s) /\ Len(s) \in Nat
  BY DEF Keyed
<1>2. u = [j \in 1..Len(s) |-> IF j = i THEN x ELSE s[j]]
  BY <1>1
<1>3. \A j \in 1..Len(s) : "id" \in DOMAIN u[j] /\ u[j].id \in Keys
  BY <1>1, <1>2 DEF Keyed
<1>4. DOMAIN u = 1..Len(s) /\ u = [j \in 1..Len(s) |-> u[j]]
  BY <1>1
<1> HIDE DEF u
<1>5. \A j \in 1..Len(s) : u[j] \in ToSet(u)
  BY <1>4 DEF ToSet
<1>6. u \in Seq(ToSet(u))
  BY <1>1, <1>4, <1>5
<1>7. Keyed(u)
  BY <1>3, <1>4, <1>6 DEF Keyed
<1> QED
  BY <1>7 DEF u

LEMMA PlannedChecksAreKeyed ==
  ASSUME NEW ep, NEW vp \in VerificationPlans(ep)
  PROVE  Keyed(vp.checks)
<1>1. ASSUME NEW list \in Requirements
      PROVE  Keyed(VerificationPlan(ep, list).checks)
  <2> DEFINE check(i) == [id |-> list[i].id, required |-> list[i].required,
                          status |-> IF list[i].required THEN "not-run" ELSE "not-required"]
             checks == [i \in DOMAIN list |-> check(i)]
  <2>1. list \in Seq(ToSet(list)) /\ \A i \in DOMAIN list : list[i].id \in Keys
    BY PlanEvidenceAssumption DEF Keys
  <2>2. \A i \in DOMAIN list : "id" \in DOMAIN checks[i] /\ checks[i].id \in Keys
    BY <2>1
  <2> HIDE DEF check
  <2>3. DOMAIN checks = DOMAIN list /\ \A i \in DOMAIN list : checks[i] \in ToSet(checks)
    BY DEF ToSet
  <2>4. checks \in Seq(ToSet(checks))
    <3>1. checks \in [1..Len(list) -> ToSet(checks)]
      BY <2>1, <2>3
    <3> HIDE DEF checks
    <3> QED
      BY <2>1, <3>1
  <2>5. Keyed(checks)
    BY <2>2, <2>3, <2>4 DEF Keyed
  <2>6. VerificationPlan(ep, list).checks = ById(checks)
    BY DEF VerificationPlan, check
  <2> QED
    BY <2>5, <2>6, ByIdKeeps
<1>3. ASSUME NEW s, Keyed(s), NEW i, NEW st
      PROVE  Keyed([s EXCEPT ![i].status = st])
  <2>1. CASE i \in DOMAIN s
    <3> DEFINE x == [s[i] EXCEPT !.status = st]
    <3>1. "id" \in DOMAIN s[i] /\ s[i].id \in Keys
      BY <1>3, <2>1 DEF Keyed
    <3>2. "id" \in DOMAIN x /\ x.id \in Keys
      BY <3>1
    <3>3. [s EXCEPT ![i].status = st] = [s EXCEPT ![i] = x]
      BY <2>1
    <3> HIDE DEF x
    <3> QED
      BY <1>3, <3>2, <3>3, KeyedReplace
  <2>2. CASE i \notin DOMAIN s
    <3>1. [s EXCEPT ![i].status = st] = [j \in DOMAIN s |-> s[j]]
      BY <2>2
    <3>2. s = [j \in DOMAIN s |-> s[j]]
      BY <1>3 DEF Keyed
    <3> QED
      BY <1>3, <3>1, <3>2
  <2> QED
    BY <2>1, <2>2
<1> DEFINE made == {VerificationPlan(ep, r) : r \in Requirements}
<1>4. ASSUME NEW m \in made PROVE Keyed(m.checks) /\ "checks" \in DOMAIN m
  <2>1. PICK list \in Requirements : m = VerificationPlan(ep, list)
    OBVIOUS
  <2>2. "checks" \in DOMAIN VerificationPlan(ep, list)
    BY DEF VerificationPlan
  <2> QED
    BY <1>1, <2>1, <2>2
<1>5. CASE vp \in made
  BY <1>4, <1>5
<1>6. CASE vp \in {[m EXCEPT !.checks = Reverse(@)] : m \in made}
  <2>1. PICK m \in made : vp = [m EXCEPT !.checks = Reverse(@)]
    BY <1>6
  <2>2. vp.checks = Reverse(m.checks)
    BY <1>4, <2>1
  <2> QED
    BY KeyedReverse, <1>4, <2>2
<1>7. CASE vp \in {[m EXCEPT !.checks[i].status = s] : m \in made, i \in 1..2, s \in AlteredStates}
  <2>1. PICK m \in made, i \in 1..2, s \in AlteredStates :
          vp = [m EXCEPT !.checks[i].status = s]
    BY <1>7
  <2>2. vp.checks = [m.checks EXCEPT ![i].status = s]
    BY <1>4, <2>1
  <2> QED
    BY <1>3, <1>4, <2>2
<1> QED
  BY <1>5, <1>6, <1>7 DEF VerificationPlans

\* What the results of a list are known to be.
Listed(results) ==
  \A r \in ToSet(results) :
    /\ r \in reports
    /\ {"planId", "checkId", "status", "diagnostics", "artifacts"} \subseteq DOMAIN r
    /\ r.artifacts \in Seq(ToSet(r.artifacts))

LEMMA ListedResults ==
  ASSUME ResultsMade, NEW results \in ResultLists
  PROVE  Listed(results)
<1>1. ToSet(results) \subseteq reports
  BY DEF ResultLists, ToSet
<1> QED
  BY <1>1 DEF ResultsMade, Listed

LEMMA OneResult ==
  ASSUME NEW ep, NEW vp, NEW results, NEW contents,
         Accepts(ep, vp, results, contents),
         NEW r \in ToSet(results)
  PROVE  HasResult(results, r.checkId) /\ ResultOf(results, r.checkId) = r
<1>1. \A i, j \in DOMAIN results : results[i].checkId = results[j].checkId => i = j
  BY DEF Accepts, DistinctOver
<1>2. \A s \in ToSet(results) : s.checkId = r.checkId => s = r
  BY <1>1 DEF ToSet
<1> QED
  BY <1>2 DEF HasResult, ResultOf

\* The check an envelope makes of a planned check that has a result ...
LEMMA CheckedByResult ==
  ASSUME NEW ep, NEW vp, NEW results, NEW contents,
         Accepts(ep, vp, results, contents), Listed(results),
         NEW c \in ToSet(vp.checks), HasResult(results, c.id)
  PROVE  \E r \in ToSet(results) :
           /\ r = ResultOf(results, c.id) /\ r.checkId = c.id
           /\ r.planId = ep.executionPlanId
           /\ r.status \in RunnerStates
           /\ r.status = "passed" => r.exitCode = 0
           /\ r.status = "passed" => {a.digest : a \in ToSet(r.artifacts)} # {}
           /\ EvidenceCheck(c, results) =
                [id |-> c.id, required |-> c.required, status |-> r.status,
                 diagnostics |-> r.diagnostics,
                 artifacts |-> {a.digest : a \in ToSet(r.artifacts)}]
<1>1. PICK r : r = ResultOf(results, c.id)
  OBVIOUS
<1>2. r \in ToSet(results) /\ r.checkId = c.id
  BY <1>1 DEF HasResult, ResultOf
<1>3. ValidRunnerResult(r, ep) /\ ValidArtifacts(r, contents)
  BY <1>2 DEF Accepts
<1>4. ASSUME r.status = "passed"
      PROVE  {a.digest : a \in ToSet(r.artifacts)} # {}
  <2>1. r.artifacts # <<>> /\ r.artifacts \in Seq(ToSet(r.artifacts))
    BY <1>2, <1>3, <1>4 DEF ValidArtifacts, Listed
  <2>2. r.artifacts[1] \in ToSet(r.artifacts)
    BY <2>1
  <2> QED
    BY <2>2
<1> QED
  BY <1>1, <1>2, <1>3, <1>4 DEF EvidenceCheck, ValidRunnerResult

\* ... and of one that has none.
LEMMA CheckedByNone ==
  ASSUME NEW ep, NEW vp, NEW results, NEW contents,
         Accepts(ep, vp, results, contents),
         NEW c \in ToSet(vp.checks), ~HasResult(results, c.id)
  PROVE  /\ c.status # "passed"
         /\ ~(c.required /\ c.status = "not-required")
         /\ EvidenceCheck(c, results) =
              [id |-> c.id, required |-> c.required, status |-> c.status,
               diagnostics |-> {}, artifacts |-> {}]
BY DEF Accepts, EvidenceCheck

\* What ingest makes of the plan, the checks and the results it accepts.
MadeOf(e, ep, vp, results) ==
  /\ Keyed(e.checks)
  /\ DistinctIds(e.checks)
  /\ ToSet(e.checks) = {EvidenceCheck(c, results) : c \in ToSet(vp.checks)}
  /\ e.bound = BoundOf(ep)
  /\ e.plan = [id |-> ep.executionPlanId, digest |-> ep.immutableDigest]
  /\ e.unverified = DeriveUnverified(e.checks)
  /\ e.digest = Preimage(e)
  /\ e.evidenceId = Preimage(e)

\* The fields of an envelope.
IsEnvelope(e) ==
  e = [bound |-> e.bound, plan |-> e.plan, checks |-> e.checks,
       unverified |-> e.unverified, digest |-> e.digest, evidenceId |-> e.evidenceId]

LEMMA IngestedChecks ==
  ASSUME NEW ep, NEW vp, NEW results, NEW contents,
         Accepts(ep, vp, results, contents), Keyed(vp.checks)
  PROVE  /\ MadeOf(Ingest(ep, vp, results), ep, vp, results)
         /\ IsEnvelope(Ingest(ep, vp, results))
<1> DEFINE raw == [i \in DOMAIN vp.checks |-> EvidenceCheck(vp.checks[i], results)]
           e == Ingest(ep, vp, results)
<1>1. \A i \in DOMAIN vp.checks : "id" \in DOMAIN raw[i] /\ raw[i].id = vp.checks[i].id
  BY DEF EvidenceCheck
<1>2. DOMAIN vp.checks = 1..Len(vp.checks) /\ Len(vp.checks) \in Nat
  BY DEF Keyed
<1>3. Keyed(raw)
  <2>1. DOMAIN raw = DOMAIN vp.checks /\ raw = [i \in DOMAIN raw |-> raw[i]]
    OBVIOUS
  <2> HIDE DEF raw
  <2>2. \A i \in DOMAIN raw : raw[i] \in ToSet(raw)
    BY DEF ToSet
  <2>3. raw \in Seq(ToSet(raw))
    BY <1>2, <2>1, <2>2
  <2>4. \A i \in DOMAIN raw : "id" \in DOMAIN raw[i] /\ raw[i].id \in Keys
    BY <1>1, <2>1 DEF Keyed
  <2> QED
    BY <2>3, <2>4 DEF Keyed
<1>4. DistinctIds(raw)
  <2>1. \A i, j \in DOMAIN vp.checks : vp.checks[i].id = vp.checks[j].id => i = j
    BY DEF Accepts, DistinctIds, DistinctOver
  <2>2. DOMAIN raw = DOMAIN vp.checks
    OBVIOUS
  <2> HIDE DEF raw
  <2> QED
    BY <1>1, <2>1, <2>2 DEF DistinctIds, DistinctOver
<1>5. ToSet(raw) = {EvidenceCheck(c, results) : c \in ToSet(vp.checks)}
  BY DEF ToSet
<1>6. /\ ToSet(ById(raw)) = ToSet(raw) /\ Keyed(ById(raw)) /\ DistinctIds(ById(raw))
  BY <1>3, <1>4, ByIdKeeps
<1>7. /\ e.checks = ById(raw) /\ e.bound = BoundOf(ep)
      /\ e.plan = [id |-> ep.executionPlanId, digest |-> ep.immutableDigest]
      /\ e.unverified = DeriveUnverified(e.checks)
      /\ IsEnvelope(e)
  BY DEF Ingest, NormalizeChecks, IsEnvelope
<1>8. e.digest = Preimage(e) /\ e.evidenceId = Preimage(e)
  BY DEF Ingest, Preimage
<1> HIDE DEF e, raw
<1>9. MadeOf(e, ep, vp, results)
  BY <1>5, <1>6, <1>7, <1>8 DEF MadeOf
<1> QED
  BY <1>7, <1>9 DEF e

\* No required check of an envelope was waived, and a pass has artifacts.
LEMMA MadeStates ==
  ASSUME NEW ep, NEW vp, NEW results, NEW contents,
         Accepts(ep, vp, results, contents), Listed(results),
         NEW e, MadeOf(e, ep, vp, results),
         NEW k \in ToSet(e.checks)
  PROVE  /\ k.status = "passed" => k.artifacts # {}
         /\ ~(k.required /\ k.status = "not-required")
<1>1. PICK c \in ToSet(vp.checks) : k = EvidenceCheck(c, results)
  BY DEF MadeOf
<1>2. CASE HasResult(results, c.id)
  BY <1>1, <1>2, CheckedByResult DEF RunnerStates
<1>3. CASE ~HasResult(results, c.id)
  BY <1>1, <1>3, CheckedByNone
<1> QED
  BY <1>2, <1>3

LEMMA MadeEnvelopeVerifies ==
  ASSUME NEW ep, NEW vp, NEW results, NEW contents,
         Accepts(ep, vp, results, contents), Listed(results),
         NEW e, MadeOf(e, ep, vp, results)
  PROVE  Verifies(e)
<1>1. \A k \in ToSet(e.checks) : /\ k.status = "passed" => k.artifacts # {}
                                 /\ ~(k.required /\ k.status = "not-required")
  BY MadeStates
<1>2. StateIssues(e) = {} /\ DigestIssues(e) = {}
  BY <1>1 DEF StateIssues, DigestIssues, MadeOf
<1> QED
  BY <1>2 DEF Verifies

-----------------------------------------------------------------------------
(* Passes *)

\* What is known of an envelope that is kept.
LEMMA KeptEnvelope ==
  ASSUME EvidenceInv, NEW e \in envelopes
  PROVE  \E ep \in AllPlans, results \in ResultLists, contents \in Contents :
         \E vp \in VerificationPlans(ep) :
           /\ Accepts(ep, vp, results, contents) /\ Listed(results)
           /\ MadeOf(e.evidence, ep, vp, results) /\ IsEnvelope(e.evidence)
           /\ e.checks = ToSet(vp.checks)
           /\ e.results = {[r EXCEPT !.artifacts = ToSet(@)] : r \in ToSet(results)}
<1>1. PICK ep \in AllPlans : \E vp \in VerificationPlans(ep) :
        \E results \in ResultLists, c \in Contents :
          Accepts(ep, vp, results, c) /\ e = Envelope(ep, vp, results)
  BY DEF EvidenceInv, EnvelopesMade
<1>2. PICK vp \in VerificationPlans(ep), results \in ResultLists, c \in Contents :
        Accepts(ep, vp, results, c) /\ e = Envelope(ep, vp, results)
  BY <1>1
<1>3. Keyed(vp.checks)
  BY PlannedChecksAreKeyed
<1>4. Listed(results)
  BY ListedResults DEF EvidenceInv
<1>5. /\ e.evidence = Ingest(ep, vp, results) /\ e.checks = ToSet(vp.checks)
      /\ e.results = {[r EXCEPT !.artifacts = ToSet(@)] : r \in ToSet(results)}
  BY <1>2 DEF Envelope
<1>6. MadeOf(e.evidence, ep, vp, results) /\ IsEnvelope(e.evidence)
  BY <1>2, <1>3, <1>5, IngestedChecks
<1> QED
  BY <1>2, <1>4, <1>5, <1>6

\* A check of an envelope is what its plan and its result make it.
LEMMA PassedCheckHasResult ==
  ASSUME NEW ep, NEW vp, NEW results, NEW contents,
         Accepts(ep, vp, results, contents), Listed(results),
         NEW e, MadeOf(e, ep, vp, results), NEW k \in ToSet(e.checks)
  PROVE  /\ k.status = "passed" =>
              \E r \in ToSet(results) :
                /\ r.planId = ep.executionPlanId /\ r.checkId = k.id
                /\ r.status = "passed" /\ r.exitCode = 0
                /\ k.artifacts = {a.digest : a \in ToSet(r.artifacts)}
                /\ k.artifacts # {}
         /\ \A r \in ToSet(results) : r.checkId = k.id => r.status = k.status
<1>1. PICK c \in ToSet(vp.checks) : k = EvidenceCheck(c, results)
  BY DEF MadeOf
<1>2. CASE HasResult(results, c.id)
  <2>1. PICK r \in ToSet(results) :
          /\ r = ResultOf(results, c.id) /\ r.checkId = c.id
          /\ r.planId = ep.executionPlanId
          /\ r.status = "passed" => r.exitCode = 0
          /\ r.status = "passed" => {a.digest : a \in ToSet(r.artifacts)} # {}
          /\ k = [id |-> c.id, required |-> c.required, status |-> r.status,
                  diagnostics |-> r.diagnostics,
                  artifacts |-> {a.digest : a \in ToSet(r.artifacts)}]
    BY <1>1, <1>2, CheckedByResult
  <2>2. /\ k.id = c.id /\ k.status = r.status
        /\ k.artifacts = {a.digest : a \in ToSet(r.artifacts)}
    BY <2>1
  <2>3. \A s \in ToSet(results) : s.checkId = k.id => s = r
    BY <2>1, <2>2, OneResult
  <2> QED
    BY <2>1, <2>2, <2>3
<1>3. CASE ~HasResult(results, c.id)
  <2>1. /\ c.status # "passed"
        /\ k = [id |-> c.id, required |-> c.required, status |-> c.status,
                diagnostics |-> {}, artifacts |-> {}]
    BY <1>1, <1>3, CheckedByNone
  <2> QED
    BY <1>3, <2>1 DEF HasResult
<1> QED
  BY <1>2, <1>3

LEMMA KeptResult ==
  ASSUME NEW results, Listed(results), NEW r \in ToSet(results)
  PROVE  LET k == [r EXCEPT !.artifacts = ToSet(@)] IN
         /\ k.checkId = r.checkId /\ k.status = r.status
         /\ k.diagnostics = r.diagnostics /\ k.artifacts = ToSet(r.artifacts)
BY DEF Listed

LEMMA PassesAreMade == EvidenceInv => PassesAreProven
<1> SUFFICES ASSUME EvidenceInv PROVE PassesAreProven
  OBVIOUS
<1>1. ASSUME NEW e \in envelopes, NEW k \in ToSet(e.evidence.checks)
      PROVE  /\ k.status = "passed" =>
                  \E r \in reports :
                    /\ r.planId = e.evidence.plan.id
                    /\ r.checkId = k.id
                    /\ r.status = "passed"
                    /\ r.exitCode = 0
                    /\ k.artifacts = {a.digest : a \in ToSet(r.artifacts)}
                    /\ k.artifacts # {}
             /\ \A r \in e.results : r.checkId = k.id => r.status = k.status
  <2>1. PICK ep \in AllPlans, results \in ResultLists, contents \in Contents :
          \E vp \in VerificationPlans(ep) :
          /\ Accepts(ep, vp, results, contents) /\ Listed(results)
          /\ MadeOf(e.evidence, ep, vp, results)
          /\ e.results = {[r EXCEPT !.artifacts = ToSet(@)] : r \in ToSet(results)}
    BY KeptEnvelope
  <2>2. PICK vp \in VerificationPlans(ep) :
          /\ Accepts(ep, vp, results, contents) /\ Listed(results)
          /\ MadeOf(e.evidence, ep, vp, results)
    BY <2>1
  <2>3. /\ k.status = "passed" =>
             \E r \in ToSet(results) :
               /\ r.planId = ep.executionPlanId /\ r.checkId = k.id
               /\ r.status = "passed" /\ r.exitCode = 0
               /\ k.artifacts = {a.digest : a \in ToSet(r.artifacts)}
               /\ k.artifacts # {}
        /\ \A r \in ToSet(results) : r.checkId = k.id => r.status = k.status
    BY <2>2, PassedCheckHasResult
  <2>4. e.evidence.plan.id = ep.executionPlanId
    BY <2>2 DEF MadeOf
  <2>5. ToSet(results) \subseteq reports
    BY <2>2 DEF Listed
  <2>6. ASSUME NEW r \in e.results, r.checkId = k.id
        PROVE  r.status = k.status
    <3>1. PICK q \in ToSet(results) : r = [q EXCEPT !.artifacts = ToSet(@)]
      BY <2>1
    <3>2. r.checkId = q.checkId /\ r.status = q.status
      BY <2>2, <3>1, KeptResult
    <3> QED
      BY <2>3, <2>6, <3>2
  <2> QED
    BY <2>3, <2>4, <2>5, <2>6
<1>2. ASSUME NEW e \in records, NEW k \in DOMAIN e.states, e.states[k] = "passed"
      PROVE  \E r \in reports :
               /\ r.planId = e.plan /\ r.checkId = k
               /\ r.status = "passed" /\ r.trusted /\ VerifiedArtifacts(r)
  <2>1. PICK ep \in AllPlans, requirements \in Requirements, results \in ResultLists :
          e = Record(ep, RequiredChecks(requirements), results)
    BY DEF EvidenceInv, RecordsMade
  <2>2. e.plan = ep.executionPlanId /\ e.states[k] = RecordedState(ep, k, results)
    BY <2>1 DEF Record, RecordedStates
  <2> DEFINE found == {i \in DOMAIN results : Candidate(results[i], ep, k)}
             r == results[Min(found)]
  <2>3. found # {} /\ VerifiedArtifacts(r) /\ r.status = "passed"
    BY <1>2, <2>2 DEF RecordedState
  <2>4. DOMAIN results \subseteq Nat
    BY DEF ResultLists
  <2>5. Min(found) \in found
    BY <2>3, <2>4, LeastIsMember
  <2>6. r \in reports /\ Candidate(r, ep, k)
    BY <2>5 DEF ResultLists
  <2> QED
    BY <2>2, <2>3, <2>6 DEF Candidate
<1> QED
  BY <1>1, <1>2 DEF PassesAreProven

-----------------------------------------------------------------------------
(* Alterations *)

\* verify, for an envelope that keeps the id of one that verifies: it
\* compares everything but the order of the checks.
LEMMA VerifiesIffSame ==
  ASSUME NEW e, IsEnvelope(e), Keyed(e.checks), Verifies(e),
         NEW a, IsEnvelope(a), Keyed(a.checks), a.evidenceId = e.evidenceId
  PROVE  Verifies(a) <=> SameEvidence(a, e)
<1>1. \A x : Verifies(x) <=>
        /\ DistinctIds(x.checks)
        /\ ~ \E c \in ToSet(x.checks) : c.required /\ c.status = "passed" /\ c.artifacts = {}
        /\ ~ \E c \in ToSet(x.checks) : c.required /\ c.status = "not-required"
        /\ x.unverified = DeriveUnverified(x.checks)
        /\ x.digest = Preimage(x) /\ x.evidenceId = x.digest
  BY DEF Verifies, StateIssues, DigestIssues
<1>2. SameEvidence(a, e) <=>
        /\ a.bound = e.bound /\ a.plan = e.plan
        /\ ById(a.checks) = ById(e.checks) /\ a.unverified = e.unverified
        /\ a.digest = e.digest
  <2> DEFINE x == [a EXCEPT !.checks = ById(@)]
             y == [e EXCEPT !.checks = ById(@)]
  <2>1. /\ x = [bound |-> a.bound, plan |-> a.plan, checks |-> ById(a.checks),
                unverified |-> a.unverified, digest |-> a.digest,
                evidenceId |-> a.evidenceId]
        /\ y = [bound |-> e.bound, plan |-> e.plan, checks |-> ById(e.checks),
                unverified |-> e.unverified, digest |-> e.digest,
                evidenceId |-> e.evidenceId]
    BY DEF IsEnvelope
  <2>2. SameEvidence(a, e) <=> x = y
    BY DEF SameEvidence, NormalizeChecks
  <2> HIDE DEF x, y
  <2> QED
    BY <2>1, <2>2
<1>3. ASSUME Verifies(a) PROVE SameEvidence(a, e)
  <2>1. Preimage(a) = Preimage(e) /\ a.digest = e.digest
    BY <1>1, <1>3
  <2>2. /\ a.bound = e.bound /\ a.plan = e.plan
        /\ ById(a.checks) = ById(e.checks) /\ a.unverified = e.unverified
    BY <2>1 DEF Preimage, NormalizeChecks
  <2> QED
    BY <1>2, <2>1, <2>2
<1>4. ASSUME SameEvidence(a, e) PROVE Verifies(a)
  <2>1. /\ a.bound = e.bound /\ a.plan = e.plan
        /\ ById(a.checks) = ById(e.checks) /\ a.unverified = e.unverified
        /\ a.digest = e.digest
    BY <1>2, <1>4
  <2>2. ToSet(a.checks) = ToSet(e.checks)
    BY <2>1, ByIdKeeps
  <2>3. DistinctIds(a.checks) <=> DistinctIds(e.checks)
    BY <2>1, ByIdKeeps
  <2>4. DeriveUnverified(a.checks) = DeriveUnverified(e.checks)
    BY <2>2 DEF DeriveUnverified
  <2>5. Preimage(a) = Preimage(e)
    BY <2>1 DEF Preimage, NormalizeChecks
  <2> QED
    BY <1>1, <2>1, <2>2, <2>3, <2>4, <2>5
<1> QED
  BY <1>3, <1>4

LEMMA AlteredField ==
  ASSUME NEW e, IsEnvelope(e), NEW v
  PROVE  /\ LET a == [e EXCEPT !.plan = v] IN
            IsEnvelope(a) /\ a.checks = e.checks /\ a.evidenceId = e.evidenceId
         /\ LET a == [e EXCEPT !.bound = v] IN
            IsEnvelope(a) /\ a.checks = e.checks /\ a.evidenceId = e.evidenceId
         /\ LET a == [e EXCEPT !.unverified = v] IN
            IsEnvelope(a) /\ a.checks = e.checks /\ a.evidenceId = e.evidenceId
         /\ LET a == [e EXCEPT !.digest = v] IN
            IsEnvelope(a) /\ a.checks = e.checks /\ a.evidenceId = e.evidenceId
         /\ LET a == [e EXCEPT !.checks = v] IN
            IsEnvelope(a) /\ a.checks = v /\ a.evidenceId = e.evidenceId
BY DEF IsEnvelope

LEMMA ListTail ==
  ASSUME NEW S, NEW s \in Seq(S), s # <<>>
  PROVE  Tail(s) \in Seq(S)
OBVIOUS

\* Every alteration is an envelope with the id of the one it alters.
LEMMA AlterationsKeepId ==
  ASSUME NEW e, IsEnvelope(e), Keyed(e.checks), NEW a \in Alterations(e)
  PROVE  IsEnvelope(a) /\ Keyed(a.checks) /\ a.evidenceId = e.evidenceId
<1> DEFINE checks == e.checks
           Kept == IsEnvelope(a) /\ Keyed(a.checks) /\ a.evidenceId = e.evidenceId
           At(i, f, v) == [e EXCEPT !.checks[i] = [checks[i] EXCEPT ![f] = v]]
<1>1. CASE a = e
  BY <1>1
<1>2. ASSUME NEW v, \/ a = [e EXCEPT !.plan = v] \/ a = [e EXCEPT !.bound = v]
                    \/ a = [e EXCEPT !.unverified = v] \/ a = [e EXCEPT !.digest = v]
      PROVE  Kept
  <2>1. IsEnvelope(a) /\ a.checks = e.checks /\ a.evidenceId = e.evidenceId
    <3>1. CASE a = [e EXCEPT !.plan = v]
      BY <3>1, AlteredField
    <3>2. CASE a = [e EXCEPT !.bound = v]
      BY <3>2, AlteredField
    <3>3. CASE a = [e EXCEPT !.unverified = v]
      BY <3>3, AlteredField
    <3>4. CASE a = [e EXCEPT !.digest = v]
      BY <3>4, AlteredField
    <3> QED
      BY <1>2, <3>1, <3>2, <3>3, <3>4
  <2> QED
    BY <2>1
<1>3. ASSUME NEW v, Keyed(v), a = [e EXCEPT !.checks = v]
      PROVE  Kept
  BY <1>3, AlteredField
<1>4. CASE \E c \in IF checks = <<>> THEN {}
                    ELSE {Reverse(checks), Tail(checks), checks \o <<Head(checks)>>} :
             a = [e EXCEPT !.checks = c]
  <2>1. PICK c \in {Reverse(checks), Tail(checks), checks \o <<Head(checks)>>} :
          checks # <<>> /\ a = [e EXCEPT !.checks = c]
    BY <1>4
  <2>2. checks \in Seq(ToSet(checks))
    BY DEF Keyed
  <2>3. Keyed(Reverse(checks))
    BY KeyedReverse
  <2>4. Keyed(Tail(checks))
    <3>1. Tail(checks) \in Seq(ToSet(checks))
      BY <2>1, <2>2, ListTail
    <3> QED
      BY <3>1, KeyedItems
  <2>5. Keyed(checks \o <<Head(checks)>>)
    <3>1. Head(checks) \in ToSet(checks)
      BY <2>1, <2>2
    <3>2. checks \o <<Head(checks)>> \in Seq(ToSet(checks))
      BY <2>2, <3>1
    <3> QED
      BY <3>2, KeyedItems
  <2> QED
    BY <1>3, <2>1, <2>3, <2>4, <2>5
<1>5. ASSUME NEW i \in DOMAIN checks, NEW f, NEW v, f # "id", a = At(i, f, v)
      PROVE  Kept
  <2> DEFINE x == [checks[i] EXCEPT ![f] = v]
  <2>1. "id" \in DOMAIN checks[i] /\ checks[i].id \in Keys
    BY DEF Keyed
  <2>2. "id" \in DOMAIN x /\ x.id \in Keys
    BY <1>5, <2>1
  <2>3. a = [e EXCEPT !.checks = [checks EXCEPT ![i] = x]]
    BY <1>5 DEF IsEnvelope
  <2> HIDE DEF x
  <2>4. Keyed([checks EXCEPT ![i] = x])
    BY <2>2, KeyedReplace
  <2> QED
    BY <1>3, <2>3, <2>4
<1> DEFINE moved == IF checks = <<>> THEN {}
                    ELSE {Reverse(checks), Tail(checks), checks \o <<Head(checks)>>}
           A1 == {[e EXCEPT !.plan = [id |-> p.executionPlanId, digest |-> p.immutableDigest]] :
                    p \in plans}
           A2 == {[e EXCEPT !.bound = BoundOf(p)] : p \in plans}
           A3 == {[e EXCEPT !.checks = c] : c \in moved}
           A4 == {At(i, "status", s) : i \in DOMAIN checks, s \in RunnerStates}
           A5 == {At(i, "required", b) : i \in DOMAIN checks, b \in BOOLEAN}
           A6 == {At(i, "artifacts", {}) : i \in DOMAIN checks}
           A7 == {[e EXCEPT !.unverified = u] : u \in SUBSET {c.id : c \in ToSet(checks)}}
           A8 == {[e EXCEPT !.digest = f.evidence.digest] : f \in envelopes}
<1>6. CASE a \in A1 \/ a \in A2 \/ a \in A7 \/ a \in A8
  BY <1>2, <1>6
<1>7. CASE a \in A4 \/ a \in A5 \/ a \in A6
  <2>1. CASE a \in A4
    <3>1. PICK i \in DOMAIN checks, s \in RunnerStates : a = At(i, "status", s)
      BY <2>1
    <3> QED
      BY <1>5, <3>1
  <2>2. CASE a \in A5
    <3>1. PICK i \in DOMAIN checks, b \in BOOLEAN : a = At(i, "required", b)
      BY <2>2
    <3> QED
      BY <1>5, <3>1
  <2>3. CASE a \in A6
    <3>1. PICK i \in DOMAIN checks : a = At(i, "artifacts", {})
      BY <2>3
    <3> QED
      BY <1>5, <3>1
  <2> QED
    BY <1>7, <2>1, <2>2, <2>3
<1>8. CASE a \in A3
  BY <1>4, <1>8
<1>9. Alterations(e) =
        {e} \cup A1 \cup A2 \cup A3 \cup A4 \cup A5 \cup A6 \cup A7 \cup A8
  BY DEF Alterations
<1> HIDE DEF A1, A2, A3, A4, A5, A6, A7, A8
<1> QED
  BY <1>1, <1>6, <1>7, <1>8, <1>9

\* A required check of an envelope that was made is verified just when a
\* result passed it.
LEMMA CompleteIffPassed ==
  ASSUME NEW ep, NEW vp, NEW results, NEW contents,
         Accepts(ep, vp, results, contents), Listed(results),
         NEW e, MadeOf(e, ep, vp, results)
  PROVE  RequiredComplete(e) <=>
           \A c \in ToSet(vp.checks) : c.required =>
             \E r \in ToSet(results) : r.checkId = c.id /\ r.status = "passed"
<1>1. RequiredComplete(e) <=> \A k \in ToSet(e.checks) : k.required => k.status = "passed"
  <2>1. RequiredComplete(e) <=>
          \A k \in ToSet(e.checks) : k.required => k.status \in {"passed", "not-required"}
    BY DEF RequiredComplete, DeriveUnverified
  <2>2. \A k \in ToSet(e.checks) : ~(k.required /\ k.status = "not-required")
    BY MadeStates
  <2> QED
    BY <2>1, <2>2
<1>2. ASSUME NEW c \in ToSet(vp.checks)
      PROVE  /\ EvidenceCheck(c, results) \in ToSet(e.checks)
             /\ EvidenceCheck(c, results).required = c.required
             /\ EvidenceCheck(c, results).id = c.id
  BY DEF MadeOf, EvidenceCheck
<1>3. ASSUME NEW c \in ToSet(vp.checks)
      PROVE  EvidenceCheck(c, results).status = "passed" <=>
               \E r \in ToSet(results) : r.checkId = c.id /\ r.status = "passed"
  BY <1>2, PassedCheckHasResult
<1>4. \A k \in ToSet(e.checks) : \E c \in ToSet(vp.checks) : k = EvidenceCheck(c, results)
  BY DEF MadeOf
<1> QED
  BY <1>1, <1>2, <1>3, <1>4

LEMMA AlterationsAreTold == EvidenceInv => VerifyTellsAlterations
<1> SUFFICES ASSUME EvidenceInv, NEW e \in envelopes
             PROVE  /\ \A a \in Alterations(e.evidence) :
                         Verifies(a) <=> SameEvidence(a, e.evidence)
                    /\ RequiredComplete(e.evidence) <=>
                         \A c \in e.checks : c.required =>
                           \E r \in e.results : r.checkId = c.id /\ r.status = "passed"
  BY DEF VerifyTellsAlterations
<1>1. PICK ep \in AllPlans, results \in ResultLists, contents \in Contents :
          \E vp \in VerificationPlans(ep) :
        /\ Accepts(ep, vp, results, contents) /\ Listed(results)
        /\ MadeOf(e.evidence, ep, vp, results) /\ IsEnvelope(e.evidence)
        /\ e.checks = ToSet(vp.checks)
        /\ e.results = {[r EXCEPT !.artifacts = ToSet(@)] : r \in ToSet(results)}
  BY KeptEnvelope
<1>2. PICK vp \in VerificationPlans(ep) :
        /\ Accepts(ep, vp, results, contents) /\ Listed(results)
        /\ MadeOf(e.evidence, ep, vp, results) /\ IsEnvelope(e.evidence)
        /\ e.checks = ToSet(vp.checks)
  BY <1>1
<1>3. Verifies(e.evidence) /\ Keyed(e.evidence.checks)
  BY <1>2, MadeEnvelopeVerifies DEF MadeOf
<1>4. ASSUME NEW a \in Alterations(e.evidence)
      PROVE  Verifies(a) <=> SameEvidence(a, e.evidence)
  <2>1. IsEnvelope(a) /\ Keyed(a.checks) /\ a.evidenceId = e.evidence.evidenceId
    BY <1>2, <1>3, AlterationsKeepId
  <2> QED
    BY <1>2, <1>3, <2>1, VerifiesIffSame
<1>5. RequiredComplete(e.evidence) <=>
        \A c \in ToSet(vp.checks) : c.required =>
          \E r \in ToSet(results) : r.checkId = c.id /\ r.status = "passed"
  BY <1>2, CompleteIffPassed
<1>6. ASSUME NEW c
      PROVE  (\E r \in ToSet(results) : r.checkId = c.id /\ r.status = "passed") <=>
               \E r \in e.results : r.checkId = c.id /\ r.status = "passed"
  <2>1. \A r \in ToSet(results) :
          /\ [r EXCEPT !.artifacts = ToSet(@)].checkId = r.checkId
          /\ [r EXCEPT !.artifacts = ToSet(@)].status = r.status
    BY <1>2, KeptResult
  <2>2. ASSUME NEW q \in e.results, q.checkId = c.id, q.status = "passed"
        PROVE  \E r \in ToSet(results) : r.checkId = c.id /\ r.status = "passed"
    <3>1. PICK r \in ToSet(results) : q = [r EXCEPT !.artifacts = ToSet(@)]
      BY <1>1
    <3> QED
      BY <2>1, <2>2, <3>1
  <2>3. ASSUME NEW r \in ToSet(results), r.checkId = c.id, r.status = "passed"
        PROVE  \E q \in e.results : q.checkId = c.id /\ q.status = "passed"
    <3>1. [r EXCEPT !.artifacts = ToSet(@)] \in e.results
      BY <1>1
    <3> QED
      BY <2>1, <2>3, <3>1
  <2> QED
    BY <2>2, <2>3
<1> QED
  BY <1>2, <1>4, <1>5, <1>6

-----------------------------------------------------------------------------
(* Digests *)

KeptResults(results) == {[r EXCEPT !.artifacts = ToSet(@)] : r \in ToSet(results)}

\* A check of the envelope depends on the set of results alone, and on the
\* set of artifacts of each.
LEMMA CheckOfResults ==
  ASSUME NEW p, NEW v, NEW rs, NEW x, Accepts(p, v, rs, x), Listed(rs),
         NEW q, NEW w, NEW ss, NEW y, Accepts(q, w, ss, y), Listed(ss),
         KeptResults(rs) = KeptResults(ss),
         NEW c \in ToSet(v.checks), c \in ToSet(w.checks)
  PROVE  EvidenceCheck(c, rs) = EvidenceCheck(c, ss)
<1>1. ASSUME NEW us, NEW zs, KeptResults(us) = KeptResults(zs), Listed(us), Listed(zs),
             NEW r \in ToSet(us)
      PROVE  \E s \in ToSet(zs) :
               /\ s.checkId = r.checkId /\ s.status = r.status
               /\ s.diagnostics = r.diagnostics
               /\ ToSet(s.artifacts) = ToSet(r.artifacts)
  <2>1. [r EXCEPT !.artifacts = ToSet(@)] \in KeptResults(zs)
    <3>1. [r EXCEPT !.artifacts = ToSet(@)] \in KeptResults(us)
      BY DEF KeptResults
    <3> QED
      BY <1>1, <3>1
  <2>2. PICK s \in ToSet(zs) :
          [r EXCEPT !.artifacts = ToSet(@)] = [s EXCEPT !.artifacts = ToSet(@)]
    BY <2>1 DEF KeptResults
  <2> DEFINE k == [r EXCEPT !.artifacts = ToSet(@)]
             l == [s EXCEPT !.artifacts = ToSet(@)]
  <2>3. /\ k.checkId = r.checkId /\ k.status = r.status
        /\ k.diagnostics = r.diagnostics /\ k.artifacts = ToSet(r.artifacts)
    BY <1>1, KeptResult
  <2>4. /\ l.checkId = s.checkId /\ l.status = s.status
        /\ l.diagnostics = s.diagnostics /\ l.artifacts = ToSet(s.artifacts)
    BY <1>1, KeptResult
  <2>5. k = l
    BY <2>2
  <2> HIDE DEF k, l
  <2> QED
    BY <2>3, <2>4, <2>5
<1>2. CASE HasResult(rs, c.id)
  <2>1. PICK r \in ToSet(rs) :
          /\ r.checkId = c.id
          /\ EvidenceCheck(c, rs) =
               [id |-> c.id, required |-> c.required, status |-> r.status,
                diagnostics |-> r.diagnostics,
                artifacts |-> {a.digest : a \in ToSet(r.artifacts)}]
    BY <1>2, CheckedByResult
  <2>2. PICK s \in ToSet(ss) :
          /\ s.checkId = r.checkId /\ s.status = r.status
          /\ s.diagnostics = r.diagnostics
          /\ ToSet(s.artifacts) = ToSet(r.artifacts)
    BY <1>1, <2>1
  <2>3. HasResult(ss, c.id) /\ ResultOf(ss, c.id) = s
    BY <2>1, <2>2, OneResult
  <2>4. EvidenceCheck(c, ss) =
          [id |-> c.id, required |-> c.required, status |-> s.status,
           diagnostics |-> s.diagnostics,
           artifacts |-> {a.digest : a \in ToSet(s.artifacts)}]
    BY <2>3 DEF EvidenceCheck
  <2> QED
    BY <2>1, <2>2, <2>4
<1>3. CASE ~HasResult(rs, c.id)
  <2>1. ~HasResult(ss, c.id)
    <3> SUFFICES ASSUME HasResult(ss, c.id) PROVE FALSE
      OBVIOUS
    <3>1. PICK s \in ToSet(ss) : s.checkId = c.id
      BY DEF HasResult
    <3>2. PICK r \in ToSet(rs) : r.checkId = s.checkId
      BY <1>1, <3>1
    <3> QED
      BY <1>3, <3>1, <3>2 DEF HasResult
  <2> QED
    BY <1>3, <2>1 DEF EvidenceCheck
<1> QED
  BY <1>2, <1>3

LEMMA DigestsAreTold == EvidenceInv => DigestTellsEvidence
<1> SUFFICES ASSUME EvidenceInv, NEW e \in envelopes, NEW f \in envelopes
             PROVE  /\ e.evidence.plan = f.evidence.plan /\ e.checks = f.checks
                         /\ e.results = f.results
                         => e.evidence.evidenceId = f.evidence.evidenceId
                    /\ e.evidence.evidenceId = f.evidence.evidenceId
                         => Failed(e.evidence) = Failed(f.evidence)
  BY DEF DigestTellsEvidence
<1> DEFINE E == e.evidence
           F == f.evidence
<1>1. PICK p \in AllPlans, rs \in ResultLists, x \in Contents : \E v \in VerificationPlans(p) :
        /\ Accepts(p, v, rs, x) /\ Listed(rs) /\ MadeOf(E, p, v, rs)
        /\ e.checks = ToSet(v.checks) /\ e.results = KeptResults(rs)
  BY KeptEnvelope DEF KeptResults
<1>2. PICK v \in VerificationPlans(p) :
        /\ Accepts(p, v, rs, x) /\ Listed(rs) /\ MadeOf(E, p, v, rs)
        /\ e.checks = ToSet(v.checks) /\ e.results = KeptResults(rs)
  BY <1>1
<1>3. PICK q \in AllPlans, ss \in ResultLists, y \in Contents : \E w \in VerificationPlans(q) :
        /\ Accepts(q, w, ss, y) /\ Listed(ss) /\ MadeOf(F, q, w, ss)
        /\ f.checks = ToSet(w.checks) /\ f.results = KeptResults(ss)
  BY KeptEnvelope DEF KeptResults
<1>4. PICK w \in VerificationPlans(q) :
        /\ Accepts(q, w, ss, y) /\ Listed(ss) /\ MadeOf(F, q, w, ss)
        /\ f.checks = ToSet(w.checks) /\ f.results = KeptResults(ss)
  BY <1>3
<1> HIDE DEF E, F
<1>5. /\ Keyed(E.checks) /\ DistinctIds(E.checks)
      /\ Keyed(F.checks) /\ DistinctIds(F.checks)
      /\ E.evidenceId = Preimage(E) /\ F.evidenceId = Preimage(F)
  BY <1>2, <1>4 DEF MadeOf
<1>6. ASSUME E.plan = F.plan, e.checks = f.checks, e.results = f.results
      PROVE  E.evidenceId = F.evidenceId
  <2>1. E.bound = F.bound
    <3>1. p.executionPlanId = q.executionPlanId
      <4>1. E.plan.id = p.executionPlanId
        BY <1>2 DEF MadeOf
      <4>2. F.plan.id = q.executionPlanId
        BY <1>4 DEF MadeOf
      <4> QED
        BY <1>6, <4>1, <4>2
    <3>2. p.semantic = p.executionPlanId /\ q.semantic = q.executionPlanId
      BY DEF AllPlans, Plan
    <3>3. BoundOf(p) = BoundOf(q)
      BY <3>1, <3>2 DEF BoundOf
    <3> QED
      BY <1>2, <1>4, <3>3 DEF MadeOf
  <2>2. ASSUME NEW c \in ToSet(v.checks)
        PROVE  EvidenceCheck(c, rs) = EvidenceCheck(c, ss)
    <3>1. c \in ToSet(w.checks) /\ KeptResults(rs) = KeptResults(ss)
      BY <1>2, <1>4, <1>6
    <3>2. Accepts(p, v, rs, x) /\ Listed(rs) /\ Accepts(q, w, ss, y) /\ Listed(ss)
      BY <1>2, <1>4
    <3> QED
      BY <3>1, <3>2, CheckOfResults
  <2>3. ToSet(E.checks) = ToSet(F.checks)
    <3>1. /\ ToSet(E.checks) = {EvidenceCheck(c, rs) : c \in ToSet(v.checks)}
          /\ ToSet(F.checks) = {EvidenceCheck(c, ss) : c \in ToSet(w.checks)}
      BY <1>2, <1>4 DEF MadeOf
    <3> QED
      BY <1>2, <1>4, <1>6, <2>2, <3>1
  <2>4. ById(E.checks) = ById(F.checks)
    BY <1>5, <2>3, ByIdTellsSet
  <2>5. E.unverified = F.unverified
    BY <1>2, <1>4, <2>3 DEF MadeOf, DeriveUnverified
  <2> QED
    BY <1>5, <1>6, <2>1, <2>4, <2>5 DEF Preimage, NormalizeChecks
<1>7. ASSUME E.evidenceId = F.evidenceId
      PROVE  Failed(E) = Failed(F)
  <2>1. ById(E.checks) = ById(F.checks)
    BY <1>5, <1>7 DEF Preimage, NormalizeChecks
  <2>2. ToSet(E.checks) = ToSet(F.checks)
    BY <1>5, <2>1, ByIdKeeps
  <2> QED
    BY <2>2 DEF Failed
<1> QED
  BY <1>6, <1>7 DEF E, F

-----------------------------------------------------------------------------
(* No check is passed in evidence but on the result of a runner for this   *)
(* plan that passed with exit code zero and checked artifacts, and what a  *)
(* runner reported is what the evidence says (the accepted results of      *)
(* ingestEvidence, validateRunnerResult and validateArtifacts); and a      *)
(* passed check of a record has a trusted result with its artifacts        *)
(* observed (ingestRunnerResults).                                         *)
THEOREM PassesNeedResults == EvidenceSpec => []PassesAreProven
BY AllIsMade, PassesAreMade, PTL

(* verifyEvidence accepts every envelope ingestEvidence makes and refuses  *)
(* any one alteration of it but another order of its checks, and           *)
(* summarizeEvidence calls it complete just when a runner passed every     *)
(* required check.                                                         *)
THEOREM AlteredEvidenceIsRefused == EvidenceSpec => []VerifyTellsAlterations
BY AllIsMade, AlterationsAreTold, PTL

(* ingestEvidence gives evidence of one plan, one set of checks and one    *)
(* set of results the same id, in whatever order they came, and different  *)
(* failures different ids.                                                 *)
THEOREM OneDigestPerEvidence == EvidenceSpec => []DigestTellsEvidence
BY AllIsMade, DigestsAreTold, PTL

(* A plan shows no drift from the current inputs just when planning the    *)
(* same proposal with them gives a plan of the same id (compare and        *)
(* create of the planner agree on what a plan depends on).                 *)
THEOREM DriftIsAnotherPlan == EvidenceSpec => []DriftTellsPlan
BY AllIsMade, DriftTold, PTL


=============================================================================
