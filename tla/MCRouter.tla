------------------------------ MODULE MCRouter ------------------------------
(* Router on the three providers and four capabilities: one native (css),  *)
(* one that motion and gsap claim (layout), one of gsap's own (timeline),  *)
(* and one outside the catalog (unknown).                                  *)
EXTENDS Router

CONSTANTS hero, transform, opacity, mit, other

MCOrder == <<"css", "layout", "timeline", "unknown">>
MCKnown == {"css", "layout", "timeline"}
MCDefaultProperty ==
    [c \in {"css", "layout", "timeline", "unknown"} |->
        IF c = "css" THEN opacity ELSE transform]
MCPossible ==
    [c \in {"css", "layout", "timeline", "unknown"} |->
        IF c = "css" THEN {opacity, transform} ELSE {transform}]

Claim(support, confidence) == [support |-> support, confidence |-> confidence]
Runtime(license, paid, risky) ==
    <<[license |-> license, paid |-> paid, risky |-> risky]>>
Connector(healthy, runtime, claims) ==
    [healthy |-> healthy, runtime |-> runtime, claims |-> claims]

Ask(c, required, scope, property) ==
    [id |-> c, required |-> required, scope |-> scope, property |-> property]

\* What may be asked for one capability: nothing, or an entry with or without
\* a scope and a property.
Asks(c) ==
    {{}} \cup {{Ask(c, required, scope, property)} :
        required \in BOOLEAN, scope \in {Null, hero}, property \in {Null, transform}}

Requests ==
    {r \in {css \cup layout \cup timeline :
                css \in Asks("css"), layout \in Asks("layout"),
                timeline \in Asks("timeline")} : r # {}}
Plain ==
    {{Ask("css", a, Null, Null), Ask("layout", b, Null, Null),
      Ask("timeline", c, Null, Null)} : a, b, c \in BOOLEAN}
Odd ==
    {{Ask("unknown", TRUE, Null, Null)},
     {Ask("unknown", FALSE, Null, Null), Ask("css", TRUE, Null, Null)},
     {Ask("layout", TRUE, Null, Null), Ask("layout", FALSE, Null, Null)}}

\* gsap claims the layout too: as strongly as motion, less, or as a fallback.
Catalog(support, confidence) ==
    [p \in Providers |->
        CASE p = "web-platform" ->
                Connector(TRUE, Runtime(mit, FALSE, FALSE),
                          "css" :> Claim("primary", 2))
          [] p = "motion" ->
                Connector(TRUE, Runtime(mit, FALSE, FALSE),
                          "layout" :> Claim("primary", 2) @@ "css" :> Claim("secondary", 1))
          [] OTHER ->
                Connector(TRUE, Runtime(mit, FALSE, FALSE),
                          "timeline" :> Claim("primary", 2)
                            @@ "layout" :> Claim(support, confidence))]
Catalogs == {Catalog("primary", 2), Catalog("primary", 1), Catalog("fallback", 2)}

\* One provider unfit for one reason each.
Unfit(catalog, p) ==
    {[catalog EXCEPT ![p].healthy = FALSE],
     [catalog EXCEPT ![p].runtime = <<>>],
     [catalog EXCEPT ![p].runtime = Runtime(other, FALSE, FALSE)],
     [catalog EXCEPT ![p].runtime = Runtime(mit, TRUE, FALSE)],
     [catalog EXCEPT ![p].runtime = @ \o Runtime(mit, FALSE, TRUE)]}

Input(requested, catalog) ==
    [requested |-> requested, catalog |-> catalog, sameSnapshot |-> TRUE,
     policy |-> Null, preferred |-> <<>>, forbidden |-> {}, maxProviders |-> 2,
     allowPaid |-> TRUE, installed |-> {}, reactProven |-> TRUE]

Override(denied, licenses, loosens) ==
    [allowedConnectors |-> Providers, deniedConnectors |-> denied,
     allowedLicenses |-> licenses, allowPaidServices |-> FALSE, loosens |-> loosens]

\* Ownership: every request, one or two providers.
OwnershipInputs ==
    {[Input(r, catalog) EXCEPT !.maxProviders = max] :
        r \in Requests, catalog \in Catalogs, max \in {1, 2}}

\* Preferences, the project and the limit, on requests without ownership.
PreferenceInputs ==
    {[Input(r, catalog) EXCEPT !.preferred = preferred, !.forbidden = forbidden,
            !.installed = installed, !.maxProviders = max, !.reactProven = react] :
        r \in Plain \cup Odd, catalog \in Catalogs,
        preferred \in {<<>>, <<"gsap">>, <<"motion", "gsap">>},
        forbidden \in {{}, {"gsap"}, {"web-platform"}},
        installed \in {{}, {"gsap"}}, max \in 0..2, react \in BOOLEAN}

\* Unfit connectors and policies.
PolicyInputs ==
    {[Input(r, catalog) EXCEPT !.policy = policy, !.reactProven = react,
            !.sameSnapshot = same] :
        r \in Plain, catalog \in UNION {Unfit(Catalog("primary", 1), p) : p \in Providers},
        policy \in {Null, Override({"motion"}, {mit}, FALSE),
                    Override({}, {}, FALSE), Override({}, {mit}, TRUE)},
        react \in BOOLEAN, same \in BOOLEAN}

MCInputs == OwnershipInputs \cup PreferenceInputs \cup PolicyInputs
=============================================================================
