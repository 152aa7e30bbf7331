--------------------------- MODULE MCPlanEvidence ----------------------------
(***************************************************************************)
(* PlanEvidence: up to two plans, a required and an optional check, three  *)
(* results.                                                                *)
(***************************************************************************)
EXTENDS PlanEvidence

MCKeyOrder == <<"a1", "a2", "c1", "c2", "k1", "k2">>

Base ==
  [projectSnapshot |-> 1, catalogSnapshot |-> 1, policySnapshot |-> 1,
   routePlan |-> 1,
   contextReferences |-> <<[id |-> "k1", digest |-> 1], [id |-> "k2", digest |-> 1]>>,
   objective |-> "text", constraints |-> <<"x", "y">>,
   lockfile |-> {1}, runnerCapabilities |-> {}]

\* The same inputs in another order and with a repetition.
Reordered ==
  [Base EXCEPT !.contextReferences = Reverse(@), !.constraints = <<"y", "x", "y">>]

MCPlanningInputs ==
  {Base, Reordered, [Base EXCEPT !.lockfile = {}], [Base EXCEPT !.objective = "secret"]}

\* And inputs that differ in one field each.
Repeated == <<[id |-> "k1", digest |-> 1], [id |-> "k1", digest |-> 2]>>

MCCurrentInputs ==
  {Base, Reordered,
   [Base EXCEPT !.contextReferences = Repeated],
   [Base EXCEPT !.contextReferences = Reverse(Repeated)],
   [Base EXCEPT !.constraints = <<"x">>],
   [Base EXCEPT !.objective = ""],
   [Base EXCEPT !.lockfile = {}],
   [Base EXCEPT !.lockfile = {2}],
   [Base EXCEPT !.runnerCapabilities = {1}]}
     \cup {[Base EXCEPT ![f] = 2] :
            f \in {"projectSnapshot", "catalogSnapshot", "policySnapshot", "routePlan"}}

MCProposals ==
  {[operations |-> <<[id |-> "k1"]>>, permissions |-> {"network"},
    unresolvedInputs |-> {}, deniedSteps |-> {}]}

C(id, required) == [id |-> id, required |-> required]
MCRequirements == {<<C("c1", TRUE), C("c2", FALSE)>>, <<C("c2", FALSE), C("c1", TRUE)>>}

Artifact(id, observed) == [id |-> id, digest |-> id, observed |-> observed]

Claim(check, status, code, artifacts, trusted) ==
  [checkId |-> check, status |-> status, exitCode |-> code, artifacts |-> artifacts,
   diagnostics |-> {status}, trusted |-> trusted, wellFormed |-> TRUE]

Artifacts == <<Artifact("a1", "a1"), Artifact("a2", "a2")>>

MCClaims ==
  {Claim("c1", "passed", 0, Artifacts, TRUE),
   Claim("c1", "passed", 0, Reverse(Artifacts), TRUE),
   Claim("c1", "passed", 0, <<>>, FALSE),
   Claim("c1", "passed", 1, <<Artifact("a1", "other")>>, TRUE),
   Claim("c1", "passed", 1, <<Artifact("a1", "a1")>>, TRUE),
   Claim("c1", "failed", 1, <<>>, TRUE),
   Claim("c1", "not-run", 0, <<>>, TRUE),
   Claim("c2", "passed", 0, <<Artifact("a2", "a2")>>, TRUE),
   Claim("c2", "timed-out", 0, <<>>, FALSE)}

\* The artifacts as they were, or one altered since, or one missing.
MCContents ==
  {[i \in {"a1", "a2"} |-> i],
   [i \in {"a1", "a2"} |-> IF i = "a1" THEN "other" ELSE i],
   [i \in {"a1"} |-> i]}
=============================================================================
