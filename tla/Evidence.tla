------------------------------- MODULE Evidence ------------------------------
(***************************************************************************)
(* Verification plans (packages/verification/src/index.ts) and the         *)
(* evidence service (packages/evidence/src): what ingest accepts of the    *)
(* runners' results, the envelope it makes of them, and what verify and    *)
(* summarize say of an envelope.                                           *)
(*                                                                         *)
(* The form of a runner result (secrets, empty ids, timestamps, a          *)
(* redaction of identity or state) is one flag, wellFormed.  A             *)
(* diagnostic is its code and message.                                     *)
(***************************************************************************)
EXTENDS Planner

RunnerStates ==
  {"passed", "failed", "blocked", "cancelled", "timed-out", "unverified"}

DistinctOver(items, Key(_)) ==
  \A i, j \in DOMAIN items : Key(items[i]) = Key(items[j]) => i = j

DistinctIds(items) == DistinctOver(items, LAMBDA item : item.id)

(* DeterministicVerificationPlanner.create, for requirements with distinct *)
(* ids: a required check is not run yet, another one not required.         *)
VerificationPlan(plan, requirements) ==
  [planId |-> plan.executionPlanId, planDigest |-> plan.immutableDigest,
   checks |-> ById([i \in DOMAIN requirements |->
                      [id |-> requirements[i].id,
                       required |-> requirements[i].required,
                       status |-> IF requirements[i].required
                                    THEN "not-run" ELSE "not-required"]])]

(* validateRunnerResult: bound to this plan, in a state a runner may       *)
(* declare, with the exit code that goes with it.                          *)
ValidRunnerResult(r, plan) ==
  /\ r.wellFormed
  /\ r.planId = plan.executionPlanId
  /\ r.planDigest = plan.immutableDigest
  /\ r.status \in RunnerStates
  /\ r.status = "passed" => r.exitCode = 0
  /\ r.status = "failed" => r.exitCode # 0

(* validateArtifacts: each is named once, has a digest of its own, and its *)
(* content is given and has that digest; a pass has at least one.          *)
ValidArtifacts(r, contents) ==
  /\ DistinctIds(r.artifacts)
  /\ DistinctOver(r.artifacts, LAMBDA a : a.digest)
  /\ \A a \in ToSet(r.artifacts) :
       a.id \in DOMAIN contents /\ contents[a.id] = a.digest
  /\ r.status = "passed" => r.artifacts # <<>>

HasResult(results, id) == \E r \in ToSet(results) : r.checkId = id
ResultOf(results, id) == CHOOSE r \in ToSet(results) : r.checkId = id

(* Mutant of Accepts: a pass the plan brings is believed.                  *)
AcceptsFabricated(plan, vp, results, contents) ==
  /\ vp.planId = plan.executionPlanId
  /\ vp.planDigest = plan.immutableDigest
  /\ DistinctIds(vp.checks)
  /\ \A c \in ToSet(vp.checks) : ~(c.required /\ c.status = "not-required")
  /\ DistinctOver(results, LAMBDA r : r.checkId)
  /\ \A r \in ToSet(results) :
       /\ \E c \in ToSet(vp.checks) : c.id = r.checkId
       /\ ValidRunnerResult(r, plan)
       /\ ValidArtifacts(r, contents)

(* ingestEvidence, up to the checks: everything it refuses.                *)
Accepts(plan, vp, results, contents) ==
  /\ vp.planId = plan.executionPlanId
  /\ vp.planDigest = plan.immutableDigest
  /\ DistinctIds(vp.checks)
  /\ \A c \in ToSet(vp.checks) : ~(c.required /\ c.status = "not-required")
  /\ DistinctOver(results, LAMBDA r : r.checkId)
  /\ \A r \in ToSet(results) :
       /\ \E c \in ToSet(vp.checks) : c.id = r.checkId
       /\ ValidRunnerResult(r, plan)
       /\ ValidArtifacts(r, contents)
  /\ \A c \in ToSet(vp.checks) : c.status = "passed" => HasResult(results, c.id)

(* The check of the envelope: what its runner reported, or what the        *)
(* verification plan said of it.                                           *)
EvidenceCheck(c, results) ==
  IF HasResult(results, c.id)
    THEN [id |-> c.id, required |-> c.required,
          status |-> ResultOf(results, c.id).status,
          diagnostics |-> ResultOf(results, c.id).diagnostics,
          artifacts |-> {a.digest : a \in ToSet(ResultOf(results, c.id).artifacts)}]
    ELSE [id |-> c.id, required |-> c.required, status |-> c.status,
          diagnostics |-> {}, artifacts |-> {}]

(* Mutant of NormalizeChecks: the checks are left in the order they have.  *)
ChecksAsTheyAre(checks) == checks

(* normalizeChecks: in the order of their ids.                             *)
NormalizeChecks(checks) == ById(checks)

(* deriveUnverified: the required checks that neither passed nor were      *)
(* waived.                                                                 *)
DeriveUnverified(checks) ==
  {c.id : c \in {d \in ToSet(checks) :
                   d.required /\ d.status \notin {"passed", "not-required"}}}

(* Mutant of Preimage: whether a check is required is left out.            *)
PreimageOfStates(e) ==
  [bound |-> e.bound, plan |-> e.plan,
   checks |-> [i \in DOMAIN e.checks |->
                 [NormalizeChecks(e.checks)[i] EXCEPT !.required = TRUE]],
   unverified |-> e.unverified]

(* evidencePreimage: the identities, the normalized checks and the sorted  *)
(* unverified list; a digest is that value.                                *)
Preimage(e) ==
  [bound |-> e.bound, plan |-> e.plan,
   checks |-> NormalizeChecks(e.checks), unverified |-> e.unverified]

(* The snapshots and the route an envelope takes from its plan.            *)
BoundOf(plan) ==
  [f \in {"projectSnapshot", "catalogSnapshot", "policySnapshot", "routePlan"} |->
     plan.semantic.inputs[f]]

Ingest(plan, vp, results) ==
  LET checks == NormalizeChecks([i \in DOMAIN vp.checks |->
                                   EvidenceCheck(vp.checks[i], results)])
      semantic == [bound |-> BoundOf(plan),
                   plan |-> [id |-> plan.executionPlanId,
                             digest |-> plan.immutableDigest],
                   checks |-> checks,
                   unverified |-> DeriveUnverified(checks)]
  IN [bound |-> semantic.bound, plan |-> semantic.plan, checks |-> checks,
      unverified |-> semantic.unverified,
      digest |-> Preimage(semantic), evidenceId |-> Preimage(semantic)]

(* verifyEvidence: the state issues, then the digest and the id.           *)
StateIssues(e) ==
  {i \in {"duplicate", "artifact missing", "state", "unverified"} :
     \/ i = "duplicate" /\ ~DistinctIds(e.checks)
     \/ i = "artifact missing" /\ \E c \in ToSet(e.checks) :
          c.required /\ c.status = "passed" /\ c.artifacts = {}
     \/ i = "state" /\ \E c \in ToSet(e.checks) :
          c.required /\ c.status = "not-required"
     \/ i = "unverified" /\ e.unverified # DeriveUnverified(e.checks)}

DigestIssues(e) ==
  {i \in {"digest", "id"} :
     \/ i = "digest" /\ e.digest # Preimage(e)
     \/ i = "id" /\ e.evidenceId # e.digest}

Verifies(e) == StateIssues(e) \cup DigestIssues(e) = {}

(* summarizeEvidence, for an envelope that verifies.                       *)
RequiredComplete(e) == DeriveUnverified(e.checks) = {}
Failed(e) == {c.id : c \in {d \in ToSet(e.checks) : d.status = "failed"}}
=============================================================================
