--------------------------- MODULE PlanningEvidence --------------------------
(***************************************************************************)
(* The record keeping of packages/core/src/planning-evidence.ts: an older  *)
(* and laxer path from runner results to check states, which takes for     *)
(* each required check the first trusted result bound to the plan.         *)
(***************************************************************************)
EXTENDS Naturals, Sequences, FiniteSets, SequencesExt

(* verifiedArtifacts: every artifact was observed with the digest it has.  *)
VerifiedArtifacts(r) == \A a \in ToSet(r.artifacts) : a.observed = a.digest

Candidate(r, plan, check) ==
  /\ r.checkId = check
  /\ r.planId = plan.executionPlanId
  /\ r.planDigest = plan.immutableDigest
  /\ r.trusted

(* ingestRunnerResults, for one required check.  The exit code is not      *)
(* looked at, and neither is any result after the first.                   *)
RecordedState(plan, check, results) ==
  LET found == {i \in DOMAIN results : Candidate(results[i], plan, check)}
  IN IF found # {} /\ VerifiedArtifacts(results[Min(found)])
       THEN results[Min(found)].status ELSE "not-run"

RecordedStates(plan, checks, results) ==
  [c \in checks |-> RecordedState(plan, c, results)]

(* createEvidenceEnvelope: the states, those not run listed as unverified, *)
(* bound to the plan; the times of the run are outside the digest.         *)
Record(plan, checks, results) ==
  LET states == RecordedStates(plan, checks, results)
  IN [plan |-> plan.executionPlanId, states |-> states,
      unverified |-> {c \in checks : states[c] = "not-run"}]
=============================================================================
