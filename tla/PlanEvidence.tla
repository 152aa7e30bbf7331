---------------------------- MODULE PlanEvidence -----------------------------
(***************************************************************************)
(* Plans and the evidence for them: a planner that keeps the plans it      *)
(* made, runners (external) whose results arrive late, for another plan or *)
(* not at all, and callers that ingest what has arrived, in any order,     *)
(* some of it twice, and as often as they like.                            *)
(***************************************************************************)
EXTENDS Evidence, PlanningEvidence

CONSTANTS
  PlanningInputs,    \* the inputs plans are made of
  CurrentInputs,     \* the inputs the workspace may have when a plan is compared
  Times,             \* the values of createdAt
  Proposals,         \* what may be proposed: operations, permissions, ...
  Requirements,      \* the lists of requirements
  ResultClaims,      \* what a result may say, but for the plan it is bound to
  Contents,          \* the artifact contents a caller may hand over
  AlteredStates,     \* the states a caller may write into a verification plan
  MaxPlans,          \* bound: plans made
  MaxReports,        \* bound: results that arrive
  MaxEvidence        \* bound: envelopes and records made

(* Requirements and artifacts come as lists, and every requirement's id is *)
(* a sort key.                                                             *)
ASSUME PlanEvidenceAssumption ==
  /\ \A list \in Requirements :
       /\ list \in Seq(ToSet(list))
       /\ \A i \in DOMAIN list : list[i].id \in ToSet(KeyOrder)
  /\ \A claim \in ResultClaims : claim.artifacts \in Seq(ToSet(claim.artifacts))
  /\ MaxReports \in Nat

VARIABLES
  plans,             \* the planner's map of plans, as a set
  reports,           \* the results that have arrived
  envelopes,         \* the envelopes made, with the checks and results of each
  records            \* the records made

evidenceVars == <<plans, reports, envelopes, records>>

(* create throws on an input with a secret, and otherwise keeps the plan   *)
(* under its id, in the place of one that had it.                          *)
CreatePlan(input, proposal, createdAt) ==
  /\ Cardinality(plans) < MaxPlans
  /\ AssertSafe(input)
  /\ LET plan == Plan(input, proposal, createdAt)
     IN /\ ValidPlan(plan)
        /\ plans' = {p \in plans : p.executionPlanId # plan.executionPlanId} \cup {plan}
  /\ UNCHANGED <<reports, envelopes, records>>

(* A result arrives, bound to one of the plans.                            *)
Report(plan, claim) ==
  /\ Cardinality(reports) < MaxReports
  /\ reports' = reports \cup
       {[planId |-> plan.executionPlanId, planDigest |-> plan.immutableDigest,
         checkId |-> claim.checkId, status |-> claim.status,
         exitCode |-> claim.exitCode, artifacts |-> claim.artifacts,
         diagnostics |-> claim.diagnostics, trusted |-> claim.trusted,
         wellFormed |-> claim.wellFormed]}
  /\ UNCHANGED <<plans, envelopes, records>>

(* The lists a caller can make of the results that arrived: some of them,  *)
(* in any order, one of them twice.                                        *)
ResultLists == UNION {[1..n -> reports] : n \in 0..MaxReports}

(* The verification plan of a list of requirements, as the planner made    *)
(* it, or with its checks in another order, or one state written over.     *)
VerificationPlans(plan) ==
  LET made == {VerificationPlan(plan, r) : r \in Requirements}
  IN made
       \cup {[vp EXCEPT !.checks = Reverse(@)] : vp \in made}
       \cup {[vp EXCEPT !.checks[i].status = s] :
          vp \in made, i \in 1..2, s \in AlteredStates}

MadeSoFar == Cardinality(envelopes) + Cardinality(records)

(* An envelope, with what it was made of.                                  *)
Envelope(plan, vp, results) ==
  [evidence |-> Ingest(plan, vp, results), checks |-> ToSet(vp.checks),
   results |-> {[r EXCEPT !.artifacts = ToSet(@)] : r \in ToSet(results)}]

(* ingestEvidence, when it does not throw.                                 *)
IngestResults(plan, vp, results, contents) ==
  /\ MadeSoFar < MaxEvidence
  /\ Accepts(plan, vp, results, contents)
  /\ envelopes' = envelopes \cup {Envelope(plan, vp, results)}
  /\ UNCHANGED <<plans, reports, records>>

RequiredChecks(requirements) ==
  {r.id : r \in {q \in ToSet(requirements) : q.required}}

(* ingestRunnerResults and createEvidenceEnvelope.                         *)
RecordResults(plan, requirements, results) ==
  /\ MadeSoFar < MaxEvidence
  /\ records' = records \cup {Record(plan, RequiredChecks(requirements), results)}
  /\ UNCHANGED <<plans, reports, envelopes>>

EvidenceInit ==
  /\ plans = {}
  /\ reports = {}
  /\ envelopes = {}
  /\ records = {}

EvidenceNext ==
  \/ \E i \in PlanningInputs, q \in Proposals, t \in Times : CreatePlan(i, q, t)
  \/ \E plan \in plans :
       \/ \E claim \in ResultClaims : Report(plan, claim)
       \/ \E vp \in VerificationPlans(plan), results \in ResultLists, c \in Contents :
            IngestResults(plan, vp, results, c)
       \/ \E r \in Requirements, results \in ResultLists :
            RecordResults(plan, r, results)

EvidenceSpec == EvidenceInit /\ [][EvidenceNext]_evidenceVars

(***************************************************************************)
(* Properties.                                                             *)
(***************************************************************************)

(* No check is passed in evidence but on the result of a runner, for this  *)
(* plan and no other, that passed with exit code zero and artifacts that   *)
(* were checked (docs: "Missing evidence never becomes passed"); and what  *)
(* a runner reported of a check is what the evidence says of it, failures  *)
(* too.  A passed check in a record has at least a trusted result for the  *)
(* plan with artifacts observed as they are.                               *)
PassesAreProven ==
  /\ \A e \in envelopes : \A c \in ToSet(e.evidence.checks) :
       /\ c.status = "passed" =>
            \E r \in reports :
              /\ r.planId = e.evidence.plan.id
              /\ r.checkId = c.id
              /\ r.status = "passed"
              /\ r.exitCode = 0
              /\ c.artifacts = {a.digest : a \in ToSet(r.artifacts)}
              /\ c.artifacts # {}
       /\ \A r \in e.results : r.checkId = c.id => r.status = c.status
  /\ \A e \in records : \A c \in DOMAIN e.states :
       e.states[c] = "passed" =>
         \E r \in reports :
           /\ r.planId = e.plan /\ r.checkId = c
           /\ r.status = "passed"
           /\ r.trusted
           /\ VerifiedArtifacts(r)

(* The ways a stored envelope could be altered: another plan, another      *)
(* snapshot, a check dropped, repeated or moved, a state, an artifact or a *)
(* requirement rewritten, the unverified list or the digest replaced.      *)
Alterations(e) ==
  LET checks == e.checks
      At(i, f, v) == [e EXCEPT !.checks[i] = [checks[i] EXCEPT ![f] = v]]
  IN {e}
       \cup {[e EXCEPT !.plan = [id |-> p.executionPlanId, digest |-> p.immutableDigest]] :
               p \in plans}
       \cup {[e EXCEPT !.bound = BoundOf(p)] : p \in plans}
       \cup {[e EXCEPT !.checks = c] :
               c \in IF checks = <<>> THEN {}
                     ELSE {Reverse(checks), Tail(checks), checks \o <<Head(checks)>>}}
       \cup {At(i, "status", s) : i \in DOMAIN checks, s \in RunnerStates}
       \cup {At(i, "required", b) : i \in DOMAIN checks, b \in BOOLEAN}
       \cup {At(i, "artifacts", {}) : i \in DOMAIN checks}
       \cup {[e EXCEPT !.unverified = u] : u \in SUBSET {c.id : c \in ToSet(checks)}}
       \cup {[e EXCEPT !.digest = f.evidence.digest] : f \in envelopes}

SameEvidence(e, f) ==
  [e EXCEPT !.checks = NormalizeChecks(@)] = [f EXCEPT !.checks = NormalizeChecks(@)]

(* verify accepts every envelope ingest makes, and any one alteration of   *)
(* it is refused, but for the order of the checks; and it is complete just *)
(* when a runner passed every required check.                              *)
VerifyTellsAlterations ==
  \A e \in envelopes :
    /\ \A a \in Alterations(e.evidence) :
         Verifies(a) <=> SameEvidence(a, e.evidence)
    /\ RequiredComplete(e.evidence) <=>
         \A c \in e.checks : c.required =>
           \E r \in e.results : r.checkId = c.id /\ r.status = "passed"

(* Evidence of one verification plan and one set of results has one        *)
(* digest, in whatever order the checks, the results and the artifacts     *)
(* came (docs: "independent result ordering cannot alter the evidence      *)
(* digest"); and different states have different digests.                  *)
DigestTellsEvidence ==
  \A e, f \in envelopes :
    /\ e.evidence.plan = f.evidence.plan /\ e.checks = f.checks /\ e.results = f.results
         => e.evidence.evidenceId = f.evidence.evidenceId
    /\ e.evidence.evidenceId = f.evidence.evidenceId
         => Failed(e.evidence) = Failed(f.evidence)

(* compare and create agree on what a plan depends on: a plan shows no     *)
(* drift from the workspace just when planning the same proposal again,    *)
(* with the inputs the workspace has now, gives the plan of the same id.   *)
DriftTellsPlan ==
  \A p \in plans, current \in CurrentInputs, q \in Proposals :
    LET again == Plan(current, q, 0)
    IN p.semantic.operations = ById(q.operations)
         /\ p.semantic.approval.scopes = q.permissions
         /\ p.semantic.unresolvedInputs = q.unresolvedInputs
         /\ p.semantic.deniedSteps = q.deniedSteps
       => (Compare(p, current) = {} <=> again.executionPlanId = p.executionPlanId)
=============================================================================
