------------------------------- MODULE Planner -------------------------------
(***************************************************************************)
(* The deterministic execution planner (packages/planner/src/index.ts):    *)
(* what a plan records of its inputs, the identity it gets, what validate  *)
(* checks and what drift compare reports.  A digest is the value it is the *)
(* digest of, and so is an id cut from one.                                *)
(***************************************************************************)
EXTENDS Naturals, Sequences, FiniteSets, SequencesExt

CONSTANTS
  KeyOrder,          \* every sort key, in localeCompare's order
  SecretLike         \* the texts SENSITIVE_TEXT matches

ASSUME PlannerAssumption == KeyOrder \in Seq(ToSet(KeyOrder))

(* stable, by the id: an item's place is the number of those before it.    *)
Position ==
  [key \in ToSet(KeyOrder) |-> CHOOSE i \in DOMAIN KeyOrder : KeyOrder[i] = key]

Precedes(items, i, j) ==
  \/ Position[items[i].id] < Position[items[j].id]
  \/ Position[items[i].id] = Position[items[j].id] /\ i < j

Place(items, i) == 1 + Cardinality({j \in DOMAIN items : Precedes(items, j, i)})

ById(items) ==
  LET place == [i \in DOMAIN items |-> Place(items, i)]
  IN [n \in 1..Len(items) |-> items[CHOOSE i \in DOMAIN items : place[i] = n]]

(* The inputs a plan binds, as semanticPlan lists them, and the inputs it  *)
(* is compared by, as comparisonRecord lists them: two lists in the code.  *)
BoundFields ==
  {"projectSnapshot", "catalogSnapshot", "policySnapshot", "routePlan",
   "contextReferences", "objective", "constraints", "lockfile",
   "runnerCapabilities"}

(* Mutant of ComparedFields: an optional input is forgotten.               *)
ComparedFieldsForgetful ==
  {"projectSnapshot", "catalogSnapshot", "policySnapshot", "routePlan",
   "contextReferences", "objective", "constraints", "lockfile"}

ComparedFields ==
  {"projectSnapshot", "catalogSnapshot", "policySnapshot", "routePlan",
   "contextReferences", "objective", "constraints", "lockfile",
   "runnerCapabilities"}

(* An optional input is a set of at most one value.  stableStrings makes a *)
(* list a set.                                                             *)
Normalized(input, fields) ==
  [f \in fields |->
     CASE f = "contextReferences" -> ById(input[f])
       [] f = "constraints" -> ToSet(input[f])
       [] OTHER -> input[f]]

(* assertSafe: no secret-like text anywhere in the input.                  *)
AssertSafe(input) ==
  /\ input.objective \notin SecretLike
  /\ ToSet(input.constraints) \cap SecretLike = {}

Status(input, proposal) ==
  CASE proposal.deniedSteps # {} -> "blocked"
    [] /\ proposal.deniedSteps = {}
       /\ proposal.unresolvedInputs # {} \/ input.objective = "" -> "needs-input"
    [] OTHER -> "ready"

(* semanticPlan: the normalized inputs, the proposed operations in order   *)
(* of their keys (file operations, dependencies and commands alike), and   *)
(* the approval that the permissions call for.                             *)
SemanticPlan(input, proposal) ==
  [inputs |-> Normalized(input, BoundFields),
   operations |-> ById(proposal.operations),
   approval |-> [required |-> proposal.permissions # {}, scopes |-> proposal.permissions],
   unresolvedInputs |-> proposal.unresolvedInputs,
   deniedSteps |-> proposal.deniedSteps,
   status |-> Status(input, proposal)]

(* create, for an input that is safe; createdAt is no part of the identity. *)
Plan(input, proposal, createdAt) ==
  LET semantic == SemanticPlan(input, proposal)
  IN [semantic |-> semantic, executionPlanId |-> semantic,
      immutableDigest |-> semantic, createdAt |-> createdAt]

(* validate: the digest is that of the semantic fields, the id is cut from *)
(* the digest.                                                             *)
ValidPlan(plan) ==
  /\ plan.immutableDigest = plan.semantic
  /\ plan.executionPlanId = plan.immutableDigest

(* comparisonRecord, for the inputs of a plan or the current ones: an      *)
(* optional input that is undefined is a field that is not there.  The     *)
(* constraints a plan recorded are a set already.                          *)
ComparisonRecord(inputs) ==
  [f \in {g \in ComparedFields :
            g \in {"lockfile", "runnerCapabilities"} => inputs[g] # {}} |-> inputs[f]]

(* compare: the fields that only one has, or that differ.                  *)
Differences(expected, actual) ==
  {f \in DOMAIN expected \cup DOMAIN actual :
     \/ f \notin DOMAIN expected
     \/ f \notin DOMAIN actual
     \/ expected[f] # actual[f]}

Compare(plan, current) ==
  Differences(ComparisonRecord(plan.semantic.inputs),
              ComparisonRecord(Normalized(current, ComparedFields)))
=============================================================================
