SPECIFICATION EvidenceSpec
CONSTANTS
  KeyOrder <- MCKeyOrder
  SecretLike = {"secret"}
  PlanningInputs <- MCPlanningInputs
  CurrentInputs <- MCCurrentInputs
  Times = {0, 1}
  Proposals <- MCProposals
  Requirements <- MCRequirements
  ResultClaims <- MCClaims
  Contents <- MCContents
  AlteredStates = {"passed", "failed", "not-required"}
  MaxPlans = 2
  MaxReports = 2
  MaxEvidence = 2
INVARIANTS
  PassesAreProven
  VerifyTellsAlterations
  DigestTellsEvidence
  DriftTellsPlan
CHECK_DEADLOCK FALSE
