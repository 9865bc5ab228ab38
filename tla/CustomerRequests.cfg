SPECIFICATION Spec
CONSTANTS
  MaxIds = 2
  Countries <- HighRisk
  Req = {r1, r2}
  Ops <- OnboardingOps
  NoReq = NoReq
SYMMETRY Symmetry
INVARIANTS
  LivenessHasBothDocs
  ApprovalHasDecision
