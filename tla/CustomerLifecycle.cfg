SPECIFICATION Spec
CONSTANTS
  MaxIds = 3
  Countries <- MCCountries
INVARIANTS
  TypeOK
  FrozenHasActiveRecord
  EddCaseMatchesStatus
  LivenessHasBothDocs
  ApprovalHasDecision
PROPERTIES
  FrozenLeavesByUnfreeze
  DecidedStays
  FundsFixedByDecision
