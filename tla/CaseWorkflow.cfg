SPECIFICATION Spec
CONSTANTS
  Request = {r1, r2}
INVARIANTS
  TypeOK
  ClosedHasTime
