SPECIFICATION Spec
CONSTANTS
  Verifier = {v1}
  Callback = {c1, c2}
  Request = {q1}
  Routings <- AllRoutings
  NonFinal = {"request.pending"}
SYMMETRY CallbackSymmetry
INVARIANTS
  TypeOK
  VerifiedHasPass
  ResultIsShuftisAnswer
  FinalOnlyIsAnswerable
  RecordedOncePerHandler
  AckedIsRecorded
CHECK_DEADLOCK FALSE
