SPECIFICATION Spec
CONSTANTS
  Verifier = {v1}
  Callback = {c1}
  Request = {q1}
  Routings <- OneShufti
  NonFinal = {"request.pending"}
INVARIANT OfferedIsAnswerable
CHECK_DEADLOCK FALSE
