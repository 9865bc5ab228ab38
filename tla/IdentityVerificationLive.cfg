SPECIFICATION FairSpec
CONSTANTS
  Verifier = {v1}
  Callback = {c1}
  Request = {}
  Routings <- TwoShufti
  NonFinal = {"request.pending"}
PROPERTY AnswerIsRecorded
CHECK_DEADLOCK FALSE
