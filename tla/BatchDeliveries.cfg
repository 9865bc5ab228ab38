SPECIFICATION FairSpec
CONSTANTS
  Run = {d1, d2}
  RowCount = 11
  Blank = {2, 9}
  Chunk = 4
  Faults = {"raise", "crash", "mark_lost"}
INVARIANTS
  TypeOK
  CompleteHasResults
  ProgressIsCommitted
PROPERTIES
  KeepsPromise
  StartedJobEnds
CHECK_DEADLOCK FALSE
