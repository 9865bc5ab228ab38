SPECIFICATION ConsoleSpec
CONSTANTS
  s1 = s1
  s2 = s2
  Slot = {s1, s2}
  Again = FALSE
  MaxNotes = 2
  PerPage = 1
  Limit = 2
  MaxStrs = 2
  MaxJobs = 2
SYMMETRY SlotSymmetry
INVARIANTS ConsoleTypeOK BusyHasCall OneInFlight PageIsFresh SettingsKept RotatedKeyIsShown SessionIsOnePersons TablesAnswerTheirFilter
PROPERTIES NothingIsUndone
