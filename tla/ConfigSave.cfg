CONSTANTS
  default = default
  a = a
  b = b
  Names = {default, a, b}
  Default = default
  MaxUnasked = 2
  MaxEdits = 2
  MaxFailures = 2
  MaxCrashes = 1
SPECIFICATION FairSpec
INVARIANTS
  TypeOK
  NewestFlushed
  CleanMeansSaved
  SavedProfilesSurvive

PROPERTY EveryRequestSaved
CHECK_DEADLOCK FALSE
