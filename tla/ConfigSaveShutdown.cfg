CONSTANTS
  default = default
  a = a
  b = b
  Names = {default, a, b}
  Default = default
  MaxUnasked = 1
  MaxEdits = 1
  MaxFailures = 1
  MaxCrashes = 0
SPECIFICATION FairSpec
PROPERTY ShutdownFlushes
CHECK_DEADLOCK FALSE
