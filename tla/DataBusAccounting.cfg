CONSTANTS
  worker = worker
  task = task
  plugin = plugin
  host = host
  reading = reading
  extra = extra
  sensor = sensor
  Keys = {reading, extra, sensor}
  HostKeys = {sensor}
  Callers = {worker, task}
  Host = host
  Plugins = {plugin}
  OwnerOf <- MCOwnerOf
  Declared <- MCDeclared
  InRuntime = {task}
  Values = {1, 2, 3}
  KeyBytes = 2
  ReasonBytes = 1
  MaxOwnerRecords = 1
  MaxRecords = 2
  MaxOwnerBytes = 4
  MaxBytes = 8
  Word = 32
  PublishInterval = 1
  NotifyInterval = 2
  StaleAfter = 2
  MaxStamp = 3
SPECIFICATION Spec
INVARIANT RetainedBytesAccounted
CHECK_DEADLOCK FALSE
