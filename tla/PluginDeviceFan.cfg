CONSTANTS
  root = root
  user = user
  poller = poller
  closer = closer
  Workers = {root}
  Root = root
  Users = {user}
  Poller = poller
  Closer = closer
  Clients = {user, poller, closer}
  MaxThreads = 1
  QueueCap = 1
  MaxCalls = 2
  Threshold = 1
SPECIFICATION DeviceSpec
INVARIANTS
  FanReleased
CHECK_DEADLOCK FALSE
