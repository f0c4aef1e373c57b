CONSTANTS
  default = default
  work = work
  game = game
  app = app
  x = x
  y = y
  u1 = u1
  u2 = u2
  watching = watching
  none = none
  Names = {default, work, game}
  Default = default
  Stored <- StoredAtStart
  Apps = {app}
  Values = {x, y}
  Users = {u1, u2}
  Watcher = watching
  None = none
  ChannelCap = 1
  MaxUseCases = 2
  MaxFocus = 2
SPECIFICATION FairSpec
INVARIANTS
  TypeOK
  ActiveExists
  BaselineReturns
  RuleInForce
  ShownIsActive
PROPERTIES
  UseCasesReturn
CHECK_DEADLOCK FALSE
