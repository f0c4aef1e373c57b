CONSTANTS
  recv = recv
  wire = wire
  air = air
  monitor = monitor
  scanner = scanner
  reconciler = reconciler
  Keys = {recv, wire}
  Recv = recv
  Wire = wire
  Children = {air}
  Air = air
  Monitor = monitor
  Scanner = scanner
  Reconciler = reconciler
  MaxInstances = 4
  MaxEvents = 2
SPECIFICATION FairSpec
INVARIANTS
  TypeOK
  UniqueIds
  ClaimsAreHeld
  RegisteredIsOpen
  OpenIsHeld
  OneObjectEach

  
CHECK_DEADLOCK FALSE
