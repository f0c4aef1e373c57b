CONSTANTS
  dev = dev
  profiles = profiles
  boot = boot
  useCase = useCase
  gui = gui
  Topics <- MCTopics
  DeviceTopics <- MCDeviceTopics
  Producers = {boot, useCase}
  Boot = boot
  Changes <- MCChanges
  Clients = {gui}
  Subscriptions <- MCSubscriptions
  QueueCapacity = 2
  BroadcastCapacity = 1
  MaxVersion = 2
  MaxRevision = 2
  MaxRestarts = 1
SPECIFICATION FairSpec
INVARIANTS
  TypeOK
  ReplicaConsistent
  BroadcastInOrder
  QuiescentBusIsCurrent
PROPERTIES
  ImplementsReplica
  RelayedConverges
CHECK_DEADLOCK FALSE
