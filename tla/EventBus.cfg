CONSTANTS
  a = a
  b = b
  gui = gui
  Publishers <- MCPublishers
  Clients <- MCClients
  RingCapacity = 2
  QueueCapacity = 2
  MaxEvents = 3
  MaxSessions = 2
SPECIFICATION FairSpec
INVARIANTS
  TypeOK
  RetainedShownUnlessOvertaken
PROPERTIES
  ImplementsFeed
  EventuallyShown
CHECK_DEADLOCK FALSE
