SPECIFICATION MCSpec
CONSTANTS
  Thread = {"t1", "t2"}
  NoThread = NoThread
  Syncer = Syncer
  MaxLosses = 1
  MaxSyncs = 1
  Server = {"nl", "de"}
  NoServer = NoServer
  Room = {1, 2, 3, 4, 5, 6}
  NoRoom = NoRoom
  Request = {"user"}
  Watchdog = {"watchdog"}
  MaxRequests = 4
  MaxFluxEvents = 1
  Node = {n1, n2, n3}
  NoNode = NoNode
  TTL = 3
  Skew = 1
  MaxTask = 1
  RenewalDays = 4
  LastDay = 3
  MaxWrites = 3
  MaxFailures = 1
  SplitBrain = TRUE
  Dog = {d1, d2}
  Once = Once
  NoDog = NoDog
  Watched <- MCWatched
  MaxStale = 1
  CheckInterval = 1
  MaxCycle = 1
  QuiesceTTL = 2
  MaxQuiesceTime = 8
  MaxGateRestarts = 1
  ManagedDomains <- MCDomains
  Country = {"de", "fi"}
  Address = {a1, a2, a3}
  NoAddress = NoAddress
  MaxDnsFaults = 2
CHECK_DEADLOCK FALSE
INVARIANTS
  AtomicCommit
  HandoverKeepsRoom
  Exclusive
  MergeLosesNothing
  HealthFailsClosed
  QuietWhileAcknowledged
  MovedTogether
PROPERTIES
  TransactionsEnd
  ActiveSlotRuns
  TakenOver
