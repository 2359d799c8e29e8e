SPECIFICATION ReplicaSpec
CONSTANTS
  Thread = {"t1", "t2"}
  NoThread = NoThread
  Syncer = Syncer
  MaxLosses = 1
  MaxSyncs = 1
INVARIANTS
  CommittedMeansWritten
CHECK_DEADLOCK FALSE
