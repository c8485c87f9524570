\* The numbers of queues and retries are the program's defaults.
CONSTANTS
  Message = {m1, m2}
  RetryQueues = 3
  MaxRetries = 3
  MaxFaults = 3
SPECIFICATION FairSpec
INVARIANTS
  TypeOK
  TopologyStands
  NothingDropped
PROPERTIES
  KeepsPath
  EveryMessageEnds
CHECK_DEADLOCK FALSE
