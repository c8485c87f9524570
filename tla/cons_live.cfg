\* One event that only a crash and failing calls duplicate; no symmetry (liveness).
CONSTANTS
  AllowPrivateHosts = FALSE
  Payment = {p1}
  Handler = {h1, h2}
  MaxRetries = 2
  RetryQueues = 2
  NoMessage = NoMessage
  MaxEvents = 1
  MaxCrashes = 1
  MaxDetaches = 0
  MaxFaults = 1
SPECIFICATION FairSpec
INVARIANTS
  NoEventLost
  OneOutcomeTold
PROPERTIES
  OutcomeIsFinal
  EveryEventSettles
  QueuesDrain
CHECK_DEADLOCK FALSE
