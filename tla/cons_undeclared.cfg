\* CONSUMER_MAX_RETRIES beyond the declared retry queues.
CONSTANTS
  AllowPrivateHosts = FALSE
  Payment = {p1}
  Handler = {h1, h2}
  MaxRetries = 2
  RetryQueues = 1
  NoMessage = NoMessage
  MaxEvents = 1
  MaxCrashes = 0
  MaxDetaches = 0
  MaxFaults = 0
SPECIFICATION Spec
INVARIANTS
  NoEventLost
CHECK_DEADLOCK FALSE
