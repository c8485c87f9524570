\* An event published twice, a lost connection and a failing call.
CONSTANTS
  AllowPrivateHosts = FALSE
  Payment = {p1}
  Handler = {h1, h2}
  MaxRetries = 1
  RetryQueues = 1
  NoMessage = NoMessage
  MaxEvents = 2
  MaxCrashes = 0
  MaxDetaches = 1
  MaxFaults = 1
SYMMETRY HandlerSymmetry
SPECIFICATION Spec
INVARIANTS
  TypeOK
  NoEventLost
  WebhookAfterCommit
  RetriedIsProcessed
  PostsBounded
CHECK_DEADLOCK FALSE
