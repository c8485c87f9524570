\* An event published twice by the dispatcher: two handlers at once.
CONSTANTS
  AllowPrivateHosts = FALSE
  Payment = {p1}
  Handler = {h1, h2}
  MaxRetries = 1
  RetryQueues = 1
  NoMessage = NoMessage
  MaxEvents = 2
  MaxCrashes = 0
  MaxDetaches = 0
  MaxFaults = 0
SPECIFICATION FairSpec
PROPERTIES
  OutcomeIsFinal
CHECK_DEADLOCK FALSE
