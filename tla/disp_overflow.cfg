\* The 1024 attempts after which the backoff overflows, scaled down to 2.
CONSTANTS
  Payment = {p1}
  Dispatcher = {d1}
  BatchSize = 1
  Initial = 1
  Cap = 2
  FloatLimit = 2
  MaxFaults = 3
SPECIFICATION FairSpec
PROPERTY FailureIsRecorded
