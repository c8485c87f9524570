\* Two dispatchers, batches smaller than the table, full and partial ones, and
\* rows whose backoff overflows; no symmetry (liveness).
CONSTANTS
  Payment = {p1, p2, p3}
  Dispatcher = {d1, d2}
  BatchSize = 2
  Initial = 1
  Cap = 2
  FloatLimit = 1
  MaxFaults = 2
SPECIFICATION FairSpec
INVARIANTS
  TypeOK
  PublishedWasSent
  DuplicatesNeedFaults
PROPERTIES
  PublishedIsFinal
  NeverBeforeDue
  KeepsPromise
  EveryEventPublished
