\* Three requests, two keys, bodies that differ in one compared field; no
\* symmetry (liveness).
CONSTANTS
  Request = {"r1", "r2", "r3"}
  Key = {"k1", "k2"}
  Amount = {a1}
  Currency = {c1}
  Url = {"a", "b", "http", "unencodable"}
  UrlKind <- MCUrlKind
  AllowPrivateHosts = FALSE
SPECIFICATION MCSpec
INVARIANTS
  TypeOK
  OnePaymentPerKey
  PaymentIffEvent
  AcceptedIsBooked
  RefusedLeavesNothing
PROPERTIES
  KeepsPromise
  RetryFindsPayment
  EveryRequestAnswered
CHECK_DEADLOCK FALSE
