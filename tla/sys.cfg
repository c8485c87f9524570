\* One request; dispatcher and consumer fail once each, and the merchant may
\* fail every delivery.
CONSTANTS
  Request = {r1}
  Key = {k1}
  Amount = {a1}
  Currency = {c1}
  Url = {"a"}
  UrlKind <- MCUrlKind
  AllowPrivateHosts = FALSE
  Dispatcher = {d1}
  BatchSize = 1
  Initial = 1
  Cap = 1
  FloatLimit = 1024
  Handler = {h1}
  MaxRetries = 1
  RetryQueues = 1
  NoMessage = NoMessage
  MaxDispatcherFaults = 1
  MaxCrashes = 1
  MaxDetaches = 0
  MaxConsumerFaults = 0
SPECIFICATION FairSpec
INVARIANTS
  PaymentNeverForgotten
  EventFollowsPayment
  WebhookOnlyForCreated
  RequestsArePaid
PROPERTY AcceptedIsSettled
CHECK_DEADLOCK FALSE
