\* Two requests with one key and one body, which differ in time only.
CONSTANTS
  Request = {r1, r2}
  Key = {k1}
  Amount = {a1}
  Currency = {c1}
  Url = {"a"}
  UrlKind <- MCUrlKind
  AllowPrivateHosts = FALSE
SPECIFICATION FairSpec
PROPERTY ReplayIsNotRefused
CHECK_DEADLOCK FALSE
