\* Two requests with one key.
CONSTANTS
  Request = {r1, r2}
  Key = {k1}
  Amount = {a1, a2}
  Currency = {c1}
  Url = {"a"}
  UrlKind <- MCUrlKind
  AllowPrivateHosts = FALSE
SPECIFICATION Spec
INVARIANT ConflictMeansDifferentBody
CHECK_DEADLOCK FALSE
