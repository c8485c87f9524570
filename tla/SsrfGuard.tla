------------------------------ MODULE SsrfGuard ------------------------------
(***************************************************************************)
(* SSRFGuard.validate_url, the check of a webhook URL that the API makes   *)
(* before it books a payment and the consumer before every delivery.  Its  *)
(* verdict depends on what the resolver answers at that moment.            *)
(***************************************************************************)
CONSTANT AllowPrivateHosts  \* WEBHOOK_ALLOW_PRIVATE_HOSTS

ASSUME GuardAssumption == AllowPrivateHosts \in BOOLEAN

\* URLs as the schema lets them through, hence with a host.  The host of an
\* "unencodable" one has a label that IDNA cannot encode (over 63 bytes).
Kind == {"https", "http", "unencodable"}

\* The classes an address may belong to; an IPv4 address in IPv6 notation
\* has the class of the IPv4 address.
Disallowed == {"private", "loopback", "link_local", "multicast", "reserved", "unspecified"}

\* A resolver's answer is the classes of its addresses.  "opaque" is a socket
\* address without an address in text, which is skipped.  The empty answer
\* stands for an OSError of getaddrinfo: a successful one is never empty.
Resolution == SUBSET (Disallowed \cup {"public", "opaque"})

\* The reasons of a WebhookUrlNotAllowedError (missing_host cannot occur).
Refusal == {"scheme_not_allowed", "resolution_failed", "address_disallowed"}

\* The URL's scheme is looked at first, its address only when private hosts
\* are not allowed; one disallowed address is enough to refuse the URL.  The
\* UnicodeError of getaddrinfo is no OSError and is not caught.
VerdictOn(kind, answer) ==
  CASE kind = "http" -> "scheme_not_allowed"
    [] kind # "http" /\ AllowPrivateHosts -> "allowed"
    [] kind = "unencodable" /\ ~AllowPrivateHosts -> "UnicodeError"
    [] kind = "https" /\ ~AllowPrivateHosts ->
         IF answer = {} THEN "resolution_failed"
         ELSE IF answer \cap Disallowed # {} THEN "address_disallowed"
         ELSE "allowed"

\* What the guard may say of a URL of each kind.
Verdicts == [kind \in Kind |-> {VerdictOn(kind, answer) : answer \in Resolution}]
=============================================================================
