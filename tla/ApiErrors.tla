------------------------------ MODULE ApiErrors ------------------------------
(***************************************************************************)
(* The exceptions the API's code raises and the HTTP status each of them   *)
(* is answered with.  error_handler.py asks for the base class an error    *)
(* derives from, in the order of the cases below; FastAPI's own            *)
(* RequestValidationError has a handler to itself.  Assumed: DEBUG=0, as   *)
(* in .env.example (with DEBUG=1 Starlette answers 500 to every exception  *)
(* that only the handler of Exception would catch).                        *)
(***************************************************************************)

NotFound == {"PaymentNotFoundError"}

Unauthorized == {"MissingAPIKeyError", "InvalidAPIKeyError"}

Conflict == {"IdempotencyKeyConflictError"}

Validation == {"PaymentAmountNotPositiveError", "WebhookUrlNotAllowedError"}

ExternalService == {"WebhookSendError"}

\* Mutant of StatusOf: a refused URL counts as a failure of the webhook.
StatusOfWebhookErrors(e) ==
  IF e = "RequestValidationError" THEN 422
  ELSE IF e \in Unauthorized THEN 401
  ELSE IF e \in Conflict THEN 409
  ELSE IF e \in ExternalService \cup Validation THEN 502
  ELSE 500

\* Any other error is a 500: UnhandledIntegrityError, which derives from
\* PaymentsUnexpectedError, and whatever is no PaymentsError at all.
StatusOf(e) ==
  IF e = "RequestValidationError" THEN 422
  ELSE IF e \in NotFound THEN 404
  ELSE IF e \in Unauthorized THEN 401
  ELSE IF e \in Conflict THEN 409
  ELSE IF e \in Validation THEN 400
  ELSE IF e \in ExternalService THEN 502
  ELSE 500
=============================================================================
