---------------------------- MODULE OpenBaoClient ----------------------------
(***************************************************************************)
(* What one HTTP exchange with OpenBao means to its caller                 *)
(* (internal/openbao/client.go, errors.go).                                *)
(*                                                                         *)
(* An exchange is what httpClient.Do brings back: a context that ended, a  *)
(* transport failure, or a response with its status, what its error text   *)
(* mentions and how its body reads.  The result is an error class, or      *)
(* "ok"; "plain" is an error that is no *openbao.Error.                    *)
(***************************************************************************)
EXTENDS Naturals

Contexts == {"canceled", "deadline"}
Causes == {"tls", "dns", "connection", "other"}
Mentions == {"sealed", "mac", "nothing"}     \* fragments that are looked for
Bodies == {"fits", "large", "undecodable", "cut"}

Failed(cause) == [status |-> 0, cause |-> cause, mentions |-> "nothing",
                  body |-> "fits"]
Response(status, mentions, body) ==
  [status |-> status, cause |-> "none", mentions |-> mentions, body |-> body]

classifyTransportError(cause) ==
  IF cause = "tls" THEN "tls_failed"
  ELSE IF cause = "dns" THEN "dns_failed"
  ELSE IF cause = "connection" THEN "connection_failed"
  ELSE "unavailable"

\* classifyError: the text wins over the status, a seal over everything.
classifyError(status, mentions) ==
  IF mentions = "sealed" THEN "sealed"
  ELSE IF mentions = "mac" THEN "decrypt_failed"
  ELSE IF status = 400 THEN "invalid_request"
  ELSE IF status = 401 THEN "unauthenticated"
  ELSE IF status = 403 THEN "permission_denied"
  ELSE IF status = 404 THEN "not_found"
  ELSE IF status = 429 THEN "rate_limited"
  ELSE IF status >= 500 THEN "unavailable"
  ELSE "unknown"

\* readBoundedResponseBody: one byte past the limit is an unavailable backend,
\* a body that ends early a plain error.
readBoundedResponseBody(body) ==
  IF body = "large" THEN "unavailable" ELSE IF body = "cut" THEN "plain" ELSE "ok"

\* readOpenBaoResponse: redirects are not followed; an error body that does
\* not decode counts as empty, a success that does not decode is an error.
readOpenBaoResponse(x) ==
  LET read == readBoundedResponseBody(x.body)
  IN IF x.status \in 300..399 THEN "unavailable"
     ELSE IF read # "ok" THEN read
     ELSE IF x.status \notin 200..299
     THEN classifyError(x.status,
            IF x.body = "undecodable" THEN "nothing" ELSE x.mentions)
     ELSE IF x.body = "undecodable" THEN "plain" ELSE "ok"

\* doOpenBao: an ended context is reported as such.
doOpenBao(x) ==
  IF x.status # 0 THEN readOpenBaoResponse(x)
  ELSE IF x.cause \in Contexts THEN x.cause
  ELSE classifyTransportError(x.cause)
==============================================================================
