--------------------------- MODULE ErrorClasses ---------------------------
(***************************************************************************)
(* What becomes of an answer: the transport turns a failed request into    *)
(* one of its codes, and each adapter turns a code, an HTTP status or the  *)
(* error of an envelope into an EvmDataError.  The words of a message or a *)
(* body are the set of patterns they match.                                *)
(*                                                                         *)
(* An answer is [kind |-> "response", status, words], with the words of an *)
(* error envelope when the status is a success, and rpc, the number of a   *)
(* JSON-RPC error, or 0;  [kind |-> "failure", code, status, words], an    *)
(* Axios error, with status 0 for none;  or [kind |-> "unsound"], a body   *)
(* no schema accepts.                                                      *)
(***************************************************************************)
EXTENDS Integers

Error(code, retryable) == [code |-> code, retryable |-> retryable]

\* No error: the body is what was asked for.
Sound == Error("none", FALSE)

Response(status, words)       == [kind |-> "response", status |-> status, words |-> words, rpc |-> 0]
RpcError(number, words)       == [kind |-> "response", status |-> 200, words |-> words, rpc |-> number]
Failure(code, status, words)  == [kind |-> "failure", code |-> code, status |-> status, words |-> words]
Unsound                       == [kind |-> "unsound"]

AnswerType ==
  [kind : {"response"}, status : Nat, words : SUBSET STRING, rpc : Int]
  \cup [kind : {"failure"}, code : STRING, status : Nat, words : SUBSET STRING]
  \cup {Unsound}

-----------------------------------------------------------------------------
(* AxiosHttpTransport. *)

\* With a proxy, an error that has a code but no status is laid at the proxy's door.
IsProxyFailure(a) ==
  \/ a.status = 407 \/ "proxy" \in a.words \/ a.code = "ERR_PROXY_CONNECTION_FAILED"
  \/ a.status = 0 /\ a.code # "none"

\* aborted: the signal of the request has fired.
NormalizeAxiosError(a, proxied, aborted) ==
  IF aborted \/ a.code = "ERR_CANCELED" THEN Error("REQUEST_ABORTED", FALSE)
  ELSE IF a.code \in {"ECONNABORTED", "ETIMEDOUT"} \/ "timeout" \in a.words THEN Error("REQUEST_TIMEOUT", TRUE)
  ELSE IF proxied /\ IsProxyFailure(a) THEN Error("PROXY_ERROR", TRUE)
  ELSE Error("NETWORK_ERROR", TRUE)

-----------------------------------------------------------------------------
(* The HTTP statuses that are no success. *)

ServerBusy == {500, 502, 503, 504}

ClassifyEtherscanHttpResponse(status, words) ==
  IF status \in {401, 403} THEN Error(IF "plan" \in words THEN "PLAN_RESTRICTED" ELSE "AUTHENTICATION_FAILED", FALSE)
  ELSE IF status = 402 THEN Error("PLAN_RESTRICTED", FALSE)
  ELSE IF status \in {400, 422} THEN Error("INVALID_REQUEST", FALSE)
  ELSE IF status = 404 /\ "chain" \in words THEN Error("UNSUPPORTED_CHAIN", FALSE)
  ELSE IF status = 408 THEN Error("REQUEST_TIMEOUT", TRUE)
  ELSE IF status = 429 THEN Error("RATE_LIMITED", TRUE)
  ELSE IF status \in ServerBusy THEN Error("PROVIDER_UNAVAILABLE", TRUE)
  ELSE Error("INVALID_PROVIDER_RESPONSE", FALSE)

ClassifyAlchemyHttpResponse(status) ==
  IF status \in {401, 403} THEN Error("AUTHENTICATION_FAILED", FALSE)
  ELSE IF status = 402 THEN Error("PLAN_RESTRICTED", FALSE)
  ELSE IF status = 408 THEN Error("REQUEST_TIMEOUT", TRUE)
  ELSE IF status = 429 THEN Error("RATE_LIMITED", TRUE)
  ELSE IF status \in {400, 422} THEN Error("INVALID_REQUEST", FALSE)
  ELSE IF status \in ServerBusy THEN Error("PROVIDER_UNAVAILABLE", TRUE)
  ELSE Error("INVALID_PROVIDER_RESPONSE", FALSE)

ClassifyMoralisHttpResponse(status, words) ==
  IF status = 401 THEN Error("AUTHENTICATION_FAILED", FALSE)
  ELSE IF status = 403 THEN Error(IF words \cap {"plan", "limit"} # {} THEN "PLAN_RESTRICTED" ELSE "AUTHENTICATION_FAILED", FALSE)
  ELSE IF status = 404 THEN Error(IF "chain" \in words THEN "UNSUPPORTED_CHAIN" ELSE "INVALID_PROVIDER_RESPONSE", FALSE)
  ELSE IF status = 408 THEN Error("REQUEST_TIMEOUT", TRUE)
  ELSE IF status = 429 THEN Error("RATE_LIMITED", TRUE)
  ELSE IF status \in {400, 422} THEN Error("INVALID_REQUEST", FALSE)
  ELSE IF status = 425 \/ status \in 500..599 THEN Error("PROVIDER_UNAVAILABLE", TRUE)
  ELSE Error("INVALID_PROVIDER_RESPONSE", FALSE)

-----------------------------------------------------------------------------
(* The errors inside a successful response. *)

\* Patterns are tried in this order: a message about a key and a limit is about the key.
ClassifyEtherscanEnvelopeError(words) ==
  IF "key"     \in words THEN Error("AUTHENTICATION_FAILED", FALSE)
  ELSE IF "plan"    \in words THEN Error("PLAN_RESTRICTED", FALSE)
  ELSE IF "chain"   \in words THEN Error("UNSUPPORTED_CHAIN", FALSE)
  ELSE IF "request" \in words THEN Error("INVALID_REQUEST", FALSE)
  ELSE IF "limit"   \in words THEN Error("RATE_LIMITED", TRUE)
  ELSE IF words \cap {"timeout", "busy"} # {} THEN Error("PROVIDER_UNAVAILABLE", TRUE)
  ELSE Error("PROVIDER_UNAVAILABLE", FALSE)

\* On an endpoint of the Standard plan an error that nothing explains is the plan's.
ClassifyEtherscanStandardEndpointError(words) ==
  LET classified == ClassifyEtherscanEnvelopeError(words)
  IN  IF classified = Error("PROVIDER_UNAVAILABLE", FALSE) THEN Error("PLAN_RESTRICTED", FALSE) ELSE classified

ClassifyAlchemyJsonRpcError(number, words) ==
  IF number = -32001 \/ "key" \in words THEN Error("AUTHENTICATION_FAILED", FALSE)
  ELSE IF number = -32002 \/ "limit" \in words THEN Error("RATE_LIMITED", TRUE)
  ELSE IF number = -32602 \/ words \cap {"request", "chain"} # {} THEN Error("INVALID_REQUEST", FALSE)
  ELSE IF number = -32601 THEN Error("UNSUPPORTED_OPERATION", FALSE)
  ELSE Error("PROVIDER_UNAVAILABLE", FALSE)

-----------------------------------------------------------------------------
(* The call of an adapter. *)

Succeeds(status) == status \in 200..299

ClassifyHttp(provider, a) ==
  CASE provider = "etherscan" -> ClassifyEtherscanHttpResponse(a.status, a.words)
    [] provider = "alchemy"   -> ClassifyAlchemyHttpResponse(a.status)
    [] provider = "moralis"   -> ClassifyMoralisHttpResponse(a.status, a.words)

\* Moralis has no errors in its bodies: such a body fails its schema.
ClassifyBody(provider, a, standard) ==
  IF provider = "moralis" THEN Error("INVALID_PROVIDER_RESPONSE", FALSE)
  ELSE IF provider = "alchemy" THEN ClassifyAlchemyJsonRpcError(a.rpc, a.words)
  ELSE IF standard THEN ClassifyEtherscanStandardEndpointError(a.words)
  ELSE ClassifyEtherscanEnvelopeError(a.words)

\* The transport answers 407 from a proxy itself; the adapters rename its other errors one to one.
Classify(provider, a, proxied, aborted, standard) ==
  IF a.kind = "failure" THEN NormalizeAxiosError(a, proxied, aborted)
  ELSE IF a.kind = "unsound" THEN Error("INVALID_PROVIDER_RESPONSE", FALSE)
  ELSE IF proxied /\ a.status = 407 THEN Error("PROXY_ERROR", TRUE)
  ELSE IF ~Succeeds(a.status) THEN ClassifyHttp(provider, a)
  ELSE IF a.words # {} \/ a.rpc # 0 THEN ClassifyBody(provider, a, standard)
  ELSE Sound

-----------------------------------------------------------------------------
(* What ApiChainService makes of an error. *)

ConnectivityCodes == {"NETWORK_ERROR", "REQUEST_TIMEOUT", "PROXY_ERROR"}

\* An error that is no EvmDataError has the code "internal".
ProxyOutcome(error) ==
  IF error.code = "internal" \/ error.code \in ConnectivityCodes THEN "proxy_failure" ELSE "neutral"

\* Mutant: a key without a plan for the endpoint is taken for a wrong key.
KeyOutcomePlanToo(error) ==
  CASE error.code \in {"AUTHENTICATION_FAILED", "PLAN_RESTRICTED"} -> "authentication_failed"
    [] error.code = "RATE_LIMITED" -> "rate_limited"
    [] OTHER                       -> "none"

\* What the pool of the keys is told.  Of the retryable errors only RATE_LIMITED speaks of a limit.
KeyOutcome(error) ==
  CASE error.code = "AUTHENTICATION_FAILED" -> "authentication_failed"
    [] error.code = "RATE_LIMITED"          -> "rate_limited"
    [] OTHER                                -> "none"

CanTryAnother(error) ==
  error.code # "internal" /\ (error.retryable \/ error.code \in {"AUTHENTICATION_FAILED", "PLAN_RESTRICTED"})
=============================================================================
