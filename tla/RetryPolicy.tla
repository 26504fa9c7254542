---------------------------- MODULE RetryPolicy ----------------------------
(***************************************************************************)
(* RetryPolicy.decide: what to do after a failed attempt, from the class   *)
(* of the error and the alternatives left.  Error codes that the policy    *)
(* treats alike are one class: "caller" stands for REQUEST_ABORTED,        *)
(* INVALID_REQUEST, INVALID_CURSOR and the UNSUPPORTED codes, "transient"  *)
(* for the retryable NETWORK_ERROR, REQUEST_TIMEOUT, PROVIDER_UNAVAILABLE, *)
(* "permanent" for PLAN_RESTRICTED, INVALID_PROVIDER_RESPONSE and every    *)
(* other code.  Rate limits are retryable in every built-in adapter.       *)
(***************************************************************************)
EXTENDS Integers

Codes   == {"caller", "authentication", "rate limited", "proxy", "transient", "permanent"}
Actions == {"stop", "retry", "rotate", "fallback"}

\* Mutant: the credential branch forgets the other providers.
FallbackNever(provider) == "stop"

FallbackIf(provider) == IF provider THEN "fallback" ELSE "stop"

BudgetExhausted(attempt, most) == attempt >= most

\* most is maxTotalAttempts; another provider is an alternative only on a first page.
Decide(code, attempt, most, credential, proxy, provider) ==
  IF BudgetExhausted(attempt, most) \/ code = "caller" THEN "stop"
  ELSE CASE code = "permanent"      -> FallbackIf(provider)
         [] code = "authentication" -> IF credential THEN "rotate" ELSE FallbackIf(provider)
         [] code = "proxy"          -> IF proxy THEN "rotate" ELSE FallbackIf(provider)
         [] code \in {"rate limited", "transient"} ->
              IF code = "rate limited" /\ credential THEN "rotate"
              ELSE IF provider /\ BudgetExhausted(attempt + 1, most) THEN "fallback"
              ELSE "retry"
=============================================================================
