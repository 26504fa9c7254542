--------------------------- MODULE ApiCandidates ---------------------------
(***************************************************************************)
(* ApiChainService: a call goes through the configured providers and their *)
(* keys in order, passes over the keys that cool down, takes a proxy for   *)
(* each try and reports to both pools by value.  Reads of a transaction    *)
(* context are cached and shared: who asks for a hash that is being read   *)
(* waits for the request another call has made, with that call's key,      *)
(* proxy and signal.  Holdings from Moralis need a block, which an inner   *)
(* call of the same service looks up while the outer one holds its proxy.  *)
(*                                                                         *)
(* A task is a call, <<c, 1>>, or the inner call it makes, <<c, 2>>.       *)
(* Bounds: one call per caller; Scenarios.                                 *)
(***************************************************************************)
EXTENDS Sequences, FiniteSets, ErrorClasses

CONSTANTS
  Callers,
  Candidates,  \* the providers and their keys, in order: [provider, key]
  Proxies,
  Hashes,      \* of transactions whose context is read
  Scenarios,   \* [calls, allowDirect, answers]: calls[c] is [op, hashes], or None
  None

Tasks == Callers \X {1, 2}
Outer(c) == <<c, 1>>
Inner(t) == <<t[1], 2>>
Keys  == {Candidates[i].key : i \in 1..Len(Candidates)}

Operations == {"contexts", "balances", "holdings", "internal", "time"}

ASSUME CandidatesAssumption ==
  /\ Candidates \in Seq([provider : {"etherscan", "alchemy", "moralis"}, key : Keys])
  /\ None \notin Proxies \cup Hashes \cup Tasks
  /\ \A s \in Scenarios : /\ s.allowDirect \in BOOLEAN
                          /\ s.answers \subseteq AnswerType
                          /\ \A c \in Callers : s.calls[c] # None =>
                               s.calls[c].op \in Operations /\ s.calls[c].hashes \in Seq(Hashes)

VARIABLES
  scenario,  \* one of Scenarios, for good
  keys,      \* keys[k]: usable, cooling or disabled
  proxies,   \* proxies[p]: free, leased or cooling
  task,      \* task[t], see IdleTask
  request,   \* request[t]: the request t has made, or None
  cached,    \* the hashes whose context is in the cache
  aborted,   \* the callers whose signal has fired
  refused,   \* history: [key, outcome] for the answers that keys got
  blocked    \* history: the proxies a request failed at, or could not use the network through

vars == <<scenario, keys, proxies, task, request, cached, aborted, refused, blocked>>

IdleTask == [pc |-> "idle", op |-> "time", hashes |-> <<>>, at |-> 1, proxy |-> None, direct |-> FALSE,
             todo |-> <<>>, waits |-> None, block |-> FALSE, last |-> Sound, result |-> Sound]

\* The adapters that have the operation.
Eligible(op, provider) ==
  CASE op = "contexts"               -> provider = "moralis"
    [] op = "internal"               -> provider \in {"etherscan", "alchemy"}
    [] op = "time"                   -> provider = "etherscan"
    [] op \in {"balances", "holdings"} -> TRUE

Provider(t) == Candidates[task[t].at].provider
Key(t)      == Candidates[task[t].at].key

\* Who has asked for the hash and is waiting: the entry of transactionContextInFlight.
Flight(h) == {o \in Tasks : request[o] # None /\ request[o].hash = h}

Goes(t, pc) == task' = [task EXCEPT ![t].pc = pc]

-----------------------------------------------------------------------------
(* The loop over the candidates. *)

Begin(c) ==
  LET call == scenario.calls[c]
  IN  /\ task[Outer(c)].pc = "idle" /\ call # None
      /\ task' = [task EXCEPT ![Outer(c)] = [IdleTask EXCEPT !.pc = "choosing", !.op = call.op, !.hashes = call.hashes]]
      /\ UNCHANGED <<scenario, keys, proxies, request, cached, aborted, refused, blocked>>

\* The pool says whether the key is disabled or cools down.
PassOver(t) ==
  /\ task[t].pc = "choosing" /\ task[t].at <= Len(Candidates)
  /\ ~Eligible(task[t].op, Provider(t)) \/ keys[Key(t)] # "usable"
  /\ task' = [task EXCEPT ![t].at = @ + 1]
  /\ UNCHANGED <<scenario, keys, proxies, request, cached, aborted, refused, blocked>>

\* unavailable: the last error, or none but UNSUPPORTED_OPERATION.
Unavailable(last) == IF last = Sound THEN Error("UNSUPPORTED_OPERATION", FALSE) ELSE last

GiveUp(t) ==
  /\ task[t].pc = "choosing" /\ task[t].at > Len(Candidates)
  /\ task' = [task EXCEPT ![t].pc = "done", ![t].result = Unavailable(task[t].last)]
  /\ UNCHANGED <<scenario, keys, proxies, request, cached, aborted, refused, blocked>>

Ready(t) ==
  /\ task[t].pc = "choosing" /\ task[t].at <= Len(Candidates)
  /\ Eligible(task[t].op, Provider(t)) /\ keys[Key(t)] = "usable"

\* The requests of the work: one for each hash, or one of its own.
Todo(t) == IF task[t].op = "contexts" THEN task[t].hashes ELSE <<None>>

\* A route from the rotation of the proxy pool: a free proxy, or directly if that is allowed.
TakeCandidate(t) ==
  /\ Ready(t)
  /\ \E p \in {q \in Proxies : proxies[q] = "free"} \cup (IF scenario.allowDirect THEN {None} ELSE {}) :
       /\ proxies' = [q \in Proxies |-> IF q = p THEN "leased" ELSE proxies[q]]
       /\ task' = [task EXCEPT ![t].pc = "working", ![t].proxy = p, ![t].direct = FALSE, ![t].todo = Todo(t)]
  /\ UNCHANGED <<scenario, keys, request, cached, aborted, refused, blocked>>

\* Mutant: the same candidate is tried again.
PassedAgain(tk, error) ==
  IF CanTryAnother(error) THEN [tk EXCEPT !.pc = "choosing", !.last = error]
  ELSE [tk EXCEPT !.pc = "done", !.result = error]

\* An error of one candidate: the next one, or the end of the call.
Passed(tk, error) ==
  IF CanTryAnother(error) THEN [tk EXCEPT !.pc = "choosing", !.at = @ + 1, !.last = error]
  ELSE [tk EXCEPT !.pc = "done", !.result = error]

\* acquireProxy finds no permitted route.
NoRoute(t) ==
  /\ Ready(t) /\ ~scenario.allowDirect /\ \A p \in Proxies : proxies[p] # "free"
  /\ task' = [task EXCEPT ![t] = Passed(@, Error("PROXY_ERROR", TRUE))]
  /\ UNCHANGED <<scenario, keys, proxies, request, cached, aborted, refused, blocked>>

-----------------------------------------------------------------------------
(* The work of one candidate. *)

Working(t) == task[t].pc = "working" /\ task[t].waits = None

NeedsBlock(t) == task[t].op = "holdings" /\ Provider(t) = "moralis" /\ ~task[t].block

\* The work asks for the first of what is left to do.
Asks(t, h) == Working(t) /\ ~NeedsBlock(t) /\ task[t].todo # <<>> /\ h = task[t].todo[1]

\* A request, unless the context is in the cache or is being read.
Ask(t, h) ==
  /\ Asks(t, h) /\ h \notin cached /\ (h # None => Flight(h) = {})
  /\ request' = [request EXCEPT ![t] = [key |-> Key(t), provider |-> Provider(t), hash |-> h,
                                        proxy |-> IF task[t].direct THEN None ELSE task[t].proxy]]
  /\ task' = [task EXCEPT ![t].waits = t]
  /\ UNCHANGED <<scenario, keys, proxies, cached, aborted, refused, blocked>>

UseCache(t, h) ==
  /\ Asks(t, h) /\ h \in cached
  /\ task' = [task EXCEPT ![t].todo = Tail(@)]
  /\ UNCHANGED <<scenario, keys, proxies, request, cached, aborted, refused, blocked>>

JoinFlight(t, h) ==
  /\ Asks(t, h) /\ h \notin cached /\ h # None
  /\ \E o \in Flight(h) : task' = [task EXCEPT ![t].waits = o]
  /\ UNCHANGED <<scenario, keys, proxies, request, cached, aborted, refused, blocked>>

\* latestBlockNumberForMoralis: the same loop again, over the explorers.
AskBlock(t) ==
  /\ Working(t) /\ NeedsBlock(t)
  /\ task' = [task EXCEPT ![Inner(t)] = [IdleTask EXCEPT !.pc = "choosing"], ![t].pc = "nested"]
  /\ UNCHANGED <<scenario, keys, proxies, request, cached, aborted, refused, blocked>>

BlockAnswered(t) ==
  LET result == task[Inner(t)].result
  IN  /\ task[t].pc = "nested" /\ task[Inner(t)].pc = "done"
      /\ task' = [task EXCEPT ![Inner(t)] = IdleTask,
                              ![t].block = result = Sound,
                              ![t].pc = IF result = Sound THEN "working" ELSE "failed",
                              ![t].last = IF result = Sound THEN @ ELSE result]
      /\ UNCHANGED <<scenario, keys, proxies, request, cached, aborted, refused, blocked>>

-----------------------------------------------------------------------------
(* An answer reaches everyone who waits for the request. *)

\* The endpoints of historical balances are for the Standard plan.
Standard(t) == task[t].op \in {"balances", "holdings"}

\* The signal of who made the request ends it.
Answers(o) == IF o[1] \in aborted THEN {Failure("ERR_CANCELED", 0, {})} ELSE scenario.answers

Resumed(tk, error) ==
  IF error = Sound THEN [tk EXCEPT !.waits = None, !.todo = Tail(@)]
  ELSE [tk EXCEPT !.waits = None, !.pc = "failed", !.last = error]

\* What an answer says of the key it was given, and of the route it came by.
SpeaksOfKey(r, a)   == a.kind = "response" /\ (a.status \in {401, 403} \/ "key" \in a.words \/ a.rpc = -32001)
SpeaksOfLimit(r, a) == a.kind = "response" /\ (a.status = 429 \/ "limit" \in a.words \/ a.rpc = -32002)
SpeaksOfRoute(r, a) == a.kind = "failure" \/ (a.kind = "response" /\ a.status \in {407, 408})

Answer(o) ==
  /\ request[o] # None
  /\ \E a \in Answers(o) :
       LET r     == request[o]
           error == Classify(r.provider, a, r.proxy # None, o[1] \in aborted, Standard(o))
       IN  /\ task' = [t \in Tasks |-> IF task[t].waits = o THEN Resumed(task[t], error) ELSE task[t]]
           /\ cached' = IF error = Sound /\ r.hash # None THEN cached \cup {r.hash} ELSE cached
           /\ refused' = refused \cup (IF SpeaksOfKey(r, a) THEN {<<r.key, "disabled">>} ELSE {})
                                 \cup (IF SpeaksOfLimit(r, a) THEN {<<r.key, "cooling">>} ELSE {})
           /\ blocked' = IF SpeaksOfRoute(r, a) THEN blocked \cup {r.proxy} ELSE blocked
  /\ request' = [request EXCEPT ![o] = None]
  /\ UNCHANGED <<scenario, keys, proxies, aborted>>

-----------------------------------------------------------------------------
(* Reports to the pools. *)

\* Mutant: an outcome that says nothing of the proxy is not reported.
ReportProxyUnlessNeutral(t, outcome) ==
  [p \in Proxies |-> IF p # task[t].proxy \/ outcome = "neutral" THEN proxies[p]
                     ELSE IF outcome = "proxy_failure" THEN "cooling" ELSE "free"]

\* A failure of the route lets the proxy rest; everything else gives it back as it was.
ReportProxy(t, outcome) ==
  [p \in Proxies |-> IF p # task[t].proxy THEN proxies[p]
                     ELSE IF outcome = "proxy_failure" THEN "cooling" ELSE "free"]

\* CredentialPool.report: nothing revives a disabled key.
ReportByValue(t, outcome) ==
  [k \in Keys |-> IF k # Key(t) \/ keys[k] = "disabled" THEN keys[k]
                  ELSE CASE outcome = "authentication_failed" -> "disabled"
                         [] outcome = "rate_limited"          -> "cooling"
                         [] outcome = "success"               -> "usable"
                         [] OTHER                             -> keys[k]]

Succeed(t) ==
  /\ Working(t) /\ task[t].todo = <<>>
  /\ proxies' = ReportProxy(t, "success")
  /\ keys' = IF task[t].direct THEN keys ELSE ReportByValue(t, "success")
  /\ task' = [task EXCEPT ![t].pc = "done", ![t].result = Sound, ![t].proxy = None]
  /\ UNCHANGED <<scenario, request, cached, aborted, refused, blocked>>

\* A failure of the proxy, where direct calls are allowed, has the work done once more without it.
RetriesDirectly(t) ==
  ~task[t].direct /\ task[t].proxy # None /\ scenario.allowDirect /\ ProxyOutcome(task[t].last) = "proxy_failure"

\* The second failure is reported to nobody.
Fail(t) ==
  LET error == task[t].last
  IN  /\ task[t].pc = "failed"
      /\ proxies' = ReportProxy(t, ProxyOutcome(error))
      /\ keys' = IF task[t].direct THEN keys ELSE ReportByValue(t, KeyOutcome(error))
      /\ task' = [task EXCEPT ![t] =
           IF RetriesDirectly(t) THEN [@ EXCEPT !.pc = "working", !.direct = TRUE, !.proxy = None, !.todo = Todo(t)]
           ELSE Passed([@ EXCEPT !.proxy = None], error)]
      /\ UNCHANGED <<scenario, request, cached, aborted, refused, blocked>>

-----------------------------------------------------------------------------
(* The clock and the caller. *)

KeyCooledDown(k) ==
  /\ keys[k] = "cooling" /\ keys' = [keys EXCEPT ![k] = "usable"]
  /\ UNCHANGED <<scenario, proxies, task, request, cached, aborted, refused, blocked>>

ProxyRested(p) ==
  /\ proxies[p] = "cooling" /\ proxies' = [proxies EXCEPT ![p] = "free"]
  /\ UNCHANGED <<scenario, keys, task, request, cached, aborted, refused, blocked>>

CacheExpires(h) ==
  /\ h \in cached /\ cached' = cached \ {h}
  /\ UNCHANGED <<scenario, keys, proxies, task, request, aborted, refused, blocked>>

Abort(c) ==
  /\ c \notin aborted /\ task[Outer(c)].pc \notin {"idle", "done"}
  /\ aborted' = aborted \cup {c}
  /\ UNCHANGED <<scenario, keys, proxies, task, request, cached, refused, blocked>>

Init ==
  /\ scenario \in Scenarios
  /\ keys = [k \in Keys |-> "usable"] /\ proxies = [p \in Proxies |-> "free"]
  /\ task = [t \in Tasks |-> IdleTask] /\ request = [t \in Tasks |-> None]
  /\ cached = {} /\ aborted = {} /\ refused = {} /\ blocked = {}

Proceed(t) ==
  \/ PassOver(t) \/ GiveUp(t) \/ TakeCandidate(t) \/ NoRoute(t)
  \/ \E h \in Hashes \cup {None} : Ask(t, h) \/ UseCache(t, h) \/ JoinFlight(t, h)
  \/ AskBlock(t) \/ BlockAnswered(t)
  \/ Answer(t) \/ Succeed(t) \/ Fail(t)

Next ==
  \/ \E t \in Tasks : Proceed(t)
  \/ \E c \in Callers : Begin(c) \/ Abort(c)
  \/ \E k \in Keys : KeyCooledDown(k)
  \/ \E p \in Proxies : ProxyRested(p)
  \/ \E h \in Hashes : CacheExpires(h)

\* A call goes on by itself, and every request is answered within its time limit.
Fairness == \A t \in Tasks : WF_vars(Proceed(t))

Spec == Init /\ [][Next]_vars /\ Fairness

-----------------------------------------------------------------------------
(* Properties. *)

\* Do two calls ask for one hash, or does a call make an inner one?
Entangled ==
  \/ \E c \in Callers : scenario.calls[c] # None /\ scenario.calls[c].op = "holdings"
  \/ \E c, d \in Callers :
       /\ c # d /\ scenario.calls[c] # None /\ scenario.calls[d] # None
       /\ {scenario.calls[c].hashes[i] : i \in 1..Len(scenario.calls[c].hashes)} \cap
          {scenario.calls[d].hashes[i] : i \in 1..Len(scenario.calls[d].hashes)} # {}

ProxyBlamedFairly == \A p \in Proxies : proxies[p] = "cooling" => p \in blocked
KeyBlamedFairly   == \A k \in Keys : keys[k] # "usable" => <<k, keys[k]>> \in refused

\* Between a service's answer and the pools lie two classifications, a retry and reports by value:
\* a key is disabled or cooled down only if an answer to that key said so, and a proxy rests only if
\* the route failed with it.  Calls that share a request, or hold a proxy for an inner call, are
\* left out: see ProxyRestsForItsOwnFault (withCandidateContext, and the classifiers of the adapters).
BlameIsFair == ~Entangled => ProxyBlamedFairly /\ KeyBlamedFairly

\* A proxy is held only by a call at work, and by one: whichever way a try ends, shared, nested,
\* aborted or repeated directly, its proxy comes back (acquireProxy and reportProxy).
ProxiesComeBack ==
  \A p \in Proxies :
    proxies[p] = "leased" <=> Cardinality({t \in Tasks : task[t].pc \in {"working", "nested", "failed"} /\ task[t].proxy = p}) = 1

\* Every call comes to an end, whoever made the request it waits for: a shared request that fails or
\* is aborted leaves nobody waiting and is not found by a later call (getCachedTransactionContext).
CallsSettle == \A c \in Callers : (task[Outer(c)].pc # "idle") ~> (task[Outer(c)].pc = "done")

\* docs/SPEC.md, FR-006: a proxy enters cooldown only for proxy or connectivity failures.  The code
\* lets the proxy of an outer call rest because the inner call has found no route.
ProxyRestsForItsOwnFault == ProxyBlamedFairly
=============================================================================
