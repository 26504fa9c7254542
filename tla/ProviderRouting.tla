--------------------------- MODULE ProviderRouting ---------------------------
(***************************************************************************)
(* Which provider answers a call: ProviderRouter's candidates for a first  *)
(* page, the one candidate a cursor allows for the next, and cursorCodec's *)
(* identity of a query, for a caller that spells its requests as it likes, *)
(* keeps cursors, and meets a client set up anew in between.               *)
(*                                                                         *)
(* Which of the candidates answers is RequestExecutor's business: any may. *)
(* Calls decide at once, so they are asked one after the other.            *)
(* Bounds: the caller keeps one cursor; MaxPages; Configurations.          *)
(***************************************************************************)
EXTENDS RequestShapes

CONSTANTS
  Requests,        \* what the caller asks, without a cursor
  Configurations,  \* sequences of [kind, service]: the providers of a client, in order
  PageStates,      \* what adapters ask to be remembered, see EncodesPageState
  MaxPages

ASSUME RoutingAssumption ==
  /\ MaxPages \in Nat \ {0}
  /\ \A r \in Requests : IsRequest(r) /\ r.cursor = None
  /\ None \notin {"INVALID_REQUEST", "INVALID_BLOCK_RANGE", "UNSUPPORTED_CHAIN"}
  /\ \A c \in Configurations : \A i \in DOMAIN c : c[i].kind \in {"etherscan", "blockscout", "alchemy", "moralis"}

VARIABLES
  providers,  \* of the client at hand
  held,       \* the cursor the caller has kept, or None
  last        \* the outcome of the last call: [raw, code, by, service]

routingVars == <<providers, held, last>>

ConfigurationId(ps, i) == <<ps[i].kind, i>>

HasOperationMethod(kind, op) == kind = "alchemy" => op # "getNativeBalance"

RequiresIndexedFullData(request) == request.op = "getErc20Transfers" /\ request.fullData

PageLimit(kind, op) ==
  CASE kind \in {"etherscan", "blockscout"} -> MaxPageSize
    [] kind = "moralis"                     -> MoralisPageSize
    [] kind = "alchemy"                     -> IF op = "getErc20Transfers" THEN AlchemyPageSize ELSE MaxPageSize

SupportsRequest(kind, request, chain) ==
  /\ RequiresIndexedFullData(request) => kind \in {"etherscan", "blockscout"}
  /\ HasOperationMethod(kind, request.op)
  /\ kind \in chain.routes
  /\ request.op \in Paged => request.pageSize <= PageLimit(kind, request.op)

Candidates(ps, request, chain) == {i \in DOMAIN ps : SupportsRequest(ps[i].kind, request, chain)}

CursorOperations == Paged \cup {"getNativeBalance"}

\* providerPageState survives the codec: shallow, short, and no URL, secret or item in it.
EncodesPageState(state) ==
  state.depth <= 8 /\ state.width <= 64 /\ state.chars <= 2048 /\ ~state.forbidden /\ state.total <= 4096

AssertCursorMatches(cursor, request, chain) ==
  /\ cursor.operation = request.op
  /\ cursor.chainId = chain.chainId
  /\ cursor.queryFingerprint = QueryFingerprint(request, chain)

\* The entry the cursor names.
Pinned(cursor) == {i \in DOMAIN providers : /\ ConfigurationId(providers, i) = cursor.configurationId
                                            /\ providers[i].kind = cursor.provider}

\* routeContinuation has one candidate at most, and no other takes its place.
ContinuationOf(cursor, request, chain) ==
  IF AssertCursorMatches(cursor, request, chain)
  THEN {i \in Pinned(cursor) : SupportsRequest(providers[i].kind, request, chain)}
  ELSE {}

-----------------------------------------------------------------------------

\* The refusals, in the order of the code; None if somebody can answer.
Refusal(raw) ==
  LET request == Normalized(raw)
      chain   == Resolve(request.chain)
  IN  IF Complaint(raw) # None THEN Complaint(raw)
      ELSE IF chain = None THEN "UNSUPPORTED_CHAIN"
      ELSE IF raw.cursor # None
           THEN IF ContinuationOf(raw.cursor, request, chain) = {} THEN "INVALID_CURSOR" ELSE None
      ELSE IF raw.op \in Routed /\ Candidates(providers, request, chain) = {}
           THEN IF raw.op = RangeRead THEN "BLOCK_RANGE_UNSUPPORTED" ELSE "UNSUPPORTED_OPERATION"
      ELSE None

Refuse(raw) ==
  /\ Refusal(raw) # None
  /\ last' = [raw |-> raw, code |-> Refusal(raw), by |-> None, service |-> None]
  /\ UNCHANGED <<providers, held>>

\* Calls that need no route of the router's, ApiChainService's.
Hand(raw) ==
  /\ Refusal(raw) = None /\ raw.op \notin Routed
  /\ last' = [raw |-> raw, code |-> "handed", by |-> None, service |-> None]
  /\ UNCHANGED <<providers, held>>

\* mapSuccess: a page and, if there is more, a cursor; "began" is history.
CursorFor(raw, i, page) ==
  LET request == Normalized(raw)
      chain   == Resolve(request.chain)
  IN  [operation |-> raw.op, provider |-> providers[i].kind, configurationId |-> ConfigurationId(providers, i),
       chainId |-> chain.chainId, queryFingerprint |-> QueryFingerprint(request, chain), page |-> page,
       began |-> IF raw.cursor # None THEN raw.cursor.began
                 ELSE [raw |-> raw, by |-> ConfigurationId(providers, i), providers |-> providers]]

Answerers(raw) ==
  LET request == Normalized(raw)
      chain   == Resolve(request.chain)
  IN  IF raw.cursor = None THEN Candidates(providers, request, chain) ELSE ContinuationOf(raw.cursor, request, chain)

\* The caller keeps the new cursor or the one it has.
Answer(raw) ==
  /\ Refusal(raw) = None /\ raw.op \in Routed
  /\ LET page == IF raw.cursor = None THEN 1 ELSE raw.cursor.page + 1
     IN  \E i \in Answerers(raw) :
           /\ last' = [raw |-> raw, code |-> "answer", by |-> ConfigurationId(providers, i), service |-> providers[i].service]
           /\ held' \in {held} \cup IF raw.op \in Paged /\ page < MaxPages THEN {CursorFor(raw, i, page)} ELSE {}
  /\ UNCHANGED providers

\* A page state that cannot be encoded makes the answer an INVALID_RESPONSE.
LosePage(raw) ==
  /\ Refusal(raw) = None /\ raw.op \in Paged
  /\ \E state \in PageStates : ~EncodesPageState(state)
  /\ \E i \in Answerers(raw) :
       last' = [raw |-> raw, code |-> "INVALID_RESPONSE", by |-> ConfigurationId(providers, i), service |-> providers[i].service]
  /\ UNCHANGED <<providers, held>>

\* The caller takes the outcome of its call.
Take == last # None /\ last' = None /\ UNCHANGED <<providers, held>>

SetUpAnew ==
  /\ last = None
  /\ providers' \in Configurations \ {providers}
  /\ UNCHANGED <<held, last>>

RoutingInit == providers \in Configurations /\ held = None /\ last = None

Calls == IF last # None THEN {} ELSE Requests \cup IF held = None THEN {} ELSE {[r EXCEPT !.cursor = held] : r \in Requests}

RoutingNext == SetUpAnew \/ Take \/ \E raw \in Calls : Refuse(raw) \/ Hand(raw) \/ Answer(raw) \/ LosePage(raw)

RoutingSpec == RoutingInit /\ [][RoutingNext]_routingVars

-----------------------------------------------------------------------------

\* What a request asks, whatever its spelling.
Meaning(raw) ==
  LET of(text) == IF text = None THEN None ELSE text.of
      chain    == Resolve(NormalizeChainReference(raw.chain))
      full     == raw.fullData # None /\ raw.fullData
  IN  [op |-> raw.op, chain |-> IF chain = None THEN None ELSE chain.chainId, address |-> of(raw.address),
       token |-> of(raw.token), start |-> of(raw.startBlock), end |-> of(raw.endBlock),
       direction |-> Default(raw.direction, "both"), order |-> Default(raw.order, "desc"), full |-> full,
       pageSize |-> Default(raw.pageSize, IF full THEN MaxPageSize ELSE DefaultPageSize)]

\* A page that follows another belongs to the query the listing began with and
\* comes from the provider entry that gave the first page, over restarts and
\* whatever the caller mixes up (queryFingerprint, assertCursorMatches,
\* routeContinuation; docs/SPEC.md:168, :367).
ContinuesWhatItBegan ==
  last # None /\ last.code = "answer" /\ last.raw.cursor # None =>
    LET began == last.raw.cursor.began
    IN  Meaning(last.raw) = Meaning(began.raw) /\ last.by = began.by

\* The converse: a cursor is refused only to another query, or by a client that
\* is configured otherwise; spelling a block with zeros, an address in capitals
\* or a chain by another name changes nothing (operations.ts, ChainRegistry).
SpellingIsFree ==
  last # None /\ last.code = "INVALID_CURSOR" =>
    LET began == last.raw.cursor.began
    IN  Meaning(last.raw) # Meaning(began.raw) \/ providers # began.providers
=============================================================================
