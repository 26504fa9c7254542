------------------------ MODULE ApiCandidatesProofs ------------------------
(***************************************************************************)
(* Theorems about ApiCandidates for any callers, candidates, proxies,      *)
(* hashes and answers: a proxy that is leased is held by one call at work, *)
(* and nobody is blamed for what did not happen.                           *)
(***************************************************************************)
EXTENDS ApiCandidates, FiniteSetTheorems, TLAPS

\* The codes that blame neither the key nor the route.
Blameless == {"none", "PLAN_RESTRICTED", "INVALID_REQUEST", "UNSUPPORTED_CHAIN", "UNSUPPORTED_OPERATION",
              "PROVIDER_UNAVAILABLE", "INVALID_PROVIDER_RESPONSE", "REQUEST_ABORTED"}

ErrorCodes == Blameless \cup {"AUTHENTICATION_FAILED", "RATE_LIMITED"} \cup ConnectivityCodes
ErrorType  == [code : ErrorCodes, retryable : BOOLEAN]

Providers == {"etherscan", "alchemy", "moralis"}
AtWork    == {"working", "nested", "failed"}

TaskType ==
  [pc : {"idle", "choosing", "done"} \cup AtWork, op : Operations, hashes : Seq(Hashes),
   at : Nat \ {0}, proxy : Proxies \cup {None}, direct : BOOLEAN,
   todo : Seq(Hashes \cup {None}), waits : Tasks \cup {None}, block : BOOLEAN,
   last : ErrorType, result : ErrorType]

RequestType ==
  [key : Keys, provider : Providers, hash : Hashes \cup {None}, proxy : Proxies \cup {None}]

TypeOK ==
  /\ scenario \in Scenarios
  /\ keys \in [Keys -> {"usable", "cooling", "disabled"}]
  /\ proxies \in [Proxies -> {"free", "leased", "cooling"}]
  /\ task \in [Tasks -> TaskType]
  /\ request \in [Tasks -> RequestType \cup {None}]
  /\ cached \subseteq Hashes
  /\ aborted \subseteq Callers

-----------------------------------------------------------------------------
(* What becomes of an answer *)

\* An error blames the key, its limit or the route only as the answer did.
Blames(e, key, limit, route) ==
  /\ e \in ErrorType
  /\ e.code = "AUTHENTICATION_FAILED" => key
  /\ e.code = "RATE_LIMITED" => limit
  /\ e.code \in ConnectivityCodes => route

\* What each code blames.
LEMMA ErrorBlames ==
  ASSUME NEW key, NEW limit, NEW route, NEW b \in BOOLEAN
  PROVE  /\ \A c \in Blameless : Blames(Error(c, b), key, limit, route)
         /\ key => Blames(Error("AUTHENTICATION_FAILED", b), key, limit, route)
         /\ limit => Blames(Error("RATE_LIMITED", b), key, limit, route)
         /\ route => \A c \in ConnectivityCodes : Blames(Error(c, b), key, limit, route)
<1>1. \A c \in ErrorCodes : Error(c, b) \in ErrorType /\ Error(c, b).code = c
  <2> HIDE DEF ErrorCodes
  <2> QED BY DEF Error, ErrorType
<1>2. /\ \A c \in Blameless : /\ c \notin ConnectivityCodes
                              /\ c # "AUTHENTICATION_FAILED" /\ c # "RATE_LIMITED"
      /\ \A c \in ConnectivityCodes : c # "AUTHENTICATION_FAILED" /\ c # "RATE_LIMITED"
      /\ "AUTHENTICATION_FAILED" # "RATE_LIMITED"
      /\ "AUTHENTICATION_FAILED" \notin ConnectivityCodes /\ "RATE_LIMITED" \notin ConnectivityCodes
      /\ "AUTHENTICATION_FAILED" \in ErrorCodes /\ "RATE_LIMITED" \in ErrorCodes
      /\ Blameless \subseteq ErrorCodes /\ ConnectivityCodes \subseteq ErrorCodes
  BY DEF Blameless, ConnectivityCodes, ErrorCodes
<1>3. \A c \in Blameless : Blames(Error(c, b), key, limit, route)
  BY <1>1, <1>2, Zenon DEF Blames
<1>4. key => Blames(Error("AUTHENTICATION_FAILED", b), key, limit, route)
  BY <1>1, <1>2, Zenon DEF Blames
<1>5. limit => Blames(Error("RATE_LIMITED", b), key, limit, route)
  BY <1>1, <1>2, Zenon DEF Blames
<1>6. route => \A c \in ConnectivityCodes : Blames(Error(c, b), key, limit, route)
  BY <1>1, <1>2, Zenon DEF Blames
<1> QED BY <1>3, <1>4, <1>5, <1>6

\* The errors that blame neither the key nor the route.
Mild == {Error("PLAN_RESTRICTED", FALSE), Error("INVALID_REQUEST", FALSE), Error("UNSUPPORTED_CHAIN", FALSE),
         Error("UNSUPPORTED_OPERATION", FALSE), Error("PROVIDER_UNAVAILABLE", TRUE),
         Error("PROVIDER_UNAVAILABLE", FALSE), Error("INVALID_PROVIDER_RESPONSE", FALSE)}

\* The classifiers of HTTP statuses name the key, its limit or the route only
\* for the statuses that do.
LEMMA ClassifyHttpErrors ==
  ASSUME NEW status \in Nat, NEW words, NEW e,
         \/ e = ClassifyEtherscanHttpResponse(status, words)
         \/ e = ClassifyAlchemyHttpResponse(status)
         \/ e = ClassifyMoralisHttpResponse(status, words)
  PROVE  \/ e \in Mild
         \/ e = Error("AUTHENTICATION_FAILED", FALSE) /\ status \in {401, 403}
         \/ e = Error("RATE_LIMITED", TRUE) /\ status = 429
         \/ e = Error("REQUEST_TIMEOUT", TRUE) /\ status = 408
<1>1. CASE e = ClassifyEtherscanHttpResponse(status, words)
  <2>1. CASE status \in {401, 403}
    BY <1>1, <2>1 DEF ClassifyEtherscanHttpResponse, Mild
  <2>2. CASE status = 408
    BY <1>1, <2>2 DEF ClassifyEtherscanHttpResponse
  <2>3. CASE status = 429
    BY <1>1, <2>3 DEF ClassifyEtherscanHttpResponse
  <2>4. CASE ~(status \in {401, 403}) /\ status # 408 /\ status # 429
    BY <1>1, <2>4 DEF ClassifyEtherscanHttpResponse, Mild
  <2> QED BY <2>1, <2>2, <2>3, <2>4
<1>2. CASE e = ClassifyAlchemyHttpResponse(status)
  <2>1. CASE status \in {401, 403}
    BY <1>2, <2>1 DEF ClassifyAlchemyHttpResponse, Mild
  <2>2. CASE status = 408
    BY <1>2, <2>2 DEF ClassifyAlchemyHttpResponse
  <2>3. CASE status = 429
    BY <1>2, <2>3 DEF ClassifyAlchemyHttpResponse
  <2>4. CASE ~(status \in {401, 403}) /\ status # 408 /\ status # 429
    BY <1>2, <2>4 DEF ClassifyAlchemyHttpResponse, Mild
  <2> QED BY <2>1, <2>2, <2>3, <2>4
<1>3. CASE e = ClassifyMoralisHttpResponse(status, words)
  <2>1. CASE status \in {401, 403}
    BY <1>3, <2>1 DEF ClassifyMoralisHttpResponse, Mild
  <2>2. CASE status = 408
    BY <1>3, <2>2 DEF ClassifyMoralisHttpResponse
  <2>3. CASE status = 429
    BY <1>3, <2>3 DEF ClassifyMoralisHttpResponse
  <2>4. CASE status = 404
    <3>1. e = Error(IF "chain" \in words THEN "UNSUPPORTED_CHAIN" ELSE "INVALID_PROVIDER_RESPONSE", FALSE)
      BY <1>3, <2>4 DEF ClassifyMoralisHttpResponse
    <3> QED BY <3>1 DEF Mild
  <2>5. CASE status # 401 /\ status # 403 /\ status # 404 /\ status # 408 /\ status # 429
    <3>1. e = IF status \in {400, 422} THEN Error("INVALID_REQUEST", FALSE)
              ELSE IF status = 425 \/ status \in 500..599 THEN Error("PROVIDER_UNAVAILABLE", TRUE)
              ELSE Error("INVALID_PROVIDER_RESPONSE", FALSE)
      BY <1>3, <2>5, Zenon DEF ClassifyMoralisHttpResponse
    <3> QED BY <3>1 DEF Mild
  <2> QED BY <2>1, <2>2, <2>3, <2>4, <2>5
<1> QED BY <1>1, <1>2, <1>3

\* The words and the numbers of an error body that speak of the key and of its limit.
NamesKey(number, words)   == number = -32001 \/ "key" \in words
NamesLimit(number, words) == number = -32002 \/ "limit" \in words

\* What a classifier of error bodies may make of them.
FitsBody(e, number, words) ==
  \/ e \in Mild
  \/ e = Error("AUTHENTICATION_FAILED", FALSE) /\ NamesKey(number, words)
  \/ e = Error("RATE_LIMITED", TRUE) /\ NamesLimit(number, words)

\* The classifiers of error bodies name the key or its limit only for the words
\* and numbers that do.
LEMMA ClassifyBodyErrors ==
  ASSUME NEW words, NEW number \in Int
  PROVE  /\ FitsBody(ClassifyEtherscanEnvelopeError(words), number, words)
         /\ FitsBody(ClassifyEtherscanStandardEndpointError(words), number, words)
         /\ FitsBody(ClassifyAlchemyJsonRpcError(number, words), number, words)
<1> DEFINE env == ClassifyEtherscanEnvelopeError(words)
           standard == ClassifyEtherscanStandardEndpointError(words)
           rpc == ClassifyAlchemyJsonRpcError(number, words)
<1>1. FitsBody(env, number, words)
  <2>1. CASE "key" \in words
    <3>1. env = Error("AUTHENTICATION_FAILED", FALSE)
      BY <2>1 DEF ClassifyEtherscanEnvelopeError
    <3>2. NamesKey(number, words)
      BY <2>1 DEF NamesKey
    <3> QED BY <3>1, <3>2, Zenon DEF FitsBody
  <2>2. CASE "key" \notin words
    <3>1. env \in Mild \/ (env = Error("RATE_LIMITED", TRUE) /\ "limit" \in words)
      BY <2>2 DEF ClassifyEtherscanEnvelopeError, Mild
    <3>2. "limit" \in words => NamesLimit(number, words)
      BY DEF NamesLimit
    <3> QED BY <3>1, <3>2, Zenon DEF FitsBody
  <2> QED BY <2>1, <2>2
<1>2. FitsBody(standard, number, words)
  <2>1. standard = env \/ standard = Error("PLAN_RESTRICTED", FALSE)
    BY Zenon DEF ClassifyEtherscanStandardEndpointError
  <2>2. Error("PLAN_RESTRICTED", FALSE) \in Mild
    BY Zenon DEF Mild
  <2> HIDE DEF standard
  <2> QED BY <1>1, <2>1, <2>2, Zenon DEF FitsBody
<1>3. FitsBody(rpc, number, words)
  <2> DEFINE faulty == number = -32602 \/ words \cap {"request", "chain"} # {}
             missing == number = -32601
  <2>1. rpc = IF NamesKey(number, words) THEN Error("AUTHENTICATION_FAILED", FALSE)
              ELSE IF NamesLimit(number, words) THEN Error("RATE_LIMITED", TRUE)
              ELSE IF faulty THEN Error("INVALID_REQUEST", FALSE)
              ELSE IF missing THEN Error("UNSUPPORTED_OPERATION", FALSE)
              ELSE Error("PROVIDER_UNAVAILABLE", FALSE)
    BY DEF ClassifyAlchemyJsonRpcError, NamesKey, NamesLimit
  <2> HIDE DEF rpc, faulty, missing
  <2>2. \/ rpc = Error("AUTHENTICATION_FAILED", FALSE) /\ NamesKey(number, words)
        \/ rpc = Error("RATE_LIMITED", TRUE) /\ NamesLimit(number, words)
        \/ rpc \in {Error("INVALID_REQUEST", FALSE), Error("UNSUPPORTED_OPERATION", FALSE),
                    Error("PROVIDER_UNAVAILABLE", FALSE)}
    BY <2>1
  <2>3. {Error("INVALID_REQUEST", FALSE), Error("UNSUPPORTED_OPERATION", FALSE),
         Error("PROVIDER_UNAVAILABLE", FALSE)} \subseteq Mild
    BY Zenon DEF Mild
  <2> QED BY <2>2, <2>3 DEF FitsBody
<1> QED BY <1>1, <1>2, <1>3

\* None of the errors above blames anybody.
LEMMA MildBlames ==
  ASSUME NEW e \in Mild, NEW key, NEW limit, NEW route
  PROVE  Blames(e, key, limit, route)
<1>1. PICK c \in Blameless, b \in BOOLEAN : e = Error(c, b)
  BY DEF Mild, Blameless
<1> QED BY <1>1, ErrorBlames, Zenon

\* Between a service's answer and an error, only an answer that speaks of the
\* key, its limit or the route has it blamed.
LEMMA ClassifyBlames ==
  ASSUME NEW provider \in Providers, NEW a \in AnswerType \cup {Failure("ERR_CANCELED", 0, {})}, NEW proxied, NEW ended, NEW standard, NEW r
  PROVE  Blames(Classify(provider, a, proxied, ended, standard),
                SpeaksOfKey(r, a), SpeaksOfLimit(r, a), SpeaksOfRoute(r, a))
<1> DEFINE e == Classify(provider, a, proxied, ended, standard)
           key == SpeaksOfKey(r, a)
           limit == SpeaksOfLimit(r, a)
           route == SpeaksOfRoute(r, a)
           B(x) == Blames(x, key, limit, route)
<1>0. "REQUEST_ABORTED" \in Blameless /\ "none" \in Blameless
      /\ {"REQUEST_TIMEOUT", "PROXY_ERROR", "NETWORK_ERROR"} \subseteq ConnectivityCodes
  BY DEF Blameless, ConnectivityCodes
<1> HIDE DEF key, limit, route
<1>1. /\ \A c \in Blameless, b \in BOOLEAN : B(Error(c, b))
      /\ key => B(Error("AUTHENTICATION_FAILED", FALSE))
      /\ limit => B(Error("RATE_LIMITED", TRUE))
      /\ route => \A c \in ConnectivityCodes : B(Error(c, TRUE))
      /\ \A x \in Mild : B(x)
  BY ErrorBlames, MildBlames
<1> HIDE DEF B
<1>2. ASSUME a.kind = "failure" PROVE B(e)
  <2>1. route
    BY <1>2 DEF SpeaksOfRoute, route
  <2> DEFINE cut == ended \/ a.code = "ERR_CANCELED"
             late == a.code \in {"ECONNABORTED", "ETIMEDOUT"} \/ "timeout" \in a.words
             gate == proxied /\ IsProxyFailure(a)
  <2>2. e = IF cut THEN Error("REQUEST_ABORTED", FALSE)
            ELSE IF late THEN Error("REQUEST_TIMEOUT", TRUE)
            ELSE IF gate THEN Error("PROXY_ERROR", TRUE)
            ELSE Error("NETWORK_ERROR", TRUE)
    BY <1>2, Zenon DEF Classify, NormalizeAxiosError
  <2>3. /\ B(Error("REQUEST_ABORTED", FALSE)) /\ B(Error("REQUEST_TIMEOUT", TRUE))
        /\ B(Error("PROXY_ERROR", TRUE)) /\ B(Error("NETWORK_ERROR", TRUE))
    BY <1>0, <1>1, <2>1
  <2> HIDE DEF e, cut, late, gate
  <2> QED BY <2>2, <2>3
<1>3. ASSUME a.kind = "unsound" PROVE B(e)
  <2>1. e = Error("INVALID_PROVIDER_RESPONSE", FALSE)
    BY <1>3 DEF Classify
  <2> HIDE DEF e
  <2>2. e \in Mild
    BY <2>1, Zenon DEF Mild
  <2> QED BY <1>1, <2>2
<1>4. ASSUME a.kind = "response" PROVE B(e)
  <2>0. a.status \in Nat /\ a.rpc \in Int
    BY <1>4 DEF AnswerType, Unsound, Failure
  <2> DEFINE gate == proxied /\ a.status = 407
             odd == a.words # {} \/ a.rpc # 0
  <2>1. e = IF gate THEN Error("PROXY_ERROR", TRUE)
            ELSE IF ~Succeeds(a.status) THEN ClassifyHttp(provider, a)
            ELSE IF odd THEN ClassifyBody(provider, a, standard)
            ELSE Sound
    BY <1>4 DEF Classify
  <2>2. gate => B(Error("PROXY_ERROR", TRUE))
    <3>1. gate => route
      BY <1>4 DEF SpeaksOfRoute, route
    <3> HIDE DEF gate
    <3> QED BY <1>0, <1>1, <3>1
  <2>3. B(ClassifyHttp(provider, a))
    <3> DEFINE h == ClassifyHttp(provider, a)
    <3>1. \/ h = ClassifyEtherscanHttpResponse(a.status, a.words)
          \/ h = ClassifyAlchemyHttpResponse(a.status)
          \/ h = ClassifyMoralisHttpResponse(a.status, a.words)
      <4>1. CASE provider = "etherscan"
        BY <4>1 DEF ClassifyHttp
      <4>2. CASE provider = "alchemy"
        BY <4>2 DEF ClassifyHttp
      <4>3. CASE provider = "moralis"
        BY <4>3 DEF ClassifyHttp
      <4> QED BY <4>1, <4>2, <4>3 DEF Providers
    <3> HIDE DEF h
    <3>2. \/ h \in Mild
          \/ h = Error("AUTHENTICATION_FAILED", FALSE) /\ a.status \in {401, 403}
          \/ h = Error("RATE_LIMITED", TRUE) /\ a.status = 429
          \/ h = Error("REQUEST_TIMEOUT", TRUE) /\ a.status = 408
      BY <2>0, <3>1, ClassifyHttpErrors
    <3>3. /\ a.status \in {401, 403} => key
          /\ a.status = 429 => limit
          /\ a.status = 408 => route
      BY <1>4 DEF SpeaksOfKey, SpeaksOfLimit, SpeaksOfRoute, key, limit, route
    <3> QED BY <1>0, <1>1, <3>2, <3>3 DEF h
  <2>4. B(ClassifyBody(provider, a, standard))
    <3> DEFINE h == ClassifyBody(provider, a, standard)
    <3>1. \/ h = Error("INVALID_PROVIDER_RESPONSE", FALSE)
          \/ h = ClassifyEtherscanEnvelopeError(a.words)
          \/ h = ClassifyEtherscanStandardEndpointError(a.words)
          \/ h = ClassifyAlchemyJsonRpcError(a.rpc, a.words)
      BY Zenon DEF ClassifyBody
    <3> HIDE DEF h
    <3>2. h = Error("INVALID_PROVIDER_RESPONSE", FALSE) => FitsBody(h, a.rpc, a.words)
      BY Zenon DEF FitsBody, Mild
    <3>3. FitsBody(h, a.rpc, a.words)
      BY <2>0, <3>1, <3>2, ClassifyBodyErrors
    <3>4. NamesKey(a.rpc, a.words) => key
      BY <1>4, <2>0 DEF SpeaksOfKey, NamesKey, key
    <3>5. NamesLimit(a.rpc, a.words) => limit
      BY <1>4, <2>0 DEF SpeaksOfLimit, NamesLimit, limit
    <3>6. B(h)
      BY <1>1, <3>3, <3>4, <3>5 DEF FitsBody
    <3> QED BY <3>6 DEF h
  <2>5. B(Sound)
    BY <1>0, <1>1 DEF Sound
  <2> HIDE DEF e, gate, odd
  <2> QED BY <2>1, <2>2, <2>3, <2>4, <2>5
<1>5. a.kind \in {"failure", "unsound", "response"}
  BY DEF AnswerType, Unsound, Failure
<1> QED BY <1>2, <1>3, <1>4, <1>5, Zenon DEF B, key, limit, route

-----------------------------------------------------------------------------
(* Types *)

\* A candidate has a key and a known provider.
LEMMA CandidateTypes ==
  /\ Len(Candidates) \in Nat
  /\ \A i \in 1..Len(Candidates) : Candidates[i].key \in Keys /\ Candidates[i].provider \in Providers
<1> DEFINE candidate == [provider : Providers, key : Keys]
<1>1. Candidates \in Seq(candidate)
  BY CandidatesAssumption, Zenon DEF Providers
<1> HIDE DEF candidate
<1>2. Len(Candidates) \in Nat /\ \A i \in 1..Len(Candidates) : Candidates[i] \in candidate
  BY <1>1
<1> QED BY <1>2 DEF candidate

\* An unused task is a task, and its error none.
LEMMA IdleTyped == IdleTask \in TaskType /\ Sound \in ErrorType /\ None \notin Tasks /\ None \notin Proxies
<1>1. Sound \in ErrorType
  BY DEF Sound, Error, ErrorType, ErrorCodes, Blameless
<1>2. None \notin Tasks /\ None \notin Proxies
  BY CandidatesAssumption
<1>3. "time" \in Operations /\ "idle" \in {"idle", "choosing", "done"} \cup AtWork
  BY DEF Operations
<1> HIDE DEF Sound, ErrorType, Operations, AtWork
<1>4. <<>> \in Seq(Hashes) /\ <<>> \in Seq(Hashes \cup {None}) /\ 1 \in Nat \ {0}
  OBVIOUS
<1> QED BY <1>1, <1>2, <1>3, <1>4 DEF IdleTask, TaskType

\* What is asked of a candidate.
LEMMA TodoTyped ==
  ASSUME NEW t \in Tasks, task[t].hashes \in Seq(Hashes)
  PROVE  Todo(t) \in Seq(Hashes \cup {None})
<1>1. task[t].hashes \in Seq(Hashes \cup {None})
  OBVIOUS
<1>2. <<None>> \in Seq(Hashes \cup {None})
  OBVIOUS
<1> QED BY <1>1, <1>2, Zenon DEF Todo

\* An answer becomes an error of the type, or none.
LEMMA AnswerTyped ==
  ASSUME TypeOK, NEW o \in Tasks, request[o] # None, NEW a \in Answers(o)
  PROVE  /\ a \in AnswerType \cup {Failure("ERR_CANCELED", 0, {})}
         /\ request[o] \in RequestType
         /\ Classify(request[o].provider, a, request[o].proxy # None, o[1] \in aborted, Standard(o)) \in ErrorType
<1>1. a \in AnswerType \cup {Failure("ERR_CANCELED", 0, {})}
  <2>1. scenario.answers \subseteq AnswerType
    BY CandidatesAssumption DEF TypeOK
  <2> QED BY <2>1, Zenon DEF Answers
<1>2. request[o] \in RequestType
  BY Zenon DEF TypeOK
<1>3. request[o].provider \in Providers
  BY <1>2 DEF RequestType
<1> QED BY <1>1, <1>2, <1>3, ClassifyBlames, Zenon DEF Blames

-----------------------------------------------------------------------------
(* The invariant *)

\* A task at work has a candidate; only such a task holds a proxy, and only one with work to do waits.
Steady(tk) ==
  /\ tk.pc \in AtWork => tk.at <= Len(Candidates)
  /\ tk.waits # None => tk.pc = "working" /\ tk.todo # <<>>
  /\ tk.proxy # None => tk.pc \in AtWork

\* An inner call asks for the time, and runs only while the outer one waits for it.
InnerWithin ==
  \A c \in Callers : /\ task[<<c, 2>>].op = "time"
                     /\ task[<<c, 2>>].pc # "idle" => task[<<c, 1>>].pc = "nested"

OneHolder == \A t, u \in Tasks : task[t].proxy # None /\ task[t].proxy = task[u].proxy => t = u

LeasedIsHeld == \A p \in Proxies : proxies[p] = "leased" <=> \E t \in Tasks : task[t].proxy = p

RoutesInv ==
  /\ TypeOK
  /\ \A t \in Tasks : Steady(task[t])
  /\ InnerWithin
  /\ OneHolder
  /\ LeasedIsHeld

\* A task is the outer or the inner call of a caller.
LEMMA TaskShape ==
  /\ \A c \in Callers : <<c, 1>> \in Tasks /\ <<c, 2>> \in Tasks /\ <<c, 1>> # <<c, 2>>
  /\ \A t \in Tasks : t[1] \in Callers /\ (t = <<t[1], 1>> \/ t = <<t[1], 2>>)
  /\ \A c, d \in Callers, i, j \in {1, 2} : <<c, i>> = <<d, j>> => c = d /\ i = j
BY DEF Tasks

\* A task that goes on by itself keeps to itself.
LEMMA OneMoves ==
  ASSUME RoutesInv, NEW t \in Tasks, NEW tk \in TaskType, task' = [task EXCEPT ![t] = tk],
         Steady(tk), tk.op = task[t].op, task[t].pc \notin {"idle", "nested"}
  PROVE  /\ task' \in [Tasks -> TaskType]
         /\ \A u \in Tasks : Steady(task[u])'
         /\ InnerWithin'
<1>1. task \in [Tasks -> TaskType] /\ task' \in [Tasks -> TaskType]
      /\ task'[t] = tk /\ \A u \in Tasks : u # t => task'[u] = task[u]
  BY DEF RoutesInv, TypeOK
<1>2. \A u \in Tasks : Steady(task[u])'
  BY <1>1 DEF RoutesInv, Steady
<1>3. ASSUME NEW c \in Callers
      PROVE  /\ task'[<<c, 2>>].op = "time"
             /\ task'[<<c, 2>>].pc # "idle" => task'[<<c, 1>>].pc = "nested"
  <2>1. /\ task[<<c, 2>>].op = "time"
        /\ task[<<c, 2>>].pc # "idle" => task[<<c, 1>>].pc = "nested"
    BY DEF RoutesInv, InnerWithin
  <2>2. <<c, 1>> \in Tasks /\ <<c, 2>> \in Tasks /\ <<c, 1>> # <<c, 2>>
    BY TaskShape
  <2> DEFINE i == <<c, 2>>
             o == <<c, 1>>
  <2> HIDE DEF i, o
  <2>3. /\ task[i].op = "time"
        /\ task[i].pc # "idle" => task[o].pc = "nested"
        /\ o \in Tasks /\ i \in Tasks /\ o # i
    BY <2>1, <2>2 DEF i, o
  <2>4. /\ task'[i].op = "time"
        /\ task'[i].pc # "idle" => task'[o].pc = "nested"
    BY <1>1, <2>3
  <2> QED BY <2>4 DEF i, o
<1> QED BY <1>1, <1>2, <1>3 DEF InnerWithin

\* A step that moves no proxy.
LEMMA RoutesKept ==
  ASSUME RoutesInv, proxies' = proxies, \A u \in Tasks : task'[u].proxy = task[u].proxy
  PROVE  OneHolder' /\ LeasedIsHeld'
BY DEF RoutesInv, OneHolder, LeasedIsHeld

\* A task that gives its proxy back, if it has one.
LEMMA RouteReturned ==
  ASSUME RoutesInv, NEW t \in Tasks, NEW tk \in TaskType, task' = [task EXCEPT ![t] = tk],
         tk.proxy = None, NEW outcome, proxies' = ReportProxy(t, outcome)
  PROVE  /\ proxies' \in [Proxies -> {"free", "leased", "cooling"}]
         /\ OneHolder' /\ LeasedIsHeld'
<1>1. task \in [Tasks -> TaskType] /\ task'[t] = tk /\ \A u \in Tasks : u # t => task'[u] = task[u]
  BY DEF RoutesInv, TypeOK
<1>2. \A p \in Proxies : IF p = task[t].proxy THEN proxies'[p] \in {"free", "cooling"}
                         ELSE proxies'[p] = proxies[p]
  BY DEF ReportProxy
<1>3. proxies' \in [Proxies -> {"free", "leased", "cooling"}]
  BY DEF ReportProxy, RoutesInv, TypeOK
<1>4. OneHolder'
  BY <1>1 DEF RoutesInv, OneHolder
<1>5. None \notin Proxies
  BY IdleTyped
<1>6. ASSUME NEW p \in Proxies PROVE proxies'[p] = "leased" <=> \E u \in Tasks : task'[u].proxy = p
  <2>1. CASE p = task[t].proxy
    BY <1>1, <1>2, <1>5, <2>1 DEF RoutesInv, OneHolder
  <2>2. CASE p # task[t].proxy
    BY <1>1, <1>2, <1>5, <2>2 DEF RoutesInv, LeasedIsHeld
  <2> QED BY <2>1, <2>2
<1> QED BY <1>3, <1>4, <1>6 DEF LeasedIsHeld

\* Passing a candidate over, or the end of the call, leaves a task without proxy steady.
LEMMA PassedSteady ==
  ASSUME NEW tk \in TaskType, tk.proxy = None, tk.waits = None, NEW error \in ErrorType
  PROVE  Passed(tk, error) \in TaskType /\ Steady(Passed(tk, error)) /\ Passed(tk, error).proxy = None
         /\ Passed(tk, error).op = tk.op
<1>1. CASE CanTryAnother(error)
  <2>1. Passed(tk, error) = [tk EXCEPT !.pc = "choosing", !.at = @ + 1, !.last = error]
    BY <1>1, Zenon DEF Passed
  <2>2. Passed(tk, error) \in TaskType
    <3>1. tk.at + 1 \in Nat \ {0}
      BY DEF TaskType
    <3> QED BY <2>1, <3>1 DEF TaskType
  <2>3. /\ Passed(tk, error).pc = "choosing" /\ Passed(tk, error).waits = None
        /\ Passed(tk, error).proxy = None /\ Passed(tk, error).op = tk.op
    BY <2>1 DEF TaskType
  <2> QED BY <2>2, <2>3 DEF Steady, AtWork
<1>2. CASE ~CanTryAnother(error)
  <2>1. Passed(tk, error) = [tk EXCEPT !.pc = "done", !.result = error]
    BY <1>2, Zenon DEF Passed
  <2> QED BY <2>1 DEF Steady, TaskType, AtWork
<1> QED BY <1>1, <1>2

\* The steps that move one task and no proxy.
LEMMA QuietSteps ==
  ASSUME RoutesInv, NEW t \in Tasks,
         \/ PassOver(t) \/ GiveUp(t) \/ NoRoute(t)
         \/ \E h \in Hashes \cup {None} : Ask(t, h) \/ UseCache(t, h) \/ JoinFlight(t, h)
  PROVE  RoutesInv'
<1>1. /\ task[t] \in TaskType /\ Steady(task[t]) /\ task \in [Tasks -> TaskType]
      /\ request \in [Tasks -> RequestType \cup {None}] /\ None \notin Tasks
  BY IdleTyped DEF RoutesInv, TypeOK
<1> DEFINE tk == task'[t]
           Quiet == /\ tk \in TaskType /\ task' = [task EXCEPT ![t] = tk] /\ Steady(tk)
                    /\ tk.proxy = task[t].proxy /\ tk.op = task[t].op
                    /\ task[t].pc \notin {"idle", "nested"} /\ proxies' = proxies
                    /\ UNCHANGED <<scenario, keys, cached, aborted>>
                    /\ request' \in [Tasks -> RequestType \cup {None}]
<1>2. ASSUME Quiet PROVE RoutesInv'
  <2> HIDE DEF tk
  <2>1. \A u \in Tasks : task'[u].proxy = task[u].proxy
    BY <1>1, <1>2
  <2> QED BY <1>2, <2>1, OneMoves, RoutesKept DEF RoutesInv, TypeOK
<1>3. ASSUME PassOver(t) PROVE Quiet
  <2>1. tk = [task[t] EXCEPT !.at = @ + 1] /\ task[t].pc = "choosing"
    BY <1>1, <1>3 DEF PassOver
  <2>2. tk \in TaskType /\ Steady(tk) /\ tk.proxy = task[t].proxy /\ tk.op = task[t].op
    <3>1. task[t].at + 1 \in Nat \ {0}
      BY <1>1 DEF TaskType
    <3> QED BY <1>1, <2>1, <3>1 DEF TaskType, Steady, AtWork
  <2> QED BY <1>1, <1>3, <2>1, <2>2 DEF PassOver
<1>4. ASSUME GiveUp(t) PROVE Quiet
  <2>1. tk = [task[t] EXCEPT !.pc = "done", !.result = Unavailable(task[t].last)] /\ task[t].pc = "choosing"
    BY <1>1, <1>4 DEF GiveUp
  <2>2. Unavailable(task[t].last) \in ErrorType
    <3>1. Error("UNSUPPORTED_OPERATION", FALSE) \in ErrorType
      BY DEF Error, ErrorType, ErrorCodes, Blameless
    <3>2. task[t].last \in ErrorType
      BY <1>1 DEF TaskType
    <3> QED BY <3>1, <3>2, Zenon DEF Unavailable
  <2>3. tk \in TaskType /\ Steady(tk) /\ tk.proxy = task[t].proxy /\ tk.op = task[t].op
    BY <1>1, <2>1, <2>2 DEF TaskType, Steady, AtWork
  <2> QED BY <1>1, <1>4, <2>1, <2>3 DEF GiveUp
<1>5. ASSUME NoRoute(t) PROVE Quiet
  <2>1. tk = Passed(task[t], Error("PROXY_ERROR", TRUE)) /\ task[t].pc = "choosing"
    BY <1>1, <1>5 DEF NoRoute, Ready
  <2>2. Error("PROXY_ERROR", TRUE) \in ErrorType
    BY DEF Error, ErrorType, ErrorCodes, Blameless, ConnectivityCodes
  <2>3. task[t].proxy = None /\ task[t].waits = None
    BY <1>1, <2>1 DEF Steady, AtWork
  <2>4. tk \in TaskType /\ Steady(tk) /\ tk.proxy = task[t].proxy /\ tk.op = task[t].op
    BY <1>1, <2>1, <2>2, <2>3, PassedSteady
  <2> QED BY <1>1, <1>5, <2>1, <2>4 DEF NoRoute
<1>6. ASSUME NEW h \in Hashes \cup {None}, Ask(t, h) PROVE Quiet
  <2>1. /\ tk = [task[t] EXCEPT !.waits = t] /\ task[t].pc = "working" /\ task[t].waits = None
        /\ task[t].todo # <<>>
    BY <1>1, <1>6 DEF Ask, Asks, Working
  <2>2. tk \in TaskType /\ Steady(tk) /\ tk.proxy = task[t].proxy /\ tk.op = task[t].op
    BY <1>1, <2>1 DEF TaskType, Steady, AtWork
  <2>3. task[t].at \in 1..Len(Candidates)
    <3>1. task[t].at \in Nat \ {0} /\ task[t].at <= Len(Candidates)
      BY <1>1, <2>1, CandidateTypes DEF TaskType, Steady, AtWork
    <3> QED BY <3>1, CandidateTypes
  <2>4. Key(t) \in Keys /\ Provider(t) \in Providers
    BY <2>3, CandidateTypes DEF Key, Provider
  <2>5. [key |-> Key(t), provider |-> Provider(t), hash |-> h,
         proxy |-> IF task[t].direct THEN None ELSE task[t].proxy] \in RequestType
    <3>1. task[t].proxy \in Proxies \cup {None}
      BY <1>1 DEF TaskType
    <3> QED BY <2>4, <3>1 DEF RequestType
  <2>6. request' \in [Tasks -> RequestType \cup {None}]
    BY <1>1, <1>6, <2>5, Zenon DEF Ask
  <2> QED BY <1>1, <1>6, <2>1, <2>2, <2>6 DEF Ask
<1>7. ASSUME NEW h \in Hashes \cup {None}, UseCache(t, h) PROVE Quiet
  <2>1. /\ tk = [task[t] EXCEPT !.todo = Tail(@)] /\ task[t].pc = "working" /\ task[t].waits = None
        /\ task[t].todo # <<>>
    BY <1>1, <1>7 DEF UseCache, Asks, Working
  <2>2. Tail(task[t].todo) \in Seq(Hashes \cup {None})
    <3>1. task[t].todo \in Seq(Hashes \cup {None})
      BY <1>1 DEF TaskType
    <3> QED BY <2>1, <3>1
  <2>3. tk \in TaskType /\ Steady(tk) /\ tk.proxy = task[t].proxy /\ tk.op = task[t].op
    BY <1>1, <2>1, <2>2 DEF TaskType, Steady, AtWork
  <2> QED BY <1>1, <1>7, <2>1, <2>3 DEF UseCache
<1>8. ASSUME NEW h \in Hashes \cup {None}, JoinFlight(t, h) PROVE Quiet
  <2>1. PICK o \in Flight(h) : task' = [task EXCEPT ![t].waits = o]
    BY <1>8 DEF JoinFlight
  <2>2. o \in Tasks
    BY <2>1 DEF Flight
  <2>3. /\ tk = [task[t] EXCEPT !.waits = o] /\ task[t].pc = "working" /\ task[t].waits = None
        /\ task[t].todo # <<>>
    BY <1>1, <1>8, <2>1 DEF JoinFlight, Asks, Working
  <2>4. tk \in TaskType /\ Steady(tk) /\ tk.proxy = task[t].proxy /\ tk.op = task[t].op
    BY <1>1, <2>2, <2>3 DEF TaskType, Steady, AtWork
  <2> QED BY <1>1, <1>8, <2>1, <2>3, <2>4 DEF JoinFlight
<1> HIDE DEF Quiet
<1> QED BY <1>2, <1>3, <1>4, <1>5, <1>6, <1>7, <1>8

\* A proxy of the rotation goes to the task that takes it.
LEMMA TakeStep ==
  ASSUME RoutesInv, NEW t \in Tasks, TakeCandidate(t)
  PROVE  RoutesInv'
<1>1. /\ task[t] \in TaskType /\ Steady(task[t]) /\ task \in [Tasks -> TaskType]
      /\ proxies \in [Proxies -> {"free", "leased", "cooling"}] /\ None \notin Tasks /\ None \notin Proxies
  BY IdleTyped DEF RoutesInv, TypeOK
<1> DEFINE tk == task'[t]
<1>2. PICK p \in {q \in Proxies : proxies[q] = "free"} \cup {None} :
        /\ proxies' = [q \in Proxies |-> IF q = p THEN "leased" ELSE proxies[q]]
        /\ task' = [task EXCEPT ![t].pc = "working", ![t].proxy = p, ![t].direct = FALSE, ![t].todo = Todo(t)]
  BY DEF TakeCandidate
<1>3. task[t].pc = "choosing" /\ task[t].at <= Len(Candidates)
  BY DEF TakeCandidate, Ready
<1>4. tk = [task[t] EXCEPT !.pc = "working", !.proxy = p, !.direct = FALSE, !.todo = Todo(t)]
      /\ task' = [task EXCEPT ![t] = tk]
  BY <1>1, <1>2
<1>5. task[t].proxy = None /\ task[t].waits = None
  BY <1>1, <1>3 DEF Steady, AtWork
<1>6. Todo(t) \in Seq(Hashes \cup {None})
  <2>1. task[t].hashes \in Seq(Hashes)
    BY <1>1 DEF TaskType
  <2> QED BY <2>1, TodoTyped
<1>7. tk \in TaskType /\ Steady(tk) /\ tk.proxy = p /\ tk.op = task[t].op
  BY <1>1, <1>2, <1>3, <1>4, <1>5, <1>6 DEF TaskType, Steady, AtWork
<1>8. /\ task' \in [Tasks -> TaskType] /\ InnerWithin' /\ \A u \in Tasks : Steady(task[u])'
  <2> HIDE DEF tk
  <2> QED BY <1>3, <1>4, <1>7, OneMoves
<1>9. /\ \A u \in Tasks : u # t => task'[u] = task[u]
      /\ task'[t].proxy = p
  BY <1>1, <1>4, <1>7
<1>10. \A u \in Tasks : p # None => task[u].proxy # p
  <2>1. p # None => p \in Proxies /\ proxies[p] = "free"
    BY <1>2
  <2> QED BY <2>1 DEF RoutesInv, LeasedIsHeld
<1>11. OneHolder'
  BY <1>9, <1>10 DEF OneHolder, RoutesInv
<1>12. LeasedIsHeld'
  <2> SUFFICES ASSUME NEW q \in Proxies PROVE proxies'[q] = "leased" <=> \E u \in Tasks : task'[u].proxy = q
    BY DEF LeasedIsHeld
  <2>1. CASE q = p
    BY <1>2, <1>9, <2>1
  <2>2. CASE q # p
    <3>1. proxies'[q] = proxies[q]
      BY <1>2, <2>2
    <3>2. \A u \in Tasks : task'[u].proxy = q <=> task[u].proxy = q
      BY <1>1, <1>5, <1>9, <2>2
    <3> QED BY <3>1, <3>2 DEF RoutesInv, LeasedIsHeld
  <2> QED BY <2>1, <2>2
<1>13. proxies' \in [Proxies -> {"free", "leased", "cooling"}]
  BY <1>1, <1>2
<1>14. UNCHANGED <<scenario, keys, request, cached, aborted>>
  BY DEF TakeCandidate
<1> QED BY <1>8, <1>11, <1>12, <1>13, <1>14 DEF RoutesInv, TypeOK

\* What the pool of the keys is told leaves every key in one of its states.
LEMMA ReportTyped ==
  ASSUME RoutesInv, NEW t \in Tasks, NEW outcome
  PROVE  ReportByValue(t, outcome) \in [Keys -> {"usable", "cooling", "disabled"}]
BY DEF RoutesInv, TypeOK, ReportByValue

\* A try that ends gives its proxy back.
LEMMA EndStep ==
  ASSUME RoutesInv, NEW t \in Tasks, Succeed(t) \/ Fail(t)
  PROVE  RoutesInv'
<1>1. /\ task[t] \in TaskType /\ Steady(task[t]) /\ task \in [Tasks -> TaskType]
      /\ proxies \in [Proxies -> {"free", "leased", "cooling"}] /\ None \notin Tasks /\ None \notin Proxies
      /\ keys \in [Keys -> {"usable", "cooling", "disabled"}]
  BY IdleTyped DEF RoutesInv, TypeOK
<1> DEFINE tk == task'[t]
           Ended == /\ tk \in TaskType /\ task' = [task EXCEPT ![t] = tk] /\ Steady(tk)
                    /\ tk.proxy = None /\ tk.op = task[t].op
                    /\ task[t].pc \notin {"idle", "nested"} /\ \E outcome : proxies' = ReportProxy(t, outcome)
                    /\ UNCHANGED <<scenario, request, cached, aborted>>
                    /\ keys' \in [Keys -> {"usable", "cooling", "disabled"}]
<1>2. ASSUME Ended PROVE RoutesInv'
  <2> HIDE DEF tk
  <2> QED BY <1>2, OneMoves, RouteReturned DEF RoutesInv, TypeOK
<1>3. ASSUME Succeed(t) PROVE Ended
  <2>1. /\ tk = [task[t] EXCEPT !.pc = "done", !.result = Sound, !.proxy = None]
        /\ task[t].pc = "working" /\ task[t].waits = None /\ task' = [task EXCEPT ![t] = tk]
    BY <1>1, <1>3 DEF Succeed, Working
  <2>2. tk \in TaskType /\ Steady(tk) /\ tk.proxy = None /\ tk.op = task[t].op
    BY <1>1, <2>1, IdleTyped DEF TaskType, Steady, AtWork
  <2>3. keys' \in [Keys -> {"usable", "cooling", "disabled"}]
    BY <1>1, <1>3, ReportTyped, Zenon DEF Succeed
  <2>4. UNCHANGED <<scenario, request, cached, aborted>> /\ proxies' = ReportProxy(t, "success")
    BY <1>3 DEF Succeed
  <2> QED BY <2>1, <2>2, <2>3, <2>4
<1>4. ASSUME Fail(t) PROVE Ended
  <2> DEFINE error == task[t].last
             bare == [task[t] EXCEPT !.proxy = None]
             again == [task[t] EXCEPT !.pc = "working", !.direct = TRUE, !.proxy = None, !.todo = Todo(t)]
  <2>1. /\ tk = IF RetriesDirectly(t) THEN again ELSE Passed(bare, error)
        /\ task' = [task EXCEPT ![t] = tk] /\ task[t].pc = "failed"
    BY <1>1, <1>4 DEF Fail
  <2>2. task[t].waits = None /\ task[t].at <= Len(Candidates) /\ error \in ErrorType
    BY <1>1, <2>1 DEF Steady, AtWork, TaskType
  <2>3. Todo(t) \in Seq(Hashes \cup {None})
    <3>1. task[t].hashes \in Seq(Hashes)
      BY <1>1 DEF TaskType
    <3> QED BY <3>1, TodoTyped
  <2>4. again \in TaskType /\ Steady(again) /\ again.proxy = None /\ again.op = task[t].op
    BY <1>1, <2>2, <2>3 DEF TaskType, Steady, AtWork
  <2>5. bare \in TaskType /\ bare.proxy = None /\ bare.waits = None /\ bare.op = task[t].op
    BY <1>1, <2>2 DEF TaskType
  <2>6. /\ Passed(bare, error) \in TaskType /\ Steady(Passed(bare, error))
        /\ Passed(bare, error).proxy = None /\ Passed(bare, error).op = task[t].op
    <3> HIDE DEF bare, error
    <3> QED BY <2>2, <2>5, PassedSteady
  <2>7. tk \in TaskType /\ Steady(tk) /\ tk.proxy = None /\ tk.op = task[t].op
    <3> HIDE DEF bare, again, error, tk
    <3> QED BY <2>1, <2>4, <2>6
  <2>8. keys' \in [Keys -> {"usable", "cooling", "disabled"}]
    BY <1>1, <1>4, ReportTyped, Zenon DEF Fail
  <2>9. UNCHANGED <<scenario, request, cached, aborted>> /\ \E outcome : proxies' = ReportProxy(t, outcome)
    BY <1>4 DEF Fail
  <2> QED BY <2>1, <2>7, <2>8, <2>9
<1> HIDE DEF Ended
<1> QED BY <1>2, <1>3, <1>4

\* What a step must keep where it changes the control of several tasks.
LEMMA ControlKept ==
  ASSUME RoutesInv, task' \in [Tasks -> TaskType], proxies' = proxies,
         UNCHANGED <<scenario, keys, aborted>>,
         request' \in [Tasks -> RequestType \cup {None}], cached' \subseteq Hashes,
         \A u \in Tasks : task'[u].proxy = task[u].proxy,
         \A u \in Tasks : Steady(task'[u]), InnerWithin'
  PROVE  RoutesInv'
<1>1. OneHolder' /\ LeasedIsHeld'
  BY RoutesKept
<1>2. \A u \in Tasks : Steady(task[u])'
  BY DEF Steady
<1> QED BY <1>1, <1>2 DEF RoutesInv, TypeOK

\* A new call, or a new inner one: it starts without a proxy, and holds none yet.
LEMMA FreshSteady ==
  ASSUME NEW op \in Operations, NEW hashes \in Seq(Hashes)
  PROVE  LET tk == [IdleTask EXCEPT !.pc = "choosing", !.op = op, !.hashes = hashes]
         IN  tk \in TaskType /\ Steady(tk) /\ tk.proxy = None /\ tk.op = op
<1>1. IdleTask \in TaskType /\ IdleTask.waits = None /\ IdleTask.proxy = None
  BY IdleTyped DEF IdleTask
<1> QED BY <1>1 DEF TaskType, Steady, AtWork

\* A call begins while neither it nor its inner call has a proxy.
LEMMA BeginStep ==
  ASSUME RoutesInv, NEW c \in Callers, Begin(c)
  PROVE  RoutesInv'
<1> DEFINE o == <<c, 1>>
           call == scenario.calls[c]
           fresh == [IdleTask EXCEPT !.pc = "choosing", !.op = call.op, !.hashes = call.hashes]
<1>1. /\ task \in [Tasks -> TaskType] /\ \A u \in Tasks : Steady(task[u])
      /\ request \in [Tasks -> RequestType \cup {None}] /\ o \in Tasks /\ cached \subseteq Hashes
  BY TaskShape DEF RoutesInv, TypeOK
<1>2. call.op \in Operations /\ call.hashes \in Seq(Hashes)
  BY CandidatesAssumption DEF Begin, RoutesInv, TypeOK
<1>3. /\ task[o].pc = "idle" /\ task' = [task EXCEPT ![o] = fresh]
      /\ UNCHANGED <<scenario, keys, proxies, request, cached, aborted>>
  BY DEF Begin, Outer
<1>4. fresh \in TaskType /\ Steady(fresh) /\ fresh.proxy = None
  BY <1>2, FreshSteady
<1> HIDE DEF fresh
<1>5. task[o].proxy = None
  BY <1>1, <1>3 DEF Steady, AtWork
<1>6. task' \in [Tasks -> TaskType] /\ task'[o] = fresh /\ \A u \in Tasks : u # o => task'[u] = task[u]
  BY <1>1, <1>3, <1>4
<1>7. \A u \in Tasks : task'[u].proxy = task[u].proxy /\ Steady(task'[u])
  BY <1>1, <1>4, <1>5, <1>6
<1>8. InnerWithin'
  <2> SUFFICES ASSUME NEW d \in Callers
               PROVE  /\ task'[<<d, 2>>].op = "time"
                      /\ task'[<<d, 2>>].pc # "idle" => task'[<<d, 1>>].pc = "nested"
    BY DEF InnerWithin
  <2>1. /\ task[<<d, 2>>].op = "time"
        /\ task[<<d, 2>>].pc # "idle" => task[<<d, 1>>].pc = "nested"
    BY DEF RoutesInv, InnerWithin
  <2>2. task'[<<d, 2>>] = task[<<d, 2>>]
    BY <1>6, TaskShape
  <2>3. CASE d = c
    BY <1>3, <2>1, <2>2, <2>3
  <2>4. CASE d # c
    <3>1. task'[<<d, 1>>] = task[<<d, 1>>]
      BY <1>6, <2>4, TaskShape
    <3> QED BY <2>1, <2>2, <3>1
  <2> QED BY <2>3, <2>4
<1> QED BY <1>1, <1>3, <1>6, <1>7, <1>8, ControlKept

\* The inner call begins in place of an idle one, and ends with the outer one going on.
LEMMA NestedSteps ==
  ASSUME RoutesInv, NEW t \in Tasks, AskBlock(t) \/ BlockAnswered(t)
  PROVE  RoutesInv'
<1> DEFINE i == Inner(t)
           c == t[1]
<1>1. /\ task \in [Tasks -> TaskType] /\ \A u \in Tasks : Steady(task[u])
      /\ request \in [Tasks -> RequestType \cup {None}] /\ cached \subseteq Hashes
      /\ None \notin Tasks /\ task[t] \in TaskType
  BY IdleTyped DEF RoutesInv, TypeOK
<1>2. i \in Tasks /\ c \in Callers /\ i = <<c, 2>>
  BY TaskShape DEF Inner
<1>3. task[i].op = "time" /\ (task[i].pc # "idle" => task[<<c, 1>>].pc = "nested")
  BY <1>2, Zenon DEF RoutesInv, InnerWithin
<1> DEFINE Two == /\ t = <<c, 1>> /\ t # i
                  /\ \E x \in TaskType, y \in TaskType :
                       /\ task' = [task EXCEPT ![i] = x, ![t] = y]
                       /\ Steady(x) /\ x.proxy = task[i].proxy /\ x.op = "time"
                       /\ Steady(y) /\ y.proxy = task[t].proxy
                       /\ x.pc # "idle" => y.pc = "nested"
                  /\ UNCHANGED <<scenario, keys, proxies, request, cached, aborted>>
<1>4. ASSUME Two PROVE RoutesInv'
  <2>1. PICK x \in TaskType, y \in TaskType :
          /\ task' = [task EXCEPT ![i] = x, ![t] = y]
          /\ Steady(x) /\ x.proxy = task[i].proxy /\ x.op = "time"
          /\ Steady(y) /\ y.proxy = task[t].proxy
          /\ x.pc # "idle" => y.pc = "nested"
    BY <1>4
  <2>2. task' \in [Tasks -> TaskType] /\ task'[i] = x /\ task'[t] = y
        /\ \A u \in Tasks : u # t /\ u # i => task'[u] = task[u]
    <3> HIDE DEF i
    <3> QED BY <1>1, <1>2, <1>4, <2>1
  <2>3. \A u \in Tasks : task'[u].proxy = task[u].proxy /\ Steady(task'[u])
    BY <1>1, <2>1, <2>2
  <2>4. InnerWithin'
    <3> SUFFICES ASSUME NEW d \in Callers
                 PROVE  /\ task'[<<d, 2>>].op = "time"
                        /\ task'[<<d, 2>>].pc # "idle" => task'[<<d, 1>>].pc = "nested"
      BY DEF InnerWithin
    <3>1. CASE d = c
      BY <1>2, <1>4, <2>1, <2>2, <3>1, Zenon
    <3>2. CASE d # c
      <4>1. task'[<<d, 1>>] = task[<<d, 1>>] /\ task'[<<d, 2>>] = task[<<d, 2>>]
        <5>1. /\ <<d, 1>> \in Tasks /\ <<d, 2>> \in Tasks
              /\ <<d, 1>> # <<c, 1>> /\ <<d, 2>> # <<c, 1>> /\ <<d, 1>> # <<c, 2>> /\ <<d, 2>> # <<c, 2>>
          BY <1>2, <3>2, TaskShape
        <5> QED BY <1>2, <1>4, <2>2, <5>1
      <4> QED BY <4>1 DEF RoutesInv, InnerWithin
    <3> QED BY <3>1, <3>2
  <2> HIDE DEF i
  <2> QED BY <1>1, <1>4, <2>2, <2>3, <2>4, ControlKept
<1>5. ASSUME AskBlock(t) PROVE Two
  <2> DEFINE x == [IdleTask EXCEPT !.pc = "choosing"]
             y == [task[t] EXCEPT !.pc = "nested"]
  <2>1. task[t].pc = "working" /\ task[t].waits = None /\ task[t].op = "holdings"
    BY <1>5 DEF AskBlock, Working, NeedsBlock
  <2>2. t = <<c, 1>> /\ t # i
    BY <1>2, <1>3, <2>1, TaskShape
  <2>3. task' = [task EXCEPT ![i] = x, ![t] = y]
    BY <1>1, <1>2, <1>5, <2>2 DEF AskBlock
  <2>4. task[i].pc = "idle"
    BY <1>3, <2>1, <2>2
  <2>5. task[i].proxy = None
    BY <1>1, <1>2, <2>4 DEF Steady, AtWork
  <2>6. x \in TaskType /\ Steady(x) /\ x.proxy = None /\ x.op = "time" /\ x.pc = "choosing"
    BY IdleTyped DEF IdleTask, TaskType, Steady, AtWork
  <2>7. y \in TaskType /\ Steady(y) /\ y.proxy = task[t].proxy /\ y.pc = "nested"
    BY <1>1, <2>1 DEF TaskType, Steady, AtWork
  <2>8. UNCHANGED <<scenario, keys, proxies, request, cached, aborted>>
    BY <1>5 DEF AskBlock
  <2> HIDE DEF i, x, y
  <2> QED BY <2>2, <2>3, <2>5, <2>6, <2>7, <2>8
<1>6. ASSUME BlockAnswered(t) PROVE Two
  <2> DEFINE result == task[i].result
             sound == result = Sound
             y == [task[t] EXCEPT !.block = sound,
                                  !.pc = IF sound THEN "working" ELSE "failed",
                                  !.last = IF sound THEN @ ELSE result]
  <2>1. task[t].pc = "nested" /\ task[i].pc = "done"
    BY <1>6 DEF BlockAnswered
  <2>2. t = <<c, 1>> /\ t # i
    <3>1. t # i
      BY <2>1
    <3> QED BY <1>2, <3>1, TaskShape
  <2>3. task' = [task EXCEPT ![i] = IdleTask, ![t] = y]
    BY <1>1, <1>2, <1>6, <2>2 DEF BlockAnswered
  <2>4. task[i].proxy = None
    BY <1>1, <1>2, <2>1 DEF Steady, AtWork
  <2>5. /\ IdleTask \in TaskType /\ Steady(IdleTask) /\ IdleTask.proxy = None /\ IdleTask.op = "time"
        /\ IdleTask.pc = "idle"
    BY IdleTyped DEF IdleTask, Steady, AtWork
  <2>6. result \in ErrorType /\ sound \in BOOLEAN
    BY <1>1, <1>2 DEF TaskType
  <2>7. y \in TaskType /\ Steady(y) /\ y.proxy = task[t].proxy
    <3> HIDE DEF result, sound
    <3>1. CASE sound
      BY <1>1, <2>1, <2>6, <3>1 DEF TaskType, Steady, AtWork
    <3>2. CASE ~sound
      BY <1>1, <2>1, <2>6, <3>2 DEF TaskType, Steady, AtWork
    <3> QED BY <3>1, <3>2
  <2>8. UNCHANGED <<scenario, keys, proxies, request, cached, aborted>>
    BY <1>6 DEF BlockAnswered
  <2> HIDE DEF i, y, result, sound
  <2> QED BY <2>2, <2>3, <2>4, <2>5, <2>7, <2>8
<1> HIDE DEF Two
<1> QED BY <1>4, <1>5, <1>6

\* Who waits goes on with the rest, or has failed, and keeps its proxy.
LEMMA ResumedSteady ==
  ASSUME NEW tk \in TaskType, Steady(tk), tk.waits # None, NEW error \in ErrorType
  PROVE  LET next == Resumed(tk, error)
         IN  /\ next \in TaskType /\ Steady(next) /\ next.proxy = tk.proxy /\ next.op = tk.op
             /\ next.pc \in {"working", "failed"}
<1>0. None \notin Tasks /\ tk.pc = "working" /\ tk.todo # <<>>
  BY IdleTyped DEF Steady
<1>1. CASE error = Sound
  <2>1. Tail(tk.todo) \in Seq(Hashes \cup {None})
    <3>1. tk.todo \in Seq(Hashes \cup {None})
      BY DEF TaskType
    <3> QED BY <1>0, <3>1
  <2>2. Resumed(tk, error) = [tk EXCEPT !.waits = None, !.todo = Tail(@)]
    BY <1>1, Zenon DEF Resumed
  <2> QED BY <1>0, <2>1, <2>2 DEF TaskType, Steady, AtWork
<1>2. CASE error # Sound
  <2>1. Resumed(tk, error) = [tk EXCEPT !.waits = None, !.pc = "failed", !.last = error]
    BY <1>2, Zenon DEF Resumed
  <2> QED BY <1>0, <2>1 DEF TaskType, Steady, AtWork
<1> QED BY <1>1, <1>2

\* An answer changes who waited for it, and only what they do next.
LEMMA AnswerStep ==
  ASSUME RoutesInv, NEW o \in Tasks, Answer(o)
  PROVE  RoutesInv'
<1>1. /\ task \in [Tasks -> TaskType] /\ \A u \in Tasks : task[u] \in TaskType /\ Steady(task[u])
      /\ request \in [Tasks -> RequestType \cup {None}] /\ cached \subseteq Hashes
      /\ None \notin Tasks /\ request[o] # None
  BY IdleTyped DEF RoutesInv, TypeOK, Answer
<1> DEFINE error(a) == Classify(request[o].provider, a, request[o].proxy # None, o[1] \in aborted, Standard(o))
<1>2. PICK a \in Answers(o) :
        /\ task' = [t \in Tasks |-> IF task[t].waits = o THEN Resumed(task[t], error(a)) ELSE task[t]]
        /\ cached' = IF error(a) = Sound /\ request[o].hash # None THEN cached \cup {request[o].hash} ELSE cached
  BY Zenon DEF Answer
<1>3. request[o] \in RequestType /\ error(a) \in ErrorType
  BY <1>1, AnswerTyped DEF RoutesInv
<1> HIDE DEF error
<1>4. ASSUME NEW u \in Tasks
      PROVE  /\ task'[u] \in TaskType /\ Steady(task'[u])
             /\ task'[u].proxy = task[u].proxy /\ task'[u].op = task[u].op
             /\ task'[u] = task[u] \/ (task[u].pc = "working" /\ task'[u].pc \in {"working", "failed"})
  <2>1. CASE task[u].waits = o
    <3>1. task'[u] = Resumed(task[u], error(a)) /\ task[u].waits # None
      BY <1>1, <1>2, <2>1
    <3>2. task[u].pc = "working"
      BY <1>1, <3>1 DEF Steady
    <3> QED BY <1>1, <1>3, <3>1, <3>2, ResumedSteady
  <2>2. CASE task[u].waits # o
    <3>1. task'[u] = task[u]
      BY <1>2, <2>2
    <3> QED BY <1>1, <3>1
  <2> QED BY <2>1, <2>2
<1>5. task' \in [Tasks -> TaskType]
  BY <1>2, <1>4
<1>6. cached' \subseteq Hashes
  <2>1. request[o].hash \in Hashes \cup {None}
    BY <1>3 DEF RequestType
  <2> QED BY <1>1, <1>2, <2>1
<1>7. InnerWithin'
  <2> SUFFICES ASSUME NEW c \in Callers
               PROVE  /\ task'[<<c, 2>>].op = "time"
                      /\ task'[<<c, 2>>].pc # "idle" => task'[<<c, 1>>].pc = "nested"
    BY DEF InnerWithin
  <2>1. <<c, 1>> \in Tasks /\ <<c, 2>> \in Tasks
    BY TaskShape
  <2>2. /\ task[<<c, 2>>].op = "time"
        /\ task[<<c, 2>>].pc # "idle" => task[<<c, 1>>].pc = "nested"
    BY DEF RoutesInv, InnerWithin
  <2>3. task'[<<c, 2>>].op = "time" /\ (task'[<<c, 2>>].pc # "idle" => task[<<c, 2>>].pc # "idle")
    BY <1>4, <2>1, <2>2
  <2>4. task[<<c, 1>>].pc = "nested" => task'[<<c, 1>>].pc = "nested"
    BY <1>4, <2>1
  <2> QED BY <2>2, <2>3, <2>4
<1>8. request' \in [Tasks -> RequestType \cup {None}]
  BY <1>1 DEF Answer
<1>9. UNCHANGED <<scenario, keys, proxies, aborted>>
  BY DEF Answer
<1> QED BY <1>4, <1>5, <1>6, <1>7, <1>8, <1>9, ControlKept

\* The clock changes a key, a proxy nobody holds or the cache, and a caller its own signal.
LEMMA OutsideSteps ==
  ASSUME RoutesInv,
         \/ \E c \in Callers : Abort(c)
         \/ \E k \in Keys : KeyCooledDown(k)
         \/ \E p \in Proxies : ProxyRested(p)
         \/ \E h \in Hashes : CacheExpires(h)
         \/ UNCHANGED vars
  PROVE  RoutesInv'
<1> USE DEF RoutesInv, TypeOK
<1>1. UNCHANGED <<scenario, task, request>>
  BY DEF Abort, KeyCooledDown, ProxyRested, CacheExpires, vars
<1>2. /\ keys' \in [Keys -> {"usable", "cooling", "disabled"}]
      /\ proxies' \in [Proxies -> {"free", "leased", "cooling"}]
      /\ cached' \subseteq Hashes /\ aborted' \subseteq Callers
      /\ \A p \in Proxies : proxies'[p] = "leased" <=> proxies[p] = "leased"
  BY DEF Abort, KeyCooledDown, ProxyRested, CacheExpires, vars
<1>3. \A t \in Tasks : Steady(task[t])'
  BY <1>1 DEF Steady
<1>4. InnerWithin' /\ OneHolder' /\ LeasedIsHeld'
  BY <1>1, <1>2 DEF InnerWithin, OneHolder, LeasedIsHeld
<1> QED BY <1>1, <1>2, <1>3, <1>4

\* The invariant holds when nothing has begun.
LEMMA RoutesInit == Init => RoutesInv
<1> SUFFICES ASSUME Init PROVE RoutesInv
  OBVIOUS
<1>1. task = [t \in Tasks |-> IdleTask] /\ \A t \in Tasks : task[t] = IdleTask
  BY DEF Init
<1>2. IdleTask \in TaskType /\ IdleTask.proxy = None /\ IdleTask.waits = None /\ IdleTask.pc = "idle" /\ IdleTask.op = "time"
  BY IdleTyped DEF IdleTask
<1>3. TypeOK
  BY <1>1, <1>2 DEF Init, TypeOK
<1>4. \A t \in Tasks : Steady(task[t])
  BY <1>1, <1>2 DEF Steady, AtWork
<1>5. InnerWithin
  BY <1>1, <1>2, TaskShape DEF InnerWithin
<1>6. OneHolder /\ LeasedIsHeld
  BY <1>1, <1>2, IdleTyped DEF OneHolder, LeasedIsHeld, Init
<1> QED BY <1>3, <1>4, <1>5, <1>6 DEF RoutesInv

\* Every step keeps it.
LEMMA RoutesStep == RoutesInv /\ [Next]_vars => RoutesInv'
<1> SUFFICES ASSUME RoutesInv, [Next]_vars PROVE RoutesInv'
  OBVIOUS
<1>1. ASSUME NEW t \in Tasks, Proceed(t) PROVE RoutesInv'
  <2>1. CASE \/ PassOver(t) \/ GiveUp(t) \/ NoRoute(t)
             \/ \E h \in Hashes \cup {None} : Ask(t, h) \/ UseCache(t, h) \/ JoinFlight(t, h)
    BY <2>1, QuietSteps
  <2>2. CASE TakeCandidate(t)
    BY <2>2, TakeStep
  <2>3. CASE AskBlock(t) \/ BlockAnswered(t)
    BY <2>3, NestedSteps
  <2>4. CASE Answer(t)
    BY <2>4, AnswerStep
  <2>5. CASE Succeed(t) \/ Fail(t)
    BY <2>5, EndStep
  <2> QED BY <1>1, <2>1, <2>2, <2>3, <2>4, <2>5 DEF Proceed
<1>2. ASSUME NEW c \in Callers, Begin(c) PROVE RoutesInv'
  BY <1>2, BeginStep
<1> QED BY <1>1, <1>2, OutsideSteps DEF Next

\* The invariant holds of every state.
LEMMA RoutesInvariant == Spec => []RoutesInv
<1>1. RoutesInv /\ UNCHANGED vars => RoutesInv'
  BY RoutesStep
<1> QED BY RoutesInit, RoutesStep, PTL DEF Spec

\* Type correctness of the service: the tasks, requests and pools keep their shapes,
\* whatever the answers are (ApiChainService, and the classifiers of the adapters).
THEOREM ServiceTypeCorrect == Spec => []TypeOK
<1>1. RoutesInv => TypeOK
  BY DEF RoutesInv
<1> QED BY <1>1, RoutesInvariant, PTL

\* A proxy is held only by a call at work, and by one: whichever way a try ends,
\* shared, nested, aborted or repeated directly, its proxy comes back
\* (acquireProxy and reportProxy).
THEOREM ProxiesReturn == Spec => []ProxiesComeBack
<1>1. RoutesInv => ProxiesComeBack
  <2> SUFFICES ASSUME RoutesInv, NEW p \in Proxies
               PROVE  proxies[p] = "leased" <=>
                        Cardinality({t \in Tasks : task[t].pc \in {"working", "nested", "failed"} /\ task[t].proxy = p}) = 1
    BY DEF ProxiesComeBack
  <2> DEFINE holders == {t \in Tasks : task[t].pc \in {"working", "nested", "failed"} /\ task[t].proxy = p}
  <2>1. p # None
    BY IdleTyped
  <2>2. \A t \in Tasks : task[t].proxy = p => t \in holders
    BY <2>1 DEF RoutesInv, Steady, AtWork
  <2>3. CASE proxies[p] = "leased"
    <3>1. PICK t \in Tasks : task[t].proxy = p
      BY <2>3 DEF RoutesInv, LeasedIsHeld
    <3>2. holders = {t}
      BY <2>1, <2>2, <3>1 DEF RoutesInv, OneHolder
    <3> QED BY <2>3, <3>2, FS_Singleton
  <2>4. CASE proxies[p] # "leased"
    <3>1. holders = {}
      BY <2>4 DEF RoutesInv, LeasedIsHeld
    <3> QED BY <2>4, <3>1, FS_EmptySet
  <2> QED BY <2>3, <2>4
<1> QED BY <1>1, RoutesInvariant, PTL

-----------------------------------------------------------------------------
(* Blame, of calls that share nothing *)

\* The hashes a call asks for.
Asked(c) == {scenario.calls[c].hashes[i] : i \in 1..Len(scenario.calls[c].hashes)}

\* Without calls for one hash and without inner calls, a task waits for its own request only, ...
KeepsToItself(t) ==
  /\ task[t].pc # "nested"
  /\ task[t].pc # "idle" => /\ t = <<t[1], 1>> /\ scenario.calls[t[1]] # None
                            /\ task[t].op # "holdings" /\ task[t].hashes = scenario.calls[t[1]].hashes
  /\ \A i \in 1..Len(task[t].todo) : task[t].todo[i] = None \/ task[t].todo[i] \in Asked(t[1])
  /\ task[t].waits \in {None, t}
  /\ task[t].direct => task[t].proxy = None

\* ... which it makes with its key and by its route, ...
RequestsAsItself(t) ==
  request[t] # None =>
    /\ task[t].waits = t
    /\ request[t].key = Key(t) /\ request[t].provider = Provider(t)
    /\ ~task[t].direct => request[t].proxy = task[t].proxy
    /\ request[t].hash = None \/ request[t].hash \in Asked(t[1])

\* ... and an error it has not reported yet blames what an answer has spoken of.
FailedFairly(t) ==
  task[t].pc = "failed" =>
    /\ ~task[t].direct =>
         /\ task[t].last.code = "AUTHENTICATION_FAILED" => <<Key(t), "disabled">> \in refused
         /\ task[t].last.code = "RATE_LIMITED" => <<Key(t), "cooling">> \in refused
    /\ task[t].last.code \in ConnectivityCodes /\ task[t].proxy # None => task[t].proxy \in blocked

Own(t) == KeepsToItself(t) /\ RequestsAsItself(t) /\ FailedFairly(t)

BlameInv == ~Entangled => /\ \A t \in Tasks : Own(t)
                          /\ ProxyBlamedFairly /\ KeyBlamedFairly

\* What a step leaves of a task alone stays its own.
LEMMA OwnKept ==
  ASSUME NEW u \in Tasks, Own(u), task'[u] = task[u], request'[u] = request[u], scenario' = scenario,
         refused \subseteq refused', blocked \subseteq blocked'
  PROVE  Own(u)'
<1>1. Key(u)' = Key(u) /\ Provider(u)' = Provider(u) /\ Asked(u[1])' = Asked(u[1])
  BY DEF Key, Provider, Asked
<1>2. KeepsToItself(u)'
  BY <1>1 DEF Own, KeepsToItself
<1>3. RequestsAsItself(u)'
  BY <1>1 DEF Own, RequestsAsItself
<1>4. FailedFairly(u)'
  BY <1>1 DEF Own, FailedFairly
<1> QED BY <1>2, <1>3, <1>4 DEF Own

\* A task that has no request, neither waits nor has failed, is its own.
LEMMA OwnWithoutRequest ==
  ASSUME NEW t \in Tasks, t = <<t[1], 1>>, scenario' = scenario, request'[t] = None,
         scenario.calls[t[1]] # None, task'[t].op # "holdings",
         task'[t].hashes = scenario.calls[t[1]].hashes,
         task'[t].pc \in {"choosing", "working", "done"}, task'[t].waits = None,
         task'[t].direct => task'[t].proxy = None,
         \A i \in 1..Len(task'[t].todo) : task'[t].todo[i] = None \/ task'[t].todo[i] \in Asked(t[1])
  PROVE  Own(t)'
<1>1. Asked(t[1])' = Asked(t[1])
  BY DEF Asked
<1>2. KeepsToItself(t)'
  BY <1>1 DEF KeepsToItself
<1>3. RequestsAsItself(t)' /\ FailedFairly(t)'
  BY DEF RequestsAsItself, FailedFairly
<1> QED BY <1>2, <1>3 DEF Own

\* What a task is to do, and what is left of it, is what its call asks for.
LEMMA TodoAsked ==
  ASSUME RoutesInv, NEW t \in Tasks, task[t].hashes = scenario.calls[t[1]].hashes
  PROVE  \A i \in 1..Len(Todo(t)) : Todo(t)[i] = None \/ Todo(t)[i] \in Asked(t[1])
<1>1. CASE task[t].op = "contexts"
  <2>1. Todo(t) = scenario.calls[t[1]].hashes
    BY <1>1 DEF Todo
  <2> QED BY <2>1 DEF Asked
<1>2. CASE task[t].op # "contexts"
  <2>1. Todo(t) = <<None>>
    BY <1>2 DEF Todo
  <2> QED BY <2>1
<1> QED BY <1>1, <1>2

\* What is left after the first.
LEMMA RestAsked ==
  ASSUME RoutesInv, NEW t \in Tasks, KeepsToItself(t), task[t].todo # <<>>
  PROVE  /\ \A i \in 1..Len(Tail(task[t].todo)) :
              Tail(task[t].todo)[i] = None \/ Tail(task[t].todo)[i] \in Asked(t[1])
         /\ task[t].todo[1] = None \/ task[t].todo[1] \in Asked(t[1])
<1> DEFINE todo == task[t].todo
<1>1. todo \in Seq(Hashes \cup {None})
  BY DEF RoutesInv, TypeOK, TaskType
<1>2. \A i \in 1..Len(todo) : todo[i] = None \/ todo[i] \in Asked(t[1])
  BY DEF KeepsToItself
<1> HIDE DEF todo
<1>3. todo # <<>> => /\ 1 \in 1..Len(todo) /\ Len(Tail(todo)) = Len(todo) - 1
                     /\ \A i \in 1..Len(Tail(todo)) : i + 1 \in 1..Len(todo) /\ Tail(todo)[i] = todo[i + 1]
  BY <1>1
<1>4. todo # <<>> => /\ \A i \in 1..Len(Tail(todo)) : Tail(todo)[i] = None \/ Tail(todo)[i] \in Asked(t[1])
                     /\ todo[1] = None \/ todo[1] \in Asked(t[1])
  BY <1>2, <1>3
<1> QED BY <1>4 DEF todo

\* The scenario, and so what is asked, stays as it is.
LEMMA EntangledKept == ASSUME scenario' = scenario PROVE Entangled' = Entangled
BY DEF Entangled

\* No other task has a request for a hash that a task asks for.
LEMMA NothingToJoin ==
  ASSUME RoutesInv, BlameInv, ~Entangled, NEW t \in Tasks, NEW h \in Hashes \cup {None}
  PROVE  ~JoinFlight(t, h)
<1> SUFFICES ASSUME JoinFlight(t, h) PROVE FALSE
  OBVIOUS
<1>1. h # None /\ task[t].pc = "working" /\ task[t].waits = None /\ task[t].todo # <<>> /\ h = task[t].todo[1]
  BY DEF JoinFlight, Asks, Working
<1>2. PICK o \in Tasks : request[o] # None /\ request[o].hash = h
  BY DEF JoinFlight, Flight
<1>3. Own(o) /\ Own(t)
  BY DEF BlameInv
<1>4. h \in Asked(t[1]) /\ t = <<t[1], 1>> /\ scenario.calls[t[1]] # None
  BY <1>1, <1>3, RestAsked DEF Own, KeepsToItself
<1>5. task[o].waits = o /\ h \in Asked(o[1])
  BY <1>1, <1>2, <1>3 DEF Own, RequestsAsItself
<1>6. task[o].pc = "working"
  BY <1>5, IdleTyped DEF RoutesInv, Steady
<1>7. o = <<o[1], 1>> /\ scenario.calls[o[1]] # None
  BY <1>3, <1>6 DEF Own, KeepsToItself
<1>8. t[1] = o[1]
  <2>1. t[1] \in Callers /\ o[1] \in Callers
    BY TaskShape
  <2> QED BY <1>4, <1>5, <1>7, <2>1 DEF Entangled, Asked
<1>9. o = t
  BY <1>4, <1>7, <1>8
<1> QED BY <1>1, <1>5, <1>9, IdleTyped

\* A step of one task, by which nobody is blamed, or fairly.
LEMMA BlameKept ==
  ASSUME BlameInv, ~Entangled, NEW t \in Tasks, Own(t)', scenario' = scenario,
         \A u \in Tasks : u # t => task'[u] = task[u] /\ request'[u] = request[u],
         refused \subseteq refused', blocked \subseteq blocked',
         \A p \in Proxies : proxies'[p] = "cooling" => proxies[p] = "cooling" \/ p \in blocked',
         \A k \in Keys : keys'[k] # "usable" => keys'[k] = keys[k] \/ <<k, keys'[k]>> \in refused'
  PROVE  BlameInv'
<1>1. \A u \in Tasks : Own(u)'
  <2> SUFFICES ASSUME NEW u \in Tasks PROVE Own(u)'
    OBVIOUS
  <2>1. CASE u = t
    BY <2>1
  <2>2. CASE u # t
    BY <2>2, OwnKept DEF BlameInv
  <2> QED BY <2>1, <2>2
<1>2. ProxyBlamedFairly' /\ KeyBlamedFairly'
  BY DEF BlameInv, ProxyBlamedFairly, KeyBlamedFairly
<1> QED BY <1>1, <1>2 DEF BlameInv

\* The steps of a task that reports nothing, and asks for nothing.
LEMMA QuietBlame ==
  ASSUME RoutesInv, BlameInv, ~Entangled, NEW t \in Tasks,
         \/ PassOver(t) \/ GiveUp(t) \/ NoRoute(t) \/ TakeCandidate(t)
         \/ \E h \in Hashes \cup {None} : UseCache(t, h)
  PROVE  BlameInv'
<1> DEFINE tk == task'[t]
<1>1. /\ task[t] \in TaskType /\ Steady(task[t]) /\ task \in [Tasks -> TaskType]
      /\ Own(t) /\ None \notin Tasks
  BY IdleTyped DEF RoutesInv, TypeOK, BlameInv
<1> DEFINE Free == /\ task[t].pc # "idle" /\ task[t].waits = None
                   /\ \A u \in Tasks : u # t => task'[u] = task[u]
                   /\ tk.op = task[t].op /\ tk.hashes = task[t].hashes
                   /\ tk.pc \in {"choosing", "working", "done"} /\ tk.waits = None
                   /\ tk.direct => tk.proxy = None
                   /\ \A i \in 1..Len(tk.todo) : tk.todo[i] = None \/ tk.todo[i] \in Asked(t[1])
                   /\ UNCHANGED <<scenario, request, keys, refused, blocked>>
                   /\ \A p \in Proxies : proxies'[p] = "cooling" => proxies[p] = "cooling"
<1>2. ASSUME Free PROVE BlameInv'
  <2> HIDE DEF tk
  <2>1. request[t] = None
    BY <1>1, <1>2 DEF Own, RequestsAsItself
  <2>2. Own(t)'
    BY <1>1, <1>2, <2>1, OwnWithoutRequest DEF Own, KeepsToItself, tk
  <2> QED BY <1>2, <2>2, BlameKept
<1>3. \A i \in 1..Len(task[t].todo) : task[t].todo[i] = None \/ task[t].todo[i] \in Asked(t[1])
  BY <1>1 DEF Own, KeepsToItself
<1>4. task[t].pc # "idle" => task[t].hashes = scenario.calls[t[1]].hashes
  BY <1>1 DEF Own, KeepsToItself
<1>5. task[t].direct => task[t].proxy = None
  BY <1>1 DEF Own, KeepsToItself
<1>6. task[t].pc = "choosing" => task[t].waits = None
  BY <1>1 DEF Steady
<1>7. ASSUME PassOver(t) PROVE Free
  <2>1. tk = [task[t] EXCEPT !.at = @ + 1] /\ task[t].pc = "choosing"
    BY <1>1, <1>7 DEF PassOver
  <2>2. /\ tk.op = task[t].op /\ tk.hashes = task[t].hashes /\ tk.todo = task[t].todo /\ tk.waits = task[t].waits
        /\ tk.pc = "choosing" /\ tk.direct = task[t].direct /\ tk.proxy = task[t].proxy
    BY <1>1, <2>1 DEF TaskType
  <2> QED BY <1>1, <1>3, <1>5, <1>6, <1>7, <2>1, <2>2 DEF PassOver
<1>8. ASSUME GiveUp(t) PROVE Free
  <2>1. tk = [task[t] EXCEPT !.pc = "done", !.result = Unavailable(task[t].last)] /\ task[t].pc = "choosing"
    BY <1>1, <1>8 DEF GiveUp
  <2>2. /\ tk.op = task[t].op /\ tk.hashes = task[t].hashes /\ tk.todo = task[t].todo /\ tk.waits = task[t].waits
        /\ tk.pc = "done" /\ tk.direct = task[t].direct /\ tk.proxy = task[t].proxy
    BY <1>1, <2>1 DEF TaskType
  <2> QED BY <1>1, <1>3, <1>5, <1>6, <1>8, <2>1, <2>2 DEF GiveUp
<1>9. ASSUME NoRoute(t) PROVE Free
  <2>1. tk = Passed(task[t], Error("PROXY_ERROR", TRUE)) /\ task[t].pc = "choosing"
    BY <1>1, <1>9 DEF NoRoute, Ready
  <2>2. /\ tk.op = task[t].op /\ tk.hashes = task[t].hashes /\ tk.todo = task[t].todo /\ tk.waits = task[t].waits
        /\ tk.pc \in {"choosing", "done"} /\ tk.direct = task[t].direct /\ tk.proxy = task[t].proxy
    BY <1>1, <2>1 DEF TaskType, Passed
  <2> QED BY <1>1, <1>3, <1>5, <1>6, <1>9, <2>1, <2>2 DEF NoRoute
<1>10. ASSUME TakeCandidate(t) PROVE Free
  <2>1. PICK p \in {q \in Proxies : proxies[q] = "free"} \cup {None} :
          /\ proxies' = [q \in Proxies |-> IF q = p THEN "leased" ELSE proxies[q]]
          /\ task' = [task EXCEPT ![t].pc = "working", ![t].proxy = p, ![t].direct = FALSE, ![t].todo = Todo(t)]
    BY <1>10 DEF TakeCandidate
  <2>2. task[t].pc = "choosing"
    BY <1>10 DEF TakeCandidate, Ready
  <2>3. /\ tk.op = task[t].op /\ tk.hashes = task[t].hashes /\ tk.todo = Todo(t) /\ tk.waits = task[t].waits
        /\ tk.pc = "working" /\ tk.direct = FALSE
    BY <1>1, <2>1 DEF TaskType
  <2>4. \A i \in 1..Len(tk.todo) : tk.todo[i] = None \/ tk.todo[i] \in Asked(t[1])
    <3> HIDE DEF tk
    <3> QED BY <1>4, <2>2, <2>3, TodoAsked
  <2>5. \A u \in Tasks : u # t => task'[u] = task[u]
    BY <1>1, <2>1
  <2>6. \A q \in Proxies : proxies'[q] = "cooling" => proxies[q] = "cooling"
    BY <2>1
  <2> QED BY <1>6, <1>10, <2>2, <2>3, <2>4, <2>5, <2>6 DEF TakeCandidate
<1>11. ASSUME NEW h \in Hashes \cup {None}, UseCache(t, h) PROVE Free
  <2>1. /\ tk = [task[t] EXCEPT !.todo = Tail(@)] /\ task[t].pc = "working" /\ task[t].waits = None
        /\ task[t].todo # <<>>
    BY <1>1, <1>11 DEF UseCache, Asks, Working
  <2>2. /\ tk.op = task[t].op /\ tk.hashes = task[t].hashes /\ tk.todo = Tail(task[t].todo)
        /\ tk.waits = task[t].waits
        /\ tk.pc = "working" /\ tk.direct = task[t].direct /\ tk.proxy = task[t].proxy
    BY <1>1, <2>1 DEF TaskType
  <2>3. \A i \in 1..Len(tk.todo) : tk.todo[i] = None \/ tk.todo[i] \in Asked(t[1])
    <3> HIDE DEF tk
    <3> QED BY <1>1, <2>1, <2>2, RestAsked DEF Own
  <2>4. \A u \in Tasks : u # t => task'[u] = task[u]
    BY <1>1, <1>11 DEF UseCache
  <2> QED BY <1>5, <1>11, <2>1, <2>2, <2>3, <2>4 DEF UseCache
<1> HIDE DEF Free
<1> QED BY <1>2, <1>7, <1>8, <1>9, <1>10, <1>11

\* A request is made with the key and by the route of the task.
LEMMA AskBlame ==
  ASSUME RoutesInv, BlameInv, ~Entangled, NEW t \in Tasks, NEW h \in Hashes \cup {None}, Ask(t, h)
  PROVE  BlameInv'
<1> DEFINE tk == task'[t]
           r == [key |-> Key(t), provider |-> Provider(t), hash |-> h,
                 proxy |-> IF task[t].direct THEN None ELSE task[t].proxy]
<1>1. /\ task[t] \in TaskType /\ task \in [Tasks -> TaskType] /\ Own(t) /\ None \notin Tasks
      /\ request \in [Tasks -> RequestType \cup {None}]
  BY IdleTyped DEF RoutesInv, TypeOK, BlameInv
<1>2. /\ tk = [task[t] EXCEPT !.waits = t] /\ task[t].pc = "working" /\ task[t].waits = None
      /\ task[t].todo # <<>> /\ h = task[t].todo[1]
      /\ task' = [task EXCEPT ![t].waits = t] /\ request' = [request EXCEPT ![t] = r]
      /\ UNCHANGED <<scenario, keys, proxies, cached, aborted, refused, blocked>>
  BY <1>1 DEF Ask, Asks, Working
<1>3. \A u \in Tasks : u # t => task'[u] = task[u] /\ request'[u] = request[u]
  <2> HIDE DEF r
  <2> QED BY <1>1, <1>2
<1>4. /\ tk.op = task[t].op /\ tk.hashes = task[t].hashes /\ tk.todo = task[t].todo /\ tk.waits = t
      /\ tk.pc = "working" /\ tk.direct = task[t].direct /\ tk.proxy = task[t].proxy /\ tk.at = task[t].at
  BY <1>1, <1>2 DEF TaskType
<1>5. h = None \/ h \in Asked(t[1])
  BY <1>1, <1>2, RestAsked DEF Own
<1>6. Key(t)' = Key(t) /\ Provider(t)' = Provider(t) /\ Asked(t[1])' = Asked(t[1])
  BY <1>2, <1>4 DEF Key, Provider, Asked
<1>7. KeepsToItself(t)'
  <2> HIDE DEF tk
  <2>1. KeepsToItself(t)
    BY <1>1 DEF Own
  <2> QED BY <1>2, <1>4, <1>6, <2>1 DEF KeepsToItself, tk
<1>8. RequestsAsItself(t)'
  <2>1. request'[t] = r
    BY <1>1, <1>2
  <2>2. r.key = Key(t) /\ r.provider = Provider(t) /\ r.hash = h /\ (~task[t].direct => r.proxy = task[t].proxy)
    OBVIOUS
  <2> HIDE DEF r
  <2> QED BY <1>4, <1>5, <1>6, <2>1, <2>2 DEF RequestsAsItself
<1>9. FailedFairly(t)'
  BY <1>4 DEF FailedFairly
<1>10. Own(t)'
  BY <1>7, <1>8, <1>9 DEF Own
<1> QED BY <1>2, <1>3, <1>10, BlameKept

\* An answer blames what it speaks of: the key and the route of who made the request.
LEMMA AnswerBlame ==
  ASSUME RoutesInv, BlameInv, ~Entangled, NEW o \in Tasks, Answer(o)
  PROVE  BlameInv'
<1> DEFINE tk == task'[o]
           r == request[o]
           error(a) == Classify(r.provider, a, r.proxy # None, o[1] \in aborted, Standard(o))
<1>1. /\ \A u \in Tasks : task[u] \in TaskType /\ Steady(task[u]) /\ Own(u)
      /\ task \in [Tasks -> TaskType] /\ request \in [Tasks -> RequestType \cup {None}]
      /\ None \notin Tasks /\ r # None
  BY IdleTyped DEF RoutesInv, TypeOK, BlameInv, Answer
<1>2. PICK a \in Answers(o) :
        /\ task' = [t \in Tasks |-> IF task[t].waits = o THEN Resumed(task[t], error(a)) ELSE task[t]]
        /\ refused' = refused \cup (IF SpeaksOfKey(r, a) THEN {<<r.key, "disabled">>} ELSE {})
                              \cup (IF SpeaksOfLimit(r, a) THEN {<<r.key, "cooling">>} ELSE {})
        /\ blocked' = IF SpeaksOfRoute(r, a) THEN blocked \cup {r.proxy} ELSE blocked
  BY Zenon DEF Answer
<1>3. request' = [request EXCEPT ![o] = None] /\ UNCHANGED <<scenario, keys, proxies, aborted>>
  BY DEF Answer
<1>4. /\ a \in AnswerType \cup {Failure("ERR_CANCELED", 0, {})} /\ r \in RequestType /\ error(a) \in ErrorType
  BY <1>1, AnswerTyped DEF RoutesInv
<1>5. Blames(error(a), SpeaksOfKey(r, a), SpeaksOfLimit(r, a), SpeaksOfRoute(r, a))
  <2>1. r.provider \in Providers
    BY <1>4 DEF RequestType
  <2> HIDE DEF r
  <2> QED BY <1>4, <2>1, ClassifyBlames, Zenon
<1> HIDE DEF error
<1>6. /\ task[o].waits = o /\ r.key = Key(o) /\ (~task[o].direct => r.proxy = task[o].proxy)
  BY <1>1 DEF Own, RequestsAsItself
<1>7. /\ task[o].pc = "working" /\ task[o].todo # <<>>
      /\ o = <<o[1], 1>> /\ scenario.calls[o[1]] # None /\ task[o].op # "holdings"
      /\ task[o].hashes = scenario.calls[o[1]].hashes /\ (task[o].direct => task[o].proxy = None)
  BY <1>1, <1>6 DEF Steady, Own, KeepsToItself
<1>8. \A u \in Tasks : u # o => task'[u] = task[u] /\ request'[u] = request[u]
  <2> SUFFICES ASSUME NEW u \in Tasks, u # o PROVE task'[u] = task[u] /\ request'[u] = request[u]
    OBVIOUS
  <2>1. task[u].waits # o
    BY <1>1 DEF Own, KeepsToItself
  <2> QED BY <1>1, <1>2, <1>3, <2>1
<1>9. tk = Resumed(task[o], error(a)) /\ request'[o] = None
  BY <1>1, <1>2, <1>3, <1>6
<1>10. refused \subseteq refused' /\ blocked \subseteq blocked'
       /\ (SpeaksOfKey(r, a) => <<r.key, "disabled">> \in refused')
       /\ (SpeaksOfLimit(r, a) => <<r.key, "cooling">> \in refused')
       /\ (SpeaksOfRoute(r, a) => r.proxy \in blocked')
  <2> HIDE DEF r
  <2> QED BY <1>2
<1>11. Own(o)'
  <2>1. CASE error(a) = Sound
    <3>1. tk = [task[o] EXCEPT !.waits = None, !.todo = Tail(@)]
      BY <1>9, <2>1, Zenon DEF Resumed
    <3>2. /\ tk.op = task[o].op /\ tk.hashes = task[o].hashes /\ tk.todo = Tail(task[o].todo) /\ tk.waits = None
          /\ tk.pc = "working" /\ tk.direct = task[o].direct /\ tk.proxy = task[o].proxy
      BY <1>1, <1>7, <3>1 DEF TaskType
    <3>3. \A i \in 1..Len(tk.todo) : tk.todo[i] = None \/ tk.todo[i] \in Asked(o[1])
      <4> HIDE DEF tk
      <4> QED BY <1>1, <1>7, <3>2, RestAsked DEF Own
    <3> HIDE DEF tk
    <3> QED BY <1>3, <1>7, <1>9, <3>2, <3>3, OwnWithoutRequest DEF tk
  <2>2. CASE error(a) # Sound
    <3>1. tk = [task[o] EXCEPT !.waits = None, !.pc = "failed", !.last = error(a)]
      BY <1>9, <2>2, Zenon DEF Resumed
    <3>2. /\ tk.op = task[o].op /\ tk.hashes = task[o].hashes /\ tk.todo = task[o].todo /\ tk.waits = None
          /\ tk.pc = "failed" /\ tk.direct = task[o].direct /\ tk.proxy = task[o].proxy
          /\ tk.last = error(a) /\ tk.at = task[o].at
      BY <1>1, <3>1 DEF TaskType
    <3>3. Key(o)' = Key(o) /\ Asked(o[1])' = Asked(o[1])
      BY <1>3, <3>2 DEF Key, Asked
    <3>4. KeepsToItself(o)'
      <4> HIDE DEF tk
      <4>1. KeepsToItself(o)
        BY <1>1 DEF Own
      <4> QED BY <1>3, <1>7, <3>2, <3>3, <4>1 DEF KeepsToItself, tk
    <3>5. RequestsAsItself(o)'
      BY <1>9 DEF RequestsAsItself
    <3>6. FailedFairly(o)'
      <4> HIDE DEF tk, r
      <4>1. /\ ~tk.direct => /\ tk.last.code = "AUTHENTICATION_FAILED" => <<Key(o), "disabled">> \in refused'
                             /\ tk.last.code = "RATE_LIMITED" => <<Key(o), "cooling">> \in refused'
            /\ tk.last.code \in ConnectivityCodes /\ tk.proxy # None => tk.proxy \in blocked'
        BY <1>5, <1>6, <1>7, <1>10, <3>2 DEF Blames
      <4> QED BY <3>3, <4>1 DEF FailedFairly, tk
    <3> QED BY <3>4, <3>5, <3>6 DEF Own
  <2> QED BY <2>1, <2>2
<1> QED BY <1>3, <1>8, <1>10, <1>11, BlameKept

\* A try that ends reports what its last answer has spoken of, and nothing else.
LEMMA EndBlame ==
  ASSUME RoutesInv, BlameInv, ~Entangled, NEW t \in Tasks, Succeed(t) \/ Fail(t)
  PROVE  BlameInv'
<1> DEFINE tk == task'[t]
           error == task[t].last
<1>1. /\ task[t] \in TaskType /\ Steady(task[t]) /\ task \in [Tasks -> TaskType] /\ Own(t) /\ None \notin Tasks
      /\ error \in ErrorType
      /\ keys \in [Keys -> {"usable", "cooling", "disabled"}]
  BY IdleTyped DEF RoutesInv, TypeOK, BlameInv, TaskType
<1> DEFINE Ended == /\ task[t].pc # "idle" /\ task[t].waits = None
                    /\ \A u \in Tasks : u # t => task'[u] = task[u]
                    /\ tk.op = task[t].op /\ tk.hashes = task[t].hashes
                    /\ tk.pc \in {"choosing", "working", "done"} /\ tk.waits = None /\ tk.proxy = None
                    /\ \A i \in 1..Len(tk.todo) : tk.todo[i] = None \/ tk.todo[i] \in Asked(t[1])
                    /\ UNCHANGED <<scenario, request, refused, blocked>>
                    /\ \A p \in Proxies : proxies'[p] = "cooling" => proxies[p] = "cooling" \/ p \in blocked
                    /\ \A k \in Keys : keys'[k] # "usable" => keys'[k] = keys[k] \/ <<k, keys'[k]>> \in refused
<1>2. ASSUME Ended PROVE BlameInv'
  <2> HIDE DEF tk
  <2>1. request[t] = None
    BY <1>1, <1>2 DEF Own, RequestsAsItself
  <2>2. Own(t)'
    BY <1>1, <1>2, <2>1, OwnWithoutRequest DEF Own, KeepsToItself, tk
  <2> QED BY <1>2, <2>2, BlameKept
<1>3. \A i \in 1..Len(task[t].todo) : task[t].todo[i] = None \/ task[t].todo[i] \in Asked(t[1])
  BY <1>1 DEF Own, KeepsToItself
<1>4. ASSUME Succeed(t) PROVE Ended
  <2>1. /\ tk = [task[t] EXCEPT !.pc = "done", !.result = Sound, !.proxy = None]
        /\ task[t].pc = "working" /\ task[t].waits = None
        /\ \A u \in Tasks : u # t => task'[u] = task[u]
        /\ UNCHANGED <<scenario, request, refused, blocked>>
    BY <1>1, <1>4 DEF Succeed, Working
  <2>2. /\ tk.op = task[t].op /\ tk.hashes = task[t].hashes /\ tk.todo = task[t].todo /\ tk.waits = None
        /\ tk.pc = "done" /\ tk.proxy = None
    BY <1>1, <2>1 DEF TaskType
  <2>3. \A p \in Proxies : proxies'[p] = "cooling" => proxies[p] = "cooling"
    BY <1>4 DEF Succeed, ReportProxy
  <2>4. \A k \in Keys : keys'[k] # "usable" => keys'[k] = keys[k]
    BY <1>1, <1>4 DEF Succeed, ReportByValue
  <2> QED BY <1>3, <2>1, <2>2, <2>3, <2>4
<1>5. ASSUME Fail(t) PROVE Ended
  <2> DEFINE bare == [task[t] EXCEPT !.proxy = None]
             again == [task[t] EXCEPT !.pc = "working", !.direct = TRUE, !.proxy = None, !.todo = Todo(t)]
  <2>1. /\ tk = IF RetriesDirectly(t) THEN again ELSE Passed(bare, error)
        /\ task[t].pc = "failed" /\ task[t].waits = None
        /\ \A u \in Tasks : u # t => task'[u] = task[u]
        /\ UNCHANGED <<scenario, request, refused, blocked>>
    BY <1>1, <1>5 DEF Fail, Steady
  <2>2. /\ again.op = task[t].op /\ again.hashes = task[t].hashes /\ again.todo = Todo(t) /\ again.waits = None
        /\ again.pc = "working" /\ again.proxy = None
    BY <1>1, <2>1 DEF TaskType
  <2>3. LET passed == Passed(bare, error)
        IN  /\ passed.op = task[t].op /\ passed.hashes = task[t].hashes /\ passed.todo = task[t].todo
            /\ passed.waits = None /\ passed.pc \in {"choosing", "done"} /\ passed.proxy = None
    BY <1>1, <2>1 DEF TaskType, Passed
  <2>4. task[t].hashes = scenario.calls[t[1]].hashes
    BY <1>1, <2>1 DEF Own, KeepsToItself
  <2>5. /\ tk.op = task[t].op /\ tk.hashes = task[t].hashes /\ tk.waits = None
        /\ tk.pc \in {"choosing", "working", "done"} /\ tk.proxy = None
        /\ tk.todo = Todo(t) \/ tk.todo = task[t].todo
    <3> HIDE DEF tk, again, bare
    <3> QED BY <2>1, <2>2, <2>3
  <2>6. \A i \in 1..Len(tk.todo) : tk.todo[i] = None \/ tk.todo[i] \in Asked(t[1])
    <3> HIDE DEF tk
    <3> QED BY <1>3, <2>4, <2>5, TodoAsked
  <2>7. ASSUME NEW p \in Proxies, proxies'[p] = "cooling" PROVE proxies[p] = "cooling" \/ p \in blocked
    <3>1. error.code # "internal"
      BY <1>1 DEF ErrorType, ErrorCodes, Blameless, ConnectivityCodes
    <3>2. CASE p = task[t].proxy
      <4>1. p # None
        BY IdleTyped
      <4>2. ProxyOutcome(error) = "proxy_failure"
        BY <1>5, <2>7, <3>2 DEF Fail, ReportProxy
      <4>3. error.code \in ConnectivityCodes
        BY <3>1, <4>2 DEF ProxyOutcome
      <4> QED BY <1>1, <2>1, <3>2, <4>1, <4>3 DEF Own, FailedFairly
    <3>3. CASE p # task[t].proxy
      BY <1>5, <2>7, <3>3 DEF Fail, ReportProxy
    <3> QED BY <3>2, <3>3
  <2>8. ASSUME NEW k \in Keys, keys'[k] # "usable" PROVE keys'[k] = keys[k] \/ <<k, keys'[k]>> \in refused
    <3>1. CASE task[t].direct \/ k # Key(t) \/ keys[k] = "disabled"
      BY <1>1, <1>5, <3>1 DEF Fail, ReportByValue
    <3>2. CASE ~task[t].direct /\ k = Key(t) /\ keys[k] # "disabled"
      <4>1. /\ error.code = "AUTHENTICATION_FAILED" => <<k, "disabled">> \in refused
            /\ error.code = "RATE_LIMITED" => <<k, "cooling">> \in refused
        BY <1>1, <2>1, <3>2 DEF Own, FailedFairly
      <4>2. keys'[k] = CASE KeyOutcome(error) = "authentication_failed" -> "disabled"
                         [] KeyOutcome(error) = "rate_limited"          -> "cooling"
                         [] KeyOutcome(error) = "success"               -> "usable"
                         [] OTHER                                       -> keys[k]
        BY <1>5, <3>2 DEF Fail, ReportByValue
      <4>3. CASE error.code = "AUTHENTICATION_FAILED"
        BY <4>1, <4>2, <4>3 DEF KeyOutcome
      <4>4. CASE error.code = "RATE_LIMITED"
        BY <4>1, <4>2, <4>4 DEF KeyOutcome
      <4>5. CASE error.code # "AUTHENTICATION_FAILED" /\ error.code # "RATE_LIMITED"
        BY <4>2, <4>5 DEF KeyOutcome
      <4> QED BY <4>3, <4>4, <4>5
    <3> QED BY <3>1, <3>2
  <2> HIDE DEF tk
  <2> QED BY <2>1, <2>5, <2>6, <2>7, <2>8
<1> HIDE DEF Ended
<1> QED BY <1>2, <1>4, <1>5

\* A new call has neither a request nor an error.
LEMMA BeginBlame ==
  ASSUME RoutesInv, BlameInv, ~Entangled, NEW c \in Callers, Begin(c)
  PROVE  BlameInv'
<1> DEFINE o == <<c, 1>>
           call == scenario.calls[c]
           fresh == [IdleTask EXCEPT !.pc = "choosing", !.op = call.op, !.hashes = call.hashes]
<1>1. /\ task \in [Tasks -> TaskType] /\ Steady(task[o]) /\ Own(o) /\ o \in Tasks /\ None \notin Tasks
      /\ o[1] = c
  BY TaskShape, IdleTyped DEF RoutesInv, TypeOK, BlameInv
<1>2. /\ task[o].pc = "idle" /\ call # None /\ task' = [task EXCEPT ![o] = fresh]
      /\ UNCHANGED <<scenario, keys, proxies, request, cached, aborted, refused, blocked>>
  BY DEF Begin, Outer
<1>3. /\ fresh.pc = "choosing" /\ fresh.op = call.op /\ fresh.hashes = call.hashes /\ fresh.todo = <<>>
      /\ fresh.waits = None /\ fresh.direct = FALSE
  BY DEF IdleTask
<1>4. call.op # "holdings"
  BY <1>2 DEF Entangled
<1> HIDE DEF fresh
<1>5. task'[o] = fresh /\ \A u \in Tasks : u # o => task'[u] = task[u]
  BY <1>1, <1>2
<1>6. request'[o] = None
  BY <1>1, <1>2 DEF Steady, Own, RequestsAsItself
<1>7. \A i \in 1..Len(task'[o].todo) : task'[o].todo[i] = None \/ task'[o].todo[i] \in Asked(o[1])
  BY <1>3, <1>5
<1> HIDE DEF o
<1>8. o = <<o[1], 1>>
  BY <1>1 DEF o
<1>9. Own(o)'
  BY <1>1, <1>2, <1>3, <1>4, <1>5, <1>6, <1>7, <1>8, OwnWithoutRequest
<1> QED BY <1>1, <1>2, <1>5, <1>9, BlameKept

\* Every step keeps the blame fair.
LEMMA BlameStep == RoutesInv /\ BlameInv /\ [Next]_vars => BlameInv'
<1> SUFFICES ASSUME RoutesInv, BlameInv, [Next]_vars PROVE BlameInv'
  OBVIOUS
<1>1. scenario' = scenario
  BY DEF Next, Proceed, PassOver, GiveUp, NoRoute, TakeCandidate, Ask, UseCache, JoinFlight, AskBlock,
         BlockAnswered, Answer, Succeed, Fail, Begin, Abort, KeyCooledDown, ProxyRested, CacheExpires, vars
<1>2. CASE Entangled
  BY <1>1, <1>2, EntangledKept DEF BlameInv
<1>3. CASE ~Entangled
  <2>1. ASSUME NEW t \in Tasks, Proceed(t) PROVE BlameInv'
    <3>1. CASE \/ PassOver(t) \/ GiveUp(t) \/ NoRoute(t) \/ TakeCandidate(t)
               \/ \E h \in Hashes \cup {None} : UseCache(t, h)
      BY <1>3, <3>1, QuietBlame
    <3>2. ASSUME NEW h \in Hashes \cup {None}, Ask(t, h) PROVE BlameInv'
      BY <1>3, <3>2, AskBlame
    <3>3. ASSUME NEW h \in Hashes \cup {None}, JoinFlight(t, h) PROVE BlameInv'
      BY <1>3, <3>3, NothingToJoin
    <3>4. ASSUME AskBlock(t) \/ BlockAnswered(t) PROVE BlameInv'
      <4>1. KeepsToItself(t)
        BY <1>3 DEF BlameInv, Own
      <4> QED BY <3>4, <4>1 DEF AskBlock, BlockAnswered, Working, NeedsBlock, KeepsToItself
    <3>5. CASE Answer(t)
      BY <1>3, <3>5, AnswerBlame
    <3>6. CASE Succeed(t) \/ Fail(t)
      BY <1>3, <3>6, EndBlame
    <3> QED BY <2>1, <3>1, <3>2, <3>3, <3>4, <3>5, <3>6 DEF Proceed
  <2>2. ASSUME NEW c \in Callers, Begin(c) PROVE BlameInv'
    BY <1>3, <2>2, BeginBlame
  <2>3. CASE \/ \E c \in Callers : Abort(c)
             \/ \E k \in Keys : KeyCooledDown(k)
             \/ \E p \in Proxies : ProxyRested(p)
             \/ \E h \in Hashes : CacheExpires(h)
             \/ UNCHANGED vars
    <3>1. UNCHANGED <<scenario, task, request, refused, blocked>>
      BY <2>3 DEF Abort, KeyCooledDown, ProxyRested, CacheExpires, vars
    <3>2. /\ \A p \in Proxies : proxies'[p] = "cooling" => proxies[p] = "cooling"
          /\ \A k \in Keys : keys'[k] # "usable" => keys'[k] = keys[k]
      BY <2>3 DEF Abort, KeyCooledDown, ProxyRested, CacheExpires, vars, RoutesInv, TypeOK
    <3>3. \A u \in Tasks : Own(u)'
      BY <1>3, <3>1, OwnKept DEF BlameInv
    <3>4. ProxyBlamedFairly' /\ KeyBlamedFairly'
      BY <1>3, <3>1, <3>2 DEF BlameInv, ProxyBlamedFairly, KeyBlamedFairly
    <3> QED BY <3>3, <3>4 DEF BlameInv
  <2> QED BY <2>1, <2>2, <2>3 DEF Next
<1> QED BY <1>2, <1>3

\* Nobody is blamed in the beginning.
LEMMA BlameInit == Init => BlameInv
<1> SUFFICES ASSUME Init PROVE BlameInv
  OBVIOUS
<1>1. /\ IdleTask.pc = "idle" /\ IdleTask.todo = <<>> /\ IdleTask.waits = None /\ IdleTask.direct = FALSE
  BY DEF IdleTask
<1>2. ASSUME NEW t \in Tasks PROVE Own(t)
  <2>1. task[t] = IdleTask /\ request[t] = None
    BY DEF Init
  <2> QED BY <1>1, <2>1 DEF Own, KeepsToItself, RequestsAsItself, FailedFairly
<1>3. ProxyBlamedFairly /\ KeyBlamedFairly
  BY DEF Init, ProxyBlamedFairly, KeyBlamedFairly
<1> QED BY <1>2, <1>3 DEF BlameInv

\* Where calls share no request and make no inner call, a key is disabled or cooled
\* down only if an answer to that key said so, and a proxy rests only if the route
\* failed with it (withCandidateContext, and the classifiers of the adapters).
THEOREM BlameIsDeserved == Spec => []BlameIsFair
<1>1. BlameInv => BlameIsFair
  BY DEF BlameInv, BlameIsFair
<1>2. Init => RoutesInv /\ BlameInv
  BY RoutesInit, BlameInit
<1>3. RoutesInv /\ BlameInv /\ [Next]_vars => (RoutesInv /\ BlameInv)'
  BY RoutesStep, BlameStep
<1> QED BY <1>1, <1>2, <1>3, PTL DEF Spec
=============================================================================
