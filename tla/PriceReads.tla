------------------------------ MODULE PriceReads ------------------------------
(***************************************************************************)
(* Prices and rates at a block: ChainlinkService, DeFiExchangeRateService, *)
(* the Uniswap V3 and V4 price services and multicallErc20AtBlock, all     *)
(* over RpcService.multicallAtBlock, which cuts the calls into batches.    *)
(* The executor and its pool of endpoints are evm-call's: an endpoint that *)
(* fails is left with all it has answered for the next one, and a block    *)
(* whose header changes during the read ends it.                           *)
(*                                                                         *)
(* An answer is [success, form, words]: "empty" for 0x, "malformed" or     *)
(* "words"; a pool's slot is <<n, d>>, token1 for one token0.  A price is  *)
(* what the service computes it from, a ratio of integers.                 *)
(***************************************************************************)
EXTENDS Absence, Lists, Integers, FiniteSets, SequencesExt

CONSTANTS
  Feeds,       \* [kind, id, decimals, heartbeat], heartbeat None for null
  DeFiTokens,  \* [kind, id, chain, adapter, sample, underlyings, deployed]
  V3Pools,     \* [kind, id, token, symbol, token0, token1, pool, deployed]
  V4Pools,     \* [kind, id, token, symbol, token0, token1, pool, deployed, verified]
  Questions,   \* [reader, chain, block, names], names None for all
  Worlds,      \* [answers, time, latest]: answers[endpoint][call]; the block's time; the latest block
  MaxCallsPerMulticall, Multicall3DeploymentBlock,
  Ray, Wad     \* 10^27 and 10^18

ASSUME PriceAssumption == MaxCallsPerMulticall \in Nat \ {0} /\ Ray \in Nat \ {0} /\ Wad \in Nat \ {0}

\* The readers that need the names of what to read, and those that take no names for everything.
NamedReaders == {"erc20", "uniswapV3Pair", "uniswapV3Usd", "uniswapV4Pair", "uniswapV4Usd"}
Readers      == NamedReaders \cup {"chainlink", "defi", "uniswapV3", "uniswapV4"}
QuestionFields == {"reader", "chain", "block", "names"}

ASSUME ManifestAssumption ==
  /\ IsList(Feeds) /\ \A d \in Range(Feeds) : d.kind = "feed"
  /\ IsList(DeFiTokens) /\ \A d \in Range(DeFiTokens) : d.kind = "defi"
  /\ IsList(V3Pools) /\ \A d \in Range(V3Pools) : d.kind = "v3"
  /\ IsList(V4Pools) /\ \A d \in Range(V4Pools) : d.kind = "v4"
ASSUME QuestionAssumption ==
  \A q \in Questions : /\ q = [field \in QuestionFields |-> q[field]]
                       /\ q.reader \in Readers
                       /\ IF q.names = None THEN q.reader \notin NamedReaders ELSE IsList(q.names)
ASSUME WorldAssumption ==
  /\ None \notin {"INVALID_REQUEST", "DATA_UNAVAILABLE", "RPC_BLOCK_REORG_DETECTED", "RPC_UNAVAILABLE"}
  /\ \A w \in Worlds : None \notin DOMAIN w.answers

VARIABLES
  truth,  \* of Worlds
  task    \* the read at work: [stage, q, block, batches, endpoint, tried, returned, outcome]
priceVars == <<truth, task>>

Elements(seq, P(_)) == {seq[i] : i \in {j \in DOMAIN seq : P(seq[j])}}

-----------------------------------------------------------------------------
(* What is asked for *)

WETH    == "weth"
Stable  == {"usdc", "usdt"}
Quote(d) == IF d.token = d.token0 THEN d.token1 ELSE d.token0
Aliases == [eth |-> "weth", btc |-> "wbtc", avax |-> "wavax", tao |-> "wtao"]

ResolveToken(name) ==
  LET symbol == IF name \in DOMAIN Aliases THEN Aliases[name] ELSE name
  IN  Among({d \in Range(V3Pools) : symbol \in {d.token, d.symbol}}, V3Pools)

\* The pools that price a token in dollars: a stablecoin's, or WETH's by way of the reference; WETH's own are not.
UsdPools(name) ==
  Among({d \in Range(V3Pools) : Quote(d) \in Stable \/ (Quote(d) = WETH /\ d.token # WETH)}, ResolveToken(name))
References(pools) == Among({d \in Range(V3Pools) : d.token = WETH /\ Quote(d) \in Stable}, pools)
\* Mutant: WETH is looked up among the pools asked for.
ReferenceAskedFor(names) == References(FlattenSeq([i \in DOMAIN names |-> UsdPools(names[i])]))
Reference(names) ==
  IF \E i \in DOMAIN names : \E d \in Range(UsdPools(names[i])) : Quote(d) = WETH
  THEN References(V3Pools) ELSE <<>>

V4Of(name) == Among({d \in Range(V4Pools) : name \in {d.id, d.symbol, d.token}}, V4Pools)
ById(manifest, names) ==
  FlattenSeq([i \in DOMAIN names |-> Among({d \in Range(manifest) : d.id = names[i]}, manifest)])

\* The definitions a read is about.
Selected(q) ==
  LET configured == Among({d \in Range(DeFiTokens) : d.chain = q.chain}, DeFiTokens)
      verified   == Among({d \in Range(V4Pools) : d.verified}, V4Pools)
      preferred  == IF verified # <<>> THEN verified ELSE V4Pools
  IN  CASE q.reader = "chainlink"      -> Feeds
        [] q.reader = "erc20"          -> [i \in DOMAIN q.names |-> [kind |-> "erc20", id |-> q.names[i]]]
        [] q.reader = "defi"           -> IF q.names = None THEN configured ELSE ById(configured, q.names)
        [] q.reader = "uniswapV3"      -> IF q.names = None THEN V3Pools ELSE ById(V3Pools, q.names)
        [] q.reader = "uniswapV3Pair"  -> Among({d \in Range(V3Pools) : {d.token0, d.token1} = Range(q.names)}, V3Pools)
        [] q.reader = "uniswapV3Usd"   ->
             FlattenSeq([i \in DOMAIN q.names |-> UsdPools(q.names[i])]) \o Reference(q.names)
        [] q.reader = "uniswapV4"      -> IF q.names # None THEN ById(V4Pools, q.names) ELSE preferred
        [] q.reader = "uniswapV4Pair"  ->
             Among({d \in Range(V4Pools) : {d.token0, d.token1} \cap Range(q.names) # {}}, preferred)
        [] q.reader = "uniswapV4Usd"   -> [i \in DOMAIN q.names |-> V4Of(q.names[i])[1]]

Known(q, name) ==
  CASE q.reader = "erc20"          -> TRUE
    [] q.reader = "defi"           -> \E d \in Range(DeFiTokens) : d.chain = q.chain /\ d.id = name
    [] q.reader = "uniswapV3"      -> \E d \in Range(V3Pools) : d.id = name
    [] q.reader = "uniswapV3Pair"  -> \E d \in Range(V3Pools) : name \in {d.token0, d.token1}
    [] q.reader = "uniswapV3Usd"   -> Cardinality({d.token : d \in Range(ResolveToken(name))}) = 1
    [] q.reader = "uniswapV4"      -> \E d \in Range(V4Pools) : d.id = name
    [] q.reader = "uniswapV4Pair"  -> TRUE
    [] q.reader = "uniswapV4Usd"   -> V4Of(name) # <<>>

Deployed(d, block) == "deployed" \notin DOMAIN d \/ d.deployed <= block
Eligible(q, block) == Among({d \in Range(Selected(q)) : Deployed(d, block)}, Selected(q))

\* What refuses a read before any call, in the order the services look at it; None if nothing does.
Refused(q, block) ==
  IF q.names # None /\ ~IsInjective(q.names) THEN "INVALID_REQUEST"
  ELSE IF q.names # None /\ \E name \in Range(q.names) : ~Known(q, name) THEN "INVALID_REQUEST"
  ELSE IF q.reader = "uniswapV3Pair" /\ Selected(q) = <<>> THEN "INVALID_REQUEST"
  ELSE IF q.reader \notin {"chainlink", "erc20"} /\ Eligible(q, block) = <<>> THEN "DATA_UNAVAILABLE"
  ELSE IF block < Multicall3DeploymentBlock THEN "MULTICALL3_NOT_DEPLOYED_AT_BLOCK"
  ELSE None

-----------------------------------------------------------------------------
(* The calls of a read and the batches of them *)

\* The calls of a definition, in the order their answers are looked at.
Legs(d) ==
  CASE d.kind = "feed"            -> <<"latestRoundData", "decimals">>
    [] d.kind \in {"v3", "v4"}    -> <<"slot0">>
    [] d.kind = "erc20"           -> <<"view">>
    [] d.kind = "defi" -> CASE d.adapter = "fixed-ratio"    -> <<>>
                            [] d.adapter = "curve-3pool-lp" -> <<"supply", "balance0", "balance1", "balance2">>
                            [] d.adapter = "balancer-bpt"   -> <<"poolTokens", "supply">>
                            [] d.adapter \in {"uniswap-v2-lp", "aerodrome-lp"} -> <<"reserves", "supply">>
                            [] OTHER                        -> <<"rate">>

\* Uniswap's calls are named for the pool, which several definitions may share.
CallId(d, leg) == IF d.kind \in {"v3", "v4"} THEN <<d.kind, d.pool>> ELSE <<d.id, leg>>
BlockGuard     == <<"__defi_block_guard", "getBlockNumber">>

\* A call that several definitions need is made once, where the first of them has it.
Once(calls) ==
  LET first == Among({i \in DOMAIN calls : \A j \in 1 .. i - 1 : calls[j] # calls[i]}, [i \in DOMAIN calls |-> i])
  IN  [n \in DOMAIN first |-> calls[first[n]]]

CallsOf(d) == [n \in DOMAIN Legs(d) |-> CallId(d, Legs(d)[n])]

Asked(q, block) ==
  LET needed == Once(FlattenSeq([i \in DOMAIN Eligible(q, block) |-> CallsOf(Eligible(q, block)[i])]))
  IN  IF needed = <<>> THEN <<BlockGuard>> ELSE needed

Chunk(calls, size) ==
  [n \in 1 .. (Len(calls) + size - 1) \div size |->
     SubSeq(calls, (n - 1) * size + 1, IF n * size < Len(calls) THEN n * size ELSE Len(calls))]

AnswerAt(e, id) ==
  IF id \in DOMAIN truth.answers[e] THEN truth.answers[e][id] ELSE [success |-> FALSE, form |-> "empty", words |-> <<>>]

\* Each batch's answers are matched with its calls by position, and found by id.
Decoded(batches, returned) ==
  [id \in UNION {Range(batches[n]) : n \in DOMAIN batches} |->
     LET n == CHOOSE n \in DOMAIN batches : id \in Range(batches[n])
     IN  returned[n][CHOOSE i \in DOMAIN batches[n] : batches[n][i] = id]]

-----------------------------------------------------------------------------
(* What the answers come to: [code, price] for each definition *)

Priced(price)  == [code |-> None, price |-> price]
Failed(code)   == [code |-> code, price |-> None]
Is(answer, n)  == answer.form = "words" /\ Len(answer.words) = n
Positive(words) == \A i \in DOMAIN words : words[i] > 0

\* A round is <<roundId, answer, startedAt, updatedAt, answeredInRound>>.
EvaluateFeed(d, round, decimals) ==
  LET w == round.words
  IN  IF ~round.success THEN Failed("FEED_CALL_REVERTED")
      ELSE IF round.form = "empty" THEN Failed("FEED_NOT_DEPLOYED_AT_BLOCK")
      ELSE IF ~Is(round, 5) THEN Failed("FEED_RESPONSE_INVALID")
      ELSE IF w[2] <= 0 \/ w[4] <= 0 THEN Failed("FEED_ROUND_UNAVAILABLE")
      ELSE IF w[3] > w[4] \/ w[4] > truth.time THEN Failed("FEED_ANSWER_INVALID")
      ELSE IF w[5] < w[1] THEN Failed("FEED_ANSWER_INVALID")
      ELSE IF ~decimals.success \/ ~Is(decimals, 1) \/ decimals.words # <<d.decimals>> THEN Failed("FEED_RESPONSE_INVALID")
      ELSE Priced([answer |-> w[2], stale |-> IF d.heartbeat = None THEN None ELSE truth.time - w[4] > d.heartbeat])

LegFault(leg, answer) ==
  IF ~answer.success THEN "CALL_REVERTED"
  ELSE IF answer.form = "empty" THEN "NOT_DEPLOYED_AT_BLOCK"
  ELSE IF answer.form = "malformed" THEN "RESPONSE_INVALID"
  ELSE IF leg # "poolTokens" /\ ~Positive(answer.words) THEN "RESPONSE_INVALID"
  ELSE None

\* What one sample of a token is worth of each of its underlyings, from the answers' words.
Amounts(d, words) ==
  CASE d.adapter = "fixed-ratio"          -> [u \in DOMAIN d.underlyings |-> d.sample]
    [] d.adapter \in {"aave-v2", "aave-v3"} -> <<(d.sample * words["rate"][1]) \div Ray>>
    [] d.adapter = "compound-v2"          -> <<(d.sample * words["rate"][1]) \div Wad>>
    [] d.adapter = "curve-3pool-lp"       ->
         [u \in 1 .. 3 |-> (words[<<"balance0", "balance1", "balance2">>[u]][1] * d.sample) \div words["supply"][1]]
    [] d.adapter \in {"uniswap-v2-lp", "aerodrome-lp"} ->
         [u \in 1 .. 2 |-> (words["reserves"][u] * d.sample) \div words["supply"][1]]
    [] d.adapter = "balancer-bpt"         ->  \* by the token's address, and 0 for one the pool does not hold
         [u \in DOMAIN d.underlyings |->
            LET held == Elements(words["poolTokens"], LAMBDA pair : pair[1] = d.underlyings[u])
            IN  IF held = {} THEN 0 ELSE ((CHOOSE pair \in held : TRUE)[2] * d.sample) \div words["supply"][1]]
    [] OTHER                              -> words["rate"]

EvaluateAdapter(d, answers) ==
  LET faulty == SelectSeq(Legs(d), LAMBDA leg : LegFault(leg, answers[leg]) # None)
      amounts == Amounts(d, [leg \in Range(Legs(d)) |-> answers[leg].words])
  IN  IF faulty # <<>> THEN Failed(LegFault(faulty[1], answers[faulty[1]]))
      ELSE IF ~Positive(amounts) THEN Failed("RESPONSE_INVALID")
      ELSE IF Len(amounts) # Len(d.underlyings) THEN Failed("RESPONSE_INVALID")
      ELSE Priced(amounts)

EvaluateSlot(d, slot) ==
  IF ~slot.success THEN Failed(IF d.kind = "v3" THEN "POOL_CALL_REVERTED" ELSE "STATE_CALL_REVERTED")
  ELSE IF ~Is(slot, 2) \/ ~Positive(slot.words) THEN
         Failed(IF d.kind = "v3" THEN "SLOT0_RESPONSE_INVALID" ELSE "STATE_RESPONSE_INVALID")
  ELSE Priced(IF d.token = d.token0 THEN slot.words ELSE Reverse(slot.words))

EvaluateErc20(view) ==
  IF ~view.success THEN Failed("CALL_FAILED")
  ELSE IF ~Is(view, 1) THEN Failed("DECODE_FAILED")
  ELSE Priced(view.words[1])

\* A definition without an answer; RpcService gives one to every call.
Missing == [feed |-> "FEED_RESPONSE_INVALID", defi |-> "RESPONSE_INVALID", v3 |-> "POOL_CALL_REVERTED",
            v4 |-> "STATE_CALL_REVERTED", erc20 |-> "CALL_FAILED"]

Evaluate(d, byId) ==
  LET missing == \E leg \in Range(Legs(d)) : CallId(d, leg) \notin DOMAIN byId
      answers == [leg \in Range(Legs(d)) |-> byId[CallId(d, leg)]]
  IN  IF missing THEN Failed(Missing[d.kind])
      ELSE IF d.kind = "feed" THEN EvaluateFeed(d, answers["latestRoundData"], answers["decimals"])
      ELSE IF d.kind = "defi" THEN EvaluateAdapter(d, answers)
      ELSE IF d.kind = "erc20" THEN EvaluateErc20(answers["view"])
      ELSE EvaluateSlot(d, answers["slot0"])

Times(p, r) == <<p[1] * r[1], p[2] * r[2]>>
Above(p, r) == p[1] * r[2] > r[1] * p[2]
Highest(prices) == IF prices \ {None} = {} THEN None ELSE CHOOSE p \in prices \ {None} : \A r \in prices \ {None} : ~Above(r, p)

Reading(d, block, byId) ==
  IF Deployed(d, block) THEN Evaluate(d, byId) ELSE Failed("NOT_DEPLOYED_AT_BLOCK")

\* The highest price over the token's pools, those against WETH at the highest price of the reference.
UsdPrice(q, name, block, byId) ==
  LET price(d) == Reading(d, block, byId).price
      weth     == Highest({price(d) : d \in Range(Reference(q.names))})
      usd(d)   == IF price(d) = None \/ Quote(d) \in Stable THEN price(d)
                  ELSE IF weth = None THEN None ELSE Times(price(d), weth)
      highest  == Highest({usd(d) : d \in Range(UsdPools(name))})
  IN  IF highest = None THEN Failed("NO_USD_PRICE") ELSE Priced(highest)

\* V4 renders 0 where the quote is not a stablecoin.
V4Usd(d, block, byId) ==
  LET reading == Reading(d, block, byId)
  IN  IF reading.price # None /\ Quote(d) \notin Stable THEN Priced(<<0, 1>>) ELSE reading

\* What a read promises one outcome each: the tokens asked for in dollars, or the definitions.
Units(q) == IF q.reader \in {"uniswapV3Usd", "uniswapV4Usd"} THEN Range(q.names) ELSE Range(Selected(q))

Settled(q, block, byId) ==
  LET units == [u \in Units(q) |->
                  CASE q.reader = "uniswapV3Usd" -> UsdPrice(q, u, block, byId)
                    [] q.reader = "uniswapV4Usd" -> V4Usd(V4Of(u)[1], block, byId)
                    [] OTHER                     -> Reading(u, block, byId)]
      some  == \E d \in Range(Selected(q)) : Reading(d, block, byId).price # None
  IN  IF some \/ q.reader = "erc20" THEN [error |-> None, units |-> units]
      ELSE [error |-> "DATA_UNAVAILABLE", units |-> <<>>]

-----------------------------------------------------------------------------
(* A read *)

Ended(error) == [task EXCEPT !.stage = "done", !.outcome = [error |-> error, units |-> <<>>]]

\* getTokenPricesAtBlock, getExchangeRatesAtBlock, multicallErc20AtBlock and so on, up to the executor.
Begin(q) ==
  LET block == IF q.block = None THEN truth.latest ELSE q.block
      asked == [task EXCEPT !.q = q, !.block = block]
  IN  /\ task.stage = "idle"
      /\ task' = IF Refused(q, block) # None
                 THEN [asked EXCEPT !.stage = "done", !.outcome = [error |-> Refused(q, block), units |-> <<>>]]
                 ELSE [asked EXCEPT !.stage = "reading", !.batches = Chunk(Asked(q, block), MaxCallsPerMulticall)]
      /\ UNCHANGED truth

\* evm-call: the next endpoint, its answer to the next batch, its failure, a changed header, no endpoint left.
Reads(e)   == task.stage = "reading" /\ task.endpoint = e
Connect(e) == Reads(None) /\ e \notin task.tried /\ task' = [task EXCEPT !.endpoint = e] /\ UNCHANGED truth
Reply(e)   == LET batch == task.batches[Len(task.returned) + 1]
              IN  /\ Reads(e) /\ Len(task.returned) < Len(task.batches)
                  /\ task' = [task EXCEPT !.returned = Append(@, [i \in DOMAIN batch |-> AnswerAt(e, batch[i])])]
                  /\ UNCHANGED truth
Break(e)   == /\ Reads(e)
              /\ task' = [task EXCEPT !.endpoint = None, !.tried = @ \cup {e}, !.returned = <<>>]
              /\ UNCHANGED truth
Reorganize(e) == Reads(e) /\ task' = Ended("RPC_BLOCK_REORG_DETECTED") /\ UNCHANGED truth
Exhaust    == Reads(None) /\ task.tried = DOMAIN truth.answers /\ task' = Ended("RPC_UNAVAILABLE") /\ UNCHANGED truth

\* The rest of the method, once the executor has returned.
Conclude(e) ==
  /\ Reads(e) /\ Len(task.returned) = Len(task.batches)
  /\ task' = [task EXCEPT !.stage = "done", !.outcome = Settled(task.q, task.block, Decoded(task.batches, task.returned))]
  /\ UNCHANGED truth

Unasked == [stage |-> "idle", q |-> None, block |-> None, batches |-> <<>>, endpoint |-> None, tried |-> {},
            returned |-> <<>>, outcome |-> None]
PriceInit == truth \in Worlds /\ task = Unasked
PriceNext ==
  \/ \E q \in Questions : Begin(q)
  \/ \E e \in DOMAIN truth.answers : Connect(e) \/ Reply(e) \/ Break(e) \/ Reorganize(e) \/ Conclude(e)
  \/ Exhaust

PriceSpec == PriceInit /\ [][PriceNext]_priceVars

-----------------------------------------------------------------------------

\* What an endpoint would have come to, asked for one part of a read by itself.
Alone(q, block, e, u) ==
  LET one == [q EXCEPT !.names = <<u>>]
      s   == Settled(one, block, [id \in Range(Asked(one, block)) |-> AnswerAt(e, id)])
  IN  IF q.reader \in {"uniswapV3Usd", "uniswapV4Usd"}
      THEN IF s.error = None THEN s.units[u].price ELSE None
      ELSE Reading(u, block, [id \in Range(CallsOf(u)) |-> AnswerAt(e, id)]).price

\* A part of a read gets the price it would get if nothing else were asked
\* with it, from one endpoint's answers only: neither the other parts, the
\* batches they are cut into, shared pools, nor an endpoint that failed halfway
\* shows in it (RpcService.multicallAtBlock, the services' selections and
\* evaluations; docs/SPEC.md 13.4).
AloneAsTogether ==
  task.stage = "done" /\ task.outcome.error \in {None, "DATA_UNAVAILABLE"} /\ task.endpoint # None =>
    \A u \in Units(task.q) :
      Alone(task.q, task.block, task.endpoint, u) = IF task.outcome.error = None THEN task.outcome.units[u].price ELSE None

=============================================================================
