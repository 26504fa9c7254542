------------------------------- MODULE MCClient -------------------------------
(***************************************************************************)
(* One client, a part of its life at a time: a caller pages through a      *)
(* history, a configuration becomes a client, cooldowns are kept and told  *)
(* of, prices are read.  The parts share no state; part says which one     *)
(* moves, and the others stay as they begin.                               *)
(***************************************************************************)
EXTENDS ProviderRouting, ClientSetup, ClientUpkeep, PriceReads, TLC

VARIABLE part

-----------------------------------------------------------------------------
(* Paging *)

T(of, spelt) == [of |-> of, spelt |-> spelt]
MCChains == {[chainId |-> "1", names |-> {"ethereum", "eth"}, routes |-> {"etherscan", "blockscout", "alchemy", "moralis"}],
             [chainId |-> "56", names |-> {"bsc"}, routes |-> {"etherscan", "moralis"}]}
P(kind, service) == [kind |-> kind, service |-> service]
MCConfigurations ==
  {<<P("alchemy", "a"), P("etherscan", "e"), P("moralis", "m")>>,
   <<P("etherscan", "e"), P("alchemy", "a")>>, <<P("blockscout", "b"), P("blockscout", "c")>>}
Blank == [op |-> "getErc20Transfers", chain |-> T("1", "number"), address |-> T("alice", "plain"), token |-> None,
          direction |-> None, pageSize |-> None, fullData |-> None, order |-> None, startBlock |-> None, endBlock |-> None,
          block |-> None, list |-> None, cursor |-> None]
Within == [Blank EXCEPT !.startBlock = T(7, "plain"), !.endBlock = T(9, "zeros")]
MCRequests == {Blank, Within,
  [Blank EXCEPT !.chain = T("eth", "upper"), !.address = T("alice", "upper"), !.direction = "both", !.pageSize = 50],
  [Blank EXCEPT !.chain = T("1", "zeros"), !.token = T("coin", "upper")],
  [Blank EXCEPT !.token = T("coin", "plain"), !.order = "desc"],
  [Blank EXCEPT !.direction = "incoming"], [Blank EXCEPT !.order = "asc"],
  [Blank EXCEPT !.fullData = TRUE], [Blank EXCEPT !.pageSize = 101], [Blank EXCEPT !.pageSize = 0],
  [Blank EXCEPT !.address = T("alice", "malformed")], [Blank EXCEPT !.chain = T("77", "digits")],
  [Within EXCEPT !.startBlock = T(7, "zeros"), !.endBlock = T(9, "plain")],
  [Within EXCEPT !.endBlock = T(8, "plain")], [Within EXCEPT !.startBlock = T(10, "plain")],
  [Within EXCEPT !.op = RangeRead], [Within EXCEPT !.op = RangeRead, !.endBlock = None],
  [Blank EXCEPT !.op = "getTransactions"], [Blank EXCEPT !.op = "getTransactions", !.chain = T("bsc", "padded")],
  [Blank EXCEPT !.op = "getTransactions", !.chain = T("56", "digits"), !.address = T("alice", "upper")],
  [Blank EXCEPT !.op = "getTransactions", !.token = T("coin", "plain")],
  [Blank EXCEPT !.op = "getNativeBalance"], 
  [Blank EXCEPT !.op = "getTransactionContextsByHash", !.address = None, !.list = <<T("h1", "plain"), T("h1", "upper")>>],
  [Blank EXCEPT !.op = "getErc20BalancesAtBlock", !.block = T(5, "zeros"), !.list = <<T("coin", "plain")>>],
  [Blank EXCEPT !.op = "getErc20HoldingsAtBlock", !.block = T(5, "plain")],
  [Blank EXCEPT !.op = "getErc20TokenHoldings"]}
S(d, c, f) == [depth |-> d, width |-> 3, chars |-> c, total |-> 2 * c, forbidden |-> f]
MCPageStates == {S(1, 40, FALSE), S(1, 2048, FALSE), S(2, 2049, FALSE)}

-----------------------------------------------------------------------------
(* Setting up *)

U(of)        == [of |-> of, scheme |-> "https", spelt |-> "plain"]
Key(of)      == [of |-> <<of>>, scheme |-> "none", spelt |-> "plain"]
Line(family, n, value) == [key |-> <<family, n>>, value |-> value]
E(id, url, on) == [id |-> id, url |-> url, enabled |-> on]
Custom       == E(<<"mine">>, U(<<"my", "node">>), TRUE)
CustomBase   == E(<<"mine">>, U(<<"my", "base", "node">>), TRUE)
Numbered     == E(<<"custom", "ethereum", 1>>, U(<<"my", "other", "node">>), TRUE)
Public       == E(<<"public">>, U(<<"public">>), TRUE)
MCBuiltins   == [ethereum |-> <<Public>>, base |-> <<E(<<"public-base">>, U(<<"public", "base">>), TRUE)>>]
Feature(on, builtins, eth, base) ==
  [enabled |-> on, builtins |-> builtins, endpoints |-> [ethereum |-> eth, base |-> base],
   chains |-> IF base = <<>> THEN <<"ethereum">> ELSE <<"ethereum", "base">>, attemptMs |-> 1, totalMs |-> 2]
Features == {None, Feature(TRUE, None, <<>>, <<>>), Feature(TRUE, FALSE, <<Custom, Numbered>>, <<>>),
             Feature(TRUE, FALSE, <<[Custom EXCEPT !.enabled = FALSE]>>, <<>>)}
Provider(kind, keys) == [kind |-> kind, keys |-> keys, url |-> None, insecure |-> FALSE]
Bare == [providers |-> None, proxies |-> None, storage |-> None, alert |-> None, price |-> None, chains |-> <<>>,
         policy |-> [attemptMs |-> 1, totalMs |-> 1], chainlink |-> None, defi |-> None, uniswapV3 |-> None, uniswapV4 |-> None]
MCGiven ==
  {[Bare EXCEPT !.chainlink = cl, !.defi = df, !.uniswapV3 = v3, !.uniswapV4 = v4, !.providers = ps] :
     cl \in Features, df \in Features \cup {Feature(TRUE, FALSE, <<Custom>>, <<CustomBase>>)},
     v3 \in {None, Feature(TRUE, None, <<Custom>>, <<>>)}, v4 \in {None, Feature(TRUE, None, <<>>, <<>>)},
     ps \in {None, <<Provider("alchemy", <<Key("k1"), Key("k2")>>)>>}}
  \cup {Bare, [Bare EXCEPT !.price = <<>>], [Bare EXCEPT !.price = <<"gate", "okx">>], [Bare EXCEPT !.storage = Key("db")],
        [Bare EXCEPT !.price = <<"okx">>, !.chains = <<[id |-> 7, names |-> <<"eth">>, etherscan |-> None, url |-> None]>>],
        [Bare EXCEPT !.price = <<"okx">>, !.chains = <<[id |-> 7, names |-> <<"mychain">>, etherscan |-> 7, url |-> "https"]>>],
        [Bare EXCEPT !.proxies = <<[U(<<"proxy">>) EXCEPT !.spelt = "path"]>>, !.price = <<"okx">>],
        [Bare EXCEPT !.providers = <<[Provider("etherscan", <<Key("k")>>) EXCEPT !.url = [U(<<"api">>) EXCEPT !.scheme = "http"]]>>]}
MCFiles ==
  {<<>>, <<Line("nodereal", 1, Key("n")), Line("ethereum", 1, U(<<"another">>))>>,
   <<Line("ethereum", 1, U(<<"my", "node">>)), Line("base", 1, U(<<"my", "base", "node">>))>>,
   <<Line("ethereum", 2, U(<<"another">>)), Line("ethereum", 1, Empty), Line("alchemy", 1, Key("k1")), Line("alchemy", 10, Key("k3"))>>,
   <<Line("ethereum", 1, [U(<<"plain">>) EXCEPT !.scheme = "http"])>>,
   <<Line("etherscan", 1, Key("e")), Line("etherscan", 2, Key("e")), Line("proxy", 1, [U(<<"proxy">>) EXCEPT !.spelt = "path"])>>}
MCProcesses == {<<>>, (<<"ankr", 1>> :> Key("a") @@ <<"storage", 1>> :> Empty @@ <<"storage", 3>> :> Key("db") @@ <<"proxy", 1>> :> U(<<"proxy">>))}
MCBuiltinChains == <<[id |-> 1, names |-> <<"ethereum", "eth">>, etherscan |-> 1, url |-> "https"]>>

-----------------------------------------------------------------------------
(* Upkeep *)

K(f, n) == [family |-> f, number |-> n]
X(category, id, env, chain, pool, attended) == [category |-> category, id |-> id, env |-> env, chain |-> chain, pool |-> pool, attended |-> attended]
MCResources == <<X("rpc", "node", K("alchemy", 1), "base", "defi-base", TRUE), X("data-api", "key-0", K("alchemy", 1), None, "etherscan-1", TRUE)>>
St(d, a, l, n, i, c) ==
  [driver |-> d, alerts |-> a, longest |-> l, restarts |-> n, ill |-> i, checkers |-> c]
MCSettings ==
  {St("sqlite", TRUE, 1, 0, {1, 2}, {"first"}), St("sqlite", TRUE, 1, 0, {2}, {"first", "second"}),
   St("sqlite", FALSE, 2, 2, {1}, {"first"}), St("postgres", FALSE, 2, 1, {1}, {"first"})}

-----------------------------------------------------------------------------
(* Prices *)

Feed(id, heartbeat)     == [kind |-> "feed", id |-> id, decimals |-> 8, heartbeat |-> heartbeat]
Token(id, chain, adapter, underlyings, deployed) ==
  [kind |-> "defi", id |-> id, chain |-> chain, adapter |-> adapter, sample |-> 100, underlyings |-> underlyings, deployed |-> deployed]
Pool(kind, id, token, t0, t1, pool, deployed) ==
  [kind |-> kind, id |-> id, token |-> token, symbol |-> token, token0 |-> t0, token1 |-> t1, pool |-> pool, deployed |-> deployed]
MCFeeds == <<Feed("eth-usd", 10), Feed("btc-usd", None), Feed("paxg-usd", 10)>>
MCDeFiTokens == <<Token("wsteth", 1, "wsteth", <<"steth">>, 0), Token("adai", 1, "aave-v3", <<"dai">>, 9),
                  Token("crv3", 1, "curve-3pool-lp", <<"dai", "usdc", "usdt">>, 0), Token("cdai", 1, "compound-v2", <<"dai">>, 0),
                  Token("bpt", 1, "balancer-bpt", <<"wsteth", "weth">>, 0), Token("steth", 8453, "fixed-ratio", <<"eth">>, 0),
                  Token("aero", 8453, "aerodrome-lp", <<"weth", "usdc">>, 6)>>
MCV3Pools == <<Pool("v3", "weth-usdc", "weth", "usdc", "weth", "p1", 3), Pool("v3", "usdc-weth", "usdc", "usdc", "weth", "p1", 3),
               Pool("v3", "uni-weth", "uni", "uni", "weth", "p2", 3), Pool("v3", "uni-usdt", "uni", "uni", "usdt", "p3", 6),
               Pool("v3", "dai-usdc", "dai", "dai", "usdc", "p4", 0)>>
Verified(pool, v) == pool @@ [verified |-> v]
MCV4Pools == <<Verified(Pool("v4", "eth-usdc", "eth", "eth", "usdc", "q1", 5), TRUE),
               Verified(Pool("v4", "uni-eth", "uni", "eth", "uni", "q2", 5), TRUE),
               Verified(Pool("v4", "dai-usdc", "dai", "dai", "usdc", "q3", 5), FALSE)>>
Q(reader, block, names) == [reader |-> reader, chain |-> 1, block |-> block, names |-> names]
MCQuestions ==
  {Q("chainlink", 7, None), Q("defi", 7, None), Q("defi", 7, <<"cdai", "adai">>), Q("defi", 7, <<"adai">>), Q("defi", 9, <<"nothing">>),
   [Q("defi", 7, None) EXCEPT !.chain = 8453], [Q("defi", 5, None) EXCEPT !.chain = 8453],
   Q("uniswapV3", 7, None), Q("uniswapV3", 4, <<"dai-usdc", "uni-usdt">>), Q("uniswapV3Pair", 7, <<"weth", "usdc">>),
   Q("uniswapV3Pair", 7, <<"uni", "usdc">>), Q("uniswapV3Usd", 7, <<"uni">>), Q("uniswapV3Usd", 4, <<"eth", "uni", "dai">>),
   Q("uniswapV3Usd", 7, <<"dai", "weth", "eth", "usdc">>), Q("uniswapV3Usd", 7, <<"dai", "dai">>), Q("uniswapV3Usd", 0, <<"weth", "usdc">>),
   Q("uniswapV4", 7, None), Q("uniswapV4Pair", 7, <<"uni", "dai">>), Q("uniswapV4Usd", 7, <<"uni", "eth">>), Q("uniswapV4Usd", 7, <<"none">>),
   Q("uniswapV4", 4, <<"eth-usdc">>), Q("erc20", None, <<"a", "b", "c">>), Q("chainlink", 1, None)}
W(words)  == [success |-> TRUE, form |-> "words", words |-> words]
Bad(form) == [success |-> TRUE, form |-> form, words |-> <<>>]
Good ==
  <<"eth-usd", "latestRoundData">> :> W(<<4, 2000, 80, 85, 4>>) @@ <<"eth-usd", "decimals">> :> W(<<8>>)
  @@ <<"btc-usd", "latestRoundData">> :> W(<<4, 3000, 80, 85, 4>>) @@ <<"btc-usd", "decimals">> :> W(<<8>>)
  @@ <<"paxg-usd", "latestRoundData">> :> W(<<4, 50, 90, 95, 4>>) @@ <<"paxg-usd", "decimals">> :> W(<<8>>)
  @@ <<"wsteth", "rate">> :> W(<<120>>) @@ <<"adai", "rate">> :> W(<<13>>) @@ <<"cdai", "rate">> :> W(<<20>>)
  @@ <<"crv3", "supply">> :> W(<<50>>) @@ <<"crv3", "balance0">> :> W(<<10>>) @@ <<"crv3", "balance1">> :> W(<<20>>)
  @@ <<"crv3", "balance2">> :> W(<<25>>)
  @@ <<"bpt", "poolTokens">> :> W(<<<<"weth", 40>>, <<"bpt", 9>>, <<"wsteth", 30>>>>) @@ <<"bpt", "supply">> :> W(<<60>>)
  @@ <<"aero", "reserves">> :> W(<<8, 90>>) @@ <<"aero", "supply">> :> W(<<20>>)
  @@ <<"v3", "p1">> :> W(<<1, 20>>) @@ <<"v3", "p2">> :> W(<<1, 4>>) @@ <<"v3", "p3">> :> W(<<6, 1>>) @@ <<"v3", "p4">> :> W(<<1, 1>>)
  @@ <<"v4", "q1">> :> W(<<21, 1>>) @@ <<"v4", "q2">> :> W(<<4, 1>>) @@ <<"v4", "q3">> :> W(<<1, 1>>)
  @@ <<"a", "view">> :> W(<<5>>) @@ <<"b", "view">> :> W(<<0>>) @@ <<"c", "view">> :> Bad("malformed")
Worse == [Good EXCEPT ![<<"eth-usd", "latestRoundData">>] = W(<<4, 2000, 80, 101, 4>>), ![<<"btc-usd", "latestRoundData">>] = Bad("empty"),
            ![<<"paxg-usd", "decimals">>] = W(<<18>>), ![<<"wsteth", "rate">>] = W(<<0>>), ![<<"cdai", "rate">>] = Bad("malformed"),
            ![<<"v3", "p1">>] = Bad("empty"), ![<<"v4", "q1">>] = Bad("malformed"), ![<<"bpt", "supply">>].success = FALSE,
            ![<<"v3", "p3">>] = W(<<7, 1>>)]
World(first, second) == [answers |-> [first |-> first, second |-> second], time |-> 100, latest |-> 8]
MCWorlds == {World(Good, Good), World(Good, Worse), World(Worse, <<>>)}

-----------------------------------------------------------------------------

clientVars == <<part, routingVars, setupVars, upkeepVars, priceVars>>

AnyOf(set) == CHOOSE x \in set : TRUE
Init ==
  /\ part \in {"paging", "setup", "upkeep", "prices"}
  /\ part = "paging" \/ providers = AnyOf(Configurations)
  /\ RoutingInit
  /\ part = "setup" \/ (given = AnyOf(Given) /\ file = None /\ process = AnyOf(Processes))
  /\ SetupInit
  /\ part = "upkeep" \/ setting = AnyOf(Settings)
  /\ UpkeepInit
  /\ part = "prices" \/ truth = AnyOf(Worlds)
  /\ PriceInit

Next ==
  /\ UNCHANGED part
  /\ \/ part = "paging" /\ RoutingNext /\ UNCHANGED <<setupVars, upkeepVars, priceVars>>
     \/ part = "setup" /\ SetupNext /\ UNCHANGED <<routingVars, upkeepVars, priceVars>>
     \/ part = "upkeep" /\ UpkeepNext /\ UNCHANGED <<routingVars, setupVars, priceVars>>
     \/ part = "prices" /\ PriceNext /\ UNCHANGED <<routingVars, setupVars, upkeepVars>>

\* The reads, the set-up and the paging have nobody's fairness.
Spec == Init /\ [][Next]_clientVars /\ (part = "upkeep" => UpkeepFairness)
=============================================================================
