----------------------------- MODULE ClientSetup -----------------------------
(***************************************************************************)
(* How a client comes to be: EnvLoader finds keys, endpoints and proxies   *)
(* in a file or the environment, parseClientConfiguration merges them with *)
(* what the caller says and judges the result, and EvmDataClient's         *)
(* constructor shares and wires the pools of archive RPC endpoints.        *)
(*                                                                         *)
(* A text is [of, scheme, spelt]: what it denotes (a sequence of parts),   *)
(* the scheme of the URL it is or "none", and how it is written.  The ids  *)
(* of endpoints are <<service, chain, number>>.                            *)
(* Bounds: Given, Files, Processes, MaxListed.                             *)
(***************************************************************************)
EXTENDS Absence, Lists, Naturals, Sequences, FiniteSets, SequencesExt

CONSTANTS
  Given,      \* what callers configure: see Effective
  Files,      \* env files, as sequences of [key, value]; None for no file
  Processes,  \* process environments, functions from keys to values
  Builtins,   \* Builtins[chain]: the sequence of built-in endpoints, never empty
  BuiltinChains,
  MaxListed   \* how many endpoints of a chain, or proxies, a configuration may list: 64

\* What callers write is of the schema's shape: a feature names the chains it reads and lists endpoints for both.
IsFeature(feature) ==
  /\ feature = [enabled |-> feature.enabled, builtins |-> feature.builtins, endpoints |-> feature.endpoints,
                chains |-> feature.chains, attemptMs |-> feature.attemptMs, totalMs |-> feature.totalMs]
  /\ DOMAIN feature.endpoints = {"ethereum", "base"}
  /\ \A chain \in {"ethereum", "base"} : IsList(feature.endpoints[chain])
  /\ Range(feature.chains) \subseteq {"ethereum", "base"}

IsConfiguration(g) ==
  /\ g = [providers |-> g.providers, proxies |-> g.proxies, storage |-> g.storage, alert |-> g.alert, price |-> g.price,
          chains |-> g.chains, policy |-> g.policy, chainlink |-> g.chainlink, defi |-> g.defi,
          uniswapV3 |-> g.uniswapV3, uniswapV4 |-> g.uniswapV4]
  /\ g.providers # None => IsList(g.providers) /\ \A i \in DOMAIN g.providers : IsList(g.providers[i].keys)
  /\ \A feature \in {g.chainlink, g.defi, g.uniswapV3, g.uniswapV4} \ {None} : IsFeature(feature)
  /\ \A feature \in {g.chainlink, g.uniswapV3, g.uniswapV4} \ {None} : "ethereum" \in Range(feature.chains)

ASSUME SetupAssumption ==
  /\ \A g \in Given : IsConfiguration(g)
  /\ \A lines \in Files : IsList(lines)
  /\ \A env \in Processes : IsFiniteSet(DOMAIN env)
  /\ \A chain \in {"ethereum", "base"} : IsList(Builtins[chain]) /\ Builtins[chain] # <<>>

VARIABLES
  given, file, process,  \* what the client is made from
  client                 \* None, or whether it was refused, its pools and the attended ones

setupVars == <<given, file, process, client>>

Text(of, scheme) == [of |-> of, scheme |-> scheme, spelt |-> "plain"]
Empty            == Text(<<>>, "none")

-----------------------------------------------------------------------------
(* EnvLoader.  A key is <<family, number>>; names sort by their number. *)

\* A later line wins over an earlier one.
ParseEnvContent(lines) ==
  [k \in {lines[i].key : i \in DOMAIN lines} |-> lines[CHOOSE i \in DOMAIN lines :
     lines[i].key = k /\ \A j \in DOMAIN lines : lines[j].key = k => j <= i].value]

FileMap == IF file = None THEN <<>> ELSE ParseEnvContent(file)

Get(key) == IF key \in DOMAIN FileMap /\ FileMap[key] # Empty THEN FileMap[key]
            ELSE IF key \in DOMAIN process THEN process[key] ELSE None

Named(env, family) ==
  LET found == {k \in DOMAIN env : k[1] = family /\ env[k] # Empty}
      keys  == SetToSortSeq(found, LAMBDA a, b : a[2] < b[2])
  IN  [i \in 1..Cardinality(found) |-> [name |-> keys[i], value |-> env[keys[i]]]]

\* The process' environment counts only where the file has nothing.
GetKeysByPattern(family) == IF Named(FileMap, family) # <<>> THEN Named(FileMap, family) ELSE Named(process, family)

\* list, and what more adds to it: nothing that agrees in one of the fields with what is there.
Meets(fields, x, y) == \E f \in fields : x[f] = y[f]
Unless(fields, list, more) ==
  LET kept[n \in 0..Len(more)] ==
        IF n = 0 THEN list
        ELSE LET before == kept[n - 1]
             IN  IF \E i \in DOMAIN before : Meets(fields, before[i], more[n]) THEN before ELSE Append(before, more[n])
  IN  kept[Len(more)]

GetKeyEntriesByPrefix(family) == Unless({"value"}, <<>>, GetKeysByPattern(family))

Values(entries) == [i \in DOMAIN entries |-> entries[i].value]

\* One provider per kind that has keys.
ProviderFound(kind) ==
  LET entries == GetKeyEntriesByPrefix(kind)
  IN  IF entries = <<>> THEN <<>> ELSE <<[kind |-> kind, keys |-> Values(entries), url |-> None, insecure |-> FALSE]>>
GetProviderConfigs ==
  ProviderFound("etherscan") \o ProviderFound("blockscout") \o ProviderFound("alchemy") \o ProviderFound("moralis")

Endpoint(id, url) == [id |-> id, url |-> url, enabled |-> TRUE]

\* One endpoint per key of a service, and the URLs given for the chain; the number counts the keys found.
KeyedEndpoints(service, chain) ==
  LET keys == GetKeysByPattern(service)
  IN  [i \in DOMAIN keys |-> Endpoint(<<service, chain, i>>, Text(<<service, chain>> \o keys[i].value.of, "https"))]
DirectEndpoints(chain) ==
  LET urls == GetKeysByPattern(chain)
  IN  [i \in DOMAIN urls |-> Endpoint(<<"custom", chain, i>>, urls[i].value)]
GetRpcEndpoints(chain) ==
  Unless({"url"}, <<>>,
    KeyedEndpoints("nodereal", chain) \o KeyedEndpoints("ankr", chain) \o KeyedEndpoints("alchemy", chain) \o KeyedEndpoints("drpc", chain)
      \o (IF chain = "bsc" THEN <<>> ELSE KeyedEndpoints("infura", chain)) \o DirectEndpoints(chain))

\* What is no proxy's URL is left out, and a URL is written one way.
ProxyUrl(text)  == text.scheme \in {"http", "https"} /\ text.spelt # "path"
GetProxies ==
  LET all   == GetKeysByPattern("proxy")
      found == Among({entry \in Range(all) : ProxyUrl(entry.value)}, all)
  IN  Values(Unless({"value"}, <<>>, [i \in DOMAIN found |-> [value |-> Text(found[i].value.of, found[i].value.scheme)]]))

\* DATABASE_URL, else STORAGE_URL, else SQLITE_PATH; empty in the process' environment is a value.
FirstOf(names) == LET has == {i \in DOMAIN names : Get(names[i]) # None} IN IF has = {} THEN None ELSE Get(names[Min(has)])
GetStorageUrl  == FirstOf([i \in 1..3 |-> <<"storage", i>>])
GetWebhook     == FirstOf([i \in 1..2 |-> <<"webhook", i>>])

-----------------------------------------------------------------------------
(* parseClientConfiguration. *)

\* Mutant: ids may meet.
MergeEndpointsByUrl(explicit, discovered) == Unless({"url"}, explicit, discovered)
\* What the caller lists stays; what is discovered must have another id and another URL.
MergeEndpoints(explicit, discovered) == Unless({"id", "url"}, explicit, discovered)

Or(value, other) == IF value = None THEN other ELSE value
Nonempty(list)   == IF list = <<>> THEN None ELSE list
Truthy(text)     == IF text = Empty THEN None ELSE text

With(feature, chains) ==
  IF feature = None THEN None
  ELSE [feature EXCEPT !.endpoints = [c \in {"ethereum", "base"} |->
          IF c \in chains THEN MergeEndpoints(@[c], GetRpcEndpoints(c)) ELSE @[c]]]

Effective(g) ==
  IF file = None THEN g
  ELSE [g EXCEPT !.providers = Or(@, Nonempty(GetProviderConfigs)), !.proxies = Or(@, Nonempty(GetProxies)),
                 !.storage   = Or(@, Truthy(GetStorageUrl)), !.alert = Or(@, Truthy(GetWebhook)),
                 !.chainlink = With(@, {"ethereum"}), !.defi = With(@, {"ethereum", "base"}),
                 !.uniswapV3 = With(@, {"ethereum"}), !.uniswapV4 = With(@, {"ethereum"})]

ValidateBaseUrl(provider) ==
  provider.url # None => \/ provider.url.scheme = "https"
                         \/ provider.url.scheme = "http" /\ (provider.insecure \/ provider.url.spelt = "loopback")

\* Ids are unique, and so are URLs once they are written one way; all are https.
EndpointsAreSound(endpoints) ==
  /\ \A i \in DOMAIN endpoints : endpoints[i].url.scheme = "https"
  /\ \A i, j \in DOMAIN endpoints : endpoints[i].id = endpoints[j].id \/ endpoints[i].url.of = endpoints[j].url.of => i = j

Enabled(feature)     == feature # None /\ feature.enabled
UsesBuiltins(feature) == Or(feature.builtins, feature.enabled)
InUse(feature, chain) == Among({e \in Range(feature.endpoints[chain]) : e.enabled}, feature.endpoints[chain])

Fits(feature) == \A c \in DOMAIN feature.endpoints : Len(feature.endpoints[c]) <= MaxListed

FeatureIsSound(feature) ==
  feature # None =>
    /\ Fits(feature)
    /\ feature.attemptMs <= feature.totalMs
    /\ \A c \in DOMAIN feature.endpoints : EndpointsAreSound(feature.endpoints[c])
    /\ IsInjective(feature.chains)
    /\ feature.enabled /\ ~UsesBuiltins(feature) => \A c \in Range(feature.chains) : InUse(feature, c) # <<>>

SoundKeys(keys) == Len(keys) \in 1..64

\* A chain is [id, names, etherscan, url]: its own names differ, the route's chain is the chain.
ParseChainDefinition(chain) ==
  IsInjective(chain.names) /\ chain.etherscan \in {None, chain.id} /\ chain.url \in {None, "https"}

\* ChainRegistry: neither an id nor a name means two chains.
RegistersAll(chains) ==
  \A i, j \in DOMAIN chains : i < j => /\ chains[i].id # chains[j].id
                                       /\ Range(chains[i].names) \cap Range(chains[j].names) = {}

SoundProvider(provider) == SoundKeys(provider.keys) /\ ValidateBaseUrl(provider)
SoundPolicy(policy)     == policy.attemptMs <= policy.totalMs
SoundPrice(kinds)       == kinds # None => IsInjective(kinds)

\* What parseClientConfiguration lets through.  Prices have providers unless the caller takes them all away.
Accepts(c) ==
  /\ c.providers # None => \A i \in DOMAIN c.providers : SoundProvider(c.providers[i])
  /\ c.proxies # None => Len(c.proxies) <= MaxListed /\ \A i \in DOMAIN c.proxies : ProxyUrl(c.proxies[i])
  /\ \A f \in {c.chainlink, c.defi, c.uniswapV3, c.uniswapV4} : FeatureIsSound(f)
  /\ SoundPolicy(c.policy)
  /\ SoundPrice(c.price)
  /\ \A i \in DOMAIN c.chains : ParseChainDefinition(c.chains[i])
  /\ RegistersAll(BuiltinChains \o c.chains)
  /\ \/ Or(c.providers, <<>>) # <<>> \/ c.storage # None \/ c.price \notin {None, <<>>}
     \/ \E f \in {c.chainlink, c.defi, c.uniswapV3, c.uniswapV4} : Enabled(f)

-----------------------------------------------------------------------------
(* The constructor's pools of archive RPC endpoints. *)

AlchemyDerived(c) ==
  LET at == SelectInSeq(Or(c.providers, <<>>), LAMBDA p : p.kind = "alchemy")
  IN  IF at = 0 THEN <<>>
      ELSE [i \in DOMAIN c.providers[at].keys |->
              Endpoint(<<"alchemy", "ethereum", i>>, Text(<<"alchemy", "ethereum">> \o c.providers[at].keys[i].of, "https"))]

BuiltinsFor(feature, chain) == IF UsesBuiltins(feature) THEN Builtins[chain] ELSE <<>>

ChainlinkEndpoints(c) ==
  LET banned == {e.id : e \in {e \in Range(c.chainlink.endpoints["ethereum"]) : ~e.enabled}}
      defi   == Enabled(c.defi) /\ Contains(c.defi.chains, "ethereum")
  IN  MergeEndpoints(<<>>, BuiltinsFor(c.chainlink, "ethereum") \o InUse(c.chainlink, "ethereum")
        \o (IF defi THEN InUse(c.defi, "ethereum") ELSE <<>>)
        \o Among({e \in Range(AlchemyDerived(c)) : e.id \notin banned}, AlchemyDerived(c)))

DeFiEndpoints(c, chain) ==
  MergeEndpoints(<<>>, BuiltinsFor(c.defi, chain) \o InUse(c.defi, chain)
    \o IF chain = "ethereum" THEN AlchemyDerived(c) ELSE <<>>)

UniswapEndpoints(feature) == MergeEndpoints(<<>>, BuiltinsFor(feature, "ethereum") \o InUse(feature, "ethereum"))

\* Who reads through which pool.  Chainlink's pool serves Ethereum for the rest; V4 takes V3's.
PoolOf(c, user) ==
  CASE user = "chainlink"     -> "archive"
    [] user = "defi-ethereum" -> IF Enabled(c.chainlink) THEN "archive" ELSE "defi-ethereum"
    [] user = "defi-base"     -> "defi-base"
    [] user = "uniswapV3"     -> IF Enabled(c.chainlink) THEN "archive" ELSE "uniswapV3"
    [] user = "uniswapV4"     -> IF ~Enabled(c.uniswapV3) THEN "uniswapV4" ELSE IF Enabled(c.chainlink) THEN "archive" ELSE "uniswapV3"

Users(c) ==
  (IF Enabled(c.chainlink) THEN {"chainlink"} ELSE {}) \cup (IF Enabled(c.uniswapV3) THEN {"uniswapV3"} ELSE {})
    \cup (IF Enabled(c.uniswapV4) THEN {"uniswapV4"} ELSE {})
    \cup (IF Enabled(c.defi) THEN {IF chain = "base" THEN "defi-base" ELSE "defi-ethereum" : chain \in Range(c.defi.chains)} ELSE {})

EndpointsOf(c, pool) ==
  CASE pool = "archive"       -> ChainlinkEndpoints(c)
    [] pool = "defi-ethereum" -> DeFiEndpoints(c, "ethereum")
    [] pool = "defi-base"     -> DeFiEndpoints(c, "base")
    [] pool = "uniswapV3"     -> UniswapEndpoints(c.uniswapV3)
    [] pool = "uniswapV4"     -> UniswapEndpoints(c.uniswapV4)

Pools(c) == [pool \in {PoolOf(c, user) : user \in Users(c)} |-> EndpointsOf(c, pool)]

\* Mutant: DeFi's own pools are left to themselves.
AttendedButDeFi(c) ==
  (IF Enabled(c.chainlink) THEN {"archive"} ELSE {}) \cup IF Enabled(c.uniswapV3) THEN {PoolOf(c, "uniswapV3")} ELSE {}
\* The pools initialize() probes, restorePersistedCooldowns() restores and the alerts look at:
\* the archive pool, DeFi's own, and V3's if it is another.
Attended(c) ==
  LET chainlink == IF Enabled(c.chainlink) THEN {"archive"} ELSE {}
      defi      == {PoolOf(c, user) : user \in Users(c) \cap {"defi-ethereum", "defi-base"}} \ chainlink
      uniswap   == IF Enabled(c.uniswapV3) THEN {PoolOf(c, "uniswapV3")} ELSE {}
  IN  chainlink \cup defi \cup uniswap

\* The constructor, from the configuration to the pools; it throws or the client is there.
Construct ==
  /\ client = None
  /\ client' = LET c == Effective(given)
               IN  IF Accepts(c) THEN [refused |-> FALSE, pools |-> Pools(c), attended |-> Attended(c)]
                   ELSE [refused |-> TRUE, pools |-> <<>>, attended |-> {}]
  /\ UNCHANGED <<given, file, process>>

SetupInit == given \in Given /\ file \in Files \cup {None} /\ process \in Processes /\ client = None

SetupNext == Construct

SetupSpec == SetupInit /\ [][SetupNext]_setupVars

-----------------------------------------------------------------------------

Made == client # None /\ ~client.refused

Found == UNION {Range(GetRpcEndpoints(c)) : c \in {"ethereum", "base"}}

\* The environment's endpoints, proxies and keys are such as the caller could have listed, and as many.
FoundIsClean ==
  /\ \A e \in Found : e.url = Text(e.url.of, "https")
  /\ \A i \in DOMAIN GetProviderConfigs : SoundKeys(GetProviderConfigs[i].keys)
  /\ Len(GetProxies) <= MaxListed
  /\ LET c == Effective(given) IN \A feature \in {c.chainlink, c.defi, c.uniswapV3, c.uniswapV4} \ {None} : Fits(feature)

\* What the caller lists for Chainlink, and for DeFi unless discovery gives the same id to Chainlink.
ListedFor(user) ==
  CASE user = "chainlink"     -> Range(given.chainlink.endpoints["ethereum"])
    [] user = "defi-ethereum" -> {e \in Range(given.defi.endpoints["ethereum"]) : e.id \notin {x.id : x \in Found}}
    [] user = "defi-base"     -> Range(given.defi.endpoints["base"])
    [] OTHER                  -> {}

Serves(pool, url) == \E i \in DOMAIN pool : pool[i].url = url

\* What an env file holds only adds: a configuration that stands without it
\* stands with it, and an endpoint the caller listed and had in service stays
\* in service (mergeEndpointConfigs, parseClientConfiguration, the
\* constructor's mergeArchiveRpcEndpoints; src/env/EnvLoader.ts:472, "cleanly
\* merging").
DiscoveryOnlyAdds ==
  client # None /\ file # None /\ FoundIsClean /\ Accepts(given) =>
    /\ Made
    /\ \A user \in Users(given) : \A e \in ListedFor(user) :
         Serves(Pools(given)[PoolOf(given, user)], e.url) => Serves(client.pools[PoolOf(given, user)], e.url)

\* Whoever reads prices or rates has an endpoint to read through, and its pool
\* is probed, restored and watched by the alerts, Uniswap V4's own pool aside
\* (the constructor, initialize, restorePersistedCooldowns, rpcPools;
\* docs/SPEC.md 16.4).
ReadersAreServed ==
  Made => \A user \in Users(Effective(given)) :
            LET pool == PoolOf(Effective(given), user)
            IN  client.pools[pool] # <<>> /\ (pool \in client.attended \/ pool = "uniswapV4")
=============================================================================
