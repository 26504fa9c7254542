-------------------------- MODULE MCApiCandidates --------------------------
(* Calls and answers for TLC. *)
EXTENDS ApiCandidates

CONSTANTS a, b, p1, p2, h1, h2

MCCandidates == <<[provider |-> "moralis", key |-> "m1"], [provider |-> "moralis", key |-> "m2"],
                  [provider |-> "etherscan", key |-> "e1"], [provider |-> "alchemy", key |-> "l1"]>>

Call(op, hashes) == [op |-> op, hashes |-> hashes]
Alone(call)      == [c \in Callers |-> IF c = a THEN call ELSE None]
Both(one, two)   == [c \in Callers |-> IF c = a THEN one ELSE two]

Few  == {Response(200, {}), Response(401, {}), Response(429, {}), Failure("ECONNRESET", 0, {})}
Pair == {Response(200, {}), Failure("ECONNRESET", 0, {})}
Fewer == Few \ {Response(429, {})}
Many == Few \cup
  {Response(s, w) : s \in {403, 404, 408, 422, 425, 500, 418}, w \in {{}, {"plan"}, {"limit"}}}
  \cup {Response(200, w) : w \in {{"key", "limit"}, {"plan"}, {"chain"}, {"request"}, {"limit"}, {"busy"}, {"other"}}}
  \cup {RpcError(n, {"other"}) : n \in {-32001, -32002, -32602, -32601, -32000}}
  \cup {Response(407, {}), Response(402, {}), Unsound, Failure("ECONNABORTED", 0, {}), Failure("none", 0, {"proxy"}), Failure("none", 0, {})}

Scenario(calls, direct, answers) == [calls |-> calls, allowDirect |-> direct, answers |-> answers]

MCScenarios ==
  {Scenario(Alone(Call("balances", <<>>)), FALSE, Many), Scenario(Alone(Call("internal", <<>>)), TRUE, Many)}
  \cup {Scenario(Alone(Call("holdings", <<>>)), d, Fewer) : d \in BOOLEAN}
  \cup {Scenario(Both(Call("contexts", <<h1>>), Call("contexts", <<h1, h2>>)), FALSE, Fewer)}
  \cup {Scenario(Both(Call("contexts", <<h1>>), Call("contexts", <<h1>>)), TRUE, Pair)}
  \cup {Scenario(Both(Call("contexts", <<h1>>), Call("contexts", <<h2>>)), TRUE, Fewer)}

\* One call for holdings, no direct route.
MCHoldings == {Scenario(Alone(Call("holdings", <<>>)), FALSE, Few)}
=============================================================================
