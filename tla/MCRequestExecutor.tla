------------------------- MODULE MCRequestExecutor -------------------------
(* Settings for TLC. *)
EXTENDS RequestExecutor

CONSTANTS r1, r2, x1, x2

\* Two keys before a candidate with one, a proxy or the direct route, a call that continues.
DirectToo == [keys |-> <<{"a1", "a2"}, {"b1"}>>, proxies |-> {x1}, allowDirect |-> TRUE, maxTotalAttempts |-> 2,
              continuations |-> {r2}, abortable |-> {}]
\* One key each, proxies only, a call with a signal.
ProxyOnly == [keys |-> <<{"a1"}, {"b1"}>>, proxies |-> {x1, x2}, allowDirect |-> FALSE, maxTotalAttempts |-> 2,
              continuations |-> {}, abortable |-> {r1}]
MCSettings == {DirectToo, ProxyOnly}

\* The smallest that lose a key.
MCOneProxy == {[ProxyOnly EXCEPT !.proxies = {x1}, !.abortable = {}]}
MCOneKey   == {[keys |-> <<{"a1"}, {"b1"}>>, proxies |-> {}, allowDirect |-> TRUE, maxTotalAttempts |-> 2,
                continuations |-> {r1}, abortable |-> {}]}
=============================================================================
