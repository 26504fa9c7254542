-------------------------- MODULE MCIndexedPages --------------------------
(* Indexes and requests for TLC: PageSize 2, so up to three pages. *)
EXTENDS IndexedPages

\* Alchemy may ask for one page more than MaxRecords fills, as 101 pages of 1,000 for 100,000; the
\* pages of holdings just fill it, as 1,000 of 100.
MCMaxPages == [etherscan |-> 4, alchemy |-> 3, moralis |-> 4, holdings |-> 2]

\* All ways of up to four rows, and five or six rows that go beyond MaxRecords in one stream.
WaySeqs == UNION {[1..n -> Ways] : n \in 0..4}
             \cup {<<"in", "in", "in", "in", "in">>, <<"in", "out", "self", "in", "in", "in">>}

Rows(ways, stale, outside) ==
  [i \in 1..Len(ways) |-> [pos |-> i, way |-> ways[i], stale |-> i = stale, outside |-> i = outside]]

Sound == {Rows(w, 0, 0) : w \in WaySeqs}

\* One row of the index is an outdated copy of the next.
WithStale == UNION {{Rows(w, i, 0) : i \in {n \in 1..3 : w[n] = w[n + 1]}} : w \in [1..4 -> {"in", "out"}]}

Ask(provider, subject, mode, direction, rows, keys) ==
  [provider |-> provider, subject |-> subject, mode |-> mode, direction |-> direction, rows |-> rows, keys |-> keys]

Good == {"exact", "late"}
MCJobs ==
  {Ask(p, "erc20", m, d, rs, k) : p \in Providers, m \in {"pages", "complete"}, d \in Directions, rs \in Sound, k \in Good}
  \cup {Ask("alchemy", "erc20", "complete", d, rs, "late") : d \in Directions, rs \in WithStale}
  \cup {Ask(p, "transactions", "pages", "both", rs, "late") : p \in Providers, rs \in Sound}
  \cup {Ask("etherscan", s, m, "both", rs, "late") : s \in {"internal", "beacon"}, m \in {"pages", "complete"}, rs \in Sound}
  \cup {Ask("etherscan", "holdings", "complete", "both", rs, "late") : rs \in Sound}
  \cup {Ask("alchemy", "internal", "complete", "both", rs, k) : rs \in Sound, k \in Good}
  \cup {Ask("etherscan", "transactions", "address", "both", Rows(w, 0, o), k) : w \in WaySeqs, o \in {0, 2}, k \in {"late", "stuck"}}
  \cup {Ask("alchemy", "transactions", "address", "both", rs, "late") : rs \in Sound}
  \cup {Ask(p, "erc20", m, "both", Rows(<<"in", "in", "self">>, 0, 0), k) :
          p \in {"alchemy", "moralis"}, m \in {"pages", "complete"}, k \in {"same"}}
  \cup {Ask(p, "transactions", "address", "both", Rows(<<"in", "in", "self">>, 0, 0), "same") : p \in {"alchemy", "moralis"}}
  \cup {Ask(p, "erc20", "complete", "both", Rows(<<"in", "in", "self">>, 0, 0), "stuck") : p \in {"alchemy", "moralis"}}
  \cup {Ask("etherscan", s, "complete", "both", Rows(<<"in", "in", "self">>, 0, 0), "stuck") : s \in {"erc20", "internal"}}
=============================================================================
