--------------------------- MODULE IndexedPages ---------------------------
(***************************************************************************)
(* How the adapters read a paged index: one page for a caller, who comes   *)
(* back with a cursor, or every page of a closed range in one call; and    *)
(* the loop of AddressService that follows the cursors itself.             *)
(*                                                                         *)
(* Etherscan and Blockscout number their pages, Alchemy and Moralis hand   *)
(* out keys.  Alchemy filters by sender or by recipient, so both           *)
(* directions are two streams at their own pace.  A row is its position in *)
(* the index, the way the value went, and, in Alchemy's index, whether it  *)
(* is an outdated copy of the next row, seen before a reorganisation.      *)
(* Order is ascending.  Bound: Jobs.                                       *)
(***************************************************************************)
EXTENDS Lists, Integers, FiniteSets, SequencesExt

CONSTANTS
  Jobs,        \* what is read: [provider, subject, mode, direction, rows, keys]
  PageSize,    \* rows of a full page
  MaxPages,    \* requests of one complete read, by provider and of token holdings
  MaxRecords   \* rows of a complete read

Providers  == {"etherscan", "alchemy", "moralis"}
Ways       == {"in", "out", "self"}
Directions == {"incoming", "outgoing", "both"}
Row        == [pos : Nat \ {0}, way : Ways, stale : BOOLEAN, outside : BOOLEAN]

\* How the service ends a listing: no key after the last row, a key after every full page
\* (even the last), the key it was given, or the first page again under two keys in turn.
Endings == {"exact", "late", "same", "stuck"}

ASSUME PagesAssumption ==
  /\ PageSize \in Nat \ {0} /\ MaxRecords \in Nat \ {0}
  /\ MaxPages \in [Providers \cup {"holdings"} -> Nat \ {0}]
  /\ \A j \in Jobs : /\ j.provider \in Providers /\ j.direction \in Directions
                     /\ j.subject \in {"transactions", "erc20", "internal", "beacon", "holdings"}
                     /\ j.mode \in {"pages", "complete", "address"}
                     /\ j.rows \in Seq(Row) /\ j.keys \in Endings

\* Rows come in the order of the index; an outdated copy, which only Alchemy's index of tokens has,
\* stands before the transfer it is a copy of; only AddressService, which reads transactions, looks
\* for a row outside its range; Alchemy lists no internal transfers page by page.
ASSUME JobsAssumption == \A j \in Jobs :
  /\ \A i \in DOMAIN j.rows :
       /\ j.rows[i].pos = i
       /\ j.rows[i].stale => /\ j.provider = "alchemy" /\ j.subject = "erc20"
                             /\ i + 1 \in DOMAIN j.rows /\ j.rows[i + 1].way = j.rows[i].way
       /\ j.rows[i].outside => j.mode = "address"
  /\ j.mode = "address" => j.subject = "transactions"
  /\ j.provider = "alchemy" => j.subject \in {"transactions", "erc20"} \/ (j.subject = "internal" /\ j.mode = "complete")
  /\ j.subject = "holdings" => j.provider = "etherscan"

\* 101 pages of 1,000, 1,000 of 1,000 and 10,001 of 100 for 100,000 rows; 1,000 of 100 for holdings.
ASSUME RoomAssumption ==
  /\ \A p \in Providers : MaxPages[p] * PageSize > MaxRecords
  /\ MaxPages["holdings"] * PageSize >= MaxRecords

VARIABLES
  job,      \* one of Jobs, for good
  stream,   \* stream[s]: [key, pages, rows, status]; between pages, the cursor
  call,     \* the call of the adapter, or of AddressService
  listed,   \* the rows handed over so far
  aborted   \* the caller's signal

vars == <<job, stream, call, listed, aborted>>

Failures == {"too_large", "invalid", "failed"}
Ended    == Failures \cup {"returned", "stalled", "aborted"}

TwoStreams(j) == j.provider = "alchemy" /\ j.direction = "both"
Streams(j)    == IF TwoStreams(j) THEN {"incoming", "outgoing"} ELSE {"single"}

DirectionMatches(r, direction) ==
  \/ direction = "both"
  \/ direction = "incoming" /\ r.way \in {"in", "self"}
  \/ direction = "outgoing" /\ r.way \in {"out", "self"}

-----------------------------------------------------------------------------
(* One request. *)

\* What the service serves: Alchemy filters by address side, the others by address.
Upstream(j, s) ==
  IF j.provider # "alchemy" THEN j.rows
  ELSE Among({r \in ToSet(j.rows) : DirectionMatches(r, IF TwoStreams(j) THEN s ELSE j.direction)}, j.rows)

PageAt(j, s, key) ==
  LET all == Upstream(j, s)
      at  == IF j.keys = "stuck" THEN 1 ELSE key
  IN  SubSeq(all, (at - 1) * PageSize + 1, IF at * PageSize < Len(all) THEN at * PageSize ELSE Len(all))

\* A page of Etherscan that is not full is its last one.
NextPage(length, page) == IF length >= PageSize THEN page + 1 ELSE 0

\* The key of the following page, 0 for none: the adapter's number or the service's key.
NextKey(j, s, key) ==
  LET length == Len(PageAt(j, s, key))
  IN  IF j.provider = "etherscan" THEN NextPage(length, IF j.keys = "stuck" /\ key = 2 THEN 0 ELSE key)
      ELSE IF j.keys = "same" THEN key
      ELSE IF j.keys = "stuck" THEN 3 - key
      ELSE IF j.keys = "exact" THEN (IF key * PageSize < Len(Upstream(j, s)) THEN key + 1 ELSE 0)
      ELSE IF length = PageSize THEN key + 1 ELSE 0

\* Mutant: both streams keep it, as Alchemy's transactions do.
ExcludeSelfNever(j, s) == FALSE

\* A transfer to oneself is in both streams; of tokens, the outgoing one keeps it.
ExcludeSelf(j, s) == TwoStreams(j) /\ s = "incoming" /\ j.subject = "erc20"

\* What the adapter keeps of a page.
Kept(j, s, rows) ==
  Among({r \in ToSet(rows) : /\ j.provider # "alchemy" => DirectionMatches(r, j.direction)
                             /\ ~(ExcludeSelf(j, s) /\ r.way = "self")}, rows)

\* The adapters that skip the rows they have seen; a Map does it for Alchemy's two streams.
Deduplicates(j) == j.provider = "moralis" \/ (j.provider = "etherscan" /\ j.subject # "erc20")

Unseen(rows, old) == Among(ToSet(rows) \ ToSet(old), rows)

\* Etherscan's token transfers are filtered when the range is complete.
Gathered(j, s, old, page) ==
  LET rows == IF j.provider = "etherscan" /\ j.subject = "erc20" THEN page ELSE Kept(j, s, page)
  IN  old \o (IF Deduplicates(j) THEN Unseen(rows, old) ELSE rows)

\* Only the newest copy of a transfer, of those the adapter has in hand.
DeduplicateCanonicalTransactionBlocks(rows) ==
  Among({r \in ToSet(rows) : ~(r.stale /\ \E n \in ToSet(rows) : n.pos = r.pos + 1)}, rows)

\* A set of rows in the order of the index.
InOrder(j, rows) == Among(rows, j.rows)

\* The rows of one page or of a whole range, from rows[s].
Merged(j, rows) ==
  IF TwoStreams(j) THEN
    LET all == InOrder(j, ToSet(rows["incoming"]) \cup ToSet(rows["outgoing"]))
    IN  IF j.subject = "erc20" THEN DeduplicateCanonicalTransactionBlocks(all) ELSE all
  ELSE IF j.mode = "complete" /\ j.provider = "alchemy" /\ j.subject = "erc20"
    THEN DeduplicateCanonicalTransactionBlocks(rows["single"])
  ELSE Kept(j, "single", rows["single"])

-----------------------------------------------------------------------------
(* A complete read: every stream follows its own keys. *)

\* Is the size checked before the end of the pages?
SizeFirst(j) == ~(j.provider = "etherscan" /\ j.subject \in {"internal", "beacon", "holdings"})

PageLimit(j) == MaxPages[IF j.subject = "holdings" THEN "holdings" ELSE j.provider]

\* Mutant: no room for the empty page.
StatusAfterEarly(j, rows, key, next, pages) ==
  IF next = 0 THEN "done"
  ELSE IF Len(rows) > MaxRecords THEN "too_large"
  ELSE IF next = key \/ pages + 1 = PageLimit(j) THEN "invalid"
  ELSE "open"

StatusAfter(j, rows, key, next, pages) ==
  IF SizeFirst(j) /\ Len(rows) > MaxRecords THEN "too_large"
  ELSE IF next = 0 THEN "done"
  ELSE IF Len(rows) > MaxRecords THEN "invalid"
  ELSE IF next = key THEN "invalid"
  ELSE IF pages = PageLimit(j) THEN "invalid"
  ELSE "open"

Fetched(j, s, st) ==
  LET rows == Gathered(j, s, st.rows, PageAt(j, s, st.key))
      next == NextKey(j, s, st.key)
  IN  [key |-> next, pages |-> st.pages + 1, rows |-> rows,
       status |-> StatusAfter(j, rows, st.key, next, st.pages + 1)]

\* Promise.all: the first failure ends the call; the other stream is not stopped.
CallAfter(streams) ==
  IF call # "running" THEN call
  ELSE IF \E s \in DOMAIN streams : streams[s].status \in Failures
    THEN streams[CHOOSE s \in DOMAIN streams : streams[s].status \in Failures].status
  ELSE IF \A s \in DOMAIN streams : streams[s].status = "done" THEN "returned"
  ELSE "running"

AllDone(streams) == \A s \in DOMAIN streams : streams[s].status = "done"

\* Another request of one stream.  beforeProviderRequest, which may refuse it, is in FailPage.
FetchPage(s) ==
  /\ job.mode = "complete" /\ stream[s].status = "open"
  /\ stream' = [stream EXCEPT ![s] = Fetched(job, s, @)]
  /\ call' = CallAfter(stream')
  /\ listed' = IF call # "returned" /\ call' = "returned"
               THEN Merged(job, [t \in Streams(job) |-> stream'[t].rows]) ELSE listed
  /\ UNCHANGED <<job, aborted>>

\* The request fails, or the pace before it: so does the call.
FailPage(s) ==
  /\ job.mode = "complete" /\ stream[s].status = "open"
  /\ stream' = [stream EXCEPT ![s].status = "failed"]
  /\ call' = CallAfter(stream')
  /\ UNCHANGED <<job, listed, aborted>>

-----------------------------------------------------------------------------
(* Page by page. *)

\* Who looks at the key that comes back: not Etherscan, not Alchemy's transactions.
ChecksKey(j) == j.provider = "moralis" \/ (j.provider = "alchemy" /\ j.subject = "erc20")

\* The state of a stream in the next cursor.
Turned(j, s, st) ==
  IF st.status = "done" THEN st
  ELSE LET next == NextKey(j, s, st.key)
       IN  [st EXCEPT !.key = next,
                      !.status = IF next = 0 THEN "done"
                                 ELSE IF next = st.key /\ ChecksKey(j) THEN "invalid"
                                 ELSE "open"]

\* One page: an exhausted stream adds nothing to it.
PageItems ==
  LET rows == [s \in Streams(job) |-> IF stream[s].status = "done" THEN <<>>
                                      ELSE Kept(job, s, PageAt(job, s, stream[s].key))]
  IN  Merged(job, rows)

\* A caller asks for the first page, or goes on with the cursor.
ListPage ==
  /\ job.mode = "pages" /\ call = "running"
  /\ stream' = [s \in Streams(job) |-> Turned(job, s, stream[s])]
  /\ IF \E s \in Streams(job) : stream'[s].status = "invalid"
       THEN call' = "invalid" /\ listed' = listed
       ELSE /\ listed' = listed \o PageItems
            /\ call' = IF AllDone(stream') THEN "returned" ELSE "running"
  /\ UNCHANGED <<job, aborted>>

\* AddressService: the rows of the page, up to the first that ends the scan.
Recorded(rows) == listed \o Unseen(rows, listed)

\* AddressService follows the cursor until there is none.
FollowCursor ==
  /\ job.mode = "address" /\ call = "running" /\ ~aborted
  /\ stream' = [s \in Streams(job) |-> Turned(job, s, stream[s])]
  /\ \E items \in {PageItems} :
       IF \E s \in Streams(job) : stream'[s].status = "invalid" THEN call' = "invalid" /\ listed' = listed
       ELSE IF \E r \in ToSet(items) : r.outside THEN call' = "stalled" /\ listed' = listed
       ELSE IF Len(Recorded(items)) > MaxRecords THEN call' = "too_large" /\ listed' = listed
       ELSE /\ listed' = Recorded(items)
            /\ call' = IF AllDone(stream') THEN "returned" ELSE "running"
  /\ UNCHANGED <<job, aborted>>

\* The call of a page fails for good: AddressService has nothing to return.
FailCursor ==
  /\ job.mode = "address" /\ call = "running" /\ ~aborted
  /\ call' = "failed"
  /\ UNCHANGED <<job, stream, listed, aborted>>

\* Mutant: the loop does not look at the signal.
StopScanUnseen ==
  job.mode = "address" /\ call = "running" /\ aborted /\ UNCHANGED vars

\* The signal ends the loop before its next page.
StopScan ==
  /\ job.mode = "address" /\ call = "running" /\ aborted
  /\ call' = "aborted"
  /\ UNCHANGED <<job, stream, listed, aborted>>

Abort ==
  /\ job.mode = "address" /\ call = "running" /\ ~aborted
  /\ aborted' = TRUE
  /\ UNCHANGED <<job, stream, call, listed>>

-----------------------------------------------------------------------------
Init ==
  /\ job \in Jobs
  /\ stream = [s \in Streams(job) |-> [key |-> 1, pages |-> 0, rows |-> <<>>, status |-> "open"]]
  /\ call = "running" /\ listed = <<>> /\ aborted = FALSE

Next ==
  \/ \E s \in Streams(job) : FetchPage(s) \/ FailPage(s)
  \/ ListPage
  \/ FollowCursor \/ FailCursor \/ StopScan
  \/ Abort

\* The adapters and AddressService go on by themselves; a caller need not ask for a page.
Fairness ==
  /\ \A s \in {"single", "incoming", "outgoing"} : WF_vars(s \in Streams(job) /\ FetchPage(s))
  /\ WF_vars(FollowCursor) /\ WF_vars(StopScan)

Spec == Init /\ [][Next]_vars /\ Fairness

-----------------------------------------------------------------------------
(* Properties. *)

Honest     == job.keys \in {"exact", "late"}
NoRowTwice == Cardinality(ToSet(listed)) = Len(listed)
Newest(r)  == ~(r.stale /\ \E n \in ToSet(job.rows) : n.pos = r.pos + 1)

\* Whatever the pace of the streams, the filters and the end of the pages, what a complete read or a
\* followed cursor returns is every row that was asked for, once, without the outdated copies
\* Alchemy's index has of a transfer; and no listing repeats a row on a later page.  Alchemy's
\* transactions are left out of the last: a transaction to oneself is in both streams
\* (AlchemyAdapter, EtherscanAdapter, MoralisAdapter, AddressService.getTransactionsByBlockRange).
ListingIsExact ==
  /\ Honest => NoRowTwice \/ (TwoStreams(job) /\ job.subject = "transactions")
  /\ call = "returned" =>
       LET wanted == {r \in ToSet(job.rows) : DirectionMatches(r, job.direction) /\ ~r.outside}
       IN  /\ ToSet(listed) \subseteq wanted
           /\ \A r \in wanted : Newest(r) => r \in ToSet(listed)
           /\ job.mode = "complete" =>
                /\ NoRowTwice
                /\ job.subject = "erc20" => \A r \in ToSet(listed) : Newest(r)

\* A service that ends its listing honestly, with or without a last empty page, is read to the end:
\* the limits of pages and of records stop only a read of more rows than the record limit, of one
\* stream or, in AddressService, of both (the page limits of the adapters leave room for the empty
\* page).  Etherscan's token holdings alone have no such room: exactly as many rows as the limit
\* are refused (EtherscanAdapter.getErc20TokenHoldings).
LimitsAreWideEnough ==
  call \in {"too_large", "invalid"} /\ Honest =>
    \/ \E s \in Streams(job) : Len(Upstream(job, s)) > MaxRecords
    \/ job.mode = "address" /\ Len(job.rows) > MaxRecords
    \/ job.subject = "holdings" /\ Len(job.rows) = MaxRecords

\* A complete read ends whatever keys the service hands out, with the stream that Promise.all has
\* left behind; AddressService ends if the service ends its listing, and else when it is aborted.
\* (It has no limit of pages, and the transactions of Etherscan and Alchemy do not check their keys.)
PagingEnds ==
  (job.mode = "complete" \/ (job.mode = "address" /\ (Honest \/ aborted)))
    ~> (call \in Ended /\ (job.mode = "complete" => \A s \in Streams(job) : stream[s].status # "open"))
=============================================================================
