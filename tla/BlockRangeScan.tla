--------------------------- MODULE BlockRangeScan ---------------------------
(***************************************************************************)
(* BlockRangeScanner.scan: one closed block range, fetched window by       *)
(* window through the request executor, split where the provider cannot    *)
(* prove a window complete, with or without an onWindow callback.          *)
(*                                                                         *)
(* A provider's index is a set of entries; an entry without a log index    *)
(* has transfer = None.  The checks of the pin at lines 72-80 and 93-96    *)
(* cannot fail: the executor maps a result only with its candidate's own   *)
(* name and chain, and executes a pinned request on the pin alone.         *)
(***************************************************************************)
EXTENDS Integers, Sequences, FiniteSets

CONSTANTS
  StartBlock, EndBlock,   \* the requested closed range
  MaxRangeWindows,
  MaxRangeRecords,
  Index,                  \* Index[p]: what provider p has indexed
  None

Providers == DOMAIN Index
Entry     == UNION {Index[p] : p \in Providers}
Window    == [start : Int, end : Int]

ASSUME RangeAssumption == StartBlock \in Nat /\ EndBlock \in Nat /\ StartBlock <= EndBlock
ASSUME LimitAssumption == MaxRangeWindows \in Nat \ {0} /\ MaxRangeRecords \in Nat \ {0}
ASSUME ScanAssumption  == None \notin Window \cup Providers /\ \A x \in Entry : x.block \in Nat

VARIABLES
  streaming,   \* an onWindow callback was given
  status,      \* where the scan stands, or the error it ended with
  pending,     \* windows still to fetch, ascending
  completed,   \* windows whose every record is accounted for
  window,      \* the window being fetched or handed to the callback
  pin,         \* the provider every later window is bound to
  records,     \* entries collected (no callback), or of the current window
  delivered,   \* entries the callback has taken over
  calls        \* history: windows requested from the executor

vars == <<streaming, status, pending, completed, window, pin, records, delivered, calls>>

Failures == {"REQUEST_ABORTED", "BLOCK_RANGE_STALLED", "BLOCK_RANGE_INCOMPLETE",
             "RANGE_RESULT_TOO_LARGE", "callback rejected"}

TypeOK ==
  /\ streaming \in BOOLEAN
  /\ status \in {"scanning", "fetching", "delivering", "returned"} \cup Failures
  /\ pending \in Seq(Window)
  /\ completed \in Seq(Window)
  /\ window \in Window \cup {None}
  /\ pin \in Providers \cup {None}
  /\ records \subseteq Entry
  /\ delivered \subseteq Entry
  /\ calls \in Nat

Init ==
  /\ streaming \in BOOLEAN
  /\ status = "scanning"
  /\ pending = <<[start |-> StartBlock, end |-> EndBlock]>>
  /\ completed = <<>>
  /\ window = None
  /\ pin = None
  /\ records = {}
  /\ delivered = {}
  /\ calls = 0

-----------------------------------------------------------------------------
(* Helpers *)

\* Mutant: the second half starts on the midpoint too.
SplitWindowOverlapping(w) ==
  LET midpoint == (w.start + w.end) \div 2
  IN  <<[start |-> w.start, end |-> midpoint], [start |-> midpoint, end |-> w.end]>>

SplitWindow(w) ==
  LET midpoint == (w.start + w.end) \div 2
  IN  <<[start |-> w.start, end |-> midpoint], [start |-> midpoint + 1, end |-> w.end]>>

\* Mutant: the halves go to the back of the queue.
RequeueBack(halves) == pending \o halves

Requeue(halves) == halves \o pending

Blocks(w) == w.start..w.end

\* The windows, sorted by start, follow one another from s to e.
CoversExactly(ws, s, e) ==
  /\ \A i \in DOMAIN ws : ws[i].start <= ws[i].end
  /\ \A i, j \in DOMAIN ws : i # j => Blocks(ws[i]) \cap Blocks(ws[j]) = {}
  /\ UNION {Blocks(ws[i]) : i \in DOMAIN ws} = s..e

\* Mutant: no pin, each window is served by whichever provider comes first.
ServedByAny == Providers

\* The executor falls back between providers only until the first answer.
ServedBy == IF pin = None THEN Providers ELSE {pin}

InWindow(p, w) == {x \in Index[p] : x.block \in Blocks(w)}

SameIdentity(x, y) == x.id = y.id

\* What the loop over the items keeps: the first of each identity, in the
\* ascending order of the answer, that was not seen before.
Fresh(answer, seen) ==
  {x \in answer : /\ \A y \in seen : ~SameIdentity(x, y)
                  /\ \A y \in answer : SameIdentity(x, y) => x.block <= y.block}

\* Mutant: phantom entries of a reorganised transaction stay.
NotDeduplicated(rs) == rs

\* Of the entries of one transfer, those of the highest block.
DeduplicateCanonicalItems(rs) ==
  {x \in rs : x.transfer = None \/ \A y \in rs : y.transfer = x.transfer => y.block <= x.block}

-----------------------------------------------------------------------------
\* Mutant: a stalled scan is not thrown.
FailQuietly(code) ==
  /\ status' = IF code = "BLOCK_RANGE_STALLED" THEN status ELSE code
  /\ UNCHANGED <<streaming, pending, completed, window, pin, records, delivered, calls>>

Fail(code) ==
  /\ status' = code
  /\ UNCHANGED <<streaming, pending, completed, window, pin, records, delivered, calls>>

\* Mutant: the two halves just queued are not counted.
WindowLimitReachedLate == Len(completed) + Len(pending) > MaxRangeWindows + 1

WindowLimitReached == Len(completed) + Len(pending) > MaxRangeWindows

\* The head of the loop: the caller's signal, the window limit, the request.
Abort ==
  /\ status = "scanning"
  /\ pending # <<>>
  /\ Fail("REQUEST_ABORTED")

ExceedWindows ==
  /\ status = "scanning"
  /\ pending # <<>>
  /\ WindowLimitReached
  /\ Fail("BLOCK_RANGE_STALLED")

Request ==
  /\ status = "scanning"
  /\ pending # <<>>
  /\ ~WindowLimitReached
  /\ status' = "fetching"
  /\ window' = Head(pending)
  /\ pending' = Tail(pending)
  /\ calls' = calls + 1
  /\ UNCHANGED <<streaming, completed, pin, records, delivered>>

\* The executor throws: its own abort and stall pass, anything else becomes
\* BLOCK_RANGE_INCOMPLETE.
RequestFails ==
  /\ status = "fetching"
  /\ \E code \in {"REQUEST_ABORTED", "BLOCK_RANGE_STALLED", "BLOCK_RANGE_INCOMPLETE"} : Fail(code)

\* The provider could not prove the window complete.
SplitOrStall(p) ==
  /\ status = "fetching"
  /\ p \in ServedBy
  /\ pin' = p
  /\ IF window.start = window.end
     THEN /\ status' = "BLOCK_RANGE_STALLED"
          /\ UNCHANGED <<pending, window>>
     ELSE /\ status' = "scanning"
          /\ pending' = Requeue(SplitWindow(window))
          /\ window' = None
  /\ UNCHANGED <<streaming, completed, records, delivered, calls>>

\* A complete answer with an item outside the window, the chain or the
\* provider, or without any identity.
RejectItems(p) ==
  /\ status = "fetching"
  /\ p \in ServedBy
  /\ pin' = p
  /\ status' = "BLOCK_RANGE_STALLED"
  /\ UNCHANGED <<streaming, pending, completed, window, records, delivered, calls>>

Complete ==
  /\ completed' = Append(completed, window)
  /\ window' = None
  /\ status' = "scanning"

\* A complete answer, collected; with a callback the window is handed over.
Collect(p) ==
  /\ status = "fetching"
  /\ p \in ServedBy
  /\ pin' = p
  /\ LET seen == IF streaming THEN {} ELSE records
         kept == seen \cup Fresh(InWindow(p, window), seen)
     IN  IF Cardinality(kept) > MaxRangeRecords
         THEN /\ status' = "RANGE_RESULT_TOO_LARGE"
              /\ UNCHANGED <<completed, window, records>>
         ELSE /\ records' = kept
              /\ IF streaming
                 THEN status' = "delivering" /\ UNCHANGED <<completed, window>>
                 ELSE Complete
  /\ UNCHANGED <<streaming, pending, delivered, calls>>

\* await onWindow(...)
CallbackDone ==
  /\ status = "delivering"
  /\ delivered' = delivered \cup records
  /\ Complete
  /\ UNCHANGED <<streaming, pending, pin, records, calls>>

CallbackRejects ==
  /\ status = "delivering"
  /\ Fail("callback rejected")

\* After the loop.
Finish ==
  /\ status = "scanning"
  /\ pending = <<>>
  /\ Fail(IF CoversExactly(completed, StartBlock, EndBlock)
          THEN "returned" ELSE "BLOCK_RANGE_INCOMPLETE")

Items == IF streaming THEN {} ELSE DeduplicateCanonicalItems(records)

Progress ==
  \/ ExceedWindows
  \/ Request
  \/ RequestFails
  \/ \E p \in Providers : SplitOrStall(p) \/ RejectItems(p) \/ Collect(p)
  \/ CallbackDone
  \/ CallbackRejects
  \/ Finish

Next == Abort \/ Progress

Spec == Init /\ [][Next]_vars

\* The event loop runs on, the executor settles within its total deadline and
\* the callback settles; nobody need ever abort.
FairSpec == Spec /\ WF_vars(Progress)

-----------------------------------------------------------------------------
(* Properties *)

\* The windows ws tile s..(e - 1) in ascending order, each block once.
Spans(ws, s, e) ==
  IF ws = <<>> THEN s = e
  ELSE /\ ws[1].start = s
       /\ ws[Len(ws)].end + 1 = e
       /\ \A i \in 1..Len(ws) : ws[i].start <= ws[i].end
       /\ \A i, j \in 1..Len(ws) : i < j => ws[i].end < ws[j].start
       /\ \A i \in 1..(Len(ws) - 1) : ws[i + 1].start = ws[i].end + 1

\* The coverage ledger: what is completed, then the window in hand, then what
\* is pending, tile the requested range at every instant of a scan, whatever
\* was split on the way.
Ledger == completed \o (IF window = None THEN <<>> ELSE <<window>>) \o pending

LedgerTilesRange == Spans(Ledger, StartBlock, EndBlock + 1)

\* The window limit bounds the upstream work too: a scan asks the executor at
\* most 2 * MaxRangeWindows - 1 times, splits included.
CallsBounded == calls <= 2 * MaxRangeWindows - 1

\* SPEC 12.2: a successful response contains every matching transfer of the
\* range, once, as one provider's index has it; of a transaction indexed in
\* two blocks only the later survives.
CanonicalEntries(p) ==
  LET inRange == {x \in Index[p] : x.block \in StartBlock..EndBlock}
  IN  {x \in inRange : \/ x.transfer = None
                       \/ \A y \in inRange : y.transfer = x.transfer => y.block <= x.block}

ResultIsExact ==
  status = "returned" /\ ~streaming => \E p \in Providers : Items = CanonicalEntries(p)

\* What the callback has taken over is all of one provider's entries up to the
\* last completed window and nothing after it, however the scan ends: the
\* caller may keep the block behind it as a checkpoint.
NextBlock == IF completed = <<>> THEN StartBlock ELSE completed[Len(completed)].end + 1

DeliveredIsPrefix ==
  streaming /\ delivered # {} =>
    \E p \in Providers : delivered = {x \in Index[p] : x.block \in StartBlock..(NextBlock - 1)}

\* The scan implements the abstract coverage.
Coverage == INSTANCE RangeCoverage WITH
  next    <- NextBlock,
  outcome <- IF status = "returned" THEN "returned"
             ELSE IF status \in Failures THEN "failed" ELSE "running"

ImplementsCoverage == Coverage!Spec

\* Every scan settles, returned or failed.
Settles == <>(status \in {"returned"} \cup Failures)

=============================================================================
