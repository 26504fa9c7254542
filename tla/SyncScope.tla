----------------------------- MODULE SyncScope -----------------------------
(***************************************************************************)
(* SyncService over one scope row: update calls that read the cursor,      *)
(* claim the scope, fetch one window and commit its facts with the cursor; *)
(* recollect calls that commit without a claim; crashes, runs that outlast *)
(* the five minutes of a claim, and chain reorganisations meanwhile.       *)
(*                                                                         *)
(* The address has one transfer in every block.  A reorganisation gives    *)
(* the block another transfer, a new version.  The fact table is a set of  *)
(* rows: a row of another version has another identity, so an upsert does  *)
(* not overwrite it.  Bounds: LastBlock and the reorgs of a scenario.      *)
(***************************************************************************)
EXTENDS Integers, FiniteSets

CONSTANTS
  Runs,             \* callers, each with one call at a time
  Slow,             \* those of them whose window may take over five minutes
  LastBlock,        \* highest block of the chain
  Overlap,          \* reorgOverlapBlocks
  WindowBlocks,     \* maxBlocks, or the configured maxWindowBlocks
  Starts, Targets,  \* the fromBlock (None: omitted) and toBlock of a call
  Scenarios,        \* [callers, recollects, reorgs, driver]: who calls at once, the
                    \* recollect calls made, each [start, end, replace], how often
                    \* the chain reorganises, "sqlite" or "postgres"
  None

Blocks  == 0..LastBlock
Row     == [block : Blocks, version : Nat]
Scope   == [next : Nat, last : Nat \cup {None}, status : {"running", "stale", "idle", "failed"}]
Idle    == [pc |-> "idle"]
Working == [pc : {"planned", "claiming", "fetching", "fetched", "recollecting"},
            start : Blocks, end : Blocks, replaces : BOOLEAN, stalls : BOOLEAN,
            rows : SUBSET Row]

ASSUME BlockAssumption == LastBlock \in Nat /\ Overlap \in Nat /\ WindowBlocks \in Nat \ {0}
ASSUME CallAssumption ==
  /\ Starts \subseteq Blocks \cup {None}
  /\ Targets \subseteq Blocks
ASSUME SyncAssumption ==
  /\ Slow \subseteq Runs
  /\ \A s \in Scenarios :
       /\ s.callers \subseteq Runs /\ s.reorgs \in Nat /\ s.driver \in {"sqlite", "postgres"}
       /\ \A w \in s.recollects :
            w.start \in Blocks /\ w.end \in w.start..LastBlock /\ w.replace \in BOOLEAN
  /\ None \notin Int /\ None \notin Scope
  /\ IsFiniteSet(Runs)

VARIABLES
  scenario, \* one of Scenarios, for good
  chain,   \* chain[b]: the version of block b the providers serve
  scope,   \* the sdk_sync_scopes row, or None; "stale" is running for over five minutes
  facts,   \* the fact table
  run,     \* run[r]: the call of r
  origin,  \* history: the start the row was created with
  outlived \* history: some run outlasted its claim

history == <<origin, outlived>>
vars    == <<scenario, chain, scope, facts, run, history>>

TypeOK ==
  /\ scenario \in Scenarios
  /\ chain \in [Blocks -> Nat]
  /\ scope \in Scope \cup {None}
  /\ facts \subseteq Row
  /\ origin \in Nat \cup {None}
  /\ run \in [Runs -> {Idle} \cup Working]
  /\ outlived \in BOOLEAN

Init ==
  /\ scenario \in Scenarios
  /\ chain = [b \in Blocks |-> 0]
  /\ scope = None
  /\ facts = {}
  /\ origin = None
  /\ run = [r \in Runs |-> Idle]
  /\ outlived = FALSE

-----------------------------------------------------------------------------
(* Helpers *)

MinOf(a, b) == IF a < b THEN a ELSE b
MaxOf(a, b) == IF a < b THEN b ELSE a

\* The chain's rows of a closed range, and the table's.
Served(s, e)       == {[block |-> b, version |-> chain[b]] : b \in s..e}
FactsIn(s, e)      == {x \in facts : x.block \in s..e}

\* Mutant: one block further back than the overlap.
OverlapStartTooFar(cursor) == MaxOf(cursor - Overlap - 1, 0)

OverlapStart(cursor)       == MaxOf(cursor - Overlap, 0)
BoundedEnd(start, target)  == MinOf(start + WindowBlocks - 1, target)

\* Mutant: a claim is taken over whatever its age.
BusyNever == FALSE
Busy == scope # None /\ scope.status = "running"

\* r is between its claim and the end of its window.
Holds(r) == run[r].pc \in {"fetching", "fetched"}

\* BEGIN IMMEDIATE: while a transaction is open no other begins.  PostgreSQL's
\* default isolation lets it read what the other is about to change.
Unlocked == scenario.driver = "sqlite" => \A q \in Runs : run[q].pc # "claiming"

\* INSERT OR IGNORE of the scope row.
Existing(start) ==
  IF scope = None THEN [next |-> start, last |-> None, status |-> "running"] ELSE scope

\* Mutant: the last complete block follows the window back.
AdvancedWithoutLast(start, end) ==
  [next |-> IF scope = None THEN end + 1 ELSE MaxOf(end + 1, scope.next), last |-> end, status |-> "idle"]

\* Mutant: the row is overwritten, whatever it has reached.
AdvancedAnyhow(start, end) == [next |-> end + 1, last |-> end, status |-> "idle"]

\* commitScope: cursor and last complete block never move back.
Advanced(start, end) ==
  IF scope = None
  THEN [next |-> end + 1, last |-> end, status |-> "idle"]
  ELSE [next   |-> MaxOf(end + 1, scope.next),
        last   |-> IF scope.last = None THEN end ELSE MaxOf(end, scope.last),
        status |-> "idle"]

-----------------------------------------------------------------------------
(* update *)

\* Before the claim: the row is read, the head sampled, the window chosen.
\* The overlapped facts go when the window starts below the cursor just read;
\* a window that ends before that cursor will be refused.
Plan(r, from, target) ==
  LET cursor == IF scope = None THEN 0 ELSE scope.next
      start  == IF from = None THEN OverlapStart(cursor) ELSE from
      end    == BoundedEnd(start, target)
  IN  /\ run[r] = Idle
      /\ ~Busy
      /\ scope # None /\ from # None => from <= scope.next
      /\ from = None => cursor <= target
      /\ start <= target
      /\ run' = [run EXCEPT ![r] =
                   [pc |-> "planned", start |-> start, end |-> end, rows |-> {},
                    replaces |-> start < cursor, stalls |-> target >= cursor /\ end < cursor]]
      /\ UNCHANGED <<scenario, chain, scope, facts, history>>

\* The claim reads the row again, in its transaction.
ClaimRead(r) ==
  /\ run[r].pc = "planned"
  /\ Unlocked
  /\ run' = [run EXCEPT ![r] = IF Busy THEN Idle ELSE [@ EXCEPT !.pc = "claiming"]]
  /\ UNCHANGED <<scenario, chain, scope, facts, history>>

ClaimWrite(r) ==
  /\ run[r].pc = "claiming"
  /\ scope' = [Existing(run[r].start) EXCEPT !.status = "running"]
  /\ origin' = IF scope = None THEN run[r].start ELSE origin
  /\ run' = [run EXCEPT ![r].pc = "fetching"]
  /\ UNCHANGED <<scenario, chain, facts, outlived>>

Fetch(r) ==
  /\ run[r].pc = "fetching"
  /\ run' = [run EXCEPT ![r].pc = "fetched", ![r].rows = Served(run[r].start, run[r].end)]
  /\ UNCHANGED <<scenario, chain, scope, facts, history>>

\* Mutant: nothing goes.
ReplacedNever(w) == {}

Replaced(w) == IF w.replaces THEN FactsIn(w.start, w.end) ELSE {}

\* One transaction: overlapped facts out, fetched facts in, cursor and status.
CommitWindow(r) ==
  /\ Unlocked
  /\ facts' = (facts \ Replaced(run[r])) \cup run[r].rows
  /\ scope' = Advanced(run[r].start, run[r].end)
  /\ origin' = IF scope = None THEN run[r].start ELSE origin
  /\ run' = [run EXCEPT ![r] = Idle]
  /\ UNCHANGED <<scenario, chain, outlived>>

Commit(r) ==
  /\ run[r].pc = "fetched"
  /\ ~run[r].stalls
  /\ CommitWindow(r)

\* The catch block, whoever holds the claim by now.
MarkFailed(r) ==
  /\ Unlocked
  /\ scope' = [scope EXCEPT !.status = "failed"]
  /\ run' = [run EXCEPT ![r] = Idle]
  /\ UNCHANGED <<scenario, chain, facts, history>>

Stall(r) ==
  /\ run[r].pc = "fetched"
  /\ run[r].stalls
  /\ MarkFailed(r)

\* The fetch fails, or the commit does and is rolled back.
FailRun(r) ==
  /\ Holds(r)
  /\ run[r].pc = "fetched" => ~run[r].stalls
  /\ MarkFailed(r)

-----------------------------------------------------------------------------
(* recollect: no claim *)

RecollectFetch(r, w) ==
  /\ run[r] = Idle
  /\ run' = [run EXCEPT ![r] =
               [pc |-> "recollecting", start |-> w.start, end |-> w.end, replaces |-> w.replace,
                stalls |-> FALSE, rows |-> Served(w.start, w.end)]]
  /\ UNCHANGED <<scenario, chain, scope, facts, history>>

RecollectCommit(r) ==
  /\ run[r].pc = "recollecting"
  /\ CommitWindow(r)

-----------------------------------------------------------------------------
(* Environment *)

\* The process of r dies; an open transaction rolls back.
Crash(r) ==
  /\ run[r] # Idle
  /\ run' = [run EXCEPT ![r] = Idle]
  /\ UNCHANGED <<scenario, chain, scope, facts, history>>

\* Five minutes pass since the row was written.
Expire ==
  /\ Busy
  /\ \A r \in Runs : Holds(r) => r \in Slow
  /\ scope' = [scope EXCEPT !.status = "stale"]
  /\ outlived' = (outlived \/ \E r \in Runs : Holds(r))
  /\ UNCHANGED <<scenario, chain, facts, run, origin>>

Reorg(b) ==
  /\ chain[LastBlock] < scenario.reorgs
  /\ chain' = [k \in Blocks |-> IF k >= b THEN chain[k] + 1 ELSE chain[k]]
  /\ UNCHANGED <<scenario, scope, facts, run, history>>

Work(r) ==
  \/ \E from \in Starts, target \in Targets : Plan(r, from, target)
  \/ ClaimRead(r)
  \/ ClaimWrite(r)
  \/ Fetch(r)
  \/ Commit(r)
  \/ Stall(r)

Recollect(r) ==
  \/ \E w \in scenario.recollects : RecollectFetch(r, w)
  \/ RecollectCommit(r)

Fault == \E r \in Runs : FailRun(r) \/ Crash(r)

Next ==
  \/ \E r \in scenario.callers : Work(r) \/ Recollect(r)
  \/ Fault
  \/ Expire
  \/ \E b \in Blocks : Reorg(b)

Spec == Init /\ [][Next]_vars

\* Callers call again after every result, also a busy one or an error, and
\* now and then without a fromBlock up to the head; time passes.
FairSpec ==
  /\ Spec
  /\ \A r \in Runs :
       /\ WF_vars(r \in scenario.callers /\ Work(r)) /\ WF_vars(RecollectCommit(r))
       /\ SF_vars(r \in scenario.callers /\ Plan(r, None, LastBlock))
  /\ WF_vars(Expire)

-----------------------------------------------------------------------------
(* Properties *)

\* Every block below the cursor has its facts persisted, from the block the
\* scope was created at: no crash, takeover or lost race leaves a durable gap.
\* (DatasetOnlyGrows below, which the run checks, says this of every step.)
PrefixPersisted ==
  scope # None => \A b \in origin..(scope.next - 1) : \E x \in facts : x.block = b

\* With one caller, a reorganised block's old transfer is gone once its new one
\* is persisted.
OneVersionPerBlock ==
  Cardinality(scenario.callers) = 1 => \A x, y \in facts : x.block = y.block => x.version = y.version

\* What sync.audit checks of the row: the cursor is the block after the last
\* complete one.
CursorConsistent ==
  scope # None => scope.last = None \/ scope.next = scope.last + 1

\* Where transactions exclude one another and every window ends within five
\* minutes, at most one call that holds a claim is fetching or committing, ...
Undisturbed == scenario.driver = "sqlite" /\ ~outlived

ClaimExclusive ==
  Undisturbed => \A r, q \in Runs : Holds(r) /\ Holds(q) => r = q

\* ... and a step never drops a block's facts or puts an older version in the
\* place of the newest one.
FactsNeverGoBack ==
  [][Undisturbed => \A x \in facts : \E y \in facts' : y.block = x.block /\ y.version >= x.version]_vars

\* The row and the fact table are a dataset that only grows: its beginning and
\* its blocks stay, its cursor never moves back, and no block below the cursor
\* is ever without facts, not even between the two halves of a replacement:
\* the deletion of a range, its new facts and the cursor are one transaction of
\* commitScope, and no later cursor is overwritten by an earlier one.
Dataset == INSTANCE DurableDataset WITH
  begun <- IF scope = None THEN None ELSE origin,
  next  <- IF scope = None THEN None ELSE scope.next,
  held  <- {x.block : x \in facts}

DatasetOnlyGrows == Dataset!Spec

\* Unless faults never stop, updates reach the end of the chain.
CaughtUp == scope # None /\ scope.next > LastBlock

CatchesUp == []<><<Fault>>_vars \/ <>CaughtUp

=============================================================================
