---------------------------- MODULE ReplayJobs ----------------------------
(***************************************************************************)
(* The derived state of one address: replay calls of HistoryService, which *)
(* claim a job with a lease, fold the facts into snapshots and publish a   *)
(* revision, and the commits of SyncService, which change the facts,       *)
(* invalidate what was derived from them and queue a replay.               *)
(*                                                                         *)
(* The state of a user is what it was folded from: the opening it started  *)
(* with and the bag of fact rows added to it.  A dataset has one row in a  *)
(* block; a reorganisation gives it another version.  Transactions are     *)
(* serialised.  Nobody can reach the rows of a random revision that        *)
(* neither the pointer nor a call names: they go when its number is used   *)
(* again.  Bounds: LastBlock, the scenario's reorgs.                       *)
(***************************************************************************)
EXTENDS Integers, Bags, FiniteSets, FiniteSetsExt

CONSTANTS
  Callers,       \* of replay and rebuild
  Datasets,
  LastBlock,     \* highest block of the chain
  Scenarios,     \* who calls at once, what with, how often the chain reorganises:
                 \* [callers, requests, reorgs], a request being [opening, from, to, force]
  Windows,       \* of the sync commits: [start, end]
  Reorgs,        \* blocks a reorganisation may start at
  None

Blocks   == 0..LastBlock
Row      == [dataset : Datasets, block : Blocks, version : Nat]
Revision == [opening : Blocks \cup {None}, random : Nat]
Request  == [opening : Blocks \cup {None}, from : Blocks \cup {None}, to : Blocks \cup {None}, force : BOOLEAN]
Job      == [holder : Callers \cup {None}, lease : {"held", "expired", "none"}]
Plain    == [opening |-> None, from |-> None, to |-> None, force |-> FALSE]
Idle     == [pc |-> "idle"]

ASSUME ReplayAssumption ==
  /\ LastBlock \in Nat /\ Reorgs \subseteq Blocks
  /\ Scenarios \subseteq [callers : SUBSET Callers, requests : SUBSET Request, reorgs : Nat]
  /\ \A w \in Windows : w.start \in Blocks /\ w.end \in w.start..LastBlock
  /\ None \notin Int \cup Callers \cup Job /\ IsFiniteSet(Callers)

VARIABLES
  scenario,   \* one of Scenarios, for good
  chain,      \* chain[b]: the version of block b the providers serve
  next,       \* next[d]: the cursor of dataset d
  facts,      \* the rows of the three fact tables
  snapshots,  \* sdk_user_state_snapshots: [revision, block, state]
  initials,   \* sdk_replay_initial_states: [revision, block]
  current,    \* the sdk_replay_current row, or None
  job,        \* the running row of sdk_replay_jobs, or None
  queued,     \* is there a queued row?
  call,       \* call[c]: the call of c
  lost,       \* history: a call at work lost its lease
  raced       \* history: a revision was published over a commit made meanwhile

synced  == <<scenario, chain, next, facts>>
derived == <<snapshots, initials, current>>
history == <<lost, raced>>
vars    == <<synced, derived, job, queued, call, history>>

\* A state of the user.
IsState(s) == s.opening \in Blocks \cup {None} /\ IsABag(s.folded) /\ BagToSet(s.folded) \subseteq Row

\* A call is at work from its claim to its last transaction.
Working(c) == call[c].pc \in {"claimed", "folding"}

TypeOK ==
  /\ scenario \in Scenarios
  /\ chain \in [Blocks -> 0..scenario.reorgs]
  /\ next \in [Datasets -> 0..LastBlock + 1]
  /\ facts \subseteq Row
  /\ \A x \in snapshots : x.revision \in Revision /\ x.block \in Blocks /\ IsState(x.state)
  /\ initials \subseteq [revision : Revision, block : Blocks]
  /\ current \in [revision : Revision, asOf : Blocks] \cup {None}
  /\ job \in Job \cup {None}
  /\ queued \in BOOLEAN
  /\ \A c \in Callers :
       \/ call[c] = Idle
       \/ /\ call[c].pc \in {"prepared", "claimed", "folding"}
          /\ call[c].revision \in Revision
          /\ call[c].from \in 0..LastBlock + 1
          /\ call[c].read \subseteq Row
          /\ call[c].base # None => call[c].from > call[c].base.block /\ IsState(call[c].base.state)
  /\ job # None /\ job.holder # None => Working(job.holder)
  /\ lost \in BOOLEAN /\ raced \in BOOLEAN

Init ==
  /\ scenario \in Scenarios
  /\ chain = [b \in Blocks |-> 0]
  /\ next = [d \in Datasets |-> 0]
  /\ facts = {}
  /\ snapshots = {} /\ initials = {} /\ current = None
  /\ job = None /\ queued = FALSE
  /\ call = [c \in Callers |-> Idle]
  /\ lost = FALSE /\ raced = FALSE

-----------------------------------------------------------------------------
(* Reading and folding *)

BlocksOf(rows)  == {x.block : x \in rows}
LastOf(rows)    == Max(BlocksOf(rows))
Of(revision)    == {x \in snapshots : x.revision = revision}
From(rows, b)   == {x \in rows : x.block >= b}
UpTo(rows, b)   == {x \in rows : x.block <= b}

\* The state an opening at block b begins with; b None: nothing.
OpeningState(b) == [opening |-> b, folded |-> EmptyBag]

\* reduceFacts
Folded(state, rows) == [state EXCEPT !.folded = @ (+) SetToBag(rows)]

\* The opening stored with the current revision, or None.
StoredInitial ==
  LET stored == {i \in initials : current # None /\ i.revision = current.revision}
  IN  IF stored = {} THEN None ELSE (CHOOSE i \in stored : TRUE).block

Newest(rows) == CHOOSE x \in rows : \A y \in rows : y.block <= x.block

\* What the fold starts from: the newest snapshot of the current revision, when
\* nothing in the request says otherwise; else the opening, if there is one.
Base(q, initial) ==
  IF /\ q.opening = None /\ q.from = None /\ ~q.force
     /\ current # None /\ Of(current.revision) # {}
  THEN LET x == Newest(Of(current.revision)) IN [block |-> x.block, state |-> x.state]
  ELSE IF initial # None THEN [block |-> initial, state |-> OpeningState(initial)]
  ELSE None

FromBlock(q, base) ==
  IF q.from # None THEN q.from ELSE IF base = None THEN 0 ELSE base.block + 1

\* Revisions that the pointer or a call names.
Named ==
  {call[c].revision : c \in {c \in Callers : call[c] # Idle}}
  \cup (IF current = None THEN {} ELSE {current.revision})

\* randomUUID
Random ==
  [opening |-> None,
   random  |-> Min({n \in 1..Cardinality(Callers) + 1 : [opening |-> None, random |-> n] \notin Named})]

RevisionFor(q, initial) ==
  IF q.force THEN Random
  ELSE IF q.opening # None THEN [opening |-> initial, random |-> 0]
  ELSE IF current # None THEN current.revision ELSE Random

-----------------------------------------------------------------------------
(* replay *)

\* The reads before the claim.
Prepare(c, q) ==
  LET initial  == IF q.opening # None THEN q.opening ELSE StoredInitial
      base     == Base(q, initial)
      from     == FromBlock(q, base)
      revision == RevisionFor(q, initial)
  IN  /\ call[c] = Idle
      /\ base # None => from > base.block
      /\ base # None /\ q.to # None => q.to >= base.block
      /\ call' = [call EXCEPT ![c] =
                    [pc |-> "prepared", from |-> from, to |-> q.to, force |-> q.force, base |-> base,
                     initial |-> initial, revision |-> revision, read |-> {}, disturbed |-> FALSE]]
      /\ snapshots' = {x \in snapshots : x.revision # revision \/ revision.random = 0 \/ revision \in Named}
      /\ initials' = {x \in initials : x.revision # revision \/ revision.random = 0 \/ revision \in Named}
      /\ UNCHANGED <<synced, current, job, queued, history>>

\* Mutant: whoever asks gets the job.
HeldNever == FALSE
Held      == job # None /\ job.lease = "held"

ClaimBusy(c) ==
  /\ call[c].pc = "prepared"
  /\ Held
  /\ call' = [call EXCEPT ![c] = Idle]
  /\ UNCHANGED <<synced, derived, job, queued, history>>

\* A running row without a live lease is marked failed.
ClaimJob(c) ==
  /\ call[c].pc = "prepared"
  /\ ~Held
  /\ job' = [holder |-> c, lease |-> "held"]
  /\ call' = [call EXCEPT ![c].pc = "claimed"]
  /\ UNCHANGED <<synced, derived, queued, history>>

ReadFacts(c) ==
  /\ call[c].pc = "claimed"
  /\ call' = [call EXCEPT ![c].pc = "folding", ![c].read = facts]
  /\ UNCHANGED <<synced, derived, job, queued, history>>

\* The block the fold goes to; None: there is nothing.
ToBlock(k) ==
  LET ahead == IF k.base = None THEN k.read ELSE From(k.read, k.from)
  IN  IF k.to # None THEN k.to
      ELSE IF ahead # {} THEN LastOf(ahead)
      ELSE IF k.base # None THEN k.base.block ELSE None

InRange(k) == IF ToBlock(k) = None THEN k.read ELSE UpTo(k.read, ToBlock(k))

\* Mutant: an explicit start drops the rows before it.
ReducedFrom(k) == From(InRange(k), k.from)
Reduced(k)     == IF k.base = None THEN InRange(k) ELSE From(InRange(k), k.from)

AsOf(k) ==
  IF InRange(k) # {} THEN LastOf(InRange(k)) ELSE IF k.base # None THEN k.base.block ELSE None

\* Snapshots are due at complete blocks, after so many events or blocks, and
\* at the last one.
Cuts(k) ==
  LET all == BlocksOf(Reduced(k))
  IN  IF all = {} THEN {{}} ELSE {cuts \cup {Max(all)} : cuts \in SUBSET all}

Built(k, cuts) ==
  LET start == IF k.base = None THEN OpeningState(None) ELSE k.base.state
  IN  {[revision |-> k.revision, block |-> b, state |-> Folded(start, UpTo(Reduced(k), b))]
        : b \in {b \in cuts : b >= k.from}}

\* What a replay leaves of the snapshots.
Kept(k) ==
  IF k.force THEN snapshots ELSE {x \in snapshots : ~(x.revision = k.revision /\ x.block >= k.from)}

OpeningRow(k) ==
  IF k.initial = None THEN {}
  ELSE {[revision |-> k.revision, block |-> k.initial, state |-> OpeningState(k.initial)]}

\* INSERT OR REPLACE into the snapshots, whose key is revision and block.
Upserted(table, rows) ==
  {x \in table : \A y \in rows : ~(y.revision = x.revision /\ y.block = x.block)} \cup rows

Released(c) == IF job # None /\ job.holder = c THEN None ELSE job

\* Only the job's row is guarded by the lease.
Publish(c) ==
  LET k == call[c] IN
  /\ k.pc = "folding"
  /\ \E cuts \in Cuts(k) :
       snapshots' = Upserted(Upserted(Kept(k), OpeningRow(k)), Built(k, cuts))
  /\ initials' = IF k.initial = None THEN initials
                 ELSE {i \in initials : i.revision # k.revision}
                      \cup {[revision |-> k.revision, block |-> k.initial]}
  /\ current' = IF AsOf(k) = None THEN current ELSE [revision |-> k.revision, asOf |-> AsOf(k)]
  /\ job' = Released(c)
  /\ raced' = (raced \/ k.disturbed)
  /\ call' = [call EXCEPT ![c] = Idle]
  /\ UNCHANGED <<synced, queued, lost>>

FailReplay(c) ==
  /\ Working(c)
  /\ job' = Released(c)
  /\ call' = [call EXCEPT ![c] = Idle]
  /\ UNCHANGED <<synced, derived, queued, history>>

-----------------------------------------------------------------------------
(* SyncService *)

Served(d, w) == {[dataset |-> d, block |-> b, version |-> chain[b]] : b \in w.start..w.end}

\* An update whose window starts below the cursor invalidates what was derived,
\* a recollect always does.
Rewinds(d, w) == w.start < next[d]

Replaced(d, w) == {x \in facts : x.dataset = d /\ x.block \in w.start..w.end}

Invalidated(b) == {x \in snapshots : x.block < b}

\* INSERT OR REPLACE of the running or queued row, without its lease.
Enqueue ==
  IF job = None THEN job' = None /\ queued' = TRUE
  ELSE \/ job' = [job EXCEPT !.holder = None, !.lease = "none"] /\ queued' = queued
       \/ job' = job /\ queued /\ queued' = TRUE

SyncCommit(d, w) ==
  /\ w.start <= next[d]
  /\ facts' = (facts \ Replaced(d, w)) \cup Served(d, w)
  /\ next' = [next EXCEPT ![d] = IF @ > w.end + 1 THEN @ ELSE w.end + 1]
  /\ \/ snapshots' = Invalidated(w.start) /\ current' = None
     \/ ~Rewinds(d, w) /\ UNCHANGED <<snapshots, current>>
  /\ \/ Enqueue
     \/ UNCHANGED <<job, queued>>
  /\ lost' = (lost \/ (job # None /\ job.holder # None /\ job'.holder = None))
  /\ call' = [c \in Callers |->
                IF call[c] = Idle THEN Idle ELSE [call[c] EXCEPT !.disturbed = TRUE]]
  /\ UNCHANGED <<scenario, chain, initials, raced>>

-----------------------------------------------------------------------------
(* Environment *)

\* The process dies; its row stays.
Crash(c) ==
  /\ call[c] # Idle
  /\ job' = IF job # None /\ job.holder = c THEN [job EXCEPT !.holder = None] ELSE job
  /\ call' = [call EXCEPT ![c] = Idle]
  /\ UNCHANGED <<synced, derived, queued, history>>

\* leaseMs pass since the claim.
Expire ==
  /\ Held
  /\ job' = [job EXCEPT !.lease = "expired"]
  /\ lost' = (lost \/ job.holder # None)
  /\ UNCHANGED <<synced, derived, queued, call, raced>>

Reorg(b) ==
  /\ chain[LastBlock] < scenario.reorgs
  /\ chain' = [k \in Blocks |-> IF k >= b THEN chain[k] + 1 ELSE chain[k]]
  /\ UNCHANGED <<scenario, next, facts, derived, job, queued, call, history>>

Replay(c) == ClaimBusy(c) \/ ClaimJob(c) \/ ReadFacts(c) \/ Publish(c)

Fault == \E c \in Callers : FailReplay(c) \/ Crash(c)

Next ==
  \/ \E c \in scenario.callers : Replay(c) \/ \E q \in scenario.requests : Prepare(c, q)
  \/ \E d \in Datasets, w \in Windows : SyncCommit(d, w)
  \/ Fault
  \/ Expire
  \/ \E b \in Reorgs : Reorg(b)

Spec == Init /\ [][Next]_vars

-----------------------------------------------------------------------------
(* Properties *)

\* Unless its lease ran out or was wiped, the call that claimed the job is the
\* only one at work.
OneReplayAtWork ==
  ~lost => \A c, d \in Callers : Working(c) /\ Working(d) => c = d

\* The rows a state of the revision at block b must contain.
Expected(revision, b) ==
  LET opening == {i.block : i \in {i \in initials : i.revision = revision}}
  IN  {x \in UpTo(facts, b) : \A o \in opening : x.block > o}

\* Each snapshot of the published revision is the fold of its opening and the
\* facts after it, whatever it was resumed from, unless a replay was overtaken
\* by a commit: nothing is folded twice, skipped or left from before a
\* reorganisation.
SnapshotsMatchFacts ==
  current # None /\ ~raced =>
    \A x \in Of(current.revision) :
      /\ x.state.folded = SetToBag(Expected(current.revision, x.block))
      /\ \A i \in initials : i.revision = current.revision => x.state.opening = i.block

\* Once an opening was published, later replays go on from it.
OpeningIsKept ==
  initials # {} /\ current # None => \E i \in initials : i.revision = current.revision

=============================================================================
