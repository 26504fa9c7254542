-------------------------- MODULE ReplayJobsProofs --------------------------
(***************************************************************************)
(* Theorems about ReplayJobs for any number of callers, datasets, blocks   *)
(* and reorganisations, any requests and any windows.                      *)
(***************************************************************************)
EXTENDS ReplayJobs, FiniteSetTheorems, WellFoundedInduction, TLAPS

-----------------------------------------------------------------------------
(* The job and its lease *)

\* Until a lease is lost, whoever works holds the job with a live lease.
WorkerHoldsJob ==
  ~lost => \A c \in Callers : Working(c) => job # None /\ job.holder = c /\ job.lease = "held"

JobInv ==
  /\ job \in Job \cup {None}
  /\ lost \in BOOLEAN
  /\ call = [c \in Callers |-> call[c]]
  /\ \A c \in Callers : "pc" \in DOMAIN call[c]
  /\ WorkerHoldsJob

\* Where a step puts the one call it moves.
LEMMA OtherCalls ==
  ASSUME JobInv, NEW c \in Callers, NEW k, call' = [call EXCEPT ![c] = k]
  PROVE  /\ call' = [d \in Callers |-> call'[d]]
         /\ call'[c] = k /\ \A d \in Callers \ {c} : call'[d] = call[d]
BY DEF JobInv

\* Moving a call that does not work changes nothing of the job.
LEMMA MoveKeepsJobInv ==
  ASSUME JobInv, NEW c \in Callers, NEW k, call' = [call EXCEPT ![c] = k],
         "pc" \in DOMAIN k, k.pc \in {"claimed", "folding"} => Working(c),
         UNCHANGED <<job, lost>>
  PROVE  JobInv'
<1>1. /\ call' = [d \in Callers |-> call'[d]]
      /\ call'[c] = k /\ \A d \in Callers \ {c} : call'[d] = call[d]
  BY OtherCalls
<1>2. \A d \in Callers : Working(d)' => Working(d)
  BY <1>1 DEF Working
<1> QED BY <1>1, <1>2 DEF JobInv, WorkerHoldsJob

\* A claim finds the job free, hence nobody at work.
LEMMA ClaimKeepsJobInv ==
  ASSUME JobInv, NEW c \in Callers, ClaimJob(c)
  PROVE  JobInv'
<1> DEFINE k == [call[c] EXCEPT !.pc = "claimed"]
<1>1. call' = [call EXCEPT ![c] = k] /\ job' = [holder |-> c, lease |-> "held"] /\ lost' = lost /\ ~Held
  BY DEF ClaimJob, history
<1>2. "pc" \in DOMAIN k
  BY DEF JobInv
<1> HIDE DEF k
<1>3. /\ call' = [d \in Callers |-> call'[d]]
      /\ call'[c] = k /\ \A d \in Callers \ {c} : call'[d] = call[d]
  BY <1>1, OtherCalls
<1>4. job' \in Job /\ job' # None /\ job'.holder = c /\ job'.lease = "held"
  BY <1>1, ReplayAssumption DEF Job
<1>5. ~lost => \A d \in Callers : ~Working(d)
  BY <1>1 DEF JobInv, WorkerHoldsJob, Held
<1>6. ~lost => \A d \in Callers \ {c} : ~Working(d)'
  BY <1>3, <1>5 DEF Working
<1> QED BY <1>1, <1>2, <1>3, <1>4, <1>6 DEF JobInv, WorkerHoldsJob

\* A call that ends while it works takes the job with it, and no one else works.
LEMMA EndKeepsJobInv ==
  ASSUME JobInv, NEW c \in Callers, call' = [call EXCEPT ![c] = Idle], lost' = lost,
         \/ Working(c) /\ job' = Released(c)
         \/ job' = IF job # None /\ job.holder = c THEN [job EXCEPT !.holder = None] ELSE job
  PROVE  JobInv'
<1>1. /\ call' = [d \in Callers |-> call'[d]]
      /\ call'[c] = Idle /\ \A d \in Callers \ {c} : call'[d] = call[d]
  BY OtherCalls
<1>2. job' \in Job \cup {None}
  BY DEF JobInv, Job, Released
<1>3. \A d \in Callers : Working(d)' => d # c /\ Working(d)
  BY <1>1 DEF Working, Idle
<1>4. ASSUME ~lost, NEW d \in Callers, Working(d)'
      PROVE  job' = job /\ job # None /\ job.holder = d /\ job.lease = "held"
  BY <1>3, <1>4 DEF JobInv, WorkerHoldsJob, Released
<1>5. \A d \in Callers : "pc" \in DOMAIN call'[d]
  BY <1>1 DEF JobInv, Idle
<1> QED BY <1>1, <1>2, <1>4, <1>5 DEF JobInv, WorkerHoldsJob

\* A commit that wipes the lease of a call at work says so.
LEMMA SyncKeepsJobInv ==
  ASSUME JobInv, NEW d \in Datasets, NEW w \in Windows, SyncCommit(d, w)
  PROVE  JobInv'
<1>1. call' = [c \in Callers |-> IF call[c] = Idle THEN Idle ELSE [call[c] EXCEPT !.disturbed = TRUE]]
  BY DEF SyncCommit
<1>2. /\ call' = [c \in Callers |-> call'[c]]
      /\ \A c \in Callers : call'[c] = IF call[c] = Idle THEN Idle ELSE [call[c] EXCEPT !.disturbed = TRUE]
  BY <1>1
<1>3. \A c \in Callers : "pc" \in DOMAIN call'[c] /\ call'[c].pc = call[c].pc
  BY <1>2 DEF JobInv, Idle
<1>4. \A c \in Callers : Working(c)' <=> Working(c)
  BY <1>3 DEF Working
<1>5. \/ job' = job
      \/ job # None /\ job' = [job EXCEPT !.holder = None, !.lease = "none"]
  BY DEF SyncCommit, Enqueue
<1>6. job' \in Job \cup {None}
  BY <1>5 DEF JobInv, Job
<1>7. lost' = (lost \/ (job # None /\ job.holder # None /\ job'.holder = None))
  BY DEF SyncCommit
<1>8. CASE job' = job
  BY <1>2, <1>3, <1>4, <1>6, <1>7, <1>8 DEF JobInv, WorkerHoldsJob
<1>9. CASE job # None /\ job' = [job EXCEPT !.holder = None, !.lease = "none"]
  <2>1. job'.holder = None /\ job.holder \in Callers \cup {None}
    BY <1>9 DEF JobInv, Job
  <2>2. ~lost' => ~lost /\ job.holder = None
    BY <1>7, <1>9, <2>1
  <2>3. ~lost' => \A c \in Callers : ~Working(c)
    BY <2>2, ReplayAssumption DEF JobInv, WorkerHoldsJob
  <2> QED BY <1>2, <1>3, <1>4, <1>6, <1>7, <2>3 DEF JobInv, WorkerHoldsJob
<1> QED BY <1>5, <1>8, <1>9

\* Every step keeps the invariant.
LEMMA JobInvKept ==
  ASSUME scenario \in Scenarios, JobInv, [Next]_vars
  PROVE  JobInv'
<1>1. ASSUME NEW c \in Callers, NEW q, Prepare(c, q) PROVE JobInv'
  <2> DEFINE initial == IF q.opening # None THEN q.opening ELSE StoredInitial
             base    == Base(q, initial)
             k == [pc |-> "prepared", from |-> FromBlock(q, base), to |-> q.to, force |-> q.force,
                   base |-> base, initial |-> initial, revision |-> RevisionFor(q, initial),
                   read |-> {}, disturbed |-> FALSE]
  <2>1. call' = [call EXCEPT ![c] = k] /\ UNCHANGED <<job, lost>>
    BY <1>1, Zenon DEF Prepare, history
  <2> HIDE DEF initial, base
  <2>2. "pc" \in DOMAIN k /\ k.pc = "prepared"
    OBVIOUS
  <2> HIDE DEF k
  <2> QED BY <2>1, <2>2, MoveKeepsJobInv
<1>2. ASSUME NEW c \in Callers, ClaimBusy(c) PROVE JobInv'
  <2>1. call' = [call EXCEPT ![c] = Idle] /\ UNCHANGED <<job, lost>>
    BY <1>2 DEF ClaimBusy, history
  <2>2. "pc" \in DOMAIN Idle /\ Idle.pc = "idle"
    BY DEF Idle
  <2> QED BY <2>1, <2>2, MoveKeepsJobInv
<1>3. ASSUME NEW c \in Callers, ReadFacts(c) PROVE JobInv'
  <2> DEFINE k == [call[c] EXCEPT !.pc = "folding", !.read = facts]
  <2>1. call' = [call EXCEPT ![c] = k] /\ UNCHANGED <<job, lost>> /\ Working(c)
    BY <1>3 DEF ReadFacts, history, Working
  <2>2. "pc" \in DOMAIN k
    BY DEF JobInv
  <2> QED BY <2>1, <2>2, MoveKeepsJobInv
<1>4. ASSUME NEW c \in Callers, Publish(c) PROVE JobInv'
  BY <1>4, EndKeepsJobInv DEF Publish, Working
<1>5. ASSUME NEW c \in Callers, FailReplay(c) \/ Crash(c) PROVE JobInv'
  BY <1>5, EndKeepsJobInv DEF FailReplay, Crash, history
<1>6. CASE Expire
  <2>1. job # None /\ job.lease = "held" /\ job' = [job EXCEPT !.lease = "expired"]
    BY <1>6 DEF Expire, Held
  <2>2. job' \in Job /\ job'.holder = job.holder /\ job.holder \in Callers \cup {None}
    BY <2>1 DEF JobInv, Job
  <2>3. lost' = (lost \/ job.holder # None) /\ call' = call
    BY <1>6 DEF Expire
  <2>4. ~lost' => \A c \in Callers : ~Working(c)
    BY <2>2, <2>3, ReplayAssumption DEF JobInv, WorkerHoldsJob
  <2> QED BY <2>2, <2>3, <2>4 DEF JobInv, WorkerHoldsJob, Working
<1>7. CASE (\E b \in Reorgs : Reorg(b)) \/ UNCHANGED vars
  BY <1>7 DEF Reorg, vars, history, JobInv, WorkerHoldsJob, Working
<1>8. ASSUME NEW d \in Datasets, NEW w \in Windows, SyncCommit(d, w) PROVE JobInv'
  BY <1>8, SyncKeepsJobInv
<1>9. ASSUME NEW c \in Callers, ClaimJob(c) PROVE JobInv'
  BY <1>9, ClaimKeepsJobInv
<1>10. scenario.callers \subseteq Callers
  BY ReplayAssumption
<1> QED BY <1>1, <1>2, <1>3, <1>4, <1>5, <1>6, <1>7, <1>8, <1>9, <1>10, Zenon DEF Next, Replay, Fault

\* No step changes who calls.
LEMMA SameScenario == [Next]_vars => scenario' = scenario
<1>1. ASSUME NEW c, NEW q, Prepare(c, q) PROVE UNCHANGED synced
  BY <1>1, Zenon DEF Prepare
<1>2. ASSUME NEW c, Replay(c) \/ FailReplay(c) \/ Crash(c) PROVE UNCHANGED synced
  BY <1>2, Zenon DEF Replay, ClaimBusy, ClaimJob, ReadFacts, Publish, FailReplay, Crash
<1>3. ASSUME NEW d, NEW w, SyncCommit(d, w) PROVE scenario' = scenario
  BY <1>3, Zenon DEF SyncCommit
<1>4. CASE Expire \/ \E b \in Reorgs : Reorg(b)
  BY <1>4 DEF Expire, Reorg, synced
<1>5. UNCHANGED synced \/ UNCHANGED vars => scenario' = scenario
  BY DEF synced, vars
<1> QED BY <1>1, <1>2, <1>3, <1>4, <1>5, Zenon DEF Next, Fault

\* Unless a lease runs out or a commit's enqueue wipes it, two replays of an
\* address are never at work at once, though the state they fold was read
\* before the claim and only the job's row is guarded.
THEOREM OneReplayAtATime == Spec => []OneReplayAtWork
<1> DEFINE Inv == scenario \in Scenarios /\ JobInv
<1>1. Init => Inv
  <2> SUFFICES ASSUME Init PROVE Inv
    OBVIOUS
  <2>1. "pc" \in DOMAIN Idle /\ Idle.pc = "idle"
    BY DEF Idle
  <2>2. call = [c \in Callers |-> Idle] /\ job = None /\ lost = FALSE /\ scenario \in Scenarios
    BY DEF Init
  <2>3. call = [c \in Callers |-> call[c]] /\ \A c \in Callers : call[c] = Idle
    BY <2>2
  <2> QED BY <2>1, <2>2, <2>3 DEF JobInv, WorkerHoldsJob, Working
<1>2. Inv /\ [Next]_vars => Inv'
  BY SameScenario, JobInvKept
<1>3. Inv => OneReplayAtWork
  BY DEF JobInv, WorkerHoldsJob, OneReplayAtWork
<1> QED BY <1>1, <1>2, <1>3, PTL DEF Spec
-----------------------------------------------------------------------------
(* What is folded *)

\* Facts of one kind: a first window of a second one invalidates nothing,
\* though its rows lie below the snapshots of the first.
OneDataset == \A d, e \in Datasets : d = e

\* An explicit start skips no block after an opening.
StartsMeetOpenings ==
  \A s \in Scenarios : \A p, q \in s.requests :
    p.opening # None /\ q.from # None => q.from <= p.opening + 1

State    == [opening : Blocks \cup {None}, folded : UNION {[rows -> Nat] : rows \in SUBSET Row}]
Start    == [block : Blocks, state : State]
Snapshot == [revision : Revision, block : Blocks, state : State]
Call     == [pc : {"prepared", "claimed", "folding"}, from : Nat, to : Blocks \cup {None}, force : BOOLEAN,
             base : Start \cup {None}, initial : Blocks \cup {None}, revision : Revision,
             read : SUBSET Row, disturbed : BOOLEAN]

\* Nothing that stands where None may stand is None.
NoneIsApart == None \notin Start

Openings == {q.opening : q \in scenario.requests} \ {None}
Begun    == {c \in Callers : call[c] # Idle}

\* Who says which opening a revision has: its snapshots, its row, the calls
\* that build it, and its name.
Claims ==
  {<<x.revision, x.state.opening>> : x \in snapshots}
  \cup {<<i.revision, i.block>> : i \in initials}
  \cup {<<call[c].revision, call[c].initial>> : c \in Begun}
  \cup {<<[opening |-> o, random |-> 0], o>> : o \in Openings}

FoldType ==
  /\ scenario \in Scenarios /\ raced \in BOOLEAN
  /\ chain \in [Blocks -> Nat] /\ next \in [Datasets -> Nat]
  /\ facts \subseteq Row
  /\ snapshots \subseteq Snapshot
  /\ initials \subseteq [revision : Revision, block : Blocks]
  /\ current # None => current.revision \in Revision
  /\ call \in [Callers -> Call \cup {Idle}]

OneOpening == \A p, q \in Claims : p[1] = q[1] => p[2] = q[2]

\* The opening of what is published has a row.
OpeningsStored ==
  \A p \in Claims :
    p[2] # None /\ (Of(p[1]) # {} \/ (current # None /\ current.revision = p[1]))
      => [revision |-> p[1], block |-> p[2]] \in initials

\* The facts a state at block b contains.
FoldedInto(state, b) == {f \in facts : f.block <= b /\ (state.opening # None => f.block > state.opening)}

\* A snapshot, or what a call starts from, is the fold of the facts; those to
\* come lie above it.
Exact(x) ==
  /\ x.state.folded = SetToBag(FoldedInto(x.state, x.block))
  /\ x.state.opening # None => x.state.opening <= x.block
  /\ x.block = x.state.opening \/ \A d \in Datasets : x.block < next[d]

\* A call goes on where its base ends; unless a commit came in between, from
\* the facts there are.
Continues(k) ==
  /\ k.base = None => k.initial = None
  /\ k.base # None => k.from = k.base.block + 1 /\ k.base.state.opening = k.initial
  /\ ~raced /\ ~k.disturbed => /\ k.base # None => Exact(k.base)
                               /\ k.pc = "folding" => k.read = facts

FoldInv ==
  /\ FoldType
  /\ \A p \in Claims : p[2] \in Openings \cup {None}
  /\ OneOpening
  /\ OpeningsStored
  /\ \A x \in facts : x.block < next[x.dataset]
  /\ ~raced => \A x \in snapshots : Exact(x)
  /\ \A c \in Begun : Continues(call[c])

-----------------------------------------------------------------------------
(* Bags, blocks and names *)

\* Folding a set of rows into a fold of others is folding both.
LEMMA BagOfParts ==
  ASSUME NEW A, NEW B, A \cap B = {}
  PROVE  SetToBag(A) (+) SetToBag(B) = SetToBag(A \cup B)
BY DEF SetToBag, (+)

\* A state stays one whatever is folded into it.
LEMMA FoldedType ==
  ASSUME NEW s \in State, NEW rows \in SUBSET Row
  PROVE  /\ Folded(s, rows) \in State
         /\ Folded(s, rows).opening = s.opening
         /\ Folded(s, rows).folded = s.folded (+) SetToBag(rows)
<1>1. PICK old \in SUBSET Row : s.folded \in [old -> Nat]
  BY DEF State
<1>2. s.folded (+) SetToBag(rows) \in [old \cup rows -> Nat]
  BY <1>1 DEF SetToBag, (+)
<1>3. s.folded (+) SetToBag(rows) \in UNION {[r -> Nat] : r \in SUBSET Row}
  BY <1>2
<1>4. Folded(s, rows) = [opening |-> s.opening, folded |-> s.folded (+) SetToBag(rows)]
  BY DEF Folded, State
<1> QED BY <1>3, <1>4 DEF State

\* An opening is a state.
LEMMA OpeningType ==
  ASSUME NEW b \in Blocks \cup {None}
  PROVE  OpeningState(b) \in State /\ OpeningState(b).opening = b /\ OpeningState(b).folded = SetToBag({})
<1>1. EmptyBag \in [{} -> Nat]
  BY DEF EmptyBag, SetToBag
<1>2. EmptyBag \in UNION {[r -> Nat] : r \in SUBSET Row}
  BY <1>1
<1> QED BY <1>2 DEF OpeningState, State, EmptyBag

\* A nonempty set of blocks has a last one.
LEMMA LastIn ==
  ASSUME NEW S \in SUBSET Blocks, S # {}
  PROVE  Max(S) \in S /\ \A b \in S : b <= Max(S)
<1> DEFINE T == {LastBlock - b : b \in S}
<1>1. T \in SUBSET Nat /\ T # {}
  BY ReplayAssumption DEF Blocks
<1>2. PICK t \in T : \A u \in T : ~(<<u, t>> \in OpToRel(<, Nat))
  <2> HIDE DEF T
  <2> QED BY <1>1, NatLessThanWellFounded, WFMin, Zenon
<1>3. PICK b \in S : t = LastBlock - b
  BY <1>2
<1>4. ASSUME NEW a \in S PROVE b >= a
  <2>1. a \in Nat /\ b \in Nat /\ LastBlock \in Nat /\ a <= LastBlock /\ b <= LastBlock
    BY ReplayAssumption DEF Blocks
  <2>2. LastBlock - a \in T
    OBVIOUS
  <2>3. LastBlock - a \in Nat /\ t \in Nat
    BY <1>3, <2>1
  <2>4. ~(LastBlock - a < t)
    BY <1>2, <2>2, <2>3 DEF OpToRel
  <2> QED BY <1>3, <2>1, <2>4
<1>5. Max(S) \in S /\ \A a \in S : Max(S) >= a
  BY <1>4 DEF Max
<1> QED BY <1>5, ReplayAssumption DEF Blocks

\* A nonempty set of numbers has a first one.
LEMMA FirstIn ==
  ASSUME NEW S \in SUBSET Nat, S # {}
  PROVE  Min(S) \in S
<1>1. PICK t \in S : \A u \in S : ~(<<u, t>> \in OpToRel(<, Nat))
  BY NatLessThanWellFounded, WFMin, Zenon
<1>2. ASSUME NEW u \in S PROVE t <= u
  <2>1. u \in Nat /\ t \in Nat
    OBVIOUS
  <2>2. ~(u < t)
    BY <1>1, <2>1 DEF OpToRel
  <2> QED BY <2>1, <2>2
<1> QED BY <1>2 DEF Min

\* A random revision is nobody's: with one more of them than callers, one is
\* named neither by the pointer nor by a call of another.
LEMMA FreshRandom ==
  ASSUME FoldType, NEW c \in Callers, call[c] = Idle
  PROVE  Random \in Revision /\ Random \notin Named /\ Random.random # 0
<1> DEFINE N     == Cardinality(Callers)
           S     == 1..N + 1
           name  == [n \in S |-> [opening |-> None, random |-> n]]
           namer == [d \in Callers |-> IF d = c THEN current.revision ELSE call[d].revision]
           T     == {namer[d] : d \in Callers}
           free  == {n \in S : [opening |-> None, random |-> n] \notin Named}
<1>1. N \in Nat
  BY ReplayAssumption, FS_CardinalityType
<1>2. Named \subseteq T
  BY DEF Named
<1>3. IsFiniteSet(T) /\ Cardinality(T) <= N /\ Cardinality(T) \in Nat
  <2>1. namer \in Surjection(Callers, T)
    BY DEF Surjection
  <2> HIDE DEF namer, T
  <2> QED BY <2>1, ReplayAssumption, FS_Surjection, FS_CardinalityType
<1>4. IsFiniteSet(S) /\ Cardinality(S) = N + 1
  BY <1>1, FS_Interval
<1>5. free # {}
  <2> SUFFICES ASSUME free = {} PROVE FALSE
    OBVIOUS
  <2>1. name \in [S -> T]
    BY <1>2
  <2>2. Cardinality(T) < Cardinality(S)
    BY <1>1, <1>3, <1>4
  <2>3. \E n, m \in S : n # m /\ name[n] = name[m]
    <3>1. IsFiniteSet(S) /\ IsFiniteSet(T)
      BY <1>3, <1>4
    <3> HIDE DEF name, S, T, N, free, namer
    <3> QED BY <2>1, <2>2, <3>1, FS_PigeonHole, ZenonT(60)
  <2> QED BY <2>3
<1>6. free \in SUBSET Nat
  BY <1>1
<1>7. Min(free) \in free
  <2> HIDE DEF free
  <2> QED BY <1>5, <1>6, FirstIn
<1>8. Random = [opening |-> None, random |-> Min(free)]
  BY DEF Random
<1> HIDE DEF free
<1>9. Min(free) \in Nat \ {0} /\ [opening |-> None, random |-> Min(free)] \notin Named
  <2>1. \A n \in free : n \in Nat \ {0} /\ [opening |-> None, random |-> n] \notin Named
    BY <1>1 DEF free
  <2> QED BY <1>7, <2>1
<1> QED BY <1>8, <1>9 DEF Revision

-----------------------------------------------------------------------------
(* What a call finds before its claim *)

\* The opening of the published revision is the one its row says.
LEMMA StoredInitialFacts ==
  ASSUME FoldInv
  PROVE  /\ StoredInitial \in Blocks \cup {None}
         /\ StoredInitial # None =>
              /\ current # None /\ [revision |-> current.revision, block |-> StoredInitial] \in initials
              /\ StoredInitial \in Openings
         /\ current # None => \A p \in Claims : p[1] = current.revision => p[2] = StoredInitial
<1> DEFINE stored == {i \in initials : current # None /\ i.revision = current.revision}
<1>1. initials \subseteq [revision : Revision, block : Blocks] /\ None \notin Blocks
  BY ReplayAssumption DEF FoldInv, FoldType, Blocks
<1>2. \A i \in initials : <<i.revision, i.block>> \in Claims
  BY DEF Claims
<1>3. CASE stored = {}
  <2>1. StoredInitial = None
    BY <1>3 DEF StoredInitial
  <2>2. ASSUME current # None, NEW p \in Claims, p[1] = current.revision PROVE p[2] = None
    <3>1. p[2] # None => [revision |-> p[1], block |-> p[2]] \in initials
      BY <2>2 DEF FoldInv, OpeningsStored
    <3> QED BY <1>3, <2>2, <3>1
  <2> QED BY <2>1, <2>2
<1>4. CASE stored # {}
  <2>1. PICK i \in stored : StoredInitial = i.block
    BY <1>4 DEF StoredInitial
  <2>2. i = [revision |-> current.revision, block |-> StoredInitial] /\ i.block \in Blocks
    BY <1>1, <2>1
  <2>3. <<current.revision, StoredInitial>> \in Claims
    BY <1>2, <2>1, <2>2
  <2>4. StoredInitial \in Openings
    BY <1>1, <2>1, <2>2, <2>3 DEF FoldInv
  <2>5. ASSUME NEW p \in Claims, p[1] = current.revision PROVE p[2] = StoredInitial
    BY <2>3, <2>5 DEF FoldInv, OneOpening
  <2> QED BY <1>1, <2>1, <2>2, <2>4, <2>5
<1> QED BY <1>3, <1>4

\* The newest of some snapshots is one of them.
LEMMA NewestIn ==
  ASSUME NEW rows \in SUBSET Snapshot, rows # {}
  PROVE  Newest(rows) \in rows
<1>1. BlocksOf(rows) \in SUBSET Blocks /\ BlocksOf(rows) # {}
  BY DEF BlocksOf, Snapshot
<1>2. PICK x \in rows : x.block = Max(BlocksOf(rows))
  BY <1>1, LastIn DEF BlocksOf
<1>3. \A y \in rows : y.block <= x.block
  BY <1>1, <1>2, LastIn DEF BlocksOf
<1> QED BY <1>3 DEF Newest

\* An opening is the fold of nothing.
LEMMA OpeningIsExact ==
  ASSUME facts \subseteq Row, NEW x, x.block \in Blocks, x.state = OpeningState(x.block)
  PROVE  Exact(x)
<1>1. x.state.opening = x.block /\ x.state.folded = SetToBag({})
  BY OpeningType
<1>2. \A f \in facts : ~(f.block <= x.block /\ f.block > x.block)
  BY ReplayAssumption DEF Row, Blocks
<1>3. x.block # None
  BY ReplayAssumption DEF Blocks
<1>4. FoldedInto(x.state, x.block) = {}
  BY <1>1, <1>2, <1>3 DEF FoldedInto
<1>5. x.block <= x.block
  BY ReplayAssumption DEF Blocks
<1> QED BY <1>1, <1>4, <1>5 DEF Exact

\* What a fold starts from has the opening of its revision.
LEMMA BaseFacts ==
  ASSUME FoldInv, NoneIsApart, NEW q \in Request, NEW initial \in Blocks \cup {None},
         initial = IF q.opening # None THEN q.opening ELSE StoredInitial
  PROVE  /\ Base(q, initial) \in Start \cup {None}
         /\ Base(q, initial) = None => initial = None
         /\ Base(q, initial) # None =>
              /\ Base(q, initial).state.opening = initial
              /\ q.from # None => initial # None /\ Base(q, initial).block = initial
              /\ ~raced => Exact(Base(q, initial))
<1> DEFINE resumes == /\ q.opening = None /\ q.from = None /\ ~q.force
                      /\ current # None /\ Of(current.revision) # {}
<1>1. CASE resumes
  <2> DEFINE x == Newest(Of(current.revision))
             b == [block |-> x.block, state |-> x.state]
  <2>1. Of(current.revision) \in SUBSET Snapshot
    BY DEF FoldInv, FoldType, Of
  <2>2. x \in snapshots /\ x \in Snapshot /\ x.revision = current.revision
    BY <1>1, <2>1, NewestIn DEF Of
  <2>3. Base(q, initial) = b
    BY <1>1 DEF Base
  <2>4. <<x.revision, x.state.opening>> \in Claims
    BY <2>2 DEF Claims
  <2>5. x.state.opening = StoredInitial
    BY <1>1, <2>2, <2>4, StoredInitialFacts
  <2> HIDE DEF x
  <2>6. b \in Start /\ b # None
    BY <2>2 DEF Snapshot, Start, NoneIsApart
  <2>7. ~raced => Exact(b)
    BY <2>2 DEF FoldInv, Exact
  <2> QED BY <1>1, <2>3, <2>5, <2>6, <2>7
<1>2. CASE ~resumes /\ initial # None
  <2> DEFINE b == [block |-> initial, state |-> OpeningState(initial)]
  <2>1. Base(q, initial) = b
    BY <1>2 DEF Base
  <2>2. b \in Start /\ b.state.opening = initial /\ b # None
    BY <1>2, OpeningType DEF Start, NoneIsApart
  <2>3. Exact(b)
    BY <1>2, OpeningIsExact DEF FoldInv, FoldType
  <2> QED BY <1>2, <2>1, <2>2, <2>3
<1>3. CASE ~resumes /\ initial = None
  BY <1>3 DEF Base
<1> QED BY <1>1, <1>2, <1>3

\* What a call prepares goes on from the facts there are, and what it says of
\* its revision's opening is what others say, or its revision is nobody's.
LEMMA Prepared ==
  ASSUME FoldInv, StartsMeetOpenings, NoneIsApart, NEW c \in Callers, NEW q \in scenario.requests, Prepare(c, q)
  PROVE  \E k \in Call :
           /\ call' = [call EXCEPT ![c] = k]
           /\ Continues(k)
           /\ k.initial \in Openings \cup {None}
           /\ \/ k.initial \in Openings /\ k.revision = [opening |-> k.initial, random |-> 0]
              \/ current # None /\ k.revision = current.revision /\ k.initial = StoredInitial
              \/ k.revision \notin Named /\ k.revision.random # 0
           /\ snapshots' = {x \in snapshots : x.revision # k.revision \/ k.revision.random = 0 \/ k.revision \in Named}
           /\ initials' = {x \in initials : x.revision # k.revision \/ k.revision.random = 0 \/ k.revision \in Named}
<1> DEFINE initial  == IF q.opening # None THEN q.opening ELSE StoredInitial
           base     == Base(q, initial)
           from     == FromBlock(q, base)
           revision == RevisionFor(q, initial)
           k == [pc |-> "prepared", from |-> from, to |-> q.to, force |-> q.force, base |-> base,
                 initial |-> initial, revision |-> revision, read |-> {}, disturbed |-> FALSE]
<1>1. /\ call[c] = Idle /\ (base # None => from > base.block)
      /\ call' = [call EXCEPT ![c] = k]
      /\ snapshots' = {x \in snapshots : x.revision # revision \/ revision.random = 0 \/ revision \in Named}
      /\ initials' = {x \in initials : x.revision # revision \/ revision.random = 0 \/ revision \in Named}
  BY Zenon DEF Prepare
<1>2. q \in Request /\ scenario \in Scenarios /\ None \notin Blocks
  BY ReplayAssumption DEF FoldInv, FoldType, Blocks
<1>3. initial \in Blocks \cup {None} /\ initial \in Openings \cup {None}
  BY <1>2, StoredInitialFacts DEF Openings, Request
<1>4. /\ base \in Start \cup {None}
      /\ base = None => initial = None
      /\ base # None => /\ base.state.opening = initial
                        /\ q.from # None => initial # None /\ base.block = initial
                        /\ ~raced => Exact(base)
  <2> HIDE DEF base, initial
  <2>1. initial = IF q.opening # None THEN q.opening ELSE StoredInitial
    BY DEF initial
  <2>2. base = Base(q, initial)
    BY DEF base
  <2> QED BY <1>2, <1>3, <2>1, <2>2, BaseFacts
<1>5. /\ \/ initial \in Openings /\ revision = [opening |-> initial, random |-> 0]
         \/ current # None /\ revision = current.revision /\ initial = StoredInitial
         \/ revision \notin Named /\ revision.random # 0
      /\ revision \in Revision
  <2>1. Random \in Revision /\ Random \notin Named /\ Random.random # 0
    BY <1>1, FreshRandom DEF FoldInv
  <2>2. q.opening # None => initial \in Openings /\ initial \in Blocks
    BY <1>2, <1>3
  <2>3. current # None => current.revision \in Revision
    BY DEF FoldInv, FoldType
  <2>4. q.opening = None => initial = StoredInitial
    OBVIOUS
  <2>5. revision = RevisionFor(q, initial)
    OBVIOUS
  <2> HIDE DEF initial, base, revision
  <2> QED BY <2>1, <2>2, <2>3, <2>4, <2>5 DEF RevisionFor, Revision
<1> HIDE DEF initial, base, revision
<1>6. from \in Nat /\ (base # None => from = base.block + 1)
  <2>1. base # None => base.block \in Blocks
    BY <1>4 DEF Start
  <2>2. q.from # None => q.from \in Nat
    BY <1>2, ReplayAssumption DEF Request, Blocks
  <2>3. CASE q.from = None
    BY <2>1, <2>3, ReplayAssumption DEF FromBlock, Blocks
  <2>4. CASE q.from # None /\ base # None
    <3>1. from = q.from /\ from > base.block /\ base.block = initial /\ initial # None
      BY <1>1, <1>4, <2>4 DEF FromBlock
    <3>2. PICK p \in scenario.requests : p.opening = initial /\ p.opening # None
      BY <1>3, <3>1 DEF Openings
    <3>3. q.from <= initial + 1
      BY <1>2, <2>4, <3>2 DEF StartsMeetOpenings
    <3> QED BY <2>1, <2>2, <2>4, <3>1, <3>3, ReplayAssumption DEF Blocks
  <2>5. CASE q.from # None /\ base = None
    BY <2>2, <2>5 DEF FromBlock
  <2> QED BY <2>3, <2>4, <2>5
<1> HIDE DEF from
<1>7. k \in Call
  BY <1>2, <1>3, <1>4, <1>5, <1>6 DEF Call, Request
<1>8. Continues(k)
  BY <1>4, <1>6 DEF Continues
<1> QED BY <1>1, <1>3, <1>5, <1>7, <1>8

-----------------------------------------------------------------------------
(* Steps *)

\* What is left of a call that moves on or ends.
Remains(k, new) ==
  \/ new = Idle \/ new = k
  \/ /\ k # Idle /\ new.revision = k.revision /\ new.initial = k.initial
     /\ new.from = k.from /\ new.base = k.base /\ new.disturbed = k.disturbed
     /\ new.pc = "folding" => new.read = facts

\* Calls that move on or end, and the chain, disturb no fold.
LEMMA MovesKeepFolds ==
  ASSUME FoldInv, UNCHANGED <<scenario, next, facts, snapshots, initials, current, raced>>,
         chain' \in [Blocks -> Nat], call' \in [Callers -> Call \cup {Idle}],
         \A c \in Callers : Remains(call[c], call'[c])
  PROVE  FoldInv'
<1>1. ASSUME NEW c \in Begun'
      PROVE  c \in Begun /\ call'[c].revision = call[c].revision /\ call'[c].initial = call[c].initial
  BY <1>1 DEF Begun, Remains
<1>2. Openings' = Openings
  BY DEF Openings
<1>3. Claims' \subseteq Claims
  BY <1>1, <1>2 DEF Claims
<1>4. ASSUME NEW c \in Begun' PROVE Continues(call[c])'
  BY <1>1, <1>4 DEF FoldInv, Begun, Remains, Continues, Exact, FoldedInto
<1>5. FoldType'
  BY DEF FoldInv, FoldType
<1>6. OneOpening' /\ OpeningsStored'
  BY <1>3 DEF FoldInv, OneOpening, OpeningsStored, Of
<1>7. ~raced' => \A x \in snapshots' : Exact(x)'
  BY DEF FoldInv, Exact, FoldedInto
<1> QED BY <1>2, <1>3, <1>4, <1>5, <1>6, <1>7 DEF FoldInv

\* A claim, a read of the facts, and an end.
LEMMA WorkKeepsFolds ==
  ASSUME FoldInv, NEW c \in Callers, ClaimBusy(c) \/ ClaimJob(c) \/ ReadFacts(c) \/ FailReplay(c) \/ Crash(c)
  PROVE  FoldInv'
<1>1. UNCHANGED <<scenario, next, facts, snapshots, initials, current, raced, chain>>
  BY DEF ClaimBusy, ClaimJob, ReadFacts, FailReplay, Crash, synced, derived, history
<1>2. call \in [Callers -> Call \cup {Idle}] /\ facts \subseteq Row /\ chain \in [Blocks -> Nat]
  BY DEF FoldInv, FoldType
<1>3. \/ call' = [call EXCEPT ![c] = Idle]
      \/ call[c] # Idle /\ call' = [call EXCEPT ![c].pc = "claimed"]
      \/ call[c] # Idle /\ call' = [call EXCEPT ![c].pc = "folding", ![c].read = facts]
  BY DEF ClaimBusy, ClaimJob, ReadFacts, FailReplay, Crash, Idle
<1>4. call'[c] \in Call \cup {Idle} /\ Remains(call[c], call'[c]) /\ \A d \in Callers \ {c} : call'[d] = call[d]
  <2>1. CASE call' = [call EXCEPT ![c] = Idle]
    BY <1>2, <2>1 DEF Remains
  <2>2. CASE call[c] # Idle /\ call' = [call EXCEPT ![c].pc = "claimed"]
    BY <1>2, <2>2 DEF Remains, Call
  <2>3. CASE call[c] # Idle /\ call' = [call EXCEPT ![c].pc = "folding", ![c].read = facts]
    BY <1>2, <2>3 DEF Remains, Call
  <2> QED BY <1>3, <2>1, <2>2, <2>3
<1>5. call' \in [Callers -> Call \cup {Idle}] /\ \A d \in Callers : Remains(call[d], call'[d])
  <2>1. \A d \in Callers : call'[d] \in Call \cup {Idle} /\ Remains(call[d], call'[d])
    BY <1>2, <1>4 DEF Remains
  <2>2. call' = [d \in Callers |-> call'[d]]
    BY <1>2, <1>3
  <2> QED BY <2>1, <2>2
<1> QED BY <1>1, <1>2, <1>5, MovesKeepFolds

\* A call that prepares names a revision, and clears a random one that nobody names.
LEMMA PrepareKeepsFolds ==
  ASSUME FoldInv, StartsMeetOpenings, NoneIsApart, NEW c \in Callers, NEW q \in scenario.requests, Prepare(c, q)
  PROVE  FoldInv'
<1>1. PICK k \in Call :
        /\ call' = [call EXCEPT ![c] = k]
        /\ Continues(k)
        /\ k.initial \in Openings \cup {None}
        /\ \/ k.initial \in Openings /\ k.revision = [opening |-> k.initial, random |-> 0]
           \/ current # None /\ k.revision = current.revision /\ k.initial = StoredInitial
           \/ k.revision \notin Named /\ k.revision.random # 0
        /\ snapshots' = {x \in snapshots : x.revision # k.revision \/ k.revision.random = 0 \/ k.revision \in Named}
        /\ initials' = {x \in initials : x.revision # k.revision \/ k.revision.random = 0 \/ k.revision \in Named}
  BY Prepared
<1>2. UNCHANGED <<scenario, chain, next, facts, current, raced>>
  BY Zenon DEF Prepare, synced, history
<1> DEFINE new == <<k.revision, k.initial>>
<1>3. /\ call \in [Callers -> Call \cup {Idle}]
      /\ call'[c] = k /\ \A d \in Callers \ {c} : call'[d] = call[d]
  BY <1>1 DEF FoldInv, FoldType
<1>4. FoldType'
  BY <1>1, <1>2 DEF FoldInv, FoldType
<1>5. Openings' = Openings /\ snapshots' \subseteq snapshots /\ initials' \subseteq initials
  BY <1>1, <1>2 DEF Openings
<1>6. Claims' \subseteq Claims \cup {new}
  BY <1>3, <1>5 DEF Claims, Begun
<1>7. /\ \A p \in Claims' \ {new} : p[1] = k.revision => p[2] = k.initial
      /\ OpeningsStored'
  <2>1. CASE k.initial \in Openings /\ k.revision = [opening |-> k.initial, random |-> 0]
    <3>1. new \in Claims
      BY <2>1 DEF Claims
    <3>2. snapshots' = snapshots /\ initials' = initials
      BY <1>1, <2>1
    <3> QED BY <1>2, <1>6, <3>1, <3>2 DEF FoldInv, OneOpening, OpeningsStored, Of
  <2>2. CASE current # None /\ k.revision = current.revision /\ k.initial = StoredInitial
    <3>1. snapshots' = snapshots /\ initials' = initials
      BY <1>1, <2>2 DEF Named
    <3>2. \A p \in Claims : p[1] = k.revision => p[2] = k.initial
      BY <2>2, StoredInitialFacts
    <3>3. k.initial # None => [revision |-> k.revision, block |-> k.initial] \in initials
      BY <2>2, StoredInitialFacts
    <3>4. OpeningsStored'
      BY <1>2, <1>6, <3>1, <3>3 DEF FoldInv, OpeningsStored, Of
    <3> QED BY <1>6, <3>2, <3>4
  <2>3. CASE k.revision \notin Named /\ k.revision.random # 0
    <3>1. \A x \in snapshots' \cup initials' : x.revision # k.revision
      BY <1>1, <2>3
    <3>2. \A d \in Begun' \ {c} : call'[d].revision # k.revision
      BY <1>3, <2>3 DEF Begun, Named
    <3>3. \A p \in Claims' \ {new} : p[1] # k.revision
      BY <1>3, <2>3, <3>1, <3>2 DEF Claims
    <3>4. current # None => current.revision # k.revision
      BY <2>3 DEF Named
    <3>5. ASSUME NEW p \in Claims', p[2] # None,
                 Of(p[1])' # {} \/ (current' # None /\ current'.revision = p[1])
          PROVE  [revision |-> p[1], block |-> p[2]] \in initials'
      <4>1. p[1] # k.revision
        BY <1>2, <3>1, <3>4, <3>5 DEF Of
      <4>2. p \in Claims
        BY <1>6, <4>1
      <4>3. [revision |-> p[1], block |-> p[2]] \in initials
        BY <1>2, <1>5, <3>5, <4>2 DEF FoldInv, OpeningsStored, Of
      <4> QED BY <1>1, <4>1, <4>3
    <3> QED BY <3>3, <3>5 DEF OpeningsStored
  <2> QED BY <1>1, <2>1, <2>2, <2>3
<1>8. OneOpening'
  BY <1>6, <1>7 DEF FoldInv, OneOpening
<1>9. \A p \in Claims' : p[2] \in Openings' \cup {None}
  BY <1>1, <1>5, <1>6 DEF FoldInv
<1>10. ~raced' => \A x \in snapshots' : Exact(x)'
  BY <1>2, <1>5 DEF FoldInv, Exact, FoldedInto
<1>11. ASSUME NEW d \in Begun' PROVE Continues(call[d])'
  <2>1. call'[d] = k \/ (d \in Begun /\ call'[d] = call[d])
    BY <1>3 DEF Begun
  <2>2. Continues(call'[d])
    BY <1>1, <2>1 DEF FoldInv
  <2> QED BY <1>2, <2>2 DEF Continues, Exact, FoldedInto
<1>12. \A x \in facts' : x.block < next'[x.dataset]
  BY <1>2 DEF FoldInv
<1> QED BY <1>4, <1>7, <1>8, <1>9, <1>10, <1>11, <1>12 DEF FoldInv

-----------------------------------------------------------------------------
(* Publication *)

\* A fold goes to a block, or to all there is.
LEMMA ToBlockType ==
  ASSUME NEW k \in Call
  PROVE  ToBlock(k) \in Blocks \cup {None} /\ (ToBlock(k) = None => k.base = None)
<1> DEFINE ahead == IF k.base = None THEN k.read ELSE From(k.read, k.from)
<1>1. BlocksOf(ahead) \in SUBSET Blocks /\ (ahead # {} => BlocksOf(ahead) # {})
  BY DEF Call, Row, From, BlocksOf
<1>2. ahead # {} => LastOf(ahead) \in Blocks
  BY <1>1, LastIn DEF LastOf
<1>3. None \notin Blocks /\ (k.base # None => k.base.block \in Blocks)
  BY ReplayAssumption DEF Call, Start, Blocks
<1>4. k.to \in Blocks \cup {None}
  BY DEF Call
<1>5. ToBlock(k) = IF k.to # None THEN k.to
                   ELSE IF ahead # {} THEN LastOf(ahead)
                   ELSE IF k.base # None THEN k.base.block ELSE None
  BY DEF ToBlock
<1> HIDE DEF ahead
<1> QED BY <1>2, <1>3, <1>4, <1>5

\* Snapshots are cut at blocks that were folded.
LEMMA CutsAreFolded ==
  ASSUME NEW k \in Call, NEW cuts \in Cuts(k)
  PROVE  cuts \subseteq BlocksOf(Reduced(k))
<1> DEFINE all == BlocksOf(Reduced(k))
<1>1. all \in SUBSET Blocks
  BY DEF BlocksOf, Reduced, InRange, From, UpTo, Call, Row
<1>2. all # {} => Max(all) \in all
  <2> HIDE DEF all
  <2> QED BY <1>1, LastIn
<1> QED BY <1>2 DEF Cuts

\* What an undisturbed call builds is exact: the fold of its base's facts and
\* of those after it, up to a block of them.
LEMMA BuiltIsExact ==
  ASSUME OneDataset, FoldType, \A f \in facts : f.block < next[f.dataset],
         NEW k \in Call, k.read = facts, Continues(k), ~raced, ~k.disturbed,
         NEW cuts \in Cuts(k), NEW x \in Built(k, cuts)
  PROVE  Exact(x)
<1> DEFINE base == IF k.base = None THEN OpeningState(None) ELSE k.base.state
           b    == x.block
           rows == UpTo(Reduced(k), b)
<1>1. x = [revision |-> k.revision, block |-> b, state |-> Folded(base, rows)] /\ b \in cuts /\ b >= k.from
  BY DEF Built
<1>2. PICK f \in Reduced(k) : f.block = b
  BY <1>1, CutsAreFolded DEF BlocksOf
<1>3. /\ facts \subseteq Row /\ f \in facts /\ b \in Nat /\ b \in Blocks /\ k.from \in Nat
      /\ \A g \in facts : g.block \in Nat
      /\ None \notin Int /\ ToBlock(k) \in Nat \cup {None}
  BY <1>2, ToBlockType, ReplayAssumption DEF Reduced, InRange, From, UpTo, FoldType, Row, Blocks, Call
<1>4. InRange(k) = {g \in facts : ToBlock(k) # None => g.block <= ToBlock(k)}
  BY DEF InRange, UpTo
<1>5. f \in InRange(k)
  BY <1>2 DEF Reduced, From
<1>6. \A g \in facts : g.block <= b => g \in InRange(k)
  BY <1>2, <1>3, <1>4, <1>5
<1>7. base \in State /\ rows \in SUBSET Row /\ base.opening = k.initial
  BY <1>3, OpeningType DEF Call, Start, Continues, UpTo, Reduced, InRange, From
<1>8. x.state.opening = base.opening /\ x.state.folded = base.folded (+) SetToBag(rows)
  <2>1. x.state = Folded(base, rows)
    BY <1>1
  <2> HIDE DEF base, rows
  <2> QED BY <1>7, <2>1, FoldedType
<1>9. \A d \in Datasets : b < next[d]
  BY <1>2, <1>3 DEF OneDataset, Row
<1>10. CASE k.base = None
  <2>1. base.opening = None /\ base.folded = SetToBag({})
    BY <1>10, OpeningType
  <2>2. rows = {g \in facts : g.block <= b}
    BY <1>3, <1>4, <1>6, <1>10 DEF UpTo, Reduced
  <2>3. FoldedInto(x.state, b) = rows
    BY <1>8, <2>1, <2>2 DEF FoldedInto
  <2>4. x.state.folded = SetToBag({} \cup rows)
    <3> HIDE DEF rows
    <3> QED BY <1>8, <2>1, BagOfParts
  <2> HIDE DEF rows
  <2> QED BY <1>8, <1>9, <2>1, <2>3, <2>4 DEF Exact
<1>11. CASE k.base # None
  <2> DEFINE old == FoldedInto(k.base.state, k.base.block)
  <2>1. /\ base = k.base.state /\ k.base.block \in Nat /\ k.from = k.base.block + 1
        /\ base.opening \in Nat \cup {None}
    BY <1>11, ReplayAssumption DEF Continues, Call, Start, State, Blocks
  <2>2. base.folded = SetToBag(old) /\ (base.opening # None => base.opening <= k.base.block)
    BY <1>11, <2>1 DEF Continues, Exact
  <2>3. rows = {g \in facts : g.block >= k.from /\ g.block <= b}
    BY <1>3, <1>4, <1>6, <1>11 DEF UpTo, Reduced, From
  <2>4. old = {g \in facts : g.block <= k.base.block /\ (base.opening # None => g.block > base.opening)}
    BY <2>1 DEF FoldedInto
  <2>5. FoldedInto(x.state, b) = {g \in facts : g.block <= b /\ (base.opening # None => g.block > base.opening)}
    BY <1>8 DEF FoldedInto
  <2> HIDE DEF old, rows, base
  <2>6. old \cap rows = {}
    BY <1>3, <2>1, <2>3, <2>4
  <2>7. old \cup rows = FoldedInto(x.state, b)
    BY <1>1, <1>3, <2>1, <2>2, <2>3, <2>4, <2>5
  <2>8. x.state.folded = SetToBag(FoldedInto(x.state, b))
    BY <1>8, <2>2, <2>6, <2>7, BagOfParts
  <2>9. x.state.opening # None => x.state.opening <= b
    BY <1>1, <1>3, <1>8, <2>1, <2>2
  <2> QED BY <1>9, <2>8, <2>9 DEF Exact
<1> QED BY <1>10, <1>11

\* What a publication adds is the call's: its opening and what it built.
LEMMA PublishKeepsFolds ==
  ASSUME FoldInv, OneDataset, NEW c \in Callers, Publish(c)
  PROVE  FoldInv'
<1> DEFINE k == call[c]
<1>1. /\ k.pc = "folding" /\ call' = [call EXCEPT ![c] = Idle]
      /\ UNCHANGED <<scenario, chain, next, facts>>
      /\ raced' = (raced \/ k.disturbed)
      /\ initials' = IF k.initial = None THEN initials
                     ELSE {i \in initials : i.revision # k.revision} \cup {[revision |-> k.revision, block |-> k.initial]}
      /\ current' = current \/ current' = [revision |-> k.revision, asOf |-> AsOf(k)]
  BY DEF Publish, synced
<1>2. PICK cuts \in Cuts(k) : snapshots' = Upserted(Upserted(Kept(k), OpeningRow(k)), Built(k, cuts))
  BY DEF Publish
<1>3. k \in Call /\ c \in Begun /\ Continues(k) /\ k.revision \in Revision /\ k.initial \in Blocks \cup {None}
  BY <1>1 DEF FoldInv, FoldType, Begun, Idle, Call
<1>4. \A x \in snapshots' : x \in snapshots \/ x \in OpeningRow(k) \/ x \in Built(k, cuts)
  BY <1>2 DEF Upserted, Kept
<1>5. ASSUME NEW x \in OpeningRow(k)
      PROVE  /\ x \in Snapshot /\ x.revision = k.revision /\ x.state.opening = k.initial
             /\ Exact(x)
  <2>1. k.initial \in Blocks /\ x = [revision |-> k.revision, block |-> k.initial, state |-> OpeningState(k.initial)]
    BY <1>3 DEF OpeningRow
  <2>2. OpeningState(k.initial) \in State /\ OpeningState(k.initial).opening = k.initial
    BY <2>1, OpeningType
  <2>3. x.block \in Blocks /\ x.state = OpeningState(x.block)
    BY <2>1
  <2> QED BY <1>3, <2>1, <2>2, <2>3, OpeningIsExact DEF Snapshot, FoldInv, FoldType
<1>6. ASSUME NEW x \in Built(k, cuts)
      PROVE  /\ x \in Snapshot /\ x.revision = k.revision /\ x.state.opening = k.initial
             /\ ~raced' => Exact(x)
  <2> DEFINE base == IF k.base = None THEN OpeningState(None) ELSE k.base.state
             rows == UpTo(Reduced(k), x.block)
  <2>1. x = [revision |-> k.revision, block |-> x.block, state |-> Folded(base, rows)] /\ x.block \in cuts
    BY DEF Built
  <2>2. base \in State /\ base.opening = k.initial
    BY <1>3, OpeningType DEF Call, Start, Continues
  <2>3. rows \in SUBSET Row /\ x.block \in Blocks
    BY <1>3, <2>1, CutsAreFolded DEF BlocksOf, Reduced, InRange, From, UpTo, Call, Row
  <2>4. ~raced' => Exact(x)
    <3>1. ~raced' => ~raced /\ ~k.disturbed /\ k.read = facts
      BY <1>1, <1>3 DEF Continues
    <3> QED BY <1>3, <3>1, BuiltIsExact DEF FoldInv
  <2> HIDE DEF base, rows
  <2>5. Folded(base, rows) \in State /\ Folded(base, rows).opening = k.initial
    BY <2>2, <2>3, FoldedType
  <2> QED BY <1>3, <2>1, <2>3, <2>4, <2>5 DEF Snapshot
<1> HIDE DEF k
<1>7. FoldType'
  <2>1. snapshots' \subseteq Snapshot
    BY <1>4, <1>5, <1>6 DEF FoldInv, FoldType
  <2>2. initials' \subseteq [revision : Revision, block : Blocks]
    BY <1>1, <1>3 DEF FoldInv, FoldType
  <2>3. current' # None => current'.revision \in Revision
    BY <1>1, <1>3 DEF FoldInv, FoldType
  <2>4. call' \in [Callers -> Call \cup {Idle}] /\ raced' \in BOOLEAN
    BY <1>1 DEF FoldInv, FoldType
  <2> QED BY <1>1, <2>1, <2>2, <2>3, <2>4 DEF FoldInv, FoldType
<1>8. <<k.revision, k.initial>> \in Claims
  BY <1>3 DEF Claims, k
<1>9. \A d \in Begun' : d \in Begun /\ call'[d] = call[d]
  BY <1>1 DEF FoldInv, FoldType, Begun
<1>10. Claims' \subseteq Claims /\ Openings' = Openings
  <2>1. Openings' = Openings
    BY <1>1 DEF Openings
  <2>2. \A x \in snapshots' : <<x.revision, x.state.opening>> \in Claims
    BY <1>4, <1>5, <1>6, <1>8 DEF Claims
  <2>3. \A i \in initials' : <<i.revision, i.block>> \in Claims
    <3>1. \A i \in initials : <<i.revision, i.block>> \in Claims
      BY DEF Claims
    <3>2. \A i \in initials' : i \in initials \/ (i.revision = k.revision /\ i.block = k.initial)
      BY <1>1
    <3> QED BY <1>8, <3>1, <3>2
  <2>4. \A d \in Begun' : <<call'[d].revision, call'[d].initial>> \in Claims
    BY <1>9 DEF Claims
  <2> QED BY <2>1, <2>2, <2>3, <2>4 DEF Claims
<1>11. ASSUME NEW p \in Claims', p[2] # None,
              Of(p[1])' # {} \/ (current' # None /\ current'.revision = p[1])
       PROVE  [revision |-> p[1], block |-> p[2]] \in initials'
  <2>1. CASE p[1] = k.revision
    <3>1. p[2] = k.initial
      BY <1>8, <1>10, <2>1 DEF FoldInv, OneOpening
    <3> QED BY <1>1, <1>11, <2>1, <3>1
  <2>2. CASE p[1] # k.revision
    <3>1. Of(p[1])' # {} => Of(p[1]) # {}
      BY <1>4, <1>5, <1>6, <2>2 DEF Of
    <3>2. current' # None /\ current'.revision = p[1] => current # None /\ current.revision = p[1]
      BY <1>1, <2>2
    <3>3. [revision |-> p[1], block |-> p[2]] \in initials
      BY <1>10, <1>11, <3>1, <3>2 DEF FoldInv, OpeningsStored
    <3> QED BY <1>1, <2>2, <3>3
  <2> QED BY <2>1, <2>2
<1>12. ASSUME ~raced', NEW x \in snapshots' PROVE Exact(x)'
  <2>1. Exact(x)
    BY <1>1, <1>4, <1>5, <1>6, <1>12 DEF FoldInv
  <2> QED BY <1>1, <2>1 DEF Exact, FoldedInto
<1>13. ASSUME NEW d \in Begun' PROVE Continues(call[d])'
  <2>1. Continues(call[d]) /\ call'[d] = call[d]
    BY <1>9 DEF FoldInv
  <2> QED BY <1>1, <2>1 DEF Continues, Exact, FoldedInto
<1>14. /\ \A p \in Claims' : p[2] \in Openings' \cup {None}
       /\ OneOpening'
       /\ OpeningsStored'
       /\ \A x \in facts' : x.block < next'[x.dataset]
  BY <1>1, <1>10, <1>11 DEF FoldInv, OneOpening, OpeningsStored
<1> QED BY <1>7, <1>12, <1>13, <1>14 DEF FoldInv

-----------------------------------------------------------------------------
(* Commits of the synchronisation *)

\* What a commit leaves is still the fold of the facts, because it drops all
\* that lies at or above the window, unless the window lies above everything.
LEMMA CommitKeepsSnapshots ==
  ASSUME FoldInv, OneDataset, ~raced, NEW d \in Datasets, NEW w \in Windows, SyncCommit(d, w),
         NEW x \in snapshots'
  PROVE  Exact(x)'
<1>1. /\ facts' = (facts \ Replaced(d, w)) \cup Served(d, w)
      /\ next' = [next EXCEPT ![d] = IF @ > w.end + 1 THEN @ ELSE w.end + 1]
      /\ snapshots' = Invalidated(w.start) \/ (~Rewinds(d, w) /\ snapshots' = snapshots)
  BY DEF SyncCommit
<1>2. /\ w.start \in Nat /\ w.end \in Nat /\ None \notin Int
      /\ next \in [Datasets -> Nat] /\ \A f \in facts : f.block \in Nat /\ f.dataset = d /\ f.block < next[d]
  BY ReplayAssumption DEF FoldInv, FoldType, OneDataset, Row, Blocks
<1>3. x \in snapshots /\ Exact(x) /\ x.block \in Nat /\ x.state.opening \in Nat \cup {None}
  BY <1>1, ReplayAssumption DEF Invalidated, FoldInv, FoldType, Snapshot, State, Blocks
<1>4. \A f \in Served(d, w) \cup Replaced(d, w) : f.block \in Nat /\ f.block >= w.start
  BY <1>2 DEF Served, Replaced
<1>5. FoldedInto(x.state, x.block)' = FoldedInto(x.state, x.block)
  <2>1. CASE x.block < w.start
    <3>1. \A f \in Served(d, w) \cup Replaced(d, w) : ~(f.block <= x.block)
      BY <1>2, <1>3, <1>4, <2>1
    <3> QED BY <1>1, <3>1 DEF FoldedInto
  <2>2. CASE ~(x.block < w.start)
    <3>1. w.start >= next[d]
      BY <1>1, <1>2, <2>2 DEF Invalidated, Rewinds
    <3>2. Replaced(d, w) = {}
      BY <1>2, <1>4, <3>1 DEF Replaced
    <3>3. x.block = x.state.opening
      BY <1>2, <1>3, <2>2, <3>1 DEF Exact
    <3>4. \A f \in facts \cup Served(d, w) : ~(f.block <= x.block /\ f.block > x.block)
      BY <1>2, <1>3, <1>4
    <3> QED BY <1>1, <1>2, <1>3, <3>2, <3>3, <3>4 DEF FoldedInto
  <2> QED BY <2>1, <2>2
<1>6. \A e \in Datasets : next'[e] >= next[e] /\ next[e] \in Nat /\ next'[e] \in Nat
  BY <1>1, <1>2
<1>7. x.block = x.state.opening \/ \A e \in Datasets : x.block < next'[e]
  BY <1>3, <1>6 DEF Exact
<1> QED BY <1>3, <1>5, <1>7 DEF Exact

\* A commit changes the facts, drops what was derived from those it changes,
\* and disturbs every call at work.
LEMMA CommitKeepsFolds ==
  ASSUME FoldInv, OneDataset, NEW d \in Datasets, NEW w \in Windows, SyncCommit(d, w)
  PROVE  FoldInv'
<1>1. /\ facts' = (facts \ Replaced(d, w)) \cup Served(d, w)
      /\ next' = [next EXCEPT ![d] = IF @ > w.end + 1 THEN @ ELSE w.end + 1]
      /\ snapshots' \subseteq snapshots
      /\ current' = None \/ current' = current
      /\ call' = [c \in Callers |-> IF call[c] = Idle THEN Idle ELSE [call[c] EXCEPT !.disturbed = TRUE]]
      /\ UNCHANGED <<scenario, chain, initials, raced>>
  BY DEF SyncCommit, Invalidated
<1>2. /\ w.start \in Blocks /\ w.end \in Nat /\ w.end <= LastBlock /\ LastBlock \in Nat
      /\ chain \in [Blocks -> Nat] /\ next \in [Datasets -> Nat] /\ facts \subseteq Row
      /\ call \in [Callers -> Call \cup {Idle}]
  BY ReplayAssumption DEF FoldInv, FoldType, Blocks
<1>3. \A f \in Served(d, w) : f \in Row /\ f.dataset = d /\ f.block <= w.end
  BY <1>2 DEF Served, Row, Blocks
<1>4. \A c \in Callers : \/ call[c] = Idle /\ call'[c] = Idle
                         \/ /\ call[c] \in Call /\ call'[c] \in Call /\ call[c] # Idle
                            /\ call'[c] = [call[c] EXCEPT !.disturbed = TRUE]
  BY <1>1, <1>2 DEF Call
<1>5. FoldType'
  <2>1. facts' \subseteq Row /\ next' \in [Datasets -> Nat]
    BY <1>1, <1>2, <1>3
  <2>2. call' \in [Callers -> Call \cup {Idle}]
    <3>1. \A c \in Callers : call'[c] \in Call \cup {Idle}
      BY <1>4
    <3>2. call' = [c \in Callers |-> call'[c]]
      BY <1>1
    <3> QED BY <3>1, <3>2
  <2> QED BY <1>1, <2>1, <2>2 DEF FoldInv, FoldType
<1>6. \A f \in facts' : f.block < next'[f.dataset]
  <2>1. \A f \in facts : f.block < next[f.dataset] /\ f.dataset \in Datasets /\ f.block \in Nat
    BY <1>2, ReplayAssumption DEF FoldInv, Row, Blocks
  <2>2. \A f \in Served(d, w) : f.block < next'[f.dataset] /\ f.block \in Nat
    BY <1>1, <1>2, <1>3, ReplayAssumption DEF Row, Blocks
  <2> QED BY <1>1, <1>2, <2>1, <2>2
<1>7. \A c \in Begun' : /\ c \in Begun /\ call'[c].revision = call[c].revision /\ call'[c].initial = call[c].initial
                        /\ call'[c].base = call[c].base /\ call'[c].from = call[c].from /\ call'[c].disturbed
  BY <1>4 DEF Begun, Call
<1>8. Claims' \subseteq Claims /\ Openings' = Openings
  <2>1. Openings' = Openings
    BY <1>1 DEF Openings
  <2> QED BY <1>1, <1>7, <2>1 DEF Claims
<1>9. /\ \A p \in Claims' : p[2] \in Openings' \cup {None}
      /\ OneOpening' /\ OpeningsStored'
  BY <1>1, <1>8 DEF FoldInv, OneOpening, OpeningsStored, Of
<1>10. ASSUME NEW c \in Begun' PROVE Continues(call[c])'
  BY <1>7 DEF FoldInv, Continues
<1>11. ~raced' => \A x \in snapshots' : Exact(x)'
  BY <1>1, CommitKeepsSnapshots
<1> QED BY <1>5, <1>6, <1>9, <1>10, <1>11 DEF FoldInv

\* Nothing is derived yet.
LEMMA FoldInvInitially == Init => FoldInv
<1> SUFFICES ASSUME Init PROVE FoldInv
  OBVIOUS
<1>1. /\ snapshots = {} /\ initials = {} /\ current = None /\ facts = {} /\ raced = FALSE
      /\ scenario \in Scenarios /\ call = [c \in Callers |-> Idle]
      /\ chain = [b \in Blocks |-> 0] /\ next = [d \in Datasets |-> 0]
  BY DEF Init
<1>2. FoldType
  BY <1>1 DEF FoldType
<1>3. Begun = {} /\ Claims = {<<[opening |-> o, random |-> 0], o>> : o \in Openings}
  BY <1>1 DEF Begun, Claims
<1>4. OpeningsStored
  BY <1>1 DEF OpeningsStored, Of
<1>5. OneOpening /\ \A p \in Claims : p[2] \in Openings
  BY <1>3 DEF OneOpening
<1> QED BY <1>1, <1>2, <1>3, <1>4, <1>5 DEF FoldInv

\* Every step keeps the folds.
LEMMA FoldInvKept ==
  ASSUME OneDataset, StartsMeetOpenings, NoneIsApart, FoldInv, [Next]_vars
  PROVE  FoldInv'
<1>1. scenario.callers \subseteq Callers
  BY ReplayAssumption DEF FoldInv, FoldType
<1>2. ASSUME NEW c \in scenario.callers, Replay(c) \/ \E q \in scenario.requests : Prepare(c, q)
      PROVE  FoldInv'
  BY <1>1, <1>2, WorkKeepsFolds, PublishKeepsFolds, PrepareKeepsFolds, Zenon DEF Replay
<1>3. ASSUME NEW d \in Datasets, NEW w \in Windows, SyncCommit(d, w) PROVE FoldInv'
  BY <1>3, CommitKeepsFolds
<1>4. CASE Fault
  BY <1>4, WorkKeepsFolds DEF Fault
<1>5. CASE Expire \/ (\E b \in Reorgs : Reorg(b)) \/ UNCHANGED vars
  <2>1. UNCHANGED <<scenario, next, facts, snapshots, initials, current, raced, call>>
    BY <1>5 DEF Expire, Reorg, vars, synced, derived, history
  <2>2. chain' \in [Blocks -> Nat]
    BY <1>5 DEF Expire, Reorg, vars, synced, FoldInv, FoldType
  <2> QED BY <2>1, <2>2, MovesKeepFolds DEF Remains, FoldInv, FoldType
<1> QED BY <1>2, <1>3, <1>4, <1>5, Zenon DEF Next

\* What is published is the fold of its opening and of the facts after it, for
\* any callers, requests, crashes, expired leases and reorganisations, unless
\* a commit overtook the replay: a snapshot that is resumed from, or is left
\* by a commit, is as good as a fold from the start.
THEOREM SnapshotsAreFolds ==
  OneDataset /\ StartsMeetOpenings /\ NoneIsApart => (Spec => []SnapshotsMatchFacts)
<1> SUFFICES ASSUME OneDataset, StartsMeetOpenings, NoneIsApart PROVE Spec => []SnapshotsMatchFacts
  OBVIOUS
<1>1. Init => FoldInv
  BY FoldInvInitially
<1>2. FoldInv /\ [Next]_vars => FoldInv'
  BY FoldInvKept
<1>3. ASSUME FoldInv PROVE SnapshotsMatchFacts
  <2> SUFFICES ASSUME current # None, ~raced, NEW x \in Of(current.revision)
               PROVE  /\ x.state.folded = SetToBag(Expected(current.revision, x.block))
                      /\ \A i \in initials : i.revision = current.revision => x.state.opening = i.block
    BY DEF SnapshotsMatchFacts
  <2>1. x \in snapshots /\ x.revision = current.revision /\ Exact(x)
    BY <1>3 DEF FoldInv, Of
  <2>2. <<current.revision, x.state.opening>> \in Claims
    BY <2>1 DEF Claims
  <2>3. ASSUME NEW i \in initials, i.revision = current.revision PROVE x.state.opening = i.block
    <3>1. <<current.revision, i.block>> \in Claims
      BY <2>3 DEF Claims
    <3> QED BY <1>3, <2>2, <3>1 DEF FoldInv, OneOpening
  <2>4. x.state.opening # None => [revision |-> current.revision, block |-> x.state.opening] \in initials
    BY <1>3, <2>2 DEF FoldInv, OpeningsStored
  <2>5. \A i \in initials : i.block # None
    BY <1>3, ReplayAssumption DEF FoldInv, FoldType, Blocks
  <2>6. Expected(current.revision, x.block) = FoldedInto(x.state, x.block)
    <3> DEFINE opened == {i.block : i \in {i \in initials : i.revision = current.revision}}
    <3>1. opened = IF x.state.opening = None THEN {} ELSE {x.state.opening}
      BY <2>3, <2>4, <2>5
    <3>2. \A f : (\A o \in opened : f.block > o) <=> (x.state.opening # None => f.block > x.state.opening)
      BY <3>1
    <3>3. Expected(current.revision, x.block) = {f \in UpTo(facts, x.block) : \A o \in opened : f.block > o}
      BY DEF Expected
    <3> HIDE DEF opened
    <3> QED BY <3>2, <3>3 DEF UpTo, FoldedInto
  <2> QED BY <2>1, <2>3, <2>6 DEF Exact
<1> QED BY <1>1, <1>2, <1>3, PTL DEF Spec
=============================================================================
