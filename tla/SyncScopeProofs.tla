-------------------------- MODULE SyncScopeProofs --------------------------
(***************************************************************************)
(* Theorems about SyncScope for any number of callers, any chain height,   *)
(* window, overlap and number of reorganisations.                          *)
(***************************************************************************)
EXTENDS SyncScope, FiniteSetTheorems, TLAPS

-----------------------------------------------------------------------------
(* Scenarios *)

\* Callers agree on where the dataset begins: they start at block 0 unless
\* there is but one of them.  A fromBlock is compared with the cursor before
\* the claim and not again after it, so two first calls that start at
\* different blocks can leave a gap; and so can a recollect ahead of the cursor.
OneBeginning ==
  \A s \in Scenarios :
    /\ Starts \subseteq {None, 0} \/ Cardinality(s.callers) = 1
    /\ \A w \in s.recollects : w.start = 0

\* Nobody recollects, which takes no claim, while another call is made.
RecollectsAlone == \A s \in Scenarios : s.recollects # {} => Cardinality(s.callers) = 1

\* A recollect replaces what it finds.
RecollectsReplace == \A s \in Scenarios : \A w \in s.recollects : w.replace

-----------------------------------------------------------------------------
(* The inductive invariants *)

Active(r)  == run[r] # Idle
HasRows(r) == run[r].pc \in {"fetched", "recollecting"}

\* What a call has fetched is what some chain served of its window.
RowsOfWindow(w) ==
  /\ \A x \in w.rows : x.block \in w.start..w.end /\ x.version <= chain[x.block]
  /\ \A b \in w.start..w.end : \E x \in w.rows : x.block = b
  /\ \A x, y \in w.rows : x.block = y.block => x.version = y.version

SyncInv ==
  /\ TypeOK
  /\ \A r \in Runs : Active(r) => r \in scenario.callers /\ run[r].start <= run[r].end
  /\ \A r \in Runs : Holds(r) => scope # None
  /\ \A r \in Runs : HasRows(r) => RowsOfWindow(run[r])
  /\ \A r \in Runs : run[r].pc = "recollecting" => scenario.recollects # {}
  /\ \A x \in facts : x.version <= chain[x.block]
  /\ scope # None => origin # None

\* No call starts above the cursor.
GapInv ==
  /\ PrefixPersisted
  /\ scope # None => \A r \in Runs : Active(r) => run[r].start <= scope.next
  /\ scope = None => \A r \in Runs : Active(r) => run[r].start = 0 \/ Cardinality(scenario.callers) = 1

\* A row without a complete block has its cursor at block 0.
CursorInv ==
  /\ CursorConsistent
  /\ scope # None => (scope.last = None => scope.next = 0)
  /\ scope = None => \A r \in Runs : run[r].pc \in {"planned", "claiming"} => run[r].start = 0

\* Whoever is in a claim is alone in it and found the scope free; and what it
\* has fetched is no older than the facts it will replace.
InClaim(r) == run[r].pc \in {"claiming", "fetching", "fetched"}

ClaimInv ==
  /\ \A r \in Runs : Holds(r) => Busy
  /\ \A r \in Runs : run[r].pc = "claiming" => ~Busy
  /\ \A r, q \in Runs : InClaim(r) /\ InClaim(q) => r = q
  /\ \A r \in Runs : HasRows(r) =>
       \A x \in facts, y \in run[r].rows : x.block = y.block => x.version <= y.version

\* A lone caller knows which blocks have facts: a window that replaces nothing
\* lies above them all.
VersionInv ==
  /\ \A x, y \in facts : x.block = y.block => x.version = y.version
  /\ \A x \in facts : scope # None /\ x.block < scope.next
  /\ \A r \in Runs : Active(r) /\ ~run[r].replaces => \A x \in facts : x.block < run[r].start

-----------------------------------------------------------------------------
(* Facts that the steps below share *)

\* A call is idle or at work, and its step says which.
LEMMA RunFacts ==
  ASSUME TypeOK, NEW r \in Runs
  PROVE  /\ run \in [Runs -> {Idle} \cup Working]
         /\ Active(r) <=> run[r] \in Working
         /\ Active(r) <=> run[r].pc # "idle"
         /\ Active(r) => /\ run[r].start \in Nat /\ run[r].end \in Nat
                         /\ run[r].start \in Blocks /\ run[r].end \in Blocks
BY BlockAssumption DEF TypeOK, Active, Idle, Working, Blocks

\* The scope row has a cursor, and perhaps a last complete block.
LEMMA ScopeFacts ==
  ASSUME TypeOK, scope # None
  PROVE  scope \in Scope /\ scope.next \in Nat /\ (scope.last # None => scope.last \in Nat)
BY DEF TypeOK, Scope

\* What update decides before the claim.
LEMMA PlanFacts ==
  ASSUME TypeOK, NEW r \in Runs, NEW from \in Starts, NEW target \in Targets, Plan(r, from, target)
  PROVE  \E w \in Working :
           /\ run' = [run EXCEPT ![r] = w]
           /\ w.pc = "planned" /\ w.start <= w.end
           /\ scope # None => w.start <= scope.next
           /\ scope = None /\ Starts \subseteq {None, 0} => w.start = 0
           /\ ~w.replaces /\ scope # None => scope.next <= w.start
<1> DEFINE cursor == IF scope = None THEN 0 ELSE scope.next
           start  == IF from = None THEN OverlapStart(cursor) ELSE from
           end    == BoundedEnd(start, target)
<1>1. cursor \in Nat /\ target \in Blocks /\ (from # None => from \in Blocks) /\ target \in Nat
  BY ScopeFacts, CallAssumption, BlockAssumption DEF Blocks
<1>2. start \in Nat
  BY <1>1, BlockAssumption DEF OverlapStart, MaxOf, Blocks
<1>3. /\ start <= target
      /\ scope # None /\ from # None => from <= scope.next
      /\ UNCHANGED <<scenario, chain, scope, facts, history>>
      /\ run' = [run EXCEPT ![r] =
                   [pc |-> "planned", start |-> start, end |-> end, rows |-> {},
                    replaces |-> start < cursor, stalls |-> target >= cursor /\ end < cursor]]
  BY Zenon DEF Plan
<1>4. start \in Blocks
  BY <1>1, <1>2, <1>3, BlockAssumption DEF Blocks
<1>5. end \in Blocks /\ start <= end
  BY <1>1, <1>2, <1>3, BlockAssumption DEF BoundedEnd, MinOf, Blocks
<1>6. scope # None => start <= scope.next
  BY <1>1, <1>3, BlockAssumption DEF OverlapStart, MaxOf
<1>7. scope = None /\ Starts \subseteq {None, 0} => start = 0
  BY BlockAssumption DEF OverlapStart, MaxOf
<1>8. start >= cursor /\ scope # None => scope.next <= start
  <2> HIDE DEF start
  <2> QED BY <1>1, <1>2
<1> DEFINE w == [pc |-> "planned", start |-> start, end |-> end, rows |-> {},
                 replaces |-> start < cursor, stalls |-> target >= cursor /\ end < cursor]
<1>9. /\ w \in Working /\ w.pc = "planned" /\ w.start = start /\ w.end = end
      /\ ~w.replaces => ~(start < cursor)
  <2> DEFINE below == start < cursor
             short == target >= cursor /\ end < cursor
  <2>1. below \in BOOLEAN /\ short \in BOOLEAN
    OBVIOUS
  <2>2. w = [pc |-> "planned", start |-> start, end |-> end, rows |-> {},
             replaces |-> below, stalls |-> short]
    OBVIOUS
  <2>3. w.replaces = below
    BY Zenon
  <2> HIDE DEF start, end, cursor, below, short, w
  <2>4. w \in Working /\ w.pc = "planned" /\ w.start = start /\ w.end = end
    BY <1>4, <1>5, <2>1, <2>2 DEF Working
  <2>5. ~w.replaces => ~below
    BY <2>3, Zenon
  <2> QED BY <2>4, <2>5 DEF below
<1>10. run' = [run EXCEPT ![r] = w]
  BY <1>3
<1> HIDE DEF w, start, end
<1>11. ~w.replaces => start >= cursor
  BY <1>1, <1>2, <1>9
<1> HIDE DEF cursor
<1> QED BY <1>5, <1>6, <1>7, <1>8, <1>9, <1>10, <1>11

-----------------------------------------------------------------------------
(* The steps that leave the database alone *)

Quiet == UNCHANGED <<scenario, chain, scope, facts, history>>

SameWindow(v, w) == w.start = v.start /\ w.end = v.end /\ w.replaces = v.replaces

\* Rows as the chain serves them now.
FreshRows(w) == w.rows = Served(w.start, w.end)

Plans(r, w) ==
  /\ run[r] = Idle /\ w.pc = "planned"
  /\ scope # None => w.start <= scope.next
  /\ scope = None /\ Starts \subseteq {None, 0} => w.start = 0
  /\ ~w.replaces /\ scope # None => scope.next <= w.start

Claims(r, w)  == run[r].pc = "planned" /\ ~Busy /\ Unlocked /\ w.pc = "claiming" /\ SameWindow(run[r], w)
Fetches(r, w) == run[r].pc = "fetching" /\ w.pc = "fetched" /\ SameWindow(run[r], w) /\ FreshRows(w)

Recollects(r, w) ==
  /\ run[r] = Idle /\ w.pc = "recollecting" /\ FreshRows(w)
  /\ \E v \in scenario.recollects : w.start = v.start /\ w.end = v.end /\ w.replaces = v.replace

\* A step after which the call r stands at w.
Local(r, w) ==
  /\ run' = [run EXCEPT ![r] = w]
  /\ Quiet
  /\ \/ w = Idle
     \/ /\ w \in Working /\ r \in scenario.callers /\ w.start <= w.end
        /\ Plans(r, w) \/ Claims(r, w) \/ Fetches(r, w) \/ Recollects(r, w)

\* Rows of a chain are rows of the window.
LEMMA ServedRows ==
  ASSUME TypeOK, NEW s \in Blocks, NEW e \in Blocks
  PROVE  /\ Served(s, e) \in SUBSET Row
         /\ \A x \in Served(s, e) : x.block \in s..e /\ x.version = chain[x.block]
         /\ \A b \in s..e : \E x \in Served(s, e) : x.block = b
<1>1. \A b \in s..e : b \in Blocks /\ chain[b] \in Nat
  BY BlockAssumption DEF Blocks, TypeOK
<1>2. \A x \in Served(s, e) : \E b \in s..e : x = [block |-> b, version |-> chain[b]]
  BY DEF Served
<1>3. \A b \in s..e : [block |-> b, version |-> chain[b]] \in Served(s, e)
  BY DEF Served
<1>4. ASSUME NEW x \in Served(s, e)
      PROVE  x \in Row /\ x.block \in s..e /\ x.version = chain[x.block]
  <2>1. PICK b \in s..e : x = [block |-> b, version |-> chain[b]]
    BY <1>2
  <2>2. b \in Blocks /\ chain[b] \in Nat
    BY <1>1
  <2> QED BY <2>1, <2>2 DEF Row
<1>5. ASSUME NEW b \in s..e
      PROVE  \E x \in Served(s, e) : x.block = b
  <2>1. [block |-> b, version |-> chain[b]].block = b
    OBVIOUS
  <2> QED BY <1>3, <2>1
<1>6. Served(s, e) \in SUBSET Row
  BY <1>4, Zenon
<1> QED BY <1>4, <1>5, <1>6, Zenon

\* A crash leaves the database as it is.
LEMMA CrashIsLocal ==
  ASSUME SyncInv, NEW r \in Runs, Crash(r)
  PROVE  Local(r, Idle)
BY DEF Crash, Local, Quiet

\* So do the reads of update and recollect and the fetch of a window.
LEMMA WorkIsLocal ==
  ASSUME SyncInv, NEW r \in scenario.callers, r \in Runs,
         \/ \E from \in Starts, target \in Targets : Plan(r, from, target)
         \/ ClaimRead(r)
         \/ Fetch(r)
         \/ \E v \in scenario.recollects : RecollectFetch(r, v)
  PROVE  \E w : Local(r, w)
<1>1. ASSUME NEW from \in Starts, NEW target \in Targets, Plan(r, from, target)
      PROVE  \E w : Local(r, w)
  <2>1. PICK w \in Working :
          /\ run' = [run EXCEPT ![r] = w]
          /\ w.pc = "planned" /\ w.start <= w.end
          /\ scope # None => w.start <= scope.next
          /\ scope = None /\ Starts \subseteq {None, 0} => w.start = 0
          /\ ~w.replaces /\ scope # None => scope.next <= w.start
    BY <1>1, PlanFacts DEF SyncInv
  <2>2. run[r] = Idle /\ Quiet
    BY <1>1, Zenon DEF Plan, Quiet
  <2> QED BY <2>1, <2>2 DEF Local, Plans
<1>2. CASE ClaimRead(r)
  <2>1. run[r] \in Working /\ run[r].start <= run[r].end /\ Quiet /\ run[r].pc = "planned" /\ Unlocked
    BY <1>2, RunFacts DEF SyncInv, ClaimRead, Quiet
  <2>2. CASE Busy
    BY <1>2, <2>1, <2>2 DEF ClaimRead, Local
  <2>3. CASE ~Busy
    <3> DEFINE w == [run[r] EXCEPT !.pc = "claiming"]
    <3>1. w \in Working /\ w.pc = "claiming" /\ SameWindow(run[r], w)
      BY <2>1 DEF Working, SameWindow
    <3>2. run' = [run EXCEPT ![r] = w]
      BY <1>2, <2>3 DEF ClaimRead
    <3>3. w.start <= w.end
      BY <2>1, <3>1 DEF SameWindow
    <3> HIDE DEF w
    <3> QED BY <2>1, <2>3, <3>1, <3>2, <3>3 DEF Local, Claims
  <2> QED BY <2>2, <2>3
<1>3. CASE Fetch(r)
  <2>1. run[r] \in Working /\ run[r].start <= run[r].end /\ Quiet /\ run[r].pc = "fetching"
    BY <1>3, RunFacts DEF SyncInv, Fetch, Quiet
  <2> DEFINE rows == Served(run[r].start, run[r].end)
             w == [run[r] EXCEPT !.pc = "fetched", !.rows = rows]
  <2>2. rows \in SUBSET Row
    BY <2>1, ServedRows DEF SyncInv, Working
  <2>3. run' = [run EXCEPT ![r] = w]
    BY <1>3 DEF Fetch, SyncInv, TypeOK
  <2>4. w \in Working /\ w.pc = "fetched" /\ SameWindow(run[r], w) /\ w.rows = rows
    <3> HIDE DEF rows
    <3> QED BY <2>1, <2>2 DEF Working, SameWindow
  <2> HIDE DEF w
  <2>5. w.start <= w.end /\ FreshRows(w)
    BY <2>1, <2>4 DEF SameWindow, FreshRows
  <2> QED BY <2>1, <2>3, <2>4, <2>5 DEF Local, Fetches
<1>4. ASSUME NEW v \in scenario.recollects, RecollectFetch(r, v)
      PROVE  \E w : Local(r, w)
  <2> DEFINE rows == Served(v.start, v.end)
             w == [pc |-> "recollecting", start |-> v.start, end |-> v.end, replaces |-> v.replace,
                   stalls |-> FALSE, rows |-> rows]
  <2>1. /\ v.start \in Blocks /\ v.end \in Blocks /\ v.replace \in BOOLEAN /\ v.start <= v.end
    BY SyncAssumption, BlockAssumption DEF SyncInv, TypeOK, Blocks
  <2>2. rows \in SUBSET Row
    BY <2>1, ServedRows DEF SyncInv
  <2>3. run' = [run EXCEPT ![r] = w] /\ run[r] = Idle /\ Quiet
    BY <1>4 DEF RecollectFetch, Quiet
  <2>4. /\ w \in Working /\ w.pc = "recollecting" /\ w.start = v.start /\ w.end = v.end
        /\ w.replaces = v.replace /\ w.rows = rows
    <3> HIDE DEF rows
    <3> QED BY <2>1, <2>2 DEF Working
  <2> HIDE DEF w
  <2>5. w.start <= w.end /\ FreshRows(w)
    BY <2>1, <2>4 DEF FreshRows
  <2> QED BY <2>3, <2>4, <2>5 DEF Local, Recollects
<1> QED BY <1>1, <1>2, <1>3, <1>4

-----------------------------------------------------------------------------
(* The steps that write *)

\* A window's transaction, of an update or of a recollect.
Commits(r) == HasRows(r) /\ CommitWindow(r)

\* A claim given up, by an error or a window that ends below the cursor.
GivesUp(r) == Holds(r) /\ MarkFailed(r)

\* Every step is one of seven kinds.
LEMMA StepKinds ==
  ASSUME SyncInv, [Next]_vars
  PROVE  \/ UNCHANGED vars
         \/ \E r \in Runs : \E w : Local(r, w)
         \/ \E r \in Runs : ClaimWrite(r)
         \/ \E r \in Runs : Commits(r)
         \/ \E r \in Runs : GivesUp(r)
         \/ Expire
         \/ \E b \in Blocks : Reorg(b)
<1>1. scenario.callers \subseteq Runs
  BY SyncAssumption DEF SyncInv, TypeOK
<1>2. ASSUME NEW r \in scenario.callers, Work(r)
      PROVE  \/ \E w : Local(r, w)
             \/ ClaimWrite(r) \/ Commits(r) \/ GivesUp(r)
  <2>1. CASE Commit(r)
    BY <2>1, Zenon DEF Commit, Commits, HasRows
  <2>2. CASE Stall(r)
    BY <2>2, Zenon DEF Stall, GivesUp, Holds
  <2> QED BY <1>1, <1>2, <2>1, <2>2, WorkIsLocal, Zenon DEF Work
<1>3. ASSUME NEW r \in scenario.callers, Recollect(r)
      PROVE  (\E w : Local(r, w)) \/ Commits(r)
  <2>1. CASE RecollectCommit(r)
    BY <2>1, Zenon DEF RecollectCommit, Commits, HasRows
  <2> QED BY <1>1, <1>3, <2>1, WorkIsLocal, Zenon DEF Recollect
<1>4. ASSUME NEW r \in Runs, FailRun(r) \/ Crash(r)
      PROVE  (\E w : Local(r, w)) \/ GivesUp(r)
  BY <1>4, CrashIsLocal, Zenon DEF FailRun, GivesUp
<1> QED BY <1>1, <1>2, <1>3, <1>4, Zenon DEF Next, Fault

\* What a step that moves one call leaves of the others.
LEMMA OtherRuns ==
  ASSUME TypeOK, NEW r \in Runs, NEW w, run' = [run EXCEPT ![r] = w]
  PROVE  run'[r] = w /\ \A q \in Runs \ {r} : run'[q] = run[q]
BY DEF TypeOK

\* The invariant is kept by a step of a call that writes nothing.
LEMMA LocalKeepsSyncInv ==
  ASSUME SyncInv, NEW r \in Runs, NEW w, Local(r, w)
  PROVE  SyncInv'
<1>1. run'[r] = w /\ \A q \in Runs \ {r} : run'[q] = run[q]
  BY OtherRuns DEF SyncInv, Local
<1>2. w \in {Idle} \cup Working /\ UNCHANGED <<scenario, chain, scope, facts, origin, outlived>>
  BY DEF Local, Quiet, history
<1>3. TypeOK'
  BY <1>1, <1>2 DEF SyncInv, TypeOK, Local
<1>4. w # Idle => w \in Working /\ r \in scenario.callers /\ w.start <= w.end
  BY DEF Local
<1>5. (\A q \in Runs : Active(q) => q \in scenario.callers /\ run[q].start <= run[q].end)'
  BY <1>1, <1>2, <1>4 DEF SyncInv, Active
<1>6. w.pc \in {"fetching", "fetched"} => scope # None
  BY DEF Local, Plans, Claims, Fetches, Recollects, SyncInv, Holds, Idle
<1>7. (\A q \in Runs : Holds(q) => scope # None)'
  BY <1>1, <1>2, <1>6 DEF SyncInv, Holds
<1>8. w.pc \in {"fetched", "recollecting"} => w \in Working /\ w.start <= w.end /\ FreshRows(w)
  BY DEF Local, Plans, Claims, Fetches, Recollects, Idle
<1>9. w.pc \in {"fetched", "recollecting"} => RowsOfWindow(w)
  <2>1. SUFFICES ASSUME w \in Working, FreshRows(w) PROVE RowsOfWindow(w)
    BY <1>8
  <2>2. w.start \in Blocks /\ w.end \in Blocks
    BY <2>1 DEF Working
  <2>3. /\ w.rows \in SUBSET Row
        /\ \A x \in w.rows : x.block \in w.start..w.end /\ x.version = chain[x.block]
        /\ \A b \in w.start..w.end : \E x \in w.rows : x.block = b
    BY <2>1, <2>2, ServedRows DEF SyncInv, FreshRows
  <2>4. \A x \in w.rows : x.version \in Nat
    BY <2>3 DEF Row
  <2> QED BY <2>3, <2>4 DEF RowsOfWindow
<1>10. (\A q \in Runs : HasRows(q) => RowsOfWindow(run[q]))'
  BY <1>1, <1>2, <1>9 DEF SyncInv, HasRows, RowsOfWindow
<1>11. w.pc = "recollecting" => scenario.recollects # {}
  BY DEF Local, Plans, Claims, Fetches, Recollects, Idle
<1>12. (\A q \in Runs : run[q].pc = "recollecting" => scenario.recollects # {})'
  BY <1>1, <1>2, <1>11 DEF SyncInv
<1>13. (\A x \in facts : x.version <= chain[x.block])' /\ (scope # None => origin # None)'
  BY <1>2 DEF SyncInv
<1> QED BY <1>3, <1>5, <1>7, <1>10, <1>12, <1>13 DEF SyncInv

\* What a claim writes: the row as it was, or a new one at the start of the window.
LEMMA ClaimFacts ==
  ASSUME SyncInv, NEW r \in Runs, ClaimWrite(r)
  PROVE  \E w \in Working :
           /\ run' = [run EXCEPT ![r] = w]
           /\ w.pc = "fetching" /\ SameWindow(run[r], w)
           /\ run[r].pc = "claiming" /\ r \in scenario.callers /\ w.start <= w.end
           /\ scope' \in Scope /\ scope'.status = "running"
           /\ scope # None => scope'.next = scope.next /\ scope'.last = scope.last /\ origin' = origin
           /\ scope = None => scope'.next = w.start /\ scope'.last = None /\ origin' = w.start
           /\ UNCHANGED <<scenario, chain, facts, outlived>>
<1> DEFINE w == [run[r] EXCEPT !.pc = "fetching"]
<1>1. run[r] \in Working /\ run[r].pc = "claiming" /\ run[r].start \in Nat
  BY RunFacts DEF SyncInv, ClaimWrite
<1>2. w \in Working /\ w.pc = "fetching" /\ SameWindow(run[r], w)
  BY <1>1 DEF Working, SameWindow
<1>3. run' = [run EXCEPT ![r] = w] /\ UNCHANGED <<scenario, chain, facts, outlived>>
  BY DEF ClaimWrite
<1>4. r \in scenario.callers /\ run[r].start <= run[r].end
  BY <1>1, RunFacts DEF SyncInv
<1>5. CASE scope = None
  <2>1. scope' = [next |-> run[r].start, last |-> None, status |-> "running"] /\ origin' = run[r].start
    BY <1>5 DEF ClaimWrite, Existing
  <2>2. scope' \in Scope /\ scope'.next = run[r].start /\ scope'.last = None /\ scope'.status = "running"
    BY <1>1, <2>1 DEF Scope
  <2> HIDE DEF w
  <2> QED BY <1>1, <1>2, <1>3, <1>4, <1>5, <2>1, <2>2 DEF SameWindow
<1>6. CASE scope # None
  <2>1. scope' = [scope EXCEPT !.status = "running"] /\ origin' = origin /\ scope \in Scope
    BY <1>6, ScopeFacts DEF ClaimWrite, Existing, SyncInv
  <2>2. scope' \in Scope /\ scope'.next = scope.next /\ scope'.last = scope.last /\ scope'.status = "running"
    BY <2>1 DEF Scope
  <2> HIDE DEF w
  <2> QED BY <1>1, <1>2, <1>3, <1>4, <1>6, <2>1, <2>2 DEF SameWindow
<1> QED BY <1>5, <1>6

\* What a commit writes: the window's rows for what it replaces, and a cursor
\* and a last complete block that do not move back.
LEMMA CommitFacts ==
  ASSUME SyncInv, NEW r \in Runs, Commits(r)
  PROVE  /\ run[r] \in Working /\ r \in scenario.callers /\ RowsOfWindow(run[r])
         /\ run[r].start \in Nat /\ run[r].end \in Nat /\ run[r].start <= run[r].end
         /\ run' = [run EXCEPT ![r] = Idle]
         /\ run[r].rows \in SUBSET Row
         /\ facts' \subseteq facts \cup run[r].rows /\ run[r].rows \subseteq facts'
         /\ \A x \in facts \ facts' : run[r].replaces /\ x.block \in run[r].start..run[r].end
         /\ run[r].replaces => \A x \in facts' : x.block \in run[r].start..run[r].end => x \in run[r].rows
         /\ scope' \in Scope /\ scope'.status = "idle"
         /\ scope = None => scope'.next = run[r].end + 1 /\ scope'.last = run[r].end /\ origin' = run[r].start
         /\ scope # None =>
              /\ scope'.next = MaxOf(run[r].end + 1, scope.next) /\ origin' = origin
              /\ scope'.last = IF scope.last = None THEN run[r].end ELSE MaxOf(run[r].end, scope.last)
         /\ UNCHANGED <<scenario, chain, outlived>>
<1>1. /\ run[r] \in Working /\ r \in scenario.callers /\ RowsOfWindow(run[r])
      /\ run[r].start \in Nat /\ run[r].end \in Nat /\ run[r].start <= run[r].end
  BY RunFacts DEF SyncInv, Commits, HasRows
<1>2. run[r].rows \in SUBSET Row
  BY <1>1 DEF Working
<1>3. /\ facts' = (facts \ Replaced(run[r])) \cup run[r].rows
      /\ scope' = Advanced(run[r].start, run[r].end)
      /\ origin' = IF scope = None THEN run[r].start ELSE origin
      /\ run' = [run EXCEPT ![r] = Idle]
      /\ UNCHANGED <<scenario, chain, outlived>>
  BY Zenon DEF Commits, CommitWindow
<1>4. \A x \in Replaced(run[r]) : run[r].replaces /\ x.block \in run[r].start..run[r].end
  BY DEF Replaced, FactsIn
<1>5. run[r].replaces => \A x \in facts \ Replaced(run[r]) : x.block \notin run[r].start..run[r].end
  BY DEF Replaced, FactsIn
<1>6. /\ facts' \subseteq facts \cup run[r].rows /\ run[r].rows \subseteq facts'
      /\ \A x \in facts \ facts' : run[r].replaces /\ x.block \in run[r].start..run[r].end
      /\ run[r].replaces => \A x \in facts' : x.block \in run[r].start..run[r].end => x \in run[r].rows
  BY <1>3, <1>4, <1>5
<1>7. CASE scope = None
  <2>1. scope' = [next |-> run[r].end + 1, last |-> run[r].end, status |-> "idle"] /\ origin' = run[r].start
    BY <1>3, <1>7 DEF Advanced
  <2>2. scope' \in Scope /\ scope'.status = "idle" /\ scope'.next = run[r].end + 1 /\ scope'.last = run[r].end
    BY <1>1, <2>1 DEF Scope
  <2> QED BY <1>1, <1>2, <1>3, <1>6, <1>7, <2>1, <2>2, Zenon
<1>8. CASE scope # None
  <2> DEFINE n == MaxOf(run[r].end + 1, scope.next)
             l == IF scope.last = None THEN run[r].end ELSE MaxOf(run[r].end, scope.last)
  <2>1. scope' = [next |-> n, last |-> l, status |-> "idle"] /\ origin' = origin
    BY <1>3, <1>8 DEF Advanced
  <2>2. n \in Nat /\ l \in Nat
    BY <1>1, <1>8, ScopeFacts DEF MaxOf, SyncInv
  <2>3. scope' \in Scope /\ scope'.status = "idle" /\ scope'.next = n /\ scope'.last = l
    <3> HIDE DEF n, l
    <3> QED BY <2>1, <2>2 DEF Scope
  <2> QED BY <1>1, <1>2, <1>3, <1>6, <1>8, <2>1, <2>3, Zenon
<1> QED BY <1>7, <1>8

\* What giving up writes: the status.
LEMMA GiveUpFacts ==
  ASSUME SyncInv, NEW r \in Runs, GivesUp(r)
  PROVE  /\ run' = [run EXCEPT ![r] = Idle] /\ scope # None
         /\ scope' \in Scope /\ scope'.status = "failed"
         /\ scope'.next = scope.next /\ scope'.last = scope.last
         /\ UNCHANGED <<scenario, chain, facts, origin, outlived>>
<1>1. scope # None /\ scope \in Scope
  BY ScopeFacts DEF SyncInv, GivesUp
<1>2. scope' = [scope EXCEPT !.status = "failed"]
  BY DEF GivesUp, MarkFailed
<1> QED BY <1>1, <1>2 DEF GivesUp, MarkFailed, Scope, history

\* What the passing of five minutes writes: the status.
LEMMA ExpireFacts ==
  ASSUME SyncInv, Expire
  PROVE  /\ scope # None /\ scope' \in Scope /\ scope'.status = "stale" /\ Busy
         /\ scope'.next = scope.next /\ scope'.last = scope.last
         /\ outlived' \in BOOLEAN
         /\ ~outlived' => ~outlived /\ \A q \in Runs : ~Holds(q)
         /\ UNCHANGED <<scenario, chain, facts, run, origin>>
<1>1. scope # None /\ scope \in Scope
  BY ScopeFacts DEF SyncInv, Expire, Busy
<1>2. scope' = [scope EXCEPT !.status = "stale"]
  BY DEF Expire
<1> QED BY <1>1, <1>2 DEF Expire, Scope, SyncInv, TypeOK

\* The versions of the chain only grow.
LEMMA ReorgFacts ==
  ASSUME TypeOK, NEW b \in Blocks, Reorg(b)
  PROVE  /\ chain' \in [Blocks -> Nat] /\ \A k \in Blocks : chain[k] <= chain'[k]
         /\ UNCHANGED <<scenario, scope, facts, run, origin, outlived>>
BY DEF TypeOK, Reorg, history

\* A claim keeps the invariant.
LEMMA ClaimKeepsSyncInv ==
  ASSUME SyncInv, NEW r \in Runs, ClaimWrite(r)
  PROVE  SyncInv'
<1>1. PICK w \in Working :
           /\ run' = [run EXCEPT ![r] = w]
           /\ w.pc = "fetching" /\ SameWindow(run[r], w)
           /\ run[r].pc = "claiming" /\ r \in scenario.callers /\ w.start <= w.end
           /\ scope' \in Scope /\ scope'.status = "running"
           /\ scope # None => scope'.next = scope.next /\ scope'.last = scope.last /\ origin' = origin
           /\ scope = None => scope'.next = w.start /\ scope'.last = None /\ origin' = w.start
           /\ UNCHANGED <<scenario, chain, facts, outlived>>
  BY ClaimFacts
<1>2. run'[r] = w /\ \A q \in Runs \ {r} : run'[q] = run[q]
  BY <1>1, OtherRuns DEF SyncInv
<1>3. w.start \in Nat /\ scope' # None /\ None \notin Nat
  BY <1>1, SyncAssumption, BlockAssumption DEF Working, Blocks
<1>4. TypeOK' /\ origin' # None
  <2>1. origin' \in Nat
    BY <1>1, <1>3, SyncAssumption DEF SyncInv, TypeOK
  <2>2. run' \in [Runs -> {Idle} \cup Working]
    BY <1>1 DEF SyncInv, TypeOK
  <2> QED BY <1>1, <1>3, <2>1, <2>2 DEF SyncInv, TypeOK
<1>5. (\A q \in Runs : Active(q) => q \in scenario.callers /\ run[q].start <= run[q].end)'
  BY <1>1, <1>2 DEF SyncInv, Active
<1>6. (\A q \in Runs : HasRows(q) => RowsOfWindow(run[q]))'
  BY <1>1, <1>2 DEF SyncInv, HasRows, RowsOfWindow
<1>7. (\A q \in Runs : run[q].pc = "recollecting" => scenario.recollects # {})'
  BY <1>1, <1>2 DEF SyncInv
<1>8. (\A x \in facts : x.version <= chain[x.block])'
  BY <1>1 DEF SyncInv
<1> QED BY <1>3, <1>4, <1>5, <1>6, <1>7, <1>8 DEF SyncInv

\* So does a commit.
LEMMA CommitKeepsSyncInv ==
  ASSUME SyncInv, NEW r \in Runs, Commits(r)
  PROVE  SyncInv'
<1>1. /\ run[r] \in Working /\ RowsOfWindow(run[r])
      /\ run[r].start \in Nat /\ run' = [run EXCEPT ![r] = Idle]
      /\ run[r].rows \in SUBSET Row
      /\ facts' \subseteq facts \cup run[r].rows
      /\ scope' \in Scope
      /\ scope = None => origin' = run[r].start
      /\ scope # None => origin' = origin
      /\ UNCHANGED <<scenario, chain, outlived>>
  BY CommitFacts
<1>2. run'[r] = Idle /\ \A q \in Runs \ {r} : run'[q] = run[q]
  BY <1>1, OtherRuns DEF SyncInv
<1>3. scope' # None /\ origin' # None /\ origin' \in Nat
  BY <1>1, SyncAssumption DEF SyncInv, TypeOK
<1>4. run' \in [Runs -> {Idle} \cup Working] /\ facts' \subseteq Row
  BY <1>1 DEF SyncInv, TypeOK
<1>5. TypeOK'
  BY <1>1, <1>3, <1>4 DEF SyncInv, TypeOK
<1>6. (\A q \in Runs : Active(q) => q \in scenario.callers /\ run[q].start <= run[q].end)'
  BY <1>1, <1>2 DEF SyncInv, Active
<1>7. (\A q \in Runs : HasRows(q) => RowsOfWindow(run[q]))'
  BY <1>1, <1>2 DEF SyncInv, HasRows, RowsOfWindow, Idle
<1>8. (\A q \in Runs : run[q].pc = "recollecting" => scenario.recollects # {})'
  BY <1>1, <1>2 DEF SyncInv, Idle
<1>9. (\A x \in facts : x.version <= chain[x.block])'
  BY <1>1 DEF SyncInv, RowsOfWindow
<1> QED BY <1>3, <1>5, <1>6, <1>7, <1>8, <1>9 DEF SyncInv

\* So does a claim given up.
LEMMA GiveUpKeepsSyncInv ==
  ASSUME SyncInv, NEW r \in Runs, GivesUp(r)
  PROVE  SyncInv'
<1>1. /\ run' = [run EXCEPT ![r] = Idle] /\ scope # None
      /\ scope' \in Scope
      /\ UNCHANGED <<scenario, chain, facts, origin, outlived>>
  BY GiveUpFacts
<1>2. run'[r] = Idle /\ \A q \in Runs \ {r} : run'[q] = run[q]
  BY <1>1, OtherRuns DEF SyncInv
<1>3. scope' # None
  BY <1>1, SyncAssumption
<1>4. TypeOK'
  BY <1>1 DEF SyncInv, TypeOK
<1>5. (\A q \in Runs : Active(q) => q \in scenario.callers /\ run[q].start <= run[q].end)'
  BY <1>1, <1>2 DEF SyncInv, Active
<1>6. (\A q \in Runs : HasRows(q) => RowsOfWindow(run[q]))'
  BY <1>1, <1>2 DEF SyncInv, HasRows, RowsOfWindow, Idle
<1>7. (\A q \in Runs : run[q].pc = "recollecting" => scenario.recollects # {})'
  BY <1>1, <1>2 DEF SyncInv, Idle
<1> QED BY <1>1, <1>3, <1>4, <1>5, <1>6, <1>7 DEF SyncInv

\* Time passing and the chain reorganising keep the invariant.
LEMMA WorldKeepsSyncInv ==
  ASSUME SyncInv, Expire \/ (\E b \in Blocks : Reorg(b)) \/ UNCHANGED vars
  PROVE  SyncInv'
<1>1. CASE Expire
  <2>1. /\ scope # None /\ scope' \in Scope /\ scope' # None /\ outlived' \in BOOLEAN
        /\ UNCHANGED <<scenario, chain, facts, run, origin>>
    BY <1>1, ExpireFacts, SyncAssumption
  <2> QED BY <2>1 DEF SyncInv, TypeOK, Active, Holds, HasRows, RowsOfWindow
<1>2. CASE \E b \in Blocks : Reorg(b)
  <2>1. /\ chain' \in [Blocks -> Nat] /\ \A k \in Blocks : chain[k] \in Nat /\ chain[k] <= chain'[k]
        /\ UNCHANGED <<scenario, scope, facts, run, origin, outlived>>
    BY <1>2, ReorgFacts DEF SyncInv, TypeOK
  <2>2. \A k \in Blocks : chain'[k] \in Nat
    BY <2>1
  <2>3. TypeOK'
    BY <2>1 DEF SyncInv, TypeOK
  <2>4. \A x \in Row : x.block \in Blocks /\ x.version \in Nat
    BY DEF Row
  <2>5. (\A x \in facts : x.version <= chain[x.block])'
    BY <2>1, <2>2, <2>4 DEF SyncInv, TypeOK
  <2>6. ASSUME NEW q \in Runs, HasRows(q) PROVE RowsOfWindow(run[q])'
    <3>1. RowsOfWindow(run[q]) /\ run[q].rows \in SUBSET Row
      BY <2>6, RunFacts DEF SyncInv, HasRows, Working
    <3>2. \A x \in run[q].rows : x.version <= chain'[x.block]
      BY <2>1, <2>2, <2>4, <3>1 DEF RowsOfWindow
    <3> QED BY <2>1, <3>1, <3>2 DEF RowsOfWindow
  <2> QED BY <2>1, <2>3, <2>5, <2>6 DEF SyncInv, Active, Holds, HasRows
<1>3. CASE UNCHANGED vars
  BY <1>3 DEF vars, history, SyncInv, TypeOK, Active, Holds, HasRows, RowsOfWindow
<1> QED BY <1>1, <1>2, <1>3

\* Every step keeps the invariant.
LEMMA SyncInvKept ==
  ASSUME SyncInv, [Next]_vars
  PROVE  SyncInv'
BY StepKinds, LocalKeepsSyncInv, ClaimKeepsSyncInv, CommitKeepsSyncInv, GiveUpKeepsSyncInv,
   WorldKeepsSyncInv, Zenon

\* The invariant holds of an empty database.
LEMMA SyncInvInitially ==
  ASSUME Init
  PROVE  SyncInv
BY DEF Init, SyncInv, TypeOK, Idle, Active, Holds, HasRows

\* The invariant holds of every behaviour.
LEMMA SyncInvHolds == Spec => []SyncInv
<1>1. Init => SyncInv
  BY SyncInvInitially
<1>2. SyncInv /\ [Next]_vars => SyncInv'
  BY SyncInvKept
<1> QED BY <1>1, <1>2, PTL DEF Spec

\* Whatever callers, faults and reorganisations do, every variable keeps to its
\* type; in particular the row's cursor stays a block number once it is one.
THEOREM ScopeTypeCorrect == Spec => []TypeOK
<1>1. SyncInv => TypeOK
  BY DEF SyncInv
<1> QED BY <1>1, SyncInvHolds, PTL

-----------------------------------------------------------------------------
(* No durable gap *)

\* A scenario's only caller is the only one at work.
LEMMA Alone ==
  ASSUME SyncInv, Cardinality(scenario.callers) = 1, NEW r \in Runs, NEW q \in Runs, Active(r), Active(q)
  PROVE  r = q
<1>1. scenario.callers \subseteq Runs /\ r \in scenario.callers /\ q \in scenario.callers
  BY SyncAssumption DEF SyncInv, TypeOK
<1>2. IsFiniteSet(scenario.callers)
  BY <1>1, SyncAssumption, FS_Subset
<1>3. PICK p : scenario.callers = {p}
  BY <1>2, FS_Singleton
<1> QED BY <1>1, <1>3

\* A call at work in a write is active; with an idle one nothing is.
LEMMA WriterIsActive ==
  ASSUME SyncInv, NEW r \in Runs, run[r].pc # "idle"
  PROVE  Active(r)
BY RunFacts DEF SyncInv

\* A call that writes nothing keeps the cursor's prefix and starts at or below the cursor.
LEMMA LocalKeepsGapInv ==
  ASSUME OneBeginning, SyncInv, GapInv, NEW r \in Runs, NEW w, Local(r, w)
  PROVE  GapInv'
<1>1. run'[r] = w /\ \A q \in Runs \ {r} : run'[q] = run[q]
  BY OtherRuns DEF SyncInv, Local
<1>2. UNCHANGED <<scenario, chain, scope, facts, origin, outlived>> /\ scenario \in Scenarios
  BY DEF Local, Quiet, history, SyncInv, TypeOK
<1>3. PrefixPersisted'
  BY <1>2 DEF GapInv, PrefixPersisted
<1>4. CASE w = Idle
  BY <1>1, <1>2, <1>3, <1>4 DEF GapInv, Active
<1>5. CASE Plans(r, w)
  BY <1>1, <1>2, <1>3, <1>5 DEF GapInv, Active, Plans, OneBeginning
<1>6. CASE Claims(r, w) \/ Fetches(r, w)
  <2>1. Active(r) /\ w.start = run[r].start
    BY <1>6, WriterIsActive DEF Claims, Fetches, SameWindow
  <2> QED BY <1>1, <1>2, <1>3, <2>1 DEF GapInv, Active
<1>7. CASE Recollects(r, w)
  <2>1. w.start = 0
    BY <1>2, <1>7 DEF Recollects, OneBeginning
  <2>2. scope # None => 0 <= scope.next
    BY ScopeFacts DEF SyncInv
  <2> QED BY <1>1, <1>2, <1>3, <2>1, <2>2 DEF GapInv, Active
<1> QED BY <1>4, <1>5, <1>6, <1>7 DEF Local

\* A claim creates the row at a start that every other call shares, or leaves its cursor.
LEMMA ClaimKeepsGapInv ==
  ASSUME SyncInv, GapInv, NEW r \in Runs, ClaimWrite(r)
  PROVE  GapInv'
<1>1. PICK w \in Working :
           /\ run' = [run EXCEPT ![r] = w]
           /\ w.pc = "fetching" /\ SameWindow(run[r], w)
           /\ run[r].pc = "claiming" /\ r \in scenario.callers /\ w.start <= w.end
           /\ scope' \in Scope /\ scope'.status = "running"
           /\ scope # None => scope'.next = scope.next /\ scope'.last = scope.last /\ origin' = origin
           /\ scope = None => scope'.next = w.start /\ scope'.last = None /\ origin' = w.start
           /\ UNCHANGED <<scenario, chain, facts, outlived>>
  BY ClaimFacts
<1>2. run'[r] = w /\ \A q \in Runs \ {r} : run'[q] = run[q]
  BY <1>1, OtherRuns DEF SyncInv
<1>3. w.start = run[r].start /\ w.start \in Nat /\ Active(r) /\ scope' # None
  BY <1>1, WriterIsActive, SyncAssumption, BlockAssumption DEF SameWindow, Working, Blocks
<1>4. \A q \in Runs \ {r} : run'[q] = run[q] /\ (Active(q)' <=> Active(q))
  BY <1>2 DEF Active
<1>5. CASE scope # None
  <2>1. PrefixPersisted'
    BY <1>1, <1>3, <1>5 DEF GapInv, PrefixPersisted
  <2> QED BY <1>1, <1>2, <1>3, <1>4, <1>5, <2>1 DEF GapInv
<1>6. CASE scope = None
  <2>1. PrefixPersisted'
    <3>1. ~(\E b \in w.start..(w.start - 1) : TRUE)
      BY <1>3
    <3> QED BY <1>1, <1>6, <3>1 DEF PrefixPersisted
  <2>2. ASSUME NEW q \in Runs \ {r}, Active(q) PROVE run[q].start <= w.start
    <3>1. CASE Cardinality(scenario.callers) = 1
      BY <1>3, <2>2, <3>1, Alone
    <3>2. CASE run[q].start = 0
      BY <1>3, <3>2
    <3> QED BY <1>6, <2>2, <3>1, <3>2 DEF GapInv
  <2> QED BY <1>1, <1>2, <1>3, <1>4, <1>6, <2>1, <2>2 DEF GapInv
<1> QED BY <1>5, <1>6

\* A commit fills its window, which starts at or below the cursor, before the cursor passes it.
LEMMA CommitKeepsGapInv ==
  ASSUME SyncInv, GapInv, NEW r \in Runs, Commits(r)
  PROVE  GapInv'
<1>1. /\ RowsOfWindow(run[r])
      /\ run[r].start \in Nat /\ run[r].end \in Nat /\ run[r].start <= run[r].end
      /\ run' = [run EXCEPT ![r] = Idle]
      /\ run[r].rows \subseteq facts'
      /\ \A x \in facts \ facts' : x.block \in run[r].start..run[r].end
      /\ scope' \in Scope /\ scope' # None
      /\ scope = None => scope'.next = run[r].end + 1 /\ origin' = run[r].start
      /\ scope # None => scope'.next = MaxOf(run[r].end + 1, scope.next) /\ origin' = origin
      /\ UNCHANGED <<scenario, chain, outlived>>
  BY CommitFacts, SyncAssumption
<1>2. run'[r] = Idle /\ \A q \in Runs \ {r} : run'[q] = run[q]
  BY <1>1, OtherRuns DEF SyncInv
<1>3. Active(r) /\ ~Active(r)' /\ \A q \in Runs \ {r} : Active(q)' <=> Active(q)
  BY <1>2, WriterIsActive DEF Active, Commits, HasRows
<1>4. \A b \in run[r].start..run[r].end : \E x \in facts' : x.block = b
  BY <1>1 DEF RowsOfWindow
<1>5. CASE scope # None
  <2>1. scope.next \in Nat /\ run[r].start <= scope.next /\ origin \in Nat
    BY <1>3, <1>5, ScopeFacts DEF GapInv, SyncInv, TypeOK
  <2>2. scope'.next = MaxOf(run[r].end + 1, scope.next) /\ origin' = origin
    BY <1>1, <1>5
  <2>3. scope'.next \in Nat /\ scope.next <= scope'.next
    BY <1>1, <2>1, <2>2 DEF MaxOf
  <2>4. ASSUME NEW b \in origin..(scope'.next - 1)
        PROVE  \E x \in facts' : x.block = b
    <3>1. CASE b \in run[r].start..run[r].end
      BY <1>4, <3>1
    <3>2. CASE b \notin run[r].start..run[r].end
      <4>1. b \in origin..(scope.next - 1)
        BY <1>1, <2>1, <2>2, <2>4, <3>2 DEF MaxOf
      <4>2. PICK x \in facts : x.block = b
        BY <1>5, <4>1 DEF GapInv, PrefixPersisted
      <4> QED BY <1>1, <3>2, <4>2
    <3> QED BY <3>1, <3>2
  <2>5. PrefixPersisted'
    BY <2>2, <2>4 DEF PrefixPersisted
  <2>6. ASSUME NEW q \in Runs, Active(q)' PROVE run'[q].start <= scope'.next
    <3>1. run'[q] = run[q] /\ Active(q) /\ run[q].start \in Nat
      BY <1>2, <1>3, <2>6, RunFacts DEF SyncInv
    <3>2. run[q].start <= scope.next
      BY <1>5, <3>1 DEF GapInv
    <3> QED BY <2>1, <2>3, <3>1, <3>2
  <2> QED BY <1>1, <2>5, <2>6 DEF GapInv
<1>6. CASE scope = None
  <2>1. PrefixPersisted'
    <3>1. scope'.next - 1 = run[r].end /\ origin' = run[r].start
      BY <1>1, <1>6
    <3> QED BY <1>4, <3>1 DEF PrefixPersisted
  <2>2. ASSUME NEW q \in Runs, Active(q)' PROVE run'[q].start <= scope'.next
    <3>1. run'[q] = run[q] /\ Active(q) /\ q # r
      BY <1>2, <1>3, <2>2
    <3>2. run[q].start = 0
      BY <1>3, <1>6, <3>1, Alone DEF GapInv
    <3> QED BY <1>1, <1>6, <3>1, <3>2
  <2> QED BY <1>1, <2>1, <2>2 DEF GapInv
<1> QED BY <1>5, <1>6

\* Every step keeps the gap invariant.
LEMMA GapInvKept ==
  ASSUME OneBeginning, SyncInv, GapInv, [Next]_vars
  PROVE  GapInv'
<1>1. ASSUME NEW r \in Runs, GivesUp(r) PROVE GapInv'
  <2>1. /\ run' = [run EXCEPT ![r] = Idle] /\ scope # None
        /\ scope' \in Scope /\ scope'.next = scope.next /\ scope' # None
        /\ UNCHANGED <<scenario, chain, facts, origin, outlived>>
    BY <1>1, GiveUpFacts, SyncAssumption
  <2>2. run'[r] = Idle /\ \A q \in Runs \ {r} : run'[q] = run[q]
    BY <2>1, OtherRuns DEF SyncInv
  <2> QED BY <2>1, <2>2 DEF GapInv, PrefixPersisted, Active
<1>2. CASE Expire
  <2>1. /\ scope # None /\ scope' # None /\ scope'.next = scope.next
        /\ UNCHANGED <<scenario, chain, facts, run, origin>>
    BY <1>2, ExpireFacts, SyncAssumption
  <2> QED BY <2>1 DEF GapInv, PrefixPersisted, Active
<1>3. CASE \E b \in Blocks : Reorg(b)
  <2>1. UNCHANGED <<scenario, scope, facts, run, origin, outlived>>
    BY <1>3, ReorgFacts DEF SyncInv
  <2> QED BY <2>1 DEF GapInv, PrefixPersisted, Active
<1>4. CASE UNCHANGED vars
  BY <1>4 DEF vars, history, GapInv, PrefixPersisted, Active
<1> QED BY <1>1, <1>2, <1>3, <1>4, StepKinds, LocalKeepsGapInv, ClaimKeepsGapInv, CommitKeepsGapInv, Zenon

\* Every block from the first one collected to the cursor has its facts, at every
\* moment and whatever crashes, takes over or commits late, provided the callers
\* agree on where the dataset begins.
THEOREM NoDurableGap == OneBeginning => (Spec => []PrefixPersisted)
<1> SUFFICES ASSUME OneBeginning PROVE Spec => []PrefixPersisted
  OBVIOUS
<1>1. Init => GapInv
  BY DEF Init, GapInv, PrefixPersisted, Idle, Active
<1>2. SyncInv /\ GapInv /\ [Next]_vars => GapInv'
  BY GapInvKept
<1>3. GapInv => PrefixPersisted
  BY DEF GapInv
<1> QED BY <1>1, <1>2, <1>3, SyncInvHolds, PTL DEF Spec

-----------------------------------------------------------------------------
(* The dataset only grows *)

\* The abstract cursor and the blocks with facts.
Cursor     == IF scope = None THEN None ELSE scope.next
Beginning  == IF scope = None THEN None ELSE origin
HeldBlocks == {x.block : x \in facts}

\* A step that leaves the row's cursor, its beginning and the facts alone.
LEMMA SameRowIsStutter ==
  ASSUME facts' = facts, origin' = origin, scope = None <=> scope' = None,
         scope # None => scope'.next = scope.next
  PROVE  UNCHANGED <<Beginning, Cursor, HeldBlocks>>
BY DEF Beginning, Cursor, HeldBlocks

\* The blocks from the beginning to the cursor have facts.
LEMMA PrefixIsHeld ==
  ASSUME PrefixPersisted, scope # None
  PROVE  origin..(scope.next - 1) \subseteq HeldBlocks
BY DEF PrefixPersisted, HeldBlocks

\* A claim opens the dataset at the start of its window, with nothing complete
\* yet, or changes nothing of it.
LEMMA ClaimOpensDataset ==
  ASSUME SyncInv, NEW r \in Runs, ClaimWrite(r)
  PROVE  [Dataset!Next]_<<Beginning, Cursor, HeldBlocks>>
<1>1. PICK w \in Working :
           /\ scope' \in Scope
           /\ scope # None => scope'.next = scope.next /\ origin' = origin
           /\ scope = None => scope'.next = w.start /\ origin' = w.start
           /\ facts' = facts
  BY ClaimFacts
<1>2. w.start \in Nat /\ scope' # None
  BY <1>1, SyncAssumption, BlockAssumption DEF Working, Blocks
<1>3. CASE scope # None
  BY <1>1, <1>2, <1>3, SameRowIsStutter
<1>4. CASE scope = None
  <2>1. Beginning = None /\ Beginning' = w.start /\ Cursor' = w.start /\ HeldBlocks' = HeldBlocks
    BY <1>1, <1>2, <1>4 DEF Beginning, Cursor, HeldBlocks
  <2>2. w.start..(w.start - 1) = {}
    BY <1>2
  <2>3. HeldBlocks \subseteq HeldBlocks' /\ Beginning'..(Cursor' - 1) \subseteq HeldBlocks'
    BY <2>1, <2>2
  <2>4. Beginning = None /\ Beginning' \in Nat /\ Cursor' \in Nat /\ Beginning' <= Cursor'
    BY <1>2, <2>1
  <2>5. Dataset!Open
    BY <2>3, <2>4 DEF Dataset!Open, Dataset!Keeps, Beginning, Cursor, HeldBlocks
  <2> QED BY <2>5 DEF Dataset!Next
<1> QED BY <1>3, <1>4

\* A commit keeps every block that had facts, opens the dataset if the row is
\* new and otherwise moves its cursor forward or leaves it.
LEMMA CommitExtendsDataset ==
  ASSUME SyncInv, GapInv', NEW r \in Runs, Commits(r)
  PROVE  Dataset!Next
<1>1. /\ RowsOfWindow(run[r]) /\ run[r].rows \subseteq facts'
      /\ run[r].start \in Nat /\ run[r].end \in Nat /\ run[r].start <= run[r].end
      /\ \A x \in facts \ facts' : x.block \in run[r].start..run[r].end
      /\ scope' \in Scope /\ scope' # None
      /\ scope = None => scope'.next = run[r].end + 1 /\ origin' = run[r].start
      /\ scope # None => scope'.next = MaxOf(run[r].end + 1, scope.next) /\ origin' = origin
  BY CommitFacts, SyncAssumption
<1>2. HeldBlocks \subseteq HeldBlocks'
  <2>1. ASSUME NEW x \in facts PROVE \E y \in facts' : y.block = x.block
    <3>1. CASE x \in facts'
      BY <3>1
    <3>2. CASE x \notin facts'
      BY <1>1, <3>2 DEF RowsOfWindow
    <3> QED BY <3>1, <3>2
  <2> QED BY <2>1 DEF HeldBlocks
<1>3. Beginning'..(Cursor' - 1) \subseteq HeldBlocks'
  <2>1. \A b \in origin'..(scope'.next - 1) : \E x \in facts' : x.block = b
    BY <1>1 DEF GapInv, PrefixPersisted
  <2> QED BY <1>1, <2>1 DEF Beginning, Cursor, HeldBlocks
<1>4. CASE scope = None
  <2>1. Beginning = None /\ Beginning' = run[r].start /\ Cursor' = run[r].end + 1
    BY <1>1, <1>4 DEF Beginning, Cursor
  <2>2. Beginning' \in Nat /\ Cursor' \in Nat /\ Beginning' <= Cursor'
    BY <1>1, <2>1
  <2>3. Dataset!Open
    BY <1>2, <1>3, <2>1, <2>2 DEF Dataset!Open, Dataset!Keeps, Beginning, Cursor, HeldBlocks
  <2> QED BY <2>3 DEF Dataset!Next
<1>5. CASE scope # None
  <2>1. scope.next \in Nat /\ origin \in Nat
    BY <1>5, ScopeFacts DEF SyncInv, TypeOK
  <2>2. Cursor = scope.next /\ Cursor' = MaxOf(run[r].end + 1, scope.next)
        /\ Beginning = origin /\ Beginning' = origin
    BY <1>1, <1>5 DEF Beginning, Cursor
  <2>3. Cursor' \in Nat /\ Cursor <= Cursor' /\ Beginning # None /\ Beginning' = Beginning
    BY <1>1, <2>1, <2>2, SyncAssumption DEF MaxOf
  <2>4. Beginning..(Cursor' - 1) \subseteq HeldBlocks'
    BY <1>3, <2>3
  <2>5. Dataset!Extend
    BY <1>2, <2>3, <2>4 DEF Dataset!Extend, Dataset!Keeps, Beginning, Cursor, HeldBlocks
  <2> QED BY <2>5 DEF Dataset!Next
<1> QED BY <1>4, <1>5

\* Every step of the service is a step of the dataset or leaves it as it is.
LEMMA StepsMapToDataset ==
  ASSUME SyncInv, GapInv', [Next]_vars
  PROVE  [Dataset!Next]_<<Beginning, Cursor, HeldBlocks>>
<1>1. ASSUME NEW r \in Runs, NEW w, Local(r, w)
      PROVE  UNCHANGED <<Beginning, Cursor, HeldBlocks>>
  BY <1>1, SameRowIsStutter DEF Local, Quiet, history
<1>2. ASSUME NEW r \in Runs, GivesUp(r)
      PROVE  UNCHANGED <<Beginning, Cursor, HeldBlocks>>
  BY <1>2, GiveUpFacts, SyncAssumption, SameRowIsStutter
<1>3. CASE Expire
  BY <1>3, ExpireFacts, SyncAssumption, SameRowIsStutter
<1>4. CASE \E b \in Blocks : Reorg(b)
  <2>1. UNCHANGED <<scenario, scope, facts, run, origin, outlived>>
    BY <1>4, ReorgFacts DEF SyncInv
  <2> QED BY <2>1, SameRowIsStutter
<1>5. CASE UNCHANGED vars
  BY <1>5, SameRowIsStutter DEF vars, history
<1> QED BY <1>1, <1>2, <1>3, <1>4, <1>5, StepKinds, ClaimOpensDataset, CommitExtendsDataset

\* The row and the fact table implement a dataset that only grows, whatever
\* crashes, late commits, takeovers and reorganisations there are: it begins
\* once, its cursor never moves back, and a block that has facts always has
\* facts, also when its range is collected anew.
THEOREM DatasetNeverShrinks == OneBeginning => (Spec => DatasetOnlyGrows)
<1> SUFFICES ASSUME OneBeginning PROVE Spec => DatasetOnlyGrows
  OBVIOUS
<1>1. Init => GapInv
  BY DEF Init, GapInv, PrefixPersisted, Idle, Active
<1>2. SyncInv /\ GapInv /\ [Next]_vars => GapInv'
  BY GapInvKept
<1>3. Init => Dataset!Init
  BY DEF Init, Dataset!Init
<1>4. SyncInv /\ GapInv' /\ [Next]_vars => [Dataset!Next]_<<Beginning, Cursor, HeldBlocks>>
  BY StepsMapToDataset
<1>5. ASSUME SyncInv, GapInv', [Next]_vars
      PROVE  [Dataset!Next]_<<IF scope = None THEN None ELSE origin,
                              IF scope = None THEN None ELSE scope.next,
                              {x.block : x \in facts}>>
  BY <1>4, <1>5 DEF Beginning, Cursor, HeldBlocks
<1> QED BY <1>1, <1>2, <1>3, <1>5, SyncInvHolds, PTL DEF Spec, DatasetOnlyGrows, Dataset!Spec

-----------------------------------------------------------------------------
(* The cursor and the last complete block *)

\* Every step keeps the cursor one past the last complete block.
LEMMA CursorInvKept ==
  ASSUME Starts \subseteq {None, 0}, SyncInv, CursorInv, [Next]_vars
  PROVE  CursorInv'
<1>1. ASSUME NEW r \in Runs, NEW w, Local(r, w) PROVE CursorInv'
  <2>1. run'[r] = w /\ \A q \in Runs \ {r} : run'[q] = run[q]
    BY <1>1, OtherRuns DEF SyncInv, Local
  <2>2. UNCHANGED <<scenario, chain, scope, facts, origin, outlived>>
    BY <1>1 DEF Local, Quiet, history
  <2>3. scope = None /\ w.pc \in {"planned", "claiming"} => w.start = 0
    BY <1>1 DEF Local, Plans, Claims, Fetches, Recollects, Idle, SameWindow, CursorInv
  <2> QED BY <2>1, <2>2, <2>3 DEF CursorInv, CursorConsistent
<1>2. ASSUME NEW r \in Runs, ClaimWrite(r) PROVE CursorInv'
  <2>1. PICK w \in Working :
           /\ run' = [run EXCEPT ![r] = w]
           /\ w.pc = "fetching" /\ SameWindow(run[r], w)
           /\ run[r].pc = "claiming" /\ r \in scenario.callers /\ w.start <= w.end
           /\ scope' \in Scope /\ scope'.status = "running"
           /\ scope # None => scope'.next = scope.next /\ scope'.last = scope.last /\ origin' = origin
           /\ scope = None => scope'.next = w.start /\ scope'.last = None /\ origin' = w.start
           /\ UNCHANGED <<scenario, chain, facts, outlived>>
    BY <1>2, ClaimFacts
  <2>2. scope = None => w.start = 0
    BY <2>1 DEF CursorInv, SameWindow
  <2>3. scope' # None
    BY <2>1, SyncAssumption
  <2> QED BY <2>1, <2>2, <2>3 DEF CursorInv, CursorConsistent
<1>3. ASSUME NEW r \in Runs, Commits(r) PROVE CursorInv'
  <2>1. /\ run[r].end \in Nat /\ scope' # None
        /\ scope = None => scope'.next = run[r].end + 1 /\ scope'.last = run[r].end
        /\ scope # None =>
              /\ scope'.next = MaxOf(run[r].end + 1, scope.next)
              /\ scope'.last = IF scope.last = None THEN run[r].end ELSE MaxOf(run[r].end, scope.last)
    BY <1>3, CommitFacts, SyncAssumption
  <2>2. None \notin Nat
    BY SyncAssumption
  <2>3. CASE scope = None
    BY <2>1, <2>2, <2>3 DEF CursorInv, CursorConsistent
  <2>4. CASE scope # None /\ scope.last = None
    <3>1. scope.next = 0
      BY <2>4 DEF CursorInv
    <3>2. scope'.next = run[r].end + 1 /\ scope'.last = run[r].end
      BY <2>1, <2>4, <3>1 DEF MaxOf
    <3> QED BY <2>1, <2>2, <3>2 DEF CursorInv, CursorConsistent
  <2>5. CASE scope # None /\ scope.last # None
    <3>1. scope.next = scope.last + 1 /\ scope.last \in Nat
      BY <2>5, ScopeFacts DEF CursorInv, CursorConsistent, SyncInv
    <3>2. scope'.next = scope'.last + 1 /\ scope'.last \in Nat
      BY <2>1, <2>5, <3>1 DEF MaxOf
    <3> QED BY <2>1, <2>2, <3>2 DEF CursorInv, CursorConsistent
  <2> QED BY <2>3, <2>4, <2>5
<1>4. ASSUME NEW r \in Runs, GivesUp(r) PROVE CursorInv'
  <2>1. /\ scope # None /\ scope' # None /\ scope'.next = scope.next /\ scope'.last = scope.last
    BY <1>4, GiveUpFacts, SyncAssumption
  <2> QED BY <2>1 DEF CursorInv, CursorConsistent
<1>5. CASE Expire
  <2>1. /\ scope # None /\ scope' # None /\ scope'.next = scope.next /\ scope'.last = scope.last
    BY <1>5, ExpireFacts, SyncAssumption
  <2> QED BY <2>1 DEF CursorInv, CursorConsistent
<1>6. CASE \E b \in Blocks : Reorg(b)
  BY <1>6, ReorgFacts DEF SyncInv, CursorInv, CursorConsistent
<1>7. CASE UNCHANGED vars
  BY <1>7 DEF vars, history, CursorInv, CursorConsistent
<1> QED BY <1>1, <1>2, <1>3, <1>4, <1>5, <1>6, <1>7, StepKinds, Zenon

\* Where updates start at the cursor or at block 0, the persisted cursor is the
\* block after the last complete one, which sync.audit checks and repairs.
THEOREM CursorFollowsTheLastBlock == Starts \subseteq {None, 0} => (Spec => []CursorConsistent)
<1> SUFFICES ASSUME Starts \subseteq {None, 0} PROVE Spec => []CursorConsistent
  OBVIOUS
<1>1. Init => CursorInv
  BY DEF Init, CursorInv, CursorConsistent, Idle
<1>2. SyncInv /\ CursorInv /\ [Next]_vars => CursorInv'
  BY CursorInvKept
<1>3. CursorInv => CursorConsistent
  BY DEF CursorInv
<1> QED BY <1>1, <1>2, <1>3, SyncInvHolds, PTL DEF Spec

-----------------------------------------------------------------------------
(* One update at a time *)

\* While a recollect is at work, nobody else is.
LEMMA RecollectorAlone ==
  ASSUME RecollectsAlone, SyncInv, NEW r \in Runs, NEW q \in Runs,
         run[r].pc = "recollecting", Active(q)
  PROVE  r = q
<1>1. scenario \in Scenarios /\ scenario.recollects # {}
  BY DEF SyncInv, TypeOK
<1>2. Cardinality(scenario.callers) = 1
  BY <1>1 DEF RecollectsAlone
<1>3. Active(r)
  BY WriterIsActive
<1> QED BY <1>2, <1>3, Alone

\* A call that writes nothing keeps the claim exclusive.
LEMMA LocalKeepsClaimInv ==
  ASSUME SyncInv, Undisturbed, ClaimInv, NEW r \in Runs, NEW w, Local(r, w)
  PROVE  ClaimInv'
<1>1. run'[r] = w /\ \A q \in Runs \ {r} : run'[q] = run[q]
  BY OtherRuns DEF SyncInv, Local
<1>2. UNCHANGED <<scenario, chain, scope, facts, origin, outlived>> /\ (Busy' <=> Busy)
  BY DEF Local, Quiet, history, Busy
<1>3. (HasRows(r) => \A x \in facts, y \in run[r].rows : x.block = y.block => x.version <= y.version)'
  <2>1. SUFFICES ASSUME HasRows(r)' PROVE
                 \A x \in facts, y \in w.rows : x.block = y.block => x.version <= y.version
    BY <1>1, <1>2
  <2>2. w \in Working /\ FreshRows(w)
    BY <1>1, <2>1 DEF Local, Plans, Claims, Fetches, Recollects, Idle, HasRows
  <2>3. \A y \in w.rows : y.version = chain[y.block]
    BY <2>2, ServedRows DEF FreshRows, SyncInv, Working
  <2> QED BY <2>3 DEF SyncInv
<1>4. (\A q \in Runs : HasRows(q) =>
        \A x \in facts, y \in run[q].rows : x.block = y.block => x.version <= y.version)'
  BY <1>1, <1>2, <1>3 DEF ClaimInv, HasRows
<1>5. CASE w.pc \notin {"claiming", "fetching", "fetched"}
  BY <1>1, <1>2, <1>4, <1>5 DEF ClaimInv, Holds, InClaim
<1>6. CASE Claims(r, w)
  <2>1. \A q \in Runs : run[q].pc # "claiming" /\ ~Holds(q)
    BY <1>6 DEF Claims, Unlocked, Undisturbed, ClaimInv
  <2> QED BY <1>1, <1>2, <1>4, <1>6, <2>1 DEF ClaimInv, Holds, InClaim, Claims
<1>7. CASE Fetches(r, w)
  BY <1>1, <1>2, <1>4, <1>7 DEF ClaimInv, Holds, InClaim, Fetches
<1> QED BY <1>5, <1>6, <1>7 DEF Local, Plans, Recollects, Idle

\* Writes keep the claim exclusive too: a commit or a failure ends the only one.
LEMMA WritesKeepClaimInv ==
  ASSUME RecollectsAlone, SyncInv, Undisturbed, ClaimInv, NEW r \in Runs,
         ClaimWrite(r) \/ Commits(r) \/ GivesUp(r)
  PROVE  ClaimInv'
<1>1. CASE ClaimWrite(r)
  <2>1. PICK w \in Working :
           /\ run' = [run EXCEPT ![r] = w]
           /\ w.pc = "fetching" /\ SameWindow(run[r], w)
           /\ run[r].pc = "claiming" /\ r \in scenario.callers /\ w.start <= w.end
           /\ scope' \in Scope /\ scope'.status = "running"
           /\ scope # None => scope'.next = scope.next /\ scope'.last = scope.last /\ origin' = origin
           /\ scope = None => scope'.next = w.start /\ scope'.last = None /\ origin' = w.start
           /\ UNCHANGED <<scenario, chain, facts, outlived>>
    BY <1>1, ClaimFacts
  <2>2. run'[r] = w /\ \A q \in Runs \ {r} : run'[q] = run[q]
    BY <2>1, OtherRuns DEF SyncInv
  <2>3. \A q \in Runs \ {r} : ~InClaim(q)
    BY <2>1 DEF ClaimInv, InClaim
  <2>4. Busy'
    BY <2>1, SyncAssumption DEF Busy
  <2> QED BY <2>1, <2>2, <2>3, <2>4 DEF ClaimInv, InClaim, Holds, HasRows
<1>2. CASE Commits(r)
  <2>1. run'[r] = Idle /\ \A q \in Runs \ {r} : run'[q] = run[q]
    BY <1>2, CommitFacts, OtherRuns DEF SyncInv
  <2>2. ASSUME NEW q \in Runs \ {r} PROVE ~InClaim(q) /\ ~HasRows(q)
    <3>1. Active(r)
      BY <1>2, WriterIsActive DEF Commits, HasRows
    <3>2. InClaim(q) \/ HasRows(q) => Active(q)
      BY WriterIsActive DEF InClaim, HasRows
    <3>3. CASE run[r].pc = "recollecting"
      BY <3>2, <3>3, RecollectorAlone
    <3>4. CASE run[r].pc = "fetched"
      BY <3>1, <3>4, RecollectorAlone DEF ClaimInv, InClaim, HasRows
    <3> QED BY <1>2, <3>3, <3>4 DEF Commits, HasRows
  <2> QED BY <2>1, <2>2 DEF ClaimInv, InClaim, Holds, HasRows, Idle
<1>3. CASE GivesUp(r)
  <2>1. run'[r] = Idle /\ facts' = facts /\ \A q \in Runs \ {r} : run'[q] = run[q]
    BY <1>3, GiveUpFacts, OtherRuns DEF SyncInv
  <2>2. \A q \in Runs \ {r} : ~InClaim(q)
    BY <1>3 DEF ClaimInv, InClaim, GivesUp, Holds
  <2> QED BY <2>1, <2>2 DEF ClaimInv, InClaim, Holds, HasRows, Idle
<1> QED BY <1>1, <1>2, <1>3

\* Every step keeps the claim exclusive for as long as no run outlasts its claim.
LEMMA ClaimInvKept ==
  ASSUME RecollectsAlone, SyncInv, Undisturbed => ClaimInv, [Next]_vars
  PROVE  (Undisturbed => ClaimInv)'
<1>1. ASSUME NEW r \in Runs, NEW w, Local(r, w) PROVE (Undisturbed => ClaimInv)'
  <2>1. Undisturbed' <=> Undisturbed
    BY <1>1 DEF Local, Quiet, history, Undisturbed
  <2> QED BY <1>1, <2>1, LocalKeepsClaimInv
<1>2. ASSUME NEW r \in Runs, ClaimWrite(r) \/ Commits(r) \/ GivesUp(r) PROVE (Undisturbed => ClaimInv)'
  <2>1. scenario' = scenario /\ outlived' = outlived
    BY <1>2, ClaimFacts, CommitFacts, GiveUpFacts
  <2>2. Undisturbed' <=> Undisturbed
    BY <2>1 DEF Undisturbed
  <2> QED BY <1>2, <2>2, WritesKeepClaimInv
<1>3. CASE Expire
  <2> SUFFICES ASSUME Undisturbed' PROVE ClaimInv'
    OBVIOUS
  <2>1. /\ Busy
        /\ ~outlived' => ~outlived /\ \A q \in Runs : ~Holds(q)
        /\ UNCHANGED <<scenario, chain, facts, run, origin>>
    BY <1>3, ExpireFacts
  <2>2. Undisturbed /\ \A q \in Runs : ~Holds(q)
    BY <2>1 DEF Undisturbed
  <2>3. \A q \in Runs : ~InClaim(q)
    BY <2>1, <2>2 DEF ClaimInv, InClaim, Holds
  <2> QED BY <2>1, <2>2, <2>3 DEF ClaimInv, InClaim, Holds, HasRows
<1>4. CASE \E b \in Blocks : Reorg(b)
  <2>1. UNCHANGED <<scenario, scope, facts, run, origin, outlived>>
    BY <1>4, ReorgFacts DEF SyncInv
  <2> QED BY <2>1 DEF ClaimInv, InClaim, Holds, HasRows, Busy, Undisturbed
<1>5. CASE UNCHANGED vars
  BY <1>5 DEF vars, history, ClaimInv, InClaim, Holds, HasRows, Busy, Undisturbed
<1> QED BY <1>1, <1>2, <1>3, <1>4, <1>5, StepKinds, Zenon

\* Nobody is in a claim at first.
LEMMA ClaimInvInitially ==
  ASSUME Init
  PROVE  ClaimInv
BY DEF Init, ClaimInv, InClaim, Holds, HasRows, Idle

\* On SQLite and with windows shorter than a claim's five minutes, the claims of
\* two update calls never overlap, though claiming is a read and a later write.
THEOREM ClaimsExclude == RecollectsAlone => (Spec => []ClaimExclusive)
<1> SUFFICES ASSUME RecollectsAlone PROVE Spec => []ClaimExclusive
  OBVIOUS
<1>1. Init => (Undisturbed => ClaimInv)
  BY ClaimInvInitially
<1>2. SyncInv /\ (Undisturbed => ClaimInv) /\ [Next]_vars => (Undisturbed => ClaimInv)'
  BY ClaimInvKept
<1>3. (Undisturbed => ClaimInv) => ClaimExclusive
  BY DEF ClaimInv, InClaim, Holds, ClaimExclusive
<1> QED BY <1>1, <1>2, <1>3, SyncInvHolds, PTL DEF Spec

\* In those conditions a step never takes a block's facts away or puts an older
\* version in their place: what a window commits was read after everything it replaces.
THEOREM FactsOnlyAdvance == RecollectsAlone => (Spec => FactsNeverGoBack)
<1> SUFFICES ASSUME RecollectsAlone PROVE Spec => FactsNeverGoBack
  OBVIOUS
<1> DEFINE NotBack == Undisturbed => \A x \in facts : \E y \in facts' : y.block = x.block /\ y.version >= x.version
<1>1. Init => (Undisturbed => ClaimInv)
  BY ClaimInvInitially
<1>2. SyncInv /\ (Undisturbed => ClaimInv) /\ [Next]_vars => (Undisturbed => ClaimInv)'
  BY ClaimInvKept
<1>3. ASSUME SyncInv, Undisturbed => ClaimInv, [Next]_vars
      PROVE  NotBack
  <2> SUFFICES ASSUME Undisturbed, NEW x \in facts
               PROVE  \E y \in facts' : y.block = x.block /\ y.version >= x.version
    BY Zenon
  <2>1. x.version \in Nat
    BY <1>3 DEF SyncInv, TypeOK, Row
  <2>2. CASE x \in facts'
    BY <2>1, <2>2
  <2>3. CASE x \notin facts'
    <3>1. ASSUME NEW r \in Runs, NEW w, Local(r, w) PROVE FALSE
      BY <2>3, <3>1 DEF Local, Quiet
    <3>2. ASSUME NEW r \in Runs, ClaimWrite(r) \/ GivesUp(r) PROVE FALSE
      BY <1>3, <2>3, <3>2 DEF ClaimWrite, GivesUp, MarkFailed
    <3>3. Expire \/ (\E b \in Blocks : Reorg(b)) \/ UNCHANGED vars => FALSE
      BY <2>3 DEF Expire, Reorg, vars
    <3>4. PICK r \in Runs : Commits(r)
      BY <1>3, <3>1, <3>2, <3>3, StepKinds, Zenon
    <3>5. /\ x.block \in run[r].start..run[r].end /\ RowsOfWindow(run[r])
          /\ run[r].rows \subseteq facts' /\ run[r].rows \in SUBSET Row
      BY <1>3, <2>3, <3>4, CommitFacts
    <3>6. PICK y \in run[r].rows : y.block = x.block
      BY <3>5 DEF RowsOfWindow
    <3>7. x.version <= y.version /\ y.version \in Nat
      BY <1>3, <3>4, <3>5, <3>6 DEF ClaimInv, Commits, Row
    <3> QED BY <2>1, <3>5, <3>6, <3>7
  <2> QED BY <2>2, <2>3
<1> HIDE DEF NotBack
<1>4. SyncInv /\ (Undisturbed => ClaimInv) /\ [Next]_vars => [NotBack]_vars
  BY <1>3
<1>5. Spec => [][NotBack]_vars
  BY <1>1, <1>2, <1>4, SyncInvHolds, PTL DEF Spec
<1> QED BY <1>5 DEF NotBack, FactsNeverGoBack

-----------------------------------------------------------------------------
(* One version of a block *)

\* A lone caller's window replaces exactly the blocks it overlaps.
LEMMA CommitKeepsVersionInv ==
  ASSUME SyncInv, Cardinality(scenario.callers) = 1, VersionInv, NEW r \in Runs, Commits(r)
  PROVE  VersionInv'
<1>1. /\ RowsOfWindow(run[r])
      /\ run[r].start \in Nat /\ run[r].end \in Nat /\ run[r].start <= run[r].end
      /\ run' = [run EXCEPT ![r] = Idle]
      /\ run[r].rows \in SUBSET Row
      /\ facts' \subseteq facts \cup run[r].rows
      /\ run[r].replaces => \A x \in facts' : x.block \in run[r].start..run[r].end => x \in run[r].rows
      /\ scope' \in Scope /\ scope' # None
      /\ scope = None => scope'.next = run[r].end + 1
      /\ scope # None => scope'.next = MaxOf(run[r].end + 1, scope.next)
  BY CommitFacts, SyncAssumption
<1>2. Active(r)
  BY WriterIsActive DEF Commits, HasRows
<1>3. \A q \in Runs : ~Active(q)'
  BY <1>1, <1>2, OtherRuns, Alone DEF SyncInv, Active
<1>4. \A x \in facts \cup run[r].rows : x.block \in Nat
  BY <1>1, BlockAssumption DEF SyncInv, TypeOK, Row, Blocks
<1>5. \A x \in run[r].rows : x.block \in run[r].start..run[r].end
  BY <1>1 DEF RowsOfWindow
<1>6. \A x \in facts' : x.block \in run[r].start..run[r].end => x \in run[r].rows
  BY <1>1, <1>2, <1>4 DEF VersionInv
<1>7. \A x, y \in facts' : x.block = y.block => x.version = y.version
  BY <1>1, <1>5, <1>6 DEF VersionInv, RowsOfWindow
<1>8. ASSUME NEW x \in facts'
      PROVE  x.block < scope'.next
  <2>1. CASE x \in run[r].rows
    <3>1. x.block \in Nat /\ x.block <= run[r].end
      BY <1>1, <1>4, <1>5, <2>1
    <3>2. CASE scope = None
      BY <1>1, <3>1, <3>2
    <3>3. CASE scope # None
      BY <1>1, <3>1, <3>3, ScopeFacts DEF MaxOf, SyncInv
    <3> QED BY <3>2, <3>3
  <2>2. CASE x \in facts
    <3>1. scope # None /\ x.block \in Nat /\ x.block < scope.next
      BY <1>4, <2>2 DEF VersionInv
    <3> QED BY <1>1, <3>1, ScopeFacts DEF MaxOf, SyncInv
  <2> QED BY <1>1, <1>8, <2>1, <2>2
<1> QED BY <1>1, <1>3, <1>7, <1>8 DEF VersionInv

\* Every step of a lone caller keeps one version of each block.
LEMMA VersionInvKept ==
  ASSUME RecollectsReplace, SyncInv, Cardinality(scenario.callers) = 1, VersionInv, [Next]_vars
  PROVE  VersionInv'
<1>1. ASSUME NEW r \in Runs, NEW w, Local(r, w) PROVE VersionInv'
  <2>1. run'[r] = w /\ \A q \in Runs \ {r} : run'[q] = run[q]
    BY <1>1, OtherRuns DEF SyncInv, Local
  <2>2. UNCHANGED <<scenario, chain, scope, facts, origin, outlived>> /\ scenario \in Scenarios
    BY <1>1 DEF Local, Quiet, history, SyncInv, TypeOK
  <2>3. w # Idle /\ ~w.replaces => \A x \in facts : x.block < w.start
    <3> SUFFICES ASSUME w # Idle, ~w.replaces, NEW x \in facts PROVE x.block < w.start
      OBVIOUS
    <3>1. /\ scope # None /\ x.block < scope.next /\ x.block \in Nat /\ scope.next \in Nat
      BY ScopeFacts, BlockAssumption DEF VersionInv, SyncInv, TypeOK, Row, Blocks
    <3>2. CASE Plans(r, w)
      <4>1. scope.next <= w.start /\ w.start \in Nat
        BY <1>1, <3>1, <3>2, BlockAssumption DEF Local, Plans, Working, Blocks
      <4> QED BY <3>1, <4>1
    <3>3. CASE Claims(r, w) \/ Fetches(r, w)
      <4>1. Active(r) /\ SameWindow(run[r], w)
        BY <3>3, WriterIsActive DEF Claims, Fetches
      <4>2. ~run[r].replaces /\ w.start = run[r].start
        BY <4>1 DEF SameWindow
      <4> QED BY <4>1, <4>2 DEF VersionInv
    <3>4. CASE Recollects(r, w)
      BY <2>2, <3>4 DEF Recollects, RecollectsReplace
    <3> QED BY <1>1, <3>2, <3>3, <3>4 DEF Local
  <2> QED BY <2>1, <2>2, <2>3 DEF VersionInv, Active
<1>2. ASSUME NEW r \in Runs, ClaimWrite(r) PROVE VersionInv'
  <2>1. PICK w \in Working :
           /\ run' = [run EXCEPT ![r] = w]
           /\ w.pc = "fetching" /\ SameWindow(run[r], w)
           /\ run[r].pc = "claiming" /\ r \in scenario.callers /\ w.start <= w.end
           /\ scope' \in Scope /\ scope'.status = "running"
           /\ scope # None => scope'.next = scope.next /\ scope'.last = scope.last /\ origin' = origin
           /\ scope = None => scope'.next = w.start /\ scope'.last = None /\ origin' = w.start
           /\ UNCHANGED <<scenario, chain, facts, outlived>>
    BY <1>2, ClaimFacts
  <2>2. run'[r] = w /\ \A q \in Runs \ {r} : run'[q] = run[q]
    BY <2>1, OtherRuns DEF SyncInv
  <2>3. w.start = run[r].start /\ (w.replaces <=> run[r].replaces) /\ Active(r) /\ scope' # None
    BY <2>1, WriterIsActive, SyncAssumption DEF SameWindow
  <2> QED BY <2>1, <2>2, <2>3 DEF VersionInv, Active
<1>3. ASSUME NEW r \in Runs, GivesUp(r) PROVE VersionInv'
  <2>1. /\ run' = [run EXCEPT ![r] = Idle] /\ scope # None
        /\ scope' # None /\ scope'.next = scope.next /\ facts' = facts
    BY <1>3, GiveUpFacts, SyncAssumption
  <2>2. run'[r] = Idle /\ \A q \in Runs \ {r} : run'[q] = run[q]
    BY <2>1, OtherRuns DEF SyncInv
  <2> QED BY <2>1, <2>2 DEF VersionInv, Active
<1>4. CASE Expire
  <2>1. /\ scope' # None /\ scope'.next = scope.next /\ UNCHANGED <<facts, run>>
    BY <1>4, ExpireFacts, SyncAssumption
  <2> QED BY <2>1 DEF VersionInv, Active
<1>5. CASE \E b \in Blocks : Reorg(b)
  BY <1>5, ReorgFacts DEF SyncInv, VersionInv, Active
<1>6. CASE UNCHANGED vars
  BY <1>6 DEF vars, VersionInv, Active
<1> QED BY <1>1, <1>2, <1>3, <1>4, <1>5, <1>6, StepKinds, CommitKeepsVersionInv, Zenon

\* No step changes who calls.
LEMMA SameScenario ==
  ASSUME SyncInv, [Next]_vars
  PROVE  scenario' = scenario
<1>1. ASSUME NEW r \in Runs, NEW w, Local(r, w) PROVE scenario' = scenario
  BY <1>1 DEF Local, Quiet
<1>2. ASSUME NEW r \in Runs, ClaimWrite(r) \/ Commits(r) \/ GivesUp(r) PROVE scenario' = scenario
  BY <1>2 DEF ClaimWrite, Commits, CommitWindow, GivesUp, MarkFailed
<1>3. CASE Expire \/ (\E b \in Blocks : Reorg(b)) \/ UNCHANGED vars
  BY <1>3 DEF Expire, Reorg, vars
<1> QED BY <1>1, <1>2, <1>3, StepKinds, Zenon

\* Where one caller works alone, no block ever has rows of two versions: the
\* overlap and the replacing recollect remove what a reorganisation made stale.
THEOREM NoStaleVersions == RecollectsReplace => (Spec => []OneVersionPerBlock)
<1> SUFFICES ASSUME RecollectsReplace PROVE Spec => []OneVersionPerBlock
  OBVIOUS
<1> DEFINE Inv == Cardinality(scenario.callers) = 1 => VersionInv
<1>1. Init => Inv
  BY DEF Init, VersionInv, Idle, Active
<1>2. SyncInv /\ Inv /\ [Next]_vars => Inv'
  <2> SUFFICES ASSUME SyncInv, Inv, [Next]_vars, (Cardinality(scenario.callers) = 1)' PROVE VersionInv'
    OBVIOUS
  <2>1. Cardinality(scenario.callers) = 1
    BY SameScenario
  <2> QED BY <2>1, VersionInvKept
<1>3. Inv => OneVersionPerBlock
  BY DEF VersionInv, OneVersionPerBlock
<1> QED BY <1>1, <1>2, <1>3, SyncInvHolds, PTL DEF Spec
=============================================================================
