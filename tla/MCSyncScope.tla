---------------------------- MODULE MCSyncScope ----------------------------
EXTENDS SyncScope

CONSTANTS r1, r2

\* fromBlock given (a rewind to block 0) or omitted.
MCStarts  == {None, 0}
MCNoStart == {None}
MCHead    == {LastBlock}
MCTargets == {LastBlock - 1, LastBlock}

Over(start, end) == [start |-> start, end |-> end, replace |-> TRUE]

\* One caller that recollects from the first block as well, and two that do not, on either database.
MCScenarios ==
  {[callers |-> {r1}, recollects |-> {Over(0, 0), Over(0, 1)}, reorgs |-> 2, driver |-> "sqlite"]}
  \cup {[callers |-> {r1, r2}, recollects |-> {}, reorgs |-> 1, driver |-> d] : d \in {"sqlite", "postgres"}}

\* A recollect ahead of the cursor.
MCAhead == {[callers |-> {r1}, recollects |-> {Over(2, 2)}, reorgs |-> 0, driver |-> "sqlite"]}
=============================================================================
