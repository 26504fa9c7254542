--------------------------- MODULE RangeCoverage ---------------------------
(***************************************************************************)
(* What a block-range scan promises: it covers the closed range in         *)
(* ascending order, without gap or overlap, and returns only when nothing  *)
(* is left; until then it may fail at any point, keeping what it covered.  *)
(***************************************************************************)
EXTENDS Integers

CONSTANTS StartBlock, EndBlock

VARIABLES
  next,     \* every block of StartBlock..(next - 1) has been covered, once
  outcome   \* "running", "returned" or "failed"

Init == next = StartBlock /\ outcome = "running"

Cover ==
  /\ outcome = "running"
  /\ next' \in (next + 1)..(EndBlock + 1)
  /\ UNCHANGED outcome

Return ==
  /\ outcome = "running"
  /\ next = EndBlock + 1
  /\ outcome' = "returned"
  /\ UNCHANGED next

Fail ==
  /\ outcome = "running"
  /\ outcome' = "failed"
  /\ UNCHANGED next

Next == Cover \/ Return \/ Fail

Spec == Init /\ [][Next]_<<next, outcome>>
=============================================================================
