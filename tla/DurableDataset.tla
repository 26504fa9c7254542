--------------------------- MODULE DurableDataset ---------------------------
(***************************************************************************)
(* What a sync scope promises of its dataset: it begins once, at a block   *)
(* that stays; its cursor never moves back; every block from the beginning *)
(* to the cursor has facts; and a block that has facts is never without    *)
(* again, whatever is collected anew.                                      *)
(***************************************************************************)
EXTENDS Integers

CONSTANT None

VARIABLES
  begun,  \* the first block, or None as long as nothing was asked for
  next,   \* the cursor: the block after the last one that is complete
  held    \* the blocks with facts

Init == begun = None /\ next = None /\ held = {}

\* The blocks from first to the cursor have facts, and none has lost them.
Keeps(first) == held \subseteq held' /\ first..(next' - 1) \subseteq held'

Open ==
  /\ begun = None
  /\ begun' \in Nat /\ next' \in Nat /\ begun' <= next'
  /\ Keeps(begun')

Extend ==
  /\ begun # None
  /\ begun' = begun
  /\ next' \in Nat /\ next <= next'
  /\ Keeps(begun)

Next == Open \/ Extend

Spec == Init /\ [][Next]_<<begun, next, held>>
=============================================================================
