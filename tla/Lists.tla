-------------------------------- MODULE Lists --------------------------------
(***************************************************************************)
(* The arrays of the source that are filtered, as lists.                   *)
(***************************************************************************)
EXTENDS Naturals, Sequences, Functions

IsList(s) == s \in Seq(Range(s))

\* The members of a set that are in list, in its order.
Among(set, list) ==
  LET kept[n \in 0..Len(list)] ==
        IF n = 0 THEN <<>> ELSE IF list[n] \in set THEN Append(kept[n - 1], list[n]) ELSE kept[n - 1]
  IN  kept[Len(list)]
=============================================================================
