------------------------- MODULE CredentialFairness -------------------------
(***************************************************************************)
(* CredentialPool with a history of who was passed over, to state that the *)
(* rotation of acquire is fair among usable keys.                          *)
(***************************************************************************)
EXTENDS CredentialPool

VARIABLE passedOver   \* passedOver[k]: keys leased out while k stayed usable

Leased(k) == entry'[k].nextToken > entry[k].nextToken

FairInit == Init /\ passedOver = [k \in Keys |-> {}]

\* A restart forgets every lease.
Forgotten == \E k \in Keys : entry'[k].nextToken < entry[k].nextToken

FairNext ==
  /\ Next
  /\ passedOver' = [k \in Keys |->
       IF Forgotten \/ Leased(k) \/ ~IsUsable(entry[k], now)' THEN {}
       ELSE passedOver[k] \cup {j \in Keys : Leased(j)}]

FairSpec == FairInit /\ [][FairNext]_<<vars, passedOver>>

\* Selection is fair among usable keys: while a key stays usable, no other
\* key is handed out twice before it.
NoKeyTwiceBeforeAnother ==
  [][\A j, k \in Keys :
       Leased(j) /\ j # k /\ IsUsable(entry[k], now) => j \notin passedOver[k]
    ]_<<vars, passedOver>>
=============================================================================
