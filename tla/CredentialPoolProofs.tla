------------------------ MODULE CredentialPoolProofs ------------------------
(***************************************************************************)
(* Theorems about CredentialPool and CredentialFairness for any number of  *)
(* keys, attempts, API calls and alert checks, and any cooldown ladder.    *)
(***************************************************************************)
EXTENDS CredentialFairness, NaturalsInduction, WellFoundedInduction, TLAPS

-----------------------------------------------------------------------------
(* The operators on one entry keep it an entry *)

\* The rung of any positive failure count is a positive duration.
LEMMA TierIsPositive == \A n \in Nat \ {0} : Tier(n) \in Nat \ {0}
<1> TAKE n \in Nat \ {0}
<1>1. Len(Tiers) \in Nat \ {0} /\ \A i \in 1..Len(Tiers) : Tiers[i] \in Nat \ {0}
  BY TiersAssumption
<1>2. (IF n <= Len(Tiers) THEN n ELSE Len(Tiers)) \in 1..Len(Tiers)
  BY <1>1
<1> QED BY <1>1, <1>2 DEF Tier

\* recordFailure maps trackers to trackers.
LEMMA RecordFailureType ==
  ASSUME NEW t \in TrackerType, NEW n \in Nat
  PROVE  /\ RecordFailure(t, n) \in TrackerType
         /\ RecordFailure(t, n).failures > 0
         /\ RecordFailure(t, n).until = n + RecordFailure(t, n).current
         /\ RecordFailure(t, n).current \in Nat
<1>1. t.failures + 1 \in Nat \ {0}
  BY DEF TrackerType
<1>2. Tier(t.failures + 1) \in Nat \ {0}
  BY <1>1, TierIsPositive
<1> QED BY <1>1, <1>2 DEF RecordFailure, TrackerType, Time

\* A report leaves an entry behind, released, with its token counter as it was.
LEMMA SettleType ==
  ASSUME NEW e \in EntryType, NEW o \in Outcomes, NEW n \in Nat
  PROVE  /\ Settle(e, o, n) \in EntryType
         /\ Settle(e, o, n).leased = FALSE
         /\ Settle(e, o, n).activeToken = None
         /\ Settle(e, o, n).nextToken = e.nextToken
<1>1. Released(e) \in EntryType
  BY DEF Released, EntryType, Time
<1>2. CASE o = "authentication_failed"
  BY <1>2 DEF Settle, Disabled, Released, EntryType, Time
<1>3. CASE o = "rate_limited"
  <2> DEFINE t == RecordFailure(e.tracker, n)
  <2>1. e.tracker \in TrackerType
    BY DEF EntryType
  <2>2. t \in TrackerType /\ t.current \in Nat
    BY <2>1, RecordFailureType
  <2> DEFINE u == n + t.current
  <2>3. Settle(e, o, n) = [Released(e) EXCEPT !.tracker = t, !.cooldownUntil = u]
    BY <1>3 DEF Settle, EntryUntil
  <2>4. u \in Time
    BY <2>2 DEF Time
  <2> HIDE DEF t, u
  <2> QED BY <2>2, <2>3, <2>4 DEF Released, EntryType, Time
<1>4. CASE o = "success"
  BY <1>4 DEF Settle, Released, EntryType, Time, InitTracker, TrackerType
<1>5. CASE o = "cancelled"
  BY <1>5 DEF Settle, Released, EntryType, Time
<1>6. CASE o = "neutral"
  BY <1>1, <1>6 DEF Settle, Released, EntryType
<1> QED BY <1>2, <1>3, <1>4, <1>5, <1>6 DEF Outcomes

\* A rejection disables the entry, and no outcome enables it again.
LEMMA SettleDisabled ==
  ASSUME NEW e \in EntryType, NEW o \in Outcomes, NEW n \in Nat
  PROVE  Settle(e, o, n).disabled = (e.disabled \/ o = "authentication_failed")
<1>1. e.disabled \in BOOLEAN
  BY DEF EntryType
<1>2. CASE o = "authentication_failed"
  BY <1>2 DEF Settle, Disabled, Released, EntryType
<1>3. CASE o = "rate_limited"
  <2> DEFINE t == RecordFailure(e.tracker, n)
             u == EntryUntil(t, n)
  <2>1. Settle(e, o, n) = [Released(e) EXCEPT !.tracker = t, !.cooldownUntil = u]
    BY <1>3 DEF Settle
  <2> HIDE DEF t, u
  <2> QED BY <1>1, <1>3, <2>1 DEF Released, EntryType
<1>4. CASE o \in {"success", "cancelled", "neutral"}
  BY <1>1, <1>4 DEF Settle, Released, EntryType
<1> QED BY <1>2, <1>3, <1>4 DEF Outcomes

\* restoreCooldownState touches the cooldown clocks only.
LEMMA RestoredType ==
  ASSUME NEW e \in EntryType, NEW row \in TrackerType \cup {None}
  PROVE  /\ Restored(e, row) \in EntryType
         /\ Restored(e, row).leased = e.leased
         /\ Restored(e, row).activeToken = e.activeToken
         /\ Restored(e, row).nextToken = e.nextToken
         /\ Restored(e, row).disabled = e.disabled
<1>1. CASE row = None
  BY <1>1 DEF Restored
<1>2. CASE row # None
  BY <1>2 DEF Restored, RestoreCooldownState, EntryType, TrackerType, Time
<1> QED BY <1>1, <1>2

\* A fresh entry is an entry, and so is one that has just been leased.
LEMMA InitEntryType == InitEntry \in EntryType
BY DEF InitEntry, EntryType, InitTracker, TrackerType, Time

\* Leasing an entry issues its next token.
LEMMA LeaseOutType ==
  ASSUME NEW e \in EntryType
  PROVE  /\ LeaseOut(e) \in EntryType
         /\ LeaseOut(e).leased = TRUE
         /\ LeaseOut(e).nextToken = e.nextToken + 1
         /\ LeaseOut(e).activeToken = e.nextToken + 1
         /\ LeaseOut(e).disabled = e.disabled
<1>1. e.nextToken + 1 \in Nat
  BY DEF EntryType
<1>2. LeaseOut(e) = [e EXCEPT !.leased = TRUE, !.nextToken = e.nextToken + 1,
                              !.activeToken = e.nextToken + 1]
  BY DEF LeaseOut
<1> DEFINE m == e.nextToken + 1
<1> HIDE DEF m
<1> QED BY <1>1, <1>2 DEF EntryType, Time, m

\* The cursor stays on a configured key.
LEMMA AfterIsKey == \A k \in Keys : After(k) \in Keys
BY PoolAssumption DEF After, Keys

-----------------------------------------------------------------------------
(* Type correctness *)

\* A report with any token keeps the entries entries and the rows rows.
LEMMA ReportLeaseType ==
  ASSUME TypeOK, NEW k \in Keys, NEW t, NEW o \in Outcomes, ReportLease(k, t, o)
  PROVE  /\ entry' \in [Keys -> EntryType]
         /\ stored' \in [Keys -> TrackerType \cup {None}]
<1>1. entry[k] \in EntryType /\ entry[k].tracker \in TrackerType
  BY DEF TypeOK, EntryType
<1>2. Settle(entry[k], o, now) \in EntryType
  BY <1>1, SettleType DEF TypeOK
<1>3. Persisted(k, o) \in TrackerType \cup {None}
  BY <1>1, RecordFailureType DEF Persisted, TypeOK
<1> QED BY <1>2, <1>3 DEF ReportLease, TypeOK

\* Every variable keeps its type in every step of every actor.
LEMMA TypeStep == TypeOK /\ [Next]_vars => TypeOK'
<1> SUFFICES ASSUME TypeOK, [Next]_vars PROVE TypeOK'
  OBVIOUS
<1>1. CASE Tick
  BY <1>1 DEF TypeOK, Tick
<1>2. CASE Restart
  <2>1. \A k \in Keys : Restored(InitEntry, stored[k]) \in EntryType
    BY InitEntryType, RestoredType DEF TypeOK
  <2>2. 0 \in Keys
    BY PoolAssumption DEF Keys
  <2> QED BY <1>2, <2>1, <2>2 DEF TypeOK, Restart
<1>3. ASSUME NEW a \in Attempts, Acquire(a) PROVE TypeOK'
  <2>1. PICK k \in Keys :
          /\ entry' = [entry EXCEPT ![k] = LeaseOut(@)]
          /\ held' = [held EXCEPT ![a] = [key |-> k, token |-> entry[k].nextToken + 1]]
          /\ nextIndex' = After(k)
    BY <1>3 DEF Acquire
  <2>2. LeaseOut(entry[k]) \in EntryType
    BY LeaseOutType DEF TypeOK
  <2>3. entry[k].nextToken + 1 \in Nat
    BY DEF TypeOK, EntryType
  <2>4. [key |-> k, token |-> entry[k].nextToken + 1] \in Lease
    BY <2>3 DEF Lease
  <2>5. nextIndex' \in Keys
    BY <2>1, AfterIsKey
  <2> QED BY <1>3, <2>1, <2>2, <2>4, <2>5 DEF TypeOK, Acquire
<1>4. ASSUME NEW a \in Attempts, NEW o \in Outcomes, Report(a, o) PROVE TypeOK'
  <2>1. held[a] \in Lease
    BY <1>4 DEF TypeOK, Report
  <2>2. held[a].key \in Keys
    BY <2>1 DEF Lease
  <2>3. /\ entry' \in [Keys -> EntryType]
        /\ stored' \in [Keys -> TrackerType \cup {None}]
    BY <1>4, <2>2, ReportLeaseType DEF Report
  <2> QED BY <1>4, <2>2, <2>3 DEF TypeOK, Report
<1>5. ASSUME NEW c \in ApiCalls, NEW k \in Keys, ApiPick(c, k) PROVE TypeOK'
  BY <1>5 DEF TypeOK, ApiPick
<1>6. ASSUME NEW c \in ApiCalls, NEW o \in Outcomes, ApiReport(c, o) PROVE TypeOK'
  <2>1. using[c] \in Keys
    BY <1>6 DEF TypeOK, ApiReport
  <2>2. /\ entry' \in [Keys -> EntryType]
        /\ stored' \in [Keys -> TrackerType \cup {None}]
    BY <1>6, <2>1, ReportLeaseType DEF ApiReport
  <2> QED BY <1>6, <2>1, <2>2 DEF TypeOK, ApiReport
<1>7. ASSUME NEW c \in ApiCalls, ApiFail(c) PROVE TypeOK'
  BY <1>7 DEF TypeOK, ApiFail
<1>8. ASSUME NEW x \in Checks, LoadRows(x) PROVE TypeOK'
  BY <1>8 DEF TypeOK, LoadRows
<1>9. ASSUME NEW x \in Checks, RestoreRows(x) PROVE TypeOK'
  <2>1. loaded[x] \in [Keys -> TrackerType \cup {None}]
    BY <1>9 DEF TypeOK, RestoreRows
  <2>2. \A k \in Keys : Restored(entry[k], loaded[x][k]) \in EntryType
    BY <2>1, RestoredType DEF TypeOK
  <2> QED BY <1>9, <2>2 DEF TypeOK, RestoreRows
<1>10. CASE UNCHANGED vars
  BY <1>10 DEF TypeOK, vars
<1> QED BY <1>1, <1>2, <1>3, <1>4, <1>5, <1>6, <1>7, <1>8, <1>9, <1>10 DEF Next, ExecutorNext

\* The pool starts with its type.
LEMMA TypeInit == Init => TypeOK
BY InitEntryType, PoolAssumption DEF Init, TypeOK, Keys

\* Entries, leases, rows and reads keep their types for any number of keys,
\* attempts, calls and checks: no clock is ever a half-restored value, and the
\* round-robin cursor never leaves the configured keys.
THEOREM TypeCorrect == Spec => []TypeOK
<1>1. Init => TypeOK
  BY TypeInit
<1>2. TypeOK /\ [Next]_vars => TypeOK'
  BY TypeStep
<1> QED BY <1>1, <1>2, PTL DEF Spec

-----------------------------------------------------------------------------
(* The lease ledger *)

\* A report that is accepted frees its entry and keeps its token counter; one
\* that is not changes no entry.
LEMMA ReportLeaseEffect ==
  ASSUME TypeOK, NEW k \in Keys, NEW t, NEW o \in Outcomes, ReportLease(k, t, o)
  PROVE  /\ \A j \in Keys \ {k} : entry'[j] = entry[j]
         /\ entry'[k].nextToken = entry[k].nextToken
         /\ Accepts(entry[k], t) => ~entry'[k].leased /\ entry'[k].activeToken = None
         /\ ~Accepts(entry[k], t) => entry'[k] = entry[k]
<1>1. entry[k] \in EntryType /\ entry[k].tracker \in TrackerType
  BY DEF TypeOK, EntryType
<1>2. /\ Settle(entry[k], o, now).leased = FALSE
      /\ Settle(entry[k], o, now).activeToken = None
      /\ Settle(entry[k], o, now).nextToken = entry[k].nextToken
  BY <1>1, SettleType DEF TypeOK
<1> QED BY <1>2 DEF ReportLease, TypeOK

\* Only the lease flag, the tokens and the leases matter to the ledger.
LEMMA LedgerFrame ==
  ASSUME LeaseLedger, held' = held,
         \A k \in Keys : /\ entry'[k].leased = entry[k].leased
                         /\ entry'[k].activeToken = entry[k].activeToken
                         /\ entry'[k].nextToken = entry[k].nextToken,
         TypeOK
  PROVE  LeaseLedger'
<1>1. \A a \in Attempts : held[a] # None => held[a].key \in Keys
  BY DEF TypeOK, Lease
<1>2. \A a \in Attempts : Current(a) => Current(a)'
  BY <1>1 DEF Current
<1> QED BY <1>1, <1>2 DEF LeaseLedger

\* Leasing a usable key issues a token nobody holds.
LEMMA LedgerAcquire ==
  ASSUME TypeOK, LeaseLedger, NEW a \in Attempts, Acquire(a)
  PROVE  LeaseLedger'
<1> DEFINE l(k) == [key |-> k, token |-> entry[k].nextToken + 1]
<1>1. PICK k \in Keys :
        /\ ~entry[k].leased
        /\ entry' = [entry EXCEPT ![k] = LeaseOut(@)]
        /\ held' = [held EXCEPT ![a] = l(k)]
  BY DEF Acquire, IsFirstUsable, IsUsable
<1>2. held[a] = None
  BY DEF Acquire
<1>3. /\ entry'[k].leased = TRUE
      /\ entry'[k].nextToken = entry[k].nextToken + 1
      /\ entry'[k].activeToken = entry[k].nextToken + 1
      /\ entry[k].nextToken \in Nat
  BY <1>1, LeaseOutType DEF TypeOK, EntryType
<1>4. \A j \in Keys \ {k} : entry'[j] = entry[j]
  BY <1>1 DEF TypeOK
<1>5. /\ held'[a] = l(k)
      /\ \A b \in Attempts \ {a} : held'[b] = held[b]
      /\ held'[a] # None
  BY <1>1, <1>3, LeaseAssumption DEF TypeOK, Lease
<1>6. \A b \in Attempts : held[b] # None =>
        held[b].key \in Keys /\ held[b].token \in Nat /\ held[b].token <= entry[held[b].key].nextToken
  BY DEF TypeOK, Lease, LeaseLedger
<1>7. Current(a)' /\ held'[a].key = k
  BY <1>3, <1>5 DEF Current
<1>8. ASSUME NEW j \in Keys
      PROVE  /\ entry'[j].leased <=> entry'[j].activeToken # None
             /\ entry'[j].leased => \E b \in Attempts : Current(b)' /\ held'[b].key = j
  <2>1. CASE j = k
    BY <1>3, <1>7, <2>1, NoneAssumption
  <2>2. CASE j # k
    <3>1. entry'[j] = entry[j]
      BY <1>4, <2>2
    <3>2. \A b \in Attempts : Current(b) /\ held[b].key = j => Current(b)' /\ held'[b].key = j
      BY <1>2, <1>5, <3>1 DEF Current
    <3> QED BY <3>1, <3>2 DEF LeaseLedger
  <2> QED BY <2>1, <2>2
<1>9. ASSUME NEW b \in Attempts, held'[b] # None
      PROVE  /\ held'[b].token <= entry'[held'[b].key].nextToken
             /\ \A c \in Attempts \ {b} : held'[c] # held'[b]
  <2>1. \A c \in Attempts \ {a} : held[c] # None => held[c] # l(k)
    BY <1>3, <1>6
  <2>2. CASE b = a
    BY <1>3, <1>5, <2>1, <2>2
  <2>3. CASE b # a
    <3>1. held'[b] = held[b] /\ held[b] # None
      BY <1>5, <1>9, <2>3
    <3>2. held'[b].token <= entry'[held'[b].key].nextToken
      BY <1>3, <1>4, <1>6, <3>1
    <3>3. \A c \in Attempts \ {b} : held'[c] # held'[b]
      BY <1>5, <2>1, <2>3, <3>1 DEF LeaseLedger
    <3> QED BY <3>2, <3>3
  <2> QED BY <2>2, <2>3
<1> QED BY <1>8, <1>9 DEF LeaseLedger

\* An attempt's report, accepted or dropped, returns exactly its own lease.
LEMMA LedgerReport ==
  ASSUME TypeOK, LeaseLedger, NEW a \in Attempts, NEW o \in Outcomes, Report(a, o)
  PROVE  LeaseLedger'
<1> DEFINE k == held[a].key
<1>1. held[a] # None /\ held[a] \in Lease /\ k \in Keys /\ held[a].token # None
  BY NoneAssumption DEF TypeOK, Report, Lease
<1>2. /\ \A j \in Keys \ {k} : entry'[j] = entry[j]
      /\ entry'[k].nextToken = entry[k].nextToken
      /\ Current(a) => ~entry'[k].leased /\ entry'[k].activeToken = None
      /\ ~Current(a) => entry'[k] = entry[k]
  BY <1>1, ReportLeaseEffect DEF Report, Accepts, Current
<1>3. held'[a] = None /\ \A b \in Attempts \ {a} : held'[b] = held[b]
  BY DEF Report, TypeOK
<1>4. \A b \in Attempts : held[b] # None => held[b].key \in Keys
  BY DEF TypeOK, Lease
<1>5. \A b \in Attempts \ {a} : Current(b) /\ (held[b].key # k \/ ~Current(a)) => Current(b)'
  BY <1>2, <1>3, <1>4 DEF Current
<1>6. ASSUME NEW j \in Keys
      PROVE  /\ entry'[j].leased <=> entry'[j].activeToken # None
             /\ entry'[j].leased => \E b \in Attempts : Current(b)' /\ held'[b].key = j
  <2>1. CASE Current(a) /\ j = k
    BY <1>2, <2>1
  <2>2. CASE ~(Current(a) /\ j = k)
    <3>1. entry'[j] = entry[j]
      BY <1>2, <2>2
    <3>2. \A b \in Attempts : Current(b) /\ held[b].key = j => b # a
      BY <2>2
    <3> QED BY <1>3, <1>5, <2>2, <3>1, <3>2 DEF LeaseLedger
  <2> QED BY <2>1, <2>2
<1>7. \A j \in Keys : entry'[j].nextToken = entry[j].nextToken
  BY <1>2
<1> QED BY <1>3, <1>4, <1>6, <1>7 DEF LeaseLedger

\* A report by value empties the entry, and leaves its holder, if any, with a
\* stale token.
LEMMA LedgerApiReport ==
  ASSUME TypeOK, LeaseLedger, NEW c \in ApiCalls, NEW o \in Outcomes, ApiReport(c, o)
  PROVE  LeaseLedger'
<1> DEFINE k == using[c]
<1>1. k \in Keys
  BY DEF TypeOK, ApiReport
<1>2. /\ \A j \in Keys \ {k} : entry'[j] = entry[j]
      /\ entry'[k].nextToken = entry[k].nextToken
      /\ ~entry'[k].leased /\ entry'[k].activeToken = None
  BY <1>1, ReportLeaseEffect DEF ApiReport, Accepts
<1>3. held' = held /\ \A b \in Attempts : held[b] # None => held[b].key \in Keys
  BY DEF ApiReport, TypeOK, Lease
<1>4. \A b \in Attempts : Current(b) /\ held[b].key # k => Current(b)'
  BY <1>2, <1>3 DEF Current
<1> QED BY <1>2, <1>3, <1>4 DEF LeaseLedger

\* Restoring rows touches no lease and enables no key.
LEMMA RestoreRowsEffect ==
  ASSUME TypeOK, NEW x \in Checks, RestoreRows(x)
  PROVE  \A k \in Keys : /\ entry'[k].leased = entry[k].leased
                         /\ entry'[k].activeToken = entry[k].activeToken
                         /\ entry'[k].nextToken = entry[k].nextToken
                         /\ entry'[k].disabled = entry[k].disabled
<1>1. \A k \in Keys : /\ entry[k] \in EntryType
                      /\ entry'[k] = Restored(entry[k], loaded[x][k])
                      /\ loaded[x][k] \in TrackerType \cup {None}
  BY DEF RestoreRows, TypeOK
<1> QED BY <1>1, RestoredType

\* Every step keeps the leases accounted for.
LEMMA LedgerStep == TypeOK /\ LeaseLedger /\ [Next]_vars => LeaseLedger'
<1> SUFFICES ASSUME TypeOK, LeaseLedger, [Next]_vars PROVE LeaseLedger'
  OBVIOUS
<1>1. CASE Tick
  BY <1>1, LedgerFrame DEF Tick
<1>2. CASE Restart
  <2>1. \A k \in Keys : entry'[k].leased = FALSE /\ entry'[k].activeToken = None
    <3>1. InitEntry.leased = FALSE /\ InitEntry.activeToken = None
      BY DEF InitEntry
    <3> QED BY <1>2, <3>1, InitEntryType, RestoredType DEF Restart, TypeOK
  <2> QED BY <1>2, <2>1 DEF LeaseLedger, Restart
<1>3. ASSUME NEW a \in Attempts, Acquire(a) PROVE LeaseLedger'
  BY <1>3, LedgerAcquire
<1>4. ASSUME NEW a \in Attempts, NEW o \in Outcomes, Report(a, o) PROVE LeaseLedger'
  BY <1>4, LedgerReport
<1>5. ASSUME NEW c \in ApiCalls, NEW k \in Keys, ApiPick(c, k) PROVE LeaseLedger'
  BY <1>5, LedgerFrame DEF ApiPick
<1>6. ASSUME NEW c \in ApiCalls, NEW o \in Outcomes, ApiReport(c, o) PROVE LeaseLedger'
  BY <1>6, LedgerApiReport
<1>7. ASSUME NEW c \in ApiCalls, ApiFail(c) PROVE LeaseLedger'
  BY <1>7, LedgerFrame DEF ApiFail
<1>8. ASSUME NEW x \in Checks, LoadRows(x) PROVE LeaseLedger'
  BY <1>8, LedgerFrame DEF LoadRows
<1>9. ASSUME NEW x \in Checks, RestoreRows(x) PROVE LeaseLedger'
  BY <1>9, LedgerFrame, RestoreRowsEffect DEF RestoreRows
<1>10. CASE UNCHANGED vars
  BY <1>10, LedgerFrame DEF vars
<1> QED BY <1>1, <1>2, <1>3, <1>4, <1>5, <1>6, <1>7, <1>8, <1>9, <1>10 DEF Next, ExecutorNext

\* No entry is leased at first.
LEMMA LedgerInit == Init => LeaseLedger
BY DEF Init, LeaseLedger, InitEntry

\* Whatever executor attempts, reports by value, restores and restarts do in
\* between, no entry is leased without a holder of its active token and no
\* token is in two hands: the pool never loses a key by its own doing.
THEOREM LedgerHolds == Spec => []LeaseLedger
<1>1. Init => TypeOK /\ LeaseLedger
  BY TypeInit, LedgerInit
<1>2. (TypeOK /\ LeaseLedger) /\ [Next]_vars => (TypeOK /\ LeaseLedger)'
  BY TypeStep, LedgerStep
<1> QED BY <1>1, <1>2, PTL DEF Spec

-----------------------------------------------------------------------------
(* Nobody reports by value: every lease in hand is the active one *)

AllCurrent == \A a \in Attempts : held[a] # None => Current(a)

\* An attempt's lease ends only by its own report: the strengthening that makes
\* exclusive leases and lasting rejections inductive.
LEMMA AllCurrentStep ==
  TypeOK /\ LeaseLedger /\ AllCurrent /\ [ExecutorNext]_vars => AllCurrent'
<1> SUFFICES ASSUME TypeOK, LeaseLedger, AllCurrent, [ExecutorNext]_vars
             PROVE  AllCurrent'
  OBVIOUS
<1>1. CASE Tick
  BY <1>1 DEF AllCurrent, Current, Tick
<1>2. CASE Restart
  BY <1>2 DEF AllCurrent, Restart
<1>3. ASSUME NEW a \in Attempts, Acquire(a) PROVE AllCurrent'
  <2>1. PICK k \in Keys :
          /\ ~entry[k].leased
          /\ entry' = [entry EXCEPT ![k] = LeaseOut(@)]
          /\ held' = [held EXCEPT ![a] = [key |-> k, token |-> entry[k].nextToken + 1]]
    BY <1>3 DEF Acquire, IsFirstUsable, IsUsable
  <2>2. entry'[k].activeToken = entry[k].nextToken + 1
    BY <2>1, LeaseOutType DEF TypeOK
  <2>3. ASSUME NEW b \in Attempts \ {a}, held[b] # None
        PROVE  held[b].key \in Keys \ {k} /\ held[b].token = entry[held[b].key].activeToken
    <3>1. held[b].key \in Keys /\ held[b].token \in Nat
      BY <2>3 DEF TypeOK, Lease
    <3>2. entry[held[b].key].activeToken = held[b].token
      BY <2>3 DEF AllCurrent, Current
    <3>3. entry[held[b].key].leased
      BY <3>1, <3>2, NoneAssumption DEF LeaseLedger
    <3> QED BY <2>1, <3>1, <3>2, <3>3
  <2> QED BY <2>1, <2>2, <2>3 DEF AllCurrent, Current, TypeOK
<1>4. ASSUME NEW a \in Attempts, NEW o \in Outcomes, Report(a, o) PROVE AllCurrent'
  <2> DEFINE k == held[a].key
  <2>1. held[a] # None /\ k \in Keys
    BY <1>4 DEF TypeOK, Report, Lease
  <2>2. \A j \in Keys \ {k} : entry'[j] = entry[j]
    BY <1>4, <2>1, ReportLeaseEffect DEF Report
  <2>3. ASSUME NEW b \in Attempts \ {a}, held[b] # None
        PROVE  held[b].key \in Keys \ {k}
    <3>1. held[a] \in Lease /\ held[b] \in Lease /\ held[a] # held[b]
      BY <2>1, <2>3 DEF TypeOK, LeaseLedger
    <3>2. held[b].key = k => held[a].token = held[b].token
      BY <2>1, <2>3 DEF AllCurrent, Current
    <3> QED BY <3>1, <3>2 DEF Lease
  <2>4. held'[a] = None /\ \A b \in Attempts \ {a} : held'[b] = held[b]
    BY <1>4 DEF Report, TypeOK
  <2> QED BY <2>2, <2>3, <2>4 DEF AllCurrent, Current
<1>5. ASSUME NEW x \in Checks, LoadRows(x) PROVE AllCurrent'
  BY <1>5 DEF AllCurrent, Current, LoadRows
<1>6. ASSUME NEW x \in Checks, RestoreRows(x) PROVE AllCurrent'
  <2>1. /\ held' = held
        /\ \A k \in Keys : entry'[k].activeToken = entry[k].activeToken
    BY <1>6, RestoreRowsEffect DEF RestoreRows
  <2>2. \A a \in Attempts : held[a] # None => held[a].key \in Keys
    BY DEF TypeOK, Lease
  <2> QED BY <2>1, <2>2 DEF AllCurrent, Current
<1>7. CASE UNCHANGED vars
  BY <1>7 DEF AllCurrent, Current, vars
<1> QED BY <1>1, <1>2, <1>3, <1>4, <1>5, <1>6, <1>7 DEF ExecutorNext

ExecutorInv == TypeOK /\ LeaseLedger /\ AllCurrent

\* Every lease an executor holds carries its key's active token.
LEMMA ExecutorInvariant == ExecutorSpec => []ExecutorInv
<1>1. Init => ExecutorInv
  BY TypeInit, LedgerInit DEF ExecutorInv, AllCurrent, Init
<1>2. ExecutorInv /\ [ExecutorNext]_vars => ExecutorInv'
  BY TypeStep, LedgerStep, AllCurrentStep DEF ExecutorInv, Next
<1> QED BY <1>1, <1>2, PTL DEF ExecutorSpec

\* While nobody reports by value, acquire never hands a key to two
\* attempts that hold it at once.
THEOREM LeasesAreExclusive == ExecutorSpec => []LeaseExclusive
<1>1. ExecutorInv => LeaseExclusive
  <2> SUFFICES ASSUME ExecutorInv, NEW a \in Attempts, NEW b \in Attempts,
                      a # b, held[a] # None, held[b] # None, held[a].key = held[b].key
               PROVE  FALSE
    BY DEF LeaseExclusive
  <2>1. held[a] \in Lease /\ held[b] \in Lease /\ held[a] # held[b]
    BY DEF ExecutorInv, TypeOK, LeaseLedger
  <2>2. held[a].token = held[b].token
    BY DEF ExecutorInv, AllCurrent, Current
  <2> QED BY <2>1, <2>2 DEF Lease
<1> QED BY <1>1, ExecutorInvariant, PTL

\* While nobody reports by value, every rejection arrives with the
\* active token, so report never drops one, and no later outcome re-enables
\* the key.
THEOREM RejectionsLast == ExecutorSpec => []RejectedStaysDisabled
<1>1. Init => RejectedStaysDisabled
  BY DEF Init, RejectedStaysDisabled
<1>2. ExecutorInv /\ RejectedStaysDisabled /\ [ExecutorNext]_vars => RejectedStaysDisabled'
  <2> SUFFICES ASSUME ExecutorInv, RejectedStaysDisabled, [ExecutorNext]_vars
               PROVE  RejectedStaysDisabled'
    OBVIOUS
  <2> USE DEF RejectedStaysDisabled
  <2>1. CASE Tick
    BY <2>1 DEF Tick
  <2>2. CASE Restart
    BY <2>2 DEF Restart
  <2>3. ASSUME NEW a \in Attempts, Acquire(a) PROVE RejectedStaysDisabled'
    <3>1. PICK k \in Keys : entry' = [entry EXCEPT ![k] = LeaseOut(@)]
      BY <2>3 DEF Acquire
    <3>2. entry[k] \in EntryType
      BY DEF ExecutorInv, TypeOK
    <3>3. LeaseOut(entry[k]).disabled = entry[k].disabled
      BY <3>2, LeaseOutType
    <3> QED BY <2>3, <3>1, <3>3 DEF Acquire, ExecutorInv, TypeOK
  <2>4. ASSUME NEW a \in Attempts, NEW o \in Outcomes, Report(a, o)
        PROVE  RejectedStaysDisabled'
    <3> DEFINE k == held[a].key
    <3>1. k \in Keys /\ Accepts(entry[k], held[a].token)
      BY <2>4 DEF Report, ExecutorInv, AllCurrent, Current, Accepts, TypeOK, Lease
    <3>2. entry' = [entry EXCEPT ![k] = Settle(@, o, now)]
      BY <2>4, <3>1 DEF Report, ReportLease
    <3>3. /\ o = "authentication_failed" => Settle(entry[k], o, now).disabled
          /\ entry[k].disabled => Settle(entry[k], o, now).disabled
      <4>1. entry[k] \in EntryType /\ now \in Nat
        BY <3>1 DEF ExecutorInv, TypeOK
      <4>2. Settle(entry[k], o, now).disabled
              = (entry[k].disabled \/ o = "authentication_failed")
        BY <4>1, SettleDisabled
      <4>3. entry[k].disabled \in BOOLEAN
        BY <4>1 DEF EntryType
      <4> QED BY <4>2, <4>3
    <3> QED BY <2>4, <3>1, <3>2, <3>3 DEF Report, ExecutorInv, TypeOK
  <2>5. ASSUME NEW x \in Checks, LoadRows(x) PROVE RejectedStaysDisabled'
    BY <2>5 DEF LoadRows
  <2>6. ASSUME NEW x \in Checks, RestoreRows(x) PROVE RejectedStaysDisabled'
    <3>1. rejected' = rejected /\ rejected \subseteq Keys
      BY <2>6 DEF RestoreRows, ExecutorInv, TypeOK
    <3>2. \A k \in Keys : entry'[k].disabled = entry[k].disabled
      BY <2>6, RestoreRowsEffect DEF ExecutorInv
    <3> QED BY <3>1, <3>2
  <2>7. CASE UNCHANGED vars
    BY <2>7 DEF vars
  <2> QED BY <2>1, <2>2, <2>3, <2>4, <2>5, <2>6, <2>7 DEF ExecutorNext
<1> QED BY <1>1, <1>2, ExecutorInvariant, PTL DEF ExecutorSpec
-----------------------------------------------------------------------------
(* An attempt's lease is its own *)

\* Late reports of older leases, acquires, restores and picks leave the active
\* token of a held lease in place; only a report by value removes it.
THEOREM LeasesAreNotRevoked == Spec => LeaseNotRevoked
<1> DEFINE HoldersKeep == \A a \in Attempts :
                     Current(a) /\ held'[a] = held[a] /\ using' = using => Current(a)'
<1>1. TypeOK /\ LeaseLedger /\ [Next]_vars => [HoldersKeep]_vars
  <2> SUFFICES ASSUME TypeOK, LeaseLedger, [Next]_vars,
                      NEW a \in Attempts, Current(a), held'[a] = held[a], using' = using
               PROVE  Current(a)'
    OBVIOUS
  <2> DEFINE h == held[a].key
  <2>1. /\ held[a] \in Lease /\ h \in Keys /\ held[a] # None
        /\ entry[h].activeToken = held[a].token
        /\ entry[h].leased
    <3>1. held[a] \in Lease /\ h \in Keys /\ held[a].token \in Nat
      BY DEF Current, TypeOK, Lease
    <3> QED BY <3>1, NoneAssumption DEF Current, LeaseLedger
  <2>2. entry'[h].activeToken = entry[h].activeToken => Current(a)'
    BY <2>1 DEF Current
  <2>3. CASE Tick
    BY <2>2, <2>3 DEF Tick
  <2>4. CASE Restart
    BY <2>1, <2>4 DEF Restart
  <2>5. ASSUME NEW b \in Attempts, Acquire(b) PROVE Current(a)'
    <3>1. PICK k \in Keys : ~entry[k].leased /\ entry' = [entry EXCEPT ![k] = LeaseOut(@)]
      BY <2>5 DEF Acquire, IsFirstUsable, IsUsable
    <3> QED BY <2>1, <2>2, <3>1 DEF TypeOK
  <2>6. ASSUME NEW b \in Attempts, NEW o \in Outcomes, Report(b, o) PROVE Current(a)'
    <3>1. b # a
      BY <2>1, <2>6 DEF Report, TypeOK
    <3>2. held[b] \in Lease /\ held[b].key \in Keys /\ held[b].token # None /\ held[b] # held[a]
      BY <2>6, <3>1, NoneAssumption DEF Report, TypeOK, Lease, LeaseLedger
    <3>3. ReportLease(held[b].key, held[b].token, o)
      BY <2>6 DEF Report
    <3>4. /\ \A j \in Keys \ {held[b].key} : entry'[j] = entry[j]
          /\ ~Accepts(entry[held[b].key], held[b].token) =>
               entry'[held[b].key] = entry[held[b].key]
      BY <3>2, <3>3, ReportLeaseEffect
    <3>5. held[b].key = h => ~Accepts(entry[h], held[b].token)
      BY <2>1, <3>2 DEF Accepts, Lease
    <3> QED BY <2>1, <2>2, <3>4, <3>5
  <2>7. ASSUME NEW c \in ApiCalls, NEW k \in Keys, ApiPick(c, k) PROVE Current(a)'
    BY <2>2, <2>7 DEF ApiPick
  <2>8. ASSUME NEW c \in ApiCalls, NEW o \in Outcomes, ApiReport(c, o) PROVE Current(a)'
    BY <2>8 DEF ApiReport, TypeOK
  <2>9. ASSUME NEW c \in ApiCalls, ApiFail(c) PROVE Current(a)'
    BY <2>2, <2>9 DEF ApiFail
  <2>10. ASSUME NEW x \in Checks, LoadRows(x) PROVE Current(a)'
    BY <2>2, <2>10 DEF LoadRows
  <2>11. ASSUME NEW x \in Checks, RestoreRows(x) PROVE Current(a)'
    BY <2>1, <2>2, <2>11, RestoreRowsEffect
  <2>12. CASE UNCHANGED vars
    BY <2>2, <2>12 DEF vars
  <2> QED BY <2>3, <2>4, <2>5, <2>6, <2>7, <2>8, <2>9, <2>10, <2>11, <2>12
             DEF Next, ExecutorNext
<1>2. Init => TypeOK /\ LeaseLedger
  BY TypeInit, LedgerInit
<1>3. (TypeOK /\ LeaseLedger) /\ [Next]_vars => (TypeOK /\ LeaseLedger)'
  BY TypeStep, LedgerStep
<1> QED BY <1>1, <1>2, <1>3, PTL DEF Spec, LeaseNotRevoked
-----------------------------------------------------------------------------
(* The two clocks of an entry *)

\* What each outcome does to the tracker and to the entry's own clock.
LEMMA SettleClocks ==
  ASSUME NEW e \in EntryType, NEW o \in Outcomes, NEW n \in Nat
  PROVE  /\ o = "rate_limited" =>
              /\ Settle(e, o, n).tracker = RecordFailure(e.tracker, n)
              /\ Settle(e, o, n).cooldownUntil = RecordFailure(e.tracker, n).until
         /\ o = "success" =>
              /\ Settle(e, o, n).tracker = InitTracker
              /\ Settle(e, o, n).cooldownUntil = None
         /\ o \notin {"rate_limited", "success"} =>
              /\ Settle(e, o, n).tracker = e.tracker
              /\ Settle(e, o, n).cooldownUntil \in {e.cooldownUntil, None}
<1>1. CASE o = "authentication_failed"
  BY <1>1 DEF Settle, Disabled, Released, EntryType
<1>2. CASE o = "rate_limited"
  <2> DEFINE t == RecordFailure(e.tracker, n)
             u == EntryUntil(t, n)
  <2>1. Settle(e, o, n) = [Released(e) EXCEPT !.tracker = t, !.cooldownUntil = u]
    BY <1>2 DEF Settle
  <2>2. e.tracker \in TrackerType
    BY DEF EntryType
  <2>3. t.until = u
    BY <2>2, RecordFailureType DEF EntryUntil
  <2> HIDE DEF t, u
  <2>4. Settle(e, o, n).tracker = t /\ Settle(e, o, n).cooldownUntil = u
    BY <2>1 DEF Released, EntryType
  <2> QED BY <1>2, <2>3, <2>4 DEF t
<1>3. CASE o = "success"
  BY <1>3 DEF Settle, Released, EntryType
<1>4. CASE o = "cancelled"
  BY <1>4 DEF Settle, Released, EntryType
<1>5. CASE o = "neutral"
  BY <1>5 DEF Settle, Released, EntryType
<1> QED BY <1>1, <1>2, <1>3, <1>4, <1>5 DEF Outcomes

\* Leasing an entry leaves both its clocks alone.
LEMMA LeaseOutClocks ==
  ASSUME NEW e \in EntryType
  PROVE  LeaseOut(e).tracker = e.tracker /\ LeaseOut(e).cooldownUntil = e.cooldownUntil
BY DEF LeaseOut, EntryType

\* Restoring a row sets the tracker to it and the clock to its instant.
LEMMA RestoredClocks ==
  ASSUME NEW e \in EntryType, NEW row \in TrackerType \cup {None}
  PROVE  /\ row = None => Restored(e, row) = e
         /\ row # None =>
              /\ Restored(e, row).tracker = row
              /\ row.until # None => Restored(e, row).cooldownUntil = row.until
              /\ row.until = None => Restored(e, row).cooldownUntil = e.cooldownUntil
BY DEF Restored, RestoreCooldownState, EntryType

\* An entry whose both clocks run has them at the same instant.
Agree(e) ==
  e.cooldownUntil # None /\ e.tracker.until # None => e.cooldownUntil = e.tracker.until

ClocksAgree == \A k \in Keys : Agree(entry[k])

\* A report keeps the clocks of its entry together.
LEMMA ReportLeaseAgree ==
  ASSUME TypeOK, ClocksAgree, NEW k \in Keys, NEW t, NEW o \in Outcomes, ReportLease(k, t, o)
  PROVE  ClocksAgree'
<1>1. entry[k] \in EntryType /\ now \in Nat
  BY DEF TypeOK
<1>2. Agree(Settle(entry[k], o, now))
  BY <1>1, SettleClocks DEF ClocksAgree, Agree, InitTracker
<1>3. entry'[k] = Settle(entry[k], o, now) \/ entry'[k] = entry[k]
  BY DEF ReportLease, TypeOK
<1>4. \A j \in Keys \ {k} : entry'[j] = entry[j]
  BY DEF ReportLease, TypeOK
<1> QED BY <1>2, <1>3, <1>4 DEF ClocksAgree

\* Every step keeps the clocks of every entry together.
LEMMA ClocksStep == TypeOK /\ ClocksAgree /\ [Next]_vars => ClocksAgree'
<1> SUFFICES ASSUME TypeOK, ClocksAgree, [Next]_vars PROVE ClocksAgree'
  OBVIOUS
<1>1. ASSUME entry' = entry PROVE ClocksAgree'
  BY <1>1 DEF ClocksAgree
<1>2. CASE Tick
  BY <1>1, <1>2 DEF Tick
<1>3. CASE Restart
  <2>1. Agree(InitEntry)
    BY DEF Agree, InitEntry
  <2>2. \A k \in Keys : Agree(Restored(InitEntry, stored[k]))
    BY <2>1, InitEntryType, RestoredClocks DEF Agree, TypeOK
  <2> QED BY <1>3, <2>2 DEF Restart, ClocksAgree
<1>4. ASSUME NEW a \in Attempts, Acquire(a) PROVE ClocksAgree'
  <2>1. PICK k \in Keys : entry' = [entry EXCEPT ![k] = LeaseOut(@)]
    BY <1>4 DEF Acquire
  <2>2. entry[k] \in EntryType
    BY DEF TypeOK
  <2>3. Agree(LeaseOut(entry[k]))
    BY <2>2, LeaseOutClocks DEF ClocksAgree, Agree
  <2> QED BY <2>1, <2>3 DEF ClocksAgree, TypeOK
<1>5. ASSUME NEW a \in Attempts, NEW o \in Outcomes, Report(a, o) PROVE ClocksAgree'
  <2>1. held[a].key \in Keys
    BY <1>5 DEF Report, TypeOK, Lease
  <2> QED BY <1>5, <2>1, ReportLeaseAgree DEF Report
<1>6. ASSUME NEW c \in ApiCalls, NEW k \in Keys, ApiPick(c, k) PROVE ClocksAgree'
  BY <1>1, <1>6 DEF ApiPick
<1>7. ASSUME NEW c \in ApiCalls, NEW o \in Outcomes, ApiReport(c, o) PROVE ClocksAgree'
  <2>1. using[c] \in Keys
    BY <1>7 DEF ApiReport, TypeOK
  <2> QED BY <1>7, <2>1, ReportLeaseAgree DEF ApiReport
<1>8. ASSUME NEW c \in ApiCalls, ApiFail(c) PROVE ClocksAgree'
  BY <1>1, <1>8 DEF ApiFail
<1>9. ASSUME NEW x \in Checks, LoadRows(x) PROVE ClocksAgree'
  BY <1>1, <1>9 DEF LoadRows
<1>10. ASSUME NEW x \in Checks, RestoreRows(x) PROVE ClocksAgree'
  <2>1. \A k \in Keys : loaded[x][k] \in TrackerType \cup {None} /\ entry[k] \in EntryType
    BY <1>10 DEF RestoreRows, TypeOK
  <2>2. \A k \in Keys : Agree(Restored(entry[k], loaded[x][k]))
    BY <2>1, RestoredClocks DEF Agree, ClocksAgree
  <2> QED BY <1>10, <2>2 DEF RestoreRows, ClocksAgree
<1>11. CASE UNCHANGED vars
  BY <1>1, <1>11 DEF vars
<1> QED BY <1>2, <1>3, <1>4, <1>5, <1>6, <1>7, <1>8, <1>9, <1>10, <1>11 DEF Next, ExecutorNext

\* Every nonempty set of instants has an earliest one.
LEMMA EarliestExists ==
  ASSUME NEW S \in SUBSET Nat, S # {}
  PROVE  (CHOOSE t \in S : \A u \in S : t <= u) \in S
<1>1. PICK t \in S : \A u \in S : ~(<<u, t>> \in OpToRel(<, Nat))
  BY NatLessThanWellFounded, WFMin, Zenon
<1>2. ASSUME NEW u \in S PROVE t <= u
  <2>1. u \in Nat /\ t \in Nat
    OBVIOUS
  <2>2. ~(u < t)
    BY <1>1, <2>1 DEF OpToRel
  <2> QED BY <2>1, <2>2
<1> QED BY <1>2

\* However reports, restores and restarts interleave, an entry's two clocks
\* never run to different instants, so the earlier of the two, which
\* nextAvailableAt takes, is the instant isUsable waits for: a retry that
\* sleeps until then does not spin and finds a key.
THEOREM WakesAreUseful == Spec => []WakeIsUseful
<1>1. TypeOK /\ ClocksAgree => WakeIsUseful
  <2> SUFFICES ASSUME TypeOK, ClocksAgree, NextAvailableAt # None
               PROVE  /\ NextAvailableAt > now
                      /\ \E k \in Keys : IsUsable(entry[k], NextAvailableAt)
    BY DEF WakeIsUseful
  <2> DEFINE waiting == {k \in Keys : /\ ~entry[k].disabled
                                      /\ ~entry[k].leased
                                      /\ IsKeyCoolingDown(entry[k], now)}
             wakes == {EarlierClock(entry[k]) : k \in waiting}
  <2>1. NextAvailableAt = IF wakes = {} THEN None
                          ELSE CHOOSE t \in wakes : \A u \in wakes : t <= u
    BY DEF NextAvailableAt
  <2>2. ASSUME NEW k \in waiting
        PROVE  LET t == EarlierClock(entry[k])
               IN  t \in Nat /\ t > now /\ IsUsable(entry[k], t)
    <3>1. /\ entry[k].cooldownUntil \in Nat \cup {None}
          /\ entry[k].tracker.until \in Nat \cup {None}
          /\ now \in Nat
      BY DEF TypeOK, EntryType, TrackerType, Time
    <3>2. Agree(entry[k])
      BY DEF ClocksAgree
    <3>3. ~entry[k].disabled /\ ~entry[k].leased /\ IsKeyCoolingDown(entry[k], now)
      OBVIOUS
    <3> HIDE DEF waiting
    <3>4. \/ Later(entry[k].tracker.until, now)
          \/ Later(entry[k].cooldownUntil, now)
      BY <3>3 DEF IsKeyCoolingDown
    <3> DEFINE c == entry[k].cooldownUntil
               u == entry[k].tracker.until
               t == EarlierClock(entry[k])
    <3>5. t \in Nat /\ t > now /\ (c # None => c = t) /\ (u # None => u = t)
      <4>1. CASE c # None /\ u # None
        BY <3>1, <3>2, <3>4, <4>1 DEF EarlierClock, Agree, Later
      <4>2. CASE c = None
        BY <3>1, <3>4, <4>2 DEF EarlierClock, Later
      <4>3. CASE c # None /\ u = None
        BY <3>1, <3>4, <4>3 DEF EarlierClock, Later
      <4> QED BY <4>1, <4>2, <4>3
    <3>6. ~Later(c, t) /\ ~Later(u, t)
      BY <3>5 DEF Later
    <3> HIDE DEF t
    <3> QED BY <3>3, <3>5, <3>6 DEF IsUsable, IsKeyCoolingDown, t
  <2>3. wakes # {} /\ wakes \in SUBSET Nat
    BY <2>1, <2>2
  <2>4. NextAvailableAt \in wakes
    <3> HIDE DEF wakes
    <3> QED BY <2>1, <2>3, EarliestExists
  <2>5. PICK k \in waiting : NextAvailableAt = EarlierClock(entry[k])
    BY <2>4
  <2> QED BY <2>2, <2>5
<1>2. Init => TypeOK /\ ClocksAgree
  BY TypeInit DEF Init, ClocksAgree, Agree, InitEntry
<1>3. (TypeOK /\ ClocksAgree) /\ [Next]_vars => (TypeOK /\ ClocksAgree)'
  BY TypeStep, ClocksStep
<1> QED BY <1>1, <1>2, <1>3, PTL DEF Spec
-----------------------------------------------------------------------------
(* Memory, disk and the ladder, while no alert check reloads rows *)

\* The row of key k is the one its tracker would be saved as.
RowMatches(k) ==
  stored[k] = IF entry[k].tracker.failures = 0 THEN None ELSE entry[k].tracker

\* A tracker's window began in the past on the rung of its failures.
OnLadder(t, n) == t.until # None => t.failures > 0 /\ t.until <= n + Tier(t.failures)

\* An open window of the entry is the window of its tracker.
Backed(e) == e.cooldownUntil # None => e.tracker.until = e.cooldownUntil

WindowsOnLadder ==
  \A k \in Keys : OnLadder(entry[k].tracker, now) /\ Backed(entry[k])

\* What a report leaves on disk and in memory is the same failure.
LEMMA ReportLeaseRow ==
  ASSUME TypeOK, StoredMatchesMemory, NEW k \in Keys, NEW t, NEW o \in Outcomes,
         ReportLease(k, t, o)
  PROVE  StoredMatchesMemory'
<1>1. entry[k] \in EntryType /\ entry[k].tracker \in TrackerType /\ now \in Nat
  BY DEF TypeOK, EntryType
<1>2. CASE ~Accepts(entry[k], t)
  BY <1>2 DEF ReportLease, StoredMatchesMemory
<1>3. CASE Accepts(entry[k], t)
  <2> DEFINE e == Settle(entry[k], o, now)
             r == Persisted(k, o)
             f == RecordFailure(entry[k].tracker, now)
  <2>1. entry' = [entry EXCEPT ![k] = e] /\ stored' = [stored EXCEPT ![k] = r]
    BY <1>3 DEF ReportLease
  <2>2. r = IF e.tracker.failures = 0 THEN None ELSE e.tracker
    <3>1. CASE o = "rate_limited"
      <4>1. e.tracker = f
        BY <1>1, <3>1, SettleClocks
      <4>2. f.failures > 0 /\ f.failures \in Nat
        BY <1>1, RecordFailureType DEF TrackerType
      <4>3. r = f
        BY <3>1 DEF Persisted
      <4> HIDE DEF e, r, f
      <4> QED BY <4>1, <4>2, <4>3
    <3>2. CASE o = "success"
      <4>1. e.tracker = InitTracker
        BY <1>1, <3>2, SettleClocks
      <4>2. r = None
        BY <3>2 DEF Persisted
      <4> HIDE DEF e, r
      <4> QED BY <4>1, <4>2 DEF InitTracker
    <3>3. CASE o \notin {"rate_limited", "success"}
      <4>1. e.tracker = entry[k].tracker
        BY <1>1, <3>3, SettleClocks
      <4>2. r = stored[k]
        BY <3>3 DEF Persisted
      <4> HIDE DEF e, r
      <4> QED BY <4>1, <4>2 DEF StoredMatchesMemory
    <3> QED BY <3>1, <3>2, <3>3
  <2> HIDE DEF e, r
  <2> QED BY <2>1, <2>2 DEF StoredMatchesMemory, TypeOK
<1> QED BY <1>2, <1>3

\* A report keeps every window on the ladder.
LEMMA ReportLeaseLadder ==
  ASSUME TypeOK, WindowsOnLadder, NEW k \in Keys, NEW t, NEW o \in Outcomes,
         ReportLease(k, t, o), now' = now
  PROVE  WindowsOnLadder'
<1>1. entry[k] \in EntryType /\ entry[k].tracker \in TrackerType /\ now \in Nat
  BY DEF TypeOK, EntryType
<1> DEFINE e == Settle(entry[k], o, now)
           f == RecordFailure(entry[k].tracker, now)
<1>2. OnLadder(e.tracker, now) /\ Backed(e)
  <2>1. CASE o = "rate_limited"
    <3>1. e.tracker = f /\ e.cooldownUntil = f.until
      BY <1>1, <2>1, SettleClocks
    <3>2. f.failures > 0 /\ f.until = now + f.current /\ f.current \in Nat
      BY <1>1, RecordFailureType
    <3>3. f.current = Tier(f.failures)
      BY DEF RecordFailure
    <3> HIDE DEF e, f
    <3> QED BY <1>1, <3>1, <3>2, <3>3 DEF OnLadder, Backed
  <2>2. CASE o = "success"
    <3>1. e.tracker = InitTracker /\ e.cooldownUntil = None
      BY <1>1, <2>2, SettleClocks
    <3> HIDE DEF e
    <3> QED BY <3>1 DEF OnLadder, Backed, InitTracker
  <2>3. CASE o \notin {"rate_limited", "success"}
    <3>1. e.tracker = entry[k].tracker /\ e.cooldownUntil \in {entry[k].cooldownUntil, None}
      BY <1>1, <2>3, SettleClocks
    <3> HIDE DEF e
    <3> QED BY <3>1 DEF WindowsOnLadder, OnLadder, Backed
  <2> QED BY <2>1, <2>2, <2>3
<1>3. entry'[k] = e \/ entry'[k] = entry[k]
  BY DEF ReportLease, TypeOK
<1>4. \A j \in Keys \ {k} : entry'[j] = entry[j]
  BY DEF ReportLease, TypeOK
<1> HIDE DEF e
<1> QED BY <1>2, <1>3, <1>4 DEF WindowsOnLadder

DurableInv == TypeOK /\ StoredMatchesMemory /\ WindowsOnLadder

\* A restart without a row starts afresh; one with a row resumes its window.
LEMMA RestartEffect ==
  ASSUME DurableInv, Restart, NEW k \in Keys
  PROVE  /\ entry[k].tracker.failures = 0 => entry'[k] = InitEntry
         /\ entry[k].tracker.failures # 0 =>
              /\ entry'[k].tracker = entry[k].tracker
              /\ entry'[k].cooldownUntil = entry[k].tracker.until
<1>1. /\ entry'[k] = Restored(InitEntry, stored[k])
      /\ stored[k] = IF entry[k].tracker.failures = 0 THEN None ELSE entry[k].tracker
      /\ stored[k] \in TrackerType \cup {None}
      /\ entry[k].tracker \in TrackerType
  BY DEF Restart, DurableInv, StoredMatchesMemory, TypeOK, EntryType
<1>2. InitEntry.cooldownUntil = None
  BY DEF InitEntry
<1>3. CASE entry[k].tracker.failures = 0
  BY <1>1, <1>3, InitEntryType, RestoredClocks
<1>4. CASE entry[k].tracker.failures # 0
  <2>1. stored[k] = entry[k].tracker /\ stored[k] # None
    BY <1>1, <1>4, NoneAssumption
  <2> QED BY <1>1, <1>2, <1>4, <2>1, InitEntryType, RestoredClocks
<1> QED BY <1>3, <1>4

\* Without alert checks, every step keeps memory, disk and ladder together.
LEMMA DurableStep ==
  Checks = {} /\ DurableInv /\ [Next]_vars => DurableInv'
<1> SUFFICES ASSUME Checks = {}, DurableInv, [Next]_vars
             PROVE  StoredMatchesMemory' /\ WindowsOnLadder'
  BY TypeStep DEF DurableInv
<1>0. TypeOK /\ StoredMatchesMemory /\ WindowsOnLadder
  BY DEF DurableInv
<1>1. ASSUME entry' = entry, stored' = stored, now' = now
      PROVE  StoredMatchesMemory' /\ WindowsOnLadder'
  BY <1>0, <1>1 DEF StoredMatchesMemory, WindowsOnLadder
<1>2. CASE Tick
  <2>1. StoredMatchesMemory'
    BY <1>0, <1>2 DEF Tick, StoredMatchesMemory
  <2>2. ASSUME NEW k \in Keys PROVE OnLadder(entry[k].tracker, now + 1)
    <3>1. entry[k].tracker \in TrackerType /\ now \in Nat
      BY <1>0 DEF TypeOK, EntryType
    <3>2. OnLadder(entry[k].tracker, now)
      BY <1>0 DEF WindowsOnLadder
    <3>3. entry[k].tracker.failures \in Nat /\ entry[k].tracker.until \in Nat \cup {None}
      BY <3>1 DEF TrackerType, Time
    <3>4. entry[k].tracker.failures > 0 => Tier(entry[k].tracker.failures) \in Nat
      BY <3>3, TierIsPositive
    <3> QED BY <3>1, <3>2, <3>3, <3>4 DEF OnLadder
  <2> QED BY <1>0, <1>2, <2>1, <2>2 DEF Tick, WindowsOnLadder
<1>3. CASE Restart
  <2>1. ASSUME NEW k \in Keys
        PROVE  RowMatches(k)' /\ OnLadder(entry'[k].tracker, now) /\ Backed(entry'[k])
    <3>1. /\ stored'[k] = stored[k]
          /\ RowMatches(k)
          /\ OnLadder(entry[k].tracker, now)
      BY <1>0, <1>3 DEF Restart, StoredMatchesMemory, RowMatches, WindowsOnLadder
    <3>2. CASE entry[k].tracker.failures = 0
      <4>1. entry'[k] = InitEntry
        BY <1>3, <3>2, RestartEffect
      <4> QED BY <3>1, <3>2, <4>1
              DEF InitEntry, InitTracker, OnLadder, Backed, RowMatches
    <3>3. CASE entry[k].tracker.failures # 0
      <4>1. /\ entry'[k].tracker = entry[k].tracker
            /\ entry'[k].cooldownUntil = entry[k].tracker.until
        BY <1>3, <3>3, RestartEffect
      <4> QED BY <3>1, <3>3, <4>1 DEF Backed, RowMatches
    <3> QED BY <3>2, <3>3
  <2> QED BY <1>3, <2>1 DEF Restart, StoredMatchesMemory, WindowsOnLadder, RowMatches
<1>4. ASSUME NEW a \in Attempts, Acquire(a)
      PROVE  StoredMatchesMemory' /\ WindowsOnLadder'
  <2>1. PICK k \in Keys : entry' = [entry EXCEPT ![k] = LeaseOut(@)]
    BY <1>4 DEF Acquire
  <2>2. entry[k] \in EntryType
    BY <1>0 DEF TypeOK
  <2>3. \A j \in Keys : /\ entry'[j].tracker = entry[j].tracker
                        /\ entry'[j].cooldownUntil = entry[j].cooldownUntil
    BY <1>0, <2>1, <2>2, LeaseOutClocks DEF TypeOK
  <2> QED BY <1>0, <1>4, <2>3
          DEF Acquire, StoredMatchesMemory, WindowsOnLadder, Backed
<1>5. ASSUME NEW a \in Attempts, NEW o \in Outcomes, Report(a, o)
      PROVE  StoredMatchesMemory' /\ WindowsOnLadder'
  <2>1. held[a].key \in Keys
    BY <1>0, <1>5 DEF Report, TypeOK, Lease
  <2> QED BY <1>0, <1>5, <2>1, ReportLeaseRow, ReportLeaseLadder DEF Report
<1>6. ASSUME NEW c \in ApiCalls, NEW k \in Keys, ApiPick(c, k)
      PROVE  StoredMatchesMemory' /\ WindowsOnLadder'
  BY <1>1, <1>6 DEF ApiPick
<1>7. ASSUME NEW c \in ApiCalls, NEW o \in Outcomes, ApiReport(c, o)
      PROVE  StoredMatchesMemory' /\ WindowsOnLadder'
  <2>1. using[c] \in Keys
    BY <1>0, <1>7 DEF ApiReport, TypeOK
  <2> QED BY <1>0, <1>7, <2>1, ReportLeaseRow, ReportLeaseLadder DEF ApiReport
<1>8. ASSUME NEW c \in ApiCalls, ApiFail(c)
      PROVE  StoredMatchesMemory' /\ WindowsOnLadder'
  BY <1>1, <1>8 DEF ApiFail
<1>9. CASE UNCHANGED vars
  BY <1>1, <1>9 DEF vars
<1> QED BY <1>2, <1>3, <1>4, <1>5, <1>6, <1>7, <1>8, <1>9 DEF Next, ExecutorNext

\* A fresh pool has no rows and no windows.
LEMMA DurableInit == Init => DurableInv
BY TypeInit DEF Init, DurableInv, StoredMatchesMemory, WindowsOnLadder, OnLadder, Backed,
                InitEntry, InitTracker

\* Without alert checks, a restart at any moment loses no recorded failure and
\* revives none that a success has cleared.
THEOREM RestartsResume == Checks = {} => (Spec => []StoredMatchesMemory)
<1> SUFFICES ASSUME Checks = {} PROVE Spec => []StoredMatchesMemory
  OBVIOUS
<1>1. Init => DurableInv
  BY DurableInit
<1>2. DurableInv /\ [Next]_vars => DurableInv'
  BY DurableStep
<1>3. DurableInv => StoredMatchesMemory
  BY DEF DurableInv
<1> QED BY <1>1, <1>2, <1>3, PTL DEF Spec

\* Every rung of the ladder is at least as long as the one below it, as those
\* of COOLDOWN_TIERS_MS are.
LadderRises == \A i, j \in 1..Len(Tiers) : i <= j => Tiers[i] <= Tiers[j]

\* One more failure never earns a shorter window.
LEMMA TierRises ==
  ASSUME LadderRises, NEW n \in Nat \ {0}
  PROVE  Tier(n) <= Tier(n + 1)
<1>1. Len(Tiers) \in Nat \ {0}
  BY TiersAssumption
<1> DEFINE i == IF n <= Len(Tiers) THEN n ELSE Len(Tiers)
           j == IF n + 1 <= Len(Tiers) THEN n + 1 ELSE Len(Tiers)
<1>2. i \in 1..Len(Tiers) /\ j \in 1..Len(Tiers) /\ i <= j
  BY <1>1
<1>3. Tier(n) = Tiers[i] /\ Tier(n + 1) = Tiers[j]
  BY DEF Tier
<1> HIDE DEF i, j
<1> QED BY <1>2, <1>3 DEF LadderRises

\* The shape of a window that the entry keeps or extends.
Kept(k) == /\ entry'[k].cooldownUntil # None
           /\ entry'[k].cooldownUntil >= entry[k].cooldownUntil

\* A report that neither clears nor disables the key extends its window.
LEMMA ReportLeaseKeeps ==
  ASSUME LadderRises, DurableInv, NEW k \in Keys, NEW t, NEW o \in Outcomes,
         ReportLease(k, t, o), NEW j \in Keys,
         Later(entry[j].cooldownUntil, now),
         ~entry'[j].disabled, entry'[j].tracker.failures > 0
  PROVE  Kept(j)
<1>0. TypeOK /\ WindowsOnLadder
  BY DEF DurableInv
<1>1. /\ entry[j] \in EntryType /\ entry[j].tracker \in TrackerType
      /\ now \in Nat /\ entry[j].cooldownUntil \in Nat
  BY <1>0 DEF TypeOK, EntryType, Time, Later
<1>2. CASE entry'[j] = entry[j]
  BY <1>1, <1>2, NoneAssumption DEF Kept
<1>3. CASE entry'[j] # entry[j]
  <2> DEFINE e == Settle(entry[j], o, now)
             f == RecordFailure(entry[j].tracker, now)
  <2>1. k = j /\ entry'[j] = e
    BY <1>0, <1>3 DEF ReportLease, TypeOK
  <2>2. CASE o = "rate_limited"
    <3>1. e.cooldownUntil = f.until
      BY <1>1, <2>2, SettleClocks
    <3>2. /\ f.until = now + f.current /\ f.current \in Nat
          /\ f.current = Tier(entry[j].tracker.failures + 1)
      BY <1>1, RecordFailureType DEF RecordFailure
    <3>3. /\ entry[j].tracker.until = entry[j].cooldownUntil
          /\ OnLadder(entry[j].tracker, now)
      BY <1>0, <1>1, NoneAssumption DEF WindowsOnLadder, Backed
    <3>4. /\ entry[j].tracker.failures \in Nat \ {0}
          /\ entry[j].cooldownUntil <= now + Tier(entry[j].tracker.failures)
      BY <1>1, <3>3, NoneAssumption DEF OnLadder, TrackerType
    <3>5. /\ Tier(entry[j].tracker.failures) <= Tier(entry[j].tracker.failures + 1)
          /\ Tier(entry[j].tracker.failures) \in Nat
      BY <3>4, TierRises, TierIsPositive
    <3> HIDE DEF e, f
    <3>6. f.until \in Nat /\ f.until >= entry[j].cooldownUntil
      BY <1>1, <3>2, <3>4, <3>5
    <3> QED BY <2>1, <3>1, <3>6, NoneAssumption DEF Kept
  <2>3. CASE o = "success"
    <3>1. e.tracker = InitTracker
      BY <1>1, <2>3, SettleClocks
    <3> HIDE DEF e
    <3> QED BY <2>1, <3>1 DEF InitTracker
  <2>4. CASE o = "authentication_failed"
    <3>1. e.disabled = (entry[j].disabled \/ o = "authentication_failed")
      BY <1>1, SettleDisabled
    <3>2. entry[j].disabled \in BOOLEAN
      BY <1>1 DEF EntryType
    <3> HIDE DEF e
    <3> QED BY <2>1, <2>4, <3>1, <3>2
  <2>5. CASE o = "cancelled"
    <3> DEFINE g == Released(entry[j])
    <3>0. g.cooldownUntil = entry[j].cooldownUntil /\ "cooldownUntil" \in DOMAIN g
      BY <1>1 DEF Released, EntryType
    <3>1. e.cooldownUntil = entry[j].cooldownUntil
      <4>1. e = [g EXCEPT !.cooldownUntil = IF @ # None /\ @ <= now THEN None ELSE @]
        BY <2>5 DEF Settle
      <4>2. ~(entry[j].cooldownUntil <= now)
        BY <1>1 DEF Later
      <4> HIDE DEF e, g
      <4> QED BY <3>0, <4>1, <4>2
    <3> HIDE DEF e
    <3> QED BY <1>1, <2>1, <3>1, NoneAssumption DEF Kept
  <2>6. CASE o = "neutral"
    <3>1. e.cooldownUntil = entry[j].cooldownUntil
      BY <1>1, <2>6 DEF Settle, Released, EntryType
    <3> HIDE DEF e
    <3> QED BY <1>1, <2>1, <3>1, NoneAssumption DEF Kept
  <2> QED BY <2>2, <2>3, <2>4, <2>5, <2>6 DEF Outcomes
<1> QED BY <1>2, <1>3

\* Without alert checks and with a ladder that rises, no report, restore or
\* restart, however late or out of order, cuts an open cooldown window short:
\* only a recovery or a rejection ends it.
THEOREM WindowsNeverShrink == Checks = {} /\ LadderRises => (Spec => WindowNeverShrinks)
<1> SUFFICES ASSUME Checks = {}, LadderRises PROVE Spec => WindowNeverShrinks
  OBVIOUS
<1> DEFINE AllKept == \A k \in Keys :
             /\ Later(entry[k].cooldownUntil, now)
             /\ ~entry'[k].disabled
             /\ entry'[k].tracker.failures > 0
             => entry'[k].cooldownUntil # None /\ entry'[k].cooldownUntil >= entry[k].cooldownUntil
<1>1. DurableInv /\ [Next]_vars => [AllKept]_vars
  <2> SUFFICES ASSUME DurableInv, [Next]_vars, NEW k \in Keys,
                      Later(entry[k].cooldownUntil, now),
                      ~entry'[k].disabled, entry'[k].tracker.failures > 0
               PROVE  Kept(k)
    BY DEF Kept
  <2>1. /\ TypeOK /\ WindowsOnLadder
        /\ entry[k] \in EntryType /\ entry[k].cooldownUntil \in Nat
    BY DEF DurableInv, TypeOK, EntryType, Time, Later
  <2>2. entry'[k].cooldownUntil = entry[k].cooldownUntil => Kept(k)
    BY <2>1, NoneAssumption DEF Kept
  <2>3. CASE entry' = entry
    BY <2>2, <2>3
  <2>4. CASE Restart
    <3>1. entry[k].tracker.failures # 0
      BY <2>4, RestartEffect DEF InitEntry, InitTracker
    <3>2. entry'[k].cooldownUntil = entry[k].tracker.until
      BY <2>4, <3>1, RestartEffect
    <3>3. entry[k].tracker.until = entry[k].cooldownUntil
      BY <2>1, NoneAssumption DEF WindowsOnLadder, Backed
    <3> QED BY <2>2, <3>2, <3>3
  <2>5. ASSUME NEW a \in Attempts, Acquire(a) PROVE Kept(k)
    <3>1. PICK j \in Keys : entry' = [entry EXCEPT ![j] = LeaseOut(@)]
      BY <2>5 DEF Acquire
    <3> QED BY <2>1, <2>2, <3>1, LeaseOutClocks DEF TypeOK
  <2>6. ASSUME NEW a \in Attempts, NEW o \in Outcomes, Report(a, o) PROVE Kept(k)
    <3>1. held[a].key \in Keys
      BY <2>1, <2>6 DEF Report, TypeOK, Lease
    <3> QED BY <2>6, <3>1, ReportLeaseKeeps DEF Report
  <2>7. ASSUME NEW c \in ApiCalls, NEW o \in Outcomes, ApiReport(c, o) PROVE Kept(k)
    <3>1. using[c] \in Keys
      BY <2>1, <2>7 DEF ApiReport, TypeOK
    <3> QED BY <2>7, <3>1, ReportLeaseKeeps DEF ApiReport
  <2> QED BY <2>3, <2>4, <2>5, <2>6, <2>7
          DEF Next, ExecutorNext, Tick, ApiPick, ApiFail, LoadRows, vars
<1>2. Init => DurableInv
  BY DurableInit
<1>3. DurableInv /\ [Next]_vars => DurableInv'
  BY DurableStep
<1> QED BY <1>1, <1>2, <1>3, PTL DEF Spec, WindowNeverShrinks

-----------------------------------------------------------------------------
(* Fairness of the rotation: every key passed over since a key became usable *)
(* lies behind that key, seen from the cursor.                               *)

\* How far ahead of the cursor key k lies, going round.
Ahead(k) == IF k >= nextIndex THEN k - nextIndex ELSE k + NKeys - nextIndex

\* Only a usable key has been passed over, by keys that were leased out and
\* that the cursor will reach after it.
PassedAreBehind ==
  \A k \in Keys : \A j \in passedOver[k] :
    /\ IsUsable(entry[k], now)
    /\ Ahead(k) < Ahead(j)
    /\ entry[j].nextToken > 0

FairInv ==
  /\ TypeOK
  /\ passedOver \in [Keys -> SUBSET Keys]
  /\ PassedAreBehind

-----------------------------------------------------------------------------
(* Going round *)

\* The remainder of a number below two rounds.
LEMMA Wrap ==
  ASSUME NEW n \in Nat \ {0}, NEW i \in 0..(2 * n - 1)
  PROVE  i % n = (IF i < n THEN i ELSE i - n)
OBVIOUS

\* A key lies where the cursor finds it after that many steps, and nowhere else.
LEMMA SlotAhead ==
  ASSUME TypeOK
  PROVE  /\ \A k \in Keys : Ahead(k) \in 0..(NKeys - 1) /\ Slot(Ahead(k)) = k
         /\ \A o \in 0..(NKeys - 1) : Ahead(Slot(o)) = o
<1>1. NKeys \in Nat \ {0} /\ nextIndex \in 0..(NKeys - 1)
  BY PoolAssumption DEF TypeOK, Keys
<1>2. ASSUME NEW o \in 0..(NKeys - 1)
      PROVE  Slot(o) = IF nextIndex + o < NKeys THEN nextIndex + o ELSE nextIndex + o - NKeys
  <2>1. nextIndex + o \in 0..(2 * NKeys - 1)
    BY <1>1
  <2> DEFINE i == nextIndex + o
  <2> HIDE DEF i
  <2>2. i \in 0..(2 * NKeys - 1)
    BY <2>1 DEF i
  <2>3. i % NKeys = (IF i < NKeys THEN i ELSE i - NKeys)
    BY <1>1, <2>2, Wrap
  <2>4. Slot(o) = i % NKeys
    BY DEF Slot, i
  <2>5. Slot(o) = (IF i < NKeys THEN i ELSE i - NKeys)
    BY <2>3, <2>4, Zenon
  <2> QED BY <1>1, <2>5 DEF i
<1>3. ASSUME NEW k \in Keys PROVE Ahead(k) \in 0..(NKeys - 1) /\ Slot(Ahead(k)) = k
  <2>1. Ahead(k) \in 0..(NKeys - 1)
    BY <1>1 DEF Ahead, Keys
  <2>2. Slot(Ahead(k)) = IF nextIndex + Ahead(k) < NKeys THEN nextIndex + Ahead(k)
                         ELSE nextIndex + Ahead(k) - NKeys
    BY <1>2, <2>1
  <2> QED BY <1>1, <2>1, <2>2 DEF Ahead, Keys
<1>4. ASSUME NEW o \in 0..(NKeys - 1) PROVE Ahead(Slot(o)) = o
  BY <1>1, <1>2 DEF Ahead
<1> QED BY <1>3, <1>4

\* acquire takes the usable key that lies nearest ahead of the cursor.
LEMMA FirstIsNearest ==
  ASSUME TypeOK, NEW at, NEW m \in Keys, IsFirstUsable(m, at),
         NEW k \in Keys, k # m, IsUsable(entry[k], at)
  PROVE  Ahead(m) < Ahead(k)
<1>1. PICK o \in 0..(NKeys - 1) :
        m = Slot(o) /\ \A p \in 0..(o - 1) : ~IsUsable(entry[Slot(p)], at)
  BY DEF IsFirstUsable
<1>2. Ahead(m) = o
  BY <1>1, SlotAhead
<1>3. Ahead(k) \in 0..(NKeys - 1) /\ Slot(Ahead(k)) = k
  BY SlotAhead
<1>4. Ahead(k) # o
  BY <1>1, <1>3
<1>5. ~(Ahead(k) < o)
  BY <1>1, <1>3
<1> QED BY <1>1, <1>2, <1>3, <1>4, <1>5

\* Past key m the cursor has come nearer to the keys beyond it, and m itself
\* is as far ahead as a key can be.
LEMMA AheadAfter ==
  ASSUME TypeOK, NEW m \in Keys, nextIndex' = After(m)
  PROVE  /\ Ahead(m)' = NKeys - 1
         /\ \A k \in Keys : Ahead(m) < Ahead(k) => Ahead(k)' = Ahead(k) - Ahead(m) - 1
<1>1. /\ NKeys \in Nat \ {0} /\ nextIndex \in 0..(NKeys - 1) /\ m \in 0..(NKeys - 1)
      /\ Keys = 0..(NKeys - 1)
  BY PoolAssumption DEF TypeOK, Keys
<1>2. m + 1 \in 0..(2 * NKeys - 1)
  BY <1>1
<1>3. nextIndex' = IF m + 1 < NKeys THEN m + 1 ELSE m + 1 - NKeys
  <2> DEFINE i == m + 1
  <2> HIDE DEF i
  <2>1. i \in 0..(2 * NKeys - 1)
    BY <1>2 DEF i
  <2>2. i % NKeys = (IF i < NKeys THEN i ELSE i - NKeys)
    BY <1>1, <2>1, Wrap
  <2>3. nextIndex' = i % NKeys
    BY DEF After, i
  <2>4. nextIndex' = (IF i < NKeys THEN i ELSE i - NKeys)
    BY <2>2, <2>3, Zenon
  <2> QED BY <1>1, <2>4 DEF i
<1>4. Ahead(m)' = NKeys - 1
  BY <1>1, <1>3 DEF Ahead
<1>5. ASSUME NEW k \in Keys, Ahead(m) < Ahead(k)
      PROVE  Ahead(k)' = Ahead(k) - Ahead(m) - 1
  <2>1. k \in 0..(NKeys - 1)
    BY <1>1
  <2> QED BY <1>1, <1>3, <1>5, <2>1 DEF Ahead
<1> QED BY <1>4, <1>5

-----------------------------------------------------------------------------
(* Who is leased out in a step *)

\* No step other than acquire and a restart issues a token or moves the cursor.
LEMMA TokensFrame ==
  ASSUME TypeOK, Next, ~Restart, \A a \in Attempts : ~Acquire(a)
  PROVE  /\ nextIndex' = nextIndex
         /\ \A k \in Keys : entry'[k].nextToken = entry[k].nextToken
<1>1. ASSUME entry' = entry
      PROVE  \A k \in Keys : entry'[k].nextToken = entry[k].nextToken
  BY <1>1
<1>2. CASE Tick
  BY <1>1, <1>2 DEF Tick
<1>3. ASSUME NEW a \in Attempts, NEW o \in Outcomes, Report(a, o)
      PROVE  /\ nextIndex' = nextIndex
             /\ \A k \in Keys : entry'[k].nextToken = entry[k].nextToken
  <2>1. held[a].key \in Keys
    BY <1>3 DEF Report, TypeOK, Lease
  <2> QED BY <1>3, <2>1, ReportLeaseEffect DEF Report
<1>4. ASSUME NEW c \in ApiCalls, NEW o \in Outcomes, ApiReport(c, o)
      PROVE  /\ nextIndex' = nextIndex
             /\ \A k \in Keys : entry'[k].nextToken = entry[k].nextToken
  <2>1. using[c] \in Keys
    BY <1>4 DEF ApiReport, TypeOK
  <2> QED BY <1>4, <2>1, ReportLeaseEffect DEF ApiReport
<1>5. ASSUME NEW c \in ApiCalls, NEW k \in Keys, ApiPick(c, k)
      PROVE  nextIndex' = nextIndex /\ entry' = entry
  BY <1>5 DEF ApiPick
<1>6. ASSUME NEW c \in ApiCalls, ApiFail(c)
      PROVE  nextIndex' = nextIndex /\ entry' = entry
  BY <1>6 DEF ApiFail
<1>7. ASSUME NEW x \in Checks, LoadRows(x)
      PROVE  nextIndex' = nextIndex /\ entry' = entry
  BY <1>7 DEF LoadRows
<1>8. ASSUME NEW x \in Checks, RestoreRows(x)
      PROVE  /\ nextIndex' = nextIndex
             /\ \A k \in Keys : entry'[k].nextToken = entry[k].nextToken
  BY <1>8, RestoreRowsEffect DEF RestoreRows
<1> QED BY <1>1, <1>2, <1>3, <1>4, <1>5, <1>6, <1>7, <1>8 DEF Next, ExecutorNext

\* acquire leases out one key, the nearest usable one, when the time it is
\* given is the clock.
LEMMA AcquireEffect ==
  ASSUME Budgets = {}, TypeOK, NEW a \in Attempts, Acquire(a)
  PROVE  \E m \in Keys :
           /\ nextIndex' = After(m)
           /\ now' = now
           /\ entry'[m].nextToken > entry[m].nextToken
           /\ \A k \in Keys \ {m} : entry'[k] = entry[k]
           /\ \A k \in Keys \ {m} : IsUsable(entry[k], now) => Ahead(m) < Ahead(k)
<1>1. AcquireTimes = {now}
  BY DEF AcquireTimes
<1>2. PICK m \in Keys :
        /\ IsFirstUsable(m, now)
        /\ entry' = [entry EXCEPT ![m] = LeaseOut(@)]
        /\ nextIndex' = After(m)
        /\ now' = now
  BY <1>1 DEF Acquire
<1>3. entry[m] \in EntryType /\ entry[m].nextToken \in Nat
  BY DEF TypeOK, EntryType
<1>4. entry'[m].nextToken = entry[m].nextToken + 1
  BY <1>2, <1>3, LeaseOutType DEF TypeOK
<1>5. \A k \in Keys \ {m} : entry'[k] = entry[k]
  BY <1>2 DEF TypeOK
<1>6. \A k \in Keys \ {m} : IsUsable(entry[k], now) => Ahead(m) < Ahead(k)
  BY <1>2, FirstIsNearest
<1> QED BY <1>2, <1>3, <1>4, <1>5, <1>6

-----------------------------------------------------------------------------
(* The rotation *)

\* A step that leases nothing out passes over nobody new.
LEMMA FairFrame ==
  ASSUME FairInv, FairNext, nextIndex' = nextIndex,
         \A k \in Keys : entry'[k].nextToken = entry[k].nextToken
  PROVE  PassedAreBehind'
<1>1. \A k \in Keys : entry[k].nextToken \in Nat /\ ~Leased(k)
  BY DEF FairInv, TypeOK, EntryType, Leased
<1>2. \A k \in Keys : passedOver'[k] \subseteq passedOver[k]
  BY <1>1 DEF FairNext
<1>3. \A k \in Keys : passedOver'[k] # {} => IsUsable(entry[k], now)'
  BY DEF FairNext
<1>4. \A k \in Keys : Ahead(k)' = Ahead(k)
  BY DEF Ahead
<1>5. \A k \in Keys : passedOver[k] \subseteq Keys
  BY DEF FairInv
<1> QED BY <1>2, <1>3, <1>4, <1>5 DEF FairInv, PassedAreBehind

\* A restart forgets who was passed over.
LEMMA FairRestart ==
  ASSUME FairInv, FairNext, Restart
  PROVE  PassedAreBehind'
<1>1. \A k \in Keys : entry'[k].nextToken = 0 /\ entry[k].nextToken \in Nat
  <2>1. InitEntry.nextToken = 0
    BY DEF InitEntry
  <2>2. \A k \in Keys : stored[k] \in TrackerType \cup {None} /\ entry[k] \in EntryType
    BY DEF FairInv, TypeOK
  <2> QED BY <2>1, <2>2, InitEntryType, RestoredType DEF Restart, EntryType
<1>2. \A k \in Keys : ~Leased(k)
  BY <1>1 DEF Leased
<1>3. CASE Forgotten
  BY <1>3 DEF FairNext, PassedAreBehind
<1>4. CASE ~Forgotten
  <2>1. \A k \in Keys : entry[k].nextToken = 0
    BY <1>1, <1>4 DEF Forgotten
  <2>2. \A k \in Keys : passedOver[k] = {}
    BY <2>1 DEF FairInv, PassedAreBehind
  <2>3. \A k \in Keys : passedOver'[k] = {}
    BY <1>2, <2>2 DEF FairNext
  <2> QED BY <2>3 DEF PassedAreBehind
<1> QED BY <1>3, <1>4

\* A key leased out falls in behind every key it passed over.
LEMMA FairAcquire ==
  ASSUME Budgets = {}, FairInv, FairNext, NEW a \in Attempts, Acquire(a)
  PROVE  PassedAreBehind'
<1>0. TypeOK /\ PassedAreBehind /\ \A k \in Keys : passedOver[k] \subseteq Keys
  BY DEF FairInv
<1>1. PICK m \in Keys :
        /\ nextIndex' = After(m)
        /\ now' = now
        /\ entry'[m].nextToken > entry[m].nextToken
        /\ \A k \in Keys \ {m} : entry'[k] = entry[k]
        /\ \A k \in Keys \ {m} : IsUsable(entry[k], now) => Ahead(m) < Ahead(k)
  BY <1>0, AcquireEffect
<1>2. \A k \in Keys : entry[k].nextToken \in Nat
  BY <1>0 DEF TypeOK, EntryType
<1>3. Leased(m) /\ \A k \in Keys \ {m} : ~Leased(k)
  BY <1>1, <1>2 DEF Leased
<1>4. ASSUME NEW k \in Keys, NEW j \in passedOver'[k]
      PROVE  /\ IsUsable(entry[k], now)'
             /\ Ahead(k)' < Ahead(j)'
             /\ entry'[j].nextToken > 0
  <2>1. /\ k # m
        /\ IsUsable(entry[k], now)'
        /\ j \in passedOver[k] \cup {m}
    BY <1>3, <1>4 DEF FairNext
  <2>2. IsUsable(entry[k], now) /\ Ahead(m) < Ahead(k)
    BY <1>1, <2>1
  <2>3. /\ Ahead(k) \in 0..(NKeys - 1) /\ Ahead(m) \in 0..(NKeys - 1)
        /\ NKeys \in Nat
    BY <1>0, SlotAhead, PoolAssumption
  <2>4. Ahead(k)' = Ahead(k) - Ahead(m) - 1 /\ Ahead(m)' = NKeys - 1
    BY <1>0, <1>1, <2>2, AheadAfter
  <2>5. CASE j = m
    <3>1. Ahead(j)' = NKeys - 1
      BY <2>4, <2>5
    <3>2. entry'[j].nextToken > 0
      <4>1. entry'[m].nextToken \in Nat
        BY <1>0, TypeStep DEF FairNext, TypeOK, EntryType
      <4> QED BY <1>1, <1>2, <2>5, <4>1
    <3> QED BY <2>1, <2>3, <2>4, <3>1, <3>2
  <2>6. CASE j # m
    <3>1. j \in Keys /\ j \in passedOver[k]
      BY <1>0, <2>1, <2>6
    <3>2. Ahead(k) < Ahead(j) /\ entry[j].nextToken > 0
      BY <1>0, <3>1 DEF PassedAreBehind
    <3>3. Ahead(j) \in 0..(NKeys - 1)
      BY <1>0, <3>1, SlotAhead
    <3>4. Ahead(m) < Ahead(j)
      BY <2>2, <2>3, <3>2, <3>3
    <3>5. Ahead(j)' = Ahead(j) - Ahead(m) - 1
      BY <1>0, <1>1, <3>1, <3>4, AheadAfter
    <3>6. entry'[j] = entry[j]
      BY <1>1, <2>6, <3>1
    <3> QED BY <2>1, <2>3, <2>4, <3>2, <3>3, <3>5, <3>6
  <2> QED BY <2>5, <2>6
<1> QED BY <1>4 DEF PassedAreBehind

\* The invariant of the rotation.
LEMMA FairStep ==
  Budgets = {} /\ FairInv /\ [FairNext]_<<vars, passedOver>> => FairInv'
<1> SUFFICES ASSUME Budgets = {}, FairInv, [FairNext]_<<vars, passedOver>> PROVE FairInv'
  OBVIOUS
<1>1. CASE FairNext
  <2>1. Next
    BY <1>1 DEF FairNext
  <2>2. TypeOK'
    BY <2>1, TypeStep DEF FairInv
  <2>3. passedOver' \in [Keys -> SUBSET Keys]
    BY <1>1 DEF FairInv, FairNext
  <2>4. CASE Restart
    BY <1>1, <2>2, <2>3, <2>4, FairRestart DEF FairInv
  <2>5. CASE \E a \in Attempts : Acquire(a)
    BY <1>1, <2>2, <2>3, <2>5, FairAcquire DEF FairInv
  <2>6. CASE ~Restart /\ \A a \in Attempts : ~Acquire(a)
    <3>1. TypeOK
      BY DEF FairInv
    <3>2. /\ nextIndex' = nextIndex
          /\ \A k \in Keys : entry'[k].nextToken = entry[k].nextToken
      BY <2>1, <2>6, <3>1, TokensFrame
    <3> QED BY <1>1, <2>2, <2>3, <3>2, FairFrame DEF FairInv
  <2> QED BY <2>4, <2>5, <2>6
<1>2. CASE UNCHANGED <<vars, passedOver>>
  BY <1>2 DEF FairInv, TypeOK, PassedAreBehind, Ahead, vars
<1> QED BY <1>1, <1>2

\* As long as acquire is given the clock, the rotation is fair among usable
\* keys for any number of them: no key is handed out twice while another one
\* stays usable and waits, whatever reports, restores, restarts and calls by
\* value happen in between.
THEOREM RotationIsFair == Budgets = {} => (FairSpec => NoKeyTwiceBeforeAnother)
<1> SUFFICES ASSUME Budgets = {} PROVE FairSpec => NoKeyTwiceBeforeAnother
  OBVIOUS
<1> DEFINE Fair == \A j, k \in Keys :
       Leased(j) /\ j # k /\ IsUsable(entry[k], now) => j \notin passedOver[k]
<1>1. FairInit => FairInv
  BY TypeInit DEF FairInit, FairInv, PassedAreBehind
<1>2. FairInv /\ [FairNext]_<<vars, passedOver>> => FairInv'
  BY FairStep
<1>3. FairInv /\ [FairNext]_<<vars, passedOver>> => [Fair]_<<vars, passedOver>>
  <2> SUFFICES ASSUME FairInv, FairNext, NEW j \in Keys, NEW k \in Keys,
                      Leased(j), j # k, IsUsable(entry[k], now), j \in passedOver[k]
               PROVE  FALSE
    OBVIOUS
  <2>0. TypeOK /\ Next /\ Ahead(k) < Ahead(j) /\ entry[j].nextToken \in Nat
    BY DEF FairInv, FairNext, PassedAreBehind, TypeOK, EntryType
  <2>1. CASE Restart
    <3>1. entry'[j].nextToken = 0
      <4>1. InitEntry.nextToken = 0
        BY DEF InitEntry
      <4>2. stored[j] \in TrackerType \cup {None}
        BY <2>0 DEF TypeOK
      <4> QED BY <2>1, <4>1, <4>2, InitEntryType, RestoredType DEF Restart
    <3> QED BY <2>0, <3>1 DEF Leased
  <2>2. CASE \E a \in Attempts : Acquire(a)
    <3>1. PICK m \in Keys :
            /\ \A i \in Keys \ {m} : entry'[i] = entry[i]
            /\ \A i \in Keys \ {m} : IsUsable(entry[i], now) => Ahead(m) < Ahead(i)
      BY <2>0, <2>2, AcquireEffect
    <3>2. j = m
      BY <2>0, <3>1 DEF Leased
    <3>3. Ahead(j) < Ahead(k)
      BY <3>1, <3>2
    <3> QED BY <2>0, <3>3, SlotAhead
  <2>3. CASE ~Restart /\ \A a \in Attempts : ~Acquire(a)
    BY <2>0, <2>3, TokensFrame DEF Leased
  <2> QED BY <2>1, <2>2, <2>3
<1> QED BY <1>1, <1>2, <1>3, PTL DEF FairSpec, NoKeyTwiceBeforeAnother
=============================================================================
