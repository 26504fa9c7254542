--------------------------- MODULE CredentialPool ---------------------------
(***************************************************************************)
(* One CredentialPool of a client, with everyone who touches it: executor  *)
(* attempts that lease a key and report the lease, ApiChainService calls   *)
(* that peek at a key and report it by value, and alert checks that reload *)
(* the persisted cooldowns.  Every await of the code is a point where      *)
(* another actor may run, so each actor's use of a key is two actions.     *)
(***************************************************************************)
EXTENDS CredentialEntry

CONSTANTS
  NKeys,        \* number of configured keys
  Attempts,     \* executor attempts that may be in flight together
  ApiCalls,     \* ApiChainService calls that may be in flight together
  Checks,       \* checkAndReportAlerts calls that may be in flight together
  Epoch,        \* first reading of the clock, which counts from 1970
  Budgets,      \* remaining budgets that callers pass to acquire as the time
  MaxTime,      \* bound: last tick of the clock
  MaxLeases,    \* bound: leases one key hands out between two restarts
  MaxFailures   \* bound: consecutive rate limits recorded on one key

ASSUME PoolAssumption ==
  /\ NKeys \in Nat \ {0}
  /\ {Epoch, MaxTime, MaxLeases, MaxFailures} \subseteq Nat
  /\ Budgets \subseteq 1..(Epoch - 1)

Keys  == 0..(NKeys - 1)
Lease == [key : Keys, token : Nat]

ASSUME LeaseAssumption == None \notin Lease

VARIABLES
  now,        \* the clock
  entry,      \* entry[k]: the pool's entry of key k
  nextIndex,  \* where the next acquire starts looking
  held,       \* held[a]: the lease attempt a holds, or None
  using,      \* using[c]: the key ApiChainService call c is using, or None
  stored,     \* stored[k]: the row of k in sdk_cooldown_states, or None
  loaded,     \* loaded[x]: the rows check x has read and not yet applied
  rejected    \* history: keys somebody reported as authentication_failed

vars == <<now, entry, nextIndex, held, using, stored, loaded, rejected>>

TypeOK ==
  /\ now \in Nat
  /\ entry \in [Keys -> EntryType]
  /\ nextIndex \in Keys
  /\ held \in [Attempts -> Lease \cup {None}]
  /\ using \in [ApiCalls -> Keys \cup {None}]
  /\ stored \in [Keys -> TrackerType \cup {None}]
  /\ loaded \in [Checks -> [Keys -> TrackerType \cup {None}] \cup {None}]
  /\ rejected \subseteq Keys

Init ==
  /\ now = Epoch
  /\ entry = [k \in Keys |-> InitEntry]
  /\ nextIndex = 0
  /\ held = [a \in Attempts |-> None]
  /\ using = [c \in ApiCalls |-> None]
  /\ stored = [k \in Keys |-> None]
  /\ loaded = [x \in Checks |-> None]
  /\ rejected = {}

-----------------------------------------------------------------------------
(* acquire *)

Slot(o) == (nextIndex + o) % NKeys

\* Mutant: the scan always starts at the first key.
IsFirstUsableFromZero(k, at) ==
  /\ IsUsable(entry[k], at)
  /\ \A j \in 0..(k - 1) : ~IsUsable(entry[j], at)

\* k is the first key usable at the time given, at or after nextIndex, going
\* round.
IsFirstUsable(k, at) ==
  /\ IsUsable(entry[k], at)
  /\ \E o \in 0..(NKeys - 1) :
       /\ k = Slot(o)
       /\ \A p \in 0..(o - 1) : ~IsUsable(entry[Slot(p)], at)

\* Mutant: the cursor is not wrapped.
AfterUnwrapped(k) == k + 1

After(k) == (k + 1) % NKeys

\* The time defaults to the clock.  RequestExecutor, which should pass the
\* clock, passes what is left of its total timeout.
AcquireTimes == {now} \cup Budgets

Acquire(a) ==
  /\ held[a] = None
  /\ \E at \in AcquireTimes, k \in Keys :
       /\ IsFirstUsable(k, at)
       /\ entry[k].nextToken < MaxLeases
       /\ entry' = [entry EXCEPT ![k] = LeaseOut(@)]
       /\ held' = [held EXCEPT ![a] = [key |-> k, token |-> entry[k].nextToken + 1]]
       /\ nextIndex' = After(k)
  /\ UNCHANGED <<now, using, stored, loaded, rejected>>

\* nextAvailableAt, over the entries that are cooling and neither disabled
\* nor leased.
EarlierClock(e) ==
  IF e.cooldownUntil # None /\ e.tracker.until # None
  THEN IF e.cooldownUntil < e.tracker.until THEN e.cooldownUntil ELSE e.tracker.until
  ELSE IF e.cooldownUntil # None THEN e.cooldownUntil ELSE e.tracker.until

NextAvailableAt ==
  LET waiting == {k \in Keys : /\ ~entry[k].disabled
                               /\ ~entry[k].leased
                               /\ IsKeyCoolingDown(entry[k], now)}
      wakes   == {EarlierClock(entry[k]) : k \in waiting}
  IN  IF wakes = {} THEN None ELSE CHOOSE t \in wakes : \A u \in wakes : t <= u

-----------------------------------------------------------------------------
(* report, reportByValue and onCooldownChange *)

\* Mutant: a recovery does not delete the row.
PersistedWithoutDelete(k, outcome) ==
  IF outcome = "rate_limited" THEN RecordFailure(entry[k].tracker, now) ELSE stored[k]

\* The row onCooldownChange leaves behind: saved on a rate limit, deleted by
\* a success, untouched by every other outcome.
Persisted(k, outcome) ==
  CASE outcome = "rate_limited" -> RecordFailure(entry[k].tracker, now)
    [] outcome = "success" -> None
    [] OTHER -> stored[k]

\* report(lease of k with token, outcome); token = None for reportByValue.
ReportLease(k, token, outcome) ==
  /\ outcome = "rate_limited" => entry[k].tracker.failures < MaxFailures
  /\ IF Accepts(entry[k], token)
     THEN /\ entry' = [entry EXCEPT ![k] = Settle(@, outcome, now)]
          /\ stored' = [stored EXCEPT ![k] = Persisted(k, outcome)]
     ELSE UNCHANGED <<entry, stored>>

\* The attempt's adapter call ended: RequestExecutor reports its lease.
Report(a, outcome) ==
  /\ held[a] # None
  /\ ReportLease(held[a].key, held[a].token, outcome)
  /\ held' = [held EXCEPT ![a] = None]
  /\ rejected' = IF outcome = "authentication_failed"
                 THEN rejected \cup {held[a].key} ELSE rejected
  /\ UNCHANGED <<now, nextIndex, using, loaded>>

\* ApiChainService walks the configured keys and skips the cooling ones; it
\* takes no lease.  Any key that is not cooling may be next: the walk reaches
\* it by failing on those before it, and a failure may report nothing.
ApiPick(c, k) ==
  /\ using[c] = None
  /\ ~IsKeyCoolingDown(entry[k], now)
  /\ using' = [using EXCEPT ![c] = k]
  /\ UNCHANGED <<now, entry, nextIndex, held, stored, loaded, rejected>>

\* withCandidateContext reports success, a rejected key and a rate limit ...
ApiReport(c, outcome) ==
  /\ using[c] # None
  /\ outcome \in {"success", "authentication_failed", "rate_limited"}
  /\ ReportLease(using[c], None, outcome)
  /\ using' = [using EXCEPT ![c] = None]
  /\ rejected' = IF outcome = "authentication_failed"
                 THEN rejected \cup {using[c]} ELSE rejected
  /\ UNCHANGED <<now, nextIndex, held, loaded>>

\* ... and nothing for any other failure.
ApiFail(c) ==
  /\ using[c] # None
  /\ using' = [using EXCEPT ![c] = None]
  /\ UNCHANGED <<now, entry, nextIndex, held, stored, loaded, rejected>>

-----------------------------------------------------------------------------
(* Persistence: restorePersistedCooldowns and a process restart *)

Restored(e, row) == IF row = None THEN e ELSE RestoreCooldownState(e, row)

\* checkAndReportAlerts: await cooldownStore.loadAll() ...
LoadRows(x) ==
  /\ loaded[x] = None
  /\ loaded' = [loaded EXCEPT ![x] = stored]
  /\ UNCHANGED <<now, entry, nextIndex, held, using, stored, rejected>>

\* ... and then restoreCooldownState for every row that was read.
RestoreRows(x) ==
  /\ loaded[x] # None
  /\ entry' = [k \in Keys |-> Restored(entry[k], loaded[x][k])]
  /\ loaded' = [loaded EXCEPT ![x] = None]
  /\ UNCHANGED <<now, nextIndex, held, using, stored, rejected>>

\* The process dies and comes back; initialize() restores before first use.
Restart ==
  /\ entry' = [k \in Keys |-> Restored(InitEntry, stored[k])]
  /\ nextIndex' = 0
  /\ held' = [a \in Attempts |-> None]
  /\ using' = [c \in ApiCalls |-> None]
  /\ loaded' = [x \in Checks |-> None]
  /\ rejected' = {}
  /\ UNCHANGED <<now, stored>>

Tick ==
  /\ now < MaxTime
  /\ now' = now + 1
  /\ UNCHANGED <<entry, nextIndex, held, using, stored, loaded, rejected>>

-----------------------------------------------------------------------------
\* The pool without reports by value.
ExecutorNext ==
  \/ Tick
  \/ Restart
  \/ \E a \in Attempts : Acquire(a) \/ \E o \in Outcomes : Report(a, o)
  \/ \E x \in Checks : LoadRows(x) \/ RestoreRows(x)

ExecutorSpec == Init /\ [][ExecutorNext]_vars

Next ==
  \/ ExecutorNext
  \/ \E c \in ApiCalls :
       \/ \E k \in Keys : ApiPick(c, k)
       \/ \E o \in Outcomes : ApiReport(c, o)
       \/ ApiFail(c)

Spec == Init /\ [][Next]_vars

-----------------------------------------------------------------------------
(* Properties *)

Current(a) == held[a] # None /\ entry[held[a].key].activeToken = held[a].token

\* The lease ledger balances whoever reports by value in between: an entry is
\* leased exactly while some attempt holds its active token, no token is in
\* two hands, and none was invented.  An entry leased without a holder would
\* be lost to the pool for good.
LeaseLedger ==
  /\ \A k \in Keys :
       /\ entry[k].leased <=> entry[k].activeToken # None
       /\ entry[k].leased => \E a \in Attempts : Current(a) /\ held[a].key = k
  /\ \A a \in Attempts : held[a] # None =>
       /\ held[a].token <= entry[held[a].key].nextToken
       /\ \A b \in Attempts \ {a} : held[b] # held[a]

\* "never duplicates an active lease": two attempts never work with one key.
LeaseExclusive ==
  \A a, b \in Attempts :
    a # b /\ held[a] # None /\ held[b] # None => held[a].key # held[b].key

\* Only a report by value takes a lease away from its holder: the late report
\* of an older lease of the same key changes nothing.
LeaseNotRevoked ==
  [][\A a \in Attempts :
       Current(a) /\ held'[a] = held[a] /\ using' = using => Current(a)']_vars

\* A key that an attempt or a call reported as rejected stays disabled for the lifetime of
\* the client, whatever is reported afterwards.
RejectedStaysDisabled == \A k \in rejected : entry[k].disabled

\* Memory and disk agree on every key that has failed since its last success,
\* so a restart resumes the ladder where it was.
StoredMatchesMemory ==
  \A k \in Keys :
    stored[k] = IF entry[k].tracker.failures = 0 THEN None ELSE entry[k].tracker

\* The retry of a RATE_LIMITED pool sleeps until nextAvailableAt (retryAfterMs
\* of poolUnavailableFailure): the instant lies ahead (no spinning) and some key is usable
\* at it (no wait in vain), although nextAvailableAt takes the earlier of an
\* entry's two clocks and isUsable waits for the later.
WakeIsUseful ==
  NextAvailableAt # None =>
    /\ NextAvailableAt > now
    /\ \E k \in Keys : IsUsable(entry[k], NextAvailableAt)

\* A step other than a recovery, a rejection or a restart never shortens a
\* cooldown window that is still open (ADR-035: a key in cooldown is excluded
\* for its whole window), whatever late reports arrive.
WindowNeverShrinks ==
  [][\A k \in Keys :
       /\ Later(entry[k].cooldownUntil, now)
       /\ ~entry'[k].disabled
       /\ entry'[k].tracker.failures > 0
       => entry'[k].cooldownUntil # None /\ entry'[k].cooldownUntil >= entry[k].cooldownUntil]_vars

=============================================================================
