-------------------------- MODULE RequestExecutor --------------------------
(***************************************************************************)
(* RequestExecutor.execute over shared credential pools, a shared proxy    *)
(* pool and shared provider health: the code between two awaits is one     *)
(* action, and calls interleave at every await.  Time passes only while    *)
(* every call waits for a timer or for a provider.                         *)
(*                                                                         *)
(* The pools hand out any usable entry here (CredentialPool has their      *)
(* order, lease tokens and cooldown tiers), pacing is not configured and   *)
(* one operation on one chain is called.  acquireCredential and            *)
(* acquireProxy give the pools what is left of the total timeout where the *)
(* time is meant; everything else goes by the clock.  Bound: MaxTime.      *)
(***************************************************************************)
EXTENDS RetryPolicy, FiniteSets

CONSTANTS
  Calls,             \* concurrent calls of execute
  Candidates,        \* number of routed candidates, in priority order
  Settings,          \* what clients and calls there are, see setting
  TotalTimeout, KeyCooldown, ProxyCooldown, ProviderCooldown,
  Delays,            \* jittered backoff delays
  FailureThreshold,  \* failures until a provider cools down
  Epoch,             \* first reading of the clock, which counts from 1970
  MaxTime,
  None, Direct

VARIABLES
  setting,   \* fixed: [keys, proxies, allowDirect, maxTotalAttempts] of the client, keys[c] being those of
             \* candidate c, [continuations, abortable] the calls with a cursor of the first candidate, with a signal
  now,
  keys,      \* keys[k]: the call that leases k, disabled, end of its cooldown
  proxies,   \* proxies[x]: the call that leases x, end of its cooldown
  health,    \* health[c]: failures, end of the cooldown, the call that set it
  call       \* call[r]: where the call stands and what it holds

vars == <<setting, now, keys, proxies, health, call>>

Providers        == 1..Candidates
Keys             == setting.keys
Proxies          == setting.proxies
MaxTotalAttempts == setting.maxTotalAttempts
Continuations    == setting.continuations
Abortable        == setting.abortable
AllKeys   == UNION {Keys[c] : c \in Providers}
Routes    == Proxies \cup (IF setting.allowDirect THEN {Direct} ELSE {})
Outcomes  == Codes \cup {"success", "timeout", "aborted"}

ASSUME TimeAssumption ==
  /\ {TotalTimeout, KeyCooldown, ProxyCooldown, ProviderCooldown, FailureThreshold} \subseteq Nat \ {0}
  /\ Epoch \in Nat /\ Epoch >= 2 * TotalTimeout
  /\ MaxTime \in Nat /\ MaxTime >= Epoch
  /\ Delays \subseteq Nat
ASSUME SettingAssumption ==
  /\ Candidates \in Nat \ {0}
  /\ \A s \in Settings :
       /\ DOMAIN s.keys = 1..Candidates /\ \A c \in 1..Candidates : s.keys[c] # {}
       /\ \A c, d \in 1..Candidates : c # d => s.keys[c] \cap s.keys[d] = {}
       /\ s.continuations \subseteq Calls /\ s.abortable \subseteq Calls
       /\ s.allowDirect \in BOOLEAN /\ s.maxTotalAttempts \in Nat \ {0}
       /\ Direct \notin s.proxies
       /\ None \notin s.proxies /\ \A c \in 1..Candidates : None \notin s.keys[c]
  /\ None \notin Calls \cup {Direct}

\* Where a call stands at an await other than that of its provider.
Pending == {"ready", "health", "credential", "leased", "proxy", "backoff"}

TypeOK ==
  /\ setting \in Settings
  /\ now \in Epoch..MaxTime
  /\ keys \in [AllKeys -> [holder : Calls \cup {None}, disabled : BOOLEAN, until : Nat]]
  /\ proxies \in [Proxies -> [holder : Calls \cup {None}, until : Nat]]
  /\ health \in [Providers -> [failures : Nat, until : Nat, by : Calls \cup {None}]]
  /\ call \in [Calls -> [pc : {"idle", "calling", "settled"} \cup Pending,
                         at : Providers, attempt : 0..MaxTotalAttempts,
                         key : AllKeys \cup {None}, route : Proxies \cup {Direct, None},
                         deadline : Nat, wake : Nat, outcome : Outcomes \cup {None}]]

Init ==
  /\ setting \in Settings
  /\ now = Epoch
  /\ keys = [k \in AllKeys |-> [holder |-> None, disabled |-> FALSE, until |-> 0]]
  /\ proxies = [x \in Proxies |-> [holder |-> None, until |-> 0]]
  /\ health = [c \in Providers |-> [failures |-> 0, until |-> 0, by |-> None]]
  /\ call = [r \in Calls |-> [pc |-> "idle", at |-> 1, attempt |-> 0, key |-> None, route |-> None,
                              deadline |-> 0, wake |-> 0, outcome |-> None]]

-----------------------------------------------------------------------------
(* Helpers *)

MinOf(a, b)     == IF a < b THEN a ELSE b
MaxOf(a, b)     == IF a < b THEN b ELSE a
Earliest(times) == CHOOSE t \in times : \A u \in times : t <= u

\* The time acquireCredential and acquireProxy give to the pools.
Budget(r) == call[r].deadline - now

\* Mutant: a leased entry is handed out again.
UsableIfLeased(k, at) == ~k.disabled /\ k.until <= at

\* CredentialPool: isUsable, isExhausted, the times nextAvailableAt knows.
Usable(k, at)    == k.holder = None /\ ~k.disabled /\ k.until <= at
UsableIn(c, at)  == {k \in Keys[c] : Usable(keys[k], at)}
Exhausted(c, at) == \A k \in Keys[c] : keys[k].disabled \/ keys[k].until > at
KeyTimes(c, at)  == {keys[k].until : k \in {j \in Keys[c] :
                       keys[j].holder = None /\ ~keys[j].disabled /\ keys[j].until > at}}

\* ProxyPool: the same three, a null lease being the direct route.
Free(ps, at)        == {x \in Proxies : ps[x].holder = None /\ ps[x].until <= at}
                         \cup (IF setting.allowDirect THEN {Direct} ELSE {})
RoutesExhausted(at) == ~setting.allowDirect /\ \A x \in Proxies : proxies[x].until > at
RouteTimes(at)      == {proxies[x].until : x \in {y \in Proxies :
                          proxies[y].holder = None /\ proxies[y].until > at}}

MoreCandidates(r) == r \notin Continuations /\ call[r].at < Candidates
InTime(r)         == call[r].wake <= now /\ now < call[r].deadline

\* Mutant: a neutral outcome does not return the lease.
KeyKeptIfNeutral(k, code) ==
  [k EXCEPT !.holder = IF code \in {"success", "authentication", "rate limited"} THEN None ELSE @]

\* CredentialPool.report of credentialOutcome, ProxyPool.report: only a proxy
\* failure is held against the proxy.
KeyReported(k, code) ==
  CASE code = "authentication" -> [holder |-> None, disabled |-> TRUE, until |-> 0]
    [] code = "rate limited"   -> [k EXCEPT !.holder = None, !.until = now + KeyCooldown]
    [] code = "success"        -> [k EXCEPT !.holder = None, !.until = 0]
    [] OTHER                   -> [k EXCEPT !.holder = None]

ProxyReported(x, code) ==
  [holder |-> None,
   until  |-> IF code = "proxy" THEN now + ProxyCooldown
              ELSE IF code = "success" /\ x.until <= now THEN 0 ELSE x.until]

\* recordProviderSuccess and recordProviderOutcome; of the permanent failures
\* only a plan restriction counts.
HealthRecorded(h, code, restricted, r) ==
  LET limited == code = "rate limited" \/ (code = "permanent" /\ restricted)
  IN  IF code = "success"
      THEN [failures |-> MaxOf(0, h.failures - 1), until |-> 0, by |-> None]
      ELSE IF limited \/ (code = "transient" /\ h.failures + 1 >= FailureThreshold)
      THEN [failures |-> h.failures + 1, until |-> now + ProviderCooldown, by |-> r]
      ELSE [h EXCEPT !.failures = @ + (IF code = "transient" THEN 1 ELSE 0)]

-----------------------------------------------------------------------------
(* Where call r, with the record c, goes next. *)

Goto(r, c) == call' = [call EXCEPT ![r] = c]

\* The locals of a call that ended, or of an attempt that did, are gone.
Settled(c, outcome) == [c EXCEPT !.pc = "settled", !.outcome = outcome, !.key = None, !.route = None]
Attempt(c)          == [c EXCEPT !.pc = "ready", !.key = None, !.route = None]
NextCandidate(c)    == [Attempt(c) EXCEPT !.at = @ + 1]

\* Mutant: the wait is not cut at the deadline.
SleepingOn(c, pc, until) == [c EXCEPT !.pc = pc, !.wake = until]

\* waitWithinBudget
Sleeping(c, pc, until) == [c EXCEPT !.pc = pc, !.wake = MinOf(until, c.deadline)]

\* After a failure: RetryPolicy's decision; a retry waits minDelay at least.
AfterFailure(r, c, code, credential, proxy, minDelay) ==
  LET action == IF now >= c.deadline THEN "stop"
                ELSE Decide(code, c.attempt, MaxTotalAttempts, credential, proxy, MoreCandidates(r))
  IN  \/ action = "stop"     /\ Goto(r, Settled(c, code))
      \/ action = "fallback" /\ Goto(r, NextCandidate(c))
      \/ action = "rotate"   /\ Goto(r, Attempt(c))
      \/ action = "retry"    /\ \E d \in Delays :
           Goto(r, Sleeping(Attempt(c), "backoff", now + MaxOf(d, minDelay)))

-----------------------------------------------------------------------------
Start(r) ==
  /\ call[r].pc = "idle"
  /\ now + TotalTimeout <= MaxTime
  /\ Goto(r, [call[r] EXCEPT !.pc = "ready", !.deadline = now + TotalTimeout])
  /\ UNCHANGED <<setting, now, keys, proxies, health>>

\* The head of the attempt loop: the next candidate instead of one that cools
\* down, or a wait for it; the cooldown this very call caused does not count.
CheckHealth(r) ==
  LET h       == health[call[r].at]
      cooling == h.until > now /\ h.by # r
  IN  /\ call[r].pc \in {"ready", "backoff"}
      /\ InTime(r)
      /\ \/ ~cooling /\ Goto(r, [call[r] EXCEPT !.pc = "credential"])
         \/ cooling /\ MoreCandidates(r) /\ Goto(r, NextCandidate(call[r]))
         \/ cooling /\ ~MoreCandidates(r) /\ Goto(r, Sleeping(call[r], "health", h.until))
      /\ UNCHANGED <<setting, now, keys, proxies, health>>

\* acquireCredential
TakeKey(r) ==
  /\ call[r].pc \in {"health", "credential"}
  /\ InTime(r)
  /\ \E k \in UsableIn(call[r].at, Budget(r)) :
       /\ keys' = [keys EXCEPT ![k].holder = r]
       /\ Goto(r, [call[r] EXCEPT !.pc = "leased", !.key = k])
  /\ UNCHANGED <<setting, now, proxies, health>>

\* No lease.  The last candidate waits for a key that cools down if another
\* is merely leased; otherwise the call leaves for the next candidate, or the
\* pool counts as failed: as rejected if by the clock no key cools down.
LackKey(r) ==
  LET c     == call[r].at
      waits == ~MoreCandidates(r) /\ ~Exhausted(c, Budget(r)) /\ KeyTimes(c, Budget(r)) # {}
      times == KeyTimes(c, now)
      code  == IF times = {} THEN "authentication" ELSE "rate limited"
  IN  /\ call[r].pc \in {"health", "credential"}
      /\ InTime(r)
      /\ UsableIn(c, Budget(r)) = {}
      /\ \/ /\ waits
            /\ Goto(r, Sleeping(call[r], "credential", now + Earliest(KeyTimes(c, Budget(r))) - Budget(r)))
         \/ /\ times # {} /\ MoreCandidates(r)
            /\ Goto(r, NextCandidate(call[r]))
         \/ /\ ~waits
            /\ times = {} \/ ~MoreCandidates(r)
            /\ AfterFailure(r, call[r], code, FALSE, Free(proxies, now) # {},
                            IF times = {} THEN 0 ELSE Earliest(times) - now)
      /\ UNCHANGED <<setting, now, keys, proxies, health>>

\* With a key in hand and only cooling routes a first page goes to the next
\* candidate; the key stays leased.
SkipForRoute(r) == MoreCandidates(r) /\ Free(proxies, now) = {} /\ RouteTimes(now) # {}

LeaveForRoute(r) ==
  /\ call[r].pc = "leased"
  /\ InTime(r)
  /\ SkipForRoute(r)
  /\ Goto(r, NextCandidate(call[r]))
  /\ UNCHANGED <<setting, now, keys, proxies, health>>

AtRoute(r) == InTime(r) /\ (call[r].pc = "proxy" \/ (call[r].pc = "leased" /\ ~SkipForRoute(r)))

\* acquireProxy, the budget, and the call of the adapter.
TakeRoute(r) ==
  /\ AtRoute(r)
  /\ \E x \in Free(proxies, Budget(r)) :
       /\ proxies' = IF x = Direct THEN proxies ELSE [proxies EXCEPT ![x].holder = r]
       /\ Goto(r, [call[r] EXCEPT !.pc = "calling", !.route = x, !.attempt = @ + 1])
  /\ UNCHANGED <<setting, now, keys, health>>

LackRoute(r) ==
  LET k     == call[r].key
      times == RouteTimes(Budget(r))
      waits == times # {} /\ ~RoutesExhausted(Budget(r))
  IN  /\ AtRoute(r)
      /\ Free(proxies, Budget(r)) = {}
      /\ \/ /\ waits
            /\ Goto(r, Sleeping(call[r], "proxy", now + Earliest(times) - Budget(r)))
            /\ UNCHANGED keys
         \/ /\ ~waits
            /\ keys' = [keys EXCEPT ![k] = KeyReported(@, "proxy")]
            /\ AfterFailure(r, call[r], "proxy", \E j \in Keys[call[r].at] : Usable(keys'[j], now), FALSE, 0)
      /\ UNCHANGED <<setting, now, proxies, health>>

\* The adapter settles: leases go back with their outcome, the provider's
\* health is recorded, and the policy decides.  An abort is a caller failure.
Answer(r, code, restricted) ==
  LET c == call[r].at
      k == call[r].key
      x == call[r].route
  IN  /\ call[r].pc = "calling"
      /\ code = "proxy" => x # Direct
      /\ keys' = [keys EXCEPT ![k] = KeyReported(@, code)]
      /\ proxies' = IF x = Direct THEN proxies ELSE [proxies EXCEPT ![x] = ProxyReported(@, code)]
      /\ health' = [health EXCEPT ![c] = HealthRecorded(@, code, restricted, r)]
      /\ IF code = "success" THEN Goto(r, Settled(call[r], "success"))
         ELSE AfterFailure(r, call[r], code, \E j \in Keys[c] : Usable(keys'[j], now),
                           Free(proxies', now) # {}, 0)
      /\ UNCHANGED <<setting, now>>

\* The total deadline, met at an await or after one; whatever the call has
\* leased stays leased.
TimeOut(r) ==
  /\ call[r].pc \in Pending
  /\ call[r].wake <= now /\ now >= call[r].deadline
  /\ Goto(r, Settled(call[r], "timeout"))
  /\ UNCHANGED <<setting, now, keys, proxies, health>>

\* The caller's signal ends a wait, or is found aborted after an await;
\* whatever the call has leased stays leased.
Abort(r) ==
  /\ r \in Abortable
  /\ call[r].pc \in Pending
  /\ Goto(r, Settled(call[r], "aborted"))
  /\ UNCHANGED <<setting, now, keys, proxies, health>>

Tick ==
  /\ now < MaxTime
  /\ \A r \in Calls : call[r].pc \in Pending => call[r].wake > now
  /\ now' = now + 1
  /\ UNCHANGED <<setting, keys, proxies, health, call>>

Proceed(r) ==
  \/ CheckHealth(r)
  \/ TakeKey(r)
  \/ LackKey(r)
  \/ LeaveForRoute(r)
  \/ TakeRoute(r)
  \/ LackRoute(r)
  \/ \E code \in Codes \cup {"success"}, restricted \in BOOLEAN : Answer(r, code, restricted)
  \/ TimeOut(r)

Next ==
  \/ \E r \in Calls : Start(r) \/ Proceed(r) \/ Abort(r)
  \/ Tick

Spec == Init /\ [][Next]_vars

\* The event loop runs every continuation, every adapter call settles (the
\* transport has an attempt timeout) and time passes.
FairSpec == Spec /\ (\A r \in Calls : WF_vars(Proceed(r))) /\ WF_vars(Tick)

-----------------------------------------------------------------------------
(* Properties *)

\* A key and a proxy in use by a call in flight belong to that call alone, and
\* the key is not one that a provider has rejected, whichever calls share the
\* pools.
LeasesInUse ==
  \A r \in Calls : call[r].pc = "calling" =>
    /\ keys[call[r].key].holder = r /\ ~keys[call[r].key].disabled
    /\ call[r].route \in Proxies => proxies[call[r].route].holder = r

\* With a direct route and no signal no lease is lost: whatever is leased is in
\* the hands of the call that leased it.  Without, LeaveForRoute, TimeOut and
\* Abort leave leases behind.
NoLeaseOrphaned ==
  setting.allowDirect /\ Abortable = {} =>
  /\ \A k \in AllKeys : keys[k].holder # None => call[keys[k].holder].key = k
  /\ \A x \in Proxies : proxies[x].holder # None => call[proxies[x].holder].route = x

\* FR-003: a first-page call that still has attempts and time gives up for a
\* provider's failure only at the last candidate.
GivesUpAtLastCandidate ==
  [][\A r \in Calls \ Continuations :
       /\ call[r].pc # "settled"
       /\ call'[r].pc = "settled"
       /\ call'[r].outcome \in Codes \ {"caller"}
       /\ call'[r].attempt < MaxTotalAttempts
       /\ now < call[r].deadline
       => call[r].at = Candidates]_vars

\* Every call settles: no pool wait, backoff or rotation goes on forever.
Settles == \A r \in Calls : (call[r].pc = "ready") ~> (call[r].pc = "settled")

\* A call is refused for want of a credential only while no key of the pool is
\* free and past its cooldown: a rate limit costs a key a bounded time.
CooledKeysAreUsed ==
  [][\A r \in Calls :
       /\ call[r].pc \in {"health", "credential"}
       /\ call'[r].outcome \in {"authentication", "rate limited"}
       => UsableIn(call[r].at, now) = {}]_vars

\* Only rejected credentials are out of use for good: once every call has
\* settled, no other is still leased.
OnlyRejectedKeysAreLost ==
  (\A r \in Calls : call[r].pc = "settled") => \A k \in AllKeys : keys[k].disabled \/ keys[k].holder = None
=============================================================================
