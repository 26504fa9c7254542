----------------------- MODULE RequestExecutorProofs -----------------------
(***************************************************************************)
(* Theorems about RequestExecutor for any number of calls, candidates,     *)
(* keys and proxies, and any timeouts, cooldowns and delays.               *)
(***************************************************************************)
EXTENDS RequestExecutor, NaturalsInduction, WellFoundedInduction, TLAPS

-----------------------------------------------------------------------------
(* The inductive invariant *)

\* Where a call holds a key.
WithKey == {"leased", "proxy", "calling"}

\* A call whose record is c names a key exactly while it has leased it, and a
\* key that it has leased has not been rejected; the same for its route.
HoldsItsLease(r, c) ==
  /\ c.pc \in WithKey => c.key \in AllKeys /\ keys[c.key].holder = r /\ ~keys[c.key].disabled
  /\ c.pc \notin WithKey => c.key = None
  /\ c.pc = "calling" => c.route \in Routes /\ (c.route # Direct => proxies[c.route].holder = r)
  /\ c.pc # "calling" => c.route = None

\* A call that goes on has an attempt left.
HasAttemptLeft(c) == c.pc \notin {"calling", "settled"} => c.attempt < MaxTotalAttempts

\* With a direct route and no signal a call that has leased a key finds a
\* route at once: it never waits for one, and time does not pass it by.
Unhindered == setting.allowDirect /\ Abortable = {}
GoesOnAtOnce(c) == c.pc # "proxy" /\ (c.pc = "leased" => c.wake <= now /\ now < c.deadline)

ExecInv ==
  /\ TypeOK
  /\ \A r \in Calls : HoldsItsLease(r, call[r]) /\ HasAttemptLeft(call[r])
  /\ Unhindered => \A r \in Calls : GoesOnAtOnce(call[r])
  /\ NoLeaseOrphaned

-----------------------------------------------------------------------------
(* The operators the executor is built from *)

\* The record of a call.
CallType == [pc : {"idle", "calling", "settled"} \cup Pending,
             at : Providers, attempt : 0..MaxTotalAttempts,
             key : AllKeys \cup {None}, route : Proxies \cup {Direct, None},
             deadline : Nat, wake : Nat, outcome : Outcomes \cup {None}]

KeyType    == [holder : Calls \cup {None}, disabled : BOOLEAN, until : Nat]
ProxyType  == [holder : Calls \cup {None}, until : Nat]
HealthType == [failures : Nat, until : Nat, by : Calls \cup {None}]

\* The invariant's types, by the names the lemmas use.
LEMMA Types ==
  TypeOK <=> /\ setting \in Settings /\ now \in Epoch..MaxTime
             /\ keys \in [AllKeys -> KeyType] /\ proxies \in [Proxies -> ProxyType]
             /\ health \in [Providers -> HealthType] /\ call \in [Calls -> CallType]
BY DEF TypeOK, CallType, KeyType, ProxyType, HealthType

\* A set of times that is not empty has an earliest one.
LEMMA EarliestIsOne ==
  ASSUME NEW times \in SUBSET Nat, times # {}
  PROVE  Earliest(times) \in times
<1>1. PICK t \in times : \A u \in times : ~ (<<u, t>> \in OpToRel(<, Nat))
  BY NatLessThanWellFounded, WFMin, Zenon
<1>2. \A u \in times : ~ (u < t)
  BY <1>1, Zenon DEF OpToRel
<1>3. \A u \in times : t <= u
  BY <1>2
<1> QED BY <1>3, Zenon DEF Earliest

\* What the policy may decide, and that it stops a first page with attempts
\* left, other than for the caller's own failure, only without another provider.
LEMMA DecideIsAction ==
  ASSUME NEW code \in Codes, NEW attempt \in Nat, NEW most \in Nat,
         NEW credential \in BOOLEAN, NEW proxy \in BOOLEAN, NEW provider \in BOOLEAN,
         NEW action, action = Decide(code, attempt, most, credential, proxy, provider)
  PROVE  /\ action \in Actions
         /\ action # "stop" => attempt < most
         /\ action = "fallback" => provider
         /\ action = "stop" => attempt >= most \/ code = "caller" \/ ~provider
<1>1. CASE attempt >= most \/ code = "caller"
  <2>1. action = "stop"
    BY <1>1, Zenon DEF Decide, BudgetExhausted
  <2> QED BY <1>1, <2>1 DEF Actions
<1>2. CASE ~(attempt >= most) /\ code # "caller"
  <2>1. attempt < most
    BY <1>2
  <2>2. /\ code = "permanent"      => action = FallbackIf(provider)
        /\ code = "authentication" => action = IF credential THEN "rotate" ELSE FallbackIf(provider)
        /\ code = "proxy"          => action = IF proxy THEN "rotate" ELSE FallbackIf(provider)
    BY <1>2, Zenon DEF Decide, BudgetExhausted
  <2>3. code \in {"rate limited", "transient"} =>
          action = IF code = "rate limited" /\ credential THEN "rotate"
                   ELSE IF provider /\ attempt + 1 >= most THEN "fallback" ELSE "retry"
    BY <1>2, Zenon DEF Decide, BudgetExhausted
  <2> QED BY <1>2, <2>1, <2>2, <2>3 DEF Codes, Actions, FallbackIf
<1> QED BY <1>1, <1>2

\* The facts about the settings that the proofs use.
LEMMA SettingFacts ==
  ASSUME setting \in Settings
  PROVE  /\ MaxTotalAttempts \in Nat \ {0}
         /\ None \notin AllKeys /\ None \notin Proxies /\ Direct \notin Proxies /\ Direct # None
         /\ None \notin Calls /\ Candidates \in Nat \ {0}
         /\ \A c \in Providers : Keys[c] \subseteq AllKeys
BY SettingAssumption DEF MaxTotalAttempts, AllKeys, Keys, Proxies, Providers

-----------------------------------------------------------------------------
(* Where a call goes, as records *)

\* A settled call keeps no key and no route.
LEMMA SettledRecord ==
  ASSUME NEW c \in CallType, NEW o \in Outcomes
  PROVE  /\ Settled(c, o) \in CallType
         /\ Settled(c, o).pc = "settled" /\ Settled(c, o).outcome = o
         /\ Settled(c, o).attempt = c.attempt
         /\ Settled(c, o).key = None /\ Settled(c, o).route = None
BY DEF Settled, CallType

\* The next attempt of a call starts with neither.
LEMMA AttemptRecord ==
  ASSUME NEW c \in CallType
  PROVE  /\ Attempt(c) \in CallType
         /\ Attempt(c).pc = "ready" /\ Attempt(c).attempt = c.attempt /\ Attempt(c).at = c.at
         /\ Attempt(c).key = None /\ Attempt(c).route = None
BY DEF Attempt, CallType, Pending

\* The next candidate too, one further down the list.
LEMMA NextCandidateRecord ==
  ASSUME NEW c \in CallType, Candidates \in Nat, c.at < Candidates
  PROVE  /\ NextCandidate(c) \in CallType
         /\ NextCandidate(c).pc = "ready" /\ NextCandidate(c).attempt = c.attempt
         /\ NextCandidate(c).key = None /\ NextCandidate(c).route = None
<1> DEFINE a == Attempt(c)
<1>1. a \in CallType /\ a.pc = "ready" /\ a.attempt = c.attempt /\ a.key = None /\ a.route = None
  BY AttemptRecord
<1>2. a.at + 1 \in Providers
  <2>1. a.at = c.at /\ c.at \in Providers
    BY AttemptRecord DEF CallType
  <2> QED BY <2>1 DEF Providers
<1>3. NextCandidate(c) = [a EXCEPT !.at = a.at + 1]
  BY DEF NextCandidate
<1> HIDE DEF a
<1> QED BY <1>1, <1>2, <1>3 DEF CallType

\* A sleeping call keeps what it has.
LEMMA SleepingRecord ==
  ASSUME NEW c \in CallType, NEW pc \in Pending, NEW until \in Nat
  PROVE  /\ Sleeping(c, pc, until) \in CallType
         /\ Sleeping(c, pc, until).pc = pc /\ Sleeping(c, pc, until).attempt = c.attempt
         /\ Sleeping(c, pc, until).key = c.key /\ Sleeping(c, pc, until).route = c.route
BY DEF Sleeping, CallType, MinOf

-----------------------------------------------------------------------------
(* What a failure does to its call *)

\* The call that failed settles with the failure or goes on without its lease:
\* with an attempt left, to a candidate there is.
LEMMA AfterFailureMoves ==
  ASSUME TypeOK, NEW r \in Calls, NEW code \in Codes, NEW credential \in BOOLEAN,
         NEW proxy \in BOOLEAN, NEW minDelay \in Nat,
         AfterFailure(r, call[r], code, credential, proxy, minDelay)
  PROVE  \E d \in CallType :
           /\ call' = [call EXCEPT ![r] = d]
           /\ d.pc \in {"settled", "ready", "backoff"} /\ d.key = None /\ d.route = None
           /\ d.attempt = call[r].attempt
           /\ d.pc # "settled" => d.attempt < MaxTotalAttempts
           /\ d.pc = "settled" => d.outcome = code
           /\ d.pc = "settled" /\ code # "caller" /\ d.attempt < MaxTotalAttempts
              /\ now < call[r].deadline => ~MoreCandidates(r)
<1> DEFINE c == call[r]
           decided == Decide(code, c.attempt, MaxTotalAttempts, credential, proxy, MoreCandidates(r))
           action == IF now >= c.deadline THEN "stop" ELSE decided
<1>1. /\ c \in CallType /\ c.attempt \in Nat /\ c.deadline \in Nat /\ now \in Nat
      /\ MaxTotalAttempts \in Nat /\ Candidates \in Nat
  BY Types, SettingFacts, TimeAssumption DEF CallType
<1>2. MoreCandidates(r) \in BOOLEAN
  BY DEF MoreCandidates
<1>3. /\ decided \in Actions
      /\ decided # "stop" => c.attempt < MaxTotalAttempts
      /\ decided = "fallback" => MoreCandidates(r)
      /\ decided = "stop" => c.attempt >= MaxTotalAttempts \/ code = "caller" \/ ~MoreCandidates(r)
  <2> HIDE DEF c
  <2> QED BY <1>1, <1>2, DecideIsAction
<1>4. \/ action = "stop"     /\ Goto(r, Settled(c, code))
      \/ action = "fallback" /\ Goto(r, NextCandidate(c))
      \/ action = "rotate"   /\ Goto(r, Attempt(c))
      \/ action = "retry"    /\ \E d \in Delays :
           Goto(r, Sleeping(Attempt(c), "backoff", now + MaxOf(d, minDelay)))
  BY Zenon DEF AfterFailure
<1>5. code \in Outcomes
  BY DEF Outcomes
<1> HIDE DEF decided
<1>6. CASE action = "stop" /\ Goto(r, Settled(c, code))
  <2>1. code # "caller" /\ c.attempt < MaxTotalAttempts /\ now < c.deadline => ~MoreCandidates(r)
    BY <1>1, <1>3, <1>6
  <2> QED BY <1>1, <1>5, <1>6, <2>1, SettledRecord DEF Goto
<1>7. CASE action = "fallback" /\ Goto(r, NextCandidate(c))
  <2>1. c.attempt < MaxTotalAttempts /\ c.at < Candidates
    BY <1>3, <1>7 DEF MoreCandidates
  <2> QED BY <1>1, <1>7, <2>1, NextCandidateRecord DEF Goto
<1>8. CASE action = "rotate" /\ Goto(r, Attempt(c))
  <2>1. c.attempt < MaxTotalAttempts
    BY <1>3, <1>8
  <2> QED BY <1>1, <1>8, <2>1, AttemptRecord DEF Goto
<1>9. CASE action = "retry" /\ \E d \in Delays :
             Goto(r, Sleeping(Attempt(c), "backoff", now + MaxOf(d, minDelay)))
  <2>1. c.attempt < MaxTotalAttempts
    BY <1>3, <1>9
  <2>2. PICK e \in Delays : Goto(r, Sleeping(Attempt(c), "backoff", now + MaxOf(e, minDelay)))
    BY <1>9
  <2>3. now + MaxOf(e, minDelay) \in Nat /\ "backoff" \in Pending
    BY <1>1, TimeAssumption DEF MaxOf, Pending
  <2> DEFINE d == Sleeping(Attempt(c), "backoff", now + MaxOf(e, minDelay))
  <2>4. Attempt(c) \in CallType /\ Attempt(c).attempt = c.attempt
        /\ Attempt(c).key = None /\ Attempt(c).route = None
    BY <1>1, AttemptRecord
  <2>5. d \in CallType /\ d.pc = "backoff" /\ d.attempt = c.attempt /\ d.key = None /\ d.route = None
    BY <2>3, <2>4, SleepingRecord
  <2>6. call' = [call EXCEPT ![r] = d]
    BY <2>2 DEF Goto
  <2> HIDE DEF d
  <2> QED BY <2>1, <2>5, <2>6
<1> HIDE DEF c, action
<1> QED BY <1>4, <1>6, <1>7, <1>8, <1>9

-----------------------------------------------------------------------------
(* Type correctness and the leases *)

\* The clock and the settings stay, and the tables stay tables.
TablesKept ==
  /\ setting' = setting /\ now' = now
  /\ keys' \in [AllKeys -> KeyType] /\ proxies' \in [Proxies -> ProxyType]
  /\ health' \in [Providers -> HealthType]

\* A step of a call takes and gives back leases of its own only.
OthersKeepTheirs(r) ==
  /\ \A k \in AllKeys : /\ keys[k].holder \notin {r, None} => keys'[k] = keys[k]
                        /\ keys'[k].holder \in {keys[k].holder, r, None}
  /\ \A x \in Proxies : /\ proxies[x].holder \notin {r, None} => proxies'[x] = proxies[x]
                        /\ proxies'[x].holder \in {proxies[x].holder, r, None}

\* The record d names everything that r has leased.
NamesItsLeases(r, d) ==
  /\ \A k \in AllKeys : keys[k].holder = r => d.key = k
  /\ \A x \in Proxies : proxies[x].holder = r => d.route = x

\* One call moves to d.
Moves(r, d) ==
  /\ TablesKept
  /\ OthersKeepTheirs(r)
  /\ call' = [call EXCEPT ![r] = d]
  /\ HoldsItsLease(r, d)' /\ HasAttemptLeft(d)
  /\ Unhindered => NamesItsLeases(r, d)' /\ GoesOnAtOnce(d)

\* Everything derived from the settings is as fixed as they are.
LEMMA SettingFixed ==
  ASSUME setting' = setting
  PROVE  /\ AllKeys' = AllKeys /\ Proxies' = Proxies /\ Routes' = Routes
         /\ MaxTotalAttempts' = MaxTotalAttempts /\ Abortable' = Abortable
         /\ KeyType' = KeyType /\ ProxyType' = ProxyType /\ CallType' = CallType
         /\ \A c \in Providers : Keys[c]' = Keys[c]
BY DEF AllKeys, Keys, Proxies, Routes, MaxTotalAttempts, Abortable, CallType, KeyType, ProxyType

\* Without hindrance every call names what it has leased.
LEMMA NamesLeases ==
  ASSUME ExecInv, Unhindered, NEW r \in Calls
  PROVE  NamesItsLeases(r, call[r])
BY SettingFacts DEF ExecInv, NoLeaseOrphaned, NamesItsLeases, Unhindered, TypeOK

\* A call that moves keeps the invariant.
LEMMA MoveKeepsInv ==
  ASSUME ExecInv, NEW r \in Calls, NEW d \in CallType, Moves(r, d)
  PROVE  ExecInv'
<1>1. setting \in Settings /\ call \in [Calls -> CallType] /\ None \notin Calls
  BY Types, SettingFacts DEF ExecInv
<1>2. TypeOK'
  <2>1. call' \in [Calls -> CallType]
    BY <1>1 DEF Moves
  <2>2. now' \in Epoch..MaxTime
    BY Types DEF ExecInv, TablesKept, Moves
  <2> QED BY <1>1, <2>1, <2>2, SettingFixed
          DEF Moves, TablesKept, TypeOK, CallType, KeyType, ProxyType, HealthType
<1>3. ASSUME NEW s \in Calls PROVE (HoldsItsLease(s, call[s]) /\ HasAttemptLeft(call[s]))'
  <2>1. CASE s = r
    <3>1. call'[s] = d
      BY <1>1, <2>1 DEF Moves
    <3> QED BY <2>1, <3>1, SettingFixed DEF Moves, TablesKept, HoldsItsLease, HasAttemptLeft
  <2>2. CASE s # r
    <3>1. call'[s] = call[s] /\ HoldsItsLease(s, call[s]) /\ HasAttemptLeft(call[s])
      BY <1>1, <2>2 DEF ExecInv, Moves
    <3>2. call[s].pc \in WithKey => keys'[call[s].key] = keys[call[s].key]
      BY <1>1, <2>2, <3>1 DEF HoldsItsLease, OthersKeepTheirs, Moves
    <3>3. call[s].pc = "calling" /\ call[s].route # Direct => proxies'[call[s].route] = proxies[call[s].route]
      BY <1>1, <2>2, <3>1 DEF HoldsItsLease, OthersKeepTheirs, Routes, Moves
    <3> QED BY <3>1, <3>2, <3>3, SettingFixed DEF HoldsItsLease, HasAttemptLeft, TablesKept, Moves
  <2> QED BY <2>1, <2>2
<1>4. Unhindered' = Unhindered
  BY SettingFixed DEF Unhindered, Moves, TablesKept
<1>5. ASSUME Unhindered, NEW s \in Calls PROVE GoesOnAtOnce(call[s])'
  <2>1. call'[s] = IF s = r THEN d ELSE call[s]
    BY <1>1 DEF Moves
  <2>2. GoesOnAtOnce(d) /\ GoesOnAtOnce(call[s]) /\ now' = now
    BY <1>5 DEF ExecInv, Moves, TablesKept
  <2> QED BY <2>1, <2>2 DEF GoesOnAtOnce
<1>6. NoLeaseOrphaned'
  <2> SUFFICES ASSUME Unhindered
               PROVE  /\ \A k \in AllKeys : keys'[k].holder # None => call'[keys'[k].holder].key = k
                      /\ \A x \in Proxies : proxies'[x].holder # None => call'[proxies'[x].holder].route = x
    BY <1>4, SettingFixed DEF NoLeaseOrphaned, Unhindered, Moves, TablesKept
  <2>1. ASSUME NEW k \in AllKeys, keys'[k].holder # None PROVE call'[keys'[k].holder].key = k
    <3> DEFINE s == keys'[k].holder
    <3>1. s \in Calls
      BY <2>1 DEF Moves, TablesKept, KeyType
    <3>2. CASE s = r
      BY <1>1, <3>2, SettingFixed DEF Moves, NamesItsLeases, TablesKept
    <3>3. CASE s # r
      <4>1. keys[k].holder = s
        BY <2>1, <3>3 DEF Moves, OthersKeepTheirs
      <4> QED BY <1>1, <3>1, <3>3, <4>1 DEF ExecInv, NoLeaseOrphaned, Unhindered, Moves
    <3> QED BY <3>2, <3>3
  <2>2. ASSUME NEW x \in Proxies, proxies'[x].holder # None PROVE call'[proxies'[x].holder].route = x
    <3> DEFINE s == proxies'[x].holder
    <3>1. s \in Calls
      BY <2>2 DEF Moves, TablesKept, ProxyType
    <3>2. CASE s = r
      BY <1>1, <3>2, SettingFixed DEF Moves, NamesItsLeases, TablesKept
    <3>3. CASE s # r
      <4>1. proxies[x].holder = s
        BY <2>2, <3>3 DEF Moves, OthersKeepTheirs
      <4> QED BY <1>1, <3>1, <3>3, <4>1 DEF ExecInv, NoLeaseOrphaned, Unhindered, Moves
    <3> QED BY <3>2, <3>3
  <2> QED BY <2>1, <2>2
<1> QED BY <1>2, <1>3, <1>4, <1>5, <1>6 DEF ExecInv

\* A call that has leased nothing and leases nothing.
LEMMA MovesWithoutLease ==
  ASSUME ExecInv, NEW r \in Calls, NEW d \in CallType,
         UNCHANGED <<setting, now, keys, proxies, health>>, call' = [call EXCEPT ![r] = d],
         call[r].pc \notin WithKey \/ ~Unhindered,
         d.pc \notin WithKey, d.key = None, d.route = None, HasAttemptLeft(d)
  PROVE  ExecInv'
<1>1. TablesKept /\ OthersKeepTheirs(r)
  BY Types DEF ExecInv, TablesKept, OthersKeepTheirs
<1>2. HoldsItsLease(r, d)'
  BY DEF HoldsItsLease, WithKey
<1>3. GoesOnAtOnce(d)
  BY DEF GoesOnAtOnce, WithKey
<1>4. Unhindered => NamesItsLeases(r, d)'
  <2> SUFFICES ASSUME Unhindered PROVE NamesItsLeases(r, d)'
    OBVIOUS
  <2>1. NamesItsLeases(r, call[r]) /\ call[r].key = None /\ call[r].route = None
    BY NamesLeases DEF ExecInv, HoldsItsLease, WithKey
  <2> QED BY <2>1, SettingFixed DEF NamesItsLeases
<1> QED BY <1>1, <1>2, <1>3, <1>4, MoveKeepsInv DEF Moves

\* What the invariant says of one call, as its steps use it.
LEMMA CallFacts ==
  ASSUME ExecInv, NEW r \in Calls
  PROVE  /\ setting \in Settings /\ call \in [Calls -> CallType] /\ call[r] \in CallType
         /\ now \in Nat /\ Candidates \in Nat /\ MaxTotalAttempts \in Nat \ {0}
         /\ call[r].attempt \in Nat /\ call[r].deadline \in Nat /\ call[r].wake \in Nat
         /\ call[r].at \in Providers
         /\ HoldsItsLease(r, call[r]) /\ HasAttemptLeft(call[r])
         /\ Unhindered => GoesOnAtOnce(call[r])
BY Types, SettingFacts, TimeAssumption DEF ExecInv, CallType

\* A call begins.
LEMMA StartKeeps ==
  ASSUME ExecInv, NEW r \in Calls, Start(r)
  PROVE  ExecInv'
<1> DEFINE d == [call[r] EXCEPT !.pc = "ready", !.deadline = now + TotalTimeout]
<1>1. call[r].pc = "idle" /\ call[r].key = None /\ call[r].route = None /\ call[r].attempt < MaxTotalAttempts
  BY CallFacts DEF Start, HoldsItsLease, HasAttemptLeft, WithKey
<1>2. now + TotalTimeout \in Nat
  BY CallFacts, TimeAssumption
<1>3. /\ d \in CallType /\ d.pc = "ready" /\ d.key = None /\ d.route = None
      /\ d.attempt = call[r].attempt
  BY <1>1, <1>2, CallFacts DEF CallType, Pending
<1>4. call' = [call EXCEPT ![r] = d] /\ UNCHANGED <<setting, now, keys, proxies, health>>
  BY DEF Start, Goto
<1> HIDE DEF d
<1> QED BY <1>1, <1>3, <1>4, MovesWithoutLease DEF WithKey, HasAttemptLeft

\* The candidate's circuit is asked.
LEMMA CheckHealthKeeps ==
  ASSUME ExecInv, NEW r \in Calls, CheckHealth(r)
  PROVE  ExecInv'
<1> DEFINE h == health[call[r].at]
           c == call[r]
<1>1. /\ c \in CallType /\ c.pc \in {"ready", "backoff"} /\ c.pc \notin WithKey
      /\ c.key = None /\ c.route = None /\ c.attempt < MaxTotalAttempts
  BY CallFacts DEF CheckHealth, HoldsItsLease, HasAttemptLeft, WithKey
<1>2. UNCHANGED <<setting, now, keys, proxies, health>>
  BY DEF CheckHealth
<1>3. h.until \in Nat
  BY CallFacts, Types DEF ExecInv, HealthType
<1>4. CASE Goto(r, [c EXCEPT !.pc = "credential"])
  <2> DEFINE d == [c EXCEPT !.pc = "credential"]
  <2>1. /\ d \in CallType /\ d.pc = "credential" /\ d.key = None /\ d.route = None
        /\ d.attempt = c.attempt
    BY <1>1 DEF CallType, Pending
  <2>2. call' = [call EXCEPT ![r] = d]
    BY <1>4 DEF Goto
  <2> HIDE DEF d
  <2> QED BY <1>1, <1>2, <2>1, <2>2, MovesWithoutLease DEF WithKey, HasAttemptLeft
<1>5. CASE MoreCandidates(r) /\ Goto(r, NextCandidate(c))
  <2>1. c.at < Candidates
    BY <1>5 DEF MoreCandidates
  <2> DEFINE d == NextCandidate(c)
  <2>2. /\ d \in CallType /\ d.pc = "ready" /\ d.key = None /\ d.route = None
        /\ d.attempt = c.attempt
    BY <1>1, <2>1, CallFacts, NextCandidateRecord
  <2>3. call' = [call EXCEPT ![r] = d]
    BY <1>5 DEF Goto
  <2> HIDE DEF d
  <2> QED BY <1>1, <1>2, <2>2, <2>3, MovesWithoutLease DEF WithKey, HasAttemptLeft
<1>6. CASE Goto(r, Sleeping(c, "health", h.until))
  <2>1. "health" \in Pending
    BY DEF Pending
  <2> DEFINE d == Sleeping(c, "health", h.until)
  <2>2. /\ d \in CallType /\ d.pc = "health" /\ d.key = None /\ d.route = None
        /\ d.attempt = c.attempt
    BY <1>1, <1>3, <2>1, SleepingRecord
  <2>3. call' = [call EXCEPT ![r] = d]
    BY <1>6 DEF Goto
  <2> HIDE DEF d
  <2> QED BY <1>1, <1>2, <2>2, <2>3, MovesWithoutLease DEF WithKey, HasAttemptLeft
<1> QED BY <1>4, <1>5, <1>6 DEF CheckHealth

\* A key is leased to the call.
LEMMA TakeKeyKeeps ==
  ASSUME ExecInv, NEW r \in Calls, TakeKey(r)
  PROVE  ExecInv'
<1> DEFINE c == call[r]
<1>1. PICK k \in UsableIn(c.at, Budget(r)) :
        /\ keys' = [keys EXCEPT ![k].holder = r]
        /\ Goto(r, [c EXCEPT !.pc = "leased", !.key = k])
  BY DEF TakeKey
<1>2. /\ c \in CallType /\ c.pc \notin WithKey /\ c.pc \notin {"calling", "settled"}
      /\ c.key = None /\ c.route = None /\ c.attempt < MaxTotalAttempts
  BY CallFacts DEF TakeKey, HoldsItsLease, HasAttemptLeft, WithKey
<1>3. k \in AllKeys /\ keys[k].holder = None /\ keys[k].disabled = FALSE
  <2>1. keys \in [AllKeys -> KeyType]
    BY Types DEF ExecInv
  <2>2. k \in Keys[c.at] /\ Usable(keys[k], Budget(r))
    BY <1>1 DEF UsableIn
  <2>3. k \in AllKeys
    BY <2>2, CallFacts, SettingFacts
  <2> QED BY <2>1, <2>2, <2>3 DEF Usable, KeyType
<1>4. PICK d \in CallType :
        /\ call' = [call EXCEPT ![r] = d]
        /\ d.pc = "leased" /\ d.key = k /\ d.route = None
        /\ d.attempt = c.attempt /\ d.wake = c.wake /\ d.deadline = c.deadline
  <2> DEFINE e == [c EXCEPT !.pc = "leased", !.key = k]
  <2>1. call' = [call EXCEPT ![r] = e]
    BY <1>1 DEF Goto
  <2> HIDE DEF c
  <2>2. /\ e \in CallType /\ e.pc = "leased" /\ e.key = k /\ e.route = None
        /\ e.attempt = c.attempt /\ e.wake = c.wake /\ e.deadline = c.deadline
    BY <1>2, <1>3 DEF CallType, Pending
  <2> QED BY <2>1, <2>2
<1>5. /\ keys' \in [AllKeys -> KeyType]
      /\ \A j \in AllKeys : keys'[j] = IF j = k THEN [keys[k] EXCEPT !.holder = r] ELSE keys[j]
      /\ keys'[k].holder = r /\ keys'[k].disabled = FALSE
  <2>1. keys \in [AllKeys -> KeyType]
    BY Types DEF ExecInv
  <2> QED BY <1>1, <1>3, <2>1 DEF KeyType
<1>6. setting' = setting /\ now' = now /\ proxies' = proxies /\ health' = health
  BY DEF TakeKey
<1>7. InTime(r)
  BY DEF TakeKey
<1>8. TablesKept /\ OthersKeepTheirs(r)
  BY <1>3, <1>5, <1>6, Types DEF TablesKept, OthersKeepTheirs, ExecInv
<1>9. HoldsItsLease(r, d)'
  BY <1>3, <1>4, <1>5, <1>6, SettingFixed DEF HoldsItsLease, WithKey
<1>10. GoesOnAtOnce(d) /\ HasAttemptLeft(d)
  BY <1>2, <1>4, <1>7 DEF GoesOnAtOnce, HasAttemptLeft, InTime
<1>11. Unhindered => NamesItsLeases(r, d)'
  <2> SUFFICES ASSUME Unhindered PROVE NamesItsLeases(r, d)'
    OBVIOUS
  <2>1. NamesItsLeases(r, c) /\ None \notin AllKeys /\ None \notin Proxies
    BY NamesLeases, CallFacts, SettingFacts
  <2> QED BY <1>2, <1>4, <1>5, <1>6, <2>1, SettingFixed DEF NamesItsLeases
<1> QED BY <1>4, <1>6, <1>8, <1>9, <1>10, <1>11, MoveKeepsInv DEF Moves

\* The keys that cool down do so until some later time.
LEMMA KeyTimesAreLater ==
  ASSUME ExecInv, NEW c \in Providers, NEW at \in Int
  PROVE  KeyTimes(c, at) \in SUBSET Nat /\ \A t \in KeyTimes(c, at) : t > at
<1>1. keys \in [AllKeys -> KeyType] /\ Keys[c] \subseteq AllKeys
  BY Types, SettingFacts DEF ExecInv
<1> QED BY <1>1 DEF KeyTimes, KeyType

\* No key is free: the call waits, fails or goes on.
LEMMA LackKeyKeeps ==
  ASSUME ExecInv, NEW r \in Calls, LackKey(r)
  PROVE  ExecInv'
<1> DEFINE c     == call[r]
           later == KeyTimes(c.at, Budget(r))
           times == KeyTimes(c.at, now)
           code  == IF times = {} THEN "authentication" ELSE "rate limited"
           delay == IF times = {} THEN 0 ELSE Earliest(times) - now
<1>1. /\ c \in CallType /\ c.pc \notin WithKey /\ c.pc \notin {"calling", "settled"}
      /\ c.key = None /\ c.route = None /\ c.attempt < MaxTotalAttempts
  BY CallFacts DEF LackKey, HoldsItsLease, HasAttemptLeft, WithKey
<1>2. UNCHANGED <<setting, now, keys, proxies, health>>
  BY DEF LackKey
<1>3. Budget(r) \in Int /\ now \in Nat
  BY CallFacts DEF Budget
<1>4. CASE later # {} /\ Goto(r, Sleeping(c, "credential", now + Earliest(later) - Budget(r)))
  <2>1. "credential" \in Pending
    BY DEF Pending
  <2>2. now + Earliest(later) - Budget(r) \in Nat
    <3>1. Earliest(later) \in Nat /\ Earliest(later) > Budget(r)
      BY <1>3, <1>4, CallFacts, KeyTimesAreLater, EarliestIsOne
    <3> QED BY <1>3, <3>1
  <2> DEFINE d == Sleeping(c, "credential", now + Earliest(later) - Budget(r))
  <2>3. /\ d \in CallType /\ d.pc = "credential" /\ d.key = None /\ d.route = None
        /\ d.attempt = c.attempt
    BY <1>1, <2>1, <2>2, SleepingRecord
  <2>4. call' = [call EXCEPT ![r] = d]
    BY <1>4 DEF Goto
  <2> HIDE DEF d
  <2> QED BY <1>1, <1>2, <2>3, <2>4, MovesWithoutLease DEF WithKey, HasAttemptLeft
<1>5. CASE MoreCandidates(r) /\ Goto(r, NextCandidate(c))
  <2>1. c.at < Candidates
    BY <1>5 DEF MoreCandidates
  <2> DEFINE d == NextCandidate(c)
  <2>2. /\ d \in CallType /\ d.pc = "ready" /\ d.key = None /\ d.route = None
        /\ d.attempt = c.attempt
    BY <1>1, <2>1, CallFacts, NextCandidateRecord
  <2>3. call' = [call EXCEPT ![r] = d]
    BY <1>5 DEF Goto
  <2> HIDE DEF d
  <2> QED BY <1>1, <1>2, <2>2, <2>3, MovesWithoutLease DEF WithKey, HasAttemptLeft
<1>6. CASE AfterFailure(r, c, code, FALSE, Free(proxies, now) # {}, delay)
  <2>1. code \in Codes
    BY DEF Codes
  <2>2. delay \in Nat
    <3>1. times # {} => Earliest(times) \in Nat /\ Earliest(times) > now
      BY <1>3, CallFacts, KeyTimesAreLater, EarliestIsOne
    <3> QED BY <1>3, <3>1
  <2> HIDE DEF code, delay, times
  <2>3. PICK d \in CallType :
          /\ call' = [call EXCEPT ![r] = d]
          /\ d.pc \in {"settled", "ready", "backoff"} /\ d.key = None /\ d.route = None
          /\ d.pc # "settled" => d.attempt < MaxTotalAttempts
    BY <1>6, <2>1, <2>2, AfterFailureMoves DEF ExecInv
  <2> QED BY <1>1, <1>2, <2>3, MovesWithoutLease DEF WithKey, HasAttemptLeft
<1> QED BY <1>4, <1>5, <1>6, Zenon DEF LackKey

\* The reports of an outcome release the entry; the health record stays one.
LEMMA ReportTypes ==
  ASSUME now \in Nat, NEW code \in Codes \cup {"success"}
  PROVE  /\ \A e \in KeyType : KeyReported(e, code) \in KeyType /\ KeyReported(e, code).holder = None
         /\ \A x \in ProxyType : ProxyReported(x, code) \in ProxyType /\ ProxyReported(x, code).holder = None
<1>1. now + KeyCooldown \in Nat /\ now + ProxyCooldown \in Nat
  BY TimeAssumption
<1>2. ASSUME NEW e \in KeyType
      PROVE  KeyReported(e, code) \in KeyType /\ KeyReported(e, code).holder = None
  <2>1. CASE code = "authentication"
    BY <2>1 DEF KeyReported, KeyType
  <2>2. CASE code = "rate limited"
    <3>1. KeyReported(e, code) = [e EXCEPT !.holder = None, !.until = now + KeyCooldown]
      BY <2>2 DEF KeyReported
    <3> QED BY <1>1, <3>1 DEF KeyType
  <2>3. CASE code = "success"
    BY <2>3 DEF KeyReported, KeyType
  <2>4. CASE code \notin {"authentication", "rate limited", "success"}
    BY <2>4 DEF KeyReported, KeyType
  <2> QED BY <2>1, <2>2, <2>3, <2>4
<1>3. ASSUME NEW x \in ProxyType
      PROVE  ProxyReported(x, code) \in ProxyType /\ ProxyReported(x, code).holder = None
  BY <1>1 DEF ProxyReported, ProxyType
<1> QED BY <1>2, <1>3

\* Recording an answer keeps a circuit's type.
LEMMA HealthRecordedType ==
  ASSUME now \in Nat, NEW h \in HealthType, NEW code \in Codes \cup {"success"},
         NEW restricted \in BOOLEAN, NEW r \in Calls
  PROVE  HealthRecorded(h, code, restricted, r) \in HealthType
<1> DEFINE less == MaxOf(0, h.failures - 1)
           same == h.failures + (IF code = "transient" THEN 1 ELSE 0)
           more == h.failures + 1
           wait == now + ProviderCooldown
<1>1. less \in Nat /\ same \in Nat /\ more \in Nat /\ wait \in Nat
  BY TimeAssumption DEF HealthType, MaxOf
<1>2. HealthRecorded(h, code, restricted, r) \in
        {[failures |-> less, until |-> 0, by |-> None], [failures |-> more, until |-> wait, by |-> r],
         [h EXCEPT !.failures = same]}
  BY Zenon DEF HealthRecorded
<1> HIDE DEF less, same, more, wait
<1> QED BY <1>1, <1>2 DEF HealthType

\* A key that leaves a call's hands, with its report.
LEMMA KeyGivenBack ==
  ASSUME ExecInv, NEW r \in Calls, call[r].pc \in WithKey, NEW code \in Codes \cup {"success"},
         keys' = [keys EXCEPT ![call[r].key] = KeyReported(@, code)]
  PROVE  /\ keys' \in [AllKeys -> KeyType]
         /\ \A k \in AllKeys : /\ keys[k].holder \notin {r, None} => keys'[k] = keys[k]
                               /\ keys'[k].holder \in {keys[k].holder, None}
                               /\ k = call[r].key => keys'[k].holder = None
<1>1. keys \in [AllKeys -> KeyType] /\ now \in Nat
  BY Types, CallFacts DEF ExecInv
<1>2. call[r].key \in AllKeys /\ keys[call[r].key].holder = r
  BY CallFacts DEF HoldsItsLease
<1>3. /\ KeyReported(keys[call[r].key], code) \in KeyType
      /\ KeyReported(keys[call[r].key], code).holder = None
  BY <1>1, <1>2, ReportTypes
<1> QED BY <1>1, <1>2, <1>3

\* With its key leased, the call looks for a route.
LEMMA LeaveForRouteKeeps ==
  ASSUME ExecInv, NEW r \in Calls, LeaveForRoute(r)
  PROVE  ExecInv'
<1> DEFINE c == call[r]
<1>1. /\ c \in CallType /\ c.pc = "leased" /\ c.route = None /\ c.attempt < MaxTotalAttempts
  BY CallFacts DEF LeaveForRoute, HoldsItsLease, HasAttemptLeft, WithKey
<1>2. ~Unhindered
  BY DEF LeaveForRoute, SkipForRoute, Free, Unhindered
<1>3. c.at < Candidates
  BY DEF LeaveForRoute, SkipForRoute, MoreCandidates
<1> DEFINE d == NextCandidate(c)
<1>4. /\ d \in CallType /\ d.pc = "ready" /\ d.key = None /\ d.route = None
      /\ d.attempt = c.attempt
  BY <1>1, <1>3, CallFacts, NextCandidateRecord
<1>5. call' = [call EXCEPT ![r] = d] /\ UNCHANGED <<setting, now, keys, proxies, health>>
  BY DEF LeaveForRoute, Goto
<1> HIDE DEF d
<1> QED BY <1>1, <1>2, <1>4, <1>5, MovesWithoutLease DEF WithKey, HasAttemptLeft

\* A proxy is leased to the call.
LEMMA TakeRouteKeeps ==
  ASSUME ExecInv, NEW r \in Calls, TakeRoute(r)
  PROVE  ExecInv'
<1> DEFINE c == call[r]
<1>1. PICK x \in Free(proxies, Budget(r)) :
        /\ proxies' = IF x = Direct THEN proxies ELSE [proxies EXCEPT ![x].holder = r]
        /\ Goto(r, [c EXCEPT !.pc = "calling", !.route = x, !.attempt = @ + 1])
  BY DEF TakeRoute
<1>2. /\ c \in CallType /\ c.pc \in {"leased", "proxy"} /\ c.attempt < MaxTotalAttempts
      /\ c.attempt \in Nat /\ MaxTotalAttempts \in Nat
      /\ c.key \in AllKeys /\ keys[c.key].holder = r /\ ~keys[c.key].disabled /\ c.route = None
  BY CallFacts DEF TakeRoute, AtRoute, HoldsItsLease, HasAttemptLeft, WithKey
<1>3. /\ x \in Routes /\ (x # Direct => x \in Proxies /\ proxies[x].holder = None)
      /\ proxies \in [Proxies -> ProxyType]
  BY <1>1, Types DEF Free, Routes, ExecInv
<1>4. PICK d \in CallType :
        /\ call' = [call EXCEPT ![r] = d]
        /\ d.pc = "calling" /\ d.key = c.key /\ d.route = x
  <2> DEFINE n == c.attempt + 1
             e == [c EXCEPT !.pc = "calling", !.route = x, !.attempt = n]
  <2>1. call' = [call EXCEPT ![r] = e]
    BY <1>1 DEF Goto
  <2>2. n \in 0..MaxTotalAttempts
    BY <1>2
  <2>3. x \in Proxies \cup {Direct, None}
    BY <1>3
  <2> HIDE DEF c, n
  <2>4. e \in CallType /\ e.pc = "calling" /\ e.key = c.key /\ e.route = x
    BY <1>2, <2>2, <2>3 DEF CallType
  <2> QED BY <2>1, <2>4 DEF n
<1>5. /\ proxies' \in [Proxies -> ProxyType]
      /\ \A y \in Proxies : y # x => proxies'[y] = proxies[y]
      /\ x # Direct => proxies'[x].holder = r
  <2>1. CASE x = Direct
    BY <1>1, <1>3, <2>1
  <2>2. CASE x # Direct
    BY <1>1, <1>3, <2>2 DEF ProxyType
  <2> QED BY <2>1, <2>2
<1>6. setting' = setting /\ now' = now /\ keys' = keys /\ health' = health
  BY DEF TakeRoute
<1>7. TablesKept /\ OthersKeepTheirs(r)
  <2>1. keys \in [AllKeys -> KeyType] /\ health \in [Providers -> HealthType]
    BY Types DEF ExecInv
  <2>2. Direct \notin Proxies
    BY CallFacts, SettingFacts
  <2> QED BY <1>3, <1>5, <1>6, <2>1, <2>2 DEF TablesKept, OthersKeepTheirs
<1>8. HoldsItsLease(r, d)'
  BY <1>2, <1>3, <1>4, <1>5, <1>6, SettingFixed DEF HoldsItsLease, WithKey
<1>9. GoesOnAtOnce(d) /\ HasAttemptLeft(d)
  BY <1>4 DEF GoesOnAtOnce, HasAttemptLeft
<1>10. Unhindered => NamesItsLeases(r, d)'
  <2> SUFFICES ASSUME Unhindered PROVE NamesItsLeases(r, d)'
    OBVIOUS
  <2>1. NamesItsLeases(r, c) /\ None \notin AllKeys /\ None \notin Proxies
    BY NamesLeases, CallFacts, SettingFacts
  <2> QED BY <1>2, <1>4, <1>5, <1>6, <2>1, SettingFixed DEF NamesItsLeases
<1> QED BY <1>4, <1>7, <1>8, <1>9, <1>10, MoveKeepsInv DEF Moves

\* A call gives everything it has leased back and moves on without.
LEMMA MovesGivingBack ==
  ASSUME ExecInv, NEW r \in Calls, NEW d \in CallType, NEW code \in Codes \cup {"success"},
         call[r].pc \in WithKey, call' = [call EXCEPT ![r] = d],
         setting' = setting, now' = now, health' \in [Providers -> HealthType],
         keys' = [keys EXCEPT ![call[r].key] = KeyReported(@, code)],
         proxies' \in [Proxies -> ProxyType],
         \A x \in Proxies : /\ x # call[r].route => proxies'[x] = proxies[x]
                            /\ x = call[r].route => proxies'[x].holder = None,
         d.pc \notin WithKey, d.key = None, d.route = None, HasAttemptLeft(d)
  PROVE  ExecInv'
<1>1. HoldsItsLease(r, call[r]) /\ None \notin Proxies /\ Direct \notin Proxies /\ Direct # None
  BY CallFacts, SettingFacts
<1>2. TablesKept /\ OthersKeepTheirs(r)
  <2>1. \A x \in Proxies : x = call[r].route => proxies[x].holder = r
    BY <1>1 DEF HoldsItsLease
  <2> QED BY <2>1, KeyGivenBack DEF TablesKept, OthersKeepTheirs
<1>3. HoldsItsLease(r, d)'
  BY DEF HoldsItsLease, WithKey
<1>4. GoesOnAtOnce(d)
  BY DEF GoesOnAtOnce, WithKey
<1>5. Unhindered => NamesItsLeases(r, d)'
  <2> SUFFICES ASSUME Unhindered PROVE NamesItsLeases(r, d)'
    OBVIOUS
  <2>1. NamesItsLeases(r, call[r]) /\ None # r
    BY NamesLeases, CallFacts, SettingFacts
  <2>2. \A k \in AllKeys : keys'[k].holder # r
    BY <2>1, KeyGivenBack DEF NamesItsLeases
  <2>3. \A x \in Proxies : proxies'[x].holder # r
    BY <2>1 DEF NamesItsLeases
  <2> QED BY <2>2, <2>3, SettingFixed DEF NamesItsLeases
<1> QED BY <1>2, <1>3, <1>4, <1>5, MoveKeepsInv DEF Moves

\* No proxy is free: the call waits, or the key goes back.
LEMMA LackRouteKeeps ==
  ASSUME ExecInv, NEW r \in Calls, LackRoute(r)
  PROVE  ExecInv'
<1> DEFINE c     == call[r]
           times == RouteTimes(Budget(r))
<1>1. /\ c \in CallType /\ c.pc \in {"leased", "proxy"} /\ c.pc \in WithKey
      /\ c.attempt < MaxTotalAttempts /\ c.route = None /\ HoldsItsLease(r, c)
  BY CallFacts DEF LackRoute, AtRoute, HoldsItsLease, HasAttemptLeft, WithKey
<1>2. ~Unhindered
  BY DEF LackRoute, Free, Unhindered
<1>3. UNCHANGED <<setting, now, proxies, health>>
  BY DEF LackRoute
<1>4. CASE /\ times # {} /\ UNCHANGED keys
           /\ Goto(r, Sleeping(c, "proxy", now + Earliest(times) - Budget(r)))
  <2> DEFINE until == now + Earliest(times) - Budget(r)
  <2>1. "proxy" \in Pending
    BY DEF Pending
  <2>2. until \in Nat
    <3>1. Budget(r) \in Int /\ now \in Nat
      BY CallFacts DEF Budget
    <3>2. times \in SUBSET Nat /\ \A t \in times : t > Budget(r)
      BY <3>1, Types DEF RouteTimes, ExecInv, ProxyType
    <3>3. Earliest(times) \in Nat /\ Earliest(times) > Budget(r)
      BY <1>4, <3>2, EarliestIsOne
    <3> QED BY <3>1, <3>3
  <2>3. PICK d \in CallType :
          /\ call' = [call EXCEPT ![r] = d]
          /\ d.pc = "proxy" /\ d.key = c.key /\ d.route = None /\ d.attempt = c.attempt
    <3> DEFINE e == Sleeping(c, "proxy", until)
    <3>1. call' = [call EXCEPT ![r] = e]
      BY <1>4 DEF Goto
    <3> HIDE DEF until
    <3>2. e \in CallType /\ e.pc = "proxy" /\ e.key = c.key /\ e.route = None /\ e.attempt = c.attempt
      BY <1>1, <2>1, <2>2, SleepingRecord
    <3> QED BY <3>1, <3>2
  <2>4. TablesKept /\ OthersKeepTheirs(r)
    BY <1>3, <1>4, Types DEF ExecInv, TablesKept, OthersKeepTheirs
  <2>5. HoldsItsLease(r, d)' /\ HasAttemptLeft(d)
    BY <1>1, <1>3, <1>4, <2>3, SettingFixed DEF HoldsItsLease, HasAttemptLeft, WithKey
  <2> QED BY <1>2, <2>3, <2>4, <2>5, MoveKeepsInv DEF Moves
<1>5. ASSUME keys' = [keys EXCEPT ![c.key] = KeyReported(@, "proxy")],
             NEW credential \in BOOLEAN, NEW proxy \in BOOLEAN, NEW delay \in Nat,
             AfterFailure(r, c, "proxy", credential, proxy, delay)
      PROVE  ExecInv'
  <2>1. "proxy" \in Codes /\ TypeOK
    BY DEF Codes, ExecInv
  <2>2. PICK d \in CallType :
          /\ call' = [call EXCEPT ![r] = d]
          /\ d.pc \in {"settled", "ready", "backoff"} /\ d.key = None /\ d.route = None
          /\ d.pc # "settled" => d.attempt < MaxTotalAttempts
    BY <1>5, <2>1, AfterFailureMoves
  <2>3. /\ d.pc \notin WithKey /\ HasAttemptLeft(d)
        /\ proxies' \in [Proxies -> ProxyType] /\ health' \in [Providers -> HealthType]
    BY <1>3, <2>2, Types DEF WithKey, HasAttemptLeft, ExecInv
  <2>4. None \notin Proxies
    BY CallFacts, SettingFacts
  <2> QED BY <1>1, <1>3, <1>5, <2>1, <2>2, <2>3, <2>4, MovesGivingBack
<1>6. \/ /\ times # {} /\ UNCHANGED keys
         /\ Goto(r, Sleeping(c, "proxy", now + Earliest(times) - Budget(r)))
      \/ /\ keys' = [keys EXCEPT ![c.key] = KeyReported(@, "proxy")]
         /\ AfterFailure(r, c, "proxy", \E j \in Keys[c.at] : Usable(keys'[j], now), FALSE, 0)
  BY Zenon DEF LackRoute
<1>7. (\E j \in Keys[c.at] : Usable(keys'[j], now)) \in BOOLEAN /\ FALSE \in BOOLEAN /\ 0 \in Nat
  OBVIOUS
<1> QED BY <1>4, <1>5, <1>6, <1>7

\* An answer is reported, and both leases end.
LEMMA AnswerKeeps ==
  ASSUME ExecInv, NEW r \in Calls, NEW code \in Codes \cup {"success"}, NEW restricted \in BOOLEAN,
         Answer(r, code, restricted)
  PROVE  ExecInv'
<1> DEFINE c == call[r]
<1>1. /\ c \in CallType /\ c.pc = "calling" /\ c.pc \in WithKey /\ HoldsItsLease(r, c)
      /\ c.route \in Routes /\ c.at \in Providers /\ now \in Nat
  BY CallFacts DEF Answer, HoldsItsLease, WithKey
<1>2. /\ setting' = setting /\ now' = now
      /\ keys' = [keys EXCEPT ![c.key] = KeyReported(@, code)]
      /\ proxies' = IF c.route = Direct THEN proxies ELSE [proxies EXCEPT ![c.route] = ProxyReported(@, code)]
      /\ health' = [health EXCEPT ![c.at] = HealthRecorded(@, code, restricted, r)]
  BY DEF Answer
<1>3. health' \in [Providers -> HealthType]
  <2>1. health \in [Providers -> HealthType]
    BY Types DEF ExecInv
  <2>2. HealthRecorded(health[c.at], code, restricted, r) \in HealthType
    BY <1>1, <2>1, HealthRecordedType
  <2> QED BY <1>2, <2>1, <2>2
<1>4. /\ proxies' \in [Proxies -> ProxyType]
      /\ \A x \in Proxies : /\ x # c.route => proxies'[x] = proxies[x]
                            /\ x = c.route => proxies'[x].holder = None
  <2>1. proxies \in [Proxies -> ProxyType] /\ Direct \notin Proxies
    BY Types, CallFacts, SettingFacts DEF ExecInv
  <2>2. CASE c.route = Direct
    BY <1>2, <2>1, <2>2
  <2>3. CASE c.route # Direct
    <3>1. c.route \in Proxies
      BY <1>1, <2>3 DEF Routes
    <3>2. /\ ProxyReported(proxies[c.route], code) \in ProxyType
          /\ ProxyReported(proxies[c.route], code).holder = None
      BY <1>1, <2>1, <3>1, ReportTypes
    <3> QED BY <1>2, <2>1, <2>3, <3>1, <3>2
  <2> QED BY <2>2, <2>3
<1>5. ASSUME NEW d \in CallType, call' = [call EXCEPT ![r] = d],
             d.pc \in {"settled", "ready", "backoff"}, d.key = None, d.route = None,
             d.pc # "settled" => d.attempt < MaxTotalAttempts
      PROVE  ExecInv'
  <2>1. d.pc \notin WithKey /\ HasAttemptLeft(d)
    BY <1>5 DEF WithKey, HasAttemptLeft
  <2> QED BY <1>1, <1>2, <1>3, <1>4, <1>5, <2>1, MovesGivingBack
<1>6. CASE code = "success"
  <2> DEFINE e == Settled(c, "success")
  <2>1. call' = [call EXCEPT ![r] = e]
    BY <1>6 DEF Answer, Goto
  <2>2. e \in CallType /\ e.pc = "settled" /\ e.key = None /\ e.route = None
    BY <1>1, SettledRecord DEF Outcomes
  <2> HIDE DEF e
  <2>3. PICK d \in CallType : call' = [call EXCEPT ![r] = d] /\ d.pc = "settled" /\ d.key = None /\ d.route = None
    BY <2>1, <2>2
  <2> QED BY <1>5, <2>3
<1>7. ASSUME code # "success", NEW credential \in BOOLEAN, NEW proxy \in BOOLEAN, NEW delay \in Nat,
             AfterFailure(r, c, code, credential, proxy, delay)
      PROVE  ExecInv'
  <2>1. code \in Codes /\ TypeOK
    BY <1>7 DEF ExecInv
  <2>2. PICK d \in CallType :
          /\ call' = [call EXCEPT ![r] = d]
          /\ d.pc \in {"settled", "ready", "backoff"} /\ d.key = None /\ d.route = None
          /\ d.pc # "settled" => d.attempt < MaxTotalAttempts
    BY <1>7, <2>1, AfterFailureMoves
  <2> QED BY <1>5, <2>2
<1>8. \/ code = "success"
      \/ code # "success" /\ AfterFailure(r, c, code, \E j \in Keys[c.at] : Usable(keys'[j], now),
                                          Free(proxies', now) # {}, 0)
  BY Zenon DEF Answer
<1>9. /\ (\E j \in Keys[c.at] : Usable(keys'[j], now)) \in BOOLEAN
      /\ (Free(proxies', now) # {}) \in BOOLEAN /\ 0 \in Nat
  OBVIOUS
<1> QED BY <1>6, <1>7, <1>8, <1>9

\* A call that settles at an await: unhindered, it has nothing leased.
LEMMA SettlesKeeps ==
  ASSUME ExecInv, NEW r \in Calls, NEW o \in Outcomes, call[r].pc \notin WithKey \/ ~Unhindered,
         Goto(r, Settled(call[r], o)), UNCHANGED <<setting, now, keys, proxies, health>>
  PROVE  ExecInv'
<1> DEFINE d == Settled(call[r], o)
<1>1. d \in CallType /\ d.pc = "settled" /\ d.key = None /\ d.route = None
  BY CallFacts, SettledRecord
<1>2. call' = [call EXCEPT ![r] = d]
  BY DEF Goto
<1> HIDE DEF d
<1> QED BY <1>1, <1>2, MovesWithoutLease DEF WithKey, HasAttemptLeft

\* The call's time is over.
LEMMA TimeOutKeeps ==
  ASSUME ExecInv, NEW r \in Calls, TimeOut(r)
  PROVE  ExecInv'
<1>1. call[r].pc \notin WithKey \/ ~Unhindered
  BY CallFacts DEF TimeOut, GoesOnAtOnce, WithKey, Pending
<1> QED BY <1>1, SettlesKeeps DEF TimeOut, Outcomes

\* The caller gives the call up.
LEMMA AbortKeeps ==
  ASSUME ExecInv, NEW r \in Calls, Abort(r)
  PROVE  ExecInv'
BY SettlesKeeps DEF Abort, Unhindered, Outcomes

\* Time waits for a call that can go on.
LEMMA TickKeeps ==
  ASSUME ExecInv, Tick
  PROVE  ExecInv'
<1>1. /\ UNCHANGED <<setting, keys, proxies, health, call>>
      /\ now' = now + 1 /\ now < MaxTime
      /\ \A r \in Calls : call[r].pc \in Pending => call[r].wake > now
  BY DEF Tick
<1>2. TypeOK'
  <2>1. now + 1 \in Epoch..MaxTime
    BY <1>1, Types, TimeAssumption DEF ExecInv
  <2> QED BY <1>1, <2>1, SettingFixed DEF ExecInv, TypeOK
<1>3. \A r \in Calls : (HoldsItsLease(r, call[r]) /\ HasAttemptLeft(call[r]))'
  BY <1>1, SettingFixed DEF ExecInv, HoldsItsLease, HasAttemptLeft
<1>4. Unhindered' = Unhindered
  BY <1>1, SettingFixed DEF Unhindered
<1>5. ASSUME Unhindered, NEW r \in Calls PROVE GoesOnAtOnce(call[r])'
  <2>1. GoesOnAtOnce(call[r]) /\ call[r].wake \in Nat /\ now \in Nat
    BY <1>5, CallFacts
  <2>2. call[r].pc # "leased"
    BY <1>1, <2>1 DEF GoesOnAtOnce, Pending
  <2> QED BY <1>1, <2>1, <2>2 DEF GoesOnAtOnce
<1>6. NoLeaseOrphaned'
  BY <1>1, SettingFixed DEF ExecInv, NoLeaseOrphaned
<1> QED BY <1>2, <1>3, <1>4, <1>5, <1>6 DEF ExecInv

\* The invariant holds before any call.
LEMMA ExecInit == Init => ExecInv
<1> SUFFICES ASSUME Init PROVE ExecInv
  OBVIOUS
<1>1. setting \in Settings
  BY DEF Init
<1>2. TypeOK
  <2>1. Epoch \in Epoch..MaxTime /\ 0 \in 0..MaxTotalAttempts /\ 1 \in Providers
    BY <1>1, TimeAssumption, SettingFacts DEF Providers
  <2> QED BY <2>1 DEF Init, TypeOK
<1>3. \A r \in Calls : HoldsItsLease(r, call[r]) /\ HasAttemptLeft(call[r])
  BY <1>1, SettingFacts DEF Init, HoldsItsLease, HasAttemptLeft, WithKey
<1>4. \A r \in Calls : GoesOnAtOnce(call[r])
  BY DEF Init, GoesOnAtOnce
<1>5. NoLeaseOrphaned
  BY DEF Init, NoLeaseOrphaned
<1> QED BY <1>2, <1>3, <1>4, <1>5 DEF ExecInv

\* Every step keeps the invariant.
LEMMA ExecStep == ExecInv /\ [Next]_vars => ExecInv'
<1> SUFFICES ASSUME ExecInv, [Next]_vars PROVE ExecInv'
  OBVIOUS
<1>1. ASSUME NEW r \in Calls, Proceed(r) PROVE ExecInv'
  <2>1. CASE CheckHealth(r)   BY <2>1, CheckHealthKeeps
  <2>2. CASE TakeKey(r)       BY <2>2, TakeKeyKeeps
  <2>3. CASE LackKey(r)       BY <2>3, LackKeyKeeps
  <2>4. CASE LeaveForRoute(r) BY <2>4, LeaveForRouteKeeps
  <2>5. CASE TakeRoute(r)     BY <2>5, TakeRouteKeeps
  <2>6. CASE LackRoute(r)     BY <2>6, LackRouteKeeps
  <2>7. ASSUME NEW code \in Codes \cup {"success"}, NEW restricted \in BOOLEAN, Answer(r, code, restricted)
        PROVE  ExecInv'
    BY <2>7, AnswerKeeps
  <2>8. CASE TimeOut(r)       BY <2>8, TimeOutKeeps
  <2> QED BY <1>1, <2>1, <2>2, <2>3, <2>4, <2>5, <2>6, <2>7, <2>8 DEF Proceed
<1>2. ASSUME NEW r \in Calls, Start(r) PROVE ExecInv'
  BY <1>2, StartKeeps
<1>3. ASSUME NEW r \in Calls, Abort(r) PROVE ExecInv'
  BY <1>3, AbortKeeps
<1>4. CASE Tick
  BY <1>4, TickKeeps
<1>5. CASE UNCHANGED vars
  BY <1>5, SettingFixed
     DEF vars, ExecInv, TypeOK, HoldsItsLease, HasAttemptLeft, GoesOnAtOnce, Unhindered, NoLeaseOrphaned
<1> QED BY <1>1, <1>2, <1>3, <1>4, <1>5 DEF Next

-----------------------------------------------------------------------------
(* The theorems *)

\* The invariant holds of every behaviour.
LEMMA ExecInvHolds == Spec => []ExecInv
BY ExecInit, ExecStep, PTL DEF Spec

\* The executor's state keeps its type: no candidate is passed beyond the last,
\* and no attempt is made beyond maxTotalAttempts.
THEOREM ExecutorTypeCorrect == Spec => []TypeOK
<1>1. ExecInv => TypeOK
  BY DEF ExecInv
<1> QED BY <1>1, ExecInvHolds, PTL

\* A key and a proxy in use by a call in flight belong to that call alone, and
\* no call uses a rejected key.
THEOREM LeasesStayInUse == Spec => []LeasesInUse
<1>1. ExecInv => LeasesInUse
  <2> SUFFICES ASSUME ExecInv, NEW r \in Calls, call[r].pc = "calling"
               PROVE  /\ keys[call[r].key].holder = r /\ ~keys[call[r].key].disabled
                      /\ call[r].route \in Proxies => proxies[call[r].route].holder = r
    BY DEF LeasesInUse
  <2>1. HoldsItsLease(r, call[r]) /\ Direct \notin Proxies
    BY CallFacts, SettingFacts
  <2> QED BY <2>1 DEF HoldsItsLease, WithKey
<1> QED BY <1>1, ExecInvHolds, PTL

\* With a direct route and no signal no key and no proxy is ever leased without
\* a call that will give it back.
THEOREM NoLeaseIsOrphaned == Spec => []NoLeaseOrphaned
<1>1. ExecInv => NoLeaseOrphaned
  BY DEF ExecInv
<1> QED BY <1>1, ExecInvHolds, PTL

\* One step of a first-page call that gives up too early.
GivesUpEarly(r) ==
  /\ call[r].pc # "settled"
  /\ call'[r].pc = "settled"
  /\ call'[r].outcome \in Codes \ {"caller"}
  /\ call'[r].attempt < MaxTotalAttempts
  /\ now < call[r].deadline
  /\ call[r].at # Candidates

\* After a failure a first-page call settles early only at the last candidate.
LEMMA FailureGivesUpLast ==
  ASSUME ExecInv, NEW r \in Calls \ Continuations, NEW code \in Codes, NEW credential \in BOOLEAN,
         NEW proxy \in BOOLEAN, NEW minDelay \in Nat,
         AfterFailure(r, call[r], code, credential, proxy, minDelay)
  PROVE  ~GivesUpEarly(r)
<1> SUFFICES ASSUME GivesUpEarly(r) PROVE FALSE
  OBVIOUS
<1>1. PICK d \in CallType :
        /\ call' = [call EXCEPT ![r] = d]
        /\ d.pc = "settled" => d.outcome = code
        /\ d.pc = "settled" /\ code # "caller" /\ d.attempt < MaxTotalAttempts
           /\ now < call[r].deadline => ~MoreCandidates(r)
  BY AfterFailureMoves DEF ExecInv
<1>2. call'[r] = d
  BY <1>1, CallFacts
<1>3. ~MoreCandidates(r)
  BY <1>1, <1>2 DEF GivesUpEarly
<1> QED BY <1>3, CallFacts DEF MoreCandidates, GivesUpEarly, Providers

\* Nor does a call that goes on.
LEMMA GoingOnDoesNotGiveUp ==
  ASSUME ExecInv, NEW r \in Calls,
         \/ call'[r].pc # "settled"
         \/ call'[r].outcome \in {"success", "timeout", "aborted"}
  PROVE  ~GivesUpEarly(r)
BY DEF GivesUpEarly, Codes

\* The calls that a step does not move keep their record.
LEMMA OtherCallsStay ==
  ASSUME ExecInv, NEW r \in Calls, NEW s \in Calls, r # s, Start(s) \/ Proceed(s) \/ Abort(s)
  PROVE  call'[r] = call[r]
<1>1. \A c : Goto(s, c) => call'[r] = call[r]
  BY CallFacts DEF Goto
<1>2. ASSUME NEW code, NEW credential, NEW proxy, NEW delay,
             AfterFailure(s, call[s], code, credential, proxy, delay)
      PROVE  \E c : Goto(s, c)
  BY <1>2, Zenon DEF AfterFailure
<1>3. \E c : Goto(s, c)
  <2>1. CASE Start(s)         BY <2>1, Zenon DEF Start
  <2>2. CASE Abort(s)         BY <2>2, Zenon DEF Abort
  <2>3. CASE CheckHealth(s)   BY <2>3, Zenon DEF CheckHealth
  <2>4. CASE TakeKey(s)       BY <2>4, Zenon DEF TakeKey
  <2>5. CASE LackKey(s)       BY <2>5, <1>2, Zenon DEF LackKey
  <2>6. CASE LeaveForRoute(s) BY <2>6, Zenon DEF LeaveForRoute
  <2>7. CASE TakeRoute(s)     BY <2>7, Zenon DEF TakeRoute
  <2>8. CASE LackRoute(s)     BY <2>8, <1>2, Zenon DEF LackRoute
  <2>9. ASSUME NEW code \in Codes \cup {"success"}, NEW restricted \in BOOLEAN, Answer(s, code, restricted)
        PROVE  \E c : Goto(s, c)
    BY <2>9, <1>2, Zenon DEF Answer
  <2>10. CASE TimeOut(s)      BY <2>10, Zenon DEF TimeOut
  <2> QED BY <2>1, <2>2, <2>3, <2>4, <2>5, <2>6, <2>7, <2>8, <2>9, <2>10 DEF Proceed
<1> QED BY <1>1, <1>3

\* No step of a call makes it give up early.
LEMMA NobodyGivesUpEarly ==
  ASSUME ExecInv, NEW r \in Calls \ Continuations, Start(r) \/ Proceed(r) \/ Abort(r)
  PROVE  ~GivesUpEarly(r)
<1> DEFINE c == call[r]
<1>1. c \in CallType /\ call \in [Calls -> CallType] /\ Candidates \in Nat
  BY CallFacts
<1>2. ASSUME NEW d, Goto(r, d), d.pc # "settled" \/ d.outcome \in {"success", "timeout", "aborted"}
      PROVE  ~GivesUpEarly(r)
  BY <1>1, <1>2, GoingOnDoesNotGiveUp DEF Goto
<1>3. ASSUME NEW p, NEW t, p # "settled", Goto(r, Sleeping(c, p, t))
      PROVE  ~GivesUpEarly(r)
  <2>1. Sleeping(c, p, t).pc = p
    BY <1>1 DEF Sleeping, CallType
  <2> QED BY <1>2, <1>3, <2>1
<1>4. ASSUME MoreCandidates(r), Goto(r, NextCandidate(c))
      PROVE  ~GivesUpEarly(r)
  <2>1. NextCandidate(c).pc = "ready"
    BY <1>1, <1>4, NextCandidateRecord DEF MoreCandidates
  <2> QED BY <1>2, <1>4, <2>1
<1>5. ASSUME NEW o \in {"success", "timeout", "aborted"}, Goto(r, Settled(c, o))
      PROVE  ~GivesUpEarly(r)
  <2>1. Settled(c, o).outcome = o
    BY <1>1, SettledRecord DEF Outcomes
  <2> QED BY <1>2, <1>5, <2>1
<1>6. CASE Start(r)
  BY <1>1, <1>2, <1>6 DEF Start, CallType
<1>7. CASE Abort(r)
  BY <1>5, <1>7 DEF Abort
<1>8. CASE TimeOut(r)
  BY <1>5, <1>8 DEF TimeOut
<1>9. CASE CheckHealth(r)
  <2>1. [c EXCEPT !.pc = "credential"].pc = "credential"
    BY <1>1 DEF CallType
  <2> QED BY <1>2, <1>3, <1>4, <1>9, <2>1 DEF CheckHealth
<1>10. CASE TakeKey(r)
  BY <1>1, <1>2, <1>10 DEF TakeKey, CallType
<1>11. CASE LeaveForRoute(r)
  BY <1>4, <1>11 DEF LeaveForRoute, SkipForRoute
<1>12. CASE TakeRoute(r)
  BY <1>1, <1>2, <1>12 DEF TakeRoute, CallType
<1>13. CASE LackKey(r)
  <2> DEFINE times == KeyTimes(c.at, now)
             code  == IF times = {} THEN "authentication" ELSE "rate limited"
             delay == IF times = {} THEN 0 ELSE Earliest(times) - now
  <2>1. code \in Codes
    BY DEF Codes
  <2>2. delay \in Nat
    <3>1. now \in Int
      BY CallFacts
    <3>2. times # {} => Earliest(times) \in Nat /\ Earliest(times) > now
      BY <3>1, CallFacts, KeyTimesAreLater, EarliestIsOne
    <3> QED BY <3>1, <3>2
  <2>3. ASSUME NEW credential \in BOOLEAN, NEW proxy \in BOOLEAN, AfterFailure(r, c, code, credential, proxy, delay)
        PROVE  ~GivesUpEarly(r)
    <3> HIDE DEF code, delay
    <3> QED BY <2>1, <2>2, <2>3, FailureGivesUpLast
  <2>4. \/ \E t : Goto(r, Sleeping(c, "credential", t))
        \/ MoreCandidates(r) /\ Goto(r, NextCandidate(c))
        \/ AfterFailure(r, c, code, FALSE, Free(proxies, now) # {}, delay)
    BY <1>13, Zenon DEF LackKey
  <2>5. FALSE \in BOOLEAN /\ (Free(proxies, now) # {}) \in BOOLEAN
    OBVIOUS
  <2> HIDE DEF code, delay, times
  <2> QED BY <1>3, <1>4, <2>3, <2>4, <2>5
<1>14. CASE LackRoute(r)
  <2>1. ASSUME NEW credential \in BOOLEAN, NEW proxy \in BOOLEAN, NEW delay \in Nat,
               AfterFailure(r, c, "proxy", credential, proxy, delay)
        PROVE  ~GivesUpEarly(r)
    BY <2>1, FailureGivesUpLast DEF Codes
  <2>2. \/ \E t : Goto(r, Sleeping(c, "proxy", t))
        \/ AfterFailure(r, c, "proxy", \E j \in Keys[c.at] : Usable(keys'[j], now), FALSE, 0)
    BY <1>14, Zenon DEF LackRoute
  <2>3. (\E j \in Keys[c.at] : Usable(keys'[j], now)) \in BOOLEAN /\ FALSE \in BOOLEAN /\ 0 \in Nat
    OBVIOUS
  <2> QED BY <1>3, <2>1, <2>2, <2>3
<1>15. ASSUME NEW code \in Codes \cup {"success"}, NEW restricted \in BOOLEAN, Answer(r, code, restricted)
       PROVE  ~GivesUpEarly(r)
  <2>1. ASSUME code # "success", NEW credential \in BOOLEAN, NEW proxy \in BOOLEAN, NEW delay \in Nat,
               AfterFailure(r, c, code, credential, proxy, delay)
        PROVE  ~GivesUpEarly(r)
    BY <2>1, FailureGivesUpLast
  <2>2. \/ Goto(r, Settled(c, "success"))
        \/ code # "success" /\ AfterFailure(r, c, code, \E j \in Keys[c.at] : Usable(keys'[j], now),
                                            Free(proxies', now) # {}, 0)
    BY <1>15, Zenon DEF Answer
  <2>3. /\ (\E j \in Keys[c.at] : Usable(keys'[j], now)) \in BOOLEAN
        /\ (Free(proxies', now) # {}) \in BOOLEAN /\ 0 \in Nat
    OBVIOUS
  <2> QED BY <1>5, <2>1, <2>2, <2>3
<1> QED BY <1>6, <1>7, <1>8, <1>9, <1>10, <1>11, <1>12, <1>13, <1>14, <1>15 DEF Proceed

\* FR-003: a first-page call that still has attempts and time gives up for a
\* provider's failure only at the last candidate.
THEOREM FallsBackToTheLast == Spec => GivesUpAtLastCandidate
<1>1. ExecInv /\ [Next]_vars => \A r \in Calls \ Continuations : ~GivesUpEarly(r)
  <2> SUFFICES ASSUME ExecInv, [Next]_vars, NEW r \in Calls \ Continuations PROVE ~GivesUpEarly(r)
    OBVIOUS
  <2>1. CASE call' = call
    BY <2>1 DEF GivesUpEarly
  <2>2. ASSUME NEW s \in Calls, Start(s) \/ Proceed(s) \/ Abort(s) PROVE ~GivesUpEarly(r)
    <3>1. CASE s = r
      BY <2>2, <3>1, NobodyGivesUpEarly
    <3>2. CASE s # r
      <4>1. call'[r] = call[r]
        BY <2>2, <3>2, OtherCallsStay
      <4> QED BY <4>1 DEF GivesUpEarly
    <3> QED BY <3>1, <3>2
  <2> QED BY <2>1, <2>2 DEF Next, Tick, vars
<1>2. ExecInv /\ [Next]_vars =>
        [\A r \in Calls \ Continuations :
           /\ call[r].pc # "settled"
           /\ call'[r].pc = "settled"
           /\ call'[r].outcome \in Codes \ {"caller"}
           /\ call'[r].attempt < MaxTotalAttempts
           /\ now < call[r].deadline
           => call[r].at = Candidates]_vars
  BY <1>1 DEF GivesUpEarly
<1> QED BY <1>2, ExecInvHolds, PTL DEF Spec, GivesUpAtLastCandidate
=============================================================================
