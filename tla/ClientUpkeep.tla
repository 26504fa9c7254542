----------------------------- MODULE ClientUpkeep -----------------------------
(***************************************************************************)
(* What outlives a call and a process: the counts of consecutive failures  *)
(* of every endpoint and key, their rows in sdk_cooldown_states            *)
(* (CooldownStore over StorageAdapter), EvmDataClient's initialize, restore *)
(* and close, and AlertService's reports of what is at its longest         *)
(* cooldown.  Every await is a point where others run.                     *)
(*                                                                         *)
(* SQLite's statements take effect at once; PostgreSQL's go through a pool *)
(* of connections and land in any order, or fail.  A cooldown is its count *)
(* of failures, which is not looked at past the last tier.                 *)
(* Bounds: MaxInFlight, Settings; ages stop at Interval.                   *)
(***************************************************************************)
EXTENDS Absence, Naturals, Sequences, FiniteSets, SequencesExt

CONSTANTS
  Resources,    \* the sequence of [category, id, env, chain, pool, attended], RPC endpoints before keys
  Checkers,     \* calls of checkAndReportAlerts that may overlap
  Interval,     \* reportIntervalMs
  MaxInFlight,
  Settings      \* [driver, alerts, longest, restarts, ill, checkers]: see setting

ASSUME UpkeepAssumption ==
  /\ Interval \in Nat \ {0} /\ MaxInFlight \in Nat
  /\ Settings \subseteq [driver : {"sqlite", "postgres"}, alerts : BOOLEAN, longest : Nat \ {0}, restarts : Nat,
                         ill : SUBSET DOMAIN Resources, checkers : SUBSET Checkers]
  /\ \A i \in DOMAIN Resources : Resources[i].category \in {"rpc", "data-api"} /\ Resources[i].attended \in BOOLEAN

R       == DOMAIN Resources
Callers == {"initialize"} \cup Checkers
RowKey(r) == <<Resources[r].category, Resources[r].id>>
RowKeys == {RowKey(r) : r \in R}

VARIABLES
  setting,   \* storage, whether alerts are sent, failures to the last tier; who fails, checks and how often all restarts
  tracker,   \* tracker[r]: consecutive failures in memory
  rows,      \* rows[k]: consecutive failures in the database, 0 for no row
  open,      \* whether the storage adapter is initialized
  inFlight,  \* PostgreSQL's statements: [key, count]
  at,        \* at[c]: what a call is about to do
  read,      \* read[c]: the rows it has read, or None
  message,   \* message[c]: the report it sends, or None
  age,       \* age[c]: how long ago it took the time of that report
  since,     \* how long ago lastReportSentAt is, None if null
  restored,  \* whether initialize has restored the counts
  restarts,
  actual,    \* history: consecutive failures over all processes
  murky,     \* history: resources that met one of the races below
  told       \* history: resources reported since they last were well

upkeepVars == <<setting, tracker, rows, open, inFlight, at, read, message, age, since, restored, restarts, actual, murky, told>>

-----------------------------------------------------------------------------
(* AlertService *)

Keyed(r)       == Resources[r].env # None
IsMaxCooldown(r) == tracker[r] >= setting.longest

\* The raw faults, in order; the same endpoint of two pools of a chain counts once.
RawFaults ==
  LET same(a, b) == Resources[a].category = Resources[b].category /\ Resources[a].id = Resources[b].id
                      /\ Resources[a].chain = Resources[b].chain
  IN  {r \in R : Resources[r].attended /\ IsMaxCooldown(r)
                   /\ \A s \in 1..(r - 1) : ~(Resources[s].attended /\ IsMaxCooldown(s) /\ same(r, s))}

GroupKey(r) == IF Keyed(r) THEN <<"env", Resources[r].env>> ELSE <<"id">> \o RowKey(r)

\* One item for each key, whatever it opens, and for each id without one.
CollectFaultItems ==
  {LET group == {r \in RawFaults : GroupKey(r) = key}
       first == CHOOSE r \in group : \A s \in group : r <= s
   IN  IF Keyed(first)
       THEN [key |-> key, categories |-> {Resources[r].category : r \in group}, names |-> group]
       ELSE [key |-> key, categories |-> {Resources[first].category}, names |-> {first}]
     : key \in {GroupKey(r) : r \in RawFaults}}

Watched == {r \in R : Resources[r].attended}

\* A key of a family fails if anything it opens is at its longest cooldown.
CollectKeyFamilySummaries ==
  LET keys   == {Resources[r].env : r \in {r \in Watched : Keyed(r)}}
      failed == {Resources[r].env : r \in {r \in Watched : Keyed(r) /\ IsMaxCooldown(r)}}
  IN  {[family |-> f, total |-> Cardinality({k \in keys : k.family = f}),
        failed |-> Cardinality({k \in failed : k.family = f})] : f \in {k.family : k \in failed}}

\* Mutant: the interval never ends.
ThrottledForGood(force) == ~force /\ since # None /\ since <= Interval
Throttled(force) == ~force /\ since # None /\ since < Interval

Report == [items |-> CollectFaultItems, families |-> CollectKeyFamilySummaries]

\* What a report tells about.
Tells(report) == {r \in R : /\ \E item \in report.items : r \in item.names
                            /\ Keyed(r) => \E s \in report.families : s.family = Resources[r].env.family /\ s.failed > 0}

-----------------------------------------------------------------------------
(* CooldownStore and the adapters *)

Restoring     == {c \in Callers : at[c] = "apply"}
InFlightOn(r) == {s \in inFlight : s.key = RowKey(r)}

\* A statement on a closed storage throws, and the store swallows it.
Store(key, count) ==
  CASE ~open                         -> UNCHANGED <<rows, inFlight>>
    [] open /\ setting.driver = "sqlite" -> rows' = [rows EXCEPT ![key] = count] /\ UNCHANGED inFlight
    [] OTHER                         -> inFlight' = inFlight \cup {[key |-> key, count |-> count]} /\ UNCHANGED rows

\* onCooldownChange saves a count, and deletes the row of none; a pool that nobody attends to has no such hook.
Change(r, count) ==
  /\ tracker' = [tracker EXCEPT ![r] = count]
  /\ IF Resources[r].attended THEN Store(RowKey(r), count) ELSE UNCHANGED <<rows, inFlight>>
  /\ UNCHANGED <<setting, open, at, read, message, age, since, restored, restarts>>

Undisturbed(r) == open /\ InFlightOn(r) = {} /\ Restoring = {}

Fail(r) ==
  /\ r \in setting.ill /\ tracker[r] < setting.longest /\ actual[r] < setting.longest
  /\ Cardinality(inFlight) < MaxInFlight
  /\ Change(r, tracker[r] + 1)
  /\ actual' = [actual EXCEPT ![r] = @ + 1]
  /\ murky' = IF Undisturbed(r) /\ restored THEN murky ELSE murky \cup {r}
  /\ UNCHANGED told

Succeed(r) ==
  /\ tracker[r] + actual[r] > 0
  /\ Cardinality(inFlight) < MaxInFlight
  /\ Change(r, 0)
  /\ actual' = [actual EXCEPT ![r] = 0]
  /\ murky' = IF Undisturbed(r) THEN murky \ {r} ELSE murky \cup {r}
  /\ told' = told \ {r}

\* PostgreSQL executes a statement, or fails and nobody hears of it.
Land(s) ==
  /\ s \in inFlight
  /\ rows' = [rows EXCEPT ![s.key] = s.count]
  /\ inFlight' = inFlight \ {s}
  /\ UNCHANGED <<setting, tracker, open, at, read, message, age, since, restored, restarts, actual, murky, told>>

OnRow(key) == {r \in R : RowKey(r) = key}

Lose(s) ==
  /\ s \in inFlight
  /\ inFlight' = inFlight \ {s}
  /\ murky' = murky \cup OnRow(s.key)
  /\ UNCHANGED <<setting, tracker, rows, open, at, read, message, age, since, restored, restarts, actual, told>>

-----------------------------------------------------------------------------
(* EvmDataClient *)

Step(c, from, to) == at[c] = from /\ at' = [at EXCEPT ![c] = to]

\* The pools' probes start; then the storage opens.
Initialize ==
  /\ Step("initialize", "idle", "open")
  /\ ~restored
  /\ UNCHANGED <<setting, tracker, rows, open, inFlight, read, message, age, since, restored, restarts, actual, murky, told>>

OpenStorage ==
  /\ Step("initialize", "open", "read")
  /\ open' = TRUE
  /\ UNCHANGED <<setting, tracker, rows, inFlight, read, message, age, since, restored, restarts, actual, murky, told>>

FailToOpen ==
  /\ Step("initialize", "open", "idle")
  /\ UNCHANGED <<setting, tracker, rows, open, inFlight, read, message, age, since, restored, restarts, actual, murky, told>>

\* checkAndReportAlerts begins with a restore, too.
StartCheck(c) ==
  /\ c \in setting.checkers /\ Step(c, "idle", "read")
  /\ UNCHANGED <<setting, tracker, rows, open, inFlight, read, message, age, since, restored, restarts, actual, murky, told>>

\* loadAll; a query that fails finds nothing.
LoadAll(c) ==
  /\ Step(c, "read", "apply")
  /\ \E found \in {[k \in RowKeys |-> 0]} \cup (IF open THEN {rows} ELSE {}) :
       /\ read' = [read EXCEPT ![c] = found]
       /\ murky' = murky \cup {r \in R : InFlightOn(r) # {} \/ (c = "initialize" /\ found # rows)}
  /\ UNCHANGED <<setting, tracker, rows, open, inFlight, message, age, since, restored, restarts, actual, told>>

\* Mutant: DeFi's own pools are not restored.
RestoredByLess(found, r) ==
  IF Resources[r].attended /\ Resources[r].pool # "defi-base" /\ found[RowKey(r)] > 0 THEN found[RowKey(r)] ELSE tracker[r]
\* Each row goes to every attended pool that has its id.
RestoredBy(found, r) == IF Resources[r].attended /\ found[RowKey(r)] > 0 THEN found[RowKey(r)] ELSE tracker[r]

RestorePersistedCooldowns(c) ==
  /\ Step(c, "apply", IF c = "initialize" THEN "probe" ELSE "collect")
  /\ tracker' = [r \in R |-> RestoredBy(read[c], r)]
  /\ read' = [read EXCEPT ![c] = None]
  /\ restored' = (restored \/ c = "initialize")
  /\ UNCHANGED <<setting, rows, open, inFlight, message, age, since, restarts, actual, murky>>
  /\ told' = {r \in told : tracker'[r] >= setting.longest}

\* initialize returns, or throws because a probe did.
AwaitProbes ==
  /\ Step("initialize", "probe", "idle")
  /\ UNCHANGED <<setting, tracker, rows, open, inFlight, read, message, age, since, restored, restarts, actual, murky, told>>

\* Nothing to send, or too early.
Skip(c) ==
  /\ Step(c, "collect", "idle")
  /\ ~setting.alerts \/ Throttled(FALSE) \/ CollectFaultItems = {}
  /\ UNCHANGED <<setting, tracker, rows, open, inFlight, read, message, age, since, restored, restarts, actual, murky, told>>

Send(c) ==
  /\ Step(c, "collect", "send")
  /\ setting.alerts /\ CollectFaultItems # {}
  /\ \E force \in BOOLEAN : ~Throttled(force)  \* a forced check ignores the interval
  /\ message' = [message EXCEPT ![c] = Report]
  /\ age' = [age EXCEPT ![c] = 0]
  /\ UNCHANGED <<setting, tracker, rows, open, inFlight, read, since, restored, restarts, actual, murky, told>>

\* The webhook answers with success or not, or not at all.
Answered(c, success) ==
  /\ Step(c, "send", "idle")
  /\ since' = IF success THEN age[c] ELSE since
  /\ told' = IF success THEN told \cup {r \in Tells(message[c]) : IsMaxCooldown(r)} ELSE told
  /\ message' = [message EXCEPT ![c] = None]
  /\ age' = [age EXCEPT ![c] = 0]
  /\ UNCHANGED <<setting, tracker, rows, open, inFlight, read, restored, restarts, actual, murky>>

Close ==
  /\ open /\ open' = FALSE
  /\ UNCHANGED <<setting, tracker, rows, inFlight, at, read, message, age, since, restored, restarts, actual, murky, told>>

Older(a) == IF a = Interval THEN a ELSE a + 1

Tick ==
  /\ age' = [c \in Callers |-> IF at[c] = "send" THEN Older(age[c]) ELSE age[c]]
  /\ since' = IF since = None THEN None ELSE Older(since)
  /\ <<age', since'>> # <<age, since>>
  /\ UNCHANGED <<setting, tracker, rows, open, inFlight, at, read, message, restored, restarts, actual, murky, told>>

\* The process ends wherever it is, and a new one begins.
Restart ==
  /\ restarts < setting.restarts /\ restarts' = restarts + 1
  /\ tracker' = [r \in R |-> 0]
  /\ open' = FALSE /\ restored' = FALSE /\ since' = None
  /\ at' = [c \in Callers |-> "idle"]
  /\ read' = [c \in Callers |-> None] /\ message' = [c \in Callers |-> None] /\ age' = [c \in Callers |-> 0]
  /\ murky' = murky \cup UNION {OnRow(s.key) : s \in inFlight}
  /\ inFlight' = {} /\ told' = {}
  /\ UNCHANGED <<setting, rows, actual>>

UpkeepInit ==
  /\ setting \in Settings
  /\ tracker = [r \in R |-> 0] /\ actual = [r \in R |-> 0] /\ rows = [k \in RowKeys |-> 0]
  /\ open = FALSE /\ restored = FALSE /\ inFlight = {} /\ restarts = 0
  /\ at = [c \in Callers |-> "idle"]
  /\ read = [c \in Callers |-> None] /\ message = [c \in Callers |-> None] /\ age = [c \in Callers |-> 0]
  /\ since = None /\ murky = {} /\ told = {}

UpkeepNext ==
  \/ \E r \in R : Fail(r) \/ Succeed(r)
  \/ \E s \in inFlight : Land(s) \/ Lose(s)
  \/ Initialize \/ OpenStorage \/ FailToOpen \/ AwaitProbes
  \/ \E c \in Checkers : StartCheck(c) \/ Skip(c) \/ Send(c) \/ Answered(c, TRUE) \/ Answered(c, FALSE)
  \/ \E c \in Callers : LoadAll(c) \/ RestorePersistedCooldowns(c)
  \/ Close \/ Tick \/ Restart

UpkeepSpec == UpkeepInit /\ [][UpkeepNext]_upkeepVars

\* The application keeps checking, time passes, and the webhook answers well now and then.
UpkeepFairness ==
  /\ WF_upkeepVars(Tick)
  /\ \A c \in Checkers : /\ WF_upkeepVars(StartCheck(c)) /\ WF_upkeepVars(LoadAll(c))
                         /\ WF_upkeepVars(RestorePersistedCooldowns(c))
                         /\ WF_upkeepVars(Skip(c)) /\ WF_upkeepVars(Send(c))
                         /\ SF_upkeepVars(Answered(c, TRUE))

-----------------------------------------------------------------------------

\* The counts a client goes by are the failures since the last success, in
\* this process or an earlier one, unless a race lost one: an event while the
\* storage is closed or not yet restored, between the read of the rows and
\* their restore, while another statement on its row is under way or lost.
\* A success mends what a race broke (docs/SPEC.md 16.5).
CooldownsSurviveRestarts ==
  restored => \A r \in Watched \ murky :
                InFlightOn(r) = {} => tracker[r] = actual[r] /\ rows[RowKey(r)] = actual[r]

\* What stays at its longest cooldown is told about, whatever is reported
\* before, fails to be delivered or is checked at the same time
\* (checkAndReportAlerts, collectFaultItems; docs/SPEC.md 16.4).
FaultsAreReported ==
  \A r \in {r \in R : Resources[r].attended} :
    setting.alerts /\ IsMaxCooldown(r) ~> r \in told \/ ~IsMaxCooldown(r)
=============================================================================
