-------------------------- MODULE CredentialEntry --------------------------
(***************************************************************************)
(* One entry of a CredentialPool and its CooldownTracker, as pure          *)
(* operators on a record.  Times are ticks of the injected clock.          *)
(* Entry.failureCount and the tracker's firstFailureAt steer no decision   *)
(* of the pool (state snapshots and alert durations only) and are left     *)
(* out.                                                                    *)
(***************************************************************************)
EXTENDS Integers, Sequences

CONSTANTS
  Tiers,          \* the cooldown ladder (COOLDOWN_TIERS_MS), in ticks
  None            \* null

ASSUME TiersAssumption ==
  /\ Tiers \in Seq(Nat \ {0})
  /\ Len(Tiers) > 0

Time == Nat \cup {None}

TrackerType == [failures : Nat, current : Nat, until : Time]
EntryType   == [leased : BOOLEAN, activeToken : Time, nextToken : Nat,
                disabled : BOOLEAN, cooldownUntil : Time,
                tracker : TrackerType]

\* null is not a number and not a record.
ASSUME NoneAssumption == None \notin Int /\ None \notin TrackerType

-----------------------------------------------------------------------------
(* CooldownTracker *)

Later(until, now) == until # None /\ until > now

InitTracker == [failures |-> 0, current |-> 0, until |-> None]

\* Mutant: past its last rung the ladder starts over.
TierWrapped(n) == Tiers[((n - 1) % Len(Tiers)) + 1]

\* The rung of the n-th consecutive failure; the last one is the cap.
Tier(n) == Tiers[IF n <= Len(Tiers) THEN n ELSE Len(Tiers)]

RecordFailure(t, now) ==
  LET n == t.failures + 1
  IN  [failures |-> n, current |-> Tier(n), until |-> now + Tier(n)]

-----------------------------------------------------------------------------
(* CredentialEntry *)

InitEntry ==
  [leased |-> FALSE, activeToken |-> None, nextToken |-> 0,
   disabled |-> FALSE, cooldownUntil |-> None, tracker |-> InitTracker]

IsKeyCoolingDown(e, now) ==
  \/ e.disabled
  \/ Later(e.tracker.until, now)
  \/ Later(e.cooldownUntil, now)

\* Mutant: a leased entry counts as usable.
UsableEvenIfLeased(e, now) == ~IsKeyCoolingDown(e, now)

IsUsable(e, now) == ~e.leased /\ ~IsKeyCoolingDown(e, now)

LeaseOut(e) ==
  [e EXCEPT !.leased = TRUE, !.nextToken = @ + 1, !.activeToken = e.nextToken + 1]

\* Mutant: report looks only at the credential id.
AcceptsAny(e, token) == TRUE

\* report: a lease without a token (reportByValue) is accepted as it stands,
\* a lease with one only while that token is the active one.
Accepts(e, token) == token = None \/ token = e.activeToken

Outcomes == {"success", "authentication_failed", "rate_limited", "neutral", "cancelled"}

\* Mutant: the flag that isUsable reads is not reset.
ReleasedTokenOnly(e) == [e EXCEPT !.activeToken = None]

Released(e) == [e EXCEPT !.leased = FALSE, !.activeToken = None]

\* Mutant: a rejected key is only released.
DisabledNot(e) == [Released(e) EXCEPT !.cooldownUntil = None]

Disabled(e) == [Released(e) EXCEPT !.disabled = TRUE, !.cooldownUntil = None]

\* Mutant: the entry's own clock runs the first rung at every failure.
EntryUntilFlat(t, now) == now + Tiers[1]

\* The entry's own clock after a rate limit, with no rateCooldownMs option.
EntryUntil(t, now) == now + t.current

\* The outcome applied to an accepted lease.
Settle(e, outcome, now) ==
  CASE outcome = "authentication_failed" ->
         Disabled(e)
    [] outcome = "rate_limited" ->
         LET t == RecordFailure(e.tracker, now)
         IN  [Released(e) EXCEPT !.tracker = t, !.cooldownUntil = EntryUntil(t, now)]
    [] outcome = "success" ->
         [Released(e) EXCEPT !.tracker = InitTracker, !.cooldownUntil = None]
    [] outcome = "cancelled" ->
         [Released(e) EXCEPT
            !.cooldownUntil = IF @ # None /\ @ <= now THEN None ELSE @]
    [] OTHER -> Released(e)

RestoreCooldownState(e, row) ==
  [e EXCEPT !.tracker = row,
            !.cooldownUntil = IF row.until # None THEN row.until ELSE @]

=============================================================================
