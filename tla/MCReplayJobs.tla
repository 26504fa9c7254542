--------------------------- MODULE MCReplayJobs ---------------------------
(* Requests and windows for TLC. *)
EXTENDS ReplayJobs

CONSTANTS c1, c2

Ask(opening, from, to, force) == [opening |-> opening, from |-> from, to |-> to, force |-> force]
Over(start, end)              == [start |-> start, end |-> end]

Opening == Ask(0, None, None, FALSE)
Again   == Ask(None, 1, None, FALSE)
Partly  == Ask(None, None, 1, FALSE)
Forced  == Ask(None, None, None, TRUE)

MCWindows   == {Over(0, 1), Over(1, 2)}
MCScenarios == {[callers |-> {c1}, requests |-> {Plain, Opening, Again, Partly, Forced}, reorgs |-> 1],
                [callers |-> {c1, c2}, requests |-> {Plain}, reorgs |-> 0]}

\* One caller, who gives an opening and goes on without.
MCOpening == {[callers |-> {c1}, requests |-> {Plain, Opening}, reorgs |-> 0]}
=============================================================================
