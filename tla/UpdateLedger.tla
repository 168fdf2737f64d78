----------------------------- MODULE UpdateLedger -----------------------------
(***************************************************************************)
(* What the update_runs table promises whoever reads it: runs are recorded *)
(* in the order they are requested, one at a time, and the outcome of a    *)
(* run, once recorded, never changes.                                      *)
(***************************************************************************)
EXTENDS Naturals

CONSTANT Last      \* the number of runs that may be recorded

Runs     == 1..Last
Outcomes == {"succeeded", "failed", "timed_out", "cancelled"}

VARIABLE outcome   \* "unborn", "open", or the outcome of each run

Init == outcome = [r \in Runs |-> "unborn"]

Open(r) ==
    /\ outcome[r] = "unborn"
    /\ \A s \in Runs : s < r => outcome[s] \in Outcomes
    /\ outcome' = [outcome EXCEPT ![r] = "open"]

Close(r) ==
    /\ outcome[r] = "open"
    /\ \E o \in Outcomes : outcome' = [outcome EXCEPT ![r] = o]

Next == \E r \in Runs : Open(r) \/ Close(r)

Spec == Init /\ [][Next]_outcome
=============================================================================
