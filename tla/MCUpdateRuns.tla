----------------------------- MODULE MCUpdateRuns -----------------------------
(* Constants of UpdateRuns for TLC.                                        *)
EXTENDS UpdateRuns

CONSTANTS b1, b2, v1, v2

TwoBoxes == {b1, b2}
TwoVersions == {v1, v2}
NewerOrAny  == {v2, NoVersion}

\* The ordinary case: the farm runs v1 and there is an update to do.
Older       == {v1}

Budget(updates, rollbacks, cancels, crashes, faults, published) ==
    [update |-> updates, rollback |-> rollbacks, cancel |-> cancels, crash |-> crashes,
     fault |-> faults, publish |-> published]
Few == {
    Budget(1, 0, 1, 1, 1, 1),
    Budget(0, 1, 1, 1, 1, 0),
    Budget(2, 0, 0, 1, 0, 0),
    Budget(1, 1, 0, 0, 0, 0)}
=============================================================================
