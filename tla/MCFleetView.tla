---------------------------- MODULE MCFleetView ----------------------------
(* Constants of FleetView for TLC.                                         *)
EXTENDS FleetView

CONSTANTS a, b

Scenario(j, s, o, w, f) == [jobs |-> j, pauses |-> s, outages |-> o, warm |-> w, faults |-> f]
Few == {
    Scenario({a, b}, 0, 0, FALSE, 0),
    Scenario({a}, 1, 0, FALSE, 0),
    Scenario({a}, 0, 0, FALSE, 1),
    Scenario({a}, 0, 1, FALSE, 0),
    Scenario({}, 0, 1, TRUE, 0),
    Scenario({}, 0, 0, TRUE, 1)}
=============================================================================
