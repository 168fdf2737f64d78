----------------------------- MODULE MCPollCycle -----------------------------
(* Constants of PollCycle for TLC.                                         *)
EXTENDS PollCycle

CONSTANTS p1, p2, t0, t1

OnePrinter  == {p1}
TwoPrinters == {p1, p2}
TwoTargets  == {t0, t1}

Scenario(fleet, saves, deletes, sets, prints, drops) ==
    [fleet  |-> fleet,
     budget |-> [save |-> saves, delete |-> deletes, set |-> sets, run |-> prints,
                 drop |-> drops, fault |-> MaxFaults]]
Each == {
    Scenario({p1, p2}, 1, 1, 0, 0, 0),
    Scenario({p1, p2}, 0, 0, 0, 1, 0),
    Scenario({p1}, 1, 0, 0, 1, 0),
    Scenario({p1}, 0, 1, 0, 1, 0),
    Scenario({p2}, 0, 0, 1, 1, 0),
    Scenario({p1}, 0, 0, 1, 0, 1),
    Scenario({p1}, 0, 0, 0, 2, 0),
    Scenario({p1}, 0, 0, 0, 1, 1),
    Scenario({p1}, 0, 0, 0, 0, 2)}
=============================================================================
