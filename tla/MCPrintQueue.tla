---------------------------- MODULE MCPrintQueue -----------------------------
(* Constants of PrintQueue for TLC.                                        *)
EXTENDS PrintQueue, TLC

CONSTANTS j1, j2, m1, m2

TwoJobs   == {j1, j2}
TwoModels == {m1, m2}
Old(m)    == Row(TRUE, FALSE, m, Unknown)
Nothing   == [j \in TwoJobs |-> NoRow]
OneOld    == j1 :> Old(m1) @@ j2 :> NoRow
BothOld   == j1 :> Old(m1) @@ j2 :> Old(m2)
Scenario(r, p, rq, im, up, dl, f) ==
    [rows |-> r, polls |-> p, requests |-> rq, imports |-> im, uploads |-> up, downloads |-> dl,
     faults |-> f]
Few == {
    Scenario(Nothing, {"sidebar"}, 2, 0, 0, 0, 0),
    Scenario(OneOld, {"sidebar"}, 1, 0, 0, 0, 1),
    Scenario(OneOld, {"auto", "action"}, 1, 0, 0, 0, 0),
    Scenario(OneOld, {"auto"}, 0, 1, 0, 0, 1),
    Scenario(OneOld, {}, 1, 0, 1, 1, 0),
    Scenario(OneOld, {}, 1, 1, 1, 0, 0),
    Scenario(OneOld, {}, 1, 0, 1, 0, 1),
    Scenario(BothOld, {}, 1, 0, 0, 0, 0)}
=============================================================================
