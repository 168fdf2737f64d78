----------------------------- MODULE MCHaEngine -----------------------------
(* Constants of HaEngine for TLC.                                          *)
EXTENDS HaEngine

CONSTANTS p1, e1, on, off

On(i, s, v) == [id |-> i, source |-> s, value |-> v, enabled |-> TRUE]
TwoValues == {on, off}

Scenario(list, v, m, e, f) == [rules |-> list, value |-> v, moves |-> m, edits |-> e, faults |-> f]
Few == {
    Scenario(<<On(1, p1, on)>>, off, 2, 1, 1),
    Scenario(<<On(1, p1, on), On(2, p1, on)>>, off, 3, 0, 1),
    Scenario(<<On(1, e1, on), On(2, p1, off)>>, on, 3, 0, 1),
    Scenario(<<On(1, e1, on)>>, off, 1, 2, 0)}
Pair == {Scenario(<<On(1, p1, on), On(2, p1, on)>>, off, 1, 0, 0)}
Lone == {Scenario(<<On(1, p1, on)>>, off, 1, 2, 0)}
=============================================================================
