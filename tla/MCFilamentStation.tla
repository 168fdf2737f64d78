-------------------------- MODULE MCFilamentStation --------------------------
(* Constants of FilamentStation for TLC.                                   *)
EXTENDS FilamentStation, TLC

CONSTANTS s1, s2, s3, t1, t2, pla, petg

OneTray == {t1}
ThreeSpools == {s1, s2, s3}
TwoTypes == {pla, petg}
Holding(type, tagged) == t1 :> [present |-> TRUE, type |-> type, tagged |-> tagged, load |-> 0]
Shelf == s1 :> pla @@ s2 :> petg @@ s3 :> Unused
Scenario(trays, tags, l, r, e, f) ==
    [trays |-> trays, spools |-> Shelf, tag |-> tags, loads |-> l, requests |-> r, edits |-> e,
     faults |-> f, faulty |-> f > 0]
Few == {
    Scenario(Holding("empty", FALSE), {}, 2, 1, 0, 0),
    Scenario(Holding(pla, FALSE), {}, 0, 2, 1, 0),
    Scenario(Holding(pla, FALSE), {}, 0, 2, 0, 1),
    Scenario(Holding("untyped", TRUE), {}, 0, 0, 1, 0),
    Scenario(Holding(pla, TRUE), {s2}, 0, 1, 0, 0),
    Scenario(Holding(pla, TRUE), {s2}, 1, 0, 1, 0)}
OneRequest == {Scenario(Holding(pla, FALSE), {}, 0, 1, 0, 0)}
=============================================================================
