---------------------------- MODULE MCMaintenance ----------------------------
(* Constants of Maintenance for TLC.                                       *)
EXTENDS Maintenance, TLC

CONSTANTS clean, oil, a1

TwoTypes == {clean, oil}
Seldom   == clean :> 2
Both     == clean :> 1 @@ oil :> 2
Extended == {Seldom, Both}
None      == {}
Budget(h, sv, sr, f, w, l) ==
    [hours |-> h, save |-> sv, service |-> sr, fault |-> f, worn |-> w, list |-> l]
Few == {Budget(3, 0, 1, 0, TRUE, Seldom), Budget(2, 0, 1, 1, TRUE, Seldom),
        Budget(0, 2, 0, 1, FALSE, Seldom), Budget(1, 1, 0, 0, FALSE, Both)}
OneAdmin  == {a1}
=============================================================================
