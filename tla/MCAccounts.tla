----------------------------- MODULE MCAccounts -----------------------------
(* Constants of Accounts for TLC.                                          *)
EXTENDS Accounts, TLC

CONSTANTS h1, h2, u1, u2, u3, k1, k2, ann, bob, old, new

ThreeIds == {u1, u2, u3}
TwoNames == {ann, bob}
TwoRoles == {"admin", "operator"}
Acc(name, role, legacy) == [name |-> name, role |-> role, password |-> old, legacy |-> legacy]
TwoAccounts == u1 :> Acc(ann, "operator", TRUE) @@ u2 :> Acc(bob, "operator", FALSE) @@ u3 :> Unused
OneAccount == u1 :> Acc(ann, "operator", FALSE) @@ u2 :> Unused @@ u3 :> Unused
OneCreated == {Acc(bob, "admin", FALSE)}
Scenario(list, e, c, l, r, o, f) ==
    [users |-> list, edits |-> e, creates |-> c, logins |-> l, calls |-> r, logouts |-> o, faults |-> f]
Few == {
    Scenario(TwoAccounts, 2, 0, 1, 0, 0, 0),
    Scenario(TwoAccounts, 1, 0, 2, 0, 0, 0),
    Scenario(OneAccount, 1, 2, 1, 0, 0, 0),
    Scenario(OneAccount, 1, 0, 1, 3, 1, 1)}
=============================================================================
