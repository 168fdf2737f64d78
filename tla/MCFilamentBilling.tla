-------------------------- MODULE MCFilamentBilling --------------------------
(* Two trays, a two-colour file whose estimate is cached and a file without  *)
(* one, and two ways the AMS may describe its trays when a print starts.     *)
EXTENDS FilamentBilling, TLC

CONSTANTS plate, spare, red, blue

TwoFiles == {plate, spare}
PlateOnly == plate :> (1 :> red @@ 2 :> red) @@ spare :> << >>

\* Both slots are red and so is one tray, which the printer takes for empty.
OneRed == [mapping |-> << >>, color |-> <<red, NoColor>>, loaded |-> {2}, active |-> 1]

\* The printer maps the second slot only.
Partly == [mapping |-> <<NoTray, 2>>, color |-> <<red, blue>>, loaded |-> {1, 2},
           active |-> NoTray]

SomeLoads == {OneRed, Partly}
=============================================================================
