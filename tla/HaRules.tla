------------------------------ MODULE HaRules -------------------------------
(***************************************************************************)
(* The automation rules between printers and Home Assistant, and what they *)
(* promise: a rule names a source and the value at which it fires, and     *)
(* fires for what its source does, never for what it did before.           *)
(***************************************************************************)
EXTENDS Naturals, Sequences

CONSTANTS
    Printers, Entities,
    Values,     \* statuses of printers and states of entities
    Ids         \* of rules, in the order they are created

Sources == Printers \cup Entities
Rule == [id : Ids, source : Sources, value : Values, enabled : BOOLEAN]

\* A list of rules names each of them once.
IsList(list) ==
    list \in Seq(Rule) /\ \A m, n \in DOMAIN list : list[m].id = list[n].id => m = n

VARIABLES
    due,        \* history: changes of sources to values that rules have not fired for since
    older,      \* history: those of them from before the rule was created
    fired       \* history: how often a rule has fired for a source and a value

Firing(i, s, v) == fired'[i][s][v] # fired[i][s][v]

\* A rule fires for a source that has changed to its value since the rule last fired for it, whatever
\* administrators edit and however often the engine restarts: no change is replayed (app.js:475-479).
FiresOncePerChange ==
    [][\A i \in Ids, s \in Sources, v \in Values : Firing(i, s, v) => <<i, s, v>> \in due]_fired

\* Adding a rule does not replay what its source did before (app.js:477-478).  False: what was last
\* seen of a source outlives the rules on it, and is no baseline for a rule that is added later.
AddedRuleWaits ==
    [][\A i \in Ids, s \in Sources, v \in Values : Firing(i, s, v) => <<i, s, v>> \notin older]_fired
=============================================================================
