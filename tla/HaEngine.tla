------------------------------ MODULE HaEngine ------------------------------
(***************************************************************************)
(* The automation rules between printers and Home Assistant (app.js).  A   *)
(* background pass reads the rules, then what their printers and entities  *)
(* are at, and fires a rule whose source has changed to the rule's value   *)
(* since it was last seen.  What was last seen is kept in memory, one      *)
(* value per source.  Administrators read, change and write the whole list *)
(* of rules in between.  Each statement and each request is a step; what a *)
(* fired rule does, and whether it succeeds, changes nothing here.         *)
(***************************************************************************)
EXTENDS HaRules, FiniteSets, SequencesExt

CONSTANTS
    NoValue,    \* not seen, not read, or not there
    Scenarios   \* initial rules and values, and how many moves, edits and faults

ASSUME ConstantsAssumption ==
    /\ NoValue \notin Values /\ Ids \subseteq Nat /\ Printers \cap Entities = {}
    /\ \A s \in Scenarios :
        IsList(s.rules) /\ s.value \in Values /\ {s.moves, s.edits, s.faults} \subseteq Nat

VARIABLES
    rules,      \* the ha_automation_rules setting
    edited,     \* lists that administrators' requests have yet to write
    state,      \* what the printers table and Home Assistant say
    memory,     \* haEngineLastPrinterStatus, haEngineLastEntityState
    pass,       \* the pass under way: rules to evaluate, printers to read, what was read
    budget

vars == <<rules, edited, state, memory, pass, budget, due, older, fired>>

Unseen == [s \in Sources |-> NoValue]
Idle == [todo |-> <<>>, unread |-> {}, read |-> Unseen, asked |-> FALSE]

Init ==
    /\ budget \in Scenarios
    /\ rules = budget.rules /\ edited = {}
    /\ state = [s \in Sources |-> budget.value]
    /\ memory = Unseen /\ pass = Idle
    /\ due = {} /\ older = {}
    /\ fired = [i \in Ids |-> [s \in Sources |-> [v \in Values |-> 0]]]

Spend(kind) == budget[kind] > 0 /\ budget' = [budget EXCEPT ![kind] = @ - 1]

-----------------------------------------------------------------------------
(* A pass                                                                  *)

Active(list) == SelectSeq(list, LAMBDA r : r.enabled)
Of(list, sources) == SelectSeq(list, LAMBDA r : r.source \in sources)

\* evaluateHaRules never overlaps itself; the rules for Home Assistant come first.
StartPass ==
    LET active == Active(rules) IN
    /\ pass.todo = <<>> /\ active # <<>>
    /\ pass' = [Idle EXCEPT !.todo = Of(active, Printers) \o Of(active, Entities),
                            !.unread = {r.source : r \in Range(Of(active, Printers))}]
    /\ UNCHANGED <<rules, edited, state, memory, budget, due, older, fired>>

\* Slip: the status is remembered as it is read.
ReadAndRemember(p) ==
    /\ p \in pass.unread
    /\ pass' = [pass EXCEPT !.unread = @ \ {p}, !.read[p] = state[p]]
    /\ memory' = [memory EXCEPT ![p] = state[p]]
    /\ UNCHANGED <<rules, edited, state, budget, due, older, fired>>

\* getPrinterById, for each printer of a rule.
ReadPrinter(p) ==
    /\ p \in pass.unread
    /\ pass' = [pass EXCEPT !.unread = @ \ {p}, !.read[p] = state[p]]
    /\ UNCHANGED <<rules, edited, state, memory, budget, due, older, fired>>

\* The query fails, or the printer has been deleted: its rules are passed over.
MissPrinter(p) ==
    /\ p \in pass.unread /\ Spend("faults")
    /\ pass' = [pass EXCEPT !.unread = @ \ {p}]
    /\ UNCHANGED <<rules, edited, state, memory, due, older, fired>>

\* The rules for printers wait for one request for all entities.
AtEntities == pass.todo # <<>> /\ pass.unread = {} /\ Head(pass.todo).source \in Entities /\ ~pass.asked
ReadEntities ==
    /\ AtEntities
    /\ pass' = [pass EXCEPT !.asked = TRUE,
                            !.read = [s \in Sources |-> IF s \in Entities THEN state[s] ELSE @[s]]]
    /\ UNCHANGED <<rules, edited, state, memory, budget, due, older, fired>>

\* Home Assistant does not answer: the pass is over.
MissEntities ==
    /\ AtEntities /\ Spend("faults")
    /\ pass' = Idle
    /\ UNCHANGED <<rules, edited, state, memory, due, older, fired>>

\* Slip: only the first sight of a source is remembered.
RememberedOnce(s, now) == IF memory[s] = NoValue THEN [memory EXCEPT ![s] = now] ELSE memory

Remembered(s, now) == [memory EXCEPT ![s] = now]
Fires(r, last, now) == last # NoValue /\ last # now /\ now = r.value

\* A rule is evaluated on what was read, and its source then remembered.  The next rule waits
\* for the request of one that fires.
Evaluate ==
    LET r == Head(pass.todo)
        now == pass.read[r.source] IN
    /\ pass.todo # <<>> /\ pass.unread = {} /\ ~AtEntities
    /\ pass' = IF Tail(pass.todo) = <<>> THEN Idle ELSE [pass EXCEPT !.todo = Tail(@)]
    /\ memory' = IF now = NoValue THEN memory ELSE Remembered(r.source, now)
    /\ IF now # NoValue /\ Fires(r, memory[r.source], now)
       THEN /\ fired' = [fired EXCEPT ![r.id][r.source][r.value] = @ + 1]
            /\ due' = due \ {<<r.id, r.source, r.value>>}
            /\ older' = older \ {<<r.id, r.source, r.value>>}
       ELSE UNCHANGED <<due, older, fired>>
    /\ UNCHANGED <<rules, edited, state, budget>>

\* The server restarts: what was last seen is gone.
Crash ==
    /\ Spend("faults")
    /\ memory' = Unseen /\ pass' = Idle /\ edited' = {}
    /\ UNCHANGED <<rules, state, due, older, fired>>

-----------------------------------------------------------------------------
(* Administrators.  A request changes the list it has read and writes it.  *)

Known == {r.id : r \in UNION {Range(list) : list \in {rules, pass.todo} \cup edited}}
Added(r) == Append(rules, r)
Deleted(n) == RemoveAt(rules, n)

\* An update keeps the rule's id and place.
Changed(n, r) == [rules EXCEPT ![n] = r]

Edit(list) ==
    /\ Spend("edits") /\ edited' = edited \cup {list}
    /\ UNCHANGED <<rules, state, memory, pass, due, fired>>

\* Ids are never used twice.
Create(r) ==
    /\ \A i \in Known : i < r.id
    /\ \A s \in Sources, v \in Values : fired[r.id][s][v] = 0
    /\ Edit(Added(r)) /\ older' = older \cup {d \in due : d[1] = r.id}
Delete(n) == Edit(Deleted(n)) /\ UNCHANGED older
Update(n) ==
    \E r \in Rule : r.id = rules[n].id /\ Edit(Changed(n, r)) /\ UNCHANGED older

WriteRules ==
    \E list \in edited :
        /\ rules' = list /\ edited' = edited \ {list}
        /\ UNCHANGED <<state, memory, pass, budget, due, older, fired>>

Administrator ==
    \/ \E r \in Rule : Create(r)
    \/ \E n \in DOMAIN rules : Delete(n) \/ Update(n)
    \/ WriteRules

\* A printer or an entity changes.
Move(s, v) ==
    /\ state[s] # v /\ Spend("moves")
    /\ state' = [state EXCEPT ![s] = v]
    /\ due' = due \cup {<<i, s, v>> : i \in Ids}
    /\ older' = older \ {<<i, s, v>> : i \in Ids}
    /\ UNCHANGED <<rules, edited, memory, pass, fired>>

-----------------------------------------------------------------------------
PassStep ==
    \/ StartPass \/ ReadEntities \/ Evaluate
    \/ \E p \in Printers : ReadPrinter(p)
Failure == (\E p \in Printers : MissPrinter(p)) \/ MissEntities \/ Crash
Next == PassStep \/ Failure \/ Administrator \/ \E s \in Sources, v \in Values : Move(s, v)

Spec == Init /\ [][Next]_vars
\* The engine's timer never stops, and its requests time out.
FairSpec == Spec /\ WF_vars(PassStep)

-----------------------------------------------------------------------------
\* Type invariant.  Requests that read the list before one another never leave two rules with
\* one id, which is what the engine and the settings page tell them apart by.
TypeOK ==
    /\ \A list \in {rules} \cup edited : IsList(list)
    /\ state \in [Sources -> Values]
    /\ {memory, pass.read} \subseteq [Sources -> Values \cup {NoValue}]

RulesOn(s) == SelectSeq(Active(rules), LAMBDA r : r.source = s)
Firings(s, v) == FoldSet(LAMBDA i, sum : sum + fired[i][s][v], 0, Ids)

\* Between passes, with nobody editing and nothing failing any more: the source was last seen
\* elsewhere and is now at the value.
Arrived(s, v) ==
    /\ pass = Idle /\ edited = {} /\ budget.edits = 0 /\ budget.faults = 0
    /\ state[s] = v /\ memory[s] \notin {NoValue, v}

\* The first rule of a source fires when the source comes to its value and stays there
\* (README.md:274-275).
FirstReacts ==
    \A s \in Sources, v \in Values, n \in 0..1 :
        (Arrived(s, v) /\ RulesOn(s) # <<>> /\ Head(RulesOn(s)).value = v /\ Firings(s, v) = n)
            ~> (Firings(s, v) > n \/ state[s] # v)

\* So does every rule of the source.  False: the first one remembers the new value before the next
\* is evaluated.
EveryReacts ==
    \A s \in Sources, v \in Values, i \in Ids :
        (/\ Arrived(s, v) /\ fired[i][s][v] = 0
         /\ \E r \in Range(RulesOn(s)) : r.id = i /\ r.value = v)
            ~> (fired[i][s][v] > 0 \/ state[s] # v)
=============================================================================
