--------------------------- MODULE FilamentStation ---------------------------
(***************************************************************************)
(* The filament station: spools, the tag that identifies one, and the      *)
(* assignments of spools to the trays of a printer.  People assign, edit   *)
(* and delete (filamentStation.js, postgres.js); the poller catalogues     *)
(* tags and decides from the trays' reports which assignments are due and  *)
(* which are stale (filament_matcher.go, assignments.go); the web server's *)
(* replay pushes what is due to the printer (app.js).  Every statement is  *)
(* a step of its own.                                                      *)
(***************************************************************************)
EXTENDS Naturals, FiniteSets

CONSTANTS
    Trays, Spools,
    Types,      \* material and colour
    Unused,     \* a spool id that no row has had yet
    Gone,       \* a deleted spool
    NoRow, NoSpool,
    Scenarios   \* initial trays and how many loads, requests, edits and faults there may be

Tray == [present : BOOLEAN, type : Types \cup {"empty", "untyped"}, tagged : BOOLEAN, load : Nat]
Row ==
    [spool : Spools, pending : BOOLEAN, seen : Types \cup {"none"}, load : Nat, due : BOOLEAN,
     result : {"none", "ok", "failed"}]
Budgets ==
    [trays : [Trays -> Tray], spools : [Spools -> Types \cup {Unused, Gone}], tag : SUBSET Spools,
     loads : Nat, requests : Nat, edits : Nat, faults : Nat, faulty : BOOLEAN]

ASSUME ConstantsAssumption ==
    /\ {"empty", "untyped", Unused, Gone} \cap Types = {}
    /\ NoSpool \notin Spools /\ NoRow \notin Row \cup Tray \cup Trays
    /\ Scenarios \subseteq Budgets
    /\ \A s \in Scenarios : s.tag = {} \/ \E p \in Spools : s.tag = {p}
    /\ \A s \in Scenarios : s.faults > 0 => s.faulty

VARIABLES
    spools,     \* filament_spools: what each spool is
    tag,        \* the spools whose tag_uid is the one tag there is
    tray,       \* the printer's trays
    rows,       \* filament_station_assignments, by tray
    bambu,      \* the printer's profile is one of BAMBU_PROFILES
    request,    \* handleAssignments, POST
    poll,       \* matchOrCreateFilamentSpools, then detectBambuAssignmentTriggers
    replay,     \* runFilamentAssignmentReplayPass
    budget,     \* what is left of the scenario
    taken,      \* history: the spool whose setting the printer took last, by tray
    doubt,      \* history: trays whose row was changed under a push, or pushed while empty
    pushes,     \* history: pushes by the replay since a tray was assigned, up to two, of
                \* rows that were due on a report that named a type
    unlinked,   \* history: trays unlinked although what they hold stayed in place
    catalogued  \* history: the tag was linked between the matcher's lookup and its insert

inventory == <<spools, tag, catalogued>>
history == <<taken, doubt, pushes>>
vars == <<inventory, tray, rows, bambu, request, poll, replay, budget, history, unlinked>>

Idle == [step |-> "idle"]
NoReport == [t \in Trays |-> NoRow]
NotReplaying ==
    [step |-> "idle", todo |-> {}, rows |-> NoReport, types |-> NoReport, live |-> {}, at |-> NoRow,
     touched |-> {}, took |-> FALSE]

Init ==
    /\ budget \in Scenarios
    /\ spools = budget.spools /\ tag = budget.tag /\ tray = budget.trays
    /\ rows = [t \in Trays |-> NoRow] /\ bambu = TRUE
    /\ request = Idle
    /\ poll = [step |-> "idle", todo |-> {}, report |-> NoReport, rows |-> NoReport,
               live |-> {}, at |-> NoRow, spool |-> NoSpool]
    /\ replay = NotReplaying
    /\ taken = [t \in Trays |-> NoSpool] /\ doubt = {}
    /\ pushes = [t \in Trays |-> 0] /\ unlinked = {} /\ catalogued = FALSE

Spend(kind) == budget[kind] > 0 /\ budget' = [budget EXCEPT ![kind] = @ - 1]

Exists(s) == spools[s] \in Types
Loaded(x) == x.type # "empty"
TypeOf(x) == IF x.type \in Types THEN x.type ELSE "none"

-----------------------------------------------------------------------------
(* The trays.                                                              *)

\* Somebody loads a tray, empties it, or unplugs the unit it is in.
Handle(t) ==
    /\ Spend("loads")
    /\ \/ \E type \in Types \cup {"untyped"}, tagged \in BOOLEAN :
            /\ tray[t].present /\ ~Loaded(tray[t])
            /\ tray' = [tray EXCEPT ![t] = [@ EXCEPT !.type = type, !.tagged = tagged, !.load = tray[t].load + 1]]
       \/ /\ Loaded(tray[t])
          /\ tray' = [tray EXCEPT ![t] = [@ EXCEPT !.type = "empty", !.tagged = FALSE]]
       \/ tray' = [tray EXCEPT ![t].present = ~@]
    /\ UNCHANGED <<inventory, rows, bambu, request, poll, replay, history, unlinked>>

\* The printer takes a setting unless the tray is empty, and reports it from then on.
Push(t, s, type) ==
    IF tray[t].present /\ Loaded(tray[t])
    THEN tray' = [tray EXCEPT ![t].type = type] /\ taken' = [taken EXCEPT ![t] = s]
    ELSE UNCHANGED <<tray, taken>>

-----------------------------------------------------------------------------
(* Assignments.                                                            *)

NewRow(s, pending, result) ==
    [spool |-> s, pending |-> pending, seen |-> "none", load |-> 0, due |-> FALSE, result |-> result]

\* Slip: the fingerprint of the spool before is kept.
KeepFingerprint(t, s, pending) ==
    IF rows[t] = NoRow THEN NewRow(s, pending, "none")
    ELSE [NewRow(s, pending, rows[t].result) EXCEPT !.seen = rows[t].seen]

\* A tray that has an assignment keeps its row, and the row its last result.
Upserted(t, s, pending) ==
    NewRow(s, pending, IF rows[t] = NoRow THEN "none" ELSE rows[t].result)

Touch(t) == IF replay.step = "idle" THEN replay ELSE [replay EXCEPT !.touched = @ \cup {t}]

\* Nothing tells the replay, which may be pushing what the row was, and a result
\* may be left of what it was.
Upsert(t, s, pending) ==
    /\ rows' = [rows EXCEPT ![t] = Upserted(t, s, pending)]
    /\ replay' = Touch(t)
    /\ pushes' = [pushes EXCEPT ![t] = 0]
    /\ doubt' = IF replay.rows[t] # NoRow \/ (rows[t] # NoRow /\ rows[t].result = "ok")
                THEN doubt \cup {t} ELSE doubt \ {t}
    /\ UNCHANGED taken

\* What was read of a deleted row names no row any more.
Delete(T, pollNext) ==
    /\ rows' = [t \in Trays |-> IF t \in T THEN NoRow ELSE rows[t]]
    /\ poll' = [pollNext EXCEPT !.live = @ \ T]
    /\ replay' = [replay EXCEPT !.live = @ \ T]

\* What the page shows of an assignment.
Badge(row) == IF row.pending THEN "will apply" ELSE IF row.result = "ok" THEN "applied" ELSE "assigned"

-----------------------------------------------------------------------------
(* People.                                                                 *)

requestVars == <<inventory, bambu, poll, unlinked>>

\* The spool is read before the assignment is written and pushed.
StartAssign(t, s, pending) ==
    /\ request.step = "idle" /\ Exists(s) /\ Spend("requests")
    /\ request' = [step |-> "write", tray |-> t, spool |-> s, type |-> spools[s], pending |-> pending]
    /\ UNCHANGED <<tray, rows, replay, history, requestVars>>

\* The reference to the spool is checked when the row is written.
WriteAssign ==
    /\ request.step = "write"
    /\ IF Exists(request.spool)
       THEN Upsert(request.tray, request.spool, request.pending)
       ELSE UNCHANGED <<rows, replay, history>>
    /\ request' = IF Exists(request.spool) /\ ~request.pending /\ bambu THEN [request EXCEPT !.step = "push"] ELSE Idle
    /\ UNCHANGED <<tray, budget, requestVars>>

\* A failed push is only reported to who asked.
PushAssign(sent) ==
    /\ request.step = "push" /\ (~sent => Spend("faults")) /\ (sent => UNCHANGED budget)
    /\ IF sent THEN Push(request.tray, request.spool, request.type) ELSE UNCHANGED <<tray, taken>>
    /\ IF rows[request.tray] # NoRow /\ rows[request.tray].spool # request.spool
       THEN doubt' = doubt \cup {request.tray} /\ replay' = Touch(request.tray)
       ELSE UNCHANGED <<doubt, replay>>
    /\ request' = Idle
    /\ UNCHANGED <<rows, pushes, requestVars>>

Unassign(t) ==
    /\ rows[t] # NoRow /\ Spend("requests")
    /\ Delete({t}, poll)
    /\ UNCHANGED <<inventory, tray, bambu, request, history, unlinked>>

Cascaded(s) == {t \in Trays : rows[t] # NoRow /\ rows[t].spool = s}

DeleteSpool(s) ==
    /\ Exists(s) /\ Spend("edits")
    /\ spools' = [spools EXCEPT ![s] = Gone] /\ tag' = tag \ {s}
    /\ Delete(Cascaded(s), poll)
    /\ UNCHANGED <<tray, bambu, request, history, unlinked, catalogued>>

EditSpool(s, type) ==
    /\ Exists(s) /\ spools[s] # type /\ Spend("edits")
    /\ spools' = [spools EXCEPT ![s] = type]
    /\ UNCHANGED <<tag, catalogued, tray, rows, bambu, request, poll, replay, history, unlinked>>

\* Slip: the spool that had the tag keeps it.
Tagged(s) == tag \cup {s}

\* The tag is taken off the spool that had it, even when it goes to no spool.
Retagged(s) == IF Exists(s) THEN {s} ELSE {}

LinkTag(s) ==
    /\ spools[s] # Unused /\ Spend("edits")
    /\ tag' = Retagged(s)
    /\ catalogued' = (catalogued \/ poll.step = "create")
    /\ UNCHANGED <<spools, tray, rows, bambu, request, poll, replay, history, unlinked>>

EditProfile ==
    /\ Spend("edits") /\ bambu' = ~bambu
    /\ UNCHANGED <<inventory, tray, rows, request, poll, replay, history, unlinked>>

People ==
    \/ \E t \in Trays : Unassign(t) \/ Handle(t) \/ \E s \in Spools, pending \in BOOLEAN : StartAssign(t, s, pending)
    \/ \E s \in Spools : DeleteSpool(s) \/ LinkTag(s) \/ \E type \in Types : EditSpool(s, type)
    \/ EditProfile

Answer == WriteAssign \/ \E sent \in BOOLEAN : PushAssign(sent)

-----------------------------------------------------------------------------
(* The poller, once per cycle.                                             *)

pollVars == <<tray, bambu, request, budget, taken>>

\* One report serves both passes.
StartPoll ==
    /\ poll.step = "idle" /\ bambu
    /\ poll' = [poll EXCEPT !.step = "find", !.report = tray,
                  !.todo = {t \in Trays : tray[t].present /\ tray[t].tagged}]
    /\ UNCHANGED <<inventory, rows, replay, doubt, pushes, unlinked, pollVars>>

\* findFilamentSpoolByTag.
FindTag ==
    /\ poll.step = "find"
    /\ IF poll.todo = {}
       THEN poll' = [poll EXCEPT !.step = "list"]
       ELSE \E t \in poll.todo :
              IF tag = {} THEN poll' = [poll EXCEPT !.step = "create", !.at = t]
              ELSE \E s \in tag : poll' = [poll EXCEPT !.step = "select", !.at = t, !.spool = s]
    /\ UNCHANGED <<inventory, rows, replay, doubt, pushes, unlinked, pollVars>>

NextTag == [poll EXCEPT !.step = "find", !.todo = @ \ {poll.at}, !.at = NoRow, !.spool = NoSpool]

\* createFilamentSpoolFromTray.
Catalog ==
    /\ poll.step = "create"
    /\ IF \A s \in Spools : spools[s] # Unused THEN UNCHANGED <<spools, tag>>
       ELSE \E s \in Spools, type \in Types :
              /\ spools[s] = Unused
              /\ poll.report[poll.at].type \in {type, "untyped"}
              /\ spools' = [spools EXCEPT ![s] = type] /\ tag' = tag \cup {s}
    /\ poll' = NextTag
    /\ UNCHANGED <<catalogued, rows, replay, doubt, pushes, unlinked, pollVars>>

\* ensureAutoAssignment.
SelectRow ==
    /\ poll.step = "select"
    /\ poll' = IF rows[poll.at] # NoRow /\ rows[poll.at].spool = poll.spool THEN NextTag
               ELSE [poll EXCEPT !.step = "insert"]
    /\ UNCHANGED <<inventory, rows, replay, doubt, pushes, unlinked, pollVars>>

InsertRow ==
    /\ poll.step = "insert"
    /\ IF Exists(poll.spool)
       THEN Upsert(poll.at, poll.spool, TRUE) /\ poll' = NextTag
       ELSE poll' = [NextTag EXCEPT !.step = "list"] /\ UNCHANGED <<rows, replay, history>>
    /\ UNCHANGED <<inventory, tray, bambu, request, budget, unlinked>>

ListRows ==
    /\ poll.step = "list"
    /\ poll' = [poll EXCEPT !.step = "rows", !.rows = rows,
                  !.live = {t \in Trays : rows[t] # NoRow}, !.todo = {t \in Trays : rows[t] # NoRow}]
    /\ UNCHANGED <<inventory, rows, replay, doubt, pushes, unlinked, pollVars>>

Stale(row, x) == ~x.present \/ (row.seen # "none" /\ TypeOf(x) \notin {"none", row.seen})

Due(row, x) == row.pending /\ row.seen = "none" /\ Loaded(x)

\* By id: a row that was deleted is not touched, one that was reassigned is.
CheckRow(t) ==
    LET row == poll.rows[t]
        x == poll.report[t]
        live == t \in poll.live
        next == [poll EXCEPT !.todo = @ \ {t}, !.rows[t] = NoRow, !.live = @ \ {t}]
    IN /\ poll.step = "rows" /\ t \in poll.todo
       /\ IF Stale(row, x) /\ live
          THEN /\ Delete({t}, next)
               /\ unlinked' = IF x.present /\ row.load = x.load THEN unlinked \cup {t} ELSE unlinked
          ELSE /\ rows' = IF x.present /\ Due(row, x) /\ live
                          THEN [rows EXCEPT ![t].seen = TypeOf(x), ![t].load = x.load, ![t].due = TRUE]
                          ELSE rows
               /\ poll' = next /\ UNCHANGED <<replay, unlinked>>
       /\ UNCHANGED <<inventory, doubt, pushes, pollVars>>

EndPoll ==
    /\ poll.step = "rows" /\ poll.todo = {}
    /\ poll' = [poll EXCEPT !.step = "idle", !.report = NoReport]
    /\ UNCHANGED <<inventory, rows, replay, doubt, pushes, unlinked, pollVars>>

\* A statement fails: of the matcher, detection goes on; of detection, it ends.
FailPoll ==
    /\ poll.step # "idle" /\ Spend("faults")
    /\ poll' = IF poll.step \in {"list", "rows"}
               THEN [poll EXCEPT !.step = "idle", !.todo = {}, !.report = NoReport, !.rows = NoReport,
                              !.live = {}]
               ELSE [poll EXCEPT !.step = "list", !.todo = {}, !.at = NoRow, !.spool = NoSpool]
    /\ UNCHANGED <<inventory, rows, replay, history, unlinked, tray, bambu, request>>

Poll ==
    \/ StartPoll \/ FindTag \/ Catalog \/ SelectRow \/ InsertRow \/ ListRows \/ EndPoll
    \/ \E t \in Trays : CheckRow(t)

-----------------------------------------------------------------------------
(* The replay, one pass at a time.                                         *)

replayVars == <<inventory, bambu, request, poll, unlinked>>

ListDue ==
    /\ replay.step = "idle" /\ \E t \in Trays : rows[t] # NoRow /\ rows[t].due
    /\ LET due == {t \in Trays : rows[t] # NoRow /\ rows[t].due}
       IN replay' = [replay EXCEPT !.step = "pick", !.todo = due, !.live = due, !.touched = {},
            !.rows = [t \in Trays |-> IF t \in due THEN rows[t] ELSE NoRow],
            !.types = [t \in Trays |-> IF t \in due THEN spools[rows[t].spool] ELSE NoRow]]
    /\ UNCHANGED <<tray, rows, budget, history, replayVars>>

\* getPrinterById: a printer that could not be read is as good as none.
PickDue(t, found) ==
    /\ replay.step = "pick" /\ t \in replay.todo
    /\ (~found => Spend("faults")) /\ (found => UNCHANGED budget)
    /\ replay' = [replay EXCEPT !.todo = @ \ {t}, !.at = t, !.took = FALSE,
                    !.step = IF found /\ bambu THEN "send" ELSE "failed"]
    /\ UNCHANGED <<tray, rows, history, replayVars>>

Same(t) == t \in replay.live \ replay.touched

SendDue(sent) ==
    LET t == replay.at IN
    /\ replay.step = "send" /\ (~sent => Spend("faults")) /\ (sent => UNCHANGED budget)
    /\ IF sent
       THEN /\ Push(t, replay.rows[t].spool, replay.types[t])
            /\ pushes' = IF Same(t) /\ replay.rows[t].seen # "none" /\ pushes[t] < 2 THEN [pushes EXCEPT ![t] = @ + 1] ELSE pushes
       ELSE UNCHANGED <<tray, taken, pushes>>
    /\ replay' = [replay EXCEPT !.step = IF sent THEN "ok" ELSE "failed",
                    !.took = sent /\ tray[t].present /\ Loaded(tray[t])]
    /\ UNCHANGED <<rows, doubt, replayVars>>

\* Slip: the trigger is left.
StillDue(row, result) == [row EXCEPT !.pending = FALSE, !.result = result]

\* Slip: every result is recorded as a success.
AlwaysOk(row, result) == [row EXCEPT !.due = FALSE, !.pending = FALSE, !.result = "ok"]

Recorded(row, result) == [row EXCEPT !.due = FALSE, !.pending = FALSE, !.result = result]

NextDue ==
    IF replay.todo = {} THEN NotReplaying
    ELSE [replay EXCEPT !.step = "pick", !.at = NoRow, !.took = FALSE, !.rows[replay.at] = NoRow,
                        !.types[replay.at] = NoRow, !.live = @ \ {replay.at}]

\* recordAssignmentTriggerResult, by id.
RecordDue ==
    LET t == replay.at IN
    /\ replay.step \in {"ok", "failed"}
    /\ rows' = IF t \in replay.live THEN [rows EXCEPT ![t] = Recorded(@, replay.step)] ELSE rows
    /\ doubt' = IF Same(t) THEN IF replay.took \/ replay.step = "failed" THEN doubt \ {t} ELSE doubt \cup {t} ELSE doubt
    /\ replay' = NextDue
    /\ UNCHANGED <<tray, budget, taken, pushes, replayVars>>

\* What could not be recorded as pushed is recorded as failed; if that fails too,
\* or the server stops, the pass ends and the rows stay due.
FailRecord ==
    /\ replay.step # "idle" /\ Spend("faults")
    /\ \/ /\ replay.step = "ok" /\ replay' = [replay EXCEPT !.step = "failed"]
       \/ replay' = NotReplaying
    /\ UNCHANGED <<tray, rows, history, replayVars>>

Replay ==
    \/ ListDue \/ RecordDue \/ \E sent \in BOOLEAN : SendDue(sent)
    \/ \E t \in Trays, found \in BOOLEAN : PickDue(t, found)

Next == People \/ Answer \/ Poll \/ FailPoll \/ Replay \/ FailRecord

Spec == Init /\ [][Next]_vars

\* The poller's cycles and the replay's passes recur; nobody must use the station.
FairSpec == Spec /\ WF_vars(Poll) /\ WF_vars(Replay) /\ WF_vars(Answer)

-----------------------------------------------------------------------------
(* What the station promises.                                              *)

Assigning == [step : {"write", "push"}, tray : Trays, spool : Spools, type : Types, pending : BOOLEAN]
Polling ==
    [step : {"idle", "find", "create", "select", "insert", "list", "rows"}, todo : SUBSET Trays,
     report : [Trays -> Tray \cup {NoRow}], rows : [Trays -> Row \cup {NoRow}], live : SUBSET Trays,
     at : Trays \cup {NoRow}, spool : Spools \cup {NoSpool}]
Replaying ==
    [step : {"idle", "pick", "send", "ok", "failed"}, todo : SUBSET Trays,
     rows : [Trays -> Row \cup {NoRow}], types : [Trays -> Types \cup {NoRow}], live : SUBSET Trays,
     at : Trays \cup {NoRow}, touched : SUBSET Trays, took : BOOLEAN]

\* Every assignment is of a spool that exists (ON DELETE CASCADE).
Referenced == \A t \in Trays : rows[t] # NoRow => Exists(rows[t].spool)

\* What people, the poller and the replay hold keeps its shape.
TypeOK ==
    /\ spools \in [Spools -> Types \cup {Unused, Gone}] /\ tag \subseteq Spools
    /\ tray \in [Trays -> Tray] /\ bambu \in BOOLEAN /\ budget \in Budgets
    /\ rows \in [Trays -> Row \cup {NoRow}] /\ Referenced
    /\ request \in Assigning \cup {Idle} /\ poll \in Polling /\ replay \in Replaying
    /\ taken \in [Trays -> Spools \cup {NoSpool}] /\ pushes \in [Trays -> 0..2]
    /\ doubt \subseteq Trays /\ unlinked \subseteq Trays /\ catalogued \in BOOLEAN

\* postgres.js:3077: a scan resolves to one spool, unless the tag was linked just
\* as the poller catalogued it.
TagOnOneSpool == Cardinality(tag) <= 1 \/ catalogued

\* FilamentStation.tsx: "Applied" names what the printer was last told, unless the
\* row was reassigned under a push or an old result, or the tray was empty then.
AppliedIsTaken ==
    \A t \in Trays \ doubt :
        rows[t] # NoRow /\ Badge(rows[t]) = "applied" => taken[t] = rows[t].spool

\* An assignment whose tray reported its type when it was found due is pushed once,
\* as long as results can be recorded.
PushedOnce == \A t \in Trays : pushes[t] = 2 => budget.faulty

\* Whatever is due or will be on loading is decided while the tray stays loaded; two
\* spools with the same tag may take turns in the tray for ever.
PendingIsDecided ==
    \A t \in Trays :
        (rows[t] # NoRow /\ rows[t].pending) ~>
            (rows[t] = NoRow \/ ~rows[t].pending \/ ~Loaded(tray[t]) \/ ~bambu \/ catalogued)

\* assignments.go:133: an assignment is taken off only when a different spool is in
\* the tray.
KeptInPlace == unlinked = {}
=============================================================================
