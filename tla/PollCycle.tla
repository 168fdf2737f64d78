------------------------------ MODULE PollCycle ------------------------------
(***************************************************************************)
(* The printers table as its two writers see it: the Go poller, which      *)
(* reads every row at the start of a cycle, refreshes the printers over    *)
(* the network and writes whole rows back one by one (run.go), and the web *)
(* server, which creates, edits and deletes rows and stores a commanded    *)
(* temperature target while a cycle may be in flight (postgres.js).        *)
(*                                                                         *)
(* Every SQL statement is its own transaction, so a cycle is interleaved   *)
(* with the web server at statement granularity, and it can be cut short   *)
(* between two statements by a database error or a crash of the process.   *)
(***************************************************************************)
EXTENDS Integers, FiniteSets

CONSTANTS
    Printers,   \* printer ids, all of them owned by this poller's shard
    Jobs,       \* file names of print jobs
    Configs,    \* admin-owned configuration of a row (name, address, key, order)
    Targets,    \* chamber temperature targets
    NoTarget,   \* the target of a row the web server has just inserted
    Echoing,    \* printers whose report carries an explicit chamber target
    NoRow, NoJob, NoPrinter, NoSig,
    Grace,      \* poll intervals before an unreachable printer is shown offline
    Heartbeat,  \* poll intervals after which an unchanged row is written anyway
    Scenarios,  \* printers registered at first; how many saves, deletions, targets
                \* set, prints, drop-outs and faults may follow
    MaxFaults   \* the faults of every scenario

ASSUME ConstantsAssumption ==
    /\ Echoing \subseteq Printers
    /\ NoTarget \in Targets
    /\ NoJob \notin Jobs
    /\ NoPrinter \notin Printers
    /\ Grace \in Nat
    /\ Heartbeat \in Nat
    /\ \A s \in Scenarios :
         /\ s.fleet \subseteq Printers
         /\ s.budget \in [{"save", "delete", "set", "run", "drop", "fault"} -> Nat]
         /\ s.budget["fault"] = MaxFaults

VARIABLES
    table,      \* the printers table in PostgreSQL
    dev,        \* the physical printers
    phase,      \* where run()'s loop body is
    due,        \* the poll interval since the last cycle began has passed
    snap,       \* rows read by listPrinters at the start of this cycle
    result,     \* rows computed by refreshAll
    todo,       \* printers the write-back loop has not finished
    cur, stage, \* the printer with a job to finalise, and how far that got
    lastSig,    \* lastPersistSig: the row this process last wrote
    sinceWrite, \* ticks since lastPGWrite
    setting,    \* web handlers between the MQTT command and its UPDATE
    budget      \* how often the environment may still act

VARIABLES       \* history, for the properties only
    runs,       \* jobs each printer has started
    counted,    \* jobs added to analytics_daily
    redo,       \* jobs counted in a cycle that did not then write their row
    credited,   \* jobs whose hours were added to the row since its insertion
    wanted,     \* the configuration and target last stored by the web server
    raced,      \* <<printer, column>> stored while a cycle held the old row
    silent      \* ticks since the printer last answered a refresh

pollVars  == <<phase, due, snap, result, todo, cur, stage, lastSig, sinceWrite>>
ghostVars == <<runs, counted, redo, credited, wanted, raced, silent>>
vars      == <<table, dev, pollVars, setting, budget, ghostVars>>

Nil      == -1
Age      == 0..Grace
Statuses == {"idle", "printing", "offline"}
Row      == [cfg: Configs, target: Targets, status: Statuses,
             job: Jobs \cup {NoJob}, since: Age \cup {Nil}, hours: Nat]
Device   == [up: BOOLEAN, job: Jobs \cup {NoJob}, target: Targets]
\* The fields of persistFields; total_print_hours is not one of them.
Sig      == [cfg: Configs, target: Targets, status: Statuses,
             job: Jobs \cup {NoJob}, since: Age \cup {Nil}]

ASSUME SentinelAssumption == \A n \in {NoRow, NoSig} : n \notin Row \cup Sig

\* persistSignature: two equal rows have equal signatures.
SigOf(r) == [cfg |-> r.cfg, target |-> r.target, status |-> r.status,
             job |-> r.job, since |-> r.since]

Exists(p) == table[p] # NoRow

\* p's row will still be written from the snapshot this cycle took of it.
Pending(p) == \/ phase = "refresh" /\ snap[p] # NoRow
              \/ phase = "apply" /\ p \in todo

Spend(kind) == /\ budget[kind] > 0
               /\ budget' = [budget EXCEPT ![kind] = @ - 1]

-----------------------------------------------------------------------------
(* The poller: one cycle of run().                                         *)

NewRow(c) == [cfg |-> c, target |-> NoTarget, status |-> "offline",
              job |-> NoJob, since |-> Nil, hours |-> 0]

NoRows == [p \in Printers |-> NoRow]

Init ==
    /\ \E c \in Configs, s \in Scenarios :
         /\ table = [p \in Printers |-> IF p \in s.fleet THEN NewRow(c) ELSE NoRow]
         /\ budget = s.budget
         /\ wanted = [p \in Printers |-> [cfg |-> c, target |-> NoTarget]]
    /\ dev = [p \in Printers |-> [up |-> TRUE, job |-> NoJob, target |-> NoTarget]]
    /\ phase = "idle" /\ due = TRUE
    /\ snap = NoRows /\ result = NoRows
    /\ todo = {} /\ cur = NoPrinter /\ stage = "none"
    /\ lastSig = [p \in Printers |-> NoSig]
    /\ sinceWrite = [p \in Printers |-> Heartbeat]
    /\ setting = {}
    /\ runs = [p \in Printers |-> [j \in Jobs |-> 0]]
    /\ counted = runs /\ redo = runs
    /\ credited = [p \in Printers |-> 0]
    /\ raced = {}
    /\ silent = [p \in Printers |-> 0]

\* listPrinters, then pruneTracking of the printers that are gone.
StartCycle ==
    /\ phase = "idle" /\ due
    /\ phase' = "refresh" /\ due' = FALSE
    /\ snap' = table
    /\ lastSig' = [p \in Printers |-> IF Exists(p) THEN lastSig[p] ELSE NoSig]
    /\ UNCHANGED <<table, dev, result, todo, cur, stage, sinceWrite, setting,
                   budget, ghostVars>>

\* Slips of refreshStatus: offlineSince not cleared; the report merged over the
\* row of the last write; a target that is not reported taken for none.
LiveKeepingSince(p) ==
    [snap[p] EXCEPT
        !.status = IF dev[p].job = NoJob THEN "idle" ELSE "printing",
        !.job    = dev[p].job]
LiveOverCachedRow(p) ==
    [snap[p] EXCEPT
        !.cfg    = IF lastSig[p] = NoSig THEN @ ELSE lastSig[p].cfg,
        !.status = IF dev[p].job = NoJob THEN "idle" ELSE "printing",
        !.job    = dev[p].job,
        !.since  = Nil]
LiveWithoutCarry(p) ==
    [snap[p] EXCEPT
        !.status = IF dev[p].job = NoJob THEN "idle" ELSE "printing",
        !.job    = dev[p].job,
        !.target = IF p \in Echoing THEN dev[p].target ELSE NoTarget,
        !.since  = Nil]

\* What refreshStatus reports of a printer that answers, merged over its row.
Live(p) ==
    [snap[p] EXCEPT
        !.status = IF dev[p].job = NoJob THEN "idle" ELSE "printing",
        !.job    = dev[p].job,
        !.target = IF p \in Echoing THEN dev[p].target ELSE @,
        !.since  = Nil]

\* applyOfflineGracePeriod, for a printer that does not answer.
Unreachable(r) ==
    IF r.since = Nil THEN [r EXCEPT !.since = 0]
    ELSE IF r.since < Grace THEN r
    ELSE [r EXCEPT !.status = "offline", !.job = NoJob]

\* refreshAll runs computeNextPrinter for every printer concurrently.
Refresh(p) ==
    /\ phase = "refresh"
    /\ snap[p] # NoRow /\ result[p] = NoRow
    /\ result' = [result EXCEPT ![p] =
                    IF dev[p].up THEN Live(p) ELSE Unreachable(snap[p])]
    /\ silent' = IF dev[p].up THEN [silent EXCEPT ![p] = 0] ELSE silent
    /\ UNCHANGED <<table, dev, phase, due, snap, todo, cur, stage, lastSig, sinceWrite,
                   setting, budget, runs, counted, redo, credited, wanted, raced>>

StartApply ==
    /\ phase = "refresh"
    /\ \A p \in Printers : snap[p] # NoRow => result[p] # NoRow
    /\ phase' = "apply"
    /\ todo' = {p \in Printers : snap[p] # NoRow}
    /\ UNCHANGED <<table, dev, due, snap, result, cur, stage, lastSig, sinceWrite,
                   setting, budget, ghostVars>>

\* Slips: the job objects compared instead of their file names, so that every
\* poll sees another job; a direct switch to another job not noticed.
JobEndedEveryPoll(p) ==
    snap[p].job # NoJob /\ result[p].status # "offline"
JobEndedOnlyWhenIdle(p) ==
    snap[p].job # NoJob /\ result[p].job = NoJob /\ result[p].status # "offline"

\* collectAnalyticsForTransition's condition for a job that ended.
JobEnded(p) ==
    /\ snap[p].job # NoJob
    /\ result[p].job # snap[p].job
    /\ result[p].status # "offline"

\* accruePrintHoursAndTriggerMaintenance; a deleted row is not an error.
Accrue(p) ==
    /\ phase = "apply" /\ p \in todo /\ cur = NoPrinter
    /\ JobEnded(p)
    /\ cur' = p /\ stage' = "accrued"
    /\ table' = IF Exists(p) THEN [table EXCEPT ![p].hours = @ + 1] ELSE table
    /\ credited' = IF Exists(p) THEN [credited EXCEPT ![p] = @ + 1] ELSE credited
    /\ UNCHANGED <<dev, phase, due, snap, result, todo, lastSig, sinceWrite, setting,
                   budget, runs, counted, redo, wanted, raced, silent>>

\* The upsert into analytics_daily that ends finalizeJobAnalytics.
CountJob(p) ==
    /\ phase = "apply" /\ cur = p /\ stage = "accrued"
    /\ stage' = "counted"
    /\ counted' = [counted EXCEPT ![p][snap[p].job] = @ + 1]
    /\ UNCHANGED <<table, dev, phase, due, snap, result, todo, cur, lastSig, sinceWrite,
                   setting, budget, runs, redo, credited, wanted, raced, silent>>

ReadyToPersist(p) ==
    /\ phase = "apply" /\ p \in todo
    /\ \/ cur = NoPrinter /\ ~JobEnded(p)
       \/ cur = p /\ stage = "counted"

\* Slip: no periodic write of an unchanged row.
ShouldPersistOnChange(p) == SigOf(result[p]) # lastSig[p]

ShouldPersist(p) ==
    SigOf(result[p]) # lastSig[p] \/ sinceWrite[p] >= Heartbeat

\* Slip: total_print_hours among the columns written back.
UpsertedWithHours(p) == [table EXCEPT ![p] = result[p]]

\* upsertPrinter's INSERT ... ON CONFLICT DO UPDATE: every column of the row
\* but total_print_hours, and a new row where the old one is gone.
Upserted(p) ==
    [table EXCEPT ![p] =
        [result[p] EXCEPT !.hours = IF Exists(p) THEN table[p].hours ELSE 0]]

CreditedAfterUpsert(p) ==
    IF Exists(p) THEN credited ELSE [credited EXCEPT ![p] = 0]

\* A job that was counted while its row still names it will be found again.
Redone ==
    IF stage = "counted" THEN [redo EXCEPT ![cur][snap[cur].job] = @ + 1] ELSE redo

Persist(p) ==
    /\ ReadyToPersist(p)
    /\ todo' = todo \ {p}
    /\ cur' = NoPrinter /\ stage' = "none"
    /\ \/ /\ ShouldPersist(p)
          /\ table' = Upserted(p)
          /\ credited' = CreditedAfterUpsert(p)
          /\ lastSig' = [lastSig EXCEPT ![p] = SigOf(result[p])]
          /\ sinceWrite' = [sinceWrite EXCEPT ![p] = 0]
          /\ redo' = redo
       \/ /\ ~ShouldPersist(p)
          /\ redo' = Redone
          /\ UNCHANGED <<table, credited, lastSig, sinceWrite>>
    /\ UNCHANGED <<dev, phase, due, snap, result, setting, budget, runs, counted,
                   wanted, raced, silent>>

EndCycle ==
    /\ phase = "apply" /\ todo = {}
    /\ phase' = "idle"
    /\ snap' = NoRows /\ result' = NoRows
    /\ UNCHANGED <<table, dev, due, todo, cur, stage, lastSig, sinceWrite, setting,
                   budget, ghostVars>>

-----------------------------------------------------------------------------
(* Failures of a cycle.                                                    *)

DropCycle ==
    /\ phase' = "idle"
    /\ snap' = NoRows /\ result' = NoRows
    /\ todo' = {} /\ cur' = NoPrinter /\ stage' = "none"

\* A statement of the write-back loop fails: run() returns the error, closes
\* the connection and tries again at the next interval with its caches kept.
DbError ==
    /\ phase = "apply"
    /\ Spend("fault")
    /\ DropCycle
    /\ redo' = Redone
    /\ UNCHANGED <<table, dev, due, lastSig, sinceWrite, setting, runs, counted,
                   credited, wanted, raced, silent>>

\* The row is written but the connection breaks before the reply: the error
\* leaves lastPersistSig at the row before.
LoseAck(p) ==
    /\ Spend("fault")
    /\ ReadyToPersist(p) /\ ShouldPersist(p)
    /\ table' = Upserted(p)
    /\ credited' = CreditedAfterUpsert(p)
    /\ DropCycle
    /\ UNCHANGED <<dev, due, lastSig, sinceWrite, setting, runs, counted, redo,
                   wanted, raced, silent>>

\* The process dies and is restarted: every in-memory cache is empty.
Crash ==
    /\ Spend("fault")
    /\ DropCycle
    /\ due' = TRUE
    /\ redo' = Redone
    /\ lastSig' = [p \in Printers |-> NoSig]
    /\ sinceWrite' = [p \in Printers |-> Heartbeat]
    /\ UNCHANGED <<table, dev, setting, runs, counted, credited, wanted, raced, silent>>

-----------------------------------------------------------------------------
(* The web server.                                                         *)

Race(p, columns) ==
    raced' = (raced \ {<<p, k>> : k \in columns})
               \cup (IF Pending(p) THEN {<<p, k>> : k \in columns} ELSE {})

\* upsertPrinter of postgres.js: inserts, or updates configuration only.
SavePrinter(p, c) ==
    /\ Spend("save")
    /\ IF Exists(p)
       THEN /\ table' = [table EXCEPT ![p].cfg = c]
            /\ wanted' = [wanted EXCEPT ![p].cfg = c]
            /\ credited' = credited
            /\ Race(p, {"cfg"})
       ELSE /\ table' = [table EXCEPT ![p] = NewRow(c)]
            /\ wanted' = [wanted EXCEPT ![p] = [cfg |-> c, target |-> NoTarget]]
            /\ credited' = [credited EXCEPT ![p] = 0]
            /\ Race(p, {"cfg", "target"})
    /\ UNCHANGED <<dev, pollVars, setting, runs, counted, redo, silent>>

DeletePrinter(p) ==
    /\ Spend("delete")
    /\ Exists(p)
    /\ table' = [table EXCEPT ![p] = NoRow]
    /\ UNCHANGED <<dev, pollVars, setting, ghostVars>>

\* The set_temperature command: the handler connects and publishes it with
\* QoS 0, so a reachable printer may still ignore it, and then stores the
\* target with setPrinterTemperatureTarget.
SendTarget(p, t) ==
    /\ Spend("set")
    /\ Exists(p) /\ dev[p].up
    /\ setting' = setting \cup {<<p, t>>}
    /\ dev' \in {dev, [dev EXCEPT ![p].target = t]}
    /\ UNCHANGED <<table, pollVars, ghostVars>>

StoreTarget(p, t) ==
    /\ <<p, t>> \in setting
    /\ setting' = setting \ {<<p, t>>}
    /\ IF Exists(p)
       THEN /\ table' = [table EXCEPT ![p].target = t]
            /\ wanted' = [wanted EXCEPT ![p].target = t]
            /\ Race(p, {"target"})
       ELSE UNCHANGED <<table, wanted, raced>>
    /\ UNCHANGED <<dev, pollVars, budget, runs, counted, redo, credited, silent>>

\* The UPDATE fails: the handler logs it and still answers the browser.
LoseTarget(p, t) ==
    /\ Spend("fault")
    /\ <<p, t>> \in setting
    /\ setting' = setting \ {<<p, t>>}
    /\ UNCHANGED <<table, dev, pollVars, ghostVars>>

-----------------------------------------------------------------------------
(* The printers and the clock.                                             *)

StartJob(p, j) ==
    /\ Spend("run")
    /\ dev[p].job # j
    /\ dev' = [dev EXCEPT ![p].job = j]
    /\ runs' = [runs EXCEPT ![p][j] = @ + 1]
    /\ UNCHANGED <<table, pollVars, setting, counted, redo, credited, wanted, raced, silent>>

FinishJob(p) ==
    /\ dev[p].job # NoJob
    /\ dev' = [dev EXCEPT ![p].job = NoJob]
    /\ UNCHANGED <<table, pollVars, setting, budget, ghostVars>>

GoDown(p) ==
    /\ Spend("drop")
    /\ dev[p].up
    /\ dev' = [dev EXCEPT ![p].up = FALSE]
    /\ UNCHANGED <<table, pollVars, setting, ghostVars>>

ComeUp(p) ==
    /\ ~dev[p].up
    /\ dev' = [dev EXCEPT ![p].up = TRUE]
    /\ UNCHANGED <<table, pollVars, setting, budget, ghostVars>>

Older(a, limit) == IF a < limit THEN a + 1 ELSE a
AgedRow(r) ==
    IF r = NoRow \/ r = NoSig THEN r
    ELSE [r EXCEPT !.since = IF @ = Nil THEN Nil ELSE Older(@, Grace)]

\* One poll interval passes.  Timestamps are kept as ages that stop at the last
\* value the code tells apart.
Tick ==
    /\ due' = TRUE
    /\ table' = [p \in Printers |-> AgedRow(table[p])]
    /\ snap' = [p \in Printers |-> AgedRow(snap[p])]
    /\ result' = [p \in Printers |-> AgedRow(result[p])]
    /\ lastSig' = [p \in Printers |-> AgedRow(lastSig[p])]
    /\ sinceWrite' = [p \in Printers |-> Older(sinceWrite[p], Heartbeat)]
    /\ silent' = [p \in Printers |-> Older(silent[p], Grace)]
    /\ UNCHANGED <<dev, phase, todo, cur, stage, setting, budget,
                   runs, counted, redo, credited, wanted, raced>>

PollerStep ==
    \/ StartCycle \/ StartApply \/ EndCycle
    \/ \E p \in Printers : Refresh(p) \/ Accrue(p) \/ CountJob(p) \/ Persist(p)

WebStep ==
    \E p \in Printers :
        \/ \E c \in Configs : SavePrinter(p, c)
        \/ DeletePrinter(p)
        \/ \E t \in Targets : SendTarget(p, t) \/ StoreTarget(p, t) \/ LoseTarget(p, t)

PrinterStep ==
    \E p \in Printers :
        \/ \E j \in Jobs : StartJob(p, j)
        \/ FinishJob(p) \/ GoDown(p) \/ ComeUp(p)

Failure == DbError \/ Crash \/ \E p \in Printers : LoseAck(p)

Next == PollerStep \/ WebStep \/ PrinterStep \/ Tick \/ Failure

Spec == Init /\ [][Next]_vars

\* run() polls for ever at a fixed interval and every refresh has a timeout;
\* a handler that published its command goes on to store it; time passes.
Fairness ==
    /\ WF_vars(PollerStep)
    /\ WF_vars(Tick)
    /\ \A p \in Printers, t \in Targets : WF_vars(StoreTarget(p, t))

FairSpec == Spec /\ Fairness

-----------------------------------------------------------------------------
(* What the two writers owe each other.                                    *)

TypeOK ==
    /\ table \in [Printers -> Row \cup {NoRow}]
    /\ dev \in [Printers -> Device]
    /\ phase \in {"idle", "refresh", "apply"}
    /\ due \in BOOLEAN
    /\ snap \in [Printers -> Row \cup {NoRow}]
    /\ result \in [Printers -> Row \cup {NoRow}]
    /\ todo \subseteq Printers
    /\ cur \in Printers \cup {NoPrinter}
    /\ stage \in {"none", "accrued", "counted"}
    /\ lastSig \in [Printers -> Sig \cup {NoSig}]
    /\ sinceWrite \in [Printers -> Nat]
    /\ setting \subseteq Printers \X Targets
    /\ budget \in [{"save", "delete", "set", "run", "drop", "fault"} -> Nat]
    /\ runs \in [Printers -> [Jobs -> Nat]]
    /\ counted \in [Printers -> [Jobs -> Nat]]
    /\ redo \in [Printers -> [Jobs -> Nat]]
    /\ credited \in [Printers -> Nat]
    /\ wanted \in [Printers -> [cfg : Configs, target : Targets]]
    /\ raced \subseteq Printers \X {"cfg", "target"}
    /\ silent \in [Printers -> Nat]

\* An admin's edit can only be undone by a cycle that had read the row before
\* the edit and had not yet written it back: outside that window upsertPrinter
\* of the poller never changes a configuration column.
EditLostOnlyInFlight ==
    \A p \in Printers :
        Exists(p) /\ <<p, "cfg">> \notin raced => table[p].cfg = wanted[p].cfg

\* The same for the chamber target of a printer that never reports one, whose
\* stored value the poller carries forward (fetchBambuStatus).
TargetLostOnlyInFlight ==
    \A p \in Printers \ Echoing :
        Exists(p) /\ <<p, "target">> \notin raced => table[p].target = wanted[p].target

\* Print hours are added in place and no whole-row write resets them: the row
\* holds every job credited to it since it was inserted.
HoursSurviveUpsert ==
    \A p \in Printers : Exists(p) => table[p].hours = credited[p]

\* A job reaches analytics_daily at most once per print, but for the repeats
\* that follow a cycle which counted it and then did not write its row.
CountedOncePerPrint ==
    \A p \in Printers, j \in Jobs : counted[p][j] <= runs[p][j] + redo[p][j]

\* The poller never replaces a row's job by another without having counted it
\* in the same cycle, except when it gives the printer up as offline.
NoJobVanishesUncounted ==
    [][\A p \in Printers :
          /\ Exists(p) /\ table'[p] # NoRow
          /\ table[p].job # NoJob /\ table'[p].job # table[p].job
          => \/ table'[p].status = "offline"
             \/ cur = p /\ stage = "counted" /\ snap[p].job = table[p].job]_vars

\* As long as no cycle has failed, a printer is taken offline only when it has
\* answered no refresh for the whole grace period (applyOfflineGracePeriod).
OfflineOnlyAfterGrace ==
    [][\A p \in Printers :
          /\ Exists(p) /\ table'[p] # NoRow
          /\ table[p].status # "offline" /\ table'[p].status = "offline"
          => silent[p] >= Grace \/ budget["fault"] < MaxFaults]_vars

RowReflects(p) ==
    IF dev[p].up
    THEN /\ table[p].since = Nil
         /\ table[p].job = dev[p].job
         /\ table[p].status = (IF dev[p].job = NoJob THEN "idle" ELSE "printing")
         /\ p \in Echoing => table[p].target = dev[p].target
    ELSE table[p].status = "offline" /\ table[p].job = NoJob

\* Once printers and administrators leave it alone the table comes to show
\* what the printers do, and keeps showing it, whatever failed before.
RowsConverge == <>[](\A p \in Printers : Exists(p) => RowReflects(p))
=============================================================================
