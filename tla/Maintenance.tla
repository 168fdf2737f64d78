----------------------------- MODULE Maintenance -----------------------------
(***************************************************************************)
(* Preventive maintenance of one printer (app.js, postgres.js, store.go).  *)
(* The poller adds print hours and opens a task for every interval they    *)
(* cross; the web server's worker opens the tasks that are still missing,  *)
(* alerts staff and keeps the health score; administrators replace the     *)
(* list of intervals, which is reconciled with the schedules; staff        *)
(* complete tasks.  Every action is one SQL statement or transaction, so   *)
(* all of them interleave.  Hours are counted in units.                    *)
(***************************************************************************)
EXTENDS Integers, FiniteSets, FiniteSetsExt

CONSTANTS
    Types,      \* maintenance_type
    Lists,      \* the interval lists administrators may store, by type
    Admins,     \* saves of the list that may be under way at once
    Grace,      \* overdueGraceHours
    Renewing,   \* isNozzleResetType
    NoSave, NoSeed,
    MaxHours,
    Budgets     \* what there may be of hours, saves, services and failures, the
                \* list stored at first, and whether the printer is worn

SaveSteps == {"collapse", "retarget", "seed", "drop", "clear"}

ASSUME ConstantsAssumption ==
    /\ \A l \in Lists : /\ DOMAIN l \subseteq Types
                        /\ \A t \in DOMAIN l : l[t] \in Nat \ {0}
    /\ Renewing \subseteq Types
    /\ Grace \in Nat /\ MaxHours \in Nat
    /\ Budgets \subseteq [hours : 0..MaxHours, save : Nat, service : Nat, fault : Nat,
                          worn : BOOLEAN, list : Lists]
    /\ NoSave \notin [step : SaveSteps, list : Lists]

VARIABLES
    defaults,   \* app_settings: the list of intervals
    schedules,  \* maintenance_schedules
    events,     \* maintenance_events
    lastId,     \* the last id given to one of them
    unread,     \* kinds with an unread row in maintenance_notifications
    hours,      \* total_print_hours
    worn,       \* the nozzle is over its hours and prints fail too often
    low,        \* health_score < 70
    poller,     \* accruePrintHoursAndTriggerMaintenance under way
    pass,       \* the worker's pass
    saves,      \* setMaintenanceDefaultIntervals under way
    seeding,    \* the list seedMaintenanceSchedules has read
    budget

VARIABLES       \* history, for the properties only
    failed,     \* a statement has failed
    alerted,    \* the task and kind of every alert that was raised
    repeated,   \* those raised twice
    backstop,   \* tasks the worker opened
    raced,      \* a task was completed during a pass or a crossing
    mixed,      \* the save under way overlapped another writer
    stale,      \* the last save overlapped another writer, or a statement of it failed
    episode     \* health alerts since the score was last at 70: none, one or more

tables  == <<defaults, schedules, events, lastId, unread, hours, worn, low>>
history == <<alerted, repeated, backstop, raced, episode>>
vars == <<tables, poller, pass, saves, seeding, budget, failed, history, mixed, stale>>

Kinds == {"due", "overdue"}
Key(row) == <<row.type, row.interval>>
Pending == {e \in events : e.status = "pending"}
Completed(key) == Cardinality({e \in events : e.status = "completed" /\ Key(e) = key})
NextOf(S) == IF S = {} THEN 1 ELSE 1 + Max(S)

IdlePoller == [step |-> "idle", from |-> 0, to |-> 0, crossed |-> {}]
IdlePass == [step |-> "idle", list |-> NoSeed, read |-> {}, hours |-> 0, worn |-> FALSE,
             low |-> FALSE, schedules |-> {}, pending |-> {}, done |-> {}, own |-> {}]

Spend(kind) == budget[kind] > 0 /\ budget' = [budget EXCEPT ![kind] = @ - 1]
Fail == Spend("fault") /\ failed' = TRUE

-----------------------------------------------------------------------------
(* The rows of maintenance_schedules.                                      *)

Fresh(list, rows) ==
    {[type |-> t, interval |-> list[t], born |-> NextOf({r.born : r \in rows})] :
       t \in {u \in DOMAIN list : <<u, list[u]>> \notin {Key(r) : r \in rows}}}

\* INSERT ... ON CONFLICT DO NOTHING, on the unique (type, interval).
Seeded(list, rows) == rows \cup Fresh(list, rows)

\* The newest row of each type is kept.
Collapsed(rows) ==
    {r \in rows : ~\E s \in rows : s.type = r.type /\ r.born < s.born}

Retargeted(list, rows) ==
    {IF r.type \in DOMAIN list THEN [r EXCEPT !.interval = list[r.type]] ELSE r : r \in rows}

\* The update fails on the unique index if two rows of a type are given one interval.
Collides(list, rows) ==
    \E r, s \in rows : r # s /\ r.type = s.type /\ r.type \in DOMAIN list

\* Slip: schedules of types the list no longer has are kept.
KeepAll(list, rows) == rows

Dropped(list, rows) == {r \in rows : r.type \in DOMAIN list}

-----------------------------------------------------------------------------

Init ==
    /\ budget \in Budgets
    /\ defaults = budget.list
    /\ schedules = Seeded(defaults, {})
    /\ events = {} /\ lastId = 0 /\ unread = {} /\ hours = 0
    /\ worn = budget.worn /\ low = FALSE
    /\ poller = IdlePoller /\ pass = IdlePass
    /\ saves = [a \in Admins |-> NoSave] /\ seeding = NoSeed
    /\ failed = FALSE
    /\ alerted = {} /\ repeated = {} /\ backstop = {} /\ raced = FALSE
    /\ mixed = FALSE /\ stale = FALSE /\ episode = "none"

Saving == \E a \in Admins : saves[a] # NoSave

\* A save is mixed once anything else that holds a list or rows it has read
\* runs beside it.
NoteOverlap ==
    mixed' = /\ \E a \in Admins : saves'[a] # NoSave
             /\ \/ mixed
                \/ pass'.step # "idle" \/ poller'.step # "idle" \/ seeding' # NoSeed
                \/ \E a, b \in Admins : a # b /\ saves'[a] # NoSave /\ saves'[b] # NoSave

\* An id is never given twice.
NoteId == lastId' = Max({lastId} \cup {e.id : e \in events'})

-----------------------------------------------------------------------------
(* Poller: accruePrintHoursAndTriggerMaintenance.                          *)

pollerVars == <<pass, saves, seeding, unread, low, defaults, schedules, worn, history, stale>>

Accrue(d) ==
    /\ poller.step = "idle" /\ hours + d <= budget.hours
    /\ hours' = hours + d
    /\ poller' = [step |-> "accrued", from |-> hours, to |-> hours + d, crossed |-> {}]
    /\ UNCHANGED <<events, budget, failed, pollerVars>>

Cross ==
    /\ poller.step = "accrued"
    /\ poller' = [poller EXCEPT !.step = "crossing", !.from = 0, !.crossed =
         {Key(s) : s \in {r \in schedules :
            poller.to \div r.interval > poller.from \div r.interval}}]
    /\ UNCHANGED <<hours, events, budget, failed, pollerVars>>

NewTask(key, at) == [id |-> lastId + 1, type |-> key[1], interval |-> key[2],
                     at |-> at, status |-> "pending", kind |-> "none"]

\* Slip: no conflict clause.
OpenedAgain(key, at) == events \cup {NewTask(key, at)}

\* INSERT ... ON CONFLICT DO NOTHING, on the unique pending (type, interval).
Opened(key, at) ==
    IF \E e \in Pending : Key(e) = key THEN events ELSE events \cup {NewTask(key, at)}

OpenCrossed(key) ==
    /\ poller.step = "crossing" /\ key \in poller.crossed
    /\ events' = Opened(key, poller.to)
    /\ poller' = [poller EXCEPT !.crossed = @ \ {key}]
    /\ UNCHANGED <<hours, budget, failed, pollerVars>>

EndAccrual ==
    /\ poller.step = "crossing" /\ poller.crossed = {}
    /\ poller' = IdlePoller
    /\ UNCHANGED <<hours, events, budget, failed, pollerVars>>

LoseAccrual ==
    /\ poller.step # "idle" /\ Fail
    /\ poller' = IdlePoller
    /\ UNCHANGED <<hours, events, pollerVars>>

Poller ==
    \/ \E d \in 1..MaxHours : Accrue(d)
    \/ Cross \/ EndAccrual \/ LoseAccrual
    \/ \E key \in poller.crossed : OpenCrossed(key)

-----------------------------------------------------------------------------
(* The worker: runMaintenanceWorkerPass.                                   *)

workerVars == <<poller, saves, seeding, defaults, hours, worn, stale>>

StartPass ==
    /\ pass.step = "idle"
    /\ pass' = [IdlePass EXCEPT !.step = "backfill", !.list = defaults]
    /\ UNCHANGED <<schedules, events, unread, low, budget, failed, history, workerVars>>

Backfill ==
    /\ pass.step = "backfill"
    /\ schedules' = Seeded(pass.list, schedules)
    /\ pass' = [pass EXCEPT !.step = "read", !.list = NoSeed]
    /\ UNCHANGED <<events, unread, low, budget, failed, history, workerVars>>

Reads == {"printer", "schedules", "pending", "completed"}

\* getMaintenanceWorkerData sends its four queries at once.
Read(query) ==
    /\ pass.step = "read" /\ query \notin pass.read
    /\ pass' = [pass EXCEPT !.read = @ \cup {query},
         !.step = IF pass.read \cup {query} = Reads THEN "open" ELSE @,
         !.hours = IF query = "printer" THEN hours ELSE @,
         !.worn = IF query = "printer" THEN worn ELSE @,
         !.low = IF query = "printer" THEN low ELSE @,
         !.schedules = IF query = "schedules" THEN {Key(s) : s \in schedules} ELSE @,
         !.pending = IF query = "pending" THEN Pending ELSE @,
         !.done = IF query = "completed" THEN {e \in events : e.status = "completed"} ELSE @]
    /\ UNCHANGED <<schedules, events, unread, low, budget, failed, history, workerVars>>

ServicesDone(key) == Cardinality({e \in pass.done : Key(e) = key})

\* Slips: one service too many is expected, or one too few.
DueEarly(key) ==
    /\ pass.hours \div key[2] >= ServicesDone(key)
    /\ \A e \in pass.pending : Key(e) # key

DueLate(key) ==
    /\ pass.hours \div key[2] > ServicesDone(key) + 1
    /\ \A e \in pass.pending : Key(e) # key

Due(key) ==
    /\ pass.hours \div key[2] > ServicesDone(key)
    /\ \A e \in pass.pending : Key(e) # key

\* A task the worker opens joins the pass's own list, without its id.
Open(key) ==
    LET opened == Opened(key, (ServicesDone(key) + 1) * key[2])
    IN /\ pass.step = "open" /\ key \in pass.schedules
       /\ pass' = [pass EXCEPT !.schedules = @ \ {key},
                     !.pending = @ \cup IF Due(key) THEN opened \ events ELSE {},
                     !.own = @ \cup IF Due(key) THEN {e.id : e \in opened \ events} ELSE {}]
       /\ events' = IF Due(key) THEN opened ELSE events
       /\ backstop' = backstop \cup {e.id : e \in events' \ events}
       /\ UNCHANGED <<schedules, unread, low, budget, failed, alerted, repeated, raced, episode, workerVars>>

EndOpen ==
    /\ pass.step = "open" /\ pass.schedules = {}
    /\ pass' = [pass EXCEPT !.step = "overdue", !.read = {}, !.done = {}]
    /\ UNCHANGED <<schedules, events, unread, low, budget, failed, history, workerVars>>

Overdue(e) == pass.hours >= e.at + Grace

\* Slip: what was alerted before is not looked at.
ToNotifyAgain(kind) ==
    {e \in pass.pending : IF kind = "overdue" THEN Overdue(e) ELSE ~Overdue(e)}

\* Slip: a task is alerted as overdue only after it was as due.
ToNotifyInTurn(kind) ==
    {e \in pass.pending :
        IF kind = "overdue" THEN Overdue(e) /\ e.kind = "due"
                            ELSE ~Overdue(e) /\ e.kind = "none"}

ToNotify(kind) ==
    {e \in pass.pending :
        IF kind = "overdue" THEN Overdue(e) /\ e.kind # "overdue"
                            ELSE ~Overdue(e) /\ e.kind = "none"}

Marking == [overdue |-> "mark overdue", due |-> "mark due"]

\* createMaintenanceNotification: at most one unread row of a kind.
Alert(kind) ==
    LET raised == IF kind \in unread THEN {} ELSE {<<e.id, kind>> : e \in ToNotify(kind)}
    IN /\ pass.step = kind /\ ToNotify(kind) # {}
       /\ unread' = unread \cup {kind}
       /\ alerted' = alerted \cup raised
       /\ repeated' = repeated \cup (raised \cap alerted)
       /\ pass' = [pass EXCEPT !.step = Marking[kind]]
       /\ UNCHANGED <<schedules, events, low, budget, failed, backstop, raced, episode, workerVars>>

AfterKind(kind) == IF kind = "overdue" THEN "due" ELSE "health"

NothingToAlert(kind) ==
    /\ pass.step = kind /\ ToNotify(kind) = {}
    /\ pass' = [pass EXCEPT !.step = AfterKind(kind)]
    /\ UNCHANGED <<schedules, events, unread, low, budget, failed, history, workerVars>>

\* markMaintenanceEventsNotified: the tasks this pass opened have no id to mark.
Marked(kind) == {e.id : e \in ToNotify(kind)} \ pass.own

Mark(kind) ==
    /\ pass.step = Marking[kind]
    /\ events' = {IF e.id \in Marked(kind) THEN [e EXCEPT !.kind = kind] ELSE e : e \in events}
    /\ pass' = [pass EXCEPT !.step = AfterKind(kind)]
    /\ UNCHANGED <<schedules, unread, low, budget, failed, history, workerVars>>

\* recalcHealthScore falls below 70 when a task is overdue on a worn printer.
Low == pass.worn /\ \E e \in pass.pending : Overdue(e)

Drops == Low /\ ~pass.low

AlertHealth ==
    /\ pass.step = "health"
    /\ pass' = [pass EXCEPT !.step = "write"]
    /\ IF Drops
       THEN /\ unread' = unread \cup {"health"}
            /\ episode' = IF "health" \in unread THEN episode
                          ELSE IF episode = "none" THEN "one" ELSE "more"
       ELSE UNCHANGED <<unread, episode>>
    /\ UNCHANGED <<schedules, events, low, budget, failed, alerted, repeated, backstop, raced, workerVars>>

\* bulkUpdateHealthScores.
WriteHealth ==
    /\ pass.step = "write"
    /\ low' = Low
    /\ episode' = IF Low THEN episode ELSE "none"
    /\ pass' = IdlePass
    /\ UNCHANGED <<schedules, events, unread, budget, failed, alerted, repeated, backstop, raced, workerVars>>

LosePass ==
    /\ pass.step # "idle" /\ Fail
    /\ pass' = IdlePass
    /\ UNCHANGED <<schedules, events, unread, low, history, workerVars>>

Worker ==
    \/ StartPass \/ Backfill \/ EndOpen \/ AlertHealth \/ WriteHealth
    \/ \E query \in Reads : Read(query)
    \/ \E key \in pass.schedules : Open(key)
    \/ \E kind \in Kinds : Alert(kind) \/ NothingToAlert(kind) \/ Mark(kind)

-----------------------------------------------------------------------------
(* Administrators: setMaintenanceDefaultIntervals, reconcileMaintenance-   *)
(* Schedules, and the seeding that follows the save of a printer.          *)

adminVars == <<hours, worn, low, unread, poller, pass, history>>

Step(a, from, to) ==
    /\ saves[a] # NoSave /\ saves[a].step = from
    /\ saves' = [saves EXCEPT ![a].step = to]

StoreList(a, list) ==
    /\ saves[a] = NoSave /\ Spend("save")
    /\ defaults' = list
    /\ saves' = [saves EXCEPT ![a] = [step |-> "collapse", list |-> list]]
    /\ UNCHANGED <<schedules, events, seeding, stale, failed, adminVars>>

Collapse(a) ==
    /\ Step(a, "collapse", "retarget")
    /\ schedules' = Collapsed(schedules)
    /\ UNCHANGED <<defaults, events, seeding, stale, budget, failed, adminVars>>

Retarget(a) ==
    /\ Step(a, "retarget", "seed")
    /\ ~Collides(saves[a].list, schedules)
    /\ schedules' = Retargeted(saves[a].list, schedules)
    /\ UNCHANGED <<defaults, events, seeding, stale, budget, failed, adminVars>>

SeedMissing(a) ==
    /\ Step(a, "seed", "drop")
    /\ schedules' = Seeded(saves[a].list, schedules)
    /\ UNCHANGED <<defaults, events, seeding, stale, budget, failed, adminVars>>

DropRemoved(a) ==
    /\ Step(a, "drop", "clear")
    /\ schedules' = Dropped(saves[a].list, schedules)
    /\ UNCHANGED <<defaults, events, seeding, stale, budget, failed, adminVars>>

HasSchedule(e) == Key(e) \in {Key(s) : s \in schedules}

ClearPending(a) ==
    /\ saves[a] # NoSave /\ saves[a].step = "clear"
    /\ events' = {e \in events : e.status = "pending" => HasSchedule(e)}
    /\ saves' = [saves EXCEPT ![a] = NoSave]
    /\ stale' = mixed
    /\ UNCHANGED <<defaults, schedules, seeding, budget, failed, adminVars>>

LoseSave(a) ==
    /\ saves[a] # NoSave
    /\ \/ Fail /\ stale' = TRUE
       \/ /\ saves[a].step = "retarget" /\ Collides(saves[a].list, schedules)
          /\ stale' = mixed
          /\ UNCHANGED <<budget, failed>>
    /\ saves' = [saves EXCEPT ![a] = NoSave]
    /\ UNCHANGED <<defaults, schedules, events, seeding, adminVars>>

\* A printer is saved: seedMaintenanceSchedules reads the list, then inserts.
ReadList ==
    /\ seeding = NoSeed /\ Spend("save")
    /\ seeding' = defaults
    /\ UNCHANGED <<defaults, schedules, events, saves, stale, failed, adminVars>>

SeedPrinter ==
    /\ seeding # NoSeed
    /\ schedules' = Seeded(seeding, schedules)
    /\ seeding' = NoSeed
    /\ UNCHANGED <<defaults, events, saves, stale, budget, failed, adminVars>>

Administrator ==
    \/ \E a \in Admins :
        \/ \E list \in Lists : StoreList(a, list)
        \/ Collapse(a) \/ Retarget(a) \/ SeedMissing(a) \/ DropRemoved(a)
        \/ ClearPending(a) \/ LoseSave(a)
    \/ ReadList \/ SeedPrinter

-----------------------------------------------------------------------------
(* Staff.                                                                  *)

staffVars == <<defaults, schedules, hours, low, poller, pass, saves, seeding,
               alerted, repeated, backstop, episode, stale>>

\* completeMaintenanceEvent, a transaction.
Complete(e) ==
    /\ e \in Pending /\ Spend("service")
    /\ events' = (events \ {e}) \cup {[e EXCEPT !.status = "completed"]}
    /\ worn' = (worn /\ e.type \notin Renewing)
    /\ raced' = (raced \/ pass.step # "idle" \/ poller.step # "idle")
    /\ UNCHANGED <<unread, failed, staffVars>>

\* The notification bell marks what it has shown.
MarkRead(kinds) ==
    /\ kinds # {} /\ kinds \subseteq unread
    /\ unread' = unread \ kinds
    /\ UNCHANGED <<events, worn, raced, budget, failed, staffVars>>

Staff ==
    \/ \E e \in events : Complete(e)
    \/ \E kinds \in SUBSET unread : MarkRead(kinds)

Next == (Poller \/ Worker \/ LosePass \/ Administrator \/ Staff) /\ NoteOverlap /\ NoteId

Spec == Init /\ [][Next]_vars

\* The worker's timer never stops, and a statement is answered or fails.
FairSpec == Spec /\ WF_vars(Worker /\ NoteOverlap /\ NoteId)

-----------------------------------------------------------------------------
(* What maintenance promises.                                              *)

Row == [type : Types, interval : Nat \ {0}, born : Nat]
Event == [id : Nat, type : Types, interval : Nat \ {0}, at : Nat,
          status : {"pending", "completed"}, kind : {"none"} \cup Kinds]

TypeOK ==
    /\ defaults \in Lists
    /\ schedules \subseteq Row
    /\ events \subseteq Event
    /\ \A d, e \in Pending : Key(d) = Key(e) => d = e
    /\ unread \subseteq Kinds \cup {"health"}
    /\ hours \in 0..MaxHours /\ worn \in BOOLEAN /\ low \in BOOLEAN
    /\ pass.pending \subseteq Event /\ pass.done \subseteq Event
    /\ pass.schedules \subseteq Types \X (Nat \ {0})
    /\ poller.crossed \subseteq Types \X (Nat \ {0})
    /\ \A a \in Admins : saves[a] # NoSave => saves[a].list \in Lists

\* However the poller and the worker overlap, no service is opened twice: the
\* tasks of a schedule never outnumber the intervals the hours have passed,
\* unless one was completed while a pass or a crossing was under way.
ServedOnce ==
    ~raced => \A key \in {Key(e) : e \in events} :
        Cardinality({e \in events : Key(e) = key}) <= hours \div key[2]

\* A save of the list that ran alone is not refused by the unique index, and leaves exactly the
\* schedules of the list, whatever was left behind by saves that failed or ran beside others, and
\* no task of an interval that is gone.
SchedulesFollowList ==
    ~Saving /\ ~stale =>
        /\ {Key(e) : e \in Pending} \subseteq {Key(s) : s \in schedules}
        /\ {Key(s) : s \in schedules} = {<<t, defaults[t]>> : t \in DOMAIN defaults}

\* A task is alerted twice for a kind only if the worker itself opened it, or a
\* failure came between the alert and the mark; a health alert is raised once per
\* episode below 70, unless a failure came between the alert and the write of the score.
RepeatedOnlyForBackstop ==
    /\ \A r \in repeated : r[1] \in backstop \/ failed
    /\ episode = "more" => failed

\* A service that is due, by the schedules in force, is opened, whoever's
\* crossing was lost and whatever failed.
DueIsOpened ==
    \A t \in Types, i \in 1..MaxHours :
        hours \div i > Completed(<<t, i>>) ~>
            \/ <<t, i>> \notin {Key(s) : s \in schedules}
            \/ \E e \in Pending : Key(e) = <<t, i>>
            \/ hours \div i <= Completed(<<t, i>>)

\* A task that stays open past the grace is alerted as overdue, though only one list of
\* tasks is alerted per pass and a failure ends the pass (app.js:7014).
OverdueIsMarked ==
    \A n \in 1..MaxHours :
        (\E e \in Pending : e.id = n /\ hours >= e.at + Grace) ~>
            ~\E e \in Pending : e.id = n /\ e.kind # "overdue"
=============================================================================
