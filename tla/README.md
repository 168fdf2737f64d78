# Verification of the 3D-FarmLab print farm

TLA+ models of the parts of 3D-FarmLab that share state across processes, people
and failures, model-checked with TLC, with theorems checked by TLAPS. Line
references are to the repository. Every definition that stands for code is tied
to its lines in `PROJECT.json` ("map").

## The system

The default deployment is one container (`docker/single/entrypoint.sh`): a
PostgreSQL database, the Node web server `server/app.js`, and the Go poller
`go-services/cmd/poller`. The database is where they meet; they call each other
nowhere else. The web server's background workers (maintenance, Home Assistant,
filament replay, update watchdog) run in its process on timers.

| Component | State | Operations | Interacts through | Hard behaviour | Correct when |
|---|---|---|---|---|---|
| Poll cycle (`run.go`, `refresh.go`, `persist.go`, `offline.go`, `transitions.go`, `store.go`) | printers table; signatures and ages in memory | read all rows, refresh concurrently, finalise ended jobs, write whole rows | the printers table, shared with the web server | whole rows written from a copy minutes old; each statement its own transaction; lost replies; restarts | edits are lost only inside a cycle; jobs counted once; rows converge |
| Printers API (`postgres.js`, `app.js`) | same table | save, delete, set a temperature | same | save during a cycle | same |
| Update and rollback (`app.js`, `updateRollback.js`, `postgres.js`) | `update_runs` | request, start, watch, cancel | Watchtower, GitHub Actions, the containers being replaced | the actor is replaced by its own action; several watchdogs; deadlines; lost answers | one run at a time, one request per run, success is earned, no run holds the guard for ever |
| Filament billing (`bambu.go`, `filament_consumption.go`) | print-start baseline in memory; assignments; `weight_used` | capture, resolve slots, charge | the poll cycle and the station's assignments | direct job switches, outages, a failure after the charges | each print charged once, by its own baseline |
| Filament station (`assignments.go`, `filament_matcher.go`, `filamentStation.js`, `app.js`) | spools, the tag of one, assignments with fingerprints and triggers | assign, edit, delete, link a tag; catalogue and detect; push what is due | people, the poller and the replay over the same rows | rows read before a network call and written by id after it; the pushed setting comes back as a report | "applied" names what the printer took; one spool per tag; one push per assignment; what is pending is decided |
| Maintenance (`app.js`, `postgres.js`, `store.go`) | schedules, tasks, alerts, the health score | add hours, open, alert, complete, reconcile | hours and tasks from the poller | four reads in separate statements; five writes without a transaction; alerts before marks | a service is opened once per interval and always in the end; alerts are not repeated |
| Home Assistant rules (`app.js` 375-582) | the list of rules; states last seen, in memory | evaluate; create, change and delete rules | printers table, Home Assistant | transitions detected per rule from a memory per source; whole-list writes | a rule fires once per change of its source, and when it should |
| Print queue (`app.js`, `postgres.js`, `queueEstimateBackfill.js`, `Queue.tsx`, `SidebarContext.tsx`) | `queue_jobs`; the tab's dot and lists | submit, import, print, reset, delete, upload, download, backfill | browsers, over requests and an event stream | models read in chunks; answers and pushes out of order; broken streams | no mixed bytes or estimates; the tab comes right |
| Accounts and sessions (`app.js`, `postgres.js`, `redis.js`) | one list of accounts; session rows; copies and revocation marks in Redis | create, edit, remove, log in and out, call | two requests at a time over one list | whole-list writes across awaits; slow password hashing; a cache that may fail | names are unique, sessions follow accounts, revocation ends |
| Fleet view (`PrintersContext.tsx`, `PrinterStatusNotifier.tsx`, `useAutoRefresh.ts`) | the tab's list, its ETag, stops that await confirmation | poll, compare, tell | `GET /api/printers` | overlapping polls, 304 answers, outages | each beginning and end told once; the view converges |
| Bambu report merge, SSO, backups, cameras, status lights, slicer proxy, MCP, exporters | see `PROJECT.json` | | | | |

`PROJECT.json` lists every component, the ones left out with the reason, and the
hazards of the code at their lines with the properties that cover them.

## Modules

| Module | What it is |
|---|---|
| `PollCycle` | the printers table under the poller and the web server |
| `MCPollCycle`, `PollCycle.cfg` | its instance for TLC |
| `PollCycle_proofs` | theorems about it |
| `UpdateLedger` | abstract: what the table of runs promises its readers |
| `UpdateRuns` | the update and rollback flow; instantiates `UpdateLedger` |
| `MCUpdateRuns`, `Update.cfg` | its instance |
| `UpdateRuns_proofs` | theorems about it |
| `FilamentBilling` | the billing of one Bambu printer's prints |
| `MCFilamentBilling`, `Billing.cfg` | its instance |
| `FilamentBilling_proofs` | theorems about it |
| `Maintenance`, `MCMaintenance`, `Maintenance.cfg` | hours, schedules, tasks and alerts of one printer |
| `PrintQueue`, `MCPrintQueue`, `PrintQueue.cfg` | the queue's rows, its readers and a staff tab |
| `PrintQueue_proofs` | theorems about it |
| `FilamentStation`, `MCFilamentStation`, `Station*.cfg` | spools and assignments between people, poller and replay |
| `FilamentStation_proofs` | theorems about it |
| `Accounts`, `MCAccounts`, `Accounts.cfg` | the list of accounts, sessions and their copies |
| `Accounts_proofs` | theorems about it |
| `FleetView`, `MCFleetView`, `FleetView.cfg` | a tab's view of the printers and what it tells |
| `FleetView_proofs` | theorems about it |
| `HaRules` | what a rule is, and what the engine promises of its firings |
| `HaEngine`, `MCHaEngine`, `HaEngine.cfg`, `EveryRule.cfg`, `AddedRule.cfg` | the rule engine and its administrators |
| `Workers_proofs` | theorems about the web server's two workers: `Maintenance`, and `HaEngine` as an instance `Ha` |

Definitions whose comment begins with "Slip" are variants of the definition they
precede: each is a plausible bug, no action uses it, and substituting it makes TLC
find the property it is paired with (in `PROJECT.json`, "mutants") violated.

### PollCycle

One cycle is `StartCycle` (`listPrinters`), `Refresh` per printer in any order
(`refreshAll` runs them concurrently), `StartApply`, then per printer
`Accrue` and `CountJob` (the statements of `collectAnalyticsForTransition`) and
`Persist` (`shouldPersistPrinter`, `upsertPrinter`), and `EndCycle`. The loop takes printers in the
order of the list; the model in any order. `table` is the database;
`snap` and `result` are the copies in the poller. Each action is one SQL statement
or one step in memory, so web handlers fall between any two of them. `DbError`,
`LoseAck` and `Crash` are a failing statement, a commit whose reply is lost and a restart.
The web server's actions are `SavePrinter`, `DeletePrinter`, `SendTarget` and
`StoreTarget` (the command handler's two steps) and `LoseTarget`.

Abstracted: a row is a configuration, one target (the chamber's), a status, a job, the
age of `offlineSince` and the hours; times are ages that stop at the last value
the code tells apart; the hours of a job are one unit. Left out: `total_print_time`,
the outcome of a job, the difference between paused, error and idle, generic printers,
whose job is kept from the row, Redis (off in the single container) and the filament
statements, whose errors are only logged (see `FilamentBilling`).

Properties: `EditLostOnlyInFlight`, `TargetLostOnlyInFlight` and
`HoursSurviveUpsert` (what whole-row writes may not undo), `CountedOncePerPrint`
and `NoJobVanishesUncounted` (job accounting), `OfflineOnlyAfterGrace` and
`RowsConverge` (what users see). `OfflineOnlyAfterGrace` is stated for behaviours
without a failed cycle: a cycle in which the printer answered but that failed
before its write leaves `offlineSince` in the row.

### UpdateRuns

`row` is `update_runs`. A request inserts a run (`Request`, refused by the unique
index on the guard) and starts a detached task; every live container's watchdog reads
the active run (`Watch`) and acts on what it read. All moves are the conditional
update `Moved`. Tasks are records of container, run, role and step, so any number of
them interleave, each working from the row it `seen`. The world is external: Watchtower
(`Recreate`, `StopOld`, `PullDone`), GitHub (`JobStep`), the registry (`Publish`),
restarts and the clock. `Overlap` says whether the old and the new container may be up
together. `DbError` in a detached start kills the process, which has no
handler for unhandled rejections. A readiness check is two steps, `Probe` and `RecordProbe`, and the database or
the server may fail between them; `evidence` counts ready probes since the last reset that reached the row.
Left out: the event log, the audit log and the pre-flight checks.

Properties: `KeepsLedger` (refinement of `UpdateLedger`), `TriggeredOnce`,
`SuccessIsEarned`, `RetagFirst` and `RunsEnd`. `API.md` 773 calls the passes consecutive: they are, unless the
reset after an unready probe is lost, which is why `SuccessIsEarned` counts from the last recorded one.

### FilamentBilling

One Bambu printer. `Refresh` captures or keeps the baseline (`Tracked`, from
`updateBambuFilamentUsed`); if the row's job has ended (`Ended`, the condition in
`run.go`), `TakeBaseline` removes it and `BillSlot` and `BillTray` are the two loops of
`applyFilamentConsumption`, one database exchange (lookup and update) per action, ended
by `EndBilling` or by an error (`LoseBilling`, logged). `Persist` writes the row only
afterwards. `TrayOf` is `resolveSlotToTray`: the printer's mapping, then the
all-or-nothing colour match, then position among the loaded trays, then the active
tray. `charges` records each call of `decrementSpoolWeight` with the print billed and the print
whose baseline was used. Slots are taken in any order, the code takes them in the
file's; which tray a slot resolves to does not depend on it. The lookup and the update are one action because
a reassignment between them has the effect of one just after. A printer that does
not answer is given up at any moment (`PollCycle` has the grace period). Left out:
amounts, the pruning of deleted printers, and the row signature (a write that is skipped changes nothing here).

Properties: `OnePathPerTray`, `OneSlotPerTray`, `RebilledOnlyBehindNextPrint` and
`BaselineHasItsJob`.

### Maintenance

The poller adds hours and, in statements of their own, opens a task for each interval they
cross (`Accrue`, `Cross`, `OpenCrossed`). The worker's pass is `StartPass`, four reads
(`Read`), `Open` for what `Due` finds missing, the alerts (`Alert`, then `Mark`, one list of
tasks per pass) and the score (`WriteHealth`, `AlertHealth`). A save of the default
intervals stores the list and reconciles it in five statements (`StoreList`, `Collapse`,
`Retarget`, `SeedMissing`, `DropRemoved`, `ClearPending`), each of which may fail; the
backfill and a new printer insert from a list they read before. Staff complete tasks and mark
alerts read. `Opened` is the insert on the partial unique index. Hours are units; the score
is below 70 or not; the condition that lowers it is `worn`. One printer: schedules and tasks
of printers never meet.

Properties: `TypeOK` (one pending task per service is part of it), `ServedOnce`, `SchedulesFollowList`
(a save that ran alone leaves the schedules of its list, and the unique index on a printer's types and
intervals never refuses it, whatever failed saves left behind), `RepeatedOnlyForBackstop`, `DueIsOpened`
and `OverdueIsMarked`.

### PrintQueue

A request changes rows (`Submit`, `Import`, `MarkPrinted`, `Delete`, `Reset`, `PutFile`...)
and calls `broadcastQueueStatusUpdate`: `asked` counts the calls whose query has not run,
`answers` the statuses read and not yet pushed, so pushes overtake each other. A
download and the backfill read a model in two `Chunks`, and between any two chunks the job may be
printed, deleted, restored or given another model; `swapped` marks the jobs restored or given a model while
they are read. An import writes the manifest's status and estimate over a row that keeps its model; `apart`
marks the jobs whose model and estimate an import or an upload has put apart. The tab has
two readers of its own (the sidebar's poll and the page's) and the fetch after an action; the page
reads its two lists by two statements. The event stream breaks and comes back, queries fail, and
the server restarts (`Crash`: the backfill begins anew). Left out: the order and the text of
rows, notifications, estimates as numbers.

Properties: `DownloadIsWhole`, `EstimateIsOfModel`, `DotConverges`, `PageConverges`, `BackfillEnds`.

### FilamentStation

`rows` is `filament_station_assignments` for one printer's trays. People assign in up to three
steps (`StartAssign`, `WriteAssign`, `PushAssign`), unassign, edit and delete spools and link the one tag there
is. A poll finds or creates the spool of each tagged tray, assigns it, reads the
printer's rows and decides each of them from the report it began with (`StartPoll`,
`FindTag`, `Catalog`, `SelectRow`, `InsertRow`, `ListRows`, `CheckRow`). The replay reads what
is due, pushes and records by the row's id (`ListDue`, `PickDue`, `SendDue`,
`RecordDue`). A row's id is modelled by `live`: a reader's row is gone once it has been deleted,
though the tray may have a new one. `load` numbers what people put into a tray.
`taken` is what the printer took last; `doubt` marks the trays where the code has no means to
know (a row written under a push, a push to an emptied tray). A type stands for material
and colour. Left out: serials, weights, locations.

Properties: `TagOnOneSpool`, `AppliedIsTaken`, `PushedOnce`, `PendingIsDecided`, and `KeptInPlace`,
which is refuted.

### Accounts

Each `Handler` runs one request at a time, a statement or Redis command per step: an edit reads the list and
writes it whole (`StartEdit`, `WriteList`), then deletes the user's rows and stamps the
mark that makes older copies stale (`DropRows`, `StampMarker`); a login hashes between its read
and its session and may write the list back with the new password format (`StartLogin`,
`Upgrade`, `Issue`); a call looks for a copy, its mark and its row and writes a new copy
(`StartCall`, `CheckMarker`, `ReadRow`, `Put`). The session row carries, as
history, the password it was opened with. `unsettled` and `raced` mark the users and tokens for which a crossing or a
failure leaves the code no guarantee; a restart of the server (`Crash`) between the write of an account and
the end of its revocation is such a failure, since nothing takes the revocation up again. Left out: the administrator's own
credentials, throttling, SSO, slicer keys, expiry of sessions.

Properties: `SessionIsCurrent`, `CopyHasRow`, `NamesUnique`, `RevokedEnds`.

### FleetView

`fleet` is what the server would answer; jobs go on while a printer is offline, unseen. `Ask`,
`Answer` and `Apply` or `Fail` are one poll; several overlap and their answers come in any order. An answer is a list with its tag or
"unchanged" (`Matches`), and `TagAfter` is what `etagRef` becomes. `Compare` is the notifier's effect, run
only when the list changes: it tells transitions at once and holds a stop of a printer that went offline
until `Confirms`. `Age` lets the confirmation's time pass. `told` counts what was told of
each job, `crossed` what overlapping did. One job per printer at a time; temperatures are one flag, which keeps lists coming.

Properties: `ToldOnce`, `ViewConverges`, `PendingIsResolved`; `TagIsOfView` is not run but proved.

### HaEngine

A pass reads the rules, the printers' statuses one by one and all entities at once, then evaluates
the rules in order (`StartPass`, `ReadPrinter`, `ReadEntities`, `Evaluate`); `memory` is
the two maps of last seen values and is lost by `Crash`. `MissPrinter` and `MissEntities`
are reads that fail or find nothing. Administrators' requests read the list and write it whole later (`Create`, `Delete`,
`Update`, `WriteRules`). `fired` counts firings; `due` holds the changes that rules have not fired for since,
`older` those of them from before the rule was created. Left out: what a fired rule
does, and switching the integration off.

Properties: `FiresOncePerChange`, `FirstReacts`, and `EveryReacts` and `AddedRuleWaits`, which are refuted.

## Runs

States are distinct states. Every instance is a set of scenarios (`Budgets`, `Scenarios`; in `poll` also the
printers registered at first): how often each event of the environment may happen, in any state and any order. Each scenario is there for a
combination of events that a property is about; the initial state chooses one.

| Run | Instance | States | Shows |
|---|---|---|---|
| `poll` | 1 or 2 printers registered at first, one of them echoing, 2 jobs, 2 configurations, grace 2, heartbeat 2; a save, an insertion, a deletion, a command, two prints or drop-outs, with a fault between any two statements | 1.0 M | what a cycle may undo, that jobs are counted, the grace period, convergence |
| `update` | 2 containers in turn, 2 runs of either kind, 2 passes; a cancel, crash, fault and publication | 614 k | refinement, one request per run, termination, earned success, tag first |
| `billing` | 2 trays, 2 files, 2 prints, 1 fault, 1 drop-out, 1 spool swapped or unbound | 9.3 M | charging |
| `maintenance` | 2 kinds of service, 3 hours, 1 administrator; a save of another list, a service, a fault | 185 k | tasks, schedules and alerts |
| `queue` | 2 jobs, 2 models, 3 readers; requests, an import of any status and estimate, an upload, a download, a fault | 228 k | readers, and the tab's convergence |
| `station` | 1 tray, 3 spools (one of them a spare id), 1 tag; loads, requests, an edit, a fault | 231 k | tags, assignments and pushes |
| `accounts` | 2 requests at a time, 3 ids, 2 names, 2 sessions; edits, creations, logins, calls, a logout, a fault or restart | 140 k | accounts, sessions and copies |
| `fleet` | 1 printer, 2 jobs, 2 overlapping polls; pauses, an outage, a failing poll with or without a job | 442 k | what a tab shows and tells |
| `rules` | 1 printer, 1 entity, 2 values, up to 3 rules; moves, edits, a miss or restart | 162 k | what rules react to |
| `rules_every` | 2 rules of one printer, 1 move | violation | the second rule never fires |
| `rules_added` | 1 rule, 2 edits, 1 move | violation | a rule added later fires for an older change |
| `station_kept` | 1 tray, 1 request | violation | the setting pushed unlinks its own assignment |

Why the bounds suffice: printers meet only in the order of one cycle, so two show every
overlap there and one is enough elsewhere. A race is between one cycle, pass or request and one
other, or two; one fault between two statements brings every cache and its row apart once. Ages stop at `Grace` and `Heartbeat`, where
the code stops telling them apart. Two runs and two containers are what a race between
watchdogs or rollbacks takes. Two prints give a reprint and a direct switch; two trays and two slots
of one colour give an ambiguous match. One administrator's save, with the backfill, is what meets a pass.
Two models and two chunks give mixed bytes; one tray and its reader give every race over a
row, since rows of two trays meet nowhere; two accounts give a lost write and a taken name; two polls give an
overtaken answer; two rules of one source, a shared memory. The bounds are on the environment; the proofs do not depend on their values.

`CHECK_DEADLOCK FALSE` is given where the bounded environment runs out and the system
rightly stops.

### Fairness

Nothing is assumed of people, printers, GitHub or Watchtower.

- `PollCycle`: the poller (its loop never ends and every refresh has a timeout), time, and
  the second half of a command handler.
- `UpdateRuns`: the servers' steps (the watchdog's timer fires in every live container and its
  requests time out), the container engine (`restart: unless-stopped`), and each deadline passing.
- `Maintenance`: the worker (its timer never stops; a statement is answered or fails).
- `PrintQueue`: the queries of broadcasts, the backfill, and the tab's polls, for a scenario that has them open.
- `FilamentStation`: the poller, the replay and a request that has begun.
- `Accounts`: a request that has begun, and the expiry of copies in Redis.
- `FleetView`: polls are sent and answered while the tab is shown, and the confirmation's time passes.
- `HaEngine`: the engine's passes.

## Proofs

TLAPS checks these for every value of the constants that satisfies the named assumptions of each
module, which say that sentinels differ from values (in `PollCycle` also from whole rows and
signatures), sets of scenarios range over what their fields may be, a scenario with failures says so
(`faulty` in `FilamentStation`), a sliced file has finitely many slots, and initial lists are lists.
The two theorems about `HaEngine` are about an instance of it, so its assumption is a hypothesis they
state (`Ha!ConstantsAssumption`); TLC evaluates it in `rules`. What the engine promises is in `HaRules`,
which `HaEngine` and the proofs share. `SuccessEarned` has one hypothesis of its own, `~Overlap`, which the run has too.

| Theorem | Statement |
|---|---|
| `TypeCorrect`, in every proof module, and `Workers_proofs!EngineTypeCorrect` | `Spec => []TypeOK`, of all nine components |
| `PollCycle_proofs!EditsSafe`, `TargetsSafe`, `HoursSafe` | `EditLostOnlyInFlight`, `TargetLostOnlyInFlight`, `HoursSurviveUpsert` |
| `PollCycle_proofs!JobsCounted` | `Spec => NoJobVanishesUncounted` |
| `PollCycle_proofs!CountsSafe` | `Spec => []CountedOncePerPrint` |
| `PollCycle_proofs!GraceKept` | `Spec => OfflineOnlyAfterGrace` |
| `UpdateRuns_proofs!Triggered` | `Spec => []TriggeredOnce` |
| `UpdateRuns_proofs!LedgerKept` | `Spec => KeepsLedger`, the refinement |
| `UpdateRuns_proofs!SuccessEarned` | `Spec => []SuccessIsEarned`, if `~Overlap` |
| `UpdateRuns_proofs!RetaggedFirst` | `Spec => []RetagFirst` |
| `FilamentBilling_proofs!ChargedByOnePath` | `Spec => []OnePathPerTray` |
| `FilamentBilling_proofs!BaselineFollowsRow` | `Spec => []BaselineHasItsJob` |
| `FilamentBilling_proofs!ChargedForOneSlot` | `Spec => []OneSlotPerTray` |
| `FilamentBilling_proofs!RebillsBounded` | `Spec => []RebilledOnlyBehindNextPrint` |
| `PrintQueue_proofs!DownloadsAreWhole`, `EstimatesAreOfModels` | `DownloadIsWhole`, `EstimateIsOfModel` |
| `FilamentStation_proofs!TagNames`, `AppliedWasTaken`, `PushesOnce` | `TagOnOneSpool`, `AppliedIsTaken`, `PushedOnce` |
| `Accounts_proofs!NamesKept`, `SessionsFollow`, `CopiesFollow` | `NamesUnique`, `SessionIsCurrent`, `CopyHasRow` |
| `FleetView_proofs!TagFollowsView`, `ToldAtMostOnce` | `TagIsOfView`, `ToldOnce` |
| `Workers_proofs!ServedOnceEach`, `ListFollowed`, `AlertsNotRepeated` | `ServedOnce`, `SchedulesFollowList`, `RepeatedOnlyForBackstop` of `Maintenance` |
| `Workers_proofs!FiredForAChange` | `Ha!Spec => FiresOncePerChange` |

`PollCycle`: `TypeOK` is not inductive, because `Persist` writes a copy made
earlier. `CycleShape` says what the cycle has in hand in each phase: nothing between
cycles, a result only of a printer that was read, with the columns the poller may
not invent. `EditsInv` and `TargetsInv` add that a copy not yet written holds what the
web server last stored, unless the column is marked `raced`, so that writing it back
changes nothing. `JobsInv` adds that while a cycle has a row still to write, nobody
else has put another job in it.
`OwedInv` is the argument for `CountedOncePerPrint`: what was counted of a job and what is still
`Owed` to it never exceed its prints and repeats. A job is owed one count while the printer or the row
names it; between deciding that it ended and writing the row, one by the cycle and one more if the
printer has begun to print it again. A cycle that counted it and ends without writing is the repeat.
`GraceInv` is the argument for `OfflineOnlyAfterGrace`, until a cycle fails: no row has counted longer
than its printer has been silent, except the row a cycle holds an answer for. That one is always
written, although rows believed unchanged are not, because the signature of the row last written says
since when the printer was silent.

`UpdateRuns`: `RowShape` says rows are inserted in order, a rollback names its target and
only rollbacks have workflows. `TaskShape` relates a task to its row. `PostShape` is the argument
for `TriggeredOnce`: at most one task holds the right to ask Watchtower for a run,
only for a run not yet asked for, and the right is won by leaving `queued` or
`retagging`, which no run returns to. Each action is one of three kinds for the table
(`Still`, `Born`, `Carried`) and one of three for the right to ask (`Nobody`,
`Acquires`, `Asks`), and the invariant is carried through the kinds rather than
through the actions.
`Earning` is the argument for `SuccessIsEarned`: with one container up there is one watchdog, so what
it read of a run that is verifying is still in the row (`Current`), and the passes in the row are
backed by as many ready probes since the last reset that reached the row (`Backed`); a probe and the write of
its result are two steps, so a ready probe counts for its task before it counts for the row (`Reading`). A
reset that is lost leaves both as they were. With two containers up both may
write passes, hence the hypothesis.
`Tagging` is the argument for `RetagFirst`: only the last run holds the guard (`LastHolds`) and only one
task dispatches for it (`OneDispatch`), so a workflow found for the first rollback is its own, and the right
to ask Watchtower for that run is won only with its workflow done. It needs no hypothesis on containers.

`FilamentBilling`: `TypeInv` adds to `TypeOK` that a job and its print number come
together and that a billing has a baseline and slots of the file it bills. `PathInv` is
the argument for `OnePathPerTray`: billings are numbered as they begin, the slots are
charged before any tray, and a tray charged for a slot is in `handled` from then on.
`BaseInv` follows the baseline while nothing has failed: after a refresh it belongs to the
job reported or to the one the row is about to lose, and the billing takes it away
before the row changes. For `OneSlotPerTray`, `TrayOfDistinct` is a lemma about the algorithm: without a
mapping of the printer's own, `TrayOf` never sends two slots of a file to one tray, in any of its
modes; `SlotInv` adds that the slots charged are done and went to the tray that `TrayOf` gives. For
`RebilledOnlyBehindNextPrint`, `Numbered` and `MovedOn` say that when a print is billed its printer
has moved on from it and its baseline is gone, so that any later baseline is of a later print.

`PrintQueue`: `Reads` is the argument for both theorems, for either reader. What it has of an
unswapped job is of one model, the stored one if one is stored, whatever estimate the row has;
and a reader that stopped early found no model in the row, so what it stamps lands on a row that
has lost it.

`FilamentStation`: `Batch` relates a row the replay holds to the table: its spool is unchanged, or it was
written over since (`touched`) and the tray is in doubt, or it was deleted. `Took` says that a push
the printer took is the last one it took, unless the row was written over before the result is
recorded. `Once`, for `PushedOnce`, says that a row found due on a type is not found due again
(`Decided`), and that while it is due after a push the replay has yet to record that push. `Cycles` and `Passes` say what the poller and the replay have in hand at each step.

`Accounts`: a request is one of four kinds, with what it keeps from step to step. `NamesInv` is why
names stay unique although the check is a statement earlier: every list a request holds is unique, with
its change where it has one, and a write replaces the whole list, so two crossing writes lose an account
rather than duplicate a name. `SessionsInv` adds to `SessionIsCurrent` that whoever has a
session, or is signing in, has had an account, so that creating one makes no session stale.
For `CopyHasRow`, `Owned` says that a copy and the row it is a copy of have one user, so that whoever
revokes the row leaves the marker that makes the copy unusable.

`FleetView`: `TagsAsked` says that a poll was sent with the tag the tab still has, unless another
answer was used since; an answer of "unchanged" then leaves the tag of the list in view.
`Sure` is the argument for `ToldOnce`: lists are taken of the printers one after another (`Ordered`)
and a job that is over stays over, so a list given between two that have a job has it
(`Between`, `Since`). A job whose beginning was told is therefore in view until it is over, and one whose
end was told, or awaits confirmation, comes back in no answer under way. The proof showed that a failed
answer has to be forgotten by those given after it: `Fail` left it in their `before`, where a poll sent
later was taken for it.

`Maintenance`: `Shape` says what each actor has in hand, that ids are given in order and that the rows of a
type differ in their creation times. `ServedInv` is the argument for `ServedOnce`: a schedule's tasks
fit in the intervals of the hours there are now (`WithinHours`), and a crossing or a pass that still has to
open one has room for it by the counts it read, because hours only grow and what it read of pending and
completed tasks is still there (`WithinCrossing`, `WithinPass`). A completion under way is what breaks this:
a task read as neither pending nor completed is opened again; those are the behaviours `raced` marks.
`ListInv` is the argument for `SchedulesFollowList`: `OnCourse` says what each statement of a save that is
`Alone` leaves for the next, and `Settled` what holds between saves. `Collapse` keeps one row of each
type, the one made last, which is why `Retarget` cannot collide; two saves that overlap, or a
seeding from an older list, can leave anything, and the next save that runs alone mends it. The proof
needs nothing of the states before that save.
`AlertInv` is the argument for `RepeatedOnlyForBackstop`: a task alerted for a kind is marked before
the pass reads again, and what the pass has in hand says so (the task is not in a list it will still
alert, unless the worker opened it), and `Episodes` says the same of the score.

`HaEngine`: `due` is the history of changes that rules have not fired for. `UnspentAtState`, `UnspentAsRead`
and `UnspentSinceRead` carry "no rule has fired yet for the last change" from the move of the source
through the read to the evaluation, which fires only for a value that was not the last one seen. The lists of rules rest on what appending, removing and replacing
an element does to a list with unique ids.

Every invariant and every action property of a passing run is proved. Only model-checked: the liveness
properties (`RowsConverge`, `RunsEnd`, `DueIsOpened`, `OverdueIsMarked`, `DotConverges`, `PageConverges`,
`BackfillEnds`, `PendingIsDecided`, `RevokedEnds`, `ViewConverges`, `PendingIsResolved`, `FirstReacts`),
since liveness under fairness is out of this prover's reach.

## What the checks found

Three disagreements between the code and what the repository says of it are kept as runs that TLC
refutes, with the lines in `PROJECT.json` under "findings":

- a second rule on one source never fires (`rules_every`);
- a rule added to a source that no enabled rule was watching fires for a change from before it was
  added (`rules_added`);
- the setting the replay pushes makes the poller take off the assignment it came from (`station_kept`).

Others were met while modelling. The properties are stated so as to leave each of them out, by a history
variable, an instance or the scope in the property's comment:

- a reported target does not always win in the next cycle (`postgres.js` 970, `persist.go` 52);
- a deleted printer comes back when a cycle is in flight (`API.md` 115, `store.go` 316);
- with two rollbacks within a minute the second takes the first's workflow (`updateRollback.js` 115, 134);
- an unready probe whose reset is lost, with its database or its process, is forgotten, and success follows
  probes that were not the "consecutive" ones of `API.md` 773 (`app.js` 7253, 7257);
- a watchdog adopts a request still under way, whose refusal is then lost (`app.js` 7193);
- while both containers are up the old one posts ready probes for the new version (`app.js` 7247);
- a print that ends by the next one starting is billed with the next one's baseline (`bambu.go` 443, 532);
- an imported manifest puts its estimate on a row that keeps another model (`postgres.js` 1821);
- a login that crosses a change of role opens a session with the old one, and a copy of a session written
  after its row was deleted is used for a minute (`app.js` 4886, 1725);
- a server that dies between the write of an account and the deletion of its sessions leaves them (`app.js` 5590);
- a task the worker opens is alerted, not marked, and alerted again (`app.js` 6978, 6999);
- an account removed during a login that upgrades its password format is back (`app.js` 4874);
- the data API changes roles and passwords without revoking sessions (`app.js` 3754, `postgres.js` 1375);
- a stop awaiting confirmation is never told while the list is answered "unchanged"
  (`PrinterStatusNotifier.tsx` 11, 115);
- a printer that goes offline without a job is told as a stopped job (`PrinterStatusNotifier.tsx` 15, 82).

## What could come next

1. The save of a printer as two statements, with its blank keys (`postgres.js` 862).
2. The Bambu report merge with its ages, and `resolveSlotToTray` and the slicer's AMS mapping against
   a declarative reference over all small loads.
3. The restore of a backup against a running poller.

## Not modelled

The Bambu report merge (decoding and ages), SSO and cryptography, geometry estimates, backup
and zip formats, cameras and commands, status lights, the slicer proxy, metrics, the MCP
server, the other views of the React application, firmware and the Swift app, the Go web
server (a port not yet deployed), and the legacy Python poller. Most of these are
stateless adapters, formats or numeric code; `PROJECT.json` has the reason for each.
Within the modelled components, each section above names what is left out.
