------------------------------ MODULE UpdateRuns ------------------------------
(***************************************************************************)
(* The admin update and rollback flow (app.js, updateRollback.js and the   *)
(* update_runs table of postgres.js).  The run's row is the only state     *)
(* that outlives the web container, which the update itself replaces: an   *)
(* admin's request starts it, the request's detached task and the          *)
(* watchdogs of every live container move it on by conditional updates,    *)
(* and another admin may cancel it at any moment.                          *)
(***************************************************************************)
EXTENDS Integers, FiniteSets

CONSTANTS
    Boxes,       \* web containers, one of them up at the start
    Versions,
    NoVersion,   \* an update whose target could not be looked up
    NoRow,
    Passes,      \* UPDATE_HEALTH_PASSES
    Overlap,     \* whether the old and the new container may be up together
    Starts,      \* the versions the farm may run at the start
    Goals,       \* the targets administrators request
    MaxRuns,
    Budgets      \* how many requests, cancels, crashes, failures and new versions there may be

Kinds == {"update", "rollback"}
Limited == Kinds \cup {"cancel", "crash", "fault", "publish"}

ASSUME ConstantsAssumption ==
    /\ NoVersion \notin Versions
    /\ Passes \in Nat \ {0}
    /\ Overlap \in BOOLEAN
    /\ Starts \subseteq Versions
    /\ Goals \subseteq Versions \cup {NoVersion}
    /\ MaxRuns \in Nat
    /\ Budgets \subseteq [Limited -> Nat]

VARIABLES
    row,      \* the update_runs table
    last,     \* the id of the last run inserted
    tasks,    \* handlers and watchdog passes under way
    box,      \* the web containers
    pulling,  \* Watchtower is replacing containers
    latest,   \* what the moving image tag names
    job,      \* the rollback workflow each run dispatched
    budget    \* how often administrators and the environment may still act

VARIABLES     \* history, for the properties only
    posted,   \* requests to Watchtower made for each run
    evidence  \* ready probes of each run since a reset of its count was last recorded

worldVars == <<box, pulling, latest, job>>
vars == <<row, last, tasks, worldVars, budget, posted, evidence>>

Runs   == 1..MaxRuns
Active == {"queued", "retagging", "triggering", "applying", "verifying"}
Ended  == {"succeeded", "failed", "timed_out", "cancelled"}
Row    == [kind : Kinds, state : Active \cup Ended, guard : BOOLEAN,
           from : Versions, to : Versions \cup {NoVersion}, due : BOOLEAN,
           sent : BOOLEAN, passes : Nat, rested : BOOLEAN]

ASSUME NoRowAssumption == NoRow \notin Row

Roles  == {"handler", "watchdog", "cancel"}
Steps  == {"seen", "begin", "dispatch", "dispatched", "undispatched", "retagged",
           "jobFailed", "post", "waiting", "accepted", "refused", "ready", "unready"}
Task   == [box : Boxes, run : Runs, role : Roles, at : Steps, seen : Row]
Box    == [life : {"up", "crashed", "gone"}, img : Versions]
Job    == [st : {"none", "unlisted", "running", "ok", "bad"}, fresh : BOOLEAN,
           close : BOOLEAN]

Up(b)  == box[b].life = "up"
Spend(k) == budget[k] > 0 /\ budget' = [budget EXCEPT ![k] = @ - 1]

NoJob == [st |-> "none", fresh |-> FALSE, close |-> FALSE]

Init ==
    /\ row = [r \in Runs |-> NoRow]
    /\ last = 0
    /\ tasks = {}
    /\ latest \in Versions
    /\ \E v \in Starts, b \in Boxes :
         box = [c \in Boxes |-> [life |-> IF c = b THEN "up" ELSE "gone", img |-> v]]
    /\ pulling = FALSE
    /\ job = [r \in Runs |-> NoJob]
    /\ budget \in Budgets
    /\ posted = [r \in Runs |-> 0]
    /\ evidence = [r \in Runs |-> 0]

-----------------------------------------------------------------------------
(* The row.                                                                *)

\* Slips of the conditional update: the expected state not compared; 'timed_out'
\* forgotten among the states that release the guard.
MovedAnyway(r, from, to, patch) ==
    [row EXCEPT ![r] = [patch EXCEPT !.state = to, !.guard = to \notin Ended]]
MovedKeepingGuard(r, from, to, patch) ==
    IF row[r].state # from THEN row
    ELSE [row EXCEPT ![r] =
            [patch EXCEPT !.state = to, !.guard = to \notin Ended \ {"timed_out"}]]

\* transitionUpdateRun: moves the run only if it is still in the state from.
\* patch is the row with the columns of the patch set.
Moved(r, from, to, patch) ==
    IF row[r].state # from THEN row
    ELSE [row EXCEPT ![r] = [patch EXCEPT !.state = to, !.guard = to \notin Ended]]

CanMove(r, from) == row[r].state = from

Go(t, at)  == tasks' = (tasks \ {t}) \cup {[t EXCEPT !.at = at]}
Finish(t)  == tasks' = tasks \ {t}

\* A step that only moves the row and ends its task.
MoveAndFinish(t, from, to, patch) ==
    /\ row' = Moved(t.run, from, to, patch)
    /\ Finish(t)
    /\ UNCHANGED <<last, worldVars, budget, posted, evidence>>

Held(r) == row[r] # NoRow /\ row[r].guard

-----------------------------------------------------------------------------
(* Requests.                                                               *)

\* POST /api/admin/update/apply and /rollback: createUpdateRun, refused by the
\* unique index while a run holds the guard; the start runs detached.
Request(b, kind, to) ==
    LET r   == last + 1
        new == [kind |-> kind, state |-> "queued", guard |-> TRUE, from |-> box[b].img,
                to |-> to, due |-> FALSE, sent |-> FALSE, passes |-> 0, rested |-> TRUE]
    IN /\ Up(b)
       /\ last < MaxRuns
       /\ kind = "rollback" => to # NoVersion
       /\ \A s \in Runs : ~Held(s)
       /\ row' = [row EXCEPT ![r] = new]
       /\ last' = r
       /\ tasks' = tasks \cup
            {[box |-> b, run |-> r, role |-> "handler", at |-> "begin", seen |-> new]}
       /\ Spend(kind)
       /\ UNCHANGED <<worldVars, posted, evidence>>

\* POST /api/admin/update/runs/:id/cancel reads the run...
ReadToCancel(b, r) ==
    /\ Up(b)
    /\ row[r] # NoRow /\ row[r].state \in Active
    /\ Spend("cancel")
    /\ tasks' = tasks \cup
         {[box |-> b, run |-> r, role |-> "cancel", at |-> "seen", seen |-> row[r]]}
    /\ UNCHANGED <<row, last, worldVars, posted, evidence>>

\* ...and moves it from the state it read; the answer is 200 either way.
Cancel(t) ==
    /\ t.role = "cancel"
    /\ MoveAndFinish(t, t.seen.state, "cancelled", row[t.run])

-----------------------------------------------------------------------------
(* startWatchtowerUpdate, startRollback and triggerWatchtower.             *)

\* Slip: the run is triggered without having won the transition.
WonAlways(t) == TRUE

\* The process that moves the run out of 'queued' owns its start.
Won(t) == CanMove(t.run, "queued")

Begin(t) ==
    LET rollback == t.seen.kind = "rollback"
        to       == IF rollback THEN "retagging" ELSE "triggering"
    IN /\ \/ t.at = "begin"
          \/ t.role = "watchdog" /\ t.at = "seen" /\ ~t.seen.due /\ t.seen.state = "queued"
       /\ row' = Moved(t.run, "queued", to, row[t.run])
       /\ IF Won(t) THEN Go(t, IF rollback THEN "dispatch" ELSE "post") ELSE Finish(t)
       /\ UNCHANGED <<last, worldVars, budget, posted, evidence>>

\* triggerRollbackWorkflow: GitHub answers, refuses, or has started the
\* workflow although the answer is lost.
Dispatch(t) ==
    /\ t.at = "dispatch"
    /\ \/ /\ job' = [job EXCEPT ![t.run] =
                       [st |-> "unlisted", fresh |-> TRUE,
                        close |-> t.run > 1 /\ job[t.run - 1].fresh]]
          /\ \/ Go(t, "dispatched") /\ UNCHANGED budget
             \/ Go(t, "undispatched") /\ Spend("fault")
       \/ Go(t, "undispatched") /\ UNCHANGED <<job, budget>>
    /\ UNCHANGED <<row, last, box, pulling, latest, posted, evidence>>

RecordDispatch(t) ==
    /\ t.at = "dispatched"
    /\ MoveAndFinish(t, "retagging", "retagging", [row[t.run] EXCEPT !.sent = TRUE])

FailDispatch(t) ==
    /\ t.at = "undispatched"
    /\ MoveAndFinish(t, "retagging", "failed", row[t.run])

\* The POST reaches Watchtower, which starts pulling, or is refused.
Post(t) ==
    /\ t.at = "post"
    /\ posted' = [posted EXCEPT ![t.run] = @ + 1]
    /\ \/ pulling' = TRUE /\ Go(t, "waiting")
       \/ pulling' = pulling /\ Go(t, "refused")
    /\ UNCHANGED <<row, last, box, latest, job, budget, evidence>>

\* The answer, the abort after five minutes, or a connection lost on the way.
Answer(t) ==
    /\ t.at = "waiting"
    /\ \/ Go(t, "accepted") /\ UNCHANGED budget
       \/ Go(t, "refused") /\ Spend("fault")
    /\ UNCHANGED <<row, last, worldVars, posted, evidence>>

RecordAccepted(t) ==
    /\ t.at = "accepted"
    /\ MoveAndFinish(t, "triggering", "applying", row[t.run])

RecordRefused(t) ==
    /\ t.at = "refused"
    /\ MoveAndFinish(t, "triggering", "failed", row[t.run])

-----------------------------------------------------------------------------
(* runUpdateWatchdogPass: one pass at a time in each container.            *)

Watch(b) ==
    /\ Up(b)
    /\ \A t \in tasks : ~(t.box = b /\ t.role = "watchdog")
    /\ \E r \in Runs :
         /\ Held(r)
         /\ tasks' = tasks \cup
              {[box |-> b, run |-> r, role |-> "watchdog", at |-> "seen", seen |-> row[r]]}
    /\ UNCHANGED <<row, last, worldVars, budget, posted, evidence>>

Seen(t, state) ==
    t.role = "watchdog" /\ t.at = "seen" /\ ~t.seen.due /\ t.seen.state = state

TimeOut(t) ==
    /\ t.role = "watchdog" /\ t.at = "seen" /\ t.seen.due
    /\ MoveAndFinish(t, t.seen.state, "timed_out", row[t.run])

\* 'triggering' is taken to mean that the process that was asking has died.
Adopt(t) ==
    /\ Seen(t, "triggering")
    /\ MoveAndFinish(t, "triggering", "applying", row[t.run])

\* The listed jobs created since a minute before the dispatch; if no dispatch
\* was recorded, in the last minute.
Candidates(t) ==
    {s \in Runs : /\ job[s].st \in {"running", "ok", "bad"}
                  /\ IF t.seen.sent
                     THEN s >= t.run \/ (s = t.run - 1 /\ job[t.run].close)
                     ELSE job[s].fresh}

\* Slip: a workflow that is listed and has not failed taken for done.
DoneWhenListed(s) == IF job[s].st = "bad" THEN "jobFailed" ELSE "retagged"

Verdict(s) == CASE job[s].st = "ok"  -> "retagged"
                [] job[s].st = "bad" -> "jobFailed"
                [] OTHER             -> "waiting"

\* pollRollbackWorkflow takes the newest of them for this run's; without an
\* answer, or with none listed, the pass just ends.
PollJob(t) ==
    /\ Seen(t, "retagging")
    /\ \/ \E s \in Candidates(t) :
            /\ \A u \in Candidates(t) : u <= s
            /\ Verdict(s) # "waiting" /\ Go(t, Verdict(s))
       \/ Finish(t)
    /\ UNCHANGED <<row, last, worldVars, budget, posted, evidence>>

FailJob(t) ==
    /\ t.at = "jobFailed"
    /\ MoveAndFinish(t, "retagging", "failed", row[t.run])

TriggerRetagged(t) ==
    /\ t.at = "retagged"
    /\ row' = Moved(t.run, "retagging", "triggering", row[t.run])
    /\ IF CanMove(t.run, "retagging") THEN Go(t, "post") ELSE Finish(t)
    /\ UNCHANGED <<last, worldVars, budget, posted, evidence>>

Arrived(t) ==
    IF t.seen.to # NoVersion THEN box[t.box].img = t.seen.to
                             ELSE box[t.box].img # t.seen.from

Arrive(t) ==
    /\ Seen(t, "applying")
    /\ IF Arrived(t)
       THEN MoveAndFinish(t, "applying", "verifying",
              [row[t.run] EXCEPT !.to = box[t.box].img, !.passes = 0, !.rested = TRUE])
       ELSE Finish(t) /\ UNCHANGED <<row, last, worldVars, budget, posted, evidence>>

\* The probe of the server: a ping of the database among other things.
Probe(t) ==
    /\ Seen(t, "verifying") /\ t.seen.rested
    /\ \/ /\ Go(t, "ready")
          /\ evidence' = [evidence EXCEPT ![t.run] = IF @ < Passes THEN @ + 1 ELSE @]
       \/ Go(t, "unready") /\ UNCHANGED evidence
    /\ UNCHANGED <<row, last, worldVars, budget, posted>>

\* Slip: a probe that found the server unready does not start the count again.
PassesKept(t) == IF t.at = "ready" THEN t.seen.passes + 1 ELSE t.seen.passes

PassesAfter(t) == IF t.at = "ready" THEN t.seen.passes + 1 ELSE 0

\* What it found is written in a statement of its own, which may be lost.
RecordProbe(t) ==
    /\ t.at \in {"ready", "unready"}
    /\ row' = Moved(t.run, "verifying",
                    IF PassesAfter(t) >= Passes THEN "succeeded" ELSE "verifying",
                    [row[t.run] EXCEPT !.passes = PassesAfter(t), !.rested = FALSE])
    /\ evidence' = [evidence EXCEPT ![t.run] = IF t.at = "unready" THEN 0 ELSE @]
    /\ Finish(t)
    /\ UNCHANGED <<last, worldVars, budget, posted>>

TooSoon(t) ==
    /\ Seen(t, "verifying") /\ ~t.seen.rested
    /\ Finish(t)
    /\ UNCHANGED <<row, last, worldVars, budget, posted, evidence>>

-----------------------------------------------------------------------------
(* Containers, Watchtower, the registry and the clock.                     *)

Kill(b, life) ==
    /\ box' = [box EXCEPT ![b].life = life]
    /\ tasks' = {t \in tasks : t.box # b}

Crash(b) ==
    /\ Spend("crash") /\ Up(b) /\ Kill(b, "crashed")
    /\ UNCHANGED <<row, last, pulling, latest, job, posted, evidence>>

\* A statement of a task fails: a pass or a cancel ends there, and the detached
\* start of a request ends the process with its unhandled rejection.
DbError(t) ==
    /\ t.at # "waiting"
    /\ Spend("fault")
    /\ IF t.role = "handler" THEN Kill(t.box, "crashed") ELSE Finish(t) /\ UNCHANGED box
    /\ UNCHANGED <<row, last, pulling, latest, job, posted, evidence>>

RoomFor(b) == Overlap \/ \A c \in Boxes : ~Up(c)

Restart(b) ==
    /\ box[b].life = "crashed" /\ RoomFor(b)
    /\ box' = [box EXCEPT ![b].life = "up"]
    /\ UNCHANGED <<row, last, tasks, pulling, latest, job, budget, posted, evidence>>

Recreate(b) ==
    /\ pulling /\ box[b].life = "gone" /\ RoomFor(b)
    /\ \A c \in Boxes : box[c].life # "gone" => box[c].img # latest
    /\ box' = [box EXCEPT ![b] = [life |-> "up", img |-> latest]]
    /\ UNCHANGED <<row, last, tasks, pulling, latest, job, budget, posted, evidence>>

StopOld(b) ==
    /\ pulling /\ box[b].life # "gone" /\ box[b].img # latest
    /\ Kill(b, "gone")
    /\ UNCHANGED <<row, last, pulling, latest, job, budget, posted, evidence>>

PullDone ==
    /\ pulling
    /\ \E b \in Boxes : box[b].life # "gone"
    /\ \A b \in Boxes : box[b].life # "gone" => box[b].img = latest
    /\ pulling' = FALSE
    /\ UNCHANGED <<row, last, tasks, box, latest, job, budget, posted, evidence>>

Publish(v) ==
    /\ Spend("publish")
    /\ v # latest /\ latest' = v
    /\ UNCHANGED <<row, last, tasks, box, pulling, job, posted, evidence>>

\* GitHub lists a dispatched workflow after a while, and it ends; a rollback job
\* that succeeds has pointed the moving tag at the run's target.
JobStep(r) ==
    /\ \/ /\ job[r].st = "unlisted" /\ latest' = latest
          /\ job' = [job EXCEPT ![r].st = "running"]
       \/ /\ job[r].st = "running" /\ latest' = row[r].to
          /\ job' = [job EXCEPT ![r].st = "ok"]
       \/ /\ job[r].st = "running" /\ latest' = latest
          /\ job' = [job EXCEPT ![r].st = "bad"]
    /\ UNCHANGED <<row, last, tasks, box, pulling, budget, posted, evidence>>

MinutePasses(r) ==
    /\ job[r].fresh
    /\ job' = [job EXCEPT ![r].fresh = FALSE]
    /\ UNCHANGED <<row, last, tasks, box, pulling, latest, budget, posted, evidence>>

DeadlinePasses(r) ==
    /\ Held(r) /\ ~row[r].due
    /\ row' = [row EXCEPT ![r].due = TRUE]
    /\ UNCHANGED <<last, tasks, worldVars, budget, posted, evidence>>

SpacingPasses(r) ==
    /\ Held(r) /\ ~row[r].rested
    /\ row' = [row EXCEPT ![r].rested = TRUE]
    /\ UNCHANGED <<last, tasks, worldVars, budget, posted, evidence>>

-----------------------------------------------------------------------------

Admin ==
    \/ \E b \in Boxes, k \in Kinds, v \in Goals : Request(b, k, v)
    \/ \E b \in Boxes, r \in Runs : ReadToCancel(b, r)

TaskStep(t) ==
    \/ Cancel(t) \/ Begin(t) \/ Dispatch(t) \/ RecordDispatch(t) \/ FailDispatch(t)
    \/ Post(t) \/ Answer(t) \/ RecordAccepted(t) \/ RecordRefused(t)
    \/ TimeOut(t) \/ Adopt(t) \/ PollJob(t) \/ FailJob(t) \/ TriggerRetagged(t)
    \/ Arrive(t) \/ Probe(t) \/ RecordProbe(t) \/ TooSoon(t)

Server == (\E b \in Boxes : Watch(b)) \/ (\E t \in tasks : TaskStep(t))

Deployment ==
    \/ \E b \in Boxes : Restart(b) \/ Recreate(b) \/ StopOld(b)
    \/ PullDone

World ==
    \/ \E b \in Boxes : Crash(b)
    \/ \E t \in tasks : DbError(t)
    \/ \E v \in Versions : Publish(v)
    \/ \E r \in Runs : JobStep(r) \/ MinutePasses(r)

Clock == \E r \in Runs : DeadlinePasses(r) \/ SpacingPasses(r)

Next == Admin \/ Server \/ Deployment \/ World \/ Clock

Spec == Init /\ [][Next]_vars

\* The watchdog's interval keeps firing in every live container and its requests
\* have timeouts; containers are restarted (restart: unless-stopped); time passes.
Fairness ==
    /\ WF_vars(Server)
    /\ WF_vars(Deployment)
    /\ \A r \in Runs : WF_vars(DeadlinePasses(r))

FairSpec == Spec /\ Fairness

-----------------------------------------------------------------------------

\* The guard column, which the unique index is on, says what the state says.
TypeOK ==
    /\ row \in [Runs -> Row \cup {NoRow}]
    /\ \A r \in Runs : row[r] # NoRow => (row[r].guard <=> row[r].state \in Active)
    /\ last \in 0..MaxRuns
    /\ tasks \subseteq Task
    /\ box \in [Boxes -> Box]
    /\ pulling \in BOOLEAN
    /\ latest \in Versions
    /\ job \in [Runs -> Job]
    /\ budget \in [Limited -> Nat]
    /\ posted \in [Runs -> Nat]
    /\ evidence \in [Runs -> Nat]

\* Whatever admins, watchdogs and crashes do, the table is a ledger: one run at
\* a time, in order, and no outcome is ever revised.
OutcomeOf(r) ==
    IF row[r] = NoRow THEN "unborn" ELSE IF row[r].guard THEN "open" ELSE row[r].state

Ledger == INSTANCE UpdateLedger
            WITH Last <- MaxRuns, outcome <- [r \in Runs |-> OutcomeOf(r)]

KeepsLedger == Ledger!Spec

\* The request's task and any number of watchdogs ask Watchtower at most once
\* on behalf of a run.
TriggeredOnce == \A r \in Runs : posted[r] <= 1

\* With one container at a time, a success follows UPDATE_HEALTH_PASSES ready probes,
\* all of them after the last failed probe whose reset was recorded, whatever was
\* lost or crashed in between: no pass is counted twice or survives a reset.  They
\* are the "consecutive /readyz passes" of API.md:773 unless a reset itself is lost:
\* what RecordProbe would write of a failed probe may never be written.
SuccessIsEarned ==
    \A r \in Runs :
        row[r] # NoRow /\ row[r].state = "succeeded" => evidence[r] >= Passes

\* No run is left holding the guard: the admin is never locked out for good.
RunsEnd == \A r \in Runs : Held(r) ~> ~Held(r)

\* Watchtower is asked to pull a rollback only after the workflow this run
\* dispatched has republished the older version, unless a rollback came before it,
\* whose workflow the poll may take for this one (updateRollback.js:134).
RetagFirst ==
    \A r \in Runs :
        posted[r] > 0 /\ row[r].kind = "rollback" =>
            \/ job[r].st = "ok"
            \/ \E q \in 1..(r - 1) : row[q].kind = "rollback"
=============================================================================
