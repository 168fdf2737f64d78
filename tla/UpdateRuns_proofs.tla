--------------------------- MODULE UpdateRuns_proofs ---------------------------
(***************************************************************************)
(* Theorems about UpdateRuns: type correctness, that Watchtower is asked   *)
(* at most once for a run, that the run table implements UpdateLedger,     *)
(* that a success has been earned, and that a rollback's image is pulled   *)
(* only once it is there.  The argument: a step changes the table in one   *)
(* of two ways (Born, Carried), and changes who may ask Watchtower in one  *)
(* of three (Nobody, Acquires, Asks); each invariant is kept by those few  *)
(* shapes of steps.  Earning and Tagging, at the end, add what a watchdog  *)
(* knows of the run it is about to act on.                                 *)
(***************************************************************************)
EXTENDS UpdateRuns, TLAPS

Early  == {"queued", "retagging"}
Fresh(r) == row[r] = NoRow \/ row[r].state \in Early

GoodTask(t) ==
    /\ t \in Task
    /\ row[t.run] # NoRow
    /\ t.seen.state \in Active
    /\ t.seen.kind = row[t.run].kind
    /\ t.at = "dispatch" => t.seen.kind = "rollback"

\* Rows are inserted in order, a rollback names its target, and only rollbacks
\* have jobs.
RowShape ==
    /\ \A r \in Runs : row[r] # NoRow <=> r <= last
    /\ \A r \in Runs : row[r] # NoRow /\ row[r].kind = "rollback" => row[r].to \in Versions
    /\ \A r \in Runs : job[r].st # "none" => row[r] # NoRow /\ row[r].kind = "rollback"

TaskShape == \A t \in tasks : GoodTask(t)

\* The right to ask Watchtower is won by the transition to 'triggering', once.
PostShape ==
    /\ \A t \in tasks : t.at = "post" => posted[t.run] = 0 /\ ~Fresh(t.run)
    /\ \A t, u \in tasks : t.at = "post" /\ u.at = "post" /\ t.run = u.run => t = u
    /\ \A r \in Runs : Fresh(r) => posted[r] = 0
    /\ TriggeredOnce

Inductive == TypeOK /\ RowShape /\ TaskShape /\ PostShape

-----------------------------------------------------------------------------
(* How a step changes the table.                                           *)

Still == row' = row /\ last' = last

Born(x) ==
    /\ last < MaxRuns /\ last' = last + 1
    /\ \A s \in Runs : ~Held(s)
    /\ x.state = "queued" /\ x.guard
    /\ x.kind = "rollback" => x.to \in Versions
    /\ row' = [row EXCEPT ![last + 1] = x]

Carried(r, x) ==
    /\ last' = last
    /\ row[r] # NoRow /\ row[r].state \in Active
    /\ x.kind = row[r].kind
    /\ x.to = row[r].to \/ x.to \in Versions
    /\ x.guard <=> x.state \in Active
    /\ x.state \in Early => row[r].state \in Early
    /\ x.state = "queued" => row[r].state = "queued"
    /\ row' = [row EXCEPT ![r] = x]

RowStep ==
    \/ Still
    \/ \E x \in Row : Born(x)
    \/ \E r \in Runs, x \in Row : Carried(r, x)

\* The conditional update carries one active run, or changes nothing.
LEMMA MovedCarries ==
    ASSUME TypeOK, NEW r \in Runs, row[r] # NoRow, NEW from \in Active,
           NEW to \in Active \cup Ended, NEW patch \in Row,
           patch.kind = row[r].kind, patch.to = row[r].to \/ patch.to \in Versions,
           to \in Early => from \in Early, to = "queued" => from = "queued",
           row' = Moved(r, from, to, patch), last' = last
    PROVE  RowStep
<1>1. CASE row[r].state # from
  BY <1>1 DEF Moved, RowStep, Still
<1>2. CASE row[r].state = from
  <2> DEFINE x == [patch EXCEPT !.state = to, !.guard = to \notin Ended]
  <2>1. row' = [row EXCEPT ![r] = x]
    BY <1>2 DEF Moved
  <2>2. x \in Row
    BY DEF Row, Active, Ended
  <2>3. x.kind = patch.kind /\ x.to = patch.to /\ x.state = to /\ x.guard = (to \notin Ended)
    BY DEF Row
  <2>4. to \notin Ended <=> to \in Active
    BY DEF Active, Ended
  <2>5. Carried(r, x)
    BY <1>2, <2>1, <2>2, <2>3, <2>4 DEF Carried
  <2> QED BY <2>2, <2>5 DEF RowStep
<1> QED BY <1>1, <1>2

\* What the proofs use of the types.
LEMMA Facts ==
    ASSUME TypeOK
    PROVE  /\ row \in [Runs -> Row \cup {NoRow}] /\ last \in 0..MaxRuns
           /\ \A r \in Runs : row[r] # NoRow =>
                /\ row[r] \in Row /\ (row[r].guard <=> row[r].state \in Active)
                /\ row[r].state \in Active \cup Ended
           /\ MaxRuns \in Nat
<1>1. \A x \in Row : x.state \in Active \cup Ended
  BY DEF Row
<1> QED BY <1>1, ConstantsAssumption DEF TypeOK

\* Every task's row is there to be moved.
LEMMA TaskFacts ==
    ASSUME TypeOK, TaskShape, NEW t \in tasks
    PROVE  /\ t \in Task /\ t.run \in Runs /\ t.box \in Boxes /\ t.seen \in Row
           /\ row[t.run] \in Row /\ row[t.run] # NoRow
           /\ t.seen.state \in Active /\ t.seen.kind = row[t.run].kind
           /\ t.at = "dispatch" => t.seen.kind = "rollback"
<1>1. GoodTask(t)
  BY DEF TaskShape
<1> QED BY <1>1, Facts DEF GoodTask, Task

LEMMA StatesDistinct ==
    /\ {"queued", "retagging", "triggering", "applying", "verifying"} = Active
    /\ {"succeeded", "failed", "timed_out", "cancelled"} = Ended
    /\ Early \subseteq Active
    /\ "triggering" \notin Early /\ "applying" \notin Early /\ "verifying" \notin Early
    /\ Early \cap Ended = {} /\ Active \cap Ended = {}
BY DEF Active, Ended, Early

\* Every step of a task leaves the table or carries its own run.
LEMMA TaskRowStep ==
    ASSUME TypeOK, TaskShape, NEW t \in tasks, TaskStep(t)
    PROVE  RowStep
<1> DEFINE r == t.run
<1>f. /\ r \in Runs /\ row[r] \in Row /\ row[r] # NoRow /\ t.seen.state \in Active
      /\ t.box \in Boxes
  BY TaskFacts
<1>i. box[t.box].img \in Versions
  BY <1>f DEF TypeOK, Box
<1>c. Cancel(t) => RowStep
  <2>1. SUFFICES ASSUME Cancel(t) PROVE RowStep
    OBVIOUS
  <2>2. row' = Moved(r, t.seen.state, "cancelled", row[r]) /\ last' = last
    BY <2>1 DEF Cancel, MoveAndFinish
  <2> QED BY <1>f, <2>2, MovedCarries, StatesDistinct
<1>b. Begin(t) => RowStep
  <2>1. SUFFICES ASSUME Begin(t) PROVE RowStep
    OBVIOUS
  <2>2. PICK to \in {"retagging", "triggering"} :
          row' = Moved(r, "queued", to, row[r]) /\ last' = last
    BY <2>1 DEF Begin
  <2>3. "queued" \in Early
    BY DEF Early
  <2> QED BY <1>f, <2>2, <2>3, MovedCarries, StatesDistinct
<1>d. RecordDispatch(t) => RowStep
  <2>1. SUFFICES ASSUME RecordDispatch(t) PROVE RowStep
    OBVIOUS
  <2> DEFINE p == [row[r] EXCEPT !.sent = TRUE]
  <2>2. row' = Moved(r, "retagging", "retagging", p) /\ last' = last
    BY <2>1 DEF RecordDispatch, MoveAndFinish
  <2>3. p \in Row /\ p.kind = row[r].kind /\ p.to = row[r].to
    BY <1>f DEF Row
  <2> HIDE DEF p
  <2> QED BY <1>f, <2>2, <2>3, MovedCarries, StatesDistinct
<1>s. \A from \in Active, to \in Active \cup Ended :
        MoveAndFinish(t, from, to, row[r]) /\ to \notin Early => RowStep
  <2>1. SUFFICES ASSUME NEW from \in Active, NEW to \in Active \cup Ended,
                        MoveAndFinish(t, from, to, row[r]), to \notin Early
                 PROVE  RowStep
    OBVIOUS
  <2>2. row' = Moved(r, from, to, row[r]) /\ last' = last
    BY <2>1 DEF MoveAndFinish
  <2>3. to # "queued"
    BY <2>1 DEF Early
  <2> QED BY <1>f, <2>1, <2>2, <2>3, MovedCarries
<1>m. FailDispatch(t) \/ RecordAccepted(t) \/ RecordRefused(t) \/ TimeOut(t)
        \/ Adopt(t) \/ FailJob(t) => RowStep
  BY <1>f, <1>s, StatesDistinct
     DEF FailDispatch, RecordAccepted, RecordRefused, TimeOut, Adopt, FailJob
<1>g. TriggerRetagged(t) => RowStep
  <2>1. SUFFICES ASSUME TriggerRetagged(t) PROVE RowStep
    OBVIOUS
  <2>2. row' = Moved(r, "retagging", "triggering", row[r]) /\ last' = last
    BY <2>1 DEF TriggerRetagged
  <2> QED BY <1>f, <2>2, MovedCarries, StatesDistinct
<1>a. Arrive(t) => RowStep
  <2>1. SUFFICES ASSUME Arrive(t) PROVE RowStep
    OBVIOUS
  <2>2. CASE Arrived(t)
    <3> DEFINE p == [row[r] EXCEPT !.to = box[t.box].img, !.passes = 0, !.rested = TRUE]
    <3>1. row' = Moved(r, "applying", "verifying", p) /\ last' = last
      BY <2>1, <2>2 DEF Arrive, MoveAndFinish
    <3>2. p \in Row /\ p.kind = row[r].kind /\ p.to \in Versions
      BY <1>f, <1>i DEF Row
    <3> HIDE DEF p
    <3> QED BY <1>f, <3>1, <3>2, MovedCarries, StatesDistinct
  <2>3. CASE ~Arrived(t)
    BY <2>1, <2>3 DEF Arrive, RowStep, Still
  <2> QED BY <2>2, <2>3
<1>v. RecordProbe(t) => RowStep
  <2>1. SUFFICES ASSUME RecordProbe(t) PROVE RowStep
    OBVIOUS
  <2> DEFINE to == IF PassesAfter(t) >= Passes THEN "succeeded" ELSE "verifying"
             p  == [row[r] EXCEPT !.passes = PassesAfter(t), !.rested = FALSE]
  <2>2. row' = Moved(r, "verifying", to, p) /\ last' = last
    BY <2>1 DEF RecordProbe
  <2>3. t.seen.passes \in Nat
    BY TaskFacts DEF Row
  <2>4. PassesAfter(t) \in Nat
    BY <2>3 DEF PassesAfter
  <2>5. p \in Row /\ p.kind = row[r].kind /\ p.to = row[r].to
    BY <1>f, <2>4 DEF Row
  <2>6. to \in Active \cup Ended /\ to \notin Early /\ to # "queued"
    BY StatesDistinct
  <2> HIDE DEF to, p
  <2> QED BY <1>f, <2>2, <2>5, <2>6, MovedCarries, StatesDistinct
<1>o. Dispatch(t) \/ Post(t) \/ Answer(t) \/ PollJob(t) \/ Probe(t) \/ TooSoon(t) => RowStep
  BY DEF Dispatch, Post, Answer, PollJob, Probe, TooSoon, RowStep, Still
<1> QED
  BY <1>c, <1>b, <1>d, <1>m, <1>g, <1>a, <1>v, <1>o DEF TaskStep

\* Every step leaves the table, inserts the next run, or carries an active one.
LEMMA EveryRowStep ==
    ASSUME TypeOK, TaskShape, [Next]_vars
    PROVE  RowStep
<1>1. CASE Admin
  <2>1. CASE \E b \in Boxes, k \in Kinds, v \in Goals : Request(b, k, v)
    <3>1. PICK b \in Boxes, k \in Kinds, v \in Goals : Request(b, k, v)
      BY <2>1
    <3> DEFINE x == [kind |-> k, state |-> "queued", guard |-> TRUE, from |-> box[b].img,
                     to |-> v, due |-> FALSE, sent |-> FALSE, passes |-> 0, rested |-> TRUE]
    <3>2. box[b].img \in Versions
      BY DEF TypeOK, Box
    <3>3. x \in Row
      BY <3>2, ConstantsAssumption DEF Row, Active
    <3>4. Born(x)
      BY <3>1, ConstantsAssumption DEF Request, Born
    <3> QED BY <3>3, <3>4 DEF RowStep
  <2>2. CASE \E b \in Boxes, r \in Runs : ReadToCancel(b, r)
    BY <2>2 DEF ReadToCancel, RowStep, Still
  <2> QED BY <1>1, <2>1, <2>2 DEF Admin
<1>2. CASE Server
  <2>1. CASE \E b \in Boxes : Watch(b)
    BY <2>1 DEF Watch, RowStep, Still
  <2> QED BY <1>2, <2>1, TaskRowStep DEF Server
<1>3. CASE Deployment
  BY <1>3 DEF Deployment, Restart, Recreate, StopOld, PullDone, RowStep, Still
<1>4. CASE World
  BY <1>4 DEF World, Crash, DbError, Publish, JobStep, MinutePasses, RowStep, Still
<1>5. CASE Clock
  <2>1. PICK r \in Runs : DeadlinePasses(r) \/ SpacingPasses(r)
    BY <1>5 DEF Clock
  <2>2. row[r] # NoRow /\ row[r] \in Row /\ row[r].state \in Active /\ last' = last
    BY <2>1, Facts DEF DeadlinePasses, SpacingPasses, Held
  <2>3. PICK x \in {[row[r] EXCEPT !.due = TRUE], [row[r] EXCEPT !.rested = TRUE]} :
          row' = [row EXCEPT ![r] = x]
    BY <2>1 DEF DeadlinePasses, SpacingPasses
  <2>4. x \in Row /\ x.kind = row[r].kind /\ x.to = row[r].to
          /\ x.state = row[r].state /\ x.guard = row[r].guard
    BY <2>2, <2>3 DEF Row
  <2>5. Carried(r, x)
    BY <2>2, <2>3, <2>4, Facts DEF Carried
  <2> QED BY <2>4, <2>5 DEF RowStep
<1>6. CASE UNCHANGED vars
  BY <1>6 DEF vars, RowStep, Still
<1> QED BY <1>1, <1>2, <1>3, <1>4, <1>5, <1>6 DEF Next
-----------------------------------------------------------------------------
(* What every row step keeps.                                              *)

\* The table stays well-typed and a run keeps its kind.
LEMMA RowKept ==
    ASSUME TypeOK, RowShape, RowStep
    PROVE  /\ row' \in [Runs -> Row \cup {NoRow}] /\ last' \in 0..MaxRuns
           /\ \A r \in Runs : row'[r] # NoRow =>
                (row'[r].guard <=> row'[r].state \in Active)
           /\ \A r \in Runs : row'[r] # NoRow <=> r <= last'
           /\ \A r \in Runs : row'[r] # NoRow /\ row'[r].kind = "rollback"
                                => row'[r].to \in Versions
           /\ \A r \in Runs : row[r] # NoRow =>
                row'[r] # NoRow /\ row'[r].kind = row[r].kind
           /\ \A r \in Runs : Fresh(r)' => Fresh(r)
<1>f. /\ row \in [Runs -> Row \cup {NoRow}] /\ last \in 0..MaxRuns /\ MaxRuns \in Nat
      /\ \A r \in Runs : row[r] # NoRow =>
           row[r] \in Row /\ (row[r].guard <=> row[r].state \in Active)
  BY Facts
<1>1. CASE Still
  BY <1>1, <1>f DEF Still, RowShape, Fresh
<1>2. CASE \E x \in Row : Born(x)
  <2>1. PICK x \in Row : Born(x)
    BY <1>2
  <2>2. last + 1 \in Runs /\ last' = last + 1 /\ last' \in 0..MaxRuns
    BY <2>1, <1>f DEF Born, Runs
  <2>3. x # NoRow
    BY NoRowAssumption
  <2>4. /\ row'[last + 1] = x
        /\ \A r \in Runs : r # last + 1 => row'[r] = row[r]
        /\ row' \in [Runs -> Row \cup {NoRow}]
    BY <2>1, <2>2, <1>f DEF Born
  <2>5. row[last + 1] = NoRow
    BY <2>2, <1>f DEF RowShape
  <2>6. x.guard /\ x.state \in Active /\ (x.kind = "rollback" => x.to \in Versions)
    BY <2>1 DEF Born, Active
  <2>7. \A r \in Runs : row'[r] # NoRow <=> r <= last'
    <3>1. SUFFICES ASSUME NEW r \in Runs PROVE row'[r] # NoRow <=> r <= last'
      OBVIOUS
    <3>2. CASE r = last + 1
      BY <3>2, <2>2, <2>3, <2>4
    <3>3. CASE r # last + 1
      BY <3>1, <3>3, <2>2, <2>4, <1>f DEF RowShape, Runs
    <3> QED BY <3>2, <3>3
  <2>8. \A r \in Runs : Fresh(r)' => Fresh(r)
    BY <2>4, <2>5 DEF Fresh
  <2> QED BY <1>f, <2>2, <2>4, <2>5, <2>6, <2>7, <2>8 DEF RowShape
<1>3. CASE \E r \in Runs, x \in Row : Carried(r, x)
  <2>1. PICK r \in Runs, x \in Row : Carried(r, x)
    BY <1>3
  <2>2. x # NoRow
    BY NoRowAssumption
  <2>3. /\ row'[r] = x
        /\ \A s \in Runs : s # r => row'[s] = row[s]
        /\ row' \in [Runs -> Row \cup {NoRow}] /\ last' = last
    BY <2>1, <1>f DEF Carried
  <2>4. /\ x.guard <=> x.state \in Active
        /\ row[r] # NoRow /\ x.kind = row[r].kind
        /\ x.to = row[r].to \/ x.to \in Versions
        /\ x.state \in Early => row[r].state \in Early
    BY <2>1 DEF Carried
  <2>5. \A s \in Runs : Fresh(s)' => Fresh(s)
    BY <2>2, <2>3, <2>4 DEF Fresh
  <2>6. \A s \in Runs : row'[s] # NoRow <=> s <= last'
    BY <2>2, <2>3, <2>4 DEF RowShape
  <2>7. \A s \in Runs : row[s] # NoRow => row'[s] # NoRow /\ row'[s].kind = row[s].kind
    BY <2>2, <2>3, <2>4
  <2>8. \A s \in Runs : row'[s] # NoRow /\ row'[s].kind = "rollback"
                          => row'[s].to \in Versions
    BY <2>3, <2>4 DEF RowShape
  <2> QED BY <1>f, <2>3, <2>4, <2>5, <2>6, <2>7, <2>8
<1> QED BY <1>1, <1>2, <1>3 DEF RowStep

-----------------------------------------------------------------------------
(* How a step changes who may ask Watchtower.                              *)

\* Nobody new may ask; a task wins the right to ask; a task asks.
Nobody ==
    posted' = posted /\ \A t \in tasks' : t.at = "post" => t \in tasks

Acquires(u) ==
    /\ posted' = posted
    /\ Fresh(u.run) /\ ~Fresh(u.run)'
    /\ \A t \in tasks' : t.at = "post" => t \in tasks \/ t = [u EXCEPT !.at = "post"]

Asks(u) ==
    /\ u.at = "post" /\ row' = row
    /\ posted' = [posted EXCEPT ![u.run] = @ + 1]
    /\ \A t \in tasks' : t.at = "post" => t \in tasks /\ t # u

PostStep == Nobody \/ \E u \in tasks : Acquires(u) \/ Asks(u)

\* A task the step leaves behind is an old one, an old one at another step, or a
\* new one for a run that holds the guard.
OldTask(t) == t \in tasks \/ \E u \in tasks, at \in Steps :
    t = [u EXCEPT !.at = at] /\ (at = "dispatch" => u.seen.kind = "rollback")
NewTask(t) ==
    /\ t \in Task /\ t.at \notin {"dispatch", "post"}
    /\ row'[t.run] # NoRow /\ t.seen.state \in Active /\ t.seen.kind = row'[t.run].kind

TaskChange == \A t \in tasks' : OldTask(t) \/ NewTask(t)

\* Moving on to a step that is not a POST, or ending, gives nobody the right.
LEMMA GoNobody ==
    ASSUME NEW t \in tasks, posted' = posted,
           Finish(t) \/ \E at \in Steps \ {"post", "dispatch"} : Go(t, at),
           t \in Task
    PROVE  Nobody /\ TaskChange
<1>1. CASE Finish(t)
  BY <1>1 DEF Finish, Nobody, TaskChange, OldTask
<1>2. CASE \E at \in Steps \ {"post", "dispatch"} : Go(t, at)
  <2>1. PICK at \in Steps \ {"post", "dispatch"} : Go(t, at)
    BY <1>2
  <2>2. [t EXCEPT !.at = at].at = at
    BY DEF Task
  <2>3. \A u \in tasks' : u \in tasks \/ u = [t EXCEPT !.at = at]
    BY <2>1 DEF Go
  <2> QED BY <2>1, <2>2, <2>3 DEF Nobody, TaskChange, OldTask
<1> QED BY <1>1, <1>2

\* The step of a task that wins its transition to 'triggering'.
LEMMA WinnerAcquires ==
    ASSUME TypeOK, TaskShape, NEW t \in tasks, NEW from \in Early,
           row[t.run].state = from,
           row' = Moved(t.run, from, "triggering", row[t.run]),
           Go(t, "post"), posted' = posted
    PROVE  Acquires(t) /\ TaskChange
<1>f. t \in Task /\ t.run \in Runs /\ row[t.run] \in Row /\ row[t.run] # NoRow
  BY TaskFacts
<1>1. row'[t.run] = [row[t.run] EXCEPT !.state = "triggering", !.guard = TRUE]
  BY <1>f, Facts, StatesDistinct DEF Moved
<1>2. row'[t.run].state = "triggering" /\ row'[t.run] \in Row
  BY <1>f, <1>1 DEF Row, Active
<1>3. ~Fresh(t.run)' /\ Fresh(t.run)
  BY <1>2, NoRowAssumption, StatesDistinct DEF Fresh
<1>4. \A u \in tasks' : u \in tasks \/ u = [t EXCEPT !.at = "post"]
  BY DEF Go
<1>5. "post" \in Steps
  BY DEF Steps
<1> QED BY <1>3, <1>4, <1>5 DEF Acquires, TaskChange, OldTask

LEMMA TaskPostStep ==
    ASSUME TypeOK, TaskShape, NEW t \in tasks, TaskStep(t)
    PROVE  PostStep /\ TaskChange
<1>f. /\ t \in Task /\ t.run \in Runs /\ row[t.run] \in Row /\ row[t.run] # NoRow
      /\ t.seen.state \in Active /\ t.seen.kind = row[t.run].kind
  BY TaskFacts
<1>n. ASSUME posted' = posted, Finish(t) \/ \E at \in Steps \ {"post", "dispatch"} : Go(t, at)
      PROVE  PostStep /\ TaskChange
  BY <1>f, <1>n, GoNobody DEF PostStep
<1>s. {"dispatched", "undispatched", "retagged", "jobFailed", "waiting", "accepted", "refused",
       "ready", "unready"} \subseteq Steps \ {"post", "dispatch"}
  BY DEF Steps
<1>1. Cancel(t) \/ RecordDispatch(t) \/ FailDispatch(t) \/ RecordAccepted(t)
        \/ RecordRefused(t) \/ TimeOut(t) \/ Adopt(t) \/ FailJob(t)
        => PostStep /\ TaskChange
  BY <1>n DEF Cancel, RecordDispatch, FailDispatch, RecordAccepted, RecordRefused, TimeOut,
              Adopt, FailJob, MoveAndFinish
<1>2. Dispatch(t) \/ Answer(t) \/ Probe(t) => PostStep /\ TaskChange
  BY <1>n, <1>s DEF Dispatch, Answer, Probe
<1>3. PollJob(t) => PostStep /\ TaskChange
  <2>1. \A s \in Runs : Verdict(s) # "waiting" => Verdict(s) \in {"retagged", "jobFailed"}
    BY DEF Verdict
  <2>2. \A s \in Candidates(t) : s \in Runs
    BY DEF Candidates
  <2> QED BY <1>n, <1>s, <2>1, <2>2 DEF PollJob
<1>4. Arrive(t) \/ RecordProbe(t) \/ TooSoon(t) => PostStep /\ TaskChange
  BY <1>n DEF Arrive, RecordProbe, TooSoon, MoveAndFinish
<1>5. Begin(t) => PostStep /\ TaskChange
  <2>1. SUFFICES ASSUME Begin(t) PROVE PostStep /\ TaskChange
    OBVIOUS
  <2>2. CASE ~Won(t)
    BY <2>1, <2>2, <1>n DEF Begin
  <2>3. CASE Won(t) /\ t.seen.kind = "rollback"
    <3>1. Go(t, "dispatch") /\ posted' = posted
      BY <2>1, <2>3 DEF Begin
    <3>2. [t EXCEPT !.at = "dispatch"].at = "dispatch" /\ "dispatch" \in Steps
      BY <1>f DEF Task, Steps
    <3>3. \A u \in tasks' : u \in tasks \/ u = [t EXCEPT !.at = "dispatch"]
      BY <3>1 DEF Go
    <3> QED BY <2>3, <3>1, <3>2, <3>3 DEF PostStep, Nobody, TaskChange, OldTask
  <2>4. CASE Won(t) /\ t.seen.kind # "rollback"
    <3>1. /\ Go(t, "post") /\ posted' = posted /\ row[t.run].state = "queued"
          /\ row' = Moved(t.run, "queued", "triggering", row[t.run])
      BY <2>1, <2>4 DEF Begin, Won, CanMove
    <3>2. "queued" \in Early
      BY DEF Early
    <3> QED BY <3>1, <3>2, WinnerAcquires DEF PostStep
  <2> QED BY <2>2, <2>3, <2>4
<1>6. TriggerRetagged(t) => PostStep /\ TaskChange
  <2>1. SUFFICES ASSUME TriggerRetagged(t) PROVE PostStep /\ TaskChange
    OBVIOUS
  <2>2. CASE ~CanMove(t.run, "retagging")
    BY <2>1, <2>2, <1>n DEF TriggerRetagged
  <2>3. CASE CanMove(t.run, "retagging")
    <3>1. /\ Go(t, "post") /\ posted' = posted /\ row[t.run].state = "retagging"
          /\ row' = Moved(t.run, "retagging", "triggering", row[t.run])
      BY <2>1, <2>3 DEF TriggerRetagged, CanMove
    <3>2. "retagging" \in Early
      BY DEF Early
    <3> QED BY <3>1, <3>2, WinnerAcquires DEF PostStep
  <2> QED BY <2>2, <2>3
<1>7. Post(t) => PostStep /\ TaskChange
  <2>1. SUFFICES ASSUME Post(t) PROVE PostStep /\ TaskChange
    OBVIOUS
  <2>2. PICK at \in {"waiting", "refused"} : Go(t, at)
    BY <2>1 DEF Post
  <2>3. [t EXCEPT !.at = at].at = at
    BY <1>f DEF Task
  <2>4. \A u \in tasks' : (u \in tasks /\ u # t) \/ u = [t EXCEPT !.at = at]
    BY <2>2 DEF Go
  <2>5. Asks(t)
    BY <2>1, <2>2, <2>3, <2>4 DEF Post, Asks
  <2>6. TaskChange
    BY <2>2, <2>4, <1>s DEF TaskChange, OldTask
  <2> QED BY <2>5, <2>6 DEF PostStep
<1> QED BY <1>1, <1>2, <1>3, <1>4, <1>5, <1>6, <1>7 DEF TaskStep

\* The same of every step.
LEMMA EveryPostStep ==
    ASSUME TypeOK, RowShape, TaskShape, [Next]_vars
    PROVE  PostStep /\ TaskChange
<1>f. /\ \A r \in Runs : row[r] # NoRow => row[r] \in Row /\ (row[r].guard <=> row[r].state \in Active)
      /\ row \in [Runs -> Row \cup {NoRow}] /\ last \in 0..MaxRuns /\ MaxRuns \in Nat
  BY Facts
<1>u. posted' = posted /\ tasks' \subseteq tasks => PostStep /\ TaskChange
  BY DEF PostStep, Nobody, TaskChange, OldTask
<1>1. CASE Admin
  <2>1. CASE \E b \in Boxes, k \in Kinds, v \in Goals : Request(b, k, v)
    <3>1. PICK b \in Boxes, k \in Kinds, v \in Goals : Request(b, k, v)
      BY <2>1
    <3> DEFINE x == [kind |-> k, state |-> "queued", guard |-> TRUE, from |-> box[b].img,
                     to |-> v, due |-> FALSE, sent |-> FALSE, passes |-> 0, rested |-> TRUE]
               n == [box |-> b, run |-> last + 1, role |-> "handler", at |-> "begin", seen |-> x]
    <3>2. box[b].img \in Versions
      BY DEF TypeOK, Box
    <3>3. x \in Row
      BY <3>2, ConstantsAssumption DEF Row, Active
    <3>4. last + 1 \in Runs
      BY <3>1, <1>f DEF Request, Runs
    <3>5. row'[last + 1] = x /\ tasks' = tasks \cup {n} /\ posted' = posted
      BY <3>1, <3>4, <1>f DEF Request
    <3>6. n \in Task
      BY <3>3, <3>4 DEF Task, Roles, Steps
    <3>7. NewTask(n)
      BY <3>3, <3>5, <3>6, NoRowAssumption DEF NewTask, Active
    <3>8. n.at # "post"
      OBVIOUS
    <3> HIDE DEF n, x
    <3> QED BY <3>5, <3>7, <3>8 DEF PostStep, Nobody, TaskChange, OldTask
  <2>2. CASE \E b \in Boxes, r \in Runs : ReadToCancel(b, r)
    <3>1. PICK b \in Boxes, r \in Runs : ReadToCancel(b, r)
      BY <2>2
    <3> DEFINE n == [box |-> b, run |-> r, role |-> "cancel", at |-> "seen", seen |-> row[r]]
    <3>2. /\ tasks' = tasks \cup {n} /\ posted' = posted /\ row' = row
          /\ row[r] # NoRow /\ row[r].state \in Active
      BY <3>1 DEF ReadToCancel
    <3>3. n \in Task
      BY <3>2, <1>f DEF Task, Roles, Steps
    <3>4. NewTask(n)
      BY <3>2, <3>3 DEF NewTask
    <3> QED BY <3>2, <3>4 DEF PostStep, Nobody, TaskChange, OldTask
  <2> QED BY <1>1, <2>1, <2>2 DEF Admin
<1>2. CASE Server
  <2>1. CASE \E b \in Boxes : Watch(b)
    <3>1. PICK b \in Boxes : Watch(b)
      BY <2>1
    <3>2. PICK r \in Runs : /\ Held(r)
                            /\ tasks' = tasks \cup {[box |-> b, run |-> r, role |-> "watchdog",
                                                     at |-> "seen", seen |-> row[r]]}
      BY <3>1 DEF Watch
    <3> DEFINE n == [box |-> b, run |-> r, role |-> "watchdog", at |-> "seen", seen |-> row[r]]
    <3>3. /\ posted' = posted /\ row' = row
          /\ row[r] # NoRow /\ row[r].state \in Active
      BY <3>1, <3>2, <1>f DEF Watch, Held
    <3>4. n \in Task
      BY <3>3, <1>f DEF Task, Roles, Steps
    <3>5. NewTask(n)
      BY <3>3, <3>4 DEF NewTask
    <3> QED BY <3>2, <3>3, <3>5 DEF PostStep, Nobody, TaskChange, OldTask
  <2> QED BY <1>2, <2>1, TaskPostStep DEF Server
<1>3. CASE Deployment
  <2>1. posted' = posted /\ tasks' \subseteq tasks
    BY <1>3 DEF Deployment, Restart, Recreate, StopOld, PullDone, Kill
  <2> QED BY <2>1, <1>u
<1>4. CASE World
  <2>1. posted' = posted /\ tasks' \subseteq tasks
    BY <1>4 DEF World, Crash, DbError, Publish, JobStep, MinutePasses, Kill, Finish
  <2> QED BY <2>1, <1>u
<1>5. CASE Clock
  <2>1. posted' = posted /\ tasks' \subseteq tasks
    BY <1>5 DEF Clock, DeadlinePasses, SpacingPasses
  <2> QED BY <2>1, <1>u
<1>6. CASE UNCHANGED vars
  BY <1>6, <1>u DEF vars
<1> QED BY <1>1, <1>2, <1>3, <1>4, <1>5, <1>6 DEF Next
-----------------------------------------------------------------------------
(* The inductive invariant.                                                *)

\* The rest of the state keeps its type.
LEMMA TaskWorldTypes ==
    ASSUME TypeOK, RowShape, TaskShape, NEW t \in tasks, TaskStep(t)
    PROVE  /\ UNCHANGED <<box, latest>> /\ pulling' \in BOOLEAN /\ job' \in [Runs -> Job]
           /\ budget' \in [Limited -> Nat]
           /\ posted' \in [Runs -> Nat] /\ evidence' \in [Runs -> Nat]
           /\ \A r \in Runs : job'[r].st # "none" =>
                job[r].st # "none" \/ (row[r] # NoRow /\ row[r].kind = "rollback")
<1>f. /\ t.run \in Runs /\ row[t.run] # NoRow /\ t.seen.kind = row[t.run].kind
      /\ t.at = "dispatch" => t.seen.kind = "rollback"
  BY TaskFacts
<1>y. /\ pulling \in BOOLEAN /\ job \in [Runs -> Job]
      /\ budget \in [Limited -> Nat]
      /\ posted \in [Runs -> Nat] /\ evidence \in [Runs -> Nat]
  BY DEF TypeOK
<1>b. \A k \in {"update", "rollback", "cancel", "crash", "fault", "publish"} : Spend(k) =>
        budget' \in [Limited -> Nat]
  BY <1>y DEF Spend, Limited, Kinds
<1>1. CASE Dispatch(t)
  <2>1. t.at = "dispatch" /\ UNCHANGED <<box, pulling, latest, posted, evidence>>
    BY <1>1 DEF Dispatch
  <2>2. budget' \in [Limited -> Nat]
    BY <1>1, <1>y, <1>b DEF Dispatch
  <2>3. CASE job' = job
    BY <2>1, <2>2, <2>3, <1>y
  <2>4. CASE job' = [job EXCEPT ![t.run] =
                      [st |-> "unlisted", fresh |-> TRUE,
                       close |-> t.run > 1 /\ job[t.run - 1].fresh]]
    <3> DEFINE close == t.run > 1 /\ job[t.run - 1].fresh
    <3>1. close \in BOOLEAN
      OBVIOUS
    <3>2. [st |-> "unlisted", fresh |-> TRUE, close |-> close] \in Job
      BY <3>1, Zenon DEF Job
    <3> HIDE DEF close
    <3>3. job' = [job EXCEPT ![t.run] = [st |-> "unlisted", fresh |-> TRUE, close |-> close]]
      BY <2>4 DEF close
    <3>4. job' \in [Runs -> Job]
      BY <3>2, <3>3, <1>y, <1>f
    <3>5. \A r \in Runs : r # t.run => job'[r] = job[r]
      BY <3>3, <1>y
    <3> QED BY <1>f, <1>y, <2>1, <2>2, <3>4, <3>5
  <2> QED BY <1>1, <2>3, <2>4 DEF Dispatch
<1>2. CASE Post(t)
  <2>1. posted' = [posted EXCEPT ![t.run] = @ + 1] /\ UNCHANGED <<box, latest, job, budget, evidence>>
    BY <1>2 DEF Post
  <2>2. posted' \in [Runs -> Nat]
    BY <2>1, <1>y, <1>f
  <2>3. pulling' \in BOOLEAN
    BY <1>2, <1>y, Zenon DEF Post
  <2> QED BY <2>1, <2>2, <2>3, <1>y
<1>3. CASE Answer(t)
  BY <1>3, <1>y, <1>b DEF Answer, worldVars
<1>4. CASE Probe(t) \/ RecordProbe(t)
  <2>1. PICK n \in {0, evidence[t.run], evidence[t.run] + 1} :
          evidence' = [evidence EXCEPT ![t.run] = n] \/ evidence' = evidence
    BY <1>4 DEF Probe, RecordProbe
  <2>2. n \in Nat
    BY <1>y, <1>f
  <2>3. evidence' \in [Runs -> Nat]
    BY <2>1, <2>2, <1>y
  <2> QED BY <2>3, <1>4, <1>y DEF Probe, RecordProbe, worldVars
<1>5. CASE Cancel(t) \/ RecordDispatch(t) \/ FailDispatch(t) \/ RecordAccepted(t)
             \/ RecordRefused(t) \/ TimeOut(t) \/ Adopt(t) \/ FailJob(t) \/ Arrive(t)
  BY <1>5, <1>y DEF Cancel, RecordDispatch, FailDispatch, RecordAccepted, RecordRefused,
     TimeOut, Adopt, FailJob, Arrive, MoveAndFinish, worldVars
<1>6. CASE Begin(t) \/ TriggerRetagged(t) \/ TooSoon(t)
  BY <1>6, <1>y DEF Begin, TriggerRetagged, TooSoon, worldVars
<1>7. CASE PollJob(t)
  <2>1. UNCHANGED <<worldVars, budget, posted, evidence>>
    BY <1>7 DEF PollJob
  <2> QED BY <2>1, <1>y DEF worldVars
<1> QED BY <1>1, <1>2, <1>3, <1>4, <1>5, <1>6, <1>7 DEF TaskStep

LEMMA WorldTypes ==
    ASSUME TypeOK, RowShape, TaskShape, [Next]_vars
    PROVE  /\ box' \in [Boxes -> Box] /\ pulling' \in BOOLEAN /\ latest' \in Versions
           /\ job' \in [Runs -> Job]
           /\ budget' \in [Limited -> Nat]
           /\ posted' \in [Runs -> Nat] /\ evidence' \in [Runs -> Nat]
           /\ \A r \in Runs : job'[r].st # "none" =>
                job[r].st # "none" \/ (row[r] # NoRow /\ row[r].kind = "rollback")
<1>y. /\ box \in [Boxes -> Box] /\ pulling \in BOOLEAN /\ latest \in Versions
      /\ job \in [Runs -> Job]
      /\ budget \in [Limited -> Nat]
      /\ posted \in [Runs -> Nat] /\ evidence \in [Runs -> Nat]
  BY DEF TypeOK
<1>b. \A k \in {"update", "rollback", "cancel", "crash", "fault", "publish"} : Spend(k) =>
        budget' \in [Limited -> Nat]
  BY <1>y DEF Spend, Limited, Kinds
<1>k. \A b \in Boxes, life \in {"crashed", "gone", "up"} :
        [box EXCEPT ![b].life = life] \in [Boxes -> Box]
  BY <1>y DEF Box
<1>1. CASE Admin
  <2>1. CASE \E b \in Boxes, kind \in Kinds, to \in Goals : Request(b, kind, to)
    BY <2>1, <1>y, <1>b DEF Request, worldVars, Kinds
  <2>2. CASE \E b \in Boxes, r \in Runs : ReadToCancel(b, r)
    BY <2>2, <1>y, <1>b DEF ReadToCancel, worldVars
  <2> QED BY <1>1, <2>1, <2>2 DEF Admin
<1>2. CASE Server
  <2>1. CASE \E b \in Boxes : Watch(b)
    BY <2>1, <1>y DEF Watch, worldVars
  <2>2. CASE \E t \in tasks : TaskStep(t)
    BY <2>2, <1>y, TaskWorldTypes
  <2> QED BY <1>2, <2>1, <2>2 DEF Server
<1>3. CASE Deployment
  <2>1. ASSUME NEW b \in Boxes, Restart(b) \/ StopOld(b)
        PROVE  box' \in [Boxes -> Box] /\ UNCHANGED <<pulling, latest, job, budget, posted, evidence>>
    BY <2>1, <1>k DEF Restart, StopOld, Kill
  <2>2. ASSUME NEW b \in Boxes, Recreate(b)
        PROVE  box' \in [Boxes -> Box] /\ UNCHANGED <<pulling, latest, job, budget, posted, evidence>>
    <3>1. [life |-> "up", img |-> latest] \in Box
      BY <1>y DEF Box
    <3> QED BY <2>2, <3>1, <1>y DEF Recreate
  <2>3. CASE PullDone
    BY <2>3, <1>y DEF PullDone
  <2> QED BY <1>3, <1>y, <2>1, <2>2, <2>3 DEF Deployment
<1>4. CASE World
  <2>1. ASSUME NEW b \in Boxes, Crash(b)
        PROVE  /\ box' \in [Boxes -> Box] /\ UNCHANGED <<pulling, latest, job, posted, evidence>>
               /\ budget' \in [Limited -> Nat]
    BY <2>1, <1>k, <1>b DEF Crash, Kill
  <2>2. ASSUME NEW t \in tasks, DbError(t)
        PROVE  /\ box' \in [Boxes -> Box] /\ UNCHANGED <<pulling, latest, job, posted, evidence>>
               /\ budget' \in [Limited -> Nat]
    <3>1. t.box \in Boxes
      BY TaskFacts
    <3> QED BY <2>2, <3>1, <1>y, <1>k, <1>b DEF DbError, Kill
  <2>3. ASSUME NEW v \in Versions, Publish(v)
        PROVE  /\ latest' \in Versions /\ UNCHANGED <<box, pulling, job, posted, evidence>>
               /\ budget' \in [Limited -> Nat]
    BY <2>3, <1>b DEF Publish
  <2>4. ASSUME NEW r \in Runs, JobStep(r) \/ MinutePasses(r)
        PROVE  /\ job' \in [Runs -> Job] /\ latest' \in Versions
               /\ UNCHANGED <<box, pulling, budget, posted, evidence>>
               /\ \A s \in Runs : job'[s].st # "none" => job[s].st # "none"
    <3>1. \A st \in {"running", "ok", "bad"} : [job EXCEPT ![r].st = st] \in [Runs -> Job]
      BY <1>y DEF Job
    <3>2. CASE JobStep(r)
      <4>1. job[r].st # "none" /\ UNCHANGED <<box, pulling, budget, posted, evidence>>
        BY <3>2 DEF JobStep
      <4>2. row[r].to \in Versions
        BY <4>1 DEF RowShape
      <4>3. latest' \in Versions
        BY <3>2, <4>2, <1>y DEF JobStep
      <4>4. PICK st \in {"running", "ok", "bad"} : job' = [job EXCEPT ![r].st = st]
        BY <3>2 DEF JobStep
      <4>5. \A s \in Runs : s # r => job'[s] = job[s]
        BY <4>4, <1>y
      <4> QED BY <3>1, <4>1, <4>3, <4>4, <4>5
    <3>3. CASE MinutePasses(r)
      <4>1. job' = [job EXCEPT ![r].fresh = FALSE] /\ UNCHANGED <<box, pulling, latest, budget, posted, evidence>>
        BY <3>3 DEF MinutePasses
      <4>2. job' \in [Runs -> Job]
        BY <4>1, <1>y DEF Job
      <4>3. \A s \in Runs : job'[s].st = job[s].st
        BY <4>1, <1>y DEF Job
      <4> QED BY <4>1, <4>2, <4>3, <1>y
    <3> QED BY <2>4, <3>2, <3>3
  <2> QED BY <1>4, <1>y, <2>1, <2>2, <2>3, <2>4 DEF World
<1>5. CASE Clock
  BY <1>5, <1>y DEF Clock, DeadlinePasses, SpacingPasses, worldVars
<1>6. CASE UNCHANGED vars
  BY <1>6, <1>y DEF vars, worldVars
<1> QED BY <1>1, <1>2, <1>3, <1>4, <1>5, <1>6 DEF Next

LEMMA InitInductive == Init => Inductive
<1> SUFFICES ASSUME Init PROVE Inductive
  OBVIOUS
<1>1. \A r \in Runs : row[r] = NoRow /\ job[r] = NoJob /\ posted[r] = 0
  BY DEF Init
<1>2. NoJob \in Job /\ NoJob.st = "none"
  BY DEF NoJob, Job
<1>3. TypeOK
  <2>1. box \in [Boxes -> Box]
    <3>1. PICK v \in Starts, b \in Boxes :
            box = [c \in Boxes |-> [life |-> IF c = b THEN "up" ELSE "gone", img |-> v]]
      BY ConstantsAssumption DEF Init
    <3>2. \A c \in Boxes : [life |-> IF c = b THEN "up" ELSE "gone", img |-> v] \in Box
      BY ConstantsAssumption DEF Box
    <3> QED BY <3>1, <3>2, ConstantsAssumption
  <2>2. budget \in [Limited -> Nat]
    BY ConstantsAssumption DEF Init
  <2>3. job \in [Runs -> Job]
    BY <1>2 DEF Init
  <2>4. /\ row \in [Runs -> Row \cup {NoRow}] /\ posted \in [Runs -> Nat]
        /\ evidence \in [Runs -> Nat]
    BY DEF Init
  <2>5. latest \in Versions /\ pulling \in BOOLEAN /\ tasks \subseteq Task
    BY DEF Init
  <2>6. last \in 0..MaxRuns
    BY ConstantsAssumption DEF Init
  <2> QED BY <1>1, <2>1, <2>2, <2>3, <2>4, <2>5, <2>6 DEF TypeOK
<1>4. RowShape
  BY <1>1, <1>2, ConstantsAssumption DEF Init, RowShape, Runs
<1>5. TaskShape /\ PostShape
  BY <1>1 DEF Init, TaskShape, PostShape, TriggeredOnce
<1> QED BY <1>3, <1>4, <1>5 DEF Inductive

\* A task keeps being a task of its run.
LEMMA TasksKept ==
    ASSUME TypeOK, RowShape, TaskShape, [Next]_vars
    PROVE  TaskShape' /\ tasks' \subseteq Task
<1>1. RowStep /\ TaskChange
  BY EveryRowStep, EveryPostStep
<1>2. \A r \in Runs : row[r] # NoRow => row'[r] # NoRow /\ row'[r].kind = row[r].kind
  BY <1>1, RowKept
<1>3. SUFFICES ASSUME NEW t \in tasks' PROVE GoodTask(t)'
  BY DEF TaskShape, GoodTask
<1>4. CASE NewTask(t)
  BY <1>4 DEF NewTask, GoodTask
<1>5. CASE t \in tasks
  BY <1>2, <1>5, TaskFacts DEF GoodTask
<1>6. CASE \E u \in tasks, at \in Steps :
             t = [u EXCEPT !.at = at] /\ (at = "dispatch" => u.seen.kind = "rollback")
  <2>1. PICK u \in tasks, at \in Steps :
          t = [u EXCEPT !.at = at] /\ (at = "dispatch" => u.seen.kind = "rollback")
    BY <1>6
  <2>2. /\ u \in Task /\ u.run \in Runs /\ row[u.run] # NoRow
        /\ u.seen.state \in Active /\ u.seen.kind = row[u.run].kind
    BY TaskFacts
  <2>3. t \in Task /\ t.run = u.run /\ t.seen = u.seen /\ t.at = at
    BY <2>1, <2>2 DEF Task
  <2> QED BY <1>2, <2>1, <2>2, <2>3 DEF GoodTask
<1> QED BY <1>1, <1>4, <1>5, <1>6 DEF TaskChange, OldTask

\* Watchtower is asked once: only the task that wins the transition may ask.
LEMMA PostsKept ==
    ASSUME Inductive, [Next]_vars
    PROVE  PostShape'
<1>1. PostStep /\ RowStep
  BY EveryRowStep, EveryPostStep DEF Inductive
<1>2. \A r \in Runs : Fresh(r)' => Fresh(r)
  BY <1>1, RowKept DEF Inductive
<1>3. /\ \A t \in tasks : t.run \in Runs /\ t \in Task
      /\ posted \in [Runs -> Nat]
  BY TaskFacts DEF Inductive, TypeOK
<1>4. /\ \A t \in tasks : t.at = "post" => posted[t.run] = 0 /\ ~Fresh(t.run)
      /\ \A t, u \in tasks : t.at = "post" /\ u.at = "post" /\ t.run = u.run => t = u
      /\ \A r \in Runs : Fresh(r) => posted[r] = 0
      /\ \A r \in Runs : posted[r] <= 1
  BY DEF Inductive, PostShape, TriggeredOnce
<1>5. CASE Nobody
  BY <1>2, <1>3, <1>4, <1>5 DEF Nobody, PostShape, TriggeredOnce
<1>6. CASE \E u \in tasks : Acquires(u)
  <2>1. PICK u \in tasks : Acquires(u)
    BY <1>6
  <2> DEFINE w == [u EXCEPT !.at = "post"]
  <2>2. /\ posted' = posted /\ Fresh(u.run) /\ ~Fresh(u.run)'
        /\ \A t \in tasks' : t.at = "post" => t \in tasks \/ t = w
    BY <2>1 DEF Acquires
  <2>3. w.run = u.run /\ u.run \in Runs
    BY <1>3 DEF Task
  <2> HIDE DEF w
  <2>4. \A t \in tasks : t.at = "post" => t.run # u.run
    BY <1>4, <2>2
  <2>5. \A t \in tasks' : t.at = "post" => posted'[t.run] = 0 /\ ~Fresh(t.run)'
    BY <1>2, <1>3, <1>4, <2>2, <2>3
  <2>6. \A s, t \in tasks' : s.at = "post" /\ t.at = "post" /\ s.run = t.run => s = t
    BY <1>4, <2>2, <2>3, <2>4
  <2> QED BY <1>2, <1>4, <2>2, <2>5, <2>6 DEF PostShape, TriggeredOnce
<1>7. CASE \E u \in tasks : Asks(u)
  <2>1. PICK u \in tasks : Asks(u)
    BY <1>7
  <2>2. /\ u.at = "post" /\ row' = row /\ posted' = [posted EXCEPT ![u.run] = @ + 1]
        /\ \A t \in tasks' : t.at = "post" => t \in tasks /\ t # u
    BY <2>1 DEF Asks
  <2>3. u.run \in Runs /\ posted[u.run] = 0 /\ ~Fresh(u.run)
    BY <1>3, <1>4, <2>2
  <2>4. posted'[u.run] = 1 /\ \A r \in Runs : r # u.run => posted'[r] = posted[r]
    BY <1>3, <2>2, <2>3
  <2>5. \A t \in tasks' : t.at = "post" => t.run # u.run
    BY <1>4, <2>2
  <2>6. \A r \in Runs : Fresh(r)' <=> Fresh(r)
    BY <2>2 DEF Fresh
  <2>7. \A t \in tasks' : t.at = "post" => posted'[t.run] = 0 /\ ~Fresh(t.run)'
    BY <1>3, <1>4, <2>2, <2>4, <2>5, <2>6
  <2>8. \A r \in Runs : (Fresh(r)' => posted'[r] = 0) /\ posted'[r] <= 1
    BY <1>4, <2>3, <2>4, <2>6
  <2>9. \A s, t \in tasks' : s.at = "post" /\ t.at = "post" /\ s.run = t.run => s = t
    BY <1>4, <2>2
  <2> QED BY <2>7, <2>8, <2>9 DEF PostShape, TriggeredOnce
<1> QED BY <1>1, <1>5, <1>6, <1>7 DEF PostStep

LEMMA NextInductive == Inductive /\ [Next]_vars => Inductive'
<1> SUFFICES ASSUME Inductive, [Next]_vars PROVE Inductive'
  OBVIOUS
<1>0. TypeOK /\ RowShape /\ TaskShape
  BY DEF Inductive
<1>1. RowStep
  BY <1>0, EveryRowStep
<1>2. TypeOK'
  <2>1. /\ row' \in [Runs -> Row \cup {NoRow}] /\ last' \in 0..MaxRuns
        /\ \A r \in Runs : row'[r] # NoRow => (row'[r].guard <=> row'[r].state \in Active)
    BY <1>0, <1>1, RowKept
  <2>2. tasks' \subseteq Task
    BY <1>0, TasksKept
  <2> QED BY <1>0, <2>1, <2>2, WorldTypes DEF TypeOK
<1>3. RowShape'
  <2>1. /\ \A r \in Runs : row'[r] # NoRow <=> r <= last'
        /\ \A r \in Runs : row'[r] # NoRow /\ row'[r].kind = "rollback" => row'[r].to \in Versions
        /\ \A r \in Runs : row[r] # NoRow => row'[r] # NoRow /\ row'[r].kind = row[r].kind
    BY <1>0, <1>1, RowKept
  <2>2. \A r \in Runs : job'[r].st # "none" =>
          job[r].st # "none" \/ (row[r] # NoRow /\ row[r].kind = "rollback")
    BY <1>0, WorldTypes
  <2>3. \A r \in Runs : job[r].st # "none" => row[r] # NoRow /\ row[r].kind = "rollback"
    BY <1>0 DEF RowShape
  <2> QED BY <2>1, <2>2, <2>3 DEF RowShape
<1>4. TaskShape' /\ PostShape'
  BY <1>0, TasksKept, PostsKept
<1> QED BY <1>2, <1>3, <1>4 DEF Inductive

LEMMA AlwaysInductive == Spec => []Inductive
BY InitInductive, NextInductive, PTL DEF Spec

-----------------------------------------------------------------------------

\* Every row is a row of the table, and the guard the unique index is on is set
\* exactly while the run's state is active (transitionUpdateRun, createUpdateRun).
THEOREM TypeCorrect == Spec => []TypeOK
<1>1. Inductive => TypeOK
  BY DEF Inductive
<1> QED BY <1>1, AlwaysInductive, PTL

\* However many containers, watchdogs, cancels and crashes there are, Watchtower
\* is asked at most once on behalf of a run (startWatchtowerUpdate, the
\* watchdog's re-drive of 'queued', and its trigger after 'retagging').
THEOREM Triggered == Spec => []TriggeredOnce
<1>1. Inductive => TriggeredOnce
  BY DEF Inductive, PostShape
<1> QED BY <1>1, AlwaysInductive, PTL

\* What a row step is to a reader of outcomes.
LEMMA LedgerStep ==
    ASSUME Inductive, [Next]_vars
    PROVE  [Ledger!Next]_([r \in Runs |-> OutcomeOf(r)])
<1> DEFINE out == [r \in Runs |-> OutcomeOf(r)]
<1>0. /\ RowStep /\ TypeOK /\ RowShape
      /\ \A r \in Runs : row'[r] # NoRow =>
           (row'[r].guard <=> row'[r].state \in Active) /\ row'[r] \in Row
  BY EveryRowStep, RowKept DEF Inductive
<1>f. /\ row \in [Runs -> Row \cup {NoRow}] /\ last \in 0..MaxRuns /\ MaxRuns \in Nat
      /\ \A r \in Runs : row[r] # NoRow =>
           /\ row[r] \in Row /\ (row[r].guard <=> row[r].state \in Active)
           /\ row[r].state \in Active \cup Ended
  BY <1>0, Facts
<1>1. CASE Still
  <2>1. \A r \in Runs : OutcomeOf(r)' = OutcomeOf(r)
    BY <1>1 DEF Still, OutcomeOf
  <2> QED BY <2>1
<1>2. CASE \E x \in Row : Born(x)
  <2>1. PICK x \in Row : Born(x)
    BY <1>2
  <2> DEFINE r == last + 1
  <2>2. r \in Runs /\ row[r] = NoRow
    BY <2>1, <1>f, <1>0 DEF Born, Runs, RowShape
  <2>3. row'[r] = x /\ x # NoRow /\ x.guard
        /\ \A s \in Runs : s # r => row'[s] = row[s]
    BY <2>1, <2>2, <1>f, NoRowAssumption DEF Born
  <2>a. OutcomeOf(r) = "unborn"
    BY <2>2 DEF OutcomeOf
  <2>b. row'[r] # NoRow /\ row'[r].guard
    BY <2>3
  <2>c. (IF row'[r] = NoRow THEN "unborn" ELSE IF row'[r].guard THEN "open" ELSE row'[r].state)
          = "open"
    BY <2>b
  <2>d. \A s \in Runs : s # r => OutcomeOf(s)' = OutcomeOf(s)
    BY <2>3 DEF OutcomeOf
  <2>5. ASSUME NEW s \in Runs, s < r PROVE OutcomeOf(s) \in Ended
    <3>1. row[s] # NoRow
      BY <2>5, <1>f, <1>0 DEF RowShape, Runs
    <3>2. ~row[s].guard
      BY <3>1, <2>1 DEF Born, Held
    <3> QED BY <3>1, <3>2, <1>f DEF OutcomeOf
  <2>e. \A s \in Runs : out'[s] = IF s = r THEN "open" ELSE out[s]
    BY <2>c, <2>d DEF OutcomeOf
  <2>6. out' = [out EXCEPT ![r] = "open"] /\ out[r] = "unborn"
    BY <2>2, <2>a, <2>e
  <2>7. \A s \in Runs : s < r => out[s] \in Ledger!Outcomes
    BY <2>5 DEF Ended, Ledger!Outcomes
  <2>8. Ledger!Open(r)
    BY <2>6, <2>7 DEF Ledger!Open, Ledger!Runs, Runs
  <2> QED BY <2>2, <2>8 DEF Ledger!Next, Ledger!Runs, Runs
<1>3. CASE \E r \in Runs, x \in Row : Carried(r, x)
  <2>1. PICK r \in Runs, x \in Row : Carried(r, x)
    BY <1>3
  <2>2. /\ row'[r] = x /\ x # NoRow /\ row[r] # NoRow /\ row[r].guard
        /\ (x.guard <=> x.state \in Active) /\ x.state \in Active \cup Ended
        /\ \A s \in Runs : s # r => row'[s] = row[s]
    BY <2>1, <1>f, NoRowAssumption DEF Carried, Row
  <2>3. OutcomeOf(r) = "open" /\ OutcomeOf(r)' \in {"open"} \cup Ended
        /\ \A s \in Runs : s # r => OutcomeOf(s)' = OutcomeOf(s)
    BY <2>2 DEF OutcomeOf
  <2>4. CASE OutcomeOf(r)' = "open"
    <3>1. \A s \in Runs : OutcomeOf(s)' = OutcomeOf(s)
      BY <2>3, <2>4
    <3> QED BY <3>1
  <2>5. CASE OutcomeOf(r)' \in Ended
    <3>1. out[r] = "open" /\ out' = [out EXCEPT ![r] = OutcomeOf(r)']
      BY <2>3
    <3>2. Ledger!Close(r)
      BY <2>5, <3>1 DEF Ledger!Close, Ledger!Outcomes, Ended
    <3> QED BY <3>2 DEF Ledger!Next, Ledger!Runs, Runs
  <2> QED BY <2>3, <2>4, <2>5
<1> QED BY <1>0, <1>1, <1>2, <1>3 DEF RowStep

\* The run table implements the ledger: runs are opened in order, one at a time,
\* and no outcome is ever revised, whoever races (update_runs and its index).
THEOREM LedgerKept == Spec => KeepsLedger
<1>1. Init => Ledger!Init
  <2>1. Init => \A r \in Runs : OutcomeOf(r) = "unborn"
    BY DEF Init, OutcomeOf
  <2> QED BY <2>1 DEF Ledger!Init, Ledger!Runs, Runs
<1>2. Inductive /\ [Next]_vars => [Ledger!Next]_([r \in Runs |-> OutcomeOf(r)])
  BY LedgerStep
<1> QED BY <1>1, <1>2, AlwaysInductive, PTL DEF Spec, KeepsLedger, Ledger!Spec

-----------------------------------------------------------------------------
(* With one container at a time, there is one watchdog, so what it read of *)
(* a verifying run is still so when it writes, and the passes in the row   *)
(* are backed by as many ready probes in a row.                            *)

OneUp  == \A b, c \in Boxes : Up(b) /\ Up(c) => b = c
InLive == \A t \in tasks : Up(t.box)
OneWatchdog == \A t, u \in tasks : t.role = "watchdog" /\ u.role = "watchdog" => t = u

\* A watchdog is about to probe for a verifying run, or to record its probe.
Reading(t) == Seen(t, "verifying") \/ t.at \in {"ready", "unready"}

CurrentTask(t) ==
    /\ t.role = "watchdog"
    /\ row[t.run].state # "succeeded"
    /\ row[t.run].state = "verifying" =>
         /\ t.seen.passes = row[t.run].passes
         /\ t.at = "ready" => t.seen.passes + 1 <= evidence[t.run]

Current == \A t \in tasks : Reading(t) => CurrentTask(t)

Backed == \A r \in Runs : row[r] # NoRow =>
    /\ row[r].state = "verifying" => row[r].passes < Passes /\ row[r].passes <= evidence[r]
    /\ row[r].state = "succeeded" => evidence[r] >= Passes

Alone   == OneUp /\ InLive /\ OneWatchdog
Earning == Inductive /\ Alone /\ Current /\ Backed

\* The same containers are up, and a task ends or moves on.
Replaced(t) ==
    /\ box' = box
    /\ Finish(t) \/ \E at \in Steps : Go(t, at)

LEMMA ReplacedAlone ==
    ASSUME TypeOK, Alone, NEW t \in tasks, Replaced(t)
    PROVE  Alone'
<1>1. t \in Task
  BY DEF TypeOK
<1>2. \A b \in Boxes : Up(b)' <=> Up(b)
  BY DEF Replaced, Up
<1>3. tasks \subseteq Task
  BY DEF TypeOK
<1>4. CASE Finish(t)
  BY <1>2, <1>3, <1>4 DEF Finish, Alone, OneUp, InLive, OneWatchdog, Task
<1>5. CASE \E at \in Steps : Go(t, at)
  <2>1. PICK at \in Steps : Go(t, at)
    BY <1>5
  <2> DEFINE n == [t EXCEPT !.at = at]
  <2>2. n.box = t.box /\ n.role = t.role /\ n \in Task
    BY <1>1 DEF Task
  <2>3. tasks' = (tasks \ {t}) \cup {n}
    BY <2>1 DEF Go
  <2> HIDE DEF n
  <2>4. OneUp' /\ InLive'
    BY <1>2, <1>3, <2>2, <2>3 DEF Alone, OneUp, InLive, Task
  <2>5. OneWatchdog'
    BY <2>2, <2>3 DEF Alone, OneWatchdog
  <2> QED BY <2>4, <2>5 DEF Alone
<1> QED BY <1>4, <1>5 DEF Replaced

\* A container goes down with its tasks.
LEMMA KilledAlone ==
    ASSUME TypeOK, Alone, NEW b \in Boxes, NEW life \in {"crashed", "gone"}, Kill(b, life)
    PROVE  Alone'
<1>1. /\ tasks \subseteq Task /\ box \in [Boxes -> Box]
      /\ tasks' = {t \in tasks : t.box # b}
      /\ box' = [box EXCEPT ![b].life = life]
  BY DEF TypeOK, Kill
<1>2. ~Up(b)' /\ \A c \in Boxes : c # b => (Up(c)' <=> Up(c))
  BY <1>1 DEF Up, Box
<1>3. \A c \in Boxes : Up(c)' => Up(c)
  BY <1>2
<1>4. InLive'
  <2>1. SUFFICES ASSUME NEW t \in tasks' PROVE Up(t.box)'
    BY DEF InLive, Up
  <2>2. t \in tasks /\ t.box # b /\ t.box \in Boxes /\ Up(t.box)
    BY <1>1, <2>1 DEF Alone, InLive, Task
  <2> QED BY <1>2, <2>2
<1> QED BY <1>1, <1>3, <1>4 DEF Alone, OneUp, OneWatchdog

\* A container starts where none is up.
LEMMA StartedAlone ==
    ASSUME TypeOK, Alone, NEW b \in Boxes, \A c \in Boxes : ~Up(c),
           tasks' = tasks, \A c \in Boxes : c # b => box'[c] = box[c]
    PROVE  Alone'
<1>1. tasks = {}
  BY DEF Alone, InLive, TypeOK, Task
<1>2. \A c \in Boxes : Up(c)' => c = b
  BY DEF Up
<1> QED BY <1>1, <1>2 DEF Alone, OneUp, InLive, OneWatchdog

LEMMA TaskStepReplaces ==
    ASSUME NEW t \in tasks, TaskStep(t)
    PROVE  Replaced(t)
<1>1. \A at \in {"dispatch", "post", "dispatched", "undispatched", "waiting", "refused",
                 "accepted", "retagged", "jobFailed", "ready", "unready"} : at \in Steps
  BY DEF Steps
<1>2. CASE Cancel(t) \/ RecordDispatch(t) \/ FailDispatch(t) \/ RecordAccepted(t)
            \/ RecordRefused(t) \/ TimeOut(t) \/ Adopt(t) \/ FailJob(t)
  BY <1>2 DEF Cancel, RecordDispatch, FailDispatch, RecordAccepted, RecordRefused,
              TimeOut, Adopt, FailJob, MoveAndFinish, Replaced, worldVars
<1>3. CASE Begin(t) \/ TriggerRetagged(t)
  BY <1>1, <1>3 DEF Begin, TriggerRetagged, Replaced, worldVars
<1>4. CASE Dispatch(t) \/ Post(t) \/ Answer(t) \/ Probe(t)
  BY <1>1, <1>4 DEF Dispatch, Post, Answer, Probe, Replaced, worldVars
<1>5. CASE PollJob(t)
  <2>1. \A s \in Runs : Verdict(s) # "waiting" => Verdict(s) \in Steps
    BY <1>1 DEF Verdict
  <2> QED BY <1>5, <2>1 DEF PollJob, Candidates, Replaced, worldVars
<1>6. CASE Arrive(t) \/ RecordProbe(t) \/ TooSoon(t)
  BY <1>6 DEF Arrive, RecordProbe, TooSoon, MoveAndFinish, Replaced, worldVars
<1> QED BY <1>2, <1>3, <1>4, <1>5, <1>6 DEF TaskStep

\* No step brings a second container up, or a second watchdog.
LEMMA AloneKept ==
    ASSUME ~Overlap, TypeOK, Alone, [Next]_vars
    PROVE  Alone'
<1>t. tasks \subseteq Task
  BY DEF TypeOK
<1>u. box' = box /\ tasks' = tasks => Alone'
  BY <1>t DEF Alone, OneUp, InLive, OneWatchdog, Up
<1>1. CASE Admin
  <2>1. CASE \E b \in Boxes, k \in Kinds, v \in Goals : Request(b, k, v)
    <3>1. PICK b \in Boxes, k \in Kinds, v \in Goals : Request(b, k, v)
      BY <2>1
    <3>2. PICK n : /\ n.box = b /\ n.role = "handler" /\ tasks' = tasks \cup {n}
      BY <3>1 DEF Request
    <3>3. box' = box /\ Up(b)
      BY <3>1 DEF Request, worldVars
    <3>4. OneUp' /\ InLive'
      BY <3>2, <3>3, <1>t DEF Alone, OneUp, InLive, Up
    <3>5. OneWatchdog'
      BY <3>2 DEF Alone, OneWatchdog
    <3> QED BY <3>4, <3>5 DEF Alone
  <2>2. CASE \E b \in Boxes, r \in Runs : ReadToCancel(b, r)
    <3>1. PICK b \in Boxes, r \in Runs : ReadToCancel(b, r)
      BY <2>2
    <3>2. PICK n : /\ n.box = b /\ n.role = "cancel" /\ tasks' = tasks \cup {n}
      BY <3>1 DEF ReadToCancel
    <3>3. box' = box /\ Up(b)
      BY <3>1 DEF ReadToCancel, worldVars
    <3>4. OneUp' /\ InLive'
      BY <3>2, <3>3, <1>t DEF Alone, OneUp, InLive, Up
    <3>5. OneWatchdog'
      BY <3>2 DEF Alone, OneWatchdog
    <3> QED BY <3>4, <3>5 DEF Alone
  <2> QED BY <1>1, <2>1, <2>2 DEF Admin
<1>2. CASE \E b \in Boxes : Watch(b)
  <2>1. PICK b \in Boxes : Watch(b)
    BY <1>2
  <2>2. PICK r \in Runs :
          tasks' = tasks \cup
            {[box |-> b, run |-> r, role |-> "watchdog", at |-> "seen", seen |-> row[r]]}
    BY <2>1 DEF Watch
  <2> DEFINE n == [box |-> b, run |-> r, role |-> "watchdog", at |-> "seen", seen |-> row[r]]
  <2>3. n.box = b /\ n.role = "watchdog" /\ tasks' = tasks \cup {n}
    BY <2>2
  <2> HIDE DEF n
  <2>4. box' = box /\ Up(b)
    BY <2>1 DEF Watch, worldVars
  <2>5. \A t \in tasks : t.box = b /\ t.role # "watchdog"
    BY <2>1, <2>4, <1>t DEF Watch, Alone, OneUp, InLive, Task
  <2>6. OneUp' /\ InLive'
    BY <2>3, <2>4, <1>t DEF Alone, OneUp, InLive, Up
  <2>7. OneWatchdog'
    BY <2>3, <2>5 DEF OneWatchdog
  <2> QED BY <2>6, <2>7 DEF Alone
<1>3. CASE \E t \in tasks : TaskStep(t)
  BY <1>3, TaskStepReplaces, ReplacedAlone
<1>4. CASE Deployment
  <2>1. CASE \E b \in Boxes : Restart(b) \/ Recreate(b)
    <3>1. PICK b \in Boxes : Restart(b) \/ Recreate(b)
      BY <2>1
    <3>2. \A c \in Boxes : ~Up(c)
      BY <3>1 DEF Restart, Recreate, RoomFor
    <3>3. tasks' = tasks /\ \A c \in Boxes : c # b => box'[c] = box[c]
      BY <3>1 DEF Restart, Recreate, TypeOK
    <3> QED BY <3>2, <3>3, StartedAlone
  <2>2. CASE \E b \in Boxes : StopOld(b)
    BY <2>2, KilledAlone DEF StopOld
  <2>3. CASE PullDone
    BY <2>3, <1>u DEF PullDone
  <2> QED BY <1>4, <2>1, <2>2, <2>3 DEF Deployment
<1>5. CASE World
  <2>1. CASE \E b \in Boxes : Crash(b)
    BY <2>1, KilledAlone DEF Crash
  <2>2. CASE \E t \in tasks : DbError(t)
    <3>1. PICK t \in tasks : DbError(t)
      BY <2>2
    <3>2. CASE t.role = "handler"
      BY <1>t, <3>1, <3>2, KilledAlone DEF DbError, Task
    <3>3. CASE t.role # "handler"
      BY <3>1, <3>3, ReplacedAlone DEF DbError, Replaced
    <3> QED BY <3>2, <3>3
  <2>3. CASE (\E v \in Versions : Publish(v)) \/ \E r \in Runs : JobStep(r) \/ MinutePasses(r)
    BY <2>3, <1>u DEF Publish, JobStep, MinutePasses
  <2> QED BY <1>5, <2>1, <2>2, <2>3 DEF World
<1>6. CASE Clock
  BY <1>6, <1>u DEF Clock, DeadlinePasses, SpacingPasses, worldVars
<1>7. CASE UNCHANGED vars
  BY <1>7, <1>u DEF vars, worldVars
<1> QED BY <1>1, <1>2, <1>3, <1>4, <1>5, <1>6, <1>7 DEF Next, Server

\* The step moves no run into or within 'verifying' or 'succeeded' and counts no
\* probe; a watchdog that has just read a run has read it as it is.
Steady ==
    /\ evidence' = evidence
    /\ \A r \in Runs : row'[r] # NoRow /\ row'[r].state \in {"verifying", "succeeded"} =>
         /\ row[r] # NoRow
         /\ row'[r].state = row[r].state /\ row'[r].passes = row[r].passes

ReadNow == \A t \in tasks' : Reading(t) =>
    \/ t \in tasks
    \/ Seen(t, "verifying") /\ row' = row /\ t.run \in Runs /\ t.seen = row[t.run]

LEMMA SteadyKeeps ==
    ASSUME Inductive, Inductive', Current, Backed, Steady, ReadNow
    PROVE  Current' /\ Backed'
<1>1. Backed'
  BY DEF Backed, Steady
<1>2. SUFFICES ASSUME NEW t \in tasks', Reading(t)
               PROVE  CurrentTask(t)'
  BY <1>1 DEF Current, Reading, Seen
<1>3. t.run \in Runs /\ row'[t.run] # NoRow
  BY DEF Inductive, TaskShape, GoodTask, Task
<1>4. CASE t \in tasks
  <2>1. CurrentTask(t)
    BY <1>2, <1>4 DEF Current
  <2> QED BY <1>3, <2>1 DEF Steady, CurrentTask
<1>5. CASE Seen(t, "verifying") /\ row' = row /\ t.seen = row[t.run]
  BY <1>2, <1>5 DEF Seen, CurrentTask
<1> QED BY <1>2, <1>4, <1>5 DEF ReadNow

\* A conditional update to any other state.
LEMMA MovedSteady ==
    ASSUME TypeOK, NEW r \in Runs, NEW from, NEW to \in Active \cup Ended, NEW patch \in Row,
           to \notin {"verifying", "succeeded"},
           row' = Moved(r, from, to, patch), evidence' = evidence
    PROVE  Steady
<1>1. CASE row[r].state # from
  BY <1>1 DEF Moved, Steady
<1>2. CASE row[r].state = from
  <2> DEFINE x == [patch EXCEPT !.state = to, !.guard = to \notin Ended]
  <2>1. row' = [row EXCEPT ![r] = x] /\ x.state = to
    BY <1>2 DEF Moved, Row
  <2> HIDE DEF x
  <2>2. row'[r].state = to /\ \A s \in Runs : s # r => row'[s] = row[s]
    BY <2>1, Facts
  <2> QED BY <2>2 DEF Steady
<1> QED BY <1>1, <1>2

\* A task that moves on is no longer about to act on what it has seen.
LEMMA ReplacedReads ==
    ASSUME TypeOK, NEW t \in tasks,
           Finish(t) \/ \E at \in Steps \ {"seen", "ready", "unready"} : Go(t, at)
    PROVE  ReadNow
<1>1. CASE Finish(t)
  BY <1>1 DEF Finish, ReadNow
<1>2. CASE \E at \in Steps \ {"seen", "ready", "unready"} : Go(t, at)
  <2>1. PICK at \in Steps \ {"seen", "ready", "unready"} : Go(t, at)
    BY <1>2
  <2>2. [t EXCEPT !.at = at].at = at
    BY DEF TypeOK, Task
  <2> QED BY <2>1, <2>2 DEF Go, ReadNow, Reading, Seen
<1> QED BY <1>1, <1>2

LEMMA TaskStepSteady ==
    ASSUME Inductive, NEW t \in tasks, TaskStep(t), ~Arrive(t), ~Probe(t), ~RecordProbe(t)
    PROVE  Steady /\ ReadNow
<1> DEFINE r == t.run
           Elsewhere == Steps \ {"seen", "ready", "unready"}
<1>i. TypeOK /\ TaskShape
  BY DEF Inductive
<1>f. r \in Runs /\ row[r] \in Row /\ t.seen.state \in Active
  BY <1>i, TaskFacts
<1>u. row' = row /\ evidence' = evidence => Steady
  BY DEF Steady
<1>r. Finish(t) \/ (\E at \in Elsewhere : Go(t, at)) => ReadNow
  BY <1>i, ReplacedReads
<1>a. \A at \in {"dispatch", "post", "dispatched", "undispatched", "waiting", "refused",
                 "accepted", "retagged", "jobFailed"} : at \in Elsewhere
  BY DEF Steps
<1>1. CASE Cancel(t) \/ FailDispatch(t) \/ RecordAccepted(t)
            \/ RecordRefused(t) \/ TimeOut(t) \/ Adopt(t) \/ FailJob(t)
  <2>1. PICK from \in Active, to \in {"cancelled", "failed", "applying", "timed_out"} :
          MoveAndFinish(t, from, to, row[r])
    BY <1>1, <1>f, StatesDistinct
       DEF Cancel, FailDispatch, RecordAccepted, RecordRefused, TimeOut, Adopt, FailJob
  <2>2. to \in Active \cup Ended /\ to \notin {"verifying", "succeeded"}
    BY StatesDistinct
  <2>3. row' = Moved(r, from, to, row[r]) /\ evidence' = evidence /\ Finish(t)
    BY <2>1 DEF MoveAndFinish
  <2>4. Steady
    BY <1>i, <1>f, <2>2, <2>3, MovedSteady
  <2> QED BY <1>r, <2>3, <2>4
<1>2. CASE RecordDispatch(t)
  <2> DEFINE p == [row[r] EXCEPT !.sent = TRUE]
  <2>1. row' = Moved(r, "retagging", "retagging", p) /\ evidence' = evidence /\ Finish(t)
    BY <1>2 DEF RecordDispatch, MoveAndFinish
  <2>2. p \in Row
    BY <1>f DEF Row
  <2> HIDE DEF p
  <2>3. Steady
    BY <1>i, <1>f, <2>1, <2>2, StatesDistinct, MovedSteady
  <2> QED BY <1>r, <2>1, <2>3
<1>3. CASE Begin(t) \/ TriggerRetagged(t)
  <2>1. PICK from \in Active, to \in {"retagging", "triggering"} :
          row' = Moved(r, from, to, row[r])
    BY <1>3, StatesDistinct DEF Begin, TriggerRetagged
  <2>2. evidence' = evidence
    BY <1>3 DEF Begin, TriggerRetagged
  <2>3. Finish(t) \/ \E at \in Elsewhere : Go(t, at)
    BY <1>3, <1>a DEF Begin, TriggerRetagged
  <2>4. Steady
    BY <1>i, <1>f, <2>1, <2>2, StatesDistinct, MovedSteady
  <2> QED BY <1>r, <2>3, <2>4
<1>4. CASE Dispatch(t) \/ Post(t) \/ Answer(t)
  <2>1. Finish(t) \/ \E at \in Elsewhere : Go(t, at)
    BY <1>4, <1>a DEF Dispatch, Post, Answer
  <2> QED BY <1>4, <1>r, <1>u, <2>1 DEF Dispatch, Post, Answer
<1>5. CASE PollJob(t)
  <2>1. \A s \in Runs : Verdict(s) # "waiting" => Verdict(s) \in Elsewhere
    BY <1>a DEF Verdict
  <2>2. Finish(t) \/ \E at \in Elsewhere : Go(t, at)
    BY <1>5, <2>1 DEF PollJob, Candidates
  <2> QED BY <1>5, <1>r, <1>u, <2>2 DEF PollJob
<1>6. CASE TooSoon(t)
  BY <1>6, <1>r, <1>u DEF TooSoon
<1> QED BY <1>1, <1>2, <1>3, <1>4, <1>5, <1>6 DEF TaskStep

\* Only a finding that the target runs and a probe touch a verifying run.
LEMMA OthersSteady ==
    ASSUME Inductive, [Next]_vars,
           \A t \in tasks : ~Arrive(t) /\ ~Probe(t) /\ ~RecordProbe(t)
    PROVE  Steady /\ ReadNow
<1>i. TypeOK /\ tasks \subseteq Task
  BY DEF Inductive, TypeOK
<1>u. row' = row /\ evidence' = evidence => Steady
  BY DEF Steady
<1>t. tasks' \subseteq tasks => ReadNow
  BY DEF ReadNow
<1>1. CASE \E b \in Boxes, k \in Kinds, v \in Goals : Request(b, k, v)
  <2>1. PICK b \in Boxes, k \in Kinds, v \in Goals : Request(b, k, v)
    BY <1>1
  <2> DEFINE x == [kind |-> k, state |-> "queued", guard |-> TRUE, from |-> box[b].img,
                   to |-> v, due |-> FALSE, sent |-> FALSE, passes |-> 0, rested |-> TRUE]
             n == [box |-> b, run |-> last + 1, role |-> "handler", at |-> "begin", seen |-> x]
  <2>2. /\ n.role = "handler" /\ n.at = "begin" /\ tasks' = tasks \cup {n}
        /\ row' = [row EXCEPT ![last + 1] = x] /\ x.state = "queued"
        /\ evidence' = evidence
    BY <2>1 DEF Request
  <2> HIDE DEF n, x
  <2>3. ReadNow
    BY <2>2 DEF ReadNow, Reading, Seen
  <2>4. \A r \in Runs : row'[r] = row[r] \/ row'[r].state = "queued"
    BY <1>i, <2>2, Facts
  <2> QED BY <2>2, <2>3, <2>4 DEF Steady
<1>2. CASE \E b \in Boxes, r \in Runs : ReadToCancel(b, r)
  <2>1. PICK n : n.role = "cancel" /\ n.at = "seen" /\ tasks' = tasks \cup {n}
    BY <1>2 DEF ReadToCancel
  <2>2. ReadNow
    BY <2>1 DEF ReadNow, Reading, Seen
  <2> QED BY <1>2, <1>u, <2>2 DEF ReadToCancel
<1>3. CASE \E b \in Boxes : Watch(b)
  <2>1. PICK b \in Boxes, r \in Runs : tasks' = tasks \cup
          {[box |-> b, run |-> r, role |-> "watchdog", at |-> "seen", seen |-> row[r]]}
    BY <1>3 DEF Watch
  <2>2. row' = row /\ evidence' = evidence
    BY <1>3 DEF Watch
  <2> QED BY <1>u, <2>1, <2>2 DEF ReadNow, Reading
<1>4. CASE \E t \in tasks : TaskStep(t)
  BY <1>4, TaskStepSteady
<1>5. CASE Deployment
  BY <1>5, <1>u, <1>t DEF Deployment, Restart, Recreate, StopOld, PullDone, Kill
<1>6. CASE World
  <2>1. row' = row /\ evidence' = evidence
    BY <1>6 DEF World, Crash, DbError, Publish, JobStep, MinutePasses
  <2>2. tasks' \subseteq tasks
    BY <1>6 DEF World, Crash, DbError, Kill, Finish, Publish, JobStep, MinutePasses
  <2> QED BY <1>u, <1>t, <2>1, <2>2
<1>7. CASE Clock
  <2>1. PICK r \in Runs : DeadlinePasses(r) \/ SpacingPasses(r)
    BY <1>7 DEF Clock
  <2>2. row[r] \in Row /\ row[r] # NoRow
    BY <1>i, <2>1, Facts DEF DeadlinePasses, SpacingPasses, Held
  <2>3. PICK x \in {[row[r] EXCEPT !.due = TRUE], [row[r] EXCEPT !.rested = TRUE]} :
          row' = [row EXCEPT ![r] = x]
    BY <2>1 DEF DeadlinePasses, SpacingPasses
  <2>4. x.state = row[r].state /\ x.passes = row[r].passes
    BY <2>2, <2>3 DEF Row
  <2>5. row'[r] = x /\ \A s \in Runs : s # r => row'[s] = row[s]
    BY <1>i, <2>3, Facts
  <2>6. evidence' = evidence /\ tasks' = tasks
    BY <2>1 DEF DeadlinePasses, SpacingPasses
  <2> QED BY <1>t, <2>2, <2>4, <2>5, <2>6 DEF Steady
<1>8. CASE UNCHANGED vars
  BY <1>8, <1>u, <1>t DEF vars
<1> QED BY <1>1, <1>2, <1>3, <1>4, <1>5, <1>6, <1>7, <1>8 DEF Next, Admin, Server

\* The watchdog that ends its pass was the only one: nobody holds an older
\* reading of a verifying run.
LEMMA NobodyReads ==
    ASSUME OneWatchdog, Current, NEW t \in tasks, t.role = "watchdog", Finish(t)
    PROVE  Current'
<1>1. SUFFICES ASSUME NEW u \in tasks', Reading(u) PROVE FALSE
  BY DEF Current, Reading, Seen
<1>2. u \in tasks /\ u # t
  BY <1>1 DEF Finish
<1>3. u.role = "watchdog"
  BY <1>1, <1>2 DEF Current, CurrentTask
<1> QED BY <1>2, <1>3 DEF OneWatchdog

\* The run is found to run its target and starts with no passes.
LEMMA ArriveKeeps ==
    ASSUME Earning, Inductive', NEW t \in tasks, Arrive(t)
    PROVE  Current' /\ Backed'
<1> DEFINE r == t.run
<1>i. /\ TypeOK /\ TaskShape /\ Current /\ Backed /\ OneWatchdog
  BY DEF Earning, Inductive, Alone
<1>f. r \in Runs /\ row[r] \in Row /\ box[t.box].img \in Versions
  BY <1>i, TaskFacts DEF TypeOK, Box
<1>1. Current'
  <2>1. t.role = "watchdog" /\ Finish(t)
    BY DEF Arrive, Seen, MoveAndFinish
  <2> QED BY <1>i, <2>1, NobodyReads
<1>2. CASE row' = row
  <2>1. evidence' = evidence
    BY DEF Arrive, MoveAndFinish
  <2> QED BY <1>1, <1>i, <1>2, <2>1 DEF Backed
<1>3. CASE row' # row
  <2> DEFINE p == [row[r] EXCEPT !.to = box[t.box].img, !.passes = 0, !.rested = TRUE]
             x == [p EXCEPT !.state = "verifying", !.guard = "verifying" \notin Ended]
  <2>1. row' = [row EXCEPT ![r] = x] /\ evidence' = evidence
    BY <1>3 DEF Arrive, MoveAndFinish, Moved
  <2>2. p \in Row /\ p.passes = 0
    BY <1>f DEF Row
  <2>3. x.state = "verifying" /\ x.passes = 0
    BY <2>2 DEF Row
  <2> HIDE DEF x
  <2>4. row'[r] = x /\ \A s \in Runs : s # r => row'[s] = row[s]
    BY <1>i, <1>f, <2>1, Facts
  <2>5. Passes \in Nat \ {0} /\ evidence[r] \in Nat
    BY <1>i, <1>f, ConstantsAssumption DEF TypeOK
  <2>6. Backed'
    <3>1. SUFFICES ASSUME NEW s \in Runs, row'[s] # NoRow
                   PROVE  /\ row'[s].state = "verifying" =>
                               row'[s].passes < Passes /\ row'[s].passes <= evidence'[s]
                          /\ row'[s].state = "succeeded" => evidence'[s] >= Passes
      BY DEF Backed
    <3>2. CASE s = r
      BY <3>2, <2>1, <2>3, <2>4, <2>5
    <3>3. CASE s # r
      BY <3>1, <3>3, <1>i, <2>1, <2>4 DEF Backed
    <3> QED BY <3>2, <3>3
  <2> QED BY <1>1, <2>6
<1> QED BY <1>2, <1>3

\* A ready probe is one more than the row holds.
LEMMA ProbeKeeps ==
    ASSUME Earning, Inductive', NEW t \in tasks, Probe(t)
    PROVE  Current' /\ Backed'
<1> DEFINE r == t.run
<1>i. TypeOK /\ TaskShape /\ Current /\ Backed /\ OneWatchdog
  BY DEF Earning, Inductive, Alone
<1>f. /\ t \in Task /\ r \in Runs /\ row[r] \in Row /\ row[r] # NoRow /\ t.seen.passes \in Nat
      /\ row[r].passes \in Nat /\ Passes \in Nat \ {0} /\ evidence \in [Runs -> Nat]
  BY <1>i, TaskFacts, ConstantsAssumption DEF TypeOK, Row
<1>1. PICK at \in {"ready", "unready"} :
        /\ Go(t, at) /\ row' = row
        /\ IF at = "ready"
           THEN evidence' = [evidence EXCEPT ![r] = IF @ < Passes THEN @ + 1 ELSE @]
           ELSE evidence' = evidence
  BY DEF Probe
<1>2. \A s \in Runs : evidence[s] \in Nat /\ evidence'[s] \in Nat /\ evidence[s] <= evidence'[s]
  BY <1>1, <1>f
<1>3. Backed'
  <2>1. \A s \in Runs : row[s] # NoRow /\ row[s].state = "verifying" => row[s].passes \in Nat
    BY <1>i DEF TypeOK, Row
  <2>2. SUFFICES ASSUME NEW s \in Runs, row[s] # NoRow
                 PROVE  /\ row[s].state = "verifying" =>
                             row[s].passes < Passes /\ row[s].passes <= evidence'[s]
                        /\ row[s].state = "succeeded" => evidence'[s] >= Passes
    BY <1>1 DEF Backed
  <2>3. /\ row[s].state = "verifying" => row[s].passes < Passes /\ row[s].passes <= evidence[s]
        /\ row[s].state = "succeeded" => evidence[s] >= Passes
    BY <1>i, <2>2 DEF Backed
  <2> QED BY <1>2, <1>f, <2>1, <2>2, <2>3
<1> DEFINE n == [t EXCEPT !.at = at]
<1>4. n.at = at /\ n.run = r /\ n.seen = t.seen /\ n.role = t.role
  BY <1>f DEF Task
<1>5. tasks' = (tasks \ {t}) \cup {n}
  BY <1>1 DEF Go
<1> HIDE DEF n
<1>6. Seen(t, "verifying") /\ t.role = "watchdog"
  BY DEF Probe, Seen
<1>7. CurrentTask(t)
  BY <1>6, <1>i DEF Current, Reading
<1>8. CurrentTask(n)'
  <2>1. row[r].state = "verifying" => t.seen.passes = row[r].passes
    BY <1>7 DEF CurrentTask
  <2>2. row[r].state = "verifying" => row[r].passes < Passes /\ row[r].passes <= evidence[r]
    BY <1>f, <1>i DEF Backed
  <2>3. at = "ready" =>
          evidence'[r] = IF evidence[r] < Passes THEN evidence[r] + 1 ELSE evidence[r]
    BY <1>1, <1>f
  <2>4. at = "ready" /\ row[r].state = "verifying" => t.seen.passes + 1 <= evidence'[r]
    BY <1>2, <1>f, <2>1, <2>2, <2>3
  <2> QED BY <1>1, <1>4, <1>6, <1>7, <2>1, <2>4 DEF CurrentTask
<1>9. ASSUME NEW u \in tasks', Reading(u) PROVE u = n
  <2>1. CASE u \in tasks /\ u # t
    <3>1. u.role = "watchdog"
      BY <1>9, <2>1, <1>i DEF Current, CurrentTask
    <3> QED BY <2>1, <3>1, <1>6, <1>i DEF OneWatchdog
  <2> QED BY <1>5, <2>1
<1>10. Current'
  BY <1>8, <1>9 DEF Current, Reading, Seen
<1> QED BY <1>3, <1>10

\* The record adds a pass only to as many as the row holds, and forgets them all
\* when the probe found the server unready.
LEMMA RecordKeeps ==
    ASSUME Earning, Inductive', NEW t \in tasks, RecordProbe(t)
    PROVE  Current' /\ Backed'
<1> DEFINE r == t.run
<1>i. TypeOK /\ TaskShape /\ Current /\ Backed /\ OneWatchdog
  BY DEF Earning, Inductive, Alone
<1>f. /\ r \in Runs /\ row[r] \in Row /\ row[r] # NoRow /\ t.seen.passes \in Nat
      /\ row[r].passes \in Nat /\ evidence[r] \in Nat /\ Passes \in Nat \ {0}
  BY <1>i, TaskFacts, ConstantsAssumption DEF TypeOK, Row
<1>2. CurrentTask(t) /\ t.at \in {"ready", "unready"}
  BY <1>i DEF Current, Reading, RecordProbe
<1>1. Current'
  BY <1>i, <1>2, NobodyReads DEF RecordProbe, CurrentTask
<1> DEFINE n  == PassesAfter(t)
           to == IF n >= Passes THEN "succeeded" ELSE "verifying"
           p  == [row[r] EXCEPT !.passes = n, !.rested = FALSE]
           x  == [p EXCEPT !.state = to, !.guard = to \notin Ended]
           e  == IF t.at = "unready" THEN 0 ELSE evidence[r]
<1>3. /\ evidence'[r] = e
      /\ \A s \in Runs : s # r => evidence'[s] = evidence[s]
  BY <1>f, <1>i DEF TypeOK, RecordProbe
<1>4. row' = Moved(r, "verifying", to, p)
  BY DEF RecordProbe
<1>5. /\ row[r].state # "succeeded"
      /\ row[r].state = "verifying" =>
           t.seen.passes = row[r].passes /\ (t.at = "ready" => t.seen.passes + 1 <= evidence[r])
  BY <1>2 DEF CurrentTask
<1>6. \A s \in Runs : s # r => row'[s] = row[s]
  BY <1>4, <1>i, Facts DEF Moved
<1>7. /\ row'[r].state = "verifying" => row'[r].passes < Passes /\ row'[r].passes <= evidence'[r]
      /\ row'[r].state = "succeeded" => evidence'[r] >= Passes
  <2>1. CASE row[r].state # "verifying"
    BY <2>1, <1>4, <1>5 DEF Moved
  <2>2. CASE row[r].state = "verifying"
    <3>1. t.seen.passes < Passes /\ t.seen.passes <= evidence[r]
      BY <1>f, <1>i, <1>5, <2>2 DEF Backed
    <3>2. row' = [row EXCEPT ![r] = x]
      BY <1>4, <2>2 DEF Moved
    <3>3. /\ n \in Nat /\ (t.at = "ready" => n = t.seen.passes + 1)
          /\ t.at = "unready" => n = 0
      BY <1>f DEF PassesAfter
    <3>4. p \in Row /\ p.passes = n
      BY <1>f, <3>3 DEF Row
    <3>5. x.state = to /\ x.passes = n
      BY <3>4 DEF Row
    <3>6. row'[r] = x
      BY <1>f, <1>i, <3>2, Facts
    <3> HIDE DEF n, x
    <3>7. to = "succeeded" => e >= Passes
      BY <1>2, <1>5, <1>f, <2>2, <3>1, <3>3
    <3>8. to = "verifying" => n < Passes /\ n <= e
      BY <1>2, <1>5, <1>f, <2>2, <3>1, <3>3
    <3> HIDE DEF e, to
    <3> QED BY <1>3, <3>5, <3>6, <3>7, <3>8
  <2> QED BY <2>1, <2>2
<1>8. Backed'
  <2>1. SUFFICES ASSUME NEW s \in Runs, row'[s] # NoRow
                 PROVE  /\ row'[s].state = "verifying" =>
                             row'[s].passes < Passes /\ row'[s].passes <= evidence'[s]
                        /\ row'[s].state = "succeeded" => evidence'[s] >= Passes
    BY DEF Backed
  <2>2. CASE s = r
    BY <2>2, <1>7
  <2>3. CASE s # r
    BY <2>1, <2>3, <1>i, <1>3, <1>6 DEF Backed
  <2> QED BY <2>2, <2>3
<1> QED BY <1>1, <1>8

LEMMA InitEarning == Init => Earning
<1> SUFFICES ASSUME Init PROVE Earning
  OBVIOUS
<1>1. Alone
  <2>1. PICK v \in Starts, b \in Boxes :
          box = [c \in Boxes |-> [life |-> IF c = b THEN "up" ELSE "gone", img |-> v]]
    BY ConstantsAssumption DEF Init
  <2>2. \A c \in Boxes : Up(c) => c = b
    BY <2>1 DEF Up
  <2> QED BY <2>2 DEF Init, Alone, OneUp, InLive, OneWatchdog
<1>2. Current /\ Backed
  BY DEF Init, Current, Backed
<1> QED BY <1>1, <1>2, InitInductive DEF Earning

LEMMA NextEarning ==
    ASSUME ~Overlap, Earning, [Next]_vars
    PROVE  Earning'
<1>1. Inductive'
  BY NextInductive DEF Earning
<1>2. Alone'
  BY AloneKept DEF Earning, Inductive
<1>3. CASE \A t \in tasks : ~Arrive(t) /\ ~Probe(t) /\ ~RecordProbe(t)
  <2>1. Steady /\ ReadNow
    BY <1>3, OthersSteady DEF Earning
  <2> QED BY <1>1, <1>2, <2>1, SteadyKeeps DEF Earning
<1>4. CASE \E t \in tasks : Arrive(t) \/ Probe(t) \/ RecordProbe(t)
  <2>1. Current' /\ Backed'
    BY <1>1, <1>4, ArriveKeeps, ProbeKeeps, RecordKeeps
  <2> QED BY <1>1, <1>2, <2>1 DEF Earning
<1> QED BY <1>3, <1>4

\* Where Watchtower stops the old container before it starts the new one, a run
\* is recorded as succeeded only after UPDATE_HEALTH_PASSES ready probes, all of
\* them after the last reset that was recorded, whatever is cancelled, times out,
\* crashes or fails between the probes or between a probe and its record
\* (runUpdateWatchdogPass).
THEOREM SuccessEarned == ASSUME ~Overlap PROVE Spec => []SuccessIsEarned
<1>1. Earning /\ [Next]_vars => Earning'
  BY NextEarning
<1>2. Earning => SuccessIsEarned
  BY DEF Earning, Backed, SuccessIsEarned
<1> QED BY <1>1, <1>2, InitEarning, PTL DEF Spec

-----------------------------------------------------------------------------
(* A rollback's workflow is dispatched once, by the process that took the  *)
(* run out of 'queued'.  While the run holds the guard no later run has a  *)
(* workflow, so a poll on behalf of the first rollback can only find its   *)
(* own; a pass that outlives its run finds others', and cannot move on it. *)

Rollback(r)  == row[r] # NoRow /\ row[r].kind = "rollback"
First(r)     == Rollback(r) /\ \A q \in Runs : q < r => ~Rollback(q)
Unstarted(r) == row[r] = NoRow \/ row[r].state = "queued"

LastHolds == \A r \in Runs : Held(r) => r = last

TaskTag(t) ==
    /\ t.at = "dispatch" => job[t.run].st = "none" /\ ~Unstarted(t.run)
    /\ t.at = "retagged" \/ Seen(t, "retagging") => ~Unstarted(t.run)
    /\ (t.at = "retagged" /\ row[t.run].state = "retagging") \/ t.at = "post" =>
         (First(t.run) => job[t.run].st = "ok")

RunTag(r) ==
    /\ Unstarted(r) => job[r].st = "none"
    /\ First(r) /\ posted[r] > 0 => job[r].st = "ok"

TasksTag    == \A t \in tasks : TaskTag(t)
RunsTag     == \A r \in Runs : RunTag(r)
OneDispatch == \A t, u \in tasks :
    t.at = "dispatch" /\ u.at = "dispatch" /\ t.run = u.run => t = u

Tagging == Inductive /\ LastHolds /\ TasksTag /\ RunsTag /\ OneDispatch

\* What a row step does to runs that are there: none goes back to 'queued' or
\* 'retagging', and a rollback that is not the first does not become it.
LEMMA TagRows ==
    ASSUME TypeOK, RowShape, LastHolds, RowStep
    PROVE  /\ \A r \in Runs : Unstarted(r)' => Unstarted(r)
           /\ \A r \in Runs : row[r] # NoRow /\ First(r)' => First(r)
           /\ \A r \in Runs : ~Unstarted(r) /\ row'[r].state = "retagging"
                                => row[r].state = "retagging"
           /\ LastHolds'
<1>f. /\ row \in [Runs -> Row \cup {NoRow}] /\ last \in 0..MaxRuns /\ MaxRuns \in Nat
      /\ \A r \in Runs : row[r] # NoRow =>
           row[r] \in Row /\ (row[r].guard <=> row[r].state \in Active)
      /\ Runs \subseteq Nat
  BY Facts DEF Runs
<1>k. \A r \in Runs : row[r] # NoRow => row'[r] # NoRow /\ row'[r].kind = row[r].kind
  BY RowKept
<1>1. \A r \in Runs : row[r] # NoRow /\ First(r)' => First(r)
  <2>1. SUFFICES ASSUME NEW r \in Runs, row[r] # NoRow, First(r)' PROVE First(r)
    OBVIOUS
  <2>2. Rollback(r)
    BY <1>k, <2>1 DEF First, Rollback
  <2>3. \A q \in Runs : q < r => ~Rollback(q)
    BY <1>k, <2>1 DEF First, Rollback
  <2> QED BY <2>2, <2>3 DEF First
<1>2. CASE Still
  BY <1>1, <1>2 DEF Still, Unstarted, LastHolds, Held
<1>3. CASE \E x \in Row : Born(x)
  <2>1. PICK x \in Row : Born(x)
    BY <1>3
  <2>2. last + 1 \in Runs /\ last' = last + 1
    BY <2>1, <1>f DEF Born, Runs
  <2>3. /\ row'[last + 1] = x /\ row[last + 1] = NoRow
        /\ \A r \in Runs : r # last + 1 => row'[r] = row[r]
    BY <2>1, <2>2, <1>f DEF Born, RowShape
  <2>4. LastHolds'
    BY <2>1, <2>2, <2>3 DEF Born, LastHolds, Held
  <2> QED BY <1>1, <2>3, <2>4 DEF Unstarted
<1>4. CASE \E r \in Runs, x \in Row : Carried(r, x)
  <2>1. PICK r \in Runs, x \in Row : Carried(r, x)
    BY <1>4
  <2>2. /\ row'[r] = x /\ last' = last /\ row[r] # NoRow /\ row[r].guard
        /\ \A s \in Runs : s # r => row'[s] = row[s]
    BY <2>1, <1>f DEF Carried
  <2>3. /\ x.state = "queued" => row[r].state = "queued"
        /\ x.state = "retagging" => row[r].state \in {"queued", "retagging"}
    BY <2>1 DEF Carried, Early
  <2>4. LastHolds'
    BY <2>2 DEF LastHolds, Held
  <2>5. x # NoRow
    BY NoRowAssumption
  <2>6. \A s \in Runs : Unstarted(s)' => Unstarted(s)
    BY <2>2, <2>3, <2>5 DEF Unstarted
  <2>7. \A s \in Runs : ~Unstarted(s) /\ row'[s].state = "retagging"
                          => row[s].state = "retagging"
    BY <2>2, <2>3 DEF Unstarted
  <2> QED BY <1>1, <2>4, <2>6, <2>7
<1> QED BY <1>2, <1>3, <1>4 DEF RowStep

\* What the steps below rest on.
LEMMA TagFacts ==
    ASSUME Tagging, [Next]_vars
    PROVE  /\ TypeOK /\ RowShape /\ TaskShape /\ LastHolds /\ Inductive'
           /\ \A r \in Runs : Unstarted(r)' => Unstarted(r)
           /\ \A r \in Runs : row[r] # NoRow /\ First(r)' => First(r)
           /\ \A r \in Runs : ~Unstarted(r) /\ row'[r].state = "retagging"
                                => row[r].state = "retagging"
           /\ LastHolds'
           /\ \A r \in Runs : posted[r] > 0 => row[r] # NoRow
           /\ \A t \in tasks : t \in Task /\ t.run \in Runs /\ row[t.run] # NoRow
           /\ posted \in [Runs -> Nat] /\ job \in [Runs -> Job]
<1>1. TypeOK /\ RowShape /\ TaskShape /\ PostShape /\ LastHolds /\ Inductive'
  BY NextInductive DEF Tagging, Inductive
<1>2. RowStep
  BY <1>1, EveryRowStep
<1>3. \A r \in Runs : posted[r] > 0 => row[r] # NoRow
  BY <1>1 DEF PostShape, Fresh
<1>4. \A t \in tasks : t \in Task /\ t.run \in Runs /\ row[t.run] # NoRow
  BY <1>1, TaskFacts
<1> QED BY <1>1, <1>2, <1>3, <1>4, TagRows DEF TypeOK

\* A task keeps what it may rely on while the workflow of its run that has
\* succeeded has, and while nobody dispatches the one it is about to.
LEMMA OldTag ==
    ASSUME Tagging, [Next]_vars, NEW t \in tasks,
           job[t.run].st = "ok" => job'[t.run].st = "ok",
           t.at = "dispatch" => job'[t.run].st = job[t.run].st
    PROVE  TaskTag(t)'
<1>1. /\ t.run \in Runs /\ row[t.run] # NoRow
      /\ Unstarted(t.run)' => Unstarted(t.run)
      /\ First(t.run)' => First(t.run)
      /\ ~Unstarted(t.run) /\ row'[t.run].state = "retagging" => row[t.run].state = "retagging"
  BY TagFacts
<1>2. TaskTag(t)
  BY DEF Tagging, TasksTag
<1> QED BY <1>1, <1>2 DEF TaskTag

\* So does a run.
LEMMA OldRun ==
    ASSUME Tagging, [Next]_vars, NEW r \in Runs,
           job[r].st = "ok" => job'[r].st = "ok",
           Unstarted(r) => job'[r].st = job[r].st,
           posted'[r] = posted[r]
    PROVE  RunTag(r)'
<1>1. /\ Unstarted(r)' => Unstarted(r)
      /\ posted[r] > 0 => row[r] # NoRow
      /\ row[r] # NoRow /\ First(r)' => First(r)
  BY TagFacts
<1>2. RunTag(r)
  BY DEF Tagging, RunsTag
<1> QED BY <1>1, <1>2 DEF RunTag

\* Steps that give no task anything new to rely on.
Plain ==
    /\ posted' = posted
    /\ \A r \in Runs : (job[r].st = "ok" => job'[r].st = "ok")
                         /\ (job[r].st = "none" => job'[r].st = "none")
    /\ \A t \in tasks' : t.at \in {"dispatch", "retagged", "post"} \/ Seen(t, "retagging")
                           => t \in tasks

LEMMA PlainTags ==
    ASSUME Tagging, [Next]_vars, Plain
    PROVE  Tagging'
<1>1. /\ Inductive' /\ LastHolds'
      /\ \A t \in tasks : t.run \in Runs
  BY TagFacts
<1>2. ASSUME NEW t \in tasks' PROVE TaskTag(t)'
  <2>1. CASE t \in tasks
    <3>1. t.at = "dispatch" => job[t.run].st = "none"
      BY <2>1 DEF Tagging, TasksTag, TaskTag
    <3> QED BY <1>1, <2>1, <3>1, OldTag DEF Plain
  <2>2. CASE t \notin tasks
    BY <1>2, <2>2 DEF Plain, TaskTag
  <2> QED BY <2>1, <2>2
<1>3. ASSUME NEW r \in Runs PROVE RunTag(r)'
  <2>1. Unstarted(r) => job[r].st = "none"
    BY DEF Tagging, RunsTag, RunTag
  <2> QED BY <2>1, OldRun DEF Plain
<1>4. OneDispatch'
  BY DEF Tagging, OneDispatch, Plain
<1> QED BY <1>1, <1>2, <1>3, <1>4 DEF Tagging, TasksTag, RunsTag

\* Begin: the winner of the transition dispatches a rollback's workflow, or asks
\* Watchtower for an update.
LEMMA BeginTags ==
    ASSUME Tagging, [Next]_vars, NEW t \in tasks, Begin(t)
    PROVE  Tagging'
<1> DEFINE r == t.run
<1>f. /\ TypeOK /\ TaskShape /\ Inductive' /\ LastHolds' /\ t \in Task /\ r \in Runs
      /\ \A u \in tasks : u.run \in Runs
  BY TagFacts
<1>j. job' = job /\ posted' = posted
  BY DEF Begin, worldVars
<1>o. (\A u \in tasks : TaskTag(u)') /\ (\A s \in Runs : RunTag(s)')
  BY <1>f, <1>j, OldTag, OldRun
<1>1. CASE ~Won(t)
  <2>1. tasks' = tasks \ {t}
    BY <1>1 DEF Begin, Finish
  <2> QED BY <1>f, <1>o, <2>1 DEF Tagging, TasksTag, RunsTag, OneDispatch
<1>2. CASE Won(t)
  <2> DEFINE rb == t.seen.kind = "rollback"
             n  == [t EXCEPT !.at = IF rb THEN "dispatch" ELSE "post"]
             to == IF rb THEN "retagging" ELSE "triggering"
  <2>1. tasks' = (tasks \ {t}) \cup {n}
    BY <1>2 DEF Begin, Go
  <2>2. n.run = r /\ n.role = t.role /\ n.at = IF rb THEN "dispatch" ELSE "post"
    BY <1>f DEF Task
  <2>3. row[r].state = "queued" /\ row[r] \in Row /\ row[r] # NoRow /\ t.seen.kind = row[r].kind
    BY <1>f, <1>2, TaskFacts DEF Won, CanMove
  <2>4. row'[r].state = to /\ row'[r] # NoRow /\ row'[r].kind = row[r].kind
    <3> DEFINE x == [row[r] EXCEPT !.state = to, !.guard = to \notin Ended]
    <3>1. row' = [row EXCEPT ![r] = x]
      BY <2>3 DEF Begin, Moved
    <3>2. row'[r] = x
      BY <1>f, <3>1, Facts
    <3>3. x.state = to /\ x.kind = row[r].kind
      BY <2>3 DEF Row
    <3>4. row'[r] # NoRow
      BY <3>1, <1>f, <2>3, <3>2 DEF Inductive, TaskShape, GoodTask, Tagging, RowShape, Begin, Runs
    <3> QED BY <3>2, <3>3, <3>4
  <2>5. job'[r].st = "none"
    BY <1>f, <1>j, <2>3 DEF Tagging, RunsTag, RunTag, Unstarted
  <2>6. TaskTag(n)'
    <3>1. CASE rb
      BY <2>2, <2>4, <2>5, <3>1 DEF TaskTag, Unstarted, Seen
    <3>2. CASE ~rb
      BY <2>2, <2>3, <2>4, <3>2 DEF TaskTag, Seen, First, Rollback
    <3> QED BY <3>1, <3>2
  <2>7. \A u \in tasks : u.at = "dispatch" => u.run # r
    BY <2>3 DEF Tagging, TasksTag, TaskTag, Unstarted
  <2> HIDE DEF n
  <2>8. OneDispatch'
    BY <2>1, <2>2, <2>7 DEF Tagging, OneDispatch
  <2>9. TasksTag'
    BY <1>o, <2>1, <2>6 DEF TasksTag
  <2> QED BY <1>f, <1>o, <2>8, <2>9 DEF Tagging, RunsTag
<1> QED BY <1>1, <1>2

\* Dispatch: the workflow of a run whose only dispatcher has not asked before.
LEMMA DispatchTags ==
    ASSUME Tagging, [Next]_vars, NEW t \in tasks, Dispatch(t)
    PROVE  Tagging'
<1> DEFINE r == t.run
<1>f. /\ Inductive' /\ LastHolds' /\ t \in Task /\ r \in Runs /\ job \in [Runs -> Job]
      /\ \A u \in tasks : u.run \in Runs
  BY TagFacts
<1>1. \A s \in Runs : s # r => job'[s] = job[s]
  BY <1>f DEF Dispatch
<1>2. /\ job[r].st = "none" /\ ~Unstarted(r)
      /\ \A u \in tasks : u # t /\ u.at = "dispatch" => u.run # r
  BY DEF Dispatch, Tagging, TasksTag, TaskTag, OneDispatch
<1>3. PICK at \in {"dispatched", "undispatched"} : Go(t, at)
  BY DEF Dispatch
<1> DEFINE n == [t EXCEPT !.at = at]
<1>4. n.at \in {"dispatched", "undispatched"} /\ tasks' = (tasks \ {t}) \cup {n}
  BY <1>3, <1>f DEF Go, Task
<1> HIDE DEF n
<1>5. TaskTag(n)'
  BY <1>4 DEF TaskTag, Seen
<1>6. ASSUME NEW u \in tasks \ {t} PROVE TaskTag(u)'
  <2>1. job[u.run].st = "ok" => job'[u.run].st = "ok"
    BY <1>f, <1>1, <1>2
  <2>2. u.at = "dispatch" => job'[u.run].st = job[u.run].st
    BY <1>f, <1>1, <1>2
  <2> QED BY <2>1, <2>2, OldTag
<1>7. ASSUME NEW s \in Runs PROVE RunTag(s)'
  <2>1. posted'[s] = posted[s] /\ (Unstarted(s) => job'[s].st = job[s].st)
          /\ (job[s].st = "ok" => job'[s].st = "ok")
    BY <1>1, <1>2 DEF Dispatch
  <2> QED BY <2>1, OldRun
<1>8. OneDispatch'
  BY <1>4 DEF Tagging, OneDispatch
<1> QED BY <1>f, <1>4, <1>5, <1>6, <1>7, <1>8 DEF Tagging, TasksTag, RunsTag

\* Post: what entitles the task entitles the run.
LEMMA PostTags ==
    ASSUME Tagging, [Next]_vars, NEW t \in tasks, Post(t)
    PROVE  Tagging'
<1>f. /\ Inductive' /\ LastHolds' /\ t \in Task /\ t.run \in Runs /\ posted \in [Runs -> Nat]
      /\ \A u \in tasks : u.run \in Runs
  BY TagFacts
<1>1. job' = job /\ row' = row /\ t.at = "post"
  BY DEF Post
<1>2. PICK at \in {"waiting", "refused"} : Go(t, at)
  BY DEF Post
<1> DEFINE n == [t EXCEPT !.at = at]
<1>3. n.at \in {"waiting", "refused"} /\ tasks' = (tasks \ {t}) \cup {n}
  BY <1>2, <1>f DEF Go, Task
<1> HIDE DEF n
<1>4. TaskTag(n)'
  BY <1>3 DEF TaskTag, Seen
<1>5. \A u \in tasks : TaskTag(u)'
  BY <1>f, <1>1, OldTag
<1>6. ASSUME NEW s \in Runs PROVE RunTag(s)'
  <2>1. CASE s = t.run
    <3>1. TaskTag(t) /\ RunTag(s)
      BY <1>f, <2>1 DEF Tagging, TasksTag, RunsTag
    <3>2. /\ First(s)' <=> First(s)
          /\ Unstarted(s)' <=> Unstarted(s)
      BY <1>1 DEF First, Rollback, Unstarted
    <3> QED BY <1>1, <2>1, <3>1, <3>2 DEF TaskTag, RunTag
  <2>2. CASE s # t.run
    BY <1>f, <1>1, <2>2, OldRun DEF Post
  <2> QED BY <2>1, <2>2
<1>7. OneDispatch'
  BY <1>3 DEF Tagging, OneDispatch
<1> QED BY <1>f, <1>3, <1>4, <1>5, <1>6, <1>7 DEF Tagging, TasksTag, RunsTag

\* PollJob: the workflow found on behalf of the first rollback, while it holds
\* the guard, is its own.
LEMMA PollTags ==
    ASSUME Tagging, [Next]_vars, NEW t \in tasks, PollJob(t)
    PROVE  Tagging'
<1> DEFINE r == t.run
<1>f. /\ TypeOK /\ RowShape /\ LastHolds /\ Inductive' /\ LastHolds' /\ t \in Task /\ r \in Runs
      /\ row[r] # NoRow
      /\ \A u \in tasks : u.run \in Runs
  BY TagFacts
<1>j. job' = job /\ posted' = posted /\ row' = row
  BY DEF PollJob, worldVars
<1>o. (\A u \in tasks : TaskTag(u)') /\ (\A s \in Runs : RunTag(s)')
  BY <1>f, <1>j, OldTag, OldRun
<1>1. CASE Finish(t)
  BY <1>f, <1>o, <1>1 DEF Finish, Tagging, TasksTag, RunsTag, OneDispatch
<1>2. CASE \E s \in Candidates(t) : Verdict(s) # "waiting" /\ Go(t, Verdict(s))
  <2>1. PICK s \in Candidates(t) : Verdict(s) # "waiting" /\ Go(t, Verdict(s))
    BY <1>2
  <2>2. PICK n : n.run = r /\ n.at = Verdict(s) /\ tasks' = (tasks \ {t}) \cup {n}
    BY <1>f, <2>1 DEF Go, Task
  <2>3. s \in Runs /\ job[s].st # "none"
    BY <2>1 DEF Candidates
  <2>4. (n.at = "retagged" /\ job[s].st = "ok") \/ n.at = "jobFailed"
    BY <2>1, <2>2 DEF Verdict
  <2>5. ~Unstarted(r)
    BY DEF PollJob, Tagging, TasksTag, TaskTag
  <2>6. ASSUME First(r), row[r].state = "retagging", n.at = "retagged"
        PROVE  job[r].st = "ok"
    <3>1. Rollback(s) /\ s <= last
      BY <1>f, <2>3 DEF RowShape, Rollback
    <3>2. r = last
      BY <1>f, <2>6, Facts, StatesDistinct DEF LastHolds, Held
    <3>3. ~(s < r)
      BY <2>3, <2>6, <3>1 DEF First
    <3>4. s = r
      BY <1>f, <2>3, <3>1, <3>2, <3>3, Facts DEF Runs
    <3> QED BY <2>4, <2>6, <3>4
  <2>7. First(r)' => First(r)
    BY <1>f, TagFacts
  <2>8. Unstarted(r)' <=> Unstarted(r)
    BY <1>j DEF Unstarted
  <2>9. TaskTag(n)'
    BY <1>j, <2>2, <2>4, <2>5, <2>6, <2>7, <2>8 DEF TaskTag, Seen
  <2>10. OneDispatch'
    BY <2>2, <2>4 DEF Tagging, OneDispatch
  <2> QED BY <1>f, <1>o, <2>2, <2>9, <2>10 DEF Tagging, TasksTag, RunsTag
<1> QED BY <1>1, <1>2 DEF PollJob

\* TriggerRetagged: the pass that found the workflow done asks Watchtower, if the
\* run is still waiting for it.
LEMMA TriggerTags ==
    ASSUME Tagging, [Next]_vars, NEW t \in tasks, TriggerRetagged(t)
    PROVE  Tagging'
<1> DEFINE r == t.run
<1>f. /\ Inductive' /\ LastHolds' /\ t \in Task /\ r \in Runs
      /\ (First(r)' => First(r))
      /\ \A u \in tasks : u.run \in Runs
  BY TagFacts
<1>j. job' = job /\ posted' = posted /\ t.at = "retagged"
  BY DEF TriggerRetagged, worldVars
<1>o. (\A u \in tasks : TaskTag(u)') /\ (\A s \in Runs : RunTag(s)')
  BY <1>f, <1>j, OldTag, OldRun
<1>1. CASE ~CanMove(r, "retagging")
  <2>1. tasks' = tasks \ {t}
    BY <1>1 DEF TriggerRetagged, Finish
  <2> QED BY <1>f, <1>o, <2>1 DEF Tagging, TasksTag, RunsTag, OneDispatch
<1>2. CASE CanMove(r, "retagging")
  <2> DEFINE n == [t EXCEPT !.at = "post"]
  <2>1. n.run = r /\ n.at = "post" /\ tasks' = (tasks \ {t}) \cup {n}
    BY <1>f, <1>2 DEF TriggerRetagged, Go, Task
  <2> HIDE DEF n
  <2>2. First(r) => job[r].st = "ok"
    BY <1>j, <1>2 DEF CanMove, Tagging, TasksTag, TaskTag
  <2>3. TaskTag(n)'
    BY <1>f, <1>j, <2>1, <2>2 DEF TaskTag, Seen
  <2>4. OneDispatch'
    BY <2>1 DEF Tagging, OneDispatch
  <2> QED BY <1>f, <1>o, <2>1, <2>3, <2>4 DEF Tagging, TasksTag, RunsTag
<1> QED BY <1>1, <1>2

\* Watch: a pass reads a run that holds the guard.
LEMMA WatchTags ==
    ASSUME Tagging, [Next]_vars, NEW b \in Boxes, Watch(b)
    PROVE  Tagging'
<1>f. /\ TypeOK /\ Inductive' /\ LastHolds'
      /\ \A u \in tasks : u.run \in Runs
  BY TagFacts
<1>j. job' = job /\ posted' = posted /\ row' = row
  BY DEF Watch, worldVars
<1>o. (\A u \in tasks : TaskTag(u)') /\ (\A s \in Runs : RunTag(s)')
  BY <1>f, <1>j, OldTag, OldRun
<1>1. PICK r \in Runs :
        /\ Held(r)
        /\ tasks' = tasks \cup
             {[box |-> b, run |-> r, role |-> "watchdog", at |-> "seen", seen |-> row[r]]}
  BY DEF Watch
<1>2. PICK n : n.run = r /\ n.at = "seen" /\ n.seen = row[r] /\ tasks' = tasks \cup {n}
  BY <1>1
<1>3. TaskTag(n)'
  BY <1>1, <1>2, <1>j DEF TaskTag, Seen, Unstarted, Held
<1>4. OneDispatch'
  BY <1>2 DEF Tagging, OneDispatch
<1> QED BY <1>f, <1>o, <1>2, <1>3, <1>4 DEF Tagging, TasksTag, RunsTag

LEMMA TaskStepTags ==
    ASSUME Tagging, [Next]_vars, NEW t \in tasks, TaskStep(t)
    PROVE  Tagging'
<1>1. CASE Cancel(t) \/ RecordDispatch(t) \/ FailDispatch(t) \/ RecordAccepted(t)
            \/ RecordRefused(t) \/ TimeOut(t) \/ Adopt(t) \/ FailJob(t)
            \/ Arrive(t) \/ RecordProbe(t) \/ TooSoon(t)
  <2>1. job' = job /\ posted' = posted /\ Finish(t)
    BY <1>1 DEF Cancel, RecordDispatch, FailDispatch, RecordAccepted, RecordRefused,
                TimeOut, Adopt, FailJob, Arrive, RecordProbe, TooSoon, MoveAndFinish, worldVars
  <2>2. Plain
    BY <2>1 DEF Plain, Finish
  <2> QED BY <2>2, PlainTags
<1>2. CASE Answer(t) \/ Probe(t)
  <2>1. PICK at \in {"accepted", "refused", "ready", "unready"} : Go(t, at)
    BY <1>2 DEF Answer, Probe
  <2> DEFINE n == [t EXCEPT !.at = at]
  <2>2. n.at \in {"accepted", "refused", "ready", "unready"} /\ tasks' = (tasks \ {t}) \cup {n}
    BY <2>1, TagFacts DEF Go, Task
  <2> HIDE DEF n
  <2>3. Plain
    BY <1>2, <2>2 DEF Answer, Probe, Plain, Seen, worldVars
  <2> QED BY <2>3, PlainTags
<1> QED
  BY <1>1, <1>2, BeginTags, DispatchTags, PostTags, PollTags, TriggerTags DEF TaskStep

LEMMA NextTagging == Tagging /\ [Next]_vars => Tagging'
<1> SUFFICES ASSUME Tagging, [Next]_vars PROVE Tagging'
  OBVIOUS
<1>p. Plain => Tagging'
  BY PlainTags
<1>u. job' = job /\ posted' = posted /\ tasks' \subseteq tasks => Plain
  BY DEF Plain
<1>1. CASE Admin
  <2>1. PICK n : n.at \in {"begin", "seen"} /\ n.role \in {"handler", "cancel"}
                   /\ tasks' = tasks \cup {n}
    <3>1. CASE \E b \in Boxes, k \in Kinds, v \in Goals : Request(b, k, v)
      <4>1. PICK b \in Boxes, k \in Kinds, v \in Goals : Request(b, k, v)
        BY <3>1
      <4> DEFINE x == [kind |-> k, state |-> "queued", guard |-> TRUE, from |-> box[b].img,
                       to |-> v, due |-> FALSE, sent |-> FALSE, passes |-> 0, rested |-> TRUE]
      <4>2. tasks' = tasks \cup
              {[box |-> b, run |-> last + 1, role |-> "handler", at |-> "begin", seen |-> x]}
        BY <4>1 DEF Request
      <4> HIDE DEF x
      <4> QED BY <4>2
    <3>2. CASE \E b \in Boxes, r \in Runs : ReadToCancel(b, r)
      BY <3>2 DEF ReadToCancel
    <3> QED BY <1>1, <3>1, <3>2 DEF Admin
  <2>2. job' = job /\ posted' = posted
    BY <1>1 DEF Admin, Request, ReadToCancel, worldVars
  <2> QED BY <1>p, <2>1, <2>2 DEF Plain, Seen
<1>2. CASE \E b \in Boxes : Watch(b)
  BY <1>2, WatchTags
<1>3. CASE \E t \in tasks : TaskStep(t)
  BY <1>3, TaskStepTags
<1>4. CASE Deployment
  BY <1>4, <1>p, <1>u DEF Deployment, Restart, Recreate, StopOld, PullDone, Kill
<1>5. CASE World
  <2>1. CASE (\E b \in Boxes : Crash(b)) \/ (\E t \in tasks : DbError(t))
               \/ (\E v \in Versions : Publish(v))
    BY <2>1, <1>p, <1>u DEF Crash, DbError, Publish, Kill, Finish
  <2>2. CASE \E r \in Runs : JobStep(r) \/ MinutePasses(r)
    <3>1. PICK r \in Runs : JobStep(r) \/ MinutePasses(r)
      BY <2>2
    <3>2. job \in [Runs -> Job]
      BY TagFacts
    <3>3. \A s \in Runs : (job[s].st = "ok" => job'[s].st = "ok")
                            /\ (job[s].st = "none" => job'[s].st = "none")
      BY <3>1, <3>2 DEF JobStep, MinutePasses, Job
    <3>4. posted' = posted /\ tasks' = tasks
      BY <3>1 DEF JobStep, MinutePasses
    <3> QED BY <1>p, <3>3, <3>4 DEF Plain
  <2> QED BY <1>5, <2>1, <2>2 DEF World
<1>6. CASE Clock
  BY <1>6, <1>p, <1>u DEF Clock, DeadlinePasses, SpacingPasses, worldVars
<1>7. CASE UNCHANGED vars
  BY <1>7, <1>p, <1>u DEF vars, worldVars
<1> QED BY <1>1, <1>2, <1>3, <1>4, <1>5, <1>6, <1>7 DEF Next, Server

LEMMA InitTagging == Init => Tagging
<1> SUFFICES ASSUME Init PROVE Tagging
  OBVIOUS
<1>1. \A r \in Runs : row[r] = NoRow /\ job[r].st = "none" /\ posted[r] = 0
  BY DEF Init, NoJob
<1>2. LastHolds /\ RunsTag
  BY <1>1 DEF LastHolds, Held, RunsTag, RunTag, First, Rollback
<1>3. TasksTag /\ OneDispatch
  BY DEF Init, TasksTag, OneDispatch
<1> QED BY <1>2, <1>3, InitInductive DEF Tagging

\* Watchtower is asked to pull the first rollback only after the workflow that run
\* dispatched has republished the older version: not after a later run's, found by
\* a pass that outlived the run, nor for a run cancelled meanwhile
\* (pollRollbackWorkflow, startRollback and the watchdog's 'retagging' step).
THEOREM RetaggedFirst == Spec => []RetagFirst
<1>1. Tagging => RetagFirst
  <2>1. SUFFICES ASSUME Tagging, NEW r \in Runs, posted[r] > 0, row[r].kind = "rollback",
                        job[r].st # "ok"
                 PROVE  \E q \in 1..(r - 1) : row[q].kind = "rollback"
    BY DEF RetagFirst
  <2>2. row[r] # NoRow
    BY <2>1 DEF Tagging, Inductive, PostShape, Fresh
  <2>3. ~First(r)
    BY <2>1 DEF Tagging, RunsTag, RunTag
  <2>4. PICK q \in Runs : q < r /\ Rollback(q)
    BY <2>1, <2>2, <2>3 DEF First, Rollback
  <2>5. q \in 1..(r - 1)
    BY <2>4, ConstantsAssumption DEF Runs
  <2> QED BY <2>4, <2>5 DEF Rollback
<1> QED BY <1>1, InitTagging, NextTagging, PTL DEF Spec
==============================================================================
