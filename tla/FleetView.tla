------------------------------ MODULE FleetView ------------------------------
(***************************************************************************)
(* A browser tab's view of the printers.  PrintersContext polls the list   *)
(* with the ETag of the last answer, polls may overlap, and an unchanged   *)
(* list is answered 304 and changes nothing.  PrinterStatusNotifier        *)
(* compares each new list with the one before and tells what happened; a   *)
(* job that stopped because its printer went offline is told only once the *)
(* printer has been offline for a while.                                   *)
(***************************************************************************)
EXTENDS Naturals

CONSTANTS
    Printers, Jobs, NoJob,
    Polls,          \* answers that may be on their way at a time
    NoInfo,         \* nothing awaits confirmation
    NoList,         \* before the first answer
    Scenarios       \* the jobs, whether anything else in the list changes, and how many
                    \* pauses, outages and failing polls there may be

ASSUME ConstantsAssumption ==
    /\ NoJob \notin Jobs
    /\ Scenarios \subseteq [jobs : SUBSET Jobs, warm : BOOLEAN, pauses : Nat, outages : Nat, faults : Nat]

VARIABLES
    fleet,      \* what the server would answer
    held,       \* the job each printer has, offline or not
    view,       \* printers in PrintersContext
    tag,        \* etagRef: the list the last answer was about
    polls,      \* requests under way
    pending,    \* pendingOfflineRef: by printer the job that stopped, and whether long ago
    budget,     \* what is left of the scenario
    told,       \* history: how often the beginning and the end of a job were told, up to twice
    dropped,    \* history: jobs during which the printer was offline
    crossed     \* history: "list", a list was used that a later answer had overtaken; "tag", an
                \* answer of "unchanged" was used that was asked before another was used

fleetVars == <<fleet, held>>
tabVars == <<view, tag, pending, told>>
vars == <<fleetVars, tabVars, polls, budget, dropped, crossed>>

Row ==
    [status : {"idle", "printing", "paused", "error", "offline"}, job : Jobs \cup {NoJob},
     warm : BOOLEAN]
List == [Printers -> Row]
Free == [step |-> "free"]

ASSUME NoListAssumption == NoList \notin List

Init ==
    /\ budget \in Scenarios
    /\ fleet = [p \in Printers |-> [status |-> "idle", job |-> NoJob, warm |-> FALSE]]
    /\ held = [p \in Printers |-> NoJob]
    /\ view = NoList /\ tag = NoList
    /\ polls = [r \in Polls |-> Free]
    /\ pending = [p \in Printers |-> NoInfo]
    /\ told = [j \in Jobs |-> [begun |-> 0, ended |-> 0]]
    /\ dropped = {} /\ crossed = {}

Spend(kind) == budget[kind] > 0 /\ budget' = [budget EXCEPT ![kind] = @ - 1]

-----------------------------------------------------------------------------
(* The printers, as the poller stores them: offline rows have no job.      *)

Report(p, status, job) ==
    fleet' = [fleet EXCEPT ![p].status = status, ![p].job = job]

Begin(p, j) ==
    /\ fleet[p].status \in {"idle", "error"} /\ held[p] = NoJob
    /\ j \in budget.jobs /\ budget' = [budget EXCEPT !.jobs = @ \ {j}]
    /\ held' = [held EXCEPT ![p] = j]
    /\ Report(p, "printing", j)
    /\ UNCHANGED <<tabVars, polls, dropped, crossed>>

\* Also while offline, unseen.
Finish(p) ==
    /\ held[p] # NoJob
    /\ held' = [held EXCEPT ![p] = NoJob]
    /\ IF fleet[p].status = "offline" THEN UNCHANGED fleet
       ELSE \E status \in {"idle", "error"} : Report(p, status, NoJob)
    /\ UNCHANGED <<tabVars, polls, budget, dropped, crossed>>

Pause(p) ==
    /\ Spend("pauses")
    /\ \/ fleet[p].status = "printing" /\ Report(p, "paused", held[p])
       \/ fleet[p].status = "paused" /\ Report(p, "printing", held[p])
    /\ UNCHANGED <<held, tabVars, polls, dropped, crossed>>

Drop(p) ==
    /\ Spend("outages")
    /\ fleet[p].status # "offline"
    /\ Report(p, "offline", NoJob)
    /\ dropped' = dropped \cup ({held[p]} \ {NoJob})
    /\ UNCHANGED <<held, tabVars, polls, crossed>>

Return(p) ==
    /\ fleet[p].status = "offline"
    /\ Report(p, IF held[p] = NoJob THEN "idle" ELSE "printing", held[p])
    /\ UNCHANGED <<held, tabVars, polls, budget, dropped, crossed>>

\* Anything else in the list, such as a temperature.
Warm(p) ==
    /\ budget.warm
    /\ fleet' = [fleet EXCEPT ![p].warm = ~@]
    /\ UNCHANGED <<held, tabVars, polls, budget, dropped, crossed>>

-----------------------------------------------------------------------------
(* The notifier.                                                           *)

\* Slip: any change of a printing row is a job begun.
BegunAgain(was, is) == IF was = is THEN {} ELSE {is.job} \ {NoJob}

\* What two rows of a printer tell: a job begun, a job ended, or, once confirmed, stopped.
Begun(was, is) == {is.job} \ {NoJob, was.job}
Ended(was, is) == IF is.job = NoJob /\ is.status # "offline" THEN {was.job} \ {NoJob} ELSE {}
Vanished(was, is) == was.status # "offline" /\ is.status = "offline"

\* What awaits confirmation once the new row is compared with the one before.
Noted(p, was, is) ==
    IF Vanished(was, is) /\ pending[p] = NoInfo THEN [job |-> was.job, long |-> FALSE] ELSE pending[p]

\* Slip: every list restarts the wait.
NeverConfirms(info, is) == FALSE
Confirms(info, is) == info # NoInfo /\ is.status = "offline" /\ info.long

Waits(info, is) == info # NoInfo /\ is.status = "offline" /\ ~Confirms(info, is)

Count(n, yes) == IF yes /\ n < 2 THEN n + 1 ELSE n

\* The comparison of a list with the one before, run whenever the list is replaced.
Compare(next) ==
    LET note(p) == Noted(p, view[p], next[p])
        begun == UNION {Begun(view[p], next[p]) : p \in Printers}
        ended == (UNION {Ended(view[p], next[p]) : p \in Printers})
                 \cup {note(p).job : p \in {q \in Printers : Confirms(note(q), next[q])}}
    IN  IF view = NoList THEN UNCHANGED <<pending, told>>
        ELSE /\ pending' = [p \in Printers |-> IF Waits(note(p), next[p]) THEN note(p) ELSE NoInfo]
             /\ told' = [j \in Jobs |-> [begun |-> Count(told[j].begun, j \in begun),
                                         ended |-> Count(told[j].ended, j \in ended)]]

\* Time passes: the printer has been offline for OFFLINE_CONFIRM_MS.
Age(p) ==
    /\ pending[p] # NoInfo /\ ~pending[p].long
    /\ pending' = [pending EXCEPT ![p].long = TRUE]
    /\ UNCHANGED <<fleetVars, view, tag, told, polls, budget, dropped, crossed>>

-----------------------------------------------------------------------------
(* The poll.                                                               *)

\* On an interval, when the tab is shown or back online, and on request: an earlier
\* poll may still be under way.
Ask(r) ==
    /\ polls[r] = Free
    /\ polls' = [polls EXCEPT ![r] = 
         [step |-> "asked", tag |-> tag, changed |-> FALSE, list |-> NoList,
          overlapped |-> FALSE, late |-> FALSE, before |-> {}]]
    /\ UNCHANGED <<fleetVars, tabVars, budget, dropped, crossed>>

Answered == {r \in Polls : polls[r].step = "answered"}

\* Slip: the tag leaves the temperatures out.
MatchesRoughly(t) == t # NoList /\ \A p \in Printers : [t[p] EXCEPT !.warm = fleet[p].warm] = fleet[p]
Matches(t) == t = fleet

Answer(r) ==
    /\ polls[r].step = "asked"
    /\ polls' = [polls EXCEPT ![r] =
         [polls[r] EXCEPT !.step = "answered", !.changed = ~Matches(polls[r].tag), !.list = fleet,
                          !.before = Answered]]
    /\ UNCHANGED <<fleetVars, tabVars, budget, dropped, crossed>>

\* An answer that does not arrive overtakes none.
Fail(r) ==
    /\ polls[r] # Free /\ Spend("faults")
    /\ polls' = [s \in Polls |-> IF s = r \/ polls[s] = Free THEN Free
                                ELSE [polls[s] EXCEPT !.before = @ \ {r}]]
    /\ UNCHANGED <<fleetVars, tabVars, dropped, crossed>>

\* The answers given before this one are late from now on.
Taken(r) ==
    [s \in Polls |->
        IF s = r \/ polls[s] = Free THEN Free
        ELSE [polls[s] EXCEPT !.overlapped = TRUE,
                              !.late = @ \/ s \in polls[r].before, !.before = @ \ {r}]]

TagAfter(r) == IF polls[r].changed THEN polls[r].list ELSE polls[r].tag

Apply(r) ==
    /\ polls[r].step = "answered"
    /\ tag' = TagAfter(r)
    /\ IF polls[r].changed THEN view' = polls[r].list /\ Compare(polls[r].list)
       ELSE UNCHANGED <<view, pending, told>>
    /\ crossed' = crossed \cup (IF polls[r].changed THEN IF polls[r].late THEN {"list"} ELSE {}
                               ELSE IF polls[r].overlapped THEN {"tag"} ELSE {})
    /\ polls' = Taken(r)
    /\ UNCHANGED <<fleetVars, budget, dropped>>

-----------------------------------------------------------------------------
Poll(r) == Ask(r) \/ Answer(r) \/ Apply(r)

Next ==
    \/ \E p \in Printers :
        \/ \E j \in Jobs : Begin(p, j)
        \/ Finish(p) \/ Pause(p) \/ Drop(p) \/ Return(p) \/ Warm(p) \/ Age(p)
    \/ \E r \in Polls : Poll(r) \/ Fail(r)

Spec == Init /\ [][Next]_vars

\* The tab is shown, the server answers, and time passes.
FairSpec ==
    /\ Spec
    /\ \A r \in Polls : WF_vars(Poll(r))
    /\ \A p \in Printers : WF_vars(Age(p))

-----------------------------------------------------------------------------
(* Properties.                                                             *)

\* The tab's state has the shape its types give it.
TypeOK ==
    /\ fleet \in List /\ {view, tag} \subseteq List \cup {NoList}
    /\ \A p \in Printers : fleet[p].job # NoJob => fleet[p].job = held[p]
    /\ \A p \in Printers : pending[p] # NoInfo =>
        pending[p].job \in Jobs \cup {NoJob} /\ view # NoList /\ view[p].status = "offline"
    /\ \A r \in Polls : polls[r].step \in {"free", "asked", "answered"}

\* The tag the next poll sends names the list in view, so that an answer of "unchanged"
\* is true of it (PrintersContext.tsx:47), unless it was asked before another answer was used.
TagIsOfView == tag = view \/ "tag" \in crossed

\* The beginning and the end of a job are told no more than once each, however polls
\* overlap or fail, unless a list was overtaken or the printer was
\* offline during the job.
ToldOnce ==
    \A j \in Jobs : told[j].begun > 1 \/ told[j].ended > 1 => "list" \in crossed \/ j \in dropped

\* Once the printers stop changing, the tab shows what they are, even after an answer was
\* overtaken, unless it left the tag of a list that is not in view.
ViewConverges ==
    <>[][FALSE]_fleet => <>[](view = fleet \/ tag # view)

\* While lists keep coming, a stop that awaits confirmation is told or taken back.
PendingIsResolved ==
    \A p \in Printers : ([]<><<TRUE>>_view) => (pending[p] # NoInfo ~> pending[p] = NoInfo)
=============================================================================
