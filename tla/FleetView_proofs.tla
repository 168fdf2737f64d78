-------------------------- MODULE FleetView_proofs --------------------------
(***************************************************************************)
(* The shape of a tab, and TagIsOfView, for any printers, jobs, polls,     *)
(* outages and failures.  TagIsOfView is not inductive: an answer of       *)
(* "unchanged" leaves the tag its poll was sent with, so it has to be      *)
(* known that this is still the tag of the tab.  ToldOnce rests on the     *)
(* order in which the lists a tab receives were taken (Sure).              *)
(***************************************************************************)
EXTENDS FleetView, TLAPS

Asked == [step : {"asked", "answered"}, tag : List \cup {NoList}, changed : BOOLEAN,
          list : List \cup {NoList}, overlapped : BOOLEAN, late : BOOLEAN, before : SUBSET Polls]
Budget == [jobs : SUBSET Jobs, warm : BOOLEAN, pauses : Nat, outages : Nat, faults : Nat]
Info == [job : Jobs \cup {NoJob}, long : BOOLEAN]

\* The rows are the printers', and the requests are requests.
Rows ==
    /\ fleet \in List /\ held \in [Printers -> Jobs \cup {NoJob}]
    /\ \A p \in Printers :
        /\ fleet[p].status = "offline" => fleet[p].job = NoJob
        /\ fleet[p].job # NoJob => fleet[p].job = held[p]
    /\ budget \in Budget
Requests ==
    /\ polls \in [Polls -> Asked \cup {Free}]
    /\ \A r \in Polls : polls[r].step = "answered" => polls[r].list \in List
Tab ==
    /\ {view, tag} \subseteq List \cup {NoList}
    /\ pending \in [Printers -> Info \cup {NoInfo}]
    /\ \A p \in Printers : pending[p] # NoInfo => view # NoList /\ view[p].status = "offline"

\* A poll that no other answer has overlapped was sent with the tab's tag.
TagsAsked ==
    "tag" \notin crossed =>
        \A r \in Polls : polls[r] # Free /\ ~polls[r].overlapped => polls[r].tag = tag

Inv == Rows /\ Requests /\ Tab /\ TagsAsked /\ TagIsOfView

-----------------------------------------------------------------------------
LEMMA Begins == Init => Inv
<1> SUFFICES ASSUME Init PROVE Inv
    OBVIOUS
<1>1. Rows
    BY ConstantsAssumption DEF Init, Rows, Budget, List, Row
<1>2. Requests
    BY DEF Init, Requests, Free
<1>3. Tab
    BY DEF Init, Tab
<1>4. TagsAsked /\ TagIsOfView
    BY DEF Init, TagsAsked, TagIsOfView
<1> QED
    BY <1>1, <1>2, <1>3, <1>4 DEF Inv

-----------------------------------------------------------------------------
\* A printer's step keeps the tab as it is.
LEMMA Reported ==
    ASSUME Rows, NEW p \in Printers, NEW status \in {"idle", "printing", "paused", "error", "offline"},
           NEW job \in Jobs \cup {NoJob}, Report(p, status, job), status = "offline" => job = NoJob,
           held' \in [Printers -> Jobs \cup {NoJob}], job # NoJob => job = held'[p],
           \A q \in Printers \ {p} : held'[q] = held[q], budget' \in Budget
    PROVE  Rows'
<1>1. fleet' \in List /\ fleet'[p].status = status /\ fleet'[p].job = job
    BY DEF Report, Rows, List, Row
<1>2. \A q \in Printers \ {p} : fleet'[q] = fleet[q]
    BY DEF Report, Rows, List
<1> QED
    BY <1>1, <1>2 DEF Rows

LEMMA PrintersMove ==
    ASSUME Inv, NEW p \in Printers,
           \/ \E j \in Jobs : Begin(p, j)
           \/ Finish(p) \/ Pause(p) \/ Drop(p) \/ Return(p) \/ Warm(p)
    PROVE  Rows'
<1>2. Rows /\ held[p] \in Jobs \cup {NoJob} /\ budget \in Budget
    BY DEF Inv, Rows
<1>3. ASSUME NEW kind \in {"pauses", "outages"}, Spend(kind) PROVE budget' \in Budget
    BY <1>2, <1>3 DEF Spend, Budget
<1>4. CASE \E j \in Jobs : Begin(p, j)
    <2>1. PICK j \in Jobs : Begin(p, j)
        BY <1>4
    <2>2. budget' \in Budget
        BY <1>2, <2>1 DEF Begin, Budget
    <2>3. held' = [held EXCEPT ![p] = j] /\ Report(p, "printing", j)
        BY <2>1 DEF Begin
    <2> QED
        BY <1>2, <2>2, <2>3, Reported DEF Rows
<1>5. CASE Finish(p)
    <2>1. held' = [held EXCEPT ![p] = NoJob] /\ budget' = budget
        BY <1>5 DEF Finish
    <2>2. held' \in [Printers -> Jobs \cup {NoJob}] /\ \A q \in Printers \ {p} : held'[q] = held[q]
        BY <1>2, <2>1 DEF Rows
    <2>3. CASE fleet[p].status = "offline"
        BY <1>2, <1>5, <2>1, <2>2, <2>3 DEF Finish, Rows
    <2>4. CASE fleet[p].status # "offline"
        <3>1. PICK status \in {"idle", "error"} : Report(p, status, NoJob)
            BY <1>5, <2>4 DEF Finish
        <3> QED
            BY <1>2, <2>1, <2>2, <3>1, Reported
    <2> QED
        BY <2>3, <2>4
<1>6. CASE Pause(p)
    <2>1. held' = held /\ \E status \in {"paused", "printing"} : Report(p, status, held[p])
        BY <1>6 DEF Pause
    <2>2. budget' \in Budget
        BY <1>3, <1>6 DEF Pause
    <2> QED
        BY <1>2, <2>1, <2>2, Reported DEF Rows
<1>7. CASE Drop(p)
    <2>1. held' = held /\ Report(p, "offline", NoJob)
        BY <1>7 DEF Drop
    <2>2. budget' \in Budget
        BY <1>3, <1>7 DEF Drop
    <2> QED
        BY <1>2, <2>1, <2>2, Reported DEF Rows
<1>8. CASE Return(p)
    <2>1. /\ UNCHANGED <<held, budget>>
          /\ \E status \in {"idle", "printing"} : Report(p, status, held[p])
        BY <1>8 DEF Return
    <2> QED
        BY <1>2, <2>1, Reported DEF Rows
<1>9. CASE Warm(p)
    <2>1. fleet' = [fleet EXCEPT ![p].warm = ~@] /\ UNCHANGED <<held, budget>>
        BY <1>9 DEF Warm
    <2>2. fleet' \in List
        BY <1>2, <2>1 DEF Rows, List, Row
    <2>3. \A q \in Printers : fleet'[q].status = fleet[q].status /\ fleet'[q].job = fleet[q].job
        BY <1>2, <2>1 DEF Rows, List, Row
    <2> QED
        BY <1>2, <2>1, <2>2, <2>3 DEF Rows
<1> QED
    BY <1>4, <1>5, <1>6, <1>7, <1>8, <1>9

LEMMA Printing ==
    ASSUME Inv, NEW p \in Printers,
           \/ \E j \in Jobs : Begin(p, j)
           \/ Finish(p) \/ Pause(p) \/ Drop(p) \/ Return(p) \/ Warm(p)
    PROVE  Inv'
<1>1. UNCHANGED <<tabVars, polls, crossed>>
    BY DEF Begin, Finish, Pause, Drop, Return, Warm
<1> QED
    BY <1>1, PrintersMove DEF Inv, Requests, Tab, TagsAsked, TagIsOfView, tabVars

-----------------------------------------------------------------------------
LEMMA Waited ==
    ASSUME Inv, NEW p \in Printers, Age(p)
    PROVE  Inv'
<1>1. UNCHANGED <<fleet, held, view, tag, polls, budget, crossed>>
    BY DEF Age, fleetVars
<1>2. pending[p] \in Info /\ pending' = [pending EXCEPT ![p].long = TRUE]
    BY DEF Age, Inv, Tab
<1>3. /\ pending' \in [Printers -> Info \cup {NoInfo}]
      /\ \A q \in Printers : pending'[q] # NoInfo => pending[q] # NoInfo
    <2>1. [pending[p] EXCEPT !.long = TRUE] \in Info
        BY <1>2 DEF Info
    <2> QED
        BY <1>2, <2>1 DEF Age, Inv, Tab
<1> QED
    BY <1>1, <1>3 DEF Inv, Rows, Requests, Tab, TagsAsked, TagIsOfView

LEMMA Polled ==
    ASSUME Inv, NEW r \in Polls, Ask(r) \/ Answer(r) \/ Fail(r)
    PROVE  Inv'
<1>1. UNCHANGED <<fleet, held, view, tag, pending, crossed>>
    BY DEF Ask, Answer, Fail, fleetVars, tabVars
<1>2. budget' \in Budget
    BY DEF Ask, Answer, Fail, Spend, Inv, Rows, Budget
<1>3. Rows' /\ Tab' /\ TagIsOfView'
    BY <1>1, <1>2 DEF Inv, Rows, Tab, TagIsOfView
<1>4. CASE Ask(r)
    <2> DEFINE new == [step |-> "asked", tag |-> tag, changed |-> FALSE, list |-> NoList,
                       overlapped |-> FALSE, late |-> FALSE, before |-> {}]
    <2>1. new \in Asked /\ polls' = [polls EXCEPT ![r] = new] /\ new.tag = tag /\ new.step = "asked"
        BY <1>4 DEF Ask, Asked, Inv, Tab
    <2> HIDE DEF new
    <2> QED
        BY <1>1, <1>3, <2>1 DEF Inv, Requests, TagsAsked
<1>5. CASE Answer(r)
    <2>1. polls[r] \in Asked
        BY <1>5 DEF Answer, Inv, Requests, Free
    <2>2. Answered \subseteq Polls /\ Matches(polls[r].tag) \in BOOLEAN /\ fleet \in List
        BY DEF Answered, Matches, Inv, Rows
    <2> DEFINE new == [polls[r] EXCEPT !.step = "answered", !.changed = ~Matches(polls[r].tag), !.list = fleet,
                                       !.before = Answered]
    <2>3. /\ new \in Asked /\ polls' = [polls EXCEPT ![r] = new]
          /\ new.tag = polls[r].tag /\ new.overlapped = polls[r].overlapped /\ new.list = fleet
        BY <1>5, <2>1, <2>2 DEF Answer, Asked
    <2>4. polls[r] # Free
        BY <1>5 DEF Answer, Free
    <2> HIDE DEF new
    <2> QED
        BY <1>1, <1>3, <2>2, <2>3, <2>4 DEF Inv, Requests, TagsAsked
<1>6. CASE Fail(r)
    <2>1. ASSUME NEW s \in Polls PROVE
              \/ polls'[s] = Free
              \/ /\ polls[s] # Free /\ polls'[s] \in Asked /\ polls'[s].tag = polls[s].tag
                 /\ polls'[s].overlapped = polls[s].overlapped
                 /\ polls'[s].step = polls[s].step /\ polls'[s].list = polls[s].list
        <3>1. polls'[s] = IF s = r \/ polls[s] = Free THEN Free ELSE [polls[s] EXCEPT !.before = @ \ {r}]
            BY <1>6 DEF Fail
        <3>2. polls[s] \in Asked \cup {Free}
            BY DEF Inv, Requests
        <3> QED
            BY <3>1, <3>2 DEF Asked
    <2>2. Requests'
        <3>1. polls' = [s \in Polls |-> polls'[s]]
            BY <1>6 DEF Fail
        <3>2. Free.step # "answered"
            BY DEF Free
        <3> QED
            BY <2>1, <3>1, <3>2 DEF Inv, Requests
    <2> QED
        BY <1>1, <1>3, <2>1, <2>2 DEF Inv, TagsAsked
<1> QED
    BY <1>4, <1>5, <1>6

-----------------------------------------------------------------------------
\* A list that is compared leaves pending only printers that are offline in it.
LEMMA Compared ==
    ASSUME Inv, NEW next \in List, Compare(next), view' = next
    PROVE  /\ pending' \in [Printers -> Info \cup {NoInfo}]
           /\ \A p \in Printers : pending'[p] # NoInfo => view' # NoList /\ view'[p].status = "offline"
<1>1. view' # NoList
    BY NoListAssumption
<1>2. CASE view = NoList
    <2>1. pending' = pending
        BY <1>2 DEF Compare
    <2> QED
        BY <1>2, <2>1 DEF Inv, Tab
<1>3. CASE view # NoList
    <2> DEFINE note(p) == Noted(p, view[p], next[p])
    <2>1. pending' = [p \in Printers |-> IF Waits(note(p), next[p]) THEN note(p) ELSE NoInfo]
        BY <1>3 DEF Compare
    <2>2. ASSUME NEW p \in Printers PROVE note(p) \in Info \cup {NoInfo}
        <3>1. view[p].job \in Jobs \cup {NoJob}
            BY <1>3 DEF Inv, Tab, List, Row
        <3> QED
            BY <3>1 DEF Noted, Info, Inv, Tab
    <2>3. \A p \in Printers : Waits(note(p), next[p]) => next[p].status = "offline"
        BY DEF Waits
    <2> HIDE DEF note
    <2> QED
        BY <1>1, <2>1, <2>2, <2>3
<1> QED
    BY <1>2, <1>3

LEMMA Applied ==
    ASSUME Inv, NEW r \in Polls, Apply(r)
    PROVE  Inv'
<1>1. /\ UNCHANGED <<fleet, held, budget>> /\ polls[r].step = "answered" /\ polls[r] \in Asked
      /\ polls[r].list \in List
    BY DEF Apply, fleetVars, Inv, Requests, Free
<1>2. Rows'
    BY <1>1 DEF Inv, Rows
<1>3. ASSUME NEW s \in Polls PROVE
          \/ polls'[s] = Free
          \/ polls'[s] \in Asked /\ polls'[s].overlapped /\ polls'[s].step = polls[s].step /\ polls'[s].list = polls[s].list
    <2>1. CASE s = r \/ polls[s] = Free
        BY <2>1 DEF Apply, Taken
    <2>2. CASE ~(s = r \/ polls[s] = Free)
        <3> DEFINE new == [polls[s] EXCEPT !.overlapped = TRUE,
                              !.late = @ \/ s \in polls[r].before, !.before = @ \ {r}]
        <3>1. polls'[s] = new /\ polls[s] \in Asked
            BY <2>2 DEF Apply, Taken, Inv, Requests
        <3>2. new \in Asked /\ new.overlapped /\ new.step = polls[s].step /\ new.list = polls[s].list
            BY <3>1 DEF Asked
        <3> QED
            BY <3>1, <3>2
    <2> QED
        BY <2>1, <2>2
<1>4. Requests'
    <2>1. polls' = [s \in Polls |-> polls'[s]]
        BY DEF Apply, Taken
    <2>2. Free.step # "answered"
        BY DEF Free
    <2> QED
        BY <1>3, <2>1, <2>2 DEF Inv, Requests
<1>5. TagsAsked'
    BY <1>3 DEF TagsAsked
<1>6. tag' \in List \cup {NoList} /\ (polls[r].changed => tag' = polls[r].list)
    BY <1>1 DEF Apply, TagAfter, Asked
<1>7. CASE polls[r].changed
    <2>1. view' = polls[r].list /\ Compare(polls[r].list)
        BY <1>7 DEF Apply
    <2>2. Tab'
        BY <1>1, <1>6, <2>1, Compared DEF Tab
    <2> QED
        BY <1>2, <1>4, <1>5, <1>6, <1>7, <2>1, <2>2 DEF Inv, TagIsOfView
<1>8. CASE ~polls[r].changed
    <2>1. UNCHANGED <<view, pending>> /\ tag' = polls[r].tag
        BY <1>8 DEF Apply, TagAfter
    <2>2. "tag" \in crossed' \/ ("tag" \notin crossed /\ ~polls[r].overlapped)
        BY <1>8 DEF Apply
    <2>3. polls[r] # Free
        BY <1>1 DEF Free
    <2>4. TagIsOfView'
        BY <2>1, <2>2, <2>3 DEF Inv, TagsAsked, TagIsOfView
    <2>5. Tab'
        BY <1>6, <2>1 DEF Inv, Tab
    <2> QED
        BY <1>2, <1>4, <1>5, <2>4, <2>5 DEF Inv
<1> QED
    BY <1>7, <1>8

-----------------------------------------------------------------------------
LEMMA Step == Inv /\ [Next]_vars => Inv'
<1> SUFFICES ASSUME Inv, [Next]_vars PROVE Inv'
    OBVIOUS
<1>1. CASE UNCHANGED vars
    BY <1>1 DEF vars, fleetVars, tabVars, Inv, Rows, Requests, Tab, TagsAsked, TagIsOfView
<1> QED
    BY <1>1, Printing, Waited, Polled, Applied DEF Next, Poll

LEMMA Always == Spec => []Inv
    BY Begins, Step, PTL DEF Spec

\* The tab keeps its shape: a row's job is the printer's, and only a printer that is offline in
\* the list in view awaits the confirmation of a stop.
THEOREM TypeCorrect == Spec => []TypeOK
<1>1. Inv => TypeOK
    BY DEF Inv, Rows, Requests, Tab, TypeOK, Info, Asked, Free
<1> QED
    BY <1>1, Always, PTL

\* However polls overlap and fail, the tag of the next poll names the list in view, unless an
\* answer of "unchanged" was used that was asked before another was used.
THEOREM TagFollowsView == Spec => []TagIsOfView
<1>1. Inv => TagIsOfView
    BY DEF Inv
<1> QED
    BY <1>1, Always, PTL

-----------------------------------------------------------------------------
(* What is told once.  The lists a tab receives were taken of the printers *)
(* one after another, and a job that is over stays over: of three lists,   *)
(* the one between two that have a job has it too.                         *)

Live(r) == polls[r].step = "answered" /\ ~polls[r].late

In(l, p, j) == l # NoList /\ l[p].job = j

\* Wherever the job of a printer still shows.
Seen(p, j) ==
    held[p] = j \/ In(view, p, j) \/ \E r \in Answered : In(polls[r].list, p, j)

NoOfflineJob(l) == \A p \in Printers : l[p].status = "offline" => l[p].job = NoJob

\* A printer has the job it shows; one that is offline with a job was dropped during it.
Held ==
    \A p \in Printers :
        /\ fleet[p].status # "offline" => fleet[p].job = held[p]
        /\ fleet[p].status = "offline" => held[p] \in dropped \cup {NoJob}

Offline ==
    /\ view # NoList => NoOfflineJob(view)
    /\ \A r \in Answered : NoOfflineJob(polls[r].list)

\* Of two answers one was given before the other.
Ordered ==
    /\ \A r \in Polls : polls[r] # Free => polls[r].before \subseteq Answered
    /\ \A r, s \in Answered : r # s => r \in polls[s].before \/ s \in polls[r].before

\* A job is printed once, on one printer.
OnePrinter ==
    \A j \in Jobs, p, q \in Printers : Seen(p, j) /\ Seen(q, j) => p = q

Stopped(p, j) == pending[p] # NoInfo /\ pending[p].job = j

Unbegun ==
    \A j \in budget.jobs :
        /\ told[j].begun = 0 /\ told[j].ended = 0
        /\ \A p \in Printers : ~Seen(p, j) /\ ~Stopped(p, j)

\* A list given between two others that have a job has it as well.
Between(j) ==
    \A p \in Printers, r, s \in Answered :
        r \in polls[s].before /\ In(polls[r].list, p, j) =>
            /\ In(fleet, p, j) => In(polls[s].list, p, j)
            /\ \A u \in Answered :
                 s \in polls[u].before /\ In(polls[u].list, p, j) => In(polls[s].list, p, j)

\* So has one given since the list in view.
Since(j) ==
    \A p \in Printers, s \in Answered :
        Live(s) /\ In(view, p, j) =>
            /\ In(fleet, p, j) => In(polls[s].list, p, j)
            /\ \A u \in Answered :
                 Live(u) /\ s \in polls[u].before /\ In(polls[u].list, p, j) => In(polls[s].list, p, j)

\* A job whose beginning was told is in view until it is over.
BegunOnce(j) ==
    /\ told[j].begun < 2
    /\ told[j].begun = 1 => \A p \in Printers :
        /\ In(fleet, p, j) => In(view, p, j)
        /\ \A r \in Answered : Live(r) /\ In(polls[r].list, p, j) => In(view, p, j)

Over(j) ==
    /\ j \notin budget.jobs
    /\ \A p \in Printers : /\ ~In(view, p, j) /\ ~In(fleet, p, j)
                           /\ \A r \in Answered : Live(r) => ~In(polls[r].list, p, j)

\* A job whose end was told, or awaits confirmation, is over, and it is not both.
EndedOnce(j) ==
    /\ told[j].ended < 2
    /\ told[j].ended = 1 => Over(j) /\ \A p \in Printers : ~Stopped(p, j)
    /\ \A p \in Printers : Stopped(p, j) => Over(j) /\ \A q \in Printers : Stopped(q, j) => p = q

Sure ==
    /\ told \in [Jobs -> [begun : 0..2, ended : 0..2]]
    /\ view = NoList => \A j \in Jobs : told[j].begun = 0 /\ told[j].ended = 0
    /\ Held /\ Offline /\ Ordered /\ OnePrinter /\ Unbegun
    /\ \A j \in Jobs \ dropped :
         /\ Between(j)
         /\ "list" \notin crossed => Since(j) /\ BegunOnce(j) /\ EndedOnce(j)

LEMMA SureBegins == Init => Sure
<1> SUFFICES ASSUME Init PROVE Sure
    OBVIOUS
<1>1. /\ Answered = {} /\ view = NoList /\ \A p \in Printers : pending[p] = NoInfo /\ held[p] = NoJob
      /\ \A r \in Polls : polls[r] = Free
    BY DEF Init, Answered, Free
<1>2. /\ told \in [Jobs -> [begun : 0..2, ended : 0..2]]
      /\ \A j \in Jobs : told[j].begun = 0 /\ told[j].ended = 0
    BY DEF Init
<1>3. NoJob \notin Jobs /\ budget.jobs \subseteq Jobs
    BY ConstantsAssumption DEF Init
<1>4. Held
    BY DEF Init, Held
<1>5. Offline /\ Ordered
    BY <1>1 DEF Offline, Ordered
<1>6. OnePrinter /\ Unbegun
    BY <1>1, <1>2, <1>3 DEF OnePrinter, Unbegun, Seen, In, Stopped
<1>7. \A j \in Jobs : Between(j) /\ Since(j) /\ BegunOnce(j) /\ EndedOnce(j)
    BY <1>1, <1>2 DEF Between, Since, BegunOnce, EndedOnce, Stopped
<1> QED
    BY <1>2, <1>4, <1>5, <1>6, <1>7 DEF Sure

\* What a printer does: jobs end, and only one that has not begun before begins.
LEMMA SureOfPrinters ==
    ASSUME Inv, Sure, UNCHANGED <<view, polls, pending, told, crossed>>,
           Held', dropped \subseteq dropped', budget'.jobs \subseteq budget.jobs,
           \A j \in Jobs, p \in Printers : held'[p] = j =>
               \/ held[p] = j
               \/ j \in budget.jobs \ budget'.jobs /\ \A q \in Printers : held'[q] = j => p = q,
           \A j \in Jobs \ dropped', p \in Printers :
               In(fleet, p, j)' => In(fleet, p, j) \/ j \in budget.jobs \ budget'.jobs
    PROVE  Sure'
<1>1. UNCHANGED Answered /\ \A r \in Answered : Live(r)' = Live(r)
    BY DEF Answered, Live
<1>2. Offline' /\ Ordered'
    BY <1>1 DEF Sure, Offline, Ordered
<1>3. ASSUME NEW j \in Jobs, NEW p \in Printers, Seen(p, j)'
      PROVE  \/ Seen(p, j)
             \/ j \in budget.jobs \ budget'.jobs /\ held'[p] = j /\ \A q \in Printers : held'[q] = j => p = q
    BY <1>1, <1>3 DEF Seen, In
<1>4. OnePrinter'
    BY <1>3 DEF Sure, OnePrinter, Unbegun
<1>5. Unbegun'
    BY <1>3 DEF Sure, Unbegun, Stopped, Inv, Rows, Budget
<1>6. ASSUME NEW j \in Jobs \ dropped'
      PROVE  /\ Between(j)'
             /\ "list" \notin crossed' => Since(j)' /\ BegunOnce(j)' /\ EndedOnce(j)'
    <2>1. CASE j \in budget.jobs \ budget'.jobs
        <3>1. /\ told[j].begun = 0 /\ told[j].ended = 0
              /\ \A p \in Printers : ~Stopped(p, j)' /\ ~In(view, p, j)' /\ \A r \in Answered : ~In(polls[r].list, p, j)'
            BY <2>1 DEF Sure, Unbegun, Seen, Stopped, In
        <3> QED
            BY <1>1, <3>1 DEF Between, Since, BegunOnce, EndedOnce, In, Stopped
    <2>2. CASE j \notin budget.jobs \ budget'.jobs
        <3>1. /\ Between(j) /\ ("list" \notin crossed => Since(j) /\ BegunOnce(j) /\ EndedOnce(j))
              /\ \A p \in Printers : In(fleet, p, j)' => In(fleet, p, j)
              /\ \A p \in Printers : In(view, p, j)' = In(view, p, j)
              /\ \A p \in Printers, r \in Answered : In(polls[r].list, p, j)' = In(polls[r].list, p, j)
            <4>1. \A p \in Printers : In(view, p, j)' = In(view, p, j)
                BY DEF In
            <4>2. \A p \in Printers, r \in Answered : In(polls[r].list, p, j)' = In(polls[r].list, p, j)
                BY DEF In
            <4> QED
                BY <2>2, <4>1, <4>2 DEF Sure
        <3>2. Between(j)'
            BY <1>1, <3>1 DEF Between
        <3>3. "list" \notin crossed' => Since(j)' /\ BegunOnce(j)'
            <4>1. Since(j) => Since(j)'
                BY <1>1, <3>1 DEF Since
            <4>2. BegunOnce(j) => BegunOnce(j)'
                BY <1>1, <3>1 DEF BegunOnce
            <4> QED
                BY <3>1, <4>1, <4>2
        <3>4. Over(j) => Over(j)'
            BY <1>1, <3>1 DEF Over
        <3>5. "list" \notin crossed' => EndedOnce(j)'
            BY <3>1, <3>4 DEF EndedOnce, Stopped
        <3> QED
            BY <3>2, <3>3, <3>5
    <2> QED
        BY <2>1, <2>2
<1> QED
    BY <1>2, <1>4, <1>5, <1>6 DEF Sure

LEMMA SurePrinting ==
    ASSUME Inv, Sure, NEW p \in Printers,
           \/ \E j \in Jobs : Begin(p, j)
           \/ Finish(p) \/ Pause(p) \/ Drop(p) \/ Return(p) \/ Warm(p)
    PROVE  Sure'
<1>1. UNCHANGED <<view, polls, pending, told, crossed>>
    BY DEF Begin, Finish, Pause, Drop, Return, Warm, tabVars
<1>2. /\ fleet \in [Printers -> Row] /\ held \in [Printers -> Jobs \cup {NoJob}]
      /\ NoJob \notin Jobs /\ budget \in Budget /\ fleet \in List
      /\ \A q \in Printers : fleet[q].status = "offline" => fleet[q].job = NoJob
    BY ConstantsAssumption DEF Inv, Rows, List
<1>3. ASSUME NEW status \in {"idle", "printing", "paused", "error", "offline"},
             NEW job \in Jobs \cup {NoJob}, Report(p, status, job)
      PROVE  /\ fleet' \in List /\ fleet'[p].status = status /\ fleet'[p].job = job
             /\ \A q \in Printers \ {p} : fleet'[q] = fleet[q]
    BY <1>2, <1>3 DEF Report, Row, List
<1>4. fleet # NoList /\ \A kind \in {"pauses", "outages"} : Spend(kind) => budget'.jobs = budget.jobs
    BY <1>2, NoListAssumption DEF Spend, Budget
<1>5. CASE \E j \in Jobs : Begin(p, j)
    <2>1. PICK j \in Jobs : Begin(p, j)
        BY <1>5
    <2>2. /\ held[p] = NoJob /\ dropped' = dropped /\ held' = [held EXCEPT ![p] = j]
          /\ j \in budget.jobs /\ budget'.jobs = budget.jobs \ {j} /\ Report(p, "printing", j)
        BY <1>2, <2>1 DEF Begin, Budget
    <2>3. /\ fleet'[p].status = "printing" /\ fleet'[p].job = j
          /\ \A q \in Printers \ {p} : fleet'[q] = fleet[q]
        BY <1>3, <2>2
    <2>4. held'[p] = j /\ \A q \in Printers \ {p} : held'[q] = held[q]
        BY <1>2, <2>2
    <2>5. \A q \in Printers : held[q] # j
        BY <2>2 DEF Sure, Unbegun, Seen
    <2>6. Held'
        BY <2>2, <2>3, <2>4 DEF Sure, Held
    <2> QED
        BY <1>1, <1>4, <2>2, <2>3, <2>4, <2>5, <2>6, SureOfPrinters DEF In
<1>6. CASE Finish(p)
    <2>1. /\ UNCHANGED <<budget, dropped>> /\ held' = [held EXCEPT ![p] = NoJob]
          /\ \/ fleet[p].status = "offline" /\ fleet' = fleet
             \/ \E status \in {"idle", "error"} : Report(p, status, NoJob)
        BY <1>6 DEF Finish
    <2>2. held'[p] = NoJob /\ \A q \in Printers \ {p} : held'[q] = held[q]
        BY <1>2, <2>1
    <2>3. /\ \A q \in Printers \ {p} : fleet'[q] = fleet[q]
          /\ (fleet'[p].status = "offline" /\ fleet'[p] = fleet[p]) \/ (fleet'[p].status # "offline" /\ fleet'[p].job = NoJob)
        BY <1>2, <1>3, <2>1
    <2>4. Held'
        BY <2>1, <2>2, <2>3 DEF Sure, Held
    <2> QED
        BY <1>1, <1>2, <1>4, <2>1, <2>2, <2>3, <2>4, SureOfPrinters DEF In
<1>7. CASE Pause(p)
    <2>1. /\ UNCHANGED <<held, dropped>> /\ fleet[p].status # "offline"
          /\ \E status \in {"paused", "printing"} : Report(p, status, held[p])
          /\ Spend("pauses")
        BY <1>7 DEF Pause
    <2>2. budget'.jobs = budget.jobs
        BY <1>4, <2>1
    <2>3. /\ \A q \in Printers \ {p} : fleet'[q] = fleet[q]
          /\ fleet'[p].status # "offline" /\ fleet'[p].job = held[p]
        BY <1>2, <1>3, <2>1
    <2>4. Held' /\ fleet[p].job = held[p]
        BY <2>1, <2>3 DEF Sure, Held
    <2> QED
        BY <1>1, <1>4, <2>1, <2>2, <2>3, <2>4, SureOfPrinters DEF In
<1>8. CASE Drop(p)
    <2>1. /\ held' = held /\ dropped' = dropped \cup ({held[p]} \ {NoJob})
          /\ Report(p, "offline", NoJob) /\ Spend("outages")
        BY <1>8 DEF Drop
    <2>2. budget'.jobs = budget.jobs
        BY <1>4, <2>1
    <2>3. /\ \A q \in Printers \ {p} : fleet'[q] = fleet[q]
          /\ fleet'[p].status = "offline" /\ fleet'[p].job = NoJob
        BY <1>3, <2>1
    <2>4. Held'
        BY <2>1, <2>3 DEF Sure, Held
    <2> QED
        BY <1>1, <1>2, <1>4, <2>1, <2>2, <2>3, <2>4, SureOfPrinters DEF In
<1>9. CASE Return(p)
    <2>1. /\ UNCHANGED <<held, dropped, budget>> /\ fleet[p].status = "offline"
          /\ \E status \in {"idle", "printing"} : Report(p, status, held[p])
        BY <1>9 DEF Return
    <2>2. /\ \A q \in Printers \ {p} : fleet'[q] = fleet[q]
          /\ fleet'[p].status # "offline" /\ fleet'[p].job = held[p]
        BY <1>2, <1>3, <2>1
    <2>3. Held' /\ held[p] \in dropped \cup {NoJob}
        BY <2>1, <2>2 DEF Sure, Held
    <2> QED
        BY <1>1, <1>2, <1>4, <2>1, <2>2, <2>3, SureOfPrinters DEF In
<1>10. CASE Warm(p)
    <2>1. UNCHANGED <<held, dropped, budget>> /\ fleet' = [fleet EXCEPT ![p].warm = ~@]
        BY <1>10 DEF Warm
    <2>2. \A q \in Printers : fleet'[q].status = fleet[q].status /\ fleet'[q].job = fleet[q].job
        BY <1>2, <2>1 DEF Row
    <2>3. Held'
        BY <2>1, <2>2 DEF Sure, Held
    <2> QED
        BY <1>1, <1>4, <2>1, <2>2, <2>3, SureOfPrinters DEF In
<1> QED
    BY <1>5, <1>6, <1>7, <1>8, <1>9, <1>10

\* Answers that go, or come to be late, leave what is known of the others.
LEMMA SureOfPolls ==
    ASSUME Inv, Sure, UNCHANGED <<fleet, held, view, pending, told, dropped>>,
           budget'.jobs = budget.jobs, crossed \subseteq crossed', Ordered', Answered' \subseteq Answered,
           \A s \in Answered' : polls'[s].list = polls[s].list /\ (Live(s)' => Live(s)),
           \A s, u \in Answered' : s \in polls'[u].before => s \in polls[u].before
    PROVE  Sure'
<1>1. \A p \in Printers, j \in Jobs :
          In(view, p, j)' = In(view, p, j) /\ In(fleet, p, j)' = In(fleet, p, j)
    BY DEF In
<1>2. \A p \in Printers, j \in Jobs, s \in Answered' :
          In(polls[s].list, p, j)' = In(polls[s].list, p, j)
    BY DEF In
<1>3. Held' /\ Offline'
    BY DEF Sure, Held, Offline, NoOfflineJob
<1>4. \A p \in Printers, j \in Jobs : Seen(p, j)' => Seen(p, j)
    BY <1>1, <1>2 DEF Seen
<1>5. OnePrinter'
    BY <1>4 DEF Sure, OnePrinter
<1>6. Unbegun'
    BY <1>4 DEF Sure, Unbegun, Stopped, Inv, Rows, Budget
<1>7. ASSUME NEW j \in Jobs \ dropped'
      PROVE  /\ Between(j)'
             /\ "list" \notin crossed' => Since(j)' /\ BegunOnce(j)' /\ EndedOnce(j)'
    <2>1. Between(j) /\ ("list" \notin crossed => Since(j) /\ BegunOnce(j) /\ EndedOnce(j))
        BY DEF Sure
    <2>2. Between(j)'
        BY <1>1, <1>2, <2>1 DEF Between
    <2>3. Since(j) => Since(j)'
        BY <1>1, <1>2 DEF Since
    <2>4. BegunOnce(j) => BegunOnce(j)'
        BY <1>1, <1>2 DEF BegunOnce
    <2>5. Over(j) => Over(j)'
        BY <1>1, <1>2 DEF Over
    <2>6. EndedOnce(j) => EndedOnce(j)'
        BY <2>5 DEF EndedOnce, Stopped
    <2> QED
        BY <2>1, <2>2, <2>3, <2>4, <2>6
<1> QED
    BY <1>3, <1>5, <1>6, <1>7 DEF Sure

\* An answer is the last so far.
LEMMA SureAnswered ==
    ASSUME Inv, Sure, NEW r \in Polls, Answer(r)
    PROVE  Sure'
<1>1. /\ UNCHANGED <<fleet, held, view, pending, told, dropped, crossed, budget>>
      /\ polls[r].step = "asked" /\ polls[r] # Free
    BY DEF Answer, fleetVars, tabVars, Free
<1>2. /\ polls[r] \in Asked /\ polls \in [Polls -> Asked \cup {Free}] /\ fleet # NoList
    BY <1>1, NoListAssumption DEF Inv, Requests, Rows
<1>3. /\ polls'[r].step = "answered" /\ polls'[r].list = fleet /\ polls'[r].before = Answered
      /\ \A s \in Polls \ {r} : polls'[s] = polls[s]
    <2> DEFINE new == [polls[r] EXCEPT !.step = "answered", !.changed = ~Matches(polls[r].tag), !.list = fleet,
                                       !.before = Answered]
    <2>1. new.step = "answered" /\ new.list = fleet /\ new.before = Answered
        BY <1>2 DEF Asked
    <2>2. polls' = [polls EXCEPT ![r] = new]
        BY DEF Answer
    <2> HIDE DEF new
    <2> QED
        BY <1>2, <2>1, <2>2
<1>4. /\ Answered' = Answered \cup {r} /\ r \notin Answered
      /\ \A s \in Answered : s # r /\ polls'[s] = polls[s] /\ Live(s)' = Live(s)
      /\ \A u \in Answered : polls[u] # Free
    BY <1>1, <1>3 DEF Answered, Live, Free
<1>5. /\ Ordered' /\ \A u \in Answered : polls[u].before \subseteq Answered
    BY <1>3, <1>4 DEF Sure, Ordered, Answered
<1>6. \A p \in Printers, j \in Jobs :
          /\ In(view, p, j)' = In(view, p, j) /\ In(fleet, p, j)' = In(fleet, p, j)
          /\ In(polls[r].list, p, j)' = In(fleet, p, j)
          /\ \A s \in Answered : In(polls[s].list, p, j)' = In(polls[s].list, p, j)
    BY <1>1, <1>3, <1>4 DEF In
<1>7. Held' /\ Offline'
    BY <1>1, <1>3, <1>4 DEF Sure, Held, Offline, NoOfflineJob, Inv, Rows
<1>8. \A p \in Printers, j \in Jobs : Seen(p, j)' => Seen(p, j)
    <2>1. NoJob \notin Jobs
        BY ConstantsAssumption
    <2>2. \A p \in Printers, j \in Jobs : In(fleet, p, j) => held[p] = j
        BY <2>1 DEF In, Inv, Rows
    <2> QED
        BY <1>1, <1>4, <1>6, <2>2 DEF Seen
<1>9. OnePrinter'
    BY <1>8 DEF Sure, OnePrinter
<1>10. Unbegun'
    BY <1>1, <1>8 DEF Sure, Unbegun, Stopped, Inv, Rows, Budget
<1>11. ASSUME NEW j \in Jobs \ dropped'
       PROVE  /\ Between(j)'
              /\ "list" \notin crossed' => Since(j)' /\ BegunOnce(j)' /\ EndedOnce(j)'
    <2>1. Between(j) /\ ("list" \notin crossed => Since(j) /\ BegunOnce(j) /\ EndedOnce(j))
        BY <1>1 DEF Sure
    <2>2. Between(j)'
        BY <1>3, <1>4, <1>5, <1>6, <2>1 DEF Between
    <2>3. Since(j) => Since(j)'
        BY <1>3, <1>4, <1>5, <1>6 DEF Since
    <2>4. BegunOnce(j) => BegunOnce(j)'
        BY <1>1, <1>4, <1>6 DEF BegunOnce
    <2>5. Over(j) => Over(j)'
        BY <1>1, <1>4, <1>6 DEF Over
    <2>6. EndedOnce(j) => EndedOnce(j)'
        BY <1>1, <2>5 DEF EndedOnce, Stopped
    <2> QED
        BY <1>1, <2>1, <2>2, <2>3, <2>4, <2>6
<1> QED
    BY <1>1, <1>7, <1>5, <1>9, <1>10, <1>11 DEF Sure

LEMMA SureAsked ==
    ASSUME Inv, Sure, NEW r \in Polls, Ask(r) \/ Fail(r)
    PROVE  Sure'
<1>1. UNCHANGED <<fleet, held, view, pending, told, dropped, crossed>>
    BY DEF Ask, Fail, fleetVars, tabVars
<1>2. polls \in [Polls -> Asked \cup {Free}] /\ budget'.jobs = budget.jobs
    BY DEF Ask, Fail, Spend, Inv, Requests, Rows, Budget
<1>3. CASE Ask(r)
    <2>1. /\ polls[r] = Free /\ polls'[r].step = "asked" /\ polls'[r].before = {}
          /\ \A s \in Polls \ {r} : polls'[s] = polls[s]
        BY <1>2, <1>3 DEF Ask
    <2>2. Answered' = Answered /\ r \notin Answered
        BY <2>1 DEF Answered, Free
    <2>3. Ordered'
        BY <2>1, <2>2 DEF Sure, Ordered, Answered
    <2> QED
        BY <1>1, <1>2, <2>1, <2>2, <2>3, SureOfPolls DEF Live, Answered
<1>4. CASE Fail(r)
    <2>1. ASSUME NEW s \in Polls
          PROVE  \/ polls'[s] = Free
                 \/ /\ s # r /\ polls[s] # Free
                    /\ polls'[s].step = polls[s].step /\ polls'[s].list = polls[s].list
                    /\ polls'[s].late = polls[s].late /\ polls'[s].before = polls[s].before \ {r}
        <3>1. polls'[s] = IF s = r \/ polls[s] = Free THEN Free ELSE [polls[s] EXCEPT !.before = @ \ {r}]
            BY <1>4 DEF Fail
        <3>2. polls[s] \in Asked \cup {Free}
            BY <1>2
        <3> QED
            BY <3>1, <3>2 DEF Asked
    <2>2. polls'[r] = Free
        BY <1>4 DEF Fail
    <2>3. Answered' = Answered \ {r}
        <3>1. ASSUME NEW s \in Polls \ {r} PROVE (s \in Answered') = (s \in Answered)
            <4>1. polls'[s] = IF polls[s] = Free THEN Free ELSE [polls[s] EXCEPT !.before = @ \ {r}]
                BY <1>4 DEF Fail
            <4>2. polls[s] \in Asked \cup {Free}
                BY <1>2
            <4>3. polls'[s].step = polls[s].step
                BY <4>1, <4>2 DEF Asked
            <4> QED
                BY <4>3 DEF Answered
        <3>2. r \notin Answered'
            BY <2>2 DEF Answered, Free
        <3> QED
            BY <3>1, <3>2 DEF Answered
    <2>4. \A s \in Answered' : s \in Polls /\ polls'[s] # Free
        BY DEF Answered, Free
    <2>5. Ordered'
        BY <2>1, <2>3, <2>4 DEF Sure, Ordered
    <2>6. \A s \in Answered' : polls'[s].list = polls[s].list /\ (Live(s)' => Live(s))
        BY <2>1, <2>4 DEF Live
    <2>7. \A s, u \in Answered' : s \in polls'[u].before => s \in polls[u].before
        BY <2>1, <2>4
    <2> QED
        BY <1>1, <1>2, <2>3, <2>5, <2>6, <2>7, SureOfPolls
<1> QED
    BY <1>3, <1>4

LEMMA SureAged ==
    ASSUME Inv, Sure, NEW p \in Printers, Age(p)
    PROVE  Sure'
<1>1. UNCHANGED <<fleet, held, view, told, polls, budget, dropped, crossed>>
    BY DEF Age, fleetVars
<1>2. \A q \in Printers, j \in Jobs : Stopped(q, j)' => Stopped(q, j)
    <2>1. pending[p] \in Info /\ pending' = [pending EXCEPT ![p] = [pending[p] EXCEPT !.long = TRUE]]
        BY DEF Age, Inv, Tab
    <2>2. [pending[p] EXCEPT !.long = TRUE].job = pending[p].job
        BY <2>1 DEF Info
    <2> QED
        BY <2>1, <2>2 DEF Age, Stopped, Inv, Tab
<1>3. Held' /\ Offline' /\ Ordered' /\ OnePrinter'
    BY <1>1 DEF Sure, Held, Offline, NoOfflineJob, Ordered, OnePrinter, Seen, In, Answered
<1>4. Unbegun'
    BY <1>1, <1>2 DEF Sure, Unbegun, Seen, In, Answered, Inv, Rows, Budget
<1>5. ASSUME NEW j \in Jobs \ dropped'
      PROVE  /\ Between(j)'
             /\ "list" \notin crossed' => Since(j)' /\ BegunOnce(j)' /\ EndedOnce(j)'
    <2>1. Between(j) /\ ("list" \notin crossed => Since(j) /\ BegunOnce(j) /\ EndedOnce(j))
        BY <1>1 DEF Sure
    <2>2. /\ Between(j)' = Between(j) /\ Since(j)' = Since(j) /\ BegunOnce(j)' = BegunOnce(j)
          /\ Over(j)' = Over(j)
        BY <1>1 DEF Between, Since, BegunOnce, Over, Live, In, Answered
    <2>3. EndedOnce(j) => EndedOnce(j)'
        BY <1>1, <1>2, <2>2 DEF EndedOnce
    <2> QED
        BY <1>1, <2>1, <2>2, <2>3
<1> QED
    BY <1>1, <1>3, <1>4, <1>5 DEF Sure

-----------------------------------------------------------------------------
(* A list comes into view.                                                 *)

\* The answers given before the one that is used are late from then on.
LEMMA TakenRest ==
    ASSUME Inv, Sure, NEW r \in Polls, Apply(r)
    PROVE  /\ Answered' = Answered \ {r} /\ Ordered'
           /\ \A s \in Answered' :
                /\ polls'[s].list = polls[s].list
                /\ Live(s)' => Live(s) /\ r \in polls[s].before
           /\ \A s, u \in Answered' : s \in polls'[u].before => s \in polls[u].before
<1>1. r \in Answered /\ polls \in [Polls -> Asked \cup {Free}]
    BY DEF Apply, Answered, Inv, Requests
<1>2. ASSUME NEW s \in Polls
      PROVE  polls'[s] = IF s = r \/ polls[s] = Free THEN Free
                         ELSE [polls[s] EXCEPT !.overlapped = TRUE,
                                 !.late = @ \/ s \in polls[r].before, !.before = @ \ {r}]
    BY DEF Apply, Taken
<1>3. ASSUME NEW s \in Polls, s # r, polls[s] # Free
      PROVE  /\ polls'[s] # Free /\ polls'[s].step = polls[s].step /\ polls'[s].list = polls[s].list
             /\ polls'[s].late = (polls[s].late \/ s \in polls[r].before)
             /\ polls'[s].before = polls[s].before \ {r}
    <2>1. polls[s] \in Asked
        BY <1>1, <1>3
    <2>2. polls'[s] = [polls[s] EXCEPT !.overlapped = TRUE,
                         !.late = @ \/ s \in polls[r].before, !.before = @ \ {r}]
        BY <1>2, <1>3
    <2> QED
        BY <2>1, <2>2 DEF Asked, Free
<1>4. \A s \in Polls : s = r \/ polls[s] = Free => polls'[s] = Free
    BY <1>2
<1>5. \A s \in Answered : s \in Polls /\ polls[s] # Free
    BY DEF Answered, Free
<1>6. Answered' = Answered \ {r}
    <2>1. ASSUME NEW s \in Polls PROVE s \in Answered' <=> s \in Answered /\ s # r
        <3>1. CASE s = r \/ polls[s] = Free
            BY <1>4, <1>5, <3>1 DEF Answered, Free
        <3>2. CASE ~(s = r \/ polls[s] = Free)
            BY <1>3, <3>2 DEF Answered
        <3> QED
            BY <3>1, <3>2
    <2> QED
        BY <2>1 DEF Answered
<1>7. Ordered'
    BY <1>3, <1>4, <1>5, <1>6 DEF Sure, Ordered
<1>8. \A s \in Answered' : polls'[s].list = polls[s].list /\ (Live(s)' => Live(s) /\ r \in polls[s].before)
    BY <1>1, <1>3, <1>5, <1>6 DEF Sure, Ordered, Live
<1>9. \A s, u \in Answered' : s \in polls'[u].before => s \in polls[u].before
    BY <1>3, <1>5, <1>6
<1> QED
    BY <1>6, <1>7, <1>8, <1>9

\* What is told of a job, and what comes to await confirmation.
LEMMA ComparedJob ==
    ASSUME Inv, Sure, NEW next \in List, view # NoList, Compare(next), NEW j \in Jobs
    PROVE  /\ told' \in [Jobs -> [begun : 0..2, ended : 0..2]]
           /\ \/ told'[j].begun = told[j].begun
              \/ /\ told[j].begun < 2 /\ told'[j].begun = told[j].begun + 1
                 /\ \E p \in Printers : ~In(view, p, j) /\ In(next, p, j)
           /\ \/ told'[j].ended = told[j].ended
              \/ /\ told[j].ended < 2 /\ told'[j].ended = told[j].ended + 1
                 /\ \/ \E p \in Printers : In(view, p, j) /\ next[p].job = NoJob /\ next[p].status # "offline"
                    \/ \E p \in Printers : Stopped(p, j) /\ ~Stopped(p, j)'
           /\ \A p \in Printers : Stopped(p, j)' =>
                Stopped(p, j) \/ (In(view, p, j) /\ next[p].status = "offline")
<1> DEFINE note(p) == Noted(p, view[p], next[p])
           begun == UNION {Begun(view[p], next[p]) : p \in Printers}
           ended == (UNION {Ended(view[p], next[p]) : p \in Printers})
                    \cup {note(p).job : p \in {q \in Printers : Confirms(note(q), next[q])}}
<1>1. /\ pending' = [p \in Printers |-> IF Waits(note(p), next[p]) THEN note(p) ELSE NoInfo]
      /\ told' = [i \in Jobs |-> [begun |-> Count(told[i].begun, i \in begun),
                                  ended |-> Count(told[i].ended, i \in ended)]]
    BY DEF Compare
<1>2. /\ told \in [Jobs -> [begun : 0..2, ended : 0..2]] /\ next # NoList /\ NoJob \notin Jobs
      /\ pending \in [Printers -> Info \cup {NoInfo}]
    BY NoListAssumption, ConstantsAssumption DEF Sure, Inv, Tab
<1>3. j \in begun => \E p \in Printers : ~In(view, p, j) /\ In(next, p, j)
    BY <1>2 DEF Begun, In
<1>4. ASSUME NEW p \in Printers
      PROVE  \/ pending[p] # NoInfo /\ note(p) = pending[p]
             \/ pending[p] = NoInfo /\ note(p) = NoInfo
             \/ /\ pending[p] = NoInfo /\ note(p).job = view[p].job /\ ~note(p).long
                /\ next[p].status = "offline"
    BY DEF Noted, Vanished
<1>5. ASSUME j \in ended
      PROVE  \/ \E p \in Printers : In(view, p, j) /\ next[p].job = NoJob /\ next[p].status # "offline"
             \/ \E p \in Printers : Stopped(p, j) /\ ~Stopped(p, j)'
    <2>1. CASE \E p \in Printers : j \in Ended(view[p], next[p])
        <3>1. PICK p \in Printers : j \in Ended(view[p], next[p])
            BY <2>1
        <3>2. view[p].job = j /\ next[p].job = NoJob /\ next[p].status # "offline"
            BY <3>1 DEF Ended
        <3>3. In(view, p, j)
            BY <3>2 DEF In
        <3> QED
            BY <3>2, <3>3
    <2>2. CASE \E p \in Printers : Confirms(note(p), next[p]) /\ note(p).job = j
        <3>1. PICK p \in Printers : Confirms(note(p), next[p]) /\ note(p).job = j
            BY <2>2
        <3>2. note(p) # NoInfo /\ note(p).long /\ ~Waits(note(p), next[p])
            BY <3>1 DEF Confirms, Waits
        <3>3. pending[p] # NoInfo /\ note(p) = pending[p]
            BY <1>4, <3>2
        <3>4. pending'[p] = NoInfo
            BY <1>1, <3>2
        <3> QED
            BY <3>1, <3>3, <3>4 DEF Stopped
    <2>3. \/ j \in UNION {Ended(view[p], next[p]) : p \in Printers}
          \/ j \in {note(p).job : p \in {q \in Printers : Confirms(note(q), next[q])}}
        BY <1>5
    <2> QED
        BY <2>1, <2>2, <2>3
<1>6. \A p \in Printers : Stopped(p, j)' =>
          Stopped(p, j) \/ (In(view, p, j) /\ next[p].status = "offline")
    <2> SUFFICES ASSUME NEW p \in Printers, Stopped(p, j)'
                 PROVE  Stopped(p, j) \/ (In(view, p, j) /\ next[p].status = "offline")
        OBVIOUS
    <2>1. note(p) # NoInfo /\ note(p).job = j
        BY <1>1 DEF Stopped
    <2> QED
        BY <1>4, <2>1 DEF Stopped, In
<1> HIDE DEF begun, ended, note
<1>7. /\ told'[j].begun = Count(told[j].begun, j \in begun)
      /\ told'[j].ended = Count(told[j].ended, j \in ended)
    BY <1>1
<1>8. told' \in [Jobs -> [begun : 0..2, ended : 0..2]]
    <2>1. ASSUME NEW n \in 0..2, NEW yes \in BOOLEAN PROVE Count(n, yes) \in 0..2
        BY DEF Count
    <2>2. \A i \in Jobs : Count(told[i].begun, i \in begun) \in 0..2 /\ Count(told[i].ended, i \in ended) \in 0..2
        <3> SUFFICES ASSUME NEW i \in Jobs
                     PROVE  Count(told[i].begun, i \in begun) \in 0..2 /\ Count(told[i].ended, i \in ended) \in 0..2
            OBVIOUS
        <3>1. told[i].begun \in 0..2 /\ told[i].ended \in 0..2 /\ (i \in begun) \in BOOLEAN /\ (i \in ended) \in BOOLEAN
            BY <1>2
        <3> QED
            BY <2>1, <3>1
    <2> QED
        BY <1>1, <2>2
<1>9. \/ told'[j].begun = told[j].begun
      \/ told[j].begun < 2 /\ told'[j].begun = told[j].begun + 1 /\ j \in begun
    BY <1>7 DEF Count
<1>10. \/ told'[j].ended = told[j].ended
       \/ told[j].ended < 2 /\ told'[j].ended = told[j].ended + 1 /\ j \in ended
    BY <1>7 DEF Count
<1> QED
    BY <1>3, <1>5, <1>6, <1>8, <1>9, <1>10

LEMMA SureApplied ==
    ASSUME Inv, Sure, NEW r \in Polls, Apply(r)
    PROVE  Sure'
<1> DEFINE next == polls[r].list
<1>1. /\ UNCHANGED <<fleet, held, budget, dropped>> /\ crossed \subseteq crossed'
      /\ r \in Answered /\ next \in List /\ next # NoList
      /\ polls[r].changed /\ polls[r].late => "list" \in crossed'
    BY NoListAssumption DEF Apply, Answered, fleetVars, Inv, Requests
<1>2. /\ Answered' = Answered \ {r} /\ Ordered'
      /\ \A s \in Answered' :
            /\ polls'[s].list = polls[s].list
            /\ Live(s)' => Live(s) /\ r \in polls[s].before
      /\ \A s, u \in Answered' : s \in polls'[u].before => s \in polls[u].before
    BY TakenRest
<1>3. CASE ~polls[r].changed
    <2>1. UNCHANGED <<view, pending, told>>
        BY <1>3 DEF Apply
    <2> QED
        BY <1>1, <1>2, <2>1, SureOfPolls
<1>4. CASE polls[r].changed
    <2>1. view' = next /\ Compare(next) /\ ("list" \notin crossed' => "list" \notin crossed /\ Live(r))
        BY <1>1, <1>4 DEF Apply, Live
    <2> HIDE DEF next
    <2>2. \A p \in Printers, j \in Jobs :
              /\ In(view, p, j)' = In(next, p, j) /\ In(fleet, p, j)' = In(fleet, p, j)
              /\ In(polls[r].list, p, j) = In(next, p, j)
              /\ \A s \in Answered' : In(polls[s].list, p, j)' = In(polls[s].list, p, j)
        BY <1>1, <1>2, <2>1 DEF In, next
    <2>3. Held' /\ Offline' /\ NoOfflineJob(next)
        <3>1. NoOfflineJob(next)
            BY <1>1 DEF Sure, Offline, next
        <3> QED
            BY <1>1, <1>2, <2>1, <3>1 DEF Sure, Held, Offline, NoOfflineJob
    <2>4. \A p \in Printers, j \in Jobs : Seen(p, j)' => Seen(p, j)
        BY <1>1, <1>2, <2>2 DEF Seen
    <2>5. OnePrinter'
        BY <2>4 DEF Sure, OnePrinter
    <2>6. \A p, q \in Printers, j \in Jobs :
              (In(view, p, j) \/ In(next, p, j)) /\ (In(view, q, j) \/ In(next, q, j)) => p = q
        BY <1>1, <2>2 DEF Sure, OnePrinter, Seen
    <2>7. ASSUME NEW j \in Jobs
          PROVE  /\ \/ told'[j].begun = told[j].begun
                    \/ /\ told[j].begun < 2 /\ told'[j].begun = told[j].begun + 1
                       /\ \E p \in Printers : ~In(view, p, j) /\ In(next, p, j)
                 /\ \/ told'[j].ended = told[j].ended
                    \/ /\ told[j].ended < 2 /\ told'[j].ended = told[j].ended + 1
                       /\ \/ \E p \in Printers : In(view, p, j) /\ next[p].job = NoJob /\ next[p].status # "offline"
                          \/ \E p \in Printers : Stopped(p, j) /\ ~Stopped(p, j)'
                 /\ \A p \in Printers : Stopped(p, j)' =>
                      Stopped(p, j) \/ (In(view, p, j) /\ next[p].status = "offline")
        <3>1. CASE view = NoList
            BY <2>1, <3>1 DEF Compare, Stopped
        <3>2. CASE view # NoList
            BY <1>1, <2>1, <3>2, ComparedJob
        <3> QED
            BY <3>1, <3>2
    <2>8. told' \in [Jobs -> [begun : 0..2, ended : 0..2]]
        <3>1. CASE view = NoList
            BY <2>1, <3>1 DEF Compare, Sure
        <3>2. CASE view # NoList
            <4>1. CASE Jobs = {}
                BY <2>1, <3>2, <4>1 DEF Compare
            <4>2. CASE Jobs # {}
                BY <1>1, <2>1, <3>2, <4>2, ComparedJob
            <4> QED
                BY <4>1, <4>2
        <3> QED
            BY <3>1, <3>2
    <2>9. \A j \in Jobs : told[j].begun \in 0..2 /\ told[j].ended \in 0..2
        BY DEF Sure
    <2>10. Unbegun'
        <3> SUFFICES ASSUME NEW j \in budget'.jobs
                     PROVE  /\ told'[j].begun = 0 /\ told'[j].ended = 0
                            /\ \A p \in Printers : ~Seen(p, j)' /\ ~Stopped(p, j)'
            BY DEF Unbegun
        <3>1. j \in Jobs /\ j \in budget.jobs
            BY <1>1 DEF Inv, Rows, Budget
        <3>2. /\ told[j].begun = 0 /\ told[j].ended = 0
              /\ \A p \in Printers : ~Seen(p, j) /\ ~Stopped(p, j)
            BY <3>1 DEF Sure, Unbegun
        <3>3. \A p \in Printers : ~In(view, p, j) /\ ~In(next, p, j)
            BY <1>1, <2>2, <3>1, <3>2 DEF Seen
        <3> QED
            BY <2>4, <2>7, <3>1, <3>2, <3>3
    <2>11. ASSUME NEW j \in Jobs \ dropped'
           PROVE  /\ Between(j)'
                  /\ "list" \notin crossed' => Since(j)' /\ BegunOnce(j)' /\ EndedOnce(j)'
        <3>1. Between(j) /\ ("list" \notin crossed => Since(j) /\ BegunOnce(j) /\ EndedOnce(j))
            BY <1>1 DEF Sure
        <3>2. Between(j)'
            BY <1>2, <2>2, <3>1 DEF Between
        <3>3. Since(j)'
            BY <1>1, <1>2, <2>2, <3>1 DEF Between, Since
        <3> SUFFICES ASSUME "list" \notin crossed' PROVE BegunOnce(j)' /\ EndedOnce(j)'
            BY <3>2, <3>3
        <3>4. Since(j) /\ BegunOnce(j) /\ EndedOnce(j) /\ Live(r)
            BY <2>1, <3>1
        \* Of a job in view, what is left of the lists agrees with the one that comes.
        <3>5. \A p \in Printers : In(view, p, j) =>
                  /\ In(fleet, p, j) => In(next, p, j)
                  /\ \A s \in Answered' : Live(s)' /\ In(polls[s].list, p, j) => In(next, p, j)
            BY <1>1, <1>2, <2>2, <3>4 DEF Since
        <3>6. \A p, q \in Printers : In(view, q, j) \/ In(next, q, j) =>
                  /\ In(fleet, p, j) => p = q
                  /\ \A s \in Answered' : In(polls[s].list, p, j) => p = q
            <4>1. \A p \in Printers : In(fleet, p, j) => held[p] = j
                BY ConstantsAssumption DEF In, Inv, Rows
            <4> QED
                BY <1>1, <1>2, <2>2, <4>1 DEF Sure, OnePrinter, Seen
        <3>7. BegunOnce(j)'
            <4>1. CASE told'[j].begun = told[j].begun
                BY <1>2, <2>2, <3>4, <3>5, <4>1 DEF BegunOnce
            <4>2. CASE told'[j].begun # told[j].begun
                <5>1. PICK p \in Printers : ~In(view, p, j) /\ In(next, p, j)
                    BY <2>7, <4>2
                <5>2. told[j].begun # 1
                    BY <1>1, <2>2, <3>4, <5>1 DEF BegunOnce
                <5>3. told[j].begun = 0 /\ told'[j].begun = 1
                    BY <2>7, <2>9, <3>4, <4>2, <5>2 DEF BegunOnce
                <5> QED
                    BY <1>2, <2>2, <3>6, <5>1, <5>3 DEF BegunOnce
            <4> QED
                BY <4>1, <4>2
        <3>8. ASSUME Over(j) PROVE Over(j)'
            BY <1>1, <1>2, <2>2, <3>4, <3>8 DEF Over
        <3>9. ASSUME NEW p \in Printers, In(view, p, j), ~In(next, p, j)
              PROVE  Over(j)'
            <4>1. j \notin budget'.jobs
                BY <1>1, <3>9 DEF Sure, Unbegun, Seen
            <4>2. \A q \in Printers : ~In(next, q, j) /\ ~In(fleet, q, j)
                BY <2>6, <3>5, <3>6, <3>9
            <4>3. \A q \in Printers, s \in Answered' : Live(s)' => ~In(polls[s].list, q, j)
                BY <3>5, <3>6, <3>9
            <4> QED
                BY <2>2, <4>1, <4>2, <4>3 DEF Over
        <3>10. \A p \in Printers : Stopped(p, j) => \A q \in Printers : ~In(view, q, j)
            BY <3>4 DEF EndedOnce, Over
        <3>11. \A p \in Printers : next[p].status = "offline" \/ next[p].job = NoJob => ~In(next, p, j)
            BY <2>3, ConstantsAssumption DEF NoOfflineJob, In
        <3>12. EndedOnce(j)'
            <4>1. CASE told'[j].ended = told[j].ended
                <5>1. told'[j].ended < 2
                    BY <3>4, <4>1 DEF EndedOnce
                <5>2. ASSUME told'[j].ended = 1 PROVE Over(j)' /\ \A p \in Printers : ~Stopped(p, j)'
                    <6>1. Over(j) /\ \A p \in Printers : ~Stopped(p, j) /\ ~In(view, p, j)
                        BY <3>4, <4>1, <5>2 DEF EndedOnce, Over
                    <6> QED
                        BY <2>7, <3>8, <6>1
                <5>3. ASSUME NEW p \in Printers, Stopped(p, j)'
                      PROVE  Over(j)' /\ \A q \in Printers : Stopped(q, j)' => p = q
                    <6>1. CASE Stopped(p, j)
                        BY <2>7, <3>4, <3>8, <3>10, <5>3, <6>1 DEF EndedOnce
                    <6>2. CASE ~Stopped(p, j)
                        <7>1. In(view, p, j) /\ ~In(next, p, j)
                            BY <2>7, <3>11, <5>3, <6>2
                        <7>2. \A q \in Printers : Stopped(q, j)' => In(view, q, j)
                            BY <2>7, <3>10, <7>1
                        <7> QED
                            BY <2>6, <3>9, <7>1, <7>2
                    <6> QED
                        BY <6>1, <6>2
                <5> QED
                    BY <5>1, <5>2, <5>3 DEF EndedOnce
            <4>2. CASE told'[j].ended # told[j].ended
                <5>1. /\ told[j].ended < 2 /\ told'[j].ended = told[j].ended + 1
                      /\ \/ \E p \in Printers : In(view, p, j) /\ next[p].job = NoJob /\ next[p].status # "offline"
                         \/ \E p \in Printers : Stopped(p, j) /\ ~Stopped(p, j)'
                    BY <2>7, <4>2
                <5>2. CASE \E p \in Printers : In(view, p, j) /\ next[p].job = NoJob /\ next[p].status # "offline"
                    <6>1. PICK p \in Printers : In(view, p, j) /\ next[p].job = NoJob /\ next[p].status # "offline"
                        BY <5>2
                    <6>2. told[j].ended # 1
                        BY <3>4, <6>1 DEF EndedOnce, Over
                    <6>3. \A q \in Printers : ~Stopped(q, j)'
                        BY <2>6, <2>7, <3>10, <6>1
                    <6>4. Over(j)'
                        BY <3>9, <3>11, <6>1
                    <6> QED
                        BY <2>9, <5>1, <6>2, <6>3, <6>4 DEF EndedOnce
                <5>3. CASE \E p \in Printers : Stopped(p, j) /\ ~Stopped(p, j)'
                    <6>1. PICK p \in Printers : Stopped(p, j) /\ ~Stopped(p, j)'
                        BY <5>3
                    <6>2. /\ told[j].ended # 1 /\ Over(j)
                          /\ \A q \in Printers : Stopped(q, j) => p = q
                        BY <3>4, <6>1 DEF EndedOnce
                    <6>3. \A q \in Printers : ~Stopped(q, j)'
                        BY <2>7, <3>10, <6>1, <6>2
                    <6> QED
                        BY <2>9, <3>8, <5>1, <6>2, <6>3 DEF EndedOnce
                <5> QED
                    BY <5>1, <5>2, <5>3
            <4> QED
                BY <4>1, <4>2
        <3> QED
            BY <3>7, <3>12
    <2> QED
        BY <1>1, <1>2, <2>1, <2>3, <2>5, <2>8, <2>10, <2>11 DEF Sure
<1> QED
    BY <1>3, <1>4

LEMMA SureNext == Inv /\ Sure /\ [Next]_vars => Sure'
<1> SUFFICES ASSUME Inv, Sure, [Next]_vars PROVE Sure'
    OBVIOUS
<1>1. CASE UNCHANGED vars
    <2>1. /\ UNCHANGED <<fleet, held, view, pending, told, dropped, budget, polls, crossed>>
        BY <1>1 DEF vars, fleetVars, tabVars
    <2>2. Ordered' /\ Answered' \subseteq Answered /\ \A s \in Answered' : Live(s)' => Live(s)
        BY <2>1 DEF Sure, Ordered, Answered, Live
    <2> QED
        BY <2>1, <2>2, SureOfPolls
<1> QED
    BY <1>1, SurePrinting, SureAged, SureAsked, SureAnswered, SureApplied DEF Next, Poll

\* However polls overlap and fail and whatever the printers do, the beginning and the end of a
\* job are told once at most, unless a list was overtaken by a later one or the printer was
\* offline during the job.
THEOREM ToldAtMostOnce == Spec => []ToldOnce
<1>1. Inv /\ Sure => ToldOnce
    <2> SUFFICES ASSUME Sure, NEW j \in Jobs \ dropped, "list" \notin crossed
                 PROVE  ~(told[j].begun > 1 \/ told[j].ended > 1)
        BY DEF ToldOnce
    <2>1. BegunOnce(j) /\ EndedOnce(j) /\ told[j].begun \in 0..2 /\ told[j].ended \in 0..2
        BY DEF Sure
    <2> QED
        BY <2>1 DEF BegunOnce, EndedOnce
<1> QED
    BY <1>1, SureBegins, SureNext, Always, PTL DEF Spec
=============================================================================
