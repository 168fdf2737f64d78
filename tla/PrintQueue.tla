----------------------------- MODULE PrintQueue ------------------------------
(***************************************************************************)
(* The print queue: the rows of queue_jobs (postgres.js), the requests     *)
(* that change them and the status each of them broadcasts afterwards      *)
(* (app.js, eventStream.js), the backfill of estimates, a download, and    *)
(* one staff tab: the dot of its sidebar (SidebarContext.tsx) and its page *)
(* (Queue.tsx).  Every SQL statement is a step of its own, and answers of  *)
(* separate connections arrive in any order.                               *)
(***************************************************************************)
EXTENDS Naturals, Sequences, FiniteSets

CONSTANTS
    Jobs,       \* ids
    Models,     \* contents a model file may have
    NoRow, NoFile,
    Unknown,    \* estimate_source NULL
    Mixed,      \* an estimate of bytes that are no stored model
    Unread,     \* a list that has not been read yet
    Scenarios   \* initial rows, which polls the tab has open, and how many requests,
                \* imports, uploads, downloads and faults there may be

Chunks == 2     \* a model is read in two chunks

Readers == {"sidebar", "auto", "action"}
Sources == Models \cup {"none", Unknown, Mixed}
Job ==
    [deleted : BOOLEAN, printed : BOOLEAN, form : BOOLEAN, file : Models \cup {NoFile},
     source : Sources]
HasModel(row) == ~row.deleted /\ row.file # NoFile
Budgets ==
    [rows : [Jobs -> Job \cup {NoRow}], polls : SUBSET Readers, requests : Nat, imports : Nat,
     uploads : Nat, downloads : Nat, faults : Nat]

ASSUME ConstantsAssumption ==
    /\ NoRow \notin Jobs \cup Job /\ NoFile \notin Models
    /\ {"none", Unknown, Mixed} \cap Models = {} /\ Unknown # Mixed
    /\ Scenarios \subseteq Budgets
    /\ \A s \in Scenarios, j \in Jobs :
        s.rows[j] # NoRow /\ HasModel(s.rows[j]) =>
            s.rows[j].source \in {s.rows[j].file, "none", Unknown}

VARIABLES
    rows,       \* queue_jobs
    added,      \* submissions inserted and not yet announced
    asked,      \* broadcastQueueStatusUpdate called, its query not yet run
    answers,    \* statuses read and not yet pushed: how many of each
    backfill,   \* runBackfill
    download,   \* streamQueueJobFile
    connected,  \* the tab's event stream
    dot,        \* hasUnfinishedQueue
    page,       \* what the Queue page lists
    fetches,    \* reads of the queue under way in the tab
    budget,     \* what is left of the scenario
    swapped,    \* history: jobs given a model, or restored, as they were read
    apart       \* history: jobs given a model and another model's estimate from outside

server == <<added, asked, answers>>
tab == <<connected, dot, page, fetches>>
vars == <<rows, server, backfill, download, tab, budget, swapped, apart>>

NoFetch == [step |-> "idle", queue |-> Unread, history |-> Unread]
NoReader == [step |-> "idle", batch |-> {}, job |-> NoRow, parts |-> <<>>]

Live(j) == rows[j] # NoRow /\ ~rows[j].deleted
Stored(j) == rows[j] # NoRow /\ HasModel(rows[j])
Listed(printed) == {j \in Jobs : Live(j) /\ rows[j].form /\ rows[j].printed = printed}
Unfinished == Listed(FALSE) # {}
BeingRead(j) == j \in {download.job, backfill.job}
Waiting == added + asked + answers[TRUE] + answers[FALSE]

Init ==
    /\ budget \in Scenarios
    /\ rows = budget.rows
    /\ added = 0 /\ asked = 0 /\ answers = [b \in BOOLEAN |-> 0]
    /\ backfill = [NoReader EXCEPT !.step = "boot"] /\ download = NoReader
    /\ connected = TRUE /\ dot = Unfinished
    /\ page = [queue |-> Listed(FALSE), history |-> Listed(TRUE)]
    /\ fetches = [r \in Readers |-> NoFetch]
    /\ swapped = {} /\ apart = {}

Spend(kind) == budget[kind] > 0 /\ budget' = [budget EXCEPT ![kind] = @ - 1]

-----------------------------------------------------------------------------
(* Requests that change the rows.                                          *)

Row(form, printed, file, source) ==
    [deleted |-> FALSE, printed |-> printed, form |-> form, file |-> file, source |-> source]

Change(new) ==
    /\ rows' = new
    /\ UNCHANGED <<answers, backfill, download, tab>>

Broadcast == asked' = asked + 1 /\ UNCHANGED added
Silence == UNCHANGED <<asked, added>>

\* What comes from outside leaves the job with this model and this estimate.
Swap(j, file, source) ==
    /\ swapped' = IF BeingRead(j) THEN swapped \cup {j} ELSE swapped
    /\ apart' = IF file # NoFile /\ source \notin {file, "none", Unknown}
                THEN apart \cup {j} ELSE apart

\* insertQueueSubmission: the model was estimated inline, or could not be.
Submit(j, m) ==
    /\ rows[j] = NoRow /\ Spend("requests")
    /\ \E source \in {m, "none"} : Change([rows EXCEPT ![j] = Row(TRUE, FALSE, m, source)])
    /\ added' = added + 1 /\ UNCHANGED <<asked, swapped, apart>>

MarkPrinted(j) ==
    /\ Live(j) /\ Spend("requests")
    /\ Change([rows EXCEPT ![j].printed = TRUE, ![j].file = NoFile])
    /\ Broadcast /\ UNCHANGED <<swapped, apart>>

Delete(J) ==
    /\ J # {} /\ (\A j \in J : Live(j)) /\ Spend("requests")
    /\ Change([j \in Jobs |-> IF j \in J THEN [rows[j] EXCEPT !.deleted = TRUE] ELSE rows[j]])
    /\ Broadcast /\ UNCHANGED <<swapped, apart>>

Reset ==
    /\ Spend("requests")
    /\ Change([j \in Jobs |-> IF Live(j) /\ rows[j].form THEN [rows[j] EXCEPT !.printed = FALSE]
                              ELSE rows[j]])
    /\ Broadcast /\ UNCHANGED <<swapped, apart>>

\* upsertQueueJobs: a row there is keeps its status, model, estimate and deletion.
Upsert(j, form, printed) ==
    /\ Spend("requests")
    /\ Change([rows EXCEPT ![j] = IF @ = NoRow THEN Row(form, printed, NoFile, Unknown)
                                  ELSE [@ EXCEPT !.form = form]])
    /\ Broadcast /\ UNCHANGED <<swapped, apart>>

\* importQueueJobs: a row there comes back with the manifest's status and estimate,
\* and keeps its model.
Import(j, printed, source) ==
    LET file == IF rows[j] = NoRow THEN NoFile ELSE rows[j].file
    IN /\ Spend("imports")
       /\ Change([rows EXCEPT ![j] = Row(TRUE, printed, file, source)])
       /\ Silence /\ Swap(j, file, source)

\* setQueueJobFile: the estimate stays.
PutFile(j, m) ==
    /\ Live(j) /\ Spend("uploads")
    /\ Change([rows EXCEPT ![j].file = m])
    /\ Silence /\ Swap(j, m, rows[j].source)

Request ==
    \/ Reset
    \/ \E J \in SUBSET Jobs : Delete(J)
    \/ \E j \in Jobs :
        \/ MarkPrinted(j)
        \/ \E m \in Models : Submit(j, m) \/ PutFile(j, m)
        \/ \E form, printed \in BOOLEAN : Upsert(j, form, printed)
        \/ \E printed \in BOOLEAN, source \in Sources : Import(j, printed, source)

-----------------------------------------------------------------------------
(* Broadcasts: what was read is pushed in the order the answers arrive.    *)

bystanders == <<rows, backfill, download, connected, page, fetches, swapped, apart>>

Push(value) == dot' = IF connected THEN value ELSE dot

\* sendQueueAddedNotifications, then broadcastQueueStatusUpdate.
Announce ==
    /\ added > 0 /\ added' = added - 1
    /\ asked' = asked + 1
    /\ Push(TRUE)
    /\ UNCHANGED <<answers, budget, bystanders>>

HasUnfinished == Unfinished

ReadStatus ==
    /\ asked > 0 /\ asked' = asked - 1
    /\ answers' = [answers EXCEPT ![HasUnfinished] = @ + 1]
    /\ UNCHANGED <<added, dot, budget, bystanders>>

PushStatus(value) ==
    /\ answers[value] > 0 /\ answers' = [answers EXCEPT ![value] = @ - 1]
    /\ Push(value)
    /\ UNCHANGED <<added, asked, budget, bystanders>>

\* The query fails, which is only logged.
LoseStatus ==
    /\ asked > 0 /\ Spend("faults")
    /\ asked' = asked - 1
    /\ UNCHANGED <<added, answers, dot, bystanders>>

Server == Announce \/ ReadStatus \/ \E value \in BOOLEAN : PushStatus(value)

-----------------------------------------------------------------------------
(* Stored models, read chunk by chunk.                                     *)

\* Slip: an emptied model is sent as it is.
WithWhatIsThere(parts, j) == Append(parts, rows[j].file)

\* readQueueJobFileChunk: nothing of a job that is deleted or has no model.
WithChunk(parts, j) ==
    IF Stored(j) THEN Append(parts, rows[j].file) ELSE parts

\* Another chunk is read unless there are no more or the last one was empty.
ReadOn(reader, done) ==
    LET parts == WithChunk(reader.parts, reader.job)
    IN [reader EXCEPT !.parts = parts,
          !.step = IF Len(parts) >= Chunks \/ parts = reader.parts THEN done ELSE @]

IsWhole(parts) == Len(parts) = Chunks /\ \A i \in 1..Chunks : parts[i] = parts[1]

downloadVars == <<rows, server, backfill, tab, swapped, apart>>

\* getQueueJobFileMeta.
StartDownload(j) ==
    /\ download.step = "idle" /\ Stored(j) /\ Spend("downloads")
    /\ download' = [NoReader EXCEPT !.step = "read", !.job = j]
    /\ UNCHANGED downloadVars

ReadDownload ==
    /\ download.step = "read"
    /\ download' = ReadOn(download, "sent")
    /\ UNCHANGED <<budget, downloadVars>>

EndDownload ==
    /\ download.step = "sent"
    /\ download' = NoReader
    /\ UNCHANGED <<budget, downloadVars>>

Download == ReadDownload \/ EndDownload \/ \E j \in Jobs : StartDownload(j)

-----------------------------------------------------------------------------
(* The backfill of estimates, once per boot.                               *)

backfillVars == <<server, download, tab, budget, swapped, apart>>

\* markQueueJobsUnestimatable.
Dismiss ==
    /\ backfill.step = "boot"
    /\ rows' = [j \in Jobs |->
         IF Live(j) /\ rows[j].form /\ rows[j].source = Unknown /\ rows[j].file = NoFile
         THEN [rows[j] EXCEPT !.source = "none"] ELSE rows[j]]
    /\ backfill' = [backfill EXCEPT !.step = "list"]
    /\ UNCHANGED backfillVars

Needing ==
    {j \in Jobs : Stored(j) /\ rows[j].form /\ rows[j].source = Unknown}

ListBatch ==
    /\ backfill.step = "list"
    /\ backfill' = [NoReader EXCEPT !.step = IF Needing = {} THEN "done" ELSE "pick", !.batch = Needing]
    /\ UNCHANGED <<rows, backfillVars>>

\* Slip: the chunks of the job before are kept.
PickOn(j) ==
    /\ backfill.step = "pick" /\ j \in backfill.batch
    /\ backfill' = [backfill EXCEPT !.step = "read", !.job = j, !.batch = @ \ {j}]
    /\ UNCHANGED <<rows, backfillVars>>

Pick(j) ==
    /\ backfill.step = "pick" /\ j \in backfill.batch
    /\ backfill' = [backfill EXCEPT !.step = "read", !.job = j, !.parts = <<>>, !.batch = @ \ {j}]
    /\ UNCHANGED <<rows, backfillVars>>

ReadModel ==
    /\ backfill.step = "read"
    /\ backfill' = ReadOn(backfill, "stamp")
    /\ UNCHANGED <<rows, backfillVars>>

\* Slip: what could not be estimated is left as it was.
OrUnknown(parts) == IF IsWhole(parts) THEN {parts[1], Unknown} ELSE {Unknown}

\* What an estimate of these bytes may be.
Estimates(parts) ==
    IF IsWhole(parts) THEN {parts[1], "none"} ELSE IF parts = <<>> THEN {"none"} ELSE {Mixed, "none"}

\* updateQueueJobEstimate.
Stamp ==
    /\ backfill.step = "stamp"
    /\ \E source \in Estimates(backfill.parts) :
         rows' = IF Live(backfill.job) THEN [rows EXCEPT ![backfill.job].source = source] ELSE rows
    /\ backfill' = [backfill EXCEPT !.step = IF backfill.batch = {} THEN "list" ELSE "pick",
                      !.job = NoRow]
    /\ UNCHANGED backfillVars

Backfill == Dismiss \/ ListBatch \/ ReadModel \/ Stamp \/ \E j \in Jobs : Pick(j)

-----------------------------------------------------------------------------
(* The tab.                                                                *)

tabVars == <<rows, server, backfill, download, swapped, apart>>

Fetch(r) ==
    /\ fetches[r].step = "idle" /\ r \in budget.polls
    /\ (r = "action" => Waiting > 0)
    /\ fetches' = [fetches EXCEPT ![r].step = "asked"]
    /\ UNCHANGED <<connected, dot, page, budget, tabVars>>

\* listQueueData reads its two lists at once.
ReadList(r, printed) ==
    LET list == IF printed THEN "history" ELSE "queue"
    IN /\ fetches[r].step = "asked" /\ fetches[r][list] = Unread
       /\ fetches' = [fetches EXCEPT ![r][list] = Listed(printed)]
       /\ UNCHANGED <<connected, dot, page, budget, tabVars>>

\* Slip: the poll leaves the dot to the pushes.
DotAsPushed(fetch) == dot

DotOf(fetch) == fetch.queue # {}

\* Slip: the page's poll leaves the history as it was.
QueueOnly(fetch) == [page EXCEPT !.queue = fetch.queue]

Shown(fetch) == [queue |-> fetch.queue, history |-> fetch.history]

Apply(r) ==
    /\ fetches[r].step = "asked" /\ fetches[r].queue # Unread /\ fetches[r].history # Unread
    /\ fetches' = [fetches EXCEPT ![r] = NoFetch]
    /\ IF r = "sidebar" THEN dot' = DotOf(fetches[r]) /\ page' = page
                        ELSE page' = Shown(fetches[r]) /\ dot' = dot
    /\ UNCHANGED <<connected, budget, tabVars>>

\* A failed poll turns the dot off and leaves the page.
FailFetch(r) ==
    /\ fetches[r].step = "asked" /\ Spend("faults")
    /\ fetches' = [fetches EXCEPT ![r] = NoFetch]
    /\ dot' = (dot /\ r # "sidebar")
    /\ UNCHANGED <<connected, page, tabVars>>

Disconnect ==
    /\ connected /\ Spend("faults")
    /\ connected' = FALSE
    /\ UNCHANGED <<dot, page, fetches, tabVars>>

Reconnect ==
    /\ ~connected /\ connected' = TRUE
    /\ UNCHANGED <<dot, page, fetches, budget, tabVars>>

\* The web server stops: the status queries, the download and the backfill end,
\* the stream breaks, and the backfill begins anew.
Crash ==
    /\ Spend("faults")
    /\ added' = 0 /\ asked' = 0 /\ answers' = [b \in BOOLEAN |-> 0]
    /\ backfill' = [NoReader EXCEPT !.step = "boot"] /\ download' = NoReader
    /\ connected' = FALSE
    /\ UNCHANGED <<rows, dot, page, fetches, swapped, apart>>

Refresh(r) == Fetch(r) \/ Apply(r) \/ \E printed \in BOOLEAN : ReadList(r, printed)

Next ==
    \/ Request \/ Server \/ LoseStatus \/ Download \/ Backfill
    \/ \E r \in Readers : Refresh(r) \/ FailFetch(r)
    \/ Disconnect \/ Reconnect \/ Crash

Spec == Init /\ [][Next]_vars

\* Both polls recur (useAutoRefresh), queries are answered, and the backfill
\* goes on; nothing makes anybody use the queue.
FairSpec ==
    /\ Spec
    /\ WF_vars(Server) /\ WF_vars(Backfill)
    /\ \A r \in Readers : WF_vars(Refresh(r))

-----------------------------------------------------------------------------
(* What the queue promises.                                                *)

Reader ==
    [step : {"idle", "boot", "list", "pick", "read", "stamp", "sent", "done"}, batch : SUBSET Jobs,
     job : Jobs \cup {NoRow}, parts : Seq(Models)]
List == (SUBSET Jobs) \cup {Unread}

\* The rows, the readers and the tab keep the shape their types give them.
TypeOK ==
    /\ rows \in [Jobs -> Job \cup {NoRow}] /\ {swapped, apart} \subseteq SUBSET Jobs /\ budget \in Budgets
    /\ added \in Nat /\ asked \in Nat /\ answers \in [BOOLEAN -> Nat]
    /\ {backfill, download} \subseteq Reader
    /\ page \in [queue : SUBSET Jobs, history : SUBSET Jobs]
    /\ fetches \in [Readers -> [step : {"idle", "asked"}, queue : List, history : List]]
    /\ connected \in BOOLEAN /\ dot \in BOOLEAN

\* The sidebar's poll makes the dot right whatever pushes were lost or came out of order ...
DotConverges == "sidebar" \in budget.polls => <>[](dot = Unfinished)

\* ... and the page's own poll does the same for its lists, which are read by
\* separate statements and answered in any order.
PageConverges == "auto" \in budget.polls =>
    <>[](page = [queue |-> Listed(FALSE), history |-> Listed(TRUE)])

\* The backfill ends, whatever is printed, deleted, restored or uploaded while
\* it reads (queueEstimateBackfill.js: the stamp, not a cursor, makes it end).
BackfillEnds == <>[](backfill.step = "done")

\* A download that sent all its bytes sent one model, unless the job was given another
\* one, or restored, as it was read.
DownloadIsWhole ==
    download.step = "sent" /\ Len(download.parts) = Chunks =>
        IsWhole(download.parts) \/ download.job \in swapped

\* The backfill never leaves on a stored model an estimate of other bytes: those cut
\* short by a print or a deletion are stamped only on rows that have lost the model.
\* Only a manifest or an upload, which the code does not compare, puts the two apart.
EstimateIsOfModel ==
    \A j \in Jobs : Stored(j) /\ j \notin swapped \cup apart =>
        rows[j].source \in {rows[j].file, "none", Unknown}
=============================================================================
