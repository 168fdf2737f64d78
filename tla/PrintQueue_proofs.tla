-------------------------- MODULE PrintQueue_proofs --------------------------
(***************************************************************************)
(* No download mixes two models and no estimate is of another model, for   *)
(* any jobs, requests, crashes and failing queries.  Neither is inductive: *)
(* what a reader has so far must be known to be of the model that is       *)
(* stored, and a reader that stopped early must be known to have found the *)
(* row without a model, until the row is swapped.                          *)
(***************************************************************************)
EXTENDS PrintQueue, TLAPS

Parts(parts) == \A i \in 1..Len(parts) : parts[i] = parts[1]

\* What a reader has of a job whose model has not been swapped.
Reads(reader) ==
    /\ reader.step = "read" => Len(reader.parts) < Chunks
    /\ reader.job # NoRow =>
        /\ rows[reader.job] # NoRow
        /\ reader.job \notin swapped =>
            /\ Parts(reader.parts)
            /\ Stored(reader.job) /\ reader.parts # <<>> => reader.parts[1] = rows[reader.job].file
            /\ reader.step = "stamp" /\ Stored(reader.job) => Len(reader.parts) = Chunks

\* Every job of the backfill's batch has a row.
Batched == \A j \in backfill.batch : rows[j] # NoRow

Inv ==
    /\ Batched
    /\ TypeOK /\ EstimateIsOfModel
    /\ Reads(backfill) /\ Reads(download)
    /\ download.step # "idle" => download.job # NoRow
    /\ backfill.step \in {"read", "stamp"} => backfill.job # NoRow

-----------------------------------------------------------------------------
LEMMA EmptyReader ==
    /\ NoReader \in Reader /\ NoReader.job = NoRow /\ NoReader.step = "idle"
    /\ NoReader.parts = <<>> /\ NoReader.batch = {}
<1>1. <<>> \in Seq(Models)
    OBVIOUS
<1> QED
    BY <1>1 DEF NoReader, Reader

LEMMA Begins == Init => Inv
<1> SUFFICES ASSUME Init PROVE Inv
    OBVIOUS
<1>1. budget \in Budgets /\ rows = budget.rows
    BY ConstantsAssumption DEF Init
<1>2. rows \in [Jobs -> Job \cup {NoRow}]
    BY <1>1 DEF Budgets
<1>3. page \in [queue : SUBSET Jobs, history : SUBSET Jobs]
    BY DEF Init, Listed
<1>4. backfill \in Reader /\ backfill.job = NoRow /\ backfill.step = "boot" /\ backfill.batch = {}
    BY EmptyReader DEF Init, Reader
<1>5. fetches \in [Readers -> [step : {"idle", "asked"}, queue : List, history : List]]
    BY DEF Init, NoFetch, List
<1>7. TypeOK
    BY <1>1, <1>2, <1>3, <1>4, <1>5, EmptyReader DEF Init, TypeOK, Unfinished
<1>6. EstimateIsOfModel
    BY <1>1, ConstantsAssumption DEF Init, EstimateIsOfModel, Stored
<1> QED
    BY <1>4, <1>6, <1>7, EmptyReader DEF Init, Inv, Reads, Batched

-----------------------------------------------------------------------------
(* Changes of the rows.                                                    *)

\* A row comes to stay, and a model that is read changes only if the job is swapped.
Undisturbed ==
    /\ swapped \subseteq swapped'
    /\ \A j \in Jobs : rows[j] # NoRow =>
        /\ rows'[j] # NoRow
        /\ BeingRead(j) /\ j \notin swapped' /\ Stored(j)' => Stored(j) /\ rows'[j].file = rows[j].file

LEMMA Kept ==
    ASSUME TypeOK, Undisturbed, NEW reader \in {backfill, download}, Reads(reader),
           NEW next \in Reader, next = reader
    PROVE  /\ next.step = "read" => Len(next.parts) < Chunks
           /\ next.job # NoRow =>
               /\ rows'[next.job] # NoRow
               /\ next.job \notin swapped' =>
                   /\ Parts(next.parts)
                   /\ Stored(next.job)' /\ next.parts # <<>> => next.parts[1] = rows'[next.job].file
                   /\ next.step = "stamp" /\ Stored(next.job)' => Len(next.parts) = Chunks
<1>1. next.job # NoRow => next.job \in Jobs /\ BeingRead(next.job)
    BY DEF Reader, BeingRead
<1> QED
    BY <1>1 DEF Reads, Undisturbed

\* A change of one row.
LEMMA OneRow ==
    ASSUME Inv, NEW j \in Jobs, NEW row \in Job, rows' = [rows EXCEPT ![j] = row],
           swapped' \in {swapped, swapped \cup {j}}, apart' \in {apart, apart \cup {j}},
           j \notin swapped' /\ BeingRead(j) /\ rows[j] # NoRow /\ HasModel(row) =>
               Stored(j) /\ row.file = rows[j].file,
           j \notin swapped' \cup apart' /\ HasModel(row) => row.source \in {row.file, "none", Unknown}
    PROVE  /\ rows' \in [Jobs -> Job \cup {NoRow}] /\ swapped' \subseteq Jobs /\ apart' \subseteq Jobs
           /\ Undisturbed /\ EstimateIsOfModel'
<1>1. rows \in [Jobs -> Job \cup {NoRow}] /\ swapped \subseteq Jobs /\ apart \subseteq Jobs /\ row # NoRow
    BY ConstantsAssumption DEF Inv, TypeOK
<1>2. rows'[j] = row /\ \A k \in Jobs \ {j} : rows'[k] = rows[k]
    BY <1>1
<1>3. Undisturbed
    BY <1>1, <1>2 DEF Undisturbed, Stored
<1>4. EstimateIsOfModel'
    BY <1>1, <1>2 DEF Inv, EstimateIsOfModel, Stored
<1> QED
    BY <1>1, <1>3, <1>4

\* A change of many rows that leaves models and estimates alone.
LEMMA ManyRows ==
    ASSUME Inv, swapped' = swapped, apart' = apart, rows' \in [Jobs -> Job \cup {NoRow}],
           \A j \in Jobs :
               \/ rows'[j] = rows[j]
               \/ /\ rows[j] # NoRow /\ rows'[j] # NoRow /\ rows'[j].file = rows[j].file
                  /\ rows[j].deleted => rows'[j].deleted
                  /\ rows'[j].source \in {rows[j].source, "none"}
    PROVE  Undisturbed /\ EstimateIsOfModel'
<1>1. Undisturbed
    BY DEF Undisturbed, Stored, HasModel, Inv, TypeOK
<1>2. EstimateIsOfModel'
    BY DEF EstimateIsOfModel, Stored, HasModel, Inv, TypeOK, Job
<1> QED
    BY <1>1, <1>2

LEMMA Spent ==
    ASSUME TypeOK, NEW kind \in {"requests", "imports", "uploads", "downloads", "faults"}, Spend(kind)
    PROVE  budget' \in Budgets
BY DEF TypeOK, Spend, Budgets

LEMMA Changed ==
    ASSUME Inv, NEW new, Change(new), rows' \in [Jobs -> Job \cup {NoRow}],
           swapped' \subseteq Jobs, apart' \subseteq Jobs, Undisturbed, EstimateIsOfModel', budget' \in Budgets, added' \in Nat, asked' \in Nat
    PROVE  Inv'
<1>1. UNCHANGED <<answers, backfill, download, connected, dot, page, fetches>>
    BY DEF Change, tab
<1>2. TypeOK'
    BY <1>1 DEF Inv, TypeOK
<1>3. backfill' \in Reader /\ download' \in Reader
    BY <1>2 DEF TypeOK
<1>4. Reads(backfill)'
    BY <1>1, <1>3, Kept DEF Inv, Reads
<1>5. Reads(download)'
    BY <1>1, <1>3, Kept DEF Inv, Reads
<1>6. Batched'
    BY <1>1 DEF Inv, Batched, Undisturbed, TypeOK, Reader
<1> QED
    BY <1>1, <1>2, <1>4, <1>5, <1>6 DEF Inv

LEMMA Requested == Inv /\ Request => Inv'
<1> SUFFICES ASSUME Inv, Request PROVE Inv'
    OBVIOUS
<1>1. /\ rows \in [Jobs -> Job \cup {NoRow}] /\ added \in Nat /\ asked \in Nat
      /\ swapped \subseteq Jobs /\ apart \subseteq Jobs /\ TypeOK
    BY DEF Inv, TypeOK
<1>2. ASSUME NEW j \in Jobs, NEW m \in Models, Submit(j, m) PROVE Inv'
    <2>1. PICK source \in {m, "none"} : Change([rows EXCEPT ![j] = Row(TRUE, FALSE, m, source)])
        BY <1>2 DEF Submit
    <2> DEFINE row == Row(TRUE, FALSE, m, source)
    <2>2. row \in Job /\ row.file = m /\ row.source = source
        BY DEF Row, Job, Sources
    <2>3. rows' = [rows EXCEPT ![j] = row] /\ swapped' = swapped /\ apart' = apart /\ rows[j] = NoRow
        BY <1>2, <2>1 DEF Submit, Change
    <2> HIDE DEF row
    <2>4. /\ rows' \in [Jobs -> Job \cup {NoRow}] /\ swapped' \subseteq Jobs /\ apart' \subseteq Jobs
          /\ Undisturbed /\ EstimateIsOfModel'
        BY <2>2, <2>3, OneRow
    <2> QED
        BY <1>1, <1>2, <2>1, <2>4, Changed, Spent DEF Submit
<1>3. ASSUME NEW j \in Jobs, MarkPrinted(j) PROVE Inv'
    <2> DEFINE row == [rows[j] EXCEPT !.printed = TRUE, !.file = NoFile]
    <2>1. row \in Job /\ row.file = NoFile
        BY <1>1, <1>3 DEF MarkPrinted, Live, Job
    <2>2. rows' = [rows EXCEPT ![j] = row] /\ swapped' = swapped /\ apart' = apart
        BY <1>1, <1>3 DEF MarkPrinted, Change
    <2> HIDE DEF row
    <2>3. /\ rows' \in [Jobs -> Job \cup {NoRow}] /\ swapped' \subseteq Jobs /\ apart' \subseteq Jobs
          /\ Undisturbed /\ EstimateIsOfModel'
        BY <2>1, <2>2, OneRow DEF HasModel
    <2> QED
        BY <1>1, <1>3, <2>3, Changed, Spent DEF MarkPrinted, Broadcast
<1>4. ASSUME NEW J \in SUBSET Jobs, Delete(J) PROVE Inv'
    <2>1. rows' = [j \in Jobs |-> IF j \in J THEN [rows[j] EXCEPT !.deleted = TRUE] ELSE rows[j]]
        BY <1>4 DEF Delete, Change
    <2>2. ASSUME NEW j \in J PROVE
              /\ rows'[j] \in Job /\ rows[j] # NoRow /\ rows'[j].file = rows[j].file
              /\ rows'[j].deleted /\ rows'[j].source = rows[j].source
        BY <1>1, <1>4, <2>1 DEF Delete, Live, Job
    <2>3. rows' \in [Jobs -> Job \cup {NoRow}] /\ swapped' = swapped /\ apart' = apart
        BY <1>1, <1>4, <2>1, <2>2 DEF Delete
    <2>4. Undisturbed /\ EstimateIsOfModel'
        <3>1. ASSUME NEW j \in Jobs PROVE
                  \/ rows'[j] = rows[j]
                  \/ /\ rows[j] # NoRow /\ rows'[j] # NoRow /\ rows'[j].file = rows[j].file
                     /\ rows[j].deleted => rows'[j].deleted
                     /\ rows'[j].source \in {rows[j].source, "none"}
            BY <2>1, <2>2, ConstantsAssumption
        <3> QED
            BY <2>3, <3>1, ManyRows
    <2> QED
        BY <1>1, <1>4, <2>3, <2>4, Changed, Spent DEF Delete, Broadcast
<1>5. ASSUME Reset PROVE Inv'
    <2>1. rows' = [j \in Jobs |-> IF Live(j) /\ rows[j].form THEN [rows[j] EXCEPT !.printed = FALSE]
                                  ELSE rows[j]]
        BY <1>5 DEF Reset, Change
    <2>2. ASSUME NEW j \in Jobs, Live(j) PROVE
              LET row == [rows[j] EXCEPT !.printed = FALSE]
              IN  row \in Job /\ row.file = rows[j].file /\ row.source = rows[j].source /\ ~rows[j].deleted
        BY <1>1, <2>2 DEF Live, Job
    <2>3. rows' \in [Jobs -> Job \cup {NoRow}] /\ swapped' = swapped /\ apart' = apart
        BY <1>1, <1>5, <2>1, <2>2 DEF Reset
    <2>4. Undisturbed /\ EstimateIsOfModel'
        <3>1. ASSUME NEW j \in Jobs PROVE
                  \/ rows'[j] = rows[j]
                  \/ /\ rows[j] # NoRow /\ rows'[j] # NoRow /\ rows'[j].file = rows[j].file
                     /\ rows[j].deleted => rows'[j].deleted
                     /\ rows'[j].source \in {rows[j].source, "none"}
            BY <2>1, <2>2, ConstantsAssumption DEF Live
        <3> QED
            BY <2>3, <3>1, ManyRows
    <2> QED
        BY <1>1, <1>5, <2>3, <2>4, Changed, Spent DEF Reset, Broadcast
<1>6. ASSUME NEW j \in Jobs, NEW form \in BOOLEAN, NEW printed \in BOOLEAN, Upsert(j, form, printed)
      PROVE  Inv'
    <2> DEFINE row == IF rows[j] = NoRow THEN Row(form, printed, NoFile, Unknown)
                      ELSE [rows[j] EXCEPT !.form = form]
    <2>1. /\ row \in Job
          /\ rows[j] = NoRow => row.file = NoFile
          /\ rows[j] # NoRow => row.file = rows[j].file /\ row.source = rows[j].source /\ row.deleted = rows[j].deleted
        BY <1>1 DEF Row, Job, Sources
    <2>2. rows' = [rows EXCEPT ![j] = row] /\ swapped' = swapped /\ apart' = apart
        BY <1>1, <1>6 DEF Upsert, Change
    <2> HIDE DEF row
    <2>3. HasModel(row) => Stored(j)
        BY <2>1 DEF HasModel, Stored
    <2>4. /\ rows' \in [Jobs -> Job \cup {NoRow}] /\ swapped' \subseteq Jobs /\ apart' \subseteq Jobs
          /\ Undisturbed /\ EstimateIsOfModel'
        BY <2>1, <2>2, <2>3, OneRow DEF Inv, EstimateIsOfModel, Stored
    <2> QED
        BY <1>1, <1>6, <2>4, Changed, Spent DEF Upsert, Broadcast
<1>7. ASSUME NEW j \in Jobs, NEW printed \in BOOLEAN, NEW source \in Sources, Import(j, printed, source)
      PROVE  Inv'
    <2> DEFINE file == IF rows[j] = NoRow THEN NoFile ELSE rows[j].file
               row == Row(TRUE, printed, file, source)
    <2>1. row \in Job /\ row.source = source /\ row.file = file
        BY <1>1 DEF Row, Job
    <2>2. rows' = [rows EXCEPT ![j] = row]
        BY <1>1, <1>7 DEF Import, Change
    <2>3. /\ swapped' \in {swapped, swapped \cup {j}} /\ apart' \in {apart, apart \cup {j}}
          /\ j \notin swapped' => ~BeingRead(j)
          /\ j \notin apart' => file = NoFile \/ source \in {file, "none", Unknown}
        BY <1>7 DEF Import, Swap
    <2> HIDE DEF row, file
    <2>4. /\ rows' \in [Jobs -> Job \cup {NoRow}] /\ swapped' \subseteq Jobs /\ apart' \subseteq Jobs
          /\ Undisturbed /\ EstimateIsOfModel'
        BY <2>1, <2>2, <2>3, OneRow DEF HasModel
    <2> QED
        BY <1>1, <1>7, <2>4, Changed, Spent DEF Import, Silence
<1>8. ASSUME NEW j \in Jobs, NEW m \in Models, PutFile(j, m) PROVE Inv'
    <2> DEFINE row == [rows[j] EXCEPT !.file = m]
    <2>1. row \in Job /\ row.source = rows[j].source /\ row.file = m
        BY <1>1, <1>8 DEF PutFile, Live, Job
    <2>2. rows' = [rows EXCEPT ![j] = row]
        BY <1>1, <1>8 DEF PutFile, Change
    <2>3. /\ swapped' \in {swapped, swapped \cup {j}} /\ apart' \in {apart, apart \cup {j}}
          /\ j \notin swapped' => ~BeingRead(j)
          /\ j \notin apart' => m = NoFile \/ rows[j].source \in {m, "none", Unknown}
        BY <1>8 DEF PutFile, Swap
    <2> HIDE DEF row
    <2>4. /\ rows' \in [Jobs -> Job \cup {NoRow}] /\ swapped' \subseteq Jobs /\ apart' \subseteq Jobs
          /\ Undisturbed /\ EstimateIsOfModel'
        BY <2>1, <2>2, <2>3, OneRow DEF HasModel
    <2> QED
        BY <1>1, <1>8, <2>4, Changed, Spent DEF PutFile, Silence
<1> QED
    BY <1>2, <1>3, <1>4, <1>5, <1>6, <1>7, <1>8 DEF Request

-----------------------------------------------------------------------------
(* Broadcasts and the tab leave rows and readers alone.                    *)

LEMMA Unmoved ==
    ASSUME Inv, TypeOK', UNCHANGED <<rows, swapped, apart, backfill, download>>
    PROVE  Inv'
<1>1. EstimateIsOfModel' /\ Reads(backfill)' /\ Reads(download)' /\ Batched'
    BY DEF Inv, EstimateIsOfModel, Reads, Stored, Batched
<1> QED
    BY <1>1 DEF Inv

LEMMA Pushed == Inv /\ (Server \/ LoseStatus) => Inv'
<1> SUFFICES ASSUME Inv, Server \/ LoseStatus PROVE Inv'
    OBVIOUS
<1>1. UNCHANGED <<rows, backfill, download, connected, page, fetches, swapped, apart>>
    BY DEF Server, Announce, ReadStatus, PushStatus, LoseStatus, bystanders
<1>2. added' \in Nat /\ asked' \in Nat /\ answers' \in [BOOLEAN -> Nat]
    <2>1. added \in Nat /\ asked \in Nat /\ answers \in [BOOLEAN -> Nat]
        BY DEF Inv, TypeOK
    <2>2. CASE Announce
        BY <2>1, <2>2 DEF Announce
    <2>5. CASE LoseStatus
        BY <2>1, <2>5 DEF LoseStatus
    <2>3. CASE ReadStatus
        <3>1. HasUnfinished \in BOOLEAN
            BY DEF HasUnfinished, Unfinished
        <3>2. answers[HasUnfinished] + 1 \in Nat
            BY <2>1, <3>1
        <3>3. answers' \in [BOOLEAN -> Nat]
            BY <2>1, <2>3, <3>2 DEF ReadStatus
        <3> QED
            BY <2>1, <2>3, <3>3 DEF ReadStatus
    <2>4. ASSUME NEW value \in BOOLEAN, PushStatus(value)
          PROVE  added' \in Nat /\ asked' \in Nat /\ answers' \in [BOOLEAN -> Nat]
        <3>1. answers[value] \in Nat /\ answers[value] > 0
            BY <2>1, <2>4 DEF PushStatus
        <3>2. answers[value] - 1 \in Nat
            BY <3>1
        <3>3. answers' \in [BOOLEAN -> Nat]
            BY <2>1, <2>4, <3>2 DEF PushStatus
        <3> QED
            BY <2>1, <2>4, <3>3 DEF PushStatus
    <2> QED
        BY <2>2, <2>3, <2>4, <2>5 DEF Server
<1>3. budget' \in Budgets /\ dot' \in BOOLEAN
    BY Spent DEF Server, Announce, ReadStatus, PushStatus, LoseStatus, Push, Inv, TypeOK
<1>4. TypeOK'
    BY <1>1, <1>2, <1>3 DEF Inv, TypeOK
<1> QED
    BY <1>1, <1>4, Unmoved

LEMMA Shows ==
    ASSUME Inv, \/ \E r \in Readers : Refresh(r) \/ FailFetch(r)
                \/ Disconnect \/ Reconnect
    PROVE  Inv'
<1>1. UNCHANGED <<rows, added, asked, answers, backfill, download, swapped, apart>> /\ connected' \in BOOLEAN
    BY DEF Refresh, Fetch, Apply, ReadList, FailFetch, Disconnect, Reconnect, tabVars, server, Inv, TypeOK
<1>2. budget' \in Budgets
    BY Spent DEF Refresh, Fetch, Apply, ReadList, FailFetch, Disconnect, Reconnect, Inv, TypeOK
<1>3. dot' \in BOOLEAN /\ page' \in [queue : SUBSET Jobs, history : SUBSET Jobs]
    <2>1. dot \in BOOLEAN /\ page \in [queue : SUBSET Jobs, history : SUBSET Jobs]
        BY DEF Inv, TypeOK
    <2>2. ASSUME NEW r \in Readers, Apply(r)
          PROVE  dot' \in BOOLEAN /\ page' \in [queue : SUBSET Jobs, history : SUBSET Jobs]
        <3>1. fetches[r].queue \in SUBSET Jobs /\ fetches[r].history \in SUBSET Jobs
            BY <2>2 DEF Apply, Inv, TypeOK, List
        <3>2. Shown(fetches[r]) \in [queue : SUBSET Jobs, history : SUBSET Jobs]
            BY <3>1 DEF Shown
        <3>3. DotOf(fetches[r]) \in BOOLEAN
            BY DEF DotOf
        <3> QED
            BY <2>1, <2>2, <3>2, <3>3 DEF Apply
    <2> QED
        BY <2>1, <2>2 DEF Refresh, Fetch, ReadList, FailFetch, Disconnect, Reconnect
<1> DEFINE Fetched == [step : {"idle", "asked"}, queue : List, history : List]
<1>4. fetches' \in [Readers -> Fetched]
    <2>1. fetches \in [Readers -> Fetched] /\ NoFetch \in Fetched
        <3>1. NoFetch \in Fetched
            BY DEF NoFetch, List
        <3> QED
            BY <3>1 DEF Inv, TypeOK
    <2>2. ASSUME NEW r \in Readers, Fetch(r) PROVE fetches' \in [Readers -> Fetched]
        BY <2>1, <2>2 DEF Fetch
    <2>3. ASSUME NEW r \in Readers, Apply(r) \/ FailFetch(r) PROVE fetches' \in [Readers -> Fetched]
        BY <2>1, <2>3 DEF Apply, FailFetch
    <2>4. ASSUME NEW r \in Readers, NEW printed \in BOOLEAN, ReadList(r, printed)
          PROVE  fetches' \in [Readers -> Fetched]
        <3>1. Listed(printed) \in List
            BY DEF Listed, List
        <3>2. CASE printed
            BY <2>1, <2>4, <3>1, <3>2 DEF ReadList
        <3>3. CASE ~printed
            BY <2>1, <2>4, <3>1, <3>3 DEF ReadList
        <3> QED
            BY <3>2, <3>3
    <2>5. CASE Disconnect \/ Reconnect
        BY <2>1, <2>5 DEF Disconnect, Reconnect
    <2> QED
        BY <2>2, <2>3, <2>4, <2>5 DEF Refresh
<1>5. TypeOK'
    BY <1>1, <1>2, <1>3, <1>4 DEF Inv, TypeOK
<1> QED
    BY <1>1, <1>5, Unmoved

-----------------------------------------------------------------------------
(* Readers.                                                                *)

\* Reading on keeps what a reader has of one model, and stops early only without one.
LEMMA ReadsOn ==
    ASSUME TypeOK, NEW reader \in Reader, Reads(reader), reader.step = "read", reader.job # NoRow,
           NEW done \in {"stamp", "sent"}
    PROVE  /\ ReadOn(reader, done) \in Reader /\ ReadOn(reader, done).job = reader.job
           /\ Reads(ReadOn(reader, done))
           /\ ReadOn(reader, done).step \in {"read", done}
<1> DEFINE j == reader.job
           parts == WithChunk(reader.parts, j)
           next == ReadOn(reader, done)
<1>1. j \in Jobs /\ reader.parts \in Seq(Models) /\ Len(reader.parts) < Chunks
    BY DEF Reader, Reads
<1>2. /\ Stored(j) => rows[j].file \in Models /\ parts = Append(reader.parts, rows[j].file)
      /\ ~Stored(j) => parts = reader.parts
    BY <1>1 DEF WithChunk, Stored, HasModel, TypeOK, Job
<1>3. parts \in Seq(Models)
    BY <1>1, <1>2
<1>4. /\ next \in Reader /\ next.job = j /\ next.parts = parts
      /\ next.step = IF Len(parts) >= Chunks \/ parts = reader.parts THEN done ELSE "read"
    BY <1>3 DEF ReadOn, Reader
<1>5. Stored(j) => Len(parts) = Len(reader.parts) + 1 /\ parts # reader.parts /\ Len(parts) <= Chunks
    BY <1>1, <1>2 DEF Chunks
<1>6. ASSUME j \notin swapped PROVE Parts(parts) /\ (Stored(j) /\ parts # <<>> => parts[1] = rows[j].file)
    <2>1. CASE Stored(j)
        <3>1. Parts(reader.parts) /\ (reader.parts # <<>> => reader.parts[1] = rows[j].file)
            BY <1>6, <2>1 DEF Reads
        <3>2. \A i \in 1..Len(parts) : parts[i] = IF i <= Len(reader.parts) THEN reader.parts[i] ELSE rows[j].file
            BY <1>1, <1>2, <2>1
        <3>3. reader.parts # <<>> => Len(reader.parts) > 0
            BY <1>1
        <3>4. \A i \in 1..Len(reader.parts) : reader.parts[i] = rows[j].file
            BY <1>1, <3>1, <3>3 DEF Parts
        <3>5. \A i \in 1..Len(parts) : parts[i] = rows[j].file
            BY <1>1, <1>5, <2>1, <3>2, <3>4
        <3>6. Len(parts) \in Nat /\ Len(parts) > 0
            BY <1>1, <1>5, <2>1
        <3> QED
            BY <3>5, <3>6 DEF Parts
    <2>2. CASE ~Stored(j)
        BY <1>2, <1>6, <2>2 DEF Reads
    <2> QED
        BY <2>1, <2>2
<1>8. next.step = "read" => Len(parts) < Chunks
    BY <1>3, <1>4 DEF Chunks
<1> HIDE DEF next, parts, j
<1>7. next.step = "stamp" /\ Stored(j) => Len(parts) = Chunks
    <2>1. next.step = "stamp" /\ Stored(j) => Len(parts) >= Chunks
        BY <1>4, <1>5
    <2>2. Stored(j) => Len(parts) <= Chunks
        BY <1>5
    <2>3. Len(parts) \in Nat /\ Chunks \in Nat
        BY <1>3 DEF Chunks
    <2>4. \A m, n \in Nat : m >= n /\ m <= n => m = n
        OBVIOUS
    <2> QED
        BY <2>1, <2>2, <2>3, <2>4
<1>9. Reads(next)
    BY <1>4, <1>6, <1>7, <1>8 DEF Reads, j
<1> QED
    BY <1>4, <1>9 DEF next, j

LEMMA Downloads == Inv /\ Download => Inv'
<1> SUFFICES ASSUME Inv, Download PROVE Inv'
    OBVIOUS
<1>1. UNCHANGED <<rows, added, asked, answers, backfill, connected, dot, page, fetches, swapped, apart>>
    BY DEF Download, StartDownload, ReadDownload, EndDownload, downloadVars, server, tab
<1>2. budget' \in Budgets
    BY Spent DEF Download, StartDownload, ReadDownload, EndDownload, Inv, TypeOK
<1>3. TypeOK /\ download \in Reader /\ Reads(download)
    BY DEF Inv, TypeOK
<1>4. download' \in Reader /\ Reads(download)' /\ (download'.step # "idle" => download'.job # NoRow)
    <2>1. CASE ReadDownload
        <3>1. download.step = "read" /\ download.job # NoRow /\ download' = ReadOn(download, "sent")
            BY <2>1 DEF ReadDownload, Inv
        <3>2. download' \in Reader /\ download'.job = download.job /\ Reads(ReadOn(download, "sent"))
            BY <1>3, <3>1, ReadsOn
        <3> QED
            BY <1>1, <3>1, <3>2 DEF Reads, Stored
    <2>2. CASE EndDownload
        BY <2>2, EmptyReader DEF EndDownload, Reads
    <2>3. ASSUME NEW j \in Jobs, StartDownload(j)
          PROVE  download' \in Reader /\ Reads(download)' /\ (download'.step # "idle" => download'.job # NoRow)
        <3>1. download' = [NoReader EXCEPT !.step = "read", !.job = j] /\ rows[j] # NoRow /\ j # NoRow
            BY <2>3, ConstantsAssumption DEF StartDownload, Stored
        <3>2. /\ download' \in Reader /\ download'.job = j /\ download'.parts = <<>>
              /\ download'.step = "read"
            BY <3>1, EmptyReader DEF Reader
        <3>3. Len(download'.parts) < Chunks /\ Parts(download'.parts)
            BY <3>2 DEF Parts, Chunks
        <3> QED
            BY <1>1, <3>1, <3>2, <3>3 DEF Reads
    <2> QED
        BY <2>1, <2>2, <2>3 DEF Download
<1>5. TypeOK'
    BY <1>1, <1>2, <1>4 DEF Inv, TypeOK
<1>6. EstimateIsOfModel' /\ Reads(backfill)' /\ Batched'
    BY <1>1 DEF Inv, EstimateIsOfModel, Reads, Stored, Batched
<1> QED
    BY <1>1, <1>4, <1>5, <1>6 DEF Inv

LEMMA Backfilled == Inv /\ Backfill => Inv'
<1> SUFFICES ASSUME Inv, Backfill PROVE Inv'
    OBVIOUS
<1>1. UNCHANGED <<added, asked, answers, download, connected, dot, page, fetches, budget, swapped, apart>>
    BY DEF Backfill, Dismiss, ListBatch, ReadModel, Stamp, Pick, backfillVars, server, tab
<1>2. TypeOK /\ backfill \in Reader /\ Reads(backfill) /\ rows \in [Jobs -> Job \cup {NoRow}]
    BY DEF Inv, TypeOK
<1>3. ASSUME UNCHANGED rows, backfill' \in Reader, Reads(backfill)',
             backfill'.step \in {"read", "stamp"} => backfill'.job # NoRow,
             \A j \in backfill'.batch : rows[j] # NoRow
      PROVE  Inv'
    <2>1. TypeOK'
        BY <1>1, <1>3 DEF Inv, TypeOK
    <2>2. EstimateIsOfModel' /\ Reads(download)'
        BY <1>1, <1>3 DEF Inv, EstimateIsOfModel, Reads, Stored
    <2> QED
        BY <1>1, <1>3, <2>1, <2>2 DEF Inv, Batched
<1>4. ASSUME rows' \in [Jobs -> Job \cup {NoRow}], Undisturbed, EstimateIsOfModel',
             backfill' \in Reader, backfill'.job = NoRow, backfill'.step \in {"list", "pick"},
             backfill'.batch = backfill.batch
      PROVE  Inv'
    <2>1. TypeOK'
        BY <1>1, <1>4 DEF Inv, TypeOK
    <2>2. download' \in Reader
        BY <2>1 DEF TypeOK
    <2>3. Reads(download)'
        BY <1>1, <1>2, <1>4, <2>2, Kept DEF Inv, Reads
    <2>4. Reads(backfill)'
        BY <1>4 DEF Reads
    <2>5. Batched'
        BY <1>2, <1>4 DEF Inv, Batched, Undisturbed, Reader
    <2> QED
        BY <1>1, <1>4, <2>1, <2>3, <2>4, <2>5 DEF Inv
<1>5. CASE Dismiss
    <2>1. /\ rows' = [j \in Jobs |->
                IF Live(j) /\ rows[j].form /\ rows[j].source = Unknown /\ rows[j].file = NoFile
                THEN [rows[j] EXCEPT !.source = "none"] ELSE rows[j]]
          /\ backfill' = [backfill EXCEPT !.step = "list"] /\ backfill.step = "boot"
        BY <1>5 DEF Dismiss
    <2>2. ASSUME NEW j \in Jobs, Live(j) PROVE
              LET row == [rows[j] EXCEPT !.source = "none"]
              IN  row \in Job /\ row.file = rows[j].file /\ row.source = "none" /\ ~rows[j].deleted
        BY <1>2, <2>2 DEF Live, Job, Sources
    <2>3. rows' \in [Jobs -> Job \cup {NoRow}]
        BY <1>2, <2>1, <2>2
    <2>4. ASSUME NEW j \in Jobs PROVE
              \/ rows'[j] = rows[j]
              \/ /\ rows[j] # NoRow /\ rows'[j] # NoRow /\ rows'[j].file = rows[j].file
                 /\ rows[j].deleted => rows'[j].deleted
                 /\ rows'[j].source \in {rows[j].source, "none"}
        BY <2>1, <2>2, ConstantsAssumption DEF Live
    <2>5. Undisturbed /\ EstimateIsOfModel'
        BY <1>1, <2>3, <2>4, ManyRows
    <2>6. /\ backfill' \in Reader /\ backfill'.step = "list" /\ backfill'.job = backfill.job
          /\ backfill'.parts = backfill.parts /\ backfill'.batch = backfill.batch
        BY <1>2, <2>1 DEF Reader
    <2>7. TypeOK' /\ download' \in Reader
        BY <1>1, <2>3, <2>6 DEF Inv, TypeOK
    <2>8. Reads(download)'
        BY <1>1, <1>2, <2>5, <2>7, Kept DEF Inv, Reads
    <2>9. Reads(backfill)'
        <3>1. backfill.job # NoRow => backfill.job \in Jobs /\ BeingRead(backfill.job)
            BY <1>2 DEF Reader, BeingRead
        <3> QED
            BY <1>1, <1>2, <2>5, <2>6, <3>1 DEF Reads, Undisturbed
    <2>10. Batched'
        BY <1>2, <2>5, <2>6 DEF Inv, Batched, Undisturbed, Reader
    <2> QED
        BY <1>1, <2>5, <2>6, <2>7, <2>8, <2>9, <2>10 DEF Inv
<1>6. CASE ListBatch
    <2>1. /\ UNCHANGED rows
          /\ backfill' = [NoReader EXCEPT !.step = IF Needing = {} THEN "done" ELSE "pick", !.batch = Needing]
        BY <1>6 DEF ListBatch
    <2>2. /\ backfill' \in Reader /\ backfill'.job = NoRow /\ backfill'.step \in {"done", "pick"}
          /\ backfill'.batch = Needing
        <3>1. Needing \subseteq Jobs
            BY DEF Needing
        <3> QED
            BY <2>1, <3>1, EmptyReader DEF Reader
    <2>4. \A j \in Needing : rows[j] # NoRow
        BY DEF Needing, Stored
    <2>3. Reads(backfill)'
        BY <2>2 DEF Reads
    <2> QED
        BY <1>3, <2>1, <2>2, <2>3, <2>4
<1>7. ASSUME NEW j \in Jobs, Pick(j) PROVE Inv'
    <2>1. /\ UNCHANGED rows
          /\ backfill' = [backfill EXCEPT !.step = "read", !.job = j, !.parts = <<>>, !.batch = @ \ {j}]
        BY <1>7 DEF Pick
    <2>2. /\ backfill' \in Reader /\ backfill'.job = j /\ backfill'.parts = <<>>
          /\ backfill'.step = "read" /\ backfill'.batch = backfill.batch \ {j}
        <3>1. <<>> \in Seq(Models)
            OBVIOUS
        <3> QED
            BY <1>2, <2>1, <3>1 DEF Reader
    <2>5. \A k \in backfill'.batch : rows[k] # NoRow
        BY <2>2 DEF Inv, Batched
    <2>6. Len(<<>>) < Chunks /\ Parts(<<>>)
        BY DEF Parts, Chunks
    <2>3. rows[j] # NoRow /\ j # NoRow
        BY <1>7, ConstantsAssumption DEF Pick, Inv, Batched
    <2>4. Reads(backfill)'
        BY <2>1, <2>2, <2>3, <2>6 DEF Reads
    <2> QED
        BY <1>3, <2>1, <2>2, <2>3, <2>4, <2>5
<1>8. CASE ReadModel
    <2>1. backfill.step = "read" /\ backfill.job # NoRow /\ backfill' = ReadOn(backfill, "stamp") /\ UNCHANGED rows
        BY <1>8 DEF ReadModel, Inv
    <2>2. backfill' \in Reader /\ backfill'.job = backfill.job /\ Reads(ReadOn(backfill, "stamp"))
        BY <1>2, <2>1, ReadsOn
    <2>4. backfill'.batch = backfill.batch
        BY <1>2, <2>1 DEF ReadOn, Reader
    <2>3. Reads(backfill)'
        BY <1>1, <2>1, <2>2 DEF Reads, Stored
    <2> QED
        BY <1>3, <2>1, <2>2, <2>3, <2>4 DEF Inv, Batched
<1>9. CASE Stamp
    <2> DEFINE j == backfill.job
    <2>1. PICK source \in Estimates(backfill.parts) :
              rows' = IF Live(j) THEN [rows EXCEPT ![j].source = source] ELSE rows
        BY <1>9 DEF Stamp
    <2>2. backfill.step = "stamp" /\ j # NoRow /\ j \in Jobs /\ backfill.parts \in Seq(Models)
        BY <1>2, <1>9 DEF Stamp, Inv, Reader
    <2>3. /\ backfill' \in Reader /\ backfill'.job = NoRow /\ backfill'.step \in {"list", "pick"}
          /\ backfill'.batch = backfill.batch
        BY <1>2, <1>9 DEF Stamp, Reader
    <2>4. source \in Models \cup {"none", Mixed}
        BY <2>1, <2>2 DEF Estimates, IsWhole, Chunks
    <2>5. CASE ~Live(j)
        <3>1. UNCHANGED rows /\ Undisturbed /\ EstimateIsOfModel'
            BY <1>1, <2>1, <2>5 DEF Undisturbed, Inv, EstimateIsOfModel, Stored
        <3> QED
            BY <1>2, <1>4, <2>3, <3>1
    <2>6. CASE Live(j)
        <3> DEFINE row == [rows[j] EXCEPT !.source = source]
        <3>1. row \in Job /\ row.source = source /\ row.file = rows[j].file /\ row.deleted = rows[j].deleted
            BY <1>2, <2>2, <2>4, <2>6 DEF Live, Job, Sources
        <3>2. rows' = [rows EXCEPT ![j] = row]
            BY <1>2, <2>1, <2>2, <2>6
        <3>3. ASSUME j \notin swapped \cup apart, Stored(j) PROVE source \in {rows[j].file, "none"}
            <4>1. Len(backfill.parts) = Chunks /\ Parts(backfill.parts) /\ backfill.parts[1] = rows[j].file
                BY <1>2, <2>2, <3>3 DEF Reads, Chunks
            <4>2. IsWhole(backfill.parts)
                BY <4>1 DEF IsWhole, Parts
            <4> QED
                BY <2>1, <4>1, <4>2 DEF Estimates
        <3> HIDE DEF row
        <3>4. HasModel(row) => Stored(j)
            BY <2>6, <3>1 DEF HasModel, Stored, Live
        <3>5. rows' \in [Jobs -> Job \cup {NoRow}] /\ Undisturbed /\ EstimateIsOfModel'
            BY <1>1, <2>2, <3>1, <3>2, <3>3, <3>4, OneRow
        <3> QED
            BY <1>4, <2>3, <3>5
    <2> QED
        BY <2>5, <2>6
<1> QED
    BY <1>5, <1>6, <1>7, <1>8, <1>9 DEF Backfill

LEMMA Crashes == Inv /\ Crash => Inv'
<1> SUFFICES ASSUME Inv, Crash PROVE Inv'
    OBVIOUS
<1>1. backfill' \in Reader /\ download' \in Reader
    BY EmptyReader DEF Crash, Reader
<1>2. TypeOK'
    BY <1>1, Spent DEF Crash, Inv, TypeOK
<1>3. EstimateIsOfModel'
    BY DEF Crash, Inv, EstimateIsOfModel, Stored
<1>4. backfill'.job = NoRow /\ backfill'.step = "boot" /\ backfill'.batch = {}
    BY EmptyReader DEF Crash, Reader
<1> QED
    BY <1>1, <1>2, <1>3, <1>4, EmptyReader DEF Crash, Inv, Reads, Batched

-----------------------------------------------------------------------------
LEMMA Step == Inv /\ [Next]_vars => Inv'
<1> SUFFICES ASSUME Inv, [Next]_vars PROVE Inv'
    OBVIOUS
<1>1. CASE UNCHANGED vars
    <2>1. TypeOK'
        BY <1>1 DEF vars, server, tab, Inv, TypeOK
    <2> QED
        BY <1>1, <2>1, Unmoved DEF vars
<1> QED
    BY <1>1, Requested, Pushed, Shows, Downloads, Backfilled, Crashes DEF Next

LEMMA Always == Spec => []Inv
    BY Begins, Step, PTL DEF Spec

\* The queue, its readers and the tab keep their shape.
THEOREM TypeCorrect == Spec => []TypeOK
<1>1. Inv => TypeOK
    BY DEF Inv
<1> QED
    BY <1>1, Always, PTL

\* Whatever is printed, deleted, restored or uploaded meanwhile, a download that sent all its
\* bytes sent one model, unless its job was given another, or restored, as it was read.
THEOREM DownloadsAreWhole == Spec => []DownloadIsWhole
<1>1. Inv => DownloadIsWhole
    BY DEF Inv, Reads, Parts, DownloadIsWhole, IsWhole
<1> QED
    BY <1>1, Always, PTL

\* The backfill never leaves on a stored model an estimate of another model or of mixed
\* bytes, whatever manifests say and whatever is printed, deleted, restored or uploaded.
THEOREM EstimatesAreOfModels == Spec => []EstimateIsOfModel
<1>1. Inv => EstimateIsOfModel
    BY DEF Inv
<1> QED
    BY <1>1, Always, PTL
=============================================================================
