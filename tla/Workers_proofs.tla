--------------------------- MODULE Workers_proofs ---------------------------
(***************************************************************************)
(* The web server's two workers: runMaintenanceWorkerPass beside the       *)
(* poller, the administrators and the staff, for any lists of intervals,   *)
(* hours, saves and failures; and the Home Assistant rule engine, an       *)
(* instance below, for any printers, entities, rules, edits and moves.     *)
(***************************************************************************)
EXTENDS Maintenance, HaRules, FiniteSetTheorems, WellFoundedInduction, TLAPS

-----------------------------------------------------------------------------
(* What is under way, and that ids are given in order.                     *)

Keys == Types \X (Nat \ {0})
Budget == [hours : 0..MaxHours, save : Nat, service : Nat, fault : Nat, worn : BOOLEAN, list : Lists]
Save == [step : SaveSteps, list : Lists]
PassSteps == {"idle", "backfill", "read", "open", "overdue", "mark overdue", "due", "mark due",
              "health", "write"}
Pass == [step : PassSteps, list : Lists \cup {NoSeed}, read : SUBSET Reads, hours : Nat,
         worn : BOOLEAN, low : BOOLEAN, schedules : SUBSET Keys, pending : SUBSET Event,
         done : SUBSET Event, own : SUBSET Nat]
Accrual == [step : {"idle", "accrued", "crossing"}, from : Nat, to : Nat, crossed : SUBSET Keys]

\* Rows of a type differ in when they were made.
Made(rows) ==
    /\ rows \subseteq Row /\ \E n \in Nat : \A r \in rows : r.born <= n
    /\ \A r, s \in rows : r.type = s.type /\ r.born = s.born => r = s

\* No id is given twice.
Distinct(tasks) == \A d, e \in tasks : d.id = e.id => d = e

Tables ==
    /\ defaults \in Lists /\ Made(schedules) /\ unread \subseteq Kinds \cup {"health"}
    /\ hours \in 0..MaxHours /\ worn \in BOOLEAN /\ low \in BOOLEAN
Tasks ==
    /\ events \subseteq Event /\ IsFiniteSet(events)
    /\ \A d, e \in Pending : Key(d) = Key(e) => d = e
    /\ lastId \in Nat /\ (\A e \in events : e.id <= lastId) /\ Distinct(events)
Passing ==
    /\ pass \in Pass /\ (pass.step = "idle" => pass = IdlePass)
    /\ pass.step = "backfill" => pass.list \in Lists /\ pass.read = {}
    /\ IsFiniteSet(pass.done) /\ (\A e \in pass.pending : e.id <= lastId) /\ Distinct(pass.pending)
Accruing ==
    /\ poller \in Accrual /\ (poller.step = "idle" => poller = IdlePoller)
    /\ poller.step # "idle" => poller.to = hours
Editing ==
    /\ saves \in [Admins -> Save \cup {NoSave}] /\ seeding \in Lists \cup {NoSeed}
    /\ budget \in Budget
Shape == Tables /\ Tasks /\ Passing /\ Accruing /\ Editing

-----------------------------------------------------------------------------
(* Numbers.                                                                *)

LEMMA DivideMore ==
    ASSUME NEW m \in Nat, NEW n \in Nat, m <= n, NEW i \in Nat \ {0}
    PROVE  m \div i \in Nat /\ m \div i <= n \div i
<1> DEFINE a == m \div i
           b == n \div i
<1>1. a \in Int /\ b \in Int /\ a * i <= m /\ n < (b + 1) * i
    OBVIOUS
<1>3. a \in Nat
    OBVIOUS
<1> HIDE DEF a, b
<1>2. ASSUME b < a PROVE FALSE
    <2>1. b + 1 <= a
        BY <1>1, <1>2
    <2>2. (b + 1) * i <= a * i
        BY <1>1, <2>1
    <2>3. n < m
        BY <1>1, <2>2
    <2> QED
        BY <2>3
<1> QED
    BY <1>1, <1>2, <1>3 DEF a, b

\* A set of naturals below a bound has a greatest element, which Max then is.
LEMMA Greatest ==
    ASSUME NEW S \in SUBSET Nat, S # {}, NEW n \in Nat, \A x \in S : x <= n
    PROVE  Max(S) \in S /\ \A x \in S : x <= Max(S)
<1> DEFINE T == {n - x : x \in S}
<1>1. \A x \in S : n - x \in Nat
    OBVIOUS
<1>2. T \in SUBSET Nat /\ T # {}
    BY <1>1
<1>3. PICK t \in T : \A u \in T : ~(<<u, t>> \in OpToRel(<, Nat))
    <2> HIDE DEF T
    <2> QED
        BY <1>2, NatLessThanWellFounded, WFMin
<1>4. \A u \in T : t <= u
    <2> SUFFICES ASSUME NEW u \in T, u < t PROVE FALSE
        BY <1>2
    <2>1. <<u, t>> \in Nat \X Nat /\ u < t
        BY <1>2
    <2> QED
        BY <1>3, <2>1 DEF OpToRel
<1>5. PICK m \in S : t = n - m
    OBVIOUS
<1>6. \A x \in S : m >= x
    BY <1>4, <1>5
<1> QED
    BY <1>6 DEF Max

LEMMA MaxOfNext ==
    ASSUME Tasks, NoteId, \A e \in events' : e.id \in Nat /\ e.id <= lastId + 1
    PROVE  lastId' \in Nat /\ lastId <= lastId' /\ \A e \in events' : e.id <= lastId'
<1> DEFINE S == {lastId} \cup {e.id : e \in events'}
<1>1. S \in SUBSET Nat /\ S # {} /\ \A x \in S : x <= lastId + 1
    BY DEF Tasks
<1>2. Max(S) \in S /\ \A x \in S : x <= Max(S)
    <2> HIDE DEF S
    <2>1. lastId + 1 \in Nat
        BY DEF Tasks
    <2> QED
        BY <1>1, <2>1, Greatest
<1> QED
    BY <1>1, <1>2 DEF NoteId

-----------------------------------------------------------------------------
(* The rows of maintenance_schedules.                                      *)

KeysOf(rows) == {Key(r) : r \in rows}
Graph(list) == {<<t, list[t]>> : t \in DOMAIN list}
OnTarget(list, rows) == \A r \in rows : r.type \in DOMAIN list => r.interval = list[r.type]

LEMMA ListTypes ==
    ASSUME NEW list \in Lists
    PROVE  DOMAIN list \subseteq Types /\ \A t \in DOMAIN list : list[t] \in Nat \ {0}
BY ConstantsAssumption

LEMMA NextIsNew ==
    ASSUME NEW rows, Made(rows)
    PROVE  /\ NextOf({r.born : r \in rows}) \in Nat
           /\ \A s \in rows : s.born \in Nat /\ s.born < NextOf({r.born : r \in rows})
<1> DEFINE S == {r.born : r \in rows}
<1>1. S \in SUBSET Nat /\ (\A r \in rows : r.born \in S) /\ \E n \in Nat : \A x \in S : x <= n
    BY DEF Made, Row
<1> HIDE DEF S
<1>2. CASE S = {}
    BY <1>1, <1>2 DEF NextOf, S
<1>3. CASE S # {}
    <2>1. Max(S) \in S /\ \A x \in S : x <= Max(S)
        BY <1>1, <1>3, Greatest
    <2>2. NextOf(S) = 1 + Max(S)
        BY <1>3 DEF NextOf
    <2>3. Max(S) \in Nat /\ \A x \in S : x \in Nat /\ x <= Max(S)
        BY <1>1, <2>1
    <2>4. NextOf(S) \in Nat /\ \A x \in S : x \in Nat /\ x < NextOf(S)
        <3> DEFINE m == Max(S)
        <3>1. m \in Nat /\ (\A x \in S : x \in Nat /\ x <= m) /\ NextOf(S) = 1 + m
            BY <2>2, <2>3
        <3> HIDE DEF m
        <3> QED
            BY <3>1
    <2> QED
        BY <1>1, <2>4 DEF S
<1> QED
    BY <1>2, <1>3

\* Seeding adds a row for each entry of the list that has none.
LEMMA SeededRows ==
    ASSUME NEW list \in Lists, NEW rows, Made(rows)
    PROVE  /\ Made(Seeded(list, rows)) /\ rows \subseteq Seeded(list, rows)
           /\ KeysOf(Seeded(list, rows)) = KeysOf(rows) \cup Graph(list)
           /\ \A r \in Seeded(list, rows) \ rows : r.type \in DOMAIN list /\ r.interval = list[r.type]
<1> DEFINE n == NextOf({r.born : r \in rows})
           new == Seeded(list, rows)
<1>1. n \in Nat /\ \A r \in rows : r.born \in Nat /\ r.born < n
    BY NextIsNew
<1>2. new = rows \cup {[type |-> t, interval |-> list[t], born |-> n] :
                            t \in {u \in DOMAIN list : <<u, list[u]>> \notin KeysOf(rows)}}
    BY DEF Seeded, Fresh, KeysOf
<1> HIDE DEF n, new
<1>3. \A r \in new \ rows :
        /\ r.type \in DOMAIN list /\ r.interval = list[r.type] /\ r.born = n
        /\ r = [type |-> r.type, interval |-> list[r.type], born |-> n]
    <2> SUFFICES ASSUME NEW r \in new \ rows
                 PROVE  /\ r.type \in DOMAIN list /\ r.interval = list[r.type] /\ r.born = n
                        /\ r = [type |-> r.type, interval |-> list[r.type], born |-> n]
        OBVIOUS
    <2>1. PICK t \in DOMAIN list : r = [type |-> t, interval |-> list[t], born |-> n]
        BY <1>2
    <2> QED
        BY <2>1
<1>4. new \subseteq Row
    <2> SUFFICES ASSUME NEW r \in new PROVE r \in Row
        OBVIOUS
    <2>1. CASE r \in rows
        BY <2>1 DEF Made
    <2>2. CASE r \notin rows
        <3>1. r.type \in Types /\ list[r.type] \in Nat \ {0}
            BY <1>3, <2>2, ListTypes
        <3> QED
            BY <1>1, <1>3, <2>2, <3>1 DEF Row
    <2> QED
        BY <2>1, <2>2
<1>5. \A r \in new : r.born <= n
    BY <1>1, <1>3
<1>6. ASSUME NEW r \in new, NEW s \in new, r.type = s.type, r.born = s.born PROVE r = s
    <2>1. CASE r \in rows /\ s \in rows
        BY <1>6, <2>1 DEF Made
    <2>2. CASE r \notin rows /\ s \notin rows
        BY <1>3, <1>6, <2>2
    <2>3. CASE (r \in rows) # (s \in rows)
        BY <1>1, <1>3, <1>6, <2>3
    <2> QED
        BY <2>1, <2>2, <2>3
<1>7. KeysOf(new) = KeysOf(rows) \cup Graph(list)
    <2>1. ASSUME NEW r \in new PROVE Key(r) \in KeysOf(rows) \cup Graph(list)
        <3>1. CASE r \in rows
            BY <3>1 DEF KeysOf
        <3>2. CASE r \notin rows
            BY <1>3, <3>2 DEF Key, Graph
        <3> QED
            BY <3>1, <3>2
    <2>2. ASSUME NEW t \in DOMAIN list PROVE <<t, list[t]>> \in KeysOf(new)
        <3>1. CASE <<t, list[t]>> \in KeysOf(rows)
            BY <1>2, <3>1 DEF KeysOf
        <3>2. CASE <<t, list[t]>> \notin KeysOf(rows)
            <4> DEFINE r == [type |-> t, interval |-> list[t], born |-> n]
            <4>1. r \in new /\ Key(r) = <<t, list[t]>>
                BY <1>2, <3>2 DEF Key
            <4> QED
                BY <4>1 DEF KeysOf
        <3> QED
            BY <3>1, <3>2
    <2>3. KeysOf(rows) \subseteq KeysOf(new)
        BY <1>2 DEF KeysOf
    <2> QED
        BY <2>1, <2>2, <2>3 DEF KeysOf, Graph
<1> QED
    BY <1>1, <1>2, <1>3, <1>4, <1>5, <1>6, <1>7 DEF new, Made

LEMMA FewerRows ==
    ASSUME NEW rows, Made(rows), NEW fewer \in SUBSET rows
    PROVE  Made(fewer)
BY DEF Made

\* Of the rows of a type the newest is kept.
LEMMA CollapsedRows ==
    ASSUME NEW rows, Made(rows)
    PROVE  /\ Made(Collapsed(rows))
           /\ \A r, s \in Collapsed(rows) : r.type = s.type => r = s
<1>1. Collapsed(rows) \in SUBSET rows
    BY DEF Collapsed
<1>2. ASSUME NEW r \in Collapsed(rows), NEW s \in Collapsed(rows), r.type = s.type PROVE r = s
    <2>1. r \in rows /\ s \in rows /\ r.born \in Nat /\ s.born \in Nat
        BY <1>1 DEF Made, Row
    <2>2. ~(r.born < s.born) /\ ~(s.born < r.born)
        BY <1>2, <2>1 DEF Collapsed
    <2> QED
        BY <1>2, <2>1, <2>2 DEF Made
<1> QED
    BY <1>1, <1>2, FewerRows

\* Retargeting changes intervals only.
LEMMA RetargetedRows ==
    ASSUME NEW list \in Lists, NEW rows, Made(rows)
    PROVE  Made(Retargeted(list, rows)) /\ OnTarget(list, Retargeted(list, rows))
<1> DEFINE to(r) == IF r.type \in DOMAIN list THEN [r EXCEPT !.interval = list[r.type]] ELSE r
<1>1. ASSUME NEW r \in rows
      PROVE  /\ to(r) \in Row /\ to(r).type = r.type /\ to(r).born = r.born
             /\ r.type \in DOMAIN list => to(r).interval = list[r.type]
    BY ListTypes DEF Made, Row
<1>2. Retargeted(list, rows) = {to(r) : r \in rows}
    BY DEF Retargeted
<1> HIDE DEF to
<1>3. OnTarget(list, Retargeted(list, rows))
    BY <1>1, <1>2 DEF OnTarget
<1>4. Made(Retargeted(list, rows))
    BY <1>1, <1>2 DEF Made
<1> QED
    BY <1>3, <1>4

\* No two rows of a type are given one interval if there are no two.
LEMMA LoneRowsDoNotCollide ==
    ASSUME NEW list, NEW rows, \A r, s \in rows : r.type = s.type => r = s
    PROVE  ~Collides(list, rows)
BY DEF Collides

-----------------------------------------------------------------------------
(* What each actor leaves alone.                                           *)

LEMMA PollerLeaves == Poller => UNCHANGED pollerVars
BY DEF Poller, Accrue, Cross, EndAccrual, LoseAccrual, OpenCrossed

LEMMA WorkerLeaves ==
    /\ Worker => UNCHANGED <<workerVars, raced, budget, failed>>
    /\ LosePass => UNCHANGED <<workerVars, history, schedules, events, unread, low>>
<1>1. StartPass \/ Backfill \/ EndOpen \/ AlertHealth \/ WriteHealth => UNCHANGED <<workerVars, raced, budget, failed>>
    BY DEF StartPass, Backfill, EndOpen, AlertHealth, WriteHealth, history
<1>2. ASSUME NEW query, Read(query) PROVE UNCHANGED <<workerVars, raced, budget, failed>>
    BY <1>2 DEF Read, history
<1>3. ASSUME NEW kind, Alert(kind) \/ NothingToAlert(kind) \/ Mark(kind)
      PROVE  UNCHANGED <<workerVars, raced, budget, failed>>
    BY <1>3 DEF Alert, NothingToAlert, Mark, history
<1>4. ASSUME NEW key, Open(key) PROVE UNCHANGED <<workerVars, raced, budget, failed>>
    BY <1>4 DEF Open
<1> QED
    BY <1>1, <1>2, <1>3, <1>4 DEF Worker, LosePass

LEMMA AdministratorLeaves == Administrator => UNCHANGED adminVars
BY DEF Administrator, StoreList, Collapse, Retarget, SeedMissing, DropRemoved, ClearPending, LoseSave, ReadList,
    SeedPrinter

LEMMA StaffLeaves == Staff => UNCHANGED staffVars
BY DEF Staff, Complete, MarkRead

-----------------------------------------------------------------------------
(* The shape of things is kept.                                            *)

LEMMA InitShape == Init => Shape
<1> SUFFICES ASSUME Init PROVE Shape
    OBVIOUS
<1>1. budget \in Budget /\ defaults \in Lists
    BY ConstantsAssumption DEF Init, Budget
<1>2. Tables
    <2>1. Made({})
        BY DEF Made
    <2>2. Made(schedules)
        BY <1>1, <2>1, SeededRows DEF Init
    <2>3. worn \in BOOLEAN /\ hours = 0 /\ unread = {} /\ low = FALSE
        BY <1>1 DEF Init, Budget
    <2>4. hours \in 0..MaxHours
        BY <2>3, ConstantsAssumption
    <2>5. unread \subseteq Kinds \cup {"health"} /\ low \in BOOLEAN
        BY <2>3
    <2> QED
        BY <1>1, <2>2, <2>3, <2>4, <2>5 DEF Tables
<1>3. Tasks
    BY FS_EmptySet DEF Init, Tasks, Pending, Distinct
<1>4. Passing
    BY FS_EmptySet DEF Init, Passing, Pass, PassSteps, IdlePass, Distinct
<1>5. Accruing /\ Editing
    BY <1>1 DEF Init, Accruing, Accrual, IdlePoller, Editing
<1> QED
    BY <1>2, <1>3, <1>4, <1>5 DEF Shape

LEMMA TablesKept ==
    ASSUME Shape, Next PROVE Tables'
<1>1. /\ defaults \in Lists /\ Made(schedules) /\ unread \subseteq Kinds \cup {"health"}
      /\ hours \in 0..MaxHours /\ worn \in BOOLEAN /\ low \in BOOLEAN
    BY DEF Shape, Tables
<1>2. ASSUME UNCHANGED <<defaults, schedules, hours, worn, low>>, unread' \subseteq Kinds \cup {"health"}
      PROVE  Tables'
    BY <1>1, <1>2 DEF Tables
<1>3. ASSUME UNCHANGED <<defaults, unread, hours, worn, low>>, Made(schedules') PROVE Tables'
    BY <1>1, <1>3 DEF Tables
<1>4. ASSUME NEW d \in 1..MaxHours, Accrue(d) PROVE Tables'
    <2>1. budget.hours \in 0..MaxHours
        BY DEF Shape, Editing, Budget
    <2>2. hours' \in 0..MaxHours
        BY <1>1, <1>4, <2>1, ConstantsAssumption DEF Accrue
    <2> QED
        BY <1>1, <1>4, <2>2 DEF Tables, Accrue, pollerVars
<1>5. CASE Backfill
    BY <1>1, <1>3, <1>5, SeededRows DEF Backfill, workerVars, history, Shape, Passing
<1>6. ASSUME NEW kind \in Kinds, Alert(kind) PROVE Tables'
    BY <1>1, <1>2, <1>6 DEF Alert, workerVars
<1>7. CASE AlertHealth
    BY <1>1, <1>2, <1>7 DEF AlertHealth, workerVars
<1>8. CASE WriteHealth
    <2>1. low' \in BOOLEAN
        BY <1>8 DEF WriteHealth, Low
    <2> QED
        BY <1>1, <1>8, <2>1 DEF WriteHealth, workerVars, Tables
<1>9. ASSUME NEW a \in Admins, NEW list \in Lists, StoreList(a, list) PROVE Tables'
    BY <1>1, <1>9 DEF StoreList, adminVars, Tables
<1>10. ASSUME NEW a \in Admins, saves[a] # NoSave PROVE saves[a] \in Save /\ saves[a].list \in Lists
    BY <1>10 DEF Shape, Editing, Save
<1>11. ASSUME NEW a \in Admins, Collapse(a) PROVE Tables'
    BY <1>1, <1>3, <1>11, CollapsedRows DEF Collapse, adminVars
<1>12. ASSUME NEW a \in Admins, Retarget(a) PROVE Tables'
    BY <1>1, <1>3, <1>10, <1>12, RetargetedRows DEF Retarget, Step, adminVars
<1>13. ASSUME NEW a \in Admins, SeedMissing(a) PROVE Tables'
    BY <1>1, <1>3, <1>10, <1>13, SeededRows DEF SeedMissing, Step, adminVars
<1>14. ASSUME NEW a \in Admins, DropRemoved(a) PROVE Tables'
    <2>1. Dropped(saves[a].list, schedules) \in SUBSET schedules
        BY DEF Dropped
    <2> QED
        BY <1>1, <1>3, <1>14, <2>1, FewerRows DEF DropRemoved, adminVars
<1>15. CASE SeedPrinter
    BY <1>1, <1>3, <1>15, SeededRows DEF SeedPrinter, adminVars, Shape, Editing
<1>16. ASSUME NEW e \in events, Complete(e) PROVE Tables'
    BY <1>1, <1>16 DEF Complete, staffVars, Tables
<1>17. ASSUME NEW kinds \in SUBSET unread, MarkRead(kinds) PROVE Tables'
    BY <1>1, <1>2, <1>17 DEF MarkRead, staffVars
<1>18. ASSUME UNCHANGED <<defaults, schedules, unread, hours, worn, low>> PROVE Tables'
    BY <1>1, <1>18 DEF Tables
<1>19. CASE Poller
    BY <1>4, <1>18, <1>19 DEF Poller, Cross, EndAccrual, LoseAccrual, OpenCrossed, pollerVars
<1>20. CASE Worker \/ LosePass
    <2>1. StartPass \/ EndOpen \/ LosePass => Tables'
        BY <1>18 DEF StartPass, EndOpen, LosePass, history, workerVars
    <2>2. ASSUME NEW query \in Reads, Read(query) PROVE Tables'
        BY <1>18, <2>2 DEF Read, workerVars, history
    <2>3. ASSUME NEW key \in pass.schedules, Open(key) PROVE Tables'
        BY <1>18, <2>3 DEF Open, workerVars
    <2>4. ASSUME NEW kind \in Kinds, NothingToAlert(kind) \/ Mark(kind) PROVE Tables'
        BY <1>18, <2>4 DEF NothingToAlert, Mark, workerVars, history
    <2> QED
        BY <1>5, <1>6, <1>7, <1>8, <1>20, <2>1, <2>2, <2>3, <2>4 DEF Worker
<1>21. CASE Administrator
    <2>1. ASSUME NEW a \in Admins, ClearPending(a) \/ LoseSave(a) PROVE Tables'
        BY <1>18, <2>1 DEF ClearPending, LoseSave, adminVars
    <2>2. ReadList => Tables'
        BY <1>18 DEF ReadList, adminVars
    <2> QED
        BY <1>9, <1>11, <1>12, <1>13, <1>14, <1>15, <1>21, <2>1, <2>2 DEF Administrator
<1> QED
    BY <1>16, <1>17, <1>19, <1>20, <1>21 DEF Next, Staff

-----------------------------------------------------------------------------
(* The tasks, of which there is at most one pending of a schedule.         *)

\* The tasks change in five ways.
Opening(key) == \/ key \in poller.crossed /\ OpenCrossed(key)
                \/ key \in pass.schedules /\ Open(key) /\ Due(key)
MarkingTasks == \E kind \in Kinds : Mark(kind)
Completing == \E e \in Pending : Complete(e)
Clearing == \E a \in Admins : ClearPending(a)

LEMMA EventSteps ==
    ASSUME Shape, Next
    PROVE  events' = events \/ (\E key \in Keys : Opening(key)) \/ MarkingTasks \/ Completing \/ Clearing
<1>1. poller.crossed \subseteq Keys /\ pass.schedules \subseteq Keys
    BY DEF Shape, Accruing, Accrual, Passing, Pass
<1>2. ASSUME NEW key \in pass.schedules, Open(key) PROVE events' = events \/ Opening(key)
    BY <1>2 DEF Open, Opening
<1>3. CASE Poller
    BY <1>1, <1>3 DEF Poller, Accrue, Cross, EndAccrual, LoseAccrual, Opening
<1>4. CASE Worker \/ LosePass
    <2>1. StartPass \/ Backfill \/ EndOpen \/ AlertHealth \/ WriteHealth \/ LosePass => events' = events
        BY DEF StartPass, Backfill, EndOpen, AlertHealth, WriteHealth, LosePass
    <2>2. ASSUME NEW query \in Reads, Read(query) PROVE events' = events
        BY <2>2 DEF Read
    <2>3. ASSUME NEW kind \in Kinds, Alert(kind) \/ NothingToAlert(kind) PROVE events' = events
        BY <2>3 DEF Alert, NothingToAlert
    <2> QED
        BY <1>1, <1>2, <1>4, <2>1, <2>2, <2>3 DEF Worker, MarkingTasks
<1>5. CASE Administrator
    BY <1>5 DEF Administrator, Clearing, StoreList, Collapse, Retarget, SeedMissing, DropRemoved, LoseSave,
        ReadList, SeedPrinter
<1>6. CASE Staff
    BY <1>6 DEF Staff, Completing, Complete, MarkRead
<1> QED
    BY <1>3, <1>4, <1>5, <1>6 DEF Next

LEMMA OpeningOpens ==
    ASSUME Shape, NEW key \in Keys, Opening(key)
    PROVE  \E at \in Nat : events' = Opened(key, at)
<1>1. CASE OpenCrossed(key)
    BY <1>1 DEF OpenCrossed, Shape, Accruing, Accrual
<1>2. CASE Open(key) /\ Due(key)
    <2>1. ServicesDone(key) \in Nat
        <3>1. {e \in pass.done : Key(e) = key} \in SUBSET pass.done
            OBVIOUS
        <3> QED
            BY <3>1, FS_Subset, FS_CardinalityType DEF Shape, Passing, ServicesDone
    <2>2. (ServicesDone(key) + 1) * key[2] \in Nat
        BY <2>1 DEF Keys
    <2> QED
        BY <1>2, <2>2 DEF Open
<1> QED
    BY <1>1, <1>2 DEF Opening

LEMMA MarkingSteps == Marking["due"] = "mark due" /\ Marking["overdue"] = "mark overdue"
BY DEF Marking

\* Marking and completing keep a task's id and key.
MarkedAs(kind, e) == IF e.id \in Marked(kind) THEN [e EXCEPT !.kind = kind] ELSE e

LEMMA MarkedEvents ==
    ASSUME NEW kind \in Kinds, NEW e \in Event
    PROVE  /\ MarkedAs(kind, e) \in Event /\ Key(MarkedAs(kind, e)) = Key(e)
           /\ MarkedAs(kind, e).id = e.id /\ MarkedAs(kind, e).status = e.status
           /\ MarkedAs(kind, e).kind = IF e.id \in Marked(kind) THEN kind ELSE e.kind
BY DEF MarkedAs, Event, Key, Kinds

LEMMA CompletedEvent ==
    ASSUME NEW e \in Event
    PROVE  /\ [e EXCEPT !.status = "completed"] \in Event
           /\ Key([e EXCEPT !.status = "completed"]) = Key(e)
           /\ [e EXCEPT !.status = "completed"].id = e.id
           /\ [e EXCEPT !.status = "completed"].kind = e.kind
BY DEF Event, Key

LEMMA TasksKept ==
    ASSUME Shape, Next
    PROVE  Tasks' /\ lastId <= lastId'
<1>1. /\ events \subseteq Event /\ IsFiniteSet(events) /\ lastId \in Nat
      /\ \A d, e \in Pending : Key(d) = Key(e) => d = e
      /\ (\A e \in events : e.id <= lastId) /\ Distinct(events)
    BY DEF Shape, Tasks
<1> DEFINE Kept == /\ events' \subseteq Event /\ IsFiniteSet(events')
                   /\ \A d, e \in Pending' : Key(d) = Key(e) => d = e
                   /\ (\A e \in events' : e.id <= lastId + 1) /\ Distinct(events')
<1>2. ASSUME events' = events PROVE Kept
    BY <1>1, <1>2 DEF Pending, Event
<1>3. ASSUME NEW key \in Keys, Opening(key) PROVE Kept
    <2>1. PICK at \in Nat : events' = Opened(key, at)
        BY <1>3, OpeningOpens
    <2> DEFINE e == NewTask(key, at)
    <2>2. e \in Event /\ Key(e) = key /\ e.id = lastId + 1
        BY <1>1 DEF NewTask, Event, Key, Keys
    <2> HIDE DEF e
    <2>3. events' = events \/ (events' = events \cup {e} /\ \A d \in Pending : Key(d) # key)
        BY <2>1 DEF Opened, e
    <2>4. IsFiniteSet(events')
        BY <1>1, <2>3, FS_AddElement
    <2>5. Pending' \subseteq Pending \cup {e}
        BY <2>3 DEF Pending
    <2>6. \A d \in events' : d \in Event /\ d.id <= lastId + 1
        BY <1>1, <2>2, <2>3 DEF Event
    <2>7. \A c, d \in Pending' : Key(c) = Key(d) => c = d
        BY <1>1, <1>2, <2>2, <2>3, <2>5
    <2>8. Distinct(events')
        <3>1. \A d \in events : d.id # e.id
            BY <1>1, <2>2 DEF Event
        <3> QED
            BY <1>1, <2>3, <3>1 DEF Distinct
    <2> QED
        BY <2>4, <2>6, <2>7, <2>8
<1>4. ASSUME MarkingTasks PROVE Kept
    <2>1. PICK kind \in Kinds : Mark(kind)
        BY <1>4 DEF MarkingTasks
    <2>2. events' = {MarkedAs(kind, e) : e \in events}
        BY <2>1 DEF Mark, MarkedAs
    <2>3. IsFiniteSet(events')
        <3> DEFINE f == [e \in events |-> MarkedAs(kind, e)]
        <3>1. f \in Surjection(events, events')
            BY <2>2 DEF Surjection
        <3> HIDE DEF f
        <3> QED
            BY <1>1, <3>1, FS_Surjection
    <2>4. ASSUME NEW d \in Pending', NEW e \in Pending', Key(d) = Key(e) PROVE d = e
        <3>1. PICK c \in Pending, b \in Pending : d = MarkedAs(kind, c) /\ e = MarkedAs(kind, b)
            BY <1>1, <2>2, MarkedEvents DEF Pending
        <3>2. Key(c) = Key(d) /\ Key(b) = Key(e)
            BY <1>1, <3>1, MarkedEvents DEF Pending
        <3> QED
            BY <1>1, <2>4, <3>1, <3>2
    <2>5. \A e \in events' : e \in Event /\ e.id <= lastId + 1
        BY <1>1, <2>2, MarkedEvents DEF Event
    <2>6. Distinct(events')
        <3> SUFFICES ASSUME NEW d \in events', NEW e \in events', d.id = e.id PROVE d = e
            BY DEF Distinct
        <3>1. PICK c \in events, b \in events : d = MarkedAs(kind, c) /\ e = MarkedAs(kind, b)
            BY <2>2
        <3>2. c.id = d.id /\ b.id = e.id
            BY <1>1, <3>1, MarkedEvents
        <3> QED
            BY <1>1, <3>1, <3>2 DEF Distinct
    <2> QED
        BY <2>3, <2>4, <2>5, <2>6
<1>5. ASSUME Completing PROVE Kept
    <2>1. PICK e \in Pending : Complete(e)
        BY <1>5 DEF Completing
    <2> DEFINE c == [e EXCEPT !.status = "completed"]
    <2>2. e \in Event /\ events' = (events \ {e}) \cup {c}
        BY <1>1, <2>1 DEF Complete, Pending
    <2>3. c \in Event /\ c.id = e.id /\ c.status = "completed"
        BY <2>2, CompletedEvent DEF Event
    <2> HIDE DEF c
    <2>4. IsFiniteSet(events')
        BY <1>1, <2>2, FS_AddElement, FS_RemoveElement
    <2>5. Pending' \subseteq Pending
        BY <2>2, <2>3 DEF Pending
    <2>6. \A d \in events' : d \in Event /\ d.id <= lastId + 1
        BY <1>1, <2>2, <2>3 DEF Event, Pending
    <2>7. Distinct(events')
        BY <1>1, <2>1, <2>2, <2>3 DEF Distinct, Pending
    <2> QED
        BY <1>1, <2>4, <2>5, <2>6, <2>7
<1>6. ASSUME Clearing PROVE Kept
    <2>1. events' \in SUBSET events
        BY <1>6 DEF Clearing, ClearPending
    <2>2. IsFiniteSet(events') /\ Pending' \subseteq Pending
        BY <1>1, <2>1, FS_Subset DEF Pending
    <2> QED
        BY <1>1, <2>1, <2>2 DEF Event, Distinct
<1>7. Kept
    <2> HIDE DEF Kept
    <2> QED
        BY <1>2, <1>3, <1>4, <1>5, <1>6, EventSteps
<1>8. lastId' \in Nat /\ lastId <= lastId' /\ \A e \in events' : e.id <= lastId'
    BY <1>7, MaxOfNext DEF Next, Shape, Event
<1> QED
    BY <1>7, <1>8 DEF Tasks

LEMMA PassingKept ==
    ASSUME Shape, Next, Tasks', lastId <= lastId'
    PROVE  Passing'
<1>1. /\ pass \in Pass /\ (pass.step = "idle" => pass = IdlePass)
      /\ pass.step = "backfill" => pass.list \in Lists /\ pass.read = {}
      /\ IsFiniteSet(pass.done) /\ pass.pending \subseteq Event
      /\ (\A e \in pass.pending : e.id <= lastId) /\ Distinct(pass.pending) /\ Distinct(events)
      /\ events \subseteq Event /\ \A e \in events : e.id <= lastId
      /\ lastId \in Nat /\ lastId' \in Nat /\ IsFiniteSet(events) /\ events' \subseteq Event
      /\ \A e \in events' : e.id <= lastId'
    BY DEF Shape, Passing, Pass, Tasks
<1>2. \A e \in pass.pending : e.id <= lastId'
    BY <1>1 DEF Event
<1>3. CASE pass' = pass
    BY <1>1, <1>2, <1>3 DEF Passing
<1>4. CASE pass' = IdlePass
    BY <1>4, FS_EmptySet DEF Passing, Pass, PassSteps, IdlePass, Distinct
<1>5. CASE StartPass
    BY <1>5, FS_EmptySet DEF StartPass, Passing, Pass, PassSteps, IdlePass, Distinct, Shape, Tables
\* A step forward that leaves what was read.
<1>6. ASSUME NEW step \in PassSteps \ {"idle", "backfill"},
             pass' \in {[pass EXCEPT !.step = step], [pass EXCEPT !.step = step, !.list = NoSeed],
                        [pass EXCEPT !.step = step, !.read = {}, !.done = {}]}
      PROVE  Passing'
    BY <1>1, <1>2, <1>6, FS_EmptySet DEF Passing, Pass
<1>7. ASSUME NEW query \in Reads, Read(query) PROVE Passing'
    <2>1. /\ pass'.pending \in {pass.pending, Pending}
          /\ pass'.done \in {pass.done, {e \in events : e.status = "completed"}}
          /\ pass'.step \in {"read", "open"}
        BY <1>1, <1>7 DEF Read, Pass
    <2>2. pass' \in Pass
        <3>1. hours \in Nat /\ worn \in BOOLEAN /\ low \in BOOLEAN
            BY ConstantsAssumption DEF Shape, Tables
        <3>2. {Key(s) : s \in schedules} \subseteq Keys
            BY DEF Shape, Tables, Made, Row, Key, Keys
        <3>3. Pending \subseteq Event /\ {e \in events : e.status = "completed"} \subseteq Event
            BY <1>1 DEF Pending
        <3> DEFINE step == IF pass.read \cup {query} = Reads THEN "open" ELSE pass.step
                   at == IF query = "printer" THEN hours ELSE pass.hours
                   old == IF query = "printer" THEN worn ELSE pass.worn
                   ill == IF query = "printer" THEN low ELSE pass.low
                   rows == IF query = "schedules" THEN {Key(s) : s \in schedules} ELSE pass.schedules
                   open == IF query = "pending" THEN Pending ELSE pass.pending
                   done == IF query = "completed" THEN {e \in events : e.status = "completed"} ELSE pass.done
        <3>4. pass' = [pass EXCEPT !.read = pass.read \cup {query}, !.step = step, !.hours = at, !.worn = old,
                         !.low = ill, !.schedules = rows, !.pending = open, !.done = done]
            BY <1>7 DEF Read
        <3>5. step \in PassSteps /\ at \in Nat /\ old \in BOOLEAN /\ ill \in BOOLEAN
            BY <1>1, <3>1 DEF Pass, PassSteps
        <3>6. rows \in SUBSET Keys /\ open \in SUBSET Event /\ done \in SUBSET Event
            BY <1>1, <3>2, <3>3 DEF Pass
        <3>7. pass.read \cup {query} \in SUBSET Reads
            BY <1>1 DEF Pass
        <3> HIDE DEF step, at, old, ill, rows, open, done
        <3> QED
            BY <1>1, <3>4, <3>5, <3>6, <3>7 DEF Pass
    <2>3. IsFiniteSet(pass'.done)
        BY <1>1, <2>1, FS_Subset
    <2>4. \A e \in pass'.pending : e.id <= lastId'
        BY <1>1, <1>2, <2>1 DEF Pending, Event
    <2>5. Distinct(pass'.pending)
        BY <1>1, <2>1 DEF Distinct, Pending
    <2> QED
        BY <2>1, <2>2, <2>3, <2>4, <2>5 DEF Passing
<1>8. ASSUME NEW key \in pass.schedules, Open(key) PROVE Passing'
    <2>1. events' \ events \subseteq Event /\ \A e \in events' \ events : e.id \in Nat
        BY <1>1 DEF Event
    <2>2. /\ pass' = [pass EXCEPT !.schedules = pass.schedules \ {key},
                        !.pending = pass.pending \cup (events' \ events),
                        !.own = pass.own \cup {e.id : e \in events' \ events}]
          /\ pass.step = "open"
        BY <1>8 DEF Open
    <2>3. pass' \in Pass /\ pass'.step = "open" /\ pass'.done = pass.done
        BY <1>1, <2>1, <2>2 DEF Pass
    <2>4. pass'.pending = pass.pending \cup (events' \ events)
        BY <1>1, <2>2 DEF Pass
    <2>5. Distinct(pass'.pending)
        <3>1. PICK at : events' = events \/ events' = Opened(key, at)
            BY <1>8 DEF Open
        <3>2. \A e \in events' \ events : e.id = lastId + 1 /\ e = NewTask(key, at)
            BY <3>1 DEF Opened, NewTask
        <3>3. \A e \in pass.pending : e.id # lastId + 1
            BY <1>1 DEF Event
        <3> QED
            BY <1>1, <2>4, <3>2, <3>3 DEF Distinct
    <2> QED
        BY <1>1, <1>2, <2>3, <2>4, <2>5 DEF Passing
<1>9. ASSUME NEW kind \in Kinds, Alert(kind) \/ NothingToAlert(kind) \/ Mark(kind) PROVE Passing'
    <2>1. Marking[kind] \in PassSteps \ {"idle", "backfill"}
        BY MarkingSteps DEF Kinds, PassSteps
    <2>2. AfterKind(kind) \in PassSteps \ {"idle", "backfill"}
        BY DEF AfterKind, Kinds, PassSteps
    <2>3. pass' \in {[pass EXCEPT !.step = Marking[kind]], [pass EXCEPT !.step = AfterKind(kind)]}
        BY <1>9 DEF Alert, NothingToAlert, Mark
    <2> QED
        BY <1>6, <2>1, <2>2, <2>3
<1>10. CASE Backfill \/ EndOpen \/ AlertHealth
    <2>1. "read" \in PassSteps /\ "overdue" \in PassSteps /\ "write" \in PassSteps
        BY DEF PassSteps
    <2>2. Backfill => pass' = [pass EXCEPT !.step = "read", !.list = NoSeed]
        BY DEF Backfill
    <2>3. EndOpen => pass' = [pass EXCEPT !.step = "overdue", !.read = {}, !.done = {}]
        BY DEF EndOpen
    <2>4. AlertHealth => pass' = [pass EXCEPT !.step = "write"]
        BY DEF AlertHealth
    <2>5. Backfill => Passing'
        BY <1>6, <2>1, <2>2
    <2>6. EndOpen => Passing'
        BY <1>6, <2>1, <2>3
    <2>7. AlertHealth => Passing'
        BY <1>6, <2>1, <2>4
    <2> QED
        BY <1>10, <2>5, <2>6, <2>7
<1>11. CASE Poller \/ Administrator \/ Staff
    BY <1>3, <1>11, PollerLeaves, AdministratorLeaves, StaffLeaves DEF pollerVars, adminVars, staffVars
<1>12. CASE WriteHealth \/ LosePass
    BY <1>4, <1>12 DEF WriteHealth, LosePass
<1> QED
    BY <1>5, <1>7, <1>8, <1>9, <1>10, <1>11, <1>12 DEF Next, Worker

LEMMA AccruingKept ==
    ASSUME Shape, Next PROVE Accruing'
<1>1. poller \in Accrual /\ hours \in Nat
    BY ConstantsAssumption DEF Shape, Accruing, Tables
<1>2. ASSUME NEW d \in 1..MaxHours, Accrue(d) PROVE Accruing'
    BY <1>1, <1>2, ConstantsAssumption DEF Accrue, Accruing, Accrual
<1>3. CASE Cross
    <2>1. {Key(s) : s \in schedules} \subseteq Keys
        BY DEF Shape, Tables, Made, Row, Key, Keys
    <2> DEFINE crossed == {Key(s) : s \in {r \in schedules :
                               poller.to \div r.interval > poller.from \div r.interval}}
    <2>2. crossed \in SUBSET Keys
        BY <2>1
    <2>3. poller' = [poller EXCEPT !.step = "crossing", !.from = 0, !.crossed = crossed]
        BY <1>3 DEF Cross
    <2> HIDE DEF crossed
    <2>4. hours' = hours /\ poller.to = hours
        BY <1>3 DEF Cross, Shape, Accruing
    <2> QED
        BY <1>1, <2>2, <2>3, <2>4 DEF Accruing, Accrual
<1>4. ASSUME NEW key, OpenCrossed(key) PROVE Accruing'
    BY <1>1, <1>4 DEF OpenCrossed, Accruing, Accrual, Shape
<1>5. CASE poller' = IdlePoller
    BY <1>5 DEF Accruing, Accrual, IdlePoller
<1>6. CASE UNCHANGED <<poller, hours>>
    BY <1>6 DEF Accruing, Shape
<1>7. CASE Poller
    BY <1>2, <1>3, <1>4, <1>5, <1>7 DEF Poller, EndAccrual, LoseAccrual
<1>8. CASE Worker \/ LosePass \/ Administrator \/ Staff
    BY <1>6, <1>8, WorkerLeaves, AdministratorLeaves, StaffLeaves DEF workerVars, adminVars, staffVars
<1> QED
    BY <1>7, <1>8 DEF Next

LEMMA EditingKept ==
    ASSUME Shape, Next PROVE Editing'
<1>1. /\ saves \in [Admins -> Save \cup {NoSave}] /\ seeding \in Lists \cup {NoSeed}
      /\ budget \in Budget /\ defaults \in Lists
    BY DEF Shape, Editing, Tables
<1>2. ASSUME NEW kind \in {"save", "service", "fault"}, Spend(kind) PROVE budget' \in Budget
    BY <1>1, <1>2 DEF Spend, Budget
<1>3. ASSUME NEW a \in Admins, NEW s \in Save \cup {NoSave}, saves' = [saves EXCEPT ![a] = s]
      PROVE  saves' \in [Admins -> Save \cup {NoSave}]
    BY <1>1, <1>3
<1>4. ASSUME NEW a \in Admins, NEW from, NEW to \in SaveSteps, Step(a, from, to)
      PROVE  saves' \in [Admins -> Save \cup {NoSave}]
    BY <1>1, <1>4 DEF Step, Save
<1>5. Poller \/ Worker \/ LosePass => Editing'
    <2>1. Worker => Editing'
        BY <1>1, WorkerLeaves DEF workerVars, Editing
    <2>2. LosePass => Editing'
        BY <1>1, <1>2, WorkerLeaves DEF LosePass, Fail, workerVars, Editing
    <2>3. Poller => Editing'
        BY <1>1, <1>2 DEF Poller, Accrue, Cross, EndAccrual, LoseAccrual, OpenCrossed, pollerVars, Fail, Editing
    <2> QED
        BY <2>1, <2>2, <2>3
<1>6. CASE Administrator
    <2>1. ASSUME NEW a \in Admins, NEW list \in Lists, StoreList(a, list) PROVE Editing'
        <3>1. [step |-> "collapse", list |-> list] \in Save
            BY DEF Save, SaveSteps
        <3> QED
            BY <1>1, <1>2, <1>3, <2>1, <3>1 DEF StoreList, Editing
    <2>2. ASSUME NEW a \in Admins, Collapse(a) \/ Retarget(a) \/ SeedMissing(a) \/ DropRemoved(a) PROVE Editing'
        BY <1>1, <1>4, <2>2 DEF Collapse, Retarget, SeedMissing, DropRemoved, SaveSteps, Editing
    <2>3. ASSUME NEW a \in Admins, ClearPending(a) \/ LoseSave(a) PROVE Editing'
        BY <1>1, <1>2, <1>3, <2>3 DEF ClearPending, LoseSave, Fail, Editing
    <2>4. ReadList \/ SeedPrinter => Editing'
        BY <1>1, <1>2 DEF ReadList, SeedPrinter, Editing
    <2> QED
        BY <1>6, <2>1, <2>2, <2>3, <2>4 DEF Administrator
<1>7. CASE Staff
    BY <1>1, <1>2, <1>7 DEF Staff, Complete, MarkRead, staffVars, Editing
<1> QED
    BY <1>5, <1>6, <1>7 DEF Next

LEMMA ShapeKept == Shape /\ [Next]_vars => Shape'
<1>1. ASSUME Shape, Next PROVE Shape'
    BY <1>1, TablesKept, TasksKept, PassingKept, AccruingKept, EditingKept DEF Shape
<1>2. ASSUME Shape, UNCHANGED vars PROVE Shape'
    BY <1>2 DEF vars, tables, history, Shape, Tables, Tasks, Passing, Accruing, Editing, Pending, Distinct
<1> QED
    BY <1>1, <1>2

LEMMA ShapeGivesTypeOK == Shape => TypeOK
<1> SUFFICES ASSUME Shape PROVE TypeOK
    OBVIOUS
<1>1. schedules \subseteq Row
    BY DEF Shape, Tables, Made
<1>2. \A a \in Admins : saves[a] # NoSave => saves[a].list \in Lists
    BY DEF Shape, Editing, Save
<1> QED
    BY <1>1, <1>2 DEF Shape, Tables, Tasks, Passing, Pass, Accruing, Accrual, Keys, TypeOK

-----------------------------------------------------------------------------
(* Services: a schedule's tasks never outnumber the intervals passed.      *)

PendingOf(key) == \E e \in Pending : Key(e) = key
Finished == {e \in events : e.status = "completed"}
Services(key) == Completed(key) + (IF PendingOf(key) THEN 1 ELSE 0)

WithinHours == \A key \in Keys : Services(key) <= hours \div key[2]

\* What was under way when the hours were read still has the room it was read with.
WithinCrossing ==
    /\ poller.step = "accrued" => \A key \in Keys : Completed(key) <= poller.from \div key[2]
    /\ poller.step = "crossing" => \A key \in poller.crossed : Completed(key) < hours \div key[2]
WithinPass ==
    /\ pass.hours <= hours
    /\ (pass.step = "read" /\ "completed" \in pass.read) \/ pass.step = "open" => pass.done = Finished

Served == WithinHours /\ WithinCrossing /\ WithinPass
ServedInv == raced \/ Served

LEMMA CountOf ==
    ASSUME NEW S, IsFiniteSet(S), NEW key
    PROVE  Cardinality({e \in S : e.status = "completed" /\ Key(e) = key}) \in Nat
<1>1. {e \in S : e.status = "completed" /\ Key(e) = key} \in SUBSET S
    OBVIOUS
<1> QED
    BY <1>1, FS_Subset, FS_CardinalityType

LEMMA Counts ==
    ASSUME Shape, Shape', NEW key \in Keys
    PROVE  /\ Completed(key) \in Nat /\ Completed(key)' \in Nat
           /\ hours \in Nat /\ hours' \in Nat /\ hours \div key[2] \in Nat /\ hours' \div key[2] \in Nat
           /\ hours <= hours' => hours \div key[2] <= hours' \div key[2]
<1>1. hours \in Nat /\ hours' \in Nat /\ key[2] \in Nat \ {0}
    BY ConstantsAssumption DEF Shape, Tables, Keys
<1>2. Completed(key) \in Nat
    <2>1. IsFiniteSet(events)
        BY DEF Shape, Tasks
    <2>2. Cardinality({e \in events : e.status = "completed" /\ Key(e) = key}) \in Nat
        BY <2>1, CountOf
    <2> QED
        BY <2>2 DEF Completed
<1>3. Completed(key)' \in Nat
    <2>1. IsFiniteSet(events')
        BY DEF Shape, Tasks
    <2>2. Cardinality({e \in events' : e.status = "completed" /\ Key(e) = key}) \in Nat
        BY <2>1, CountOf
    <2> QED
        BY <2>2 DEF Completed
<1>4. /\ hours \div key[2] \in Nat /\ hours' \div key[2] \in Nat
      /\ hours <= hours' => hours \div key[2] <= hours' \div key[2]
    BY <1>1, DivideMore
<1> QED
    BY <1>1, <1>2, <1>3, <1>4

LEMMA OpenedTasks ==
    ASSUME Shape, NEW key \in Keys, Opening(key)
    PROVE  /\ Finished' = Finished
           /\ \A other \in Keys : PendingOf(other)' => PendingOf(other) \/ other = key
<1>1. PICK at \in Nat : events' = Opened(key, at)
    BY OpeningOpens
<1> DEFINE e == NewTask(key, at)
<1>2. e.status = "pending" /\ Key(e) = key
    BY DEF NewTask, Key, Keys
<1> HIDE DEF e
<1>3. events' = events \/ events' = events \cup {e}
    BY <1>1 DEF Opened, e
<1> QED
    BY <1>2, <1>3 DEF Finished, PendingOf, Pending

\* Only the completion of a task adds to what is completed.
LEMMA CompletedKept ==
    ASSUME Shape, Shape', Next, ~Completing, NEW key \in Keys
    PROVE  Completed(key)' <= Completed(key)
<1>1. Completed(key) \in Nat /\ events \subseteq Event /\ IsFiniteSet(events)
    BY Counts DEF Shape, Tasks
<1>2. ASSUME Finished' = Finished PROVE Completed(key)' = Completed(key)
    <2>1. Completed(key) = Cardinality({e \in Finished : Key(e) = key})
        BY DEF Completed, Finished
    <2>2. Completed(key)' = Cardinality({e \in Finished' : Key(e) = key})
        BY DEF Completed, Finished
    <2> QED
        BY <1>2, <2>1, <2>2
<1>3. CASE events' = events
    BY <1>1, <1>2, <1>3 DEF Finished
<1>4. CASE \E opened \in Keys : Opening(opened)
    BY <1>1, <1>2, <1>4, OpenedTasks
<1>5. CASE Clearing
    BY <1>1, <1>2, <1>5 DEF Clearing, ClearPending, Finished
<1>6. CASE MarkingTasks
    <2>1. PICK kind \in Kinds : Mark(kind)
        BY <1>6 DEF MarkingTasks
    <2>2. events' = {MarkedAs(kind, e) : e \in events}
        BY <2>1 DEF Mark, MarkedAs
    <2> DEFINE S == {e \in events : e.status = "completed" /\ Key(e) = key}
               T == {e \in events' : e.status = "completed" /\ Key(e) = key}
               f == [e \in S |-> MarkedAs(kind, e)]
    <2>3. T = {MarkedAs(kind, e) : e \in S}
        BY <1>1, <2>2, MarkedEvents
    <2>4. f \in Surjection(S, T) /\ IsFiniteSet(S)
        BY <1>1, <2>3, FS_Subset DEF Surjection
    <2>5. Cardinality(T) <= Cardinality(S)
        <3> HIDE DEF S, T, f
        <3> QED
            BY <2>4, FS_Surjection
    <2> QED
        BY <2>5 DEF Completed
<1> QED
    BY <1>3, <1>4, <1>5, <1>6, EventSteps

\* Completing a task moves it.
LEMMA CompletingMoves ==
    ASSUME Shape, Shape', Completing, NEW key \in Keys
    PROVE  Services(key)' <= Services(key)
<1>1. PICK e \in Pending : Complete(e)
    BY DEF Completing
<1> DEFINE c == [e EXCEPT !.status = "completed"]
<1>2. /\ e \in Event /\ events' = (events \ {e}) \cup {c} /\ IsFiniteSet(events)
      /\ events \subseteq Event
    BY <1>1 DEF Complete, Pending, Shape, Tasks
<1>3. c \in Event /\ c.status = "completed" /\ Key(c) = Key(e)
    BY <1>2, CompletedEvent DEF Event
<1>4. e.status = "pending" /\ \A d \in Pending : Key(d) = Key(e) => d = e
    BY <1>1 DEF Pending, Shape, Tasks
<1> HIDE DEF c
<1> DEFINE S == {d \in events : d.status = "completed" /\ Key(d) = key}
           T == {d \in events' : d.status = "completed" /\ Key(d) = key}
<1>5. Completed(key) = Cardinality(S) /\ Completed(key)' = Cardinality(T) /\ Cardinality(S) \in Nat
    BY Counts DEF Completed
<1>6. Pending' = Pending \ {e}
    BY <1>2, <1>3, <1>4 DEF Pending
<1>7. CASE Key(e) = key
    <2>1. T = S \cup {c} /\ IsFiniteSet(S)
        BY <1>2, <1>3, <1>4, <1>7, FS_Subset
    <2>2. Cardinality(T) <= Cardinality(S) + 1
        <3> HIDE DEF S, T
        <3>1. Cardinality(T) \in {Cardinality(S), Cardinality(S) + 1}
            BY <2>1, FS_AddElement
        <3> QED
            BY <1>5, <3>1
    <2>3. PendingOf(key) /\ ~PendingOf(key)'
        BY <1>1, <1>4, <1>6, <1>7 DEF PendingOf
    <2>4. Cardinality(T) \in Nat
        BY <1>5, Counts
    <2> QED
        BY <1>5, <2>2, <2>3, <2>4 DEF Services
<1>8. CASE Key(e) # key
    <2>1. T = S
        BY <1>2, <1>3, <1>8, <1>4
    <2>2. PendingOf(key)' => PendingOf(key)
        BY <1>6 DEF PendingOf
    <2> QED
        BY <1>5, <2>1, <2>2 DEF Services
<1> QED
    BY <1>7, <1>8

\* A task that is new was opened because the hours had passed one more interval.
LEMMA OpenedWithinHours ==
    ASSUME Shape, Served, NEW key \in Keys, Opening(key), ~PendingOf(key), Completed(key) \in Nat
    PROVE  Completed(key) < hours \div key[2]
<1>1. CASE key \in poller.crossed /\ OpenCrossed(key)
    BY <1>1 DEF OpenCrossed, Served, WithinCrossing
<1>2. CASE key \in pass.schedules /\ Open(key) /\ Due(key)
    <2>1. pass.done = Finished /\ pass.hours <= hours
        BY <1>2 DEF Open, Served, WithinPass
    <2>2. ServicesDone(key) = Completed(key)
        BY <2>1 DEF ServicesDone, Completed, Finished
    <2>3. pass.hours \in Nat /\ hours \in Nat /\ key[2] \in Nat \ {0}
        BY ConstantsAssumption DEF Shape, Tables, Passing, Pass, Keys
    <2>4. /\ pass.hours \div key[2] \in Nat /\ hours \div key[2] \in Nat
          /\ pass.hours \div key[2] <= hours \div key[2]
        BY <2>1, <2>3, DivideMore
    <2>5. pass.hours \div key[2] > Completed(key)
        BY <1>2, <2>2 DEF Due
    <2> HIDE DEF Completed
    <2> QED
        BY <2>4, <2>5
<1> QED
    BY <1>1, <1>2 DEF Opening

LEMMA HoursGrow ==
    ASSUME Shape, Next
    PROVE  hours <= hours' /\ (poller.step # "idle" => hours' = hours) /\ (raced => raced')
<1>1. hours \in Nat
    BY ConstantsAssumption DEF Shape, Tables
<1>2. CASE Poller
    BY <1>1, <1>2 DEF Poller, Accrue, Cross, EndAccrual, LoseAccrual, OpenCrossed, pollerVars, history
<1>3. CASE Worker \/ LosePass \/ Administrator
    BY <1>1, <1>3, WorkerLeaves, AdministratorLeaves DEF workerVars, adminVars, history
<1>4. CASE Staff
    <2>1. hours' = hours
        BY <1>4, StaffLeaves DEF staffVars
    <2>2. raced => raced'
        BY <1>4 DEF Staff, Complete, MarkRead
    <2> QED
        BY <1>1, <2>1, <2>2
<1> QED
    BY <1>2, <1>3, <1>4 DEF Next

LEMMA WithinHoursKept ==
    ASSUME Shape, Shape', Served, Next
    PROVE  WithinHours'
<1> SUFFICES ASSUME NEW key \in Keys PROVE Services(key)' <= hours' \div key[2]
    BY DEF WithinHours
<1>1. /\ Completed(key) \in Nat /\ Completed(key)' \in Nat
      /\ hours \div key[2] \in Nat /\ hours' \div key[2] \in Nat
      /\ hours \div key[2] <= hours' \div key[2]
    BY Counts, HoursGrow
<1>2. Services(key) <= hours \div key[2]
    BY DEF Served, WithinHours
<1> HIDE DEF Completed
<1>3. CASE Services(key)' <= Services(key)
    BY <1>1, <1>2, <1>3 DEF Services
<1>4. CASE Completing
    BY <1>3, <1>4, CompletingMoves
<1>5. CASE ~Completing
    <2>1. Completed(key)' <= Completed(key)
        BY <1>5, CompletedKept
    <2>2. CASE PendingOf(key)' => PendingOf(key)
        BY <1>1, <1>3, <2>1, <2>2 DEF Services
    <2>3. CASE PendingOf(key)' /\ ~PendingOf(key)
        <3>1. \E opened \in Keys : Opening(opened)
            <4>1. events' # events
                BY <2>3 DEF PendingOf, Pending
            <4>2. ~Clearing
                BY <2>3 DEF Clearing, ClearPending, PendingOf, Pending
            <4>3. ~MarkingTasks
                <5> SUFFICES ASSUME NEW kind \in Kinds, Mark(kind) PROVE FALSE
                    BY DEF MarkingTasks
                <5>1. events' = {MarkedAs(kind, e) : e \in events} /\ events \subseteq Event
                    BY DEF Mark, MarkedAs, Shape, Tasks
                <5>2. PICK d \in events' : d.status = "pending" /\ Key(d) = key
                    BY <2>3 DEF PendingOf, Pending
                <5>3. PICK e \in events : d = MarkedAs(kind, e)
                    BY <5>1
                <5>4. e.status = "pending" /\ Key(e) = key
                    BY <5>1, <5>2, <5>3, MarkedEvents
                <5> QED
                    BY <2>3, <5>4 DEF PendingOf, Pending
            <4> QED
                BY <1>5, <4>1, <4>2, <4>3, EventSteps
        <3>2. Opening(key)
            BY <2>3, <3>1, OpenedTasks
        <3>3. Completed(key) < hours \div key[2]
            BY <1>1, <2>3, <3>2, OpenedWithinHours
        <3> QED
            BY <1>1, <2>1, <2>3, <3>3 DEF Services
    <2> QED
        BY <2>2, <2>3
<1> QED
    BY <1>4, <1>5

LEMMA WithinCrossingKept ==
    ASSUME Shape, Shape', Served, Next, ~raced'
    PROVE  WithinCrossing'
<1>1. \A key \in Keys : /\ Completed(key) \in Nat /\ Completed(key)' \in Nat
                        /\ Completed(key) <= hours \div key[2] /\ hours \div key[2] \in Nat
    <2> SUFFICES ASSUME NEW key \in Keys
                 PROVE  /\ Completed(key) \in Nat /\ Completed(key)' \in Nat
                        /\ Completed(key) <= hours \div key[2] /\ hours \div key[2] \in Nat
        OBVIOUS
    <2>1. /\ Completed(key) \in Nat /\ Completed(key)' \in Nat /\ hours \div key[2] \in Nat
          /\ Services(key) <= hours \div key[2]
        BY Counts DEF Served, WithinHours
    <2> HIDE DEF Completed
    <2> QED
        BY <2>1 DEF Services
<1>2. poller'.crossed \subseteq Keys /\ poller.crossed \subseteq Keys
    BY DEF Shape, Accruing, Accrual
<1>3. CASE poller'.step = "idle"
    BY <1>3 DEF WithinCrossing
<1>4. CASE Completing
    <2>1. poller'.step = "idle"
        BY <1>4 DEF Completing, Complete, staffVars, Shape, Accruing
    <2> QED
        BY <1>3, <2>1
<1>5. CASE ~Completing
    <2>1. \A key \in Keys : Completed(key)' <= Completed(key)
        BY <1>5, CompletedKept
    <2>2. ASSUME poller' = poller, hours' = hours PROVE WithinCrossing'
        <3>1. \A key \in Keys : poller.from \div key[2] \in Int /\ hours \div key[2] \in Int
            BY ConstantsAssumption DEF Shape, Accruing, Accrual, Tables, Keys
        <3> HIDE DEF Completed
        <3> QED
            BY <1>1, <1>2, <2>1, <2>2, <3>1 DEF Served, WithinCrossing
    <2>3. ASSUME NEW d \in 1..MaxHours, Accrue(d) PROVE WithinCrossing'
        <3>1. poller'.step = "accrued" /\ poller'.from = hours
            BY <2>3 DEF Accrue
        <3> HIDE DEF Completed
        <3> QED
            BY <1>1, <2>1, <3>1 DEF WithinCrossing
    <2>4. CASE Cross
        <3>1. /\ poller'.step = "crossing" /\ hours' = hours
              /\ \A key \in poller'.crossed : hours \div key[2] > poller.from \div key[2]
            <4>1. poller.to = hours /\ hours' = hours /\ poller \in Accrual
                BY <2>4 DEF Cross, Shape, Accruing
            <4> DEFINE crossed == {Key(s) : s \in {r \in schedules :
                                       poller.to \div r.interval > poller.from \div r.interval}}
            <4>2. poller' = [poller EXCEPT !.step = "crossing", !.from = 0, !.crossed = crossed]
                BY <2>4 DEF Cross
            <4>3. \A key \in crossed : hours \div key[2] > poller.from \div key[2]
                BY <4>1 DEF Key
            <4> HIDE DEF crossed
            <4>4. poller'.step = "crossing" /\ poller'.crossed = crossed
                BY <4>1, <4>2 DEF Accrual
            <4> QED
                BY <4>1, <4>3, <4>4
        <3>2. \A key \in Keys : Completed(key) <= poller.from \div key[2]
            BY <2>4 DEF Cross, Served, WithinCrossing
        <3>3. \A key \in Keys : poller.from \div key[2] \in Int
            BY DEF Shape, Accruing, Accrual, Keys
        <3> HIDE DEF Completed
        <3> QED
            BY <1>1, <1>2, <2>1, <3>1, <3>2, <3>3 DEF WithinCrossing
    <2>5. ASSUME NEW key \in poller.crossed, OpenCrossed(key) PROVE WithinCrossing'
        <3>1. /\ poller'.step = "crossing" /\ poller.step = "crossing" /\ hours' = hours
              /\ poller'.crossed \subseteq poller.crossed
            BY <2>5 DEF OpenCrossed, Shape, Accruing, Accrual
        <3>2. \A other \in poller.crossed : Completed(other) < hours \div other[2]
            BY <3>1 DEF Served, WithinCrossing
        <3> HIDE DEF Completed
        <3> QED
            BY <1>1, <1>2, <2>1, <3>1, <3>2 DEF WithinCrossing
    <2>6. CASE Poller
        BY <1>3, <2>3, <2>4, <2>5, <2>6 DEF Poller, EndAccrual, LoseAccrual, IdlePoller
    <2>7. CASE Worker \/ LosePass \/ Administrator \/ Staff
        BY <2>2, <2>7, WorkerLeaves, AdministratorLeaves, StaffLeaves DEF workerVars, adminVars, staffVars
    <2> QED
        BY <2>6, <2>7 DEF Next
<1> QED
    BY <1>4, <1>5

LEMMA WithinPassKept ==
    ASSUME Shape, Shape', Served, Next, ~raced'
    PROVE  WithinPass'
<1>1. /\ hours \in Nat /\ hours' \in Nat /\ hours <= hours' /\ pass \in Pass /\ pass.hours <= hours
      /\ pass.step = "backfill" => pass.read = {}
    BY HoursGrow, ConstantsAssumption DEF Shape, Tables, Passing, Served, WithinPass
<1>2. CASE pass'.step \notin {"read", "open"} /\ pass'.hours \in {0, pass.hours}
    BY <1>1, <1>2 DEF WithinPass, Pass
<1>3. ASSUME Finished' = Finished, pass'.done = pass.done, pass'.hours = pass.hours,
             \/ pass'.step = pass.step /\ pass'.read = pass.read
             \/ pass'.step = "read" /\ pass'.read = {}
      PROVE  WithinPass'
    BY <1>1, <1>3 DEF WithinPass, Served, Pass
<1>4. ASSUME Poller \/ Administrator \/ Staff PROVE WithinPass'
    <2>1. pass' = pass
        BY <1>4, PollerLeaves, AdministratorLeaves, StaffLeaves DEF pollerVars, adminVars, staffVars
    <2>2. CASE Completing
        <3>1. pass.step = "idle"
            BY <2>2 DEF Completing, Complete, staffVars
        <3> QED
            BY <1>1, <1>2, <2>1, <3>1
    <2>3. Poller => Finished' = Finished
        <3>1. ASSUME NEW key \in poller.crossed, OpenCrossed(key) PROVE Finished' = Finished
            <4>1. key \in Keys /\ Opening(key)
                BY <3>1 DEF Shape, Accruing, Accrual, Opening
            <4> QED
                BY <4>1, OpenedTasks
        <3> QED
            BY <3>1 DEF Poller, Accrue, Cross, EndAccrual, LoseAccrual, Finished
    <2>4. Administrator => Finished' = Finished
        BY DEF Administrator, StoreList, Collapse, Retarget, SeedMissing, DropRemoved, ClearPending, LoseSave,
            ReadList, SeedPrinter, Finished
    <2>5. Staff => Finished' = Finished \/ Completing
        BY DEF Staff, MarkRead, Complete, Finished, Completing
    <2> QED
        BY <1>3, <1>4, <2>1, <2>2, <2>3, <2>4, <2>5
<1>5. CASE StartPass \/ WriteHealth \/ LosePass
    <2>1. StartPass => pass'.hours = 0 /\ pass'.step = "backfill"
        BY DEF StartPass, IdlePass
    <2>2. WriteHealth \/ LosePass => pass'.hours = 0 /\ pass'.step = "idle"
        BY DEF WriteHealth, LosePass, IdlePass
    <2>3. pass'.hours = 0 /\ pass'.step \in {"idle", "backfill"}
        BY <1>5, <2>1, <2>2
    <2> QED
        BY <1>2, <2>3
<1>6. CASE Backfill
    <2>1. /\ pass'.done = pass.done /\ pass'.hours = pass.hours /\ pass'.step = "read" /\ pass'.read = {}
        BY <1>1, <1>6 DEF Backfill, Pass
    <2>2. Finished' = Finished
        BY <1>6 DEF Backfill, Finished
    <2> QED
        BY <1>3, <2>1, <2>2
<1>7. ASSUME NEW query \in Reads, Read(query) PROVE WithinPass'
    <2>1. pass.step = "read" /\ Finished' = Finished /\ hours' = hours
        BY <1>7 DEF Read, Finished, workerVars
    <2>2. pass'.hours \in {hours, pass.hours}
        BY <1>1, <1>7 DEF Read, Pass
    <2>3. CASE query = "completed"
        BY <1>1, <1>7, <2>1, <2>2, <2>3 DEF Read, Pass, Finished, WithinPass
    <2>4. CASE query # "completed"
        <3>1. pass'.done = pass.done /\ pass'.read = pass.read \cup {query}
            BY <1>1, <1>7, <2>4 DEF Read, Pass
        <3>2. pass'.step = "open" => "completed" \in pass.read
            BY <1>1, <1>7, <2>1, <2>4 DEF Read, Pass, Reads
        <3>3. "completed" \in pass.read => pass.done = Finished
            BY <2>1 DEF Served, WithinPass
        <3>4. "completed" \in pass'.read => "completed" \in pass.read
            BY <2>4, <3>1
        <3> QED
            BY <1>1, <2>1, <2>2, <3>1, <3>2, <3>3, <3>4 DEF WithinPass
    <2> QED
        BY <2>3, <2>4
<1>8. ASSUME NEW key \in pass.schedules, Open(key) PROVE WithinPass'
    <2>1. /\ pass'.step = pass.step /\ pass'.read = pass.read /\ pass'.done = pass.done
          /\ pass'.hours = pass.hours
        BY <1>1, <1>8 DEF Open, Pass
    <2>2. Finished' = Finished
        <3>1. CASE Due(key)
            <4>1. key \in Keys /\ Opening(key)
                BY <1>8, <3>1 DEF Shape, Passing, Pass, Opening
            <4> QED
                BY <4>1, OpenedTasks
        <3>2. CASE ~Due(key)
            BY <1>8, <3>2 DEF Open, Finished
        <3> QED
            BY <3>1, <3>2
    <2> QED
        BY <1>3, <2>1, <2>2
<1>9. CASE EndOpen \/ AlertHealth
    <2>1. pass'.hours = pass.hours /\ pass'.step \in {"overdue", "write"}
        BY <1>1, <1>9 DEF EndOpen, AlertHealth, Pass
    <2> QED
        BY <1>2, <2>1
<1>10. ASSUME NEW kind \in Kinds, Alert(kind) \/ NothingToAlert(kind) \/ Mark(kind) PROVE WithinPass'
    <2>1. pass'.hours = pass.hours
        BY <1>1, <1>10 DEF Alert, NothingToAlert, Mark, Pass
    <2>2. pass'.step \in {Marking[kind], AfterKind(kind)}
        BY <1>1, <1>10 DEF Alert, NothingToAlert, Mark, Pass
    <2> QED
        BY <1>2, <2>1, <2>2, MarkingSteps DEF AfterKind, Kinds
<1> QED
    BY <1>4, <1>5, <1>6, <1>7, <1>8, <1>9, <1>10 DEF Next, Worker

LEMMA ServedKept ==
    ASSUME Shape, Shape', ServedInv, [Next]_vars
    PROVE  ServedInv'
<1>1. CASE Next
    BY <1>1, HoursGrow, WithinHoursKept, WithinCrossingKept, WithinPassKept DEF ServedInv, Served
<1>2. CASE UNCHANGED vars
    BY <1>2 DEF vars, tables, history, ServedInv, Served, WithinHours, WithinCrossing, WithinPass, Services, PendingOf,
        Pending, Completed, Finished
<1> QED
    BY <1>1, <1>2

LEMMA InitServed == Init => ServedInv
<1> SUFFICES ASSUME Init PROVE Served
    BY DEF ServedInv
<1>1. ASSUME NEW key \in Keys PROVE Services(key) = 0 /\ 0 \div key[2] = 0
    <2>1. {e \in events : e.status = "completed" /\ Key(e) = key} = {} /\ ~PendingOf(key)
        BY DEF Init, PendingOf, Pending
    <2>2. Completed(key) = 0
        BY <2>1, FS_EmptySet DEF Completed
    <2> QED
        BY <2>1, <2>2 DEF Services, Keys
<1> QED
    BY <1>1 DEF Init, Served, WithinHours, WithinCrossing, WithinPass, IdlePoller, IdlePass

\* The tasks of a schedule are those completed and at most one pending.
LEMMA ServedGivesOnce == Shape /\ ServedInv => ServedOnce
<1> SUFFICES ASSUME Shape, Served, NEW e \in events
             PROVE  Cardinality({d \in events : Key(d) = Key(e)}) <= hours \div Key(e)[2]
    BY DEF ServedOnce, ServedInv
<1> DEFINE key == Key(e)
           T == {d \in events : Key(d) = key}
           S == {d \in events : d.status = "completed" /\ Key(d) = key}
<1>1. key \in Keys /\ events \subseteq Event /\ IsFiniteSet(events)
    BY DEF Shape, Tasks, Event, Key, Keys
<1>2. Cardinality(S) \in Nat /\ IsFiniteSet(S) /\ IsFiniteSet(T)
    BY <1>1, CountOf, FS_Subset
<1>3. Cardinality(S) + (IF PendingOf(key) THEN 1 ELSE 0) <= hours \div key[2]
    BY <1>1 DEF Served, WithinHours, Services, Completed
<1>4. CASE ~PendingOf(key)
    <2>1. T = S
        BY <1>1, <1>4 DEF PendingOf, Pending, Event
    <2>2. Cardinality(S) <= hours \div key[2]
        BY <1>2, <1>3, <1>4
    <2> QED
        BY <2>1, <2>2
<1>5. CASE PendingOf(key)
    <2>1. PICK p \in Pending : Key(p) = key
        BY <1>5 DEF PendingOf
    <2>2. T = S \cup {p} /\ p \notin S
        BY <1>1, <2>1 DEF Pending, Event, Shape, Tasks
    <2>3. Cardinality(T) = Cardinality(S) + 1
        <3> HIDE DEF S, T
        <3> QED
            BY <1>2, <2>2, FS_AddElement
    <2> QED
        BY <1>2, <1>3, <1>5, <2>3
<1> QED
    BY <1>4, <1>5

-----------------------------------------------------------------------------
(* A save that runs alone leaves exactly the schedules of its list.        *)

OnCourse(save) ==
    /\ save.list = defaults
    /\ save.step = "retarget" => \A r, s \in schedules : r.type = s.type => r = s
    /\ save.step \in {"seed", "drop"} => OnTarget(defaults, schedules)
    /\ save.step = "drop" => Graph(defaults) \subseteq KeysOf(schedules)
    /\ save.step = "clear" => KeysOf(schedules) = Graph(defaults)

Alone ==
    /\ pass.step = "idle" /\ poller.step = "idle" /\ seeding = NoSeed
    /\ \A a, b \in Admins : saves[a] # NoSave /\ saves[b] # NoSave => a = b
    /\ \A a \in Admins : saves[a] # NoSave => OnCourse(saves[a])

\* Between saves, whatever is under way holds the list and the schedules in force.
Settled ==
    /\ KeysOf(schedules) = Graph(defaults) /\ KeysOf(Pending) \subseteq KeysOf(schedules)
    /\ seeding \in {NoSeed, defaults} /\ (pass.step = "backfill" => pass.list = defaults)
    /\ pass.schedules \subseteq KeysOf(schedules) /\ poller.crossed \subseteq KeysOf(schedules)

ListInv ==
    /\ Saving /\ ~mixed => Alone
    /\ ~Saving => ~mixed
    /\ ~Saving /\ ~stale => Settled

LEMMA DroppedRows ==
    ASSUME NEW list, NEW rows, OnTarget(list, rows), Graph(list) \subseteq KeysOf(rows)
    PROVE  KeysOf(Dropped(list, rows)) = Graph(list)
<1>1. ASSUME NEW r \in Dropped(list, rows) PROVE Key(r) \in Graph(list)
    <2>1. r \in rows /\ r.type \in DOMAIN list
        BY DEF Dropped
    <2>2. Key(r) = <<r.type, list[r.type]>>
        BY <2>1 DEF OnTarget, Key
    <2> QED
        BY <2>1, <2>2 DEF Graph
<1>2. ASSUME NEW t \in DOMAIN list PROVE <<t, list[t]>> \in KeysOf(Dropped(list, rows))
    <2>1. PICK r \in rows : Key(r) = <<t, list[t]>>
        BY DEF Graph, KeysOf
    <2>2. r \in Dropped(list, rows)
        BY <2>1 DEF Key, Dropped
    <2> QED
        BY <2>1, <2>2 DEF KeysOf
<1> QED
    BY <1>1, <1>2 DEF KeysOf, Graph

LEMMA StepTaken ==
    ASSUME Shape, NEW a \in Admins, NEW from, NEW to \in SaveSteps, Step(a, from, to)
    PROVE  /\ saves[a] # NoSave /\ saves[a].step = from /\ saves[a].list \in Lists
           /\ saves'[a] # NoSave /\ saves'[a].step = to /\ saves'[a].list = saves[a].list
           /\ \A b \in Admins : b # a => saves'[b] = saves[b]
<1>1. saves \in [Admins -> Save \cup {NoSave}] /\ saves[a] # NoSave /\ saves[a].step = from
    BY DEF Step, Shape, Editing
<1>2. saves[a] \in Save
    BY <1>1
<1>3. saves' = [saves EXCEPT ![a] = [saves[a] EXCEPT !.step = to]]
    BY DEF Step
<1>4. /\ saves'[a] = [saves[a] EXCEPT !.step = to]
      /\ \A b \in Admins : b # a => saves'[b] = saves[b]
    BY <1>1, <1>3
<1>5. saves'[a] \in Save /\ saves'[a].step = to /\ saves'[a].list = saves[a].list
    BY <1>2, <1>4 DEF Save
<1>6. saves'[a] # NoSave
    BY <1>5, ConstantsAssumption DEF Save
<1> QED
    BY <1>1, <1>2, <1>4, <1>5, <1>6 DEF Save

LEMMA SaveBegun ==
    ASSUME Shape, NEW a \in Admins, NEW list \in Lists, StoreList(a, list)
    PROVE  /\ saves[a] = NoSave /\ saves'[a] # NoSave /\ saves'[a] = [step |-> "collapse", list |-> list]
           /\ \A b \in Admins : b # a => saves'[b] = saves[b]
<1>1. saves \in [Admins -> Save \cup {NoSave}]
    BY DEF Shape, Editing
<1>2. [step |-> "collapse", list |-> list] \in Save
    BY DEF Save, SaveSteps
<1>3. [step |-> "collapse", list |-> list] # NoSave
    BY <1>2, ConstantsAssumption DEF Save
<1> QED
    BY <1>1, <1>3 DEF StoreList

LEMMA SaveEnded ==
    ASSUME Shape, NEW a \in Admins, ClearPending(a) \/ LoseSave(a)
    PROVE  /\ saves[a] # NoSave /\ saves'[a] = NoSave
           /\ \A b \in Admins : b # a => saves'[b] = saves[b]
BY DEF Shape, Editing, ClearPending, LoseSave

\* The other actors leave the lists and the saves, and only the backfill touches the schedules.
OthersSteps == Poller \/ Worker \/ LosePass \/ Staff
LEMMA OthersLeaveLists ==
    ASSUME OthersSteps
    PROVE  UNCHANGED <<defaults, saves, seeding, stale>> /\ (UNCHANGED schedules \/ Backfill)
<1>1. Poller => UNCHANGED <<defaults, saves, seeding, stale, schedules>>
    BY PollerLeaves DEF pollerVars
<1>2. Staff => UNCHANGED <<defaults, saves, seeding, stale, schedules>>
    BY StaffLeaves DEF staffVars
<1>3. Worker \/ LosePass => UNCHANGED <<defaults, saves, seeding, stale>>
    BY WorkerLeaves DEF workerVars
<1>4. Worker \/ LosePass => UNCHANGED schedules \/ Backfill
    BY WorkerLeaves DEF Worker, StartPass, EndOpen, AlertHealth, WriteHealth, Read, Open, Alert, NothingToAlert, Mark
<1> QED
    BY <1>1, <1>2, <1>3, <1>4 DEF OthersSteps

LEMMA AloneKept ==
    ASSUME Shape, ListInv, Next, Saving', ~mixed'
    PROVE  Alone'
<1>1. /\ ~mixed /\ pass'.step = "idle" /\ poller'.step = "idle" /\ seeding' = NoSeed
      /\ \A a, b \in Admins : saves'[a] # NoSave /\ saves'[b] # NoSave => a = b
    BY DEF Next, NoteOverlap, Saving
<1> SUFFICES ASSUME NEW a \in Admins, saves'[a] # NoSave PROVE OnCourse(saves[a])'
    BY <1>1 DEF Alone
<1>2. CASE saves[a] # NoSave
    <2>1. Alone
        BY <1>1, <1>2 DEF ListInv, Saving
    <2>2. OnCourse(saves[a]) /\ \A b \in Admins : saves[b] # NoSave => b = a
        BY <1>2, <2>1 DEF Alone
    <2>3. Made(schedules) /\ defaults \in Lists
        BY DEF Shape, Tables
    <2>4. CASE UNCHANGED <<defaults, schedules, saves>>
        BY <2>2, <2>4 DEF OnCourse
    <2>5. CASE OthersSteps
        <3>1. ~Backfill
            BY <2>1 DEF Alone, Backfill
        <3> QED
            BY <2>4, <2>5, <3>1, OthersLeaveLists
    <2>6. ASSUME NEW b \in Admins, NEW list \in Lists, StoreList(b, list) PROVE FALSE
        <3>1. b # a /\ saves'[b] # NoSave
            BY <1>2, <2>6, SaveBegun
        <3> QED
            BY <1>1, <3>1
    <2>7. ASSUME NEW b \in Admins, Collapse(b) PROVE OnCourse(saves[a])'
        <3>1. Step(b, "collapse", "retarget") /\ "retarget" \in SaveSteps
            BY <2>7 DEF Collapse, SaveSteps
        <3>2. b = a
            BY <2>2, <3>1 DEF Step
        <3>3. saves'[a].step = "retarget" /\ saves'[a].list = saves[a].list
            BY <3>1, <3>2, StepTaken
        <3>4. defaults' = defaults /\ schedules' = Collapsed(schedules)
            BY <2>7 DEF Collapse
        <3> QED
            BY <2>2, <2>3, <3>3, <3>4, CollapsedRows DEF OnCourse
    <2>8. ASSUME NEW b \in Admins, Retarget(b) PROVE OnCourse(saves[a])'
        <3>1. Step(b, "retarget", "seed") /\ "seed" \in SaveSteps
            BY <2>8 DEF Retarget, SaveSteps
        <3>2. b = a
            BY <2>2, <3>1 DEF Step
        <3>3. saves'[a].step = "seed" /\ saves'[a].list = saves[a].list
            BY <3>1, <3>2, StepTaken
        <3>4. defaults' = defaults /\ schedules' = Retargeted(defaults, schedules)
            BY <2>2, <2>8, <3>2 DEF Retarget, OnCourse
        <3> QED
            BY <2>2, <2>3, <3>3, <3>4, RetargetedRows DEF OnCourse
    <2>9. ASSUME NEW b \in Admins, SeedMissing(b) PROVE OnCourse(saves[a])'
        <3>1. Step(b, "seed", "drop") /\ "drop" \in SaveSteps
            BY <2>9 DEF SeedMissing, SaveSteps
        <3>2. b = a
            BY <2>2, <3>1 DEF Step
        <3>3. saves[a].step = "seed" /\ saves'[a].step = "drop" /\ saves'[a].list = saves[a].list
            BY <3>1, <3>2, StepTaken
        <3>4. defaults' = defaults /\ schedules' = Seeded(defaults, schedules)
            BY <2>2, <2>9, <3>2 DEF SeedMissing, OnCourse
        <3>5. OnTarget(defaults, schedules)
            BY <2>2, <3>3 DEF OnCourse
        <3>6. OnTarget(defaults, schedules') /\ Graph(defaults) \subseteq KeysOf(schedules')
            BY <2>3, <3>4, <3>5, SeededRows DEF OnTarget
        <3> QED
            BY <2>2, <3>3, <3>4, <3>6 DEF OnCourse
    <2>10. ASSUME NEW b \in Admins, DropRemoved(b) PROVE OnCourse(saves[a])'
        <3>1. Step(b, "drop", "clear") /\ "clear" \in SaveSteps
            BY <2>10 DEF DropRemoved, SaveSteps
        <3>2. b = a
            BY <2>2, <3>1 DEF Step
        <3>3. saves[a].step = "drop" /\ saves'[a].step = "clear" /\ saves'[a].list = saves[a].list
            BY <3>1, <3>2, StepTaken
        <3>4. defaults' = defaults /\ schedules' = Dropped(defaults, schedules)
            BY <2>2, <2>10, <3>2 DEF DropRemoved, OnCourse
        <3>5. KeysOf(schedules') = Graph(defaults)
            BY <2>2, <3>3, <3>4, DroppedRows DEF OnCourse
        <3> QED
            BY <2>2, <3>3, <3>4, <3>5 DEF OnCourse
    <2>11. ASSUME NEW b \in Admins, ClearPending(b) \/ LoseSave(b) PROVE FALSE
        <3>1. b = a /\ saves'[a] = NoSave
            BY <2>2, <2>11, SaveEnded
        <3> QED
            BY <3>1
    <2>12. CASE ReadList
        BY <2>4, <2>12 DEF ReadList
    <2>13. CASE SeedPrinter
        BY <2>1, <2>13 DEF SeedPrinter, Alone
    <2> QED
        BY <2>5, <2>6, <2>7, <2>8, <2>9, <2>10, <2>11, <2>12, <2>13 DEF Next, Administrator, OthersSteps
<1>3. CASE saves[a] = NoSave
    <2>1. saves' # saves
        BY <1>3
    <2>2. ~OthersSteps
        BY <2>1, OthersLeaveLists
    <2>3. ASSUME NEW b \in Admins, NEW from, NEW to \in SaveSteps, Step(b, from, to) PROVE FALSE
        BY <1>3, <2>3, StepTaken
    <2>4. ASSUME NEW b \in Admins PROVE ~(Collapse(b) \/ Retarget(b) \/ SeedMissing(b) \/ DropRemoved(b))
        BY <2>3 DEF Collapse, Retarget, SeedMissing, DropRemoved, SaveSteps
    <2>5. ASSUME NEW b \in Admins, ClearPending(b) \/ LoseSave(b) PROVE FALSE
        BY <1>3, <2>5, SaveEnded
    <2>6. ~ReadList /\ ~SeedPrinter
        BY <2>1 DEF ReadList, SeedPrinter
    <2>7. PICK b \in Admins, list \in Lists : StoreList(b, list)
        BY <2>2, <2>4, <2>5, <2>6 DEF Next, Administrator, OthersSteps
    <2>8. b = a
        BY <1>3, <2>7, SaveBegun
    <2>9. saves'[a].step = "collapse" /\ saves'[a].list = defaults'
        BY <2>7, <2>8, SaveBegun DEF StoreList
    <2> QED
        BY <2>9 DEF OnCourse
<1> QED
    BY <1>2, <1>3

\* Which keys are pending changes only by what is opened, completed or cleared.
LEMMA PendingKeys ==
    ASSUME Shape, Shape', Next
    PROVE  \A key \in KeysOf(Pending') : key \in KeysOf(Pending) \/ (key \in Keys /\ Opening(key))
<1> SUFFICES ASSUME NEW d \in Pending', Key(d) \notin KeysOf(Pending) PROVE Key(d) \in Keys /\ Opening(Key(d))
    BY DEF KeysOf
<1>1. events \subseteq Event /\ Key(d) \in Keys
    BY DEF Shape, Tasks, Pending, Event, Key, Keys
<1>2. events' # events /\ ~Clearing
    BY DEF Clearing, ClearPending, Pending, KeysOf
<1>3. ~MarkingTasks
    <2> SUFFICES ASSUME NEW kind \in Kinds, Mark(kind) PROVE FALSE
        BY DEF MarkingTasks
    <2>1. events' = {MarkedAs(kind, e) : e \in events} /\ d \in events' /\ d.status = "pending"
        BY DEF Mark, MarkedAs, Pending
    <2>2. PICK e \in events : d = MarkedAs(kind, e)
        BY <2>1
    <2>3. e \in Pending /\ Key(e) = Key(d)
        BY <1>1, <2>1, <2>2, MarkedEvents DEF Pending
    <2> QED
        BY <2>3 DEF KeysOf
<1>4. ~Completing
    <2> SUFFICES ASSUME NEW e \in Pending, Complete(e) PROVE FALSE
        BY DEF Completing
    <2>1. e \in Event /\ events' = (events \ {e}) \cup {[e EXCEPT !.status = "completed"]}
        BY <1>1 DEF Complete, Pending
    <2>2. [e EXCEPT !.status = "completed"].status = "completed"
        BY <2>1 DEF Event
    <2>3. d \in Pending
        BY <2>1, <2>2 DEF Pending
    <2> QED
        BY <2>3 DEF KeysOf
<1>5. PICK key \in Keys : Opening(key)
    BY <1>2, <1>3, <1>4, EventSteps
<1>6. PendingOf(Key(d))' /\ ~PendingOf(Key(d))
    BY DEF PendingOf, KeysOf
<1> QED
    BY <1>1, <1>5, <1>6, OpenedTasks

LEMMA SettledKept ==
    ASSUME Shape, Shape', Settled, ~Saving, Next, ~Saving'
    PROVE  Settled'
<1>1. /\ KeysOf(schedules) = Graph(defaults) /\ KeysOf(Pending) \subseteq KeysOf(schedules)
      /\ seeding \in {NoSeed, defaults} /\ (pass.step = "backfill" => pass.list = defaults)
      /\ pass.schedules \subseteq KeysOf(schedules) /\ poller.crossed \subseteq KeysOf(schedules)
      /\ Made(schedules) /\ defaults \in Lists /\ pass \in Pass /\ poller \in Accrual
    BY DEF Settled, Shape, Tables, Passing, Accruing
\* No save begins, goes on or ends.
<1>2. OthersSteps \/ ReadList \/ SeedPrinter
    <2>1. ASSUME NEW a \in Admins, NEW list \in Lists, StoreList(a, list) PROVE FALSE
        BY <2>1, SaveBegun DEF Saving
    <2>2. ASSUME NEW a \in Admins
          PROVE  ~(Collapse(a) \/ Retarget(a) \/ SeedMissing(a) \/ DropRemoved(a) \/ ClearPending(a) \/ LoseSave(a))
        BY DEF Collapse, Retarget, SeedMissing, DropRemoved, ClearPending, LoseSave, Step, Saving
    <2> QED
        BY <2>1, <2>2 DEF Next, Administrator, OthersSteps
<1>3. defaults' = defaults
    BY <1>2, OthersLeaveLists DEF ReadList, SeedPrinter
\* Every seeding is by the list in force.
<1>4. KeysOf(schedules') = KeysOf(schedules)
    <2>1. KeysOf(Seeded(defaults, schedules)) = KeysOf(schedules)
        <3>1. KeysOf(Seeded(defaults, schedules)) = KeysOf(schedules) \cup Graph(defaults)
            BY <1>1, SeededRows
        <3> QED
            BY <1>1, <3>1
    <2>2. Backfill \/ SeedPrinter => schedules' = Seeded(defaults, schedules)
        BY <1>1 DEF Backfill, SeedPrinter
    <2>3. schedules' = schedules \/ Backfill \/ SeedPrinter
        BY <1>2, OthersLeaveLists DEF ReadList
    <2>4. schedules' \in {schedules, Seeded(defaults, schedules)}
        BY <2>2, <2>3
    <2> QED
        BY <2>1, <2>4
<1>5. seeding' \in {NoSeed, defaults}
    BY <1>1, <1>2, OthersLeaveLists DEF ReadList, SeedPrinter
<1>6. KeysOf(Pending') \subseteq KeysOf(schedules)
    <2> SUFFICES ASSUME NEW key \in Keys, Opening(key) PROVE key \in KeysOf(schedules)
        BY <1>1, PendingKeys
    <2> QED
        BY <1>1 DEF Opening
<1>7. poller'.crossed \subseteq KeysOf(schedules)
    <2>1. Cross => poller'.crossed \subseteq KeysOf(schedules)
        <3> DEFINE crossed == {Key(s) : s \in {r \in schedules :
                                   poller.to \div r.interval > poller.from \div r.interval}}
        <3>1. Cross => poller' = [poller EXCEPT !.step = "crossing", !.from = 0, !.crossed = crossed]
            BY DEF Cross
        <3>2. crossed \subseteq KeysOf(schedules)
            BY DEF KeysOf
        <3> HIDE DEF crossed
        <3> QED
            BY <1>1, <3>1, <3>2 DEF Accrual
    <2>2. ASSUME NEW key, OpenCrossed(key) PROVE poller'.crossed \subseteq KeysOf(schedules)
        BY <1>1, <2>2 DEF OpenCrossed, Accrual
    <2>3. ASSUME NEW d, Accrue(d) PROVE poller'.crossed \subseteq KeysOf(schedules)
        BY <2>3 DEF Accrue
    <2>4. EndAccrual \/ LoseAccrual => poller'.crossed \subseteq KeysOf(schedules)
        BY DEF EndAccrual, LoseAccrual, IdlePoller
    <2>5. ~Poller => poller' = poller
        BY WorkerLeaves, AdministratorLeaves, StaffLeaves DEF Next, workerVars, adminVars, staffVars
    <2> QED
        BY <1>1, <2>1, <2>2, <2>3, <2>4, <2>5 DEF Poller
<1>8. (pass'.step = "backfill" => pass'.list = defaults) /\ pass'.schedules \subseteq KeysOf(schedules)
    <2>1. CASE pass' = pass
        BY <1>1, <2>1
    <2>2. CASE StartPass
        <3>1. pass'.list = defaults /\ pass'.schedules = {}
            BY <2>2 DEF StartPass, IdlePass
        <3> QED
            BY <3>1
    <2>3. CASE WriteHealth \/ LosePass
        <3>1. pass'.step = "idle" /\ pass'.schedules = {}
            BY <2>3 DEF WriteHealth, LosePass, IdlePass
        <3> QED
            BY <3>1
    <2>4. CASE Backfill \/ EndOpen \/ AlertHealth
        <3>1. pass'.step \in {"read", "overdue", "write"} /\ pass'.schedules = pass.schedules
            BY <1>1, <2>4 DEF Backfill, EndOpen, AlertHealth, Pass
        <3> QED
            BY <1>1, <3>1
    <2>5. ASSUME NEW query \in Reads, Read(query)
          PROVE  pass'.step # "backfill" /\ pass'.schedules \subseteq KeysOf(schedules)
        <3>1. pass'.schedules \in {pass.schedules, {Key(s) : s \in schedules}} /\ pass'.step \in {"read", "open"}
            BY <1>1, <2>5 DEF Read, Pass
        <3> QED
            BY <1>1, <3>1 DEF KeysOf
    <2>6. ASSUME NEW key \in pass.schedules, Open(key)
          PROVE  pass'.step # "backfill" /\ pass'.schedules \subseteq KeysOf(schedules)
        BY <1>1, <2>6 DEF Open, Pass
    <2>7. ASSUME NEW kind \in Kinds, Alert(kind) \/ NothingToAlert(kind) \/ Mark(kind)
          PROVE  pass'.step # "backfill" /\ pass'.schedules \subseteq KeysOf(schedules)
        <3>1. pass'.step \in {Marking[kind], AfterKind(kind)} /\ pass'.schedules = pass.schedules
            BY <1>1, <2>7 DEF Alert, NothingToAlert, Mark, Pass
        <3> QED
            BY <1>1, <3>1, MarkingSteps DEF AfterKind, Kinds
    <2>8. ~(Worker \/ LosePass) => pass' = pass
        BY PollerLeaves, AdministratorLeaves, StaffLeaves DEF Next, pollerVars, adminVars, staffVars
    <2> QED
        BY <2>1, <2>2, <2>3, <2>4, <2>5, <2>6, <2>7, <2>8 DEF Worker
<1> QED
    BY <1>1, <1>3, <1>4, <1>5, <1>6, <1>7, <1>8 DEF Settled

LEMMA SaveEnds ==
    ASSUME Shape, Next, Saving, ~Saving'
    PROVE  \E a \in Admins : ClearPending(a) \/ LoseSave(a)
<1>1. saves' # saves
    BY DEF Saving
<1>2. ~OthersSteps /\ ~ReadList /\ ~SeedPrinter
    BY <1>1, OthersLeaveLists DEF ReadList, SeedPrinter
<1>3. ASSUME NEW a \in Admins, NEW list \in Lists, StoreList(a, list) PROVE FALSE
    BY <1>3, SaveBegun DEF Saving
<1>4. ASSUME NEW a \in Admins, NEW from, NEW to \in SaveSteps, Step(a, from, to) PROVE FALSE
    BY <1>4, StepTaken DEF Saving
<1>5. ASSUME NEW a \in Admins PROVE ~(Collapse(a) \/ Retarget(a) \/ SeedMissing(a) \/ DropRemoved(a))
    BY <1>4 DEF Collapse, Retarget, SeedMissing, DropRemoved, SaveSteps
<1> QED
    BY <1>2, <1>3, <1>5 DEF Next, Administrator, OthersSteps

LEMMA SettledByAlone ==
    ASSUME Shape, Alone, ~mixed, Saving, Next, ~Saving', ~stale'
    PROVE  Settled'
<1>1. PICK a \in Admins : ClearPending(a) \/ LoseSave(a)
    BY SaveEnds
<1>2. saves[a] # NoSave /\ OnCourse(saves[a])
    BY <1>1, SaveEnded DEF Alone
<1>3. ~LoseSave(a)
    <2> SUFFICES ASSUME LoseSave(a) PROVE FALSE
        OBVIOUS
    <2>1. saves[a].step = "retarget" /\ Collides(saves[a].list, schedules)
        BY DEF LoseSave
    <2>2. \A r, s \in schedules : r.type = s.type => r = s
        BY <1>2, <2>1 DEF OnCourse
    <2> QED
        BY <2>1, <2>2, LoneRowsDoNotCollide
<1>4. ClearPending(a)
    BY <1>1, <1>3
<1>5. KeysOf(schedules) = Graph(defaults)
    BY <1>2, <1>4 DEF ClearPending, OnCourse
<1>6. UNCHANGED <<defaults, schedules, seeding, pass, poller>>
    BY <1>4 DEF ClearPending, adminVars
<1>7. KeysOf(Pending') \subseteq KeysOf(schedules)
    BY <1>4 DEF ClearPending, HasSchedule, Pending, KeysOf
<1>8. pass = IdlePass /\ poller = IdlePoller /\ seeding = NoSeed
    BY DEF Alone, Shape, Passing, Accruing
<1>9. pass.step # "backfill" /\ pass.schedules = {} /\ poller.crossed = {}
    BY <1>8 DEF IdlePass, IdlePoller
<1> QED
    BY <1>5, <1>6, <1>7, <1>8, <1>9 DEF Settled

LEMMA ListKept ==
    ASSUME Shape, Shape', ListInv, [Next]_vars
    PROVE  ListInv'
<1>1. CASE UNCHANGED vars
    BY <1>1 DEF vars, tables, history, ListInv, Saving, Alone, OnCourse, Settled, Pending
<1>2. CASE Next
    <2>1. Saving' /\ ~mixed' => Alone'
        BY <1>2, AloneKept
    <2>2. ~Saving' => ~mixed'
        BY <1>2 DEF Next, NoteOverlap, Saving
    <2>3. ASSUME ~Saving', ~stale' PROVE Settled'
        <3>1. CASE ~Saving /\ ~stale
            BY <1>2, <2>3, <3>1, SettledKept DEF ListInv
        <3>2. CASE ~Saving /\ stale
            <4>1. ASSUME NEW a \in Admins PROVE ~(ClearPending(a) \/ LoseSave(a))
                BY <3>2, SaveEnded DEF Saving
            <4>2. stale' = stale
                <5>1. Administrator => stale' = stale
                    BY <4>1 DEF Administrator, StoreList, Collapse, Retarget, SeedMissing, DropRemoved, ReadList,
                        SeedPrinter
                <5> QED
                    BY <1>2, <5>1, OthersLeaveLists DEF Next, OthersSteps
            <4> QED
                BY <2>3, <3>2, <4>2
        <3>3. CASE Saving
            <4>1. PICK a \in Admins : ClearPending(a) \/ LoseSave(a)
                BY <1>2, <2>3, <3>3, SaveEnds
            <4>2. stale' = TRUE \/ stale' = mixed
                BY <4>1 DEF ClearPending, LoseSave
            <4>3. ~mixed
                BY <2>3, <4>2
            <4> QED
                BY <1>2, <2>3, <3>3, <4>3, SettledByAlone DEF ListInv
        <3> QED
            BY <3>1, <3>2, <3>3
    <2> QED
        BY <2>1, <2>2, <2>3 DEF ListInv
<1> QED
    BY <1>1, <1>2

LEMMA InitList == Init => ListInv
<1> SUFFICES ASSUME Init PROVE ListInv
    OBVIOUS
<1>1. ~Saving /\ ~mixed
    BY DEF Init, Saving
<1>2. Made({}) /\ defaults \in Lists
    BY InitShape DEF Made, Shape, Tables
<1>3. KeysOf(schedules) = KeysOf({}) \cup Graph(defaults)
    BY <1>2, SeededRows DEF Init
<1>4. KeysOf({}) = {} /\ KeysOf(Pending) = {}
    BY DEF Init, Pending, KeysOf
<1>5. seeding = NoSeed /\ pass.step = "idle" /\ pass.schedules = {} /\ poller.crossed = {}
    BY DEF Init, IdlePass, IdlePoller
<1> QED
    BY <1>1, <1>3, <1>4, <1>5 DEF ListInv, Settled

-----------------------------------------------------------------------------
(* Alerts: a task the poller opened is alerted once for each kind.         *)

Told(e, kind) == e.kind = kind \/ (kind = "due" /\ e.kind = "overdue")

\* The steps of a pass from an alert on.
After(kind) == IF kind = "overdue" THEN {"mark overdue", "due", "mark due", "health", "write"}
               ELSE {"mark due", "health", "write"}
InTurn(e, kind) == pass.step \in After(kind) /\ (Overdue(e) <=> kind = "overdue")

\* What was alerted is marked or about to be; and the pass knows it, or has dealt with it.
InEvents(r) == \A e \in events : e.id = r[1] =>
                  Told(e, r[2]) \/ (pass.step = Marking[r[2]] /\ e.id \in Marked(r[2]))
InPass(r) == \A e \in pass.pending : e.id = r[1] => Told(e, r[2]) \/ InTurn(e, r[2])
Alerts == \A r \in alerted : r[1] \notin backstop => InEvents(r) /\ InPass(r)

LowRead == pass.step \notin {"idle", "backfill"} /\ (pass.step = "read" => "printer" \in pass.read)
Episodes ==
    /\ episode \in {"none", "one"} /\ (LowRead => pass.low = low)
    /\ episode = "one" => low \/ (pass.step = "write" /\ Low)

AlertInv ==
    /\ alerted \subseteq Nat \X Kinds /\ \A r \in alerted : r[1] <= lastId
    /\ pass.own \subseteq backstop
    /\ failed \/ (Alerts /\ Episodes /\ \A r \in repeated : r[1] \in backstop)

LEMMA NotFailed ==
    ASSUME Next, ~failed'
    PROVE  ~failed /\ ~LosePass
<1>1. Worker \/ Staff => failed' = failed
    BY WorkerLeaves DEF Staff, Complete, MarkRead
<1>2. Poller => failed' = failed \/ failed'
    BY DEF Poller, Accrue, Cross, EndAccrual, LoseAccrual, OpenCrossed, Fail
<1>3. Administrator => failed' = failed \/ failed'
    BY DEF Administrator, StoreList, Collapse, Retarget, SeedMissing, DropRemoved, ClearPending, LoseSave, ReadList,
        SeedPrinter, Fail
<1>4. ~LosePass
    BY DEF LosePass, Fail
<1> QED
    BY <1>1, <1>2, <1>3, <1>4 DEF Next

\* The worker's steps, by where the pass stands.
LEMMA WorkerSteps ==
    ASSUME Next, ~failed'
    PROVE  \/ pass' = pass
           \/ StartPass \/ Backfill \/ (\E query \in Reads : Read(query)) \/ (\E key \in pass.schedules : Open(key))
           \/ EndOpen \/ (\E kind \in Kinds : Alert(kind) \/ NothingToAlert(kind) \/ Mark(kind))
           \/ AlertHealth \/ WriteHealth
BY NotFailed, PollerLeaves, AdministratorLeaves, StaffLeaves DEF Next, Worker, pollerVars, adminVars, staffVars

\* But for the marks, an event keeps its id and kind.
LEMMA OldEvents ==
    ASSUME Shape, Next, ~MarkingTasks, NEW d \in events', d.id <= lastId
    PROVE  \E e \in events : e.id = d.id /\ e.kind = d.kind
<1>1. CASE events' = events
    BY <1>1
<1>2. ASSUME NEW key \in Keys, Opening(key) PROVE \E e \in events : e.id = d.id /\ e.kind = d.kind
    <2>1. PICK at \in Nat : events' = Opened(key, at)
        BY <1>2, OpeningOpens
    <2>2. d \in events \/ d.id = lastId + 1
        BY <2>1 DEF Opened, NewTask
    <2> QED
        BY <2>2 DEF Shape, Tasks
<1>3. CASE Completing
    <2>1. PICK e \in Pending : Complete(e)
        BY <1>3 DEF Completing
    <2>2. e \in events /\ e \in Event /\ (d \in events \/ d = [e EXCEPT !.status = "completed"])
        BY <2>1 DEF Complete, Pending, Shape, Tasks
    <2>3. [e EXCEPT !.status = "completed"].id = e.id /\ [e EXCEPT !.status = "completed"].kind = e.kind
        BY <2>2, CompletedEvent
    <2> QED
        BY <2>2, <2>3
<1>4. CASE Clearing
    BY <1>4 DEF Clearing, ClearPending
<1> QED
    BY <1>1, <1>2, <1>3, <1>4, EventSteps

LEMMA MarksLast ==
    ASSUME Shape, Next, ~failed', NEW kind \in Kinds, pass.step = Marking[kind]
    PROVE  pass' = pass \/ Mark(kind)
<1>1. pass.step \in {"mark due", "mark overdue"}
    BY MarkingSteps DEF Kinds
<1>2. ASSUME NEW other \in Kinds, Mark(other) PROVE Mark(kind)
    BY <1>2, MarkingSteps DEF Mark, Kinds
<1>3. ~StartPass /\ ~Backfill /\ ~EndOpen /\ ~AlertHealth /\ ~WriteHealth
    BY <1>1 DEF StartPass, Backfill, EndOpen, AlertHealth, WriteHealth
<1>4. ASSUME NEW other \in Kinds PROVE ~Alert(other) /\ ~NothingToAlert(other)
    BY <1>1 DEF Alert, NothingToAlert, Kinds
<1>5. \A query : ~Read(query)
    BY <1>1 DEF Read
<1>6. \A key : ~Open(key)
    BY <1>1 DEF Open
<1> QED
    BY <1>2, <1>3, <1>4, <1>5, <1>6, WorkerSteps

LEMMA InEventsKept ==
    ASSUME Shape, Shape', Next, ~failed', NEW r \in Nat \X Kinds, r[1] <= lastId, InEvents(r), InPass(r)
    PROVE  InEvents(r)'
<1>1. r[2] \in Kinds /\ events \subseteq Event
    BY DEF Shape, Tasks
<1>2. CASE MarkingTasks
    <2>1. PICK kind \in Kinds : Mark(kind)
        BY <1>2 DEF MarkingTasks
    <2>2. events' = {MarkedAs(kind, e) : e \in events} /\ pass.step = Marking[kind]
        BY <2>1 DEF Mark, MarkedAs
    <2> SUFFICES ASSUME NEW e \in events, MarkedAs(kind, e).id = r[1] PROVE Told(MarkedAs(kind, e), r[2])
        BY <2>2 DEF InEvents, Told
    <2>3. e.id = r[1] /\ MarkedAs(kind, e).kind = IF e.id \in Marked(kind) THEN kind ELSE e.kind
        BY <1>1, MarkedEvents
    <2>4. CASE e.id \notin Marked(kind)
        <3>1. pass.step = Marking[r[2]] => r[2] = kind
            BY <1>1, <2>2, MarkingSteps DEF Kinds
        <3>2. Told(e, r[2])
            BY <2>3, <2>4, <3>1 DEF InEvents
        <3> QED
            BY <2>3, <2>4, <3>2 DEF Told
    <2>5. CASE e.id \in Marked(kind)
        <3>1. PICK d \in ToNotify(kind) : d.id = e.id
            BY <2>5 DEF Marked
        <3>2. d \in pass.pending /\ (Told(d, r[2]) \/ InTurn(d, r[2]))
            BY <2>3, <3>1 DEF ToNotify, InPass
        <3>3. ~(kind = "due" /\ r[2] = "overdue")
            BY <3>1, <3>2 DEF ToNotify, Told, InTurn
        <3> QED
            BY <1>1, <2>3, <2>5, <3>3 DEF Told, Kinds
    <2> QED
        BY <2>4, <2>5
<1>3. CASE ~MarkingTasks
    <2> SUFFICES ASSUME NEW d \in events', d.id = r[1]
                 PROVE  Told(d, r[2]) \/ (pass'.step = Marking[r[2]] /\ d.id \in Marked(r[2])')
        BY DEF InEvents, Told
    <2>1. PICK e \in events : e.id = d.id /\ e.kind = d.kind
        BY <1>3, OldEvents
    <2>2. CASE Told(e, r[2])
        BY <2>1, <2>2 DEF Told
    <2>3. CASE pass.step = Marking[r[2]] /\ e.id \in Marked(r[2])
        <3>1. pass' = pass
            BY <1>1, <1>3, <2>3, MarksLast DEF MarkingTasks
        <3> QED
            BY <2>1, <2>3, <3>1 DEF Marked, ToNotify, Overdue
    <2> QED
        BY <2>1, <2>2, <2>3 DEF InEvents
<1> QED
    BY <1>2, <1>3

LEMMA InPassKept ==
    ASSUME Shape, Shape', Next, ~failed', NEW r \in Nat \X Kinds, r[1] <= lastId, InEvents(r), InPass(r)
    PROVE  InPass(r)'
<1>1. r[1] \in Nat /\ r[2] \in Kinds /\ pass \in Pass /\ lastId \in Nat
    BY DEF Shape, Tasks, Passing
<1>2. ASSUME pass'.pending = pass.pending, pass'.hours = pass.hours,
             pass.step \in After(r[2]) => pass'.step \in After(r[2])
      PROVE  InPass(r)'
    BY <1>2 DEF InPass, Told, InTurn, Overdue
<1>3. CASE pass' = pass
    BY <1>2, <1>3
<1>4. CASE StartPass \/ WriteHealth
    <2>1. StartPass => pass'.pending = {}
        BY DEF StartPass, IdlePass
    <2>2. WriteHealth => pass'.pending = {}
        BY DEF WriteHealth, IdlePass
    <2> QED
        BY <1>4, <2>1, <2>2 DEF InPass
<1>5. CASE Backfill \/ EndOpen \/ AlertHealth
    <2>1. pass'.pending = pass.pending /\ pass'.hours = pass.hours
        BY <1>1, <1>5 DEF Backfill, EndOpen, AlertHealth, Pass
    <2>2. Backfill => pass.step = "backfill"
        BY DEF Backfill
    <2>3. EndOpen => pass.step = "open"
        BY DEF EndOpen
    <2>4. AlertHealth => pass'.step = "write"
        BY <1>1 DEF AlertHealth, Pass
    <2> QED
        BY <1>2, <1>5, <2>1, <2>2, <2>3, <2>4 DEF After
<1>6. ASSUME NEW kind \in Kinds, Alert(kind) \/ NothingToAlert(kind) \/ Mark(kind) PROVE InPass(r)'
    <2>1. pass'.pending = pass.pending /\ pass'.hours = pass.hours
        BY <1>1, <1>6 DEF Alert, NothingToAlert, Mark, Pass
    <2>2. \/ pass.step = kind /\ pass'.step \in {Marking[kind], AfterKind(kind)}
          \/ pass.step = Marking[kind] /\ pass'.step = AfterKind(kind)
        BY <1>1, <1>6 DEF Alert, NothingToAlert, Mark, Pass
    <2>3. pass.step \in After(r[2]) => pass'.step \in After(r[2])
        BY <1>1, <2>2, MarkingSteps DEF After, AfterKind, Kinds
    <2> QED
        BY <1>2, <2>1, <2>3
<1>7. ASSUME NEW query \in Reads, Read(query) PROVE InPass(r)'
    <2>1. pass.step = "read" /\ pass'.pending \in {pass.pending, Pending}
        BY <1>1, <1>7 DEF Read, Pass
    <2>2. pass.step \notin After(r[2]) /\ pass.step # Marking[r[2]]
        BY <1>1, <2>1, MarkingSteps DEF After, Kinds
    <2>3. \A e \in pass.pending \cup Pending : e.id = r[1] => Told(e, r[2])
        BY <2>2 DEF InEvents, InPass, InTurn, Pending
    <2> QED
        BY <2>1, <2>3 DEF InPass, Told
<1>8. ASSUME NEW key \in pass.schedules, Open(key) PROVE InPass(r)'
    <2>1. pass.step = "open" /\ pass'.pending = pass.pending \cup (events' \ events)
        BY <1>1, <1>8 DEF Open, Pass
    <2>2. \A e \in events' \ events : e.id = lastId + 1
        BY <1>8 DEF Open, Opened, NewTask
    <2>3. pass.step \notin After(r[2])
        BY <2>1 DEF After
    <2>4. \A e \in pass.pending : e.id = r[1] => Told(e, r[2])
        BY <2>3 DEF InPass, InTurn
    <2> QED
        BY <1>1, <2>1, <2>2, <2>4 DEF InPass, Told
<1> QED
    BY <1>3, <1>4, <1>5, <1>6, <1>7, <1>8, WorkerSteps

\* What is alerted now is about to be marked, unless the pass opened it.
LEMMA RaisedNow ==
    ASSUME Shape, NEW kind \in Kinds, Alert(kind), NEW e \in ToNotify(kind), e.id \notin pass.own
    PROVE  InEvents(<<e.id, kind>>)' /\ InPass(<<e.id, kind>>)'
<1>1. /\ pass' = [pass EXCEPT !.step = Marking[kind]] /\ events' = events /\ pass \in Pass
      /\ e \in pass.pending /\ (Overdue(e) <=> kind = "overdue") /\ Distinct(pass.pending)
    BY DEF Alert, ToNotify, Kinds, Shape, Passing
<1>2. /\ pass'.step = Marking[kind] /\ pass'.pending = pass.pending /\ pass'.hours = pass.hours
      /\ pass'.own = pass.own
    BY <1>1 DEF Pass
<1>3. e.id \in Marked(kind)'
    BY <1>1, <1>2 DEF Marked, ToNotify, Overdue
<1>4. InEvents(<<e.id, kind>>)'
    BY <1>2, <1>3 DEF InEvents
<1>5. \A d \in pass.pending : d.id = e.id => d = e
    BY <1>1 DEF Distinct
<1>6. pass'.step \in After(kind)
    BY <1>2, MarkingSteps DEF After, Kinds
<1>7. Overdue(e)' <=> kind = "overdue"
    BY <1>1, <1>2 DEF Overdue
<1>8. InPass(<<e.id, kind>>)'
    BY <1>2, <1>5, <1>6, <1>7 DEF InPass, InTurn
<1> QED
    BY <1>4, <1>8

\* A task the poller opened is not alerted where it was before.
LEMMA NotRaisedTwice ==
    ASSUME NEW kind \in Kinds, Alert(kind), NEW e \in ToNotify(kind), InPass(<<e.id, kind>>)
    PROVE  FALSE
<1>1. pass.step = kind /\ e \in pass.pending
    BY DEF Alert, ToNotify
<1>2. pass.step \notin After(kind)
    BY <1>1 DEF After, Kinds
<1>3. Told(e, kind)
    BY <1>1, <1>2 DEF InPass, InTurn
<1> QED
    BY <1>3 DEF Told, ToNotify, Kinds

LEMMA BackstopGrows ==
    ASSUME Shape, Next, pass.own \subseteq backstop
    PROVE  backstop \subseteq backstop' /\ pass'.own \subseteq backstop'
<1>1. pass \in Pass
    BY DEF Shape, Passing
<1>2. ASSUME NEW key \in pass.schedules, Open(key) PROVE backstop \subseteq backstop' /\ pass'.own \subseteq backstop'
    <2>1. backstop' = backstop \cup {e.id : e \in events' \ events}
        BY <1>2 DEF Open
    <2>2. pass'.own = pass.own \cup {e.id : e \in events' \ events}
        <3>1. CASE Due(key)
            BY <1>1, <1>2, <3>1 DEF Open, Pass
        <3>2. CASE ~Due(key)
            BY <1>1, <1>2, <3>2 DEF Open, Pass
        <3> QED
            BY <3>1, <3>2
    <2> QED
        BY <2>1, <2>2
<1>3. ASSUME backstop' = backstop, pass'.own \in {{}, pass.own}
      PROVE  backstop \subseteq backstop' /\ pass'.own \subseteq backstop'
    BY <1>3
<1>4. CASE Poller \/ Administrator \/ Staff
    BY <1>3, <1>4, PollerLeaves, AdministratorLeaves, StaffLeaves DEF pollerVars, adminVars, staffVars, history
<1>5. StartPass \/ WriteHealth \/ LosePass => backstop' = backstop
    BY DEF StartPass, WriteHealth, LosePass, history
<1>6. (StartPass => pass'.own = {}) /\ (WriteHealth \/ LosePass => pass'.own = {})
    <2>1. StartPass => pass'.own = {}
        BY DEF StartPass, IdlePass
    <2>2. WriteHealth \/ LosePass => pass'.own = {}
        BY DEF WriteHealth, LosePass, IdlePass
    <2> QED
        BY <2>1, <2>2
<1>7. Backfill \/ EndOpen \/ AlertHealth => backstop' = backstop /\ pass'.own = pass.own
    BY <1>1 DEF Backfill, EndOpen, AlertHealth, history, Pass
<1>8. ASSUME NEW query \in Reads, Read(query) PROVE backstop' = backstop /\ pass'.own = pass.own
    BY <1>1, <1>8 DEF Read, history, Pass
<1>9. ASSUME NEW kind \in Kinds, Alert(kind) \/ NothingToAlert(kind) \/ Mark(kind)
      PROVE  backstop' = backstop /\ pass'.own = pass.own
    BY <1>1, <1>9 DEF Alert, NothingToAlert, Mark, history, Pass
<1> QED
    BY <1>2, <1>3, <1>4, <1>5, <1>6, <1>7, <1>8, <1>9 DEF Next, Worker

LEMMA AlertedSteps ==
    ASSUME Next
    PROVE  UNCHANGED <<alerted, repeated>> \/ \E kind \in Kinds : Alert(kind)
<1>1. Poller \/ LosePass \/ Administrator \/ Staff => UNCHANGED <<alerted, repeated>>
    BY PollerLeaves, WorkerLeaves, AdministratorLeaves, StaffLeaves DEF pollerVars, adminVars, staffVars, history
<1>2. StartPass \/ Backfill \/ EndOpen \/ AlertHealth \/ WriteHealth => UNCHANGED <<alerted, repeated>>
    BY DEF StartPass, Backfill, EndOpen, AlertHealth, WriteHealth, history
<1>3. ASSUME NEW query, Read(query) PROVE UNCHANGED <<alerted, repeated>>
    BY <1>3 DEF Read, history
<1>4. ASSUME NEW key, Open(key) PROVE UNCHANGED <<alerted, repeated>>
    BY <1>4 DEF Open
<1>5. ASSUME NEW kind \in Kinds, NothingToAlert(kind) \/ Mark(kind) PROVE UNCHANGED <<alerted, repeated>>
    BY <1>5 DEF NothingToAlert, Mark, history
<1> QED
    BY <1>1, <1>2, <1>3, <1>4, <1>5 DEF Next, Worker

LEMMA AlertsKept ==
    ASSUME Shape, Shape', AlertInv, Next
    PROVE  /\ alerted' \subseteq Nat \X Kinds /\ \A r \in alerted' : r[1] <= lastId'
           /\ ~failed' => Alerts' /\ \A r \in repeated' : r[1] \in backstop'
<1>1. /\ alerted \subseteq Nat \X Kinds /\ (\A r \in alerted : r[1] <= lastId)
      /\ lastId \in Nat /\ lastId' \in Nat /\ lastId <= lastId'
      /\ backstop \subseteq backstop' /\ pass.own \subseteq backstop /\ pass.own \subseteq backstop'
    BY TasksKept, BackstopGrows DEF AlertInv, Shape, Tasks
\* What was alerted before.
<1>2. ASSUME ~failed', NEW r \in alerted, r[1] \notin backstop' PROVE InEvents(r)' /\ InPass(r)'
    <2>1. InEvents(r) /\ InPass(r)
        BY <1>1, <1>2, NotFailed DEF AlertInv, Alerts
    <2> QED
        BY <1>1, <1>2, <2>1, InEventsKept, InPassKept
<1>3. \A r \in alerted : r[1] <= lastId'
    <2> SUFFICES ASSUME NEW r \in alerted PROVE r[1] <= lastId'
        OBVIOUS
    <2>1. r[1] \in Nat /\ r[1] <= lastId
        BY <1>1
    <2> QED
        BY <1>1, <2>1
<1>4. CASE UNCHANGED <<alerted, repeated>>
    BY <1>1, <1>2, <1>3, <1>4, NotFailed DEF AlertInv, Alerts
<1>5. ASSUME NEW kind \in Kinds, Alert(kind) PROVE
           /\ alerted' \subseteq Nat \X Kinds /\ \A r \in alerted' : r[1] <= lastId'
           /\ ~failed' => Alerts' /\ \A r \in repeated' : r[1] \in backstop'
    <2> DEFINE raised == IF kind \in unread THEN {} ELSE {<<e.id, kind>> : e \in ToNotify(kind)}
    <2>1. /\ alerted' = alerted \cup raised /\ repeated' = repeated \cup (raised \cap alerted)
          /\ backstop' = backstop
        BY <1>5 DEF Alert
    <2>2. \A r \in raised : \E e \in ToNotify(kind) : r = <<e.id, kind>>
        OBVIOUS
    <2> HIDE DEF raised
    <2>3. \A e \in ToNotify(kind) : e \in pass.pending /\ e.id \in Nat /\ e.id <= lastId
        BY DEF ToNotify, Shape, Passing, Pass, Event
    <2>4. ASSUME NEW r \in raised PROVE r \in Nat \X Kinds /\ r[1] <= lastId'
        <3>1. PICK e \in ToNotify(kind) : r = <<e.id, kind>>
            BY <2>2
        <3>2. e.id \in Nat /\ e.id <= lastId
            BY <2>3
        <3> QED
            BY <1>1, <3>1, <3>2
    <2>5. ASSUME NEW r \in raised, r[1] \notin backstop PROVE InEvents(r)' /\ InPass(r)'
        <3>1. PICK e \in ToNotify(kind) : r = <<e.id, kind>>
            BY <2>2
        <3>2. e.id \notin pass.own
            BY <1>1, <2>5, <3>1
        <3> QED
            BY <1>5, <3>1, <3>2, RaisedNow
    <2>6. ASSUME ~failed, NEW r \in raised \cap alerted PROVE r[1] \in backstop
        <3> SUFFICES ASSUME r[1] \notin backstop PROVE FALSE
            OBVIOUS
        <3>1. PICK e \in ToNotify(kind) : r = <<e.id, kind>>
            BY <2>2
        <3>2. InPass(<<e.id, kind>>)
            BY <2>6, <3>1 DEF AlertInv, Alerts
        <3> QED
            BY <1>5, <3>2, NotRaisedTwice
    <2>7. ~failed' => Alerts'
        BY <1>2, <2>1, <2>5 DEF Alerts
    <2>8. ~failed' => \A r \in repeated' : r[1] \in backstop'
        BY <2>1, <2>6, NotFailed DEF AlertInv
    <2> QED
        BY <1>1, <1>3, <2>1, <2>4, <2>7, <2>8
<1> QED
    BY <1>4, <1>5, AlertedSteps

\* The score a pass works with is the stored one, which only a pass writes.
LEMMA EpisodesKept ==
    ASSUME Shape, Shape', Episodes, Next, ~failed'
    PROVE  Episodes'
<1>1. /\ pass \in Pass /\ (pass.step = "backfill" => pass.read = {})
      /\ episode \in {"none", "one"} /\ (LowRead => pass.low = low)
      /\ episode = "one" => low \/ (pass.step = "write" /\ Low)
    BY DEF Shape, Passing, Episodes
<1>2. ASSUME UNCHANGED <<low, episode>>, pass.step # "write", LowRead' => pass'.low = low PROVE Episodes'
    BY <1>1, <1>2 DEF Episodes
<1>3. ASSUME UNCHANGED <<pass, low, episode>> PROVE Episodes'
    BY <1>1, <1>3 DEF Episodes, LowRead, Low, Overdue
<1>4. Poller \/ Administrator \/ Staff => UNCHANGED <<pass, low, episode>>
    BY PollerLeaves, AdministratorLeaves, StaffLeaves DEF pollerVars, adminVars, staffVars, history
<1>5. ASSUME StartPass PROVE Episodes'
    <2>1. UNCHANGED <<low, episode>> /\ pass.step = "idle" /\ pass'.step = "backfill"
        BY <1>5 DEF StartPass, history, IdlePass
    <2> QED
        BY <1>2, <2>1 DEF LowRead
<1>6. ASSUME Backfill PROVE Episodes'
    <2>1. UNCHANGED <<low, episode>> /\ pass.step = "backfill" /\ pass'.step = "read" /\ pass'.read = {}
        BY <1>1, <1>6 DEF Backfill, history, Pass
    <2> QED
        BY <1>2, <2>1 DEF LowRead
<1>7. ASSUME NEW query \in Reads, Read(query) PROVE Episodes'
    <2>1. UNCHANGED <<low, episode>> /\ pass.step = "read" /\ pass'.read = pass.read \cup {query}
        BY <1>1, <1>7 DEF Read, history, Pass
    <2>2. CASE query = "printer"
        <3>1. pass'.low = low
            BY <1>1, <1>7, <2>2 DEF Read, Pass
        <3> QED
            BY <1>2, <2>1, <3>1
    <2>3. CASE query # "printer"
        <3>1. pass'.low = pass.low /\ (pass'.step = "open" => pass'.read = Reads) /\ pass'.step \in {"read", "open"}
            BY <1>1, <1>7, <2>1, <2>3 DEF Read, Pass
        <3>2. LowRead' => LowRead
            BY <2>1, <2>3, <3>1 DEF LowRead, Reads
        <3> QED
            BY <1>1, <1>2, <2>1, <3>1, <3>2
    <2> QED
        BY <2>2, <2>3
<1>8. ASSUME NEW key \in pass.schedules, Open(key) PROVE Episodes'
    <2>1. UNCHANGED <<low, episode>> /\ pass.step = "open" /\ pass'.low = pass.low
        BY <1>1, <1>8 DEF Open, Pass
    <2> QED
        BY <1>1, <1>2, <2>1 DEF LowRead
<1>9. ASSUME EndOpen PROVE Episodes'
    <2>1. UNCHANGED <<low, episode>> /\ pass.step = "open" /\ pass'.low = pass.low
        BY <1>1, <1>9 DEF EndOpen, history, Pass
    <2> QED
        BY <1>1, <1>2, <2>1 DEF LowRead
<1>10. ASSUME NEW kind \in Kinds, Alert(kind) \/ NothingToAlert(kind) \/ Mark(kind) PROVE Episodes'
    <2>1. UNCHANGED <<low, episode>> /\ pass.step \in {kind, Marking[kind]} /\ pass'.low = pass.low
        BY <1>1, <1>10 DEF Alert, NothingToAlert, Mark, history, Pass
    <2>2. pass.step # "write" /\ LowRead
        BY <2>1, MarkingSteps DEF LowRead, Kinds
    <2> QED
        BY <1>1, <1>2, <2>1, <2>2
<1>11. ASSUME AlertHealth PROVE Episodes'
    <2>1. /\ pass.step = "health" /\ low' = low /\ pass'.step = "write" /\ pass'.low = pass.low
          /\ pass'.worn = pass.worn /\ pass'.pending = pass.pending /\ pass'.hours = pass.hours
        BY <1>1, <1>11 DEF AlertHealth, Pass
    <2>2. Low' <=> Low
        BY <2>1 DEF Low, Overdue
    <2>3. pass.low = low
        BY <1>1, <2>1 DEF LowRead
    <2>4. CASE Drops
        <3>1. Low /\ ~low /\ episode = "none"
            BY <1>1, <2>1, <2>3, <2>4 DEF Drops
        <3>2. episode' \in {"none", "one"}
            BY <1>11, <2>4, <3>1 DEF AlertHealth
        <3> QED
            BY <2>1, <2>2, <2>3, <3>1, <3>2 DEF Episodes
    <2>5. CASE ~Drops
        <3>1. episode' = episode
            BY <1>11, <2>5 DEF AlertHealth
        <3> QED
            BY <1>1, <2>1, <2>3, <3>1 DEF Episodes
    <2> QED
        BY <2>4, <2>5
<1>12. ASSUME WriteHealth PROVE Episodes'
    <2>1. low' = Low /\ episode' = IF Low THEN episode ELSE "none"
        BY <1>12 DEF WriteHealth
    <2>2. pass'.step = "idle"
        BY <1>12 DEF WriteHealth, IdlePass
    <2>3. ~LowRead'
        BY <2>2 DEF LowRead
    <2>4. episode' \in {"none", "one"} /\ (episode' = "one" => low')
        BY <1>1, <2>1
    <2> QED
        BY <2>3, <2>4 DEF Episodes
<1> QED
    BY <1>3, <1>4, <1>5, <1>6, <1>7, <1>8, <1>9, <1>10, <1>11, <1>12, NotFailed DEF Next, Worker

LEMMA AlertInvKept ==
    ASSUME Shape, Shape', AlertInv, [Next]_vars
    PROVE  AlertInv'
<1>1. CASE UNCHANGED vars
    BY <1>1 DEF vars, tables, history, AlertInv, Alerts, InEvents, InPass, InTurn, Marked, ToNotify, Overdue, Episodes,
        LowRead, Low
<1>2. CASE Next
    <2>1. pass'.own \subseteq backstop'
        BY <1>2, BackstopGrows DEF AlertInv
    <2>2. /\ alerted' \subseteq Nat \X Kinds /\ \A r \in alerted' : r[1] <= lastId'
          /\ ~failed' => Alerts' /\ \A r \in repeated' : r[1] \in backstop'
        BY <1>2, AlertsKept
    <2>3. ~failed' => Episodes'
        BY <1>2, NotFailed, EpisodesKept DEF AlertInv
    <2> QED
        BY <2>1, <2>2, <2>3 DEF AlertInv
<1> QED
    BY <1>1, <1>2

LEMMA InitAlert == Init => AlertInv
BY DEF Init, AlertInv, Alerts, Episodes, LowRead, IdlePass

-----------------------------------------------------------------------------

(* What holds of every state: the parts above together.                    *)
Sound == Shape /\ ServedInv /\ ListInv /\ AlertInv

LEMMA AlwaysSound == Spec => []Sound
<1>1. Init => Sound
    BY InitShape, InitServed, InitList, InitAlert DEF Sound
<1>2. Sound /\ [Next]_vars => Sound'
    BY ShapeKept, ServedKept, ListKept, AlertInvKept DEF Sound
<1> QED
    BY <1>1, <1>2, PTL DEF Spec

\* The tables, the pass and the crossing keep their shapes, and there is at most one
\* pending task of a schedule: for any lists, hours and number of administrators.
THEOREM TypeCorrect == Spec => []TypeOK
<1>1. Sound => TypeOK
    BY ShapeGivesTypeOK DEF Sound
<1> QED
    BY <1>1, AlwaysSound, PTL

\* A schedule's tasks never outnumber the intervals the hours have passed, however a
\* crossing and a pass overlap and wherever one is lost, so long as no task is completed
\* under way: each opens a task by counts that still hold when it is inserted.
THEOREM ServedOnceEach == Spec => []ServedOnce
<1>1. Sound => ServedOnce
    BY ServedGivesOnce DEF Sound
<1> QED
    BY <1>1, AlwaysSound, PTL

\* A save that ran alone was not refused by the unique index, and left the schedules of its list and
\* no other, and no task of an interval that is gone, whatever earlier saves left behind.
THEOREM ListFollowed == Spec => []SchedulesFollowList
<1>1. Sound => SchedulesFollowList
    BY DEF Sound, ListInv, Settled, KeysOf, Graph, SchedulesFollowList
<1> QED
    BY <1>1, AlwaysSound, PTL

\* Only a task the worker opened itself is alerted twice for a kind, and an episode of low health is
\* alerted once, unless a statement has failed.
THEOREM AlertsNotRepeated == Spec => []RepeatedOnlyForBackstop
<1>1. Sound => RepeatedOnlyForBackstop
    BY DEF Sound, AlertInv, Episodes, RepeatedOnlyForBackstop
<1> QED
    BY <1>1, AlwaysSound, PTL

-----------------------------------------------------------------------------
(* The Home Assistant rule engine.  That a rule has a change to fire for   *)
(* has to be known when the source moves, and carried through the read     *)
(* until the rule is evaluated.                                            *)

CONSTANTS NoValue, Scenarios
VARIABLES rules, edited, state, memory, haPass, haBudget

Ha == INSTANCE HaEngine WITH pass <- haPass, budget <- haBudget

SourceCounts == [Ha!Sources -> [Values -> Nat]]
Seen == [Ha!Sources -> Values \cup {NoValue}]

\* What the counts of firings and the memory range over, and that a pass is a pass.
EngineShape ==
    /\ state \in [Ha!Sources -> Values] /\ memory \in Seen
    /\ haPass = [todo |-> haPass.todo, unread |-> haPass.unread, read |-> haPass.read, asked |-> haPass.asked]
    /\ haPass.read \in Seen /\ fired \in [Ids -> SourceCounts]

\* No rule has fired yet for the last time s came to v.
Unspent(s, v) == \A i \in Ids : <<i, s, v>> \in due

\* s is at a value it was not last seen at, or was when it was read.
UnspentAtState ==
    \A s \in Ha!Sources, v \in Values :
        memory[s] \notin {NoValue, v} /\ state[s] = v => Unspent(s, v)
UnspentAsRead ==
    \A s \in Ha!Sources, v \in Values :
        memory[s] \notin {NoValue, v} /\ haPass.read[s] = v => Unspent(s, v)

\* s has moved since it was read.
UnspentSinceRead ==
    \A s \in Ha!Sources, v \in Values :
        haPass.read[s] \notin {NoValue, v} /\ state[s] = v => Unspent(s, v)

EngineInv == EngineShape /\ UnspentAtState /\ UnspentAsRead /\ UnspentSinceRead

-----------------------------------------------------------------------------
(* The lists of rules.                                                     *)

LEMMA AddedIsList ==
    ASSUME NEW list, Ha!IsList(list), NEW r \in Ha!Rule, \A n \in DOMAIN list : list[n].id # r.id
    PROVE  Ha!IsList(Append(list, r))
<1>1. list \in Seq(Ha!Rule) /\ Append(list, r) \in Seq(Ha!Rule) /\ Len(Append(list, r)) = Len(list) + 1
    BY DEF Ha!IsList
<1>2. \A n \in 1..Len(list) + 1 : Append(list, r)[n] = IF n <= Len(list) THEN list[n] ELSE r
    BY <1>1
<1>3. DOMAIN list = 1..Len(list) /\ DOMAIN Append(list, r) = 1..Len(list) + 1 /\ Len(list) \in Nat
    BY <1>1
<1> QED
    BY <1>1, <1>2, <1>3 DEF Ha!IsList

LEMMA Joined ==
    ASSUME NEW S, NEW s \in Seq(S), NEW t \in Seq(S)
    PROVE  /\ s \o t \in Seq(S) /\ Len(s \o t) = Len(s) + Len(t)
           /\ \A j \in 1..Len(s) : (s \o t)[j] = s[j]
           /\ \A j \in 1..Len(t) : (s \o t)[Len(s) + j] = t[j]
OBVIOUS

LEMMA DeletedIsList ==
    ASSUME NEW list, Ha!IsList(list), NEW k \in DOMAIN list
    PROVE  Ha!IsList(Ha!RemoveAt(list, k))
<1> DEFINE rest == Ha!RemoveAt(list, k)
           before == SubSeq(list, 1, k - 1)
           after == SubSeq(list, k + 1, Len(list))
<1>1. list \in Seq(Ha!Rule) /\ Len(list) \in Nat /\ k \in 1..Len(list) /\ DOMAIN list = 1..Len(list)
    BY DEF Ha!IsList
<1>2. /\ before \in Seq(Ha!Rule) /\ Len(before) = k - 1
      /\ \A n \in 1..k - 1 : before[n] = list[n]
    BY <1>1
<1>3. /\ after \in Seq(Ha!Rule) /\ Len(after) = Len(list) - k
      /\ \A n \in 1..Len(list) - k : after[n] = list[n + k]
    BY <1>1
<1>4. rest = before \o after
    BY DEF Ha!RemoveAt
<1> HIDE DEF rest, before, after
<1>5. rest \in Seq(Ha!Rule) /\ Len(rest) = Len(before) + Len(after)
    BY <1>2, <1>3, <1>4, Joined
<1>6. Len(rest) = Len(list) - 1 /\ DOMAIN rest = 1..Len(list) - 1
    <2>1. Len(rest) = Len(list) - 1
        BY <1>1, <1>2, <1>3, <1>5
    <2>2. DOMAIN rest = 1..Len(rest)
        BY <1>5
    <2> QED
        BY <2>1, <2>2
<1>8. ASSUME NEW n \in 1..Len(list) - 1, n < k
      PROVE  rest[n] = list[n]
    <2>1. n \in 1..Len(before) /\ n \in 1..k - 1
        BY <1>1, <1>2, <1>8
    <2>2. rest[n] = before[n]
        BY <1>2, <1>3, <1>4, <2>1, Joined
    <2> QED
        BY <1>2, <2>1, <2>2
<1>9. ASSUME NEW n \in 1..Len(list) - 1, ~(n < k)
      PROVE  rest[n] = list[n + 1]
    <2> DEFINE j == n - (k - 1)
    <2>1. j \in 1..Len(list) - k /\ j \in 1..Len(after) /\ n = Len(before) + j /\ j + k = n + 1
        BY <1>1, <1>2, <1>3, <1>9
    <2>2. rest[n] = after[j]
        <3> HIDE DEF j
        <3>1. (before \o after)[Len(before) + j] = after[j]
            <4>1. before \in Seq(Ha!Rule) /\ after \in Seq(Ha!Rule) /\ j \in 1..Len(after)
                BY <1>2, <1>3, <2>1
            <4> HIDE DEF before, after
            <4> QED
                BY ONLY <4>1, Joined
        <3> QED
            BY <1>4, <2>1, <3>1
    <2>3. after[j] = list[j + k]
        BY <1>3, <2>1
    <2> QED
        BY <2>1, <2>2, <2>3
<1>7. ASSUME NEW m \in 1..Len(list) - 1, NEW n \in 1..Len(list) - 1, rest[m].id = rest[n].id
      PROVE  m = n
    <2> DEFINE at(x) == IF x < k THEN x ELSE x + 1
    <2>1. \A x \in 1..Len(list) - 1 : rest[x] = list[at(x)] /\ at(x) \in DOMAIN list
        BY <1>1, <1>8, <1>9
    <2>2. at(m) = at(n)
        <3> HIDE DEF at
        <3> QED
            BY <1>1, <1>7, <2>1 DEF Ha!IsList
    <2> QED
        BY <1>1, <2>2
<1> QED
    BY <1>5, <1>6, <1>7 DEF Ha!IsList, rest

LEMMA ChangedIsList ==
    ASSUME NEW list, Ha!IsList(list), NEW k \in DOMAIN list, NEW r \in Ha!Rule, r.id = list[k].id
    PROVE  Ha!IsList([list EXCEPT ![k] = r])
<1>1. list \in Seq(Ha!Rule) /\ [list EXCEPT ![k] = r] \in Seq(Ha!Rule) /\ DOMAIN [list EXCEPT ![k] = r] = DOMAIN list
    BY DEF Ha!IsList
<1>2. \A n \in DOMAIN list : [list EXCEPT ![k] = r][n] = IF n = k THEN r ELSE list[n]
    OBVIOUS
<1> QED
    BY <1>1, <1>2 DEF Ha!IsList

RuleLists == \A list \in {rules} \cup edited : Ha!IsList(list)

LEMMA ListsKept ==
    ASSUME Ha!ConstantsAssumption, RuleLists, [Ha!Next]_(Ha!vars)
    PROVE  RuleLists'
<1>1. Ha!IsList(rules)
    BY DEF RuleLists
<1>2. ASSUME NEW list, Ha!IsList(list), Ha!Edit(list) PROVE RuleLists'
    BY <1>2 DEF Ha!Edit, RuleLists
<1>3. ASSUME NEW r \in Ha!Rule, Ha!Create(r) PROVE RuleLists'
    <2>1. \A n \in DOMAIN rules : rules[n].id # r.id
        <3> SUFFICES ASSUME NEW n \in DOMAIN rules PROVE rules[n].id # r.id
            OBVIOUS
        <3>1. rules[n] \in Ha!Range(rules) /\ rules[n] \in Ha!Rule
            BY <1>1 DEF Ha!Range, Ha!IsList
        <3>2. rules[n].id \in Ha!Known
            BY <3>1 DEF Ha!Known
        <3>3. rules[n].id < r.id /\ r.id \in Nat
            BY <1>3, <3>2 DEF Ha!ConstantsAssumption, Ha!Create, Ha!Rule
        <3> QED
            BY <3>3
    <2>2. Ha!IsList(Ha!Added(r))
        BY <1>1, <2>1, AddedIsList DEF Ha!Added
    <2> QED
        BY <1>2, <1>3, <2>2 DEF Ha!Create
<1>4. ASSUME NEW n \in DOMAIN rules, Ha!Delete(n) PROVE RuleLists'
    BY <1>1, <1>2, <1>4, DeletedIsList DEF Ha!Delete, Ha!Deleted
<1>5. ASSUME NEW n \in DOMAIN rules, Ha!Update(n) PROVE RuleLists'
    BY <1>1, <1>2, <1>5, ChangedIsList DEF Ha!Update, Ha!Changed
<1>6. CASE Ha!WriteRules
    BY <1>6 DEF Ha!WriteRules, RuleLists
<1>7. CASE UNCHANGED <<rules, edited>> \/ (rules' = rules /\ edited' = {})
    BY <1>7 DEF RuleLists
<1>8. Ha!PassStep \/ Ha!Failure \/ (\E s \in Ha!Sources, v \in Values : Ha!Move(s, v)) \/ UNCHANGED Ha!vars
         => RuleLists'
    BY <1>7 DEF Ha!PassStep, Ha!StartPass, Ha!ReadEntities, Ha!Evaluate, Ha!ReadPrinter, Ha!Failure,
        Ha!MissPrinter, Ha!MissEntities, Ha!Crash, Ha!Move, Ha!vars
<1> QED
    BY <1>3, <1>4, <1>5, <1>6, <1>8 DEF Ha!Next, Ha!Administrator

-----------------------------------------------------------------------------
\* One count goes up by one, if it is there, and the others stay.
Bump(f, r) == [f EXCEPT ![r.id][r.source][r.value] = @ + 1]
Plus(n, bumped) == IF bumped THEN n + 1 ELSE n

LEMMA Bumped ==
    ASSUME NEW f \in [Ids -> SourceCounts], NEW r
    PROVE  /\ Bump(f, r) \in [Ids -> SourceCounts]
           /\ \A i \in Ids, s \in Ha!Sources, v \in Values :
                /\ Bump(f, r)[i][s][v] # f[i][s][v] => i = r.id /\ s = r.source /\ v = r.value
                /\ Bump(f, r)[i][s][v] \in {f[i][s][v], f[i][s][v] + 1}
<1> DEFINE OfRule(i) == [f[i] EXCEPT ![r.source][r.value] = @ + 1]
           OfSource(i, s) == [f[i][s] EXCEPT ![r.value] = @ + 1]
<1>1. ASSUME NEW i \in Ids PROVE Bump(f, r)[i] = IF i = r.id THEN OfRule(i) ELSE f[i]
    BY DEF Bump
<1>2. ASSUME NEW i \in Ids, NEW s \in Ha!Sources PROVE OfRule(i)[s] = IF s = r.source THEN OfSource(i, s) ELSE f[i][s]
    BY DEF SourceCounts
<1>3. ASSUME NEW i \in Ids, NEW s \in Ha!Sources, NEW v \in Values
      PROVE  f[i][s][v] \in Nat /\ OfSource(i, s)[v] = Plus(f[i][s][v], v = r.value)
    BY DEF SourceCounts, Plus
<1>4. ASSUME NEW i \in Ids, NEW s \in Ha!Sources PROVE OfSource(i, s) \in [Values -> Nat] /\ f[i][s] \in [Values -> Nat]
    <2>1. f[i][s] \in [Values -> Nat]
        BY DEF SourceCounts
    <2>2. OfSource(i, s) = [v \in Values |-> OfSource(i, s)[v]]
        BY <2>1
    <2>3. \A v \in Values : OfSource(i, s)[v] \in Nat
        BY <1>3 DEF Plus
    <2> HIDE DEF OfSource
    <2> QED
        BY <2>1, <2>2, <2>3
<1>5. ASSUME NEW i \in Ids PROVE OfRule(i) \in SourceCounts /\ f[i] \in SourceCounts
    <2>1. OfRule(i) = [s \in Ha!Sources |-> OfRule(i)[s]]
        BY DEF SourceCounts
    <2> HIDE DEF OfRule, OfSource
    <2> QED
        BY <1>2, <1>4, <2>1 DEF SourceCounts
<1>6. Bump(f, r) = [i \in Ids |-> Bump(f, r)[i]]
    BY DEF Bump
<1> HIDE DEF OfRule, OfSource
<1>7. Bump(f, r) \in [Ids -> SourceCounts]
    BY <1>1, <1>5, <1>6
<1> QED
    BY <1>1, <1>2, <1>3, <1>7 DEF Plus

LEMMA EngineStart ==
    ASSUME Ha!ConstantsAssumption, Ha!Init
    PROVE  EngineInv
<1>1. EngineShape
    BY DEF Ha!ConstantsAssumption, Ha!Init, Ha!Idle, Ha!Unseen, SourceCounts, Seen, EngineShape
<1>2. memory = Ha!Unseen /\ haPass.read = Ha!Unseen
    BY DEF Ha!Init, Ha!Idle
<1>3. UnspentAtState /\ UnspentAsRead /\ UnspentSinceRead
    BY <1>2 DEF Ha!Unseen, UnspentAtState, UnspentAsRead, UnspentSinceRead
<1> QED
    BY <1>1, <1>3 DEF EngineInv

\* What is remembered and due stays, and the pass keeps what it has read.
LEMMA Untouched ==
    ASSUME EngineInv, UNCHANGED <<state, memory, due, fired, haPass>>
    PROVE  EngineInv'
BY DEF EngineInv, EngineShape, UnspentAtState, UnspentAsRead, UnspentSinceRead, Unspent

\* A pass that has read nothing yet, or is over, owes nothing.
LEMMA NothingRead ==
    ASSUME Ha!ConstantsAssumption, EngineInv, UNCHANGED <<state, due, fired>>, memory' \in {memory, Ha!Unseen},
           haPass'.read = Ha!Unseen,
           haPass' = [todo |-> haPass'.todo, unread |-> haPass'.unread, read |-> haPass'.read, asked |-> haPass'.asked]
    PROVE  EngineInv'
<1>1. EngineShape'
    BY DEF EngineInv, EngineShape, Ha!Unseen, Seen
<1>2. \A s \in Ha!Sources : haPass'.read[s] = NoValue /\ memory'[s] \in {memory[s], NoValue}
    BY DEF Ha!Unseen
<1>3. UnspentAtState'
    BY <1>2 DEF EngineInv, UnspentAtState, Unspent
<1>4. UnspentAsRead' /\ UnspentSinceRead'
    BY <1>2 DEF Ha!ConstantsAssumption, UnspentAsRead, UnspentSinceRead
<1> QED
    BY <1>1, <1>3, <1>4 DEF EngineInv

\* Some sources are read, and are then at what was read.
LEMMA SomeRead ==
    ASSUME EngineInv, UNCHANGED <<state, memory, due, fired>>, haPass'.read \in Seen,
           \A s \in Ha!Sources : haPass'.read[s] \in {haPass.read[s], state[s]},
           haPass' = [todo |-> haPass'.todo, unread |-> haPass'.unread, read |-> haPass'.read, asked |-> haPass'.asked]
    PROVE  EngineInv'
<1>1. EngineShape'
    BY DEF EngineInv, EngineShape
<1>2. UnspentAtState'
    BY DEF EngineInv, UnspentAtState, Unspent
<1>3. UnspentAsRead'
    BY DEF EngineInv, UnspentAtState, UnspentAsRead, Unspent
<1>4. UnspentSinceRead'
    BY DEF EngineInv, UnspentSinceRead, Unspent
<1> QED
    BY <1>1, <1>2, <1>3, <1>4 DEF EngineInv

\* What an evaluation does: the rule fires, if it does, for a value at which its source was read and
\* not last seen, and the change is then spent.
LEMMA Evaluation ==
    ASSUME EngineInv, Ha!Evaluate
    PROVE  LET r == Head(haPass.todo)
               now == haPass.read[r.source]
               fires == now # NoValue /\ Ha!Fires(r, memory[r.source], now) IN
           /\ UNCHANGED state
           /\ memory' = IF now = NoValue THEN memory ELSE [memory EXCEPT ![r.source] = now]
           /\ haPass' = IF Tail(haPass.todo) = <<>> THEN Ha!Idle ELSE [haPass EXCEPT !.todo = Tail(haPass.todo)]
           /\ fired' = IF fires THEN Bump(fired, r) ELSE fired
           /\ due' = IF fires THEN due \ {<<r.id, r.source, r.value>>} ELSE due
           /\ fires => now = r.value /\ memory[r.source] \notin {NoValue, now}
BY Zenon DEF Ha!Evaluate, Ha!Remembered, Ha!Fires, Bump

\* A rule fires only for a change that is due.
LEMMA FiringsAreDue ==
    ASSUME EngineInv, Ha!Evaluate, NEW i \in Ids, NEW s \in Ha!Sources, NEW v \in Values,
           fired'[i][s][v] # fired[i][s][v]
    PROVE  <<i, s, v>> \in due
<1> DEFINE r == Head(haPass.todo)
           now == haPass.read[r.source]
           fires == now # NoValue /\ Ha!Fires(r, memory[r.source], now)
<1>1. /\ fired' = IF fires THEN Bump(fired, r) ELSE fired
      /\ fires => now = r.value /\ memory[r.source] \notin {NoValue, now}
    BY Evaluation
<1> HIDE DEF fires
<1>2. fires /\ fired' = Bump(fired, r)
    BY <1>1
<1>3. i = r.id /\ s = r.source /\ v = r.value
    <2> HIDE DEF r
    <2> QED
        BY <1>2, Bumped DEF EngineInv, EngineShape
<1>4. memory[s] \notin {NoValue, v} /\ haPass.read[s] = v
    BY <1>1, <1>2, <1>3
<1> QED
    BY <1>4 DEF EngineInv, UnspentAsRead, Unspent

\* From then on the source was last seen at the value, so that nothing is owed for it.
LEMMA Evaluated ==
    ASSUME Ha!ConstantsAssumption, EngineInv, Ha!Evaluate
    PROVE  EngineInv'
<1> DEFINE r == Head(haPass.todo)
           now == haPass.read[r.source]
           fires == now # NoValue /\ Ha!Fires(r, memory[r.source], now)
<1>1. /\ UNCHANGED state
      /\ memory' = IF now = NoValue THEN memory ELSE [memory EXCEPT ![r.source] = now]
      /\ haPass' = IF Tail(haPass.todo) = <<>> THEN Ha!Idle ELSE [haPass EXCEPT !.todo = Tail(haPass.todo)]
      /\ fired' = IF fires THEN Bump(fired, r) ELSE fired
      /\ due' = IF fires THEN due \ {<<r.id, r.source, r.value>>} ELSE due
      /\ fires => now = r.value /\ now # NoValue
    BY Evaluation
<1>2. /\ haPass' = [todo |-> haPass'.todo, unread |-> haPass'.unread, read |-> haPass'.read, asked |-> haPass'.asked]
      /\ haPass'.read \in {haPass.read, Ha!Unseen}
    BY <1>1 DEF EngineInv, EngineShape, Ha!Idle
<1>3. fired' \in [Ids -> SourceCounts]
    <2> HIDE DEF r, fires
    <2> QED
        BY <1>1, Bumped DEF EngineInv, EngineShape
<1>4. memory' \in Seen /\ haPass'.read \in Seen
    BY <1>1, <1>2 DEF EngineInv, EngineShape, Seen, Ha!Unseen
<1>5. EngineShape'
    BY <1>1, <1>2, <1>3, <1>4 DEF EngineInv, EngineShape
<1>6. ASSUME NEW s \in Ha!Sources, NEW v \in Values, Unspent(s, v), memory'[s] # v \/ haPass.read[s] # v
      PROVE  Unspent(s, v)'
    <2> SUFFICES ASSUME NEW i \in Ids, <<i, s, v>> \notin due' PROVE FALSE
        BY DEF Unspent
    <2>1. <<i, s, v>> \in due
        BY <1>6 DEF Unspent
    <2>2. fires /\ r.source = s /\ r.value = v
        BY <1>1, <2>1
    <2>3. haPass.read[s] = v /\ memory' = [memory EXCEPT ![s] = v]
        BY <1>1, <2>2
    <2> QED
        BY <1>6, <2>3 DEF EngineInv, EngineShape, Seen
<1>7. \A s \in Ha!Sources : memory'[s] # memory[s] => memory'[s] = haPass.read[s] /\ haPass.read[s] # NoValue
    BY <1>1 DEF EngineInv, EngineShape, Seen
<1>8. UnspentAtState'
    <2> SUFFICES ASSUME NEW s \in Ha!Sources, NEW v \in Values, memory'[s] \notin {NoValue, v}, state[s] = v
                 PROVE  Unspent(s, v)'
        BY <1>1 DEF UnspentAtState
    <2> QED
        BY <1>6, <1>7 DEF EngineInv, UnspentAtState, UnspentSinceRead
<1>9. UnspentAsRead'
    <2> SUFFICES ASSUME NEW s \in Ha!Sources, NEW v \in Values, memory'[s] \notin {NoValue, v}, haPass'.read[s] = v
                 PROVE  Unspent(s, v)'
        BY DEF UnspentAsRead
    <2>1. haPass.read[s] = v
        BY <1>2 DEF Ha!ConstantsAssumption, Ha!Unseen
    <2> QED
        BY <1>6, <1>7, <2>1 DEF EngineInv, UnspentAsRead
<1>10. UnspentSinceRead'
    <2> SUFFICES ASSUME NEW s \in Ha!Sources, NEW v \in Values, haPass'.read[s] \notin {NoValue, v}, state[s] = v
                 PROVE  Unspent(s, v)'
        BY <1>1 DEF UnspentSinceRead
    <2>1. haPass.read[s] \notin {NoValue, v}
        BY <1>2 DEF Ha!Unseen
    <2> QED
        BY <1>6, <2>1 DEF EngineInv, UnspentSinceRead
<1> QED
    BY <1>5, <1>8, <1>9, <1>10 DEF EngineInv

\* A source that moves gives every rule a change to fire for.
LEMMA SourceMoved ==
    ASSUME EngineInv, NEW s \in Ha!Sources, NEW v \in Values, Ha!Move(s, v)
    PROVE  EngineInv'
<1>1. /\ UNCHANGED <<memory, haPass, fired>> /\ state' = [state EXCEPT ![s] = v]
      /\ due' = due \cup {<<i, s, v>> : i \in Ids}
    BY DEF Ha!Move
<1>2. EngineShape'
    BY <1>1 DEF EngineInv, EngineShape
<1>3. Unspent(s, v)' /\ \A t \in Ha!Sources, w \in Values : Unspent(t, w) => Unspent(t, w)'
    BY <1>1 DEF Unspent
<1>4. \A t \in Ha!Sources : state'[t] = state[t] \/ (t = s /\ state'[t] = v)
    BY <1>1 DEF EngineInv, EngineShape
<1>5. UnspentAtState' /\ UnspentAsRead' /\ UnspentSinceRead'
    BY <1>1, <1>3, <1>4 DEF EngineInv, UnspentAtState, UnspentAsRead, UnspentSinceRead
<1> QED
    BY <1>2, <1>5 DEF EngineInv

-----------------------------------------------------------------------------
LEMMA EngineStep ==
    ASSUME Ha!ConstantsAssumption, EngineInv, [Ha!Next]_(Ha!vars)
    PROVE  EngineInv'
<1> DEFINE IsPass(p) == p = [todo |-> p.todo, unread |-> p.unread, read |-> p.read, asked |-> p.asked]
<1>1. IsPass(haPass) /\ haPass.read \in Seen /\ state \in [Ha!Sources -> Values]
    BY DEF EngineInv, EngineShape
<1>2. CASE Ha!StartPass
    <2>1. UNCHANGED <<state, memory, due, fired>> /\ haPass'.read = Ha!Unseen /\ IsPass(haPass')
        BY <1>2 DEF Ha!StartPass, Ha!Idle
    <2> QED
        BY <2>1, NothingRead
<1>3. CASE Ha!ReadEntities
    <2>1. /\ UNCHANGED <<state, memory, due, fired>> /\ IsPass(haPass')
          /\ haPass'.read = [s \in Ha!Sources |-> IF s \in Entities THEN state[s] ELSE haPass.read[s]]
        BY <1>1, <1>3 DEF Ha!ReadEntities
    <2> QED
        BY <1>1, <2>1, SomeRead DEF Seen
<1>4. ASSUME NEW p \in Printers, Ha!ReadPrinter(p) \/ Ha!MissPrinter(p) PROVE EngineInv'
    <2>1. /\ UNCHANGED <<state, memory, due, fired>> /\ IsPass(haPass')
          /\ haPass'.read = [haPass.read EXCEPT ![p] = state[p]] \/ haPass'.read = haPass.read
        BY <1>1, <1>4 DEF Ha!ReadPrinter, Ha!MissPrinter
    <2> QED
        BY <1>1, <2>1, SomeRead DEF Seen, Ha!Sources
<1>5. CASE Ha!MissEntities \/ Ha!Crash
    <2>1. UNCHANGED <<state, due, fired>> /\ memory' \in {memory, Ha!Unseen} /\ haPass' = Ha!Idle
        BY <1>5 DEF Ha!MissEntities, Ha!Crash
    <2> QED
        BY <2>1, NothingRead DEF Ha!Idle
<1>6. CASE Ha!Administrator
    <2>1. UNCHANGED <<state, memory, due, fired, haPass>>
        BY <1>6 DEF Ha!Administrator, Ha!Create, Ha!Delete, Ha!Update, Ha!WriteRules, Ha!Edit
    <2> QED
        BY <2>1, Untouched
<1>7. CASE UNCHANGED Ha!vars
    BY <1>7, Untouched DEF Ha!vars
<1> QED
    BY <1>2, <1>3, <1>4, <1>5, <1>6, <1>7, Evaluated, SourceMoved DEF Ha!Next, Ha!PassStep, Ha!Failure

\* No change is replayed: a rule that fires has a change to fire for since it last did, for any
\* printers, entities, rules, edits, moves and failures.
THEOREM FiredForAChange ==
    ASSUME Ha!ConstantsAssumption
    PROVE  Ha!Spec => FiresOncePerChange
<1> DEFINE OnlyDue == \A i \in Ids, s \in Sources, v \in Values : Firing(i, s, v) => <<i, s, v>> \in due
<1>1. Ha!Init => EngineInv
    BY EngineStart
<1>2. EngineInv /\ [Ha!Next]_(Ha!vars) => EngineInv'
    BY EngineStep
<1>3. EngineInv /\ [Ha!Next]_(Ha!vars) => [OnlyDue]_fired
    <2> SUFFICES ASSUME EngineInv, [Ha!Next]_(Ha!vars), UNCHANGED fired \/ Ha!Evaluate PROVE [OnlyDue]_fired
        BY DEF Ha!Next, Ha!PassStep, Ha!StartPass, Ha!ReadEntities, Ha!ReadPrinter, Ha!Failure, Ha!MissPrinter,
            Ha!MissEntities, Ha!Crash, Ha!Administrator, Ha!Create, Ha!Delete, Ha!Update, Ha!Edit, Ha!WriteRules,
            Ha!Move, Ha!vars
    <2>1. CASE UNCHANGED fired
        BY <2>1
    <2>2. CASE Ha!Evaluate
        BY <2>2, FiringsAreDue DEF Firing, Sources, Ha!Sources
    <2> QED
        BY <2>1, <2>2
<1>4. FiresOncePerChange <=> [][OnlyDue]_fired
    BY DEF FiresOncePerChange
<1> QED
    BY <1>1, <1>2, <1>3, <1>4, PTL DEF Ha!Spec

\* However administrators' requests cross, no list they write names a rule twice, and what a pass
\* has read and remembers are values.
THEOREM EngineTypeCorrect ==
    ASSUME Ha!ConstantsAssumption
    PROVE  Ha!Spec => []Ha!TypeOK
<1>1. Ha!Init => EngineInv /\ RuleLists
    BY EngineStart DEF Ha!ConstantsAssumption, Ha!Init, RuleLists
<1>2. EngineInv /\ RuleLists /\ [Ha!Next]_(Ha!vars) => EngineInv' /\ RuleLists'
    BY EngineStep, ListsKept
<1>3. EngineInv /\ RuleLists => Ha!TypeOK
    BY DEF RuleLists, EngineInv, EngineShape, Seen, Ha!TypeOK
<1> QED
    BY <1>1, <1>2, <1>3, PTL DEF Ha!Spec
=============================================================================
