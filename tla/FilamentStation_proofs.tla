----------------------- MODULE FilamentStation_proofs -----------------------
(***************************************************************************)
(* That a tag names one spool, that "applied" names what the printer was   *)
(* told last and that what is due is pushed once, for any trays, spools    *)
(* and requests.  The second rests on Batch: an assignment the replay has  *)
(* read is still the one in the row, or has been written over since, and   *)
(* then its tray is in doubt.  The third rests on Once: a row that was     *)
(* found due on a type is not found due again, and while it is due after   *)
(* a push the replay has yet to record that push.                          *)
(***************************************************************************)
EXTENDS FilamentStation, FiniteSetTheorems, TLAPS

\* What the replay holds of a tray, against the row it was read of.
Batch ==
    \A t \in Trays : replay.rows[t] # NoRow =>
        /\ t \in replay.live \ replay.touched => rows[t] # NoRow /\ rows[t].spool = replay.rows[t].spool
        /\ t \in replay.live \cap replay.touched => t \in doubt
        /\ t \notin replay.live => rows[t] = NoRow \/ t \in doubt

\* A push that the printer took is the last one it took, unless the row was written over.
Took == replay.took /\ Same(replay.at) => taken[replay.at] = replay.rows[replay.at].spool

\* The replay's pass.
Passes ==
    /\ replay.step = "idle" => \A t \in Trays : replay.rows[t] = NoRow
    /\ replay.step \in {"idle", "pick"} => ~replay.took /\ replay.at = NoRow
    /\ replay.step \in {"send", "ok", "failed"} => replay.at \in Trays /\ replay.rows[replay.at] # NoRow
    /\ \A t \in replay.todo : replay.rows[t] # NoRow
    /\ replay.at \notin replay.todo
    /\ \A t \in replay.live : rows[t] # NoRow
    /\ \A t \in Trays : replay.rows[t] # NoRow => replay.types[t] \in Types

\* The poller's cycle.
Cycles ==
    /\ poll.step \in {"create", "select", "insert"} => poll.at \in Trays
    /\ poll.step \in {"select", "insert"} => poll.spool \in Spools
    /\ poll.step # "idle" => poll.report \in [Trays -> Tray]
    /\ \A t \in poll.live : rows[t] # NoRow
    /\ poll.step = "rows" => \A t \in poll.todo : poll.rows[t] # NoRow
    /\ poll.step = "create" => tag = {} \/ catalogued

TagNamesOne == catalogued \/ tag = {} \/ \E s \in Spools : tag = {s}

Inv == TypeOK /\ Batch /\ Took /\ Passes /\ Cycles /\ TagNamesOne /\ AppliedIsTaken

-----------------------------------------------------------------------------
LEMMA Begins == Init => Inv
<1> SUFFICES ASSUME Init PROVE Inv
    OBVIOUS
<1>1. budget \in Budgets
    BY ConstantsAssumption DEF Init
<1>2. /\ spools \in [Spools -> Types \cup {Unused, Gone}] /\ tag \subseteq Spools
      /\ tray \in [Trays -> Tray] /\ tag = budget.tag
    BY <1>1 DEF Init, Budgets
<1>3. \A t \in Trays : rows[t] = NoRow
    BY DEF Init
<1>4. /\ poll \in Polling /\ poll.step = "idle" /\ poll.live = {}
      /\ replay \in Replaying /\ replay.step = "idle" /\ replay.live = {} /\ replay.todo = {}
      /\ ~replay.took /\ replay.at = NoRow /\ \A t \in Trays : replay.rows[t] = NoRow
    BY DEF Init, NotReplaying, NoReport, Polling, Replaying
<1>5. TypeOK
    <2>1. rows \in [Trays -> Row \cup {NoRow}] /\ Referenced
        BY <1>3 DEF Init, Referenced
    <2>2. taken \in [Trays -> Spools \cup {NoSpool}] /\ pushes \in [Trays -> 0..2]
        BY DEF Init
    <2> QED
        BY <1>1, <1>2, <1>4, <2>1, <2>2 DEF Init, TypeOK
<1>6. Batch /\ Took /\ Passes /\ Cycles /\ AppliedIsTaken
    BY <1>3, <1>4 DEF Batch, Took, Passes, Cycles, AppliedIsTaken
<1>7. TagNamesOne
    BY <1>2, ConstantsAssumption DEF Init, TagNamesOne
<1> QED
    BY <1>5, <1>6, <1>7 DEF Inv

-----------------------------------------------------------------------------
(* Writes of rows.                                                         *)

LEMMA Spent ==
    ASSUME TypeOK, NEW kind \in {"loads", "requests", "edits", "faults"}, Spend(kind)
    PROVE  budget' \in Budgets
BY DEF TypeOK, Spend, Budgets

\* An assignment written while the replay holds the row before puts its tray in doubt.
LEMMA Assigned ==
    ASSUME Inv, NEW t \in Trays, NEW s \in Spools, NEW pending \in BOOLEAN, Exists(s),
           Upsert(t, s, pending), spools' = spools
    PROVE  /\ rows' \in [Trays -> Row \cup {NoRow}]
           /\ Referenced'
           /\ \A u \in Trays : rows[u] # NoRow => rows'[u] # NoRow
           /\ replay' \in Replaying /\ pushes' \in [Trays -> 0..2] /\ doubt' \subseteq Trays
           /\ Batch' /\ Took' /\ Passes' /\ AppliedIsTaken'
<1> DEFINE row == Upserted(t, s, pending)
<1>1. rows \in [Trays -> Row \cup {NoRow}] /\ replay \in Replaying /\ doubt \subseteq Trays
    BY DEF Inv, TypeOK
<1>2. /\ row \in Row /\ row.spool = s
      /\ row.result = IF rows[t] = NoRow THEN "none" ELSE rows[t].result
    BY <1>1 DEF Upserted, NewRow, Row
<1>3. row # NoRow
    BY <1>2, ConstantsAssumption
<1>4. rows' = [rows EXCEPT ![t] = row] /\ taken' = taken
    BY DEF Upsert
<1> HIDE DEF row
<1>5. rows' \in [Trays -> Row \cup {NoRow}] /\ rows'[t] = row /\ \A u \in Trays \ {t} : rows'[u] = rows[u]
    BY <1>1, <1>2, <1>4
<1>6. /\ replay' \in Replaying /\ replay'.step = replay.step /\ replay'.rows = replay.rows /\ replay'.types = replay.types
      /\ replay'.live = replay.live /\ replay'.at = replay.at /\ replay'.todo = replay.todo
      /\ replay'.took = replay.took /\ replay'.touched \in {replay.touched, replay.touched \cup {t}}
      /\ replay.step # "idle" => replay'.touched = replay.touched \cup {t}
    <2>1. CASE replay.step = "idle"
        BY <1>1, <2>1 DEF Upsert, Touch
    <2>2. CASE replay.step # "idle"
        <3>1. replay' = [replay EXCEPT !.touched = @ \cup {t}]
            BY <2>2 DEF Upsert, Touch
        <3> QED
            BY <1>1, <3>1 DEF Replaying
    <2> QED
        BY <2>1, <2>2
<1>7. /\ doubt' \in {doubt \cup {t}, doubt \ {t}}
      /\ replay.rows[t] # NoRow => t \in doubt'
      /\ rows[t] # NoRow /\ rows[t].result = "ok" => t \in doubt'
    BY DEF Upsert
<1>8. Batch'
    <2>1. replay.rows[t] # NoRow => replay.step # "idle"
        BY DEF Inv, Passes
    <2> QED
        BY <1>1, <1>3, <1>5, <1>6, <1>7, <2>1 DEF Inv, Batch
<1>9. Took'
    <2>1. replay.took => replay.step # "idle"
        BY DEF Inv, Passes
    <2> QED
        BY <1>4, <1>6, <2>1 DEF Inv, Took, Same
<1>10. Passes'
    BY <1>3, <1>5, <1>6 DEF Inv, Passes, TypeOK, Replaying
<1>11. AppliedIsTaken'
    BY <1>2, <1>4, <1>5, <1>7 DEF Inv, AppliedIsTaken, Badge
<1>12. Referenced'
    BY <1>2, <1>4, <1>5 DEF Inv, TypeOK, Exists, Referenced
<1>13. pushes' \in [Trays -> 0..2]
    BY DEF Upsert, Inv, TypeOK
<1> QED
    BY <1>1, <1>3, <1>5, <1>6, <1>7, <1>8, <1>9, <1>10, <1>11, <1>12, <1>13

\* What was read of a deleted row is not recorded on another.
LEMMA Deleted ==
    ASSUME Inv, NEW T \in SUBSET Trays, NEW next \in Polling, Delete(T, next), UNCHANGED <<taken, doubt>>
    PROVE  /\ rows' \in [Trays -> Row \cup {NoRow}]
           /\ \A u \in Trays : rows'[u] = IF u \in T THEN NoRow ELSE rows[u]
           /\ poll' \in Polling /\ poll'.live = next.live \ T
           /\ poll'.step = next.step /\ poll'.at = next.at /\ poll'.spool = next.spool
           /\ poll'.report = next.report /\ poll'.todo = next.todo /\ poll'.rows = next.rows
           /\ replay' \in Replaying
           /\ Batch' /\ Took' /\ Passes' /\ AppliedIsTaken'
<1>1. rows \in [Trays -> Row \cup {NoRow}] /\ replay \in Replaying
    BY DEF Inv, TypeOK
<1>2. rows' \in [Trays -> Row \cup {NoRow}] /\ \A u \in Trays : rows'[u] = IF u \in T THEN NoRow ELSE rows[u]
    BY <1>1 DEF Delete
<1>3. /\ poll' \in Polling /\ poll'.live = next.live \ T
      /\ poll'.step = next.step /\ poll'.at = next.at /\ poll'.spool = next.spool
      /\ poll'.report = next.report /\ poll'.todo = next.todo /\ poll'.rows = next.rows
    BY DEF Delete, Polling
<1>4. /\ replay' \in Replaying /\ replay'.live = replay.live \ T
      /\ replay'.step = replay.step /\ replay'.rows = replay.rows /\ replay'.types = replay.types /\ replay'.at = replay.at
      /\ replay'.todo = replay.todo /\ replay'.took = replay.took /\ replay'.touched = replay.touched
    BY <1>1 DEF Delete, Replaying
<1>5. Batch'
    BY <1>2, <1>4 DEF Inv, Batch
<1>6. Took'
    BY <1>4 DEF Inv, Took, Same
<1>7. Passes'
    BY <1>1, <1>2, <1>4 DEF Inv, Passes, Replaying
<1>8. AppliedIsTaken'
    BY <1>2 DEF Inv, AppliedIsTaken
<1> QED
    BY <1>2, <1>3, <1>4, <1>5, <1>6, <1>7, <1>8

\* Steps that leave rows, the replay and what was pushed alone.
LEMMA Aside ==
    ASSUME Inv, TypeOK', Cycles', TagNamesOne', UNCHANGED <<rows, replay, taken, doubt>>
    PROVE  Inv'
<1>1. Batch' /\ Took' /\ Passes' /\ AppliedIsTaken'
    BY DEF Inv, Batch, Took, Same, Passes, AppliedIsTaken
<1> QED
    BY <1>1 DEF Inv

-----------------------------------------------------------------------------
(* People.                                                                 *)

LEMMA Handled == ASSUME Inv, NEW t \in Trays, Handle(t) PROVE Inv'
<1>1. UNCHANGED <<spools, tag, catalogued, rows, bambu, request, poll, replay, taken, doubt, pushes, unlinked>>
    BY DEF Handle, inventory, history
<1>2. budget' \in Budgets
    BY Spent DEF Handle, Inv
<1>3. tray' \in [Trays -> Tray]
    <2>1. tray \in [Trays -> Tray] /\ tray[t] \in Tray
        BY DEF Inv, TypeOK
    <2>2. ASSUME NEW type \in Types \cup {"untyped"}, NEW tagged \in BOOLEAN,
                 tray' = [tray EXCEPT ![t] = [@ EXCEPT !.type = type, !.tagged = tagged, !.load = tray[t].load + 1]]
          PROVE  tray' \in [Trays -> Tray]
        <3> DEFINE new == [tray[t] EXCEPT !.type = type, !.tagged = tagged, !.load = tray[t].load + 1]
        <3>1. tray[t].load + 1 \in Nat
            BY <2>1 DEF Tray
        <3>2. new \in Tray
            BY <2>1, <3>1 DEF Tray
        <3>3. tray' = [tray EXCEPT ![t] = new]
            BY <2>2
        <3> HIDE DEF new
        <3> QED
            BY <2>1, <3>2, <3>3
    <2>3. CASE tray' = [tray EXCEPT ![t] = [@ EXCEPT !.type = "empty", !.tagged = FALSE]]
        <3>1. [tray[t] EXCEPT !.type = "empty", !.tagged = FALSE] \in Tray
            BY <2>1 DEF Tray
        <3> QED
            BY <2>1, <2>3, <3>1
    <2>4. CASE tray' = [tray EXCEPT ![t].present = ~@]
        <3>1. [tray[t] EXCEPT !.present = ~@] \in Tray
            BY <2>1 DEF Tray
        <3>2. tray' = [tray EXCEPT ![t] = [tray[t] EXCEPT !.present = ~@]]
            BY <2>1, <2>4
        <3> QED
            BY <2>1, <3>1, <3>2
    <2> QED
        BY <2>2, <2>3, <2>4 DEF Handle
<1>4. TypeOK'
    BY <1>1, <1>2, <1>3 DEF Inv, TypeOK, Exists, Referenced
<1>5. Cycles' /\ TagNamesOne'
    BY <1>1 DEF Inv, Cycles, TagNamesOne
<1> QED
    BY <1>1, <1>4, <1>5, Aside

LEMMA Started ==
    ASSUME Inv, NEW t \in Trays, NEW s \in Spools, NEW pending \in BOOLEAN, StartAssign(t, s, pending)
    PROVE  Inv'
<1>1. UNCHANGED <<spools, tag, catalogued, tray, rows, bambu, poll, replay, taken, doubt, pushes, unlinked>>
    BY DEF StartAssign, requestVars, inventory, history
<1>2. budget' \in Budgets /\ request' \in Assigning
    BY Spent DEF StartAssign, Exists, Assigning, Inv
<1>3. TypeOK'
    BY <1>1, <1>2 DEF Inv, TypeOK, Exists, Referenced
<1>4. Cycles' /\ TagNamesOne'
    BY <1>1 DEF Inv, Cycles, TagNamesOne
<1> QED
    BY <1>1, <1>3, <1>4, Aside

LEMMA Written == Inv /\ WriteAssign => Inv'
<1> SUFFICES ASSUME Inv, WriteAssign PROVE Inv'
    OBVIOUS
<1>1. UNCHANGED <<spools, tag, catalogued, tray, bambu, poll, unlinked, budget>>
    BY DEF WriteAssign, requestVars, inventory
<1>2. request \in Assigning
    BY DEF WriteAssign, Inv, TypeOK, Idle
<1>3. request' \in Assigning \cup {Idle}
    BY <1>2 DEF WriteAssign, Assigning
<1>4. (Cycles' /\ TagNamesOne') \/ Exists(request.spool)
    BY <1>1 DEF WriteAssign, Inv, Cycles, TagNamesOne
<1>5. CASE Exists(request.spool)
    <2>1. /\ request.tray \in Trays /\ request.spool \in Spools /\ request.pending \in BOOLEAN
          /\ Upsert(request.tray, request.spool, request.pending)
        BY <1>2, <1>5 DEF WriteAssign, Assigning
    <2>2. /\ rows' \in [Trays -> Row \cup {NoRow}]
          /\ Referenced'
          /\ \A u \in Trays : rows[u] # NoRow => rows'[u] # NoRow
          /\ replay' \in Replaying /\ pushes' \in [Trays -> 0..2] /\ doubt' \subseteq Trays
          /\ Batch' /\ Took' /\ Passes' /\ AppliedIsTaken'
        BY <1>1, <1>5, <2>1, Assigned
    <2>3. taken' = taken
        BY <2>1 DEF Upsert
    <2>4. TypeOK'
        BY <1>1, <1>3, <2>2, <2>3 DEF Inv, TypeOK
    <2>5. Cycles' /\ TagNamesOne'
        BY <1>1, <2>2 DEF Inv, Cycles, TagNamesOne, TypeOK, Polling
    <2> QED
        BY <2>2, <2>4, <2>5 DEF Inv
<1>6. CASE ~Exists(request.spool)
    <2>1. UNCHANGED <<rows, replay, taken, doubt, pushes>>
        BY <1>6 DEF WriteAssign, history
    <2>2. TypeOK'
        BY <1>1, <1>3, <2>1 DEF Inv, TypeOK, Exists, Referenced
    <2> QED
        BY <1>4, <1>6, <2>1, <2>2, Aside
<1> QED
    BY <1>5, <1>6

\* What the printer is told of a tray is what the row says, or puts the tray in doubt.
LEMMA Answers == ASSUME Inv, NEW sent \in BOOLEAN, PushAssign(sent) PROVE Inv'
<1> DEFINE t == request.tray
<1>1. UNCHANGED <<spools, tag, catalogued, rows, bambu, poll, unlinked, pushes>>
    BY DEF PushAssign, requestVars, inventory
<1>2. request \in Assigning /\ t \in Trays /\ request.spool \in Spools /\ request.type \in Types
    BY DEF PushAssign, Inv, TypeOK, Idle, Assigning
<1>3. request' = Idle /\ budget' \in Budgets
    BY Spent DEF PushAssign, Inv, TypeOK
<1>4. /\ tray' \in [Trays -> Tray] /\ taken' \in [Trays -> Spools \cup {NoSpool}]
      /\ taken' \in {taken, [taken EXCEPT ![t] = request.spool]}
    <2>1. tray \in [Trays -> Tray] /\ taken \in [Trays -> Spools \cup {NoSpool}] /\ tray[t] \in Tray
        BY <1>2 DEF Inv, TypeOK
    <2>2. [tray[t] EXCEPT !.type = request.type] \in Tray
        BY <1>2, <2>1 DEF Tray
    <2>3. \/ UNCHANGED <<tray, taken>>
          \/ /\ tray' = [tray EXCEPT ![t] = [tray[t] EXCEPT !.type = request.type]]
             /\ taken' = [taken EXCEPT ![t] = request.spool]
        BY <2>1 DEF PushAssign, Push
    <2> QED
        BY <1>2, <2>1, <2>2, <2>3
<1>5. /\ replay' \in Replaying /\ replay'.step = replay.step /\ replay'.rows = replay.rows /\ replay'.types = replay.types
      /\ replay'.live = replay.live /\ replay'.at = replay.at /\ replay'.todo = replay.todo
      /\ replay'.took = replay.took
      /\ \/ replay'.touched = replay.touched /\ doubt' = doubt
            /\ (rows[t] = NoRow \/ rows[t].spool = request.spool)
         \/ /\ replay'.touched \in {replay.touched, replay.touched \cup {t}} /\ doubt' = doubt \cup {t}
            /\ replay.step # "idle" => replay'.touched = replay.touched \cup {t}
    <2>1. replay \in Replaying
        BY DEF Inv, TypeOK
    <2>2. CASE rows[t] # NoRow /\ rows[t].spool # request.spool /\ replay.step # "idle"
        <3>1. replay' = [replay EXCEPT !.touched = @ \cup {t}] /\ doubt' = doubt \cup {t}
            BY <2>2 DEF PushAssign, Touch
        <3> QED
            BY <1>2, <2>1, <3>1 DEF Replaying
    <2>3. CASE ~(rows[t] # NoRow /\ rows[t].spool # request.spool /\ replay.step # "idle")
        BY <2>1, <2>3 DEF PushAssign, Touch
    <2> QED
        BY <2>2, <2>3
<1> HIDE DEF t
<1>6. TypeOK'
    BY <1>1, <1>2, <1>3, <1>4, <1>5 DEF Inv, TypeOK, Exists, Referenced
<1>7. Batch' /\ Passes'
    BY <1>1, <1>5 DEF Inv, Batch, Passes
<1>8. Took'
    <2> SUFFICES ASSUME replay'.took, Same(replay.at)' PROVE (taken[replay.at] = replay.rows[replay.at].spool)'
        BY DEF Took
    <2>1. replay.step # "idle" /\ replay.at \in Trays /\ replay.rows[replay.at] # NoRow
        BY <1>5 DEF Inv, Passes, TypeOK, Replaying
    <2>2. Same(replay.at) /\ taken[replay.at] = replay.rows[replay.at].spool
        BY <1>5 DEF Same, Inv, Took
    <2>3. rows[replay.at] # NoRow /\ rows[replay.at].spool = replay.rows[replay.at].spool
        BY <2>1, <2>2 DEF Same, Inv, Batch
    <2>4. replay.at = t => taken' = taken \/ rows[t].spool = request.spool
        BY <1>4, <1>5, <2>1, <2>3 DEF Same
    <2> QED
        BY <1>2, <1>4, <1>5, <2>1, <2>2, <2>3, <2>4 DEF Inv, TypeOK
<1>9. AppliedIsTaken'
    BY <1>1, <1>2, <1>4, <1>5 DEF Inv, AppliedIsTaken, TypeOK
<1>10. Cycles' /\ TagNamesOne'
    BY <1>1 DEF Inv, Cycles, TagNamesOne
<1> QED
    BY <1>6, <1>7, <1>8, <1>9, <1>10 DEF Inv

LEMMA Unassigned == ASSUME Inv, NEW t \in Trays, Unassign(t) PROVE Inv'
<1>1. UNCHANGED <<spools, tag, catalogued, tray, bambu, request, taken, doubt, pushes, unlinked>>
    BY DEF Unassign, inventory, history
<1>2. poll \in Polling /\ Delete({t}, poll) /\ budget' \in Budgets
    BY Spent DEF Unassign, Inv, TypeOK
<1>3. /\ rows' \in [Trays -> Row \cup {NoRow}]
      /\ \A u \in Trays : rows'[u] = IF u \in {t} THEN NoRow ELSE rows[u]
      /\ poll' \in Polling /\ poll'.live = poll.live \ {t}
      /\ poll'.step = poll.step /\ poll'.at = poll.at /\ poll'.spool = poll.spool
      /\ poll'.report = poll.report /\ poll'.todo = poll.todo /\ poll'.rows = poll.rows
      /\ replay' \in Replaying
      /\ Batch' /\ Took' /\ Passes' /\ AppliedIsTaken'
    BY <1>1, <1>2, Deleted
<1>4. TypeOK'
    BY <1>1, <1>2, <1>3 DEF Inv, TypeOK, Exists, Referenced
<1>5. Cycles' /\ TagNamesOne'
    BY <1>1, <1>2, <1>3 DEF Inv, Cycles, TagNamesOne, Polling
<1> QED
    BY <1>3, <1>4, <1>5 DEF Inv

LEMMA SpoolDeleted == ASSUME Inv, NEW s \in Spools, DeleteSpool(s) PROVE Inv'
<1>1. /\ UNCHANGED <<tray, bambu, request, taken, doubt, pushes, unlinked, catalogued>>
      /\ spools' = [spools EXCEPT ![s] = Gone] /\ tag' = tag \ {s}
    BY DEF DeleteSpool, history
<1>2. /\ poll \in Polling /\ Delete(Cascaded(s), poll) /\ budget' \in Budgets
      /\ Cascaded(s) \in SUBSET Trays
    BY Spent DEF DeleteSpool, Cascaded, Inv, TypeOK
<1>3. /\ rows' \in [Trays -> Row \cup {NoRow}]
      /\ \A u \in Trays : rows'[u] = IF u \in Cascaded(s) THEN NoRow ELSE rows[u]
      /\ poll' \in Polling /\ poll'.live = poll.live \ Cascaded(s)
      /\ poll'.step = poll.step /\ poll'.at = poll.at /\ poll'.spool = poll.spool
      /\ poll'.report = poll.report /\ poll'.todo = poll.todo /\ poll'.rows = poll.rows
      /\ replay' \in Replaying
      /\ Batch' /\ Took' /\ Passes' /\ AppliedIsTaken'
    BY <1>1, <1>2, Deleted
<1>4. Referenced'
    BY <1>1, <1>3 DEF Cascaded, Inv, TypeOK, Exists, Row, Referenced
<1>5. TypeOK'
    BY <1>1, <1>2, <1>3, <1>4 DEF Inv, TypeOK
<1>6. Cycles'
    BY <1>1, <1>2, <1>3 DEF Inv, Cycles, Polling
<1>7. TagNamesOne'
    BY <1>1 DEF Inv, TagNamesOne
<1> QED
    BY <1>3, <1>5, <1>6, <1>7 DEF Inv

LEMMA Edited ==
    ASSUME Inv, \/ \E s \in Spools : LinkTag(s) \/ \E type \in Types : EditSpool(s, type)
                \/ EditProfile
    PROVE  Inv'
<1>1. UNCHANGED <<tray, rows, request, poll, replay, taken, doubt, pushes, unlinked>>
    BY DEF LinkTag, EditSpool, EditProfile, inventory, history
<1>2. budget' \in Budgets
    BY Spent DEF LinkTag, EditSpool, EditProfile, Inv
<1>3. CASE \E s \in Spools : LinkTag(s)
    <2>1. PICK s \in Spools : LinkTag(s)
        BY <1>3
    <2>2. /\ UNCHANGED <<spools, bambu>> /\ tag' \in {{s}, {}}
          /\ catalogued' = (catalogued \/ poll.step = "create")
        BY <2>1 DEF LinkTag, Retagged
    <2>3. TypeOK'
        BY <1>1, <1>2, <2>2 DEF Inv, TypeOK, Exists, Referenced
    <2>4. Cycles' /\ TagNamesOne'
        BY <1>1, <2>2 DEF Inv, Cycles, TagNamesOne
    <2> QED
        BY <1>1, <2>3, <2>4, Aside
<1>4. CASE EditProfile \/ \E s \in Spools, type \in Types : EditSpool(s, type)
    <2>1. UNCHANGED <<tag, catalogued>> /\ bambu' \in BOOLEAN
        BY <1>4 DEF EditProfile, EditSpool, inventory, Inv, TypeOK
    <2>2. /\ spools' \in [Spools -> Types \cup {Unused, Gone}]
          /\ \A s \in Spools : Exists(s) => Exists(s)'
        BY <1>4 DEF EditProfile, EditSpool, inventory, Exists, Inv, TypeOK
    <2>3. TypeOK'
        BY <1>1, <1>2, <2>1, <2>2 DEF Inv, TypeOK, Exists, Referenced, Row
    <2>4. Cycles' /\ TagNamesOne'
        BY <1>1, <2>1 DEF Inv, Cycles, TagNamesOne
    <2> QED
        BY <1>1, <2>3, <2>4, Aside
<1> QED
    BY <1>3, <1>4

-----------------------------------------------------------------------------
(* The poller.                                                             *)

LEMMA Looked ==
    ASSUME Inv, StartPoll \/ FindTag \/ Catalog \/ SelectRow \/ ListRows \/ EndPoll
    PROVE  Inv'
<1>1. UNCHANGED <<rows, replay, doubt, pushes, unlinked, tray, bambu, request, budget, taken, catalogued>>
    BY DEF StartPoll, FindTag, Catalog, SelectRow, ListRows, EndPoll, pollVars, inventory
<1>2. poll \in Polling /\ tray \in [Trays -> Tray] /\ rows \in [Trays -> Row \cup {NoRow}] /\ tag \subseteq Spools
    BY DEF Inv, TypeOK
<1>3. NextTag \in Polling /\ NextTag.step = "find" /\ NextTag.live = poll.live /\ NextTag.report = poll.report
    BY <1>2 DEF NextTag, Polling
<1>4. CASE ~Catalog
    <2>1. UNCHANGED <<spools, tag>>
        BY <1>4 DEF StartPoll, FindTag, SelectRow, ListRows, EndPoll, inventory
    <2>2. poll' \in Polling /\ Cycles'
        <3>1. CASE StartPoll
            <4>1. poll.step = "idle" /\ poll' = [poll EXCEPT !.step = "find", !.report = tray,
                                                   !.todo = {t \in Trays : tray[t].present /\ tray[t].tagged}]
                BY <3>1 DEF StartPoll
            <4>2. /\ poll' \in Polling /\ poll'.step = "find" /\ poll'.report = tray /\ poll'.live = poll.live
                BY <1>2, <4>1 DEF Polling
            <4> QED
                BY <1>1, <1>2, <4>2 DEF Cycles, Inv
        <3>2. CASE FindTag
            <4>1. CASE poll.todo = {}
                <5>1. /\ poll' \in Polling /\ poll'.step = "list" /\ poll'.report = poll.report
                      /\ poll'.live = poll.live
                    BY <1>2, <3>2, <4>1 DEF FindTag, Polling
                <5> QED
                    BY <1>1, <3>2, <5>1 DEF FindTag, Cycles, Inv
            <4>2. CASE poll.todo # {}
                <5>1. PICK t \in poll.todo :
                          IF tag = {} THEN poll' = [poll EXCEPT !.step = "create", !.at = t]
                          ELSE \E s \in tag : poll' = [poll EXCEPT !.step = "select", !.at = t, !.spool = s]
                    BY <3>2, <4>2 DEF FindTag
                <5>2. t \in Trays /\ poll.step = "find"
                    BY <1>2, <3>2 DEF FindTag, Polling
                <5>3. CASE tag = {}
                    <6>1. /\ poll' \in Polling /\ poll'.step = "create" /\ poll'.at = t
                          /\ poll'.report = poll.report /\ poll'.live = poll.live
                        BY <1>2, <5>1, <5>2, <5>3 DEF Polling
                    <6> QED
                        BY <1>1, <2>1, <5>2, <5>3, <6>1 DEF Cycles, Inv
                <5>4. CASE tag # {}
                    <6>1. PICK s \in tag : poll' = [poll EXCEPT !.step = "select", !.at = t, !.spool = s]
                        BY <5>1, <5>4
                    <6>2. /\ poll' \in Polling /\ poll'.step = "select" /\ poll'.at = t /\ poll'.spool = s
                          /\ poll'.report = poll.report /\ poll'.live = poll.live
                        BY <1>2, <5>2, <6>1 DEF Polling
                    <6> QED
                        BY <1>1, <1>2, <5>2, <6>1, <6>2 DEF Cycles, Inv
                <5> QED
                    BY <5>3, <5>4
            <4> QED
                BY <4>1, <4>2
        <3>3. CASE SelectRow
            <4>1. \/ poll' = NextTag
                  \/ poll' = [poll EXCEPT !.step = "insert"]
                BY <3>3 DEF SelectRow
            <4>2. CASE poll' = NextTag
                BY <1>1, <1>3, <3>3, <4>2 DEF SelectRow, Cycles, Inv
            <4>3. CASE poll' = [poll EXCEPT !.step = "insert"]
                <5>1. /\ poll' \in Polling /\ poll'.step = "insert" /\ poll'.at = poll.at /\ poll'.spool = poll.spool
                      /\ poll'.report = poll.report /\ poll'.live = poll.live
                    BY <1>2, <4>3 DEF Polling
                <5> QED
                    BY <1>1, <3>3, <5>1 DEF SelectRow, Cycles, Inv
            <4> QED
                BY <4>1, <4>2, <4>3
        <3>4. CASE ListRows
            <4>1. /\ poll.step = "list"
                  /\ poll' = [poll EXCEPT !.step = "rows", !.rows = rows,
                                !.live = {t \in Trays : rows[t] # NoRow}, !.todo = {t \in Trays : rows[t] # NoRow}]
                BY <3>4 DEF ListRows
            <4>2. /\ poll' \in Polling /\ poll'.step = "rows" /\ poll'.rows = rows
                  /\ poll'.live = {t \in Trays : rows[t] # NoRow} /\ poll'.todo = {t \in Trays : rows[t] # NoRow}
                  /\ poll'.report = poll.report
                BY <1>2, <4>1 DEF Polling
            <4> QED
                BY <1>1, <4>1, <4>2 DEF Cycles, Inv
        <3>5. CASE EndPoll
            <4>1. poll' = [poll EXCEPT !.step = "idle", !.report = NoReport]
                BY <3>5 DEF EndPoll
            <4>2. poll' \in Polling /\ poll'.step = "idle" /\ poll'.live = poll.live
                BY <1>2, <4>1 DEF Polling, NoReport
            <4> QED
                BY <1>1, <4>2 DEF Cycles, Inv
        <3> QED
            BY <1>4, <3>1, <3>2, <3>3, <3>4, <3>5
    <2>3. TypeOK'
        BY <1>1, <2>1, <2>2 DEF Inv, TypeOK, Exists, Referenced
    <2>4. TagNamesOne'
        BY <1>1, <2>1 DEF Inv, TagNamesOne
    <2> QED
        BY <1>1, <2>2, <2>3, <2>4, Aside
<1>5. CASE Catalog
    <2>1. /\ spools' \in [Spools -> Types \cup {Unused, Gone}]
          /\ \A s \in Spools : Exists(s) => Exists(s)'
          /\ tag' = tag \/ \E s \in Spools : tag' = tag \cup {s}
        BY <1>5 DEF Catalog, Exists, Inv, TypeOK
    <2>2. poll' = NextTag /\ poll.step = "create"
        BY <1>5 DEF Catalog
    <2>3. TypeOK'
        BY <1>1, <1>2, <1>3, <2>1, <2>2 DEF Inv, TypeOK, Exists, Referenced, Row
    <2>4. Cycles'
        BY <1>1, <1>3, <2>2 DEF Inv, Cycles
    <2>5. TagNamesOne'
        BY <1>1, <2>1, <2>2 DEF Inv, Cycles, TagNamesOne
    <2> QED
        BY <1>1, <2>3, <2>4, <2>5, Aside
<1> QED
    BY <1>4, <1>5

LEMMA Inserted == Inv /\ InsertRow => Inv'
<1> SUFFICES ASSUME Inv, InsertRow PROVE Inv'
    OBVIOUS
<1>1. UNCHANGED <<spools, tag, catalogued, tray, bambu, request, budget, unlinked>>
    BY DEF InsertRow, inventory
<1>2. poll \in Polling /\ poll.at \in Trays /\ poll.spool \in Spools /\ poll.step = "insert"
    BY DEF InsertRow, Inv, TypeOK, Cycles
<1>3. /\ NextTag \in Polling /\ NextTag.step = "find" /\ NextTag.live = poll.live
      /\ NextTag.report = poll.report
    BY <1>2 DEF NextTag, Polling
<1>4. CASE Exists(poll.spool)
    <2>1. Upsert(poll.at, poll.spool, TRUE) /\ poll' = NextTag /\ TRUE \in BOOLEAN
        BY <1>4 DEF InsertRow
    <2>2. /\ rows' \in [Trays -> Row \cup {NoRow}]
          /\ Referenced'
          /\ \A u \in Trays : rows[u] # NoRow => rows'[u] # NoRow
          /\ replay' \in Replaying /\ pushes' \in [Trays -> 0..2] /\ doubt' \subseteq Trays
          /\ Batch' /\ Took' /\ Passes' /\ AppliedIsTaken'
        BY <1>1, <1>2, <1>4, <2>1, Assigned
    <2>3. taken' = taken
        BY <2>1 DEF Upsert
    <2>4. TypeOK'
        BY <1>1, <1>3, <2>1, <2>2, <2>3 DEF Inv, TypeOK
    <2>5. Cycles'
        BY <1>2, <1>3, <2>1, <2>2 DEF Inv, Cycles, Polling
    <2>6. TagNamesOne'
        BY <1>1 DEF Inv, TagNamesOne
    <2> QED
        BY <2>2, <2>4, <2>5, <2>6 DEF Inv
<1>5. CASE ~Exists(poll.spool)
    <2>1. UNCHANGED <<rows, replay, taken, doubt, pushes>> /\ poll' = [NextTag EXCEPT !.step = "list"]
        BY <1>5 DEF InsertRow, history
    <2>2. poll' \in Polling /\ poll'.step = "list" /\ poll'.live = poll.live /\ poll'.report = poll.report
        BY <1>3, <2>1 DEF Polling
    <2>3. TypeOK'
        BY <1>1, <2>1, <2>2 DEF Inv, TypeOK, Exists, Referenced
    <2>4. Cycles' /\ TagNamesOne'
        BY <1>1, <1>2, <2>1, <2>2 DEF Inv, Cycles, TagNamesOne
    <2> QED
        BY <2>1, <2>3, <2>4, Aside
<1> QED
    BY <1>4, <1>5

LEMMA Checked == ASSUME Inv, NEW t \in Trays, CheckRow(t) PROVE Inv'
<1> DEFINE row == poll.rows[t]
           x == poll.report[t]
           live == t \in poll.live
           next == [poll EXCEPT !.todo = @ \ {t}, !.rows[t] = NoRow, !.live = @ \ {t}]
<1>1. UNCHANGED <<spools, tag, catalogued, tray, bambu, request, budget, taken, doubt, pushes>>
    BY DEF CheckRow, pollVars, inventory
<1>2. poll \in Polling /\ poll.step = "rows" /\ x \in Tray /\ rows \in [Trays -> Row \cup {NoRow}]
    BY DEF CheckRow, Inv, TypeOK, Cycles
<1>3. /\ next \in Polling /\ next.step = "rows" /\ next.report = poll.report /\ next.live = poll.live \ {t}
      /\ next.todo = poll.todo \ {t} /\ next.rows = [poll.rows EXCEPT ![t] = NoRow]
    BY <1>2 DEF Polling
<1>4. \A u \in next.todo : next.rows[u] # NoRow
    BY <1>2, <1>3 DEF Inv, Cycles, Polling
<1>5. TagNamesOne'
    BY <1>1 DEF Inv, TagNamesOne
<1>6. CASE Stale(row, x) /\ live
    <2>1. Delete({t}, next) /\ unlinked' \subseteq Trays
        BY <1>6 DEF CheckRow, Inv, TypeOK
    <2> HIDE DEF next
    <2>2. /\ rows' \in [Trays -> Row \cup {NoRow}]
          /\ \A u \in Trays : rows'[u] = IF u \in {t} THEN NoRow ELSE rows[u]
          /\ poll' \in Polling /\ poll'.live = next.live \ {t}
          /\ poll'.step = next.step /\ poll'.at = next.at /\ poll'.spool = next.spool
          /\ poll'.report = next.report /\ poll'.todo = next.todo /\ poll'.rows = next.rows
          /\ replay' \in Replaying
          /\ Batch' /\ Took' /\ Passes' /\ AppliedIsTaken'
        BY <1>1, <1>3, <2>1, Deleted
    <2>3. TypeOK'
        BY <1>1, <2>1, <2>2 DEF Inv, TypeOK, Exists, Referenced
    <2>4. Cycles'
        BY <1>2, <1>3, <1>4, <2>2 DEF Inv, Cycles, Polling
    <2> QED
        BY <1>5, <2>2, <2>3, <2>4 DEF Inv
<1>7. CASE ~(Stale(row, x) /\ live)
    <2>1. poll' = next /\ UNCHANGED <<replay, unlinked>>
        BY <1>7 DEF CheckRow
    <2>2. \/ rows' = rows
          \/ rows[t] # NoRow /\ rows' = [rows EXCEPT ![t].seen = TypeOf(x), ![t].load = x.load, ![t].due = TRUE]
        BY <1>7 DEF CheckRow, Inv, Cycles
    <2>3. /\ rows' \in [Trays -> Row \cup {NoRow}]
          /\ \A u \in Trays : (rows'[u] = NoRow) = (rows[u] = NoRow)
          /\ \A u \in Trays : rows[u] # NoRow =>
                rows'[u].spool = rows[u].spool /\ rows'[u].pending = rows[u].pending /\ rows'[u].result = rows[u].result
        <3>1. CASE rows' = rows
            BY <1>2, <3>1
        <3>2. CASE /\ rows[t] # NoRow
                   /\ rows' = [rows EXCEPT ![t].seen = TypeOf(x), ![t].load = x.load, ![t].due = TRUE]
            <4> DEFINE new == [rows[t] EXCEPT !.seen = TypeOf(x), !.load = x.load, !.due = TRUE]
            <4>1. rows[t] \in Row /\ TypeOf(x) \in Types \cup {"none"} /\ x.load \in Nat
                BY <1>2, <3>2 DEF TypeOf, Tray
            <4>2. /\ new \in Row /\ new.spool = rows[t].spool /\ new.pending = rows[t].pending
                  /\ new.result = rows[t].result
                BY <4>1 DEF Row
            <4>3. rows' = [rows EXCEPT ![t] = new]
                BY <1>2, <3>2
            <4> HIDE DEF new
            <4>4. new # NoRow
                BY <4>2, ConstantsAssumption
            <4>5. \A u \in Trays : rows'[u] = IF u = t THEN new ELSE rows[u]
                BY <1>2, <4>3
            <4>6. rows' \in [Trays -> Row \cup {NoRow}]
                BY <1>2, <4>2, <4>3
            <4> QED
                BY <3>2, <4>2, <4>4, <4>5, <4>6
        <3> QED
            BY <2>2, <3>1, <3>2
    <2> HIDE DEF next
    <2>4. Referenced'
        BY <1>1, <2>3 DEF Inv, TypeOK, Exists, Referenced
    <2>5. TypeOK'
        BY <1>1, <1>3, <2>1, <2>3, <2>4 DEF Inv, TypeOK
    <2>6. Cycles'
        BY <1>2, <1>3, <1>4, <2>1, <2>3 DEF Inv, Cycles, Polling
    <2>7. Batch' /\ Took' /\ Passes'
        BY <1>1, <2>1, <2>3 DEF Inv, Batch, Took, Same, Passes, TypeOK, Replaying
    <2>8. AppliedIsTaken'
        BY <1>1, <2>3 DEF Inv, AppliedIsTaken, Badge
    <2> QED
        BY <1>5, <2>5, <2>6, <2>7, <2>8 DEF Inv
<1> QED
    BY <1>6, <1>7

LEMMA PollFailed == Inv /\ FailPoll => Inv'
<1> SUFFICES ASSUME Inv, FailPoll PROVE Inv'
    OBVIOUS
<1>1. UNCHANGED <<spools, tag, catalogued, rows, replay, taken, doubt, pushes, unlinked, tray, bambu, request>>
    BY DEF FailPoll, inventory, history
<1>2. poll \in Polling /\ budget' \in Budgets
    BY Spent DEF FailPoll, Inv, TypeOK
<1>3. /\ poll' \in Polling
      /\ \/ poll'.step = "idle" /\ poll'.live = {}
         \/ poll'.step = "list" /\ poll'.live = poll.live /\ poll'.report = poll.report
    <2>1. CASE poll.step \in {"list", "rows"}
        <3>1. poll' = [poll EXCEPT !.step = "idle", !.todo = {}, !.report = NoReport, !.rows = NoReport, !.live = {}]
            BY <2>1 DEF FailPoll
        <3>2. NoReport \in [Trays -> Row \cup {NoRow}] /\ NoReport \in [Trays -> Tray \cup {NoRow}]
            BY DEF NoReport
        <3> QED
            BY <1>2, <3>1, <3>2 DEF Polling
    <2>2. CASE poll.step \notin {"list", "rows"}
        <3>1. poll' = [poll EXCEPT !.step = "list", !.todo = {}, !.at = NoRow, !.spool = NoSpool]
            BY <2>2 DEF FailPoll
        <3> QED
            BY <1>2, <3>1 DEF Polling
    <2> QED
        BY <2>1, <2>2
<1>4. TypeOK'
    BY <1>1, <1>2, <1>3 DEF Inv, TypeOK, Exists, Referenced
<1>5. Cycles' /\ TagNamesOne'
    BY <1>1, <1>3 DEF FailPoll, Inv, Cycles, TagNamesOne
<1> QED
    BY <1>1, <1>4, <1>5, Aside

-----------------------------------------------------------------------------
(* The replay.                                                             *)

LEMMA Listed == Inv /\ ListDue => Inv'
<1> SUFFICES ASSUME Inv, ListDue PROVE Inv'
    OBVIOUS
<1> DEFINE due == {t \in Trays : rows[t] # NoRow /\ rows[t].due}
           read == [t \in Trays |-> IF t \in due THEN rows[t] ELSE NoRow]
           types == [t \in Trays |-> IF t \in due THEN spools[rows[t].spool] ELSE NoRow]
<1>1. UNCHANGED <<spools, tag, catalogued, tray, rows, bambu, request, poll, budget, taken, doubt, pushes, unlinked>>
    BY DEF ListDue, replayVars, inventory, history
<1>2. replay \in Replaying /\ rows \in [Trays -> Row \cup {NoRow}] /\ ~replay.took /\ replay.at = NoRow
    BY DEF ListDue, Inv, TypeOK, Passes
<1>3. replay' = [replay EXCEPT !.step = "pick", !.todo = due, !.live = due, !.touched = {}, !.rows = read,
                   !.types = types]
    BY DEF ListDue
<1>4. read \in [Trays -> Row \cup {NoRow}] /\ types \in [Trays -> Types \cup {NoRow}]
    BY <1>2 DEF Inv, TypeOK, Referenced, Exists
<1>5. \A t \in Trays : read[t] # NoRow => t \in due /\ read[t] = rows[t] /\ types[t] \in Types
    BY <1>2 DEF Inv, TypeOK, Referenced, Exists
<1>12. \A t \in due : read[t] = rows[t]
    OBVIOUS
<1>6. due \subseteq Trays /\ \A t \in due : rows[t] # NoRow
    OBVIOUS
<1> HIDE DEF due, read, types
<1>7. /\ replay' \in Replaying /\ replay'.step = "pick" /\ replay'.todo = due /\ replay'.live = due
      /\ replay'.touched = {} /\ replay'.rows = read /\ replay'.types = types /\ replay'.took = FALSE /\ replay'.at = replay.at
    BY <1>2, <1>3, <1>4, <1>6 DEF Replaying
<1>8. TypeOK'
    BY <1>1, <1>7 DEF Inv, TypeOK, Exists, Referenced
<1>9. Batch' /\ Took'
    BY <1>1, <1>5, <1>6, <1>7 DEF Batch, Took
<1>10. Passes'
    BY <1>1, <1>2, <1>5, <1>6, <1>7, <1>12, ConstantsAssumption DEF Passes, Inv
<1>11. Cycles' /\ TagNamesOne' /\ AppliedIsTaken'
    BY <1>1 DEF Inv, Cycles, TagNamesOne, AppliedIsTaken
<1> QED
    BY <1>8, <1>9, <1>10, <1>11 DEF Inv

LEMMA Picked == ASSUME Inv, NEW t \in Trays, NEW found \in BOOLEAN, PickDue(t, found) PROVE Inv'
<1>1. UNCHANGED <<spools, tag, catalogued, tray, rows, bambu, request, poll, taken, doubt, pushes, unlinked>>
    BY DEF PickDue, replayVars, inventory, history
<1>2. replay \in Replaying /\ t \in replay.todo /\ replay.rows[t] # NoRow /\ budget' \in Budgets
    BY Spent DEF PickDue, Inv, TypeOK, Passes
<1>3. /\ replay' \in Replaying /\ replay'.step \in {"send", "failed"} /\ replay'.todo = replay.todo \ {t}
      /\ replay'.at = t /\ replay'.took = FALSE /\ replay'.rows = replay.rows /\ replay'.types = replay.types /\ replay'.live = replay.live
      /\ replay'.touched = replay.touched
    BY <1>2 DEF PickDue, Replaying
<1>4. TypeOK'
    BY <1>1, <1>2, <1>3 DEF Inv, TypeOK, Exists, Referenced
<1>5. Batch' /\ Took' /\ Passes'
    BY <1>1, <1>2, <1>3 DEF Inv, Batch, Took, Passes
<1>6. Cycles' /\ TagNamesOne' /\ AppliedIsTaken'
    BY <1>1 DEF Inv, Cycles, TagNamesOne, AppliedIsTaken
<1> QED
    BY <1>4, <1>5, <1>6 DEF Inv

LEMMA Sends == ASSUME Inv, NEW sent \in BOOLEAN, SendDue(sent) PROVE Inv'
<1> DEFINE t == replay.at
           s == replay.rows[t].spool
           took == sent /\ tray[t].present /\ Loaded(tray[t])
<1>1. UNCHANGED <<spools, tag, catalogued, rows, bambu, request, poll, doubt, unlinked>>
    BY DEF SendDue, replayVars, inventory
<1>2. /\ replay \in Replaying /\ t \in Trays /\ replay.rows[t] # NoRow /\ replay.step = "send"
      /\ budget' \in Budgets
    BY Spent DEF SendDue, Inv, TypeOK, Passes
<1>3. replay.rows[t] \in Row /\ s \in Spools
    BY <1>2 DEF Replaying, Row
<1>4. took \in BOOLEAN /\ replay' = [replay EXCEPT !.step = IF sent THEN "ok" ELSE "failed", !.took = took]
    BY <1>2 DEF SendDue, Inv, TypeOK, Tray, Loaded
<1>5. taken' = IF took THEN [taken EXCEPT ![t] = s] ELSE taken
    BY DEF SendDue, Push
<1>6. tray' \in [Trays -> Tray]
    <2>1. tray \in [Trays -> Tray] /\ tray[t] \in Tray
        BY <1>2 DEF Inv, TypeOK
    <2>2. tray' = tray \/ tray' = [tray EXCEPT ![t] = [tray[t] EXCEPT !.type = replay.types[t]]]
        BY <2>1 DEF SendDue, Push
    <2>3. [tray[t] EXCEPT !.type = replay.types[t]] \in Tray
        BY <1>2, <2>1 DEF Tray, Inv, Passes
    <2> QED
        BY <1>2, <2>1, <2>2, <2>3
<1>7. pushes' \in [Trays -> 0..2]
    <2>1. pushes \in [Trays -> 0..2] /\ pushes[t] \in 0..2
        BY <1>2 DEF Inv, TypeOK
    <2>2. pushes' = pushes \/ (pushes[t] < 2 /\ pushes' = [pushes EXCEPT ![t] = pushes[t] + 1])
        BY DEF SendDue
    <2> QED
        BY <1>2, <2>1, <2>2
<1> HIDE DEF took
<1>8. /\ replay' \in Replaying /\ replay'.step \in {"ok", "failed"} /\ replay'.todo = replay.todo
      /\ replay'.at = t /\ replay'.took = took /\ replay'.rows = replay.rows /\ replay'.types = replay.types /\ replay'.live = replay.live
      /\ replay'.touched = replay.touched
    BY <1>2, <1>4 DEF Replaying
<1>9. taken' \in [Trays -> Spools \cup {NoSpool}] /\ (took => taken'[t] = s)
      /\ \A u \in Trays \ {t} : taken'[u] = taken[u]
    BY <1>2, <1>3, <1>5 DEF Inv, TypeOK
<1>10. TypeOK'
    BY <1>1, <1>2, <1>6, <1>7, <1>8, <1>9 DEF Inv, TypeOK, Exists, Referenced
<1>11. Batch' /\ Passes'
    BY <1>1, <1>2, <1>8 DEF Inv, Batch, Passes
<1>12. Took'
    BY <1>8, <1>9 DEF Took
<1>13. AppliedIsTaken'
    <2>1. Same(t) => rows[t] # NoRow /\ rows[t].spool = s
        BY <1>2 DEF Same, Inv, Batch
    <2>2. ~Same(t) => rows[t] = NoRow \/ t \in doubt
        BY <1>2 DEF Same, Inv, Batch
    <2> QED
        BY <1>1, <1>5, <1>9, <2>1, <2>2 DEF Inv, AppliedIsTaken
<1>14. Cycles' /\ TagNamesOne'
    BY <1>1 DEF Inv, Cycles, TagNamesOne
<1> QED
    BY <1>10, <1>11, <1>12, <1>13, <1>14 DEF Inv

LEMMA NextIs ==
    ASSUME Inv, replay.step \in {"send", "ok", "failed"}
    PROVE  /\ NextDue \in Replaying /\ ~NextDue.took /\ NextDue.at = NoRow
           /\ NextDue.at \notin NextDue.todo /\ NextDue.step \in {"idle", "pick"}
           /\ NextDue.step = "idle" => \A t \in Trays : NextDue.rows[t] = NoRow
           /\ NextDue.todo \subseteq replay.todo
           /\ \A t \in Trays :
               \/ NextDue.rows[t] = NoRow /\ t \notin NextDue.todo /\ t \notin NextDue.live
               \/ /\ t # replay.at /\ NextDue.rows[t] = replay.rows[t] /\ NextDue.types[t] = replay.types[t]
                  /\ (t \in NextDue.live) = (t \in replay.live)
                  /\ (t \in NextDue.touched) = (t \in replay.touched)
<1>1. replay \in Replaying /\ replay.at \in Trays /\ replay.at \notin replay.todo
    BY DEF Inv, TypeOK, Passes
<1>2. CASE replay.todo = {}
    <2>1. NextDue = NotReplaying
        BY <1>2 DEF NextDue
    <2> QED
        BY <2>1, ConstantsAssumption DEF NotReplaying, NoReport, Replaying
<1>3. CASE replay.todo # {}
    <2>1. NextDue = [replay EXCEPT !.step = "pick", !.at = NoRow, !.took = FALSE, !.rows[replay.at] = NoRow,
                       !.types[replay.at] = NoRow, !.live = @ \ {replay.at}]
        BY <1>3 DEF NextDue
    <2>2. /\ NextDue \in Replaying /\ NextDue.step = "pick" /\ NextDue.at = NoRow /\ NextDue.took = FALSE
          /\ NextDue.rows = [replay.rows EXCEPT ![replay.at] = NoRow] /\ NextDue.live = replay.live \ {replay.at}
          /\ NextDue.types = [replay.types EXCEPT ![replay.at] = NoRow]
          /\ NextDue.todo = replay.todo /\ NextDue.touched = replay.touched
        BY <1>1, <2>1 DEF Replaying
    <2> QED
        BY <1>1, <2>2, ConstantsAssumption DEF Replaying
<1> QED
    BY <1>2, <1>3

LEMMA Records == Inv /\ RecordDue => Inv'
<1> SUFFICES ASSUME Inv, RecordDue PROVE Inv'
    OBVIOUS
<1> DEFINE t == replay.at
           row == Recorded(rows[t], replay.step)
<1>1. UNCHANGED <<spools, tag, catalogued, tray, bambu, request, poll, budget, taken, pushes, unlinked>>
    BY DEF RecordDue, replayVars, inventory
<1>2. /\ replay \in Replaying /\ t \in Trays /\ replay.rows[t] # NoRow /\ replay.step \in {"ok", "failed"}
      /\ rows \in [Trays -> Row \cup {NoRow}] /\ replay' = NextDue
      /\ t \in replay.live => rows[t] # NoRow
    BY DEF RecordDue, Inv, TypeOK, Passes
<1>3. rows[t] # NoRow => row \in Row /\ row # NoRow /\ row.spool = rows[t].spool /\ row.result = replay.step
    <2>1. ASSUME rows[t] # NoRow PROVE row \in Row /\ row.spool = rows[t].spool /\ row.result = replay.step
        BY <1>2, <2>1 DEF Recorded, Row
    <2> QED
        BY <2>1, ConstantsAssumption
<1>4. rows' = IF t \in replay.live THEN [rows EXCEPT ![t] = row] ELSE rows
    BY DEF RecordDue
<1> HIDE DEF row
<1>5. /\ rows' \in [Trays -> Row \cup {NoRow}]
      /\ \A u \in Trays : (rows'[u] = NoRow) = (rows[u] = NoRow)
      /\ \A u \in Trays : rows[u] # NoRow => rows'[u].spool = rows[u].spool
      /\ \A u \in Trays : rows'[u] = rows[u] \/ (u = t /\ t \in replay.live /\ rows'[u].result = replay.step)
    BY <1>2, <1>3, <1>4
<1>6. /\ doubt' \subseteq Trays /\ \A u \in Trays \ {t} : (u \in doubt') = (u \in doubt)
      /\ ~Same(t) => doubt' = doubt
      /\ Same(t) => t \in doubt' \/ replay.took \/ replay.step = "failed"
    BY <1>2 DEF RecordDue, Inv, TypeOK
<1>7. Referenced'
    BY <1>1, <1>5 DEF Inv, TypeOK, Exists, Referenced
<1>8. TypeOK'
    BY <1>1, <1>2, <1>5, <1>6, <1>7, NextIs DEF Inv, TypeOK
<1>9. Batch' /\ Took' /\ Passes'
    <2>1. Batch'
        BY <1>2, <1>5, <1>6, NextIs DEF Inv, Batch
    <2>2. Took' /\ Passes'
        BY <1>2, <1>5, NextIs DEF Inv, Took, Passes, Replaying
    <2> QED
        BY <2>1, <2>2
<1>10. AppliedIsTaken'
    <2>1. ASSUME NEW u \in Trays, u \notin doubt', rows'[u] # NoRow, Badge(rows'[u]) = "applied"
          PROVE  taken[u] = rows'[u].spool
        <3>1. CASE u # t
            BY <1>5, <1>6, <2>1, <3>1 DEF Inv, AppliedIsTaken
        <3>2. CASE u = t /\ t \notin replay.live
            <4>1. rows'[u] = rows[u] /\ u \notin doubt
                BY <1>5, <1>6, <2>1, <3>2 DEF Same
            <4> QED
                BY <2>1, <4>1 DEF Inv, AppliedIsTaken
        <3>3. CASE u = t /\ t \in replay.live
            <4>1. replay.step # "failed"
                BY <1>3, <1>4, <1>2, <2>1, <3>3 DEF Badge
            <4>2. Same(t)
                BY <1>2, <1>6, <2>1, <3>3 DEF Inv, Batch, Same
            <4>3. taken[t] = replay.rows[t].spool
                BY <1>6, <2>1, <3>3, <4>1, <4>2 DEF Inv, Took
            <4> QED
                BY <1>2, <1>5, <3>3, <4>2, <4>3 DEF Inv, Batch, Same
        <3> QED
            BY <3>1, <3>2, <3>3
    <2> QED
        BY <1>1, <2>1 DEF AppliedIsTaken
<1>11. Cycles' /\ TagNamesOne'
    BY <1>1, <1>5 DEF Inv, Cycles, TagNamesOne, TypeOK, Polling
<1> QED
    BY <1>8, <1>9, <1>10, <1>11 DEF Inv

LEMMA RecordFailed == Inv /\ FailRecord => Inv'
<1> SUFFICES ASSUME Inv, FailRecord PROVE Inv'
    OBVIOUS
<1>1. UNCHANGED <<spools, tag, catalogued, tray, rows, bambu, request, poll, taken, doubt, pushes, unlinked>>
    BY DEF FailRecord, replayVars, inventory, history
<1>2. replay \in Replaying /\ budget' \in Budgets
    BY Spent DEF FailRecord, Inv, TypeOK
<1>3. /\ replay' \in Replaying
      /\ \/ /\ replay.step = "ok" /\ replay'.step = "failed" /\ replay'.todo = replay.todo
            /\ replay'.at = replay.at /\ replay'.took = replay.took /\ replay'.rows = replay.rows /\ replay'.types = replay.types
            /\ replay'.live = replay.live /\ replay'.touched = replay.touched
         \/ /\ replay'.step = "idle" /\ replay'.todo = {} /\ replay'.live = {} /\ replay'.took = FALSE
            /\ replay'.at = NoRow
            /\ \A t \in Trays : replay'.rows[t] = NoRow
    <2>1. CASE replay.step = "ok" /\ replay' = [replay EXCEPT !.step = "failed"]
        BY <1>2, <2>1 DEF Replaying
    <2>2. CASE replay' = NotReplaying
        BY <2>2 DEF NotReplaying, NoReport, Replaying
    <2> QED
        BY <2>1, <2>2 DEF FailRecord
<1>4. TypeOK'
    BY <1>1, <1>2, <1>3 DEF Inv, TypeOK, Exists, Referenced
<1>5. Batch' /\ Took' /\ Passes'
    BY <1>1, <1>3 DEF Inv, Batch, Took, Same, Passes
<1>6. Cycles' /\ TagNamesOne' /\ AppliedIsTaken'
    BY <1>1 DEF Inv, Cycles, TagNamesOne, AppliedIsTaken
<1> QED
    BY <1>4, <1>5, <1>6 DEF Inv

-----------------------------------------------------------------------------
LEMMA Step == Inv /\ [Next]_vars => Inv'
<1> SUFFICES ASSUME Inv, [Next]_vars PROVE Inv'
    OBVIOUS
<1>1. CASE UNCHANGED vars
    <2>1. TypeOK' /\ Cycles' /\ TagNamesOne'
        BY <1>1 DEF vars, inventory, history, Inv, TypeOK, Exists, Referenced, Cycles, TagNamesOne
    <2> QED
        BY <1>1, <2>1, Aside DEF vars, history
<1>2. CASE People
    BY <1>2, Unassigned, Handled, Started, SpoolDeleted, Edited DEF People
<1>3. CASE Answer
    BY <1>3, Written, Answers DEF Answer
<1>4. CASE Poll \/ FailPoll
    BY <1>4, Looked, Inserted, Checked, PollFailed DEF Poll
<1>5. CASE Replay \/ FailRecord
    BY <1>5, Listed, Picked, Sends, Records, RecordFailed DEF Replay
<1> QED
    BY <1>1, <1>2, <1>3, <1>4, <1>5 DEF Next

LEMMA Always == Spec => []Inv
    BY Begins, Step, PTL DEF Spec

\* What people, the poller and the replay hold keeps its shape, and no assignment outlives its
\* spool.
THEOREM TypeCorrect == Spec => []TypeOK
<1>1. Inv => TypeOK
    BY DEF Inv
<1> QED
    BY <1>1, Always, PTL

\* A scan of the tag resolves to one spool, unless the tag was linked just as the poller
\* catalogued it.
THEOREM TagNames == Spec => []TagOnOneSpool
<1>1. Inv => TagOnOneSpool
    <2>1. \A s \in Spools : Cardinality({s}) = 1
        BY FS_Singleton
    <2>2. Cardinality({}) = 0
        BY FS_EmptySet
    <2> QED
        BY <2>1, <2>2 DEF Inv, TagNamesOne, TagOnOneSpool
<1> QED
    BY <1>1, Always, PTL

\* What is shown as applied is what the printer was told last, however assignments, deletions,
\* detections and pushes interleave, unless the row was written under a push or the tray was
\* empty then.
THEOREM AppliedWasTaken == Spec => []AppliedIsTaken
<1>1. Inv => AppliedIsTaken
    BY DEF Inv
<1> QED
    BY <1>1, Always, PTL

-----------------------------------------------------------------------------
(* One push of a row that was due.                                         *)

\* A row that was found due on a type is not found due again: what the poller still
\* holds of it was read since.
Decided ==
    \A t \in Trays :
        rows[t] # NoRow /\ rows[t].seen # "none" /\ t \in poll.live /\ poll.rows[t] # NoRow =>
            ~(poll.rows[t].pending /\ poll.rows[t].seen = "none")

\* The row the replay holds still has its type.
ReadSeen ==
    \A t \in Trays :
        replay.rows[t] # NoRow /\ replay.rows[t].seen # "none" /\ Same(t) => rows[t].seen # "none"

\* The replay has the result of its push, and has yet to record it.
Pushing(t) == replay.at = t /\ replay.step \in {"ok", "failed"}

\* A row that was pushed is due until that is recorded, and to the replay of that push only.
OncePushed ==
    \A t \in Trays :
        /\ pushes[t] < 2
        /\ pushes[t] = 1 /\ rows[t] # NoRow =>
             rows[t].seen # "none" /\ (rows[t].due => Pushing(t) /\ t \in replay.live)
        /\ pushes[t] = 1 /\ replay.rows[t] # NoRow /\ Same(t) => Pushing(t)

Once == Decided /\ ReadSeen /\ (budget.faults > 0 => budget.faulty) /\ (budget.faulty \/ OncePushed)

\* What is spent is gone, and a scenario without faults stays one.
LEMMA Left ==
    ASSUME TypeOK, NEW kind \in {"loads", "requests", "edits", "faults"}, Spend(kind) \/ UNCHANGED budget
    PROVE  /\ budget'.faulty = budget.faulty /\ (budget'.faults > 0 => budget.faults > 0)
           /\ Spend("faults") => budget.faults > 0
BY DEF TypeOK, Spend, Budgets

\* Steps that write no row and record no push, and read rows as they are.
LEMMA OnceAside ==
    ASSUME Once, UNCHANGED <<rows, pushes>>,
           budget'.faulty = budget.faulty, budget'.faults > 0 => budget.faults > 0,
           replay'.rows = replay.rows, replay'.step = replay.step, replay'.at = replay.at,
           replay'.live = replay.live, replay.touched \subseteq replay'.touched,
           \A t \in Trays : t \in poll'.live /\ poll'.rows[t] # NoRow =>
               (t \in poll.live /\ poll'.rows[t] = poll.rows[t]) \/ poll'.rows[t] = rows[t]
    PROVE  Once'
<1>1. Decided'
    BY DEF Once, Decided
<1>2. \A t \in Trays : Same(t)' => Same(t)
    BY DEF Same
<1>3. ReadSeen'
    BY <1>2 DEF Once, ReadSeen
<1>4. OncePushed => OncePushed'
    BY <1>2 DEF OncePushed, Pushing
<1> QED
    BY <1>1, <1>3, <1>4 DEF Once

\* A row that is written over starts afresh, and the replay of the row before does not count.
LEMMA OnceUpserted ==
    ASSUME Inv, Once, NEW t \in Trays, NEW s \in Spools, NEW pending \in BOOLEAN, Upsert(t, s, pending),
           UNCHANGED budget, poll'.rows = poll.rows, poll'.live = poll.live
    PROVE  Once'
<1>1. rows \in [Trays -> Row \cup {NoRow}] /\ pushes \in [Trays -> 0..2] /\ replay \in Replaying
    BY DEF Inv, TypeOK
<1>2. /\ rows'[t].seen = "none" /\ ~rows'[t].due
      /\ \A u \in Trays \ {t} : rows'[u] = rows[u]
    BY <1>1 DEF Upsert, Upserted, NewRow
<1>3. pushes'[t] = 0 /\ \A u \in Trays \ {t} : pushes'[u] = pushes[u]
    BY <1>1 DEF Upsert
<1>4. /\ replay'.rows = replay.rows /\ replay'.step = replay.step /\ replay'.at = replay.at
      /\ replay'.live = replay.live /\ replay.touched \subseteq replay'.touched
      /\ replay.step # "idle" => t \in replay'.touched
    <2>1. CASE replay.step = "idle"
        BY <2>1 DEF Upsert, Touch
    <2>2. CASE replay.step # "idle"
        <3>1. replay' = [replay EXCEPT !.touched = @ \cup {t}]
            BY <2>2 DEF Upsert, Touch
        <3> QED
            BY <1>1, <3>1 DEF Replaying
    <2> QED
        BY <2>1, <2>2
<1>5. replay.rows[t] # NoRow => replay.step # "idle"
    BY DEF Inv, Passes
<1>6. \A u \in Trays : Same(u)' => Same(u) /\ (replay.rows[u] # NoRow => u # t)
    BY <1>4, <1>5 DEF Same
<1>7. Decided'
    BY <1>2 DEF Once, Decided
<1>8. ReadSeen'
    BY <1>2, <1>4, <1>6 DEF Once, ReadSeen
<1>9. OncePushed => OncePushed'
    BY <1>2, <1>3, <1>4, <1>6 DEF OncePushed, Pushing
<1> QED
    BY <1>7, <1>8, <1>9 DEF Once

\* A row that is deleted is nobody's.
LEMMA OnceDeleted ==
    ASSUME Inv, Once, NEW T \in SUBSET Trays, NEW next \in Polling, Delete(T, next),
           UNCHANGED pushes, budget'.faulty = budget.faulty, budget'.faults > 0 => budget.faults > 0,
           next.live \subseteq poll.live, \A t \in Trays : next.rows[t] \in {poll.rows[t], NoRow}
    PROVE  Once'
<1>1. replay \in Replaying
    BY DEF Inv, TypeOK
<1>2. \A u \in Trays : rows'[u] = IF u \in T THEN NoRow ELSE rows[u]
    BY DEF Delete
<1>3. poll'.live = next.live \ T /\ poll'.rows = next.rows
    BY DEF Delete, Polling
<1>4. /\ replay'.rows = replay.rows /\ replay'.step = replay.step /\ replay'.at = replay.at
      /\ replay'.live = replay.live \ T /\ replay'.touched = replay.touched
    BY <1>1 DEF Delete, Replaying
<1>5. \A u \in Trays : Same(u)' => Same(u) /\ u \notin T
    BY <1>4 DEF Same
<1>6. Decided'
    BY <1>2, <1>3 DEF Once, Decided
<1>7. ReadSeen'
    BY <1>2, <1>4, <1>5 DEF Once, ReadSeen
<1>8. OncePushed => OncePushed'
    BY <1>2, <1>4, <1>5 DEF OncePushed, Pushing
<1> QED
    BY <1>6, <1>7, <1>8 DEF Once

LEMMA OncePeople == Inv /\ Once /\ People => Once'
<1> SUFFICES ASSUME Inv, Once, People PROVE Once'
    OBVIOUS
<1>1. TypeOK /\ poll \in Polling
    BY DEF Inv, TypeOK
<1>2. ASSUME NEW t \in Trays, Unassign(t) PROVE Once'
    <2>1. Delete({t}, poll) /\ UNCHANGED pushes /\ Spend("requests")
        BY <1>2 DEF Unassign, history
    <2>2. budget'.faulty = budget.faulty /\ (budget'.faults > 0 => budget.faults > 0)
        BY <1>1, <2>1, Left
    <2> QED
        BY <1>1, <2>1, <2>2, OnceDeleted
<1>3. ASSUME NEW s \in Spools, DeleteSpool(s) PROVE Once'
    <2>1. Delete(Cascaded(s), poll) /\ UNCHANGED pushes /\ Spend("edits")
        BY <1>3 DEF DeleteSpool, history
    <2>2. budget'.faulty = budget.faulty /\ (budget'.faults > 0 => budget.faults > 0)
        BY <1>1, <2>1, Left
    <2>3. Cascaded(s) \in SUBSET Trays
        BY DEF Cascaded
    <2> QED
        BY <1>1, <2>1, <2>2, <2>3, OnceDeleted
<1>4. ASSUME \/ \E t \in Trays : Handle(t) \/ \E s \in Spools, pending \in BOOLEAN : StartAssign(t, s, pending)
             \/ \E s \in Spools : LinkTag(s) \/ \E type \in Types : EditSpool(s, type)
             \/ EditProfile
      PROVE  Once'
    <2>1. UNCHANGED <<rows, pushes, replay, poll>>
        BY <1>4 DEF Handle, StartAssign, LinkTag, EditSpool, EditProfile, requestVars, history
    <2>2. Spend("loads") \/ Spend("requests") \/ Spend("edits")
        BY <1>4 DEF Handle, StartAssign, LinkTag, EditSpool, EditProfile
    <2>3. budget'.faulty = budget.faulty /\ (budget'.faults > 0 => budget.faults > 0)
        BY <1>1, <2>2, Left
    <2> QED
        BY <2>1, <2>3, OnceAside
<1> QED
    BY <1>2, <1>3, <1>4 DEF People

LEMMA OnceAnswer == Inv /\ Once /\ Answer => Once'
<1> SUFFICES ASSUME Inv, Once, Answer PROVE Once'
    OBVIOUS
<1>1. TypeOK
    BY DEF Inv
<1>2. CASE WriteAssign
    <2>1. UNCHANGED <<poll, budget>>
        BY <1>2 DEF WriteAssign, requestVars
    <2>2. request \in Assigning
        BY <1>2 DEF WriteAssign, Inv, TypeOK, Idle
    <2>3. CASE Exists(request.spool)
        <3>1. /\ request.tray \in Trays /\ request.spool \in Spools /\ request.pending \in BOOLEAN
              /\ Upsert(request.tray, request.spool, request.pending)
            BY <1>2, <2>2, <2>3 DEF WriteAssign, Assigning
        <3> QED
            BY <2>1, <3>1, OnceUpserted
    <2>4. CASE ~Exists(request.spool)
        <3>1. UNCHANGED <<rows, replay, pushes>>
            BY <1>2, <2>4 DEF WriteAssign, history
        <3> QED
            BY <2>1, <3>1, OnceAside
    <2> QED
        BY <2>3, <2>4
<1>3. ASSUME NEW sent \in BOOLEAN, PushAssign(sent) PROVE Once'
    <2>1. UNCHANGED <<rows, pushes, poll>>
        BY <1>3 DEF PushAssign, requestVars
    <2>2. budget'.faulty = budget.faulty /\ (budget'.faults > 0 => budget.faults > 0)
        <3>1. Spend("faults") \/ UNCHANGED budget
            BY <1>3 DEF PushAssign
        <3> QED
            BY <1>1, <3>1, Left
    <2>3. /\ replay'.rows = replay.rows /\ replay'.step = replay.step /\ replay'.at = replay.at
          /\ replay'.live = replay.live /\ replay.touched \subseteq replay'.touched
        <3>1. replay \in Replaying
            BY <1>1 DEF TypeOK
        <3>2. replay' = replay \/ replay' = [replay EXCEPT !.touched = @ \cup {request.tray}]
            BY <1>3 DEF PushAssign, Touch
        <3> QED
            BY <3>1, <3>2 DEF Replaying
    <2> QED
        BY <2>1, <2>2, <2>3, OnceAside
<1> QED
    BY <1>2, <1>3 DEF Answer

LEMMA OncePoll == Inv /\ Once /\ (Poll \/ FailPoll) => Once'
<1> SUFFICES ASSUME Inv, Once, Poll \/ FailPoll PROVE Once'
    OBVIOUS
<1>1. /\ TypeOK /\ poll \in Polling /\ rows \in [Trays -> Row \cup {NoRow}]
    BY DEF Inv, TypeOK
<1>2. NextTag.rows = poll.rows /\ NextTag.live = poll.live /\ NextTag \in Polling
    BY <1>1 DEF NextTag, Polling
<1>3. CASE StartPoll \/ FindTag \/ Catalog \/ SelectRow \/ EndPoll
    <2>1. UNCHANGED <<rows, pushes, replay, budget>>
        BY <1>3 DEF StartPoll, FindTag, Catalog, SelectRow, EndPoll, pollVars
    <2>2. poll'.rows = poll.rows /\ poll'.live = poll.live
        <3>1. CASE StartPoll
            BY <1>1, <3>1 DEF StartPoll, Polling
        <3>2. CASE FindTag
            BY <1>1, <3>2 DEF FindTag, Polling
        <3>3. CASE Catalog
            BY <1>2, <3>3 DEF Catalog
        <3>4. CASE SelectRow
            BY <1>1, <1>2, <3>4 DEF SelectRow, Polling
        <3>5. CASE EndPoll
            BY <1>1, <3>5 DEF EndPoll, Polling
        <3> QED
            BY <1>3, <3>1, <3>2, <3>3, <3>4, <3>5
    <2> QED
        BY <2>1, <2>2, OnceAside
<1>4. CASE ListRows
    <2>1. UNCHANGED <<rows, pushes, replay, budget>> /\ poll'.rows = rows
        BY <1>1, <1>4 DEF ListRows, pollVars, Polling
    <2> QED
        BY <2>1, OnceAside
<1>5. CASE InsertRow
    <2>1. UNCHANGED budget /\ poll.at \in Trays /\ poll.spool \in Spools
        BY <1>5 DEF InsertRow, Inv, Cycles
    <2>2. poll'.rows = poll.rows /\ poll'.live = poll.live
        BY <1>2, <1>5 DEF InsertRow, Polling
    <2>3. CASE Exists(poll.spool)
        <3>1. Upsert(poll.at, poll.spool, TRUE) /\ TRUE \in BOOLEAN
            BY <1>5, <2>3 DEF InsertRow
        <3> QED
            BY <2>1, <2>2, <3>1, OnceUpserted
    <2>4. CASE ~Exists(poll.spool)
        <3>1. UNCHANGED <<rows, replay, pushes>>
            BY <1>5, <2>4 DEF InsertRow, history
        <3> QED
            BY <2>1, <2>2, <3>1, OnceAside
    <2> QED
        BY <2>3, <2>4
<1>6. ASSUME NEW t \in Trays, CheckRow(t) PROVE Once'
    <2> DEFINE row == poll.rows[t]
               x == poll.report[t]
               next == [poll EXCEPT !.todo = @ \ {t}, !.rows[t] = NoRow, !.live = @ \ {t}]
    <2>2. /\ next \in Polling /\ next.live = poll.live \ {t}
          /\ next.rows = [poll.rows EXCEPT ![t] = NoRow]
        BY <1>1 DEF Polling
    <2>3. next.rows[t] = NoRow /\ \A u \in Trays \ {t} : next.rows[u] = poll.rows[u]
        BY <1>1, <2>2 DEF Polling
    <2>4. UNCHANGED <<pushes, budget>> /\ row # NoRow
        BY <1>6 DEF CheckRow, pollVars, Inv, Cycles
    <2>5. CASE Stale(row, x) /\ t \in poll.live
        <3>1. Delete({t}, next)
            BY <1>6, <2>5 DEF CheckRow
        <3> HIDE DEF next
        <3> QED
            BY <2>2, <2>3, <2>4, <3>1, OnceDeleted
    <2>6. CASE ~(Stale(row, x) /\ t \in poll.live) /\ rows' = rows
        <3>1. poll' = next /\ UNCHANGED replay
            BY <1>6, <2>6 DEF CheckRow
        <3> HIDE DEF next
        <3> QED
            BY <2>2, <2>3, <2>4, <2>6, <3>1, OnceAside
    <2>7. CASE ~(Stale(row, x) /\ t \in poll.live) /\ rows' # rows
        <3>1. /\ poll' = next /\ UNCHANGED replay /\ Due(row, x) /\ t \in poll.live
              /\ rows' = [rows EXCEPT ![t].seen = TypeOf(x), ![t].load = x.load, ![t].due = TRUE]
            BY <1>6, <2>7 DEF CheckRow
        <3> HIDE DEF next
        <3>2. rows[t] # NoRow
            BY <3>1 DEF Inv, Cycles
        <3>3. rows[t].seen = "none"
            BY <2>4, <3>1, <3>2 DEF Once, Decided, Due
        <3>4. \A u \in Trays \ {t} : rows'[u] = rows[u]
            BY <1>1, <3>1
        <3>5. Decided'
            BY <2>2, <2>3, <3>1, <3>4 DEF Once, Decided
        <3>6. ReadSeen'
            BY <3>1, <3>3, <3>4 DEF Once, ReadSeen, Same
        <3>7. OncePushed => OncePushed'
            BY <2>4, <3>1, <3>2, <3>3, <3>4 DEF OncePushed, Pushing, Same
        <3> QED
            BY <2>4, <3>5, <3>6, <3>7 DEF Once
    <2> QED
        BY <2>5, <2>6, <2>7
<1>7. CASE FailPoll
    <2>1. UNCHANGED <<rows, pushes, replay>> /\ Spend("faults")
        BY <1>7 DEF FailPoll, history
    <2>2. budget'.faulty = budget.faulty /\ (budget'.faults > 0 => budget.faults > 0)
        BY <1>1, <2>1, Left
    <2>3. poll'.live = {} \/ (poll'.rows = poll.rows /\ poll'.live = poll.live)
        BY <1>1, <1>7 DEF FailPoll, Polling
    <2> QED
        BY <2>1, <2>2, <2>3, OnceAside
<1> QED
    BY <1>3, <1>4, <1>5, <1>6, <1>7 DEF Poll

LEMMA OnceReplay == Inv /\ Once /\ (Replay \/ FailRecord) => Once'
<1> SUFFICES ASSUME Inv, Once, Replay \/ FailRecord PROVE Once'
    OBVIOUS
<1>1. TypeOK /\ replay \in Replaying /\ rows \in [Trays -> Row \cup {NoRow}] /\ pushes \in [Trays -> 0..2]
    BY DEF Inv, TypeOK
<1>2. CASE ListDue
    <2> DEFINE due == {t \in Trays : rows[t] # NoRow /\ rows[t].due}
               read == [t \in Trays |-> IF t \in due THEN rows[t] ELSE NoRow]
    <2>1. UNCHANGED <<rows, pushes, budget, poll>> /\ replay.step = "idle"
        BY <1>2 DEF ListDue, replayVars, history
    <2>2. replay'.rows = read
        BY <1>1, <1>2 DEF ListDue, Replaying
    <2>3. \A t \in Trays : read[t] # NoRow => rows[t] # NoRow /\ rows[t].due /\ read[t] = rows[t]
        OBVIOUS
    <2> HIDE DEF read
    <2>4. Decided' /\ ReadSeen'
        BY <2>1, <2>2, <2>3 DEF Once, Decided, ReadSeen
    <2>5. OncePushed => OncePushed'
        BY <2>1, <2>2, <2>3 DEF OncePushed, Pushing
    <2> QED
        BY <2>1, <2>4, <2>5 DEF Once
<1>3. ASSUME NEW t \in Trays, NEW found \in BOOLEAN, PickDue(t, found) PROVE Once'
    <2>1. UNCHANGED <<rows, pushes, poll>> /\ replay.step = "pick"
        BY <1>3 DEF PickDue, replayVars, history
    <2>2. budget'.faulty = budget.faulty /\ (budget'.faults > 0 => budget.faults > 0) /\ (~found => budget.faults > 0)
        <3>1. (Spend("faults") \/ UNCHANGED budget) /\ (~found => Spend("faults"))
            BY <1>3 DEF PickDue
        <3> QED
            BY <1>1, <3>1, Left
    <2>3. replay'.rows = replay.rows /\ replay'.live = replay.live /\ replay'.touched = replay.touched
        BY <1>1, <1>3 DEF PickDue, Replaying
    <2>4. Decided' /\ ReadSeen'
        BY <2>1, <2>3 DEF Once, Decided, ReadSeen, Same
    <2>5. OncePushed => OncePushed'
        BY <2>1, <2>3 DEF OncePushed, Pushing, Same
    <2> QED
        BY <2>2, <2>4, <2>5 DEF Once
<1>4. ASSUME NEW sent \in BOOLEAN, SendDue(sent) PROVE Once'
    <2> DEFINE t == replay.at
    <2>1. UNCHANGED <<rows, poll>> /\ replay.step = "send" /\ t \in Trays /\ replay.rows[t] # NoRow
        BY <1>4 DEF SendDue, replayVars, Inv, Passes
    <2>2. budget'.faulty = budget.faulty /\ (budget'.faults > 0 => budget.faults > 0)
        <3>1. Spend("faults") \/ UNCHANGED budget
            BY <1>4 DEF SendDue
        <3> QED
            BY <1>1, <3>1, Left
    <2>3. /\ replay'.rows = replay.rows /\ replay'.live = replay.live /\ replay'.touched = replay.touched
          /\ replay'.at = t /\ replay'.step \in {"ok", "failed"}
        BY <1>1, <1>4 DEF SendDue, Replaying
    <2>4. Decided' /\ ReadSeen'
        BY <2>1, <2>3 DEF Once, Decided, ReadSeen, Same
    <2>5. \/ pushes' = pushes
          \/ /\ Same(t) /\ replay.rows[t].seen # "none"
             /\ pushes' = [pushes EXCEPT ![t] = pushes[t] + 1]
        BY <1>4 DEF SendDue
    <2> HIDE DEF t
    <2>6. ASSUME OncePushed, pushes' = pushes PROVE OncePushed'
        BY <2>1, <2>3, <2>6 DEF OncePushed, Pushing, Same
    <2>7. ASSUME OncePushed, Same(t), replay.rows[t].seen # "none",
                 pushes' = [pushes EXCEPT ![t] = pushes[t] + 1]
          PROVE  OncePushed'
        <3>1. pushes[t] \in 0..2 /\ pushes[t] # 2 /\ pushes[t] # 1
            BY <1>1, <2>1, <2>7 DEF OncePushed, Pushing
        <3>2. pushes'[t] = 1 /\ \A u \in Trays \ {t} : pushes'[u] = pushes[u]
            BY <1>1, <2>1, <2>7, <3>1
        <3>3. rows[t].seen # "none" /\ t \in replay.live
            BY <2>1, <2>7 DEF Once, ReadSeen, Same
        <3> QED
            BY <2>1, <2>3, <2>7, <3>2, <3>3 DEF OncePushed, Pushing, Same
    <2> QED
        BY <2>2, <2>4, <2>5, <2>6, <2>7 DEF Once
<1>5. CASE RecordDue
    <2> DEFINE t == replay.at
    <2>1. /\ UNCHANGED <<poll, budget, pushes>> /\ replay.step \in {"ok", "failed"} /\ t \in Trays
          /\ replay' = NextDue /\ (t \in replay.live => rows[t] # NoRow)
        BY <1>5 DEF RecordDue, replayVars, Inv, Passes
    <2>2. /\ \A u \in Trays : (rows'[u] = NoRow) = (rows[u] = NoRow)
          /\ \A u \in Trays : rows[u] # NoRow => rows'[u].seen = rows[u].seen
          /\ \A u \in Trays \ {t} : rows'[u] = rows[u]
          /\ t \in replay.live => ~rows'[t].due
          /\ t \notin replay.live => rows'[t] = rows[t]
        <3> DEFINE new == Recorded(rows[t], replay.step)
        <3>1. rows' = IF t \in replay.live THEN [rows EXCEPT ![t] = new] ELSE rows
            BY <1>5 DEF RecordDue
        <3>2. rows[t] # NoRow => new \in Row /\ new.seen = rows[t].seen /\ ~new.due
            BY <1>1, <2>1 DEF Recorded, Row
        <3> HIDE DEF new
        <3> QED
            BY <1>1, <2>1, <3>1, <3>2, ConstantsAssumption
    <2>3. \A u \in Trays : replay'.rows[u] # NoRow =>
              /\ u # t /\ replay'.rows[u] = replay.rows[u]
              /\ Same(u)' => Same(u)
        BY <1>1, <2>1, NextIs DEF Same
    <2>4. Decided'
        BY <2>1, <2>2 DEF Once, Decided
    <2>5. ReadSeen'
        <3>1. \A u \in Trays : Same(u) /\ replay.rows[u] # NoRow => rows[u] # NoRow
            BY DEF Same, Inv, Batch
        <3> QED
            BY <2>2, <2>3, <3>1 DEF Once, ReadSeen
    <2>6. OncePushed => OncePushed'
        BY <2>1, <2>2, <2>3 DEF OncePushed, Pushing
    <2> QED
        BY <2>1, <2>4, <2>5, <2>6 DEF Once
<1>6. CASE FailRecord
    <2>1. UNCHANGED <<rows, pushes, poll>> /\ Spend("faults")
        BY <1>6 DEF FailRecord, replayVars, history
    <2>2. budget'.faulty = budget.faulty /\ budget.faulty
        BY <1>1, <2>1, Left DEF Once
    <2>3. \/ /\ replay'.rows = replay.rows /\ replay'.live = replay.live
             /\ replay'.touched = replay.touched
          \/ \A t \in Trays : replay'.rows[t] = NoRow
        <3>1. CASE replay' = [replay EXCEPT !.step = "failed"]
            BY <1>1, <3>1 DEF Replaying
        <3>2. CASE replay' = NotReplaying
            BY <3>2 DEF NotReplaying, NoReport
        <3> QED
            BY <1>6, <3>1, <3>2 DEF FailRecord
    <2>4. Decided' /\ ReadSeen'
        BY <2>1, <2>3 DEF Once, Decided, ReadSeen, Same
    <2> QED
        BY <2>2, <2>4 DEF Once
<1> QED
    BY <1>2, <1>3, <1>4, <1>5, <1>6 DEF Replay

\* Until a result cannot be recorded, a row that was found due on a type is pushed once, however
\* polls, passes, reassignments and deletions interleave.
THEOREM PushesOnce == Spec => []PushedOnce
<1>1. Init => Once
    <2> SUFFICES ASSUME Init PROVE Once
        OBVIOUS
    <2>1. budget.faults > 0 => budget.faulty
        BY ConstantsAssumption DEF Init
    <2>2. /\ \A t \in Trays : rows[t] = NoRow /\ pushes[t] = 0
          /\ \A t \in Trays : replay.rows[t] = NoRow
        BY DEF Init, NotReplaying, NoReport
    <2> QED
        BY <2>1, <2>2 DEF Once, Decided, ReadSeen, OncePushed
<1>2. Inv /\ Once /\ [Next]_vars => Once'
    <2>1. Inv /\ Once /\ UNCHANGED vars => Once'
        BY OnceAside DEF vars, history
    <2> QED
        BY <2>1, OncePeople, OnceAnswer, OncePoll, OnceReplay DEF Next
<1>3. Inv /\ Once => PushedOnce
    BY DEF Once, OncePushed, PushedOnce
<1> QED
    BY <1>1, <1>2, <1>3, Always, PTL DEF Spec
=============================================================================
