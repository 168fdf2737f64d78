--------------------------- MODULE PollCycle_proofs ---------------------------
(***************************************************************************)
(* Proofs about PollCycle, for any number of printers, jobs,               *)
(* configurations and targets and for any bounds on what happens to them.  *)
(***************************************************************************)
EXTENDS PollCycle, TLAPS

USE DEF Statuses, Age, Nil

\* Growing older changes no field of a row but its offline age.
LEMMA AgedRowKeeps ==
    ASSUME NEW r \in Row \cup {NoRow}
    PROVE  /\ AgedRow(r) \in Row \cup {NoRow}
           /\ (AgedRow(r) = NoRow) <=> (r = NoRow)
           /\ r # NoRow => /\ AgedRow(r).cfg = r.cfg
                           /\ AgedRow(r).target = r.target
                           /\ AgedRow(r).status = r.status
                           /\ AgedRow(r).job = r.job
                           /\ AgedRow(r).hours = r.hours
  <1>1. CASE r = NoRow \/ r = NoSig
    BY <1>1 DEF AgedRow
  <1>2. CASE r # NoRow /\ r # NoSig
    <2>1. r \in Row
      BY <1>2
    <2>2. AgedRow(r) = [r EXCEPT !.since = IF r.since = -1 THEN -1 ELSE Older(r.since, Grace)]
      BY <1>2 DEF AgedRow
    <2>3. (IF r.since = -1 THEN -1 ELSE Older(r.since, Grace)) \in (0..Grace) \cup {-1}
      BY <2>1, ConstantsAssumption DEF Row, Older
    <2>4. AgedRow(r) \in Row
      BY <2>1, <2>2, <2>3 DEF Row
    <2> QED
      BY <2>1, <2>2, <2>4, SentinelAssumption DEF Row
  <1> QED
    BY <1>1, <1>2

LEMMA AgedSigType ==
    ASSUME NEW r \in Sig \cup {NoSig}
    PROVE  AgedRow(r) \in Sig \cup {NoSig}
  <1>1. CASE r = NoRow \/ r = NoSig
    BY <1>1 DEF AgedRow
  <1>2. CASE r # NoRow /\ r # NoSig
    <2>1. r \in Sig
      BY <1>2
    <2>2. AgedRow(r) = [r EXCEPT !.since = IF r.since = -1 THEN -1 ELSE Older(r.since, Grace)]
      BY <1>2 DEF AgedRow
    <2>3. (IF r.since = -1 THEN -1 ELSE Older(r.since, Grace)) \in (0..Grace) \cup {-1}
      BY <2>1, ConstantsAssumption DEF Sig, Older
    <2> QED
      BY <2>1, <2>2, <2>3 DEF Sig
  <1> QED
    BY <1>1, <1>2

\* A refreshed row keeps the configuration, and the target it cannot report.
LEMMA RefreshedRow ==
    ASSUME TypeOK, NEW p \in Printers, snap[p] # NoRow,
           NEW r, r = IF dev[p].up THEN Live(p) ELSE Unreachable(snap[p])
    PROVE  /\ r \in Row
           /\ r.cfg = snap[p].cfg
           /\ p \notin Echoing => r.target = snap[p].target
  <1>1. snap[p] \in Row /\ dev[p] \in Device
    BY DEF TypeOK
  <1>2. CASE dev[p].up
    BY <1>1, <1>2 DEF Live, Row, Device
  <1>3. CASE ~dev[p].up
    <2>1. Unreachable(snap[p]) \in { [snap[p] EXCEPT !.since = 0], snap[p],
            [snap[p] EXCEPT !.status = "offline", !.job = NoJob] }
      BY DEF Unreachable
    <2>2. 0 \in Age \cup {Nil}
      BY ConstantsAssumption
    <2> QED
      BY <1>1, <1>3, <2>1, <2>2 DEF Row
  <1> QED
    BY <1>2, <1>3

LEMMA TypeInit == Init => TypeOK
  <1> SUFFICES ASSUME Init PROVE TypeOK
    OBVIOUS
  <1>1. \A c \in Configs : NewRow(c) \in Row
    BY ConstantsAssumption DEF NewRow, Row
  <1>2. table \in [Printers -> Row \cup {NoRow}]
        /\ wanted \in [Printers -> [cfg : Configs, target : Targets]]
    BY <1>1, ConstantsAssumption DEF Init
  <1>3. budget \in [{"save", "delete", "set", "run", "drop", "fault"} -> Nat]
    BY ConstantsAssumption DEF Init
  <1>4. dev \in [Printers -> Device]
    BY ConstantsAssumption DEF Init, Device
  <1>5. /\ runs \in [Printers -> [Jobs -> Nat]]
        /\ counted = runs /\ redo = runs
    BY DEF Init
  <1> QED
    BY <1>2, <1>3, <1>4, <1>5, ConstantsAssumption DEF Init, TypeOK, NoRows

LEMMA TypeSigOf ==
    ASSUME NEW r \in Row
    PROVE  SigOf(r) \in Sig
  BY DEF Row, Sig, SigOf

\* The row a write-back stores.
LEMMA UpsertedRow ==
    ASSUME TypeOK, NEW p \in Printers, result[p] # NoRow
    PROVE  /\ Upserted(p) \in [Printers -> Row \cup {NoRow}]
           /\ Upserted(p)[p] \in Row
           /\ Upserted(p)[p].cfg = result[p].cfg
           /\ Upserted(p)[p].target = result[p].target
           /\ Upserted(p)[p].job = result[p].job
           /\ Upserted(p)[p].status = result[p].status
           /\ Upserted(p)[p].hours = IF Exists(p) THEN table[p].hours ELSE 0
           /\ \A q \in Printers \ {p} : Upserted(p)[q] = table[q]
  <1> DEFINE h == IF Exists(p) THEN table[p].hours ELSE 0
  <1> DEFINE w == [result[p] EXCEPT !.hours = h]
  <1>1. result[p] \in Row /\ table \in [Printers -> Row \cup {NoRow}]
    BY DEF TypeOK
  <1>2. h \in Nat
    BY <1>1 DEF Exists, Row
  <1>3. /\ w \in Row
        /\ w.cfg = result[p].cfg /\ w.target = result[p].target
        /\ w.job = result[p].job /\ w.status = result[p].status /\ w.hours = h
    <2> HIDE DEF h
    <2> QED BY <1>1, <1>2 DEF Row
  <1>4. Upserted(p) = [table EXCEPT ![p] = w]
    BY DEF Upserted
  <1> HIDE DEF w
  <1> QED
    BY <1>1, <1>3, <1>4

-----------------------------------------------------------------------------
(* Type correctness.  The type of a written row depends on what a cycle    *)
(* carries from its snapshot to its write-back, so the two are proved      *)
(* together.                                                               *)

\* What run() has in hand in each phase: nothing between cycles; a result only
\* of a printer in the snapshot, with the columns the poller may not invent;
\* and in the write-back a result for every printer still to be written.
CycleShape ==
    /\ phase = "idle" => snap = NoRows /\ result = NoRows /\ todo = {}
    /\ \A p \in Printers : result[p] # NoRow =>
         /\ snap[p] # NoRow
         /\ result[p].cfg = snap[p].cfg
         /\ p \notin Echoing => result[p].target = snap[p].target
    /\ phase = "apply" => \A p \in todo : result[p] # NoRow

LEMMA ShapeInit == Init => CycleShape
  BY DEF Init, CycleShape, NoRows

\* A cycle that is given up leaves nothing in hand.
LEMMA DropType == DropCycle =>
    /\ phase' = "idle" /\ todo' = {} /\ cur' = NoPrinter /\ stage' = "none"
    /\ snap' = NoRows /\ result' = NoRows
    /\ snap' \in [Printers -> Row \cup {NoRow}]
    /\ result' \in [Printers -> Row \cup {NoRow}]
    /\ CycleShape'
  BY DEF DropCycle, NoRows, CycleShape

\* One more in a table of counts.
LEMMA BumpType ==
    ASSUME NEW f \in [Printers -> [Jobs -> Nat]], NEW p, NEW j
    PROVE  [f EXCEPT ![p][j] = @ + 1] \in [Printers -> [Jobs -> Nat]]
  <1>1. CASE p \in Printers
    <2> DEFINE h == f[p]
    <2> DEFINE g == [h EXCEPT ![j] = h[j] + 1]
    <2>1. h \in [Jobs -> Nat]
      BY <1>1
    <2>2. g \in [Jobs -> Nat]
      <3> HIDE DEF h
      <3>1. CASE j \in Jobs
        BY <2>1, <3>1
      <3>2. CASE j \notin Jobs
        BY <2>1, <3>2
      <3> QED
        BY <3>1, <3>2
    <2>3. [f EXCEPT ![p][j] = @ + 1] = [f EXCEPT ![p] = g]
      OBVIOUS
    <2> HIDE DEF g
    <2> QED
      BY <2>2, <2>3
  <1>2. CASE p \notin Printers
    <2>1. [f EXCEPT ![p][j] = @ + 1] = f
      BY <1>2
    <2> QED
      BY <2>1
  <1> QED
    BY <1>1, <1>2

LEMMA RedoneType ==
    ASSUME TypeOK
    PROVE  Redone \in [Printers -> [Jobs -> Nat]]
  <1>1. redo \in [Printers -> [Jobs -> Nat]]
    BY DEF TypeOK
  <1>2. [redo EXCEPT ![cur][snap[cur].job] = @ + 1] \in [Printers -> [Jobs -> Nat]]
    BY <1>1, BumpType
  <1> QED
    BY <1>1, <1>2 DEF Redone

LEMMA SpendType ==
    ASSUME TypeOK, NEW k \in {"save", "delete", "set", "run", "drop", "fault"},
           Spend(k)
    PROVE  budget' \in [{"save", "delete", "set", "run", "drop", "fault"} -> Nat]
  BY DEF TypeOK, Spend

LEMMA TypeStartCycle == TypeOK /\ StartCycle => TypeOK'
  BY DEF TypeOK, StartCycle, ghostVars, pollVars

LEMMA TypeRefresh ==
    ASSUME TypeOK, NEW p \in Printers, Refresh(p)
    PROVE  TypeOK'
  <1>1. result'[p] \in Row /\ \A q \in Printers \ {p} : result'[q] = result[q]
    BY RefreshedRow DEF TypeOK, Refresh
  <1>2. result' \in [Printers -> Row \cup {NoRow}]
    BY <1>1 DEF TypeOK, Refresh
  <1>3. silent' \in [Printers -> Nat]
    BY DEF TypeOK, Refresh
  <1> QED
    BY <1>2, <1>3 DEF TypeOK, Refresh

LEMMA TypeApply ==
    ASSUME TypeOK, CycleShape, NEW p \in Printers
    PROVE  /\ Accrue(p) => TypeOK'
           /\ CountJob(p) => TypeOK'
           /\ Persist(p) => TypeOK'
           /\ LoseAck(p) => TypeOK'
  <1>1. ASSUME Accrue(p) PROVE TypeOK'
    <2>1. table' \in [Printers -> Row \cup {NoRow}]
      <3>1. CASE Exists(p)
        <4>1. table[p] \in Row
          BY <3>1 DEF TypeOK, Exists
        <4>2. [table[p] EXCEPT !.hours = @ + 1] \in Row
          BY <4>1 DEF Row
        <4> QED
          BY <1>1, <3>1, <4>2 DEF TypeOK, Accrue
      <3>2. CASE ~Exists(p)
        BY <1>1, <3>2 DEF TypeOK, Accrue
      <3> QED
        BY <3>1, <3>2
    <2>2. credited' \in [Printers -> Nat]
      BY <1>1 DEF TypeOK, Accrue
    <2> QED
      BY <1>1, <2>1, <2>2 DEF TypeOK, Accrue
  <1>2. ASSUME CountJob(p) PROVE TypeOK'
    <2>1. counted' \in [Printers -> [Jobs -> Nat]]
      BY <1>2, BumpType DEF TypeOK, CountJob
    <2> QED
      BY <1>2, <2>1 DEF TypeOK, CountJob
  <1>3. ASSUME Persist(p) \/ LoseAck(p)
        PROVE  /\ result[p] \in Row
               /\ Upserted(p) \in [Printers -> Row \cup {NoRow}]
               /\ CreditedAfterUpsert(p) \in [Printers -> Nat]
    BY <1>3, UpsertedRow
       DEF TypeOK, CycleShape, Persist, LoseAck, ReadyToPersist, CreditedAfterUpsert
  <1>4. ASSUME Persist(p) PROVE TypeOK'
    <2>1. SigOf(result[p]) \in Sig
      BY <1>3, <1>4, TypeSigOf
    <2>2. /\ lastSig' \in [Printers -> Sig \cup {NoSig}]
          /\ sinceWrite' \in [Printers -> Nat]
      <3>1. lastSig \in [Printers -> Sig \cup {NoSig}] /\ sinceWrite \in [Printers -> Nat]
        BY DEF TypeOK
      <3>2. CASE /\ lastSig' = [lastSig EXCEPT ![p] = SigOf(result[p])]
                 /\ sinceWrite' = [sinceWrite EXCEPT ![p] = 0]
        BY <2>1, <3>1, <3>2
      <3>3. CASE UNCHANGED <<lastSig, sinceWrite>>
        BY <3>1, <3>3
      <3> QED
        BY <1>4, <3>2, <3>3 DEF Persist
    <2>3. /\ table' \in [Printers -> Row \cup {NoRow}]
          /\ credited' \in [Printers -> Nat]
      BY <1>3, <1>4 DEF TypeOK, Persist
    <2>4. redo' \in [Printers -> [Jobs -> Nat]]
      BY <1>4, RedoneType DEF TypeOK, Persist
    <2> QED
      BY <1>4, <2>2, <2>3, <2>4 DEF TypeOK, Persist
  <1>5. ASSUME LoseAck(p) PROVE TypeOK'
    BY <1>3, <1>5, DropType, SpendType DEF TypeOK, LoseAck
  <1> QED
    BY <1>1, <1>2, <1>4, <1>5

LEMMA TypeTrouble ==
    ASSUME TypeOK
    PROVE  DbError \/ Crash => TypeOK'
  <1>1. ASSUME DbError PROVE TypeOK'
    BY <1>1, DropType, SpendType, RedoneType DEF TypeOK, DbError
  <1>2. ASSUME Crash PROVE TypeOK'
    <2>1. /\ lastSig' \in [Printers -> Sig \cup {NoSig}]
          /\ sinceWrite' \in [Printers -> Nat]
      BY <1>2, ConstantsAssumption DEF Crash
    <2> QED
      BY <1>2, <2>1, DropType, SpendType, RedoneType DEF TypeOK, Crash
  <1> QED
    BY <1>1, <1>2

LEMMA RaceType ==
    ASSUME TypeOK, NEW p \in Printers, NEW K \in SUBSET {"cfg", "target"}, Race(p, K)
    PROVE  raced' \subseteq Printers \X {"cfg", "target"}
  <1>1. {<<p, k>> : k \in K} \subseteq Printers \X {"cfg", "target"}
    OBVIOUS
  <1> QED
    BY <1>1 DEF TypeOK, Race

\* The rows, and what the properties compare them with.
LEMMA TypeFacts ==
    ASSUME TypeOK
    PROVE  /\ table \in [Printers -> Row \cup {NoRow}]
           /\ snap \in [Printers -> Row \cup {NoRow}]
           /\ result \in [Printers -> Row \cup {NoRow}]
           /\ wanted \in [Printers -> [cfg : Configs, target : Targets]]
           /\ credited \in [Printers -> Nat]
  BY DEF TypeOK

LEMMA TypeSave ==
    ASSUME TypeOK, NEW p \in Printers, NEW c \in Configs, SavePrinter(p, c)
    PROVE  TypeOK'
  <1>1. budget' \in [{"save", "delete", "set", "run", "drop", "fault"} -> Nat]
    BY SpendType DEF SavePrinter
  <1>2. raced' \subseteq Printers \X {"cfg", "target"}
    BY RaceType DEF SavePrinter
  <1>3. CASE Exists(p)
    <2>1. table[p] \in Row /\ wanted[p] \in [cfg : Configs, target : Targets]
      BY <1>3 DEF TypeOK, Exists
    <2>2. /\ [table[p] EXCEPT !.cfg = c] \in Row
          /\ [wanted[p] EXCEPT !.cfg = c] \in [cfg : Configs, target : Targets]
      BY <2>1 DEF Row
    <2>3. /\ table' = [table EXCEPT ![p] = [table[p] EXCEPT !.cfg = c]]
          /\ wanted' = [wanted EXCEPT ![p] = [wanted[p] EXCEPT !.cfg = c]]
      BY <1>3 DEF SavePrinter
    <2>4. /\ table' \in [Printers -> Row \cup {NoRow}]
          /\ wanted' \in [Printers -> [cfg : Configs, target : Targets]]
      BY <2>2, <2>3, TypeFacts
    <2> QED
      BY <1>1, <1>2, <1>3, <2>4 DEF TypeOK, SavePrinter, pollVars
  <1>4. CASE ~Exists(p)
    <2>1. NewRow(c) \in Row
      BY ConstantsAssumption DEF NewRow, Row
    <2>2. [cfg |-> c, target |-> NoTarget] \in [cfg : Configs, target : Targets]
      BY ConstantsAssumption
    <2>3. /\ table' = [table EXCEPT ![p] = NewRow(c)]
          /\ wanted' = [wanted EXCEPT ![p] = [cfg |-> c, target |-> NoTarget]]
          /\ credited' = [credited EXCEPT ![p] = 0]
      BY <1>4 DEF SavePrinter
    <2>4. /\ table' \in [Printers -> Row \cup {NoRow}]
          /\ wanted' \in [Printers -> [cfg : Configs, target : Targets]]
          /\ credited' \in [Printers -> Nat]
      BY <2>1, <2>2, <2>3, TypeFacts
    <2> QED
      BY <1>1, <1>2, <2>4 DEF TypeOK, SavePrinter, pollVars
  <1> QED
    BY <1>3, <1>4

LEMMA TypeDelete ==
    ASSUME TypeOK, NEW p \in Printers, DeletePrinter(p)
    PROVE  TypeOK'
  BY SpendType DEF TypeOK, DeletePrinter, pollVars, ghostVars

LEMMA TypeTargets ==
    ASSUME TypeOK, NEW p \in Printers, NEW t \in Targets
    PROVE  /\ SendTarget(p, t) => TypeOK'
           /\ StoreTarget(p, t) => TypeOK'
           /\ LoseTarget(p, t) => TypeOK'
  <1>1. ASSUME SendTarget(p, t) PROVE TypeOK'
    <2>1. dev[p] \in Device
      BY DEF TypeOK
    <2>2. [dev[p] EXCEPT !.target = t] \in Device
      BY <2>1 DEF Device
    <2>3. dev' \in [Printers -> Device]
      BY <1>1, <2>2 DEF TypeOK, SendTarget
    <2> QED
      BY <1>1, <2>3, SpendType DEF TypeOK, SendTarget, pollVars, ghostVars
  <1>2. ASSUME StoreTarget(p, t) PROVE TypeOK'
    <2>1. CASE Exists(p)
      <3>1. table[p] \in Row /\ wanted[p] \in [cfg : Configs, target : Targets]
        BY <2>1 DEF TypeOK, Exists
      <3>2. /\ [table[p] EXCEPT !.target = t] \in Row
            /\ [wanted[p] EXCEPT !.target = t] \in [cfg : Configs, target : Targets]
        BY <3>1 DEF Row
      <3>3. /\ table' \in [Printers -> Row \cup {NoRow}]
            /\ wanted' \in [Printers -> [cfg : Configs, target : Targets]]
        <4>1. /\ table' = [table EXCEPT ![p] = [table[p] EXCEPT !.target = t]]
              /\ wanted' = [wanted EXCEPT ![p] = [wanted[p] EXCEPT !.target = t]]
          BY <1>2, <2>1 DEF StoreTarget
        <4>2. table \in [Printers -> Row \cup {NoRow}] /\ wanted \in [Printers -> [cfg : Configs, target : Targets]]
          BY DEF TypeOK
        <4>3. table' \in [Printers -> Row \cup {NoRow}]
          BY ONLY p \in Printers, <3>2, <4>1, <4>2
        <4>4. wanted' \in [Printers -> [cfg : Configs, target : Targets]]
          BY ONLY p \in Printers, <3>2, <4>1, <4>2
        <4> QED
          BY <4>3, <4>4
      <3>4. raced' \subseteq Printers \X {"cfg", "target"}
        BY <1>2, <2>1, RaceType DEF StoreTarget
      <3> QED
        BY <1>2, <3>3, <3>4 DEF TypeOK, StoreTarget, pollVars
    <2>2. CASE ~Exists(p)
      BY <1>2, <2>2 DEF TypeOK, StoreTarget, pollVars
    <2> QED
      BY <2>1, <2>2
  <1>3. ASSUME LoseTarget(p, t) PROVE TypeOK'
    BY <1>3, SpendType DEF TypeOK, LoseTarget, pollVars, ghostVars
  <1> QED
    BY <1>1, <1>2, <1>3

LEMMA TypeDevice ==
    ASSUME TypeOK, NEW p \in Printers
    PROVE  /\ (\E j \in Jobs : StartJob(p, j)) => TypeOK'
           /\ FinishJob(p) \/ GoDown(p) \/ ComeUp(p) => TypeOK'
  <1>1. dev[p] \in Device
    BY DEF TypeOK
  <1>2. ASSUME NEW j \in Jobs, StartJob(p, j) PROVE TypeOK'
    <2>1. [dev[p] EXCEPT !.job = j] \in Device
      BY <1>1 DEF Device
    <2>2. dev' \in [Printers -> Device]
      BY <1>2, <2>1 DEF TypeOK, StartJob
    <2>3. runs' \in [Printers -> [Jobs -> Nat]]
      BY <1>2, BumpType DEF TypeOK, StartJob
    <2> QED
      BY <1>2, <2>2, <2>3, SpendType DEF TypeOK, StartJob, pollVars
  <1>3. ASSUME FinishJob(p) \/ GoDown(p) \/ ComeUp(p) PROVE TypeOK'
    <2>1. /\ [dev[p] EXCEPT !.job = NoJob] \in Device
          /\ [dev[p] EXCEPT !.up = FALSE] \in Device
          /\ [dev[p] EXCEPT !.up = TRUE] \in Device
      BY <1>1 DEF Device
    <2>2. dev' \in [Printers -> Device]
      BY <1>3, <2>1 DEF TypeOK, FinishJob, GoDown, ComeUp
    <2>3. budget' \in [{"save", "delete", "set", "run", "drop", "fault"} -> Nat]
      BY <1>3, SpendType DEF TypeOK, FinishJob, GoDown, ComeUp
    <2> QED
      BY <1>3, <2>2, <2>3 DEF TypeOK, FinishJob, GoDown, ComeUp, pollVars, ghostVars
  <1> QED
    BY <1>2, <1>3

LEMMA TypeTick == TypeOK /\ Tick => TypeOK'
  <1> SUFFICES ASSUME TypeOK, Tick PROVE TypeOK'
    OBVIOUS
  <1>1. /\ table' \in [Printers -> Row \cup {NoRow}]
        /\ snap' \in [Printers -> Row \cup {NoRow}]
        /\ result' \in [Printers -> Row \cup {NoRow}]
    BY AgedRowKeeps DEF TypeOK, Tick
  <1>2. lastSig' \in [Printers -> Sig \cup {NoSig}]
    BY AgedSigType DEF TypeOK, Tick
  <1>3. /\ sinceWrite' \in [Printers -> Nat]
        /\ silent' \in [Printers -> Nat]
    BY DEF TypeOK, Tick, Older
  <1> QED
    BY <1>1, <1>2, <1>3 DEF TypeOK, Tick

LEMMA TypeNext == TypeOK /\ CycleShape /\ [Next]_vars => TypeOK'
  <1> SUFFICES ASSUME TypeOK, CycleShape, [Next]_vars PROVE TypeOK'
    OBVIOUS
  <1>1. CASE PollerStep
    <2>1. ASSUME NEW p \in Printers, Refresh(p) PROVE TypeOK'
      BY <2>1, TypeRefresh
    <2>2. ASSUME NEW p \in Printers, Accrue(p) \/ CountJob(p) \/ Persist(p) PROVE TypeOK'
      BY <2>2, TypeApply
    <2>3. ASSUME StartApply \/ EndCycle PROVE TypeOK'
      BY <2>3 DEF TypeOK, StartApply, EndCycle, ghostVars, NoRows
    <2> QED
      BY <1>1, <2>1, <2>2, <2>3, TypeStartCycle DEF PollerStep
  <1>2. CASE WebStep
    BY <1>2, TypeSave, TypeDelete, TypeTargets DEF WebStep
  <1>3. CASE PrinterStep
    BY <1>3, TypeDevice DEF PrinterStep
  <1>4. CASE Tick
    BY <1>4, TypeTick
  <1>5. CASE Failure
    BY <1>5, TypeTrouble, TypeApply DEF Failure
  <1>6. CASE UNCHANGED vars
    BY <1>6 DEF TypeOK, vars, pollVars, ghostVars
  <1> QED
    BY <1>1, <1>2, <1>3, <1>4, <1>5, <1>6 DEF Next

\* Only the poller's own steps and the clock touch what a cycle has in hand.
LEMMA HandsOff ==
    (WebStep \/ PrinterStep \/ UNCHANGED vars) => UNCHANGED pollVars
  BY DEF WebStep, PrinterStep, vars, SavePrinter, DeletePrinter, SendTarget, StoreTarget,
         LoseTarget, StartJob, FinishJob, GoDown, ComeUp

LEMMA ShapeNext == TypeOK /\ CycleShape /\ [Next]_vars => CycleShape'
  <1> SUFFICES ASSUME TypeOK, CycleShape, [Next]_vars PROVE CycleShape'
    OBVIOUS
  <1>1. CASE StartCycle
    BY <1>1 DEF CycleShape, StartCycle, NoRows
  <1>2. ASSUME NEW p \in Printers, Refresh(p) PROVE CycleShape'
    <2>1. /\ result'[p].cfg = snap[p].cfg
          /\ p \notin Echoing => result'[p].target = snap[p].target
          /\ \A q \in Printers \ {p} : result'[q] = result[q]
      BY <1>2, RefreshedRow DEF TypeOK, Refresh
    <2> QED
      BY <1>2, <2>1 DEF CycleShape, Refresh
  <1>3. CASE StartApply
    BY <1>3 DEF CycleShape, StartApply
  <1>4. CASE EndCycle
    BY <1>4 DEF CycleShape, EndCycle, NoRows
  <1>5. ASSUME NEW p \in Printers, Accrue(p) \/ CountJob(p) PROVE CycleShape'
    BY <1>5 DEF CycleShape, Accrue, CountJob
  <1>6. ASSUME NEW p \in Printers, Persist(p) PROVE CycleShape'
    BY <1>6 DEF CycleShape, Persist, ReadyToPersist
  <1>7. CASE Failure
    BY <1>7, DropType DEF Failure, DbError, Crash, LoseAck
  <1>8. CASE Tick
    <2>1. ASSUME NEW p \in Printers, result'[p] # NoRow
          PROVE  /\ snap'[p] # NoRow
                 /\ result'[p].cfg = snap'[p].cfg
                 /\ p \notin Echoing => result'[p].target = snap'[p].target
      <3>1. result[p] # NoRow /\ snap[p] # NoRow
        BY <1>8, <2>1, AgedRowKeeps, TypeFacts DEF CycleShape, Tick
      <3> QED
        BY <1>8, <3>1, AgedRowKeeps, TypeFacts DEF CycleShape, Tick
    <2>2. phase' = "idle" => snap' = NoRows /\ result' = NoRows /\ todo' = {}
      BY <1>8 DEF CycleShape, Tick, NoRows, AgedRow
    <2>3. phase' = "apply" => \A p \in todo' : result'[p] # NoRow
      BY <1>8, AgedRowKeeps DEF TypeOK, CycleShape, Tick
    <2> QED
      BY <2>1, <2>2, <2>3 DEF CycleShape
  <1>9. CASE WebStep \/ PrinterStep \/ UNCHANGED vars
    BY <1>9, HandsOff DEF CycleShape, pollVars
  <1> QED
    BY <1>1, <1>2, <1>3, <1>4, <1>5, <1>6, <1>7, <1>8, <1>9 DEF Next, PollerStep

Inductive == TypeOK /\ CycleShape

LEMMA InductiveHolds == Spec => []Inductive
  <1>1. Init => Inductive
    BY TypeInit, ShapeInit DEF Inductive
  <1>2. Inductive /\ [Next]_vars => Inductive'
    BY TypeNext, ShapeNext DEF Inductive
  <1> QED
    BY <1>1, <1>2, PTL DEF Spec

\* Every row the poller writes is a whole row of the table's columns, however
\* cycles, web handlers, printers and failures interleave.
THEOREM TypeCorrect == Spec => []TypeOK
  <1>1. Inductive => TypeOK
    BY DEF Inductive
  <1> QED
    BY <1>1, InductiveHolds, PTL

-----------------------------------------------------------------------------
(* Edits, targets and print hours.                                         *)

\* As long as a column is not marked raced, what the cycle has in hand of it is
\* what was last stored, so that writing it back changes nothing.
EditsInv ==
    /\ EditLostOnlyInFlight
    /\ \A p \in Printers :
         Pending(p) /\ <<p, "cfg">> \notin raced => snap[p].cfg = wanted[p].cfg

TargetsInv ==
    /\ TargetLostOnlyInFlight
    /\ \A p \in Printers \ Echoing :
         Pending(p) /\ <<p, "target">> \notin raced => snap[p].target = wanted[p].target

LEMMA CarriedInit == Init => EditsInv /\ TargetsInv /\ HoursSurviveUpsert
  <1> SUFFICES ASSUME Init PROVE EditsInv /\ TargetsInv /\ HoursSurviveUpsert
    OBVIOUS
  <1>1. PICK c \in Configs, s \in Scenarios :
           /\ table = [p \in Printers |-> IF p \in s.fleet THEN NewRow(c) ELSE NoRow]
           /\ wanted = [p \in Printers |-> [cfg |-> c, target |-> NoTarget]]
    BY DEF Init
  <1>2. /\ NewRow(c).cfg = c /\ NewRow(c).target = NoTarget /\ NewRow(c).hours = 0
        /\ \A p \in Printers : ~Pending(p) /\ credited[p] = 0
    BY DEF Init, NewRow, Pending
  <1> QED
    BY <1>1, <1>2
       DEF EditsInv, TargetsInv, EditLostOnlyInFlight, TargetLostOnlyInFlight,
           HoursSurviveUpsert, Exists

\* What every step of the poller does to the columns: a row is left alone,
\* written back from the snapshot, credited with hours, or only grows older.
RowStep(p) ==
    \/ table'[p] = table[p] /\ credited'[p] = credited[p]
    \/ /\ Exists(p)
       /\ table'[p] = [table[p] EXCEPT !.hours = @ + 1]
       /\ credited'[p] = credited[p] + 1
    \/ /\ Pending(p) /\ ~Pending(p)'
       /\ table'[p].cfg = snap[p].cfg
       /\ p \notin Echoing => table'[p].target = snap[p].target
       /\ table'[p].hours = IF Exists(p) THEN table[p].hours ELSE 0
       /\ credited'[p] = IF Exists(p) THEN credited[p] ELSE 0
    \/ table'[p] = AgedRow(table[p]) /\ credited'[p] = credited[p]

\* And what it does to the snapshot: a cycle reads the table, keeps what it
\* read, or lets go of it.
SnapStep(p) ==
    \/ snap'[p] = table[p] /\ table'[p] = table[p]
    \/ Pending(p)' => Pending(p) /\ snap'[p] \in {snap[p], AgedRow(snap[p])}

LEMMA RowWritten ==
    ASSUME Inductive, NEW p \in Printers, ReadyToPersist(p),
           table' = Upserted(p), credited' = CreditedAfterUpsert(p),
           p \notin todo' \/ phase' # "apply", phase' # "refresh"
    PROVE  \A q \in Printers : RowStep(q)
  <1>1. Pending(p) /\ ~Pending(p)' /\ result[p] # NoRow
    BY DEF Pending, ReadyToPersist, Inductive, CycleShape
  <1>2. /\ table'[p].cfg = result[p].cfg
        /\ table'[p].target = result[p].target
        /\ table'[p].hours = IF Exists(p) THEN table[p].hours ELSE 0
        /\ \A q \in Printers \ {p} : table'[q] = table[q]
    BY <1>1, UpsertedRow DEF Inductive
  <1>3. /\ credited'[p] = IF Exists(p) THEN credited[p] ELSE 0
        /\ \A q \in Printers \ {p} : credited'[q] = credited[q]
    BY TypeFacts DEF CreditedAfterUpsert, Inductive
  <1>4. RowStep(p)
    BY <1>1, <1>2, <1>3 DEF RowStep, Inductive, CycleShape
  <1> QED
    BY <1>2, <1>3, <1>4 DEF RowStep

LEMMA PollerMoves ==
    ASSUME Inductive, PollerStep \/ Failure \/ Tick, NEW q \in Printers
    PROVE  RowStep(q) /\ SnapStep(q)
  <1>1. CASE StartCycle
    BY <1>1 DEF StartCycle, ghostVars, RowStep, SnapStep
  <1>2. CASE StartApply
    BY <1>2 DEF StartApply, ghostVars, RowStep, SnapStep, Pending, Inductive, TypeOK
  <1>3. CASE EndCycle
    BY <1>3 DEF EndCycle, ghostVars, RowStep, SnapStep, Pending
  <1>4. ASSUME NEW p \in Printers, Refresh(p) \/ CountJob(p)
        PROVE RowStep(q) /\ SnapStep(q)
    BY <1>4 DEF Refresh, CountJob, RowStep, SnapStep, Pending
  <1>5. ASSUME NEW p \in Printers, Accrue(p) PROVE RowStep(q) /\ SnapStep(q)
    <2>1. SnapStep(q)
      BY <1>5 DEF Accrue, SnapStep, Pending
    <2>2. CASE ~Exists(p)
      BY <1>5, <2>1, <2>2 DEF Accrue, RowStep
    <2>3. CASE Exists(p)
      BY <1>5, <2>1, <2>3, TypeFacts DEF Accrue, RowStep, Inductive
    <2> QED
      BY <2>2, <2>3
  <1>6. ASSUME NEW p \in Printers, Persist(p) PROVE RowStep(q) /\ SnapStep(q)
    <2>1. SnapStep(q)
      BY <1>6 DEF Persist, SnapStep, Pending
    <2>2. CASE ShouldPersist(p)
      BY <1>6, <2>1, <2>2, RowWritten DEF Persist, ReadyToPersist
    <2>3. CASE ~ShouldPersist(p)
      BY <1>6, <2>1, <2>3 DEF Persist, RowStep
    <2> QED
      BY <2>2, <2>3
  <1>7. ASSUME NEW p \in Printers, LoseAck(p) PROVE RowStep(q) /\ SnapStep(q)
    BY <1>7, RowWritten DEF LoseAck, DropCycle, SnapStep, Pending
  <1>8. CASE DbError \/ Crash
    BY <1>8 DEF DbError, Crash, DropCycle, RowStep, SnapStep, Pending
  <1>9. CASE Tick
    BY <1>9, AgedRowKeeps, TypeFacts DEF Tick, RowStep, SnapStep, Pending, Inductive
  <1> QED
    BY <1>1, <1>2, <1>3, <1>4, <1>5, <1>6, <1>7, <1>8, <1>9 DEF PollerStep, Failure

\* The poller's steps preserve the three invariants: what they write of a
\* column is what the snapshot held of it.
LEMMA PollerCarries ==
    ASSUME Inductive, EditsInv, TargetsInv, HoursSurviveUpsert,
           PollerStep \/ Failure \/ Tick
    PROVE  EditsInv' /\ TargetsInv' /\ HoursSurviveUpsert'
  <1>1. UNCHANGED <<wanted, raced>>
    BY DEF PollerStep, Failure, StartCycle, StartApply, EndCycle, Refresh, Accrue, CountJob,
           Persist, DbError, Crash, LoseAck, Tick, ghostVars
  <1>2. ASSUME NEW p \in Printers
        PROVE  /\ Exists(p)' /\ <<p, "cfg">> \notin raced => table'[p].cfg = wanted[p].cfg
               /\ p \notin Echoing /\ Exists(p)' /\ <<p, "target">> \notin raced
                    => table'[p].target = wanted[p].target
               /\ Exists(p)' => table'[p].hours = credited'[p]
    <2>1. table[p] \in Row \cup {NoRow} /\ credited[p] \in Nat
      BY DEF Inductive, TypeOK
    <2>2. CASE table'[p] = table[p] /\ credited'[p] = credited[p]
      BY <2>2 DEF Exists, EditsInv, TargetsInv, EditLostOnlyInFlight,
                  TargetLostOnlyInFlight, HoursSurviveUpsert
    <2>3. CASE /\ Exists(p)
               /\ table'[p] = [table[p] EXCEPT !.hours = @ + 1]
               /\ credited'[p] = credited[p] + 1
      <3>1. /\ table'[p].cfg = table[p].cfg /\ table'[p].target = table[p].target
            /\ table'[p].hours = table[p].hours + 1
        BY <2>1, <2>3 DEF Row, Exists
      <3> QED
        BY <2>3, <3>1 DEF Exists, EditsInv, TargetsInv, EditLostOnlyInFlight,
                          TargetLostOnlyInFlight, HoursSurviveUpsert
    <2>4. CASE /\ Pending(p) /\ ~Pending(p)'
               /\ table'[p].cfg = snap[p].cfg
               /\ p \notin Echoing => table'[p].target = snap[p].target
               /\ table'[p].hours = IF Exists(p) THEN table[p].hours ELSE 0
               /\ credited'[p] = IF Exists(p) THEN credited[p] ELSE 0
      BY <2>4 DEF EditsInv, TargetsInv, HoursSurviveUpsert
    <2>5. CASE table'[p] = AgedRow(table[p]) /\ credited'[p] = credited[p]
      BY <2>1, <2>5, AgedRowKeeps DEF Exists, EditsInv, TargetsInv, EditLostOnlyInFlight,
                                      TargetLostOnlyInFlight, HoursSurviveUpsert
    <2> QED
      BY <2>2, <2>3, <2>4, <2>5, PollerMoves DEF RowStep
  <1>3. ASSUME NEW p \in Printers, Pending(p)'
        PROVE  /\ <<p, "cfg">> \notin raced => snap'[p].cfg = wanted[p].cfg
               /\ p \notin Echoing /\ <<p, "target">> \notin raced
                    => snap'[p].target = wanted[p].target
    <2>1. CASE snap'[p] = table[p] /\ table'[p] = table[p]
      <3>1. snap'[p] # NoRow
        <4>1. Inductive'
          BY TypeNext, ShapeNext DEF Inductive, Next
        <4> QED
          BY <1>3, <4>1 DEF Pending, Inductive, CycleShape, TypeOK
      <3> QED
        BY <2>1, <3>1 DEF Exists, EditsInv, TargetsInv, EditLostOnlyInFlight,
                          TargetLostOnlyInFlight
    <2>2. CASE Pending(p) /\ snap'[p] \in {snap[p], AgedRow(snap[p])}
      <3>1. snap[p] \in Row \cup {NoRow} /\ snap[p] # NoRow
        BY <2>2 DEF Inductive, TypeOK, CycleShape, Pending
      <3>2. snap'[p].cfg = snap[p].cfg /\ snap'[p].target = snap[p].target
        BY <2>2, <3>1, AgedRowKeeps
      <3> QED
        BY <2>2, <3>2 DEF EditsInv, TargetsInv
    <2> QED
      BY <1>3, <2>1, <2>2, PollerMoves DEF SnapStep
  <1> QED
    BY <1>1, <1>2, <1>3 DEF EditsInv, TargetsInv, EditLostOnlyInFlight,
                            TargetLostOnlyInFlight, HoursSurviveUpsert

\* Race marks p's columns while p is pending, clears them otherwise, and
\* leaves every other mark alone.
LEMMA RaceMarks ==
    ASSUME Inductive, NEW p \in Printers, NEW K \in SUBSET {"cfg", "target"}, Race(p, K)
    PROVE  /\ \A q \in Printers \ {p}, k \in {"cfg", "target"} :
                <<q, k>> \in raced' <=> <<q, k>> \in raced
           /\ \A k \in {"cfg", "target"} \ K : <<p, k>> \in raced' <=> <<p, k>> \in raced
           /\ \A k \in K : <<p, k>> \in raced' <=> Pending(p)
  BY DEF Race

\* So do the web server's: what they store is what is wanted, and they mark
\* the column whenever a cycle still holds the old row.
LEMMA WebCarries ==
    ASSUME Inductive, EditsInv, TargetsInv, HoursSurviveUpsert,
           WebStep \/ PrinterStep \/ UNCHANGED vars
    PROVE  EditsInv' /\ TargetsInv' /\ HoursSurviveUpsert'
  <1>1. /\ UNCHANGED snap
        /\ \A q \in Printers : Pending(q)' <=> Pending(q)
    BY HandsOff DEF Pending, pollVars
  <1>2. ASSUME NEW p \in Printers, NEW c \in Configs, SavePrinter(p, c)
        PROVE  EditsInv' /\ TargetsInv' /\ HoursSurviveUpsert'
    <2>1. CASE Exists(p)
      <3>1. table[p] \in Row /\ wanted[p] \in [cfg : Configs, target : Targets]
        BY <2>1 DEF Inductive, TypeOK, Exists
      <3>2. /\ table'[p].cfg = c /\ wanted'[p].cfg = c
            /\ table'[p].target = table[p].target /\ wanted'[p].target = wanted[p].target
            /\ table'[p].hours = table[p].hours
            /\ \A q \in Printers \ {p} : table'[q] = table[q] /\ wanted'[q] = wanted[q]
            /\ credited' = credited
        BY <1>2, <2>1, <3>1, TypeFacts DEF SavePrinter, Inductive, Row
      <3>3. Race(p, {"cfg"})
        BY <1>2, <2>1 DEF SavePrinter
      <3>4. /\ \A q \in Printers \ {p}, k \in {"cfg", "target"} :
                 <<q, k>> \in raced' <=> <<q, k>> \in raced
            /\ <<p, "target">> \in raced' <=> <<p, "target">> \in raced
            /\ <<p, "cfg">> \in raced' <=> Pending(p)
        BY <3>3, RaceMarks
      <3> QED
        BY <1>1, <2>1, <3>2, <3>4
           DEF EditsInv, TargetsInv, EditLostOnlyInFlight, TargetLostOnlyInFlight,
               HoursSurviveUpsert, Exists
    <2>2. CASE ~Exists(p)
      <3>1. /\ table'[p].cfg = c /\ wanted'[p].cfg = c
            /\ table'[p].target = NoTarget /\ wanted'[p].target = NoTarget
            /\ table'[p].hours = 0 /\ credited'[p] = 0
            /\ \A q \in Printers \ {p} : /\ table'[q] = table[q] /\ wanted'[q] = wanted[q]
                                         /\ credited'[q] = credited[q]
        BY <1>2, <2>2, TypeFacts DEF SavePrinter, Inductive, NewRow
      <3>2. Race(p, {"cfg", "target"})
        BY <1>2, <2>2 DEF SavePrinter
      <3>3. /\ \A q \in Printers \ {p}, k \in {"cfg", "target"} :
                 <<q, k>> \in raced' <=> <<q, k>> \in raced
            /\ \A k \in {"cfg", "target"} : <<p, k>> \in raced' <=> Pending(p)
        BY <3>2, RaceMarks
      <3> QED
        BY <1>1, <3>1, <3>3
           DEF EditsInv, TargetsInv, EditLostOnlyInFlight, TargetLostOnlyInFlight,
               HoursSurviveUpsert, Exists
    <2> QED
      BY <2>1, <2>2
  <1>3. ASSUME NEW p \in Printers, DeletePrinter(p)
        PROVE  EditsInv' /\ TargetsInv' /\ HoursSurviveUpsert'
    BY <1>1, <1>3, TypeFacts
       DEF DeletePrinter, ghostVars, Inductive, EditsInv, TargetsInv, EditLostOnlyInFlight,
           TargetLostOnlyInFlight, HoursSurviveUpsert, Exists
  <1>4. ASSUME NEW p \in Printers, NEW t \in Targets, StoreTarget(p, t), Exists(p)
        PROVE  EditsInv' /\ TargetsInv' /\ HoursSurviveUpsert'
    <2>1. table[p] \in Row /\ wanted[p] \in [cfg : Configs, target : Targets]
      BY <1>4 DEF Inductive, TypeOK, Exists
    <2>2. /\ table'[p].target = t /\ wanted'[p].target = t
          /\ table'[p].cfg = table[p].cfg /\ wanted'[p].cfg = wanted[p].cfg
          /\ table'[p].hours = table[p].hours
          /\ \A q \in Printers \ {p} : table'[q] = table[q] /\ wanted'[q] = wanted[q]
          /\ credited' = credited
      BY <1>4, <2>1, TypeFacts DEF StoreTarget, Inductive, Row
    <2>3. Race(p, {"target"})
      BY <1>4 DEF StoreTarget
    <2>4. /\ \A q \in Printers \ {p}, k \in {"cfg", "target"} :
               <<q, k>> \in raced' <=> <<q, k>> \in raced
          /\ <<p, "cfg">> \in raced' <=> <<p, "cfg">> \in raced
          /\ <<p, "target">> \in raced' <=> Pending(p)
      BY <2>3, RaceMarks
    <2> QED
      BY <1>1, <1>4, <2>2, <2>4
         DEF EditsInv, TargetsInv, EditLostOnlyInFlight, TargetLostOnlyInFlight,
             HoursSurviveUpsert, Exists
  <1>5. CASE UNCHANGED <<table, wanted, raced, credited>>
    BY <1>1, <1>5
       DEF EditsInv, TargetsInv, EditLostOnlyInFlight, TargetLostOnlyInFlight,
           HoursSurviveUpsert, Exists
  <1>6. ASSUME NEW p \in Printers, NEW t \in Targets,
               (StoreTarget(p, t) /\ ~Exists(p)) \/ SendTarget(p, t) \/ LoseTarget(p, t)
        PROVE  UNCHANGED <<table, wanted, raced, credited>>
    BY <1>6 DEF StoreTarget, SendTarget, LoseTarget, ghostVars
  <1>7. ASSUME PrinterStep \/ UNCHANGED vars
        PROVE  UNCHANGED <<table, wanted, raced, credited>>
    BY <1>7 DEF PrinterStep, vars, StartJob, FinishJob, GoDown, ComeUp, ghostVars
  <1> QED
    BY <1>2, <1>3, <1>4, <1>5, <1>6, <1>7 DEF WebStep

LEMMA CarriedHolds == Spec => [](EditsInv /\ TargetsInv /\ HoursSurviveUpsert)
  <1> DEFINE I == EditsInv /\ TargetsInv /\ HoursSurviveUpsert
  <1>1. Init => I
    BY CarriedInit
  <1>2. Inductive /\ I /\ [Next]_vars => I'
    BY PollerCarries, WebCarries DEF Next
  <1> HIDE DEF I
  <1>3. Spec => []I
    BY <1>1, <1>2, InductiveHolds, PTL DEF Spec
  <1> QED
    BY <1>3 DEF I

\* A configuration edit is lost only to a cycle that read the row before it:
\* for any number of printers, cycles, edits, deletions and failures.
THEOREM EditsSafe == Spec => []EditLostOnlyInFlight
  <1>1. EditsInv => EditLostOnlyInFlight
    BY DEF EditsInv
  <1> QED
    BY <1>1, CarriedHolds, PTL

\* So is the stored target of a printer that does not report one.
THEOREM TargetsSafe == Spec => []TargetLostOnlyInFlight
  <1>1. TargetsInv => TargetLostOnlyInFlight
    BY DEF TargetsInv
  <1> QED
    BY <1>1, CarriedHolds, PTL

\* No whole-row write, retry or crash loses or repeats credited print hours.
THEOREM HoursSafe == Spec => []HoursSurviveUpsert
  BY CarriedHolds, PTL

-----------------------------------------------------------------------------
(* Jobs.                                                                   *)

\* While a cycle still has p to write, no one else can have put another job in
\* its row: the row names the job of the snapshot, or none.
JobsInv ==
    \A p \in Printers :
        Pending(p) /\ Exists(p) /\ table[p].job # NoJob => table[p].job = snap[p].job

LEMMA JobsInit == Init => JobsInv
  BY DEF Init, JobsInv, Pending

\* A row that is not written back keeps its job, or is new and has none.
JobKept(p) ==
    Exists(p)' => table'[p].job = IF Exists(p) THEN table[p].job ELSE NoJob

LEMMA WebKeepsJobs ==
    ASSUME Inductive, WebStep \/ PrinterStep \/ UNCHANGED vars, NEW q \in Printers
    PROVE  JobKept(q)
  <1>1. ASSUME NEW p \in Printers, NEW c \in Configs, SavePrinter(p, c) PROVE JobKept(q)
    <2>1. CASE Exists(p)
      <3>1. table[p] \in Row
        BY <2>1 DEF Inductive, TypeOK, Exists
      <3>2. /\ table'[p].job = table[p].job
            /\ \A r \in Printers \ {p} : table'[r] = table[r]
        BY <1>1, <2>1, <3>1, TypeFacts DEF SavePrinter, Inductive, Row
      <3> QED
        BY <2>1, <3>2 DEF JobKept, Exists
    <2>2. CASE ~Exists(p)
      <3>1. /\ table'[p].job = NoJob
            /\ \A r \in Printers \ {p} : table'[r] = table[r]
        BY <1>1, <2>2, TypeFacts DEF SavePrinter, Inductive, NewRow
      <3> QED
        BY <2>2, <3>1 DEF JobKept, Exists
    <2> QED
      BY <2>1, <2>2
  <1>2. ASSUME NEW p \in Printers, DeletePrinter(p) PROVE JobKept(q)
    BY <1>2, TypeFacts DEF DeletePrinter, JobKept, Exists, Inductive
  <1>3. ASSUME NEW p \in Printers, NEW t \in Targets, StoreTarget(p, t), Exists(p)
        PROVE  JobKept(q)
    <2>1. table[p] \in Row
      BY <1>3 DEF Inductive, TypeOK, Exists
    <2>2. /\ table'[p].job = table[p].job
          /\ \A r \in Printers \ {p} : table'[r] = table[r]
      BY <1>3, <2>1, TypeFacts DEF StoreTarget, Inductive, Row
    <2> QED
      BY <1>3, <2>2 DEF JobKept, Exists
  <1>4. CASE UNCHANGED table
    BY <1>4 DEF JobKept, Exists
  <1>5. ASSUME NEW p \in Printers, NEW t \in Targets,
               (StoreTarget(p, t) /\ ~Exists(p)) \/ SendTarget(p, t) \/ LoseTarget(p, t)
        PROVE  UNCHANGED table
    BY <1>5 DEF StoreTarget, SendTarget, LoseTarget
  <1>6. ASSUME PrinterStep \/ UNCHANGED vars PROVE UNCHANGED table
    BY <1>6 DEF PrinterStep, vars, StartJob, FinishJob, GoDown, ComeUp
  <1> QED
    BY <1>1, <1>2, <1>3, <1>4, <1>5, <1>6 DEF WebStep

LEMMA PollerKeepsJobs ==
    ASSUME Inductive, PollerStep \/ Failure \/ Tick, NEW q \in Printers,
           ~(Pending(q) /\ ReadyToPersist(q) /\ table' = Upserted(q) /\ ~Pending(q)')
    PROVE  JobKept(q)
  <1>1. ASSUME NEW p \in Printers, Accrue(p) PROVE JobKept(q)
    <2>1. CASE Exists(p)
      <3>1. table[p] \in Row
        BY <2>1 DEF Inductive, TypeOK, Exists
      <3>2. /\ table'[p].job = table[p].job
            /\ \A r \in Printers \ {p} : table'[r] = table[r]
        BY <1>1, <2>1, <3>1, TypeFacts DEF Accrue, Inductive, Row
      <3> QED
        BY <2>1, <3>2 DEF JobKept, Exists
    <2>2. CASE ~Exists(p)
      BY <1>1, <2>2 DEF Accrue, JobKept, Exists
    <2> QED
      BY <2>1, <2>2
  <1>2. ASSUME NEW p \in Printers, ReadyToPersist(p), table' = Upserted(p),
               p \notin todo' \/ phase' # "apply", phase' # "refresh"
        PROVE  JobKept(q)
    <2>1. Pending(p) /\ ~Pending(p)' /\ result[p] # NoRow
      BY <1>2 DEF Pending, ReadyToPersist, Inductive, CycleShape
    <2>2. q # p /\ table'[q] = table[q]
      BY <1>2, <2>1, UpsertedRow DEF Inductive
    <2> QED
      BY <2>2 DEF JobKept, Exists
  <1>3. ASSUME NEW p \in Printers, Persist(p) \/ LoseAck(p) PROVE JobKept(q)
    <2>1. CASE LoseAck(p) \/ ShouldPersist(p)
      BY <1>2, <1>3, <2>1 DEF Persist, LoseAck, DropCycle, ReadyToPersist
    <2>2. CASE Persist(p) /\ ~ShouldPersist(p)
      BY <2>2 DEF Persist, JobKept, Exists
    <2> QED
      BY <1>3, <2>1, <2>2
  <1>4. CASE Tick
    <2>1. table[q] \in Row \cup {NoRow}
      BY DEF Inductive, TypeOK
    <2>2. table'[q] = AgedRow(table[q])
      BY <1>4 DEF Tick
    <2> QED
      BY <2>1, <2>2, AgedRowKeeps DEF JobKept, Exists
  <1>5. CASE UNCHANGED table
    BY <1>5 DEF JobKept, Exists
  <1>6. ASSUME NEW p \in Printers, Refresh(p) \/ CountJob(p) PROVE UNCHANGED table
    BY <1>6 DEF Refresh, CountJob
  <1>7. ASSUME StartCycle \/ StartApply \/ EndCycle \/ DbError \/ Crash
        PROVE  UNCHANGED table
    BY <1>7 DEF StartCycle, StartApply, EndCycle, DbError, Crash
  <1> QED
    BY <1>1, <1>3, <1>4, <1>5, <1>6, <1>7 DEF PollerStep, Failure

LEMMA JobsNext == Inductive /\ JobsInv /\ [Next]_vars => JobsInv'
  <1> SUFFICES ASSUME Inductive, JobsInv, [Next]_vars, NEW p \in Printers,
                      Pending(p)', Exists(p)', table'[p].job # NoJob
               PROVE  table'[p].job = snap'[p].job
    BY DEF JobsInv
  <1>1. JobKept(p)
    BY WebKeepsJobs, PollerKeepsJobs DEF Next
  <1>2. Exists(p) /\ table[p].job # NoJob /\ table'[p].job = table[p].job
    BY <1>1 DEF JobKept
  <1>3. CASE PollerStep \/ Failure \/ Tick
    <2>1. CASE snap'[p] = table[p]
      BY <1>2, <2>1
    <2>2. CASE Pending(p) /\ snap'[p] \in {snap[p], AgedRow(snap[p])}
      <3>1. snap[p] \in Row \cup {NoRow} /\ snap[p] # NoRow
        BY <2>2 DEF Inductive, TypeOK, CycleShape, Pending
      <3>2. snap'[p].job = snap[p].job
        BY <2>2, <3>1, AgedRowKeeps
      <3> QED
        BY <1>2, <2>2, <3>2 DEF JobsInv
    <2> QED
      BY <1>3, <2>1, <2>2, PollerMoves DEF SnapStep
  <1>4. CASE WebStep \/ PrinterStep \/ UNCHANGED vars
    BY <1>2, <1>4, HandsOff DEF JobsInv, Pending, pollVars
  <1> QED
    BY <1>3, <1>4 DEF Next

\* Whatever cycle writes a row, a job leaves it counted or with the printer
\* given up as offline; no edit, target, deletion or failure makes it vanish.
THEOREM JobsCounted == Spec => NoJobVanishesUncounted
  <1>1. ASSUME Inductive, JobsInv, [Next]_vars, NEW p \in Printers,
               Exists(p), table'[p] # NoRow,
               table[p].job # NoJob, table'[p].job # table[p].job
        PROVE  \/ table'[p].status = "offline"
               \/ cur = p /\ stage = "counted" /\ snap[p].job = table[p].job
    <2>1. CASE Pending(p) /\ ReadyToPersist(p) /\ table' = Upserted(p) /\ ~Pending(p)'
      <3>1. result[p] # NoRow /\ snap[p].job = table[p].job
        BY <1>1, <2>1 DEF JobsInv, Inductive, CycleShape, ReadyToPersist
      <3>2. table'[p].job = result[p].job /\ table'[p].status = result[p].status
        <4>1. Upserted(p)[p].job = result[p].job /\ Upserted(p)[p].status = result[p].status
          BY <1>1, <3>1, UpsertedRow DEF Inductive
        <4> QED
          BY <2>1, <4>1
      <3> QED
        BY <1>1, <2>1, <3>1, <3>2 DEF ReadyToPersist, JobEnded
    <2>2. CASE JobKept(p)
      BY <1>1, <2>2 DEF JobKept, Exists
    <2> QED
      BY <1>1, <2>1, <2>2, WebKeepsJobs, PollerKeepsJobs DEF Next
  <1>2. Inductive /\ JobsInv /\ [Next]_vars =>
           [\A p \in Printers :
              /\ Exists(p) /\ table'[p] # NoRow
              /\ table[p].job # NoJob /\ table'[p].job # table[p].job
              => \/ table'[p].status = "offline"
                 \/ cur = p /\ stage = "counted" /\ snap[p].job = table[p].job]_vars
    BY <1>1
  <1>3. Spec => []JobsInv
    BY JobsInit, JobsNext, InductiveHolds, PTL DEF Spec
  <1> QED
    BY <1>2, <1>3, InductiveHolds, PTL DEF Spec, NoJobVanishesUncounted

-----------------------------------------------------------------------------
(* Each print counted once.                                                *)

\* The printer whose ended job is being finalised is still to be written, and
\* what the cycle holds of it says that the job ended.
Turn ==
    /\ cur # NoPrinter => phase = "apply" /\ cur \in todo /\ JobEnded(cur)
    /\ stage # "none" <=> cur # NoPrinter

LEMMA TurnInit == Init => Turn
  BY DEF Init, Turn

\* Growing older changes nothing of what a cycle holds of a job.
LEMMA TickKeepsJobs ==
    ASSUME Inductive, Tick, NEW p \in Printers
    PROVE  /\ Pending(p)' <=> Pending(p)
           /\ (snap'[p] = NoRow) <=> (snap[p] = NoRow)
           /\ (result'[p] = NoRow) <=> (result[p] = NoRow)
           /\ (table'[p] = NoRow) <=> (table[p] = NoRow)
           /\ snap[p] # NoRow => snap'[p].job = snap[p].job
           /\ table[p] # NoRow => table'[p].job = table[p].job
           /\ result[p] # NoRow => /\ result'[p].job = result[p].job
                                   /\ result'[p].status = result[p].status
           /\ result[p] # NoRow => (JobEnded(p)' <=> JobEnded(p))
  <1>1. /\ table[p] \in Row \cup {NoRow} /\ table'[p] = AgedRow(table[p])
        /\ snap[p] \in Row \cup {NoRow} /\ snap'[p] = AgedRow(snap[p])
        /\ result[p] \in Row \cup {NoRow} /\ result'[p] = AgedRow(result[p])
    BY DEF Inductive, TypeOK, Tick
  <1>2. /\ (snap'[p] = NoRow) <=> (snap[p] = NoRow)
        /\ snap[p] # NoRow => snap'[p].job = snap[p].job
    BY <1>1, AgedRowKeeps
  <1>3. /\ (result'[p] = NoRow) <=> (result[p] = NoRow)
        /\ result[p] # NoRow => /\ result'[p].job = result[p].job
                                /\ result'[p].status = result[p].status
    BY <1>1, AgedRowKeeps
  <1>4. /\ (table'[p] = NoRow) <=> (table[p] = NoRow)
        /\ table[p] # NoRow => table'[p].job = table[p].job
    BY <1>1, AgedRowKeeps
  <1>5. Pending(p)' <=> Pending(p)
    BY <1>2 DEF Pending, Tick
  <1>6. result[p] # NoRow => snap[p] # NoRow
    BY DEF Inductive, CycleShape
  <1>7. result[p] # NoRow => (JobEnded(p)' <=> JobEnded(p))
    BY <1>2, <1>3, <1>6 DEF JobEnded
  <1> QED
    BY <1>2, <1>3, <1>4, <1>5, <1>7

LEMMA TurnNext == Inductive /\ Turn /\ [Next]_vars => Turn'
  <1> SUFFICES ASSUME Inductive, Turn, [Next]_vars PROVE Turn'
    OBVIOUS
  <1>0. NoPrinter \notin Printers /\ cur \in Printers \cup {NoPrinter}
    BY ConstantsAssumption DEF Inductive, TypeOK
  <1>1. CASE StartCycle \/ StartApply
    BY <1>1 DEF StartCycle, StartApply, Turn
  <1>2. CASE EndCycle
    BY <1>2 DEF EndCycle, Turn
  <1>3. ASSUME NEW p \in Printers, Refresh(p) PROVE Turn'
    BY <1>3 DEF Refresh, Turn
  <1>4. ASSUME NEW p \in Printers, Accrue(p) PROVE Turn'
    BY <1>0, <1>4 DEF Accrue, Turn, JobEnded
  <1>5. ASSUME NEW p \in Printers, CountJob(p) PROVE Turn'
    BY <1>0, <1>5 DEF CountJob, Turn, JobEnded
  <1>6. ASSUME NEW p \in Printers, Persist(p) PROVE Turn'
    BY <1>6 DEF Persist, Turn
  <1>7. CASE Failure
    BY <1>7 DEF Failure, DbError, Crash, LoseAck, DropCycle, Turn
  <1>8. CASE Tick
    <2>1. CASE cur = NoPrinter
      BY <1>8, <2>1 DEF Tick, Turn
    <2>2. CASE cur # NoPrinter
      <3>1. cur \in Printers /\ result[cur] # NoRow
        BY <1>0, <2>2 DEF Turn, Inductive, CycleShape
      <3>2. PICK c \in Printers : c = cur
        BY <3>1
      <3>3. cur' = c /\ (JobEnded(c)' <=> JobEnded(c))
        BY <1>8, <3>1, <3>2, TickKeepsJobs DEF Tick
      <3>4. JobEnded(cur)'
        BY <2>2, <3>2, <3>3 DEF Turn, JobEnded
      <3> QED
        BY <1>8, <3>4 DEF Tick, Turn
    <2> QED
      BY <2>1, <2>2
  <1>9. CASE WebStep \/ PrinterStep \/ UNCHANGED vars
    BY <1>9, HandsOff DEF Turn, pollVars, JobEnded
  <1> QED
    BY <1>1, <1>2, <1>3, <1>4, <1>5, <1>6, <1>7, <1>8, <1>9 DEF Next, PollerStep

\* The cycle holds a refreshed row of p.
Hand(p) == Pending(p) /\ result[p] # NoRow

\* The cycle has seen p's job j end.
Ending(p, j) == Hand(p) /\ snap[p].job = j /\ JobEnded(p)

\* Something still names job j of p: the printer, its row, or what a cycle
\* holds of the row.
Named(p, j) ==
    \/ dev[p].job = j
    \/ Exists(p) /\ table[p].job = j
    \/ Pending(p) /\ snap[p].job = j
    \/ Hand(p) /\ result[p].job = j

\* How often job j of p may still be counted without another print: once while
\* something names it; and when a cycle is about to count it, once by that
\* cycle and once more if the printer has meanwhile begun to print it again.
Owed(p, j) ==
    IF Ending(p, j)
    THEN (IF cur = p /\ stage = "counted" THEN 0 ELSE 1) + (IF dev[p].job = j THEN 1 ELSE 0)
    ELSE IF Named(p, j) THEN 1 ELSE 0

\* What was counted and what may still be is covered by prints and repeats.
OwedAt(p, j) == counted[p][j] + Owed(p, j) <= runs[p][j] + redo[p][j]

OwedInv == \A p \in Printers, j \in Jobs : OwedAt(p, j)

LEMMA OwedInit == Init => OwedInv
  <1> SUFFICES ASSUME Init, NEW p \in Printers, NEW j \in Jobs PROVE OwedAt(p, j)
    BY DEF OwedInv
  <1>1. j # NoJob
    BY ConstantsAssumption
  <1>2. dev[p].job = NoJob /\ (Exists(p) => table[p].job = NoJob) /\ ~Pending(p)
    BY DEF Init, NewRow, Exists, Pending
  <1>3. ~Ending(p, j) /\ ~Named(p, j)
    BY <1>1, <1>2 DEF Ending, Named, Hand
  <1>4. counted[p][j] = 0 /\ runs[p][j] = 0 /\ redo[p][j] = 0
    BY DEF Init
  <1> QED
    BY <1>3, <1>4 DEF OwedAt, Owed

LEMMA CountTypes ==
    ASSUME Inductive, NEW p \in Printers, NEW j \in Jobs
    PROVE  /\ counted[p][j] \in Nat /\ runs[p][j] \in Nat /\ redo[p][j] \in Nat
           /\ Owed(p, j) \in 0..2
           /\ Owed(p, j)' \in 0..2
  BY DEF Inductive, TypeOK, Owed

\* One more in one place of a table of counts.
LEMMA BumpAt ==
    ASSUME NEW f \in [Printers -> [Jobs -> Nat]], NEW p \in Printers, NEW j \in Jobs,
           NEW q \in Printers, NEW k \in Jobs
    PROVE  [f EXCEPT ![p][j] = @ + 1][q][k] =
              IF q = p /\ k = j THEN f[q][k] + 1 ELSE f[q][k]
  <1> DEFINE h == f[p]
  <1> DEFINE g == [h EXCEPT ![j] = h[j] + 1]
  <1>1. h \in [Jobs -> Nat]
    OBVIOUS
  <1>2. g[k] = IF k = j THEN h[k] + 1 ELSE h[k]
    <2> HIDE DEF h
    <2> QED BY <1>1
  <1>3. [f EXCEPT ![p][j] = @ + 1] = [f EXCEPT ![p] = g]
    OBVIOUS
  <1> HIDE DEF g
  <1>4. [f EXCEPT ![p] = g][q] = IF q = p THEN g ELSE f[q]
    OBVIOUS
  <1> QED
    BY <1>2, <1>3, <1>4

\* No more is owed when no ending begins, nothing new names the job, and the
\* count of an ending job is not forgotten.
LEMMA OwedShrinks ==
    ASSUME NEW p, NEW j,
           Ending(p, j)' <=> Ending(p, j),
           Named(p, j)' => Named(p, j),
           dev'[p].job = j => dev[p].job = j,
           cur = p /\ stage = "counted" => cur' = p /\ stage' = "counted"
    PROVE  Owed(p, j)' <= Owed(p, j)
  BY DEF Owed

LEMMA OwedKept ==
    ASSUME Inductive, Inductive', NEW p \in Printers, NEW j \in Jobs, OwedAt(p, j),
           counted'[p][j] = counted[p][j], runs'[p][j] = runs[p][j],
           redo'[p][j] = redo[p][j], Owed(p, j)' <= Owed(p, j)
    PROVE  OwedAt(p, j)'
  BY CountTypes DEF OwedAt

\* What the web server and the printers do to a job: only a printer's own new
\* print names it anew.
LEMMA WebDevice ==
    ASSUME Inductive, WebStep \/ UNCHANGED vars, NEW q \in Printers
    PROVE  dev'[q].job = dev[q].job /\ UNCHANGED <<runs, counted, redo>>
  <1>1. ASSUME NEW p \in Printers, NEW t \in Targets, SendTarget(p, t)
        PROVE  dev'[q].job = dev[q].job /\ UNCHANGED <<runs, counted, redo>>
    <2>1. dev \in [Printers -> Device] /\ dev[p] \in Device
      BY DEF Inductive, TypeOK
    <2>2. [dev[p] EXCEPT !.target = t].job = dev[p].job
      BY <2>1 DEF Device
    <2>3. [dev EXCEPT ![p].target = t][q].job = dev[q].job
      BY <2>1, <2>2
    <2>4. dev'[q].job = dev[q].job
      BY <1>1, <2>3 DEF SendTarget
    <2> QED
      BY <1>1, <2>4 DEF SendTarget, ghostVars
  <1>2. ASSUME NEW p \in Printers, NEW c \in Configs, SavePrinter(p, c)
        PROVE  dev' = dev /\ UNCHANGED <<runs, counted, redo>>
    BY <1>2 DEF SavePrinter
  <1>3. ASSUME NEW p \in Printers, NEW t \in Targets,
               StoreTarget(p, t) \/ LoseTarget(p, t)
        PROVE  dev' = dev /\ UNCHANGED <<runs, counted, redo>>
    BY <1>3 DEF StoreTarget, LoseTarget, ghostVars
  <1>4. ASSUME UNCHANGED vars PROVE dev' = dev /\ UNCHANGED <<runs, counted, redo>>
    BY <1>4 DEF vars, ghostVars
  <1>5. CASE WebStep
    <2>1. PICK p \in Printers :
             \/ \E c \in Configs : SavePrinter(p, c)
             \/ DeletePrinter(p)
             \/ \E t \in Targets : SendTarget(p, t) \/ StoreTarget(p, t) \/ LoseTarget(p, t)
      BY <1>5 DEF WebStep
    <2>2. CASE \E c \in Configs : SavePrinter(p, c)
      BY <1>2, <2>2
    <2>3. CASE DeletePrinter(p)
      BY <2>3 DEF DeletePrinter, ghostVars
    <2>4. CASE \E t \in Targets : SendTarget(p, t) \/ StoreTarget(p, t) \/ LoseTarget(p, t)
      BY <1>1, <1>3, <2>4
    <2> QED
      BY <2>1, <2>2, <2>3, <2>4
  <1> QED
    BY <1>4, <1>5

LEMMA DeviceJob ==
    ASSUME Inductive, NEW p \in Printers, NEW q \in Printers
    PROVE  /\ \A j \in Jobs : StartJob(p, j) =>
                dev'[q].job = IF q = p THEN j ELSE dev[q].job
           /\ FinishJob(p) => dev'[q].job = IF q = p THEN NoJob ELSE dev[q].job
           /\ GoDown(p) \/ ComeUp(p) => dev'[q].job = dev[q].job
  <1>1. dev \in [Printers -> Device] /\ dev[p] \in Device
    BY DEF Inductive, TypeOK
  <1>2. \A j \in Jobs \cup {NoJob} :
          [dev EXCEPT ![p].job = j][q].job = IF q = p THEN j ELSE dev[q].job
    BY <1>1 DEF Device
  <1>3. \A b \in BOOLEAN : [dev EXCEPT ![p].up = b][q].job = dev[q].job
    <2>1. \A b \in BOOLEAN : [dev[p] EXCEPT !.up = b].job = dev[p].job
      BY <1>1 DEF Device
    <2> QED
      BY <1>1, <2>1
  <1> QED
    BY <1>2, <1>3 DEF StartJob, FinishJob, GoDown, ComeUp

\* While the cycle stands still it sees the same jobs end.
LEMMA HandsOffJobs ==
    ASSUME UNCHANGED pollVars, NEW p, NEW j
    PROVE  /\ Pending(p)' <=> Pending(p)
           /\ Hand(p)' <=> Hand(p)
           /\ Ending(p, j)' <=> Ending(p, j)
           /\ UNCHANGED <<snap, result, cur, stage>>
  BY DEF pollVars, Pending, Hand, Ending, JobEnded

LEMMA OthersOwe ==
    ASSUME Inductive, Inductive', OwedInv, WebStep \/ PrinterStep \/ UNCHANGED vars
    PROVE  OwedInv'
  <1> SUFFICES ASSUME NEW q \in Printers, NEW j \in Jobs PROVE OwedAt(q, j)'
    BY DEF OwedInv
  <1>1. OwedAt(q, j)
    BY DEF OwedInv
  <1>2. JobKept(q) /\ j # NoJob
    BY WebKeepsJobs, ConstantsAssumption
  <1>3. /\ Pending(q)' <=> Pending(q)
        /\ Hand(q)' <=> Hand(q)
        /\ Ending(q, j)' <=> Ending(q, j)
        /\ UNCHANGED <<snap, result, cur, stage>>
    BY HandsOff, HandsOffJobs
  <1>4. ASSUME dev'[q].job = j => dev[q].job = j PROVE Owed(q, j)' <= Owed(q, j)
    <2>1. Named(q, j)' => Named(q, j)
      BY <1>2, <1>3, <1>4 DEF Named, JobKept
    <2> QED
      BY <1>3, <1>4, <2>1, OwedShrinks
  <1>5. CASE WebStep \/ UNCHANGED vars
    BY <1>1, <1>4, <1>5, WebDevice, OwedKept
  <1>6. ASSUME NEW p \in Printers, FinishJob(p) \/ GoDown(p) \/ ComeUp(p)
        PROVE  OwedAt(q, j)'
    <2>1. dev'[q].job = j => dev[q].job = j
      BY <1>2, <1>6, DeviceJob
    <2>2. UNCHANGED <<runs, counted, redo>>
      BY <1>6 DEF FinishJob, GoDown, ComeUp, ghostVars
    <2> QED
      BY <1>1, <1>4, <2>1, <2>2, OwedKept
  <1>7. ASSUME NEW p \in Printers, NEW i \in Jobs, StartJob(p, i) PROVE OwedAt(q, j)'
    <2>1. dev'[q].job = IF q = p THEN i ELSE dev[q].job
      BY <1>7, DeviceJob
    <2>2. UNCHANGED <<counted, redo>>
      BY <1>7 DEF StartJob
    <2>3. runs'[q][j] = IF q = p /\ j = i THEN runs[q][j] + 1 ELSE runs[q][j]
      BY <1>7, BumpAt DEF StartJob, Inductive, TypeOK
    <2>4. CASE q = p /\ j = i
      <3>1. dev[q].job # j
        BY <1>7, <2>4 DEF StartJob
      <3>2. Owed(q, j)' <= Owed(q, j) + 1
        BY <1>3, <3>1 DEF Owed
      <3> QED
        BY <1>1, <2>2, <2>3, <2>4, <3>2, CountTypes DEF OwedAt
    <2>5. CASE ~(q = p /\ j = i)
      BY <1>1, <1>4, <2>1, <2>2, <2>3, <2>5, OwedKept
    <2> QED
      BY <2>4, <2>5
  <1> QED
    BY <1>5, <1>6, <1>7 DEF PrinterStep

\* What a refresh makes of a row's job.
LEMMA RefreshedJob ==
    ASSUME Inductive, NEW p \in Printers, Refresh(p)
    PROVE  /\ snap[p] # NoRow
           /\ IF dev[p].up THEN result'[p].job = dev[p].job
              ELSE \/ result'[p].job = snap[p].job
                   \/ result'[p].status = "offline" /\ result'[p].job = NoJob
  <1>1. snap[p] \in Row /\ result'[p] = IF dev[p].up THEN Live(p) ELSE Unreachable(snap[p])
    BY DEF Inductive, TypeOK, Refresh
  <1>2. CASE dev[p].up
    <2>1. dev[p] \in Device
      BY DEF Inductive, TypeOK
    <2>2. Live(p).job = dev[p].job
      BY <1>1, <2>1 DEF Live, Row, Device
    <2> QED
      BY <1>1, <1>2, <2>2 DEF Refresh
  <1>3. CASE ~dev[p].up
    <2>1. Unreachable(snap[p]) \in { [snap[p] EXCEPT !.since = 0], snap[p],
            [snap[p] EXCEPT !.status = "offline", !.job = NoJob] }
      BY DEF Unreachable
    <2>2. /\ [snap[p] EXCEPT !.since = 0].job = snap[p].job
          /\ [snap[p] EXCEPT !.status = "offline", !.job = NoJob].job = NoJob
          /\ [snap[p] EXCEPT !.status = "offline", !.job = NoJob].status = "offline"
      BY <1>1 DEF Row
    <2>3. result'[p] = Unreachable(snap[p])
      BY <1>1, <1>3
    <2>4. \/ result'[p].job = snap[p].job
          \/ result'[p].status = "offline" /\ result'[p].job = NoJob
      BY <2>1, <2>2, <2>3
    <2> QED
      BY <1>3, <2>4 DEF Refresh
  <1> QED
    BY <1>2, <1>3

\* Giving a cycle up repeats the count that the job in hand already had.
LEMMA RedoneAt ==
    ASSUME Inductive, Turn, NEW q \in Printers, NEW j \in Jobs
    PROVE  Redone[q][j] = IF stage = "counted" /\ cur = q /\ snap[q].job = j
                          THEN redo[q][j] + 1 ELSE redo[q][j]
  <1>1. CASE stage = "counted"
    <2>1. cur \in Printers /\ cur \in todo /\ phase = "apply" /\ snap[cur].job # NoJob
      BY <1>1 DEF Turn, JobEnded, Inductive, TypeOK
    <2>2. snap[cur] \in Row
      <3>1. snap[cur] # NoRow
        BY <2>1 DEF Inductive, CycleShape
      <3> QED
        BY <2>1, <3>1 DEF Inductive, TypeOK
    <2>3. snap[cur].job \in Jobs
      BY <2>1, <2>2 DEF Row
    <2>4. Redone = [redo EXCEPT ![cur][snap[cur].job] = @ + 1]
      BY <1>1 DEF Redone
    <2> QED
      BY <1>1, <2>1, <2>3, <2>4, BumpAt DEF Inductive, TypeOK
  <1>2. CASE stage # "counted"
    BY <1>2 DEF Redone
  <1> QED
    BY <1>1, <1>2

\* A cycle that lets go of a printer it had counted has written the row, which
\* then names the job no more, or is known to count it again.
LEMMA LetGo ==
    ASSUME Inductive, Inductive', NEW q \in Printers, NEW j \in Jobs, OwedAt(q, j),
           ~Pending(q)', UNCHANGED <<dev, runs, counted>>,
           Exists(q)' /\ table'[q].job = j =>
              (Exists(q) /\ table[q].job = j) \/ (Hand(q) /\ result[q].job = j),
           redo'[q][j] >= redo[q][j],
           Ending(q, j) /\ cur = q /\ stage = "counted" =>
              \/ redo'[q][j] = redo[q][j] + 1
              \/ ~(Exists(q)' /\ table'[q].job = j)
    PROVE  OwedAt(q, j)'
  <1>0. /\ redo'[q][j] \in Nat
        /\ counted'[q][j] = counted[q][j] /\ runs'[q][j] = runs[q][j]
    BY DEF Inductive, TypeOK
  <1>1. Owed(q, j)' = IF Named(q, j)' THEN 1 ELSE 0
    BY DEF Owed, Ending, Hand
  <1>2. Named(q, j)' <=> dev[q].job = j \/ (Exists(q)' /\ table'[q].job = j)
    BY DEF Named, Hand
  <1>3. CASE ~Ending(q, j)
    <2>1. Named(q, j)' => Named(q, j)
      BY <1>2 DEF Named
    <2>2. Owed(q, j)' <= Owed(q, j)
      BY <1>1, <1>3, <2>1 DEF Owed
    <2> QED
      BY <1>0, <2>2, CountTypes DEF OwedAt
  <1>4. CASE Ending(q, j) /\ ~(cur = q /\ stage = "counted")
    <2>1. Owed(q, j)' <= Owed(q, j)
      BY <1>1, <1>4 DEF Owed
    <2> QED
      BY <1>0, <2>1, CountTypes DEF OwedAt
  <1>5. CASE Ending(q, j) /\ cur = q /\ stage = "counted"
    <2>1. Owed(q, j) = IF dev[q].job = j THEN 1 ELSE 0
      BY <1>5 DEF Owed
    <2>2. CASE redo'[q][j] = redo[q][j] + 1
      <3>1. Owed(q, j)' <= Owed(q, j) + 1
        BY <1>1, <2>1
      <3> QED
        BY <1>0, <2>2, <3>1, CountTypes DEF OwedAt
    <2>3. CASE ~(Exists(q)' /\ table'[q].job = j)
      <3>1. Owed(q, j)' <= Owed(q, j)
        BY <1>1, <1>2, <2>1, <2>3
      <3> QED
        BY <1>0, <3>1, CountTypes DEF OwedAt
    <2> QED
      BY <1>5, <2>2, <2>3
  <1> QED
    BY <1>3, <1>4, <1>5

LEMMA CycleOwes ==
    ASSUME Inductive, Inductive', Turn, OwedInv, NEW q \in Printers, NEW j \in Jobs
    PROVE  /\ StartCycle \/ StartApply \/ EndCycle \/ Tick => OwedAt(q, j)'
           /\ \A p \in Printers : Refresh(p) \/ Accrue(p) \/ CountJob(p) => OwedAt(q, j)'
  <1>1. OwedAt(q, j) /\ j # NoJob /\ NoPrinter \notin Printers
    BY ConstantsAssumption DEF OwedInv
  <1>2. ASSUME StartCycle PROVE OwedAt(q, j)'
    <2>1. ~Pending(q) /\ ~Hand(q)' /\ ~Ending(q, j) /\ ~Ending(q, j)'
      BY <1>2 DEF StartCycle, Pending, Hand, Ending, Inductive, CycleShape, NoRows
    <2>2. Named(q, j)' => Named(q, j)
      BY <1>2, <2>1 DEF StartCycle, Named, Pending, Exists
    <2>3. Owed(q, j)' <= Owed(q, j)
      BY <1>2, <2>1, <2>2, OwedShrinks DEF StartCycle
    <2> QED
      BY <1>1, <1>2, <2>3, OwedKept DEF StartCycle, ghostVars
  <1>3. ASSUME StartApply PROVE OwedAt(q, j)'
    <2>1. Pending(q)' <=> Pending(q)
      BY <1>3 DEF StartApply, Pending
    <2>2. (Ending(q, j)' <=> Ending(q, j)) /\ (Named(q, j)' <=> Named(q, j))
      BY <1>3, <2>1 DEF StartApply, Ending, Named, Hand, Exists, JobEnded
    <2>3. Owed(q, j)' <= Owed(q, j)
      BY <1>3, <2>2, OwedShrinks DEF StartApply
    <2> QED
      BY <1>1, <1>3, <2>3, OwedKept DEF StartApply, ghostVars
  <1>4. ASSUME EndCycle PROVE OwedAt(q, j)'
    <2>1. ~Pending(q) /\ ~Pending(q)'
      BY <1>4 DEF EndCycle, Pending
    <2>2. ~Ending(q, j) /\ ~Ending(q, j)' /\ (Named(q, j)' <=> Named(q, j))
      BY <1>4, <2>1 DEF EndCycle, Ending, Named, Hand, Exists
    <2>3. Owed(q, j)' <= Owed(q, j)
      BY <1>4, <2>2, OwedShrinks DEF EndCycle
    <2> QED
      BY <1>1, <1>4, <2>3, OwedKept DEF EndCycle, ghostVars
  <1>5. ASSUME Tick PROVE OwedAt(q, j)'
    <2>1. snap[q] # NoRow \/ result[q] = NoRow
      BY DEF Inductive, CycleShape
    <2>2. Ending(q, j)' <=> Ending(q, j)
      BY <1>5, <2>1, TickKeepsJobs DEF Ending, Hand
    <2>3. Pending(q) => snap[q] # NoRow
      BY DEF Pending, Inductive, CycleShape
    <2>4. Named(q, j)' <=> Named(q, j)
      BY <1>5, <2>3, TickKeepsJobs DEF Named, Hand, Exists, Tick
    <2>5. Owed(q, j)' <= Owed(q, j)
      BY <1>5, <2>2, <2>4, OwedShrinks DEF Tick
    <2> QED
      BY <1>1, <1>5, <2>5, OwedKept DEF Tick
  <1>6. ASSUME NEW p \in Printers, Refresh(p) PROVE OwedAt(q, j)'
    <2>1. UNCHANGED <<table, dev, phase, snap, todo, cur, stage, runs, counted, redo>>
      BY <1>6 DEF Refresh
    <2>2. (Pending(q)' <=> Pending(q)) /\ (Exists(q)' <=> Exists(q)) /\ cur = NoPrinter
      BY <1>6, <2>1 DEF Pending, Exists, Refresh, Turn
    <2>3. Owed(q, j)' <= Owed(q, j)
      <3>1. CASE q # p
        <4>1. result'[q] = result[q]
          BY <1>6, <3>1 DEF Refresh
        <4>2. (Ending(q, j)' <=> Ending(q, j)) /\ (Named(q, j)' <=> Named(q, j))
          BY <2>1, <2>2, <4>1 DEF Ending, Named, Hand, JobEnded
        <4> QED
          BY <2>1, <4>2, OwedShrinks
      <3>2. CASE q = p
        <4>1. ~Hand(q) /\ ~Ending(q, j) /\ Pending(q)
          BY <1>6, <3>2 DEF Hand, Ending, Refresh, Pending
        <4>2. CASE Ending(q, j)'
          <5>1. snap[q].job = j /\ result'[q].job # j /\ result'[q].status # "offline"
            BY <2>1, <4>2 DEF Ending, JobEnded
          <5>2. dev[q].job # j
            BY <1>6, <3>2, <5>1, RefreshedJob
          <5>3. Owed(q, j)' = 1
            BY <1>1, <2>1, <2>2, <4>2, <5>2 DEF Owed
          <5>4. Owed(q, j) = 1
            BY <4>1, <5>1 DEF Owed, Named
          <5> QED
            BY <5>3, <5>4
        <4>3. CASE ~Ending(q, j)'
          <5>1. Named(q, j)' => Named(q, j)
            BY <1>1, <1>6, <2>1, <2>2, <3>2, <4>1, RefreshedJob DEF Named
          <5> QED
            BY <2>1, <4>1, <4>3, <5>1, OwedShrinks
        <4> QED
          BY <4>2, <4>3
      <3> QED
        BY <3>1, <3>2
    <2> QED
      BY <1>1, <2>1, <2>3, OwedKept
  <1>7. ASSUME NEW p \in Printers, Accrue(p) PROVE OwedAt(q, j)'
    <2>1. UNCHANGED <<dev, phase, snap, result, todo, runs, counted, redo>>
      BY <1>7 DEF Accrue
    <2>2. Pending(q)' <=> Pending(q)
      BY <2>1 DEF Pending
    <2>3. JobKept(q)
      BY <1>7, <2>2, PollerKeepsJobs DEF PollerStep
    <2>4. (Ending(q, j)' <=> Ending(q, j)) /\ (Named(q, j)' => Named(q, j))
      BY <1>1, <2>1, <2>2, <2>3 DEF Ending, Named, Hand, JobEnded, JobKept
    <2>5. Owed(q, j)' <= Owed(q, j)
      BY <1>1, <1>7, <2>1, <2>4, OwedShrinks DEF Accrue
    <2> QED
      BY <1>1, <2>1, <2>5, OwedKept
  <1>8. ASSUME NEW p \in Printers, CountJob(p) PROVE OwedAt(q, j)'
    <2>1. /\ UNCHANGED <<table, dev, phase, snap, result, todo, cur, runs, redo>>
          /\ phase = "apply" /\ cur = p /\ stage = "accrued" /\ stage' = "counted"
      BY <1>8 DEF CountJob
    <2>2. (Ending(q, j)' <=> Ending(q, j)) /\ (Named(q, j)' <=> Named(q, j))
      BY <2>1 DEF Ending, Named, Hand, Pending, Exists, JobEnded
    <2>3. snap[p].job \in Jobs /\ Hand(p) /\ JobEnded(p)
      <3>1. p \in todo /\ JobEnded(p) /\ result[p] # NoRow /\ snap[p] # NoRow
        BY <1>1, <2>1 DEF Turn, Inductive, CycleShape
      <3>2. snap[p] \in Row
        BY <3>1 DEF Inductive, TypeOK
      <3> QED
        BY <2>1, <3>1, <3>2 DEF Row, JobEnded, Hand, Pending
    <2>4. counted'[q][j] = IF q = p /\ j = snap[p].job THEN counted[q][j] + 1 ELSE counted[q][j]
      BY <1>8, <2>3, BumpAt DEF CountJob, Inductive, TypeOK
    <2>5. CASE q = p /\ j = snap[p].job
      <3>1. Ending(q, j)
        BY <2>3, <2>5 DEF Ending
      <3>2. Owed(q, j)' = Owed(q, j) - 1
        BY <2>1, <2>2, <2>5, <3>1 DEF Owed
      <3> QED
        BY <1>1, <2>1, <2>4, <2>5, <3>2, CountTypes DEF OwedAt
    <2>6. CASE ~(q = p /\ j = snap[p].job)
      <3>1. Owed(q, j)' <= Owed(q, j)
        BY <2>1, <2>2, OwedShrinks
      <3> QED
        BY <1>1, <2>1, <2>4, <2>6, <3>1, OwedKept
    <2> QED
      BY <2>5, <2>6
  <1> QED
    BY <1>2, <1>3, <1>4, <1>5, <1>6, <1>7, <1>8

LEMMA WriteOwes ==
    ASSUME Inductive, Inductive', Turn, OwedInv, NEW q \in Printers, NEW j \in Jobs
    PROVE  /\ \A p \in Printers : Persist(p) \/ LoseAck(p) => OwedAt(q, j)'
           /\ DbError \/ Crash => OwedAt(q, j)'
  <1>1. OwedAt(q, j) /\ NoPrinter \notin Printers
    BY ConstantsAssumption DEF OwedInv
  <1>2. redo[q][j] \in Nat
    BY CountTypes
  <1>3. ASSUME NEW p \in Printers, Persist(p) \/ LoseAck(p)
        PROVE  /\ Hand(p) /\ ~Pending(p)'
               /\ JobEnded(p) => cur = p /\ stage = "counted"
               /\ q # p => cur # q
               /\ UNCHANGED <<dev, snap, runs, counted>> \/ ~Pending(q)'
               /\ UNCHANGED <<dev, runs, counted>>
    BY <1>1, <1>3 DEF Persist, LoseAck, DropCycle, ReadyToPersist, Hand, Pending, Inductive,
                      CycleShape
  <1>4. ASSUME NEW p \in Printers, Persist(p) \/ LoseAck(p), q = p PROVE OwedAt(q, j)'
    <2>1. CASE table' = Upserted(p) /\ redo' = redo
      <3>1. table'[q].job = result[q].job
        BY <1>3, <1>4, <2>1, UpsertedRow DEF Inductive, Hand
      <3>2. Ending(q, j) => table'[q].job # j
        BY <3>1 DEF Ending, JobEnded
      <3> QED
        BY <1>1, <1>2, <1>3, <1>4, <2>1, <3>1, <3>2, LetGo
    <2>2. CASE table' = table /\ redo' = Redone
      <3>1. Ending(q, j) => redo'[q][j] = redo[q][j] + 1
        BY <1>3, <1>4, <2>2, RedoneAt DEF Ending
      <3>2. redo'[q][j] >= redo[q][j]
        BY <1>2, <2>2, RedoneAt
      <3>3. Exists(q)' /\ table'[q].job = j => Exists(q) /\ table[q].job = j
        BY <2>2 DEF Exists
      <3> QED
        BY <1>1, <1>3, <1>4, <3>1, <3>2, <3>3, LetGo
    <2> QED
      BY <1>4, <2>1, <2>2 DEF Persist, LoseAck
  <1>5. ASSUME NEW p \in Printers, Persist(p) \/ LoseAck(p), q # p PROVE OwedAt(q, j)'
    <2>1. table'[q] = table[q]
      BY <1>3, <1>5, UpsertedRow DEF Persist, LoseAck, Inductive, Hand
    <2>2. redo'[q][j] = redo[q][j]
      BY <1>3, <1>5, RedoneAt DEF Persist, LoseAck
    <2>3. CASE Persist(p)
      <3>1. /\ UNCHANGED <<phase, snap, result>>
            /\ Pending(q)' <=> Pending(q)
        BY <1>5, <2>3 DEF Persist, Pending
      <3>2. (Ending(q, j)' <=> Ending(q, j)) /\ (Named(q, j)' <=> Named(q, j))
        BY <1>3, <1>5, <2>1, <3>1 DEF Ending, Named, Hand, Exists, JobEnded
      <3>3. Owed(q, j)' <= Owed(q, j)
        BY <1>3, <1>5, <3>2, OwedShrinks
      <3> QED
        BY <1>1, <1>3, <1>5, <2>2, <3>3, OwedKept
    <2>4. CASE LoseAck(p)
      <3>1. ~Pending(q)'
        BY <2>4 DEF LoseAck, DropCycle, Pending
      <3> QED
        BY <1>1, <1>2, <1>3, <1>5, <2>1, <2>2, <3>1, LetGo DEF Exists
    <2> QED
      BY <1>5, <2>3, <2>4
  <1>6. ASSUME DbError \/ Crash PROVE OwedAt(q, j)'
    <2>1. /\ redo' = Redone /\ UNCHANGED <<table, dev, runs, counted>>
          /\ ~Pending(q)'
      BY <1>6 DEF DbError, Crash, DropCycle, Pending
    <2>2. Ending(q, j) /\ cur = q /\ stage = "counted" => redo'[q][j] = redo[q][j] + 1
      BY <2>1, RedoneAt DEF Ending
    <2>3. redo'[q][j] >= redo[q][j]
      BY <1>2, <2>1, RedoneAt
    <2> QED
      BY <1>1, <2>1, <2>2, <2>3, LetGo DEF Exists
  <1> QED
    BY <1>4, <1>5, <1>6

LEMMA OwedNext == Inductive /\ Turn /\ OwedInv /\ [Next]_vars => OwedInv'
  <1> SUFFICES ASSUME Inductive, Turn, OwedInv, [Next]_vars PROVE OwedInv'
    OBVIOUS
  <1>1. Inductive'
    BY TypeNext, ShapeNext DEF Inductive
  <1>2. CASE WebStep \/ PrinterStep \/ UNCHANGED vars
    BY <1>1, <1>2, OthersOwe
  <1>3. CASE PollerStep \/ Tick \/ Failure
    BY <1>1, <1>3, CycleOwes, WriteOwes DEF PollerStep, Failure, OwedInv
  <1> QED
    BY <1>2, <1>3 DEF Next

\* analytics_daily counts a job at most once per print of it, for any number of
\* printers and jobs and whatever fails: only a cycle that counted the job and
\* then did not write the row lets it be counted again.
THEOREM CountsSafe == Spec => []CountedOncePerPrint
  <1>1. Inductive /\ OwedInv => CountedOncePerPrint
    BY CountTypes DEF OwedInv, OwedAt, CountedOncePerPrint
  <1>2. Inductive /\ Turn /\ OwedInv /\ [Next]_vars => Turn' /\ OwedInv'
    BY TurnNext, OwedNext
  <1>3. Init => Turn /\ OwedInv
    BY TurnInit, OwedInit
  <1>4. Spec => [](Turn /\ OwedInv)
    BY <1>2, <1>3, InductiveHolds, PTL DEF Spec
  <1> QED
    BY <1>1, <1>4, InductiveHolds, PTL

-----------------------------------------------------------------------------
(* A printer shown offline has been silent for the grace period.  A row's  *)
(* age of silence is counted from its first unanswered refresh, so no row  *)
(* has counted longer than its printer has been silent, except the one a   *)
(* cycle holds an answer for: that answer is always written, because the   *)
(* row last written is known to say since when the printer was silent.     *)

Waited(p, r) == r.since # Nil => silent[p] >= r.since

GraceAt(p) ==
    /\ Exists(p) /\ table[p].since # Nil =>
         lastSig[p] # NoSig /\ lastSig[p].since = table[p].since
    /\ Exists(p) /\ ~Hand(p) => Waited(p, table[p])
    /\ Pending(p) /\ result[p] = NoRow => Waited(p, snap[p])
    /\ Hand(p) =>
         /\ Waited(p, result[p])
         /\ result[p].status = "offline" => silent[p] >= Grace \/ snap[p].status = "offline"
    /\ Pending(p) /\ Exists(p) => table[p].status \in {"offline", snap[p].status}

Faultless == budget["fault"] = MaxFaults
GraceInv ==
    /\ MaxFaults \in Nat /\ budget["fault"] <= MaxFaults
    /\ Faultless => \A p \in Printers : GraceAt(p)

LEMMA GraceInit == Init => GraceInv
  <1> SUFFICES ASSUME Init PROVE GraceInv
    OBVIOUS
  <1>1. budget["fault"] = MaxFaults /\ MaxFaults \in Nat
    BY ConstantsAssumption DEF Init
  <1>2. PICK c \in Configs, s \in Scenarios :
          table = [p \in Printers |-> IF p \in s.fleet THEN NewRow(c) ELSE NoRow]
    BY DEF Init
  <1>3. \A p \in Printers : (Exists(p) => table[p].since = Nil) /\ ~Pending(p)
    BY <1>2 DEF Init, NewRow, Exists, Pending
  <1> QED
    BY <1>1, <1>3 DEF GraceInv, GraceAt, Waited, Hand

\* What a step that is not a write-back does to a row: it keeps what the row says
\* of the printer's silence, or inserts a row that says nothing.
RowQuiet(p) ==
    Exists(p)' =>
        \/ Exists(p) /\ table'[p].since = table[p].since /\ table'[p].status = table[p].status
        \/ ~Exists(p) /\ table'[p].since = Nil /\ table'[p].status = "offline"

LEMMA GraceFrame ==
    ASSUME NEW p \in Printers, GraceAt(p), RowQuiet(p), lastSig'[p] = lastSig[p],
           silent'[p] = silent[p], Pending(p)' <=> Pending(p),
           Pending(p) => snap'[p] = snap[p] /\ result'[p] = result[p]
    PROVE  GraceAt(p)'
  <1>1. Hand(p)' <=> Hand(p)
    BY DEF Hand
  <1>2. CASE ~Exists(p)'
    BY <1>1, <1>2 DEF GraceAt, Waited, Hand
  <1>3. CASE Exists(p)' /\ Exists(p) /\ table'[p].since = table[p].since
                        /\ table'[p].status = table[p].status
    BY <1>1, <1>3 DEF GraceAt, Waited, Hand
  <1>4. CASE Exists(p)' /\ table'[p].since = Nil /\ table'[p].status = "offline"
    BY <1>1, <1>4 DEF GraceAt, Waited, Hand
  <1> QED
    BY <1>2, <1>3, <1>4 DEF RowQuiet

LEMMA OthersQuiet ==
    ASSUME Inductive, WebStep \/ PrinterStep \/ UNCHANGED vars, NEW q \in Printers
    PROVE  RowQuiet(q)
  <1>1. ASSUME NEW p \in Printers, NEW c \in Configs, SavePrinter(p, c) PROVE RowQuiet(q)
    <2>1. CASE Exists(p)
      <3>1. table[p] \in Row
        BY <2>1 DEF Inductive, TypeOK, Exists
      <3>2. /\ table'[p].since = table[p].since /\ table'[p].status = table[p].status
            /\ \A r \in Printers \ {p} : table'[r] = table[r]
        BY <1>1, <2>1, <3>1, TypeFacts DEF SavePrinter, Inductive, Row
      <3> QED
        BY <2>1, <3>2 DEF RowQuiet, Exists
    <2>2. CASE ~Exists(p)
      <3>1. /\ table'[p].since = Nil /\ table'[p].status = "offline"
            /\ \A r \in Printers \ {p} : table'[r] = table[r]
        BY <1>1, <2>2, TypeFacts DEF SavePrinter, Inductive, NewRow
      <3> QED
        BY <2>2, <3>1 DEF RowQuiet, Exists
    <2> QED
      BY <2>1, <2>2
  <1>2. ASSUME NEW p \in Printers, DeletePrinter(p) PROVE RowQuiet(q)
    BY <1>2, TypeFacts DEF DeletePrinter, RowQuiet, Exists, Inductive
  <1>3. ASSUME NEW p \in Printers, NEW t \in Targets, StoreTarget(p, t), Exists(p)
        PROVE  RowQuiet(q)
    <2>1. table[p] \in Row
      BY <1>3 DEF Inductive, TypeOK, Exists
    <2>2. /\ table'[p].since = table[p].since /\ table'[p].status = table[p].status
          /\ \A r \in Printers \ {p} : table'[r] = table[r]
      BY <1>3, <2>1, TypeFacts DEF StoreTarget, Inductive, Row
    <2> QED
      BY <1>3, <2>2 DEF RowQuiet, Exists
  <1>4. CASE UNCHANGED table
    BY <1>4 DEF RowQuiet, Exists
  <1>5. ASSUME NEW p \in Printers, NEW t \in Targets,
               (StoreTarget(p, t) /\ ~Exists(p)) \/ SendTarget(p, t) \/ LoseTarget(p, t)
        PROVE  UNCHANGED table
    BY <1>5 DEF StoreTarget, SendTarget, LoseTarget
  <1>6. ASSUME PrinterStep \/ UNCHANGED vars PROVE UNCHANGED table
    BY <1>6 DEF PrinterStep, vars, StartJob, FinishJob, GoDown, ComeUp
  <1> QED
    BY <1>1, <1>2, <1>3, <1>4, <1>5, <1>6 DEF WebStep

\* Nobody but the poller and the clock touches what the invariant is about, but
\* for the row.
LEMMA OthersGrace ==
    ASSUME Inductive, WebStep \/ PrinterStep \/ UNCHANGED vars, NEW q \in Printers, GraceAt(q)
    PROVE  GraceAt(q)'
  <1>1. UNCHANGED <<pollVars, silent>>
    BY DEF WebStep, PrinterStep, vars, ghostVars, SavePrinter, DeletePrinter, SendTarget,
           StoreTarget, LoseTarget, StartJob, FinishJob, GoDown, ComeUp
  <1>2. Pending(q)' <=> Pending(q)
    BY <1>1 DEF pollVars, Pending
  <1> QED
    BY <1>1, <1>2, OthersQuiet, GraceFrame DEF pollVars

\* A cycle begins: what it reads is what the table says.
LEMMA StartGrace ==
    ASSUME Inductive, StartCycle, NEW q \in Printers, GraceAt(q)
    PROVE  GraceAt(q)'
  <1>1. /\ phase = "idle" /\ phase' = "refresh" /\ snap' = table /\ table' = table
        /\ result' = result /\ silent' = silent /\ result[q] = NoRow
    BY DEF StartCycle, ghostVars, Inductive, CycleShape, NoRows
  <1>2. ~Hand(q) /\ ~Hand(q)' /\ (Pending(q)' <=> Exists(q)) /\ (Exists(q)' <=> Exists(q))
    BY <1>1 DEF Hand, Pending, Exists
  <1>3. Exists(q) => lastSig'[q] = lastSig[q]
    BY DEF StartCycle
  <1> QED
    BY <1>1, <1>2, <1>3 DEF GraceAt, Waited

\* What a refresh makes of a row that has counted no more than the silence.
LEMMA RefreshedGrace ==
    ASSUME Inductive, NEW p \in Printers, Refresh(p), Waited(p, snap[p])
    PROVE  /\ Waited(p, result[p])'
           /\ result'[p].status = "offline" => silent'[p] >= Grace \/ snap[p].status = "offline"
  <1>1. snap[p] \in Row /\ result \in [Printers -> Row \cup {NoRow}] /\ silent \in [Printers -> Nat]
    BY DEF Refresh, Inductive, TypeOK
  <1>2. CASE dev[p].up
    <2>1. result'[p] = Live(p)
      BY <1>1, <1>2 DEF Refresh
    <2>2. Live(p).since = Nil /\ Live(p).status # "offline"
      BY <1>1 DEF Live, Row
    <2> QED
      BY <2>1, <2>2 DEF Waited
  <1>3. CASE ~dev[p].up
    <2>1. result'[p] = Unreachable(snap[p]) /\ silent' = silent
      BY <1>1, <1>3 DEF Refresh
    <2>2. CASE snap[p].since = Nil
      <3>1. result'[p].since = 0 /\ result'[p].status = snap[p].status
        BY <1>1, <2>1, <2>2 DEF Unreachable, Row
      <3> QED
        BY <1>1, <2>1, <3>1 DEF Waited
    <2>3. CASE snap[p].since # Nil
      <3>1. silent[p] >= snap[p].since /\ silent[p] \in Nat /\ Grace \in Nat
            /\ snap[p].since \in 0..Grace
        BY <1>1, <2>3, ConstantsAssumption DEF Waited, Row
      <3>2. CASE snap[p].since < Grace
        <4>1. result'[p] = snap[p]
          BY <2>1, <2>3, <3>2 DEF Unreachable
        <4> QED
          BY <2>1, <3>1, <4>1 DEF Waited
      <3>3. CASE ~(snap[p].since < Grace)
        <4>1. result'[p] = [snap[p] EXCEPT !.status = "offline", !.job = NoJob]
          BY <2>1, <2>3, <3>3 DEF Unreachable
        <4>2. result'[p].since = snap[p].since
          BY <1>1, <4>1 DEF Row
        <4>3. silent[p] >= Grace
          BY <3>1, <3>3
        <4> QED
          BY <2>1, <3>1, <4>2, <4>3 DEF Waited
      <3> QED
        BY <3>2, <3>3
    <2> QED
      BY <2>2, <2>3
  <1> QED
    BY <1>2, <1>3

LEMMA RefreshGrace ==
    ASSUME Inductive, NEW p \in Printers, Refresh(p), NEW q \in Printers, GraceAt(q)
    PROVE  GraceAt(q)'
  <1>1. /\ table' = table /\ snap' = snap /\ lastSig' = lastSig /\ phase' = phase
        /\ todo' = todo /\ phase = "refresh" /\ snap[p] # NoRow /\ result[p] = NoRow
    BY DEF Refresh
  <1>2. /\ Pending(q)' <=> Pending(q)
        /\ Exists(q)' <=> Exists(q)
    BY <1>1 DEF Pending, Exists
  <1>3. CASE q # p
    <2>1. silent'[q] = silent[q] /\ result'[q] = result[q] /\ RowQuiet(q)
      BY <1>1, <1>3, TypeFacts DEF Refresh, Inductive, TypeOK, RowQuiet, Exists
    <2> QED
      BY <1>1, <1>2, <2>1, GraceFrame
  <1>4. CASE q = p
    <2>1. Pending(q) /\ ~Hand(q)
      BY <1>1, <1>4 DEF Pending, Hand
    <2>2. Inductive'
      BY TypeNext, ShapeNext DEF Inductive, Next, PollerStep
    <2>3. result'[p] \in Row
      BY RefreshedRow DEF Refresh, Inductive, TypeOK
    <2>4. Hand(q)'
      BY <1>2, <1>4, <2>1, <2>3, SentinelAssumption DEF Hand
    <2>5. Waited(p, snap[p])
      BY <1>1, <1>4, <2>1 DEF GraceAt
    <2>6. /\ Waited(p, result[p])'
          /\ result'[p].status = "offline" => silent'[p] >= Grace \/ snap[p].status = "offline"
      BY <2>5, RefreshedGrace
    <2>7. result'[p] # NoRow
      BY <2>4, <1>4 DEF Hand
    <2> QED
      BY <1>1, <1>2, <1>4, <2>4, <2>6, <2>7 DEF GraceAt
  <1> QED
    BY <1>3, <1>4

\* Crediting and counting a job leave what the row says of silence.
LEMMA CountingGrace ==
    ASSUME Inductive, NEW q \in Printers, GraceAt(q),
           StartApply \/ EndCycle \/ \E p \in Printers : Accrue(p) \/ CountJob(p)
    PROVE  GraceAt(q)'
  <1>1. CASE StartApply
    <2>1. Pending(q)' <=> Pending(q)
      BY <1>1 DEF StartApply, Pending, Inductive, TypeOK
    <2> QED
      BY <1>1, <2>1, GraceFrame DEF StartApply, ghostVars, RowQuiet, Exists
  <1>2. CASE EndCycle
    <2>1. ~Pending(q) /\ ~Pending(q)'
      BY <1>2 DEF EndCycle, Pending
    <2> QED
      BY <1>2, <2>1, GraceFrame DEF EndCycle, ghostVars, RowQuiet, Exists
  <1>3. ASSUME NEW p \in Printers, Accrue(p) PROVE GraceAt(q)'
    <2>1. RowQuiet(q)
      <3>1. CASE ~Exists(p)
        BY <1>3, <3>1 DEF Accrue, RowQuiet, Exists
      <3>2. CASE Exists(p)
        <4>1. table[p] \in Row
          BY <3>2 DEF Inductive, TypeOK, Exists
        <4>2. /\ table'[p].since = table[p].since /\ table'[p].status = table[p].status
              /\ \A r \in Printers \ {p} : table'[r] = table[r]
          BY <1>3, <3>2, <4>1, TypeFacts DEF Accrue, Inductive, Row
        <4> QED
          BY <3>2, <4>2 DEF RowQuiet, Exists
      <3> QED
        BY <3>1, <3>2
    <2>2. Pending(q)' <=> Pending(q)
      BY <1>3 DEF Accrue, Pending
    <2> QED
      BY <1>3, <2>1, <2>2, GraceFrame DEF Accrue
  <1>4. ASSUME NEW p \in Printers, CountJob(p) PROVE GraceAt(q)'
    <2>1. Pending(q)' <=> Pending(q)
      BY <1>4 DEF CountJob, Pending
    <2> QED
      BY <1>4, <2>1, GraceFrame DEF CountJob, RowQuiet, Exists
  <1> QED
    BY <1>1, <1>2, <1>3, <1>4

\* A write-back stores an age that has been waited for, or finds it stored.
LEMMA PersistGrace ==
    ASSUME Inductive, NEW p \in Printers, Persist(p), NEW q \in Printers, GraceAt(q)
    PROVE  GraceAt(q)'
  <1>1. /\ phase' = phase /\ phase = "apply" /\ snap' = snap /\ result' = result
        /\ silent' = silent /\ todo' = todo \ {p} /\ p \in todo
    BY DEF Persist, ReadyToPersist
  <1>2. result[p] # NoRow /\ result[p] \in Row
    BY <1>1 DEF Inductive, CycleShape, TypeOK
  <1>3. CASE q # p
    <2>1. Pending(q)' <=> Pending(q)
      BY <1>1, <1>3 DEF Pending
    <2>2. table'[q] = table[q] /\ lastSig'[q] = lastSig[q]
      BY <1>2, <1>3, UpsertedRow DEF Persist, Inductive, TypeOK
    <2> QED
      BY <1>1, <2>1, <2>2, GraceFrame DEF RowQuiet, Exists
  <1>4. CASE q = p
    <2>1. Hand(p) /\ ~Pending(p)' /\ ~Hand(p)'
      BY <1>1, <1>2 DEF Pending, Hand
    <2>2. Waited(p, result[p])
      BY <1>4, <2>1 DEF GraceAt
    <2>3. SigOf(result[p]) # NoSig /\ SigOf(result[p]).since = result[p].since
      BY <1>2, TypeSigOf, SentinelAssumption DEF SigOf
    <2>4. CASE ShouldPersist(p)
      <3>1. table' = Upserted(p) /\ lastSig' = [lastSig EXCEPT ![p] = SigOf(result[p])]
        BY <2>4 DEF Persist
      <3>2. table'[p].since = result[p].since
        BY <1>2, <3>1 DEF Upserted, Inductive, TypeOK, Row
      <3>3. lastSig'[p] = SigOf(result[p])
        BY <3>1 DEF Inductive, TypeOK
      <3> QED
        BY <1>1, <1>4, <2>1, <2>2, <2>3, <3>2, <3>3 DEF GraceAt, Waited
    <2>5. CASE ~ShouldPersist(p)
      <3>1. table' = table /\ lastSig' = lastSig /\ lastSig[p] = SigOf(result[p])
        BY <2>5 DEF Persist, ShouldPersist
      <3>2. Exists(p) /\ table[p].since # Nil => table[p].since = result[p].since
        BY <1>4, <2>3, <3>1 DEF GraceAt
      <3> QED
        BY <1>1, <1>4, <2>1, <2>2, <2>3, <3>1, <3>2 DEF GraceAt, Waited, Exists
    <2> QED
      BY <2>4, <2>5
  <1> QED
    BY <1>3, <1>4

\* The age in a row or a signature, one poll interval later.
LEMMA AgedSince ==
    ASSUME NEW r \in Row \cup Sig, r # NoRow, r # NoSig
    PROVE  /\ r.since \in (0..Grace) \cup {Nil}
           /\ AgedRow(r).since = IF r.since = Nil THEN Nil ELSE Older(r.since, Grace)
  BY DEF AgedRow, Row, Sig

\* Ages and silences grow together.
LEMMA TickGrace ==
    ASSUME Inductive, Tick, NEW q \in Printers, GraceAt(q)
    PROVE  GraceAt(q)'
  <1>1. /\ table[q] \in Row \cup {NoRow} /\ table'[q] = AgedRow(table[q])
        /\ snap[q] \in Row \cup {NoRow} /\ snap'[q] = AgedRow(snap[q])
        /\ result[q] \in Row \cup {NoRow} /\ result'[q] = AgedRow(result[q])
        /\ lastSig[q] \in Sig \cup {NoSig} /\ lastSig'[q] = AgedRow(lastSig[q])
        /\ silent[q] \in Nat /\ silent'[q] = Older(silent[q], Grace)
    BY DEF Inductive, TypeOK, Tick
  <1>2. /\ Pending(q)' <=> Pending(q)
        /\ (snap'[q] = NoRow) <=> (snap[q] = NoRow)
        /\ (result'[q] = NoRow) <=> (result[q] = NoRow)
        /\ (table'[q] = NoRow) <=> (table[q] = NoRow)
    BY TickKeepsJobs
  <1>3. /\ Hand(q)' <=> Hand(q)
        /\ Exists(q)' <=> Exists(q)
    BY <1>2 DEF Hand, Exists
  <1>4. /\ snap[q] # NoRow => snap'[q].status = snap[q].status
        /\ result[q] # NoRow => result'[q].status = result[q].status
        /\ table[q] # NoRow => table'[q].status = table[q].status
    BY <1>1, AgedRowKeeps
  <1>5. Grace \in Nat
    BY ConstantsAssumption
  <1>6. silent'[q] >= silent[q]
    BY <1>1, <1>5 DEF Older
  <1>7. \A r \in Row : Waited(q, r) => (AgedRow(r).since # Nil => silent'[q] >= AgedRow(r).since)
    <2>1. SUFFICES ASSUME NEW r \in Row, Waited(q, r), AgedRow(r).since # Nil
                   PROVE  silent'[q] >= AgedRow(r).since
      OBVIOUS
    <2>3. r # NoSig /\ r # NoRow
      BY SentinelAssumption
    <2>4. /\ r.since \in (0..Grace) \cup {Nil}
          /\ AgedRow(r).since = IF r.since = Nil THEN Nil ELSE Older(r.since, Grace)
      BY <2>3, AgedSince
    <2>5. r.since # Nil
      BY <2>1, <2>4
    <2> QED
      BY <1>1, <1>5, <2>1, <2>4, <2>5 DEF Waited, Older
  <1>8. Exists(q) /\ table'[q].since # Nil =>
          lastSig'[q] # NoSig /\ lastSig'[q].since = table'[q].since
    <2>1. SUFFICES ASSUME Exists(q), table'[q].since # Nil
                   PROVE  lastSig'[q] # NoSig /\ lastSig'[q].since = table'[q].since
      OBVIOUS
    <2>2. table[q] \in Row /\ table[q] # NoRow
      BY <1>1, <2>1 DEF Exists
    <2>3. table[q].since # Nil
      BY <1>1, <2>1, <2>2, AgedSince DEF AgedRow
    <2>4. lastSig[q] # NoSig /\ lastSig[q].since = table[q].since /\ lastSig[q] \in Sig
      BY <1>1, <2>1, <2>3 DEF GraceAt
    <2>5. /\ table[q] # NoSig /\ lastSig[q] # NoRow
      BY <2>2, <2>4, SentinelAssumption
    <2>6. /\ table'[q].since = Older(table[q].since, Grace)
          /\ lastSig'[q].since = Older(lastSig[q].since, Grace)
      BY <1>1, <2>2, <2>3, <2>4, <2>5, AgedSince
    <2>7. lastSig'[q] # NoSig
      <3>1. lastSig'[q] = [lastSig[q] EXCEPT !.since = Older(lastSig[q].since, Grace)]
        BY <1>1, <2>3, <2>4, <2>5 DEF AgedRow
      <3>2. Older(lastSig[q].since, Grace) \in 0..Grace
        BY <1>5, <2>3, <2>4 DEF Sig, Older
      <3>3. lastSig'[q] \in Sig
        BY <2>4, <3>1, <3>2 DEF Sig
      <3> QED
        BY <3>3, SentinelAssumption
    <2> QED
      BY <2>4, <2>6, <2>7
  <1>9. Exists(q)' /\ ~Hand(q)' => Waited(q, table[q])'
    BY <1>1, <1>3, <1>7 DEF GraceAt, Waited, Exists
  <1>10. Pending(q)' /\ result'[q] = NoRow => Waited(q, snap[q])'
    <2>1. Pending(q) /\ result[q] = NoRow => snap[q] \in Row
      BY <1>1 DEF Pending, Inductive, CycleShape
    <2> QED
      BY <1>1, <1>2, <1>7, <2>1 DEF GraceAt, Waited
  <1>11. Hand(q)' =>
           /\ Waited(q, result[q])'
           /\ result'[q].status = "offline" => silent'[q] >= Grace \/ snap'[q].status = "offline"
    <2>1. SUFFICES ASSUME Hand(q)
                   PROVE  /\ Waited(q, result[q])'
                          /\ result'[q].status = "offline" =>
                               silent'[q] >= Grace \/ snap'[q].status = "offline"
      BY <1>3
    <2>2. result[q] \in Row /\ result[q] # NoRow /\ snap[q] # NoRow
      BY <1>1, <2>1 DEF Hand, Inductive, CycleShape
    <2>3. Waited(q, result[q])'
      BY <1>1, <1>7, <2>1, <2>2 DEF GraceAt, Waited
    <2>4. silent[q] >= Grace => silent'[q] >= Grace
      BY <1>1, <1>5 DEF Older
    <2> QED
      BY <1>4, <2>1, <2>2, <2>3, <2>4 DEF GraceAt
  <1>12. Pending(q)' /\ Exists(q)' => table'[q].status \in {"offline", snap'[q].status}
    <2>1. Pending(q) => snap[q] # NoRow
      BY DEF Pending, Inductive, CycleShape
    <2> QED
      BY <1>2, <1>3, <1>4, <2>1 DEF GraceAt, Exists
  <1>13. Exists(q)' /\ table'[q].since # Nil =>
           lastSig'[q] # NoSig /\ lastSig'[q].since = table'[q].since
    BY <1>3, <1>8
  <1> QED
    BY <1>9, <1>10, <1>11, <1>12, <1>13 DEF GraceAt

\* Only a fault makes the count of faults left go down.
LEMMA FaultsCounted ==
    ASSUME Inductive, GraceInv, [Next]_vars
    PROVE  /\ budget'["fault"] <= MaxFaults
           /\ budget'["fault"] = MaxFaults => Faultless
           /\ Failure => budget'["fault"] # MaxFaults
  <1>1. budget \in [{"save", "delete", "set", "run", "drop", "fault"} -> Nat]
          /\ MaxFaults \in Nat /\ budget["fault"] <= MaxFaults
    BY DEF Inductive, TypeOK, GraceInv
  <1>2. ASSUME Spend("fault")
        PROVE  budget'["fault"] <= MaxFaults /\ budget'["fault"] # MaxFaults
    BY <1>1, <1>2 DEF Spend
  <1>3. CASE Failure
    BY <1>2, <1>3 DEF Failure, DbError, Crash, LoseAck
  <1>4. ASSUME NEW k \in {"save", "delete", "set", "run", "drop"}, Spend(k)
        PROVE  budget'["fault"] = budget["fault"]
    BY <1>1, <1>4 DEF Spend
  <1>5. CASE PollerStep \/ Tick \/ UNCHANGED vars
    <2>1. budget' = budget
      BY <1>5 DEF PollerStep, Tick, vars, StartCycle, StartApply, EndCycle, Refresh, Accrue,
                  CountJob, Persist
    <2> QED
      BY <1>1, <1>3, <2>1 DEF Faultless
  <1>6. CASE WebStep
    <2>1. budget' = budget \/ Spend("save") \/ Spend("delete") \/ Spend("set") \/ Spend("fault")
      BY <1>6 DEF WebStep, SavePrinter, DeletePrinter, SendTarget, StoreTarget, LoseTarget
    <2> QED
      BY <1>1, <1>2, <1>3, <1>4, <2>1 DEF Faultless
  <1>7. CASE PrinterStep
    <2>1. budget' = budget \/ Spend("run") \/ Spend("drop")
      BY <1>7 DEF PrinterStep, StartJob, FinishJob, GoDown, ComeUp
    <2> QED
      BY <1>1, <1>3, <1>4, <2>1 DEF Faultless
  <1> QED
    BY <1>3, <1>5, <1>6, <1>7 DEF Next

LEMMA GraceNext == Inductive /\ GraceInv /\ [Next]_vars => GraceInv'
  <1> SUFFICES ASSUME Inductive, GraceInv, [Next]_vars PROVE GraceInv'
    OBVIOUS
  <1>1. SUFFICES ASSUME Faultless', NEW q \in Printers PROVE GraceAt(q)'
    BY FaultsCounted DEF GraceInv
  <1>2. GraceAt(q) /\ ~Failure
    BY <1>1, FaultsCounted DEF GraceInv, Faultless
  <1>3. CASE PollerStep
    BY <1>2, <1>3, StartGrace, RefreshGrace, CountingGrace, PersistGrace DEF PollerStep
  <1>4. CASE Tick
    BY <1>2, <1>4, TickGrace
  <1>5. CASE WebStep \/ PrinterStep \/ UNCHANGED vars
    BY <1>2, <1>5, OthersGrace
  <1> QED
    BY <1>2, <1>3, <1>4, <1>5 DEF Next

\* Unless it is written back, no row becomes an offline one.
LEMMA QuietWithoutWrite ==
    ASSUME Inductive, PollerStep \/ Tick \/ Failure, NEW q \in Printers,
           ~(Pending(q) /\ ReadyToPersist(q) /\ table' = Upserted(q))
    PROVE  Exists(q)' => Exists(q) /\ table'[q].status = table[q].status
  <1>1. CASE UNCHANGED table
    BY <1>1 DEF Exists
  <1>2. ASSUME NEW p \in Printers, Accrue(p)
        PROVE  Exists(q)' => Exists(q) /\ table'[q].status = table[q].status
    <2>1. CASE ~Exists(p)
      BY <1>2, <2>1, <1>1 DEF Accrue
    <2>2. CASE Exists(p)
      <3>1. table[p] \in Row
        BY <2>2 DEF Inductive, TypeOK, Exists
      <3>2. /\ table'[p].status = table[p].status
            /\ \A r \in Printers \ {p} : table'[r] = table[r]
        BY <1>2, <2>2, <3>1, TypeFacts DEF Accrue, Inductive, Row
      <3> QED
        BY <2>2, <3>2 DEF Exists
    <2> QED
      BY <2>1, <2>2
  <1>3. ASSUME NEW p \in Printers, ReadyToPersist(p), table' = Upserted(p)
        PROVE  Exists(q)' => Exists(q) /\ table'[q].status = table[q].status
    <2>1. Pending(p) /\ result[p] # NoRow
      BY <1>3 DEF Pending, ReadyToPersist, Inductive, CycleShape
    <2>2. q # p /\ table'[q] = table[q]
      BY <1>3, <2>1, UpsertedRow DEF Inductive
    <2> QED
      BY <2>2 DEF Exists
  <1>4. CASE Tick
    <2>1. table[q] \in Row \cup {NoRow} /\ table'[q] = AgedRow(table[q])
      BY <1>4 DEF Inductive, TypeOK, Tick
    <2> QED
      BY <2>1, AgedRowKeeps DEF Exists
  <1>5. ASSUME NEW p \in Printers, Persist(p) \/ LoseAck(p)
        PROVE  UNCHANGED table \/ (ReadyToPersist(p) /\ table' = Upserted(p))
    BY <1>5 DEF Persist, LoseAck
  <1>6. ASSUME NEW p \in Printers, Refresh(p) \/ CountJob(p) PROVE UNCHANGED table
    BY <1>6 DEF Refresh, CountJob
  <1>7. ASSUME StartCycle \/ StartApply \/ EndCycle \/ DbError \/ Crash
        PROVE  UNCHANGED table
    BY <1>7 DEF StartCycle, StartApply, EndCycle, DbError, Crash
  <1> QED
    BY <1>1, <1>2, <1>3, <1>4, <1>5, <1>6, <1>7 DEF PollerStep, Failure

\* Until a cycle has failed, a row is made an offline one only after its printer
\* has answered no refresh for the whole grace period, whatever is edited, deleted
\* and inserted meanwhile (applyOfflineGracePeriod, and the write-back that skips
\* rows it believes unchanged).
THEOREM GraceKept == Spec => OfflineOnlyAfterGrace
  <1>1. ASSUME Inductive, GraceInv, [Next]_vars, NEW p \in Printers,
               Exists(p), table'[p] # NoRow,
               table[p].status # "offline", table'[p].status = "offline"
        PROVE  silent[p] >= Grace \/ budget["fault"] < MaxFaults
    <2>1. CASE ~Faultless
      <3>1. budget["fault"] \in Nat
        BY <1>1 DEF Inductive, TypeOK
      <3> QED
        BY <1>1, <2>1, <3>1 DEF GraceInv, Faultless
    <2>2. CASE Faultless
      <3>1. GraceAt(p)
        BY <1>1, <2>2 DEF GraceInv
      <3>2. Pending(p) /\ ReadyToPersist(p) /\ table' = Upserted(p)
        BY <1>1, OthersQuiet, QuietWithoutWrite DEF Next, RowQuiet, Exists
      <3>3. result[p] # NoRow
        BY <1>1, <3>2 DEF ReadyToPersist, Inductive, CycleShape
      <3>4. table'[p].status = result[p].status
        <4>1. Upserted(p)[p].status = result[p].status
          BY <1>1, <3>3, UpsertedRow DEF Inductive
        <4> QED
          BY <3>2, <4>1
      <3> QED
        BY <1>1, <3>1, <3>2, <3>3, <3>4 DEF GraceAt, Hand
    <2> QED
      BY <2>1, <2>2
  <1>2. Inductive /\ GraceInv /\ [Next]_vars =>
           [\A p \in Printers :
              /\ Exists(p) /\ table'[p] # NoRow
              /\ table[p].status # "offline" /\ table'[p].status = "offline"
              => silent[p] >= Grace \/ budget["fault"] < MaxFaults]_vars
    BY <1>1
  <1>3. Spec => []GraceInv
    BY GraceInit, GraceNext, InductiveHolds, PTL DEF Spec
  <1> QED
    BY <1>2, <1>3, InductiveHolds, PTL DEF Spec, OfflineOnlyAfterGrace
=============================================================================
