------------------------ MODULE FilamentBilling_proofs ------------------------
(* Theorems about FilamentBilling, for every file, tray, spool and bound.    *)
EXTENDS FilamentBilling, FiniteSetTheorems, TLAPS

\* A job and its print number come together, and a billing has a baseline and
\* slots of the file it bills.
JobShape(j) == j \in Job /\ (j.file = NoFile <=> j.print = 0)

TypeInv ==
    /\ TypeOK
    /\ JobShape(dev.job) /\ JobShape(row) /\ JobShape(next.job)
    /\ dev.job.print <= prints
    /\ phase = "billing" =>
         /\ bill.from \in Base
         /\ row.file \in Files
         /\ bill.slots \subseteq DOMAIN SlotsOf[row.file]

LEMMA NoJobShape == JobShape(NoJob)
BY ConstantsAssumption DEF JobShape, NoJob, Job

LEMMA NoResultType == NoResult \in [job : Job, offline : BOOLEAN, grams : Grams] /\ NoResult.job = NoJob
<1>1. [t \in Trays |-> 0] \in Grams
  BY ConstantsAssumption DEF Grams
<1> QED BY <1>1, NoJobShape DEF NoResult, JobShape

LEMMA NoBillType ==
    NoBill \in [slots : SUBSET Nat, trays : SUBSET Trays, handled : SUBSET Trays,
                from : Base \cup {NoBase}]
BY DEF NoBill

\* resolveSlotToTray names a tray, or none.
LEMMA TrayOfType ==
    ASSUME NEW slots, NEW s \in DOMAIN slots, NEW load \in Loads
    PROVE  TrayOf(slots, load, s) \in Trays \cup {NoTray}
<1>1. Mapped(load, s) \in Trays \cup {NoTray}
  BY ConstantsAssumption DEF Mapped
<1>2. ASSUME ByColor(slots, load) # {} PROVE Lone(ByColor(slots, load))[s] \in Trays
  <2>1. Lone(ByColor(slots, load)) \in ByColor(slots, load)
    BY <1>2 DEF Lone
  <2> QED BY <2>1 DEF ByColor
<1>3. ASSUME NthLoaded(load, s) # {} PROVE Lone(NthLoaded(load, s)) \in Trays
  <2>1. Lone(NthLoaded(load, s)) \in NthLoaded(load, s)
    BY <1>3 DEF Lone
  <2> QED BY <2>1, ConstantsAssumption DEF NthLoaded
<1>4. load.active \in Trays \cup {NoTray}
  BY ConstantsAssumption
<1> DEFINE colored == IF load.mapping = << >> THEN ByColor(slots, load) ELSE {}
<1>5. colored # {} => Lone(colored)[s] \in Trays
  BY <1>2
<1> QED BY <1>1, <1>3, <1>4, <1>5 DEF TrayOf

\* A charge for a tray is a record of a billing under way.
LEMMA ChargeType ==
    ASSUME TypeInv, phase = "billing", NEW t \in Trays, NEW path \in {"slot", "delta"},
           NEW slot \in Nat, Charge(t, path, slot)
    PROVE  charges' \subseteq [bill : Nat, billed : 1..MaxPrints, of : 1..MaxPrints,
                              mapped : BOOLEAN, tray : Trays, path : {"slot", "delta"},
                              slot : Nat]
<1>1. bills \in Nat /\ row.print \in 1..MaxPrints /\ bill.from.print \in 1..MaxPrints
  BY ConstantsAssumption DEF TypeInv, TypeOK, JobShape, Job, Base
<1> DEFINE isMapped == bill.from.load.mapping # << >>
           d == [bill |-> bills, billed |-> row.print, of |-> bill.from.print,
                 mapped |-> isMapped, tray |-> t, path |-> path, slot |-> slot]
<1>2. charges' = charges \cup {d}
  BY DEF Charge
<1>3. isMapped \in BOOLEAN
  OBVIOUS
<1> HIDE DEF isMapped
<1>4. d \in [bill : Nat, billed : 1..MaxPrints, of : 1..MaxPrints,
             mapped : BOOLEAN, tray : Trays, path : {"slot", "delta"}, slot : Nat]
  BY <1>1, <1>3
<1> HIDE DEF d
<1> QED BY <1>2, <1>4 DEF TypeInv, TypeOK

LEMMA TypeInit == Init => TypeInv
<1> SUFFICES ASSUME Init PROVE TypeInv
  OBVIOUS
<1>1. [t \in Trays |-> Full] \in Grams
  BY ConstantsAssumption DEF Grams
<1>2. dev \in [up : BOOLEAN, job : Job, load : Loads, grams : Grams] /\ dev.job = NoJob
  BY <1>1, NoJobShape DEF Init, JobShape
<1>3. budget \in [{"fault", "drop", "swap"} -> Nat]
  BY ConstantsAssumption DEF Init
<1>4. TypeOK
  BY <1>2, <1>3, NoResultType, NoBillType, NoJobShape, ConstantsAssumption
     DEF Init, TypeOK, JobShape
<1>5. NoJob.print = 0
  BY DEF NoJob
<1> QED BY <1>2, <1>4, <1>5, NoResultType, NoJobShape DEF Init, TypeInv

LEMMA TypeNext == TypeInv /\ [Next]_vars => TypeInv'
<1> SUFFICES ASSUME TypeInv, [Next]_vars PROVE TypeInv'
  OBVIOUS
<1> USE DEF TypeInv
<1>1. CASE Refresh
  <2>1. /\ next' \in [job : Job, offline : BOOLEAN, grams : Grams]
        /\ JobShape(next'.job)
    <3>1. CASE next' = [job |-> dev.job, offline |-> FALSE, grams |-> dev.grams]
      BY <3>1 DEF TypeOK
    <3>2. CASE next' = [NoResult EXCEPT !.job = row]
      <4>1. next'.job = row
        BY <3>2, NoResultType
      <4> QED BY <3>2, <4>1, NoResultType DEF TypeOK
    <3>3. CASE next' = [NoResult EXCEPT !.offline = TRUE]
      <4>1. next'.job = NoJob
        BY <3>3, NoResultType
      <4> QED BY <3>3, <4>1, NoResultType, NoJobShape
    <3> QED BY <1>1, <3>1, <3>2, <3>3 DEF Refresh
  <2>2. Tracked \in Base \cup {NoBase}
    <3>1. CASE dev.job.file = NoFile
      BY <3>1 DEF Tracked, TypeOK
    <3>2. CASE dev.job.file # NoFile /\ (base = NoBase \/ base.file # dev.job.file)
      <4>1. dev.job.file \in Files /\ dev.job.print \in 1..MaxPrints
        BY <3>2, ConstantsAssumption DEF JobShape, Job
      <4> QED BY <3>2, <4>1 DEF Tracked, Base, TypeOK
    <3>3. CASE dev.job.file # NoFile /\ base # NoBase /\ base.file = dev.job.file
      <4>1. base \in Base /\ dev.grams \in Grams
        BY <3>3 DEF TypeOK
      <4>2. [t \in Trays |-> IF base.grams[t] = 0 THEN dev.grams[t] ELSE base.grams[t]] \in Grams
        BY <4>1 DEF Grams, Base
      <4> QED BY <3>3, <4>1, <4>2 DEF Tracked, Base
    <3> QED BY <3>1, <3>2, <3>3
  <2>3. base' \in Base \cup {NoBase}
    BY <1>1, <2>2 DEF Refresh, TypeOK
  <2> QED BY <1>1, <2>1, <2>3 DEF Refresh, TypeOK
<1>2. CASE NothingToBill
  BY <1>2 DEF NothingToBill, TypeOK
<1>3. CASE TakeBaseline
  <2>1. row.file \in Files /\ base \in Base
    BY <1>3 DEF TakeBaseline, Ended, TypeOK, Job
  <2>2. PICK slots \in SUBSET DOMAIN SlotsOf[row.file] :
          bill' = [slots |-> slots, trays |-> Trays, handled |-> {}, from |-> base]
    BY <1>3 DEF TakeBaseline
  <2>3. slots \subseteq Nat
    BY <2>1, <2>2, ConstantsAssumption
  <2>4. bill' \in [slots : SUBSET Nat, trays : SUBSET Trays, handled : SUBSET Trays,
                   from : Base \cup {NoBase}]
    BY <2>1, <2>2, <2>3
  <2>5. /\ UNCHANGED <<dev, row, assigned, next, budget, prints, charges>>
        /\ phase' = "billing" /\ bills' = bills + 1 /\ base' = NoBase
    BY <1>3 DEF TakeBaseline, AfterTake
  <2>6. TypeOK'
    BY <2>4, <2>5 DEF TypeOK
  <2>7. bill'.from = base /\ bill'.slots = slots
    BY <2>2
  <2> QED BY <2>1, <2>5, <2>6, <2>7
<1>4. ASSUME NEW s \in bill.slots, BillSlot(s) PROVE TypeInv'
  <2> DEFINE t == TrayOf(SlotsOf[row.file], bill.from.load, s)
  <2>1. phase = "billing" /\ UNCHANGED <<dev, row, assigned, phase, next, base, budget, prints, bills>>
    BY <1>4 DEF BillSlot
  <2>2. s \in Nat /\ t \in Trays \cup {NoTray}
    BY <2>1, TrayOfType DEF Base, TypeOK
  <2>3. CASE t # NoTray /\ assigned[t] # NoSpool
    <3>1. /\ Charge(t, "slot", s)
          /\ bill' = [bill EXCEPT !.slots = @ \ {s}, !.handled = @ \cup {t}]
      BY <1>4, <2>3 DEF BillSlot
    <3>2. charges' \subseteq [bill : Nat, billed : 1..MaxPrints, of : 1..MaxPrints,
                             mapped : BOOLEAN, tray : Trays, path : {"slot", "delta"},
                             slot : Nat]
      BY <2>1, <2>2, <2>3, <3>1, ChargeType
    <3>3. /\ bill' \in [slots : SUBSET Nat, trays : SUBSET Trays, handled : SUBSET Trays,
                        from : Base \cup {NoBase}]
          /\ bill'.slots \subseteq bill.slots /\ bill'.from = bill.from
      BY <2>2, <2>3, <3>1 DEF TypeOK
    <3> QED BY <2>1, <3>2, <3>3 DEF TypeOK
  <2>4. CASE ~(t # NoTray /\ assigned[t] # NoSpool)
    <3>1. charges' = charges /\ bill' = [bill EXCEPT !.slots = @ \ {s}]
      BY <1>4, <2>4 DEF BillSlot
    <3>2. /\ bill' \in [slots : SUBSET Nat, trays : SUBSET Trays, handled : SUBSET Trays,
                        from : Base \cup {NoBase}]
          /\ bill'.slots \subseteq bill.slots /\ bill'.from = bill.from
      BY <3>1 DEF TypeOK
    <3> QED BY <2>1, <3>1, <3>2 DEF TypeOK
  <2> QED BY <2>3, <2>4
<1>5. ASSUME NEW t \in Trays, BillTray(t) PROVE TypeInv'
  <2>1. phase = "billing" /\ UNCHANGED <<dev, row, assigned, phase, next, base, budget, prints, bills>>
    BY <1>5 DEF BillTray
  <2>2. charges' \subseteq [bill : Nat, billed : 1..MaxPrints, of : 1..MaxPrints,
                           mapped : BOOLEAN, tray : Trays, path : {"slot", "delta"},
                           slot : Nat]
    BY <1>5, <2>1, ChargeType DEF BillTray, TypeOK
  <2>3. /\ bill' \in [slots : SUBSET Nat, trays : SUBSET Trays, handled : SUBSET Trays,
                      from : Base \cup {NoBase}]
        /\ bill'.slots = bill.slots /\ bill'.from = bill.from
    BY <1>5 DEF BillTray, TypeOK
  <2> QED BY <2>1, <2>2, <2>3 DEF TypeOK
<1>6. CASE EndBilling
  BY <1>6, NoBillType DEF EndBilling, TypeOK
<1>7. CASE Persist
  BY <1>7, NoResultType, NoJobShape DEF Persist, TypeOK
<1>8. CASE LoseBilling \/ DropCycle \/ Crash
  BY <1>8, NoBillType, NoResultType, NoJobShape DEF LoseBilling, DropCycle, Crash, Spend, TypeOK
<1>9. CASE World
  <2>1. UNCHANGED <<row, phase, next, base, bill, bills, charges>>
    BY <1>9 DEF World, pollerVars, StartPrint, EndPrint, GoDown, ComeUp, Feed, Reload, Assign
  <2> DEFINE DevOK ==
        /\ dev' \in [up : BOOLEAN, job : Job, load : Loads, grams : Grams]
        /\ JobShape(dev'.job)
        /\ prints' \in 0..MaxPrints /\ dev'.job.print <= prints'
  <2>2. ASSUME NEW f \in Files, NEW l \in Loads, StartPrint(f, l) PROVE DevOK
    <3>1. prints' \in 1..MaxPrints
      BY <2>2, ConstantsAssumption DEF StartPrint, TypeOK
    <3>2. JobShape([file |-> f, print |-> prints'])
      BY <3>1, ConstantsAssumption DEF JobShape, Job
    <3>3. dev' = [dev EXCEPT !.job = [file |-> f, print |-> prints'], !.load = l]
      BY <2>2 DEF StartPrint
    <3>4. dev'.job = [file |-> f, print |-> prints']
      BY <3>3 DEF TypeOK
    <3>5. dev' \in [up : BOOLEAN, job : Job, load : Loads, grams : Grams]
      BY <3>2, <3>3 DEF TypeOK, JobShape
    <3> QED BY <3>1, <3>2, <3>4, <3>5
  <2>3. ASSUME EndPrint PROVE DevOK
    <3>1. dev' = [dev EXCEPT !.job = NoJob] /\ prints' = prints
      BY <2>3 DEF EndPrint
    <3>2. NoJob \in Job /\ NoJob.print = 0
      BY NoJobShape DEF JobShape, NoJob
    <3>3. dev' \in [up : BOOLEAN, job : Job, load : Loads, grams : Grams] /\ dev'.job = NoJob
      BY <3>1, <3>2 DEF TypeOK
    <3> QED BY <3>1, <3>2, <3>3, NoJobShape DEF TypeOK
  <2>4. ASSUME NEW t \in Trays, Feed(t) \/ Reload(t) PROVE DevOK
    <3>1. \E g \in 0..Full : dev' = [dev EXCEPT !.grams[t] = g]
      BY <2>4, ConstantsAssumption DEF Feed, Reload, TypeOK, Grams
    <3>2. dev' \in [up : BOOLEAN, job : Job, load : Loads, grams : Grams] /\ dev'.job = dev.job
      BY <3>1 DEF TypeOK, Grams
    <3> QED BY <2>4, <3>2 DEF Feed, Reload, TypeOK
  <2>5. ASSUME GoDown \/ ComeUp PROVE DevOK
    BY <2>5 DEF GoDown, ComeUp, TypeOK
  <2>6. ASSUME NEW t \in Trays, NEW s \in Spools \cup {NoSpool}, Assign(t, s) PROVE DevOK
    BY <2>6 DEF Assign, TypeOK
  <2>7. DevOK
    BY <1>9, <2>2, <2>3, <2>4, <2>5, <2>6 DEF World
  <2>8. assigned' \in [Trays -> Spools \cup {NoSpool}]
    BY <1>9 DEF World, pollerVars, StartPrint, EndPrint, GoDown, ComeUp, Feed, Reload, Assign, TypeOK
  <2>9. budget' \in [{"fault", "drop", "swap"} -> Nat]
    <3>1. budget' = budget \/ Spend("drop") \/ Spend("swap")
      BY <1>9 DEF World, StartPrint, EndPrint, GoDown, ComeUp, Feed, Reload, Assign
    <3>2. ASSUME NEW k \in {"fault", "drop", "swap"}, Spend(k) PROVE budget' \in [{"fault", "drop", "swap"} -> Nat]
      BY <3>2 DEF Spend, TypeOK
    <3> QED BY <3>1, <3>2 DEF TypeOK
  <2> QED BY <2>1, <2>7, <2>8, <2>9 DEF TypeOK
<1>10. CASE UNCHANGED vars
  BY <1>10 DEF vars, TypeOK
<1> QED
  BY <1>1, <1>2, <1>3, <1>4, <1>5, <1>6, <1>7, <1>8, <1>9, <1>10 DEF Next, Cycle

LEMMA TypeInvHolds == Spec => []TypeInv
<1> QED BY TypeInit, TypeNext, PTL DEF Spec

\* Every charge names a print, a tray and a baseline there is.
THEOREM TypeCorrect == Spec => []TypeOK
<1>1. TypeInv => TypeOK
  BY DEF TypeInv
<1> QED BY <1>1, TypeInvHolds, PTL

-----------------------------------------------------------------------------
(* The two paths of a billing.                                             *)

\* Billings are numbered as they begin, and the slots of a file come before the
\* trays, so that a tray charged for a slot is in bill.handled by then.
PathInv ==
    /\ bills \in Nat
    /\ \A c \in charges : /\ c.bill \in Nat /\ c.bill <= bills
                           /\ c.path \in {"slot", "delta"}
    /\ phase = "billing" => \A c \in charges : c.bill = bills =>
         /\ c.path = "slot" => c.tray \in bill.handled
         /\ bill.slots # {} => c.path = "slot"
    /\ OnePathPerTray

LEMMA PathNext == PathInv /\ [Next]_vars => PathInv'
<1> SUFFICES ASSUME PathInv, [Next]_vars PROVE PathInv'
  OBVIOUS
<1>1. CASE UNCHANGED <<bills, charges, phase, bill>>
  BY <1>1 DEF PathInv, OnePathPerTray
<1>2. CASE phase' # "billing" /\ UNCHANGED <<bills, charges>>
  BY <1>2 DEF PathInv, OnePathPerTray
<1>3. CASE TakeBaseline
  BY <1>3 DEF TakeBaseline, PathInv, OnePathPerTray
<1>4. ASSUME NEW s \in bill.slots, BillSlot(s) PROVE PathInv'
  <2> DEFINE t == TrayOf(SlotsOf[row.file], bill.from.load, s)
  <2>1. CASE t # NoTray /\ assigned[t] # NoSpool
    <3> DEFINE d == [bill |-> bills, billed |-> row.print, of |-> bill.from.print,
                     mapped |-> bill.from.load.mapping # << >>,
                     tray |-> t, path |-> "slot", slot |-> s]
    <3>1. /\ charges' = charges \cup {d}
          /\ bill' = [bill EXCEPT !.slots = @ \ {s}, !.handled = @ \cup {t}]
          /\ phase = "billing" /\ phase' = phase /\ bills' = bills
      BY <1>4, <2>1 DEF BillSlot, Charge
    <3>2. \A c \in charges : c.bill = bills => c.path = "slot"
      BY <3>1 DEF PathInv
    <3>3. d.bill = bills /\ d.path = "slot" /\ d.tray = t
      OBVIOUS
    <3>4. OnePathPerTray'
      BY <3>1, <3>2, <3>3 DEF PathInv, OnePathPerTray
    <3>5. \A c \in charges' : c.bill \in Nat /\ c.bill <= bills /\ c.path \in {"slot", "delta"}
      BY <3>1, <3>3 DEF PathInv
    <3>6. \A c \in charges' : c.bill = bills => c.path = "slot"
      BY <3>1, <3>2, <3>3
    <3>7. \A c \in charges' : c.bill = bills => c.tray \in bill'.handled
      BY <3>1, <3>2, <3>3 DEF PathInv
    <3> QED BY <3>1, <3>4, <3>5, <3>6, <3>7 DEF PathInv
  <2>2. CASE ~(t # NoTray /\ assigned[t] # NoSpool)
    <3>1. /\ UNCHANGED <<charges, phase, bills>>
          /\ bill' = [bill EXCEPT !.slots = @ \ {s}]
      BY <1>4, <2>2 DEF BillSlot
    <3> QED BY <3>1 DEF PathInv, OnePathPerTray
  <2> QED BY <2>1, <2>2
<1>5. ASSUME NEW t \in Trays, BillTray(t) PROVE PathInv'
  <2>1. /\ phase = "billing" /\ phase' = phase /\ bills' = bills /\ bill.slots = {}
        /\ bill' = [bill EXCEPT !.trays = @ \ {t}]
    BY <1>5 DEF BillTray
  <2>2. CASE Lost(t)
    <3> DEFINE d == [bill |-> bills, billed |-> row.print, of |-> bill.from.print,
                     mapped |-> bill.from.load.mapping # << >>,
                     tray |-> t, path |-> "delta", slot |-> 0]
    <3>1. charges' = charges \cup {d} /\ t \notin bill.handled
      BY <1>5, <2>2 DEF BillTray, Charge, Lost
    <3>2. d.bill = bills /\ d.path = "delta" /\ d.tray = t
      OBVIOUS
    <3>3. \A c \in charges : c.bill = bills /\ c.tray = t => c.path # "slot"
      BY <2>1, <3>1 DEF PathInv
    <3>4. OnePathPerTray'
      BY <3>1, <3>2, <3>3 DEF PathInv, OnePathPerTray
    <3>5. \A c \in charges' : c.bill \in Nat /\ c.bill <= bills /\ c.path \in {"slot", "delta"}
      BY <3>1, <3>2 DEF PathInv
    <3>6. \A c \in charges' : c.bill = bills /\ c.path = "slot" => c.tray \in bill'.handled
      BY <2>1, <3>1, <3>2 DEF PathInv
    <3> QED BY <2>1, <3>4, <3>5, <3>6 DEF PathInv
  <2>3. CASE ~Lost(t)
    <3>1. charges' = charges
      BY <1>5, <2>3 DEF BillTray
    <3> QED BY <2>1, <3>1 DEF PathInv, OnePathPerTray
  <2> QED BY <2>2, <2>3
<1>6. ASSUME World \/ UNCHANGED vars PROVE UNCHANGED <<bills, charges, phase, bill>>
  BY <1>6 DEF World, vars, pollerVars, StartPrint, EndPrint, GoDown, ComeUp, Feed,
              Reload, Assign
<1>7. ASSUME Refresh \/ NothingToBill \/ EndBilling \/ Persist \/ LoseBilling
             \/ DropCycle \/ Crash
      PROVE  phase' # "billing" /\ UNCHANGED <<bills, charges>>
  BY <1>7 DEF Refresh, NothingToBill, EndBilling, Persist, LoseBilling, DropCycle, Crash
<1> QED
  BY <1>1, <1>2, <1>3, <1>4, <1>5, <1>6, <1>7 DEF Next, Cycle

\* The slots of the sliced file and the AMS-delta fallback of one billing never
\* charge the same tray, whatever fails or is reassigned between the charges.
THEOREM ChargedByOnePath == Spec => []OnePathPerTray
<1>1. Init => PathInv
  BY DEF Init, PathInv, OnePathPerTray
<1>2. PathInv => OnePathPerTray
  BY DEF PathInv
<1> QED BY <1>1, <1>2, PathNext, PTL DEF Spec

-----------------------------------------------------------------------------
(* The baseline and the row.                                               *)

Calm == budget["drop"] = MaxDrops /\ budget["fault"] = MaxFaults

\* While nothing has failed, the baseline follows the job from the refresh to
\* the row.
BaseInv ==
    /\ budget["drop"] \in Nat /\ budget["drop"] <= MaxDrops
    /\ budget["fault"] \in Nat /\ budget["fault"] <= MaxFaults
    /\ budget["swap"] \in Nat
    /\ DOMAIN budget = {"drop", "fault", "swap"}
    /\ phase \in {"idle", "refreshed", "billing", "billed"}
    /\ Calm =>
         /\ dev.up /\ ~next.offline
         /\ phase = "billing" => base = NoBase
         /\ base # NoBase =>
              /\ phase = "idle" => base.file = row.file
              /\ phase = "refreshed" =>
                   base.file = IF next.job.file = NoFile THEN row.file ELSE next.job.file
              /\ phase = "billed" => base.file = next.job.file

LEMMA BaseInit == Init => BaseInv
BY ConstantsAssumption DEF Init, BaseInv, Calm, NoResult

\* Only a failure or a drop-out ends the calm, and none of them begins it.
LEMMA Budget ==
    ASSUME BaseInv, NEW kind \in {"drop", "fault", "swap"}, Spend(kind)
    PROVE  /\ budget'["drop"] \in Nat /\ budget'["drop"] <= MaxDrops
           /\ budget'["fault"] \in Nat /\ budget'["fault"] <= MaxFaults
           /\ budget'["swap"] \in Nat
           /\ DOMAIN budget' = {"drop", "fault", "swap"}
           /\ kind # "swap" => ~Calm'
           /\ Calm' => Calm
BY ConstantsAssumption DEF Spend, BaseInv, Calm

LEMMA BaseNext == TypeInv /\ BaseInv /\ [Next]_vars => BaseInv'
<1> SUFFICES ASSUME TypeInv, BaseInv, [Next]_vars PROVE BaseInv'
  OBVIOUS
<1>1. CASE Refresh
  <2>1. dev.up => base' = Tracked /\ next' = [job |-> dev.job, offline |-> FALSE, grams |-> dev.grams]
    BY <1>1 DEF Refresh
  <2>2. phase = "idle" /\ phase' = "refreshed" /\ UNCHANGED <<dev, row, budget>>
    BY <1>1 DEF Refresh
  <2>3. dev.up /\ dev.job.file # NoFile => base'.file = dev.job.file
    BY <2>1 DEF Tracked, TypeInv, TypeOK, Base
  <2>4. dev.up /\ dev.job.file = NoFile => base' = base
    BY <2>1 DEF Tracked
  <2> QED BY <2>1, <2>2, <2>3, <2>4 DEF BaseInv, Calm
<1>2. CASE NothingToBill
  BY <1>2 DEF NothingToBill, BaseInv, Calm, Ended
<1>3. CASE TakeBaseline
  BY <1>3 DEF TakeBaseline, AfterTake, BaseInv, Calm
<1>4. CASE EndBilling
  BY <1>4 DEF EndBilling, BaseInv, Calm
<1>5. CASE Persist
  BY <1>5 DEF Persist, BaseInv, Calm, NoResult
<1>6. CASE (\E s \in bill.slots : BillSlot(s)) \/ (\E t \in Trays : BillTray(t))
  <2>1. phase' = phase /\ UNCHANGED <<dev, row, next, base, budget>>
    BY <1>6 DEF BillSlot, BillTray
  <2> QED BY <2>1 DEF BaseInv, Calm
<1>7. CASE LoseBilling \/ DropCycle \/ Crash \/ GoDown
  <2>1. \E k \in {"drop", "fault"} : Spend(k)
    BY <1>7 DEF LoseBilling, DropCycle, Crash, GoDown
  <2>2. phase' \in {"idle", "refreshed", "billing", "billed"}
    BY <1>7 DEF LoseBilling, DropCycle, Crash, GoDown, pollerVars, BaseInv
  <2> QED BY <2>1, <2>2, Budget DEF BaseInv
<1>8. CASE \E t \in Trays : Reload(t) \/ \E s \in Spools \cup {NoSpool} : Assign(t, s)
  <2>1. Spend("swap") /\ UNCHANGED <<row, phase, next, base>>
    BY <1>8 DEF Reload, Assign, pollerVars
  <2>2. dev.up => dev'.up
    BY <1>8 DEF Reload, Assign, TypeInv, TypeOK
  <2> QED BY <2>1, <2>2, Budget DEF BaseInv
<1>9. CASE \/ \E f \in Files, l \in Loads : StartPrint(f, l)
           \/ EndPrint \/ ComeUp \/ (\E t \in Trays : Feed(t)) \/ UNCHANGED vars
  <2>1. UNCHANGED <<row, phase, next, base, budget>>
    BY <1>9 DEF StartPrint, EndPrint, ComeUp, Feed, vars, pollerVars
  <2>2. dev.up => dev'.up
    BY <1>9 DEF StartPrint, EndPrint, ComeUp, Feed, vars, TypeInv, TypeOK
  <2> QED BY <2>1, <2>2 DEF BaseInv, Calm
<1> QED
  BY <1>1, <1>2, <1>3, <1>4, <1>5, <1>6, <1>7, <1>8, <1>9 DEF Next, Cycle, World

\* Between cycles the baseline in memory is that of the row's job, unless the
\* printer has been unreachable or a cycle has failed.
THEOREM BaselineFollowsRow == Spec => []BaselineHasItsJob
<1>1. BaseInv => BaselineHasItsJob
  BY ConstantsAssumption DEF BaseInv, BaselineHasItsJob, Calm
<1> QED BY <1>1, BaseInit, BaseNext, TypeInvHolds, PTL DEF Spec

-----------------------------------------------------------------------------
(* The slots of a file and the trays they go to.                           *)

\* Without a mapping of the printer's own, no two slots of a file resolve to
\* one tray: a match by colour sets claimed trays aside, the n-th loaded tray
\* differs for each n, and the active tray is for a file of one slot.
LEMMA TrayOfDistinct ==
    ASSUME NEW slots, NEW load, load.mapping = << >>,
           DOMAIN slots \subseteq Nat \ {0}, IsFiniteSet(DOMAIN slots),
           NEW s \in DOMAIN slots, NEW u \in DOMAIN slots, s < u,
           TrayOf(slots, load, s) # NoTray
    PROVE  TrayOf(slots, load, u) # TrayOf(slots, load, s)
<1>1. Mapped(load, s) = NoTray /\ Mapped(load, u) = NoTray
  BY DEF Mapped
<1>2. s # u
  BY DEF TrayOf
<1>3. CASE ByColor(slots, load) # {}
  <2> DEFINE m == Lone(ByColor(slots, load))
  <2>1. m \in ByColor(slots, load)
    BY <1>3 DEF Lone
  <2>2. {t \in Trays : load.color[t] = slots[u]}
          \ {m[v] : v \in {w \in DOMAIN slots : w < u}} = {m[u]}
    BY <2>1 DEF ByColor
  <2>3. m[u] # m[s]
    <3> HIDE DEF m
    <3> QED BY <2>2
  <2>4. TrayOf(slots, load, s) = m[s] /\ TrayOf(slots, load, u) = m[u]
    BY <1>1, <1>3 DEF TrayOf
  <2> QED BY <2>3, <2>4
<1>4. CASE ByColor(slots, load) = {}
  <2>1. Cardinality(DOMAIN slots) # 1
    BY <1>2, FS_Singleton
  <2>2. \A n \in DOMAIN slots :
          TrayOf(slots, load, n) = IF NthLoaded(load, n) # {} THEN Lone(NthLoaded(load, n)) ELSE NoTray
    <3> TAKE n \in DOMAIN slots
    <3>1. Mapped(load, n) = NoTray
      BY DEF Mapped
    <3> QED BY <1>4, <2>1, <3>1 DEF TrayOf
  <2>3. NthLoaded(load, s) # {} /\ TrayOf(slots, load, s) = Lone(NthLoaded(load, s))
    BY <2>2
  <2>4. TrayOf(slots, load, s) \in NthLoaded(load, s)
    BY <2>3 DEF Lone
  <2>5. CASE NthLoaded(load, u) = {}
    BY <2>2, <2>5
  <2>6. CASE NthLoaded(load, u) # {}
    <3>1. TrayOf(slots, load, u) \in NthLoaded(load, u)
      BY <2>2, <2>6 DEF Lone
    <3> QED BY <1>2, <2>4, <3>1 DEF NthLoaded
  <2> QED BY <2>5, <2>6
<1> QED BY <1>3, <1>4

\* A charge of the billing under way is for the tray its slot resolves to, and
\* its slot is done; the delta charges have no slot.
SlotInv ==
    /\ \A c \in charges : c.path = "delta" => c.slot = 0
    /\ phase = "billing" => \A c \in charges : c.bill = bills =>
         /\ c.mapped = (bill.from.load.mapping # << >>)
         /\ c.path = "slot" =>
              /\ c.slot \in DOMAIN SlotsOf[row.file] \ bill.slots
              /\ c.tray = TrayOf(SlotsOf[row.file], bill.from.load, c.slot)
    /\ OneSlotPerTray

LEMMA SlotNext == TypeInv /\ PathInv /\ PathInv' /\ SlotInv /\ [Next]_vars => SlotInv'
<1> SUFFICES ASSUME TypeInv, PathInv, PathInv', SlotInv, [Next]_vars PROVE SlotInv'
  OBVIOUS
<1>1. CASE UNCHANGED <<bills, charges, phase, bill, row>>
  BY <1>1 DEF SlotInv, OneSlotPerTray
<1>2. CASE phase' # "billing" /\ UNCHANGED <<bills, charges>>
  BY <1>2 DEF SlotInv, OneSlotPerTray
<1>3. CASE TakeBaseline
  BY <1>3 DEF TakeBaseline, SlotInv, PathInv, OneSlotPerTray
<1>4. ASSUME NEW s \in bill.slots, BillSlot(s) PROVE SlotInv'
  <2> DEFINE slots == SlotsOf[row.file]
             load == bill.from.load
             t == TrayOf(slots, load, s)
  <2>1. phase = "billing" /\ UNCHANGED <<row, phase, bills>>
    BY <1>4 DEF BillSlot
  <2>2. s \in DOMAIN slots /\ DOMAIN slots \subseteq Nat \ {0} /\ IsFiniteSet(DOMAIN slots)
    BY <2>1, ConstantsAssumption DEF TypeInv
  <2>3. CASE t # NoTray /\ assigned[t] # NoSpool
    <3> DEFINE isMapped == load.mapping # << >>
               d == [bill |-> bills, billed |-> row.print, of |-> bill.from.print,
                     mapped |-> isMapped,
                     tray |-> t, path |-> "slot", slot |-> s]
    <3>1. /\ charges' = charges \cup {d}
          /\ bill' = [bill EXCEPT !.slots = @ \ {s}, !.handled = @ \cup {t}]
      BY <1>4, <2>3 DEF BillSlot, Charge
    <3>2. bill'.slots = bill.slots \ {s} /\ bill'.from = bill.from
      BY <3>1 DEF TypeInv, TypeOK
    <3>3. /\ d.bill = bills /\ d.path = "slot" /\ d.tray = t /\ d.slot = s
          /\ d.mapped = isMapped
      OBVIOUS
    <3> HIDE DEF d, isMapped
    <3>4. ASSUME NEW c \in charges, c.bill = bills, c.tray = t, ~isMapped
          PROVE  FALSE
      <4>1. c.path = "slot"
        BY <2>1, <3>4 DEF PathInv
      <4>2. c.slot \in DOMAIN slots \ bill.slots /\ TrayOf(slots, load, c.slot) = t
        BY <2>1, <3>4, <4>1 DEF SlotInv
      <4>3. c.slot # s /\ c.slot \in Nat /\ s \in Nat
        BY <2>2, <4>2
      <4>4. load.mapping = << >>
        BY <3>4 DEF isMapped
      <4>5. CASE c.slot < s
        <5> HIDE DEF slots, load
        <5> QED BY <2>2, <2>3, <4>2, <4>4, <4>5, TrayOfDistinct
      <4>6. CASE s < c.slot
        <5> HIDE DEF slots, load
        <5> QED BY <2>2, <2>3, <4>2, <4>4, <4>6, TrayOfDistinct
      <4> QED BY <4>3, <4>5, <4>6
    <3>5. \A c \in charges : c.bill = bills => c.mapped = isMapped
      BY <2>1 DEF SlotInv, isMapped
    <3>6. OneSlotPerTray'
      <4> SUFFICES ASSUME NEW a \in charges', NEW b \in charges',
                          a.bill = b.bill, a.tray = b.tray, ~a.mapped
                   PROVE  a.slot = b.slot
        BY DEF OneSlotPerTray
      <4>1. CASE a \in charges /\ b \in charges
        BY <4>1 DEF SlotInv, OneSlotPerTray
      <4>2. CASE a = d /\ b = d
        BY <4>2
      <4>3. CASE a = d /\ b \in charges
        BY <3>3, <3>4, <4>3
      <4>4. CASE a \in charges /\ b = d
        BY <3>3, <3>4, <3>5, <4>4
      <4> QED BY <3>1, <4>1, <4>2, <4>3, <4>4
    <3>7. \A c \in charges' : c.path = "delta" => c.slot = 0
      BY <3>1, <3>3 DEF SlotInv
    <3>8. ASSUME NEW c \in charges', c.bill = bills
          PROVE  /\ c.mapped = isMapped
                 /\ c.path = "slot" =>
                      /\ c.slot \in DOMAIN slots \ (bill.slots \ {s})
                      /\ c.tray = TrayOf(slots, load, c.slot)
      <4>1. CASE c \in charges
        BY <2>1, <3>5, <3>8, <4>1 DEF SlotInv
      <4>2. CASE c = d
        BY <2>2, <3>3, <4>2
      <4> QED BY <3>1, <4>1, <4>2
    <3> QED
      BY <2>1, <3>2, <3>6, <3>7, <3>8 DEF SlotInv, isMapped
  <2>4. CASE ~(t # NoTray /\ assigned[t] # NoSpool)
    <3>1. charges' = charges /\ bill'.slots \subseteq bill.slots /\ bill'.from = bill.from
      BY <1>4, <2>4 DEF BillSlot, TypeInv, TypeOK
    <3> QED BY <2>1, <3>1 DEF SlotInv, OneSlotPerTray
  <2> QED BY <2>3, <2>4
<1>5. ASSUME NEW t \in Trays, BillTray(t) PROVE SlotInv'
  <2>1. /\ phase = "billing" /\ UNCHANGED <<row, phase, bills>>
        /\ bill'.slots = bill.slots /\ bill'.from = bill.from
    BY <1>5 DEF BillTray, TypeInv, TypeOK
  <2>2. CASE Lost(t)
    <3> DEFINE isMapped == bill.from.load.mapping # << >>
               d == [bill |-> bills, billed |-> row.print, of |-> bill.from.print,
                     mapped |-> isMapped,
                     tray |-> t, path |-> "delta", slot |-> 0]
    <3>1. charges' = charges \cup {d}
      BY <1>5, <2>2 DEF BillTray, Charge
    <3>2. /\ d.bill = bills /\ d.path = "delta" /\ d.tray = t /\ d.slot = 0
          /\ d.mapped = isMapped
      OBVIOUS
    <3> HIDE DEF d
    <3>3. \A c \in charges' : c.path = "delta" => c.slot = 0
      BY <3>1, <3>2 DEF SlotInv
    <3>4. \A a, b \in charges' : a.bill = b.bill /\ a.tray = b.tray => a.path = b.path
      BY DEF PathInv, OnePathPerTray
    <3>5. OneSlotPerTray'
      <4> SUFFICES ASSUME NEW a \in charges', NEW b \in charges',
                          a.bill = b.bill, a.tray = b.tray, ~a.mapped
                   PROVE  a.slot = b.slot
        BY DEF OneSlotPerTray
      <4>1. CASE a \in charges /\ b \in charges
        BY <4>1 DEF SlotInv, OneSlotPerTray
      <4>2. CASE a = d \/ b = d
        BY <3>2, <3>3, <3>4, <4>2
      <4> QED BY <3>1, <4>1, <4>2
    <3> QED
      BY <2>1, <3>1, <3>2, <3>3, <3>5 DEF SlotInv
  <2>3. CASE ~Lost(t)
    <3>1. charges' = charges
      BY <1>5, <2>3 DEF BillTray
    <3> QED BY <2>1, <3>1 DEF SlotInv, OneSlotPerTray
  <2> QED BY <2>2, <2>3
<1>6. ASSUME World \/ UNCHANGED vars PROVE UNCHANGED <<bills, charges, phase, bill, row>>
  BY <1>6 DEF World, vars, pollerVars, StartPrint, EndPrint, GoDown, ComeUp, Feed,
              Reload, Assign
<1>7. ASSUME Refresh \/ NothingToBill \/ EndBilling \/ Persist \/ LoseBilling
             \/ DropCycle \/ Crash
      PROVE  phase' # "billing" /\ UNCHANGED <<bills, charges>>
  BY <1>7 DEF Refresh, NothingToBill, EndBilling, Persist, LoseBilling, DropCycle, Crash
<1> QED
  BY <1>1, <1>2, <1>3, <1>4, <1>5, <1>6, <1>7 DEF Next, Cycle

LEMMA PathInit == Init => PathInv
BY DEF Init, PathInv, OnePathPerTray

LEMMA PathInvHolds == Spec => []PathInv
BY PathInit, PathNext, PTL DEF Spec

\* Unless the printer reports a mapping of its own, one billing never charges
\* two slots of a file to one tray, whatever the file, the AMS and its colours.
THEOREM ChargedForOneSlot == Spec => []OneSlotPerTray
<1>1. Init => SlotInv
  BY DEF Init, SlotInv, OneSlotPerTray
<1>2. SlotInv => OneSlotPerTray
  BY DEF SlotInv
<1>3. Spec => []SlotInv
  BY <1>1, SlotNext, TypeInvHolds, PathInvHolds, PTL DEF Spec
<1> QED BY <1>2, <1>3, PTL

-----------------------------------------------------------------------------
(* A print billed again.                                                   *)

\* Prints are numbered as they start, and a number names one file.
Numbered ==
    /\ dev.job.print \in {0, prints}
    /\ row.print <= prints /\ next.job.print <= prints
    /\ row.print = dev.job.print => row.file = dev.job.file
    /\ next.job.print = dev.job.print => next.job.file = dev.job.file

\* When a print is billed the printer has moved on from it, and its baseline is
\* gone: a later baseline, and a billing that takes it, is of a later print.
MovedOn ==
    /\ phase = "refreshed" /\ Ended => dev.job.print # row.print
    /\ phase = "billing" => dev.job.print # row.print /\ base = NoBase
    /\ \A c \in charges :
         /\ c.billed <= prints /\ c.billed # dev.job.print
         /\ base # NoBase => base.print > c.billed
         /\ phase = "billing" /\ c.bill < bills => bill.from.print > c.billed
    /\ RebilledOnlyBehindNextPrint

LEMMA NumberedInit == Init => Numbered /\ MovedOn
BY DEF Init, Numbered, MovedOn, NoJob, NoResult, RebilledOnlyBehindNextPrint

\* The charge of a print is of a later print than any charge for it before.
LEMMA ChargedLater ==
    ASSUME TypeInv, PathInv, Numbered, MovedOn, phase = "billing",
           NEW t \in Trays, NEW path \in {"slot", "delta"}, NEW slot \in Nat,
           Charge(t, path, slot), UNCHANGED <<dev, row, phase, next, base, prints, bills>>,
           bill'.from = bill.from
    PROVE  MovedOn'
<1> DEFINE isMapped == bill.from.load.mapping # << >>
           d == [bill |-> bills, billed |-> row.print, of |-> bill.from.print,
                 mapped |-> isMapped, tray |-> t, path |-> path, slot |-> slot]
<1>1. charges' = charges \cup {d}
  BY DEF Charge
<1>2. d.bill = bills /\ d.billed = row.print /\ d.of = bill.from.print
  OBVIOUS
<1> HIDE DEF d
<1>3. bills \in Nat /\ \A c \in charges : c.bill \in Nat /\ c.bill <= bills
  BY DEF PathInv, TypeInv, TypeOK
<1>4. /\ row.print \in Nat /\ prints \in Nat /\ row.print <= prints
      /\ dev.job.print # row.print
  BY DEF TypeInv, TypeOK, Job, Numbered, MovedOn
<1>7. \A c \in charges : /\ c.billed <= prints /\ c.billed # dev.job.print
                         /\ c.bill < bills => bill.from.print > c.billed
  BY DEF MovedOn
<1>5. RebilledOnlyBehindNextPrint'
  <2> SUFFICES ASSUME NEW a \in charges', NEW b \in charges', a.billed = b.billed, a.bill < b.bill
               PROVE  b.of > b.billed
    BY DEF RebilledOnlyBehindNextPrint
  <2>1. CASE a \in charges /\ b \in charges
    BY <2>1 DEF MovedOn, RebilledOnlyBehindNextPrint
  <2>2. CASE a = d
    BY <1>1, <1>2, <1>3, <2>2
  <2>3. CASE a \in charges /\ b = d
    <3>1. a.bill < bills /\ b.billed = a.billed /\ b.of = bill.from.print
      BY <1>2, <2>3
    <3> QED BY <1>7, <2>3, <3>1
  <2> QED BY <1>1, <2>1, <2>2, <2>3
<1>6. \A c \in charges' :
         /\ c.billed <= prints /\ c.billed # dev.job.print
         /\ c.bill < bills => bill.from.print > c.billed
  BY <1>1, <1>2, <1>3, <1>4, <1>7
<1> QED BY <1>5, <1>6 DEF MovedOn

LEMMA NumberedNext ==
    TypeInv /\ TypeInv' /\ PathInv /\ Numbered /\ MovedOn /\ [Next]_vars => Numbered' /\ MovedOn'
<1> SUFFICES ASSUME TypeInv, TypeInv', PathInv, Numbered, MovedOn, [Next]_vars
             PROVE  Numbered' /\ MovedOn'
  OBVIOUS
<1>1. /\ prints \in Nat /\ row.print \in Nat /\ next.job.print \in Nat /\ dev.job.print \in Nat
      /\ row.file = NoFile <=> row.print = 0
      /\ dev.job.file = NoFile <=> dev.job.print = 0
      /\ next.job.file = NoFile <=> next.job.print = 0
      /\ \A c \in charges : c.billed \in 1..MaxPrints
  BY DEF TypeInv, TypeOK, JobShape, Job
<1>2. CASE Refresh
  <2>1. /\ UNCHANGED <<dev, row, bill, bills, prints, charges>>
        /\ phase = "idle" /\ phase' = "refreshed"
    BY <1>2 DEF Refresh
  <2>2. \/ dev.up /\ next'.job = dev.job /\ ~next'.offline
        \/ next'.job = row
        \/ next'.job = NoJob /\ next'.offline
    BY <1>2, NoResultType DEF Refresh
  <2>3. Numbered'
    BY <1>1, <2>1, <2>2 DEF Numbered, NoJob
  <2>4. base' # NoBase => \/ base # NoBase /\ base'.print = base.print
                          \/ base'.print = prints /\ dev.job.print = prints
    <3>1. CASE base' = base
      BY <3>1
    <3>2. CASE base' = Tracked /\ dev.job.file # NoFile
      <4>1. base # NoBase => base \in Base
        BY DEF TypeInv, TypeOK
      <4> QED BY <1>1, <3>2, <4>1 DEF Tracked, Base, Numbered
    <3>3. CASE base' = Tracked /\ dev.job.file = NoFile
      BY <3>3 DEF Tracked
    <3> QED BY <1>2, <3>1, <3>2, <3>3 DEF Refresh
  <2>5. Ended' => dev.job.print # row.print
    BY <1>1, <2>1, <2>2 DEF Ended, Numbered
  <2>6. \A c \in charges : base' # NoBase => base'.print > c.billed
    BY <1>1, <2>4 DEF MovedOn
  <2> QED BY <2>1, <2>3, <2>5, <2>6 DEF MovedOn, RebilledOnlyBehindNextPrint
<1>3. CASE NothingToBill
  BY <1>3 DEF NothingToBill, Numbered, MovedOn, RebilledOnlyBehindNextPrint
<1>4. CASE TakeBaseline
  <2>1. /\ UNCHANGED <<dev, row, next, prints, charges>>
        /\ phase = "refreshed" /\ phase' = "billing" /\ Ended
        /\ base # NoBase /\ base' = NoBase /\ bill'.from = base
    BY <1>4 DEF TakeBaseline, AfterTake
  <2> QED BY <2>1 DEF Numbered, MovedOn, RebilledOnlyBehindNextPrint
<1>5. ASSUME NEW s \in bill.slots, BillSlot(s) PROVE Numbered' /\ MovedOn'
  <2> DEFINE t == TrayOf(SlotsOf[row.file], bill.from.load, s)
  <2>1. /\ phase = "billing" /\ UNCHANGED <<dev, row, phase, next, base, prints, bills>>
        /\ bill'.from = bill.from
    BY <1>5 DEF BillSlot, TypeInv, TypeOK
  <2>2. s \in Nat /\ t \in Trays \cup {NoTray}
    BY <2>1, TrayOfType DEF TypeInv, Base, TypeOK
  <2>3. charges' = charges \/ (t \in Trays /\ Charge(t, "slot", s))
    BY <1>5, <2>2 DEF BillSlot
  <2>4. Numbered'
    BY <2>1 DEF Numbered
  <2>5. CASE charges' = charges
    BY <2>1, <2>4, <2>5 DEF MovedOn, RebilledOnlyBehindNextPrint
  <2> HIDE DEF t
  <2>6. CASE t \in Trays /\ Charge(t, "slot", s)
    BY <2>1, <2>2, <2>4, <2>6, ChargedLater
  <2> QED BY <2>3, <2>5, <2>6
<1>6. ASSUME NEW t \in Trays, BillTray(t) PROVE Numbered' /\ MovedOn'
  <2>1. /\ phase = "billing" /\ UNCHANGED <<dev, row, phase, next, base, prints, bills>>
        /\ bill'.from = bill.from
    BY <1>6 DEF BillTray, TypeInv, TypeOK
  <2>2. charges' = charges \/ Charge(t, "delta", 0)
    BY <1>6 DEF BillTray
  <2>3. Numbered'
    BY <2>1 DEF Numbered
  <2>4. CASE charges' = charges
    BY <2>1, <2>3, <2>4 DEF MovedOn, RebilledOnlyBehindNextPrint
  <2>5. CASE Charge(t, "delta", 0)
    BY <2>1, <2>3, <2>5, ChargedLater
  <2> QED BY <2>2, <2>4, <2>5
<1>7. CASE EndBilling \/ LoseBilling
  BY <1>7 DEF EndBilling, LoseBilling, Numbered, MovedOn, RebilledOnlyBehindNextPrint
<1>8. CASE Persist
  BY <1>1, <1>8 DEF Persist, NoResult, NoJob, Numbered, MovedOn, RebilledOnlyBehindNextPrint
<1>9. CASE DropCycle \/ Crash
  BY <1>1, <1>9 DEF DropCycle, Crash, NoResult, NoJob, Numbered, MovedOn,
                    RebilledOnlyBehindNextPrint
<1>10. ASSUME NEW f \in Files, NEW l \in Loads, StartPrint(f, l) PROVE Numbered' /\ MovedOn'
  <2>1. /\ prints' = prints + 1 /\ UNCHANGED pollerVars
        /\ dev'.job = [file |-> f, print |-> prints']
    BY <1>10 DEF StartPrint, TypeInv, TypeOK
  <2> QED
    BY <1>1, <2>1 DEF pollerVars, Numbered, MovedOn, Ended, RebilledOnlyBehindNextPrint
<1>11. CASE EndPrint
  <2>1. UNCHANGED <<prints, pollerVars>> /\ dev'.job = NoJob
    BY <1>11 DEF EndPrint, TypeInv, TypeOK
  <2>2. dev'.job.print = 0 /\ dev'.job.file = NoFile
    BY <2>1 DEF NoJob
  <2>3. Numbered'
    BY <1>1, <2>1, <2>2 DEF pollerVars, Numbered
  <2>4. phase = "refreshed" /\ Ended => row.print # 0
    BY <1>1 DEF Ended
  <2>5. phase = "billing" => row.print # 0
    BY <1>1, ConstantsAssumption DEF TypeInv
  <2>6. (phase' = "refreshed" /\ Ended') => phase = "refreshed" /\ Ended
    BY <2>1 DEF pollerVars, Ended
  <2>7. \A c \in charges : c.billed # 0
    BY <1>1
  <2> QED
    BY <2>1, <2>2, <2>3, <2>4, <2>5, <2>6, <2>7
    DEF pollerVars, MovedOn, RebilledOnlyBehindNextPrint
<1>12. ASSUME \/ GoDown \/ ComeUp \/ UNCHANGED vars
              \/ \E t \in Trays : Feed(t) \/ Reload(t) \/ \E s \in Spools \cup {NoSpool} : Assign(t, s)
       PROVE  Numbered' /\ MovedOn'
  <2>1. UNCHANGED <<prints, pollerVars>> /\ dev'.job = dev.job
    BY <1>12 DEF GoDown, ComeUp, Feed, Reload, Assign, vars, pollerVars, TypeInv, TypeOK
  <2> QED
    BY <2>1 DEF pollerVars, Numbered, MovedOn, Ended, RebilledOnlyBehindNextPrint
<1> QED
  BY <1>2, <1>3, <1>4, <1>5, <1>6, <1>7, <1>8, <1>9, <1>10, <1>11, <1>12 DEF Next, Cycle, World

\* A print is charged again only from the baseline of a later print, however
\* cycles are cut short, dropped or restarted between billing and write-back.
THEOREM RebillsBounded == Spec => []RebilledOnlyBehindNextPrint
<1>1. MovedOn => RebilledOnlyBehindNextPrint
  BY DEF MovedOn
<1>2. Spec => [](Numbered /\ MovedOn)
  BY NumberedInit, NumberedNext, TypeInvHolds, PathInvHolds, PTL DEF Spec
<1> QED BY <1>1, <1>2, PTL
=============================================================================
