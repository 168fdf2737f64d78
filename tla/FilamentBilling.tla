--------------------------- MODULE FilamentBilling ---------------------------
(***************************************************************************)
(* How the poller bills a finished Bambu print to the spools that fed it   *)
(* (bambu.go, filament_consumption.go).  A refresh that sees a job keeps a *)
(* baseline of the AMS in memory; when the row's job is no longer the job  *)
(* reported, the cycle takes the baseline, charges the slots of the sliced *)
(* file to the trays they resolve to and every other tray with what its    *)
(* spool has lost, one SQL statement at a time, and only then writes the   *)
(* row.  One printer; PollCycle has the rest of the cycle.                 *)
(***************************************************************************)
EXTENDS Integers, FiniteSets

CONSTANTS
    Files,      \* file names of print jobs
    SlotsOf,    \* the colours of each file's cached filament slots, by slot id
    MaxTray,    \* trays are numbered in the order of their AMS unit and position
    Loads,      \* what the AMS can report of its trays when a print starts
    Spools,     \* inventory spools
    Full,       \* grams of a fresh spool
    NoFile, NoTray, NoSpool, NoColor, NoBase,
    MaxPrints, MaxFaults, MaxDrops, MaxSwaps

Trays == 1..MaxTray

ASSUME ConstantsAssumption ==
    /\ MaxTray \in Nat /\ NoTray \notin Trays
    /\ Full \in Nat \ {0}
    /\ NoFile \notin Files /\ NoSpool \notin Spools
    /\ \A f \in Files : DOMAIN SlotsOf[f] \subseteq Nat \ {0} /\ IsFiniteSet(DOMAIN SlotsOf[f])
    /\ \A l \in Loads : /\ l.loaded \subseteq Trays
                        /\ l.active \in Trays \cup {NoTray}
                        /\ DOMAIN l.color = Trays
                        /\ \A s \in DOMAIN l.mapping : l.mapping[s] \in Trays \cup {NoTray}
    /\ {MaxPrints, MaxFaults, MaxDrops, MaxSwaps} \subseteq Nat

VARIABLES
    dev,      \* the printer: its job, and the trays of its AMS
    row,      \* currentJob of the printer's row
    assigned, \* filament_station_assignments: the spool bound to each tray
    phase,    \* where the cycle is
    next,     \* what this cycle's refresh computed
    base,     \* bambuPrintBaseline
    bill,     \* applyFilamentConsumption under way
    budget

VARIABLES     \* history, for the properties only
    prints,   \* prints started
    bills,    \* baselines taken to bill a print
    charges   \* every decrementSpoolWeight

vars == <<dev, row, assigned, phase, next, base, bill, budget, prints, bills, charges>>

Grams == [Trays -> 0..Full]
Job   == [file : Files \cup {NoFile}, print : 0..MaxPrints]
Base  == [file : Files, grams : Grams, load : Loads, print : 1..MaxPrints]
NoJob == [file |-> NoFile, print |-> 0]
NoResult == [job |-> NoJob, offline |-> FALSE, grams |-> [t \in Trays |-> 0]]
NoBill == [slots |-> {}, trays |-> {}, handled |-> {}, from |-> NoBase]

ASSUME NoBaseAssumption == NoBase \notin Base

Spend(kind) == budget[kind] > 0 /\ budget' = [budget EXCEPT ![kind] = @ - 1]

-----------------------------------------------------------------------------
(* resolveSlotToTray, over the baseline's load.                            *)

\* Slip of matchSlotsByColor: a tray another slot has claimed is not set aside.
ByColorUnclaimed(slots, load) ==
    {m \in [DOMAIN slots -> Trays] : \A s \in DOMAIN slots :
        /\ slots[s] # NoColor
        /\ {t \in Trays : load.color[t] = slots[s]} = {m[s]}}

\* matchSlotsByColor: every slot has exactly one tray of its colour that the
\* slots before it have not claimed, or there is no match at all.
ByColor(slots, load) ==
    {m \in [DOMAIN slots -> Trays] : \A s \in DOMAIN slots :
        /\ slots[s] # NoColor
        /\ {t \in Trays : load.color[t] = slots[s]}
             \ {m[u] : u \in {v \in DOMAIN slots : v < s}} = {m[s]}}

\* Slot n of the slicer is the n-th loaded tray.
NthLoaded(load, n) == {t \in load.loaded : Cardinality({u \in load.loaded : u <= t}) = n}

Lone(S) == CHOOSE x \in S : TRUE

\* The printer's own mapping, which decodeMqttMapping drops when it maps nothing.
Mapped(load, s) ==
    IF s \in DOMAIN load.mapping THEN load.mapping[s] ELSE NoTray

TrayOf(slots, load, s) ==
    LET colored == IF load.mapping = << >> THEN ByColor(slots, load) ELSE {}
    IN IF Mapped(load, s) # NoTray THEN Mapped(load, s)
       ELSE IF colored # {} THEN Lone(colored)[s]
       ELSE IF NthLoaded(load, s) # {} THEN Lone(NthLoaded(load, s))
       ELSE IF Cardinality(DOMAIN slots) = 1 THEN load.active
       ELSE NoTray

-----------------------------------------------------------------------------
(* The cycle.                                                              *)

Init ==
    /\ \E l \in Loads :
         dev = [up |-> TRUE, job |-> NoJob, load |-> l, grams |-> [t \in Trays |-> Full]]
    /\ row = NoJob
    /\ assigned \in [Trays -> Spools]
    /\ phase = "idle"
    /\ next = NoResult
    /\ base = NoBase /\ bill = NoBill
    /\ budget = [fault |-> MaxFaults, drop |-> MaxDrops, swap |-> MaxSwaps]
    /\ prints = 0 /\ bills = 0 /\ charges = {}

\* Slip: the job the row still names taken for the one under way.
TrackedFromRow ==
    LET job == IF dev.job = NoJob THEN row ELSE dev.job
    IN IF job = NoJob \/ (base # NoBase /\ base.file = job.file) THEN base
       ELSE [file |-> job.file, grams |-> dev.grams, load |-> dev.load,
             print |-> job.print]

\* updateBambuFilamentUsed: a job begins its baseline, or adds to it the trays
\* it lacks; no job leaves the baseline to the billing.
Tracked ==
    IF dev.job.file = NoFile THEN base
    ELSE IF base = NoBase \/ base.file # dev.job.file
    THEN [file |-> dev.job.file, grams |-> dev.grams, load |-> dev.load,
          print |-> dev.job.print]
    ELSE [base EXCEPT !.grams =
            [t \in Trays |-> IF @[t] = 0 THEN dev.grams[t] ELSE @[t]]]

\* The refresh of a printer that answers; one that does not keeps its job until
\* applyOfflineGracePeriod gives it up.
Refresh ==
    /\ phase = "idle"
    /\ phase' = "refreshed"
    /\ \/ /\ dev.up
          /\ next' = [job |-> dev.job, offline |-> FALSE, grams |-> dev.grams]
          /\ base' = Tracked
       \/ /\ ~dev.up
          /\ \/ next' = [NoResult EXCEPT !.job = row]
             \/ next' = [NoResult EXCEPT !.offline = TRUE]
          /\ base' = base
    /\ UNCHANGED <<dev, row, assigned, bill, budget, prints, bills, charges>>

\* Slip: only another file ends a print.
EndedWhenSwitched == row.file # NoFile /\ next.job.file \notin {NoFile, row.file}

\* run()'s condition for a print that ended.
Ended == /\ row.file # NoFile
         /\ ~next.offline
         /\ next.job.file # row.file

NothingToBill ==
    /\ phase = "refreshed"
    /\ ~Ended \/ base = NoBase
    /\ phase' = "billed"
    /\ UNCHANGED <<dev, row, assigned, next, base, bill, budget, prints, bills, charges>>

\* takeBambuPrintBaseline removes it.
AfterTake == NoBase

\* applyFilamentConsumption: every tray, and the slots of the file but those
\* that a failed print's progress scales to nothing.
TakeBaseline ==
    /\ phase = "refreshed"
    /\ Ended /\ base # NoBase
    /\ phase' = "billing"
    /\ bills' = bills + 1
    /\ base' = AfterTake
    /\ \E slots \in SUBSET DOMAIN SlotsOf[row.file] :
         bill' = [slots |-> slots, trays |-> Trays, handled |-> {}, from |-> base]
    /\ UNCHANGED <<dev, row, assigned, next, budget, prints, charges>>

Charge(t, path, slot) ==
    charges' = charges \cup
        {[bill |-> bills, billed |-> row.print, of |-> bill.from.print,
          mapped |-> bill.from.load.mapping # << >>,
          tray |-> t, path |-> path, slot |-> slot]}

\* The next slot of the 3MF file: it is skipped when no tray or spool is found.
BillSlot(s) ==
    LET t == TrayOf(SlotsOf[row.file], bill.from.load, s)
    IN /\ phase = "billing" /\ s \in bill.slots
       /\ IF t # NoTray /\ assigned[t] # NoSpool
          THEN /\ Charge(t, "slot", s)
               /\ bill' = [bill EXCEPT !.slots = @ \ {s}, !.handled = @ \cup {t}]
          ELSE /\ charges' = charges
               /\ bill' = [bill EXCEPT !.slots = @ \ {s}]
       /\ UNCHANGED <<dev, row, assigned, phase, next, base, budget, prints, bills>>

\* Slip: trays the file's slots were charged to not left out.
LostAnyTray(t) ==
    /\ next.grams[t] > 0
    /\ bill.from.grams[t] > next.grams[t]
    /\ assigned[t] # NoSpool

\* What the AMS-delta fallback charges: spoolGrams leaves out an empty spool.
Lost(t) ==
    /\ t \notin bill.handled
    /\ next.grams[t] > 0
    /\ bill.from.grams[t] > next.grams[t]
    /\ assigned[t] # NoSpool

BillTray(t) ==
    /\ phase = "billing" /\ bill.slots = {} /\ t \in bill.trays
    /\ bill' = [bill EXCEPT !.trays = @ \ {t}]
    /\ IF Lost(t) THEN Charge(t, "delta", 0) ELSE charges' = charges
    /\ UNCHANGED <<dev, row, assigned, phase, next, base, budget, prints, bills>>

EndBilling ==
    /\ phase = "billing" /\ bill.slots = {} /\ bill.trays = {}
    /\ phase' = "billed" /\ bill' = NoBill
    /\ UNCHANGED <<dev, row, assigned, next, base, budget, prints, bills, charges>>

\* A statement of the billing fails: run() logs the error and goes on.
LoseBilling ==
    /\ phase = "billing"
    /\ Spend("fault")
    /\ phase' = "billed" /\ bill' = NoBill
    /\ UNCHANGED <<dev, row, assigned, next, base, prints, bills, charges>>

Persist ==
    /\ phase = "billed"
    /\ phase' = "idle"
    /\ row' = next.job /\ next' = NoResult
    /\ UNCHANGED <<dev, assigned, base, bill, budget, prints, bills, charges>>

\* upsertPrinter, or a statement before the billing, fails: the cycle is over
\* and the baseline stays as it is.
DropCycle ==
    /\ phase \in {"refreshed", "billed"}
    /\ Spend("fault")
    /\ phase' = "idle" /\ next' = NoResult
    /\ UNCHANGED <<dev, row, assigned, base, bill, prints, bills, charges>>

Crash ==
    /\ Spend("fault")
    /\ phase' = "idle" /\ next' = NoResult
    /\ base' = NoBase /\ bill' = NoBill
    /\ UNCHANGED <<dev, row, assigned, prints, bills, charges>>

Cycle ==
    \/ Refresh \/ NothingToBill \/ TakeBaseline \/ EndBilling \/ Persist
    \/ \E s \in bill.slots : BillSlot(s)
    \/ \E t \in Trays : BillTray(t)

-----------------------------------------------------------------------------
(* The printer and the people around it.                                   *)

pollerVars == <<row, phase, next, base, bill, bills, charges>>

StartPrint(f, l) ==
    /\ prints < MaxPrints
    /\ prints' = prints + 1
    /\ dev' = [dev EXCEPT !.job = [file |-> f, print |-> prints'], !.load = l]
    /\ UNCHANGED <<assigned, budget, pollerVars>>

EndPrint ==
    /\ dev.job # NoJob
    /\ dev' = [dev EXCEPT !.job = NoJob]
    /\ UNCHANGED <<assigned, budget, prints, pollerVars>>

\* A print draws filament from a tray.
Feed(t) ==
    /\ dev.job # NoJob /\ dev.grams[t] > 0
    /\ dev' = [dev EXCEPT !.grams[t] = @ - 1]
    /\ UNCHANGED <<assigned, budget, prints, pollerVars>>

GoDown ==
    /\ dev.up /\ Spend("drop")
    /\ dev' = [dev EXCEPT !.up = FALSE]
    /\ UNCHANGED <<assigned, prints, pollerVars>>

ComeUp ==
    /\ ~dev.up
    /\ dev' = [dev EXCEPT !.up = TRUE]
    /\ UNCHANGED <<assigned, budget, prints, pollerVars>>

\* The tray is given a fresh spool.
Reload(t) ==
    /\ Spend("swap")
    /\ dev' = [dev EXCEPT !.grams[t] = Full]
    /\ UNCHANGED <<assigned, prints, pollerVars>>

\* The station binds a spool to the tray, or unbinds it, as the poller also does
\* when another spool's colour or material shows (detectBambuAssignmentTriggers).
Assign(t, s) ==
    /\ Spend("swap")
    /\ assigned' = [assigned EXCEPT ![t] = s]
    /\ UNCHANGED <<dev, prints, pollerVars>>

World ==
    \/ \E f \in Files, l \in Loads : StartPrint(f, l)
    \/ EndPrint \/ GoDown \/ ComeUp
    \/ \E t \in Trays :
        Feed(t) \/ Reload(t) \/ \E s \in Spools \cup {NoSpool} : Assign(t, s)

Next == Cycle \/ LoseBilling \/ DropCycle \/ Crash \/ World

Spec == Init /\ [][Next]_vars

-----------------------------------------------------------------------------
(* What the billing owes the inventory.                                    *)

TypeOK ==
    /\ dev \in [up : BOOLEAN, job : Job, load : Loads, grams : Grams]
    /\ row \in Job
    /\ assigned \in [Trays -> Spools \cup {NoSpool}]
    /\ phase \in {"idle", "refreshed", "billing", "billed"}
    /\ next \in [job : Job, offline : BOOLEAN, grams : Grams]
    /\ base \in Base \cup {NoBase}
    /\ bill \in [slots : SUBSET Nat, trays : SUBSET Trays, handled : SUBSET Trays,
                 from : Base \cup {NoBase}]
    /\ budget \in [{"fault", "drop", "swap"} -> Nat]
    /\ prints \in 0..MaxPrints /\ bills \in Nat
    /\ charges \subseteq [bill : Nat, billed : 1..MaxPrints, of : 1..MaxPrints,
                          mapped : BOOLEAN, tray : Trays, path : {"slot", "delta"}, slot : Nat]

\* The two paths of applyFilamentConsumption never charge the same tray for
\* the same print: a tray a slot of the file was charged to is left out of the
\* AMS-delta fallback, whatever failed or was reassigned in between.
OnePathPerTray ==
    \A c, d \in charges : c.bill = d.bill /\ c.tray = d.tray => c.path = d.path

\* Unless the printer itself reports a mapping, resolveSlotToTray never sends
\* two slots of a file to one tray.
OneSlotPerTray ==
    \A c, d \in charges :
        c.bill = d.bill /\ c.tray = d.tray /\ ~c.mapped => c.slot = d.slot

\* A print is billed a second time, after a cycle that billed it and could not
\* write the row, only when the next print has begun and left its own baseline:
\* an idle printer's repeat finds no baseline and charges nothing.
RebilledOnlyBehindNextPrint ==
    \A c, d \in charges : c.billed = d.billed /\ c.bill < d.bill => d.of > d.billed

\* Between two cycles the baseline in memory belongs to the job of the row, as
\* long as the printer has always answered and no cycle has failed.
BaselineHasItsJob ==
    phase = "idle" /\ base # NoBase =>
        \/ base.file = row.file
        \/ budget["drop"] < MaxDrops \/ budget["fault"] < MaxFaults
=============================================================================
