-------------------------- MODULE ControlLogicPanel --------------------------
(***************************************************************************)
(* The control-logic Modbus RTU master panel                               *)
(* (src/kenmec/python/control_logic_rtu_master.py): the status and config  *)
(* get/set buttons, the "Manual Read" button, and the "Loop Manual Read"   *)
(* checkbox that keeps a Tk `after` timer re-running manual_read_cmd every *)
(* MANUAL_READ_LOOP_INTERVAL_MS.                                           *)
(*                                                                         *)
(* The entries the loop reads on every tick (slave id, start address,      *)
(* quantity) are state: the operator may edit them while the loop runs.    *)
(* The comboboxes and entries read only by a button click are parameters   *)
(* of that button's action.                                                *)
(***************************************************************************)
EXTENDS ModbusTransport

CONSTANTS
    SlaveIds,     \* integers the operator types into "Slave ID"
    ManualAddrs,  \* integers typed into "Start address"
    Quantities,   \* integers typed into "Quantity" (0 and below included)
    ConfigValues, \* integers typed into "Control logic config set value"
    NotAnInt,     \* entry text that int() rejects (e.g. "" while retyping)
    TimerIds,     \* Tk `after` job ids (model values)
    NoTimer       \* manual_read_after_id = None

ASSUME ControlLogicAssumption ==
    /\ SlaveIds \subseteq Int /\ ManualAddrs \subseteq Int
    /\ Quantities \subseteq Int /\ ConfigValues \subseteq Int
    /\ 100 \in SlaveIds /\ 15000 \in ManualAddrs /\ 100 \in Quantities
    /\ NotAnInt \notin Int
    /\ IsFiniteSet(TimerIds) /\ Cardinality(TimerIds) >= 2
    /\ NoTimer \notin TimerIds

VARIABLES
    slaveEntry,   \* slave_id_entry text: an integer or NotAnInt
    addrEntry,    \* manual_address_entry text
    qtyEntry,     \* read_quantity_entry text
    loopVar,      \* manual_read_loop_var (the checkbox)
    afterId,      \* manual_read_after_id
    pending       \* the schedule_manual_read jobs Tk holds

entries == << slaveEntry, addrEntry, qtyEntry >>
loopState == << loopVar, afterId, pending >>
vars == << tvars, entries, loopState >>

TypeOK ==
    /\ TransportTypeOK
    /\ slaveEntry \in SlaveIds \cup {NotAnInt}
    /\ addrEntry \in ManualAddrs \cup {NotAnInt}
    /\ qtyEntry \in Quantities \cup {NotAnInt}
    /\ loopVar \in BOOLEAN
    /\ afterId \in TimerIds \cup {NoTimer}
    /\ pending \subseteq TimerIds

Init ==
    /\ TransportInit
    /\ slaveEntry = 100 /\ addrEntry = 15000 /\ qtyEntry = 100
    /\ loopVar = FALSE
    /\ afterId = NoTimer
    /\ pending = {}

(***************************************************************************)
(* Editing an entry.                                                       *)
(***************************************************************************)
EditSlaveId(s) ==
    /\ slaveEntry' = s
    /\ UNCHANGED << tvars, addrEntry, qtyEntry, loopState >>

EditManualAddress(a) ==
    /\ addrEntry' = a
    /\ UNCHANGED << tvars, slaveEntry, qtyEntry, loopState >>

EditReadQuantity(q) ==
    /\ qtyEntry' = q
    /\ UNCHANGED << tvars, slaveEntry, addrEntry, loopState >>

(***************************************************************************)
(* control_logic_status_button_cmd and control_logic_config_get/set:       *)
(* int(slave_id_entry.get()) raises first when the slave id is not an      *)
(* integer; an unknown name only warns; then the helper runs, which raises *)
(* when there is no client.  Raising and warning change nothing, so those  *)
(* paths are the guards below.  In the setter int() of the value entry     *)
(* runs before the name is checked.                                        *)
(***************************************************************************)
ControlLogicStatusGet(name) ==
    /\ slaveEntry # NotAnInt
    /\ name \in DOMAIN ControlLogicStatusAddress
    /\ ReadHoldingRegisters("status", ControlLogicStatusAddress[name], 1)
    /\ UNCHANGED << entries, loopState >>

ControlLogicConfigGet(name) ==
    /\ slaveEntry # NotAnInt
    /\ name \in DOMAIN ControlLogicConfigAddress
    /\ ReadHoldingRegisters("config_get", ControlLogicConfigAddress[name], 1)
    /\ UNCHANGED << entries, loopState >>

ControlLogicConfigSet(name, value) ==
    /\ slaveEntry # NotAnInt
    /\ name \in DOMAIN ControlLogicConfigAddress
    /\ WriteHoldingRegister("config_set", ControlLogicConfigAddress[name], value)
    /\ UNCHANGED << entries, loopState >>

(***************************************************************************)
(* manual_read_cmd(): raises when the slave id is not an integer; warns    *)
(* and returns when the address is not an integer or the quantity is not a *)
(* positive integer; otherwise reads, which raises without a client.       *)
(***************************************************************************)
ManualInputsValid ==
    /\ addrEntry # NotAnInt
    /\ qtyEntry # NotAnInt
    /\ qtyEntry > 0

ManualReadRaises ==
    \/ slaveEntry = NotAnInt
    \/ ManualInputsValid /\ ClientMissing

\* What manual_read_cmd does to the transport when it returns normally.
ManualReadEffect ==
    IF ManualInputsValid
    THEN ReadHoldingRegisters("manual", addrEntry, qtyEntry)
    ELSE UNCHANGED tvars

ManualReadButton ==
    /\ ~ManualReadRaises
    /\ ManualInputsValid
    /\ ReadHoldingRegisters("manual", addrEntry, qtyEntry)
    /\ UNCHANGED << entries, loopState >>

(***************************************************************************)
(* The body of schedule_manual_read() once manual_read_loop_var is true,   *)
(* starting from the pending jobs `jobs`: manual_read_cmd(), then          *)
(* window.after() files a new job and its id is stored.  When              *)
(* manual_read_cmd raises, the exception leaves the callback before the    *)
(* new job is filed, and manual_read_after_id keeps its old value.  A Tk   *)
(* job id is never reused, so the new one is neither pending nor stored.   *)
(***************************************************************************)
ScheduleManualReadBody(jobs) ==
    \/ /\ ManualReadRaises
       /\ pending' = jobs
       /\ UNCHANGED << tvars, afterId >>
    \/ /\ ~ManualReadRaises
       /\ ManualReadEffect
       /\ \E t \in TimerIds \ (jobs \cup {afterId}) :
             /\ afterId' = t
             /\ pending' = jobs \cup {t}

\* Tk runs a pending schedule_manual_read job.
ScheduleManualRead(t) ==
    /\ t \in pending
    /\ IF loopVar
       THEN ScheduleManualReadBody(pending \ {t})
       ELSE /\ pending' = pending \ {t}
            /\ UNCHANGED << tvars, afterId >>
    /\ UNCHANGED << entries, loopVar >>

(***************************************************************************)
(* A click on the checkbox flips manual_read_loop_var and calls            *)
(* toggle_manual_read_loop(): when checked and no job id is stored it runs *)
(* schedule_manual_read() at once; when unchecked it cancels the stored    *)
(* job (after_cancel of a job that already ran does nothing) and forgets   *)
(* the id.                                                                 *)
(***************************************************************************)
\* Mutant: unchecking forgets the id without root.after_cancel().
ToggleManualReadLoopNoCancel ==
    /\ loopVar' = ~loopVar
    /\ IF loopVar'
       THEN IF afterId = NoTimer
            THEN ScheduleManualReadBody(pending)
            ELSE UNCHANGED << tvars, afterId, pending >>
       ELSE /\ afterId' = NoTimer
            /\ UNCHANGED << tvars, pending >>
    /\ UNCHANGED entries

ToggleManualReadLoop ==
    /\ loopVar' = ~loopVar
    /\ IF loopVar'
       THEN IF afterId = NoTimer
            THEN ScheduleManualReadBody(pending)
            ELSE UNCHANGED << tvars, afterId, pending >>
       ELSE /\ pending' = pending \ {afterId}
            /\ afterId' = NoTimer
            /\ UNCHANGED tvars
    /\ UNCHANGED entries

Next ==
    \/ TransportNext /\ UNCHANGED << entries, loopState >>
    \/ \E s \in SlaveIds \cup {NotAnInt} : EditSlaveId(s)
    \/ \E a \in ManualAddrs \cup {NotAnInt} : EditManualAddress(a)
    \/ \E q \in Quantities \cup {NotAnInt} : EditReadQuantity(q)
    \/ \E n \in DOMAIN ControlLogicStatusAddress : ControlLogicStatusGet(n)
    \/ \E n \in DOMAIN ControlLogicConfigAddress : ControlLogicConfigGet(n)
    \/ \E n \in DOMAIN ControlLogicConfigAddress, v \in ConfigValues :
          ControlLogicConfigSet(n, v)
    \/ ManualReadButton
    \/ \E t \in TimerIds : ScheduleManualRead(t)
    \/ ToggleManualReadLoop

(***************************************************************************)
(* Tk's mainloop runs every due `after` job: weak fairness on each job.    *)
(* The operator owes nothing, so no operator action is fair.               *)
(***************************************************************************)
Fairness == \A t \in TimerIds : WF_vars(ScheduleManualRead(t))

Spec == Init /\ [][Next]_vars /\ Fairness

-----------------------------------------------------------------------------
(***************************************************************************)
(* Properties.                                                             *)
(***************************************************************************)

(***************************************************************************)
(* The loop bookkeeping of toggle_manual_read_loop / schedule_manual_read  *)
(* stays exact through any order of clicks, timer firings, edits and       *)
(* exceptions: every pending loop job is the one whose id is stored in     *)
(* manual_read_after_id (so there is never a second loop, and unchecking   *)
(* can always cancel the live one), and while the box is unchecked no id   *)
(* is stored and nothing is pending.                                       *)
(***************************************************************************)
LoopJobTracked ==
    /\ pending \subseteq {afterId}
    /\ ~loopVar => afterId = NoTimer /\ pending = {}

(***************************************************************************)
(* schedule_manual_read's docstring: the manual read repeats while the     *)
(* loop checkbox is enabled.  If the box stays checked from some point on, *)
(* a loop job is pending infinitely often.                                 *)
(***************************************************************************)
LoopKeepsReading == <>[]loopVar => []<>(pending # {})

-----------------------------------------------------------------------------
(***************************************************************************)
(* The loop seen as the abstract periodic job of PeriodicJob: the checkbox *)
(* manual_read_loop_var is `enabled`, the pending schedule_manual_read     *)
(* jobs are `jobs`; the stored manual_read_after_id, the entries and the   *)
(* transport are hidden.                                                   *)
(***************************************************************************)
PJ == INSTANCE PeriodicJob WITH enabled <- loopVar, jobs <- pending, Jobs <- TimerIds

(***************************************************************************)
(* toggle_manual_read_loop and schedule_manual_read implement one periodic *)
(* job under the checkbox: checking starts at most one job, each run files *)
(* at most one successor with a fresh id, unchecking cancels the job, no   *)
(* job runs or is filed while unchecked, and Tk runs a pending job.       *)
(***************************************************************************)
ImplementsPeriodicJob == PJ!Spec

=============================================================================
