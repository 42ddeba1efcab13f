------------------------- MODULE ControlLogicProofs -------------------------
(***************************************************************************)
(* Proofs about the control-logic panel, for every set of ports, entry     *)
(* values and Tk job ids: the panel stays well typed, and the bookkeeping   *)
(* of the "Loop Manual Read" timer (manual_read_after_id against the jobs  *)
(* Tk holds) is exact in every reachable state.                            *)
(*                                                                         *)
(* TypeOK alone is inductive.  LoopJobTracked is inductive together with   *)
(* TypeOK: the only step that files a job (the body of                     *)
(* schedule_manual_read) needs that the job that just ran was the stored   *)
(* one, which is what LoopJobTracked says of the state before.             *)
(***************************************************************************)
EXTENDS ControlLogicPanel, ModbusTransportProofs

\* The facts about the constants that the proofs use.
LEMMA EntryDomains ==
    /\ SlaveIds \subseteq Int /\ ManualAddrs \subseteq Int
    /\ Quantities \subseteq Int /\ ConfigValues \subseteq Int
    /\ 100 \in SlaveIds /\ 15000 \in ManualAddrs /\ 100 \in Quantities
    /\ NoTimer \notin TimerIds
  BY ControlLogicAssumption

\* The inductive invariant.
IInv == TypeOK /\ LoopJobTracked

\* "manual" names a handler (its requests are typed).
LEMMA ManualIsCommand == "manual" \in Commands
  BY DEF Commands

(***************************************************************************)
(* manual_read_cmd, when it returns normally, keeps the transport typed.   *)
(***************************************************************************)
LEMMA ManualReadEffectTypeOK ==
    ASSUME TypeOK, ManualReadEffect
    PROVE  TransportTypeOK'
<1>1. CASE ManualInputsValid
  <2>1. addrEntry \in Int /\ qtyEntry \in Int
    BY <1>1, EntryDomains DEF ManualInputsValid, TypeOK
  <2>. QED  BY <1>1, <2>1, ManualIsCommand, ReadTypeOK
            DEF ManualReadEffect, TypeOK
<1>2. CASE ~ManualInputsValid
  BY <1>2 DEF ManualReadEffect, TypeOK, TransportTypeOK, tvars
<1>. QED  BY <1>1, <1>2

(***************************************************************************)
(* The body of schedule_manual_read keeps the transport and the loop       *)
(* variables it writes typed, given that the jobs it starts from are job   *)
(* ids.                                                                    *)
(***************************************************************************)
LoopTimerTypeOK ==
    /\ TransportTypeOK
    /\ afterId \in TimerIds \cup {NoTimer}
    /\ pending \subseteq TimerIds

LEMMA BodyTypeOK ==
    ASSUME TypeOK, NEW jobs \in SUBSET TimerIds,
           ScheduleManualReadBody(jobs)
    PROVE  LoopTimerTypeOK'
<1>1. CASE ManualReadRaises /\ pending' = jobs /\ UNCHANGED << tvars, afterId >>
  BY <1>1 DEF TypeOK, TransportTypeOK, LoopTimerTypeOK, tvars
<1>2. CASE /\ ~ManualReadRaises
           /\ ManualReadEffect
           /\ \E t \in TimerIds \ (jobs \cup {afterId}) :
                 afterId' = t /\ pending' = jobs \cup {t}
  <2>1. TransportTypeOK'  BY <1>2, ManualReadEffectTypeOK
  <2>. QED  BY <1>2, <2>1 DEF LoopTimerTypeOK
<1>. QED  BY <1>1, <1>2 DEF ScheduleManualReadBody

\* The start-up state is well typed and the loop is idle.
LEMMA InitIInv == Init => IInv
<1> SUFFICES ASSUME Init PROVE IInv
  OBVIOUS
<1>1. TransportTypeOK  BY TransportInitTypeOK DEF Init
<1>2. slaveEntry \in SlaveIds /\ addrEntry \in ManualAddrs /\ qtyEntry \in Quantities
  BY EntryDomains DEF Init
<1>3. loopVar \in BOOLEAN
  <2>1. loopVar = FALSE  BY DEF Init
  <2>. QED  BY <2>1
<1>4. afterId \in TimerIds \cup {NoTimer} /\ pending \subseteq TimerIds
  BY DEF Init
<1>5. TypeOK  BY <1>1, <1>2, <1>3, <1>4 DEF TypeOK
<1>6. LoopJobTracked  BY DEF Init, LoopJobTracked
<1>. QED  BY <1>5, <1>6 DEF IInv

(***************************************************************************)
(* Every step of the panel keeps IInv: one step per handler.               *)
(***************************************************************************)
LEMMA NextIInv == IInv /\ [Next]_vars => IInv'
<1> SUFFICES ASSUME IInv, [Next]_vars PROVE IInv'
  OBVIOUS
<1>. USE DEF IInv
<1>1. CASE TransportNext /\ UNCHANGED << entries, loopState >>
  BY <1>1, TransportNextTypeOK DEF TypeOK, LoopJobTracked, entries, loopState
<1>2. ASSUME NEW s \in SlaveIds \cup {NotAnInt}, EditSlaveId(s)
      PROVE  IInv'
  BY <1>2 DEF EditSlaveId, TypeOK, TransportTypeOK, LoopJobTracked, tvars,
              loopState
<1>3. ASSUME NEW a \in ManualAddrs \cup {NotAnInt}, EditManualAddress(a)
      PROVE  IInv'
  BY <1>3 DEF EditManualAddress, TypeOK, TransportTypeOK, LoopJobTracked,
              tvars, loopState
<1>4. ASSUME NEW q \in Quantities \cup {NotAnInt}, EditReadQuantity(q)
      PROVE  IInv'
  BY <1>4 DEF EditReadQuantity, TypeOK, TransportTypeOK, LoopJobTracked,
              tvars, loopState
<1>5. ASSUME NEW n \in DOMAIN ControlLogicStatusAddress, ControlLogicStatusGet(n)
      PROVE  IInv'
  <2>1. ControlLogicStatusAddress[n] \in Int
    BY DEF ControlLogicStatusAddress
  <2>2. TransportTypeOK'
    BY <1>5, <2>1, ReadTypeOK DEF ControlLogicStatusGet, TypeOK, Commands
  <2>. QED  BY <1>5, <2>2 DEF ControlLogicStatusGet, TypeOK, LoopJobTracked,
                              entries, loopState
<1>6. ASSUME NEW n \in DOMAIN ControlLogicConfigAddress, ControlLogicConfigGet(n)
      PROVE  IInv'
  <2>1. ControlLogicConfigAddress[n] \in Int
    BY DEF ControlLogicConfigAddress
  <2>2. TransportTypeOK'
    BY <1>6, <2>1, ReadTypeOK DEF ControlLogicConfigGet, TypeOK, Commands
  <2>. QED  BY <1>6, <2>2 DEF ControlLogicConfigGet, TypeOK, LoopJobTracked,
                              entries, loopState
<1>7. ASSUME NEW n \in DOMAIN ControlLogicConfigAddress, NEW v \in ConfigValues,
             ControlLogicConfigSet(n, v)
      PROVE  IInv'
  <2>1. v \in Int  BY EntryDomains
  <2>2. TransportTypeOK'
    BY <1>7, <2>1, WriteRegisterTypeOK DEF ControlLogicConfigSet, TypeOK,
                                           Commands
  <2>. QED  BY <1>7, <2>2 DEF ControlLogicConfigSet, TypeOK, LoopJobTracked,
                              entries, loopState
<1>8. CASE ManualReadButton
  <2>1. TransportTypeOK'
    BY <1>8, ManualReadEffectTypeOK DEF ManualReadButton, ManualReadEffect
  <2>. QED  BY <1>8, <2>1 DEF ManualReadButton, TypeOK, LoopJobTracked,
                              entries, loopState
<1>9. ASSUME NEW t \in TimerIds, ScheduleManualRead(t)
      PROVE  IInv'
  <2>1. t = afterId /\ loopVar
    BY <1>9 DEF ScheduleManualRead, LoopJobTracked
  <2>2. pending \ {t} = {}
    BY <2>1 DEF LoopJobTracked
  <2>3. ScheduleManualReadBody({}) /\ UNCHANGED << entries, loopVar >>
    BY <1>9, <2>1, <2>2 DEF ScheduleManualRead
  <2>4. TypeOK'
    BY <2>3, BodyTypeOK DEF TypeOK, LoopTimerTypeOK, entries
  <2>5. LoopJobTracked'
    BY <2>1, <2>3 DEF ScheduleManualReadBody, LoopJobTracked, TypeOK
  <2>. QED  BY <2>4, <2>5
<1>10. CASE ToggleManualReadLoop
  <2>1. CASE loopVar = FALSE
    <3>1. afterId = NoTimer /\ pending = {}
      BY <2>1 DEF LoopJobTracked
    <3>2. loopVar' = TRUE
      BY <1>10, <2>1 DEF ToggleManualReadLoop
    <3>3. ScheduleManualReadBody({}) /\ UNCHANGED entries
      BY <1>10, <3>1, <3>2 DEF ToggleManualReadLoop
    <3>4. TypeOK'
      BY <3>2, <3>3, BodyTypeOK DEF TypeOK, LoopTimerTypeOK, entries
    <3>5. LoopJobTracked'
      BY <3>1, <3>2, <3>3 DEF ScheduleManualReadBody, LoopJobTracked
    <3>. QED  BY <3>4, <3>5
  <2>2. CASE loopVar = TRUE
    <3>1. pending \ {afterId} = {}
      BY DEF LoopJobTracked
    <3>2. loopVar' = FALSE
      BY <1>10, <2>2 DEF ToggleManualReadLoop
    <3>3. pending' = {} /\ afterId' = NoTimer /\ UNCHANGED << tvars, entries >>
      BY <1>10, <3>1, <3>2 DEF ToggleManualReadLoop
    <3>. QED  BY <3>2, <3>3 DEF TypeOK, TransportTypeOK, LoopJobTracked, tvars,
                                entries
  <2>. QED  BY <2>1, <2>2 DEF TypeOK
<1>11. CASE UNCHANGED vars
  BY <1>11 DEF vars, tvars, entries, loopState, TypeOK, TransportTypeOK,
               LoopJobTracked
<1>. QED  BY <1>1, <1>2, <1>3, <1>4, <1>5, <1>6, <1>7, <1>8, <1>9, <1>10,
             <1>11 DEF Next

(***************************************************************************)
(* Every reachable state of the panel is well typed.                       *)
(***************************************************************************)
THEOREM TypeCorrect == Spec => []TypeOK
<1>1. Init => IInv  BY InitIInv
<1>2. IInv /\ [Next]_vars => IInv'  BY NextIInv
<1>3. IInv => TypeOK  BY DEF IInv
<1>. QED  BY <1>1, <1>2, <1>3, PTL DEF Spec

(***************************************************************************)
(* Through any order of clicks, timer firings, edits, plugging and         *)
(* exceptions, every pending schedule_manual_read job is the one whose id  *)
(* toggle_manual_read_loop would cancel, and an unchecked box has no job   *)
(* and no stored id: the Loop Manual Read timer never runs twice.          *)
(***************************************************************************)
THEOREM LoopJobTrackedInvariant == Spec => []LoopJobTracked
<1>1. Init => IInv  BY InitIInv
<1>2. IInv /\ [Next]_vars => IInv'  BY NextIInv
<1>3. IInv => LoopJobTracked  BY DEF IInv
<1>. QED  BY <1>1, <1>2, <1>3, PTL DEF Spec

-----------------------------------------------------------------------------
(***************************************************************************)
(* Refinement: the loop implements the abstract periodic job of            *)
(* PeriodicJob under the mapping enabled <- loopVar, jobs <- pending.      *)
(* The step argument needs LoopJobTracked: a job that runs is the only     *)
(* pending one, and checking the box starts from no job.                   *)
(***************************************************************************)

\* The body of schedule_manual_read leaves the given jobs, or adds one job
\* whose id is neither among them nor the stored one.
LEMMA BodyFilesAtMostOne ==
    ASSUME NEW jobs, ScheduleManualReadBody(jobs)
    PROVE  \/ pending' = jobs
           \/ \E k \in TimerIds \ (jobs \cup {afterId}) : pending' = jobs \cup {k}
  BY DEF ScheduleManualReadBody

\* Every step of the panel is a step of the periodic job, or leaves the
\* checkbox and the pending jobs alone.
LEMMA StepRefines == IInv /\ [Next]_vars => [PJ!Next]_PJ!pjvars
<1> SUFFICES ASSUME IInv, [Next]_vars PROVE [PJ!Next]_PJ!pjvars
  OBVIOUS
<1>1. CASE UNCHANGED << loopVar, pending >>
  BY <1>1 DEF PJ!pjvars
<1>2. ASSUME NEW t \in TimerIds, ScheduleManualRead(t)
      PROVE  PJ!Tick
  <2>1. t = afterId /\ loopVar /\ pending = {t}
    BY <1>2 DEF ScheduleManualRead, LoopJobTracked, IInv
  <2>2. ScheduleManualReadBody({}) /\ UNCHANGED loopVar
    BY <1>2, <2>1 DEF ScheduleManualRead
  <2>3. pending' \in { {} } \cup { {k} : k \in TimerIds \ {t} }
    BY <2>1, <2>2, BodyFilesAtMostOne
  <2>. QED  BY <2>1, <2>2, <2>3 DEF PJ!Tick
<1>3. CASE ToggleManualReadLoop /\ loopVar = FALSE
  <2>1. afterId = NoTimer /\ pending = {}
    BY <1>3 DEF LoopJobTracked, IInv
  <2>2. loopVar' = TRUE /\ ScheduleManualReadBody({})
    BY <1>3, <2>1 DEF ToggleManualReadLoop
  <2>3. pending' \in PJ!AtMostOne
    BY <2>2, BodyFilesAtMostOne DEF PJ!AtMostOne
  <2>. QED  BY <1>3, <2>1, <2>2, <2>3 DEF PJ!Enable, PJ!Next
<1>4. CASE ToggleManualReadLoop /\ loopVar = TRUE
  <2>1. pending \ {afterId} = {}
    BY DEF LoopJobTracked, IInv
  <2>2. loopVar' = FALSE /\ pending' = {}
    BY <1>4, <2>1 DEF ToggleManualReadLoop
  <2>. QED  BY <1>4, <2>2 DEF PJ!Disable, PJ!Next
<1>5. CASE ToggleManualReadLoop
  BY <1>3, <1>4, <1>5 DEF IInv, TypeOK
<1>6. CASE \E t \in TimerIds : ScheduleManualRead(t)
  BY <1>2, <1>6 DEF PJ!Next
<1>7. CASE UNCHANGED vars
  BY <1>1, <1>7 DEF vars, loopState
<1>8. CASE \/ TransportNext /\ UNCHANGED << entries, loopState >>
           \/ \E s \in SlaveIds \cup {NotAnInt} : EditSlaveId(s)
           \/ \E a \in ManualAddrs \cup {NotAnInt} : EditManualAddress(a)
           \/ \E q \in Quantities \cup {NotAnInt} : EditReadQuantity(q)
           \/ \E n \in DOMAIN ControlLogicStatusAddress : ControlLogicStatusGet(n)
           \/ \E n \in DOMAIN ControlLogicConfigAddress : ControlLogicConfigGet(n)
           \/ \E n \in DOMAIN ControlLogicConfigAddress, v \in ConfigValues :
                 ControlLogicConfigSet(n, v)
           \/ ManualReadButton
  BY <1>1, <1>8 DEF EditSlaveId, EditManualAddress, EditReadQuantity,
                    ControlLogicStatusGet, ControlLogicConfigGet,
                    ControlLogicConfigSet, ManualReadButton, loopState
<1>. QED  BY <1>5, <1>6, <1>7, <1>8 DEF Next

(***************************************************************************)
(* For every set of Tk job ids, every behaviour of the panel is a          *)
(* behaviour of the abstract periodic job seen through the checkbox and    *)
(* the pending jobs: toggle_manual_read_loop starts at most one job and    *)
(* cancels it, schedule_manual_read runs only while the box is checked and *)
(* files at most one successor with a fresh id (the safety part of         *)
(* ImplementsPeriodicJob; its fairness part is model-checked).             *)
(***************************************************************************)
THEOREM RefinesPeriodicJob == Spec => PJ!SafetySpec
<1>1. Init => PJ!Init  BY DEF Init, PJ!Init
<1>2. Init => IInv  BY InitIInv
<1>3. IInv /\ [Next]_vars => IInv'  BY NextIInv
<1>4. IInv /\ [Next]_vars => [PJ!Next]_PJ!pjvars  BY StepRefines
<1>. QED  BY <1>1, <1>2, <1>3, <1>4, PTL DEF Spec, PJ!SafetySpec

=============================================================================
