----------------------------- MODULE PeriodicJob -----------------------------
(***************************************************************************)
(* What a GUI "loop" checkbox promises, abstractly: one periodic job that  *)
(* exists only while the box is checked.  Checking the box may start the  *)
(* job; each run of the job replaces it by a new one or ends it; un-       *)
(* checking removes it.  A pending job runs eventually.  This allows the  *)
(* job to end while the box stays checked (the body may fail), but never  *)
(* two jobs at once, never a job while unchecked, and never a run while    *)
(* unchecked.                                                              *)
(***************************************************************************)
CONSTANT Jobs      \* job handles (Tk `after` ids)

VARIABLES
    enabled,       \* the checkbox
    jobs           \* the pending jobs of the loop

pjvars == << enabled, jobs >>

\* No job, or one job.
AtMostOne == { {} } \cup { {j} : j \in Jobs }

Init == ~enabled /\ jobs = {}

\* The box is checked: the job is started at once, or its first run fails.
Enable ==
    /\ ~enabled /\ enabled'
    /\ jobs = {}
    /\ jobs' \in AtMostOne

\* The box is unchecked: the pending job is cancelled.
Disable ==
    /\ enabled /\ ~enabled'
    /\ jobs' = {}

\* The pending job runs: it files its successor (a new handle) or ends.
Tick ==
    /\ enabled /\ UNCHANGED enabled
    /\ \E j \in jobs : jobs' \in { {} } \cup { {k} : k \in Jobs \ {j} }

Next == Enable \/ Disable \/ Tick

SafetySpec == Init /\ [][Next]_pjvars

Spec == SafetySpec /\ WF_pjvars(Tick)
=============================================================================
