---------------------------- MODULE FirmwareProofs ----------------------------
(***************************************************************************)
(* Proofs about the firmware upload script for every number of runs: the  *)
(* state of the script and of the BMC stays well typed, however uploads   *)
(* are lost, delayed, refused or answered after their run timed out.      *)
(***************************************************************************)
EXTENDS FirmwareUpload, TLAPS

LEMMA InitTypeOK == Init => TypeOK
  BY UploadAssumption DEF Init, TypeOK

(***************************************************************************)
(* Every step keeps the type: a run number never passes MaxRuns, and the  *)
(* BMC only ever takes, applies and answers uploads of runs that started. *)
(***************************************************************************)
LEMMA NextTypeOK == TypeOK /\ [Next]_vars => TypeOK'
<1> SUFFICES ASSUME TypeOK, [Next]_vars PROVE TypeOK'
  OBVIOUS
<1> USE UploadAssumption DEF TypeOK
<1>1. CASE StartUpload
  <2>1. otaRun + 1 \in 1 .. MaxRuns /\ otaRun' = otaRun + 1
    BY <1>1 DEF StartUpload
  <2>2. CASE ~fileExists /\ exitCode' = "1" /\ UNCHANGED << otaPc, pending >>
    BY <1>1, <2>1, <2>2 DEF StartUpload
  <2>3. CASE fileExists /\ pending' = pending \cup { otaRun + 1 }
             /\ otaPc' = "posted" /\ UNCHANGED exitCode
    BY <1>1, <2>1, <2>3 DEF StartUpload
  <2>. QED  BY <1>1, <2>2, <2>3 DEF StartUpload
<1>2. ASSUME NEW a \in answers, UploadReplied(a) PROVE TypeOK'
  BY <1>2 DEF UploadReplied
<1>3. CASE UploadTimeout
  BY <1>3 DEF UploadTimeout
<1>4. ASSUME NEW n \in pending, BmcTakesUpload(n) PROVE TypeOK'
  <2>1. PICK ok \in BOOLEAN, answered \in BOOLEAN :
          /\ applied' = IF ok THEN applied \cup {n} ELSE applied
          /\ answers' = IF answered THEN answers \cup { [run |-> n, ok |-> ok] }
                                    ELSE answers
    BY <1>4 DEF BmcTakesUpload
  <2>2. answers' \subseteq [ run : 1 .. MaxRuns, ok : BOOLEAN ]
        /\ applied' \subseteq 1 .. MaxRuns
    BY <2>1
  <2>3. UNCHANGED << otaPc, otaRun, fileExists, exitCode >>
        /\ pending' \subseteq 1 .. MaxRuns
    BY <1>4 DEF BmcTakesUpload
  <2>. QED  BY <2>2, <2>3
<1>5. ASSUME NEW n \in pending, UploadLost(n) PROVE TypeOK'
  BY <1>5 DEF UploadLost
<1>6. CASE UNCHANGED vars
  BY <1>6 DEF vars
<1>. QED  BY <1>1, <1>2, <1>3, <1>4, <1>5, <1>6 DEF Next

(***************************************************************************)
(* Every reachable state of the upload script and the BMC is well typed,   *)
(* for every number of runs.                                               *)
(***************************************************************************)
THEOREM UploadTypeCorrect == Spec => []TypeOK
<1>1. Init => TypeOK  BY InitTypeOK
<1>2. TypeOK /\ [Next]_vars => TypeOK'  BY NextTypeOK
<1>. QED  BY <1>1, <1>2, PTL DEF Spec
=============================================================================
