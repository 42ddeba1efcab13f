--------------------------- MODULE FirmwareUpload ---------------------------
(***************************************************************************)
(* The Redfish firmware upload script                                      *)
(* (src/kenmec/main_application/redfish/http_client_test_ota.py): check    *)
(* that the image file exists, POST it with UpdateParameters as multipart  *)
(* to /UpdateFirmwareMultipart with timeout=(5, 300), print the status and *)
(* the body.  Both encoder branches (MultipartEncoder with a               *)
(* Content-Length, or requests' own files= with a progress wrapper) send   *)
(* the same request and are one step here.                                 *)
(*                                                                         *)
(* The operator may run the script again (at most MaxRuns times), one run  *)
(* at a time.  The BMC takes an upload or never sees it; it applies or     *)
(* refuses the image; its reply may be lost or come after the client has   *)
(* given up.                                                               *)
(***************************************************************************)
EXTENDS Naturals

CONSTANT MaxRuns   \* how many times the operator starts the script

ASSUME UploadAssumption == MaxRuns \in Nat \ {0}

VARIABLES
    otaPc,      \* "idle", or "posted" while session.post blocks
    otaRun,     \* the number of the current (or last) run
    fileExists, \* os.path.exists(firmware_file) (the operator's disk)
    pending,    \* runs whose upload is on its way and not yet taken
    answers,    \* replies sent: [run, ok] (ok: a 2xx status)
    applied,    \* runs whose image the BMC applied
    exitCode    \* how the last run ended: "none", "0" or "1" (the exit status)

vars == << otaPc, otaRun, fileExists, pending, answers, applied, exitCode >>

TypeOK ==
    /\ otaPc \in { "idle", "posted" }
    /\ otaRun \in 0 .. MaxRuns
    /\ fileExists \in BOOLEAN
    /\ pending \subseteq 1 .. MaxRuns
    /\ answers \subseteq [ run : 1 .. MaxRuns, ok : BOOLEAN ]
    /\ applied \subseteq 1 .. MaxRuns
    /\ exitCode \in { "none", "0", "1" }

Init ==
    /\ otaPc = "idle" /\ otaRun = 0
    /\ fileExists \in BOOLEAN
    /\ pending = {} /\ answers = {} /\ applied = {}
    /\ exitCode = "none"

(***************************************************************************)
(* main() up to the POST (lines 25-103): a missing file prints "File not   *)
(* found" and exits 1; otherwise the upload is posted and the run blocks.  *)
(***************************************************************************)
StartUpload ==
    /\ otaPc = "idle" /\ otaRun < MaxRuns
    /\ otaRun' = otaRun + 1
    /\ \/ /\ ~fileExists
          /\ exitCode' = "1"
          /\ UNCHANGED << otaPc, pending >>
       \/ /\ fileExists
          /\ pending' = pending \cup { otaRun + 1 }
          /\ otaPc' = "posted"
          /\ UNCHANGED exitCode
    /\ UNCHANGED << fileExists, answers, applied >>

(***************************************************************************)
(* The reply to this run's POST arrives (lines 104-110): the status, the  *)
(* headers and the body are printed whatever the status, and main()       *)
(* returns: exit status 0.  session.post reads the reply on the connection *)
(* this process opened, so only an answer to this run can be read here.   *)
(***************************************************************************)
UploadReplied(a) ==
    /\ otaPc = "posted" /\ a.run = otaRun
    /\ otaPc' = "idle"
    /\ exitCode' = "0"
    /\ UNCHANGED << otaRun, fileExists, pending, answers, applied >>

\* Mutant: timeout=(5, None): only a connection that never opens times out.
UploadTimeoutConnectOnly ==
    /\ otaPc = "posted" /\ otaRun \in pending
    /\ otaPc' = "idle"
    /\ exitCode' = "1"
    /\ UNCHANGED << otaRun, fileExists, pending, answers, applied >>

(***************************************************************************)
(* timeout=(5, 300) expires (lines 85 and 101): ConnectTimeout or          *)
(* ReadTimeout is raised out of main(): a traceback and exit status 1.     *)
(* The upload may still be on its way, or applied already.                 *)
(***************************************************************************)
UploadTimeout ==
    /\ otaPc = "posted"
    /\ otaPc' = "idle"
    /\ exitCode' = "1"
    /\ UNCHANGED << otaRun, fileExists, pending, answers, applied >>

\* The BMC takes upload n: it applies or refuses the image, and its reply
\* reaches the client or is lost.
BmcTakesUpload(n) ==
    /\ n \in pending
    /\ pending' = pending \ {n}
    /\ \E ok \in BOOLEAN, answered \in BOOLEAN :
          /\ applied' = IF ok THEN applied \cup {n} ELSE applied
          /\ answers' = IF answered THEN answers \cup { [run |-> n, ok |-> ok] }
                                    ELSE answers
    /\ UNCHANGED << otaPc, otaRun, fileExists, exitCode >>

\* The upload never reaches the BMC (connection refused or dropped).
UploadLost(n) ==
    /\ n \in pending
    /\ pending' = pending \ {n}
    /\ UNCHANGED << otaPc, otaRun, fileExists, answers, applied, exitCode >>

Next ==
    \/ StartUpload
    \/ \E a \in answers : UploadReplied(a)
    \/ UploadTimeout
    \/ \E n \in pending : BmcTakesUpload(n) \/ UploadLost(n)

\* Only requests' timeout is fair; the BMC owes no reply, the operator no
\* run.  Once the operator has made every run, the system may stop.
Spec == Init /\ [][Next]_vars /\ WF_vars(UploadTimeout)

-----------------------------------------------------------------------------
(***************************************************************************)
(* Every upload run ends, whether the BMC answers, refuses, loses the      *)
(* request or goes silent: the POST carries a connect and a read timeout.  *)
(***************************************************************************)
UploadEnds == otaPc = "posted" ~> otaPc = "idle"

(***************************************************************************)
(* What a CI job or an operator reads from the exit status (main() prints  *)
(* resp.status_code at line 106 and returns): a run that ends with status  *)
(* 0 had its image applied by the BMC.                                     *)
(***************************************************************************)
CleanExitMeansApplied == exitCode = "0" => otaRun \in applied

=============================================================================
