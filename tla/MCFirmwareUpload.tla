--------------------------- MODULE MCFirmwareUpload ---------------------------
(***************************************************************************)
(* Model-checking instance of FirmwareUpload: three runs, so that a second   *)
(* run can follow a first one that timed out, and the first upload can be  *)
(* taken by the BMC while the second run waits.                            *)
(***************************************************************************)
EXTENDS FirmwareUpload

MCMaxRuns == 3
=============================================================================
