------------------------ MODULE MCCertificateProvisioning ------------------------
(***************************************************************************)
(* Model-checking instance of CertificateProvisioning: the operator runs   *)
(* the script twice, enough for a request of the first run to be taken and *)
(* answered while the second run waits for its own.                       *)
(***************************************************************************)
EXTENDS CertificateProvisioning

CONSTANTS local, factory

MCMaxRuns == 2
=============================================================================
