----------------------- MODULE CertificateProvisioning -----------------------
(***************************************************************************)
(* The Redfish certificate scripts of src/kenmec/main_application/redfish: *)
(* https_client_test_certificate_set.py (GenerateCSR on the BMC, signing   *)
(* of the CSR with the local CA, ReplaceCertificate for the HTTPS server   *)
(* certificate, then ReplaceCertificate for the trusted root), and         *)
(* https_client_test.py (one GET over mutual TLS that verifies the server  *)
(* against the local CA and presents a client certificate of that CA).    *)
(*                                                                         *)
(* The operator runs the provisioning script again and again (at most      *)
(* MaxRuns times), one run at a time; each run is a fresh process.  The    *)
(* BMC is the environment: it takes the requests it has received in any    *)
(* order, may take one after the client has given up on it, may refuse    *)
(* it, and its reply may be lost.  A run blocks in requests.post until the *)
(* reply of that very request arrives on its connection, or the 30 s       *)
(* timeout raises.  Certificates are abstracted to their issuer.           *)
(***************************************************************************)
EXTENDS Naturals

CONSTANTS
    MaxRuns,    \* how many times the operator starts the script
    LocalCA,    \* the CA of ca.crt / ca.key (and of root_ca/ca.crt)
    FactoryCA   \* the issuer of what the BMC holds before provisioning

ASSUME ProvisioningAssumption ==
    /\ MaxRuns \in Nat \ {0}
    /\ LocalCA # FactoryCA

Issuers == { LocalCA, FactoryCA }

\* The three POSTs of the script, by Redfish action.
Kinds == { "GenerateCSR", "ServerCert", "RootCert" }

\* What a run waits for in requests.post, by the request it posted.
Awaits == [ csr |-> "GenerateCSR", server |-> "ServerCert", root |-> "RootCert" ]

VARIABLES
    pc,         \* the running script: "idle" or the POST it blocks in
    run,        \* the number of the current (or last) run
    caFiles,    \* ca.crt and ca.key exist and load (the operator's disk)
    inflight,   \* requests posted and not yet taken by the BMC
    replies,    \* replies the BMC has sent, each on its request's connection
    bmcServer,  \* issuer of the BMC's HTTPS server certificate
    bmcTrusted, \* issuer the BMC trusts for client certificates
    lastExit,   \* how the last finished run ended: "none", "ok", "traceback"
    getResult   \* the outcome of the last https_client_test.py GET

vars == << pc, run, caFiles, inflight, replies, bmcServer, bmcTrusted,
           lastExit, getResult >>

Requests == [ run : 1 .. MaxRuns, kind : Kinds ]
Replies == [ run : 1 .. MaxRuns, kind : Kinds, ok : BOOLEAN, csr : BOOLEAN ]

TypeOK ==
    /\ pc \in { "idle", "csr", "server", "root" }
    /\ run \in 0 .. MaxRuns
    /\ caFiles \in BOOLEAN
    /\ inflight \subseteq Requests
    /\ replies \subseteq Replies
    /\ bmcServer \in Issuers /\ bmcTrusted \in Issuers
    /\ lastExit \in { "none", "ok", "traceback" }
    /\ getResult \in { "none", "200", "ssl_error" }

Init ==
    /\ pc = "idle" /\ run = 0
    /\ caFiles \in BOOLEAN
    /\ inflight = {} /\ replies = {}
    /\ bmcServer = FactoryCA /\ bmcTrusted = FactoryCA
    /\ lastExit = "none" /\ getResult = "none"

\* Run n's requests.post of one of the script's actions; it blocks for the reply.
Post(n, kind, next) ==
    /\ inflight' = inflight \cup { [run |-> n, kind |-> kind] }
    /\ pc' = next

\* The run leaves: "ok" at the end of the script, "traceback" on an
\* exception nobody catches (exit status 1).
Exit(status) ==
    /\ pc' = "idle"
    /\ lastExit' = status
    /\ UNCHANGED inflight

\* The operator starts the script: it posts GenerateCSR (lines 45-47).
StartRun ==
    /\ pc = "idle" /\ run < MaxRuns
    /\ run' = run + 1
    /\ Post(run + 1, "GenerateCSR", "csr")
    /\ UNCHANGED << caFiles, replies, bmcServer, bmcTrusted, lastExit, getResult >>

(***************************************************************************)
(* The reply to the run's own request arrives on its connection.  Each     *)
(* requests.post opens its own connection, so a late reply to an earlier   *)
(* run's request never reaches this one.                                   *)
(***************************************************************************)
OwnReply(r) == r.run = run /\ r.kind = Awaits[pc]

(***************************************************************************)
(* GenerateCSR answered (lines 48-156): raise_for_status raises on an      *)
(* error status; an empty CSRString prints "No CSRString in response" and  *)
(* the script ends; otherwise load_ca raises if the CA files are missing   *)
(* or do not match, and the signed certificate is posted to                *)
(* ReplaceCertificate for the server certificate.                          *)
(***************************************************************************)
CsrReplied(r) ==
    /\ pc = "csr" /\ OwnReply(r)
    /\ \/ ~r.ok /\ Exit("traceback")
       \/ r.ok /\ ~r.csr /\ Exit("ok")
       \/ r.ok /\ r.csr /\ ~caFiles /\ Exit("traceback")
       \/ r.ok /\ r.csr /\ caFiles /\ Post(run, "ServerCert", "server")
                /\ UNCHANGED lastExit
    /\ UNCHANGED << run, caFiles, replies, bmcServer, bmcTrusted, getResult >>

(***************************************************************************)
(* ReplaceCertificate (server) answered (lines 157-177): an error status   *)
(* is caught and printed, and the root CA is posted either way.           *)
(***************************************************************************)
ServerReplied(r) ==
    /\ pc = "server" /\ OwnReply(r)
    /\ Post(run, "RootCert", "root")
    /\ UNCHANGED << run, caFiles, replies, bmcServer, bmcTrusted, lastExit,
                    getResult >>

\* ReplaceCertificate (root) answered (lines 178-182): printed, the end.
RootReplied(r) ==
    /\ pc = "root" /\ OwnReply(r)
    /\ Exit("ok")
    /\ UNCHANGED << run, caFiles, replies, bmcServer, bmcTrusted, getResult >>

\* Mutant: the server-certificate POST sent without timeout=.
TimeoutWithoutServerPostTimeout ==
    /\ pc \in { "csr", "root" }
    /\ Exit("traceback")
    /\ UNCHANGED << run, caFiles, replies, bmcServer, bmcTrusted, getResult >>

(***************************************************************************)
(* timeout=30 of the POST the run blocks in (lines 47, 156, 177) expires:  *)
(* requests raises Timeout outside every try, and the run dies.  The BMC   *)
(* may still take the request later.                                       *)
(***************************************************************************)
Timeout ==
    /\ pc # "idle"
    /\ Exit("traceback")
    /\ UNCHANGED << run, caFiles, replies, bmcServer, bmcTrusted, getResult >>

(***************************************************************************)
(* The BMC takes a request: it refuses it, or performs it (a fresh CSR,    *)
(* with or without a CSRString; the new server certificate; the new        *)
(* trusted root), and its reply reaches the connection or is lost.        *)
(***************************************************************************)
BmcHandles(m) ==
    /\ m \in inflight
    /\ inflight' = inflight \ {m}
    /\ \E ok \in BOOLEAN, csr \in BOOLEAN, answered \in BOOLEAN :
          /\ csr => ok /\ m.kind = "GenerateCSR"
          /\ bmcServer' = IF ok /\ m.kind = "ServerCert" THEN LocalCA ELSE bmcServer
          /\ bmcTrusted' = IF ok /\ m.kind = "RootCert" THEN LocalCA ELSE bmcTrusted
          /\ replies' = IF answered
                        THEN replies \cup { [run |-> m.run, kind |-> m.kind, ok |-> ok, csr |-> csr] }
                        ELSE replies
    /\ UNCHANGED << pc, run, caFiles, lastExit, getResult >>

\* The request is lost before the BMC sees it (or the BMC is unreachable).
RequestLost(m) ==
    /\ m \in inflight
    /\ inflight' = inflight \ {m}
    /\ UNCHANGED << pc, run, caFiles, replies, bmcServer, bmcTrusted,
                    lastExit, getResult >>

(***************************************************************************)
(* https_client_test.py: GET /redfish/v1 over mutual TLS.  The handshake   *)
(* succeeds when the client's verify= CA (the local CA) issued the         *)
(* server's certificate and the BMC trusts the CA of the client's cert.   *)
(***************************************************************************)
GetVerifies == bmcServer = LocalCA /\ bmcTrusted = LocalCA

MtlsGet ==
    /\ getResult' = IF GetVerifies THEN "200" ELSE "ssl_error"
    /\ UNCHANGED << pc, run, caFiles, inflight, replies, bmcServer, bmcTrusted,
                    lastExit >>

Next ==
    \/ StartRun
    \/ \E r \in replies : CsrReplied(r) \/ ServerReplied(r) \/ RootReplied(r)
    \/ Timeout
    \/ \E m \in inflight : BmcHandles(m) \/ RequestLost(m)
    \/ MtlsGet

\* The script's timeouts are the only fairness: the BMC owes no answer and
\* the operator owes no run.
Spec == Init /\ [][Next]_vars /\ WF_vars(Timeout)

-----------------------------------------------------------------------------
(***************************************************************************)
(* Every run of the script ends, whatever the BMC and the network do: each *)
(* POST carries timeout=30.                                                *)
(***************************************************************************)
RunsEnd == pc # "idle" ~> pc = "idle"

(***************************************************************************)
(* What the operator reads from a clean exit: when the script last ended   *)
(* without a traceback, the BMC is provisioned, i.e. the mutual-TLS GET of *)
(* https_client_test.py verifies.                                          *)
(***************************************************************************)
CleanExitMeansGetVerifies == lastExit = "ok" => GetVerifies
=============================================================================
