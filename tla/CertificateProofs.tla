--------------------------- MODULE CertificateProofs ---------------------------
(***************************************************************************)
(* Proofs about the certificate-provisioning script for every number of    *)
(* runs: the state of the script and of the BMC stays well typed, however *)
(* requests of earlier runs are lost, delayed or answered late.            *)
(***************************************************************************)
EXTENDS CertificateProvisioning, TLAPS

LEMMA InitTypeOK == Init => TypeOK
  BY ProvisioningAssumption DEF Init, TypeOK, Issuers

(***************************************************************************)
(* Every step keeps the type.  A run posts its next request under its own *)
(* number, which it learns from its own reply (a member of Replies), so no *)
(* request is ever filed under a run number past MaxRuns.                  *)
(***************************************************************************)
LEMMA NextTypeOK == TypeOK /\ [Next]_vars => TypeOK'
<1> SUFFICES ASSUME TypeOK, [Next]_vars PROVE TypeOK'
  OBVIOUS
<1> USE ProvisioningAssumption DEF TypeOK
<1>1. CASE StartRun
  <2>1. run + 1 \in 1 .. MaxRuns /\ run' = run + 1  BY <1>1 DEF StartRun
  <2>2. inflight' \subseteq Requests
    BY <1>1, <2>1 DEF StartRun, Post, Requests, Kinds
  <2>3. pc' = "csr"  BY <1>1 DEF StartRun, Post
  <2>4. UNCHANGED << caFiles, replies, bmcServer, bmcTrusted, lastExit, getResult >>
    BY <1>1 DEF StartRun
  <2>. QED  BY <2>1, <2>2, <2>3, <2>4
<1>2. ASSUME NEW r \in replies, CsrReplied(r) PROVE TypeOK'
  <2>1. r.run = run /\ r.kind = "GenerateCSR"
    BY <1>2 DEF CsrReplied, OwnReply, Awaits
  <2>2. CASE ~r.ok /\ Exit("traceback")
    BY <1>2, <2>2 DEF CsrReplied, Exit
  <2>3. CASE r.ok /\ ~r.csr /\ Exit("ok")
    BY <1>2, <2>3 DEF CsrReplied, Exit
  <2>4. CASE r.ok /\ r.csr /\ ~caFiles /\ Exit("traceback")
    BY <1>2, <2>4 DEF CsrReplied, Exit
  <2>5. CASE r.ok /\ r.csr /\ caFiles /\ Post(run, "ServerCert", "server")
             /\ UNCHANGED lastExit
    <3>1. pc = "csr"  BY <1>2 DEF CsrReplied
    <3>2. run \in 1 .. MaxRuns
      BY <2>1 DEF Replies
    <3>. QED  BY <1>2, <2>1, <2>5, <3>1, <3>2
              DEF CsrReplied, Post, Requests, Kinds
  <2>. QED  BY <1>2, <2>2, <2>3, <2>4, <2>5 DEF CsrReplied
<1>3. ASSUME NEW r \in replies, ServerReplied(r) PROVE TypeOK'
  <2>1. r.run = run /\ r.kind = "ServerCert" /\ pc = "server"
    BY <1>3 DEF ServerReplied, OwnReply, Awaits
  <2>2. run \in 1 .. MaxRuns
    BY <2>1 DEF Replies
  <2>. QED  BY <1>3, <2>1, <2>2 DEF ServerReplied, Post, Requests, Kinds
<1>4. ASSUME NEW r \in replies, RootReplied(r) PROVE TypeOK'
  BY <1>4 DEF RootReplied, Exit
<1>5. CASE Timeout
  BY <1>5 DEF Timeout, Exit
<1>6. ASSUME NEW m \in inflight, BmcHandles(m) PROVE TypeOK'
  <2>1. PICK ok \in BOOLEAN, csr \in BOOLEAN, answered \in BOOLEAN :
          /\ csr => ok /\ m.kind = "GenerateCSR"
          /\ bmcServer' = IF ok /\ m.kind = "ServerCert" THEN LocalCA ELSE bmcServer
          /\ bmcTrusted' = IF ok /\ m.kind = "RootCert" THEN LocalCA ELSE bmcTrusted
          /\ replies' = IF answered
                        THEN replies \cup { [run |-> m.run, kind |-> m.kind,
                                             ok |-> ok, csr |-> csr] }
                        ELSE replies
    BY <1>6 DEF BmcHandles
  <2>2. replies \subseteq replies' /\ replies' \subseteq Replies
    BY <2>1 DEF Requests, Replies
  <2>3. bmcServer' \in Issuers /\ bmcTrusted' \in Issuers
    BY <2>1 DEF Issuers
  <2>4. UNCHANGED << pc, run, caFiles, lastExit, getResult >>
    BY <1>6 DEF BmcHandles
  <2>5. inflight' \subseteq Requests
    BY <1>6 DEF BmcHandles
  <2>. QED  BY <2>2, <2>3, <2>4, <2>5
<1>7. ASSUME NEW m \in inflight, RequestLost(m) PROVE TypeOK'
  BY <1>7 DEF RequestLost
<1>8. CASE MtlsGet
  BY <1>8 DEF MtlsGet
<1>9. CASE UNCHANGED vars
  BY <1>9 DEF vars
<1>. QED  BY <1>1, <1>2, <1>3, <1>4, <1>5, <1>6, <1>7, <1>8, <1>9 DEF Next

(***************************************************************************)
(* Every reachable state of the provisioning script and the BMC is well    *)
(* typed, for every number of runs.                                        *)
(***************************************************************************)
THEOREM ProvisioningTypeCorrect == Spec => []TypeOK
<1>1. Init => TypeOK  BY InitTypeOK
<1>2. TypeOK /\ [Next]_vars => TypeOK'  BY NextTypeOK
<1>. QED  BY <1>1, <1>2, PTL DEF Spec
=============================================================================
