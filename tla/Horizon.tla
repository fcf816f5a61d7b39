------------------------------- MODULE Horizon ------------------------------
(***************************************************************************)
(* The Horizon server as the issuer sees it through its REST API: requests *)
(* are submitted, decided by Horizon on its own, read back, and the        *)
(* revocation of the certificates they produced can be asked for.          *)
(***************************************************************************)
EXTENDS HorizonIssuer

CONSTANT CRs            \* the CertificateRequest objects of the cluster

ASSUME NoneIsNoCR == None \notin CRs

VARIABLE hz             \* hz[r]: what Horizon knows of request r

Workflows == {"none", "enroll", "renew"}
RequestStatus == {"unused", "pending", "approved", "completed", "denied",
                  "canceled"}

(* owner: the CertificateRequest whose CSR was submitted; previous: the    *)
(* certificate a renewal replaces; revoking: a request to revoke the       *)
(* certificate was accepted.                                               *)
HorizonRequest == [owner: CRs \cup {None}, workflow: Workflows,
                   previous: OptionalId, status: RequestStatus,
                   revoking: BOOLEAN]

NoRequest == [owner |-> None, workflow |-> "none", previous |-> None,
              status |-> "unused", revoking |-> FALSE]

HorizonInit == hz = [r \in RequestIds |-> NoRequest]

(* A POST /requests that Horizon accepts.                                  *)
Accept(r, owner, workflow, previous) ==
  /\ hz[r].status = "unused"
  /\ hz' = [hz EXCEPT ![r] =
              [owner |-> owner, workflow |-> workflow, previous |-> previous,
               status |-> "pending", revoking |-> FALSE]]

(* A POST /requests for the workflow revoke that Horizon accepts.  It is a *)
(* request as well, which Horizon may carry out, leave pending or deny.    *)
(* The issuer drops the answer and asks no more, so what becomes of it is  *)
(* left out.  Naming no certificate changes nothing.                       *)
Revoke(certificate) ==
  hz' = [r \in RequestIds |->
           IF r = certificate THEN [hz[r] EXCEPT !.revoking = TRUE] ELSE hz[r]]

(* Operators and workflows of Horizon move a request towards its end.      *)
Decides(r) ==
  \E next \in CASE hz[r].status = "pending"  -> {"approved", "denied", "canceled"}
                [] hz[r].status = "approved" -> {"completed", "canceled"}
                [] OTHER -> {} :
    hz' = [hz EXCEPT ![r].status = next]
=============================================================================
