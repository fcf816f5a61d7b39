------------------------- MODULE CertificateRequest -------------------------
(***************************************************************************)
(* The CertificateRequest object of cert-manager, reduced to what the      *)
(* horizon-issuer controller reads and writes.  The object has a status    *)
(* subresource: one API call stores its metadata, another one its status.  *)
(*                                                                         *)
(* A certificate is identified with the Horizon request that produced it,  *)
(* so that request-id, certificate-id and the stored PEM range over the    *)
(* same set and a mix-up of two requests is visible.                       *)
(***************************************************************************)
CONSTANTS RequestIds,  \* identifiers Horizon hands out to requests
          None         \* an annotation or a field that is not set

ASSUME NoneIsNoId == None \notin RequestIds

OptionalId == RequestIds \cup {None}

(* absent: not created yet; deleting: deletionTimestamp is set.            *)
Life == {"absent", "live", "deleting", "gone"}

(* The Ready condition: its reason, "None" when there is no condition.     *)
ReadyReasons == {"None", "Pending", "Failed", "Denied", "Issued"}

Metadata == [life: Life, finalizer: BOOLEAN,
             requestId: OptionalId, certificateId: OptionalId]

(* approved, denied and invalid are the conditions Approved, Denied and    *)
(* InvalidRequest; failureTime tells whether status.failureTime is set.    *)
Status == [ready: ReadyReasons, approved: BOOLEAN, denied: BOOLEAN,
           invalid: BOOLEAN, failureTime: BOOLEAN, certificate: OptionalId]

Object == [meta: Metadata, status: Status]

(* The object as cert-manager creates it, and as nobody has created it.    *)
Blank(life) ==
  [meta   |-> [life |-> life, finalizer |-> FALSE,
               requestId |-> None, certificateId |-> None],
   status |-> [ready |-> "None", approved |-> FALSE, denied |-> FALSE,
               invalid |-> FALSE, failureTime |-> FALSE, certificate |-> None]]

Present(o) == o.meta.life \in {"live", "deleting"}

(* The three early returns on the Ready condition: True, Failed, Denied.   *)
Settled(o) == o.status.ready \in {"Issued", "Failed", "Denied"}

(* Mutant: only the request-id is compared.                                *)
RequestIdChanged(old, new) == old.meta.requestId # new.meta.requestId

(* reflect.DeepEqual on the annotation maps of the copy and of the object. *)
AnnotationsChanged(old, new) ==
  \/ old.meta.requestId # new.meta.requestId
  \/ old.meta.certificateId # new.meta.certificateId

(* Mutant: the condition's status is stored where its reason belongs.      *)
SetReadyStatus(o, reason) ==
  [o EXCEPT !.status.ready = IF reason = "Issued" THEN "True" ELSE "False"]

SetReady(o, reason) == [o EXCEPT !.status.ready = reason]
=============================================================================
