-------------------- MODULE CertificateRequestProperties --------------------
(***************************************************************************)
(* What makes the CertificateRequest controller correct: what a stored     *)
(* request may say, what a step may never do, and what must eventually     *)
(* happen.                                                                 *)
(***************************************************************************)
EXTENDS CertificateRequestController

(* What a stored CertificateRequest may say.                               *)

(* A request that is Ready=True carries the certificate of the very        *)
(* Horizon request its annotations name, submitted for it and completed,   *)
(* and it is approved: whatever passes, caches and retries lie in between, *)
(* the two-pass write of handleCompletedRequest's result mixes nothing.    *)
IssuedIsBacked ==
  \A c \in CRs : obj[c].status.ready = "Issued" =>
    LET r == obj[c].status.certificate IN
    /\ r \in RequestIds
    /\ obj[c].meta.requestId = r /\ obj[c].meta.certificateId = r
    /\ obj[c].status.approved
    /\ hz[r].owner = c /\ hz[r].status = "completed"

(* No request is both approved and denied, although Horizon's decision and *)
(* an approver's reach it from two sides and through a stale cache.        *)
DecidedOnce == \A c \in CRs : ~(obj[c].status.approved /\ obj[c].status.denied)

(* Ready=True, Failed and Denied are final: the early returns of Reconcile *)
(* and the optimistic lock keep any later pass from changing the reason or *)
(* the certificate.                                                        *)
SettledIsFinal ==
  [][\A c \in CRs :
       Settled(obj[c]) /\ obj'[c].meta.life # "gone" =>
         /\ obj'[c].status.ready = obj[c].status.ready
         /\ obj'[c].status.certificate = obj[c].status.certificate]_vars

(* The request-id annotation is written once: a pass that submits again,   *)
(* from a cache that has not seen the annotation, cannot replace it.       *)
RequestIdIsFinal ==
  [][\A c \in CRs :
       obj[c].meta.requestId # None /\ obj'[c].meta.life # "gone" =>
         obj'[c].meta.requestId = obj[c].meta.requestId]_vars

(* With revokeCertificates set, an object that holds a certificate leaves  *)
(* the cluster only after Horizon accepted a request to revoke it: the     *)
(* finalizer is stored with the request-id, long before there is a         *)
(* certificate.  So it is as long as the setting does not change; set      *)
(* later, it does not cover the certificates issued by then, although the  *)
(* documentation of revokeCertificates names all that have been issued.    *)
RevokeOnDeletion ==
  [][\A c \in CRs :
       /\ issuer.revoke /\ obj[c].status.certificate # None
       /\ obj'[c].meta.life = "gone"
       => hz'[obj[c].status.certificate].revoking]_vars

(* Whatever becomes of revokeCertificates meanwhile, an object that has    *)
(* both the finalizer and a certificate leaves only after Horizon accepted *)
(* a request to revoke that certificate: handleDeletion removes the        *)
(* finalizer from the version it read, and only after the revocation.      *)
RevokedBeforeRemoval ==
  [][\A c \in CRs :
       /\ obj[c].meta.finalizer /\ obj[c].status.certificate # None
       /\ obj'[c].meta.life = "gone"
       => hz'[obj[c].status.certificate].revoking]_vars

(* A renewal submitted to Horizon replaces a certificate that was issued   *)
(* for the same Certificate object: last-certificate-id is only ever the   *)
(* id of a completed request of a sibling.                                 *)
RenewTargetsPredecessor ==
  \A r \in RequestIds : hz[r].workflow = "renew" =>
    LET p == hz[r].previous IN
    /\ p \in RequestIds \ {r}
    /\ hz[p].status = "completed"
    /\ ParentOf[hz[p].owner] = ParentOf[hz[r].owner]

(* A request whose request-id is recorded never ends as Failed: errors     *)
(* while polling leave it Pending, and a refused second submission, from a *)
(* cache that has not seen the annotation, loses against the stored one.   *)
RecordedNeverFails ==
  \A c \in CRs : obj[c].meta.requestId # None => obj[c].status.ready # "Failed"

(* The comment before the update of the parent: "if CertificateIdAnnotation*)
(* was set, we should update the parent Certificate object with the        *)
(* annotation".  Once a request is issued and its reconciliation is over,  *)
(* its parent names the certificate, and the next issuance can renew it.   *)
ParentKnowsCertificate ==
  \A c \in CRs :
    obj[c].status.ready = "Issued" /\ cur # c /\ ParentOf[c] # None =>
      parent[ParentOf[c]].lastId = obj[c].status.certificate

(* A request of another API group is never written.  One of our group that *)
(* belongs to no Certificate is written, its error makes it Pending, but   *)
(* neither of the two is ever submitted to Horizon.                        *)
StraysUntouched ==
  \A c \in CRs :
    /\ c \notin Ours => /\ ~Settled(obj[c]) /\ obj[c].status.ready # "Pending"
                        /\ ~obj[c].meta.finalizer
    /\ c \notin Ours \/ ParentOf[c] = None =>
         /\ obj[c].meta.requestId = None
         /\ \A r \in RequestIds : hz[r].owner # c

(* The account of a stored CertificateRequest: the conditions Approved and *)
(* Denied as one decision, the final reasons of Ready as a result.         *)
Account(c) ==
  [life        |-> obj[c].meta.life,
   decision    |-> IF obj[c].status.denied THEN "denied"
                   ELSE IF obj[c].status.approved THEN "approved" ELSE "open",
   result      |-> IF Settled(obj[c]) THEN obj[c].status.ready ELSE "open",
   id          |-> obj[c].meta.requestId,
   certificate |-> obj[c].status.certificate]

Abstract == INSTANCE Issuance WITH
  request   <- [c \in CRs |-> Account(c)],
  holder    <- [r \in RequestIds |-> hz[r].owner],
  certified <- {r \in RequestIds : hz[r].status = "completed"},
  revoking  <- {r \in RequestIds : hz[r].revoking}

(* The controller implements Issuance: through stale caches, two-pass      *)
(* writes, lost answers and crashes every request is decided, bound and    *)
(* settled once, what it is given comes from the submission it is bound    *)
(* to, one that somebody else approved or denied is never bound or issued  *)
(* any more, and no revocation is requested for a live request.            *)
ImplementsIssuance == Abstract!AccountSpec

(* The comment on SubmitEnrollRequest: "It is run only once in a CSR       *)
(* lifecycle, and sets an annotation [...] to ensure it is not run again." *)
SubmittedOnce ==
  \A c \in CRs : Cardinality({r \in RequestIds : hz[r].owner = c}) <= 1

-----------------------------------------------------------------------------
(* What must eventually happen.                                            *)

Abandoned(c) == obj[c].meta.life # "live"

(* A denial, from Horizon or from an approver, ends up in the Ready        *)
(* condition of the request, unless the request is being deleted.  The     *)
(* worker may be a pass behind: a second one has to report it.             *)
DenialReported ==
  \A c \in Ours :
    (obj[c].meta.life = "live" /\ obj[c].status.denied)
      ~> (Settled(obj[c]) \/ Abandoned(c))

Completed(c) ==
  /\ obj[c].meta.life = "live"
  /\ obj[c].meta.requestId # None
  /\ hz[obj[c].meta.requestId].status = "completed"

Delivered(c) ==
  obj[c].status.ready = "Issued" \/ obj[c].status.denied \/ Abandoned(c)

(* A request that Horizon completed becomes Ready with its certificate,    *)
(* unless an approver denies it or it is deleted first.  So it is as long  *)
(* as nobody else approves it (AlreadyApproved polls no more), the chain   *)
(* can be fetched (ChainFailed leaves it approved) and holds more than a   *)
(* root (ChainIsRoot).                                                     *)
CompletedDelivered == \A c \in Ours : Completed(c) ~> Delivered(c)

(* The same from watch events and requeues alone, without the periodic     *)
(* resync, as long as the issuer stays ready: no wake-up is lost between   *)
(* the metadata pass and the status pass.                                  *)
DeliveredByEvents == []IsReady => CompletedDelivered

(* A live request of a Certificate that is being issued is submitted and   *)
(* its request-id recorded, or it is settled, as long as nobody else       *)
(* approves it first: an approved request is not submitted any more.       *)
RequestSubmitted ==
  \A c \in Ours : ParentOf[c] # None =>
    (obj[c].meta.life = "live" /\ parent[ParentOf[c]].issuing # "none")
      ~> \/ obj[c].meta.requestId # None \/ Settled(obj[c]) \/ Abandoned(c)
         \/ parent[ParentOf[c]].issuing = "none"

(* A deleted request that holds a certificate is removed, even though      *)
(* handleDeletion swallows the error of its Update.  The revocation is     *)
(* then requested once more, and Horizon is taken to accept that.  Nothing *)
(* is said of a request deleted before it has a certificate: it stays as   *)
(* long as Horizon refuses to revoke nothing (see RevokeFailed).           *)
DeletionCompletes ==
  \A c \in Ours :
    (obj[c].meta.life = "deleting" /\ obj[c].status.certificate # None)
      ~> obj[c].meta.life = "gone"
=============================================================================
