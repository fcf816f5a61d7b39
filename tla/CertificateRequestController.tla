-------------------- MODULE CertificateRequestController --------------------
(***************************************************************************)
(* CertificateRequestReconciler of horizon-issuer: one worker takes a      *)
(* CertificateRequest from the work queue, reads it from the informer      *)
(* cache, talks to Horizon, and in its deferred function writes back       *)
(* either the metadata or the status of the object, then the parent        *)
(* Certificate.  Around the worker: the API server, the informer cache,    *)
(* cert-manager, Horizon, the issuer's administrator, and faults.          *)
(*                                                                         *)
(* A reconciliation is cut at its calls to Horizon and at its writes.  The *)
(* reads at its start, with the DNS lookups, are one step with the         *)
(* decision they lead to, and so are the template call and the submission. *)
(* The API server's optimistic lock compares the version the worker read   *)
(* with the stored one; here it compares the contents, which agree unless  *)
(* the object was changed and changed back.  Certificates are read from    *)
(* the cache and locked as well.                                           *)
(***************************************************************************)
EXTENDS Horizon, Naturals, FiniteSets

CONSTANTS Ours,         \* the CRs whose issuerRef is of our API group
          Certificates, \* the Certificate objects of cert-manager
          ParentOf,     \* the Certificate named by a CR's annotation, or None
          DnsChecker,   \* whether the issuer's spec has a DNS checker
          Issuers,      \* the states the issuer may start in
          Reasons,      \* the states of Issuing that cert-manager may set
          Disturbances, \* the faults and outside decisions that may happen
          MaxDisturbances \* how many of them, over all kinds

ASSUME ControllerAssumption ==
  /\ Ours \subseteq CRs
  /\ None \notin Certificates
  /\ ParentOf \in [CRs -> Certificates \cup {None}]
  /\ DnsChecker \in BOOLEAN
  /\ Issuers \subseteq [exists: BOOLEAN, ready: BOOLEAN, revoke: BOOLEAN]
  /\ Reasons \subseteq {"none", "new", "renew"}
  /\ MaxDisturbances \in Nat

VARIABLES
  obj,      \* obj[c]: the CertificateRequest stored by the API server
  cache,    \* cache[c]: the informer's copy of it, possibly stale
  known,    \* known[k]: the informer's copy of Certificate k
  queue,    \* the CRs waiting in the work queue
  pc,       \* the call the worker is about to make, or "idle"
  cur,      \* the CR being reconciled, or None
  base,     \* certificateRequestCopy: the object as the worker read it
  local,    \* certificateRequest: the object the worker edits in memory
  outcome,  \* what Reconcile will return: done, requeue or error
  replaces, \* the last-certificate-id read for a renewal, or None
  parent,   \* parent[k]: annotation and Issuing condition of Certificate k
  issuer,   \* the Issuer or ClusterIssuer the requests refer to
  disturbed \* how many disturbances happened so far

worker == <<pc, cur, base, local, outcome, replaces>>
vars == <<obj, cache, known, queue, worker, hz, parent, issuer, disturbed>>

PCs == {"idle", "enroll", "renew", "poll", "chain", "revoke", "unfinalize",
        "write", "parent"}
Submitting == {"enroll", "renew"}
Outcomes == {"done", "requeue", "error"}

(* The Issuing condition of a Certificate: absent, with one of the reasons *)
(* ManuallyTriggered, Renewing or Expired, or with any other reason.       *)
Issuing == {"none", "new", "renew"}

Parent == [lastId: OptionalId, issuing: Issuing]
Issuer == [exists: BOOLEAN, ready: BOOLEAN, revoke: BOOLEAN]

Init ==
  /\ obj = [c \in CRs |-> Blank("absent")]
  /\ cache = obj
  /\ queue = {}
  /\ pc = "idle" /\ cur = None /\ outcome = "done"
  /\ base = Blank("absent") /\ local = Blank("absent")
  /\ HorizonInit
  /\ parent = [k \in Certificates |-> [lastId |-> None, issuing |-> "none"]]
  /\ known = parent /\ replaces = None
  /\ issuer \in Issuers
  /\ disturbed = 0

(* One fault, or one decision from outside, of the given kind, within the  *)
(* budget of the run.                                                      *)
Disturbance(kind) ==
  /\ kind \in Disturbances
  /\ disturbed < MaxDisturbances
  /\ disturbed' = disturbed + 1

-----------------------------------------------------------------------------
(* The start of Reconcile: reads and early returns.                        *)

(* Reconcile takes c from the queue and goes on to the call p; a renewal   *)
(* takes the id it replaces from the Certificate as it was read.           *)
Begin(c, p, object, out) ==
  /\ pc' = p /\ cur' = c /\ base' = cache[c] /\ local' = object
  /\ outcome' = out
  /\ replaces' = IF p = "renew" THEN known[ParentOf[c]].lastId ELSE None
  /\ queue' = queue \ {c}

Dequeue(c) == pc = "idle" /\ c \in queue

(* Mutant: the Ready condition is not looked at.                           *)
IsReadyExists == issuer.exists

IsReady == issuer.exists /\ issuer.ready

(* Mutant: the API group of the issuerRef is not looked at.                *)
ReconcilableAnyGroup(c) == Present(cache[c]) /\ IsReady

(* Object, issuer, readiness and credentials were found.                   *)
Reconcilable(c) == Present(cache[c]) /\ c \in Ours /\ IsReady

BeingDeleted(c) == issuer.revoke /\ cache[c].meta.life = "deleting"

(* Mutant: Failed requests are tried again.                                *)
ProceedsWhenFailed(c) ==
  /\ Reconcilable(c) /\ ~BeingDeleted(c)
  /\ cache[c].status.ready \notin {"Issued", "Denied"}

(* Neither under deletion nor in a final state: certificateRequestCopy is  *)
(* taken and the deferred update is armed.                                 *)
Proceeds(c) == Reconcilable(c) /\ ~BeingDeleted(c) /\ ~Settled(cache[c])

(* Mutant: the finalizer waits until there is a certificate to revoke.     *)
PreparedLate(c) ==
  IF issuer.revoke /\ cache[c].meta.life = "live"
     /\ cache[c].meta.certificateId # None
  THEN RegisterFinalizer(cache[c]) ELSE cache[c]

(* The object in memory once the finalizer has been looked at.             *)
Prepared(c) ==
  IF issuer.revoke /\ cache[c].meta.life = "live"
  THEN RegisterFinalizer(cache[c]) ELSE cache[c]

(* The early returns without an error: nothing is requeued.                *)
IgnoreRequest(c) ==
  /\ Dequeue(c)
  /\ \/ ~Present(cache[c])
     \/ c \notin Ours
     \/ issuer.exists /\ ~issuer.ready
     \/ Reconcilable(c) /\ BeingDeleted(c) /\ ~cache[c].meta.finalizer
     \/ Reconcilable(c) /\ ~BeingDeleted(c) /\ Settled(cache[c])
  /\ queue' = queue \ {c}
  /\ UNCHANGED <<obj, cache, known, worker, hz, parent, issuer, disturbed>>

(* The returns with an error before the deferred update is armed: the      *)
(* queue keeps the request.                                                *)
MissingIssuer(c) ==
  /\ Dequeue(c) /\ Present(cache[c]) /\ c \in Ours /\ ~issuer.exists
  /\ UNCHANGED vars

(* The object, the issuer, the secret or the client cannot be had.         *)
ReadFails(c) ==
  /\ Dequeue(c) /\ Disturbance("read")
  /\ UNCHANGED <<obj, cache, known, queue, worker, hz, parent, issuer>>

StartDeletion(c) ==
  /\ Dequeue(c) /\ Reconcilable(c) /\ BeingDeleted(c) /\ cache[c].meta.finalizer
  /\ Begin(c, "revoke", cache[c], "done")
  /\ UNCHANGED <<obj, cache, known, hz, parent, issuer, disturbed>>

ReportDenial(c) ==
  /\ Dequeue(c) /\ Proceeds(c) /\ cache[c].status.denied
  /\ Begin(c, "write", MarkDenied(Prepared(c)), "done")
  /\ UNCHANGED <<obj, cache, known, hz, parent, issuer, disturbed>>

DnsFailure(c) ==
  /\ Dequeue(c) /\ Proceeds(c) /\ ~cache[c].status.denied
  /\ DnsChecker /\ Disturbance("dns")
  /\ Begin(c, "write", AfterError(Prepared(c)), "error")
  /\ UNCHANGED <<obj, cache, known, hz, parent, issuer>>

(* Mutant: the Denied condition is not looked at.                          *)
UndeniedUnchecked(c) == Dequeue(c) /\ Proceeds(c)

(* Not denied, and its names resolve.                                      *)
Undenied(c) == Dequeue(c) /\ Proceeds(c) /\ ~cache[c].status.denied

(* Somebody approved it: nothing is submitted and nothing is polled.       *)
AlreadyApproved(c) ==
  /\ Undenied(c) /\ cache[c].status.approved
  /\ Begin(c, "write", Prepared(c), "done")
  /\ UNCHANGED <<obj, cache, known, hz, parent, issuer, disturbed>>

StartPoll(c) ==
  /\ Undenied(c) /\ ~cache[c].status.approved /\ cache[c].meta.requestId # None
  /\ Begin(c, "poll", Prepared(c), "done")
  /\ UNCHANGED <<obj, cache, known, hz, parent, issuer, disturbed>>

(* Mutants: the annotation is not looked at; nor is the approval; only a   *)
(* request without a Ready condition is new.                               *)
NeedsSubmissionAlways(c) == Undenied(c) /\ ~cache[c].status.approved
NeedsSubmissionApproved(c) == Undenied(c) /\ cache[c].meta.requestId = None
NeedsSubmissionOnce(c) ==
  /\ Undenied(c) /\ ~cache[c].status.approved
  /\ cache[c].meta.requestId = None /\ cache[c].status.ready = "None"

NeedsSubmission(c) ==
  Undenied(c) /\ ~cache[c].status.approved /\ cache[c].meta.requestId = None

(* CertificateFromRequest finds no Certificate.                            *)
MissingParent(c) ==
  /\ NeedsSubmission(c)
  /\ \/ ParentOf[c] = None /\ UNCHANGED disturbed
     \/ ParentOf[c] # None /\ Disturbance("read")
  /\ Begin(c, "write", AfterError(Prepared(c)), "error")
  /\ UNCHANGED <<obj, cache, known, hz, parent, issuer>>

(* The cached Certificate has no Issuing condition, or not yet: the nil    *)
(* pointer panics, the deferred update runs with err = nil, the manager    *)
(* recovers and retries.                                                   *)
NilIssuing(c) ==
  /\ NeedsSubmission(c) /\ ParentOf[c] # None
  /\ known[ParentOf[c]].issuing = "none"
  /\ Begin(c, "write", Prepared(c), "error")
  /\ UNCHANGED <<obj, cache, known, hz, parent, issuer, disturbed>>

(* Mutant: the annotation of the Certificate is not looked at.             *)
ShouldRenewByReason(k) == known[k].issuing = "renew"

ShouldRenew(k) == known[k].lastId # None /\ known[k].issuing = "renew"

StartSubmission(c) ==
  /\ NeedsSubmission(c) /\ ParentOf[c] # None
  /\ known[ParentOf[c]].issuing # "none"
  /\ Begin(c, IF ShouldRenew(ParentOf[c]) THEN "renew" ELSE "enroll",
           Prepared(c), "done")
  /\ UNCHANGED <<obj, cache, known, hz, parent, issuer, disturbed>>

(* certificateMetadata failed: the error becomes a condition, and the      *)
(* request is submitted all the same, without metadata (see                *)
(* CertificateMetadata).                                                   *)
StartBareEnrollment(c) ==
  /\ NeedsSubmission(c) /\ ParentOf[c] # None
  /\ known[ParentOf[c]].issuing # "none" /\ ~ShouldRenew(ParentOf[c])
  /\ Disturbance("metadata")
  /\ Begin(c, "enroll", SetReady(Prepared(c), "Pending"), "done")
  /\ UNCHANGED <<obj, cache, known, hz, parent, issuer>>

ReconcileStart(c) ==
  \/ IgnoreRequest(c) \/ MissingIssuer(c) \/ ReadFails(c) \/ StartDeletion(c)
  \/ ReportDenial(c) \/ DnsFailure(c) \/ AlreadyApproved(c) \/ StartPoll(c)
  \/ MissingParent(c) \/ NilIssuing(c) \/ StartSubmission(c)
  \/ StartBareEnrollment(c)

-----------------------------------------------------------------------------
(* The calls to Horizon.                                                   *)

(* The handler returned: the deferred function writes the object.          *)
Return(object, out) ==
  /\ pc' = "write" /\ local' = object /\ outcome' = out /\ replaces' = None
  /\ UNCHANGED <<cur, base>>

(* Horizon gives the submission the identifier r.                          *)
Submission(r) ==
  Accept(r, cur, IF pc = "renew" THEN "renew" ELSE "enroll", replaces)

SubmitAccepted(r) ==
  /\ pc \in Submitting /\ Submission(r)
  /\ Return(RecordSubmission(local, r), "done")
  /\ UNCHANGED <<obj, cache, known, queue, parent, issuer, disturbed>>

(* Any error of the template or the submit call, a timeout as well as a    *)
(* refusal, ends in handleFailedRequest.                                   *)
SubmitFailed ==
  /\ pc \in Submitting
  /\ Return(AfterError(HandleFailedRequest(local)), "error")
  /\ UNCHANGED <<obj, cache, known, queue, hz, parent, issuer, disturbed>>

(* Horizon accepted the request and the answer was lost.                   *)
SubmitLost(r) ==
  /\ pc \in Submitting /\ Submission(r) /\ Disturbance("lost")
  /\ Return(AfterError(HandleFailedRequest(local)), "error")
  /\ UNCHANGED <<obj, cache, known, queue, parent, issuer>>

Polled == hz[local.meta.requestId].status

(* The request cannot be fetched, or its status is none the switch knows.  *)
PollFailed ==
  /\ pc = "poll" /\ Disturbance("horizon")
  /\ Return(AfterError(local), "error")
  /\ UNCHANGED <<obj, cache, known, queue, hz, parent, issuer>>

(* Mutant: a pending request is not requeued.                              *)
PollPendingOnce ==
  /\ pc = "poll" /\ Polled \in {"pending", "approved"}
  /\ Return(local, "done")
  /\ UNCHANGED <<obj, cache, known, queue, hz, parent, issuer, disturbed>>

PollPending ==
  /\ pc = "poll" /\ Polled \in {"pending", "approved"}
  /\ Return(local, "requeue")
  /\ UNCHANGED <<obj, cache, known, queue, hz, parent, issuer, disturbed>>

PollDenied ==
  /\ pc = "poll" /\ Polled \in {"denied", "canceled"}
  /\ Return(HandleDeniedRequest(local), "done")
  /\ UNCHANGED <<obj, cache, known, queue, hz, parent, issuer, disturbed>>

(* The request is completed: Approved is set before the chain is fetched.  *)
PollCompleted ==
  /\ pc = "poll" /\ Polled = "completed"
  /\ pc' = "chain" /\ local' = ApproveCompleted(local)
  /\ UNCHANGED <<obj, cache, known, queue, cur, base, outcome, replaces, hz,
                 parent, issuer, disturbed>>

ChainFailed ==
  /\ pc = "chain" /\ Disturbance("chain")
  /\ Return(AfterError(local), "error")
  /\ UNCHANGED <<obj, cache, known, queue, hz, parent, issuer>>

(* The chain holds nothing but a root, so the certificate is empty.        *)
ChainIsRoot ==
  /\ pc = "chain" /\ Disturbance("selfSigned")
  /\ Return(HandleCompletedRequest(local, None), "done")
  /\ UNCHANGED <<obj, cache, known, queue, hz, parent, issuer>>

ChainBuilt ==
  /\ pc = "chain"
  /\ Return(HandleCompletedRequest(local, local.meta.requestId), "done")
  /\ UNCHANGED <<obj, cache, known, queue, hz, parent, issuer, disturbed>>

-----------------------------------------------------------------------------
(* The deferred update and the end of Reconcile.                           *)

(* Reconcile returns; an error or a requested delay queues c again.        *)
Finish(out) ==
  /\ pc' = "idle" /\ cur' = None /\ outcome' = "done" /\ replaces' = None
  /\ base' = Blank("absent") /\ local' = Blank("absent")
  /\ queue' = IF out = "done" THEN queue ELSE queue \cup {cur}

(* The version read is the version stored.                                 *)
Current == base = obj[cur]

(* Update stores the metadata, Status().Update the status.                 *)
Stored ==
  IF AnnotationsChanged(base, local)
  THEN [obj EXCEPT ![cur].meta = local.meta]
  ELSE [obj EXCEPT ![cur].status = local.status]

(* After the write, a request that has a certificate-id annotation goes    *)
(* on to its parent; any other one is finished.                            *)
AfterWrite(out) ==
  IF local.meta.certificateId # None
  THEN pc' = "parent" /\ outcome' = out
       /\ UNCHANGED <<cur, base, local, replaces, queue>>
  ELSE Finish(out)

(* Mutant: the object is patched, whatever version is stored.              *)
WritePatched ==
  /\ pc = "write" /\ Present(obj[cur])
  /\ obj' = Stored
  /\ AfterWrite(outcome)
  /\ UNCHANGED <<cache, known, hz, parent, issuer, disturbed>>

WriteStored ==
  /\ pc = "write" /\ Current
  /\ obj' = Stored
  /\ AfterWrite(outcome)
  /\ UNCHANGED <<cache, known, hz, parent, issuer, disturbed>>

(* A conflict, or the object is gone: updateErr is returned.               *)
WriteConflict ==
  /\ pc = "write" /\ ~Current
  /\ AfterWrite("error")
  /\ UNCHANGED <<obj, cache, known, hz, parent, issuer, disturbed>>

WriteFailed ==
  /\ pc = "write" /\ Disturbance("api")
  /\ AfterWrite("error")
  /\ UNCHANGED <<obj, cache, known, hz, parent, issuer>>

(* The API server stored the object and the answer was lost.               *)
WriteLost ==
  /\ pc = "write" /\ Current /\ Disturbance("apiLost")
  /\ obj' = Stored
  /\ AfterWrite("error")
  /\ UNCHANGED <<cache, known, hz, parent, issuer>>

(* CertificateFromRequest reads the Certificate from the cache, and the    *)
(* Update goes through if that is the version stored: its annotation then  *)
(* names the certificate just issued.                                      *)
ParentUpdated ==
  /\ pc = "parent" /\ ParentOf[cur] # None
  /\ known[ParentOf[cur]] = parent[ParentOf[cur]]
  /\ parent' = [parent EXCEPT ![ParentOf[cur]].lastId = local.meta.certificateId]
  /\ Finish(outcome)
  /\ UNCHANGED <<obj, cache, known, hz, issuer, disturbed>>

(* The Update failed.  No difference between the two copies is needed for  *)
(* that: cert-manager also writes fields that are left out here, and each  *)
(* of its writes is a conflict.  parentUpdateErr is dropped: it never      *)
(* makes Reconcile fail by itself.                                         *)
ParentSkipped ==
  /\ pc = "parent"
  /\ Finish(outcome)
  /\ UNCHANGED <<obj, cache, known, hz, parent, issuer, disturbed>>

-----------------------------------------------------------------------------
(* handleDeletion.                                                         *)

(* Mutant: the finalizer is forgotten after the revocation.                *)
RevokeOnly ==
  /\ pc = "revoke"
  /\ Revoke(local.status.certificate)
  /\ Finish("done")
  /\ UNCHANGED <<obj, cache, known, parent, issuer, disturbed>>

RevokeAccepted ==
  /\ pc = "revoke"
  /\ Revoke(local.status.certificate)
  /\ pc' = "unfinalize"
  /\ UNCHANGED <<obj, cache, known, queue, cur, base, local, outcome, replaces,
                 parent, issuer, disturbed>>

(* Mutant: the finalizer is removed although the revocation failed.        *)
RevokeFailedIgnored ==
  /\ pc = "revoke" /\ Disturbance("horizon")
  /\ pc' = "unfinalize"
  /\ UNCHANGED <<obj, cache, known, queue, cur, base, local, outcome, replaces,
                 hz, parent, issuer>>

(* Horizon may refuse to revoke a certificate that is not given; any other *)
(* failure is a fault.                                                     *)
RevokeFailed ==
  /\ pc = "revoke"
  /\ \/ local.status.certificate = None /\ UNCHANGED disturbed
     \/ local.status.certificate # None /\ Disturbance("horizon")
  /\ Finish("error")
  /\ UNCHANGED <<obj, cache, known, hz, parent, issuer>>

RevokeLost ==
  /\ pc = "revoke" /\ Disturbance("lost")
  /\ Revoke(local.status.certificate)
  /\ Finish("error")
  /\ UNCHANGED <<obj, cache, known, parent, issuer>>

(* Without a finalizer the API server removes the object.                  *)
FinalizerRemoved ==
  /\ pc = "unfinalize" /\ Current
  /\ obj' = [obj EXCEPT ![cur] = Blank("gone")]
  /\ Finish("done")
  /\ UNCHANGED <<cache, known, hz, parent, issuer, disturbed>>

(* The Update failed; handleDeletion returns nil, so nothing is requeued.  *)
FinalizerKept ==
  /\ pc = "unfinalize"
  /\ \/ ~Current /\ UNCHANGED disturbed
     \/ Current /\ Disturbance("api")
  /\ Finish("done")
  /\ UNCHANGED <<obj, cache, known, hz, parent, issuer>>

HorizonCall ==
  \/ \E r \in RequestIds : SubmitAccepted(r) \/ SubmitLost(r)
  \/ SubmitFailed
  \/ PollFailed \/ PollPending \/ PollDenied \/ PollCompleted
  \/ ChainFailed \/ ChainIsRoot \/ ChainBuilt
  \/ RevokeAccepted \/ RevokeFailed \/ RevokeLost

ApiCall ==
  \/ WriteStored \/ WriteConflict \/ WriteFailed \/ WriteLost
  \/ ParentUpdated \/ ParentSkipped
  \/ FinalizerRemoved \/ FinalizerKept

WorkerStep == HorizonCall \/ ApiCall

-----------------------------------------------------------------------------
(* Informer and manager.                                                   *)

(* A watch event: the cache catches up and the object is queued.           *)
Deliver(c) ==
  /\ cache[c] # obj[c]
  /\ cache' = [cache EXCEPT ![c] = obj[c]]
  /\ queue' = queue \cup {c}
  /\ UNCHANGED <<obj, known, worker, hz, parent, issuer, disturbed>>

(* A watch event of a Certificate queues no request.                       *)
DeliverCertificate(k) ==
  /\ known[k] # parent[k]
  /\ known' = [known EXCEPT ![k] = parent[k]]
  /\ UNCHANGED <<obj, cache, queue, worker, hz, parent, issuer, disturbed>>

(* The informer's periodic resync queues every cached object again.        *)
Resync(c) ==
  /\ Present(cache[c]) /\ c \notin queue
  /\ queue' = queue \cup {c}
  /\ UNCHANGED <<obj, cache, known, worker, hz, parent, issuer, disturbed>>

(* A new process: the worker is idle and every object is listed.           *)
FreshProcess ==
  /\ pc' = "idle" /\ cur' = None /\ outcome' = "done" /\ replaces' = None
  /\ base' = Blank("absent") /\ local' = Blank("absent")
  /\ cache' = obj /\ known' = parent
  /\ queue' = {c \in CRs : Present(obj[c])}
  /\ UNCHANGED <<obj, hz, parent>>

(* The process ends at any point and another one takes its place.          *)
Restart == Disturbance("crash") /\ FreshProcess /\ UNCHANGED issuer

-----------------------------------------------------------------------------
(* cert-manager, Horizon and the administrator.                            *)

Siblings(c) == {d \in CRs \ {c} : ParentOf[d] = ParentOf[c]}

(* cert-manager creates a request for a Certificate it is issuing, once    *)
(* the earlier requests are settled or removed; anybody may create one     *)
(* that belongs to no Certificate.                                         *)
CreateRequest(c) ==
  /\ obj[c].meta.life = "absent"
  /\ \/ ParentOf[c] = None
     \/ /\ ParentOf[c] # None
        /\ parent[ParentOf[c]].issuing # "none"
        /\ \A d \in Siblings(c) : Present(obj[d]) => Settled(obj[d])
  /\ obj' = [obj EXCEPT ![c] = Blank("live")]
  /\ UNCHANGED <<cache, known, queue, worker, hz, parent, issuer, disturbed>>

(* A finalizer holds a deleted object back.                                *)
DeleteRequest(c) ==
  /\ obj[c].meta.life = "live" /\ Disturbance("delete")
  /\ obj' = IF obj[c].meta.finalizer
            THEN [obj EXCEPT ![c].meta.life = "deleting"]
            ELSE [obj EXCEPT ![c] = Blank("gone")]
  /\ UNCHANGED <<cache, known, queue, worker, hz, parent, issuer>>

(* An approver denies, or approves, a request nobody decided so far; the   *)
(* webhook of cert-manager refuses a second decision.                      *)
DenyRequest(c) ==
  /\ Present(obj[c]) /\ ~obj[c].status.approved /\ ~obj[c].status.denied
  /\ Disturbance("deny")
  /\ obj' = [obj EXCEPT ![c].status.denied = TRUE]
  /\ UNCHANGED <<cache, known, queue, worker, hz, parent, issuer>>

ApproveRequest(c) ==
  /\ Present(obj[c]) /\ ~obj[c].status.approved /\ ~obj[c].status.denied
  /\ Disturbance("approve")
  /\ obj' = [obj EXCEPT ![c].status.approved = TRUE]
  /\ UNCHANGED <<cache, known, queue, worker, hz, parent, issuer>>

(* cert-manager sets and removes the Issuing condition of a Certificate.   *)
SetIssuing(k) ==
  /\ \E reason \in Reasons :
       /\ (reason = "none") # (parent[k].issuing = "none")
       /\ parent' = [parent EXCEPT ![k].issuing = reason]
  /\ UNCHANGED <<obj, cache, known, queue, worker, hz, issuer, disturbed>>

HorizonDecides(r) ==
  /\ Decides(r)
  /\ UNCHANGED <<obj, cache, known, queue, worker, parent, issuer, disturbed>>

(* The issuer's health check succeeds or fails: see IssuerController.      *)
IssuerRecovers ==
  /\ issuer.exists /\ ~issuer.ready
  /\ issuer' = [issuer EXCEPT !.ready = TRUE]
  /\ UNCHANGED <<obj, cache, known, queue, worker, hz, parent, disturbed>>

IssuerUnready ==
  /\ issuer.ready /\ Disturbance("unready")
  /\ issuer' = [issuer EXCEPT !.ready = FALSE]
  /\ UNCHANGED <<obj, cache, known, queue, worker, hz, parent>>

EditIssuer ==
  /\ issuer.exists /\ Disturbance("edit")
  /\ issuer' = [issuer EXCEPT !.revoke = ~issuer.revoke]
  /\ UNCHANGED <<obj, cache, known, queue, worker, hz, parent>>

DeleteIssuer ==
  /\ issuer.exists /\ Disturbance("deleteIssuer")
  /\ issuer' = [issuer EXCEPT !.exists = FALSE, !.ready = FALSE]
  /\ UNCHANGED <<obj, cache, known, queue, worker, hz, parent>>

InformerStep ==
  \/ \E c \in CRs : Deliver(c) \/ Resync(c)
  \/ \E k \in Certificates : DeliverCertificate(k)

ClusterStep ==
  \/ \E c \in CRs : \/ CreateRequest(c) \/ DeleteRequest(c)
                    \/ DenyRequest(c) \/ ApproveRequest(c)
  \/ \E k \in Certificates : SetIssuing(k)
  \/ \E r \in RequestIds : HorizonDecides(r)

IssuerStep == IssuerRecovers \/ IssuerUnready \/ EditIssuer \/ DeleteIssuer

Environment == InformerStep \/ ClusterStep \/ Restart \/ IssuerStep

Next == (\E c \in CRs : ReconcileStart(c)) \/ WorkerStep \/ Environment

Spec == Init /\ [][Next]_vars

(* What the runtime guarantees: the worker does not stop between calls, a  *)
(* queued request gets its turn (the queue is a FIFO and the worker comes  *)
(* back to it), and watch events arrive.                                   *)
EventFairness ==
  /\ WF_vars(WorkerStep)
  /\ \A c \in CRs : SF_vars(ReconcileStart(c)) /\ WF_vars(Deliver(c))
  /\ \A k \in Certificates : WF_vars(DeliverCertificate(k))

(* The health check is repeated, and so is the resync.                     *)
PeriodicFairness ==
  /\ WF_vars(IssuerRecovers)
  /\ \A c \in CRs : WF_vars(Resync(c))

EventSpec == Spec /\ EventFairness
FairSpec == EventSpec /\ PeriodicFairness

-----------------------------------------------------------------------------
(* Every variable stays in its type: in particular the worker writes no    *)
(* Ready reason that the early returns of Reconcile would not know.        *)
TypeOK ==
  /\ obj \in [CRs -> Object]
  /\ cache \in [CRs -> Object]
  /\ known \in [Certificates -> Parent]
  /\ queue \subseteq CRs
  /\ pc \in PCs
  /\ cur \in CRs \cup {None}
  /\ base \in Object
  /\ local \in Object
  /\ outcome \in Outcomes
  /\ replaces \in OptionalId
  /\ hz \in [RequestIds -> HorizonRequest]
  /\ parent \in [Certificates -> Parent]
  /\ issuer \in Issuer
  /\ disturbed \in 0..MaxDisturbances
=============================================================================
