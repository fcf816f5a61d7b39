---------------------- MODULE CertificateRequestProofs ----------------------
(***************************************************************************)
(* Theorems about the CertificateRequest controller, for every set of      *)
(* requests, identifiers and Certificates and every budget of disturbances.*)
(***************************************************************************)
EXTENDS CertificateRequestProperties, TLAPS

-----------------------------------------------------------------------------
(* Types.                                                                  *)

(* The handlers of HorizonIssuer return objects when given objects.        *)
LEMMA HandlersTyped ==
  ASSUME NEW o \in Object, NEW r \in OptionalId
  PROVE  /\ RecordSubmission(o, r) \in Object
         /\ HandleFailedRequest(o) \in Object
         /\ HandleDeniedRequest(o) \in Object
         /\ ApproveCompleted(o) \in Object
         /\ HandleCompletedRequest(o, r) \in Object
         /\ AfterError(o) \in Object
         /\ MarkDenied(o) \in Object
         /\ RegisterFinalizer(o) \in Object
         /\ SetReady(o, "Pending") \in Object
<1> USE DEF Object, Metadata, Status, OptionalId
<1>1. \A x \in Object, reason \in ReadyReasons : SetReady(x, reason) \in Object
  BY DEF SetReady
<1>2. [o EXCEPT !.meta.requestId = r] \in Object
  OBVIOUS
<1>3. /\ HandleFailedRequest(o) \in Object
      /\ HandleDeniedRequest(o) \in Object
      /\ ApproveCompleted(o) \in Object
      /\ RegisterFinalizer(o) \in Object
  BY DEF HandleFailedRequest, HandleDeniedRequest, ApproveCompleted,
         RegisterFinalizer
<1>4. [o EXCEPT !.meta.certificateId = r, !.status.certificate = r] \in Object
  OBVIOUS
<1>5. [o EXCEPT !.status.failureTime = TRUE] \in Object
  OBVIOUS
<1> HIDE DEF Object, Metadata, Status, OptionalId
<1>6. RecordSubmission(o, r) \in Object
  BY <1>1, <1>2 DEF RecordSubmission, ReadyReasons
<1>7. HandleCompletedRequest(o, r) \in Object
  BY <1>1, <1>4 DEF HandleCompletedRequest, ReadyReasons
<1>8. AfterError(o) \in Object /\ MarkDenied(o) \in Object
  BY <1>1, <1>5 DEF AfterError, MarkDenied, ReadyReasons
<1> QED BY <1>1, <1>3, <1>6, <1>7, <1>8 DEF ReadyReasons

(* A new, an absent and a removed object are objects.                      *)
LEMMA BlankTyped ==
  ASSUME NEW life \in Life PROVE Blank(life) \in Object
  BY DEF Blank, Object, Metadata, Status, OptionalId, ReadyReasons

(* The work queue and the worker stay well typed when Reconcile returns.   *)
LEMMA FinishTyped ==
  ASSUME TypeOK, cur \in CRs, NEW out \in Outcomes, Finish(out)
  PROVE  /\ pc' \in PCs /\ cur' \in CRs \cup {None} /\ outcome' \in Outcomes
         /\ base' \in Object /\ local' \in Object /\ queue' \subseteq CRs
         /\ replaces' \in OptionalId
  BY BlankTyped DEF TypeOK, Finish, PCs, Outcomes, Life, OptionalId

(* The same when the deferred function goes on to the parent.              *)
LEMMA AfterWriteTyped ==
  ASSUME TypeOK, cur \in CRs, NEW out \in Outcomes, AfterWrite(out)
  PROVE  /\ pc' \in PCs /\ cur' \in CRs \cup {None} /\ outcome' \in Outcomes
         /\ base' \in Object /\ local' \in Object /\ queue' \subseteq CRs
         /\ replaces' \in OptionalId
<1>1. CASE local.meta.certificateId # None
  BY <1>1 DEF AfterWrite, TypeOK, PCs
<1>2. CASE local.meta.certificateId = None
  BY <1>2, FinishTyped DEF AfterWrite
<1> QED BY <1>1, <1>2

(* Entering Reconcile with a well-typed object keeps the types.            *)
LEMMA BeginTyped ==
  ASSUME TypeOK, NEW c \in CRs, NEW p \in PCs, NEW o \in Object,
         NEW out \in Outcomes, Begin(c, p, o, out),
         p = "renew" => ParentOf[c] \in Certificates
  PROVE  /\ pc' \in PCs /\ cur' \in CRs \cup {None} /\ outcome' \in Outcomes
         /\ base' \in Object /\ local' \in Object /\ queue' \subseteq CRs
         /\ replaces' \in OptionalId
  BY DEF TypeOK, Begin, Parent, OptionalId

(* The object Reconcile works on, with or without a new finalizer.         *)
LEMMA PreparedTyped ==
  ASSUME TypeOK, NEW c \in CRs PROVE Prepared(c) \in Object
  BY HandlersTyped DEF TypeOK, Prepared, OptionalId

(* TypeOK is inductive once the worker that is not idle has a request, and *)
(* the worker that submits has one with a parent.                          *)
Typed ==
  /\ TypeOK
  /\ pc # "idle" => cur \in CRs
  /\ pc \in Submitting => ParentOf[cur] \in Certificates

(* What Reconcile reads and decides first keeps the types.                 *)
LEMMA StartTyped ==
  ASSUME Typed, NEW c \in CRs, ReconcileStart(c) PROVE Typed'
<1> USE DEF Typed, Disturbance
<1>0. /\ Prepared(c) \in Object /\ cache[c] \in Object
      /\ AfterError(Prepared(c)) \in Object
      /\ MarkDenied(Prepared(c)) \in Object
      /\ SetReady(Prepared(c), "Pending") \in Object
  BY PreparedTyped, HandlersTyped DEF TypeOK, OptionalId
<1> DEFINE Entered == \E p \in PCs, o \in Object, out \in Outcomes :
                        Begin(c, p, o, out)
<1>1. ASSUME Entered, disturbed' \in 0..MaxDisturbances,
             pc' \in Submitting => ParentOf[c] # None,
             UNCHANGED <<obj, cache, known, hz, parent, issuer>>
      PROVE  Typed'
  <2>1. /\ pc' \in PCs /\ cur' \in CRs \cup {None} /\ outcome' \in Outcomes
        /\ base' \in Object /\ local' \in Object /\ queue' \subseteq CRs
        /\ replaces' \in OptionalId
    BY <1>1, BeginTyped, ControllerAssumption DEF Begin, Submitting
  <2>2. cur' = c
    BY <1>1 DEF Begin
  <2> QED BY <1>1, <2>1, <2>2, ControllerAssumption DEF TypeOK
<1>2. ASSUME disturbed' = disturbed + 1, disturbed < MaxDisturbances
      PROVE  disturbed' \in 0..MaxDisturbances
  BY <1>2, ControllerAssumption DEF TypeOK
<1>3. CASE IgnoreRequest(c) \/ MissingIssuer(c) \/ ReadFails(c)
  BY <1>3, <1>2 DEF IgnoreRequest, MissingIssuer, ReadFails, TypeOK, vars, worker
<1>4. CASE StartDeletion(c)
  <2>1. Entered BY <1>4, <1>0 DEF StartDeletion, PCs, Outcomes
  <2> QED BY <2>1, <1>1, <1>4 DEF StartDeletion, TypeOK, Begin, Submitting
<1>5. CASE ReportDenial(c)
  <2>1. Entered BY <1>5, <1>0 DEF ReportDenial, PCs, Outcomes
  <2> QED BY <2>1, <1>1, <1>5 DEF ReportDenial, TypeOK, Begin, Submitting
<1>6. CASE DnsFailure(c)
  <2>1. Entered BY <1>6, <1>0 DEF DnsFailure, PCs, Outcomes
  <2> QED BY <2>1, <1>1, <1>2, <1>6 DEF DnsFailure, Begin, Submitting
<1>7. CASE AlreadyApproved(c)
  <2>1. Entered BY <1>7, <1>0 DEF AlreadyApproved, PCs, Outcomes
  <2> QED BY <2>1, <1>1, <1>7 DEF AlreadyApproved, TypeOK, Begin, Submitting
<1>8. CASE StartPoll(c)
  <2>1. Entered BY <1>8, <1>0 DEF StartPoll, PCs, Outcomes
  <2> QED BY <2>1, <1>1, <1>8 DEF StartPoll, TypeOK, Begin, Submitting
<1>9. CASE MissingParent(c)
  <2>1. Entered BY <1>9, <1>0 DEF MissingParent, PCs, Outcomes
  <2> QED BY <2>1, <1>1, <1>2, <1>9 DEF MissingParent, TypeOK, Begin, Submitting
<1>10. CASE NilIssuing(c)
  <2>1. Entered BY <1>10, <1>0 DEF NilIssuing, PCs, Outcomes
  <2> QED BY <2>1, <1>1, <1>10 DEF NilIssuing, TypeOK, Begin, Submitting
<1>11. CASE StartSubmission(c)
  <2>1. Entered BY <1>11, <1>0 DEF StartSubmission, PCs, Outcomes
  <2> QED BY <2>1, <1>1, <1>11 DEF StartSubmission, TypeOK, Begin, Submitting
<1>12. CASE StartBareEnrollment(c)
  <2>1. Entered BY <1>12, <1>0 DEF StartBareEnrollment, PCs, Outcomes
  <2> QED BY <2>1, <1>1, <1>2, <1>12 DEF StartBareEnrollment, Begin, Submitting
<1> QED BY <1>3, <1>4, <1>5, <1>6, <1>7, <1>8, <1>9, <1>10, <1>11, <1>12
        DEF ReconcileStart

(* The answers of Horizon keep the types.                                  *)
LEMMA HorizonCallTyped ==
  ASSUME Typed, HorizonCall PROVE Typed'
<1> USE DEF Typed, Disturbance
<1>1. ASSUME NEW o \in Object, NEW out \in Outcomes, Return(o, out),
             pc # "idle", hz' \in [RequestIds -> HorizonRequest],
             disturbed' \in 0..MaxDisturbances,
             UNCHANGED <<obj, cache, known, queue, parent, issuer>>
      PROVE  Typed'
  BY <1>1 DEF TypeOK, Return, PCs, Submitting, OptionalId
<1>2. ASSUME disturbed' = disturbed + 1, disturbed < MaxDisturbances
      PROVE  disturbed' \in 0..MaxDisturbances
  BY <1>2, ControllerAssumption DEF TypeOK
<1>3. ASSUME NEW r \in RequestIds, Submission(r), pc \in Submitting
      PROVE  hz' \in [RequestIds -> HorizonRequest]
  <2>1. cur \in CRs BY <1>3 DEF Submitting
  <2> QED BY <1>3, <2>1 DEF Submission, Accept, TypeOK, HorizonRequest,
             Workflows, RequestStatus
<1>4. ASSUME Revoke(local.status.certificate)
      PROVE  hz' \in [RequestIds -> HorizonRequest]
  BY <1>4 DEF Revoke, TypeOK, HorizonRequest
<1>5. ASSUME NEW r \in RequestIds, SubmitAccepted(r) PROVE Typed'
  BY <1>1, <1>3, <1>5, HandlersTyped
     DEF SubmitAccepted, TypeOK, OptionalId, Outcomes, Submitting
<1>6. ASSUME NEW r \in RequestIds, SubmitLost(r) PROVE Typed'
  BY <1>1, <1>2, <1>3, <1>6, HandlersTyped
     DEF SubmitLost, TypeOK, OptionalId, Outcomes, Submitting
<1>7. CASE SubmitFailed
  BY <1>1, <1>7, HandlersTyped DEF SubmitFailed, TypeOK, OptionalId, Outcomes, Submitting
<1>8. CASE PollFailed
  BY <1>1, <1>2, <1>8, HandlersTyped DEF PollFailed, TypeOK, OptionalId, Outcomes
<1>9. CASE PollPending
  BY <1>1, <1>9 DEF PollPending, TypeOK, Outcomes
<1>10. CASE PollDenied
  BY <1>1, <1>10, HandlersTyped DEF PollDenied, TypeOK, OptionalId, Outcomes
<1>11. CASE PollCompleted
  BY <1>11, HandlersTyped DEF PollCompleted, TypeOK, OptionalId, PCs, Submitting
<1>12. CASE ChainFailed
  BY <1>1, <1>2, <1>12, HandlersTyped DEF ChainFailed, TypeOK, OptionalId, Outcomes
<1>13. CASE ChainIsRoot
  BY <1>1, <1>2, <1>13, HandlersTyped DEF ChainIsRoot, TypeOK, OptionalId, Outcomes
<1>14. CASE ChainBuilt
  <2>1. local.meta.requestId \in OptionalId
    BY DEF TypeOK, Object, Metadata
  <2> QED BY <1>1, <1>14, <2>1, HandlersTyped DEF ChainBuilt, TypeOK, Outcomes
<1>15. CASE RevokeAccepted
  BY <1>4, <1>15 DEF RevokeAccepted, TypeOK, PCs, Submitting
<1>16. CASE RevokeFailed
  BY <1>2, <1>16, FinishTyped DEF RevokeFailed, TypeOK, Outcomes, Finish, Submitting
<1>17. CASE RevokeLost
  BY <1>2, <1>4, <1>17, FinishTyped DEF RevokeLost, TypeOK, Outcomes, Finish, Submitting
<1> QED BY <1>5, <1>6, <1>7, <1>8, <1>9, <1>10, <1>11, <1>12, <1>13, <1>14,
           <1>15, <1>16, <1>17 DEF HorizonCall

(* The writes of the deferred function and of handleDeletion keep the      *)
(* types.                                                                  *)
LEMMA ApiCallTyped ==
  ASSUME Typed, ApiCall PROVE Typed'
<1> USE DEF Typed, Disturbance
<1>1. ASSUME cur \in CRs, NEW out \in Outcomes, AfterWrite(out),
             obj' \in [CRs -> Object], disturbed' \in 0..MaxDisturbances,
             UNCHANGED <<cache, known, hz, parent, issuer>>
      PROVE  Typed'
  <2>1. pc' # "idle" => cur' \in CRs
    BY <1>1 DEF AfterWrite, Finish
  <2>2. pc' \notin Submitting
    BY <1>1 DEF AfterWrite, Finish, Submitting
  <2> QED BY <1>1, <2>1, <2>2, AfterWriteTyped DEF TypeOK
<1>2. ASSUME disturbed' = disturbed + 1, disturbed < MaxDisturbances
      PROVE  disturbed' \in 0..MaxDisturbances
  BY <1>2, ControllerAssumption DEF TypeOK
<1>3. cur \in CRs => Stored \in [CRs -> Object]
  BY DEF Stored, TypeOK, Object
<1>4. CASE WriteStored
  BY <1>1, <1>3, <1>4 DEF WriteStored, TypeOK
<1>5. CASE WriteConflict
  BY <1>1, <1>5 DEF WriteConflict, TypeOK, Outcomes
<1>6. CASE WriteFailed
  BY <1>1, <1>2, <1>6 DEF WriteFailed, TypeOK, Outcomes
<1>7. CASE WriteLost
  BY <1>1, <1>2, <1>3, <1>7 DEF WriteLost, TypeOK, Outcomes
<1>8. CASE ParentUpdated
  <2>1. ParentOf[cur] \in Certificates
    BY <1>8, ControllerAssumption DEF ParentUpdated
  <2>2. local.meta.certificateId \in OptionalId
    BY DEF TypeOK, Object, Metadata
  <2>3. parent' \in [Certificates -> Parent]
    BY <1>8, <2>1, <2>2 DEF ParentUpdated, TypeOK, Parent
  <2> QED BY <1>8, <2>3, FinishTyped
             DEF ParentUpdated, TypeOK, Finish, Submitting
<1>9. CASE ParentSkipped
  BY <1>2, <1>9, FinishTyped DEF ParentSkipped, TypeOK, Finish, Submitting
<1>10. CASE FinalizerRemoved
  BY <1>10, FinishTyped, BlankTyped
     DEF FinalizerRemoved, TypeOK, Finish, Submitting, Outcomes, Life
<1>11. CASE FinalizerKept
  BY <1>2, <1>11, FinishTyped
     DEF FinalizerKept, TypeOK, Finish, Submitting, Outcomes
<1> QED BY <1>4, <1>5, <1>6, <1>7, <1>8, <1>9, <1>10, <1>11 DEF ApiCall

(* The informer, cert-manager, Horizon and the administrator keep the      *)
(* types.                                                                  *)
LEMMA EnvironmentTyped ==
  ASSUME Typed, Environment PROVE Typed'
<1> USE DEF Typed, Disturbance, worker
<1>1. ASSUME disturbed' = disturbed + 1, disturbed < MaxDisturbances
      PROVE  disturbed' \in 0..MaxDisturbances
  BY <1>1, ControllerAssumption DEF TypeOK
<1>2. ASSUME NEW c \in CRs, Deliver(c) \/ Resync(c) PROVE Typed'
  BY <1>2 DEF Deliver, Resync, TypeOK
<1>10. ASSUME NEW k \in Certificates, DeliverCertificate(k) PROVE Typed'
  BY <1>10 DEF DeliverCertificate, TypeOK
<1>3. ASSUME NEW c \in CRs, CreateRequest(c) PROVE Typed'
  BY <1>3, BlankTyped DEF CreateRequest, TypeOK, Life
<1>4. ASSUME NEW c \in CRs, DeleteRequest(c) PROVE Typed'
  <2> DEFINE marked == [obj[c] EXCEPT !.meta.life = "deleting"]
  <2>1. marked \in Object /\ Blank("gone") \in Object
    BY BlankTyped DEF TypeOK, Life, Object, Metadata
  <2>2. obj' = [obj EXCEPT ![c] = marked] \/ obj' = [obj EXCEPT ![c] = Blank("gone")]
    BY <1>4 DEF DeleteRequest
  <2>3. obj' \in [CRs -> Object]
    BY <2>1, <2>2 DEF TypeOK
  <2> QED BY <1>1, <1>4, <2>3 DEF DeleteRequest, TypeOK
<1>5. ASSUME NEW c \in CRs, DenyRequest(c) \/ ApproveRequest(c) PROVE Typed'
  <2> DEFINE denied == [obj[c] EXCEPT !.status.denied = TRUE]
             approved == [obj[c] EXCEPT !.status.approved = TRUE]
  <2>1. denied \in Object /\ approved \in Object
    BY DEF TypeOK, Object, Status
  <2>2. obj' = [obj EXCEPT ![c] = denied] \/ obj' = [obj EXCEPT ![c] = approved]
    BY <1>5 DEF DenyRequest, ApproveRequest
  <2>3. obj' \in [CRs -> Object]
    BY <2>1, <2>2 DEF TypeOK
  <2> QED BY <1>1, <1>5, <2>3 DEF DenyRequest, ApproveRequest, TypeOK
<1>6. ASSUME NEW k \in Certificates, SetIssuing(k) PROVE Typed'
  BY <1>6, ControllerAssumption DEF SetIssuing, TypeOK, Parent, Issuing
<1>7. ASSUME NEW r \in RequestIds, HorizonDecides(r) PROVE Typed'
  <2>1. PICK next \in RequestStatus : hz' = [hz EXCEPT ![r].status = next]
    BY <1>7 DEF HorizonDecides, Decides, RequestStatus
  <2>2. hz' \in [RequestIds -> HorizonRequest]
    BY <2>1 DEF TypeOK, HorizonRequest
  <2> QED BY <1>7, <2>2 DEF HorizonDecides, TypeOK
<1>8. CASE Restart
  <2>1. Blank("absent") \in Object BY BlankTyped DEF Life
  <2> QED BY <1>1, <1>8, <2>1
             DEF Restart, FreshProcess, TypeOK, PCs, Outcomes, Submitting, OptionalId
<1>9. CASE IssuerRecovers \/ IssuerUnready \/ EditIssuer \/ DeleteIssuer
  <2>1. issuer' \in Issuer
    BY <1>9 DEF IssuerRecovers, IssuerUnready, EditIssuer, DeleteIssuer, TypeOK,
                Issuer
  <2> QED BY <1>1, <1>9, <2>1
             DEF IssuerRecovers, IssuerUnready, EditIssuer, DeleteIssuer, TypeOK
<1> QED BY <1>2, <1>3, <1>4, <1>5, <1>6, <1>7, <1>8, <1>9, <1>10
     DEF Environment, InformerStep, ClusterStep, IssuerStep

(* Every step keeps the types, stuttering included.                        *)
LEMMA NextTyped == Typed /\ [Next]_vars => Typed'
<1> SUFFICES ASSUME Typed, [Next]_vars PROVE Typed'
  OBVIOUS
<1>1. CASE UNCHANGED vars
  BY <1>1 DEF vars, worker, Typed, TypeOK
<1>2. CASE Next
  BY <1>2, StartTyped, HorizonCallTyped, ApiCallTyped, EnvironmentTyped
     DEF Next, WorkerStep
<1> QED BY <1>1, <1>2

(* The initial states are well typed.                                      *)
LEMMA InitTyped == Init => Typed
<1> SUFFICES ASSUME Init PROVE Typed
  OBVIOUS
<1>1. Blank("absent") \in Object
  BY BlankTyped DEF Life
<1>2. NoRequest \in HorizonRequest
  BY DEF NoRequest, HorizonRequest, Workflows, OptionalId, RequestStatus
<1>3. hz \in [RequestIds -> HorizonRequest]
  BY <1>2 DEF Init, HorizonInit
<1> QED BY <1>1, <1>3, ControllerAssumption
           DEF Init, Typed, TypeOK, PCs, Outcomes, Submitting, Parent, Issuing,
               OptionalId, Issuer

(* Type correctness of the controller, whatever the cluster and the        *)
(* budget of disturbances.                                                 *)
THEOREM TypeCorrect == Spec => []TypeOK
<1>1. Spec => []Typed
  BY InitTyped, NextTyped, PTL DEF Spec
<1>2. Typed => TypeOK
  BY DEF Typed
<1> QED BY <1>1, <1>2, PTL

-----------------------------------------------------------------------------
(* The inductive invariant behind the safety properties.                   *)

(* What every copy o of request c says, the stored one, the cached one and *)
(* the two the worker holds, measured against Horizon's records h.         *)
Sound(h, c, o) ==
  /\ o.meta.requestId # None =>
       /\ h[o.meta.requestId].owner = c
       /\ h[o.meta.requestId].status # "unused"
       /\ o.status.ready # "Failed"
  /\ o.meta.certificateId # None =>
       /\ o.meta.certificateId = o.meta.requestId
       /\ h[o.meta.certificateId].status = "completed"
  /\ o.status.certificate # None =>
       /\ o.status.certificate = o.meta.certificateId
       /\ o.status.approved
  /\ o.status.ready = "Issued" => o.status.certificate # None
  /\ o.status.invalid => o.status.ready = "Failed"
  /\ ~(o.status.approved /\ o.status.denied)

(* An object that does not exist says nothing.                             *)
Placed(o) == Present(o) \/ o = Blank("absent") \/ o = Blank("gone")

Updating == PCs \ {"idle", "revoke", "unfinalize"}

(* The worker writes only what was not settled when it was read, and never *)
(* replaces an annotation.                                                 *)
WorkerSound ==
  /\ pc # "idle" =>
       /\ cur \in Ours /\ Present(base)
       /\ Sound(hz, cur, base) /\ Sound(hz, cur, local)
  /\ pc \in Updating =>
       /\ ~Settled(base) /\ local.meta.life = base.meta.life
       /\ base.meta.requestId \in {None, local.meta.requestId}
       /\ base.meta.certificateId \in {None, local.meta.certificateId}
  /\ pc \in Submitting =>
       /\ ParentOf[cur] # None /\ local.meta.requestId = None
       /\ local.status.ready # "Failed"
  /\ pc \in {"poll", "chain"} =>
       /\ local.meta.requestId # None /\ ~local.status.denied
  /\ pc = "poll" => ~local.status.approved
  /\ pc = "chain" =>
       /\ hz[local.meta.requestId].status = "completed"
       /\ local.status.approved
  /\ pc = "parent" => local.meta.certificateId # None
  /\ pc = "renew" => /\ replaces # None
                     /\ hz[replaces].status = "completed"
                     /\ ParentOf[hz[replaces].owner] = ParentOf[cur]

ObjectsSound == \A c \in CRs :
  /\ Sound(hz, c, obj[c]) /\ Placed(obj[c])
  /\ Sound(hz, c, cache[c])

(* A parent names a completed request of one of its own.                   *)
ParentsSound == \A k \in Certificates : parent[k].lastId # None =>
  /\ hz[parent[k].lastId].status = "completed"
  /\ ParentOf[hz[parent[k].lastId].owner] = k

(* So does the cached copy of it, however old.                             *)
KnownSound == \A k \in Certificates : known[k].lastId # None =>
  /\ hz[known[k].lastId].status = "completed"
  /\ ParentOf[hz[known[k].lastId].owner] = k

IInv == Typed /\ ObjectsSound /\ WorkerSound /\ ParentsSound /\ KnownSound
        /\ RenewTargetsPredecessor /\ StraysUntouched

(* Horizon never forgets: a request keeps its owner, and once it is        *)
(* completed it stays so.                                                  *)
Grows(h, g) == \A r \in RequestIds : h[r].status # "unused" =>
  /\ g[r].status # "unused" /\ g[r].owner = h[r].owner
  /\ h[r].status = "completed" => g[r].status = "completed"

(* So a copy that was sound stays sound while Horizon moves on.            *)
LEMMA SoundGrows ==
  ASSUME NEW h, NEW g, Grows(h, g), NEW c, NEW o \in Object, Sound(h, c, o)
  PROVE  Sound(g, c, o)
<1>1. o.meta.requestId \in OptionalId
  BY DEF Object, Metadata
<1> QED BY <1>1 DEF Sound, Grows, OptionalId

(* The steps in front of the Horizon calls read and decide, no more.       *)
LEMMA StartFrame ==
  ASSUME NEW c \in CRs, ReconcileStart(c)
  PROVE  UNCHANGED <<obj, cache, known, hz, parent, issuer>>
  BY DEF ReconcileStart, IgnoreRequest, MissingIssuer, ReadFails, StartDeletion,
         ReportDenial, DnsFailure, AlreadyApproved, StartPoll, MissingParent,
         NilIssuing, StartSubmission, StartBareEnrollment, vars

(* A call to Horizon touches no object of the cluster.                     *)
LEMMA HorizonFrame ==
  ASSUME HorizonCall PROVE UNCHANGED <<obj, cache, known, parent, issuer>>
  BY DEF HorizonCall, SubmitAccepted, SubmitLost, SubmitFailed, PollFailed,
         PollPending, PollDenied, PollCompleted, ChainFailed, ChainIsRoot,
         ChainBuilt, RevokeAccepted, RevokeFailed, RevokeLost

(* A call to the API server touches nothing on Horizon.                    *)
LEMMA ApiFrame ==
  ASSUME ApiCall PROVE UNCHANGED <<cache, known, hz, issuer>>
  BY DEF ApiCall, WriteStored, WriteConflict, WriteFailed, WriteLost,
         ParentUpdated, ParentSkipped, FinalizerRemoved, FinalizerKept

(* Only a submission, a revocation and Horizon itself change its records.  *)
LEMMA HorizonMoves ==
  ASSUME Next
  PROVE  \/ UNCHANGED hz
         \/ \E r \in RequestIds : pc \in Submitting /\ Submission(r)
         \/ pc = "revoke" /\ Revoke(local.status.certificate)
         \/ \E r \in RequestIds : Decides(r)
<1>1. ASSUME NEW c \in CRs, ReconcileStart(c) PROVE UNCHANGED hz
  BY <1>1, StartFrame
<1>2. ASSUME HorizonCall
      PROVE  \/ UNCHANGED hz
             \/ \E r \in RequestIds : pc \in Submitting /\ Submission(r)
             \/ pc = "revoke" /\ Revoke(local.status.certificate)
  BY <1>2 DEF HorizonCall, SubmitAccepted, SubmitLost, SubmitFailed, PollFailed,
         PollPending, PollDenied, PollCompleted, ChainFailed, ChainIsRoot,
         ChainBuilt, RevokeAccepted, RevokeFailed, RevokeLost
<1>3. ASSUME ApiCall PROVE UNCHANGED hz
  BY <1>3, ApiFrame
<1>4. ASSUME Environment
      PROVE  UNCHANGED hz \/ \E r \in RequestIds : Decides(r)
  BY <1>4
       DEF Environment, InformerStep, ClusterStep, IssuerStep, DeliverCertificate, Deliver,
           Resync, CreateRequest, DeleteRequest,
         DenyRequest, ApproveRequest, SetIssuing, HorizonDecides, Restart, FreshProcess,
         IssuerRecovers, IssuerUnready, EditIssuer, DeleteIssuer
<1> QED BY <1>1, <1>2, <1>3, <1>4 DEF Next, WorkerStep

(* Every step lets Horizon's records grow.                                 *)
LEMMA NextGrows ==
  ASSUME Typed, Next PROVE Grows(hz, hz')
<1> USE DEF Grows, Typed, TypeOK, HorizonRequest
<1>1. CASE UNCHANGED hz
  BY <1>1
<1>2. ASSUME NEW r \in RequestIds, Submission(r) PROVE Grows(hz, hz')
  BY <1>2 DEF Submission, Accept
<1>3. CASE Revoke(local.status.certificate)
  BY <1>3 DEF Revoke
<1>4. ASSUME NEW r \in RequestIds, Decides(r) PROVE Grows(hz, hz')
  <2>1. PICK next \in RequestStatus \ {"unused"} :
          hz' = [hz EXCEPT ![r].status = next] /\ hz[r].status # "completed"
    BY <1>4 DEF Decides, RequestStatus
  <2> QED BY <2>1
<1> QED BY <1>1, <1>2, <1>3, <1>4, HorizonMoves

(* What the deferred function stores is sound: the status half of the old  *)
(* object fits the metadata half of the new one, and the other way round.  *)
LEMMA StoredSound ==
  ASSUME IInv, pc = "write", Current
  PROVE  /\ cur \in CRs
         /\ Sound(hz, cur, Stored[cur]) /\ Present(Stored[cur])
         /\ \A c \in CRs \ {cur} : Stored[c] = obj[c]
<1> USE DEF IInv, Typed
<1>1. /\ cur \in Ours /\ Present(base)
      /\ Sound(hz, cur, base) /\ Sound(hz, cur, local)
      /\ ~Settled(base) /\ local.meta.life = base.meta.life
      /\ base.meta.requestId \in {None, local.meta.requestId}
      /\ base.meta.certificateId \in {None, local.meta.certificateId}
  BY DEF WorkerSound, Updating, PCs
<1>2. cur \in CRs
  BY <1>1, ControllerAssumption
<1>3. \A c \in CRs \ {cur} : Stored[c] = obj[c]
  BY <1>2 DEF Stored, TypeOK
<1>4. base = obj[cur] /\ base \in Object /\ local \in Object
  BY DEF Current, TypeOK
<1>5. CASE AnnotationsChanged(base, local)
  <2>1. Stored[cur] = [meta |-> local.meta, status |-> base.status]
    BY <1>2, <1>4, <1>5 DEF Stored, TypeOK, Object
  <2>2. Sound(hz, cur, Stored[cur])
    BY <1>1, <2>1 DEF Sound, Settled
  <2>3. Present(Stored[cur])
    BY <1>1, <2>1 DEF Present
  <2> QED BY <1>2, <1>3, <2>2, <2>3
<1>6. CASE ~AnnotationsChanged(base, local)
  <2>1. Stored[cur] = [meta |-> base.meta, status |-> local.status]
    BY <1>2, <1>4, <1>6 DEF Stored, TypeOK, Object
  <2>2. Sound(hz, cur, Stored[cur])
    BY <1>1, <1>6, <2>1 DEF Sound, AnnotationsChanged
  <2>3. Present(Stored[cur])
    BY <1>1, <2>1 DEF Present
  <2> QED BY <1>2, <1>3, <2>2, <2>3
<1> QED BY <1>5, <1>6

(* The stored and the cached objects stay sound.                           *)
LEMMA ObjectsStep ==
  ASSUME IInv, Next, Typed' PROVE ObjectsSound'
<1> USE DEF IInv
<1>1. Grows(hz, hz')
  BY NextGrows
<1>2. \A c \in CRs : Sound(hz', c, obj[c]) /\ Sound(hz', c, cache[c])
  BY <1>1, SoundGrows DEF ObjectsSound, Typed, TypeOK
<1>3. CASE UNCHANGED <<obj, cache>>
  BY <1>2, <1>3 DEF ObjectsSound
<1>4. CASE WriteStored \/ WriteLost
  BY <1>4, <1>2, StoredSound DEF WriteStored, WriteLost, ObjectsSound, Placed
<1>5. CASE FinalizerRemoved
  <2>1. cur \in CRs
    BY <1>5 DEF Typed, FinalizerRemoved
  <2>2. Sound(hz', cur, Blank("gone"))
    BY DEF Sound, Blank
  <2> QED BY <1>2, <1>5, <2>1, <2>2
             DEF FinalizerRemoved, ObjectsSound, Placed, Typed, TypeOK
<1>6. ASSUME NEW c \in CRs, Deliver(c) PROVE ObjectsSound'
  BY <1>2, <1>6 DEF Deliver, ObjectsSound, Typed, TypeOK
<1>7. CASE Restart
  BY <1>2, <1>7 DEF Restart, FreshProcess, ObjectsSound
<1>8. ASSUME NEW c \in CRs, CreateRequest(c) \/ DeleteRequest(c) PROVE ObjectsSound'
  <2>1. /\ Sound(hz', c, Blank("gone")) /\ Sound(hz', c, Blank("live"))
        /\ Present(Blank("live"))
    BY DEF Sound, Blank, Present
  <2> DEFINE marked == [obj[c] EXCEPT !.meta.life = "deleting"]
  <2>2. obj[c] \in Object BY DEF Typed, TypeOK
  <2>3. Sound(hz', c, marked) /\ Present(marked)
    BY <1>2, <2>2 DEF Sound, Present, Object, Metadata
  <2>4. /\ obj' \in {[obj EXCEPT ![c] = o] : o \in {Blank("gone"), Blank("live"), marked}}
        /\ UNCHANGED cache
    BY <1>8 DEF CreateRequest, DeleteRequest
  <2> HIDE DEF marked
  <2> QED BY <1>2, <2>1, <2>3, <2>4 DEF ObjectsSound, Placed, Typed, TypeOK
<1>9. ASSUME NEW c \in CRs, DenyRequest(c) \/ ApproveRequest(c) PROVE ObjectsSound'
  <2> DEFINE denied == [obj[c] EXCEPT !.status.denied = TRUE]
             approved == [obj[c] EXCEPT !.status.approved = TRUE]
  <2>1. obj[c] \in Object /\ Present(obj[c])
    BY <1>9 DEF Typed, TypeOK, DenyRequest, ApproveRequest
  <2>2. ~obj[c].status.approved /\ ~obj[c].status.denied
    BY <1>9 DEF DenyRequest, ApproveRequest
  <2>3. /\ Sound(hz', c, denied) /\ Present(denied)
        /\ Sound(hz', c, approved) /\ Present(approved)
    BY <1>2, <2>1, <2>2 DEF Sound, Present, Object, Status
  <2>4. obj' \in {[obj EXCEPT ![c] = o] : o \in {denied, approved}} /\ UNCHANGED cache
    BY <1>9 DEF DenyRequest, ApproveRequest
  <2> HIDE DEF denied, approved
  <2> QED BY <1>2, <2>3, <2>4 DEF ObjectsSound, Placed, Typed, TypeOK
<1>10. CASE ApiCall
  <2>1. WriteConflict \/ WriteFailed \/ ParentUpdated \/ ParentSkipped \/ FinalizerKept
          => UNCHANGED <<obj, cache>>
    BY DEF WriteConflict, WriteFailed, ParentUpdated, ParentSkipped, FinalizerKept
  <2> QED BY <1>3, <1>4, <1>5, <1>10, <2>1 DEF ApiCall
<1>11. CASE Environment
  <2>1. \/ \E c \in CRs : \/ Deliver(c) \/ CreateRequest(c) \/ DeleteRequest(c)
                         \/ DenyRequest(c) \/ ApproveRequest(c)
        \/ Restart \/ UNCHANGED <<obj, cache>>
    BY <1>11
         DEF Environment, InformerStep, ClusterStep, IssuerStep, DeliverCertificate, Resync,
             SetIssuing, HorizonDecides, IssuerRecovers,
                 IssuerUnready, EditIssuer, DeleteIssuer
  <2> QED BY <1>3, <1>6, <1>7, <1>8, <1>9, <2>1
<1> QED BY <1>3, <1>10, <1>11, StartFrame, HorizonFrame DEF Next, WorkerStep

(* The fields of an object that soundness looks at agree, but for the      *)
(* reason of the Ready condition.                                          *)
SameButReady(o, x) ==
  /\ x.meta = o.meta
  /\ x.status.approved = o.status.approved
  /\ x.status.denied = o.status.denied
  /\ x.status.invalid = o.status.invalid
  /\ x.status.certificate = o.status.certificate

(* The deferred function touches the Ready condition and failureTime only. *)
LEMMA ReadyFields ==
  ASSUME NEW o \in Object
  PROVE  /\ SameButReady(o, AfterError(o))
         /\ AfterError(o).status.ready =
              IF o.status.invalid THEN "Failed" ELSE "Pending"
         /\ SameButReady(o, MarkDenied(o))
         /\ MarkDenied(o).status.ready = "Denied"
         /\ SameButReady(o, SetReady(o, "Pending"))
         /\ SetReady(o, "Pending").status.ready = "Pending"
<1> DEFINE x == [o EXCEPT !.status.failureTime = TRUE]
<1>1. /\ x \in Object /\ SameButReady(o, x)
  BY DEF SameButReady, Object, Status
<1>2. ASSUME NEW y \in Object, NEW reason \in ReadyReasons
      PROVE  SameButReady(y, SetReady(y, reason)) /\ SetReady(y, reason).status.ready = reason
  BY DEF SameButReady, SetReady, Object, Status
<1> DEFINE reason == IF o.status.invalid THEN "Failed" ELSE "Pending"
<1>3. AfterError(o) = SetReady(x, reason) /\ MarkDenied(o) = SetReady(x, "Denied")
  BY DEF AfterError, MarkDenied
<1>4. {reason, "Denied", "Pending"} \subseteq ReadyReasons
  BY DEF ReadyReasons
<1> HIDE DEF x, reason
<1>5. /\ SameButReady(x, AfterError(o)) /\ AfterError(o).status.ready = reason
      /\ SameButReady(x, MarkDenied(o)) /\ MarkDenied(o).status.ready = "Denied"
  BY <1>1, <1>2, <1>3, <1>4
<1>6. SameButReady(o, AfterError(o)) /\ SameButReady(o, MarkDenied(o))
  BY <1>1, <1>5 DEF SameButReady
<1> QED BY <1>2, <1>4, <1>5, <1>6 DEF reason

(* An error, or a missing answer, leaves a sound object sound.             *)
LEMMA ReadySound ==
  ASSUME NEW o \in Object, NEW h, NEW c, Sound(h, c, o),
         o.status.ready # "Failed", o.status.invalid = FALSE
  PROVE  /\ Sound(h, c, AfterError(o))
         /\ Sound(h, c, MarkDenied(o))
         /\ Sound(h, c, SetReady(o, "Pending"))
  BY ReadyFields DEF Sound, SameButReady

(* What the worker holds when it has just entered Reconcile is sound.      *)
LEMMA StartSound ==
  ASSUME IInv, NEW c \in CRs, ReconcileStart(c) PROVE WorkerSound'
<1> USE DEF IInv, Typed
<1> DEFINE o == Prepared(c)
<1>1. /\ cache[c] \in Object /\ o \in Object
      /\ Sound(hz, c, cache[c])
  BY PreparedTyped DEF ObjectsSound, TypeOK
<1>2. /\ o.meta.life = cache[c].meta.life
      /\ o.meta.requestId = cache[c].meta.requestId
      /\ o.meta.certificateId = cache[c].meta.certificateId
      /\ o.status = cache[c].status
  BY <1>1 DEF Prepared, RegisterFinalizer, Object, Metadata
<1>3. Sound(hz, c, o)
  BY <1>1, <1>2 DEF Sound
<1>4. UNCHANGED <<hz, parent>>
  BY StartFrame
<1>5. CASE IgnoreRequest(c) \/ MissingIssuer(c) \/ ReadFails(c)
  <2>1. UNCHANGED <<pc, cur, base, local>>
    BY <1>5 DEF IgnoreRequest, MissingIssuer, ReadFails, vars, worker
  <2>2. pc = "idle"
    BY <1>5 DEF IgnoreRequest, MissingIssuer, ReadFails, Dequeue
  <2> QED BY <2>1, <2>2 DEF WorkerSound, Updating, Submitting
<1>6. CASE StartDeletion(c)
  <2>1. /\ pc' = "revoke" /\ cur' = c /\ base' = cache[c] /\ local' = cache[c]
        /\ Present(cache[c]) /\ c \in Ours
    BY <1>6 DEF StartDeletion, Begin, Reconcilable
  <2> QED BY <1>1, <1>4, <2>1 DEF WorkerSound, Updating, Submitting
<1>7. ASSUME NEW p \in Updating, NEW x \in Object, NEW out,
             Begin(c, p, x, out), Proceeds(c), Sound(hz, c, x),
             x.meta = o.meta,
             p \in Submitting => /\ ParentOf[c] # None /\ o.meta.requestId = None
                                 /\ x.status.ready # "Failed",
             p = "poll" => /\ o.meta.requestId # None
                           /\ ~x.status.denied /\ ~x.status.approved,
             p # "chain" /\ p # "parent",
             p = "renew" => known[ParentOf[c]].lastId # None
      PROVE  WorkerSound'
  <2>1. /\ pc' = p /\ cur' = c /\ base' = cache[c] /\ local' = x
        /\ Present(cache[c]) /\ c \in Ours /\ ~Settled(cache[c])
    BY <1>7 DEF Begin, Proceeds, Reconcilable
  <2>2. ASSUME p = "renew"
        PROVE  /\ replaces' # None /\ hz[replaces'].status = "completed"
               /\ ParentOf[hz[replaces'].owner] = ParentOf[c]
    <3>1. replaces' = known[ParentOf[c]].lastId /\ ParentOf[c] \in Certificates
      BY <1>7, <2>2, ControllerAssumption DEF Begin, Submitting
    <3> QED BY <1>7, <2>2, <3>1 DEF KnownSound
  <2> QED BY <1>1, <1>2, <1>4, <1>7, <2>1, <2>2 DEF WorkerSound, Updating
<1>8. /\ "write" \in Updating /\ "write" \notin Submitting
      /\ "poll" \in Updating /\ "poll" \notin Submitting
      /\ Submitting \subseteq Updating
      /\ "chain" \notin Submitting /\ "parent" \notin Submitting
  BY DEF Updating, Submitting, PCs
<1>9. ASSUME Proceeds(c)
      PROVE  /\ o.status.ready # "Failed" /\ o.status.invalid = FALSE
             /\ AfterError(o) \in Object /\ AfterError(o).meta = o.meta
             /\ Sound(hz, c, AfterError(o))
  <2>1. o.status.ready # "Failed"
    BY <1>2, <1>9 DEF Proceeds, Settled
  <2>2. o.status.invalid = FALSE
    BY <1>1, <1>3, <2>1 DEF Sound, Object, Status
  <2> QED BY <1>1, <1>3, <2>1, <2>2, HandlersTyped, ReadyFields, ReadySound
             DEF OptionalId, SameButReady
<1>10. CASE ReportDenial(c)
  <2>1. Proceeds(c) /\ Begin(c, "write", MarkDenied(o), "done")
    BY <1>10 DEF ReportDenial
  <2>2. /\ MarkDenied(o) \in Object /\ MarkDenied(o).meta = o.meta
        /\ Sound(hz, c, MarkDenied(o))
    BY <1>1, <1>3, <1>9, <2>1, HandlersTyped, ReadyFields, ReadySound
       DEF OptionalId, SameButReady
  <2> QED BY <1>7, <1>8, <2>1, <2>2
<1>11. CASE DnsFailure(c) \/ MissingParent(c)
  <2>1. Proceeds(c) /\ Begin(c, "write", AfterError(o), "error")
    BY <1>11 DEF DnsFailure, MissingParent, NeedsSubmission, Undenied
  <2> QED BY <1>7, <1>8, <1>9, <2>1
<1>12. CASE AlreadyApproved(c) \/ NilIssuing(c)
  <2>1. Proceeds(c) /\ \E out \in Outcomes : Begin(c, "write", o, out)
    BY <1>12 DEF AlreadyApproved, NilIssuing, NeedsSubmission, Undenied, Outcomes
  <2> QED BY <1>1, <1>3, <1>7, <1>8, <2>1
<1>13. CASE StartPoll(c)
  <2>1. /\ Proceeds(c) /\ Begin(c, "poll", o, "done")
        /\ o.meta.requestId # None /\ ~o.status.denied /\ ~o.status.approved
    BY <1>2, <1>13 DEF StartPoll, Undenied
  <2> QED BY <1>1, <1>3, <1>7, <1>8, <2>1
<1>14. CASE StartSubmission(c) \/ StartBareEnrollment(c)
  <2>1. /\ Proceeds(c) /\ ParentOf[c] # None /\ o.meta.requestId = None
    BY <1>2, <1>14 DEF StartSubmission, StartBareEnrollment, NeedsSubmission, Undenied
  <2>2. o.status.ready # "Failed"
    BY <1>2, <2>1 DEF Proceeds, Settled
  <2>3. CASE StartSubmission(c)
    <3>1. CASE ShouldRenew(ParentOf[c])
      <4>1. Begin(c, "renew", o, "done") /\ known[ParentOf[c]].lastId # None
        BY <2>3, <3>1 DEF StartSubmission, ShouldRenew
      <4>2. "renew" \in Submitting
        BY DEF Submitting
      <4> HIDE DEF o
      <4> QED BY <1>1, <1>3, <1>7, <1>8, <2>1, <2>2, <4>1, <4>2
    <3>2. CASE ~ShouldRenew(ParentOf[c])
      <4>1. Begin(c, "enroll", o, "done")
        BY <2>3, <3>2 DEF StartSubmission
      <4>2. "enroll" \in Submitting
        BY DEF Submitting
      <4> HIDE DEF o
      <4> QED BY <1>1, <1>3, <1>7, <1>8, <2>1, <2>2, <4>1, <4>2
    <3> QED BY <3>1, <3>2
  <2>4. CASE StartBareEnrollment(c)
    <3> DEFINE x == SetReady(o, "Pending")
    <3>1. x \in Object /\ x.meta = o.meta /\ x.status.ready = "Pending"
      BY <1>1, HandlersTyped DEF SetReady, Object, OptionalId, Status
    <3>2. Sound(hz, c, x)
      BY <1>1, <1>3, <1>9, <2>1, ReadySound
    <3>3. Begin(c, "enroll", x, "done")
      BY <2>4 DEF StartBareEnrollment
    <3>4. "enroll" \in Submitting
      BY DEF Submitting
    <3> HIDE DEF x
    <3> QED BY <1>7, <1>8, <2>1, <3>1, <3>2, <3>3, <3>4
  <2> QED BY <1>14, <2>3, <2>4
<1> QED BY <1>5, <1>6, <1>10, <1>11, <1>12, <1>13, <1>14 DEF ReconcileStart

(* What the handlers make of Horizon's answers is sound.                   *)
LEMMA HorizonCallSound ==
  ASSUME IInv, HorizonCall, Grows(hz, hz') PROVE WorkerSound'
<1> USE DEF IInv, Typed
<1>1. base \in Object /\ local \in Object
  BY DEF TypeOK
<1>2. /\ pc # "idle" /\ pc # "write" /\ pc # "parent"
      /\ pc \in Submitting \cup {"poll", "chain", "revoke"}
  BY DEF HorizonCall, SubmitAccepted, SubmitLost, SubmitFailed, PollFailed,
         PollPending, PollDenied, PollCompleted, ChainFailed, ChainIsRoot,
         ChainBuilt, RevokeAccepted, RevokeFailed, RevokeLost, Submitting
<1>3. /\ cur \in Ours /\ Present(base)
      /\ Sound(hz', cur, base) /\ Sound(hz', cur, local) /\ Sound(hz, cur, local)
  BY <1>1, <1>2, SoundGrows DEF WorkerSound
<1>4. ASSUME pc \in Updating, NEW x, NEW out, Return(x, out), Sound(hz', cur, x),
             x.meta.life = local.meta.life,
             local.meta.requestId \in {None, x.meta.requestId},
             local.meta.certificateId \in {None, x.meta.certificateId}
      PROVE  WorkerSound'
  <2>1. /\ ~Settled(base) /\ local.meta.life = base.meta.life
        /\ base.meta.requestId \in {None, local.meta.requestId}
        /\ base.meta.certificateId \in {None, local.meta.certificateId}
    BY <1>4 DEF WorkerSound
  <2>2. pc' = "write" /\ local' = x /\ UNCHANGED <<cur, base>>
    BY <1>4 DEF Return
  <2> QED BY <1>3, <1>4, <2>1, <2>2 DEF WorkerSound, Updating, Submitting
<1>5. Submitting \cup {"poll", "chain"} \subseteq Updating
  BY DEF Updating, Submitting, PCs
<1>6. ASSUME pc \in Submitting \cup {"poll", "chain"}
      PROVE  local.status.ready # "Failed" /\ local.status.invalid = FALSE
  <2>1. local.status.ready # "Failed"
    BY <1>3, <1>6 DEF WorkerSound, Sound
  <2> QED BY <1>1, <1>3, <2>1 DEF Sound, Object, Status
<1>7. ASSUME pc \in {"poll", "chain"}, Return(AfterError(local), "error")
      PROVE  WorkerSound'
  BY <1>1, <1>3, <1>4, <1>5, <1>6, <1>7, ReadyFields, ReadySound DEF SameButReady
<1>8. ASSUME NEW r \in RequestIds, SubmitAccepted(r) PROVE WorkerSound'
  <2> DEFINE x == [local EXCEPT !.meta.requestId = r]
  <2>1. local.meta.requestId = None /\ local.meta.certificateId = None
    BY <1>3, <1>8 DEF WorkerSound, SubmitAccepted, Sound
  <2>2. hz'[r].owner = cur /\ hz'[r].status = "pending"
    BY <1>8 DEF SubmitAccepted, Submission, Accept, TypeOK
  <2>3. x \in Object /\ x.meta.life = local.meta.life /\ x.status = local.status
        /\ x.meta.requestId = r /\ x.meta.certificateId = None
    BY <1>1, <2>1 DEF Object, Metadata, OptionalId
  <2>4. Sound(hz', cur, x)
    BY <1>3, <1>6, <1>8, <2>1, <2>2, <2>3 DEF Sound, SubmitAccepted
  <2>5. Return(SetReady(x, "Pending"), "done")
    BY <1>8 DEF SubmitAccepted, RecordSubmission
  <2> HIDE DEF x
  <2>6. Sound(hz', cur, SetReady(x, "Pending")) /\ SetReady(x, "Pending").meta = x.meta
    BY <1>6, <1>8, <2>3, <2>4, ReadySound, ReadyFields DEF SubmitAccepted, SameButReady
  <2> QED BY <1>4, <1>5, <1>8, <2>1, <2>3, <2>5, <2>6 DEF SubmitAccepted
<1>9. ASSUME SubmitFailed \/ \E r \in RequestIds : SubmitLost(r) PROVE WorkerSound'
  <2> DEFINE x == HandleFailedRequest(local)
  <2>1. pc \in Submitting /\ Return(AfterError(x), "error")
    BY <1>9 DEF SubmitFailed, SubmitLost
  <2>2. /\ x \in Object /\ x.meta = local.meta /\ x.status.invalid = TRUE
        /\ x.status.approved = local.status.approved
        /\ x.status.denied = local.status.denied
        /\ x.status.certificate = local.status.certificate
    BY <1>1, HandlersTyped DEF HandleFailedRequest, Object, Status, OptionalId
  <2>3. local.meta.requestId = None
    BY <2>1 DEF WorkerSound
  <2> HIDE DEF x
  <2>4. Sound(hz', cur, AfterError(x)) /\ AfterError(x).meta = local.meta
    BY <1>3, <2>2, <2>3, ReadyFields DEF Sound, SameButReady
  <2> QED BY <1>4, <1>5, <2>1, <2>4
<1>10. CASE PollFailed \/ ChainFailed
  BY <1>7, <1>10 DEF PollFailed, ChainFailed
<1>11. CASE PollPending \/ ChainIsRoot
  BY <1>3, <1>4, <1>5, <1>11
     DEF PollPending, ChainIsRoot, HandleCompletedRequest
<1>12. CASE PollDenied
  <2> DEFINE x == HandleDeniedRequest(local)
  <2>1. pc = "poll" /\ Return(x, "done")
    BY <1>12 DEF PollDenied
  <2>2. /\ x.meta = local.meta /\ x.status.denied = TRUE
        /\ x.status.ready = local.status.ready
        /\ x.status.invalid = local.status.invalid
        /\ x.status.approved = local.status.approved
        /\ x.status.certificate = local.status.certificate
    BY <1>1 DEF HandleDeniedRequest, Object, Status
  <2>3. local.status.approved = FALSE
    BY <1>1, <2>1 DEF WorkerSound, Object, Status
  <2> HIDE DEF x
  <2>4. Sound(hz', cur, x)
    BY <1>3, <2>2, <2>3 DEF Sound
  <2> QED BY <1>4, <1>5, <2>1, <2>2, <2>4
<1>13. CASE PollCompleted
  <2> DEFINE x == ApproveCompleted(local)
  <2>1. /\ pc = "poll" /\ pc' = "chain" /\ local' = x /\ UNCHANGED <<cur, base, hz>>
        /\ hz[local.meta.requestId].status = "completed"
    BY <1>13 DEF PollCompleted, Polled
  <2>2. /\ x.meta = local.meta /\ x.status.approved = TRUE
        /\ x.status.denied = local.status.denied
        /\ x.status.ready = local.status.ready
        /\ x.status.invalid = local.status.invalid
        /\ x.status.certificate = local.status.certificate
    BY <1>1 DEF ApproveCompleted, Object, Status
  <2>3. /\ ~Settled(base) /\ local.meta.life = base.meta.life
        /\ base.meta.requestId \in {None, local.meta.requestId}
        /\ base.meta.certificateId \in {None, local.meta.certificateId}
        /\ local.meta.requestId # None /\ ~local.status.denied
    BY <1>5, <2>1 DEF WorkerSound
  <2> HIDE DEF x
  <2>4. Sound(hz, cur, x)
    BY <1>3, <2>2, <2>3 DEF Sound
  <2> QED BY <1>3, <2>1, <2>2, <2>3, <2>4 DEF WorkerSound, Updating, Submitting
<1>14. CASE ChainBuilt
  <2> DEFINE r == local.meta.requestId
             y == [local EXCEPT !.meta.certificateId = r, !.status.certificate = r]
             x == SetReady(y, "Issued")
  <2>1. /\ pc = "chain" /\ UNCHANGED hz /\ Return(HandleCompletedRequest(local, r), "done")
    BY <1>14 DEF ChainBuilt
  <2>2. /\ r # None /\ ~local.status.denied /\ local.status.approved
        /\ hz[r].status = "completed"
    BY <2>1 DEF WorkerSound
  <2>3. /\ x.meta.life = local.meta.life /\ x.meta.requestId = r
        /\ x.meta.certificateId = r /\ x.status.certificate = r
        /\ x.status.ready = "Issued"
        /\ x.status.approved = local.status.approved
        /\ x.status.denied = local.status.denied
        /\ x.status.invalid = local.status.invalid
    BY <1>1 DEF SetReady, Object, Metadata, Status
  <2>4. Return(x, "done")
    BY <2>1, <2>2 DEF HandleCompletedRequest
  <2>5. local.meta.certificateId \in {None, r}
    BY <1>3 DEF Sound
  <2> HIDE DEF x
  <2>6. Sound(hz', cur, x)
    BY <1>3, <1>6, <2>1, <2>2, <2>3 DEF Sound
  <2> QED BY <1>4, <1>5, <2>1, <2>3, <2>4, <2>5, <2>6
<1>15. CASE RevokeAccepted
  <2>1. pc' = "unfinalize" /\ UNCHANGED <<cur, base, local>>
    BY <1>15 DEF RevokeAccepted
  <2> QED BY <1>3, <2>1 DEF WorkerSound, Updating, Submitting
<1>16. CASE RevokeFailed \/ RevokeLost
  <2>1. pc' = "idle"
    BY <1>16 DEF RevokeFailed, RevokeLost, Finish
  <2> QED BY <2>1 DEF WorkerSound, Updating, Submitting
<1> QED BY <1>8, <1>9, <1>10, <1>11, <1>12, <1>13, <1>14, <1>15, <1>16 DEF HorizonCall

(* The writes end the reconciliation, or leave the parent to be updated.   *)
LEMMA ApiCallSound ==
  ASSUME IInv, ApiCall PROVE WorkerSound'
<1>1. UNCHANGED hz
  BY ApiFrame
<1>2. ASSUME NEW out, Finish(out) PROVE WorkerSound'
  BY <1>2 DEF Finish, WorkerSound, Updating, Submitting
<1>3. ASSUME NEW out, pc = "write", AfterWrite(out) PROVE WorkerSound'
  <2>1. CASE local.meta.certificateId = None
    BY <1>2, <1>3, <2>1 DEF AfterWrite
  <2>2. CASE local.meta.certificateId # None
    <3>1. pc' = "parent" /\ UNCHANGED <<cur, base, local>>
      BY <1>3, <2>2 DEF AfterWrite
    <3>2. "write" \in Updating
      BY DEF Updating, PCs
    <3> QED BY <1>1, <1>3, <2>2, <3>1, <3>2 DEF WorkerSound, IInv, Submitting, Updating
  <2> QED BY <2>1, <2>2
<1> QED BY <1>2, <1>3 DEF ApiCall, WriteStored, WriteConflict, WriteFailed, WriteLost,
           ParentUpdated, ParentSkipped, FinalizerRemoved, FinalizerKept

(* The environment leaves the worker alone, or ends it.                    *)
LEMMA EnvironmentSound ==
  ASSUME IInv, Environment, Grows(hz, hz') PROVE WorkerSound'
<1> USE DEF IInv, Typed
<1>1. CASE Restart
  BY <1>1 DEF Restart, FreshProcess, WorkerSound, Updating, Submitting
<1>2. CASE ~Restart
  <2>1. UNCHANGED worker
    BY <1>2
         DEF Environment, InformerStep, ClusterStep, IssuerStep, DeliverCertificate, Deliver,
             Resync, CreateRequest, DeleteRequest,
       DenyRequest, ApproveRequest, SetIssuing, HorizonDecides, IssuerRecovers,
       IssuerUnready, EditIssuer, DeleteIssuer
  <2>3. UNCHANGED <<pc, cur, base, local, replaces>>
    BY <2>1 DEF worker
  <2>4. pc # "idle" => Sound(hz', cur, base) /\ Sound(hz', cur, local)
    BY SoundGrows DEF WorkerSound, TypeOK
  <2>5. pc = "chain" => hz'[local.meta.requestId].status = "completed"
    BY DEF WorkerSound, Grows, TypeOK, Object, Metadata, OptionalId
  <2>6. pc = "renew" => /\ hz'[replaces].status = "completed"
                        /\ ParentOf[hz'[replaces].owner] = ParentOf[cur]
    BY DEF WorkerSound, Grows, TypeOK, OptionalId
  <2> QED BY <2>3, <2>4, <2>5, <2>6 DEF WorkerSound
<1> QED BY <1>1, <1>2

(* The informer copies what a parent says.                                 *)
LEMMA KnownStep ==
  ASSUME IInv, Next, Grows(hz, hz') PROVE KnownSound'
<1> USE DEF IInv, Typed
<1>1. ASSUME NEW k \in Certificates, NEW p \in Parent, p.lastId # None,
             hz[p.lastId].status = "completed", ParentOf[hz[p.lastId].owner] = k
      PROVE  /\ hz'[p.lastId].status = "completed"
             /\ ParentOf[hz'[p.lastId].owner] = k
  BY <1>1 DEF Grows, Parent, OptionalId
<1>2. \A k \in Certificates : known[k] \in Parent /\ parent[k] \in Parent
  BY DEF TypeOK
<1>3. ASSUME \A k \in Certificates : known'[k] \in {known[k], parent[k]}
      PROVE  KnownSound'
  BY <1>1, <1>2, <1>3 DEF KnownSound, ParentsSound
<1>4. ASSUME NEW k \in Certificates, DeliverCertificate(k) PROVE KnownSound'
  BY <1>3, <1>4 DEF DeliverCertificate, TypeOK
<1>5. CASE Restart
  BY <1>3, <1>5 DEF Restart, FreshProcess
<1>6. ASSUME Environment
      PROVE  Restart \/ UNCHANGED known \/ \E k \in Certificates : DeliverCertificate(k)
  BY <1>6
       DEF Environment, InformerStep, ClusterStep, IssuerStep, Deliver, Resync,
           CreateRequest, DeleteRequest, DenyRequest, ApproveRequest, SetIssuing,
           HorizonDecides, IssuerRecovers, IssuerUnready, EditIssuer, DeleteIssuer
<1> QED BY <1>3, <1>4, <1>5, <1>6, StartFrame, HorizonFrame, ApiFrame
           DEF Next, WorkerStep

(* A parent is only ever told of a certificate that its own request got.   *)
LEMMA ParentsStep ==
  ASSUME IInv, Next, Grows(hz, hz') PROVE ParentsSound'
<1> USE DEF IInv, Typed
<1>1. ASSUME NEW k \in Certificates, parent[k].lastId # None
      PROVE  /\ hz'[parent[k].lastId].status = "completed"
             /\ ParentOf[hz'[parent[k].lastId].owner] = k
  BY <1>1 DEF ParentsSound, Grows, TypeOK, Parent, OptionalId
<1>2. CASE \A k \in Certificates : parent'[k].lastId = parent[k].lastId
  BY <1>1, <1>2 DEF ParentsSound
<1>3. CASE ParentUpdated
  <2> DEFINE r == local.meta.certificateId
  <2>1. /\ pc = "parent" /\ UNCHANGED hz
        /\ parent' = [parent EXCEPT ![ParentOf[cur]].lastId = r]
    BY <1>3 DEF ParentUpdated
  <2>2. r # None /\ Sound(hz, cur, local) /\ cur \in CRs
    BY <2>1 DEF WorkerSound
  <2>3. hz[r].status = "completed" /\ hz[r].owner = cur
    BY <2>2 DEF Sound
  <2>4. \A k \in Certificates : parent'[k].lastId \in {r, parent[k].lastId}
          /\ (parent'[k].lastId # parent[k].lastId => k = ParentOf[cur])
    BY <2>1 DEF TypeOK, Parent
  <2> QED BY <1>1, <2>1, <2>3, <2>4 DEF ParentsSound
<1>4. ASSUME ~ParentUpdated, ApiCall PROVE UNCHANGED parent
  BY <1>4 DEF ApiCall, WriteStored, WriteConflict, WriteFailed, WriteLost,
         ParentSkipped, FinalizerRemoved, FinalizerKept
<1>5. ASSUME Environment
      PROVE  \A k \in Certificates : parent'[k].lastId = parent[k].lastId
  BY <1>5
       DEF Environment, InformerStep, ClusterStep, IssuerStep, DeliverCertificate, Deliver,
           Resync, CreateRequest, DeleteRequest,
     DenyRequest, ApproveRequest, SetIssuing, HorizonDecides, Restart, FreshProcess,
     IssuerRecovers, IssuerUnready, EditIssuer, DeleteIssuer, TypeOK, Parent
<1> QED BY <1>2, <1>3, <1>4, <1>5, StartFrame, HorizonFrame DEF Next, WorkerStep

(* Renewals keep naming a certificate of their own Certificate.            *)
LEMMA RenewStep ==
  ASSUME IInv, Next, Grows(hz, hz') PROVE RenewTargetsPredecessor'
<1> USE DEF IInv, Typed
<1>1. ASSUME \A r \in RequestIds : /\ hz'[r].workflow = hz[r].workflow
                                  /\ hz'[r].previous = hz[r].previous
                                  /\ hz'[r].owner = hz[r].owner
      PROVE  RenewTargetsPredecessor'
  BY <1>1 DEF RenewTargetsPredecessor, Grows
<1>2. ASSUME NEW q \in RequestIds, pc \in Submitting, Submission(q)
      PROVE  RenewTargetsPredecessor'
  <2>1. hz[q].status = "unused" /\ cur \in CRs /\ ParentOf[cur] \in Certificates
    BY <1>2 DEF Submission, Accept, Submitting
  <2>2. \A r \in RequestIds \ {q} : hz'[r] = hz[r]
    BY <1>2 DEF Submission, Accept, TypeOK
  <2>3. ASSUME hz'[q].workflow = "renew"
        PROVE  /\ hz'[q].previous \in RequestIds \ {q}
               /\ hz[hz'[q].previous].status = "completed"
               /\ ParentOf[hz[hz'[q].previous].owner] = ParentOf[hz'[q].owner]
    <3>1. pc = "renew" /\ hz'[q].previous = replaces /\ hz'[q].owner = cur
      BY <1>2, <2>1, <2>3 DEF Submission, Accept, TypeOK
    <3>2. replaces \in RequestIds
      BY <3>1 DEF WorkerSound, TypeOK, OptionalId
    <3> QED BY <2>1, <3>1, <3>2 DEF WorkerSound
  <2>4. ASSUME NEW r \in RequestIds \ {q}, hz[r].workflow = "renew"
        PROVE  /\ hz[r].previous \in RequestIds \ {r, q}
               /\ hz[hz[r].previous].status = "completed"
               /\ ParentOf[hz[hz[r].previous].owner] = ParentOf[hz[r].owner]
    BY <2>1, <2>4 DEF RenewTargetsPredecessor
  <2> QED BY <2>2, <2>3, <2>4 DEF RenewTargetsPredecessor
<1>3. CASE Revoke(local.status.certificate)
  BY <1>1, <1>3 DEF Revoke, TypeOK, HorizonRequest
<1>4. ASSUME NEW r \in RequestIds, Decides(r) PROVE RenewTargetsPredecessor'
  BY <1>1, <1>4 DEF Decides, TypeOK, HorizonRequest
<1> QED BY <1>1, <1>2, <1>3, <1>4, HorizonMoves

(* Neither requests of another group nor requests without a parent enter.  *)
LEMMA StraysStep ==
  ASSUME IInv, Next, ObjectsSound', Typed' PROVE StraysUntouched'
<1> USE DEF IInv, Typed
<1> DEFINE Stray(c) == c \notin Ours \/ ParentOf[c] = None
<1>1. ASSUME NEW c \in CRs, Stray(c), NEW r \in RequestIds
      PROVE  hz'[r].owner # c
  <2>1. hz[r].owner # c
    BY <1>1 DEF StraysUntouched
  <2>2. ASSUME NEW q \in RequestIds, pc \in Submitting, Submission(q)
        PROVE  hz'[r].owner # c
    <3>1. cur \in Ours /\ ParentOf[cur] # None
      BY <2>2 DEF WorkerSound, Submitting
    <3> QED BY <1>1, <2>1, <2>2, <3>1 DEF Submission, Accept, TypeOK
  <2>3. CASE Revoke(local.status.certificate)
    BY <2>1, <2>3 DEF Revoke, TypeOK, HorizonRequest
  <2>4. ASSUME NEW q \in RequestIds, Decides(q) PROVE hz'[r].owner # c
    BY <2>1, <2>4 DEF Decides, TypeOK, HorizonRequest
  <2> QED BY <2>1, <2>2, <2>3, <2>4, HorizonMoves
<1>2. ASSUME NEW c \in CRs, Stray(c) PROVE obj'[c].meta.requestId = None
  <2>1. obj'[c].meta.requestId \in OptionalId
    BY DEF TypeOK, Object, Metadata
  <2> QED BY <1>1, <1>2, <2>1 DEF ObjectsSound, Sound, OptionalId
<1>3. ASSUME NEW c \in CRs, c \notin Ours
      PROVE  /\ ~Settled(obj'[c]) /\ obj'[c].status.ready # "Pending"
             /\ ~obj'[c].meta.finalizer
  <2>1. /\ ~Settled(obj[c]) /\ obj[c].status.ready # "Pending"
        /\ ~obj[c].meta.finalizer
    BY <1>3 DEF StraysUntouched
  <2>2. CASE obj'[c] = obj[c]
    BY <2>1, <2>2
  <2>3. ASSUME ApiCall PROVE obj'[c] = obj[c]
    <3>1. cur # c /\ cur \in CRs
      BY <1>3, <2>3 DEF WorkerSound, ApiCall, WriteStored, WriteConflict,
         WriteFailed, WriteLost, ParentUpdated, ParentSkipped, FinalizerRemoved,
         FinalizerKept
    <3> QED BY <2>3, <3>1 DEF ApiCall, WriteStored, WriteConflict, WriteFailed,
         WriteLost, ParentUpdated, ParentSkipped, FinalizerRemoved, FinalizerKept,
         Stored, TypeOK
  <2>4. ASSUME NEW d \in CRs,
               CreateRequest(d) \/ DeleteRequest(d) \/ DenyRequest(d) \/ ApproveRequest(d)
        PROVE  /\ obj'[c].status.ready \in {obj[c].status.ready, "None"}
               /\ ~obj'[c].meta.finalizer
    <3> DEFINE marked == [obj[d] EXCEPT !.meta.life = "deleting"]
               denied == [obj[d] EXCEPT !.status.denied = TRUE]
               approved == [obj[d] EXCEPT !.status.approved = TRUE]
               Fine(o) == /\ o.status.ready \in {obj[d].status.ready, "None"}
                          /\ ~obj[d].meta.finalizer => ~o.meta.finalizer
    <3>1. Fine(Blank("live")) /\ Fine(Blank("gone"))
      BY DEF Blank
    <3>2. obj[d] \in Object
      BY DEF TypeOK
    <3>3. Fine(marked) /\ Fine(denied) /\ Fine(approved)
      BY <3>2 DEF Object, Metadata, Status
    <3>4. PICK o \in {Blank("live"), Blank("gone"), marked, denied, approved} :
            obj' = [obj EXCEPT ![d] = o]
      BY <2>4 DEF CreateRequest, DeleteRequest, DenyRequest, ApproveRequest
    <3>5. Fine(o)
      <4> HIDE DEF marked, denied, approved, Fine
      <4> QED BY <3>1, <3>3
    <3> HIDE DEF marked, denied, approved
    <3> QED BY <2>1, <3>4, <3>5 DEF TypeOK
  <2>5. ASSUME Environment
        PROVE  \/ UNCHANGED obj
               \/ \E d \in CRs : \/ CreateRequest(d) \/ DeleteRequest(d)
                                \/ DenyRequest(d) \/ ApproveRequest(d)
    BY <2>5
         DEF Environment, InformerStep, ClusterStep, IssuerStep, DeliverCertificate, Deliver,
             Resync, SetIssuing, HorizonDecides, Restart, FreshProcess,
       IssuerRecovers, IssuerUnready, EditIssuer, DeleteIssuer
  <2> QED BY <2>1, <2>2, <2>3, <2>4, <2>5, StartFrame, HorizonFrame
             DEF Next, WorkerStep, Settled
<1> QED BY <1>1, <1>2, <1>3 DEF StraysUntouched

(* The invariant holds initially and is preserved by every step.           *)
LEMMA InitIInv == Init => IInv
<1> SUFFICES ASSUME Init PROVE IInv
  OBVIOUS
<1>1. Typed
  BY InitTyped
<1>2. ObjectsSound
  BY DEF Init, ObjectsSound, Sound, Placed, Blank
<1>3. WorkerSound
  BY DEF Init, WorkerSound, Updating, Submitting
<1>4. ParentsSound /\ KnownSound
  BY DEF Init, ParentsSound, KnownSound
<1>5. RenewTargetsPredecessor
  BY DEF Init, HorizonInit, NoRequest, RenewTargetsPredecessor
<1>6. StraysUntouched
  BY NoneIsNoCR DEF Init, HorizonInit, NoRequest, StraysUntouched, Blank, Settled
<1> QED BY <1>1, <1>2, <1>3, <1>4, <1>5, <1>6 DEF IInv

(* One step of the worker or of its environment preserves the invariant.   *)
LEMMA NextIInv == IInv /\ [Next]_vars => IInv'
<1> SUFFICES ASSUME IInv, [Next]_vars PROVE IInv'
  OBVIOUS
<1>1. CASE UNCHANGED vars
  BY <1>1 DEF vars, worker, IInv, Typed, TypeOK, ObjectsSound, WorkerSound,
         ParentsSound, KnownSound, RenewTargetsPredecessor, StraysUntouched
<1>2. CASE Next
  <2>1. Typed' BY <1>2, NextTyped DEF IInv
  <2>2. Grows(hz, hz') BY <1>2, NextGrows DEF IInv
  <2>3. ObjectsSound' BY <1>2, <2>1, ObjectsStep
  <2>4. WorkerSound'
    BY <1>2, <2>2, StartSound, HorizonCallSound, ApiCallSound, EnvironmentSound
       DEF Next, WorkerStep
  <2>5. ParentsSound' /\ KnownSound'
    BY <1>2, <2>2, ParentsStep, KnownStep
  <2>6. RenewTargetsPredecessor' BY <1>2, <2>2, RenewStep
  <2>7. StraysUntouched' BY <1>2, <2>1, <2>3, StraysStep
  <2> QED BY <2>1, <2>3, <2>4, <2>5, <2>6, <2>7 DEF IInv
<1> QED BY <1>1, <1>2

(* IInv is an invariant of the controller.                                 *)
LEMMA Invariance == Spec => []IInv
  BY InitIInv, NextIInv, PTL DEF Spec

-----------------------------------------------------------------------------
(* The theorems.                                                           *)

(* What the invariant says of a stored request that is Ready=True.         *)
LEMMA SoundIsBacked == IInv => IssuedIsBacked
<1> SUFFICES ASSUME IInv, NEW c \in CRs, obj[c].status.ready = "Issued"
             PROVE  LET r == obj[c].status.certificate IN
                    /\ r \in RequestIds
                    /\ obj[c].meta.requestId = r /\ obj[c].meta.certificateId = r
                    /\ obj[c].status.approved
                    /\ hz[r].owner = c /\ hz[r].status = "completed"
  BY DEF IssuedIsBacked
<1>1. obj[c].status.certificate \in OptionalId
  BY DEF IInv, Typed, TypeOK, Object, Status
<1> QED BY <1>1 DEF IInv, ObjectsSound, Sound, OptionalId

(* A request that is Ready=True carries the certificate of the completed   *)
(* Horizon request that was submitted for it.                              *)
THEOREM IssuedBacked == Spec => []IssuedIsBacked
  BY SoundIsBacked, Invariance, PTL

(* No request is both approved and denied.                                 *)
THEOREM NoContradiction == Spec => []DecidedOnce
<1>1. IInv => DecidedOnce
  BY DEF IInv, ObjectsSound, Sound, DecidedOnce
<1> QED BY <1>1, Invariance, PTL

(* A request whose request-id is recorded never becomes Failed.            *)
THEOREM NeverFailsOnceRecorded == Spec => []RecordedNeverFails
<1>1. IInv => RecordedNeverFails
  BY DEF IInv, ObjectsSound, Sound, RecordedNeverFails
<1> QED BY <1>1, Invariance, PTL

(* A renewal replaces a certificate issued for the same Certificate.       *)
THEOREM RenewalsTargetPredecessors == Spec => []RenewTargetsPredecessor
<1>1. IInv => RenewTargetsPredecessor
  BY DEF IInv
<1> QED BY <1>1, Invariance, PTL

(* Requests of other groups, or without a parent, stay out of Horizon.     *)
THEOREM StraysStayOut == Spec => []StraysUntouched
<1>1. IInv => StraysUntouched
  BY DEF IInv
<1> QED BY <1>1, Invariance, PTL

(* The part of an object that a step may not take back.                    *)
Kept(o, x) ==
  /\ Settled(o) /\ x.meta.life # "gone" =>
       /\ x.status.ready = o.status.ready
       /\ x.status.certificate = o.status.certificate
  /\ o.meta.requestId # None /\ x.meta.life # "gone" =>
       x.meta.requestId = o.meta.requestId

(* No step takes it back: the worker writes only over a version it read    *)
(* and found open, and everybody else leaves these fields alone.           *)
LEMMA NextKeeps ==
  ASSUME IInv, Next PROVE \A c \in CRs : Kept(obj[c], obj'[c])
<1> USE DEF IInv, Typed
<1>1. \A c \in CRs : Kept(obj[c], obj[c])
  BY DEF Kept
<1>2. CASE UNCHANGED obj
  BY <1>1, <1>2
<1>3. CASE WriteStored \/ WriteLost
  <2>1. /\ pc = "write" /\ base = obj[cur] /\ Current /\ obj' = Stored
    BY <1>3 DEF WriteStored, WriteLost, Current
  <2>2. \A c \in CRs \ {cur} : obj'[c] = obj[c]
    BY <2>1, StoredSound
  <2>3. ~Settled(base) /\ base.meta.requestId \in {None, local.meta.requestId}
    BY <2>1 DEF WorkerSound, Updating, PCs
  <2>4. Kept(obj[cur], obj'[cur])
    BY <2>1, <2>3 DEF Kept, Stored, TypeOK, Object, AnnotationsChanged
  <2> QED BY <1>1, <2>2, <2>4
<1>4. CASE FinalizerRemoved
  BY <1>1, <1>4 DEF FinalizerRemoved, Kept, Blank, TypeOK
<1>5. ASSUME NEW d \in CRs,
             CreateRequest(d) \/ DeleteRequest(d) \/ DenyRequest(d) \/ ApproveRequest(d)
      PROVE  \A c \in CRs : Kept(obj[c], obj'[c])
  <2> DEFINE marked == [obj[d] EXCEPT !.meta.life = "deleting"]
             denied == [obj[d] EXCEPT !.status.denied = TRUE]
             approved == [obj[d] EXCEPT !.status.approved = TRUE]
  <2>1. obj[d] \in Object
    BY DEF TypeOK
  <2>2. /\ Kept(obj[d], marked) /\ Kept(obj[d], denied) /\ Kept(obj[d], approved)
        /\ Kept(obj[d], Blank("gone"))
    BY <2>1 DEF Kept, Blank, Object, Metadata, Status
  <2>3. CreateRequest(d) => Kept(obj[d], Blank("live"))
    <3>1. Blank("gone").meta.life = "gone"
      BY DEF Blank
    <3>2. CreateRequest(d) => obj[d] = Blank("absent")
      BY <3>1 DEF CreateRequest, ObjectsSound, Placed, Present
    <3> QED BY <3>2 DEF Kept, Blank, Settled
  <2>4. PICK o : Kept(obj[d], o) /\ obj' = [obj EXCEPT ![d] = o]
    BY <1>5, <2>2, <2>3 DEF CreateRequest, DeleteRequest, DenyRequest, ApproveRequest
  <2> QED BY <1>1, <2>4 DEF TypeOK
<1>6. ASSUME ApiCall
      PROVE  WriteStored \/ WriteLost \/ FinalizerRemoved \/ UNCHANGED obj
  BY <1>6 DEF ApiCall, WriteConflict, WriteFailed, ParentUpdated, ParentSkipped,
              FinalizerKept
<1>7. ASSUME Environment
      PROVE  \/ UNCHANGED obj
             \/ \E d \in CRs : \/ CreateRequest(d) \/ DeleteRequest(d)
                              \/ DenyRequest(d) \/ ApproveRequest(d)
  BY <1>7
       DEF Environment, InformerStep, ClusterStep, IssuerStep, DeliverCertificate, Deliver,
           Resync, SetIssuing, HorizonDecides, Restart, FreshProcess,
     IssuerRecovers, IssuerUnready, EditIssuer, DeleteIssuer
<1> QED BY <1>2, <1>3, <1>4, <1>5, <1>6, <1>7, StartFrame, HorizonFrame
           DEF Next, WorkerStep

(* Ready=True, Failed and Denied are final.                                *)
THEOREM SettledStays == Spec => SettledIsFinal
<1>1. IInv /\ [Next]_vars =>
        [\A c \in CRs :
           Settled(obj[c]) /\ obj'[c].meta.life # "gone" =>
             /\ obj'[c].status.ready = obj[c].status.ready
             /\ obj'[c].status.certificate = obj[c].status.certificate]_vars
  BY NextKeeps DEF Kept
<1> QED BY <1>1, Invariance, PTL DEF Spec, SettledIsFinal

(* The request-id annotation is written once.                              *)
THEOREM RequestIdStays == Spec => RequestIdIsFinal
<1>1. IInv /\ [Next]_vars =>
        [\A c \in CRs :
           obj[c].meta.requestId # None /\ obj'[c].meta.life # "gone" =>
             obj'[c].meta.requestId = obj[c].meta.requestId]_vars
  BY NextKeeps DEF Kept
<1> QED BY <1>1, Invariance, PTL DEF Spec, RequestIdIsFinal
=============================================================================
