--------------------------- MODULE AftercareProofs --------------------------
(***************************************************************************)
(* What happens to a certificate when its request is deleted: Horizon is   *)
(* asked to revoke it before the object leaves.  This holds of every       *)
(* object with a finalizer; that every object with a certificate has one   *)
(* is true as long as nobody edits revokeCertificates.                     *)
(***************************************************************************)
EXTENDS IssuanceProofs

(* Under an issuer that revokes, whatever is bound to a Horizon request    *)
(* has its finalizer, and so has whatever the worker is about to store.    *)
Guarded ==
  issuer.revoke =>
    /\ \A c \in CRs : obj[c].meta.requestId # None => obj[c].meta.finalizer
    /\ pc \in Updating => local.meta.finalizer

(* The finalizer is removed after Horizon accepted the revocation.         *)
RevokedFirst ==
  pc = "unfinalize" /\ local.status.certificate # None =>
    hz[local.status.certificate].revoking

GInv == LInv /\ Guarded /\ RevokedFirst

(* Nobody but the administrator's edit changes revokeCertificates.         *)
LEMMA RevokeFlagKept ==
  ASSUME "edit" \notin Disturbances, Typed, Next
  PROVE  issuer'.revoke = issuer.revoke
<1>1. ASSUME Environment PROVE issuer'.revoke = issuer.revoke
  BY <1>1 DEF Environment, InformerStep, ClusterStep, IssuerStep, DeliverCertificate,
              Deliver, Resync, CreateRequest, DeleteRequest, DenyRequest, ApproveRequest,
              SetIssuing, HorizonDecides, Restart, FreshProcess, IssuerRecovers,
              IssuerUnready, EditIssuer, DeleteIssuer, Disturbance,
              Typed, TypeOK, Issuer
<1> QED BY <1>1, StartFrame, HorizonFrame, ApiFrame DEF Next, WorkerStep

(* A revocation that was accepted stays so.                                *)
LEMMA RevocationsStay ==
  ASSUME Typed, Next, NEW r \in RequestIds, hz[r].revoking, hz[r].status # "unused"
  PROVE  hz'[r].revoking
<1> USE DEF Typed, TypeOK, HorizonRequest
<1>1. CASE UNCHANGED hz
  BY <1>1
<1>2. ASSUME NEW q \in RequestIds, Submission(q) PROVE hz'[r].revoking
  BY <1>2 DEF Submission, Accept
<1>3. CASE Revoke(local.status.certificate)
  BY <1>3 DEF Revoke
<1>4. ASSUME NEW q \in RequestIds, Decides(q) PROVE hz'[r].revoking
  BY <1>4 DEF Decides
<1> QED BY <1>1, <1>2, <1>3, <1>4, HorizonMoves

(* Stored objects keep their finalizer: the request-id is written in the   *)
(* same call as the finalizer.                                             *)
LEMMA ObjectsGuarded ==
  ASSUME GInv, Next, issuer.revoke
  PROVE  \A c \in CRs : obj'[c].meta.requestId # None => obj'[c].meta.finalizer
<1> USE DEF GInv, LInv, IInv
<1>1. ASSUME NEW c \in CRs, NEW o, obj' = [obj EXCEPT ![c] = o],
             o.meta.requestId # None => o.meta.finalizer
      PROVE  \A d \in CRs : obj'[d].meta.requestId # None => obj'[d].meta.finalizer
  BY <1>1 DEF Guarded, Typed, TypeOK
<1>2. CASE UNCHANGED obj
  BY <1>2 DEF Guarded
<1>3. CASE WriteStored \/ WriteLost
  <2>1. PICK o \in Object :
          obj' = [obj EXCEPT ![cur] = o] /\ o.meta \in {base.meta, local.meta}
    BY <1>3, WriteEffect
  <2>2. cur \in CRs /\ base = obj[cur] /\ pc \in Updating
    BY <1>3, WriteEffect DEF Updating, PCs
  <2> QED BY <1>1, <2>1, <2>2 DEF Guarded
<1>4. CASE FinalizerRemoved
  <2>1. obj' = [obj EXCEPT ![cur] = Blank("gone")] /\ cur \in CRs
    BY <1>4 DEF FinalizerRemoved, Typed
  <2> QED BY <1>1, <2>1 DEF Blank
<1>5. ASSUME NEW c \in CRs,
             \/ CreateRequest(c) \/ DeleteRequest(c)
             \/ DenyRequest(c) \/ ApproveRequest(c)
      PROVE  \A d \in CRs : obj'[d].meta.requestId # None => obj'[d].meta.finalizer
  <2>1. PICK o \in Object :
          /\ obj' = [obj EXCEPT ![c] = o]
          /\ \/ o = Blank("live") \/ o = Blank("gone") \/ o.meta = obj[c].meta
             \/ o.meta = [obj[c].meta EXCEPT !.life = "deleting"]
    BY <1>5, ClusterEffect
  <2>2. obj[c].meta \in Metadata
    BY DEF Typed, TypeOK, Object
  <2>3. CASE o = Blank("live") \/ o = Blank("gone")
    BY <1>1, <2>1, <2>3 DEF Blank
  <2>4. CASE o.meta \in {obj[c].meta, [obj[c].meta EXCEPT !.life = "deleting"]}
    <3>1. /\ o.meta.requestId = obj[c].meta.requestId
          /\ o.meta.finalizer = obj[c].meta.finalizer
      BY <2>2, <2>4 DEF Metadata
    <3> QED BY <1>1, <2>1, <3>1 DEF Guarded
  <2> QED BY <2>1, <2>3, <2>4
<1> QED BY <1>2, <1>3, <1>4, <1>5, ObjectWriters

(* Reconcile registers the finalizer before it does anything else, and no  *)
(* handler takes it away.                                                  *)
LEMMA StartGuarded ==
  ASSUME LInv, issuer.revoke, NEW c \in CRs, ReconcileStart(c), pc' \in Updating
  PROVE  local'.meta.finalizer
<1> USE DEF LInv, IInv
<1> DEFINE o == Prepared(c)
<1>1. cache[c] \in Object /\ o \in Object
  BY PreparedTyped DEF Typed, TypeOK
<1>2. ASSUME Proceeds(c) PROVE o.meta.finalizer
  <2>1. cache[c].meta.life = "live"
    BY <1>2 DEF Proceeds, Reconcilable, BeingDeleted, Present
  <2> QED BY <1>1, <2>1 DEF Prepared, RegisterFinalizer, Object, Metadata
<1>3. /\ MarkDenied(o).meta = o.meta /\ AfterError(o).meta = o.meta
      /\ SetReady(o, "Pending").meta = o.meta
  BY <1>1 DEF MarkDenied, AfterError, SetReady, Object, Status
<1> HIDE DEF o
<1>4. CASE IgnoreRequest(c) \/ MissingIssuer(c) \/ ReadFails(c) \/ StartDeletion(c)
  <2>1. pc' \in {"idle", "revoke"}
    BY <1>4 DEF IgnoreRequest, MissingIssuer, ReadFails, StartDeletion, Begin, vars,
                worker, Dequeue
  <2> QED BY <2>1 DEF Updating
<1>5. CASE ~(IgnoreRequest(c) \/ MissingIssuer(c) \/ ReadFails(c) \/ StartDeletion(c))
  <2>1. /\ Proceeds(c)
        /\ local' \in {o, MarkDenied(o), AfterError(o), SetReady(o, "Pending")}
    BY <1>5 DEF ReconcileStart, ReportDenial, DnsFailure, AlreadyApproved, StartPoll,
                MissingParent, NilIssuing, StartSubmission, StartBareEnrollment,
                NeedsSubmission, Undenied, Begin, o
  <2> QED BY <1>2, <1>3, <2>1
<1> QED BY <1>4, <1>5

LEMMA HorizonCallGuarded ==
  ASSUME Typed, HorizonCall, pc' \in Updating
  PROVE  pc \in Updating /\ local'.meta.finalizer = local.meta.finalizer
<1>1. local \in Object
  BY DEF Typed, TypeOK
<1>2. ASSUME NEW r \in OptionalId
      PROVE  /\ RecordSubmission(local, r).meta.finalizer = local.meta.finalizer
             /\ HandleCompletedRequest(local, r).meta.finalizer = local.meta.finalizer
  BY <1>1 DEF RecordSubmission, HandleCompletedRequest, SetReady, Object, Metadata
<1>3. /\ AfterError(local).meta = local.meta
      /\ AfterError(HandleFailedRequest(local)).meta = local.meta
      /\ HandleDeniedRequest(local).meta = local.meta
      /\ ApproveCompleted(local).meta = local.meta
  BY <1>1 DEF AfterError, HandleFailedRequest, HandleDeniedRequest, ApproveCompleted,
              SetReady, Object, Status
<1>4. Submitting \subseteq Updating /\ "poll" \in Updating /\ "chain" \in Updating
  BY DEF Submitting, Updating, PCs
<1>5. CASE RevokeAccepted \/ RevokeFailed \/ RevokeLost
  BY <1>5 DEF RevokeAccepted, RevokeFailed, RevokeLost, Finish, Updating
<1>6. CASE PollFailed \/ PollPending \/ PollDenied \/ PollCompleted \/ ChainFailed
  BY <1>3, <1>4, <1>6 DEF PollFailed, PollPending, PollDenied, PollCompleted,
                          ChainFailed, Return
<1>7. CASE ChainIsRoot \/ ChainBuilt
  <2>1. local.meta.requestId \in OptionalId /\ None \in OptionalId
    BY <1>1 DEF Object, Metadata, OptionalId
  <2> QED BY <1>2, <1>4, <1>7, <2>1 DEF ChainIsRoot, ChainBuilt, Return
<1>8. ASSUME SubmitFailed \/ \E r \in RequestIds : SubmitAccepted(r) \/ SubmitLost(r)
      PROVE  pc \in Updating /\ local'.meta.finalizer = local.meta.finalizer
  BY <1>2, <1>3, <1>4, <1>8 DEF SubmitFailed, SubmitAccepted, SubmitLost, Return,
                                OptionalId
<1> QED BY <1>5, <1>6, <1>7, <1>8 DEF HorizonCall

(* The writes and the environment leave the object in memory as it is.     *)
LEMMA OthersKeepLocal ==
  ASSUME ApiCall \/ Environment, pc' # "idle"
  PROVE  /\ local' = local /\ cur' = cur /\ base' = base
         /\ pc' = pc \/ (pc = "write" /\ pc' = "parent")
<1>1. ASSUME NEW out, Finish(out) PROVE FALSE
  BY <1>1 DEF Finish
<1>2. ASSUME NEW out, AfterWrite(out) PROVE UNCHANGED <<cur, base, local>> /\ pc' = "parent"
  BY <1>1, <1>2 DEF AfterWrite
<1>3. CASE ApiCall
  BY <1>1, <1>2, <1>3 DEF ApiCall, WriteStored, WriteConflict, WriteFailed, WriteLost,
           ParentUpdated, ParentSkipped, FinalizerRemoved, FinalizerKept
<1>4. CASE Environment
  BY <1>4 DEF Environment, InformerStep, ClusterStep, IssuerStep, DeliverCertificate,
              Deliver, Resync, CreateRequest, DeleteRequest, DenyRequest, ApproveRequest,
              SetIssuing, HorizonDecides, Restart, FreshProcess, IssuerRecovers,
              IssuerUnready, EditIssuer, DeleteIssuer, worker
<1> QED BY <1>3, <1>4

LEMMA GuardedStep ==
  ASSUME "edit" \notin Disturbances, GInv, Next PROVE Guarded'
<1> USE DEF GInv, LInv, IInv
<1>1. issuer'.revoke = issuer.revoke
  BY RevokeFlagKept
<1>2. ASSUME issuer.revoke, pc' \in Updating PROVE local'.meta.finalizer
  <2>1. ASSUME NEW c \in CRs, ReconcileStart(c) PROVE local'.meta.finalizer
    BY <1>2, <2>1, StartGuarded
  <2>2. CASE HorizonCall
    BY <1>2, <2>2, HorizonCallGuarded DEF Guarded
  <2>3. CASE ApiCall \/ Environment
    <3>1. pc' # "idle" /\ "write" \in Updating
      BY <1>2 DEF Updating, PCs
    <3> QED BY <1>2, <2>3, <3>1, OthersKeepLocal DEF Guarded
  <2> QED BY <2>1, <2>2, <2>3 DEF Next, WorkerStep
<1> QED BY <1>1, <1>2, ObjectsGuarded DEF Guarded

LEMMA RevokedFirstStep ==
  ASSUME LInv, RevokedFirst, Next PROVE RevokedFirst'
<1> USE DEF LInv, IInv, Typed
<1> SUFFICES ASSUME pc' = "unfinalize", local'.status.certificate # None
             PROVE  hz'[local'.status.certificate].revoking
  BY DEF RevokedFirst
<1>1. ASSUME NEW c \in CRs, ReconcileStart(c) PROVE FALSE
  BY <1>1 DEF ReconcileStart, IgnoreRequest, MissingIssuer, ReadFails, StartDeletion,
              ReportDenial, DnsFailure, AlreadyApproved, StartPoll, MissingParent,
              NilIssuing, StartSubmission, StartBareEnrollment, Begin, Dequeue, vars,
              worker
<1>2. CASE HorizonCall
  <2>1. RevokeAccepted
    BY <1>2 DEF HorizonCall, SubmitAccepted, SubmitLost, SubmitFailed, PollFailed,
             PollPending, PollDenied, PollCompleted, ChainFailed, ChainIsRoot,
             ChainBuilt, RevokeFailed, RevokeLost, Return, Finish
  <2>2. Revoke(local.status.certificate) /\ local' = local
    BY <2>1 DEF RevokeAccepted
  <2>3. local.status.certificate \in RequestIds
    BY <2>2 DEF TypeOK, Object, Status, OptionalId
  <2> QED BY <2>2, <2>3 DEF Revoke, TypeOK, HorizonRequest
<1>3. CASE ApiCall \/ Environment
  <2>1. pc = "unfinalize" /\ local' = local
    BY <1>3, OthersKeepLocal
  <2>2. PICK r : r = local.status.certificate
    OBVIOUS
  <2>3. r \in RequestIds /\ hz[r].revoking
    BY <2>1, <2>2 DEF RevokedFirst, TypeOK, Object, Status, OptionalId
  <2>4. hz[r].status # "unused"
    BY <2>1, <2>2, <2>3, NoneIsNoId DEF WorkerSound, Sound
  <2> QED BY <2>1, <2>2, <2>3, <2>4, RevocationsStay
<1> QED BY <1>1, <1>2, <1>3 DEF Next, WorkerStep

LEMMA InitGInv == Init => GInv
<1> SUFFICES ASSUME Init PROVE GInv
  OBVIOUS
<1>1. Guarded /\ RevokedFirst
  BY DEF Init, Guarded, RevokedFirst, Blank, Updating
<1> QED BY <1>1, InitLInv DEF GInv

LEMMA NextGInv ==
  ASSUME "edit" \notin Disturbances PROVE GInv /\ [Next]_vars => GInv'
<1> SUFFICES ASSUME GInv, [Next]_vars PROVE GInv'
  OBVIOUS
<1>1. LInv'
  BY NextLInv DEF GInv
<1>2. CASE UNCHANGED vars
  <2>1. Guarded' /\ RevokedFirst'
    BY <1>2 DEF vars, worker, GInv, Guarded, RevokedFirst
  <2> QED BY <1>1, <2>1 DEF GInv
<1>3. CASE Next
  BY <1>1, <1>3, GuardedStep, RevokedFirstStep DEF GInv
<1> QED BY <1>2, <1>3

(* What a removal finds: handleDeletion removes the finalizer after the    *)
(* revocation, and nobody can remove an object that still has one.         *)
LEMMA RemovalFollowsRevocation ==
  ASSUME LInv, RevokedFirst, Next, NEW c \in CRs, obj[c].meta.finalizer,
         obj[c].status.certificate # None, obj'[c].meta.life = "gone"
  PROVE  hz'[obj[c].status.certificate].revoking
<1> USE DEF LInv, IInv, Typed
<1>1. Sound(hz, c, obj[c]) /\ obj[c] \in Object
  BY DEF ObjectsSound, TypeOK
<1>2. obj[c].meta.finalizer
  OBVIOUS
<1>3. obj[c].meta.life \in {"live", "deleting"}
  <2>1. obj[c] # Blank("absent") /\ obj[c] # Blank("gone")
    BY DEF Blank
  <2> QED BY <2>1 DEF ObjectsSound, Placed, Present
<1>4. CASE UNCHANGED obj
  BY <1>3, <1>4
<1>5. CASE WriteStored \/ WriteLost
  <2>1. PICK o \in Object :
          obj' = [obj EXCEPT ![cur] = o] /\ o.meta \in {base.meta, local.meta}
    BY <1>5, WriteEffect
  <2>2. cur \in CRs /\ base = obj[cur] /\ local.meta.life = base.meta.life
    BY <1>5, WriteEffect DEF WorkerSound, Updating, PCs
  <2>3. obj'[c].meta.life = obj[c].meta.life
    BY <2>1, <2>2 DEF TypeOK
  <2> QED BY <1>3, <2>3
<1>6. CASE FinalizerRemoved
  <2>1. /\ cur \in CRs /\ pc = "unfinalize" /\ base = obj[cur] /\ local = base
        /\ obj' = [obj EXCEPT ![cur] = Blank("gone")] /\ UNCHANGED hz
    BY <1>6 DEF FinalizerRemoved, Current, WorkerEdits
  <2>2. c = cur
    BY <1>3, <2>1 DEF TypeOK
  <2> QED BY <2>1, <2>2 DEF RevokedFirst
<1>7. ASSUME NEW d \in CRs,
             \/ CreateRequest(d) \/ DeleteRequest(d)
             \/ DenyRequest(d) \/ ApproveRequest(d)
      PROVE  FALSE
  <2>1. PICK o \in Object :
          /\ obj' = [obj EXCEPT ![d] = o]
          /\ \/ o = Blank("live") \/ ~obj[d].meta.finalizer \/ o.meta = obj[d].meta
             \/ o.meta = [obj[d].meta EXCEPT !.life = "deleting"]
    BY <1>7, ClusterEffect
  <2>2. c = d /\ o.meta.life = "gone" /\ obj[c].meta \in Metadata
    BY <1>1, <1>3, <2>1 DEF TypeOK, Object
  <2>3. Blank("live").meta.life # "gone"
    BY DEF Blank
  <2> QED BY <1>2, <1>3, <2>1, <2>2, <2>3 DEF Metadata
<1> QED BY <1>4, <1>5, <1>6, <1>7, ObjectWriters

(* With GInv, whatever holds a certificate has its finalizer.              *)
LEMMA RemovalIsRevoked ==
  ASSUME GInv, Next, NEW c \in CRs, issuer.revoke, obj[c].status.certificate # None,
         obj'[c].meta.life = "gone"
  PROVE  hz'[obj[c].status.certificate].revoking
<1>1. Sound(hz, c, obj[c])
  BY DEF GInv, LInv, IInv, ObjectsSound
<1>2. obj[c].meta.finalizer
  BY <1>1 DEF Sound, GInv, Guarded
<1> QED BY <1>2, RemovalFollowsRevocation DEF GInv

(* The part of GInv about what managers share, and what a step may not do  *)
(* to it.                                                                  *)
BoundGuarded ==
  issuer.revoke =>
    \A c \in CRs : obj[c].meta.requestId # None => obj[c].meta.finalizer

RevocationsKept ==
  /\ issuer'.revoke = issuer.revoke
  /\ \A r \in RequestIds :
       hz[r].revoking /\ hz[r].status # "unused" => hz'[r].revoking

LEMMA NextKeepsRevocations ==
  ASSUME "edit" \notin Disturbances, GInv, Next
  PROVE  BoundGuarded' /\ RevocationsKept
<1>1. Guarded'
  BY GuardedStep
<1>2. RevocationsKept
  BY RevokeFlagKept, RevocationsStay DEF GInv, LInv, IInv, RevocationsKept
<1> QED BY <1>1, <1>2 DEF Guarded, BoundGuarded

(* Whoever keeps it leaves the invariant of an idle or a busy controller   *)
(* intact.                                                                 *)
LEMMA SharingGuards ==
  ASSUME GInv, UNCHANGED worker, LInv', BoundGuarded', RevocationsKept PROVE GInv'
<1> USE DEF GInv, LInv, IInv, Typed
<1>1. UNCHANGED <<pc, local>>
  BY DEF worker
<1>2. Guarded'
  BY <1>1 DEF Guarded, BoundGuarded, RevocationsKept
<1>3. RevokedFirst'
  <2> SUFFICES ASSUME pc = "unfinalize", local.status.certificate # None
               PROVE  hz'[local.status.certificate].revoking
    BY <1>1 DEF RevokedFirst
  <2>1. PICK r : r = local.status.certificate
    OBVIOUS
  <2>2. r \in RequestIds /\ hz[r].revoking
    BY <2>1 DEF RevokedFirst, TypeOK, Object, Status, OptionalId
  <2>3. hz[r].status # "unused"
    BY <2>1, <2>2, NoneIsNoId DEF WorkerSound, Sound
  <2> QED BY <2>1, <2>2, <2>3 DEF RevocationsKept
<1> QED BY <1>2, <1>3

(* With revokeCertificates set, and left set, an object that holds a       *)
(* certificate leaves the cluster only after Horizon accepted to revoke    *)
(* it: whatever fails on the way and whoever else writes the object, the   *)
(* finalizer was stored before there was a certificate and is removed      *)
(* after the revocation was accepted.                                      *)
THEOREM RevokedOnDeletion ==
  ASSUME "edit" \notin Disturbances PROVE Spec => RevokeOnDeletion
<1> DEFINE Step == \A c \in CRs :
             /\ issuer.revoke /\ obj[c].status.certificate # None
             /\ obj'[c].meta.life = "gone"
             => hz'[obj[c].status.certificate].revoking
<1>1. GInv /\ [Next]_vars => [Step]_vars
  BY RemovalIsRevoked
<1>2. GInv /\ [Next]_vars => GInv'
  BY NextGInv
<1>3. Spec => [][Step]_vars
  <2> HIDE DEF Step
  <2> QED BY <1>1, <1>2, InitGInv, PTL DEF Spec
<1> QED BY <1>3 DEF RevokeOnDeletion

(* Also when revokeCertificates is edited at any time: a finalizer, once   *)
(* stored beside a certificate, is given up only after Horizon accepted    *)
(* the revocation.                                                         *)
THEOREM FinalizerOutlastsRevocation == Spec => RevokedBeforeRemoval
<1> DEFINE Step == \A c \in CRs :
             /\ obj[c].meta.finalizer /\ obj[c].status.certificate # None
             /\ obj'[c].meta.life = "gone"
             => hz'[obj[c].status.certificate].revoking
<1>1. Init => LInv /\ RevokedFirst
  BY InitGInv DEF GInv
<1>2. LInv /\ [Next]_vars => LInv'
  BY NextLInv
<1>3. LInv /\ RevokedFirst /\ [Next]_vars => RevokedFirst'
  <2>1. CASE Next
    BY <2>1, RevokedFirstStep
  <2>2. CASE UNCHANGED vars
    BY <2>2 DEF vars, worker, RevokedFirst
  <2> QED BY <2>1, <2>2
<1>4. LInv /\ RevokedFirst /\ [Next]_vars => [Step]_vars
  BY RemovalFollowsRevocation
<1>5. Spec => [][Step]_vars
  <2> HIDE DEF Step
  <2> QED BY <1>1, <1>2, <1>3, <1>4, PTL DEF Spec
<1> QED BY <1>5 DEF RevokedBeforeRemoval
=============================================================================
