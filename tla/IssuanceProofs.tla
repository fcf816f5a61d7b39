--------------------------- MODULE IssuanceProofs ---------------------------
(***************************************************************************)
(* The CertificateRequest controller implements Issuance, for every set of *)
(* requests, identifiers and Certificates and every budget of disturbances.*)
(*                                                                         *)
(* IInv of CertificateRequestProofs says that every copy of an object is   *)
(* sound.  The refinement needs to know more: how far a copy lags behind   *)
(* the stored object, by what the worker's edits differ from what it read, *)
(* and what Horizon holds of an identifier it has not handed out.          *)
(***************************************************************************)
EXTENDS CertificateRequestProofs

-----------------------------------------------------------------------------
(* The invariant.                                                          *)

(* The copy o of an object whose stored state is s is an earlier state of  *)
(* it: the life goes one way, and a request-id is never replaced.          *)
Lags(o, s) ==
  /\ o.meta.life # "absent" => s.meta.life # "absent"
  /\ o.meta.life \in {"deleting", "gone"} => s.meta.life \in {o.meta.life, "gone"}
  /\ o.meta.requestId # None =>
       s.meta.life = "gone" \/ s.meta.requestId = o.meta.requestId

Undecided(o) == ~o.status.approved /\ ~o.status.denied

(* What the worker may make of a request while somebody has decided on it: *)
(* it neither binds nor decides nor issues nor fails it.                   *)
KeepsDecision(o, x) ==
  /\ x.meta.requestId = o.meta.requestId
  /\ x.status.approved = o.status.approved
  /\ x.status.denied = o.status.denied
  /\ x.status.ready \notin {"Issued", "Failed"}

(* The edits x of the copy o that the deferred function may find.          *)
Edits(o, x) ==
  /\ Undecided(o) \/ KeepsDecision(o, x)
  /\ x.status.ready = "Failed" => Undecided(x)
  /\ x.status.ready = "Denied" => o.status.denied
  /\ x.status.ready # "Issued" => x.status.certificate = o.status.certificate
  /\ x.meta.certificateId # None => x.meta.requestId = o.meta.requestId

(* What the worker holds, at each of its calls.                            *)
WorkerEdits ==
  /\ pc # "idle" => Lags(base, obj[cur])
  /\ pc \in {"revoke", "unfinalize"} => local = base /\ base.meta.life = "deleting"
  /\ pc \in Updating => Edits(base, local)
  /\ pc \in Submitting \cup {"poll", "chain"} => Undecided(base) /\ ~Settled(local)
  /\ pc \in Submitting => Undecided(local)
  /\ pc \in {"poll", "chain"} => local.meta.requestId = base.meta.requestId

CachesLag == \A c \in CRs : Lags(cache[c], obj[c])

(* An identifier is blank, or it was given to a submission for a request.  *)
RecordsKept ==
  \A r \in RequestIds :
    IF hz[r].status = "unused" THEN hz[r] = NoRequest ELSE hz[r].owner \in CRs

LInv == IInv /\ CachesLag /\ WorkerEdits /\ RecordsKept

-----------------------------------------------------------------------------
(* How stored objects change.                                              *)

(* Four parties write objects: the deferred function, handleDeletion,      *)
(* cert-manager and the approvers.                                         *)
LEMMA ObjectWriters ==
  ASSUME Next
  PROVE  \/ UNCHANGED obj
         \/ WriteStored \/ WriteLost \/ FinalizerRemoved
         \/ \E c \in CRs : \/ CreateRequest(c) \/ DeleteRequest(c)
                           \/ DenyRequest(c) \/ ApproveRequest(c)
<1>1. ASSUME ApiCall
      PROVE  WriteStored \/ WriteLost \/ FinalizerRemoved \/ UNCHANGED obj
  BY <1>1 DEF ApiCall, WriteConflict, WriteFailed, ParentUpdated, ParentSkipped,
              FinalizerKept
<1>2. ASSUME Environment
      PROVE  \/ UNCHANGED obj
             \/ \E c \in CRs : \/ CreateRequest(c) \/ DeleteRequest(c)
                               \/ DenyRequest(c) \/ ApproveRequest(c)
  BY <1>2 DEF Environment, InformerStep, ClusterStep, IssuerStep, DeliverCertificate, Deliver, Resync,
              SetIssuing, HorizonDecides, Restart, FreshProcess, IssuerRecovers,
              IssuerUnready, EditIssuer, DeleteIssuer
<1> QED BY <1>1, <1>2, StartFrame, HorizonFrame DEF Next, WorkerStep

(* A write over the version that was read stores one half of the edited    *)
(* object and leaves the other half, and all other objects, alone.         *)
LEMMA WriteEffect ==
  ASSUME IInv, WriteStored \/ WriteLost
  PROVE  /\ pc = "write" /\ cur \in CRs /\ base = obj[cur]
         /\ base \in Object /\ local \in Object /\ UNCHANGED hz
         /\ \E o \in Object :
              /\ obj' = [obj EXCEPT ![cur] = o]
              /\ \/ /\ AnnotationsChanged(base, local)
                    /\ o = [meta |-> local.meta, status |-> base.status]
                 \/ /\ ~AnnotationsChanged(base, local)
                    /\ o = [meta |-> base.meta, status |-> local.status]
<1> USE DEF IInv, Typed
<1>1. /\ pc = "write" /\ base = obj[cur] /\ obj' = Stored /\ UNCHANGED hz
  BY DEF WriteStored, WriteLost, Current
<1>2. cur \in CRs /\ base \in Object /\ local \in Object /\ obj \in [CRs -> Object]
  BY <1>1 DEF TypeOK
<1>3. CASE AnnotationsChanged(base, local)
  <2> DEFINE o == [meta |-> local.meta, status |-> base.status]
  <2>1. o \in Object
    BY <1>2 DEF Object
  <2>2. [obj[cur] EXCEPT !.meta = local.meta] = o
    BY <1>1, <1>2 DEF Object
  <2>3. obj' = [obj EXCEPT ![cur] = o]
    BY <1>1, <1>2, <1>3, <2>2 DEF Stored
  <2> QED BY <1>1, <1>2, <1>3, <2>1, <2>3
<1>4. CASE ~AnnotationsChanged(base, local)
  <2> DEFINE o == [meta |-> base.meta, status |-> local.status]
  <2>1. o \in Object
    BY <1>2 DEF Object
  <2>2. [obj[cur] EXCEPT !.status = local.status] = o
    BY <1>1, <1>2 DEF Object
  <2>3. obj' = [obj EXCEPT ![cur] = o]
    BY <1>1, <1>2, <1>4, <2>2 DEF Stored
  <2> QED BY <1>1, <1>2, <1>4, <2>1, <2>3
<1> QED BY <1>3, <1>4

(* What cert-manager and the approvers make of an object.                  *)
LEMMA ClusterEffect ==
  ASSUME Typed, NEW c \in CRs,
         \/ CreateRequest(c) \/ DeleteRequest(c)
         \/ DenyRequest(c) \/ ApproveRequest(c)
  PROVE  /\ UNCHANGED <<cache, known, worker, hz, parent, issuer>>
         /\ obj[c] \in Object
         /\ \E o \in Object :
              /\ obj' = [obj EXCEPT ![c] = o]
              /\ \/ /\ CreateRequest(c) /\ obj[c].meta.life = "absent"
                    /\ o = Blank("live")
                 \/ /\ DeleteRequest(c) /\ obj[c].meta.life = "live"
                    /\ ~obj[c].meta.finalizer /\ o = Blank("gone")
                 \/ /\ DeleteRequest(c) /\ obj[c].meta.life = "live"
                    /\ o.meta = [obj[c].meta EXCEPT !.life = "deleting"]
                    /\ o.status = obj[c].status
                 \/ /\ DenyRequest(c) /\ Present(obj[c]) /\ Undecided(obj[c])
                    /\ o.meta = obj[c].meta
                    /\ o.status = [obj[c].status EXCEPT !.denied = TRUE]
                 \/ /\ ApproveRequest(c) /\ Present(obj[c]) /\ Undecided(obj[c])
                    /\ o.meta = obj[c].meta
                    /\ o.status = [obj[c].status EXCEPT !.approved = TRUE]
<1> DEFINE marked == [obj[c] EXCEPT !.meta.life = "deleting"]
           denied == [obj[c] EXCEPT !.status.denied = TRUE]
           approved == [obj[c] EXCEPT !.status.approved = TRUE]
<1>1. obj[c] \in Object
  BY DEF Typed, TypeOK
<1>2. /\ marked \in Object /\ marked.status = obj[c].status
      /\ marked.meta = [obj[c].meta EXCEPT !.life = "deleting"]
  BY <1>1 DEF Object, Metadata, Life
<1>3. /\ denied \in Object /\ denied.meta = obj[c].meta
      /\ denied.status = [obj[c].status EXCEPT !.denied = TRUE]
  BY <1>1 DEF Object, Status
<1>4. /\ approved \in Object /\ approved.meta = obj[c].meta
      /\ approved.status = [obj[c].status EXCEPT !.approved = TRUE]
  BY <1>1 DEF Object, Status
<1>5. Blank("live") \in Object /\ Blank("gone") \in Object
  BY BlankTyped DEF Life
<1>6. UNCHANGED <<cache, known, worker, hz, parent, issuer>>
  BY DEF CreateRequest, DeleteRequest, DenyRequest, ApproveRequest
<1>7. CASE CreateRequest(c)
  BY <1>1, <1>5, <1>6, <1>7 DEF CreateRequest
<1>8. CASE DeleteRequest(c)
  <2>1. /\ obj[c].meta.life = "live"
        /\ \/ ~obj[c].meta.finalizer /\ obj' = [obj EXCEPT ![c] = Blank("gone")]
           \/ obj' = [obj EXCEPT ![c] = marked]
    BY <1>8 DEF DeleteRequest
  <2> HIDE DEF marked
  <2> QED BY <1>1, <1>2, <1>5, <1>6, <1>8, <2>1
<1>9. CASE DenyRequest(c)
  <2>1. /\ Present(obj[c]) /\ Undecided(obj[c]) /\ obj' = [obj EXCEPT ![c] = denied]
    BY <1>9 DEF DenyRequest, Undecided
  <2> HIDE DEF denied
  <2> QED BY <1>1, <1>3, <1>6, <1>9, <2>1
<1>10. CASE ApproveRequest(c)
  <2>1. /\ Present(obj[c]) /\ Undecided(obj[c]) /\ obj' = [obj EXCEPT ![c] = approved]
    BY <1>10 DEF ApproveRequest, Undecided
  <2> HIDE DEF approved
  <2> QED BY <1>1, <1>4, <1>6, <1>10, <2>1
<1> QED BY <1>7, <1>8, <1>9, <1>10

(* Being an earlier state is a preorder.                                   *)
LEMMA LagsComposes ==
  ASSUME NEW o, NEW s, NEW x, Lags(o, s), Lags(s, x) PROVE Lags(o, x)
  BY DEF Lags

(* No step turns an object back.                                           *)
LEMMA NextAges ==
  ASSUME IInv, Next PROVE \A c \in CRs : Lags(obj[c], obj'[c])
<1> USE DEF IInv
<1>1. \A o : Lags(o, o)
  BY DEF Lags
<1>2. ASSUME NEW o \in Object PROVE Lags(o, Blank("gone"))
  BY DEF Lags, Blank
<1>3. ASSUME NEW c \in CRs, NEW o, obj' = [obj EXCEPT ![c] = o], Lags(obj[c], o)
      PROVE  \A d \in CRs : Lags(obj[d], obj'[d])
  BY <1>1, <1>3 DEF Typed, TypeOK
<1>4. CASE WriteStored \/ WriteLost
  <2>1. PICK o \in Object :
          /\ obj' = [obj EXCEPT ![cur] = o]
          /\ o.meta \in {base.meta, local.meta}
    BY <1>4, WriteEffect
  <2>2. /\ cur \in CRs /\ base = obj[cur] /\ local.meta.life = base.meta.life
        /\ base.meta.requestId \in {None, local.meta.requestId}
    BY <1>4, WriteEffect DEF WorkerSound, Updating, PCs
  <2>3. Lags(obj[cur], o)
    BY <2>1, <2>2 DEF Lags
  <2> QED BY <1>3, <2>1, <2>2, <2>3
<1>5. CASE FinalizerRemoved
  BY <1>2, <1>3, <1>5 DEF FinalizerRemoved, Typed, TypeOK
<1>6. ASSUME NEW c \in CRs,
             \/ CreateRequest(c) \/ DeleteRequest(c)
             \/ DenyRequest(c) \/ ApproveRequest(c)
      PROVE  \A d \in CRs : Lags(obj[d], obj'[d])
  <2>1. obj[c] \in Object /\ obj[c].meta \in Metadata
    BY DEF Typed, TypeOK, Object
  <2>2. obj[c].meta.life = "absent" => obj[c].meta.requestId = None
    <3>1. Blank("gone").meta.life = "gone" /\ Blank("absent").meta.requestId = None
      BY DEF Blank
    <3> QED BY <3>1 DEF ObjectsSound, Placed, Present
  <2>3. PICK o \in Object :
          /\ obj' = [obj EXCEPT ![c] = o]
          /\ \/ obj[c].meta.life = "absent" /\ o = Blank("live")
             \/ o = Blank("gone")
             \/ /\ obj[c].meta.life = "live"
                /\ o.meta = [obj[c].meta EXCEPT !.life = "deleting"]
             \/ o.meta = obj[c].meta
    BY <1>6, ClusterEffect
  <2>4. CASE obj[c].meta.life = "absent" /\ o = Blank("live")
    BY <1>3, <2>2, <2>3, <2>4 DEF Lags, Blank
  <2>5. CASE o = Blank("gone")
    BY <1>2, <1>3, <2>1, <2>3, <2>5
  <2>6. CASE o.meta = [obj[c].meta EXCEPT !.life = "deleting"] /\ obj[c].meta.life = "live"
    <3>1. o.meta.life = "deleting" /\ o.meta.requestId = obj[c].meta.requestId
      BY <2>1, <2>6 DEF Metadata
    <3> QED BY <1>3, <2>3, <2>6, <3>1 DEF Lags
  <2>7. CASE o.meta = obj[c].meta
    BY <1>3, <2>3, <2>7 DEF Lags
  <2> QED BY <2>3, <2>4, <2>5, <2>6, <2>7
<1> QED BY <1>1, <1>4, <1>5, <1>6, ObjectWriters

(* Copies stay behind, and a copy that is renewed is no later than the     *)
(* object.                                                                 *)
LEMMA CachesStep ==
  ASSUME LInv, Next PROVE CachesLag'
<1> USE DEF LInv, IInv
<1>1. \A c \in CRs : Lags(obj[c], obj'[c])
  BY NextAges
<1>2. \A c \in CRs : Lags(cache[c], obj'[c])
  BY <1>1, LagsComposes DEF CachesLag
<1>3. ASSUME NEW c \in CRs PROVE cache'[c] = cache[c] \/ cache'[c] = obj'[c]
  <2>1. CASE UNCHANGED cache
    BY <2>1
  <2>2. ASSUME NEW d \in CRs, Deliver(d) PROVE cache'[c] \in {cache[c], obj'[c]}
    BY <2>2 DEF Deliver, Typed, TypeOK
  <2>3. CASE Restart
    BY <2>3 DEF Restart, FreshProcess
  <2>4. ASSUME Environment
        PROVE  UNCHANGED cache \/ Restart \/ \E d \in CRs : Deliver(d)
    BY <2>4 DEF Environment, InformerStep, ClusterStep, IssuerStep, DeliverCertificate, Resync,
                CreateRequest, DeleteRequest, DenyRequest, ApproveRequest,
                SetIssuing, HorizonDecides, IssuerRecovers, IssuerUnready,
                EditIssuer, DeleteIssuer
  <2> QED BY <2>1, <2>2, <2>3, <2>4, StartFrame, HorizonFrame, ApiFrame
             DEF Next, WorkerStep
<1>4. \A o : Lags(o, o)
  BY DEF Lags
<1> QED BY <1>2, <1>3, <1>4 DEF CachesLag

(* Horizon hands out a blank identifier, and touches no other blank one.   *)
LEMMA RecordsStep ==
  ASSUME LInv, Next PROVE RecordsKept'
<1> USE DEF LInv, IInv, Typed
<1>1. CASE UNCHANGED hz
  BY <1>1 DEF RecordsKept
<1>2. ASSUME NEW r \in RequestIds, pc \in Submitting, Submission(r) PROVE RecordsKept'
  <2>1. cur \in CRs
    BY <1>2 DEF Submitting
  <2>2. /\ \A q \in RequestIds \ {r} : hz'[q] = hz[q]
        /\ hz'[r].owner = cur /\ hz'[r].status = "pending"
    BY <1>2 DEF Submission, Accept, TypeOK
  <2> QED BY <2>1, <2>2 DEF RecordsKept
<1>3. CASE pc = "revoke" /\ Revoke(local.status.certificate)
  <2> DEFINE r == local.status.certificate
  <2>1. \A q \in RequestIds \ {r} : hz'[q] = hz[q]
    BY <1>3 DEF Revoke
  <2>2. ASSUME r \in RequestIds PROVE hz'[r].status # "unused" /\ hz'[r].owner \in CRs
    <3>1. Sound(hz, cur, local)
      BY <1>3 DEF WorkerSound
    <3>2. hz[r].status = "completed" /\ hz[r].owner \in CRs
      BY <2>2, <3>1, NoneIsNoId DEF Sound, RecordsKept
    <3> QED BY <1>3, <2>2, <3>2 DEF Revoke, TypeOK, HorizonRequest
  <2> QED BY <2>1, <2>2 DEF RecordsKept
<1>4. ASSUME NEW r \in RequestIds, Decides(r) PROVE RecordsKept'
  <2>1. PICK next \in RequestStatus \ {"unused"} :
          hz' = [hz EXCEPT ![r].status = next] /\ hz[r].status # "unused"
    BY <1>4 DEF Decides, RequestStatus
  <2> QED BY <2>1 DEF RecordsKept, TypeOK, HorizonRequest
<1> QED BY <1>1, <1>2, <1>3, <1>4, HorizonMoves

-----------------------------------------------------------------------------
(* What the worker makes of the object it read.                            *)

(* The branches of Reconcile up to its first call: a request that somebody *)
(* decided on goes straight to the deferred function.                      *)
LEMMA StartEdits ==
  ASSUME LInv, NEW c \in CRs, ReconcileStart(c) PROVE WorkerEdits'
<1> USE DEF LInv, IInv, Typed
<1> DEFINE o == Prepared(c)
<1>1. cache[c] \in Object /\ o \in Object /\ Lags(cache[c], obj[c]) /\ UNCHANGED obj
  BY PreparedTyped, StartFrame DEF CachesLag, TypeOK
<1>2. /\ o.meta.requestId = cache[c].meta.requestId
      /\ o.meta.certificateId = cache[c].meta.certificateId
      /\ o.status = cache[c].status
  BY <1>1 DEF Prepared, RegisterFinalizer, Object, Metadata
<1>3. CASE IgnoreRequest(c) \/ MissingIssuer(c) \/ ReadFails(c)
  <2>1. UNCHANGED pc /\ pc = "idle"
    BY <1>3 DEF IgnoreRequest, MissingIssuer, ReadFails, vars, worker, Dequeue
  <2> QED BY <2>1 DEF WorkerEdits, Updating, Submitting
<1>4. CASE StartDeletion(c)
  <2>1. /\ pc' = "revoke" /\ cur' = c /\ base' = cache[c] /\ local' = cache[c]
        /\ cache[c].meta.life = "deleting"
    BY <1>4 DEF StartDeletion, Begin, BeingDeleted
  <2> QED BY <1>1, <2>1 DEF WorkerEdits, Updating, Submitting
<1>5. ASSUME NEW p \in Updating, NEW x, NEW out, Begin(c, p, x, out), Proceeds(c),
             SameButReady(o, x),
             x.status.ready \notin {"Issued", "Failed"},
             x.status.ready = "Denied" => p = "write" /\ cache[c].status.denied,
             p # "write" => Undecided(cache[c])
      PROVE  WorkerEdits'
  <2>1. pc' = p /\ cur' = c /\ base' = cache[c] /\ local' = x
    BY <1>5 DEF Begin
  <2>2. /\ x.meta.requestId = cache[c].meta.requestId
        /\ x.meta.certificateId = cache[c].meta.certificateId
        /\ x.status.approved = cache[c].status.approved
        /\ x.status.denied = cache[c].status.denied
        /\ x.status.certificate = cache[c].status.certificate
    BY <1>2, <1>5 DEF SameButReady
  <2>3. Edits(cache[c], x)
    BY <1>5, <2>2 DEF Edits, KeepsDecision
  <2>4. p # "write" => /\ Undecided(cache[c]) /\ Undecided(x) /\ ~Settled(x)
    BY <1>5, <2>2 DEF Undecided, Settled
  <2>5. "write" \notin Submitting \cup {"poll", "chain"}
    BY DEF Submitting
  <2>6. p \notin {"revoke", "unfinalize"}
    BY DEF Updating
  <2> QED BY <1>1, <2>1, <2>2, <2>3, <2>4, <2>5, <2>6 DEF WorkerEdits
<1>6. "write" \in Updating /\ "poll" \in Updating /\ Submitting \subseteq Updating
  BY DEF Updating, Submitting, PCs
<1>7. ASSUME Proceeds(c)
      PROVE  /\ o.status.ready \notin {"Issued", "Failed", "Denied"}
             /\ SameButReady(o, o)
             /\ SameButReady(o, AfterError(o)) /\ AfterError(o).status.ready = "Pending"
             /\ SameButReady(o, MarkDenied(o)) /\ MarkDenied(o).status.ready = "Denied"
             /\ SameButReady(o, SetReady(o, "Pending"))
             /\ SetReady(o, "Pending").status.ready = "Pending"
  <2>1. o.status.ready \notin {"Issued", "Failed", "Denied"}
    BY <1>2, <1>7 DEF Proceeds, Settled
  <2>2. ~o.status.invalid
    BY <1>2, <2>1 DEF ObjectsSound, Sound
  <2>3. SameButReady(o, o)
    BY DEF SameButReady
  <2> QED BY <1>1, <2>1, <2>2, <2>3, ReadyFields
<1> HIDE DEF o
<1>8. CASE ReportDenial(c)
  <2>1. /\ Proceeds(c) /\ Begin(c, "write", MarkDenied(o), "done")
        /\ cache[c].status.denied
    BY <1>8 DEF ReportDenial, o
  <2> QED BY <1>5, <1>6, <1>7, <2>1
<1>9. CASE DnsFailure(c) \/ MissingParent(c)
  <2>1. Proceeds(c) /\ Begin(c, "write", AfterError(o), "error")
    BY <1>9 DEF DnsFailure, MissingParent, NeedsSubmission, Undenied, o
  <2> QED BY <1>5, <1>6, <1>7, <2>1
<1>10. CASE AlreadyApproved(c) \/ NilIssuing(c)
  <2>1. Proceeds(c) /\ \E out \in Outcomes : Begin(c, "write", o, out)
    BY <1>10 DEF AlreadyApproved, NilIssuing, NeedsSubmission, Undenied, Outcomes, o
  <2> QED BY <1>5, <1>6, <1>7, <2>1
<1>11. CASE StartPoll(c)
  <2>1. Proceeds(c) /\ Begin(c, "poll", o, "done") /\ Undecided(cache[c])
    BY <1>11 DEF StartPoll, Undenied, Undecided, o
  <2> QED BY <1>5, <1>6, <1>7, <2>1
<1>12. CASE StartSubmission(c) \/ StartBareEnrollment(c)
  <2>1. Proceeds(c) /\ Undecided(cache[c])
    BY <1>12 DEF StartSubmission, StartBareEnrollment, NeedsSubmission, Undenied,
                 Undecided
  <2>2. \E p \in Submitting, x \in {o, SetReady(o, "Pending")} : Begin(c, p, x, "done")
    BY <1>12 DEF StartSubmission, StartBareEnrollment, Submitting, o
  <2> QED BY <1>5, <1>6, <1>7, <2>1, <2>2
<1> QED BY <1>3, <1>4, <1>8, <1>9, <1>10, <1>11, <1>12 DEF ReconcileStart

(* What the handlers make of Horizon's answers.                            *)
LEMMA HorizonCallEdits ==
  ASSUME LInv, HorizonCall PROVE WorkerEdits'
<1> USE DEF LInv, IInv, Typed
<1>1. base \in Object /\ local \in Object /\ UNCHANGED obj
  BY HorizonFrame DEF TypeOK
<1>2. pc \in Submitting \cup {"poll", "chain", "revoke"} /\ pc # "idle"
  BY DEF HorizonCall, SubmitAccepted, SubmitLost, SubmitFailed, PollFailed,
         PollPending, PollDenied, PollCompleted, ChainFailed, ChainIsRoot,
         ChainBuilt, RevokeAccepted, RevokeFailed, RevokeLost, Submitting
<1>3. Lags(base, obj[cur]) /\ Sound(hz, cur, local) /\ Sound(hz, cur, base)
  BY <1>2 DEF WorkerEdits, WorkerSound
<1>4. ASSUME NEW x, NEW out, Return(x, out), Edits(base, x) PROVE WorkerEdits'
  <2>1. pc' = "write" /\ local' = x /\ UNCHANGED <<cur, base>>
    BY <1>4 DEF Return
  <2> QED BY <1>1, <1>3, <1>4, <2>1 DEF WorkerEdits, Updating, Submitting
<1>5. Submitting \cup {"poll", "chain"} \subseteq Updating
  BY DEF Updating, Submitting, PCs
<1>6. ASSUME pc \in Submitting \cup {"poll", "chain"}
      PROVE  /\ Undecided(base) /\ ~Settled(local) /\ local.status.invalid = FALSE
             /\ local.status.certificate = base.status.certificate
             /\ local.meta.certificateId # None =>
                  local.meta.requestId = base.meta.requestId
  <2>1. Undecided(base) /\ ~Settled(local) /\ Edits(base, local)
    BY <1>5, <1>6 DEF WorkerEdits
  <2>2. local.status.ready \notin {"Issued", "Failed"}
    BY <2>1 DEF Settled
  <2>3. local.status.invalid = FALSE
    BY <1>1, <1>3, <2>2 DEF Sound, Object, Status
  <2> QED BY <2>1, <2>2, <2>3 DEF Edits
<1>7. ASSUME pc \in Submitting \cup {"poll", "chain"}, NEW x,
             x.status.ready \notin {"Issued", "Denied"},
             x.status.ready = "Failed" => Undecided(x),
             x.status.certificate = local.status.certificate,
             x.meta.certificateId = local.meta.certificateId,
             x.meta.certificateId # None => x.meta.requestId = local.meta.requestId
      PROVE  Edits(base, x)
  BY <1>6, <1>7 DEF Edits
<1>8. ASSUME NEW r \in RequestIds, SubmitAccepted(r) PROVE WorkerEdits'
  <2> DEFINE x == RecordSubmission(local, r)
  <2>1. pc \in Submitting /\ Return(x, "done")
    BY <1>8 DEF SubmitAccepted
  <2>2. local.meta.certificateId = None
    BY <1>3, <2>1 DEF WorkerSound, Sound
  <2>3. /\ x.status.ready = "Pending"
        /\ x.status.certificate = local.status.certificate
        /\ x.meta.certificateId = local.meta.certificateId
    BY <1>1 DEF RecordSubmission, SetReady, Object, Metadata, Status
  <2> HIDE DEF x
  <2> QED BY <1>4, <1>7, <2>1, <2>2, <2>3
<1>9. ASSUME SubmitFailed \/ \E r \in RequestIds : SubmitLost(r) PROVE WorkerEdits'
  <2> DEFINE y == HandleFailedRequest(local)
             x == AfterError(y)
  <2>1. pc \in Submitting /\ Return(x, "error")
    BY <1>9 DEF SubmitFailed, SubmitLost
  <2>2. /\ y \in Object /\ y.meta = local.meta /\ y.status.invalid
        /\ y.status.approved = local.status.approved
        /\ y.status.denied = local.status.denied
        /\ y.status.certificate = local.status.certificate
    BY <1>1, HandlersTyped DEF HandleFailedRequest, Object, Status, OptionalId
  <2> HIDE DEF y
  <2>3. x.status.ready = "Failed" /\ SameButReady(y, x)
    BY <2>2, ReadyFields
  <2>4. Undecided(local)
    BY <2>1 DEF WorkerEdits
  <2> HIDE DEF x
  <2>5. Undecided(x) /\ x.meta = local.meta
        /\ x.status.certificate = local.status.certificate
    BY <2>2, <2>3, <2>4 DEF SameButReady, Undecided
  <2> QED BY <1>4, <1>7, <2>1, <2>3, <2>5
<1>10. CASE PollFailed \/ ChainFailed
  <2> DEFINE x == AfterError(local)
  <2>1. pc \in {"poll", "chain"} /\ Return(x, "error")
    BY <1>10 DEF PollFailed, ChainFailed
  <2>2. SameButReady(local, x) /\ x.status.ready = "Pending"
    BY <1>1, <1>6, <2>1, ReadyFields
  <2> HIDE DEF x
  <2> QED BY <1>4, <1>7, <2>1, <2>2 DEF SameButReady
<1>11. CASE PollPending \/ ChainIsRoot
  <2>1. pc \in {"poll", "chain"} /\ \E out \in Outcomes : Return(local, out)
    BY <1>11 DEF PollPending, ChainIsRoot, HandleCompletedRequest, Outcomes
  <2>2. local.status.ready \notin {"Issued", "Denied", "Failed"}
    BY <1>6, <2>1 DEF Settled
  <2> QED BY <1>4, <1>7, <2>1, <2>2
<1>12. CASE PollDenied
  <2> DEFINE x == HandleDeniedRequest(local)
  <2>1. pc = "poll" /\ Return(x, "done")
    BY <1>12 DEF PollDenied
  <2>2. /\ x.meta = local.meta /\ x.status.ready = local.status.ready
        /\ x.status.certificate = local.status.certificate
    BY <1>1 DEF HandleDeniedRequest, Object, Status
  <2>3. local.status.ready \notin {"Issued", "Denied", "Failed"}
    BY <1>6, <2>1 DEF Settled
  <2> HIDE DEF x
  <2> QED BY <1>4, <1>7, <2>1, <2>2, <2>3
<1>13. CASE PollCompleted
  <2> DEFINE x == ApproveCompleted(local)
  <2>1. /\ pc = "poll" /\ pc' = "chain" /\ local' = x /\ UNCHANGED <<cur, base>>
    BY <1>13 DEF PollCompleted
  <2>2. /\ x.meta = local.meta /\ x.status.ready = local.status.ready
        /\ x.status.certificate = local.status.certificate
    BY <1>1 DEF ApproveCompleted, Object, Status
  <2>3. /\ local.status.ready \notin {"Issued", "Denied", "Failed"}
        /\ Undecided(base) /\ local.meta.requestId = base.meta.requestId
    BY <1>6, <2>1 DEF Settled, WorkerEdits
  <2> HIDE DEF x
  <2>4. Edits(base, x) /\ ~Settled(x)
    BY <1>7, <2>1, <2>2, <2>3 DEF Settled
  <2> QED BY <1>1, <1>3, <2>1, <2>2, <2>3, <2>4 DEF WorkerEdits, Updating, Submitting
<1>14. CASE ChainBuilt
  <2> DEFINE r == local.meta.requestId
             x == HandleCompletedRequest(local, r)
  <2>1. pc = "chain" /\ Return(x, "done") /\ r # None
    BY <1>14 DEF ChainBuilt, WorkerSound
  <2>2. x.status.ready = "Issued" /\ x.meta.requestId = r
    BY <1>1, <2>1 DEF HandleCompletedRequest, SetReady, Object, Metadata, Status
  <2>3. Undecided(base) /\ r = base.meta.requestId
    BY <2>1 DEF WorkerEdits
  <2> HIDE DEF x
  <2>4. Edits(base, x)
    BY <2>2, <2>3 DEF Edits
  <2> QED BY <1>4, <2>1, <2>4
<1>15. CASE RevokeAccepted
  <2>1. pc = "revoke" /\ pc' = "unfinalize" /\ UNCHANGED <<cur, base, local>>
    BY <1>15 DEF RevokeAccepted
  <2> QED BY <1>1, <1>3, <2>1 DEF WorkerEdits, Updating, Submitting
<1>16. CASE RevokeFailed \/ RevokeLost
  <2>1. pc' = "idle"
    BY <1>16 DEF RevokeFailed, RevokeLost, Finish
  <2> QED BY <2>1 DEF WorkerEdits, Updating, Submitting
<1> QED BY <1>8, <1>9, <1>10, <1>11, <1>12, <1>13, <1>14, <1>15, <1>16 DEF HorizonCall

(* The writes end the reconciliation, or leave the parent to be updated.   *)
LEMMA ApiCallEdits ==
  ASSUME LInv, Next, ApiCall PROVE WorkerEdits'
<1> USE DEF LInv, IInv, Typed
<1>1. ASSUME NEW out, Finish(out) PROVE WorkerEdits'
  BY <1>1 DEF Finish, WorkerEdits, Updating, Submitting
<1>2. ASSUME NEW out, pc = "write", AfterWrite(out) PROVE WorkerEdits'
  <2>1. CASE local.meta.certificateId = None
    BY <1>1, <1>2, <2>1 DEF AfterWrite
  <2>2. CASE local.meta.certificateId # None
    <3>1. pc' = "parent" /\ UNCHANGED <<cur, base, local>> /\ cur \in CRs
      BY <1>2, <2>2 DEF AfterWrite
    <3>2. Lags(base, obj[cur]) /\ Edits(base, local)
      BY <1>2 DEF WorkerEdits, Updating, PCs
    <3>3. Lags(base, obj'[cur])
      BY <3>1, <3>2, NextAges, LagsComposes
    <3> QED BY <3>1, <3>2, <3>3 DEF WorkerEdits, Submitting, Updating
  <2> QED BY <2>1, <2>2
<1> QED BY <1>1, <1>2 DEF ApiCall, WriteStored, WriteConflict, WriteFailed, WriteLost,
           ParentUpdated, ParentSkipped, FinalizerRemoved, FinalizerKept

(* Whoever else writes the objects leaves the worker's edits as they are.  *)
LEMMA OthersKeepEdits ==
  ASSUME LInv, UNCHANGED worker, \A c \in CRs : Lags(obj[c], obj'[c])
  PROVE  WorkerEdits'
<1> USE DEF LInv, IInv, Typed
<1>1. UNCHANGED <<pc, cur, base, local>>
  BY DEF worker
<1>2. pc # "idle" => Lags(base, obj'[cur])
  BY LagsComposes DEF WorkerEdits
<1> QED BY <1>1, <1>2 DEF WorkerEdits

(* The environment leaves the worker alone, or ends it.                    *)
LEMMA EnvironmentEdits ==
  ASSUME LInv, Next, Environment PROVE WorkerEdits'
<1>1. CASE Restart
  BY <1>1 DEF Restart, FreshProcess, WorkerEdits, Updating, Submitting
<1>2. CASE ~Restart
  <2>1. UNCHANGED worker
    BY <1>2 DEF Environment, InformerStep, ClusterStep, IssuerStep, DeliverCertificate, Deliver,
                Resync, CreateRequest, DeleteRequest, DenyRequest, ApproveRequest,
                SetIssuing, HorizonDecides, IssuerRecovers, IssuerUnready,
                EditIssuer, DeleteIssuer
  <2> QED BY <2>1, NextAges, OthersKeepEdits DEF LInv
<1> QED BY <1>1, <1>2

(* The invariant holds initially and is preserved by every step.           *)
LEMMA InitLInv == Init => LInv
<1> SUFFICES ASSUME Init PROVE LInv
  OBVIOUS
<1>1. IInv
  BY InitIInv
<1>2. CachesLag
  BY DEF Init, CachesLag, Lags
<1>3. WorkerEdits
  BY DEF Init, WorkerEdits, Updating, Submitting
<1>4. RecordsKept
  BY DEF Init, HorizonInit, RecordsKept, NoRequest
<1> QED BY <1>1, <1>2, <1>3, <1>4 DEF LInv

LEMMA NextLInv == LInv /\ [Next]_vars => LInv'
<1> SUFFICES ASSUME LInv, [Next]_vars PROVE LInv'
  OBVIOUS
<1>1. IInv'
  BY NextIInv DEF LInv
<1>2. CASE UNCHANGED vars
  <2>1. CachesLag' /\ WorkerEdits' /\ RecordsKept'
    BY <1>2 DEF vars, worker, LInv, CachesLag, WorkerEdits, RecordsKept
  <2> QED BY <1>1, <2>1 DEF LInv
<1>3. CASE Next
  <2>1. CachesLag' BY <1>3, CachesStep
  <2>2. WorkerEdits'
    BY <1>3, StartEdits, HorizonCallEdits, ApiCallEdits, EnvironmentEdits
       DEF Next, WorkerStep
  <2>3. RecordsKept' BY <1>3, RecordsStep
  <2> QED BY <1>1, <2>1, <2>2, <2>3 DEF LInv
<1> QED BY <1>2, <1>3

(* LInv is an invariant of the controller.                                 *)
LEMMA LagInvariance == Spec => []LInv
  BY InitLInv, NextLInv, PTL DEF Spec

-----------------------------------------------------------------------------
(* What the controller tolerates from others that share its cluster.       *)

(* The part of LInv about the state that managers share.                   *)
SharedInv ==
  /\ obj \in [CRs -> Object]
  /\ hz \in [RequestIds -> HorizonRequest]
  /\ parent \in [Certificates -> Parent]
  /\ issuer \in Issuer /\ disturbed \in 0..MaxDisturbances
  /\ \A c \in CRs : Sound(hz, c, obj[c]) /\ Placed(obj[c])
  /\ ParentsSound /\ RenewTargetsPredecessor /\ StraysUntouched /\ RecordsKept

(* The shared state only moves on: Horizon forgets nothing, objects age.   *)
Advances ==
  /\ Grows(hz, hz')
  /\ \A c \in CRs : Lags(obj[c], obj'[c])

LEMMA LInvShares == LInv => SharedInv
  BY DEF LInv, IInv, Typed, TypeOK, ObjectsSound, SharedInv

(* Every step of the controller lets the shared state move on.             *)
LEMMA NextAdvances ==
  ASSUME LInv, Next PROVE Advances
  BY NextGrows, NextAges DEF LInv, IInv, Advances

(* Whoever lets it move on, and keeps it in order, leaves the controller's *)
(* own invariant intact: its caches and its worker hold earlier states.    *)
LEMMA SharingKeeps ==
  ASSUME LInv, UNCHANGED <<cache, known, queue, worker>>, SharedInv', Advances
  PROVE  LInv'
<1> USE DEF LInv, IInv
<1>1. UNCHANGED <<cache, known, queue, pc, cur, base, local, outcome, replaces>>
  BY DEF worker
<1>2. Grows(hz, hz') /\ \A c \in CRs : Lags(obj[c], obj'[c])
  BY DEF Advances
<1>3. Typed'
  BY <1>1 DEF Typed, TypeOK, SharedInv
<1>4. ObjectsSound'
  <2>1. \A c \in CRs : cache[c] \in Object /\ Sound(hz, c, cache[c])
    BY DEF ObjectsSound, Typed, TypeOK
  <2>2. \A c \in CRs : Sound(hz', c, cache[c])
    BY <1>2, <2>1, SoundGrows
  <2> QED BY <1>1, <2>2 DEF ObjectsSound, SharedInv
<1>5. WorkerSound'
  <2>1. base \in Object /\ local \in Object
    BY DEF Typed, TypeOK
  <2>2. pc # "idle" => Sound(hz', cur, base) /\ Sound(hz', cur, local)
    BY <1>2, <2>1, SoundGrows DEF WorkerSound
  <2>3. pc = "chain" => hz'[local.meta.requestId].status = "completed"
    <3>1. local.meta.requestId \in OptionalId
      BY <2>1 DEF Object, Metadata
    <3> QED BY <1>2, <3>1 DEF WorkerSound, Grows, OptionalId
  <2>4. pc = "renew" => /\ hz'[replaces].status = "completed"
                        /\ ParentOf[hz'[replaces].owner] = ParentOf[cur]
    BY <1>2 DEF WorkerSound, Grows, Typed, TypeOK, OptionalId
  <2> QED BY <1>1, <2>2, <2>3, <2>4 DEF WorkerSound
<1>6. CachesLag'
  BY <1>1, <1>2, LagsComposes DEF CachesLag
<1>7. WorkerEdits'
  BY <1>2, OthersKeepEdits
<1>8. KnownSound'
  BY <1>1, <1>2 DEF KnownSound, Grows, Typed, TypeOK, Parent, OptionalId
<1> QED BY <1>3, <1>4, <1>5, <1>6, <1>7, <1>8 DEF SharedInv

-----------------------------------------------------------------------------
(* The refinement mapping.                                                 *)

(* The account of an object, as Account gives it for the stored one.       *)
AccountOf(o) ==
  [life        |-> o.meta.life,
   decision    |-> IF o.status.denied THEN "denied"
                   ELSE IF o.status.approved THEN "approved" ELSE "open",
   result      |-> IF Settled(o) THEN o.status.ready ELSE "open",
   id          |-> o.meta.requestId,
   certificate |-> o.status.certificate]

Requests == [c \in CRs |-> Account(c)]

LEMMA AccountIsOf ==
  ASSUME NEW c \in CRs
  PROVE  Account(c) = AccountOf(obj[c]) /\ Requests[c] = AccountOf(obj[c])
  BY DEF Account, AccountOf, Requests

(* A step of the account of requests, or none, is a step of Issuance.      *)
LEMMA RequestStepAllowed ==
  ASSUME NEW c \in CRs, Abstract!RequestStep(c)
  PROVE  [Abstract!AccountNext]_(Abstract!account)
<1>1. UNCHANGED <<[r \in RequestIds |-> hz[r].owner],
                  {r \in RequestIds : hz[r].status = "completed"},
                  {r \in RequestIds : hz[r].revoking}>>
  BY DEF Abstract!RequestStep, Abstract!Create, Abstract!Delete, Abstract!Remove,
         Abstract!Decide, Abstract!Bind, Abstract!Issue, Abstract!Fail, Abstract!Deny
<1> QED BY <1>1 DEF Abstract!AccountNext, Abstract!account

LEMMA HorizonStepAllowed ==
  ASSUME UNCHANGED Requests, Abstract!HorizonStep
  PROVE  [Abstract!AccountNext]_(Abstract!account)
  BY DEF Abstract!AccountNext, Abstract!account, Requests

(* A step that leaves objects and Horizon alone is none of Issuance's.     *)
LEMMA NothingHappens ==
  ASSUME UNCHANGED <<Requests, hz>>
  PROVE  [Abstract!AccountNext]_(Abstract!account)
  BY DEF Abstract!account, Requests

(* One object changes: one account changes.                                *)
LEMMA OneChanges ==
  ASSUME Typed, NEW c \in CRs, NEW o, obj' = [obj EXCEPT ![c] = o]
  PROVE  Requests' = [Requests EXCEPT ![c] = AccountOf(o)]
<1>1. \A d \in CRs : obj'[d] = IF d = c THEN o ELSE obj[d]
  BY DEF Typed, TypeOK
<1>2. /\ Requests = [d \in CRs |-> AccountOf(obj[d])]
      /\ Requests' = [d \in CRs |-> AccountOf(obj'[d])]
  BY DEF Requests, Account, AccountOf
<1> QED BY <1>1, <1>2

(* The deferred function binds, decides, issues, fails or denies, or it    *)
(* changes nothing that counts.                                            *)
LEMMA WriteRefines ==
  ASSUME LInv, WriteStored \/ WriteLost
  PROVE  [Abstract!AccountNext]_(Abstract!account)
<1> USE DEF LInv, IInv
<1> DEFINE c == cur
           a == AccountOf(base)
<1>1. /\ pc = "write" /\ c \in CRs /\ base = obj[c]
      /\ base \in Object /\ local \in Object /\ UNCHANGED hz
  BY WriteEffect
<1>2. PICK o \in Object :
        /\ obj' = [obj EXCEPT ![c] = o]
        /\ \/ /\ AnnotationsChanged(base, local)
              /\ o = [meta |-> local.meta, status |-> base.status]
           \/ /\ ~AnnotationsChanged(base, local)
              /\ o = [meta |-> base.meta, status |-> local.status]
  BY WriteEffect
<1> DEFINE b == AccountOf(o)
<1>3. Requests' = [Requests EXCEPT ![c] = b] /\ Requests[c] = a
  BY <1>1, <1>2, OneChanges, AccountIsOf
<1>4. /\ Present(base) /\ ~Settled(base)
      /\ Sound(hz, c, base) /\ Sound(hz, c, local) /\ Edits(base, local)
      /\ local.meta.life = base.meta.life
      /\ base.meta.requestId \in {None, local.meta.requestId}
  BY <1>1 DEF WorkerSound, WorkerEdits, Updating, PCs
<1>5. /\ a.life \in {"live", "deleting"} /\ a.result = "open"
      /\ a.id = base.meta.requestId
      /\ Undecided(base) => a.decision = "open"
      /\ base.status.denied => a.decision = "denied"
  BY <1>4 DEF AccountOf, Present, Undecided
<1>6. CASE b = a
  <2>1. UNCHANGED Requests
    BY <1>3, <1>6, <1>1 DEF Requests
  <2> QED BY <1>1, <2>1, NothingHappens
<1>7. ASSUME NEW r \in RequestIds, Undecided(base), base.meta.requestId = None,
             hz[r].owner = c, b = [a EXCEPT !.id = r]
      PROVE  Abstract!Bind(c, r)
  <2> HIDE DEF a, b
  <2> QED BY <1>1, <1>3, <1>5, <1>7
      DEF Abstract!Bind, Abstract!Undecided, Abstract!Unsettled, Abstract!Exists, Requests
<1>8. ASSUME NEW decision \in {"approved", "denied"}, Undecided(base),
             b = [a EXCEPT !.decision = decision]
      PROVE  Abstract!Decide(c, decision)
  <2> HIDE DEF a, b
  <2> QED BY <1>1, <1>3, <1>5, <1>8
      DEF Abstract!Decide, Abstract!Undecided, Abstract!Exists, Requests
<1>9. ASSUME Undecided(base), base.meta.requestId \in RequestIds,
             hz[base.meta.requestId].status = "completed",
             b = [a EXCEPT !.decision = "approved", !.result = "Issued",
                           !.certificate = a.id]
      PROVE  Abstract!Issue(c)
  <2> HIDE DEF a, b
  <2> QED BY <1>1, <1>3, <1>5, <1>9
      DEF Abstract!Issue, Abstract!Undecided, Abstract!Unsettled, Abstract!Exists, Requests
<1>10. ASSUME Undecided(base), base.meta.requestId = None,
              b = [a EXCEPT !.result = "Failed"]
       PROVE  Abstract!Fail(c)
  <2> HIDE DEF a, b
  <2> QED BY <1>1, <1>3, <1>5, <1>10
      DEF Abstract!Fail, Abstract!Undecided, Abstract!Unsettled, Abstract!Exists, Requests
<1>11. ASSUME base.status.denied, b = [a EXCEPT !.result = "Denied"]
       PROVE  Abstract!Deny(c)
  <2> HIDE DEF a, b
  <2> QED BY <1>1, <1>3, <1>5, <1>11
      DEF Abstract!Deny, Abstract!Unsettled, Abstract!Exists, Requests
<1>12. CASE AnnotationsChanged(base, local)
  <2>1. o.meta = local.meta /\ o.status = base.status
    BY <1>2, <1>12
  <2>2. CASE local.meta.requestId = base.meta.requestId
    <3>1. b = a
      BY <1>4, <2>1, <2>2 DEF AccountOf, Settled
    <3> QED BY <1>6, <3>1
  <2>3. CASE local.meta.requestId # base.meta.requestId
    <3> DEFINE r == local.meta.requestId
    <3>1. base.meta.requestId = None /\ r # None
      BY <1>4, <2>3
    <3>2. r \in RequestIds /\ hz[r].owner = c
      BY <1>1, <1>4, <3>1 DEF Sound, Object, Metadata, OptionalId
    <3>3. Undecided(base)
      BY <1>4, <2>3 DEF Edits, KeepsDecision
    <3>4. b = [a EXCEPT !.id = r]
      BY <1>4, <2>1 DEF AccountOf, Settled
    <3>5. Abstract!Bind(c, r)
      BY <1>7, <3>1, <3>2, <3>3, <3>4
    <3> QED BY <1>1, <3>2, <3>5, RequestStepAllowed DEF Abstract!RequestStep
  <2> QED BY <2>2, <2>3
<1>13. CASE ~AnnotationsChanged(base, local)
  <2>1. o.meta = base.meta /\ o.status = local.status
    BY <1>2, <1>13
  <2>2. /\ local.meta.requestId = base.meta.requestId
        /\ local.meta.certificateId = base.meta.certificateId
    BY <1>13 DEF AnnotationsChanged
  <2>3. CASE local.status.ready = "Issued"
    <3> DEFINE r == base.meta.requestId
    <3>1. /\ Undecided(base) /\ r # None /\ hz[r].status = "completed"
          /\ local.status.certificate = r /\ local.status.approved
          /\ ~local.status.denied
      BY <1>4, <2>2, <2>3 DEF Edits, KeepsDecision, Sound
    <3>2. r \in RequestIds
      BY <1>1, <3>1 DEF Object, Metadata, OptionalId
    <3>3. b = [a EXCEPT !.decision = "approved", !.result = "Issued", !.certificate = a.id]
      <4>1. b = [life |-> base.meta.life, decision |-> "approved", result |-> "Issued",
                 id |-> r, certificate |-> r]
        BY <2>1, <2>3, <3>1 DEF AccountOf, Settled
      <4>2. PICK d, x, y : a = [life |-> base.meta.life, decision |-> d, result |-> x,
                                id |-> r, certificate |-> y]
        BY DEF AccountOf
      <4> DEFINE e == [a EXCEPT !.decision = "approved"]
                 f == [e EXCEPT !.result = "Issued"]
                 g == [f EXCEPT !.certificate = r]
      <4>3. a.id = r
        BY DEF AccountOf
      <4> HIDE DEF a, b, r
      <4>4. e = [life |-> base.meta.life, decision |-> "approved", result |-> x,
                 id |-> r, certificate |-> y]
        BY <4>2
      <4> HIDE DEF e
      <4>5. f = [life |-> base.meta.life, decision |-> "approved", result |-> "Issued",
                 id |-> r, certificate |-> y]
        BY <4>4
      <4> HIDE DEF f
      <4>6. g = b
        BY <4>1, <4>5
      <4> QED BY <4>3, <4>6 DEF e, f
    <3>4. Abstract!Issue(c)
      BY <1>9, <3>1, <3>2, <3>3
    <3> QED BY <1>1, <3>4, RequestStepAllowed DEF Abstract!RequestStep
  <2>4. CASE local.status.ready = "Failed"
    <3>1. /\ Undecided(base) /\ Undecided(local) /\ base.meta.requestId = None
          /\ local.status.certificate = base.status.certificate
      BY <1>4, <2>2, <2>4 DEF Edits, KeepsDecision, Sound
    <3>2. b = [a EXCEPT !.result = "Failed"]
      BY <2>1, <2>4, <3>1 DEF AccountOf, Settled, Undecided
    <3>3. Abstract!Fail(c)
      BY <1>10, <3>1, <3>2
    <3> QED BY <1>1, <3>3, RequestStepAllowed DEF Abstract!RequestStep
  <2>5. CASE local.status.ready = "Denied"
    <3>1. /\ base.status.denied /\ local.status.denied
          /\ local.status.certificate = base.status.certificate
      BY <1>4, <2>5 DEF Edits, KeepsDecision, Undecided
    <3>2. b = [a EXCEPT !.result = "Denied"]
      BY <2>1, <2>5, <3>1 DEF AccountOf, Settled
    <3>3. Abstract!Deny(c)
      BY <1>11, <3>1, <3>2
    <3> QED BY <1>1, <3>3, RequestStepAllowed DEF Abstract!RequestStep
  <2>6. CASE ~Settled(local)
    <3>1. /\ local.status.certificate = base.status.certificate
          /\ ~(local.status.approved /\ local.status.denied)
      BY <1>4, <2>6 DEF Edits, Settled, Sound
    <3>2. CASE Undecided(local) /\ Undecided(base)
      <4>1. b = a
        BY <1>4, <2>1, <2>6, <3>1, <3>2 DEF AccountOf, Settled, Undecided
      <4> QED BY <1>6, <4>1
    <3>3. CASE Undecided(base) /\ ~Undecided(local)
      <4> DEFINE decision == IF local.status.denied THEN "denied" ELSE "approved"
      <4>1. b = [a EXCEPT !.decision = decision]
        BY <1>4, <2>1, <2>6, <3>1, <3>3 DEF AccountOf, Settled, Undecided
      <4>2. decision \in {"approved", "denied"}
        OBVIOUS
      <4> HIDE DEF decision
      <4>3. Abstract!Decide(c, decision)
        BY <1>8, <3>3, <4>1, <4>2
      <4> QED BY <1>1, <4>2, <4>3, RequestStepAllowed DEF Abstract!RequestStep
    <3>4. CASE ~Undecided(base)
      <4>1. /\ local.status.approved = base.status.approved
            /\ local.status.denied = base.status.denied
        BY <1>4, <3>4 DEF Edits, KeepsDecision
      <4>2. b = a
        BY <1>4, <2>1, <2>6, <3>1, <4>1 DEF AccountOf, Settled
      <4> QED BY <1>6, <4>2
    <3> QED BY <3>2, <3>3, <3>4
  <2> QED BY <2>3, <2>4, <2>5, <2>6 DEF Settled
<1> QED BY <1>12, <1>13

(* cert-manager creates and deletes, approvers decide.                     *)
LEMMA ClusterRefines ==
  ASSUME LInv, NEW c \in CRs,
         \/ CreateRequest(c) \/ DeleteRequest(c)
         \/ DenyRequest(c) \/ ApproveRequest(c)
  PROVE  [Abstract!AccountNext]_(Abstract!account)
<1> USE DEF LInv, IInv
<1> DEFINE s == obj[c]
           a == AccountOf(s)
<1>1. UNCHANGED hz /\ s \in Object
  BY ClusterEffect
<1>2. PICK o \in Object :
        /\ obj' = [obj EXCEPT ![c] = o]
        /\ \/ s.meta.life = "absent" /\ o = Blank("live")
           \/ s.meta.life = "live" /\ o = Blank("gone")
           \/ /\ s.meta.life = "live" /\ o.status = s.status
              /\ o.meta = [s.meta EXCEPT !.life = "deleting"]
           \/ /\ Present(s) /\ Undecided(s) /\ o.meta = s.meta
              /\ o.status = [s.status EXCEPT !.denied = TRUE]
           \/ /\ Present(s) /\ Undecided(s) /\ o.meta = s.meta
              /\ o.status = [s.status EXCEPT !.approved = TRUE]
  BY ClusterEffect
<1> DEFINE b == AccountOf(o)
<1>3. Requests' = [Requests EXCEPT ![c] = b] /\ Requests[c] = a
  BY <1>2, OneChanges, AccountIsOf
<1>4. \A life : AccountOf(Blank(life)) = Abstract!Fresh(life)
  BY DEF AccountOf, Blank, Settled, Abstract!Fresh
<1>5. a.life = s.meta.life /\ (Undecided(s) => a.decision = "open")
  BY DEF AccountOf, Undecided
<1>6. CASE s.meta.life = "absent" /\ o = Blank("live")
  <2>1. Abstract!Create(c)
    <3>1. b = Abstract!Fresh("live")
      BY <1>4, <1>6
    <3> HIDE DEF a, b
    <3> QED BY <1>1, <1>3, <1>5, <1>6, <3>1 DEF Abstract!Create, Requests
  <2> QED BY <2>1, RequestStepAllowed DEF Abstract!RequestStep
<1>7. CASE s.meta.life = "live" /\ o = Blank("gone")
  <2>1. Abstract!Remove(c)
    <3>1. b = Abstract!Fresh("gone")
      BY <1>4, <1>7
    <3> HIDE DEF a, b
    <3> QED BY <1>1, <1>3, <1>5, <1>7, <3>1 DEF Abstract!Remove, Abstract!Exists, Requests
  <2> QED BY <2>1, RequestStepAllowed DEF Abstract!RequestStep
<1>8. CASE /\ s.meta.life = "live" /\ o.status = s.status
           /\ o.meta = [s.meta EXCEPT !.life = "deleting"]
  <2>1. o.meta.life = "deleting" /\ o.meta.requestId = s.meta.requestId
    BY <1>1, <1>8 DEF Object, Metadata
  <2>2. b = [a EXCEPT !.life = "deleting"]
    BY <1>8, <2>1 DEF AccountOf, Settled
  <2>3. Abstract!Delete(c)
    <3> HIDE DEF a, b
    <3> QED BY <1>1, <1>3, <1>5, <1>8, <2>2 DEF Abstract!Delete, Requests
  <2> QED BY <2>3, RequestStepAllowed DEF Abstract!RequestStep
<1>9. ASSUME NEW decision \in {"approved", "denied"}, Present(s), Undecided(s),
             b = [a EXCEPT !.decision = decision]
      PROVE  [Abstract!AccountNext]_(Abstract!account)
  <2>1. Abstract!Decide(c, decision)
    <3> HIDE DEF a, b
    <3> QED BY <1>1, <1>3, <1>5, <1>9
        DEF Abstract!Decide, Abstract!Undecided, Abstract!Exists, Requests, Present
  <2> QED BY <2>1, RequestStepAllowed DEF Abstract!RequestStep
<1>10. CASE /\ Present(s) /\ Undecided(s) /\ o.meta = s.meta
            /\ o.status = [s.status EXCEPT !.denied = TRUE]
  <2>1. /\ o.status.denied = TRUE /\ o.status.ready = s.status.ready
        /\ o.status.certificate = s.status.certificate
    BY <1>1, <1>10 DEF Object, Status
  <2>2. b = [a EXCEPT !.decision = "denied"]
    BY <1>10, <2>1 DEF AccountOf, Settled
  <2> QED BY <1>9, <1>10, <2>2
<1>11. CASE /\ Present(s) /\ Undecided(s) /\ o.meta = s.meta
            /\ o.status = [s.status EXCEPT !.approved = TRUE]
  <2>1. /\ o.status.approved = TRUE /\ o.status.ready = s.status.ready
        /\ o.status.denied = s.status.denied
        /\ o.status.certificate = s.status.certificate
    BY <1>1, <1>11 DEF Object, Status
  <2>2. b = [a EXCEPT !.decision = "approved"]
    BY <1>11, <2>1 DEF AccountOf, Settled, Undecided
  <2> QED BY <1>9, <1>11, <2>2
<1> QED BY <1>2, <1>6, <1>7, <1>8, <1>10, <1>11

(* handleDeletion lets the object go.                                      *)
LEMMA RemovalRefines ==
  ASSUME LInv, FinalizerRemoved
  PROVE  [Abstract!AccountNext]_(Abstract!account)
<1> USE DEF LInv, IInv, Typed
<1>1. /\ cur \in CRs /\ UNCHANGED hz /\ base = obj[cur] /\ Present(base)
      /\ obj' = [obj EXCEPT ![cur] = Blank("gone")]
  BY DEF FinalizerRemoved, Current, WorkerSound
<1>2. /\ Requests' = [Requests EXCEPT ![cur] = AccountOf(Blank("gone"))]
      /\ Requests[cur] = AccountOf(obj[cur])
  BY <1>1, OneChanges, AccountIsOf
<1>3. AccountOf(Blank("gone")) = Abstract!Fresh("gone")
  BY DEF AccountOf, Blank, Settled, Abstract!Fresh
<1>4. AccountOf(obj[cur]).life \in {"live", "deleting"}
  BY <1>1 DEF AccountOf, Present
<1>5. Abstract!Remove(cur)
  BY <1>1, <1>2, <1>3, <1>4 DEF Abstract!Remove, Abstract!Exists, Requests
<1> QED BY <1>1, <1>5, RequestStepAllowed DEF Abstract!RequestStep

(* A submission offers the request that the worker has in hand.            *)
LEMMA SubmissionRefines ==
  ASSUME LInv, UNCHANGED obj, NEW r \in RequestIds, pc \in Submitting, Submission(r)
  PROVE  [Abstract!AccountNext]_(Abstract!account)
<1> USE DEF LInv, IInv, Typed
<1>1. /\ cur \in CRs /\ hz[r].status = "unused" /\ hz[r] = NoRequest
      /\ Lags(base, obj[cur]) /\ Present(base)
  BY DEF Submission, Accept, Submitting, RecordsKept, WorkerEdits, WorkerSound
<1>2. /\ \A q \in RequestIds \ {r} : hz'[q] = hz[q]
      /\ hz'[r].owner = cur /\ hz'[r].status = "pending" /\ hz'[r].revoking = FALSE
  BY DEF Submission, Accept, TypeOK
<1>3. UNCHANGED Requests /\ Requests[cur].life # "absent"
  BY <1>1 DEF Requests, Account, Lags, Present
<1>4. hz[r].owner = None /\ hz[r].status # "completed" /\ hz[r].revoking = FALSE
  BY <1>1 DEF NoRequest
<1>5. [q \in RequestIds |-> hz'[q].owner] =
        [[q \in RequestIds |-> hz[q].owner] EXCEPT ![r] = cur]
  BY <1>2
<1>6. /\ {q \in RequestIds : hz'[q].status = "completed"} =
           {q \in RequestIds : hz[q].status = "completed"}
      /\ {q \in RequestIds : hz'[q].revoking} = {q \in RequestIds : hz[q].revoking}
  BY <1>2, <1>4
<1>7. Abstract!Offer(cur, r)
  BY <1>3, <1>4, <1>5, <1>6 DEF Abstract!Offer, Requests
<1> QED BY <1>1, <1>3, <1>7, HorizonStepAllowed DEF Abstract!HorizonStep

(* A verdict of Horizon is a certificate, or nothing that counts so far.   *)
LEMMA VerdictRefines ==
  ASSUME LInv, UNCHANGED obj, NEW r \in RequestIds, Decides(r)
  PROVE  [Abstract!AccountNext]_(Abstract!account)
<1> USE DEF LInv, IInv, Typed
<1>1. PICK next \in RequestStatus :
        /\ hz' = [hz EXCEPT ![r].status = next]
        /\ hz[r].status \in {"pending", "approved"}
  BY DEF Decides, RequestStatus
<1>2. /\ hz[r].owner \in CRs
      /\ \A q \in RequestIds : hz'[q].owner = hz[q].owner /\ hz'[q].revoking = hz[q].revoking
      /\ \A q \in RequestIds \ {r} : hz'[q].status = hz[q].status
      /\ hz'[r].status = next
  BY <1>1 DEF RecordsKept, TypeOK, HorizonRequest
<1>3. UNCHANGED Requests
  BY DEF Requests, Account
<1>4. CASE next = "completed"
  <2>1. Abstract!Certify(r)
    BY <1>2, <1>3, <1>4, NoneIsNoCR DEF Abstract!Certify, Requests
  <2> QED BY <1>3, <2>1, HorizonStepAllowed DEF Abstract!HorizonStep
<1>5. CASE next # "completed"
  BY <1>1, <1>2, <1>3, <1>5 DEF Abstract!account, Requests
<1> QED BY <1>4, <1>5

(* handleDeletion revokes the certificate of a request that is being       *)
(* deleted, or is gone by now.                                             *)
LEMMA RevocationRefines ==
  ASSUME LInv, UNCHANGED obj, pc = "revoke", Revoke(local.status.certificate)
  PROVE  [Abstract!AccountNext]_(Abstract!account)
<1> USE DEF LInv, IInv, Typed
<1> PICK r : r = local.status.certificate
  OBVIOUS
<1>1. \A q \in RequestIds \ {r} : hz'[q] = hz[q]
  BY DEF Revoke
<1>2. UNCHANGED Requests
  BY DEF Requests, Account
<1>3. CASE r \notin RequestIds
  BY <1>1, <1>2, <1>3 DEF Abstract!account, Requests
<1>4. CASE r \in RequestIds
  <2>1. /\ Sound(hz, cur, local) /\ cur \in CRs
        /\ Lags(local, obj[cur]) /\ local.meta.life = "deleting"
    BY DEF WorkerSound, WorkerEdits
  <2>2. hz[r].status = "completed" /\ hz[r].owner = cur
    BY <1>4, <2>1, NoneIsNoId DEF Sound
  <2>3. Requests[cur].life \in {"deleting", "gone"}
    BY <2>1 DEF Requests, Account, Lags
  <2>4. /\ hz'[r].owner = cur /\ hz'[r].status = "completed" /\ hz'[r].revoking = TRUE
    BY <1>4, <2>2 DEF Revoke, TypeOK, HorizonRequest
  <2>5. Abstract!Revoke(r)
    BY <1>1, <1>2, <1>4, <2>1, <2>2, <2>3, <2>4 DEF Abstract!Revoke, Requests
  <2>6. Abstract!HorizonStep
    BY <1>4, <2>5 DEF Abstract!HorizonStep
  <2> QED BY <1>2, <2>6, HorizonStepAllowed
<1> QED BY <1>3, <1>4

(* Every step of the controller is a step of Issuance, or leaves its       *)
(* account as it is.                                                       *)
LEMMA NextRefines ==
  ASSUME LInv, [Next]_vars PROVE [Abstract!AccountNext]_(Abstract!account)
<1>1. CASE UNCHANGED vars
  <2>1. UNCHANGED <<Requests, hz>>
    BY <1>1 DEF vars, Requests, Account
  <2> QED BY <2>1, NothingHappens
<1>2. CASE Next /\ UNCHANGED obj
  <2>1. CASE UNCHANGED hz
    <3>1. UNCHANGED Requests
      BY <1>2 DEF Requests, Account
    <3> QED BY <2>1, <3>1, NothingHappens
  <2> QED BY <1>2, <2>1, HorizonMoves, SubmissionRefines, RevocationRefines,
             VerdictRefines
<1>3. CASE Next /\ ~UNCHANGED obj
  BY <1>3, ObjectWriters, WriteRefines, RemovalRefines, ClusterRefines
<1> QED BY <1>1, <1>2, <1>3

LEMMA InitRefines == Init => Abstract!AccountInit
<1> SUFFICES ASSUME Init PROVE Abstract!AccountInit
  OBVIOUS
<1>1. \A c \in CRs : Account(c) = Abstract!Fresh("absent")
  BY DEF Init, Account, Blank, Settled, Abstract!Fresh
<1>2. \A r \in RequestIds : hz[r] = NoRequest
  BY DEF Init, HorizonInit
<1> QED BY <1>1, <1>2 DEF Abstract!AccountInit, NoRequest

(* The controller implements Issuance: whatever its caches have not seen,  *)
(* whichever call is lost and wherever the process is killed, every        *)
(* CertificateRequest is decided, bound to a submission of its own and     *)
(* settled at most once, and no revocation is requested for a live one.    *)
THEOREM ControllerImplementsIssuance == Spec => ImplementsIssuance
<1>1. LInv /\ [Next]_vars => [Abstract!AccountNext]_(Abstract!account)
  BY NextRefines
<1> QED BY <1>1, InitRefines, LagInvariance, PTL
           DEF Spec, ImplementsIssuance, Abstract!AccountSpec
=============================================================================
