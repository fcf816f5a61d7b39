-------------------------- MODULE LeaderChangeProofs ------------------------
(***************************************************************************)
(* Two managers on one cluster implement Issuance together, with a lease   *)
(* or without one, for every set of requests, identifiers and              *)
(* Certificates and every budget of disturbances.                          *)
(*                                                                         *)
(* LInv holds for each manager by itself.  A step of one of them keeps its *)
(* own LInv as if it were alone, and the other's because the shared state  *)
(* stays in order and only moves on (SharingKeeps).                        *)
(***************************************************************************)
EXTENDS LeaderChange, AftercareProofs

(* What is proved of the controller, for the second manager.               *)
Other == INSTANCE AftercareProofs WITH
  cache <- cache2, known <- known2, queue <- queue2, pc <- pc2, cur <- cur2,
  base <- base2, local <- local2, outcome <- outcome2, replaces <- replaces2

ManagersInv == LInv /\ Other!LInv

-----------------------------------------------------------------------------
(* The second manager as LeaderChange has it, and as the lemmas have it.   *)

LEMMA SameStart ==
  ASSUME NEW c \in CRs, Second!ReconcileStart(c) PROVE Other!ReconcileStart(c)
  BY DEF Second!ReconcileStart, Other!ReconcileStart, Second!IgnoreRequest,
         Other!IgnoreRequest, Second!MissingIssuer, Other!MissingIssuer,
         Second!ReadFails, Other!ReadFails, Second!StartDeletion,
         Other!StartDeletion, Second!ReportDenial, Other!ReportDenial,
         Second!DnsFailure, Other!DnsFailure, Second!AlreadyApproved,
         Other!AlreadyApproved, Second!StartPoll, Other!StartPoll,
         Second!MissingParent, Other!MissingParent, Second!NilIssuing,
         Other!NilIssuing, Second!StartSubmission, Other!StartSubmission,
         Second!StartBareEnrollment, Other!StartBareEnrollment, Second!Begin,
         Other!Begin, Second!Dequeue, Other!Dequeue, Second!IsReady,
         Other!IsReady, Second!Reconcilable, Other!Reconcilable,
         Second!BeingDeleted, Other!BeingDeleted, Second!Proceeds,
         Other!Proceeds, Second!Prepared, Other!Prepared, Second!Undenied,
         Other!Undenied, Second!NeedsSubmission, Other!NeedsSubmission,
         Second!ShouldRenew, Other!ShouldRenew, Second!Disturbance,
         Other!Disturbance, Second!worker, Other!worker, Second!vars,
         Other!vars, Second!Present, Other!Present, Second!Settled,
         Other!Settled, Second!SetReady, Other!SetReady, Second!AfterError,
         Other!AfterError, Second!MarkDenied, Other!MarkDenied,
         Second!RegisterFinalizer, Other!RegisterFinalizer

LEMMA SameHorizonCall ==
  ASSUME Second!HorizonCall PROVE Other!HorizonCall
  BY DEF Second!HorizonCall, Other!HorizonCall, Second!SubmitAccepted,
         Other!SubmitAccepted, Second!SubmitLost, Other!SubmitLost,
         Second!SubmitFailed, Other!SubmitFailed, Second!PollFailed,
         Other!PollFailed, Second!PollPending, Other!PollPending,
         Second!PollDenied, Other!PollDenied, Second!PollCompleted,
         Other!PollCompleted, Second!ChainFailed, Other!ChainFailed,
         Second!ChainIsRoot, Other!ChainIsRoot, Second!ChainBuilt,
         Other!ChainBuilt, Second!RevokeAccepted, Other!RevokeAccepted,
         Second!RevokeFailed, Other!RevokeFailed, Second!RevokeLost,
         Other!RevokeLost, Second!Return, Other!Return, Second!Submission,
         Other!Submission, Second!Submitting, Other!Submitting, Second!Polled,
         Other!Polled, Second!Accept, Other!Accept, Second!Revoke, Other!Revoke,
         Second!Finish, Other!Finish, Second!Disturbance, Other!Disturbance,
         Second!Blank, Other!Blank, Second!SetReady, Other!SetReady,
         Second!RecordSubmission, Other!RecordSubmission,
         Second!HandleFailedRequest, Other!HandleFailedRequest,
         Second!HandleDeniedRequest, Other!HandleDeniedRequest,
         Second!ApproveCompleted, Other!ApproveCompleted,
         Second!HandleCompletedRequest, Other!HandleCompletedRequest,
         Second!AfterError, Other!AfterError

LEMMA SameApiCall ==
  ASSUME Second!ApiCall PROVE Other!ApiCall
  BY DEF Second!ApiCall, Other!ApiCall, Second!WriteStored, Other!WriteStored,
         Second!WriteConflict, Other!WriteConflict, Second!WriteFailed,
         Other!WriteFailed, Second!WriteLost, Other!WriteLost,
         Second!ParentUpdated, Other!ParentUpdated, Second!ParentSkipped,
         Other!ParentSkipped, Second!FinalizerRemoved, Other!FinalizerRemoved,
         Second!FinalizerKept, Other!FinalizerKept, Second!Finish, Other!Finish,
         Second!Current, Other!Current, Second!Stored, Other!Stored,
         Second!AfterWrite, Other!AfterWrite, Second!Disturbance,
         Other!Disturbance, Second!Blank, Other!Blank,
         Second!AnnotationsChanged, Other!AnnotationsChanged

LEMMA SameInformer ==
  ASSUME Second!InformerStep PROVE Other!InformerStep
  BY DEF Second!InformerStep, Other!InformerStep, Second!Deliver, Other!Deliver,
         Second!DeliverCertificate, Other!DeliverCertificate, Second!Resync,
         Other!Resync, Second!Present, Other!Present, Second!worker,
         Other!worker

LEMMA SameInit ==
  ASSUME Second!Init PROVE Other!Init
  BY DEF Second!Init, Other!Init, Second!HorizonInit, Other!HorizonInit,
         Second!NoRequest, Other!NoRequest, Second!Blank, Other!Blank

(* A step of the second manager is a step of the controller.               *)
LEMMA SecondSteps ==
  ASSUME SecondManager PROVE Other!Next /\ UNCHANGED first
  BY SameStart, SameHorizonCall, SameApiCall, SameInformer
     DEF SecondManager, Second!WorkerStep, Other!WorkerStep, Other!Next,
         Other!Environment

(* What the managers share is in order, and moves on, for one of them when *)
(* it is and does for the other.                                           *)
LEMMA SameShared ==
  /\ Other!SharedInv <=> SharedInv
  /\ Other!SharedInv' <=> SharedInv'
  BY DEF SharedInv, Other!SharedInv, Sound, Other!Sound, Placed, Other!Placed,
         Present, Other!Present, Blank, Other!Blank, ParentsSound,
         Other!ParentsSound, RenewTargetsPredecessor,
         Other!RenewTargetsPredecessor, StraysUntouched, Other!StraysUntouched,
         Settled, Other!Settled, RecordsKept, Other!RecordsKept, NoRequest,
         Other!NoRequest, Object, Other!Object, Metadata, Other!Metadata,
         Status, Other!Status, Life, Other!Life, ReadyReasons,
         Other!ReadyReasons, OptionalId, Other!OptionalId, HorizonRequest,
         Other!HorizonRequest, Workflows, Other!Workflows, RequestStatus,
         Other!RequestStatus, Parent, Other!Parent, Issuing, Other!Issuing,
         Issuer, Other!Issuer

LEMMA SameAdvance == Other!Advances <=> Advances
  BY DEF Advances, Other!Advances, Grows, Other!Grows, Lags, Other!Lags

(* The account of the cluster is the same for both.                        *)
LEMMA SameAccount ==
  ASSUME [Other!Abstract!AccountNext]_(Other!Abstract!account)
  PROVE  [Abstract!AccountNext]_(Abstract!account)
  BY DEF Abstract!AccountNext, Other!Abstract!AccountNext, Abstract!RequestStep,
         Other!Abstract!RequestStep, Abstract!HorizonStep,
         Other!Abstract!HorizonStep, Abstract!Create, Other!Abstract!Create,
         Abstract!Delete, Other!Abstract!Delete, Abstract!Remove,
         Other!Abstract!Remove, Abstract!Offer, Other!Abstract!Offer,
         Abstract!Certify, Other!Abstract!Certify, Abstract!Bind,
         Other!Abstract!Bind, Abstract!Decide, Other!Abstract!Decide,
         Abstract!Issue, Other!Abstract!Issue, Abstract!Fail,
         Other!Abstract!Fail, Abstract!Deny, Other!Abstract!Deny,
         Abstract!Revoke, Other!Abstract!Revoke, Abstract!Exists,
         Other!Abstract!Exists, Abstract!Undecided, Other!Abstract!Undecided,
         Abstract!Unsettled, Other!Abstract!Unsettled, Abstract!Fresh,
         Other!Abstract!Fresh, Abstract!account, Other!Abstract!account,
         Account, Other!Account, Settled, Other!Settled

-----------------------------------------------------------------------------
(* The invariant of both managers.                                         *)

LEMMA ManagersStart == ManagersInit => ManagersInv
<1> SUFFICES ASSUME ManagersInit PROVE ManagersInv
  OBVIOUS
<1>1. LInv
  BY InitLInv DEF ManagersInit
<1>2. Other!Init
  BY SameInit DEF ManagersInit
<1>3. Other!LInv
  BY <1>2, Other!InitLInv, NoneIsNoId, NoneIsNoCR, ControllerAssumption
     DEF Other!InitLInv
<1> QED BY <1>1, <1>3 DEF ManagersInv

(* The second manager tolerates a step that advances the shared state.     *)
LEMMA SecondTolerates ==
  ASSUME Other!LInv, UNCHANGED second, SharedInv', Advances PROVE Other!LInv'
<1>1. UNCHANGED <<cache2, known2, queue2, Other!worker>>
  BY DEF second, Other!worker
<1>2. Other!SharedInv' /\ Other!Advances
  BY SameShared, SameAdvance
<1> QED BY <1>1, <1>2, Other!SharingKeeps, NoneIsNoId, NoneIsNoCR, ControllerAssumption
           DEF Other!SharingKeeps

(* A step of the controller that the first manager, or the cluster, takes. *)
LEMMA FirstSteps ==
  ASSUME ManagersInv, Next, UNCHANGED second PROVE ManagersInv'
<1>1. LInv'
  BY NextLInv DEF ManagersInv
<1>2. SharedInv' /\ Advances
  BY <1>1, LInvShares, NextAdvances, PTL DEF ManagersInv
<1> QED BY <1>1, <1>2, SecondTolerates DEF ManagersInv

LEMMA SecondKeeps ==
  ASSUME ManagersInv, SecondManager PROVE ManagersInv'
<1>1. Other!Next /\ UNCHANGED <<cache, known, queue, worker>>
  BY SecondSteps DEF first
<1>2. Other!LInv'
  BY <1>1, Other!NextLInv, NoneIsNoId, NoneIsNoCR, ControllerAssumption
     DEF ManagersInv, Other!NextLInv
<1>3. Other!SharedInv'
  BY <1>2, Other!LInvShares, NoneIsNoId, NoneIsNoCR, ControllerAssumption, PTL
     DEF Other!LInvShares
<1>4. Other!Advances
  BY <1>1, Other!NextAdvances, NoneIsNoId, NoneIsNoCR, ControllerAssumption
     DEF ManagersInv, Other!NextAdvances
<1>5. LInv'
  BY <1>1, <1>3, <1>4, SameShared, SameAdvance, SharingKeeps DEF ManagersInv
<1> QED BY <1>2, <1>5 DEF ManagersInv

(* The first manager and whoever writes the cluster take steps of the      *)
(* controller as it was modelled alone.                                    *)
LEMMA FirstIsAlone ==
  ASSUME FirstManager \/ ((ClusterStep \/ IssuerStep) /\ UNCHANGED <<second, handover>>)
  PROVE  Next /\ UNCHANGED second
  BY DEF FirstManager, Next, Environment

(* The handover itself touches no object, and nothing on Horizon.          *)
LEMMA HandoverKeeps ==
  ASSUME ManagersInv, Terminate \/ TakeOver \/ UNCHANGED managerVars
  PROVE  ManagersInv' /\ UNCHANGED <<obj, hz>>
<1>1. /\ UNCHANGED <<obj, hz, parent, issuer, cache, known, queue, worker, second>>
      /\ disturbed' = disturbed \/ \E kind : Disturbance(kind)
  BY DEF Terminate, TakeOver, managerVars, vars, first
<1>2. SharedInv
  BY LInvShares DEF ManagersInv
<1>3. disturbed' \in 0..MaxDisturbances
  BY <1>1, <1>2, ControllerAssumption DEF SharedInv, Disturbance
<1>4. SharedInv'
  BY <1>1, <1>2, <1>3 DEF SharedInv, ParentsSound, RenewTargetsPredecessor,
                          StraysUntouched, RecordsKept
<1>5. Advances
  BY <1>1 DEF Advances, Grows, Lags
<1> QED BY <1>1, <1>4, <1>5, SharingKeeps, SecondTolerates DEF ManagersInv

LEMMA ManagersStep == ManagersInv /\ [ManagersNext]_managerVars => ManagersInv'
  BY FirstIsAlone, FirstSteps, SecondKeeps, HandoverKeeps DEF ManagersNext

LEMMA ManagersInvariance == ManagersSpec => []ManagersInv
  BY ManagersStart, ManagersStep, PTL DEF ManagersSpec

-----------------------------------------------------------------------------
(* What two managers promise together.                                     *)

(* Every step of either manager is a step of Issuance, or none.            *)
LEMMA ManagersRefine ==
  ASSUME ManagersInv, [ManagersNext]_managerVars
  PROVE  [Abstract!AccountNext]_(Abstract!account)
<1>1. CASE FirstManager \/ ((ClusterStep \/ IssuerStep) /\ UNCHANGED <<second, handover>>)
  BY <1>1, FirstIsAlone, NextRefines DEF ManagersInv
<1>2. CASE SecondManager
  <2>1. Other!Next
    BY <1>2, SecondSteps
  <2>2. [Other!Abstract!AccountNext]_(Other!Abstract!account)
    BY <2>1, Other!NextRefines, NoneIsNoId, NoneIsNoCR, ControllerAssumption
       DEF ManagersInv, Other!NextRefines
  <2> QED BY <2>2, SameAccount
<1>3. CASE Terminate \/ TakeOver \/ UNCHANGED managerVars
  <2>1. UNCHANGED <<Requests, hz>>
    BY <1>3, HandoverKeeps DEF Requests, Account
  <2> QED BY <2>1, NothingHappens
<1> QED BY <1>1, <1>2, <1>3 DEF ManagersNext

(* Two managers implement Issuance, with a lease that is handed over in    *)
(* the middle of a reconciliation or with no lease at all: they may submit *)
(* a request twice, but they decide, bind and settle it once, and neither  *)
(* asks to revoke the certificate of a request that is not being deleted.  *)
THEOREM ManagersImplementIssuance == ManagersSpec => ImplementsIssuance
<1>1. ManagersInv /\ [ManagersNext]_managerVars
        => [Abstract!AccountNext]_(Abstract!account)
  BY ManagersRefine
<1>2. ManagersInit => Abstract!AccountInit
  BY InitRefines DEF ManagersInit
<1> QED BY <1>1, <1>2, ManagersInvariance, PTL
           DEF ManagersSpec, ImplementsIssuance, Abstract!AccountSpec

(* A certificate that either manager stores is the one of the Horizon      *)
(* request the annotations name, and a renewal by either of them replaces  *)
(* a certificate issued for the same Certificate: the writes of the two do *)
(* not mix, since each is made over the version it was computed from.      *)
THEOREM ManagersMixNothing == ManagersSpec => [](IssuedIsBacked /\ RenewTargetsPredecessor)
<1>1. ManagersInv => IssuedIsBacked /\ RenewTargetsPredecessor
  BY SoundIsBacked DEF ManagersInv, LInv, IInv
<1> QED BY <1>1, ManagersInvariance, PTL

(* Neither manager takes back what the other has stored.                   *)
LEMMA ManagersKeep ==
  ASSUME ManagersInv, [ManagersNext]_managerVars
  PROVE  \A c \in CRs : Kept(obj[c], obj'[c])
<1>1. CASE FirstManager \/ ((ClusterStep \/ IssuerStep) /\ UNCHANGED <<second, handover>>)
  BY <1>1, FirstIsAlone, NextKeeps DEF ManagersInv, LInv
<1>2. CASE SecondManager
  <2>1. Other!Next
    BY <1>2, SecondSteps
  <2>2. \A c \in CRs : Other!Kept(obj[c], obj'[c])
    BY <2>1, Other!NextKeeps, NoneIsNoId, NoneIsNoCR, ControllerAssumption
       DEF ManagersInv, Other!LInv, Other!NextKeeps
  <2> QED BY <2>2 DEF Kept, Other!Kept, Settled, Other!Settled
<1>3. CASE Terminate \/ TakeOver \/ UNCHANGED managerVars
  BY <1>3, HandoverKeeps DEF Kept
<1> QED BY <1>1, <1>2, <1>3 DEF ManagersNext

(* What one manager settled or bound, the other never changes, although    *)
(* its cache may not have seen it yet.                                     *)
THEOREM ManagersSettleOnce == ManagersSpec => SettledIsFinal /\ RequestIdIsFinal
<1>1. ManagersInv /\ [ManagersNext]_managerVars =>
        /\ [\A c \in CRs :
              Settled(obj[c]) /\ obj'[c].meta.life # "gone" =>
                /\ obj'[c].status.ready = obj[c].status.ready
                /\ obj'[c].status.certificate = obj[c].status.certificate]_vars
        /\ [\A c \in CRs :
              obj[c].meta.requestId # None /\ obj'[c].meta.life # "gone" =>
                obj'[c].meta.requestId = obj[c].meta.requestId]_vars
  BY ManagersKeep DEF Kept
<1> QED BY <1>1, ManagersInvariance, PTL
           DEF ManagersSpec, SettledIsFinal, RequestIdIsFinal

-----------------------------------------------------------------------------
(* Revocation, with two managers that both delete.                         *)

LEMMA SameRevocations ==
  /\ Other!BoundGuarded' <=> BoundGuarded'
  /\ Other!RevocationsKept <=> RevocationsKept
  BY DEF BoundGuarded, Other!BoundGuarded, RevocationsKept, Other!RevocationsKept

ManagersGuarded == GInv /\ Other!GInv

LEMMA GuardedStart == ManagersInit => ManagersGuarded
<1> SUFFICES ASSUME ManagersInit PROVE ManagersGuarded
  OBVIOUS
<1>1. GInv
  BY InitGInv DEF ManagersInit
<1>2. Other!Init
  BY SameInit DEF ManagersInit
<1>3. Other!GInv
  BY <1>2, Other!InitGInv, NoneIsNoId, NoneIsNoCR, ControllerAssumption
     DEF Other!InitGInv
<1> QED BY <1>1, <1>3 DEF ManagersGuarded

LEMMA GuardedKept ==
  ASSUME "edit" \notin Disturbances
  PROVE  ManagersGuarded /\ [ManagersNext]_managerVars => ManagersGuarded'
<1> SUFFICES ASSUME ManagersGuarded, [ManagersNext]_managerVars PROVE ManagersGuarded'
  OBVIOUS
<1>1. ManagersInv
  BY DEF ManagersGuarded, ManagersInv, GInv, Other!GInv
<1>2. LInv' /\ Other!LInv'
  BY <1>1, ManagersStep DEF ManagersInv
<1>3. ASSUME UNCHANGED second, BoundGuarded', RevocationsKept PROVE Other!GInv'
  <2>1. UNCHANGED Other!worker
    BY <1>3 DEF second, Other!worker
  <2> QED BY <1>2, <1>3, <2>1, SameRevocations, Other!SharingGuards, NoneIsNoId,
             NoneIsNoCR, ControllerAssumption DEF ManagersGuarded, Other!SharingGuards
<1>4. CASE FirstManager \/ ((ClusterStep \/ IssuerStep) /\ UNCHANGED <<second, handover>>)
  <2>1. Next /\ UNCHANGED second
    BY <1>4, FirstIsAlone
  <2>2. GInv'
    BY <2>1, NextGInv DEF ManagersGuarded
  <2>3. BoundGuarded' /\ RevocationsKept
    BY <2>1, NextKeepsRevocations DEF ManagersGuarded
  <2> QED BY <1>3, <2>1, <2>2, <2>3 DEF ManagersGuarded
<1>5. CASE SecondManager
  <2>1. Other!Next /\ UNCHANGED worker
    BY <1>5, SecondSteps DEF first
  <2>2. Other!GInv'
    BY <2>1, Other!NextGInv, NoneIsNoId, NoneIsNoCR, ControllerAssumption
       DEF ManagersGuarded, Other!NextGInv
  <2>3. Other!BoundGuarded' /\ Other!RevocationsKept
    BY <2>1, Other!NextKeepsRevocations, NoneIsNoId, NoneIsNoCR, ControllerAssumption
       DEF ManagersGuarded, Other!NextKeepsRevocations
  <2>4. GInv'
    BY <1>2, <2>1, <2>3, SameRevocations, SharingGuards DEF ManagersGuarded
  <2> QED BY <2>2, <2>4 DEF ManagersGuarded
<1>6. CASE Terminate \/ TakeOver \/ UNCHANGED managerVars
  <2>1. UNCHANGED <<obj, hz, issuer, worker, second>>
    BY <1>6 DEF Terminate, TakeOver, managerVars, vars, first
  <2>2. BoundGuarded' /\ RevocationsKept
    BY <2>1 DEF BoundGuarded, RevocationsKept, ManagersGuarded, GInv, Guarded
  <2> QED BY <1>2, <1>3, <2>1, <2>2, SharingGuards DEF ManagersGuarded
<1> QED BY <1>4, <1>5, <1>6 DEF ManagersNext

(* Horizon has accepted the revocation of whatever either manager, or      *)
(* anybody else, removes.                                                  *)
LEMMA ManagersRevoke ==
  ASSUME ManagersGuarded, [ManagersNext]_managerVars, NEW c \in CRs, issuer.revoke,
         obj[c].status.certificate # None, obj'[c].meta.life = "gone"
  PROVE  hz'[obj[c].status.certificate].revoking
<1>1. CASE FirstManager \/ ((ClusterStep \/ IssuerStep) /\ UNCHANGED <<second, handover>>)
  BY <1>1, FirstIsAlone, RemovalIsRevoked DEF ManagersGuarded
<1>2. CASE SecondManager
  <2>1. Other!Next
    BY <1>2, SecondSteps
  <2> QED BY <2>1, Other!RemovalIsRevoked, NoneIsNoId, NoneIsNoCR, ControllerAssumption
             DEF ManagersGuarded, Other!RemovalIsRevoked
<1>3. CASE Terminate \/ TakeOver \/ UNCHANGED managerVars
  <2>1. UNCHANGED obj
    BY <1>3 DEF Terminate, TakeOver, managerVars, vars
  <2>2. obj[c] = Blank("gone")
    BY <2>1 DEF ManagersGuarded, GInv, LInv, IInv, ObjectsSound, Placed, Present, Blank
  <2> QED BY <2>2 DEF Blank
<1> QED BY <1>1, <1>2, <1>3 DEF ManagersNext

(* With two managers as with one: while revokeCertificates stays set, an   *)
(* object that holds a certificate leaves the cluster only after Horizon   *)
(* accepted its revocation, although either manager may remove the         *)
(* finalizer that the other one registered.                                *)
THEOREM ManagersRevokeOnDeletion ==
  ASSUME "edit" \notin Disturbances PROVE ManagersSpec => RevokeOnDeletion
<1> DEFINE Step == \A c \in CRs :
             /\ issuer.revoke /\ obj[c].status.certificate # None
             /\ obj'[c].meta.life = "gone"
             => hz'[obj[c].status.certificate].revoking
<1>1. ManagersGuarded /\ [ManagersNext]_managerVars => [Step]_vars
  BY ManagersRevoke
<1>2. ManagersGuarded /\ [ManagersNext]_managerVars => ManagersGuarded'
  BY GuardedKept
<1>3. ManagersSpec => [][Step]_vars
  <2> HIDE DEF Step
  <2> QED BY <1>1, <1>2, GuardedStart, PTL DEF ManagersSpec
<1> QED BY <1>3 DEF RevokeOnDeletion
=============================================================================
