---------------------------- MODULE SystemProofs ----------------------------
(***************************************************************************)
(* What the composition owes to both controllers, for any requests,        *)
(* issuers, specs and Secrets, any number of generations and any faults.   *)
(***************************************************************************)
EXTENDS System, IssuerControllerProofs, IssuanceProofs

(* Until the issuer passes a health check, the worker of the requests      *)
(* takes none of them, and Horizon has heard of none.                      *)
Quiet ==
  checked[TheIssuer] = {} =>
    pc = "idle" /\ hz = [r \in RequestIds |-> NoRequest]

(* The issuer controller keeps its own invariant in the composition.       *)
SystemInv == IssuerInv /\ issuer = CachedIssuer /\ Quiet

(* What the worker takes IsReady from was earned by some health check,     *)
(* though perhaps not by that of the spec it comes with.                   *)
LEMMA ReadyMeansChecked ==
  ASSUME SystemInv, IsReady
  PROVE  checked[TheIssuer] # {}
  <1>1. seen[TheIssuer].ready = "True"
    BY DEF SystemInv, IsReady, CachedIssuer
  <1> QED
    BY <1>1, SystemAssumption DEF SystemInv, IssuerInv, Earned

(* Both controllers before the first event.                                *)
LEMMA SystemStarts == SystemInit => SystemInv
  BY IssuerStarts DEF SystemInit, SystemInv, Quiet, Init, HorizonInit

(* A passed health check is never forgotten.                               *)
LEMMA CheckedGrows ==
  ASSUME IssuerInv, [IssuerNext]_issuerVars, checked'[TheIssuer] = {}
  PROVE  checked[TheIssuer] = {}
  <1>1. CASE checked' = checked
    BY <1>1
  <1>2. CASE CheckSucceeds
    BY <1>2, SystemAssumption DEF CheckSucceeds, IssuerInv, IssuerTypeOK
  <1> QED
    BY <1>1, <1>2
    DEF IssuerNext, issuerVars, ReconcileIssuer, IgnoreIssuer, GetFails, FirstSeen,
        ClientFails, StartCheck, Enter, IssuerEvent, IntervalOver, ResyncIssuer,
        CheckOrWrite, CheckFails, StatusStored, StatusConflict, StatusFailed,
        RestartManager, Administration, WriteSpec, RemoveIssuer, WriteSecret,
        HorizonChanges

(* Without a ready issuer every reconciliation returns at once.            *)
LEMMA NothingStarts ==
  ASSUME NEW c \in CRs, ReconcileStart(c), ~IsReady
  PROVE  UNCHANGED <<pc, hz>>
  BY DEF ReconcileStart, IgnoreRequest, MissingIssuer, ReadFails, StartDeletion,
         ReportDenial, DnsFailure, AlreadyApproved, StartPoll, MissingParent,
         NilIssuing, StartSubmission, StartBareEnrollment, NeedsSubmission, Undenied,
         Proceeds, Reconcilable, vars, worker

(* An idle worker makes no call.                                           *)
LEMMA IdleMakesNoCall ==
  ASSUME Work
  PROVE  pc # "idle"
  BY DEF Work, HorizonCall, Unreachable, ApiCall, SubmitAccepted, SubmitLost,
         SubmitFailed, PollFailed, PollPending, PollDenied, PollCompleted,
         ChainFailed, ChainIsRoot, ChainBuilt, RevokeAccepted, RevokeFailed,
         RevokeLost, WriteStored, WriteConflict, WriteFailed, WriteLost,
         ParentUpdated, ParentSkipped, FinalizerRemoved, FinalizerKept, Submitting

(* The rest of the cluster leaves the worker alone, and Horizon has        *)
(* nothing to decide on.                                                   *)
LEMMA ClusterKeepsQuiet ==
  ASSUME InformerStep \/ ClusterStep, hz = [r \in RequestIds |-> NoRequest]
  PROVE  UNCHANGED <<pc, hz>>
  <1>1. ASSUME NEW r \in RequestIds, HorizonDecides(r) PROVE FALSE
    BY <1>1 DEF HorizonDecides, Decides, NoRequest
  <1> QED
    BY <1>1 DEF InformerStep, Deliver, DeliverCertificate, Resync, ClusterStep,
                CreateRequest, DeleteRequest, DenyRequest, ApproveRequest, SetIssuing,
                worker

(* A step of the requests' controller, or of the cluster.                  *)
LEMMA RequestsKeepQuiet ==
  ASSUME SystemInv, UNCHANGED issuerVars, checked[TheIssuer] = {},
         \/ \E c \in CRs : Reconcile(c)
         \/ Work \/ InformerStep \/ ClusterStep
  PROVE  UNCHANGED <<pc, hz>>
  <1>0. ~IsReady /\ pc = "idle" /\ hz = [r \in RequestIds |-> NoRequest]
    BY ReadyMeansChecked DEF SystemInv, Quiet
  <1>1. CASE \E c \in CRs : Reconcile(c)
    BY <1>0, <1>1, NothingStarts
    DEF Reconcile, ClientRefused, systemVars, vars, worker
  <1> QED
    BY <1>0, <1>1, IdleMakesNoCall, ClusterKeepsQuiet

(* The requests' controller never changes what it knows of its issuer.     *)
LEMMA IssuerIsShared ==
  ASSUME issuer = CachedIssuer, [SystemNext]_systemVars
  PROVE  issuer' = CachedIssuer'
  <1>1. CASE IssuerWork
    BY <1>1 DEF IssuerWork
  <1>2. CASE UNCHANGED <<issuer, issuerVars>>
    BY <1>2 DEF CachedIssuer, issuerVars
  <1>3. \A c \in CRs : Reconcile(c) => UNCHANGED <<issuer, issuerVars>>
    BY DEF Reconcile, ClientRefused, systemVars, vars, ReconcileStart, IgnoreRequest,
           MissingIssuer, ReadFails, StartDeletion, ReportDenial, DnsFailure,
           AlreadyApproved, StartPoll, MissingParent, NilIssuing, StartSubmission,
           StartBareEnrollment
  <1>4. Work => UNCHANGED <<issuer, issuerVars>>
    BY DEF Work, HorizonCall, Unreachable, ApiCall, SubmitAccepted, SubmitLost,
           SubmitFailed, PollFailed, PollPending, PollDenied, PollCompleted,
           ChainFailed, ChainIsRoot, ChainBuilt, RevokeAccepted, RevokeFailed,
           RevokeLost, WriteStored, WriteConflict, WriteFailed, WriteLost,
           ParentUpdated, ParentSkipped, FinalizerRemoved, FinalizerKept
  <1>5. InformerStep \/ ClusterStep => UNCHANGED issuer
    BY DEF InformerStep, Deliver, DeliverCertificate, Resync, ClusterStep,
           CreateRequest, DeleteRequest, DenyRequest, ApproveRequest, SetIssuing,
           HorizonDecides
  <1> QED
    BY <1>1, <1>2, <1>3, <1>4, <1>5 DEF SystemNext, systemVars, vars

(* Every step, and a stuttering step, keeps the invariant.                 *)
LEMMA SystemSteps == SystemInv /\ [SystemNext]_systemVars => SystemInv'
  <1> SUFFICES ASSUME SystemInv, [SystemNext]_systemVars PROVE SystemInv'
    OBVIOUS
  <1>1. [IssuerNext]_issuerVars
    BY DEF SystemNext, systemVars, Reconcile, ClientRefused, Work, IssuerWork,
           IssuerNext, Administration
  <1>2. IssuerInv'
    BY <1>1, IssuerSteps DEF SystemInv
  <1>3. issuer' = CachedIssuer'
    BY IssuerIsShared DEF SystemInv
  <1>4. Quiet'
    <2> SUFFICES ASSUME checked'[TheIssuer] = {}
                 PROVE  pc' = "idle" /\ hz' = [r \in RequestIds |-> NoRequest]
      BY DEF Quiet
    <2>1. /\ checked[TheIssuer] = {}
          /\ pc = "idle" /\ hz = [r \in RequestIds |-> NoRequest]
      BY <1>1, CheckedGrows DEF SystemInv, Quiet
    <2>2. CASE IssuerWork
      BY <2>1, <2>2 DEF IssuerWork, requestVars, worker
    <2>3. CASE \/ \E c \in CRs : Reconcile(c)
               \/ Work
               \/ (InformerStep \/ ClusterStep) /\ UNCHANGED issuerVars
      <3>1. UNCHANGED issuerVars
        BY <2>3 DEF Reconcile, ClientRefused, systemVars, Work
      <3> QED BY <2>1, <2>3, <3>1, RequestsKeepQuiet
    <2>4. CASE UNCHANGED systemVars
      BY <2>1, <2>4 DEF systemVars, vars, worker
    <2> QED BY <2>2, <2>3, <2>4 DEF SystemNext
  <1> QED
    BY <1>2, <1>3, <1>4 DEF SystemInv

(* Nothing reaches Horizon before the issuer passed a health check, also   *)
(* when its spec was edited meanwhile, however often.                      *)
THEOREM ChecksComeFirst == SystemSpec => []SubmittedAfterCheck
  <1>1. SystemInv => SubmittedAfterCheck
    BY DEF SystemInv, Quiet, SubmittedAfterCheck, NoRequest
  <1> QED
    BY SystemStarts, SystemSteps, <1>1, PTL DEF SystemSpec

(* The issuer controller keeps its promise in the composition.             *)
THEOREM SystemReadyIsEarned == SystemSpec => []ReadyWasChecked
  <1>1. SystemInv => ReadyWasChecked
    BY DEF SystemInv, IssuerInv, Earned
  <1> QED
    BY SystemStarts, SystemSteps, <1>1, PTL DEF SystemSpec

-----------------------------------------------------------------------------
(* The requests' controller implements Issuance in the composition too,    *)
(* where Horizon may be away for good and the issuer changes at any time.  *)

(* A poll that fails because Horizon is away ends as any failed poll does. *)
LEMMA PollAborted ==
  ASSUME LInv, pc \in {"poll", "chain"}, Return(AfterError(local), "error"),
         UNCHANGED <<obj, cache, known, queue, hz, parent, issuer, disturbed>>
  PROVE  LInv'
  <1> USE DEF LInv, IInv, Typed
  <1> DEFINE x == AfterError(local)
  <1>1. /\ pc' = "write" /\ local' = x /\ outcome' = "error" /\ replaces' = None
        /\ UNCHANGED <<cur, base>>
        /\ local \in Object /\ pc \in Updating /\ cur \in CRs
    BY DEF Return, TypeOK, Updating, PCs
  <1>2. /\ cur \in Ours /\ Present(base) /\ ~Settled(base)
        /\ Sound(hz, cur, base) /\ Sound(hz, cur, local)
        /\ local.meta.life = base.meta.life
        /\ base.meta.requestId \in {None, local.meta.requestId}
        /\ base.meta.certificateId \in {None, local.meta.certificateId}
    BY <1>1 DEF WorkerSound, Updating
  <1>3. /\ Undecided(base) /\ ~Settled(local) /\ Lags(base, obj[cur])
        /\ Edits(base, local) /\ local.meta.requestId = base.meta.requestId
    BY <1>1 DEF WorkerEdits, Updating
  <1>4. local.status.ready # "Failed" /\ local.status.invalid = FALSE
    BY <1>1, <1>2, <1>3 DEF Settled, Sound, Object, Status
  <1>5. /\ x \in Object /\ SameButReady(local, x) /\ x.status.ready = "Pending"
        /\ Sound(hz, cur, x)
    BY <1>1, <1>2, <1>4, HandlersTyped, ReadyFields, ReadySound DEF OptionalId
  <1> HIDE DEF x
  <1>6. Typed' /\ ObjectsSound'
    BY <1>1, <1>5 DEF TypeOK, PCs, Outcomes, Submitting, OptionalId, ObjectsSound
  <1>7. WorkerSound'
    BY <1>1, <1>2, <1>5 DEF WorkerSound, SameButReady, Updating, Submitting
  <1>8. Edits(base, x)
    BY <1>3, <1>5 DEF Edits, SameButReady, Settled
  <1>9. WorkerEdits'
    BY <1>1, <1>3, <1>8 DEF WorkerEdits, Updating, Submitting
  <1> QED
    BY <1>6, <1>7, <1>9 DEF ParentsSound, KnownSound, RenewTargetsPredecessor,
                            StraysUntouched, CachesLag, RecordsKept

(* So does a revocation.                                                   *)
LEMMA RevocationAborted ==
  ASSUME LInv, pc = "revoke", Finish("error"),
         UNCHANGED <<obj, cache, known, hz, parent, issuer, disturbed>>
  PROVE  LInv'
  <1> USE DEF LInv, IInv, Typed
  <1>1. /\ pc' = "idle" /\ cur' = None /\ base' = Blank("absent")
        /\ local' = Blank("absent") /\ outcome' = "done" /\ replaces' = None
        /\ queue' \subseteq CRs
    BY DEF Finish, TypeOK
  <1>2. Blank("absent") \in Object
    BY BlankTyped DEF Life
  <1> QED
    BY <1>1, <1>2 DEF TypeOK, PCs, Outcomes, OptionalId, Submitting, ObjectsSound,
           WorkerSound, Updating, ParentsSound, KnownSound, RenewTargetsPredecessor,
           StraysUntouched, CachesLag, WorkerEdits, RecordsKept

(* What the requests' controller reads of its issuer is well-formed.       *)
LEMMA CachedIssuerTyped == SystemInv => issuer \in Issuer
  BY SystemAssumption, IssuerAssumption
     DEF SystemInv, IssuerInv, IssuerTypeOK, CachedIssuer, IssuerObject, IssuerSpec,
         Issuer

(* A step of the composition is one of the requests' controller, a call    *)
(* that Horizon does not answer, or one that no request notices.           *)
LEMMA SystemStepKinds ==
  ASSUME [SystemNext]_systemVars
  PROVE  \/ [Next]_vars
         \/ Unreachable
         \/ UNCHANGED requestVars
  BY DEF SystemNext, systemVars, Reconcile, ClientRefused, Work, IssuerWork, Next,
         WorkerStep, Environment

(* LInv carries over.                                                      *)
LEMMA SystemKeepsLInv ==
  ASSUME SystemInv, SystemInv', LInv, [SystemNext]_systemVars PROVE LInv'
  <1>1. CASE [Next]_vars
    BY <1>1, NextLInv
  <1>2. CASE Unreachable
    <2>1. CASE SubmitFailed
      <3>1. Next
        BY <2>1 DEF Next, WorkerStep, HorizonCall
      <3> QED BY <3>1, NextLInv
    <2> QED BY <1>2, <2>1, PollAborted, RevocationAborted DEF Unreachable
  <1>3. CASE UNCHANGED requestVars
    <2>1. UNCHANGED <<obj, cache, known, queue, worker, hz, parent, disturbed>>
      BY <1>3 DEF requestVars
    <2>2. (issuer \in Issuer)'
      BY CachedIssuerTyped, PTL
    <2>3. SharedInv'
      BY <2>1, <2>2, LInvShares DEF SharedInv, ParentsSound, RenewTargetsPredecessor,
                                    StraysUntouched, RecordsKept
    <2>4. Advances
      BY <2>1 DEF Advances, Grows, Lags
    <2> QED BY <2>1, <2>3, <2>4, SharingKeeps
  <1> QED
    BY <1>1, <1>2, <1>3, SystemStepKinds

(* The composition implements Issuance: with the real health checks in     *)
(* front of it, an issuer that is edited while it is in use and a Horizon  *)
(* that comes and goes, requests are still decided, bound and settled once.*)
THEOREM SystemImplementsIssuance == SystemSpec => ImplementsIssuance
  <1>1. SystemInit => LInv /\ Abstract!AccountInit
    BY InitLInv, InitRefines DEF SystemInit
  <1>2. SystemInv /\ LInv /\ [SystemNext]_systemVars => SystemInv' /\ LInv'
    BY SystemSteps, SystemKeepsLInv
  <1>3. LInv /\ [SystemNext]_systemVars => [Abstract!AccountNext]_(Abstract!account)
    <2> SUFFICES ASSUME LInv, [SystemNext]_systemVars
                 PROVE  [Abstract!AccountNext]_(Abstract!account)
      OBVIOUS
    <2>1. CASE Unreachable \/ UNCHANGED requestVars
      <3>1. UNCHANGED <<obj, hz>>
        BY <2>1 DEF Unreachable, requestVars, SubmitFailed
      <3>2. UNCHANGED <<Requests, hz>>
        BY <3>1 DEF Requests, Account
      <3> QED BY <3>2, NothingHappens
    <2> QED BY <2>1, SystemStepKinds, NextRefines
  <1> QED
    BY <1>1, <1>2, <1>3, SystemStarts, PTL
       DEF SystemSpec, ImplementsIssuance, Abstract!AccountSpec
=============================================================================
