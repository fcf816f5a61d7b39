------------------------------- MODULE System -------------------------------
(***************************************************************************)
(* The two controllers of one manager together.  They share the informer   *)
(* cache of the issuers: what the CertificateRequest controller knows of   *)
(* its issuer is the copy of it that IssuerController calls seen, read     *)
(* with IsReady, whatever generation the condition is about.  They share   *)
(* Horizon and the Secret: a client is built from the cached spec for each *)
(* reconciliation, and every call fails while Horizon is away.             *)
(***************************************************************************)
EXTENDS CertificateRequestProperties, IssuerController

CONSTANT TheIssuer   \* the issuer the requests refer to

ASSUME SystemAssumption == TheIssuer \in IssuerNames

requestVars == <<obj, cache, known, queue, worker, hz, parent, disturbed>>
systemVars == <<vars, issuerVars>>

(* issuerFromRequest, through the cache.                                   *)
CachedIssuer == [exists |-> seen[TheIssuer].exists,
                 ready  |-> seen[TheIssuer].ready = "True",
                 revoke |-> seen[TheIssuer].spec.revoke]

SystemInit == Init /\ IssuerInit /\ issuer = CachedIssuer

-----------------------------------------------------------------------------
(* The CertificateRequest controller.                                      *)

(* The Secret is missing or yields no client: the error is returned before *)
(* the deferred update is armed, and the queue keeps the request.          *)
ClientRefused(c) ==
  /\ Dequeue(c) /\ Reconcilable(c) /\ ~Usable(TheIssuer)
  /\ UNCHANGED systemVars

Reconcile(c) ==
  \/ ClientRefused(c)
  \/ /\ Reconcilable(c) => Usable(TheIssuer)
     /\ ReconcileStart(c)
     /\ UNCHANGED issuerVars

(* While Horizon is away its calls end as their errors do.                 *)
Unreachable ==
  /\ ~horizonUp
  /\ \/ SubmitFailed
     \/ /\ pc \in {"poll", "chain"} /\ Return(AfterError(local), "error")
        /\ UNCHANGED <<obj, cache, known, queue, hz, parent, issuer, disturbed>>
     \/ /\ pc = "revoke" /\ Finish("error")
        /\ UNCHANGED <<obj, cache, known, hz, parent, issuer, disturbed>>

Work ==
  /\ (horizonUp /\ HorizonCall) \/ Unreachable \/ ApiCall
  /\ UNCHANGED issuerVars

-----------------------------------------------------------------------------
(* The issuer controller, whose cache is what the requests see.  Restarts  *)
(* and the removal of issuers are left to the modules of the controllers.  *)
IssuerWork ==
  /\ \/ \E i \in IssuerNames :
          \/ ReconcileIssuer(i) \/ IssuerEvent(i)
          \/ IntervalOver(i) \/ ResyncIssuer(i) \/ WriteSpec(i)
     \/ CheckOrWrite \/ WriteSecret \/ HorizonChanges
  /\ issuer' = CachedIssuer'
  /\ UNCHANGED requestVars

SystemNext ==
  \/ \E c \in CRs : Reconcile(c)
  \/ Work \/ IssuerWork
  \/ (InformerStep \/ ClusterStep) /\ UNCHANGED issuerVars

(* What the runtime guarantees for both controllers, the resyncs included; *)
(* nothing is assumed of Horizon, of the Secret or of the issuer's health. *)
(* Weak fairness is enough as long as each queue serves one object.        *)
SystemFairness ==
  /\ WF_systemVars(Work) /\ WF_issuerVars(CheckOrWrite)
  /\ \A c \in CRs : /\ WF_systemVars(Reconcile(c))
                    /\ WF_systemVars(Deliver(c) /\ UNCHANGED issuerVars)
                    /\ WF_systemVars(Resync(c) /\ UNCHANGED issuerVars)
  /\ \A k \in Certificates :
       WF_systemVars(DeliverCertificate(k) /\ UNCHANGED issuerVars)
  /\ \A i \in IssuerNames :
       /\ WF_issuerVars(ReconcileIssuer(i)) /\ WF_issuerVars(IssuerEvent(i))
       /\ WF_issuerVars(IntervalOver(i)) /\ WF_issuerVars(ResyncIssuer(i))

SystemSpec == SystemInit /\ [][SystemNext]_systemVars /\ SystemFairness

-----------------------------------------------------------------------------
(* Properties of the composition.                                          *)

(* Nothing is submitted for an issuer that never passed a health check.    *)
(* IsReady does not compare generations, so an edited spec is used before  *)
(* it is checked, but some generation of the issuer was.                   *)
SubmittedAfterCheck ==
  \A r \in RequestIds : hz[r].owner # None => checked[TheIssuer] # {}

Healthy ==
  stored[TheIssuer].exists /\ horizonUp /\ CredentialsWork(TheIssuer)

(* There is nothing the controller should do for c now.                    *)
Waiting(c) ==
  IF obj[c].meta.requestId = None
  THEN parent[ParentOf[c]].issuing = "none"
  ELSE hz[obj[c].meta.requestId].status \in {"pending", "approved"}

(* With an issuer that becomes healthy and stays so, no request is left    *)
(* behind: again and again it is settled, waits for Horizon or for its     *)
(* Certificate, is approved (see CompletedDelivered) or being deleted.     *)
(* The requests that were dropped from the queue while the issuer was not  *)
(* ready come back, whichever controller sees the recovery first.          *)
HealthyServes ==
  <>[]Healthy =>
    \A c \in Ours : []<>(\/ Abandoned(c) \/ Settled(obj[c]) \/ Waiting(c)
                         \/ obj[c].status.approved)

(* With an issuer that breaks and stays broken, Horizon is left alone: no  *)
(* request is turned into Failed by submissions that cannot succeed, once  *)
(* the health check has noticed.                                           *)
BrokenStopsServing ==
  (\/ <>[](stored[TheIssuer].exists /\ ~horizonUp)
   \/ <>[](stored[TheIssuer].exists /\ ~CredentialsWork(TheIssuer)))
  => <>[](pc \notin Submitting \cup {"poll", "chain", "revoke"})
=============================================================================
