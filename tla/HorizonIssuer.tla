---------------------------- MODULE HorizonIssuer ---------------------------
(***************************************************************************)
(* What the handlers of internal/issuer/horizon/issuer.go, and the parts   *)
(* of the controller that edit the object, do to the CertificateRequest in *)
(* memory.  Each operator is a function of the object; the calls to        *)
(* Horizon that choose between them are actions of the controller.         *)
(***************************************************************************)
EXTENDS CertificateRequest

(* SubmitEnrollRequest and SubmitRenewRequest, after Horizon answered.     *)
RecordSubmission(o, r) ==
  SetReady([o EXCEPT !.meta.requestId = r], "Pending")

(* The request was refused: the InvalidRequest condition is what later     *)
(* turns the error into a terminal failure.                                *)
HandleFailedRequest(o) == [o EXCEPT !.status.invalid = TRUE]

HandleDeniedRequest(o) == [o EXCEPT !.status.denied = TRUE]

(* handleCompletedRequest up to the trust chain call.                      *)
ApproveCompleted(o) == [o EXCEPT !.status.approved = TRUE]

(* Mutant: the Ready condition is forgotten.                               *)
CompletedWithoutReady(o, certificate) ==
  [o EXCEPT !.meta.certificateId = certificate,
            !.status.certificate = certificate]

(* The deferred half of handleCompletedRequest, run with the certificate   *)
(* that buildPemTrustchain returned; None stands for the empty string.     *)
HandleCompletedRequest(o, certificate) ==
  IF certificate = None THEN o
  ELSE SetReady([o EXCEPT !.meta.certificateId = certificate,
                          !.status.certificate = certificate], "Issued")

(* Mutant: every error is taken for an invalid request.                    *)
AfterErrorFails(o) == SetReady([o EXCEPT !.status.failureTime = TRUE], "Failed")

(* The deferred function of Reconcile when err is not nil.                 *)
AfterError(o) ==
  SetReady([o EXCEPT !.status.failureTime = TRUE],
           IF o.status.invalid THEN "Failed" ELSE "Pending")

(* Mutant: the denial is reported as if it were an error.                  *)
MarkDeniedPending(o) == SetReady([o EXCEPT !.status.failureTime = TRUE], "Pending")

(* The branch of Reconcile for a request that an approver denied.          *)
MarkDenied(o) == SetReady([o EXCEPT !.status.failureTime = TRUE], "Denied")

(* AddFinalizer, in memory only: it is stored by the next Update.          *)
RegisterFinalizer(o) == [o EXCEPT !.meta.finalizer = TRUE]

=============================================================================
