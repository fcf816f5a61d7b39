# A TLA+ verification of horizon-issuer

horizon-issuer is an external issuer for cert-manager. It watches
`CertificateRequest` objects, submits them to an EverTrust Horizon server, polls
the server for its decision, and writes the certificate back. These modules model
its controllers, the objects they share with cert-manager, and the Horizon server
as the code uses it. TLC checks them on small instances, and TLAPS proves the main
safety properties for every instance.

## 1. The system

| Component | State | Operations | Interacts with |
|---|---|---|---|
| CertificateRequest controller (`internal/controller/certificaterequest_controller.go`) | none of its own: a work queue, an informer cache, one object in memory | `Reconcile`, its deferred update, `handleDeletion` | API server (read through the cache, `Update`, `Status().Update`), Horizon, the parent Certificate |
| Horizon handlers (`internal/issuer/horizon/issuer.go`) | a Horizon client | submit (enroll, renew), `UpdateRequest` with its four handlers, revoke | Horizon, the object in memory |
| Enrollment metadata (`certificateMetadata`, `SubmitEnrollRequest`) | local variables | merge of templates, annotations and Horizon's proposal | issuer spec, Ingress, Certificate |
| Trust chain (`buildPemTrustchain`) | local variables | one loop | result of `handleCompletedRequest` |
| Issuer/ClusterIssuer controller (`internal/controller/issuer_controller.go`) | work queue, cache, `Ready` condition | `Reconcile`, deferred status write, health check | Secret, Horizon, API server |
| Horizon client (`internal/issuer/horizon/util.go`) | none | `ClientFromIssuer` | Secret, issuer spec |
| Horizon server (external) | requests and certificates | accept, decide, revoke | the handlers |
| Manager (`cmd/main.go`) | the lease of leader election | start and stop of all controllers | the other managers, through the lease and the API server |
| Error texts, API types, generated code, chart, tests | | wording, data types | |

What is hard here:

* One reconciliation writes **either** the metadata (`Update`) **or** the status
  (`Status().Update`), never both. Issuing a certificate therefore takes two
  passes, and everything else may happen between them.
* The worker reads from a **cache** that may lag behind its own writes; only the
  optimistic lock of the API server protects the stored object.
* Calls to Horizon are **not undone** when a later write fails, and Horizon is not
  asked whether a request was submitted before.
* Several **errors are swallowed** (parent update, removal of the finalizer,
  metadata), and several returns **requeue nothing** (issuer not ready, first
  condition, approved by somebody else), so progress rests on watch events, on
  intervals or on the resync.
* Whether a request is looked at depends on a **condition that another controller**
  writes, read from a cache, about a spec that may have been edited since.
* **Two managers** may run at once: always without `--leader-elect`, which is the
  default of the flag, and with it while the lease changes hands.

`PROJECT.json` lists these hazards one by one, each at its line, with the
properties aimed at it.

## 2. Modules

| Module | Models |
|---|---|
| `CertificateRequest` | the object: metadata (finalizer, request-id, certificate-id) and status (conditions, certificate), which are stored by different API calls |
| `HorizonIssuer` | what each handler, and each in-memory edit of the controller, does to the object |
| `Horizon` | the server (external): requests with owner, workflow and status, and their revocation |
| `CertificateRequestController` | `Reconcile`, with API server, cache, queue, parent Certificate, issuer, faults and people around it |
| `Issuance` | what that controller promises, without caches, queues, passes and faults: the abstract specification |
| `CertificateRequestProperties` | its properties, among them that it implements `Issuance` |
| `CertificateRequestProofs` | proofs of its invariants and of two action properties |
| `IssuanceProofs` | the proof that it implements `Issuance` |
| `AftercareProofs` | the proof of what becomes of a certificate: revocation on deletion |
| `LeaderChange`, `LeaderChangeProofs` | two managers on one cluster, with and without leader election, and proofs |
| `System`, `SystemProofs` | the two controllers of one manager together, the properties of the composition, and proofs |
| `IssuerController`, `IssuerControllerProofs` | `IssuerReconciler` with its properties, and their proofs |
| `CertificateMetadata`, `CertificateMetadataProofs` | `certificateMetadata` and the merge in `SubmitEnrollRequest`, and proofs |
| `TrustChain`, `TrustChainProofs` | `buildPemTrustchain`, and the proof |
| `MCCertificateRequest`, `MCLeaderChange`, `MCIssuer`, `MCSystem`, `MCAlgorithms` | small instances for TLC |

`CertificateRequestController` EXTENDS `Horizon`, which EXTENDS `HorizonIssuer`,
which EXTENDS `CertificateRequest`. `LeaderChange` EXTENDS
`CertificateRequestProperties` for the first manager and INSTANCEs
`CertificateRequestController` a second time for the other one. `System` EXTENDS
`CertificateRequestProperties` and `IssuerController`. The proofs build on each other:
`AftercareProofs` EXTENDS `IssuanceProofs`, which EXTENDS `CertificateRequestProofs`;
`SystemProofs` EXTENDS `IssuanceProofs`; `LeaderChangeProofs` EXTENDS `AftercareProofs`
for the first manager and INSTANCEs it for the second.

### CertificateRequestController

The variables: `obj` and `cache` are the stored requests and the informer's copies,
`parent` and `known` the same for the Certificates; `queue` is the work queue; `pc`,
`cur`, `base`, `local`, `outcome` and `replaces` are the worker (`base` is what it
read, `local` is the object it edits, `outcome` is what `Reconcile` will return,
`replaces` is the last-certificate-id it read for a renewal); `hz` is Horizon, `issuer`
the issuer the requests refer to.

`Reconcile` is cut at its calls to Horizon and at its writes. Its start, from the read
to the first of them, is one step, DNS lookups included: the actions of
`ReconcileStart` are the branches of the code up to that call, guarded by the
conditions of its early returns. Then follow the call to Horizon (`HorizonCall`; the
template call and the submission are one), the write of the deferred function
(`WriteStored`, `WriteConflict`, `WriteFailed`, `WriteLost`), and the update of the
parent. `Stored` chooses what the write stores by comparing annotations, as the code
does.

The parent is read from the cache and written under the optimistic lock
(`ParentUpdated`). cert-manager writes to Certificates all the time, and only its
Issuing condition is modelled (`SetIssuing`); any of its other writes makes the update
fail as well, so `ParentSkipped` is possible at every update and costs no disturbance.

Abstractions:

* A certificate is identified with the Horizon request that produced it. The
  owner, team, e-mail and label annotations of an issued request are written
  together with certificate-id and are folded into it.
* The optimistic lock compares contents instead of resource versions. They differ
  only for an object that was changed and changed back.
* `failureTime` is a Boolean. Its new value at each error makes one more watch
  event in the real system; the error queues the request anyway.
* A missing `Issuing` condition is a nil pointer: the panic runs the deferred
  function with `err = nil`, and controller-runtime recovers and retries.
* Horizon may refuse any submission. Revoking an empty certificate may be
  refused or accepted. A repeated revocation is accepted, faults aside.
* `RevokeCertificate` submits a revocation request and drops the response; the code
  never learns whether Horizon carries it out, leaves it pending or denies it. The
  `revoking` mark of `Horizon` says that the request was accepted, and the
  properties about revocation say no more than that.
* Faults and outside decisions other than those of Horizon and cert-manager are
  *disturbances*. A run names the kinds it allows (`Disturbances`) and how many
  there may be (`MaxDisturbances`).

### IssuerController

`stored`, `seen`, `pending` and `delayed` are the issuers, their cached copies, the
queue and the timers of `RequeueAfter`. A reconciliation is the read with the
construction of the client (`FirstSeen`, `ClientFails`, `StartCheck`), the health
check, and the deferred status write. `checked` is a history variable: the
generations whose check succeeded. A deleted issuer is not created again. Issuer and
ClusterIssuer differ only in the namespace of their Secret, so one module serves both.

### Issuance, the abstract specification

`Issuance` keeps an account of each CertificateRequest (its life, the decision on it,
its result, the Horizon request it is bound to, its certificate) and of each request
held by Horizon (whom it was submitted for, whether it produced a certificate, whether
Horizon was asked to revoke that). Its actions say what may happen to them: a request
is decided once, bound once, to a submission made for it and while it is undecided, and settled once; a
certificate is handed out only together with the approval; a revocation is requested
only once the deletion of its request was asked for. Offering one request to Horizon
several times is allowed: the code does not prevent it, and only the binding counts.

The refinement mapping (`Account`, `Abstract` in `CertificateRequestProperties`) reads
the account off the stored objects and off Horizon; cache, queue and worker have no
counterpart. The `status` and `metadata` passes of the controller become single steps
of the account: the pass that stores the annotations of an issued request is a
stutter, the one that stores its status is `Issue`.

### LeaderChange

The second manager has its own cache, queue and worker and shares everything else.
`stopping` and `leading2` are the hand-over: a manager that was told to stop begins no
further reconciliation but finishes the one it is in; with
`LeaderElectionReleaseOnCancel` the lease is released when the worker is idle, or when
the grace period is over and it is not. The informers of the second manager run
before it leads. A manager that is cut off from the API server while its lease expires
does what two managers without leader election do, which is a case of its own.

### System

`issuer`, the variable of the requests' controller, becomes the cached copy `seen` of
the issuer that the issuer controller works on (`CachedIssuer`). The client is built
from that copy and from the Secret as it is at that moment (`ClientRefused` if it
cannot be), and while Horizon is away every call to it fails (`Unreachable`). Readiness
is no longer an assumption, as it is in `CertificateRequestController`, but the work of
the other controller.

### CertificateMetadata and TrustChain

Both are sequential. The annotations are visited one key per step in any order, as a
Go map is. When the sources cannot be read, the enrollment is submitted all the same,
with what Horizon proposes and nothing of the override template, which the API
documentation calls enforced; `StrongestSourceSent` says so. The chain's loop has one action per branch. Strings are
members of a set; the empty string and nil are distinct.

## 3. Runs

| Run | Checks | Instance |
|---|---|---|
| `one_request` | `TypeOK`, `IssuedIsBacked`, `DecidedOnce`, `RecordedNeverFails`, `SettledIsFinal`, `RequestIdIsFinal`, `RevokedBeforeRemoval`, `ImplementsIssuance` | one request, two Horizon ids, two disturbances of any kind |
| `renewal` | `RenewTargetsPredecessor` | two requests of one Certificate |
| `strays` | `StraysUntouched` | a request of another API group and one without Certificate |
| `events` | `DeliveredByEvents` | one request, two Horizon ids, one disturbance, no resync |
| `liveness` | `DenialReported`, `CompletedDelivered`, `RequestSubmitted`, `DeletionCompletes`, `RevokeOnDeletion` | one request, two disturbances, `revokeCertificates` set or not, and kept |
| `issuer` | `IssuerTypeOK`, `ReadyWasChecked`, `NeverForgotten`, `VerdictIsCurrent`, `NoRelapse`, `HealthyBecomesReady`, `BrokenBecomesUnready` | one issuer, four specs, seven Secrets, two generations |
| `leader_change` | `ImplementsIssuance` | two managers, one request, two Horizon ids, one deletion or expired grace period |
| `system` | `SubmittedAfterCheck`, `HealthyServes`, `BrokenStopsServing` | one request, one Horizon id, one issuer, a Secret and a Horizon that come and go, no health check interval |
| `algorithms` | `MetadataTypeOK`, `StrongestSourceSent`, `BundleInOrder` | one field, one label, four sources; chains of up to four certificates |

Every property is stated in words above its definition. Four of them are narrower than
their names:

* `CompletedDelivered`, `DeliveredByEvents` and `RequestSubmitted` are checked without
  approvers that approve on their own (such a request is neither submitted nor polled);
  the first two also with a chain that can be fetched and holds more than a root.
  `CompletedDelivered` without these restrictions fails; the run `chain` shows one case.
* `DeletionCompletes` says nothing of a request that is deleted before it has a
  certificate: Horizon may refuse to revoke nothing, each time.

Three runs show where the code does something other than what its documentation or
comments say; PROJECT.json quotes the lines under "findings".

| Run | What happens |
|---|---|
| `submitted_once` | Horizon accepts a request, the write of its id fails, and the next pass submits it again. |
| `chain` | `handleCompletedRequest` sets Approved, the trust chain call fails, and the stored Approved condition keeps the request from being polled ever again. |
| `parent_skipped` | The update of the parent conflicts after both passes, the errors are dropped, and the parent never names the certificate just issued. |

`RevokeOnDeletion` holds while `revokeCertificates` keeps its value: `liveness` checks it,
and `RevokedOnDeletion` proves it for every issuer that is not edited. Switched on after
a request was issued, the setting does not cover it: such a request has no finalizer, gets
none, and is deleted without a revocation, although the documentation of the setting
names all certificates that have been issued. What holds whoever edits the setting is
`RevokedBeforeRemoval`: an object that has its finalizer keeps it until the revocation
was accepted.

For `ParentKnowsCertificate` there is no such case; what remains true of the annotation,
that it names some certificate issued for that Certificate, is part of the proof of
`RenewTargetsPredecessor`.

### Bounds

One request suffices for the properties of a single object: requests meet only in the
parent Certificate and in the queue, and `renewal` and `strays` have two. Two Horizon
ids let a request be submitted twice, which is the case that could mix up
certificates. Two disturbances allow a fault followed by an outside decision, such as
a lost write and then a denial; the counterexamples found need at most two. The
`liveness` run has one id: a second submission is then refused, which Horizon may do
anyway; `events` has two ids, but one disturbance. `Reasons` are the Issuing conditions
that cert-manager may set: the reasons for a renewal matter only where a Certificate has
an earlier certificate, that is in `renewal`, and the condition comes and goes except in
`leader_change` and `system`, where it is set once. An issuer's two
generations allow an edit during a check or after it. In `leader_change` the second
manager takes the place of the faults: each manager sees the other's writes as
conflicts and as a stale cache. With the condition set once, that system comes to rest
when its only request is deleted, so deadlock is not checked there; nor is it in
`algorithms`, whose loops end. `system` has one generation of the issuer, no faults and
no disturbances, because the product of the two controllers is large; what varies is
the Secret and Horizon, without a bound, at every point of both reconciliations, and
`ChecksComeFirst` covers edits of the spec by proof. Horizon's ids, and requests with
the same parent and group, are interchangeable, so the runs without liveness
properties use them as symmetry sets; the others use none.

### Fairness

`EventFairness` is what controller-runtime guarantees: the worker goes on between two
calls (every call has a timeout or returns), a queued request gets its turn (the queue
is a FIFO; strong fairness, because the worker is busy with others in between), and
watch events arrive. `PeriodicFairness` adds the resync of the informer (ten hours by
default) and an issuer that eventually recovers, as `HealthyBecomesReady` shows of an
issuer whose Horizon and credentials work. Nothing is assumed of cert-manager, of
approvers, or of when Horizon decides. `IssuerFairness` is the same for the issuers,
with timers that run out. `SystemFairness` assumes as much of both controllers, with
both resyncs, and drops the assumption that the issuer recovers: `HealthyServes` and
`BrokenStopsServing` ask only what Horizon, the Secret and the spec are in the end.
Its fairness is weak throughout, which is enough for queues of one object. The interval
is zero in that run, so that the resync alone repeats a health check that succeeded.

## 4. Proofs

The theorems hold for any number of requests, Certificates, identifiers, issuers,
disturbances and generations, under the named ASSUMEs of the modules: `None` is no id,
no request and no Certificate, `Ours` is a set of requests, `ParentOf` maps requests to
Certificates or `None`, bounds are natural numbers, an issuer has at least one possible
spec.

* **CertificateRequestProofs** proves `TypeOK`, `IssuedIsBacked`, `DecidedOnce`,
  `RecordedNeverFails`, `RenewTargetsPredecessor`, `StraysUntouched`, `SettledIsFinal`
  and `RequestIdIsFinal`. None of the safety invariants is inductive: what is stored
  depends on what the worker holds, on what it read, and on the cache. `IInv`
  therefore says of every copy of an object (stored, cached, read, edited) that it is
  *sound*: its ids belong to Horizon requests of its owner, a certificate-id is its
  own request-id and is completed, an issued object is approved, an object with a
  request-id has not failed, and it is not approved and denied at once. It also says,
  for each `pc`, how `local` may differ from `base`, and that the last-certificate-id of
  a parent, of its cached copy (`KnownSound`) and of a renewal under way is a completed
  request of one of its own requests. The optimistic lock (`Current`) then makes every
  write a write over the object that was read. One lemma per group of actions shows that `IInv` is kept; the two action
  properties follow from `IInv` and one step.
* **IssuanceProofs** proves `ImplementsIssuance`. `IInv` is not enough: it says that
  every copy of an object is sound, not that it is an *earlier state* of the stored
  one. `LInv` adds three parts. `CachesLag`: a cached object that is being deleted is
  still being deleted or gone by now, and a request-id once seen is still there; this
  is what `Revoke` needs, which the worker asks for on the strength of an old copy.
  `WorkerEdits`: the same for what the worker read, and what its edits may be at each
  `pc`; an object on which somebody has decided is neither bound nor decided nor
  settled, except that a denial is reported. `RecordsKept`: an id that Horizon has not
  handed out is blank, so that a submission appears in the account as a fresh one. One lemma
  per writer then finds the step of `Issuance`: `WriteRefines` for the deferred
  function (bind, issue, fail, deny, or no change that counts), `ClusterRefines` for
  cert-manager and the approvers, `RemovalRefines` and `RevocationRefines` for
  `handleDeletion`, `SubmissionRefines` and `VerdictRefines` for Horizon. The section
  on sharing says what `LInv` tolerates from others (`SharingKeeps`): anything that
  keeps the shared state in order (`SharedInv`) and moves it forward only (`Advances`).
* **AftercareProofs** proves `RevokedBeforeRemoval`, and `RevokeOnDeletion` under the
  hypothesis that nobody edits `revokeCertificates`, without which it is false (section
  3). The invariant: the worker that is about to remove the finalizer has seen the
  revocation accepted (`RevokedFirst`), which is enough for the first; for the second,
  under an issuer that revokes, whatever is bound to a Horizon request has its finalizer
  (`Guarded`).
* **LeaderChangeProofs** proves, for two managers with a lease or without one,
  `ImplementsIssuance`, `IssuedIsBacked`, `RenewTargetsPredecessor`, `SettledIsFinal`,
  `RequestIdIsFinal` and, for an issuer that is not edited, `RevokeOnDeletion`.
  The invariant is `LInv` (with the guards of the finalizer, for the last one) of each
  manager by itself. A step of one manager keeps its own invariant as if it were alone;
  by `NextAdvances` it moves the shared state forward, so by `SharingKeeps` it keeps the
  other's. Nothing about the lease is used: the optimistic lock alone carries the
  theorems. The lemmas `Same...` identify the actions of the second manager, as
  `LeaderChange` instantiates them, with those of the instance of `AftercareProofs`.
* **IssuerControllerProofs** proves the three invariants and the two action properties
  of the issuer controller. The strengthening: every copy of Ready=True was earned, the
  worker's verdict is about the generation it read, the cache never runs ahead of the API server, and a result that requeues nothing belongs to a first
  condition whose event is still to come or has queued the issuer already.
* **SystemProofs** proves `SubmittedAfterCheck` and `ReadyWasChecked` of the
  composition. Every step of the system is a step of the issuer controller or leaves
  its variables alone, so `IssuerInv` carries over. To it are added that the requests'
  controller sees the cached issuer, and `Quiet`: as long as no check succeeded, its
  worker is idle and Horizon has heard of no request. A condition Ready=True in any
  copy was earned, so no reconciliation gets past `IsReady` before that. It also proves
  that the composition implements `Issuance`: a step of the system is a step of the
  requests' controller, a call that fails because Horizon is away (its branch for an
  error, without a disturbance), a client that cannot be built, or a step of the issuer
  controller, which writes no request.
* **CertificateMetadataProofs** proves `MetadataTypeOK`, and `StrongestSourceSent` from
  the loop invariant `Visiting`: visited annotations are in place, unvisited ones have
  not touched the defaults.
* **TrustChainProofs** proves `BundleInOrder` from the loop invariant `Looping`.

Every invariant and every action property of the passing runs is stated by a theorem.
Only model-checked is what must eventually happen, because fairness and ENABLED are
beyond the prover: `DeliveredByEvents`, `DenialReported`, `CompletedDelivered`,
`RequestSubmitted`, `DeletionCompletes`, `HealthyBecomesReady`, `BrokenBecomesUnready`,
`HealthyServes` and `BrokenStopsServing`. The counterexamples of the three runs that
expect a violation are TLC's as well.

## 5. Not modelled

* In the composition: restarts and the removal of an issuer, which the modules of the
  two controllers have, and several issuers for one request.
* Profile, URL, proxy and TLS settings beyond whether a client can be built; DNS
  lookups beyond success and failure; events and logs; the wording of conditions
  (`formatAPIError`, `formatBasicError`).
* The profile of an enrollment comes from the issuer as `Reconcile` read it, its
  templates from a second read in `certificateMetadata`; the modules take both from
  one issuer.
* Of `cmd/main.go`: flags other than `--leader-elect` and `--health-check-interval`,
  TLS, metrics, probes and the look-up of the namespace. Generated code, manifests,
  chart and tests.

## 6. Plan

Done: the CertificateRequest controller and the abstract specification it implements,
the issuer controller, the two together, two managers, the two sequential algorithms,
and proofs of all safety properties that the runs check. What is left, in this order:

1. `RevokeOnDeletion` for the composition, whose issuer is edited by its own actions.
2. Restarts and the removal of issuers in the composition.
