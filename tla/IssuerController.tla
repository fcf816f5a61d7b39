-------------------------- MODULE IssuerController --------------------------
(***************************************************************************)
(* IssuerReconciler of horizon-issuer, one instance of which runs for each *)
(* of the kinds Issuer and ClusterIssuer.  One worker takes an issuer from *)
(* its queue, reads it from the informer cache and the credentials from    *)
(* their Secret, builds a Horizon client, asks Horizon who it is, and in   *)
(* its deferred function writes the Ready condition.  A healthy issuer is  *)
(* looked at again after the health check interval, a failing one through  *)
(* the retries of the queue.                                               *)
(***************************************************************************)
EXTENDS Naturals

CONSTANTS
  IssuerNames,    \* the objects of this kind
  NoIssuer,       \* the idle worker's issuer
  SpecChoices,    \* the specs an administrator may write
  SecretChoices,  \* the contents the Secret may have, or NoSecret
  Periodic,       \* whether the health check interval is positive
  MaxGeneration,  \* how often a spec is written
  MaxFaults       \* how many reads and writes fail and processes crash

ConfigValues == {"absent", "parses", "broken"}
SecretKeys == {"tls.crt", "tls.key", "username", "password"}

(* revoke: revokeCertificates, which only the requests' controller reads;  *)
(* keyPair: tls.X509KeyPair accepts the two PEM blocks.                    *)
IssuerSpec == [caBundle: ConfigValues, proxy: ConfigValues, revoke: BOOLEAN]
Secret == [type: {"tls", "opaque", "other"}, keys: SUBSET SecretKeys,
           keyPair: BOOLEAN]
NoSecret == [type |-> "missing", keys |-> {}, keyPair |-> FALSE]

ASSUME IssuerAssumption ==
  /\ NoIssuer \notin IssuerNames
  /\ SpecChoices \subseteq IssuerSpec /\ SpecChoices # {}
  /\ SecretChoices \subseteq Secret \cup {NoSecret}
  /\ Periodic \in BOOLEAN
  /\ MaxGeneration \in Nat /\ MaxFaults \in Nat

VARIABLES
  stored,    \* stored[i]: the issuer in the API server
  seen,      \* seen[i]: the informer's copy of it
  pending,   \* the issuers in the work queue
  delayed,   \* the issuers to be queued when their interval is over
  step,      \* the call the worker is about to make, or "idle"
  target,    \* the issuer being reconciled
  read,      \* the issuer as it was read
  edited,    \* the issuer whose condition is being set
  verdict,   \* what Reconcile will return: done, after or error
  secret,    \* the Secret the issuers refer to
  horizonUp, \* whether Horizon answers and accepts the credentials
  checked,   \* checked[i]: the generations whose health check succeeded
  failures   \* how many faults happened so far

reconciler == <<step, target, read, edited, verdict>>
outside == <<secret, horizonUp>>
issuerVars == <<stored, seen, pending, delayed, reconciler, outside, checked, failures>>

Steps == {"idle", "check", "write"}
Verdicts == {"done", "after", "error"}

(* The status of the Ready condition, "none" when there is no condition,   *)
(* and the generation the condition was computed from.                     *)
ReadyStatus == {"none", "Unknown", "False", "True"}
IssuerObject == [exists: BOOLEAN, spec: SpecChoices, generation: 0..MaxGeneration,
                 ready: ReadyStatus, observed: 0..MaxGeneration]

(* The object before anybody created it, and after it was deleted.         *)
Missing == [exists |-> FALSE, spec |-> CHOOSE s \in SpecChoices : TRUE,
            generation |-> 0, ready |-> "none", observed |-> 0]

IssuerInit ==
  /\ stored = [i \in IssuerNames |-> Missing]
  /\ seen = stored
  /\ pending = {} /\ delayed = {}
  /\ step = "idle" /\ target = NoIssuer /\ verdict = "done"
  /\ read = Missing /\ edited = Missing
  /\ secret \in SecretChoices
  /\ horizonUp \in BOOLEAN
  /\ checked = [i \in IssuerNames |-> {}]
  /\ failures = 0

IssuerFault == failures < MaxFaults /\ failures' = failures + 1

(* Mutant: the generation is counted one too far.                          *)
SetReadyConditionAhead(o, status) ==
  [o EXCEPT !.ready = status, !.observed = o.generation + 1]

(* SetReadyCondition: the condition carries the generation it is about.    *)
SetReadyCondition(o, status) ==
  [o EXCEPT !.ready = status, !.observed = o.generation]

(* ClientFromIssuer succeeds: the CA bundle and the proxy URL parse, and   *)
(* the Secret holds the credentials its type calls for.                    *)
ClientFromIssuer(spec, s) ==
  /\ spec.caBundle # "broken"
  /\ spec.proxy # "broken"
  /\ \/ s.type = "tls" /\ {"tls.crt", "tls.key"} \subseteq s.keys /\ s.keyPair
     \/ s.type = "opaque" /\ {"username", "password"} \subseteq s.keys

-----------------------------------------------------------------------------
(* Reconcile.                                                              *)

Take(i) == step = "idle" /\ i \in pending

Enter(i, s, o, v) ==
  /\ step' = s /\ target' = i /\ read' = seen[i] /\ edited' = o /\ verdict' = v
  /\ pending' = pending \ {i}
  /\ UNCHANGED <<stored, seen, delayed, outside, checked, failures>>

IgnoreIssuer(i) ==
  /\ Take(i) /\ ~seen[i].exists
  /\ pending' = pending \ {i}
  /\ UNCHANGED <<stored, seen, delayed, reconciler, outside, checked, failures>>

(* An error of the cache other than not found: retried, nothing written.   *)
GetFails(i) ==
  /\ Take(i) /\ IssuerFault
  /\ UNCHANGED <<stored, seen, pending, delayed, reconciler, outside, checked>>

(* Mutant: every issuer that is not ready counts as first seen.            *)
FirstSeenUnready(i) ==
  /\ Take(i) /\ seen[i].exists /\ seen[i].ready # "True"
  /\ Enter(i, "write", SetReadyCondition(seen[i], "Unknown"), "done")

(* The first condition is Unknown; its own watch event leads on.           *)
FirstSeen(i) ==
  /\ Take(i) /\ seen[i].exists /\ seen[i].ready = "none"
  /\ Enter(i, "write", SetReadyCondition(seen[i], "Unknown"), "done")

Usable(i) == secret # NoSecret /\ ClientFromIssuer(seen[i].spec, secret)

(* No Secret, or no client: the error becomes Ready=False.                 *)
ClientFails(i) ==
  /\ Take(i) /\ seen[i].exists /\ seen[i].ready # "none" /\ ~Usable(i)
  /\ Enter(i, "write", SetReadyCondition(seen[i], "False"), "error")

StartCheck(i) ==
  /\ Take(i) /\ seen[i].exists /\ seen[i].ready # "none" /\ Usable(i)
  /\ Enter(i, "check", seen[i], "done")

(* Mutant: a check that succeeds is not repeated.                          *)
CheckSucceedsOnce ==
  /\ step = "check" /\ horizonUp
  /\ step' = "write" /\ edited' = SetReadyCondition(edited, "True")
  /\ checked' = [checked EXCEPT ![target] = @ \cup {edited.generation}]
  /\ UNCHANGED <<stored, seen, pending, delayed, target, read, verdict, outside,
                 failures>>

(* HorizonHealthChecker.Check.                                             *)
CheckSucceeds ==
  /\ step = "check" /\ horizonUp
  /\ step' = "write" /\ edited' = SetReadyCondition(edited, "True")
  /\ verdict' = "after"
  /\ checked' = [checked EXCEPT ![target] = @ \cup {edited.generation}]
  /\ UNCHANGED <<stored, seen, pending, delayed, target, read, outside, failures>>

(* Mutant: a failing check keeps the status and refreshes the generation.  *)
CheckFailsSoftly ==
  /\ step = "check" /\ ~horizonUp
  /\ step' = "write" /\ edited' = SetReadyCondition(edited, edited.ready)
  /\ verdict' = "error"
  /\ UNCHANGED <<stored, seen, pending, delayed, target, read, outside, checked,
                 failures>>

(* Mutant: a failing check is reported and not returned as an error.       *)
CheckFailsQuietly ==
  /\ step = "check" /\ ~horizonUp
  /\ step' = "write" /\ edited' = SetReadyCondition(edited, "False")
  /\ UNCHANGED <<stored, seen, pending, delayed, target, read, verdict, outside,
                 checked, failures>>

CheckFails ==
  /\ step = "check" /\ ~horizonUp
  /\ step' = "write" /\ edited' = SetReadyCondition(edited, "False")
  /\ verdict' = "error"
  /\ UNCHANGED <<stored, seen, pending, delayed, target, read, outside, checked,
                 failures>>

(* An error queues the issuer at once; the interval, when it is positive,  *)
(* queues it later.                                                        *)
Leave(v) ==
  /\ step' = "idle" /\ target' = NoIssuer /\ verdict' = "done"
  /\ read' = Missing /\ edited' = Missing
  /\ pending' = IF v = "error" THEN pending \cup {target} ELSE pending
  /\ delayed' = IF v = "after" /\ Periodic THEN delayed \cup {target} ELSE delayed

(* Mutant: the status is patched, whatever version is stored.              *)
StatusPatched ==
  /\ step = "write" /\ stored[target].exists
  /\ stored' = [stored EXCEPT ![target].ready = edited.ready,
                              ![target].observed = edited.observed]
  /\ Leave(verdict)
  /\ UNCHANGED <<seen, outside, checked, failures>>

(* Status().Update of the version that was read.                           *)
StatusStored ==
  /\ step = "write" /\ read = stored[target]
  /\ stored' = [stored EXCEPT ![target].ready = edited.ready,
                              ![target].observed = edited.observed]
  /\ Leave(verdict)
  /\ UNCHANGED <<seen, outside, checked, failures>>

(* A conflict or a missing object: the result is cleared and the error     *)
(* returned.                                                               *)
StatusConflict ==
  /\ step = "write" /\ read # stored[target]
  /\ Leave("error")
  /\ UNCHANGED <<stored, seen, outside, checked, failures>>

StatusFailed ==
  /\ step = "write" /\ IssuerFault
  /\ Leave("error")
  /\ UNCHANGED <<stored, seen, outside, checked>>

ReconcileIssuer(i) ==
  IgnoreIssuer(i) \/ GetFails(i) \/ FirstSeen(i) \/ ClientFails(i) \/ StartCheck(i)

CheckOrWrite ==
  \/ CheckSucceeds \/ CheckFails
  \/ StatusStored \/ StatusConflict \/ StatusFailed

-----------------------------------------------------------------------------
(* Informer, timer, process, administrator and Horizon.                    *)

IssuerEvent(i) ==
  /\ seen[i] # stored[i]
  /\ seen' = [seen EXCEPT ![i] = stored[i]]
  /\ pending' = pending \cup {i}
  /\ UNCHANGED <<stored, delayed, reconciler, outside, checked, failures>>

(* The informer's periodic resync queues every cached issuer again.        *)
ResyncIssuer(i) ==
  /\ seen[i].exists /\ i \notin pending
  /\ pending' = pending \cup {i}
  /\ UNCHANGED <<stored, seen, delayed, reconciler, outside, checked, failures>>

IntervalOver(i) ==
  /\ i \in delayed
  /\ delayed' = delayed \ {i} /\ pending' = pending \cup {i}
  /\ UNCHANGED <<stored, seen, reconciler, outside, checked, failures>>

(* Another process lists every issuer; the pending intervals are lost.     *)
RestartManager ==
  /\ IssuerFault
  /\ step' = "idle" /\ target' = NoIssuer /\ verdict' = "done"
  /\ read' = Missing /\ edited' = Missing
  /\ seen' = stored
  /\ pending' = {i \in IssuerNames : stored[i].exists}
  /\ delayed' = {}
  /\ UNCHANGED <<stored, outside, checked>>

(* Creating and editing: every new spec is a new generation.               *)
WriteSpec(i) ==
  /\ stored[i].generation < MaxGeneration
  /\ stored[i].exists \/ stored[i].generation = 0
  /\ \E spec \in SpecChoices :
       stored' = [stored EXCEPT ![i].exists = TRUE, ![i].spec = spec,
                                ![i].generation = @ + 1]
  /\ UNCHANGED <<seen, pending, delayed, reconciler, outside, checked, failures>>

RemoveIssuer(i) ==
  /\ stored[i].exists
  /\ stored' = [stored EXCEPT ![i] = [Missing EXCEPT !.generation = MaxGeneration]]
  /\ UNCHANGED <<seen, pending, delayed, reconciler, outside, checked, failures>>

(* Nothing watches the Secret.                                             *)
WriteSecret ==
  /\ secret' \in SecretChoices \ {secret}
  /\ UNCHANGED <<stored, seen, pending, delayed, reconciler, horizonUp, checked,
                 failures>>

HorizonChanges ==
  /\ horizonUp' = ~horizonUp
  /\ UNCHANGED <<stored, seen, pending, delayed, reconciler, secret, checked,
                 failures>>

Administration ==
  (\E i \in IssuerNames : WriteSpec(i) \/ RemoveIssuer(i)) \/ WriteSecret

IssuerNext ==
  \/ \E i \in IssuerNames : \/ ReconcileIssuer(i) \/ IssuerEvent(i)
                            \/ IntervalOver(i) \/ ResyncIssuer(i)
  \/ CheckOrWrite \/ RestartManager \/ Administration \/ HorizonChanges

IssuerSpecification == IssuerInit /\ [][IssuerNext]_issuerVars

(* The worker goes on, a queued issuer gets its turn, events arrive and    *)
(* intervals end.                                                          *)
IssuerFairness ==
  /\ WF_issuerVars(CheckOrWrite)
  /\ \A i \in IssuerNames : /\ SF_issuerVars(ReconcileIssuer(i))
                            /\ WF_issuerVars(IssuerEvent(i))
                            /\ WF_issuerVars(IntervalOver(i))

IssuerFairSpec == IssuerSpecification /\ IssuerFairness

-----------------------------------------------------------------------------
(* Properties.                                                             *)

(* Every variable stays in its type, and the worker has a target while it  *)
(* works.                                                                  *)
IssuerTypeOK ==
  /\ stored \in [IssuerNames -> IssuerObject]
  /\ seen \in [IssuerNames -> IssuerObject]
  /\ pending \subseteq IssuerNames /\ delayed \subseteq IssuerNames
  /\ step \in Steps /\ verdict \in Verdicts
  /\ target \in IssuerNames \cup {NoIssuer}
  /\ step # "idle" => target \in IssuerNames
  /\ read \in IssuerObject /\ edited \in IssuerObject
  /\ secret \in SecretChoices /\ horizonUp \in BOOLEAN
  /\ checked \in [IssuerNames -> SUBSET (0..MaxGeneration)]
  /\ failures \in 0..MaxFaults

(* Ready=True was earned by the generation it names: a health check of     *)
(* that very generation succeeded.  VerdictIsCurrent adds that no newer    *)
(* spec was stored when the condition was written.                         *)
ReadyWasChecked ==
  \A i \in IssuerNames :
    stored[i].ready = "True" => stored[i].observed \in checked[i]

(* A condition, Ready or not, is only ever written about the spec stored   *)
(* at that moment: the result of a check that an edit has overtaken is     *)
(* lost to the optimistic lock, and never stands beside the new spec as if *)
(* it had just been computed.                                              *)
VerdictIsCurrent ==
  [][\A i \in IssuerNames :
       /\ stored'[i].exists
       /\ \/ stored'[i].ready # stored[i].ready
          \/ stored'[i].observed # stored[i].observed
       => /\ stored'[i].observed = stored[i].generation
          /\ stored'[i].spec = stored[i].spec]_issuerVars

(* An issuer that was looked at never falls back to having no condition or *)
(* to Unknown: FirstSeen happens once, whatever the cache shows.           *)
NoRelapse ==
  [][\A i \in IssuerNames :
       stored[i].ready \in {"True", "False"} /\ stored'[i].exists =>
         stored'[i].ready \in {"True", "False"}]_issuerVars

(* With a positive interval no issuer is ever forgotten: it is queued,     *)
(* waiting for its interval, being reconciled, or has an event on its way. *)
NeverForgotten ==
  Periodic => \A i \in IssuerNames : stored[i].exists =>
    i \in pending \cup delayed \cup {target} \/ seen[i] # stored[i]

CredentialsWork(i) ==
  secret # NoSecret /\ ClientFromIssuer(stored[i].spec, secret)

(* An issuer that stays healthy becomes and stays Ready=True: errors are   *)
(* retried, and neither a Secret nor a Horizon that comes back late needs  *)
(* an event of its own.                                                    *)
HealthyBecomesReady ==
  \A i \in IssuerNames :
    <>[](stored[i].exists /\ horizonUp /\ CredentialsWork(i)) =>
      <>[](stored[i].ready = "True")

(* An issuer whose Horizon stays away, or whose credentials stay unusable, *)
(* loses Ready=True for good, although nothing watches Horizon or the      *)
(* Secret: the interval brings the controller back.                        *)
BrokenBecomesUnready ==
  \A i \in IssuerNames :
    (\/ <>[](stored[i].exists /\ ~horizonUp)
     \/ <>[](stored[i].exists /\ ~CredentialsWork(i)))
    => <>[](stored[i].ready # "True")
=============================================================================
