----------------------- MODULE IssuerControllerProofs -----------------------
(***************************************************************************)
(* The safety properties of the issuer controller, for any issuers, specs  *)
(* and Secrets, and any number of generations and faults.                  *)
(***************************************************************************)
EXTENDS IssuerController, TLAPS

(* Ready=True was earned wherever a copy of the condition is kept.         *)
Earned ==
  /\ ReadyWasChecked
  /\ \A i \in IssuerNames : seen[i].ready = "True" => seen[i].observed \in checked[i]
  /\ step # "idle" /\ edited.ready = "True" => edited.observed \in checked[target]

(* What the worker knows on its way to the write: its verdict is about the *)
(* generation that was read.  A result that queues nothing belongs         *)
(* to a first condition, whose event is still to come or has queued the    *)
(* issuer already.                                                         *)
WorkerKnows ==
  /\ step = "idle" => target = NoIssuer
  /\ step = "check" => edited = read
  /\ step = "write" => edited.observed = read.generation
  /\ step = "write" => edited.ready \in {"True", "False"} \/ read.ready = "none"
  /\ step = "write" /\ verdict = "done" =>
       /\ read.ready = "none" /\ edited.ready = "Unknown"
       /\ target \in pending \/ seen[target] = read

(* The informer never runs ahead of the API server, so that an edit always *)
(* has an event to come.                                                   *)
CacheBehind == \A i \in IssuerNames : seen[i].generation <= stored[i].generation

IssuerInv ==
  IssuerTypeOK /\ Earned /\ WorkerKnows /\ CacheBehind /\ NeverForgotten

LEMMA MissingType == Missing \in IssuerObject
  BY IssuerAssumption DEF Missing, IssuerObject, ReadyStatus

(* SetReadyCondition keeps the type and names the object's generation.     *)
LEMMA SetReadyConditionType ==
  ASSUME NEW o \in IssuerObject, NEW s \in ReadyStatus
  PROVE  /\ SetReadyCondition(o, s) \in IssuerObject
         /\ SetReadyCondition(o, s).ready = s
         /\ SetReadyCondition(o, s).observed = o.generation
  BY DEF SetReadyCondition, IssuerObject

(* The state before anybody created an issuer.                             *)
LEMMA IssuerStarts == IssuerInit => IssuerInv
  <1> SUFFICES ASSUME IssuerInit PROVE IssuerInv
    OBVIOUS
  <1>1. IssuerTypeOK
    BY IssuerAssumption, MissingType
    DEF IssuerInit, IssuerTypeOK, Steps, Verdicts
  <1>2. /\ \A i \in IssuerNames : stored[i] = Missing /\ seen[i] = Missing
        /\ Missing.ready = "none" /\ Missing.exists = FALSE
        /\ Missing.generation = 0
    BY DEF IssuerInit, Missing
  <1> QED
    BY <1>1, <1>2 DEF IssuerInit, IssuerInv, Earned, ReadyWasChecked, WorkerKnows,
                      CacheBehind, NeverForgotten

(* The worker takes an issuer: whatever it is going to write is earned.    *)
LEMMA EnterKeeps ==
  ASSUME IssuerInv, NEW i \in IssuerNames, Take(i),
         NEW s \in {"check", "write"}, NEW o \in IssuerObject, NEW v \in Verdicts,
         Enter(i, s, o, v),
         o.ready = "True" => o.observed \in checked[i],
         s = "check" => o = seen[i], s = "write" => o.observed = seen[i].generation,
         s = "write" => o.ready \in {"True", "False"} \/ seen[i].ready = "none",
         s = "write" /\ v = "done" => seen[i].ready = "none" /\ o.ready = "Unknown"
  PROVE  IssuerInv'
  <1>1. IssuerTypeOK'
    BY DEF IssuerInv, IssuerTypeOK, Enter, outside, Steps
  <1>2. Earned'
    BY DEF IssuerInv, Earned, ReadyWasChecked, Enter, outside
  <1>3. WorkerKnows' /\ CacheBehind'
    BY DEF Enter, outside, WorkerKnows, IssuerInv, CacheBehind
  <1>4. NeverForgotten'
    BY IssuerAssumption
    DEF IssuerInv, WorkerKnows, NeverForgotten, Enter, outside, Take
  <1> QED
    BY <1>1, <1>2, <1>3, <1>4 DEF IssuerInv

(* The returns of Reconcile before the health check.                       *)
LEMMA ReconcileIssuerKeeps ==
  ASSUME IssuerInv, NEW i \in IssuerNames, ReconcileIssuer(i)
  PROVE  IssuerInv'
  <1>0. /\ IssuerTypeOK /\ seen[i] \in IssuerObject
        /\ seen[i].ready \in ReadyStatus
    BY DEF IssuerInv, IssuerTypeOK, IssuerObject
  <1>1. CASE IgnoreIssuer(i)
    <2>1. IssuerTypeOK' /\ Earned'
      BY <1>1 DEF IgnoreIssuer, IssuerInv, IssuerTypeOK, Earned, ReadyWasChecked,
                  reconciler, outside
    <2>2. WorkerKnows' /\ CacheBehind'
      BY <1>1 DEF IgnoreIssuer, Take, IssuerInv, WorkerKnows, CacheBehind, reconciler,
                  outside
    <2>3. NeverForgotten'
      BY <1>1 DEF IgnoreIssuer, IssuerInv, NeverForgotten, reconciler
    <2> QED BY <2>1, <2>2, <2>3 DEF IssuerInv
  <1>2. CASE GetFails(i)
    BY <1>2, IssuerAssumption
    DEF GetFails, IssuerFault, IssuerInv, IssuerTypeOK, Earned, ReadyWasChecked,
        WorkerKnows, CacheBehind, NeverForgotten, reconciler, outside
  <1>3. CASE FirstSeen(i)
    <2>1. /\ SetReadyCondition(seen[i], "Unknown") \in IssuerObject
          /\ SetReadyCondition(seen[i], "Unknown").ready = "Unknown"
          /\ SetReadyCondition(seen[i], "Unknown").observed = seen[i].generation
      BY <1>0, SetReadyConditionType DEF ReadyStatus
    <2> QED BY <1>3, <2>1, EnterKeeps DEF FirstSeen, Verdicts
  <1>4. CASE ClientFails(i)
    <2>1. /\ SetReadyCondition(seen[i], "False") \in IssuerObject
          /\ SetReadyCondition(seen[i], "False").ready = "False"
          /\ SetReadyCondition(seen[i], "False").observed = seen[i].generation
      BY <1>0, SetReadyConditionType DEF ReadyStatus
    <2> QED BY <1>4, <2>1, EnterKeeps DEF ClientFails, Verdicts
  <1>5. CASE StartCheck(i)
    <2>1. seen[i].ready = "True" => seen[i].observed \in checked[i]
      BY DEF IssuerInv, Earned
    <2> QED BY <1>0, <1>5, <2>1, EnterKeeps DEF StartCheck, Verdicts
  <1> QED
    BY <1>1, <1>2, <1>3, <1>4, <1>5 DEF ReconcileIssuer

(* The answer of the health check becomes the condition to be written.     *)
LEMMA CheckKeeps ==
  ASSUME IssuerInv, CheckSucceeds \/ CheckFails
  PROVE  IssuerInv'
  <1>0. /\ edited \in IssuerObject /\ target \in IssuerNames
        /\ edited.generation \in 0..MaxGeneration
        /\ checked \in [IssuerNames -> SUBSET (0..MaxGeneration)]
        /\ edited = read
    BY DEF IssuerInv, IssuerTypeOK, WorkerKnows, CheckSucceeds, CheckFails, IssuerObject
  <1>1. CASE CheckSucceeds
    <2>1. /\ edited' \in IssuerObject /\ edited'.ready = "True"
          /\ edited'.observed = edited.generation
      BY <1>0, <1>1, SetReadyConditionType DEF CheckSucceeds, ReadyStatus
    <2>2. /\ checked' \in [IssuerNames -> SUBSET (0..MaxGeneration)]
          /\ edited.generation \in checked'[target]
          /\ \A j \in IssuerNames : checked[j] \subseteq checked'[j]
      BY <1>0, <1>1 DEF CheckSucceeds
    <2>3. IssuerTypeOK'
      BY <1>1, <2>1, <2>2
      DEF CheckSucceeds, IssuerInv, IssuerTypeOK, outside, Steps, Verdicts
    <2>4. Earned'
      BY <1>1, <2>1, <2>2 DEF CheckSucceeds, IssuerInv, Earned, ReadyWasChecked
    <2>5. WorkerKnows' /\ CacheBehind' /\ NeverForgotten'
      BY <1>0, <1>1, <2>1
      DEF CheckSucceeds, IssuerInv, WorkerKnows, CacheBehind, NeverForgotten
    <2> QED BY <2>3, <2>4, <2>5 DEF IssuerInv
  <1>2. CASE CheckFails
    <2>1. /\ edited' \in IssuerObject /\ edited'.ready = "False"
          /\ edited'.observed = edited.generation
      BY <1>0, <1>2, SetReadyConditionType DEF CheckFails, ReadyStatus
    <2>2. IssuerTypeOK'
      BY <1>2, <2>1 DEF CheckFails, IssuerInv, IssuerTypeOK, outside, Steps, Verdicts
    <2>3. Earned'
      BY <1>2, <2>1 DEF CheckFails, IssuerInv, Earned, ReadyWasChecked
    <2>4. WorkerKnows' /\ CacheBehind' /\ NeverForgotten'
      BY <1>0, <1>2, <2>1
      DEF CheckFails, IssuerInv, WorkerKnows, CacheBehind, NeverForgotten
    <2> QED BY <2>2, <2>3, <2>4 DEF IssuerInv
  <1> QED
    BY <1>1, <1>2

(* Status().Update in the deferred function, and the return of Reconcile.  *)
LEMMA WriteKeeps ==
  ASSUME IssuerInv, StatusStored \/ StatusConflict \/ StatusFailed
  PROVE  IssuerInv'
  <1>0. /\ IssuerTypeOK /\ target \in IssuerNames /\ step = "write"
        /\ edited \in IssuerObject /\ stored[target] \in IssuerObject
        /\ Missing \in IssuerObject
    BY MissingType DEF IssuerInv, IssuerTypeOK, StatusStored, StatusConflict, StatusFailed
  <1>1. CASE StatusStored
    <2>1. /\ stored' \in [IssuerNames -> IssuerObject]
          /\ stored'[target].ready = edited.ready
          /\ stored'[target].observed = edited.observed
          /\ stored'[target].exists = stored[target].exists
          /\ stored'[target].generation = stored[target].generation
          /\ \A j \in IssuerNames \ {target} : stored'[j] = stored[j]
      BY <1>0, <1>1 DEF StatusStored, IssuerTypeOK, IssuerObject
    <2>2. IssuerTypeOK'
      BY <1>0, <1>1, <2>1 DEF StatusStored, Leave, IssuerTypeOK, outside, Steps, Verdicts
    <2>3. Earned'
      BY <1>0, <1>1, <2>1
      DEF StatusStored, Leave, IssuerInv, Earned, ReadyWasChecked, outside
    <2>4. WorkerKnows' /\ CacheBehind'
      BY <1>1, <2>1 DEF StatusStored, Leave, WorkerKnows, IssuerInv, CacheBehind
    <2>5. ASSUME Periodic, verdict = "done", target \notin pending
          PROVE  seen[target] # stored'[target]
      BY <1>0, <1>1, <2>1, <2>5 DEF StatusStored, IssuerInv, WorkerKnows
    <2>6. NeverForgotten'
      BY <1>0, <1>1, <2>1, <2>5
      DEF StatusStored, Leave, IssuerInv, IssuerTypeOK, Verdicts, NeverForgotten
    <2> QED BY <2>2, <2>3, <2>4, <2>6 DEF IssuerInv
  <1>2. CASE StatusConflict \/ StatusFailed
    <2>1. /\ Leave("error") /\ UNCHANGED <<stored, seen, outside, checked>>
          /\ failures' \in 0..MaxFaults
      BY <1>0, <1>2, IssuerAssumption
      DEF StatusConflict, StatusFailed, IssuerFault, IssuerTypeOK
    <2>2. IssuerTypeOK'
      BY <1>0, <2>1 DEF Leave, IssuerTypeOK, outside, Steps, Verdicts
    <2>3. Earned' /\ WorkerKnows' /\ CacheBehind'
      BY <2>1 DEF Leave, IssuerInv, Earned, ReadyWasChecked, WorkerKnows, CacheBehind
    <2>4. NeverForgotten'
      BY <2>1 DEF Leave, IssuerInv, NeverForgotten
    <2> QED BY <2>2, <2>3, <2>4 DEF IssuerInv
  <1> QED
    BY <1>1, <1>2

(* Informer, timer and process.                                            *)
LEMMA ManagerKeeps ==
  ASSUME IssuerInv,
         \/ \E i \in IssuerNames : IssuerEvent(i) \/ IntervalOver(i) \/ ResyncIssuer(i)
         \/ RestartManager
  PROVE  IssuerInv'
  <1>1. ASSUME NEW i \in IssuerNames, IssuerEvent(i) PROVE IssuerInv'
    <2>1. /\ seen' \in [IssuerNames -> IssuerObject] /\ seen'[i] = stored[i]
          /\ \A j \in IssuerNames \ {i} : seen'[j] = seen[j]
      BY <1>1 DEF IssuerEvent, IssuerInv, IssuerTypeOK
    <2>2. IssuerTypeOK'
      BY <1>1, <2>1 DEF IssuerEvent, IssuerInv, IssuerTypeOK, reconciler, outside
    <2>3. Earned'
      BY <1>1, <2>1
      DEF IssuerEvent, IssuerInv, Earned, ReadyWasChecked, reconciler
    <2>4. WorkerKnows' /\ CacheBehind'
      BY <1>1, <2>1
      DEF IssuerEvent, IssuerInv, IssuerTypeOK, IssuerObject, WorkerKnows, CacheBehind,
          reconciler
    <2>5. NeverForgotten'
      BY <1>1, <2>1 DEF IssuerEvent, IssuerInv, NeverForgotten, reconciler
    <2> QED BY <2>2, <2>3, <2>4, <2>5 DEF IssuerInv
  <1>2. ASSUME NEW i \in IssuerNames, IntervalOver(i) \/ ResyncIssuer(i)
        PROVE  IssuerInv'
    BY <1>2 DEF IntervalOver, ResyncIssuer, IssuerInv, IssuerTypeOK, Earned,
                ReadyWasChecked, WorkerKnows, CacheBehind, NeverForgotten,
                reconciler, outside
  <1>3. CASE RestartManager
    <2>1. IssuerTypeOK'
      BY <1>3, MissingType, IssuerAssumption
      DEF RestartManager, IssuerFault, IssuerInv, IssuerTypeOK, outside, Steps, Verdicts
    <2>2. Earned' /\ WorkerKnows' /\ NeverForgotten'
      BY <1>3 DEF RestartManager, IssuerInv, Earned, ReadyWasChecked, WorkerKnows,
                  NeverForgotten
    <2>3. CacheBehind'
      BY <1>3 DEF RestartManager, IssuerInv, IssuerTypeOK, IssuerObject, CacheBehind
    <2> QED BY <2>1, <2>2, <2>3 DEF IssuerInv
  <1> QED
    BY <1>1, <1>2, <1>3

(* Administrator and Horizon.                                              *)
LEMMA OutsideKeeps ==
  ASSUME IssuerInv,
         Administration \/ HorizonChanges
  PROVE  IssuerInv'
  <1>1. ASSUME NEW i \in IssuerNames, WriteSpec(i) PROVE IssuerInv'
    <2>0. stored[i] \in IssuerObject
      BY DEF IssuerInv, IssuerTypeOK
    <2>1. /\ stored' \in [IssuerNames -> IssuerObject]
          /\ stored'[i].ready = stored[i].ready
          /\ stored'[i].observed = stored[i].observed
          /\ stored'[i].generation = stored[i].generation + 1
          /\ \A j \in IssuerNames \ {i} : stored'[j] = stored[j]
      <3>1. stored[i].generation + 1 \in 0..MaxGeneration
        <4>1. stored[i].generation < MaxGeneration
          BY <1>1 DEF WriteSpec
        <4> QED BY <2>0, <4>1, IssuerAssumption DEF IssuerObject
      <3>2. PICK spec \in SpecChoices :
              stored' = [stored EXCEPT ![i].exists = TRUE, ![i].spec = spec,
                                       ![i].generation = @ + 1]
        BY <1>1 DEF WriteSpec
      <3>3. /\ stored'[i] = [exists |-> TRUE, spec |-> spec,
                             generation |-> stored[i].generation + 1,
                             ready |-> stored[i].ready, observed |-> stored[i].observed]
            /\ \A j \in IssuerNames \ {i} : stored'[j] = stored[j]
            /\ DOMAIN stored' = IssuerNames
        BY <2>0, <3>2 DEF IssuerInv, IssuerTypeOK, IssuerObject
      <3>4. stored'[i] \in IssuerObject
        BY <2>0, <3>1, <3>3 DEF IssuerObject
      <3>5. stored' \in [IssuerNames -> IssuerObject]
        BY <3>2, <3>3, <3>4 DEF IssuerInv, IssuerTypeOK
      <3> QED BY <3>3, <3>5
    <2>2. IssuerTypeOK'
      BY <1>1, <2>1 DEF WriteSpec, IssuerInv, IssuerTypeOK, reconciler, outside
    <2>3. Earned' /\ WorkerKnows'
      BY <1>1, <2>1 DEF WriteSpec, IssuerInv, Earned, ReadyWasChecked, WorkerKnows,
                        reconciler
    <2>4. CacheBehind' /\ seen[i] # stored'[i]
      <3>1. \A j \in IssuerNames : /\ seen[j].generation \in Nat
                                   /\ stored[j].generation \in Nat
        BY IssuerAssumption DEF IssuerInv, IssuerTypeOK, IssuerObject
      <3>2. /\ seen' = seen
            /\ \A j \in IssuerNames : seen[j].generation <= stored[j].generation
        BY <1>1 DEF WriteSpec, IssuerInv, CacheBehind
      <3>3. seen[i].generation < stored'[i].generation
        BY <2>1, <3>1, <3>2
      <3> QED BY <2>1, <3>1, <3>2, <3>3 DEF CacheBehind
    <2>5. NeverForgotten'
      BY <1>1, <2>1, <2>4 DEF WriteSpec, IssuerInv, NeverForgotten, reconciler
    <2> QED BY <2>2, <2>3, <2>4, <2>5 DEF IssuerInv
  <1>2. ASSUME NEW i \in IssuerNames, RemoveIssuer(i) PROVE IssuerInv'
    <2>0. Missing \in IssuerObject /\ Missing.exists = FALSE /\ Missing.ready = "none"
      BY MissingType DEF Missing
    <2>1. /\ [Missing EXCEPT !.generation = MaxGeneration] \in IssuerObject
          /\ [Missing EXCEPT !.generation = MaxGeneration].exists = FALSE
          /\ [Missing EXCEPT !.generation = MaxGeneration].ready = "none"
          /\ [Missing EXCEPT !.generation = MaxGeneration].generation = MaxGeneration
      BY <2>0, IssuerAssumption DEF IssuerObject
    <2>2. IssuerTypeOK'
      BY <1>2, <2>1 DEF RemoveIssuer, IssuerInv, IssuerTypeOK, reconciler, outside
    <2>3. Earned' /\ WorkerKnows' /\ NeverForgotten'
      BY <1>2, <2>1 DEF RemoveIssuer, IssuerInv, IssuerTypeOK, Earned, ReadyWasChecked,
                        WorkerKnows, NeverForgotten, reconciler
    <2>4. CacheBehind'
      BY <1>2, <2>1, IssuerAssumption
      DEF RemoveIssuer, IssuerInv, IssuerTypeOK, IssuerObject, CacheBehind
    <2> QED BY <2>2, <2>3, <2>4 DEF IssuerInv
  <1>3. CASE WriteSecret \/ HorizonChanges
    BY <1>3 DEF WriteSecret, HorizonChanges, IssuerInv, IssuerTypeOK, Earned,
                ReadyWasChecked, WorkerKnows, CacheBehind, NeverForgotten, reconciler
  <1> QED
    BY <1>1, <1>2, <1>3 DEF Administration

(* Every step, and a stuttering step, keeps the inductive invariant.       *)
LEMMA IssuerSteps == IssuerInv /\ [IssuerNext]_issuerVars => IssuerInv'
  <1> SUFFICES ASSUME IssuerInv, [IssuerNext]_issuerVars PROVE IssuerInv'
    OBVIOUS
  <1>1. CASE UNCHANGED issuerVars
    BY <1>1 DEF issuerVars, IssuerInv, IssuerTypeOK, Earned, ReadyWasChecked,
                WorkerKnows, CacheBehind, NeverForgotten, reconciler, outside
  <1>2. CASE IssuerNext
    BY <1>2, ReconcileIssuerKeeps, CheckKeeps, WriteKeeps, ManagerKeeps, OutsideKeeps
    DEF IssuerNext, CheckOrWrite
  <1> QED
    BY <1>1, <1>2

(* In every run of the issuer controller the variables keep their types.   *)
THEOREM IssuerTypeCorrect == IssuerSpecification => []IssuerTypeOK
  <1>1. IssuerInv => IssuerTypeOK
    BY DEF IssuerInv
  <1> QED
    BY IssuerStarts, IssuerSteps, <1>1, PTL DEF IssuerSpecification

(* Ready=True is only ever written for the generation that was checked,    *)
(* even when the spec is edited between the health check and the write.    *)
THEOREM ReadyIsEarned == IssuerSpecification => []ReadyWasChecked
  <1>1. IssuerInv => ReadyWasChecked
    BY DEF IssuerInv, Earned
  <1> QED
    BY IssuerStarts, IssuerSteps, <1>1, PTL DEF IssuerSpecification

(* RequeueAfter, the retries and the watch events together keep every      *)
(* existing issuer on its way back to Reconcile.                           *)
THEOREM NoIssuerForgotten == IssuerSpecification => []NeverForgotten
  <1>1. IssuerInv => NeverForgotten
    BY DEF IssuerInv
  <1> QED
    BY IssuerStarts, IssuerSteps, <1>1, PTL DEF IssuerSpecification

(* No condition is ever written about a spec that is not the stored one,   *)
(* however often the spec is edited while its health check is under way.   *)
THEOREM VerdictsAreCurrent == IssuerSpecification => VerdictIsCurrent
  <1> DEFINE Written(i) ==
        /\ stored'[i].exists
        /\ \/ stored'[i].ready # stored[i].ready
           \/ stored'[i].observed # stored[i].observed
      About(i) == /\ stored'[i].observed = stored[i].generation
                  /\ stored'[i].spec = stored[i].spec
      Fresh == \A i \in IssuerNames : Written(i) => About(i)
  <1>1. IssuerInv /\ [IssuerNext]_issuerVars => [Fresh]_issuerVars
    <2> SUFFICES ASSUME IssuerInv, IssuerNext, stored' # stored PROVE Fresh
      BY DEF issuerVars
    <2>0. stored \in [IssuerNames -> IssuerObject] /\ target \in IssuerNames \cup {NoIssuer}
      BY DEF IssuerInv, IssuerTypeOK
    <2>1. CASE StatusStored
      <3>1. /\ target \in IssuerNames /\ stored[target] \in IssuerObject
            /\ edited.observed = stored[target].generation
        BY <2>1 DEF StatusStored, IssuerInv, IssuerTypeOK, WorkerKnows
      <3>2. /\ stored'[target].observed = edited.observed
            /\ stored'[target].spec = stored[target].spec
            /\ \A j \in IssuerNames \ {target} : stored'[j] = stored[j]
        BY <2>0, <2>1, <3>1 DEF StatusStored, IssuerObject
      <3> QED BY <3>1, <3>2
    <2>2. ASSUME NEW i \in IssuerNames, WriteSpec(i) PROVE Fresh
      <3>1. stored[i] \in IssuerObject
        BY <2>0
      <3>2. /\ stored'[i].ready = stored[i].ready
            /\ stored'[i].observed = stored[i].observed
            /\ \A j \in IssuerNames \ {i} : stored'[j] = stored[j]
        BY <2>0, <2>2, <3>1 DEF WriteSpec, IssuerObject
      <3> QED BY <3>2
    <2>3. ASSUME NEW i \in IssuerNames, RemoveIssuer(i) PROVE Fresh
      <3>1. /\ stored'[i].exists = FALSE
            /\ \A j \in IssuerNames \ {i} : stored'[j] = stored[j]
        BY <2>0, <2>3 DEF RemoveIssuer, Missing
      <3> QED BY <3>1
    <2> QED
      BY <2>1, <2>2, <2>3
      DEF IssuerNext, ReconcileIssuer, CheckOrWrite, IgnoreIssuer, GetFails, FirstSeen,
          ClientFails, StartCheck, Enter, CheckSucceeds, CheckFails, StatusConflict,
          StatusFailed, IssuerEvent, IntervalOver, ResyncIssuer, RestartManager,
          Administration, WriteSecret, HorizonChanges
  <1> QED
    BY IssuerStarts, IssuerSteps, <1>1, PTL DEF IssuerSpecification, VerdictIsCurrent

(* The FirstSeen branch never takes back a verdict of the health check,    *)
(* however stale the cache is: the optimistic lock refuses its write.      *)
THEOREM ConditionNeverRelapses == IssuerSpecification => NoRelapse
  <1> DEFINE Kept ==
        \A i \in IssuerNames :
          stored[i].ready \in {"True", "False"} /\ stored'[i].exists =>
            stored'[i].ready \in {"True", "False"}
  <1>1. IssuerInv /\ [IssuerNext]_issuerVars => [Kept]_issuerVars
    <2> SUFFICES ASSUME IssuerInv, IssuerNext, stored' # stored PROVE Kept
      BY DEF issuerVars
    <2>0. stored \in [IssuerNames -> IssuerObject] /\ target \in IssuerNames \cup {NoIssuer}
      BY DEF IssuerInv, IssuerTypeOK
    <2>1. CASE StatusStored
      <3>1. /\ target \in IssuerNames /\ stored[target] \in IssuerObject
            /\ read = stored[target]
            /\ edited.ready \in {"True", "False"} \/ read.ready = "none"
        BY <2>1 DEF StatusStored, IssuerInv, IssuerTypeOK, WorkerKnows
      <3>2. /\ stored'[target].ready = edited.ready
            /\ \A j \in IssuerNames \ {target} : stored'[j] = stored[j]
        BY <2>0, <2>1, <3>1 DEF StatusStored, IssuerObject
      <3> QED BY <3>1, <3>2
    <2>2. ASSUME NEW i \in IssuerNames, WriteSpec(i) PROVE Kept
      <3>1. stored[i] \in IssuerObject
        BY <2>0
      <3>2. /\ stored'[i].ready = stored[i].ready
            /\ \A j \in IssuerNames \ {i} : stored'[j] = stored[j]
        BY <2>0, <2>2, <3>1 DEF WriteSpec, IssuerObject
      <3> QED BY <3>2
    <2>3. ASSUME NEW i \in IssuerNames, RemoveIssuer(i) PROVE Kept
      <3>1. /\ stored'[i].exists = FALSE
            /\ \A j \in IssuerNames \ {i} : stored'[j] = stored[j]
        BY <2>0, <2>3 DEF RemoveIssuer, Missing
      <3> QED BY <3>1
    <2> QED
      BY <2>1, <2>2, <2>3
      DEF IssuerNext, ReconcileIssuer, CheckOrWrite, IgnoreIssuer, GetFails, FirstSeen,
          ClientFails, StartCheck, Enter, CheckSucceeds, CheckFails, StatusConflict,
          StatusFailed, IssuerEvent, IntervalOver, ResyncIssuer, RestartManager,
          Administration, WriteSecret, HorizonChanges
  <1> QED
    BY IssuerStarts, IssuerSteps, <1>1, PTL DEF IssuerSpecification, NoRelapse
=============================================================================
