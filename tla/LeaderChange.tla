---------------------------- MODULE LeaderChange ----------------------------
(***************************************************************************)
(* Two managers of horizon-issuer on one cluster, as main starts them.     *)
(* With --leader-elect the second one runs its controllers when the first  *)
(* one has released its lease, which it does on its way out even when a    *)
(* reconciliation outlives the grace period; without the flag, which is    *)
(* its default, both run all the time.  A manager whose lease expires      *)
(* while it is cut off behaves like one without the flag.                  *)
(*                                                                         *)
(* The first manager is the one of CertificateRequestController.  The      *)
(* second has caches, a queue and a worker of its own, and shares with it  *)
(* the API server, Horizon and the issuer.                                 *)
(***************************************************************************)
EXTENDS CertificateRequestProperties

CONSTANT LeaderElect   \* the values --leader-elect may have

ASSUME LeaderElectAssumption == LeaderElect \subseteq BOOLEAN

VARIABLES
  cache2, known2, queue2, pc2, cur2, base2, local2,
  outcome2, replaces2, \* the second manager
  elect,    \* the flag --leader-elect of both
  stopping, \* the first manager was told to stop
  leading2  \* the second manager runs its controllers

first == <<cache, known, queue, worker>>
second == <<cache2, known2, queue2,
            pc2, cur2, base2, local2, outcome2, replaces2>>
handover == <<elect, stopping, leading2>>
managerVars == <<vars, second, handover>>

Second == INSTANCE CertificateRequestController WITH
  cache <- cache2, known <- known2, queue <- queue2, pc <- pc2, cur <- cur2,
  base <- base2, local <- local2, outcome <- outcome2, replaces <- replaces2

ManagersInit ==
  /\ Init /\ Second!Init
  /\ elect \in LeaderElect
  /\ stopping = FALSE /\ leading2 = ~elect

(* A manager that stops finishes what it has begun and begins nothing.     *)
(* That its context is cancelled adds nothing to what others see: a call   *)
(* that is not made any more is a step that is never taken.                *)
FirstManager ==
  /\ \/ ~stopping /\ \E c \in CRs : ReconcileStart(c)
     \/ WorkerStep \/ InformerStep
  /\ UNCHANGED <<second, handover>>

(* The second manager's informers run while it waits for the lease.        *)
SecondManager ==
  /\ \/ leading2 /\ \E c \in CRs : Second!ReconcileStart(c)
     \/ Second!WorkerStep \/ Second!InformerStep
  /\ UNCHANGED <<first, handover>>

(* The first manager is told to stop.  Without the flag nobody waits for   *)
(* that, and its end is no more than its taking no further step.           *)
Terminate ==
  /\ elect /\ ~stopping /\ stopping' = TRUE
  /\ UNCHANGED <<vars, second, elect, leading2>>

(* The lease is released once the worker is idle, or after the grace       *)
(* period.                                                                 *)
TakeOver ==
  /\ stopping /\ ~leading2 /\ leading2' = TRUE
  /\ \/ pc = "idle" /\ UNCHANGED disturbed
     \/ pc # "idle" /\ Disturbance("grace")
  /\ UNCHANGED <<obj, first, hz, parent, issuer, second, elect, stopping>>

ManagersNext ==
  \/ FirstManager \/ SecondManager \/ Terminate \/ TakeOver
  \/ (ClusterStep \/ IssuerStep) /\ UNCHANGED <<second, handover>>

ManagersSpec == ManagersInit /\ [][ManagersNext]_managerVars
=============================================================================
