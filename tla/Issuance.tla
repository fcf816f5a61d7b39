------------------------------ MODULE Issuance ------------------------------
(***************************************************************************)
(* What the CertificateRequest controller promises, whatever its caches,   *)
(* its retries, the number of managers and the order of the calls it       *)
(* makes: an account of each CertificateRequest and of each request held   *)
(* by Horizon, with none of the machinery in between.                      *)
(*                                                                         *)
(* A CertificateRequest is decided once, bound once to a Horizon request   *)
(* that was submitted for it, and settled once.  Horizon may be offered    *)
(* the same CertificateRequest several times; only a binding counts.       *)
(***************************************************************************)
CONSTANTS CRs,         \* the CertificateRequest objects
          RequestIds,  \* the identifiers of Horizon's requests
          None         \* no request

VARIABLES request,   \* request[c]: the account of CertificateRequest c
          holder,    \* holder[r]: the CR that r was submitted for, or None
          certified, \* the Horizon requests that produced a certificate
          revoking   \* those whose revocation was requested

account == <<request, holder, certified, revoking>>

Decisions == {"open", "approved", "denied"}
Results == {"open", "Issued", "Failed", "Denied"}

Fresh(life) == [life |-> life, decision |-> "open", result |-> "open",
                id |-> None, certificate |-> None]

AccountInit ==
  /\ request = [c \in CRs |-> Fresh("absent")]
  /\ holder = [r \in RequestIds |-> None]
  /\ certified = {} /\ revoking = {}

Exists(c) == request[c].life \in {"live", "deleting"}
Undecided(c) == Exists(c) /\ request[c].decision = "open"
Unsettled(c) == Exists(c) /\ request[c].result = "open"

(* The life of a CertificateRequest.                                       *)
Create(c) ==
  /\ request[c].life = "absent"
  /\ request' = [request EXCEPT ![c] = Fresh("live")]
  /\ UNCHANGED <<holder, certified, revoking>>

Delete(c) ==
  /\ request[c].life = "live"
  /\ request' = [request EXCEPT ![c].life = "deleting"]
  /\ UNCHANGED <<holder, certified, revoking>>

Remove(c) ==
  /\ Exists(c)
  /\ request' = [request EXCEPT ![c] = Fresh("gone")]
  /\ UNCHANGED <<holder, certified, revoking>>

(* Horizon accepts a submission for c, and later completes it.             *)
Offer(c, r) ==
  /\ holder[r] = None /\ request[c].life # "absent"
  /\ holder' = [holder EXCEPT ![r] = c]
  /\ UNCHANGED <<request, certified, revoking>>

Certify(r) ==
  /\ holder[r] # None
  /\ certified' = certified \cup {r}
  /\ UNCHANGED <<request, holder, revoking>>

(* c is bound to one of the submissions made for it.  Once somebody        *)
(* decided on c, it is never bound any more.                               *)
Bind(c, r) ==
  /\ Undecided(c) /\ Unsettled(c) /\ request[c].id = None /\ holder[r] = c
  /\ request' = [request EXCEPT ![c].id = r]
  /\ UNCHANGED <<holder, certified, revoking>>

(* An approver, or Horizon by its verdict, decides.                        *)
Decide(c, decision) ==
  /\ Undecided(c)
  /\ request' = [request EXCEPT ![c].decision = decision]
  /\ UNCHANGED <<holder, certified, revoking>>

(* The three ways to settle c.  A certificate is handed out only together  *)
(* with the approval, so a request approved by anybody else gets none.     *)
Issue(c) ==
  /\ Undecided(c) /\ Unsettled(c) /\ request[c].id \in certified
  /\ request' = [request EXCEPT ![c].decision = "approved",
                                ![c].result = "Issued",
                                ![c].certificate = request[c].id]
  /\ UNCHANGED <<holder, certified, revoking>>

Fail(c) ==
  /\ Undecided(c) /\ Unsettled(c) /\ request[c].id = None
  /\ request' = [request EXCEPT ![c].result = "Failed"]
  /\ UNCHANGED <<holder, certified, revoking>>

Deny(c) ==
  /\ Unsettled(c) /\ request[c].decision = "denied"
  /\ request' = [request EXCEPT ![c].result = "Denied"]
  /\ UNCHANGED <<holder, certified, revoking>>

(* A revocation is requested only once the deletion of the CR was asked.   *)
Revoke(r) ==
  /\ r \in certified /\ request[holder[r]].life \in {"deleting", "gone"}
  /\ revoking' = revoking \cup {r}
  /\ UNCHANGED <<request, holder, certified>>

RequestStep(c) ==
  \/ Create(c) \/ Delete(c) \/ Remove(c)
  \/ \E decision \in {"approved", "denied"} : Decide(c, decision)
  \/ \E r \in RequestIds : Bind(c, r)
  \/ Issue(c) \/ Fail(c) \/ Deny(c)

HorizonStep ==
  \E r \in RequestIds : Certify(r) \/ Revoke(r) \/ \E c \in CRs : Offer(c, r)

(* A step changes the account of CertificateRequests or that of Horizon.   *)
AccountNext ==
  \/ request' # request /\ \E c \in CRs : RequestStep(c)
  \/ request' = request /\ account' # account /\ HorizonStep

AccountSpec == AccountInit /\ [][AccountNext]_account
=============================================================================
