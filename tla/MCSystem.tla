------------------------------ MODULE MCSystem ------------------------------
(***************************************************************************)
(* One request, one identifier at Horizon and one issuer, whose Secret     *)
(* comes and goes and whose Horizon comes and goes.  The health check      *)
(* interval is zero, so that only the resync repeats the check.            *)
(***************************************************************************)
EXTENDS System, TLC

CONSTANT TheCertificate

Parentage == [c \in CRs |-> TheCertificate]

Plain == [caBundle |-> "absent", proxy |-> "absent", revoke |-> FALSE]
Password == [type |-> "opaque", keys |-> {"username", "password"}, keyPair |-> FALSE]

SomeSpecs == {Plain}
SomeSecrets == {Password, NoSecret}
=============================================================================
