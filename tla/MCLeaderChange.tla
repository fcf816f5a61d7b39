--------------------------- MODULE MCLeaderChange ---------------------------
(***************************************************************************)
(* Two managers, with leader election and without, and one request that    *)
(* both of them see, with two identifiers for its submissions.             *)
(***************************************************************************)
EXTENDS LeaderChange, TLC

CONSTANT TheCertificate

Parentage == [c \in CRs |-> TheCertificate]
RevokingIssuer == [exists: {TRUE}, ready: {TRUE}, revoke: {TRUE}]
IdSymmetry == Permutations(RequestIds)
=============================================================================
