------------------------ MODULE MCCertificateRequest -----------------------
(***************************************************************************)
(* Small clusters for the CertificateRequest controller.  All requests     *)
(* belong to one Certificate, so that a second one may renew what the      *)
(* first one obtained, or to none.                                         *)
(***************************************************************************)
EXTENDS CertificateRequestProperties, TLC

(* Children are the requests that belong to TheCertificate; the others     *)
(* belong to none.                                                         *)
CONSTANTS TheCertificate, Children

Parentage == [c \in CRs |-> IF c \in Children THEN TheCertificate ELSE None]

(* The issuer before its first health check, after it, and with            *)
(* revokeCertificates set.                                                 *)
NewIssuers == [exists: {TRUE}, ready: {FALSE}, revoke: BOOLEAN]
ReadyIssuers == [exists: {TRUE}, ready: {TRUE}, revoke: BOOLEAN]
RevokingIssuer == [exists: {TRUE}, ready: {TRUE}, revoke: {TRUE}]

(* Horizon's identifiers are interchangeable, and so are requests that     *)
(* share their parent and their group.                                     *)
IdSymmetry == Permutations(RequestIds)
FullSymmetry == Permutations(RequestIds) \cup Permutations(Children)
=============================================================================
