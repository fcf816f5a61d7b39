SPECIFICATION Spec
CONSTANTS
  None = None
  RequestIds = {r1, r2}
  CRs = {c1}
  Ours = {c1}
  TheCertificate = k1
  Children = {c1}
  Certificates = {k1}
  ParentOf <- Parentage
  DnsChecker = TRUE
  Issuers <- NewIssuers
  Reasons = {"none", "new"}
  Disturbances = {"read", "dns", "metadata", "lost", "horizon", "chain", "selfSigned", "api",
                  "apiLost", "crash", "approve", "deny", "delete",
                  "unready", "edit", "deleteIssuer"}
  MaxDisturbances = 2
SYMMETRY IdSymmetry
INVARIANT TypeOK
INVARIANT IssuedIsBacked
INVARIANT DecidedOnce
INVARIANT RecordedNeverFails
PROPERTY SettledIsFinal
PROPERTY RequestIdIsFinal
PROPERTY RevokedBeforeRemoval
PROPERTY ImplementsIssuance
