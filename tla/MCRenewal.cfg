SPECIFICATION Spec
CONSTANTS
  None = None
  RequestIds = {r1, r2}
  CRs = {c1, c2}
  Ours = {c1, c2}
  TheCertificate = k1
  Children = {c1, c2}
  Certificates = {k1}
  ParentOf <- Parentage
  DnsChecker = TRUE
  Issuers <- RevokingIssuer
  Reasons = {"none", "new", "renew"}
  Disturbances = {"delete", "api"}
  MaxDisturbances = 1
SYMMETRY FullSymmetry
INVARIANT RenewTargetsPredecessor
