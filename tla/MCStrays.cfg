SPECIFICATION Spec
CONSTANTS
  None = None
  RequestIds = {r1}
  CRs = {c1, c2}
  Ours = {c1}
  TheCertificate = k1
  Children = {}
  Certificates = {k1}
  ParentOf <- Parentage
  DnsChecker = TRUE
  Issuers <- NewIssuers
  Reasons = {"none", "new"}
  Disturbances = {"read", "delete", "deny", "approve", "deleteIssuer", "crash"}
  MaxDisturbances = 2
SYMMETRY IdSymmetry
INVARIANT StraysUntouched
