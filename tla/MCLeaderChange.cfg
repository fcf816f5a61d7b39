SPECIFICATION ManagersSpec
CONSTANTS
  None = None
  RequestIds = {r1, r2}
  CRs = {c1}
  Ours = {c1}
  TheCertificate = k1
  Certificates = {k1}
  ParentOf <- Parentage
  DnsChecker = FALSE
  Issuers <- RevokingIssuer
  Reasons = {"new"}
  Disturbances = {"delete", "grace"}
  MaxDisturbances = 1
  LeaderElect = {TRUE, FALSE}
SYMMETRY IdSymmetry
PROPERTY ImplementsIssuance
CHECK_DEADLOCK FALSE
