SPECIFICATION EventSpec
CONSTANTS
  None = None
  RequestIds = {r1, r2}
  CRs = {c1}
  Ours = {c1}
  TheCertificate = k1
  Children = {c1}
  Certificates = {k1}
  ParentOf <- Parentage
  DnsChecker = FALSE
  Issuers <- ReadyIssuers
  Reasons = {"none", "new"}
  Disturbances = {"api", "apiLost", "horizon", "crash", "deny", "delete"}
  MaxDisturbances = 1
PROPERTY DeliveredByEvents
