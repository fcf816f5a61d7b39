SPECIFICATION FairSpec
CONSTANTS
  None = None
  RequestIds = {r1}
  CRs = {c1}
  Ours = {c1}
  TheCertificate = k1
  Children = {c1}
  Certificates = {k1}
  ParentOf <- Parentage
  DnsChecker = TRUE
  Issuers <- ReadyIssuers
  Reasons = {"none", "new"}
  Disturbances = {"chain"}
  MaxDisturbances = 1
PROPERTY CompletedDelivered
