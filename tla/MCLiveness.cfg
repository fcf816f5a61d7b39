SPECIFICATION FairSpec
CONSTANTS
  None = None
  RequestIds = {r1}
  CRs = {c1}
  Ours = {c1}
  TheCertificate = k1
  Children = {c1}
  Certificates = {k1}
  ParentOf <- Parentage
  DnsChecker = TRUE
  Issuers <- NewIssuers
  Reasons = {"none", "new"}
  Disturbances = {"read", "dns", "horizon", "api", "apiLost", "crash", "deny", "delete", "unready"}
  MaxDisturbances = 2
PROPERTY DenialReported
PROPERTY CompletedDelivered
PROPERTY RequestSubmitted
PROPERTY DeletionCompletes
PROPERTY RevokeOnDeletion
