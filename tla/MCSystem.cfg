SPECIFICATION SystemSpec
CONSTANTS
  None = None
  RequestIds = {r1}
  CRs = {c1}
  Ours = {c1}
  TheCertificate = k1
  Certificates = {k1}
  ParentOf <- Parentage
  DnsChecker = FALSE
  Issuers <- Issuer
  Reasons = {"new"}
  Disturbances = {}
  MaxDisturbances = 0
  IssuerNames = {i1}
  TheIssuer = i1
  NoIssuer = NoIssuer
  SpecChoices <- SomeSpecs
  SecretChoices <- SomeSecrets
  Periodic = FALSE
  MaxGeneration = 1
  MaxFaults = 0
INVARIANT SubmittedAfterCheck
PROPERTIES HealthyServes BrokenStopsServing
