SPECIFICATION IssuerFairSpec
CONSTANTS
  IssuerNames = {i1}
  NoIssuer = NoIssuer
  SpecChoices <- AllSpecs
  SecretChoices <- AllSecrets
  Periodic = TRUE
  MaxGeneration = 2
  MaxFaults = 1
INVARIANTS IssuerTypeOK ReadyWasChecked NeverForgotten
PROPERTIES VerdictIsCurrent NoRelapse HealthyBecomesReady BrokenBecomesUnready
