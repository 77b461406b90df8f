CONSTANTS
  None = None
  Collector <- MCCollector
  Value <- MCCollector
  FactID <- MCFactID
  DependsOn <- MCDependsOn
  Produces <- MCProduces
  Expensive = {"walker"}
  CapRoot = {"users"}
  Privileged = TRUE
  Budgeted = {"walker"}
  OwnKinds = {"parse"}
  Path <- MCPath
  Reads <- MCReads
  Credential = {"shadow"}
  Oversized = {"passwd"}
  Content <- MCContent
  Size <- MCSize
  ReadCap = 1
SPECIFICATION SaveSpec
INVARIANT InterruptOutranks
