CONSTANTS
  None = None
  Collector <- WiredCollector
  Value <- WiredCollector
  FactID <- WiredFactID
  DependsOn <- WiredDependsOn
  Produces <- WiredProduces
  Expensive = {"walker", "elf"}
  CapRoot = {"users"}
  Privileged = FALSE
  Budgeted = {"elf", "users", "cron"}
  OwnKinds = {"parse"}
SPECIFICATION FairSpec
PROPERTY RunReturns
