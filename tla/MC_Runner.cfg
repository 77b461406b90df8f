CONSTANTS
  None = None
  Collector <- MCCollector
  Value <- MCCollector
  FactID <- MCFactID
  DependsOn <- MCDependsOn
  Produces <- MCProduces
  Expensive = {"walker", "elf"}
  CapRoot = {"users"}
  Privileged = TRUE
  Budgeted = {"walker"}
  OwnKinds = {"parse"}
SPECIFICATION Spec
INVARIANTS
  SlotOwned
  OutcomeRecorded
  DependenciesFirst
  FactOrError
  NoHalfTruths
PROPERTIES
  CollectedSetFrozen
  KeepsPromise
