CONSTANTS
  None = None
  CatalogOrder <- MCCatalogOrder
  Requires <- MCRequires
  Base <- MCBase
  FactID = {"f", "g"}
  Bundles <- MCBundles
  Options <- MCOptions
  MaxClock = 2
  Scans <- DiffBundles
  Files <- DiffFiles
  ID = {1, 2, 3}
  Ghost = {9}
  MaxDeps = 2
SPECIFICATION Spec
INVARIANTS
  NoDeadlock
  ReportedCycleReal
  OrderIsThePlan
  NoVerdictFromGaps
  NothingHidden
  AcceptingCostsCoverage
  GapsAreLoudest
  SameAnswerLater
  ResolvedIsFixed
  EveryMoveReported
  UnchangedHost
