SPECIFICATION RSpec
CONSTANTS
  Hosts <- MCHosts
  Items <- MCItems
  Garbled <- MCGarbled
  MaxReach <- MCMaxReach
  MaxCap = 45
  MaxRefused = 2
  DropInDirs <- MCDropInDirs
  Services <- MCServices
  PathOf <- MCPathOf
  MaxIncludeDepth = 3
  Candidates <- MCCandidates
  Targets <- MCTargets
  MaxSymlinkHops = 3
  Numerals <- MCNumerals
  HalfWord = 16384
  Durations <- MCDurations
  KeyOrder <- MCKeyOrder
  Masks <- MCMasks
  CoreDumps <- MCCoreDumps
  DropInNames <- MCDropInNames
  WantsDirs <- MCWantsDirs
  SandboxTargets <- MCSandboxTargets
  MaxEvidenceRows = 1
  SysctlOrder <- MCSysctlOrder
  MaxStarts = 2
CHECK_DEADLOCK FALSE
INVARIANTS
  NoFalsePass
  NoFalseFail
  NoFalseDismissal
  PrivilegesBlamedTruly
  ScriptDelivers
  OriginalsKept
