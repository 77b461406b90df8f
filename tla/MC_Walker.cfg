CONSTANTS
  None = None
  Path <- MCPath
  Above <- MCAbove
  Roots <- MCRoots
  Interest = {"suid", "dirs"}
  MaxHits <- MCHits
  Tally = {"owner"}
  MaxKeys <- MCKeys
  Key = {0, 1, 2}
  MaxDepth = 2
  MaxInodes = 8
  MaxDirEntries = 3
  ClockEvery = 2
  Hosts <- MCHosts
SPECIFICATION WSpec
INVARIANTS
  CompleteMeansSeen
  RowsAreReal
  CountsAddUp
  TruncationAttributed
  OverrunBounded
