SPECIFICATION Spec
CONSTANTS
  Process = {p, q}
  Resolver = q
  Key = {"a", "b", "c"}
  s1 = s1
  s2 = s2
  Source = {s1, s2}
  Mentions <- MCMentions
  Claims <- MCClaims
  FileSources <- MCFileSources
  FileClaims <- MCFileClaims
  MaxCalls = 3
  MaxFaults = 1
  MaxStarts = 3
INVARIANTS
  IngestedStays
  DeletedIsGone
  OneNodePerKey
CHECK_DEADLOCK FALSE
