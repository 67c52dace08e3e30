SPECIFICATION Spec
CONSTANTS
  Name = {"A", "a", "B", "C", "x"}
  Key = {"ka", "kb", "kc", "kx"}
  Lower <- MCLower
  Term = {"A", "a", "B", "C"}
  AliasPool = {"x"}
  Relation = {r1}
  Source = {s1, s2}
  NoSource = NoSource
  EmbeddingResolution = TRUE
  MaxEdges = 1
  MaxAliases = 2
CONSTRAINT Bounded
SYMMETRY SourceSymmetry
INVARIANTS
  AllNodesListed
  OneNodePerKey
PROPERTIES
  StableResolution
