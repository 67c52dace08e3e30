SPECIFICATION Spec
CONSTANTS
  Name = {"A", "a", "B"}
  Key = {"ka", "kb"}
  Lower <- MCLower
  Term = {"A", "a", "B"}
  AliasPool = {"a"}
  Relation = {r1}
  Source = {s1, s2}
  NoSource = NoSource
  EmbeddingResolution = TRUE
  MaxEdges = 2
  MaxAliases = 2
CONSTRAINT Bounded
PROPERTY
  WithdrawnOrAbsorbed
