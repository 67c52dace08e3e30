SPECIFICATION Spec
CONSTANTS
  Uri = {f1,f2}
  Content = {"v1", "v2"}
  Span = {"doc", "p1", "p2"}
  SpansOf <- MCSpansOf
  Bulky = {"v2"}
  Corpus = {A, B}
  MaxEdits = 2
  MaxCrashes = 1
  EditsWhileRunning = TRUE
  None = None
SYMMETRY FileSymmetry
INVARIANTS
  NoDanglingNodes
  OneOriginPerFile
