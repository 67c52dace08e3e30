SPECIFICATION FairSpec
CONSTANTS
  Uri = {f1, f2}
  Content = {"v1", "v2"}
  Span = {"doc", "p1", "p2"}
  SpansOf <- MCSpansOf
  Bulky = {"v2"}
  Corpus = {A}
  MaxEdits = 2
  MaxCrashes = 1
  EditsWhileRunning = FALSE
  None = None
INVARIANT
  EverySyntaxNodeRepresented
