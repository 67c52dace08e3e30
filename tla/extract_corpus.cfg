SPECIFICATION Spec
CONSTANTS
  Uri = {f1, f2}
  Content = {"v1", "v2"}
  Span = {"doc", "p1", "p2"}
  SpansOf <- MCSpansOf
  Bulky = {}
  Corpus = {A, B}
  MaxEdits = 0
  MaxCrashes = 0
  EditsWhileRunning = FALSE
  None = None
PROPERTY
  CorpusIsolation
