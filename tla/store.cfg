SPECIFICATION MCSpec
CONSTANTS
  Uri = {f1, f2}
  Stem = {x, y}
  Content = {"lib", "use"}
  Sym = {sym}
  sym = sym
  Labels <- MCLabels
  None = None
  Nothing = Nothing
  BulkMinRows = 10
  MaxEdits = 1
  MaxCalls = 2
  File <- MCFiles
  CorpusOf <- MCCorpusOf
  SourceOf <- MCSourceOf
  TextsOf <- MCTextsOf
  Plans <- MCPlans
  MaxExtracts = 4
  MaxCrashes = 1
  MaxInterrupts = 1
INVARIANTS
  NoDangling
  ReferencesTrue
  WrittenWhole
  ReplayLossless
  RolesCorrect
  ReferencesJustified
  ReferencesComplete
PROPERTIES
  UntouchedUnaffected
  RolesKept
SYMMETRY MCSymmetry
CHECK_DEADLOCK FALSE
