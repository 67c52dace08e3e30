SPECIFICATION MCSpec
CONSTANTS
  Thread = {t1, t2}
  filed = filed
  added = added
  Name = {filed, added}
  FileNames <- MCFileNames
  Communities = {0, 1}
  MinSizes = {1, 2}
  None = None
  MaxRequests = 3
  MaxRestarts = 1
  Private = {"_y"}
  SeedTag = 2
  NeighbourTag = 3
  Stride = 3
  CaptureInputs <- MCCaptureInputs
  ImportInputs <- MCImportInputs
  BudgetInputs <- MCBudgetInputs
  HierarchyInputs <- MCHierarchyInputs
  ResolutionInputs <- MCResolutionInputs
  DesignInputs <- MCDesigns
  NoName = NoName
  StatementInputs <- MCFlows
  Signal = {"a", "b", "c"}
  ModuleInputs <- MCModulesOf
  KnownSignals = {"a"}
  Canon <- MCCanon
  MaxTerms = 2
  MaxHopFanout = 2
  QueryInputs <- MCQueryInputs
  PatternInputs <- MCPatternInputs
INVARIANTS
  OneGraph
  NothingLost
  CachesFromLoadedGraph
  SummariesConsistent
  LooksWherePythonLooks
  ImportAttributed
  BudgetPriority
  HierarchyRefines
  ProposalsCarriedOut
  TransitionsFaithful
  DataflowCovered
  BridgesFaithful
  TermsRelated
  PathsFollowPatterns
PROPERTIES
  EventuallyLoaded
CHECK_DEADLOCK FALSE
