SPECIFICATION MCSpec
CONSTANTS
  Paths <- MCPaths
  Others <- MCOthers
  Scripts <- MCScripts
  Probes = 1
  Operations <- MCOperations
  MaxRequests = 3
  MaxScriptRefs = 2
  MaxScripts = 1
  MaxBytes = 4
  MaxCandidates = 2
  PerSource = 1
  PerHeader = 1
  Adapters <- MCAdapters
  Ops <- MCOps
  Names <- MCNames
  Id <- MCId
  Abs <- MCAbs
  MaxFacts = 3
  Inputs <- MCInputs
  Documents <- MCDocuments
INVARIANTS
  StaysWithinBounds
  PassIsReported
  FactsAccounted
PROPERTIES
  DiscoveryEnds
  NeverOverwritten
CHECK_DEADLOCK FALSE
