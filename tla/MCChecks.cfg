SPECIFICATION MCSpec
CONSTANTS
  alice = alice
  bob = bob
  carol = carol
  stranger = stranger
  NOps = 4
  NFixtures = 2
  Identities <- MCIdentities
  Strangers <- MCStrangers
  Paths = {"order", "line"}
  Params = {"id", "line", "extra"}
  MaxUnits = 2
  Inputs <- MCInputs
  Unrouted <- MCUnrouted
  Lengths <- MCLengths
  Responses <- MCResponses
  Mapped <- MCMapped
  Captured <- MCCaptured
  JsonTypes = {"json", "problem+json"}
  Values = {"7", ""}
  MaxShapeDepth = 2
  MaxShapePaths = 2
  Before <- MCBefore
  Comparisons <- MCComparisons
INVARIANTS
  NothingPlannedSilently
  PlanWithinBounds
  VerdictIsFounded
  ReadingIsJustified
PROPERTIES
  NothingClearsASuccess
CHECK_DEADLOCK FALSE
