SPECIFICATION MCSpec
CONSTANTS
  Order <- MCOrder
  MaxStdout = 1
  MaxObservations = 2
  MaxItems = 3
  Inputs <- MCInputs
  Helpers = {"helper"}
  Escaping = {}
  Capacity = 1
  Limit <- MCLimit
  MaxWrites = 3
INVARIANTS
  AccountIsTrue
  RunsConfined
  ResultIsTrue
PROPERTIES
  EverythingEnds
CHECK_DEADLOCK FALSE
