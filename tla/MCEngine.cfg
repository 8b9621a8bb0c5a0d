SPECIFICATION Spec
CONSTANTS
  NJobs = 1
  NOwnership = 3
  Concurrency = 2
  Fixtures <- MCFixtures
  FixtureOf <- MCFixtureOf
  KeyOf <- MCKeyOf
  Results <- MCResults
  Unstorable <- MCUnstorable
INVARIANTS
  TypeOK
  OneRowEach
  FixtureExclusion
  BoundedConcurrency
  SettledBeforeClosing
  FindingsAgreeWithLedger
  CancelledMeansNeverStarted
PROPERTY ImplementsAccounting
