SPECIFICATION Spec
CONSTANTS
  alice = alice
  bob = bob
  u1 = u1
  u2 = u2
  engineRun = engineRun
  Main = engineRun
  Units <- MCUnits
  Fixtures <- MCFixtures
  FixtureOf <- MCFixtureOf
  OwnerOf <- MCOwnerOf
  NonOwnerOf <- MCNonOwnerOf
  Shared <- MCShared
  Cached <- MCCached
  Interruptible = TRUE
  Identities <- MCIdentities
  Monitored <- MCMonitored
  Unresolved = {}
INVARIANTS
  TypeOK
  HeldMeansPresent
  ConclusionsRestOnLiveCredentials
