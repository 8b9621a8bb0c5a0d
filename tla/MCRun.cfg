SPECIFICATION MCSpec
CONSTANTS
  Workers <- MCWorkers
  Digests <- MCDigests
  Exchanges <- MCExchanges
  WellKnownPaths = 2
  Thresholds <- MCThresholds
  MaxFindings = 2
  Units <- MCUnits
  Identities = {"alice", "bob"}
  Engines = {"nuclei", "zap"}
  Paths = {"/admin"}
  RankOrder <- MCRankOrder
  Inputs <- MCInputs
  Callers = {"c1", "c2"}
  Urls <- MCUrls
  UrlsOf <- MCUrlsOf
  Entries <- MCEntries
  AllowPrivate = TRUE
  Addresses <- MCAddresses
  Kind <- MCKind
  Literals <- MCLiterals
  Resolutions <- MCResolutions
  Lengths = {0, 3, 4, 5}
  MaxBodyBytes = 4
  TruncationTail = 2
  Paced = TRUE
  MaxRequests = 1
INVARIANTS
  EvidenceIsSound
  ScanIsConsistent
  ReportFollowsLedger
  NeverLeavesScope
PROPERTIES
  ImplementsEvidenceSet
  RefusalIsNotAbsence
  Terminates
CHECK_DEADLOCK FALSE
