CONSTANTS
  None = None
  MaxFrame = 80
  MaxReachable = 80
  MaxSelected = 2
  MaxDestinations = 2
  MaxPrevious = 2
  MaxTransaction = 30
  MaxTransactionBytes = 60
  MaxAddress = 2
  MaxIndex = 1
  MaxValue = 3
  AsciiMax = 3
  MaxWord = 63
  Reviewed <- MCReviewed
  Wide = 5
  NullIndex = 4
  Issuance = 3
  Pegin = 2
  Named <- MCNamed
  PlanTop <- MCPlanTop
  PlanVectors <- MCPlanVectors
  FactsTop <- MCFactsTop
  FactsVectors <- MCFactsVectors
  PlanOwned <- MCPlanOwned
  PlanPrepared <- MCPlanPrepared
  RequiredTerms <- MCTerms
  TestEpoch = 1
  DefaultFrame = 1
  FrameData <- MCFrameData
  TreeEdits = 2
  Lockfile <- MCLockfile
  CrateOf <- MCCrateOf
  Locks <- MCLocks
  RootChoices <- MCRootChoices
  ArchiveChoices <- MCArchiveChoices
  IndexChoices <- MCIndexChoices
  DatabaseChoices <- MCDatabaseChoices
  NodeEdits <- MCNodeEdits
  MetaChoices <- MCMetaChoices
  Credentials <- MCCredentials
  MaxCacheFiles = 4
  MaxCacheEntries = 2
  Files <- MCFiles
  Edits = 1
  Nil = Nil
  KeptRoots <- MCKeptRoots
  KeptDatabase <- MCKeptDatabase
  Inodes = {i1, i2, i3}
  Payload = {"c1", "c2"}
  Starts <- MCStarts
  MaxSize = 2
  ReadEdits <- MCReadEdits
  Absent = Absent
  Pids = {p1, p2}
  Command = p1
  Exits <- MCExits
  MaxDiagnostics = 2
  MaxWritten = 3
SPECIFICATION GatesSpec
INVARIANT AcceptedIsReviewed
INVARIANT CasesPinTheInputs
INVARIANT OnlyLockedIsBuilt
INVARIANT ReadIsOneMoment
INVARIANT StatusIsOfAllOfIt
PROPERTY CommandIsReported
CHECK_DEADLOCK FALSE
