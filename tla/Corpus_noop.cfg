CONSTANTS
  None = None
  MaxFrame = 46
  MaxReachable = 44
  MaxSelected = 2
  MaxDestinations = 2
  MaxPrevious = 2
  MaxTransaction = 2
  MaxTransactionBytes = 4
  MaxAddress = 2
  MaxIndex = 1
  MaxValue = 3
  AsciiMax = 3
  MaxWord = 63
  Reviewed <- MCReviewed
  Wide = 5
  NullIndex = 4
  Issuance = 3
  Pegin = 2
  Named <- MCNamed
  FrameBases <- MCFrameBases
  RequestBases <- MCRequestBases
  TransactionBases <- MCTransactionBases
  PrepareBases <- MCPrepareBases
  Owned <- MCOwned
  Cells <- MCCells
  Words <- MCWords
  ManagedEdits = 2
  FormulaEdits = 3
INIT PlanCorpusInit
NEXT PlanCorpusNext
CHECK_DEADLOCK FALSE
INVARIANT NoOpEditsAreRefused
