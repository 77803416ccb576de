CONSTANTS
  None = None
  MaxFrame = 46
  MaxReachable = 44
  MaxSelected = 2
  MaxDestinations = 2
  MaxPrevious = 2
  MaxTransaction = 2
  MaxTransactionBytes = 4
  MaxAddress = 2
  MaxIndex = 1
  MaxValue = 3
  AsciiMax = 3
  MaxWord = 63
  Reviewed <- MCReviewed
  Wide = 5
  NullIndex = 4
  Issuance = 3
  Pegin = 2
  Named <- MCNamed
  FrameBases <- MCFrameBases
  RequestBases <- MCRequestBases
  TransactionBases <- MCTransactionBases
  PrepareBases <- MCPrepareBases
  Owned <- MCOwned
  Cells <- MCCells
  Words <- MCWords
  ManagedEdits = 2
  FormulaEdits = 3
  Zero = 0
  TransactionIds = {1, 2}
  Bindings = {1, 2}
  MaxInputIndex = 1
  MaxDerivation = 1
  MaxOutputValue = 2
  FactsFrames <- MCFactsFrames
  RecipeEdits = 4
  TableEdits = 3
  FactsMost = 2
  Symbols <- MCSymbols
  ReviewedCrate <- MCReviewedCrate
  ReviewedAuthority <- MCReviewedAuthority
  ReviewedManifest <- MCReviewedManifest
  Production <- MCProduction
  Roots = {"dep"}
  DependencyNames = {"Item"}
  Forbidden <- MCForbidden
  Calls <- MCCalls
  PinnedItems <- MCPinnedItems
  Type = "Item"
  EnumMarker <- MCEnumMarker
  BodyMarker <- MCBodyMarker
  RegionStart <- MCRegionStart
  RegionEnd <- MCBodyMarker
  ThreadLocal <- MCThreadLocal
  FirstLines <- MCFirstLines
  LaterLines <- MCLaterLines
  Drafts = 2
INIT SourcesInit
NEXT SourcesNext
CHECK_DEADLOCK FALSE
INVARIANT AcceptedIsCanonical
INVARIANT RepackNamesTheChange
INVARIANT JudgesAgree
INVARIANT IdentityIsStripped
INVARIANT CleanRecipesRoundTrip
INVARIANT AcceptedFramesAreTold
INVARIANT SurfaceIsReviewed
INVARIANT ScansAgree
