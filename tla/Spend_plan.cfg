CONSTANTS
  Ledger <- SmallLedger
  Catalog = {"mine"}
  Requests <- SmallRequests
  Entropies = {"e1", "e2"}
  Shuffle <- SmallShuffle
  MaxTotal = 4
  BlindDraws = 2
  MaxCalls = 2
SPECIFICATION Spec
INVARIANT DigestIsOfThePlan
INVARIANT FallbackIsNeverSigned
INVARIANT ProviderIsNotAskedInVain
INVARIANT RetainedIsSignable
PROPERTY NoDigestBeforeKeys
PROPERTY ImplementsSpendOnce
CHECK_DEADLOCK FALSE
