CONSTANTS
  Ledger <- SmallLedger
  Catalog = {"mine"}
  Requests <- SinglePlan
  Entropies = {"e1", "e2"}
  Shuffle <- SmallShuffle
  MaxTotal = 4
  BlindDraws = 2
  MaxCalls = 1
SPECIFICATION Spec
INVARIANT SighashByteIsInTheBuffer
CHECK_DEADLOCK FALSE
