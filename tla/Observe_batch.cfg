CONSTANTS
  Ledger <- SmallLedger
  Catalog = {"mine"}
  Batches <- PairBatches
  MaxWireValue = 9
SPECIFICATION Spec
INVARIANT PrivateAfterPublic
INVARIANT OwnedIsNeverDropped
INVARIANT VisibleSpendIsNeverDropped
INVARIANT ObservedIsEncodable
PROPERTY ImplementsAtomic
CHECK_DEADLOCK FALSE
