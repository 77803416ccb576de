CONSTANTS
  Ledger <- SmallLedger
  Catalog = {"mine"}
  Batches <- UnderfetchedBatches
  MaxWireValue = 9
SPECIFICATION Spec
INVARIANT SpendIsNeverDropped
CHECK_DEADLOCK FALSE
