CONSTANTS
  None = None
  Order = 5
  MaxAmount = 20
  MaxCount = 4
  MaxScalars = 2
  MaxSequence = 99
  Agreements <- SmallAgreements
  Contexts <- OneContext
  Entropies = {1}
  Faults = {"drift"}
  MaxFaults = 1
  MaxViews = 1
SPECIFICATION Spec
INVARIANT PartialIsNotCanonical
CHECK_DEADLOCK FALSE
