CONSTANTS
  None = None
  Order = 5
  MaxAmount = 20
  MaxCount = 4
  MaxScalars = 2
  MaxSequence = 99
  Agreements <- WideAgreements
  Contexts <- AllContexts
  Entropies = {1}
  Faults = {"garble"}
  MaxFaults = 1
  MaxViews = 2
SPECIFICATION Spec
INVARIANT FinalizedInOneContext
CHECK_DEADLOCK FALSE
