CONSTANTS
  None = None
  Order = 5
  MaxAmount = 20
  MaxCount = 4
  MaxScalars = 2
  MaxSequence = 99
  Agreements <- AllAgreements
  Contexts <- OneContext
  Entropies = {1, 2}
  Faults = {"drift", "relabel", "garble"}
  MaxFaults = 1
  MaxViews = 1
SPECIFICATION Spec
INVARIANT FinalizedIsApproved
INVARIANT FinalizedKeepsAgreement
INVARIANT UndriftedHandoffBalances
PROPERTY ImplementsJointSpend
CHECK_DEADLOCK FALSE
