CONSTANTS
  Draws = 8
  MaxAttempts = 2
  MaxBound = 4
  MaxCount = 5
  WordBits = 2
  N = 3
  Prime = 43
  Order = 61
  NoNumber = NoNumber
  CounterMax = 2
  Seeds = {0, 1}
  MaxBlocks = 5
  MaxSize = 3
  MaxResponse = 2
  MaxCalls = 3
  Q = 5
  Revisions <- MCRevisions
  Digests = {d1, d2}
  Credentials <- MCCredentials
  Witnesses = {0, 1, 2, 4}
  Nonces = {1, 3}
  ProofBytes = {"p", "q"}
  IndexLists <- MCIndexLists
  Fees = {0, 1, 2}
  MaxProofs = 1
  MaxQueries = 2
  None = None
SYMMETRY DigestSymmetry
SPECIFICATION AlgorithmsSpec
INVARIANT LayoutIsPermutation
INVARIANT NothingBeforeBoth
INVARIANT LayoutIsEven
INVARIANT ResultIsResidue
INVARIANT OutcomeIsWhole
INVARIANT BlocksAreFresh
INVARIANT AcceptedValuesAgree
INVARIANT AcceptedInOneContext
INVARIANT VerificationIsExact
CHECK_DEADLOCK FALSE
