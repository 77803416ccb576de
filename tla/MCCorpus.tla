------------------------------- MODULE MCCorpus -------------------------------
(* Both corpora under their editors; one of the two is idle in a behaviour.    *)
EXTENDS MCPlanCorpus, FactsCorpus

MCFactsFrames == <<[kind |-> "request", data |-> <<1, 2>>], [kind |-> "response", data |-> <<2, 1>>]>>

CorporaInit ==
  \/ PlanCorpusInit /\ recipe = None /\ rows = << >> /\ cases = {} /\ touches = 0
  \/ FactsInit /\ kind = None /\ parent = None /\ now = None /\ row = None /\ edits = 0
CorporaNext ==
  \/ ReplaceCell /\ UNCHANGED factsVars
  \/ AppendCell /\ UNCHANGED factsVars
  \/ Truncate /\ UNCHANGED factsVars
  \/ RepackFrame /\ UNCHANGED factsVars
  \/ EditObject /\ UNCHANGED factsVars
  \/ EditBatch /\ UNCHANGED factsVars
  \/ EditCall /\ UNCHANGED factsVars
  \/ EditTransaction /\ UNCHANGED factsVars
  \/ EditPrepare /\ UNCHANGED factsVars
  \/ RaiseBoundary /\ UNCHANGED factsVars
  \/ EditFormula /\ UNCHANGED factsVars
  \/ AddCandidate /\ UNCHANGED corpusVars
  \/ AddPrevious /\ UNCHANGED corpusVars
  \/ AddTransaction /\ UNCHANGED corpusVars
  \/ AddOutput /\ UNCHANGED corpusVars
  \/ AddFrame /\ UNCHANGED corpusVars
  \/ PointAtParent /\ UNCHANGED corpusVars
  \/ EditCases /\ UNCHANGED corpusVars
=============================================================================
