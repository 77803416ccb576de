---------------------------- MODULE MCAlgorithms ----------------------------
(***************************************************************************)
(* Four procedures that share nothing, each run to its end from every      *)
(* input: the layout of a spend, a call of the limb arithmetic, the caller *)
(* of a C function that answers into a buffer, and the proofs that go with *)
(* a registration. One of them is run, the others stand at a fixed start.  *)
(***************************************************************************)
EXTENDS LayoutPlan, LimbArithmetic, BufferedCall, MCRegistrationProofs

VARIABLE running

(* Digests are told apart and nothing else is done with them.              *)
DigestSymmetry == Permutations(Digests)

all == <<running, vars, limbVars, bufferVars, proofVars>>

LayoutIdle == Init /\ count = [s \in Sides |-> 1]

LimbIdle == LimbInit /\ ring = "scalar" /\ call = [op |-> "add", x |-> 0, y |-> 0]

BufferIdle ==
  /\ entry = "sign" /\ defect = "none" /\ draws = 0 /\ cap = 0
  /\ sizes = [i \in 0..Cardinality(Seeds) |-> 1]
  /\ seed = Min(Seeds) /\ calls = 0 /\ pc = "idle" /\ rng = NewRng(seed)
  /\ stream = << >> /\ length = Stale /\ buffer = << >> /\ status = "none" /\ reported = 0

ProofIdle == oracle = << >> /\ accepted = {} /\ queries = MaxQueries /\ last = "none"

AlgorithmsInit ==
  \/ running = "layout" /\ Init /\ LimbIdle /\ BufferIdle /\ ProofIdle
  \/ running = "limbs" /\ LayoutIdle /\ LimbInit /\ BufferIdle /\ ProofIdle
  \/ running = "buffer" /\ LayoutIdle /\ LimbIdle /\ BufferInit /\ ProofIdle
  \/ running = "proofs" /\ LayoutIdle /\ LimbIdle /\ BufferIdle /\ ProofInit

AlgorithmsNext ==
  \/ running = "layout" /\ Next /\ UNCHANGED <<running, limbVars, bufferVars, proofVars>>
  \/ running = "limbs" /\ LimbNext /\ UNCHANGED <<running, vars, bufferVars, proofVars>>
  \/ running = "buffer" /\ BufferNext /\ UNCHANGED <<running, vars, limbVars, proofVars>>
  \/ running = "proofs" /\ ProofNext /\ UNCHANGED <<running, vars, limbVars, bufferVars>>

AlgorithmsSpec == AlgorithmsInit /\ [][AlgorithmsNext]_all
=============================================================================
