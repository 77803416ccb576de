------------------------- MODULE AtomicObservation -------------------------
(***************************************************************************)
(* What an observation promises: in one step, either the complete facts of *)
(* the batch or nothing at all.                                            *)
(***************************************************************************)
EXTENDS WalletCandidates

VARIABLES
  batch,           \* the candidates, in request order
  answer           \* [status |-> "pending", "rejected" or "facts", facts |-> ...]

Kept(b) == {i \in DOMAIN b : PubliclyValid(b[i])}

(* A batch is acceptable when every candidate decodes and is valid or has  *)
(* nothing to do with the wallet, no candidate repeats a valid one before  *)
(* it, and every owned output opens.                                       *)
Acceptable(b) ==
  /\ \A i \in DOMAIN b : Decodes(b[i].tx) /\ (PubliclyValid(b[i]) \/ Excludable(b[i]))
  /\ \A i \in Kept(b), j \in DOMAIN b : i < j => b[i].tx.id # b[j].tx.id
  /\ \A i \in Kept(b) : \A v \in Owned(b[i]) : Opens(Outputs(b[i])[v])

HasOwned(b) == \E i \in Kept(b) : Owned(b[i]) # {}

Facts(b) ==
  [transactions |-> {[id |-> b[i].tx.id, bytes |-> b[i].tx, inputs |-> Inputs(b[i])] :
                       i \in Kept(b)},
   outputs |-> UNION {{[tx |-> b[i].tx.id, vout |-> v] : v \in Owned(b[i])} : i \in Kept(b)}]

NoFacts == [transactions |-> {}, outputs |-> {}]

Init == answer = [status |-> "pending", facts |-> NoFacts]

Answer ==
  /\ answer.status = "pending"
  /\ Acceptable(batch)
  /\ answer' = [status |-> "facts", facts |-> Facts(batch)]
  /\ UNCHANGED batch

(* Entropy may be refused, but is only asked for when something is owned.  *)
Reject ==
  /\ answer.status = "pending"
  /\ ~ Acceptable(batch) \/ HasOwned(batch)
  /\ answer' = [status |-> "rejected", facts |-> NoFacts]
  /\ UNCHANGED batch

Next == Answer \/ Reject

Safety == Init /\ [][Next]_<<batch, answer>>

Spec == Safety /\ WF_<<batch, answer>>(Next)
=============================================================================
