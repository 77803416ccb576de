---------------------- MODULE WalletObservation_proofs ----------------------
(***************************************************************************)
(* Safety of an observation for any ledger, catalog and batches.  The      *)
(* invariant says what the first pass has established of the candidates it *)
(* has been over, and that the second pass only walks what it kept.        *)
(***************************************************************************)
EXTENDS WalletObservation, TLAPS

Refused == phase = "rejected"

(* The first pass: every candidate it has been over decodes, and is kept   *)
(* exactly when it is publicly valid.                                      *)
Verdicts ==
  ~ Refused => \A i \in 1..scanned :
    /\ Decodes(batch[i].tx)
    /\ i \in kept <=> PubliclyValid(batch[i])
    /\ i \in kept => OwnedConfidential(batch[i])
    /\ i \notin kept => Excludable(batch[i])

(* A candidate that repeats an identifier comes before the one kept.       *)
KeptAreFirst ==
  ~ Refused => \A i \in kept, j \in 1..scanned : i < j => batch[i].tx.id # batch[j].tx.id

PhaseOrder ==
  /\ phase = "scan" => seeds = 0 /\ derived = {} /\ outputs = << >> /\ transactions = << >>
  /\ phase \in {"open", "encode", "done", "internal"} =>
       scanned = Len(batch) /\ (HasOwned => seeds = 1)
  /\ phase \in {"encode", "done", "internal"} => Unobserved = {}

OutputsAreOwned ==
  \A n \in DOMAIN outputs : \E k \in kept :
    /\ outputs[n].tx = batch[k].tx.id
    /\ outputs[n].vout \in Owned(batch[k])
    /\ Opens(Outputs(batch[k])[outputs[n].vout])

(* An observed transaction is a kept one, all of whose outputs are out.    *)
TransactionsAreKept ==
  \A t \in DOMAIN transactions : \E k \in kept :
    /\ transactions[t] = [id |-> batch[k].tx.id, bytes |-> batch[k].tx,
                          inputs |-> Inputs(batch[k])]
    /\ Unopened(batch[k]) = {}

IInv == /\ TypeOK /\ Verdicts /\ KeptAreFirst /\ PhaseOrder
        /\ OutputsAreOwned /\ TransactionsAreKept /\ PrivateAfterPublic

-----------------------------------------------------------------------------
LEMMA CandidateTypes ==
  ASSUME NEW c \in Candidate
  PROVE  /\ c.tx \in Transaction /\ c.tx.id \in Ids
         /\ Inputs(c) \in Seq(Outpoint)
         /\ Owned(c) \subseteq Nat \ {0}
<1>1. c.tx \in Transaction /\ c.tx.id \in Ids
  BY DEF Candidate, Transaction
<1>2. Inputs(c) \in Seq(Outpoint) /\ Outputs(c) \in Seq(Output)
  BY <1>1, LedgerAssumption DEF Inputs, Outputs
<1>3. DOMAIN Outputs(c) \subseteq Nat \ {0}
  BY <1>2
<1> QED BY <1>1, <1>2, <1>3 DEF Owned

LEMMA InitIInv == Init => IInv
<1> SUFFICES ASSUME Init PROVE IInv
  OBVIOUS
<1>1. TypeOK
  BY ObservationAssumption DEF Init, TypeOK
<1>2. Verdicts /\ KeptAreFirst /\ PhaseOrder /\ OutputsAreOwned /\ TransactionsAreKept
  BY DEF Init, Verdicts, KeptAreFirst, PhaseOrder, OutputsAreOwned, TransactionsAreKept
<1>3. PrivateAfterPublic
  BY DEF Init, PrivateAfterPublic
<1> QED BY <1>1, <1>2, <1>3 DEF IInv

(* One candidate of the first pass.                                        *)
LEMMA ScanIInv == IInv /\ Scan => IInv'
<1> SUFFICES ASSUME IInv, Scan PROVE IInv'
  OBVIOUS
<1> DEFINE n == scanned + 1
           c == batch[n]
<1> USE DEF IInv
<1>1. /\ batch \in Seq(Candidate) /\ scanned \in Nat /\ n \in 1..Len(batch)
      /\ c \in Candidate /\ batch' = batch /\ scanned' = n /\ phase = "scan"
      /\ seeds' = seeds /\ derived' = derived /\ kept \subseteq 1..scanned
  BY DEF TypeOK, Scan
<1>2. seeds = 0 /\ derived = {} /\ outputs = << >> /\ transactions = << >>
  BY <1>1 DEF PhaseOrder
<1>3. outputs' = << >> /\ transactions' = << >>
  BY <1>2 DEF Scan, Reject
<1>4. /\ phase' \in {"scan", "rejected"}
      /\ kept' = kept \/ kept' = kept \cup {n}
      /\ kept' \subseteq 1..n
  <2>1. kept' = kept \/ kept' = kept \cup {n}
    BY DEF Scan
  <2>2. phase' = phase \/ phase' = "rejected"
    BY DEF Scan, Reject
  <2>3. kept \subseteq 1..n /\ n \in 1..n
    BY <1>1
  <2> QED BY <1>1, <2>1, <2>2, <2>3
<1>5. TypeOK'
  BY <1>1, <1>2, <1>3, <1>4 DEF TypeOK
<1>6. Verdicts'
  <2> SUFFICES ASSUME phase' # "rejected", NEW i \in 1..n
               PROVE  /\ Decodes(batch[i].tx)
                      /\ i \in kept' <=> PubliclyValid(batch[i])
                      /\ i \in kept' => OwnedConfidential(batch[i])
                      /\ i \notin kept' => Excludable(batch[i])
    BY <1>1 DEF Verdicts, Refused
  <2>1. \/ Keeps(c) /\ kept' = kept \cup {n}
        \/ Excludes(c) /\ kept' = kept
    BY DEF Scan, Reject
  <2>2. CASE i \in 1..scanned
    <3>1. i \in kept' <=> i \in kept
      BY <1>1, <2>1, <2>2
    <3> QED BY <1>1, <2>2, <3>1 DEF Verdicts, Refused
  <2>3. CASE i = n
    <3>1. n \notin kept
      BY <1>1
    <3> QED BY <2>1, <2>3, <3>1 DEF Keeps, Excludes
  <2> QED BY <1>1, <2>2, <2>3
<1>7. KeptAreFirst'
  <2> SUFFICES ASSUME phase' # "rejected", NEW i \in kept', NEW j \in 1..n, i < j
               PROVE  batch[i].tx.id # batch[j].tx.id
    BY <1>1 DEF KeptAreFirst, Refused
  <2>1. i \in kept
    BY <1>1, <1>4 DEF Scan, Reject
  <2>2. CASE j \in 1..scanned
    BY <1>1, <2>1, <2>2 DEF KeptAreFirst, Refused
  <2>3. CASE j = n
    BY <1>1, <2>1, <2>3 DEF Scan, Reject, Keeps, Excludes, KeptIds
  <2> QED BY <1>1, <2>2, <2>3
<1>8. PhaseOrder' /\ OutputsAreOwned' /\ TransactionsAreKept' /\ PrivateAfterPublic'
  BY <1>1, <1>2, <1>3, <1>4
  DEF PhaseOrder, OutputsAreOwned, TransactionsAreKept, PrivateAfterPublic
<1> QED BY <1>5, <1>6, <1>7, <1>8

(* The first pass is over: what it kept is what is publicly valid.         *)
LEMMA ScanComplete ==
  ASSUME IInv, ~ Refused, scanned = Len(batch)
  PROVE  /\ kept = {i \in DOMAIN batch : PubliclyValid(batch[i])}
         /\ \A i \in DOMAIN batch :
              Decodes(batch[i].tx) /\ (PubliclyValid(batch[i]) \/ Excludable(batch[i]))
<1>1. DOMAIN batch = 1..scanned
  BY DEF IInv, TypeOK
<1>2. kept \subseteq 1..scanned
  BY DEF IInv, TypeOK
<1> QED BY <1>1, <1>2 DEF IInv, Verdicts

LEMMA RandomizeIInv == IInv /\ Randomize => IInv'
<1> SUFFICES ASSUME IInv, Randomize PROVE IInv'
  OBVIOUS
<1> USE DEF IInv
<1>1. /\ phase = "scan" /\ scanned = Len(batch) /\ phase' \in {"open", "rejected"}
      /\ batch' = batch /\ scanned' = scanned /\ kept' = kept /\ derived' = derived
      /\ seeds' \in {seeds, seeds + 1}
  BY DEF Randomize, ScanEnds, Reject
<1>2. seeds = 0 /\ derived = {} /\ outputs = << >> /\ transactions = << >>
  BY <1>1 DEF PhaseOrder
<1>3. outputs' = << >> /\ transactions' = << >>
  BY <1>2 DEF Randomize, Reject
<1>4. TypeOK'
  BY <1>1, <1>2, <1>3 DEF TypeOK
<1>5. Verdicts' /\ KeptAreFirst'
  BY <1>1 DEF Verdicts, KeptAreFirst, Refused
<1>6. OutputsAreOwned' /\ TransactionsAreKept'
  BY <1>3 DEF OutputsAreOwned, TransactionsAreKept
<1>7. PhaseOrder'
  <2>1. HasOwned' <=> HasOwned
    BY <1>1 DEF HasOwned
  <2>2. phase' = "open" /\ HasOwned => seeds' = 1
    BY <1>2 DEF Randomize, Reject
  <2> QED BY <1>1, <2>1, <2>2 DEF PhaseOrder
<1>8. PrivateAfterPublic'
  <2>1. ~ Refused
    BY <1>1 DEF Refused
  <2>2. seeds' > 0 => HasOwned
    BY <1>2 DEF Randomize
  <2>3. HasOwned => \E i \in DOMAIN batch : PubliclyValid(batch[i]) /\ Owned(batch[i]) # {}
    BY <1>1, <2>1, ScanComplete DEF HasOwned
  <2> QED BY <1>1, <1>2, <2>2, <2>3 DEF PrivateAfterPublic
<1> QED BY <1>4, <1>5, <1>6, <1>7, <1>8

(* One output of the second pass.                                          *)
LEMMA OpenOutputIInv ==
  ASSUME IInv, NEW k \in kept, OpenOutput(k)
  PROVE  IInv'
<1> USE DEF IInv
<1> DEFINE c == batch[k]
<1>1. /\ phase = "open" /\ scanned = Len(batch) /\ k \in 1..Len(batch)
      /\ batch' = batch /\ scanned' = scanned /\ kept' = kept /\ seeds' = seeds
      /\ c \in Candidate
  <2>1. phase = "open" /\ UNCHANGED <<batch, scanned, kept, seeds>>
    BY DEF OpenOutput
  <2>2. scanned = Len(batch) /\ batch \in Seq(Candidate) /\ k \in 1..Len(batch)
    BY <2>1 DEF TypeOK, PhaseOrder
  <2> QED BY <2>1, <2>2
<1>2. PICK v \in Unopened(c) :
        /\ derived' = derived \cup {[tx |-> c.tx.id, vout |-> v]}
        /\ \/ /\ Opens(Outputs(c)[v])
              /\ outputs' = Append(outputs, OutputFact(c, v))
              /\ UNCHANGED <<phase, transactions>>
           \/ ~ Opens(Outputs(c)[v]) /\ Reject
  BY DEF OpenOutput
<1>3. /\ v \in Owned(c) /\ v \in Nat \ {0}
      /\ c.tx.id \in Ids /\ c.tx \in Transaction
  BY <1>1, <1>2, CandidateTypes DEF Unopened
<1>4. HasOwned /\ ~ Refused
  BY <1>1, <1>3 DEF HasOwned, Refused
<1>5. TypeOK'
  <2>1. /\ derived' \subseteq [tx : Ids, vout : Nat \ {0}]
        /\ phase' \in {"open", "rejected"}
    BY <1>1, <1>2, <1>3 DEF TypeOK, Reject
  <2>2. OutputFact(c, v) \in [tx : Ids, vout : Nat \ {0}, bytes : Transaction]
    BY <1>3 DEF OutputFact
  <2>3. /\ outputs' \in Seq([tx : Ids, vout : Nat \ {0}, bytes : Transaction])
        /\ transactions' \in Seq([id : Ids, bytes : Transaction, inputs : Seq(Outpoint)])
    <3>1. CASE Reject
      BY <3>1 DEF Reject
    <3>2. CASE outputs' = Append(outputs, OutputFact(c, v)) /\ transactions' = transactions
      BY <2>2, <3>2 DEF TypeOK
    <3> QED BY <1>2, <3>1, <3>2
  <2> QED BY <1>1, <2>1, <2>3 DEF TypeOK
<1>6. Verdicts' /\ KeptAreFirst'
  BY <1>1, <1>4 DEF Verdicts, KeptAreFirst, Refused
<1>7. PhaseOrder'
  BY <1>1, <1>2, <1>4 DEF PhaseOrder, HasOwned, Reject
<1>8. PrivateAfterPublic'
  <2>1. seeds = 1
    BY <1>1, <1>4 DEF PhaseOrder
  <2>2. \A i \in DOMAIN batch :
          Decodes(batch[i].tx) /\ (PubliclyValid(batch[i]) \/ Owned(batch[i]) = {})
    BY <1>1, <1>4, ScanComplete DEF Excludable
  <2>3. \E i \in DOMAIN batch : PubliclyValid(batch[i]) /\ Owned(batch[i]) # {}
    BY <1>1, <1>4, ScanComplete DEF HasOwned
  <2> QED BY <1>1, <2>1, <2>2, <2>3 DEF PrivateAfterPublic
<1>9. CASE Reject
  BY <1>5, <1>6, <1>7, <1>8, <1>9
  DEF Reject, OutputsAreOwned, TransactionsAreKept
<1>10. CASE /\ Opens(Outputs(c)[v])
            /\ outputs' = Append(outputs, OutputFact(c, v))
            /\ UNCHANGED <<phase, transactions>>
  <2>1. /\ Len(outputs') = Len(outputs) + 1 /\ Len(outputs) \in Nat
        /\ DOMAIN outputs' = 1..Len(outputs') /\ DOMAIN outputs = 1..Len(outputs)
        /\ \A n \in DOMAIN outputs : outputs'[n] = outputs[n]
        /\ outputs'[Len(outputs')] = OutputFact(c, v)
    BY <1>5, <1>10 DEF TypeOK
  <2>2. OutputsAreOwned'
    <3> SUFFICES ASSUME NEW n \in DOMAIN outputs'
                 PROVE  \E l \in kept : /\ outputs'[n].tx = batch[l].tx.id
                                        /\ outputs'[n].vout \in Owned(batch[l])
                                        /\ Opens(Outputs(batch[l])[outputs'[n].vout])
      BY <1>1 DEF OutputsAreOwned
    <3>1. CASE n \in DOMAIN outputs
      BY <2>1, <3>1 DEF OutputsAreOwned
    <3>2. CASE n = Len(outputs')
      BY <1>3, <1>10, <2>1, <3>2 DEF OutputFact
    <3> QED BY <2>1, <3>1, <3>2
  <2>3. TransactionsAreKept'
    <3>1. \A l \in kept : Unopened(batch[l])' \subseteq Unopened(batch[l])
      BY <1>1, <2>1 DEF Unopened
    <3>2. transactions' = transactions /\ batch' = batch /\ kept' = kept
      BY <1>1, <1>10
    <3> SUFFICES ASSUME NEW t \in DOMAIN transactions
                 PROVE  \E l \in kept :
                          /\ transactions[t] = [id |-> batch[l].tx.id, bytes |-> batch[l].tx,
                                                inputs |-> Inputs(batch[l])]
                          /\ Unopened(batch[l])' = {}
      BY <3>2 DEF TransactionsAreKept, Unopened
    <3> QED BY <3>1 DEF TransactionsAreKept
  <2> QED BY <1>5, <1>6, <1>7, <1>8, <2>2, <2>3
<1> QED BY <1>2, <1>9, <1>10

LEMMA ObserveTransactionIInv ==
  ASSUME IInv, NEW k \in kept, ObserveTransaction(k)
  PROVE  IInv'
<1> USE DEF IInv
<1> DEFINE c == batch[k]
           fact == [id |-> c.tx.id, bytes |-> c.tx, inputs |-> Inputs(c)]
<1>1. /\ phase = "open" /\ scanned = Len(batch) /\ k \in 1..Len(batch)
      /\ UNCHANGED <<batch, phase, scanned, kept, seeds, derived, outputs>>
      /\ transactions' = Append(transactions, fact)
      /\ c \in Candidate /\ Unopened(c) = {}
  BY DEF TypeOK, PhaseOrder, ObserveTransaction
<1>2. fact \in [id : Ids, bytes : Transaction, inputs : Seq(Outpoint)]
  BY <1>1, CandidateTypes
<1> HIDE DEF fact
<1>3. TypeOK'
  BY <1>1, <1>2 DEF TypeOK
<1>4. /\ Verdicts' /\ KeptAreFirst' /\ OutputsAreOwned' /\ PrivateAfterPublic'
      /\ PhaseOrder'
  BY <1>1 DEF Verdicts, KeptAreFirst, OutputsAreOwned, PrivateAfterPublic, PhaseOrder,
              Refused, HasOwned
<1>5. TransactionsAreKept'
  <2> SUFFICES ASSUME NEW t \in DOMAIN transactions'
               PROVE  \E l \in kept :
                        /\ transactions'[t] = [id |-> batch[l].tx.id, bytes |-> batch[l].tx,
                                               inputs |-> Inputs(batch[l])]
                        /\ Unopened(batch[l]) = {}
    <3>1. \A l \in kept : Unopened(batch[l])' = Unopened(batch[l])
      BY <1>1 DEF Unopened
    <3> QED BY <1>1, <3>1 DEF TransactionsAreKept
  <2>1. CASE t \in DOMAIN transactions
    <3>1. transactions'[t] = transactions[t]
      BY <1>1, <2>1 DEF TypeOK
    <3> QED BY <2>1, <3>1 DEF TransactionsAreKept
  <2>2. CASE t \notin DOMAIN transactions
    <3>1. transactions'[t] = fact
      BY <1>1, <2>2 DEF TypeOK
    <3> QED BY <1>1, <3>1 DEF fact
  <2> QED BY <2>1, <2>2
<1> QED BY <1>3, <1>4, <1>5

LEMMA NextIInv == IInv /\ [Next]_vars => IInv'
<1> SUFFICES ASSUME IInv, [Next]_vars PROVE IInv'
  OBVIOUS
<1>1. CASE Observed \/ Encode
  <2>1. /\ UNCHANGED <<batch, scanned, kept, seeds, derived, transactions, outputs>>
        /\ phase \in {"open", "encode"} /\ phase' \in {"encode", "done", "internal"}
        /\ Unobserved = {}
    BY <1>1 DEF Observed, Encode, IInv, PhaseOrder
  <2>2. TypeOK' /\ PrivateAfterPublic' /\ OutputsAreOwned'
    BY <2>1 DEF IInv, TypeOK, PrivateAfterPublic, OutputsAreOwned
  <2>5. TransactionsAreKept'
    BY <2>1 DEF IInv, TransactionsAreKept, Unopened
  <2>3. Verdicts' /\ KeptAreFirst'
    BY <2>1 DEF IInv, Verdicts, KeptAreFirst, Refused
  <2>4. PhaseOrder'
    BY <2>1 DEF IInv, PhaseOrder, HasOwned, Unobserved, ObservedIds
  <2> QED BY <2>2, <2>3, <2>4, <2>5 DEF IInv
<1>2. CASE UNCHANGED vars
  <2>1. /\ UNCHANGED <<batch, phase, scanned, kept, seeds, derived, transactions, outputs>>
    BY <1>2 DEF vars
  <2>2. TypeOK' /\ PrivateAfterPublic' /\ OutputsAreOwned'
    BY <2>1 DEF IInv, TypeOK, PrivateAfterPublic, OutputsAreOwned
  <2>3. Verdicts' /\ KeptAreFirst'
    BY <2>1 DEF IInv, Verdicts, KeptAreFirst, Refused
  <2>4. PhaseOrder'
    BY <2>1 DEF IInv, PhaseOrder, HasOwned, Unobserved, ObservedIds
  <2>5. TransactionsAreKept'
    BY <2>1 DEF IInv, TransactionsAreKept, Unopened
  <2> QED BY <2>2, <2>3, <2>4, <2>5 DEF IInv
<1> QED
  BY <1>1, <1>2, ScanIInv, RandomizeIInv, OpenOutputIInv, ObserveTransactionIInv DEF Next

LEMMA Invariance == Spec => []IInv
<1> QED BY InitIInv, NextIInv, PTL DEF Spec

(* Every value a call holds is of its type.                                *)
THEOREM TypeCorrect == Spec => []TypeOK
<1>1. IInv => TypeOK
  BY DEF IInv
<1> QED BY <1>1, Invariance, PTL

(* No entropy is asked for and no key derived before the whole batch has   *)
(* passed its public checks.                                               *)
THEOREM PublicFirst == Spec => []PrivateAfterPublic
<1>1. IInv => PrivateAfterPublic
  BY DEF IInv
<1> QED BY <1>1, Invariance, PTL

-----------------------------------------------------------------------------
(* When the second pass is over, everything valid has been observed.       *)
LEMMA AllObserved ==
  ASSUME IInv, phase \in {"open", "encode", "done", "internal"}, Unobserved = {},
         NEW i \in DOMAIN batch, PubliclyValid(batch[i])
  PROVE  /\ \E t \in DOMAIN transactions :
              transactions[t] = [id |-> batch[i].tx.id, bytes |-> batch[i].tx,
                                 inputs |-> Inputs(batch[i])]
         /\ \A v \in Owned(batch[i]) :
              /\ Opens(Outputs(batch[i])[v])
              /\ \E n \in DOMAIN outputs : /\ outputs[n].tx = batch[i].tx.id
                                           /\ outputs[n].vout = v
<1>1. ~ Refused /\ scanned = Len(batch)
  BY DEF IInv, PhaseOrder, Refused
<1>2. i \in kept /\ kept \subseteq 1..scanned /\ scanned \in Nat
  BY <1>1, ScanComplete DEF IInv, TypeOK
<1>3. \A k \in kept : batch[k].tx.id = batch[i].tx.id => k = i
  BY <1>1, <1>2 DEF IInv, KeptAreFirst
<1>4. PICK t \in DOMAIN transactions : transactions[t].id = batch[i].tx.id
  BY <1>2 DEF Unobserved, ObservedIds
<1>5. /\ transactions[t] = [id |-> batch[i].tx.id, bytes |-> batch[i].tx,
                            inputs |-> Inputs(batch[i])]
      /\ Unopened(batch[i]) = {}
  BY <1>3, <1>4 DEF IInv, TransactionsAreKept
<1>6. ASSUME NEW v \in Owned(batch[i])
      PROVE  /\ Opens(Outputs(batch[i])[v])
             /\ \E n \in DOMAIN outputs : /\ outputs[n].tx = batch[i].tx.id
                                          /\ outputs[n].vout = v
  <2>1. PICK n \in DOMAIN outputs : outputs[n].tx = batch[i].tx.id /\ outputs[n].vout = v
    BY <1>5, <1>6 DEF Unopened
  <2>2. PICK k \in kept : /\ outputs[n].tx = batch[k].tx.id
                          /\ Opens(Outputs(batch[k])[outputs[n].vout])
    BY DEF IInv, OutputsAreOwned
  <2>3. k = i
    BY <1>3, <2>1, <2>2
  <2> QED BY <2>1, <2>2, <2>3
<1> QED BY <1>5, <1>6

(* Whatever is observed of a batch, none of the wallet's outputs is left   *)
(* out.                                                                    *)
THEOREM OwnedKept == Spec => []OwnedIsNeverDropped
<1>1. IInv => OwnedIsNeverDropped
  <2> SUFFICES ASSUME IInv, Succeeded, NEW i \in DOMAIN batch, NEW v \in Owned(batch[i])
               PROVE  \E n \in DOMAIN outputs : /\ outputs[n].tx = batch[i].tx.id
                                                /\ outputs[n].vout = v
    BY DEF OwnedIsNeverDropped
  <2>1. phase \in {"encode", "done"} /\ Unobserved = {} /\ scanned = Len(batch) /\ ~ Refused
    BY DEF Succeeded, IInv, PhaseOrder, Refused
  <2>2. PubliclyValid(batch[i])
    BY <2>1, ScanComplete DEF Excludable
  <2> QED BY <2>1, <2>2, AllObserved
<1> QED BY <1>1, Invariance, PTL

(* Nor is a spend of the wallet's outputs that came with the transaction   *)
(* it spends.                                                              *)
THEOREM VisibleSpendsKept == Spec => []VisibleSpendIsNeverDropped
<1>1. IInv => VisibleSpendIsNeverDropped
  <2> SUFFICES ASSUME IInv, Succeeded, NEW i \in DOMAIN batch,
                      NEW s \in CatalogSpends(batch[i]), NEW p \in DOMAIN batch[i].prev,
                      batch[i].prev[p].id = Inputs(batch[i])[s].tx,
                      batch[i].prev[p].enc # "garbage"
               PROVE  Reported(batch[i])
    BY DEF VisibleSpendIsNeverDropped
  <2>1. phase \in {"encode", "done"} /\ Unobserved = {} /\ scanned = Len(batch) /\ ~ Refused
    BY DEF Succeeded, IInv, PhaseOrder, Refused
  <2>2. SpendsCatalog(batch[i])
    BY DEF SpendsCatalog, CatalogSpends
  <2>3. PubliclyValid(batch[i])
    BY <2>1, <2>2, ScanComplete DEF Excludable
  <2> QED BY <2>1, <2>3, AllObserved DEF Reported
<1> QED BY <1>1, Invariance, PTL

-----------------------------------------------------------------------------
(* The abstract module's predicates of candidates are this module's.       *)
LEMMA SamePredicates ==
  ASSUME NEW c
  PROVE  /\ Abstract!Decodes(c) = Decodes(c)
         /\ Abstract!PubliclyValid(c) = PubliclyValid(c)
         /\ Abstract!Excludable(c) = Excludable(c)
         /\ Abstract!Owned(c) = Owned(c)
         /\ Abstract!Opens(c) = Opens(c)
         /\ Abstract!Outputs(c) = Outputs(c)
         /\ Abstract!Inputs(c) = Inputs(c)
<1>1. /\ Abstract!Decodes(c) = Decodes(c) /\ Abstract!Outputs(c) = Outputs(c)
      /\ Abstract!Inputs(c) = Inputs(c) /\ Abstract!Opens(c) = Opens(c)
  BY DEF Decodes, Outputs, Inputs, Opens,
         Abstract!Decodes, Abstract!Outputs, Abstract!Inputs, Abstract!Opens
<1>2. Abstract!Owned(c) = Owned(c)
  BY <1>1 DEF Owned, Abstract!Owned
<1>3. Abstract!AmountProofsVerify(c) = AmountProofsVerify(c)
  BY <1>1 DEF AmountProofsVerify, Abstract!AmountProofsVerify
<1>4. Abstract!PreviousOutputsMatch(c) = PreviousOutputsMatch(c)
  BY <1>1 DEF PreviousOutputsMatch, Abstract!PreviousOutputsMatch, Decodes,
              Abstract!Decodes, Exists, Abstract!Exists
<1>5. Abstract!SpendsCatalog(c) = SpendsCatalog(c)
  BY <1>1 DEF SpendsCatalog, Abstract!SpendsCatalog, Exists, Abstract!Exists,
              Spent, Abstract!Spent
<1> QED
  BY <1>1, <1>2, <1>3, <1>4, <1>5
  DEF PubliclyValid, Abstract!PubliclyValid, Excludable, Abstract!Excludable

(* A candidate the first pass refuses makes its batch unacceptable.        *)
LEMMA RefusedIsUnacceptable ==
  ASSUME IInv, phase = "scan", scanned < Len(batch),
         ~ Keeps(batch[scanned + 1]), ~ Excludes(batch[scanned + 1])
  PROVE  ~ Abstract!Acceptable(batch)
<1> DEFINE n == scanned + 1
           c == batch[n]
<1>1. n \in DOMAIN batch /\ scanned \in Nat /\ kept \subseteq 1..scanned
  BY DEF IInv, TypeOK
<1>2. CASE ~ Decodes(c.tx)
  BY <1>1, <1>2, SamePredicates DEF Abstract!Acceptable
<1>3. CASE c.tx.id \in KeptIds
  <2>1. PICK k \in kept : batch[k].tx.id = c.tx.id
    BY <1>3 DEF KeptIds
  <2>2. k \in DOMAIN batch /\ k < n /\ PubliclyValid(batch[k])
    BY <1>1 DEF IInv, TypeOK, Verdicts, Refused
  <2>3. k \in Abstract!Kept(batch)
    BY <2>2, SamePredicates DEF Abstract!Kept
  <2> QED BY <1>1, <2>1, <2>2, <2>3 DEF Abstract!Acceptable
<1>4. CASE Decodes(c.tx) /\ c.tx.id \notin KeptIds /\ PubliclyValid(c)
  <2>1. PICK v \in Owned(c) : ~ Opens(Outputs(c)[v])
    BY <1>4 DEF Keeps, OwnedConfidential, Opens
  <2>2. n \in Abstract!Kept(batch)
    BY <1>1, <1>4, SamePredicates DEF Abstract!Kept
  <2> QED BY <2>1, <2>2, SamePredicates DEF Abstract!Acceptable
<1>5. CASE ~ PubliclyValid(c) /\ ~ Excludable(c)
  BY <1>1, <1>5, SamePredicates DEF Abstract!Acceptable
<1> QED BY <1>2, <1>3, <1>4, <1>5 DEF Excludes

(* An owned output of a kept candidate is one the abstract call has.       *)
LEMMA KeptOwnedIsOwned ==
  ASSUME IInv, ~ Refused, NEW k \in kept, Owned(batch[k]) # {}
  PROVE  Abstract!HasOwned(batch)
<1>1. k \in DOMAIN batch /\ PubliclyValid(batch[k])
  BY DEF IInv, TypeOK, Verdicts
<1>2. k \in Abstract!Kept(batch) /\ Abstract!Owned(batch[k]) # {}
  BY <1>1, SamePredicates DEF Abstract!Kept
<1> QED BY <1>2 DEF Abstract!HasOwned

(* Nothing left to observe: the batch is acceptable and these are its facts. *)
LEMMA ObservedAreFacts ==
  ASSUME IInv, phase = "open", Unobserved = {}
  PROVE  /\ Abstract!Acceptable(batch)
         /\ Abstract!Facts(batch) =
              [transactions |-> {transactions[t] : t \in DOMAIN transactions},
               outputs |-> {[tx |-> outputs[n].tx, vout |-> outputs[n].vout] :
                              n \in DOMAIN outputs}]
<1> DEFINE Tx(i) == [id |-> batch[i].tx.id, bytes |-> batch[i].tx, inputs |-> Inputs(batch[i])]
           Outs(i) == {[tx |-> batch[i].tx.id, vout |-> v] : v \in Owned(batch[i])}
           Out(n) == [tx |-> outputs[n].tx, vout |-> outputs[n].vout]
<1>1. ~ Refused /\ scanned = Len(batch) /\ DOMAIN batch = 1..scanned
  BY DEF IInv, PhaseOrder, Refused, TypeOK
<1>2. /\ kept = {i \in DOMAIN batch : PubliclyValid(batch[i])}
      /\ \A i \in DOMAIN batch :
           Decodes(batch[i].tx) /\ (PubliclyValid(batch[i]) \/ Excludable(batch[i]))
  BY <1>1, ScanComplete
<1>3. Abstract!Kept(batch) = kept
  BY <1>2, SamePredicates DEF Abstract!Kept
<1>4. \A i \in kept :
        /\ \E t \in DOMAIN transactions : transactions[t] = Tx(i)
        /\ \A v \in Owned(batch[i]) :
             /\ Opens(Outputs(batch[i])[v])
             /\ \E n \in DOMAIN outputs : outputs[n].tx = batch[i].tx.id /\ outputs[n].vout = v
  BY <1>2, AllObserved
<1>5. Abstract!Acceptable(batch)
  <2>1. \A i \in kept, j \in DOMAIN batch : i < j => batch[i].tx.id # batch[j].tx.id
    BY <1>1 DEF IInv, KeptAreFirst
  <2> QED BY <1>2, <1>3, <1>4, <2>1, SamePredicates DEF Abstract!Acceptable
<1>6. {transactions[t] : t \in DOMAIN transactions} = {Tx(i) : i \in kept}
  <2>1. \A t \in DOMAIN transactions : \E i \in kept : transactions[t] = Tx(i)
    BY DEF IInv, TransactionsAreKept
  <2> HIDE DEF Tx
  <2> QED BY <1>4, <2>1
<1>7. {Out(n) : n \in DOMAIN outputs} = UNION {Outs(i) : i \in kept}
  <2>1. ASSUME NEW n \in DOMAIN outputs
        PROVE  \E i \in kept : Out(n) \in Outs(i)
    BY DEF IInv, OutputsAreOwned
  <2>2. ASSUME NEW i \in kept, NEW o \in Outs(i)
        PROVE  \E n \in DOMAIN outputs : Out(n) = o
    <3>1. PICK v \in Owned(batch[i]) : o = [tx |-> batch[i].tx.id, vout |-> v]
      BY <2>2
    <3>2. PICK n \in DOMAIN outputs : outputs[n].tx = batch[i].tx.id /\ outputs[n].vout = v
      BY <1>4, <3>1
    <3> QED BY <3>1, <3>2
  <2> HIDE DEF Out, Outs
  <2> QED BY <2>1, <2>2
<1>8. Abstract!Facts(batch) = [transactions |-> {Tx(i) : i \in kept},
                              outputs |-> UNION {Outs(i) : i \in kept}]
  <2>1. kept \subseteq DOMAIN batch
    BY <1>1 DEF IInv, TypeOK
  <2>2. \A i \in kept : Abstract!Inputs(batch[i]) = Inputs(batch[i])
                      /\ Abstract!Owned(batch[i]) = Owned(batch[i])
    BY <2>1, SamePredicates
  <2>3. {[id |-> batch[i].tx.id, bytes |-> batch[i].tx, inputs |-> Abstract!Inputs(batch[i])] :
           i \in kept} = {Tx(i) : i \in kept}
    BY <2>2
  <2>4. {{[tx |-> batch[i].tx.id, vout |-> v] : v \in Abstract!Owned(batch[i])} : i \in kept}
          = {Outs(i) : i \in kept}
    <3>1. \A i \in kept :
            {[tx |-> batch[i].tx.id, vout |-> v] : v \in Abstract!Owned(batch[i])} = Outs(i)
      BY <2>2
    <3> HIDE DEF Outs
    <3> QED BY <3>1
  <2> HIDE DEF Tx, Outs
  <2> QED BY <1>3, <2>3, <2>4 DEF Abstract!Facts
<1> QED BY <1>5, <1>6, <1>7, <1>8

LEMMA StepSimulates ==
  IInv /\ [Next]_vars => [Abstract!Next]_<<batch, AnswerOf>>
<1> DEFINE pending == [status |-> "pending", facts |-> [transactions |-> {}, outputs |-> {}]]
           rejected == [status |-> "rejected", facts |-> [transactions |-> {}, outputs |-> {}]]
<1> SUFFICES ASSUME IInv, [Next]_vars
             PROVE  Abstract!Next \/ (batch' = batch /\ AnswerOf' = AnswerOf)
  OBVIOUS
<1>1. batch' = batch
  BY DEF Next, vars, Scan, Randomize, OpenOutput, ObserveTransaction, Observed, Encode
<1>2. /\ phase \in {"scan", "open"} => AnswerOf = pending
      /\ phase' \in {"scan", "open"} => AnswerOf' = pending
      /\ phase' = "rejected" => AnswerOf' = rejected
  BY DEF AnswerOf, Succeeded
<1>3. ASSUME phase \in {"scan", "open"}, phase' = "rejected",
             ~ Abstract!Acceptable(batch) \/ Abstract!HasOwned(batch)
      PROVE  Abstract!Reject
  BY <1>1, <1>2, <1>3 DEF Abstract!Reject, Abstract!NoFacts
<1>4. ASSUME phase \in {"scan", "open"}, phase' \in {"scan", "open"}
      PROVE  batch' = batch /\ AnswerOf' = AnswerOf
  BY <1>1, <1>2, <1>4
<1>5. CASE Scan
  <2>1. phase = "scan" /\ phase' \in {"scan", "rejected"}
    BY <1>5 DEF Scan, Reject
  <2>2. phase' = "rejected" => ~ Abstract!Acceptable(batch)
    BY <1>5, RefusedIsUnacceptable DEF Scan
  <2> QED BY <1>3, <1>4, <2>1, <2>2 DEF Abstract!Next
<1>6. CASE Randomize
  <2>1. phase = "scan" /\ phase' \in {"open", "rejected"}
    BY <1>6 DEF Randomize, Reject
  <2>2. phase' = "rejected" => HasOwned
    BY <1>6 DEF Randomize
  <2>3. phase' = "rejected" => Abstract!HasOwned(batch)
    BY <2>1, <2>2, KeptOwnedIsOwned DEF HasOwned, Refused
  <2> QED BY <1>3, <1>4, <2>1, <2>3 DEF Abstract!Next
<1>7. CASE \E k \in kept : OpenOutput(k)
  <2>1. PICK k \in kept : OpenOutput(k)
    BY <1>7
  <2>2. phase = "open" /\ phase' \in {"open", "rejected"} /\ Owned(batch[k]) # {}
    BY <2>1 DEF OpenOutput, Reject, Unopened
  <2>3. Abstract!HasOwned(batch)
    BY <2>1, <2>2, KeptOwnedIsOwned DEF Refused
  <2> QED BY <1>3, <1>4, <2>2, <2>3 DEF Abstract!Next
<1>8. CASE \E k \in kept : ObserveTransaction(k)
  BY <1>4, <1>8 DEF ObserveTransaction
<1>9. CASE Observed
  <2>1. phase = "open" /\ Unobserved = {} /\ phase' = "encode"
        /\ transactions' = transactions /\ outputs' = outputs
    BY <1>9 DEF Observed
  <2>2. AnswerOf' = [status |-> "facts", facts |-> Abstract!Facts(batch)]
    BY <2>1, ObservedAreFacts DEF AnswerOf, Succeeded
  <2> QED BY <1>1, <1>2, <2>1, <2>2, ObservedAreFacts DEF Abstract!Next, Abstract!Answer
<1>10. CASE Encode
  <2>1. transactions' = transactions /\ outputs' = outputs
    BY <1>10 DEF Encode
  <2>2. phase = "encode" /\ (phase' = "done" \/ phase' = "internal")
    BY <1>10 DEF Encode
  <2>3. AnswerOf' = AnswerOf
    BY <2>1, <2>2 DEF AnswerOf, Succeeded
  <2> QED BY <1>1, <2>3
<1>11. CASE UNCHANGED vars
  BY <1>1, <1>11 DEF vars, AnswerOf, Succeeded
<1> QED BY <1>5, <1>6, <1>7, <1>8, <1>9, <1>10, <1>11 DEF Next

(* A call takes no step its caller could tell from answering at once, with *)
(* all the facts of the batch or with none.                                *)
THEOREM Refinement == Spec => Abstract!Safety
<1>1. Init => Abstract!Init
  BY DEF Init, Abstract!Init, AnswerOf, Succeeded, Abstract!NoFacts
<1> QED BY <1>1, StepSimulates, Invariance, PTL DEF Spec, Abstract!Safety

-----------------------------------------------------------------------------
(* The order of the second pass: what is still to come comes after all     *)
(* that has been observed, and outputs carry the bytes of what was kept.   *)
Ahead ==
  \A k \in Unobserved :
    /\ \A t \in DOMAIN transactions : transactions[t].id < batch[k].tx.id
    /\ \A n \in DOMAIN outputs :
         /\ outputs[n].tx <= batch[k].tx.id
         /\ outputs[n].tx = batch[k].tx.id =>
              \A v \in Unopened(batch[k]) : outputs[n].vout < v

InOrder ==
  /\ \A s, t \in DOMAIN transactions : s < t => transactions[s].id < transactions[t].id
  /\ \A n, m \in DOMAIN outputs : n < m => Precedes(outputs[n], outputs[m])
  /\ \A n \in DOMAIN outputs : \E k \in kept :
       outputs[n].tx = batch[k].tx.id /\ outputs[n].bytes = batch[k].tx
  /\ phase = "open" => Ahead

(* A batch nothing has been observed of, or whose facts were dropped.      *)
LEMMA EmptyInOrder ==
  ASSUME outputs = << >>, transactions = << >>
  PROVE  InOrder
  BY DEF InOrder, Ahead

(* A kept candidate is one of the batch, with positive output numbers.     *)
LEMMA KeptTypes ==
  ASSUME TypeOK, NEW k \in kept
  PROVE  /\ batch[k] \in Candidate /\ batch[k].tx.id \in Nat /\ batch[k].tx.id \in Ids
         /\ Owned(batch[k]) \subseteq Nat \ {0} /\ Unopened(batch[k]) \subseteq Nat \ {0}
<1>1. batch[k] \in Candidate
  BY DEF TypeOK
<1> QED BY <1>1, CandidateTypes, LedgerAssumption DEF Unopened

(* What a sequence over S holds at one of its positions is in S.            *)
LEMMA ElementOfSequence ==
  ASSUME NEW S, NEW s \in Seq(S), NEW i \in DOMAIN s
  PROVE  s[i] \in S
OBVIOUS

(* The least unopened output of the least unobserved candidate.            *)
LEMMA OpenOutputInOrder ==
  ASSUME IInv, InOrder, NEW k \in kept, OpenOutput(k)
  PROVE  InOrder'
<1> DEFINE c == batch[k]
<1>1. /\ phase = "open" /\ k \in Unobserved /\ UNCHANGED <<batch, kept>>
      /\ \A l \in Unobserved : c.tx.id <= batch[l].tx.id
  BY DEF OpenOutput, IsNext
<1>2. PICK v \in Unopened(c) :
        /\ \A w \in Unopened(c) : v <= w
        /\ \/ /\ outputs' = Append(outputs, OutputFact(c, v))
              /\ UNCHANGED <<phase, transactions>>
           \/ Reject
  BY DEF OpenOutput
<1>3. CASE Reject
  BY <1>3, EmptyInOrder DEF Reject, InOrder, Ahead
<1>4. CASE /\ outputs' = Append(outputs, OutputFact(c, v))
           /\ UNCHANGED <<phase, transactions>>
  <2> DEFINE last == Len(outputs) + 1
  <2>1. /\ DOMAIN outputs' = 1..last /\ DOMAIN outputs = 1..Len(outputs) /\ Len(outputs) \in Nat
        /\ DOMAIN outputs \subseteq DOMAIN outputs'
        /\ \A n \in DOMAIN outputs : outputs'[n] = outputs[n]
        /\ outputs'[last] = OutputFact(c, v)
    BY <1>4 DEF IInv, TypeOK
  <2>2. /\ outputs'[last].tx = c.tx.id /\ outputs'[last].vout = v /\ outputs'[last].bytes = c.tx
        /\ \A n \in 1..last : n \in DOMAIN outputs \/ n = last
    BY <2>1 DEF OutputFact
  <2>3. Unobserved' = Unobserved
    BY <1>1, <1>4 DEF Unobserved, ObservedIds
  <2>4. Ahead /\ TypeOK
    BY <1>1 DEF InOrder, IInv
  <2> HIDE DEF last
  <2>5. ASSUME NEW n \in DOMAIN outputs', NEW m \in DOMAIN outputs', n < m
        PROVE  Precedes(outputs'[n], outputs'[m])
    <3>1. CASE m \in DOMAIN outputs
      <4>1. n \in DOMAIN outputs
        BY <2>1, <2>5, <3>1
      <4> QED BY <2>1, <2>5, <3>1, <4>1 DEF InOrder
    <3>2. CASE m = last
      <4>1. n \in DOMAIN outputs
        BY <2>1, <2>5, <3>2 DEF last
      <4>2. outputs[n].tx <= c.tx.id /\ (outputs[n].tx = c.tx.id => outputs[n].vout < v)
        BY <1>1, <1>2, <2>4, <4>1 DEF Ahead
      <4>3. outputs[n].tx \in Nat /\ c.tx.id \in Nat
        <5>0. outputs \in Seq([tx : Ids, vout : Nat \ {0}, bytes : Transaction])
          BY <2>4 DEF TypeOK
        <5>1. outputs[n] \in [tx : Ids, vout : Nat \ {0}, bytes : Transaction]
          BY <4>1, <5>0, ElementOfSequence
        <5> QED BY <2>4, <5>1, KeptTypes, LedgerAssumption
      <4> QED BY <2>1, <2>2, <3>2, <4>1, <4>2, <4>3 DEF Precedes
    <3> QED BY <2>1, <2>2, <3>1, <3>2
  <2>6. \A n \in DOMAIN outputs' : \E l \in kept :
          outputs'[n].tx = batch[l].tx.id /\ outputs'[n].bytes = batch[l].tx
    BY <2>1, <2>2 DEF InOrder
  <2>7. ASSUME NEW l \in Unobserved, NEW n \in DOMAIN outputs'
        PROVE  /\ outputs'[n].tx <= batch[l].tx.id
               /\ outputs'[n].tx = batch[l].tx.id =>
                    \A w \in Unopened(batch[l])' : outputs'[n].vout < w
    <3>1. Unopened(batch[l])' \subseteq Unopened(batch[l])
      <4>1. Owned(batch[l])' = Owned(batch[l])
        BY <1>1
      <4> QED BY <1>1, <2>1, <4>1 DEF Unopened
    <3>2. CASE n \in DOMAIN outputs
      BY <2>1, <2>4, <3>1, <3>2 DEF Ahead
    <3>3. CASE n = last
      <4>1. outputs'[n].tx = c.tx.id /\ outputs'[n].vout = v /\ c.tx.id <= batch[l].tx.id
        BY <1>1, <2>2, <3>3
      <4>2. ASSUME c.tx.id = batch[l].tx.id, NEW w \in Unopened(batch[l])'
            PROVE  v < w
        <5>1. w # v
          BY <1>1, <2>1, <2>2, <4>2 DEF Unopened, last
        <5>2. w \in Unopened(c)
          BY <3>1, <4>2 DEF Unopened, Owned, Outputs
        <5>3. v \in Nat /\ w \in Nat
          BY <1>2, <2>4, <5>2, KeptTypes
        <5> QED BY <1>2, <5>1, <5>2, <5>3
      <4> QED BY <4>1, <4>2
    <3> QED BY <2>1, <2>2, <3>2, <3>3
  <2>8. Ahead'
    BY <1>1, <1>4, <2>3, <2>4, <2>7 DEF Ahead
  <2> QED BY <1>1, <1>4, <2>5, <2>6, <2>8 DEF InOrder
<1> QED BY <1>2, <1>3, <1>4

(* A transaction whose owned outputs have all been opened.                 *)
LEMMA ObserveTransactionInOrder ==
  ASSUME IInv, InOrder, NEW k \in kept, ObserveTransaction(k)
  PROVE  InOrder'
<1> DEFINE c == batch[k]
           last == Len(transactions) + 1
<1>1. /\ phase = "open" /\ k \in Unobserved
      /\ UNCHANGED <<batch, kept, phase, outputs>>
      /\ \A l \in Unobserved : c.tx.id <= batch[l].tx.id
      /\ transactions' = Append(transactions,
           [id |-> c.tx.id, bytes |-> c.tx, inputs |-> Inputs(c)])
  BY DEF ObserveTransaction, IsNext
<1>2. /\ DOMAIN transactions' = 1..last /\ DOMAIN transactions = 1..Len(transactions)
      /\ Len(transactions) \in Nat
      /\ \A t \in DOMAIN transactions : transactions'[t] = transactions[t]
      /\ transactions'[last].id = c.tx.id
      /\ \A t \in 1..last : t \in DOMAIN transactions \/ t = last
  BY <1>1 DEF IInv, TypeOK
<1>3. Ahead /\ TypeOK
  BY <1>1 DEF InOrder, IInv
<1> HIDE DEF last
<1>4. ASSUME NEW l \in Unobserved'
      PROVE  l \in Unobserved /\ batch[l].tx.id # c.tx.id
  <2>1. last \in DOMAIN transactions' /\ \A t \in DOMAIN transactions : t \in DOMAIN transactions'
    BY <1>2 DEF last
  <2>2. ObservedIds \subseteq ObservedIds' /\ c.tx.id \in ObservedIds'
    BY <1>2, <2>1 DEF ObservedIds
  <2> QED BY <1>1, <1>4, <2>2 DEF Unobserved
<1>5. ASSUME NEW s \in DOMAIN transactions', NEW t \in DOMAIN transactions', s < t
      PROVE  transactions'[s].id < transactions'[t].id
  <2>1. s \in DOMAIN transactions
    BY <1>2, <1>5 DEF last
  <2>2. CASE t \in DOMAIN transactions
    BY <1>2, <1>5, <2>1, <2>2 DEF InOrder
  <2>3. CASE t = last
    BY <1>1, <1>2, <1>3, <2>1, <2>3 DEF Ahead
  <2> QED BY <1>2, <2>2, <2>3
<1>6. ASSUME NEW l \in Unobserved', NEW t \in DOMAIN transactions'
      PROVE  transactions'[t].id < batch[l].tx.id
  <2>1. CASE t \in DOMAIN transactions
    BY <1>2, <1>3, <1>4, <2>1 DEF Ahead
  <2>2. CASE t = last
    <3>1. c.tx.id <= batch[l].tx.id /\ c.tx.id # batch[l].tx.id
      BY <1>1, <1>4
    <3>2. c.tx.id \in Nat /\ batch[l].tx.id \in Nat
      BY <1>3, <1>4, KeptTypes DEF Unobserved
    <3> QED BY <1>2, <2>2, <3>1, <3>2
  <2> QED BY <1>2, <2>1, <2>2
<1>7. Ahead'
  <2>1. \A l \in kept : Unopened(batch[l])' = Unopened(batch[l])
    BY <1>1 DEF Unopened
  <2>2. \A l \in Unobserved' : l \in kept
    BY <1>4 DEF Unobserved
  <2> QED BY <1>1, <1>3, <1>4, <1>6, <2>1, <2>2 DEF Ahead
<1> QED BY <1>1, <1>5, <1>7 DEF InOrder

LEMMA NextInOrder == IInv /\ InOrder /\ [Next]_vars => InOrder'
<1> SUFFICES ASSUME IInv, InOrder, [Next]_vars PROVE InOrder'
  OBVIOUS
<1>1. CASE Scan \/ Randomize
  <2>1. outputs' = << >> /\ transactions' = << >>
    BY <1>1 DEF Scan, Randomize, Reject, IInv, PhaseOrder
  <2> QED BY <2>1, EmptyInOrder DEF InOrder, Ahead
<1>2. CASE Observed \/ Encode \/ UNCHANGED vars
  <2>1. UNCHANGED <<batch, kept, transactions, outputs>> /\ (phase' = "open" => phase = "open")
    BY <1>2 DEF Observed, Encode, vars
  <2>2. Ahead' <=> Ahead
    BY <2>1 DEF Ahead, Unobserved, ObservedIds, Unopened
  <2> QED BY <2>1, <2>2 DEF InOrder
<1> QED
  BY <1>1, <1>2, OpenOutputInOrder, ObserveTransactionInOrder DEF Next

(* What the second pass leaves is what the encoder asks for.               *)
LEMMA AllIsEncodable ==
  ASSUME IInv, InOrder, phase = "encode",
         \A t \in Ids : \A v \in DOMAIN Ledger[t].outs : Ledger[t].outs[v].val <= MaxWireValue
  PROVE  Encodable
<1>1. /\ ~ Refused /\ Unobserved = {} /\ scanned = Len(batch)
      /\ kept \subseteq 1..scanned /\ scanned \in Nat /\ TypeOK
  BY DEF IInv, PhaseOrder, TypeOK, Refused
<1>2. ASSUME NEW t \in DOMAIN transactions
      PROVE  /\ transactions[t].inputs # << >>
             /\ \A i, j \in DOMAIN transactions[t].inputs :
                  transactions[t].inputs[i] = transactions[t].inputs[j] => i = j
  <2>1. PICK k \in kept : transactions[t].inputs = Inputs(batch[k])
    BY DEF IInv, TransactionsAreKept
  <2>2. PubliclyValid(batch[k])
    BY <1>1 DEF IInv, Verdicts
  <2> QED BY <2>1, <2>2 DEF PubliclyValid, AmountProofsVerify
<1>3. ASSUME NEW n \in DOMAIN outputs
      PROVE  \E t \in DOMAIN transactions : /\ transactions[t].id = outputs[n].tx
                                            /\ transactions[t].bytes = outputs[n].bytes
  <2>1. PICK k \in kept : outputs[n].tx = batch[k].tx.id /\ outputs[n].bytes = batch[k].tx
    BY DEF InOrder
  <2>2. PICK t \in DOMAIN transactions : transactions[t].id = batch[k].tx.id
    BY <1>1 DEF Unobserved, ObservedIds
  <2>3. PICK l \in kept : transactions[t].id = batch[l].tx.id /\ transactions[t].bytes = batch[l].tx
    BY DEF IInv, TransactionsAreKept
  <2>4. k = l
    <3>1. k \in 1..scanned /\ l \in 1..scanned /\ k \in Int /\ l \in Int
      BY <1>1
    <3>2. ~ (k < l) /\ ~ (l < k)
      BY <1>1, <2>2, <2>3, <3>1 DEF IInv, KeptAreFirst
    <3> QED BY <3>1, <3>2
  <2> QED BY <2>1, <2>2, <2>3, <2>4
<1>4. ASSUME NEW n \in DOMAIN outputs
      PROVE  Ledger[outputs[n].tx].outs[outputs[n].vout].val \in 1..MaxWireValue
  <2>1. PICK k \in kept : /\ outputs[n].tx = batch[k].tx.id
                          /\ outputs[n].vout \in Owned(batch[k])
                          /\ Opens(Outputs(batch[k])[outputs[n].vout])
    BY DEF IInv, OutputsAreOwned
  <2>2. outputs[n].tx \in Ids /\ Outputs(batch[k]) = Ledger[outputs[n].tx].outs
    BY <1>1, <2>1, KeptTypes DEF Outputs
  <2>3. outputs[n].vout \in DOMAIN Ledger[outputs[n].tx].outs
    BY <2>1, <2>2 DEF Owned
  <2> DEFINE o == Ledger[outputs[n].tx].outs[outputs[n].vout]
  <2>4. o.val > 0 /\ o.val <= MaxWireValue
    BY <2>1, <2>2, <2>3 DEF Opens
  <2>5. o.val \in Nat
    <3>0. Ledger[outputs[n].tx].outs \in Seq(Output)
      BY <2>2, LedgerAssumption
    <3>1. o \in Output
      BY <2>3, <3>0, ElementOfSequence
    <3> QED BY <3>1 DEF Output
  <2> QED BY <2>4, <2>5, ObservationAssumption
<1> QED BY <1>2, <1>3, <1>4 DEF Encodable, InOrder

(* As long as the ledger has no amount beyond what the wire can hold,      *)
(* encode_response accepts whatever was observed of any batch: the         *)
(* facade's INTERNAL_ERROR is not reached.                                 *)
THEOREM ObservedIsEncoded == Spec => []ObservedIsEncodable
<1>1. Init => InOrder /\ ObservedIsEncodable
  BY EmptyInOrder DEF Init, ObservedIsEncodable
<1>2. IInv /\ InOrder /\ ObservedIsEncodable /\ [Next]_vars => ObservedIsEncodable'
  <2> SUFFICES ASSUME IInv, InOrder, ObservedIsEncodable, [Next]_vars,
                      \A t \in Ids : \A v \in DOMAIN Ledger[t].outs :
                        Ledger[t].outs[v].val <= MaxWireValue
               PROVE  phase' # "internal"
    BY DEF ObservedIsEncodable
  <2>1. phase # "internal"
    BY DEF ObservedIsEncodable
  <2>2. CASE Encode
    BY <2>2, AllIsEncodable DEF Encode
  <2>3. CASE ~ Encode
    BY <2>1, <2>3 DEF Next, vars, Scan, Randomize, OpenOutput, ObserveTransaction, Observed, Reject
  <2> QED BY <2>2, <2>3
<1> QED BY <1>1, <1>2, NextInOrder, Invariance, PTL DEF Spec
=============================================================================
