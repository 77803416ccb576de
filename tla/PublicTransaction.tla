-------------------------- MODULE PublicTransaction --------------------------
(* The public transactions of the plan corpus and what a prepare case may      *)
(* conclude from them (check-ordinary-wallet-plan-conformance.py).  A          *)
(* transaction is a sequence of cells.  A cell below Wide is a length or count *)
(* in its short form; the marker Wide is followed by a cell that must not have *)
(* fitted the short form.                                                      *)
EXTENDS PlanBoundaries

CONSTANTS
  Wide,                                   \* the marker of a long length
  NullIndex, Issuance, Pegin,             \* output indexes outside the surface
  Named                                   \* cell -> the base it is the identifier of

(* What is read of a transaction; what is absent is none.                      *)
Transaction ==
  [base : Seq(Nat), flags : {0, 1}, ins : Seq([txid : Nat, vout : Nat]),
   outs : Seq([prefixes : Seq(Nat), script : Seq(Nat)]), witness : Seq(Seq(Nat))]
ASSUME TransactionAssumption == None \notin Transaction

(* Prefixes of the three confidential fields of an output: 0 empty, 1 plain,   *)
(* then the commitments of that field.                                         *)
Commitments == <<{2}, {3}, {4}>>

Bad(at) == [at |-> at, value |-> 0, ok |-> FALSE]
CompactSize(d, at) ==
  IF at >= Len(d) THEN Bad(at)
  ELSE IF d[at + 1] < Wide THEN [at |-> at + 1, value |-> d[at + 1], ok |-> TRUE]
  ELSE IF at + 2 > Len(d) \/ d[at + 1] # Wide THEN Bad(at)
  ELSE IF d[at + 2] < Wide THEN Bad(at)
  ELSE [at |-> at + 2, value |-> d[at + 2], ok |-> TRUE]

SkipBytes(d, at) ==
  LET n == CompactSize(d, at) IN
  IF ~n.ok \/ n.at + n.value > Len(d) THEN Bad(at)
  ELSE [at |-> n.at + n.value, value |-> n.value, ok |-> TRUE]

SkipConfidential(d, at, commitments) ==
  IF at >= Len(d) THEN Bad(at)
  ELSE IF d[at + 1] = 0 THEN [at |-> at + 1, value |-> 0, ok |-> TRUE]
  ELSE IF d[at + 1] \notin {1} \union commitments \/ at + 2 > Len(d) THEN Bad(at)
  ELSE [at |-> at + 2, value |-> d[at + 1], ok |-> TRUE]

(* A count must leave room for as many items of their least size.              *)
BoundedCount(d, at, least) ==
  LET n == CompactSize(d, at) IN
  IF ~n.ok \/ n.value > (Len(d) - n.at) \div least THEN Bad(at) ELSE n

(* Reading on from where the reading before ended; the values are listed.      *)
Added(u, x) == [at |-> x.at, list |-> Append(u.list, x.value), ok |-> x.ok]
Then(d, u, Item(_, _)) == IF u.ok THEN Added(u, Item(d, u.at)) ELSE u
From(at) == [at |-> at, list |-> << >>, ok |-> TRUE]
Items(d, u, n, Item(_, _)) ==
  LET run[i \in 0..n] == IF i = 0 THEN u ELSE Then(d, run[i - 1], Item) IN run[n]
(* As many items as the count n says.                                          *)
Counted(d, n, Item(_, _)) == IF n.ok THEN Items(d, From(n.at), n.value, Item) ELSE n

ReadInput(d, at) ==
  IF at + 2 > Len(d) THEN Bad(at)
  ELSE IF d[at + 2] \in {NullIndex, Issuance, Pegin} THEN Bad(at)
  ELSE LET script == SkipBytes(d, at + 2) IN
       IF ~script.ok \/ script.at + 1 > Len(d) THEN Bad(at)
       ELSE [at |-> script.at + 1, value |-> [txid |-> d[at + 1], vout |-> d[at + 2]],
             ok |-> TRUE]
SkipAsset(d, at) == SkipConfidential(d, at, Commitments[1])
SkipValue(d, at) == SkipConfidential(d, at, Commitments[2])
SkipNonce(d, at) == SkipConfidential(d, at, Commitments[3])
OutputRead(d, u) ==
  IF ~u.ok THEN Bad(u.at)
  ELSE [at |-> u.at, ok |-> TRUE,
        value |-> [prefixes |-> SubSeq(u.list, 1, 3), script |-> SubSeq(d, u.at - u.list[4] + 1, u.at)]]
ReadOutput(d, at) ==
  OutputRead(d, Then(d, Then(d, Then(d, Then(d, From(at), SkipAsset), SkipValue), SkipNonce), SkipBytes))

(* Two vectors, then for an input two stacks of vectors; the value is whether  *)
(* anything was in them, and the lengths of the two vectors.                   *)
StackRead(u) == IF ~u.ok THEN Bad(u.at) ELSE [at |-> u.at, value |-> Len(u.list), ok |-> TRUE]
ReadStack(d, at) == StackRead(Counted(d, BoundedCount(d, at, 1), SkipBytes))
WitnessRead(u) ==
  IF ~u.ok THEN Bad(u.at)
  ELSE [at |-> u.at, ok |-> TRUE,
        value |-> [lengths |-> SubSeq(u.list, 1, 2), some |-> \E i \in DOMAIN u.list : u.list[i] > 0]]
OutputWitness(d, at) == WitnessRead(Items(d, From(at), 2, SkipBytes))
InputWitness(d, at) == WitnessRead(Items(d, Items(d, From(at), 2, SkipBytes), 2, ReadStack))

(* Slip: a witness flag over an empty witness is let through.                  *)
WitnessTolerated(flags, ins, outs) == TRUE
(* A witness that is announced must not be empty.                              *)
WitnessNeeded(flags, ins, outs) ==
  flags = 1 => \E w \in {ins[i] : i \in DOMAIN ins} \union {outs[i] : i \in DOMAIN outs} : w.some

(* A transaction of the public surface, None for any other bytes.  Its base is *)
(* the part the identifier commits to: everything but the witness and its flag. *)
Whole(d, ins, outs, inw, outw) ==
  IF ~outw.ok THEN None
  ELSE IF ~WitnessNeeded(d[2], inw.list, outw.list) \/ outw.at # Len(d) THEN None
  ELSE [base |-> <<d[1], 0>> \o SubSeq(d, 3, outs.at + 1), flags |-> d[2],
        ins |-> ins.list, outs |-> outs.list, witness |-> Each(outw.list, LAMBDA w : w.lengths)]
WithInputWitness(d, ins, outs, inw) ==
  IF ~inw.ok THEN None
  ELSE Whole(d, ins, outs, inw,
         Items(d, From(inw.at), IF d[2] = 1 THEN Len(outs.list) ELSE 0, OutputWitness))
WithOutputs(d, ins, outs) ==
  IF ~outs.ok THEN None ELSE IF outs.at + 1 > Len(d) THEN None
  ELSE WithInputWitness(d, ins, outs,
         Items(d, From(outs.at + 1), IF d[2] = 1 THEN Len(ins.list) ELSE 0, InputWitness))
WithInputs(d, ins) ==
  IF ~ins.ok THEN None
  ELSE WithOutputs(d, ins, Counted(d, BoundedCount(d, ins.at, 4), ReadOutput))
ScanTransaction(d) ==
  IF Len(d) < 4 THEN None ELSE IF d[2] \notin {0, 1} THEN None
  ELSE WithInputs(d, Counted(d, BoundedCount(d, 2, 4), ReadInput))

-----------------------------------------------------------------------------
(* The funding stage of a prepare expectation: every selected row is held      *)
(* against its own candidate and the previous transactions it carries.  A      *)
(* transaction is identified by its base.                                      *)
Txid(tx) ==
  IF \E c \in DOMAIN Named : Named[c] = tx.base
  THEN CHOOSE c \in DOMAIN Named : Named[c] = tx.base ELSE 0

(* Slip: the inputs are held against the previous transactions in their order. *)
FundsInOrder(row, owned, tx, previous) ==
  /\ tx # None /\ \A i \in DOMAIN previous : previous[i] # None
  /\ Txid(tx) = row.txid /\ row.vout < Len(tx.outs)
  /\ Each(previous, Txid) = Each(tx.ins, LAMBDA x : x.txid)
  /\ tx.outs[row.vout + 1].script \in owned
Distinct(s) == \A i, j \in DOMAIN s : s[i] = s[j] => i = j
(* A row, its candidate tx and the previous transactions it carries.           *)
Funds(row, owned, tx, previous) ==
  /\ tx # None /\ \A i \in DOMAIN previous : previous[i] # None
  /\ Txid(tx) = row.txid /\ row.vout < Len(tx.outs)
  /\ Distinct(Each(previous, Txid)) /\ Distinct(Each(tx.ins, LAMBDA x : <<x.txid, x.vout>>))
  /\ {Txid(previous[i]) : i \in DOMAIN previous} = {tx.ins[i].txid : i \in DOMAIN tx.ins}
  /\ \A i \in DOMAIN tx.ins : \E j \in DOMAIN previous :
       Txid(previous[j]) = tx.ins[i].txid /\ tx.ins[i].vout < Len(previous[j].outs)
  /\ \A k \in 1..3 : tx.outs[row.vout + 1].prefixes[k] \in Commitments[k]
  /\ tx.outs[row.vout + 1].script \in owned
  /\ row.vout < Len(tx.witness)
  /\ 0 \notin {tx.witness[row.vout + 1][1], tx.witness[row.vout + 1][2]}
FundingOk(row, owned) ==
  Funds(row, owned, ScanTransaction(row.candidate), Each(row.previous, ScanTransaction))

PrepareExpectation(v, catalog, owned) ==
  IF PlanStage(v, catalog) # 0 THEN PlanStage(v, catalog)
  ELSE IF \A i \in DOMAIN v.selected : FundingOk(v.selected[i], owned) THEN 0 ELSE 8
=============================================================================
