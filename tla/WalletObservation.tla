------------------------- MODULE WalletObservation -------------------------
(***************************************************************************)
(* One call of observe_owned_outputs (crates/wallet-facts) and the         *)
(* encoding of its result (crates/wallet-facts-wire), step by step: a      *)
(* first pass over the candidates in request order, one request for        *)
(* entropy, a second pass over the kept ones in identifier order, and the  *)
(* encoder's own checks of what it is given.                               *)
(***************************************************************************)
EXTENDS WalletCandidates

CONSTANTS
  Batches,         \* the candidate batches to observe
  MaxWireValue     \* MAX_OWNED_OUTPUT_VALUE

ASSUME ObservationAssumption ==
  /\ \A b \in Batches : b \in Seq(Candidate)
  /\ MaxWireValue \in Nat

VARIABLES
  batch,           \* the candidates, in request order
  phase,           \* "scan", "open", "encode", "done", "rejected", "internal"
  scanned,         \* how many candidates the first pass has been over
  kept,            \* which of them are prepared for the second pass
  seeds,           \* requests for context randomness that were answered
  derived,         \* owned outputs a blinding key was derived for
  transactions,    \* observed transactions
  outputs          \* observed owned outputs

vars == <<batch, phase, scanned, kept, seeds, derived, transactions, outputs>>

-----------------------------------------------------------------------------
KeptIds == {batch[k].tx.id : k \in kept}

HasOwned == \E k \in kept : Owned(batch[k]) # {}

ObservedIds == {transactions[t].id : t \in DOMAIN transactions}
Unobserved == {k \in kept : batch[k].tx.id \notin ObservedIds}

Unopened(c) == {v \in Owned(c) : \A n \in DOMAIN outputs :
                  outputs[n].tx # c.tx.id \/ outputs[n].vout # v}

Init ==
  /\ batch \in Batches
  /\ phase = "scan"
  /\ scanned = 0
  /\ kept = {}
  /\ seeds = 0
  /\ derived = {}
  /\ transactions = << >>
  /\ outputs = << >>

(* Any refusal drops everything; only what was asked of the caller's       *)
(* entropy and derived from its key remains true.                          *)
Reject ==
  /\ phase' = "rejected"
  /\ transactions' = << >>
  /\ outputs' = << >>

(* First pass, candidate c.                                                *)
Keeps(c) == /\ Decodes(c.tx)
            /\ c.tx.id \notin KeptIds
            /\ PubliclyValid(c)
            /\ OwnedConfidential(c)

(* Slip: exclusion is decided before the identifier is compared. *)
ExcludesFirst(c) == Decodes(c.tx) /\ ~ PubliclyValid(c) /\ Excludable(c)

Excludes(c) == /\ Decodes(c.tx)
               /\ c.tx.id \notin KeptIds
               /\ ~ PubliclyValid(c)
               /\ Excludable(c)

Scan ==
  /\ phase = "scan" /\ scanned < Len(batch)
  /\ scanned' = scanned + 1
  /\ LET c == batch[scanned + 1] IN
       \/ /\ Keeps(c)
          /\ kept' = kept \cup {scanned + 1}
          /\ UNCHANGED <<phase, transactions, outputs>>
       \/ /\ Excludes(c)
          /\ UNCHANGED <<phase, kept, transactions, outputs>>
       \/ /\ ~ Keeps(c) /\ ~ Excludes(c)
          /\ Reject
          /\ UNCHANGED kept
  /\ UNCHANGED <<batch, seeds, derived>>

(* Slip: the last candidate is left for later. *)
ScanEndsEarly == scanned + 1 >= Len(batch)

ScanEnds == scanned = Len(batch)

(* Context randomness, only when there is something to open.               *)
Randomize ==
  /\ phase = "scan" /\ ScanEnds
  /\ \/ /\ HasOwned
        /\ phase' = "open"
        /\ seeds' = seeds + 1
        /\ UNCHANGED <<transactions, outputs>>
     \/ /\ HasOwned
        /\ Reject
        /\ UNCHANGED seeds
     \/ /\ ~ HasOwned
        /\ phase' = "open"
        /\ UNCHANGED <<seeds, transactions, outputs>>
  /\ UNCHANGED <<batch, scanned, kept, derived>>

(* Slip: kept candidates are opened in request order. *)
IsNextInOrder(k) == k \in Unobserved /\ \A l \in Unobserved : k <= l

(* The second pass takes the kept candidate of the least identifier.       *)
IsNext(k) == /\ k \in Unobserved
             /\ \A l \in Unobserved : batch[k].tx.id <= batch[l].tx.id

OutputFact(c, v) == [tx |-> c.tx.id, vout |-> v, bytes |-> c.tx]

(* Its owned outputs one by one in index order; the first that does not    *)
(* open refuses the batch.                                                 *)
OpenOutput(k) ==
  /\ phase = "open" /\ IsNext(k)
  /\ \E v \in Unopened(batch[k]) :
       /\ \A w \in Unopened(batch[k]) : v <= w
       /\ derived' = derived \cup {[tx |-> batch[k].tx.id, vout |-> v]}
       /\ \/ /\ Opens(Outputs(batch[k])[v])
             /\ outputs' = Append(outputs, OutputFact(batch[k], v))
             /\ UNCHANGED <<phase, transactions>>
          \/ /\ ~ Opens(Outputs(batch[k])[v])
             /\ Reject
  /\ UNCHANGED <<batch, scanned, kept, seeds>>

ObserveTransaction(k) ==
  /\ phase = "open" /\ IsNext(k)
  /\ Unopened(batch[k]) = {}
  /\ transactions' = Append(transactions,
       [id |-> batch[k].tx.id, bytes |-> batch[k].tx, inputs |-> Inputs(batch[k])])
  /\ UNCHANGED <<batch, phase, scanned, kept, seeds, derived, outputs>>

Observed ==
  /\ phase = "open" /\ Unobserved = {}
  /\ phase' = "encode"
  /\ UNCHANGED <<batch, scanned, kept, seeds, derived, transactions, outputs>>

-----------------------------------------------------------------------------
(* validate_source, validate_source_uniqueness: transactions in strictly   *)
(* ascending identifier order, each with inputs none of which repeats, and *)
(* the outputs grouped behind them in ascending order of outpoint.         *)
Precedes(o, p) == o.tx < p.tx \/ (o.tx = p.tx /\ o.vout < p.vout)

Encodable ==
  /\ \A s, t \in DOMAIN transactions : s < t => transactions[s].id < transactions[t].id
  /\ \A t \in DOMAIN transactions :
       LET ins == transactions[t].inputs IN
       /\ ins # << >>
       /\ \A i, j \in DOMAIN ins : ins[i] = ins[j] => i = j
  /\ \A n, m \in DOMAIN outputs : n < m => Precedes(outputs[n], outputs[m])
  /\ \A n \in DOMAIN outputs :
       /\ \E t \in DOMAIN transactions : /\ transactions[t].id = outputs[n].tx
                                         /\ transactions[t].bytes = outputs[n].bytes
       /\ Ledger[outputs[n].tx].outs[outputs[n].vout].val \in 1..MaxWireValue

(* encode_response; response_status turns a refusal into INTERNAL_ERROR.   *)
Encode ==
  /\ phase = "encode"
  /\ phase' = IF Encodable THEN "done" ELSE "internal"
  /\ UNCHANGED <<batch, scanned, kept, seeds, derived, transactions, outputs>>

Next ==
  \/ Scan
  \/ Randomize
  \/ \E k \in kept : OpenOutput(k) \/ ObserveTransaction(k)
  \/ Observed
  \/ Encode

Spec == Init /\ [][Next]_vars /\ WF_vars(Next)

-----------------------------------------------------------------------------
TypeOK ==
  /\ batch \in Seq(Candidate)
  /\ phase \in {"scan", "open", "encode", "done", "rejected", "internal"}
  /\ scanned \in 0..Len(batch)
  /\ kept \subseteq 1..scanned
  /\ seeds \in 0..1
  /\ derived \subseteq [tx : Ids, vout : Nat \ {0}]
  /\ transactions \in Seq([id : Ids, bytes : Transaction, inputs : Seq(Outpoint)])
  /\ outputs \in Seq([tx : Ids, vout : Nat \ {0}, bytes : Transaction])

(* observe_owned_outputs: no blinding key is derived before every          *)
(* candidate has passed every public check it must pass and the context    *)
(* was randomized; without owned outputs neither ever happens.             *)
PrivateAfterPublic ==
  /\ seeds > 0 => /\ scanned = Len(batch)
                  /\ \E i \in DOMAIN batch : PubliclyValid(batch[i]) /\ Owned(batch[i]) # {}
  /\ derived # {} =>
       /\ seeds = 1
       /\ \A i \in DOMAIN batch :
            Decodes(batch[i].tx) /\ (PubliclyValid(batch[i]) \/ Owned(batch[i]) = {})

Succeeded == phase \in {"encode", "done"}

(* A batch that is observed holds back none of the wallet's money: every   *)
(* output that pays the catalog, in any candidate, is among the facts.     *)
OwnedIsNeverDropped ==
  Succeeded => \A i \in DOMAIN batch : \A v \in Owned(batch[i]) :
    \E n \in DOMAIN outputs : outputs[n].tx = batch[i].tx.id /\ outputs[n].vout = v

(* The inputs of c that spend the catalog.                                 *)
CatalogSpends(c) ==
  {i \in DOMAIN Inputs(c) : Exists(Inputs(c)[i]) /\ Spent(Inputs(c)[i]).spk \in Catalog}

Reported(c) == \E t \in DOMAIN transactions : transactions[t].id = c.tx.id

(* Nor does it hold back a spend: a candidate one of whose inputs spends   *)
(* the catalog is among the facts, provided the transaction it spends came *)
(* with it in any encoding that can be read.                               *)
VisibleSpendIsNeverDropped ==
  Succeeded => \A i \in DOMAIN batch :
    (\E s \in CatalogSpends(batch[i]), p \in DOMAIN batch[i].prev :
       /\ batch[i].prev[p].id = Inputs(batch[i])[s].tx
       /\ batch[i].prev[p].enc # "garbage")
    => Reported(batch[i])

(* The doc of observe_owned_outputs: a candidate that spends a catalog     *)
(* script is fully validated and any failure rejects the entire batch.     *)
SpendIsNeverDropped ==
  Succeeded => \A i \in DOMAIN batch : CatalogSpends(batch[i]) # {} => Reported(batch[i])

(* encode_response accepts whatever an observation yields, unless an asset *)
(* has amounts no wire value holds: the facade's INTERNAL_ERROR, said to   *)
(* be an impossible invariant, is not reached.                             *)
ObservedIsEncodable ==
  (\A t \in Ids : \A v \in DOMAIN Ledger[t].outs : Ledger[t].outs[v].val <= MaxWireValue)
    => phase # "internal"

-----------------------------------------------------------------------------
(* The answer a caller gets once nothing can be refused any more.          *)
AnswerOf ==
  [status |-> CASE Succeeded \/ phase = "internal" -> "facts"
                [] phase = "rejected" -> "rejected"
                [] OTHER -> "pending",
   facts |-> IF Succeeded \/ phase = "internal"
               THEN [transactions |-> {transactions[t] : t \in DOMAIN transactions},
                     outputs |-> {[tx |-> outputs[n].tx, vout |-> outputs[n].vout] :
                                    n \in DOMAIN outputs}]
               ELSE [transactions |-> {}, outputs |-> {}]]

Abstract == INSTANCE AtomicObservation WITH answer <- AnswerOf

(* A call answers with all of the facts of its batch or with none.         *)
ImplementsAtomic == Abstract!Spec
=============================================================================
