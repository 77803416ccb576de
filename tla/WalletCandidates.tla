-------------------------- MODULE WalletCandidates --------------------------
(***************************************************************************)
(* Candidate transactions as the wallet-facts crates see them, and every   *)
(* public check made of one (crates/wallet-facts, transaction-validation). *)
(*                                                                         *)
(* A transaction identifier pins inputs and outputs, so these are given by *)
(* the constant Ledger; the bytes in a request add what the identifier     *)
(* leaves open: the encoding and the witness with its proofs.              *)
(***************************************************************************)
EXTENDS Integers, Sequences, FiniteSets

CONSTANTS
  Ledger,          \* identifier -> [ins |-> outpoints spent, outs |-> outputs]
  Catalog          \* scripts DescriptorCatalog::derive yields for the wallet

Ids == DOMAIN Ledger
Encodings == {"canonical", "loose", "garbage"}
Outpoint == [tx : Ids, vout : Nat]
Output == [spk : STRING, conf : BOOLEAN, key : STRING, asset : STRING, val : Nat]

ASSUME LedgerAssumption ==
  /\ Ids \subseteq Nat
  /\ \A t \in Ids : Ledger[t].ins \in Seq(Outpoint) /\ Ledger[t].outs \in Seq(Output)

(* Bytes that deserialize as transaction id, canonically or not, or do not *)
(* deserialize at all.                                                     *)
Transaction == [id : Ids, enc : Encodings, proofs : BOOLEAN]
Candidate == [tx : Transaction, prev : Seq(Transaction)]

Inputs(c) == Ledger[c.tx.id].ins
Outputs(c) == Ledger[c.tx.id].outs

(* decode_transaction: deserializes and serializes to the same bytes.      *)
Decodes(t) == t.enc = "canonical"

(* Membership of the previous output in its transaction, by identifier.    *)
Exists(o) == o.vout \in DOMAIN Ledger[o.tx].outs
Spent(o) == Ledger[o.tx].outs[o.vout]

(* previous_outputs_for: exactly one canonical previous transaction for    *)
(* each one an input names, having the output spent.                       *)
PreviousOutputsMatch(c) ==
  /\ \A p \in DOMAIN c.prev : Decodes(c.prev[p])
  /\ \A p, q \in DOMAIN c.prev : c.prev[p].id = c.prev[q].id => p = q
  /\ {c.prev[p].id : p \in DOMAIN c.prev} = {Inputs(c)[i].tx : i \in DOMAIN Inputs(c)}
  /\ \A i \in DOMAIN Inputs(c) : Exists(Inputs(c)[i])

(* validate_transaction_amount_proofs; "proofs" is what the Elements       *)
(* library says of the proofs, the balance and the kinds of input.         *)
AmountProofsVerify(c) ==
  /\ Inputs(c) # << >> /\ Outputs(c) # << >>
  /\ \A i, j \in DOMAIN Inputs(c) : Inputs(c)[i] = Inputs(c)[j] => i = j
  /\ c.tx.proofs

PubliclyValid(c) == PreviousOutputsMatch(c) /\ AmountProofsVerify(c)

(* Outputs that pay the catalog, and their confidential shape.             *)
Owned(c) == {v \in DOMAIN Outputs(c) : Outputs(c)[v].spk \in Catalog}
OwnedConfidential(c) == \A v \in Owned(c) : Outputs(c)[v].conf

(* Slip: previous transactions are read with the strict decoder. *)
SpendsCatalogStrict(c) ==
  \E i \in DOMAIN Inputs(c), p \in DOMAIN c.prev :
    /\ Decodes(c.prev[p])
    /\ c.prev[p].id = Inputs(c)[i].tx
    /\ Exists(Inputs(c)[i]) /\ Spent(Inputs(c)[i]).spk \in Catalog

(* spends_catalog_script: what the previous transactions supplied show.    *)
SpendsCatalog(c) ==
  \E i \in DOMAIN Inputs(c), p \in DOMAIN c.prev :
    /\ c.prev[p].enc # "garbage"
    /\ c.prev[p].id = Inputs(c)[i].tx
    /\ Exists(Inputs(c)[i]) /\ Spent(Inputs(c)[i]).spk \in Catalog

(* Slip: only spends of the catalog are looked for. *)
ExcludableUnlessSpend(c) ==
  /\ Inputs(c) # << >> /\ Outputs(c) # << >>
  /\ ~ SpendsCatalog(c)

(* A complete transaction that nothing relates to the wallet.              *)
Excludable(c) ==
  /\ Inputs(c) # << >> /\ Outputs(c) # << >>
  /\ Owned(c) = {}
  /\ ~ SpendsCatalog(c)

(* derive_blinding_key and open_output with the wallet's own master key,   *)
(* require_positive_owned_output_value.                                    *)
Opens(o) == o.conf /\ o.key = "mine" /\ o.val > 0
=============================================================================
