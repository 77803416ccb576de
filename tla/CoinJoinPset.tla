---------------------------- MODULE CoinJoinPset ----------------------------
(***************************************************************************)
(* The partially signed transaction (PSET) two CoinJoin participants pass  *)
(* to one another, and what the library computes of one: the shape an      *)
(* unblinded PSET must have, the two blinding steps, the canonical         *)
(* projection and its digest, the extracted transaction and its amount     *)
(* proofs.  crates/coinjoin-collab-blinding, crates/coinjoin-pset-state.   *)
(*                                                                         *)
(* There is one asset (L-BTC).  A Pedersen commitment is the pair of what  *)
(* it commits to; blinding factors are integers modulo Order, so a sum of  *)
(* commitments balances iff amounts and blinding factors both do.  A range *)
(* proof is the commitment and script it was made for, a surjection proof  *)
(* is the ordered list of input generators it was made over; the blinding  *)
(* factor of an input fixes its generator.  An optional field that is      *)
(* absent is None.                                                         *)
(***************************************************************************)
EXTENDS Naturals, Sequences, FiniteSets, Functions

CONSTANTS
  None,            \* an absent optional field
  Order,           \* order of the group of blinding factors
  MaxAmount,       \* MAX_LBTC_ATOMIC_UNITS
  MaxCount,        \* MAX_INPUT_COUNT and MAX_OUTPUT_COUNT
  MaxScalars,      \* MAX_SCALAR_COUNT
  MaxSequence      \* the sequence number of an input that carries none

ASSUME BoundsAssumption ==
  /\ Order \in Nat \ {0}
  /\ {MaxAmount, MaxCount, MaxScalars, MaxSequence} \subseteq Nat
  /\ None \notin Nat

(* Outpoints and scripts are names; Elsewhere is one nobody agreed on.     *)
Elsewhere == "elsewhere"
Name == STRING \cup {Elsewhere}

(* A previous output: its script names the key that owns it; bf = 0 is an  *)
(* explicit output, anything else a confidential one.                      *)
Utxo == [spk : Name, amt : Nat, bf : Nat]

(* One PSET input: outpoint, previous output, optional sequence number and *)
(* the range proof carried beside a confidential previous output.          *)
PsetInput == [op : Name, utxo : Utxo, seq : Nat \cup {None},
              rp : Utxo \cup {None}]

(* What blinding an output leaves on it.                                   *)
Blinding == [com : [amt : Nat, bf : Nat],
             rp : [amt : Nat, bf : Nat, spk : Name] \cup {None},
             dom : Seq(Nat)]

ASSUME NoneAssumption == None \notin Blinding

(* One PSET output.  blinder is the blinder index, present exactly when    *)
(* the output carries a blinding key; the empty script is "".              *)
PsetOutput == [spk : Name, amt : Nat, blinder : Nat \cup {None},
               blind : Blinding \cup {None}]

Pset == [ins : Seq(PsetInput), outs : Seq(PsetOutput),
         scalars : Seq(Nat), lock : Nat \cup {None}]

-----------------------------------------------------------------------------
(* Helpers *)

IsFee(o) == o.spk = "" /\ o.blinder = None /\ o.blind = None
IsPreblind(o) == o.blinder # None /\ o.blind = None
IsFullyBlinded(o) == o.blinder # None /\ o.blind # None /\ o.blind.rp # None

Utxos(p) == [i \in DOMAIN p.ins |-> p.ins[i].utxo]
Generators(utxos) == [i \in DOMAIN utxos |-> utxos[i].bf]

(* Inputs both validators accept: distinct outpoints, and beside every     *)
(* confidential previous output a range proof that verifies for it.        *)
InputsValid(p) ==
  /\ Len(p.ins) \in 1..MaxCount
  /\ \A i, j \in DOMAIN p.ins : p.ins[i].op = p.ins[j].op => i = j
  /\ \A i \in DOMAIN p.ins :
       p.ins[i].rp = IF p.ins[i].utxo.bf = 0 THEN None ELSE p.ins[i].utxo

OneFee(p) == \E f \in DOMAIN p.outs : \A j \in DOMAIN p.outs :
                IsFee(p.outs[j]) <=> j = f

ExplicitSum(p, explicit) ==
  SumFunctionOnSet([j \in DOMAIN p.outs |-> p.outs[j].amt], explicit)

-----------------------------------------------------------------------------
(* Slip: leftover scalars and oversized amounts are not refused. *)
UnblindedShapeAnyScalars(p, roles) ==
  /\ InputsValid(p)
  /\ OneFee(p)
  /\ DOMAIN roles = {j \in DOMAIN p.outs : ~ IsFee(p.outs[j])}
  /\ \A j \in DOMAIN p.outs :
       IsFee(p.outs[j]) \/ (IsPreblind(p.outs[j]) /\ p.outs[j].blinder \in DOMAIN p.ins)

(* validate_unblinded_shape: the PSET both participants start from.        *)
(* roles maps each output index that is not the fee's to a role.           *)
UnblindedShape(p, roles) ==
  /\ InputsValid(p)
  /\ Len(p.outs) \in 1..MaxCount
  /\ p.scalars = << >>
  /\ OneFee(p)
  /\ DOMAIN roles = {j \in DOMAIN p.outs : ~ IsFee(p.outs[j])}
  /\ \A j \in DOMAIN p.outs :
       IF IsFee(p.outs[j])
         THEN p.outs[j].amt > 0
         ELSE IsPreblind(p.outs[j]) /\ p.outs[j].blinder \in DOMAIN p.ins
  /\ ExplicitSum(p, DOMAIN p.outs) <= MaxAmount

OutputsOf(roles, role) == {j \in DOMAIN roles : roles[j] = role}

(* validate_input_secrets: the secrets a participant passes open the       *)
(* previous outputs of the PSET at hand.                                   *)
SecretsOpen(p, secrets) ==
  \A i \in DOMAIN secrets :
    /\ i \in DOMAIN p.ins
    /\ p.ins[i].utxo.amt = secrets[i].amt
    /\ p.ins[i].utxo.bf = secrets[i].bf

-----------------------------------------------------------------------------
(* The fork's blinding (external: the pinned elements fork).  A party      *)
(* blinds the unblinded outputs whose blinder index is one of its inputs.  *)
(* The scalar it leaves is what the last blinder must make up for.         *)
ToBlind(p, secrets) ==
  {j \in DOMAIN p.outs : IsPreblind(p.outs[j]) /\ p.outs[j].blinder \in DOMAIN secrets}

BlindedOutput(p, j, bf) ==
  [p.outs[j] EXCEPT !.blind =
     [com |-> [amt |-> p.outs[j].amt, bf |-> bf],
      rp  |-> [amt |-> p.outs[j].amt, bf |-> bf, spk |-> p.outs[j].spk],
      dom |-> Generators(Utxos(p))]]

SecretSum(secrets) ==
  SumFunction([i \in DOMAIN secrets |-> secrets[i].bf]) % Order

(* The blinding factor x that makes x + taken = given modulo Order.        *)
Residual(given, taken) == (given + Order - (taken % Order)) % Order

ForkBlindNonLast(p, secrets, entropy) ==
  LET js == ToBlind(p, secrets) IN
  IF js = {} THEN p
  ELSE [p EXCEPT
         !.outs = [j \in DOMAIN p.outs |->
                     IF j \in js THEN BlindedOutput(p, j, entropy) ELSE p.outs[j]],
         !.scalars = Append(@, Residual(SecretSum(secrets), Cardinality(js) * entropy))]

(* blind_last: the last of its outputs takes the residual, every scalar is *)
(* consumed.                                                               *)
ForkBlindLast(p, secrets, entropy) ==
  LET js   == ToBlind(p, secrets)
      last == CHOOSE j \in js : \A k \in js : k <= j
      owed == SecretSum(secrets) + SumFunction(p.scalars)
      bf(j) == IF j = last
                 THEN Residual(owed, (Cardinality(js) - 1) * entropy)
                 ELSE entropy
  IN [p EXCEPT
       !.outs = [j \in DOMAIN p.outs |->
                   IF j \in js THEN BlindedOutput(p, j, bf(j)) ELSE p.outs[j]],
       !.scalars = << >>]

(* The fork's verify_all_surjection_proofs_use_all_inputs.                 *)
SurjectionUsesAllInputs(p, js) ==
  \A j \in js : /\ j \in DOMAIN p.outs
                /\ IsFullyBlinded(p.outs[j])
                /\ p.outs[j].blind.dom = Generators(Utxos(p))

-----------------------------------------------------------------------------
(* Participant operations on the handed over PSET *)

(* participant_a_blind_non_last (op 4) accepts and what it returns.        *)
CanBlindNonLast(p, roles, secrets) ==
  /\ UnblindedShape(p, roles)
  /\ OutputsOf(roles, "A") # {}
  /\ SecretsOpen(p, secrets)
  /\ Len(ForkBlindNonLast(p, secrets, 0).scalars) \in 1..MaxScalars

(* decode_intermediate: h has the frozen PSET's counts and spends exactly  *)
(* its inputs in order.  Sequence numbers, the lock time and the outputs   *)
(* are not compared.                                                       *)
SameInputDomain(h, frozen) ==
  /\ Len(h.ins) = Len(frozen.ins)
  /\ Len(h.outs) = Len(frozen.outs)
  /\ \A i \in DOMAIN h.ins : /\ h.ins[i].op = frozen.ins[i].op
                             /\ h.ins[i].utxo = frozen.ins[i].utxo

(* blind_last_with_all_surjection_inputs (external) commits only when it   *)
(* has something to blind and every expected output ends up blinded over   *)
(* all the inputs.                                                         *)
ForkCanBlindLast(h, expected, secrets, entropy) ==
  /\ ToBlind(h, secrets) # {}
  /\ SurjectionUsesAllInputs(ForkBlindLast(h, secrets, entropy), expected)
(* Slip: pending scalars are refused instead of required. *)
VerdictRefusesScalars(h, frozen, roles, secrets, entropy) ==
  IF ~ SameInputDomain(h, frozen) THEN "DomainMutationRejected"
  ELSE IF h.scalars # << >> THEN "ScalarsNotCleared"
  ELSE IF ~ SecretsOpen(h, secrets) THEN "DomainMutationRejected"
  ELSE IF ~ ForkCanBlindLast(h, DOMAIN roles, secrets, entropy) THEN "BlindLastFailed"
  ELSE "Ok"

(* participant_b_blind_last's result on a handed over PSET, first failure  *)
(* first.                                                                  *)
BlindLastVerdict(h, frozen, roles, secrets, entropy) ==
  IF ~ SameInputDomain(h, frozen) THEN "DomainMutationRejected"
  ELSE IF Len(h.scalars) \notin 1..MaxScalars THEN "ScalarsNotCleared"
  ELSE IF ~ SecretsOpen(h, secrets) THEN "DomainMutationRejected"
  ELSE IF ~ ForkCanBlindLast(h, DOMAIN roles, secrets, entropy) THEN "BlindLastFailed"
  ELSE "Ok"

-----------------------------------------------------------------------------
(* extract_tx and verify_tx_amt_proofs (external: the pinned fork)         *)
Extract(p) ==
  [lock |-> IF p.lock = None THEN 0 ELSE p.lock,
   ins  |-> [i \in DOMAIN p.ins |->
              [op  |-> p.ins[i].op,
               seq |-> IF p.ins[i].seq = None THEN MaxSequence ELSE p.ins[i].seq]],
   outs |-> [j \in DOMAIN p.outs |->
              IF p.outs[j].blind = None
                THEN [spk |-> p.outs[j].spk, conf |-> FALSE,
                      com |-> [amt |-> p.outs[j].amt, bf |-> 0],
                      rp  |-> None, dom |-> << >>]
                ELSE [spk |-> p.outs[j].spk, conf |-> TRUE,
                      com |-> p.outs[j].blind.com,
                      rp  |-> p.outs[j].blind.rp, dom |-> p.outs[j].blind.dom]]]

AmountProofsVerify(tx, utxos) ==
  /\ SumFunction([j \in DOMAIN tx.outs |-> tx.outs[j].com.amt])
       = SumFunction([i \in DOMAIN utxos |-> utxos[i].amt])
  /\ SumFunction([j \in DOMAIN tx.outs |-> tx.outs[j].com.bf]) % Order
       = SumFunction([i \in DOMAIN utxos |-> utxos[i].bf]) % Order
  /\ \A j \in DOMAIN tx.outs : tx.outs[j].conf =>
       /\ tx.outs[j].rp = [amt |-> tx.outs[j].com.amt, bf |-> tx.outs[j].com.bf,
                           spk |-> tx.outs[j].spk]
       /\ tx.outs[j].dom = Generators(utxos)

(* verify_final: against the previous outputs frozen before the handoff.   *)
VerifiesFinal(p, frozen) ==
  /\ p.scalars = << >>
  /\ AmountProofsVerify(Extract(p), Utxos(frozen))

-----------------------------------------------------------------------------
(* The canonical projection (canonicalize_pset_state)                      *)

(* The three lifecycle shapes of an output, in any mixture.                *)
OutputRole(o) == CASE IsFee(o) -> 1 [] IsPreblind(o) -> 2 [] OTHER -> 3

BlindingVerifies(p, o) ==
  /\ IsFullyBlinded(o)
  /\ o.blind.com.amt = o.amt
  /\ o.blind.rp = [amt |-> o.blind.com.amt, bf |-> o.blind.com.bf, spk |-> o.spk]
  /\ o.blind.dom = Generators(Utxos(p))

Canonical(p) ==
  /\ InputsValid(p)
  /\ Len(p.outs) \in 1..MaxCount
  /\ Len(p.scalars) <= MaxScalars
  /\ OneFee(p)
  /\ \A j \in DOMAIN p.outs : LET o == p.outs[j] IN
       /\ OutputRole(o) \in {1, 2} => o.amt > 0
       /\ OutputRole(o) \in {2, 3} => o.blinder \in DOMAIN p.ins
       /\ OutputRole(o) = 3 => BlindingVerifies(p, o)
  /\ ExplicitSum(p, {j \in DOMAIN p.outs : OutputRole(p.outs[j]) \in {1, 2}})
       <= MaxAmount
(* Slip: sequence numbers are left out of the canonical bytes. *)
ProjectionNoSequence(p) ==
  [lock    |-> p.lock,
   scalars |-> p.scalars,
   ins  |-> [i \in DOMAIN p.ins |->
              [op |-> p.ins[i].op, seq |-> None,
               utxo |-> p.ins[i].utxo, rp |-> p.ins[i].rp]],
   outs |-> p.outs]

(* What the canonical bytes hold of each field, in the encoder's order.    *)
Projection(p) ==
  [lock    |-> p.lock,
   scalars |-> p.scalars,
   ins  |-> [i \in DOMAIN p.ins |->
              [op |-> p.ins[i].op, seq |-> p.ins[i].seq,
               utxo |-> p.ins[i].utxo, rp |-> p.ins[i].rp]],
   outs |-> [j \in DOMAIN p.outs |->
              [role |-> OutputRole(p.outs[j]), spk |-> p.outs[j].spk,
               amt |-> p.outs[j].amt, blinder |-> p.outs[j].blinder,
               blind |-> p.outs[j].blind]]]

(* hash_coinjoin_state: the digest of a context and a projection, which no *)
(* other pair shares (a collision-free hash of length-prefixed parts).     *)
StateDigest(p, context) == [context |-> context, state |-> Projection(p)]

-----------------------------------------------------------------------------
(* accept_signing_capability: what a PSET must be to be signed.            *)
Confidential(p) == {j \in DOMAIN p.outs : p.outs[j].blinder # None}

AuthorizationMatches(p, authorized) ==
  /\ Len(authorized) = Len(p.ins)
  /\ \A i \in DOMAIN p.ins : /\ authorized[i].op = p.ins[i].op
                             /\ authorized[i].key = p.ins[i].utxo.spk
(* Slip: the digest is not compared with the approved one. *)
AcceptsAnyDigest(p, context, digest, authorized) ==
  /\ context.phase = "PreSigning"
  /\ p.scalars = << >>
  /\ Canonical(p)
  /\ SurjectionUsesAllInputs(p, Confidential(p))
  /\ AuthorizationMatches(p, authorized)
  /\ AmountProofsVerify(Extract(p), Utxos(p))

AcceptsSigning(p, context, digest, authorized) ==
  /\ context.phase = "PreSigning"
  /\ p.scalars = << >>
  /\ Canonical(p)
  /\ StateDigest(p, context) = digest
  /\ Confidential(p) # {}
  /\ SurjectionUsesAllInputs(p, Confidential(p))
  /\ AuthorizationMatches(p, authorized)
  /\ AmountProofsVerify(Extract(p), Utxos(p))

(* input_digest: the message signed for input i, with the value it spends. *)
InputDigest(p, i) == [tx |-> Extract(p), index |-> i,
                      spent |-> [amt |-> p.ins[i].utxo.amt, bf |-> p.ins[i].utxo.bf]]

(* The FFI's binding: a hash of the PSET, the context, the approved digest *)
(* and the authorization vector.                                           *)
Binding(p, context, digest, authorized) ==
  [pset |-> p, context |-> context, digest |-> digest, authorized |-> authorized]

=============================================================================
