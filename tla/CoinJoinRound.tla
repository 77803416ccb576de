--------------------------- MODULE CoinJoinRound ---------------------------
(***************************************************************************)
(* One CoinJoin round driven over the stateless FFI (crates/coinjoin-ffi): *)
(* A blinds as the non-last blinder, B blinds last, every participant      *)
(* approves a digest, signs its own inputs of the PSET with that digest,   *)
(* and the signatures are assembled.                                       *)
(*                                                                         *)
(* The library keeps nothing between calls.  The state is what the callers *)
(* hold: the PSETs and signature contributions in circulation, which may   *)
(* be delivered again, late, in any order, or changed on the way, and the  *)
(* digests each participant has approved.                                  *)
(***************************************************************************)
EXTENDS CoinJoinPset

CONSTANTS
  Agreements,      \* the rounds to start: [pset |-> unblinded PSET, roles |-> role map]
  Contexts,        \* canonical contexts in use: records with a field "phase"
  Entropies,       \* values a caller's 32 bytes of blinding entropy take
  Faults,          \* what may happen in transit: "drift", "relabel", "garble"
  MaxFaults,       \* bound: how many such faults a behaviour has
  MaxViews         \* bound: how many digests a participant approves

Participants == {"A", "B"}

ASSUME RoundAssumption ==
  /\ \A a \in Agreements :
       /\ a.pset \in Pset
       /\ DOMAIN a.roles \subseteq DOMAIN a.pset.outs
       /\ \A j \in DOMAIN a.roles : a.roles[j] \in Participants
       /\ \A x \in Participants : \E i \in DOMAIN a.pset.ins : a.pset.ins[i].utxo.spk = x
       /\ \A i \in DOMAIN a.pset.ins : a.pset.ins[i].utxo.spk \in Participants
       /\ \A j \in DOMAIN a.pset.outs : a.pset.outs[j].blind = None
  /\ None \notin Participants
  /\ Entropies \subseteq Nat
  /\ MaxFaults \in Nat /\ MaxViews \in Nat

VARIABLES
  agreed,          \* the unblinded PSET and role map both participants hold
  wire,            \* PSETs in circulation
  finals,          \* PSETs op 5 has returned
  approved,        \* approved[x]: views participant x retains, with their digests
  contributions,   \* signature contributions in circulation
  finalized,       \* transactions op 12 has returned, with their context
  faults           \* faults so far

vars == <<agreed, wire, finals, approved, contributions, finalized, faults>>

-----------------------------------------------------------------------------
Frozen == agreed.pset

(* A previous output's script names the participant whose key it pays.     *)
OwnInputs(x) == {i \in DOMAIN Frozen.ins : Frozen.ins[i].utxo.spk = x}

ApprovedDigests(x) == {v.digest : v \in approved[x]}

(* The input secrets a participant passes: those of its own inputs.        *)
Secrets(x) == [i \in OwnInputs(x) |-> [amt |-> Frozen.ins[i].utxo.amt,
                                       bf  |-> Frozen.ins[i].utxo.bf]]

(* The complete ascending authorization vector, from what was agreed.      *)
Authorized == [i \in DOMAIN Frozen.ins |->
                [op |-> Frozen.ins[i].op, key |-> Frozen.ins[i].utxo.spk]]

(* What a participant checks itself before it approves a digest (external: *)
(* the caller's duty the header states): the agreed inputs are spent and   *)
(* the outputs blinded on its behalf still pay its scripts and amounts.    *)
KeepsAgreement(x, p) ==
  /\ SameInputDomain(p, Frozen)
  /\ \A j \in DOMAIN Frozen.outs : Frozen.outs[j].blinder \in OwnInputs(x) =>
       /\ p.outs[j].spk = Frozen.outs[j].spk
       /\ p.outs[j].amt = Frozen.outs[j].amt
(* Slip: the signed message is not compared. *)
SignatureKeyOnly(sig, key, message) == sig.by = key

(* verify_signature: a well-formed signature of the message by the key.    *)
SignatureVerifies(sig, key, message) == sig.by = key /\ sig.message = message

-----------------------------------------------------------------------------
Init ==
  /\ agreed \in Agreements
  /\ wire = {agreed.pset}
  /\ finals = {}
  /\ approved = [x \in Participants |-> {}]
  /\ contributions = {}
  /\ finalized = {}
  /\ faults = 0

(* Op 4 *)
BlindNonLast(entropy) ==
  /\ CanBlindNonLast(Frozen, agreed.roles, Secrets("A"))
  /\ wire' = wire \cup {ForkBlindNonLast(Frozen, Secrets("A"), entropy)}
  /\ UNCHANGED <<agreed, finals, approved, contributions, finalized, faults>>

(* Op 5: blinds what the handed over PSET says, then verifies the result.  *)
BlindLast(h, entropy) ==
  LET r == ForkBlindLast(h, Secrets("B"), entropy) IN
  /\ UnblindedShape(Frozen, agreed.roles)
  /\ BlindLastVerdict(h, Frozen, agreed.roles, Secrets("B"), entropy) = "Ok"
  /\ VerifiesFinal(r, Frozen)
  /\ wire' = wire \cup {r}
  /\ finals' = finals \cup {r}
  /\ UNCHANGED <<agreed, approved, contributions, finalized, faults>>

(* Op 6, and the participant's approval of the digest it returns; it keeps *)
(* the approved bytes, as the header asks.                                 *)
ApproveView(x, p, context) ==
  /\ Cardinality(approved[x]) < MaxViews
  /\ p.scalars = << >>
  /\ Canonical(p)
  /\ KeepsAgreement(x, p)
  /\ approved' = [approved EXCEPT ![x] = @ \cup
                   {[pset |-> p, context |-> context,
                     digest |-> StateDigest(p, context)]}]
  /\ UNCHANGED <<agreed, wire, finals, contributions, finalized, faults>>
(* Op 11 for x's own inputs of a PSET with a digest x approved, and x's    *)
(* signatures of the returned messages.                                    *)
SignOwned(x, p, context, digest) ==
  /\ digest \in ApprovedDigests(x)
  /\ AcceptsSigning(p, context, digest, Authorized)
  /\ OwnInputs(x) # {}
  /\ contributions' = contributions \cup
       {[binding |-> Binding(p, context, digest, Authorized),
         index   |-> i,
         key     |-> Authorized[i].key,
         sig     |-> [by |-> x, message |-> InputDigest(p, i)]] : i \in OwnInputs(x)}
  /\ UNCHANGED <<agreed, wire, finals, approved, finalized, faults>>
(* Slip: the contributions' binding is not compared. *)
CompleteSetAnyBinding(p, binding, submitted) ==
  /\ Len(submitted) = Len(Authorized)
  /\ \A s, t \in DOMAIN submitted : submitted[s].index = submitted[t].index => s = t
  /\ \A s \in DOMAIN submitted :
       /\ submitted[s].key = Authorized[submitted[s].index].key
       /\ SignatureVerifies(submitted[s].sig, submitted[s].key,
                            InputDigest(p, submitted[s].index))
(* Op 12's checks of a submitted sequence of contributions: one for each   *)
(* authorized input, in any order, all of this request's binding.          *)
CompleteSet(p, binding, submitted) ==
  /\ Len(submitted) = Len(Authorized)
  /\ \A s, t \in DOMAIN submitted : submitted[s].index = submitted[t].index => s = t
  /\ \A s \in DOMAIN submitted :
       /\ submitted[s].binding = binding
       /\ submitted[s].index \in DOMAIN Authorized
       /\ submitted[s].key = Authorized[submitted[s].index].key
       /\ SignatureVerifies(submitted[s].sig, submitted[s].key,
                            InputDigest(p, submitted[s].index))

(* Op 12 *)
Assemble(p, context, digest) ==
  /\ AcceptsSigning(p, context, digest, Authorized)
  /\ \E submitted \in [DOMAIN Authorized -> contributions] :
       CompleteSet(p, Binding(p, context, digest, Authorized), submitted)
  /\ finalized' = finalized \cup {[tx |-> Extract(p), context |-> context]}
  /\ UNCHANGED <<agreed, wire, finals, approved, contributions, faults>>

-----------------------------------------------------------------------------
(* Faults of the transport between the callers *)

(* PSETs that differ from p in one place.                                  *)
Drifted(p) ==
  LET Ins == DOMAIN p.ins
      Outs == DOMAIN p.outs
  IN
  {[p EXCEPT !.ins = [i \in Ins |-> p.ins[Len(p.ins) + 1 - i]]],
   [p EXCEPT !.scalars = << >>],
   [p EXCEPT !.scalars = [s \in DOMAIN @ |-> (@[s] + 1) % Order]],
   [p EXCEPT !.lock = 7],
   [p EXCEPT !.ins = SubSeq(@, 2, Len(@))],
   [p EXCEPT !.outs = SubSeq(@, 2, Len(@))]}
  \cup {[p EXCEPT !.ins[i].op = Elsewhere] : i \in Ins}
  \cup {[p EXCEPT !.ins[i].utxo.amt = @ + 1] : i \in Ins}
  \cup {[p EXCEPT !.ins[i].seq = 0] : i \in Ins}
  \cup {[p EXCEPT !.outs[j].spk = Elsewhere] : j \in Outs}
  \cup {[p EXCEPT !.outs[j].amt = @ + 1] : j \in Outs}
  \cup {[p EXCEPT !.outs[j].blind.rp = None] :
          j \in {k \in Outs : p.outs[k].blind # None}}
  \cup {[p EXCEPT !.outs[j].blind = None] :
          j \in {k \in Outs : p.outs[k].blind # None}}

Fault(kind) ==
  /\ kind \in Faults
  /\ faults < MaxFaults
  /\ faults' = faults + 1
  /\ UNCHANGED <<agreed, finals, approved, finalized>>

DriftPset(p) ==
  /\ Fault("drift")
  /\ \E q \in Drifted(p) : wire' = wire \cup {q}
  /\ UNCHANGED contributions

(* The binding is a public token: a contribution may carry another's.      *)
RelabelContribution(k) ==
  /\ Fault("relabel")
  /\ \E l \in contributions :
       contributions' = contributions \cup
         {[binding |-> l.binding, index |-> k.index, key |-> k.key, sig |-> k.sig]}
  /\ UNCHANGED wire

(* A signature that is malformed, high-S or simply not the key's.          *)
GarbleContribution(k) ==
  /\ Fault("garble")
  /\ contributions' = contributions \cup
       {[binding |-> k.binding, index |-> k.index, key |-> k.key,
         sig |-> [by |-> None, message |-> k.sig.message]]}
  /\ UNCHANGED wire

-----------------------------------------------------------------------------
Sign == \E x \in Participants, p \in wire, c \in Contexts :
          \E d \in ApprovedDigests(x) : SignOwned(x, p, c, d)

AssembleAny == \E p \in wire, c \in Contexts :
                 \E d \in ApprovedDigests("A") \cup ApprovedDigests("B") :
                   Assemble(p, c, d)

Call ==
  \/ \E e \in Entropies : BlindNonLast(e)
  \/ \E h \in wire, e \in Entropies : BlindLast(h, e)
  \/ \E x \in Participants, p \in wire, c \in Contexts : ApproveView(x, p, c)
  \/ Sign
  \/ AssembleAny

Next ==
  \/ Call
  \/ \E p \in wire : DriftPset(p)
  \/ \E k \in contributions : RelabelContribution(k) \/ GarbleContribution(k)

Spec == Init /\ [][Next]_vars
-----------------------------------------------------------------------------
(* Types, and that whatever a participant holds came over the wire: the    *)
(* views it retains carry their own digest, a contribution is for an input *)
(* of the agreed PSET and names the key that owns it.                      *)
TypeOK ==
  /\ agreed \in Agreements
  /\ finals \subseteq wire
  /\ DOMAIN approved = Participants
  /\ \A x \in Participants : \A v \in approved[x] :
       /\ v.pset \in wire
       /\ v.context \in Contexts
       /\ v.digest = StateDigest(v.pset, v.context)
  /\ \A k \in contributions : /\ k.index \in DOMAIN Frozen.ins
                              /\ k.key = Frozen.ins[k.index].utxo.spk
                              /\ k.sig.by \in {k.key, None}
                              /\ k.binding.pset \in wire
  /\ \A f \in finalized : f.context \in Contexts
  /\ faults \in 0..MaxFaults

(* accept_signing_capability, assemble_signatures: whatever is delivered,  *)
(* relabelled or garbled, a finalized transaction is one that every        *)
(* participant itself approved, to the last field of its body.             *)
FinalizedIsApproved ==
  \A f \in finalized : \A x \in Participants :
    \E v \in approved[x] : Extract(v.pset) = f.tx

(* The FFI binding (signing.rs execute): unless somebody relabels          *)
(* contributions, all of a finalized transaction's signatures were made    *)
(* for one approved context, the one op 12 was called with.                *)
FinalizedInOneContext ==
  "relabel" \notin Faults =>
    \A f \in finalized : \A x \in Participants :
      \E v \in approved[x] : Extract(v.pset) = f.tx /\ v.context = f.context

(* The whole pipeline: a finalized transaction spends the inputs agreed    *)
(* on, in order, balances against their previous outputs as they were      *)
(* before any handoff, and commits to the agreed script and amount of      *)
(* every blinded output.                                                   *)
FinalizedKeepsAgreement ==
  \A f \in finalized :
    /\ Len(f.tx.ins) = Len(Frozen.ins) /\ Len(f.tx.outs) = Len(Frozen.outs)
    /\ \A i \in DOMAIN Frozen.ins : f.tx.ins[i].op = Frozen.ins[i].op
    /\ AmountProofsVerify(f.tx, Utxos(Frozen))
    /\ \A j \in DOMAIN agreed.roles :
         /\ f.tx.outs[j].conf
         /\ f.tx.outs[j].spk = Frozen.outs[j].spk
         /\ f.tx.outs[j].com.amt = Frozen.outs[j].amt

AmountsAgree(p) ==
  SumFunction([i \in DOMAIN p.ins |-> p.ins[i].utxo.amt]) = ExplicitSum(p, DOMAIN p.outs)

(* participant_a_blind_non_last, participant_b_blind_last: an agreed PSET  *)
(* that passes validate_unblinded_shape and whose amounts add up yields,   *)
(* with any entropy on either side, a handoff whose last blinding passes   *)
(* verify_final: nothing is left over and nothing is missing.              *)
UndriftedHandoffBalances ==
  faults = 0 /\ UnblindedShape(Frozen, agreed.roles) /\ AmountsAgree(Frozen) =>
    \A h \in wire, e \in Entropies :
      BlindLastVerdict(h, Frozen, agreed.roles, Secrets("B"), e) = "Ok"
        => VerifiesFinal(ForkBlindLast(h, Secrets("B"), e), Frozen)

-----------------------------------------------------------------------------
(* Callers that keep making the calls the library still has something new  *)
(* to answer to.                                                           *)
FairSpec == Spec /\ WF_vars(Call)

(* The round ends in a transaction although PSETs and contributions were   *)
(* changed on the way: a refused call spoils nothing and the undamaged     *)
(* PSET can be handed over again.                                          *)
RoundCompletes == <>(finalized # {})

(* canonical_accept_final's doc: a scalar-bearing state is rejected here.  *)
PartialIsNotCanonical == \A p \in wire : p.scalars # << >> => ~ Canonical(p)

-----------------------------------------------------------------------------
(* Every participant consents to a transaction by approving a view of it.  *)
Abstract == INSTANCE JointSpend WITH
  Owners   <- Participants,
  consents <- [x \in Participants |-> {Extract(v.pset) : v \in approved[x]}],
  spends   <- {f.tx : f \in finalized}

ImplementsJointSpend == Abstract!Spec
=============================================================================
