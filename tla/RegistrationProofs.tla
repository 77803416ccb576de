------------------------- MODULE RegistrationProofs -------------------------
(***************************************************************************)
(* The proofs that go with a registration in a round: that an amount       *)
(* credential and an input or output of the PSET hold the same value       *)
(* (operations 8 and 9 prove, 2 and 3 verify) and that a participant's     *)
(* inputs pay for its outputs and its share of the fee (10 and 7). The     *)
(* challenge is a hash over all a proof is bound to. Of a hash it is       *)
(* assumed that what was not hashed before gives a challenge not seen      *)
(* before, and never zero.                                                 *)
(***************************************************************************)
EXTENDS LinearProofs, FiniteSets, FiniteSetsExt

CONSTANTS
  Revisions,      \* the PSETs callers hand over
  Digests,        \* the digests they name with them: not checked against these
  Credentials,    \* bound: the commitments of amount credentials, points
  Witnesses,      \* bound: the scalars v, r1, r2 and dr a prover claims
  Nonces,         \* bound: the nonces drawn for them, never zero
  ProofBytes,     \* range and surjection proofs of outputs
  IndexLists,     \* bound: the inputs or outputs a balance is about
  Fees,           \* bound: shares of the fee
  MaxProofs,      \* bound: proofs made
  MaxQueries,       \* bound
  None            \* no proofs bound, no credential

RegistrationContexts ==
  [kind : {"input"}, index : 1..2, digest : Digests, proofs : {None}]
    \cup [kind : {"output"}, index : 1..2, digest : Digests, proofs : ProofBytes]

BalanceContexts ==
  [kind : {"balance"}, ins : IndexLists, outs : IndexLists, fee : Fees, digest : Digests]

(* What a call is about: a credential is part of a registration only.      *)
Subjects ==
  [pset : Revisions, ctx : RegistrationContexts, cred : Credentials]
    \cup [pset : Revisions, ctx : BalanceContexts, cred : {None}]

(***************************************************************************)
(* Statements                                                              *)
(***************************************************************************)

(* What the library committed to: an element has a value, the factor that  *)
(* blinds its asset and the whole factor that blinds its value.            *)
AssetOf(e) == [Generator("A") EXCEPT !["H"] = e.abf]
Commitment(e) == [Failure EXCEPT !["A"] = e.value, !["H"] = e.bf]

(* Amounts take 64 bits, the order 256. What is parsed as a point is one.  *)
Elements ==
  [blinded : BOOLEAN, value : Scalar, abf : Scalar, bf : Scalar,
   proofs : ProofBytes \cup {None}]

ASSUME RegistrationAssumption ==
  /\ \A r \in Revisions :
       /\ r.inputs \in Seq(Elements) /\ r.outputs \in Seq(Elements)
       /\ 1..2 \subseteq DOMAIN r.inputs \cap DOMAIN r.outputs
       /\ \A e \in Range(r.inputs) \cup Range(r.outputs) : e.blinded => Commitment(e) # Failure
  /\ \A list \in IndexLists :
       /\ list \in Seq(Nat)
       /\ \A r \in Revisions : Range(list) \subseteq DOMAIN r.inputs \cap DOMAIN r.outputs
  /\ Credentials \subseteq Point \ {Failure}
  /\ Witnesses \subseteq Scalar /\ Nonces \subseteq Scalar \ {0} /\ Fees \subseteq Nat

Element(s) == IF s.ctx.kind = "input" THEN s.pset.inputs[s.ctx.index]
              ELSE s.pset.outputs[s.ctx.index]

(* input_registration_statement, output_registration_statement: an element *)
(* that is not blinded has none.                                           *)
Equality(s) ==
  LET e == Element(s) IN
  IF ~e.blinded THEN << >>
  ELSE << [of |-> s.cred, on |-> <<Generator("Gg"), Generator("Gh")>>, by |-> <<"v", "r1">>],
          [of |-> Commitment(e), on |-> <<AssetOf(e), Generator("H")>>, by |-> <<"v", "r2">>] >>

Ins(s) == [i \in DOMAIN s.ctx.ins |-> s.pset.inputs[s.ctx.ins[i]]]
Outs(s) == [i \in DOMAIN s.ctx.outs |-> s.pset.outputs[s.ctx.outs[i]]]

(* A value in the open counts as that much of the asset.                   *)
Amount(e) == IF e.blinded THEN Commitment(e) ELSE Mul(Generator("A"), e.value)
Amounts(elements) == [i \in DOMAIN elements |-> Amount(elements[i])]

(* Inputs less outputs less the fee.                                       *)
Residual(s) ==
  LET negative == Mul(Total(Append(Amounts(Outs(s)), Mul(Generator("A"), s.ctx.fee))), -1) IN
  IF Ins(s) = << >> THEN negative ELSE Combine(Total(Amounts(Ins(s))), negative)

(* build_statement: refused also where a step on the way fails.            *)
Balance(s) ==
  IF Residual(s) = Failure \/ \E e \in Range(Outs(s)) : ~e.blinded THEN << >>
  ELSE << [of |-> Residual(s), on |-> <<Generator("H")>>, by |-> <<"dr">>] >>

Statement(s) == IF s.ctx.kind = "balance" THEN Balance(s) ELSE Equality(s)

(***************************************************************************)
(* Challenges                                                              *)
(***************************************************************************)

Bytes(e) == IF e.blinded THEN <<Commitment(e), AssetOf(e)>> ELSE <<e.value>>

(* The bytes of the elements a balance is about go into its transcript.    *)
BoundElements(s) ==
  IF s.ctx.kind # "balance" THEN << >>
  ELSE << [i \in DOMAIN Ins(s) |-> Bytes(Ins(s)[i])],
          [i \in DOMAIN Outs(s) |-> Bytes(Outs(s)[i])] >>

(* Slip: the revision is left out of the context.                          *)
QueryOfAnyRevision(s, commitments) ==
  <<commitments, Statement(s), [s.ctx EXCEPT !.digest = None], BoundElements(s)>>

(* The transcript a challenge is the hash of.                              *)
Query(s, commitments) == <<commitments, Statement(s), s.ctx, BoundElements(s)>>

VARIABLES
  oracle,      \* the challenges given so far, by query
  accepted,    \* the proofs some operation vouched for, and for what
  queries,       \* calls made
  last         \* what the last of them returned

proofVars == <<oracle, accepted, queries, last>>

(* Those of refused calls are not kept: met again, they may be others.     *)
Challenges(query) ==
  IF query \in DOMAIN oracle THEN {oracle[query]} ELSE (1..(Q - 1)) \ Range(oracle)

Proofs == {a.proof : a \in accepted}

ProofInit == oracle = << >> /\ accepted = {} /\ queries = 0 /\ last = "none"

Accept(s, proof, challenge) ==
  LET asked == Query(s, proof.commitments) IN
  /\ accepted' = accepted \cup {[proof |-> proof, of |-> s]}
  /\ oracle' = [q \in DOMAIN oracle \cup {asked} |-> IF q = asked THEN challenge ELSE oracle[q]]

Refuse ==
  /\ last' = "refused"
  /\ UNCHANGED <<oracle, accepted>>

(* Slip: a proof is handed out as it was made.                             *)
Unchecked(statement, proof, challenge) == TRUE

(* The operations that prove verify what they made before they return it.  *)
SelfVerified(statement, proof, challenge) == Verifies(statement, proof, challenge)

(* What only the operations that prove insist on: the proofs bound are the *)
(* output's (9), the fee and the residual factor are not zero (10).        *)
Admitted(s, witness) ==
  /\ s.ctx.kind = "output" => s.ctx.proofs = Element(s).proofs
  /\ s.ctx.kind = "balance" => s.ctx.fee # 0 /\ witness.dr # 0

Made(s, witness, nonces, challenge) ==
  [commitments |-> Commitments(Statement(s), nonces),
   responses |-> Responses(nonces, challenge, witness)]

Names(s) == IF s.ctx.kind = "balance" THEN {"dr"} ELSE {"v", "r1", "r2"}

(* op_prove_registration, op_prove_partial_balance: with a witness that    *)
(* need not be the right one. A balance makes no proof of response zero.   *)
Prove(s, witness, nonces) ==
  /\ Cardinality(Proofs) < MaxProofs
  /\ queries < MaxQueries /\ queries' = queries + 1
  /\ IF Statement(s) = << >> \/ ~Admitted(s, witness) THEN Refuse
     ELSE \E c \in Challenges(Query(s, Commitments(Statement(s), nonces))) :
            LET proof == Made(s, witness, nonces, c) IN
            IF /\ Failure \notin Range(proof.commitments)
               /\ s.ctx.kind = "balance" => proof.responses["dr"] # 0
               /\ SelfVerified(Statement(s), proof, c)
            THEN Accept(s, proof, c) /\ last' = "proof"
            ELSE Refuse

(* op_verify_registration, op_verify_partial_balance: with any proof of    *)
(* the right length, for whatever the caller says.                         *)
Verify(s, proof) ==
  /\ queries < MaxQueries /\ queries' = queries + 1
  /\ (s.ctx.kind = "balance") = (Len(proof.commitments) = 1)
  /\ IF Statement(s) = << >> THEN Refuse
     ELSE \E c \in Challenges(Query(s, proof.commitments)) :
            IF Verifies(Statement(s), proof, c) THEN Accept(s, proof, c) /\ last' = "verdict"
            ELSE Refuse

ProofNext ==
  \/ \E s \in Subjects :
       \E w \in [Names(s) -> Witnesses], k \in [Names(s) -> Nonces] : Prove(s, w, k)
  \/ \E s \in Subjects, proof \in Proofs : Verify(s, proof)

ProofSpec == ProofInit /\ [][ProofNext]_proofVars

(***************************************************************************)
(* Properties                                                              *)
(***************************************************************************)

(* What elements hold together.                                            *)
Worth(elements) ==
  SumFunctionOnSet([i \in DOMAIN elements |-> elements[i].value], DOMAIN elements)

(* Whoever proved or verified, and with whatever witness: a registration   *)
(* that is accepted puts the same value into credential and element, and a *)
(* participant whose balance is accepted has put in what it takes out and  *)
(* its share of the fee, blinded or in the open; so participants whose     *)
(* lists part a PSET among them pay the whole of its fee.                  *)
AcceptedValuesAgree ==
  \A a \in accepted :
    IF a.of.ctx.kind = "balance"
    THEN (Worth(Ins(a.of)) - Worth(Outs(a.of)) - a.of.ctx.fee) % Q = 0
    ELSE a.of.cred["Gg"] = Element(a.of).value

(* A proof is good for one registration of a statement only: it is not     *)
(* accepted again for another revision, another element with the same      *)
(* commitments, other proofs, or other inputs that come to the same sum.   *)
AcceptedInOneContext ==
  \A a, b \in accepted :
    (a.proof = b.proof /\ Statement(a.of) = Statement(b.of)) =>
      a.of.ctx = b.of.ctx /\ BoundElements(a.of) = BoundElements(b.of)

(* The right witness, by the definition of the commitments.                *)
Opens(s, w) ==
  IF s.ctx.kind = "balance" THEN Residual(s) = Mul(Generator("H"), w.dr)
  ELSE /\ s.cred = [Failure EXCEPT !["Gg"] = w.v, !["Gh"] = w.r1]
       /\ w.v = Element(s).value
       /\ (w.r2 + w.v * Element(s).abf - Element(s).bf) % Q = 0

(* Verification tells the right witness from all others, whatever nonces   *)
(* and challenge; only a response of zero is refused although it is right, *)
(* since the library does not multiply by it.                              *)
VerificationIsExact ==
  queries = 0 =>
    \A s \in Subjects :
      Statement(s) # << >> =>
        \A w \in [Names(s) -> Witnesses], k \in [Names(s) -> Nonces], c \in 1..(Q - 1) :
          LET proof == Made(s, w, k, c) IN
          Verifies(Statement(s), proof, c) <=> Opens(s, w) /\ 0 \notin Range(proof.responses)
=============================================================================
