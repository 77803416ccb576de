--------------------------- MODULE OrdinarySpend ---------------------------
(***************************************************************************)
(* An ordinary wallet spend: selected outputs are validated, laid out at   *)
(* random, opened by a provider, built into a PSET, blinded, signed by the *)
(* caller's signer and finalized (crates/ordinary-wallet-plan,             *)
(* ordinary-wallet-pset, ordinary-pset, wallet-facts), either natively or  *)
(* through the C interface (crates/ordinary-wallet-plan-ffi).              *)
(*                                                                         *)
(* The provider and the signer are the caller's: what they are asked       *)
(* cannot be taken back, and a call that failed may be made again.         *)
(***************************************************************************)
EXTENDS WalletCandidates, FiniteSetsExt

CONSTANTS
  Requests,          \* the plans a caller submits
  Entropies,         \* seeds of the random generator
  Shuffle(_, _, _),  \* the permutation a seed yields for a side and a length
  MaxTotal,          \* u64::MAX
  BlindDraws,        \* how often a blinding asks the generator
  MaxCalls           \* bound: complete calls and retries

PlanOutput == [to : STRING, asset : STRING, val : Nat \ {0}]
Fee == [asset : STRING, val : Nat \ {0}]
Row == [tx : Transaction, prev : Seq(Transaction), at : Outpoint,
        asset : STRING, val : Nat \ {0}]
Request == [rows : Seq(Row), outs : Seq(PlanOutput), fee : Fee]
Perms(n) == {p \in [1..n -> 1..n] : \A i, j \in 1..n : p[i] = p[j] => i = j}
Sides == {"ins", "outs"}

ASSUME SpendAssumption ==
  /\ \A r \in Requests : r \in Request
  /\ \A e \in Entropies, s \in Sides, r \in Requests :
       /\ Shuffle(e, s, Len(r.rows)) \in Perms(Len(r.rows))
       /\ Shuffle(e, s, Len(r.outs)) \in Perms(Len(r.outs))
  /\ MaxTotal \in Nat /\ BlindDraws \in Nat /\ MaxCalls \in Nat

-----------------------------------------------------------------------------
(* What the blinded PSET spends and pays; weak: some of its factors are    *)
(* the fallback bytes supplied after the generator failed.                 *)
Spends(r, i) == [at |-> r.rows[i].at, asset |-> Spent(r.rows[i].at).asset,
                 val |-> Spent(r.rows[i].at).val]
Facts == [at : Outpoint, asset : STRING, val : Nat]
Pset == [ins : Seq(Facts), outs : Seq(PlanOutput), fee : Fee, seed : Entropies,
         weak : BOOLEAN, witnessed : BOOLEAN]
NoPset == [ins |-> << >>]

Shuffled(s, p) == [i \in DOMAIN s |-> s[p[i]]]

(* ExpectedPlanTotals, PrivateAssetTotals: u64 sums per asset.             *)
Total(s, asset) == MapThenSumSet(LAMBDA i : s[i].val, {i \in DOMAIN s : s[i].asset = asset})
AssetsOf(s) == {s[i].asset : i \in DOMAIN s}

(* Slip: assets only outputs have are not looked at. *)
BalancedForInputs(ins, outs, fee) ==
  LET paid == Append(outs, fee) IN
  \A a \in AssetsOf(ins) : Total(ins, a) = Total(paid, a) /\ Total(ins, a) <= MaxTotal

(* Every asset on its own; a total that does not fit refuses the plan.     *)
Balanced(ins, outs, fee) ==
  LET paid == Append(outs, fee) IN
  \A a \in AssetsOf(ins) \cup AssetsOf(paid) :
    Total(ins, a) = Total(paid, a) /\ Total(ins, a) <= MaxTotal

(* SelectedOutputBatch::new.                                               *)
Selectable(r) ==
  /\ r.rows # << >>
  /\ \A i, j \in DOMAIN r.rows : r.rows[i].at = r.rows[j].at => i = j

(* decode_request: the counts, and rows in strictly ascending order.       *)
Counted(r) == r.rows # << >> /\ r.outs # << >>
Ascending(r) ==
  \A i, j \in DOMAIN r.rows : i < j =>
    \/ r.rows[i].at.tx < r.rows[j].at.tx
    \/ r.rows[i].at.tx = r.rows[j].at.tx /\ r.rows[i].at.vout < r.rows[j].at.vout

(* prepare_selected_owned_inputs, one row.                                 *)
RowValid(row) ==
  /\ Decodes(row.tx)
  /\ row.tx.id = row.at.tx /\ Exists(row.at)
  /\ PubliclyValid([tx |-> row.tx, prev |-> row.prev])
  /\ Spent(row.at).spk \in Catalog /\ Spent(row.at).conf

Prepared(r) == \A i \in DOMAIN r.rows : RowValid(r.rows[i])

(* Slip: the amount opened is not compared with the one expected. *)
OpensAnyAmount(row) == Opens(Spent(row.at)) /\ Spent(row.at).asset = row.asset

(* open_prepared_selected_owned_inputs, one row, a provider with the       *)
(* wallet's own key.                                                       *)
OpensAsExpected(row) ==
  /\ Opens(Spent(row.at))
  /\ Spent(row.at).asset = row.asset /\ Spent(row.at).val = row.val

-----------------------------------------------------------------------------
VARIABLES
  via,             \* "native" or "ffi"
  request, entropy,
  phase,           \* what the call does next; "idle" between calls
  layout,          \* permutations of the rows and the outputs
  provided,        \* outpoints the provider was asked to open in this call
  blinding,        \* [drawn, failed, weak]: the generator while it blinds
  pset,            \* the blinded PSET, from blinding to the end of the call
  keys, sigs,      \* how many inputs' keys, signatures are accepted
  answer,          \* [reason, status, transaction] of the last call
  retained,        \* the PSET a failed signing returned to a native caller
  shown,           \* digests put to the signer: [plan, pset, input]
  calls

vars == <<via, request, entropy, phase, layout, provided, blinding, pset, keys, sigs,
          answer, retained, shown, calls>>

call == <<via, request, entropy>>
inputs == <<layout, provided, blinding>>
signing == <<pset, keys, sigs, retained, shown>>

Fresh == [drawn |-> 0, failed |-> FALSE, weak |-> FALSE]
NoLayout == [s \in Sides |-> << >>]
Pending == [reason |-> "none", status |-> "none", transaction |-> NoPset]

Preparations == {"InvalidPlan", "InvalidFunding", "InvalidSelectedOutput",
                 "RandomnessUnavailable", "BlindingFailed"}
Unavailable == {"PublicKeyUnavailable", "SignatureUnavailable"}
Signings == Unavailable \cup
  {"InvalidBlindedPset", "UncompressedPublicKey", "PublicKeyDoesNotOwnInput",
   "NonCanonicalSignature", "InvalidSignature", "FinalizationFailed"}

(* The status wln_wlpq_sign_finalize_impl_v1 returns for a reason.         *)
Status(reason) ==
  CASE reason \in Preparations \cup {"panic"} -> "INTERNAL_ERROR"
    [] reason \in Unavailable -> "SIGNER_REFUSED"
    [] reason \in Signings \ Unavailable -> "SIGNING_REJECTED"
    [] OTHER -> reason

Init ==
  /\ via = "native" /\ request \in Requests /\ entropy \in Entropies
  /\ phase = "idle"
  /\ layout = NoLayout /\ provided = << >> /\ blinding = Fresh
  /\ pset = NoPset /\ keys = 0 /\ sigs = 0
  /\ answer = Pending /\ retained = NoPset
  /\ shown = {} /\ calls = 0

(* The native answer is the reason, that of the C interface its status.    *)
Answer(reason, transaction) ==
  /\ phase' = "idle"
  /\ answer' = [reason |-> reason,
                status |-> IF via = "ffi" THEN Status(reason) ELSE reason,
                transaction |-> transaction]

(* A preparation that fails keeps no PSET.                                 *)
Refuse(reason) == Answer(reason, NoPset) /\ UNCHANGED <<pset, retained>>

(* A signing that fails hands the PSET back, but the C interface drops it. *)
RefuseSigning(reason, p) ==
  /\ Answer(reason, NoPset)
  /\ pset' = NoPset
  /\ retained' = IF via = "native" THEN p ELSE NoPset

Begin(v, r, e) ==
  /\ phase = "idle" /\ calls < MaxCalls
  /\ v = "native" => Selectable(r)
  /\ via' = v /\ request' = r /\ entropy' = e
  /\ phase' = IF v = "ffi" THEN "decode" ELSE "build"
  /\ layout' = NoLayout /\ provided' = << >> /\ blinding' = Fresh
  /\ pset' = NoPset /\ keys' = 0 /\ sigs' = 0
  /\ answer' = Pending /\ retained' = NoPset
  /\ calls' = calls + 1
  /\ UNCHANGED shown

(* A frame that arrives is decoded whole before anything else is done.     *)
Decode ==
  /\ phase = "decode"
  /\ \/ /\ Counted(request) /\ Ascending(request)
        /\ phase' = "prepare"
        /\ UNCHANGED <<answer, pset, retained>>
     \/ ~ Counted(request) /\ Refuse("LIMIT_EXCEEDED")
     \/ Counted(request) /\ ~ Ascending(request) /\ Refuse("INVALID_ENCODING")
  /\ UNCHANGED <<call, inputs, keys, sigs, shown, calls>>

(* ParsedOrdinaryWalletPlanRequest::prepare; rows in ascending order are   *)
(* selectable.                                                             *)
Prepare ==
  /\ phase = "prepare"
  /\ \/ /\ Balanced(request.rows, request.outs, request.fee) /\ Prepared(request)
        /\ phase' = "build"
        /\ UNCHANGED <<answer, pset, retained>>
     \/ ~ Balanced(request.rows, request.outs, request.fee) /\ Refuse("PLAN_REJECTED")
     \/ /\ Balanced(request.rows, request.outs, request.fee) /\ ~ Prepared(request)
        /\ Refuse("FUNDING_REJECTED")
  /\ UNCHANGED <<call, inputs, keys, sigs, shown, calls>>

(* build_blinded_ordinary_wallet_pset, before anything private.            *)
Build ==
  /\ phase = "build"
  /\ \/ /\ request.outs # << >> /\ Balanced(request.rows, request.outs, request.fee)
        /\ Prepared(request)
        /\ phase' = "layout"
        /\ UNCHANGED <<answer, pset, retained>>
     \/ /\ request.outs = << >> \/ ~ Balanced(request.rows, request.outs, request.fee)
        /\ Refuse("InvalidPlan")
     \/ /\ request.outs # << >> /\ Balanced(request.rows, request.outs, request.fee)
        /\ ~ Prepared(request)
        /\ Refuse("InvalidFunding")
  /\ UNCHANGED <<call, inputs, keys, sigs, shown, calls>>

(* LayoutPlan::generate, then the seed of the context.                     *)
LayOut ==
  /\ phase = "layout"
  /\ \/ /\ layout' = [s \in Sides |-> Shuffle(entropy, s,
                        IF s = "ins" THEN Len(request.rows) ELSE Len(request.outs))]
        /\ phase' = "open"
        /\ UNCHANGED <<answer, pset, retained>>
     \/ /\ Refuse("RandomnessUnavailable")
        /\ UNCHANGED layout
  /\ UNCHANGED <<call, provided, blinding, keys, sigs, shown, calls>>

(* The provider, row by row; it may refuse whatever it is asked.           *)
Open ==
  /\ phase = "open" /\ Len(provided) < Len(request.rows)
  /\ LET row == request.rows[Len(provided) + 1] IN
       /\ provided' = Append(provided, row.at)
       /\ \/ /\ OpensAsExpected(row)
             /\ UNCHANGED <<phase, answer, pset, retained>>
          \/ Refuse("InvalidSelectedOutput")
  /\ UNCHANGED <<call, layout, blinding, keys, sigs, shown, calls>>

(* What the layout makes of the opened inputs and the outputs.             *)
Draft == [ins |-> Shuffled([i \in DOMAIN request.rows |-> Spends(request, i)], layout["ins"]),
          outs |-> Shuffled(request.outs, layout["outs"])]

(* prepare_ordinary_pset.                                                  *)
Construct ==
  /\ phase = "open" /\ Len(provided) = Len(request.rows)
  /\ \/ /\ Balanced(Draft.ins, Draft.outs, request.fee)
        /\ phase' = "blind"
        /\ UNCHANGED <<answer, pset, retained>>
     \/ /\ ~ Balanced(Draft.ins, Draft.outs, request.fee)
        /\ Refuse("InvalidPlan")
  /\ UNCHANGED <<call, inputs, keys, sigs, shown, calls>>

(* Slip: only the last request to the generator is remembered. *)
FillFromSourceLast(b, ok) ==
  [drawn |-> b.drawn + 1, failed |-> ~ ok, weak |-> b.weak \/ ~ ok]

(* FallibleBlindingRng: once the generator failed it is not asked again,   *)
(* and what it would have filled is not random. The generator of the C     *)
(* interface, HashDrbg, does not fail.                                     *)
FillFromSource(b, ok) ==
  [drawn |-> b.drawn + 1, failed |-> b.failed \/ ~ ok, weak |-> b.weak \/ b.failed \/ ~ ok]

DrawBlinding ==
  /\ phase = "blind" /\ blinding.drawn < BlindDraws
  /\ \E ok \in BOOLEAN :
       /\ via = "ffi" => ok
       /\ blinding' = FillFromSource(blinding, ok)
  /\ UNCHANGED <<call, phase, layout, provided, signing, answer, calls>>

(* PreparedOrdinaryPset::blind and blind_immediately.                      *)
Blind ==
  /\ phase = "blind" /\ blinding.drawn = BlindDraws
  /\ \/ /\ ~ blinding.failed
        /\ phase' = "sign"
        /\ pset' = [ins |-> Draft.ins, outs |-> Draft.outs, fee |-> request.fee,
                    seed |-> entropy, weak |-> blinding.weak, witnessed |-> FALSE]
        /\ UNCHANGED <<answer, retained>>
     \/ Refuse("BlindingFailed")
  /\ UNCHANGED <<call, inputs, keys, sigs, shown, calls>>

-----------------------------------------------------------------------------
(* BlindedOrdinaryPset::sign_and_finalize. What callbacks may answer; a    *)
(* native signer returns typed keys and signatures.                        *)
KeyAnswers == {"owner", "refuse", "foreign",
               IF via = "ffi" THEN "malformed" ELSE "uncompressed"}
DigestAnswers == {"good", "refuse", "highS", "wrong"}
                 \cup (IF via = "ffi" THEN {"malformed", "overlong"} ELSE {})

KeyFault(a) ==
  CASE a = "foreign" -> "PublicKeyDoesNotOwnInput"
    [] a = "uncompressed" -> "UncompressedPublicKey"
    [] OTHER -> "PublicKeyUnavailable"

(* The sighash byte of a signature of 73 bytes lies behind the buffer.     *)
SignatureFault(a) ==
  CASE a = "wrong" -> "InvalidSignature"
    [] a = "highS" /\ via = "native" -> "NonCanonicalSignature"
    [] a = "overlong" -> "panic"
    [] OTHER -> "SignatureUnavailable"

Signable(p) == ~ p.witnessed

(* validate_signable_pset, before the signer is asked anything.            *)
StartSigning ==
  /\ phase = "sign"
  /\ \/ Signable(pset) /\ phase' = "keys" /\ UNCHANGED <<answer, pset, retained>>
     \/ ~ Signable(pset) /\ RefuseSigning("InvalidBlindedPset", pset)
  /\ UNCHANGED <<call, inputs, keys, sigs, shown, calls>>

(* Slip: an input's digest is asked for as soon as its key is known. *)
KeysSufficeForOne == keys > 0

(* Every key is accepted before the first digest.                          *)
KeysSuffice == keys = Len(pset.ins)

AskKey ==
  /\ phase = "keys" /\ ~ KeysSuffice
  /\ \E a \in KeyAnswers :
       /\ \/ /\ a = "owner"
             /\ keys' = keys + 1
             /\ UNCHANGED <<phase, answer, pset, retained>>
          \/ /\ a # "owner"
             /\ RefuseSigning(KeyFault(a), pset)
             /\ UNCHANGED keys
  /\ UNCHANGED <<call, inputs, sigs, shown, calls>>

AskDigest ==
  /\ phase = "keys" /\ KeysSuffice /\ sigs < Len(pset.ins)
  /\ \E a \in DigestAnswers :
       /\ shown' = shown \cup {[plan |-> request, pset |-> pset, input |-> sigs + 1]}
       /\ \/ /\ a = "good"
             /\ sigs' = sigs + 1
             /\ UNCHANGED <<phase, answer, pset, retained>>
          \/ /\ a # "good"
             /\ RefuseSigning(SignatureFault(a), pset)
             /\ UNCHANGED sigs
  /\ UNCHANGED <<call, inputs, keys, calls>>

(* Slip: the witnesses stay on the PSET that is handed back. *)
WithWitnesses(p) == p

WithoutWitnesses(p) == [p EXCEPT !.witnessed = FALSE]

(* Witnesses are put on the PSET and the whole is validated once more; if  *)
(* the library refuses it they are taken off again.                        *)
Finalize ==
  /\ phase = "keys" /\ sigs = Len(pset.ins)
  /\ LET final == [pset EXCEPT !.witnessed = TRUE] IN
       \/ /\ phase' = "publish" /\ pset' = final
          /\ UNCHANGED <<answer, retained>>
       \/ RefuseSigning("FinalizationFailed", WithoutWitnesses(final))
  /\ UNCHANGED <<call, inputs, keys, sigs, shown, calls>>

(* The native call returns the transaction; the C interface copies it if   *)
(* the caller's buffer is large enough.                                    *)
Publish ==
  /\ phase = "publish"
  /\ \/ Answer("OK", pset)
     \/ via = "ffi" /\ Answer("OUTPUT_CAPACITY", NoPset)
  /\ pset' = NoPset
  /\ UNCHANGED <<call, inputs, keys, sigs, retained, shown, calls>>

(* Slip: the retry is blinded anew. *)
RetryReblinded ==
  /\ phase = "idle" /\ calls < MaxCalls /\ retained # NoPset
  /\ phase' = "sign"
  /\ \E e \in Entropies : pset' = [retained EXCEPT !.seed = e]
  /\ retained' = NoPset
  /\ keys' = 0 /\ sigs' = 0
  /\ answer' = Pending
  /\ calls' = calls + 1
  /\ UNCHANGED <<call, inputs, shown>>

(* OrdinaryWalletTransactionFailure::into_retryable_blinded.               *)
Retry ==
  /\ phase = "idle" /\ calls < MaxCalls /\ retained # NoPset
  /\ phase' = "sign"
  /\ pset' = retained /\ retained' = NoPset
  /\ keys' = 0 /\ sigs' = 0
  /\ answer' = Pending
  /\ calls' = calls + 1
  /\ UNCHANGED <<call, inputs, shown>>

Step ==
  \/ Decode \/ Prepare \/ Build \/ LayOut \/ Open \/ Construct \/ DrawBlinding \/ Blind
  \/ StartSigning \/ AskKey \/ AskDigest \/ Finalize \/ Publish

Next ==
  \/ \E v \in {"native", "ffi"}, r \in Requests, e \in Entropies : Begin(v, r, e)
  \/ Retry
  \/ Step

Spec == Init /\ [][Next]_vars /\ WF_vars(Step)

-----------------------------------------------------------------------------
Phases == {"idle", "decode", "prepare", "build", "layout", "open", "blind", "sign", "keys", "publish"}

TypeOK ==
  /\ via \in {"native", "ffi"} /\ request \in Requests /\ entropy \in Entropies
  /\ phase \in Phases
  /\ layout = NoLayout \/ (/\ layout["ins"] \in Perms(Len(request.rows))
                           /\ layout["outs"] \in Perms(Len(request.outs)))
  /\ provided \in Seq(Outpoint)
  /\ blinding \in [drawn : 0..BlindDraws, failed : BOOLEAN, weak : BOOLEAN]
  /\ pset \in Pset \cup {NoPset} /\ retained \in Pset \cup {NoPset}
  /\ answer.transaction \in Pset \cup {NoPset}
  /\ \A d \in shown : d.plan \in Requests /\ d.pset \in Pset
  /\ keys \in Nat /\ sigs \in Nat
  /\ calls \in 0..MaxCalls

(* p spends exactly the rows of r and pays exactly its outputs, in some    *)
(* order, each row having the asset and the amount r expects of it.        *)
Carries(p, r) ==
  /\ \E x \in Perms(Len(r.rows)) :
       p.ins = [i \in DOMAIN r.rows |-> [at |-> r.rows[x[i]].at,
                  asset |-> r.rows[x[i]].asset, val |-> r.rows[x[i]].val]]
  /\ \E y \in Perms(Len(r.outs)) : p.outs = [i \in DOMAIN r.outs |-> r.outs[y[i]]]
  /\ p.fee = r.fee

(* p spends outputs the wallet owns and can open, each once, for what they *)
(* are, and pays in every asset what it spends.                            *)
Conserves(p) ==
  /\ \A i, j \in DOMAIN p.ins : p.ins[i].at = p.ins[j].at => i = j
  /\ \A i \in DOMAIN p.ins :
       LET o == Spent(p.ins[i].at) IN
       o.spk \in Catalog /\ Opens(o) /\ p.ins[i].asset = o.asset /\ p.ins[i].val = o.val
  /\ LET paid == Append(p.outs, p.fee) IN
       \A a \in AssetsOf(p.ins) \cup AssetsOf(paid) : Total(p.ins, a) = Total(paid, a)

(* Whatever the signer is asked, in any call or retry, is a digest of a    *)
(* transaction that carries the plan submitted to the unit and creates and *)
(* destroys nothing (sign_and_finalize gets only what was built from it).  *)
DigestIsOfThePlan == \A d \in shown : Carries(d.pset, d.plan) /\ Conserves(d.pset)

(* Nothing blinded with fallback bytes reaches the signer.                 *)
FallbackIsNeverSigned == \A d \in shown : ~ d.pset.weak

(* The provider is asked row by row in the order of the request, and never *)
(* for a plan that public facts refute; a plan whose outputs it has opened *)
(* is not refused as a plan any more.                                      *)
ProviderIsNotAskedInVain ==
  /\ provided = [i \in 1..Len(provided) |-> request.rows[i].at]
  /\ provided # << >> =>
       /\ Balanced(request.rows, request.outs, request.fee) /\ Prepared(request)
       /\ answer.reason # "InvalidPlan"

(* No digest is asked for before the key of every input is known to own    *)
(* it; a signer that lacks one key is never asked to sign.                 *)
NoDigestBeforeKeys == [][shown' # shown => keys = Len(pset.ins)]_vars

(* A retained PSET can be signed after any failure: retrying is never      *)
(* refused because of what the failed attempt left behind.                 *)
RetainedIsSignable == answer.reason # "InvalidBlindedPset"

(* The comment in sign_digest: the sighash byte follows the signature,     *)
(* inside the buffer of 73 bytes, so reading it does not panic.            *)
SighashByteIsInTheBuffer == answer.reason # "panic"

-----------------------------------------------------------------------------
Bare(p) == IF p = NoPset THEN << >> ELSE <<p.ins, p.outs, p.fee, p.seed>>

Abstract == INSTANCE SpendOnce WITH
  plan <- request,
  transaction <- Bare(IF pset # NoPset THEN pset ELSE retained),
  signed <- 1..sigs,
  answered <- phase = "idle",
  delivered <- Bare(answer.transaction)

(* A call delivers at most one transaction, of its own plan, and only when *)
(* every input of that very transaction is signed; a retry may only sign   *)
(* the same one; and every call ends.                                      *)
ImplementsSpendOnce == Abstract!Spec
=============================================================================
