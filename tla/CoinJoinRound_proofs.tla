------------------------ MODULE CoinJoinRound_proofs ------------------------
(***************************************************************************)
(* Safety of a CoinJoin round for any agreements, contexts, entropies and  *)
(* number of faults.  The argument: a signature that verifies was made by  *)
(* the owner of its input for a PSET with a digest that owner approved; a  *)
(* digest pins the transaction; a complete set covers every input; and     *)
(* every participant owns an input.  What is agreed is kept because the    *)
(* wire keeps the agreed outputs and their blinders, and because a digest  *)
(* also pins the previous outputs.  That an unchanged handoff balances is  *)
(* the sum of the blinding factors it leaves, worked out.                  *)
(***************************************************************************)
EXTENDS CoinJoinRound, SumTheorems, FiniteSetTheorems, TLAPS

-----------------------------------------------------------------------------
(* canonicalize_pset_state, hash_coinjoin_state: PSETs with one digest     *)
(* extract to one transaction, and the digest fixes the context.           *)
LEMMA DigestPinsTransaction ==
  ASSUME NEW p, NEW q, NEW c, NEW d, StateDigest(p, c) = StateDigest(q, d)
  PROVE  Extract(p) = Extract(q) /\ c = d
<1>1. c = d /\ Projection(p) = Projection(q)
  BY DEF StateDigest
<1>2. p.lock = q.lock
  BY <1>1 DEF Projection
<1>3. /\ DOMAIN p.ins = DOMAIN q.ins
      /\ \A i \in DOMAIN p.ins : p.ins[i].op = q.ins[i].op /\ p.ins[i].seq = q.ins[i].seq
  <2> DEFINE F(r) == [i \in DOMAIN r.ins |->
                       [op |-> r.ins[i].op, seq |-> r.ins[i].seq,
                        utxo |-> r.ins[i].utxo, rp |-> r.ins[i].rp]]
  <2>1. F(p) = F(q)
    BY <1>1 DEF Projection
  <2>2. DOMAIN F(p) = DOMAIN F(q)
    BY <2>1
  <2>3. \A i \in DOMAIN p.ins : F(p)[i].op = F(q)[i].op /\ F(p)[i].seq = F(q)[i].seq
    BY <2>1
  <2> QED BY <2>2, <2>3
<1>4. /\ DOMAIN p.outs = DOMAIN q.outs
      /\ \A j \in DOMAIN p.outs : /\ p.outs[j].spk = q.outs[j].spk
                                  /\ p.outs[j].amt = q.outs[j].amt
                                  /\ p.outs[j].blind = q.outs[j].blind
  <2> DEFINE G(r) == [j \in DOMAIN r.outs |->
                       [role |-> OutputRole(r.outs[j]), spk |-> r.outs[j].spk,
                        amt |-> r.outs[j].amt, blinder |-> r.outs[j].blinder,
                        blind |-> r.outs[j].blind]]
  <2>1. G(p) = G(q)
    BY <1>1 DEF Projection
  <2>2. DOMAIN G(p) = DOMAIN G(q)
    BY <2>1
  <2>3. \A j \in DOMAIN p.outs : /\ G(p)[j].spk = G(q)[j].spk
                                 /\ G(p)[j].amt = G(q)[j].amt
                                 /\ G(p)[j].blind = G(q)[j].blind
    BY <2>1
  <2> QED BY <2>2, <2>3
<1>5. Extract(p) = Extract(q)
  BY <1>2, <1>3, <1>4 DEF Extract
<1> QED BY <1>1, <1>5

(* CompleteSet: distinct indices of as many inputs as there are cover all. *)
LEMMA InjectionCovers ==
  ASSUME NEW n \in Nat, NEW f \in [1..n -> 1..n],
         \A s, t \in 1..n : f[s] = f[t] => s = t
  PROVE  \A i \in 1..n : \E s \in 1..n : f[s] = i
<1>1. IsFiniteSet(1..n)
  BY FS_Interval
<1>2. f \in Injection(1..n, 1..n)
  BY DEF Injection, IsInjective
<1>3. f \in Surjection(1..n, 1..n)
  BY <1>1, <1>2, FS_Injection
<1> QED BY <1>3 DEF Surjection

-----------------------------------------------------------------------------
(* A signature by x is for a transaction x approved and, unless somebody   *)
(* relabels contributions, made in the context its binding names.          *)
SignedIsApproved ==
  \A k \in contributions : k.sig.by # None =>
    /\ k.sig.by \in Participants
    /\ \E v \in approved[k.sig.by] :
         /\ Extract(v.pset) = k.sig.message.tx
         /\ "relabel" \notin Faults => v.context = k.binding.context

IInv == TypeOK /\ SignedIsApproved /\ FinalizedIsApproved /\ FinalizedInOneContext

(* The round starts in the invariant.                                      *)
LEMMA InitIInv == Init => IInv
BY RoundAssumption
DEF Init, IInv, TypeOK, SignedIsApproved, FinalizedIsApproved, FinalizedInOneContext,
    Participants

-----------------------------------------------------------------------------
(* One lemma for each action that touches what the invariant is about.     *)

LEMMA BlindingPreserves ==
  ASSUME IInv, UNCHANGED <<agreed, approved, contributions, finalized, faults>>,
         wire \subseteq wire', finals' \subseteq wire'
  PROVE  IInv'
BY DEF IInv, TypeOK, SignedIsApproved, FinalizedIsApproved, FinalizedInOneContext, Frozen

(* Op 6: a view is retained with its own digest.                           *)
LEMMA ApprovePreserves ==
  ASSUME IInv, NEW x \in Participants, NEW p \in wire, NEW c \in Contexts,
         ApproveView(x, p, c)
  PROVE  IInv'
<1> DEFINE view == [pset |-> p, context |-> c, digest |-> StateDigest(p, c)]
<1>1. /\ approved' = [approved EXCEPT ![x] = @ \cup {view}]
      /\ UNCHANGED <<agreed, wire, finals, contributions, finalized, faults>>
  BY DEF ApproveView
<1>2. \A y \in Participants : approved[y] \subseteq approved'[y]
  BY <1>1 DEF IInv, TypeOK
<1>3. TypeOK'
  <2>1. DOMAIN approved' = Participants
    BY <1>1 DEF IInv, TypeOK
  <2>2. ASSUME NEW y \in Participants, NEW v \in approved'[y]
        PROVE  v \in approved[y] \/ v = view
    BY <1>1, <2>2 DEF IInv, TypeOK
  <2>3. ASSUME NEW y \in Participants, NEW v \in approved'[y]
        PROVE  /\ v.pset \in wire'
               /\ v.context \in Contexts
               /\ v.digest = StateDigest(v.pset, v.context)
    BY <1>1, <2>2, <2>3 DEF IInv, TypeOK
  <2> QED BY <1>1, <2>1, <2>3 DEF IInv, TypeOK, Frozen
<1>4. SignedIsApproved'
  BY <1>1, <1>2 DEF IInv, SignedIsApproved
<1>5. FinalizedIsApproved' /\ FinalizedInOneContext'
  BY <1>1, <1>2 DEF IInv, FinalizedIsApproved, FinalizedInOneContext
<1> QED BY <1>3, <1>4, <1>5 DEF IInv

(* Op 11 accepts only a PSET with the digest of a view x approved.         *)
LEMMA SignPreserves ==
  ASSUME IInv, NEW x \in Participants, NEW p \in wire, NEW c \in Contexts,
         NEW d \in ApprovedDigests(x), SignOwned(x, p, c, d)
  PROVE  IInv'
<1> DEFINE made(i) == [binding |-> Binding(p, c, d, Authorized), index |-> i,
                       key |-> Authorized[i].key,
                       sig |-> [by |-> x, message |-> InputDigest(p, i)]]
<1>1. /\ contributions' = contributions \cup {made(i) : i \in OwnInputs(x)}
      /\ UNCHANGED <<agreed, wire, finals, approved, finalized, faults>>
      /\ StateDigest(p, c) = d
  BY DEF SignOwned, AcceptsSigning
<1>2. PICK v \in approved[x] : v.digest = d
  BY DEF ApprovedDigests
<1>3. Extract(v.pset) = Extract(p) /\ v.context = c
  <2>1. StateDigest(v.pset, v.context) = StateDigest(p, c)
    BY <1>1, <1>2 DEF IInv, TypeOK
  <2> QED BY <2>1, DigestPinsTransaction
<1>4. ASSUME NEW i \in OwnInputs(x)
      PROVE  /\ made(i).index \in DOMAIN Frozen.ins
             /\ made(i).key = Frozen.ins[i].utxo.spk
             /\ made(i).sig.by = made(i).key
             /\ made(i).binding.pset \in wire
             /\ made(i).sig.message.tx = Extract(p)
             /\ made(i).binding.context = c
  BY <1>4 DEF OwnInputs, Authorized, Binding, InputDigest
<1>5. TypeOK'
  BY <1>1, <1>4 DEF IInv, TypeOK, Frozen
<1>6. SignedIsApproved'
  BY <1>1, <1>2, <1>3, <1>4 DEF IInv, SignedIsApproved
<1>7. FinalizedIsApproved' /\ FinalizedInOneContext'
  BY <1>1 DEF IInv, FinalizedIsApproved, FinalizedInOneContext
<1> QED BY <1>5, <1>6, <1>7 DEF IInv

(* Op 12: every participant owns an input, and that input's signature is   *)
(* one it made for a PSET with this transaction.                           *)
LEMMA AssembledIsApproved ==
  ASSUME IInv, NEW p, NEW c, NEW d,
         NEW submitted \in [DOMAIN Authorized -> contributions],
         CompleteSet(p, Binding(p, c, d, Authorized), submitted),
         NEW x \in Participants
  PROVE  \E v \in approved[x] : /\ Extract(v.pset) = Extract(p)
                                /\ "relabel" \notin Faults => v.context = c
<1> DEFINE n == Len(Frozen.ins)
<1>1. PICK i \in DOMAIN Frozen.ins : Frozen.ins[i].utxo.spk = x
  BY RoundAssumption DEF IInv, TypeOK, Frozen
<1>2. Frozen.ins \in Seq(PsetInput)
  BY RoundAssumption DEF IInv, TypeOK, Frozen, Pset
<1>3. n \in Nat /\ DOMAIN Frozen.ins = 1..n /\ DOMAIN Authorized = 1..n
  BY <1>2 DEF Authorized
<1>4. PICK s \in 1..n : submitted[s].index = i
  <2> DEFINE f == [s \in 1..n |-> submitted[s].index]
  <2>1. f \in [1..n -> 1..n] /\ \A s, t \in 1..n : f[s] = f[t] => s = t
    BY <1>3 DEF CompleteSet
  <2>2. n \in Nat /\ i \in 1..n
    BY <1>1, <1>3
  <2> HIDE DEF f, n
  <2>3. \A j \in 1..n : \E s \in 1..n : f[s] = j
    BY <2>1, <2>2, InjectionCovers
  <2>4. PICK s \in 1..n : f[s] = i
    BY <2>2, <2>3
  <2> QED BY <2>4 DEF f
<1> DEFINE k == submitted[s]
<1>5. k \in contributions /\ k.index = i /\ s \in DOMAIN submitted
  BY <1>3, <1>4
<1>6. /\ k.key = Authorized[i].key
      /\ k.sig.by = k.key
      /\ k.sig.message = InputDigest(p, i)
      /\ k.binding = Binding(p, c, d, Authorized)
  BY <1>5 DEF CompleteSet, SignatureVerifies
<1>7. k.sig.by = x
  BY <1>1, <1>6 DEF Authorized
<1>8. x # None
  BY RoundAssumption
<1>9. k.sig.message.tx = Extract(p) /\ k.binding.context = c
  BY <1>6 DEF InputDigest, Binding
<1> QED BY <1>5, <1>7, <1>8, <1>9 DEF IInv, SignedIsApproved

(* Op 12.                                                                  *)
LEMMA AssemblePreserves ==
  ASSUME IInv, NEW p \in wire, NEW c \in Contexts, NEW d, Assemble(p, c, d)
  PROVE  IInv'
<1> DEFINE out == [tx |-> Extract(p), context |-> c]
<1>1. /\ finalized' = finalized \cup {out}
      /\ UNCHANGED <<agreed, wire, finals, approved, contributions, faults>>
  BY DEF Assemble
<1>2. \A x \in Participants :
        \E v \in approved[x] : /\ Extract(v.pset) = out.tx
                               /\ "relabel" \notin Faults => v.context = out.context
  <2>1. PICK submitted \in [DOMAIN Authorized -> contributions] :
          CompleteSet(p, Binding(p, c, d, Authorized), submitted)
    BY DEF Assemble
  <2> QED BY <2>1, AssembledIsApproved
<1>3. TypeOK'
  BY <1>1 DEF IInv, TypeOK, Frozen
<1>4. SignedIsApproved'
  BY <1>1 DEF IInv, SignedIsApproved
<1>5. FinalizedIsApproved' /\ FinalizedInOneContext'
  BY <1>1, <1>2 DEF IInv, FinalizedIsApproved, FinalizedInOneContext
<1> QED BY <1>3, <1>4, <1>5 DEF IInv

(* A changed PSET is one more on the wire.                                 *)
LEMMA DriftPreserves ==
  ASSUME IInv, NEW p \in wire, DriftPset(p)
  PROVE  IInv'
<1>1. /\ wire \subseteq wire' /\ faults' \in 0..MaxFaults
      /\ UNCHANGED <<agreed, finals, approved, contributions, finalized>>
  BY RoundAssumption DEF DriftPset, Fault, IInv, TypeOK
<1> QED
  BY <1>1 DEF IInv, TypeOK, SignedIsApproved, FinalizedIsApproved, FinalizedInOneContext,
              Frozen

(* A relabelled contribution keeps its signature, a garbled one loses it.  *)
LEMMA ContributionFaultPreserves ==
  ASSUME IInv, NEW k \in contributions, RelabelContribution(k) \/ GarbleContribution(k)
  PROVE  IInv'
<1>1. PICK new : /\ contributions' = contributions \cup {new}
                 /\ new.index = k.index /\ new.key = k.key
                 /\ \/ /\ "relabel" \in Faults
                       /\ \E l \in contributions : new.binding = l.binding
                       /\ new.sig = k.sig
                    \/ new.sig.by = None /\ new.binding = k.binding
  <2>1. CASE RelabelContribution(k)
    <3>1. PICK l \in contributions :
            contributions' = contributions \cup
              {[binding |-> l.binding, index |-> k.index, key |-> k.key, sig |-> k.sig]}
      BY <2>1 DEF RelabelContribution
    <3>2. "relabel" \in Faults
      BY <2>1 DEF RelabelContribution, Fault
    <3> WITNESS [binding |-> l.binding, index |-> k.index, key |-> k.key, sig |-> k.sig]
    <3> QED BY <3>1, <3>2
  <2>2. CASE GarbleContribution(k)
    <3> WITNESS [binding |-> k.binding, index |-> k.index, key |-> k.key,
                 sig |-> [by |-> None, message |-> k.sig.message]]
    <3> QED BY <2>2 DEF GarbleContribution
  <2>3. RelabelContribution(k) \/ GarbleContribution(k)
    OBVIOUS
  <2> QED BY <2>1, <2>2, <2>3
<1>2. /\ faults' \in 0..MaxFaults
      /\ UNCHANGED <<agreed, wire, finals, approved, finalized>>
  BY RoundAssumption DEF RelabelContribution, GarbleContribution, Fault, IInv, TypeOK
<1>3. /\ new.index \in DOMAIN Frozen.ins
      /\ new.key = Frozen.ins[new.index].utxo.spk
      /\ new.sig.by \in {new.key, None}
      /\ new.binding.pset \in wire
  BY <1>1 DEF IInv, TypeOK
<1>4. new.sig.by # None =>
        /\ new.sig.by \in Participants
        /\ \E v \in approved[new.sig.by] :
             /\ Extract(v.pset) = new.sig.message.tx
             /\ "relabel" \notin Faults => v.context = new.binding.context
  BY <1>1 DEF IInv, SignedIsApproved
<1>5. TypeOK'
  BY <1>1, <1>2, <1>3 DEF IInv, TypeOK, Frozen
<1>6. SignedIsApproved'
  BY <1>1, <1>2, <1>4 DEF IInv, SignedIsApproved
<1>7. FinalizedIsApproved' /\ FinalizedInOneContext'
  BY <1>2 DEF IInv, FinalizedIsApproved, FinalizedInOneContext
<1> QED BY <1>5, <1>6, <1>7 DEF IInv

(* No step leaves the invariant.                                           *)
LEMMA NextIInv == IInv /\ [Next]_vars => IInv'
<1> SUFFICES ASSUME IInv, [Next]_vars PROVE IInv'
  OBVIOUS
<1>1. CASE \E e \in Entropies : BlindNonLast(e)
  <2>1. /\ UNCHANGED <<agreed, approved, contributions, finalized, faults>>
        /\ wire \subseteq wire' /\ finals' \subseteq wire'
    BY <1>1 DEF BlindNonLast, IInv, TypeOK
  <2> QED BY <2>1, BlindingPreserves
<1>2. CASE \E h \in wire, e \in Entropies : BlindLast(h, e)
  <2>1. /\ UNCHANGED <<agreed, approved, contributions, finalized, faults>>
        /\ wire \subseteq wire' /\ finals' \subseteq wire'
    BY <1>2 DEF BlindLast, IInv, TypeOK
  <2> QED BY <2>1, BlindingPreserves
<1>3. CASE \E x \in Participants, p \in wire, c \in Contexts : ApproveView(x, p, c)
  BY <1>3, ApprovePreserves
<1>4. CASE Sign
  BY <1>4, SignPreserves DEF Sign
<1>5. CASE AssembleAny
  BY <1>5, AssemblePreserves DEF AssembleAny
<1>6. CASE \E p \in wire : DriftPset(p)
  BY <1>6, DriftPreserves
<1>7. CASE \E k \in contributions : RelabelContribution(k) \/ GarbleContribution(k)
  BY <1>7, ContributionFaultPreserves
<1>8. CASE UNCHANGED vars
  BY <1>8 DEF vars, IInv, TypeOK, SignedIsApproved, FinalizedIsApproved,
              FinalizedInOneContext, Frozen
<1> QED BY <1>1, <1>2, <1>3, <1>4, <1>5, <1>6, <1>7, <1>8 DEF Next, Call

(* The invariant of approvals and signatures.                              *)
LEMMA Invariance == Spec => []IInv
<1>1. Init => IInv
  BY InitIInv
<1>2. IInv /\ [Next]_vars => IInv'
  BY NextIInv
<1> QED BY <1>1, <1>2, PTL DEF Spec

-----------------------------------------------------------------------------
(* What a participant holds came over the wire and carries its own digest. *)
THEOREM TypeCorrect == Spec => []TypeOK
<1>1. IInv => TypeOK
  BY DEF IInv
<1> QED BY <1>1, Invariance, PTL

(* assemble_signatures: a finalized transaction was approved by everybody, *)
(* whatever the transport does to PSETs and contributions.                 *)
THEOREM ApprovedByAll == Spec => []FinalizedIsApproved
<1>1. IInv => FinalizedIsApproved
  BY DEF IInv
<1> QED BY <1>1, Invariance, PTL

(* The FFI binding keeps the contexts of one round apart.                  *)
THEOREM OneContext == Spec => []FinalizedInOneContext
<1>1. IInv => FinalizedInOneContext
  BY DEF IInv
<1> QED BY <1>1, Invariance, PTL

-----------------------------------------------------------------------------
(* The round implements the abstract joint spend: approving a view is      *)
(* consenting to its transaction, and everything before op 12 a stutter.   *)
LEMMA StepSimulates ==
  IInv /\ IInv' /\ [Next]_vars
    => [Abstract!Next]_<<[x \in Participants |-> {Extract(v.pset) : v \in approved[x]}],
                         {f.tx : f \in finalized}>>
<1> DEFINE con == [x \in Participants |-> {Extract(v.pset) : v \in approved[x]}]
           spent == {f.tx : f \in finalized}
<1> SUFFICES ASSUME IInv, IInv', [Next]_vars
             PROVE  Abstract!Next \/ (con' = con /\ spent' = spent)
  OBVIOUS
<1>1. ASSUME UNCHANGED <<approved, finalized>>
      PROVE  con' = con /\ spent' = spent
  BY <1>1
<1>2. CASE \E x \in Participants, p \in wire, c \in Contexts : ApproveView(x, p, c)
  <2>1. PICK x \in Participants, p \in wire, c \in Contexts : ApproveView(x, p, c)
    BY <1>2
  <2> DEFINE view == [pset |-> p, context |-> c, digest |-> StateDigest(p, c)]
  <2>2. approved' = [approved EXCEPT ![x] = @ \cup {view}] /\ finalized' = finalized
    BY <2>1 DEF ApproveView
  <2>3. \A y \in Participants :
          approved'[y] = IF y = x THEN approved[y] \cup {view} ELSE approved[y]
    BY <2>2 DEF IInv, TypeOK
  <2>4. con' = [con EXCEPT ![x] = @ \cup {Extract(p)}]
    <3>1. {Extract(v.pset) : v \in approved[x] \cup {view}}
            = {Extract(v.pset) : v \in approved[x]} \cup {Extract(p)}
      <4>1. view.pset = p
        OBVIOUS
      <4> HIDE DEF view
      <4> QED BY <4>1
    <3> QED BY <2>3, <3>1
  <2>5. Extract(p) \in con'[x]
    BY <2>4
  <2> QED BY <2>2, <2>4, <2>5 DEF Abstract!Next, Abstract!Consent
<1>3. CASE AssembleAny
  <2>1. PICK p \in wire, c \in Contexts,
              d \in ApprovedDigests("A") \cup ApprovedDigests("B") : Assemble(p, c, d)
    BY <1>3 DEF AssembleAny
  <2> DEFINE out == [tx |-> Extract(p), context |-> c]
  <2>2. finalized' = finalized \cup {out} /\ approved' = approved
    BY <2>1 DEF Assemble
  <2>3. spent' = spent \cup {Extract(p)} /\ con' = con
    <3>1. out.tx = Extract(p)
      OBVIOUS
    <3> HIDE DEF out
    <3> QED BY <2>2, <3>1
  <2>4. \A x \in Participants : Extract(p) \in con[x]
    <3>1. out \in finalized' /\ out.tx = Extract(p)
      BY <2>2
    <3>2. \A x \in Participants : \E v \in approved'[x] : Extract(v.pset) = out.tx
      BY <3>1 DEF IInv, FinalizedIsApproved
    <3> QED BY <2>2, <3>1, <3>2
  <2> QED BY <2>3, <2>4 DEF Abstract!Next, Abstract!Spend
<1>4. CASE UNCHANGED vars
  BY <1>1, <1>4 DEF vars
<1> QED
  BY <1>1, <1>2, <1>3, <1>4
  DEF Next, Call, BlindNonLast, BlindLast, Sign, SignOwned, DriftPset, RelabelContribution,
      GarbleContribution, Fault

(* The detailed round implements JointSpend.                               *)
THEOREM Refinement == Spec => ImplementsJointSpend
<1>1. Init => Abstract!Init
  BY DEF Init, Abstract!Init
<1>2. IInv /\ IInv' /\ [Next]_vars
        => [Abstract!Next]_<<[x \in Participants |-> {Extract(v.pset) : v \in approved[x]}],
                             {f.tx : f \in finalized}>>
  BY StepSimulates
<1> QED BY <1>1, <1>2, Invariance, PTL DEF Spec, ImplementsJointSpend, Abstract!Spec

-----------------------------------------------------------------------------
(* Residual: what is taken and what is left make up what was given, up to  *)
(* a multiple of the order.                                                *)
LEMMA ResidualMakesUp ==
  ASSUME NEW given \in Nat, NEW taken \in Nat
  PROVE  /\ Residual(given, taken) \in Nat
         /\ \E q \in Int : Residual(given, taken) + taken = given + Order * q
<1> DEFINE t == taken % Order
           a == given + Order - t
           r == a % Order
<1>1. Order \in Nat \ {0} /\ taken \in Int
  BY BoundsAssumption
<1>2. PICK k \in Int : taken = t + Order * k
  BY <1>1, RemainderIsOff
<1>3. t \in Nat /\ t < Order
  BY <1>1, RemainderIsOff
<1>4. a \in Nat
  BY <1>1, <1>3
<1>5. r \in 0..(Order - 1) /\ \E l \in Int : a = r + Order * l
  <2>1. a \in Int
    BY <1>4
  <2> HIDE DEF a
  <2> QED BY <1>1, <2>1, RemainderIsOff
<1>6. PICK l \in Int : a = r + Order * l
  BY <1>5
<1>7. r + taken = given + Order * (1 + k - l)
  <2>1. a = given + Order - t
    OBVIOUS
  <2>2. r \in Int
    BY <1>5
  <2> HIDE DEF a, r, t
  <2>3. r = given + Order - t - Order * l /\ taken = t + Order * k
    BY <1>1, <1>2, <1>3, <1>4, <1>6, <2>1, <2>2
  <2>4. Order * (1 + k - l) = Order + Order * k - Order * l
    BY <1>1
  <2>5. Order * k \in Int /\ Order * l \in Int
    BY <1>1
  <2> QED BY <1>1, <1>3, <2>3, <2>4, <2>5
<1>8. Residual(given, taken) = r
  BY DEF Residual
<1>9. 1 + k - l \in Int
  OBVIOUS
<1>10. r \in Nat
  BY <1>1, <1>5
<1> HIDE DEF r
<1> QED BY <1>7, <1>8, <1>9, <1>10

(* A sequence has finitely many elements.                                  *)
LEMMA DomainIsFinite ==
  ASSUME NEW S, NEW s \in Seq(S)
  PROVE  IsFiniteSet(DOMAIN s)
<1>1. Len(s) \in Nat /\ DOMAIN s = 1..Len(s)
  OBVIOUS
<1> DEFINE n == Len(s)
<1> HIDE DEF n
<1>2. n \in Int /\ 1 \in Int
  BY <1>1 DEF n
<1>3. IsFiniteSet(1..n)
  BY <1>2, FS_Interval
<1> QED BY <1>1, <1>3 DEF n

(* The fields of a PSET.                                                   *)
LEMMA PsetFields ==
  ASSUME NEW p \in Pset
  PROVE  /\ p.ins \in Seq(PsetInput) /\ p.outs \in Seq(PsetOutput)
         /\ p.scalars \in Seq(Nat) /\ p.lock \in Nat \cup {None}
         /\ Len(p.ins) \in Nat /\ DOMAIN p.ins = 1..Len(p.ins)
         /\ Len(p.outs) \in Nat /\ DOMAIN p.outs = 1..Len(p.outs)
         /\ \A i \in DOMAIN p.ins : p.ins[i] \in PsetInput
         /\ \A j \in DOMAIN p.outs : p.outs[j] \in PsetOutput
         /\ IsFiniteSet(DOMAIN p.ins) /\ IsFiniteSet(DOMAIN p.outs)
<1>1. /\ p.ins \in Seq(PsetInput) /\ p.outs \in Seq(PsetOutput)
      /\ p.scalars \in Seq(Nat) /\ p.lock \in Nat \cup {None}
  BY DEF Pset
<1>2. IsFiniteSet(DOMAIN p.ins) /\ IsFiniteSet(DOMAIN p.outs)
  BY <1>1, DomainIsFinite
<1> QED BY <1>1, <1>2

(* A function on 1..n is a sequence of length n.                           *)
LEMMA IsSequence ==
  ASSUME NEW n \in Nat, NEW S, NEW f, f = [j \in 1..n |-> f[j]], \A j \in 1..n : f[j] \in S
  PROVE  f \in Seq(S) /\ Len(f) = n
OBVIOUS

(* A blinded output is one, differs in nothing else and carries proofs.    *)
LEMMA BlindedOutputType ==
  ASSUME NEW p \in Pset, NEW j \in DOMAIN p.outs, NEW bf \in Nat
  PROVE  /\ BlindedOutput(p, j, bf) \in PsetOutput
         /\ BlindedOutput(p, j, bf).blind \in Blinding
         /\ BlindedOutput(p, j, bf).spk = p.outs[j].spk
         /\ BlindedOutput(p, j, bf).amt = p.outs[j].amt
         /\ BlindedOutput(p, j, bf).blinder = p.outs[j].blinder
         /\ BlindedOutput(p, j, bf).blind
              = [com |-> [amt |-> p.outs[j].amt, bf |-> bf],
                 rp  |-> [amt |-> p.outs[j].amt, bf |-> bf, spk |-> p.outs[j].spk],
                 dom |-> Generators(Utxos(p))]
<1>1. p.outs[j] \in PsetOutput
  BY PsetFields
<1>2. Generators(Utxos(p)) \in Seq(Nat)
  <2>1. \A i \in DOMAIN p.ins : p.ins[i].utxo.bf \in Nat
    BY PsetFields DEF PsetInput, Utxo
  <2>2. Generators(Utxos(p)) = [i \in 1..Len(p.ins) |-> p.ins[i].utxo.bf]
    BY PsetFields DEF Generators, Utxos
  <2>3. Len(p.ins) \in Nat /\ DOMAIN p.ins = 1..Len(p.ins)
    BY PsetFields
  <2> QED BY <2>1, <2>2, <2>3
<1> DEFINE b == [com |-> [amt |-> p.outs[j].amt, bf |-> bf],
                 rp  |-> [amt |-> p.outs[j].amt, bf |-> bf, spk |-> p.outs[j].spk],
                 dom |-> Generators(Utxos(p))]
<1>3. b \in Blinding
  BY <1>1, <1>2 DEF Blinding, PsetOutput
<1>4. BlindedOutput(p, j, bf) = [p.outs[j] EXCEPT !.blind = b]
  BY DEF BlindedOutput
<1> HIDE DEF b
<1>5. /\ BlindedOutput(p, j, bf) \in PsetOutput
      /\ BlindedOutput(p, j, bf).spk = p.outs[j].spk
      /\ BlindedOutput(p, j, bf).amt = p.outs[j].amt
      /\ BlindedOutput(p, j, bf).blinder = p.outs[j].blinder
      /\ BlindedOutput(p, j, bf).blind = b
  BY <1>1, <1>3, <1>4 DEF PsetOutput
<1>6. BlindedOutput(p, j, bf).blind \in Blinding
  BY <1>3, <1>5
<1> QED BY <1>5, <1>6 DEF b

(* Input secrets as a participant may pass them.                           *)
IsSecrets(p, s) ==
  /\ DOMAIN s \subseteq DOMAIN p.ins
  /\ \A i \in DOMAIN s : s[i].amt \in Nat /\ s[i].bf \in Nat

(* SecretSum is the sum of the blinding factors but for the order.         *)
LEMMA SecretSumType ==
  ASSUME NEW p \in Pset, NEW s, IsSecrets(p, s)
  PROVE  /\ SecretSum(s) \in Nat
         /\ \E q \in Int :
              SecretSum(s) = SumFunctionOnSet([i \in DOMAIN s |-> s[i].bf], DOMAIN s) + Order * q
<1> DEFINE f == [i \in DOMAIN s |-> s[i].bf]
           n == SumFunctionOnSet(f, DOMAIN s)
<1>1. IsFiniteSet(DOMAIN s)
  <2>1. IsFiniteSet(DOMAIN p.ins)
    BY PsetFields
  <2> QED BY <2>1, FS_Subset DEF IsSecrets
<1>2. n \in Nat
  <2>1. \A i \in DOMAIN s : f[i] \in Nat
    BY DEF IsSecrets
  <2> HIDE DEF f
  <2> QED BY <1>1, <2>1, SumOfNaturals
<1>3. SecretSum(s) = n % Order
  <2>1. DOMAIN f = DOMAIN s
    OBVIOUS
  <2>2. SecretSum(s) = SumFunction(f) % Order
    BY DEF SecretSum
  <2> HIDE DEF f
  <2> QED BY <2>1, <2>2 DEF SumFunction
<1> HIDE DEF n
<1>4. Order \in Nat \ {0} /\ n \in Int
  BY <1>2, BoundsAssumption
<1>5. n % Order \in 0..(Order - 1)
  BY <1>4, RemainderIsOff
<1>6. PICK q \in Int : n = (n % Order) + Order * q
  BY <1>4, RemainderIsOff
<1> DEFINE r == n % Order
<1>7. r = n + Order * (0 - q)
  <2>1. r \in Int /\ n = r + Order * q
    BY <1>4, <1>5, <1>6
  <2> HIDE DEF r
  <2> QED BY <1>4, <2>1
<1>8. 0 - q \in Int /\ n % Order \in Nat
  BY <1>4, <1>5
<1> QED BY <1>3, <1>7, <1>8 DEF n

-----------------------------------------------------------------------------
(* What both blinding steps make of a PSET: js are blinded, the scalars    *)
(* replaced.                                                               *)
Blinded(p, js, bf, scalars) ==
  [p EXCEPT !.outs = [j \in DOMAIN p.outs |->
                        IF j \in js THEN BlindedOutput(p, j, bf[j]) ELSE p.outs[j]],
            !.scalars = scalars]

(* Blinding leaves everything but the outputs blinded and the scalars.     *)
LEMMA BlindedType ==
  ASSUME NEW p \in Pset, NEW js, NEW bf, NEW scalars \in Seq(Nat),
         \A j \in js : bf[j] \in Nat
  PROVE  LET q == Blinded(p, js, bf, scalars) IN
         /\ q \in Pset
         /\ q.ins = p.ins /\ q.lock = p.lock /\ q.scalars = scalars
         /\ Len(q.outs) = Len(p.outs) /\ DOMAIN q.outs = DOMAIN p.outs
         /\ \A j \in DOMAIN p.outs :
              /\ q.outs[j] = IF j \in js THEN BlindedOutput(p, j, bf[j]) ELSE p.outs[j]
              /\ q.outs[j].blinder = p.outs[j].blinder
<1> DEFINE outs == [j \in DOMAIN p.outs |->
                      IF j \in js THEN BlindedOutput(p, j, bf[j]) ELSE p.outs[j]]
           q == Blinded(p, js, bf, scalars)
<1>1. /\ \A j \in DOMAIN p.outs : outs[j] \in PsetOutput
      /\ \A j \in DOMAIN p.outs : outs[j].blinder = p.outs[j].blinder
  BY BlindedOutputType, PsetFields
<1>2. DOMAIN outs = DOMAIN p.outs
  OBVIOUS
<1>3. \A j \in DOMAIN p.outs :
        outs[j] = IF j \in js THEN BlindedOutput(p, j, bf[j]) ELSE p.outs[j]
  OBVIOUS
<1>4. q = [p EXCEPT !.outs = outs, !.scalars = scalars]
  BY DEF Blinded
<1>5. outs = [j \in 1..Len(p.outs) |-> outs[j]] /\ Len(p.outs) \in Nat
  BY PsetFields
<1> HIDE DEF outs, q
<1>6. outs \in Seq(PsetOutput) /\ Len(outs) = Len(p.outs)
  <2>1. \A j \in 1..Len(p.outs) : outs[j] \in PsetOutput
    BY <1>1, PsetFields
  <2> QED BY <1>5, <2>1, IsSequence
<1>7. q \in Pset /\ q.ins = p.ins /\ q.lock = p.lock /\ q.scalars = scalars /\ q.outs = outs
  BY <1>4, <1>6 DEF Pset
<1> QED BY <1>1, <1>2, <1>3, <1>6, <1>7 DEF q

(* Op 4's blinding.                                                        *)
LEMMA NonLastIsBlinded ==
  ASSUME NEW p \in Pset, NEW s, IsSecrets(p, s), NEW e \in Nat
  PROVE  LET js == ToBlind(p, s)
             bf == [j \in js |-> e]
             left == Residual(SecretSum(s), Cardinality(js) * e)
         IN  /\ \A j \in js : bf[j] \in Nat
             /\ left \in Nat /\ Append(p.scalars, left) \in Seq(Nat)
             /\ ForkBlindNonLast(p, s, e)
                  = IF js = {} THEN p ELSE Blinded(p, js, bf, Append(p.scalars, left))
<1> DEFINE js == ToBlind(p, s)
           bf == [j \in js |-> e]
           left == Residual(SecretSum(s), Cardinality(js) * e)
<1>1. \A j \in js : bf[j] = e
  OBVIOUS
<1>2. IsFiniteSet(js)
  <2>1. js \subseteq DOMAIN p.outs
    BY DEF ToBlind
  <2> QED BY <2>1, PsetFields, FS_Subset
<1>3. left \in Nat
  <2> DEFINE k == Cardinality(js)
  <2>1. k \in Nat
    BY <1>2, FS_CardinalityType
  <2>2. k * e \in Nat
    <3> HIDE DEF k
    <3> QED BY <2>1
  <2>3. SecretSum(s) \in Nat
    BY SecretSumType
  <2> QED BY <2>2, <2>3, ResidualMakesUp
<1>4. Append(p.scalars, left) \in Seq(Nat)
  BY <1>3, PsetFields
<1>5. ForkBlindNonLast(p, s, e)
        = IF js = {} THEN p ELSE Blinded(p, js, bf, Append(p.scalars, left))
  <2>1. CASE js = {}
    BY <2>1 DEF ForkBlindNonLast
  <2>2. CASE js # {}
    <3>1. ForkBlindNonLast(p, s, e)
            = [p EXCEPT
                !.outs = [j \in DOMAIN p.outs |->
                           IF j \in js THEN BlindedOutput(p, j, e) ELSE p.outs[j]],
                !.scalars = Append(p.scalars, left)]
      BY <2>2 DEF ForkBlindNonLast
    <3>2. [j \in DOMAIN p.outs |-> IF j \in js THEN BlindedOutput(p, j, e) ELSE p.outs[j]]
            = [j \in DOMAIN p.outs |-> IF j \in js THEN BlindedOutput(p, j, bf[j]) ELSE p.outs[j]]
      BY <1>1
    <3> HIDE DEF js, bf, left
    <3> QED BY <2>2, <3>1, <3>2 DEF Blinded
  <2> QED BY <2>1, <2>2
<1> QED BY <1>1, <1>3, <1>4, <1>5

(* The output that takes the residual.                                     *)
LastOf(js) == CHOOSE j \in js : \A k \in js : k <= j

(* Op 5's blinding.                                                        *)
LEMMA LastIsBlinded ==
  ASSUME NEW p \in Pset, NEW s, IsSecrets(p, s), NEW e \in Nat
  PROVE  LET js == ToBlind(p, s)
             owed == SecretSum(s) + SumFunction(p.scalars)
             made == Residual(owed, (Cardinality(js) - 1) * e)
             bf == [j \in js |-> IF j = LastOf(js) THEN made ELSE e]
         IN  /\ js # {} => (Cardinality(js) - 1) * e \in Nat
             /\ owed \in Nat
             /\ js # {} => made \in Nat
             /\ \A j \in js : bf[j] \in Nat
             /\ ForkBlindLast(p, s, e) = Blinded(p, js, bf, << >>)
<1> DEFINE js == ToBlind(p, s)
           owed == SecretSum(s) + SumFunction(p.scalars)
           made == Residual(owed, (Cardinality(js) - 1) * e)
           bf == [j \in js |-> IF j = LastOf(js) THEN made ELSE e]
<1>1. IsFiniteSet(js)
  <2>1. js \subseteq DOMAIN p.outs
    BY DEF ToBlind
  <2> QED BY <2>1, PsetFields, FS_Subset
<1>2. js # {} => (Cardinality(js) - 1) * e \in Nat
  <2> DEFINE k == Cardinality(js)
  <2>1. k \in Nat /\ (js # {} => k # 0)
    BY <1>1, FS_CardinalityType, FS_EmptySet
  <2> HIDE DEF k, js
  <2>2. k # 0 => (k - 1) * e \in Nat
    <3>1. k # 0 => k - 1 \in Nat
      BY <2>1
    <3> DEFINE l == k - 1
    <3>2. l \in Nat => l * e \in Nat
      <4> HIDE DEF l
      <4> QED OBVIOUS
    <3> QED BY <3>1, <3>2
  <2> QED BY <2>1, <2>2 DEF k
<1>3. owed \in Nat
  <2>1. SecretSum(s) \in Nat
    BY SecretSumType
  <2>2. SumFunction(p.scalars) \in Nat
    <3>1. /\ IsFiniteSet(DOMAIN p.scalars)
          /\ \A i \in DOMAIN p.scalars : p.scalars[i] \in Nat
      <4>1. p.scalars \in Seq(Nat)
        BY PsetFields
      <4>2. IsFiniteSet(DOMAIN p.scalars)
        BY <4>1, DomainIsFinite
      <4> QED BY <4>1, <4>2
    <3> QED BY <3>1, SumOfNaturals DEF SumFunction
  <2> QED BY <2>1, <2>2
<1>4. js # {} => made \in Nat
  BY <1>2, <1>3, ResidualMakesUp
<1>5. \A j \in js : bf[j] \in Nat
  <2> HIDE DEF made, js
  <2> QED BY <1>4
<1>6. ForkBlindLast(p, s, e) = Blinded(p, js, bf, << >>)
  <2> DEFINE b(j) == IF j = LastOf(js) THEN made ELSE e
  <2>1. ForkBlindLast(p, s, e)
          = [p EXCEPT
              !.outs = [j \in DOMAIN p.outs |->
                         IF j \in js THEN BlindedOutput(p, j, b(j)) ELSE p.outs[j]],
              !.scalars = << >>]
    BY DEF ForkBlindLast, LastOf
  <2>2. \A j \in js : bf[j] = b(j)
    <3> HIDE DEF made, js
    <3> QED OBVIOUS
  <2> HIDE DEF b, bf
  <2>3. [j \in DOMAIN p.outs |-> IF j \in js THEN BlindedOutput(p, j, b(j)) ELSE p.outs[j]]
          = [j \in DOMAIN p.outs |-> IF j \in js THEN BlindedOutput(p, j, bf[j]) ELSE p.outs[j]]
    BY <2>2
  <2> QED BY <2>1, <2>3 DEF Blinded
<1> QED BY <1>2, <1>3, <1>4, <1>5, <1>6

-----------------------------------------------------------------------------
(* q has no output p has not, and its blinder indices; it is blinded only  *)
(* where p is.                                                             *)
KeepsShape(q, p) ==
  /\ q \in Pset
  /\ Len(q.outs) <= Len(p.outs)
  /\ Len(q.outs) = Len(p.outs)
       => \A j \in DOMAIN p.outs : q.outs[j].blinder = p.outs[j].blinder

IsBlinded(p) == \E j \in DOMAIN p.outs : p.outs[j].blind # None

(* A change to the inputs is none to the outputs.                          *)
LEMMA ChangedInput ==
  ASSUME NEW p \in Pset, NEW ins \in Seq(PsetInput), NEW q, q = [p EXCEPT !.ins = ins]
  PROVE  KeepsShape(q, p) /\ (IsBlinded(q) => IsBlinded(p))
<1>1. q \in Pset /\ q.outs = p.outs
  BY DEF Pset
<1>2. Len(p.outs) \in Nat
  BY PsetFields
<1> QED BY <1>1, <1>2 DEF KeepsShape, IsBlinded

(* A change to an output that keeps its blinder.                           *)
LEMMA ChangedOutput ==
  ASSUME NEW p \in Pset, NEW j \in DOMAIN p.outs, NEW o \in PsetOutput,
         o.blinder = p.outs[j].blinder, o.blind # None => p.outs[j].blind # None,
         NEW q, q = [p EXCEPT !.outs[j] = o]
  PROVE  KeepsShape(q, p) /\ (IsBlinded(q) => IsBlinded(p))
<1> DEFINE outs == [p.outs EXCEPT ![j] = o]
<1>1. q = [p EXCEPT !.outs = outs]
  OBVIOUS
<1>2. /\ p.outs \in Seq(PsetOutput) /\ Len(p.outs) \in Nat
      /\ DOMAIN p.outs = 1..Len(p.outs)
  BY PsetFields
<1>3. outs \in Seq(PsetOutput) /\ Len(outs) = Len(p.outs)
  BY <1>2
<1>4. \A k \in DOMAIN p.outs : outs[k] = IF k = j THEN o ELSE p.outs[k]
  OBVIOUS
<1>5. DOMAIN outs = DOMAIN p.outs
  OBVIOUS
<1> HIDE DEF outs
<1>6. q \in Pset /\ q.outs = outs
  BY <1>1, <1>3 DEF Pset
<1>7. KeepsShape(q, p)
  BY <1>2, <1>3, <1>4, <1>6 DEF KeepsShape
<1>8. IsBlinded(q) => IsBlinded(p)
  BY <1>4, <1>5, <1>6 DEF IsBlinded
<1> QED BY <1>7, <1>8

(* Whatever is changed on the way.                                         *)
LEMMA DriftKeepsShape ==
  ASSUME NEW p \in Pset, NEW q \in Drifted(p)
  PROVE  KeepsShape(q, p) /\ (IsBlinded(q) => IsBlinded(p))
<1> DEFINE Ins == DOMAIN p.ins
           Outs == DOMAIN p.outs
           Done == KeepsShape(q, p) /\ (IsBlinded(q) => IsBlinded(p))
<1>0. /\ p.ins \in Seq(PsetInput) /\ p.outs \in Seq(PsetOutput)
      /\ Len(p.ins) \in Nat /\ Ins = 1..Len(p.ins)
      /\ Len(p.outs) \in Nat /\ Outs = 1..Len(p.outs)
  BY PsetFields
<1>1. CASE q = [p EXCEPT !.ins = [i \in Ins |-> p.ins[Len(p.ins) + 1 - i]]]
  <2> DEFINE ins == [i \in Ins |-> p.ins[Len(p.ins) + 1 - i]]
  <2>1. ins \in Seq(PsetInput)
    <3>1. \A i \in 1..Len(p.ins) : Len(p.ins) + 1 - i \in DOMAIN p.ins
      BY <1>0
    <3>2. \A i \in 1..Len(p.ins) : ins[i] \in PsetInput
      BY <1>0, <3>1
    <3>3. ins = [i \in 1..Len(p.ins) |-> ins[i]]
      BY <1>0
    <3> HIDE DEF ins
    <3> QED BY <1>0, <3>2, <3>3, IsSequence
  <2> HIDE DEF ins
  <2> QED BY <1>1, <2>1, ChangedInput DEF ins
<1>2. CASE q = [p EXCEPT !.scalars = << >>]
  <2>1. << >> \in Seq(Nat)
    OBVIOUS
  <2>2. q \in Pset /\ q.outs = p.outs
    BY <1>2, <2>1 DEF Pset
  <2> QED BY <1>0, <2>2 DEF KeepsShape, IsBlinded
<1>3. CASE q = [p EXCEPT !.scalars = [s \in DOMAIN @ |-> (@[s] + 1) % Order]]
  <2> DEFINE sc == [s \in DOMAIN p.scalars |-> (p.scalars[s] + 1) % Order]
  <2>1. sc \in Seq(Nat)
    <3>1. p.scalars \in Seq(Nat)
      BY PsetFields
    <3>2. Len(p.scalars) \in Nat /\ DOMAIN p.scalars = 1..Len(p.scalars)
      BY <3>1
    <3>3. \A s \in 1..Len(p.scalars) : sc[s] \in Nat
      <4>1. \A n \in Nat : (n + 1) % Order \in Nat
        <5>1. Order \in Nat \ {0}
          BY BoundsAssumption
        <5> QED BY <5>1
      <4> QED BY <3>1, <3>2, <4>1
    <3>4. sc = [s \in 1..Len(p.scalars) |-> sc[s]]
      BY <3>2
    <3> HIDE DEF sc
    <3> QED BY <3>2, <3>3, <3>4, IsSequence
  <2>2. q = [p EXCEPT !.scalars = sc]
    BY <1>3
  <2> HIDE DEF sc
  <2>3. q \in Pset /\ q.outs = p.outs
    BY <2>1, <2>2 DEF Pset
  <2> QED BY <1>0, <2>3 DEF KeepsShape, IsBlinded
<1>4. CASE q = [p EXCEPT !.lock = 7]
  <2>1. q \in Pset /\ q.outs = p.outs
    BY <1>4 DEF Pset
  <2> QED BY <1>0, <2>1 DEF KeepsShape, IsBlinded
<1>5. CASE q = [p EXCEPT !.ins = SubSeq(@, 2, Len(@))]
  <2> DEFINE ins == SubSeq(p.ins, 2, Len(p.ins))
  <2>1. ins \in Seq(PsetInput)
    BY <1>0
  <2> HIDE DEF ins
  <2> QED BY <1>5, <2>1, ChangedInput DEF ins
<1>6. CASE q = [p EXCEPT !.outs = SubSeq(@, 2, Len(@))]
  <2> DEFINE outs == SubSeq(p.outs, 2, Len(p.outs))
  <2>1. /\ outs \in Seq(PsetOutput)
        /\ Len(outs) = IF Len(p.outs) = 0 THEN 0 ELSE Len(p.outs) - 1
    BY <1>0
  <2>2. DOMAIN outs = 1..Len(outs) /\ \A j \in DOMAIN outs : j + 1 \in Outs /\ outs[j] = p.outs[j + 1]
    BY <1>0, <2>1
  <2> HIDE DEF outs
  <2>3. q \in Pset /\ q.outs = outs
    BY <1>6, <2>1 DEF Pset, outs
  <2>4. KeepsShape(q, p)
    BY <1>0, <2>1, <2>3 DEF KeepsShape
  <2>5. IsBlinded(q) => IsBlinded(p)
    BY <2>2, <2>3 DEF IsBlinded
  <2> QED BY <2>4, <2>5
<1>7. ASSUME NEW i \in Ins,
             \/ q = [p EXCEPT !.ins[i].op = Elsewhere]
             \/ q = [p EXCEPT !.ins[i].utxo.amt = @ + 1]
             \/ q = [p EXCEPT !.ins[i].seq = 0]
      PROVE  Done
  <2>1. p.ins[i] \in PsetInput
    BY <1>0
  <2>2. PICK in \in PsetInput : q = [p EXCEPT !.ins[i] = in]
    <3> DEFINE old == p.ins[i]
               more == [old.utxo EXCEPT !.amt = @ + 1]
    <3>1. [old EXCEPT !.op = Elsewhere] \in PsetInput /\ [old EXCEPT !.seq = 0] \in PsetInput
      <4>1. Elsewhere \in Name /\ 0 \in Nat \cup {None}
        BY DEF Name
      <4>2. \A x \in PsetInput, s \in Name : [x EXCEPT !.op = s] \in PsetInput
        BY DEF PsetInput
      <4>3. \A x \in PsetInput, n \in Nat \cup {None} : [x EXCEPT !.seq = n] \in PsetInput
        BY DEF PsetInput
      <4> QED BY <2>1, <4>1, <4>2, <4>3
    <3>2. more \in Utxo
      <4>1. old.utxo \in Utxo
        BY <2>1 DEF PsetInput
      <4>2. old.utxo.amt + 1 \in Nat
        BY <4>1 DEF Utxo
      <4> QED BY <4>1, <4>2 DEF Utxo
    <3>3. [old EXCEPT !.utxo = more] \in PsetInput
      <4> HIDE DEF more
      <4> QED BY <2>1, <3>2 DEF PsetInput
    <3>4. [old EXCEPT !.utxo.amt = @ + 1] = [old EXCEPT !.utxo = more]
      OBVIOUS
    <3> QED BY <1>7, <3>1, <3>3, <3>4
  <2> DEFINE ins == [p.ins EXCEPT ![i] = in]
  <2>3. ins \in Seq(PsetInput)
    BY <1>0, <2>1
  <2>4. q = [p EXCEPT !.ins = ins]
    BY <2>2
  <2> HIDE DEF ins
  <2> QED BY <2>3, <2>4, ChangedInput
<1>8. ASSUME NEW j \in Outs,
             \/ q = [p EXCEPT !.outs[j].spk = Elsewhere]
             \/ q = [p EXCEPT !.outs[j].amt = @ + 1]
             \/ p.outs[j].blind # None /\ q = [p EXCEPT !.outs[j].blind.rp = None]
             \/ p.outs[j].blind # None /\ q = [p EXCEPT !.outs[j].blind = None]
      PROVE  Done
  <2>1. p.outs[j] \in PsetOutput
    BY <1>0
  <2>2. PICK o \in PsetOutput :
          /\ q = [p EXCEPT !.outs[j] = o]
          /\ o.blinder = p.outs[j].blinder
          /\ o.blind # None => p.outs[j].blind # None
    <3> DEFINE a == [p.outs[j] EXCEPT !.spk = Elsewhere]
               b == [p.outs[j] EXCEPT !.amt = @ + 1]
               c == [p.outs[j] EXCEPT !.blind.rp = None]
               d == [p.outs[j] EXCEPT !.blind = None]
    <3>0. p.outs[j].amt + 1 \in Nat
      BY <2>1 DEF PsetOutput
    <3>1. /\ a \in PsetOutput /\ a.blinder = p.outs[j].blinder /\ a.blind = p.outs[j].blind
          /\ b \in PsetOutput /\ b.blinder = p.outs[j].blinder /\ b.blind = p.outs[j].blind
          /\ d \in PsetOutput /\ d.blinder = p.outs[j].blinder /\ d.blind = None
      <4>1. Elsewhere \in Name
        BY DEF Name
      <4>2. \A x \in PsetOutput, s \in Name :
              LET y == [x EXCEPT !.spk = s] IN
              y \in PsetOutput /\ y.blinder = x.blinder /\ y.blind = x.blind
        BY DEF PsetOutput
      <4>3. \A x \in PsetOutput, n \in Nat :
              LET y == [x EXCEPT !.amt = n] IN
              y \in PsetOutput /\ y.blinder = x.blinder /\ y.blind = x.blind
        BY DEF PsetOutput
      <4>4. \A x \in PsetOutput :
              LET y == [x EXCEPT !.blind = None] IN
              y \in PsetOutput /\ y.blinder = x.blinder /\ y.blind = None
        BY DEF PsetOutput
      <4> QED BY <2>1, <3>0, <4>1, <4>2, <4>3, <4>4
    <3>2. p.outs[j].blind # None => c \in PsetOutput /\ c.blinder = p.outs[j].blinder
      <4> SUFFICES ASSUME p.outs[j].blind # None
                   PROVE  c \in PsetOutput /\ c.blinder = p.outs[j].blinder
        OBVIOUS
      <4> DEFINE bl == [p.outs[j].blind EXCEPT !.rp = None]
      <4>1. bl \in Blinding
        BY <2>1 DEF PsetOutput, Blinding
      <4>2. c = [p.outs[j] EXCEPT !.blind = bl]
        OBVIOUS
      <4> HIDE DEF bl
      <4> QED BY <2>1, <4>1, <4>2 DEF PsetOutput
    <3>3. \/ q = [p EXCEPT !.outs[j] = a]
          \/ q = [p EXCEPT !.outs[j] = b]
          \/ p.outs[j].blind # None /\ q = [p EXCEPT !.outs[j] = c]
          \/ p.outs[j].blind # None /\ q = [p EXCEPT !.outs[j] = d]
      BY <1>8
    <3> HIDE DEF a, b, c, d
    <3> QED BY <3>1, <3>2, <3>3
  <2> QED BY <2>1, <2>2, ChangedOutput
<1> HIDE DEF Done
<1>9. Done
  BY <1>1, <1>2, <1>3, <1>4, <1>5, <1>6, <1>7, <1>8 DEF Drifted, Done
<1> QED BY <1>9 DEF Done

-----------------------------------------------------------------------------
(* What is on the wire has the outputs agreed on or fewer, and nothing on  *)
(* it is blinded unless the agreed PSET passed validate_unblinded_shape.   *)
WireKeepsShape ==
  \A p \in wire : KeepsShape(p, Frozen)
                  /\ (IsBlinded(p) => UnblindedShape(Frozen, agreed.roles))

(* As long as nothing was changed on the way, a PSET that carries a scalar *)
(* is the agreed one or A's blinding of it.                                *)
ScalarsAreOfA ==
  faults = 0 =>
    \A h \in wire : \/ h = Frozen
                    \/ h.scalars = << >>
                    \/ \E e \in Entropies : h = ForkBlindNonLast(Frozen, Secrets("A"), e)

WireInv == agreed \in Agreements /\ WireKeepsShape /\ ScalarsAreOfA

(* The agreed PSET and the secrets of it.                                  *)
LEMMA FrozenType ==
  ASSUME agreed \in Agreements
  PROVE  /\ Frozen \in Pset /\ KeepsShape(Frozen, Frozen) /\ ~ IsBlinded(Frozen)
         /\ \A x \in Participants : IsSecrets(Frozen, Secrets(x))
<1>1. Frozen \in Pset /\ ~ IsBlinded(Frozen)
  BY RoundAssumption DEF Frozen, IsBlinded
<1>2. KeepsShape(Frozen, Frozen)
  BY <1>1, PsetFields DEF KeepsShape
<1>3. ASSUME NEW x \in Participants
      PROVE  IsSecrets(Frozen, Secrets(x))
  <2>1. DOMAIN Secrets(x) = OwnInputs(x) /\ OwnInputs(x) \subseteq DOMAIN Frozen.ins
    BY DEF Secrets, OwnInputs
  <2>2. \A i \in DOMAIN Frozen.ins : Frozen.ins[i].utxo.amt \in Nat /\ Frozen.ins[i].utxo.bf \in Nat
    BY <1>1, PsetFields DEF PsetInput, Utxo
  <2>3. \A i \in OwnInputs(x) : /\ Secrets(x)[i].amt = Frozen.ins[i].utxo.amt
                                /\ Secrets(x)[i].bf = Frozen.ins[i].utxo.bf
    BY DEF Secrets
  <2> QED BY <2>1, <2>2, <2>3 DEF IsSecrets
<1> QED BY <1>1, <1>2, <1>3

(* The agreed PSET is alone on the wire at first.                          *)
LEMMA InitWireInv == Init => WireInv
<1> SUFFICES ASSUME Init PROVE WireInv
  OBVIOUS
<1>1. agreed \in Agreements /\ wire = {Frozen}
  BY DEF Init, Frozen
<1> QED BY <1>1, FrozenType DEF WireInv, WireKeepsShape, ScalarsAreOfA

(* A blinding keeps the shape of what it blinds.                           *)
LEMMA BlindedKeepsShape ==
  ASSUME NEW p \in Pset, NEW js, NEW bf, NEW scalars \in Seq(Nat),
         \A j \in js : bf[j] \in Nat
  PROVE  KeepsShape(Blinded(p, js, bf, scalars), p)
<1>1. Len(p.outs) \in Nat
  BY PsetFields
<1> QED BY <1>1, BlindedType DEF KeepsShape

(* Keeping the shape is transitive.                                        *)
LEMMA ShapeIsKept ==
  ASSUME NEW p, NEW q, NEW r, KeepsShape(p, q), KeepsShape(q, r), r \in Pset
  PROVE  KeepsShape(p, r)
<1>1. Len(p.outs) \in Nat /\ Len(q.outs) \in Nat /\ Len(r.outs) \in Nat
  BY PsetFields DEF KeepsShape
<1>2. DOMAIN q.outs = 1..Len(q.outs) /\ DOMAIN r.outs = 1..Len(r.outs)
  BY PsetFields DEF KeepsShape
<1> QED BY <1>1, <1>2 DEF KeepsShape

(* One more PSET on the wire.                                              *)
LEMMA WireOnlyGrows ==
  ASSUME WireInv, NEW q, KeepsShape(q, Frozen),
         IsBlinded(q) => UnblindedShape(Frozen, agreed.roles),
         agreed' = agreed, wire' = wire \cup {q},
         faults' = 0 => /\ faults = 0
                        /\ \/ q = Frozen
                           \/ q.scalars = << >>
                           \/ \E e \in Entropies : q = ForkBlindNonLast(Frozen, Secrets("A"), e)
  PROVE  WireInv'
<1>1. Frozen' = Frozen /\ \A x : Secrets(x)' = Secrets(x)
  BY DEF Frozen, Secrets, OwnInputs
<1>2. WireKeepsShape'
  BY <1>1 DEF WireInv, WireKeepsShape
<1>3. ScalarsAreOfA'
  BY <1>1 DEF WireInv, ScalarsAreOfA
<1> QED BY <1>2, <1>3 DEF WireInv

(* Op 4.                                                                   *)
LEMMA NonLastKeepsWire ==
  ASSUME WireInv, NEW e \in Entropies, BlindNonLast(e)
  PROVE  WireInv'
<1> DEFINE s == Secrets("A")
           q == ForkBlindNonLast(Frozen, s, e)
<1>1. /\ Frozen \in Pset /\ KeepsShape(Frozen, Frozen) /\ ~ IsBlinded(Frozen)
      /\ IsSecrets(Frozen, s) /\ e \in Nat
  BY FrozenType, RoundAssumption DEF WireInv, Participants
<1>2. KeepsShape(q, Frozen)
  <2> DEFINE js == ToBlind(Frozen, s)
             bf == [j \in js |-> e]
             scalars == Append(Frozen.scalars, Residual(SecretSum(s), Cardinality(js) * e))
  <2>1. /\ \A j \in js : bf[j] \in Nat
        /\ scalars \in Seq(Nat)
        /\ q = IF js = {} THEN Frozen ELSE Blinded(Frozen, js, bf, scalars)
    <3> HIDE DEF s
    <3> QED BY <1>1, NonLastIsBlinded
  <2> HIDE DEF js, bf, scalars, q
  <2> QED BY <1>1, <2>1, BlindedKeepsShape
<1>3. UnblindedShape(Frozen, agreed.roles)
  BY DEF BlindNonLast, CanBlindNonLast
<1>4. agreed' = agreed /\ wire' = wire \cup {q} /\ faults' = faults
  BY DEF BlindNonLast
<1> QED BY <1>2, <1>3, <1>4, WireOnlyGrows

(* Op 5.                                                                   *)
LEMMA LastKeepsWire ==
  ASSUME WireInv, NEW h \in wire, NEW e \in Entropies, BlindLast(h, e)
  PROVE  WireInv'
<1> DEFINE s == Secrets("B")
           q == ForkBlindLast(h, s, e)
<1>1. h \in Pset /\ KeepsShape(h, Frozen) /\ e \in Nat /\ Frozen \in Pset
  BY FrozenType, RoundAssumption DEF WireInv, WireKeepsShape, KeepsShape
<1>2. IsSecrets(h, s)
  <2>1. SecretsOpen(h, s)
    BY DEF BlindLast, BlindLastVerdict
  <2>2. IsSecrets(Frozen, s)
    BY FrozenType DEF WireInv, Participants
  <2> HIDE DEF s
  <2> QED BY <2>1, <2>2 DEF SecretsOpen, IsSecrets
<1>3. q \in Pset /\ KeepsShape(q, h) /\ q.scalars = << >>
  <2> DEFINE js == ToBlind(h, s)
             made == Residual(SecretSum(s) + SumFunction(h.scalars), (Cardinality(js) - 1) * e)
             bf == [j \in js |-> IF j = LastOf(js) THEN made ELSE e]
  <2>1. /\ \A j \in js : bf[j] \in Nat
        /\ q = Blinded(h, js, bf, << >>)
    <3> HIDE DEF s
    <3> QED BY <1>1, <1>2, LastIsBlinded
  <2>2. << >> \in Seq(Nat)
    OBVIOUS
  <2> HIDE DEF js, bf, q
  <2>3. KeepsShape(q, h)
    BY <1>1, <2>1, <2>2, BlindedKeepsShape
  <2>4. q \in Pset /\ q.scalars = << >>
    <3> DEFINE none == << >>
    <3>1. none \in Seq(Nat) /\ q = Blinded(h, js, bf, none)
      BY <2>1, <2>2
    <3>2. q \in Pset /\ q.scalars = none
      <4> HIDE DEF none
      <4> QED BY <1>1, <2>1, <3>1, BlindedType
    <3> QED BY <3>2
  <2> QED BY <2>3, <2>4
<1>4. KeepsShape(q, Frozen)
  BY <1>1, <1>3, ShapeIsKept
<1>5. UnblindedShape(Frozen, agreed.roles)
  BY DEF BlindLast
<1>6. agreed' = agreed /\ wire' = wire \cup {q} /\ faults' = faults
  BY DEF BlindLast
<1> HIDE DEF q
<1> QED BY <1>3, <1>4, <1>5, <1>6, WireOnlyGrows

(* No step leaves the invariant of the wire.                               *)
LEMMA NextWireInv == WireInv /\ TypeOK /\ [Next]_vars => WireInv'
<1> SUFFICES ASSUME WireInv, TypeOK, [Next]_vars PROVE WireInv'
  OBVIOUS
<1>1. CASE \E e \in Entropies : BlindNonLast(e)
  BY <1>1, NonLastKeepsWire
<1>2. CASE \E h \in wire, e \in Entropies : BlindLast(h, e)
  BY <1>2, LastKeepsWire
<1>3. CASE \E p \in wire : DriftPset(p)
  <2>0. PICK p \in wire : DriftPset(p)
    BY <1>3
  <2>1. PICK q \in Drifted(p) :
          /\ wire' = wire \cup {q} /\ agreed' = agreed /\ faults' = faults + 1
    BY <2>0 DEF DriftPset, Fault
  <2>2. faults' # 0
    BY <2>1, RoundAssumption DEF TypeOK
  <2>3. KeepsShape(p, Frozen) /\ p \in Pset
    BY <2>1 DEF WireInv, WireKeepsShape, KeepsShape
  <2>4. KeepsShape(q, p) /\ (IsBlinded(q) => IsBlinded(p))
    BY <2>3, DriftKeepsShape
  <2>5. KeepsShape(q, Frozen)
    BY <2>3, <2>4, ShapeIsKept, FrozenType DEF WireInv
  <2>6. IsBlinded(q) => UnblindedShape(Frozen, agreed.roles)
    BY <2>4 DEF WireInv, WireKeepsShape
  <2> QED BY <2>1, <2>2, <2>5, <2>6, WireOnlyGrows
<1>4. ASSUME UNCHANGED <<agreed, wire>>, faults' = 0 => faults = 0
      PROVE  WireInv'
  BY <1>4 DEF WireInv, WireKeepsShape, ScalarsAreOfA, Frozen, Secrets, OwnInputs
<1>5. CASE \E k \in contributions : RelabelContribution(k) \/ GarbleContribution(k)
  <2>1. faults' = faults + 1 /\ UNCHANGED <<agreed, wire>>
    BY <1>5 DEF RelabelContribution, GarbleContribution, Fault
  <2>2. faults' # 0
    BY <2>1, RoundAssumption DEF TypeOK
  <2> QED BY <1>4, <2>1, <2>2
<1>6. CASE \E x \in Participants, p \in wire, c \in Contexts : ApproveView(x, p, c)
  BY <1>4, <1>6 DEF ApproveView
<1>7. CASE Sign \/ AssembleAny
  BY <1>4, <1>7 DEF Sign, SignOwned, AssembleAny, Assemble
<1>8. CASE UNCHANGED vars
  BY <1>4, <1>8 DEF vars
<1> QED BY <1>1, <1>2, <1>3, <1>5, <1>6, <1>7, <1>8 DEF Next, Call

(* The invariant of the wire.                                              *)
LEMMA WireInvariance == Spec => []WireInv
<1>1. Init => WireInv
  BY InitWireInv
<1>2. IInv /\ WireInv /\ [Next]_vars => WireInv'
  BY NextWireInv DEF IInv
<1> QED BY <1>1, <1>2, Invariance, PTL DEF Spec

-----------------------------------------------------------------------------
(* hash_coinjoin_state: a digest also fixes the previous outputs, and which*)
(* outputs are blinded and by whom.                                        *)
LEMMA DigestPinsOutputs ==
  ASSUME NEW p, NEW q, NEW c, NEW d, StateDigest(p, c) = StateDigest(q, d)
  PROVE  /\ DOMAIN p.ins = DOMAIN q.ins
         /\ \A i \in DOMAIN p.ins : p.ins[i].utxo = q.ins[i].utxo
<1>1. Projection(p) = Projection(q)
  BY DEF StateDigest
<1> DEFINE F(r) == [i \in DOMAIN r.ins |->
                     [op |-> r.ins[i].op, seq |-> r.ins[i].seq,
                      utxo |-> r.ins[i].utxo, rp |-> r.ins[i].rp]]
<1>2. F(p) = F(q)
  BY <1>1 DEF Projection
<1>3. DOMAIN F(p) = DOMAIN F(q)
  BY <1>2
<1>4. \A i \in DOMAIN p.ins : F(p)[i].utxo = F(q)[i].utxo
  BY <1>2
<1> QED BY <1>3, <1>4

(* The parts of an extracted transaction.                                  *)
LEMMA ExtractParts ==
  ASSUME NEW p
  PROVE  /\ DOMAIN Extract(p).ins = DOMAIN p.ins
         /\ \A i \in DOMAIN p.ins : Extract(p).ins[i].op = p.ins[i].op
         /\ DOMAIN Extract(p).outs = DOMAIN p.outs
         /\ \A j \in DOMAIN p.outs :
              /\ Extract(p).outs[j].spk = p.outs[j].spk
              /\ Extract(p).outs[j].conf = (p.outs[j].blind # None)
              /\ p.outs[j].blind = None =>
                   Extract(p).outs[j].com = [amt |-> p.outs[j].amt, bf |-> 0]
              /\ p.outs[j].blind # None =>
                   /\ Extract(p).outs[j].com = p.outs[j].blind.com
                   /\ Extract(p).outs[j].rp = p.outs[j].blind.rp
                   /\ Extract(p).outs[j].dom = p.outs[j].blind.dom
<1> DEFINE o(j) == IF p.outs[j].blind = None
                     THEN [spk |-> p.outs[j].spk, conf |-> FALSE,
                           com |-> [amt |-> p.outs[j].amt, bf |-> 0],
                           rp  |-> None, dom |-> << >>]
                     ELSE [spk |-> p.outs[j].spk, conf |-> TRUE,
                           com |-> p.outs[j].blind.com,
                           rp  |-> p.outs[j].blind.rp, dom |-> p.outs[j].blind.dom]
<1>1. /\ DOMAIN Extract(p).ins = DOMAIN p.ins
      /\ \A i \in DOMAIN p.ins : Extract(p).ins[i].op = p.ins[i].op
  BY DEF Extract
<1>2. Extract(p).outs = [j \in DOMAIN p.outs |-> o(j)]
  BY DEF Extract
<1>3. \A j \in DOMAIN p.outs :
              /\ o(j).spk = p.outs[j].spk
              /\ o(j).conf = (p.outs[j].blind # None)
              /\ p.outs[j].blind = None => o(j).com = [amt |-> p.outs[j].amt, bf |-> 0]
              /\ p.outs[j].blind # None =>
                   /\ o(j).com = p.outs[j].blind.com
                   /\ o(j).rp = p.outs[j].blind.rp
                   /\ o(j).dom = p.outs[j].blind.dom
  OBVIOUS
<1> HIDE DEF o
<1>4. DOMAIN Extract(p).outs = DOMAIN p.outs
      /\ \A j \in DOMAIN p.outs : Extract(p).outs[j] = o(j)
  BY <1>2
<1> QED BY <1>1, <1>3, <1>4

(* project_outputs: a canonical PSET's commitments are to its amounts.     *)
LEMMA CanonicalCommitsToAmounts ==
  ASSUME NEW p, Canonical(p), NEW j \in DOMAIN p.outs
  PROVE  /\ Extract(p).outs[j].com.amt = p.outs[j].amt
         /\ p.outs[j].blind # None => p.outs[j].blinder \in DOMAIN p.ins
<1> DEFINE o == p.outs[j]
<1>1. CASE o.blind = None
  <2>1. Extract(p).outs[j].com = [amt |-> o.amt, bf |-> 0]
    BY <1>1, ExtractParts
  <2> QED BY <1>1, <2>1
<1>2. CASE o.blind # None
  <2>1. OutputRole(o) = 3
    BY <1>2 DEF OutputRole, IsFee, IsPreblind
  <2>2. o.blinder \in DOMAIN p.ins /\ BlindingVerifies(p, o)
    BY <2>1 DEF Canonical
  <2> QED BY <1>2, <2>2, ExtractParts DEF BlindingVerifies
<1> QED BY <1>1, <1>2

(* validate_unblinded_shape: the outputs with a role are those with a      *)
(* blinder, which is one of the inputs.                                    *)
LEMMA RolesAreBlinders ==
  ASSUME NEW p, NEW roles, UnblindedShape(p, roles)
  PROVE  /\ DOMAIN roles \subseteq DOMAIN p.outs
         /\ \A j \in DOMAIN roles : p.outs[j].blinder \in DOMAIN p.ins /\ p.outs[j].blinder # None
BY DEF UnblindedShape, IsPreblind

-----------------------------------------------------------------------------
(* The whole pipeline's promise of one transaction.                        *)
HoldsTo(tx) ==
  /\ Len(tx.ins) = Len(Frozen.ins) /\ Len(tx.outs) = Len(Frozen.outs)
  /\ \A i \in DOMAIN Frozen.ins : tx.ins[i].op = Frozen.ins[i].op
  /\ AmountProofsVerify(tx, Utxos(Frozen))
  /\ \A j \in DOMAIN agreed.roles :
       /\ tx.outs[j].conf
       /\ tx.outs[j].spk = Frozen.outs[j].spk
       /\ tx.outs[j].com.amt = Frozen.outs[j].amt

(* What a participant approved is canonical and pays what was agreed.      *)
ViewsAreChecked ==
  \A x \in Participants : \A v \in approved[x] :
    Canonical(v.pset) /\ KeepsAgreement(x, v.pset)

(* Op 12: what all have signed is what was agreed.                         *)
LEMMA SignedHoldsTo ==
  ASSUME IInv, WireInv, ViewsAreChecked, NEW p \in wire, NEW c,
         NEW d \in ApprovedDigests("A") \cup ApprovedDigests("B"), Assemble(p, c, d)
  PROVE  HoldsTo(Extract(p))
<1> DEFINE tx == Extract(p)
<1>1. AcceptsSigning(p, c, d, Authorized)
  BY DEF Assemble
<1>2. PICK submitted \in [DOMAIN Authorized -> contributions] :
        CompleteSet(p, Binding(p, c, d, Authorized), submitted)
  BY DEF Assemble
<1>3. \A x \in Participants : \E v \in approved[x] : Extract(v.pset) = tx
  BY <1>2, AssembledIsApproved
<1>4. Frozen \in Pset /\ p \in Pset /\ agreed \in Agreements
  BY FrozenType DEF WireInv, WireKeepsShape, KeepsShape
<1>5. PICK x0 \in Participants : \E v \in approved[x0] : v.digest = d
  BY DEF ApprovedDigests, Participants
<1> PICK v0 \in approved[x0] : v0.digest = d
  BY <1>5
<1>6. /\ DOMAIN p.ins = DOMAIN v0.pset.ins
      /\ \A i \in DOMAIN p.ins : p.ins[i].utxo = v0.pset.ins[i].utxo
      /\ Extract(v0.pset) = tx
  <2>1. StateDigest(v0.pset, v0.context) = StateDigest(p, c)
    BY <1>1 DEF IInv, TypeOK, AcceptsSigning
  <2> QED BY <2>1, DigestPinsOutputs, DigestPinsTransaction
<1>7. SameInputDomain(v0.pset, Frozen) /\ v0.pset \in Pset
  BY DEF ViewsAreChecked, KeepsAgreement, IInv, TypeOK, WireInv, WireKeepsShape, KeepsShape
<1>8. DOMAIN Frozen.ins = DOMAIN p.ins /\ Len(v0.pset.outs) = Len(Frozen.outs)
  <2>1. Len(v0.pset.ins) = Len(Frozen.ins) /\ Len(v0.pset.outs) = Len(Frozen.outs)
    BY <1>7 DEF SameInputDomain
  <2>2. DOMAIN v0.pset.ins = DOMAIN Frozen.ins
    BY <1>4, <1>7, <2>1, PsetFields
  <2> QED BY <1>6, <2>1, <2>2
<1>9. \A i \in DOMAIN Frozen.ins : /\ p.ins[i].utxo = Frozen.ins[i].utxo
                                    /\ v0.pset.ins[i].op = Frozen.ins[i].op
  BY <1>6, <1>7, <1>8 DEF SameInputDomain
<1>10. Utxos(p) = Utxos(Frozen)
  BY <1>8, <1>9 DEF Utxos
<1>11. AmountProofsVerify(tx, Utxos(Frozen))
  BY <1>1, <1>10 DEF AcceptsSigning
<1>12. \A i \in DOMAIN Frozen.ins : tx.ins[i].op = Frozen.ins[i].op
  BY <1>6, <1>8, <1>9, ExtractParts
<1>13. DOMAIN tx.ins = DOMAIN Frozen.ins /\ DOMAIN tx.outs = DOMAIN Frozen.outs
  <2>1. DOMAIN v0.pset.outs = DOMAIN Frozen.outs
    BY <1>4, <1>7, <1>8, PsetFields
  <2> QED BY <1>6, <1>8, <2>1, ExtractParts
<1>14. Len(tx.ins) = Len(Frozen.ins) /\ Len(tx.outs) = Len(Frozen.outs)
  BY <1>4, <1>13, PsetFields
<1>15. DOMAIN p.outs = DOMAIN Frozen.outs /\ Len(p.outs) = Len(Frozen.outs)
  <2>1. DOMAIN p.outs = DOMAIN Frozen.outs
    BY <1>13, ExtractParts
  <2> QED BY <1>4, <2>1, PsetFields
<1>16. UnblindedShape(Frozen, agreed.roles)
  <2>1. PICK j \in Confidential(p) : TRUE
    BY <1>1 DEF AcceptsSigning
  <2>2. IsFullyBlinded(p.outs[j]) /\ j \in DOMAIN p.outs
    BY <1>1, <2>1 DEF AcceptsSigning, SurjectionUsesAllInputs
  <2>3. IsBlinded(p)
    BY <2>2 DEF IsBlinded, IsFullyBlinded
  <2> QED BY <2>3 DEF WireInv, WireKeepsShape
<1>17. ASSUME NEW j \in DOMAIN agreed.roles
       PROVE  /\ tx.outs[j].conf
              /\ tx.outs[j].spk = Frozen.outs[j].spk
              /\ tx.outs[j].com.amt = Frozen.outs[j].amt
  <2>1. j \in DOMAIN p.outs /\ j \in DOMAIN Frozen.outs
        /\ Frozen.outs[j].blinder \in DOMAIN Frozen.ins /\ Frozen.outs[j].blinder # None
    BY <1>15, <1>16, RolesAreBlinders
  <2>2. p.outs[j].blinder = Frozen.outs[j].blinder
    BY <1>15, <2>1 DEF WireInv, WireKeepsShape, KeepsShape
  <2>3. IsFullyBlinded(p.outs[j])
    BY <1>1, <2>1, <2>2 DEF AcceptsSigning, SurjectionUsesAllInputs, Confidential
  <2>4. PICK x \in Participants : Frozen.outs[j].blinder \in OwnInputs(x)
    BY <1>4, <2>1, RoundAssumption DEF OwnInputs, Frozen
  <2>5. PICK v \in approved[x] : Extract(v.pset) = tx
    BY <1>3
  <2>6. Canonical(v.pset) /\ KeepsAgreement(x, v.pset)
    BY <2>5 DEF ViewsAreChecked
  <2>7. v.pset.outs[j].spk = Frozen.outs[j].spk /\ v.pset.outs[j].amt = Frozen.outs[j].amt
    BY <2>1, <2>4, <2>6 DEF KeepsAgreement
  <2>8. j \in DOMAIN v.pset.outs
    BY <1>13, <2>1, <2>5, ExtractParts
  <2>9. tx.outs[j].com.amt = v.pset.outs[j].amt /\ tx.outs[j].spk = v.pset.outs[j].spk
    <3>1. Extract(v.pset).outs[j].com.amt = v.pset.outs[j].amt
      BY <2>6, <2>8, CanonicalCommitsToAmounts
    <3>2. Extract(v.pset).outs[j].spk = v.pset.outs[j].spk
      BY <2>8, ExtractParts
    <3> QED BY <2>5, <3>1, <3>2
  <2>10. tx.outs[j].conf
    BY <2>1, <2>3, ExtractParts DEF IsFullyBlinded
  <2> QED BY <2>7, <2>9, <2>10
<1> QED BY <1>11, <1>12, <1>14, <1>17 DEF HoldsTo

(* And so does everything finalized.                                       *)
KeepsInv == ViewsAreChecked /\ \A f \in finalized : HoldsTo(f.tx)

(* No step finalizes anything else.                                        *)
LEMMA NextKeepsInv == IInv /\ WireInv /\ KeepsInv /\ [Next]_vars => KeepsInv'
<1> SUFFICES ASSUME IInv, WireInv, KeepsInv, [Next]_vars PROVE KeepsInv'
  OBVIOUS
<1>1. ASSUME UNCHANGED agreed PROVE \A tx : HoldsTo(tx) <=> HoldsTo(tx)'
  BY <1>1 DEF HoldsTo, Frozen
<1>2. ASSUME UNCHANGED agreed
      PROVE  \A x, p : KeepsAgreement(x, p) <=> KeepsAgreement(x, p)'
  BY <1>2 DEF KeepsAgreement, Frozen, OwnInputs
<1>3. ASSUME UNCHANGED <<agreed, approved, finalized>> PROVE KeepsInv'
  BY <1>1, <1>2, <1>3 DEF KeepsInv, ViewsAreChecked
<1>4. CASE \E x \in Participants, p \in wire, c \in Contexts : ApproveView(x, p, c)
  <2>1. PICK x \in Participants, p \in wire, c \in Contexts : ApproveView(x, p, c)
    BY <1>4
  <2> DEFINE view == [pset |-> p, context |-> c, digest |-> StateDigest(p, c)]
  <2>2. /\ approved' = [approved EXCEPT ![x] = @ \cup {view}]
        /\ UNCHANGED <<agreed, finalized>>
        /\ Canonical(p) /\ KeepsAgreement(x, p)
    BY <2>1 DEF ApproveView
  <2>3. ASSUME NEW y \in Participants, NEW v \in approved'[y]
        PROVE  Canonical(v.pset) /\ KeepsAgreement(y, v.pset)
    <3>1. v \in approved[y] \/ (y = x /\ v = view)
      BY <2>2, <2>3 DEF IInv, TypeOK
    <3> QED BY <2>2, <3>1 DEF KeepsInv, ViewsAreChecked
  <2>4. ViewsAreChecked'
    BY <1>2, <2>2, <2>3 DEF ViewsAreChecked
  <2> QED BY <1>1, <2>2, <2>4 DEF KeepsInv
<1>5. CASE AssembleAny
  <2>1. PICK p \in wire, c \in Contexts,
              d \in ApprovedDigests("A") \cup ApprovedDigests("B") : Assemble(p, c, d)
    BY <1>5 DEF AssembleAny
  <2>2. HoldsTo(Extract(p))
    BY <2>1, SignedHoldsTo DEF KeepsInv
  <2>3. /\ finalized' = finalized \cup {[tx |-> Extract(p), context |-> c]}
        /\ UNCHANGED <<agreed, approved>>
    BY <2>1 DEF Assemble
  <2>4. \A f \in finalized' : HoldsTo(f.tx)
    BY <2>2, <2>3 DEF KeepsInv
  <2>5. ViewsAreChecked'
    BY <1>2, <2>3 DEF KeepsInv, ViewsAreChecked
  <2> QED BY <1>1, <2>3, <2>4, <2>5 DEF KeepsInv
<1>6. CASE ~ (\E x \in Participants, p \in wire, c \in Contexts : ApproveView(x, p, c))
           /\ ~ AssembleAny
  BY <1>3, <1>6
  DEF Next, Call, BlindNonLast, BlindLast, Sign, SignOwned, DriftPset, RelabelContribution,
      GarbleContribution, Fault, vars
<1> QED BY <1>4, <1>5, <1>6

(* assemble_signatures: what is finalized spends the agreed inputs in      *)
(* order, balances against them as they were, and pays every blinded       *)
(* output as agreed, whatever happened on the way.                         *)
THEOREM AgreementKept == Spec => []FinalizedKeepsAgreement
<1>1. Init => KeepsInv
  BY DEF Init, KeepsInv, ViewsAreChecked
<1>2. IInv /\ WireInv /\ KeepsInv /\ [Next]_vars => KeepsInv'
  BY NextKeepsInv
<1>3. KeepsInv => FinalizedKeepsAgreement
  BY DEF KeepsInv, HoldsTo, FinalizedKeepsAgreement
<1> QED BY <1>1, <1>2, <1>3, Invariance, WireInvariance, PTL DEF Spec

-----------------------------------------------------------------------------
(* What the honest handoff makes: A's outputs carry A's entropy, B's B's,  *)
(* the last of them the residual; all else is as agreed.                   *)
BothBlinded(r, jsA, jsB, eA, eB, made) ==
  /\ jsA \subseteq DOMAIN Frozen.outs /\ jsB \subseteq DOMAIN Frozen.outs /\ jsA \cap jsB = {}
  /\ r.scalars = << >> /\ r.ins = Frozen.ins /\ DOMAIN r.outs = DOMAIN Frozen.outs
  /\ \A j \in DOMAIN Frozen.outs :
       r.outs[j] = IF j \in jsA THEN BlindedOutput(Frozen, j, eA)
                   ELSE IF j \notin jsB THEN Frozen.outs[j]
                   ELSE BlindedOutput(Frozen, j, IF j = LastOf(jsB) THEN made ELSE eB)

(* The blinding factors of its outputs.                                    *)
Factor(j, jsA, jsB, eA, eB, made) ==
  IF j \in jsA THEN eA
  ELSE IF j \notin jsB THEN 0
  ELSE IF j = LastOf(jsB) THEN made ELSE eB

(* What its transaction commits to, and that its proofs are made for it.   *)
Commits(tx, jsA, jsB, eA, eB, made) ==
  /\ DOMAIN tx.outs = DOMAIN Frozen.outs
  /\ \A j \in DOMAIN Frozen.outs :
       /\ tx.outs[j].com.amt = Frozen.outs[j].amt
       /\ tx.outs[j].com.bf = Factor(j, jsA, jsB, eA, eB, made)
       /\ tx.outs[j].conf =>
            /\ tx.outs[j].rp = [amt |-> tx.outs[j].com.amt, bf |-> tx.outs[j].com.bf,
                                spk |-> tx.outs[j].spk]
            /\ tx.outs[j].dom = Generators(Utxos(Frozen))

(* Its amounts are the agreed ones and its proofs are made for them.       *)
LEMMA BothBlindedCommits ==
  ASSUME agreed \in Agreements, NEW r, NEW jsA, NEW jsB, NEW eA \in Nat, NEW eB \in Nat,
         NEW made \in Nat, BothBlinded(r, jsA, jsB, eA, eB, made)
  PROVE  Commits(Extract(r), jsA, jsB, eA, eB, made)
<1> DEFINE tx == Extract(r)
<1>1. Frozen \in Pset /\ ~ IsBlinded(Frozen)
  BY FrozenType
<1>2. DOMAIN tx.outs = DOMAIN Frozen.outs
  BY ExtractParts DEF BothBlinded
<1>3. ASSUME NEW j \in DOMAIN Frozen.outs, NEW b \in Nat, r.outs[j] = BlindedOutput(Frozen, j, b)
      PROVE  /\ tx.outs[j].com.amt = Frozen.outs[j].amt
             /\ tx.outs[j].com.bf = b
             /\ tx.outs[j].rp = [amt |-> tx.outs[j].com.amt, bf |-> tx.outs[j].com.bf,
                                 spk |-> tx.outs[j].spk]
             /\ tx.outs[j].dom = Generators(Utxos(Frozen))
  <2> DEFINE bl == [com |-> [amt |-> Frozen.outs[j].amt, bf |-> b],
                    rp  |-> [amt |-> Frozen.outs[j].amt, bf |-> b, spk |-> Frozen.outs[j].spk],
                    dom |-> Generators(Utxos(Frozen))]
  <2>1. r.outs[j].blind = bl /\ r.outs[j].spk = Frozen.outs[j].spk
    BY <1>1, <1>3, BlindedOutputType
  <2>2. bl # None
    <3>1. BlindedOutput(Frozen, j, b).blind \in Blinding
      BY <1>1, <1>3, BlindedOutputType
    <3>2. r.outs[j].blind \in Blinding
      BY <1>3, <3>1
    <3> HIDE DEF bl
    <3> QED BY <2>1, <3>2, NoneAssumption
  <2> HIDE DEF tx
  <2>3. /\ tx.outs[j].com = bl.com /\ tx.outs[j].rp = bl.rp /\ tx.outs[j].dom = bl.dom
        /\ tx.outs[j].spk = Frozen.outs[j].spk
    <3>1. j \in DOMAIN r.outs
      BY DEF BothBlinded
    <3> HIDE DEF bl
    <3> QED BY <2>1, <2>2, <3>1, ExtractParts DEF tx
  <2> QED BY <2>3
<1>4. ASSUME NEW j \in DOMAIN Frozen.outs, r.outs[j] = Frozen.outs[j]
      PROVE  /\ tx.outs[j].com.amt = Frozen.outs[j].amt
             /\ tx.outs[j].com.bf = 0
             /\ tx.outs[j].conf = FALSE
  <2>1. j \in DOMAIN r.outs /\ r.outs[j].blind = None
    BY <1>1, <1>4 DEF BothBlinded, IsBlinded
  <2>2. /\ tx.outs[j].com = [amt |-> r.outs[j].amt, bf |-> 0]
        /\ tx.outs[j].conf = FALSE
    BY <2>1, ExtractParts
  <2> HIDE DEF tx
  <2> QED BY <1>4, <2>2
<1> HIDE DEF tx
<1>5. ASSUME NEW j \in DOMAIN Frozen.outs
      PROVE  /\ tx.outs[j].com.amt = Frozen.outs[j].amt
             /\ tx.outs[j].com.bf = IF j \in jsA THEN eA
                                    ELSE IF j \notin jsB THEN 0
                                    ELSE IF j = LastOf(jsB) THEN made ELSE eB
             /\ tx.outs[j].conf =>
                  /\ tx.outs[j].rp = [amt |-> tx.outs[j].com.amt, bf |-> tx.outs[j].com.bf,
                                      spk |-> tx.outs[j].spk]
                  /\ tx.outs[j].dom = Generators(Utxos(Frozen))
  <2>1. CASE j \in jsA
    BY <1>3, <2>1 DEF BothBlinded
  <2>2. CASE j \notin jsA /\ j \notin jsB
    BY <1>4, <2>2 DEF BothBlinded
  <2>3. CASE j \notin jsA /\ j \in jsB
    <3> DEFINE b == IF j = LastOf(jsB) THEN made ELSE eB
    <3>1. b \in Nat /\ r.outs[j] = BlindedOutput(Frozen, j, b)
      BY <2>3 DEF BothBlinded
    <3> HIDE DEF b
    <3>2. /\ tx.outs[j].com.amt = Frozen.outs[j].amt
          /\ tx.outs[j].com.bf = b
          /\ tx.outs[j].rp = [amt |-> tx.outs[j].com.amt, bf |-> tx.outs[j].com.bf,
                              spk |-> tx.outs[j].spk]
          /\ tx.outs[j].dom = Generators(Utxos(Frozen))
      BY <1>3, <3>1
    <3> QED BY <2>3, <3>2 DEF b
  <2> QED BY <2>1, <2>2, <2>3
<1> QED BY <1>2, <1>5 DEF tx, Commits, Factor

(* The handoff that was not changed makes just that.                       *)
LEMMA HonestHandoff ==
  ASSUME TypeOK, WireInv, faults = 0, UnblindedShape(Frozen, agreed.roles),
         NEW h \in wire, NEW e \in Entropies,
         BlindLastVerdict(h, Frozen, agreed.roles, Secrets("B"), e) = "Ok"
  PROVE  \E jsA, jsB : \E eA, taken, owed, left, made \in Nat :
           /\ BothBlinded(ForkBlindLast(h, Secrets("B"), e), jsA, jsB, eA, e, made)
           /\ jsB # {} /\ taken = (Cardinality(jsB) - 1) * e
           /\ Cardinality(jsA) * eA \in Nat
           /\ left = Residual(SecretSum(Secrets("A")), Cardinality(jsA) * eA)
           /\ owed = SecretSum(Secrets("B")) + left
           /\ made = Residual(owed, taken)
<1> DEFINE sA == Secrets("A")
           sB == Secrets("B")
<1>1. /\ Frozen \in Pset /\ h \in Pset /\ e \in Nat /\ Entropies \subseteq Nat
      /\ IsSecrets(Frozen, sA) /\ IsSecrets(Frozen, sB)
  BY FrozenType, RoundAssumption DEF WireInv, WireKeepsShape, KeepsShape, Participants
<1>2. /\ Len(h.scalars) \in 1..MaxScalars /\ SecretsOpen(h, sB)
      /\ ForkCanBlindLast(h, DOMAIN agreed.roles, sB, e)
  BY DEF BlindLastVerdict
<1>3. Frozen.scalars = << >>
  BY DEF UnblindedShape
<1>4. h.scalars # << >> /\ h # Frozen
  <2>1. Len(<< >>) = 0
    OBVIOUS
  <2> QED BY <1>2, <1>3, <2>1
<1>5. PICK eA \in Entropies : h = ForkBlindNonLast(Frozen, sA, eA)
  BY <1>4 DEF WireInv, ScalarsAreOfA
<1>6. IsSecrets(h, sB)
  <2> HIDE DEF sB
  <2> QED BY <1>1, <1>2 DEF SecretsOpen, IsSecrets
<1> DEFINE jsA == ToBlind(Frozen, sA)
           bfA == [j \in jsA |-> eA]
           left == Residual(SecretSum(sA), Cardinality(jsA) * eA)
           jsB == ToBlind(h, sB)
           taken == (Cardinality(jsB) - 1) * e
           owed == SecretSum(sB) + left
           made == Residual(owed, taken)
           bfB == [j \in jsB |-> IF j = LastOf(jsB) THEN made ELSE e]
           r == ForkBlindLast(h, sB, e)
<1>7. jsB # {}
  BY <1>2 DEF ForkCanBlindLast
<1>8. /\ \A j \in jsA : bfA[j] \in Nat
      /\ left \in Nat
      /\ Append(Frozen.scalars, left) \in Seq(Nat)
      /\ h = IF jsA = {} THEN Frozen ELSE Blinded(Frozen, jsA, bfA, Append(Frozen.scalars, left))
  <2>1. eA \in Nat
    BY <1>1
  <2>2. /\ \A j \in jsA : bfA[j] \in Nat
        /\ left \in Nat
        /\ Append(Frozen.scalars, left) \in Seq(Nat)
        /\ ForkBlindNonLast(Frozen, sA, eA)
             = IF jsA = {} THEN Frozen ELSE Blinded(Frozen, jsA, bfA, Append(Frozen.scalars, left))
    <3> HIDE DEF sA
    <3> QED BY <1>1, <2>1, NonLastIsBlinded
  <2> QED BY <1>5, <2>2
<1>9. jsA # {}
  BY <1>4, <1>8
<1>10. Cardinality(jsA) * eA \in Nat
  <2>1. IsFiniteSet(jsA)
    <3>1. jsA \subseteq DOMAIN Frozen.outs
      BY DEF ToBlind
    <3> QED BY <1>1, <3>1, PsetFields, FS_Subset
  <2> DEFINE k == Cardinality(jsA)
  <2>2. k \in Nat /\ eA \in Nat
    BY <1>1, <2>1, FS_CardinalityType
  <2> HIDE DEF k
  <2>3. k * eA \in Nat
    BY <2>2
  <2> QED BY <2>3 DEF k
<1>11. Append(Frozen.scalars, left) = <<left>>
  BY <1>3
<1>12. /\ h.ins = Frozen.ins /\ h.scalars = <<left>>
       /\ DOMAIN h.outs = DOMAIN Frozen.outs
       /\ \A j \in DOMAIN Frozen.outs :
            h.outs[j] = IF j \in jsA THEN BlindedOutput(Frozen, j, bfA[j]) ELSE Frozen.outs[j]
  <2> DEFINE scalars == Append(Frozen.scalars, left)
  <2>1. scalars \in Seq(Nat) /\ h = Blinded(Frozen, jsA, bfA, scalars)
    BY <1>8, <1>9
  <2>2. scalars = <<left>>
    BY <1>11
  <2> HIDE DEF scalars, jsA, bfA, left
  <2>3. /\ h.ins = Frozen.ins /\ h.scalars = scalars
        /\ DOMAIN h.outs = DOMAIN Frozen.outs
        /\ \A j \in DOMAIN Frozen.outs :
             h.outs[j] = IF j \in jsA THEN BlindedOutput(Frozen, j, bfA[j]) ELSE Frozen.outs[j]
    BY <1>1, <1>8, <2>1, BlindedType
  <2> QED BY <2>2, <2>3
<1>13. SumFunction(h.scalars) = left
  <2> DEFINE f == <<left>>
  <2>1. DOMAIN f = {1} /\ f[1] = left
    OBVIOUS
  <2>2. IsFiniteSet({}) /\ {} \cup {1} = {1}
    BY FS_EmptySet
  <2>3. \A y \in {} \cup {1} : f[y] \in Int
    BY <1>8, <2>1
  <2> HIDE DEF f, left
  <2>4. SumFunctionOnSet(f, {1}) = f[1] + SumFunctionOnSet(f, {})
    <3>1. 1 \notin {}
      OBVIOUS
    <3> QED BY <2>2, <2>3, <3>1, SumGrows
  <2>5. SumFunctionOnSet(f, {1}) = left
    BY <1>8, <2>1, <2>4, SumOfNothing
  <2> QED BY <1>12, <2>1, <2>5 DEF SumFunction, f
<1>14. /\ taken \in Nat /\ owed \in Nat /\ made \in Nat
       /\ \A j \in jsB : bfB[j] \in Nat
       /\ r = Blinded(h, jsB, bfB, << >>)
  <2> HIDE DEF sB, left
  <2> QED BY <1>1, <1>6, <1>7, <1>13, LastIsBlinded
<1>15. jsA \subseteq DOMAIN Frozen.outs /\ jsB \subseteq DOMAIN Frozen.outs
  BY <1>12 DEF ToBlind
<1>16. \A j \in jsA : h.outs[j].blind # None
  <2>1. ASSUME NEW j \in jsA PROVE h.outs[j].blind # None
    <3>1. h.outs[j] = BlindedOutput(Frozen, j, eA) /\ eA \in Nat
      BY <1>1, <1>12, <1>15, <2>1
    <3>2. BlindedOutput(Frozen, j, eA).blind \in Blinding
      <4>1. j \in DOMAIN Frozen.outs
        BY <1>15
      <4> QED BY <1>1, <3>1, <4>1, BlindedOutputType
    <3> QED BY <3>1, <3>2, NoneAssumption
  <2> QED BY <2>1
<1>17. jsA \cap jsB = {}
  BY <1>16 DEF ToBlind, IsPreblind
<1>18. /\ r.scalars = << >> /\ r.ins = Frozen.ins /\ DOMAIN r.outs = DOMAIN Frozen.outs
       /\ \A j \in DOMAIN Frozen.outs :
            r.outs[j] = IF j \in jsB THEN BlindedOutput(h, j, bfB[j]) ELSE h.outs[j]
  <2> DEFINE none == << >>
  <2>1. none \in Seq(Nat) /\ r = Blinded(h, jsB, bfB, none)
    BY <1>14
  <2> HIDE DEF none, jsB, bfB, r
  <2>2. /\ r.scalars = none /\ r.ins = h.ins /\ DOMAIN r.outs = DOMAIN h.outs
        /\ \A j \in DOMAIN h.outs :
            r.outs[j] = IF j \in jsB THEN BlindedOutput(h, j, bfB[j]) ELSE h.outs[j]
    BY <1>1, <1>14, <2>1, BlindedType
  <2> QED BY <1>12, <2>2 DEF none
<1>19. \A j \in DOMAIN Frozen.outs : \A b :
        j \notin jsA => BlindedOutput(h, j, b) = BlindedOutput(Frozen, j, b)
  <2>1. Utxos(h) = Utxos(Frozen)
    BY <1>12 DEF Utxos
  <2> QED BY <1>12, <2>1 DEF BlindedOutput
<1>20. BothBlinded(r, jsA, jsB, eA, e, made)
  <2>1. ASSUME NEW j \in DOMAIN Frozen.outs
        PROVE  r.outs[j] = IF j \in jsA THEN BlindedOutput(Frozen, j, eA)
                           ELSE IF j \notin jsB THEN Frozen.outs[j]
                           ELSE BlindedOutput(Frozen, j, IF j = LastOf(jsB) THEN made ELSE e)
    <3>1. CASE j \in jsA
      BY <1>12, <1>17, <1>18, <3>1
    <3>2. CASE j \notin jsA /\ j \notin jsB
      BY <1>12, <1>18, <3>2
    <3>3. CASE j \notin jsA /\ j \in jsB
      <4>1. bfB[j] = IF j = LastOf(jsB) THEN made ELSE e
        BY <3>3
      <4> QED BY <1>18, <1>19, <3>3, <4>1
    <3> QED BY <3>1, <3>2, <3>3
  <2> HIDE DEF jsA, jsB, made, r
  <2> QED BY <1>15, <1>17, <1>18, <2>1 DEF BothBlinded
<1>21. eA \in Nat
  BY <1>1
<1> HIDE DEF jsA, jsB
<1> QED BY <1>7, <1>8, <1>10, <1>14, <1>20, <1>21

(* Blinding factors of the outputs: A's entropy from each of A's, B's from *)
(* all but one of B's, and the residual.                                   *)
LEMMA SumOfBlindings ==
  ASSUME NEW D, IsFiniteSet(D), NEW jsA \in SUBSET D, NEW jsB \in SUBSET D,
         jsA \cap jsB = {}, LastOf(jsB) \in jsB,
         NEW eA \in Nat, NEW eB \in Nat, NEW made \in Nat, NEW f,
         \A j \in D : f[j] = Factor(j, jsA, jsB, eA, eB, made),
         NEW n, n = Cardinality(jsA) * eA + (made + (Cardinality(jsB) - 1) * eB)
  PROVE  SumFunctionOnSet(f, D) = n
<1> DEFINE last == LastOf(jsB)
<1>0. /\ last \in jsB
      /\ \A j \in D : f[j] = IF j \in jsA THEN eA
                             ELSE IF j \notin jsB THEN 0
                             ELSE IF j = last THEN made ELSE eB
  BY DEF Factor
<1> HIDE DEF last
<1> DEFINE R == D \ (jsA \cup jsB)
           rest == jsB \ {last}
<1>1. /\ IsFiniteSet(jsA) /\ IsFiniteSet(jsB) /\ IsFiniteSet(R) /\ IsFiniteSet(rest)
      /\ IsFiniteSet(jsB \cup R)
  <2>1. /\ jsA \subseteq D /\ jsB \subseteq D /\ R \subseteq D /\ rest \subseteq D
        /\ jsB \cup R \subseteq D
    OBVIOUS
  <2> HIDE DEF R, rest
  <2> QED BY <2>1, FS_Subset
<1>2. \A j \in D : f[j] \in Int
  BY <1>0
<1>3. D = jsA \cup (jsB \cup R) /\ jsA \cap (jsB \cup R) = {} /\ jsB \cap R = {}
  OBVIOUS
<1>4. SumFunctionOnSet(f, D) = SumFunctionOnSet(f, jsA) + SumFunctionOnSet(f, jsB \cup R)
  <2> DEFINE X == jsB \cup R
  <2>1. IsFiniteSet(X) /\ D = jsA \cup X /\ jsA \cap X = {}
    BY <1>1, <1>3
  <2> HIDE DEF X
  <2>2. \A j \in jsA \cup X : f[j] \in Int
    BY <1>2, <2>1
  <2> QED BY <1>1, <2>1, <2>2, SumOfUnion DEF X
<1>5. SumFunctionOnSet(f, jsB \cup R) = SumFunctionOnSet(f, jsB) + SumFunctionOnSet(f, R)
  <2>1. \A j \in jsB \cup R : f[j] \in Int
    BY <1>2
  <2> HIDE DEF R
  <2> QED BY <1>1, <1>3, <2>1, SumOfUnion
<1>6. SumFunctionOnSet(f, jsA) = Cardinality(jsA) * eA
  <2>1. \A j \in jsA : f[j] = eA
    BY <1>0
  <2>2. eA \in Int
    OBVIOUS
  <2> QED BY <1>1, <2>1, <2>2, SumOfConstant
<1>7. SumFunctionOnSet(f, R) = 0
  <2>1. \A j \in R : f[j] = 0
    BY <1>0
  <2>2. 0 \in Int
    OBVIOUS
  <2>3. Cardinality(R) \in Nat
    BY <1>1, FS_CardinalityType
  <2> HIDE DEF R
  <2>4. SumFunctionOnSet(f, R) = Cardinality(R) * 0
    BY <1>1, <2>1, <2>2, SumOfConstant
  <2> QED BY <2>3, <2>4
<1>8. SumFunctionOnSet(f, rest) = (Cardinality(jsB) - 1) * eB
  <2>1. \A j \in rest : f[j] = eB
    BY <1>0
  <2>2. eB \in Int
    OBVIOUS
  <2>3. Cardinality(rest) = Cardinality(jsB) - 1
    BY <1>0, <1>1, FS_RemoveElement
  <2> HIDE DEF rest
  <2>4. SumFunctionOnSet(f, rest) = Cardinality(rest) * eB
    BY <1>1, <2>1, <2>2, SumOfConstant
  <2> QED BY <2>3, <2>4
<1>9. SumFunctionOnSet(f, jsB) = made + SumFunctionOnSet(f, rest)
  <2>1. \A j \in jsB : f[j] \in Int
    BY <1>2
  <2>2. f[last] = made
    BY <1>0
  <2> QED BY <1>0, <1>1, <2>1, <2>2, SumWithElement
<1>10. /\ SumFunctionOnSet(f, jsA) \in Int /\ SumFunctionOnSet(f, rest) \in Int
  <2>1. (\A j \in jsA : f[j] \in Int) /\ (\A j \in rest : f[j] \in Int)
    BY <1>2
  <2> HIDE DEF rest
  <2> QED BY <1>1, <2>1, SumWithElement
<1> DEFINE a == SumFunctionOnSet(f, jsA)  b == SumFunctionOnSet(f, rest)
<1>11. SumFunctionOnSet(f, D) = a + ((made + b) + 0)
  BY <1>4, <1>5, <1>7, <1>9
<1>12. a \in Int /\ b \in Int
  BY <1>10
<1>13. a + ((made + b) + 0) = a + (made + b)
  <2> HIDE DEF a, b
  <2> QED BY <1>12
<1> QED BY <1>6, <1>8, <1>11, <1>13

(* The inputs are A's and B's.                                             *)
LEMMA SumOfSecrets ==
  ASSUME agreed \in Agreements
  PROVE  \E q \in Int :
           SecretSum(Secrets("A")) + SecretSum(Secrets("B"))
             = SumFunctionOnSet([i \in DOMAIN Frozen.ins |-> Frozen.ins[i].utxo.bf], DOMAIN Frozen.ins)
               + Order * q
<1> DEFINE f == [i \in DOMAIN Frozen.ins |-> Frozen.ins[i].utxo.bf]
           g(x) == [i \in DOMAIN Secrets(x) |-> Secrets(x)[i].bf]
           A == OwnInputs("A")
           B == OwnInputs("B")
<1>1. /\ Frozen \in Pset /\ IsSecrets(Frozen, Secrets("A")) /\ IsSecrets(Frozen, Secrets("B"))
  BY FrozenType DEF Participants
<1>2. A \cup B = DOMAIN Frozen.ins /\ A \cap B = {}
  <2>1. \A i \in DOMAIN Frozen.ins : Frozen.ins[i].utxo.spk \in {"A", "B"}
    BY RoundAssumption DEF Frozen, Participants
  <2> QED BY <2>1 DEF OwnInputs
<1>3. IsFiniteSet(A) /\ IsFiniteSet(B)
  <2>1. IsFiniteSet(DOMAIN Frozen.ins)
    BY <1>1, PsetFields
  <2>2. A \subseteq DOMAIN Frozen.ins /\ B \subseteq DOMAIN Frozen.ins
    BY <1>2
  <2> QED BY <2>1, <2>2, FS_Subset
<1>4. \A i \in A \cup B : f[i] \in Int
  BY <1>1, <1>2, PsetFields DEF PsetInput, Utxo
<1>5. ASSUME NEW x \in Participants
      PROVE  SumFunctionOnSet(g(x), DOMAIN Secrets(x)) = SumFunctionOnSet(f, OwnInputs(x))
  <2>1. DOMAIN Secrets(x) = OwnInputs(x)
    BY DEF Secrets
  <2>2. \A i \in OwnInputs(x) : f[i] = g(x)[i]
    BY <2>1 DEF Secrets, OwnInputs
  <2>3. IsFiniteSet(OwnInputs(x)) /\ \A i \in OwnInputs(x) : f[i] \in Int
    BY <1>3, <1>4 DEF Participants
  <2> HIDE DEF f, g
  <2>4. SumFunctionOnSet(f, OwnInputs(x)) = SumFunctionOnSet(g(x), OwnInputs(x))
    BY <2>2, <2>3, SumOfEquals
  <2> QED BY <2>1, <2>4
<1>6. /\ \E q \in Int : SecretSum(Secrets("A")) = SumFunctionOnSet(g("A"), DOMAIN Secrets("A")) + Order * q
      /\ \E q \in Int : SecretSum(Secrets("B")) = SumFunctionOnSet(g("B"), DOMAIN Secrets("B")) + Order * q
      /\ SecretSum(Secrets("A")) \in Nat /\ SecretSum(Secrets("B")) \in Nat
  BY <1>1, SecretSumType
<1>7. SumFunctionOnSet(f, DOMAIN Frozen.ins) = SumFunctionOnSet(f, A) + SumFunctionOnSet(f, B)
  <2> HIDE DEF f, A, B
  <2> QED BY <1>2, <1>3, <1>4, SumOfUnion
<1>8. SumFunctionOnSet(f, A) \in Int /\ SumFunctionOnSet(f, B) \in Int
  <2>1. (\A i \in A : f[i] \in Int) /\ (\A i \in B : f[i] \in Int)
    BY <1>4
  <2> HIDE DEF f, A, B
  <2> QED BY <1>3, <2>1, SumWithElement
<1> DEFINE a == SumFunctionOnSet(f, A)  b == SumFunctionOnSet(f, B)
           u == SecretSum(Secrets("A"))  v == SecretSum(Secrets("B"))
<1>9. (\E q \in Int : u = a + Order * q) /\ (\E q \in Int : v = b + Order * q)
  <2>1. /\ SumFunctionOnSet(g("A"), DOMAIN Secrets("A")) = a
        /\ SumFunctionOnSet(g("B"), DOMAIN Secrets("B")) = b
    BY <1>5 DEF Participants
  <2> HIDE DEF a, b, g, u, v
  <2> QED BY <1>6, <2>1 DEF u, v
<1>10. a \in Int /\ b \in Int /\ Order \in Int
  BY <1>8, BoundsAssumption
<1>11. \E q \in Int : u + v = (a + b) + Order * q
  <2> HIDE DEF a, b, u, v
  <2>1. PICK q \in Int : u = a + Order * q
    BY <1>9
  <2>2. PICK p \in Int : v = b + Order * p
    BY <1>9
  <2>3. Order * (q + p) = Order * q + Order * p /\ q + p \in Int
    BY <1>10
  <2>4. Order * q \in Int /\ Order * p \in Int
    BY <1>10
  <2>5. u + v = (a + b) + (Order * q + Order * p)
    BY <1>10, <2>1, <2>2, <2>4
  <2> QED BY <2>3, <2>5
<1> QED BY <1>7, <1>11

(* Amounts and blinding factors of the handoff's result add up.            *)
LEMMA BothBlindedBalances ==
  ASSUME agreed \in Agreements, AmountsAgree(Frozen),
         NEW r, NEW jsA, NEW jsB, NEW eA \in Nat, NEW eB \in Nat, NEW taken \in Nat,
         NEW owed \in Nat, NEW left \in Nat, NEW made \in Nat,
         BothBlinded(r, jsA, jsB, eA, eB, made),
         jsB # {}, taken = (Cardinality(jsB) - 1) * eB,
         Cardinality(jsA) * eA \in Nat,
         left = Residual(SecretSum(Secrets("A")), Cardinality(jsA) * eA),
         owed = SecretSum(Secrets("B")) + left,
         made = Residual(owed, taken)
  PROVE  VerifiesFinal(r, Frozen)
<1> DEFINE tx == Extract(r)
           D == DOMAIN Frozen.outs
           I == DOMAIN Frozen.ins
           amounts == [j \in DOMAIN tx.outs |-> tx.outs[j].com.amt]
           factors == [j \in DOMAIN tx.outs |-> tx.outs[j].com.bf]
           given == [i \in I |-> Frozen.ins[i].utxo.bf]
           paid == [i \in I |-> Frozen.ins[i].utxo.amt]
           utxos == Utxos(Frozen)
<1>1. /\ Frozen \in Pset /\ IsFiniteSet(D) /\ IsFiniteSet(I)
      /\ \A j \in D : Frozen.outs[j].amt \in Nat
      /\ \A i \in I : Frozen.ins[i].utxo.bf \in Nat
  BY FrozenType, PsetFields DEF PsetOutput, PsetInput, Utxo
<1>2. Commits(tx, jsA, jsB, eA, eB, made)
  BY BothBlindedCommits
<1>3. /\ r.scalars = << >> /\ jsA \subseteq D /\ jsB \subseteq D /\ jsA \cap jsB = {}
  BY DEF BothBlinded
<1>4. /\ DOMAIN utxos = I
      /\ [i \in DOMAIN utxos |-> utxos[i].bf] = given
      /\ [i \in DOMAIN utxos |-> utxos[i].amt] = paid
  BY DEF Utxos
<1> HIDE DEF tx
<1>5. SumFunction(amounts) = SumFunction(paid)
  <2> DEFINE due == [j \in D |-> Frozen.outs[j].amt]
  <2>1. SumFunction(paid) = SumFunctionOnSet(due, D)
    BY DEF AmountsAgree, ExplicitSum
  <2>2. DOMAIN amounts = D /\ \A j \in D : due[j] \in Int /\ due[j] = amounts[j]
    <3>1. DOMAIN amounts = DOMAIN tx.outs /\ \A j \in DOMAIN tx.outs : amounts[j] = tx.outs[j].com.amt
      OBVIOUS
    <3>2. \A j \in D : due[j] = Frozen.outs[j].amt /\ due[j] \in Int
      BY <1>1
    <3>3. DOMAIN tx.outs = D /\ \A j \in D : tx.outs[j].com.amt = Frozen.outs[j].amt
      BY <1>2 DEF Commits
    <3> HIDE DEF amounts, due
    <3> QED BY <3>1, <3>2, <3>3
  <2> HIDE DEF due, amounts, D
  <2>3. SumFunctionOnSet(due, D) = SumFunctionOnSet(amounts, D)
    BY <1>1, <2>2, SumOfEquals
  <2> QED BY <2>1, <2>2, <2>3 DEF SumFunction
<1>6. SumFunction(factors) % Order = SumFunction(given) % Order
  <2>1. DOMAIN factors = D /\ \A j \in D : factors[j] = Factor(j, jsA, jsB, eA, eB, made)
    <3>1. DOMAIN tx.outs = D
          /\ \A j \in D : tx.outs[j].com.bf = Factor(j, jsA, jsB, eA, eB, made)
      BY <1>2 DEF Commits
    <3> QED BY <3>1
  <2>2. LastOf(jsB) \in jsB
    <3>1. \E j \in jsB : \A k \in jsB : k <= j
      <4>1. jsB \subseteq Int /\ IsFiniteSet(jsB)
        <5>1. D \subseteq Int
          BY <1>1, PsetFields
        <5> QED BY <1>1, <1>3, <5>1, FS_Subset
      <4> QED BY <4>1, HasGreatest
    <3> QED BY <3>1 DEF LastOf
  <2> DEFINE n == SumFunction(factors)  m == SumFunction(given)
             a == Cardinality(jsA) * eA
             u == SecretSum(Secrets("A"))  v == SecretSum(Secrets("B"))
  <2>3. n = a + (made + taken)
    <3>1. SumFunctionOnSet(factors, D)
            = Cardinality(jsA) * eA + (made + (Cardinality(jsB) - 1) * eB)
      <4>1. jsA \in SUBSET D /\ jsB \in SUBSET D
        BY <1>3
      <4> DEFINE k == Cardinality(jsA) * eA + (made + (Cardinality(jsB) - 1) * eB)
      <4>2. k = Cardinality(jsA) * eA + (made + (Cardinality(jsB) - 1) * eB)
        OBVIOUS
      <4>3. jsA \cap jsB = {} /\ IsFiniteSet(D)
        BY <1>1, <1>3
      <4> HIDE DEF factors, D, k
      <4>4. SumFunctionOnSet(factors, D) = k
        BY <2>1, <2>2, <4>1, <4>2, <4>3, SumOfBlindings
      <4> QED BY <4>4 DEF k
    <3> HIDE DEF factors
    <3> QED BY <2>1, <3>1 DEF SumFunction
  <2>4. \E q \in Int : u + v = m + Order * q
    <3>1. DOMAIN given = I
      OBVIOUS
    <3>2. m = SumFunctionOnSet(given, I)
      <4> HIDE DEF given
      <4> QED BY <3>1 DEF SumFunction
    <3> HIDE DEF m, u, v
    <3> QED BY <3>2, SumOfSecrets DEF u, v
  <2>5. u \in Nat /\ v \in Nat
    BY FrozenType, SecretSumType DEF Participants
  <2>6. m \in Int /\ a \in Nat
    <3>1. DOMAIN given = I /\ \A i \in I : given[i] \in Int
      BY <1>1
    <3> HIDE DEF given, I
    <3> QED BY <1>1, <3>1, SumWithElement DEF SumFunction
  <2> HIDE DEF n, m, a, u, v
  <2>7. PICK q1 \in Int : left + a = u + Order * q1
    BY <2>5, <2>6, ResidualMakesUp DEF a, u
  <2>8. PICK q2 \in Int : made + taken = owed + Order * q2
    BY ResidualMakesUp
  <2>9. PICK q3 \in Int : u + v = m + Order * q3
    BY <2>4
  <2> DEFINE q == q1 + q2 + q3
  <2>10. n = m + Order * q
    <3>1. Order \in Int /\ Order * q = Order * q1 + Order * q2 + Order * q3
      BY BoundsAssumption
    <3>2. Order * q1 \in Int /\ Order * q2 \in Int /\ Order * q3 \in Int
      BY <3>1
    <3>3. owed = v + left
      BY DEF v
    <3> HIDE DEF q
    <3> QED BY <2>3, <2>5, <2>6, <2>7, <2>8, <2>9, <3>1, <3>2, <3>3
  <2>11. q \in Int /\ n \in Int /\ Order \in Nat \ {0}
    BY <2>3, <2>6, BoundsAssumption
  <2> HIDE DEF q
  <2>12. n % Order = m % Order
    BY <2>6, <2>10, <2>11, RemainderOfMultiple
  <2> QED BY <2>12 DEF n, m
<1>7. AmountProofsVerify(tx, utxos)
  <2> HIDE DEF utxos
  <2>1. SumFunction([j \in DOMAIN tx.outs |-> tx.outs[j].com.amt])
          = SumFunction([i \in DOMAIN utxos |-> utxos[i].amt])
    BY <1>4, <1>5
  <2>2. SumFunction([j \in DOMAIN tx.outs |-> tx.outs[j].com.bf]) % Order
          = SumFunction([i \in DOMAIN utxos |-> utxos[i].bf]) % Order
    BY <1>4, <1>6
  <2> QED BY <1>2, <2>1, <2>2 DEF AmountProofsVerify, Commits, utxos
<1> QED BY <1>3, <1>7 DEF VerifiesFinal, tx

(* participant_a_blind_non_last, participant_b_blind_last: whatever entropy*)
(* the two use and however many outputs each blinds, an unchanged handoff  *)
(* that is blinded at all passes verify_final.                             *)
THEOREM HandoffBalances == Spec => []UndriftedHandoffBalances
<1>1. TypeOK /\ WireInv => UndriftedHandoffBalances
  <2> SUFFICES ASSUME TypeOK, WireInv, faults = 0, UnblindedShape(Frozen, agreed.roles),
                      AmountsAgree(Frozen), NEW h \in wire, NEW e \in Entropies,
                      BlindLastVerdict(h, Frozen, agreed.roles, Secrets("B"), e) = "Ok"
               PROVE  VerifiesFinal(ForkBlindLast(h, Secrets("B"), e), Frozen)
    BY DEF UndriftedHandoffBalances
  <2> DEFINE r == ForkBlindLast(h, Secrets("B"), e)
  <2>1. PICK jsA, jsB : \E eA, taken, owed, left, made \in Nat :
           /\ BothBlinded(r, jsA, jsB, eA, e, made)
           /\ jsB # {} /\ taken = (Cardinality(jsB) - 1) * e
           /\ Cardinality(jsA) * eA \in Nat
           /\ left = Residual(SecretSum(Secrets("A")), Cardinality(jsA) * eA)
           /\ owed = SecretSum(Secrets("B")) + left
           /\ made = Residual(owed, taken)
    BY HonestHandoff
  <2>2. agreed \in Agreements /\ e \in Nat
    BY RoundAssumption DEF WireInv
  <2> HIDE DEF r
  <2>3. VerifiesFinal(r, Frozen)
    BY <2>1, <2>2, BothBlindedBalances
  <2> QED BY <2>3 DEF r
<1>2. IInv => TypeOK
  BY DEF IInv
<1> QED BY <1>1, <1>2, Invariance, WireInvariance, PTL

=============================================================================
