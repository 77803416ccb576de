------------------------ MODULE OrdinarySpend_proofs ------------------------
(***************************************************************************)
(* What an ordinary spend puts before its signer, for every wallet, plan   *)
(* and generator.                                                          *)
(***************************************************************************)
EXTENDS OrdinarySpend, SumTheorems, TLAPS

(* What makes a blinded PSET fit to be signed for r.                       *)
Good(p, r) ==
  /\ p \in Pset /\ Carries(p, r) /\ Conserves(p)
  /\ ~ p.weak /\ ~ p.witnessed

(* What every stage has established.                                       *)
Prepares ==
  /\ phase \in {"prepare", "build", "layout", "open", "blind"} => Selectable(request)
  /\ phase \in {"layout", "open", "blind"} => Prepared(request)
  /\ phase \in {"decode", "prepare", "build", "layout"} => provided = << >>
  /\ phase \in {"open", "blind"} =>
       /\ layout["ins"] \in Perms(Len(request.rows))
       /\ layout["outs"] \in Perms(Len(request.outs))
  /\ phase = "open" =>
       /\ Len(provided) <= Len(request.rows)
       /\ \A i \in 1..Len(provided) : OpensAsExpected(request.rows[i])
  /\ phase = "blind" =>
       /\ \A i \in DOMAIN request.rows : OpensAsExpected(request.rows[i])
       /\ Balanced(Draft.ins, Draft.outs, request.fee)
  /\ blinding.weak => blinding.failed

Signs ==
  /\ phase \in {"sign", "keys"} => Good(pset, request)
  /\ phase = "publish" => pset \in Pset
  /\ retained # NoPset => phase = "idle" /\ Good(retained, request)
  /\ \A d \in shown : Good(d.pset, d.plan)
  /\ RetainedIsSignable

IInv == TypeOK /\ Prepares /\ Signs

-----------------------------------------------------------------------------
(* Requests are well formed.                                               *)
LEMMA RequestFacts ==
  ASSUME NEW r \in Requests
  PROVE  /\ r \in Request
         /\ r.rows \in Seq(Row) /\ r.outs \in Seq(PlanOutput) /\ r.fee \in Fee
         /\ DOMAIN r.rows = 1..Len(r.rows) /\ DOMAIN r.outs = 1..Len(r.outs)
         /\ Len(r.rows) \in Nat /\ Len(r.outs) \in Nat
         /\ \A i \in DOMAIN r.rows : r.rows[i] \in Row
         /\ \A i \in DOMAIN r.outs : r.outs[i] \in PlanOutput
  BY SpendAssumption DEF Request

LEMMA Distinct ==
  ASSUME NEW r \in Requests, Counted(r), Ascending(r)
  PROVE  Selectable(r)
  <1>1. ASSUME NEW i \in DOMAIN r.rows, NEW j \in DOMAIN r.rows, r.rows[i].at = r.rows[j].at
        PROVE  i = j
    <2>1. r.rows[i].at \in Outpoint
      BY RequestFacts DEF Row
    <2>2. r.rows[i].at.tx \in Nat /\ r.rows[i].at.vout \in Nat
      BY <2>1, LedgerAssumption DEF Outpoint
    <2>3. i \in Nat /\ j \in Nat
      BY RequestFacts
    <2>. QED
      BY <1>1, <2>2, <2>3 DEF Ascending
  <1>. QED
    BY <1>1 DEF Selectable, Counted

(* What is blinded carries the plan and conserves it.                      *)
LEMMA DraftIsGood ==
  ASSUME TypeOK, Prepares, phase = "blind",
         NEW p, p = [ins |-> Draft.ins, outs |-> Draft.outs, fee |-> request.fee,
                     seed |-> entropy, weak |-> FALSE, witnessed |-> FALSE]
  PROVE  Good(p, request)
  <1> DEFINE n == Len(request.rows)
             k == Len(request.outs)
             x == layout["ins"]
             y == layout["outs"]
  <1>1. /\ request \in Requests /\ entropy \in Entropies
        /\ x \in Perms(n) /\ y \in Perms(k)
        /\ n \in Nat /\ k \in Nat
        /\ DOMAIN request.rows = 1..n /\ DOMAIN request.outs = 1..k
        /\ request.rows \in Seq(Row) /\ request.outs \in Seq(PlanOutput) /\ request.fee \in Fee
    BY RequestFacts DEF TypeOK, Prepares
  <1>2. ASSUME NEW i \in 1..n
        PROVE  /\ request.rows[i] \in Row
               /\ RowValid(request.rows[i]) /\ OpensAsExpected(request.rows[i])
    BY <1>1 DEF Prepares, Prepared
  <1>3. Draft.ins = [i \in 1..n |-> Spends(request, x[i])]
    BY <1>1 DEF Draft, Shuffled, Perms
  <1>4. Draft.outs = [i \in 1..k |-> request.outs[y[i]]]
    BY <1>1 DEF Draft, Shuffled, Perms
  <1>. HIDE DEF n, k, x, y
  <1>5. ASSUME NEW i \in 1..n
        PROVE  /\ x[i] \in 1..n
               /\ Draft.ins[i] = [at |-> request.rows[x[i]].at,
                                  asset |-> request.rows[x[i]].asset,
                                  val |-> request.rows[x[i]].val]
               /\ Draft.ins[i].at = request.rows[x[i]].at
    <2>1. x[i] \in 1..n
      BY <1>1 DEF Perms
    <2>2. /\ Spent(request.rows[x[i]].at).asset = request.rows[x[i]].asset
          /\ Spent(request.rows[x[i]].at).val = request.rows[x[i]].val
      BY <1>2, <2>1 DEF OpensAsExpected
    <2>3. Draft.ins[i] = Spends(request, x[i])
      BY <1>3
    <2>. QED
      BY <2>1, <2>2, <2>3 DEF Spends
  <1>6. Carries(p, request)
    <2>1. p.ins = [i \in DOMAIN request.rows |->
                     [at |-> request.rows[x[i]].at, asset |-> request.rows[x[i]].asset,
                      val |-> request.rows[x[i]].val]]
      BY <1>1, <1>3, <1>5
    <2>2. p.outs = [i \in DOMAIN request.outs |-> request.outs[y[i]]] /\ p.fee = request.fee
      BY <1>1, <1>4
    <2>. QED
      BY <1>1, <2>1, <2>2 DEF Carries, n, k
  <1>7. Conserves(p)
    <2>1. ASSUME NEW i \in DOMAIN p.ins, NEW j \in DOMAIN p.ins, p.ins[i].at = p.ins[j].at
          PROVE  i = j
      <3>1. i \in 1..n /\ j \in 1..n
        BY <1>3
      <3>2. request.rows[x[i]].at = request.rows[x[j]].at
        BY <1>5, <2>1, <3>1
      <3>3. x[i] = x[j]
        BY <1>1, <1>5, <3>1, <3>2 DEF Prepares, Selectable
      <3>. QED
        BY <1>1, <3>1, <3>3 DEF Perms
    <2>2. ASSUME NEW i \in DOMAIN p.ins
          PROVE  /\ Spent(p.ins[i].at).spk \in Catalog /\ Opens(Spent(p.ins[i].at))
                 /\ p.ins[i].asset = Spent(p.ins[i].at).asset
                 /\ p.ins[i].val = Spent(p.ins[i].at).val
      <3>1. i \in 1..n
        BY <1>3
      <3>2. RowValid(request.rows[x[i]]) /\ OpensAsExpected(request.rows[x[i]])
        BY <1>2, <1>5, <3>1
      <3>3. p.ins[i] = [at |-> request.rows[x[i]].at, asset |-> request.rows[x[i]].asset,
                        val |-> request.rows[x[i]].val]
        BY <1>5, <3>1
      <3>4. LET o == Spent(request.rows[x[i]].at)
            IN  /\ o.spk \in Catalog /\ Opens(o)
                /\ o.asset = request.rows[x[i]].asset /\ o.val = request.rows[x[i]].val
        BY <3>2 DEF RowValid, OpensAsExpected
      <3>. QED
        BY <3>3, <3>4
    <2>3. \A a \in AssetsOf(p.ins) \cup AssetsOf(Append(p.outs, p.fee)) :
             Total(p.ins, a) = Total(Append(p.outs, p.fee), a)
      BY DEF Prepares, Balanced
    <2>. QED
      BY <2>1, <2>2, <2>3 DEF Conserves
  <1>8. p \in Pset
    <2>1. ASSUME NEW i \in 1..n
          PROVE  Draft.ins[i] \in Facts
      <3>1. request.rows[x[i]] \in Row
        BY <1>2, <1>5
      <3>2. /\ request.rows[x[i]].at \in Outpoint /\ request.rows[x[i]].asset \in STRING
            /\ request.rows[x[i]].val \in Nat
        BY <3>1 DEF Row
      <3>3. Draft.ins[i] = [at |-> request.rows[x[i]].at, asset |-> request.rows[x[i]].asset,
                            val |-> request.rows[x[i]].val]
        BY <1>5
      <3>. QED
        BY <3>2, <3>3 DEF Facts
    <2>2. Draft.ins \in Seq(Facts)
      <3>1. Draft.ins \in [1..n -> Facts]
        BY <1>3, <2>1
      <3>. QED
        BY <1>1, <3>1
    <2>3. ASSUME NEW i \in 1..k
          PROVE  request.outs[y[i]] \in PlanOutput
      BY <1>1, RequestFacts DEF Perms
    <2>4. Draft.outs \in Seq(PlanOutput)
      BY <1>1, <1>4, <2>3
    <2>. QED
      BY <1>1, <2>2, <2>4 DEF Pset
  <1>. QED
    BY <1>6, <1>7, <1>8 DEF Good

-----------------------------------------------------------------------------
LEMMA InitHolds == Init => IInv
  <1> SUFFICES ASSUME Init PROVE IInv
    OBVIOUS
  <1>1. TypeOK
    <2>1. /\ via \in {"native", "ffi"} /\ request \in Requests /\ entropy \in Entropies
          /\ phase \in Phases /\ layout = NoLayout
          /\ provided \in Seq(Outpoint)
      BY DEF Init, Phases
    <2>2. blinding \in [drawn : 0..BlindDraws, failed : BOOLEAN, weak : BOOLEAN]
      BY SpendAssumption DEF Init, Fresh
    <2>3. /\ pset = NoPset /\ retained = NoPset /\ answer.transaction = NoPset
          /\ shown = {} /\ keys = 0 /\ sigs = 0
      BY DEF Init, Pending
    <2>4. MaxCalls \in Nat
      BY SpendAssumption
    <2>5. calls \in 0..MaxCalls
      BY <2>4 DEF Init
    <2>. QED
      BY <2>1, <2>2, <2>3, <2>5 DEF TypeOK
  <1>2. Prepares
    BY DEF Init, Prepares, Fresh
  <1>3. Signs
    BY DEF Init, Signs, RetainedIsSignable, Pending
  <1>. QED
    BY <1>1, <1>2, <1>3 DEF IInv

(* A preparation that is refused leaves everything else as it was.         *)
Refused ==
  /\ phase # "idle" /\ phase' = "idle"
  /\ answer'.transaction = NoPset /\ answer'.reason # "InvalidBlindedPset"
  /\ UNCHANGED <<via, request, entropy, layout, blinding, pset, keys, sigs, retained,
                 shown, calls>>

LEMMA RefusalKeeps ==
  ASSUME IInv, Refused, provided' \in Seq(Outpoint)
  PROVE  IInv'
  <1>1. TypeOK'
    BY DEF Refused, IInv, TypeOK, Phases
  <1>2. Prepares'
    BY DEF Refused, IInv, Prepares
  <1>3. Signs'
    BY DEF Refused, IInv, Signs, RetainedIsSignable
  <1>. QED
    BY <1>1, <1>2, <1>3 DEF IInv

LEMMA BeginKeeps ==
  ASSUME IInv, NEW v \in {"native", "ffi"}, NEW r \in Requests, NEW e \in Entropies,
         Begin(v, r, e)
  PROVE  IInv'
  <1>1. TypeOK'
    <2>1. /\ via' \in {"native", "ffi"} /\ request' \in Requests /\ entropy' \in Entropies
          /\ phase' \in Phases /\ layout' = NoLayout
          /\ provided' \in Seq(Outpoint)
      BY DEF Begin, Phases
    <2>2. blinding' \in [drawn : 0..BlindDraws, failed : BOOLEAN, weak : BOOLEAN]
      BY SpendAssumption DEF Begin, Fresh
    <2>3. /\ pset' = NoPset /\ retained' = NoPset /\ answer'.transaction = NoPset
          /\ shown' = shown /\ keys' = 0 /\ sigs' = 0
      BY DEF Begin, Pending
    <2>4. MaxCalls \in Nat /\ calls \in 0..MaxCalls
      BY SpendAssumption DEF IInv, TypeOK
    <2>5. calls' \in 0..MaxCalls
      BY <2>4 DEF Begin
    <2>. QED
      BY <2>1, <2>2, <2>3, <2>5 DEF IInv, TypeOK
  <1>2. Prepares'
    BY DEF IInv, Prepares, Begin, Fresh
  <1>3. Signs'
    BY DEF IInv, Signs, Begin, RetainedIsSignable, Pending
  <1>. QED
    BY <1>1, <1>2, <1>3 DEF IInv

(* The stages before the opening.                                          *)
LEMMA PlanningKeeps ==
  ASSUME IInv, Decode \/ Prepare \/ Build \/ LayOut
  PROVE  IInv'
  <1>1. request \in Requests /\ entropy \in Entropies /\ provided \in Seq(Outpoint)
    BY DEF IInv, TypeOK
  <1>3. CASE Decode /\ phase' = "prepare" /\ UNCHANGED <<answer, pset, retained>>
    <2>1. Selectable(request)
      BY <1>1, <1>3, Distinct DEF Decode, Refuse, Answer
    <2>2. TypeOK'
      BY <1>3 DEF IInv, TypeOK, Decode, Phases, call, inputs
    <2>3. Prepares'
      BY <1>3, <2>1 DEF IInv, Prepares, Decode, call, inputs
    <2>4. Signs'
      BY <1>3 DEF IInv, Signs, Decode, call, inputs, RetainedIsSignable
    <2>. QED
      BY <2>2, <2>3, <2>4 DEF IInv
  <1>4. CASE Prepare /\ phase' = "build" /\ UNCHANGED <<answer, pset, retained>>
    <2>2. TypeOK'
      BY <1>4 DEF IInv, TypeOK, Prepare, Phases, call, inputs
    <2>3. Prepares'
      BY <1>4 DEF IInv, Prepares, Prepare, call, inputs
    <2>4. Signs'
      BY <1>4 DEF IInv, Signs, Prepare, call, inputs, RetainedIsSignable
    <2>. QED
      BY <2>2, <2>3, <2>4 DEF IInv
  <1>5. CASE Build /\ phase' = "layout" /\ UNCHANGED <<answer, pset, retained>>
    <2>1. Prepared(request)
      BY <1>5 DEF Build, Refuse, Answer
    <2>2. TypeOK'
      BY <1>5 DEF IInv, TypeOK, Build, Phases, call, inputs
    <2>3. Prepares'
      BY <1>5, <2>1 DEF IInv, Prepares, Build, call, inputs
    <2>4. Signs'
      BY <1>5 DEF IInv, Signs, Build, call, inputs, RetainedIsSignable
    <2>. QED
      BY <2>2, <2>3, <2>4 DEF IInv
  <1>6. CASE LayOut /\ phase' = "open" /\ UNCHANGED <<answer, pset, retained>>
    <2>1. /\ layout'["ins"] \in Perms(Len(request.rows))
          /\ layout'["outs"] \in Perms(Len(request.outs))
      BY <1>1, <1>6, SpendAssumption DEF LayOut, Sides, Refuse, Answer
    <2>2. TypeOK'
      BY <1>6, <2>1 DEF IInv, TypeOK, LayOut, Phases, call
    <2>3. Prepares'
      BY <1>6, <2>1 DEF IInv, Prepares, LayOut, call
    <2>4. Signs'
      BY <1>6 DEF IInv, Signs, LayOut, call, RetainedIsSignable
    <2>. QED
      BY <2>2, <2>3, <2>4 DEF IInv
  <1>7. CASE Decode
    <2>1. CASE \E reason \in {"LIMIT_EXCEEDED", "INVALID_ENCODING"} : Refuse(reason)
      <3>1. Refused /\ UNCHANGED provided
        BY <1>7, <2>1 DEF Decode, Refuse, Answer, Refused, call, inputs
      <3>. QED
        BY <1>1, <3>1, RefusalKeeps
    <2>. QED
      BY <1>3, <1>7, <2>1 DEF Decode
  <1>8. CASE Prepare
    <2>1. CASE \E reason \in {"PLAN_REJECTED", "FUNDING_REJECTED"} : Refuse(reason)
      <3>1. Refused /\ UNCHANGED provided
        BY <1>8, <2>1 DEF Prepare, Refuse, Answer, Refused, call, inputs
      <3>. QED
        BY <1>1, <3>1, RefusalKeeps
    <2>. QED
      BY <1>4, <1>8, <2>1 DEF Prepare
  <1>9. CASE Build
    <2>1. CASE \E reason \in {"InvalidPlan", "InvalidFunding"} : Refuse(reason)
      <3>1. Refused /\ UNCHANGED provided
        BY <1>9, <2>1 DEF Build, Refuse, Answer, Refused, call, inputs
      <3>. QED
        BY <1>1, <3>1, RefusalKeeps
    <2>. QED
      BY <1>5, <1>9, <2>1 DEF Build
  <1>10. CASE LayOut
    <2>1. CASE Refuse("RandomnessUnavailable") /\ UNCHANGED layout
      <3>1. Refused /\ UNCHANGED provided
        BY <1>10, <2>1 DEF LayOut, Refuse, Answer, Refused, call
      <3>. QED
        BY <1>1, <3>1, RefusalKeeps
    <2>. QED
      BY <1>6, <1>10, <2>1 DEF LayOut
  <1>. QED
    BY <1>7, <1>8, <1>9, <1>10

(* The provider, the construction and the blinding.                        *)
LEMMA OpeningKeeps ==
  ASSUME IInv, Open \/ Construct \/ DrawBlinding \/ Blind
  PROVE  IInv'
  <1>1. /\ request \in Requests /\ provided \in Seq(Outpoint)
        /\ request.rows \in Seq(Row) /\ Len(request.rows) \in Nat
        /\ DOMAIN request.rows = 1..Len(request.rows)
    BY RequestFacts DEF IInv, TypeOK
  <1>2. CASE Open
    <2> DEFINE k == Len(provided) + 1
    <2>1. /\ phase = "open" /\ k \in 1..Len(request.rows) /\ Len(provided) \in Nat
          /\ provided' = Append(provided, request.rows[k].at)
      BY <1>1, <1>2 DEF Open
    <2>2. provided' \in Seq(Outpoint) /\ Len(provided') = k
      <3>1. request.rows[k].at \in Outpoint
        BY <1>1, <2>1, RequestFacts DEF Row
      <3>. QED
        BY <1>1, <2>1, <3>1
    <2>3. CASE Refuse("InvalidSelectedOutput")
      <3>1. Refused
        BY <1>2, <2>3 DEF Open, Refuse, Answer, Refused, call
      <3>. QED
        BY <2>2, <3>1, RefusalKeeps
    <2>4. CASE OpensAsExpected(request.rows[k]) /\ UNCHANGED <<phase, answer, pset, retained>>
      <3>1. TypeOK'
        BY <1>2, <2>2, <2>4 DEF IInv, TypeOK, Open, call
      <3>2. UNCHANGED <<request, layout, blinding, phase>>
        BY <1>2, <2>4 DEF Open, call
      <3>3. \A i \in 1..k : OpensAsExpected(request.rows[i])
        BY <2>1, <2>4 DEF IInv, Prepares
      <3>. HIDE DEF k
      <3>4. Prepares'
        BY <2>1, <2>2, <3>2, <3>3 DEF IInv, Prepares
      <3>5. Signs'
        BY <1>2, <2>4 DEF IInv, Signs, Open, call, RetainedIsSignable
      <3>. QED
        BY <3>1, <3>4, <3>5 DEF IInv
    <2>. QED
      BY <1>2, <2>3, <2>4 DEF Open
  <1>3. CASE Construct
    <2>1. CASE Refuse("InvalidPlan")
      <3>1. Refused /\ UNCHANGED provided
        BY <1>3, <2>1 DEF Construct, Refuse, Answer, Refused, call, inputs
      <3>. QED
        BY <1>1, <3>1, RefusalKeeps
    <2>2. CASE /\ Balanced(Draft.ins, Draft.outs, request.fee)
               /\ phase' = "blind" /\ UNCHANGED <<answer, pset, retained>>
      <3>1. TypeOK'
        BY <1>3, <2>2 DEF IInv, TypeOK, Construct, Phases, call, inputs
      <3>2. UNCHANGED <<request, layout, provided, blinding>>
        BY <1>3, <2>2 DEF Construct, call, inputs
      <3>3. Draft' = Draft
        BY <3>2 DEF Draft, Spends, Shuffled
      <3>4. Balanced(Draft.ins, Draft.outs, request.fee)'
        BY <2>2, <3>2, <3>3 DEF Balanced
      <3>5. /\ phase = "open" /\ Selectable(request) /\ Prepared(request)
            /\ \A i \in DOMAIN request.rows : OpensAsExpected(request.rows[i])
        BY <1>1, <1>3 DEF Construct, IInv, Prepares
      <3>6. Prepares'
        BY <2>2, <3>2, <3>4, <3>5 DEF IInv, Prepares
      <3>7. Signs'
        BY <1>3, <2>2 DEF IInv, Signs, Construct, call, inputs, RetainedIsSignable
      <3>. QED
        BY <3>1, <3>6, <3>7 DEF IInv
    <2>. QED
      BY <1>3, <2>1, <2>2 DEF Construct
  <1>4. CASE DrawBlinding
    <2>1. /\ UNCHANGED <<via, request, entropy, phase, layout, provided, pset, keys, sigs,
                         retained, shown, answer, calls>>
          /\ phase = "blind" /\ blinding.drawn < BlindDraws
      BY <1>4 DEF DrawBlinding, call, signing
    <2>2. PICK ok \in BOOLEAN : blinding' = FillFromSource(blinding, ok)
      BY <1>4 DEF DrawBlinding
    <2>3. blinding \in [drawn : 0..BlindDraws, failed : BOOLEAN, weak : BOOLEAN]
          /\ BlindDraws \in Nat
      BY SpendAssumption DEF IInv, TypeOK
    <2>4. /\ blinding' \in [drawn : 0..BlindDraws, failed : BOOLEAN, weak : BOOLEAN]
          /\ blinding'.weak => blinding'.failed
      BY <2>1, <2>2, <2>3 DEF FillFromSource, IInv, Prepares
    <2>5. Draft' = Draft
      BY <2>1 DEF Draft, Spends, Shuffled
    <2>6. Balanced(Draft.ins, Draft.outs, request.fee)'
      BY <2>1, <2>5 DEF Balanced, IInv, Prepares
    <2>7. TypeOK'
      BY <2>1, <2>4 DEF IInv, TypeOK
    <2>8. Prepares'
      BY <2>1, <2>4, <2>6 DEF IInv, Prepares
    <2>9. Signs'
      BY <2>1 DEF IInv, Signs, RetainedIsSignable
    <2>. QED
      BY <2>7, <2>8, <2>9 DEF IInv
  <1>5. CASE Blind
    <2>1. CASE Refuse("BlindingFailed")
      <3>1. Refused /\ UNCHANGED provided
        BY <1>5, <2>1 DEF Blind, Refuse, Answer, Refused, call, inputs
      <3>. QED
        BY <1>1, <3>1, RefusalKeeps
    <2>2. CASE phase' = "sign"
      <3>1. pset' = [ins |-> Draft.ins, outs |-> Draft.outs, fee |-> request.fee,
                     seed |-> entropy, weak |-> FALSE, witnessed |-> FALSE]
        BY <1>5, <2>2 DEF Blind, Refuse, Answer, IInv, Prepares, TypeOK
      <3>2. Good(pset', request)
        BY <1>5, <3>1, DraftIsGood DEF Blind, IInv
      <3>3. UNCHANGED <<via, request, entropy, layout, provided, blinding, keys, sigs,
                        retained, shown, answer, calls>>
        BY <1>5, <2>2 DEF Blind, Refuse, Answer, call, inputs
      <3>4. phase = "blind"
        BY <1>5 DEF Blind
      <3>5. TypeOK'
        BY <2>2, <3>2, <3>3 DEF IInv, TypeOK, Phases, Good
      <3>6. Prepares'
        BY <2>2, <3>3 DEF IInv, Prepares
      <3>7. Signs'
        BY <2>2, <3>2, <3>3, <3>4 DEF IInv, Signs, RetainedIsSignable
      <3>. QED
        BY <3>5, <3>6, <3>7 DEF IInv
    <2>. QED
      BY <1>5, <2>1, <2>2 DEF Blind
  <1>. QED
    BY <1>2, <1>3, <1>4, <1>5

(* A signing that is refused hands back the PSET as it was blinded.        *)
HandedBack ==
  /\ phase \in {"sign", "keys"} /\ phase' = "idle"
  /\ answer'.transaction = NoPset /\ answer'.reason # "InvalidBlindedPset"
  /\ pset' = NoPset /\ retained' \in {pset, NoPset}
  /\ keys' \in Nat /\ sigs' \in Nat
  /\ UNCHANGED <<via, request, entropy, layout, provided, blinding, calls>>

LEMMA HandedBackKeeps ==
  ASSUME IInv, HandedBack,
         \A d \in shown' : d.plan \in Requests /\ Good(d.pset, d.plan)
  PROVE  IInv'
  <1>1. Good(pset, request)
    BY DEF HandedBack, IInv, Signs
  <1>2. TypeOK'
    BY <1>1 DEF HandedBack, IInv, TypeOK, Phases, Good
  <1>3. Prepares'
    BY DEF HandedBack, IInv, Prepares
  <1>4. Signs'
    BY <1>1 DEF HandedBack, IInv, Signs, RetainedIsSignable
  <1>. QED
    BY <1>2, <1>3, <1>4 DEF IInv

LEMMA SigningKeeps ==
  ASSUME IInv, StartSigning \/ AskKey \/ AskDigest
  PROVE  IInv'
  <1>1. /\ request \in Requests /\ keys \in Nat /\ sigs \in Nat
        /\ \A d \in shown : d.plan \in Requests /\ Good(d.pset, d.plan)
    BY DEF IInv, TypeOK, Signs
  <1>2. Good(pset, request)
    BY DEF StartSigning, AskKey, AskDigest, IInv, Signs
  <1>3. CASE StartSigning
    <2>1. /\ phase = "sign" /\ phase' = "keys"
          /\ UNCHANGED <<via, request, entropy, layout, provided, blinding, pset, keys, sigs,
                         answer, retained, shown, calls>>
      BY <1>2, <1>3 DEF StartSigning, Signable, Good, call, inputs
    <2>2. TypeOK'
      BY <2>1 DEF IInv, TypeOK, Phases
    <2>3. Prepares'
      BY <2>1 DEF IInv, Prepares
    <2>4. Signs'
      BY <2>1 DEF IInv, Signs, RetainedIsSignable
    <2>. QED
      BY <2>2, <2>3, <2>4 DEF IInv
  <1>4. CASE AskKey
    <2>1. PICK a \in KeyAnswers :
            /\ \/ /\ a = "owner"
                  /\ keys' = keys + 1
                  /\ UNCHANGED <<phase, answer, pset, retained>>
               \/ /\ a # "owner"
                  /\ RefuseSigning(KeyFault(a), pset)
                  /\ UNCHANGED keys
      BY <1>4 DEF AskKey
    <2>2. phase = "keys" /\ UNCHANGED <<via, request, entropy, layout, provided, blinding,
                                        sigs, shown, calls>>
      BY <1>4 DEF AskKey, call, inputs
    <2>3. CASE RefuseSigning(KeyFault(a), pset) /\ UNCHANGED keys
      <3>1. KeyFault(a) # "InvalidBlindedPset"
        BY DEF KeyFault
      <3>2. HandedBack
        BY <1>1, <2>1, <2>2, <2>3, <3>1 DEF HandedBack, RefuseSigning, Answer
      <3>. QED
        BY <1>1, <2>2, <3>2, HandedBackKeeps
    <2>4. CASE keys' = keys + 1 /\ UNCHANGED <<phase, answer, pset, retained>>
      <3>1. keys' \in Nat
        BY <1>1, <2>1, <2>4
      <3>2. TypeOK'
        BY <2>2, <2>4, <3>1 DEF IInv, TypeOK
      <3>3. Prepares'
        BY <2>2, <2>4 DEF IInv, Prepares
      <3>4. Signs'
        BY <2>2, <2>4 DEF IInv, Signs, RetainedIsSignable
      <3>. QED
        BY <3>2, <3>3, <3>4 DEF IInv
    <2>. QED
      BY <2>1, <2>3, <2>4
  <1>5. CASE AskDigest
    <2>1. PICK a \in DigestAnswers :
            /\ \/ /\ a = "good"
                  /\ sigs' = sigs + 1
                  /\ UNCHANGED <<phase, answer, pset, retained>>
               \/ /\ a # "good"
                  /\ RefuseSigning(SignatureFault(a), pset)
                  /\ UNCHANGED sigs
      BY <1>5 DEF AskDigest
    <2>2. phase = "keys" /\ UNCHANGED <<via, request, entropy, layout, provided, blinding,
                                        keys, calls>>
      BY <1>5 DEF AskDigest, call, inputs
    <2>3. \A d \in shown' : d.plan \in Requests /\ Good(d.pset, d.plan)
      <3>1. shown' = shown \cup {[plan |-> request, pset |-> pset, input |-> sigs + 1]}
        BY <1>5 DEF AskDigest
      <3>. QED
        BY <1>1, <1>2, <3>1
    <2>4. CASE RefuseSigning(SignatureFault(a), pset) /\ UNCHANGED sigs
      <3>1. SignatureFault(a) # "InvalidBlindedPset"
        BY DEF SignatureFault
      <3>2. HandedBack
        BY <1>1, <2>1, <2>2, <2>4, <3>1 DEF HandedBack, RefuseSigning, Answer
      <3>. QED
        BY <2>3, <3>2, HandedBackKeeps
    <2>5. CASE sigs' = sigs + 1 /\ UNCHANGED <<phase, answer, pset, retained>>
      <3>1. sigs' \in Nat
        BY <1>1, <2>1, <2>5
      <3>2. TypeOK'
        BY <2>2, <2>3, <2>5, <3>1 DEF IInv, TypeOK, Good
      <3>3. Prepares'
        BY <2>2, <2>5 DEF IInv, Prepares
      <3>4. Signs'
        BY <2>2, <2>3, <2>5 DEF IInv, Signs, RetainedIsSignable
      <3>. QED
        BY <3>2, <3>3, <3>4 DEF IInv
    <2>. QED
      BY <2>1, <2>4, <2>5
  <1>. QED
    BY <1>3, <1>4, <1>5

LEMMA EndingKeeps ==
  ASSUME IInv, Finalize \/ Publish \/ Retry
  PROVE  IInv'
  <1>1. CASE Finalize
    <2> DEFINE final == [pset EXCEPT !.witnessed = TRUE]
    <2>1. Good(pset, request)
      BY <1>1 DEF Finalize, IInv, Signs
    <2>2. pset \in Pset /\ pset.witnessed = FALSE
      BY <2>1 DEF Good, Pset
    <2>3. final \in Pset /\ WithoutWitnesses(final) = pset
      BY <2>2 DEF Pset, WithoutWitnesses
    <2>4. phase = "keys" /\ UNCHANGED <<via, request, entropy, layout, provided, blinding, keys,
                                        sigs, shown, calls>>
      BY <1>1 DEF Finalize, call, inputs
    <2>5. CASE phase' = "publish" /\ pset' = final /\ UNCHANGED <<answer, retained>>
      <3>. HIDE DEF final
      <3>1. TypeOK'
        BY <2>3, <2>4, <2>5 DEF IInv, TypeOK, Phases
      <3>2. Prepares'
        BY <2>4, <2>5 DEF IInv, Prepares
      <3>3. Signs'
        BY <2>3, <2>4, <2>5 DEF IInv, Signs, RetainedIsSignable
      <3>. QED
        BY <3>1, <3>2, <3>3 DEF IInv
    <2>6. CASE RefuseSigning("FinalizationFailed", WithoutWitnesses(final))
      <3>1. HandedBack
        BY <2>3, <2>4, <2>6 DEF HandedBack, RefuseSigning, Answer, IInv, TypeOK
      <3>2. \A d \in shown' : d.plan \in Requests /\ Good(d.pset, d.plan)
        BY <2>4 DEF IInv, TypeOK, Signs
      <3>. QED
        BY <3>1, <3>2, HandedBackKeeps
    <2>. QED
      BY <1>1, <2>5, <2>6 DEF Finalize
  <1>2. CASE Publish
    <2>1. /\ phase = "publish" /\ phase' = "idle" /\ pset' = NoPset
          /\ answer'.transaction \in {pset, NoPset} /\ answer'.reason # "InvalidBlindedPset"
          /\ UNCHANGED <<via, request, entropy, layout, provided, blinding, keys, sigs, retained,
                         shown, calls>>
      BY <1>2 DEF Publish, Answer, call, inputs
    <2>2. TypeOK'
      BY <2>1 DEF IInv, TypeOK, Phases
    <2>3. Prepares'
      BY <2>1 DEF IInv, Prepares
    <2>4. Signs'
      BY <2>1 DEF IInv, Signs, RetainedIsSignable
    <2>. QED
      BY <2>2, <2>3, <2>4 DEF IInv
  <1>3. CASE Retry
    <2>1. /\ phase = "idle" /\ phase' = "sign" /\ pset' = retained /\ retained' = NoPset
          /\ keys' = 0 /\ sigs' = 0
          /\ answer'.transaction = NoPset /\ answer'.reason = "none"
          /\ calls' = calls + 1 /\ calls < MaxCalls
          /\ UNCHANGED <<via, request, entropy, layout, provided, blinding, shown>>
      BY <1>3 DEF Retry, Pending, call, inputs
    <2>2. Good(retained, request)
      BY <1>3 DEF Retry, IInv, Signs
    <2>3. calls' \in 0..MaxCalls
      <3>1. MaxCalls \in Nat /\ calls \in 0..MaxCalls
        BY SpendAssumption DEF IInv, TypeOK
      <3>. QED
        BY <2>1, <3>1
    <2>4. TypeOK'
      BY <2>1, <2>2, <2>3 DEF IInv, TypeOK, Phases, Good
    <2>5. Prepares'
      BY <2>1 DEF IInv, Prepares
    <2>6. Signs'
      BY <2>1, <2>2 DEF IInv, Signs, RetainedIsSignable
    <2>. QED
      BY <2>4, <2>5, <2>6 DEF IInv
  <1>. QED
    BY <1>1, <1>2, <1>3

LEMMA StutterKeeps ==
  ASSUME IInv, UNCHANGED vars
  PROVE  IInv'
  <1>0. UNCHANGED <<via, request, entropy, phase, layout, provided, blinding, pset, keys, sigs,
                    answer, retained, shown, calls>>
    BY DEF vars
  <1>1. TypeOK'
    BY <1>0 DEF IInv, TypeOK
  <1>2. Draft' = Draft
    BY <1>0 DEF Draft, Spends, Shuffled
  <1>3. phase = "blind" => Balanced(Draft.ins, Draft.outs, request.fee)'
    BY <1>0, <1>2 DEF Balanced, IInv, Prepares
  <1>4. Prepares'
    BY <1>0, <1>3 DEF IInv, Prepares
  <1>5. Signs'
    BY <1>0 DEF IInv, Signs, RetainedIsSignable
  <1>. QED
    BY <1>1, <1>4, <1>5 DEF IInv

(* What each phase of a spend has established, and that whatever is blinded,   *)
(* retained or shown is good for its own plan, is kept by every step.          *)
THEOREM Inductive == Spec => []IInv
  <1>1. IInv /\ [Next]_vars => IInv'
    <2> SUFFICES ASSUME IInv, [Next]_vars PROVE IInv'
      OBVIOUS
    <2>1. CASE \E v \in {"native", "ffi"}, r \in Requests, e \in Entropies : Begin(v, r, e)
      BY <2>1, BeginKeeps
    <2>2. CASE Decode \/ Prepare \/ Build \/ LayOut
      BY <2>2, PlanningKeeps
    <2>3. CASE Open \/ Construct \/ DrawBlinding \/ Blind
      BY <2>3, OpeningKeeps
    <2>4. CASE StartSigning \/ AskKey \/ AskDigest
      BY <2>4, SigningKeeps
    <2>5. CASE Finalize \/ Publish \/ Retry
      BY <2>5, EndingKeeps
    <2>6. CASE UNCHANGED vars
      BY <2>6, StutterKeeps
    <2>. QED
      BY <2>1, <2>2, <2>3, <2>4, <2>5, <2>6 DEF Next, Step
  <1>. QED
    BY InitHolds, <1>1, PTL DEF Spec

(* Every variable keeps its type, in every wallet and for every plan.      *)
THEOREM TypeCorrect == Spec => []TypeOK
  <1>1. IInv => TypeOK
    BY DEF IInv
  <1>. QED
    BY <1>1, Inductive, PTL

(* What the signer is asked carries its plan and conserves every asset.    *)
THEOREM PlanIsSigned == Spec => []DigestIsOfThePlan
  <1>1. IInv => DigestIsOfThePlan
    BY DEF IInv, Signs, Good, DigestIsOfThePlan
  <1>. QED
    BY <1>1, Inductive, PTL

(* No PSET blinded with fallback bytes is put before the signer.           *)
THEOREM FreshIsSigned == Spec => []FallbackIsNeverSigned
  <1>1. IInv => FallbackIsNeverSigned
    BY DEF IInv, Signs, Good, FallbackIsNeverSigned
  <1>. QED
    BY <1>1, Inductive, PTL

(* What a failed signing leaves behind never stops a retry.                *)
THEOREM Retriable == Spec => []RetainedIsSignable
  <1>1. IInv => RetainedIsSignable
    BY DEF IInv, Signs
  <1>. QED
    BY <1>1, Inductive, PTL

(* The signer is asked for no digest before it gave the key of every       *)
(* input.                                                                  *)
THEOREM KeysFirst == Spec => NoDigestBeforeKeys
  <1>1. [Next]_vars => [shown' # shown => keys = Len(pset.ins)]_vars
    <2> SUFFICES ASSUME Next, shown' # shown PROVE keys = Len(pset.ins)
      OBVIOUS
    <2>1. AskDigest
      BY DEF Next, Step, Begin, Decode, Prepare, Build, LayOut, Open, Construct, DrawBlinding,
             Blind, StartSigning, AskKey, Finalize, Publish, Retry, signing
    <2>. QED
      BY <2>1 DEF AskDigest, KeysSuffice
  <1>. QED
    BY <1>1, PTL DEF Spec, NoDigestBeforeKeys

-----------------------------------------------------------------------------
(* A total per asset is a sum of values over the rows with that asset.     *)
Values(s) == [i \in DOMAIN s |-> s[i].val]
With(s, asset) == {i \in DOMAIN s : s[i].asset = asset}

LEMMA TotalIsSum ==
  ASSUME NEW s, NEW asset, IsFiniteSet(DOMAIN s)
  PROVE  Total(s, asset) = SumFunctionOnSet(Values(s), With(s, asset))
  <1> DEFINE T == With(s, asset)
             Q(k) == k = [t \in SUBSET T |-> IF t = {} THEN 0
                                             ELSE s[Least(t)].val + k[t \ {Least(t)}]]
             h == CHOOSE k : Q(k)
  <1>1. T \subseteq DOMAIN s /\ IsFiniteSet(T)
    <2>1. T \subseteq DOMAIN s
      BY DEF With
    <2>. QED
      BY <2>1, FS_Subset
  <1>2. Total(s, asset) = h[T]
    BY DEF Total, MapThenSumSet, MapThenFoldSet, Least, With
  <1>. HIDE DEF T
  <1>3. ASSUME NEW k
        PROVE  SumsOver(Values(s), T, k) <=> Q(k)
    <2>1. ASSUME NEW t \in SUBSET T, t # {}
          PROVE  Values(s)[Least(t)] = s[Least(t)].val
      BY <1>1, <2>1, LeastIsMember DEF Values
    <2>2. [t \in SUBSET T |-> IF t = {} THEN 0
                              ELSE s[Least(t)].val + k[t \ {Least(t)}]]
            = [t \in SUBSET T |-> IF t = {} THEN 0
                                  ELSE Values(s)[Least(t)] + k[t \ {Least(t)}]]
      BY <2>1
    <2>. QED
      BY <2>2 DEF SumsOver
  <1>4. PICK g : SumsOver(Values(s), T, g)
    BY <1>1, SumsExist
  <1>5. Q(g)
    BY <1>3, <1>4
  <1>. HIDE DEF Q
  <1>6. Q(h)
    BY <1>5
  <1>. HIDE DEF h
  <1>7. SumsOver(Values(s), T, h)
    BY <1>3, <1>6
  <1>8. SumFunctionOnSet(Values(s), T) = h[T]
    <2>1. T \in SUBSET T
      OBVIOUS
    <2>. QED
      BY <1>1, <1>7, <2>1, SumIsOfSolution
  <1>. QED
    BY <1>2, <1>8 DEF T

(* s holds what t does, row by row where p puts it.                        *)
Reorders(s, t, p) ==
  /\ IsFiniteSet(DOMAIN s) /\ IsFiniteSet(DOMAIN t)
  /\ \A i \in DOMAIN s : p[i] \in DOMAIN t
  /\ \A i, j \in DOMAIN s : p[i] = p[j] => i = j
  /\ \A j \in DOMAIN t : \E i \in DOMAIN s : p[i] = j
  /\ \A i \in DOMAIN s : /\ s[i].asset = t[p[i]].asset
                         /\ s[i].val = t[p[i]].val /\ s[i].val \in Int

LEMMA OrderDoesNotMatter ==
  ASSUME NEW s, NEW t, NEW p, Reorders(s, t, p)
  PROVE  /\ AssetsOf(s) = AssetsOf(t)
         /\ \A a : Total(s, a) = Total(t, a)
  <1>1. AssetsOf(s) = AssetsOf(t)
    BY DEF Reorders, AssetsOf
  <1>2. ASSUME NEW a
        PROVE  Total(s, a) = Total(t, a)
    <2> DEFINE S == With(s, a)
               f == Values(s)
               g == Values(t)
    <2>1. S \subseteq DOMAIN s /\ IsFiniteSet(S)
      <3>1. S \subseteq DOMAIN s
        BY DEF With
      <3>. QED
        BY <3>1, FS_Subset DEF Reorders
    <2>2. {p[x] : x \in S} = With(t, a)
      BY DEF Reorders, With
    <2>3. \A x \in S : f[x] \in Int /\ g[p[x]] = f[x]
      BY <2>1 DEF Reorders, Values
    <2>4. \A x, y \in S : p[x] = p[y] => x = y
      BY <2>1 DEF Reorders
    <2>. HIDE DEF S, f, g
    <2>5. SumFunctionOnSet(f, S) = SumFunctionOnSet(g, {p[x] : x \in S})
      BY <2>1, <2>3, <2>4, SumRenamed
    <2>6. SumFunctionOnSet(f, S) = SumFunctionOnSet(g, With(t, a))
      BY <2>2, <2>5
    <2>7. Total(s, a) = SumFunctionOnSet(f, S)
      BY TotalIsSum DEF f, S, Reorders
    <2>8. Total(t, a) = SumFunctionOnSet(g, With(t, a))
      BY TotalIsSum DEF g, Reorders
    <2>. QED
      BY <2>6, <2>7, <2>8
  <1>. QED
    BY <1>1, <1>2

(* An injection of 1..n into itself leaves nothing out.                    *)
LEMMA PermsAreOnto ==
  ASSUME NEW n \in Nat, NEW p \in Perms(n), NEW j \in 1..n
  PROVE  \E i \in 1..n : p[i] = j
  <1>1. p \in Injection(1..n, 1..n) /\ IsFiniteSet(1..n)
    <2>1. IsFiniteSet(1..n)
      BY FS_Interval
    <2>2. p \in [1..n -> 1..n] /\ \A a, b \in 1..n : p[a] = p[b] => a = b
      BY DEF Perms
    <2>. QED
      BY <2>1, <2>2 DEF Injection, IsInjective
  <1>2. p \in Surjection(1..n, 1..n)
    BY <1>1, FS_Injection
  <1>. QED
    BY <1>2 DEF Surjection

(* A plan that balances still does once it is opened as expected and laid  *)
(* out.                                                                    *)
LEMMA LaidOutBalances ==
  ASSUME NEW r \in Requests, NEW x \in Perms(Len(r.rows)), NEW y \in Perms(Len(r.outs)),
         \A i \in DOMAIN r.rows : OpensAsExpected(r.rows[i]),
         Balanced(r.rows, r.outs, r.fee),
         NEW ins, ins = Shuffled([i \in DOMAIN r.rows |-> Spends(r, i)], x),
         NEW outs, outs = Shuffled(r.outs, y)
  PROVE  Balanced(ins, outs, r.fee)
  <1> DEFINE n == Len(r.rows)
             k == Len(r.outs)
             paid == Append(r.outs, r.fee)
             laid == Append(outs, r.fee)
             z == [i \in 1..k + 1 |-> IF i = k + 1 THEN k + 1 ELSE y[i]]
  <1>1. /\ n \in Nat /\ k \in Nat /\ DOMAIN r.rows = 1..n /\ DOMAIN r.outs = 1..k
        /\ r.rows \in Seq(Row) /\ r.outs \in Seq(PlanOutput) /\ r.fee \in Fee
    BY RequestFacts
  <1>2. /\ x \in [1..n -> 1..n] /\ y \in [1..k -> 1..k]
        /\ \A i, j \in 1..n : x[i] = x[j] => i = j
        /\ \A i, j \in 1..k : y[i] = y[j] => i = j
    BY DEF Perms
  <1>3. /\ \A j \in 1..n : \E i \in 1..n : x[i] = j
        /\ \A j \in 1..k : \E i \in 1..k : y[i] = j
    BY <1>1, PermsAreOnto
  <1>4. ins = [i \in 1..n |-> Spends(r, x[i])]
    BY <1>1, <1>2 DEF Shuffled
  <1>5. outs = [i \in 1..k |-> r.outs[y[i]]]
    BY <1>1, <1>2 DEF Shuffled
  <1>6. IsFiniteSet(1..n) /\ IsFiniteSet(1..k + 1)
    BY <1>1, FS_Interval
  <1>. HIDE DEF n, k
  <1>7. Reorders(ins, r.rows, x)
    <2>1. ASSUME NEW i \in 1..n
          PROVE  /\ ins[i].asset = r.rows[x[i]].asset /\ ins[i].val = r.rows[x[i]].val
                 /\ ins[i].val \in Int
      <3>1. x[i] \in DOMAIN r.rows
        BY <1>1, <1>2
      <3>2. r.rows[x[i]] \in Row /\ OpensAsExpected(r.rows[x[i]])
        BY <1>1, <3>1
      <3>3. ins[i] = [at |-> r.rows[x[i]].at, asset |-> Spent(r.rows[x[i]].at).asset,
                      val |-> Spent(r.rows[x[i]].at).val]
        BY <1>4 DEF Spends
      <3>4. r.rows[x[i]].val \in Int
        BY <3>2 DEF Row
      <3>. QED
        BY <3>2, <3>3, <3>4 DEF OpensAsExpected
    <2>2. DOMAIN ins = 1..n
      BY <1>4
    <2>. QED
      BY <1>1, <1>2, <1>3, <1>6, <2>1, <2>2 DEF Reorders
  <1>8. Reorders(laid, paid, z)
    <2>1. DOMAIN paid = 1..k + 1 /\ paid[k + 1] = r.fee /\ \A i \in 1..k : paid[i] = r.outs[i]
      BY <1>1 DEF k
    <2>2. outs \in Seq(PlanOutput) /\ Len(outs) = k
      <3>1. \A i \in 1..k : r.outs[y[i]] \in PlanOutput
        BY <1>1, <1>2
      <3>2. outs \in [1..k -> PlanOutput]
        BY <1>5, <3>1
      <3>. QED
        BY <1>1, <3>2
    <2>3. /\ DOMAIN laid = 1..k + 1 /\ laid[k + 1] = r.fee
          /\ \A i \in 1..k : laid[i] = r.outs[y[i]]
      BY <1>1, <1>5, <2>2
    <2>4. k + 1 \notin 1..k /\ 1..k + 1 = 1..k \cup {k + 1}
      BY <1>1
    <2>. HIDE DEF paid, laid
    <2>5. z[k + 1] = k + 1 /\ \A i \in 1..k : z[i] = y[i]
      BY <1>1, <2>4
    <2>. HIDE DEF z
    <2>6. \A i \in 1..k + 1 : z[i] \in 1..k + 1
      BY <1>2, <2>4, <2>5
    <2>7. \A i, j \in 1..k + 1 : z[i] = z[j] => i = j
      BY <1>2, <2>4, <2>5
    <2>8. \A j \in 1..k + 1 : \E i \in 1..k + 1 : z[i] = j
      BY <1>3, <2>4, <2>5
    <2>9. ASSUME NEW i \in 1..k + 1
          PROVE  laid[i] = paid[z[i]] /\ laid[i].val \in Int
      <3>1. CASE i = k + 1
        BY <1>1, <2>1, <2>3, <2>5, <3>1 DEF Fee
      <3>2. CASE i \in 1..k
        <4>1. laid[i] = r.outs[y[i]] /\ paid[z[i]] = r.outs[y[i]] /\ y[i] \in 1..k
          BY <1>2, <2>1, <2>3, <2>5, <3>2
        <4>2. r.outs[y[i]] \in PlanOutput
          BY <1>1, <4>1
        <4>. QED
          BY <4>1, <4>2 DEF PlanOutput
      <3>. QED
        BY <2>4, <3>1, <3>2
    <2>. QED
      BY <1>6, <2>1, <2>3, <2>6, <2>7, <2>8, <2>9 DEF Reorders
  <1>9. AssetsOf(ins) = AssetsOf(r.rows) /\ \A a : Total(ins, a) = Total(r.rows, a)
    BY <1>7, OrderDoesNotMatter
  <1>. HIDE DEF z
  <1>10. AssetsOf(laid) = AssetsOf(paid) /\ \A a : Total(laid, a) = Total(paid, a)
    BY <1>8, OrderDoesNotMatter
  <1>. QED
    BY <1>9, <1>10 DEF Balanced

(* What the provider has been asked so far, and that the plan it is asked  *)
(* for stood up to everything public.                                      *)
Asked ==
  /\ provided = [i \in 1..Len(provided) |-> request.rows[i].at]
  /\ Len(provided) <= Len(request.rows)
  /\ phase \in {"layout", "open"} \/ provided # << >> =>
       Balanced(request.rows, request.outs, request.fee) /\ Prepared(request)
  /\ phase # "idle" \/ provided # << >> => answer.reason # "InvalidPlan"

LEMMA NotAskedAnyMore ==
  ASSUME IInv, Asked, UNCHANGED <<request, provided>>,
         phase' \in {"layout", "open"} =>
           Balanced(request.rows, request.outs, request.fee) /\ Prepared(request),
         answer'.reason # "InvalidPlan" \/ (provided = << >> /\ phase' = "idle")
  PROVE  Asked'
  BY DEF Asked, Balanced, Prepared

LEMMA AskedKept == IInv /\ Asked /\ [Next]_vars => Asked'
  <1> SUFFICES ASSUME IInv, Asked, [Next]_vars PROVE Asked'
    OBVIOUS
  <1>1. ASSUME NEW v \in {"native", "ffi"}, NEW r \in Requests, NEW e \in Entropies,
               Begin(v, r, e)
        PROVE  Asked'
    <2>1. /\ request' = r /\ provided' = << >> /\ phase' \in {"decode", "build"}
          /\ answer'.reason = "none" /\ Len(r.rows) \in Nat
      BY <1>1, RequestFacts DEF Begin, Pending
    <2>2. provided' = [i \in 1..Len(provided') |-> r.rows[i].at]
      BY <2>1
    <2>. QED
      BY <2>1, <2>2 DEF Asked
  <1>2. CASE Open
    <2> DEFINE m == Len(provided) + 1
    <2>1. /\ request \in Requests /\ provided \in Seq(Outpoint)
          /\ Len(request.rows) \in Nat /\ Len(provided) \in Nat
      BY RequestFacts DEF IInv, TypeOK
    <2>2. /\ provided' = Append(provided, request.rows[m].at) /\ m <= Len(request.rows)
          /\ UNCHANGED request /\ phase = "open" /\ m \in Nat
      BY <1>2, <2>1 DEF Open, call
    <2>3. Len(provided') = m
      BY <2>1, <2>2
    <2>4. provided' = [i \in 1..m |-> request.rows[i].at]
      <3>1. DOMAIN provided' = 1..m /\ provided' = [i \in 1..m |-> provided'[i]]
        BY <2>1, <2>2
      <3>2. ASSUME NEW i \in 1..m
            PROVE  provided'[i] = request.rows[i].at
        <4>1. CASE i = m
          BY <2>1, <2>2, <4>1
        <4>2. CASE i \in 1..Len(provided)
          <5>1. provided'[i] = provided[i]
            BY <2>1, <2>2, <4>2
          <5>2. provided[i] = request.rows[i].at
            BY <4>2 DEF Asked
          <5>. QED
            BY <5>1, <5>2
        <4>. QED
          BY <2>1, <4>1, <4>2
      <3>. HIDE DEF m
      <3>. QED
        BY <3>1, <3>2
    <2>5. answer'.reason # "InvalidPlan"
      BY <1>2, <2>2 DEF Open, Refuse, Answer, Asked
    <2>6. Balanced(request.rows, request.outs, request.fee) /\ Prepared(request)
      BY <2>2 DEF Asked
    <2>. HIDE DEF m
    <2>. QED
      BY <2>2, <2>3, <2>4, <2>5, <2>6 DEF Asked, Balanced, Prepared
  <1>3. CASE Construct
    <2>1. /\ phase = "open" /\ Len(provided) = Len(request.rows) /\ request \in Requests
          /\ layout["ins"] \in Perms(Len(request.rows))
          /\ layout["outs"] \in Perms(Len(request.outs))
          /\ Balanced(request.rows, request.outs, request.fee)
      BY <1>3 DEF Construct, IInv, Prepares, TypeOK, Asked
    <2>2. \A i \in DOMAIN request.rows : OpensAsExpected(request.rows[i])
      BY <2>1, RequestFacts DEF IInv, Prepares
    <2>3. Balanced(Draft.ins, Draft.outs, request.fee)
      <3>1. /\ Draft.ins = Shuffled([i \in DOMAIN request.rows |-> Spends(request, i)],
                                    layout["ins"])
            /\ Draft.outs = Shuffled(request.outs, layout["outs"])
        BY DEF Draft
      <3>. QED
        BY <2>1, <2>2, <3>1, LaidOutBalances
    <2>4. phase' = "blind" /\ answer' = answer /\ UNCHANGED <<request, provided>>
      BY <1>3, <2>3 DEF Construct, call, inputs
    <2>5. answer'.reason # "InvalidPlan"
      BY <2>1, <2>4 DEF Asked
    <2>. QED
      BY <2>4, <2>5, NotAskedAnyMore
  <1>4. CASE Decode \/ Prepare
    <2>1. /\ phase \in {"decode", "prepare"} /\ UNCHANGED <<request, provided>>
          /\ phase' \notin {"layout", "open"} /\ answer'.reason # "InvalidPlan"
      BY <1>4 DEF Decode, Prepare, Refuse, Answer, call, inputs, Asked
    <2>. QED
      BY <2>1, NotAskedAnyMore
  <1>5. CASE Build
    <2>1. phase = "build" /\ UNCHANGED <<request, provided>> /\ provided = << >>
      BY <1>5 DEF Build, call, inputs, IInv, Prepares
    <2>2. phase' = "layout" =>
            Balanced(request.rows, request.outs, request.fee) /\ Prepared(request)
      BY <1>5 DEF Build, Refuse, Answer
    <2>3. /\ phase' \in {"layout", "idle"}
          /\ answer'.reason # "InvalidPlan" \/ phase' = "idle"
      BY <1>5, <2>1 DEF Build, Refuse, Answer, Asked
    <2>. QED
      BY <2>1, <2>2, <2>3, NotAskedAnyMore
  <1>6. CASE LayOut
    <2>1. /\ phase = "layout" /\ UNCHANGED <<request, provided>>
          /\ answer'.reason # "InvalidPlan"
      BY <1>6 DEF LayOut, call, Refuse, Answer, Asked
    <2>2. Balanced(request.rows, request.outs, request.fee) /\ Prepared(request)
      BY <2>1 DEF Asked
    <2>. QED
      BY <2>1, <2>2, NotAskedAnyMore
  <1>7. CASE DrawBlinding \/ Blind
    <2>1. /\ phase = "blind" /\ UNCHANGED <<request, provided>>
          /\ phase' \notin {"layout", "open"} /\ answer'.reason # "InvalidPlan"
      BY <1>7 DEF DrawBlinding, Blind, Refuse, Answer, call, inputs, Asked
    <2>. QED
      BY <2>1, NotAskedAnyMore
  <1>8. CASE StartSigning \/ Finalize \/ Publish \/ Retry
    <2>1. /\ UNCHANGED <<request, provided>>
          /\ phase' \notin {"layout", "open"} /\ answer'.reason # "InvalidPlan"
      BY <1>8 DEF StartSigning, Finalize, Publish, Retry, RefuseSigning, Answer, Pending, call,
                  inputs, Asked
    <2>. QED
      BY <2>1, NotAskedAnyMore
  <1>9. CASE AskKey \/ AskDigest
    <2>1. \A a : KeyFault(a) # "InvalidPlan" /\ SignatureFault(a) # "InvalidPlan"
      BY DEF KeyFault, SignatureFault
    <2>2. /\ UNCHANGED <<request, provided>> /\ phase = "keys"
          /\ phase' \notin {"layout", "open"} /\ answer'.reason # "InvalidPlan"
      BY <1>9, <2>1 DEF AskKey, AskDigest, RefuseSigning, Answer, call, inputs, Asked
    <2>. QED
      BY <2>2, NotAskedAnyMore
  <1>10. CASE UNCHANGED vars
    BY <1>10 DEF vars, Asked, Balanced, Prepared
  <1>. QED
    BY <1>1, <1>2, <1>3, <1>4, <1>5, <1>6, <1>7, <1>8, <1>9, <1>10 DEF Next, Step

(* The provider is asked row by row, only for a plan that stood up to all  *)
(* that is public, and what it opened is not refused as a plan: the checks *)
(* after the opening find what those before it did, whatever the order.    *)
THEOREM ProviderIsAskedOnce == Spec => []ProviderIsNotAskedInVain
  <1>1. Init => Asked
    <2> SUFFICES ASSUME Init PROVE Asked
      OBVIOUS
    <2>1. /\ provided = << >> /\ request \in Requests /\ phase = "idle"
          /\ Len(request.rows) \in Nat
      BY RequestFacts DEF Init
    <2>2. provided = [i \in 1..Len(provided) |-> request.rows[i].at]
      BY <2>1
    <2>. QED
      BY <2>1, <2>2 DEF Asked
  <1>2. Asked => ProviderIsNotAskedInVain
    BY DEF Asked, ProviderIsNotAskedInVain
  <1>. QED
    BY <1>1, <1>2, AskedKept, Inductive, PTL DEF Spec

-----------------------------------------------------------------------------
(* The attempts of a call, as SpendOnce sees them: nothing is settled on   *)
(* before the blinding, nothing is delivered while an attempt is under     *)
(* way, and what is published has a signature for every input.             *)
SigningPhases == {"sign", "keys", "publish"}

Attempts ==
  /\ phase \notin SigningPhases => pset = NoPset
  /\ phase \notin SigningPhases \cup {"idle"} => sigs = 0
  /\ phase # "idle" => answer.transaction = NoPset
  /\ phase \in {"sign", "keys"} => sigs \in 0..Len(pset.ins)
  /\ phase = "publish" => sigs = Len(pset.ins)

LEMMA PsetIsSome ==
  ASSUME NEW p \in Pset
  PROVE  /\ p # NoPset /\ Bare(p) = <<p.ins, p.outs, p.fee, p.seed>>
         /\ p.ins \in Seq(Facts) /\ Len(p.ins) \in Nat /\ DOMAIN p.ins = 1..Len(p.ins)
  <1>1. "seed" \in DOMAIN p
    BY DEF Pset
  <1>2. p # NoPset
    BY <1>1 DEF NoPset
  <1>3. p.ins \in Seq(Facts)
    BY DEF Pset
  <1>. QED
    BY <1>2, <1>3 DEF Bare

LEMMA AttemptsKept == IInv /\ Attempts /\ [Next]_vars => Attempts'
  <1> SUFFICES ASSUME IInv, Attempts, [Next]_vars PROVE Attempts'
    OBVIOUS
  <1>1. CASE \E v \in {"native", "ffi"}, r \in Requests, e \in Entropies : Begin(v, r, e)
    BY <1>1 DEF Begin, Attempts, SigningPhases, Pending
  <1>2. CASE Decode \/ Prepare \/ Build \/ LayOut \/ Open \/ Construct \/ DrawBlinding
    <2>1. phase \notin SigningPhases \cup {"idle"} /\ phase' \notin SigningPhases /\ UNCHANGED <<pset, sigs>>
      BY <1>2 DEF Decode, Prepare, Build, LayOut, Open, Construct, DrawBlinding, Refuse, Answer,
                  SigningPhases, signing
    <2>2. phase' # "idle" => answer' = answer
      BY <1>2 DEF Decode, Prepare, Build, LayOut, Open, Construct, DrawBlinding, Refuse, Answer
    <2>. QED
      BY <2>1, <2>2 DEF Attempts, SigningPhases
  <1>3. CASE Blind
    <2>1. /\ phase = "blind" /\ sigs' = sigs
          /\ \/ phase' = "idle" /\ pset' = pset
             \/ phase' = "sign" /\ answer' = answer /\ Good(pset', request)
      <3>1. CASE Refuse("BlindingFailed")
        BY <1>3, <3>1 DEF Blind, Refuse, Answer
      <3>2. CASE ~ Refuse("BlindingFailed")
        <4>1. /\ phase' = "sign" /\ ~ blinding.failed /\ answer' = answer
              /\ pset' = [ins |-> Draft.ins, outs |-> Draft.outs, fee |-> request.fee,
                          seed |-> entropy, weak |-> blinding.weak, witnessed |-> FALSE]
          BY <1>3, <3>2 DEF Blind
        <4>2. blinding.weak = FALSE
          BY <4>1 DEF IInv, TypeOK, Prepares
        <4>3. Good(pset', request)
          BY <1>3, <4>1, <4>2, DraftIsGood DEF Blind, IInv
        <4>. QED
          BY <1>3, <4>1, <4>3 DEF Blind
      <3>. QED
        BY <3>1, <3>2
    <2>2. pset' \in Pset => Len(pset'.ins) \in Nat
      BY PsetIsSome
    <2>. QED
      BY <2>1, <2>2 DEF Attempts, SigningPhases, Good
  <1>4. CASE StartSigning \/ AskKey \/ AskDigest \/ Finalize
    <2>1. phase \in {"sign", "keys"} /\ Good(pset, request)
      BY <1>4 DEF StartSigning, AskKey, AskDigest, Finalize, IInv, Signs
    <2>2. pset \in Pset /\ Len(pset.ins) \in Nat /\ sigs \in 0..Len(pset.ins)
          /\ answer.transaction = NoPset
      BY <2>1, PsetIsSome DEF Good, Attempts
    <2>3. CASE phase' = "idle" /\ pset' = NoPset
      BY <2>3 DEF Attempts, SigningPhases
    <2>4. CASE phase' = "keys" /\ UNCHANGED <<pset, sigs, answer>>
      BY <2>2, <2>4 DEF Attempts, SigningPhases
    <2>5. CASE phase' = "keys" /\ UNCHANGED <<pset, answer>> /\ sigs < Len(pset.ins) /\ sigs' = sigs + 1
      BY <2>2, <2>5 DEF Attempts, SigningPhases
    <2>6. CASE Finalize /\ phase' = "publish"
      <3>1. sigs' = Len(pset.ins) /\ answer' = answer /\ pset'.ins = pset.ins
        BY <2>2, <2>6 DEF Finalize, RefuseSigning, Answer, Pset
      <3>. QED
        BY <2>2, <2>6, <3>1 DEF Attempts, SigningPhases
    <2>. QED
      BY <1>4, <2>3, <2>4, <2>5, <2>6
      DEF StartSigning, AskKey, AskDigest, Finalize, RefuseSigning, Answer
  <1>5. CASE Publish
    BY <1>5 DEF Publish, Answer, Attempts, SigningPhases
  <1>6. CASE Retry
    <2>1. retained \in Pset /\ Len(retained.ins) \in Nat
      BY <1>6, PsetIsSome DEF Retry, IInv, Signs, Good
    <2>. QED
      BY <1>6, <2>1 DEF Retry, Attempts, SigningPhases, Pending
  <1>7. CASE UNCHANGED vars
    BY <1>7 DEF vars, Attempts
  <1>. QED
    BY <1>1, <1>2, <1>3, <1>4, <1>5, <1>6, <1>7 DEF Next, Step

(* What the variables of SpendOnce stand for.                              *)
Settled == Bare(IF pset # NoPset THEN pset ELSE retained)
Delivered == Bare(answer.transaction)

LEMMA NothingIsBare == Bare(NoPset) = << >>
  BY DEF Bare

(* An attempt that is refused leaves what it settled on, or nothing.       *)
LEMMA RefusalSimulates ==
  ASSUME phase # "idle", phase' = "idle", Settled' \in {Settled, << >>},
         Delivered' = Delivered, UNCHANGED <<request, sigs>>
  PROVE  Abstract!Next
  <1>1. Abstract!Refuse
    BY DEF Abstract!Refuse, Settled, Delivered
  <1>. QED
    BY <1>1 DEF Abstract!Next, Abstract!Attempt

(* The stages before the blinding settle on nothing.                       *)
LEMMA PlanningSimulates ==
  ASSUME IInv, Attempts,
         Decode \/ Prepare \/ Build \/ LayOut \/ Open \/ Construct \/ DrawBlinding
  PROVE  Abstract!Next \/ UNCHANGED <<request, Settled, sigs, phase = "idle", Delivered>>
  <1>1. phase \notin SigningPhases \cup {"idle"} /\ UNCHANGED <<request, pset, retained, sigs>>
    BY DEF Decode, Prepare, Build, LayOut, Open, Construct, DrawBlinding, Refuse, Answer,
           SigningPhases, signing, call
  <1>2. \/ phase' = "idle" /\ answer'.transaction = NoPset
        \/ phase' # "idle" /\ answer' = answer
    BY DEF Decode, Prepare, Build, LayOut, Open, Construct, DrawBlinding, Refuse, Answer
  <1>3. answer.transaction = NoPset
    BY <1>1 DEF Attempts, SigningPhases
  <1>4. Settled' = Settled /\ Delivered' = Delivered
    BY <1>1, <1>2, <1>3 DEF Settled, Delivered
  <1>5. CASE phase' = "idle"
    BY <1>1, <1>4, <1>5, RefusalSimulates
  <1>6. CASE phase' # "idle"
    BY <1>1, <1>4, <1>6
  <1>. QED
    BY <1>5, <1>6

(* The blinding settles on a transaction of the plan.                      *)
LEMMA BlindSimulates ==
  ASSUME IInv, Attempts, Blind
  PROVE  Abstract!Next
  <1>1. /\ phase = "blind" /\ UNCHANGED <<request, sigs, retained>>
        /\ pset = NoPset /\ retained = NoPset /\ answer.transaction = NoPset
    BY DEF Blind, Refuse, Answer, call, IInv, Signs, Attempts, SigningPhases
  <1>2. CASE Refuse("BlindingFailed")
    <2>1. Settled' = Settled /\ Delivered' = Delivered /\ phase' = "idle"
      BY <1>1, <1>2 DEF Refuse, Answer, Settled, Delivered
    <2>. QED
      BY <1>1, <2>1, RefusalSimulates
  <1>3. CASE ~ Refuse("BlindingFailed")
    <2>1. /\ phase' = "sign" /\ ~ blinding.failed /\ answer' = answer
          /\ pset' = [ins |-> Draft.ins, outs |-> Draft.outs, fee |-> request.fee,
                      seed |-> entropy, weak |-> blinding.weak, witnessed |-> FALSE]
      BY <1>3 DEF Blind
    <2>2. blinding.weak = FALSE
      BY <2>1 DEF IInv, TypeOK, Prepares
    <2>3. Good(pset', request)
      BY <1>1, <2>1, <2>2, DraftIsGood DEF IInv
    <2>4. Settled = << >> /\ Settled' = <<pset'.ins, pset'.outs, pset'.fee, pset'.seed>>
      <3>1. pset' # NoPset
        BY <2>3, PsetIsSome DEF Good
      <3>. QED
        BY <1>1, <3>1 DEF Settled, Bare
    <2>5. Settled' \in Abstract!Of(request)
      <3>1. Carries(pset', request) /\ pset'.seed \in Entropies
        BY <2>3 DEF Good, Pset
      <3>2. PICK x \in Perms(Len(request.rows)) :
              pset'.ins = [i \in DOMAIN request.rows |->
                [at |-> request.rows[x[i]].at, asset |-> request.rows[x[i]].asset,
                 val |-> request.rows[x[i]].val]]
        BY <3>1 DEF Carries
      <3>3. PICK y \in Perms(Len(request.outs)) :
              pset'.outs = [i \in DOMAIN request.outs |-> request.outs[y[i]]]
        BY <3>1 DEF Carries
      <3>4. x \in Abstract!Orders(Len(request.rows)) /\ y \in Abstract!Orders(Len(request.outs))
        BY <3>2, <3>3 DEF Perms, Abstract!Orders
      <3>5. pset'.fee = request.fee
        BY <3>1 DEF Carries
      <3>6. Settled' = << [i \in DOMAIN request.rows |->
                             [at |-> request.rows[x[i]].at, asset |-> request.rows[x[i]].asset,
                              val |-> request.rows[x[i]].val]],
                          [i \in DOMAIN request.outs |-> request.outs[y[i]]],
                          request.fee, pset'.seed >>
        BY <2>4, <3>2, <3>3, <3>5
      <3>7. \E p \in Abstract!Orders(Len(request.rows)), q \in Abstract!Orders(Len(request.outs)),
              e \in Entropies :
                Settled' = << [i \in DOMAIN request.rows |->
                                 [at |-> request.rows[p[i]].at, asset |-> request.rows[p[i]].asset,
                                  val |-> request.rows[p[i]].val]],
                              [i \in DOMAIN request.outs |-> request.outs[q[i]]], request.fee, e >>
        BY <3>1, <3>4, <3>6
      <3>. QED
        BY <3>7 DEF Abstract!Of
    <2>6. Abstract!Settle
      BY <1>1, <2>1, <2>4, <2>5 DEF Abstract!Settle, Settled
    <2>. QED
      BY <2>6 DEF Abstract!Next, Abstract!Attempt
  <1>. QED
    BY <1>2, <1>3

(* Signatures are taken one by one; a refusal keeps the transaction or     *)
(* drops it.                                                               *)
LEMMA SigningSimulates ==
  ASSUME IInv, Attempts, StartSigning \/ AskKey \/ AskDigest \/ Finalize
  PROVE  Abstract!Next \/ UNCHANGED <<request, Settled, sigs, phase = "idle", Delivered>>
  <1>1. /\ phase \in {"sign", "keys"} /\ pset \in Pset /\ pset.witnessed = FALSE
        /\ request' = request
    BY DEF StartSigning, AskKey, AskDigest, Finalize, IInv, Signs, Good, Pset, call
  <1>2. /\ pset # NoPset /\ retained = NoPset /\ answer.transaction = NoPset
        /\ sigs \in 0..Len(pset.ins) /\ Len(pset.ins) \in Nat /\ DOMAIN pset.ins = 1..Len(pset.ins)
    BY <1>1, PsetIsSome DEF Attempts, IInv, Signs
  <1>3. Settled = Bare(pset) /\ Settled = <<pset.ins, pset.outs, pset.fee, pset.seed>>
    BY <1>1, <1>2, PsetIsSome DEF Settled
  <1>4. ASSUME NEW reason, RefuseSigning(reason, pset), sigs' = sigs
        PROVE  Abstract!Next
    <2>1. /\ phase' = "idle" /\ pset' = NoPset /\ retained' \in {pset, NoPset}
          /\ answer'.transaction = NoPset
      BY <1>4 DEF RefuseSigning, Answer
    <2>2. Settled' \in {Settled, << >>}
      BY <1>3, <2>1, NothingIsBare DEF Settled
    <2>3. Delivered' = Delivered
      BY <1>2, <2>1 DEF Delivered
    <2>. QED
      BY <1>1, <1>4, <2>1, <2>2, <2>3, RefusalSimulates
  <1>5. CASE StartSigning
    <2>1. CASE RefuseSigning("InvalidBlindedPset", pset)
      BY <1>4, <1>5, <2>1 DEF StartSigning
    <2>2. CASE phase' = "keys" /\ UNCHANGED <<answer, pset, retained>>
      BY <1>1, <1>5, <2>2 DEF StartSigning, Settled, Delivered
    <2>. QED
      BY <1>5, <2>1, <2>2 DEF StartSigning
  <1>6. CASE AskKey
    <2>1. CASE \E a \in KeyAnswers : RefuseSigning(KeyFault(a), pset)
      BY <1>4, <1>6, <2>1 DEF AskKey
    <2>2. CASE UNCHANGED <<phase, answer, pset, retained>>
      BY <1>1, <1>6, <2>2 DEF AskKey, Settled, Delivered
    <2>. QED
      BY <1>6, <2>1, <2>2 DEF AskKey
  <1>7. CASE AskDigest
    <2>1. CASE \E a \in DigestAnswers : RefuseSigning(SignatureFault(a), pset) /\ UNCHANGED sigs
      BY <1>4, <2>1
    <2>2. CASE sigs' = sigs + 1 /\ UNCHANGED <<phase, answer, pset, retained>>
      <3>1. sigs < Len(pset.ins) /\ sigs + 1 \in DOMAIN Settled[1] /\ sigs + 1 \notin 1..sigs
        BY <1>2, <1>3, <1>7 DEF AskDigest
      <3>2. 1..sigs' = (1..sigs) \cup {sigs + 1}
        BY <1>2, <2>2
      <3>3. UNCHANGED <<Settled, Delivered, phase>>
        BY <2>2 DEF Settled, Delivered
      <3>4. Settled # << >>
        BY <1>3
      <3>5. sigs + 1 \in Abstract!Inputs
        BY <3>1, <3>4 DEF Abstract!Inputs, Settled
      <3>6. Abstract!Sign(sigs + 1)
        BY <1>1, <3>1, <3>2, <3>3, <3>4, <3>5 DEF Abstract!Sign, Settled, Delivered
      <3>. QED
        BY <3>5, <3>6 DEF Abstract!Next, Abstract!Attempt
    <2>. QED
      BY <1>7, <2>1, <2>2 DEF AskDigest
  <1>8. CASE Finalize
    <2> DEFINE final == [pset EXCEPT !.witnessed = TRUE]
    <2>1. WithoutWitnesses(final) = pset
      BY <1>1 DEF WithoutWitnesses, Pset
    <2>2. CASE RefuseSigning("FinalizationFailed", WithoutWitnesses(final))
      BY <1>4, <1>8, <2>1, <2>2 DEF Finalize
    <2>3. CASE phase' = "publish" /\ pset' = final /\ UNCHANGED <<answer, retained>>
      <3>1. final \in Pset /\ final.ins = pset.ins /\ final.outs = pset.outs
            /\ final.fee = pset.fee /\ final.seed = pset.seed
        BY <1>1 DEF Pset
      <3>2. Bare(final) = Bare(pset) /\ final # NoPset
        BY <1>1, <3>1, PsetIsSome
      <3>. HIDE DEF final
      <3>3. Settled' = Settled /\ Delivered' = Delivered
        BY <1>3, <2>3, <3>2 DEF Settled, Delivered
      <3>. QED
        BY <1>1, <1>8, <2>3, <3>3 DEF Finalize
    <2>. QED
      BY <1>8, <2>2, <2>3 DEF Finalize
  <1>. QED
    BY <1>5, <1>6, <1>7, <1>8

LEMMA PublishSimulates ==
  ASSUME IInv, Attempts, Publish
  PROVE  Abstract!Next
  <1>1. /\ phase = "publish" /\ pset \in Pset /\ pset # NoPset /\ retained = NoPset
        /\ answer.transaction = NoPset /\ sigs = Len(pset.ins)
        /\ phase' = "idle" /\ pset' = NoPset /\ UNCHANGED <<request, sigs, retained>>
    BY PsetIsSome DEF Publish, Answer, IInv, Signs, Attempts, call
  <1>2. Settled = Bare(pset) /\ Settled = <<pset.ins, pset.outs, pset.fee, pset.seed>>
        /\ Settled' = << >>
    BY <1>1, PsetIsSome, NothingIsBare DEF Settled
  <1>3. CASE Answer("OK", pset)
    <2>1. Delivered' = Settled
      BY <1>2, <1>3 DEF Answer, Delivered
    <2>2. 1..sigs = Abstract!Inputs
      <3>1. Settled # << >> /\ DOMAIN Settled[1] = 1..sigs
        BY <1>1, <1>2, PsetIsSome
      <3>. QED
        BY <3>1 DEF Abstract!Inputs, Settled
    <2>3. Settled # << >>
      BY <1>2
    <2>4. Abstract!Deliver
      BY <1>1, <1>2, <2>1, <2>2, <2>3 DEF Abstract!Deliver, Settled, Delivered
    <2>. QED
      BY <2>4 DEF Abstract!Next, Abstract!Attempt
  <1>4. CASE Answer("OUTPUT_CAPACITY", NoPset)
    <2>1. Delivered' = Delivered
      BY <1>1, <1>4 DEF Answer, Delivered
    <2>. QED
      BY <1>1, <1>2, <2>1, RefusalSimulates
  <1>. QED
    BY <1>3, <1>4 DEF Publish

LEMMA BeginSimulates ==
  ASSUME NEW v \in {"native", "ffi"}, NEW r \in Requests, NEW e \in Entropies, Begin(v, r, e)
  PROVE  Abstract!Next
  <1>1. /\ phase = "idle" /\ phase' # "idle" /\ request' = r /\ 1..sigs' = {}
        /\ Settled' = << >> /\ Delivered' = << >>
    BY NothingIsBare DEF Begin, Pending, Settled, Delivered
  <1>2. Abstract!Begin(r)
    BY <1>1 DEF Abstract!Begin, Settled, Delivered
  <1>. QED
    BY <1>2 DEF Abstract!Next

LEMMA RetrySimulates ==
  ASSUME IInv, Attempts, Retry
  PROVE  Abstract!Next
  <1>1. /\ phase = "idle" /\ phase' = "sign" /\ pset = NoPset /\ retained \in Pset
        /\ retained # NoPset /\ pset' = retained
        /\ request' = request /\ 1..sigs' = {} /\ answer'.transaction = NoPset
    BY DEF Retry, IInv, Signs, Good, Attempts, SigningPhases, Pending, call
  <1>2. Settled # << >> /\ Settled' = Settled /\ Delivered' = << >>
    BY <1>1, PsetIsSome, NothingIsBare DEF Settled, Delivered
  <1>3. Abstract!Again
    BY <1>1, <1>2 DEF Abstract!Again, Settled, Delivered
  <1>. QED
    BY <1>3 DEF Abstract!Next

(* A spend takes no step that settling on one transaction of the plan,     *)
(* signing it and delivering it whole does not take: whatever fails and    *)
(* however often it is retried, for any wallet, plans and generator.       *)
THEOREM Refinement == Spec => Abstract!Safety
  <1>1. Init => Attempts
    BY DEF Init, Attempts, SigningPhases
  <1>2. Init => Abstract!Init
    <2> SUFFICES ASSUME Init PROVE Abstract!Init
      OBVIOUS
    <2>1. Settled = << >> /\ Delivered = << >> /\ 1..sigs = {}
      BY NothingIsBare DEF Init, Pending, Settled, Delivered
    <2>. QED
      BY <2>1 DEF Init, Abstract!Init, Settled, Delivered
  <1>3. IInv /\ Attempts /\ [Next]_vars => [Abstract!Next]_(Abstract!vars)
    <2> SUFFICES ASSUME IInv, Attempts, [Next]_vars
                 PROVE  Abstract!Next
                        \/ UNCHANGED <<request, Settled, sigs, phase = "idle", Delivered>>
      BY DEF Abstract!vars, Settled, Delivered
    <2>1. CASE UNCHANGED vars
      BY <2>1 DEF vars, Settled, Delivered
    <2>. QED
      BY <2>1, BeginSimulates, RetrySimulates, PlanningSimulates, BlindSimulates,
         SigningSimulates, PublishSimulates DEF Next, Step
  <1>. QED
    BY <1>1, <1>2, <1>3, AttemptsKept, Inductive, PTL DEF Spec, Abstract!Safety
=============================================================================
