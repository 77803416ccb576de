---------------------------- MODULE PlanBoundaries ----------------------------
(* The rest of what the plan corpus declares and its checker derives again:    *)
(* the managed funding rows, batches and encoder calls, the checked formulas   *)
(* of the boundary table and the outcome each boundary row must have.          *)
EXTENDS SourceObject

-----------------------------------------------------------------------------
(* Managed callers: a row, a batch of rows for a plan, a call of the encoder.  *)
(* Absent references are None; a disposed row or batch is still a reference.   *)
ViewAbsent(l) == \E i \in 1..l.len : Get(l, i) = None

EvaluateRow(row) ==
  IF row.candidate = None \/ row.previous = None THEN "argument"
  ELSE IF ViewAbsent(row.previous) THEN "argument"
  ELSE IF \/ row.candidate.len \notin 1..MaxTransaction \/ row.previous.len > MaxPrevious
          \/ \E i \in 1..row.previous.len : Get(row.previous, i).len \notin 1..MaxTransaction
          \/ row.candidate.len + SumOf(Each(Expanded(row.previous), LAMBDA v : v.len))
               > MaxTransactionBytes
  THEN "limit"
  ELSE IF ~ViewsAscend(row.previous) THEN "encoding" ELSE "ok"

(* Slip: a batch only adds up its payloads, not its previous transactions.     *)
EvaluateBatchBytesOnly(batch) ==
  IF batch.plan = None \/ batch.rows = None THEN "argument"
  ELSE IF \E i \in DOMAIN batch.rows : EvaluateRow(batch.rows[i]) # "ok" THEN "refused"
  ELSE "ok"
(* "refused" is the checker's own refusal of a batch over an invalid row.      *)
EvaluateBatch(batch) ==
  IF batch.plan = None \/ batch.rows = None THEN "argument"
  ELSE IF \E i \in DOMAIN batch.rows : batch.rows[i] = None THEN "argument"
  ELSE IF \E i \in DOMAIN batch.rows : batch.rows[i].life = "disposed" THEN "disposed"
  ELSE IF Len(batch.rows) # batch.plan.count THEN "argument"
  ELSE IF \E i \in DOMAIN batch.rows : EvaluateRow(batch.rows[i]) # "ok" THEN "refused"
  ELSE LET rows == batch.rows IN
       IF \/ SumOf(Each(rows, LAMBDA r : r.previous.len)) > MaxPrevious
          \/ SumOf(Each(rows, LAMBDA r : r.candidate.len
               + SumOf(Each(Expanded(r.previous), LAMBDA v : v.len)))) > MaxTransactionBytes
       THEN "limit" ELSE "ok"

EvaluateCall(call) ==
  IF call.plan = None \/ call.batch = None THEN "argument"
  ELSE IF call.batch.life = "disposed" THEN "disposed"
  ELSE IF call.epoch.len # 1 \/ AllZero(call.epoch) THEN "argument"
  ELSE IF call.plan.identity # call.batch.plan.identity THEN "argument" ELSE "ok"

-----------------------------------------------------------------------------
(* Formulas: sums of products of words, None for an overflow.                  *)
Product(factors) ==
  LET p[i \in 0..Len(factors)] ==
        IF i = 0 THEN 1 ELSE IF p[i - 1] = None THEN None ELSE
        IF p[i - 1] * factors[i] > MaxWord THEN None ELSE p[i - 1] * factors[i]
  IN p[Len(factors)]
EvaluateFormula(terms) ==
  LET t[i \in 0..Len(terms)] ==
        IF i = 0 THEN 0 ELSE
        LET p == Product(terms[i]) IN
        IF t[i - 1] = None \/ p = None THEN None
        ELSE IF t[i - 1] + p > MaxWord THEN None ELSE t[i - 1] + p
  IN t[Len(terms)]

(* Slip: a product that meets the largest word exactly counts as too large.    *)
FactsProductStrict(factors) ==
  LET p[i \in 0..Len(factors)] ==
        IF i = 0 THEN 1 ELSE IF p[i - 1] = None THEN None ELSE
        LET v == factors[i] IN
        IF v # 0 /\ p[i - 1] >= MaxWord \div v THEN None ELSE p[i - 1] * v
  IN p[Len(factors)]
(* The wallet-facts checker decides the same before it multiplies or adds.     *)
FactsProduct(factors) ==
  LET p[i \in 0..Len(factors)] ==
        IF i = 0 THEN 1 ELSE IF p[i - 1] = None THEN None ELSE
        LET v == factors[i] IN
        IF v # 0 /\ (v > MaxWord \/ p[i - 1] > MaxWord \div v) THEN None ELSE p[i - 1] * v
  IN p[Len(factors)]
FactsFormula(terms) ==
  LET t[i \in 0..Len(terms)] ==
        IF i = 0 THEN 0 ELSE
        LET p == FactsProduct(terms[i]) IN
        IF t[i - 1] = None \/ p = None THEN None
        ELSE IF t[i - 1] > MaxWord - p THEN None ELSE t[i - 1] + p
  IN t[Len(terms)]

(* The checked expression of a source object: the same formula as a tree that  *)
(* associates to the left.  A literal is not checked, only sums and products.  *)
CheckedWord(x) == IF x > MaxWord THEN None ELSE x
TreeProduct(factors) ==
  LET p[i \in 0..Len(factors) - 1] ==
        IF i = 0 THEN factors[1] ELSE
        IF p[i - 1] = None THEN None ELSE CheckedWord(p[i - 1] * factors[i + 1])
  IN p[Len(factors) - 1]
TreeValue(terms) ==
  LET t[i \in 0..Len(terms) - 1] ==
        LET p == TreeProduct(terms[i + 1]) IN
        IF i = 0 THEN p
        ELSE IF t[i - 1] = None \/ p = None THEN None ELSE CheckedWord(t[i - 1] + p)
  IN t[Len(terms) - 1]

-----------------------------------------------------------------------------
(* The limit of each boundary kind: least and largest accepted value.          *)
Limits ==
  [selected |-> <<1, MaxSelected>>, destinations |-> <<1, MaxDestinations>>,
   address |-> <<1, MaxAddress>>, candidate |-> <<1, MaxTransaction>>,
   previous |-> <<1, MaxTransaction>>, rowPrevious |-> <<0, MaxPrevious>>,
   allPrevious |-> <<0, MaxPrevious>>, expanded |-> <<1, MaxTransactionBytes>>,
   index |-> <<0, MaxIndex>>, selectedValue |-> <<1, MaxValue>>,
   destinationValue |-> <<1, MaxValue>>, fee |-> <<1, MaxValue>>]

(* Slip: the limit itself is refused.                                          *)
OutcomeStrict(row) ==
  LET value == EvaluateFormula(row.formula) IN
  IF row.kind \in DOMAIN Limits
  THEN IF value = None THEN "refused"
       ELSE IF Limits[row.kind][1] <= value /\ value < Limits[row.kind][2] THEN "ok" ELSE "limit"
  ELSE "refused"
(* What the checker derives for a boundary row from its kind and formula.      *)
Outcome(row) ==
  LET value == EvaluateFormula(row.formula)
      when(fits, result) == IF fits THEN result ELSE "refused"
  IN IF row.kind \in DOMAIN Limits
     THEN IF value = None THEN "refused"
          ELSE IF value \in Limits[row.kind][1]..Limits[row.kind][2] THEN "ok" ELSE "limit"
     ELSE CASE row.kind = "numericZero" -> when(value = 0, "limit")
            [] row.kind = "aggregate" -> when(value # None, "encoding")
            [] row.kind = "reachable" -> when(value = MaxReachable, "ok")
            [] row.kind = "outer" -> IF value = None THEN "refused"
                                     ELSE IF value <= MaxFrame THEN "ok" ELSE "limit"
            [] row.kind = "overflow" -> when(value = None, "overflow")
            [] OTHER -> "refused"

(* The rows the boundary table must consist of, and the outcome each declares. *)
Authority ==
  {[id |-> <<k, "minimum">>, kind |-> k, formula |-> <<<<Limits[k][1]>>>>, declared |-> "ok"] :
     k \in DOMAIN Limits}
  \union {[id |-> <<k, "maximum">>, kind |-> k, formula |-> <<<<Limits[k][2]>>>>,
           declared |-> "ok"] : k \in DOMAIN Limits}
  \union {[id |-> <<k, "plus-one">>, kind |-> k, formula |-> <<<<Limits[k][2]>>, <<1>>>>,
           declared |-> "limit"] : k \in DOMAIN Limits}
  \union {[id |-> <<"numericZero", "zero">>, kind |-> "numericZero", formula |-> <<<<0>>>>,
           declared |-> "limit"],
          [id |-> <<"aggregate", "over">>, kind |-> "aggregate", formula |-> <<<<0>>, <<1>>>>,
           declared |-> "encoding"],
          [id |-> <<"reachable", "maximum">>, kind |-> "reachable",
           formula |-> <<<<HeaderCells>>, <<MaxSelected, SelectedCells>>,
                         <<MaxDestinations, DestinationCells>>, <<MaxDestinations, MaxAddress>>,
                         <<MaxPrevious, 1>>, <<MaxTransactionBytes>>>>, declared |-> "ok"],
          [id |-> <<"outer", "ceiling">>, kind |-> "outer", formula |-> <<<<MaxFrame>>>>,
           declared |-> "ok"],
          [id |-> <<"outer", "plus-one">>, kind |-> "outer", formula |-> <<<<MaxFrame>>, <<1>>>>,
           declared |-> "limit"],
          [id |-> <<"overflow", "add">>, kind |-> "overflow", formula |-> <<<<MaxWord>>, <<1>>>>,
           declared |-> "overflow"],
          [id |-> <<"overflow", "multiply">>, kind |-> "overflow",
           formula |-> <<<<MaxWord, 2>>>>, declared |-> "overflow"]}

(* A boundary table is accepted when its rows are the authority's and each     *)
(* declares what its formula gives.                                            *)
TableAccepted(rows) ==
  /\ {r.id : r \in rows} = {r.id : r \in Authority}
  /\ \A r \in rows : r \in Authority /\ r.declared = Outcome(r)
=============================================================================
