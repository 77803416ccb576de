------------------------------ MODULE PlanCorpus ------------------------------
(* The plan corpus while its author edits it: a behaviour starts from one      *)
(* reviewed item (a frame, a source object, a managed call, a transaction, a   *)
(* boundary or a formula) and applies the edits the corpus tables can record.  *)
(* What the checker says of the item after every edit is a function of it.     *)
EXTENDS PublicTransaction

CONSTANTS
  \* what a behaviour starts from -> the edits it may make
  FrameBases,       \* frames, for byte and logical edits
  RequestBases,     \* frames, for the source objects and calls taken from them
  TransactionBases, \* transactions
  PrepareBases,     \* prepare cases [value, catalog]
  ManagedEdits, FormulaEdits,
  Owned,            \* the output scripts of the catalog
  Cells,            \* the cells an edit may write
  Words             \* the literals of formulas

VARIABLES
  kind,   \* what is edited
  parent, \* the frame before the last edit, None for the rest
  now,    \* the item
  row,    \* the row of the mutation table for that edit, None at first
  edits   \* how many edits are left
corpusVars == <<kind, parent, now, row, edits>>

(* A prepare case: what is asked, from transactions, and the catalog it is for, *)
(* a reviewed one or another.                                                  *)
PrepareRow ==
  [txid : Nat, vout : Nat, asset : Nat, value : Nat, candidate : Seq(Nat), previous : Seq(Seq(Nat))]
PrepareCase ==
  [catalog : {"other"} \union {Reviewed[m].catalog : m \in DOMAIN Reviewed},
   value : [source : Nat, manifest : Nat, pegged : Nat, fee : Nat, selected : Seq(PrepareRow),
            destinations : Seq([asset : Nat, value : Nat, address : Seq(Nat)])]]

(* Frames, transactions, literals and what is written into frames are numbers, *)
(* and None is none.                                                           *)
ASSUME PlanCorpusAssumption ==
  /\ Cells \subseteq Nat /\ DOMAIN Named \subseteq Nat
  /\ Words \subseteq Nat /\ MaxWord \in Nat \ {0} /\ None \notin Nat
  /\ DOMAIN FrameBases \subseteq Seq(Nat) /\ DOMAIN TransactionBases \subseteq Seq(Nat)
  /\ DOMAIN PrepareBases \subseteq PrepareCase

-----------------------------------------------------------------------------
(* The objects of managed callers, taken from a frame: a plan stands for its   *)
(* identity and number of selected rows.                                       *)
PlanOf(q) == [identity |-> "plan", count |-> q.selected.len]
BatchOf(q) ==
  [plan |-> PlanOf(q), life |-> "active",
   rows |-> Each(Expanded(q.selected), LAMBDA r :
              [candidate |-> r.candidate, previous |-> r.previous, life |-> r.life])]
CallOf(q) == [epoch |-> q.epoch, plan |-> PlanOf(q), batch |-> BatchOf(q)]

PlanCorpusInit ==
  /\ parent = None /\ row = None
  /\ \/ kind = "frame" /\ now \in DOMAIN FrameBases /\ edits = FrameBases[now]
     \/ kind = "request" /\ \E d \in DOMAIN RequestBases :
          now = RequestOf(Unpack(d)) /\ edits = RequestBases[d]
     \/ kind \in {"batch", "call"} /\ edits = ManagedEdits /\ \E d \in DOMAIN RequestBases :
          now = LET q == RequestOf(Unpack(d)) IN IF kind = "batch" THEN BatchOf(q) ELSE CallOf(q)
     \/ kind = "transaction" /\ now \in DOMAIN TransactionBases /\ edits = TransactionBases[now]
     \/ kind = "prepare" /\ now \in DOMAIN PrepareBases /\ edits = PrepareBases[now]
     \/ kind = "boundary" /\ edits = 0 /\ \E k \in DOMAIN Limits : now = [kind |-> k, value |-> 0]
     \/ kind = "formula" /\ edits = FormulaEdits /\ \E x \in Words : now = <<<<x>>>>

Edit(k, next) ==
  /\ kind = k /\ edits > 0 /\ next # None
  /\ now' = next /\ edits' = edits - 1 /\ UNCHANGED <<kind, parent, row>>
Derive(next, record) ==
  /\ edits > 0 /\ parent' = now /\ now' = next /\ row' = record /\ edits' = edits - 1
  /\ kind' = kind

-----------------------------------------------------------------------------
(* Byte edits of a frame, and the rows that record them.                       *)
ByteRow(k, at, old, new) ==
  [kind |-> k, target |-> "bytes", offset |-> at, old |-> old, new |-> new]
ReplaceCell ==
  kind = "frame" /\ \E i \in DOMAIN now, x \in Cells :
    Derive([now EXCEPT ![i] = x], ByteRow("replace", i - 1, <<now[i]>>, <<x>>))
AppendCell ==
  kind = "frame" /\ \E x \in Cells :
    Derive(Append(now, x), ByteRow("append", Len(now), None, <<x>>))
Truncate ==
  kind = "frame" /\ \E n \in 0..(Len(now) - 1) :
    Derive(SubSeq(now, 1, n), ByteRow("truncate", n, SubSeq(now, n + 1, Len(now)), None))

(* A logical edit changes one field, or a candidate with its identifier, or a  *)
(* field and the fee, and names a target.                                      *)
FieldEdits(v) ==
  {[v EXCEPT !.manifest = x] : x \in Cells} \union {[v EXCEPT !.pegged = x] : x \in Cells}
  \union {[v EXCEPT !.selected = Reversed(@)]}
  \union {[v EXCEPT !.selected = SubSeq(@, 1, Len(@) - 1)]}
  \union {[v EXCEPT !.selected[i].txid = <<x, 1>>] : i \in DOMAIN v.selected, x \in Cells}
  \union {[v EXCEPT !.selected[i].value = x] : i \in DOMAIN v.selected, x \in Cells}
  \union {[v EXCEPT !.selected[i].candidate = <<x>>] : i \in DOMAIN v.selected, x \in Cells}
  \union {[v EXCEPT !.selected[i].candidate = <<x>>, !.selected[i].txid = <<x, 1>>] :
            i \in DOMAIN v.selected, x \in Cells}
  \union {[v EXCEPT !.selected[i].previous = << >>] : i \in DOMAIN v.selected}
  \union {[v EXCEPT !.destinations[i].address = <<x>>] : i \in DOMAIN v.destinations, x \in Cells}
  \union {[v EXCEPT !.destinations[i].value = x] : i \in DOMAIN v.destinations, x \in Cells}
RepackFrame ==
  kind = "frame" /\ row = None /\ Unpack(now) # None /\
  \E v \in FieldEdits(Unpack(now)), fee \in {now[10], now[10] + 1}, t \in Targets,
     new \in {None, <<1>>} :
    Derive(Pack([v EXCEPT !.fee = fee]),
         [kind |-> "logical-repack", target |-> t, offset |-> None, old |-> None, new |-> new])

-----------------------------------------------------------------------------
(* Operations on a source object.                                              *)
Paths(q) ==
  {[list |-> "request", row |-> 0, field |-> f, elem |-> None] :
     f \in {"epoch", "manifest", "pegged", "fee", "selected", "destinations"}}
  \union {[list |-> "selected", row |-> i, field |-> f, elem |-> None] : i \in 1..q.selected.len,
            f \in {None, "txid", "vout", "asset", "value", "candidate", "previous"}}
  \union {[list |-> "destinations", row |-> i, field |-> f, elem |-> None] :
            i \in 1..q.destinations.len, f \in {None, "asset", "value", "address"}}
  \union {[list |-> "selected", row |-> p[1], field |-> "previous", elem |-> p[2]] :
            p \in {r \in (1..q.selected.len) \X (1..MaxPrevious) :
                     r[2] <= Get(q.selected, r[1]).previous.len}}

ViewsFor(p) ==
  UNION {{Filled(n, b), Literal([i \in 1..n |-> IF i = n THEN b ELSE 1])} :
           n \in ByteLimits(p).least..ByteLimits(p).most, b \in {0, 2}}
Operations(q) ==
  LET of(type) == {p \in Paths(q) : PathType(p) = type}
      plain(op, p) == [op |-> op, path |-> p]
  IN
  {[op |-> "set-u64", path |-> p, word |-> x] : p \in of("u64"), x \in 0..(MaxValue + 1)}
  \union UNION {{[op |-> "set-bytes", path |-> p, bytes |-> v] : v \in ViewsFor(p)} : p \in of("bytes")}
  \union {plain("clear-list", p) : p \in of("list")}
  \union UNION {{[op |-> "resize-list", path |-> p, len |-> n, fill |-> x] :
                   n \in 0..ListLimit(p),
                   x \in IF p.list # "request" THEN {Filled(1, 2), Filled(0, 0)}
                         ELSE IF q[p.field].len = 0 THEN {} ELSE {Get(q[p.field], 1)}} :
                p \in of("list")}
  \union UNION {{[op |-> op, path |-> pair[1], other |-> pair[2]] :
                   op \in {"copy", "swap"}, pair \in of(type) \X of(type)} :
                type \in {"u64", "bytes", "list", "selected", "destinations"}}
EditObject ==
  kind = "request" /\ \E o \in Operations(now) : Edit("request", Applied(now, o))

(* Operations on a managed batch and on a call.  A clone of a plan is equal to *)
(* it and has an identity of its own.                                          *)
BatchEdits(b) ==
  {[b EXCEPT !.plan = None], [b EXCEPT !.rows = None]}
  \union (IF b.rows = None THEN {} ELSE
    {[b EXCEPT !.rows[i] = None] : i \in DOMAIN b.rows}
    \union {[b EXCEPT !.rows = [i \in 1..n |-> IF i <= Len(@) THEN @[i] ELSE @[1]]] :
              n \in IF b.rows = << >> THEN {0} ELSE 0..(MaxSelected + 1)}
    \union UNION {
      {[b EXCEPT !.rows[i].life = "disposed"], [b EXCEPT !.rows[i].candidate = None],
       [b EXCEPT !.rows[i].previous = None]}
      \union {[b EXCEPT !.rows[i].candidate = Filled(n, 1)] : n \in 0..(MaxTransaction + 1)}
      \union {[b EXCEPT !.rows[i].previous = ListOf([j \in 1..n |-> Filled(s, 1 + (j * up))])] :
                n \in 0..(MaxPrevious + 1), s \in 0..(MaxTransaction + 1), up \in {0, 1}}
      : i \in {j \in DOMAIN b.rows : b.rows[j] # None}})
EditBatch == kind = "batch" /\ \E b \in BatchEdits(now) : Edit("batch", b)

CallEdits(c) ==
  {[c EXCEPT !.plan = None], [c EXCEPT !.batch = None]}
  \union {[c EXCEPT !.epoch = Filled(n, b)] : n \in 0..2, b \in {0, 1}}
  \union (IF c.batch = None THEN {} ELSE {[c EXCEPT !.batch.life = "disposed"]})
  \union (IF c.plan = None THEN {} ELSE {[c EXCEPT !.plan.identity = "clone"]})
EditCall == kind = "call" /\ \E c \in CallEdits(now) : Edit("call", c)

-----------------------------------------------------------------------------
(* Transactions, prepare cases, boundaries and formulas.                       *)
EditTransaction ==
  kind = "transaction" /\
  \/ \E i \in DOMAIN now, x \in Cells : Edit("transaction", [now EXCEPT ![i] = x])
  \/ \E i \in 1..(Len(now) + 1), x \in Cells :
       Edit("transaction", SubSeq(now, 1, i - 1) \o <<x>> \o SubSeq(now, i, Len(now)))
  \/ \E i \in DOMAIN now :
       Edit("transaction", SubSeq(now, 1, i - 1) \o SubSeq(now, i + 1, Len(now)))

(* What an author may do to a prepare case: another form of a transaction, a   *)
(* previous transaction more, less or in another order, another plan field.    *)
PrepareRowEdits(r) ==
  {[r EXCEPT !.vout = @ + 1], [r EXCEPT !.previous = Reversed(@)]}
  \union {[r EXCEPT !.candidate = t] : t \in DOMAIN TransactionBases}
  \union {[r EXCEPT !.txid = x] : x \in DOMAIN Named}
  \union {[r EXCEPT !.previous = [@ EXCEPT ![p[1]] = p[2]]] :
            p \in (DOMAIN r.previous) \X DOMAIN TransactionBases}
  \union {[r EXCEPT !.previous = SubSeq(@, 1, Len(@) - 1)], [r EXCEPT !.previous = @ \o @]}
PrepareEdits(c) ==
  {[c EXCEPT !.catalog = "other"], [c EXCEPT !.value.pegged = @ + 1],
   [c EXCEPT !.value.manifest = @ + 1], [c EXCEPT !.value.fee = @ + 1]}
  \union {[c EXCEPT !.value.destinations[i].address = <<1, 1>>] : i \in DOMAIN c.value.destinations}
  \union UNION {{[c EXCEPT !.value.selected[i] = r] : r \in PrepareRowEdits(c.value.selected[i])} :
                  i \in DOMAIN c.value.selected}
EditPrepare == kind = "prepare" /\ \E c \in PrepareEdits(now) : Edit("prepare", c)

RaiseBoundary ==
  /\ kind = "boundary" /\ now.value <= Limits[now.kind][2]
  /\ now' = [now EXCEPT !.value = @ + 1] /\ UNCHANGED <<kind, parent, row, edits>>
EditFormula ==
  kind = "formula" /\ \E x \in Words :
    \/ Edit("formula", Append(now, <<x>>))
    \/ Edit("formula", [now EXCEPT ![Len(now)] = Append(@, x)])

PlanCorpusNext ==
  \/ ReplaceCell \/ AppendCell \/ Truncate \/ RepackFrame \/ EditObject \/ EditBatch \/ EditCall
  \/ EditTransaction \/ EditPrepare \/ RaiseBoundary \/ EditFormula
PlanCorpusSpec == PlanCorpusInit /\ [][PlanCorpusNext]_corpusVars

-----------------------------------------------------------------------------
(* A frame the scanner accepts is the one frame of what it says: the packer    *)
(* gives it back cell by cell, and the unpacker, which tests no limit, reads   *)
(* the same plan from it.                                                      *)
AcceptedIsCanonical ==
  kind = "frame" /\ Len(now) >= HeaderCells =>
    LET s == Scan(now, now[4]) IN
    s.code = 0 => Pack(s.value) = now /\ Unpack(now) = s.value

(* A logical row of the mutation table that is accepted for a canonical parent *)
(* names all that changed: with the named fields put back, the child packs to  *)
(* its parent.                                                                 *)
PutBack(target, v, old) ==
  LET from(k, i, f) == <<k, i, f>> \in target
      selected == IF <<"selected", "order">> \in target THEN Reversed(v.selected)
                  ELSE [i \in DOMAIN v.selected |->
                          [f \in DOMAIN v.selected[i] |->
                             IF from("selected", i, f) THEN old.selected[i][f]
                             ELSE v.selected[i][f]]]
  IN [v EXCEPT
        !.manifest = IF <<"header", "manifest">> \in target THEN old.manifest ELSE @,
        !.pegged = IF <<"header", "pegged">> \in target THEN old.pegged ELSE @,
        !.selected = selected,
        !.destinations = [i \in DOMAIN @ |->
           [f \in DOMAIN @[i] |-> IF from("destination", i, f) THEN old.destinations[i][f]
                                  ELSE @[i][f]]]]
RepackNamesTheChange ==
  LET logical == IF kind = "frame" /\ row # None THEN row.kind = "logical-repack" ELSE FALSE
  IN logical /\ Pack(Unpack(parent)) = parent /\ LineageAccepted(row, parent, now)
       => Pack(PutBack(row.target, Unpack(now), Unpack(parent))) = parent

(* A filler that no element of its list takes.                                 *)
IdleFill(q) ==
  \E i \in 1..q.selected.len : LET l == Get(q.selected, i).previous IN
    l.fill # None /\ l.len = Len(l.items) + Cardinality(DOMAIN l.over)
(* A copy may bring bytes of another width to a field of fixed width.          *)
Packable(q) ==
  /\ \A v \in {q.epoch, q.manifest, q.pegged} : v.len = 1
  /\ \A i \in 1..q.selected.len : LET r == Get(q.selected, i) IN r.txid.len = 2 /\ r.asset.len = 1
  /\ \A i \in 1..q.destinations.len : Get(q.destinations, i).asset.len = 1
(* The evaluator of source objects and the scanner of frames are two judges of *)
(* one plan: a request with no numeric and no structural defect packs to a     *)
(* frame the scanner accepts, any other to one it refuses (a filler that no    *)
(* element takes aside), and a plan that is evaluated as fine is fine at the   *)
(* plan stage of a prepare case.                                               *)
RequestJudges ==
  kind = "request" /\ Packable(now) =>
    LET q == now
        s == Scan(Pack(ValueOf(q)), ByteAt(q.epoch, 1))
    IN ~AllZero(q.epoch) =>
         /\ NumericCode(q) = 0 /\ StructuralCode(q) = 0 => s.code = 0
         /\ s.code = 0 => StructuralCode(q) = 0 /\ (IdleFill(q) \/ NumericCode(q) = 0)
         /\ Evaluate(q) = 0 => s.code = 0 /\ PlanStage(s.value, Reviewed[s.value.manifest].catalog) = 0

(* An edit the operations of a source object make changes some field of it:    *)
(* no-op edits are rejected (vectors/CORPUS_V1.md).                            *)
FieldsOf(q) ==
  [q EXCEPT !.destinations = Expanded(@),
            !.selected = Each(Expanded(@), LAMBDA r : [r EXCEPT !.previous = Expanded(@)])]
NoOpEditsAreRefused ==
  kind = "request" =>
    \A o \in Operations(now) : LET q == Applied(now, o) IN q # None => FieldsOf(q) # FieldsOf(now)

(* A managed batch is accepted exactly when the rows it holds, put into the    *)
(* plan it is for, pass the limits and the order the encoder asks for: no      *)
(* batch is refused for a reason the encoder would not have, or passes one.    *)
BatchMeetsEncoder ==
  kind = "batch" /\ EvaluateBatch(now) \in {"ok", "limit"} =>
    \E d \in DOMAIN RequestBases :
      LET q == RequestOf(Unpack(d))
          filled == [q EXCEPT !.selected.items =
                       [i \in DOMAIN @ |-> [@[i] EXCEPT !.candidate = now.rows[i].candidate,
                                                         !.previous = now.rows[i].previous]]]
      IN q.selected.len = Len(now.rows) /\
         (EvaluateBatch(now) = "ok" <=> NumericCode(filled) = 0 /\ StructuralCode(filled) = 0)

(* The same previous transactions in another form or order.                    *)
PrevByIdentity(c) ==
  {[c EXCEPT !.value.selected[y[1]].previous[y[2]] = y[3]] :
     y \in {x \in (DOMAIN c.value.selected) \X (1..MaxPrevious) \X DOMAIN TransactionBases :
        /\ x[2] \in DOMAIN c.value.selected[x[1]].previous
        /\ LET a == ScanTransaction(c.value.selected[x[1]].previous[x[2]])
               b == ScanTransaction(x[3])
           IN a # None /\ b # None /\ a.base = b.base}}
  \union {[c EXCEPT !.value.selected[i].previous = Reversed(@)] : i \in DOMAIN c.value.selected}
(* A transaction is identified by its base.  The base is itself a transaction  *)
(* of the surface, its own base, and reads the same but for the witness; no    *)
(* transaction has a second form that differs from its base in nothing; and a  *)
(* prepare case sees a previous transaction by its identity only: another form *)
(* of the same one, or another order, does not change the code of the case.    *)
IdentityIsStripped ==
  /\ kind = "transaction" /\ ScanTransaction(now) # None =>
       LET t == ScanTransaction(now)
           b == ScanTransaction(t.base)
       IN /\ b # None /\ b.base = t.base /\ b.ins = t.ins /\ b.outs = t.outs
          /\ now # t.base => \E i \in 1..(Len(now) - Len(t.base)) : now[Len(t.base) + i] # 0
  /\ kind = "prepare" =>
       \A c \in PrevByIdentity(now) :
         PrepareExpectation(c.value, c.catalog, Owned) = PrepareExpectation(now.value, now.catalog, Owned)

(* The outcome the boundary table derives for a limit is what the scanner says *)
(* of a frame that has the value in that place.                                *)
RowsOf(lengths) ==
  [i \in DOMAIN lengths |->
     [txid |-> <<1, i>>, vout |-> 0, asset |-> 1, value |-> 1,
      candidate |-> [j \in 1..lengths[i] |-> 1], previous |-> << >>]]
BoundaryFrame(k, n) ==
  LET ones(m) == [i \in 1..m |-> 1]
      one == RowsOf(<<1>>)
      base == [source |-> 1, manifest |-> 1, pegged |-> 1, fee |-> 1, selected |-> one,
               destinations |-> <<[asset |-> 1, value |-> 1, address |-> <<1>>]>>]
      listed(m) == [i \in 1..m |-> <<i>>]
  IN CASE k = "selected" -> [base EXCEPT !.selected = RowsOf(ones(n))]
       [] k = "destinations" -> [base EXCEPT !.destinations = [i \in 1..n |-> @[1]]]
       [] k = "address" -> [base EXCEPT !.destinations[1].address = ones(n)]
       [] k = "candidate" -> [base EXCEPT !.selected = RowsOf(<<n>>)]
       [] k = "previous" -> [base EXCEPT !.selected[1].previous = <<ones(n)>>]
       [] k = "rowPrevious" -> [base EXCEPT !.selected[1].previous = listed(n)]
       [] k = "allPrevious" ->
            [base EXCEPT !.selected = [RowsOf(<<1, 1>>) EXCEPT
               ![1].previous = listed(n \div 2), ![2].previous = listed(n - (n \div 2))]]
       [] k = "expanded" ->
            IF n <= MaxTransaction THEN [base EXCEPT !.selected = RowsOf(<<n>>)]
            ELSE [base EXCEPT !.selected = [RowsOf(<<1>>) EXCEPT
                    ![1].previous = IF n - 1 <= MaxTransaction THEN <<ones(n - 1)>>
                                    ELSE <<ones(MaxTransaction), <<2>> \o ones(n - 2 - MaxTransaction)>>]]
       [] k = "index" -> [base EXCEPT !.selected[1].vout = n]
       [] k = "selectedValue" -> [base EXCEPT !.selected[1].value = n]
       [] k = "destinationValue" -> [base EXCEPT !.destinations[1].value = n]
       [] k = "fee" -> [base EXCEPT !.fee = n]
BoundariesAreTheScanners ==
  kind = "boundary" =>
    LET code == Scan(Pack(BoundaryFrame(now.kind, now.value)), 1).code
    IN Outcome([kind |-> now.kind, formula |-> <<<<now.value>>>>])
         = (CASE code = 0 -> "ok" [] code = 4 -> "limit" [] OTHER -> "other")
       /\ TableAccepted(Authority)

(* Three checkers compute the boundary formulas, each with an overflow test of *)
(* its own: after the product, before the product, and node by node of a tree. *)
(* They agree on every formula of machine words, and of larger literals too if *)
(* none is 0, except that a lone literal is not tested as a tree; and where    *)
(* the first gives a number it is the number.  (Beside a 0 a literal that no   *)
(* word holds is an overflow to some and 0 to others.)                         *)
Agreeable(formula) ==
  \/ \A i \in DOMAIN formula : \A k \in DOMAIN formula[i] : formula[i][k] <= MaxWord
  \/ \A i \in DOMAIN formula : \A k \in DOMAIN formula[i] : formula[i][k] # 0
Exact(factors) ==
  LET p[i \in 0..Len(factors)] == IF i = 0 THEN 1 ELSE p[i - 1] * factors[i]
  IN p[Len(factors)]
FormulaeAgree ==
  kind = "formula" =>
    LET v == EvaluateFormula(now) IN
    /\ Agreeable(now) =>
         /\ v = FactsFormula(now)
         /\ now # <<<<now[1][1]>>>> \/ now[1][1] <= MaxWord => v = TreeValue(now)
    /\ v # None => v = SumOf(Each(now, Exact)) /\ v <= MaxWord

(* Wherever the gate computes one answer in two places, the two agree.         *)
JudgesAgree == RequestJudges /\ BatchMeetsEncoder /\ BoundariesAreTheScanners /\ FormulaeAgree
=============================================================================
