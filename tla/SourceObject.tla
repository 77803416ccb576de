----------------------------- MODULE SourceObject -----------------------------
(* The source objects of the plan corpus: a request is taken from a frame,     *)
(* edited by a list of operations, and judged by an evaluator of its own, next *)
(* to the scanner of PlanFrame.  Large lists and payloads are never built: a   *)
(* byte view is literal or a repeated byte, a list view has literal items, a   *)
(* filler for the rest and single overrides.                                   *)
EXTENDS PlanFrame

CONSTANTS
  Reviewed,     \* manifest -> [pegged, addresses, catalog]: the reviewed contexts
  MaxWord       \* the largest unsigned machine word

-----------------------------------------------------------------------------
(* Byte views and list views.                                                  *)
Literal(s) == [len |-> Len(s), lit |-> s, fill |-> 0]
Filled(n, b) == [len |-> n, lit |-> None, fill |-> b]
ByteAt(v, i) == IF v.lit = None THEN v.fill ELSE v.lit[i]
Bytes(v) == [i \in 1..v.len |-> ByteAt(v, i)]
(* -1, 0 or 1 as the first view comes before, with or after the second.        *)
Compare(v, w) ==
  LET common == IF v.len < w.len THEN v.len ELSE w.len
      differ == IF v.lit = None /\ w.lit = None
                THEN IF v.fill = w.fill THEN {} ELSE 1..common
                ELSE {i \in 1..common : ByteAt(v, i) # ByteAt(w, i)}
      first == CHOOSE i \in differ : \A j \in differ : i <= j
  IN IF differ = {} THEN (IF v.len < w.len THEN -1 ELSE IF v.len > w.len THEN 1 ELSE 0)
     ELSE IF ByteAt(v, first) < ByteAt(w, first) THEN -1 ELSE 1

ListOf(s) == [items |-> s, len |-> Len(s), fill |-> None, over |-> << >>]
Get(l, i) == IF i <= Len(l.items) THEN l.items[i]
             ELSE IF i \in DOMAIN l.over THEN l.over[i] ELSE l.fill
Put(l, i, v) ==
  IF i <= Len(l.items) THEN [l EXCEPT !.items[i] = v]
  ELSE [l EXCEPT !.over = [j \in DOMAIN l.over \union {i} |-> IF j = i THEN v ELSE l.over[j]]]
(* Slip: overrides past the new end survive, and come back when it grows.      *)
ResizeKeepOver(l, n, filler) ==
  [l EXCEPT !.items = IF n < Len(@) THEN SubSeq(@, 1, n) ELSE @,
            !.len = n, !.fill = filler]
Resize(l, n, filler) ==
  [items |-> IF n < Len(l.items) THEN SubSeq(l.items, 1, n) ELSE l.items,
   len |-> n, fill |-> filler,
   over |-> [j \in {k \in DOMAIN l.over : k <= n} |-> l.over[j]]]
Expanded(l) == [i \in 1..l.len |-> Get(l, i)]

RequestOf(v) ==
  LET lit(x) == Literal(<<x>>) IN
  [epoch |-> lit(v.source), manifest |-> lit(v.manifest), pegged |-> lit(v.pegged),
   fee |-> v.fee,
   selected |-> ListOf(Each(v.selected, LAMBDA r :
      [txid |-> Literal(r.txid), vout |-> r.vout, asset |-> lit(r.asset),
       value |-> r.value, candidate |-> Literal(r.candidate),
       previous |-> ListOf(Each(r.previous, Literal)), life |-> "active"])),
   destinations |-> ListOf(Each(v.destinations, LAMBDA r :
      [asset |-> lit(r.asset), value |-> r.value, address |-> Literal(r.address)]))]

(* What a request stands for, the value the independent packer is given.       *)
ValueOf(q) ==
  [source |-> ByteAt(q.epoch, 1), manifest |-> ByteAt(q.manifest, 1),
   pegged |-> ByteAt(q.pegged, 1), fee |-> q.fee,
   selected |-> Each(Expanded(q.selected), LAMBDA r :
      [txid |-> Bytes(r.txid), vout |-> r.vout, asset |-> ByteAt(r.asset, 1),
       value |-> r.value, candidate |-> Bytes(r.candidate),
       previous |-> Each(Expanded(r.previous), Bytes)]),
   destinations |-> Each(Expanded(q.destinations), LAMBDA r :
      [asset |-> ByteAt(r.asset, 1), value |-> r.value, address |-> Bytes(r.address)]),
   aggregate |-> SumOf(Each(Expanded(q.selected), LAMBDA r : r.previous.len))]

-----------------------------------------------------------------------------
(* Operations.  A path names a field of the request, a row of one of its two   *)
(* lists, a field of a row, or one element of a row's previous transactions.   *)
PathType(p) ==
  IF p.elem # None THEN "bytes"
  ELSE IF p.field = None THEN p.list
  ELSE IF p.field = "previous" \/ (p.list = "request" /\ p.field \in {"selected", "destinations"})
  THEN "list"
  ELSE IF p.field \in {"fee", "vout", "value"} THEN "u64" ELSE "bytes"

Reachable(q, p) ==
  /\ p.list # "request" => p.row \in 1..q[p.list].len
  /\ p.elem # None => p.elem \in 1..Get(q[p.list], p.row).previous.len

(* Following a path to a field of a generated row makes the row an override.   *)
Resolved(q, p) ==
  IF p.list = "request" \/ p.field = None \/ p.row <= Len(q[p.list].items) THEN q
  ELSE [q EXCEPT ![p.list] = Put(@, p.row, Get(@, p.row))]

ChildAt(q, p) ==
  IF p.list = "request" THEN q[p.field]
  ELSE LET row == Get(q[p.list], p.row) IN
       IF p.field = None THEN row
       ELSE IF p.elem = None THEN row[p.field] ELSE Get(row.previous, p.elem)
WithChild(q, p, v) ==
  IF p.list = "request" THEN [q EXCEPT ![p.field] = v]
  ELSE LET row == Get(q[p.list], p.row) IN
       [q EXCEPT ![p.list] = Put(@, p.row,
          IF p.field = None THEN v
          ELSE IF p.elem = None THEN [row EXCEPT ![p.field] = v]
          ELSE [row EXCEPT !.previous = Put(@, p.elem, v)])]

ByteLimits(p) ==
  CASE p.field \in {"manifest", "pegged", "asset"} -> [least |-> 1, most |-> 1]
    [] p.field = "txid" -> [least |-> 2, most |-> 2]
    [] p.field = "epoch" -> [least |-> 0, most |-> 2]
    [] p.field = "address" -> [least |-> 0, most |-> MaxAddress + 1]
    [] OTHER -> [least |-> 0, most |-> MaxTransaction + 1]
ListLimit(p) ==
  CASE p.list = "request" /\ p.field = "selected" -> MaxSelected + 1
    [] p.list = "request" -> MaxDestinations + 1
    [] OTHER -> MaxPrevious + 1
(* A list of previous transactions is filled with bytes, the others with a     *)
(* copy of their first row.                                                    *)
FillFits(list, p, filler) ==
  IF p.list = "request" THEN list.len > 0 /\ filler = Get(list, 1)
  ELSE filler.len <= MaxTransaction

(* The request after one operation, None if the checker refuses it.  An edit   *)
(* that leaves the representation as it was is refused as a no-op.  A list of  *)
(* another shape has the right type; it fails the evaluation instead.          *)
Applied(q, o) ==
  LET two == o.op \in {"copy", "swap"}
      r == IF two THEN Resolved(Resolved(q, o.path), o.other) ELSE Resolved(q, o.path)
      type == PathType(o.path)
      old == ChildAt(r, o.path)
      fits == CASE o.op = "set-u64" -> type = "u64" /\ o.word \in 0..MaxWord
                [] o.op = "set-bytes" ->
                     /\ type = "bytes" /\ o.bytes.len >= ByteLimits(o.path).least
                     /\ o.bytes.len <= ByteLimits(o.path).most
                [] o.op = "clear-list" -> type = "list" /\ old.len > 0
                [] o.op = "resize-list" ->
                     /\ type = "list" /\ o.len \in 0..ListLimit(o.path) /\ o.len # old.len
                     /\ FillFits(old, o.path, o.fill)
                [] OTHER -> PathType(o.other) = type /\ (type = "list" => o.other.field = o.path.field)
      done == CASE o.op = "set-u64" -> WithChild(r, o.path, o.word)
                [] o.op = "set-bytes" -> WithChild(r, o.path, o.bytes)
                [] o.op = "clear-list" -> WithChild(r, o.path, ListOf(<< >>))
                [] o.op = "resize-list" -> WithChild(r, o.path, Resize(old, o.len, o.fill))
                [] o.op = "copy" -> WithChild(r, o.path, ChildAt(r, o.other))
                [] OTHER -> WithChild(WithChild(r, o.path, ChildAt(r, o.other)), o.other, old)
  IN IF ~Reachable(q, o.path) \/ (two /\ ~Reachable(q, o.other)) THEN None
     ELSE IF ~fits \/ done = q THEN None ELSE done

-----------------------------------------------------------------------------
(* The evaluator of an edited request.                                         *)
ViewsAscend(l) == \A i \in 1..(l.len - 1) : Compare(Get(l, i), Get(l, i + 1)) < 0

PresentViews(l) == {l.items[i] : i \in DOMAIN l.items} \union {l.over[i] : i \in DOMAIN l.over}
                   \union (IF l.fill = None THEN {} ELSE {l.fill})
(* The bytes of a list without building it.                                    *)
SparseBytes(l) ==
  LET over[S \in SUBSET DOMAIN l.over] ==
        IF S = {} THEN 0
        ELSE LET i == CHOOSE j \in S : TRUE IN l.over[i].len + over[S \ {i}]
      generated == l.len - Len(l.items) - Cardinality(DOMAIN l.over)
  IN SumOf(Each(l.items, LAMBDA v : v.len)) + over[DOMAIN l.over]
     + generated * (IF l.fill = None THEN 0 ELSE l.fill.len)

NumericCode(q) ==
  LET rows == Expanded(q.selected)
      outside(r) == \/ r.txid.len # 2 \/ r.asset.len # 1 \/ r.vout > MaxIndex
                    \/ r.value \notin 1..MaxValue \/ r.candidate.len \notin 1..MaxTransaction
                    \/ r.previous.len > MaxPrevious
                    \/ \E v \in PresentViews(r.previous) : v.len \notin 1..MaxTransaction
  IN IF \/ q.manifest.len # 1 \/ q.pegged.len # 1 \/ q.fee \notin 1..MaxValue
        \/ q.selected.len \notin 1..MaxSelected \/ q.destinations.len \notin 1..MaxDestinations
        \/ \E i \in DOMAIN rows : outside(rows[i])
        \/ SumOf(Each(rows, LAMBDA r : r.previous.len)) > MaxPrevious
        \/ SumOf(Each(rows, LAMBDA r : r.candidate.len + SparseBytes(r.previous)))
             > MaxTransactionBytes
        \/ \E i \in 1..q.destinations.len : LET r == Get(q.destinations, i) IN
             \/ r.asset.len # 1 \/ r.value \notin 1..MaxValue
             \/ r.address.len \notin 1..MaxAddress
     THEN 4 ELSE 0

AllZero(v) == \A i \in 1..v.len : ByteAt(v, i) = 0
StructuralCode(q) ==
  LET rows == Expanded(q.selected)
      key(r) == <<ByteAt(r.txid, 2), ByteAt(r.txid, 1), r.vout>>
      bad(r) == AllZero(r.txid) \/ AllZero(r.asset) \/ ~ViewsAscend(r.previous)
  IN IF \/ AllZero(q.manifest) \/ AllZero(q.pegged)
        \/ \E i \in DOMAIN rows : bad(rows[i])
        \/ \E i \in 1..(Len(rows) - 1) : ~Before(key(rows[i]), key(rows[i + 1]))
        \/ \E i \in 1..q.destinations.len : LET r == Get(q.destinations, i) IN
             \/ AllZero(r.asset)
             \/ \E j \in 1..r.address.len : ByteAt(r.address, j) > AsciiMax
     THEN 3 ELSE 0

TotalBy(rows, key) ==
  SumOf(Each(rows, LAMBDA r : IF r.asset = key THEN r.value ELSE 0))
AssetsOf(rows) == {rows[i].asset : i \in DOMAIN rows}
(* Inputs against outputs and fee, asset by asset; an output of nothing is one *)
(* of its asset, and so is a fee of nothing.                                   *)
Balanced(ins, outs, pegged, fee) ==
  /\ AssetsOf(ins) = AssetsOf(outs) \union {pegged}
  /\ \A key \in AssetsOf(ins) :
       TotalBy(ins, key) = TotalBy(outs, key) + (IF key = pegged THEN fee ELSE 0)

(* Slip: the declared fee is left out of the balance.                          *)
EvaluateNoFee(q) ==
  IF NumericCode(q) # 0 THEN 4 ELSE IF StructuralCode(q) # 0 THEN 3 ELSE
  IF Balanced(Expanded(q.selected), Expanded(q.destinations), q.pegged, 0) THEN 0 ELSE 7
(* Assets are told apart by their views here, not by their bytes.              *)
Evaluate(q) ==
  IF q.epoch.len # 1 \/ AllZero(q.epoch) THEN 1 ELSE
  IF NumericCode(q) # 0 THEN 4 ELSE IF StructuralCode(q) # 0 THEN 3 ELSE
  LET manifest == ByteAt(q.manifest, 1) IN
  IF manifest \notin DOMAIN Reviewed THEN 6 ELSE
  IF ByteAt(q.pegged, 1) # Reviewed[manifest].pegged THEN 6 ELSE
  IF \E i \in 1..q.destinations.len :
       Bytes(Get(q.destinations, i).address) \notin Reviewed[manifest].addresses THEN 7 ELSE
  IF Balanced(Expanded(q.selected), Expanded(q.destinations), q.pegged, q.fee) THEN 0 ELSE 7

(* The other judge of the same plan: context and plan stage of the prepare     *)
(* expectation, from the unpacked frame and the case's catalog.                *)
PlanStage(v, catalog) ==
  IF v.manifest \notin DOMAIN Reviewed THEN 6 ELSE
  IF \/ v.pegged # Reviewed[v.manifest].pegged \/ catalog # Reviewed[v.manifest].catalog
  THEN 6 ELSE
  IF \/ \E i \in DOMAIN v.destinations :
          v.destinations[i].address \notin Reviewed[v.manifest].addresses
     \/ ~Balanced(v.selected, v.destinations, v.pegged, v.fee)
  THEN 7 ELSE 0
=============================================================================
