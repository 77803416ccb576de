------------------------------ MODULE PlanFrame ------------------------------
(* WLPQ request frames as the plan conformance checker reads them             *)
(* (src/ci/check-ordinary-wallet-plan-conformance.py): the scanner that        *)
(* derives the stable error code of a frame, the unpacker that only follows    *)
(* the lengths, the independent packer, and the lineage of derived frames.     *)
(*                                                                             *)
(* A frame is a sequence of cells.  Every integer and identifier of the wire   *)
(* is one cell, a transaction identifier two (its order is that of the         *)
(* reversed bytes), a payload as many cells as its length says.  The magic,    *)
(* version and header length are the cell Magic, the three reserved words of   *)
(* the header one cell; the revision is echoed only and left out.              *)
EXTENDS Integers, Sequences, FiniteSets

CONSTANTS
  None,
  MaxFrame, MaxReachable, MaxSelected, MaxDestinations, MaxPrevious,
  MaxTransaction, MaxTransactionBytes, MaxAddress, MaxIndex, MaxValue,
  AsciiMax      \* the largest cell of an address that is ASCII

Magic == 1
HeaderCells == 10
SelectedCells == 8
DestinationCells == 4

SumOf(s) == LET sum[i \in 0..Len(s)] == IF i = 0 THEN 0 ELSE sum[i - 1] + s[i]
            IN sum[Len(s)]
Joined(s) == LET join[i \in 0..Len(s)] == IF i = 0 THEN << >> ELSE join[i - 1] \o s[i]
             IN join[Len(s)]
Each(s, Op(_)) == [i \in DOMAIN s |-> Op(s[i])]

(* Byte strings in their lexicographic order.                                  *)
Before(a, b) ==
  \E k \in 1..Len(b) : /\ k <= Len(a) + 1
                       /\ SubSeq(a, 1, k - 1) = SubSeq(b, 1, k - 1)
                       /\ k <= Len(a) => a[k] < b[k]
Ascending(s) == \A i \in 1..(Len(s) - 1) : Before(s[i], s[i + 1])
OutpointKey(row) == <<row.txid[2], row.txid[1], row.vout>>

-----------------------------------------------------------------------------
(* Following a frame from its first row to its last.  A walk carries the       *)
(* cursor, the totals, what is wrong without being fatal, and the code of the  *)
(* first fatal defect; with limited = FALSE only the lengths are followed.     *)
Fault(w, c) == [w EXCEPT !.code = c]
Repeat(w, n, Step(_)) ==
  LET run[i \in 0..n] ==
        IF i = 0 THEN w ELSE LET u == run[i - 1] IN IF u.code # 0 THEN u ELSE Step(u)
  IN run[n]

ReadPrevious(d, limited, w) ==
  IF w.at + 1 > Len(d) THEN Fault(w, 3) ELSE
  LET n == d[w.at + 1] IN
  IF limited /\ (n \notin 1..MaxTransaction \/ w.bytes + n > MaxTransactionBytes)
  THEN Fault(w, 4) ELSE
  IF w.at + 1 + n > Len(d) THEN Fault(w, 3) ELSE
  [w EXCEPT !.at = @ + 1 + n, !.bytes = @ + n,
            !.list = Append(@, SubSeq(d, w.at + 2, w.at + 1 + n))]

(* The row that began at the cursor at is complete.                            *)
RowRead(d, at, u) ==
  LET cell(k) == d[at + k]
      body == at + SelectedCells
  IN IF u.code # 0 THEN u ELSE
     [u EXCEPT !.bad = @ \/ <<cell(1), cell(2)>> = <<0, 0>> \/ cell(4) = 0
                         \/ cell(8) # 0 \/ ~Ascending(u.list),
               !.selected = Append(@,
                 [txid |-> <<cell(1), cell(2)>>, vout |-> cell(3), asset |-> cell(4),
                  value |-> cell(5), candidate |-> SubSeq(d, body + 1, body + cell(6)),
                  previous |-> u.list])]
ReadSelected(d, limited, w) ==
  IF w.at + SelectedCells > Len(d) THEN Fault(w, 3) ELSE
  LET cell(k) == d[w.at + k]
      n == cell(6)
      body == w.at + SelectedCells
  IN
  IF limited /\ \/ cell(3) > MaxIndex \/ cell(5) \notin 1..MaxValue
                \/ n \notin 1..MaxTransaction \/ cell(7) > MaxPrevious
                \/ w.bytes + n > MaxTransactionBytes
                \/ w.previous + cell(7) > MaxPrevious
  THEN Fault(w, 4) ELSE
  IF body + n > Len(d) THEN Fault(w, 3) ELSE
  RowRead(d, w.at,
    Repeat([w EXCEPT !.at = body + n, !.bytes = @ + n, !.list = << >>, !.previous = @ + cell(7)],
           cell(7), LAMBDA v : ReadPrevious(d, limited, v)))

ReadDestination(d, limited, w) ==
  IF w.at + DestinationCells > Len(d) THEN Fault(w, 3) ELSE
  LET cell(k) == d[w.at + k]
      n == cell(3)
      body == w.at + DestinationCells
      address == SubSeq(d, body + 1, body + n)
  IN
  IF limited /\ (cell(2) \notin 1..MaxValue \/ n \notin 1..MaxAddress)
  THEN Fault(w, 4) ELSE
  IF body + n > Len(d) THEN Fault(w, 3) ELSE
  [w EXCEPT !.at = body + n,
            !.bad = @ \/ cell(1) = 0 \/ cell(4) # 0
                      \/ \E i \in DOMAIN address : address[i] > AsciiMax,
            !.destinations = Append(@, [asset |-> cell(1), value |-> cell(2),
                                        address |-> address])]

Walk(d, limited) ==
  LET start == [at |-> HeaderCells, code |-> 0, bad |-> FALSE, previous |-> 0,
                bytes |-> 0, list |-> << >>, selected |-> << >>, destinations |-> << >>]
  IN Repeat(Repeat(start, d[7], LAMBDA w : ReadSelected(d, limited, w)),
            d[8], LAMBDA w : ReadDestination(d, limited, w))

FrameValue(d, w) ==
  [source |-> d[4], manifest |-> d[5], pegged |-> d[6], aggregate |-> d[9],
   fee |-> d[10], selected |-> w.selected, destinations |-> w.destinations]

(* Slip: cells after the last row and the declared aggregate are not looked at. *)
MalformedOnlyRows(d, w) == w.bad \/ ~Ascending(Each(w.selected, OutpointKey))
(* What the scanner holds against a frame it could walk to the end of.         *)
Malformed(d, w) == \/ w.bad \/ w.previous # d[9] \/ w.at # Len(d)
                   \/ ~Ascending(Each(w.selected, OutpointKey))

Judged(d, w) ==
  IF w.code # 0 THEN [code |-> w.code, value |-> None] ELSE
  IF Malformed(d, w) THEN [code |-> 3, value |-> None] ELSE [code |-> 0, value |-> FrameValue(d, w)]

(* The stable code of a frame, 0 if it is accepted, and what it says.  The     *)
(* order of the tests is the frozen precedence of the codes.                   *)
Scan(d, source) ==
  LET is(c) == [code |-> c, value |-> None] IN
  IF source = 0 THEN is(1) ELSE
  IF Len(d) > MaxFrame THEN is(4) ELSE
  IF Len(d) < 1 THEN is(3) ELSE
  IF d[1] # Magic THEN is(2) ELSE
  IF Len(d) < HeaderCells THEN is(3) ELSE
  IF d[2] # Len(d) \/ d[3] # 0 \/ 0 \in {d[4], d[5], d[6]} THEN is(3) ELSE
  IF d[4] # source THEN is(5) ELSE
  IF \/ d[7] \notin 1..MaxSelected \/ d[8] \notin 1..MaxDestinations
     \/ d[9] > MaxPrevious \/ d[10] \notin 1..MaxValue \/ Len(d) > MaxReachable
  THEN is(4) ELSE
  Judged(d, Walk(d, TRUE))

(* What a frame says when only its lengths are followed, None if they do not   *)
(* add up.                                                                     *)
Followed(d, w) == IF w.code # 0 \/ w.at # Len(d) THEN None ELSE FrameValue(d, w)
Unpack(d) ==
  IF Len(d) < HeaderCells THEN None ELSE
  IF d[1] # Magic \/ d[2] # Len(d) THEN None ELSE Followed(d, Walk(d, FALSE))

PackRow(row) ==
  row.txid \o <<row.vout, row.asset, row.value, Len(row.candidate),
                Len(row.previous), 0>> \o row.candidate
  \o Joined(Each(row.previous, LAMBDA p : <<Len(p)>> \o p))
PackDestination(row) ==
  <<row.asset, row.value, Len(row.address), 0>> \o row.address
Pack(v) ==
  LET body == Joined(Each(v.selected, PackRow))
              \o Joined(Each(v.destinations, PackDestination))
  IN <<Magic, HeaderCells + Len(body), 0, v.source, v.manifest, v.pegged,
       Len(v.selected), Len(v.destinations),
       SumOf(Each(v.selected, LAMBDA row : Len(row.previous))), v.fee>> \o body

-----------------------------------------------------------------------------
(* The lineage of derived frames.                                              *)
Reversed(s) == [i \in DOMAIN s |-> s[Len(s) + 1 - i]]

(* The fields two unpacked frames differ in.                                   *)
LogicalDiff(a, b) ==
  {<<"header", k>> : k \in {j \in {"source", "manifest", "pegged", "fee"} : a[j] # b[j]}}
  \union
  (IF Len(a.selected) # Len(b.selected) THEN {<<"selected", "count">>}
   ELSE IF a.selected = b.selected THEN {}
   ELSE IF a.selected = Reversed(b.selected) THEN {<<"selected", "order">>}
   ELSE {<<"selected", p[1], p[2]>> :
           p \in {q \in (DOMAIN a.selected) \X
                {"txid", "vout", "asset", "value", "candidate", "previous"} :
                a.selected[q[1]][q[2]] # b.selected[q[1]][q[2]]}})
  \union
  (IF Len(a.destinations) # Len(b.destinations) THEN {<<"destination", "count">>}
   ELSE {<<"destination", p[1], p[2]>> :
           p \in {q \in (DOMAIN a.destinations) \X {"asset", "value", "address"} :
                a.destinations[q[1]][q[2]] # b.destinations[q[1]][q[2]]}})

(* The targets a logical edit may name, and the fields each one covers.        *)
Targets ==
  {{<<"header", "manifest">>}, {<<"header", "pegged">>}, {<<"selected", 2, "txid">>},
   {<<"selected", "order">>}, {<<"selected", 1, "candidate">>, <<"selected", 1, "txid">>}}
  \union {{<<"selected", 1, k>>} : k \in {"previous", "value", "txid", "vout", "candidate"}}
  \union {{<<"destination", 1, k>>} : k \in {"address", "asset", "value"}}

EditedBytes(row, parent) ==
  CASE row.kind = "replace"  -> SubSeq(parent, 1, row.offset) \o row.new
                                \o SubSeq(parent, row.offset + Len(row.old) + 1, Len(parent))
    [] row.kind = "append"   -> parent \o row.new
    [] row.kind = "truncate" -> SubSeq(parent, 1, row.offset)

(* Slip: one of the edited fields is enough.                                   *)
CoversAny(target, changes) == target \in Targets /\ changes \cap target # {}
(* The named target covers every field that changed, and some field did.       *)
Covers(target, changes) ==
  /\ target \in Targets /\ changes # {} /\ changes \subseteq target
  /\ Cardinality(target) = 2 => <<"selected", 1, "candidate">> \in changes

(* Whether a row of the mutation table justifies a child of its parent.  The   *)
(* fields of a byte edit must be absent from a logical one; the comparison     *)
(* that says so is chained, offset # old and old # new, so a lone new passes.  *)
LineageAccepted(row, parent, child) ==
  CASE row.kind = "replace" ->
         /\ row.target = "bytes" /\ Len(row.old) = Len(row.new)
         /\ SubSeq(parent, row.offset + 1, row.offset + Len(row.old)) = row.old
         /\ EditedBytes(row, parent) = child
    [] row.kind = "append" ->
         row.old = None /\ row.offset = Len(parent) /\ EditedBytes(row, parent) = child
    [] row.kind = "truncate" ->
         /\ row.new = None /\ EditedBytes(row, parent) = child
         /\ row.old = SubSeq(parent, row.offset + 1, Len(parent))
    [] row.kind = "logical-repack" ->
         /\ ~(row.offset # row.old /\ row.old # row.new) /\ row.offset = None
         /\ Unpack(parent) # None /\ Unpack(child) # None
         /\ Covers(row.target, LogicalDiff(Unpack(parent), Unpack(child)))
         /\ Pack(Unpack(child)) = child
    [] OTHER -> FALSE
=============================================================================
