------------------------------ MODULE FactsCorpus ------------------------------
(* The wallet-facts corpus and its checker                                     *)
(* (src/ci/check-wallet-facts-conformance.py): response recipes, the           *)
(* violations derived from them and their encoding; and the table of frames,   *)
(* each a base or an edit of an earlier one, with the cases that replay them.  *)
EXTENDS PlanBoundaries

CONSTANTS
  Zero,            \* the identifier of all zero bytes
  TransactionIds,  \* nonzero identifiers, numbers in their byte order
  Bindings,
  MaxInputIndex, MaxDerivation, MaxOutputValue,
  FactsFrames,     \* the base frames of the table
  RecipeEdits, TableEdits, \* the edits of a behaviour
  FactsMost        \* the most transactions, outputs or candidates of a recipe

VARIABLES
  recipe,   \* a recipe, None if the behaviour is about frames
  rows,     \* the frame table, in the order of its identifiers
  cases,    \* the replay table
  touches   \* how many edits are left
factsVars == <<recipe, rows, cases, touches>>

(* The rows a table starts with are of requests and responses; identifiers and *)
(* bounds are numbers, and what is absent is no number and no frame.           *)
Cell == Nat \union {"valid", "semantic"}
ASSUME FactsAssumption ==
  /\ None \notin Nat /\ None \notin Seq(Cell)
  /\ FactsFrames \in Seq([kind : {"request", "response"}, data : Seq(Nat)])
  /\ TransactionIds \union Bindings \union {Zero, MaxInputIndex, MaxOutputValue} \subseteq Nat

-----------------------------------------------------------------------------
(* Response recipes: transactions [id, binding, inputs], the inputs pairs of   *)
(* an identifier and an index, and outputs [id, index, binding, derivation,    *)
(* asset, value, known], known for the reviewed keys and script.               *)
PositionOf(transactions, id) ==
  LET at == {i \in DOMAIN transactions : transactions[i].id = id}
  IN IF at = {} THEN 0 ELSE CHOOSE i \in at : \A j \in at : j <= i

(* Slip: the outputs may come in any order of their transactions.              *)
FollowsAnyOrder(r) == TRUE
(* Outputs of listed transactions come in the order of those.                  *)
FollowsTransactionOrder(r) ==
  \A i, j \in DOMAIN r.outputs :
    LET a == PositionOf(r.transactions, r.outputs[i].id)
        b == PositionOf(r.transactions, r.outputs[j].id)
    IN i < j /\ a # 0 /\ b # 0 => a <= b

TransactionViolations(transactions, i) ==
  LET t == transactions[i]
      badInput(k) == \/ t.inputs[k][1] = Zero \/ t.inputs[k][2] > MaxInputIndex
                     \/ \E j \in 1..(k - 1) : t.inputs[j] = t.inputs[k]
  IN (IF t.id = Zero THEN {"transaction-id-zero"} ELSE {})
     \union (IF i > 1 /\ transactions[i - 1].id >= t.id THEN {"transaction-order"} ELSE {})
     \union (IF t.inputs = << >> THEN {"transaction-inputs-empty"} ELSE {})
     \union (IF \E k \in DOMAIN t.inputs : badInput(k) THEN {"input-invalid"} ELSE {})
OutputViolations(r, i) ==
  LET o == r.outputs[i]
      parent == PositionOf(r.transactions, o.id)
      before == {j \in 1..(i - 1) : r.outputs[j].id = o.id}
      last == CHOOSE j \in before : \A k \in before : k <= j
  IN (IF \/ o.index > MaxInputIndex \/ o.derivation > MaxDerivation \/ o.asset = Zero
         \/ o.value \notin 1..MaxOutputValue \/ ~o.known
      THEN {"output-public-fields-invalid"} ELSE {})
     \union (IF parent = 0 THEN {"output-orphan"}
             ELSE (IF o.binding # r.transactions[parent].binding
                   THEN {"output-binding-mismatch"} ELSE {})
                  \union (IF before # {} /\ r.outputs[last].index >= o.index
                          THEN {"output-order"} ELSE {}))
(* What the checker holds against a response recipe.  The source keeps a list  *)
(* in the order of discovery and compares it with lists of at most one entry.  *)
ResponseViolations(r) ==
  UNION ({TransactionViolations(r.transactions, i) : i \in DOMAIN r.transactions}
         \union {OutputViolations(r, i) : i \in DOMAIN r.outputs})

(* Request recipes: [network, derivation, descriptor, candidates], the         *)
(* candidates records of a transaction and its previous transactions.          *)
RequestViolations(r) ==
  (IF r.epoch = 0 THEN {"epoch-zero"} ELSE {})
  \union (IF r.descriptor = <<"valid">> THEN {} ELSE {"descriptor-semantic"})
  \union (IF \E i \in DOMAIN r.candidates : r.candidates[i].transaction = << >>
          THEN {"candidate-empty"} ELSE {})

(* What each reviewed property token of a recipe stands for: the violations    *)
(* the checker must find and the code of the call that is given the recipe.    *)
RecipeProperties ==
  [acceptedRequest |-> [kind |-> "request", found |-> {}, code |-> 0],
   candidateEmpty |-> [kind |-> "request", found |-> {"candidate-empty"}, code |-> 6],
   descriptorSemantic |-> [kind |-> "request", found |-> {"descriptor-semantic", "candidate-empty"}, code |-> 5],
   zeroRequest |-> [kind |-> "request", code |-> 1,
                    found |-> {"epoch-zero", "descriptor-semantic", "candidate-empty"}],
   acceptedResponse |-> [kind |-> "response", found |-> {}, code |-> 0],
   inputsEmpty |-> [kind |-> "response", found |-> {"transaction-inputs-empty"}, code |-> 7],
   idZero |-> [kind |-> "response", found |-> {"transaction-id-zero"}, code |-> 7],
   orphan |-> [kind |-> "response", found |-> {"output-orphan"}, code |-> 7],
   binding |-> [kind |-> "response", found |-> {"output-binding-mismatch"}, code |-> 7],
   order |-> [kind |-> "response", found |-> {"output-order"}, code |-> 7],
   zeroResponse |-> [kind |-> "response", found |-> {"transaction-inputs-empty"}, code |-> 1]]
RecipeAccepted(r, token) ==
  LET p == RecipeProperties[token] IN
  /\ r.kind = p.kind
  /\ IF r.kind = "request" THEN RequestViolations(r) = p.found
     ELSE /\ FollowsTransactionOrder(r) /\ ResponseViolations(r) = p.found
          /\ (r.epoch = 0) = (token = "zeroResponse")

(* Slip: the header counts the candidates that have a previous transaction.    *)
EncodeRequestByCandidate(r) ==
  <<r.network, r.derivation, r.epoch, Len(r.descriptor), Len(r.candidates),
    Cardinality({i \in DOMAIN r.candidates : r.candidates[i].previous # << >>})>> \o r.descriptor
  \o Joined(Each(r.candidates, LAMBDA c : <<Len(c.transaction), Len(c.previous)>> \o c.transaction
                   \o Joined(Each(c.previous, LAMBDA x : <<Len(x)>> \o x))))
EncodeRequest(r) ==
  <<r.network, r.derivation, r.epoch, Len(r.descriptor), Len(r.candidates),
    SumOf(Each(r.candidates, LAMBDA c : Len(c.previous)))>> \o r.descriptor
  \o Joined(Each(r.candidates, LAMBDA c : <<Len(c.transaction), Len(c.previous)>> \o c.transaction
                   \o Joined(Each(c.previous, LAMBDA x : <<Len(x)>> \o x))))
(* The reader of an encoded request, by its counts: so many items, one after   *)
(* the other; None if the count of previous transactions in the header is not  *)
(* the one of the candidates.                                                  *)
Gathered(d, start, n, Item(_, _)) ==
  LET run[i \in 0..n] ==
        IF i = 0 THEN [at |-> start, list |-> << >>]
        ELSE LET x == Item(d, run[i - 1].at)
             IN [at |-> x.at, list |-> Append(run[i - 1].list, x.value)]
  IN run[n]
ReadText(d, at) ==
  [at |-> at + 1 + d[at + 1], value |-> SubSeq(d, at + 2, at + 1 + d[at + 1])]
ReadCandidate(d, at) ==
  LET previous == Gathered(d, at + 2 + d[at + 1], d[at + 2], ReadText)
  IN [at |-> previous.at,
      value |-> [transaction |-> SubSeq(d, at + 3, at + 2 + d[at + 1]), previous |-> previous.list]]
DecodeRequest(d) ==
  LET candidates == Gathered(d, 6 + d[4], d[5], ReadCandidate).list
  IN IF SumOf(Each(candidates, LAMBDA c : Len(c.previous))) # d[6] THEN None
     ELSE [kind |-> "request", network |-> d[1], derivation |-> d[2], epoch |-> d[3],
           descriptor |-> SubSeq(d, 7, 6 + d[4]), candidates |-> candidates]

(* The encoder of responses walks the outputs once: each transaction takes     *)
(* those that come next and name it.  None when some output is not taken.      *)
GroupEnds(r) ==
  LET end[i \in 0..Len(r.transactions)] ==
        IF i = 0 THEN 0 ELSE
        LET from == end[i - 1]
            taken == {n \in 0..(Len(r.outputs) - from) :
                        \A k \in 1..n : r.outputs[from + k].id = r.transactions[i].id}
        IN from + (CHOOSE n \in taken : \A m \in taken : m <= n)
  IN end
EncodeResponse(r) ==
  LET end == GroupEnds(r)
      group(i) == SubSeq(r.outputs, end[i - 1] + 1, end[i])
      block(i) == LET t == r.transactions[i] IN
        <<t.id, t.binding, Len(t.inputs), Len(group(i))>> \o Joined(t.inputs)
        \o Joined(Each(group(i), LAMBDA o : <<o.index, o.derivation, o.asset, o.value>>))
  IN IF end[Len(r.transactions)] # Len(r.outputs) THEN None
     ELSE <<Len(r.transactions), Len(r.outputs), r.epoch>>
          \o Joined([i \in DOMAIN r.transactions |-> block(i)])

(* The reader of an encoded response, by its counts.                           *)
DecodeResponse(d) ==
  LET read[i \in 0..d[1]] ==
        IF i = 0 THEN [at |-> 3, transactions |-> << >>, outputs |-> << >>]
        ELSE LET u == read[i - 1]
                 n == d[u.at + 3]
                 m == d[u.at + 4]
                 ins == u.at + 4
                 outs == ins + (2 * n)
             IN [at |-> outs + (4 * m),
                 transactions |-> Append(u.transactions,
                   [id |-> d[u.at + 1], binding |-> d[u.at + 2],
                    inputs |-> [k \in 1..n |-> <<d[ins + (2 * k) - 1], d[ins + (2 * k)]>>]]),
                 outputs |-> u.outputs \o [k \in 1..m |-> LET c == outs + (4 * (k - 1)) IN
                   [id |-> d[u.at + 1], index |-> d[c + 1], binding |-> d[u.at + 2],
                    derivation |-> d[c + 2], asset |-> d[c + 3], value |-> d[c + 4],
                    known |-> TRUE]]]
  IN [kind |-> "response", epoch |-> d[3], transactions |-> read[d[1]].transactions,
      outputs |-> read[d[1]].outputs]

(* A row of the API table hands the recipe to a call and names the frame the   *)
(* call must give: the encoding of the recipe, no frame for an error.          *)
Encoded(r) == IF r.kind = "request" THEN EncodeRequest(r) ELSE EncodeResponse(r)
ApiAccepted(r, token, code, frame) ==
  /\ code = RecipeProperties[token].code
  /\ IF code = 0 THEN frame = Encoded(r) ELSE frame = None

-----------------------------------------------------------------------------
(* The frame table.  A row is [id, kind, parent, edit, offset, old, new, data], *)
(* parent None for a base.                                                     *)
IndexOf(table, id) == {i \in DOMAIN table : table[i].id = id}

Rebuilt(row, parent) ==
  CASE row.edit = "replace" ->
         IF row.old = << >> \/ Len(row.old) # Len(row.new) THEN None
         ELSE IF SubSeq(parent, row.offset + 1, row.offset + Len(row.old)) # row.old THEN None
         ELSE SubSeq(parent, 1, row.offset) \o row.new
              \o SubSeq(parent, row.offset + Len(row.old) + 1, Len(parent))
    [] row.edit = "append" ->
         IF row.new = << >> \/ row.offset # Len(parent) THEN None ELSE parent \o row.new
    [] OTHER ->
         IF row.offset # Len(row.data) \/ row.offset >= Len(parent) THEN None
         ELSE SubSeq(parent, 1, row.offset)

(* Slip: a parent need only be in the table.                                   *)
ParentAnywhere(table, i) == IndexOf(table, table[i].parent)
(* The rows that may be the parent of the i-th: the earlier ones of its name.  *)
ParentsOf(table, i) == {j \in IndexOf(table, table[i].parent) : j < i}

FrameAccepted(table, i) ==
  LET row == table[i] IN
  /\ \A j \in 1..(i - 1) : table[j].data # row.data /\ table[j].id < row.id
  /\ IF row.edit = "base" THEN row.parent = None /\ row.offset = None /\ row.old = None /\ row.new = None
     ELSE \E j \in ParentsOf(table, i) :
            table[j].kind = row.kind /\ Rebuilt(row, table[j].data) = row.data
FramesAccepted(table) == table # << >> /\ \A i \in DOMAIN table : FrameAccepted(table, i)

(* A replay case is [frame, operation, epoch, code, canonical].                *)
CaseAccepted(c, table) ==
  /\ IndexOf(table, c.frame) # {}
  /\ LET request == c.operation # "response-decode"
         kind == table[CHOOSE i \in IndexOf(table, c.frame) : TRUE].kind
     IN /\ request = (kind = "request") /\ request = (c.epoch = None)
        /\ c.code \in 0..8
        /\ c.canonical => c.code = 0 /\ c.operation \in {"request-decode", "request-reencode"}
        /\ ~(c.operation = "request-prepare" /\ c.code = 6)
(* Cases agree on the code of a frame, operation and epoch, and every frame is *)
(* replayed by one.  (The table itself is pinned by its digest as well.)       *)
ReplaysAccepted(replays, table) ==
  /\ \A c \in replays : CaseAccepted(c, table)
  /\ \A c, e \in replays : c.frame = e.frame /\ c.operation = e.operation /\ c.epoch = e.epoch => c = e
  /\ {c.frame : c \in replays} = {table[i].id : i \in DOMAIN table}

-----------------------------------------------------------------------------
Base(id, kind, data) ==
  [id |-> id, kind |-> kind, parent |-> None, edit |-> "base", offset |-> None, old |-> None,
   new |-> None, data |-> data]
FactsInit ==
  \/ /\ touches = RecipeEdits /\ rows = << >> /\ cases = {}
     /\ \/ \E e \in 0..1 : recipe = [kind |-> "response", epoch |-> e, transactions |-> << >>, outputs |-> << >>]
        \/ \E e \in 0..1, text \in {"valid", "semantic"} :
             recipe = [kind |-> "request", epoch |-> e, network |-> 1, derivation |-> 0,
                       descriptor |-> <<text>>, candidates |-> << >>]
  \/ /\ touches = TableEdits /\ recipe = None
     /\ rows = [i \in 1..Len(FactsFrames) |-> Base(2 * i, FactsFrames[i].kind, FactsFrames[i].data)]
     /\ cases = {[frame |-> 2 * i, code |-> 0, canonical |-> FALSE,
                  epoch |-> IF FactsFrames[i].kind = "request" THEN None ELSE 1,
                  operation |-> FactsFrames[i].kind \o "-decode"] : i \in 1..Len(FactsFrames)}

Touch == touches > 0 /\ touches' = touches - 1
RecipeOf(k) == IF recipe = None THEN FALSE ELSE recipe.kind = k

AddCandidate ==
  /\ RecipeOf("request") /\ Touch /\ Len(recipe.candidates) < FactsMost
  /\ \E t \in {<< >>, <<1>>, <<1, 2>>} :
       recipe' = [recipe EXCEPT !.candidates = Append(@, [transaction |-> t, previous |-> << >>])]
  /\ UNCHANGED <<rows, cases>>
AddPrevious ==
  /\ RecipeOf("request") /\ Touch
  /\ \E i \in DOMAIN recipe.candidates, t \in {<<1>>, <<2, 1>>} :
       recipe' = [recipe EXCEPT !.candidates[i].previous = Append(@, t)]
  /\ UNCHANGED <<rows, cases>>
AddTransaction ==
  /\ RecipeOf("response") /\ Touch /\ Len(recipe.transactions) < FactsMost
  /\ \E id \in TransactionIds \union {Zero}, b \in Bindings,
        ins \in {<< >>, <<<<1, 0>>>>, <<<<1, MaxInputIndex>>, <<1, MaxInputIndex>>>>} :
       recipe' = [recipe EXCEPT !.transactions =
                    Append(@, [id |-> id, binding |-> b, inputs |-> ins])]
  /\ UNCHANGED <<rows, cases>>
AddOutput ==
  /\ RecipeOf("response") /\ Touch /\ Len(recipe.outputs) < FactsMost
  /\ \E id \in TransactionIds, index \in 0..1, b \in Bindings,
        value \in {MaxOutputValue, MaxOutputValue + 1} :
       recipe' = [recipe EXCEPT !.outputs = Append(@,
         [id |-> id, index |-> index, binding |-> b, derivation |-> 0, asset |-> 1,
          value |-> value, known |-> TRUE])]
  /\ UNCHANGED <<rows, cases>>

(* The author adds an edited frame anywhere in the table, points a row at      *)
(* another parent, swaps the data of two rows, adds or drops a case.           *)
Inserted(table, row) ==
  LET n == Cardinality({i \in DOMAIN table : table[i].id < row.id})
  IN SubSeq(table, 1, n) \o <<row>> \o SubSeq(table, n + 1, Len(table))
EditsOf(data, id, kind, parent) ==
  {[id |-> id, kind |-> kind, parent |-> parent, edit |-> "replace", offset |-> k - 1,
    old |-> <<data[k]>>, new |-> <<x>>, data |-> [data EXCEPT ![k] = x]] :
     k \in DOMAIN data, x \in 1..2}
  \union {[id |-> id, kind |-> kind, parent |-> parent, edit |-> "append", offset |-> Len(data),
           old |-> None, new |-> <<x>>, data |-> Append(data, x)] : x \in 1..2}
  \union {[id |-> id, kind |-> kind, parent |-> parent, edit |-> "truncate", offset |-> n,
           old |-> None, new |-> None, data |-> SubSeq(data, 1, n)] : n \in 0..(Len(data) - 1)}
AddFrame ==
  /\ recipe = None /\ Touch /\ Len(rows) < Len(FactsFrames) + 2
  /\ \E i \in DOMAIN rows, id \in 1..(2 * Len(FactsFrames) + 1), kind \in {"request", "response"} :
       /\ IndexOf(rows, id) = {}
       /\ \E row \in EditsOf(rows[i].data, id, kind, rows[i].id) :
            /\ rows' = Inserted(rows, row)
            /\ cases' = cases \union
                 {[frame |-> id, code |-> 0, canonical |-> FALSE, operation |-> kind \o "-decode",
                   epoch |-> IF kind = "request" THEN None ELSE 1]}
  /\ UNCHANGED recipe
PointAtParent ==
  /\ recipe = None /\ Touch
  /\ \E i, j \in DOMAIN rows : \E row \in EditsOf(rows[j].data, rows[i].id, rows[i].kind, rows[j].id) :
       row.data = rows[i].data /\ rows' = [rows EXCEPT ![i] = row]
  /\ UNCHANGED <<recipe, cases>>
EditCases ==
  /\ recipe = None /\ Touch
  /\ \/ \E c \in cases : cases' = cases \ {c}
     \/ \E i \in DOMAIN rows, code \in {0, 6},
           op \in {"request-decode", "request-prepare", "response-decode"}, canonical \in BOOLEAN :
          cases' = cases \union {[frame |-> rows[i].id, operation |-> op, code |-> code,
                                  canonical |-> canonical,
                                  epoch |-> IF op = "response-decode" THEN 1 ELSE None]}
  /\ UNCHANGED <<recipe, rows>>

FactsNext ==
  \/ AddCandidate \/ AddPrevious \/ AddTransaction \/ AddOutput
  \/ AddFrame \/ PointAtParent \/ EditCases
FactsSpec == FactsInit /\ [][FactsNext]_factsVars

-----------------------------------------------------------------------------
(* A recipe accepted under a property token, with an API row for it: if the    *)
(* row gives a frame, the frame reads back as the recipe, so the encoder of    *)
(* the checker leaves no output behind, gives none to another transaction and  *)
(* needs no identifier or binding of its own; and no recipe is accepted with a *)
(* frame under one token and with an error under another.                      *)
CleanRecipesRoundTrip ==
  recipe # None =>
    \A token \in DOMAIN RecipeProperties : RecipeAccepted(recipe, token) =>
      LET code == RecipeProperties[token].code IN
      /\ code = 0 =>
           LET frame == Encoded(recipe) IN
           /\ frame # None /\ ApiAccepted(recipe, token, 0, frame)
           /\ recipe = IF recipe.kind = "request" THEN DecodeRequest(frame) ELSE DecodeResponse(frame)
      /\ \A other \in DOMAIN RecipeProperties :
           RecipeAccepted(recipe, other) => (code = 0 <=> RecipeProperties[other].code = 0)

(* In a table of frames the checker accepts, every frame has a history: going  *)
(* from parent to parent ends at a base of the same kind, and applying the     *)
(* edits on the way back gives the frame; and some case replays it.            *)
History(table, i) ==
  LET up[n \in 0..Len(table)] ==
        IF n = 0 THEN {i} ELSE
        UNION {IF table[j].parent = None THEN {j} ELSE IndexOf(table, table[j].parent) : j \in up[n - 1]}
  IN up[Len(table)]
AcceptedFramesAreTold ==
  recipe = None /\ FramesAccepted(rows) =>
    /\ \A i \in DOMAIN rows : \E j \in History(rows, i) :
         rows[j].edit = "base" /\ rows[j].kind = rows[i].kind
    /\ ReplaysAccepted(cases, rows) => \A i \in DOMAIN rows : \E c \in cases :
         c.frame = rows[i].id /\ (c.operation = "response-decode" <=> rows[i].kind = "response")
=============================================================================
