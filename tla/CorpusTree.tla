------------------------------ MODULE CorpusTree ------------------------------
(* The whole corpus as its checkers see it: a directory with its checksum      *)
(* inventories, the tables in it and what the tables say of the other files    *)
(* (run of src/ci/check-ordinary-wallet-plan-conformance.py, verify_checksums  *)
(* of src/ci/check-wallet-facts-conformance.py).  An author edits files,       *)
(* regenerates tables and inventories; the checker judges each tree.           *)
(*                                                                             *)
(* A digest is the data itself.  An entry is [kind, large, links, data]; a     *)
(* path below vectors is <<name>> or <<directory, identifier>>.                *)
EXTENDS PublicTransaction

CONSTANTS
  PlanTop, PlanVectors,     \* the reviewed plan corpus
  FactsTop, FactsVectors,   \* the facts corpus
  PlanOwned,                \* catalog -> the scripts of its outputs
  PlanPrepared,             \* frame of a prepare case -> the fixtures it is made of
  RequiredTerms,            \* what the two documents must say
  TestEpoch, DefaultFrame,
  FrameData,                \* what an author may write into a frame
  TreeEdits

VARIABLES
  corpus,   \* "plan" or "facts"
  top,      \* name -> entry
  vectors,  \* path -> entry
  left      \* how many edits are left
treeVars == <<corpus, top, vectors, left>>

TopFiles == {p \in DOMAIN top : top[p].kind = "file"}
VectorFiles == {p \in DOMAIN vectors : vectors[p].kind = "file"}

-----------------------------------------------------------------------------
(* The inventories of the plan corpus.                                         *)
PlanNames == {"CATALOGS", "CONTEXTS", "ID", "ROOT", "ERRORS", "SUMS", "WIRE"}

(* Slip: a file below vectors need not be in the inventory.                    *)
NestedWithin(sums, files) == DOMAIN sums \subseteq files
NestedExact(sums, files) == DOMAIN sums = files

(* What the inventory of a directory says holds of the files it names.         *)
SumsHold(sums, tree) == \A p \in DOMAIN sums : p \in DOMAIN tree /\ tree[p].kind = "file" /\ sums[p] = tree[p].data

PlanTopology ==
  /\ \A p \in DOMAIN top : top[p].kind # "link"
  /\ \A p \in DOMAIN vectors : vectors[p].kind # "link"
  /\ \A p \in TopFiles : ~top[p].large
  /\ DOMAIN top = PlanNames \union {"vectors"} /\ top["vectors"].kind = "dir"
  /\ <<"SUMS">> \in VectorFiles
  /\ LET nested == vectors[<<"SUMS">>].data
         sums == IF "SUMS" \in TopFiles THEN top["SUMS"].data ELSE [files |-> << >>, vectors |-> << >>]
     IN /\ ~vectors[<<"SUMS">>].large
        /\ NestedExact(nested, VectorFiles \ {<<"SUMS">>})
        /\ \A p \in DOMAIN nested : ~vectors[p].large
        /\ SumsHold(nested, vectors)
        /\ DOMAIN sums.files = PlanNames \ {"SUMS", "ROOT"} /\ SumsHold(sums.files, top)
        /\ sums.vectors = nested
        /\ "ROOT" \in TopFiles /\ top["ROOT"].data = sums
(* The roots themselves, pinned in the checker.                                *)
ReviewedRoots ==
  /\ "SUMS" \in TopFiles /\ "ROOT" \in TopFiles /\ <<"SUMS">> \in VectorFiles
  /\ ~top["SUMS"].large /\ ~top["ROOT"].large /\ ~vectors[<<"SUMS">>].large
  /\ top["SUMS"].data = PlanTop["SUMS"].data /\ top["ROOT"].data = PlanTop["ROOT"].data
  /\ vectors[<<"SUMS">>].data = PlanVectors[<<"SUMS">>].data

(* The inventories of the facts corpus, where a file has one name.             *)
FactsNames == {"ERRORS", "SUMS", "WIRE"}

(* The reviewed corpora are closed: their inventories are of their own files.  *)
InventoryOf(tree, below, names) ==
  /\ <<"SUMS">> \in DOMAIN below
  /\ tree["SUMS"].data.vectors = below[<<"SUMS">>].data
  /\ \A n \in names : tree["SUMS"].data.files[n] = tree[n].data
  /\ DOMAIN below[<<"SUMS">>].data = DOMAIN below \ {<<"SUMS">>}
  /\ \A p \in DOMAIN below \ {<<"SUMS">>} : below[<<"SUMS">>].data[p] = below[p].data
ASSUME ReviewedAssumption ==
  /\ InventoryOf(PlanTop, PlanVectors, PlanNames \ {"SUMS", "ROOT"})
  /\ InventoryOf(FactsTop, FactsVectors, FactsNames \ {"SUMS"})

(* And the tables of the plan corpus are true of its files: each fixture has   *)
(* the digest of its row, and a case reads the frame and the model it names.   *)
ReviewedRows(name) == {PlanVectors[<<name>>].data[i] : i \in DOMAIN PlanVectors[<<name>>].data}
ReviewedIs(p, data) == p \in DOMAIN PlanVectors /\ PlanVectors[p].data = data
ASSUME ReviewedTablesAssumption ==
  /\ \A p \in DOMAIN PlanVectors : DOMAIN PlanVectors[p] = {"kind", "large", "links", "data"}
  /\ \A r \in ReviewedRows("FIXTURES") : ReviewedIs(r.path, r.digest)
  /\ \A c \in ReviewedRows("CASES") :
       /\ c.frame # None => ReviewedIs(<<"frames", c.frame>>, c.input.frame)
       /\ c.model # None => ReviewedIs(<<"source-models", c.model>>, c.input.model[1])
  /\ \A p \in DOMAIN PlanVectors : p[1] = "source-models" => "kind" \in DOMAIN PlanVectors[p].data
  /\ \A b \in ReviewedRows("BOUNDARIES") :
       LET p == <<"source-models", b.model>>
       IN p \in DOMAIN PlanVectors /\ PlanVectors[p].data.kind = "boundary"

FactsTopology ==
  /\ \A p \in DOMAIN top : top[p].kind = (IF p = "vectors" THEN "dir" ELSE "file")
  /\ DOMAIN top = FactsNames \union {"vectors"}
  /\ \A p \in FactsNames : top[p].links = 1
  /\ \A p \in DOMAIN vectors : vectors[p].kind = "dir" \/ (vectors[p].kind = "file" /\ vectors[p].links = 1)
  /\ <<"SUMS">> \in VectorFiles
  /\ LET nested == vectors[<<"SUMS">>].data
         sums == top["SUMS"].data
     IN /\ DOMAIN nested = VectorFiles \ {<<"SUMS">>} /\ SumsHold(nested, vectors)
        /\ DOMAIN sums.files = FactsNames \ {"SUMS"} /\ SumsHold(sums.files, top)
        /\ sums.vectors = nested

-----------------------------------------------------------------------------
(* The tables: sequences of rows, by ascending identifier.                     *)
Tables == {"FIXTURES", "ASSERTIONS", "SCRIPTS", "PROOFS", "FRAMES", "MUTATIONS", "BINDINGS",
           "CASES", "MODELS", "BOUNDARIES"}
Table(name) == vectors[<<name>>].data
ParsedTable(rows) ==
  /\ rows # << >> /\ \A i \in DOMAIN rows : rows[i].id # None
  /\ \A i \in 1..(Len(rows) - 1) : rows[i].id < rows[i + 1].id
RowsIn(name) == {Table(name)[i] : i \in DOMAIN Table(name)}
Ids(name) == {r.id : r \in RowsIn(name)}
RowOf(name, id) == CHOOSE r \in RowsIn(name) : r.id = id
DataAt(path) == vectors[path].data
FrameAt(id) == DataAt(<<"frames", id>>)
FixtureAt(id) == DataAt(<<"public", id>>)

(* Every file below vectors is a table or named by one.                        *)
NamedFiles ==
  {<<name>> : name \in Tables \union {"CORPUS"}} \union {r.path : r \in RowsIn("FIXTURES")}
  \union {r.path : r \in RowsIn("FRAMES")} \union {r.path : r \in RowsIn("MODELS")}

(* Fixtures: the rows are pinned, and each is true of its file.                *)
FixturesAccepted ==
  /\ Table("FIXTURES") = PlanVectors[<<"FIXTURES">>].data
  /\ \A r \in RowsIn("FIXTURES") :
       /\ r.path[1] = "public" /\ r.fixtureKind \in {"candidate", "previous"}
       /\ DataAt(r.path) = r.digest
       /\ ScanTransaction(r.digest) # None /\ Txid(ScanTransaction(r.digest)) = r.txid

(* Assertions about the parsed fixtures.                                       *)
Relations == {"same-txid", "different-txid", "different-full"}
AssertedValue(r) ==
  LET tx == ScanTransaction(FixtureAt(r.fixture)) IN
  CASE r.predicate = "input-count" -> Len(tx.ins)
    [] r.predicate = "output-count" -> Len(tx.outs)
    [] r.predicate = "input-previous-txid" -> tx.ins[r.index + 1].txid
    [] r.predicate = "output-witness" -> tx.witness[r.index + 1]
    [] r.predicate = "same-txid" -> RowOf("FIXTURES", r.fixture).txid = RowOf("FIXTURES", r.related).txid
    [] r.predicate = "different-txid" -> RowOf("FIXTURES", r.fixture).txid # RowOf("FIXTURES", r.related).txid
    [] OTHER -> FixtureAt(r.fixture) # FixtureAt(r.related)
AssertionsAccepted ==
  /\ \A r \in RowsIn("ASSERTIONS") :
       /\ r.fixture \in Ids("FIXTURES") /\ (r.related # None <=> r.predicate \in Relations)
       /\ r.related # None => r.related \in Ids("FIXTURES")
       /\ AssertedValue(r) = r.expected
  /\ Table("ASSERTIONS") = PlanVectors[<<"ASSERTIONS">>].data
(* The scripts of the catalogs and the proof cases are pinned as they are.     *)
AuthoritiesAccepted ==
  /\ \A name \in {"SCRIPTS", "PROOFS", "BOUNDARIES"} : Table(name) = PlanVectors[<<name>>].data
  /\ {r.catalog : r \in RowsIn("SCRIPTS")} = DOMAIN PlanOwned
  /\ \A r \in RowsIn("PROOFS") : {r.candidate, r.previous} \subseteq Ids("FIXTURES")
(* The small tables beside vectors are fixed; the descriptor checksums in them *)
(* are part of their data.                                                     *)
ConstantsAccepted == \A name \in {"ID", "ERRORS", "CONTEXTS", "CATALOGS"} : top[name].data = PlanTop[name].data
DocumentsAccepted == RequiredTerms \subseteq top["WIRE"].data /\ RequiredTerms \subseteq DataAt(<<"CORPUS">>)

(* Frames: the path binds the identifier; digest, code and fields are derived  *)
(* again.  A row of a refused frame may still tell its fields.                 *)
FrameRowAccepted(r) ==
  /\ r.path = <<"frames", r.id>> /\ r.digest = DataAt(r.path)
  /\ LET data == DataAt(r.path)
         s == Scan(data, IF r.source = None THEN TestEpoch ELSE r.source)
     IN /\ r.code = s.code
        /\ IF s.value # None THEN r.fields = s.value /\ Pack(s.value) = data
           ELSE r.fields # None => Unpack(data) # None /\ r.fields = Unpack(data) /\ Pack(r.fields) = data

(* Payload bindings: every place of a frame a fixture stands in, and no other. *)
Places(id) ==
  LET v == Unpack(FrameAt(id)) IN
  IF v = None THEN {} ELSE
  UNION {
    {[frame |-> id, index |-> i, role |-> "candidate", place |-> 0, fixture |-> p[1].id, transform |-> p[2]] :
       p \in {x \in RowsIn("FIXTURES") \X {"identity", "append-zero"} :
          x[1].fixtureKind = "candidate" /\ v.selected[i].candidate =
            FixtureAt(x[1].id) \o (IF x[2] = "identity" THEN << >> ELSE <<0>>)}}
    \union {[frame |-> id, index |-> i, role |-> "previous", place |-> p[2], fixture |-> p[1].id,
             transform |-> "identity"] :
       p \in {x \in RowsIn("FIXTURES") \X DOMAIN v.selected[i].previous :
          x[1].fixtureKind = "previous" /\ v.selected[i].previous[x[2]] = FixtureAt(x[1].id)}}
    : i \in DOMAIN v.selected}
BindingsAccepted ==
  LET bound == [i \in DOMAIN Table("BINDINGS") |-> Table("BINDINGS")[i].at] IN
  /\ {bound[i] : i \in DOMAIN bound} = UNION {Places(id) : id \in Ids("FRAMES")}
  /\ \A i, j \in DOMAIN bound : bound[i] = bound[j] => i = j

(* Mutations and derived frames correspond one to one.                         *)
MutationsAccepted ==
  LET derived == {r \in RowsIn("FRAMES") : r.parent # None}
      named == {r \in RowsIn("FRAMES") : r.mutation # None}
  IN /\ {r.id : r \in derived} = {m.child : m \in RowsIn("MUTATIONS")}
     /\ Ids("MUTATIONS") = {r.mutation : r \in named} /\ derived = named
     /\ \A m \in RowsIn("MUTATIONS") :
          /\ {m.parent, m.child} \subseteq Ids("FRAMES")
          /\ RowOf("FRAMES", m.child).parent = m.parent /\ RowOf("FRAMES", m.child).mutation = m.id
          /\ LineageAccepted(m.edit, FrameAt(m.parent), FrameAt(m.child))

(* Source models: [kind, frame, ops].  The outcome is derived from the frame   *)
(* the object starts from; a boundary is judged with its table.                *)
EditedRequest(ops, q) ==
  LET run[i \in 0..Len(ops)] ==
        IF i = 0 THEN q ELSE IF run[i - 1] = None THEN None ELSE Applied(run[i - 1], ops[i])
  IN run[Len(ops)]
CodeOf(result) ==
  CASE result = "argument" -> 1 [] result = "limit" -> 4 [] result = "encoding" -> 3 [] OTHER -> 0
Edited(m) == EditedRequest(m.ops, RequestOf(Unpack(FrameAt(m.frame))))
BatchFor(q) ==
  [plan |-> [identity |-> "plan", count |-> q.selected.len], life |-> "active",
   rows |-> Expanded(q.selected)]
OutcomeOf(kind, q) ==
  CASE q = None -> None
    [] kind = "request" -> Evaluate(q)
    [] kind = "row" -> CodeOf(EvaluateRow(Get(q.selected, 1)))
    [] kind = "batch" -> CodeOf(EvaluateBatch(BatchFor(q)))
    [] OTHER -> CodeOf(EvaluateCall([epoch |-> q.epoch, plan |-> BatchFor(q).plan, batch |-> BatchFor(q)]))
SourceOutcome(m) == IF m.kind = "boundary" THEN CodeOf(m.result) ELSE OutcomeOf(m.kind, Edited(m))
Consumers(id) ==
  {<<"case", c.id>> : c \in {x \in RowsIn("CASES") : x.model = id}}
  \union {<<"boundary", b.id>> : b \in {x \in RowsIn("BOUNDARIES") : x.model = id}}
Encodes(m) == Pack(ValueOf(Edited(m)))
ModelsAccepted ==
  /\ {c.model : c \in RowsIn("CASES")} \ {None} \subseteq Ids("MODELS")
  /\ {b.model : b \in RowsIn("BOUNDARIES")} \subseteq Ids("MODELS")
  /\ \A r \in RowsIn("MODELS") :
       /\ Cardinality(Consumers(r.id)) = 1
       /\ r.path = <<"source-models", r.id>> /\ r.digest = DataAt(r.path)
       /\ (DataAt(r.path).kind # "boundary" => DataAt(r.path).frame \in Ids("FRAMES")
             /\ Unpack(FrameAt(DataAt(r.path).frame)) # None)
       /\ SourceOutcome(DataAt(r.path)) = r.code
       /\ \A c \in {x \in RowsIn("CASES") : x.model = r.id} :
            /\ c.partition = r.partition /\ c.code = r.code
            /\ c.frame # None => DataAt(r.path).kind = "request" /\ DataAt(r.path).frame = c.frame
            /\ r.code = 0 /\ c.partition \in {"shared-encoder", "managed-encoder"} =>
                 Encodes(DataAt(r.path)) = FrameAt(IF c.reencode = None THEN DefaultFrame ELSE c.reencode)

-----------------------------------------------------------------------------
(* Cases: [partition, frame, model, epoch, catalog, code, reencode, input,     *)
(* output]; the last two are digests.                                          *)
Partitions ==
  {"shared-encoder", "managed-funding-row", "managed-funding-batch", "managed-encoder",
   "native-raw-encoder", "native-decoder", "native-reencode", "native-prepare"}
SourceOnly == {"managed-funding-row", "managed-funding-batch", "managed-encoder", "native-raw-encoder"}

(* Slip: a tracked frame that no case reads is let through.                    *)
SomeFramesConsumed(consumed, tracked) == consumed \subseteq tracked
FramesConsumed(consumed, tracked) == consumed = tracked

CaseRowAccepted(c) ==
  /\ c.partition \in Partitions
  /\ c.partition \in SourceOnly => c.epoch = TestEpoch /\ c.model # None
  /\ c.partition = "shared-encoder" /\ c.frame # None => c.epoch = FrameAt(c.frame)[4]
  /\ c.partition = "shared-encoder" => c.code \in {0, 1}
  /\ c.reencode # None => c.reencode \in Ids("FRAMES")
  /\ c.catalog # None <=> c.partition = "native-prepare"
  /\ c.catalog # None => c.catalog \in DOMAIN PlanOwned
  /\ c.partition = "native-prepare" => c.frame # None /\ c.epoch = FrameAt(c.frame)[4]
  /\ c.partition = "native-reencode" =>
       c.code = 0 /\ c.reencode = c.frame /\ c.epoch = FrameAt(c.frame)[4]
  /\ c.partition = "native-decoder" => c.frame # None /\ Scan(FrameAt(c.frame), c.epoch).code = c.code
(* Every frame is consumed, and the accepted ones are reencoded by one case.   *)
CasesAccepted ==
  LET reencoded == {c \in RowsIn("CASES") : c.partition = "native-reencode"} IN
  /\ {c.partition : c \in RowsIn("CASES")} = Partitions
  /\ FramesConsumed({c.frame : c \in RowsIn("CASES")} \ {None}, Ids("FRAMES"))
  /\ {c.frame : c \in reencoded} = {r.id : r \in {x \in RowsIn("FRAMES") : x.code = 0}}
  /\ \A c, e \in reencoded : c.frame = e.frame => c = e
  /\ \A c \in RowsIn("CASES") : CaseRowAccepted(c)
(* The frames of prepare cases are made of the fixtures the checker lists.     *)
PreparedFrames ==
  LET used == {c.frame : c \in {x \in RowsIn("CASES") : x.partition = "native-prepare"}} IN
  /\ used = DOMAIN PlanPrepared
  /\ \A id \in used :
       LET v == Unpack(FrameAt(id))
           from == PlanPrepared[id]
       IN /\ v # None /\ Len(v.selected) = 1
          /\ v.selected[1].candidate = FixtureAt(from.candidate) \o (IF from.zero THEN <<0>> ELSE << >>)
          /\ v.selected[1].previous = Each(from.previous, FixtureAt)
(* An identifier is two cells of a frame and one of a transaction.             *)
ShortIds(v) == [v EXCEPT !.selected = Each(@, LAMBDA r : [r EXCEPT !.txid = r.txid[1]])]
PreparesAccepted ==
  \A c \in {x \in RowsIn("CASES") : x.partition = "native-prepare"} :
    PrepareExpectation(ShortIds(Unpack(FrameAt(c.frame))), c.catalog, PlanOwned[c.catalog]) = c.code

(* What a case reads and gives, by digest; a frame and a model together, or    *)
(* the one that there is.                                                      *)
CaseInput(c) ==
  [frame |-> IF c.frame = None THEN << >> ELSE FrameAt(c.frame),
   model |-> IF c.model = None THEN << >> ELSE <<RowOf("MODELS", c.model).digest>>]
CaseOutput(c) ==
  IF c.model # None /\ c.partition \in {"shared-encoder", "managed-encoder"} /\ c.code = 0
  THEN Encodes(DataAt(<<"source-models", c.model>>))
  ELSE IF c.reencode # None THEN FrameAt(c.reencode) ELSE << >>
BindingsOfCases == \A c \in RowsIn("CASES") : c.input = CaseInput(c) /\ c.output = CaseOutput(c)

PlanAccepted ==
  /\ PlanTopology
  /\ \A name \in Tables : <<name>> \in VectorFiles /\ ParsedTable(Table(name))
  /\ DOMAIN vectors[<<"SUMS">>].data = NamedFiles
  /\ ConstantsAccepted /\ DocumentsAccepted /\ FixturesAccepted /\ AssertionsAccepted /\ AuthoritiesAccepted
  /\ \A r \in RowsIn("FRAMES") : FrameRowAccepted(r)
  /\ BindingsAccepted /\ PreparedFrames /\ MutationsAccepted
  /\ CasesAccepted /\ ModelsAccepted /\ PreparesAccepted /\ BindingsOfCases
  /\ Table("CASES") = PlanVectors[<<"CASES">>].data
TreeAccepted ==
  IF corpus = "facts" THEN FactsTopology ELSE PlanAccepted

-----------------------------------------------------------------------------
(* What the author does.  Data is only ever replaced by data of its own shape. *)
Differ(tree, p, e) ==
  [q \in (DOMAIN tree \union {p}) \ (IF e = None THEN {p} ELSE {}) |-> IF q = p THEN e ELSE tree[q]]
EditAbove(p, e) == left > 0 /\ left' = left - 1 /\ top' = Differ(top, p, e) /\ UNCHANGED <<corpus, vectors>>
EditBelow(p, e) == left > 0 /\ left' = left - 1 /\ vectors' = Differ(vectors, p, e) /\ UNCHANGED <<corpus, top>>

(* A file becomes a link, a large file, one with a second name, or goes away.  *)
Misplaced(e) == {None, [e EXCEPT !.kind = "link"], [e EXCEPT !.large = TRUE], [e EXCEPT !.links = 2]}
MisplaceTop == \E p \in TopFiles : \E e \in Misplaced(top[p]) : EditAbove(p, e)
MisplaceVector == \E p \in VectorFiles : \E e \in Misplaced(vectors[p]) : EditBelow(p, e)

(* A frame is rewritten or added, the wire document or a source model changed. *)
WriteFrame ==
  \E p \in {q \in DOMAIN vectors : q[1] = "frames"} \union {<<"frames", 9>>}, data \in FrameData :
    EditBelow(p, [kind |-> "file", large |-> FALSE, links |-> 1, data |-> data])
WriteDocument ==
  "WIRE" \in TopFiles /\ \E terms \in {RequiredTerms \union {"more"}, {"more"}} :
    EditAbove("WIRE", [top["WIRE"] EXCEPT !.data = terms])
WriteModel ==
  \E p \in {q \in VectorFiles : q[1] = "source-models"} :
    \/ /\ vectors[p].data.kind = "boundary"
       /\ \E result \in {"argument", "limit"} : EditBelow(p, [vectors[p] EXCEPT !.data.result = result])
    \/ /\ vectors[p].data.kind # "boundary"
       /\ EditBelow(p, [vectors[p] EXCEPT !.data.ops =
            Append(@, [op |-> "set-u64", word |-> 2,
                       path |-> [list |-> "request", row |-> 0, field |-> "fee", elem |-> None]])])

(* A table is written again from the files as they are, or a row dropped; the  *)
(* table of frames also gains the row of a new frame.                          *)
HasTable(name) == corpus # "facts" /\ <<name>> \in VectorFiles
Rewrite(name, rows) == EditBelow(<<name>>, [vectors[<<name>>] EXCEPT !.data = rows])
Present(rows) == SelectSeq(rows, LAMBDA r : r.path \in DOMAIN vectors)
FrameRow(r) ==
  LET s == Scan(DataAt(r.path), TestEpoch) IN
  [r EXCEPT !.digest = DataAt(r.path), !.code = s.code, !.fields = s.value, !.source = None]
NewRow == [id |-> 9, path |-> <<"frames", 9>>, digest |-> None, code |-> 0, source |-> None, fields |-> None,
           parent |-> None, mutation |-> None]
RewriteFrames ==
  HasTable("FRAMES") /\ \E rows \in {Table("FRAMES"), Append(Table("FRAMES"), NewRow)} :
    Rewrite("FRAMES", Each(Present(rows), FrameRow))
RewriteModels ==
  HasTable("MODELS") /\ Rewrite("MODELS", Each(Present(Table("MODELS")),
    LAMBDA r : [r EXCEPT !.digest = DataAt(r.path)]))
RewriteCases ==
  /\ HasTable("CASES")
  /\ \A c \in RowsIn("CASES") :
       /\ c.frame # None => <<"frames", c.frame>> \in DOMAIN vectors
       /\ c.model # None => HasTable("MODELS") /\ c.model \in Ids("MODELS")
  /\ Rewrite("CASES", Each(Table("CASES"), LAMBDA c : [c EXCEPT !.input = CaseInput(c)]))
DropRow ==
  \E name \in Tables : HasTable(name) /\ \E i \in DOMAIN Table(name) :
    Rewrite(name, SubSeq(Table(name), 1, i - 1) \o SubSeq(Table(name), i + 1, Len(Table(name))))

(* At last the inventories may be computed again.                              *)
ReviseSums ==
  LET nested == [p \in VectorFiles \ {<<"SUMS">>} |-> vectors[p].data]
      sums == [files |-> [p \in TopFiles \ {"SUMS", "ROOT"} |-> top[p].data], vectors |-> nested]
  IN /\ left = 0 /\ left' = -1 /\ <<"SUMS">> \in VectorFiles /\ "SUMS" \in TopFiles
     /\ vectors' = [vectors EXCEPT ![<<"SUMS">>].data = nested]
     /\ top' = [n \in DOMAIN top |-> IF n \in {"SUMS", "ROOT"} THEN [top[n] EXCEPT !.data = sums] ELSE top[n]]
     /\ UNCHANGED corpus

TreeInit ==
  /\ left = TreeEdits /\ corpus \in {"plan", "facts"}
  /\ top = (IF corpus = "facts" THEN FactsTop ELSE PlanTop)
  /\ vectors = (IF corpus = "facts" THEN FactsVectors ELSE PlanVectors)
TreeNext ==
  \/ MisplaceTop \/ MisplaceVector \/ WriteFrame \/ WriteDocument \/ WriteModel
  \/ RewriteFrames \/ RewriteModels \/ RewriteCases \/ DropRow \/ ReviseSums
TreeSpec == TreeInit /\ [][TreeNext]_treeVars

-----------------------------------------------------------------------------
(* With the roots pinned an accepted plan corpus is the reviewed one, file by  *)
(* file; and a facts corpus the checker accepts is known from its inventory    *)
(* alone: if that is the reviewed one, so is every file, under its one name.   *)
AcceptedIsReviewed ==
  /\ corpus = "plan" /\ ReviewedRoots /\ TreeAccepted =>
       /\ TopFiles = PlanNames /\ \A n \in TopFiles : top[n].data = PlanTop[n].data
       /\ VectorFiles = DOMAIN PlanVectors
       /\ \A p \in VectorFiles : vectors[p].data = PlanVectors[p].data
  /\ corpus = "facts" /\ TreeAccepted /\ top["SUMS"].data = FactsTop["SUMS"].data =>
       /\ \A n \in FactsNames : top[n].data = FactsTop[n].data /\ top[n].links = 1
       /\ VectorFiles = DOMAIN FactsVectors
       /\ \A p \in VectorFiles : vectors[p].data = FactsVectors[p].data /\ vectors[p].links = 1

(* Without the roots the pinned case table still holds the corpus together:    *)
(* each frame, each fixture and each model that a case reads has the reviewed  *)
(* bytes, however the other tables and the inventories were written again.     *)
CasesPinTheInputs ==
  corpus = "plan" /\ TreeAccepted =>
    \A p \in VectorFiles :
      \/ p[1] \in {"frames", "public"}
      \/ IF p[1] = "source-models" THEN vectors[p].data.kind # "boundary" ELSE FALSE
      => p \in DOMAIN PlanVectors /\ vectors[p].data = PlanVectors[p].data
=============================================================================
