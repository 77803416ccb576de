----------------------------- MODULE MCCorpusTree -----------------------------
EXTENDS CorpusTree, TLC

Previous1 == <<1, 0, 0, 1, 0, 0, 0, 0, 1>>
Candidate1 == <<3, 1, 1, 1, 0, 0, 1, 1, 2, 1, 3, 1, 4, 1, 1, 1, 1, 0, 0, 0, 0, 1, 1, 1, 1>>
MCNamed == 1 :> Previous1 @@ 3 :> <<3, 0, 1, 1, 0, 0, 1, 1, 2, 1, 3, 1, 4, 1, 1, 1, 1>>
MCReviewed == 1 :> [pegged |-> 1, addresses |-> {<<1>>}, catalog |-> "main"]
ValueFor(candidate) ==
  [source |-> 1, manifest |-> 1, pegged |-> 1, fee |-> 1, aggregate |-> 1,
   selected |-> <<[txid |-> <<3, 1>>, vout |-> 0, asset |-> 1, value |-> 2,
                   candidate |-> candidate, previous |-> <<Previous1>>]>>,
   destinations |-> <<[asset |-> 1, value |-> 1, address |-> <<1>>]>>]
(* The frames are written out: the valid one, the same cut by a cell, the same  *)
(* with a cell more in its candidate, and another balanced plan.               *)
Frame1 ==
  <<1, 58, 0, 1, 1, 1, 1, 1, 1, 1, 3, 1, 0, 1, 2, 25, 1, 0, 3, 1, 1, 1, 0, 0, 1, 1,
    2, 1, 3, 1, 4, 1, 1, 1, 1, 0, 0, 0, 0, 1, 1, 1, 1, 9, 1, 0, 0, 1, 0, 0, 0, 0, 1,
    1, 1, 1, 0, 1>>
Frame2 ==
  <<1, 58, 0, 1, 1, 1, 1, 1, 1, 1, 3, 1, 0, 1, 2, 25, 1, 0, 3, 1, 1, 1, 0, 0, 1, 1,
    2, 1, 3, 1, 4, 1, 1, 1, 1, 0, 0, 0, 0, 1, 1, 1, 1, 9, 1, 0, 0, 1, 0, 0, 0, 0, 1,
    1, 1, 1, 0>>
Frame3 ==
  <<1, 59, 0, 1, 1, 1, 1, 1, 1, 1, 3, 1, 0, 1, 2, 26, 1, 0, 3, 1, 1, 1, 0, 0, 1, 1,
    2, 1, 3, 1, 4, 1, 1, 1, 1, 0, 0, 0, 0, 1, 1, 1, 1, 0, 9, 1, 0, 0, 1, 0, 0, 0, 0,
    1, 1, 1, 1, 0, 1>>
Frame4 ==
  <<1, 58, 0, 1, 1, 1, 1, 1, 1, 2, 3, 1, 0, 1, 3, 25, 1, 0, 3, 1, 1, 1, 0, 0, 1, 1,
    2, 1, 3, 1, 4, 1, 1, 1, 1, 0, 0, 0, 0, 1, 1, 1, 1, 9, 1, 0, 0, 1, 0, 0, 0, 0, 1,
    1, 1, 1, 0, 1>>
MCFrameData == {Frame2, Frame4, <<1, 10, 0, 1, 1, 1, 1, 1, 1, 1>>}

Stored(data) == [kind |-> "file", large |-> FALSE, links |-> 1, data |-> data]
Directory == [kind |-> "dir", large |-> FALSE, links |-> 1, data |-> None]

FrameRowOf(id, data, code, value, parent, mutation) ==
  [id |-> id, path |-> <<"frames", id>>, digest |-> data, code |-> code, source |-> None,
   fields |-> value, parent |-> parent, mutation |-> mutation]
Place(frame, role, place, fixture, transform) ==
  [frame |-> frame, index |-> 1, role |-> role, place |-> place, fixture |-> fixture,
   transform |-> transform]
ModelData ==
  [i \in 1..5 |-> [kind |-> <<"request", "row", "batch", "call", "request">>[i], frame |-> 1,
     ops |-> IF i # 5 THEN << >> ELSE
             <<[op |-> "set-u64", word |-> 0,
                path |-> [list |-> "request", row |-> 0, field |-> "fee", elem |-> None]]>>]]
BoundaryData == [kind |-> "boundary", result |-> "ok"]
ModelRow(id, data, partition, code) ==
  [id |-> id, path |-> <<"source-models", id>>, digest |-> data, partition |-> partition, code |-> code]
Both(frame, model) ==
  [frame |-> IF frame = None THEN << >> ELSE <<Frame1, Frame2, Frame3>>[frame],
   model |-> IF model = None THEN << >> ELSE <<ModelData[model]>>]
Case(id, partition, frame, model, catalog, code, reencode) ==
  [id |-> id, partition |-> partition, frame |-> frame, model |-> model, epoch |-> 1,
   catalog |-> catalog, code |-> code, reencode |-> reencode, input |-> Both(frame, model),
   output |-> IF reencode = None THEN << >> ELSE <<Frame1, Frame2, Frame3>>[reencode]]

PlanTables ==
  [FIXTURES |->
     <<[id |-> 1, path |-> <<"public", 1>>, fixtureKind |-> "candidate", digest |-> Candidate1, txid |-> 3],
       [id |-> 2, path |-> <<"public", 2>>, fixtureKind |-> "previous", digest |-> Previous1, txid |-> 1]>>,
   ASSERTIONS |->
     <<[id |-> 1, fixture |-> 1, predicate |-> "input-count", index |-> 0, related |-> None, expected |-> 1],
       [id |-> 2, fixture |-> 1, predicate |-> "different-txid", index |-> 0, related |-> 2,
        expected |-> TRUE]>>,
   SCRIPTS |-> <<[id |-> 1, catalog |-> "main", script |-> <<1>>]>>,
   PROOFS |-> <<[id |-> 1, candidate |-> 1, previous |-> 2]>>,
   FRAMES |->
     <<FrameRowOf(1, Frame1, 0, ValueFor(Candidate1), None, None),
       FrameRowOf(2, Frame2, 3, None, 1, 1),
       FrameRowOf(3, Frame3, 0, ValueFor(Candidate1 \o <<0>>), 1, 2)>>,
   MUTATIONS |->
     <<[id |-> 1, parent |-> 1, child |-> 2,
        edit |-> [kind |-> "truncate", target |-> "bytes", offset |-> 57, old |-> <<1>>,
                  new |-> None]],
       [id |-> 2, parent |-> 1, child |-> 3,
        edit |-> [kind |-> "logical-repack", target |-> {<<"selected", 1, "candidate">>},
                  offset |-> None, old |-> None, new |-> None]]>>,
   BINDINGS |->
     <<[id |-> 1, at |-> Place(1, "candidate", 0, 1, "identity")],
       [id |-> 2, at |-> Place(1, "previous", 1, 2, "identity")],
       [id |-> 3, at |-> Place(3, "candidate", 0, 1, "append-zero")],
       [id |-> 4, at |-> Place(3, "previous", 1, 2, "identity")]>>,
   CASES |->
     <<Case(1, "shared-encoder", 1, 1, None, 0, 1),
       Case(2, "managed-funding-row", None, 2, None, 0, None),
       Case(3, "managed-funding-batch", None, 3, None, 0, None),
       Case(4, "managed-encoder", None, 4, None, 0, 1),
       Case(5, "native-raw-encoder", None, 5, None, 4, None),
       Case(6, "native-decoder", 2, None, None, 3, None),
       Case(7, "native-reencode", 1, None, None, 0, 1),
       Case(8, "native-reencode", 3, None, None, 0, 3),
       Case(9, "native-prepare", 1, None, "main", 0, None),
       Case(10, "native-prepare", 3, None, "main", 8, None)>>,
   MODELS |->
     <<ModelRow(1, ModelData[1], "shared-encoder", 0), ModelRow(2, ModelData[2], "managed-funding-row", 0),
       ModelRow(3, ModelData[3], "managed-funding-batch", 0), ModelRow(4, ModelData[4], "managed-encoder", 0),
       ModelRow(5, ModelData[5], "native-raw-encoder", 4), ModelRow(6, BoundaryData, "boundary", 0)>>,
   BOUNDARIES |-> <<[id |-> 1, model |-> 6]>>]

MCTerms == {"little-endian", "no update"}
PlanFiles ==
  [p \in {<<name>> : name \in DOMAIN PlanTables} \union {<<"CORPUS">>}
         \union ({"frames"} \X (1..3)) \union ({"public"} \X (1..2)) \union ({"source-models"} \X (1..6)) |->
     CASE p = <<"CORPUS">> -> MCTerms
       [] p[1] = "frames" -> <<Frame1, Frame2, Frame3>>[p[2]]
       [] p[1] = "public" -> <<Candidate1, Previous1>>[p[2]]
       [] p[1] = "source-models" -> IF p[2] = 6 THEN BoundaryData ELSE ModelData[p[2]]
       [] OTHER -> PlanTables[p[1]]]
FactsFiles ==
  [p \in {<<"CASES">>, <<"frames", 1>>, <<"frames", 2>>} |-> IF p = <<"CASES">> THEN MCTerms ELSE Frame1]
Listed(files) ==
  [p \in DOMAIN files \union {<<"SUMS">>} |-> Stored(IF p = <<"SUMS">> THEN files ELSE files[p])]
Described(documents, files, names) ==
  LET sums == [files |-> documents, vectors |-> files]
  IN [n \in DOMAIN documents \union names \union {"vectors"} |->
        IF n = "vectors" THEN Directory ELSE Stored(IF n \in names THEN sums ELSE documents[n])]
MCPlanVectors == Listed(PlanFiles)
MCPlanTop ==
  Described([n \in {"CATALOGS", "CONTEXTS", "ID", "ERRORS", "WIRE"} |-> MCTerms], PlanFiles, {"SUMS", "ROOT"})
MCFactsVectors == Listed(FactsFiles)
MCFactsTop == Described([n \in {"ERRORS", "WIRE"} |-> MCTerms], FactsFiles, {"SUMS"})
MCPlanOwned == "main" :> {<<1>>}
MCPlanPrepared ==
  1 :> [candidate |-> 1, previous |-> <<2>>, zero |-> FALSE]
  @@ 3 :> [candidate |-> 1, previous |-> <<2>>, zero |-> TRUE]
=============================================================================
