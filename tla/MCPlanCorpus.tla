----------------------------- MODULE MCPlanCorpus -----------------------------
EXTENDS PlanCorpus, TLC

FrameOf(selected, destinations, fee) ==
  Pack([source |-> 1, manifest |-> 1, pegged |-> 1, fee |-> fee,
        selected |-> selected, destinations |-> destinations])
Row(id, value, previous) ==
  [txid |-> <<id, 1>>, vout |-> 0, asset |-> 1, value |-> value, candidate |-> <<1>>,
   previous |-> previous]
Small == FrameOf(<<Row(1, 2, <<<<1>>>>)>>, <<[asset |-> 1, value |-> 1, address |-> <<1>>]>>, 1)
Large == FrameOf(<<Row(1, 2, <<<<1>>, <<2>>>>), Row(2, 1, << >>)>>,
                 <<[asset |-> 1, value |-> 1, address |-> <<1>>],
                   [asset |-> 1, value |-> 1, address |-> <<2>>]>>, 1)
MCFrameBases == Small :> 2 @@ Large :> 1
MCRequestBases == Small :> 2 @@ Large :> 1
MCReviewed ==
  1 :> [pegged |-> 1, addresses |-> {<<1>>, <<2>>}, catalog |-> "main"]
  @@ 2 :> [pegged |-> 2, addresses |-> {<<2>>}, catalog |-> "test"]

Prev1 == <<1, 0, 0, 1, 0, 0, 0, 0, 1>>
Prev1Witness == <<1, 1, 0, 1, 0, 0, 0, 0, 1, 1, 3, 0>>
Prev2 == <<2, 0, 0, 1, 0, 0, 0, 0, 1>>
Candidate(ins, lengths) ==
  <<3, 1, Len(ins)>> \o Joined(Each(ins, LAMBDA x : <<x, 0, 0, 1>>))
  \o <<1, 2, 1, 3, 1, 4, 1, 1, 1, 1>> \o Joined(Each(ins, LAMBDA x : <<0, 0, 0, 0>>))
  \o Joined(Each(lengths, LAMBDA n : <<n>> \o [i \in 1..n |-> 1]))
Damaged == Candidate(<<1>>, <<1, 0>>)
Long == <<3, 0, 0, 1, 0, 0, 0, 5, 5, 1, 1, 1, 1, 1, 1>>
MCTransactionBases ==
  Prev1 :> 2 @@ Prev1Witness :> 2 @@ Prev2 :> 0 @@ Candidate(<<1>>, <<1, 1>>) :> 1
  @@ Candidate(<<1, 2>>, <<1, 1>>) :> 1 @@ Damaged :> 1 @@ Long :> 1
MCNamed ==
  1 :> <<1, 0, 0, 1, 0, 0, 0, 0, 1>> @@ 2 :> <<2, 0, 0, 1, 0, 0, 0, 0, 1>>
  @@ 3 :> <<3, 0, 1, 1, 0, 0, 1, 1, 2, 1, 3, 1, 4, 1, 1, 1, 1>>
  @@ 4 :> <<3, 0, 2, 1, 0, 0, 1, 2, 0, 0, 1, 1, 2, 1, 3, 1, 4, 1, 1, 1, 1>>
Prepared(id, ins, previous) ==
  [catalog |-> "main",
   value |-> [source |-> 1, manifest |-> 1, pegged |-> 1, fee |-> 1,
     selected |-> <<[txid |-> id, vout |-> 0, asset |-> 1, value |-> 2,
                     candidate |-> Candidate(ins, <<1, 1>>), previous |-> previous]>>,
     destinations |-> <<[asset |-> 1, value |-> 1, address |-> <<1>>]>>]]
MCPrepareBases ==
  Prepared(3, <<1>>, <<Prev1>>) :> 2 @@ Prepared(4, <<1, 2>>, <<Prev1, Prev2>>) :> 2
MCOwned == {<<1>>}
MCCells == 0..5
MCWords == {0, 1, 2, 3, 63, 64}
=============================================================================
