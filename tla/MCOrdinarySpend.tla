-------------------------- MODULE MCOrdinarySpend --------------------------
(* A wallet with outputs of two assets, and plans with one defect each.    *)
EXTENDS OrdinarySpend, SequencesExt

At(t, v) == [tx |-> t, vout |-> v]
Pays(spk, conf, key, asset, val) ==
  [spk |-> spk, conf |-> conf, key |-> key, asset |-> asset, val |-> val]

(* 1 pays the wallet, 2 spends what nobody supplies, 3 is foreign funding. *)
SmallLedger ==
  (1 :> [ins |-> <<At(3, 1)>>,
         outs |-> <<Pays("mine", TRUE, "mine", "L", 3), Pays("mine", TRUE, "mine", "A", 2),
                    Pays("other", TRUE, "mine", "L", 3), Pays("mine", FALSE, "mine", "L", 3),
                    Pays("mine", TRUE, "other", "L", 3), Pays("mine", TRUE, "mine", "L", 1)>>])
  @@ (2 :> [ins |-> <<At(3, 9)>>, outs |-> <<Pays("mine", TRUE, "mine", "L", 3)>>])
  @@ (3 :> [ins |-> <<At(3, 1)>>, outs |-> <<Pays("other", TRUE, "other", "L", 9)>>])

Bytes(t) == [id |-> t, enc |-> "canonical", proofs |-> TRUE]
Selects(v, asset, val) ==
  [tx |-> Bytes(1), prev |-> <<Bytes(3)>>, at |-> At(1, v), asset |-> asset, val |-> val]
To(k, asset, val) == [to |-> k, asset |-> asset, val |-> val]
Plan(rows, outs) == [rows |-> rows, outs |-> outs, fee |-> [asset |-> "L", val |-> 1]]

Single == Plan(<<Selects(1, "L", 3)>>, <<To("x", "L", 2)>>)
TwoAssets == Plan(<<Selects(1, "L", 3), Selects(2, "A", 2)>>,
                  <<To("x", "L", 2), To("y", "A", 1), To("z", "A", 1)>>)

(* The same plans with a row or an output that is not what it should be.   *)
BadRows ==
  {[Single EXCEPT !.rows[1] = row] : row \in
     {[Selects(1, "L", 3) EXCEPT !.tx.enc = "loose"], [Selects(1, "L", 3) EXCEPT !.tx.proofs = FALSE],
      [Selects(1, "L", 3) EXCEPT !.prev = << >>], Selects(3, "L", 3), Selects(4, "L", 3),
      Selects(5, "L", 3), Selects(6, "L", 3), Selects(2, "L", 3), Selects(7, "L", 3),
      [Selects(1, "L", 3) EXCEPT !.tx = Bytes(2), !.at = At(2, 1)],
      [Selects(1, "L", 3) EXCEPT !.tx = Bytes(3)]}}
BadPlans ==
  {[Single EXCEPT !.outs = << >>],
   [Single EXCEPT !.outs = <<To("x", "L", 3)>>],
   [Single EXCEPT !.outs = Append(@, To("y", "A", 1))],
   [Single EXCEPT !.rows = @ \o @, !.outs = <<To("x", "L", 5)>>],
   [TwoAssets EXCEPT !.outs[3].val = 2],
   [Single EXCEPT !.rows = << >>],
   [TwoAssets EXCEPT !.rows = <<@[2], @[1]>>],
   Plan(<<Selects(1, "L", 3), Selects(6, "L", 1)>>, <<To("x", "L", 3)>>),
   Plan(<<Selects(1, "L", 3), Selects(6, "L", 3)>>, <<To("x", "L", 5)>>)}

SmallRequests == {Single, TwoAssets} \cup BadRows \cup BadPlans
SinglePlan == {Single, [Single EXCEPT !.rows[1].val = 4, !.outs[1].val = 3]}

(* One seed keeps the order of the request, the other reverses it.         *)
SmallShuffle(e, s, n) == [i \in 1..n |-> IF e = "e1" THEN i ELSE n + 1 - i]
=============================================================================
