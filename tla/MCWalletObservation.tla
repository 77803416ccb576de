------------------------ MODULE MCWalletObservation ------------------------
(* A small ledger, and batches of candidates with one defect each.         *)
EXTENDS WalletObservation, SequencesExt

At(t, v) == [tx |-> t, vout |-> v]
Pays(spk, conf, key, val) ==
  [spk |-> spk, conf |-> conf, key |-> key, asset |-> "L", val |-> val]
Mine(val) == Pays("mine", TRUE, "mine", val)
Other == Pays("other", TRUE, "other", 1)

(* 6 stands for transactions of others; what spends it need not matter.    *)
SmallLedger ==
  (1 :> [ins |-> <<At(6, 1)>>, outs |-> <<Other, Mine(3), Mine(4)>>])     \* pays
  @@ (2 :> [ins |-> <<At(1, 2)>>, outs |-> <<Other>>])                    \* spends
  @@ (3 :> [ins |-> <<At(6, 1)>>, outs |-> <<Other>>])                    \* unrelated
  @@ (4 :> [ins |-> <<At(6, 2), At(1, 2)>>, outs |-> <<Mine(2), Other>>]) \* both
  @@ (5 :> [ins |-> << >>, outs |-> <<Other>>])                           \* incomplete
  @@ (6 :> [ins |-> <<At(6, 1)>>, outs |-> <<Other, Other>>])
  @@ (7 :> [ins |-> <<At(6, 1)>>, outs |-> <<Mine(1), Pays("mine", TRUE, "other", 1)>>])
  @@ (8 :> [ins |-> <<At(6, 1)>>, outs |-> <<Pays("mine", FALSE, "mine", 1)>>])
  @@ (9 :> [ins |-> <<At(6, 1), At(6, 1)>>, outs |-> <<Mine(1)>>])        \* repeats
  @@ (10 :> [ins |-> <<At(6, 3)>>, outs |-> <<Mine(0)>>])                 \* spends nothing

Bytes(t) == [id |-> t, enc |-> "canonical", proofs |-> TRUE]
Complete(t) ==
  [tx |-> Bytes(t),
   prev |-> LET ids == SetToSortSeq({SmallLedger[t].ins[i].tx : i \in DOMAIN SmallLedger[t].ins}, <)
            IN [p \in DOMAIN ids |-> Bytes(ids[p])]]

(* The candidate as it should be, and with one thing wrong.                *)
Variants(t) ==
  LET c == Complete(t) IN
  {c, [c EXCEPT !.tx.enc = "loose"], [c EXCEPT !.tx.proofs = FALSE],
   [c EXCEPT !.prev = << >>],
   [c EXCEPT !.prev = @ \o @],
   [c EXCEPT !.prev = Append(@, Bytes(3))]}
  \cup {[c EXCEPT !.prev[p].enc = e] : p \in DOMAIN c.prev, e \in {"loose", "garbage"}}
  \cup {[c EXCEPT !.prev = SubSeq(@, 1, Len(@) - 1)] : p \in DOMAIN c.prev}

AllVariants == UNION {Variants(t) : t \in 1..10}

(* Every candidate twice over, and triples of sound ones in any order.     *)
PairBatches ==
  {<< >>} \cup {<<c>> : c \in AllVariants} \cup {<<c, d>> : c, d \in AllVariants}
  \cup {<<Complete(t), Complete(u), Complete(w)>> : t, u, w \in {1, 2, 3, 4}}

UnderfetchedBatches == {<<c, Complete(1)>> : c \in AllVariants} \cup {<<c>> : c \in AllVariants}
=============================================================================
