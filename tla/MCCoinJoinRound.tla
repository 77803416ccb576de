-------------------------- MODULE MCCoinJoinRound --------------------------
(* Small rounds for TLC: two inputs, one of A's and confidential, one of   *)
(* B's and explicit; one output blinded by A, two by B, and the fee.       *)
EXTENDS CoinJoinRound, TLC

Confid(spk, amt, bf) == [spk |-> spk, amt |-> amt, bf |-> bf]
InputOf(op, utxo) == [op |-> op, utxo |-> utxo, seq |-> None,
                      rp |-> IF utxo.bf = 0 THEN None ELSE utxo]
Plain(spk, amt, blinder) ==
  [spk |-> spk, amt |-> amt, blinder |-> blinder, blind |-> None]

TwoInputs == <<InputOf("o1", Confid("A", 5, 1)), InputOf("o2", Confid("B", 4, 0))>>

RoundOver(ins, outs, roles) ==
  [pset |-> [ins |-> ins, outs |-> outs, scalars |-> << >>, lock |-> None],
   roles |-> roles]

(* One blinded output each.                                                *)
Small == RoundOver(TwoInputs,
  <<Plain("a", 4, 1), Plain("b", 4, 2), Plain("", 1, None)>>,
  (1 :> "A") @@ (2 :> "B"))

(* Two for B, and the fee between them.                                    *)
Wide == RoundOver(TwoInputs,
  <<Plain("a", 3, 1), Plain("b", 2, 2), Plain("", 1, None), Plain("bb", 3, 2)>>,
  (1 :> "A") @@ (2 :> "B") @@ (4 :> "B"))

(* Blinded outputs that do not fit the fee: only verify_final can tell.    *)
Unbalanced == [Small EXCEPT !.pset.outs[2].amt = 1]

(* The role map gives A outputs its inputs do not blind, or none at all.   *)
WrongBlinder == [Small EXCEPT !.pset.outs[1].blinder = 2]
NoRoleA == [Small EXCEPT !.roles[1] = "B"]
SameInputTwice == [Small EXCEPT !.pset.ins[2].op = "o1"]
StaleScalars == [Small EXCEPT !.pset.scalars = <<1>>]
TwoFees == [Wide EXCEPT !.pset.outs[4] = Plain("", 3, None)]

SmallAgreements == {Small}
WideAgreements == {Wide}
AllAgreements == {Small, Unbalanced, WrongBlinder, NoRoleA, SameInputTwice,
                  StaleScalars, TwoFees}

Initiator == [phase |-> "PreSigning", role |-> 1]
Responder == [phase |-> "PreSigning", role |-> 2]
Proofs == [phase |-> "Proofs", role |-> 1]
OneContext == {Initiator}
AllContexts == {Initiator, Responder, Proofs}
=============================================================================
