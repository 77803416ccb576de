------------------------ MODULE MCRegistrationProofs ------------------------
(***************************************************************************)
(* Two revisions of a PSET with two inputs, one of them not blinded, and   *)
(* two outputs. In the second the outputs are blinded anew, to the same    *)
(* sum, and one has other proofs with the same commitment.                 *)
(***************************************************************************)
EXTENDS RegistrationProofs

Blinded(value, abf, bf, proofs) ==
  [blinded |-> TRUE, value |-> value, abf |-> abf, bf |-> bf, proofs |-> proofs]
Open(value) ==
  [blinded |-> FALSE, value |-> value, abf |-> 0, bf |-> 0, proofs |-> None]

First ==
  [inputs |-> <<Blinded(2, 1, 3, None), Open(2)>>,
   outputs |-> <<Blinded(1, 0, 1, "p"), Blinded(1, 2, 4, "p")>>]
Second ==
  [inputs |-> First.inputs,
   outputs |-> <<Blinded(1, 0, 1, "q"), Blinded(2, 2, 4, "p")>>]

MCRevisions == {First, Second}
MCCredentials == {[Failure EXCEPT !["Gg"] = v, !["Gh"] = 1] : v \in {1, 2}}
MCIndexLists == {<< >>, <<1>>, <<2>>, <<1, 2>>, <<2, 1>>, <<1, 1>>}
=============================================================================
