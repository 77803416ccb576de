---------------------------- MODULE LinearProofs ----------------------------
(***************************************************************************)
(* Proofs that scalars known to the prover satisfy linear equations between*)
(* points: the equality proof has two equations and three scalars, the     *)
(* balance proof one of each. A point is the vector of its coefficients    *)
(* over generators whose relations nobody knows. The library has no point  *)
(* at infinity: an operation that would give it fails, and so does all that*)
(* uses its result, so the zero vector stands for failure.                 *)
(***************************************************************************)
EXTENDS Integers, Sequences, SequencesExt, Functions

CONSTANT Q    \* the group order, a prime

ASSUME OrderAssumption ==
  Q \in Nat \ {0, 1} /\ \A a, b \in 1..(Q - 1) : (a * b) % Q # 0

Generators == {"Gg", "Gh", "A", "H"}
Scalar == 0..(Q - 1)
Point == [Generators -> Scalar]
Failure == [g \in Generators |-> 0]
Generator(g) == [Failure EXCEPT ![g] = 1]

(* PublicKey::mul_tweak, negate and combine, and combine over a list.      *)
Mul(p, n) == [g \in Generators |-> (n * p[g]) % Q]

Combine(p, r) ==
  IF Failure \in {p, r} THEN Failure ELSE [g \in Generators |-> (p[g] + r[g]) % Q]

(* The sum of the first n, coefficient by coefficient.                     *)
SumOfFirst(points, n) ==
  [g \in Generators |-> SumFunctionOnSet([i \in 1..n |-> points[i][g]], 1..n) % Q]

(* A list is combined from its front: any sum on the way can fail.         *)
Total(points) ==
  IF \E n \in DOMAIN points : Failure \in {points[n], SumOfFirst(points, n)} THEN Failure
  ELSE SumOfFirst(points, Len(points))

(* An equation: the point "of" is the sum of the generators "on", each     *)
(* times the scalar named in "by". Its value under given scalars:          *)
Value(equation, scalars) ==
  Total([i \in DOMAIN equation.on |-> Mul(equation.on[i], scalars[equation.by[i]])])

Commitments(statement, nonces) ==
  [i \in DOMAIN statement |-> Value(statement[i], nonces)]

(* Slip: the challenge is taken off instead of added.                      *)
ResponsesSubtracted(nonces, challenge, witness) ==
  [n \in DOMAIN nonces |-> (nonces[n] - (challenge * witness[n])) % Q]

(* response: k + c w for every scalar.                                     *)
Responses(nonces, challenge, witness) ==
  [n \in DOMAIN nonces |-> (nonces[n] + (challenge * witness[n])) % Q]

(* verify: every equation holds of the responses, and nothing failed.      *)
Verifies(statement, proof, challenge) ==
  \A i \in DOMAIN statement :
    LET left == Value(statement[i], proof.responses)
        right == Combine(proof.commitments[i], Mul(statement[i].of, challenge))
    IN left = right /\ left # Failure
=============================================================================
