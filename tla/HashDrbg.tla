------------------------------ MODULE HashDrbg ------------------------------
(***************************************************************************)
(* The generator that stretches the 32 bytes of entropy a caller hands     *)
(* over into all the randomness of one call. It is written three times,    *)
(* with two ways to count. A hash stands for what is hashed: the state for *)
(* the seed and how often it was reseeded, a block for state and counter.  *)
(***************************************************************************)
EXTENDS Integers

CONSTANT CounterMax    \* u64::MAX

ASSUME DrbgAssumption == CounterMax \in Nat \ {0}

NewRng(seed) == [seed |-> seed, reseeds |-> 0, counter |-> 0]

(* Slip: the counter starts over and the state does not change.            *)
CounterOnly(rng) == [rng EXCEPT !.counter = 0]

ReseedFromOutput(rng) == [seed |-> rng.seed, reseeds |-> rng.reseeds + 1, counter |-> 0]

Block(rng) == <<rng.seed, rng.reseeds, rng.counter>>

(* After a block, in the two copies that count first: the block of the     *)
(* largest counter is never drawn.                                         *)
CountThenReseed(rng) ==
  IF rng.counter + 1 = CounterMax THEN ReseedFromOutput(rng)
  ELSE [rng EXCEPT !.counter = @ + 1]

(* And in wallet-facts-ffi, where it is drawn and then not counted.        *)
ReseedOrCount(rng) ==
  IF rng.counter = CounterMax THEN ReseedFromOutput(rng)
  ELSE [rng EXCEPT !.counter = @ + 1]
=============================================================================
