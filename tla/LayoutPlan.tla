----------------------------- MODULE LayoutPlan -----------------------------
(***************************************************************************)
(* How an ordinary spend hides the order of its inputs and outputs: swap   *)
(* indices are sampled for both sides, and only then both are shuffled     *)
(* (LayoutPlan in crates/ordinary-wallet-pset). Elements stand for their   *)
(* places in the request.                                                  *)
(***************************************************************************)
EXTENDS Integers, Sequences, FiniteSets

CONSTANTS
  Draws,        \* how many values a draw has, 2^64
  MaxAttempts,  \* MAX_UNIFORM_DRAW_ATTEMPTS
  MaxBound,     \* MAX_CONFIDENTIAL_OUTPUTS, the largest bound sampled below
  MaxCount      \* bound: elements of a side

ASSUME LayoutAssumption ==
  /\ MaxAttempts \in Nat /\ MaxCount \in Nat \ {0}
  /\ MaxBound \in Nat \ {0} /\ Draws \in Nat /\ Draws > MaxBound

Sides == {"ins", "outs"}

VARIABLES
  count,        \* elements of each side
  phase,        \* "fill" or "apply" with the side, "done" or "failed"
  swaps,        \* the indices sampled for each side, zero once used
  attempts,     \* draws rejected for the index being sampled
  values,       \* the elements of each side
  step,         \* swaps applied to the side
  sampled       \* the indices as they were sampled, for the properties

vars == <<count, phase, swaps, attempts, values, step, sampled>>

Steps == {<<"fill", "ins">>, <<"fill", "outs">>, <<"apply", "ins">>, <<"apply", "outs">>,
          <<"done", "both">>, <<"failed", "both">>}

(* The exclusive upper bound of the next index of a side.                  *)
Bound(s) == count[s] - Len(swaps[s])

Filled(s) == Bound(s) <= 1

Init ==
  /\ count \in [Sides -> 1..MaxCount]
  /\ phase = <<"fill", "ins">>
  /\ swaps = [s \in Sides |-> << >>] /\ sampled = [s \in Sides |-> << >>]
  /\ attempts = 0 /\ step = 0
  /\ values = [s \in Sides |-> [i \in 1..count[s] |-> i]]

(* Slip: the remainder of the largest draw is taken for that of all draws. *)
ThresholdOfLargest(b) == (Draws - 1) % b

(* upper_bound.wrapping_neg() % upper_bound: what is left over when draws  *)
(* are dealt out evenly.                                                   *)
Threshold(b) == (Draws - b) % b

Accepts(d, b) == d >= Threshold(b)

Index(s, d) == d % Bound(s)

(* sample_uniform_index, one draw.                                         *)
Draw(s, d) ==
  /\ phase = <<"fill", s>> /\ ~ Filled(s)
  /\ Bound(s) \in 2..MaxBound /\ attempts < MaxAttempts
  /\ \/ /\ Accepts(d, Bound(s))
        /\ swaps' = [swaps EXCEPT ![s] = Append(@, Index(s, d))]
        /\ sampled' = [sampled EXCEPT ![s] = Append(@, Index(s, d))]
        /\ attempts' = 0
     \/ /\ ~ Accepts(d, Bound(s))
        /\ attempts' = attempts + 1
        /\ UNCHANGED <<swaps, sampled>>
  /\ UNCHANGED <<count, phase, values, step>>

(* The generator fails, the bound is out of range or too many draws were   *)
(* rejected: RandomnessUnavailable.                                        *)
GiveUp(s) ==
  /\ phase = <<"fill", s>> /\ ~ Filled(s)
  /\ phase' = <<"failed", "both">>
  /\ swaps' = [x \in Sides |-> << >>]
  /\ UNCHANGED <<count, attempts, values, step, sampled>>

(* Slip: the side is shuffled as soon as its own plan is there. *)
TurnAtOnce(s) ==
  /\ phase = <<"fill", s>> /\ Filled(s)
  /\ phase' = <<"apply", s>>
  /\ UNCHANGED <<count, swaps, attempts, values, step, sampled>>

(* LayoutPlan::generate: the outputs' plan after the inputs', and then     *)
(* LayoutPlan::apply; the openings between the two are OrdinarySpend's.    *)
Turn(s) ==
  /\ phase = <<"fill", s>> /\ Filled(s)
  /\ phase' = IF s = "ins" THEN <<"fill", "outs">> ELSE <<"apply", "ins">>
  /\ UNCHANGED <<count, swaps, attempts, values, step, sampled>>

(* Slip: an element is overwritten instead of swapped. *)
Overwritten(v, i, j) == [v EXCEPT ![i] = v[j]]

Swapped(v, i, j) == [v EXCEPT ![i] = v[j], ![j] = v[i]]

(* The place a swap fills: the last one first.                             *)
Place(s) == count[s] - step

(* apply_shuffle_plan, one swap: the index is cleared where it is used.    *)
Swap(s) ==
  /\ phase = <<"apply", s>> /\ step < Len(swaps[s])
  /\ values' = [values EXCEPT ![s] = Swapped(@, Place(s), swaps[s][step + 1] + 1)]
  /\ swaps' = [swaps EXCEPT ![s][step + 1] = 0]
  /\ step' = step + 1
  /\ UNCHANGED <<count, phase, attempts, sampled>>

Applied(s) ==
  /\ phase = <<"apply", s>> /\ step = Len(swaps[s])
  /\ phase' = IF s = "ins" THEN <<"apply", "outs">> ELSE <<"done", "both">>
  /\ step' = 0
  /\ UNCHANGED <<count, swaps, attempts, values, sampled>>

Advance(s) ==
  \/ \E d \in 0..(Draws - 1) : Draw(s, d)
  \/ GiveUp(s) \/ Turn(s) \/ Swap(s) \/ Applied(s)

Next == \E s \in Sides : Advance(s)

Spec == Init /\ [][Next]_vars

-----------------------------------------------------------------------------
(* Every index is below its own bound, used or not, so that no swap is out *)
(* of the side's range.                                                    *)
TypeOK ==
  /\ count \in [Sides -> 1..MaxCount]
  /\ phase \in Steps
  /\ swaps \in [Sides -> Seq(Nat)] /\ sampled \in [Sides -> Seq(Nat)]
  /\ \A s \in Sides :
       /\ Len(swaps[s]) < count[s]
       /\ \A k \in DOMAIN swaps[s] : swaps[s][k] <= count[s] - k
  /\ attempts \in 0..MaxAttempts
  /\ step \in 0..(MaxCount - 1)
  /\ DOMAIN values = Sides
  /\ \A s \in Sides : values[s] \in [1..count[s] -> 1..count[s]]

(* LayoutPlan::apply: no input or output of the plan is lost or doubled,   *)
(* at any swap.                                                            *)
LayoutIsPermutation ==
  \A s \in Sides : \A i, j \in 1..count[s] : values[s][i] = values[s][j] => i = j

(* LayoutPlan::generate before apply: as long as an index of either side   *)
(* may still fail to be sampled, and when one has failed, neither side is  *)
(* reordered.                                                              *)
NothingBeforeBoth ==
  (\E s \in Sides : values[s] # [i \in 1..count[s] |-> i])
     => phase[1] \in {"apply", "done"} /\ \A s \in Sides : Len(swaps[s]) = count[s] - 1

(* Among the draws accepted, every index below the bound is reached by     *)
(* equally many.                                                           *)
DrawsAreEven ==
  \A s \in Sides : phase = <<"fill", s>> /\ Bound(s) \in 2..MaxBound =>
    LET Reaching(r) == {d \in 0..(Draws - 1) : Accepts(d, Bound(s)) /\ Index(s, d) = r}
    IN  /\ Reaching(0) # {}
        /\ \A r \in 0..(Bound(s) - 1) : Cardinality(Reaching(r)) = Cardinality(Reaching(0))

(* Every plan a side could have sampled, and what swapping by it yields.   *)
Plans(n) == {p \in [1..(n - 1) -> 0..(n - 1)] : \A k \in 1..(n - 1) : p[k] <= n - k}
PermutedBy(n, p) ==
  LET after[k \in 0..(n - 1)] ==
        IF k = 0 THEN [i \in 1..n |-> i] ELSE Swapped(after[k - 1], n - k + 1, p[k] + 1)
  IN  after[n - 1]

(* One plan alone leads to a given order.                                  *)
OrderHasOnePlan ==
  phase[1] = "done" => \A s \in Sides :
    {p \in Plans(count[s]) : PermutedBy(count[s], p) = values[s]} = {sampled[s]}

(* sample_uniform_index favours no index by its reduction, and             *)
(* apply_shuffle_plan after fill_shuffle_plan leads to no order by two     *)
(* plans: every order of a side comes about, and each as often.            *)
LayoutIsEven == DrawsAreEven /\ OrderHasOnePlan
=============================================================================
