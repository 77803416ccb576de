-------------------------- MODULE Algorithms_proofs --------------------------
(***************************************************************************)
(* Safety of the procedures of MCAlgorithms, for any values of their       *)
(* constants: the layout of a spend, a call of a function that answers     *)
(* into a buffer, the arithmetic on limbs, and what holds of every         *)
(* registration: verification accepts the right witness and no other, what *)
(* is accepted agrees in value, and each acceptance is of one context.     *)
(* They share no variable.                                                 *)
(***************************************************************************)
EXTENDS LayoutPlan, BufferedCall, LimbArithmetic, RegistrationProofs, SumTheorems, SequenceTheorems, FiniteSetTheorems, TLAPS

-----------------------------------------------------------------------------
(***************************************************************************)
(* LayoutPlan.                                                             *)
(***************************************************************************)
Identity(s) == [i \in 1..count[s] |-> i]

(* Where a call is, a side's plan is complete once its turn is over, and   *)
(* a side keeps its order until swaps are applied to it.                   *)
Progress ==
  /\ \A s \in Sides : phase[1] \in {"apply", "done"} => Len(swaps[s]) = count[s] - 1
  /\ phase[1] \in {"fill", "failed"} => \A s \in Sides : values[s] = Identity(s)
  /\ phase = <<"fill", "outs">> => Len(swaps["ins"]) = count["ins"] - 1
  /\ \A s \in Sides : phase = <<"apply", s>> => step <= Len(swaps[s])
  /\ phase[1] # "apply" => step = 0

IInv == TypeOK /\ LayoutIsPermutation /\ Progress

Injective(v, n) == \A a, b \in 1..n : v[a] = v[b] => a = b

(* A swap of two elements within the side keeps them all.                  *)
LEMMA SwappedIsPermutation ==
  ASSUME NEW n \in Nat, NEW v \in [1..n -> 1..n], NEW i \in 1..n, NEW j \in 1..n,
         Injective(v, n)
  PROVE  /\ Swapped(v, i, j) \in [1..n -> 1..n]
         /\ Injective(Swapped(v, i, j), n)
  BY DEF Swapped, Injective

(* The index of an accepted draw is below the bound it was drawn for.      *)
LEMMA IndexBelowBound ==
  ASSUME NEW d \in Nat, NEW b \in Nat, b > 0
  PROVE  d % b \in 0..(b - 1)
  OBVIOUS

LEMMA InitEstablishes == Init => IInv
<1>. SUFFICES ASSUME Init PROVE IInv
  OBVIOUS
<1>1. TypeOK
  BY LayoutAssumption DEF Init, TypeOK, Steps, Sides
<1>2. LayoutIsPermutation
  BY DEF Init, LayoutIsPermutation
<1>3. Progress
  BY DEF Init, Progress, Identity
<1>. QED
  BY <1>1, <1>2, <1>3 DEF IInv

LEMMA DrawKeeps ==
  ASSUME IInv, NEW s \in Sides, NEW d \in 0..(Draws - 1), Draw(s, d)
  PROVE  IInv'
<1>. USE DEF Sides
<1>. /\ count' = count /\ phase' = phase /\ values' = values /\ step' = step
     /\ phase = <<"fill", s>>
  BY DEF Draw
<1>1. CASE UNCHANGED <<swaps, sampled>>
  <2>1. attempts' \in 0..MaxAttempts
    BY <1>1, LayoutAssumption DEF Draw, IInv, TypeOK
  <2>. QED
    BY <1>1, <2>1 DEF IInv, TypeOK, LayoutIsPermutation, Progress, Identity
<1>2. CASE swaps' # swaps \/ sampled' # sampled
  <2>1. /\ swaps' = [swaps EXCEPT ![s] = Append(@, Index(s, d))]
        /\ sampled' = [sampled EXCEPT ![s] = Append(@, Index(s, d))]
        /\ attempts' = 0
    BY <1>2 DEF Draw
  <2>2. /\ swaps[s] \in Seq(Nat) /\ sampled[s] \in Seq(Nat) /\ count[s] \in Nat
        /\ Len(swaps[s]) < count[s] - 1 /\ Len(swaps[s]) \in Nat
    BY LayoutAssumption DEF IInv, TypeOK, Draw, Filled, Bound
  <2>3. Index(s, d) \in 0..(count[s] - (Len(swaps[s]) + 1))
    BY <2>2, LayoutAssumption, IndexBelowBound DEF Index, Bound
  <2>. DEFINE more == Append(swaps[s], Index(s, d))
              seen == Append(sampled[s], Index(s, d))
  <2>a. /\ more \in Seq(Nat) /\ seen \in Seq(Nat) /\ Len(more) = Len(swaps[s]) + 1
        /\ \A k \in DOMAIN more : more[k] = IF k = Len(swaps[s]) + 1 THEN Index(s, d)
                                                                    ELSE swaps[s][k]
        /\ \A k \in DOMAIN more : k = Len(swaps[s]) + 1 \/ k \in DOMAIN swaps[s]
    <3>1. Index(s, d) \in Nat
      BY <2>2, <2>3
    <3>. DEFINE t == swaps[s]
                u == sampled[s]
                x == Index(s, d)
    <3>2. t \in Seq(Nat) /\ u \in Seq(Nat) /\ x \in Nat
      BY <2>2, <3>1
    <3>. HIDE DEF t, u, x
    <3>3. /\ Append(t, x) \in Seq(Nat) /\ Append(u, x) \in Seq(Nat) /\ Len(Append(t, x)) = Len(t) + 1
          /\ \A k \in DOMAIN Append(t, x) : Append(t, x)[k] = IF k = Len(t) + 1 THEN x ELSE t[k]
          /\ \A k \in DOMAIN Append(t, x) : k = Len(t) + 1 \/ k \in DOMAIN t
      BY ONLY <3>2, AppendProperties
    <3>. QED
      BY ONLY <3>3 DEF t, u, x
  <2>b. swaps' = [swaps EXCEPT ![s] = more] /\ sampled' = [sampled EXCEPT ![s] = seen]
    BY <2>1
  <2>. HIDE DEF more, seen
  <2>4. /\ swaps' \in [Sides -> Seq(Nat)] /\ sampled' \in [Sides -> Seq(Nat)]
    BY <2>a, <2>b DEF IInv, TypeOK
  <2>5. ASSUME NEW x \in Sides
        PROVE  /\ Len(swaps'[x]) < count[x]
               /\ \A k \in DOMAIN swaps'[x] : swaps'[x][k] <= count[x] - k
    <3>1. CASE x = s
      <4>1. swaps'[x] = more
        BY <2>b, <3>1 DEF IInv, TypeOK
      <4>2. \A k \in DOMAIN swaps[s] : swaps[s][k] <= count[s] - k
        BY DEF IInv, TypeOK
      <4>. QED
        <5>1. ASSUME NEW k \in DOMAIN more PROVE more[k] <= count[s] - k
          <6>1. CASE k = Len(swaps[s]) + 1
            <7>1. more[k] = Index(s, d)
              BY <2>a, <6>1
            <7>. QED
              BY <2>2, <2>3, <6>1, <7>1
          <6>2. CASE k # Len(swaps[s]) + 1
            BY <2>a, <4>2, <6>2
          <6>. QED
            BY <6>1, <6>2
        <5>2. Len(more) < count[s]
          BY <2>2, <2>a
        <5>. QED
          BY <3>1, <4>1, <5>1, <5>2
    <3>2. CASE x # s
      BY <2>1, <3>2 DEF IInv, TypeOK
    <3>. QED
      BY <3>1, <3>2
  <2>6. TypeOK'
    <3>1. 0 \in 0..MaxAttempts
      BY LayoutAssumption
    <3>. QED
      BY <2>1, <2>4, <2>5, <3>1 DEF IInv, TypeOK
  <2>7. Progress'
    BY <2>1, <2>2 DEF IInv, Progress, Identity
  <2>. QED
    BY <2>6, <2>7 DEF IInv, LayoutIsPermutation
<1>. QED
  BY <1>1, <1>2

LEMMA GiveUpKeeps ==
  ASSUME IInv, NEW s \in Sides, GiveUp(s)
  PROVE  IInv'
<1>1. /\ count' = count /\ values' = values /\ step' = step /\ attempts' = attempts
      /\ sampled' = sampled /\ phase' = <<"failed", "both">> /\ phase = <<"fill", s>>
      /\ swaps' = [x \in Sides |-> << >>]
  BY DEF GiveUp
<1>2. TypeOK'
  BY <1>1 DEF IInv, TypeOK, Steps, Sides
<1>3. Progress'
  BY <1>1 DEF IInv, Progress, Identity, Sides
<1>. QED
  BY <1>1, <1>2, <1>3 DEF IInv, LayoutIsPermutation

LEMMA TurnKeeps ==
  ASSUME IInv, NEW s \in Sides, Turn(s)
  PROVE  IInv'
<1>1. UNCHANGED <<count, swaps, attempts, values, step, sampled>>
  BY DEF Turn
<1>2. /\ phase = <<"fill", s>> /\ Len(swaps[s]) = count[s] - 1
      /\ phase' = IF s = "ins" THEN <<"fill", "outs">> ELSE <<"apply", "ins">>
  BY DEF Turn, Filled, Bound, IInv, TypeOK
<1>3. TypeOK'
  BY <1>1, <1>2 DEF IInv, TypeOK, Steps, Sides
<1>4. Progress'
  BY <1>1, <1>2 DEF IInv, Progress, Identity, Sides, TypeOK
<1>. QED
  BY <1>1, <1>3, <1>4 DEF IInv, LayoutIsPermutation

LEMMA SwapKeeps ==
  ASSUME IInv, NEW s \in Sides, Swap(s)
  PROVE  IInv'
<1>. DEFINE j == swaps[s][step + 1] + 1
            v == Swapped(values[s], Place(s), j)
<1>1. /\ count' = count /\ phase' = phase /\ attempts' = attempts /\ sampled' = sampled
      /\ phase = <<"apply", s>> /\ step' = step + 1 /\ step < Len(swaps[s])
      /\ values' = [values EXCEPT ![s] = v]
      /\ swaps' = [swaps EXCEPT ![s][step + 1] = 0]
  BY DEF Swap
<1>2. /\ step \in Nat /\ count[s] \in Nat /\ count[s] <= MaxCount
      /\ swaps[s] \in Seq(Nat) /\ Len(swaps[s]) = count[s] - 1
      /\ values[s] \in [1..count[s] -> 1..count[s]]
  BY <1>1 DEF IInv, TypeOK, Progress
<1>3. step + 1 \in DOMAIN swaps[s]
  BY <1>1, <1>2
<1>4. Place(s) \in 1..count[s] /\ j \in 1..count[s]
  <2>1. swaps[s][step + 1] \in Nat /\ swaps[s][step + 1] <= count[s] - (step + 1)
    BY <1>2, <1>3 DEF IInv, TypeOK
  <2>2. step < count[s] - 1
    BY <1>1, <1>2
  <2>3. Place(s) \in 1..count[s]
    BY <1>2, <2>2 DEF Place
  <2>4. ASSUME NEW x \in Nat, x <= count[s] - (step + 1) PROVE x + 1 \in 1..count[s]
    BY <1>2, <2>4
  <2>5. j \in 1..count[s]
    BY <2>1, <2>4
  <2>. QED
    BY <2>3, <2>5
<1>5. v \in [1..count[s] -> 1..count[s]] /\ Injective(v, count[s])
  <2>1. Injective(values[s], count[s])
    BY DEF IInv, LayoutIsPermutation, Injective
  <2>2. values[s] \in [1..count[s] -> 1..count[s]] /\ count[s] \in Nat
    BY <1>2
  <2>. HIDE DEF j
  <2>. QED
    BY <1>4, <2>1, <2>2, SwappedIsPermutation
<1>. HIDE DEF j, v
<1>6. LayoutIsPermutation'
  BY <1>1, <1>5 DEF IInv, LayoutIsPermutation, Injective, TypeOK
<1>7. /\ swaps'[s] \in Seq(Nat) /\ Len(swaps'[s]) = Len(swaps[s])
      /\ \A k \in DOMAIN swaps'[s] : swaps'[s][k] <= count[s] - k
  <2>1. swaps'[s] = [swaps[s] EXCEPT ![step + 1] = 0]
    BY <1>1 DEF IInv, TypeOK
  <2>2. DOMAIN swaps[s] = 1..Len(swaps[s])
    BY <1>2
  <2>. QED
    BY <1>2, <1>3, <2>1, <2>2, ExceptSeq DEF IInv, TypeOK
<1>8. TypeOK'
  <2>1. step' \in 0..(MaxCount - 1)
    BY <1>1, <1>2, LayoutAssumption
  <2>2. swaps' \in [Sides -> Seq(Nat)]
    BY <1>1, <1>7 DEF IInv, TypeOK
  <2>3. ASSUME NEW x \in Sides
        PROVE  /\ Len(swaps'[x]) < count'[x]
               /\ \A k \in DOMAIN swaps'[x] : swaps'[x][k] <= count'[x] - k
               /\ values'[x] \in [1..count'[x] -> 1..count'[x]]
    <3>1. CASE x = s
      BY <1>1, <1>2, <1>5, <1>7, <3>1 DEF IInv, TypeOK
    <3>2. CASE x # s
      BY <1>1, <3>2 DEF IInv, TypeOK
    <3>. QED
      BY <3>1, <3>2
  <2>4. DOMAIN values' = Sides
    BY <1>1 DEF IInv, TypeOK
  <2>. QED
    BY <1>1, <2>1, <2>2, <2>3, <2>4 DEF IInv, TypeOK
<1>9. Progress'
  BY <1>1, <1>2, <1>7 DEF IInv, Progress, TypeOK
<1>. QED
  BY <1>6, <1>8, <1>9 DEF IInv

LEMMA AppliedKeeps ==
  ASSUME IInv, NEW s \in Sides, Applied(s)
  PROVE  IInv'
<1>1. /\ UNCHANGED <<count, swaps, attempts, values, sampled>> /\ step' = 0
      /\ phase = <<"apply", s>>
      /\ phase' = IF s = "ins" THEN <<"apply", "outs">> ELSE <<"done", "both">>
  BY DEF Applied
<1>2. TypeOK'
  BY <1>1, LayoutAssumption DEF IInv, TypeOK, Steps, Sides
<1>3. Progress'
  BY <1>1 DEF IInv, Progress, Identity, Sides, TypeOK
<1>. QED
  BY <1>1, <1>2, <1>3 DEF IInv, LayoutIsPermutation

(* The conjunction of types, permutations and progress is inductive.       *)
THEOREM LayoutInductive == Spec => []IInv
<1>1. IInv /\ [Next]_vars => IInv'
  <2>. SUFFICES ASSUME IInv, [Next]_vars PROVE IInv'
    OBVIOUS
  <2>1. CASE UNCHANGED vars
    BY <2>1 DEF vars, IInv, TypeOK, LayoutIsPermutation, Progress, Identity
  <2>2. ASSUME NEW s \in Sides, Advance(s) PROVE IInv'
    BY <2>2, DrawKeeps, GiveUpKeeps, TurnKeeps, SwapKeeps, AppliedKeeps DEF Advance
  <2>. QED
    BY <2>1, <2>2 DEF Next
<1>. QED
  BY <1>1, InitEstablishes, PTL DEF Spec

(* Indices are in range for whatever was drawn.                            *)
THEOREM LayoutTypes == Spec => []TypeOK
<1>1. IInv => TypeOK
  BY DEF IInv
<1>. QED
  BY <1>1, LayoutInductive, PTL

(* Shuffling loses and doubles nothing.                                    *)
THEOREM LayoutPermutes == Spec => []LayoutIsPermutation
<1>1. IInv => LayoutIsPermutation
  BY DEF IInv
<1>. QED
  BY <1>1, LayoutInductive, PTL

(* Neither side is reordered before both plans are complete.               *)
THEOREM LayoutWaits == Spec => []NothingBeforeBoth
<1>1. IInv => NothingBeforeBoth
  BY DEF IInv, TypeOK, Steps, Progress, Identity, NothingBeforeBoth
<1>. QED
  BY <1>1, LayoutInductive, PTL

-----------------------------------------------------------------------------
(* What is dealt out evenly: the draws from the threshold on are whole     *)
(* rounds of b, and the k-th round reaches r with one draw.                *)
Offset(r, t, b) == (r - t) % b
InRound(k, r, t, b) == t + b * k + Offset(r, t, b)

LandsIn(d, k, r, t, b) ==
  d \in Nat /\ d >= t + b * k /\ d < t + b * (k + 1) /\ d % b = r

LEMMA RoundsAreWhole ==
  ASSUME NEW b \in Nat \ {0}, Draws \in Nat, Draws > b
  PROVE  /\ Threshold(b) \in 0..(b - 1)
         /\ \E m \in Nat \ {0} : Draws = Threshold(b) + b * m
<1>1. Draws - b \in Int
  OBVIOUS
<1>2. PICK q \in Int : Draws - b = ((Draws - b) % b) + b * q
  BY <1>1, RemainderIsOff
<1>3. Threshold(b) \in 0..(b - 1)
  BY <1>1, RemainderIsOff DEF Threshold
<1>4. Draws - b = Threshold(b) + b * q
  BY <1>2 DEF Threshold
<1>5. q >= 0
  <2> SUFFICES ASSUME q < 0 PROVE FALSE
    OBVIOUS
  <2>1. b * q <= b * (-1)
    OBVIOUS
  <2> QED BY <1>3, <1>4, <2>1
<1> DEFINE m == q + 1
<1>6. m \in Nat \ {0} /\ b * m = b * q + b
  BY <1>5
<1>7. Draws = Threshold(b) + b * m
  BY <1>3, <1>4, <1>6
<1> HIDE DEF m
<1> QED BY <1>3, <1>6, <1>7

LEMMA RoundHasOne ==
  ASSUME NEW b \in Nat \ {0}, NEW t \in Nat, NEW r \in 0..(b - 1), NEW k \in Nat
  PROVE  LandsIn(InRound(k, r, t, b), k, r, t, b)
<1> DEFINE o == Offset(r, t, b)
<1> DEFINE z == r - t
<1>0. z \in Int /\ o = z % b
  BY DEF Offset
<1> HIDE DEF o, z
<1>1. o \in 0..(b - 1) /\ \E q \in Int : z = o + b * q
  BY <1>0, RemainderIsOff
<1>2. PICK q \in Int : r - t = o + b * q
  BY <1>1 DEF z
<1> DEFINE c == b * k
<1>3. c \in Nat /\ b * (k + 1) = c + b
  OBVIOUS
<1>4. InRound(k, r, t, b) = t + c + o
  BY DEF InRound, o
<1> HIDE DEF c
<1>5. t + c + o = r + (c - b * q)
  <2>1. b * q \in Int
    OBVIOUS
  <2> QED BY <1>1, <1>2, <1>3, <2>1
<1>6. c - b * q = b * (k - q)
  BY DEF c
<1>7. (t + c + o) % b = r
  <2>1. k - q \in Int /\ t + c + o \in Int
    BY <1>1, <1>3
  <2>2. t + c + o = b * (k - q) + r
    BY <1>5, <1>6, <2>1
  <2> QED BY <2>1, <2>2, RemainderIs
<1>8. t + c + o \in Nat /\ t + c + o >= t + c /\ t + c + o < t + (c + b)
  BY <1>1, <1>3
<1>9. t + c + o >= t + b * k
  BY <1>8 DEF c
<1> QED BY <1>3, <1>4, <1>7, <1>8, <1>9 DEF LandsIn

(* Rounds do not overlap.                                                  *)
LEMMA RoundsAreApart ==
  ASSUME NEW b \in Nat \ {0}, NEW k \in Nat, NEW l \in Nat, k < l
  PROVE  b * (k + 1) <= b * l
<1>1. l - (k + 1) \in Nat
  OBVIOUS
<1>2. b * (l - (k + 1)) \in Nat
  BY <1>1
<1>3. b * (l - (k + 1)) = b * l - b * (k + 1)
  OBVIOUS
<1>4. b * l \in Int /\ b * (k + 1) \in Int
  OBVIOUS
<1> QED BY <1>2, <1>3, <1>4

(* A draw from the threshold on is in some round.                          *)
LEMMA DrawIsInRound ==
  ASSUME NEW b \in Nat \ {0}, NEW t \in Nat, NEW m \in Nat, NEW d \in Nat,
         d >= t, d < t + b * m
  PROVE  \E k \in 0..(m - 1) : d = InRound(k, d % b, t, b)
<1> DEFINE e == d - t  k == e \div b  o == e % b
<1>1. e \in Nat /\ k \in Nat /\ o \in 0..(b - 1) /\ e = b * k + o
  OBVIOUS
<1>2. d = t + b * k + o
  <2>1. b * k \in Int
    BY <1>1
  <2> QED BY <1>1, <2>1
<1>3. o = Offset(d % b, t, b)
  <2>1. PICK q \in Int : d = (d % b) + b * q
    <3>1. d \in Int
      OBVIOUS
    <3>2. \E q \in Int : d = (d % b) + b * q
      BY <3>1, RemainderIsOff
    <3> QED BY <3>2
  <2> DEFINE r == d % b  z == r - t  c == b * q
  <2>2. r \in Int /\ c \in Int /\ b * (0 - q) = 0 - c
    OBVIOUS
  <2>3. z = e + b * (0 - q)
    <3>1. d = r + c /\ e = d - t
      BY <2>1
    <3> HIDE DEF r, c, e
    <3> QED BY <2>2, <3>1
  <2>4. z % b = e % b
    <3>1. z \in Int /\ 0 - q \in Int /\ e \in Int
      BY <2>2
    <3> HIDE DEF e, z
    <3> QED BY <2>3, <3>1, RemainderOfMultiple
  <2> QED BY <2>4 DEF Offset
<1>4. k < m
  <2> SUFFICES ASSUME k >= m PROVE FALSE
    BY <1>1
  <2>1. b * k >= b * m
    <3> HIDE DEF k
    <3>1. CASE k = m  BY <3>1
    <3>2. CASE m < k
      <4>1. b * (m + 1) <= b * k
        BY <1>1, <3>2, RoundsAreApart
      <4>2. b * (m + 1) = b * m + b /\ b * m \in Int /\ b * k \in Int
        BY <1>1
      <4> QED BY <4>1, <4>2
    <3> QED BY <1>1, <3>1, <3>2
  <2>2. b * k \in Int /\ b * m \in Int
    BY <1>1
  <2> HIDE DEF k, o
  <2> QED BY <1>1, <1>2, <2>1, <2>2
<1> HIDE DEF e, k, o
<1>5. k \in 0..(m - 1)
  BY <1>1, <1>4
<1>6. d = InRound(k, d % b, t, b)
  BY <1>2, <1>3 DEF InRound
<1> QED BY <1>5, <1>6

(* The draws that are accepted and reach r, b being the bound.             *)
Reached(r, b) == {d \in 0..(Draws - 1) : Accepts(d, b) /\ d % b = r}

LEMMA ReachedByRounds ==
  ASSUME NEW b \in Nat \ {0}, Draws \in Nat, NEW m \in Nat,
         Threshold(b) \in Nat, Draws = Threshold(b) + b * m, NEW r \in 0..(b - 1)
  PROVE  IsFiniteSet(Reached(r, b)) /\ Cardinality(Reached(r, b)) = m
<1> DEFINE t == Threshold(b)
           f == [k \in 1..m |-> InRound(k - 1, r, t, b)]
<1>1. t \in Nat /\ Draws = t + b * m
  OBVIOUS
<1> HIDE DEF t
<1>2. ASSUME NEW k \in 1..m
      PROVE  /\ f[k] \in Nat
             /\ f[k] >= t + b * (k - 1) /\ f[k] < t + b * k /\ f[k] % b = r
  <2> DEFINE j == k - 1
  <2>1. j \in Nat /\ j + 1 = k /\ f[k] = InRound(j, r, t, b)
    OBVIOUS
  <2> HIDE DEF j, f
  <2>2. LandsIn(InRound(j, r, t, b), j, r, t, b)
    BY <1>1, <2>1, RoundHasOne
  <2>3. LandsIn(f[k], j, r, t, b)
    BY <2>1, <2>2
  <2>4. /\ f[k] \in Nat /\ f[k] >= t + b * j /\ f[k] < t + b * (j + 1)
        /\ f[k] % b = r
    BY <2>3 DEF LandsIn
  <2>5. f[k] < t + b * k
    BY <2>1, <2>4
  <2> QED BY <2>1, <2>4, <2>5 DEF j
<1>3. f \in [1..m -> Reached(r, b)]
  <2>1. ASSUME NEW k \in 1..m PROVE f[k] \in Reached(r, b)
    <3>1. b * k <= b * m
      <4>1. CASE k = m  BY <4>1
      <4>2. CASE k < m
        <5>1. b * (k + 1) <= b * m
          BY <4>2, RoundsAreApart
        <5>2. b * (k + 1) = b * k + b /\ b * k \in Int /\ b * m \in Int
          OBVIOUS
        <5> QED BY <5>1, <5>2
      <4> QED BY <4>1, <4>2
    <3>2. b * k \in Int /\ b * m \in Int /\ b * (k - 1) \in Nat
      OBVIOUS
    <3>3. f[k] \in Nat /\ f[k] >= t /\ f[k] < Draws /\ f[k] % b = r
      <4>1. /\ f[k] \in Nat /\ f[k] >= t + b * (k - 1) /\ f[k] < t + b * k
            /\ f[k] % b = r
        BY <1>2
      <4> DEFINE u == b * k  v == b * m  w == b * (k - 1)
      <4>2. u \in Int /\ v \in Int /\ w \in Nat /\ u <= v
        BY <3>1, <3>2
      <4> HIDE DEF f, u, v, w
      <4>3. f[k] >= t + w /\ f[k] < t + u /\ Draws = t + v
        BY <1>1, <4>1 DEF u, v, w
      <4> QED BY <1>1, <4>1, <4>2, <4>3
    <3> HIDE DEF f
    <3> QED BY <3>3 DEF Reached, Accepts, t
  <2> QED BY <2>1
<1>4. ASSUME NEW k \in 1..m, NEW l \in 1..m, k < l
      PROVE  f[k] < f[l]
  <2>1. b * ((k - 1) + 1) <= b * (l - 1)
    <3>1. k - 1 \in Nat /\ l - 1 \in Nat /\ k - 1 < l - 1
      BY <1>4
    <3> QED BY <3>1, RoundsAreApart
  <2>2. (k - 1) + 1 = k
    OBVIOUS
  <2>3. b * k \in Int /\ b * (l - 1) \in Int
    OBVIOUS
  <2>4. f[k] \in Int /\ f[l] \in Int /\ f[k] < t + b * k /\ f[l] >= t + b * (l - 1)
    BY <1>2
  <2> HIDE DEF f
  <2> QED BY <1>1, <2>1, <2>2, <2>3, <2>4
<1>5. ASSUME NEW d \in Reached(r, b)
      PROVE  \E k \in 1..m : f[k] = d
  <2>1. d \in Nat /\ d >= t /\ d < t + b * m /\ d % b = r
    BY <1>1 DEF Reached, Accepts, t
  <2>2. PICK k \in 0..(m - 1) : d = InRound(k, r, t, b)
    <3>1. \E k \in 0..(m - 1) : d = InRound(k, d % b, t, b)
      BY <1>1, <2>1, DrawIsInRound
    <3> QED BY <2>1, <3>1
  <2> DEFINE l == k + 1
  <2>3. l \in 1..m /\ l - 1 = k
    OBVIOUS
  <2> HIDE DEF l
  <2>4. f[l] = d
    BY <2>2, <2>3
  <2> QED BY <2>3, <2>4
<1>6. ExistsBijection(1..m, Reached(r, b))
  <2>1. ASSUME NEW k \in 1..m, NEW l \in 1..m, f[k] = f[l] PROVE k = l
    <3>1. f[k] \in Int /\ f[l] \in Int
      BY <1>2
    <3> HIDE DEF f
    <3> QED BY <1>4, <2>1, <3>1
  <2> HIDE DEF f
  <2>2. f \in Bijection(1..m, Reached(r, b))
    BY <1>3, <1>5, <2>1 DEF Bijection, Injection, Surjection, IsInjective
  <2> QED BY <2>2 DEF ExistsBijection
<1>7. Cardinality(1..m) = m /\ IsFiniteSet(1..m)
  <2>1. 1 \in Int /\ m \in Int /\ (IF 1 > m THEN 0 ELSE m - 1 + 1) = m
    OBVIOUS
  <2> QED BY <2>1, FS_Interval
<1> QED BY <1>6, <1>7, FS_Bijection

(* Every index below a bound that may be drawn for is reached equally      *)
(* often.                                                                  *)
LEMMA EvenlyReached ==
  ASSUME NEW b \in 2..MaxBound
  PROVE  /\ Reached(0, b) # {}
         /\ \A r \in 0..(b - 1) : Cardinality(Reached(r, b)) = Cardinality(Reached(0, b))
<1>1. b \in Nat \ {0} /\ Draws \in Nat /\ Draws > b
  BY LayoutAssumption
<1>2. Threshold(b) \in Nat
  BY <1>1, RoundsAreWhole
<1>3. PICK m \in Nat \ {0} : Draws = Threshold(b) + b * m
  BY <1>1, RoundsAreWhole
<1>4. \A r \in 0..(b - 1) : IsFiniteSet(Reached(r, b)) /\ Cardinality(Reached(r, b)) = m
  BY <1>1, <1>2, <1>3, ReachedByRounds
<1>5. 0 \in 0..(b - 1)
  BY <1>1
<1>6. Reached(0, b) # {}
  BY <1>3, <1>4, <1>5, FS_EmptySet
<1> QED BY <1>4, <1>5, <1>6

-----------------------------------------------------------------------------
(* What a side is after each swap of the plan p.                           *)
Turned(n, p, a, m) ==
  a = [k \in 0..m |-> IF k = 0 THEN [i \in 1..n |-> i]
                      ELSE Swapped(a[k - 1], n - k + 1, p[k] + 1)]
AfterSwaps(n, p) == CHOOSE a : Turned(n, p, a, n - 1)

LEMMA TurnsExist ==
  ASSUME NEW n, NEW p, NEW m \in Nat
  PROVE  \E a : Turned(n, p, a, m)
<1> DEFINE S == {k \in Nat : \E a : Turned(n, p, a, k)}
<1>1. 0 \in S
  <2> DEFINE a == [k \in 0..0 |-> [i \in 1..n |-> i]]
  <2>1. Turned(n, p, a, 0)
    <3>1. a = [k \in 0..0 |-> IF k = 0 THEN [i \in 1..n |-> i]
                              ELSE Swapped(a[k - 1], n - k + 1, p[k] + 1)]
      BY \A k \in 0..0 : k = 0
    <3> HIDE DEF a
    <3> QED BY <3>1 DEF Turned
  <2> QED BY <2>1
<1>2. ASSUME NEW k \in S PROVE k + 1 \in S
  <2>1. k \in Nat
    OBVIOUS
  <2>2. PICK a : Turned(n, p, a, k)
    OBVIOUS
  <2> DEFINE c == [l \in 0..(k + 1) |->
                     IF l = k + 1 THEN Swapped(a[k], n - (k + 1) + 1, p[k + 1] + 1) ELSE a[l]]
             next(f, l) == IF l = 0 THEN [i \in 1..n |-> i]
                           ELSE Swapped(f[l - 1], n - l + 1, p[l] + 1)
  <2>3. a = [l \in 0..k |-> next(a, l)]
    BY <2>2 DEF Turned
  <2>4. ASSUME NEW l \in 0..(k + 1)
        PROVE  c[l] = next(c, l)
    <3>1. CASE l = k + 1
      <4>1. l - 1 = k /\ l # 0 /\ k \in 0..(k + 1) /\ k # k + 1
        BY <2>1, <3>1
      <4>2. c[k] = a[k]
        BY <4>1
      <4>3. c[l] = Swapped(a[k], n - l + 1, p[l] + 1)
        BY <3>1
      <4> QED BY <4>1, <4>2, <4>3
    <3>2. CASE l # k + 1
      <4>1. l \in 0..k
        BY <2>1, <3>2
      <4>2. c[l] = a[l] /\ a[l] = next(a, l)
        <5>1. c[l] = a[l]
          BY <3>2
        <5> HIDE DEF next
        <5>2. a[l] = next(a, l)
          BY <2>3, <4>1
        <5> QED BY <5>1, <5>2
      <4>3. CASE l = 0
        BY <4>2, <4>3
      <4>4. CASE l # 0
        <5>1. l - 1 \in 0..(k + 1) /\ l - 1 # k + 1
          BY <2>1, <4>1, <4>4
        <5>2. c[l - 1] = a[l - 1]
          BY <5>1
        <5> HIDE DEF c
        <5> QED BY <4>2, <4>4, <5>2
      <4> QED BY <4>3, <4>4
    <3> QED BY <3>1, <3>2
  <2>5. c = [l \in 0..(k + 1) |-> c[l]]
    OBVIOUS
  <2> HIDE DEF c
  <2>6. c = [l \in 0..(k + 1) |-> next(c, l)]
    <3> HIDE DEF next
    <3> QED BY <2>4, <2>5
  <2>7. Turned(n, p, c, k + 1)
    BY <2>6 DEF Turned
  <2> QED BY <2>1, <2>7
<1>3. S \in SUBSET Nat
  OBVIOUS
<1> HIDE DEF S
<1>4. S = Nat
  BY <1>1, <1>2, <1>3, NumberInduction
<1> QED BY <1>4 DEF S

(* So the recursion of PermutedBy has a solution, stepwise this one.       *)
LEMMA SwapByStep ==
  ASSUME NEW n \in Nat \ {0}, NEW p
  PROVE  /\ AfterSwaps(n, p)[0] = [i \in 1..n |-> i]
         /\ \A k \in 1..(n - 1) :
              AfterSwaps(n, p)[k] = Swapped(AfterSwaps(n, p)[k - 1], n - k + 1, p[k] + 1)
         /\ PermutedBy(n, p) = AfterSwaps(n, p)[n - 1]
<1> DEFINE a == AfterSwaps(n, p)
<1>1. Turned(n, p, a, n - 1)
  <2>1. n - 1 \in Nat
    OBVIOUS
  <2> QED BY <2>1, TurnsExist DEF AfterSwaps
<1>2. PermutedBy(n, p) = a[n - 1]
  BY DEF PermutedBy, AfterSwaps, Turned
<1> HIDE DEF a
<1>3. a[0] = [i \in 1..n |-> i]
  BY <1>1 DEF Turned
<1>4. \A k \in 1..(n - 1) : a[k] = Swapped(a[k - 1], n - k + 1, p[k] + 1)
  BY <1>1 DEF Turned
<1> QED BY <1>2, <1>3, <1>4 DEF a

(* A plan swaps within what its later swaps leave alone.                   *)
IsPlan(n, p) == \A k \in 1..(n - 1) : p[k] \in Nat /\ p[k] <= n - k

LEMMA SwapsPermute ==
  ASSUME NEW n \in Nat \ {0}, NEW p, IsPlan(n, p), NEW k \in 0..(n - 1)
  PROVE  AfterSwaps(n, p)[k] \in [1..n -> 1..n] /\ Injective(AfterSwaps(n, p)[k], n)
<1> DEFINE a == AfterSwaps(n, p)
           Fine == {v \in [1..n -> 1..n] : Injective(v, n)}
           S == {l \in Nat : l <= n - 1 => a[l] \in Fine}
<1>1. 0 \in S
  <2>1. a[0] = [i \in 1..n |-> i]
    BY SwapByStep
  <2> HIDE DEF a
  <2>2. a[0] \in Fine
    BY <2>1 DEF Injective
  <2> QED BY <2>2
<1>2. \A x \in 1..(n - 1) : a[x] = Swapped(a[x - 1], n - x + 1, p[x] + 1)
  BY SwapByStep
<1> HIDE DEF a, Fine
<1>3. ASSUME NEW l \in S PROVE l + 1 \in S
  <2> SUFFICES ASSUME l + 1 <= n - 1 PROVE a[l + 1] \in Fine
    OBVIOUS
  <2> DEFINE m == l + 1
             z == p[m]
             i == n - m + 1
  <2>1. m \in 1..(n - 1) /\ m - 1 = l /\ l \in Nat /\ i \in 1..n
    OBVIOUS
  <2>2. a[l] \in [1..n -> 1..n] /\ Injective(a[l], n)
    <3>1. l <= n - 1
      BY <2>1
    <3>2. a[l] \in Fine
      BY <3>1
    <3> QED BY <3>2 DEF Fine
  <2>3. a[m] = Swapped(a[l], i, z + 1)
    <3>1. a[m] = Swapped(a[m - 1], n - m + 1, p[m] + 1)
      <4> HIDE DEF m
      <4> QED BY <1>2, <2>1
    <3> QED BY <2>1, <3>1
  <2>4. z + 1 \in 1..n
    <3>1. z \in Nat /\ z <= n - m
      BY <2>1 DEF IsPlan
    <3> HIDE DEF z, m
    <3> QED BY <2>1, <3>1
  <2> HIDE DEF z, m, i
  <2>5. n \in Nat
    OBVIOUS
  <2>6. a[m] \in [1..n -> 1..n] /\ Injective(a[m], n)
    <3> DEFINE v == a[l]  j == z + 1
    <3>1. v \in [1..n -> 1..n] /\ Injective(v, n) /\ j \in 1..n /\ i \in 1..n
      BY <2>1, <2>2, <2>4
    <3> HIDE DEF v, j
    <3>2. Swapped(v, i, j) \in [1..n -> 1..n] /\ Injective(Swapped(v, i, j), n)
      BY <2>5, <3>1, SwappedIsPermutation
    <3>3. a[m] = Swapped(v, i, j)
      BY <2>3 DEF v, j
    <3> QED BY <3>2, <3>3
  <2> QED BY <2>6 DEF m, Fine
<1>4. S \in SUBSET Nat
  OBVIOUS
<1> HIDE DEF S
<1>5. S = Nat
  BY <1>1, <1>3, <1>4, NumberInduction
<1>6. k \in Nat /\ k <= n - 1
  OBVIOUS
<1> QED BY <1>5, <1>6 DEF S, a, Fine

(* What a swap puts in its place stays there.                              *)
LEMMA PlacesAreFinal ==
  ASSUME NEW n \in Nat \ {0}, NEW p, IsPlan(n, p),
         NEW k \in 0..(n - 1), NEW l \in 0..(n - 1), k <= l, NEW i \in 1..n, i > n - k
  PROVE  AfterSwaps(n, p)[l][i] = AfterSwaps(n, p)[k][i]
<1> DEFINE a == AfterSwaps(n, p)
           S == {x \in Nat : k + x <= n - 1 => a[k + x][i] = a[k][i]}
<1>1. 0 \in S
  OBVIOUS
<1>8. \A x \in 1..(n - 1) : a[x] = Swapped(a[x - 1], n - x + 1, p[x] + 1)
  BY SwapByStep
<1>2. ASSUME NEW x \in S PROVE x + 1 \in S
  <2> SUFFICES ASSUME k + (x + 1) <= n - 1 PROVE a[k + (x + 1)][i] = a[k][i]
    OBVIOUS
  <2> DEFINE m == k + (x + 1)
             z == p[m]
  <2>1. m \in 1..(n - 1) /\ m - 1 = k + x /\ x \in Nat /\ m - 1 \in 0..(n - 1)
    OBVIOUS
  <2>2. a[m] = Swapped(a[m - 1], n - m + 1, z + 1)
    <3> HIDE DEF a, m
    <3> QED BY <1>8, <2>1
  <2>3. z \in Nat /\ z <= n - m
    BY <2>1 DEF IsPlan
  <2>4. a[m - 1] \in [1..n -> 1..n]
    BY <2>1, SwapsPermute
  <2>5. a[m - 1][i] = a[k][i]
    BY <2>1
  <2>6. i # n - m + 1
    BY <2>1
  <2> HIDE DEF a, z, m
  <2>7. i # z + 1
    BY <2>1, <2>3
  <2>8. a[m][i] = a[m - 1][i]
    BY <2>2, <2>4, <2>6, <2>7 DEF Swapped
  <2> QED BY <2>5, <2>8 DEF m
<1>3. S \in SUBSET Nat
  OBVIOUS
<1> HIDE DEF S
<1>4. S = Nat
  BY <1>1, <1>2, <1>3, NumberInduction
<1>5. l - k \in Nat /\ k + (l - k) = l /\ k + (l - k) <= n - 1
  OBVIOUS
<1>6. a[k + (l - k)][i] = a[k][i]
  BY <1>4, <1>5 DEF S
<1> HIDE DEF a
<1>7. a[l][i] = a[k][i]
  BY <1>5, <1>6
<1> QED BY <1>7 DEF a

(* The swap made last in a place tells its index.                          *)
LEMMA OrderTellsPlan ==
  ASSUME NEW n \in Nat \ {0}, NEW p, IsPlan(n, p), NEW q, IsPlan(n, q),
         PermutedBy(n, p) = PermutedBy(n, q)
  PROVE  \A k \in 1..(n - 1) : p[k] = q[k]
<1> DEFINE a == AfterSwaps(n, p)
           c == AfterSwaps(n, q)
           S == {k \in Nat : k <= n - 1 => /\ a[k] = c[k]
                                           /\ \A j \in 1..k : p[j] = q[j]}
<1>0. a[n - 1] = c[n - 1]
  BY SwapByStep
<1>8. \A x \in 1..(n - 1) : /\ a[x] = Swapped(a[x - 1], n - x + 1, p[x] + 1)
                             /\ c[x] = Swapped(c[x - 1], n - x + 1, q[x] + 1)
  <2>1. \A x \in 1..(n - 1) : a[x] = Swapped(a[x - 1], n - x + 1, p[x] + 1)
    BY SwapByStep
  <2>2. \A x \in 1..(n - 1) : c[x] = Swapped(c[x - 1], n - x + 1, q[x] + 1)
    BY SwapByStep
  <2> HIDE DEF a, c
  <2> QED BY <2>1, <2>2
<1>1. 0 \in S
  <2>1. a[0] = c[0]
    BY SwapByStep
  <2> HIDE DEF a, c
  <2> QED BY <2>1
<1>2. ASSUME NEW k \in S PROVE k + 1 \in S
  <2> SUFFICES ASSUME k + 1 <= n - 1
               PROVE  a[k + 1] = c[k + 1] /\ \A j \in 1..(k + 1) : p[j] = q[j]
    OBVIOUS
  <2> DEFINE m == k + 1
             i == n - m + 1
             y == p[m]
             z == q[m]
  <2>1. /\ m \in 1..(n - 1) /\ m - 1 = k /\ k \in Nat /\ k \in 0..(n - 1)
        /\ m \in 0..(n - 1) /\ n - 1 \in 0..(n - 1) /\ m <= n - 1
        /\ i \in 1..n /\ i > n - m
    OBVIOUS
  <2>2. a[k] = c[k] /\ \A j \in 1..k : p[j] = q[j]
    BY <2>1
  <2>3. a[m] = Swapped(a[m - 1], i, y + 1) /\ c[m] = Swapped(c[m - 1], i, z + 1)
    <3> HIDE DEF a, c, m
    <3> QED BY <1>8, <2>1
  <2>4. y \in Nat /\ y <= n - m /\ z \in Nat /\ z <= n - m
    BY <2>1 DEF IsPlan
  <2>5. a[k] \in [1..n -> 1..n] /\ Injective(a[k], n)
    BY <2>1, SwapsPermute
  <2>6. a[n - 1][i] = a[m][i]
    BY <2>1, PlacesAreFinal
  <2>7. c[n - 1][i] = c[m][i]
    BY <2>1, PlacesAreFinal
  <2>8. y + 1 \in 1..n /\ z + 1 \in 1..n
    <3> HIDE DEF y, z, m
    <3> QED BY <2>1, <2>4
  <2> HIDE DEF a, c, y, z, i
  <2>9. a[m][i] = a[k][y + 1] /\ c[m][i] = c[k][z + 1]
    <3> HIDE DEF m
    <3>1. a[m] = Swapped(a[k], i, y + 1) /\ c[m] = Swapped(c[k], i, z + 1)
      BY <2>1, <2>3
    <3> DEFINE yy == y + 1  zz == z + 1  f == a[k]
    <3>2. yy \in 1..n /\ zz \in 1..n /\ i \in 1..n /\ f \in [1..n -> 1..n] /\ c[k] = f
      BY <2>1, <2>2, <2>5, <2>8
    <3> HIDE DEF yy, zz, f
    <3>3. Swapped(f, i, yy)[i] = f[yy] /\ Swapped(f, i, zz)[i] = f[zz]
      BY <3>2 DEF Swapped
    <3>4. a[m][i] = f[yy] /\ c[m][i] = f[zz]
      <4>1. a[m] = Swapped(f, i, yy) /\ c[m] = Swapped(f, i, zz)
        BY <3>1, <3>2 DEF f, yy, zz
      <4> QED BY <3>3, <4>1
    <3> QED BY <3>2, <3>4 DEF f, yy, zz
  <2>10. y + 1 = z + 1
    <3> DEFINE yy == y + 1  zz == z + 1
    <3>1. yy \in 1..n /\ zz \in 1..n
      BY <2>8
    <3> HIDE DEF yy, zz, m
    <3>2. a[k][yy] = c[k][zz]
      BY <1>0, <2>6, <2>7, <2>9 DEF yy, zz
    <3>3. a[k][yy] = a[k][zz]
      BY <2>2, <3>2
    <3>4. yy = zz
      BY <2>5, <3>1, <3>3 DEF Injective
    <3> QED BY <3>4 DEF yy, zz
  <2>11. y = z
    BY <2>4, <2>10
  <2>12. a[m] = c[m]
    BY <2>1, <2>2, <2>3, <2>11
  <2>13. \A j \in 1..m : p[j] = q[j]
    <3>1. \A j \in 1..m : j \in 1..k \/ j = m
      BY <2>1
    <3>2. p[m] = q[m]
      BY <2>11 DEF y, z
    <3> HIDE DEF m
    <3> QED BY <2>2, <3>1, <3>2
  <2> QED BY <2>12, <2>13
<1>3. S \in SUBSET Nat
  OBVIOUS
<1> HIDE DEF S
<1>4. S = Nat
  BY <1>1, <1>2, <1>3, NumberInduction
<1>5. n - 1 \in Nat
  OBVIOUS
<1> QED BY <1>4, <1>5 DEF S

-----------------------------------------------------------------------------
(* How many swaps of a side have been applied, and that they are those     *)
(* sampled for it.                                                         *)
Spent(s) ==
  IF phase = <<"apply", s>> THEN step
  ELSE IF phase[1] = "done" \/ (phase = <<"apply", "outs">> /\ s = "ins") THEN count[s] - 1
  ELSE 0

Traces(s) ==
  /\ Len(sampled[s]) = Len(swaps[s])
  /\ \A k \in 1..Len(swaps[s]) :
       sampled[s][k] <= count[s] - k /\ (k > Spent(s) => swaps[s][k] = sampled[s][k])
  /\ values[s] = AfterSwaps(count[s], sampled[s])[Spent(s)]

Traced == phase[1] # "failed" => \A s \in Sides : Traces(s)

LEMMA CountsAreNumbers ==
  ASSUME IInv, NEW s \in Sides
  PROVE  /\ count[s] \in Nat \ {0}
         /\ swaps[s] \in Seq(Nat) /\ Len(swaps[s]) \in Nat /\ DOMAIN swaps[s] = 1..Len(swaps[s])
         /\ sampled[s] \in Seq(Nat) /\ Len(sampled[s]) \in Nat
         /\ DOMAIN sampled[s] = 1..Len(sampled[s])
  BY LayoutAssumption DEF IInv, TypeOK

LEMMA InitTraces == Init => Traced
<1> SUFFICES ASSUME Init, NEW s \in Sides PROVE Traces(s)
  BY DEF Traced
<1>1. count[s] \in Nat \ {0} /\ swaps[s] = << >> /\ sampled[s] = << >> /\ Spent(s) = 0
  BY LayoutAssumption DEF Init, Spent
<1>2. values[s] = [i \in 1..count[s] |-> i]
  BY DEF Init
<1>3. values[s] = AfterSwaps(count[s], sampled[s])[0]
  BY <1>1, <1>2, SwapByStep
<1> QED BY <1>1, <1>3 DEF Traces

LEMMA DrawTraces ==
  ASSUME IInv, Traced, NEW s \in Sides, NEW d \in 0..(Draws - 1), Draw(s, d)
  PROVE  Traced'
<1>1. /\ count' = count /\ phase' = phase /\ values' = values /\ step' = step
      /\ phase = <<"fill", s>> /\ \A x \in Sides : Traces(x)
  BY DEF Draw, Traced
<1>2. \A x \in Sides : Spent(x) = 0 /\ Spent(x)' = 0
  BY <1>1 DEF Spent, Sides
<1>3. CASE UNCHANGED <<swaps, sampled>>
  BY <1>1, <1>2, <1>3 DEF Traced, Traces
<1>4. CASE ~ UNCHANGED <<swaps, sampled>>
  <2> DEFINE v == Index(s, d)
             more == Append(swaps[s], v)
             seen == Append(sampled[s], v)
             n == Len(swaps[s])
  <2>1. swaps' = [swaps EXCEPT ![s] = more] /\ sampled' = [sampled EXCEPT ![s] = seen]
    BY <1>4 DEF Draw
  <2>2. swaps \in [Sides -> Seq(Nat)] /\ sampled \in [Sides -> Seq(Nat)]
    BY DEF IInv, TypeOK
  <2>3. v \in Nat /\ v <= count[s] - (n + 1) /\ n \in Nat
    <3>1. count[s] \in Nat /\ n \in Nat /\ Bound(s) \in 2..MaxBound
      BY CountsAreNumbers DEF Draw
    <3>2. v \in 0..(Bound(s) - 1)
      BY <3>1, IndexBelowBound, LayoutAssumption DEF Index
    <3> HIDE DEF v, n
    <3> QED BY <3>1, <3>2, LayoutAssumption DEF Bound, n
  <2>4. ASSUME NEW x \in Sides PROVE Traces(x)'
    <3>1. Traces(x)
      BY <1>1
    <3>2. CASE x # s
      <4>1. swaps'[x] = swaps[x] /\ sampled'[x] = sampled[x]
        BY <2>1, <2>2, <3>2
      <4> QED BY <1>1, <1>2, <3>1, <4>1 DEF Traces
    <3>3. CASE x = s
      <4>1. swaps'[x] = more /\ sampled'[x] = seen
        BY <2>1, <2>2, <3>3
      <4>2. /\ swaps[s] \in Seq(Nat) /\ sampled[s] \in Seq(Nat) /\ Len(sampled[s]) = n
        BY <2>2, <3>1, <3>3 DEF Traces
      <4>3. \A k \in 1..n : sampled[s][k] <= count[s] - k /\ swaps[s][k] = sampled[s][k]
        BY <1>2, <3>1, <3>3 DEF Traces
      <4> HIDE DEF v
      <4>4. /\ Len(more) = n + 1 /\ Len(seen) = n + 1
            /\ more[n + 1] = v /\ seen[n + 1] = v
            /\ \A k \in 1..n : more[k] = swaps[s][k] /\ seen[k] = sampled[s][k]
        BY <2>3, <4>2
      <4> HIDE DEF more, seen, n
      <4>5. \A k \in 1..(n + 1) : k \in 1..n \/ k = n + 1
        BY <2>3
      <4>6. \A k \in 1..(n + 1) : seen[k] <= count[s] - k /\ more[k] = seen[k]
        BY <2>3, <4>3, <4>4, <4>5
      <4>7. values[s] = AfterSwaps(count[s], seen)[0]
        <5>1. count[s] \in Nat \ {0} /\ values[s] = [i \in 1..count[s] |-> i]
          BY <1>1, CountsAreNumbers DEF IInv, Progress, Identity
        <5> QED BY <5>1, SwapByStep
      <4> QED BY <1>1, <1>2, <3>3, <4>1, <4>4, <4>6, <4>7 DEF Traces
    <3> QED BY <3>2, <3>3
  <2> QED BY <2>4 DEF Traced
<1> QED BY <1>3, <1>4

LEMMA TurnTraces ==
  ASSUME IInv, Traced, NEW s \in Sides, Turn(s)
  PROVE  Traced'
<1>1. /\ UNCHANGED <<count, swaps, values, step, sampled>> /\ phase = <<"fill", s>>
      /\ phase' = IF s = "ins" THEN <<"fill", "outs">> ELSE <<"apply", "ins">>
      /\ step = 0 /\ \A x \in Sides : Traces(x)
  BY DEF Turn, IInv, Progress, Traced
<1>2. \A x \in Sides : Spent(x) = 0 /\ Spent(x)' = 0
  BY <1>1 DEF Spent, Sides
<1> QED BY <1>1, <1>2 DEF Traced, Traces

LEMMA SwapTraces ==
  ASSUME IInv, Traced, NEW s \in Sides, Swap(s)
  PROVE  Traced'
<1> DEFINE k == step + 1
           n == count[s]
           p == sampled[s]
<1>1. /\ count' = count /\ phase' = phase /\ sampled' = sampled
      /\ phase = <<"apply", s>> /\ step' = k /\ step < Len(swaps[s])
      /\ values' = [values EXCEPT ![s] = Swapped(values[s], Place(s), swaps[s][k] + 1)]
      /\ swaps' = [swaps EXCEPT ![s][k] = 0]
      /\ \A x \in Sides : Traces(x)
  BY DEF Swap, Traced
<1>2. /\ n \in Nat \ {0} /\ step \in Nat /\ swaps[s] \in Seq(Nat) /\ Len(swaps[s]) = n - 1
      /\ Len(p) = n - 1
      /\ swaps \in [Sides -> Seq(Nat)] /\ DOMAIN values = Sides
  <2>1. /\ n \in Nat \ {0} /\ swaps[s] \in Seq(Nat)
    BY CountsAreNumbers
  <2>2. Len(swaps[s]) = n - 1
    BY <1>1 DEF IInv, Progress
  <2>3. Len(p) = n - 1
    BY <1>1, <2>2 DEF Traces
  <2>4. swaps \in [Sides -> Seq(Nat)] /\ DOMAIN values = Sides
    BY DEF IInv, TypeOK
  <2>5. step \in Nat
    BY DEF IInv, TypeOK
  <2> QED BY <2>1, <2>2, <2>3, <2>4, <2>5
<1>3. k \in 1..(n - 1) /\ k - 1 = step /\ k > step
  BY <1>1, <1>2
<1>4. Spent(s) = step /\ Spent(s)' = k
  BY <1>1 DEF Spent
<1>5. /\ swaps[s][k] = p[k] /\ values[s] = AfterSwaps(n, p)[step]
      /\ \A j \in 1..(n - 1) : p[j] <= n - j /\ (j > step => swaps[s][j] = p[j])
  BY <1>1, <1>2, <1>3, <1>4 DEF Traces
<1>6. values'[s] = AfterSwaps(n, p)[k]
  <2>1. values'[s] = Swapped(AfterSwaps(n, p)[step], n - step, p[k] + 1)
    BY <1>1, <1>2, <1>5 DEF Place
  <2>2. AfterSwaps(n, p)[k] = Swapped(AfterSwaps(n, p)[k - 1], n - k + 1, p[k] + 1)
    <3> HIDE DEF k, n, p
    <3>1. \A x \in 1..(n - 1) :
            AfterSwaps(n, p)[x] = Swapped(AfterSwaps(n, p)[x - 1], n - x + 1, p[x] + 1)
      BY <1>2, SwapByStep
    <3> QED BY <1>3, <3>1
  <2>3. n - k + 1 = n - step
    BY <1>2
  <2> QED BY <1>3, <2>1, <2>2, <2>3
<1> HIDE DEF k
<1>7. swaps'[s] = [swaps[s] EXCEPT ![k] = 0]
  BY <1>1, <1>2
<1>8. Len(swaps'[s]) = n - 1 /\ \A j \in 1..(n - 1) : j > k => swaps'[s][j] = swaps[s][j]
  <2>1. k \in 1..Len(swaps[s])
    BY <1>2, <1>3
  <2> QED BY <1>2, <1>7, <2>1
<1>9. Traces(s)'
  <2>1. \A j \in 1..(n - 1) : j > k => j > step
    BY <1>2, <1>3
  <2>2. \A j \in 1..(n - 1) : p[j] <= n - j /\ (j > k => swaps'[s][j] = p[j])
    BY <1>5, <1>8, <2>1
  <2> QED BY <1>1, <1>2, <1>4, <1>6, <1>8, <2>2 DEF Traces
<1>10. ASSUME NEW x \in Sides, x # s PROVE Traces(x)'
  <2>1. Spent(x)' = Spent(x)
    BY <1>1, <1>10 DEF Spent
  <2>2. swaps'[x] = swaps[x] /\ values'[x] = values[x]
    BY <1>1, <1>2, <1>10
  <2> QED BY <1>1, <2>1, <2>2 DEF Traces
<1> QED BY <1>9, <1>10 DEF Traced

LEMMA AppliedTraces ==
  ASSUME IInv, Traced, NEW s \in Sides, Applied(s)
  PROVE  Traced'
<1>1. /\ UNCHANGED <<count, swaps, values, sampled>> /\ step' = 0
      /\ phase = <<"apply", s>> /\ step = Len(swaps[s]) /\ Len(swaps[s]) = count[s] - 1
      /\ phase' = IF s = "ins" THEN <<"apply", "outs">> ELSE <<"done", "both">>
      /\ \A x \in Sides : Traces(x)
  BY DEF Applied, IInv, Progress, Traced
<1>2. \A x \in Sides : Spent(x)' = Spent(x)
  BY <1>1 DEF Spent, Sides
<1> QED BY <1>1, <1>2 DEF Traced, Traces

LEMMA TracedKept == IInv /\ Traced /\ [Next]_vars => Traced'
<1> SUFFICES ASSUME IInv, Traced, [Next]_vars PROVE Traced'
  OBVIOUS
<1>1. CASE UNCHANGED vars
  BY <1>1 DEF vars, Traced, Traces, Spent
<1>2. ASSUME NEW s \in Sides, GiveUp(s) PROVE Traced'
  BY <1>2 DEF GiveUp, Traced
<1>3. ASSUME NEW s \in Sides, Advance(s) PROVE Traced'
  BY <1>2, <1>3, DrawTraces, TurnTraces, SwapTraces, AppliedTraces DEF Advance
<1> QED BY <1>1, <1>3 DEF Next

(* Every index is drawn for evenly, and every order of a side comes from   *)
(* one plan alone: the last swap into a place tells which index was        *)
(* sampled for it, place by place.                                         *)
THEOREM LayoutFavoursNone == Spec => []LayoutIsEven
<1>1. IInv => DrawsAreEven
  <2> SUFFICES ASSUME NEW s \in Sides, Bound(s) \in 2..MaxBound
               PROVE  LET Reaching(r) == {d \in 0..(Draws - 1) : Accepts(d, Bound(s))
                                                                  /\ Index(s, d) = r}
                      IN  /\ Reaching(0) # {}
                          /\ \A r \in 0..(Bound(s) - 1) :
                               Cardinality(Reaching(r)) = Cardinality(Reaching(0))
    BY DEF DrawsAreEven
  <2> DEFINE b == Bound(s)
  <2>1. \A r : {d \in 0..(Draws - 1) : Accepts(d, b) /\ Index(s, d) = r} = Reached(r, b)
    BY DEF Reached, Index
  <2>2. /\ Reached(0, b) # {}
        /\ \A r \in 0..(b - 1) : Cardinality(Reached(r, b)) = Cardinality(Reached(0, b))
    <3> HIDE DEF b
    <3>1. b \in 2..MaxBound
      BY DEF b
    <3> QED BY <3>1, EvenlyReached
  <2> QED BY <2>1, <2>2
<1>2. IInv /\ Traced => OrderHasOnePlan
  <2> SUFFICES ASSUME IInv, Traced, phase[1] = "done", NEW s \in Sides
               PROVE  {q \in Plans(count[s]) : PermutedBy(count[s], q) = values[s]}
                        = {sampled[s]}
    BY DEF OrderHasOnePlan
  <2> DEFINE n == count[s]
             p == sampled[s]
  <2>1. n \in Nat \ {0} /\ p \in Seq(Nat) /\ Traces(s) /\ Len(swaps[s]) = n - 1
    BY CountsAreNumbers DEF Traced, IInv, Progress
  <2>2. Spent(s) = n - 1 /\ Len(p) = n - 1
    BY <2>1 DEF Spent, Traces
  <2>3. DOMAIN p = 1..(n - 1) /\ \A k \in 1..(n - 1) : p[k] \in Nat /\ p[k] <= n - k
    BY <2>1, <2>2 DEF Traces
  <2>4. values[s] = PermutedBy(n, p)
    <3>1. values[s] = AfterSwaps(n, p)[n - 1]
      BY <2>1, <2>2 DEF Traces
    <3> HIDE DEF n, p
    <3> QED BY <2>1, <3>1, SwapByStep
  <2> HIDE DEF n, p
  <2>5. p \in Plans(n)
    <3>1. \A k \in 1..(n - 1) : p[k] \in 0..(n - 1)
      BY <2>1, <2>3
    <3>2. p \in [1..(n - 1) -> 0..(n - 1)]
      <4>1. p = [k \in 1..(n - 1) |-> p[k]]
        BY <2>1, <2>3
      <4> QED BY <3>1, <4>1
    <3> QED BY <2>3, <3>2 DEF Plans
  <2>6. ASSUME NEW q \in Plans(n), PermutedBy(n, q) = values[s] PROVE q = p
    <3>1. q \in [1..(n - 1) -> 0..(n - 1)] /\ \A k \in 1..(n - 1) : q[k] <= n - k
      BY DEF Plans
    <3>2. IsPlan(n, q) /\ IsPlan(n, p)
      BY <2>3, <3>1 DEF IsPlan
    <3>3. PermutedBy(n, q) = PermutedBy(n, p)
      BY <2>4, <2>6
    <3>4. \A k \in 1..(n - 1) : q[k] = p[k]
      BY <2>1, <3>2, <3>3, OrderTellsPlan
    <3>5. p \in [1..(n - 1) -> 0..(n - 1)]
      BY <2>5 DEF Plans
    <3>6. /\ q = [k \in 1..(n - 1) |-> q[k]]
          /\ p = [k \in 1..(n - 1) |-> p[k]]
      BY <3>1, <3>5
    <3>7. [k \in 1..(n - 1) |-> q[k]] = [k \in 1..(n - 1) |-> p[k]]
      BY <3>4
    <3> QED BY <3>6, <3>7
  <2> QED BY <2>4, <2>5, <2>6 DEF n, p
<1> QED BY <1>1, <1>2, LayoutInductive, InitTraces, TracedKept, PTL DEF Spec, LayoutIsEven

-----------------------------------------------------------------------------
-----------------------------------------------------------------------------
(***************************************************************************)
(* BufferedCall.                                                           *)
(***************************************************************************)
Positions == {"idle", "checks", "work", "published", "ending", "returned"}

BufferTypeOK ==
  /\ entry \in Entries /\ pc \in Positions
  /\ draws \in Nat /\ cap \in Nat /\ length \in Nat /\ reported \in Nat
  /\ sizes \in [0..Cardinality(Seeds) -> Nat \ {0}]
  /\ seed \in Seeds
  /\ rng \in [seed : Seeds, reseeds : Nat, counter : Nat]
  /\ stream \in Seq(Seeds \X Nat \X Nat)

(* Blocks are drawn in the order of reseeds and, between two, of counters. *)
Earlier(r, c, reseeds, counter) == r < reseeds \/ (r = reseeds /\ c < counter)
StreamInv ==
  /\ \A i \in DOMAIN stream : Earlier(stream[i][2], stream[i][3], rng.reseeds, rng.counter)
  /\ \A i, j \in DOMAIN stream :
       i < j => Earlier(stream[i][2], stream[i][3], stream[j][2], stream[j][3])
  /\ pc # "idle" => IF stream = << >> THEN rng = NewRng(seed) ELSE stream[1] = <<seed, 0, 0>>

(* What a call leaves behind at each of its positions. The size of an      *)
(* answer is known from the request before it is made.                     *)
Untold == IF reported = 0 THEN Stale ELSE reported
Expected == sizes[IF draws = 0 THEN 0 ELSE seed % (Cardinality(Seeds) + 1)]
Untouched == buffer = << >> /\ (entry = "sign" => length = Untold)
Told == /\ length = Size /\ Len(stream) = draws
        /\ entry \in Answers => length <= MaxResponse

CallInv ==
  /\ pc = "idle" /\ entry = "sign" => length = Untold
  /\ pc \in {"checks", "work"} => Untouched /\ (entry \in Answers => length = 0)
  /\ pc = "checks" => stream = << >>
  /\ pc = "work" => Len(stream) <= draws
  /\ pc = "published" => Told /\ buffer = << >>
  /\ pc \in {"ending", "returned"} =>
       CASE status = "OK" -> Told /\ length <= cap /\ buffer = <<stream, length>>
         [] status = "OUTPUT_CAPACITY" -> Told /\ length > cap /\ buffer = << >>
         [] OTHER -> Untouched
  /\ pc = "returned" /\ entry \in Answers /\ status \notin {"OK", "OUTPUT_CAPACITY"} => length = 0
  /\ entry \in Answers /\ reported > 0 => reported = Expected /\ cap = reported

BufferInv == BufferTypeOK /\ StreamInv /\ CallInv

-----------------------------------------------------------------------------
LEMMA SeedsAreCounted == Cardinality(Seeds) \in Nat
  BY CallAssumption, FS_CardinalityType

LEMMA EarlierIsTransitive ==
  \A r1, c1, r2, c2, r3, c3 \in Nat :
    Earlier(r1, c1, r2, c2) /\ Earlier(r2, c2, r3, c3) => Earlier(r1, c1, r3, c3)
  BY DEF Earlier

LEMMA ModuloIsBelow ==
  ASSUME NEW a \in Nat, NEW n \in Nat
  PROVE  a % (n + 1) \in 0..n
  OBVIOUS

LEMMA SmallestExists ==
  ASSUME NEW S, S \subseteq 1..9, S # {}
  PROVE  Min(S) \in S
<1> DEFINE HasLeast == \E x \in S : \A y \in S : x <= y
<1>1. S \subseteq 9..9 => HasLeast
  <2> SUFFICES ASSUME S \subseteq 9..9 PROVE HasLeast
    OBVIOUS
  <2>1. \A y \in S : y = 9
    OBVIOUS
  <2>2. PICK x \in S : TRUE
    OBVIOUS
  <2>3. \A y \in S : x <= y
    BY <2>1, <2>2
  <2> QED BY <2>2, <2>3
<1>2. S \subseteq 8..9 => HasLeast
  <2>1. CASE 8 \in S  BY <2>1
  <2>2. CASE 8 \notin S  BY <2>2, <1>1
  <2> QED BY <2>1, <2>2
<1>3. S \subseteq 7..9 => HasLeast
  <2>1. CASE 7 \in S  BY <2>1
  <2>2. CASE 7 \notin S  BY <2>2, <1>2
  <2> QED BY <2>1, <2>2
<1>4. S \subseteq 6..9 => HasLeast
  <2>1. CASE 6 \in S  BY <2>1
  <2>2. CASE 6 \notin S  BY <2>2, <1>3
  <2> QED BY <2>1, <2>2
<1>5. S \subseteq 5..9 => HasLeast
  <2>1. CASE 5 \in S  BY <2>1
  <2>2. CASE 5 \notin S  BY <2>2, <1>4
  <2> QED BY <2>1, <2>2
<1>6. S \subseteq 4..9 => HasLeast
  <2>1. CASE 4 \in S  BY <2>1
  <2>2. CASE 4 \notin S  BY <2>2, <1>5
  <2> QED BY <2>1, <2>2
<1>7. S \subseteq 3..9 => HasLeast
  <2>1. CASE 3 \in S  BY <2>1
  <2>2. CASE 3 \notin S  BY <2>2, <1>6
  <2> QED BY <2>1, <2>2
<1>8. S \subseteq 2..9 => HasLeast
  <2>1. CASE 2 \in S  BY <2>1
  <2>2. CASE 2 \notin S  BY <2>2, <1>7
  <2> QED BY <2>1, <2>2
<1>9. S \subseteq 1..9 => HasLeast
  <2>1. CASE 1 \in S  BY <2>1
  <2>2. CASE 1 \notin S  BY <2>2, <1>8
  <2> QED BY <2>1, <2>2
<1> QED BY <1>9 DEF Min

(* A check that fails gives a status that is neither of the two that speak *)
(* of an answer.                                                           *)
LEMMA ChecksRefuse ==
  ASSUME entry \in Entries, Failed # {}
  PROVE  Checks(entry)[Min(Failed)][2] \notin {"OK", "OUTPUT_CAPACITY"}
<1>1. CASE entry = "wlcj"
  <2>1. DOMAIN Checks(entry) = 1..9  BY <1>1 DEF Checks
  <2>2. Min(Failed) \in 1..9  BY <2>1, SmallestExists DEF Failed
  <2> QED BY <1>1, <2>2 DEF Checks
<1>2. CASE entry = "facts"
  <2>1. DOMAIN Checks(entry) = 1..8  BY <1>2 DEF Checks
  <2>2. Failed \subseteq 1..8 /\ Failed \subseteq 1..9  BY <2>1 DEF Failed
  <2>3. Min(Failed) \in 1..8  BY <2>2, SmallestExists
  <2>4. \A i \in 1..8 : Checks(entry)[i][2] \notin {"OK", "OUTPUT_CAPACITY"}
    <3>1. /\ Checks(entry)[1][2] = "INVALID_ARGUMENT" /\ Checks(entry)[2][2] = "INVALID_ARGUMENT"
          /\ Checks(entry)[3][2] = "LIMIT_EXCEEDED" /\ Checks(entry)[4][2] = "INVALID_ARGUMENT"
      BY <1>2 DEF Checks
    <3>2. /\ Checks(entry)[5][2] = "INVALID_ENCODING" /\ Checks(entry)[6][2] = "SOURCE_BINDING_MISMATCH"
          /\ Checks(entry)[7][2] = "INVALID_ENCODING" /\ Checks(entry)[8][2] = "OBSERVATION_REJECTED"
      BY <1>2 DEF Checks
    <3>3. \A i \in 1..8 : i \in {1, 2, 3, 4, 5, 6, 7, 8}
      OBVIOUS
    <3> QED BY <3>1, <3>2, <3>3
  <2> QED BY <2>3, <2>4
<1>3. CASE entry = "sign"
  <2>1. DOMAIN Checks(entry) = 1..7  BY <1>3 DEF Checks
  <2>2. Failed \subseteq 1..7 /\ Failed \subseteq 1..9  BY <2>1 DEF Failed
  <2>3. Min(Failed) \in 1..7  BY <2>2, SmallestExists
  <2> QED BY <1>3, <2>3 DEF Checks
<1> QED BY <1>1, <1>2, <1>3 DEF Entries

(* The size of a complete answer is that of the request.                   *)
LEMMA SizeIsExpected ==
  ASSUME BufferTypeOK, StreamInv, pc # "idle", Len(stream) = draws
  PROVE  Size = Expected /\ Size \in Nat \ {0}
<1>1. CASE stream = << >>
  <2>1. draws = 0  BY <1>1
  <2> QED BY <1>1, <2>1, SeedsAreCounted DEF Size, Expected, BufferTypeOK
<1>2. CASE stream # << >>
  <2>1. stream[1] = <<seed, 0, 0>> /\ draws # 0
    BY <1>2 DEF StreamInv, BufferTypeOK
  <2>2. seed \in Nat  BY CallAssumption DEF BufferTypeOK
  <2>3. stream[1][1] + stream[1][2] + stream[1][3] = seed  BY <2>1, <2>2
  <2>4. seed % (Cardinality(Seeds) + 1) \in 0..Cardinality(Seeds)
    BY <2>2, SeedsAreCounted, ModuloIsBelow
  <2> QED BY <1>2, <2>1, <2>3, <2>4 DEF Size, Expected, BufferTypeOK
<1> QED BY <1>1, <1>2

-----------------------------------------------------------------------------
LEMMA BufferInitially == BufferInit => BufferInv
<1> SUFFICES ASSUME BufferInit PROVE BufferInv
  OBVIOUS
<1>1. BufferTypeOK
  BY CallAssumption DEF BufferInit, BufferTypeOK, Positions, NewRng, Stale
<1>2. StreamInv
  BY DEF BufferInit, StreamInv
<1>3. CallInv
  BY DEF BufferInit, CallInv, Untold
<1> QED BY <1>1, <1>2, <1>3 DEF BufferInv

LEMMA EnterKeepsInv == BufferInv /\ Enter => BufferInv'
<1> SUFFICES ASSUME BufferInv, Enter PROVE BufferInv'
  OBVIOUS
<1> USE DEF BufferInv, Enter, request
<1>1. BufferTypeOK'
  BY CallAssumption DEF BufferTypeOK, Positions, RngOfCall, NewRng
<1>2. StreamInv'
  BY DEF StreamInv, RngOfCall
<1>3. CallInv'
  BY DEF CallInv, Untouched, Untold, Expected, Answers
<1> QED BY <1>1, <1>2, <1>3

LEMMA CheckKeepsInv == BufferInv /\ Check => BufferInv'
<1> SUFFICES ASSUME BufferInv, Check PROVE BufferInv'
  OBVIOUS
<1> USE DEF BufferInv, Check, request
<1>1. BufferTypeOK'
  BY DEF BufferTypeOK, Positions
<1>2. StreamInv'
  BY DEF StreamInv
<1>3. CallInv'
  <2>1. Untouched' /\ (entry' \in Answers => length' = 0)
    BY DEF CallInv, Untouched, Untold
  <2>2. CASE Failed = {}
    <3>1. Len(stream) <= draws
      BY DEF CallInv, BufferTypeOK
    <3> QED BY <2>1, <2>2, <3>1 DEF CallInv, Expected
  <2>3. CASE Failed # {}
    <3>1. status' \notin {"OK", "OUTPUT_CAPACITY"}
      BY <2>3, ChecksRefuse DEF BufferTypeOK
    <3> QED BY <2>1, <2>3, <3>1 DEF CallInv, Expected
  <2> QED BY <2>2, <2>3
<1> QED BY <1>1, <1>2, <1>3

LEMMA DrawKeepsInv == BufferInv /\ DrawBlock => BufferInv'
<1> SUFFICES ASSUME BufferInv, DrawBlock PROVE BufferInv'
  OBVIOUS
<1> USE DEF BufferInv, DrawBlock, request
<1>1. BufferTypeOK'
  <2>1. Block(rng) \in Seeds \X Nat \X Nat
    BY DEF BufferTypeOK, Block
  <2>2. rng' \in [seed : Seeds, reseeds : Nat, counter : Nat]
    <3>1. rng' \in {ReseedFromOutput(rng), [rng EXCEPT !.counter = @ + 1]}
      BY DEF ReseedOrCount, CountThenReseed
    <3>2. rng \in [seed : Seeds, reseeds : Nat, counter : Nat]
      BY DEF BufferTypeOK
    <3>3. ReseedFromOutput(rng) \in [seed : Seeds, reseeds : Nat, counter : Nat]
      BY <3>2 DEF ReseedFromOutput
    <3>4. [rng EXCEPT !.counter = @ + 1] \in [seed : Seeds, reseeds : Nat, counter : Nat]
      BY <3>2
    <3> QED BY <3>1, <3>3, <3>4
  <2> QED BY <2>1, <2>2 DEF BufferTypeOK
<1>2. StreamInv'
  <2>1. Earlier(rng.reseeds, rng.counter, rng'.reseeds, rng'.counter)
    BY DrbgAssumption DEF BufferTypeOK, Earlier, ReseedOrCount, CountThenReseed, ReseedFromOutput
  <2>2. /\ Len(stream') = Len(stream) + 1 /\ stream' \in Seq(Seeds \X Nat \X Nat)
        /\ \A i \in 1..Len(stream) : stream'[i] = stream[i]
        /\ stream'[Len(stream) + 1] = <<rng.seed, rng.reseeds, rng.counter>>
    BY <1>1 DEF BufferTypeOK, Block
  <2>3. ASSUME NEW i \in DOMAIN stream'
        PROVE  Earlier(stream'[i][2], stream'[i][3], rng'.reseeds, rng'.counter)
    <3>1. CASE i = Len(stream) + 1
      BY <2>1, <2>2, <3>1
    <3>2. CASE i \in 1..Len(stream)
      <4>1. Earlier(stream[i][2], stream[i][3], rng.reseeds, rng.counter)
        BY <3>2 DEF StreamInv, BufferTypeOK
      <4>2. stream[i] \in Seeds \X Nat \X Nat
        BY <3>2 DEF BufferTypeOK
      <4>3. /\ rng.reseeds \in Nat /\ rng.counter \in Nat
            /\ rng'.reseeds \in Nat /\ rng'.counter \in Nat
        BY <1>1 DEF BufferTypeOK
      <4>4. stream[i][2] \in Nat /\ stream[i][3] \in Nat /\ stream'[i] = stream[i]
        BY <2>2, <3>2, <4>2
      <4> QED BY <2>1, <4>1, <4>3, <4>4, EarlierIsTransitive
    <3> QED BY <2>2, <3>1, <3>2 DEF BufferTypeOK
  <2>4. ASSUME NEW i \in DOMAIN stream', NEW j \in DOMAIN stream', i < j
        PROVE  Earlier(stream'[i][2], stream'[i][3], stream'[j][2], stream'[j][3])
    <3>1. i \in 1..Len(stream) /\ i \in DOMAIN stream
      BY <2>2, <2>4 DEF BufferTypeOK
    <3>2. CASE j = Len(stream) + 1
      BY <2>2, <3>1, <3>2 DEF StreamInv
    <3>3. CASE j \in 1..Len(stream)
      <4>1. j \in DOMAIN stream
        BY <3>3 DEF BufferTypeOK
      <4> QED BY <2>2, <2>4, <3>1, <3>3, <4>1 DEF StreamInv
    <3> QED BY <2>2, <3>2, <3>3 DEF BufferTypeOK
  <2>5. stream' # << >> /\ stream'[1] = <<seed, 0, 0>>
    <3>1. CASE stream = << >>
      BY <2>2, <3>1 DEF StreamInv, NewRng
    <3>2. CASE stream # << >>
      <4>1. 1 \in 1..Len(stream)
        BY <3>2 DEF BufferTypeOK
      <4> QED BY <2>2, <3>2, <4>1 DEF StreamInv
    <3> QED BY <2>2, <3>1, <3>2 DEF BufferTypeOK
  <2> QED BY <2>3, <2>4, <2>5 DEF StreamInv
<1>3. CallInv'
  BY DEF CallInv, Untouched, Untold, Expected, BufferTypeOK
<1> QED BY <1>1, <1>2, <1>3

LEMMA RespondKeepsInv == BufferInv /\ Respond => BufferInv'
<1> SUFFICES ASSUME BufferInv, Respond PROVE BufferInv'
  OBVIOUS
<1> USE DEF BufferInv, Respond, request
<1>0. Size \in Nat
  BY SizeIsExpected
<1>1. BufferTypeOK'
  BY <1>0 DEF BufferTypeOK, Positions, Publish, PublishUnchecked
<1>2. StreamInv'
  BY DEF StreamInv, Publish, PublishUnchecked
<1>3. CallInv'
  <2>1. Untouched /\ Size' = Size
    BY DEF CallInv, Size
  <2>2. CASE entry \in Answers /\ Size > MaxResponse
    <3>1. status' \notin {"OK", "OUTPUT_CAPACITY"} /\ pc' = "ending" /\ length' = length
      BY <2>2 DEF Publish
    <3> QED BY <2>1, <3>1 DEF CallInv, Untouched, Untold, Expected
  <2>3. CASE ~(entry \in Answers /\ Size > MaxResponse)
    <3>1. pc' = "published" /\ length' = Size
      BY <2>3 DEF Publish, PublishUnchecked
    <3>2. entry \in Answers => Size <= MaxResponse
      BY <1>0, <2>3, CallAssumption
    <3> QED BY <2>1, <3>1, <3>2 DEF CallInv, Told, Untouched, Expected
  <2> QED BY <2>2, <2>3
<1> QED BY <1>1, <1>2, <1>3

LEMMA CopyKeepsInv == BufferInv /\ Copy => BufferInv'
<1> SUFFICES ASSUME BufferInv, Copy PROVE BufferInv'
  OBVIOUS
<1> USE DEF BufferInv, Copy, request
<1>1. BufferTypeOK'
  BY DEF BufferTypeOK, Positions
<1>2. StreamInv'
  BY DEF StreamInv
<1>3. CallInv'
  <2>1. Told /\ Told' /\ buffer = << >>
    BY DEF CallInv, Told, Size
  <2>2. Size \in Nat \ {0} /\ length = Size
    BY <2>1, SizeIsExpected DEF Told
  <2>3. CASE Fits
    BY <2>1, <2>2, <2>3 DEF CallInv, Fits, Expected
  <2>4. CASE ~Fits
    <3>1. length > cap
      BY <2>2, <2>4 DEF Fits, BufferTypeOK
    <3> QED BY <2>1, <2>4, <3>1 DEF CallInv, Expected
  <2> QED BY <2>3, <2>4
<1> QED BY <1>1, <1>2, <1>3

LEMMA PanicKeepsInv == BufferInv /\ Panic => BufferInv'
<1> SUFFICES ASSUME BufferInv, Panic PROVE BufferInv'
  OBVIOUS
<1> USE DEF BufferInv, Panic, request
<1>1. BufferTypeOK'
  BY DEF BufferTypeOK, Positions
<1>2. StreamInv'
  BY DEF StreamInv
<1>3. CallInv'
  <2>1. Untouched /\ Untouched'
    BY DEF CallInv, Untouched, Untold, Answers
  <2> QED BY <2>1 DEF CallInv, Expected
<1> QED BY <1>1, <1>2, <1>3

LEMMA EndKeepsInv == BufferInv /\ End => BufferInv'
<1> SUFFICES ASSUME BufferInv, End PROVE BufferInv'
  OBVIOUS
<1> USE DEF BufferInv, End, request
<1>1. BufferTypeOK'
  BY DEF BufferTypeOK, Positions, Normalized
<1>2. StreamInv'
  BY DEF StreamInv
<1>3. CallInv'
  <2>1. CASE status \in {"OK", "OUTPUT_CAPACITY"}
    <3>1. length' = length
      BY <2>1 DEF Normalized
    <3>2. Told' = Told
      BY <3>1 DEF Told, Size
    <3> QED BY <2>1, <3>1, <3>2 DEF CallInv, Expected
  <2>2. CASE status \notin {"OK", "OUTPUT_CAPACITY"}
    BY <2>2 DEF CallInv, Untouched, Untold, Expected, Normalized, Answers
  <2> QED BY <2>1, <2>2
<1> QED BY <1>1, <1>2, <1>3

LEMMA CallAgainKeepsInv == BufferInv /\ CallAgain => BufferInv'
<1> SUFFICES ASSUME BufferInv, CallAgain PROVE BufferInv'
  OBVIOUS
<1> USE DEF BufferInv, CallAgain, request
<1>1. BufferTypeOK'
  BY DEF BufferTypeOK, Positions
<1>2. StreamInv'
  BY DEF StreamInv
<1>3. CallInv'
  <2>1. Told /\ length > cap
    BY DEF CallInv
  <2>2. length = Expected
    BY <2>1, SizeIsExpected DEF Told
  <2>3. entry \in Answers => Expected' = Expected
    BY DEF Expected, Answers
  <2>4. length > 0
    BY <2>1 DEF BufferTypeOK
  <2> QED BY <2>1, <2>2, <2>3, <2>4 DEF CallInv, Untold
<1> QED BY <1>1, <1>2, <1>3

LEMMA BufferStep == BufferInv /\ [BufferNext]_bufferVars => BufferInv'
<1>1. BufferInv /\ UNCHANGED bufferVars => BufferInv'
  BY DEF bufferVars, BufferInv, BufferTypeOK, StreamInv, CallInv, Untouched, Untold, Told, Size,
         Expected
<1> QED
  BY <1>1, EnterKeepsInv, CheckKeepsInv, DrawKeepsInv, RespondKeepsInv, CopyKeepsInv,
     PanicKeepsInv, EndKeepsInv, CallAgainKeepsInv DEF BufferNext

-----------------------------------------------------------------------------
(* What a caller finds is whole: an answer and its size, the room it needs *)
(* and an untouched buffer, or nothing; and the room it was told suffices. *)
THEOREM OutcomesAreWhole == BufferSpec => []OutcomeIsWhole
<1>1. BufferInv => OutcomeIsWhole
  <2> SUFFICES ASSUME BufferInv, pc = "returned" PROVE OutcomeIsWhole
    BY DEF OutcomeIsWhole
  <2> USE DEF BufferInv
  <2>1. entry \in Answers => length <= MaxResponse
    BY CallAssumption DEF CallInv, Told
  <2>2. CASE status = "OK"
    <3>1. Told /\ length <= cap /\ buffer = <<stream, length>>
      BY <2>2 DEF CallInv
    <3>2. entry \in Answers /\ reported > 0 => length = reported
      BY <3>1, SizeIsExpected DEF Told, CallInv
    <3> QED BY <2>1, <2>2, <3>1, <3>2 DEF OutcomeIsWhole, Told
  <2>3. CASE status = "OUTPUT_CAPACITY"
    <3>1. Told /\ length > cap /\ buffer = << >>
      BY <2>3 DEF CallInv
    <3>2. ~(entry \in Answers /\ reported > 0)
      BY <3>1, SizeIsExpected DEF Told, CallInv, BufferTypeOK
    <3> QED BY <2>1, <2>3, <3>1, <3>2 DEF OutcomeIsWhole, Told
  <2>4. CASE status \notin {"OK", "OUTPUT_CAPACITY"}
    BY <2>1, <2>4 DEF OutcomeIsWhole, CallInv, Untouched, Untold
  <2> QED BY <2>2, <2>3, <2>4
<1> QED BY <1>1, BufferInitially, BufferStep, PTL DEF BufferSpec

(* No call draws a block twice, in either way of counting.                 *)
THEOREM BlocksNeverRepeat == BufferSpec => []BlocksAreFresh
<1>1. BufferInv => BlocksAreFresh
  <2> SUFFICES ASSUME BufferInv, NEW i \in DOMAIN stream, NEW j \in DOMAIN stream,
                      stream[i] = stream[j], i # j
               PROVE  FALSE
    BY DEF BlocksAreFresh, IsInjective
  <2>1. stream[i] \in Seeds \X Nat \X Nat /\ i \in Int /\ j \in Int
    BY DEF BufferInv, BufferTypeOK
  <2>2. Earlier(stream[i][2], stream[i][3], stream[j][2], stream[j][3])
        \/ Earlier(stream[j][2], stream[j][3], stream[i][2], stream[i][3])
    BY <2>1 DEF BufferInv, StreamInv
  <2> QED BY <2>1, <2>2 DEF Earlier
<1> QED BY <1>1, BufferInitially, BufferStep, PTL DEF BufferSpec

-----------------------------------------------------------------------------
(***************************************************************************)
(* LimbArithmetic: limbs and what they are worth.                          *)
(***************************************************************************)
(* Powers.                                                                 *)
LEMMA PowersAre ==
  ASSUME NEW x \in Int
  PROVE  /\ Powers(x) \in [Nat -> Int] /\ Powers(x)[0] = 1
         /\ \A n \in Nat : Powers(x)[n + 1] = x * Powers(x)[n]
<1> DEFINE rule == [t \in Nat \X Int |-> x * t[2]]
<1>1. PICK g : SolvesAll(Int, 1, rule, g)
  <2>1. \A i \in Nat, v \in Int : rule[<<i, v>>] \in Int
    OBVIOUS
  <2>2. 1 \in Int
    OBVIOUS
  <2> HIDE DEF rule
  <2> QED BY ONLY <2>1, <2>2, RecursionForAll, Zenon
<1>0. g \in [Nat -> Int] /\ g[0] = 1 /\ \A i \in Nat \ {0} : g[i] = rule[<<i, g[i - 1]>>]
  <2> HIDE DEF rule
  <2> QED BY <1>1 DEF SolvesAll
<1>2. ASSUME NEW i \in Nat PROVE g[i] = IF i = 0 THEN 1 ELSE x * g[i - 1]
  <2>1. CASE i # 0
    <3>1. i - 1 \in Nat /\ i \in Nat \ {0}
      BY <2>1
    <3>2. g[i] = rule[<<i, g[i - 1]>>] /\ g[i - 1] \in Int
      <4> HIDE DEF rule
      <4> QED BY <1>0, <3>1
    <3> DEFINE v == g[i - 1]
    <3>3. rule[<<i, v>>] = x * v
      <4> HIDE DEF v
      <4>1. v \in Int
        BY <3>2 DEF v
      <4> QED BY <4>1
    <3> QED BY <2>1, <3>2, <3>3
  <2> QED BY <1>0, <2>1
<1> DEFINE F(p) == [n \in Nat |-> IF n = 0 THEN 1 ELSE x * p[n - 1]]
<1>3. g = F(g)
  BY <1>0, <1>2
<1>4. Powers(x) = F(Powers(x))
  BY <1>3 DEF Powers
<1> DEFINE q == Powers(x)
<1>5. DOMAIN q = Nat /\ q = [n \in Nat |-> q[n]] /\ q[0] = 1 /\ \A n \in Nat : q[n + 1] = x * q[n]
  <2> HIDE DEF q
  <2>1. q = F(q)
    BY <1>4 DEF q
  <2>2. \A n \in Nat : n + 1 # 0 /\ (n + 1) - 1 = n /\ n + 1 \in Nat
    OBVIOUS
  <2>3. DOMAIN q = Nat
    BY <2>1
  <2>4. \A n \in Nat : q[n] = IF n = 0 THEN 1 ELSE x * q[n - 1]
    BY <2>1
  <2> QED BY <2>2, <2>3, <2>4, <2>1
<1> HIDE DEF q
<1> DEFINE S == {n \in Nat : q[n] \in Int}
<1>6. S = Nat
  <2>1. 0 \in S
    BY <1>5
  <2>2. ASSUME NEW n \in S PROVE n + 1 \in S
    <3>1. q[n + 1] = x * q[n] /\ q[n] \in Int
      BY <1>5
    <3> QED BY <3>1
  <2> HIDE DEF S
  <2>3. S \in SUBSET Nat
    BY DEF S
  <2> QED BY <2>1, <2>2, <2>3, NumberInduction
<1>7. q \in [Nat -> Int]
  BY <1>5, <1>6
<1> QED BY <1>5, <1>7 DEF q

(* Powers of what is positive are positive.                                *)
LEMMA PowersPositive ==
  ASSUME NEW x \in Nat \ {0}
  PROVE  \A n \in Nat : Powers(x)[n] \in Nat \ {0}
<1> DEFINE q == Powers(x)
<1>1. q[0] = 1 /\ \A n \in Nat : q[n + 1] = x * q[n]
  BY PowersAre
<1> HIDE DEF q
<1> DEFINE S == {n \in Nat : q[n] \in Nat \ {0}}
<1>2. S = Nat
  <2>1. 0 \in S
    BY <1>1
  <2>2. ASSUME NEW n \in S PROVE n + 1 \in S
    <3>1. q[n + 1] = x * q[n] /\ q[n] \in Nat \ {0} /\ n + 1 \in Nat
      BY <1>1
    <3> DEFINE y == q[n]
    <3>2. x * y \in Nat \ {0}
      <4> HIDE DEF y
      <4>1. y \in Nat /\ y >= 1 /\ x \in Nat /\ x >= 1
        BY <3>1 DEF y
      <4>2. x * y \in Nat /\ x * y >= y
        BY <4>1
      <4> QED BY <4>1, <4>2
    <3> QED BY <3>1, <3>2
  <2> HIDE DEF S
  <2>3. S \in SUBSET Nat
    BY DEF S
  <2> QED BY <2>1, <2>2, <2>3, NumberInduction
<1> QED BY <1>2 DEF q

(* The base and what a limb weighs.                                        *)
Weight(i) == Powers(Base)[i]
Half == Powers(2)[WordBits - 1]
LEMMA BaseIs == /\ Base \in Nat /\ Base >= 2 /\ Base = 2 * Half /\ Half \in Nat /\ Half >= 1
                /\ Word = 0..(Base - 1)
<1>1. \A n \in Nat : Powers(2)[n] \in Nat \ {0}
  BY PowersPositive
<1>2. WordBits - 1 \in Nat /\ WordBits = (WordBits - 1) + 1
  BY LimbAssumption
<1>3. Powers(2)[WordBits] = 2 * Powers(2)[WordBits - 1]
  <2>1. 2 \in Int
    OBVIOUS
  <2>2. \A n \in Nat : Powers(2)[n + 1] = 2 * Powers(2)[n]
    BY <2>1, PowersAre, Zenon
  <2> QED BY <1>2, <2>2
<1>4. Half \in Nat \ {0}
  BY <1>1, <1>2 DEF Half
<1>5. Base = 2 * Half
  BY <1>3 DEF Base, Half
<1> QED BY <1>4, <1>5 DEF Word

(* A limb weighs as much as a full limb below it and one more.             *)
LEMMA Weights ==
  /\ Weight(0) = 1
  /\ \A i \in Nat : Weight(i) \in Nat /\ Weight(i) > 0 /\ Weight(i + 1) = Base * Weight(i)
<1>1. Base \in Nat \ {0} /\ Base \in Int
  BY BaseIs
<1>2. Powers(Base)[0] = 1 /\ \A n \in Nat : Powers(Base)[n + 1] = Base * Powers(Base)[n]
  BY <1>1, PowersAre, Zenon
<1>3. \A n \in Nat : Powers(Base)[n] \in Nat \ {0}
  BY <1>1, PowersPositive, Zenon
<1>4. \A n \in Nat : Powers(Base)[n] > 0
  BY <1>3
<1> QED BY <1>2, <1>3, <1>4 DEF Weight

(* What the first limbs are worth.                                         *)
Weighted(a) == [i \in DOMAIN a |-> a[i] * Powers(Base)[i]]
Prefix(a, k) == SumFunctionOnSet(Weighted(a), 0..(k - 1))

(* A function whose first k values are numbers.                            *)
Digits(a, k) == 0..(k - 1) \subseteq DOMAIN a /\ \A i \in 0..(k - 1) : a[i] \in Nat

(* No limbs are worth nothing.                                             *)
LEMMA PrefixOfNone == ASSUME NEW a PROVE Prefix(a, 0) = 0
<1>1. 0..(0 - 1) = {}
  OBVIOUS
<1> QED BY <1>1, SumOfNothing DEF Prefix

(* One more limb adds what it is worth.                                    *)
LEMMA PrefixStep ==
  ASSUME NEW k \in Nat, NEW a, Digits(a, k), NEW i \in Nat, i < k
  PROVE  /\ Prefix(a, i) \in Nat /\ Prefix(a, i + 1) \in Nat
         /\ Prefix(a, i + 1) = Prefix(a, i) + a[i] * Weight(i)
<1> DEFINE w == Weighted(a)
<1>1. ASSUME NEW j \in 0..(k - 1) PROVE w[j] \in Nat /\ w[j] = a[j] * Weight(j)
  <2>1. j \in DOMAIN a /\ a[j] \in Nat /\ j \in Nat
    BY DEF Digits
  <2>2. w[j] = a[j] * Weight(j)
    BY <2>1 DEF Weighted, Weight
  <2>3. Weight(j) \in Nat
    BY <2>1, Weights
  <2> DEFINE x == a[j]  y == Weight(j)
  <2>4. x \in Nat /\ y \in Nat
    BY <2>1, <2>3
  <2>5. x * y \in Nat
    <3> HIDE DEF x, y
    <3> QED BY <2>4
  <2> QED BY <2>2, <2>5
<1> HIDE DEF w
<1>2. 0..((i + 1) - 1) = (0..(i - 1)) \cup {i} /\ i \notin 0..(i - 1) /\ i \in 0..(k - 1)
  OBVIOUS
<1>3. IsFiniteSet(0..(i - 1))
  BY FS_Interval
<1>4. \A j \in (0..(i - 1)) \cup {i} : w[j] \in Int /\ w[j] \in Nat
  BY <1>1
<1>5. SumFunctionOnSet(w, (0..(i - 1)) \cup {i}) = w[i] + SumFunctionOnSet(w, 0..(i - 1))
  BY <1>2, <1>3, <1>4, SumGrows
<1>6. SumFunctionOnSet(w, 0..(i - 1)) \in Nat
  BY <1>3, <1>4, SumOfNaturals
<1>7. Prefix(a, i) = SumFunctionOnSet(w, 0..(i - 1))
      /\ Prefix(a, i + 1) = SumFunctionOnSet(w, (0..(i - 1)) \cup {i})
  BY <1>2 DEF Prefix, w
<1>8. w[i] \in Nat /\ w[i] = a[i] * Weight(i)
  BY <1>1, <1>2
<1> DEFINE s == SumFunctionOnSet(w, 0..(i - 1))  u == w[i]
<1>9. u + s \in Nat /\ u + s = s + u
  <2>1. u \in Nat /\ s \in Nat
    BY <1>6, <1>8
  <2> HIDE DEF u, s
  <2> QED BY <2>1
<1> QED BY <1>5, <1>6, <1>7, <1>8, <1>9

(* Digits are worth a number.                                              *)
LEMMA PrefixIsNat ==
  ASSUME NEW k \in Nat, NEW a, Digits(a, k)
  PROVE  Prefix(a, k) \in Nat
<1>1. CASE k = 0
  BY <1>1, PrefixOfNone
<1>2. CASE k > 0
  <2>1. k - 1 \in Nat /\ k - 1 < k /\ (k - 1) + 1 = k
    BY <1>2
  <2>2. Prefix(a, (k - 1) + 1) \in Nat
    BY <2>1, PrefixStep
  <2> QED BY <2>1, <2>2
<1> QED BY <1>1, <1>2

(* The value of a number is that of all its limbs.                         *)
LEMMA ValueIsPrefix ==
  ASSUME NEW k \in Nat, NEW a, DOMAIN a = 0..(k - 1)
  PROVE  ValueOf(a) = Prefix(a, k)
<1>1. DOMAIN Weighted(a) = 0..(k - 1)
  BY DEF Weighted
<1> QED BY <1>1 DEF ValueOf, Weighted, Prefix, SumFunction

(* Limbs are worth less than the next one.                                 *)
LEMMA PrefixBound ==
  ASSUME NEW k \in Nat, NEW a, Digits(a, k), \A i \in 0..(k - 1) : a[i] \in Word
  PROVE  \A i \in 0..k : Prefix(a, i) \in Nat /\ Prefix(a, i) < Weight(i)
<1> DEFINE S == {i \in Nat : i <= k => Prefix(a, i) \in Nat /\ Prefix(a, i) < Weight(i)}
<1>1. 0 \in S
  BY PrefixOfNone, Weights
<1>2. ASSUME NEW i \in S PROVE i + 1 \in S
  <2> SUFFICES ASSUME i + 1 <= k
               PROVE  Prefix(a, i + 1) \in Nat /\ Prefix(a, i + 1) < Weight(i + 1)
    OBVIOUS
  <2>1. Prefix(a, i) \in Nat /\ Prefix(a, i) < Weight(i) /\ i \in Nat /\ i < k /\ i \in 0..(k - 1)
    OBVIOUS
  <2>2. Prefix(a, i + 1) \in Nat /\ Prefix(a, i + 1) = Prefix(a, i) + a[i] * Weight(i)
    BY <2>1, PrefixStep
  <2>3. a[i] \in Nat /\ a[i] <= Base - 1 /\ Base \in Nat
    BY <2>1, BaseIs DEF Word
  <2>4. Weight(i) \in Nat /\ Weight(i + 1) = Base * Weight(i)
    BY Weights
  <2> DEFINE p == Prefix(a, i)  d == a[i]  w == Weight(i)
  <2>5. p + d * w < Base * w
    <3>1. p \in Nat /\ d \in Nat /\ w \in Nat /\ p < w /\ d <= Base - 1 /\ Base \in Nat
      BY <2>1, <2>3, <2>4
    <3> HIDE DEF p, d, w
    <3>2. d * w <= (Base - 1) * w
      BY <3>1
    <3>3. (Base - 1) * w = Base * w - w
      BY <3>1
    <3>4. d * w \in Nat /\ Base * w \in Nat
      BY <3>1
    <3> QED BY <3>1, <3>2, <3>3, <3>4
  <2> QED BY <2>2, <2>4, <2>5
<1>3. S = Nat
  <2> HIDE DEF S
  <2>1. S \in SUBSET Nat
    BY DEF S
  <2> QED BY <1>1, <1>2, <2>1, NumberInduction
<1> QED BY <1>3

(* Equal limbs, equal worth.                                               *)
LEMMA PrefixOfEquals ==
  ASSUME NEW k \in Nat, NEW a, NEW b, Digits(a, k), Digits(b, k),
         \A i \in 0..(k - 1) : a[i] = b[i]
  PROVE  Prefix(a, k) = Prefix(b, k)
<1> DEFINE S == {i \in Nat : i <= k => Prefix(a, i) = Prefix(b, i)}
<1>1. 0 \in S
  BY PrefixOfNone
<1>2. ASSUME NEW i \in S PROVE i + 1 \in S
  <2> SUFFICES ASSUME i + 1 <= k PROVE Prefix(a, i + 1) = Prefix(b, i + 1)
    OBVIOUS
  <2>1. Prefix(a, i) = Prefix(b, i) /\ i \in Nat /\ i < k /\ i \in 0..(k - 1)
    OBVIOUS
  <2>2. Prefix(a, i + 1) = Prefix(a, i) + a[i] * Weight(i)
    BY <2>1, PrefixStep
  <2>3. Prefix(b, i + 1) = Prefix(b, i) + b[i] * Weight(i)
    BY <2>1, PrefixStep
  <2>4. a[i] = b[i]
    BY <2>1
  <2> QED BY <2>1, <2>2, <2>3, <2>4
<1>3. S = Nat
  <2> HIDE DEF S
  <2>1. S \in SUBSET Nat
    BY DEF S
  <2> QED BY <1>1, <1>2, <2>1, NumberInduction
<1> QED BY <1>3

(* Quotient and remainder, as one equation.                                *)
LEMMA DivisionIs ==
  ASSUME NEW y \in Nat, NEW m \in Nat \ {0}
  PROVE  y \div m \in Nat /\ y % m \in 0..(m - 1) /\ y = (y % m) + m * (y \div m)
<1>1. y \div m \in Int /\ y % m \in 0..(m - 1) /\ y = m * (y \div m) + (y % m)
  <2>1. y \div m \in Int
    OBVIOUS
  <2>2. y % m \in 0..(m - 1)
    OBVIOUS
  <2>3. y = m * (y \div m) + (y % m)
    OBVIOUS
  <2> QED BY <2>1, <2>2, <2>3
<1> DEFINE q == y \div m  r == y % m
<1>2. q >= 0
  <2>1. q \in Int /\ r \in 0..(m - 1) /\ y = m * q + r
    BY <1>1
  <2> HIDE DEF q, r
  <2>2. SUFFICES ASSUME q <= -1 PROVE FALSE
    BY <2>1
  <2>3. m * q <= m * (-1)
    BY ONLY <2>1, <2>2, m \in Nat \ {0}
  <2> QED BY <2>1, <2>3
<1> QED BY <1>1, <1>2

(* The quotient and the remainder are the only ones.                       *)
LEMMA QuotientIs ==
  ASSUME NEW y \in Nat, NEW m \in Nat \ {0}, NEW q \in Int, NEW r \in 0..(m - 1), y = m * q + r
  PROVE  y \div m = q /\ y % m = r
<1> DEFINE p == y \div m  s == y % m
<1>1. p \in Int /\ s \in 0..(m - 1) /\ y = s + m * p
  BY DivisionIs
<1>2. p = q
  <2> HIDE DEF p, s
  <2>1. m * q + r = s + m * p
    BY <1>1
  <2>2. CASE p >= q + 1
    <3>1. m * p >= m * (q + 1)
      BY ONLY <1>1, <2>2, m \in Nat, q \in Int
    <3>2. m * (q + 1) = m * q + m
      BY ONLY m \in Nat, q \in Int
    <3>3. m * p \in Int /\ m * q \in Int
      BY <1>1
    <3> QED BY <1>1, <2>1, <3>1, <3>2, <3>3
  <2>3. CASE q >= p + 1
    <3>1. m * q >= m * (p + 1)
      BY ONLY <1>1, <2>3, m \in Nat, q \in Int
    <3>2. m * (p + 1) = m * p + m
      BY ONLY <1>1, m \in Nat
    <3>3. m * p \in Int /\ m * q \in Int
      BY <1>1
    <3> QED BY <1>1, <2>1, <3>1, <3>2, <3>3
  <2> QED BY <1>1, <2>2, <2>3
<1>3. s = r
  <2> HIDE DEF p, s
  <2>1. m * q \in Int
    OBVIOUS
  <2> QED BY <1>1, <1>2, <2>1
<1> QED BY <1>2, <1>3

(* Carrying gives each limb its own, and keeps the worth of all.           *)
LEMMA CarriedIs ==
  ASSUME NEW k \in Nat, NEW t, Digits(t, k)
  PROVE  /\ Carried(t, k) \in [0..k -> Nat]
         /\ \A i \in 0..(k - 1) : Carried(t, k)[i] \in Word
         /\ Prefix(Carried(t, k), k) + Carried(t, k)[k] * Weight(k) = Prefix(t, k)
<1> DEFINE F(c) == [i \in 0..k |-> IF i = 0 THEN 0 ELSE (t[i - 1] + c[i - 1]) \div Base]
<1> DEFINE rule == [y \in (1..k) \X Nat |-> (t[y[1] - 1] + y[2]) \div Base]
<1>1. ASSUME NEW i \in 1..k, NEW v \in Nat
      PROVE  rule[<<i, v>>] \in Nat /\ rule[<<i, v>>] = (t[i - 1] + v) \div Base
  <2>1. i - 1 \in 0..(k - 1) /\ t[i - 1] \in Nat
    BY DEF Digits
  <2>2. (t[i - 1] + v) \div Base \in Nat
    <3> DEFINE x == t[i - 1]
    <3>1. x \in Nat /\ Base \in Nat /\ Base >= 2
      BY <2>1, BaseIs
    <3> HIDE DEF x
    <3>2. x + v \in Nat /\ Base \in Nat \ {0}
      BY <3>1
    <3>3. (x + v) \div Base \in Nat
      BY ONLY <3>2, DivisionIs
    <3> QED BY <3>3 DEF x
  <2>3. rule[<<i, v>>] = (t[i - 1] + v) \div Base
    OBVIOUS
  <2> QED BY <2>2, <2>3
<1> HIDE DEF rule
<1>2. PICK g : Solves(Nat, 0, k, rule, g)
  <2>1. 0 \in Nat /\ \A i \in 1..k, v \in Nat : rule[<<i, v>>] \in Nat
    BY <1>1
  <2> QED BY ONLY <2>1, k \in Nat, RecursionExists, Zenon
<1>3. g \in [0..k -> Nat] /\ g[0] = 0 /\ \A i \in 1..k : g[i] = rule[<<i, g[i - 1]>>]
  BY <1>2 DEF Solves
<1>4. ASSUME NEW i \in 0..k PROVE g[i] = IF i = 0 THEN 0 ELSE (t[i - 1] + g[i - 1]) \div Base
  <2>1. CASE i # 0
    <3>1. i \in 1..k /\ g[i - 1] \in Nat /\ g[i] = rule[<<i, g[i - 1]>>]
      BY <1>3, <2>1
    <3> QED BY <1>1, <2>1, <3>1
  <2> QED BY <1>3, <2>1
<1>5. g = F(g)
  BY <1>3, <1>4
<1> DEFINE c == CHOOSE h : h = F(h)
<1>6. c = F(c)
  BY <1>5
<1>7. Carried(t, k) = [i \in 0..k |-> IF i = k THEN c[k] ELSE (t[i] + c[i]) % Base]
  BY DEF Carried
<1> HIDE DEF c
<1>8. c[0] = 0 /\ \A i \in 1..k : c[i] = (t[i - 1] + c[i - 1]) \div Base
  BY <1>6
<1> DEFINE out == Carried(t, k)
<1> DEFINE S == {i \in Nat : i <= k => c[i] \in Nat}
<1>9. S = Nat
  <2>1. 0 \in S
    BY <1>8
  <2>2. ASSUME NEW i \in S PROVE i + 1 \in S
    <3> SUFFICES ASSUME i + 1 <= k PROVE c[i + 1] \in Nat
      OBVIOUS
    <3>1. c[i] \in Nat /\ i + 1 \in 1..k /\ (i + 1) - 1 = i
      OBVIOUS
    <3>2. c[i + 1] = (t[i] + c[i]) \div Base
      BY <1>8, <3>1
    <3>3. c[i + 1] = rule[<<i + 1, c[i]>>]
      BY <1>1, <3>1, <3>2
    <3> QED BY <1>1, <3>1, <3>3
  <2> HIDE DEF S
  <2>3. S \in SUBSET Nat
    BY DEF S
  <2> QED BY <2>1, <2>2, <2>3, NumberInduction
<1>10. ASSUME NEW i \in 0..(k - 1)
       PROVE  /\ out[i] \in Word /\ c[i] \in Nat /\ c[i + 1] \in Nat /\ t[i] \in Nat
              /\ t[i] + c[i] = out[i] + Base * c[i + 1]
  <2>1. c[i] \in Nat /\ c[i + 1] \in Nat /\ t[i] \in Nat
    BY <1>9 DEF Digits
  <2>2. i + 1 \in 1..k /\ (i + 1) - 1 = i /\ i # k /\ i \in 0..k
    OBVIOUS
  <2>3. c[i + 1] = (t[i] + c[i]) \div Base
    BY <1>8, <2>2
  <2>4. out[i] = (t[i] + c[i]) % Base
    BY <1>7, <2>2
  <2> DEFINE x == t[i] + c[i]
  <2>5. x \in Nat
    BY <2>1
  <2>6. x % Base \in 0..(Base - 1) /\ x = (x % Base) + Base * (x \div Base)
    <3> HIDE DEF x
    <3>1. Base \in Nat /\ Base >= 2
      BY BaseIs
    <3> QED BY ONLY <3>1, <2>5
  <2> QED BY <2>1, <2>3, <2>4, <2>6 DEF Word
<1>11. out[k] = c[k] /\ c[k] \in Nat /\ DOMAIN out = 0..k
  <2>1. k \in 0..k
    OBVIOUS
  <2> QED BY <1>7, <1>9, <2>1
<1>12. out \in [0..k -> Nat]
  <2>1. out = [i \in 0..k |-> out[i]]
    BY <1>7
  <2>2. ASSUME NEW i \in 0..k PROVE out[i] \in Nat
    <3>1. CASE i = k
      BY <1>11, <3>1
    <3>2. CASE i # k
      <4>1. i \in 0..(k - 1)
        BY <3>2
      <4> QED BY <1>10, <4>1, BaseIs
    <3> QED BY <3>1, <3>2
  <2> QED BY <2>1, <2>2
<1>13. Digits(out, k)
  <2>1. 0..(k - 1) \subseteq 0..k
    OBVIOUS
  <2> HIDE DEF out
  <2> QED BY <1>12, <2>1 DEF Digits
<1> HIDE DEF out
<1> DEFINE P == {i \in Nat : i <= k => Prefix(out, i) + c[i] * Weight(i) = Prefix(t, i)}
<1>14. P = Nat
  <2>1. 0 \in P
    <3>1. Prefix(out, 0) = 0 /\ Prefix(t, 0) = 0
      BY PrefixOfNone
    <3>2. c[0] * Weight(0) = 0
      BY <1>8, Weights
    <3> QED BY <3>1, <3>2
  <2>2. ASSUME NEW i \in P PROVE i + 1 \in P
    <3> SUFFICES ASSUME i + 1 <= k
                 PROVE  Prefix(out, i + 1) + c[i + 1] * Weight(i + 1) = Prefix(t, i + 1)
      OBVIOUS
    <3>1. i \in Nat /\ i < k /\ i \in 0..(k - 1) /\ Prefix(out, i) + c[i] * Weight(i) = Prefix(t, i)
      OBVIOUS
    <3>2. Prefix(out, i + 1) = Prefix(out, i) + out[i] * Weight(i) /\ Prefix(out, i) \in Nat
      BY <1>13, <3>1, PrefixStep
    <3>3. Prefix(t, i + 1) = Prefix(t, i) + t[i] * Weight(i) /\ Prefix(t, i) \in Nat
      BY <3>1, PrefixStep
    <3>4. /\ out[i] \in Nat /\ c[i] \in Nat /\ c[i + 1] \in Nat /\ t[i] \in Nat
          /\ t[i] + c[i] = out[i] + Base * c[i + 1]
      BY <1>10, <3>1, BaseIs
    <3>5. Weight(i) \in Nat /\ Weight(i + 1) = Base * Weight(i) /\ Base \in Nat
      BY <3>1, Weights, BaseIs
    <3> DEFINE po == Prefix(out, i)  pt == Prefix(t, i)  w == Weight(i)
               o == out[i]  ci == c[i]  cn == c[i + 1]  ti == t[i]
    <3>6. po + o * w + cn * (Base * w) = pt + ti * w
      <4>1. /\ po \in Nat /\ pt \in Nat /\ w \in Nat /\ o \in Nat /\ ci \in Nat /\ cn \in Nat /\ ti \in Nat
            /\ Base \in Nat /\ po + ci * w = pt /\ ti + ci = o + Base * cn
        BY <3>1, <3>2, <3>3, <3>4, <3>5
      <4> HIDE DEF po, pt, w, o, ci, cn, ti
      <4>2. (ti + ci) * w = ti * w + ci * w
        BY ONLY <4>1
      <4>3. (o + Base * cn) * w = o * w + cn * (Base * w)
        BY ONLY <4>1
      <4>4. ti * w \in Nat /\ ci * w \in Nat /\ o * w \in Nat /\ cn * (Base * w) \in Nat
        BY ONLY <4>1
      <4> QED BY ONLY <4>1, <4>2, <4>3, <4>4
    <3> QED BY <3>2, <3>3, <3>5, <3>6
  <2> HIDE DEF P
  <2>3. P \in SUBSET Nat
    BY DEF P
  <2> QED BY <2>1, <2>2, <2>3, NumberInduction
<1>15. Prefix(out, k) + out[k] * Weight(k) = Prefix(t, k)
  BY <1>11, <1>14
<1> QED BY <1>10, <1>12, <1>15 DEF out

(* The sizes are numbers.                                                  *)
LEMMA NIs == N \in Nat /\ N >= 1 /\ WordBits \in Nat /\ WordBits >= 1
BY LimbAssumption

(* Functions with limbs below k are digits.                                *)
LEMMA LimbsAreDigits ==
  ASSUME NEW k \in Nat, NEW a, 0..(k - 1) \subseteq DOMAIN a, \A i \in 0..(k - 1) : a[i] \in Word
  PROVE  Digits(a, k)
BY BaseIs DEF Digits

(* What a number's limbs are.                                              *)
LEMMA NumbersAre ==
  ASSUME NEW a \in Number
  PROVE  /\ DOMAIN a = 0..(N - 1) /\ \A i \in 0..(N - 1) : a[i] \in Word
         /\ Digits(a, N) /\ ValueOf(a) = Prefix(a, N)
         /\ ValueOf(a) \in Nat /\ ValueOf(a) < Full
<1>1. DOMAIN a = 0..(N - 1) /\ \A i \in 0..(N - 1) : a[i] \in Word
  BY DEF Number
<1>2. Digits(a, N)
  BY <1>1, NIs, LimbsAreDigits
<1>3. ValueOf(a) = Prefix(a, N)
  BY <1>1, NIs, ValueIsPrefix
<1>4. Prefix(a, N) \in Nat /\ Prefix(a, N) < Weight(N)
  <2>1. N \in 0..N
    BY NIs
  <2> QED BY <1>1, <1>2, <2>1, NIs, PrefixBound
<1> QED BY <1>1, <1>2, <1>3, <1>4 DEF Weight, Full

(* Limbs that agree from some limb up do not change an order.              *)
LEMMA UpperAgree ==
  ASSUME NEW k \in Nat, NEW a, NEW b, Digits(a, k), Digits(b, k), NEW i \in 0..k,
         Prefix(a, i) < Prefix(b, i), \A j \in i..(k - 1) : a[j] = b[j]
  PROVE  Prefix(a, k) < Prefix(b, k)
<1> DEFINE S == {n \in Nat : i + n <= k => Prefix(a, i + n) < Prefix(b, i + n)}
<1>1. 0 \in S
  <2>1. i + 0 = i
    OBVIOUS
  <2> QED BY <2>1
<1>2. ASSUME NEW n \in S PROVE n + 1 \in S
  <2> SUFFICES ASSUME i + (n + 1) <= k PROVE Prefix(a, i + (n + 1)) < Prefix(b, i + (n + 1))
    OBVIOUS
  <2> DEFINE h == i + n
  <2>1. h \in Nat /\ h < k /\ h \in i..(k - 1) /\ h \in 0..(k - 1) /\ i + (n + 1) = h + 1
        /\ Prefix(a, h) < Prefix(b, h)
    OBVIOUS
  <2> HIDE DEF h
  <2>2. Prefix(a, h + 1) = Prefix(a, h) + a[h] * Weight(h) /\ Prefix(a, h) \in Nat
    BY <2>1, PrefixStep
  <2>3. Prefix(b, h + 1) = Prefix(b, h) + b[h] * Weight(h) /\ Prefix(b, h) \in Nat
    BY <2>1, PrefixStep
  <2>4. a[h] = b[h] /\ a[h] \in Nat /\ Weight(h) \in Nat
    BY <2>1, Weights DEF Digits
  <2>5. a[h] * Weight(h) \in Nat
    <3> DEFINE x == a[h]  w == Weight(h)
    <3>1. x \in Nat /\ w \in Nat
      BY <2>4
    <3>2. x * w \in Nat
      <4> HIDE DEF x, w
      <4> QED BY ONLY <3>1
    <3> QED BY <3>2
  <2> QED BY <2>1, <2>2, <2>3, <2>4, <2>5
<1>3. S = Nat
  <2> HIDE DEF S
  <2>1. S \in SUBSET Nat
    BY DEF S
  <2> QED BY <1>1, <1>2, <2>1, NumberInduction
<1>4. k - i \in Nat /\ i + (k - i) = k
  OBVIOUS
<1>5. k - i \in S
  BY <1>3, <1>4
<1>6. i + (k - i) <= k => Prefix(a, i + (k - i)) < Prefix(b, i + (k - i))
  BY <1>5
<1> QED BY <1>4, <1>6

(* cmp: comparing from the top limb down compares the numbers.             *)
LEMMA LessIsLess ==
  ASSUME NEW a \in Number, NEW b \in Number, Less(a, b)
  PROVE  ValueOf(a) < ValueOf(b)
<1>1. PICK i \in 0..(N - 1) : a[i] < b[i] /\ \A j \in (i + 1)..(N - 1) : a[j] = b[j]
  BY DEF Less
<1>2. i \in Nat /\ i < N /\ i \in 0..N /\ i + 1 \in 0..N
  BY NIs
<1>3. /\ Prefix(a, i + 1) = Prefix(a, i) + a[i] * Weight(i)
      /\ Prefix(b, i + 1) = Prefix(b, i) + b[i] * Weight(i)
      /\ Prefix(a, i) \in Nat /\ Prefix(b, i) \in Nat
  BY <1>2, NIs, NumbersAre, PrefixStep
<1>4. Prefix(a, i) < Weight(i)
  BY <1>2, NIs, NumbersAre, PrefixBound
<1>5. a[i] \in Nat /\ b[i] \in Nat /\ Weight(i) \in Nat
  BY <1>2, NumbersAre, Weights DEF Digits
<1>6. Prefix(a, i + 1) < Prefix(b, i + 1)
  <2> DEFINE pa == Prefix(a, i)  pb == Prefix(b, i)  w == Weight(i)  x == a[i]  y == b[i]
  <2>1. pa \in Nat /\ pb \in Nat /\ w \in Nat /\ x \in Nat /\ y \in Nat /\ pa < w /\ x + 1 <= y
    BY <1>1, <1>3, <1>4, <1>5
  <2>2. pa + x * w < pb + y * w
    <3> HIDE DEF pa, pb, w, x, y
    <3>1. (x + 1) * w <= y * w
      BY ONLY <2>1
    <3>2. (x + 1) * w = x * w + w /\ x * w \in Nat /\ y * w \in Nat
      BY ONLY <2>1
    <3> QED BY ONLY <2>1, <3>1, <3>2
  <2> QED BY <1>3, <2>2
<1>7. Prefix(a, N) < Prefix(b, N)
  BY <1>1, <1>2, <1>6, NIs, NumbersAre, UpperAgree
<1> QED BY <1>7, NumbersAre

(* Numbers that differ do so in a topmost limb.                            *)
LEMMA NumbersDiffer ==
  ASSUME NEW a \in Number, NEW b \in Number, a # b
  PROVE  Less(a, b) \/ Less(b, a)
<1> DEFINE D == {i \in 0..(N - 1) : a[i] # b[i]}
<1>1. D # {}
  <2> SUFFICES ASSUME \A i \in 0..(N - 1) : a[i] = b[i] PROVE a = b
    OBVIOUS
  <2>1. a = [i \in 0..(N - 1) |-> a[i]] /\ b = [i \in 0..(N - 1) |-> b[i]]
    BY DEF Number
  <2> QED BY <2>1
<1>2. IsFiniteSet(D) /\ D \in SUBSET Int
  <2>1. IsFiniteSet(0..(N - 1)) /\ 0..(N - 1) \subseteq Int
    BY NIs, FS_Interval
  <2>2. D \subseteq 0..(N - 1)
    OBVIOUS
  <2> HIDE DEF D
  <2> QED BY <2>1, <2>2, FS_Subset
<1>3. PICK i \in D : \A j \in D : j <= i
  <2> HIDE DEF D
  <2> QED BY <1>1, <1>2, HasGreatest
<1>4. i \in 0..(N - 1) /\ a[i] # b[i]
  OBVIOUS
<1>5. \A j \in (i + 1)..(N - 1) : a[j] = b[j]
  <2> SUFFICES ASSUME NEW j \in (i + 1)..(N - 1), a[j] # b[j] PROVE FALSE
    OBVIOUS
  <2>1. j \in 0..(N - 1) /\ j > i
    BY <1>4
  <2>2. j \in D
    BY <2>1
  <2> QED BY <1>3, <1>4, <2>1, <2>2
<1>6. a[i] \in Nat /\ b[i] \in Nat
  BY <1>4, NumbersAre DEF Digits
<1>7. a[i] < b[i] \/ b[i] < a[i]
  BY <1>4, <1>6
<1> QED BY <1>4, <1>5, <1>7 DEF Less

(* cmp orders the limbs as what they are worth.                            *)
LEMMA LessIs ==
  ASSUME NEW a \in Number, NEW b \in Number
  PROVE  /\ Less(a, b) <=> ValueOf(a) < ValueOf(b)
         /\ a = b <=> ValueOf(a) = ValueOf(b)
<1>1. ValueOf(a) \in Nat /\ ValueOf(b) \in Nat
  BY NumbersAre
<1>2. Less(a, b) => ValueOf(a) < ValueOf(b)
  BY LessIsLess
<1>3. Less(b, a) => ValueOf(b) < ValueOf(a)
  BY LessIsLess
<1>4. a # b => Less(a, b) \/ Less(b, a)
  BY NumbersDiffer
<1> QED BY <1>1, <1>2, <1>3, <1>4

(* bytes_to_limbs: the limbs of an integer are worth what they can hold.   *)
LEMMA LimbsOfIs ==
  ASSUME NEW n \in Nat, NEW k \in Nat
  PROVE  /\ LimbsOf(n, k) \in [0..(k - 1) -> Word]
         /\ Prefix(LimbsOf(n, k), k) = n % Weight(k)
         /\ n < Weight(k) => Prefix(LimbsOf(n, k), k) = n
<1> DEFINE l == LimbsOf(n, k)
<1>1. ASSUME NEW i \in 0..(k - 1)
      PROVE  /\ l[i] = (n \div Weight(i)) % Base /\ l[i] \in Word /\ l[i] \in Nat
             /\ n \div Weight(i) \in Nat
  <2>1. l[i] = (n \div Weight(i)) % Base
    BY DEF LimbsOf, Weight
  <2>2. Weight(i) \in Nat \ {0} /\ Base \in Nat \ {0}
    <3>1. Weight(i) \in Nat /\ Weight(i) > 0 /\ Base \in Nat /\ Base >= 2
      <4>1. i \in Nat
        OBVIOUS
      <4> QED BY <4>1, Weights, BaseIs
    <3> QED BY ONLY <3>1
  <2>3. n \div Weight(i) \in Nat
    BY <2>2, DivisionIs
  <2>4. (n \div Weight(i)) % Base \in 0..(Base - 1)
    BY <2>2, <2>3, DivisionIs
  <2> QED BY <2>1, <2>3, <2>4, BaseIs DEF Word
<1>2. l \in [0..(k - 1) -> Word]
  <2>1. l = [i \in 0..(k - 1) |-> l[i]]
    BY DEF LimbsOf
  <2> HIDE DEF l
  <2> QED BY <1>1, <2>1
<1>3. Digits(l, k)
  <2> HIDE DEF l
  <2> QED BY <1>1, <1>2 DEF Digits
<1> HIDE DEF l
<1> DEFINE S == {i \in Nat : i <= k => Prefix(l, i) = n % Weight(i)}
<1>4. S = Nat
  <2>1. 0 \in S
    <3>1. n % Weight(0) = 0
      BY Weights
    <3> QED BY <3>1, PrefixOfNone
  <2>2. ASSUME NEW i \in S PROVE i + 1 \in S
    <3> SUFFICES ASSUME i + 1 <= k PROVE Prefix(l, i + 1) = n % Weight(i + 1)
      OBVIOUS
    <3>1. i \in Nat /\ i < k /\ i \in 0..(k - 1) /\ Prefix(l, i) = n % Weight(i)
      OBVIOUS
    <3>2. Prefix(l, i + 1) = Prefix(l, i) + l[i] * Weight(i)
      BY <1>3, <3>1, PrefixStep
    <3> DEFINE w == Weight(i)  q == n \div w  r == n % w  d == q % Base  p == q \div Base
    <3>3. w \in Nat \ {0} /\ Weight(i + 1) = Base * w /\ Base \in Nat \ {0} /\ Base >= 2
      <4>1. w \in Nat /\ w > 0 /\ Weight(i + 1) = Base * w
        BY <3>1, Weights
      <4>2. Base \in Nat /\ Base >= 2
        BY BaseIs
      <4> HIDE DEF w
      <4> QED BY ONLY <4>1, <4>2
    <3>4. q \in Nat /\ r \in 0..(w - 1) /\ n = r + w * q
      <4> HIDE DEF w
      <4> QED BY <3>3, DivisionIs
    <3>5. p \in Nat /\ d \in 0..(Base - 1) /\ q = d + Base * p
      <4> HIDE DEF q
      <4> QED BY <3>3, <3>4, DivisionIs
    <3>6. l[i] = d
      BY <1>1, <3>1
    <3>7. n % (Base * w) = r + d * w
      <4> HIDE DEF p, d, r, q, w
      <4> DEFINE m == Base * w  s == r + d * w
      <4>1. m \in Nat \ {0}
        BY ONLY <3>3
      <4>2. s \in Nat /\ s < m
        <5>1. d * w <= (Base - 1) * w
          BY ONLY <3>3, <3>5
        <5>2. (Base - 1) * w = Base * w - w /\ d * w \in Nat /\ Base * w \in Nat
          BY ONLY <3>3, <3>5
        <5> QED BY ONLY <3>3, <3>4, <5>1, <5>2
      <4>3. n = m * p + s
        <5>1. w * (d + Base * p) = d * w + (Base * w) * p
          BY ONLY <3>3, <3>5
        <5>2. d * w \in Nat /\ (Base * w) * p \in Nat
          BY ONLY <3>3, <3>5
        <5> QED BY ONLY <3>4, <3>5, <5>1, <5>2
      <4> HIDE DEF m, s
      <4>4. s \in 0..(m - 1) /\ p \in Int
        BY <4>1, <4>2, <3>5
      <4>5. n % m = s
        BY ONLY <4>1, <4>3, <4>4, n \in Nat, QuotientIs
      <4> QED BY <4>5 DEF m, s
    <3> QED BY <3>1, <3>2, <3>3, <3>6, <3>7
  <2> HIDE DEF S
  <2>3. S \in SUBSET Nat
    BY DEF S
  <2> QED BY <2>1, <2>2, <2>3, NumberInduction
<1>5. Prefix(l, k) = n % Weight(k)
  BY <1>4
<1>6. n < Weight(k) => n % Weight(k) = n
  <2> SUFFICES ASSUME n < Weight(k) PROVE n % Weight(k) = n
    OBVIOUS
  <2> DEFINE w == Weight(k)
  <2>1. w \in Nat \ {0} /\ n \in 0..(w - 1) /\ n = w * 0 + n /\ 0 \in Int
    BY Weights
  <2>2. n % w = n
    <3> HIDE DEF w
    <3> QED BY ONLY <2>1, n \in Nat, QuotientIs
  <2> QED BY <2>2
<1> QED BY <1>2, <1>5, <1>6 DEF l

(* N limbs hold whatever is below Full.                                    *)
LEMMA LimbsOfNumber ==
  ASSUME NEW n \in Nat, n < Full
  PROVE  LimbsOf(n, N) \in Number /\ ValueOf(LimbsOf(n, N)) = n
<1>1. Weight(N) = Full
  BY DEF Weight, Full
<1>2. LimbsOf(n, N) \in Number /\ Prefix(LimbsOf(n, N), N) = n
  BY <1>1, NIs, LimbsOfIs DEF Number
<1> QED BY <1>2, NumbersAre

(* The moduli need all the limbs.                                          *)
LEMMA ModulusIs ==
  ASSUME NEW r
  PROVE  /\ Modulus(r) \in Nat /\ Modulus(r) > 0 /\ Modulus(r) < Full /\ 2 * Modulus(r) > Full
         /\ Full \in Nat /\ Full > 0 /\ Weight(N) = Full
         /\ LimbsOf(Modulus(r), N) \in Number /\ ValueOf(LimbsOf(Modulus(r), N)) = Modulus(r)
<1>1. Full \in Nat /\ Full > 0 /\ Weight(N) = Full
  BY NIs, Weights DEF Full, Weight
<1>2. Modulus(r) \in {Prime, Order}
  BY DEF Modulus
<1>3. Modulus(r) \in Nat /\ 2 * Modulus(r) > Full /\ Modulus(r) < Full
  BY <1>2, LimbAssumption
<1> QED BY <1>1, <1>3, LimbsOfNumber

(* Subtracting limb by limb: what is missing is borrowed from above.       *)
LEMMA DifferenceIs ==
  ASSUME NEW a \in Number, NEW b \in Number
  PROVE  /\ Difference(a, b).limbs \in Number /\ Difference(a, b).borrow \in {0, 1}
         /\ ValueOf(Difference(a, b).limbs)
              = (ValueOf(a) - ValueOf(b)) + Difference(a, b).borrow * Full
<1> DEFINE F(c) == [i \in 0..N |->
                     IF i = 0 \/ a[i - 1] >= b[i - 1] + c[i - 1] THEN 0 ELSE 1]
<1> DEFINE rule == [y \in (1..N) \X {0, 1} |-> IF a[y[1] - 1] >= b[y[1] - 1] + y[2] THEN 0 ELSE 1]
<1>1. ASSUME NEW i \in 1..N, NEW v \in {0, 1}
      PROVE  /\ rule[<<i, v>>] \in {0, 1}
             /\ rule[<<i, v>>] = IF a[i - 1] >= b[i - 1] + v THEN 0 ELSE 1
  OBVIOUS
<1> HIDE DEF rule
<1>2. PICK g : Solves({0, 1}, 0, N, rule, g)
  <2>1. 0 \in {0, 1} /\ \A i \in 1..N, v \in {0, 1} : rule[<<i, v>>] \in {0, 1}
    BY <1>1
  <2>2. N \in Nat
    BY NIs
  <2> QED BY ONLY <2>1, <2>2, RecursionExists, Zenon
<1>3. g \in [0..N -> {0, 1}] /\ g[0] = 0 /\ \A i \in 1..N : g[i] = rule[<<i, g[i - 1]>>]
  BY <1>2 DEF Solves
<1>4. ASSUME NEW i \in 0..N
      PROVE  g[i] = IF i = 0 \/ a[i - 1] >= b[i - 1] + g[i - 1] THEN 0 ELSE 1
  <2>1. CASE i # 0
    <3>1. i \in 1..N /\ g[i - 1] \in {0, 1} /\ g[i] = rule[<<i, g[i - 1]>>]
      BY <1>3, <2>1, NIs
    <3> QED BY <1>1, <2>1, <3>1
  <2> QED BY <1>3, <2>1
<1>5. g = F(g)
  BY <1>3, <1>4
<1> DEFINE c == CHOOSE h : h = F(h)
<1>6. c = F(c)
  BY <1>5
<1>7. /\ Difference(a, b).limbs = [i \in 0..(N - 1) |-> (a[i] - b[i] - c[i]) % Base]
      /\ Difference(a, b).borrow = c[N]
  BY DEF Difference
<1> HIDE DEF c
<1>8. /\ c[0] = 0 /\ \A i \in 0..N : c[i] \in {0, 1}
      /\ \A i \in 1..N : c[i] = IF a[i - 1] >= b[i - 1] + c[i - 1] THEN 0 ELSE 1
  BY <1>6, NIs
<1> DEFINE l == Difference(a, b).limbs
<1>9. ASSUME NEW i \in 0..(N - 1)
      PROVE  /\ l[i] \in Word /\ l[i] \in Nat /\ a[i] \in Nat /\ b[i] \in Nat
             /\ c[i] \in {0, 1} /\ c[i + 1] \in {0, 1}
             /\ l[i] + b[i] + c[i] = a[i] + Base * c[i + 1]
  <2>1. a[i] \in 0..(Base - 1) /\ b[i] \in 0..(Base - 1) /\ Base \in Nat /\ Base >= 2
    BY NumbersAre, BaseIs
  <2>2. i \in 0..N /\ i + 1 \in 1..N /\ i + 1 \in 0..N /\ (i + 1) - 1 = i
    BY NIs
  <2>3. c[i] \in {0, 1} /\ c[i + 1] \in {0, 1} /\ c[i + 1] = IF a[i] >= b[i] + c[i] THEN 0 ELSE 1
    BY <1>8, <2>2
  <2>4. l[i] = (a[i] - b[i] - c[i]) % Base
    BY <1>7
  <2> DEFINE x == a[i]  y == b[i]  u == c[i]  v == c[i + 1]  z == (x - y) - u
  <2>5. z % Base \in 0..(Base - 1) /\ (z % Base) + y + u = x + Base * v
    <3>1. /\ x \in 0..(Base - 1) /\ y \in 0..(Base - 1) /\ u \in {0, 1}
          /\ v = IF x >= y + u THEN 0 ELSE 1
      BY <2>1, <2>3
    <3>2. z \in Int /\ z = (x - y) - u
      BY <2>1, <2>3
    <3> HIDE DEF x, y, u, v, z
    <3>3. CASE x >= y + u
      <4>1. z \in 0..(Base - 1) /\ z = Base * 0 + z /\ 0 \in Int /\ v = 0 /\ Base \in Nat \ {0}
        BY ONLY <2>1, <3>1, <3>2, <3>3
      <4>2. z % Base = z
        BY ONLY <4>1, RemainderIs, z \in Int
      <4> QED BY ONLY <2>1, <3>1, <3>2, <4>1, <4>2
    <3>4. CASE ~ (x >= y + u)
      <4>1. z + Base \in 0..(Base - 1) /\ z = Base * (-1) + (z + Base) /\ -1 \in Int /\ v = 1
            /\ Base \in Nat \ {0}
        BY ONLY <2>1, <3>1, <3>2, <3>4
      <4>2. z % Base = z + Base
        BY ONLY <4>1, RemainderIs, <3>2
      <4> QED BY ONLY <2>1, <3>1, <3>2, <4>1, <4>2
    <3> QED BY <3>3, <3>4
  <2>6. z = a[i] - b[i] - c[i]
    BY <2>1, <2>3
  <2>7. l[i] = z % Base
    BY <2>4, <2>6
  <2> QED BY <2>1, <2>3, <2>5, <2>7 DEF Word
<1>10. l \in Number
  <2>1. l = [i \in 0..(N - 1) |-> l[i]]
    BY <1>7
  <2> HIDE DEF l
  <2> QED BY <1>9, <2>1 DEF Number
<1> HIDE DEF l
<1> DEFINE S == {i \in Nat : i <= N => Prefix(l, i) + Prefix(b, i) = Prefix(a, i) + c[i] * Weight(i)}
<1>11. S = Nat
  <2>1. 0 \in S
    <3>1. c[0] * Weight(0) = 0
      BY <1>8, Weights
    <3> QED BY <3>1, PrefixOfNone
  <2>2. ASSUME NEW i \in S PROVE i + 1 \in S
    <3> SUFFICES ASSUME i + 1 <= N
        PROVE Prefix(l, i + 1) + Prefix(b, i + 1) = Prefix(a, i + 1) + c[i + 1] * Weight(i + 1)
      OBVIOUS
    <3>1. i \in Nat /\ i < N /\ i \in 0..(N - 1) /\ N \in Nat
          /\ Prefix(l, i) + Prefix(b, i) = Prefix(a, i) + c[i] * Weight(i)
      BY NIs
    <3>2. Prefix(l, i + 1) = Prefix(l, i) + l[i] * Weight(i) /\ Prefix(l, i) \in Nat
      BY <1>10, <3>1, NumbersAre, PrefixStep
    <3>3. Prefix(a, i + 1) = Prefix(a, i) + a[i] * Weight(i) /\ Prefix(a, i) \in Nat
      BY <3>1, NumbersAre, PrefixStep
    <3>4. Prefix(b, i + 1) = Prefix(b, i) + b[i] * Weight(i) /\ Prefix(b, i) \in Nat
      BY <3>1, NumbersAre, PrefixStep
    <3>5. Weight(i) \in Nat /\ Weight(i + 1) = Base * Weight(i) /\ Base \in Nat
      BY <3>1, Weights, BaseIs
    <3> DEFINE pl == Prefix(l, i)  pa == Prefix(a, i)  pb == Prefix(b, i)  w == Weight(i)
               li == l[i]  ai == a[i]  bi == b[i]  u == c[i]  v == c[i + 1]
    <3>6. (pl + li * w) + (pb + bi * w) = (pa + ai * w) + v * (Base * w)
      <4>1. /\ pl \in Nat /\ pa \in Nat /\ pb \in Nat /\ w \in Nat /\ li \in Nat /\ ai \in Nat
            /\ bi \in Nat /\ u \in Nat /\ v \in Nat /\ Base \in Nat
            /\ pl + pb = pa + u * w /\ li + bi + u = ai + Base * v
        <5>1. /\ l[i] \in Nat /\ a[i] \in Nat /\ b[i] \in Nat /\ c[i] \in {0, 1} /\ c[i + 1] \in {0, 1}
              /\ l[i] + b[i] + c[i] = a[i] + Base * c[i + 1]
          BY <1>9, <3>1
        <5>2. u \in Nat /\ v \in Nat
          BY <5>1
        <5> QED BY <3>1, <3>2, <3>3, <3>4, <3>5, <5>1, <5>2
      <4> HIDE DEF pl, pa, pb, w, li, ai, bi, u, v
      <4>2. (li + bi + u) * w = li * w + bi * w + u * w
        BY ONLY <4>1
      <4>3. (ai + Base * v) * w = ai * w + v * (Base * w)
        BY ONLY <4>1
      <4>4. li * w \in Nat /\ bi * w \in Nat /\ u * w \in Nat /\ ai * w \in Nat /\ v * (Base * w) \in Nat
        BY ONLY <4>1
      <4> QED BY ONLY <4>1, <4>2, <4>3, <4>4
    <3> QED BY <3>2, <3>3, <3>4, <3>5, <3>6
  <2> HIDE DEF S
  <2>3. S \in SUBSET Nat
    BY DEF S
  <2> QED BY <2>1, <2>2, <2>3, NumberInduction
<1>12. Prefix(l, N) + Prefix(b, N) = Prefix(a, N) + c[N] * Full
  <2>1. N \in S /\ N <= N /\ Weight(N) = Full
    BY <1>11, NIs DEF Weight, Full
  <2> QED BY <2>1
<1>13. ValueOf(l) = (ValueOf(a) - ValueOf(b)) + c[N] * Full
  <2>1. ValueOf(l) + ValueOf(b) = ValueOf(a) + c[N] * Full
    BY <1>10, <1>12, NumbersAre
  <2>2. ValueOf(l) \in Nat /\ ValueOf(a) \in Nat /\ ValueOf(b) \in Nat
    BY <1>10, NumbersAre
  <2>3. c[N] \in {0, 1} /\ Full \in Nat
    BY <1>8, NIs, ModulusIs
  <2> QED BY <2>1, <2>2, <2>3
<1>14. Difference(a, b).borrow \in {0, 1}
  BY <1>7, <1>8, NIs
<1> QED BY <1>7, <1>10, <1>13, <1>14 DEF l

(* The low limbs.                                                          *)
LEMMA LowIs ==
  ASSUME NEW r, N \in DOMAIN r, \A i \in 0..(N - 1) : i \in DOMAIN r /\ r[i] \in Word
  PROVE  Low(r) \in Number /\ ValueOf(Low(r)) = Prefix(r, N)
<1>1. Low(r) \in Number /\ \A i \in 0..(N - 1) : Low(r)[i] = r[i]
  BY DEF Low, Number
<1>2. Digits(Low(r), N) /\ Digits(r, N)
  <2>1. 0..(N - 1) \subseteq DOMAIN r
    OBVIOUS
  <2> QED BY <1>1, <2>1, NIs, NumbersAre, LimbsAreDigits
<1>3. Prefix(Low(r), N) = Prefix(r, N)
  BY <1>1, <1>2, NIs, PrefixOfEquals
<1> QED BY <1>1, <1>3, NumbersAre

(* A number of one limb more.                                              *)
Wide(r) == /\ DOMAIN r = 0..N /\ r[N] \in Nat /\ \A i \in 0..(N - 1) : r[i] \in Word
WorthOf(r) == Prefix(r, N) + r[N] * Full

(* Its parts and what it is worth.                                         *)
LEMMA WideIs ==
  ASSUME NEW r, Wide(r)
  PROVE  /\ Low(r) \in Number /\ ValueOf(Low(r)) = Prefix(r, N) /\ Prefix(r, N) \in Nat
         /\ Prefix(r, N) < Full /\ WorthOf(r) \in Nat
         /\ r[N] = 0 => WorthOf(r) = ValueOf(Low(r))
         /\ r[N] # 0 => WorthOf(r) >= Full
<1>1. N \in DOMAIN r /\ \A i \in 0..(N - 1) : i \in DOMAIN r /\ r[i] \in Word
  BY NIs DEF Wide
<1>2. Low(r) \in Number /\ ValueOf(Low(r)) = Prefix(r, N)
  BY <1>1, LowIs
<1>3. Prefix(r, N) \in Nat /\ Prefix(r, N) < Full
  BY <1>2, NumbersAre
<1> DEFINE p == Prefix(r, N)  h == r[N]
<1>4. p \in Nat /\ h \in Nat /\ Full \in Nat /\ Full > 0
  BY <1>3, ModulusIs DEF Wide
<1>5. p + h * Full \in Nat /\ (h = 0 => p + h * Full = p) /\ (h # 0 => p + h * Full >= Full)
  <2> HIDE DEF p, h
  <2>1. h * Full \in Nat /\ (h = 0 => h * Full = 0)
    BY ONLY <1>4
  <2>2. h # 0 => h * Full >= Full
    <3> SUFFICES ASSUME h # 0 PROVE h * Full >= Full
      OBVIOUS
    <3>1. h >= 1
      BY <1>4
    <3>2. h * Full >= 1 * Full
      BY ONLY <1>4, <3>1
    <3> QED BY <1>4, <3>2
  <2> QED BY <1>4, <2>1, <2>2
<1> QED BY <1>2, <1>3, <1>5 DEF WorthOf

(* cmp5_modulus.                                                           *)
LEMMA AtLeastIs ==
  ASSUME NEW r, Wide(r), NEW x
  PROVE  AtLeastModulus(r, x) <=> WorthOf(r) >= Modulus(x)
<1> DEFINE l == LimbsOf(Modulus(x), N)
<1>1. l \in Number /\ ValueOf(l) = Modulus(x) /\ Modulus(x) \in Nat /\ Modulus(x) < Full
  BY ModulusIs
<1>2. N \in DOMAIN r
  BY NIs DEF Wide
<1>3. Low(r) \in Number /\ ValueOf(Low(r)) \in Nat /\ Full \in Nat
  BY WideIs, NumbersAre, ModulusIs
<1>4. AtLeastModulus(r, x) <=> (r[N] # 0 \/ ~ Less(Low(r), l))
  BY <1>2 DEF AtLeastModulus
<1> HIDE DEF l
<1>5. Less(Low(r), l) <=> ValueOf(Low(r)) < Modulus(x)
  BY <1>1, <1>3, LessIs
<1>6. CASE r[N] = 0
  <2>1. WorthOf(r) = ValueOf(Low(r))
    BY <1>6, WideIs
  <2> QED BY <1>1, <1>3, <1>4, <1>5, <1>6, <2>1
<1>7. CASE r[N] # 0
  <2>1. WorthOf(r) >= Full /\ WorthOf(r) \in Nat
    BY <1>7, WideIs
  <2> QED BY <1>1, <1>3, <1>4, <1>7, <2>1
<1> QED BY <1>6, <1>7

(* from_be_bytes accepts what is below the modulus.                        *)
LEMMA CanonicalIs ==
  ASSUME NEW n \in 0..(Full - 1), NEW x
  PROVE  /\ Canonical(n, x) <=> n < Modulus(x)
         /\ LimbsOf(n, N) \in Number /\ ValueOf(LimbsOf(n, N)) = n
<1>1. n \in Nat /\ n < Full /\ Full \in Nat
  BY ModulusIs
<1>2. LimbsOf(n, N) \in Number /\ ValueOf(LimbsOf(n, N)) = n
  BY <1>1, LimbsOfNumber
<1> DEFINE l == LimbsOf(n, N)  m == LimbsOf(Modulus(x), N)
<1>3. N \notin DOMAIN l /\ Low(l) = l
  <2>1. DOMAIN l = 0..(N - 1) /\ l = [i \in 0..(N - 1) |-> l[i]]
    BY <1>2 DEF Number
  <2> HIDE DEF l
  <2>2. N \notin 0..(N - 1)
    BY NIs
  <2> QED BY <2>1, <2>2 DEF Low
<1>4. Canonical(n, x) <=> Less(l, m)
  BY <1>3 DEF Canonical, AtLeastModulus
<1>5. m \in Number /\ ValueOf(m) = Modulus(x)
  BY ModulusIs
<1>6. Less(l, m) <=> ValueOf(l) < ValueOf(m)
  <2> HIDE DEF l, m
  <2>1. l \in Number
    BY <1>2 DEF l
  <2> QED BY <1>5, <2>1, LessIs
<1> QED BY <1>2, <1>4, <1>5, <1>6

(* adc keeps the sum.                                                      *)
LEMMA SumIs ==
  ASSUME NEW a \in Number, NEW b \in Number
  PROVE  Wide(Sum(a, b)) /\ WorthOf(Sum(a, b)) = ValueOf(a) + ValueOf(b)
<1> DEFINE t == [i \in 0..(N - 1) |-> a[i] + b[i]]
<1>1. Sum(a, b) = Carried(t, N)
  BY DEF Sum
<1>2. Digits(a, N) /\ Digits(b, N) /\ N \in Nat
  BY NumbersAre, NIs
<1>3. Digits(t, N) /\ \A i \in 0..(N - 1) : t[i] = a[i] + b[i]
  <2>1. \A i \in 0..(N - 1) : a[i] \in Nat /\ b[i] \in Nat
    BY <1>2 DEF Digits
  <2> QED BY <2>1 DEF Digits
<1> HIDE DEF t
<1>4. /\ Carried(t, N) \in [0..N -> Nat] /\ \A i \in 0..(N - 1) : Carried(t, N)[i] \in Word
      /\ Prefix(Carried(t, N), N) + Carried(t, N)[N] * Weight(N) = Prefix(t, N)
  BY <1>2, <1>3, CarriedIs
<1>5. Wide(Carried(t, N))
  <2>1. N \in 0..N
    BY NIs
  <2> QED BY <1>4, <2>1 DEF Wide
<1> DEFINE S == {i \in Nat : i <= N => Prefix(t, i) = Prefix(a, i) + Prefix(b, i)}
<1>6. S = Nat
  <2>1. 0 \in S
    BY PrefixOfNone
  <2>2. ASSUME NEW i \in S PROVE i + 1 \in S
    <3> SUFFICES ASSUME i + 1 <= N PROVE Prefix(t, i + 1) = Prefix(a, i + 1) + Prefix(b, i + 1)
      OBVIOUS
    <3>1. i \in Nat /\ i < N /\ i \in 0..(N - 1) /\ Prefix(t, i) = Prefix(a, i) + Prefix(b, i)
      BY NIs
    <3>2. /\ Prefix(a, i + 1) = Prefix(a, i) + a[i] * Weight(i) /\ Prefix(a, i) \in Nat
          /\ Prefix(b, i + 1) = Prefix(b, i) + b[i] * Weight(i) /\ Prefix(b, i) \in Nat
          /\ Prefix(t, i + 1) = Prefix(t, i) + t[i] * Weight(i)
      BY <1>2, <1>3, <3>1, PrefixStep
    <3> DEFINE pa == Prefix(a, i)  pb == Prefix(b, i)  w == Weight(i)  x == a[i]  y == b[i]
    <3>3. pa \in Nat /\ pb \in Nat /\ w \in Nat /\ x \in Nat /\ y \in Nat /\ t[i] = x + y
      BY <1>2, <1>3, <3>1, <3>2, Weights DEF Digits
    <3>4. (pa + pb) + (x + y) * w = (pa + x * w) + (pb + y * w)
      <4> HIDE DEF pa, pb, w, x, y
      <4>1. (x + y) * w = x * w + y * w /\ x * w \in Nat /\ y * w \in Nat
        BY ONLY <3>3
      <4> QED BY <3>3, <4>1
    <3> QED BY <3>1, <3>2, <3>3, <3>4
  <2> HIDE DEF S
  <2>3. S \in SUBSET Nat
    BY DEF S
  <2> QED BY <2>1, <2>2, <2>3, NumberInduction
<1>7. Prefix(t, N) = Prefix(a, N) + Prefix(b, N)
  <2>1. N \in S /\ N <= N
    BY <1>6, NIs
  <2> QED BY <2>1
<1>8. Weight(N) = Full /\ ValueOf(a) = Prefix(a, N) /\ ValueOf(b) = Prefix(b, N)
  BY NumbersAre, ModulusIs
<1> QED BY <1>1, <1>4, <1>5, <1>7, <1>8 DEF WorthOf

(* What is left of a modulus or more, but less than twice, once it is      *)
(* taken away from the low limbs: the borrow meets the fifth limb.         *)
LEMMA OnceLess ==
  ASSUME NEW r, Wide(r), NEW x, WorthOf(r) >= Modulus(x), WorthOf(r) < 2 * Modulus(x)
  PROVE  LET d == Difference(Low(r), LimbsOf(Modulus(x), N)) IN
           /\ d.limbs \in Number /\ d.borrow = r[N]
           /\ ValueOf(d.limbs) = WorthOf(r) - Modulus(x)
<1> DEFINE l == LimbsOf(Modulus(x), N)  d == Difference(Low(r), l)
<1>1. l \in Number /\ ValueOf(l) = Modulus(x) /\ Modulus(x) \in Nat /\ Modulus(x) < Full
      /\ Full \in Nat /\ Full > 0
  BY ModulusIs
<1>2. Low(r) \in Number /\ ValueOf(Low(r)) = Prefix(r, N) /\ Prefix(r, N) \in Nat /\ Prefix(r, N) < Full
      /\ WorthOf(r) \in Nat
  BY WideIs
<1>3. /\ d.limbs \in Number /\ d.borrow \in {0, 1}
      /\ ValueOf(d.limbs) = (ValueOf(Low(r)) - ValueOf(l)) + d.borrow * Full
  <2> HIDE DEF l
  <2> QED BY <1>1, <1>2, DifferenceIs
<1>4. ValueOf(d.limbs) \in Nat /\ ValueOf(d.limbs) < Full
  <2> HIDE DEF d
  <2> QED BY <1>3, NumbersAre
<1>5. r[N] \in Nat /\ WorthOf(r) = Prefix(r, N) + r[N] * Full
  BY DEF Wide, WorthOf
<1> DEFINE p == Prefix(r, N)  h == r[N]  v == ValueOf(d.limbs)  b == d.borrow  m == Modulus(x)  o == WorthOf(r)
<1>6. /\ p \in Nat /\ h \in Nat /\ v \in Nat /\ v < Full /\ b \in {0, 1} /\ m \in Nat /\ m < Full
      /\ o = p + h * Full /\ o \in Nat /\ o >= m /\ o < 2 * m /\ v = (p - m) + b * Full
      /\ Full \in Nat /\ Full > 0 /\ p < Full
  BY <1>1, <1>2, <1>3, <1>4, <1>5
<1>7. b = h /\ v = o - m
  <2> HIDE DEF p, h, v, b, m, o
  <2>1. CASE h = 0
    <3>1. o = p
      BY ONLY <1>6, <2>1
    <3>2. b = 0
      <4> SUFFICES ASSUME b = 1 PROVE FALSE
        BY <1>6
      <4>1. v = (p - m) + Full
        BY ONLY <1>6, b = 1
      <4> QED BY ONLY <1>6, <3>1, <4>1
    <3>3. v = p - m
      BY ONLY <1>6, <3>2
    <3> QED BY <2>1, <3>1, <3>2, <3>3
  <2>2. CASE h = 1
    <3>1. o = p + Full
      BY ONLY <1>6, <2>2
    <3>2. b = 1
      <4> SUFFICES ASSUME b = 0 PROVE FALSE
        BY <1>6
      <4>1. v = p - m
        BY ONLY <1>6, b = 0
      <4> QED BY ONLY <1>6, <3>1, <4>1
    <3>3. v = (p - m) + Full
      BY ONLY <1>6, <3>2
    <3> QED BY ONLY <1>6, <2>2, <3>1, <3>2, <3>3
  <2>3. CASE h >= 2
    <3>1. h * Full >= 2 * Full
      BY ONLY <1>6, <2>3
    <3>2. h * Full \in Nat
      BY ONLY <1>6
    <3> QED BY ONLY <1>6, <3>1, <3>2
  <2> QED BY <1>6, <2>1, <2>2, <2>3
<1> QED BY <1>3, <1>7

(* add, one conditional subtraction in all copies.                         *)
LEMMA AddIs ==
  ASSUME NEW a \in Number, NEW b \in Number, NEW x,
         ValueOf(a) < Modulus(x), ValueOf(b) < Modulus(x)
  PROVE  Add(a, b, x) \in Number /\ ValueOf(Add(a, b, x)) = (ValueOf(a) + ValueOf(b)) % Modulus(x)
<1> DEFINE s == Sum(a, b)  m == Modulus(x)  o == WorthOf(s)
<1>1. Wide(s) /\ o = ValueOf(a) + ValueOf(b)
  BY SumIs
<1>2. ValueOf(a) \in Nat /\ ValueOf(b) \in Nat /\ m \in Nat \ {0} /\ m < Full /\ Full \in Nat
  BY NumbersAre, ModulusIs
<1>3. o \in Nat /\ o < 2 * m
  BY <1>1, <1>2
<1> DEFINE d == Difference(Low(s), LimbsOf(Modulus(x), N))
<1>4. Add(a, b, x) = IF AtLeastModulus(s, x) THEN d.limbs ELSE Low(s)
  BY DEF Add
<1>5. AtLeastModulus(s, x) <=> o >= m
  <2> HIDE DEF s
  <2> QED BY <1>1, AtLeastIs
<1>6. CASE o >= m
  <2>1. d.limbs \in Number /\ ValueOf(d.limbs) = o - m
    <3> HIDE DEF s
    <3> QED BY <1>1, <1>3, <1>6, OnceLess
  <2>2. o % m = o - m
    <3> HIDE DEF o, m
    <3>1. o = m * 1 + (o - m) /\ o - m \in 0..(m - 1) /\ 1 \in Int
      BY ONLY <1>2, <1>3, <1>6
    <3> QED BY ONLY <1>2, <1>3, <3>1, RemainderIs
  <2> QED BY <1>1, <1>4, <1>5, <1>6, <2>1, <2>2
<1>7. CASE ~ (o >= m)
  <2>1. Low(s) \in Number /\ ValueOf(Low(s)) = o
    <3> HIDE DEF s
    <3>1. s[N] = 0
      <4> SUFFICES ASSUME s[N] # 0 PROVE FALSE
        OBVIOUS
      <4>1. o >= Full
        BY <1>1, WideIs
      <4> QED BY <1>2, <1>3, <1>7, <4>1
    <3> QED BY <1>1, <3>1, WideIs
  <2>2. o % m = o
    <3> HIDE DEF o, m
    <3>1. o = m * 0 + o /\ o \in 0..(m - 1) /\ 0 \in Int
      BY ONLY <1>2, <1>3, <1>7
    <3> QED BY ONLY <1>2, <1>3, <3>1, RemainderIs
  <2> QED BY <1>1, <1>4, <1>5, <1>7, <2>1, <2>2
<1> QED BY <1>6, <1>7

-----------------------------------------------------------------------------
(***************************************************************************)
(* The schoolbook product and its reduction bit by bit.                    *)
(***************************************************************************)
(* The power of a sum of exponents.                                        *)
LEMMA PowersAdd ==
  ASSUME NEW x \in Int, NEW m \in Nat, NEW n \in Nat
  PROVE  Powers(x)[m + n] = Powers(x)[m] * Powers(x)[n]
<1> DEFINE q == Powers(x)
<1>1. q \in [Nat -> Int] /\ q[0] = 1 /\ \A k \in Nat : q[k + 1] = x * q[k]
  BY PowersAre
<1> HIDE DEF q
<1> DEFINE S == {k \in Nat : q[m + k] = q[m] * q[k]}
<1>2. 0 \in S
  <2>1. q[m] \in Int /\ m + 0 = m
    BY <1>1
  <2> DEFINE y == q[m]
  <2>2. y = y * 1
    <3> HIDE DEF y
    <3> QED BY <2>1 DEF y
  <2> QED BY <1>1, <2>1, <2>2
<1>3. ASSUME NEW k \in S PROVE k + 1 \in S
  <2>1. k \in Nat /\ m + k \in Nat /\ m + (k + 1) = (m + k) + 1 /\ q[m + k] = q[m] * q[k]
    OBVIOUS
  <2>2. q[(m + k) + 1] = x * q[m + k] /\ q[k + 1] = x * q[k] /\ q[m] \in Int /\ q[k] \in Int
    BY <1>1, <2>1
  <2> DEFINE y == q[m]  z == q[k]
  <2>3. x * (y * z) = y * (x * z)
    <3> HIDE DEF y, z
    <3>1. y \in Int /\ z \in Int
      BY <2>2 DEF y, z
    <3> QED BY ONLY <3>1, x \in Int
  <2>4. q[m + (k + 1)] = x * (y * z) /\ q[m] * q[k + 1] = y * (x * z)
    BY <2>1, <2>2
  <2> QED BY <2>1, <2>3, <2>4
<1>4. S = Nat
  <2> HIDE DEF S
  <2>1. S \in SUBSET Nat
    BY DEF S
  <2> QED BY <1>2, <1>3, <2>1, NumberInduction
<1> QED BY <1>4 DEF q

(* Weights multiply.                                                       *)
LEMMA WeightsAdd ==
  ASSUME NEW m \in Nat, NEW n \in Nat
  PROVE  Weight(m + n) = Weight(m) * Weight(n)
<1>1. Base \in Int
  BY BaseIs
<1> QED BY <1>1, PowersAdd DEF Weight

(* One row adds one limb's multiple of the other factor, in its place.     *)
Shares(a, b, i) == [k \in 0..(2 * N - 1) |-> IF k \in i..(i + N - 1) THEN a[i] * b[k - i] ELSE 0]

(* What the row is worth.                                                  *)
LEMMA SharesAre ==
  ASSUME NEW a \in Number, NEW b \in Number, NEW i \in 0..(N - 1)
  PROVE  /\ \A k \in 0..(2 * N - 1) : Shares(a, b, i)[k] \in Nat
         /\ Digits(Shares(a, b, i), 2 * N)
         /\ Prefix(Shares(a, b, i), 2 * N) = (a[i] * Weight(i)) * ValueOf(b)
<1> DEFINE s == Shares(a, b, i)
<1>1. a[i] \in Nat /\ \A k \in 0..(N - 1) : b[k] \in Nat
  BY NumbersAre DEF Digits
<1>2. N \in Nat /\ 2 * N \in Nat /\ i \in Nat /\ i < N
  BY NIs
<1>3. DOMAIN s = 0..(2 * N - 1) /\ \A k \in 0..(2 * N - 1) :
        s[k] = IF k \in i..(i + N - 1) THEN a[i] * b[k - i] ELSE 0
  BY DEF Shares
<1> HIDE DEF s
<1>4. ASSUME NEW k \in 0..(2 * N - 1) PROVE s[k] \in Nat
  <2>1. CASE k \in i..(i + N - 1)
    <3>1. k - i \in 0..(N - 1)
      BY <1>2, <2>1
    <3>2. b[k - i] \in Nat /\ s[k] = a[i] * b[k - i]
      BY <1>1, <1>3, <2>1, <3>1
    <3> DEFINE x == a[i]  y == b[k - i]
    <3>3. x * y \in Nat
      <4>1. x \in Nat /\ y \in Nat
        BY <1>1, <3>2
      <4> HIDE DEF x, y
      <4> QED BY ONLY <4>1
    <3> QED BY <3>2, <3>3
  <2>2. CASE k \notin i..(i + N - 1)
    BY <1>3, <2>2
  <2> QED BY <2>1, <2>2
<1>5. Digits(s, 2 * N)
  BY <1>3, <1>4 DEF Digits
<1> DEFINE f == a[i] * Weight(i)
<1>6. f \in Nat /\ Weight(i) \in Nat
  <2>1. Weight(i) \in Nat
    BY <1>2, Weights
  <2> DEFINE x == a[i]  y == Weight(i)
  <2>2. x * y \in Nat
    <3>1. x \in Nat /\ y \in Nat
      BY <1>1, <2>1
    <3> HIDE DEF x, y
    <3> QED BY ONLY <3>1
  <2> QED BY <2>1, <2>2
<1> DEFINE R(k) == IF k <= i THEN 0 ELSE IF k <= i + N THEN f * Prefix(b, k - i) ELSE f * Prefix(b, N)
<1> DEFINE S == {k \in Nat : k <= 2 * N => Prefix(s, k) = R(k)}
<1>7. 0 \in S
  BY <1>2, PrefixOfNone
<1>8. ASSUME NEW k \in S PROVE k + 1 \in S
  <2> SUFFICES ASSUME k + 1 <= 2 * N PROVE Prefix(s, k + 1) = R(k + 1)
    OBVIOUS
  <2>1. k \in Nat /\ k < 2 * N /\ k \in 0..(2 * N - 1) /\ Prefix(s, k) = R(k)
    BY <1>2
  <2>2. /\ Prefix(s, k + 1) = Prefix(s, k) + s[k] * Weight(k) /\ Prefix(s, k) \in Nat
        /\ Weight(k) \in Nat
    BY <1>2, <1>5, <2>1, PrefixStep, Weights
  <2>3. CASE k \in i..(i + N - 1)
    <3> DEFINE h == k - i
    <3>1. h \in Nat /\ h < N /\ h \in 0..(N - 1) /\ i + h = k /\ (k + 1) - i = h + 1
          /\ ~ (k + 1 <= i) /\ k + 1 <= i + N /\ (k <= i => h = 0) /\ k <= i + N
      BY <1>2, <2>3
    <3>2. s[k] = a[i] * b[h] /\ b[h] \in Nat
      BY <1>1, <1>3, <2>1, <2>3, <3>1
    <3>3. Weight(k) = Weight(i) * Weight(h) /\ Weight(h) \in Nat
      <4> HIDE DEF h
      <4>1. Weight(i + h) = Weight(i) * Weight(h)
        BY <1>2, <3>1, WeightsAdd
      <4> QED BY <3>1, <4>1, Weights
    <3>4. Prefix(b, h + 1) = Prefix(b, h) + b[h] * Weight(h) /\ Prefix(b, h) \in Nat
      <4> HIDE DEF h
      <4>1. Digits(b, N)
        BY NumbersAre
      <4> QED BY <1>2, <3>1, <4>1, PrefixStep
    <3>5. R(k) = f * Prefix(b, h)
      <4>1. CASE k <= i
        <5>1. h = 0 /\ Prefix(b, 0) = 0 /\ R(k) = 0
          BY <3>1, <4>1, PrefixOfNone
        <5>2. f * 0 = 0
          BY <1>6
        <5> QED BY <5>1, <5>2
      <4>2. CASE ~ (k <= i)
        BY <3>1, <4>2
      <4> QED BY <4>1, <4>2
    <3>6. R(k + 1) = f * Prefix(b, h + 1)
      BY <3>1
    <3> DEFINE x == a[i]  y == b[h]  u == Weight(i)  w == Weight(h)  p == Prefix(b, h)
    <3>7. (x * u) * p + (x * y) * (u * w) = (x * u) * (p + y * w)
      <4>1. x \in Nat /\ y \in Nat /\ u \in Nat /\ w \in Nat /\ p \in Nat
        BY <1>1, <1>6, <3>2, <3>3, <3>4
      <4> HIDE DEF x, y, u, w, p
      <4>2. (x * y) * (u * w) = (x * u) * (y * w)
        BY ONLY <4>1
      <4>3. x * u \in Nat /\ y * w \in Nat
        BY ONLY <4>1
      <4> DEFINE g == x * u  j == y * w
      <4>4. g * p + g * j = g * (p + j)
        <5>1. g \in Nat /\ j \in Nat
          BY ONLY <4>3
        <5> HIDE DEF g, j
        <5> QED BY ONLY <5>1, <4>1
      <4> QED BY ONLY <4>2, <4>4
    <3>8. Prefix(s, k + 1) = f * p + (x * y) * (u * w)
      BY <2>1, <2>2, <3>2, <3>3, <3>5
    <3>9. R(k + 1) = f * (p + y * w)
      BY <3>4, <3>6
    <3> QED BY <3>7, <3>8, <3>9
  <2>4. CASE k \notin i..(i + N - 1)
    <3>1. s[k] = 0
      BY <1>3, <2>1, <2>4
    <3>2. Prefix(s, k + 1) = R(k)
      BY <2>1, <2>2, <3>1
    <3>3. CASE k < i
      BY <1>2, <2>1, <3>2, <3>3
    <3>4. CASE k >= i + N
      <4>1. ~ (k <= i) /\ ~ (k + 1 <= i) /\ ~ (k + 1 <= i + N) /\ (k <= i + N => k - i = N)
        BY <1>2, <2>1, <3>4
      <4>2. R(k) = f * Prefix(b, N)
        BY <4>1
      <4>3. R(k + 1) = f * Prefix(b, N)
        BY <4>1
      <4> QED BY <3>2, <4>2, <4>3
    <3> QED BY <1>2, <2>1, <2>4, <3>3, <3>4
  <2> QED BY <2>3, <2>4
<1>9. S = Nat
  <2> HIDE DEF S
  <2>1. S \in SUBSET Nat
    BY DEF S
  <2> QED BY <1>7, <1>8, <2>1, NumberInduction
<1>10. Prefix(s, 2 * N) = f * Prefix(b, N)
  <2>1. Prefix(s, 2 * N) = R(2 * N)
    BY <1>2, <1>9
  <2>2. ~ (2 * N <= i) /\ (2 * N <= i + N => 2 * N - i = N)
    BY <1>2
  <2> QED BY <2>1, <2>2
<1>11. Prefix(b, N) = ValueOf(b)
  BY NumbersAre
<1> QED BY <1>4, <1>5, <1>10, <1>11 DEF s

(* Digits add up.                                                          *)
LEMMA PrefixAdds ==
  ASSUME NEW k \in Nat, NEW a, NEW b, NEW t, Digits(a, k), Digits(b, k), Digits(t, k),
         \A i \in 0..(k - 1) : t[i] = a[i] + b[i]
  PROVE  Prefix(t, k) = Prefix(a, k) + Prefix(b, k)
<1> DEFINE S == {i \in Nat : i <= k => Prefix(t, i) = Prefix(a, i) + Prefix(b, i)}
<1>6. S = Nat
  <2>1. 0 \in S
    BY PrefixOfNone
  <2>2. ASSUME NEW i \in S PROVE i + 1 \in S
    <3> SUFFICES ASSUME i + 1 <= k PROVE Prefix(t, i + 1) = Prefix(a, i + 1) + Prefix(b, i + 1)
      OBVIOUS
    <3>1. i \in Nat /\ i < k /\ i \in 0..(k - 1) /\ Prefix(t, i) = Prefix(a, i) + Prefix(b, i)
      OBVIOUS
    <3>2. /\ Prefix(a, i + 1) = Prefix(a, i) + a[i] * Weight(i) /\ Prefix(a, i) \in Nat
          /\ Prefix(b, i + 1) = Prefix(b, i) + b[i] * Weight(i) /\ Prefix(b, i) \in Nat
          /\ Prefix(t, i + 1) = Prefix(t, i) + t[i] * Weight(i)
      BY <3>1, PrefixStep
    <3> DEFINE pa == Prefix(a, i)  pb == Prefix(b, i)  w == Weight(i)  x == a[i]  y == b[i]
    <3>3. pa \in Nat /\ pb \in Nat /\ w \in Nat /\ x \in Nat /\ y \in Nat /\ t[i] = x + y
      BY <3>1, <3>2, Weights DEF Digits
    <3>4. (pa + pb) + (x + y) * w = (pa + x * w) + (pb + y * w)
      <4> HIDE DEF pa, pb, w, x, y
      <4>1. (x + y) * w = x * w + y * w /\ x * w \in Nat /\ y * w \in Nat
        BY ONLY <3>3
      <4> QED BY <3>3, <4>1
    <3> QED BY <3>1, <3>2, <3>3, <3>4
  <2> HIDE DEF S
  <2>3. S \in SUBSET Nat
    BY DEF S
  <2> QED BY <2>1, <2>2, <2>3, NumberInduction
<1> QED BY <1>6

(* The limbs of a product.                                                 *)
Product == [0..(2 * N - 1) -> Word]
(* mul: a row puts one more limb of a product in; the carry out of the top *)
(* that is lost is none.                                                   *)
LEMMA RowIs ==
  ASSUME NEW wide \in Product, NEW a \in Number, NEW b \in Number, NEW i \in 0..(N - 1),
         Prefix(wide, 2 * N) = Prefix(a, i) * ValueOf(b)
  PROVE  /\ Row(wide, a, b, i) \in Product
         /\ Prefix(Row(wide, a, b, i), 2 * N) = Prefix(a, i + 1) * ValueOf(b)
<1> DEFINE s == Shares(a, b, i)
           t == [k \in 0..(2 * N - 1) |-> wide[k] + (IF k \in i..(i + N - 1) THEN a[i] * b[k - i] ELSE 0)]
           c == Carried(t, 2 * N)
<1>1. Row(wide, a, b, i) = [k \in 0..(2 * N - 1) |-> c[k]]
  BY DEF Row
<1>2. N \in Nat /\ 2 * N \in Nat /\ i \in Nat /\ i < N /\ N >= 1
  BY NIs
<1>3. /\ \A k \in 0..(2 * N - 1) : s[k] \in Nat /\ t[k] = wide[k] + s[k]
      /\ Digits(s, 2 * N) /\ Prefix(s, 2 * N) = (a[i] * Weight(i)) * ValueOf(b)
  <2>1. \A k \in 0..(2 * N - 1) : t[k] = wide[k] + s[k]
    BY DEF Shares
  <2> HIDE DEF s, t
  <2> QED BY <2>1, SharesAre DEF s
<1>4. Digits(wide, 2 * N) /\ \A k \in 0..(2 * N - 1) : wide[k] \in Word
  <2>1. DOMAIN wide = 0..(2 * N - 1) /\ \A k \in 0..(2 * N - 1) : wide[k] \in Word
    BY DEF Product
  <2> QED BY <1>2, <2>1, LimbsAreDigits
<1>5. Digits(t, 2 * N)
  <2>1. DOMAIN t = 0..(2 * N - 1)
    OBVIOUS
  <2> HIDE DEF t, s
  <2>2. \A k \in 0..(2 * N - 1) : wide[k] \in Nat
    BY <1>4 DEF Digits
  <2>3. \A k \in 0..(2 * N - 1) : t[k] \in Nat
    BY <1>3, <2>2
  <2> QED BY <2>1, <2>3 DEF Digits
<1> HIDE DEF s, t
<1>6. Prefix(t, 2 * N) = Prefix(wide, 2 * N) + Prefix(s, 2 * N)
  BY <1>2, <1>3, <1>4, <1>5, PrefixAdds
<1>7. /\ c \in [0..(2 * N) -> Nat] /\ \A k \in 0..(2 * N - 1) : c[k] \in Word
      /\ Prefix(c, 2 * N) + c[2 * N] * Weight(2 * N) = Prefix(t, 2 * N)
  BY <1>2, <1>5, CarriedIs
<1> HIDE DEF c
<1>8. Row(wide, a, b, i) \in Product
  BY <1>1, <1>7 DEF Product
<1>9. Prefix(Row(wide, a, b, i), 2 * N) = Prefix(c, 2 * N)
  <2> DEFINE o == Row(wide, a, b, i)
  <2>1. DOMAIN o = 0..(2 * N - 1) /\ \A k \in 0..(2 * N - 1) : o[k] = c[k] /\ o[k] \in Word
    BY <1>1, <1>7
  <2> HIDE DEF o
  <2>2. Digits(o, 2 * N)
    BY <1>2, <2>1, LimbsAreDigits
  <2>3. 0..(2 * N - 1) \subseteq DOMAIN c
    BY <1>2, <1>7
  <2>4. Digits(c, 2 * N)
    BY <1>2, <1>7, <2>3, LimbsAreDigits
  <2>5. Prefix(o, 2 * N) = Prefix(c, 2 * N)
    BY <1>2, <2>1, <2>2, <2>4, PrefixOfEquals
  <2> QED BY <2>5 DEF o
<1>10. /\ Prefix(a, i + 1) = Prefix(a, i) + a[i] * Weight(i) /\ Prefix(a, i) \in Nat
       /\ Prefix(a, i + 1) \in Nat
  BY <1>2, NumbersAre, PrefixStep
<1>11. a[i] \in Nat /\ Weight(i) \in Nat /\ ValueOf(b) \in Nat /\ ValueOf(b) < Full
  BY <1>2, NumbersAre, Weights DEF Digits
<1>12. Prefix(t, 2 * N) = Prefix(a, i + 1) * ValueOf(b)
  <2> DEFINE p == Prefix(a, i)  f == a[i] * Weight(i)  v == ValueOf(b)
  <2>1. p \in Nat /\ f \in Nat /\ v \in Nat
    <3> DEFINE x == a[i]  y == Weight(i)
    <3>1. x * y \in Nat
      <4>1. x \in Nat /\ y \in Nat
        BY <1>11
      <4> HIDE DEF x, y
      <4> QED BY ONLY <4>1
    <3> QED BY <1>10, <1>11, <3>1
  <2>2. p * v + f * v = (p + f) * v
    <3> HIDE DEF p, f, v
    <3> QED BY ONLY <2>1
  <2> QED BY <1>3, <1>6, <1>10, <2>2
<1>13. Prefix(a, i + 1) < Full
  <2>1. Prefix(a, i + 1) < Weight(i + 1)
    <3>1. i + 1 \in 0..N
      BY <1>2
    <3> QED BY <1>2, <3>1, NumbersAre, PrefixBound
  <2>2. Weight(i + 1) <= Full
    <3> DEFINE h == N - (i + 1)
    <3>1. h \in Nat /\ (i + 1) + h = N /\ i + 1 \in Nat
      BY <1>2
    <3>2. Full = Weight(i + 1) * Weight(h)
      <4> HIDE DEF h
      <4>1. Weight((i + 1) + h) = Weight(i + 1) * Weight(h)
        BY <3>1, WeightsAdd
      <4> QED BY <3>1, <4>1, ModulusIs
    <3> DEFINE x == Weight(i + 1)  y == Weight(h)
    <3>3. x \in Nat /\ y \in Nat /\ y >= 1
      BY <3>1, Weights
    <3>4. x * 1 <= x * y /\ x * 1 = x
      <4> HIDE DEF x, y
      <4> QED BY ONLY <3>3
    <3> QED BY <3>2, <3>4
  <2>3. Weight(i + 1) \in Nat /\ Full \in Nat
    <3>1. i + 1 \in Nat
      BY <1>2
    <3> QED BY <3>1, Weights, ModulusIs
  <2> QED BY <1>10, <2>1, <2>2, <2>3
<1>14. c[2 * N] = 0
  <2> DEFINE x == Prefix(a, i + 1)  y == ValueOf(b)  h == c[2 * N]  w == Weight(2 * N)  o == Prefix(c, 2 * N)
  <2>1. w = Full * Full
    <3>1. 2 * N = N + N
      BY <1>2
    <3> QED BY <1>2, <3>1, WeightsAdd, ModulusIs
  <2>2. x \in Nat /\ y \in Nat /\ x < Full /\ y < Full /\ Full \in Nat /\ Full > 0
    BY <1>10, <1>11, <1>13, ModulusIs
  <2>3. o \in Nat
    <3>1. 0..(2 * N - 1) \subseteq DOMAIN c
      BY <1>2, <1>7
    <3>2. Digits(c, 2 * N)
      BY <1>2, <1>7, <3>1, LimbsAreDigits
    <3> QED BY <1>2, <3>2, PrefixIsNat
  <2>4. h \in Nat
    BY <1>2, <1>7
  <2>5. o + h * w = x * y
    BY <1>7, <1>12
  <2>6. h = 0
    <3> HIDE DEF x, y, h, w, o
    <3>1. x * y <= x * Full /\ x * Full <= (Full - 1) * Full
      BY ONLY <2>2
    <3>2. (Full - 1) * Full = Full * Full - Full /\ Full * Full \in Nat /\ x * y \in Nat /\ x * Full \in Nat
      BY ONLY <2>2
    <3>3. SUFFICES ASSUME h >= 1 PROVE FALSE
      BY <2>4
    <3>4. w \in Nat /\ h * w >= w /\ h * w \in Nat
      <4>1. w \in Nat
        BY <2>1, <3>2
      <4>2. h * w >= 1 * w
        BY ONLY <2>4, <3>3, <4>1
      <4> QED BY ONLY <2>4, <4>1, <4>2
    <3> QED BY ONLY <2>1, <2>2, <2>3, <2>5, <3>1, <3>2, <3>4
  <2> QED BY <2>6
<1>15. c[2 * N] * Weight(2 * N) = 0 /\ Prefix(c, 2 * N) \in Nat
  <2>1. 0..(2 * N - 1) \subseteq DOMAIN c
    BY <1>2, <1>7
  <2>2. Digits(c, 2 * N)
    BY <1>2, <1>7, <2>1, LimbsAreDigits
  <2>3. Prefix(c, 2 * N) \in Nat /\ Weight(2 * N) \in Nat
    BY <1>2, <2>2, PrefixIsNat, Weights
  <2> QED BY <1>14, <2>3
<1> QED BY <1>7, <1>8, <1>9, <1>12, <1>15

(* A remainder has one limb more than a number.                            *)
Remainder == [0..N -> Word]

(* Doubling a limb and what it hands on.                                   *)
LEMMA DoubledLimb ==
  ASSUME NEW x \in Word
  PROVE  /\ x \div Half \in {0, 1} /\ (2 * x) % Base \in Nat /\ (2 * x) % Base <= Base - 2
         /\ 2 * x = ((2 * x) % Base) + Base * (x \div Half)
<1>1. Base = 2 * Half /\ Half \in Nat /\ Half >= 1 /\ x \in Nat /\ x < Base
  BY BaseIs
<1> DEFINE h == Half  b == Base
<1>2. b = 2 * h /\ h \in Nat \ {0} /\ x \in Nat /\ x < b /\ b \in Nat \ {0}
  BY <1>1
<1> HIDE DEF h, b
<1>3. CASE x < h
  <2>1. x \div h = 0
    <3>1. x = h * 0 + x /\ x \in 0..(h - 1) /\ 0 \in Int
      BY ONLY <1>2, <1>3
    <3> QED BY ONLY <1>2, <3>1, QuotientIs
  <2>2. (2 * x) % b = 2 * x
    <3>1. 2 * x = b * 0 + 2 * x /\ 2 * x \in 0..(b - 1) /\ 0 \in Int /\ 2 * x \in Nat
      BY ONLY <1>2, <1>3
    <3> QED BY ONLY <1>2, <3>1, QuotientIs
  <2> QED BY <1>2, <1>3, <2>1, <2>2 DEF h, b
<1>4. CASE ~ (x < h)
  <2>1. x \div h = 1
    <3>1. x = h * 1 + (x - h) /\ x - h \in 0..(h - 1) /\ 1 \in Int
      BY ONLY <1>2, <1>4
    <3> QED BY ONLY <1>2, <3>1, QuotientIs
  <2>2. (2 * x) % b = 2 * x - b
    <3>1. 2 * x = b * 1 + (2 * x - b) /\ 2 * x - b \in 0..(b - 1) /\ 1 \in Int /\ 2 * x \in Nat
      BY ONLY <1>2, <1>4
    <3> QED BY ONLY <1>2, <3>1, QuotientIs
  <2> QED BY <1>2, <1>4, <2>1, <2>2 DEF h, b
<1> QED BY <1>3, <1>4

(* reduce_wide, r = 2r + bit: nothing leaves the fifth limb.               *)
LEMMA ShiftedIs ==
  ASSUME NEW r \in Remainder, r[N] = 0, NEW bit \in {0, 1}
  PROVE  /\ Shifted(r, bit) \in Remainder /\ Wide(Shifted(r, bit))
         /\ WorthOf(Shifted(r, bit)) = 2 * WorthOf(r) + bit
<1> DEFINE s == Shifted(r, bit)
           u == [i \in 0..N |-> IF i = 0 THEN bit ELSE r[i - 1] \div Half]
<1>1. N \in Nat /\ N >= 1 /\ Base \div 2 = Half
  <2>1. Base = 2 * Half /\ Half \in Nat
    BY BaseIs
  <2>2. Base \div 2 = Half
    <3> DEFINE h == Half
    <3>1. Base = 2 * h + 0 /\ 0 \in 0..(2 - 1) /\ h \in Int /\ Base \in Nat /\ 2 \in Nat \ {0}
      BY <2>1, BaseIs
    <3>2. Base \div 2 = h
      <4> HIDE DEF h
      <4> QED BY ONLY <3>1, QuotientIs
    <3> QED BY <3>2
  <2> QED BY <2>2, NIs
<1>2. s = [i \in 0..N |-> ((2 * r[i]) % Base) + u[i]]
  <2>1. s = [i \in 0..N |-> ((2 * r[i]) % Base) + (IF i = 0 THEN bit ELSE r[i - 1] \div Half)]
    BY <1>1 DEF Shifted
  <2> QED BY <2>1
<1>3. DOMAIN s = 0..N /\ \A i \in 0..N : s[i] = ((2 * r[i]) % Base) + u[i]
  BY <1>2
<1>4. u[0] = bit /\ \A i \in 0..(N - 1) : u[i + 1] = r[i] \div Half
  BY <1>1
<1> HIDE DEF s, u
<1>5. \A i \in 0..N : r[i] \in Word
  BY DEF Remainder
<1>6. ASSUME NEW i \in 0..N PROVE u[i] \in {0, 1}
  <2>1. CASE i = 0
    BY <1>4, <2>1
  <2>2. CASE i # 0
    <3>1. i - 1 \in 0..(N - 1) /\ i - 1 \in 0..N /\ (i - 1) + 1 = i
      BY <1>1, <2>2
    <3>2. u[(i - 1) + 1] = r[i - 1] \div Half
      BY <1>4, <3>1
    <3>3. r[i - 1] \in Word
      BY <1>5, <3>1
    <3> QED BY <3>1, <3>2, <3>3, DoubledLimb
  <2> QED BY <2>1, <2>2
<1>7. ASSUME NEW i \in 0..N PROVE s[i] \in Word
  <2>1. (2 * r[i]) % Base \in Nat /\ (2 * r[i]) % Base <= Base - 2
    BY <1>5, DoubledLimb
  <2> QED BY <1>3, <1>6, <2>1, BaseIs
<1>8. s \in Remainder
  <2>1. s = [i \in 0..N |-> s[i]]
    BY <1>2
  <2> QED BY <1>7, <2>1 DEF Remainder
<1>9. Digits(s, N) /\ Digits(r, N)
  <2>1. 0..(N - 1) \subseteq 0..N /\ DOMAIN r = 0..N
    BY <1>1 DEF Remainder
  <2> QED BY <1>1, <1>3, <1>5, <1>7, <2>1, LimbsAreDigits
<1> DEFINE S == {i \in Nat : i <= N => Prefix(s, i) + u[i] * Weight(i) = 2 * Prefix(r, i) + bit}
<1>10. S = Nat
  <2>1. 0 \in S
    <3>1. u[0] * Weight(0) = bit
      BY <1>4, Weights
    <3> QED BY <3>1, PrefixOfNone
  <2>2. ASSUME NEW i \in S PROVE i + 1 \in S
    <3> SUFFICES ASSUME i + 1 <= N
                 PROVE  Prefix(s, i + 1) + u[i + 1] * Weight(i + 1) = 2 * Prefix(r, i + 1) + bit
      OBVIOUS
    <3>1. i \in Nat /\ i < N /\ i \in 0..(N - 1) /\ i \in 0..N /\ i + 1 \in 0..N
          /\ Prefix(s, i) + u[i] * Weight(i) = 2 * Prefix(r, i) + bit
      BY <1>1
    <3>2. /\ Prefix(s, i + 1) = Prefix(s, i) + s[i] * Weight(i) /\ Prefix(s, i) \in Nat
          /\ Prefix(r, i + 1) = Prefix(r, i) + r[i] * Weight(i) /\ Prefix(r, i) \in Nat
      BY <1>1, <1>9, <3>1, PrefixStep
    <3>3. Weight(i) \in Nat /\ Weight(i + 1) = Base * Weight(i) /\ Base \in Nat
      BY <3>1, Weights, BaseIs
    <3>4. /\ (2 * r[i]) % Base \in Nat /\ 2 * r[i] = ((2 * r[i]) % Base) + Base * u[i + 1]
          /\ s[i] = ((2 * r[i]) % Base) + u[i] /\ r[i] \in Nat
      <4>1. r[i] \in Word /\ s[i] = ((2 * r[i]) % Base) + u[i] /\ u[i + 1] = r[i] \div Half
        BY <1>3, <1>4, <1>5, <3>1
      <4>2. /\ (2 * r[i]) % Base \in Nat
            /\ 2 * r[i] = ((2 * r[i]) % Base) + Base * (r[i] \div Half)
        BY <4>1, DoubledLimb
      <4>3. r[i] \in Nat
        BY <4>1, BaseIs
      <4> QED BY <4>1, <4>2, <4>3
    <3>5. u[i] \in Nat /\ u[i + 1] \in Nat
      BY <1>6, <3>1
    <3> DEFINE ps == Prefix(s, i)  pr == Prefix(r, i)  w == Weight(i)  x == r[i]  z == (2 * x) % Base
               y == s[i]  v == u[i]  n == u[i + 1]
    <3>6. (ps + y * w) + n * (Base * w) = 2 * (pr + x * w) + bit
      <4>1. /\ ps \in Nat /\ pr \in Nat /\ w \in Nat /\ x \in Nat /\ z \in Nat /\ v \in Nat /\ n \in Nat
            /\ Base \in Nat /\ y = z + v /\ 2 * x = z + Base * n /\ ps + v * w = 2 * pr + bit
        BY <3>1, <3>2, <3>3, <3>4, <3>5
      <4> HIDE DEF ps, pr, w, x, y, z, v, n
      <4>2. (z + v) * w = z * w + v * w /\ (2 * x) * w = 2 * (x * w)
        BY ONLY <4>1
      <4>3. (z + Base * n) * w = z * w + n * (Base * w)
        BY ONLY <4>1
      <4>4. z * w \in Nat /\ v * w \in Nat /\ x * w \in Nat /\ n * (Base * w) \in Nat
        BY ONLY <4>1
      <4> QED BY ONLY <4>1, <4>2, <4>3, <4>4, bit \in {0, 1}
    <3> QED BY <3>2, <3>3, <3>6
  <2> HIDE DEF S
  <2>3. S \in SUBSET Nat
    BY DEF S
  <2> QED BY <2>1, <2>2, <2>3, NumberInduction
<1>11. Prefix(s, N) + u[N] * Full = 2 * Prefix(r, N) + bit
  <2>1. N \in S /\ N <= N /\ Weight(N) = Full
    BY <1>1, <1>10, ModulusIs
  <2> QED BY <2>1
<1>12. s[N] = u[N]
  <2>1. N \in 0..N /\ (2 * r[N]) % Base = 0
    <3>1. Base \in Nat \ {0} /\ 0 = Base * 0 + 0 /\ 0 \in 0..(Base - 1) /\ 0 \in Int /\ 0 \in Nat
      BY BaseIs
    <3>2. 0 % Base = 0
      BY ONLY <3>1, QuotientIs
    <3> QED BY <1>1, <3>2
  <2>2. u[N] \in Nat
    BY <1>6, <2>1
  <2> QED BY <1>3, <2>1, <2>2
<1>13. WorthOf(s) = 2 * WorthOf(r) + bit
  <2>1. WorthOf(r) = Prefix(r, N)
    <3>1. Prefix(r, N) \in Nat /\ r[N] * Full = 0
      BY <1>1, <1>9, PrefixIsNat, ModulusIs
    <3> QED BY <3>1 DEF WorthOf
  <2> QED BY <1>11, <1>12, <2>1 DEF WorthOf
<1>14. Wide(s)
  <2>1. N \in 0..N /\ \A i \in 0..(N - 1) : i \in 0..N
    BY <1>1
  <2>2. s[N] \in Nat
    BY <1>7, <2>1, BaseIs
  <2> QED BY <1>3, <1>7, <2>1, <2>2 DEF Wide
<1> QED BY <1>8, <1>13, <1>14 DEF s

(* sub5_prime, sub_order5, sub_modulus5 leave a remainder.                 *)
LEMMA SubtractedIs ==
  ASSUME NEW r \in Remainder, NEW x, WorthOf(r) >= Modulus(x), WorthOf(r) < 2 * Modulus(x)
  PROVE  /\ Subtracted(r, x) \in Remainder /\ Subtracted(r, x)[N] = 0
         /\ WorthOf(Subtracted(r, x)) = WorthOf(r) - Modulus(x)
<1> DEFINE d == Difference(Low(r), LimbsOf(Modulus(x), N))  s == Subtracted(r, x)
<1>1. Wide(r)
  <2>1. N \in 0..N /\ \A i \in 0..(N - 1) : i \in 0..N
    BY NIs
  <2> QED BY <2>1, BaseIs DEF Wide, Remainder
<1>2. d.limbs \in Number /\ d.borrow = r[N] /\ ValueOf(d.limbs) = WorthOf(r) - Modulus(x)
  BY <1>1, OnceLess
<1>3. s = [i \in 0..N |-> IF i < N THEN d.limbs[i]
                          ELSE IF x = "balance" THEN 0 ELSE (r[N] - d.borrow) % Base]
  BY DEF Subtracted
<1> HIDE DEF d
<1>4. (r[N] - d.borrow) % Base = 0
  <2>1. r[N] \in Nat /\ Base \in Nat \ {0}
    BY <1>1, BaseIs DEF Wide
  <2>2. r[N] - d.borrow = 0
    BY <1>2, <2>1
  <2>3. 0 = Base * 0 + 0 /\ 0 \in 0..(Base - 1) /\ 0 \in Int /\ 0 \in Nat
    BY <2>1
  <2>4. 0 % Base = 0
    BY ONLY <2>1, <2>3, QuotientIs
  <2> QED BY <2>2, <2>4
<1>5. s = [i \in 0..N |-> IF i < N THEN d.limbs[i] ELSE 0]
  BY <1>3, <1>4
<1> HIDE DEF s
<1>6. DOMAIN s = 0..N /\ s[N] = 0 /\ \A i \in 0..(N - 1) : s[i] = d.limbs[i]
  <2>1. N \in 0..N /\ ~ (N < N) /\ \A i \in 0..(N - 1) : i \in 0..N /\ i < N
    BY NIs
  <2> QED BY <1>5, <2>1
<1>7. s \in Remainder
  <2>1. ASSUME NEW i \in 0..N PROVE s[i] \in Word
    <3>1. CASE i = N
      BY <1>6, <3>1, BaseIs
    <3>2. CASE i # N
      <4>1. i \in 0..(N - 1)
        BY <3>2, NIs
      <4>2. d.limbs[i] \in Word
        BY <1>2, <4>1, NumbersAre
      <4> QED BY <1>6, <4>1, <4>2
    <3> QED BY <3>1, <3>2
  <2>2. s = [i \in 0..N |-> s[i]]
    BY <1>5
  <2> QED BY <2>1, <2>2 DEF Remainder
<1>8. Prefix(s, N) = ValueOf(d.limbs)
  <2> DEFINE l == d.limbs
  <2>1. Digits(l, N) /\ ValueOf(l) = Prefix(l, N) /\ \A i \in 0..(N - 1) : l[i] \in Word
    <3>1. l \in Number
      BY <1>2
    <3> HIDE DEF l
    <3> QED BY <3>1, NumbersAre
  <2>2. 0..(N - 1) \subseteq DOMAIN s
    BY <1>6, NIs
  <2>3. Digits(s, N)
    BY <1>6, <2>1, <2>2, NIs, LimbsAreDigits
  <2>4. Prefix(s, N) = Prefix(l, N)
    <3>1. \A i \in 0..(N - 1) : s[i] = l[i]
      BY <1>6
    <3> HIDE DEF l
    <3> QED BY <2>1, <2>3, <3>1, NIs, PrefixOfEquals
  <2> QED BY <2>1, <2>4
<1>9. WorthOf(s) = ValueOf(d.limbs)
  <2>1. ValueOf(d.limbs) \in Nat /\ s[N] * Full = 0
    BY <1>2, <1>6, NumbersAre, ModulusIs
  <2> QED BY <1>8, <2>1 DEF WorthOf
<1> QED BY <1>2, <1>6, <1>7, <1>9 DEF s

(* What the limbs from the i-th up are worth, in units of the i-th.        *)
Above(a, i) == Prefix(a, 2 * N) \div Weight(i)

(* A product is worth what its limbs can hold.                             *)
LEMMA ProductsAre ==
  ASSUME NEW a \in Product
  PROVE  /\ DOMAIN a = 0..(2 * N - 1) /\ \A i \in 0..(2 * N - 1) : a[i] \in Word
         /\ Digits(a, 2 * N) /\ Prefix(a, 2 * N) \in Nat /\ Prefix(a, 2 * N) < Weight(2 * N)
         /\ 2 * N \in Nat
<1>1. 2 * N \in Nat /\ 2 * N \in 0..(2 * N)
  BY NIs
<1>2. DOMAIN a = 0..(2 * N - 1) /\ \A i \in 0..(2 * N - 1) : a[i] \in Word
  BY DEF Product
<1>3. Digits(a, 2 * N)
  BY <1>1, <1>2, LimbsAreDigits
<1> QED BY <1>1, <1>2, <1>3, PrefixBound

(* The limbs from the i-th up begin with the i-th.                         *)
LEMMA AboveIs ==
  ASSUME NEW a \in Product, NEW i \in 0..(2 * N)
  PROVE  /\ Above(a, i) \in Nat
         /\ Prefix(a, 2 * N) = Prefix(a, i) + Weight(i) * Above(a, i)
<1>1. DOMAIN a = 0..(2 * N - 1) /\ (\A j \in 0..(2 * N - 1) : a[j] \in Word)
      /\ Digits(a, 2 * N) /\ 2 * N \in Nat
  BY ProductsAre
<1>2. i \in Nat /\ 2 * N - i \in Nat /\ i + (2 * N - i) = 2 * N
  BY <1>1
<1>3. Prefix(a, i) \in Nat /\ Prefix(a, i) < Weight(i) /\ Weight(i) \in Nat
  BY <1>1, <1>2, PrefixBound, Weights
<1> DEFINE S == {n \in Nat : i + n <= 2 * N =>
                   \E x \in Nat : Prefix(a, i + n) = Prefix(a, i) + Weight(i) * x}
<1>4. 0 \in S
  <2>1. i + 0 = i /\ Prefix(a, i) = Prefix(a, i) + Weight(i) * 0
    BY <1>2, <1>3
  <2> QED BY <2>1
<1>5. ASSUME NEW n \in S PROVE n + 1 \in S
  <2> SUFFICES ASSUME i + (n + 1) <= 2 * N
               PROVE  \E x \in Nat : Prefix(a, i + (n + 1)) = Prefix(a, i) + Weight(i) * x
    OBVIOUS
  <2>1. n \in Nat /\ i + n <= 2 * N /\ i + n < 2 * N /\ i + n \in Nat /\ i + (n + 1) = (i + n) + 1
        /\ i + n \in 0..(2 * N - 1)
    BY <1>2
  <2>2. PICK x \in Nat : Prefix(a, i + n) = Prefix(a, i) + Weight(i) * x
    BY <2>1
  <2>3. Prefix(a, (i + n) + 1) = Prefix(a, i + n) + a[i + n] * Weight(i + n)
    BY <1>1, <2>1, PrefixStep
  <2>4. Weight(i + n) = Weight(i) * Weight(n) /\ Weight(n) \in Nat /\ a[i + n] \in Nat
    <3>1. Weight(i + n) = Weight(i) * Weight(n)
      BY <1>2, <2>1, WeightsAdd
    <3>2. Weight(n) \in Nat
      BY <2>1, Weights
    <3>3. a[i + n] \in Word
      BY <1>1, <2>1
    <3> QED BY <3>1, <3>2, <3>3, BaseIs
  <2> DEFINE p == Prefix(a, i)  w == Weight(i)  u == Weight(n)  d == a[i + n]  y == x + d * u
  <2>5. y \in Nat /\ (p + w * x) + d * (w * u) = p + w * y
    <3>1. p \in Nat /\ w \in Nat /\ u \in Nat /\ d \in Nat
      BY <1>3, <2>4
    <3> HIDE DEF p, w, u, d
    <3>2. w * (x + d * u) = w * x + d * (w * u)
      BY ONLY <3>1, x \in Nat
    <3>3. w * x \in Nat /\ d * (w * u) \in Nat /\ d * u \in Nat
      BY ONLY <3>1, x \in Nat
    <3> QED BY <3>1, <3>2, <3>3
  <2>6. Prefix(a, i + (n + 1)) = p + w * y
    BY <2>1, <2>2, <2>3, <2>4, <2>5
  <2> HIDE DEF y
  <2> QED BY <2>5, <2>6
<1>6. S = Nat
  <2> HIDE DEF S
  <2>1. S \in SUBSET Nat
    BY DEF S
  <2> QED BY <1>4, <1>5, <2>1, NumberInduction
<1>7. PICK x \in Nat : Prefix(a, 2 * N) = Prefix(a, i) + Weight(i) * x
  <2>1. (2 * N - i) \in S
    BY <1>2, <1>6
  <2> QED BY <1>2, <2>1
<1>8. Above(a, i) = x
  <2> DEFINE v == Prefix(a, 2 * N)  p == Prefix(a, i)  w == Weight(i)
  <2>1. v \in Nat /\ w \in Nat \ {0} /\ x \in Int /\ p \in 0..(w - 1) /\ v = w * x + p
    <3>1. w * x \in Nat
      BY <1>3
    <3>2. v \in Nat
      BY ProductsAre
    <3> QED BY <1>3, <1>7, <3>1, <3>2
  <2>2. v \div w = x
    <3> HIDE DEF v, p, w
    <3> QED BY ONLY <2>1, QuotientIs
  <2> QED BY <2>2 DEF Above
<1> QED BY <1>7, <1>8

(* Above the top there is none, above the bottom are all.                  *)
LEMMA AboveSteps ==
  ASSUME NEW a \in Product
  PROVE  /\ Above(a, 0) = Prefix(a, 2 * N) /\ Above(a, 2 * N) = 0
         /\ \A i \in 0..(2 * N - 1) : Above(a, i) = a[i] + Base * Above(a, i + 1)
<1>1. Digits(a, 2 * N) /\ 2 * N \in Nat /\ Prefix(a, 2 * N) \in Nat /\ Prefix(a, 2 * N) < Weight(2 * N)
  BY ProductsAre
<1>2. Above(a, 0) = Prefix(a, 2 * N)
  <2>1. 0 \in 0..(2 * N)
    BY <1>1
  <2>2. Prefix(a, 2 * N) = Prefix(a, 0) + Weight(0) * Above(a, 0) /\ Above(a, 0) \in Nat
    BY <2>1, AboveIs
  <2> QED BY <2>2, PrefixOfNone, Weights
<1>3. Above(a, 2 * N) = 0
  <2>1. 2 * N \in 0..(2 * N)
    BY <1>1
  <2> DEFINE v == Prefix(a, 2 * N)  w == Weight(2 * N)  x == Above(a, 2 * N)
  <2>2. v = v + w * x /\ x \in Nat
    BY <2>1, AboveIs
  <2>3. x = 0
    <3>1. v \in Nat /\ w \in Nat /\ w > 0
      BY <1>1, Weights
    <3> HIDE DEF v, w, x
    <3>2. w * x = 0
      <4>1. w * x \in Nat
        BY ONLY <2>2, <3>1
      <4> QED BY ONLY <2>2, <3>1, <4>1
    <3>3. SUFFICES ASSUME x >= 1 PROVE FALSE
      BY <2>2
    <3>4. w * x >= w * 1
      BY ONLY <2>2, <3>1, <3>3
    <3> QED BY ONLY <3>1, <3>2, <3>4
  <2> QED BY <2>3
<1>4. ASSUME NEW i \in 0..(2 * N - 1) PROVE Above(a, i) = a[i] + Base * Above(a, i + 1)
  <2>1. i \in Nat /\ i < 2 * N /\ i \in 0..(2 * N) /\ i + 1 \in 0..(2 * N)
    BY <1>1
  <2>2. Prefix(a, 2 * N) = Prefix(a, i) + Weight(i) * Above(a, i) /\ Above(a, i) \in Nat
    BY <2>1, AboveIs
  <2>3. Prefix(a, 2 * N) = Prefix(a, i + 1) + Weight(i + 1) * Above(a, i + 1) /\ Above(a, i + 1) \in Nat
    BY <2>1, AboveIs
  <2>4. Prefix(a, i + 1) = Prefix(a, i) + a[i] * Weight(i) /\ Prefix(a, i) \in Nat
    BY <1>1, <2>1, PrefixStep
  <2>5. Weight(i + 1) = Base * Weight(i) /\ Weight(i) \in Nat /\ Weight(i) > 0 /\ a[i] \in Nat /\ Base \in Nat
    BY <1>1, <2>1, Weights, BaseIs DEF Digits
  <2> DEFINE p == Prefix(a, i)  w == Weight(i)  x == Above(a, i)  y == Above(a, i + 1)  d == a[i]
             z == d + Base * y
  <2>6. x = z
    <3>1. /\ p \in Nat /\ w \in Nat /\ w > 0 /\ x \in Nat /\ y \in Nat /\ d \in Nat /\ Base \in Nat
          /\ p + w * x = (p + d * w) + (Base * w) * y
      BY <2>2, <2>3, <2>4, <2>5
    <3> HIDE DEF p, w, x, y, d
    <3>2. w * z = d * w + (Base * w) * y /\ z \in Nat
      BY ONLY <3>1
    <3>3. d * w \in Nat /\ (Base * w) * y \in Nat /\ w * x \in Nat
      BY ONLY <3>1
    <3>4. w * x = w * z
      BY ONLY <3>1, <3>2, <3>3
    <3> HIDE DEF z
    <3>5. w * (x - z) = 0
      BY ONLY <3>1, <3>2, <3>4
    <3>6. x - z = 0
      BY ONLY <3>1, <3>2, <3>5
    <3> QED BY ONLY <3>1, <3>2, <3>6
  <2> QED BY <2>6
<1> QED BY <1>2, <1>3, <1>4

(* Powers of two.                                                          *)
Two(n) == Powers(2)[n]

(* The recursion of the powers of two.                                     *)
LEMMA Twos ==
  /\ Two(0) = 1 /\ Two(WordBits) = Base
  /\ \A n \in Nat : Two(n) \in Nat \ {0} /\ Two(n + 1) = 2 * Two(n)
<1>1. 2 \in Int /\ 2 \in Nat \ {0}
  OBVIOUS
<1>2. Powers(2)[0] = 1 /\ \A n \in Nat : Powers(2)[n + 1] = 2 * Powers(2)[n]
  BY <1>1, PowersAre, Zenon
<1>3. \A n \in Nat : Powers(2)[n] \in Nat \ {0}
  BY <1>1, PowersPositive, Zenon
<1> QED BY <1>2, <1>3 DEF Two, Base

(* Dividing twice.                                                         *)
LEMMA DividedTwice ==
  ASSUME NEW x \in Nat, NEW m \in Nat \ {0}, NEW n \in Nat \ {0}
  PROVE  x \div (n * m) = (x \div m) \div n
<1> DEFINE q == x \div m  r == x % m  p == q \div n  s == q % n
<1>1. q \in Nat /\ r \in 0..(m - 1) /\ x = r + m * q
  BY DivisionIs
<1>2. p \in Nat /\ s \in 0..(n - 1) /\ q = s + n * p
  <2> HIDE DEF q
  <2> QED BY <1>1, DivisionIs
<1>3. x \div (n * m) = p
  <2> HIDE DEF p, q, r, s
  <2> DEFINE k == n * m  t == r + m * s
  <2>1. k \in Nat \ {0}
    OBVIOUS
  <2>2. x = k * p + t
    <3>1. m * (s + n * p) = m * s + (n * m) * p
      BY ONLY <1>1, <1>2, m \in Nat, n \in Nat
    <3>2. m * s \in Nat /\ (n * m) * p \in Nat
      BY ONLY <1>1, <1>2, m \in Nat, n \in Nat
    <3> QED BY ONLY <1>1, <1>2, <3>1, <3>2
  <2>3. t \in Nat /\ t < k
    <3>1. m * s <= m * (n - 1)
      BY ONLY <1>2, m \in Nat \ {0}, n \in Nat \ {0}
    <3>2. m * (n - 1) = n * m - m /\ n * m \in Nat /\ m * s \in Nat
      BY ONLY <1>2, m \in Nat \ {0}, n \in Nat \ {0}
    <3> QED BY ONLY <1>1, <3>1, <3>2, m \in Nat \ {0}
  <2> HIDE DEF k, t
  <2>4. t \in 0..(k - 1) /\ p \in Int
    BY <1>2, <2>1, <2>3
  <2>5. x \div k = p
    BY ONLY <2>1, <2>2, <2>4, x \in Nat, QuotientIs
  <2> QED BY <2>5 DEF k
<1> QED BY <1>3

(* What the bits from the b-th up are worth.                               *)
Top(a, b) ==
  IF b = Bits THEN 0
  ELSE (a[b \div WordBits] \div Two(b % WordBits))
         + Two(WordBits - (b % WordBits)) * Above(a, (b \div WordBits) + 1)

(* How many bits there are.                                                *)
LEMMA BitsAre == Bits \in Nat /\ Bits >= 2 /\ Bits = (2 * N) * WordBits /\ Width \in Nat
<1>1. N \in Nat /\ N >= 1 /\ WordBits \in Nat /\ WordBits >= 1
  BY NIs
<1>2. N * WordBits \in Nat /\ 2 * (N * WordBits) = (2 * N) * WordBits
  BY ONLY <1>1
<1>3. N * WordBits >= 1
  <2>1. N * WordBits >= 1 * WordBits
    BY ONLY <1>1
  <2> QED BY <1>1, <1>2, <2>1
<1> QED BY <1>2, <1>3 DEF Bits, Width

(* One bit more doubles what the bits are worth and adds the bit.          *)
LEMMA TopIs ==
  ASSUME NEW a \in Product, NEW b \in 0..(Bits - 1)
  PROVE  /\ Bit(a, b) \in {0, 1} /\ Top(a, b + 1) \in Nat
         /\ Top(a, b) = 2 * Top(a, b + 1) + Bit(a, b)
<1> DEFINE w == WordBits  q == b \div w  r == b % w
<1>1. w \in Nat \ {0} /\ b \in Nat /\ b < Bits /\ Bits \in Nat /\ b # Bits
  BY NIs, BitsAre
<1>2. q \in Nat /\ r \in 0..(w - 1) /\ b = r + w * q
  <2> HIDE DEF w
  <2> QED BY <1>1, DivisionIs
<1>3. q < 2 * N /\ 2 * N \in Nat
  <2>1. 2 * N \in Nat /\ Bits = (2 * N) * w
    BY NIs, BitsAre
  <2>2. SUFFICES ASSUME q >= 2 * N PROVE FALSE
    BY <1>2, <2>1
  <2> DEFINE k == 2 * N
  <2>3. w * q >= w * k /\ w * k = k * w
    <3>1. k \in Nat /\ q >= k
      BY <2>1, <2>2
    <3> HIDE DEF w, q, k
    <3> QED BY ONLY <1>1, <1>2, <3>1
  <2>4. w * q \in Nat
    <3> HIDE DEF w, q
    <3> QED BY ONLY <1>1, <1>2
  <2> HIDE DEF w, q, r
  <2> QED BY <1>1, <1>2, <2>1, <2>3, <2>4
<1> DEFINE x == a[q]  y == x \div Two(r)  A == Above(a, q + 1)  d == y % 2  h == y \div 2
<1>4. x \in Nat /\ x \in Word /\ A \in Nat /\ q \in 0..(2 * N - 1) /\ q + 1 \in 0..(2 * N)
  <2>1. q \in 0..(2 * N - 1) /\ q + 1 \in 0..(2 * N)
    BY <1>2, <1>3
  <2>2. a[q] \in Word
    BY <2>1, ProductsAre
  <2>3. Above(a, q + 1) \in Nat
    BY <2>1, AboveIs
  <2> QED BY <2>1, <2>2, <2>3, BaseIs
<1>5. Two(r) \in Nat \ {0} /\ r \in Nat
  BY <1>2, Twos
<1>6. y \in Nat
  <2> HIDE DEF x, r
  <2> QED BY <1>4, <1>5, DivisionIs
<1>7. h \in Nat /\ d \in {0, 1} /\ y = d + 2 * h
  <2> HIDE DEF y
  <2>1. h \in Nat /\ d \in 0..(2 - 1) /\ y = d + 2 * h
    BY <1>6, DivisionIs
  <2> QED BY <2>1
<1>8. Bit(a, b) = d
  BY DEF Bit, Two
<1>9. Top(a, b) = y + Two(w - r) * A
  BY <1>1 DEF Top
<1>10. CASE r + 1 < w
  <2>1. (b + 1) \div w = q /\ (b + 1) % w = r + 1
    <3> HIDE DEF q, r, w
    <3>1. w * q \in Nat
      BY ONLY <1>1, <1>2
    <3>2. b + 1 \in Nat /\ q \in Int /\ r + 1 \in 0..(w - 1) /\ b + 1 = w * q + (r + 1)
      BY ONLY <1>1, <1>2, <1>10, <3>1
    <3> QED BY ONLY <1>1, <3>2, QuotientIs
  <2>2. b + 1 # Bits
    <3> SUFFICES ASSUME b + 1 = Bits PROVE FALSE
      OBVIOUS
    <3>1. Bits = w * (2 * N) + 0
      BY BitsAre, NIs
    <3>2. (b + 1) % w = 0
      <4> DEFINE k == 2 * N
      <4>1. Bits = w * k + 0 /\ k \in Int /\ 0 \in 0..(w - 1) /\ Bits \in Nat
        BY <1>1, <1>3, <3>1
      <4>2. Bits % w = 0
        <5> HIDE DEF k, w
        <5> QED BY ONLY <1>1, <4>1, QuotientIs
      <4> QED BY <4>2
    <3> HIDE DEF q, r, w
    <3> QED BY <1>2, <2>1, <3>2
  <2>3. Top(a, b + 1) = (x \div Two(r + 1)) + Two(w - (r + 1)) * A
    <3> DEFINE q2 == (b + 1) \div WordBits  r2 == (b + 1) % WordBits
    <3>1. q2 = q /\ r2 = r + 1
      BY <2>1
    <3>2. Top(a, b + 1) = (a[q2] \div Two(r2)) + Two(WordBits - r2) * Above(a, q2 + 1)
      BY <2>2 DEF Top
    <3> HIDE DEF q2, r2
    <3> QED BY <3>1, <3>2
  <2>4. x \div Two(r + 1) = h
    <3> DEFINE t == Two(r)
    <3>1. Two(r + 1) = 2 * t
      BY <1>5, Twos
    <3>2. x \div (2 * t) = (x \div t) \div 2
      <4> HIDE DEF x, t, r
      <4>1. t \in Nat \ {0} /\ 2 \in Nat \ {0}
        BY <1>5 DEF t
      <4> QED BY <1>4, <4>1, DividedTwice
    <3> QED BY <3>1, <3>2
  <2>5. Two(w - r) = 2 * Two(w - (r + 1)) /\ Two(w - (r + 1)) \in Nat
    <3> DEFINE k == w - (r + 1)
    <3>1. k \in Nat /\ w - r = k + 1
      <4> HIDE DEF w, r
      <4> QED BY <1>1, <1>2, <1>10
    <3> HIDE DEF k
    <3>2. Two(k + 1) = 2 * Two(k) /\ Two(k) \in Nat
      BY <3>1, Twos
    <3> QED BY <3>1, <3>2 DEF k
  <2> DEFINE u == Two(w - (r + 1))
  <2>6. y + (2 * u) * A = 2 * (h + u * A) + d /\ h + u * A \in Nat
    <3>1. u \in Nat
      BY <2>5
    <3> HIDE DEF y, h, d, u, A
    <3>2. u * A \in Nat /\ (2 * u) * A = 2 * (u * A)
      BY ONLY <1>4, <3>1
    <3> QED BY <1>6, <1>7, <3>2
  <2> QED BY <1>7, <1>8, <1>9, <2>3, <2>4, <2>5, <2>6
<1>11. CASE ~ (r + 1 < w)
  <2>1. r = w - 1 /\ w - r = 1
    <3> HIDE DEF w, r
    <3> QED BY <1>1, <1>2, <1>11
  <2>2. Two(w - r) = 2
    <3>1. Two(0 + 1) = 2 * Two(0)
      BY Twos
    <3> QED BY <2>1, <3>1, Twos
  <2>3. y \in {0, 1} /\ d = y
    <3>1. Two(r) = Half
      BY <2>1 DEF Two, Half
    <3>2. y \in {0, 1}
      BY <1>4, <3>1, DoubledLimb
    <3> HIDE DEF y
    <3>3. y % 2 = y
      BY <3>2
    <3> QED BY <3>2, <3>3
  <2>4. (b + 1) \div w = q + 1 /\ (b + 1) % w = 0 /\ b + 1 = w * (q + 1)
    <3> HIDE DEF q, r, w
    <3>1. w * (q + 1) = w * q + w /\ w * q \in Nat
      BY ONLY <1>1, <1>2
    <3>2. b + 1 \in Nat /\ q + 1 \in Int /\ 0 \in 0..(w - 1) /\ b + 1 = w * (q + 1) + 0
          /\ b + 1 = w * (q + 1)
      BY ONLY <1>1, <1>2, <2>1, <3>1
    <3>3. (b + 1) \div w = q + 1 /\ (b + 1) % w = 0
      BY ONLY <1>1, <3>2, QuotientIs
    <3> QED BY <3>2, <3>3
  <2>5. Top(a, b + 1) = A
    <3>1. CASE b + 1 = Bits
      <4>1. (b + 1) \div w = 2 * N
        <5> DEFINE k == 2 * N
        <5>1. Bits = w * k + 0 /\ k \in Int /\ 0 \in 0..(w - 1) /\ Bits \in Nat
          BY <1>1, <1>3, BitsAre, NIs
        <5>2. Bits \div w = k
          <6> HIDE DEF k, w
          <6> QED BY ONLY <1>1, <5>1, QuotientIs
        <5> QED BY <3>1, <5>2
      <4>2. q + 1 = 2 * N
        BY <2>4, <4>1
      <4> QED BY <3>1, <4>2, AboveSteps DEF Top
    <3>2. CASE b + 1 # Bits
      <4> DEFINE q2 == (b + 1) \div WordBits  r2 == (b + 1) % WordBits
      <4>1. q2 = q + 1 /\ r2 = 0
        BY <2>4
      <4>2. Top(a, b + 1) = (a[q2] \div Two(r2)) + Two(WordBits - r2) * Above(a, q2 + 1)
        BY <3>2 DEF Top
      <4>3. q + 1 \in 0..(2 * N - 1)
        <5> SUFFICES ASSUME q + 1 = 2 * N PROVE FALSE
          BY <1>3, <1>4
        <5>1. b + 1 = w * (2 * N)
          BY <2>4
        <5>2. b + 1 = Bits
          BY <5>1, BitsAre, NIs
        <5> QED BY <3>2, <5>2
      <4>4. Above(a, q + 1) = a[q + 1] + Base * Above(a, (q + 1) + 1)
        BY <4>3, AboveSteps
      <4>5. a[q + 1] \div Two(0) = a[q + 1]
        <5>1. a[q + 1] \in Word
          BY <4>3, ProductsAre
        <5>2. a[q + 1] \in Nat /\ Two(0) = 1
          BY <5>1, BaseIs, Twos
        <5> DEFINE z == a[q + 1]
        <5>3. z \div 1 = z
          <6>1. z \in Nat
            BY <5>2
          <6> HIDE DEF z
          <6>2. 1 \in Nat \ {0} /\ z \in Int /\ 0 \in 0..(1 - 1) /\ z = 1 * z + 0
            BY ONLY <6>1
          <6> QED BY ONLY <6>1, <6>2, QuotientIs
        <5> QED BY <5>2, <5>3
      <4>6. WordBits - 0 = WordBits /\ Two(WordBits) = Base
        BY NIs, Twos
      <4> HIDE DEF q2, r2
      <4>7. Top(a, b + 1) = (a[q + 1] \div Two(0)) + Two(WordBits - 0) * Above(a, (q + 1) + 1)
        BY <4>1, <4>2
      <4> QED BY <4>4, <4>5, <4>6, <4>7
    <3> QED BY <3>1, <3>2
  <2>6. y + 2 * A = 2 * A + d
    <3> HIDE DEF y, A, d
    <3> QED BY <1>4, <1>6, <2>3
  <2> QED BY <1>4, <1>7, <1>8, <1>9, <2>2, <2>5, <2>6
<1> QED BY <1>10, <1>11

(* All the bits are worth the product.                                     *)
LEMMA TopEnds ==
  ASSUME NEW a \in Product
  PROVE  Top(a, Bits) = 0 /\ Top(a, 0) = Prefix(a, 2 * N)
<1>1. Top(a, Bits) = 0
  BY DEF Top
<1>2. 0 # Bits /\ WordBits \in Nat \ {0} /\ 0 \in 0..(2 * N - 1) /\ 2 * N \in Nat
  BY BitsAre, NIs
<1>3. 0 \div WordBits = 0 /\ 0 % WordBits = 0
  <2>1. 0 \in Nat /\ 0 \in Int /\ 0 \in 0..(WordBits - 1) /\ 0 = WordBits * 0 + 0
    BY <1>2
  <2> QED BY ONLY <1>2, <2>1, QuotientIs
<1>4. Top(a, 0) = (a[0] \div Two(0)) + Two(WordBits - 0) * Above(a, 0 + 1)
  BY <1>2, <1>3 DEF Top
<1>5. Above(a, 0) = a[0] + Base * Above(a, 0 + 1)
  BY <1>2, AboveSteps
<1>6. a[0] \div Two(0) = a[0]
  <2>1. a[0] \in Word
    BY <1>2, ProductsAre
  <2>2. a[0] \in Nat /\ Two(0) = 1
    BY <2>1, BaseIs, Twos
  <2> DEFINE z == a[0]
  <2>3. z \div 1 = z
    <3>1. z \in Nat
      BY <2>2
    <3> HIDE DEF z
    <3>2. 1 \in Nat \ {0} /\ z \in Int /\ 0 \in 0..(1 - 1) /\ z = 1 * z + 0
      BY ONLY <3>1
    <3> QED BY ONLY <3>1, <3>2, QuotientIs
  <2> QED BY <2>2, <2>3
<1>7. WordBits - 0 = WordBits /\ Two(WordBits) = Base
  BY NIs, Twos
<1> QED BY <1>1, <1>4, <1>5, <1>6, <1>7, AboveSteps

(* The limbs of nothing.                                                   *)
LEMMA ZeroLimbs ==
  ASSUME NEW k \in Nat
  PROVE  /\ LimbsOf(0, k) \in [0..(k - 1) -> Word] /\ Prefix(LimbsOf(0, k), k) = 0
         /\ \A i \in 0..(k - 1) : LimbsOf(0, k)[i] = 0
<1>1. LimbsOf(0, k) \in [0..(k - 1) -> Word] /\ Prefix(LimbsOf(0, k), k) = 0
  <2>1. 0 \in Nat /\ 0 < Weight(k)
    BY Weights
  <2> QED BY <2>1, LimbsOfIs
<1>2. ASSUME NEW i \in 0..(k - 1) PROVE LimbsOf(0, k)[i] = 0
  <2> DEFINE w == Weight(i)
  <2>1. w \in Nat \ {0} /\ Base \in Nat \ {0}
    <3>1. i \in Nat
      OBVIOUS
    <3>2. Weight(i) \in Nat /\ Weight(i) > 0
      BY <3>1, Weights
    <3>3. Base \in Nat /\ Base >= 2
      BY BaseIs
    <3> HIDE DEF w
    <3> QED BY ONLY <3>2, <3>3 DEF w
  <2>2. 0 \div w = 0
    <3>1. 0 \in Nat /\ 0 \in Int /\ 0 \in 0..(w - 1) /\ 0 = w * 0 + 0
      BY <2>1
    <3> HIDE DEF w
    <3> QED BY ONLY <2>1, <3>1, QuotientIs
  <2>3. 0 % Base = 0
    <3>1. 0 \in Nat /\ 0 \in Int /\ 0 \in 0..(Base - 1) /\ 0 = Base * 0 + 0
      BY <2>1
    <3> QED BY ONLY <2>1, <3>1, QuotientIs
  <2>4. LimbsOf(0, k)[i] = (0 \div w) % Base
    BY DEF LimbsOf, Weight
  <2> QED BY <2>2, <2>3, <2>4
<1> QED BY <1>1, <1>2

(* A multiplication of a, r the ring, on its way.                          *)
Underway(w, a, r) ==
  /\ w \in Multiplication /\ ValueOf(w.by) < Modulus(r)
  /\ Prefix(w.wide, 2 * N) = Prefix(a, w.rows) * ValueOf(w.by)
  /\ w.rem[N] = 0 /\ WorthOf(w.rem) = Top(w.wide, Bits - w.bits) % Modulus(r)
  /\ w.rows < N => w.bits = 0

(* Before the first bit there is nothing to reduce.                        *)
LEMMA TopOfNone ==
  ASSUME NEW x, NEW r
  PROVE  Top(x, Bits - 0) % Modulus(r) = 0
<1>1. Bits - 0 = Bits
  BY BitsAre
<1>2. Top(x, Bits) = 0
  BY DEF Top
<1> DEFINE m == Modulus(r)
<1>3. m \in Nat \ {0} /\ 0 \in Nat /\ 0 \in Int /\ 0 \in 0..(m - 1) /\ 0 = m * 0 + 0
  BY ModulusIs
<1>4. 0 % m = 0
  <2> HIDE DEF m
  <2> QED BY ONLY <1>3, QuotientIs
<1> QED BY <1>1, <1>2, <1>4

(* A multiplication that begins is one that is on its way.                 *)
LEMMA StartIs ==
  ASSUME NEW a \in Number, NEW b \in Number, NEW r, ValueOf(b) < Modulus(r)
  PROVE  Underway([by |-> b, wide |-> LimbsOf(0, 2 * N), rows |-> 0,
                   rem |-> LimbsOf(0, N + 1), bits |-> 0], a, r)
<1> DEFINE x == LimbsOf(0, 2 * N)  y == LimbsOf(0, N + 1)
           w == [by |-> b, wide |-> x, rows |-> 0, rem |-> y, bits |-> 0]
<1>1. N \in Nat /\ 2 * N \in Nat /\ N + 1 \in Nat /\ (N + 1) - 1 = N /\ N \in 0..N /\ N >= 1
  BY NIs
<1>2. x \in [0..(2 * N - 1) -> Word] /\ Prefix(x, 2 * N) = 0
  BY <1>1, ZeroLimbs
<1>3. y \in [0..N -> Word] /\ y[N] = 0
  <2>1. y \in [0..((N + 1) - 1) -> Word] /\ \A i \in 0..((N + 1) - 1) : y[i] = 0
    BY <1>1, ZeroLimbs
  <2> QED BY <1>1, <2>1
<1>4. 0 \in 0..N /\ 0 \in 0..Bits
  BY <1>1, BitsAre
<1>5. w \in Multiplication
  <2> HIDE DEF x, y
  <2> QED BY <1>2, <1>3, <1>4 DEF Multiplication
<1>6. w.by = b /\ w.wide = x /\ w.rows = 0 /\ w.rem = y /\ w.bits = 0
  OBVIOUS
<1>7. Prefix(a, 0) * ValueOf(b) = 0
  <2>1. ValueOf(b) \in Nat /\ Prefix(a, 0) = 0
    BY NumbersAre, PrefixOfNone
  <2> QED BY <2>1
<1>8. WorthOf(y) = 0
  <2> DEFINE z == LimbsOf(0, N)
  <2>1. z \in [0..(N - 1) -> Word] /\ Prefix(z, N) = 0 /\ \A i \in 0..(N - 1) : z[i] = 0
    BY <1>1, ZeroLimbs
  <2>2. \A i \in 0..(N - 1) : y[i] = 0
    <3>1. \A i \in 0..((N + 1) - 1) : y[i] = 0
      BY <1>1, ZeroLimbs
    <3> HIDE DEF y
    <3> QED BY <1>1, <3>1
  <2>3. Digits(z, N) /\ Digits(y, N)
    <3>1. 0..(N - 1) \subseteq DOMAIN z /\ \A i \in 0..(N - 1) : z[i] \in Word
      BY <2>1
    <3>2. 0..(N - 1) \subseteq DOMAIN y /\ \A i \in 0..(N - 1) : y[i] \in Word
      BY <1>1, <1>3
    <3> HIDE DEF y, z
    <3> QED BY <1>1, <3>1, <3>2, LimbsAreDigits
  <2>4. Prefix(y, N) = Prefix(z, N)
    <3> HIDE DEF y, z
    <3> QED BY <1>1, <2>1, <2>2, <2>3, PrefixOfEquals
  <2>5. Full \in Nat
    BY ModulusIs
  <2> HIDE DEF y, z
  <2> QED BY <1>3, <2>1, <2>4, <2>5 DEF WorthOf
<1>9. Top(x, Bits - 0) % Modulus(r) = 0
  BY TopOfNone
<1> HIDE DEF x, y, w
<1>10. Underway(w, a, r)
  BY <1>2, <1>3, <1>5, <1>6, <1>7, <1>8, <1>9 DEF Underway
<1> QED BY <1>10 DEF w, x, y

(* A row keeps it on its way.                                              *)
LEMMA RowsGoOn ==
  ASSUME NEW w, NEW a \in Number, NEW r, Underway(w, a, r), w.rows < N
  PROVE  Underway([w EXCEPT !.wide = Row(@, a, w.by, w.rows), !.rows = @ + 1], a, r)
<1> DEFINE x == Row(w.wide, a, w.by, w.rows)
           v == [w EXCEPT !.wide = x, !.rows = w.rows + 1]
<1>1. /\ w \in Multiplication /\ w.by \in Number /\ w.wide \in Product /\ w.rem \in [0..N -> Word]
      /\ w.rows \in 0..(N - 1) /\ w.rows + 1 \in 0..N /\ w.bits = 0 /\ 0 \in 0..Bits
  BY NIs, BitsAre DEF Underway, Multiplication, Product
<1>2. x \in Product /\ Prefix(x, 2 * N) = Prefix(a, w.rows + 1) * ValueOf(w.by)
  BY <1>1, RowIs DEF Underway
<1>3. w.by \in Number /\ x \in [0..(2 * N - 1) -> Word] /\ w.rows + 1 \in 0..N
  BY <1>1, <1>2 DEF Product
<1>4. v \in Multiplication
  <2> HIDE DEF x
  <2> QED BY <1>1, <1>3 DEF Multiplication
<1>5. v.by = w.by /\ v.wide = x /\ v.rows = w.rows + 1 /\ v.rem = w.rem /\ v.bits = 0
  <2> HIDE DEF x
  <2> QED BY <1>1 DEF Multiplication
<1>6. WorthOf(w.rem) = 0 /\ w.rem[N] = 0 /\ ValueOf(w.by) < Modulus(r)
  BY <1>1, TopOfNone DEF Underway
<1>7. Top(x, Bits - 0) % Modulus(r) = 0
  BY TopOfNone
<1> HIDE DEF x, v
<1>8. Underway(v, a, r)
  BY <1>2, <1>4, <1>5, <1>6, <1>7 DEF Underway
<1> QED BY <1>8 DEF v, x

(* Remainders may be doubled in place of numbers.                          *)
LEMMA DoublingModulo ==
  ASSUME NEW m \in Nat \ {0}, NEW t \in Nat, NEW bit \in {0, 1}
  PROVE  /\ 2 * (t % m) + bit < m => (2 * t + bit) % m = 2 * (t % m) + bit
         /\ 2 * (t % m) + bit >= m => (2 * t + bit) % m = (2 * (t % m) + bit) - m
         /\ 2 * (t % m) + bit < 2 * m
<1> DEFINE v == t % m  q == t \div m
<1>1. v \in 0..(m - 1) /\ q \in Nat /\ t = v + m * q
  BY DivisionIs
<1> HIDE DEF v, q
<1>2. m * (2 * q) = 2 * (m * q) /\ m * (2 * q + 1) = 2 * (m * q) + m /\ m * q \in Nat
  BY ONLY <1>1, m \in Nat
<1>3. ASSUME 2 * v + bit < m PROVE (2 * t + bit) % m = 2 * v + bit
  <2>1. 2 * t + bit \in Nat /\ 2 * q \in Int /\ 2 * v + bit \in 0..(m - 1)
        /\ 2 * t + bit = m * (2 * q) + (2 * v + bit)
    BY <1>1, <1>2, <1>3
  <2> QED BY ONLY <2>1, m \in Nat \ {0}, QuotientIs
<1>4. ASSUME 2 * v + bit >= m PROVE (2 * t + bit) % m = (2 * v + bit) - m
  <2>1. 2 * t + bit \in Nat /\ 2 * q + 1 \in Int /\ (2 * v + bit) - m \in 0..(m - 1)
        /\ 2 * t + bit = m * (2 * q + 1) + ((2 * v + bit) - m)
    BY <1>1, <1>2, <1>4
  <2> QED BY ONLY <2>1, m \in Nat \ {0}, QuotientIs
<1>5. 2 * v + bit < 2 * m
  BY <1>1
<1> QED BY <1>3, <1>4, <1>5 DEF v

(* A bit of the reduction keeps it on its way.                             *)
LEMMA BitsGoOn ==
  ASSUME NEW w, NEW a \in Number, NEW r, Underway(w, a, r), w.rows = N, w.bits < Bits
  PROVE  LET s == Shifted(w.rem, Bit(w.wide, Bits - 1 - w.bits)) IN
         Underway([w EXCEPT !.bits = @ + 1,
                            !.rem = IF AtLeastModulus(s, r) THEN Subtracted(s, r) ELSE s], a, r)
<1> DEFINE b == Bits - 1 - w.bits  bit == Bit(w.wide, b)  s == Shifted(w.rem, bit)
           z == IF AtLeastModulus(s, r) THEN Subtracted(s, r) ELSE s
           v == [w EXCEPT !.bits = @ + 1, !.rem = z]
           m == Modulus(r)  t == Top(w.wide, b + 1)
<1>1. /\ w \in Multiplication /\ w.by \in Number /\ w.wide \in Product /\ w.rem \in Remainder
      /\ w.rows \in 0..N /\ w.bits + 1 \in 0..Bits /\ w.bits \in Nat
      /\ b \in 0..(Bits - 1) /\ b + 1 = Bits - w.bits /\ Bits - (w.bits + 1) = b /\ N \in Nat
  BY BitsAre, NIs DEF Underway, Multiplication, Product, Remainder
<1>2. bit \in {0, 1} /\ t \in Nat /\ Top(w.wide, b) = 2 * t + bit
  BY <1>1, TopIs
<1>3. m \in Nat \ {0} /\ m < Full /\ Full \in Nat
  BY ModulusIs
<1>4. s \in Remainder /\ Wide(s) /\ WorthOf(s) = 2 * (t % m) + bit
  <2>1. WorthOf(w.rem) = t % m /\ w.rem[N] = 0
    BY <1>1 DEF Underway
  <2> HIDE DEF bit
  <2> QED BY <1>1, <1>2, <2>1, ShiftedIs
<1>5. /\ 2 * (t % m) + bit < m => (2 * t + bit) % m = 2 * (t % m) + bit
      /\ 2 * (t % m) + bit >= m => (2 * t + bit) % m = (2 * (t % m) + bit) - m
      /\ 2 * (t % m) + bit < 2 * m
  <2> HIDE DEF t, m, bit
  <2> QED BY ONLY <1>2, <1>3, DoublingModulo
<1>6. AtLeastModulus(s, r) <=> WorthOf(s) >= m
  BY <1>4, AtLeastIs
<1>7. z \in Remainder /\ z[N] = 0 /\ WorthOf(z) = (2 * t + bit) % m
  <2>1. CASE WorthOf(s) >= m
    <3>1. WorthOf(s) < 2 * m
      BY <1>4, <1>5
    <3>2. Subtracted(s, r) \in Remainder /\ Subtracted(s, r)[N] = 0
          /\ WorthOf(Subtracted(s, r)) = WorthOf(s) - m
      <4> HIDE DEF s
      <4> QED BY <1>4, <2>1, <3>1, SubtractedIs
    <3>3. z = Subtracted(s, r)
      BY <1>6, <2>1
    <3> HIDE DEF s, z, t, m, bit
    <3> QED BY <1>4, <1>5, <2>1, <3>2, <3>3
  <2>2. CASE ~ (WorthOf(s) >= m)
    <3>1. z = s
      BY <1>6, <2>2
    <3>2. WorthOf(s) \in Nat /\ (s[N] # 0 => WorthOf(s) >= Full)
      <4> HIDE DEF s
      <4> QED BY <1>4, WideIs
    <3> HIDE DEF s, z, t, m, bit
    <3>3. WorthOf(s) < m /\ s[N] = 0
      BY <1>3, <2>2, <3>2
    <3> QED BY <1>4, <1>5, <3>1, <3>3
  <2> QED BY <2>1, <2>2
<1>8. z \in [0..N -> Word]
  BY <1>7 DEF Remainder
<1>9. v \in Multiplication
  <2> HIDE DEF z
  <2> QED BY <1>1, <1>8 DEF Multiplication
<1>10. v.by = w.by /\ v.wide = w.wide /\ v.rows = w.rows /\ v.rem = z /\ v.bits = w.bits + 1
  <2> HIDE DEF z
  <2> QED BY <1>1 DEF Multiplication
<1>11. Top(v.wide, Bits - v.bits) = 2 * t + bit
  <2> HIDE DEF z, v
  <2> QED BY <1>1, <1>2, <1>10
<1>12. ~ (v.rows < N)
  <2> HIDE DEF z, v
  <2> QED BY <1>1, <1>10
<1> HIDE DEF z, v, t, bit, s, b, m
<1>13. Underway(v, a, r)
  BY <1>7, <1>9, <1>10, <1>11, <1>12 DEF Underway, m
<1> QED BY <1>13 DEF v, z, s, bit, b

(* After the last bit the remainder is that of the product.                *)
LEMMA FinishIs ==
  ASSUME NEW w, NEW a \in Number, NEW r, Underway(w, a, r), w.bits = Bits
  PROVE  /\ Low(w.rem) \in Number
         /\ ValueOf(Low(w.rem)) = (ValueOf(a) * ValueOf(w.by)) % Modulus(r)
<1>1. w.wide \in Product /\ w.rem \in Remainder /\ w.rem[N] = 0 /\ w.rows \in 0..N
  BY DEF Underway, Multiplication, Product, Remainder
<1>2. w.rows = N
  BY <1>1, BitsAre, NIs DEF Underway
<1>3. Top(w.wide, Bits - w.bits) = Prefix(w.wide, 2 * N)
  <2>1. Bits - w.bits = 0
    BY BitsAre
  <2> QED BY <1>1, <2>1, TopEnds
<1>4. Prefix(w.wide, 2 * N) = ValueOf(a) * ValueOf(w.by)
  BY <1>2, NumbersAre DEF Underway
<1>5. Wide(w.rem)
  <2>1. N \in 0..N /\ \A i \in 0..(N - 1) : i \in 0..N
    BY NIs
  <2>2. DOMAIN w.rem = 0..N /\ (\A i \in 0..N : w.rem[i] \in Word) /\ 0 \in Nat
    BY <1>1 DEF Remainder
  <2> QED BY <1>1, <2>1, <2>2 DEF Wide
<1>6. Low(w.rem) \in Number /\ WorthOf(w.rem) = ValueOf(Low(w.rem))
  BY <1>1, <1>5, WideIs
<1> QED BY <1>3, <1>4, <1>6 DEF Underway

-----------------------------------------------------------------------------
(***************************************************************************)
(* Remainders; Fermat's theorem and square roots.                          *)
(***************************************************************************)
(* Remainders of sums, products and powers.                                *)
LEMMA RemainderOfMore ==
  ASSUME NEW m \in Nat \ {0}, NEW x \in Nat, NEW k \in Nat
  PROVE  (x + m * k) % m = x % m
<1> DEFINE q == x \div m  r == x % m
<1>1. q \in Nat /\ r \in 0..(m - 1) /\ x = r + m * q
  BY DivisionIs
<1> HIDE DEF q, r
<1>2. m * (q + k) = m * q + m * k /\ m * q \in Nat /\ m * k \in Nat /\ m \in Nat \ {0}
  BY ONLY <1>1, m \in Nat \ {0}, k \in Nat
<1>3. x + m * k \in Nat /\ q + k \in Int /\ x + m * k = m * (q + k) + r
  BY <1>1, <1>2
<1>4. (x + m * k) % m = r
  BY ONLY <1>1, <1>2, <1>3, QuotientIs
<1> QED BY <1>4 DEF r

(* Factors may be reduced first.                                           *)
LEMMA RemainderOfProduct ==
  ASSUME NEW m \in Nat \ {0}, NEW x \in Nat, NEW y \in Nat
  PROVE  /\ (x * y) % m = ((x % m) * y) % m
         /\ (x * y) % m = (x * (y % m)) % m
         /\ (x * y) % m = ((x % m) * (y % m)) % m
<1>1. ASSUME NEW u \in Nat, NEW v \in Nat PROVE (u * v) % m = ((u % m) * v) % m
  <2> DEFINE q == u \div m  r == u % m
  <2>1. q \in Nat /\ r \in 0..(m - 1) /\ u = r + m * q
    BY DivisionIs
  <2> HIDE DEF q, r
  <2>2. u * v = r * v + m * (q * v) /\ r * v \in Nat /\ q * v \in Nat
    <3>1. (r + m * q) * v = r * v + m * (q * v)
      BY ONLY <2>1, m \in Nat, v \in Nat
    <3> QED BY ONLY <2>1, <3>1, m \in Nat, v \in Nat
  <2> DEFINE a == r * v  b == q * v
  <2>3. (a + m * b) % m = a % m
    <3>1. a \in Nat /\ b \in Nat
      BY <2>2
    <3> HIDE DEF a, b
    <3> QED BY <3>1, RemainderOfMore
  <2> QED BY <2>2, <2>3 DEF r
<1>2. x % m \in Nat /\ y % m \in Nat /\ x * y \in Nat
  BY DivisionIs
<1>3. (x * y) % m = ((x % m) * y) % m
  BY <1>1
<1>4. (x * y) % m = (x * (y % m)) % m
  <2>1. x * y = y * x /\ x * (y % m) = (y % m) * x
    BY <1>2
  <2>2. (y * x) % m = ((y % m) * x) % m
    BY <1>1
  <2> QED BY <2>1, <2>2
<1>5. ((x % m) * y) % m = ((x % m) * (y % m)) % m
  <2> DEFINE u == x % m
  <2>1. u \in Nat
    BY <1>2
  <2> HIDE DEF u
  <2>2. u * y = y * u /\ u * (y % m) = (y % m) * u
    BY <1>2, <2>1
  <2>3. (y * u) % m = ((y % m) * u) % m
    BY <2>1, <1>1
  <2>4. (u * y) % m = (u * (y % m)) % m
    BY <2>2, <2>3
  <2> QED BY <2>4 DEF u
<1> QED BY <1>3, <1>4, <1>5

(* What is below the modulus is its own remainder.                         *)
LEMMA RemainderOfSmall ==
  ASSUME NEW m \in Nat \ {0}, NEW x \in 0..(m - 1)
  PROVE  x % m = x
<1>1. x \in Nat /\ 0 \in Int /\ x = m * 0 + x
  OBVIOUS
<1> QED BY ONLY <1>1, m \in Nat \ {0}, x \in 0..(m - 1), QuotientIs

(* A summand may be reduced first.                                         *)
LEMMA RemainderOfSum ==
  ASSUME NEW m \in Nat \ {0}, NEW x \in Nat, NEW y \in Nat
  PROVE  ((x % m) + y) % m = (x + y) % m
<1> DEFINE q == x \div m  r == x % m
<1>1. q \in Nat /\ r \in 0..(m - 1) /\ x = r + m * q
  BY DivisionIs
<1> HIDE DEF q, r
<1>2. m * q \in Nat
  BY ONLY <1>1, m \in Nat
<1>3. x + y = (r + y) + m * q /\ r + y \in Nat
  BY <1>1, <1>2
<1>4. ((r + y) + m * q) % m = (r + y) % m
  BY <1>1, <1>3, RemainderOfMore
<1> QED BY <1>3, <1>4 DEF r

(* Numbers with equal remainders are apart by a multiple.                  *)
LEMMA RemaindersAgree ==
  ASSUME NEW m \in Nat \ {0}, NEW x \in Nat, NEW y \in Nat, x <= y, x % m = y % m
  PROVE  (y - x) % m = 0
<1> DEFINE q == x \div m  r == x % m  p == y \div m
<1>1. q \in Nat /\ r \in 0..(m - 1) /\ x = r + m * q
  BY DivisionIs
<1>2. p \in Nat /\ y = r + m * p
  BY DivisionIs
<1> HIDE DEF q, r, p
<1>3. y - x = m * (p - q) + 0
  <2>1. m * (p - q) = m * p - m * q /\ m * p \in Nat /\ m * q \in Nat
    BY ONLY <1>1, <1>2, m \in Nat
  <2> QED BY <1>1, <1>2, <2>1
<1>4. y - x \in Nat /\ p - q \in Int /\ 0 \in 0..(m - 1)
  BY <1>1, <1>2
<1> DEFINE d == y - x  k == p - q
<1>5. d \in Nat /\ k \in Int /\ d = m * k + 0
  BY <1>3, <1>4
<1> HIDE DEF d, k
<1>6. d % m = 0
  BY ONLY <1>4, <1>5, m \in Nat \ {0}, QuotientIs
<1> QED BY <1>6 DEF d

(* Powers of numbers are numbers.                                          *)
LEMMA PowersAreNat ==
  ASSUME NEW x \in Nat
  PROVE  /\ Powers(x)[0] = 1 /\ Powers(x)[1] = x /\ Powers(x)[2] = x * x
         /\ \A n \in Nat : Powers(x)[n] \in Nat /\ Powers(x)[n + 1] = x * Powers(x)[n]
<1> DEFINE f == Powers(x)
<1>1. x \in Int
  OBVIOUS
<1>2. f \in [Nat -> Int] /\ f[0] = 1 /\ \A n \in Nat : f[n + 1] = x * f[n]
  BY <1>1, PowersAre, Zenon
<1> HIDE DEF f
<1>3. \A n \in Nat : f[n] \in Nat
  <2> DEFINE S == {n \in Nat : f[n] \in Nat}
  <2>1. 0 \in S
    BY <1>2
  <2>2. ASSUME NEW n \in S PROVE n + 1 \in S
    <3>1. f[n] \in Nat /\ f[n + 1] = x * f[n]
      BY <1>2
    <3>2. x * f[n] \in Nat
      BY <3>1
    <3> QED BY <3>1, <3>2
  <2>3. S = Nat
    <3> HIDE DEF S
    <3>1. S \in SUBSET Nat
      BY DEF S
    <3> QED BY <2>1, <2>2, <3>1, NumberInduction
  <2> QED BY <2>3
<1>4. f[1] = x
  <2>1. f[0 + 1] = x * f[0]
    BY <1>2
  <2> QED BY <1>2, <2>1
<1>5. f[2] = x * x
  <2>1. f[1 + 1] = x * f[1]
    BY <1>2
  <2> QED BY <1>4, <2>1
<1>6. /\ f[0] = 1 /\ f[1] = x /\ f[2] = x * x
      /\ \A n \in Nat : f[n] \in Nat /\ f[n + 1] = x * f[n]
  BY <1>2, <1>3, <1>4, <1>5
<1> QED BY <1>6 DEF f

(* The power of a power.                                                   *)
LEMMA PowersOfPowers ==
  ASSUME NEW x \in Nat, NEW k \in Nat
  PROVE  \A n \in Nat : Powers(Powers(x)[k])[n] = Powers(x)[k * n]
<1> DEFINE y == Powers(x)[k]  f == Powers(x)  g == Powers(y)
<1>1. f[0] = 1 /\ y = f[k] /\ y \in Nat
  BY PowersAreNat
<1>2. g[0] = 1 /\ \A n \in Nat : g[n] \in Nat /\ g[n + 1] = y * g[n]
  <2> HIDE DEF y
  <2> QED BY <1>1, PowersAreNat
<1>3. \A i \in Nat, j \in Nat : f[i + j] = f[i] * f[j]
  BY PowersAdd
<1> HIDE DEF f, g, y
<1> DEFINE S == {n \in Nat : g[n] = f[k * n]}
<1>4. 0 \in S
  <2>1. k * 0 = 0
    OBVIOUS
  <2> QED BY <1>1, <1>2, <2>1
<1>5. ASSUME NEW n \in S PROVE n + 1 \in S
  <2>1. n \in Nat /\ g[n] = f[k * n] /\ g[n + 1] = y * g[n]
    BY <1>2
  <2>2. k * n \in Nat /\ k * (n + 1) = k + k * n
    BY <2>1
  <2>3. f[k + k * n] = f[k] * f[k * n]
    BY <1>3, <2>2
  <2>4. f[k * (n + 1)] = f[k + k * n]
    BY <2>2
  <2> QED BY <1>1, <2>1, <2>3, <2>4
<1>6. S = Nat
  <2> HIDE DEF S
  <2>1. S \in SUBSET Nat
    BY DEF S
  <2> QED BY <1>4, <1>5, <2>1, NumberInduction
<1>7. \A n \in Nat : g[n] = f[k * n]
  BY <1>6
<1> QED BY <1>7 DEF f, g, y

(* The base of a power may be reduced first.                               *)
LEMMA RemainderOfPowers ==
  ASSUME NEW m \in Nat \ {0}, NEW x \in Nat
  PROVE  \A n \in Nat : Powers(x % m)[n] % m = Powers(x)[n] % m
<1> DEFINE y == x % m  f == Powers(x)  g == Powers(y)
<1>1. y \in Nat
  BY DivisionIs
<1>2. f[0] = 1 /\ \A n \in Nat : f[n] \in Nat /\ f[n + 1] = x * f[n]
  BY PowersAreNat
<1>3. g[0] = 1 /\ \A n \in Nat : g[n] \in Nat /\ g[n + 1] = y * g[n]
  <2> HIDE DEF y
  <2> QED BY <1>1, PowersAreNat
<1> HIDE DEF f, g
<1> DEFINE S == {n \in Nat : g[n] % m = f[n] % m}
<1>4. 0 \in S
  BY <1>2, <1>3
<1>5. ASSUME NEW n \in S PROVE n + 1 \in S
  <2>1. n \in Nat /\ g[n] % m = f[n] % m /\ f[n + 1] = x * f[n] /\ g[n + 1] = y * g[n]
        /\ f[n] \in Nat /\ g[n] \in Nat
    BY <1>2, <1>3
  <2> DEFINE u == f[n]  v == g[n]
  <2>2. (x * u) % m = ((x % m) * (u % m)) % m
    <3> HIDE DEF u
    <3> QED BY <2>1, RemainderOfProduct DEF u
  <2>3. (y * v) % m = (y * (v % m)) % m
    <3> HIDE DEF v, y
    <3> QED BY <1>1, <2>1, RemainderOfProduct DEF v
  <2> QED BY <2>1, <2>2, <2>3
<1>6. S = Nat
  <2> HIDE DEF S
  <2>1. S \in SUBSET Nat
    BY DEF S
  <2> QED BY <1>4, <1>5, <2>1, NumberInduction
<1>7. \A n \in Nat : g[n] % m = f[n] % m
  BY <1>6
<1> QED BY <1>7 DEF f, g, y

(* The prime is one less than a multiple of four.                          *)
Quarter == Prime \div 4

(* What the assumptions say of the prime.                                  *)
LEMMA PrimeIs ==
  /\ Prime \in Nat \ {0} /\ Prime >= 3 /\ Quarter \in Nat /\ Prime = 4 * Quarter + 3
  /\ (Prime + 1) \div 4 = Quarter + 1 /\ (Prime - 1) \div 2 = 2 * Quarter + 1
  /\ \A x \in Nat : x % Prime \in 0..(Prime - 1)
<1>1. Prime \in Nat /\ Prime % 4 = 3
  BY LimbAssumption
<1>2. Quarter \in Nat /\ Prime = 4 * Quarter + 3
  <2>1. 4 \in Nat \ {0}
    OBVIOUS
  <2>2. Prime \div 4 \in Nat /\ Prime = (Prime % 4) + 4 * (Prime \div 4)
    BY <1>1, <2>1, DivisionIs
  <2> QED BY <1>1, <2>2 DEF Quarter
<1>3. (Prime + 1) \div 4 = Quarter + 1
  <2>1. /\ Prime + 1 \in Nat /\ 4 \in Nat \ {0} /\ Quarter + 1 \in Int /\ 0 \in 0..(4 - 1)
        /\ Prime + 1 = 4 * (Quarter + 1) + 0
    BY <1>2
  <2> QED BY ONLY <2>1, QuotientIs
<1>4. (Prime - 1) \div 2 = 2 * Quarter + 1
  <2>1. /\ Prime - 1 \in Nat /\ 2 \in Nat \ {0} /\ 2 * Quarter + 1 \in Int /\ 0 \in 0..(2 - 1)
        /\ Prime - 1 = 2 * (2 * Quarter + 1) + 0
    BY <1>2
  <2> QED BY ONLY <2>1, QuotientIs
<1>5. Prime \in Nat \ {0} /\ Prime >= 3
  BY <1>1, <1>2
<1>6. \A x \in Nat : x % Prime \in 0..(Prime - 1)
  BY <1>5, DivisionIs
<1> QED BY <1>2, <1>3, <1>4, <1>5, <1>6

(* A product is only divided by the prime when a factor is.                *)
LEMMA NoDivisors ==
  ASSUME NEW x \in Nat, NEW y \in Nat, x % Prime # 0, y % Prime # 0
  PROVE  (x * y) % Prime # 0
<1> DEFINE u == x % Prime  v == y % Prime
<1>1. Prime \in Nat \ {0} /\ u \in 1..(Prime - 1) /\ v \in 1..(Prime - 1)
  BY PrimeIs
<1>2. (u * v) % Prime # 0
  <2> HIDE DEF u, v
  <2> QED BY <1>1, LimbAssumption
<1>3. (x * y) % Prime = (u * v) % Prime
  BY <1>1, RemainderOfProduct
<1> QED BY <1>2, <1>3

(* The product of the members of a set of numbers, up to each of them.     *)
ProductStep(S) == [t \in Nat \X Nat |-> (IF t[1] \in S THEN t[1] ELSE 1) * t[2]]
ProductTo(S) == CHOOSE g : SolvesAll(Nat, 1, ProductStep(S), g)

(* Its recursion.                                                          *)
LEMMA ProductToIs ==
  ASSUME NEW S
  PROVE  /\ ProductTo(S)[0] = 1 /\ \A k \in Nat : ProductTo(S)[k] \in Nat
         /\ \A k \in Nat : k + 1 \in S => ProductTo(S)[k + 1] = (k + 1) * ProductTo(S)[k]
         /\ \A k \in Nat : k + 1 \notin S => ProductTo(S)[k + 1] = ProductTo(S)[k]
<1> DEFINE rule == ProductStep(S)  g == ProductTo(S)
<1>1. \A i \in Nat, v \in Nat : rule[<<i, v>>] = (IF i \in S THEN i ELSE 1) * v
  BY DEF ProductStep
<1>2. SolvesAll(Nat, 1, rule, g)
  <2>1. \A i \in Nat, v \in Nat : rule[<<i, v>>] \in Nat
    <3> HIDE DEF rule
    <3> SUFFICES ASSUME NEW i \in Nat, NEW v \in Nat PROVE rule[<<i, v>>] \in Nat
      OBVIOUS
    <3>1. i * v \in Nat /\ 1 * v \in Nat
      OBVIOUS
    <3> QED BY <1>1, <3>1
  <2>2. 1 \in Nat
    OBVIOUS
  <2>3. \E f : SolvesAll(Nat, 1, rule, f)
    <3> HIDE DEF rule
    <3> QED BY ONLY <2>1, <2>2, RecursionForAll, Zenon
  <2> QED BY <2>3, Zenon DEF ProductTo
<1> HIDE DEF g, rule
<1>3. g \in [Nat -> Nat] /\ g[0] = 1 /\ \A i \in Nat \ {0} : g[i] = rule[<<i, g[i - 1]>>]
  BY <1>2 DEF SolvesAll
<1>4. ASSUME NEW k \in Nat
      PROVE  g[k] \in Nat /\ g[k + 1] = (IF k + 1 \in S THEN k + 1 ELSE 1) * g[k]
  <2>1. k + 1 \in Nat \ {0} /\ (k + 1) - 1 = k /\ k + 1 \in Nat /\ g[k] \in Nat
    BY <1>3
  <2>2. g[k + 1] = rule[<<k + 1, g[k]>>]
    BY <1>3, <2>1
  <2>3. rule[<<k + 1, g[k]>>] = (IF k + 1 \in S THEN k + 1 ELSE 1) * g[k]
    BY <1>1, <2>1
  <2> QED BY <2>1, <2>2, <2>3
<1>5. ASSUME NEW k \in Nat, k + 1 \notin S PROVE g[k + 1] = g[k]
  <2>1. g[k] \in Nat /\ g[k + 1] = 1 * g[k]
    BY <1>4, <1>5
  <2> QED BY <2>1
<1>6. ASSUME NEW k \in Nat, k + 1 \in S PROVE g[k + 1] = (k + 1) * g[k]
  BY <1>4, <1>6
<1> QED BY <1>3, <1>4, <1>5, <1>6 DEF g

(* One more member is one more factor.                                     *)
LEMMA ProductWith ==
  ASSUME NEW S, NEW n \in Nat, NEW x \in 1..n, x \notin S
  PROVE  ProductTo(S \cup {x})[n] = x * ProductTo(S)[n]
<1> DEFINE T == S \cup {x}  f == ProductTo(S)  g == ProductTo(T)
<1>1. /\ f[0] = 1 /\ \A k \in Nat : f[k] \in Nat
      /\ \A k \in Nat : k + 1 \in S => f[k + 1] = (k + 1) * f[k]
      /\ \A k \in Nat : k + 1 \notin S => f[k + 1] = f[k]
  BY ProductToIs
<1>2. /\ g[0] = 1 /\ \A k \in Nat : g[k] \in Nat
      /\ \A k \in Nat : k + 1 \in T => g[k + 1] = (k + 1) * g[k]
      /\ \A k \in Nat : k + 1 \notin T => g[k + 1] = g[k]
  BY ProductToIs
<1> HIDE DEF f, g
<1> DEFINE Held == {k \in Nat : /\ k < x => g[k] = f[k]
                                /\ k >= x => g[k] = x * f[k]}
<1>3. 0 \in Held
  BY <1>1, <1>2
<1>4. ASSUME NEW k \in Held PROVE k + 1 \in Held
  <2>1. k \in Nat /\ f[k] \in Nat /\ g[k] \in Nat
    BY <1>1, <1>2
  <2>2. CASE k + 1 = x
    <3>1. g[k] = f[k] /\ g[k + 1] = (k + 1) * g[k] /\ f[k + 1] = f[k]
      BY <1>1, <1>2, <2>1, <2>2
    <3> QED BY <2>1, <2>2, <3>1
  <2>3. CASE k + 1 # x /\ k + 1 \in S
    <3>1. g[k + 1] = (k + 1) * g[k] /\ f[k + 1] = (k + 1) * f[k]
      BY <1>1, <1>2, <2>1, <2>3
    <3>2. CASE k + 1 < x
      BY <2>1, <3>1, <3>2
    <3>3. CASE k + 1 > x
      <4>1. g[k] = x * f[k]
        BY <2>1, <3>3
      <4> DEFINE u == f[k]  z == k + 1
      <4>2. z * (x * u) = x * (z * u)
        <5>1. u \in Nat /\ z \in Nat /\ x \in Nat
          BY <2>1
        <5> HIDE DEF u, z
        <5> QED BY ONLY <5>1
      <4>3. g[k + 1] = x * f[k + 1]
        BY <3>1, <4>1, <4>2
      <4> QED BY <2>1, <3>3, <4>3
    <3> QED BY <2>1, <2>3, <3>2, <3>3
  <2>4. CASE k + 1 # x /\ k + 1 \notin S
    <3>1. g[k + 1] = g[k] /\ f[k + 1] = f[k]
      BY <1>1, <1>2, <2>1, <2>4
    <3> QED BY <2>1, <2>4, <3>1
  <2> QED BY <2>2, <2>3, <2>4
<1>5. Held = Nat
  <2> HIDE DEF Held
  <2>1. Held \in SUBSET Nat
    BY DEF Held
  <2> QED BY <1>3, <1>4, <2>1, NumberInduction
<1>6. g[n] = x * f[n]
  BY <1>5
<1> QED BY <1>6 DEF f, g

(* The multiples of a number by 1 to k, modulo the prime.                  *)
Multiples(a, k) == {(a * i) % Prime : i \in 1..k}

(* One more multiple is one the others are not.                            *)
LEMMA MultiplesDiffer ==
  ASSUME NEW a \in 1..(Prime - 1), NEW i \in 1..(Prime - 1), NEW j \in 1..(Prime - 1),
         (a * i) % Prime = (a * j) % Prime
  PROVE  i = j
<1>1. Prime \in Nat \ {0} /\ a \in Nat /\ i \in Nat /\ j \in Nat /\ a >= 1
  BY PrimeIs
<1>2. ASSUME NEW x \in 1..(Prime - 1), NEW y \in 1..(Prime - 1), x < y,
             (a * x) % Prime = (a * y) % Prime
      PROVE  FALSE
  <2>1. x \in Nat /\ y \in Nat /\ y - x \in 1..(Prime - 1)
    BY <1>1, <1>2
  <2>2. a * x \in Nat /\ a * y \in Nat /\ a * y - a * x = a * (y - x) /\ a * x <= a * y
    <3>1. a * (y - x) = a * y - a * x /\ a * x \in Nat /\ a * y \in Nat
      BY ONLY <1>1, <2>1
    <3>2. y - x \in Nat
      BY <2>1
    <3>3. a * (y - x) >= 0
      <4> DEFINE d == y - x
      <4>1. d \in Nat
        BY <3>2
      <4> HIDE DEF d
      <4>2. a * d \in Nat
        BY ONLY <1>1, <4>1
      <4> QED BY <4>2 DEF d
    <3> QED BY <3>1, <3>3
  <2>3. (a * y - a * x) % Prime = 0
    <3> DEFINE u == a * x  v == a * y
    <3>1. u \in Nat /\ v \in Nat /\ u <= v /\ u % Prime = v % Prime
      BY <1>2, <2>2
    <3> HIDE DEF u, v
    <3>2. (v - u) % Prime = 0
      BY <1>1, <3>1, RemaindersAgree
    <3> QED BY <3>2 DEF u, v
  <2>4. (a * (y - x)) % Prime # 0
    <3> DEFINE d == y - x
    <3>1. d \in 1..(Prime - 1)
      BY <2>1
    <3> HIDE DEF d
    <3>2. (a * d) % Prime # 0
      BY <3>1, LimbAssumption
    <3> QED BY <3>2 DEF d
  <2> QED BY <2>2, <2>3, <2>4
<1>3. i < j \/ j < i \/ i = j
  BY <1>1
<1> QED BY <1>2, <1>3

(* The multiples by 1..p-1 are a permutation of 1..p-1.                    *)
LEMMA MultiplesAreAll ==
  ASSUME NEW a \in 1..(Prime - 1)
  PROVE  Multiples(a, Prime - 1) = 1..(Prime - 1)
<1> DEFINE S == 1..(Prime - 1)  f == [i \in S |-> (a * i) % Prime]
<1>1. Prime \in Nat \ {0} /\ IsFiniteSet(S)
  BY PrimeIs, FS_Interval
<1>2. ASSUME NEW i \in S PROVE (a * i) % Prime \in S
  <2>1. a \in Nat /\ i \in Nat
    BY <1>1
  <2>2. a * i \in Nat
    BY <2>1
  <2>3. (a * i) % Prime # 0
    BY LimbAssumption
  <2>4. (a * i) % Prime \in 0..(Prime - 1)
    BY <2>2, PrimeIs
  <2> QED BY <1>1, <2>3, <2>4
<1>3. f \in Injection(S, S)
  <2>1. f \in [S -> S]
    BY <1>2
  <2>2. \A i, j \in S : f[i] = f[j] => i = j
    BY MultiplesDiffer
  <2> HIDE DEF f, S
  <2> QED BY <2>1, <2>2 DEF Injection, IsInjective
<1>4. f \in Surjection(S, S)
  <2> HIDE DEF f, S
  <2> QED BY <1>1, <1>3, FS_Injection
<1>5. \A y \in S : \E i \in S : f[i] = y
  <2> HIDE DEF f, S
  <2> QED BY <1>4 DEF Surjection
<1>6. \A y \in S : \E i \in S : (a * i) % Prime = y
  BY <1>5
<1> QED BY <1>2, <1>6 DEF Multiples

(* The multiples' product is that of 1..k and a power of the number.       *)
LEMMA ProductOfMultiples ==
  ASSUME NEW a \in 1..(Prime - 1)
  PROVE  \A k \in Nat : k <= Prime - 1 =>
           ProductTo(Multiples(a, k))[Prime - 1] % Prime
             = (Powers(a)[k] * ProductTo(1..k)[Prime - 1]) % Prime
<1> DEFINE n == Prime - 1  M(k) == ProductTo(Multiples(a, k))[n]  R(k) == ProductTo(1..k)[n]
           A(k) == Powers(a)[k]
           S == {k \in Nat : k <= n => M(k) % Prime = (A(k) * R(k)) % Prime}
<1>1. Prime \in Nat \ {0} /\ n \in Nat /\ a \in Nat
  BY PrimeIs
<1>2. \A k \in Nat : M(k) \in Nat /\ R(k) \in Nat
  BY <1>1, ProductToIs
<1>3. A(0) = 1 /\ \A k \in Nat : A(k) \in Nat /\ A(k + 1) = a * A(k)
  BY <1>1, PowersAreNat
<1>4. 0 \in S
  <2>1. Multiples(a, 0) = 1..0
    BY DEF Multiples
  <2>2. M(0) = R(0) /\ R(0) \in Nat
    BY <1>2, <2>1
  <2> HIDE DEF M, R, A
  <2> QED BY <1>3, <2>2
<1>5. ASSUME NEW k \in S PROVE k + 1 \in S
  <2> SUFFICES ASSUME k + 1 <= n
               PROVE  M(k + 1) % Prime = (A(k + 1) * R(k + 1)) % Prime
    OBVIOUS
  <2> DEFINE i == k + 1  z == (a * i) % Prime
  <2>1. k \in Nat /\ k <= n /\ i \in 1..n /\ M(k) % Prime = (A(k) * R(k)) % Prime
    BY <1>1
  <2>2. z \in 1..n
    <3>1. i \in 1..(Prime - 1) /\ a * i \in Nat
      BY <1>1, <2>1
    <3> HIDE DEF i
    <3>2. z # 0
      BY <3>1, LimbAssumption
    <3>3. z \in 0..(Prime - 1)
      BY <3>1, PrimeIs
    <3> HIDE DEF z
    <3> QED BY <1>1, <3>2, <3>3
  <2>3. Multiples(a, i) = Multiples(a, k) \cup {z}
    <3>1. 1..i = 1..k \cup {i}
      BY <2>1
    <3> QED BY <3>1 DEF Multiples
  <2>4. z \notin Multiples(a, k)
    <3> SUFFICES ASSUME NEW j \in 1..k, (a * j) % Prime = (a * i) % Prime PROVE FALSE
      BY DEF Multiples
    <3>1. j \in 1..(Prime - 1) /\ i \in 1..(Prime - 1) /\ j # i
      BY <1>1, <2>1
    <3> HIDE DEF i
    <3> QED BY <3>1, MultiplesDiffer
  <2>5. M(i) = z * M(k)
    <3> HIDE DEF z, i
    <3> QED BY <1>1, <2>2, <2>3, <2>4, ProductWith
  <2>6. R(i) = i * R(k)
    <3>1. 1..i = 1..k \cup {i} /\ i \notin 1..k
      BY <2>1
    <3> HIDE DEF i
    <3> QED BY <1>1, <2>1, <3>1, ProductWith
  <2> DEFINE P == M(k)  W == R(k)  B == A(k)  v == a * i
  <2>7. P \in Nat /\ W \in Nat /\ B \in Nat /\ i \in Nat /\ v \in Nat /\ P % Prime = (B * W) % Prime
        /\ B * W \in Nat
    <3>1. P \in Nat /\ W \in Nat /\ B \in Nat /\ i \in Nat
      BY <1>2, <1>3, <2>1
    <3> HIDE DEF P, W, B, i
    <3>2. B * W \in Nat /\ v \in Nat
      BY ONLY <1>1, <3>1
    <3> QED BY <2>1, <3>1, <3>2 DEF P, W, B
  <2>8. (z * P) % Prime = ((a * B) * (i * W)) % Prime
    <3> HIDE DEF P, W, B, i
    <3>1. ((v % Prime) * P) % Prime = (v * P) % Prime
      <4> HIDE DEF v
      <4> QED BY <1>1, <2>7, RemainderOfProduct
    <3>2. (v * P) % Prime = (v * (P % Prime)) % Prime
      <4> HIDE DEF v
      <4> QED BY <1>1, <2>7, RemainderOfProduct
    <3> DEFINE u == B * W
    <3>3. (v * u) % Prime = (v * (u % Prime)) % Prime
      <4> HIDE DEF v, u
      <4> QED BY <1>1, <2>7, RemainderOfProduct DEF u
    <3>4. v * u = (a * B) * (i * W)
      BY ONLY <1>1, <2>7
    <3>5. v * (P % Prime) = v * (u % Prime)
      BY <2>7
    <3> HIDE DEF v, u
    <3> QED BY <3>1, <3>2, <3>3, <3>4, <3>5 DEF v
  <2>9. A(i) = a * B
    BY <1>3, <2>1
  <2> HIDE DEF z, M, R, A
  <2> QED BY <2>5, <2>6, <2>8, <2>9
<1>6. S = Nat
  <2> HIDE DEF S
  <2>1. S \in SUBSET Nat
    BY DEF S
  <2> QED BY <1>4, <1>5, <2>1, NumberInduction
<1>7. \A k \in Nat : k <= n => M(k) % Prime = (A(k) * R(k)) % Prime
  <2> HIDE DEF M, A, R
  <2> QED BY <1>6
<1> QED BY <1>7

(* The product of 1..p-1 is not divided by the prime.                      *)
LEMMA ProductsAreNotZero ==
  ASSUME NEW S
  PROVE  \A k \in Nat : k <= Prime - 1 => ProductTo(S)[k] % Prime # 0
<1> DEFINE g == ProductTo(S)  Held == {k \in Nat : k <= Prime - 1 => g[k] % Prime # 0}
<1>1. /\ g[0] = 1 /\ \A k \in Nat : g[k] \in Nat
      /\ \A k \in Nat : k + 1 \in S => g[k + 1] = (k + 1) * g[k]
      /\ \A k \in Nat : k + 1 \notin S => g[k + 1] = g[k]
  BY ProductToIs
<1>2. Prime \in Nat \ {0} /\ Prime >= 3
  BY PrimeIs
<1> HIDE DEF g
<1>3. 0 \in Held
  <2>1. 1 % Prime = 1
    <3>1. 1 \in 0..(Prime - 1)
      BY <1>2
    <3> QED BY ONLY <1>2, <3>1, RemainderOfSmall
  <2> QED BY <1>1, <2>1
<1>4. ASSUME NEW k \in Held PROVE k + 1 \in Held
  <2> SUFFICES ASSUME k + 1 <= Prime - 1 PROVE g[k + 1] % Prime # 0
    OBVIOUS
  <2>1. k \in Nat /\ g[k] \in Nat /\ g[k] % Prime # 0
    BY <1>1, <1>2
  <2> DEFINE i == k + 1
  <2>2. i \in Nat /\ i % Prime # 0
    <3>1. i \in 0..(Prime - 1) /\ i # 0 /\ i \in Nat
      BY <1>2, <2>1
    <3> HIDE DEF i
    <3>2. i % Prime = i
      BY ONLY <1>2, <3>1, RemainderOfSmall
    <3> QED BY <3>1, <3>2
  <2>3. (i * g[k]) % Prime # 0
    <3> DEFINE u == g[k]
    <3>1. u \in Nat /\ u % Prime # 0
      BY <2>1
    <3> HIDE DEF i, u
    <3>2. (i * u) % Prime # 0
      BY <2>2, <3>1, NoDivisors
    <3> QED BY <3>2 DEF u
  <2> QED BY <1>1, <2>1, <2>3
<1>5. Held = Nat
  <2> HIDE DEF Held
  <2>1. Held \in SUBSET Nat
    BY DEF Held
  <2> QED BY <1>3, <1>4, <2>1, NumberInduction
<1>6. \A k \in Nat : k <= Prime - 1 => g[k] % Prime # 0
  BY <1>5
<1> QED BY <1>6 DEF g

(* Fermat's theorem.                                                       *)
LEMMA Fermat ==
  ASSUME NEW a \in 1..(Prime - 1)
  PROVE  Powers(a)[Prime - 1] % Prime = 1
<1> DEFINE n == Prime - 1  W == ProductTo(1..n)[n]  A == Powers(a)[n]  u == A % Prime
<1>1. Prime \in Nat \ {0} /\ Prime >= 3 /\ n \in Nat /\ n <= Prime - 1 /\ a \in Nat
  BY PrimeIs
<1>2. W \in Nat /\ W % Prime # 0
  <2>1. W \in Nat
    BY <1>1, ProductToIs
  <2>2. \A k \in Nat : k <= Prime - 1 => ProductTo(1..n)[k] % Prime # 0
    BY ProductsAreNotZero
  <2> QED BY <1>1, <2>1, <2>2
<1>3. A \in Nat /\ u \in 0..n
  <2>1. A \in Nat
    BY <1>1, PowersAreNat
  <2> HIDE DEF A
  <2> QED BY <2>1, PrimeIs
<1>4. W % Prime = (u * W) % Prime
  <2>1. ProductTo(Multiples(a, n))[n] % Prime = (A * W) % Prime
    BY <1>1, ProductOfMultiples
  <2>2. Multiples(a, n) = 1..n
    BY MultiplesAreAll
  <2>3. (A * W) % Prime = ((A % Prime) * W) % Prime
    <3> HIDE DEF A, W
    <3> QED BY <1>1, <1>2, <1>3, RemainderOfProduct
  <2> QED BY <2>1, <2>2, <2>3
<1> HIDE DEF W, A, u
<1>5. u # 0
  <2> SUFFICES ASSUME u = 0 PROVE FALSE
    OBVIOUS
  <2>1. u * W = 0
    BY <1>2
  <2>2. 0 % Prime = 0
    <3>1. 0 \in 0..(Prime - 1)
      BY <1>1
    <3> QED BY ONLY <1>1, <3>1, RemainderOfSmall
  <2> QED BY <1>2, <1>4, <2>1, <2>2
<1>6. u = 1
  <2> SUFFICES ASSUME u # 1 PROVE FALSE
    OBVIOUS
  <2> DEFINE d == u - 1
  <2>1. d \in 0..(Prime - 1) /\ d # 0 /\ d \in Nat /\ u = d + 1
    BY <1>1, <1>3, <1>5
  <2> HIDE DEF d
  <2>2. d % Prime # 0
    <3>1. d % Prime = d
      BY ONLY <1>1, <2>1, RemainderOfSmall
    <3> QED BY <2>1, <3>1
  <2>3. (d * W) % Prime # 0
    BY <1>2, <2>1, <2>2, NoDivisors
  <2> DEFINE v == u * W
  <2>4. v - W = d * W /\ v \in Nat /\ W <= v
    <3>1. (d + 1) * W = d * W + W /\ d * W \in Nat
      BY ONLY <1>2, <2>1
    <3> QED BY <1>2, <2>1, <3>1
  <2>5. v % Prime = W % Prime
    BY <1>4
  <2> HIDE DEF v
  <2>6. (v - W) % Prime = 0
    BY <1>1, <1>2, <2>4, <2>5, RemaindersAgree
  <2> QED BY <2>3, <2>4, <2>6
<1> QED BY <1>6 DEF u, A

(* A square to the power of (p - 1) / 2 is one.                            *)
LEMMA EulerOfSquare ==
  ASSUME NEW s \in 1..(Prime - 1), NEW y \in Nat, y = (s * s) % Prime
  PROVE  Powers(y)[2 * Quarter + 1] % Prime = 1
<1> DEFINE k == 2 * Quarter + 1  v == s * s
<1>1. Prime \in Nat \ {0} /\ s \in Nat /\ k \in Nat /\ 2 * k = Prime - 1 /\ v \in Nat
  BY PrimeIs
<1>2. Powers(v % Prime)[k] % Prime = Powers(v)[k] % Prime
  <2> HIDE DEF v, k
  <2> QED BY <1>1, RemainderOfPowers
<1>3. Powers(s)[2] = v
  BY <1>1, PowersAreNat
<1>4. Powers(v)[k] = Powers(s)[2 * k]
  <2>1. \A n \in Nat : Powers(Powers(s)[2])[n] = Powers(s)[2 * n]
    BY <1>1, PowersOfPowers
  <2> HIDE DEF v, k
  <2> QED BY <1>1, <1>3, <2>1
<1>5. Powers(s)[2 * k] % Prime = 1
  <2> HIDE DEF k
  <2> QED BY <1>1, Fermat
<1> HIDE DEF v, k
<1> QED BY <1>2, <1>4, <1>5 DEF v, k

(* The root the code computes: a power.                                    *)
RootOf(c) == Powers(c)[Quarter + 1] % Prime

(* It is a residue, and squares to a power.                                *)
LEMMA RootIs ==
  ASSUME NEW c \in Nat
  PROVE  RootOf(c) \in 0..(Prime - 1) /\ Powers(c)[Quarter + 1] \in Nat
<1>1. Quarter + 1 \in Nat
  BY PrimeIs
<1>2. Powers(c)[Quarter + 1] \in Nat
  BY <1>1, PowersAreNat
<1> QED BY <1>2, PrimeIs DEF RootOf

(* The square root of y^2 that the code computes, when y is a square, is y. *)
LEMMA RootOfSquare ==
  ASSUME NEW s \in 1..(Prime - 1), NEW y \in 0..(Prime - 1), y = (s * s) % Prime
  PROVE  RootOf((y * y) % Prime) = y
<1> DEFINE n == Quarter + 1  k == 2 * Quarter + 1  v == y * y
<1>1. /\ Prime \in Nat \ {0} /\ y \in Nat /\ n \in Nat /\ k \in Nat /\ 2 * n = k + 1 /\ v \in Nat
  BY PrimeIs
<1>2. Powers(v % Prime)[n] % Prime = Powers(v)[n] % Prime
  <2> HIDE DEF v, n, k
  <2> QED BY <1>1, RemainderOfPowers
<1>3. Powers(v)[n] = Powers(y)[2 * n]
  <2>1. \A i \in Nat : Powers(Powers(y)[2])[i] = Powers(y)[2 * i]
    <3>1. y \in Nat /\ 2 \in Nat
      BY <1>1
    <3> QED BY <3>1, PowersOfPowers
  <2>2. Powers(y)[2] = v
    BY <1>1, PowersAreNat
  <2> HIDE DEF v, k, n
  <2> QED BY <1>1, <2>1, <2>2
<1>4. Powers(y)[k + 1] = y * Powers(y)[k] /\ Powers(y)[k] \in Nat
  <2> HIDE DEF k, n, v
  <2> QED BY <1>1, PowersAreNat
<1>5. Powers(y)[k] % Prime = 1
  BY <1>1, EulerOfSquare
<1>6. (y * Powers(y)[k]) % Prime = y
  <2> DEFINE u == Powers(y)[k]
  <2>1. u \in Nat /\ u % Prime = 1
    BY <1>4, <1>5
  <2> HIDE DEF u
  <2>2. (y * u) % Prime = (y * (u % Prime)) % Prime
    BY <1>1, <2>1, RemainderOfProduct
  <2>3. y * 1 = y /\ y % Prime = y
    <3>1. y % Prime = y
      BY ONLY <1>1, y \in 0..(Prime - 1), RemainderOfSmall
    <3> QED BY <1>1, <3>1
  <2> QED BY <2>1, <2>2, <2>3 DEF u
<1> HIDE DEF n, k, v
<1> QED BY <1>1, <1>2, <1>3, <1>4, <1>6 DEF RootOf, n, v

(* A root that does square to its argument is itself a square.             *)
LEMMA RootIsSquare ==
  ASSUME NEW c \in 1..(Prime - 1), NEW r \in Nat, r = RootOf(c), (r * r) % Prime = c
  PROVE  r \in 1..(Prime - 1) /\ \E s \in 1..(Prime - 1) : (s * s) % Prime = r
<1> DEFINE n == Quarter + 1  u == Powers(r)[n]  s == u % Prime  v == r * r
<1>1. Prime \in Nat \ {0} /\ n \in Nat /\ r \in 0..(Prime - 1) /\ c \in Nat /\ v \in Nat
  <2>1. c \in Nat /\ Prime \in Nat \ {0} /\ n \in Nat
    BY PrimeIs
  <2>2. r \in 0..(Prime - 1)
    BY <2>1, RootIs
  <2>3. v \in Nat
    OBVIOUS
  <2> QED BY <2>1, <2>2, <2>3
<1>2. 0 % Prime = 0
  <2>1. 0 \in 0..(Prime - 1)
    BY <1>1
  <2> QED BY ONLY <1>1, <2>1, RemainderOfSmall
<1>3. r # 0
  <2> SUFFICES ASSUME r = 0 PROVE FALSE
    OBVIOUS
  <2>1. r * r = 0
    BY <1>1
  <2> QED BY <1>2, <2>1
<1>4. u \in Nat /\ u * u \in Nat /\ s \in 0..(Prime - 1)
  <2>1. u \in Nat
    BY <1>1, PowersAreNat
  <2> HIDE DEF u
  <2>2. u % Prime \in 0..(Prime - 1)
    BY <2>1, PrimeIs
  <2>3. u * u \in Nat
    BY <2>1
  <2> QED BY <2>1, <2>2, <2>3
<1>5. u * u = Powers(v)[n]
  <2>1. \A i \in Nat : Powers(Powers(r)[2])[i] = Powers(r)[2 * i]
    BY <1>1, PowersOfPowers
  <2>2. Powers(r)[2] = v
    BY <1>1, PowersAreNat
  <2>3. Powers(r)[n + n] = u * u
    <3>1. r \in Int /\ n \in Nat
      BY <1>1
    <3> HIDE DEF n
    <3>2. Powers(r)[n + n] = Powers(r)[n] * Powers(r)[n]
      BY ONLY <3>1, PowersAdd
    <3> QED BY <3>2
  <2>4. n + n = 2 * n
    BY <1>1
  <2> HIDE DEF v, n, u
  <2> QED BY <1>1, <2>1, <2>2, <2>3, <2>4
<1>6. Powers(v)[n] % Prime = r
  <2>1. Powers(v % Prime)[n] % Prime = Powers(v)[n] % Prime
    <3> HIDE DEF v, n
    <3> QED BY <1>1, RemainderOfPowers
  <2> HIDE DEF n, u
  <2> QED BY <2>1 DEF RootOf, n
<1>7. (s * s) % Prime = r
  <2>1. (u * u) % Prime = ((u % Prime) * (u % Prime)) % Prime
    <3> HIDE DEF u
    <3> QED BY <1>1, <1>4, RemainderOfProduct
  <2> HIDE DEF u, v, n
  <2> QED BY <1>5, <1>6, <2>1
<1>8. s # 0
  <2> SUFFICES ASSUME s = 0 PROVE FALSE
    OBVIOUS
  <2> HIDE DEF s
  <2>1. s * s = 0
    OBVIOUS
  <2> QED BY <1>2, <1>3, <1>7, <2>1
<1> HIDE DEF s
<1> QED BY <1>1, <1>3, <1>4, <1>7, <1>8

(* The squares among the residues.                                         *)
Squares == {(s * s) % Prime : s \in 1..(Prime - 1)}

(* The ordinates that are squares are the root, or none where it fails.    *)
LEMMA OrdinatesAre ==
  ASSUME NEW c \in 1..(Prime - 1), NEW r \in Nat, r = RootOf(c)
  PROVE  /\ (r * r) % Prime = c => {y \in Squares : (y * y) % Prime = c} = {r}
         /\ (r * r) % Prime # c => {y \in Squares : (y * y) % Prime = c} = {}
<1>1. ASSUME NEW y \in Squares, (y * y) % Prime = c PROVE y = r
  <2>1. PICK s \in 1..(Prime - 1) : y = (s * s) % Prime
    BY DEF Squares
  <2>2. s * s \in Nat
    BY PrimeIs
  <2>3. y \in 0..(Prime - 1)
    BY <2>1, <2>2, PrimeIs
  <2> QED BY <1>1, <2>1, <2>3, RootOfSquare
<1>2. ASSUME (r * r) % Prime = c PROVE r \in Squares
  BY <1>2, RootIsSquare DEF Squares
<1> QED BY <1>1, <1>2

(* legendre: the check of such a root never fails.                         *)
LEMMA LegendreOfRoot ==
  ASSUME NEW c \in 1..(Prime - 1), NEW r \in Nat, r = RootOf(c), (r * r) % Prime = c
  PROVE  Powers(r)[(Prime - 1) \div 2] % Prime = 1
<1>1. PICK s \in 1..(Prime - 1) : r = (s * s) % Prime
  BY RootIsSquare
<1>2. Powers(r)[2 * Quarter + 1] % Prime = 1
  BY <1>1, EulerOfSquare
<1> QED BY <1>2, PrimeIs

-----------------------------------------------------------------------------
(***************************************************************************)
(* The programs: powers and the lift.                                      *)
(***************************************************************************)
(* The bits of an exponent.                                                *)
Upper(e, n) == e \div Two(n)

(* From one bit to the next.                                               *)
LEMMA UpperIs ==
  ASSUME NEW e \in Nat
  PROVE  /\ Upper(e, 0) = e
         /\ \A n \in Nat : /\ Upper(e, n) \in Nat /\ Upper(e, n) % 2 \in {0, 1}
                           /\ Upper(e, n) = 2 * Upper(e, n + 1) + (Upper(e, n) % 2)
<1>1. Upper(e, 0) = e
  <2>1. Two(0) = 1
    BY Twos
  <2>2. 1 \in Nat \ {0} /\ e \in Int /\ 0 \in 0..(1 - 1) /\ e = 1 * e + 0
    OBVIOUS
  <2>3. e \div 1 = e
    BY ONLY <2>2, e \in Nat, QuotientIs
  <2> QED BY <2>1, <2>3 DEF Upper
<1>2. ASSUME NEW n \in Nat
      PROVE  /\ Upper(e, n) \in Nat /\ Upper(e, n) % 2 \in {0, 1}
             /\ Upper(e, n) = 2 * Upper(e, n + 1) + (Upper(e, n) % 2)
  <2> DEFINE t == Two(n)  u == e \div t  h == u \div 2
  <2>1. t \in Nat \ {0} /\ Two(n + 1) = 2 * t /\ 2 \in Nat \ {0}
    BY Twos
  <2>2. u \in Nat
    <3> HIDE DEF t
    <3> QED BY <2>1, DivisionIs
  <2>3. h \in Nat /\ u % 2 \in {0, 1} /\ u = (u % 2) + 2 * h
    <3> HIDE DEF u
    <3>1. h \in Nat /\ u % 2 \in 0..(2 - 1) /\ u = (u % 2) + 2 * h
      BY <2>1, <2>2, DivisionIs
    <3> QED BY <3>1
  <2>4. e \div (2 * t) = h
    <3> HIDE DEF t
    <3> QED BY <2>1, DividedTwice
  <2>5. Upper(e, n) = u /\ Upper(e, n + 1) = h
    BY <2>1, <2>4 DEF Upper
  <2> HIDE DEF u, h
  <2>6. u = 2 * h + (u % 2)
    BY <2>2, <2>3
  <2> QED BY <2>2, <2>3, <2>5, <2>6
<1> QED BY <1>1, <1>2

(* A number has Width bits.                                                *)
LEMMA WidthIs == Width \in Nat /\ Two(Width) = Full
<1>1. Width \in Nat /\ N \in Nat /\ WordBits \in Nat /\ Width = WordBits * N
  <2>1. N \in Nat /\ WordBits \in Nat
    BY NIs
  <2>2. N * WordBits = WordBits * N
    BY ONLY <2>1
  <2> QED BY <2>1, <2>2, BitsAre DEF Width
<1>2. Powers(Powers(2)[WordBits])[N] = Powers(2)[WordBits * N]
  <2>1. 2 \in Nat
    OBVIOUS
  <2> QED BY ONLY <1>1, <2>1, PowersOfPowers
<1> QED BY <1>1, <1>2 DEF Two, Full, Base

(* No bit of a number is above them.                                       *)
LEMMA ExponentIsShort ==
  ASSUME NEW e \in 0..(Full - 1)
  PROVE  Upper(e, Width) = 0
<1>1. Full \in Nat \ {0}
  BY ModulusIs
<1>2. e \in Nat /\ 0 \in Int /\ e \in 0..(Full - 1) /\ e = Full * 0 + e
  BY <1>1
<1>3. e \div Full = 0
  BY ONLY <1>1, <1>2, QuotientIs
<1> QED BY <1>3, WidthIs DEF Upper

(* A power modulo the prime.                                               *)
Residue(c, k) == Powers(c)[k] % Prime

(* Squaring doubles an exponent, a multiplication adds one.                *)
LEMMA ResidueIs ==
  ASSUME NEW c \in 0..(Prime - 1)
  PROVE  /\ Residue(c, 0) = 1
         /\ \A k \in Nat : /\ Residue(c, k) \in 0..(Prime - 1)
                           /\ (Residue(c, k) * Residue(c, k)) % Prime = Residue(c, 2 * k)
                           /\ (Residue(c, k) * c) % Prime = Residue(c, k + 1)
<1>1. Prime \in Nat \ {0} /\ Prime >= 3 /\ c \in Nat
  BY PrimeIs
<1>2. Powers(c)[0] = 1 /\ \A k \in Nat : Powers(c)[k] \in Nat /\ Powers(c)[k + 1] = c * Powers(c)[k]
  BY <1>1, PowersAreNat
<1>3. Residue(c, 0) = 1
  <2>1. 1 \in 0..(Prime - 1)
    BY <1>1
  <2>2. 1 % Prime = 1
    BY ONLY <1>1, <2>1, RemainderOfSmall
  <2> QED BY <1>2, <2>2 DEF Residue
<1>4. ASSUME NEW k \in Nat
      PROVE  /\ Residue(c, k) \in 0..(Prime - 1)
             /\ (Residue(c, k) * Residue(c, k)) % Prime = Residue(c, 2 * k)
             /\ (Residue(c, k) * c) % Prime = Residue(c, k + 1)
  <2> DEFINE u == Powers(c)[k]
  <2>1. u \in Nat /\ Powers(c)[k + 1] = c * u
    BY <1>2
  <2>2. Powers(c)[2 * k] = u * u
    <3>1. Powers(c)[k + k] = u * u
      <4>1. c \in Int /\ k \in Nat
        BY <1>1
      <4> QED BY ONLY <4>1, PowersAdd
    <3>2. k + k = 2 * k
      OBVIOUS
    <3> HIDE DEF u
    <3> QED BY <3>1, <3>2
  <2>3. Residue(c, k) = u % Prime
    BY DEF Residue
  <2> HIDE DEF u
  <2>4. u % Prime \in 0..(Prime - 1)
    BY <2>1, PrimeIs
  <2>5. (u * u) % Prime = ((u % Prime) * (u % Prime)) % Prime
    BY <1>1, <2>1, RemainderOfProduct
  <2>6. (u * c) % Prime = ((u % Prime) * c) % Prime
    BY <1>1, <2>1, RemainderOfProduct
  <2>7. u * c = c * u
    BY <1>1, <2>1
  <2> QED BY <2>1, <2>2, <2>3, <2>4, <2>5, <2>6, <2>7 DEF Residue
<1> QED BY <1>3, <1>4

-----------------------------------------------------------------------------
(* Instructions.                                                           *)
LEMMA FirstIs ==
  ASSUME NEW S, NEW x \in S, NEW s \in Seq(S)
  PROVE  /\ <<x>> \in Seq(S) /\ <<x>> \o s \in Seq(S) /\ <<x>> \o s # << >>
         /\ Head(<<x>> \o s) = x /\ Tail(<<x>> \o s) = s
<1>1. <<x>> \in Seq(S) /\ Len(<<x>>) = 1 /\ <<x>>[1] = x
  OBVIOUS
<1> DEFINE t == <<x>> \o s
<1>2. /\ t \in Seq(S) /\ Len(t) = 1 + Len(s) /\ Len(s) \in Nat
      /\ \A i \in 1..Len(t) : t[i] = IF i <= 1 THEN <<x>>[i] ELSE s[i - 1]
  <2>1. /\ t \in Seq(S) /\ Len(t) = Len(<<x>>) + Len(s)
        /\ \A i \in 1..(Len(<<x>>) + Len(s)) : t[i] = IF i <= Len(<<x>>) THEN <<x>>[i] ELSE s[i - Len(<<x>>)]
    BY <1>1, ConcatProperties
  <2>2. Len(s) \in Nat
    OBVIOUS
  <2> HIDE DEF t
  <2> QED BY <1>1, <2>1, <2>2
<1> HIDE DEF t
<1>3. t # << >> /\ t[1] = x
  <2>1. 1 \in 1..Len(t)
    BY <1>2
  <2> QED BY <1>1, <1>2, <2>1
<1>4. Head(t) = x
  BY <1>2, <1>3
<1>5. Tail(t) \in Seq(S) /\ Len(Tail(t)) = Len(s) /\ \A i \in 1..Len(s) : Tail(t)[i] = t[i + 1]
  <2>1. /\ Tail(t) \in Seq(S) /\ Len(Tail(t)) = Len(t) - 1
        /\ \A i \in 1..Len(Tail(t)) : Tail(t)[i] = t[i + 1]
    BY <1>2, <1>3, HeadTailProperties
  <2>2. Len(Tail(t)) = Len(s)
    BY <1>2, <2>1
  <2> QED BY <2>1, <2>2
<1>6. \A i \in 1..Len(s) : t[i + 1] = s[i]
  <2> SUFFICES ASSUME NEW i \in 1..Len(s) PROVE t[i + 1] = s[i]
    OBVIOUS
  <2>1. i + 1 \in 1..Len(t) /\ ~ (i + 1 <= 1) /\ (i + 1) - 1 = i
    BY <1>2
  <2> QED BY <1>2, <2>1
<1>7. Tail(t) = s
  <2> DEFINE u == Tail(t)
  <2>1. u \in Seq(S) /\ s \in Seq(S) /\ Len(u) = Len(s) /\ \A i \in 1..Len(u) : u[i] = s[i]
    BY <1>5, <1>6
  <2> HIDE DEF u
  <2>2. u = s
    BY ONLY <2>1, SeqEqual
  <2> QED BY <2>2 DEF u
<1> QED BY <1>1, <1>2, <1>3, <1>4, <1>7 DEF t

(* The instructions of a program, and programs.                            *)
Instructions == {"add", "mul", "by x", "by base", "square", "plus seven", "power of it", "power of root",
          "root", "check", "check one"}
Texts == Seq(Instructions)

(* A program that begins with x.                                           *)
LEMMA FirstOf ==
  ASSUME NEW x \in Instructions, NEW s \in Texts
  PROVE  /\ <<x>> \in Texts /\ <<x>> \o s \in Texts /\ <<x>> \o s # << >>
         /\ Head(<<x>> \o s) = x /\ Tail(<<x>> \o s) = s
BY FirstIs DEF Texts

(* One instruction is a program.                                           *)
LEMMA OneIs == ASSUME NEW x \in Instructions PROVE <<x>> \in Texts
BY DEF Texts

(* Programs one after the other are one.                                   *)
LEMMA Joined == ASSUME NEW a \in Texts, NEW b \in Texts PROVE a \o b \in Texts
BY ConcatProperties DEF Texts

(* Concatenation is associative.                                           *)
LEMMA Regrouped ==
  ASSUME NEW a \in Texts, NEW b \in Texts, NEW c \in Texts
  PROVE  (a \o b) \o c = a \o (b \o c)
BY ConcatAssociative DEF Texts

(* The empty program changes nothing.                                      *)
LEMMA NoneBefore == ASSUME NEW s \in Texts PROVE << >> \o s = s /\ s \o << >> = s
BY ConcatEmptySeq DEF Texts

(* The empty program is one.                                               *)
LEMMA NoText == << >> \in Texts
BY DEF Texts

(* Two instructions, one after the other.                                  *)
LEMMA PairIs ==
  ASSUME NEW S, NEW x \in S, NEW y \in S
  PROVE  <<x, y>> = <<x>> \o <<y>>
<1> DEFINE a == <<x>>  b == <<y>>  t == a \o b  u == <<x, y>>
<1>1. a \in Seq(S) /\ Len(a) = 1 /\ a[1] = x /\ b \in Seq(S) /\ Len(b) = 1 /\ b[1] = y
  OBVIOUS
<1>2. u \in Seq(S) /\ Len(u) = 2 /\ u[1] = x /\ u[2] = y
  OBVIOUS
<1> HIDE DEF a, b, u
<1>3. /\ t \in Seq(S) /\ Len(t) = 1 + 1
      /\ \A i \in 1..(1 + 1) : t[i] = IF i <= 1 THEN a[i] ELSE b[i - 1]
  BY <1>1, ConcatProperties
<1> HIDE DEF t
<1>4. t[1] = x /\ t[2] = y
  BY <1>1, <1>3
<1>5. Len(u) = Len(t) /\ \A i \in 1..Len(u) : u[i] = t[i]
  BY <1>2, <1>3, <1>4
<1>6. u = t
  BY ONLY <1>2, <1>3, <1>5, SeqEqual
<1> QED BY <1>6 DEF u, t, a, b

(* Three.                                                                  *)
LEMMA TripleIs ==
  ASSUME NEW S, NEW x \in S, NEW y \in S, NEW z \in S
  PROVE  <<x, y, z>> = <<x>> \o (<<y>> \o <<z>>)
<1> DEFINE a == <<x>>  b == <<y, z>>  t == a \o b  u == <<x, y, z>>
<1>0. b = <<y>> \o <<z>>
  BY PairIs
<1>1. a \in Seq(S) /\ Len(a) = 1 /\ a[1] = x /\ b \in Seq(S) /\ Len(b) = 2 /\ b[1] = y /\ b[2] = z
  OBVIOUS
<1>2. u \in Seq(S) /\ Len(u) = 3 /\ u[1] = x /\ u[2] = y /\ u[3] = z
  OBVIOUS
<1> HIDE DEF a, b, u
<1>3. /\ t \in Seq(S) /\ Len(t) = 1 + 2
      /\ \A i \in 1..(1 + 2) : t[i] = IF i <= 1 THEN a[i] ELSE b[i - 1]
  <2>1. /\ a \o b \in Seq(S) /\ Len(a \o b) = Len(a) + Len(b)
        /\ \A i \in 1..(Len(a) + Len(b)) : (a \o b)[i] = IF i <= Len(a) THEN a[i] ELSE b[i - Len(a)]
    <3>1. a \in Seq(S) /\ b \in Seq(S)
      BY <1>1
    <3> QED BY ONLY <3>1, ConcatProperties
  <2> HIDE DEF t
  <2> QED BY <1>1, <2>1 DEF t
<1> HIDE DEF t
<1>4. t[1] = x /\ t[2] = y /\ t[3] = z
  BY <1>1, <1>3
<1>5. Len(u) = Len(t) /\ \A i \in 1..Len(u) : u[i] = t[i]
  BY <1>2, <1>3, <1>4
<1>6. u = t
  BY ONLY <1>2, <1>3, <1>5, SeqEqual
<1>7. <<x, y, z>> = <<x>> \o b
  BY <1>6 DEF u, t, a
<1> QED BY <1>0, <1>7

(* What a power does for one bit of its exponent.                          *)
ForBit(e, n) == IF (e \div Powers(2)[n]) % 2 = 1 THEN <<"square", "by base">> ELSE <<"square">>

(* It squares, and multiplies for a bit that is set.                       *)
LEMMA ForBitIs ==
  ASSUME NEW e, NEW n
  PROVE  /\ ForBit(e, n) \in Texts
         /\ Upper(e, n) % 2 = 1 => ForBit(e, n) = <<"square">> \o <<"by base">>
         /\ Upper(e, n) % 2 # 1 => ForBit(e, n) = <<"square">>
<1>1. "square" \in Instructions /\ "by base" \in Instructions
  BY DEF Instructions
<1>2. <<"square", "by base">> = <<"square">> \o <<"by base">>
  BY <1>1, PairIs
<1>3. <<"square">> \in Texts /\ <<"by base">> \in Texts
  BY <1>1, OneIs
<1>4. <<"square">> \o <<"by base">> \in Texts
  BY <1>1, <1>3, FirstOf
<1> QED BY <1>2, <1>3, <1>4 DEF ForBit, Upper, Two

(* The program of a power, from its last bit back.                         *)
LEMMA PowerIs ==
  ASSUME NEW e
  PROVE  /\ Power(e)[0] = << >> /\ \A n \in Nat : Power(e)[n] \in Texts
         /\ \A n \in Nat : Power(e)[n + 1] = ForBit(e, n) \o Power(e)[n]
<1> DEFINE rule == [t \in Nat \X Texts |-> ForBit(e, t[1] - 1) \o t[2]]
<1>1. PICK g : SolvesAll(Texts, << >>, rule, g)
  <2>1. \A i \in Nat, v \in Texts : rule[<<i, v>>] \in Texts
    <3> SUFFICES ASSUME NEW i \in Nat, NEW v \in Texts PROVE rule[<<i, v>>] \in Texts
      OBVIOUS
    <3>1. rule[<<i, v>>] = ForBit(e, i - 1) \o v
      OBVIOUS
    <3>2. ForBit(e, i - 1) \o v \in Texts
      BY ForBitIs, Joined
    <3> QED BY <3>1, <3>2
  <2>2. << >> \in Texts
    BY DEF Texts
  <2> HIDE DEF rule
  <2> QED BY ONLY <2>1, <2>2, RecursionForAll, Zenon
<1>2. g \in [Nat -> Texts] /\ g[0] = << >> /\ \A i \in Nat \ {0} : g[i] = rule[<<i, g[i - 1]>>]
  <2> HIDE DEF rule
  <2> QED BY <1>1 DEF SolvesAll
<1>3. ASSUME NEW i \in Nat PROVE g[i] = IF i = 0 THEN << >> ELSE ForBit(e, i - 1) \o g[i - 1]
  <2>1. CASE i # 0
    <3>1. i - 1 \in Nat /\ i \in Nat \ {0}
      BY <2>1
    <3>2. g[i] = rule[<<i, g[i - 1]>>] /\ g[i - 1] \in Texts
      <4> HIDE DEF rule
      <4> QED BY <1>2, <3>1
    <3> DEFINE v == g[i - 1]
    <3>3. rule[<<i, v>>] = ForBit(e, i - 1) \o v
      <4> HIDE DEF v
      <4>1. v \in Texts
        BY <3>2 DEF v
      <4> QED BY <4>1
    <3> QED BY <2>1, <3>2, <3>3
  <2> QED BY <1>2, <2>1
<1> DEFINE F(p) == [n \in Nat |-> IF n = 0 THEN << >> ELSE ForBit(e, n - 1) \o p[n - 1]]
<1>4. g = F(g)
  BY <1>2, <1>3
<1>5. Power(e) = F(Power(e))
  BY <1>4 DEF Power, ForBit
<1> DEFINE q == Power(e)
<1>6. q[0] = << >> /\ \A n \in Nat : q[n + 1] = ForBit(e, n) \o q[n]
  <2> HIDE DEF q
  <2>1. q = F(q)
    BY <1>5 DEF q
  <2>2. \A n \in Nat : n + 1 # 0 /\ (n + 1) - 1 = n /\ n + 1 \in Nat
    OBVIOUS
  <2>3. \A n \in Nat : q[n] = IF n = 0 THEN << >> ELSE ForBit(e, n - 1) \o q[n - 1]
    BY <2>1
  <2> HIDE DEF F
  <2> QED BY <2>2, <2>3
<1> HIDE DEF q
<1>7. \A n \in Nat : q[n] \in Texts
  <2> DEFINE S == {n \in Nat : q[n] \in Texts}
  <2>1. 0 \in S
    BY <1>6, NoText
  <2>2. ASSUME NEW n \in S PROVE n + 1 \in S
    <3>1. q[n + 1] = ForBit(e, n) \o q[n] /\ q[n] \in Texts
      BY <1>6
    <3>2. ForBit(e, n) \in Texts
      BY ForBitIs
    <3>3. ForBit(e, n) \o q[n] \in Texts
      BY <3>1, <3>2, Joined, Regrouped
    <3>4. n + 1 \in Nat /\ q[n + 1] \in Texts
      BY <3>1, <3>3
    <3> HIDE DEF q
    <3> QED BY <3>4
  <2>3. S = Nat
    <3> HIDE DEF S
    <3>1. S \in SUBSET Nat
      BY DEF S
    <3> QED BY <2>1, <2>2, <3>1, NumberInduction
  <2> QED BY <2>3
<1> QED BY <1>6, <1>7 DEF q

(* A power followed by the rest of a program.                              *)
LEMMA PowerGoesOn ==
  ASSUME NEW e, NEW rest \in Texts
  PROVE  /\ Power(e)[0] \o rest = rest
         /\ \A n \in Nat :
              /\ Power(e)[n] \o rest \in Texts
              /\ Upper(e, n) % 2 = 1 =>
                   Power(e)[n + 1] \o rest = <<"square">> \o (<<"by base">> \o (Power(e)[n] \o rest))
              /\ Upper(e, n) % 2 # 1 =>
                   Power(e)[n + 1] \o rest = <<"square">> \o (Power(e)[n] \o rest)
<1> DEFINE q == Power(e)  sq == <<"square">>  by == <<"by base">>
<1>1. q[0] = << >> /\ \A n \in Nat : q[n] \in Texts /\ q[n + 1] = ForBit(e, n) \o q[n]
  BY PowerIs
<1>2. sq \in Texts /\ by \in Texts
  <2>1. "square" \in Instructions /\ "by base" \in Instructions
    BY DEF Instructions
  <2> QED BY <2>1, OneIs
<1>3. \A n \in Nat : /\ Upper(e, n) % 2 = 1 => ForBit(e, n) = sq \o by
                     /\ Upper(e, n) % 2 # 1 => ForBit(e, n) = sq
  BY ForBitIs
<1> HIDE DEF q, sq, by
<1>4. q[0] \o rest = rest
  BY <1>1, NoneBefore
<1>5. ASSUME NEW n \in Nat
      PROVE  /\ q[n] \o rest \in Texts
             /\ Upper(e, n) % 2 = 1 => q[n + 1] \o rest = sq \o (by \o (q[n] \o rest))
             /\ Upper(e, n) % 2 # 1 => q[n + 1] \o rest = sq \o (q[n] \o rest)
  <2> DEFINE u == q[n]
  <2>1. u \in Texts /\ q[n + 1] = ForBit(e, n) \o u
    BY <1>1
  <2> HIDE DEF u
  <2>2. u \o rest \in Texts
    BY <2>1, Joined, Regrouped
  <2>3. (sq \o u) \o rest = sq \o (u \o rest)
    BY <1>2, <2>1, Joined, Regrouped
  <2>4. ((sq \o by) \o u) \o rest = sq \o (by \o (u \o rest))
    <3>1. sq \o by \in Texts /\ ((sq \o by) \o u) \o rest = (sq \o by) \o (u \o rest)
      BY <1>2, <2>1, Joined, Regrouped
    <3>2. (sq \o by) \o (u \o rest) = sq \o (by \o (u \o rest))
      BY <1>2, <2>2, Joined, Regrouped
    <3> QED BY <3>1, <3>2
  <2>5. u \o rest = q[n] \o rest
    BY DEF u
  <2> QED BY <1>3, <2>1, <2>2, <2>3, <2>4, <2>5
<1> QED BY <1>4, <1>5 DEF q, sq, by

-----------------------------------------------------------------------------
(* The lift's instructions, from the last back to the first.               *)
RootExponent == (Prime + 1) \div 4
HalfOrder == (Prime - 1) \div 2
Ending(r) == IF r = "balance" THEN Legendre ELSE << >>
AtSquare(r) == <<"square">> \o (<<"check">> \o Ending(r))
AtRoot(r) == <<"root">> \o AtSquare(r)
AtPower(r) == <<"power of it">> \o (Power(RootExponent)[Width] \o AtRoot(r))
AtSeven(r) == <<"plus seven">> \o AtPower(r)
AtCube(r) == <<"by x">> \o AtSeven(r)

(* The check of the partial balance proof.                                 *)
LEMMA LegendreIs ==
  Legendre = <<"power of root">> \o (Power(HalfOrder)[Width] \o <<"check one">>) /\ Legendre \in Texts
<1> DEFINE q == Power(HalfOrder)[Width]  a == <<"power of root">>  b == <<"check one">>
<1>1. a \in Texts /\ b \in Texts
  <2>1. "power of root" \in Instructions /\ "check one" \in Instructions
    BY DEF Instructions
  <2> QED BY <2>1, OneIs
<1>2. q \in Texts
  BY PowerIs, WidthIs
<1>3. Legendre = (a \o q) \o b
  BY DEF Legendre, HalfOrder
<1> HIDE DEF q, a, b
<1>4. (a \o q) \o b = a \o (q \o b) /\ (a \o q) \o b \in Texts
  BY <1>1, <1>2, Joined, Regrouped
<1> QED BY <1>3, <1>4 DEF q, a, b

(* All of these are programs.                                              *)
LEMMA StagesAre ==
  ASSUME NEW r
  PROVE  /\ Ending(r) \in Texts /\ <<"check">> \o Ending(r) \in Texts /\ AtSquare(r) \in Texts
         /\ AtRoot(r) \in Texts /\ Power(RootExponent)[Width] \o AtRoot(r) \in Texts
         /\ AtPower(r) \in Texts /\ AtSeven(r) \in Texts /\ AtCube(r) \in Texts
<1>1. /\ "check" \in Instructions /\ "square" \in Instructions /\ "root" \in Instructions /\ "power of it" \in Instructions
      /\ "plus seven" \in Instructions /\ "by x" \in Instructions
  BY DEF Instructions
<1>2. Ending(r) \in Texts
  BY LegendreIs, NoText DEF Ending
<1>3. <<"check">> \o Ending(r) \in Texts
  BY <1>1, <1>2, FirstOf
<1>4. AtSquare(r) \in Texts
  BY <1>1, <1>3, FirstOf DEF AtSquare
<1>5. AtRoot(r) \in Texts
  BY <1>1, <1>4, FirstOf DEF AtRoot
<1>6. Power(RootExponent)[Width] \o AtRoot(r) \in Texts
  BY <1>5, WidthIs, PowerGoesOn
<1>7. AtPower(r) \in Texts
  BY <1>1, <1>6, FirstOf DEF AtPower
<1>8. AtSeven(r) \in Texts
  BY <1>1, <1>7, FirstOf DEF AtSeven
<1>9. AtCube(r) \in Texts
  BY <1>1, <1>8, FirstOf DEF AtCube
<1> QED BY <1>2, <1>3, <1>4, <1>5, <1>6, <1>7, <1>8, <1>9

(* The brackets of seven concatenations do not matter.                     *)
Bracketed(x, s, p, q, g, d, k, e) ==
  ((x \o (x \o s)) \o ((p \o q) \o (g \o (d \o k)))) \o e
    = x \o (x \o (s \o (p \o (q \o (g \o (d \o (k \o e)))))))

LEMMA AllRegrouped ==
  ASSUME NEW x, NEW s, NEW p, NEW q, NEW g, NEW d, NEW k, NEW e,
         x \in Texts, s \in Texts, p \in Texts, q \in Texts, g \in Texts, d \in Texts, k \in Texts, e \in Texts
  PROVE  Bracketed(x, s, p, q, g, d, k, e)
<1> DEFINE dk == d \o k  gdk == g \o dk  pq == p \o q  xs == x \o s  xxs == x \o xs  t == pq \o gdk
           ke == k \o e  dke == d \o ke  gdke == g \o dke  qr == q \o gdke  pr == p \o qr  sr == s \o pr
           xr == x \o sr
<1>1. dk \in Texts /\ ke \in Texts /\ dke \in Texts /\ gdk \in Texts /\ gdke \in Texts
      /\ qr \in Texts /\ pr \in Texts /\ pq \in Texts /\ xs \in Texts
  <2>1. dk \in Texts /\ ke \in Texts /\ pq \in Texts /\ xs \in Texts
    BY Joined
  <2> HIDE DEF dk, ke, pq, xs
  <2>2. gdk \in Texts /\ dke \in Texts
    BY <2>1, Joined
  <2> HIDE DEF dke, gdk
  <2>3. gdke \in Texts
    BY <2>2, Joined
  <2> HIDE DEF gdke
  <2>4. qr \in Texts
    BY <2>3, Joined
  <2> HIDE DEF qr
  <2>5. pr \in Texts
    BY <2>4, Joined
  <2> QED BY <2>1, <2>2, <2>3, <2>4, <2>5
<1>2. xxs \in Texts /\ t \in Texts
  <2> HIDE DEF xs, pq, gdk
  <2> QED BY <1>1, Joined
<1>3. dk \o e = dke
  BY ONLY d \in Texts, k \in Texts, e \in Texts, Regrouped
<1>4. gdk \o e = gdke
  <2>1. (g \o dk) \o e = g \o (dk \o e)
    <3>1. dk \in Texts
      BY <1>1
    <3> HIDE DEF dk
    <3> QED BY ONLY <3>1, g \in Texts, e \in Texts, Regrouped
  <2> QED BY <1>3, <2>1
<1>5. t \o e = pr
  <2>1. (pq \o gdk) \o e = pq \o (gdk \o e)
    <3>1. pq \in Texts /\ gdk \in Texts
      BY <1>1
    <3> HIDE DEF pq, gdk
    <3> QED BY ONLY <3>1, e \in Texts, Regrouped
  <2>2. (p \o q) \o gdke = p \o (q \o gdke)
    <3>1. gdke \in Texts
      BY <1>1
    <3> HIDE DEF gdke
    <3> QED BY ONLY <3>1, p \in Texts, q \in Texts, Regrouped
  <2> QED BY <1>4, <2>1, <2>2
<1>6. (xxs \o t) \o e = xxs \o (t \o e)
  <2> HIDE DEF xxs, t
  <2> QED BY ONLY <1>2, e \in Texts, Regrouped
<1>8. xxs \o pr = x \o xr
  <2>1. (x \o xs) \o pr = x \o (xs \o pr)
    <3>1. xs \in Texts /\ pr \in Texts
      BY <1>1
    <3> HIDE DEF xs, pr
    <3> QED BY ONLY <3>1, x \in Texts, Regrouped
  <2>2. (x \o s) \o pr = x \o (s \o pr)
    <3>1. pr \in Texts
      BY <1>1
    <3> HIDE DEF pr
    <3> QED BY ONLY <3>1, x \in Texts, s \in Texts, Regrouped
  <2> QED BY <2>1, <2>2
<1>7. (xxs \o t) \o e = x \o xr
  <2> HIDE DEF pr, xr, xs, xxs, t, pq, gdke
  <2> QED BY <1>5, <1>6, <1>8
<1> QED BY <1>7 DEF Bracketed

(* The lift is the chain of its stages.                                    *)
LEMMA LiftIs ==
  ASSUME NEW r
  PROVE  Lift(r) = <<"by x">> \o AtCube(r) /\ Lift(r) \in Texts
<1> DEFINE x == <<"by x">>  s == <<"plus seven">>  p == <<"power of it">>  q == Power(RootExponent)[Width]
           g == <<"root">>  d == <<"square">>  k == <<"check">>  e == Ending(r)
<1>1. /\ "check" \in Instructions /\ "square" \in Instructions /\ "root" \in Instructions /\ "power of it" \in Instructions
      /\ "plus seven" \in Instructions /\ "by x" \in Instructions
  BY DEF Instructions
<1>2. <<"by x", "by x", "plus seven">> = x \o (x \o s)
  BY <1>1, TripleIs
<1>3. <<"root", "square", "check">> = g \o (d \o k)
  BY <1>1, TripleIs
<1>4. x \in Texts /\ s \in Texts /\ p \in Texts /\ g \in Texts /\ d \in Texts /\ k \in Texts
  BY <1>1, OneIs
<1>5. q \in Texts /\ e \in Texts
  BY PowerIs, WidthIs, StagesAre
<1>6. Lift(r) = ((x \o (x \o s)) \o ((p \o q) \o (g \o (d \o k)))) \o e
  BY <1>2, <1>3 DEF Lift, Root, Ending, RootExponent
<1>7. AtCube(r) = x \o (s \o (p \o (q \o (g \o (d \o (k \o e))))))
  BY DEF AtCube, AtSeven, AtPower, AtRoot, AtSquare
<1>8. AtCube(r) \in Texts
  BY StagesAre
<1> HIDE DEF x, s, p, q, g, d, k, e
<1>9. ((x \o (x \o s)) \o ((p \o q) \o (g \o (d \o k)))) \o e
        = x \o (x \o (s \o (p \o (q \o (g \o (d \o (k \o e)))))))
  <2>1. Bracketed(x, s, p, q, g, d, k, e)
    BY ONLY <1>4, <1>5, AllRegrouped
  <2> QED BY <2>1 DEF Bracketed
<1>10. Lift(r) = x \o AtCube(r)
  BY <1>6, <1>7, <1>9
<1>11. x \o AtCube(r) \in Texts
  BY <1>4, <1>8, Joined, Regrouped
<1> QED BY <1>10, <1>11 DEF x

(* A power on its way: t is left to do, a is the accumulator's value.      *)
InPower(e, b, rest, t, a) ==
  \E n \in Nat :
    \/ t = Power(e)[n] \o rest /\ a = Residue(b, Upper(e, n))
    \/ /\ Upper(e, n) % 2 = 1 /\ t = <<"by base">> \o (Power(e)[n] \o rest)
       /\ a = Residue(b, 2 * Upper(e, n + 1))

(* A power begins with no bit gone through.                                *)
LEMMA PowerBegins ==
  ASSUME NEW e \in 0..(Full - 1), NEW b \in 0..(Prime - 1), NEW rest \in Texts
  PROVE  InPower(e, b, rest, Power(e)[Width] \o rest, 1)
<1>1. Width \in Nat /\ Upper(e, Width) = 0 /\ Residue(b, 0) = 1
  BY WidthIs, ExponentIsShort, ResidueIs
<1> QED BY <1>1 DEF InPower

(* What the next instruction of a power leads to.                          *)
PowerStep(e, b, rest, t, a) ==
  \/ t = rest /\ a = Residue(b, e)
  \/ /\ t \in Texts /\ t # << >> /\ Head(t) = "square"
     /\ InPower(e, b, rest, Tail(t), (a * a) % Prime)
  \/ /\ t \in Texts /\ t # << >> /\ Head(t) = "by base"
     /\ InPower(e, b, rest, Tail(t), (a * b) % Prime)

(* A power goes on to its next instruction, or has ended with its value.   *)
LEMMA PowerSteps ==
  ASSUME NEW e \in Nat, NEW b \in 0..(Prime - 1), NEW rest \in Texts, NEW t, NEW a,
         InPower(e, b, rest, t, a)
  PROVE  PowerStep(e, b, rest, t, a)
<1>1. PICK n \in Nat :
        \/ t = Power(e)[n] \o rest /\ a = Residue(b, Upper(e, n))
        \/ /\ Upper(e, n) % 2 = 1 /\ t = <<"by base">> \o (Power(e)[n] \o rest)
           /\ a = Residue(b, 2 * Upper(e, n + 1))
  BY DEF InPower
<1>2. /\ Power(e)[0] \o rest = rest
      /\ \A k \in Nat :
           /\ Power(e)[k] \o rest \in Texts
           /\ Upper(e, k) % 2 = 1 =>
                Power(e)[k + 1] \o rest = <<"square">> \o (<<"by base">> \o (Power(e)[k] \o rest))
           /\ Upper(e, k) % 2 # 1 =>
                Power(e)[k + 1] \o rest = <<"square">> \o (Power(e)[k] \o rest)
  BY PowerGoesOn
<1>3. /\ Upper(e, 0) = e
      /\ \A k \in Nat : /\ Upper(e, k) \in Nat /\ Upper(e, k) % 2 \in {0, 1}
                        /\ Upper(e, k) = 2 * Upper(e, k + 1) + (Upper(e, k) % 2)
  BY UpperIs
<1>4. \A k \in Nat : /\ (Residue(b, k) * Residue(b, k)) % Prime = Residue(b, 2 * k)
                     /\ (Residue(b, k) * b) % Prime = Residue(b, k + 1)
  BY ResidueIs
<1>5. "square" \in Instructions /\ "by base" \in Instructions
  BY DEF Instructions
<1>6. CASE t = Power(e)[n] \o rest /\ a = Residue(b, Upper(e, n)) /\ n = 0
  <2>1. t = rest /\ a = Residue(b, e)
    BY <1>2, <1>3, <1>6
  <2> QED BY <2>1 DEF PowerStep
<1>7. CASE t = Power(e)[n] \o rest /\ a = Residue(b, Upper(e, n)) /\ n # 0
  <2> DEFINE k == n - 1  s == Power(e)[k] \o rest
  <2>1. k \in Nat /\ k + 1 = n
    BY <1>7
  <2> HIDE DEF k
  <2>2. s \in Texts
    BY <1>2, <2>1
  <2>3. (a * a) % Prime = Residue(b, 2 * Upper(e, k + 1))
    <3>1. Upper(e, n) \in Nat
      BY <1>3
    <3> QED BY <1>4, <1>7, <2>1, <3>1
  <2>4. CASE Upper(e, k) % 2 = 1
    <3>1. t = <<"square">> \o (<<"by base">> \o s) /\ <<"by base">> \o s \in Texts
      <4>1. t = <<"square">> \o (<<"by base">> \o s)
        BY <1>2, <1>7, <2>1, <2>4
      <4> HIDE DEF s
      <4> QED BY <4>1, <1>5, <2>2, FirstOf
    <3>2. t \in Texts /\ t # << >> /\ Head(t) = "square" /\ Tail(t) = <<"by base">> \o s
      <4> HIDE DEF s
      <4> QED BY <1>5, <3>1, FirstOf
    <3>3. InPower(e, b, rest, Tail(t), (a * a) % Prime)
      BY <2>1, <2>3, <2>4, <3>2 DEF InPower
    <3> QED BY <3>2, <3>3 DEF PowerStep
  <2>5. CASE Upper(e, k) % 2 # 1
    <3>1. t = <<"square">> \o s
      BY <1>2, <1>7, <2>1, <2>5
    <3>2. t \in Texts /\ t # << >> /\ Head(t) = "square" /\ Tail(t) = s
      <4> HIDE DEF s
      <4> QED BY <1>5, <2>2, <3>1, FirstOf
    <3>3. Upper(e, k) = 2 * Upper(e, k + 1)
      <4>1. Upper(e, k) \in Nat /\ Upper(e, k + 1) \in Nat /\ Upper(e, k) % 2 = 0
            /\ Upper(e, k) = 2 * Upper(e, k + 1) + (Upper(e, k) % 2)
        BY <1>3, <2>1, <2>5
      <4> QED BY <4>1
    <3>4. InPower(e, b, rest, Tail(t), (a * a) % Prime)
      BY <2>1, <2>3, <3>2, <3>3 DEF InPower
    <3> QED BY <3>2, <3>4 DEF PowerStep
  <2> QED BY <2>4, <2>5
<1>8. CASE /\ Upper(e, n) % 2 = 1 /\ t = <<"by base">> \o (Power(e)[n] \o rest)
           /\ a = Residue(b, 2 * Upper(e, n + 1))
  <2> DEFINE s == Power(e)[n] \o rest
  <2>1. s \in Texts
    BY <1>2
  <2>2. t \in Texts /\ t # << >> /\ Head(t) = "by base" /\ Tail(t) = s
    <3>1. t = <<"by base">> \o s
      BY <1>8
    <3> HIDE DEF s
    <3> QED BY <1>5, <2>1, <3>1, FirstOf
  <2>3. 2 * Upper(e, n + 1) \in Nat /\ Upper(e, n) = 2 * Upper(e, n + 1) + 1
    <3>1. Upper(e, n + 1) \in Nat /\ Upper(e, n) = 2 * Upper(e, n + 1) + (Upper(e, n) % 2)
      BY <1>3
    <3> DEFINE u == Upper(e, n + 1)  v == Upper(e, n)
    <3>2. u \in Nat /\ v = 2 * u + 1
      BY <1>8, <3>1
    <3> HIDE DEF u, v
    <3>3. 2 * u \in Nat
      BY <3>2
    <3> QED BY <3>2, <3>3 DEF u, v
  <2>4. (a * b) % Prime = Residue(b, Upper(e, n))
    BY <1>4, <1>8, <2>3
  <2>5. InPower(e, b, rest, Tail(t), (a * b) % Prime)
    BY <2>2, <2>4 DEF InPower
  <2> QED BY <2>2, <2>5 DEF PowerStep
<1> QED BY <1>1, <1>6, <1>7, <1>8

(* The square of the ordinate: x^3 + 7.                                    *)
Cubed(x) == (x * x * x + 7) % Prime

(* It is never zero.                                                       *)
LEMMA CubedIs ==
  ASSUME NEW x \in 0..(Prime - 1)
  PROVE  /\ Cubed(x) \in 1..(Prime - 1) /\ x \in Nat /\ x % Prime = x
         /\ (((x * x) % Prime) * x) % Prime = (x * x * x) % Prime
         /\ (((x * x * x) % Prime) + 7) % Prime = Cubed(x)
<1>1. Prime \in Nat \ {0} /\ x \in Nat
  BY PrimeIs
<1>2. x * x \in Nat /\ x * x * x \in Nat /\ x * x * x + 7 \in Nat
  BY <1>1
<1>3. Cubed(x) # 0
  BY LimbAssumption DEF Cubed
<1>4. Cubed(x) \in 0..(Prime - 1)
  BY <1>2, PrimeIs DEF Cubed
<1>5. (((x * x) % Prime) * x) % Prime = (x * x * x) % Prime
  <2> DEFINE u == x * x
  <2>1. u \in Nat
    BY <1>2
  <2> HIDE DEF u
  <2>2. (u * x) % Prime = ((u % Prime) * x) % Prime
    BY <1>1, <2>1, RemainderOfProduct
  <2> QED BY <2>2 DEF u
<1>6. (((x * x * x) % Prime) + 7) % Prime = Cubed(x)
  <2> DEFINE u == x * x * x
  <2>1. u \in Nat
    BY <1>2
  <2> HIDE DEF u
  <2>2. ((u % Prime) + 7) % Prime = (u + 7) % Prime
    BY <1>1, <2>1, RemainderOfSum
  <2> QED BY <2>2 DEF u, Cubed
<1>7. x % Prime = x
  BY ONLY <1>1, x \in 0..(Prime - 1), RemainderOfSmall
<1> QED BY <1>1, <1>3, <1>4, <1>5, <1>6, <1>7

(* Seven is a residue.                                                     *)
LEMMA SevenIs == 7 < Prime
<1>1. Prime \in Nat \ {0} /\ Prime >= 3 /\ Quarter \in Nat /\ Prime = 4 * Quarter + 3
  BY PrimeIs
<1>2. Prime # 7
  <2> SUFFICES ASSUME Prime = 7 PROVE FALSE
    OBVIOUS
  <2>1. 0 \in 0..(Prime - 1)
    BY <1>1
  <2>2. (0 * 0 * 0 + 7) % Prime # 0
    BY <2>1, LimbAssumption
  <2>3. (0 * 0 * 0 + 7) = 7 /\ 7 % 7 = 0
    OBVIOUS
  <2> QED BY <2>2, <2>3
<1>3. Prime # 3
  <2> SUFFICES ASSUME Prime = 3 PROVE FALSE
    OBVIOUS
  <2>1. 2 \in 0..(Prime - 1)
    BY <1>1
  <2>2. (2 * 2 * 2 + 7) % Prime # 0
    BY <2>1, LimbAssumption
  <2>3. (2 * 2 * 2 + 7) = 15 /\ 15 % 3 = 0
    OBVIOUS
  <2> QED BY <2>2, <2>3
<1> QED BY <1>1, <1>2, <1>3

(* Both exponents fit into a number.                                       *)
LEMMA ExponentsAre ==
  /\ RootExponent \in 0..(Full - 1) /\ HalfOrder \in 0..(Full - 1) /\ RootExponent \in Nat /\ HalfOrder \in Nat
  /\ \A c \in Nat : Residue(c, RootExponent) = RootOf(c)
<1>1. /\ Prime \in Nat \ {0} /\ Prime >= 3 /\ Quarter \in Nat /\ Prime = 4 * Quarter + 3
      /\ RootExponent = Quarter + 1 /\ HalfOrder = 2 * Quarter + 1
  BY PrimeIs DEF RootExponent, HalfOrder
<1>2. Full \in Nat /\ Prime < Full
  BY ModulusIs, LimbAssumption
<1> QED BY <1>1, <1>2 DEF Residue, RootOf

(* Where a lift is: t is left to do, a and b are the values of the         *)
(* accumulator and of the base, g the root.                                *)
LiftAt(r, x, t, a, b, g) ==
  LET c == Cubed(x)
      y == RootOf(Cubed(x))
  IN \/ /\ g = NoNumber
        /\ \/ t = <<"by x">> \o AtCube(r) /\ a = x
           \/ t = AtCube(r) /\ a = (x * x) % Prime
           \/ t = AtSeven(r) /\ a = (x * x * x) % Prime
           \/ t = AtPower(r) /\ a = c
           \/ b = c /\ InPower(RootExponent, c, AtRoot(r), t, a)
           \/ t = << >> /\ (y * y) % Prime # c
     \/ /\ g \in Number /\ ValueOf(g) = y
        /\ \/ t = AtSquare(r) /\ a = y /\ b = c
           \/ t = <<"check">> \o Ending(r) /\ a = (y * y) % Prime /\ b = c
           \/ t = Ending(r) /\ (y * y) % Prime = c
           \/ /\ (y * y) % Prime = c /\ r = "balance" /\ b = y
              /\ InPower(HalfOrder, y, <<"check one">>, t, a)
           \/ t = << >> /\ (y * y) % Prime = c

(* What its next instruction leads to.                                     *)
GoesOn(r, x, t, a, b, g) ==
  \/ Head(t) = "by x" /\ LiftAt(r, x, Tail(t), (a * x) % Prime, b, g)
  \/ Head(t) = "square" /\ LiftAt(r, x, Tail(t), (a * a) % Prime, b, g)
  \/ Head(t) = "by base" /\ LiftAt(r, x, Tail(t), (a * b) % Prime, b, g)
  \/ Head(t) = "plus seven" /\ g = NoNumber /\ LiftAt(r, x, Tail(t), (a + 7) % Prime, b, g)
  \/ Head(t) = "power of it" /\ g = NoNumber /\ LiftAt(r, x, Tail(t), 1, a, g)
  \/ Head(t) = "power of root" /\ g # NoNumber /\ LiftAt(r, x, Tail(t), 1, ValueOf(g), g)
  \/ /\ Head(t) = "root" /\ g = NoNumber
     /\ \A h \in Number : ValueOf(h) = a => LiftAt(r, x, Tail(t), a, b, h)
  \/ /\ Head(t) = "check" /\ g # NoNumber
     /\ a = b => LiftAt(r, x, Tail(t), a, b, g)
     /\ a # b => LiftAt(r, x, << >>, a, b, NoNumber)
  \/ Head(t) = "check one" /\ g # NoNumber /\ a = 1 /\ LiftAt(r, x, Tail(t), a, b, g)

(* NoNumber is none.                                                       *)
LEMMA NotANumber == \A h \in Number : h # NoNumber
BY LimbAssumption

(* Every instruction leads on to the next stage.                           *)
LEMMA LiftGoesOn ==
  ASSUME NEW r, NEW x \in 0..(Prime - 1), NEW t, NEW a, NEW b, NEW g, LiftAt(r, x, t, a, b, g)
  PROVE  t \in Texts /\ (t # << >> => GoesOn(r, x, t, a, b, g))
<1> DEFINE c == Cubed(x)  y == RootOf(c)
<1>1. /\ c \in 1..(Prime - 1) /\ c \in 0..(Prime - 1) /\ y \in 0..(Prime - 1) /\ y \in Nat /\ c \in Nat
  <2>1. c \in 1..(Prime - 1) /\ c \in Nat
    BY CubedIs, PrimeIs
  <2>2. y \in 0..(Prime - 1)
    BY <2>1, RootIs
  <2> HIDE DEF c, y
  <2> QED BY <2>1, <2>2, PrimeIs
<1>2. /\ Ending(r) \in Texts /\ <<"check">> \o Ending(r) \in Texts /\ AtSquare(r) \in Texts
      /\ AtRoot(r) \in Texts /\ Power(RootExponent)[Width] \o AtRoot(r) \in Texts
      /\ AtPower(r) \in Texts /\ AtSeven(r) \in Texts /\ AtCube(r) \in Texts
  BY StagesAre
<1>3. /\ "check" \in Instructions /\ "square" \in Instructions /\ "root" \in Instructions /\ "power of it" \in Instructions
      /\ "plus seven" \in Instructions /\ "by x" \in Instructions /\ "check one" \in Instructions /\ "power of root" \in Instructions
  BY DEF Instructions
<1>4. \A s \in Texts, z \in Instructions : <<z>> \o s \in Texts /\ Head(<<z>> \o s) = z /\ Tail(<<z>> \o s) = s
  BY FirstOf
<1>5. CASE g = NoNumber /\ t = <<"by x">> \o AtCube(r) /\ a = x
  <2>1. t \in Texts /\ Head(t) = "by x" /\ Tail(t) = AtCube(r)
    BY <1>2, <1>3, <1>4, <1>5
  <2>2. LiftAt(r, x, Tail(t), (a * x) % Prime, b, g)
    BY <1>5, <2>1 DEF LiftAt
  <2> QED BY <2>1, <2>2 DEF GoesOn
<1>6. CASE g = NoNumber /\ t = AtCube(r) /\ a = (x * x) % Prime
  <2>1. t \in Texts /\ Head(t) = "by x" /\ Tail(t) = AtSeven(r)
    BY <1>2, <1>3, <1>4, <1>6 DEF AtCube
  <2>2. (a * x) % Prime = (x * x * x) % Prime
    BY <1>6, CubedIs
  <2>3. LiftAt(r, x, Tail(t), (a * x) % Prime, b, g)
    BY <1>6, <2>1, <2>2 DEF LiftAt
  <2> QED BY <2>1, <2>3 DEF GoesOn
<1>7. CASE g = NoNumber /\ t = AtSeven(r) /\ a = (x * x * x) % Prime
  <2>1. t \in Texts /\ Head(t) = "plus seven" /\ Tail(t) = AtPower(r)
    BY <1>2, <1>3, <1>4, <1>7 DEF AtSeven
  <2>2. (a + 7) % Prime = Cubed(x)
    BY <1>7, CubedIs
  <2>3. LiftAt(r, x, Tail(t), (a + 7) % Prime, b, g)
    BY <1>7, <2>1, <2>2 DEF LiftAt
  <2> QED BY <1>7, <2>1, <2>3 DEF GoesOn
<1>8. CASE g = NoNumber /\ t = AtPower(r) /\ a = c
  <2>1. t \in Texts /\ Head(t) = "power of it" /\ Tail(t) = Power(RootExponent)[Width] \o AtRoot(r)
    BY <1>2, <1>3, <1>4, <1>8 DEF AtPower
  <2>2. InPower(RootExponent, c, AtRoot(r), Tail(t), 1)
    <3> HIDE DEF c
    <3> QED BY <1>1, <1>2, <2>1, ExponentsAre, PowerBegins
  <2>3. LiftAt(r, x, Tail(t), 1, a, g)
    BY <1>8, <2>2 DEF LiftAt
  <2> QED BY <1>8, <2>1, <2>3 DEF GoesOn
<1>9. CASE g = NoNumber /\ b = c /\ InPower(RootExponent, c, AtRoot(r), t, a)
  <2>1. PowerStep(RootExponent, c, AtRoot(r), t, a)
    <3> HIDE DEF c
    <3> QED BY <1>1, <1>2, <1>9, ExponentsAre, PowerSteps
  <2>2. CASE t = AtRoot(r) /\ a = Residue(c, RootExponent)
    <3>1. t \in Texts /\ Head(t) = "root" /\ Tail(t) = AtSquare(r)
      BY <1>2, <1>3, <1>4, <2>2 DEF AtRoot
    <3>2. a = y
      <4>1. Residue(c, RootExponent) = RootOf(c)
        BY <1>1, ExponentsAre
      <4> QED BY <2>2, <4>1
    <3>3. \A h \in Number : ValueOf(h) = a => LiftAt(r, x, Tail(t), a, b, h)
      BY <1>9, <3>1, <3>2 DEF LiftAt
    <3> QED BY <1>9, <3>1, <3>3 DEF GoesOn
  <2>3. CASE /\ t \in Texts /\ t # << >> /\ Head(t) = "square"
             /\ InPower(RootExponent, c, AtRoot(r), Tail(t), (a * a) % Prime)
    <3>1. LiftAt(r, x, Tail(t), (a * a) % Prime, b, g)
      BY <1>9, <2>3 DEF LiftAt
    <3> QED BY <2>3, <3>1 DEF GoesOn
  <2>4. CASE /\ t \in Texts /\ t # << >> /\ Head(t) = "by base"
             /\ InPower(RootExponent, c, AtRoot(r), Tail(t), (a * c) % Prime)
    <3>1. LiftAt(r, x, Tail(t), (a * b) % Prime, b, g)
      BY <1>9, <2>4 DEF LiftAt
    <3> QED BY <2>4, <3>1 DEF GoesOn
  <2> QED BY <2>1, <2>2, <2>3, <2>4 DEF PowerStep
<1>10. CASE g = NoNumber /\ t = << >> /\ (y * y) % Prime # c
  BY <1>10, NoText
<1>11. CASE g \in Number /\ ValueOf(g) = y /\ t = AtSquare(r) /\ a = y /\ b = c
  <2>1. t \in Texts /\ Head(t) = "square" /\ Tail(t) = <<"check">> \o Ending(r)
    BY <1>2, <1>3, <1>4, <1>11 DEF AtSquare
  <2>2. LiftAt(r, x, Tail(t), (a * a) % Prime, b, g)
    BY <1>11, <2>1 DEF LiftAt
  <2> QED BY <2>1, <2>2 DEF GoesOn
<1>12. CASE /\ g \in Number /\ ValueOf(g) = y
            /\ t = <<"check">> \o Ending(r) /\ a = (y * y) % Prime /\ b = c
  <2>1. t \in Texts /\ Head(t) = "check" /\ Tail(t) = Ending(r) /\ g # NoNumber
    BY <1>2, <1>3, <1>4, <1>12, NotANumber
  <2>2. a = b => LiftAt(r, x, Tail(t), a, b, g)
    BY <1>12, <2>1 DEF LiftAt
  <2>3. a # b => LiftAt(r, x, << >>, a, b, NoNumber)
    BY <1>12 DEF LiftAt
  <2> QED BY <2>1, <2>2, <2>3 DEF GoesOn
<1>13. CASE g \in Number /\ ValueOf(g) = y /\ t = Ending(r) /\ (y * y) % Prime = c
  <2>1. CASE r = "balance"
    <3> DEFINE s == Power(HalfOrder)[Width] \o <<"check one">>
    <3>1. t = <<"power of root">> \o s
      BY <1>13, <2>1, LegendreIs DEF Ending
    <3>2. s \in Texts /\ <<"check one">> \in Texts
      BY <1>3, OneIs, WidthIs, PowerGoesOn
    <3>3. t \in Texts /\ Head(t) = "power of root" /\ Tail(t) = s /\ g # NoNumber
      <4> HIDE DEF s
      <4> QED BY <1>3, <1>4, <1>13, <3>1, <3>2, NotANumber
    <3>4. InPower(HalfOrder, y, <<"check one">>, s, 1)
      <4> HIDE DEF y, c
      <4> QED BY <1>1, <3>2, ExponentsAre, PowerBegins
    <3>5. LiftAt(r, x, Tail(t), 1, ValueOf(g), g)
      <4> HIDE DEF s
      <4> QED BY <1>13, <2>1, <3>3, <3>4 DEF LiftAt
    <3> QED BY <3>3, <3>5 DEF GoesOn
  <2>2. CASE r # "balance"
    BY <1>13, <2>2, NoText DEF Ending
  <2> QED BY <2>1, <2>2
<1>14. CASE /\ g \in Number /\ ValueOf(g) = y /\ (y * y) % Prime = c /\ r = "balance" /\ b = y
            /\ InPower(HalfOrder, y, <<"check one">>, t, a)
  <2>0. <<"check one">> \in Texts /\ g # NoNumber
    BY <1>3, <1>14, OneIs, NotANumber
  <2>1. PowerStep(HalfOrder, y, <<"check one">>, t, a)
    <3> HIDE DEF c, y
    <3> QED BY <1>1, <1>14, <2>0, ExponentsAre, PowerSteps
  <2>2. CASE t = <<"check one">> /\ a = Residue(y, HalfOrder)
    <3>1. t \in Texts /\ Head(t) = "check one" /\ Tail(t) = << >>
      <4>1. <<"check one">> \o << >> = <<"check one">>
        BY <2>0, NoneBefore
      <4> QED BY <1>3, <1>4, <2>0, <2>2, <4>1, NoText
    <3>2. a = 1
      <4>1. Powers(y)[(Prime - 1) \div 2] % Prime = 1
        <5>1. y = RootOf(c)
          OBVIOUS
        <5> HIDE DEF y, c
        <5> QED BY <1>1, <1>14, <5>1, LegendreOfRoot
      <4> QED BY <2>2, <4>1 DEF Residue, HalfOrder
    <3>3. LiftAt(r, x, Tail(t), a, b, g)
      BY <1>14, <3>1 DEF LiftAt
    <3> QED BY <2>0, <3>1, <3>2, <3>3 DEF GoesOn
  <2>3. CASE /\ t \in Texts /\ t # << >> /\ Head(t) = "square"
             /\ InPower(HalfOrder, y, <<"check one">>, Tail(t), (a * a) % Prime)
    <3>1. LiftAt(r, x, Tail(t), (a * a) % Prime, b, g)
      BY <1>14, <2>3 DEF LiftAt
    <3> QED BY <2>3, <3>1 DEF GoesOn
  <2>4. CASE /\ t \in Texts /\ t # << >> /\ Head(t) = "by base"
             /\ InPower(HalfOrder, y, <<"check one">>, Tail(t), (a * y) % Prime)
    <3>1. LiftAt(r, x, Tail(t), (a * b) % Prime, b, g)
      BY <1>14, <2>4 DEF LiftAt
    <3> QED BY <2>4, <3>1 DEF GoesOn
  <2> QED BY <2>1, <2>2, <2>3, <2>4 DEF PowerStep
<1>15. CASE g \in Number /\ ValueOf(g) = y /\ t = << >> /\ (y * y) % Prime = c
  BY <1>15, NoText
<1> QED BY <1>5, <1>6, <1>7, <1>8, <1>9, <1>10, <1>11, <1>12, <1>13, <1>14, <1>15 DEF LiftAt

(* A lift that has ended has found the root or refused.                    *)
LEMMA LiftEnds ==
  ASSUME NEW r, NEW x \in 0..(Prime - 1), NEW a, NEW b, NEW g, LiftAt(r, x, << >>, a, b, g)
  PROVE  LET y == RootOf(Cubed(x)) IN
         \/ g = NoNumber /\ (y * y) % Prime # Cubed(x)
         \/ g \in Number /\ ValueOf(g) = y /\ (y * y) % Prime = Cubed(x)
<1> DEFINE c == Cubed(x)  y == RootOf(c)
<1>1. c \in 0..(Prime - 1) /\ y \in 0..(Prime - 1)
  <2>1. c \in 1..(Prime - 1) /\ c \in Nat
    BY CubedIs, PrimeIs
  <2>2. y \in 0..(Prime - 1)
    BY <2>1, RootIs
  <2> HIDE DEF c, y
  <2> QED BY <2>1, <2>2, PrimeIs
<1>2. /\ Ending(r) \in Texts /\ <<"check">> \o Ending(r) \in Texts /\ AtSquare(r) \in Texts
      /\ AtRoot(r) \in Texts /\ Power(RootExponent)[Width] \o AtRoot(r) \in Texts
      /\ AtPower(r) \in Texts /\ AtSeven(r) \in Texts /\ AtCube(r) \in Texts
  BY StagesAre
<1>3. /\ "check" \in Instructions /\ "square" \in Instructions /\ "root" \in Instructions /\ "power of it" \in Instructions
      /\ "plus seven" \in Instructions /\ "by x" \in Instructions /\ "check one" \in Instructions
  BY DEF Instructions
<1>4. \A s \in Texts, z \in Instructions : <<z>> \o s # << >>
  BY FirstOf
<1>5. /\ <<"by x">> \o AtCube(r) # << >> /\ AtCube(r) # << >> /\ AtSeven(r) # << >>
      /\ AtPower(r) # << >> /\ AtRoot(r) # << >> /\ AtSquare(r) # << >>
      /\ <<"check">> \o Ending(r) # << >>
  BY <1>2, <1>3, <1>4 DEF AtCube, AtSeven, AtPower, AtRoot, AtSquare
<1>6. ~ InPower(RootExponent, c, AtRoot(r), << >>, a)
  <2> SUFFICES ASSUME InPower(RootExponent, c, AtRoot(r), << >>, a) PROVE FALSE
    OBVIOUS
  <2>1. PowerStep(RootExponent, c, AtRoot(r), << >>, a)
    <3> HIDE DEF c
    <3> QED BY <1>1, <1>2, ExponentsAre, PowerSteps
  <2> QED BY <1>5, <2>1 DEF PowerStep
<1>7. ~ InPower(HalfOrder, y, <<"check one">>, << >>, a)
  <2> SUFFICES ASSUME InPower(HalfOrder, y, <<"check one">>, << >>, a) PROVE FALSE
    OBVIOUS
  <2>1. <<"check one">> \in Texts /\ <<"check one">> # << >>
    BY <1>3, OneIs
  <2>2. PowerStep(HalfOrder, y, <<"check one">>, << >>, a)
    <3> HIDE DEF y
    <3> QED BY <1>1, <2>1, ExponentsAre, PowerSteps
  <2> QED BY <2>1, <2>2 DEF PowerStep
<1> QED BY <1>5, <1>6, <1>7 DEF LiftAt

-----------------------------------------------------------------------------

-----------------------------------------------------------------------------
(***************************************************************************)
(* The calls.                                                              *)
(***************************************************************************)
(* Both arguments of a call are below the modulus.                         *)
Canonicals == call.x < Modulus(ring) /\ call.y < Modulus(ring)

(* Where a call is: its program, and what its registers are worth.         *)
CallAt ==
  \/ /\ call.op = "add" /\ root = NoNumber
     /\ \/ todo = <<"add">> /\ ValueOf(acc) = call.x
        \/ todo = << >> /\ ValueOf(acc) = (call.x + call.y) % Modulus(ring)
  \/ /\ call.op = "mul" /\ root = NoNumber
     /\ \/ todo = <<"mul">> /\ ValueOf(acc) = call.x
        \/ todo = << >> /\ ValueOf(acc) = (call.x * call.y) % Modulus(ring)
  \/ call.op = "lift" /\ LiftAt(ring, call.x, todo, ValueOf(acc), ValueOf(base), root)

(* A number below the modulus of the call's ring.                          *)
Reduced(a) == a \in Number /\ ValueOf(a) < Modulus(ring)

(* The types of the registers.                                             *)
ArithType ==
  /\ ring \in Rings /\ call \in [op : Calls, x : 0..(Full - 1), y : 0..(Full - 1)]
  /\ call.op = "lift" => ring # "scalar"
  /\ Reduced(acc) /\ Reduced(base) /\ (root = NoNumber \/ Reduced(root))

(* A multiplication under way is at a row or a bit of its own.             *)
Multiplying ==
  work # NoNumber =>
    /\ todo # << >> /\ Head(todo) \in {"mul", "by x", "by base", "square"}
    /\ work.by = Factor(Head(todo)) /\ Underway(work, acc, ring)

(* Where the call is, after its parsing and between its multiplications.   *)
Where ==
  \/ todo = <<"parse">> /\ work = NoNumber /\ root = NoNumber
  \/ todo = << >> /\ ~ Canonicals
  \/ Canonicals /\ CallAt

(* The inductive invariant.                                                *)
ArithInv == ArithType /\ Multiplying /\ Where

(* What the arguments of a call are.                                       *)
LEMMA ArgumentsAre ==
  ASSUME ArithType
  PROVE  /\ X \in Number /\ ValueOf(X) = call.x /\ Y \in Number /\ ValueOf(Y) = call.y
         /\ call.x \in Nat /\ call.y \in Nat
         /\ Canonical(call.x, ring) <=> call.x < Modulus(ring)
         /\ Canonical(call.y, ring) <=> call.y < Modulus(ring)
         /\ call.op = "lift" => Modulus(ring) = Prime
<1>1. call.x \in 0..(Full - 1) /\ call.y \in 0..(Full - 1) /\ Full \in Nat
  BY ModulusIs DEF ArithType
<1>2. \A n \in 0..(Full - 1) : /\ Canonical(n, ring) <=> n < Modulus(ring)
                               /\ LimbsOf(n, N) \in Number /\ ValueOf(LimbsOf(n, N)) = n
  BY CanonicalIs
<1>3. call.op = "lift" => Modulus(ring) = Prime
  BY DEF ArithType, Modulus
<1> QED BY <1>1, <1>2, <1>3 DEF X, Y

(* One and seven are canonical.                                            *)
LEMMA ConstantsAre ==
  ASSUME NEW r
  PROVE  /\ LimbsOf(0, N) \in Number /\ ValueOf(LimbsOf(0, N)) = 0 /\ 0 < Modulus(r)
         /\ LimbsOf(1, N) \in Number /\ ValueOf(LimbsOf(1, N)) = 1 /\ (r # "scalar" => 1 < Modulus(r))
         /\ LimbsOf(7, N) \in Number /\ ValueOf(LimbsOf(7, N)) = 7 /\ (r # "scalar" => 7 < Modulus(r))
<1>1. 7 < Full /\ 1 < Full /\ 0 < Full
  <2>1. Prime \in Nat /\ 7 < Prime
    BY SevenIs, PrimeIs
  <2>2. Full \in Nat /\ Prime < Full
    BY ModulusIs, LimbAssumption
  <2> QED BY ONLY <2>1, <2>2
<1>2. r # "scalar" => 7 < Modulus(r) /\ 1 < Modulus(r)
  BY SevenIs, PrimeIs DEF Modulus
<1>3. \A n \in Nat : n < Full => LimbsOf(n, N) \in Number /\ ValueOf(LimbsOf(n, N)) = n
  BY LimbsOfNumber
<1> QED BY <1>1, <1>2, <1>3, ModulusIs

(* A call that begins.                                                     *)
LEMMA ArithBegins == LimbInit => ArithInv
<1> SUFFICES ASSUME LimbInit PROVE ArithInv
  OBVIOUS
<1>1. ArithType
  BY ConstantsAre DEF LimbInit, ArithType, Reduced
<1> QED BY <1>1 DEF LimbInit, ArithInv, Multiplying, Where

(* A lift that goes on.                                                    *)
LEMMA LiftIsOn ==
  ASSUME ArithInv, Canonicals, CallAt, call.op = "lift"
  PROVE  /\ Modulus(ring) = Prime /\ call.x \in 0..(Prime - 1) /\ ring # "scalar"
         /\ todo # << >> => GoesOn(ring, call.x, todo, ValueOf(acc), ValueOf(base), root)
<1>1. call.x \in Nat /\ Modulus(ring) = Prime /\ ring # "scalar"
  BY ArgumentsAre DEF ArithInv, ArithType
<1>2. call.x \in 0..(Prime - 1)
  <2>1. call.x < Modulus(ring) /\ Prime \in Nat
    BY PrimeIs DEF Canonicals
  <2> QED BY <1>1, <2>1
<1>3. LiftAt(ring, call.x, todo, ValueOf(acc), ValueOf(base), root)
  BY DEF CallAt
<1> QED BY <1>1, <1>2, <1>3, LiftGoesOn

(* The factor of a multiplication is a reduced number.                     *)
LEMMA FactorIs ==
  ASSUME ArithInv, Canonicals, NEW x \in {"mul", "by x", "by base", "square"}
  PROVE  /\ Reduced(Factor(x))
         /\ x = "mul" => ValueOf(Factor(x)) = call.y
         /\ x = "by x" => ValueOf(Factor(x)) = call.x
         /\ x = "by base" => Factor(x) = base
         /\ x = "square" => Factor(x) = acc
<1>1. X \in Number /\ ValueOf(X) = call.x /\ Y \in Number /\ ValueOf(Y) = call.y
  BY ArgumentsAre DEF ArithInv
<1>2. Reduced(X) /\ Reduced(Y) /\ Reduced(acc) /\ Reduced(base)
  BY <1>1 DEF Reduced, Canonicals, ArithInv, ArithType
<1>3. CASE x = "mul"
  BY <1>1, <1>2, <1>3 DEF Factor
<1>4. CASE x = "by x"
  BY <1>1, <1>2, <1>4 DEF Factor
<1>5. CASE x = "by base"
  BY <1>2, <1>5 DEF Factor
<1>6. CASE x = "square"
  BY <1>2, <1>6 DEF Factor
<1> QED BY <1>3, <1>4, <1>5, <1>6

(* The first instruction parses.                                           *)
LEMMA ParsingIs == Head(<<"parse">>) = "parse"
OBVIOUS

(* Once a call's arguments are read it is in one of the states of CallAt,  *)
(* unless it ended there.                                                  *)
LEMMA CallIsOn ==
  ASSUME ArithInv, todo # << >>, todo # <<"parse">>
  PROVE  Canonicals /\ CallAt
BY DEF ArithInv, Where

(* from_be_bytes of the arguments.                                         *)
LEMMA ParseKeeps == ArithInv /\ Parse => ArithInv'
<1> SUFFICES ASSUME ArithInv, Parse PROVE ArithInv'
  OBVIOUS
<1>1. /\ X \in Number /\ ValueOf(X) = call.x /\ call.x \in Nat
      /\ Canonical(call.x, ring) <=> call.x < Modulus(ring)
      /\ Canonical(call.y, ring) <=> call.y < Modulus(ring)
  BY ArgumentsAre DEF ArithInv
<1>2. todo = <<"parse">> /\ ring' = ring /\ call' = call /\ base' = base /\ root' = root /\ work' = work
  BY DEF Parse
<1>3. work = NoNumber /\ root = NoNumber
  <2>1. todo # << >> /\ todo # <<"add">> /\ todo # <<"mul">> /\ Head(todo) = "parse"
    BY <1>2
  <2>2. ~ (Canonicals /\ CallAt)
    <3> SUFFICES ASSUME Canonicals, CallAt PROVE FALSE
      OBVIOUS
    <3>1. call.op = "lift"
      BY <2>1 DEF CallAt
    <3>2. GoesOn(ring, call.x, todo, ValueOf(acc), ValueOf(base), root)
      BY <2>1, <3>1, LiftIsOn
    <3> QED BY <2>1, <3>2 DEF GoesOn
  <2> QED BY <2>1, <2>2 DEF ArithInv, Where
<1>4. CASE Canonicals
  <2>1. acc' = X /\ todo' = Program(call.op, ring)
    BY <1>1, <1>4 DEF Parse, Canonicals
  <2>2. ArithType'
    BY <1>1, <1>2, <1>4, <2>1 DEF ArithInv, ArithType, Reduced, Canonicals
  <2>3. CallAt'
    <3>1. CASE call.op = "add"
      BY <1>1, <1>2, <1>3, <2>1, <3>1 DEF CallAt, Program
    <3>2. CASE call.op = "mul"
      BY <1>1, <1>2, <1>3, <2>1, <3>2 DEF CallAt, Program
    <3>3. CASE call.op = "lift"
      <4>1. todo' = <<"by x">> \o AtCube(ring)
        BY <2>1, <3>3, LiftIs DEF Program
      <4>2. LiftAt(ring, call.x, todo', ValueOf(acc'), ValueOf(base'), NoNumber)
        BY <1>1, <2>1, <4>1 DEF LiftAt
      <4> QED BY <1>2, <1>3, <3>3, <4>2 DEF CallAt
    <3>4. call.op \in {"add", "mul", "lift"}
      BY DEF ArithInv, ArithType, Calls
    <3> QED BY <3>1, <3>2, <3>3, <3>4
  <2> QED BY <1>2, <1>3, <1>4, <2>2, <2>3 DEF ArithInv, Multiplying, Where, Canonicals
<1>5. CASE ~ Canonicals
  <2>1. acc' = acc /\ todo' = << >>
    BY <1>1, <1>5 DEF Parse, Canonicals
  <2> QED BY <1>2, <1>3, <1>5, <2>1 DEF ArithInv, ArithType, Multiplying, Where, Canonicals, Reduced
<1> QED BY <1>4, <1>5

(* While a multiplication is under way the rest of the state stands still. *)
LEMMA StartKeeps == ArithInv /\ Start => ArithInv'
<1> SUFFICES ASSUME ArithInv, Start PROVE ArithInv'
  OBVIOUS
<1> DEFINE x == Head(todo)
<1>1. /\ todo # << >> /\ x \in {"mul", "by x", "by base", "square"}
      /\ UNCHANGED <<ring, call, todo, acc, base, root>>
      /\ work' = [by |-> Factor(x), wide |-> LimbsOf(0, 2 * N), rows |-> 0,
                  rem |-> LimbsOf(0, N + 1), bits |-> 0]
  BY DEF Start
<1>2. todo # <<"parse">>
  BY <1>1, ParsingIs
<1>3. Canonicals /\ CallAt
  BY <1>1, <1>2, CallIsOn
<1>4. Reduced(Factor(x)) /\ acc \in Number
  <2> HIDE DEF x
  <2> QED BY <1>1, <1>3, FactorIs DEF ArithInv, ArithType, Reduced
<1>5. Underway(work', acc, ring)
  <2> DEFINE f == Factor(x)
  <2>1. f \in Number /\ ValueOf(f) < Modulus(ring)
    BY <1>4 DEF Reduced
  <2>2. work' = [by |-> f, wide |-> LimbsOf(0, 2 * N), rows |-> 0, rem |-> LimbsOf(0, N + 1), bits |-> 0]
    BY <1>1
  <2> HIDE DEF f
  <2> QED BY <1>4, <2>1, <2>2, StartIs
<1>6. work'.by = Factor(x)
  <2> HIDE DEF x
  <2> QED BY <1>1
<1>7. Multiplying'
  <2>1. Factor(x)' = Factor(x)
    BY <1>1 DEF Factor, X, Y
  <2> QED BY <1>1, <1>5, <1>6, <2>1 DEF Multiplying
<1>8. Where' /\ ArithType'
  BY <1>1, <1>3 DEF Where, Canonicals, CallAt, ArithInv, ArithType, Reduced
<1> QED BY <1>7, <1>8 DEF ArithInv

(* A step within a multiplication that is on its way.                      *)
LEMMA GoingOnKeeps ==
  ASSUME ArithInv, work # NoNumber, UNCHANGED <<ring, call, todo, acc, base, root>>,
         Underway(work', acc, ring), work'.by = work.by
  PROVE  ArithInv'
<1>1. todo # << >> /\ Head(todo) \in {"mul", "by x", "by base", "square"} /\ work.by = Factor(Head(todo))
  BY DEF ArithInv, Multiplying
<1>2. Canonicals /\ CallAt
  <2>1. todo # <<"parse">>
    BY <1>1, ParsingIs
  <2> QED BY <1>1, <2>1, CallIsOn
<1>3. Multiplying'
  <2>1. Factor(Head(todo))' = Factor(Head(todo))
    BY DEF Factor, X, Y
  <2> QED BY <1>1, <2>1 DEF Multiplying
<1>4. Where' /\ ArithType'
  BY <1>2 DEF Where, Canonicals, CallAt, ArithInv, ArithType, Reduced
<1> QED BY <1>3, <1>4 DEF ArithInv

(* mul, one row.                                                           *)
LEMMA RowKeeps == ArithInv /\ MulRow => ArithInv'
<1> SUFFICES ASSUME ArithInv, MulRow PROVE ArithInv'
  OBVIOUS
<1>1. /\ work # NoNumber /\ work.rows < N /\ UNCHANGED <<ring, call, todo, acc, base, root>>
      /\ work' = [work EXCEPT !.wide = Row(@, acc, work.by, work.rows), !.rows = @ + 1]
  BY DEF MulRow
<1>2. Underway(work, acc, ring) /\ acc \in Number
  BY <1>1 DEF ArithInv, Multiplying, ArithType, Reduced
<1>3. Underway(work', acc, ring)
  BY <1>1, <1>2, RowsGoOn
<1>4. work'.by = work.by
  <2>1. work \in Multiplication
    BY <1>2 DEF Underway
  <2> QED BY <1>1, <2>1 DEF Multiplication
<1> QED BY <1>1, <1>3, <1>4, GoingOnKeeps

(* reduce_wide, one bit.                                                   *)
LEMMA BitKeeps == ArithInv /\ ReduceBit => ArithInv'
<1> SUFFICES ASSUME ArithInv, ReduceBit PROVE ArithInv'
  OBVIOUS
<1> DEFINE s == Shifted(work.rem, Bit(work.wide, Bits - 1 - work.bits))
           z == IF AtLeastModulus(s, ring) THEN Subtracted(s, ring) ELSE s
<1>1. /\ work # NoNumber /\ work.rows = N /\ work.bits < Bits /\ UNCHANGED <<ring, call, todo, acc, base, root>>
      /\ work' = [work EXCEPT !.bits = @ + 1, !.rem = z]
  BY DEF ReduceBit
<1>2. Underway(work, acc, ring) /\ acc \in Number
  BY <1>1 DEF ArithInv, Multiplying, ArithType, Reduced
<1>3. Underway(work', acc, ring)
  BY <1>1, <1>2, BitsGoOn
<1>4. work'.by = work.by
  <2>1. work \in Multiplication
    BY <1>2 DEF Underway
  <2> HIDE DEF z
  <2> QED BY <1>1, <2>1 DEF Multiplication
<1> QED BY <1>1, <1>3, <1>4, GoingOnKeeps

(* reduce_wide, the result.                                                *)
LEMMA FinishKeeps == ArithInv /\ Finish => ArithInv'
<1> SUFFICES ASSUME ArithInv, Finish PROVE ArithInv'
  OBVIOUS
<1> DEFINE m == Modulus(ring)  v == ValueOf(acc)  f == ValueOf(work.by)  x == Head(todo)
<1>1. /\ work # NoNumber /\ work.bits = Bits /\ acc' = Low(work.rem) /\ work' = NoNumber
      /\ todo' = Tail(todo) /\ UNCHANGED <<ring, call, base, root>>
  BY DEF Finish
<1>2. /\ todo # << >> /\ x \in {"mul", "by x", "by base", "square"}
      /\ work.by = Factor(x) /\ Underway(work, acc, ring) /\ acc \in Number
  BY <1>1 DEF ArithInv, Multiplying, ArithType, Reduced
<1>3. Canonicals /\ CallAt
  <2>1. todo # <<"parse">>
    BY <1>2, ParsingIs
  <2> QED BY <1>2, <2>1, CallIsOn
<1>4. acc' \in Number /\ ValueOf(acc') = (v * f) % m
  BY <1>1, <1>2, FinishIs
<1>5. m \in Nat \ {0} /\ v \in Nat /\ f \in Nat
  <2>1. m \in Nat \ {0}
    BY ModulusIs
  <2>2. work.by \in Number
    BY <1>2 DEF Underway, Multiplication
  <2> QED BY <1>2, <2>1, <2>2, NumbersAre
<1>6. Reduced(acc)'
  <2>1. (v * f) % m < m
    <3> HIDE DEF v, f, m
    <3>1. v * f \in Nat
      BY <1>5
    <3>2. (v * f) % m \in 0..(m - 1)
      BY <1>5, <3>1, DivisionIs
    <3> QED BY <1>5, <3>2
  <2>2. Modulus(ring)' = Modulus(ring)
    BY <1>1
  <2> QED BY <1>4, <2>1, <2>2 DEF Reduced
<1>7. ArithType'
  BY <1>1, <1>6 DEF ArithInv, ArithType, Reduced
<1>8. /\ x = "mul" => f = call.y
      /\ x = "by x" => f = call.x
      /\ x = "by base" => f = ValueOf(base)
      /\ x = "square" => f = v
  <2>1. /\ x = "mul" => ValueOf(Factor(x)) = call.y
        /\ x = "by x" => ValueOf(Factor(x)) = call.x
        /\ x = "by base" => Factor(x) = base
        /\ x = "square" => Factor(x) = acc
    <3> HIDE DEF x
    <3> QED BY <1>2, <1>3, FactorIs
  <2> HIDE DEF x
  <2> QED BY <1>2, <2>1
<1>9. CallAt'
  <2>1. CASE call.op = "add"
    <3>1. todo = <<"add">>
      BY <1>2, <1>3, <2>1 DEF CallAt
    <3> QED BY <1>2, <3>1
  <2>2. CASE call.op = "mul"
    <3>1. todo = <<"mul">> /\ v = call.x /\ root = NoNumber
      BY <1>2, <1>3, <2>2 DEF CallAt
    <3>2. x = "mul" /\ Tail(todo) = << >>
      BY <3>1
    <3>3. ValueOf(acc') = (call.x * call.y) % Modulus(ring)
      BY <1>4, <1>8, <3>1, <3>2
    <3> QED BY <1>1, <2>2, <3>1, <3>2, <3>3 DEF CallAt
  <2>3. CASE call.op = "lift"
    <3>1. m = Prime /\ GoesOn(ring, call.x, todo, v, ValueOf(base), root)
      BY <1>2, <1>3, <2>3, LiftIsOn
    <3>2. LiftAt(ring, call.x, Tail(todo), (v * f) % Prime, ValueOf(base), root)
      <4> HIDE DEF v, f, m
      <4>1. x \in {"by x", "by base", "square"}
        BY <1>2, <3>1 DEF GoesOn
      <4>2. CASE x = "by x"
        BY <1>8, <3>1, <4>2 DEF GoesOn
      <4>3. CASE x = "by base"
        BY <1>8, <3>1, <4>3 DEF GoesOn
      <4>4. CASE x = "square"
        BY <1>8, <3>1, <4>4 DEF GoesOn
      <4> QED BY <4>1, <4>2, <4>3, <4>4
    <3>3. LiftAt(ring, call.x, todo', ValueOf(acc'), ValueOf(base), root)
      <4> HIDE DEF v, f, m
      <4> QED BY <1>1, <1>4, <3>1, <3>2
    <3> QED BY <1>1, <2>3, <3>3 DEF CallAt
  <2>4. call.op \in {"add", "mul", "lift"}
    BY DEF ArithInv, ArithType, Calls
  <2> QED BY <2>1, <2>2, <2>3, <2>4
<1> QED BY <1>1, <1>3, <1>7, <1>9 DEF ArithInv, Multiplying, Where, Canonicals

(* The sum of two reduced numbers is reduced.                              *)
LEMMA SumReduced ==
  ASSUME NEW a, NEW b, Reduced(a), Reduced(b)
  PROVE  Reduced(Add(a, b, ring)) /\ ValueOf(Add(a, b, ring)) = (ValueOf(a) + ValueOf(b)) % Modulus(ring)
<1>1. Add(a, b, ring) \in Number /\ ValueOf(Add(a, b, ring)) = (ValueOf(a) + ValueOf(b)) % Modulus(ring)
  BY AddIs DEF Reduced
<1>2. ValueOf(a) + ValueOf(b) \in Nat /\ Modulus(ring) \in Nat \ {0}
  BY NumbersAre, ModulusIs DEF Reduced
<1> DEFINE s == ValueOf(a) + ValueOf(b)  m == Modulus(ring)
<1>3. s % m < m
  <2>1. s \in Nat /\ m \in Nat \ {0}
    BY <1>2
  <2> HIDE DEF s, m
  <2>2. s % m \in 0..(m - 1)
    BY <2>1, DivisionIs
  <2> QED BY <2>1, <2>2
<1> QED BY <1>1, <1>3 DEF Reduced

(* All that is not a multiplication.                                       *)
LEMMA SimpleKeeps == ArithInv /\ Simple => ArithInv'
<1> SUFFICES ASSUME ArithInv, Simple PROVE ArithInv'
  OBVIOUS
<1> DEFINE m == Modulus(ring)  v == ValueOf(acc)  b == ValueOf(base)  x == Head(todo)
<1>1. work = NoNumber /\ todo # << >> /\ UNCHANGED <<ring, call, work>>
      /\ todo' = IF root' = NoNumber /\ root # NoNumber THEN << >> ELSE Tail(todo)
  BY DEF Simple
<1>2. \/ x = "add" /\ acc' = Add(acc, Y, ring) /\ UNCHANGED <<base, root>>
      \/ x = "plus seven" /\ acc' = Add(acc, LimbsOf(7, N), ring) /\ UNCHANGED <<base, root>>
      \/ x = "power of it" /\ base' = acc /\ acc' = LimbsOf(1, N) /\ UNCHANGED root
      \/ x = "power of root" /\ root # NoNumber /\ base' = root /\ acc' = LimbsOf(1, N) /\ UNCHANGED root
      \/ x = "root" /\ root' = acc /\ UNCHANGED <<acc, base>>
      \/ x = "check" /\ root' = (IF acc = base THEN root ELSE NoNumber) /\ UNCHANGED <<acc, base>>
      \/ /\ x = "check one" /\ root' = (IF acc = LimbsOf(1, N) THEN root ELSE NoNumber)
         /\ UNCHANGED <<acc, base>>
  BY DEF Simple
<1>3. Canonicals /\ CallAt
  <2>1. todo # <<"parse">>
    BY <1>2, ParsingIs
  <2> QED BY <1>1, <2>1, CallIsOn
<1>4. /\ Y \in Number /\ ValueOf(Y) = call.y /\ call.x \in Nat /\ call.y \in Nat
      /\ Reduced(acc) /\ Reduced(base) /\ (root = NoNumber \/ Reduced(root)) /\ Reduced(Y)
  BY <1>3, ArgumentsAre DEF ArithInv, ArithType, Reduced, Canonicals
<1>5. SUFFICES /\ CallAt' /\ Reduced(acc') /\ Reduced(base') /\ (root' = NoNumber \/ Reduced(root'))
  BY <1>1, <1>3 DEF ArithInv, ArithType, Multiplying, Where, Canonicals, Reduced
<1>6. CASE call.op = "add"
  <2>1. todo = <<"add">> /\ v = call.x /\ root = NoNumber
    BY <1>1, <1>3, <1>6 DEF CallAt
  <2>2. x = "add" /\ Tail(todo) = << >>
    BY <2>1
  <2>3. acc' = Add(acc, Y, ring) /\ base' = base /\ root' = root
    BY <1>2, <2>2
  <2>4. todo' = << >>
    BY <1>1, <2>1, <2>2, <2>3
  <2>5. Reduced(acc') /\ ValueOf(acc') = (call.x + call.y) % Modulus(ring)
    BY <1>4, <2>1, <2>3, SumReduced
  <2>6. CallAt'
    BY <1>1, <1>6, <2>1, <2>3, <2>4, <2>5 DEF CallAt
  <2> QED BY <1>4, <2>3, <2>5, <2>6
<1>7. CASE call.op = "mul"
  <2>1. todo = <<"mul">>
    BY <1>1, <1>3, <1>7 DEF CallAt
  <2>2. x = "mul"
    BY <2>1
  <2> QED BY <1>2, <2>2
<1>8. CASE call.op = "lift"
  <2>1. m = Prime /\ GoesOn(ring, call.x, todo, v, b, root) /\ ring # "scalar"
    BY <1>1, <1>3, <1>8, LiftIsOn
  <2>2. /\ Reduced(LimbsOf(1, N)) /\ ValueOf(LimbsOf(1, N)) = 1
        /\ Reduced(LimbsOf(7, N)) /\ ValueOf(LimbsOf(7, N)) = 7
    BY <2>1, ConstantsAre DEF Reduced
  <2>3. SUFFICES /\ LiftAt(ring, call.x, todo', ValueOf(acc'), ValueOf(base'), root')
                 /\ Reduced(acc') /\ Reduced(base') /\ (root' = NoNumber \/ Reduced(root'))
    BY <1>1, <1>8 DEF CallAt
  <2>4. CASE x = "add"
    <3>1. FALSE
      BY <2>1, <2>4 DEF GoesOn
    <3> QED BY <3>1
  <2>5. CASE x = "plus seven"
    <3>1. root = NoNumber /\ LiftAt(ring, call.x, Tail(todo), (v + 7) % Prime, b, root)
      BY <2>1, <2>5 DEF GoesOn
    <3>2. acc' = Add(acc, LimbsOf(7, N), ring) /\ base' = base /\ root' = root
      BY <1>2, <2>5
    <3>3. Reduced(acc') /\ ValueOf(acc') = (v + 7) % Prime
      BY <1>4, <2>1, <2>2, <3>2, SumReduced
    <3>4. todo' = Tail(todo)
      BY <1>1, <3>1, <3>2
    <3> QED BY <1>4, <3>1, <3>2, <3>3, <3>4
  <2>6. CASE x = "power of it"
    <3>1. root = NoNumber /\ LiftAt(ring, call.x, Tail(todo), 1, v, root)
      BY <2>1, <2>6 DEF GoesOn
    <3>2. base' = acc /\ acc' = LimbsOf(1, N) /\ root' = root
      BY <1>2, <2>6
    <3>3. todo' = Tail(todo)
      BY <1>1, <3>1, <3>2
    <3> QED BY <1>4, <2>2, <3>1, <3>2, <3>3
  <2>7. CASE x = "power of root"
    <3>1. root # NoNumber /\ LiftAt(ring, call.x, Tail(todo), 1, ValueOf(root), root)
      BY <2>1, <2>7 DEF GoesOn
    <3>2. base' = root /\ acc' = LimbsOf(1, N) /\ root' = root
      BY <1>2, <2>7
    <3>3. todo' = Tail(todo)
      BY <1>1, <3>1, <3>2
    <3> QED BY <1>4, <2>2, <3>1, <3>2, <3>3
  <2>8. CASE x = "root"
    <3>1. root = NoNumber /\ \A h \in Number : ValueOf(h) = v => LiftAt(ring, call.x, Tail(todo), v, b, h)
      BY <2>1, <2>8 DEF GoesOn
    <3>2. root' = acc /\ acc' = acc /\ base' = base
      BY <1>2, <2>8
    <3>3. todo' = Tail(todo)
      BY <1>1, <3>1
    <3>4. LiftAt(ring, call.x, Tail(todo), v, b, acc)
      BY <1>4, <3>1 DEF Reduced
    <3> QED BY <1>4, <3>2, <3>3, <3>4
  <2>9. CASE x = "check"
    <3>1. /\ root # NoNumber
          /\ v = b => LiftAt(ring, call.x, Tail(todo), v, b, root)
          /\ v # b => LiftAt(ring, call.x, << >>, v, b, NoNumber)
      BY <2>1, <2>9 DEF GoesOn
    <3>2. root' = (IF acc = base THEN root ELSE NoNumber) /\ acc' = acc /\ base' = base
      BY <1>2, <2>9
    <3>3. acc = base <=> v = b
      BY <1>4, LessIs DEF Reduced
    <3>4. CASE v = b
      <4>1. root' = root /\ todo' = Tail(todo)
        BY <1>1, <3>1, <3>2, <3>3, <3>4
      <4> QED BY <1>4, <3>1, <3>2, <3>4, <4>1
    <3>5. CASE v # b
      <4>1. root' = NoNumber /\ todo' = << >>
        BY <1>1, <3>1, <3>2, <3>3, <3>5
      <4> QED BY <1>4, <3>1, <3>2, <3>5, <4>1
    <3> QED BY <3>4, <3>5
  <2>10. CASE x = "check one"
    <3>1. root # NoNumber /\ v = 1 /\ LiftAt(ring, call.x, Tail(todo), v, b, root)
      BY <2>1, <2>10 DEF GoesOn
    <3>2. root' = (IF acc = LimbsOf(1, N) THEN root ELSE NoNumber) /\ acc' = acc /\ base' = base
      BY <1>2, <2>10
    <3>3. acc = LimbsOf(1, N)
      BY <1>4, <2>2, <3>1, LessIs DEF Reduced
    <3>4. root' = root /\ todo' = Tail(todo)
      BY <1>1, <3>1, <3>2, <3>3
    <3> QED BY <1>4, <3>1, <3>2, <3>4
  <2> QED BY <1>2, <2>4, <2>5, <2>6, <2>7, <2>8, <2>9, <2>10
<1>9. call.op \in {"add", "mul", "lift"}
  BY DEF ArithInv, ArithType, Calls
<1> QED BY <1>6, <1>7, <1>8, <1>9

(* The invariant holds of all states.                                      *)
LEMMA ArithHolds == LimbSpec => []ArithInv
<1>1. ArithInv /\ [LimbNext]_limbVars => ArithInv'
  <2> SUFFICES ASSUME ArithInv, [LimbNext]_limbVars PROVE ArithInv'
    OBVIOUS
  <2>1. CASE UNCHANGED limbVars
    BY <2>1 DEF limbVars, ArithInv, ArithType, Multiplying, Where, CallAt, Canonicals, Reduced, Factor, X, Y
  <2> QED BY <2>1, ParseKeeps, StartKeeps, RowKeeps, BitKeeps, FinishKeeps, SimpleKeeps DEF LimbNext
<1> QED BY <1>1, ArithBegins, PTL DEF LimbSpec

(* When a call is done its result is the residue meant.                    *)
LEMMA ResultFollows == ArithInv => ResultIsResidue
<1> SUFFICES ASSUME ArithInv, Returned PROVE ResultIsResidue
  BY DEF ResultIsResidue
<1>1. todo = << >> /\ Canonicals
  BY ArgumentsAre DEF ArithInv, Returned, Canonicals
<1>2. CallAt
  BY <1>1 DEF ArithInv, Where
<1>3. call.op = "add" => ValueOf(acc) = (call.x + call.y) % Modulus(ring)
  BY <1>1, <1>2 DEF CallAt
<1>4. call.op = "mul" => ValueOf(acc) = (call.x * call.y) % Modulus(ring)
  BY <1>1, <1>2 DEF CallAt
<1> DEFINE c == Cubed(call.x)  y == RootOf(c)
           ordinates == {z \in Squares : (z * z) % Prime = c}
<1>5. ASSUME call.op = "lift"
      PROVE  ordinates = IF root = NoNumber THEN {} ELSE {ValueOf(root)}
  <2>1. call.x \in 0..(Prime - 1)
    BY <1>1, <1>2, <1>5, LiftIsOn
  <2>2. LiftAt(ring, call.x, << >>, ValueOf(acc), ValueOf(base), root)
    BY <1>1, <1>2, <1>5 DEF CallAt
  <2>3. \/ root = NoNumber /\ (y * y) % Prime # c
        \/ root \in Number /\ ValueOf(root) = y /\ (y * y) % Prime = c
    BY <2>1, <2>2, LiftEnds
  <2>4. c \in 1..(Prime - 1) /\ y \in Nat
    <3>1. c \in 1..(Prime - 1) /\ c \in Nat
      <4>1. c \in 1..(Prime - 1)
        BY <2>1, CubedIs
      <4> HIDE DEF c
      <4> QED BY <4>1, PrimeIs
    <3> HIDE DEF c
    <3>2. y \in 0..(Prime - 1)
      BY <3>1, RootIs
    <3> QED BY <3>1, <3>2, PrimeIs
  <2>5. /\ (y * y) % Prime = c => ordinates = {y}
        /\ (y * y) % Prime # c => ordinates = {}
    <3> HIDE DEF c
    <3> QED BY <2>4, OrdinatesAre
  <2> HIDE DEF y, c, ordinates
  <2> QED BY <2>3, <2>5, NotANumber
<1> QED BY <1>3, <1>4, <1>5 DEF ResultIsResidue, Squares, Cubed

(* What a call of the field or the scalar arithmetic returns: of a sum or a *)
(* product the residue, whatever is carried, borrowed, lost off the top or  *)
(* reduced on the way; of the lift the ordinate above x that is a square,   *)
(* in both copies, and none exactly when there is none.                     *)
THEOREM ResultsAreResidues == LimbSpec => []ResultIsResidue
BY ArithHolds, ResultFollows, PTL

-----------------------------------------------------------------------------
(***************************************************************************)
(* RegistrationProofs: verification accepts the right witness and no       *)
(* other, what is accepted agrees in value, and each acceptance is of one  *)
(* context, for every group order and every set of PSETs.                  *)
(***************************************************************************)
(* Remainders by the order.                                                *)

(* The order is a number above one.                                        *)
LEMMA OrderIs == Q \in Nat \ {0} /\ Q > 1 /\ Scalar = 0..(Q - 1)
BY OrderAssumption DEF Scalar

(* Reducing twice is reducing once.                                        *)
LEMMA ScalarsStay == \A x \in Int : x % Q \in Scalar /\ (x \in Scalar => x % Q = x)
BY OrderIs

(* A summand may be reduced before a sum is.                               *)
LEMMA ReducedSummand ==
  ASSUME NEW a \in Int, NEW b \in Int
  PROVE  ((a % Q) + b) % Q = (a + b) % Q /\ (b + (a % Q)) % Q = (b + a) % Q
<1>1. PICK k \in Int : a = (a % Q) + Q * k
  BY OrderIs, RemainderIsOff
<1> DEFINE r == a % Q
<1>2. r \in Int /\ a = r + Q * k
  BY <1>1, OrderIs
<1> HIDE DEF r
<1>3. a + b = (r + b) + Q * k /\ b + a = (b + r) + Q * k
  BY <1>2, OrderIs
<1>4. (a + b) % Q = (r + b) % Q /\ (b + a) % Q = (b + r) % Q
  <2>1. a + b \in Int /\ r + b \in Int /\ b + a \in Int /\ b + r \in Int
    BY <1>2
  <2> QED BY <1>3, <2>1, OrderIs, RemainderOfMultiple
<1> QED BY <1>4 DEF r

(* So may a factor.                                                        *)
LEMMA ReducedFactor ==
  ASSUME NEW a \in Int, NEW b \in Int
  PROVE  ((a % Q) * b) % Q = (a * b) % Q /\ (b * (a % Q)) % Q = (b * a) % Q
<1>1. PICK k \in Int : a = (a % Q) + Q * k
  BY OrderIs, RemainderIsOff
<1> DEFINE r == a % Q
<1>2. r \in Int /\ a = r + Q * k
  BY <1>1, OrderIs
<1> HIDE DEF r
<1>3. a * b = (r * b) + Q * (k * b) /\ b * a = a * b /\ b * r = r * b
  BY <1>2, OrderIs
<1> DEFINE x == a * b  y == r * b  z == k * b
<1>4. x \in Int /\ y \in Int /\ z \in Int
  BY <1>2
<1>5. x % Q = y % Q
  <2> HIDE DEF x, y, z
  <2>1. x = y + Q * z
    BY <1>3 DEF x, y, z
  <2> QED BY <1>4, <2>1, OrderIs, RemainderOfMultiple
<1> QED BY <1>3, <1>5 DEF r

(* A difference is a multiple of the order exactly if the remainders agree.*)
LEMMA Congruent ==
  ASSUME NEW a \in Int, NEW b \in Int
  PROVE  (a % Q = b % Q) <=> ((a - b) % Q = 0)
<1>1. ASSUME a % Q = b % Q
      PROVE  (a - b) % Q = 0
  <2>1. (a - b) % Q = ((a % Q) - b) % Q
    <3>1. 0 - b \in Int
      OBVIOUS
    <3>2. ((a % Q) + (0 - b)) % Q = (a + (0 - b)) % Q
      BY <3>1, ReducedSummand
    <3>3. (a % Q) + (0 - b) = (a % Q) - b /\ a + (0 - b) = a - b
      BY OrderIs
    <3> QED BY <3>2, <3>3
  <2>2. PICK k \in Int : b = (b % Q) + Q * k
    BY OrderIs, RemainderIsOff
  <2> DEFINE r == b % Q
  <2>3. r \in Int /\ b = r + Q * k
    BY <2>2, OrderIs
  <2>4. (a - b) % Q = (r - b) % Q
    BY <1>1, <2>1
  <2> HIDE DEF r
  <2> DEFINE j == 0 - k
  <2>5. j \in Int /\ r - b = 0 + Q * j
    BY <2>3, OrderIs
  <2> HIDE DEF j
  <2>6. (r - b) % Q = 0 % Q
    <3>1. r - b \in Int /\ 0 \in Int
      BY <2>3
    <3> QED BY <2>5, <3>1, OrderIs, RemainderOfMultiple
  <2> QED BY <2>4, <2>6, OrderIs
<1>2. ASSUME (a - b) % Q = 0
      PROVE  a % Q = b % Q
  <2> DEFINE d == a - b
  <2>1. d \in Int /\ a = d + b
    OBVIOUS
  <2>2. d % Q = 0
    BY <1>2
  <2> HIDE DEF d
  <2>3. ((d % Q) + b) % Q = (d + b) % Q
    BY <2>1, ReducedSummand
  <2> QED BY <2>1, <2>2, <2>3
<1> QED BY <1>1, <1>2

(* The order has no divisors of zero.                                      *)
LEMMA NoDivisorOfZero ==
  ASSUME NEW c \in Scalar, c # 0, NEW x \in Int, (c * x) % Q = 0
  PROVE  x % Q = 0
<1> DEFINE r == x % Q
<1>1. r \in Scalar
  BY ScalarsStay
<1>2. (c * r) % Q = 0
  <2>1. c \in Int
    BY OrderIs
  <2> QED BY <2>1, ReducedFactor
<1> HIDE DEF r
<1>3. r = 0
  BY <1>1, <1>2, OrderAssumption, OrderIs
<1> QED BY <1>3 DEF r

(* A factor other than zero can be taken off.                              *)
LEMMA FactorCancels ==
  ASSUME NEW c \in Scalar, c # 0, NEW x \in Int, NEW y \in Int
  PROVE  ((c * x) % Q = (c * y) % Q) <=> ((x - y) % Q = 0)
<1>1. c \in Int /\ c * x \in Int /\ c * y \in Int /\ x - y \in Int
  BY OrderIs
<1>2. c * x - c * y = c * (x - y)
  BY <1>1
<1>3. ((c * x) % Q = (c * y) % Q) <=> ((c * (x - y)) % Q = 0)
  BY <1>1, <1>2, Congruent
<1>4. ASSUME (x - y) % Q = 0
      PROVE  (c * (x - y)) % Q = 0
  <2> DEFINE d == x - y
  <2>1. (c * (d % Q)) % Q = (c * d) % Q
    BY <1>1, ReducedFactor
  <2>2. c * (d % Q) = 0 /\ 0 % Q = 0
    BY <1>1, <1>4, OrderIs
  <2> QED BY <2>1, <2>2
<1>5. ASSUME (c * (x - y)) % Q = 0
      PROVE  (x - y) % Q = 0
  BY <1>1, <1>5, NoDivisorOfZero
<1> QED BY <1>3, <1>4, <1>5

(* So can an equal summand.                                                *)
LEMMA SummandCancels ==
  ASSUME NEW a \in Int, NEW x \in Int, NEW y \in Int
  PROVE  ((a + x) % Q = (a + y) % Q) <=> (x % Q = y % Q)
<1>1. a + x \in Int /\ a + y \in Int /\ (a + x) - (a + y) = x - y
  OBVIOUS
<1>2. ((a + x) % Q = (a + y) % Q) <=> (((a + x) - (a + y)) % Q = 0)
  BY <1>1, Congruent
<1>3. (x % Q = y % Q) <=> ((x - y) % Q = 0)
  BY Congruent
<1> QED BY <1>1, <1>2, <1>3

(* One coefficient of an equation: a nonce and the challenge times what is *)
(* claimed, against the nonce and the challenge times what is there.       *)
LEMMA CoefficientIsExact ==
  ASSUME NEW a \in Int, NEW m \in Int, NEW p \in Int, NEW c \in Scalar, c # 0
  PROVE  ((a + c * m) % Q = ((a % Q) + ((c * p) % Q)) % Q) <=> ((m - p) % Q = 0)
<1>1. c \in Int /\ c * m \in Int /\ c * p \in Int
  BY OrderIs
<1> DEFINE x == c * m  y == c * p
<1>2. x \in Int /\ y \in Int
  BY <1>1
<1>3. (x % Q = y % Q) <=> ((m - p) % Q = 0)
  BY FactorCancels
<1> HIDE DEF x, y
<1>4. y % Q \in Int /\ a % Q \in Int
  BY <1>2, OrderIs
<1>5. ((a % Q) + (y % Q)) % Q = (a + (y % Q)) % Q
  BY <1>4, ReducedSummand
<1>6. (a + (y % Q)) % Q = (a + y) % Q
  BY <1>2, ReducedSummand
<1>7. ((a + x) % Q = (a + y) % Q) <=> (x % Q = y % Q)
  <2>1. a \in Int /\ x \in Int /\ y \in Int
    BY <1>2
  <2>2. \A k, i, j \in Int : ((k + i) % Q = (k + j) % Q) <=> (i % Q = j % Q)
    BY SummandCancels
  <2>3. \A i, j \in Int : ((a + i) % Q = (a + j) % Q) <=> (i % Q = j % Q)
    BY <2>1, <2>2, ZenonT(20)
  <2>4. \A j \in Int : ((a + x) % Q = (a + j) % Q) <=> (x % Q = j % Q)
    BY <2>1, <2>3, ZenonT(20)
  <2>5. ((a + x) % Q = (a + y) % Q) <=> (x % Q = y % Q)
    BY <2>1, <2>4, ZenonT(20)
  <2> QED BY <2>5
<1> QED BY <1>3, <1>5, <1>6, <1>7 DEF x, y

-----------------------------------------------------------------------------
(* Points.                                                                 *)

(* What points are made of.                                                *)
LEMMA PointsAre ==
  /\ Failure \in Point /\ \A g \in Generators : Failure[g] = 0
  /\ \A p : p \in Point => DOMAIN p = Generators /\ \A g \in Generators : p[g] \in Int /\ p[g] \in Scalar
  /\ \A g, h \in Generators : Generator(g) \in Point /\ Generator(g)[h] = IF h = g THEN 1 ELSE 0
  /\ Generators = {"Gg", "Gh", "A", "H"}
<1>1. 0 \in Scalar /\ 1 \in Scalar /\ Scalar \subseteq Int
  BY OrderIs
<1> QED BY <1>1 DEF Failure, Point, Generator, Generators

(* A multiple, coefficient by coefficient.                                 *)
LEMMA MulIs ==
  ASSUME NEW p \in [Generators -> Int], NEW n \in Int
  PROVE  Mul(p, n) \in Point /\ \A g \in Generators : Mul(p, n)[g] = (n * p[g]) % Q
<1>1. \A g \in Generators : n * p[g] \in Int
  OBVIOUS
<1>2. \A g \in Generators : (n * p[g]) % Q \in Scalar
  BY <1>1, ScalarsStay
<1> QED BY <1>2 DEF Mul, Point

(* A sum of two, unless one has failed.                                    *)
LEMMA CombineIs ==
  ASSUME NEW p \in Point, NEW r \in Point
  PROVE  /\ Combine(p, r) \in Point
         /\ (p # Failure /\ r # Failure) =>
              \A g \in Generators : Combine(p, r)[g] = (p[g] + r[g]) % Q
         /\ (p = Failure \/ r = Failure) => Combine(p, r) = Failure
<1>1. \A g \in Generators : p[g] + r[g] \in Int
  BY PointsAre
<1>2. \A g \in Generators : (p[g] + r[g]) % Q \in Scalar
  BY <1>1, ScalarsStay
<1>3. CASE Failure \in {p, r}
  BY <1>3, PointsAre DEF Combine
<1>4. CASE Failure \notin {p, r}
  <2>1. Combine(p, r) = [g \in Generators |-> (p[g] + r[g]) % Q]
    BY <1>4 DEF Combine
  <2> QED BY <1>2, <1>4, <2>1 DEF Point
<1> QED BY <1>3, <1>4

(* A point fails exactly if all its coefficients are zero.                 *)
LEMMA FailsIf ==
  ASSUME NEW p \in Point
  PROVE  p = Failure <=> \A g \in Generators : p[g] = 0
BY DEF Failure, Point

(* The coefficients of a total are sums.                                   *)
LEMMA SumOfFirstIs ==
  ASSUME NEW points \in Seq(Point), NEW n \in 0..Len(points), NEW g \in Generators
  PROVE  /\ SumFunctionOnSet([i \in 1..n |-> points[i][g]], 1..n) \in Int
         /\ SumOfFirst(points, n)[g] = SumFunctionOnSet([i \in 1..n |-> points[i][g]], 1..n) % Q
         /\ SumOfFirst(points, n) \in Point
<1>1. ASSUME NEW h \in Generators
      PROVE  SumFunctionOnSet([i \in 1..n |-> points[i][h]], 1..n) \in Int
  <2> DEFINE f == [i \in 1..n |-> points[i][h]]
  <2>1. \A i \in 1..n : points[i] \in Point
    OBVIOUS
  <2>2. \A i \in 1..n : f[i] \in Int
    BY <2>1, PointsAre
  <2>3. IsFiniteSet(1..n)
    BY FS_Interval
  <2> HIDE DEF f
  <2>4. SumFunctionOnSet(f, 1..n) \in Int
    BY <2>2, <2>3, SumWithElement
  <2> QED BY <2>4 DEF f
<1>2. \A h \in Generators : SumFunctionOnSet([i \in 1..n |-> points[i][h]], 1..n) % Q \in Scalar
  BY <1>1, ScalarsStay
<1> QED BY <1>1, <1>2 DEF SumOfFirst, Point

(* The first alone is its own sum.                                         *)
LEMMA FirstSumIs ==
  ASSUME NEW points \in Seq(Point), Len(points) > 0
  PROVE  SumOfFirst(points, 1) = points[1]
<1>1. points[1] \in Point
  OBVIOUS
<1>2. ASSUME NEW g \in Generators
      PROVE  SumOfFirst(points, 1)[g] = points[1][g]
  <2> DEFINE f == [i \in 1..1 |-> points[i][g]]
  <2>1. \A i \in {1} : f[i] = points[1][g] /\ f[i] \in Int
    BY <1>1, PointsAre
  <2>2. f[1] = points[1][g] /\ f[1] \in Int
    BY <2>1
  <2> HIDE DEF f
  <2>3. IsFiniteSet({1}) /\ Cardinality({1}) = 1
    BY FS_Singleton
  <2>4. SumFunctionOnSet(f, {1}) = f[1] + SumFunctionOnSet(f, {1} \ {1})
    BY <2>1, <2>3, SumWithElement
  <2>5. {1} \ {1} = {} /\ 1..1 = {1}
    OBVIOUS
  <2>6. SumFunctionOnSet(f, 1..1) = f[1]
    <3>1. SumFunctionOnSet(f, {1} \ {1}) = 0
      BY <2>5, SumOfNothing, Zenon
    <3>2. SumFunctionOnSet(f, {1}) = f[1] + 0
      BY <2>4, <3>1, Zenon
    <3> QED BY <2>2, <2>5, <3>2
  <2>7. SumOfFirst(points, 1)[g] = f[1] % Q
    BY <2>6 DEF SumOfFirst, f
  <2>8. points[1][g] \in Scalar
    BY <1>1, PointsAre
  <2> QED BY <2>2, <2>7, <2>8, ScalarsStay
<1>3. SumOfFirst(points, 1) \in Point
  <2>1. 1 \in 0..Len(points) /\ "A" \in Generators
    BY PointsAre
  <2> QED BY <2>1, SumOfFirstIs
<1> QED BY <1>1, <1>2, <1>3 DEF Point

(* A list of one.                                                          *)
LEMMA TotalOfOne ==
  ASSUME NEW p \in Point
  PROVE  Total(<<p>>) = p
<1> DEFINE l == <<p>>
<1>1. l \in Seq(Point) /\ Len(l) = 1 /\ l[1] = p /\ DOMAIN l = {1}
  OBVIOUS
<1> HIDE DEF l
<1>2. SumOfFirst(l, 1) = p
  <2>1. Len(l) > 0
    BY <1>1
  <2> QED BY <1>1, <2>1, FirstSumIs
<1>3. Total(l) = p
  BY <1>1, <1>2 DEF Total
<1> QED BY <1>3 DEF l

(* A list of two is combined as two points are.                            *)
LEMMA TotalOfTwo ==
  ASSUME NEW p \in Point, NEW r \in Point
  PROVE  Total(<<p, r>>) = Combine(p, r)
<1> DEFINE l == <<p, r>>
<1>1. l \in Seq(Point) /\ Len(l) = 2 /\ l[1] = p /\ l[2] = r /\ DOMAIN l = {1, 2}
  OBVIOUS
<1> HIDE DEF l
<1>2. SumOfFirst(l, 1) = p
  <2>1. Len(l) > 0
    BY <1>1
  <2> QED BY <1>1, <2>1, FirstSumIs
<1>3. ASSUME NEW g \in Generators
      PROVE  SumOfFirst(l, 2)[g] = (p[g] + r[g]) % Q
  <2> DEFINE f == [i \in 1..2 |-> l[i][g]]
  <2>1. \A i \in {1, 2} : f[i] \in Int
    BY <1>1, PointsAre
  <2>2. f[1] = p[g] /\ f[2] = r[g]
    BY <1>1
  <2> HIDE DEF f
  <2>3. IsFiniteSet({1, 2}) /\ IsFiniteSet({1})
    <3>1. IsFiniteSet(1..2) /\ IsFiniteSet(1..1)
      <4>1. 1 \in Int /\ 2 \in Int
        OBVIOUS
      <4> QED BY <4>1, FS_Interval, Zenon
    <3>2. 1..2 = {1, 2} /\ 1..1 = {1}
      OBVIOUS
    <3> QED BY <3>1, <3>2
  <2>4. SumFunctionOnSet(f, {1, 2}) = f[1] + SumFunctionOnSet(f, {1, 2} \ {1})
    BY <2>1, <2>3, SumWithElement
  <2>5. {1, 2} \ {1} = {2} /\ {2} \ {2} = {} /\ IsFiniteSet({2})
    BY <2>3, FS_Subset
  <2>6. SumFunctionOnSet(f, {2}) = f[2] + SumFunctionOnSet(f, {2} \ {2})
    BY <2>1, <2>5, SumWithElement
  <2>7. SumFunctionOnSet(f, {1, 2}) = f[1] + f[2]
    <3>1. SumFunctionOnSet(f, {2} \ {2}) = 0
      BY <2>5, SumOfNothing, Zenon
    <3>2. SumFunctionOnSet(f, {1, 2}) = f[1] + (f[2] + 0)
      BY <2>4, <2>5, <2>6, <3>1, Zenon
    <3> QED BY <2>1, <3>2
  <2>8. 1..2 = {1, 2}
    OBVIOUS
  <2>9. SumOfFirst(l, 2)[g] = SumFunctionOnSet(f, 1..2) % Q
    BY DEF SumOfFirst, f
  <2> QED BY <2>2, <2>7, <2>8, <2>9
<1>4. SumOfFirst(l, 2) \in Point
  <2>1. 2 \in 0..Len(l) /\ "A" \in Generators
    BY <1>1, PointsAre
  <2> QED BY <1>1, <2>1, SumOfFirstIs
<1>5. CASE p = Failure \/ r = Failure
  <2>1. \E n \in DOMAIN l : Failure \in {l[n], SumOfFirst(l, n)}
    BY <1>1, <1>5
  <2>2. Total(l) = Failure
    BY <2>1 DEF Total
  <2> QED BY <1>5, <2>2, CombineIs DEF l
<1>6. CASE p # Failure /\ r # Failure
  <2>1. Combine(p, r) = SumOfFirst(l, 2)
    <3>1. \A g \in Generators : Combine(p, r)[g] = SumOfFirst(l, 2)[g]
      BY <1>3, <1>6, CombineIs
    <3>2. Combine(p, r) \in Point
      BY CombineIs
    <3> QED BY <1>4, <3>1, <3>2 DEF Point
  <2>2. Total(l) = SumOfFirst(l, 2)
    <3>1. CASE SumOfFirst(l, 2) = Failure
      BY <1>1, <3>1 DEF Total
    <3>2. CASE SumOfFirst(l, 2) # Failure
      BY <1>1, <1>2, <1>6, <3>2 DEF Total
    <3> QED BY <3>1, <3>2
  <2> QED BY <2>1, <2>2 DEF l
<1> QED BY <1>5, <1>6

(* A longer one, where nothing failed.                                     *)
LEMMA TotalIs ==
  ASSUME NEW points \in Seq(Point)
  PROVE  /\ Total(points) \in Point
         /\ Total(points) # Failure =>
              \A g \in Generators :
                Total(points)[g]
                  = SumFunctionOnSet([i \in 1..Len(points) |-> points[i][g]], 1..Len(points)) % Q
<1>1. Len(points) \in 0..Len(points) /\ "A" \in Generators
  BY PointsAre
<1>2. SumOfFirst(points, Len(points)) \in Point
  BY <1>1, SumOfFirstIs
<1>3. Total(points) = Failure \/ Total(points) = SumOfFirst(points, Len(points))
  BY DEF Total
<1>4. CASE Total(points) = Failure
  BY <1>4, PointsAre
<1>5. CASE Total(points) = SumOfFirst(points, Len(points))
  <2>1. ASSUME NEW g \in Generators
        PROVE  Total(points)[g]
                 = SumFunctionOnSet([i \in 1..Len(points) |-> points[i][g]], 1..Len(points)) % Q
    BY <1>1, <1>5, SumOfFirstIs
  <2> QED BY <1>2, <1>5, <2>1
<1> QED BY <1>3, <1>4, <1>5

-----------------------------------------------------------------------------
(* Equations.                                                              *)

(* An equation on one generator.                                           *)
LEMMA ValueOfOne ==
  ASSUME NEW p, NEW b \in Point, NEW n, NEW scalars, scalars[n] \in Int
  PROVE  Value([of |-> p, on |-> <<b>>, by |-> <<n>>], scalars) = Mul(b, scalars[n])
<1> DEFINE e == [of |-> p, on |-> <<b>>, by |-> <<n>>]
<1>1. [i \in DOMAIN e.on |-> Mul(e.on[i], scalars[e.by[i]])] = <<Mul(b, scalars[n])>>
  OBVIOUS
<1>2. Mul(b, scalars[n]) \in Point
  <2>1. b \in [Generators -> Int]
    BY PointsAre DEF Point
  <2> QED BY <2>1, MulIs
<1>3. Value(e, scalars) = Total(<<Mul(b, scalars[n])>>)
  BY <1>1 DEF Value
<1> QED BY <1>2, <1>3, TotalOfOne

(* An equation on two.                                                     *)
LEMMA ValueOfTwo ==
  ASSUME NEW p, NEW b \in Point, NEW d \in Point, NEW m, NEW n, NEW scalars,
         scalars[m] \in Int, scalars[n] \in Int
  PROVE  Value([of |-> p, on |-> <<b, d>>, by |-> <<m, n>>], scalars)
           = Combine(Mul(b, scalars[m]), Mul(d, scalars[n]))
<1> DEFINE e == [of |-> p, on |-> <<b, d>>, by |-> <<m, n>>]
<1>1. [i \in DOMAIN e.on |-> Mul(e.on[i], scalars[e.by[i]])]
        = <<Mul(b, scalars[m]), Mul(d, scalars[n])>>
  OBVIOUS
<1>2. Mul(b, scalars[m]) \in Point /\ Mul(d, scalars[n]) \in Point
  <2>1. b \in [Generators -> Int] /\ d \in [Generators -> Int]
    BY PointsAre DEF Point
  <2> QED BY <2>1, MulIs
<1>3. Value(e, scalars) = Total(<<Mul(b, scalars[m]), Mul(d, scalars[n])>>)
  BY <1>1 DEF Value
<1> QED BY <1>2, <1>3, TotalOfTwo

(* A point that is one does not fail when it is multiplied.                *)
LEMMA MulFailsIf ==
  ASSUME NEW p \in Point, NEW n \in Scalar
  PROVE  Mul(p, n) = Failure <=> p = Failure \/ n = 0
<1>1. p \in [Generators -> Int] /\ n \in Int /\ Mul(p, n) \in Point
  <2>1. p \in [Generators -> Int] /\ n \in Int
    BY PointsAre, OrderIs DEF Point
  <2> QED BY <2>1, MulIs
<1>2. ASSUME p = Failure \/ n = 0, NEW g \in Generators
      PROVE  Mul(p, n)[g] = 0
  <2>1. n * p[g] = 0
    BY <1>1, <1>2, PointsAre
  <2> QED BY <1>1, <2>1, MulIs, OrderIs
<1>3. ASSUME NEW g \in Generators, Mul(p, n)[g] = 0, n # 0
      PROVE  p[g] = 0
  <2>1. (n * p[g]) % Q = 0
    BY <1>1, <1>3, MulIs
  <2>2. p[g] % Q = 0
    BY <1>1, <1>3, <2>1, NoDivisorOfZero
  <2> QED BY <2>2, PointsAre, ScalarsStay
<1> QED BY <1>1, <1>2, <1>3, FailsIf

(* Multiples of generators with nothing in common.                         *)
Pair(g, x, h, y) == [Failure EXCEPT ![g] = x, ![h] = y]

(* The left-hand side of the first equation: zero cannot be multiplied by. *)
LEMMA PairOfGenerators ==
  ASSUME NEW x \in Scalar, NEW y \in Scalar, NEW g \in Generators, NEW h \in Generators, g # h
  PROVE  /\ Mul(Generator(h), y) = [Failure EXCEPT ![h] = y]
         /\ (x = 0 \/ y = 0) => Combine(Mul(Generator(g), x), Mul(Generator(h), y)) = Failure
         /\ (x # 0 /\ y # 0) =>
              /\ Combine(Mul(Generator(g), x), Mul(Generator(h), y)) = Pair(g, x, h, y)
              /\ Pair(g, x, h, y) # Failure
<1>1. ASSUME NEW z \in Scalar, NEW k \in Generators
      PROVE  /\ Mul(Generator(k), z) \in Point
             /\ \A i \in Generators : Mul(Generator(k), z)[i] = IF i = k THEN z ELSE 0
             /\ Mul(Generator(k), z) = Failure <=> z = 0
  <2>1. Generator(k) \in [Generators -> Int] /\ z \in Int /\ Generator(k) \in Point
    BY PointsAre, OrderIs DEF Point
  <2>2. ASSUME NEW i \in Generators
        PROVE  Mul(Generator(k), z)[i] = IF i = k THEN z ELSE 0
    <3>1. Mul(Generator(k), z)[i] = (z * Generator(k)[i]) % Q
      BY <2>1, MulIs
    <3>2. z * Generator(k)[i] = IF i = k THEN z ELSE 0
      BY <2>1, PointsAre
    <3>3. CASE i = k
      BY <2>1, <3>1, <3>2, <3>3, ScalarsStay
    <3>4. CASE i # k
      BY <3>1, <3>2, <3>4, OrderIs
    <3> QED BY <3>3, <3>4
  <2>3. Generator(k) # Failure
    BY PointsAre
  <2> QED BY <2>1, <2>2, <2>3, MulIs, MulFailsIf
<1>2. Mul(Generator(h), y) = [Failure EXCEPT ![h] = y]
  BY <1>1, PointsAre DEF Point, Failure
<1>3. CASE x = 0 \/ y = 0
  BY <1>1, <1>2, <1>3, CombineIs
<1>4. CASE x # 0 /\ y # 0
  <2> DEFINE c == Combine(Mul(Generator(g), x), Mul(Generator(h), y))
  <2>1. c \in Point
    BY <1>1, CombineIs
  <2>2. ASSUME NEW i \in Generators
        PROVE  c[i] = Pair(g, x, h, y)[i]
    <3>1. c[i] = (Mul(Generator(g), x)[i] + Mul(Generator(h), y)[i]) % Q
      BY <1>1, <1>4, CombineIs
    <3>2. Mul(Generator(g), x)[i] + Mul(Generator(h), y)[i]
            = IF i = g THEN x ELSE IF i = h THEN y ELSE 0
      BY <1>1, OrderIs
    <3>3. Pair(g, x, h, y)[i] = IF i = g THEN x ELSE IF i = h THEN y ELSE 0
      BY PointsAre DEF Pair, Failure
    <3> DEFINE v == IF i = g THEN x ELSE IF i = h THEN y ELSE 0
    <3>4. v \in Scalar
      BY OrderIs
    <3>5. c[i] = v % Q /\ Pair(g, x, h, y)[i] = v
      BY <3>1, <3>2, <3>3
    <3>6. v \in Int
      BY <3>4, OrderIs
    <3> HIDE DEF v, c
    <3>7. v % Q = v
      BY <3>4, <3>6, ScalarsStay
    <3> QED BY <3>5, <3>7
  <2>3. Pair(g, x, h, y) \in Point
    BY PointsAre DEF Pair, Point, Failure
  <2>4. c = Pair(g, x, h, y)
    BY <2>1, <2>2, <2>3 DEF Point
  <2>5. Pair(g, x, h, y)[h] = y /\ Pair(g, x, h, y) # Failure
    BY <1>4, PointsAre DEF Pair, Failure
  <2> QED BY <1>2, <1>4, <2>4, <2>5
<1> QED BY <1>2, <1>3, <1>4

(* What a prover with any witness comes to satisfies an equation exactly   *)
(* if the witness does, coefficient by coefficient.                        *)
LEMMA EquationIsExact ==
  ASSUME NEW a \in [Generators -> Int], NEW m \in [Generators -> Int],
         NEW c \in Scalar, c # 0, NEW p \in Point, p # Failure,
         NEW left \in Point, \A g \in Generators : left[g] = (a[g] + c * m[g]) % Q,
         NEW made \in Point, made # Failure, \A g \in Generators : made[g] = a[g] % Q
  PROVE  left = Combine(made, Mul(p, c)) <=> \A g \in Generators : (m[g] - p[g]) % Q = 0
<1>1. p \in [Generators -> Int] /\ c \in Int
  BY PointsAre, OrderIs DEF Point
<1>2. /\ Mul(p, c) \in Point /\ Mul(p, c) # Failure
      /\ \A g \in Generators : Mul(p, c)[g] = (c * p[g]) % Q
  BY <1>1, MulIs, MulFailsIf
<1>3. /\ Combine(made, Mul(p, c)) \in Point
      /\ \A g \in Generators : Combine(made, Mul(p, c))[g] = ((a[g] % Q) + ((c * p[g]) % Q)) % Q
  BY <1>2, CombineIs
<1>4. left = Combine(made, Mul(p, c)) <=>
        \A g \in Generators : left[g] = Combine(made, Mul(p, c))[g]
  BY <1>3 DEF Point
<1>5. ASSUME NEW g \in Generators
      PROVE  (left[g] = Combine(made, Mul(p, c))[g]) <=> ((m[g] - p[g]) % Q = 0)
  <2>1. a[g] \in Int /\ m[g] \in Int /\ p[g] \in Int
    BY <1>1
  <2>2. ((a[g] + c * m[g]) % Q = ((a[g] % Q) + ((c * p[g]) % Q)) % Q) <=> ((m[g] - p[g]) % Q = 0)
    BY <2>1, CoefficientIsExact
  <2> QED BY <1>3, <2>2
<1> QED BY <1>4, <1>5

-----------------------------------------------------------------------------
(* Registrations.                                                          *)

(* Two coefficients and no other.                                          *)
LEMMA PairOfPointsIs ==
  ASSUME NEW x \in Int, NEW y \in Int, NEW g \in Generators, NEW h \in Generators, g # h
  PROVE  /\ Pair(g, x, h, y) \in [Generators -> Int]
         /\ \A i \in Generators :
              Pair(g, x, h, y)[i] = IF i = g THEN x ELSE IF i = h THEN y ELSE 0
BY DEF Pair, Failure

(* The pair a commitment is made of.                                       *)
LEMMA PairOfCommitment ==
  ASSUME NEW x \in Int, NEW y \in Int
  PROVE  /\ Pair("A", x, "H", y) \in [Generators -> Int]
         /\ \A i \in Generators :
              Pair("A", x, "H", y)[i] = IF i = "A" THEN x ELSE IF i = "H" THEN y ELSE 0
BY DEF Pair, Failure, Generators

(* The points of an element.                                               *)
LEMMA ElementPoints ==
  ASSUME NEW e \in Elements
  PROVE  /\ Commitment(e) \in Point /\ Commitment(e) = Pair("A", e.value, "H", e.bf)
         /\ AssetOf(e) \in Point /\ AssetOf(e) = Pair("A", 1, "H", e.abf)
<1>1. e.value \in Scalar /\ e.bf \in Scalar /\ e.abf \in Scalar /\ 1 \in Scalar /\ 0 \in Scalar
  BY OrderIs DEF Elements
<1> QED BY <1>1 DEF Commitment, AssetOf, Pair, Failure, Generator, Point, Generators

(* What a caller names is there, and is a point where it should be one.    *)
LEMMA RegistrationsAre ==
  ASSUME NEW s \in Subjects, s.ctx.kind # "balance"
  PROVE  /\ Element(s) \in Elements
         /\ Element(s).blinded => Commitment(Element(s)) # Failure
         /\ s.cred \in Point /\ s.cred # Failure
<1>1. s \in [pset : Revisions, ctx : RegistrationContexts, cred : Credentials]
  BY DEF Subjects, BalanceContexts
<1>2. s.pset \in Revisions /\ s.ctx.index \in 1..2 /\ s.cred \in Credentials
  BY <1>1 DEF RegistrationContexts
<1>3. /\ s.pset.inputs \in Seq(Elements) /\ s.pset.outputs \in Seq(Elements)
      /\ s.ctx.index \in DOMAIN s.pset.inputs /\ s.ctx.index \in DOMAIN s.pset.outputs
  BY <1>2, RegistrationAssumption
<1>4. Element(s) \in Range(s.pset.inputs) \cup Range(s.pset.outputs)
  BY <1>3 DEF Element, Range
<1>5. Element(s) \in Elements
  BY <1>3 DEF Element
<1> QED BY <1>2, <1>4, <1>5, RegistrationAssumption

(* What is multiplied in an equality proof, under any scalars.             *)
Scalars == [{"v", "r1", "r2"} -> Scalar]
Second(e, v, r) == Pair("A", v, "H", v * e.abf + r)
FirstPartOf(s) == [of |-> s.cred, on |-> <<Generator("Gg"), Generator("Gh")>>, by |-> <<"v", "r1">>]
SecondOf(e) == [of |-> Commitment(e), on |-> <<AssetOf(e), Generator("H")>>, by |-> <<"v", "r2">>]

(* The statement of a registration is two equations.                       *)
LEMMA EqualityIs ==
  ASSUME NEW s \in Subjects, s.ctx.kind # "balance"
  PROVE  /\ Statement(s) # << >> <=> Element(s).blinded
         /\ Statement(s) # << >> => /\ DOMAIN Statement(s) = {1, 2} /\ Len(Statement(s)) = 2
                                   /\ Statement(s)[1] = FirstPartOf(s)
                                   /\ Statement(s)[2] = SecondOf(Element(s))
<1>1. Element(s).blinded \in BOOLEAN
  BY RegistrationsAre DEF Elements
<1>2. CASE ~ Element(s).blinded
  BY <1>2 DEF Statement, Equality
<1>3. CASE Element(s).blinded
  <2>1. Statement(s) = <<FirstPartOf(s), SecondOf(Element(s))>>
    BY <1>3 DEF Statement, Equality, FirstPartOf, SecondOf
  <2> QED BY <1>3, <2>1
<1> QED BY <1>1, <1>2, <1>3

(* The value of the first under scalars.                                   *)
LEMMA FirstValue ==
  ASSUME NEW s, NEW z \in Scalars
  PROVE  /\ Value(FirstPartOf(s), z) \in Point
         /\ Value(FirstPartOf(s), z) # Failure <=> z.v # 0 /\ z.r1 # 0
         /\ Value(FirstPartOf(s), z) # Failure =>
              Value(FirstPartOf(s), z) = Pair("Gg", z.v, "Gh", z.r1)
<1>1. /\ z["v"] \in Scalar /\ z["r1"] \in Scalar /\ z["v"] \in Int /\ z["r1"] \in Int
      /\ "Gg" \in Generators /\ "Gh" \in Generators /\ "Gg" # "Gh"
  BY OrderIs, PointsAre DEF Scalars
<1>2. Generator("Gg") \in Point /\ Generator("Gh") \in Point
  BY <1>1, PointsAre
<1>3. Value(FirstPartOf(s), z) = Combine(Mul(Generator("Gg"), z["v"]), Mul(Generator("Gh"), z["r1"]))
  BY <1>1, <1>2, ValueOfTwo DEF FirstPartOf
<1>4. Combine(Mul(Generator("Gg"), z["v"]), Mul(Generator("Gh"), z["r1"])) \in Point
  <2>1. Generator("Gg") \in [Generators -> Int] /\ Generator("Gh") \in [Generators -> Int]
    BY <1>2, PointsAre DEF Point
  <2> QED BY <1>1, <2>1, MulIs, CombineIs
<1> QED BY <1>1, <1>3, <1>4, PairOfGenerators

(* The value of the second.                                                *)
LEMMA SecondValue ==
  ASSUME NEW e \in Elements, NEW z \in Scalars
  PROVE  /\ Value(SecondOf(e), z) \in Point
         /\ Value(SecondOf(e), z) # Failure <=> z.v # 0 /\ z.r2 # 0
         /\ Value(SecondOf(e), z) # Failure =>
              \A g \in Generators : Value(SecondOf(e), z)[g] = Second(e, z.v, z.r2)[g] % Q
<1> DEFINE v == z["v"]  r == z["r2"]  left == Mul(AssetOf(e), v)  right == Mul(Generator("H"), r)
<1>1. /\ v \in Scalar /\ r \in Scalar /\ v \in Int /\ r \in Int
      /\ e.abf \in Scalar /\ e.abf \in Int
      /\ "A" \in Generators /\ "H" \in Generators /\ "A" # "H"
  BY OrderIs, PointsAre DEF Scalars, Elements
<1>2. Generator("H") \in Point /\ AssetOf(e) \in Point
  BY <1>1, PointsAre, ElementPoints
<1>3. Value(SecondOf(e), z) = Combine(left, right)
  BY <1>1, <1>2, ValueOfTwo DEF SecondOf
<1>4. AssetOf(e) \in [Generators -> Int]
  BY <1>2, PointsAre DEF Point
<1>5. \A g \in Generators : AssetOf(e)[g] = IF g = "A" THEN 1 ELSE IF g = "H" THEN e.abf ELSE 0
  <2>1. 1 \in Int
    OBVIOUS
  <2>2. \A g \in Generators :
          Pair("A", 1, "H", e.abf)[g] = IF g = "A" THEN 1 ELSE IF g = "H" THEN e.abf ELSE 0
    BY <1>1, <2>1, PairOfCommitment
  <2> QED BY <2>2, ElementPoints
<1>6. left \in Point /\ \A g \in Generators : left[g] = (v * AssetOf(e)[g]) % Q
  BY <1>1, <1>4, MulIs
<1>7. left # Failure <=> v # 0
  <2>1. AssetOf(e) # Failure
    BY <1>1, <1>5, PointsAre
  <2> QED BY <1>1, <1>2, <2>1, MulFailsIf
<1>8. Generator("H") \in [Generators -> Int] /\ Generator("H") # Failure
  BY <1>1, <1>2, PointsAre DEF Point
<1>9. right \in Point /\ \A g \in Generators : right[g] = (r * Generator("H")[g]) % Q
  BY <1>1, <1>8, MulIs
<1>10. right # Failure <=> r # 0
  BY <1>1, <1>2, <1>8, MulFailsIf
<1>11. CASE v = 0 \/ r = 0
  BY <1>3, <1>6, <1>7, <1>9, <1>10, <1>11, CombineIs
<1>12. CASE v # 0 /\ r # 0
  <2>1. /\ Combine(left, right) \in Point
        /\ \A g \in Generators : Combine(left, right)[g] = (left[g] + right[g]) % Q
    BY <1>6, <1>7, <1>9, <1>10, <1>12, CombineIs
  <2>2. ASSUME NEW g \in Generators
        PROVE  (left[g] + right[g]) % Q = Second(e, v, r)[g] % Q
    <3> DEFINE a == v * AssetOf(e)[g]  b == r * Generator("H")[g]
    <3>1. a \in Int /\ b \in Int
      BY <1>1, <1>4, <1>8
    <3>2. left[g] = a % Q /\ right[g] = b % Q
      BY <1>6, <1>9
    <3>3. ((a % Q) + (b % Q)) % Q = (a + b) % Q
      <4> HIDE DEF a, b
      <4>1. b % Q \in Int
        BY <3>1, OrderIs
      <4>2. ((a % Q) + (b % Q)) % Q = (a + (b % Q)) % Q
        BY <3>1, <4>1, ReducedSummand
      <4>3. (a + (b % Q)) % Q = (a + b) % Q
        BY <3>1, ReducedSummand
      <4> QED BY <4>2, <4>3
    <3>4. a + b = Second(e, v, r)[g]
      <4>1. v * e.abf + r \in Int
        BY <1>1
      <4>2. Second(e, v, r)[g] = IF g = "A" THEN v ELSE IF g = "H" THEN v * e.abf + r ELSE 0
        <5> HIDE DEF v, r
        <5> DEFINE y == v * e.abf + r
        <5>1. y \in Int
          BY <4>1
        <5> HIDE DEF y
        <5>2. Pair("A", v, "H", y)[g] = IF g = "A" THEN v ELSE IF g = "H" THEN y ELSE 0
          BY <1>1, <5>1, PairOfCommitment
        <5> QED BY <5>2 DEF y, Second
      <4>3. Generator("H")[g] = IF g = "H" THEN 1 ELSE 0
        BY <1>1, PointsAre
      <4>4. CASE g = "A"
        BY <1>1, <1>5, <4>2, <4>3, <4>4
      <4>5. CASE g = "H"
        BY <1>1, <1>5, <4>2, <4>3, <4>5
      <4>6. CASE g # "A" /\ g # "H"
        BY <1>1, <1>5, <4>2, <4>3, <4>6
      <4> QED BY <4>4, <4>5, <4>6
    <3> QED BY <3>2, <3>3, <3>4
  <2>3. Combine(left, right) # Failure
    <3>1. left["A"] = v /\ right["A"] = 0
      <4>1. v * 1 = v /\ r * 0 = 0 /\ v % Q = v /\ 0 % Q = 0
        <5> HIDE DEF v, r
        <5>1. v * 1 = v /\ r * 0 = 0
          BY <1>1
        <5>2. v % Q = v /\ 0 % Q = 0
          <6>1. v % Q = v
            BY <1>1, ScalarsStay
          <6>2. 0 % Q = 0
            BY OrderIs
          <6> QED BY <6>1, <6>2
        <5> QED BY <5>1, <5>2
      <4>2. AssetOf(e)["A"] = 1 /\ Generator("H")["A"] = 0
        BY <1>1, <1>5, PointsAre
      <4> QED BY <1>1, <1>6, <1>9, <4>1, <4>2
    <3>2. (v + 0) % Q = v
      BY <1>1, ScalarsStay
    <3>3. Combine(left, right)["A"] = v
      BY <1>1, <2>1, <3>1, <3>2
    <3> QED BY <1>1, <1>12, <3>3, PointsAre
  <2> QED BY <1>3, <1>12, <2>1, <2>2, <2>3
<1> QED BY <1>11, <1>12

(* The pair a credential is made of.                                       *)
LEMMA PairOfCredential ==
  ASSUME NEW x \in Int, NEW y \in Int
  PROVE  /\ Pair("Gg", x, "Gh", y) \in [Generators -> Int]
         /\ \A i \in Generators :
              Pair("Gg", x, "Gh", y)[i] = IF i = "Gg" THEN x ELSE IF i = "Gh" THEN y ELSE 0
BY DEF Pair, Failure, Generators

(* Responses to a challenge, one for each scalar.                          *)
RespondsTo(z, k, c, w) == \A n \in {"v", "r1", "r2"} : z[n] = (k[n] + c * w[n]) % Q

(* What has no scalar of zero.                                             *)
NoneIsZero(z) == \A n \in {"v", "r1", "r2"} : z[n] # 0

(* The scalars of an equality proof are numbers.                           *)
LEMMA ScalarsAre ==
  ASSUME NEW z \in Scalars
  PROVE  /\ z["v"] \in Scalar /\ z["r1"] \in Scalar /\ z["r2"] \in Scalar
         /\ z["v"] \in Int /\ z["r1"] \in Int /\ z["r2"] \in Int
BY OrderIs DEF Scalars

(* The first equation holds of the responses exactly if the credential is  *)
(* what the witness opens.                                                 *)
LEMMA FirstIsExact ==
  ASSUME NEW s, s.cred \in Point, s.cred # Failure, NEW c \in Scalar, c # 0,
         NEW w \in Scalars, NEW k \in Scalars, NEW z \in Scalars,
         RespondsTo(z, k, c, w), NoneIsZero(k), z["v"] # 0, z["r1"] # 0
  PROVE  Value(FirstPartOf(s), z) = Combine(Value(FirstPartOf(s), k), Mul(s.cred, c))
           <=> s.cred = Pair("Gg", w["v"], "Gh", w["r1"])
<1> DEFINE a == Pair("Gg", k["v"], "Gh", k["r1"])
           m == Pair("Gg", w["v"], "Gh", w["r1"])
           left == Value(FirstPartOf(s), z)
           made == Value(FirstPartOf(s), k)
<1>1. k["v"] # 0 /\ k["r1"] # 0
  BY DEF NoneIsZero
<1>2. /\ z["v"] \in Int /\ z["r1"] \in Int /\ k["v"] \in Int /\ k["r1"] \in Int
      /\ w["v"] \in Int /\ w["r1"] \in Int /\ c \in Int
      /\ w["v"] \in Scalar /\ w["r1"] \in Scalar /\ k["v"] \in Scalar /\ k["r1"] \in Scalar
  BY ScalarsAre, OrderIs
<1>3. left \in Point /\ left = Pair("Gg", z["v"], "Gh", z["r1"])
  BY FirstValue
<1>4. made \in Point /\ made # Failure /\ made = a
  BY <1>1, FirstValue
<1>5. /\ a \in [Generators -> Int] /\ m \in [Generators -> Int]
      /\ \A g \in Generators : a[g] = IF g = "Gg" THEN k["v"] ELSE IF g = "Gh" THEN k["r1"] ELSE 0
      /\ \A g \in Generators : m[g] = IF g = "Gg" THEN w["v"] ELSE IF g = "Gh" THEN w["r1"] ELSE 0
      /\ \A g \in Generators : left[g] = IF g = "Gg" THEN z["v"] ELSE IF g = "Gh" THEN z["r1"] ELSE 0
  <2>1. \A x, y \in Int : \A g \in Generators :
          Pair("Gg", x, "Gh", y)[g] = IF g = "Gg" THEN x ELSE IF g = "Gh" THEN y ELSE 0
    BY PairOfCredential
  <2>2. a \in [Generators -> Int] /\ m \in [Generators -> Int]
    BY <1>2, PairOfCredential
  <2>3. \A g \in Generators : a[g] = IF g = "Gg" THEN k["v"] ELSE IF g = "Gh" THEN k["r1"] ELSE 0
    BY <1>2, <2>1
  <2>4. \A g \in Generators : m[g] = IF g = "Gg" THEN w["v"] ELSE IF g = "Gh" THEN w["r1"] ELSE 0
    BY <1>2, <2>1
  <2>5. \A g \in Generators : left[g] = IF g = "Gg" THEN z["v"] ELSE IF g = "Gh" THEN z["r1"] ELSE 0
    <3> HIDE DEF left
    <3> QED BY <1>2, <1>3, <2>1
  <2> QED BY <2>2, <2>3, <2>4, <2>5
<1>6. z["v"] = (k["v"] + c * w["v"]) % Q /\ z["r1"] = (k["r1"] + c * w["r1"]) % Q
  BY DEF RespondsTo
<1> HIDE DEF a, m, left, made
<1>7. \A g \in Generators : left[g] = (a[g] + c * m[g]) % Q
  <2>1. (0 + c * 0) % Q = 0
    BY <1>2, OrderIs
  <2>2. ASSUME NEW g \in Generators
        PROVE  left[g] = (a[g] + c * m[g]) % Q
    <3>1. CASE g = "Gg"
      BY <1>5, <1>6, <3>1
    <3>2. CASE g = "Gh"
      BY <1>5, <1>6, <3>2
    <3>3. CASE g # "Gg" /\ g # "Gh"
      <4>1. left[g] = 0 /\ a[g] = 0 /\ m[g] = 0
        BY <1>5, <3>3
      <4> QED BY <2>1, <4>1
    <3> QED BY <3>1, <3>2, <3>3
  <2> QED BY <2>2
<1>8. \A g \in Generators : made[g] = a[g] % Q
  <2>1. \A g \in Generators : a[g] \in Scalar
    BY <1>2, <1>5, OrderIs
  <2> QED BY <1>4, <1>5, <2>1, ScalarsStay
<1>9. left = Combine(made, Mul(s.cred, c)) <=> \A g \in Generators : (m[g] - s.cred[g]) % Q = 0
  BY <1>3, <1>4, <1>5, <1>7, <1>8, EquationIsExact
<1>10. ASSUME NEW g \in Generators
       PROVE  ((m[g] - s.cred[g]) % Q = 0) <=> (s.cred[g] = m[g])
  <2>1. m[g] \in Scalar /\ s.cred[g] \in Scalar /\ m[g] \in Int /\ s.cred[g] \in Int
    <3>1. 0 \in Scalar /\ w["v"] \in Scalar /\ w["r1"] \in Scalar
      BY <1>2, OrderIs
    <3>2. m[g] \in Scalar
      BY <1>5, <3>1
    <3>3. s.cred[g] \in Scalar
      BY PointsAre
    <3>4. \A x \in Scalar : x \in Int
      BY OrderIs
    <3> QED BY <3>2, <3>3, <3>4
  <2>2. m[g] % Q = m[g] /\ s.cred[g] % Q = s.cred[g]
    BY <2>1, ScalarsStay
  <2> QED BY <2>1, <2>2, Congruent
<1>11. s.cred = m <=> \A g \in Generators : s.cred[g] = m[g]
  BY <1>5 DEF Point
<1> QED BY <1>9, <1>10, <1>11 DEF left, made, m

(* The second, exactly if the commitment of the element is.                *)
LEMMA SecondIsExact ==
  ASSUME NEW e \in Elements, Commitment(e) # Failure, NEW c \in Scalar, c # 0,
         NEW w \in Scalars, NEW k \in Scalars, NEW z \in Scalars,
         RespondsTo(z, k, c, w), NoneIsZero(k), z["v"] # 0, z["r2"] # 0
  PROVE  Value(SecondOf(e), z) = Combine(Value(SecondOf(e), k), Mul(Commitment(e), c))
           <=> w["v"] = e.value /\ (w["r2"] + w["v"] * e.abf - e.bf) % Q = 0
<1> DEFINE a == Second(e, k["v"], k["r2"])
           m == Second(e, w["v"], w["r2"])
           left == Value(SecondOf(e), z)
           made == Value(SecondOf(e), k)
           p == Commitment(e)
<1>1. k["v"] # 0 /\ k["r2"] # 0
  BY DEF NoneIsZero
<1>2. /\ z["v"] \in Int /\ z["r2"] \in Int /\ k["v"] \in Int /\ k["r2"] \in Int
      /\ w["v"] \in Int /\ w["r2"] \in Int /\ c \in Int
      /\ w["v"] \in Scalar /\ k["v"] \in Scalar
  BY ScalarsAre, OrderIs
<1>3. /\ e.abf \in Int /\ e.bf \in Int /\ e.value \in Int /\ e.value \in Scalar
  BY OrderIs DEF Elements
<1>4. ASSUME NEW x \in Int, NEW y \in Int
      PROVE  /\ Second(e, x, y) \in [Generators -> Int] /\ x * e.abf + y \in Int
             /\ \A g \in Generators :
                  Second(e, x, y)[g] = IF g = "A" THEN x ELSE IF g = "H" THEN x * e.abf + y ELSE 0
  <2> DEFINE v == x * e.abf + y
  <2>1. v \in Int
    BY <1>3
  <2> HIDE DEF v
  <2> QED BY <2>1, PairOfCommitment DEF Second, v
<1>5. left \in Point /\ \A g \in Generators : left[g] = Second(e, z["v"], z["r2"])[g] % Q
  BY SecondValue
<1>6. made \in Point /\ made # Failure /\ \A g \in Generators : made[g] = a[g] % Q
  BY <1>1, SecondValue
<1>7. /\ p \in Point
      /\ \A g \in Generators : p[g] = IF g = "A" THEN e.value ELSE IF g = "H" THEN e.bf ELSE 0
  <2>1. p \in Point /\ p = Pair("A", e.value, "H", e.bf)
    BY ElementPoints
  <2>2. \A x, y \in Int : \A g \in Generators :
          Pair("A", x, "H", y)[g] = IF g = "A" THEN x ELSE IF g = "H" THEN y ELSE 0
    BY PairOfCommitment
  <2> HIDE DEF p
  <2> QED BY <1>3, <2>1, <2>2
<1>8. z["v"] = (k["v"] + c * w["v"]) % Q /\ z["r2"] = (k["r2"] + c * w["r2"]) % Q
  BY DEF RespondsTo
<1>9. a \in [Generators -> Int] /\ m \in [Generators -> Int]
  BY <1>2, <1>4
<1>10. ASSUME NEW g \in Generators
       PROVE  left[g] = (a[g] + c * m[g]) % Q
  <2>1. CASE g = "A"
    <3>1. left[g] = z["v"] % Q /\ a[g] = k["v"] /\ m[g] = w["v"]
      BY <1>2, <1>4, <1>5, <2>1
    <3>2. z["v"] % Q = z["v"]
      BY ScalarsAre, ScalarsStay
    <3> QED BY <1>8, <3>1, <3>2
  <2>2. CASE g = "H"
    <3> DEFINE kv == k["v"]  kr == k["r2"]  wv == w["v"]  wr == w["r2"]  zv == z["v"]  zr == z["r2"]
               b == e.abf
    <3>1. /\ left[g] = (zv * b + zr) % Q /\ a[g] = kv * b + kr /\ m[g] = wv * b + wr
      <4>1. \A x, y \in Int : Second(e, x, y)[g] = x * b + y
        BY <1>4, <2>2
      <4>2. left[g] = Second(e, zv, zr)[g] % Q
        BY <1>5
      <4> QED BY <1>2, <4>1, <4>2
    <3>2. kv \in Int /\ kr \in Int /\ wv \in Int /\ wr \in Int /\ b \in Int
      BY <1>2, <1>3
    <3>3. zv = (kv + c * wv) % Q /\ zr = (kr + c * wr) % Q
      BY <1>8
    <3> HIDE DEF kv, kr, wv, wr, zv, zr, b
    <3> DEFINE x == kv + c * wv  y == kr + c * wr
    <3>4. x \in Int /\ y \in Int /\ x * b \in Int
      BY <1>2, <3>2
    <3>5. x * b + y = (kv * b + kr) + c * (wv * b + wr)
      BY <1>2, <3>2
    <3>6. zv = x % Q /\ zr = y % Q
      BY <3>3
    <3> HIDE DEF x, y
    <3>7. (zv * b + zr) % Q = (x * b + y) % Q
      <4> DEFINE u == zv * b  t == x * b
      <4>1. u \in Int /\ t \in Int /\ u % Q = t % Q /\ zr \in Int
        <5>1. zv \in Int /\ zr \in Int
          BY <3>4, <3>6, OrderIs
        <5>2. u \in Int /\ t \in Int
          BY <3>2, <3>4, <5>1
        <5>3. ((x % Q) * b) % Q = (x * b) % Q
          BY <3>2, <3>4, ReducedFactor
        <5> QED BY <3>6, <5>1, <5>2, <5>3
      <4> HIDE DEF u, t
      <4>2. (u + zr) % Q = (u + y) % Q
        BY <3>4, <3>6, <4>1, ReducedSummand
      <4>3. (u + y) % Q = (t + y) % Q
        <5>1. ((u % Q) + y) % Q = (u + y) % Q
          BY <3>4, <4>1, ReducedSummand
        <5>2. ((t % Q) + y) % Q = (t + y) % Q
          BY <3>4, <4>1, ReducedSummand
        <5> QED BY <4>1, <5>1, <5>2
      <4> QED BY <4>2, <4>3 DEF u, t
    <3> QED BY <3>1, <3>5, <3>7
  <2>3. CASE g # "A" /\ g # "H"
    <3>1. left[g] = 0 % Q /\ a[g] = 0 /\ m[g] = 0
      BY <1>2, <1>4, <1>5, <2>3
    <3>2. (0 + c * 0) % Q = 0 % Q
      BY <1>2
    <3> QED BY <3>1, <3>2
  <2> QED BY <2>1, <2>2, <2>3
<1>11. left = Combine(made, Mul(p, c)) <=> \A g \in Generators : (m[g] - p[g]) % Q = 0
  <2> HIDE DEF a, m, left, made, p
  <2> QED BY <1>5, <1>6, <1>7, <1>9, <1>10, EquationIsExact DEF p
<1>12. ((m["A"] - p["A"]) % Q = 0) <=> w["v"] = e.value
  <2>1. m["A"] = w["v"] /\ p["A"] = e.value
    BY <1>2, <1>4, <1>7, PointsAre
  <2>2. w["v"] % Q = w["v"] /\ e.value % Q = e.value
    BY <1>2, <1>3, ScalarsStay
  <2>3. (w["v"] % Q = e.value % Q) <=> ((w["v"] - e.value) % Q = 0)
    BY <1>2, <1>3, Congruent
  <2> QED BY <2>1, <2>2, <2>3
<1>13. m["H"] - p["H"] = w["r2"] + w["v"] * e.abf - e.bf
  <2>1. m["H"] = w["v"] * e.abf + w["r2"] /\ p["H"] = e.bf
    BY <1>2, <1>4, <1>7, PointsAre
  <2>2. \A x, y, t \in Int : (x + y) - t = y + x - t
    OBVIOUS
  <2>3. w["v"] * e.abf \in Int
    BY <1>2, <1>3
  <2> QED BY <1>2, <1>3, <2>1, <2>2, <2>3
<1>14. \A g \in Generators : g # "A" /\ g # "H" => (m[g] - p[g]) % Q = 0
  <2>1. 0 % Q = 0 /\ 0 - 0 = 0
    BY OrderIs
  <2> QED BY <1>2, <1>4, <1>7, <2>1
<1>15. (\A g \in Generators : (m[g] - p[g]) % Q = 0)
         <=> w["v"] = e.value /\ (w["r2"] + w["v"] * e.abf - e.bf) % Q = 0
  <2> HIDE DEF m, p
  <2> QED BY <1>12, <1>13, <1>14, PointsAre
<1> QED BY <1>11, <1>15

(* What either prover made answers a challenge.                            *)
LEMMA MadeIs ==
  ASSUME NEW s \in Subjects, s.ctx.kind # "balance", Statement(s) # << >>,
         NEW w \in [Names(s) -> Witnesses], NEW k \in [Names(s) -> Nonces], NEW c \in Scalar
  PROVE  LET proof == Made(s, w, k, c) IN
         /\ w \in Scalars /\ k \in Scalars /\ NoneIsZero(k)
         /\ proof.responses \in Scalars /\ RespondsTo(proof.responses, k, c, w)
         /\ proof.commitments = <<Value(FirstPartOf(s), k), Value(SecondOf(Element(s)), k)>>
         /\ 0 \notin Range(proof.responses) <=> NoneIsZero(proof.responses)
<1> DEFINE z == Responses(k, c, w)
<1>1. Names(s) = {"v", "r1", "r2"} /\ DOMAIN k = {"v", "r1", "r2"}
  BY DEF Names
<1>2. w \in Scalars /\ k \in Scalars /\ NoneIsZero(k)
  BY <1>1, RegistrationAssumption DEF Scalars, NoneIsZero
<1>3. z = [n \in {"v", "r1", "r2"} |-> (k[n] + c * w[n]) % Q]
  BY <1>1 DEF Responses
<1>4. ASSUME NEW n \in {"v", "r1", "r2"}
      PROVE  (k[n] + c * w[n]) % Q \in Scalar
  <2>1. k[n] \in Int /\ w[n] \in Int /\ c \in Int
    BY <1>2, OrderIs DEF Scalars
  <2>2. k[n] + c * w[n] \in Int
    BY <2>1
  <2> QED BY <2>2, ScalarsStay
<1>5. z \in Scalars /\ RespondsTo(z, k, c, w)
  BY <1>3, <1>4 DEF Scalars, RespondsTo
<1>6. 0 \notin Range(z) <=> NoneIsZero(z)
  BY <1>3 DEF Range, NoneIsZero
<1>7. Commitments(Statement(s), k) = <<Value(FirstPartOf(s), k), Value(SecondOf(Element(s)), k)>>
  <2>1. /\ DOMAIN Statement(s) = {1, 2}
        /\ Statement(s)[1] = FirstPartOf(s) /\ Statement(s)[2] = SecondOf(Element(s))
    BY EqualityIs
  <2>2. Commitments(Statement(s), k) = [i \in 1..2 |-> Value(Statement(s)[i], k)]
    BY <2>1 DEF Commitments
  <2> QED BY <2>1, <2>2
<1>8. Made(s, w, k, c) = [commitments |-> Commitments(Statement(s), k), responses |-> z]
  BY DEF Made
<1> HIDE DEF z
<1> QED BY <1>2, <1>5, <1>6, <1>7, <1>8

(* Verification of an equality, equation by equation.                      *)
LEMMA EqualityVerifies ==
  ASSUME NEW s \in Subjects, s.ctx.kind # "balance", Statement(s) # << >>, NEW proof, NEW c
  PROVE  Verifies(Statement(s), proof, c) <=>
           LET e == Element(s) IN
           /\ Value(FirstPartOf(s), proof.responses) # Failure
           /\ Value(SecondOf(e), proof.responses) # Failure
           /\ Value(FirstPartOf(s), proof.responses)
                = Combine(proof.commitments[1], Mul(s.cred, c))
           /\ Value(SecondOf(e), proof.responses)
                = Combine(proof.commitments[2], Mul(Commitment(e), c))
<1>1. /\ DOMAIN Statement(s) = {1, 2}
      /\ Statement(s)[1] = FirstPartOf(s) /\ Statement(s)[2] = SecondOf(Element(s))
  BY EqualityIs
<1>2. FirstPartOf(s).of = s.cred /\ SecondOf(Element(s)).of = Commitment(Element(s))
  BY DEF FirstPartOf, SecondOf
<1> QED BY <1>1, <1>2 DEF Verifies

(* The proof of an equality is accepted exactly with the right witness.    *)
LEMMA EqualityIsExact ==
  ASSUME NEW s \in Subjects, s.ctx.kind # "balance", Statement(s) # << >>,
         NEW w \in [Names(s) -> Witnesses], NEW k \in [Names(s) -> Nonces],
         NEW c \in Scalar, c # 0
  PROVE  LET proof == Made(s, w, k, c) IN
         Verifies(Statement(s), proof, c) <=> Opens(s, w) /\ 0 \notin Range(proof.responses)
<1> DEFINE proof == Made(s, w, k, c)
           z == proof.responses
           e == Element(s)
<1>1. /\ w \in Scalars /\ k \in Scalars /\ NoneIsZero(k) /\ z \in Scalars /\ RespondsTo(z, k, c, w)
      /\ proof.commitments = <<Value(FirstPartOf(s), k), Value(SecondOf(e), k)>>
      /\ 0 \notin Range(z) <=> NoneIsZero(z)
  BY MadeIs
<1>2. proof.commitments[1] = Value(FirstPartOf(s), k) /\ proof.commitments[2] = Value(SecondOf(e), k)
  BY <1>1
<1>3. /\ e \in Elements /\ Commitment(e) # Failure /\ s.cred \in Point /\ s.cred # Failure
  BY EqualityIs, RegistrationsAre
<1>4. Opens(s, w) <=> /\ s.cred = Pair("Gg", w["v"], "Gh", w["r1"])
                      /\ w["v"] = e.value
                      /\ (w["r2"] + w["v"] * e.abf - e.bf) % Q = 0
  BY DEF Opens, Pair
<1> HIDE DEF proof, z, e
<1>5. Value(FirstPartOf(s), z) # Failure <=> z["v"] # 0 /\ z["r1"] # 0
  BY <1>1, FirstValue
<1>6. Value(SecondOf(e), z) # Failure <=> z["v"] # 0 /\ z["r2"] # 0
  BY <1>1, <1>3, SecondValue
<1>7. NoneIsZero(z) <=> z["v"] # 0 /\ z["r1"] # 0 /\ z["r2"] # 0
  BY DEF NoneIsZero
<1>8. (z["v"] # 0 /\ z["r1"] # 0) =>
        (Value(FirstPartOf(s), z) = Combine(Value(FirstPartOf(s), k), Mul(s.cred, c))
           <=> s.cred = Pair("Gg", w["v"], "Gh", w["r1"]))
  BY <1>1, <1>3, FirstIsExact
<1>9. (z["v"] # 0 /\ z["r2"] # 0) =>
        (Value(SecondOf(e), z) = Combine(Value(SecondOf(e), k), Mul(Commitment(e), c))
           <=> w["v"] = e.value /\ (w["r2"] + w["v"] * e.abf - e.bf) % Q = 0)
  BY <1>1, <1>3, SecondIsExact
<1>10. Verifies(Statement(s), proof, c) <=>
         /\ Value(FirstPartOf(s), z) # Failure /\ Value(SecondOf(e), z) # Failure
         /\ Value(FirstPartOf(s), z) = Combine(Value(FirstPartOf(s), k), Mul(s.cred, c))
         /\ Value(SecondOf(e), z) = Combine(Value(SecondOf(e), k), Mul(Commitment(e), c))
  BY <1>2, EqualityVerifies DEF z, e
<1>11. Verifies(Statement(s), proof, c) <=> Opens(s, w) /\ NoneIsZero(z)
  BY <1>4, <1>5, <1>6, <1>7, <1>8, <1>9, <1>10
<1>12. 0 \notin Range(z) <=> NoneIsZero(z)
  BY <1>1
<1> QED BY <1>11, <1>12 DEF proof, z

-----------------------------------------------------------------------------
(* Balances.                                                               *)

(* What an element adds to a sum: its value of the asset.                  *)
LEMMA AmountIs ==
  ASSUME NEW e \in Elements
  PROVE  Amount(e) \in Point /\ Amount(e)["A"] = e.value /\ e.value \in Int
<1>1. /\ e.value \in Scalar /\ e.value \in Int /\ e.bf \in Int /\ e.blinded \in BOOLEAN
      /\ "A" \in Generators
  BY OrderIs, PointsAre DEF Elements
<1>2. CASE e.blinded
  <2>1. Pair("A", e.value, "H", e.bf)["A"] = e.value
    BY <1>1, PairOfCommitment
  <2> QED BY <1>1, <1>2, <2>1, ElementPoints DEF Amount
<1>3. CASE ~ e.blinded
  <2>1. Generator("A") \in [Generators -> Int] /\ Generator("A")["A"] = 1
    BY <1>1, PointsAre DEF Point
  <2>2. /\ Mul(Generator("A"), e.value) \in Point
        /\ Mul(Generator("A"), e.value)["A"] = (e.value * Generator("A")["A"]) % Q
    BY <1>1, <2>1, MulIs
  <2>3. e.value * 1 = e.value /\ e.value % Q = e.value
    BY <1>1, ScalarsStay
  <2> QED BY <1>1, <1>3, <2>1, <2>2, <2>3 DEF Amount
<1> QED BY <1>1, <1>2, <1>3

(* Of several: together what they are worth.                               *)
LEMMA AmountsAre ==
  ASSUME NEW es \in Seq(Elements), NEW f, \A i \in 1..Len(es) : f[i] = Amounts(es)[i]["A"]
  PROVE  /\ Amounts(es) \in Seq(Point) /\ Len(Amounts(es)) = Len(es)
         /\ Worth(es) \in Int
         /\ SumFunctionOnSet(f, 1..Len(es)) = Worth(es)
<1> DEFINE n == Len(es)
           g == [i \in DOMAIN es |-> es[i].value]
<1>1. n \in Nat /\ DOMAIN es = 1..n /\ \A i \in 1..n : es[i] \in Elements
  OBVIOUS
<1>2. Amounts(es) \in Seq(Point) /\ Len(Amounts(es)) = n
  <2>1. Amounts(es) = [i \in 1..n |-> Amount(es[i])]
    BY <1>1 DEF Amounts
  <2>2. \A i \in 1..n : Amount(es[i]) \in Point
    BY <1>1, AmountIs
  <2> QED BY <1>1, <2>1, <2>2
<1>3. \A i \in 1..n : g[i] \in Int /\ f[i] \in Int /\ f[i] = g[i]
  <2>1. ASSUME NEW i \in 1..n
        PROVE  es[i].value \in Int /\ f[i] = es[i].value
    <3>1. Amounts(es)[i] = Amount(es[i])
      BY <1>1 DEF Amounts
    <3> QED BY <1>1, <3>1, AmountIs
  <2> QED BY <1>1, <2>1
<1>4. IsFiniteSet(1..n)
  <2>1. 1 \in Int /\ n \in Int
    BY <1>1
  <2> QED BY <2>1, FS_Interval
<1>5. Worth(es) = SumFunctionOnSet(g, 1..n)
  BY <1>1 DEF Worth
<1> HIDE DEF g, n
<1>6. SumFunctionOnSet(g, 1..n) \in Int /\ SumFunctionOnSet(f, 1..n) = SumFunctionOnSet(g, 1..n)
  <2>1. SumFunctionOnSet(g, 1..n) \in Int
    BY <1>3, <1>4, SumWithElement
  <2>2. \A i \in 1..n : f[i] \in Int /\ f[i] = g[i]
    BY <1>3
  <2>3. SumFunctionOnSet(f, 1..n) = SumFunctionOnSet(g, 1..n)
    BY <1>4, <2>2, SumOfEquals
  <2> QED BY <2>1, <2>3
<1> QED BY <1>2, <1>5, <1>6 DEF n

(* The list a balance names.                                               *)
LEMMA BalancesAre ==
  ASSUME NEW s \in Subjects, s.ctx.kind = "balance"
  PROVE  /\ Ins(s) \in Seq(Elements) /\ Outs(s) \in Seq(Elements)
         /\ s.ctx.fee \in Nat
<1>1. s \in [pset : Revisions, ctx : BalanceContexts, cred : {None}]
  BY DEF Subjects, RegistrationContexts
<1>2. s.pset \in Revisions /\ s.ctx.ins \in IndexLists /\ s.ctx.outs \in IndexLists /\ s.ctx.fee \in Fees
  BY <1>1 DEF BalanceContexts
<1>3. s.pset.inputs \in Seq(Elements) /\ s.pset.outputs \in Seq(Elements)
  BY <1>2, RegistrationAssumption
<1>4. ASSUME NEW list \in IndexLists
      PROVE  /\ list \in Seq(Nat)
             /\ \A i \in DOMAIN list : list[i] \in DOMAIN s.pset.inputs /\ list[i] \in DOMAIN s.pset.outputs
  <2>1. list \in Seq(Nat) /\ Range(list) \subseteq DOMAIN s.pset.inputs \cap DOMAIN s.pset.outputs
    BY <1>2, RegistrationAssumption
  <2>2. \A i \in DOMAIN list : list[i] \in Range(list)
    BY DEF Range
  <2> QED BY <2>1, <2>2
<1>5. Ins(s) \in Seq(Elements)
  <2> DEFINE list == s.ctx.ins
  <2>1. list \in Seq(Nat) /\ \A i \in DOMAIN list : s.pset.inputs[list[i]] \in Elements
    BY <1>2, <1>3, <1>4
  <2>2. Ins(s) = [i \in 1..Len(list) |-> s.pset.inputs[list[i]]]
    BY <2>1 DEF Ins
  <2> QED BY <2>1, <2>2
<1>6. Outs(s) \in Seq(Elements)
  <2> DEFINE list == s.ctx.outs
  <2>1. list \in Seq(Nat) /\ \A i \in DOMAIN list : s.pset.outputs[list[i]] \in Elements
    BY <1>2, <1>3, <1>4
  <2>2. Outs(s) = [i \in 1..Len(list) |-> s.pset.outputs[list[i]]]
    BY <2>1 DEF Outs
  <2> QED BY <2>1, <2>2
<1> QED BY <1>2, <1>5, <1>6, RegistrationAssumption

(* The outputs and the fee together.                                       *)
LEMMA SpentIs ==
  ASSUME NEW es \in Seq(Elements), NEW fee \in Nat
  PROVE  LET spent == Total(Append(Amounts(es), Mul(Generator("A"), fee))) IN
         /\ spent \in Point
         /\ spent # Failure => spent["A"] = (Worth(es) + fee) % Q
<1> DEFINE point == Mul(Generator("A"), fee)
           n == Len(es)
           l == Append(Amounts(es), point)
           f == [i \in 1..(n + 1) |-> l[i]["A"]]
<1>1. "A" \in Generators /\ n \in Nat
  BY PointsAre
<1>2. point \in Point /\ point["A"] = fee % Q
  <2>1. Generator("A") \in [Generators -> Int] /\ Generator("A")["A"] = 1 /\ fee \in Int
    BY <1>1, PointsAre DEF Point
  <2>2. point \in Point /\ point["A"] = (fee * Generator("A")["A"]) % Q
    BY <1>1, <2>1, MulIs
  <2>3. fee * 1 = fee
    BY <2>1
  <2> QED BY <2>1, <2>2, <2>3
<1>3. Amounts(es) \in Seq(Point) /\ Len(Amounts(es)) = n
  <2> DEFINE h == [i \in 1..Len(es) |-> Amounts(es)[i]["A"]]
  <2>1. \A i \in 1..Len(es) : h[i] = Amounts(es)[i]["A"]
    OBVIOUS
  <2> HIDE DEF h
  <2> QED BY <2>1, AmountsAre
<1> HIDE DEF point
<1>4. l \in Seq(Point) /\ Len(l) = n + 1 /\ l[n + 1] = point /\ \A i \in 1..n : l[i] = Amounts(es)[i]
  BY <1>1, <1>2, <1>3
<1> HIDE DEF l
<1>5. \A i \in 1..Len(es) : f[i] = Amounts(es)[i]["A"]
  BY <1>1, <1>4
<1>6. f[n + 1] = fee % Q /\ \A i \in 1..(n + 1) : f[i] \in Int
  <2>1. n + 1 \in 1..(n + 1)
    BY <1>1
  <2> QED BY <1>1, <1>2, <1>4, <2>1, PointsAre
<1>7. f = [i \in 1..Len(l) |-> l[i]["A"]]
  BY <1>4
<1> HIDE DEF f
<1>8. Worth(es) \in Int /\ SumFunctionOnSet(f, 1..n) = Worth(es)
  BY <1>5, AmountsAre
<1>9. SumFunctionOnSet(f, 1..(n + 1)) = (fee % Q) + Worth(es)
  <2> DEFINE S == 1..n  x == n + 1
  <2>1. IsFiniteSet(S) /\ x \notin S /\ S \cup {x} = 1..(n + 1)
    <3>1. 1 \in Int /\ n \in Int
      BY <1>1
    <3>2. IsFiniteSet(S)
      BY <3>1, FS_Interval
    <3> QED BY <1>1, <3>2
  <2>2. \A y \in S \cup {x} : f[y] \in Int
    BY <1>6, <2>1
  <2>3. f[x] = fee % Q /\ SumFunctionOnSet(f, S) = Worth(es)
    BY <1>6, <1>8
  <2> HIDE DEF S, x
  <2>4. SumFunctionOnSet(f, S \cup {x}) = f[x] + SumFunctionOnSet(f, S)
    BY <2>1, <2>2, SumGrows
  <2> QED BY <2>1, <2>3, <2>4
<1>10. Total(l) \in Point /\ (Total(l) # Failure =>
          Total(l)["A"] = SumFunctionOnSet([i \in 1..Len(l) |-> l[i]["A"]], 1..Len(l)) % Q)
  BY <1>1, <1>4, TotalIs
<1>11. ((fee % Q) + Worth(es)) % Q = (Worth(es) + fee) % Q
  <2> DEFINE w == Worth(es)
  <2>1. w \in Int /\ fee \in Int
    BY <1>8
  <2> HIDE DEF w
  <2>2. ((fee % Q) + w) % Q = (fee + w) % Q /\ fee + w = w + fee
    BY <2>1, ReducedSummand
  <2> QED BY <2>2 DEF w
<1> QED BY <1>4, <1>7, <1>9, <1>10, <1>11 DEF l, point

(* Taking a point off: the negative of a failure is none.                  *)
LEMMA NegativeIs ==
  ASSUME NEW p \in Point
  PROVE  /\ Mul(p, -1) \in Point
         /\ p = Failure => Mul(p, -1) = Failure
         /\ \A x \in Int : p["A"] = x % Q => Mul(p, -1)["A"] = (0 - x) % Q
<1>1. p \in [Generators -> Int] /\ -1 \in Int /\ "A" \in Generators /\ p["A"] \in Int
  BY PointsAre DEF Point
<1>2. Mul(p, -1) \in Point /\ \A g \in Generators : Mul(p, -1)[g] = ((-1) * p[g]) % Q
  BY <1>1, MulIs
<1>3. ASSUME p = Failure
      PROVE  Mul(p, -1) = Failure
  <2>1. \A g \in Generators : p[g] = 0
    BY <1>3, PointsAre
  <2>2. ((-1) * 0) % Q = 0
    BY OrderIs
  <2> QED BY <1>2, <2>1, <2>2, FailsIf
<1>4. ASSUME NEW x \in Int, p["A"] = x % Q
      PROVE  Mul(p, -1)["A"] = (0 - x) % Q
  <2>1. ((-1) * (x % Q)) % Q = ((-1) * x) % Q
    BY <1>1, ReducedFactor
  <2>2. (-1) * x = 0 - x
    OBVIOUS
  <2> QED BY <1>1, <1>2, <1>4, <2>1, <2>2
<1> QED BY <1>2, <1>3, <1>4

(* What is left over: the inputs less the outputs less the fee.            *)
LEMMA ResidualIs ==
  ASSUME NEW s \in Subjects, s.ctx.kind = "balance"
  PROVE  /\ Residual(s) \in Point
         /\ Residual(s) # Failure =>
              Residual(s)["A"] = (Worth(Ins(s)) - Worth(Outs(s)) - s.ctx.fee) % Q
<1> DEFINE fee == s.ctx.fee
           spent == Total(Append(Amounts(Outs(s)), Mul(Generator("A"), fee)))
           negative == Mul(spent, -1)
           gained == Total(Amounts(Ins(s)))
           wi == Worth(Ins(s))
           wo == Worth(Outs(s))
<1>1. Ins(s) \in Seq(Elements) /\ Outs(s) \in Seq(Elements) /\ fee \in Nat /\ "A" \in Generators
  BY BalancesAre, PointsAre
<1>2. spent \in Point /\ (spent # Failure => spent["A"] = (wo + fee) % Q)
  BY <1>1, SpentIs
<1>3. ASSUME NEW es \in Seq(Elements)
      PROVE  /\ Amounts(es) \in Seq(Point) /\ Len(Amounts(es)) = Len(es)
             /\ Worth(es) \in Int
             /\ SumFunctionOnSet([i \in 1..Len(Amounts(es)) |-> Amounts(es)[i]["A"]],
                                 1..Len(Amounts(es))) = Worth(es)
  <2> DEFINE h == [i \in 1..Len(es) |-> Amounts(es)[i]["A"]]
  <2>1. \A i \in 1..Len(es) : h[i] = Amounts(es)[i]["A"]
    OBVIOUS
  <2> HIDE DEF h
  <2>2. /\ Amounts(es) \in Seq(Point) /\ Len(Amounts(es)) = Len(es)
        /\ Worth(es) \in Int
        /\ SumFunctionOnSet(h, 1..Len(es)) = Worth(es)
    BY <2>1, AmountsAre
  <2> QED BY <2>2 DEF h
<1>4. wi \in Int /\ wo \in Int /\ wo + fee \in Int
  <2>1. Worth(Ins(s)) \in Int /\ Worth(Outs(s)) \in Int
    BY <1>1, <1>3
  <2> HIDE DEF fee
  <2> QED BY <1>1, <2>1
<1>5. gained \in Point /\ (gained # Failure => gained["A"] = wi % Q)
  <2>1. Amounts(Ins(s)) \in Seq(Point)
    BY <1>1, <1>3
  <2>2. gained \in Point /\ (gained # Failure =>
          gained["A"] = SumFunctionOnSet([i \in 1..Len(Amounts(Ins(s))) |-> Amounts(Ins(s))[i]["A"]],
                                         1..Len(Amounts(Ins(s)))) % Q)
    BY <1>1, <2>1, TotalIs
  <2> QED BY <1>1, <1>3, <2>2
<1>6. /\ negative \in Point /\ (spent = Failure => negative = Failure)
      /\ spent # Failure => negative["A"] = (0 - (wo + fee)) % Q
  <2> HIDE DEF spent, wo, fee
  <2> QED BY <1>2, <1>4, NegativeIs
<1>7. Ins(s) = << >> => wi = 0
  <2>1. ASSUME Ins(s) = << >>
        PROVE  wi = 0
    <3>1. wi = SumFunctionOnSet([i \in DOMAIN << >> |-> << >>[i].value], DOMAIN << >>)
      BY <2>1 DEF Worth
    <3>2. DOMAIN << >> = {}
      OBVIOUS
    <3> QED BY <3>1, <3>2, SumOfNothing
  <2> QED BY <2>1
<1>8. Residual(s) = IF Ins(s) = << >> THEN negative ELSE Combine(gained, negative)
  BY DEF Residual
<1> HIDE DEF spent, negative, gained, wi, wo, fee
<1>9. wi - wo - fee = wi + (0 - (wo + fee)) /\ 0 - (wo + fee) \in Int /\ (0 - (wo + fee)) % Q \in Int
  <2>1. wi \in Int /\ wo \in Int /\ fee \in Int
    BY <1>1, <1>4
  <2>2. wi - wo - fee = wi + (0 - (wo + fee)) /\ 0 - (wo + fee) \in Int
    BY ONLY <2>1
  <2>3. \A x \in Int : x % Q \in Int
    BY ONLY OrderIs
  <2> QED BY <2>2, <2>3
<1>10. CASE Ins(s) = << >>
  <2>1. 0 + (0 - (wo + fee)) = 0 - (wo + fee)
    BY <1>9
  <2> QED BY <1>6, <1>7, <1>8, <1>9, <1>10, <2>1 DEF wi, wo, fee
<1>11. CASE Ins(s) # << >>
  <2>1. Residual(s) = Combine(gained, negative) /\ Combine(gained, negative) \in Point
    BY <1>5, <1>6, <1>8, <1>11, CombineIs
  <2>2. ASSUME Residual(s) # Failure
        PROVE  Residual(s)["A"] = (wi - wo - fee) % Q
    <3>1. gained # Failure /\ negative # Failure /\ spent # Failure
      BY <1>5, <1>6, <2>1, <2>2, CombineIs
    <3>2. Residual(s)["A"] = (gained["A"] + negative["A"]) % Q
      BY <1>1, <1>5, <1>6, <2>1, <3>1, CombineIs
    <3> DEFINE y == 0 - (wo + fee)
    <3>3. gained["A"] = wi % Q /\ negative["A"] = y % Q
      BY <1>5, <1>6, <3>1
    <3>4. y \in Int /\ y % Q \in Int /\ wi - wo - fee = wi + y
      BY <1>9
    <3> HIDE DEF y
    <3>5. ((wi % Q) + (y % Q)) % Q = (wi + (y % Q)) % Q
      BY <1>4, <3>4, ReducedSummand
    <3>6. (wi + (y % Q)) % Q = (wi + y) % Q
      BY <1>4, <3>4, ReducedSummand
    <3> QED BY <3>2, <3>3, <3>4, <3>5, <3>6
  <2> QED BY <2>1, <2>2 DEF wi, wo, fee
<1> QED BY <1>10, <1>11

(* The statement of a balance is one equation.                             *)
LEMMA BalanceIs ==
  ASSUME NEW s \in Subjects, s.ctx.kind = "balance", Statement(s) # << >>
  PROVE  /\ Residual(s) \in Point /\ Residual(s) # Failure
         /\ DOMAIN Statement(s) = {1} /\ Len(Statement(s)) = 1 /\ Statement(s)[1].of = Residual(s)
         /\ \A z : z["dr"] \in Int =>
              Value(Statement(s)[1], z) = Mul(Generator("H"), z["dr"])
<1> DEFINE e == [of |-> Residual(s), on |-> <<Generator("H")>>, by |-> <<"dr">>]
<1>1. Statement(s) = <<e>> /\ Residual(s) # Failure
  BY DEF Statement, Balance
<1>2. Generator("H") \in Point
  BY PointsAre
<1>3. \A z : z["dr"] \in Int => Value(e, z) = Mul(Generator("H"), z["dr"])
  BY <1>2, ValueOfOne
<1>4. DOMAIN Statement(s) = {1} /\ Len(Statement(s)) = 1 /\ Statement(s)[1] = e
  BY <1>1
<1>5. e.of = Residual(s)
  OBVIOUS
<1> HIDE DEF e
<1> QED BY <1>1, <1>3, <1>4, <1>5, ResidualIs

(* Multiples of the generator of blinding.                                 *)
LEMMA BlindingOnly ==
  ASSUME NEW x \in Scalar
  PROVE  /\ Mul(Generator("H"), x) \in Point
         /\ \A g \in Generators : Mul(Generator("H"), x)[g] = IF g = "H" THEN x ELSE 0
         /\ Mul(Generator("H"), x) # Failure <=> x # 0
<1>1. Generator("H") \in Point /\ Generator("H") # Failure /\ "H" \in Generators /\ "A" \in Generators
  BY PointsAre
<1>2. "A" # "H"
  OBVIOUS
<1>3. Mul(Generator("H"), x) = [Failure EXCEPT !["H"] = x]
  <2>1. \A y, z \in Scalar, g, h \in Generators :
          g # h => Mul(Generator(h), z) = [Failure EXCEPT ![h] = z]
    BY PairOfGenerators
  <2> QED BY <1>1, <1>2, <2>1
<1>4. Mul(Generator("H"), x) \in Point
  BY <1>3, PointsAre DEF Failure, Point
<1> QED BY <1>1, <1>3, <1>4, MulFailsIf, PointsAre DEF Failure

(* The proof of a balance is accepted exactly with the right witness.      *)
LEMMA BalanceIsExact ==
  ASSUME NEW s \in Subjects, s.ctx.kind = "balance", Statement(s) # << >>,
         NEW w \in [Names(s) -> Witnesses], NEW k \in [Names(s) -> Nonces],
         NEW c \in Scalar, c # 0
  PROVE  LET proof == Made(s, w, k, c) IN
         Verifies(Statement(s), proof, c) <=> Opens(s, w) /\ 0 \notin Range(proof.responses)
<1> DEFINE proof == Made(s, w, k, c)
           z == proof.responses
           r == Residual(s)
           a == [g \in Generators |-> IF g = "H" THEN k["dr"] ELSE 0]
           m == [g \in Generators |-> IF g = "H" THEN w["dr"] ELSE 0]
           left == Mul(Generator("H"), z["dr"])
           made == Mul(Generator("H"), k["dr"])
<1>1. Names(s) = {"dr"}
  BY DEF Names
<1>2. /\ w["dr"] \in Scalar /\ k["dr"] \in Scalar /\ k["dr"] # 0
      /\ w["dr"] \in Int /\ k["dr"] \in Int /\ c \in Int
  <2>1. w["dr"] \in Witnesses /\ k["dr"] \in Nonces
    BY <1>1
  <2>2. Witnesses \subseteq Scalar /\ Nonces \subseteq Scalar \ {0}
    BY RegistrationAssumption
  <2>3. w["dr"] \in Scalar /\ k["dr"] \in Scalar /\ k["dr"] # 0
    BY <2>1, <2>2
  <2>4. \A x \in Scalar : x \in Int
    BY OrderIs
  <2> QED BY <2>3, <2>4
<1>3. z = [n \in {"dr"} |-> (k[n] + c * w[n]) % Q]
  BY <1>1 DEF Made, Responses
<1>4. z["dr"] = (k["dr"] + c * w["dr"]) % Q /\ z["dr"] \in Scalar /\ z["dr"] \in Int
  <2>1. k["dr"] + c * w["dr"] \in Int
    BY <1>2
  <2>2. (k["dr"] + c * w["dr"]) % Q \in Scalar
    BY <2>1, ScalarsStay
  <2>3. z["dr"] = (k["dr"] + c * w["dr"]) % Q
    BY <1>3
  <2> QED BY <2>2, <2>3, OrderIs
<1>5. 0 \notin Range(z) <=> z["dr"] # 0
  BY <1>3 DEF Range
<1>6. /\ r \in Point /\ r # Failure
      /\ DOMAIN Statement(s) = {1} /\ Statement(s)[1].of = r
      /\ Value(Statement(s)[1], z) = left /\ Value(Statement(s)[1], k) = made
  BY <1>2, <1>4, BalanceIs
<1>7. proof.commitments[1] = made
  <2>1. proof.commitments = [i \in {1} |-> Value(Statement(s)[i], k)]
    BY <1>6 DEF Made, Commitments
  <2> QED BY <1>6, <2>1
<1>8. Verifies(Statement(s), proof, c) <=> left = Combine(made, Mul(r, c)) /\ left # Failure
  BY <1>6, <1>7 DEF Verifies
<1>9. /\ left \in Point /\ \A g \in Generators : left[g] = IF g = "H" THEN z["dr"] ELSE 0
      /\ left # Failure <=> z["dr"] # 0
  BY <1>4, BlindingOnly
<1>10. /\ made \in Point /\ \A g \in Generators : made[g] = IF g = "H" THEN k["dr"] ELSE 0
       /\ made # Failure
  BY <1>2, BlindingOnly
<1>11. /\ a \in [Generators -> Int] /\ m \in [Generators -> Int]
       /\ \A g \in Generators : a[g] = IF g = "H" THEN k["dr"] ELSE 0
       /\ \A g \in Generators : m[g] = IF g = "H" THEN w["dr"] ELSE 0
  BY <1>2
<1> HIDE DEF proof, z, r, a, m, left, made
<1>12. /\ \A g \in Generators : left[g] = (a[g] + c * m[g]) % Q
       /\ \A g \in Generators : made[g] = a[g] % Q
  <2>1. (0 + c * 0) % Q = 0 /\ 0 % Q = 0
    BY <1>2, OrderIs
  <2>2. k["dr"] % Q = k["dr"]
    BY <1>2, ScalarsStay
  <2>3. ASSUME NEW g \in Generators
        PROVE  left[g] = (a[g] + c * m[g]) % Q /\ made[g] = a[g] % Q
    <3>1. CASE g = "H"
      BY <1>4, <1>9, <1>10, <1>11, <2>2, <3>1
    <3>2. CASE g # "H"
      <4>1. left[g] = 0 /\ a[g] = 0 /\ m[g] = 0 /\ made[g] = 0
        BY <1>9, <1>10, <1>11, <3>2
      <4> QED BY <2>1, <4>1
    <3> QED BY <3>1, <3>2
  <2> QED BY <2>3
<1>13. left = Combine(made, Mul(r, c)) <=> \A g \in Generators : (m[g] - r[g]) % Q = 0
  <2>1. r \in Point /\ r # Failure /\ left \in Point /\ made \in Point /\ made # Failure
    BY <1>6, <1>9, <1>10
  <2>2. a \in [Generators -> Int] /\ m \in [Generators -> Int]
    BY <1>11
  <2>3. \A g \in Generators : left[g] = (a[g] + c * m[g]) % Q
    BY <1>12
  <2>4. \A g \in Generators : made[g] = a[g] % Q
    BY <1>12
  <2> QED BY <2>1, <2>2, <2>3, <2>4, EquationIsExact, ZenonT(60)
<1>14. (\A g \in Generators : (m[g] - r[g]) % Q = 0) <=> r = m
  <2>1. ASSUME NEW g \in Generators
        PROVE  ((m[g] - r[g]) % Q = 0) <=> (r[g] = m[g])
    <3>1. m[g] \in Scalar /\ r[g] \in Scalar /\ m[g] \in Int /\ r[g] \in Int
      BY <1>2, <1>6, <1>11, OrderIs, PointsAre
    <3>2. m[g] % Q = m[g] /\ r[g] % Q = r[g]
      BY <3>1, ScalarsStay
    <3> QED BY <3>1, <3>2, Congruent
  <2>2. r = m <=> \A g \in Generators : r[g] = m[g]
    BY <1>6, <1>11 DEF Point
  <2> QED BY <2>1, <2>2
<1>15. r = m <=> Opens(s, w)
  <2>1. /\ Mul(Generator("H"), w["dr"]) \in Point
        /\ \A g \in Generators : Mul(Generator("H"), w["dr"])[g] = IF g = "H" THEN w["dr"] ELSE 0
    BY <1>2, BlindingOnly
  <2>2. Mul(Generator("H"), w["dr"]) = m
    BY <1>11, <2>1 DEF Point
  <2> QED BY <2>2 DEF Opens, r
<1> QED BY <1>5, <1>8, <1>9, <1>13, <1>14, <1>15 DEF proof, z

(* Verification tells the right witness from all others, for every group,  *)
(* PSET, statement, nonce and challenge (prove and verify of both crates). *)
THEOREM ExactVerification == ProofSpec => []VerificationIsExact
<1>1. VerificationIsExact
  <2> SUFFICES ASSUME NEW s \in Subjects, Statement(s) # << >>,
                      NEW w \in [Names(s) -> Witnesses], NEW k \in [Names(s) -> Nonces],
                      NEW c \in 1..(Q - 1)
               PROVE  LET proof == Made(s, w, k, c) IN
                      Verifies(Statement(s), proof, c)
                        <=> Opens(s, w) /\ 0 \notin Range(proof.responses)
    BY DEF VerificationIsExact
  <2>1. c \in Scalar /\ c # 0
    BY OrderIs
  <2>2. CASE s.ctx.kind = "balance"
    BY <2>1, <2>2, BalanceIsExact
  <2>3. CASE s.ctx.kind # "balance"
    BY <2>1, <2>3, EqualityIsExact
  <2> QED BY <2>2, <2>3
<1> QED BY <1>1, PTL

-----------------------------------------------------------------------------
(* The challenges and what was accepted.                                   *)

(* No challenge is given twice, none is zero.                              *)
OracleIsSound ==
  /\ \A q \in DOMAIN oracle : oracle[q] \in 1..(Q - 1)
  /\ \A q, r \in DOMAIN oracle : oracle[q] = oracle[r] => q = r

(* What a prover made, whatever it claims: in an equality the same nonce   *)
(* is behind both commitments, a balance has blinding only.                *)
IsMade(proof) ==
  \/ /\ Len(proof.commitments) = 1
     /\ proof.commitments[1] \in Point /\ proof.commitments[1]["A"] = 0
     /\ proof.responses["dr"] \in Scalar
  \/ /\ Len(proof.commitments) = 2
     /\ proof.commitments[1] \in Point /\ proof.commitments[2] \in Point
     /\ proof.commitments[1]["Gg"] = proof.commitments[2]["A"]
     /\ proof.responses \in Scalars

(* What is accepted was verified, with the challenge of its own query.     *)
Vouched(a, challenges) ==
  /\ a.of \in Subjects /\ Statement(a.of) # << >> /\ IsMade(a.proof)
  /\ a.of.ctx.kind = "balance" <=> Len(a.proof.commitments) = 1
  /\ Query(a.of, a.proof.commitments) \in DOMAIN challenges
  /\ Verifies(Statement(a.of), a.proof, challenges[Query(a.of, a.proof.commitments)])

AcceptedIsSound == \A a \in accepted : Vouched(a, oracle)

ProofInv == OracleIsSound /\ AcceptedIsSound

(* A new challenge is another one than all before, an old one the same.    *)
LEMMA AskedOnce ==
  ASSUME OracleIsSound, NEW q, NEW c \in Challenges(q),
         oracle' = [r \in DOMAIN oracle \cup {q} |-> IF r = q THEN c ELSE oracle[r]]
  PROVE  /\ c \in 1..(Q - 1) /\ OracleIsSound'
         /\ q \in DOMAIN oracle' /\ oracle'[q] = c
         /\ \A r \in DOMAIN oracle : r \in DOMAIN oracle' /\ oracle'[r] = oracle[r]
<1>2. DOMAIN oracle' = DOMAIN oracle \cup {q}
  OBVIOUS
<1>3. oracle'[q] = c /\ \A r \in DOMAIN oracle : r # q => oracle'[r] = oracle[r]
  OBVIOUS
<1>4. CASE q \in DOMAIN oracle
  <2>1. c = oracle[q]
    BY <1>4 DEF Challenges
  <2>2. DOMAIN oracle' = DOMAIN oracle /\ \A r \in DOMAIN oracle : oracle'[r] = oracle[r]
    BY <1>2, <1>3, <1>4, <2>1
  <2> QED BY <1>3, <1>4, <2>1, <2>2 DEF OracleIsSound
<1>5. CASE q \notin DOMAIN oracle
  <2>1. c \in 1..(Q - 1) /\ \A r \in DOMAIN oracle : oracle[r] # c
    BY <1>5 DEF Challenges, Range
  <2>2. \A r \in DOMAIN oracle : oracle'[r] = oracle[r]
    BY <1>3, <1>5
  <2> QED BY <1>2, <1>3, <2>1, <2>2 DEF OracleIsSound
<1> QED BY <1>4, <1>5

(* What a prover hands out was made.                                       *)
LEMMA MadeIsMade ==
  ASSUME NEW s \in Subjects, Statement(s) # << >>,
         NEW w \in [Names(s) -> Witnesses], NEW k \in [Names(s) -> Nonces], NEW c \in Scalar
  PROVE  /\ IsMade(Made(s, w, k, c))
         /\ s.ctx.kind = "balance" <=> Len(Made(s, w, k, c).commitments) = 1
<1> DEFINE proof == Made(s, w, k, c)
<1>1. CASE s.ctx.kind # "balance"
  <2> DEFINE e == Element(s)  first == Value(FirstPartOf(s), k)  second == Value(SecondOf(e), k)
  <2>1. /\ k \in Scalars /\ NoneIsZero(k) /\ proof.responses \in Scalars
        /\ proof.commitments = <<first, second>>
    BY <1>1, MadeIs
  <2>2. e \in Elements
    BY <1>1, RegistrationsAre
  <2>3. /\ k["v"] \in Scalar /\ k["v"] \in Int /\ k["r1"] \in Int /\ k["r2"] \in Int
        /\ k["v"] # 0 /\ k["r1"] # 0 /\ k["r2"] # 0
        /\ "Gg" \in Generators /\ "A" \in Generators
    BY <2>1, ScalarsAre, PointsAre DEF NoneIsZero
  <2>4. first \in Point /\ first["Gg"] = k["v"]
    <3>1. first \in Point /\ first = Pair("Gg", k["v"], "Gh", k["r1"])
      BY <2>1, <2>3, FirstValue
    <3>2. Pair("Gg", k["v"], "Gh", k["r1"])["Gg"] = k["v"]
      BY <2>3, PairOfCredential
    <3> QED BY <3>1, <3>2
  <2>5. second \in Point /\ second["A"] = k["v"]
    <3>1. second \in Point /\ second["A"] = Second(e, k["v"], k["r2"])["A"] % Q
      BY <2>1, <2>2, <2>3, SecondValue
    <3>2. Second(e, k["v"], k["r2"])["A"] = k["v"]
      <4>1. e.abf \in Int
        BY <2>2, OrderIs DEF Elements
      <4> DEFINE y == k["v"] * e.abf + k["r2"]
      <4>2. y \in Int
        BY <2>3, <4>1
      <4> HIDE DEF y
      <4>3. Pair("A", k["v"], "H", y)["A"] = k["v"]
        BY <2>3, <4>2, PairOfCommitment
      <4> QED BY <4>3 DEF Second, y
    <3>3. k["v"] % Q = k["v"]
      BY <2>3, ScalarsStay
    <3> QED BY <3>1, <3>2, <3>3
  <2> HIDE DEF proof, first, second
  <2>6. Len(proof.commitments) = 2 /\ proof.commitments[1] = first /\ proof.commitments[2] = second
    BY <2>1
  <2>7. IsMade(proof)
    BY <2>1, <2>4, <2>5, <2>6 DEF IsMade
  <2> QED BY <1>1, <2>6, <2>7 DEF proof
<1>2. CASE s.ctx.kind = "balance"
  <2>1. Names(s) = {"dr"}
    BY <1>2 DEF Names
  <2>2. /\ w["dr"] \in Scalar /\ k["dr"] \in Scalar /\ Scalar \subseteq Int
    <3>1. w["dr"] \in Witnesses /\ k["dr"] \in Nonces
      BY <2>1
    <3>2. Witnesses \subseteq Scalar /\ Nonces \subseteq Scalar \ {0}
      BY RegistrationAssumption
    <3>3. w["dr"] \in Scalar /\ k["dr"] \in Scalar
      BY <3>1, <3>2
    <3>4. Scalar \subseteq Int
      BY OrderIs
    <3> QED BY <3>3, <3>4
  <2>3. proof.responses["dr"] = (k["dr"] + c * w["dr"]) % Q
    BY <2>1 DEF Made, Responses
  <2>4. proof.responses["dr"] \in Scalar
    <3>1. k["dr"] + c * w["dr"] \in Int
      <4>1. k["dr"] \in Int /\ w["dr"] \in Int /\ c \in Int
        BY <2>2
      <4> QED BY <4>1
    <3> QED BY <2>3, <3>1, ScalarsStay
  <2>5. Len(proof.commitments) = 1 /\ proof.commitments[1] = Mul(Generator("H"), k["dr"])
    <3>1. /\ DOMAIN Statement(s) = {1} /\ k["dr"] \in Int
          /\ Value(Statement(s)[1], k) = Mul(Generator("H"), k["dr"])
      BY <1>2, <2>2, BalanceIs
    <3>2. proof.commitments = [i \in 1..1 |-> Value(Statement(s)[i], k)]
      BY <3>1 DEF Made, Commitments
    <3> QED BY <3>1, <3>2
  <2>6. Mul(Generator("H"), k["dr"]) \in Point /\ Mul(Generator("H"), k["dr"])["A"] = 0
    BY <2>2, BlindingOnly, PointsAre
  <2> HIDE DEF proof
  <2>7. IsMade(proof)
    BY <2>4, <2>5, <2>6 DEF IsMade
  <2> QED BY <1>2, <2>5, <2>7 DEF proof
<1> QED BY <1>1, <1>2

(* What is accepted for a subject agrees in value.                         *)
Agrees(s) ==
  IF s.ctx.kind = "balance" THEN (Worth(Ins(s)) - Worth(Outs(s)) - s.ctx.fee) % Q = 0
  ELSE s.cred["Gg"] = Element(s).value

(* Whatever was made, and whichever challenge: what verifies agrees.       *)
LEMMA VerifiedAgrees ==
  ASSUME NEW s \in Subjects, Statement(s) # << >>, NEW proof, IsMade(proof),
         s.ctx.kind = "balance" <=> Len(proof.commitments) = 1,
         NEW c \in Scalar, c # 0, Verifies(Statement(s), proof, c)
  PROVE  Agrees(s)
<1> DEFINE z == proof.responses
<1>0. c \in Int
  BY OrderIs
<1>1. CASE s.ctx.kind = "balance"
  <2> DEFINE made == proof.commitments[1]  left == Mul(Generator("H"), z["dr"])  r == Residual(s)
  <2>1. made \in Point /\ made["A"] = 0 /\ z["dr"] \in Scalar /\ z["dr"] \in Int
    BY <1>1, OrderIs DEF IsMade
  <2>2. /\ DOMAIN Statement(s) = {1} /\ Statement(s)[1].of = r
        /\ Value(Statement(s)[1], z) = left /\ r \in Point /\ r # Failure
    BY <1>1, <2>1, BalanceIs
  <2>3. left = Combine(made, Mul(r, c)) /\ left # Failure
    BY <2>2 DEF Verifies
  <2>4. "A" \in Generators /\ left["A"] = 0 /\ r["A"] \in Int /\ r["A"] \in Scalar
    BY <2>1, <2>2, BlindingOnly, PointsAre
  <2>5. Mul(r, c) \in Point /\ Mul(r, c)["A"] = (c * r["A"]) % Q
    <3>1. r \in [Generators -> Int]
      BY <2>2, PointsAre DEF Point
    <3> QED BY <1>0, <2>4, <3>1, MulIs
  <2>6. r["A"] = (Worth(Ins(s)) - Worth(Outs(s)) - s.ctx.fee) % Q
    BY <1>1, <2>2, ResidualIs
  <2> HIDE DEF made, left, r, z
  <2>7. 0 = (0 + ((c * r["A"]) % Q)) % Q
    BY <2>1, <2>3, <2>4, <2>5, CombineIs
  <2>8. (c * r["A"]) % Q = 0
    <3> DEFINE y == c * r["A"]
    <3>1. y \in Int
      BY <1>0, <2>4
    <3> HIDE DEF y
    <3>2. 0 + (y % Q) = y % Q /\ y % Q \in Scalar /\ y % Q \in Int
      BY <3>1, ScalarsStay, OrderIs
    <3>3. (y % Q) % Q = y % Q
      BY <3>2, ScalarsStay
    <3> QED BY <2>7, <3>2, <3>3 DEF y
  <2>9. r["A"] % Q = 0
    BY <2>4, <2>8, NoDivisorOfZero
  <2>10. r["A"] = 0
    BY <2>4, <2>9, ScalarsStay
  <2> QED BY <1>1, <2>6, <2>10 DEF Agrees
<1>2. CASE s.ctx.kind # "balance"
  <2> DEFINE e == Element(s)
             m1 == proof.commitments[1]  m2 == proof.commitments[2]
             l1 == Value(FirstPartOf(s), z)  l2 == Value(SecondOf(e), z)
  <2>1. m1 \in Point /\ m2 \in Point /\ m1["Gg"] = m2["A"] /\ z \in Scalars
    BY <1>2 DEF IsMade
  <2>2. /\ l1 # Failure /\ l2 # Failure
        /\ l1 = Combine(m1, Mul(s.cred, c)) /\ l2 = Combine(m2, Mul(Commitment(e), c))
    BY <1>2, EqualityVerifies
  <2>3. /\ e \in Elements /\ s.cred \in Point
        /\ "Gg" \in Generators /\ "A" \in Generators
    BY <1>2, RegistrationsAre, PointsAre
  <2>4. /\ z["v"] \in Scalar /\ z["v"] \in Int /\ z["r1"] \in Int /\ z["r2"] \in Int
    BY <2>1, ScalarsAre
  <2>5. l1["Gg"] = z["v"]
    <3>1. l1 = Pair("Gg", z["v"], "Gh", z["r1"])
      BY <2>1, <2>2, FirstValue
    <3>2. \A i, j \in Int : Pair("Gg", i, "Gh", j)["Gg"] = i
      BY <2>3, PairOfCredential
    <3>3. z["v"] \in Int /\ z["r1"] \in Int
      BY <2>4
    <3> HIDE DEF l1, z
    <3> QED BY <3>1, <3>2, <3>3
  <2>6. l2["A"] = z["v"]
    <3>1. l2["A"] = Second(e, z["v"], z["r2"])["A"] % Q
      BY <2>1, <2>2, <2>3, SecondValue
    <3>2. Second(e, z["v"], z["r2"])["A"] = z["v"]
      <4>1. e.abf \in Int
        BY <2>3, OrderIs DEF Elements
      <4> DEFINE y == z["v"] * e.abf + z["r2"]
      <4>2. y \in Int
        BY <2>4, <4>1
      <4> HIDE DEF y
      <4>3. Pair("A", z["v"], "H", y)["A"] = z["v"]
        <5>1. \A i, j \in Int : Pair("A", i, "H", j)["A"] = i
          BY <2>3, PairOfCommitment
        <5> HIDE DEF z
        <5> QED BY <2>4, <4>2, <5>1
      <4> QED BY <4>3 DEF Second, y
    <3>3. z["v"] % Q = z["v"]
      BY <2>4, ScalarsStay
    <3> QED BY <3>1, <3>2, <3>3
  <2>7. /\ Commitment(e) \in Point /\ Commitment(e)["A"] = e.value
        /\ e.value \in Int /\ e.value \in Scalar
    <3>1. e.value \in Int /\ e.bf \in Int /\ e.value \in Scalar
      BY <2>3, OrderIs DEF Elements
    <3>2. Pair("A", e.value, "H", e.bf)["A"] = e.value
      BY <2>3, <3>1, PairOfCommitment
    <3> QED BY <2>3, <3>1, <3>2, ElementPoints
  <2> DEFINE x == s.cred["Gg"]  y == e.value
  <2>8. x \in Int /\ x \in Scalar
    BY <2>3, PointsAre
  <2>9. /\ Mul(s.cred, c) \in Point /\ Mul(s.cred, c)["Gg"] = (c * x) % Q
        /\ Mul(Commitment(e), c) \in Point /\ Mul(Commitment(e), c)["A"] = (c * y) % Q
    <3>1. s.cred \in [Generators -> Int] /\ Commitment(e) \in [Generators -> Int]
      BY <2>3, <2>7, PointsAre DEF Point
    <3> QED BY <1>0, <2>3, <2>7, <3>1, MulIs
  <2>10. /\ l1["Gg"] = (m1["Gg"] + ((c * x) % Q)) % Q
    <3> HIDE DEF l1, m1, x
    <3> QED BY <2>1, <2>2, <2>3, <2>9, CombineIs
  <2>11. /\ l2["A"] = (m2["A"] + ((c * y) % Q)) % Q
    <3> HIDE DEF l2, m2, y
    <3> QED BY <2>1, <2>2, <2>3, <2>9, CombineIs
  <2> DEFINE n == m1["Gg"]  u == c * x  v == c * y
  <2>12. n \in Int /\ u \in Int /\ v \in Int
    <3>1. n \in Int
      BY <2>1, <2>3, PointsAre
    <3> HIDE DEF x, y
    <3>2. y \in Int
      BY <2>7 DEF y
    <3> QED BY <1>0, <2>8, <3>1, <3>2
  <2>13. (n + (u % Q)) % Q = (n + (v % Q)) % Q
    BY <2>1, <2>5, <2>6, <2>10, <2>11
  <2>14. u % Q = v % Q
    <3> HIDE DEF n, u, v
    <3>1. (n + (u % Q)) % Q = (n + u) % Q /\ (n + (v % Q)) % Q = (n + v) % Q
      BY <2>12, ReducedSummand
    <3>2. \A k, i, j \in Int : ((k + i) % Q = (k + j) % Q) <=> (i % Q = j % Q)
      BY SummandCancels
    <3>3. \A i, j \in Int : ((n + i) % Q = (n + j) % Q) <=> (i % Q = j % Q)
      BY <2>12, <3>2, ZenonT(20)
    <3>4. \A j \in Int : ((n + u) % Q = (n + j) % Q) <=> (u % Q = j % Q)
      BY <2>12, <3>3, ZenonT(20)
    <3>5. ((n + u) % Q = (n + v) % Q) <=> (u % Q = v % Q)
      BY <2>12, <3>4, ZenonT(20)
    <3> QED BY <2>13, <3>1, <3>5
  <2>15. (x - y) % Q = 0
    <3> HIDE DEF x, y
    <3> QED BY <2>7, <2>8, <2>14, FactorCancels DEF y
  <2>16. x % Q = y % Q
    <3> HIDE DEF x, y
    <3> QED BY <2>7, <2>8, <2>15, Congruent DEF y
  <2>17. x = y
    BY <2>7, <2>8, <2>16, ScalarsStay
  <2> QED BY <1>2, <2>17 DEF Agrees
<1> QED BY <1>1, <1>2

-----------------------------------------------------------------------------
(* Accepting a proof that was made and verified keeps the invariant.       *)
LEMMA AcceptKeeps ==
  ASSUME ProofInv, NEW s \in Subjects, Statement(s) # << >>, NEW proof, IsMade(proof),
         s.ctx.kind = "balance" <=> Len(proof.commitments) = 1,
         NEW c \in Challenges(Query(s, proof.commitments)),
         Verifies(Statement(s), proof, c), Accept(s, proof, c)
  PROVE  ProofInv'
<1> DEFINE asked == Query(s, proof.commitments)
           new == [proof |-> proof, of |-> s]
<1>1. /\ accepted' = accepted \cup {new}
      /\ oracle' = [q \in DOMAIN oracle \cup {asked} |-> IF q = asked THEN c ELSE oracle[q]]
  BY DEF Accept
<1>2. /\ OracleIsSound' /\ asked \in DOMAIN oracle' /\ oracle'[asked] = c
      /\ \A r \in DOMAIN oracle : r \in DOMAIN oracle' /\ oracle'[r] = oracle[r]
  <2> HIDE DEF asked
  <2>1. OracleIsSound /\ c \in Challenges(asked)
    BY DEF ProofInv, asked
  <2> QED BY <1>1, <2>1, AskedOnce
<1>3. new.proof = proof /\ new.of = s
  OBVIOUS
<1>4. Vouched(new, oracle')
  <2> HIDE DEF new
  <2> QED BY <1>2, <1>3 DEF Vouched
<1>5. ASSUME NEW a \in accepted
      PROVE  Vouched(a, oracle')
  <2>1. Vouched(a, oracle)
    BY DEF ProofInv, AcceptedIsSound
  <2> QED BY <1>2, <2>1 DEF Vouched
<1>6. AcceptedIsSound'
  <2> HIDE DEF new
  <2> QED BY <1>1, <1>4, <1>5 DEF AcceptedIsSound
<1> QED BY <1>2, <1>6 DEF ProofInv

(* Steps that accept nothing leave it as it is.                            *)
LEMMA RefuseKeeps ==
  ASSUME ProofInv, UNCHANGED <<oracle, accepted>>
  PROVE  ProofInv'
BY DEF ProofInv, OracleIsSound, AcceptedIsSound

(* Every challenge is a scalar other than zero.                            *)
LEMMA ChallengesAre ==
  ASSUME ProofInv, NEW q, NEW c \in Challenges(q)
  PROVE  c \in Scalar /\ c # 0
BY OrderIs DEF ProofInv, OracleIsSound, Challenges

(* The invariant holds of every behaviour.                                 *)
LEMMA ProofInvHolds == ProofSpec => []ProofInv
<1>1. ProofInit => ProofInv
  BY DEF ProofInit, ProofInv, OracleIsSound, AcceptedIsSound
<1>2. ASSUME ProofInv, [ProofNext]_proofVars
      PROVE  ProofInv'
  <2>1. ASSUME NEW s \in Subjects, NEW w \in [Names(s) -> Witnesses],
               NEW k \in [Names(s) -> Nonces], Prove(s, w, k)
        PROVE  ProofInv'
    <3>1. CASE Statement(s) = << >> \/ ~ Admitted(s, w)
      BY <1>2, <2>1, <3>1, RefuseKeeps DEF Prove, Refuse
    <3>2. CASE ~ (Statement(s) = << >> \/ ~ Admitted(s, w))
      <4>1. PICK c \in Challenges(Query(s, Commitments(Statement(s), k))) :
              IF /\ Failure \notin Range(Made(s, w, k, c).commitments)
                 /\ s.ctx.kind = "balance" => Made(s, w, k, c).responses["dr"] # 0
                 /\ SelfVerified(Statement(s), Made(s, w, k, c), c)
              THEN Accept(s, Made(s, w, k, c), c) /\ last' = "proof"
              ELSE Refuse
        BY <2>1, <3>2 DEF Prove
      <4> DEFINE proof == Made(s, w, k, c)
      <4>2. CASE Refuse
        BY <1>2, <4>2, RefuseKeeps DEF Refuse
      <4>3. CASE SelfVerified(Statement(s), proof, c) /\ Accept(s, proof, c)
        <5>1. c \in Scalar
          BY <1>2, <4>1, ChallengesAre
        <5>2. IsMade(proof) /\ (s.ctx.kind = "balance" <=> Len(proof.commitments) = 1)
          BY <3>2, <5>1, MadeIsMade
        <5>3. proof.commitments = Commitments(Statement(s), k)
          BY DEF Made
        <5>4. Verifies(Statement(s), proof, c)
          BY <4>3 DEF SelfVerified
        <5> HIDE DEF proof
        <5>5. c \in Challenges(Query(s, proof.commitments))
          BY <4>1, <5>3
        <5> QED BY <1>2, <3>2, <4>3, <5>2, <5>4, <5>5, AcceptKeeps
      <4> QED BY <4>1, <4>2, <4>3
    <3> QED BY <3>1, <3>2
  <2>2. ASSUME NEW s \in Subjects, NEW proof \in Proofs, Verify(s, proof)
        PROVE  ProofInv'
    <3>1. IsMade(proof)
      <4>1. PICK a \in accepted : proof = a.proof
        BY DEF Proofs
      <4> QED BY <1>2, <4>1 DEF ProofInv, AcceptedIsSound, Vouched
    <3>2. s.ctx.kind = "balance" <=> Len(proof.commitments) = 1
      BY <2>2 DEF Verify
    <3>3. CASE Statement(s) = << >>
      BY <1>2, <2>2, <3>3, RefuseKeeps DEF Verify, Refuse
    <3>4. CASE Statement(s) # << >>
      <4>1. PICK c \in Challenges(Query(s, proof.commitments)) :
              IF Verifies(Statement(s), proof, c) THEN Accept(s, proof, c) /\ last' = "verdict"
              ELSE Refuse
        BY <2>2, <3>4 DEF Verify
      <4>2. CASE Refuse
        BY <1>2, <4>2, RefuseKeeps DEF Refuse
      <4>3. CASE Verifies(Statement(s), proof, c) /\ Accept(s, proof, c)
        BY <1>2, <3>1, <3>2, <3>4, <4>1, <4>3, AcceptKeeps
      <4> QED BY <4>1, <4>2, <4>3
    <3> QED BY <3>3, <3>4
  <2>3. CASE UNCHANGED proofVars
    BY <1>2, <2>3, RefuseKeeps DEF proofVars
  <2> QED BY <1>2, <2>1, <2>2, <2>3 DEF ProofNext
<1> QED BY <1>1, <1>2, PTL DEF ProofSpec

(* Whoever proved or verified, with whatever witness, challenge, and proof *)
(* made before for anything: what is accepted agrees in value.             *)
THEOREM ValuesAgree == ProofSpec => []AcceptedValuesAgree
<1>1. ProofInv => AcceptedValuesAgree
  <2> SUFFICES ASSUME ProofInv, NEW a \in accepted PROVE Agrees(a.of)
    BY DEF AcceptedValuesAgree, Agrees
  <2> DEFINE s == a.of  proof == a.proof  q == Query(s, proof.commitments)  c == oracle[q]
  <2>1. /\ s \in Subjects /\ Statement(s) # << >> /\ IsMade(proof)
        /\ s.ctx.kind = "balance" <=> Len(proof.commitments) = 1
        /\ q \in DOMAIN oracle /\ Verifies(Statement(s), proof, c)
    BY DEF ProofInv, AcceptedIsSound, Vouched
  <2>2. c \in Scalar /\ c # 0
    BY <2>1, OrderIs DEF ProofInv, OracleIsSound
  <2> HIDE DEF s, proof, q, c
  <2>3. Agrees(s)
    BY <2>1, <2>2, VerifiedAgrees
  <2> QED BY <2>3 DEF s
<1> QED BY <1>1, ProofInvHolds, PTL

(* An equation that holds fixes its challenge.                             *)
LEMMA ChallengeIsFixed ==
  ASSUME NEW p \in Point, NEW made \in Point, NEW left, left # Failure,
         NEW c \in Scalar, NEW d \in Scalar,
         left = Combine(made, Mul(p, c)), left = Combine(made, Mul(p, d))
  PROVE  c = d
<1>1. p \in [Generators -> Int] /\ c \in Int /\ d \in Int
  BY PointsAre, OrderIs DEF Point
<1>2. /\ Mul(p, c) \in Point /\ \A g \in Generators : Mul(p, c)[g] = (c * p[g]) % Q
      /\ Mul(p, d) \in Point /\ \A g \in Generators : Mul(p, d)[g] = (d * p[g]) % Q
  BY <1>1, MulIs
<1>3. made # Failure /\ Mul(p, c) # Failure /\ Mul(p, d) # Failure
  BY <1>2, CombineIs
<1>4. PICK g \in Generators : p[g] # 0
  BY <1>3, MulFailsIf, FailsIf
<1> DEFINE r == p[g]  n == made[g]  x == c * r  y == d * r
<1>5. r \in Scalar /\ r \in Int /\ r # 0 /\ n \in Int
  BY <1>4, PointsAre
<1>6. x \in Int /\ y \in Int /\ x = r * c /\ y = r * d
  <2> HIDE DEF r
  <2> QED BY <1>1, <1>5
<1>7. (n + (x % Q)) % Q = (n + (y % Q)) % Q
  <2>1. /\ Combine(made, Mul(p, c))[g] = (n + (x % Q)) % Q
        /\ Combine(made, Mul(p, d))[g] = (n + (y % Q)) % Q
    <3>1. \A i \in Point : i # Failure =>
            \A h \in Generators : Combine(made, i)[h] = (made[h] + i[h]) % Q
      BY <1>3, CombineIs
    <3>2. /\ Combine(made, Mul(p, c))[g] = (made[g] + Mul(p, c)[g]) % Q
          /\ Combine(made, Mul(p, d))[g] = (made[g] + Mul(p, d)[g]) % Q
      BY <1>2, <1>3, <3>1
    <3> QED BY <1>2, <3>2
  <2> QED BY <2>1
<1> HIDE DEF r, n, x, y
<1>8. (n + x) % Q = (n + y) % Q
  <2>1. (n + (x % Q)) % Q = (n + x) % Q /\ (n + (y % Q)) % Q = (n + y) % Q
    BY <1>5, <1>6, ReducedSummand
  <2> QED BY <1>7, <2>1
<1>9. x % Q = y % Q
  <2>1. (n + x) - (n + y) = x - y /\ n + x \in Int /\ n + y \in Int
    BY <1>5, <1>6
  <2>2. ((n + x) - (n + y)) % Q = 0
    BY <1>8, <2>1, Congruent
  <2> QED BY <1>6, <2>1, <2>2, Congruent
<1>10. (c - d) % Q = 0
  <2>1. (r * c) % Q = (r * d) % Q
    BY <1>6, <1>9
  <2> QED BY <1>1, <1>5, <2>1, FactorCancels
<1>11. c % Q = d % Q
  BY <1>1, <1>10, Congruent
<1> QED BY <1>1, <1>11, ScalarsStay

(* One proof verifies for one statement with one challenge only.           *)
LEMMA VerifiesOnce ==
  ASSUME NEW s \in Subjects, Statement(s) # << >>, NEW proof, IsMade(proof),
         s.ctx.kind = "balance" <=> Len(proof.commitments) = 1,
         NEW c \in Scalar, NEW d \in Scalar,
         Verifies(Statement(s), proof, c), Verifies(Statement(s), proof, d)
  PROVE  c = d
<1> DEFINE equation == Statement(s)[1]  left == Value(equation, proof.responses)
           made == proof.commitments[1]
<1>1. 1 \in DOMAIN Statement(s) /\ equation.of \in Point
  <2>1. CASE s.ctx.kind = "balance"
    BY <2>1, BalanceIs
  <2>2. CASE s.ctx.kind # "balance"
    <3>1. FirstPartOf(s).of = s.cred
      BY DEF FirstPartOf
    <3> QED BY <2>2, <3>1, EqualityIs, RegistrationsAre
  <2> QED BY <2>1, <2>2
<1>2. made \in Point
  BY DEF IsMade
<1>3. /\ left = Combine(made, Mul(equation.of, c)) /\ left # Failure
      /\ left = Combine(made, Mul(equation.of, d))
  BY <1>1 DEF Verifies
<1> DEFINE p == equation.of
<1>4. p \in Point /\ left = Combine(made, Mul(p, c)) /\ left = Combine(made, Mul(p, d))
  BY <1>1, <1>3
<1>5. left # Failure
  BY <1>3
<1> HIDE DEF equation, left, made, p
<1> QED BY <1>2, <1>4, <1>5, ChallengeIsFixed, ZenonT(30)

(* A proof is accepted for one context of a statement: another one would   *)
(* have to share its challenge, and no two queries do.                     *)
THEOREM OneContext == ProofSpec => []AcceptedInOneContext
<1>1. ProofInv => AcceptedInOneContext
  <2> SUFFICES ASSUME ProofInv, NEW a \in accepted, NEW b \in accepted,
                      a.proof = b.proof, Statement(a.of) = Statement(b.of)
               PROVE  a.of.ctx = b.of.ctx /\ BoundElements(a.of) = BoundElements(b.of)
    BY DEF AcceptedInOneContext
  <2> DEFINE qa == Query(a.of, a.proof.commitments)  qb == Query(b.of, b.proof.commitments)
             c == oracle[qa]  d == oracle[qb]
  <2>1. Vouched(a, oracle) /\ Vouched(b, oracle)
    BY DEF ProofInv, AcceptedIsSound
  <2>2. qa \in DOMAIN oracle /\ qb \in DOMAIN oracle
    BY <2>1 DEF Vouched
  <2>3. c \in Scalar /\ d \in Scalar
    BY <2>2, OrderIs DEF ProofInv, OracleIsSound
  <2>4. Verifies(Statement(a.of), a.proof, c) /\ Verifies(Statement(a.of), a.proof, d)
    BY <2>1 DEF Vouched
  <2>5. /\ a.of \in Subjects /\ Statement(a.of) # << >> /\ IsMade(a.proof)
        /\ a.of.ctx.kind = "balance" <=> Len(a.proof.commitments) = 1
    BY <2>1 DEF Vouched
  <2>6. c = d
    <3> HIDE DEF c, d
    <3> QED BY <2>3, <2>4, <2>5, VerifiesOnce
  <2>7. qa = qb
    BY <2>2, <2>6 DEF ProofInv, OracleIsSound
  <2> QED BY <2>7 DEF Query
<1> QED BY <1>1, ProofInvHolds, PTL
=============================================================================
