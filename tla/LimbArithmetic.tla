--------------------------- MODULE LimbArithmetic ---------------------------
(***************************************************************************)
(* Modular arithmetic on little-endian limbs, written three times in the   *)
(* repository: modulo the field prime and the group order in               *)
(* crates/credential-commitment-equality, and modulo the prime again in    *)
(* crates/coinjoin-partial-balance. Words, limbs and moduli are shorter    *)
(* here; the loops over them are the code's.                               *)
(***************************************************************************)
EXTENDS Integers, Sequences, FiniteSets, Functions

CONSTANTS
  WordBits,    \* bits of a limb, 64
  N,           \* limbs of a number, 4
  Prime,       \* the field prime, 3 modulo 4
  Order,       \* the group order
  NoNumber     \* no root, or no multiplication under way

(* The powers of a number, by their exponents.                             *)
Powers(x) ==
  LET power[n \in Nat] == IF n = 0 THEN 1 ELSE x * power[n - 1]
  IN power

Base == Powers(2)[WordBits]
Full == Powers(Base)[N]
Width == N * WordBits
Bits == 2 * Width

Rings == {"field", "scalar", "balance"}
Modulus(ring) == IF ring = "scalar" THEN Order ELSE Prime

Word == 0..(Base - 1)
Number == [0..(N - 1) -> Word]

(* A multiplication under way: the other factor, the product of the rows   *)
(* done, and the remainder of the bits gone through.                       *)
Multiplication ==
  [by : Number, wide : [0..(2 * N - 1) -> Word], rows : 0..N,
   rem : [0..N -> Word], bits : 0..Bits]

ASSUME LimbAssumption ==
  /\ WordBits \in Nat \ {0} /\ N \in Nat \ {0}
  /\ \A m \in {Prime, Order} : m \in Nat /\ 2 * m > Full /\ m < Full
  /\ Prime % 4 = 3 /\ \A a, b \in 1..(Prime - 1) : (a * b) % Prime # 0
  /\ \A x \in 0..(Prime - 1) : (x * x * x + 7) % Prime # 0  \* no point has y = 0
  /\ NoNumber \notin Number \cup Multiplication

LimbsOf(n, k) == [i \in 0..(k - 1) |-> (n \div Powers(Base)[i]) % Base]
ValueOf(a) == SumFunction([i \in DOMAIN a |-> a[i] * Powers(Base)[i]])
Bit(a, b) == (a[b \div WordBits] \div Powers(2)[b % WordBits]) % 2
Low(a) == [i \in 0..(N - 1) |-> a[i]]

(* cmp, from the most significant limb down.                               *)
Less(a, b) ==
  \E i \in 0..(N - 1) :
    /\ a[i] < b[i]
    /\ \A j \in (i + 1)..(N - 1) : a[j] = b[j]

AtLeastModulus(a, ring) ==
  (N \in DOMAIN a /\ a[N] # 0) \/ ~Less(Low(a), LimbsOf(Modulus(ring), N))

(* What is too much for a limb goes on into the next; k limbs, and what is *)
(* carried out of them as one more.                                        *)
Carried(t, k) ==
  LET carry[i \in 0..k] == IF i = 0 THEN 0 ELSE (t[i - 1] + carry[i - 1]) \div Base
  IN [i \in 0..k |-> IF i = k THEN carry[k] ELSE (t[i] + carry[i]) % Base]

(* adc.                                                                    *)
Sum(a, b) == Carried([i \in 0..(N - 1) |-> a[i] + b[i]], N)

(* The difference in the low limbs, and what it borrows from the next.     *)
Difference(a, b) ==
  LET borrow[i \in 0..N] ==
        IF i = 0 \/ a[i - 1] >= b[i - 1] + borrow[i - 1] THEN 0 ELSE 1
  IN [limbs |-> [i \in 0..(N - 1) |-> (a[i] - b[i] - borrow[i]) % Base],
      borrow |-> borrow[N]]

(* Slip: a carry out of the top limb alone does not make it subtract.      *)
AddIgnoresCarry(a, b, ring) ==
  LET sum == Low(Sum(a, b)) IN
  IF AtLeastModulus(sum, ring) THEN Difference(sum, LimbsOf(Modulus(ring), N)).limbs
  ELSE sum

(* One conditional subtraction: the field keeps the carry in a fifth limb, *)
(* the other two wrap it away.                                             *)
Add(a, b, ring) ==
  LET sum == Sum(a, b) IN
  IF AtLeastModulus(sum, ring) THEN Difference(Low(sum), LimbsOf(Modulus(ring), N)).limbs
  ELSE Low(sum)

(* One row of the schoolbook product and the carry walking on above it;    *)
(* what is carried out of the top is lost.                                 *)
Row(wide, a, b, i) ==
  LET sums == Carried([k \in 0..(2 * N - 1) |->
                        wide[k] + (IF k \in i..(i + N - 1) THEN a[i] * b[k - i] ELSE 0)], 2 * N)
  IN [k \in 0..(2 * N - 1) |-> sums[k]]

Shifted(r, bit) ==
  [i \in 0..N |-> ((2 * r[i]) % Base) + (IF i = 0 THEN bit ELSE r[i - 1] \div (Base \div 2))]

(* sub5_prime, sub_order5, sub_modulus5: the last clears the fifth limb.   *)
Subtracted(r, ring) ==
  LET d == Difference(Low(r), LimbsOf(Modulus(ring), N)) IN
  [i \in 0..N |-> IF i < N THEN d.limbs[i]
                  ELSE IF ring = "balance" THEN 0 ELSE (r[N] - d.borrow) % Base]

(* from_be_bytes.                                                          *)
Canonical(n, ring) == ~AtLeastModulus(LimbsOf(n, N), ring)

(***************************************************************************)
(* A call runs through a list of instructions on one accumulator. Those    *)
(* of a power square and multiply from the top bit of its exponent down.   *)
(***************************************************************************)
Power(e) ==
  LET bits[n \in Nat] ==
        IF n = 0 THEN << >>
        ELSE (IF (e \div Powers(2)[n - 1]) % 2 = 1 THEN <<"square", "by base">> ELSE <<"square">>)
             \o bits[n - 1]
  IN bits

(* sqrt: the candidate root is kept and squared back.                      *)
Root == <<"power of it">> \o Power((Prime + 1) \div 4)[Width] \o <<"root", "square", "check">>

(* legendre, which only the copy of the partial balance proof computes.    *)
Legendre == <<"power of root">> \o Power((Prime - 1) \div 2)[Width] \o <<"check one">>

(* xquad_lift: the ordinate of the point above x, if there is one.         *)
Lift(ring) ==
  <<"by x", "by x", "plus seven">> \o Root \o (IF ring = "balance" THEN Legendre ELSE << >>)

Calls == {"add", "mul", "lift"}
Program(call, ring) == IF call = "lift" THEN Lift(ring) ELSE <<call>>

VARIABLES
  ring,        \* the copy of the code
  call,        \* what is called, and its arguments as integers
  todo,        \* the instructions left
  acc,         \* the accumulator
  base,        \* what a power is taken of
  root,        \* the root found, or NoNumber
  work         \* the multiplication under way, or NoNumber

limbVars == <<ring, call, todo, acc, base, root, work>>

X == LimbsOf(call.x, N)
Y == LimbsOf(call.y, N)

LimbInit ==
  /\ ring \in Rings
  /\ call \in [op : Calls, x : 0..(Full - 1), y : 0..(Full - 1)]
  /\ call.op = "lift" => ring # "scalar" /\ call.y = 0
  /\ todo = <<"parse">>
  /\ acc = LimbsOf(0, N) /\ base = LimbsOf(0, N) /\ root = NoNumber /\ work = NoNumber

(* Arguments that are not canonical end the call.                          *)
Parse ==
  /\ todo = <<"parse">>
  /\ IF Canonical(call.x, ring) /\ Canonical(call.y, ring)
     THEN acc' = X /\ todo' = Program(call.op, ring)
     ELSE acc' = acc /\ todo' = << >>
  /\ UNCHANGED <<ring, call, base, root, work>>

Factor(step) ==
  CASE step = "mul" -> Y
    [] step = "by x" -> X
    [] step = "by base" -> base
    [] step = "square" -> acc

Start ==
  /\ work = NoNumber /\ todo # << >>
  /\ Head(todo) \in {"mul", "by x", "by base", "square"}
  /\ work' = [by |-> Factor(Head(todo)), wide |-> LimbsOf(0, 2 * N), rows |-> 0,
              rem |-> LimbsOf(0, N + 1), bits |-> 0]
  /\ UNCHANGED <<ring, call, todo, acc, base, root>>

MulRow ==
  /\ work # NoNumber /\ work.rows < N
  /\ work' = [work EXCEPT !.wide = Row(@, acc, work.by, work.rows), !.rows = @ + 1]
  /\ UNCHANGED <<ring, call, todo, acc, base, root>>

(* reduce_wide: r = 2r + bit, less the modulus if that is not too much.    *)
ReduceBit ==
  /\ work # NoNumber /\ work.rows = N /\ work.bits < Bits
  /\ LET r == Shifted(work.rem, Bit(work.wide, Bits - 1 - work.bits)) IN
     work' = [work EXCEPT !.bits = @ + 1,
                          !.rem = IF AtLeastModulus(r, ring) THEN Subtracted(r, ring) ELSE r]
  /\ UNCHANGED <<ring, call, todo, acc, base, root>>

Finish ==
  /\ work # NoNumber /\ work.bits = Bits
  /\ acc' = Low(work.rem) /\ work' = NoNumber /\ todo' = Tail(todo)
  /\ UNCHANGED <<ring, call, base, root>>

Simple ==
  /\ work = NoNumber /\ todo # << >>
  /\ \/ /\ Head(todo) = "add"
        /\ acc' = Add(acc, Y, ring) /\ UNCHANGED <<base, root>>
     \/ /\ Head(todo) = "plus seven"
        /\ acc' = Add(acc, LimbsOf(7, N), ring) /\ UNCHANGED <<base, root>>
     \/ /\ Head(todo) = "power of it"
        /\ base' = acc /\ acc' = LimbsOf(1, N) /\ UNCHANGED root
     \/ /\ Head(todo) = "power of root" /\ root # NoNumber
        /\ base' = root /\ acc' = LimbsOf(1, N) /\ UNCHANGED root
     \/ /\ Head(todo) = "root"
        /\ root' = acc /\ UNCHANGED <<acc, base>>
     \/ /\ Head(todo) = "check"
        /\ root' = IF acc = base THEN root ELSE NoNumber
        /\ UNCHANGED <<acc, base>>
     \/ /\ Head(todo) = "check one"
        /\ root' = IF acc = LimbsOf(1, N) THEN root ELSE NoNumber
        /\ UNCHANGED <<acc, base>>
  /\ todo' = IF root' = NoNumber /\ root # NoNumber THEN << >> ELSE Tail(todo)
  /\ UNCHANGED <<ring, call, work>>

LimbNext == Parse \/ Start \/ MulRow \/ ReduceBit \/ Finish \/ Simple

LimbSpec == LimbInit /\ [][LimbNext]_limbVars

(***************************************************************************)
(* Properties                                                              *)
(***************************************************************************)

Returned == todo = << >> /\ Canonical(call.x, ring) /\ Canonical(call.y, ring)

(* A sum or product that is returned is that of the integers. The ordinate *)
(* found above x is on the curve, and of the two there the one that is a   *)
(* square itself, which its parity could not tell; x is refused exactly    *)
(* when it has none. So both copies of the lift agree.                     *)
ResultIsResidue ==
  LET cubed == (call.x * call.x * call.x + 7) % Prime
      squares == {(s * s) % Prime : s \in 1..(Prime - 1)}
      ordinates == {y \in squares : (y * y) % Prime = cubed}
  IN Returned =>
       /\ call.op = "add" => ValueOf(acc) = (call.x + call.y) % Modulus(ring)
       /\ call.op = "mul" => ValueOf(acc) = (call.x * call.y) % Modulus(ring)
       /\ call.op = "lift" => ordinates = IF root = NoNumber THEN {} ELSE {ValueOf(root)}
=============================================================================
