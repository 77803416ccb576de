---------------------- MODULE PublicTransaction_proofs -----------------------
(***************************************************************************)
(* Why every edit of a transaction that the gate takes as one is known by  *)
(* the base: a reader of items goes on the same way in a text and in what  *)
(* its witnesses leave of it, so the one is read exactly if the other is,  *)
(* and stripping is blind to how often.                                    *)
(***************************************************************************)
EXTENDS PlanCorpus, SumTheorems, SequenceTheorems, TLAPS

-----------------------------------------------------------------------------
(***************************************************************************)
(* PlanCorpus: a transaction is known by its base.                         *)
(***************************************************************************)
(* What the readers of items say, and what a list of readings has said so far. *)
Readings(Val) == [at : Nat, value : Val, ok : BOOLEAN]
Listings(Val) == [at : Nat, list : Seq(Val), ok : BOOLEAN]
(* Reading an item of F after what u says.                                     *)
ReadOn(F, u) == IF u.ok THEN Added(u, F[u.at]) ELSE u
ListsBy(F, Val, u, n, g) ==
  /\ g \in [0..n -> Listings(Val)] /\ g[0] = u
  /\ \A i \in 1..n : g[i] = ReadOn(F, g[i - 1])
ReadOnStep(F, Val, n) == [p \in (1..n) \X Listings(Val) |-> ReadOn(F, p[2])]

(* A listing that reads on is a listing.                                       *)
LEMMA ReadOnIsAListing ==
  ASSUME NEW Val, NEW F \in [Nat -> Readings(Val)], NEW u \in Listings(Val)
  PROVE  ReadOn(F, u) \in Listings(Val)
<1>1. F[u.at] \in Readings(Val)
  BY DEF Listings
<1>2. CASE u.ok
  <2>1. F[u.at].at \in Nat /\ F[u.at].value \in Val /\ F[u.at].ok \in BOOLEAN
    BY <1>1 DEF Readings
  <2>2. Append(u.list, F[u.at].value) \in Seq(Val)
    BY <2>1 DEF Listings
  <2> QED BY <1>2, <2>1, <2>2 DEF ReadOn, Added, Listings
<1> QED BY <1>2 DEF ReadOn

(* Listing n items after u has one outcome at least.                           *)
LEMMA ListingExists ==
  ASSUME NEW Val, NEW F \in [Nat -> Readings(Val)], NEW u \in Listings(Val), NEW n \in Nat
  PROVE  \E g : ListsBy(F, Val, u, n, g)
<1> DEFINE V == Listings(Val)
           step == ReadOnStep(F, Val, n)
<1>1. ASSUME NEW i \in 1..n, NEW v \in V PROVE step[<<i, v>>] \in V /\ step[<<i, v>>] = ReadOn(F, v)
  <2>1. step[<<i, v>>] = ReadOn(F, v)
    BY DEF ReadOnStep
  <2> QED BY <2>1, ReadOnIsAListing
<1> HIDE DEF V, step
<1>2. PICK g : Solves(V, u, n, step, g)
  BY <1>1, RecursionExists DEF V
<1>3. \A i \in 1..n : i - 1 \in 0..n
  OBVIOUS
<1>4. \A i \in 1..n : g[i] = ReadOn(F, g[i - 1])
  BY <1>1, <1>2, <1>3 DEF Solves
<1> QED BY <1>2, <1>4 DEF Solves, ListsBy, V

(* What follows the recursion of a listing while it is one is the listing.     *)
LEMMA ListingIs ==
  ASSUME NEW Val, NEW F \in [Nat -> Readings(Val)], NEW u \in Listings(Val), NEW n \in Nat,
         NEW j, DOMAIN j = 0..n, j = [i \in 0..n |-> j[i]], j[0] = u,
         \A i \in 1..n : j[i - 1] \in Listings(Val) => j[i] = ReadOn(F, j[i - 1])
  PROVE  ListsBy(F, Val, u, n, j)
<1> DEFINE V == Listings(Val)
           step == ReadOnStep(F, Val, n)
<1>1. ASSUME NEW i \in 1..n, NEW v \in V PROVE step[<<i, v>>] \in V /\ step[<<i, v>>] = ReadOn(F, v)
  <2>1. step[<<i, v>>] = ReadOn(F, v)
    BY DEF ReadOnStep
  <2> QED BY <2>1, ReadOnIsAListing
<1> HIDE DEF step
<1>2. \A i \in 1..n : j[i - 1] \in V => j[i] = step[<<i, j[i - 1]>>]
  BY <1>1
<1> HIDE DEF V
<1>3. Solves(V, u, n, step, j)
  BY <1>1, <1>2, Solution DEF V
<1>4. \A i \in 1..n : i - 1 \in 0..n
  OBVIOUS
<1>5. \A i \in 1..n : j[i] = ReadOn(F, j[i - 1])
  BY <1>1, <1>3, <1>4 DEF Solves
<1> QED BY <1>3, <1>5 DEF Solves, ListsBy, V

(* One item further on: where a reading stands, and how many it has listed.    *)
LEMMA OneFurtherOn ==
  ASSUME NEW start \in Nat, NEW taken \in Nat, NEW least \in Nat, NEW at \in Nat, NEW then \in Nat,
         start + taken <= at, at + least <= then
  PROVE  start + (taken + least) <= then
OBVIOUS
LEMMA OneMoreListed ==
  ASSUME NEW first \in Nat, NEW k \in Nat, NEW had \in Nat, NEW has \in Nat,
         had = first + k, has = had + 1
  PROVE  has = first + (k + 1)
OBVIOUS

(* A listing that ends well was well all along, and moved on by at least as    *)
(* much as each item takes.                                                    *)
Moved(u, n, least, g) ==
  /\ \A i \in 0..n : g[i].ok /\ g[i].at <= g[n].at /\ Len(g[i].list) = Len(u.list) + i
  /\ u.at + (n * least) <= g[n].at
(* Every item that is listed moves on by its least size.                      *)
LEMMA ListingMoves ==
  ASSUME NEW Val, NEW F \in [Nat -> Readings(Val)], NEW u \in Listings(Val), NEW n \in Nat,
         NEW g, ListsBy(F, Val, u, n, g), g[n].ok, NEW least \in Nat,
         \A at \in Nat : F[at].ok => at + least <= F[at].at
  PROVE  Moved(u, n, least, g)
<1>0. /\ \A i \in 0..n : g[i] \in Listings(Val)
      /\ g[0] = u /\ \A i \in 1..n : g[i] = ReadOn(F, g[i - 1])
  BY DEF ListsBy
<1>1. ASSUME NEW i \in 1..n, g[i].ok
      PROVE  /\ g[i - 1].ok /\ g[i - 1].at + least <= g[i].at
             /\ Len(g[i].list) = Len(g[i - 1].list) + 1
  <2>1. i - 1 \in 0..n /\ i \in 0..n
    OBVIOUS
  <2>2. g[i - 1] \in Listings(Val) /\ g[i] = ReadOn(F, g[i - 1])
    BY <1>0, <2>1
  <2>3. g[i - 1].ok
    BY <1>1, <2>2 DEF ReadOn
  <2>4. g[i].at = F[g[i - 1].at].at /\ F[g[i - 1].at].ok
        /\ g[i].list = Append(g[i - 1].list, F[g[i - 1].at].value)
    BY <1>1, <2>2, <2>3 DEF ReadOn, Added
  <2>5. g[i - 1].at \in Nat /\ g[i - 1].list \in Seq(Val) /\ F[g[i - 1].at].value \in Val
    BY <2>2 DEF Listings, Readings
  <2> QED BY <2>3, <2>4, <2>5
<1>2. \A i \in 0..n : g[i].at \in Nat /\ Len(g[i].list) \in Nat
  BY <1>0 DEF Listings
<1> DEFINE S == {k \in Nat : k <= n => g[n - k].ok /\ g[n - k].at <= g[n].at}
<1>3. 0 \in S
  BY <1>2
<1>4. ASSUME NEW k \in S PROVE k + 1 \in S
  <2> SUFFICES ASSUME k + 1 <= n PROVE g[n - (k + 1)].ok /\ g[n - (k + 1)].at <= g[n].at
    OBVIOUS
  <2>1. n - k \in 1..n /\ n - (k + 1) = (n - k) - 1 /\ n - (k + 1) \in 0..n /\ n \in 0..n
    OBVIOUS
  <2>2. g[n - k].ok /\ g[n - k].at <= g[n].at
    OBVIOUS
  <2> HIDE DEF S
  <2>3. g[(n - k) - 1].ok /\ g[(n - k) - 1].at + least <= g[n - k].at
    BY <1>1, <2>1, <2>2
  <2> QED BY <1>2, <2>1, <2>2, <2>3
<1>5. S = Nat
  <2> HIDE DEF S
  <2>1. S \in SUBSET Nat
    BY DEF S
  <2> QED BY <1>3, <1>4, <2>1, NumberInduction
<1>6. \A i \in 0..n : g[i].ok /\ g[i].at <= g[n].at
  <2> SUFFICES ASSUME NEW i \in 0..n PROVE g[i].ok /\ g[i].at <= g[n].at
    OBVIOUS
  <2>1. n - i \in Nat /\ n - i <= n /\ n - (n - i) = i
    OBVIOUS
  <2>2. n - i \in S
    <3> HIDE DEF S
    <3> QED BY <1>5, <2>1
  <2>3. g[n - (n - i)].ok /\ g[n - (n - i)].at <= g[n].at
    BY <2>1, <2>2
  <2> QED BY <2>1, <2>3
<1> DEFINE Reaches(k) == u.at + (k * least) <= g[k].at /\ Len(g[k].list) = Len(u.list) + k
           R == {k \in Nat : k <= n => Reaches(k)}
<1>7. 0 \in R
  BY <1>0, <1>2
<1>8. ASSUME NEW k \in R PROVE k + 1 \in R
  <2> SUFFICES ASSUME k + 1 <= n PROVE Reaches(k + 1)
    <3> HIDE DEF Reaches
    <3> QED OBVIOUS
  <2>1. k \in Nat /\ k + 1 \in 1..n /\ k + 1 \in 0..n /\ k \in 0..n /\ (k + 1) - 1 = k
    OBVIOUS
  <2>2. u.at + (k * least) <= g[k].at /\ Len(g[k].list) = Len(u.list) + k
    OBVIOUS
  <2>3. g[k].at + least <= g[k + 1].at /\ Len(g[k + 1].list) = Len(g[k].list) + 1
    BY <1>1, <1>6, <2>1
  <2>4. (k + 1) * least = (k * least) + least
    OBVIOUS
  <2>5. u.at \in Nat /\ Len(u.list) \in Nat /\ g[k].at \in Nat /\ g[k + 1].at \in Nat
    <3> HIDE DEF S, R
    <3>1. u.at \in Nat /\ Len(u.list) \in Nat
      BY DEF Listings
    <3>2. g[k].at \in Nat /\ g[k + 1].at \in Nat
      BY ONLY <1>2, <2>1, Zenon
    <3> QED BY ONLY <3>1, <3>2
  <2>a. k * least \in Nat
    BY <2>1
  <2>6. u.at + ((k * least) + least) <= g[k + 1].at
    <3> HIDE DEF S, R
    <3>1. u.at + (k * least) <= g[k].at
      BY ONLY <2>2
    <3>2. g[k].at + least <= g[k + 1].at
      BY ONLY <2>3
    <3>3. u.at \in Nat /\ g[k].at \in Nat /\ g[k + 1].at \in Nat
      BY ONLY <2>5
    <3> QED BY ONLY <2>a, <3>1, <3>2, <3>3, OneFurtherOn, Zenon
  <2>7. Len(g[k + 1].list) = Len(u.list) + (k + 1)
    <3> HIDE DEF S, R
    <3>1. Len(g[k].list) = Len(u.list) + k
      BY ONLY <2>2
    <3>2. Len(g[k + 1].list) = Len(g[k].list) + 1
      BY ONLY <2>3
    <3>3. k \in Nat /\ Len(u.list) \in Nat /\ Len(g[k].list) \in Nat /\ Len(g[k + 1].list) \in Nat
      BY <1>2, <2>1, <2>5
    <3> DEFINE first == Len(u.list)
               had == Len(g[k].list)
               has == Len(g[k + 1].list)
    <3>4. k \in Nat /\ first \in Nat /\ had \in Nat /\ has \in Nat /\ had = first + k /\ has = had + 1
      BY ONLY <3>1, <3>2, <3>3
    <3> HIDE DEF first, had, has
    <3>5. has = first + (k + 1)
      BY ONLY <3>4, OneMoreListed
    <3> QED BY ONLY <3>5 DEF first, has
  <2> QED
    <3> HIDE DEF S, R
    <3>1. u.at + ((k + 1) * least) <= g[k + 1].at
      BY ONLY <2>4, <2>6, Zenon
    <3> QED BY ONLY <2>7, <3>1
<1>9. R = Nat
  <2> HIDE DEF R
  <2>1. R \in SUBSET Nat
    BY DEF R
  <2> QED BY <1>7, <1>8, <2>1, NumberInduction
<1>10. \A k \in 0..n : u.at + (k * least) <= g[k].at /\ Len(g[k].list) = Len(u.list) + k
  <2> SUFFICES ASSUME NEW k \in 0..n
               PROVE  u.at + (k * least) <= g[k].at /\ Len(g[k].list) = Len(u.list) + k
    OBVIOUS
  <2>1. k \in Nat /\ k <= n
    OBVIOUS
  <2>2. k \in R
    <3> HIDE DEF R
    <3> QED BY <1>9, <2>1
  <2> QED BY <2>1, <2>2
<1>11. n \in 0..n
  OBVIOUS
<1> HIDE DEF S, R
<1>12. u.at + (n * least) <= g[n].at
  BY <1>10, <1>11
<1>13. \A i \in 0..n : Len(g[i].list) = Len(u.list) + i
  BY <1>10
<1> QED BY <1>6, <1>12, <1>13 DEF Moved

(* Two readers that say the same of items up to e list the same up to e.       *)
Alike(F, G, least, e) ==
  \A at \in Nat : at >= least /\ F[at].ok /\ F[at].at <= e => G[at] = F[at]
TwoListings(Val, F, G, u, n, g, h, e) ==
  /\ F \in [Nat -> Readings(Val)] /\ u \in Listings(Val) /\ n \in Nat
  /\ ListsBy(F, Val, u, n, g) /\ g[n].ok /\ ListsBy(G, Val, u, n, h)
  /\ \A at \in Nat : F[at].ok => at <= F[at].at
  /\ e \in Nat /\ g[n].at <= e /\ u.at >= 2 /\ Alike(F, G, 2, e)
(* Two readers that are alike list alike from the same place.                 *)
LEMMA ListingsAlike ==
  ASSUME NEW Val, NEW F, NEW G, NEW u, NEW n, NEW g, NEW h, NEW e,
         TwoListings(Val, F, G, u, n, g, h, e)
  PROVE  h[n] = g[n]
<1>a. /\ F \in [Nat -> Readings(Val)] /\ u \in Listings(Val) /\ n \in Nat
      /\ ListsBy(F, Val, u, n, g) /\ g[n].ok /\ ListsBy(G, Val, u, n, h)
      /\ \A at \in Nat : F[at].ok => at <= F[at].at
      /\ e \in Nat /\ g[n].at <= e /\ u.at >= 2 /\ Alike(F, G, 2, e)
  BY DEF TwoListings
<1>0. /\ \A i \in 0..n : g[i] \in Listings(Val)
      /\ g[0] = u /\ \A i \in 1..n : g[i] = ReadOn(F, g[i - 1])
      /\ h[0] = u /\ \A i \in 1..n : h[i] = ReadOn(G, h[i - 1])
  BY <1>a DEF ListsBy
<1>b. \A at \in Nat : F[at].at \in Nat
  BY <1>a DEF Readings
<1>1. \A at \in Nat : F[at].ok => at + 0 <= F[at].at
  BY <1>a, <1>b
<1>2. Moved(u, n, 0, g)
  BY <1>a, <1>1, ListingMoves
<1>3. \A i \in 0..n : g[i].ok /\ g[i].at <= e /\ g[i].at \in Nat
  <2>1. \A i \in 0..n : g[i].at \in Nat
    BY <1>0 DEF Listings
  <2>2. n \in 0..n
    BY <1>a
  <2> QED BY <1>a, <1>2, <2>1, <2>2 DEF Moved
<1> DEFINE S == {k \in Nat : k <= n => h[k] = g[k] /\ g[k].at >= 2}
<1>4. 0 \in S
  BY <1>a, <1>0
<1>5. ASSUME NEW k \in S PROVE k + 1 \in S
  <2> SUFFICES ASSUME k + 1 <= n PROVE h[k + 1] = g[k + 1] /\ g[k + 1].at >= 2
    OBVIOUS
  <2>1. k + 1 \in 1..n /\ k + 1 \in 0..n /\ k \in 0..n /\ (k + 1) - 1 = k /\ h[k] = g[k] /\ g[k].at >= 2
    BY <1>a
  <2> HIDE DEF S
  <2>2. g[k + 1] = ReadOn(F, g[k]) /\ h[k + 1] = ReadOn(G, g[k])
    BY <1>0, <2>1
  <2>3. g[k].ok /\ g[k + 1].ok /\ g[k + 1].at <= e /\ g[k].at \in Nat
    BY <1>3, <2>1
  <2>4. g[k + 1].at = F[g[k].at].at /\ F[g[k].at].ok
    BY <2>2, <2>3 DEF ReadOn, Added
  <2>5. G[g[k].at] = F[g[k].at]
    BY <1>a, <2>1, <2>3, <2>4 DEF Alike
  <2>6. g[k].at <= g[k + 1].at
    BY <1>a, <2>3, <2>4
  <2>7. g[k + 1].at \in Nat
    BY <1>3, <2>1
  <2> QED BY <2>1, <2>2, <2>3, <2>5, <2>6, <2>7 DEF ReadOn
<1>6. S = Nat
  <2> HIDE DEF S
  <2>1. S \in SUBSET Nat
    BY DEF S
  <2> QED BY <1>4, <1>5, <2>1, NumberInduction
<1> QED BY <1>a, <1>6

(* What every item from e on has the values of a list have.                    *)
Tells(F, e, Z) == \A at \in Nat : at >= e /\ F[at].ok => F[at].at >= e /\ F[at].value \in Z
(* What every item of a reader tells, the list tells.                         *)
LEMMA ListingTells ==
  ASSUME NEW Val, NEW F \in [Nat -> Readings(Val)], NEW u \in Listings(Val), NEW n \in Nat,
         NEW g, ListsBy(F, Val, u, n, g), g[n].ok,
         \A at \in Nat : F[at].ok => at <= F[at].at,
         NEW e \in Nat, NEW Z, Tells(F, e, Z), u.at >= e, u.list \in Seq(Z)
  PROVE  g[n].at >= e /\ g[n].list \in Seq(Z)
<1>0. /\ \A i \in 0..n : g[i] \in Listings(Val)
      /\ g[0] = u /\ \A i \in 1..n : g[i] = ReadOn(F, g[i - 1])
  BY DEF ListsBy
<1>1. \A at \in Nat : F[at].ok => at + 0 <= F[at].at
  OBVIOUS
<1>2. Moved(u, n, 0, g)
  BY <1>1, ListingMoves
<1>3. \A i \in 0..n : g[i].ok /\ g[i].at \in Nat
  BY <1>0, <1>2 DEF Listings, Moved
<1> DEFINE S == {k \in Nat : k <= n => g[k].at >= e /\ g[k].list \in Seq(Z)}
<1>4. 0 \in S
  BY <1>0
<1>5. ASSUME NEW k \in S PROVE k + 1 \in S
  <2> SUFFICES ASSUME k + 1 <= n PROVE g[k + 1].at >= e /\ g[k + 1].list \in Seq(Z)
    OBVIOUS
  <2>1. k + 1 \in 1..n /\ k + 1 \in 0..n /\ k \in 0..n /\ (k + 1) - 1 = k
        /\ g[k].at >= e /\ g[k].list \in Seq(Z)
    OBVIOUS
  <2> HIDE DEF S
  <2>2. g[k + 1] = ReadOn(F, g[k])
    BY <1>0, <2>1
  <2>3. g[k].ok /\ g[k + 1].ok /\ g[k].at \in Nat
    BY <1>3, <2>1
  <2>4. g[k + 1].at = F[g[k].at].at /\ F[g[k].at].ok
        /\ g[k + 1].list = Append(g[k].list, F[g[k].at].value)
    BY <2>2, <2>3 DEF ReadOn, Added
  <2>5. F[g[k].at].at >= e /\ F[g[k].at].value \in Z
    BY <2>1, <2>3, <2>4 DEF Tells
  <2> QED BY <2>1, <2>4, <2>5
<1>6. S = Nat
  <2> HIDE DEF S
  <2>1. S \in SUBSET Nat
    BY DEF S
  <2> QED BY <1>4, <1>5, <2>1, NumberInduction
<1>7. n \in S
  BY <1>6
<1> QED BY <1>7

(* A reader of items: what it accepts takes at least least cells and ends in   *)
(* the text.                                                                   *)
IsReader(F, Val, least, end) ==
  /\ F \in [Nat -> Readings(Val)]
  /\ \A at \in Nat : F[at].ok => at + least <= F[at].at /\ F[at].at <= end
(* Two transactions with the same cells from the third on, as far as b goes.   *)
Shares(d, b) ==
  /\ d \in Seq(Nat) /\ b \in Seq(Nat) /\ Len(b) <= Len(d)
  /\ \A i \in 3..Len(b) : b[i] = d[i]
(* All that follows cell e is zero.                                            *)
Blank(d, e) == \A i \in (e + 1)..Len(d) : d[i] = 0

(* A length is a number and ends in the text.                                  *)
LEMMA CompactSizeIs ==
  ASSUME NEW d \in Seq(Nat), NEW at \in Nat
  PROVE  /\ CompactSize(d, at) \in Readings(Nat)
         /\ CompactSize(d, at).ok => at + 1 <= CompactSize(d, at).at /\ CompactSize(d, at).at <= Len(d)
         /\ \A e \in Nat : Blank(d, e) /\ at >= e /\ CompactSize(d, at).ok => CompactSize(d, at).value = 0
<1>1. CASE at >= Len(d)
  BY <1>1 DEF CompactSize, Bad, Readings
<1>2. CASE at < Len(d)
  <2>1. at + 1 \in 1..Len(d) /\ d[at + 1] \in Nat
    BY <1>2
  <2>2. at + 2 <= Len(d) => at + 2 \in 1..Len(d) /\ d[at + 2] \in Nat
    BY <1>2
  <2>3. \A e \in Nat : Blank(d, e) /\ at >= e => d[at + 1] = 0 /\ (at + 2 <= Len(d) => d[at + 2] = 0)
    BY <2>1, <2>2 DEF Blank
  <2>4. CASE d[at + 1] < Wide
    BY <1>2, <2>1, <2>3, <2>4 DEF CompactSize, Readings
  <2>5. CASE ~ (d[at + 1] < Wide) /\ (at + 2 > Len(d) \/ d[at + 1] # Wide)
    BY <1>2, <2>1, <2>5 DEF CompactSize, Bad, Readings
  <2>6. CASE ~ (d[at + 1] < Wide) /\ ~ (at + 2 > Len(d) \/ d[at + 1] # Wide) /\ d[at + 2] < Wide
    BY <1>2, <2>1, <2>6 DEF CompactSize, Bad, Readings
  <2>7. CASE ~ (d[at + 1] < Wide) /\ ~ (at + 2 > Len(d) \/ d[at + 1] # Wide) /\ ~ (d[at + 2] < Wide)
    <3>1. CompactSize(d, at) = [at |-> at + 2, value |-> d[at + 2], ok |-> TRUE]
      BY <1>2, <2>1, <2>7 DEF CompactSize
    <3>2. at + 2 <= Len(d)
      BY <2>7
    <3> QED BY <2>2, <2>3, <3>1, <3>2 DEF Readings
  <2> QED BY <2>4, <2>5, <2>6, <2>7
<1> QED BY <1>1, <1>2

(* A length that ends in what two texts share is the same in both.             *)
LEMMA CompactSizeAlike ==
  ASSUME NEW d, NEW b, Shares(d, b), NEW at \in Nat, at >= 2,
         CompactSize(d, at).ok, CompactSize(d, at).at <= Len(b)
  PROVE  CompactSize(b, at) = CompactSize(d, at)
<1>1. d \in Seq(Nat) /\ b \in Seq(Nat) /\ Len(b) <= Len(d) /\ \A i \in 3..Len(b) : b[i] = d[i]
  BY DEF Shares
<1>2. at + 1 <= CompactSize(d, at).at /\ CompactSize(d, at).at <= Len(d) /\ CompactSize(d, at).at \in Nat
  BY <1>1, CompactSizeIs DEF Readings
<1>3. at + 1 <= Len(b) /\ at + 1 \in 3..Len(b) /\ at < Len(d)
  <2> DEFINE m == CompactSize(d, at).at
             l == Len(b)
             n == Len(d)
  <2>1. m \in Nat /\ l \in Nat /\ n \in Nat /\ at + 1 <= m /\ m <= l /\ m <= n /\ at \in Nat /\ at >= 2
    BY <1>1, <1>2, SMTT(30)
  <2> HIDE DEF m, l, n
  <2>2. at + 1 <= l /\ at + 1 \in 3..l /\ at < n
    BY ONLY <2>1
  <2> QED BY ONLY <2>2 DEF l, n
<1>4. b[at + 1] = d[at + 1]
  BY <1>1, <1>3
<1>5. CASE d[at + 1] < Wide
  BY <1>1, <1>3, <1>4, <1>5 DEF CompactSize
<1>6. CASE ~ (d[at + 1] < Wide)
  <2>1. d[at + 1] = Wide /\ ~ (d[at + 2] < Wide) /\ at + 2 <= Len(d)
    BY <1>1, <1>3, <1>6, SMTT(30) DEF CompactSize, Bad
  <2>2. CompactSize(d, at) = [at |-> at + 2, value |-> d[at + 2], ok |-> TRUE]
    BY <1>1, <1>3, <1>6, <2>1 DEF CompactSize
  <2>3. CompactSize(d, at).at = at + 2
    BY <2>2
  <2>4. at + 2 <= Len(b) /\ at + 2 \in 3..Len(b) /\ Len(b) \in Nat
    BY <1>1, <2>3, SMTT(30)
  <2>5. b[at + 2] = d[at + 2]
    BY <1>1, <2>4
  <2>6. ~ (at >= Len(b)) /\ ~ (at + 2 > Len(b)) /\ ~ (b[at + 1] < Wide) /\ ~ (b[at + 1] # Wide)
        /\ ~ (b[at + 2] < Wide)
    BY <1>4, <1>6, <2>1, <2>4, <2>5
  <2>7. CompactSize(b, at) = [at |-> at + 2, value |-> b[at + 2], ok |-> TRUE]
    BY <2>6 DEF CompactSize
  <2> QED BY <2>2, <2>5, <2>7
<1> QED BY <1>5, <1>6

(* The reader of byte strings.                                                 *)
BytesOf(d) == [at \in Nat |-> SkipBytes(d, at)]
(* Byte strings are read from at least one cell.                              *)
LEMMA BytesAreRead == ASSUME NEW d \in Seq(Nat) PROVE IsReader(BytesOf(d), Nat, 1, Len(d))
<1>1. ASSUME NEW at \in Nat
      PROVE  /\ SkipBytes(d, at) \in Readings(Nat)
             /\ SkipBytes(d, at).ok => at + 1 <= SkipBytes(d, at).at /\ SkipBytes(d, at).at <= Len(d)
  <2> DEFINE n == CompactSize(d, at)
  <2>1. /\ n.at \in Nat /\ n.value \in Nat /\ n.ok \in BOOLEAN
        /\ n.ok => at + 1 <= n.at /\ n.at <= Len(d)
    BY CompactSizeIs DEF Readings
  <2>2. SkipBytes(d, at) = IF ~n.ok \/ n.at + n.value > Len(d) THEN Bad(at)
                           ELSE [at |-> n.at + n.value, value |-> n.value, ok |-> TRUE]
    BY DEF SkipBytes
  <2> HIDE DEF n
  <2> QED BY <2>1, <2>2 DEF Bad, Readings
<1>2. BytesOf(d) \in [Nat -> Readings(Nat)] /\ \A at \in Nat : BytesOf(d)[at] = SkipBytes(d, at)
  BY <1>1 DEF BytesOf
<1> QED BY <1>1, <1>2 DEF IsReader
(* They are read alike from texts that share them.                            *)
LEMMA BytesAlike == ASSUME NEW d, NEW b, Shares(d, b) PROVE Alike(BytesOf(d), BytesOf(b), 2, Len(b))
<1> SUFFICES ASSUME NEW at \in Nat, at >= 2, SkipBytes(d, at).ok, SkipBytes(d, at).at <= Len(b)
             PROVE  SkipBytes(b, at) = SkipBytes(d, at)
  BY DEF Alike, BytesOf
<1>1. d \in Seq(Nat) /\ b \in Seq(Nat) /\ Len(b) <= Len(d)
  BY DEF Shares
<1> DEFINE n == CompactSize(d, at)
<1>2. n.at \in Nat /\ n.value \in Nat /\ n.ok \in BOOLEAN
  BY <1>1, CompactSizeIs DEF Readings
<1>3. SkipBytes(d, at) = IF ~n.ok \/ n.at + n.value > Len(d) THEN Bad(at)
                         ELSE [at |-> n.at + n.value, value |-> n.value, ok |-> TRUE]
  BY DEF SkipBytes
<1>4. SkipBytes(b, at) = IF ~CompactSize(b, at).ok \/ CompactSize(b, at).at + CompactSize(b, at).value > Len(b)
                         THEN Bad(at)
                         ELSE [at |-> CompactSize(b, at).at + CompactSize(b, at).value,
                               value |-> CompactSize(b, at).value, ok |-> TRUE]
  BY DEF SkipBytes
<1> HIDE DEF n
<1>5. n.ok /\ n.at + n.value <= Len(b)
  BY <1>1, <1>2, <1>3 DEF Bad
<1>6. CompactSize(b, at) = n
  BY <1>1, <1>2, <1>5, CompactSizeAlike DEF n
<1> QED BY <1>1, <1>2, <1>3, <1>4, <1>5, <1>6
(* A byte string that lies in blank text is empty.                             *)
LEMMA BytesAreBlank ==
  ASSUME NEW d \in Seq(Nat), NEW e \in Nat, Blank(d, e)
  PROVE  Tells(BytesOf(d), e, {0})
<1> SUFFICES ASSUME NEW at \in Nat, at >= e, SkipBytes(d, at).ok
             PROVE  SkipBytes(d, at).at >= e /\ SkipBytes(d, at).value = 0
  BY DEF Tells, BytesOf
<1> DEFINE n == CompactSize(d, at)
<1>1. /\ n.at \in Nat /\ n.value \in Nat /\ n.ok \in BOOLEAN
      /\ n.ok => at + 1 <= n.at /\ n.value = 0
  BY CompactSizeIs DEF Readings
<1>2. SkipBytes(d, at) = IF ~n.ok \/ n.at + n.value > Len(d) THEN Bad(at)
                         ELSE [at |-> n.at + n.value, value |-> n.value, ok |-> TRUE]
  BY DEF SkipBytes
<1> HIDE DEF n
<1> QED BY <1>1, <1>2 DEF Bad
(* Byte strings one after the other.                                           *)
LEMMA BytesListed ==
  ASSUME NEW d \in Seq(Nat), NEW u \in Listings(Nat), NEW n \in Nat,
         BytesOf(d) \in [Nat -> Readings(Nat)]
  PROVE  \E g : ListsBy(BytesOf(d), Nat, u, n, g) /\ Items(d, u, n, SkipBytes) = g[n]
<1> DEFINE F == BytesOf(d)
           V == Listings(Nat)
           Good(j) == j = [i \in 0..n |-> IF i = 0 THEN u ELSE
                             IF j[i - 1].ok THEN Added(j[i - 1], SkipBytes(d, j[i - 1].at)) ELSE j[i - 1]]
<1>1. \A v \in V : ReadOn(F, v) = IF v.ok THEN Added(v, SkipBytes(d, v.at)) ELSE v
  BY DEF BytesOf, ReadOn, Listings
<1>2. PICK g : ListsBy(F, Nat, u, n, g)
  <2> HIDE DEF F, V
  <2> QED BY ListingExists DEF F
<1> HIDE DEF F
<1>3. Good(g)
  <2>1. g = [i \in 0..n |-> g[i]] /\ g[0] = u
    BY <1>2 DEF ListsBy
  <2>2. \A i \in 0..n : i # 0 => i \in 1..n /\ i - 1 \in 0..n
    OBVIOUS
  <2>3. \A i \in 1..n : g[i] = ReadOn(F, g[i - 1])
    BY <1>2 DEF ListsBy
  <2>4. \A i \in 0..n : i # 0 => g[i - 1] \in V
    BY <1>2, <2>2 DEF ListsBy
  <2> HIDE DEF V
  <2>5. \A i \in 0..n : g[i] = IF i = 0 THEN u ELSE
          IF g[i - 1].ok THEN Added(g[i - 1], SkipBytes(d, g[i - 1].at)) ELSE g[i - 1]
    BY <1>1, <2>1, <2>2, <2>3, <2>4
  <2>6. [i \in 0..n |-> g[i]] = [i \in 0..n |-> IF i = 0 THEN u ELSE
          IF g[i - 1].ok THEN Added(g[i - 1], SkipBytes(d, g[i - 1].at)) ELSE g[i - 1]]
    BY <2>5
  <2> QED BY <2>1, <2>6
<1> DEFINE j == CHOOSE j : Good(j)
<1>4. Good(j)
  <2> HIDE DEF Good
  <2> QED BY <1>3
<1>5. Items(d, u, n, SkipBytes) = j[n]
  BY DEF Items, Then
<1> HIDE DEF j
<1>6. \A i \in 0..n : j[i] = IF i = 0 THEN u ELSE
        IF j[i - 1].ok THEN Added(j[i - 1], SkipBytes(d, j[i - 1].at)) ELSE j[i - 1]
  BY <1>4
<1>7. DOMAIN j = 0..n /\ j = [i \in 0..n |-> j[i]] /\ j[0] = u
  BY <1>4, <1>6
<1>8. \A i \in 1..n : j[i - 1] \in V => j[i] = ReadOn(F, j[i - 1])
  <2>1. \A i \in 1..n : i \in 0..n /\ i # 0
    OBVIOUS
  <2> HIDE DEF V
  <2> QED BY <1>1, <1>6, <2>1
<1>9. ListsBy(F, Nat, u, n, j)
  <2> HIDE DEF Good
  <2>1. F \in [Nat -> Readings(Nat)]
    BY DEF F
  <2> QED BY <1>7, <1>8, <2>1, ListingIs
<1> QED BY <1>5, <1>9 DEF F


(* A byte string takes its length and what the length says.                    *)
LEMMA BytesHold ==
  ASSUME NEW d \in Seq(Nat), NEW at \in Nat, SkipBytes(d, at).ok
  PROVE  at + 1 + SkipBytes(d, at).value <= SkipBytes(d, at).at
<1> DEFINE n == CompactSize(d, at)
<1>1. n.at \in Nat /\ n.value \in Nat /\ (n.ok => at + 1 <= n.at)
  BY CompactSizeIs DEF Readings
<1>2. SkipBytes(d, at) = IF ~n.ok \/ n.at + n.value > Len(d) THEN Bad(at)
                         ELSE [at |-> n.at + n.value, value |-> n.value, ok |-> TRUE]
  BY DEF SkipBytes
<1> HIDE DEF n
<1> QED BY <1>1, <1>2 DEF Bad

(* The readers of the confidential fields.                                     *)
ConfidentialOf(d, c) == [at \in Nat |-> SkipConfidential(d, at, c)]
(* Confidential fields are read from at least one cell.                       *)
LEMMA ConfidentialsAreRead ==
  ASSUME NEW d \in Seq(Nat), NEW c PROVE IsReader(ConfidentialOf(d, c), Nat, 1, Len(d))
<1>1. ASSUME NEW at \in Nat
      PROVE  /\ SkipConfidential(d, at, c) \in Readings(Nat)
             /\ SkipConfidential(d, at, c).ok =>
                  at + 1 <= SkipConfidential(d, at, c).at /\ SkipConfidential(d, at, c).at <= Len(d)
  <2>1. at < Len(d) => at + 1 \in 1..Len(d) /\ d[at + 1] \in Nat
    OBVIOUS
  <2> QED BY <2>1 DEF SkipConfidential, Bad, Readings
<1>2. /\ ConfidentialOf(d, c) \in [Nat -> Readings(Nat)]
      /\ \A at \in Nat : ConfidentialOf(d, c)[at] = SkipConfidential(d, at, c)
  BY <1>1 DEF ConfidentialOf
<1> QED BY <1>1, <1>2 DEF IsReader
(* They are read alike from texts that share them.                            *)
LEMMA ConfidentialsAlike ==
  ASSUME NEW d, NEW b, Shares(d, b), NEW c
  PROVE  Alike(ConfidentialOf(d, c), ConfidentialOf(b, c), 2, Len(b))
<1> SUFFICES ASSUME NEW at \in Nat, at >= 2, SkipConfidential(d, at, c).ok,
                    SkipConfidential(d, at, c).at <= Len(b)
             PROVE  SkipConfidential(b, at, c) = SkipConfidential(d, at, c)
  BY DEF Alike, ConfidentialOf
<1>1. d \in Seq(Nat) /\ b \in Seq(Nat) /\ Len(b) <= Len(d) /\ \A i \in 3..Len(b) : b[i] = d[i]
  BY DEF Shares
<1>2. at + 1 <= SkipConfidential(d, at, c).at /\ at < Len(d)
  BY <1>1, SMTT(30) DEF SkipConfidential, Bad
<1>3. at + 1 \in 3..Len(b) /\ at < Len(b) /\ Len(b) \in Nat
  <2>1. SkipConfidential(d, at, c).at \in Nat
    <3>1. ConfidentialOf(d, c)[at] \in Readings(Nat) /\ ConfidentialOf(d, c)[at] = SkipConfidential(d, at, c)
      BY <1>1, ConfidentialsAreRead DEF IsReader, ConfidentialOf
    <3> QED BY <3>1 DEF Readings
  <2> DEFINE m == SkipConfidential(d, at, c).at
             l == Len(b)
  <2>2. m \in Nat /\ l \in Nat /\ at + 1 <= m /\ m <= l /\ at \in Nat /\ at >= 2
    BY <1>1, <1>2, <2>1
  <2> HIDE DEF m, l
  <2>3. at + 1 \in 3..l /\ at < l
    BY ONLY <2>2
  <2> QED BY ONLY <2>2, <2>3 DEF l
<1>4. b[at + 1] = d[at + 1]
  BY <1>1, <1>3
<1>5. CASE d[at + 1] = 0
  BY <1>1, <1>2, <1>3, <1>4, <1>5 DEF SkipConfidential
<1>6. CASE d[at + 1] # 0
  <2>1. d[at + 1] \in {1} \union c /\ at + 2 <= Len(d)
    BY <1>1, <1>2, <1>6, SMTT(30) DEF SkipConfidential, Bad
  <2>2. SkipConfidential(d, at, c) = [at |-> at + 2, value |-> d[at + 1], ok |-> TRUE]
    BY <1>1, <1>2, <1>6, <2>1 DEF SkipConfidential
  <2>3. SkipConfidential(d, at, c).at = at + 2
    BY <2>2
  <2>4. ~ (at >= Len(b)) /\ b[at + 1] # 0 /\ ~ (b[at + 1] \notin {1} \union c \/ at + 2 > Len(b))
    BY <1>3, <1>4, <1>6, <2>1, <2>3
  <2>5. SkipConfidential(b, at, c) = [at |-> at + 2, value |-> b[at + 1], ok |-> TRUE]
    BY <2>4 DEF SkipConfidential
  <2> QED BY <1>4, <2>2, <2>5
<1> QED BY <1>5, <1>6

(* One item more.                                                              *)
OneMore(F, Val, least, end, u, r) ==
  /\ r \in Listings(Val)
  /\ r.ok => /\ u.ok /\ F[u.at].ok /\ r.at = F[u.at].at /\ u.at + least <= r.at /\ r.at <= end
             /\ r.list = Append(u.list, F[u.at].value) /\ Len(r.list) = Len(u.list) + 1
(* Reading on by one item, or not.                                            *)
LEMMA ReadOnIs ==
  ASSUME NEW Val, NEW F, NEW least \in Nat, NEW end \in Nat, IsReader(F, Val, least, end),
         NEW u \in Listings(Val)
  PROVE  OneMore(F, Val, least, end, u, ReadOn(F, u))
<1>1. F \in [Nat -> Readings(Val)] /\ \A at \in Nat : F[at].ok => at + least <= F[at].at /\ F[at].at <= end
  BY DEF IsReader
<1>2. ReadOn(F, u) \in Listings(Val)
  BY <1>1, ReadOnIsAListing
<1>3. u.at \in Nat /\ u.list \in Seq(Val) /\ F[u.at].value \in Val
  BY <1>1 DEF Listings, Readings
<1> SUFFICES ASSUME ReadOn(F, u).ok
             PROVE  /\ u.ok /\ F[u.at].ok /\ ReadOn(F, u).at = F[u.at].at
                    /\ u.at + least <= ReadOn(F, u).at /\ ReadOn(F, u).at <= end
                    /\ ReadOn(F, u).list = Append(u.list, F[u.at].value)
                    /\ Len(ReadOn(F, u).list) = Len(u.list) + 1
  BY <1>2 DEF OneMore
<1>4. u.ok
  BY DEF ReadOn
<1>5. ReadOn(F, u) = [at |-> F[u.at].at, list |-> Append(u.list, F[u.at].value), ok |-> F[u.at].ok]
  BY <1>4 DEF ReadOn, Added
<1>6. F[u.at].ok
  BY <1>5
<1> QED BY <1>1, <1>3, <1>4, <1>5, <1>6

(* The reader of inputs.                                                       *)
Ins == [txid : Nat, vout : Nat]
Inputs == {0} \union Ins
InputOf(d) == [at \in Nat |-> ReadInput(d, at)]
(* An input, as it is read.                                                   *)
LEMMA InputIs ==
  ASSUME NEW d \in Seq(Nat), NEW at \in Nat
  PROVE  /\ ReadInput(d, at) \in Readings(Inputs)
         /\ ReadInput(d, at).ok =>
              /\ ReadInput(d, at).value \in Ins /\ at + 4 <= ReadInput(d, at).at
              /\ ReadInput(d, at).at <= Len(d) /\ at + 2 <= Len(d)
              /\ d[at + 2] \notin {NullIndex, Issuance, Pegin} /\ SkipBytes(d, at + 2).ok
              /\ ReadInput(d, at) = [at |-> SkipBytes(d, at + 2).at + 1,
                                     value |-> [txid |-> d[at + 1], vout |-> d[at + 2]], ok |-> TRUE]
<1>0. Bad(at) \in Readings(Inputs) /\ ~ Bad(at).ok
  BY DEF Bad, Readings, Inputs
<1>1. CASE at + 2 > Len(d) \/ d[at + 2] \in {NullIndex, Issuance, Pegin}
  BY <1>0, <1>1 DEF ReadInput
<1>2. CASE ~ (at + 2 > Len(d)) /\ d[at + 2] \notin {NullIndex, Issuance, Pegin}
  <2> DEFINE script == SkipBytes(d, at + 2)
  <2>1. ReadInput(d, at) = IF ~script.ok \/ script.at + 1 > Len(d) THEN Bad(at)
          ELSE [at |-> script.at + 1, value |-> [txid |-> d[at + 1], vout |-> d[at + 2]], ok |-> TRUE]
    BY <1>2 DEF ReadInput
  <2>2. script \in Readings(Nat) /\ (script.ok => at + 3 <= script.at)
    <3>1. at + 2 \in Nat /\ IsReader(BytesOf(d), Nat, 1, Len(d))
      BY BytesAreRead
    <3>2. BytesOf(d)[at + 2] = script
      BY <3>1 DEF BytesOf
    <3> HIDE DEF script
    <3> QED BY <3>1, <3>2 DEF IsReader
  <2>3. at + 1 \in 1..Len(d) /\ at + 2 \in 1..Len(d) /\ d[at + 1] \in Nat /\ d[at + 2] \in Nat
    BY <1>2
  <2> HIDE DEF script
  <2>4. CASE ~script.ok \/ script.at + 1 > Len(d)
    BY <1>0, <2>1, <2>4
  <2>5. CASE ~ (~script.ok \/ script.at + 1 > Len(d))
    <3>1. ReadInput(d, at) = [at |-> script.at + 1, value |-> [txid |-> d[at + 1], vout |-> d[at + 2]], ok |-> TRUE]
      BY <2>1, <2>5
    <3>2. [txid |-> d[at + 1], vout |-> d[at + 2]] \in Ins
      BY <2>3 DEF Ins
    <3>3. script.at \in Nat /\ script.ok /\ at + 3 <= script.at /\ script.at + 1 <= Len(d)
      BY <2>2, <2>5 DEF Readings
    <3>4. ReadInput(d, at) \in Readings(Inputs)
      BY <3>1, <3>2, <3>3, SMTT(30) DEF Readings, Inputs
    <3> QED BY <1>2, <3>1, <3>2, <3>3, <3>4 DEF script
  <2> QED BY <2>4, <2>5
<1> QED BY <1>1, <1>2
(* Inputs are read from at least four cells.                                  *)
LEMMA InputsAreRead ==
  ASSUME NEW d \in Seq(Nat)
  PROVE  IsReader(InputOf(d), Inputs, 4, Len(d)) /\ Tells(InputOf(d), 0, Ins)
<1>1. /\ InputOf(d) \in [Nat -> Readings(Inputs)]
      /\ \A at \in Nat : InputOf(d)[at] = ReadInput(d, at)
  BY InputIs DEF InputOf
<1>2. \A at \in Nat : InputOf(d)[at].at \in Nat
  BY <1>1 DEF Readings
<1> QED BY <1>1, <1>2, InputIs DEF IsReader, Tells
(* They are read alike from texts that share them.                            *)
LEMMA InputsAlike ==
  ASSUME NEW d, NEW b, Shares(d, b) PROVE Alike(InputOf(d), InputOf(b), 2, Len(b))
<1> SUFFICES ASSUME NEW at \in Nat, at >= 2, ReadInput(d, at).ok, ReadInput(d, at).at <= Len(b)
             PROVE  ReadInput(b, at) = ReadInput(d, at)
  BY DEF Alike, InputOf
<1>1. d \in Seq(Nat) /\ b \in Seq(Nat) /\ Len(b) <= Len(d) /\ \A i \in 3..Len(b) : b[i] = d[i]
  BY DEF Shares
<1>2. /\ at + 4 <= ReadInput(d, at).at /\ d[at + 2] \notin {NullIndex, Issuance, Pegin}
      /\ SkipBytes(d, at + 2).ok
      /\ ReadInput(d, at) = [at |-> SkipBytes(d, at + 2).at + 1,
                             value |-> [txid |-> d[at + 1], vout |-> d[at + 2]], ok |-> TRUE]
  BY <1>1, InputIs
<1>3. SkipBytes(d, at + 2).at \in Nat
  <2>1. BytesOf(d)[at + 2] \in Readings(Nat) /\ BytesOf(d)[at + 2] = SkipBytes(d, at + 2)
    BY <1>1, BytesAreRead, at + 2 \in Nat DEF IsReader, BytesOf
  <2> QED BY <2>1 DEF Readings
<1>4. ReadInput(d, at).at = SkipBytes(d, at + 2).at + 1
  BY <1>2
<1>5. at + 4 <= Len(b) /\ SkipBytes(d, at + 2).at + 1 <= Len(b) /\ Len(b) \in Nat
  <2> DEFINE x == ReadInput(d, at).at
             y == SkipBytes(d, at + 2).at
  <2>1. at + 4 <= x /\ x <= Len(b) /\ x = y + 1 /\ y \in Nat /\ Len(b) \in Nat
    BY <1>1, <1>2, <1>3, <1>4, SMTT(30)
  <2> HIDE DEF x
  <2>2. at + 4 <= Len(b) /\ y + 1 <= Len(b)
    <3> HIDE DEF y
    <3> QED BY <2>1
  <2> QED BY <2>1, <2>2
<1>6. at + 1 \in 3..Len(b) /\ at + 2 \in 3..Len(b) /\ b[at + 1] = d[at + 1] /\ b[at + 2] = d[at + 2]
  <2>1. at + 1 \in 3..Len(b) /\ at + 2 \in 3..Len(b)
    BY <1>5
  <2> QED BY <1>1, <2>1
<1>7. SkipBytes(b, at + 2) = SkipBytes(d, at + 2)
  <2>1. at + 2 \in Nat /\ at + 2 >= 2 /\ SkipBytes(d, at + 2).at <= Len(b)
    BY <1>3, <1>5
  <2>2. BytesOf(d)[at + 2] = SkipBytes(d, at + 2) /\ BytesOf(b)[at + 2] = SkipBytes(b, at + 2)
    BY <2>1 DEF BytesOf
  <2> QED BY <1>2, <2>1, <2>2, BytesAlike DEF Alike
<1>8. ~ (at + 2 > Len(b)) /\ b[at + 2] \notin {NullIndex, Issuance, Pegin}
      /\ ~ (~SkipBytes(b, at + 2).ok \/ SkipBytes(b, at + 2).at + 1 > Len(b))
  BY <1>2, <1>3, <1>5, <1>6, <1>7
<1>9. ReadInput(b, at) = [at |-> SkipBytes(b, at + 2).at + 1,
                          value |-> [txid |-> b[at + 1], vout |-> b[at + 2]], ok |-> TRUE]
  BY <1>8 DEF ReadInput
<1> QED BY <1>2, <1>6, <1>7, <1>9
(* Inputs one after the other.                                                 *)
LEMMA InputsListed ==
  ASSUME NEW d \in Seq(Nat), NEW u \in Listings(Inputs), NEW n \in Nat,
         InputOf(d) \in [Nat -> Readings(Inputs)]
  PROVE  \E g : ListsBy(InputOf(d), Inputs, u, n, g) /\ Items(d, u, n, ReadInput) = g[n]
<1> DEFINE F == InputOf(d)
           V == Listings(Inputs)
           Good(j) == j = [i \in 0..n |-> IF i = 0 THEN u ELSE
                             IF j[i - 1].ok THEN Added(j[i - 1], ReadInput(d, j[i - 1].at)) ELSE j[i - 1]]
<1>1. \A v \in V : ReadOn(F, v) = IF v.ok THEN Added(v, ReadInput(d, v.at)) ELSE v
  BY DEF InputOf, ReadOn, Listings
<1>2. PICK g : ListsBy(F, Inputs, u, n, g)
  <2> HIDE DEF F, V
  <2> QED BY ListingExists DEF F
<1> HIDE DEF F
<1>3. Good(g)
  <2>1. g = [i \in 0..n |-> g[i]] /\ g[0] = u
    BY <1>2 DEF ListsBy
  <2>2. \A i \in 0..n : i # 0 => i \in 1..n /\ i - 1 \in 0..n
    OBVIOUS
  <2>3. \A i \in 1..n : g[i] = ReadOn(F, g[i - 1])
    BY <1>2 DEF ListsBy
  <2>4. \A i \in 0..n : i # 0 => g[i - 1] \in V
    BY <1>2, <2>2 DEF ListsBy
  <2> HIDE DEF V
  <2>5. \A i \in 0..n : g[i] = IF i = 0 THEN u ELSE
          IF g[i - 1].ok THEN Added(g[i - 1], ReadInput(d, g[i - 1].at)) ELSE g[i - 1]
    BY <1>1, <2>1, <2>2, <2>3, <2>4
  <2>6. [i \in 0..n |-> g[i]] = [i \in 0..n |-> IF i = 0 THEN u ELSE
          IF g[i - 1].ok THEN Added(g[i - 1], ReadInput(d, g[i - 1].at)) ELSE g[i - 1]]
    BY <2>5
  <2> QED BY <2>1, <2>6
<1> DEFINE j == CHOOSE j : Good(j)
<1>4. Good(j)
  <2> HIDE DEF Good
  <2> QED BY <1>3
<1>5. Items(d, u, n, ReadInput) = j[n]
  BY DEF Items, Then
<1> HIDE DEF j
<1>6. \A i \in 0..n : j[i] = IF i = 0 THEN u ELSE
        IF j[i - 1].ok THEN Added(j[i - 1], ReadInput(d, j[i - 1].at)) ELSE j[i - 1]
  BY <1>4
<1>7. DOMAIN j = 0..n /\ j = [i \in 0..n |-> j[i]] /\ j[0] = u
  BY <1>4, <1>6
<1>8. \A i \in 1..n : j[i - 1] \in V => j[i] = ReadOn(F, j[i - 1])
  <2>1. \A i \in 1..n : i \in 0..n /\ i # 0
    OBVIOUS
  <2> HIDE DEF V
  <2> QED BY <1>1, <1>6, <2>1
<1>9. ListsBy(F, Inputs, u, n, j)
  <2> HIDE DEF Good
  <2>1. F \in [Nat -> Readings(Inputs)]
    BY DEF F
  <2> QED BY <1>7, <1>8, <2>1, ListingIs
<1> QED BY <1>5, <1>9 DEF F

(* An item that two readers say the same of is read on alike.                  *)
LEMMA ReadOnAlike ==
  ASSUME NEW F, NEW G, NEW e, Alike(F, G, 2, e), NEW u, u.at \in Nat, u.at >= 2,
         ReadOn(F, u).ok, ReadOn(F, u).at <= e
  PROVE  ReadOn(G, u) = ReadOn(F, u)
<1>1. CASE ~u.ok
  BY <1>1 DEF ReadOn
<1>2. CASE u.ok
  <2>1. ReadOn(F, u) = [at |-> F[u.at].at, list |-> Append(u.list, F[u.at].value), ok |-> F[u.at].ok]
    BY <1>2 DEF ReadOn, Added
  <2>2. G[u.at] = F[u.at]
    BY <2>1 DEF Alike
  <2> QED BY <1>2, <2>1, <2>2 DEF ReadOn, Added
<1> QED BY <1>1, <1>2

(* Four numbers, and the first three of them.                                  *)
LEMMA ItemsAre == ASSUME NEW S PROVE \A l \in Seq(S) : \A n \in 1..Len(l) : l[n] \in S
BY ElementOfSeq
(* Four elements make a sequence of four.                                     *)
LEMMA FourCells ==
  ASSUME NEW l, l \in Seq(Nat) /\ Len(l) = 4 PROVE l[4] \in Nat /\ SubSeq(l, 1, 3) \in Seq(Nat)
<1>1. \A n \in 1..Len(l) : l[n] \in Nat
  <2>1. l \in Seq(Nat)
    OBVIOUS
  <2> QED BY ONLY <2>1, ItemsAre
<1>2. \A n \in 1..3 : l[n] \in Nat
  <2>1. \A n \in 1..3 : n \in 1..Len(l)
    OBVIOUS
  <2> QED BY ONLY <1>1, <2>1
<1>3. SubSeq(l, 1, 3) \in Seq(Nat)
  BY ONLY <1>2, SubSeqProperties
<1>4. 4 \in 1..Len(l)
  OBVIOUS
<1>5. l[4] \in Nat
  BY ONLY <1>1, <1>4
<1> QED BY <1>3, <1>5

(* The reader of outputs.                                                      *)
Outs == [prefixes : Seq(Nat), script : Seq(Nat)]
Outputs == {0} \union Outs
OutputOf(d) == [at \in Nat |-> ReadOutput(d, at)]
(* The three fields of an output, then its script.                             *)
Fields(d, at) == ReadOn(ConfidentialOf(d, Commitments[3]), ReadOn(ConfidentialOf(d, Commitments[2]),
                   ReadOn(ConfidentialOf(d, Commitments[1]), From(at))))
Scripted(d, at) == ReadOn(BytesOf(d), Fields(d, at))
(* A list that begins is one.                                                 *)
LEMMA FromIsAListing ==
  \A Val : \A at \in Nat : From(at) \in Listings(Val) /\ From(at).at = at /\ From(at).list = << >> /\ From(at).ok
BY DEF From, Listings
(* The fields of an output and its script, as they are read.                  *)
LEMMA ScriptedIs ==
  ASSUME NEW d \in Seq(Nat), NEW at \in Nat
  PROVE  /\ ReadOutput(d, at) = OutputRead(d, Scripted(d, at))
         /\ Fields(d, at) \in Listings(Nat) /\ Scripted(d, at) \in Listings(Nat)
         /\ Scripted(d, at).ok =>
              LET u == Scripted(d, at) IN
              /\ u.at \in Nat /\ u.list \in Seq(Nat) /\ Len(u.list) = 4 /\ u.at <= Len(d)
              /\ at + 4 + u.list[4] <= u.at
              /\ Fields(d, at).ok /\ at + 3 <= Fields(d, at).at /\ Fields(d, at).at <= u.at
<1> DEFINE A == ConfidentialOf(d, Commitments[1])
           V == ConfidentialOf(d, Commitments[2])
           N == ConfidentialOf(d, Commitments[3])
           B == BytesOf(d)
           L == Listings(Nat)
           u0 == From(at)
           u1 == ReadOn(A, u0)
           u2 == ReadOn(V, u1)
           u3 == ReadOn(N, u2)
           u4 == ReadOn(B, u3)
<1>1. IsReader(A, Nat, 1, Len(d)) /\ IsReader(V, Nat, 1, Len(d)) /\ IsReader(N, Nat, 1, Len(d))
      /\ IsReader(B, Nat, 1, Len(d)) /\ Len(d) \in Nat /\ 1 \in Nat
  BY ConfidentialsAreRead, BytesAreRead
<1>2. /\ \A v \in L : Then(d, v, SkipAsset) = ReadOn(A, v)
      /\ \A v \in L : Then(d, v, SkipValue) = ReadOn(V, v)
      /\ \A v \in L : Then(d, v, SkipNonce) = ReadOn(N, v)
      /\ \A v \in L : Then(d, v, SkipBytes) = ReadOn(B, v)
  BY DEF Then, SkipAsset, SkipValue, SkipNonce, ReadOn, ConfidentialOf, BytesOf, Listings
<1>3. u0 \in L /\ u0.at = at /\ u0.list = << >>
  BY FromIsAListing
<1> HIDE DEF A, V, N, B, L, u0
<1>4. u1 \in L /\ (u1.ok => u0.ok /\ u0.at + 1 <= u1.at /\ u1.at <= Len(d) /\ Len(u1.list) = Len(u0.list) + 1)
  <2>1. IsReader(A, Nat, 1, Len(d)) /\ u0 \in Listings(Nat) /\ 1 \in Nat /\ Len(d) \in Nat
    BY <1>1, <1>3 DEF L
  <2>2. OneMore(A, Nat, 1, Len(d), u0, u1)
    BY ONLY <2>1, ReadOnIs DEF u1
  <2> QED BY <2>2 DEF L, OneMore
<1> HIDE DEF u1
<1>5. u2 \in L /\ (u2.ok => u1.ok /\ u1.at + 1 <= u2.at /\ u2.at <= Len(d) /\ Len(u2.list) = Len(u1.list) + 1)
  <2>1. IsReader(V, Nat, 1, Len(d)) /\ u1 \in Listings(Nat) /\ 1 \in Nat /\ Len(d) \in Nat
    BY <1>1, <1>4 DEF L
  <2>2. OneMore(V, Nat, 1, Len(d), u1, u2)
    BY ONLY <2>1, ReadOnIs DEF u2
  <2> QED BY <2>2 DEF L, OneMore
<1> HIDE DEF u2
<1>6. u3 \in L /\ (u3.ok => u2.ok /\ u2.at + 1 <= u3.at /\ u3.at <= Len(d) /\ Len(u3.list) = Len(u2.list) + 1)
  <2>1. IsReader(N, Nat, 1, Len(d)) /\ u2 \in Listings(Nat) /\ 1 \in Nat /\ Len(d) \in Nat
    BY <1>1, <1>5 DEF L
  <2>2. OneMore(N, Nat, 1, Len(d), u2, u3)
    BY ONLY <2>1, ReadOnIs DEF u3
  <2> QED BY <2>2 DEF L, OneMore
<1> HIDE DEF u3
<1>7. u4 \in L /\ (u4.ok => /\ u3.ok /\ B[u3.at].ok /\ u4.at = B[u3.at].at /\ u3.at + 1 <= u4.at /\ u4.at <= Len(d)
                            /\ Len(u4.list) = Len(u3.list) + 1 /\ u4.list = Append(u3.list, B[u3.at].value))
  BY <1>1, <1>6, ReadOnIs DEF L, OneMore
<1>8. u3 = Fields(d, at) /\ u4 = Scripted(d, at)
  BY DEF u3, u2, u1, u0, A, V, N, B, Fields, Scripted
<1>9. Then(d, Then(d, Then(d, Then(d, u0, SkipAsset), SkipValue), SkipNonce), SkipBytes) = u4
  <2>1. Then(d, u0, SkipAsset) = u1
    BY <1>2, <1>3 DEF u1
  <2>2. Then(d, u1, SkipValue) = u2
    BY <1>2, <1>4 DEF u2
  <2>3. Then(d, u2, SkipNonce) = u3
    BY <1>2, <1>5 DEF u3
  <2>4. Then(d, u3, SkipBytes) = u4
    BY <1>2, <1>6
  <2> QED BY <2>1, <2>2, <2>3, <2>4
<1>10. ReadOutput(d, at) = OutputRead(d, u4)
  BY <1>9 DEF ReadOutput, u0
<1>11. u1.at \in Nat /\ u2.at \in Nat /\ u3.at \in Nat /\ u4.at \in Nat /\ u3.list \in Seq(Nat)
       /\ u4.list \in Seq(Nat) /\ Len(u1.list) \in Nat /\ Len(u2.list) \in Nat /\ Len(u3.list) \in Nat
  BY <1>4, <1>5, <1>6, <1>7 DEF L, Listings
<1> HIDE DEF u4
<1>12. ASSUME u4.ok
       PROVE  /\ Len(u4.list) = 4 /\ u4.at <= Len(d) /\ at + 4 + u4.list[4] <= u4.at
              /\ u3.ok /\ at + 3 <= u3.at /\ u3.at <= u4.at
  <2>1. u3.ok /\ u2.ok /\ u1.ok /\ u4.at = B[u3.at].at /\ u4.list = Append(u3.list, B[u3.at].value) /\ B[u3.at].ok
    BY <1>4, <1>5, <1>6, <1>7, <1>12
  <2>2. Len(u1.list) = 1 /\ u1.at >= at + 1
    BY <1>3, <1>4, <1>11, <2>1
  <2>3. Len(u2.list) = 2 /\ u2.at >= at + 2
    BY <1>5, <1>11, <2>1, <2>2
  <2>4. Len(u3.list) = 3 /\ u3.at >= at + 3
    BY <1>6, <1>11, <2>1, <2>3
  <2>5. Len(u4.list) = 4 /\ u4.list[4] = B[u3.at].value /\ u3.at <= u4.at /\ u4.at <= Len(d)
    <3>1. B[u3.at].value \in Nat
      BY <1>1, <1>11 DEF IsReader, Readings
    <3> DEFINE v == B[u3.at].value
               l == u3.list
    <3>2. u4.list = Append(l, v) /\ v \in Nat /\ l \in Seq(Nat) /\ Len(l) = 3
      BY <1>11, <2>1, <2>4, <3>1
    <3>3. Len(u4.list) = 4 /\ u4.list[4] = v
      <4> HIDE DEF v, l
      <4>1. Len(Append(l, v)) = Len(l) + 1 /\ Append(l, v)[Len(l) + 1] = v
        BY <3>2, AppendProperties, ZenonT(60)
      <4> QED BY <3>2, <4>1
    <3> QED BY <1>7, <1>11, <1>12, <3>3, SMTT(30)
  <2>6. u3.at + 1 + B[u3.at].value <= B[u3.at].at
    <3>1. B[u3.at] = SkipBytes(d, u3.at)
      BY <1>11 DEF B, BytesOf
    <3> QED BY <1>11, <2>1, <3>1, BytesHold
  <2>7. B[u3.at].value \in Nat
    BY <1>1, <1>11 DEF IsReader, Readings
  <2> DEFINE v == B[u3.at].value
  <2>8. /\ u3.at \in Nat /\ u4.at \in Nat /\ v \in Nat /\ u3.at >= at + 3 /\ u3.at + 1 + v <= u4.at
        /\ u4.list[4] = v
    BY <1>11, <2>1, <2>4, <2>5, <2>6, <2>7
  <2>9. at + 4 + u4.list[4] <= u4.at
    <3> HIDE DEF v
    <3> QED BY ONLY <2>8, at \in Nat
  <2> QED BY <2>1, <2>4, <2>5, <2>9
<1> QED BY <1>6, <1>7, <1>8, <1>10, <1>11, <1>12 DEF L

(* An output, as it is read.                                                  *)
LEMMA OutputIs ==
  ASSUME NEW d \in Seq(Nat), NEW at \in Nat
  PROVE  /\ ReadOutput(d, at) \in Readings(Outputs)
         /\ ReadOutput(d, at).ok =>
              /\ ReadOutput(d, at).value \in Outs /\ at + 4 <= ReadOutput(d, at).at
              /\ ReadOutput(d, at).at <= Len(d)
              /\ Scripted(d, at).ok /\ ReadOutput(d, at).at = Scripted(d, at).at
<1> DEFINE u == Scripted(d, at)
<1>1. /\ ReadOutput(d, at) = OutputRead(d, u) /\ u \in Listings(Nat)
      /\ u.ok => /\ u.at \in Nat /\ u.list \in Seq(Nat) /\ Len(u.list) = 4 /\ u.at <= Len(d)
                 /\ at + 4 + u.list[4] <= u.at
  BY ScriptedIs
<1> HIDE DEF u
<1>2. CASE ~u.ok
  BY <1>1, <1>2 DEF OutputRead, Bad, Readings, Outputs, Listings
<1>3. CASE u.ok
  <2>1. u.list[4] \in Nat /\ u.at - u.list[4] + 1 \in 1..(Len(d) + 1) /\ u.at \in 1..Len(d)
    <3> DEFINE l == u.list
               v == l[4]
               y == u.at
    <3>1. l \in Seq(Nat) /\ Len(l) = 4 /\ y \in Nat /\ y <= Len(d) /\ at + 4 + v <= y /\ Len(d) \in Nat
      BY <1>1, <1>3
    <3>2. v \in Nat
      <4> HIDE DEF l, y
      <4> QED BY ONLY <3>1, FourCells DEF v
    <3>3. y - v + 1 \in 1..(Len(d) + 1) /\ y \in 1..Len(d)
      <4> HIDE DEF l, v, y
      <4> QED BY <3>1, <3>2
    <3> QED BY <3>2, <3>3
  <2>2. SubSeq(u.list, 1, 3) \in Seq(Nat)
    <3> DEFINE l == u.list
    <3>1. l \in Seq(Nat) /\ Len(l) = 4
      BY <1>1, <1>3
    <3> HIDE DEF l
    <3>2. SubSeq(l, 1, 3) \in Seq(Nat)
      BY ONLY <3>1, FourCells
    <3> QED BY <3>2 DEF l
  <2>3. SubSeq(d, u.at - u.list[4] + 1, u.at) \in Seq(Nat)
    <3> DEFINE x == u.at - u.list[4] + 1
               y == u.at
    <3>1. x \in 1..(Len(d) + 1) /\ y \in 1..Len(d)
      BY <2>1
    <3> HIDE DEF x, y
    <3>2. x \in Int /\ y \in Int /\ \A i \in x..y : d[i] \in Nat
      BY <3>1
    <3>3. SubSeq(d, x, y) \in Seq(Nat)
      BY ONLY <3>2, SubSeqProperties
    <3> QED BY <3>3 DEF x, y
  <2>4. ReadOutput(d, at) = [at |-> u.at, ok |-> TRUE,
          value |-> [prefixes |-> SubSeq(u.list, 1, 3), script |-> SubSeq(d, u.at - u.list[4] + 1, u.at)]]
    BY <1>1, <1>3 DEF OutputRead
  <2> DEFINE p == SubSeq(u.list, 1, 3)
             s == SubSeq(d, u.at - u.list[4] + 1, u.at)
  <2> HIDE DEF p, s
  <2>5. ReadOutput(d, at) = [at |-> u.at, ok |-> TRUE, value |-> [prefixes |-> p, script |-> s]]
    BY <2>4 DEF p, s
  <2>6. p \in Seq(Nat) /\ s \in Seq(Nat)
    BY <2>2, <2>3 DEF p, s
  <2>7. [prefixes |-> p, script |-> s] \in Outs
    BY <2>6 DEF Outs
  <2>8. at + 4 <= u.at
    <3> DEFINE v == u.list[4]
               y == u.at
    <3>1. at + 4 + v <= y /\ v \in Nat /\ y \in Nat
      BY <1>1, <1>3, <2>1
    <3> HIDE DEF v, y
    <3>2. at + 4 <= y
      BY <3>1
    <3> QED BY <3>2 DEF y
  <2> QED BY <1>1, <1>3, <2>5, <2>7, <2>8 DEF Readings, Outputs, u
<1> QED BY <1>2, <1>3
(* Outputs are read from at least four cells.                                 *)
LEMMA OutputsAreRead ==
  ASSUME NEW d \in Seq(Nat)
  PROVE  IsReader(OutputOf(d), Outputs, 4, Len(d)) /\ Tells(OutputOf(d), 0, Outs)
<1>1. /\ OutputOf(d) \in [Nat -> Readings(Outputs)]
      /\ \A at \in Nat : OutputOf(d)[at] = ReadOutput(d, at)
  BY OutputIs DEF OutputOf
<1>2. \A at \in Nat : OutputOf(d)[at].at \in Nat
  BY <1>1 DEF Readings
<1> QED BY <1>1, <1>2, OutputIs DEF IsReader, Tells
(* They are read alike from texts that share them.                            *)
LEMMA OutputsAlike ==
  ASSUME NEW d, NEW b, Shares(d, b) PROVE Alike(OutputOf(d), OutputOf(b), 2, Len(b))
<1> SUFFICES ASSUME NEW at \in Nat, at >= 2, ReadOutput(d, at).ok, ReadOutput(d, at).at <= Len(b)
             PROVE  ReadOutput(b, at) = ReadOutput(d, at)
  BY DEF Alike, OutputOf
<1>1. d \in Seq(Nat) /\ b \in Seq(Nat) /\ Len(b) <= Len(d) /\ \A i \in 3..Len(b) : b[i] = d[i]
  BY DEF Shares
<1> DEFINE u == Scripted(d, at)
           e == Len(b)
<1>2. u.ok /\ u.at <= e /\ ReadOutput(d, at) = OutputRead(d, u) /\ ReadOutput(b, at) = OutputRead(b, Scripted(b, at))
  BY <1>1, OutputIs, ScriptedIs
<1>3. /\ u.at \in Nat /\ u.list \in Seq(Nat) /\ Len(u.list) = 4 /\ u.at <= Len(d) /\ e \in Nat
      /\ at + 4 + u.list[4] <= u.at /\ Fields(d, at).ok /\ Fields(d, at).at <= u.at
      /\ Fields(d, at) \in Listings(Nat) /\ at + 3 <= Fields(d, at).at
  BY <1>1, <1>2, ScriptedIs
<1>4. Scripted(b, at) = u
  <2> DEFINE A == ConfidentialOf(d, Commitments[1])
             V == ConfidentialOf(d, Commitments[2])
             N == ConfidentialOf(d, Commitments[3])
             B == BytesOf(d)
             A2 == ConfidentialOf(b, Commitments[1])
             V2 == ConfidentialOf(b, Commitments[2])
             N2 == ConfidentialOf(b, Commitments[3])
             B2 == BytesOf(b)
             L == Listings(Nat)
             u0 == From(at)
             u1 == ReadOn(A, u0)
             u2 == ReadOn(V, u1)
             u3 == ReadOn(N, u2)
             u4 == ReadOn(B, u3)
  <2>1. Alike(A, A2, 2, e) /\ Alike(V, V2, 2, e) /\ Alike(N, N2, 2, e) /\ Alike(B, B2, 2, e)
    BY ConfidentialsAlike, BytesAlike
  <2>2. IsReader(A, Nat, 1, Len(d)) /\ IsReader(V, Nat, 1, Len(d)) /\ IsReader(N, Nat, 1, Len(d))
        /\ IsReader(B, Nat, 1, Len(d)) /\ Len(d) \in Nat /\ 1 \in Nat
    BY <1>1, ConfidentialsAreRead, BytesAreRead
  <2>3. u0 \in L /\ u0.at = at
    BY FromIsAListing
  <2>4. u3 = Fields(d, at) /\ u4 = u
    BY DEF Fields, Scripted
  <2>5. Scripted(b, at) = ReadOn(B2, ReadOn(N2, ReadOn(V2, ReadOn(A2, u0))))
    BY DEF Fields, Scripted
  <2> HIDE DEF A, V, N, B, A2, V2, N2, B2, L, u0, u, e
  <2>6. u1 \in L /\ (u1.ok => u0.ok /\ u0.at + 1 <= u1.at)
    BY <2>2, <2>3, ReadOnIs DEF L, OneMore
  <2> HIDE DEF u1
  <2>7. u2 \in L /\ (u2.ok => u1.ok /\ u1.at + 1 <= u2.at)
    BY <2>2, <2>6, ReadOnIs DEF L, OneMore
  <2> HIDE DEF u2
  <2>8. u3 \in L /\ (u3.ok => u2.ok /\ u2.at + 1 <= u3.at)
    BY <2>2, <2>7, ReadOnIs DEF L, OneMore
  <2> HIDE DEF u3
  <2>9. u4 \in L /\ (u4.ok => u3.ok /\ u3.at + 1 <= u4.at)
    BY <2>2, <2>8, ReadOnIs DEF L, OneMore
  <2> HIDE DEF u4
  <2>10. u1.at \in Nat /\ u2.at \in Nat /\ u3.at \in Nat /\ u4.at \in Nat /\ u4.ok /\ u4.at <= e /\ e \in Nat
    BY <1>2, <1>3, <2>4, <2>6, <2>7, <2>8, <2>9 DEF L, Listings
  <2>11. u3.ok /\ u3.at <= e
    BY <2>9, <2>10
  <2>12. u2.ok /\ u2.at <= e
    BY <2>8, <2>10, <2>11
  <2>13. u1.ok /\ u1.at <= e /\ u1.at >= 2
    BY <2>3, <2>6, <2>7, <2>10, <2>12
  <2>14. u2.at >= 2 /\ u3.at >= 2
    BY <2>7, <2>8, <2>10, <2>11, <2>12, <2>13
  <2>15. ReadOn(A2, u0) = u1
    <3>1. u0.at \in Nat /\ u0.at >= 2
      BY <2>3
    <3>2. ReadOn(A, u0).ok /\ ReadOn(A, u0).at <= e
      BY <2>13 DEF u1
    <3> QED BY <2>1, <3>1, <3>2, ReadOnAlike DEF u1
  <2>16. ReadOn(V2, u1) = u2
    BY <2>1, <2>10, <2>12, <2>13, ReadOnAlike DEF u2
  <2>17. ReadOn(N2, u2) = u3
    BY <2>1, <2>10, <2>11, <2>14, ReadOnAlike DEF u3
  <2>18. ReadOn(B2, u3) = u4
    BY <2>1, <2>10, <2>14, ReadOnAlike DEF u4
  <2> QED BY <2>4, <2>5, <2>15, <2>16, <2>17, <2>18
<1> HIDE DEF u
<1> DEFINE x == u.at - u.list[4] + 1
           y == u.at
<1>5. x \in Int /\ x >= 3 /\ y \in Nat /\ y <= e /\ x <= y + 1
  <2> DEFINE l == u.list
             v == l[4]
             z == u.at
  <2>1. l \in Seq(Nat) /\ Len(l) = 4 /\ z \in Nat /\ z <= e /\ at + 4 + v <= z
    BY <1>2, <1>3
  <2>2. v \in Nat
    <3> HIDE DEF l, z
    <3> QED BY ONLY <2>1, FourCells DEF v
  <2>3. z - v + 1 \in Int /\ z - v + 1 >= 3 /\ z \in Nat /\ z <= e /\ z - v + 1 <= z + 1
    <3> HIDE DEF l, v, z, e
    <3> QED BY <2>1, <2>2
  <2> QED BY <2>3
<1>6. SubSeq(b, x, y) = SubSeq(d, x, y)
  <2> HIDE DEF x, y, e
  <2>0. e \in Nat
    BY <1>1 DEF e
  <2>1. \A i \in 1..(y - x + 1) : i + x - 1 \in 3..e
    BY <1>5, <2>0
  <2>2. \A i \in 1..(y - x + 1) : b[i + x - 1] = d[i + x - 1]
    BY <1>1, <2>1 DEF e
  <2>3. x \in Int /\ y \in Int /\ (\A i \in x..y : b[i] \in Nat) /\ (\A i \in x..y : d[i] \in Nat)
    <3>0. e = Len(b) /\ Len(b) <= Len(d) /\ Len(d) \in Nat
      BY <1>1 DEF e
    <3>1. \A i \in x..y : i \in 1..Len(b) /\ i \in 1..Len(d)
      <4> SUFFICES ASSUME NEW i \in x..y PROVE i \in 1..Len(b) /\ i \in 1..Len(d)
        OBVIOUS
      <4>1. i \in 1..e
        BY ONLY <1>5, <2>0, i \in x..y
      <4> QED BY ONLY <2>0, <3>0, <4>1
    <3>2. \A i \in x..y : b[i] \in Nat /\ d[i] \in Nat
      <4>1. b \in Seq(Nat) /\ d \in Seq(Nat)
        BY <1>1
      <4> QED BY ONLY <3>1, <4>1, ElementOfSeq
    <3>3. x \in Int /\ y \in Int
      BY ONLY <1>5
    <3> QED BY ONLY <3>2, <3>3
  <2> DEFINE s == SubSeq(b, x, y)
             t == SubSeq(d, x, y)
             m == IF x <= y THEN y - x + 1 ELSE 0
  <2>4. s \in Seq(Nat) /\ Len(s) = m /\ \A i \in 1..(y - x + 1) : s[i] = b[x + i - 1]
    BY <2>3, SubSeqProperties
  <2>5. t \in Seq(Nat) /\ Len(t) = m /\ \A i \in 1..(y - x + 1) : t[i] = d[x + i - 1]
    BY <2>3, SubSeqProperties
  <2>6. \A i \in 1..m : i \in 1..(y - x + 1) /\ i + x - 1 = x + i - 1
    BY <2>3
  <2> HIDE DEF s, t, m
  <2>7. \A i \in 1..m : s[i] = t[i]
    BY <2>2, <2>4, <2>5, <2>6
  <2>8. s = t
    BY <2>4, <2>5, <2>7, SeqEqual
  <2> QED BY <2>8 DEF s, t
<1> QED BY <1>2, <1>4, <1>6 DEF OutputRead
(* Outputs one after the other.                                                *)
LEMMA OutputsListed ==
  ASSUME NEW d \in Seq(Nat), NEW u \in Listings(Outputs), NEW n \in Nat,
         OutputOf(d) \in [Nat -> Readings(Outputs)]
  PROVE  \E g : ListsBy(OutputOf(d), Outputs, u, n, g) /\ Items(d, u, n, ReadOutput) = g[n]
<1> DEFINE F == OutputOf(d)
           V == Listings(Outputs)
           Good(j) == j = [i \in 0..n |-> IF i = 0 THEN u ELSE
                             IF j[i - 1].ok THEN Added(j[i - 1], ReadOutput(d, j[i - 1].at)) ELSE j[i - 1]]
<1>1. \A v \in V : ReadOn(F, v) = IF v.ok THEN Added(v, ReadOutput(d, v.at)) ELSE v
  BY DEF OutputOf, ReadOn, Listings
<1>2. PICK g : ListsBy(F, Outputs, u, n, g)
  <2> HIDE DEF F, V
  <2> QED BY ListingExists DEF F
<1> HIDE DEF F
<1>3. Good(g)
  <2>1. g = [i \in 0..n |-> g[i]] /\ g[0] = u
    BY <1>2 DEF ListsBy
  <2>2. \A i \in 0..n : i # 0 => i \in 1..n /\ i - 1 \in 0..n
    OBVIOUS
  <2>3. \A i \in 1..n : g[i] = ReadOn(F, g[i - 1])
    BY <1>2 DEF ListsBy
  <2>4. \A i \in 0..n : i # 0 => g[i - 1] \in V
    BY <1>2, <2>2 DEF ListsBy
  <2> HIDE DEF V
  <2>5. \A i \in 0..n : g[i] = IF i = 0 THEN u ELSE
          IF g[i - 1].ok THEN Added(g[i - 1], ReadOutput(d, g[i - 1].at)) ELSE g[i - 1]
    BY <1>1, <2>1, <2>2, <2>3, <2>4
  <2>6. [i \in 0..n |-> g[i]] = [i \in 0..n |-> IF i = 0 THEN u ELSE
          IF g[i - 1].ok THEN Added(g[i - 1], ReadOutput(d, g[i - 1].at)) ELSE g[i - 1]]
    BY <2>5
  <2> QED BY <2>1, <2>6
<1> DEFINE j == CHOOSE j : Good(j)
<1>4. Good(j)
  <2> HIDE DEF Good
  <2> QED BY <1>3
<1>5. Items(d, u, n, ReadOutput) = j[n]
  BY DEF Items, Then
<1> HIDE DEF j
<1>6. \A i \in 0..n : j[i] = IF i = 0 THEN u ELSE
        IF j[i - 1].ok THEN Added(j[i - 1], ReadOutput(d, j[i - 1].at)) ELSE j[i - 1]
  BY <1>4
<1>7. DOMAIN j = 0..n /\ j = [i \in 0..n |-> j[i]] /\ j[0] = u
  BY <1>4, <1>6
<1>8. \A i \in 1..n : j[i - 1] \in V => j[i] = ReadOn(F, j[i - 1])
  <2>1. \A i \in 1..n : i \in 0..n /\ i # 0
    OBVIOUS
  <2> HIDE DEF V
  <2> QED BY <1>1, <1>6, <2>1
<1>9. ListsBy(F, Outputs, u, n, j)
  <2> HIDE DEF Good
  <2>1. F \in [Nat -> Readings(Outputs)]
    BY DEF F
  <2> QED BY <1>7, <1>8, <2>1, ListingIs
<1> QED BY <1>5, <1>9 DEF F

(* A count that leaves room for its items.                                     *)
LEMMA BoundedIs ==
  ASSUME NEW d \in Seq(Nat), NEW at \in Nat, NEW least
  PROVE  LET c == BoundedCount(d, at, least) IN
         /\ c \in Readings(Nat)
         /\ c.ok => /\ c = CompactSize(d, at) /\ at + 1 <= c.at /\ c.at <= Len(d)
                    /\ \A e \in Nat : Blank(d, e) /\ at >= e => c.value = 0
<1> DEFINE n == CompactSize(d, at)
<1>1. /\ n \in Readings(Nat) /\ (n.ok => at + 1 <= n.at /\ n.at <= Len(d))
      /\ \A e \in Nat : Blank(d, e) /\ at >= e /\ n.ok => n.value = 0
  BY CompactSizeIs
<1>2. Bad(at) \in Readings(Nat) /\ ~ Bad(at).ok
  BY DEF Bad, Readings
<1>3. BoundedCount(d, at, least) = Bad(at) \/ (BoundedCount(d, at, least) = n /\ n.ok)
  BY DEF BoundedCount
<1> HIDE DEF n
<1>4. CASE BoundedCount(d, at, least) = Bad(at)
  BY <1>2, <1>4
<1>5. CASE BoundedCount(d, at, least) = n /\ n.ok
  BY <1>1, <1>5 DEF n
<1> QED BY <1>3, <1>4, <1>5
(* A bounded count is the same where the shorter text still has room for it.  *)
LEMMA BoundedAlike ==
  ASSUME NEW d, NEW b, Shares(d, b), NEW at \in Nat, at >= 2, BoundedCount(d, at, 4).ok,
         BoundedCount(d, at, 4).at + (BoundedCount(d, at, 4).value * 4) <= Len(b)
  PROVE  BoundedCount(b, at, 4) = BoundedCount(d, at, 4)
<1> DEFINE n == BoundedCount(d, at, 4)
<1>1. d \in Seq(Nat) /\ b \in Seq(Nat) /\ Len(b) \in Nat
  BY DEF Shares
<1>2. n \in Readings(Nat) /\ n = CompactSize(d, at) /\ n.ok
  BY <1>1, BoundedIs
<1> HIDE DEF n
<1>3. n.at \in Nat /\ n.value \in Nat /\ n.at + (n.value * 4) <= Len(b)
  BY <1>2 DEF Readings, n
<1>4. n.at <= Len(b) /\ n.value <= (Len(b) - n.at) \div 4
  BY <1>1, <1>3
<1>5. CompactSize(b, at) = n
  BY <1>2, <1>4, CompactSizeAlike
<1>6. BoundedCount(b, at, 4) = n
  BY <1>1, <1>2, <1>3, <1>4, <1>5 DEF BoundedCount
<1> QED BY <1>6 DEF n

(* What advances has no end in the text of its own.                            *)
Advances(F, Val, least) ==
  F \in [Nat -> Readings(Val)] /\ \A at \in Nat : F[at].ok => at + least <= F[at].at

(* The reader of stacks.                                                       *)
StackOf(d) == [at \in Nat |-> ReadStack(d, at)]
(* A stack, as it is read.                                                    *)
LEMMA StackIs ==
  ASSUME NEW d \in Seq(Nat), NEW at \in Nat
  PROVE  /\ ReadStack(d, at) \in Readings(Nat)
         /\ ReadStack(d, at).ok => at <= ReadStack(d, at).at
         /\ \A e \in Nat : Blank(d, e) /\ at >= e /\ ReadStack(d, at).ok => ReadStack(d, at).value = 0
<1> DEFINE c == BoundedCount(d, at, 1)
           u == Counted(d, c, SkipBytes)
<1>1. /\ c \in Readings(Nat) /\ (c.ok => at + 1 <= c.at)
      /\ \A e \in Nat : Blank(d, e) /\ at >= e /\ c.ok => c.value = 0
  BY BoundedIs
<1>2. ReadStack(d, at) = StackRead(u)
  BY DEF ReadStack
<1>3. c.at \in Nat /\ c.value \in Nat
  BY <1>1 DEF Readings
<1>4. CASE ~c.ok
  <2>1. u = c
    BY <1>4 DEF Counted
  <2> HIDE DEF u, c
  <2> QED BY <1>1, <1>2, <1>3, <1>4, <2>1 DEF StackRead, Bad, Readings
<1>5. CASE c.ok
  <2>1. u = Items(d, From(c.at), c.value, SkipBytes)
    BY <1>5 DEF Counted
  <2> HIDE DEF c, u
  <2>2. From(c.at) \in Listings(Nat) /\ From(c.at).at = c.at /\ From(c.at).list = << >>
    BY <1>3, FromIsAListing
  <2>3. BytesOf(d) \in [Nat -> Readings(Nat)] /\ \A x \in Nat : BytesOf(d)[x].ok => x + 0 <= BytesOf(d)[x].at
    <3>1. /\ BytesOf(d) \in [Nat -> Readings(Nat)]
          /\ \A x \in Nat : BytesOf(d)[x].ok => x + 1 <= BytesOf(d)[x].at
      BY BytesAreRead DEF IsReader
    <3>2. \A x \in Nat : BytesOf(d)[x].at \in Nat
      BY <3>1 DEF Readings
    <3> QED BY <3>1, <3>2
  <2>4. PICK g : ListsBy(BytesOf(d), Nat, From(c.at), c.value, g) /\ u = g[c.value]
    BY <1>3, <2>1, <2>2, <2>3, BytesListed
  <2>5. u \in Listings(Nat) /\ g[0] = From(c.at)
    BY <1>3, <2>4 DEF ListsBy
  <2>6. ASSUME u.ok PROVE c.at <= u.at
    <3>1. Moved(From(c.at), c.value, 0, g)
      BY <1>3, <2>2, <2>3, <2>4, <2>6, ListingMoves
    <3> QED BY <1>3, <2>2, <2>4, <3>1 DEF Moved
  <2>7. c.value = 0 => u.list = << >>
    BY <2>2, <2>4, <2>5
  <2>8. u.at \in Nat /\ Len(u.list) \in Nat /\ u.ok \in BOOLEAN
    BY <2>5 DEF Listings
  <2>9. Len(<< >>) = 0
    OBVIOUS
  <2> QED BY <1>1, <1>2, <1>3, <1>5, <2>6, <2>7, <2>8, <2>9 DEF StackRead, Bad, Readings
<1> QED BY <1>4, <1>5
(* Stacks never go back.                                                      *)
LEMMA StacksAreRead == ASSUME NEW d \in Seq(Nat) PROVE Advances(StackOf(d), Nat, 0)
<1>1. /\ StackOf(d) \in [Nat -> Readings(Nat)]
      /\ \A at \in Nat : StackOf(d)[at] = ReadStack(d, at)
  BY StackIs DEF StackOf
<1> QED BY <1>1, StackIs DEF Advances
(* Over blank text a stack is empty.                                          *)
LEMMA StacksAreBlank ==
  ASSUME NEW d \in Seq(Nat), NEW e \in Nat, Blank(d, e)
  PROVE  Tells(StackOf(d), e, {0})
<1>1. \A at \in Nat : StackOf(d)[at] = ReadStack(d, at) /\ StackOf(d)[at].at \in Nat
  BY StackIs DEF StackOf, Readings
<1> SUFFICES ASSUME NEW at \in Nat, at >= e, ReadStack(d, at).ok
             PROVE  ReadStack(d, at).at >= e /\ ReadStack(d, at).value = 0
  BY <1>1 DEF Tells
<1>2. ReadStack(d, at).at \in Nat /\ at <= ReadStack(d, at).at
  BY <1>1, StackIs
<1> QED BY <1>2, StackIs
(* Stacks one after the other.                                                 *)
LEMMA StacksListed ==
  ASSUME NEW d \in Seq(Nat), NEW u \in Listings(Nat), NEW n \in Nat,
         StackOf(d) \in [Nat -> Readings(Nat)]
  PROVE  \E g : ListsBy(StackOf(d), Nat, u, n, g) /\ Items(d, u, n, ReadStack) = g[n]
<1> DEFINE F == StackOf(d)
           V == Listings(Nat)
           Good(j) == j = [i \in 0..n |-> IF i = 0 THEN u ELSE
                             IF j[i - 1].ok THEN Added(j[i - 1], ReadStack(d, j[i - 1].at)) ELSE j[i - 1]]
<1>1. \A v \in V : ReadOn(F, v) = IF v.ok THEN Added(v, ReadStack(d, v.at)) ELSE v
  BY DEF StackOf, ReadOn, Listings
<1>2. PICK g : ListsBy(F, Nat, u, n, g)
  <2> HIDE DEF F, V
  <2> QED BY ListingExists DEF F
<1> HIDE DEF F
<1>3. Good(g)
  <2>1. g = [i \in 0..n |-> g[i]] /\ g[0] = u
    BY <1>2 DEF ListsBy
  <2>2. \A i \in 0..n : i # 0 => i \in 1..n /\ i - 1 \in 0..n
    OBVIOUS
  <2>3. \A i \in 1..n : g[i] = ReadOn(F, g[i - 1])
    BY <1>2 DEF ListsBy
  <2>4. \A i \in 0..n : i # 0 => g[i - 1] \in V
    BY <1>2, <2>2 DEF ListsBy
  <2> HIDE DEF V
  <2>5. \A i \in 0..n : g[i] = IF i = 0 THEN u ELSE
          IF g[i - 1].ok THEN Added(g[i - 1], ReadStack(d, g[i - 1].at)) ELSE g[i - 1]
    BY <1>1, <2>1, <2>2, <2>3, <2>4
  <2>6. [i \in 0..n |-> g[i]] = [i \in 0..n |-> IF i = 0 THEN u ELSE
          IF g[i - 1].ok THEN Added(g[i - 1], ReadStack(d, g[i - 1].at)) ELSE g[i - 1]]
    BY <2>5
  <2> QED BY <2>1, <2>6
<1> DEFINE j == CHOOSE j : Good(j)
<1>4. Good(j)
  <2> HIDE DEF Good
  <2> QED BY <1>3
<1>5. Items(d, u, n, ReadStack) = j[n]
  BY DEF Items, Then
<1> HIDE DEF j
<1>6. \A i \in 0..n : j[i] = IF i = 0 THEN u ELSE
        IF j[i - 1].ok THEN Added(j[i - 1], ReadStack(d, j[i - 1].at)) ELSE j[i - 1]
  BY <1>4
<1>7. DOMAIN j = 0..n /\ j = [i \in 0..n |-> j[i]] /\ j[0] = u
  BY <1>4, <1>6
<1>8. \A i \in 1..n : j[i - 1] \in V => j[i] = ReadOn(F, j[i - 1])
  <2>1. \A i \in 1..n : i \in 0..n /\ i # 0
    OBVIOUS
  <2> HIDE DEF V
  <2> QED BY <1>1, <1>6, <2>1
<1>9. ListsBy(F, Nat, u, n, j)
  <2> HIDE DEF Good
  <2>1. F \in [Nat -> Readings(Nat)]
    BY DEF F
  <2> QED BY <1>7, <1>8, <2>1, ListingIs
<1> QED BY <1>5, <1>9 DEF F


(* What a witness says of its items.                                           *)
Wits == [lengths : Seq(Nat), some : BOOLEAN]
Witnesses == {0} \union Wits
Empties == {w \in Wits : ~w.some}
(* A witness of a list that was read.                                         *)
LEMMA WitnessIs ==
  ASSUME NEW u \in Listings(Nat), u.ok => Len(u.list) >= 2
  PROVE  /\ WitnessRead(u) \in Readings(Witnesses)
         /\ WitnessRead(u).ok => u.ok /\ WitnessRead(u).at = u.at /\ WitnessRead(u).value \in Wits
         /\ WitnessRead(u).ok /\ u.list \in Seq({0}) => WitnessRead(u).value \in Empties
<1>1. u.at \in Nat /\ u.list \in Seq(Nat) /\ u.ok \in BOOLEAN
  BY DEF Listings
<1>2. CASE ~u.ok
  BY <1>1, <1>2 DEF WitnessRead, Bad, Readings, Witnesses
<1>3. CASE u.ok
  <2> DEFINE l == u.list
             p == SubSeq(l, 1, 2)
             some == \E i \in DOMAIN l : l[i] > 0
  <2>1. WitnessRead(u) = [at |-> u.at, ok |-> TRUE, value |-> [lengths |-> p, some |-> some]]
    BY <1>3 DEF WitnessRead
  <2>2. p \in Seq(Nat)
    <3> HIDE DEF l
    <3>1. l \in Seq(Nat) /\ 2 <= Len(l)
      BY <1>1, <1>3 DEF l
    <3>2. \A n \in 1..2 : l[n] \in Nat
      BY <3>1
    <3> QED BY <3>2, SubSeqProperties
  <2>3. some \in BOOLEAN
    OBVIOUS
  <2>4. l \in Seq({0}) => some = FALSE
    <3> HIDE DEF l
    <3>1. ASSUME l \in Seq({0}), NEW i \in DOMAIN l PROVE ~ (l[i] > 0)
      <4>1. l[i] \in {0}
        BY <3>1
      <4> QED BY <4>1
    <3> QED BY <3>1
  <2> HIDE DEF p, some
  <2>5. [lengths |-> p, some |-> some] \in Wits
    BY <2>2, <2>3 DEF Wits
  <2>6. l \in Seq({0}) => [lengths |-> p, some |-> some] \in Empties
    BY <2>4, <2>5 DEF Empties
  <2>7. WitnessRead(u) \in Readings(Witnesses)
    BY <1>1, <2>1, <2>5 DEF Readings, Witnesses
  <2> QED BY <1>3, <2>1, <2>5, <2>6, <2>7
<1> QED BY <1>1, <1>2, <1>3

(* Items listed after an empty start, and after two that were.                 *)
PairOf(d, at) == Items(d, From(at), 2, SkipBytes)
(* Byte strings never go back.                                                *)
LEMMA BytesAdvance == ASSUME NEW d \in Seq(Nat) PROVE Advances(BytesOf(d), Nat, 0)
<1>1. /\ BytesOf(d) \in [Nat -> Readings(Nat)]
      /\ \A at \in Nat : BytesOf(d)[at].ok => at + 1 <= BytesOf(d)[at].at
  BY BytesAreRead DEF IsReader
<1>2. \A at \in Nat : BytesOf(d)[at].at \in Nat
  BY <1>1 DEF Readings
<1> QED BY <1>1, <1>2 DEF Advances
(* Two more items of F after u.                                                *)
LEMMA TwoMore ==
  ASSUME NEW Val, NEW F, Advances(F, Val, 0), NEW u \in Listings(Val), NEW g, ListsBy(F, Val, u, 2, g)
  PROVE  /\ g[2] \in Listings(Val)
         /\ g[2].ok => /\ u.ok /\ u.at <= g[2].at /\ Len(g[2].list) = Len(u.list) + 2
                       /\ \A Z : \A e \in Nat : Tells(F, e, Z) /\ u.at >= e /\ u.list \in Seq(Z) =>
                                              g[2].at >= e /\ g[2].list \in Seq(Z)
<1>1. F \in [Nat -> Readings(Val)] /\ \A at \in Nat : F[at].ok => at + 0 <= F[at].at
  BY DEF Advances
<1>2. \A at \in Nat : F[at].ok => at <= F[at].at
  <2>1. \A at \in Nat : F[at].at \in Nat
    BY <1>1 DEF Readings
  <2> QED BY <1>1, <2>1
<1>3. g[2] \in Listings(Val) /\ g[0] = u
  BY DEF ListsBy
<1>4. ASSUME g[2].ok PROVE u.ok /\ u.at <= g[2].at /\ Len(g[2].list) = Len(u.list) + 2
  <2>1. Moved(u, 2, 0, g)
    BY <1>1, <1>4, ListingMoves
  <2>2. 0 \in 0..2 /\ 2 \in 0..2
    OBVIOUS
  <2>3. g[0].ok /\ g[0].at <= g[2].at /\ Len(g[2].list) = Len(u.list) + 2
    BY <2>1, <2>2 DEF Moved
  <2> QED BY <1>3, <2>3
<1>5. ASSUME g[2].ok, NEW e \in Nat, NEW Z, Tells(F, e, Z), u.at >= e, u.list \in Seq(Z)
      PROVE  g[2].at >= e /\ g[2].list \in Seq(Z)
  BY <1>1, <1>2, <1>5, ListingTells
<1> QED BY <1>3, <1>4, <1>5
(* Two byte strings, as they are read.                                        *)
LEMMA PairIs ==
  ASSUME NEW d \in Seq(Nat), NEW at \in Nat
  PROVE  LET u == PairOf(d, at) IN
         /\ u \in Listings(Nat)
         /\ u.ok => at <= u.at /\ Len(u.list) = 2
         /\ \A e \in Nat : Blank(d, e) /\ at >= e /\ u.ok => u.at >= e /\ u.list \in Seq({0})
<1> DEFINE u0 == From(at)
           u == PairOf(d, at)
           F == BytesOf(d)
<1>1. u0 \in Listings(Nat) /\ u0.at = at /\ u0.list = << >>
  BY FromIsAListing
<1>2. Advances(F, Nat, 0) /\ F \in [Nat -> Readings(Nat)]
  BY BytesAdvance DEF Advances
<1>3. PICK g : ListsBy(F, Nat, u0, 2, g) /\ u = g[2]
  BY <1>1, <1>2, BytesListed DEF PairOf
<1>4. \A e \in Nat : Blank(d, e) => Tells(F, e, {0})
  BY BytesAreBlank
<1> HIDE DEF u0, u, F
<1>5. u \in Listings(Nat) /\ (u.ok => u0.at <= u.at /\ Len(u.list) = Len(u0.list) + 2)
  <2>1. Advances(F, Nat, 0) /\ u0 \in Listings(Nat) /\ ListsBy(F, Nat, u0, 2, g)
    BY <1>1, <1>2, <1>3
  <2>2. g[2] \in Listings(Nat) /\ (g[2].ok => u0.at <= g[2].at /\ Len(g[2].list) = Len(u0.list) + 2)
    BY ONLY <2>1, TwoMore
  <2> QED BY <1>3, <2>2
<1>6. ASSUME NEW e \in Nat, Blank(d, e), at >= e, u.ok PROVE u.at >= e /\ u.list \in Seq({0})
  <2>1. Tells(F, e, {0}) /\ u0.at >= e /\ u0.list \in Seq({0})
    BY <1>1, <1>4, <1>6
  <2> QED BY <1>1, <1>2, <1>3, <1>6, <2>1, TwoMore
<1>7. Len(u0.list) = 0
  BY <1>1
<1> QED BY <1>1, <1>5, <1>6, <1>7 DEF u
(* The readers of witnesses.                                                   *)
InputWitnessOf(d) == [at \in Nat |-> InputWitness(d, at)]
OutputWitnessOf(d) == [at \in Nat |-> OutputWitness(d, at)]
WitnessTold(d, at, r) ==
  /\ r \in Readings(Witnesses)
  /\ r.ok => at <= r.at /\ r.value \in Wits
  /\ \A e \in Nat : Blank(d, e) /\ at >= e /\ r.ok => r.at >= e /\ r.value \in Empties
(* The witness of an output tells what it should.                             *)
LEMMA OutputWitnessIs ==
  ASSUME NEW d \in Seq(Nat), NEW at \in Nat PROVE WitnessTold(d, at, OutputWitness(d, at))
<1> DEFINE u == PairOf(d, at)
           r == WitnessRead(u)
<1>1. /\ u \in Listings(Nat) /\ (u.ok => at <= u.at /\ Len(u.list) = 2)
      /\ \A e \in Nat : Blank(d, e) /\ at >= e /\ u.ok => u.at >= e /\ u.list \in Seq({0})
  BY PairIs
<1>2. OutputWitness(d, at) = r
  BY DEF OutputWitness, PairOf
<1> HIDE DEF u
<1>3. u.ok => Len(u.list) >= 2
  <2>1. u.ok => Len(u.list) = 2
    BY <1>1
  <2> DEFINE m == Len(u.list)
  <2>2. u.ok => m = 2
    BY <2>1
  <2> HIDE DEF m
  <2>3. u.ok => m >= 2
    BY <2>2
  <2> QED BY <2>3 DEF m
<1>4. /\ r \in Readings(Witnesses)
      /\ r.ok => u.ok /\ r.at = u.at /\ r.value \in Wits
      /\ r.ok /\ u.list \in Seq({0}) => r.value \in Empties
  BY <1>1, <1>3, WitnessIs
<1> HIDE DEF r
<1> QED BY <1>1, <1>2, <1>4 DEF WitnessTold
(* And so does the witness of an input.                                       *)
LEMMA InputWitnessIs ==
  ASSUME NEW d \in Seq(Nat), NEW at \in Nat PROVE WitnessTold(d, at, InputWitness(d, at))
<1> DEFINE p == PairOf(d, at)
           u == Items(d, p, 2, ReadStack)
           r == WitnessRead(u)
           F == StackOf(d)
<1>1. /\ p \in Listings(Nat) /\ (p.ok => at <= p.at /\ Len(p.list) = 2)
      /\ \A e \in Nat : Blank(d, e) /\ at >= e /\ p.ok => p.at >= e /\ p.list \in Seq({0})
  BY PairIs
<1>2. InputWitness(d, at) = r
  BY DEF InputWitness, PairOf
<1>3. Advances(F, Nat, 0) /\ F \in [Nat -> Readings(Nat)]
  BY StacksAreRead DEF Advances
<1>4. \A e \in Nat : Blank(d, e) => Tells(F, e, {0})
  BY StacksAreBlank
<1>5. PICK g : ListsBy(F, Nat, p, 2, g) /\ u = g[2]
  BY <1>1, <1>3, StacksListed
<1> HIDE DEF u, p, F
<1>6. u \in Listings(Nat) /\ (u.ok => p.ok /\ p.at <= u.at /\ Len(u.list) = Len(p.list) + 2)
  BY <1>1, <1>3, <1>5, TwoMore
<1>7. ASSUME NEW e \in Nat, Blank(d, e), at >= e, u.ok PROVE u.at >= e /\ u.list \in Seq({0})
  <2>1. Tells(F, e, {0}) /\ p.at >= e /\ p.list \in Seq({0})
    BY <1>1, <1>4, <1>6, <1>7
  <2> QED BY <1>1, <1>3, <1>5, <1>7, <2>1, TwoMore
<1>8. p.at \in Nat /\ u.at \in Nat
  BY <1>1, <1>6 DEF Listings
<1>9. u.ok => Len(u.list) >= 2 /\ at <= u.at
  BY <1>1, <1>6, <1>8
<1>10. /\ r \in Readings(Witnesses)
       /\ r.ok => u.ok /\ r.at = u.at /\ r.value \in Wits
       /\ r.ok /\ u.list \in Seq({0}) => r.value \in Empties
  BY <1>6, <1>9, WitnessIs
<1> HIDE DEF r
<1> QED BY <1>2, <1>7, <1>9, <1>10 DEF WitnessTold
(* A reader of witnesses.                                                      *)
ReadsWitnesses(d, F) ==
  /\ Advances(F, Witnesses, 0) /\ Tells(F, 0, Wits)
  /\ \A e \in Nat : Blank(d, e) => Tells(F, e, Empties)
(* A reader whose every witness tells what it should.                         *)
LEMMA WitnessesAreRead ==
  ASSUME NEW d \in Seq(Nat), NEW F, F = [at \in Nat |-> F[at]], \A at \in Nat : WitnessTold(d, at, F[at])
  PROVE  ReadsWitnesses(d, F)
<1>1. \A at \in Nat : F[at] \in Readings(Witnesses) /\ F[at].at \in Nat
  BY DEF WitnessTold, Readings
<1>2. F \in [Nat -> Readings(Witnesses)]
  BY <1>1
<1>3. Advances(F, Witnesses, 0)
  BY <1>1, <1>2 DEF Advances, WitnessTold
<1>4. Tells(F, 0, Wits)
  BY <1>1 DEF Tells, WitnessTold
<1>5. ASSUME NEW e \in Nat, Blank(d, e) PROVE Tells(F, e, Empties)
  BY <1>1, <1>5 DEF Tells, WitnessTold
<1> QED BY <1>3, <1>4, <1>5 DEF ReadsWitnesses
(* Inputs and outputs both have such a reader.                                *)
LEMMA BothReadWitnesses ==
  ASSUME NEW d \in Seq(Nat)
  PROVE  ReadsWitnesses(d, InputWitnessOf(d)) /\ ReadsWitnesses(d, OutputWitnessOf(d))
<1>1. \A at \in Nat : WitnessTold(d, at, InputWitnessOf(d)[at]) /\ WitnessTold(d, at, OutputWitnessOf(d)[at])
  BY InputWitnessIs, OutputWitnessIs DEF InputWitnessOf, OutputWitnessOf
<1>2. /\ InputWitnessOf(d) = [at \in Nat |-> InputWitnessOf(d)[at]]
      /\ OutputWitnessOf(d) = [at \in Nat |-> OutputWitnessOf(d)[at]]
  BY DEF InputWitnessOf, OutputWitnessOf
<1> QED BY <1>1, <1>2, WitnessesAreRead
(* Witnesses of inputs one after the other.                                    *)
LEMMA InputWitnessesListed ==
  ASSUME NEW d \in Seq(Nat), NEW u \in Listings(Witnesses), NEW n \in Nat,
         InputWitnessOf(d) \in [Nat -> Readings(Witnesses)]
  PROVE  \E g : ListsBy(InputWitnessOf(d), Witnesses, u, n, g) /\ Items(d, u, n, InputWitness) = g[n]
<1> DEFINE F == InputWitnessOf(d)
           V == Listings(Witnesses)
           Good(j) == j = [i \in 0..n |-> IF i = 0 THEN u ELSE
                             IF j[i - 1].ok THEN Added(j[i - 1], InputWitness(d, j[i - 1].at)) ELSE j[i - 1]]
<1>1. \A v \in V : ReadOn(F, v) = IF v.ok THEN Added(v, InputWitness(d, v.at)) ELSE v
  BY DEF InputWitnessOf, ReadOn, Listings
<1>2. PICK g : ListsBy(F, Witnesses, u, n, g)
  <2> HIDE DEF F, V
  <2> QED BY ListingExists DEF F
<1> HIDE DEF F
<1>3. Good(g)
  <2>1. g = [i \in 0..n |-> g[i]] /\ g[0] = u
    BY <1>2 DEF ListsBy
  <2>2. \A i \in 0..n : i # 0 => i \in 1..n /\ i - 1 \in 0..n
    OBVIOUS
  <2>3. \A i \in 1..n : g[i] = ReadOn(F, g[i - 1])
    BY <1>2 DEF ListsBy
  <2>4. \A i \in 0..n : i # 0 => g[i - 1] \in V
    BY <1>2, <2>2 DEF ListsBy
  <2> HIDE DEF V
  <2>5. \A i \in 0..n : g[i] = IF i = 0 THEN u ELSE
          IF g[i - 1].ok THEN Added(g[i - 1], InputWitness(d, g[i - 1].at)) ELSE g[i - 1]
    BY <1>1, <2>1, <2>2, <2>3, <2>4
  <2>6. [i \in 0..n |-> g[i]] = [i \in 0..n |-> IF i = 0 THEN u ELSE
          IF g[i - 1].ok THEN Added(g[i - 1], InputWitness(d, g[i - 1].at)) ELSE g[i - 1]]
    BY <2>5
  <2> QED BY <2>1, <2>6
<1> DEFINE j == CHOOSE j : Good(j)
<1>4. Good(j)
  <2> HIDE DEF Good
  <2> QED BY <1>3
<1>5. Items(d, u, n, InputWitness) = j[n]
  BY DEF Items, Then
<1> HIDE DEF j
<1>6. \A i \in 0..n : j[i] = IF i = 0 THEN u ELSE
        IF j[i - 1].ok THEN Added(j[i - 1], InputWitness(d, j[i - 1].at)) ELSE j[i - 1]
  BY <1>4
<1>7. DOMAIN j = 0..n /\ j = [i \in 0..n |-> j[i]] /\ j[0] = u
  BY <1>4, <1>6
<1>8. \A i \in 1..n : j[i - 1] \in V => j[i] = ReadOn(F, j[i - 1])
  <2>1. \A i \in 1..n : i \in 0..n /\ i # 0
    OBVIOUS
  <2> HIDE DEF V
  <2> QED BY <1>1, <1>6, <2>1
<1>9. ListsBy(F, Witnesses, u, n, j)
  <2> HIDE DEF Good
  <2>1. F \in [Nat -> Readings(Witnesses)]
    BY DEF F
  <2> QED BY <1>7, <1>8, <2>1, ListingIs
<1> QED BY <1>5, <1>9 DEF F


(* Witnesses of outputs one after the other.                                   *)
LEMMA OutputWitnessesListed ==
  ASSUME NEW d \in Seq(Nat), NEW u \in Listings(Witnesses), NEW n \in Nat,
         OutputWitnessOf(d) \in [Nat -> Readings(Witnesses)]
  PROVE  \E g : ListsBy(OutputWitnessOf(d), Witnesses, u, n, g) /\ Items(d, u, n, OutputWitness) = g[n]
<1> DEFINE F == OutputWitnessOf(d)
           V == Listings(Witnesses)
           Good(j) == j = [i \in 0..n |-> IF i = 0 THEN u ELSE
                             IF j[i - 1].ok THEN Added(j[i - 1], OutputWitness(d, j[i - 1].at)) ELSE j[i - 1]]
<1>1. \A v \in V : ReadOn(F, v) = IF v.ok THEN Added(v, OutputWitness(d, v.at)) ELSE v
  BY DEF OutputWitnessOf, ReadOn, Listings
<1>2. PICK g : ListsBy(F, Witnesses, u, n, g)
  <2> HIDE DEF F, V
  <2> QED BY ListingExists DEF F
<1> HIDE DEF F
<1>3. Good(g)
  <2>1. g = [i \in 0..n |-> g[i]] /\ g[0] = u
    BY <1>2 DEF ListsBy
  <2>2. \A i \in 0..n : i # 0 => i \in 1..n /\ i - 1 \in 0..n
    OBVIOUS
  <2>3. \A i \in 1..n : g[i] = ReadOn(F, g[i - 1])
    BY <1>2 DEF ListsBy
  <2>4. \A i \in 0..n : i # 0 => g[i - 1] \in V
    BY <1>2, <2>2 DEF ListsBy
  <2> HIDE DEF V
  <2>5. \A i \in 0..n : g[i] = IF i = 0 THEN u ELSE
          IF g[i - 1].ok THEN Added(g[i - 1], OutputWitness(d, g[i - 1].at)) ELSE g[i - 1]
    BY <1>1, <2>1, <2>2, <2>3, <2>4
  <2>6. [i \in 0..n |-> g[i]] = [i \in 0..n |-> IF i = 0 THEN u ELSE
          IF g[i - 1].ok THEN Added(g[i - 1], OutputWitness(d, g[i - 1].at)) ELSE g[i - 1]]
    BY <2>5
  <2> QED BY <2>1, <2>6
<1> DEFINE j == CHOOSE j : Good(j)
<1>4. Good(j)
  <2> HIDE DEF Good
  <2> QED BY <1>3
<1>5. Items(d, u, n, OutputWitness) = j[n]
  BY DEF Items, Then
<1> HIDE DEF j
<1>6. \A i \in 0..n : j[i] = IF i = 0 THEN u ELSE
        IF j[i - 1].ok THEN Added(j[i - 1], OutputWitness(d, j[i - 1].at)) ELSE j[i - 1]
  BY <1>4
<1>7. DOMAIN j = 0..n /\ j = [i \in 0..n |-> j[i]] /\ j[0] = u
  BY <1>4, <1>6
<1>8. \A i \in 1..n : j[i - 1] \in V => j[i] = ReadOn(F, j[i - 1])
  <2>1. \A i \in 1..n : i \in 0..n /\ i # 0
    OBVIOUS
  <2> HIDE DEF V
  <2> QED BY <1>1, <1>6, <2>1
<1>9. ListsBy(F, Witnesses, u, n, j)
  <2> HIDE DEF Good
  <2>1. F \in [Nat -> Readings(Witnesses)]
    BY DEF F
  <2> QED BY <1>7, <1>8, <2>1, ListingIs
<1> QED BY <1>5, <1>9 DEF F

(* The parts of a transaction, as they are scanned.                            *)
InsOf(d) == Counted(d, BoundedCount(d, 2, 4), ReadInput)
OutsOf(d) == Counted(d, BoundedCount(d, InsOf(d).at, 4), ReadOutput)
InWitsOf(d) == Items(d, From(OutsOf(d).at + 1), IF d[2] = 1 THEN Len(InsOf(d).list) ELSE 0, InputWitness)
OutWitsOf(d) == Items(d, From(InWitsOf(d).at), IF d[2] = 1 THEN Len(OutsOf(d).list) ELSE 0, OutputWitness)
Scannable(d) ==
  /\ ~ (Len(d) < 4) /\ d[2] \in {0, 1} /\ InsOf(d).ok /\ OutsOf(d).ok /\ ~ (OutsOf(d).at + 1 > Len(d))
  /\ InWitsOf(d).ok /\ OutWitsOf(d).ok
  /\ WitnessNeeded(d[2], InWitsOf(d).list, OutWitsOf(d).list) /\ OutWitsOf(d).at = Len(d)
BaseOf(d) == <<d[1], 0>> \o SubSeq(d, 3, OutsOf(d).at + 1)
Scanned(d) ==
  [base |-> BaseOf(d), flags |-> d[2], ins |-> InsOf(d).list, outs |-> OutsOf(d).list,
   witness |-> Each(OutWitsOf(d).list, LAMBDA w : w.lengths)]
(* The scanner gives what it scanned of a text that is scannable.             *)
LEMMA ScanIs == \A d : ScanTransaction(d) = IF Scannable(d) THEN Scanned(d) ELSE None
<1> TAKE d
<1> DEFINE ins == InsOf(d)
           outs == OutsOf(d)
           inw == InWitsOf(d)
           outw == OutWitsOf(d)
<1>1. ScanTransaction(d) = IF Len(d) < 4 THEN None ELSE IF d[2] \notin {0, 1} THEN None ELSE WithInputs(d, ins)
  BY DEF ScanTransaction, InsOf
<1>2. WithInputs(d, ins) = IF ~ins.ok THEN None ELSE WithOutputs(d, ins, outs)
  BY DEF WithInputs, OutsOf
<1>3. WithOutputs(d, ins, outs) =
        IF ~outs.ok THEN None ELSE IF outs.at + 1 > Len(d) THEN None ELSE WithInputWitness(d, ins, outs, inw)
  BY DEF WithOutputs, InWitsOf
<1>4. WithInputWitness(d, ins, outs, inw) = IF ~inw.ok THEN None ELSE Whole(d, ins, outs, inw, outw)
  BY DEF WithInputWitness, OutWitsOf
<1>5. Whole(d, ins, outs, inw, outw) =
        IF ~outw.ok THEN None
        ELSE IF ~WitnessNeeded(d[2], inw.list, outw.list) \/ outw.at # Len(d) THEN None ELSE Scanned(d)
  BY DEF Whole, Scanned, BaseOf
<1> HIDE DEF ins, outs, inw, outw
<1>6. Scannable(d) <=>
        /\ ~ (Len(d) < 4) /\ d[2] \in {0, 1} /\ ins.ok /\ outs.ok /\ ~ (outs.at + 1 > Len(d))
        /\ inw.ok /\ outw.ok /\ WitnessNeeded(d[2], inw.list, outw.list) /\ outw.at = Len(d)
  BY DEF Scannable, ins, outs, inw, outw
<1> QED BY <1>1, <1>2, <1>3, <1>4, <1>5, <1>6

(* Counted items: at least four cells each, listed as their reader tells them. *)
CountedWell(at, n, u, Z) ==
  /\ u.ok /\ u.at \in Nat /\ at + 1 <= u.at /\ u.list \in Seq(Z) /\ n.at + (n.value * 4) <= u.at
(* What was counted is listed well.                                           *)
LEMMA CountedTells ==
  ASSUME NEW d \in Seq(Nat), NEW at \in Nat, NEW n, n = BoundedCount(d, at, 4), n.ok,
         NEW Val, NEW F, IsReader(F, Val, 4, Len(d)), NEW Z, Tells(F, 0, Z),
         NEW g, ListsBy(F, Val, From(n.at), n.value, g), g[n.value].ok
  PROVE  CountedWell(at, n, g[n.value], Z)
<1>1. n.at \in Nat /\ n.value \in Nat /\ at + 1 <= n.at
  BY BoundedIs DEF Readings
<1>2. F \in [Nat -> Readings(Val)] /\ \A x \in Nat : F[x].ok => x + 4 <= F[x].at
  BY DEF IsReader
<1>3. \A x \in Nat : F[x].ok => x <= F[x].at
  <2>1. \A x \in Nat : F[x].at \in Nat
    BY <1>2 DEF Readings
  <2> QED BY <1>2, <2>1
<1>4. From(n.at) \in Listings(Val) /\ From(n.at).at = n.at /\ From(n.at).list = << >>
  BY <1>1, FromIsAListing
<1>5. g[n.value] \in Listings(Val)
  BY <1>1 DEF ListsBy
<1>6. Moved(From(n.at), n.value, 4, g)
  BY <1>1, <1>2, <1>4, ListingMoves
<1>7. g[n.value].list \in Seq(Z)
  <2>0. << >> \in Seq(Z) /\ 0 \in Nat
    OBVIOUS
  <2>2. From(n.at).list \in Seq(Z)
    BY <1>4, <2>0
  <2>1. From(n.at).at >= 0
    BY <1>1, <1>4
  <2> QED BY <1>1, <1>2, <1>3, <1>4, <2>0, <2>1, <2>2, ListingTells
<1>8. n.at + (n.value * 4) <= g[n.value].at /\ g[n.value].at \in Nat
  BY <1>4, <1>5, <1>6 DEF Moved, Listings
<1>9. at + 1 <= g[n.value].at
  BY <1>1, <1>8
<1> QED BY <1>7, <1>8, <1>9 DEF CountedWell
TwoCounts(d, b, at, n, Val, F, G, g, h) ==
  /\ Shares(d, b) /\ at \in Nat /\ at >= 2 /\ n = BoundedCount(d, at, 4) /\ n.ok
  /\ IsReader(F, Val, 4, Len(d)) /\ Alike(F, G, 2, Len(b))
  /\ ListsBy(F, Val, From(n.at), n.value, g) /\ g[n.value].ok /\ g[n.value].at <= Len(b)
  /\ ListsBy(G, Val, From(n.at), n.value, h)
(* Counted items are the same in two texts that share them.                   *)
LEMMA CountedAlike ==
  ASSUME NEW d, NEW b, NEW at, NEW n, NEW Val, NEW F, NEW G, NEW g, NEW h,
         TwoCounts(d, b, at, n, Val, F, G, g, h)
  PROVE  BoundedCount(b, at, 4) = n /\ h[n.value] = g[n.value]
<1>a. /\ Shares(d, b) /\ at \in Nat /\ at >= 2 /\ n = BoundedCount(d, at, 4) /\ n.ok
      /\ IsReader(F, Val, 4, Len(d)) /\ Alike(F, G, 2, Len(b))
      /\ ListsBy(F, Val, From(n.at), n.value, g) /\ g[n.value].ok /\ g[n.value].at <= Len(b)
      /\ ListsBy(G, Val, From(n.at), n.value, h)
  BY DEF TwoCounts
<1>0. d \in Seq(Nat) /\ Len(b) \in Nat
  BY <1>a DEF Shares
<1>1. n.at \in Nat /\ n.value \in Nat /\ at + 1 <= n.at
  BY <1>a, <1>0, BoundedIs DEF Readings
<1>2. F \in [Nat -> Readings(Val)] /\ \A x \in Nat : F[x].ok => x + 4 <= F[x].at
  BY <1>a DEF IsReader
<1>3. \A x \in Nat : F[x].ok => x <= F[x].at
  <2>1. \A x \in Nat : F[x].at \in Nat
    BY <1>2 DEF Readings
  <2> QED BY <1>2, <2>1
<1>4. From(n.at) \in Listings(Val) /\ From(n.at).at = n.at
  BY <1>1, FromIsAListing
<1>5. Moved(From(n.at), n.value, 4, g)
  BY <1>a, <1>1, <1>2, <1>4, ListingMoves
<1>6. g[n.value].at \in Nat
  BY <1>a, <1>1 DEF ListsBy, Listings
<1>7. n.at + (n.value * 4) <= Len(b)
  BY <1>a, <1>0, <1>1, <1>4, <1>5, <1>6 DEF Moved
<1>8. BoundedCount(b, at, 4) = n
  BY <1>a, <1>7, BoundedAlike
<1>9. h[n.value] = g[n.value]
  <2>1. From(n.at).at >= 2
    BY <1>a, <1>1, <1>4
  <2> DEFINE u == From(n.at)
             m == n.value
             e == Len(b)
  <2>2. TwoListings(Val, F, G, u, m, g, h, e)
    BY <1>a, <1>0, <1>1, <1>2, <1>3, <1>4, <2>1 DEF TwoListings
  <2> HIDE DEF u, m, e
  <2>3. h[m] = g[m]
    BY ONLY <2>2, ListingsAlike
  <2> QED BY <2>3 DEF m
<1> QED BY <1>8, <1>9

(* The inputs and outputs are the same in a text that goes as far.             *)
LEMMA InsAre ==
  ASSUME NEW d \in Seq(Nat), InsOf(d).ok
  PROVE  /\ InsOf(d).at \in Nat /\ InsOf(d).at >= 3 /\ InsOf(d).list \in Seq(Ins)
         /\ \A b : Shares(d, b) /\ InsOf(d).at <= Len(b) => InsOf(b) = InsOf(d)
<1> DEFINE n == BoundedCount(d, 2, 4)
           F == InputOf(d)
<1>1. n.ok
  BY DEF InsOf, Counted
<1>2. n.at \in Nat /\ n.value \in Nat
  BY BoundedIs DEF Readings
<1>3. InsOf(d) = Items(d, From(n.at), n.value, ReadInput)
  BY <1>1 DEF InsOf, Counted
<1>4. From(n.at) \in Listings(Inputs)
  BY <1>2, FromIsAListing
<1>5. IsReader(F, Inputs, 4, Len(d)) /\ Tells(F, 0, Ins) /\ F \in [Nat -> Readings(Inputs)]
  BY InputsAreRead DEF IsReader
<1>6. PICK g : ListsBy(F, Inputs, From(n.at), n.value, g) /\ InsOf(d) = g[n.value]
  BY <1>2, <1>3, <1>4, <1>5, InputsListed
<1> HIDE DEF F
<1>7. CountedWell(2, n, InsOf(d), Ins)
  <2> HIDE DEF n
  <2>1. n = BoundedCount(d, 2, 4)
    BY DEF n
  <2> QED BY <1>1, <1>5, <1>6, <2>1, CountedTells
<1>8. InsOf(d).at \in Nat /\ InsOf(d).at >= 3 /\ InsOf(d).list \in Seq(Ins)
  BY <1>7 DEF CountedWell
<1>9. ASSUME NEW b, Shares(d, b), InsOf(d).at <= Len(b) PROVE InsOf(b) = InsOf(d)
  <2> DEFINE G == InputOf(b)
  <2>0. b \in Seq(Nat)
    BY <1>9 DEF Shares
  <2>1. G \in [Nat -> Readings(Inputs)]
    BY <2>0, InputsAreRead DEF IsReader
  <2>2. PICK h : ListsBy(G, Inputs, From(n.at), n.value, h)
                 /\ Items(b, From(n.at), n.value, ReadInput) = h[n.value]
    BY <1>2, <1>4, <2>0, <2>1, InputsListed
  <2>3. Alike(F, G, 2, Len(b))
    BY <1>9, InputsAlike DEF F
  <2> HIDE DEF G, n
  <2>4. n = BoundedCount(d, 2, 4) /\ 2 \in Nat /\ 2 >= 2
    BY DEF n
  <2>5. BoundedCount(b, 2, 4) = n /\ h[n.value] = g[n.value]
    <3>1. TwoCounts(d, b, 2, n, Inputs, F, G, g, h)
      BY <1>1, <1>5, <1>6, <1>9, <2>2, <2>3, <2>4 DEF TwoCounts
    <3> QED BY ONLY <3>1, CountedAlike
  <2> QED BY <1>1, <1>6, <2>2, <2>5 DEF InsOf, Counted
<1> QED BY <1>8, <1>9
(* The outputs, as they are scanned, and in a text that shares them.          *)
LEMMA OutsAre ==
  ASSUME NEW d \in Seq(Nat), InsOf(d).ok, OutsOf(d).ok
  PROVE  /\ OutsOf(d).at \in Nat /\ OutsOf(d).at >= 4 /\ OutsOf(d).list \in Seq(Outs)
         /\ \A b : Shares(d, b) /\ OutsOf(d).at <= Len(b) =>
              /\ InsOf(b) = InsOf(d) /\ OutsOf(b) = OutsOf(d)
<1> DEFINE at == InsOf(d).at
           n == BoundedCount(d, at, 4)
           F == OutputOf(d)
<1>0. at \in Nat /\ at >= 3 /\ \A b : Shares(d, b) /\ at <= Len(b) => InsOf(b) = InsOf(d)
  BY InsAre
<1> HIDE DEF at
<1>1. n.ok
  BY DEF OutsOf, Counted, at
<1>2. n.at \in Nat /\ n.value \in Nat
  BY <1>0, BoundedIs DEF Readings
<1>3. OutsOf(d) = Items(d, From(n.at), n.value, ReadOutput)
  BY <1>1 DEF OutsOf, Counted, at
<1>4. From(n.at) \in Listings(Outputs)
  BY <1>2, FromIsAListing
<1>5. IsReader(F, Outputs, 4, Len(d)) /\ Tells(F, 0, Outs) /\ F \in [Nat -> Readings(Outputs)]
  BY OutputsAreRead DEF IsReader
<1>6. PICK g : ListsBy(F, Outputs, From(n.at), n.value, g) /\ OutsOf(d) = g[n.value]
  BY <1>2, <1>3, <1>4, <1>5, OutputsListed
<1> HIDE DEF F
<1>7. CountedWell(at, n, OutsOf(d), Outs)
  <2> HIDE DEF n
  <2>1. n = BoundedCount(d, at, 4)
    BY DEF n
  <2> QED BY <1>0, <1>1, <1>5, <1>6, <2>1, CountedTells
<1>8. OutsOf(d).at \in Nat /\ OutsOf(d).at >= at + 1 /\ OutsOf(d).at >= 4 /\ OutsOf(d).list \in Seq(Outs)
  BY <1>0, <1>7 DEF CountedWell
<1>9. ASSUME NEW b, Shares(d, b), OutsOf(d).at <= Len(b) PROVE InsOf(b) = InsOf(d) /\ OutsOf(b) = OutsOf(d)
  <2> DEFINE G == OutputOf(b)
  <2>0. b \in Seq(Nat) /\ Len(b) \in Nat
    BY <1>9 DEF Shares
  <2>1. G \in [Nat -> Readings(Outputs)]
    BY <2>0, OutputsAreRead DEF IsReader
  <2>2. PICK h : ListsBy(G, Outputs, From(n.at), n.value, h)
                 /\ Items(b, From(n.at), n.value, ReadOutput) = h[n.value]
    BY <1>2, <1>4, <2>0, <2>1, OutputsListed
  <2>3. Alike(F, G, 2, Len(b))
    BY <1>9, OutputsAlike DEF F
  <2> HIDE DEF G, n
  <2>4. n = BoundedCount(d, at, 4) /\ at >= 2
    BY <1>0 DEF n
  <2>5. BoundedCount(b, at, 4) = n /\ h[n.value] = g[n.value]
    <3>1. TwoCounts(d, b, at, n, Outputs, F, G, g, h)
      BY <1>0, <1>1, <1>5, <1>6, <1>9, <2>2, <2>3, <2>4 DEF TwoCounts
    <3> QED BY ONLY <3>1, CountedAlike
  <2>6. InsOf(b) = InsOf(d)
    <3>1. at <= Len(b)
      BY <1>0, <1>8, <1>9, <2>0
    <3> QED BY <1>0, <1>9, <3>1
  <2>7. OutsOf(b) = Counted(b, n, ReadOutput)
    BY <2>5, <2>6 DEF OutsOf, at
  <2>8. Counted(b, n, ReadOutput) = Items(b, From(n.at), n.value, ReadOutput)
    BY <1>1 DEF Counted
  <2> QED BY <1>6, <2>2, <2>5, <2>6, <2>7, <2>8
<1> QED BY <1>8, <1>9

(* The witnesses: what their readers tell; none over blank text.               *)
WitnessesListed(d, start, u) ==
  /\ u \in Listings(Witnesses)
  /\ u.ok => /\ start <= u.at /\ u.list \in Seq(Wits)
             /\ \A e \in Nat : Blank(d, e) /\ start >= e => u.list \in Seq(Empties)
(* The witnesses that were listed are such.                                   *)
LEMMA WitnessListing ==
  ASSUME NEW d, NEW F, ReadsWitnesses(d, F), NEW start \in Nat, NEW n \in Nat,
         NEW g, ListsBy(F, Witnesses, From(start), n, g)
  PROVE  WitnessesListed(d, start, g[n])
<1> DEFINE u == From(start)
<1>1. /\ F \in [Nat -> Readings(Witnesses)] /\ (\A at \in Nat : F[at].ok => at + 0 <= F[at].at)
      /\ Tells(F, 0, Wits) /\ \A e \in Nat : Blank(d, e) => Tells(F, e, Empties)
  BY DEF ReadsWitnesses, Advances
<1>2. \A at \in Nat : F[at].ok => at <= F[at].at
  <2>1. \A at \in Nat : F[at].at \in Nat
    BY <1>1 DEF Readings
  <2> QED BY <1>1, <2>1
<1>3. u \in Listings(Witnesses) /\ u.at = start /\ u.list = << >>
  BY FromIsAListing
<1> HIDE DEF u
<1>4. g[n] \in Listings(Witnesses)
  BY DEF ListsBy
<1>5. ASSUME g[n].ok
      PROVE  /\ start <= g[n].at /\ g[n].list \in Seq(Wits)
             /\ \A e \in Nat : Blank(d, e) /\ start >= e => g[n].list \in Seq(Empties)
  <2>1. ListsBy(F, Witnesses, u, n, g)
    BY DEF u
  <2>2. \A Z : u.list \in Seq(Z)
    BY <1>3
  <2>3. ASSUME NEW e \in Nat, NEW Z, Tells(F, e, Z), start >= e
        PROVE  g[n].at >= e /\ g[n].list \in Seq(Z)
    <3>1. u.at >= e
      BY <1>3, <2>3
    <3> QED BY <1>1, <1>2, <1>3, <1>5, <2>1, <2>2, <2>3, <3>1, ListingTells
  <2>4. g[n].list \in Seq(Wits)
    BY <1>1, <2>3
  <2>5. \A e \in Nat : Blank(d, e) /\ start >= e => g[n].list \in Seq(Empties)
    BY <1>1, <2>3
  <2>6. Moved(u, n, 0, g)
    BY <1>1, <1>3, <1>5, <2>1, ListingMoves
  <2>7. start <= g[n].at
    <3>1. 0 \in 0..n /\ g[0] = u
      BY DEF ListsBy, u
    <3> QED BY <1>3, <2>6, <3>1 DEF Moved
  <2> QED BY <2>4, <2>5, <2>7
<1> QED BY <1>4, <1>5 DEF WitnessesListed
(* The witnesses of the inputs.                                               *)
LEMMA InWitsAre ==
  ASSUME NEW d \in Seq(Nat), InsOf(d).ok, OutsOf(d).ok
  PROVE  /\ WitnessesListed(d, OutsOf(d).at + 1, InWitsOf(d))
         /\ d[2] = 0 => InWitsOf(d) = From(OutsOf(d).at + 1)
<1> DEFINE n == IF d[2] = 1 THEN Len(InsOf(d).list) ELSE 0
           start == OutsOf(d).at + 1
           F == InputWitnessOf(d)
<1>1. start \in Nat
  BY OutsAre
<1>2. n \in Nat /\ (d[2] = 0 => n = 0)
  <2>1. InsOf(d).list \in Seq(Ins)
    BY InsAre
  <2>2. Len(InsOf(d).list) \in Nat
    BY <2>1
  <2> QED BY <2>2
<1>3. ReadsWitnesses(d, F) /\ F \in [Nat -> Readings(Witnesses)]
  BY BothReadWitnesses DEF ReadsWitnesses, Advances
<1>4. InWitsOf(d) = Items(d, From(start), n, InputWitness)
  BY DEF InWitsOf
<1>5. From(start) \in Listings(Witnesses)
  BY <1>1, FromIsAListing
<1> HIDE DEF n, start
<1>6. PICK g : ListsBy(F, Witnesses, From(start), n, g) /\ InWitsOf(d) = g[n]
  BY <1>2, <1>3, <1>4, <1>5, InputWitnessesListed
<1> HIDE DEF F
<1>7. WitnessesListed(d, start, InWitsOf(d))
  BY <1>1, <1>2, <1>3, <1>6, WitnessListing
<1>8. d[2] = 0 => InWitsOf(d) = From(start)
  BY <1>2, <1>6 DEF ListsBy
<1> QED BY <1>7, <1>8 DEF start
(* The witnesses of the outputs.                                              *)
LEMMA OutWitsAre ==
  ASSUME NEW d \in Seq(Nat), InsOf(d).ok, OutsOf(d).ok
  PROVE  /\ WitnessesListed(d, InWitsOf(d).at, OutWitsOf(d))
         /\ d[2] = 0 => OutWitsOf(d) = From(InWitsOf(d).at)
<1> DEFINE n == IF d[2] = 1 THEN Len(OutsOf(d).list) ELSE 0
           start == InWitsOf(d).at
           F == OutputWitnessOf(d)
<1>1. start \in Nat
  BY InWitsAre DEF WitnessesListed, Listings
<1>2. n \in Nat /\ (d[2] = 0 => n = 0)
  <2>1. OutsOf(d).list \in Seq(Outs)
    BY OutsAre
  <2>2. Len(OutsOf(d).list) \in Nat
    BY <2>1
  <2> QED BY <2>2
<1>3. ReadsWitnesses(d, F) /\ F \in [Nat -> Readings(Witnesses)]
  BY BothReadWitnesses DEF ReadsWitnesses, Advances
<1>4. OutWitsOf(d) = Items(d, From(start), n, OutputWitness)
  BY DEF OutWitsOf
<1>5. From(start) \in Listings(Witnesses)
  BY <1>1, FromIsAListing
<1> HIDE DEF n, start
<1>6. PICK g : ListsBy(F, Witnesses, From(start), n, g) /\ OutWitsOf(d) = g[n]
  BY <1>2, <1>3, <1>4, <1>5, OutputWitnessesListed
<1> HIDE DEF F
<1>7. WitnessesListed(d, start, OutWitsOf(d))
  BY <1>1, <1>2, <1>3, <1>6, WitnessListing
<1>8. d[2] = 0 => OutWitsOf(d) = From(start)
  BY <1>2, <1>6 DEF ListsBy
<1> QED BY <1>7, <1>8 DEF start

(* A transaction that is scanned is one, and is none of what is absent.        *)
LEMMA ScannedIsOne ==
  ASSUME NEW d \in Seq(Nat), Scannable(d)
  PROVE  Scanned(d) \in Transaction /\ Scanned(d) # None /\ ScanTransaction(d) = Scanned(d)
<1>1. InsOf(d).ok /\ OutsOf(d).ok /\ d[2] \in {0, 1} /\ ~ (OutsOf(d).at + 1 > Len(d)) /\ OutWitsOf(d).ok
      /\ ~ (Len(d) < 4)
  BY DEF Scannable
<1>2. InsOf(d).list \in Seq(Ins) /\ OutsOf(d).list \in Seq(Outs) /\ OutsOf(d).at \in Nat /\ OutsOf(d).at >= 4
  BY <1>1, InsAre, OutsAre
<1>3. BaseOf(d) \in Seq(Nat)
  <2> DEFINE e == OutsOf(d).at + 1
             s == SubSeq(d, 3, e)
  <2>0. Len(d) \in Nat /\ \A i \in 1..Len(d) : d[i] \in Nat
    OBVIOUS
  <2>1. e \in Nat /\ e <= Len(d) /\ d[1] \in Nat
    <3>1. e \in Nat /\ e <= Len(d) /\ e >= 5
      <4>1. OutsOf(d).at \in Nat /\ OutsOf(d).at >= 4
        BY ONLY <1>2
      <4>2. ~ (OutsOf(d).at + 1 > Len(d))
        BY ONLY <1>1
      <4> QED BY ONLY <4>1, <4>2, <2>0
    <3> HIDE DEF e
    <3>2. 1 \in 1..Len(d)
      BY <2>0, <3>1
    <3> QED BY ONLY <2>0, <3>1, <3>2
  <2> HIDE DEF e
  <2>2. \A i \in 3..e : d[i] \in Nat
    BY <2>0, <2>1
  <2>3. s \in Seq(Nat)
    BY <2>1, <2>2, SubSeqProperties
  <2> HIDE DEF s
  <2>4. <<d[1], 0>> \in Seq(Nat)
    BY <2>1
  <2>5. <<d[1], 0>> \o s \in Seq(Nat)
    BY <2>3, <2>4
  <2> QED BY <2>5 DEF BaseOf, s, e
<1>4. Each(OutWitsOf(d).list, LAMBDA w : w.lengths) \in Seq(Seq(Nat))
  <2> DEFINE l == OutWitsOf(d).list
  <2>1. l \in Seq(Wits)
    BY <1>1, OutWitsAre DEF WitnessesListed
  <2> HIDE DEF l
  <2>2. \A i \in 1..Len(l) : l[i].lengths \in Seq(Nat)
    <3>1. \A w \in Wits : w.lengths \in Seq(Nat)
      BY DEF Wits
    <3> QED BY <2>1, <3>1
  <2>3. DOMAIN l = 1..Len(l) /\ Len(l) \in Nat
    BY <2>1
  <2> DEFINE V == Seq(Nat)
             m == [i \in DOMAIN l |-> l[i].lengths]
  <2>4. m \in Seq(V)
    <3> HIDE DEF V
    <3>1. \A i \in 1..Len(l) : l[i].lengths \in V
      BY <2>2 DEF V
    <3> QED BY <2>3, <3>1
  <2> QED BY <2>4 DEF Each, l
<1>5. Scanned(d) \in Transaction
  <2> DEFINE w == Each(OutWitsOf(d).list, LAMBDA x : x.lengths)
             b == BaseOf(d)
  <2> HIDE DEF w, b
  <2>1. Scanned(d) = [base |-> b, flags |-> d[2], ins |-> InsOf(d).list, outs |-> OutsOf(d).list, witness |-> w]
    BY DEF Scanned, w, b
  <2>2. w \in Seq(Seq(Nat)) /\ b \in Seq(Nat)
    BY <1>3, <1>4 DEF w, b
  <2> QED BY <1>1, <1>2, <2>1, <2>2 DEF Transaction, Ins, Outs
<1>6. Scanned(d) # None
  BY <1>5, TransactionAssumption
<1> QED BY <1>5, <1>6, ScanIs

(* The base of a transaction, cell by cell.                                    *)
LEMMA BaseIs ==
  ASSUME NEW d \in Seq(Nat), Scannable(d)
  PROVE  LET b == BaseOf(d) IN
         /\ b \in Seq(Nat) /\ Len(b) = OutsOf(d).at + 1 /\ Len(b) <= Len(d) /\ Len(b) >= 5
         /\ b[1] = d[1] /\ b[2] = 0 /\ Shares(d, b)
<1> DEFINE e == OutsOf(d).at + 1
           s == SubSeq(d, 3, e)
           h == <<d[1], 0>>
           b == h \o s
<1>1. e \in Nat /\ e >= 5 /\ e <= Len(d) /\ d[1] \in Nat
  <2>1. InsOf(d).ok /\ OutsOf(d).ok /\ ~ (OutsOf(d).at + 1 > Len(d))
    BY DEF Scannable
  <2>2. OutsOf(d).at \in Nat /\ OutsOf(d).at >= 4
    BY <2>1, OutsAre
  <2> QED BY <2>1, <2>2
<1>2. b = BaseOf(d)
  BY DEF BaseOf
<1> HIDE DEF e
<1>3. s \in Seq(Nat) /\ Len(s) = e - 2 /\ \A i \in 1..(e - 2) : s[i] = d[i + 2]
  <2>1. \A i \in 3..e : d[i] \in Nat
    BY <1>1
  <2>2. /\ SubSeq(d, 3, e) \in Seq(Nat)
        /\ Len(SubSeq(d, 3, e)) = (IF 3 <= e THEN e - 3 + 1 ELSE 0)
        /\ \A i \in 1..(e - 3 + 1) : SubSeq(d, 3, e)[i] = d[3 + i - 1]
    BY <1>1, <2>1, SubSeqProperties
  <2>3. e - 3 + 1 = e - 2 /\ \A i \in 1..(e - 2) : 3 + i - 1 = i + 2
    BY <1>1
  <2> HIDE DEF s
  <2> QED BY <1>1, <2>2, <2>3 DEF s
<1>4. h \in Seq(Nat) /\ Len(h) = 2 /\ h[1] = d[1] /\ h[2] = 0
  BY <1>1
<1> HIDE DEF s, h
<1>5. b \in Seq(Nat) /\ Len(b) = e /\ b[1] = d[1] /\ b[2] = 0
  <2>0. h \in Seq(Nat) /\ s \in Seq(Nat)
    BY <1>3, <1>4
  <2>1. b \in Seq(Nat) /\ Len(b) = Len(h) + Len(s)
    BY ONLY <2>0, ConcatProperties
  <2>2. \A i \in 1..Len(h) : b[i] = h[i]
    <3>1. \A i \in 1..(Len(h) + Len(s)) : b[i] = IF i <= Len(h) THEN h[i] ELSE s[i - Len(h)]
      BY ONLY <2>0, ConcatProperties
    <3>2. Len(h) \in Nat /\ Len(s) \in Nat
      BY ONLY <2>0
    <3> QED BY ONLY <3>1, <3>2
  <2>3. 1 \in 1..Len(h) /\ 2 \in 1..Len(h)
    BY <1>4
  <2>4. b[1] = h[1] /\ b[2] = h[2]
    BY <2>2, <2>3
  <2> HIDE DEF b
  <2> QED BY <1>1, <1>3, <1>4, <2>1, <2>4
<1>6. ASSUME NEW i \in 3..e PROVE b[i] = d[i]
  <2>1. i - 2 \in 1..(e - 2) /\ (i - 2) + 2 = i
    BY <1>1
  <2>2. b[i] = s[i - 2]
    <3>0. h \in Seq(Nat) /\ s \in Seq(Nat)
      BY <1>3, <1>4
    <3>1. \A j \in 1..(Len(h) + Len(s)) : b[j] = IF j <= Len(h) THEN h[j] ELSE s[j - Len(h)]
      BY ONLY <3>0, ConcatProperties
    <3>2. Len(h) = 2 /\ Len(s) = e - 2
      BY <1>3, <1>4
    <3> HIDE DEF b
    <3>3. \A j \in 1..(2 + (e - 2)) : b[j] = IF j <= 2 THEN h[j] ELSE s[j - 2]
      BY ONLY <3>1, <3>2
    <3>4. i \in 1..(2 + (e - 2)) /\ ~ (i <= 2)
      BY <1>1
    <3> QED BY ONLY <3>3, <3>4
  <2> QED BY <1>3, <2>1, <2>2
<1> HIDE DEF b
<1>7. Shares(d, b)
  BY <1>1, <1>5, <1>6 DEF Shares
<1> QED BY <1>1, <1>2, <1>5, <1>7 DEF e

(* The base is a transaction, its own base, and reads the same.                *)
LEMMA BaseIsItsOwn ==
  ASSUME NEW d \in Seq(Nat), Scannable(d)
  PROVE  LET b == BaseOf(d) IN
         Scannable(b) /\ BaseOf(b) = b /\ InsOf(b) = InsOf(d) /\ OutsOf(b) = OutsOf(d)
<1> DEFINE b == BaseOf(d)
           e == OutsOf(d).at + 1
<1>0. InsOf(d).ok /\ OutsOf(d).ok
  BY DEF Scannable
<1>1. /\ b \in Seq(Nat) /\ Len(b) = e /\ Len(b) <= Len(d) /\ Len(b) >= 5
      /\ b[1] = d[1] /\ b[2] = 0 /\ Shares(d, b)
  BY BaseIs
<1>2. OutsOf(d).at \in Nat /\ OutsOf(d).at <= Len(b) /\ e \in Nat
  BY <1>0, <1>1, OutsAre
<1> HIDE DEF b
<1>3. InsOf(b) = InsOf(d) /\ OutsOf(b) = OutsOf(d)
  BY <1>0, <1>1, <1>2, OutsAre
<1>4. OutsOf(b).at + 1 = e
  BY <1>3
<1>5. InWitsOf(b) = From(e) /\ OutWitsOf(b) = From(e)
  <2>1. InsOf(b).ok /\ OutsOf(b).ok
    BY <1>0, <1>3
  <2>2. InWitsOf(b) = From(e)
    BY <1>1, <1>4, <2>1, InWitsAre
  <2>3. OutWitsOf(b) = From(InWitsOf(b).at)
    BY <1>1, <2>1, OutWitsAre
  <2> QED BY <2>2, <2>3 DEF From
<1> HIDE DEF e
<1>6. From(e).ok /\ From(e).at = e /\ ~ (Len(b) < 4) /\ b[2] \in {0, 1} /\ ~ (e > Len(b)) /\ b[2] # 1
  BY <1>1, <1>2 DEF From
<1>7. WitnessNeeded(b[2], InWitsOf(b).list, OutWitsOf(b).list)
  BY <1>6 DEF WitnessNeeded
<1>8. Scannable(b)
  BY <1>0, <1>1, <1>3, <1>4, <1>5, <1>6, <1>7 DEF Scannable
<1>9. BaseOf(b) = b
  <2> DEFINE c == BaseOf(b)
  <2>1. c \in Seq(Nat) /\ Len(c) = OutsOf(b).at + 1 /\ c[1] = b[1] /\ c[2] = 0 /\ Shares(b, c)
    BY <1>1, <1>8, BaseIs
  <2> HIDE DEF c
  <2>2. Len(c) = Len(b) /\ Len(b) \in Nat /\ \A i \in 3..Len(c) : c[i] = b[i]
    BY <1>1, <1>4, <2>1 DEF Shares
  <2>3. \A i \in 1..Len(c) : i = 1 \/ i = 2 \/ i \in 3..Len(c)
    BY <2>2
  <2>4. \A i \in 1..Len(c) : c[i] = b[i]
    BY <1>1, <2>1, <2>2, <2>3
  <2>5. c = b
    BY <1>1, <2>1, <2>2, <2>4, SeqEqual
  <2> QED BY <2>5 DEF c
<1> QED BY <1>3, <1>8, <1>9 DEF b

(* What differs from its base has a witness, and that is not all zero.         *)
LEMMA WitnessIsSeen ==
  ASSUME NEW d \in Seq(Nat), Scannable(d), d # BaseOf(d)
  PROVE  \E i \in 1..(Len(d) - Len(BaseOf(d))) : d[Len(BaseOf(d)) + i] # 0
<1> DEFINE b == BaseOf(d)
           e == Len(b)
<1>0. InsOf(d).ok /\ OutsOf(d).ok /\ d[2] \in {0, 1} /\ InWitsOf(d).ok /\ OutWitsOf(d).ok
      /\ WitnessNeeded(d[2], InWitsOf(d).list, OutWitsOf(d).list) /\ OutWitsOf(d).at = Len(d)
  BY DEF Scannable
<1>1. /\ b \in Seq(Nat) /\ e = OutsOf(d).at + 1 /\ e <= Len(d) /\ e >= 5
      /\ b[1] = d[1] /\ b[2] = 0 /\ Shares(d, b)
  BY BaseIs
<1>2. e \in Nat /\ Len(d) \in Nat
  BY <1>1
<1> SUFFICES ASSUME \A i \in 1..(Len(d) - e) : d[e + i] = 0 PROVE FALSE
  OBVIOUS
<1>3. Blank(d, e)
  <2>1. ASSUME NEW i \in (e + 1)..Len(d) PROVE d[i] = 0
    <3>1. i - e \in 1..(Len(d) - e) /\ e + (i - e) = i
      BY <1>2
    <3> QED BY <3>1
  <2> QED BY <2>1 DEF Blank
<1> HIDE DEF b, e
<1>4. CASE d[2] = 0
  <2>1. InWitsOf(d) = From(e) /\ OutWitsOf(d) = From(InWitsOf(d).at)
    BY <1>0, <1>1, <1>4, InWitsAre, OutWitsAre
  <2>2. Len(d) = e
    BY <1>0, <2>1 DEF From
  <2>3. \A i \in 3..e : b[i] = d[i]
    BY <1>1 DEF Shares, e
  <2>4. \A i \in 1..e : i = 1 \/ i = 2 \/ i \in 3..e
    BY <1>2
  <2>5. \A i \in 1..e : b[i] = d[i]
    BY <1>1, <1>4, <2>3, <2>4
  <2>6. b = d
    BY <1>1, <2>2, <2>5, SeqEqual DEF e
  <2> QED BY <2>6 DEF b
<1>5. CASE d[2] = 1
  <2> DEFINE I == InWitsOf(d).list
             O == OutWitsOf(d).list
  <2>1. I \in Seq(Empties) /\ InWitsOf(d).at \in Nat /\ e <= InWitsOf(d).at
    <3>1. WitnessesListed(d, OutsOf(d).at + 1, InWitsOf(d))
      BY <1>0, InWitsAre
    <3>2. WitnessesListed(d, e, InWitsOf(d))
      BY ONLY <1>1, <3>1
    <3>3. InWitsOf(d) \in Listings(Witnesses) /\ e <= InWitsOf(d).at /\ InWitsOf(d).list \in Seq(Empties)
      <4>1. e >= e
        BY ONLY <1>2
      <4> QED BY <1>0, <1>2, <1>3, <3>2, <4>1 DEF WitnessesListed
    <3> QED BY <3>3 DEF Listings
  <2>2. O \in Seq(Empties)
    BY <1>0, <1>2, <1>3, <2>1, OutWitsAre DEF WitnessesListed
  <2>3. \E w \in {I[i] : i \in DOMAIN I} \union {O[i] : i \in DOMAIN O} : w.some
    BY <1>0, <1>5 DEF WitnessNeeded
  <2> HIDE DEF I, O
  <2>4. \A i \in DOMAIN I : I[i] \in Empties
    BY <2>1
  <2>5. \A i \in DOMAIN O : O[i] \in Empties
    BY <2>2
  <2> QED BY <2>3, <2>4, <2>5 DEF Empties
<1> QED BY <1>0, <1>4, <1>5

-----------------------------------------------------------------------------
(* A prepare case with other previous transactions in one of its rows.         *)
Refilled(c, i, P) == [c EXCEPT !.value.selected[i].previous = P]
(* Case c, filled again, is a case that differs in that row only, and there in *)
(* its previous transactions only.                                             *)
OneRefilled(c, i, P, x) ==
  /\ x \in PrepareCase /\ x.catalog = c.catalog
  /\ \A f \in {"source", "manifest", "pegged", "fee", "destinations"} : x.value[f] = c.value[f]
  /\ DOMAIN x.value.selected = DOMAIN c.value.selected
  /\ \A k \in DOMAIN c.value.selected :
       /\ k # i => x.value.selected[k] = c.value.selected[k]
       /\ \A f \in {"txid", "vout", "asset", "value", "candidate"} :
            x.value.selected[k][f] = c.value.selected[k][f]
  /\ x.value.selected[i].previous = P
(* A case that is filled again differs in that only.                          *)
LEMMA RefilledIs ==
  ASSUME NEW c \in PrepareCase, NEW i \in DOMAIN c.value.selected, NEW P \in Seq(Seq(Nat))
  PROVE  OneRefilled(c, i, P, Refilled(c, i, P))
<1> DEFINE D == Seq([asset : Nat, value : Nat, address : Seq(Nat)])
           C == {"other"} \union {Reviewed[m].catalog : m \in DOMAIN Reviewed}
           V == [source : Nat, manifest : Nat, pegged : Nat, fee : Nat, selected : Seq(PrepareRow),
                 destinations : D]
           s == c.value.selected
           r == [s[i] EXCEPT !.previous = P]
           t == [s EXCEPT ![i] = r]
           v == [c.value EXCEPT !.selected = t]
           x == [c EXCEPT !.value = v]
<1>1. Refilled(c, i, P) = x
  BY DEF Refilled
<1> HIDE DEF D, C
<1>2. c \in [catalog : C, value : V]
  BY DEF PrepareCase, D, C
<1>3. c.value \in V
  <2> HIDE DEF V
  <2> QED BY <1>2
<1>4. s \in Seq(PrepareRow)
  <2> HIDE DEF s
  <2>1. c.value.selected \in Seq(PrepareRow)
    BY <1>3
  <2> QED BY <2>1 DEF s
<1> HIDE DEF V
<1>5. i \in DOMAIN s
  OBVIOUS
<1> HIDE DEF s
<1>6. s[i] \in PrepareRow
  BY <1>4, <1>5
<1>7. /\ r \in PrepareRow /\ r.previous = P
      /\ \A f \in {"txid", "vout", "asset", "value", "candidate"} : r[f] = s[i][f]
  BY <1>6 DEF PrepareRow
<1> HIDE DEF r
<1>8. t \in Seq(PrepareRow) /\ DOMAIN t = DOMAIN s /\ t[i] = r /\ \A k \in DOMAIN s : k # i => t[k] = s[k]
  BY <1>4, <1>5, <1>7
<1> HIDE DEF t
<1>9. /\ v \in V /\ v.selected = t
      /\ \A f \in {"source", "manifest", "pegged", "fee", "destinations"} : v[f] = c.value[f]
  BY <1>3, <1>8 DEF V
<1> HIDE DEF v
<1>10. x \in [catalog : C, value : V] /\ x.value = v /\ x.catalog = c.catalog
  BY <1>2, <1>9
<1> HIDE DEF x
<1>11. x \in PrepareCase
  BY <1>10 DEF PrepareCase, V, D, C
<1>12. x.value.selected = t /\ c.value.selected = s
  BY <1>9, <1>10 DEF s
<1>13. \A k \in DOMAIN s : \A f \in {"txid", "vout", "asset", "value", "candidate"} : t[k][f] = s[k][f]
  BY <1>7, <1>8
<1>14. \A f \in {"source", "manifest", "pegged", "fee", "destinations"} : x.value[f] = c.value[f]
  BY <1>9, <1>10
<1>15. t[i].previous = P
  BY <1>7, <1>8
<1> HIDE DEF x
<1> QED BY <1>1, <1>8, <1>10, <1>11, <1>12, <1>13, <1>14, <1>15 DEF OneRefilled

(* The plan stage does not look at previous transactions.                      *)
Weights(s, key) == [i \in DOMAIN s |-> IF s[i].asset = key THEN s[i].value ELSE 0]
(* Its plan stage is the same.                                                *)
LEMMA StageIsTheSame ==
  ASSUME NEW c, NEW i, NEW P, NEW x, OneRefilled(c, i, P, x)
  PROVE  PlanStage(x.value, x.catalog) = PlanStage(c.value, c.catalog)
<1> DEFINE s == c.value.selected
           t == x.value.selected
           m == c.value.destinations
<1>1. /\ x.catalog = c.catalog /\ x.value.manifest = c.value.manifest /\ x.value.pegged = c.value.pegged
      /\ x.value.fee = c.value.fee /\ x.value.destinations = m
  BY DEF OneRefilled
<1>2. DOMAIN t = DOMAIN s /\ \A k \in DOMAIN s : t[k].asset = s[k].asset /\ t[k].value = s[k].value
  BY DEF OneRefilled
<1> HIDE DEF s, t, m
<1>3. \A key : TotalBy(t, key) = TotalBy(s, key)
  <2> TAKE key
  <2>1. Weights(t, key) = Weights(s, key)
    BY <1>2 DEF Weights
  <2>2. TotalBy(t, key) = SumOf(Weights(t, key)) /\ TotalBy(s, key) = SumOf(Weights(s, key))
    BY DEF TotalBy, Each, Weights
  <2> QED BY <2>1, <2>2
<1>4. AssetsOf(t) = AssetsOf(s)
  BY <1>2 DEF AssetsOf
<1>5. \A u, p, f : Balanced(u, m, p, f) <=>
        /\ AssetsOf(u) = AssetsOf(m) \union {p}
        /\ \A key \in AssetsOf(u) :
             TotalBy(u, key) = TotalBy(m, key) + (IF key = p THEN f ELSE 0)
  BY DEF Balanced
<1>6. \A p, f : Balanced(t, m, p, f) <=> Balanced(s, m, p, f)
  BY <1>3, <1>4, <1>5
<1>7. Balanced(x.value.selected, x.value.destinations, x.value.pegged, x.value.fee) <=>
      Balanced(c.value.selected, c.value.destinations, c.value.pegged, c.value.fee)
  BY <1>1, <1>6 DEF s, t, m
<1> QED BY <1>1, <1>7 DEF PlanStage, m

-----------------------------------------------------------------------------
(* B stands for A by p: item b of B has the identity and the outputs of item   *)
(* p[b] of A, and every item of A has one that stands for it.                  *)
Stands(A, B, p) ==
  /\ p \in [DOMAIN B -> DOMAIN A]
  /\ \A a \in DOMAIN A : \E b \in DOMAIN B : p[b] = a
  /\ \A b, c \in DOMAIN B : p[b] = p[c] => b = c
  /\ \A b \in DOMAIN B : /\ A[p[b]] # None => B[b] # None
                         /\ Txid(B[b]) = Txid(A[p[b]]) /\ Len(B[b].outs) = Len(A[p[b]].outs)
(* What stands for enough previous transactions is enough.                     *)
LEMMA StandsFunds ==
  ASSUME NEW A, NEW B, NEW p, Stands(A, B, p), NEW r, NEW u, u.txid = r.txid, u.vout = r.vout,
         NEW owned, NEW tx, Funds(r, owned, tx, A)
  PROVE  Funds(u, owned, tx, B)
<1>1. p \in [DOMAIN B -> DOMAIN A]
  BY DEF Stands
<1>2. \A i \in DOMAIN B : B[i] # None
  BY <1>1 DEF Stands, Funds
<1>3. Distinct(Each(B, Txid))
  <2>1. \A a, b \in DOMAIN A : Txid(A[a]) = Txid(A[b]) => a = b
    BY DEF Funds, Distinct, Each
  <2>2. \A a, b \in DOMAIN B : Txid(B[a]) = Txid(B[b]) => a = b
    BY <1>1, <2>1 DEF Stands
  <2> QED BY <2>2 DEF Distinct, Each
<1>4. {Txid(B[i]) : i \in DOMAIN B} = {Txid(A[i]) : i \in DOMAIN A}
  BY <1>1 DEF Stands
<1>5. ASSUME NEW i \in DOMAIN tx.ins
      PROVE  \E j \in DOMAIN B : Txid(B[j]) = tx.ins[i].txid /\ tx.ins[i].vout < Len(B[j].outs)
  <2>1. PICK a \in DOMAIN A : Txid(A[a]) = tx.ins[i].txid /\ tx.ins[i].vout < Len(A[a].outs)
    BY DEF Funds
  <2>2. PICK b \in DOMAIN B : p[b] = a
    BY DEF Stands
  <2> QED BY <2>1, <2>2 DEF Stands
<1>6. {Txid(B[i]) : i \in DOMAIN B} = {tx.ins[i].txid : i \in DOMAIN tx.ins}
  BY <1>4 DEF Funds
<1> QED BY <1>2, <1>3, <1>5, <1>6 DEF Funds

(* Another form of the same transaction stands for it.                         *)
LEMMA FormsAreAlike ==
  ASSUME NEW d \in Seq(Nat), NEW e \in Seq(Nat), ScanTransaction(d) # None, ScanTransaction(e) # None,
         ScanTransaction(d).base = ScanTransaction(e).base
  PROVE  /\ Txid(ScanTransaction(e)) = Txid(ScanTransaction(d))
         /\ ScanTransaction(e).outs = ScanTransaction(d).outs
<1>1. \A f \in Seq(Nat) : ScanTransaction(f) # None =>
        /\ ScanTransaction(f).base = BaseOf(f) /\ ScanTransaction(f).outs = OutsOf(BaseOf(f)).list
  <2> SUFFICES ASSUME NEW f \in Seq(Nat), ScanTransaction(f) # None
               PROVE  /\ ScanTransaction(f).base = BaseOf(f)
                      /\ ScanTransaction(f).outs = OutsOf(BaseOf(f)).list
    OBVIOUS
  <2>1. Scannable(f) /\ ScanTransaction(f) = Scanned(f)
    BY ScanIs
  <2>2. OutsOf(BaseOf(f)) = OutsOf(f)
    BY <2>1, BaseIsItsOwn
  <2>3. Scanned(f).base = BaseOf(f) /\ Scanned(f).outs = OutsOf(f).list
    BY DEF Scanned
  <2> QED BY <2>1, <2>2, <2>3
<1>2. BaseOf(d) = BaseOf(e)
  BY <1>1
<1> QED BY <1>1, <1>2 DEF Txid

(* The previous transactions with one of them in another form, and in the      *)
(* other order.                                                                *)
ScansOf(P) == Each(P, ScanTransaction)
(* One of them in another form.                                               *)
LEMMA OtherFormStands ==
  ASSUME NEW P \in Seq(Seq(Nat)), NEW j \in DOMAIN P, NEW e \in Seq(Nat),
         ScanTransaction(P[j]) # None, ScanTransaction(e) # None,
         ScanTransaction(P[j]).base = ScanTransaction(e).base
  PROVE  LET Q == [P EXCEPT ![j] = e]
             p == [k \in DOMAIN P |-> k]
         IN Q \in Seq(Seq(Nat)) /\ Stands(ScansOf(P), ScansOf(Q), p) /\ Stands(ScansOf(Q), ScansOf(P), p)
<1> DEFINE Q == [P EXCEPT ![j] = e]
           p == [k \in DOMAIN P |-> k]
           A == ScansOf(P)
           B == ScansOf(Q)
<1>1. Q \in Seq(Seq(Nat)) /\ DOMAIN Q = DOMAIN P /\ Q[j] = e /\ \A k \in DOMAIN P : k # j => Q[k] = P[k]
  <2> DEFINE Z == Seq(Nat)
  <2> HIDE DEF Z
  <2>1. P \in Seq(Z) /\ e \in Z
    BY DEF Z
  <2>2. Q \in Seq(Z) /\ DOMAIN Q = DOMAIN P /\ Q[j] = e /\ \A k \in DOMAIN P : k # j => Q[k] = P[k]
    BY <2>1
  <2> HIDE DEF Q
  <2> QED BY <2>2 DEF Z
<1> HIDE DEF Q
<1>2. DOMAIN A = DOMAIN P /\ DOMAIN B = DOMAIN P
  BY <1>1 DEF ScansOf, Each
<1>3. \A k \in DOMAIN P : A[k] = ScanTransaction(P[k]) /\ B[k] = ScanTransaction(Q[k])
  BY <1>1 DEF ScansOf, Each
<1>4. P[j] \in Seq(Nat)
  OBVIOUS
<1>5. Txid(B[j]) = Txid(A[j]) /\ B[j].outs = A[j].outs /\ A[j] # None /\ B[j] # None
  BY <1>1, <1>3, <1>4, FormsAreAlike
<1>6. \A k \in DOMAIN P : k # j => B[k] = A[k]
  BY <1>1, <1>3
<1>7. p \in [DOMAIN P -> DOMAIN P] /\ \A k \in DOMAIN P : p[k] = k
  OBVIOUS
<1> HIDE DEF A, B, p
<1>8. \A k \in DOMAIN P : /\ Txid(B[k]) = Txid(A[k]) /\ Len(B[k].outs) = Len(A[k].outs)
                          /\ (A[k] # None <=> B[k] # None)
  BY <1>5, <1>6
<1>9. Stands(A, B, p) /\ Stands(B, A, p)
  BY <1>2, <1>7, <1>8 DEF Stands
<1> QED BY <1>1, <1>9 DEF A, B, p, Q
(* All of them in the other order.                                            *)
LEMMA OtherOrderStands ==
  ASSUME NEW P \in Seq(Seq(Nat))
  PROVE  LET Q == Reversed(P)
             p == [k \in DOMAIN P |-> Len(P) + 1 - k]
         IN Q \in Seq(Seq(Nat)) /\ Stands(ScansOf(P), ScansOf(Q), p) /\ Stands(ScansOf(Q), ScansOf(P), p)
<1> DEFINE Q == Reversed(P)
           p == [k \in DOMAIN P |-> Len(P) + 1 - k]
           A == ScansOf(P)
           B == ScansOf(Q)
           n == Len(P)
           Z == Seq(Nat)
<1>0. n \in Nat /\ DOMAIN P = 1..n /\ \A k \in 1..n : P[k] \in Z
  OBVIOUS
<1> HIDE DEF Z, n
<1>1. \A k \in 1..n : n + 1 - k \in 1..n /\ n + 1 - (n + 1 - k) = k
  BY <1>0
<1>2. DOMAIN Q = 1..n /\ \A k \in 1..n : Q[k] = P[n + 1 - k]
  BY <1>0 DEF Reversed, n
<1>3. Q \in Seq(Z)
  <2>1. Q \in [1..n -> Z]
    BY <1>0, <1>1 DEF Reversed, n
  <2> QED BY <1>0, <2>1
<1> HIDE DEF Q
<1>4. DOMAIN A = 1..n /\ DOMAIN B = 1..n /\ \A k \in 1..n : B[k] = A[n + 1 - k]
  BY <1>0, <1>1, <1>2 DEF ScansOf, Each
<1>5. p \in [1..n -> 1..n] /\ \A k \in 1..n : p[k] = n + 1 - k
  BY <1>0, <1>1 DEF n
<1> HIDE DEF A, B, p
<1>6. \A k \in 1..n : p[p[k]] = k /\ p[k] \in 1..n
  BY <1>1, <1>5
<1>7. \A k \in 1..n : B[k] = A[p[k]] /\ A[k] = B[p[k]]
  BY <1>4, <1>5, <1>6
<1>8. (\A a \in 1..n : \E b \in 1..n : p[b] = a) /\ \A b, c \in 1..n : p[b] = p[c] => b = c
  BY <1>6
<1>9. Stands(A, B, p) /\ Stands(B, A, p)
  BY <1>4, <1>5, <1>7, <1>8 DEF Stands
<1> QED BY <1>3, <1>9 DEF A, B, p, Q, Z

(* A prepare case whose previous transactions are stood for, in one row, has   *)
(* the same expectation.                                                       *)
LEMMA ExpectationIsTheSame ==
  ASSUME NEW c \in PrepareCase, NEW i \in DOMAIN c.value.selected, NEW Q \in Seq(Seq(Nat)), NEW p, NEW owned,
         Stands(ScansOf(c.value.selected[i].previous), ScansOf(Q), p),
         Stands(ScansOf(Q), ScansOf(c.value.selected[i].previous), p)
  PROVE  LET x == Refilled(c, i, Q)
         IN PrepareExpectation(x.value, x.catalog, owned) = PrepareExpectation(c.value, c.catalog, owned)
<1> DEFINE x == Refilled(c, i, Q)
           s == c.value.selected
           t == x.value.selected
<1>1. OneRefilled(c, i, Q, x)
  BY RefilledIs
<1> HIDE DEF x
<1>2. DOMAIN t = DOMAIN s /\ \A k \in DOMAIN s : k # i => t[k] = s[k]
  BY <1>1 DEF OneRefilled
<1>3. t[i].txid = s[i].txid /\ t[i].vout = s[i].vout /\ t[i].candidate = s[i].candidate /\ t[i].previous = Q
  BY <1>1 DEF OneRefilled
<1> HIDE DEF t
<1>4. FundingOk(t[i], owned) <=> FundingOk(s[i], owned)
  <2>1. FundingOk(t[i], owned) <=> Funds(t[i], owned, ScanTransaction(t[i].candidate), ScansOf(t[i].previous))
    BY DEF FundingOk, ScansOf
  <2>2. FundingOk(s[i], owned) <=> Funds(s[i], owned, ScanTransaction(s[i].candidate), ScansOf(s[i].previous))
    BY DEF FundingOk, ScansOf
  <2> DEFINE tx == ScanTransaction(s[i].candidate)
             A == ScansOf(s[i].previous)
             B == ScansOf(Q)
             r == s[i]
             u == t[i]
  <2>3. Stands(A, B, p) /\ Stands(B, A, p)
    OBVIOUS
  <2>4. u.txid = r.txid /\ u.vout = r.vout
    BY <1>3
  <2>5. (FundingOk(u, owned) <=> Funds(u, owned, tx, B)) /\ (FundingOk(r, owned) <=> Funds(r, owned, tx, A))
    BY <1>3, <2>1, <2>2
  <2> HIDE DEF tx, A, B, r, u
  <2>6. Funds(r, owned, tx, A) => Funds(u, owned, tx, B)
    BY ONLY <2>3, <2>4, StandsFunds
  <2>7. Funds(u, owned, tx, B) => Funds(r, owned, tx, A)
    BY ONLY <2>3, <2>4, StandsFunds
  <2>8. FundingOk(u, owned) <=> FundingOk(r, owned)
    BY ONLY <2>5, <2>6, <2>7
  <2> QED BY <2>8 DEF r, u
<1>5. (\A k \in DOMAIN t : FundingOk(t[k], owned)) <=> (\A k \in DOMAIN s : FundingOk(s[k], owned))
  BY <1>2, <1>4
<1>6. PlanStage(x.value, x.catalog) = PlanStage(c.value, c.catalog)
  BY <1>1, StageIsTheSame
<1> QED BY <1>5, <1>6 DEF PrepareExpectation, x, t

-----------------------------------------------------------------------------
(* A transaction that is edited is a text of numbers, and a prepare case one   *)
(* of its kind.                                                                *)
ItemsOK ==
  /\ kind = "transaction" => now \in Seq(Nat)
  /\ kind = "prepare" => now \in PrepareCase

(* An element put into a text of numbers, and one taken out.                   *)
LEMMA InsertedIsText ==
  ASSUME NEW s \in Seq(Nat), NEW i \in 1..(Len(s) + 1), NEW x \in Nat
  PROVE  SubSeq(s, 1, i - 1) \o <<x>> \o SubSeq(s, i, Len(s)) \in Seq(Nat)
<1>1. Len(s) \in Nat
  OBVIOUS
<1>2. SubSeq(s, 1, i - 1) \in Seq(Nat)
  BY <1>1, SubSeqProperties
<1>3. SubSeq(s, i, Len(s)) \in Seq(Nat)
  BY <1>1, SubSeqProperties
<1>4. <<x>> \in Seq(Nat)
  OBVIOUS
<1> DEFINE a == SubSeq(s, 1, i - 1)
           b == SubSeq(s, i, Len(s))
           w == <<x>>
<1>5. a \in Seq(Nat) /\ b \in Seq(Nat) /\ w \in Seq(Nat)
  BY <1>2, <1>3, <1>4
<1> HIDE DEF a, b, w
<1>6. a \o w \o b \in Seq(Nat)
  BY ONLY <1>5
<1> QED BY <1>6 DEF a, b, w
(* One taken out.                                                             *)
LEMMA RemovedIsText ==
  ASSUME NEW s \in Seq(Nat), NEW i \in DOMAIN s
  PROVE  SubSeq(s, 1, i - 1) \o SubSeq(s, i + 1, Len(s)) \in Seq(Nat)
<1>1. Len(s) \in Nat /\ i \in 1..Len(s)
  OBVIOUS
<1> DEFINE a == SubSeq(s, 1, i - 1)
           b == SubSeq(s, i + 1, Len(s))
<1>2. a \in Seq(Nat)
  BY <1>1, SubSeqProperties
<1>3. b \in Seq(Nat)
  BY <1>1, SubSeqProperties
<1> HIDE DEF a, b
<1>4. a \o b \in Seq(Nat)
  BY ONLY <1>2, <1>3
<1> QED BY <1>4 DEF a, b

(* What an author makes of a row of a prepare case is one, and so of the case. *)
LEMMA RowEditsAre == ASSUME NEW r \in PrepareRow, NEW u \in PrepareRowEdits(r) PROVE u \in PrepareRow
<1> DEFINE Z == Seq(Nat)
           P == r.previous
<1>1. r \in [txid : Nat, vout : Nat, asset : Nat, value : Nat, candidate : Z, previous : Seq(Z)]
  BY DEF PrepareRow
<1>2. DOMAIN TransactionBases \subseteq Z /\ DOMAIN Named \subseteq Nat
  BY PlanCorpusAssumption
<1> HIDE DEF Z
<1>3. P \in Seq(Z)
  BY <1>1
<1>4. Reversed(P) \in Seq(Z)
  BY <1>3, OtherOrderStands DEF Z
<1>5. \A j \in DOMAIN P : \A t \in Z : [P EXCEPT ![j] = t] \in Seq(Z)
  BY <1>3
<1>6. SubSeq(P, 1, Len(P) - 1) \in Seq(Z) /\ P \o P \in Seq(Z)
  BY <1>3
<1> HIDE DEF P
<1>7. \A Q \in Seq(Z) : [r EXCEPT !.previous = Q] \in PrepareRow
  BY <1>1 DEF PrepareRow, Z
<1>8. r.vout + 1 \in Nat /\ [r EXCEPT !.vout = r.vout + 1] \in PrepareRow
  BY <1>1 DEF PrepareRow, Z
<1>9. \A t \in Z : [r EXCEPT !.candidate = t] \in PrepareRow
  BY <1>1 DEF PrepareRow, Z
<1>10. \A x \in Nat : [r EXCEPT !.txid = x] \in PrepareRow
  BY <1>1 DEF PrepareRow, Z
<1>11. CASE u \in {[r EXCEPT !.vout = @ + 1], [r EXCEPT !.previous = Reversed(@)]}
  BY <1>4, <1>7, <1>8, <1>11 DEF P
<1>12. CASE u \in {[r EXCEPT !.candidate = t] : t \in DOMAIN TransactionBases}
  BY <1>2, <1>9, <1>12
<1>13. CASE u \in {[r EXCEPT !.txid = x] : x \in DOMAIN Named}
  BY <1>2, <1>10, <1>13
<1>14. CASE u \in {[r EXCEPT !.previous = [@ EXCEPT ![p[1]] = p[2]]] :
                      p \in (DOMAIN r.previous) \X DOMAIN TransactionBases}
  <2>1. PICK p \in (DOMAIN r.previous) \X DOMAIN TransactionBases :
          u = [r EXCEPT !.previous = [P EXCEPT ![p[1]] = p[2]]]
    BY <1>14 DEF P
  <2>2. p[1] \in DOMAIN P /\ p[2] \in Z
    BY <1>2, <2>1 DEF P
  <2> QED BY <1>5, <1>7, <2>1, <2>2
<1>15. CASE u \in {[r EXCEPT !.previous = SubSeq(@, 1, Len(@) - 1)], [r EXCEPT !.previous = @ \o @]}
  BY <1>6, <1>7, <1>15 DEF P
<1> QED BY <1>11, <1>12, <1>13, <1>14, <1>15 DEF PrepareRowEdits

(* Every edit of a prepare case changes the catalog, a field of the plan, one  *)
(* address or one row.                                                         *)
CaseEdits(c) ==
  {[c EXCEPT !.catalog = "other"], [c EXCEPT !.value.pegged = @ + 1],
   [c EXCEPT !.value.manifest = @ + 1], [c EXCEPT !.value.fee = @ + 1]}
AddressesEdited(c) ==
  {[c EXCEPT !.value.destinations[i].address = <<1, 1>>] : i \in DOMAIN c.value.destinations}
WithRow(c, i, u) == [c EXCEPT !.value.selected[i] = u]
RowsEdited(c) ==
  UNION {{WithRow(c, i, u) : u \in PrepareRowEdits(c.value.selected[i])} : i \in DOMAIN c.value.selected}
(* The edits are these.                                                       *)
LEMMA PrepareEditIs ==
  \A c : PrepareEdits(c) = CaseEdits(c) \union AddressesEdited(c) \union RowsEdited(c)
BY Zenon DEF PrepareEdits, CaseEdits, AddressesEdited, RowsEdited, WithRow
(* An edited case is a case.                                                  *)
LEMMA PrepareEditsAre == ASSUME NEW c \in PrepareCase, NEW x \in PrepareEdits(c) PROVE x \in PrepareCase
<1> DEFINE T == [asset : Nat, value : Nat, address : Seq(Nat)]
           C == {"other"} \union {Reviewed[m].catalog : m \in DOMAIN Reviewed}
           D == Seq(T)
           S == Seq(PrepareRow)
           V == [source : Nat, manifest : Nat, pegged : Nat, fee : Nat, selected : S, destinations : D]
           v == c.value
           s == v.selected
           m == v.destinations
<1>1. PrepareCase = [catalog : C, value : V]
  BY DEF PrepareCase
<1> HIDE DEF D, S
<1>2. v \in V
  <2> HIDE DEF V
  <2> QED BY <1>1
<1>3. s \in S /\ m \in D
  BY <1>2
<1>4. \A u \in V : [c EXCEPT !.value = u] \in PrepareCase
  <2> HIDE DEF V
  <2> QED BY <1>1
<1>5. [c EXCEPT !.catalog = "other"] \in PrepareCase
  <2> HIDE DEF V
  <2>1. \A u \in C : [c EXCEPT !.catalog = u] \in PrepareCase
    <3> HIDE DEF C
    <3> QED BY <1>1
  <2> QED BY <2>1
<1>6. CASE x \in CaseEdits(c)
  <2>1. /\ [v EXCEPT !.pegged = @ + 1] \in V /\ [v EXCEPT !.manifest = @ + 1] \in V
        /\ [v EXCEPT !.fee = @ + 1] \in V
    BY <1>2
  <2> HIDE DEF V
  <2>2. x \in {[c EXCEPT !.catalog = "other"], [c EXCEPT !.value = [v EXCEPT !.pegged = @ + 1]],
               [c EXCEPT !.value = [v EXCEPT !.manifest = @ + 1]], [c EXCEPT !.value = [v EXCEPT !.fee = @ + 1]]}
    BY <1>6 DEF CaseEdits
  <2> QED BY <1>4, <1>5, <2>1, <2>2
<1>7. CASE x \in AddressesEdited(c)
  <2>1. PICK i \in DOMAIN m : x = [c EXCEPT !.value.destinations[i].address = <<1, 1>>]
    BY <1>7 DEF AddressesEdited
  <2> DEFINE q == [m[i] EXCEPT !.address = <<1, 1>>]
             n == [m EXCEPT ![i] = q]
  <2>2. m[i] \in T
    <3> HIDE DEF T, m
    <3> QED BY <1>3 DEF D
  <2>3. q \in T
    <3>1. <<1, 1>> \in Seq(Nat)
      OBVIOUS
    <3> QED BY <2>2, <3>1
  <2>4. n \in D
    <3> HIDE DEF T, m, q
    <3> QED BY <1>3, <2>3 DEF D
  <2>5. x = [c EXCEPT !.value = [v EXCEPT !.destinations = n]]
    BY <2>1
  <2> HIDE DEF n
  <2>6. [v EXCEPT !.destinations = n] \in V
    BY <1>2, <2>4
  <2> HIDE DEF V, v
  <2> QED BY <1>4, <2>5, <2>6
<1>8. CASE x \in RowsEdited(c)
  <2>0. PICK i \in DOMAIN s : x \in {WithRow(c, i, u) : u \in PrepareRowEdits(s[i])}
    BY <1>8, Zenon DEF RowsEdited
  <2>1. PICK u \in PrepareRowEdits(s[i]) : x = WithRow(c, i, u)
    BY <2>0, Zenon
  <2> DEFINE n == [s EXCEPT ![i] = u]
  <2>2. s[i] \in PrepareRow
    <3> HIDE DEF s
    <3> QED BY <1>3 DEF S
  <2>3. u \in PrepareRow
    BY <2>1, <2>2, RowEditsAre
  <2>4. n \in S
    <3> HIDE DEF s
    <3> QED BY <1>3, <2>3 DEF S
  <2>5. x = [c EXCEPT !.value = [v EXCEPT !.selected = n]]
    BY <2>1 DEF WithRow
  <2> HIDE DEF n
  <2>6. [v EXCEPT !.selected = n] \in V
    BY <1>2, <2>4
  <2> HIDE DEF V, v
  <2> QED BY <1>4, <2>5, <2>6
<1> QED BY <1>6, <1>7, <1>8, PrepareEditIs

(* What the author starts from is such an item.                               *)
LEMMA ItemsInit == PlanCorpusInit => ItemsOK
BY PlanCorpusAssumption, SMTT(30) DEF PlanCorpusInit, ItemsOK
(* Every edit keeps it one.                                                   *)
LEMMA ItemsNext == ItemsOK /\ [PlanCorpusNext]_corpusVars => ItemsOK'
<1> SUFFICES ASSUME ItemsOK, [PlanCorpusNext]_corpusVars PROVE ItemsOK'
  OBVIOUS
<1> USE PlanCorpusAssumption
<1>1. CASE kind = "transaction" /\ EditTransaction
  <2>1. now \in Seq(Nat)
    BY <1>1 DEF ItemsOK
  <2>2. ASSUME NEW next \in Seq(Nat), Edit("transaction", next) PROVE ItemsOK'
    BY <1>1, <2>2 DEF Edit, ItemsOK
  <2>3. CASE \E i \in DOMAIN now, x \in Cells : Edit("transaction", [now EXCEPT ![i] = x])
    <3>1. PICK i \in DOMAIN now, x \in Cells : Edit("transaction", [now EXCEPT ![i] = x])
      BY <2>3
    <3>2. [now EXCEPT ![i] = x] \in Seq(Nat)
      BY <2>1
    <3> QED BY <2>2, <3>1, <3>2
  <2>4. CASE \E i \in 1..(Len(now) + 1), x \in Cells :
               Edit("transaction", SubSeq(now, 1, i - 1) \o <<x>> \o SubSeq(now, i, Len(now)))
    BY <2>1, <2>2, <2>4, InsertedIsText
  <2>5. CASE \E i \in DOMAIN now :
               Edit("transaction", SubSeq(now, 1, i - 1) \o SubSeq(now, i + 1, Len(now)))
    BY <2>1, <2>2, <2>5, RemovedIsText
  <2> QED BY <1>1, <2>3, <2>4, <2>5 DEF EditTransaction
<1>2. CASE kind = "prepare" /\ EditPrepare
  <2>1. PICK c \in PrepareEdits(now) : Edit("prepare", c)
    BY <1>2 DEF EditPrepare
  <2>2. c \in PrepareCase
    BY <1>2, PrepareEditsAre DEF ItemsOK
  <2> QED BY <1>2, <2>1, <2>2 DEF Edit, ItemsOK
<1>3. CASE UNCHANGED corpusVars
  BY <1>3 DEF corpusVars, ItemsOK
<1>4. CASE kind \notin {"transaction", "prepare"}
  <2>1. kind' = kind
    BY <1>4 DEF corpusVars, PlanCorpusNext, ReplaceCell, AppendCell, Truncate, RepackFrame,
       EditObject, EditBatch, EditCall, EditTransaction, EditPrepare, RaiseBoundary, EditFormula,
       Edit, Derive
  <2> QED BY <1>4, <2>1 DEF ItemsOK
<1> QED BY <1>1, <1>2, <1>3, <1>4 DEF PlanCorpusNext, ReplaceCell, AppendCell, Truncate, RepackFrame,
       EditObject, EditBatch, EditCall, EditTransaction, EditPrepare, RaiseBoundary, EditFormula, Edit

(* PlanCorpus: whatever the edits, a transaction is a text of numbers, and a  *)
(* prepare case one of its kind.                                              *)
THEOREM ItemsAreTexts == PlanCorpusSpec => []ItemsOK
BY ItemsInit, ItemsNext, PTL DEF PlanCorpusSpec

(* A transaction is identified by its base, whatever edits led to it: the base *)
(* is a transaction of the surface and its own base, reads the same, no second *)
(* form of it differs in nothing, and a prepare case sees a previous           *)
(* transaction by its identity only.                                           *)
THEOREM IdentityIsTheBase == PlanCorpusSpec => []IdentityIsStripped
<1>1. ASSUME NEW d \in Seq(Nat), ScanTransaction(d) # None
      PROVE  LET t == ScanTransaction(d)
                 b == ScanTransaction(t.base)
             IN /\ b # None /\ b.base = t.base /\ b.ins = t.ins /\ b.outs = t.outs
                /\ d # t.base => \E i \in 1..(Len(d) - Len(t.base)) : d[Len(t.base) + i] # 0
  <2> DEFINE e == BaseOf(d)
  <2>1. Scannable(d) /\ ScanTransaction(d) = Scanned(d)
    BY <1>1, ScanIs
  <2>2. Scannable(e) /\ BaseOf(e) = e /\ InsOf(e) = InsOf(d) /\ OutsOf(e) = OutsOf(d)
    BY <2>1, BaseIsItsOwn
  <2>3. e \in Seq(Nat)
    BY <2>1, BaseIs
  <2>4. d # e => \E i \in 1..(Len(d) - Len(e)) : d[Len(e) + i] # 0
    BY <2>1, WitnessIsSeen
  <2>5. Scanned(d).base = e /\ Scanned(d).ins = InsOf(d).list /\ Scanned(d).outs = OutsOf(d).list
    BY DEF Scanned
  <2> HIDE DEF e
  <2>6. ScanTransaction(e) = Scanned(e) /\ Scanned(e) # None
    BY <2>2, <2>3, ScannedIsOne
  <2>7. Scanned(e).base = e /\ Scanned(e).ins = InsOf(d).list /\ Scanned(e).outs = OutsOf(d).list
    BY <2>2 DEF Scanned
  <2> QED BY <2>1, <2>4, <2>5, <2>6, <2>7
<1>2. ASSUME NEW n \in PrepareCase, NEW c \in PrevByIdentity(n)
      PROVE  PrepareExpectation(c.value, c.catalog, Owned) = PrepareExpectation(n.value, n.catalog, Owned)
  <2> DEFINE s == n.value.selected
  <2>0. \A i \in DOMAIN s : s[i].previous \in Seq(Seq(Nat))
    <3>1. s \in Seq(PrepareRow)
      BY DEF PrepareCase
    <3> HIDE DEF s
    <3>2. \A i \in DOMAIN s : s[i] \in PrepareRow
      BY <3>1
    <3> QED BY <3>2 DEF PrepareRow
  <2>1. CASE \E i \in DOMAIN s : c = [n EXCEPT !.value.selected[i].previous = Reversed(@)]
    <3>1. PICK i \in DOMAIN s : c = [n EXCEPT !.value.selected[i].previous = Reversed(@)]
      BY <2>1
    <3> DEFINE P == s[i].previous
               Q == Reversed(P)
               p == [k \in DOMAIN P |-> Len(P) + 1 - k]
    <3>2. c = Refilled(n, i, Q)
      BY <3>1 DEF Refilled
    <3>3. P \in Seq(Seq(Nat))
      BY <2>0
    <3>4. Q \in Seq(Seq(Nat)) /\ Stands(ScansOf(P), ScansOf(Q), p) /\ Stands(ScansOf(Q), ScansOf(P), p)
      BY <3>3, OtherOrderStands
    <3> HIDE DEF Q, p
    <3> QED BY <3>2, <3>4, ExpectationIsTheSame
  <2>2. CASE \E i \in DOMAIN s, j \in 1..MaxPrevious, t \in DOMAIN TransactionBases :
               /\ j \in DOMAIN s[i].previous
               /\ ScanTransaction(s[i].previous[j]) # None /\ ScanTransaction(t) # None
               /\ ScanTransaction(s[i].previous[j]).base = ScanTransaction(t).base
               /\ c = [n EXCEPT !.value.selected[i].previous[j] = t]
    <3>1. PICK i \in DOMAIN s, j \in 1..MaxPrevious, t \in DOMAIN TransactionBases :
               /\ j \in DOMAIN s[i].previous
               /\ ScanTransaction(s[i].previous[j]) # None /\ ScanTransaction(t) # None
               /\ ScanTransaction(s[i].previous[j]).base = ScanTransaction(t).base
               /\ c = [n EXCEPT !.value.selected[i].previous[j] = t]
      BY <2>2
    <3> DEFINE P == s[i].previous
               Q == [P EXCEPT ![j] = t]
               p == [k \in DOMAIN P |-> k]
    <3>2. c = Refilled(n, i, Q)
      BY <3>1 DEF Refilled
    <3>3. P \in Seq(Seq(Nat)) /\ t \in Seq(Nat) /\ j \in DOMAIN P
      BY <2>0, <3>1, PlanCorpusAssumption
    <3>4. Q \in Seq(Seq(Nat)) /\ Stands(ScansOf(P), ScansOf(Q), p) /\ Stands(ScansOf(Q), ScansOf(P), p)
      BY <3>1, <3>3, OtherFormStands
    <3> HIDE DEF Q, p
    <3> QED BY <3>2, <3>4, ExpectationIsTheSame
  <2>3. \/ \E i \in DOMAIN s : c = [n EXCEPT !.value.selected[i].previous = Reversed(@)]
        \/ \E i \in DOMAIN s, j \in 1..MaxPrevious, t \in DOMAIN TransactionBases :
               /\ j \in DOMAIN s[i].previous
               /\ ScanTransaction(s[i].previous[j]) # None /\ ScanTransaction(t) # None
               /\ ScanTransaction(s[i].previous[j]).base = ScanTransaction(t).base
               /\ c = [n EXCEPT !.value.selected[i].previous[j] = t]
    <3> DEFINE Y == {y \in (DOMAIN s) \X (1..MaxPrevious) \X DOMAIN TransactionBases :
                      /\ y[2] \in DOMAIN s[y[1]].previous
                      /\ LET a == ScanTransaction(s[y[1]].previous[y[2]])
                             b == ScanTransaction(y[3])
                         IN a # None /\ b # None /\ a.base = b.base}
               F(y) == [n EXCEPT !.value.selected[y[1]].previous[y[2]] = y[3]]
               R(i) == [n EXCEPT !.value.selected[i].previous = Reversed(@)]
    <3>1. PrevByIdentity(n) = {F(y) : y \in Y} \union {R(i) : i \in DOMAIN s}
      BY Zenon DEF PrevByIdentity
    <3>2. CASE c \in {R(i) : i \in DOMAIN s}
      BY <3>2, SMTT(30)
    <3>3. CASE c \in {F(y) : y \in Y}
      <4>1. PICK y \in Y : c = F(y)
        <5> HIDE DEF Y, F
        <5> QED BY <3>3
      <4>2. /\ y[1] \in DOMAIN s /\ y[2] \in 1..MaxPrevious /\ y[3] \in DOMAIN TransactionBases
            /\ y[2] \in DOMAIN s[y[1]].previous
            /\ ScanTransaction(s[y[1]].previous[y[2]]) # None /\ ScanTransaction(y[3]) # None
            /\ ScanTransaction(s[y[1]].previous[y[2]]).base = ScanTransaction(y[3]).base
        BY <4>1
      <4> QED BY <4>1, <4>2
    <3> HIDE DEF Y, F, R
    <3> QED BY <3>1, <3>2, <3>3
  <2> QED BY <2>1, <2>2, <2>3
<1>3. ItemsOK => IdentityIsStripped
  BY <1>1, <1>2 DEF ItemsOK, IdentityIsStripped
<1> QED BY <1>3, ItemsAreTexts, PTL
=============================================================================
