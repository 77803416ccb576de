---------------------------- MODULE Corpora_proofs ---------------------------
(***************************************************************************)
(* The two corpora: what the checkers accept, they can account for.  The   *)
(* facts corpus replays every frame it accepts from a base; a plan frame   *)
(* that is accepted is the packer's own text of what it says, and a        *)
(* logical row names all that its edit changed. And the source: of one     *)
(* that is plain the scans of the surface gate tell the same tokens. And   *)
(* the facts corpus again: what its encoders write of a clean recipe its   *)
(* readers read back.                                                      *)
(* And the formulas of the plan corpus: three evaluators, one value.       *)
(***************************************************************************)
EXTENDS FactsCorpus, PlanCorpus, PlanSurface, SumTheorems, SequenceTheorems, TLAPS

-----------------------------------------------------------------------------
(***************************************************************************)
(* FactsCorpus: accepted frames are told by their rows.                    *)
(***************************************************************************)
(* FactsCorpus: a row has a number for its identifier and is of a request or   *)
(* of a response.                                                              *)
RowKinds == {"request", "response"}
RowTyped(r) == r.id \in Nat /\ r.kind \in RowKinds
RowsTyped == rows \in Seq({rows[i] : i \in DOMAIN rows}) /\ \A i \in DOMAIN rows : RowTyped(rows[i])

(* The rows of a sequence are members of the set of its rows.                  *)
LEMMA SeqOfItsOwn ==
  ASSUME NEW S, NEW s \in Seq(S)
  PROVE  s \in Seq({s[i] : i \in DOMAIN s})
OBVIOUS

(* A row put into a table in its place leaves the others.                      *)
LEMMA InsertedKeeps ==
  ASSUME NEW S, NEW table \in Seq(S), NEW r \in S
  PROVE  Inserted(table, r) \in Seq(S)
<1> DEFINE D == {i \in DOMAIN table : table[i].id < r.id}
           n == Cardinality(D)
<1>1. IsFiniteSet(1..Len(table)) /\ Cardinality(1..Len(table)) = Len(table)
  <2>1. Len(table) \in Int /\ 1 \in Int /\ Len(table) >= 0
    OBVIOUS
  <2>2. IsFiniteSet(1..Len(table))
    BY <2>1, FS_Interval
  <2>3. Cardinality(1..Len(table)) = IF 1 > Len(table) THEN 0 ELSE Len(table) - 1 + 1
    BY <2>1, FS_Interval
  <2> QED BY <2>1, <2>2, <2>3
<1>2. D \subseteq 1..Len(table)
  OBVIOUS
<1>3. n \in Nat /\ n <= Len(table)
  <2> HIDE DEF D
  <2> QED BY <1>1, <1>2, FS_Subset, FS_CardinalityType
<1> HIDE DEF n
<1>4. SubSeq(table, 1, n) \in Seq(S) /\ SubSeq(table, n + 1, Len(table)) \in Seq(S)
  BY <1>3, SubSeqProperties
<1>5. SubSeq(table, 1, n) \o <<r>> \in Seq(S)
  BY <1>4
<1> QED BY <1>4, <1>5 DEF Inserted, n, D

(* What the author writes keeps the name and the kind it is written for.       *)
LEMMA EditsNameTheirRow ==
  ASSUME NEW data, NEW id, NEW k, NEW p, NEW r \in EditsOf(data, id, k, p)
  PROVE  r.id = id /\ r.kind = k
BY DEF EditsOf

LEMMA RowsStart == FactsInit => RowsTyped
<1> SUFFICES ASSUME FactsInit PROVE RowsTyped
  OBVIOUS
<1>1. CASE rows = << >>
  BY <1>1 DEF RowsTyped
<1>2. CASE rows = [i \in 1..Len(FactsFrames) |-> Base(2 * i, FactsFrames[i].kind, FactsFrames[i].data)]
  <2>1. Len(FactsFrames) \in Nat /\ \A i \in 1..Len(FactsFrames) : FactsFrames[i].kind \in RowKinds
    <3>1. FactsFrames \in Seq([kind : RowKinds, data : Seq(Nat)])
      BY FactsAssumption DEF RowKinds
    <3>2. \A i \in 1..Len(FactsFrames) : FactsFrames[i] \in [kind : RowKinds, data : Seq(Nat)]
      <4> DEFINE R == [kind : RowKinds, data : Seq(Nat)]
      <4> HIDE DEF R
      <4>1. FactsFrames \in Seq(R)
        BY <3>1 DEF R
      <4>2. \A i \in 1..Len(FactsFrames) : FactsFrames[i] \in R
        BY <4>1
      <4> QED BY <4>2 DEF R
    <3>3. \A r \in [kind : RowKinds, data : Seq(Nat)] : r.kind \in RowKinds
      OBVIOUS
    <3> QED BY <3>1, <3>2, <3>3
  <2>2. DOMAIN rows = 1..Len(FactsFrames)
    BY <1>2
  <2>3. rows \in Seq({rows[i] : i \in DOMAIN rows})
    <3>1. rows = [i \in 1..Len(FactsFrames) |-> rows[i]]
      BY <1>2
    <3> QED BY <2>1, <2>2, <3>1
  <2>4. ASSUME NEW i \in DOMAIN rows PROVE RowTyped(rows[i])
    BY <1>2, <2>1, <2>2, <2>4, SMTT(30) DEF RowTyped, Base
  <2> QED BY <2>3, <2>4 DEF RowsTyped
<1> QED BY <1>1, <1>2 DEF FactsInit

LEMMA RowsStay == RowsTyped /\ [FactsNext]_factsVars => RowsTyped'
<1> SUFFICES ASSUME RowsTyped, [FactsNext]_factsVars PROVE RowsTyped'
  OBVIOUS
<1>1. CASE UNCHANGED rows
  BY <1>1 DEF RowsTyped
<1>2. CASE AddFrame
  <2>1. PICK i \in DOMAIN rows, id \in 1..(2 * Len(FactsFrames) + 1), k \in RowKinds :
          \E r \in EditsOf(rows[i].data, id, k, rows[i].id) : rows' = Inserted(rows, r)
    BY <1>2 DEF AddFrame, RowKinds
  <2>a. PICK r \in EditsOf(rows[i].data, id, k, rows[i].id) : rows' = Inserted(rows, r)
    BY <2>1
  <2> DEFINE S == {x \in {rows[j] : j \in DOMAIN rows} \cup {r} : RowTyped(x)}
  <2>2. RowTyped(r)
    BY <2>a, EditsNameTheirRow DEF RowTyped
  <2>3. rows \in Seq(S)
    BY DEF RowsTyped
  <2>4. rows' \in Seq(S)
    BY <2>a, <2>2, <2>3, InsertedKeeps
  <2>5. \A j \in DOMAIN rows' : RowTyped(rows'[j])
    BY <2>4
  <2>6. rows' \in Seq({rows'[j] : j \in DOMAIN rows'})
    BY <2>4, SeqOfItsOwn
  <2>7. \A j \in DOMAIN rows' : RowTyped(rows[j])'
    BY <2>5 DEF RowTyped
  <2> QED BY <2>6, <2>7 DEF RowsTyped
<1>3. CASE PointAtParent
  <2>1. PICK i \in DOMAIN rows, j \in DOMAIN rows :
          \E r \in EditsOf(rows[j].data, rows[i].id, rows[i].kind, rows[j].id) :
            rows' = [rows EXCEPT ![i] = r]
    BY <1>3 DEF PointAtParent
  <2>a. PICK r \in EditsOf(rows[j].data, rows[i].id, rows[i].kind, rows[j].id) :
               rows' = [rows EXCEPT ![i] = r]
    BY <2>1
  <2>2. RowTyped(r)
    BY <2>a, EditsNameTheirRow DEF RowTyped, RowsTyped
  <2>3. \A l \in DOMAIN rows' : RowTyped(rows[l])'
    BY <2>a, <2>2 DEF RowsTyped, RowTyped
  <2>4. rows' \in Seq({rows'[l] : l \in DOMAIN rows'})
    <3>1. rows \in Seq({rows[l] : l \in DOMAIN rows} \cup {r})
      BY DEF RowsTyped
    <3>2. rows' \in Seq({rows[l] : l \in DOMAIN rows} \cup {r})
      BY <2>a, <3>1
    <3> QED BY <3>2, SeqOfItsOwn
  <2> QED BY <2>3, <2>4 DEF RowsTyped
<1> QED BY <1>1, <1>2, <1>3 DEF FactsNext, factsVars, AddCandidate, AddPrevious, AddTransaction,
          AddOutput, EditCases

-----------------------------------------------------------------------------
(* One step from the rows of a set to their parents, a base staying.           *)
Parents(table, s) ==
  UNION {IF table[j].parent = None THEN {j} ELSE IndexOf(table, table[j].parent) : j \in s}
Climbs(table, i, m, g) ==
  g = [n \in 0..m |-> IF n = 0 THEN {i} ELSE Parents(table, g[n - 1])]

(* The recursion History is taken from has a solution.                         *)
LEMMA ClimbExists == \A table, i : \A m \in Nat : \E g : Climbs(table, i, m, g)
<1> SUFFICES ASSUME NEW table, NEW i PROVE \A m \in Nat : \E g : Climbs(table, i, m, g)
  OBVIOUS
<1> DEFINE S == {m \in Nat : \E g : Climbs(table, i, m, g)}
<1>1. 0 \in S
  <2> DEFINE g == [n \in 0..0 |-> {i}]
  <2>1. g = [n \in 0..0 |-> IF n = 0 THEN {i} ELSE Parents(table, g[n - 1])]
    OBVIOUS
  <2>2. Climbs(table, i, 0, g)
    BY <2>1 DEF Climbs
  <2> QED BY <2>2
<1>2. ASSUME NEW m \in S PROVE m + 1 \in S
  <2>1. PICK g : Climbs(table, i, m, g)
    OBVIOUS
  <2>2. g = [n \in 0..m |-> IF n = 0 THEN {i} ELSE Parents(table, g[n - 1])]
    BY <2>1 DEF Climbs
  <2>a. \A n \in 0..m : g[n] = IF n = 0 THEN {i} ELSE Parents(table, g[n - 1])
    BY <2>2
  <2> DEFINE h == [n \in 0..(m + 1) |-> IF n <= m THEN g[n] ELSE Parents(table, g[m])]
  <2>3. ASSUME NEW n \in 0..(m + 1)
        PROVE  h[n] = IF n = 0 THEN {i} ELSE Parents(table, h[n - 1])
    <3>1. CASE n <= m
      <4>1. h[n] = g[n] /\ (n # 0 => h[n - 1] = g[n - 1])
        BY <3>1
      <4>2. g[n] = IF n = 0 THEN {i} ELSE Parents(table, g[n - 1])
        <5>1. n \in 0..m
          BY <3>1
        <5> QED BY <2>a, <5>1
      <4> HIDE DEF h
      <4> QED BY <4>1, <4>2
    <3>2. CASE n = m + 1
      <4>1. h[n] = Parents(table, g[m]) /\ h[n - 1] = g[m] /\ n # 0
        BY <3>2
      <4> QED BY <4>1
    <3> QED BY <3>1, <3>2
  <2>4. h = [n \in 0..(m + 1) |-> IF n = 0 THEN {i} ELSE Parents(table, h[n - 1])]
    <3>1. h = [n \in 0..(m + 1) |-> h[n]]
      OBVIOUS
    <3> HIDE DEF h
    <3>2. \A n \in 0..(m + 1) : h[n] = IF n = 0 THEN {i} ELSE Parents(table, h[n - 1])
      BY <2>3
    <3>3. [n \in 0..(m + 1) |-> h[n]]
          = [n \in 0..(m + 1) |-> IF n = 0 THEN {i} ELSE Parents(table, h[n - 1])]
      BY <3>2
    <3> QED BY <3>1, <3>3
  <2>5. Climbs(table, i, m + 1, h)
    <3> HIDE DEF h
    <3> QED BY <2>4 DEF Climbs
  <2> QED BY <2>5
<1> HIDE DEF S
<1>3. S = Nat
  <2>1. S \in SUBSET Nat
    BY DEF S
  <2> QED BY <1>1, <1>2, <2>1, NumberInduction
<1> QED BY <1>3 DEF S

(* History is where the solution ends.                                         *)
LEMMA HistoryIsTheTop ==
  ASSUME NEW table, NEW i, Len(table) \in Nat
  PROVE  \E g : Climbs(table, i, Len(table), g) /\ History(table, i) = g[Len(table)]
<1> DEFINE g == CHOOSE g : Climbs(table, i, Len(table), g)
<1>1. Climbs(table, i, Len(table), g)
  <2>1. \E h : Climbs(table, i, Len(table), h)
    BY ClimbExists
  <2> QED BY <2>1
<1>2. History(table, i) = g[Len(table)]
  BY DEF History, Climbs, Parents
<1> QED BY <1>1, <1>2

-----------------------------------------------------------------------------
(* Rows that are typed and accepted.                                           *)
TableOK(table) ==
  /\ Len(table) \in Nat /\ DOMAIN table = 1..Len(table)
  /\ \A i \in DOMAIN table : RowTyped(table[i]) /\ FrameAccepted(table, i)

(* In an accepted table a name is of one row.                                  *)
LEMMA NamesAreOfOneRow ==
  ASSUME NEW table, TableOK(table), NEW i \in DOMAIN table
  PROVE  IndexOf(table, table[i].id) = {i}
<1>1. ASSUME NEW j \in DOMAIN table, table[j].id = table[i].id PROVE j = i
  <2>1. j \in Int /\ i \in Int
    BY DEF TableOK
  <2>2. table[i].id \in Nat /\ table[j].id \in Nat
    BY DEF TableOK, RowTyped
  <2>3. j < i => table[j].id < table[i].id
    <3>1. j < i => j \in 1..(i - 1)
      BY <2>1 DEF TableOK
    <3> QED BY <3>1 DEF TableOK, FrameAccepted
  <2>4. i < j => table[i].id < table[j].id
    <3>1. i < j => i \in 1..(j - 1)
      BY <2>1 DEF TableOK
    <3> QED BY <3>1 DEF TableOK, FrameAccepted
  <2> QED BY <1>1, <2>1, <2>2, <2>3, <2>4
<1> QED BY <1>1 DEF IndexOf

(* A row that is no base has an earlier parent of its kind.                    *)
LEMMA ParentsComeFirst ==
  ASSUME NEW table, TableOK(table), NEW j \in DOMAIN table, table[j].edit # "base"
  PROVE  \E k \in IndexOf(table, table[j].parent) :
           /\ table[j].parent # None /\ k \in DOMAIN table /\ k < j
           /\ table[k].kind = table[j].kind
<1>1. PICK k \in ParentsOf(table, j) : table[k].kind = table[j].kind
  BY DEF TableOK, FrameAccepted
<1>2. k \in IndexOf(table, table[j].parent) /\ k < j /\ k \in DOMAIN table
      /\ table[k].id = table[j].parent
  BY DEF ParentsOf, IndexOf
<1>3. table[j].parent # None
  BY <1>2, FactsAssumption DEF TableOK, RowTyped
<1> QED BY <1>1, <1>2, <1>3

(* After n steps from i there is a base of its kind, or a row of its kind that *)
(* is at least n rows further up.                                              *)
Reaches(table, i, s, n) ==
  \E j \in s : /\ j \in DOMAIN table /\ table[j].kind = table[i].kind
               /\ table[j].edit = "base" \/ j + n <= i
LEMMA ReachesOn ==
  ASSUME NEW table, TableOK(table), NEW i \in DOMAIN table, NEW s, NEW n \in Nat,
         Reaches(table, i, s, n)
  PROVE  Reaches(table, i, Parents(table, s), n + 1)
<1>1. PICK j \in s : /\ j \in DOMAIN table /\ table[j].kind = table[i].kind
                     /\ table[j].edit = "base" \/ j + n <= i
  BY DEF Reaches
<1>2. CASE table[j].edit = "base"
  <2>1. table[j].parent = None
    BY <1>1, <1>2 DEF TableOK, FrameAccepted
  <2>2. j \in Parents(table, s)
    BY <2>1 DEF Parents
  <2> QED BY <1>1, <1>2, <2>2 DEF Reaches
<1>3. CASE table[j].edit # "base"
  <2>1. PICK k \in IndexOf(table, table[j].parent) :
           /\ table[j].parent # None /\ k \in DOMAIN table /\ k < j
           /\ table[k].kind = table[j].kind
    BY <1>1, <1>3, ParentsComeFirst
  <2>2. k \in Parents(table, s)
    BY <2>1 DEF Parents
  <2>3. k \in Int /\ j \in Int /\ i \in Int
    BY <1>1, <2>1 DEF TableOK
  <2>4. k + (n + 1) <= i
    BY <1>1, <1>3, <2>1, <2>3
  <2> QED BY <1>1, <2>1, <2>2, <2>4 DEF Reaches
<1> QED BY <1>2, <1>3

LEMMA HistoryHasABase ==
  ASSUME NEW table, TableOK(table), NEW i \in DOMAIN table
  PROVE  \E j \in History(table, i) : table[j].edit = "base" /\ table[j].kind = table[i].kind
<1> DEFINE L == Len(table)
<1>1. L \in Nat /\ i \in 1..L
  BY DEF TableOK
<1>2. PICK g : Climbs(table, i, L, g) /\ History(table, i) = g[L]
  BY <1>1, HistoryIsTheTop
<1>3. g = [n \in 0..L |-> IF n = 0 THEN {i} ELSE Parents(table, g[n - 1])]
  BY <1>2 DEF Climbs
<1> DEFINE S == {n \in Nat : n <= L => Reaches(table, i, g[n], n)}
<1>4. 0 \in S
  BY <1>1, <1>3 DEF Reaches
<1>5. ASSUME NEW n \in S PROVE n + 1 \in S
  <2> SUFFICES ASSUME n + 1 <= L PROVE Reaches(table, i, g[n + 1], n + 1)
    OBVIOUS
  <2>1. Reaches(table, i, g[n], n)
    BY <1>1
  <2>2. g[n + 1] = Parents(table, g[n])
    <3>1. \A x \in 0..L : g[x] = IF x = 0 THEN {i} ELSE Parents(table, g[x - 1])
      BY <1>3
    <3>2. n + 1 \in 0..L /\ n + 1 # 0 /\ (n + 1) - 1 = n
      BY <1>1
    <3> QED BY <3>1, <3>2
  <2> QED BY <2>1, <2>2, ReachesOn
<1>6. S = Nat
  <2> HIDE DEF S
  <2>1. S \in SUBSET Nat
    BY DEF S
  <2> QED BY <1>4, <1>5, <2>1, NumberInduction
<1>7. Reaches(table, i, g[L], L)
  BY <1>1, <1>6
<1>8. PICK j \in g[L] : /\ j \in DOMAIN table /\ table[j].kind = table[i].kind
                        /\ table[j].edit = "base" \/ j + L <= i
  BY <1>7 DEF Reaches
<1>9. table[j].edit = "base"
  <2>1. j \in 1..L
    BY <1>8 DEF TableOK
  <2> QED BY <1>1, <1>8, <2>1
<1> QED BY <1>2, <1>8, <1>9

(* Some case replays a row, with the operation of its kind.                    *)
LEMMA RowsAreReplayed ==
  ASSUME NEW table, TableOK(table), NEW replays, ReplaysAccepted(replays, table),
         NEW i \in DOMAIN table
  PROVE  \E c \in replays : c.frame = table[i].id
                            /\ (c.operation = "response-decode" <=> table[i].kind = "response")
<1>1. table[i].id \in {c.frame : c \in replays}
  BY DEF ReplaysAccepted
<1>2. PICK c \in replays : c.frame = table[i].id
  BY <1>1
<1>3. CaseAccepted(c, table)
  BY DEF ReplaysAccepted
<1>4. IndexOf(table, c.frame) = {i}
  BY <1>2, NamesAreOfOneRow
<1>5. (CHOOSE x \in IndexOf(table, c.frame) : TRUE) = i
  BY <1>4
<1>6. (c.operation # "response-decode") = (table[i].kind = "request")
  BY <1>3, <1>5 DEF CaseAccepted
<1>7. table[i].kind = "request" \/ table[i].kind = "response"
  BY DEF TableOK, RowTyped, RowKinds
<1> QED BY <1>2, <1>6, <1>7

(* A table of frames the facts checker accepts has a history for every frame:  *)
(* going from parent to parent ends at a base of its kind, and some case       *)
(* replays it, for any base frames and number of edits.                        *)
THEOREM FramesAreTold == FactsSpec => []AcceptedFramesAreTold
<1>1. RowsTyped => AcceptedFramesAreTold
  <2> SUFFICES ASSUME RowsTyped, FramesAccepted(rows)
               PROVE  /\ \A i \in DOMAIN rows : \E j \in History(rows, i) :
                           rows[j].edit = "base" /\ rows[j].kind = rows[i].kind
                      /\ ReplaysAccepted(cases, rows) => \A i \in DOMAIN rows : \E c \in cases :
                           c.frame = rows[i].id
                           /\ (c.operation = "response-decode" <=> rows[i].kind = "response")
    BY DEF AcceptedFramesAreTold
  <2>1. TableOK(rows)
    BY DEF RowsTyped, TableOK, FramesAccepted
  <2> QED BY <2>1, HistoryHasABase, RowsAreReplayed
<1> QED BY <1>1, RowsStart, RowsStay, PTL DEF FactsSpec

-----------------------------------------------------------------------------
(***************************************************************************)
(* PlanCorpus: accepted frames are canonical, logical rows name their      *)
(* edits.                                                                  *)
(***************************************************************************)
-----------------------------------------------------------------------------
(* Texts put together and numbers added, one by one.                           *)
Joins(s, j) ==
  /\ j[0] = << >> /\ \A i \in 1..Len(s) : j[i] = j[i - 1] \o s[i]
LEMMA JoinedIsLast ==
  ASSUME NEW T, NEW s \in Seq(Seq(T))
  PROVE  \E j \in [0..Len(s) -> Seq(T)] : Joins(s, j) /\ Joined(s) = j[Len(s)]
<1> DEFINE step == [p \in (1..Len(s)) \X Seq(T) |-> p[2] \o s[p[1]]]
           L == Len(s)
           V == Seq(T)
<1>1. L \in Nat /\ << >> \in V
  OBVIOUS
<1>2. \A i \in 1..L, v \in V : step[<<i, v>>] \in V /\ step[<<i, v>>] = v \o s[i]
  <2>1. ASSUME NEW i \in 1..L, NEW v \in V PROVE step[<<i, v>>] = v \o s[i] /\ v \o s[i] \in V
    <3>1. s[i] \in Seq(T)
      OBVIOUS
    <3>2. v \o s[i] \in V
      BY <3>1
    <3>3. <<i, v>> \in (1..Len(s)) \X Seq(T)
      OBVIOUS
    <3>4. step[<<i, v>>] = v \o s[i]
      BY <3>3
    <3> QED BY <3>2, <3>4
  <2> QED BY <2>1
<1> HIDE DEF step
<1>3. \E g : Solves(V, << >>, L, step, g)
  <2> HIDE DEF V, L
  <2> QED BY <1>1, <1>2, RecursionExists
<1>4. PICK g : Solves(V, << >>, L, step, g)
  BY <1>3
<1>5. g \in [0..L -> V] /\ g[0] = << >> /\ \A i \in 1..L : g[i] = g[i - 1] \o s[i]
  <2>1. \A i \in 1..L : i - 1 \in 0..L
    BY <1>1
  <2> HIDE DEF V, L
  <2> QED BY <1>2, <1>4, <2>1 DEF Solves
<1> DEFINE Good(j) == j = [i \in 0..L |-> IF i = 0 THEN << >> ELSE j[i - 1] \o s[i]]
<1>6. Good(g)
  <2>1. g = [i \in 0..L |-> g[i]]
    BY <1>5
  <2>2. \A i \in 0..L : g[i] = IF i = 0 THEN << >> ELSE g[i - 1] \o s[i]
    <3>1. \A i \in 0..L : i # 0 => i \in 1..L
      BY <1>1
    <3> HIDE DEF L, V
    <3> QED BY <1>5, <3>1
  <2>3. [i \in 0..L |-> g[i]] = [i \in 0..L |-> IF i = 0 THEN << >> ELSE g[i - 1] \o s[i]]
    <3> HIDE DEF L
    <3> QED BY <2>2
  <2> QED BY <2>1, <2>3
<1> DEFINE j == CHOOSE j : Good(j)
<1>7. Good(j)
  <2> HIDE DEF Good
  <2> QED BY <1>6
<1>8. Joined(s) = j[L]
  BY DEF Joined
<1> HIDE DEF j
<1>9. Solves(V, << >>, L, step, j)
  <2>1. DOMAIN j = 0..L /\ j = [i \in 0..L |-> j[i]] /\ j[0] = << >>
    BY <1>1, <1>7
  <2>2. ASSUME NEW i \in 1..L, j[i - 1] \in V PROVE j[i] = step[<<i, j[i - 1]>>]
    <3>1. j[i] = j[i - 1] \o s[i]
      <4>1. \A n \in 0..L : j[n] = IF n = 0 THEN << >> ELSE j[n - 1] \o s[n]
        BY <1>7
      <4>2. i \in 0..L /\ i # 0
        BY <1>1
      <4> QED BY <4>1, <4>2
    <3> QED BY <1>2, <2>2, <3>1
  <2> HIDE DEF V, L
  <2> QED BY <1>1, <1>2, <2>1, <2>2, Solution
<1>10. j \in [0..L -> V] /\ Joins(s, j)
  <2>1. \A i \in 1..L : i - 1 \in 0..L
    BY <1>1
  <2>2. j \in [0..L -> V] /\ j[0] = << >>
    BY <1>9 DEF Solves
  <2>3. \A i \in 1..L : j[i] = j[i - 1] \o s[i]
    <3> HIDE DEF V, L
    <3> QED BY <1>2, <1>9, <2>1, <2>2 DEF Solves
  <2> QED BY <2>2, <2>3 DEF Joins
<1> QED BY <1>8, <1>10

(* What is joined of one text more.                                            *)
LEMMA JoinedOfAppend ==
  ASSUME NEW T, NEW s \in Seq(Seq(T)), NEW x \in Seq(T)
  PROVE  /\ Joined(s) \in Seq(T)
         /\ Joined(Append(s, x)) = Joined(s) \o x
         /\ Joined(<< >>) = << >>
<1> DEFINE V == Seq(T)
           t == Append(s, x)
           L == Len(s)
<1>1. t \in Seq(V) /\ Len(t) = L + 1 /\ t[L + 1] = x /\ \A i \in 1..L : t[i] = s[i]
  OBVIOUS
<1> HIDE DEF t
<1>2. PICK j \in [0..L -> V] : Joins(s, j) /\ Joined(s) = j[L]
  BY JoinedIsLast
<1>3. PICK k \in [0..Len(t) -> V] : Joins(t, k) /\ Joined(t) = k[Len(t)]
  BY <1>1, JoinedIsLast
<1>4. L \in Nat
  OBVIOUS
<1>5. j[L] = k[L]
  <2> DEFINE S == {n \in Nat : n <= L => j[n] = k[n]}
  <2>1. 0 \in S
    BY <1>2, <1>3 DEF Joins
  <2>2. ASSUME NEW n \in S PROVE n + 1 \in S
    <3> SUFFICES ASSUME n + 1 <= L PROVE j[n + 1] = k[n + 1]
      OBVIOUS
    <3>1. n + 1 \in 1..L /\ n + 1 \in 1..Len(t) /\ (n + 1) - 1 = n
      BY <1>1, <1>4
    <3>2. j[n + 1] = j[n] \o s[n + 1]
      BY <1>2, <3>1 DEF Joins
    <3>3. k[n + 1] = k[n] \o t[n + 1]
      BY <1>3, <3>1 DEF Joins
    <3>4. j[n] = k[n] /\ t[n + 1] = s[n + 1]
      BY <1>1, <1>4, <3>1
    <3> QED BY <3>2, <3>3, <3>4
  <2>3. S = Nat
    <3> HIDE DEF S
    <3>1. S \in SUBSET Nat
      BY DEF S
    <3> QED BY <2>1, <2>2, <3>1, NumberInduction
  <2>4. L \in S
    BY <1>4, <2>3
  <2> QED BY <1>4, <2>4
<1>6. Joined(t) = k[L] \o x
  <2>1. L + 1 \in 1..Len(t) /\ (L + 1) - 1 = L
    BY <1>1, <1>4
  <2>2. k[L + 1] = k[L] \o t[L + 1]
    BY <1>3, <2>1 DEF Joins
  <2> QED BY <1>1, <1>3, <2>2
<1>7. Joined(<< >>) = << >>
  <2>1. << >> \in Seq(Seq(T)) /\ Len(<< >>) = 0
    OBVIOUS
  <2>2. PICK e : Joins(<< >>, e) /\ Joined(<< >>) = e[0]
    BY <2>1, JoinedIsLast
  <2> QED BY <2>2 DEF Joins
<1>8. Joined(s) \in Seq(T)
  <2>1. L \in 0..L
    BY <1>4
  <2>2. j[L] \in V
    <3> HIDE DEF V, L
    <3> QED BY <1>2, <2>1
  <2> QED BY <1>2, <2>2
<1> QED BY <1>2, <1>5, <1>6, <1>7, <1>8 DEF t

(* The same of numbers.                                                        *)
Adds(s, j) == j[0] = 0 /\ \A i \in 1..Len(s) : j[i] = j[i - 1] + s[i]
LEMMA SumOfIsLast ==
  ASSUME NEW s \in Seq(Nat)
  PROVE  \E j \in [0..Len(s) -> Nat] : Adds(s, j) /\ SumOf(s) = j[Len(s)]
<1> DEFINE step == [p \in (1..Len(s)) \X Nat |-> p[2] + s[p[1]]]
           L == Len(s)
<1>1. L \in Nat
  OBVIOUS
<1>2. \A i \in 1..L, v \in Nat : step[<<i, v>>] \in Nat /\ step[<<i, v>>] = v + s[i]
  <2>1. ASSUME NEW i \in 1..L, NEW v \in Nat PROVE step[<<i, v>>] = v + s[i] /\ v + s[i] \in Nat
    <3>1. s[i] \in Nat
      OBVIOUS
    <3>2. v + s[i] \in Nat
      BY <3>1
    <3>3. <<i, v>> \in (1..Len(s)) \X Nat
      OBVIOUS
    <3>4. step[<<i, v>>] = v + s[i]
      BY <3>3
    <3> QED BY <3>2, <3>4
  <2> QED BY <2>1
<1> HIDE DEF step
<1>3. \E g : Solves(Nat, 0, L, step, g)
  <2> HIDE DEF L
  <2> QED BY <1>1, <1>2, RecursionExists
<1>4. PICK g : Solves(Nat, 0, L, step, g)
  BY <1>3
<1>5. g \in [0..L -> Nat] /\ g[0] = 0 /\ \A i \in 1..L : g[i] = g[i - 1] + s[i]
  <2>1. \A i \in 1..L : i - 1 \in 0..L
    BY <1>1
  <2> HIDE DEF L
  <2> QED BY <1>2, <1>4, <2>1 DEF Solves
<1> DEFINE Good(j) == j = [i \in 0..L |-> IF i = 0 THEN 0 ELSE j[i - 1] + s[i]]
<1>6. Good(g)
  <2>1. g = [i \in 0..L |-> g[i]]
    BY <1>5
  <2>2. \A i \in 0..L : g[i] = IF i = 0 THEN 0 ELSE g[i - 1] + s[i]
    <3>1. \A i \in 0..L : i # 0 => i \in 1..L
      BY <1>1
    <3> HIDE DEF L
    <3> QED BY <1>5, <3>1
  <2>3. [i \in 0..L |-> g[i]] = [i \in 0..L |-> IF i = 0 THEN 0 ELSE g[i - 1] + s[i]]
    <3> HIDE DEF L
    <3> QED BY <2>2
  <2> QED BY <2>1, <2>3
<1> DEFINE j == CHOOSE j : Good(j)
<1>7. Good(j)
  <2> HIDE DEF Good
  <2> QED BY <1>6
<1>8. SumOf(s) = j[L]
  BY DEF SumOf
<1> HIDE DEF j
<1>9. Solves(Nat, 0, L, step, j)
  <2>1. DOMAIN j = 0..L /\ j = [i \in 0..L |-> j[i]] /\ j[0] = 0
    BY <1>1, <1>7
  <2>2. ASSUME NEW i \in 1..L, j[i - 1] \in Nat PROVE j[i] = step[<<i, j[i - 1]>>]
    <3>1. j[i] = j[i - 1] + s[i]
      <4>1. \A n \in 0..L : j[n] = IF n = 0 THEN 0 ELSE j[n - 1] + s[n]
        BY <1>7
      <4>2. i \in 0..L /\ i # 0
        BY <1>1
      <4> QED BY <4>1, <4>2
    <3> QED BY <1>2, <2>2, <3>1
  <2> HIDE DEF L
  <2> QED BY <1>1, <1>2, <2>1, <2>2, Solution
<1>10. j \in [0..L -> Nat] /\ Adds(s, j)
  <2>1. \A i \in 1..L : i - 1 \in 0..L
    BY <1>1
  <2>2. j \in [0..L -> Nat] /\ j[0] = 0
    BY <1>9 DEF Solves
  <2>3. \A i \in 1..L : j[i] = j[i - 1] + s[i]
    <3> HIDE DEF L
    <3> QED BY <1>2, <1>9, <2>1, <2>2 DEF Solves
  <2> QED BY <2>2, <2>3 DEF Adds
<1> QED BY <1>8, <1>10

(* The sum of one number more.                                                 *)
LEMMA SumOfAppend ==
  ASSUME NEW s \in Seq(Nat), NEW x \in Nat
  PROVE  SumOf(s) \in Nat /\ SumOf(Append(s, x)) = SumOf(s) + x /\ SumOf(<< >>) = 0
<1> DEFINE t == Append(s, x)
           L == Len(s)
<1>1. t \in Seq(Nat) /\ Len(t) = L + 1 /\ t[L + 1] = x /\ \A i \in 1..L : t[i] = s[i]
  OBVIOUS
<1> HIDE DEF t
<1>2. PICK j \in [0..L -> Nat] : Adds(s, j) /\ SumOf(s) = j[L]
  BY SumOfIsLast
<1>3. PICK k \in [0..Len(t) -> Nat] : Adds(t, k) /\ SumOf(t) = k[Len(t)]
  BY <1>1, SumOfIsLast
<1>4. L \in Nat
  OBVIOUS
<1>5. j[L] = k[L]
  <2> DEFINE S == {n \in Nat : n <= L => j[n] = k[n]}
  <2>1. 0 \in S
    BY <1>2, <1>3 DEF Adds
  <2>2. ASSUME NEW n \in S PROVE n + 1 \in S
    <3> SUFFICES ASSUME n + 1 <= L PROVE j[n + 1] = k[n + 1]
      OBVIOUS
    <3>1. n + 1 \in 1..L /\ n + 1 \in 1..Len(t) /\ (n + 1) - 1 = n
      BY <1>1, <1>4
    <3>2. j[n + 1] = j[n] + s[n + 1]
      BY <1>2, <3>1 DEF Adds
    <3>3. k[n + 1] = k[n] + t[n + 1]
      BY <1>3, <3>1 DEF Adds
    <3>4. j[n] = k[n] /\ t[n + 1] = s[n + 1]
      BY <1>1, <1>4, <3>1
    <3> QED BY <3>2, <3>3, <3>4
  <2>3. S = Nat
    <3> HIDE DEF S
    <3>1. S \in SUBSET Nat
      BY DEF S
    <3> QED BY <2>1, <2>2, <3>1, NumberInduction
  <2> QED BY <1>4, <2>3
<1>6. SumOf(t) = k[L] + x
  <2>1. L + 1 \in 1..Len(t) /\ (L + 1) - 1 = L
    BY <1>1, <1>4
  <2>2. k[L + 1] = k[L] + t[L + 1]
    BY <1>3, <2>1 DEF Adds
  <2> QED BY <1>1, <1>3, <2>2
<1>7. SumOf(<< >>) = 0
  <2>1. << >> \in Seq(Nat) /\ Len(<< >>) = 0
    OBVIOUS
  <2>2. PICK e : Adds(<< >>, e) /\ SumOf(<< >>) = e[0]
    BY <2>1, SumOfIsLast
  <2> QED BY <2>2 DEF Adds
<1>8. SumOf(s) \in Nat
  BY <1>2, <1>4
<1> QED BY <1>2, <1>5, <1>6, <1>7, <1>8 DEF t

-----------------------------------------------------------------------------
(* What a walk carries.                                                        *)
Row == [txid : Nat \X Nat, vout : Nat, asset : Nat, value : Nat, candidate : Seq(Nat),
        previous : Seq(Seq(Nat))]
Destination == [asset : Nat, value : Nat, address : Seq(Nat)]
Walks == [at : Nat, code : Nat, bad : BOOLEAN, previous : Nat, bytes : Nat, list : Seq(Seq(Nat)),
          selected : Seq(Row), destinations : Seq(Destination)]

(* The walk from w over n items, each by the function step, the first fault    *)
(* ending it.                                                                  *)
Runs(w, n, step, g) ==
  /\ g \in [0..n -> Walks] /\ g[0] = w
  /\ \A i \in 1..n : g[i] = IF g[i - 1].code # 0 THEN g[i - 1] ELSE step[g[i - 1]]
Onward(step, n) ==
  [p \in (1..n) \X Walks |-> IF p[2].code # 0 THEN p[2] ELSE step[p[2]]]
LEMMA OnwardIs ==
  ASSUME NEW n \in Nat, NEW step \in [Walks -> Walks]
  PROVE  \A i \in 1..n, v \in Walks :
            /\ Onward(step, n)[<<i, v>>] \in Walks
            /\ Onward(step, n)[<<i, v>>] = IF v.code # 0 THEN v ELSE step[v]
BY DEF Onward
LEMMA RunExists ==
  ASSUME NEW w \in Walks, NEW n \in Nat, NEW step \in [Walks -> Walks]
  PROVE  \E g : Runs(w, n, step, g)
<1>1. PICK g : Solves(Walks, w, n, Onward(step, n), g)
  <2> DEFINE o == Onward(step, n)
  <2>1. \A i \in 1..n, v \in Walks : o[<<i, v>>] \in Walks
    BY OnwardIs
  <2> HIDE DEF o
  <2>2. \E g : Solves(Walks, w, n, o, g)
    BY <2>1, RecursionExists
  <2> QED BY <2>2 DEF o
<1>2. \A i \in 1..n : i - 1 \in 0..n
  OBVIOUS
<1>3. g \in [0..n -> Walks] /\ g[0] = w
  BY <1>1 DEF Solves
<1>4. \A i \in 1..n : g[i] = Onward(step, n)[<<i, g[i - 1]>>] /\ g[i - 1] \in Walks
  BY <1>1, <1>2, <1>3 DEF Solves
<1>5. \A i \in 1..n : g[i] = IF g[i - 1].code # 0 THEN g[i - 1] ELSE step[g[i - 1]]
  BY <1>4, OnwardIs
<1> QED BY <1>3, <1>5 DEF Runs
(* What follows the recursion of the walk is the walk.                         *)
LEMMA RunIs ==
  ASSUME NEW w \in Walks, NEW n \in Nat, NEW step \in [Walks -> Walks], NEW j,
         DOMAIN j = 0..n, j = [i \in 0..n |-> j[i]], j[0] = w,
         \A i \in 1..n : j[i - 1] \in Walks =>
            j[i] = IF j[i - 1].code # 0 THEN j[i - 1] ELSE step[j[i - 1]]
  PROVE  Runs(w, n, step, j)
<1> DEFINE o == Onward(step, n)
<1>1. \A i \in 1..n, v \in Walks : o[<<i, v>>] \in Walks
  BY OnwardIs
<1>2. \A i \in 1..n : j[i - 1] \in Walks => j[i] = o[<<i, j[i - 1]>>]
  BY OnwardIs
<1> HIDE DEF o
<1>3. Solves(Walks, w, n, o, j)
  BY <1>1, <1>2, Solution
<1>4. j \in [0..n -> Walks]
  BY <1>3 DEF Solves
<1>5. \A i \in 1..n : j[i - 1] \in Walks
  BY <1>4
<1> QED BY <1>4, <1>5 DEF Runs

-----------------------------------------------------------------------------
(* The frame says s from the cursor a up to the cursor b.                      *)
Told(d, a, b, s) ==
  /\ a \in Nat /\ b \in Nat /\ s \in Seq(Nat) /\ b = a + Len(s) /\ b <= Len(d)
  /\ \A i \in 1..Len(s) : s[i] = d[a + i]
LEMMA ToldOn ==
  ASSUME NEW d \in Seq(Nat), NEW a, NEW b, NEW c, NEW s, NEW t, Told(d, a, b, s), Told(d, b, c, t)
  PROVE  Told(d, a, c, s \o t)
<1>1. s \in Seq(Nat) /\ t \in Seq(Nat) /\ a \in Nat /\ b \in Nat /\ c \in Nat
  BY DEF Told
<1>2. s \o t \in Seq(Nat) /\ Len(s \o t) = Len(s) + Len(t)
  BY <1>1
<1>3. c = a + Len(s \o t) /\ c <= Len(d)
  BY <1>1, <1>2 DEF Told
<1>4. ASSUME NEW i \in 1..Len(s \o t) PROVE (s \o t)[i] = d[a + i]
  <2>1. CASE i <= Len(s)
    <3>1. (s \o t)[i] = s[i] /\ i \in 1..Len(s)
      BY <1>1, <1>2, <2>1
    <3> QED BY <3>1 DEF Told
  <2>2. CASE i > Len(s)
    <3>1. (s \o t)[i] = t[i - Len(s)] /\ i - Len(s) \in 1..Len(t)
      BY <1>1, <1>2, <2>2
    <3>2. b + (i - Len(s)) = a + i
      BY <1>1 DEF Told
    <3>3. t[i - Len(s)] = d[b + (i - Len(s))]
      BY <3>1 DEF Told
    <3> QED BY <3>1, <3>2, <3>3
  <2> QED BY <1>1, <1>2, <2>1, <2>2
<1> QED BY <1>1, <1>2, <1>3, <1>4 DEF Told
LEMMA ToldSelf ==
  ASSUME NEW d \in Seq(Nat), NEW a \in Nat, NEW n \in Nat, a + n <= Len(d)
  PROVE  /\ SubSeq(d, a + 1, a + n) \in Seq(Nat) /\ Len(SubSeq(d, a + 1, a + n)) = n
         /\ Told(d, a, a + n, SubSeq(d, a + 1, a + n))
<1>1. SubSeq(d, a + 1, a + n) \in Seq(Nat) /\ Len(SubSeq(d, a + 1, a + n)) = n
  OBVIOUS
<1>2. ASSUME NEW i \in 1..n PROVE SubSeq(d, a + 1, a + n)[i] = d[a + i]
  <2> DEFINE x == a + 1
             y == a + n
  <2>1. x \in 1..(Len(d) + 1) /\ y \in (x - 1)..Len(d) /\ i \in 1..(y - x + 1) /\ x + i - 1 = a + i
    OBVIOUS
  <2> HIDE DEF x, y
  <2>2. SubSeq(d, x, y)[i] = d[x + i - 1]
    BY <2>1, SubSeqProperties
  <2> QED BY <2>1, <2>2 DEF x, y
<1> DEFINE f == SubSeq(d, a + 1, a + n)
<1>3. f \in Seq(Nat) /\ Len(f) = n /\ \A i \in 1..n : f[i] = d[a + i]
  BY <1>1, <1>2
<1> HIDE DEF f
<1>4. Told(d, a, a + n, f)
  BY <1>3 DEF Told
<1> QED BY <1>3, <1>4 DEF f

(* A walk that has met a fault is one.                                         *)
LEMMA FaultIsAWalk ==
  ASSUME NEW w \in Walks, NEW c \in Nat
  PROVE  Fault(w, c) \in Walks /\ Fault(w, c).code = c
BY DEF Fault, Walks

-----------------------------------------------------------------------------
(* A previous transaction: its length and what it is.                          *)
PreviousText(p) == <<Len(p)>> \o p
PreviousIsRead(d, w, r, plain) ==
  /\ r \in Walks
  /\ w.code = 0 /\ r.code = 0 =>
       /\ plain = r
       /\ \E p \in Seq(Nat) :
            /\ r = [w EXCEPT !.at = @ + 1 + Len(p), !.bytes = @ + Len(p), !.list = Append(@, p)]
            /\ Told(d, w.at, r.at, PreviousText(p))
LEMMA PreviousRead ==
  ASSUME NEW d \in Seq(Nat), NEW limited, NEW w \in Walks
  PROVE  PreviousIsRead(d, w, ReadPrevious(d, limited, w), ReadPrevious(d, FALSE, w))
<1> DEFINE r == ReadPrevious(d, limited, w)
           n == d[w.at + 1]
           p == SubSeq(d, w.at + 2, w.at + 1 + n)
<1>0. w.at \in Nat /\ w.bytes \in Nat /\ w.list \in Seq(Seq(Nat)) /\ w.code \in Nat
  BY DEF Walks
<1>1. CASE w.at + 1 > Len(d)
  <2>1. r = Fault(w, 3)
    BY <1>1 DEF ReadPrevious
  <2>2. r \in Walks /\ r.code = 3
    BY <2>1, FaultIsAWalk
  <2> QED BY <2>2 DEF PreviousIsRead
<1>2. CASE ~(w.at + 1 > Len(d)) /\ r = Fault(w, 4)
  <2>1. r \in Walks /\ r.code = 4
    BY <1>2, FaultIsAWalk
  <2> QED BY <2>1 DEF PreviousIsRead
<1>3. CASE ~(w.at + 1 > Len(d)) /\ r # Fault(w, 4)
  <2>1. r = IF w.at + 1 + n > Len(d) THEN Fault(w, 3) ELSE
            [w EXCEPT !.at = @ + 1 + n, !.bytes = @ + n, !.list = Append(@, p)]
    BY <1>3 DEF ReadPrevious
  <2>2. w.at + 1 \in 1..Len(d) /\ n \in Nat
    BY <1>0, <1>3
  <2> HIDE DEF r
  <2>3. CASE w.at + 1 + n > Len(d)
    <3>1. r \in Walks /\ r.code = 3
      BY <2>1, <2>3, FaultIsAWalk
    <3> QED BY <3>1 DEF r, PreviousIsRead
  <2>4. CASE ~(w.at + 1 + n > Len(d))
    <3> DEFINE a == w.at + 1
    <3>1. a \in Nat /\ a + n <= Len(d) /\ p = SubSeq(d, a + 1, a + n)
      <4>1. w.at + 2 = a + 1
        BY <1>0
      <4>2. a \in Nat /\ a + n <= Len(d)
        <5>1. Len(d) \in Nat /\ n \in Nat /\ a \in Nat
          BY <1>0, <2>2
        <5> HIDE DEF n, p
        <5> QED BY <2>4, <5>1
      <4>3. p = SubSeq(d, a + 1, a + n)
        BY <4>1
      <4> QED BY <4>2, <4>3
    <3> HIDE DEF n, p, a
    <3>2. p \in Seq(Nat) /\ Len(p) = n /\ Told(d, a, a + n, p)
      BY <2>2, <3>1, ToldSelf
    <3>3. r = [w EXCEPT !.at = @ + 1 + n, !.bytes = @ + n, !.list = Append(@, p)]
      BY <2>1, <2>4
    <3>4. Told(d, w.at, a, <<n>>)
      BY <1>0, <2>2, <3>1 DEF Told, n, a
    <3>5. Told(d, w.at, a + n, <<n>> \o p)
      BY <3>2, <3>4, ToldOn
    <3>6. r.at = a + n
      BY <1>0, <2>2, <3>3 DEF Walks, a
    <3>7. r \in Walks
      <4>1. w.at + 1 + n \in Nat /\ w.bytes + n \in Nat /\ Append(w.list, p) \in Seq(Seq(Nat))
        BY <1>0, <2>2, <3>2, SMTT(30)
      <4> QED BY <3>3, <4>1 DEF Walks
    <3>8. ReadPrevious(d, FALSE, w) = r
      BY <1>3, <2>4, <3>3 DEF ReadPrevious, n, p
    <3>9. \E q \in Seq(Nat) :
              /\ r = [w EXCEPT !.at = @ + 1 + Len(q), !.bytes = @ + Len(q), !.list = Append(@, q)]
              /\ Told(d, w.at, r.at, PreviousText(q))
      BY <3>2, <3>3, <3>5, <3>6 DEF PreviousText
    <3> QED BY <3>7, <3>8, <3>9 DEF r, PreviousIsRead
  <2> QED BY <2>3, <2>4
<1> QED BY <1>1, <1>2, <1>3

-----------------------------------------------------------------------------
(* A run that ends without a fault has met none.                               *)
Smooth(n, step, g) ==
  /\ \A i \in 0..n : g[i].code = 0 /\ g[i] \in Walks
  /\ \A i \in 1..n : g[i] = step[g[i - 1]]
LEMMA GoodRun ==
  ASSUME NEW w, NEW n \in Nat, NEW step, NEW g, Runs(w, n, step, g), g[n].code = 0
  PROVE  Smooth(n, step, g)
<1> DEFINE S == {k \in Nat : k <= n => g[n - k].code = 0}
<1>1. 0 \in S
  OBVIOUS
<1>2. ASSUME NEW k \in S PROVE k + 1 \in S
  <2> SUFFICES ASSUME k + 1 <= n PROVE g[n - (k + 1)].code = 0
    OBVIOUS
  <2> DEFINE i == n - k
  <2>1. i \in 1..n /\ n - (k + 1) = i - 1 /\ g[i].code = 0
    OBVIOUS
  <2> HIDE DEF i
  <2>2. g[i] = IF g[i - 1].code # 0 THEN g[i - 1] ELSE step[g[i - 1]]
    BY <2>1 DEF Runs
  <2> QED BY <2>1, <2>2
<1>3. S = Nat
  <2> HIDE DEF S
  <2>1. S \in SUBSET Nat
    BY DEF S
  <2> QED BY <1>1, <1>2, <2>1, NumberInduction
<1>4. ASSUME NEW i \in 0..n PROVE g[i].code = 0 /\ g[i] \in Walks
  <2>1. n - i \in S /\ n - i <= n /\ n - (n - i) = i
    BY <1>3
  <2>2. g[i].code = 0
    BY <2>1
  <2> QED BY <2>2 DEF Runs
<1>5. ASSUME NEW i \in 1..n PROVE g[i] = step[g[i - 1]]
  <2>1. i - 1 \in 0..n
    OBVIOUS
  <2>2. g[i - 1].code = 0
    BY <1>4, <2>1
  <2> QED BY <2>2 DEF Runs
<1> QED BY <1>4, <1>5 DEF Smooth

(* Two runs whose steps agree where the first meets no fault end alike.        *)
LEMMA SameRun ==
  ASSUME NEW w, NEW n \in Nat, NEW step, NEW g, Runs(w, n, step, g), g[n].code = 0,
         NEW other, NEW h, Runs(w, n, other, h),
         \A v \in Walks : v.code = 0 /\ step[v].code = 0 => other[v] = step[v]
  PROVE  h[n] = g[n]
<1>0. /\ \A i \in 0..n : g[i].code = 0 /\ g[i] \in Walks
      /\ \A i \in 1..n : g[i] = step[g[i - 1]]
  <2>1. Smooth(n, step, g)
    BY GoodRun
  <2> QED BY <2>1 DEF Smooth
<1> DEFINE S == {k \in Nat : k <= n => h[k] = g[k]}
<1>1. 0 \in S
  BY DEF Runs
<1>2. ASSUME NEW k \in S PROVE k + 1 \in S
  <2> SUFFICES ASSUME k + 1 <= n PROVE h[k + 1] = g[k + 1]
    OBVIOUS
  <2>1. k \in 0..n /\ k + 1 \in 0..n /\ k + 1 \in 1..n /\ (k + 1) - 1 = k /\ h[k] = g[k]
    OBVIOUS
  <2>2. g[k].code = 0 /\ g[k] \in Walks /\ g[k + 1].code = 0 /\ g[k + 1] = step[g[k]]
    <3>2. g[k + 1] = step[g[(k + 1) - 1]]
      BY <1>0, <2>1
    <3> QED BY <1>0, <2>1, <3>2
  <2>3. h[k + 1] = IF h[(k + 1) - 1].code # 0 THEN h[(k + 1) - 1] ELSE other[h[(k + 1) - 1]]
    BY <2>1 DEF Runs
  <2>4. h[k + 1] = other[g[k]]
    BY <2>1, <2>2, <2>3
  <2> QED BY <2>2, <2>4
<1>3. S = Nat
  <2> HIDE DEF S
  <2>1. S \in SUBSET Nat
    BY DEF S
  <2> QED BY <1>1, <1>2, <2>1, NumberInduction
<1> QED BY <1>3

(* The walk over the previous transactions of a row.                           *)
PreviousStep(d, limited) == [v \in Walks |-> ReadPrevious(d, limited, v)]
PreviousWalk(d, limited, w, n) == Repeat(w, n, LAMBDA v : ReadPrevious(d, limited, v))
LEMMA PreviousRuns ==
  ASSUME NEW d \in Seq(Nat), NEW limited, NEW w \in Walks, NEW n \in Nat
  PROVE  \E g : Runs(w, n, PreviousStep(d, limited), g) /\ PreviousWalk(d, limited, w, n) = g[n]
<1> DEFINE step == PreviousStep(d, limited)
<1>1. step \in [Walks -> Walks]
  BY PreviousRead DEF PreviousStep, PreviousIsRead
<1>2. \A v \in Walks : step[v] = ReadPrevious(d, limited, v)
  BY DEF PreviousStep
<1> HIDE DEF step
<1>3. PICK g : Runs(w, n, step, g)
  BY <1>1, RunExists
<1> DEFINE Good(j) == j = [i \in 0..n |-> IF i = 0 THEN w ELSE
                             IF j[i - 1].code # 0 THEN j[i - 1] ELSE ReadPrevious(d, limited, j[i - 1])]
<1>4. Good(g)
  <2>1. g = [i \in 0..n |-> g[i]]
    BY <1>3 DEF Runs
  <2>2. \A i \in 1..n : i - 1 \in 0..n
    OBVIOUS
  <2>3. \A i \in 1..n : g[i - 1] \in Walks
    BY <1>3, <2>2 DEF Runs
  <2>4. \A i \in 0..n : i # 0 => i \in 1..n
    OBVIOUS
  <2>5. \A i \in 0..n : g[i] = IF i = 0 THEN w ELSE
          IF g[i - 1].code # 0 THEN g[i - 1] ELSE ReadPrevious(d, limited, g[i - 1])
    BY <1>2, <1>3, <2>3, <2>4 DEF Runs
  <2>6. [i \in 0..n |-> g[i]] = [i \in 0..n |-> IF i = 0 THEN w ELSE
          IF g[i - 1].code # 0 THEN g[i - 1] ELSE ReadPrevious(d, limited, g[i - 1])]
    BY <2>5
  <2> QED BY <2>1, <2>6
<1> DEFINE j == CHOOSE j : Good(j)
<1>5. Good(j)
  <2> HIDE DEF Good
  <2> QED BY <1>4
<1>6. PreviousWalk(d, limited, w, n) = j[n]
  BY DEF PreviousWalk, Repeat
<1> HIDE DEF j
<1>7. \A i \in 0..n : j[i] = IF i = 0 THEN w ELSE
        IF j[i - 1].code # 0 THEN j[i - 1] ELSE ReadPrevious(d, limited, j[i - 1])
  BY <1>5
<1>8. DOMAIN j = 0..n /\ j = [i \in 0..n |-> j[i]] /\ j[0] = w
  BY <1>5, <1>7
<1>9. \A i \in 1..n : j[i - 1] \in Walks =>
            j[i] = IF j[i - 1].code # 0 THEN j[i - 1] ELSE step[j[i - 1]]
  <2>1. \A i \in 1..n : i \in 0..n /\ i # 0
    OBVIOUS
  <2> QED BY <1>2, <1>7, <2>1
<1>10. Runs(w, n, step, j)
  <2> HIDE DEF Good
  <2> QED BY <1>1, <1>8, <1>9, RunIs
<1> QED BY <1>6, <1>10 DEF step

Texts(list) == [i \in DOMAIN list |-> PreviousText(list[i])]
LEMMA TextsOfAppend ==
  ASSUME NEW s \in Seq(Seq(Nat)), NEW p \in Seq(Nat)
  PROVE  /\ Texts(s) \in Seq(Seq(Nat)) /\ PreviousText(p) \in Seq(Nat)
         /\ Texts(Append(s, p)) = Append(Texts(s), PreviousText(p))
         /\ Texts(<< >>) = << >>
<1>1. \A q \in Seq(Nat) : PreviousText(q) \in Seq(Nat)
  <2> SUFFICES ASSUME NEW q \in Seq(Nat) PROVE PreviousText(q) \in Seq(Nat)
    OBVIOUS
  <2>1. <<Len(q)>> \in Seq(Nat)
    OBVIOUS
  <2> QED BY <2>1 DEF PreviousText
<1> HIDE DEF PreviousText
<1>2. Texts(s) \in Seq(Seq(Nat)) /\ Len(Texts(s)) = Len(s)
  <2> DEFINE V == Seq(Nat)
  <2>1. Len(s) \in Nat /\ DOMAIN s = 1..Len(s) /\ \A i \in 1..Len(s) : PreviousText(s[i]) \in V
    BY <1>1
  <2> HIDE DEF V
  <2> QED BY <2>1 DEF Texts, V
<1>3. Texts(Append(s, p)) = Append(Texts(s), PreviousText(p))
  <2> DEFINE a == Append(s, p)
  <2>1. a \in Seq(Seq(Nat)) /\ Len(a) = Len(s) + 1 /\ a[Len(s) + 1] = p
        /\ \A i \in 1..Len(s) : a[i] = s[i]
    OBVIOUS
  <2> HIDE DEF a
  <2>2. Texts(a) \in Seq(Seq(Nat)) /\ Len(Texts(a)) = Len(s) + 1
    BY <1>1, <2>1 DEF Texts
  <2>3. ASSUME NEW i \in 1..(Len(s) + 1) PROVE Texts(a)[i] = Append(Texts(s), PreviousText(p))[i]
    <3>1. Texts(a)[i] = PreviousText(a[i])
      BY <2>1 DEF Texts
    <3>2. CASE i = Len(s) + 1
      BY <1>1, <1>2, <2>1, <3>1, <3>2
    <3>3. CASE i \in 1..Len(s)
      <4>1. Texts(s)[i] = PreviousText(s[i])
        BY <3>3 DEF Texts
      <4>2. Append(Texts(s), PreviousText(p))[i] = Texts(s)[i]
        BY <1>1, <1>2, <3>3
      <4> QED BY <2>1, <3>1, <3>3, <4>1, <4>2
    <3>4. i = Len(s) + 1 \/ i \in 1..Len(s)
      <4>1. Len(s) \in Nat
        OBVIOUS
      <4> QED BY <4>1
    <3> QED BY <3>2, <3>3, <3>4
  <2>4. Append(Texts(s), PreviousText(p)) \in Seq(Seq(Nat))
        /\ Len(Append(Texts(s), PreviousText(p))) = Len(s) + 1
    BY <1>1, <1>2
  <2>5. Texts(a) = Append(Texts(s), PreviousText(p))
    <3> DEFINE x == Texts(a)
               y == Append(Texts(s), PreviousText(p))
    <3>1. x \in Seq(Seq(Nat)) /\ y \in Seq(Seq(Nat)) /\ Len(x) = Len(y) /\ \A i \in 1..Len(x) : x[i] = y[i]
      BY <2>2, <2>3, <2>4
    <3> HIDE DEF x, y
    <3>2. x = y
      BY <3>1, SeqEqual
    <3> QED BY <3>2 DEF x, y
  <2> QED BY <2>5 DEF a
<1>4. Texts(<< >>) = << >>
  BY DEF Texts
<1> QED BY <1>1, <1>2, <1>3, <1>4

(* What of a walk the previous transactions leave alone, and what they tell.   *)
PreviousTold(d, w, n, u) ==
  /\ u \in Walks /\ u.code = 0 /\ u.bad = w.bad /\ u.previous = w.previous
  /\ u.selected = w.selected /\ u.destinations = w.destinations
  /\ Len(u.list) = n /\ Told(d, w.at, u.at, Joined(Texts(u.list)))
LEMMA PreviousAreTold ==
  ASSUME NEW d \in Seq(Nat), NEW limited, NEW w \in Walks, NEW n \in Nat, w.list = << >>,
         w.at <= Len(d), w.code = 0, PreviousWalk(d, limited, w, n).code = 0
  PROVE  /\ PreviousTold(d, w, n, PreviousWalk(d, limited, w, n))
         /\ PreviousWalk(d, FALSE, w, n) = PreviousWalk(d, limited, w, n)
<1> DEFINE step == PreviousStep(d, limited)
           plain == PreviousStep(d, FALSE)
<1>1. PICK g : Runs(w, n, step, g) /\ PreviousWalk(d, limited, w, n) = g[n]
  BY PreviousRuns
<1>2. PICK h : Runs(w, n, plain, h) /\ PreviousWalk(d, FALSE, w, n) = h[n]
  BY PreviousRuns
<1>3. \A v \in Walks : step[v] = ReadPrevious(d, limited, v) /\ plain[v] = ReadPrevious(d, FALSE, v)
  BY DEF PreviousStep
<1>4. ASSUME NEW v \in Walks, v.code = 0 /\ step[v].code = 0 PROVE plain[v] = step[v]
  <2>1. PreviousIsRead(d, v, ReadPrevious(d, limited, v), ReadPrevious(d, FALSE, v))
    BY PreviousRead
  <2>2. step[v] = ReadPrevious(d, limited, v) /\ plain[v] = ReadPrevious(d, FALSE, v)
    BY <1>3
  <2> QED BY <1>4, <2>1, <2>2 DEF PreviousIsRead
<1> HIDE DEF step, plain
<1>5. h[n] = g[n]
  BY <1>1, <1>2, <1>4, SameRun
<1>6. Smooth(n, step, g)
  BY <1>1, GoodRun
<1> DEFINE S == {k \in Nat : k <= n => PreviousTold(d, w, k, g[k])}
<1>7. 0 \in S
  <2>1. g[0] = w
    BY <1>1 DEF Runs
  <2>2. w.at \in Nat
    BY DEF Walks
  <2>3. Joined(Texts(w.list)) = << >>
    <3>1. << >> \in Seq(Seq(Nat)) /\ << >> \in Seq(Nat)
      OBVIOUS
    <3>2. Texts(<< >>) = << >>
      BY <3>1, TextsOfAppend
    <3>3. Joined(<< >>) = << >>
      BY <3>1, JoinedOfAppend
    <3> QED BY <3>2, <3>3
  <2>4. Told(d, w.at, w.at, << >>)
    BY <2>2 DEF Told
  <2> QED BY <2>1, <2>3, <2>4 DEF PreviousTold
<1>8. ASSUME NEW k \in S PROVE k + 1 \in S
  <2> SUFFICES ASSUME k + 1 <= n PROVE PreviousTold(d, w, k + 1, g[k + 1])
    OBVIOUS
  <2>1. k \in 0..n /\ k + 1 \in 0..n /\ k + 1 \in 1..n /\ (k + 1) - 1 = k
        /\ PreviousTold(d, w, k, g[k])
    OBVIOUS
  <2> DEFINE u == g[k]
             r == g[k + 1]
  <2>2. u \in Walks /\ u.code = 0 /\ r \in Walks /\ r.code = 0
    BY <1>6, <2>1 DEF Smooth
  <2>3. r = step[g[(k + 1) - 1]]
    BY <1>6, <2>1 DEF Smooth
  <2>4. r = ReadPrevious(d, limited, u)
    BY <1>3, <2>1, <2>2, <2>3
  <2> HIDE DEF S
  <2>5. PreviousTold(d, w, k, u)
    BY <2>1
  <2> HIDE DEF u, r
  <2>6. PICK p \in Seq(Nat) :
              /\ r = [u EXCEPT !.at = @ + 1 + Len(p), !.bytes = @ + Len(p), !.list = Append(@, p)]
              /\ Told(d, u.at, r.at, PreviousText(p))
    BY <2>2, <2>4, PreviousRead DEF PreviousIsRead
  <2>7. u.list \in Seq(Seq(Nat))
    BY <2>2 DEF Walks
  <2>8. Texts(u.list) \in Seq(Seq(Nat)) /\ PreviousText(p) \in Seq(Nat)
        /\ Texts(Append(u.list, p)) = Append(Texts(u.list), PreviousText(p))
    BY <2>7, TextsOfAppend
  <2>9. Joined(Append(Texts(u.list), PreviousText(p))) = Joined(Texts(u.list)) \o PreviousText(p)
    BY <2>8, JoinedOfAppend
  <2>10. r.list = Append(u.list, p) /\ r.bad = u.bad /\ r.previous = u.previous
         /\ r.selected = u.selected /\ r.destinations = u.destinations
    BY <2>2, <2>6 DEF Walks
  <2>11. Told(d, w.at, r.at, Joined(Texts(u.list)) \o PreviousText(p))
    BY <2>5, <2>6, ToldOn DEF PreviousTold
  <2>12. Told(d, w.at, r.at, Joined(Texts(r.list)))
    BY <2>8, <2>9, <2>10, <2>11
  <2>13. Len(r.list) = k + 1
    BY <2>5, <2>7, <2>10 DEF PreviousTold
  <2>14. PreviousTold(d, w, k + 1, r)
    BY <2>2, <2>5, <2>10, <2>12, <2>13 DEF PreviousTold
  <2> QED BY <2>14 DEF r
<1>9. S = Nat
  <2> HIDE DEF S
  <2>1. S \in SUBSET Nat
    BY DEF S
  <2> QED BY <1>7, <1>8, <2>1, NumberInduction
<1>10. PreviousTold(d, w, n, g[n])
  BY <1>9
<1> QED BY <1>1, <1>2, <1>5, <1>10

-----------------------------------------------------------------------------
(* A selected output: its fixed cells, the candidate, the previous ones.       *)
RowText(q) ==
  q.txid \o <<q.vout, q.asset, q.value, Len(q.candidate), Len(q.previous), 0>> \o q.candidate
         \o Joined(Texts(q.previous))
LEMMA PackRowIs == \A q : PackRow(q) = RowText(q)
BY DEF PackRow, RowText, Each, Texts, PreviousText

(* The walk when the fixed cells and the candidate have been read.             *)
Entered(d, w) ==
  [w EXCEPT !.at = w.at + SelectedCells + d[w.at + 6], !.bytes = @ + d[w.at + 6],
            !.list = << >>, !.previous = @ + d[w.at + 7]]
Reaches8(d, w) ==
  w.at + SelectedCells <= Len(d) /\ w.at + SelectedCells + d[w.at + 6] <= Len(d)
LEMMA NumbersAdd == 8 \in Nat /\ \A a, b \in Nat : a + b \in Nat
OBVIOUS
LEMMA CellsAreNumbers ==
  ASSUME NEW d \in Seq(Nat), NEW w \in Walks, Reaches8(d, w)
  PROVE  /\ w.at \in Nat /\ \A k \in 1..8 : w.at + k \in 1..Len(d) /\ d[w.at + k] \in Nat
         /\ Entered(d, w) \in Walks /\ Entered(d, w).list = << >>
         /\ Entered(d, w).at = w.at + 8 + d[w.at + 6] /\ Entered(d, w).at <= Len(d)
         /\ Entered(d, w).code = w.code /\ Entered(d, w).bad = w.bad
         /\ Entered(d, w).previous = w.previous + d[w.at + 7]
         /\ Entered(d, w).selected = w.selected /\ Entered(d, w).destinations = w.destinations
<1>1. w.at \in Nat /\ Len(d) \in Nat /\ w.at + 8 <= Len(d)
  BY DEF Walks, Reaches8, SelectedCells
<1>2. ASSUME NEW k \in 1..8 PROVE w.at + k \in 1..Len(d) /\ d[w.at + k] \in Nat
  <2>1. w.at + k \in 1..Len(d)
    <3> DEFINE a == w.at  n == Len(d)
    <3>1. a \in Nat /\ n \in Nat /\ a + 8 <= n /\ k \in 1..8
      BY <1>1
    <3> HIDE DEF a, n
    <3>2. a + k \in 1..n
      BY ONLY <3>1
    <3> QED BY <3>2 DEF a, n
  <2> QED BY <2>1
<1>3. d[w.at + 6] \in Nat /\ d[w.at + 7] \in Nat
  BY <1>2
<1>4. w.bytes \in Nat /\ w.previous \in Nat /\ << >> \in Seq(Seq(Nat))
  BY DEF Walks
<1>5. w.at + SelectedCells + d[w.at + 6] \in Nat /\ w.bytes + d[w.at + 6] \in Nat
      /\ w.previous + d[w.at + 7] \in Nat
  <2> DEFINE x == d[w.at + 6]
             y == d[w.at + 7]
  <2>1. x \in Nat /\ y \in Nat
    BY <1>3
  <2> HIDE DEF x, y
  <2>2. w.at + 8 + x \in Nat /\ w.bytes + x \in Nat /\ w.previous + y \in Nat
    <3>1. w.at \in Nat /\ w.bytes \in Nat /\ w.previous \in Nat
      BY <1>1, <1>4
    <3> QED BY ONLY <2>1, <3>1, NumbersAdd
  <2> QED BY <2>2 DEF x, y, SelectedCells
<1>6. Entered(d, w) \in Walks
  BY <1>4, <1>5 DEF Entered, Walks
<1>7. Entered(d, w).at = w.at + 8 + d[w.at + 6] /\ Entered(d, w).at <= Len(d)
  BY <1>1, <1>3 DEF Entered, Walks, Reaches8, SelectedCells
<1>8. /\ Entered(d, w).list = << >> /\ Entered(d, w).code = w.code /\ Entered(d, w).bad = w.bad
      /\ Entered(d, w).previous = w.previous + d[w.at + 7]
      /\ Entered(d, w).selected = w.selected /\ Entered(d, w).destinations = w.destinations
  BY DEF Entered, Walks
<1> QED BY <1>1, <1>2, <1>6, <1>7, <1>8

(* The row the cells at w and the list of u make.                              *)
RowAt(d, w, u) ==
  [txid |-> <<d[w.at + 1], d[w.at + 2]>>, vout |-> d[w.at + 3], asset |-> d[w.at + 4],
   value |-> d[w.at + 5],
   candidate |-> SubSeq(d, w.at + 8 + 1, w.at + 8 + d[w.at + 6]), previous |-> u.list]
LEMMA RowIsOne ==
  ASSUME NEW d \in Seq(Nat), NEW w \in Walks, NEW u \in Walks, Reaches8(d, w)
  PROVE  RowAt(d, w, u) \in Row /\ Len(RowAt(d, w, u).candidate) = d[w.at + 6]
<1> DEFINE a == w.at + 8
           n == d[w.at + 6]
           c == SubSeq(d, w.at + 8 + 1, w.at + 8 + n)
<1>1. a \in Nat /\ n \in Nat /\ a + n <= Len(d)
  <2>1. w.at \in Nat /\ \A k \in 1..8 : w.at + k \in 1..Len(d) /\ d[w.at + k] \in Nat
    BY CellsAreNumbers
  <2>2. n \in Nat
    BY <2>1
  <2>3. a \in Nat
    <3>1. w.at \in Nat
      BY <2>1
    <3> QED BY ONLY <3>1, NumbersAdd
  <2>4. a + n <= Len(d)
    BY DEF Reaches8, SelectedCells
  <2> QED BY <2>2, <2>3, <2>4
<1>2. c \in Seq(Nat) /\ Len(c) = n
  <2> HIDE DEF a, n
  <2>1. SubSeq(d, a + 1, a + n) \in Seq(Nat) /\ Len(SubSeq(d, a + 1, a + n)) = n
    BY <1>1, ToldSelf
  <2> QED BY <2>1 DEF a
<1>3. \A k \in 1..8 : d[w.at + k] \in Nat
  BY CellsAreNumbers
<1>4. d[w.at + 1] \in Nat /\ d[w.at + 2] \in Nat /\ d[w.at + 3] \in Nat /\ d[w.at + 4] \in Nat
      /\ d[w.at + 5] \in Nat /\ u.list \in Seq(Seq(Nat))
  BY <1>3 DEF Walks
<1> HIDE DEF c
<1>5. RowAt(d, w, u).candidate = c
  BY DEF RowAt, c
<1>6. RowAt(d, w, u) = [txid |-> <<d[w.at + 1], d[w.at + 2]>>, vout |-> d[w.at + 3],
         asset |-> d[w.at + 4], value |-> d[w.at + 5], candidate |-> c, previous |-> u.list]
  BY DEF RowAt, c
<1>7. RowAt(d, w, u) \in Row
  BY <1>2, <1>4, <1>6 DEF Row
<1> QED BY <1>2, <1>5, <1>7

(* Cells in a row are told as they stand.                                      *)
LEMMA TwoAreTold ==
  ASSUME NEW d \in Seq(Nat), NEW a \in Nat, a + 8 <= Len(d), d[a + 1] \in Nat, d[a + 2] \in Nat
  PROVE  Told(d, a, a + 2, <<d[a + 1], d[a + 2]>>)
<1> DEFINE s == <<d[a + 1], d[a + 2]>>
<1>1. s \in Seq(Nat) /\ Len(s) = 2 /\ s[1] = d[a + 1] /\ s[2] = d[a + 2]
  OBVIOUS
<1> HIDE DEF s
<1>2. \A i \in 1..2 : s[i] = d[a + i]
  BY <1>1
<1>3. Len(d) \in Nat
  OBVIOUS
<1>4. Told(d, a, a + 2, s)
  BY <1>1, <1>2, <1>3 DEF Told
<1> QED BY <1>4 DEF s
LEMMA SixAreTold ==
  ASSUME NEW d \in Seq(Nat), NEW a \in Nat, a + 8 <= Len(d), \A k \in 1..8 : d[a + k] \in Nat
  PROVE  Told(d, a + 2, a + 8,
              <<d[a + 3], d[a + 4], d[a + 5], d[a + 6], d[a + 7], d[a + 8]>>)
<1> DEFINE s == <<d[a + 3], d[a + 4], d[a + 5], d[a + 6], d[a + 7], d[a + 8]>>
           b == a + 2
<1>1. s \in Seq(Nat) /\ Len(s) = 6
  OBVIOUS
<1>2. /\ s[1] = d[a + 3] /\ s[2] = d[a + 4] /\ s[3] = d[a + 5]
      /\ s[4] = d[a + 6] /\ s[5] = d[a + 7] /\ s[6] = d[a + 8]
  OBVIOUS
<1>3. b \in Nat /\ b + 1 = a + 3 /\ b + 2 = a + 4 /\ b + 3 = a + 5 /\ b + 4 = a + 6
      /\ b + 5 = a + 7 /\ b + 6 = a + 8 /\ Len(d) \in Nat
  OBVIOUS
<1> HIDE DEF s, b
<1>4. ASSUME NEW i \in 1..6 PROVE s[i] = d[b + i]
  <2>1. i = 1 \/ i = 2 \/ i = 3 \/ i = 4 \/ i = 5 \/ i = 6
    OBVIOUS
  <2> QED BY ONLY <1>2, <1>3, <2>1
<1>5. Told(d, b, a + 8, s)
  BY <1>1, <1>3, <1>4 DEF Told
<1> QED BY <1>5 DEF s, b

(* What a row that was read without a fault adds to a walk.                    *)
SelectedIsRead(d, w, r, plain) ==
  /\ r \in Walks
  /\ w.code = 0 /\ r.code = 0 =>
       /\ plain = r
       /\ \E q \in Row :
            /\ r.selected = Append(w.selected, q) /\ r.destinations = w.destinations
            /\ r.previous = w.previous + Len(q.previous)
            /\ ~r.bad => ~w.bad /\ Told(d, w.at, r.at, RowText(q))
LEMMA RowIsTold ==
  ASSUME NEW d \in Seq(Nat), NEW w \in Walks, NEW u, Reaches8(d, w), w.code = 0,
         PreviousTold(d, Entered(d, w), d[w.at + 7], u)
  PROVE  SelectedIsRead(d, w, RowRead(d, w.at, u), RowRead(d, w.at, u))
<1> DEFINE q == RowAt(d, w, u)
           r == RowRead(d, w.at, u)
           bad == \/ u.bad \/ <<d[w.at + 1], d[w.at + 2]>> = <<0, 0>> \/ d[w.at + 4] = 0
                  \/ d[w.at + 8] # 0 \/ ~Ascending(u.list)
           body == w.at + 8
           n == d[w.at + 6]
<1>1. u \in Walks /\ u.code = 0
  BY DEF PreviousTold
<1>2. r = [u EXCEPT !.bad = bad, !.selected = Append(@, q)]
  BY <1>1 DEF RowRead, RowAt, SelectedCells
<1>3. q \in Row /\ Len(q.candidate) = n
  BY <1>1, RowIsOne
<1>4. Append(u.selected, q) \in Seq(Row) /\ bad \in BOOLEAN
  BY <1>1, <1>3 DEF Walks
<1>5. r \in Walks /\ r.selected = Append(u.selected, q) /\ r.destinations = u.destinations
      /\ r.previous = u.previous /\ r.bad = bad /\ r.at = u.at
  <2> HIDE DEF q, bad
  <2> QED BY <1>1, <1>2, <1>4 DEF Walks
<1>6. u.selected = w.selected /\ u.destinations = w.destinations /\ u.bad = w.bad
      /\ u.previous = w.previous + d[w.at + 7] /\ Len(u.list) = d[w.at + 7]
  BY CellsAreNumbers DEF PreviousTold
<1>7. q.previous = u.list /\ q.txid = <<d[w.at + 1], d[w.at + 2]>> /\ q.vout = d[w.at + 3]
      /\ q.asset = d[w.at + 4] /\ q.value = d[w.at + 5]
      /\ q.candidate = SubSeq(d, body + 1, body + n)
  BY DEF RowAt
<1>8. ASSUME ~r.bad PROVE ~w.bad /\ Told(d, w.at, r.at, RowText(q))
  <2>1. ~bad
    BY <1>5, <1>8
  <2>2. ~w.bad /\ d[w.at + 8] = 0
    BY <1>6, <2>1
  <2>3. w.at \in Nat /\ Len(d) \in Nat /\ body <= Len(d)
        /\ \A k \in 1..8 : w.at + k \in 1..Len(d) /\ d[w.at + k] \in Nat
    BY CellsAreNumbers DEF Reaches8, SelectedCells
  <2> DEFINE six == <<q.vout, q.asset, q.value, Len(q.candidate), Len(q.previous), 0>>
  <2> HIDE DEF q, r, bad
  <2>a. /\ d[w.at + 1] \in Nat /\ d[w.at + 2] \in Nat /\ d[w.at + 3] \in Nat /\ d[w.at + 4] \in Nat
        /\ d[w.at + 5] \in Nat /\ d[w.at + 6] \in Nat /\ d[w.at + 7] \in Nat
    BY <2>3
  <2>4. Told(d, w.at, w.at + 2, q.txid)
    BY <1>7, <2>3, <2>a, TwoAreTold DEF Reaches8, SelectedCells
  <2>5. Told(d, w.at + 2, body, six)
    <3>1. six = <<d[w.at + 3], d[w.at + 4], d[w.at + 5], d[w.at + 6], d[w.at + 7], d[w.at + 8]>>
      BY <1>3, <1>6, <1>7, <2>2
    <3> QED BY <2>2, <2>3, <2>a, <3>1, SixAreTold
  <2>6. Told(d, body, body + n, q.candidate)
    <3>1. n \in Nat
      BY <2>a
    <3>2. body + n <= Len(d)
      BY DEF Reaches8, SelectedCells
    <3>3. body \in Nat
      <4>1. w.at \in Nat
        BY <2>3
      <4> QED BY ONLY <4>1, NumbersAdd
    <3> HIDE DEF body, n
    <3> QED BY <1>7, <3>1, <3>2, <3>3, ToldSelf
  <2>7. Told(d, body + n, u.at, Joined(Texts(q.previous)))
    <3>1. Entered(d, w).at = body + n
      BY CellsAreNumbers
    <3> QED BY <1>7, <3>1 DEF PreviousTold
  <2>8. Told(d, w.at, body, q.txid \o six)
    BY <2>4, <2>5, ToldOn
  <2>9. Told(d, w.at, body + n, q.txid \o six \o q.candidate)
    BY <2>6, <2>8, ToldOn
  <2>10. Told(d, w.at, u.at, q.txid \o six \o q.candidate \o Joined(Texts(q.previous)))
    BY <2>7, <2>9, ToldOn
  <2> QED BY <1>5, <2>2, <2>10 DEF RowText
<1>9. r.previous = w.previous + Len(q.previous)
  BY <1>5, <1>6, <1>7
<1> HIDE DEF q, r
<1>10. \E x \in Row :
            /\ r.selected = Append(w.selected, x) /\ r.destinations = w.destinations
            /\ r.previous = w.previous + Len(x.previous)
            /\ ~r.bad => ~w.bad /\ Told(d, w.at, r.at, RowText(x))
  BY <1>3, <1>5, <1>6, <1>8, <1>9
<1> QED BY <1>5, <1>10 DEF SelectedIsRead, r

LEMMA SelectedRead ==
  ASSUME NEW d \in Seq(Nat), NEW limited, NEW w \in Walks, w.code = 0
  PROVE  SelectedIsRead(d, w, ReadSelected(d, limited, w), ReadSelected(d, FALSE, w))
<1> DEFINE r == ReadSelected(d, limited, w)
           plain == ReadSelected(d, FALSE, w)
           m == d[w.at + 7]
           u == PreviousWalk(d, limited, Entered(d, w), m)
           v == PreviousWalk(d, FALSE, Entered(d, w), m)
<1>1. CASE r = Fault(w, 3) \/ r = Fault(w, 4)
  <2>1. r \in Walks /\ r.code # 0
    <3>1. Fault(w, 3) \in Walks /\ Fault(w, 3).code = 3 /\ Fault(w, 4) \in Walks /\ Fault(w, 4).code = 4
      BY FaultIsAWalk
    <3> HIDE DEF r
    <3> QED BY <1>1, <3>1
  <2> QED BY <2>1 DEF SelectedIsRead
<1>2. CASE r # Fault(w, 3) /\ r # Fault(w, 4)
  <2>1. Reaches8(d, w)
    <3>1. ~(w.at + SelectedCells > Len(d)) /\ ~(w.at + SelectedCells + d[w.at + 6] > Len(d))
      BY <1>2 DEF ReadSelected
    <3>2. w.at \in Nat /\ Len(d) \in Nat
      BY DEF Walks
    <3>3. w.at + SelectedCells <= Len(d)
      BY <3>1, <3>2 DEF SelectedCells
    <3>4. w.at + 6 \in 1..Len(d)
      BY <3>2, <3>3 DEF SelectedCells
    <3>5. d[w.at + 6] \in Nat
      BY <3>4
    <3>6. w.at + SelectedCells + d[w.at + 6] <= Len(d)
      <4> DEFINE x == d[w.at + 6]
      <4> HIDE DEF x
      <4>1. x \in Nat /\ ~(w.at + SelectedCells + x > Len(d))
        BY <3>1, <3>5 DEF x
      <4>2. w.at + SelectedCells + x <= Len(d)
        BY <3>2, <4>1 DEF SelectedCells
      <4> QED BY <4>2 DEF x
    <3> QED BY <3>3, <3>6 DEF Reaches8
  <2>2. r = RowRead(d, w.at, u)
    BY <1>2 DEF ReadSelected, PreviousWalk, Entered
  <2>3. plain = RowRead(d, w.at, v)
    <3>1. ~(w.at + SelectedCells > Len(d)) /\ ~(w.at + SelectedCells + d[w.at + 6] > Len(d))
      BY <1>2 DEF ReadSelected
    <3> QED BY <3>1 DEF ReadSelected, PreviousWalk, Entered
  <2>4. m \in Nat /\ Entered(d, w) \in Walks /\ Entered(d, w).code = 0
        /\ Entered(d, w).list = << >> /\ Entered(d, w).at <= Len(d)
    BY <2>1, CellsAreNumbers
  <2>5. u \in Walks
    <3> HIDE DEF m
    <3>1. PICK g : Runs(Entered(d, w), m, PreviousStep(d, limited), g) /\ u = g[m]
      BY <2>4, PreviousRuns
    <3>2. g \in [0..m -> Walks] /\ m \in 0..m
      BY <2>4, <3>1 DEF Runs
    <3> HIDE DEF u
    <3> QED BY <3>1, <3>2
  <2> HIDE DEF r, plain
  <2>6. CASE u.code # 0
    <3>1. r = u
      BY <2>2, <2>6 DEF RowRead
    <3> QED BY <2>5, <2>6, <3>1 DEF SelectedIsRead, r
  <2>7. CASE u.code = 0
    <3>1. PreviousTold(d, Entered(d, w), m, u) /\ v = u
      <4> HIDE DEF m
      <4> QED BY <2>4, <2>7, PreviousAreTold
    <3>2. SelectedIsRead(d, w, RowRead(d, w.at, u), RowRead(d, w.at, u))
      <4> HIDE DEF u
      <4> QED BY <2>1, <3>1, RowIsTold
    <3>3. plain = r
      BY <2>2, <2>3, <3>1
    <3>4. SelectedIsRead(d, w, r, plain)
      BY <2>2, <3>2, <3>3
    <3> QED BY <3>4 DEF r, plain
  <2> QED BY <2>6, <2>7
<1> QED BY <1>1, <1>2

(* The walk over the selected outputs.                                         *)
SelectedStep(d, limited) ==
  [v \in Walks |-> IF v.code # 0 THEN v ELSE ReadSelected(d, limited, v)]
SelectedWalk(d, limited, w, n) == Repeat(w, n, LAMBDA v : ReadSelected(d, limited, v))
LEMMA SelectedRuns ==
  ASSUME NEW d \in Seq(Nat), NEW limited, NEW w \in Walks, NEW n \in Nat
  PROVE  \E g : Runs(w, n, SelectedStep(d, limited), g) /\ SelectedWalk(d, limited, w, n) = g[n]
<1> DEFINE step == SelectedStep(d, limited)
<1>1. step \in [Walks -> Walks]
  BY SelectedRead DEF SelectedStep, SelectedIsRead
<1>2. \A v \in Walks : v.code = 0 => step[v] = ReadSelected(d, limited, v)
  BY DEF SelectedStep
<1> HIDE DEF step
<1>3. PICK g : Runs(w, n, step, g)
  BY <1>1, RunExists
<1> DEFINE Good(j) == j = [i \in 0..n |-> IF i = 0 THEN w ELSE
                             IF j[i - 1].code # 0 THEN j[i - 1] ELSE ReadSelected(d, limited, j[i - 1])]
<1>4. Good(g)
  <2>1. g = [i \in 0..n |-> g[i]]
    BY <1>3 DEF Runs
  <2>2. \A i \in 1..n : i - 1 \in 0..n
    OBVIOUS
  <2>3. \A i \in 1..n : g[i - 1] \in Walks
    BY <1>3, <2>2 DEF Runs
  <2>4. \A i \in 0..n : i # 0 => i \in 1..n
    OBVIOUS
  <2>5. \A i \in 0..n : g[i] = IF i = 0 THEN w ELSE
          IF g[i - 1].code # 0 THEN g[i - 1] ELSE ReadSelected(d, limited, g[i - 1])
    BY <1>2, <1>3, <2>3, <2>4 DEF Runs
  <2>6. [i \in 0..n |-> g[i]] = [i \in 0..n |-> IF i = 0 THEN w ELSE
          IF g[i - 1].code # 0 THEN g[i - 1] ELSE ReadSelected(d, limited, g[i - 1])]
    BY <2>5
  <2> QED BY <2>1, <2>6
<1> DEFINE j == CHOOSE j : Good(j)
<1>5. Good(j)
  <2> HIDE DEF Good
  <2> QED BY <1>4
<1>6. SelectedWalk(d, limited, w, n) = j[n]
  BY DEF SelectedWalk, Repeat
<1> HIDE DEF j
<1>7. \A i \in 0..n : j[i] = IF i = 0 THEN w ELSE
        IF j[i - 1].code # 0 THEN j[i - 1] ELSE ReadSelected(d, limited, j[i - 1])
  BY <1>5
<1>8. DOMAIN j = 0..n /\ j = [i \in 0..n |-> j[i]] /\ j[0] = w
  BY <1>5, <1>7
<1>9. \A i \in 1..n : j[i - 1] \in Walks =>
            j[i] = IF j[i - 1].code # 0 THEN j[i - 1] ELSE step[j[i - 1]]
  <2>1. \A i \in 1..n : i \in 0..n /\ i # 0
    OBVIOUS
  <2> QED BY <1>2, <1>7, <2>1
<1>10. Runs(w, n, step, j)
  <2> HIDE DEF Good
  <2> QED BY <1>1, <1>8, <1>9, RunIs
<1> QED BY <1>6, <1>10 DEF step

-----------------------------------------------------------------------------
(* What the walk over the selected outputs tells, if nothing of them is bad.   *)
RowTexts(listed) == [i \in DOMAIN listed |-> RowText(listed[i])]
PreviousCounts(listed) == [i \in DOMAIN listed |-> Len(listed[i].previous)]
LEMMA RowTextIsOne == \A q \in Row : RowText(q) \in Seq(Nat) /\ Len(q.previous) \in Nat
<1> SUFFICES ASSUME NEW q \in Row PROVE RowText(q) \in Seq(Nat) /\ Len(q.previous) \in Nat
  OBVIOUS
<1>1. q.txid \in Nat \X Nat /\ q.vout \in Nat /\ q.asset \in Nat /\ q.value \in Nat
      /\ q.candidate \in Seq(Nat) /\ q.previous \in Seq(Seq(Nat))
  BY DEF Row
<1>2. Len(q.candidate) \in Nat /\ Len(q.previous) \in Nat
  BY <1>1
<1>3. q.txid \in Seq(Nat)
  <2>1. PICK x \in Nat, y \in Nat : q.txid = <<x, y>>
    BY <1>1, SMTT(30)
  <2> QED BY <2>1
<1>4. <<q.vout, q.asset, q.value, Len(q.candidate), Len(q.previous), 0>> \in Seq(Nat)
  BY <1>1, <1>2
<1>5. Texts(q.previous) \in Seq(Seq(Nat))
  BY <1>1, TextsOfAppend
<1>6. Joined(Texts(q.previous)) \in Seq(Nat)
  BY <1>5, JoinedOfAppend
<1> DEFINE a == q.txid
           b == <<q.vout, q.asset, q.value, Len(q.candidate), Len(q.previous), 0>>
           c == q.candidate
           e == Joined(Texts(q.previous))
<1>7. a \in Seq(Nat) /\ b \in Seq(Nat) /\ c \in Seq(Nat) /\ e \in Seq(Nat)
  BY <1>1, <1>3, <1>4, <1>6
<1> HIDE DEF a, b, c, e
<1>8. a \o b \o c \o e \in Seq(Nat)
  BY <1>7
<1> QED BY <1>2, <1>8 DEF RowText, a, b, c, e

(* A function applied to each element of one element more.                     *)
LEMMA MapOfAppend ==
  ASSUME NEW S, NEW V, NEW f \in [S -> V], NEW s \in Seq(S), NEW x \in S,
         NEW k, k = [i \in DOMAIN s |-> f[s[i]]],
         NEW m, m = [i \in DOMAIN Append(s, x) |-> f[Append(s, x)[i]]]
  PROVE  k \in Seq(V) /\ m = Append(k, f[x])
<1> DEFINE a == Append(s, x)
<1>1. a \in Seq(S) /\ Len(a) = Len(s) + 1 /\ a[Len(s) + 1] = x /\ \A i \in 1..Len(s) : a[i] = s[i]
  OBVIOUS
<1>2. Len(s) \in Nat /\ DOMAIN s = 1..Len(s) /\ \A i \in 1..Len(s) : f[s[i]] \in V
  OBVIOUS
<1>3. k \in Seq(V) /\ Len(k) = Len(s) /\ \A i \in 1..Len(s) : k[i] = f[s[i]]
  BY <1>2
<1> HIDE DEF a
<1>4. DOMAIN a = 1..(Len(s) + 1) /\ m = [i \in DOMAIN a |-> f[a[i]]]
  BY <1>1 DEF a
<1>5. \A i \in 1..(Len(s) + 1) : m[i] = f[a[i]] /\ f[a[i]] \in V
  BY <1>1, <1>4
<1>6. m \in Seq(V) /\ Len(m) = Len(s) + 1
  BY <1>2, <1>4, <1>5
<1>7. f[x] \in V
  OBVIOUS
<1> DEFINE y == Append(k, f[x])
<1>8. y \in Seq(V) /\ Len(y) = Len(s) + 1 /\ y[Len(s) + 1] = f[x] /\ \A i \in 1..Len(s) : y[i] = k[i]
  BY <1>3, <1>7
<1> HIDE DEF y
<1>9. ASSUME NEW i \in 1..Len(m) PROVE m[i] = y[i]
  <2>1. i \in 1..(Len(s) + 1) /\ (i = Len(s) + 1 \/ i \in 1..Len(s))
    BY <1>2, <1>6
  <2>2. m[i] = f[a[i]]
    BY <1>5, <2>1
  <2>3. CASE i = Len(s) + 1
    BY <1>1, <1>8, <2>2, <2>3
  <2>4. CASE i \in 1..Len(s)
    BY <1>1, <1>3, <1>8, <2>2, <2>4
  <2> QED BY <2>1, <2>3, <2>4
<1>10. m = y
  <2>1. Len(m) = Len(y)
    BY <1>6, <1>8
  <2> QED BY <1>6, <1>8, <1>9, <2>1, SeqEqual
<1> QED BY <1>3, <1>10 DEF y

LEMMA RowTextsOfAppend ==
  ASSUME NEW s \in Seq(Row), NEW q \in Row
  PROVE  /\ RowTexts(s) \in Seq(Seq(Nat)) /\ RowText(q) \in Seq(Nat)
         /\ RowTexts(Append(s, q)) = Append(RowTexts(s), RowText(q))
         /\ PreviousCounts(s) \in Seq(Nat) /\ Len(q.previous) \in Nat
         /\ PreviousCounts(Append(s, q)) = Append(PreviousCounts(s), Len(q.previous))
<1> DEFINE V == Seq(Nat)
           f == [r \in Row |-> RowText(r)]
           h == [r \in Row |-> Len(r.previous)]
           a == Append(s, q)
<1>1. f \in [Row -> V] /\ h \in [Row -> Nat]
  BY RowTextIsOne
<1>2. a \in Seq(Row)
  OBVIOUS
<1>3. \A t \in Seq(Row) : /\ RowTexts(t) = [i \in DOMAIN t |-> f[t[i]]]
                          /\ PreviousCounts(t) = [i \in DOMAIN t |-> h[t[i]]]
  <2> SUFFICES ASSUME NEW t \in Seq(Row)
               PROVE  /\ RowTexts(t) = [i \in DOMAIN t |-> f[t[i]]]
                      /\ PreviousCounts(t) = [i \in DOMAIN t |-> h[t[i]]]
    OBVIOUS
  <2>1. \A i \in DOMAIN t : t[i] \in Row
    OBVIOUS
  <2> QED BY <2>1 DEF RowTexts, PreviousCounts
<1>4. f[q] = RowText(q) /\ h[q] = Len(q.previous)
  OBVIOUS
<1> HIDE DEF f, h, V
<1>5. RowTexts(s) \in Seq(V) /\ RowTexts(a) = Append(RowTexts(s), f[q])
  <2>1. RowTexts(s) = [i \in DOMAIN s |-> f[s[i]]]
    BY <1>3
  <2>2. RowTexts(a) = [i \in DOMAIN Append(s, q) |-> f[Append(s, q)[i]]]
    BY <1>2, <1>3
  <2>3. f \in [Row -> V] /\ s \in Seq(Row) /\ q \in Row
    BY <1>1
  <2> DEFINE k == RowTexts(s)
             m == RowTexts(a)
  <2>4. k = [i \in DOMAIN s |-> f[s[i]]] /\ m = [i \in DOMAIN Append(s, q) |-> f[Append(s, q)[i]]]
    BY <2>1, <2>2
  <2> HIDE DEF k, m, a
  <2>5. k \in Seq(V) /\ m = Append(k, f[q])
    BY <2>3, <2>4, MapOfAppend
  <2> QED BY <2>5 DEF k, m
<1>6. PreviousCounts(s) \in Seq(Nat) /\ PreviousCounts(a) = Append(PreviousCounts(s), h[q])
  <2>1. PreviousCounts(s) = [i \in DOMAIN s |-> h[s[i]]]
    BY <1>3
  <2>2. PreviousCounts(a) = [i \in DOMAIN Append(s, q) |-> h[Append(s, q)[i]]]
    BY <1>2, <1>3
  <2>3. h \in [Row -> Nat] /\ s \in Seq(Row) /\ q \in Row
    BY <1>1
  <2> DEFINE k == PreviousCounts(s)
             m == PreviousCounts(a)
  <2>4. k = [i \in DOMAIN s |-> h[s[i]]] /\ m = [i \in DOMAIN Append(s, q) |-> h[Append(s, q)[i]]]
    BY <2>1, <2>2
  <2> HIDE DEF k, m, a
  <2>5. k \in Seq(Nat) /\ m = Append(k, h[q])
    BY <2>3, <2>4, MapOfAppend
  <2> QED BY <2>5 DEF k, m
<1> QED BY <1>4, <1>5, <1>6, RowTextIsOne DEF V

SelectedTold(d, w, n, u) ==
  /\ u \in Walks /\ u.code = 0 /\ u.destinations = w.destinations /\ Len(u.selected) = n
  /\ u.previous = SumOf(PreviousCounts(u.selected))
  /\ ~u.bad => Told(d, w.at, u.at, Joined(RowTexts(u.selected)))
LEMMA SelectedAreTold ==
  ASSUME NEW d \in Seq(Nat), NEW limited, NEW w \in Walks, NEW n \in Nat, w.selected = << >>,
         w.previous = 0, w.at <= Len(d), w.code = 0, SelectedWalk(d, limited, w, n).code = 0
  PROVE  /\ SelectedTold(d, w, n, SelectedWalk(d, limited, w, n))
         /\ SelectedWalk(d, FALSE, w, n) = SelectedWalk(d, limited, w, n)
<1> DEFINE step == SelectedStep(d, limited)
           plain == SelectedStep(d, FALSE)
<1>1. PICK g : Runs(w, n, step, g) /\ SelectedWalk(d, limited, w, n) = g[n]
  BY SelectedRuns
<1>2. PICK h : Runs(w, n, plain, h) /\ SelectedWalk(d, FALSE, w, n) = h[n]
  BY SelectedRuns
<1>3. \A v \in Walks : v.code = 0 => /\ step[v] = ReadSelected(d, limited, v)
                                     /\ plain[v] = ReadSelected(d, FALSE, v)
  BY DEF SelectedStep
<1> HIDE DEF step, plain
<1>4. ASSUME NEW v \in Walks, v.code = 0 /\ step[v].code = 0 PROVE plain[v] = step[v]
  <2>1. SelectedIsRead(d, v, ReadSelected(d, limited, v), ReadSelected(d, FALSE, v))
    BY <1>4, SelectedRead
  <2>2. step[v] = ReadSelected(d, limited, v) /\ plain[v] = ReadSelected(d, FALSE, v)
    BY <1>3, <1>4
  <2> QED BY <1>4, <2>1, <2>2 DEF SelectedIsRead
<1>5. h[n] = g[n]
  BY <1>1, <1>2, <1>4, SameRun
<1>6. Smooth(n, step, g)
  BY <1>1, GoodRun
<1> DEFINE S == {k \in Nat : k <= n => SelectedTold(d, w, k, g[k])}
<1>7. 0 \in S
  <2>1. g[0] = w
    BY <1>1 DEF Runs
  <2>2. w.at \in Nat
    BY DEF Walks
  <2>3. RowTexts(<< >>) = << >> /\ PreviousCounts(<< >>) = << >>
    BY DEF RowTexts, PreviousCounts
  <2>4. << >> \in Seq(Seq(Nat)) /\ << >> \in Seq(Nat) /\ 0 \in Nat
    OBVIOUS
  <2>5. Joined(<< >>) = << >>
    BY <2>4, JoinedOfAppend
  <2>6. SumOf(<< >>) = 0
    BY <2>4, SumOfAppend
  <2>7. Told(d, w.at, w.at, << >>)
    BY <2>2 DEF Told
  <2> QED BY <2>1, <2>3, <2>5, <2>6, <2>7 DEF SelectedTold
<1>8. ASSUME NEW k \in S PROVE k + 1 \in S
  <2> SUFFICES ASSUME k + 1 <= n PROVE SelectedTold(d, w, k + 1, g[k + 1])
    OBVIOUS
  <2>1. k \in 0..n /\ k + 1 \in 0..n /\ k + 1 \in 1..n /\ (k + 1) - 1 = k
        /\ SelectedTold(d, w, k, g[k])
    OBVIOUS
  <2> DEFINE u == g[k]
             r == g[k + 1]
  <2>2. u \in Walks /\ u.code = 0 /\ r \in Walks /\ r.code = 0
    BY <1>6, <2>1 DEF Smooth
  <2>3. r = step[g[(k + 1) - 1]]
    BY <1>6, <2>1 DEF Smooth
  <2>4. r = ReadSelected(d, limited, u)
    BY <1>3, <2>1, <2>2, <2>3
  <2> HIDE DEF S
  <2>5. SelectedTold(d, w, k, u)
    BY <2>1
  <2> HIDE DEF u, r
  <2>6. PICK q \in Row :
            /\ r.selected = Append(u.selected, q) /\ r.destinations = u.destinations
            /\ r.previous = u.previous + Len(q.previous)
            /\ ~r.bad => ~u.bad /\ Told(d, u.at, r.at, RowText(q))
    <3>1. SelectedIsRead(d, u, r, ReadSelected(d, FALSE, u))
      BY <2>2, <2>4, SelectedRead
    <3> QED BY <2>2, <3>1 DEF SelectedIsRead
  <2>7. u.selected \in Seq(Row)
    BY <2>2 DEF Walks
  <2>8. /\ RowTexts(u.selected) \in Seq(Seq(Nat)) /\ RowText(q) \in Seq(Nat)
        /\ RowTexts(r.selected) = Append(RowTexts(u.selected), RowText(q))
        /\ PreviousCounts(u.selected) \in Seq(Nat) /\ Len(q.previous) \in Nat
        /\ PreviousCounts(r.selected) = Append(PreviousCounts(u.selected), Len(q.previous))
    BY <2>6, <2>7, RowTextsOfAppend
  <2>9. Joined(RowTexts(r.selected)) = Joined(RowTexts(u.selected)) \o RowText(q)
    BY <2>8, JoinedOfAppend
  <2>10. SumOf(PreviousCounts(r.selected)) = SumOf(PreviousCounts(u.selected)) + Len(q.previous)
    BY <2>8, SumOfAppend
  <2>11. ASSUME ~r.bad PROVE Told(d, w.at, r.at, Joined(RowTexts(r.selected)))
    <3>1. Told(d, w.at, u.at, Joined(RowTexts(u.selected))) /\ Told(d, u.at, r.at, RowText(q))
      BY <2>5, <2>6, <2>11 DEF SelectedTold
    <3>2. Told(d, w.at, r.at, Joined(RowTexts(u.selected)) \o RowText(q))
      BY <3>1, ToldOn
    <3> QED BY <2>9, <3>2
  <2>12. Len(r.selected) = k + 1
    BY <2>5, <2>6, <2>7 DEF SelectedTold
  <2>13. SelectedTold(d, w, k + 1, r)
    BY <2>2, <2>5, <2>6, <2>10, <2>11, <2>12 DEF SelectedTold
  <2> QED BY <2>13 DEF r
<1>9. S = Nat
  <2> HIDE DEF S
  <2>1. S \in SUBSET Nat
    BY DEF S
  <2> QED BY <1>7, <1>8, <2>1, NumberInduction
<1>10. SelectedTold(d, w, n, g[n])
  BY <1>9
<1> QED BY <1>1, <1>2, <1>5, <1>10

-----------------------------------------------------------------------------
(* A destination: its fixed cells and its address.                             *)
DestinationText(q) == <<q.asset, q.value, Len(q.address), 0>> \o q.address
LEMMA PackDestinationIs == \A q : PackDestination(q) = DestinationText(q)
BY DEF PackDestination, DestinationText
LEMMA FourAreTold ==
  ASSUME NEW d \in Seq(Nat), NEW a \in Nat, a + 4 <= Len(d), \A k \in 1..4 : d[a + k] \in Nat
  PROVE  Told(d, a, a + 4, <<d[a + 1], d[a + 2], d[a + 3], d[a + 4]>>)
<1> DEFINE s == <<d[a + 1], d[a + 2], d[a + 3], d[a + 4]>>
<1>1. s \in Seq(Nat) /\ Len(s) = 4 /\ s[1] = d[a + 1] /\ s[2] = d[a + 2] /\ s[3] = d[a + 3]
      /\ s[4] = d[a + 4]
  OBVIOUS
<1> HIDE DEF s
<1>2. ASSUME NEW i \in 1..4 PROVE s[i] = d[a + i]
  <2>1. i = 1 \/ i = 2 \/ i = 3 \/ i = 4
    OBVIOUS
  <2> QED BY ONLY <1>1, <2>1
<1>3. Len(d) \in Nat
  OBVIOUS
<1>4. Told(d, a, a + 4, s)
  BY <1>1, <1>2, <1>3 DEF Told
<1> QED BY <1>4 DEF s

(* What a destination that was read without a fault adds to a walk.            *)
DestinationIsRead(d, w, r, plain) ==
  /\ r \in Walks
  /\ w.code = 0 /\ r.code = 0 =>
       /\ plain = r
       /\ \E q \in Destination :
            /\ r.destinations = Append(w.destinations, q) /\ r.selected = w.selected
            /\ r.previous = w.previous
            /\ ~r.bad => ~w.bad /\ Told(d, w.at, r.at, DestinationText(q))
LEMMA DestinationRead ==
  ASSUME NEW d \in Seq(Nat), NEW limited, NEW w \in Walks, w.code = 0
  PROVE  DestinationIsRead(d, w, ReadDestination(d, limited, w), ReadDestination(d, FALSE, w))
<1> DEFINE r == ReadDestination(d, limited, w)
           plain == ReadDestination(d, FALSE, w)
           n == d[w.at + 3]
           body == w.at + DestinationCells
           address == SubSeq(d, body + 1, body + n)
           q == [asset |-> d[w.at + 1], value |-> d[w.at + 2], address |-> address]
           bad == w.bad \/ d[w.at + 1] = 0 \/ d[w.at + 4] # 0
                  \/ \E i \in DOMAIN address : address[i] > AsciiMax
<1>1. CASE r = Fault(w, 3) \/ r = Fault(w, 4)
  <2>1. r \in Walks /\ r.code # 0
    <3>1. Fault(w, 3) \in Walks /\ Fault(w, 3).code = 3 /\ Fault(w, 4) \in Walks /\ Fault(w, 4).code = 4
      BY FaultIsAWalk
    <3> HIDE DEF r
    <3> QED BY <1>1, <3>1
  <2>2. DestinationIsRead(d, w, r, plain)
    <3> HIDE DEF r, plain
    <3> QED BY <2>1 DEF DestinationIsRead
  <2> QED BY <2>2
<1>2. CASE r # Fault(w, 3) /\ r # Fault(w, 4)
  <2>1. ~(w.at + DestinationCells > Len(d)) /\ ~(body + n > Len(d))
    BY <1>2 DEF ReadDestination
  <2>2. r = [w EXCEPT !.at = body + n,
                      !.bad = @ \/ d[w.at + 1] = 0 \/ d[w.at + 4] # 0
                              \/ \E i \in DOMAIN address : address[i] > AsciiMax,
                      !.destinations = Append(@, q)]
    BY <1>2 DEF ReadDestination
  <2>3. plain = r
    BY <2>1, <2>2 DEF ReadDestination
  <2>4. w.at \in Nat /\ Len(d) \in Nat /\ w.bad \in BOOLEAN /\ w.destinations \in Seq(Destination)
    BY DEF Walks
  <2>5. w.at + 4 <= Len(d) /\ body = w.at + 4
    BY <2>1, <2>4 DEF DestinationCells
  <2>6. \A k \in 1..4 : d[w.at + k] \in Nat
    <3> SUFFICES ASSUME NEW k \in 1..4 PROVE d[w.at + k] \in Nat
      OBVIOUS
    <3> DEFINE x == w.at
               l == Len(d)
    <3>1. x \in Nat /\ l \in Nat /\ x + 4 <= l
      BY <2>4, <2>5
    <3> HIDE DEF x, l
    <3>2. x + k \in 1..l
      BY ONLY <3>1, k \in 1..4
    <3> QED BY <3>2 DEF x, l
  <2>7. d[w.at + 1] \in Nat /\ d[w.at + 2] \in Nat /\ n \in Nat
    BY <2>6
  <2>8. body \in Nat
    BY ONLY <2>4, NumbersAdd, 4 \in Nat DEF DestinationCells
  <2>9. body + n <= Len(d) /\ body + n \in Nat
    <3> HIDE DEF body, n
    <3> QED BY <2>1, <2>4, <2>7, <2>8
  <2>10. address \in Seq(Nat) /\ Len(address) = n /\ Told(d, body, body + n, address)
    <3> HIDE DEF body, n
    <3> QED BY <2>7, <2>8, <2>9, ToldSelf
  <2> HIDE DEF r, plain
  <2>11. q \in Destination /\ q.address = address /\ q.asset = d[w.at + 1] /\ q.value = d[w.at + 2]
    <3> HIDE DEF address
    <3> QED BY <2>7, <2>10 DEF Destination
  <2> HIDE DEF address
  <2>12. r = [w EXCEPT !.at = body + n, !.bad = bad, !.destinations = Append(@, q)]
    BY <2>2
  <2>13. bad \in BOOLEAN /\ Append(w.destinations, q) \in Seq(Destination)
    <3> HIDE DEF q
    <3> QED BY <2>4, <2>11
  <2>14. r \in Walks /\ r.at = body + n /\ r.bad = bad /\ r.destinations = Append(w.destinations, q)
         /\ r.selected = w.selected /\ r.previous = w.previous
    <3> HIDE DEF q, bad, body, n
    <3> QED BY <2>9, <2>12, <2>13 DEF Walks
  <2>15. ASSUME ~r.bad PROVE ~w.bad /\ Told(d, w.at, r.at, DestinationText(q))
    <3>1. ~w.bad /\ d[w.at + 4] = 0
      BY <2>14, <2>15
    <3> DEFINE four == <<q.asset, q.value, Len(q.address), 0>>
    <3>2. four = <<d[w.at + 1], d[w.at + 2], d[w.at + 3], d[w.at + 4]>>
      BY <2>10, <2>11, <3>1
    <3> HIDE DEF four, q
    <3>3. Told(d, w.at, w.at + 4, four)
      BY <2>4, <2>5, <2>6, <3>2, FourAreTold
    <3>4. Told(d, body, body + n, q.address)
      BY <2>10, <2>11
    <3> HIDE DEF n
    <3>5. Told(d, w.at, body + n, four \o q.address)
      BY <2>5, <3>3, <3>4, ToldOn
    <3> QED BY <2>14, <3>1, <3>5 DEF DestinationText, four
  <2>16. DestinationIsRead(d, w, r, plain)
    <3> HIDE DEF q, bad, body, n
    <3>1. \E x \in Destination :
            /\ r.destinations = Append(w.destinations, x) /\ r.selected = w.selected
            /\ r.previous = w.previous
            /\ ~r.bad => ~w.bad /\ Told(d, w.at, r.at, DestinationText(x))
      BY <2>11, <2>14, <2>15
    <3> QED BY <2>3, <2>14, <3>1 DEF DestinationIsRead
  <2> QED BY <2>16 DEF r, plain
<1> QED BY <1>1, <1>2

(* The walk over the destinations.                                             *)
DestinationStep(d, limited) ==
  [v \in Walks |-> IF v.code # 0 THEN v ELSE ReadDestination(d, limited, v)]
DestinationWalk(d, limited, w, n) == Repeat(w, n, LAMBDA v : ReadDestination(d, limited, v))
LEMMA DestinationRuns ==
  ASSUME NEW d \in Seq(Nat), NEW limited, NEW w \in Walks, NEW n \in Nat
  PROVE  \E g : Runs(w, n, DestinationStep(d, limited), g) /\ DestinationWalk(d, limited, w, n) = g[n]
<1> DEFINE step == DestinationStep(d, limited)
<1>1. step \in [Walks -> Walks]
  BY DestinationRead DEF DestinationStep, DestinationIsRead
<1>2. \A v \in Walks : v.code = 0 => step[v] = ReadDestination(d, limited, v)
  BY DEF DestinationStep
<1> HIDE DEF step
<1>3. PICK g : Runs(w, n, step, g)
  BY <1>1, RunExists
<1> DEFINE Good(j) == j = [i \in 0..n |-> IF i = 0 THEN w ELSE
                             IF j[i - 1].code # 0 THEN j[i - 1] ELSE ReadDestination(d, limited, j[i - 1])]
<1>4. Good(g)
  <2>1. g = [i \in 0..n |-> g[i]]
    BY <1>3 DEF Runs
  <2>2. \A i \in 1..n : i - 1 \in 0..n
    OBVIOUS
  <2>3. \A i \in 1..n : g[i - 1] \in Walks
    BY <1>3, <2>2 DEF Runs
  <2>4. \A i \in 0..n : i # 0 => i \in 1..n
    OBVIOUS
  <2>5. \A i \in 0..n : g[i] = IF i = 0 THEN w ELSE
          IF g[i - 1].code # 0 THEN g[i - 1] ELSE ReadDestination(d, limited, g[i - 1])
    BY <1>2, <1>3, <2>3, <2>4 DEF Runs
  <2>6. [i \in 0..n |-> g[i]] = [i \in 0..n |-> IF i = 0 THEN w ELSE
          IF g[i - 1].code # 0 THEN g[i - 1] ELSE ReadDestination(d, limited, g[i - 1])]
    BY <2>5
  <2> QED BY <2>1, <2>6
<1> DEFINE j == CHOOSE j : Good(j)
<1>5. Good(j)
  <2> HIDE DEF Good
  <2> QED BY <1>4
<1>6. DestinationWalk(d, limited, w, n) = j[n]
  BY DEF DestinationWalk, Repeat
<1> HIDE DEF j
<1>7. \A i \in 0..n : j[i] = IF i = 0 THEN w ELSE
        IF j[i - 1].code # 0 THEN j[i - 1] ELSE ReadDestination(d, limited, j[i - 1])
  BY <1>5
<1>8. DOMAIN j = 0..n /\ j = [i \in 0..n |-> j[i]] /\ j[0] = w
  BY <1>5, <1>7
<1>9. \A i \in 1..n : j[i - 1] \in Walks =>
            j[i] = IF j[i - 1].code # 0 THEN j[i - 1] ELSE step[j[i - 1]]
  <2>1. \A i \in 1..n : i \in 0..n /\ i # 0
    OBVIOUS
  <2> QED BY <1>2, <1>7, <2>1
<1>10. Runs(w, n, step, j)
  <2> HIDE DEF Good
  <2> QED BY <1>1, <1>8, <1>9, RunIs
<1> QED BY <1>6, <1>10 DEF step


(* What the walk over the destinations tells, if nothing of them is bad.       *)
DestinationTexts(listed) == [i \in DOMAIN listed |-> DestinationText(listed[i])]
LEMMA DestinationTextsOfAppend ==
  ASSUME NEW s \in Seq(Destination), NEW q \in Destination
  PROVE  /\ DestinationTexts(s) \in Seq(Seq(Nat)) /\ DestinationText(q) \in Seq(Nat)
         /\ DestinationTexts(Append(s, q)) = Append(DestinationTexts(s), DestinationText(q))
<1> DEFINE V == Seq(Nat)
           f == [r \in Destination |-> DestinationText(r)]
           a == Append(s, q)
<1>1. ASSUME NEW r \in Destination PROVE DestinationText(r) \in V
  <2>1. r.asset \in Nat /\ r.value \in Nat /\ r.address \in Seq(Nat) /\ Len(r.address) \in Nat
    BY DEF Destination
  <2>2. <<r.asset, r.value, Len(r.address), 0>> \in Seq(Nat)
    BY <2>1
  <2> QED BY <2>1, <2>2 DEF DestinationText
<1>2. f \in [Destination -> V] /\ f[q] = DestinationText(q)
  BY <1>1
<1>3. a \in Seq(Destination)
  OBVIOUS
<1>4. \A t \in Seq(Destination) : DestinationTexts(t) = [i \in DOMAIN t |-> f[t[i]]]
  <2> SUFFICES ASSUME NEW t \in Seq(Destination)
               PROVE  DestinationTexts(t) = [i \in DOMAIN t |-> f[t[i]]]
    OBVIOUS
  <2>1. \A i \in DOMAIN t : t[i] \in Destination
    OBVIOUS
  <2> QED BY <2>1 DEF DestinationTexts
<1> HIDE DEF f, V
<1> DEFINE k == DestinationTexts(s)
           m == DestinationTexts(a)
<1>5. k = [i \in DOMAIN s |-> f[s[i]]] /\ m = [i \in DOMAIN Append(s, q) |-> f[Append(s, q)[i]]]
  BY <1>3, <1>4
<1> HIDE DEF k, m, a
<1>6. k \in Seq(V) /\ m = Append(k, f[q])
  <2>1. f \in [Destination -> V] /\ s \in Seq(Destination) /\ q \in Destination
    BY <1>2
  <2> QED BY <1>5, <2>1, MapOfAppend
<1> QED BY <1>1, <1>2, <1>6 DEF k, m, a, V

DestinationTold(d, w, n, u) ==
  /\ u \in Walks /\ u.code = 0 /\ u.selected = w.selected /\ u.previous = w.previous
  /\ Len(u.destinations) = n
  /\ ~u.bad => ~w.bad /\ Told(d, w.at, u.at, Joined(DestinationTexts(u.destinations)))
LEMMA DestinationsAreTold ==
  ASSUME NEW d \in Seq(Nat), NEW limited, NEW w \in Walks, NEW n \in Nat, w.destinations = << >>,
         ~w.bad => w.at <= Len(d), w.code = 0, DestinationWalk(d, limited, w, n).code = 0
  PROVE  /\ DestinationTold(d, w, n, DestinationWalk(d, limited, w, n))
         /\ DestinationWalk(d, FALSE, w, n) = DestinationWalk(d, limited, w, n)
<1> DEFINE step == DestinationStep(d, limited)
           plain == DestinationStep(d, FALSE)
<1>1. PICK g : Runs(w, n, step, g) /\ DestinationWalk(d, limited, w, n) = g[n]
  BY DestinationRuns
<1>2. PICK h : Runs(w, n, plain, h) /\ DestinationWalk(d, FALSE, w, n) = h[n]
  BY DestinationRuns
<1>3. \A v \in Walks : v.code = 0 => /\ step[v] = ReadDestination(d, limited, v)
                                     /\ plain[v] = ReadDestination(d, FALSE, v)
  BY DEF DestinationStep
<1> HIDE DEF step, plain
<1>4. ASSUME NEW v \in Walks, v.code = 0 /\ step[v].code = 0 PROVE plain[v] = step[v]
  <2>1. DestinationIsRead(d, v, ReadDestination(d, limited, v), ReadDestination(d, FALSE, v))
    BY <1>4, DestinationRead
  <2>2. step[v] = ReadDestination(d, limited, v) /\ plain[v] = ReadDestination(d, FALSE, v)
    BY <1>3, <1>4
  <2> QED BY <1>4, <2>1, <2>2 DEF DestinationIsRead
<1>5. h[n] = g[n]
  BY <1>1, <1>2, <1>4, SameRun
<1>6. Smooth(n, step, g)
  BY <1>1, GoodRun
<1> DEFINE S == {k \in Nat : k <= n => DestinationTold(d, w, k, g[k])}
<1>7. 0 \in S
  <2>1. g[0] = w
    BY <1>1 DEF Runs
  <2>2. w.at \in Nat
    BY DEF Walks
  <2>3. DestinationTexts(<< >>) = << >>
    BY DEF DestinationTexts
  <2>4. << >> \in Seq(Seq(Nat)) /\ << >> \in Seq(Nat) /\ 0 \in Nat
    OBVIOUS
  <2>5. Joined(<< >>) = << >>
    BY <2>4, JoinedOfAppend
  <2>7. ~w.bad => Told(d, w.at, w.at, << >>)
    BY <2>2 DEF Told
  <2> QED BY <2>1, <2>3, <2>5, <2>7 DEF DestinationTold
<1>8. ASSUME NEW k \in S PROVE k + 1 \in S
  <2> SUFFICES ASSUME k + 1 <= n PROVE DestinationTold(d, w, k + 1, g[k + 1])
    OBVIOUS
  <2>1. k \in 0..n /\ k + 1 \in 0..n /\ k + 1 \in 1..n /\ (k + 1) - 1 = k
        /\ DestinationTold(d, w, k, g[k])
    OBVIOUS
  <2> DEFINE u == g[k]
             r == g[k + 1]
  <2>2. u \in Walks /\ u.code = 0 /\ r \in Walks /\ r.code = 0
    BY <1>6, <2>1 DEF Smooth
  <2>3. r = step[g[(k + 1) - 1]]
    BY <1>6, <2>1 DEF Smooth
  <2>4. r = ReadDestination(d, limited, u)
    BY <1>3, <2>1, <2>2, <2>3
  <2> HIDE DEF S
  <2>5. DestinationTold(d, w, k, u)
    BY <2>1
  <2> HIDE DEF u, r
  <2>6. PICK q \in Destination :
            /\ r.destinations = Append(u.destinations, q) /\ r.selected = u.selected
            /\ r.previous = u.previous
            /\ ~r.bad => ~u.bad /\ Told(d, u.at, r.at, DestinationText(q))
    <3>1. DestinationIsRead(d, u, r, ReadDestination(d, FALSE, u))
      BY <2>2, <2>4, DestinationRead
    <3> QED BY <2>2, <3>1 DEF DestinationIsRead
  <2>7. u.destinations \in Seq(Destination)
    BY <2>2 DEF Walks
  <2>8. /\ DestinationTexts(u.destinations) \in Seq(Seq(Nat)) /\ DestinationText(q) \in Seq(Nat)
        /\ DestinationTexts(r.destinations) = Append(DestinationTexts(u.destinations), DestinationText(q))
    BY <2>6, <2>7, DestinationTextsOfAppend
  <2>9. Joined(DestinationTexts(r.destinations)) = Joined(DestinationTexts(u.destinations)) \o DestinationText(q)
    BY <2>8, JoinedOfAppend
  <2>11. ASSUME ~r.bad PROVE Told(d, w.at, r.at, Joined(DestinationTexts(r.destinations)))
    <3>1. Told(d, w.at, u.at, Joined(DestinationTexts(u.destinations))) /\ Told(d, u.at, r.at, DestinationText(q))
      BY <2>5, <2>6, <2>11 DEF DestinationTold
    <3>2. Told(d, w.at, r.at, Joined(DestinationTexts(u.destinations)) \o DestinationText(q))
      BY <3>1, ToldOn
    <3> QED BY <2>9, <3>2
  <2>12. Len(r.destinations) = k + 1
    BY <2>5, <2>6, <2>7 DEF DestinationTold
  <2>13. DestinationTold(d, w, k + 1, r)
    BY <2>2, <2>5, <2>6, <2>11, <2>12 DEF DestinationTold
  <2> QED BY <2>13 DEF r
<1>9. S = Nat
  <2> HIDE DEF S
  <2>1. S \in SUBSET Nat
    BY DEF S
  <2> QED BY <1>7, <1>8, <2>1, NumberInduction
<1>10. DestinationTold(d, w, n, g[n])
  BY <1>9
<1> QED BY <1>1, <1>2, <1>5, <1>10

-----------------------------------------------------------------------------
(* The whole walk, and what Scan asks of it.                                   *)
Start == [at |-> HeaderCells, code |-> 0, bad |-> FALSE, previous |-> 0, bytes |-> 0,
          list |-> << >>, selected |-> << >>, destinations |-> << >>]
LEMMA StartIsAWalk == Start \in Walks
<1>1. << >> \in Seq(Row) /\ << >> \in Seq(Destination) /\ << >> \in Seq(Seq(Nat)) /\ 10 \in Nat
  OBVIOUS
<1> HIDE DEF Row, Destination
<1> QED BY <1>1 DEF Start, Walks, HeaderCells
LEMMA WalkIs ==
  \A d, limited :
    Walk(d, limited) = DestinationWalk(d, limited, SelectedWalk(d, limited, Start, d[7]), d[8])
BY DEF Walk, DestinationWalk, SelectedWalk, Start

(* A walk over a frame that meets no fault tells the frame from its first row  *)
(* on, unless something is bad, and meets the same without the limits.         *)
FrameTold(d, w) ==
  /\ w \in Walks /\ w.code = 0
  /\ Len(w.selected) = d[7] /\ Len(w.destinations) = d[8]
  /\ w.previous = SumOf(PreviousCounts(w.selected))
  /\ ~w.bad => Told(d, HeaderCells, w.at,
                    Joined(RowTexts(w.selected)) \o Joined(DestinationTexts(w.destinations)))
LEMMA WalkTells ==
  ASSUME NEW d \in Seq(Nat), NEW limited, Len(d) >= HeaderCells, Walk(d, limited).code = 0
  PROVE  FrameTold(d, Walk(d, limited)) /\ Walk(d, FALSE) = Walk(d, limited)
<1> DEFINE n == d[7]
           m == d[8]
           u == SelectedWalk(d, limited, Start, n)
           w == DestinationWalk(d, limited, u, m)
           v == SelectedWalk(d, FALSE, Start, n)
           x == DestinationWalk(d, FALSE, v, m)
<1>1. w = Walk(d, limited) /\ x = Walk(d, FALSE)
  BY WalkIs
<1>2. n \in Nat /\ m \in Nat /\ Len(d) \in Nat
  BY DEF HeaderCells
<1>3. Start \in Walks /\ Start.selected = << >> /\ Start.destinations = << >> /\ Start.previous = 0
      /\ Start.at = 10 /\ Start.code = 0 /\ Start.bad = FALSE
  BY StartIsAWalk DEF Start, HeaderCells
<1> HIDE DEF n, m
<1>4. u \in Walks
  <2>1. PICK g : Runs(Start, n, SelectedStep(d, limited), g) /\ u = g[n]
    BY <1>2, <1>3, SelectedRuns
  <2>2. g \in [0..n -> Walks] /\ n \in 0..n
    BY <1>2, <2>1 DEF Runs
  <2> HIDE DEF u
  <2> QED BY <2>1, <2>2
<1> HIDE DEF u, w, v, x
<1>5. w.code = 0
  BY <1>1
<1>6. u.code = 0
  <2>1. PICK g : Runs(u, m, DestinationStep(d, limited), g) /\ w = g[m]
    BY <1>2, <1>4, DestinationRuns DEF w
  <2>2. g[m].code = 0
    BY <1>5, <2>1
  <2>3. Smooth(m, DestinationStep(d, limited), g)
    BY <1>2, <2>1, <2>2, GoodRun
  <2>4. g[0] = u /\ 0 \in 0..m
    BY <1>2, <2>1 DEF Runs
  <2> QED BY <2>3, <2>4 DEF Smooth
<1>7. SelectedTold(d, Start, n, u) /\ v = u
  <2>1. Start.at <= Len(d)
    BY <1>3 DEF HeaderCells
  <2> QED BY <1>2, <1>3, <1>6, <2>1, SelectedAreTold DEF u, v
<1>8. u.destinations = << >> /\ (~u.bad => u.at <= Len(d))
  BY <1>3, <1>7 DEF SelectedTold, Told
<1>9. DestinationTold(d, u, m, w) /\ x = w
  BY <1>2, <1>4, <1>5, <1>6, <1>7, <1>8, DestinationsAreTold DEF w, x
<1>10. ASSUME ~w.bad
       PROVE  Told(d, HeaderCells, w.at,
                   Joined(RowTexts(w.selected)) \o Joined(DestinationTexts(w.destinations)))
  <2>1. ~u.bad /\ w.selected = u.selected
    BY <1>9, <1>10 DEF DestinationTold
  <2>2. Told(d, HeaderCells, u.at, Joined(RowTexts(w.selected)))
    BY <1>3, <1>7, <2>1 DEF SelectedTold, HeaderCells
  <2>3. Told(d, u.at, w.at, Joined(DestinationTexts(w.destinations)))
    BY <1>9, <1>10 DEF DestinationTold
  <2> QED BY <2>2, <2>3, ToldOn
<1>11. w \in Walks /\ Len(w.selected) = n /\ Len(w.destinations) = m
       /\ w.previous = SumOf(PreviousCounts(w.selected))
  BY <1>7, <1>9 DEF SelectedTold, DestinationTold
<1>12. FrameTold(d, w)
  BY <1>5, <1>10, <1>11 DEF FrameTold, n, m
<1> QED BY <1>1, <1>9, <1>12

(* What the packer writes after the header is what the walk tells.             *)
LEMMA PackIs ==
  ASSUME NEW v
  PROVE  Pack(v) =
    LET body == Joined(RowTexts(v.selected)) \o Joined(DestinationTexts(v.destinations))
    IN <<Magic, HeaderCells + Len(body), 0, v.source, v.manifest, v.pegged, Len(v.selected),
         Len(v.destinations), SumOf(PreviousCounts(v.selected)), v.fee>> \o body
<1>1. Each(v.selected, PackRow) = RowTexts(v.selected)
  BY PackRowIs DEF Each, RowTexts
<1>2. Each(v.destinations, PackDestination) = DestinationTexts(v.destinations)
  BY PackDestinationIs DEF Each, DestinationTexts
<1>3. Each(v.selected, LAMBDA r : Len(r.previous)) = PreviousCounts(v.selected)
  BY DEF Each, PreviousCounts
<1> QED BY <1>1, <1>2, <1>3 DEF Pack

(* The scanner judges the rows of a frame whose header passes its tests.       *)
LEMMA ScanJudges ==
  ASSUME NEW d, NEW source, Scan(d, source).code = 0
  PROVE  /\ d[1] = Magic /\ d[2] = Len(d) /\ d[3] = 0
         /\ Scan(d, source) = Judged(d, Walk(d, TRUE))
<1> DEFINE w == Walk(d, TRUE)
           j == Judged(d, w)
           is(c) == [code |-> c, value |-> None]
<1>1. is(1).code # 0 /\ is(2).code # 0 /\ is(3).code # 0 /\ is(4).code # 0 /\ is(5).code # 0
  OBVIOUS
<1>2. Scan(d, source) =
  IF source = 0 THEN is(1) ELSE
  IF Len(d) > MaxFrame THEN is(4) ELSE
  IF Len(d) < 1 THEN is(3) ELSE
  IF d[1] # Magic THEN is(2) ELSE
  IF Len(d) < HeaderCells THEN is(3) ELSE
  IF d[2] # Len(d) \/ d[3] # 0 \/ 0 \in {d[4], d[5], d[6]} THEN is(3) ELSE
  IF d[4] # source THEN is(5) ELSE
  IF \/ d[7] \notin 1..MaxSelected \/ d[8] \notin 1..MaxDestinations
     \/ d[9] > MaxPrevious \/ d[10] \notin 1..MaxValue \/ Len(d) > MaxReachable
  THEN is(4) ELSE j
  BY DEF Scan
<1> HIDE DEF j, is, w
<1> DEFINE one == is(1)
           two == is(2)
           three == is(3)
           four == is(4)
           five == is(5)
           got == Scan(d, source)
<1>3. got \notin {one, two, three, four, five}
  BY <1>1
<1>4. ~(source = 0) /\ ~(Len(d) > MaxFrame) /\ ~(Len(d) < 1) /\ d[1] = Magic
  <2> HIDE DEF one, two, three, four, five, got
  <2>0. /\ source = 0 => got = one
        /\ source # 0 /\ Len(d) > MaxFrame => got = four
        /\ source # 0 /\ ~(Len(d) > MaxFrame) /\ Len(d) < 1 => got = three
        /\ source # 0 /\ ~(Len(d) > MaxFrame) /\ ~(Len(d) < 1) /\ d[1] # Magic => got = two
    BY <1>2 DEF one, two, three, four, five, got
  <2>1. source # 0
    BY <1>3, <2>0
  <2>2. ~(Len(d) > MaxFrame)
    BY <1>3, <2>0, <2>1
  <2>3. ~(Len(d) < 1)
    BY <1>3, <2>0, <2>1, <2>2
  <2>4. d[1] = Magic
    BY <1>3, <2>0, <2>1, <2>2, <2>3
  <2> QED BY <2>1, <2>2, <2>3, <2>4
<1>5. ~(Len(d) < HeaderCells) /\ d[2] = Len(d) /\ d[3] = 0 /\ ~(0 \in {d[4], d[5], d[6]}) /\ d[4] = source
  BY <1>2, <1>3, <1>4
<1>6. got = j
  BY <1>2, <1>3, <1>4, <1>5
<1> QED BY <1>4, <1>5, <1>6 DEF j, w

(* A text of ten cells and what follows them.                                  *)
LEMMA HeadAndRest ==
  ASSUME NEW d \in Seq(Nat), NEW body, Told(d, 10, Len(d), body)
  PROVE  d = <<d[1], d[2], d[3], d[4], d[5], d[6], d[7], d[8], d[9], d[10]>> \o body
<1> DEFINE ten == <<d[1], d[2], d[3], d[4], d[5], d[6], d[7], d[8], d[9], d[10]>>
<1>1. body \in Seq(Nat) /\ Len(d) = 10 + Len(body) /\ Len(d) \in Nat /\ Len(body) \in Nat
      /\ \A i \in 1..Len(body) : body[i] = d[10 + i]
  BY DEF Told
<1> DEFINE n == Len(body)
<1>2. \A k \in 1..10 : d[k] \in Nat
  BY <1>1
<1>3. ten \in Seq(Nat) /\ Len(ten) = 10 /\ \A k \in 1..10 : ten[k] = d[k]
  <2>1. ten \in Seq(Nat) /\ Len(ten) = 10
    BY <1>2
  <2>2. /\ ten[1] = d[1] /\ ten[2] = d[2] /\ ten[3] = d[3] /\ ten[4] = d[4] /\ ten[5] = d[5]
        /\ ten[6] = d[6] /\ ten[7] = d[7] /\ ten[8] = d[8] /\ ten[9] = d[9] /\ ten[10] = d[10]
    OBVIOUS
  <2> HIDE DEF ten
  <2>3. ASSUME NEW k \in 1..10 PROVE ten[k] = d[k]
    <3>1. k = 1 \/ k = 2 \/ k = 3 \/ k = 4 \/ k = 5 \/ k = 6 \/ k = 7 \/ k = 8 \/ k = 9 \/ k = 10
      OBVIOUS
    <3> QED BY ONLY <2>2, <3>1
  <2> QED BY <2>1, <2>3
<1>4. ten = <<d[1], d[2], d[3], d[4], d[5], d[6], d[7], d[8], d[9], d[10]>>
  OBVIOUS
<1> HIDE DEF ten
<1>5. n \in Nat /\ Len(d) = 10 + n
  BY <1>1
<1>0. /\ ten \o body \in Seq(Nat) /\ Len(ten \o body) = Len(ten) + Len(body)
      /\ \A i \in 1..(Len(ten) + Len(body)) :
           (ten \o body)[i] = IF i <= Len(ten) THEN ten[i] ELSE body[i - Len(ten)]
  BY <1>1, <1>3, ConcatProperties
<1> HIDE DEF n
<1>6. ten \o body \in Seq(Nat)
  BY <1>0
<1>7. Len(ten \o body) = 10 + n
  BY <1>0, <1>3 DEF n
<1>10. \A i \in 1..(10 + n) : (ten \o body)[i] = IF i <= 10 THEN ten[i] ELSE body[i - 10]
  BY <1>0, <1>3 DEF n
<1>8. ASSUME NEW i \in 1..Len(d) PROVE (ten \o body)[i] = d[i]
  <2>1. CASE i <= 10
    <3>1. i \in 1..10
      BY <2>1
    <3>2. (ten \o body)[i] = ten[i]
      BY <1>5, <1>10, <2>1
    <3> QED BY <1>3, <3>1, <3>2
  <2>2. CASE i > 10
    <3> DEFINE k == i - 10
    <3>1. i \in Int /\ n \in Int /\ i <= 10 + n /\ 10 < i
      BY <1>5, <2>2
    <3>2. k \in 1..n /\ i = 10 + k
      BY ONLY <3>1
    <3> HIDE DEF k, n
    <3>3. k \in 1..Len(body)
      BY <3>2 DEF n
    <3>4. (ten \o body)[10 + k] = body[k]
      <4>1. 10 + k \in 1..(10 + n) /\ ~(10 + k <= 10) /\ (10 + k) - 10 = k
        BY ONLY <1>5, <3>2
      <4> QED BY <1>10, <4>1
    <3>5. body[k] = d[10 + k]
      BY <1>1, <3>3
    <3> QED BY <3>2, <3>4, <3>5
  <2>3. i \in Int
    BY <1>5
  <2>4. i <= 10 \/ i > 10
    BY ONLY <2>3
  <2> QED BY ONLY <2>1, <2>2, <2>4
<1>9. ten \o body = d
  <2> DEFINE x == ten \o body
  <2>1. x \in Seq(Nat) /\ Len(x) = Len(d) /\ \A i \in 1..Len(d) : x[i] = d[i]
    BY <1>5, <1>6, <1>7, <1>8
  <2> HIDE DEF x
  <2>2. x = d
    BY <2>1, SeqEqual
  <2> QED BY <2>2 DEF x
<1> QED BY ONLY <1>4, <1>9

(* A frame the scanner accepts is what the packer makes of what it says.       *)
LEMMA AcceptedPacks ==
  ASSUME NEW d \in Seq(Nat), Len(d) >= HeaderCells, Scan(d, d[4]).code = 0
  PROVE  Pack(Scan(d, d[4]).value) = d /\ Unpack(d) = Scan(d, d[4]).value
<1> DEFINE w == Walk(d, TRUE)
           v == FrameValue(d, w)
           body == Joined(RowTexts(w.selected)) \o Joined(DestinationTexts(w.destinations))
<1>1. /\ d[1] = Magic /\ d[2] = Len(d) /\ d[3] = 0 /\ Scan(d, d[4]) = Judged(d, w)
  BY ScanJudges
<1>2. w.code = 0 /\ ~Malformed(d, w) /\ Scan(d, d[4]).value = v
  <2>1. Judged(d, w).code = 0
    BY <1>1
  <2> HIDE DEF w
  <2>2. w.code = 0
    BY <2>1 DEF Judged
  <2>3. ~Malformed(d, w)
    BY <2>1, <2>2 DEF Judged
  <2>4. Judged(d, w) = [code |-> 0, value |-> v]
    BY <2>2, <2>3 DEF Judged
  <2>5. Judged(d, w).value = v
    BY <2>4
  <2> QED BY <1>1, <2>2, <2>3, <2>5
<1>3. FrameTold(d, w) /\ Walk(d, FALSE) = w
  BY <1>2, WalkTells
<1> HIDE DEF w
<1>4. ~w.bad /\ w.previous = d[9] /\ w.at = Len(d)
  BY <1>2 DEF Malformed
<1>5. Told(d, 10, Len(d), body) /\ Len(w.selected) = d[7] /\ Len(w.destinations) = d[8]
      /\ d[9] = SumOf(PreviousCounts(w.selected))
  BY <1>3, <1>4 DEF FrameTold, HeaderCells
<1>6. Unpack(d) = v
  <2>1. ~(Len(d) < HeaderCells)
    BY DEF HeaderCells
  <2> QED BY <1>1, <1>2, <1>3, <1>4, <2>1 DEF Unpack, Followed
<1>7. Pack(v) = d
  <2>1. v.selected = w.selected /\ v.destinations = w.destinations /\ v.source = d[4]
        /\ v.manifest = d[5] /\ v.pegged = d[6] /\ v.fee = d[10]
    BY DEF FrameValue
  <2>2. Pack(v) = <<Magic, HeaderCells + Len(body), 0, v.source, v.manifest, v.pegged, Len(v.selected),
                    Len(v.destinations), SumOf(PreviousCounts(v.selected)), v.fee>> \o body
    BY <2>1, PackIs
  <2> HIDE DEF v, body
  <2>3. d = <<d[1], d[2], d[3], d[4], d[5], d[6], d[7], d[8], d[9], d[10]>> \o body
    BY <1>5, HeadAndRest
  <2>4. HeaderCells + Len(body) = Len(d)
    BY <1>5 DEF Told, HeaderCells
  <2>5. /\ Magic = d[1] /\ HeaderCells + Len(body) = d[2] /\ 0 = d[3] /\ v.source = d[4]
        /\ v.manifest = d[5] /\ v.pegged = d[6] /\ Len(v.selected) = d[7]
        /\ Len(v.destinations) = d[8] /\ SumOf(PreviousCounts(v.selected)) = d[9] /\ v.fee = d[10]
    BY <1>1, <1>5, <2>1, <2>4
  <2> QED BY ONLY <2>2, <2>3, <2>5
<1> QED BY <1>2, <1>6, <1>7

-----------------------------------------------------------------------------
(* What a frame says.                                                          *)
PlanValues == [source : Nat, manifest : Nat, pegged : Nat, aggregate : Nat, fee : Nat,
           selected : Seq(Row), destinations : Seq(Destination)]
LEMMA UnpackedIsAValue ==
  ASSUME NEW d \in Seq(Nat), Unpack(d) # None
  PROVE  Unpack(d) \in PlanValues /\ Len(d) >= HeaderCells /\ d[10] \in Nat
<1>1. ~(Len(d) < HeaderCells) /\ Unpack(d) = Followed(d, Walk(d, FALSE))
  BY DEF Unpack
<1>2. Len(d) >= HeaderCells /\ Len(d) \in Nat
  BY <1>1 DEF HeaderCells
<1> DEFINE w == Walk(d, FALSE)
<1>3. w.code = 0 /\ Unpack(d) = FrameValue(d, w)
  BY <1>1 DEF Followed
<1>4. FrameTold(d, w)
  BY <1>2, <1>3, WalkTells
<1> HIDE DEF w
<1>5. w.selected \in Seq(Row) /\ w.destinations \in Seq(Destination)
  BY <1>4 DEF FrameTold, Walks
<1>6. \A k \in 1..10 : d[k] \in Nat
  BY <1>2 DEF HeaderCells
<1>7. FrameValue(d, w) \in PlanValues
  <2> HIDE DEF Row, Destination
  <2> QED BY <1>5, <1>6 DEF FrameValue, PlanValues
<1> QED BY <1>2, <1>3, <1>6, <1>7
LEMMA PackedIsAFrame ==
  ASSUME NEW v \in PlanValues
  PROVE  Pack(v) \in Seq(Nat)
<1>1. v.selected \in Seq(Row) /\ v.destinations \in Seq(Destination) /\ v.source \in Nat
      /\ v.manifest \in Nat /\ v.pegged \in Nat /\ v.fee \in Nat
  BY DEF PlanValues
<1> DEFINE a == Joined(RowTexts(v.selected))
           b == Joined(DestinationTexts(v.destinations))
           s == SumOf(PreviousCounts(v.selected))
<1>2. a \in Seq(Nat) /\ s \in Nat
  <2>1. CASE v.selected = << >>
    <3>1. RowTexts(v.selected) = << >> /\ PreviousCounts(v.selected) = << >>
      BY <2>1 DEF RowTexts, PreviousCounts
    <3>2. << >> \in Seq(Seq(Nat)) /\ << >> \in Seq(Nat) /\ 0 \in Nat
      OBVIOUS
    <3> QED BY <3>1, <3>2, JoinedOfAppend, SumOfAppend
  <2>2. CASE v.selected # << >>
    <3>1. v.selected[1] \in Row
      BY <1>1, <2>2
    <3>2. RowTexts(v.selected) \in Seq(Seq(Nat)) /\ PreviousCounts(v.selected) \in Seq(Nat)
      BY <1>1, <3>1, RowTextsOfAppend
    <3>3. << >> \in Seq(Nat) /\ 0 \in Nat
      OBVIOUS
    <3> QED BY <3>2, <3>3, JoinedOfAppend, SumOfAppend
  <2> QED BY <2>1, <2>2
<1>3. b \in Seq(Nat)
  <2>1. CASE v.destinations = << >>
    <3>1. DestinationTexts(v.destinations) = << >>
      BY <2>1 DEF DestinationTexts
    <3>2. << >> \in Seq(Seq(Nat)) /\ << >> \in Seq(Nat)
      OBVIOUS
    <3> QED BY <3>1, <3>2, JoinedOfAppend
  <2>2. CASE v.destinations # << >>
    <3>1. v.destinations[1] \in Destination
      BY <1>1, <2>2
    <3>2. DestinationTexts(v.destinations) \in Seq(Seq(Nat))
      BY <1>1, <3>1, DestinationTextsOfAppend
    <3>3. << >> \in Seq(Nat)
      OBVIOUS
    <3> QED BY <3>2, <3>3, JoinedOfAppend
  <2> QED BY <2>1, <2>2
<1>4. Pack(v) = <<Magic, HeaderCells + Len(a \o b), 0, v.source, v.manifest, v.pegged,
                  Len(v.selected), Len(v.destinations), s, v.fee>> \o (a \o b)
  BY PackIs
<1> HIDE DEF a, b, s
<1>5. a \o b \in Seq(Nat) /\ Len(a \o b) \in Nat /\ Len(v.selected) \in Nat /\ Len(v.destinations) \in Nat
  BY <1>1, <1>2, <1>3
<1> DEFINE head == <<Magic, HeaderCells + Len(a \o b), 0, v.source, v.manifest, v.pegged,
                  Len(v.selected), Len(v.destinations), s, v.fee>>
<1>6. head \in Seq(Nat)
  <2>1. Magic \in Nat /\ HeaderCells + Len(a \o b) \in Nat
    BY <1>5 DEF Magic, HeaderCells
  <2> QED BY <1>1, <1>2, <1>5, <2>1
<1> HIDE DEF head
<1>7. head \o (a \o b) \in Seq(Nat)
  BY <1>5, <1>6
<1> QED BY <1>4, <1>7 DEF head

-----------------------------------------------------------------------------
(* A logical edit of a frame gives something a frame can say.                  *)
LEMMA EditedRows ==
  ASSUME NEW s \in Seq(Row), NEW x \in Nat, NEW i \in DOMAIN s
  PROVE  /\ [s EXCEPT ![i].txid = <<x, 1>>] \in Seq(Row)
         /\ [s EXCEPT ![i].value = x] \in Seq(Row)
         /\ [s EXCEPT ![i].candidate = <<x>>] \in Seq(Row)
         /\ [s EXCEPT ![i].candidate = <<x>>, ![i].txid = <<x, 1>>] \in Seq(Row)
         /\ [s EXCEPT ![i].previous = << >>] \in Seq(Row)
<1>1. i \in 1..Len(s) /\ s[i] \in Row
  OBVIOUS
<1>2. <<x, 1>> \in Nat \X Nat /\ <<x>> \in Seq(Nat) /\ << >> \in Seq(Seq(Nat))
  OBVIOUS
<1>3. /\ [s[i] EXCEPT !.txid = <<x, 1>>] \in Row
      /\ [s[i] EXCEPT !.value = x] \in Row
      /\ [s[i] EXCEPT !.candidate = <<x>>] \in Row
      /\ [[s[i] EXCEPT !.candidate = <<x>>] EXCEPT !.txid = <<x, 1>>] \in Row
      /\ [s[i] EXCEPT !.previous = << >>] \in Row
  <2> DEFINE a == <<x, 1>>
             b == <<x>>
             c == << >>
  <2>1. a \in Nat \X Nat /\ b \in Seq(Nat) /\ c \in Seq(Seq(Nat))
    BY <1>2
  <2> HIDE DEF a, b, c
  <2>2. /\ [s[i] EXCEPT !.txid = a] \in Row /\ [s[i] EXCEPT !.value = x] \in Row
        /\ [s[i] EXCEPT !.candidate = b] \in Row /\ [s[i] EXCEPT !.previous = c] \in Row
    BY <1>1, <2>1 DEF Row
  <2>3. \A r \in Row : [r EXCEPT !.txid = a] \in Row
    BY <2>1 DEF Row
  <2> QED BY <2>2, <2>3 DEF a, b, c
<1>4. ASSUME NEW r \in Row PROVE [s EXCEPT ![i] = r] \in Seq(Row)
  <2> HIDE DEF Row
  <2> QED BY <1>1
<1>5. \A r \in Row, q \in Row : [[s EXCEPT ![i] = r] EXCEPT ![i] = q] = [s EXCEPT ![i] = q]
  <2> HIDE DEF Row
  <2> QED BY <1>1
<1> QED BY <1>1, <1>3, <1>4, <1>5

LEMMA EditedDestinations ==
  ASSUME NEW s \in Seq(Destination), NEW x \in Nat, NEW i \in DOMAIN s
  PROVE  /\ [s EXCEPT ![i].address = <<x>>] \in Seq(Destination)
         /\ [s EXCEPT ![i].value = x] \in Seq(Destination)
<1>1. i \in 1..Len(s) /\ s[i] \in Destination
  OBVIOUS
<1>2. <<x>> \in Seq(Nat)
  OBVIOUS
<1>3. /\ [s[i] EXCEPT !.address = <<x>>] \in Destination
      /\ [s[i] EXCEPT !.value = x] \in Destination
  BY <1>1, <1>2 DEF Destination
<1>4. ASSUME NEW r \in Destination PROVE [s EXCEPT ![i] = r] \in Seq(Destination)
  <2> HIDE DEF Destination
  <2> QED BY <1>1
<1> QED BY <1>1, <1>3, <1>4

(* The edits a logical row may make, by the field they are made to.            *)
ManifestEdits(u) ==
  {[u EXCEPT !.manifest = x] : x \in Cells}
PeggedEdits(u) ==
  {[u EXCEPT !.pegged = x] : x \in Cells}
OrderEdits(u) ==
  {[u EXCEPT !.selected = Reversed(@)]}
CountEdits(u) ==
  {[u EXCEPT !.selected = SubSeq(@, 1, Len(@) - 1)]}
TxidEdits(u) ==
  {[u EXCEPT !.selected[i].txid = <<x, 1>>] : i \in DOMAIN u.selected, x \in Cells}
ValueEdits(u) ==
  {[u EXCEPT !.selected[i].value = x] : i \in DOMAIN u.selected, x \in Cells}
CandidateEdits(u) ==
  {[u EXCEPT !.selected[i].candidate = <<x>>] : i \in DOMAIN u.selected, x \in Cells}
PairEdit(u, i, x) == [u EXCEPT !.selected[i].candidate = <<x>>, !.selected[i].txid = <<x, 1>>]
PairEdits(u) == {PairEdit(u, i, x) : i \in DOMAIN u.selected, x \in Cells}
PreviousEdits(u) ==
  {[u EXCEPT !.selected[i].previous = << >>] : i \in DOMAIN u.selected}
AddressEdits(u) ==
  {[u EXCEPT !.destinations[i].address = <<x>>] : i \in DOMAIN u.destinations, x \in Cells}
AmountEdits(u) ==
  {[u EXCEPT !.destinations[i].value = x] : i \in DOMAIN u.destinations, x \in Cells}
LEMMA FieldEditsAre ==
  ASSUME NEW u
  PROVE  FieldEdits(u) =
    ManifestEdits(u) \union PeggedEdits(u) \union OrderEdits(u) \union CountEdits(u)
    \union TxidEdits(u) \union ValueEdits(u) \union CandidateEdits(u) \union PairEdits(u)
    \union PreviousEdits(u) \union AddressEdits(u) \union AmountEdits(u)
BY DEF FieldEdits, ManifestEdits, PeggedEdits, OrderEdits, CountEdits, TxidEdits, ValueEdits,
   CandidateEdits, PairEdits, PairEdit, PreviousEdits, AddressEdits, AmountEdits
LEMMA EditedIsAValue ==
  ASSUME NEW u \in PlanValues, NEW v \in FieldEdits(u), NEW fee \in Nat
  PROVE  [v EXCEPT !.fee = fee] \in PlanValues
<1> USE PlanCorpusAssumption
<1>1. u.selected \in Seq(Row) /\ u.destinations \in Seq(Destination)
  BY DEF PlanValues
<1>2. \A s \in Seq(Row) : [u EXCEPT !.selected = s] \in PlanValues
  <2> HIDE DEF Row, Destination
  <2> QED BY DEF PlanValues
<1>3. \A s \in Seq(Destination) : [u EXCEPT !.destinations = s] \in PlanValues
  <2> HIDE DEF Row, Destination
  <2> QED BY DEF PlanValues
<1>4. \A x \in Nat : [u EXCEPT !.manifest = x] \in PlanValues /\ [u EXCEPT !.pegged = x] \in PlanValues
  <2> HIDE DEF Row, Destination
  <2> QED BY DEF PlanValues
<1>5. Reversed(u.selected) \in Seq(Row) /\ SubSeq(u.selected, 1, Len(u.selected) - 1) \in Seq(Row)
  <2> HIDE DEF Row
  <2>1. Reversed(u.selected) \in Seq(Row)
    <3> DEFINE r == u.selected
    <3>1. r \in Seq(Row)
      BY <1>1
    <3> HIDE DEF r
    <3>2. Reversed(r) \in Seq(Row)
      BY ONLY <3>1 DEF Reversed
    <3> QED BY ONLY <3>2 DEF r
  <2>2. CASE u.selected = << >>
    BY <1>1, <2>1, <2>2
  <2>3. CASE u.selected # << >>
    BY <1>1, <2>1, <2>3
  <2> QED BY <2>2, <2>3
<1>6. v \in PlanValues
  <2> HIDE DEF PlanValues, Row, Destination
  <2> DEFINE sel(s) == [u EXCEPT !.selected = s]
             des(s) == [u EXCEPT !.destinations = s]
  <2>1. ASSUME NEW x \in Cells, v = [u EXCEPT !.manifest = x] \/ v = [u EXCEPT !.pegged = x]
        PROVE  v \in PlanValues
    BY <1>4, <2>1
  <2>2. ASSUME NEW s \in Seq(Row), v = [u EXCEPT !.selected = s] PROVE v \in PlanValues
    BY <1>2, <2>2
  <2>3. ASSUME NEW s \in Seq(Destination), v = [u EXCEPT !.destinations = s] PROVE v \in PlanValues
    BY <1>3, <2>3
  <2>4. ASSUME NEW i \in DOMAIN u.selected, NEW x \in Cells,
               \/ v = [u EXCEPT !.selected[i].txid = <<x, 1>>]
               \/ v = [u EXCEPT !.selected[i].value = x]
               \/ v = [u EXCEPT !.selected[i].candidate = <<x>>]
               \/ v = [u EXCEPT !.selected[i].candidate = <<x>>, !.selected[i].txid = <<x, 1>>]
        PROVE  v \in PlanValues
    <3> DEFINE s == u.selected
    <3>1. x \in Nat
      OBVIOUS
    <3>2. /\ [s EXCEPT ![i].txid = <<x, 1>>] \in Seq(Row)
          /\ [s EXCEPT ![i].value = x] \in Seq(Row)
          /\ [s EXCEPT ![i].candidate = <<x>>] \in Seq(Row)
          /\ [s EXCEPT ![i].candidate = <<x>>, ![i].txid = <<x, 1>>] \in Seq(Row)
      BY <1>1, <3>1, EditedRows
    <3>3. \/ v = [u EXCEPT !.selected = [s EXCEPT ![i].txid = <<x, 1>>]]
          \/ v = [u EXCEPT !.selected = [s EXCEPT ![i].value = x]]
          \/ v = [u EXCEPT !.selected = [s EXCEPT ![i].candidate = <<x>>]]
          \/ v = [u EXCEPT !.selected = [s EXCEPT ![i].candidate = <<x>>, ![i].txid = <<x, 1>>]]
      BY <2>4, u \in PlanValues DEF PlanValues
    <3> QED BY <2>2, <3>2, <3>3
  <2>5. ASSUME NEW i \in DOMAIN u.selected, v = [u EXCEPT !.selected[i].previous = << >>]
        PROVE  v \in PlanValues
    <3>1. [u.selected EXCEPT ![i].previous = << >>] \in Seq(Row)
      BY <1>1, EditedRows, 0 \in Nat
    <3>2. v = [u EXCEPT !.selected = [u.selected EXCEPT ![i].previous = << >>]]
      BY <2>5, u \in PlanValues DEF PlanValues
    <3> QED BY <2>2, <3>1, <3>2
  <2>6. ASSUME NEW i \in DOMAIN u.destinations, NEW x \in Cells,
               \/ v = [u EXCEPT !.destinations[i].address = <<x>>]
               \/ v = [u EXCEPT !.destinations[i].value = x]
        PROVE  v \in PlanValues
    <3> DEFINE s == u.destinations
    <3>1. x \in Nat
      OBVIOUS
    <3>2. /\ [s EXCEPT ![i].address = <<x>>] \in Seq(Destination)
          /\ [s EXCEPT ![i].value = x] \in Seq(Destination)
      BY <1>1, <3>1, EditedDestinations
    <3>3. \/ v = [u EXCEPT !.destinations = [s EXCEPT ![i].address = <<x>>]]
          \/ v = [u EXCEPT !.destinations = [s EXCEPT ![i].value = x]]
      BY <2>6, u \in PlanValues DEF PlanValues
    <3> QED BY <2>3, <3>2, <3>3
  <2>7. CASE v = [u EXCEPT !.selected = Reversed(u.selected)]
    BY <1>5, <2>2, <2>7
  <2>8. CASE v = [u EXCEPT !.selected = SubSeq(u.selected, 1, Len(u.selected) - 1)]
    BY <1>5, <2>2, <2>8
  <2>9. \/ v \in ManifestEdits(u) \/ v \in PeggedEdits(u) \/ v \in OrderEdits(u) \/ v \in CountEdits(u)
        \/ v \in TxidEdits(u) \/ v \in ValueEdits(u) \/ v \in CandidateEdits(u) \/ v \in PairEdits(u)
        \/ v \in PreviousEdits(u) \/ v \in AddressEdits(u) \/ v \in AmountEdits(u)
    BY FieldEditsAre
  <2>10. CASE v \in ManifestEdits(u) \/ v \in PeggedEdits(u)
    BY <2>1, <2>10 DEF ManifestEdits, PeggedEdits
  <2>11. CASE v \in OrderEdits(u) \/ v \in CountEdits(u)
    BY <2>7, <2>8, <2>11 DEF OrderEdits, CountEdits
  <2>12. CASE v \in TxidEdits(u)
    <3>1. PICK i \in DOMAIN u.selected, x \in Cells : v = [u EXCEPT !.selected[i].txid = <<x, 1>>]
      BY <2>12 DEF TxidEdits
    <3> QED BY <2>4, <3>1
  <2>13. CASE v \in ValueEdits(u)
    <3>1. PICK i \in DOMAIN u.selected, x \in Cells : v = [u EXCEPT !.selected[i].value = x]
      BY <2>13 DEF ValueEdits
    <3> QED BY <2>4, <3>1
  <2>14. CASE v \in CandidateEdits(u)
    <3>1. PICK i \in DOMAIN u.selected, x \in Cells : v = [u EXCEPT !.selected[i].candidate = <<x>>]
      BY <2>14 DEF CandidateEdits
    <3> QED BY <2>4, <3>1
  <2>15. CASE v \in PairEdits(u)
    <3>1. PICK i \in DOMAIN u.selected, x \in Cells : v = PairEdit(u, i, x)
      BY <2>15 DEF PairEdits
    <3> QED BY <2>4, <3>1 DEF PairEdit
  <2>16. CASE v \in PreviousEdits(u)
    BY <2>5, <2>16 DEF PreviousEdits
  <2>17. CASE v \in AddressEdits(u) \/ v \in AmountEdits(u)
    BY <2>6, <2>17 DEF AddressEdits, AmountEdits
  <2> QED BY <2>9, <2>10, <2>11, <2>12, <2>13, <2>14, <2>15, <2>16, <2>17
<1> QED
  <2> HIDE DEF Row, Destination
  <2> QED BY <1>6 DEF PlanValues

-----------------------------------------------------------------------------
(* A frame that is edited, and the frame it was made from, are texts of        *)
(* numbers.                                                                    *)
FramesOK ==
  kind = "frame" => now \in Seq(Nat) /\ (row # None => parent \in Seq(Nat))
LEMMA FramesInit == PlanCorpusInit => FramesOK
BY PlanCorpusAssumption DEF PlanCorpusInit, FramesOK

LEMMA FramesNext == FramesOK /\ [PlanCorpusNext]_corpusVars => FramesOK'
<1> SUFFICES ASSUME FramesOK, [PlanCorpusNext]_corpusVars PROVE FramesOK'
  OBVIOUS
<1> USE PlanCorpusAssumption
<1>1. ASSUME NEW next \in Seq(Nat), NEW record, kind = "frame", Derive(next, record) PROVE FramesOK'
  BY <1>1 DEF FramesOK, Derive
<1>2. CASE kind = "frame"
  <2>1. now \in Seq(Nat)
    BY <1>2 DEF FramesOK
  <2>2. CASE ReplaceCell
    <3>1. PICK i \in DOMAIN now, x \in Cells :
            Derive([now EXCEPT ![i] = x], ByteRow("replace", i - 1, <<now[i]>>, <<x>>))
      BY <2>2 DEF ReplaceCell
    <3>2. [now EXCEPT ![i] = x] \in Seq(Nat)
      BY <2>1
    <3> QED BY <1>1, <1>2, <3>1, <3>2
  <2>3. CASE AppendCell
    <3>1. PICK x \in Cells : Derive(Append(now, x), ByteRow("append", Len(now), None, <<x>>))
      BY <2>3 DEF AppendCell
    <3>2. Append(now, x) \in Seq(Nat)
      BY <2>1
    <3> QED BY <1>1, <1>2, <3>1, <3>2
  <2>4. CASE Truncate
    <3>1. PICK n \in 0..(Len(now) - 1) :
            Derive(SubSeq(now, 1, n), ByteRow("truncate", n, SubSeq(now, n + 1, Len(now)), None))
      BY <2>4 DEF Truncate
    <3>2. SubSeq(now, 1, n) \in Seq(Nat)
      BY <2>1
    <3> QED BY <1>1, <1>2, <3>1, <3>2
  <2>5. CASE RepackFrame
    <3>1. Unpack(now) # None
      BY <2>5 DEF RepackFrame
    <3>2. Unpack(now) \in PlanValues /\ now[10] \in Nat
      BY <2>1, <3>1, UnpackedIsAValue
    <3>3. PICK v \in FieldEdits(Unpack(now)), fee \in {now[10], now[10] + 1}, t \in Targets,
               new \in {None, <<1>>} :
            Derive(Pack([v EXCEPT !.fee = fee]),
              [kind |-> "logical-repack", target |-> t, offset |-> None, old |-> None, new |-> new])
      BY <2>5 DEF RepackFrame
    <3>4. fee \in Nat
      BY <3>2
    <3>5. Pack([v EXCEPT !.fee = fee]) \in Seq(Nat)
      BY <3>2, <3>4, EditedIsAValue, PackedIsAFrame
    <3> QED BY <1>1, <1>2, <3>3, <3>5
  <2>6. CASE UNCHANGED corpusVars
    BY <2>6 DEF corpusVars, FramesOK
  <2> QED
    BY <1>2, <2>2, <2>3, <2>4, <2>5, <2>6
    DEF PlanCorpusNext, EditObject, EditBatch, EditCall, EditTransaction, EditPrepare,
        RaiseBoundary, EditFormula
<1>3. CASE kind # "frame"
  <2>1. kind' = kind
    BY <1>3 DEF corpusVars, PlanCorpusNext, ReplaceCell, AppendCell, Truncate, RepackFrame,
       EditObject, EditBatch, EditCall, EditTransaction, EditPrepare, RaiseBoundary, EditFormula,
       Edit
  <2> QED BY <1>3, <2>1 DEF FramesOK
<1> QED BY <1>2, <1>3

(* Whatever the author edits, derives or repacks, a frame stays a sequence of  *)
(* numbers.                                                                    *)
THEOREM FramesAreTexts == PlanCorpusSpec => []FramesOK
BY FramesInit, FramesNext, PTL DEF PlanCorpusSpec

(* Every frame the scanner accepts, whatever edits led to it, is the one frame *)
(* of what it says: the packer of the conformance checker gives back exactly   *)
(* its cells, and the unpacker that tests no limit reads the same plan.        *)
THEOREM AcceptedPlansAreCanonical == PlanCorpusSpec => []AcceptedIsCanonical
<1>1. FramesOK => AcceptedIsCanonical
  <2> SUFFICES ASSUME FramesOK, kind = "frame", Len(now) >= HeaderCells, Scan(now, now[4]).code = 0
               PROVE  Pack(Scan(now, now[4]).value) = now /\ Unpack(now) = Scan(now, now[4]).value
    BY DEF AcceptedIsCanonical
  <2>1. now \in Seq(Nat)
    BY DEF FramesOK
  <2> QED BY <2>1, AcceptedPacks
<1> QED BY <1>1, FramesAreTexts, PTL

-----------------------------------------------------------------------------
(* What a logical row names.                                                   *)
LEMMA DistinctLength == \A x, y, z, u, w : <<x, y>> # <<z, u, w>>
<1> SUFFICES ASSUME NEW x, NEW y, NEW z, NEW u, NEW w, <<x, y>> = <<z, u, w>> PROVE FALSE
  OBVIOUS
<1>1. Len(<<x, y>>) = 2 /\ Len(<<z, u, w>>) = 3
  OBVIOUS
<1> QED BY <1>1

(* What no target of a logical row names.                                      *)
LEMMA TargetsOmit ==
  ASSUME NEW t \in Targets
  PROVE  /\ <<"header", "source">> \notin t /\ <<"header", "fee">> \notin t
         /\ <<"selected", "count">> \notin t /\ <<"destination", "count">> \notin t
         /\ <<"selected", "order">> \in t => t = {<<"selected", "order">>}
<1>1. \/ t = {<<"header", "manifest">>} \/ t = {<<"header", "pegged">>}
      \/ t = {<<"selected", 2, "txid">>} \/ t = {<<"selected", "order">>}
      \/ t = {<<"selected", 1, "candidate">>, <<"selected", 1, "txid">>}
      \/ \E k : t = {<<"selected", 1, k>>}
      \/ \E k : t = {<<"destination", 1, k>>}
  BY DEF Targets
<1>2. \A x, y, z, u, w : <<x, y>> # <<z, u, w>>
  BY DistinctLength
<1>3. \A x, y, z, u : <<x, y>> = <<z, u>> => x = z /\ y = u
  OBVIOUS
<1>4. CASE t = {<<"header", "manifest">>} \/ t = {<<"header", "pegged">>}
  BY <1>3, <1>4
<1>5. CASE t = {<<"selected", "order">>}
  BY <1>3, <1>5
<1>6. CASE t = {<<"selected", 2, "txid">>}
  BY <1>2, <1>6
<1>7. CASE t = {<<"selected", 1, "candidate">>, <<"selected", 1, "txid">>}
  BY <1>2, <1>7
<1>8. ASSUME NEW k, t = {<<"selected", 1, k>>} \/ t = {<<"destination", 1, k>>}
      PROVE  /\ <<"header", "source">> \notin t /\ <<"header", "fee">> \notin t
             /\ <<"selected", "count">> \notin t /\ <<"destination", "count">> \notin t
             /\ <<"selected", "order">> \notin t
  BY <1>2, <1>8
<1> QED BY <1>1, <1>4, <1>5, <1>6, <1>7, <1>8

(* The packer looks at no more than this.                                      *)
LEMMA SamePack ==
  ASSUME NEW u, NEW v, u.source = v.source, u.manifest = v.manifest, u.pegged = v.pegged,
         u.fee = v.fee, u.selected = v.selected, u.destinations = v.destinations
  PROVE  Pack(u) = Pack(v)
BY DEF Pack

(* The fields of the rows two lists of one length differ in.                   *)
RowsDiffer(x, y) ==
  {<<"selected", p[1], p[2]>> :
     p \in {q \in (DOMAIN x) \X {"txid", "vout", "asset", "value", "candidate", "previous"} :
              x[q[1]][q[2]] # y[q[1]][q[2]]}}
DestinationsDiffer(x, y) ==
  {<<"destination", p[1], p[2]>> :
     p \in {q \in (DOMAIN x) \X {"asset", "value", "address"} : x[q[1]][q[2]] # y[q[1]][q[2]]}}
HeadersDiffer(a, b) ==
  {<<"header", k>> : k \in {j \in {"source", "manifest", "pegged", "fee"} : a[j] # b[j]}}
SelectedDiffer(x, y) ==
  IF Len(x) # Len(y) THEN {<<"selected", "count">>}
  ELSE IF x = y THEN {} ELSE IF x = Reversed(y) THEN {<<"selected", "order">>} ELSE RowsDiffer(x, y)
LEMMA DiffIs ==
  ASSUME NEW a, NEW b
  PROVE  LogicalDiff(a, b) =
    HeadersDiffer(a, b) \union SelectedDiffer(a.selected, b.selected)
    \union (IF Len(a.destinations) # Len(b.destinations) THEN {<<"destination", "count">>}
            ELSE DestinationsDiffer(a.destinations, b.destinations))
BY DEF LogicalDiff, HeadersDiffer, SelectedDiffer, RowsDiffer, DestinationsDiffer

(* With the fields of the target put back, whatever may differ does not.       *)
RowsBack(t, y, x) ==
  [i \in DOMAIN y |-> [f \in DOMAIN y[i] |->
     IF <<"selected", i, f>> \in t THEN x[i][f] ELSE y[i][f]]]
PlacesBack(t, y, x) ==
  [i \in DOMAIN y |-> [f \in DOMAIN y[i] |->
     IF <<"destination", i, f>> \in t THEN x[i][f] ELSE y[i][f]]]
LEMMA SelectedPutBack ==
  ASSUME NEW x \in Seq(Row), NEW y \in Seq(Row), NEW t, Len(x) = Len(y),
         RowsDiffer(x, y) \subseteq t
  PROVE  x = RowsBack(t, y, x)
<1> DEFINE z == [i \in DOMAIN y |-> [f \in DOMAIN y[i] |->
                IF <<"selected", i, f>> \in t THEN x[i][f] ELSE y[i][f]]]
           fields == {"txid", "vout", "asset", "value", "candidate", "previous"}
<1>1. DOMAIN x = 1..Len(x) /\ DOMAIN y = 1..Len(x)
  OBVIOUS
<1>2. ASSUME NEW i \in DOMAIN y PROVE z[i] = x[i]
  <2>1. x[i] \in Row /\ y[i] \in Row
    <3> HIDE DEF Row
    <3> QED BY <1>1
  <2>2. x[i] = [f \in fields |-> x[i][f]] /\ DOMAIN y[i] = fields
    BY <2>1 DEF Row
  <2>3. ASSUME NEW f \in fields, <<"selected", i, f>> \notin t PROVE x[i][f] = y[i][f]
    <3>1. SUFFICES ASSUME x[i][f] # y[i][f] PROVE FALSE
      OBVIOUS
    <3> DEFINE p == <<i, f>>
    <3>2. p \in (DOMAIN x) \X fields /\ p[1] = i /\ p[2] = f
      BY <1>1
    <3>3. x[p[1]][p[2]] # y[p[1]][p[2]]
      BY <3>1, <3>2
    <3>4. <<"selected", p[1], p[2]>> \in RowsDiffer(x, y)
      <4> HIDE DEF p
      <4> QED BY <3>2, <3>3 DEF RowsDiffer
    <3> QED BY <2>3, <3>2, <3>4
  <2>4. z[i] = [f \in DOMAIN y[i] |-> IF <<"selected", i, f>> \in t THEN x[i][f] ELSE y[i][f]]
    OBVIOUS
  <2>5. z[i] = [f \in fields |-> x[i][f]]
    <3> HIDE DEF z
    <3> QED BY <2>2, <2>3, <2>4
  <2> QED BY <2>2, <2>5
<1>3. x = [i \in DOMAIN y |-> x[i]]
  <2> HIDE DEF Row
  <2> QED BY <1>1
<1>4. z = [i \in DOMAIN y |-> x[i]]
  <2>1. z = [i \in DOMAIN y |-> z[i]]
    OBVIOUS
  <2> HIDE DEF z
  <2> QED BY <1>2, <2>1
<1> QED BY <1>3, <1>4 DEF RowsBack

LEMMA DestinationsPutBack ==
  ASSUME NEW x \in Seq(Destination), NEW y \in Seq(Destination), NEW t, Len(x) = Len(y),
         DestinationsDiffer(x, y) \subseteq t
  PROVE  x = PlacesBack(t, y, x)
<1> DEFINE z == [i \in DOMAIN y |-> [f \in DOMAIN y[i] |->
                IF <<"destination", i, f>> \in t THEN x[i][f] ELSE y[i][f]]]
           fields == {"asset", "value", "address"}
<1>1. DOMAIN x = 1..Len(x) /\ DOMAIN y = 1..Len(x)
  OBVIOUS
<1>2. ASSUME NEW i \in DOMAIN y PROVE z[i] = x[i]
  <2>1. x[i] \in Destination /\ y[i] \in Destination
    <3> HIDE DEF Destination
    <3> QED BY <1>1
  <2>2. x[i] = [f \in fields |-> x[i][f]] /\ DOMAIN y[i] = fields
    BY <2>1 DEF Destination
  <2>3. ASSUME NEW f \in fields, <<"destination", i, f>> \notin t PROVE x[i][f] = y[i][f]
    <3>1. SUFFICES ASSUME x[i][f] # y[i][f] PROVE FALSE
      OBVIOUS
    <3> DEFINE p == <<i, f>>
    <3>2. p \in (DOMAIN x) \X fields /\ p[1] = i /\ p[2] = f
      BY <1>1
    <3>3. x[p[1]][p[2]] # y[p[1]][p[2]]
      BY <3>1, <3>2
    <3>4. <<"destination", p[1], p[2]>> \in DestinationsDiffer(x, y)
      <4> HIDE DEF p
      <4> QED BY <3>2, <3>3 DEF DestinationsDiffer
    <3> QED BY <2>3, <3>2, <3>4
  <2>4. z[i] = [f \in DOMAIN y[i] |-> IF <<"destination", i, f>> \in t THEN x[i][f] ELSE y[i][f]]
    OBVIOUS
  <2>5. z[i] = [f \in fields |-> x[i][f]]
    <3> HIDE DEF z
    <3> QED BY <2>2, <2>3, <2>4
  <2> QED BY <2>2, <2>5
<1>3. x = [i \in DOMAIN y |-> x[i]]
  <2> HIDE DEF Destination
  <2> QED BY <1>1
<1>4. z = [i \in DOMAIN y |-> x[i]]
  <2>1. z = [i \in DOMAIN y |-> z[i]]
    OBVIOUS
  <2> HIDE DEF z
  <2> QED BY <1>2, <2>1
<1> QED BY <1>3, <1>4 DEF PlacesBack

(* Put back the fields a logical row names, and the child packs to its parent. *)
LEMMA PutBackRestores ==
  ASSUME NEW a \in PlanValues, NEW b \in PlanValues, NEW t, Covers(t, LogicalDiff(a, b))
  PROVE  Pack(PutBack(t, b, a)) = Pack(a)
<1> DEFINE p == PutBack(t, b, a)
           H == HeadersDiffer(a, b)
           S == SelectedDiffer(a.selected, b.selected)
           T == IF Len(a.destinations) # Len(b.destinations) THEN {<<"destination", "count">>}
                ELSE DestinationsDiffer(a.destinations, b.destinations)
           listed == IF <<"selected", "order">> \in t THEN Reversed(b.selected)
                   ELSE [i \in DOMAIN b.selected |-> [f \in DOMAIN b.selected[i] |->
                           IF <<"selected", i, f>> \in t THEN a.selected[i][f]
                           ELSE b.selected[i][f]]]
           places == [i \in DOMAIN b.destinations |-> [f \in DOMAIN b.destinations[i] |->
                           IF <<"destination", i, f>> \in t THEN a.destinations[i][f]
                           ELSE b.destinations[i][f]]]
<1>1. t \in Targets /\ H \union S \union T # {} /\ H \union S \union T \subseteq t
  <2>1. t \in Targets /\ LogicalDiff(a, b) # {} /\ LogicalDiff(a, b) \subseteq t
    BY DEF Covers
  <2> HIDE DEF H, S, T
  <2>2. LogicalDiff(a, b) = H \union S \union T
    BY DiffIs DEF H, S, T
  <2> QED BY <2>1, <2>2
<1>2. /\ <<"header", "source">> \notin t /\ <<"header", "fee">> \notin t
      /\ <<"selected", "count">> \notin t /\ <<"destination", "count">> \notin t
      /\ <<"selected", "order">> \in t => t = {<<"selected", "order">>}
  BY <1>1, TargetsOmit
<1>3. /\ p.source = b.source /\ p.fee = b.fee
      /\ p.manifest = IF <<"header", "manifest">> \in t THEN a.manifest ELSE b.manifest
      /\ p.pegged = IF <<"header", "pegged">> \in t THEN a.pegged ELSE b.pegged
      /\ p.selected = listed /\ p.destinations = places
  <2> HIDE DEF Row, Destination
  <2>1. DOMAIN b = {"source", "manifest", "pegged", "aggregate", "fee", "selected", "destinations"}
    BY DEF PlanValues
  <2>2. p = [b EXCEPT
        !.manifest = IF <<"header", "manifest">> \in t THEN a.manifest ELSE b.manifest,
        !.pegged = IF <<"header", "pegged">> \in t THEN a.pegged ELSE b.pegged,
        !.selected = listed, !.destinations = places]
    BY <2>1 DEF PutBack
  <2> HIDE DEF p, listed, places
  <2> QED BY <2>1, <2>2
<1>4. /\ a.selected \in Seq(Row) /\ b.selected \in Seq(Row)
      /\ a.destinations \in Seq(Destination) /\ b.destinations \in Seq(Destination)
  BY DEF PlanValues
<1>5. \A k \in {"source", "manifest", "pegged", "fee"} : a[k] # b[k] => <<"header", k>> \in t
  BY <1>1 DEF HeadersDiffer
<1>6. p.source = a.source /\ p.fee = a.fee /\ p.manifest = a.manifest /\ p.pegged = a.pegged
  <2>1. /\ a.source # b.source => <<"header", "source">> \in t
        /\ a.manifest # b.manifest => <<"header", "manifest">> \in t
        /\ a.pegged # b.pegged => <<"header", "pegged">> \in t
        /\ a.fee # b.fee => <<"header", "fee">> \in t
    <3> HIDE DEF Row, Destination
    <3> QED BY <1>5 DEF PlanValues
  <2> HIDE DEF p
  <2> QED BY <1>2, <1>3, <2>1
<1>7. Len(a.destinations) = Len(b.destinations) /\ p.destinations = a.destinations
  <2>1. Len(a.destinations) = Len(b.destinations)
    BY <1>1, <1>2
  <2>2. DestinationsDiffer(a.destinations, b.destinations) \subseteq t
    BY <1>1, <2>1
  <2>3. a.destinations = PlacesBack(t, b.destinations, a.destinations)
    <3> HIDE DEF Destination
    <3> QED BY <1>4, <2>1, <2>2, DestinationsPutBack
  <2>4. places = PlacesBack(t, b.destinations, a.destinations)
    BY DEF PlacesBack
  <2> HIDE DEF p, places
  <2> QED BY <1>3, <2>1, <2>3, <2>4
<1>8. Len(a.selected) = Len(b.selected)
  <2> HIDE DEF H, T
  <2> QED BY <1>1, <1>2 DEF SelectedDiffer
<1>9. p.selected = a.selected
  <2>1. CASE <<"selected", "order">> \in t
    <3>1. t = {<<"selected", "order">>}
      BY <1>2, <2>1
    <3>2. H = {}
      <4>1. \A k : <<"header", k>> # <<"selected", "order">>
        OBVIOUS
      <4> QED BY <1>1, <3>1, <4>1 DEF HeadersDiffer
    <3>3. T = {}
      <4>1. \A i, f : <<"destination", i, f>> # <<"selected", "order">>
        BY DistinctLength
      <4>2. <<"destination", "count">> # <<"selected", "order">>
        OBVIOUS
      <4> HIDE DEF H, S
      <4> QED BY <1>1, <1>7, <3>1, <4>1, <4>2 DEF DestinationsDiffer
    <3>4. S = {<<"selected", "order">>}
      <4> HIDE DEF H, S, T
      <4> QED BY <1>1, <3>1, <3>2, <3>3
    <3>5. a.selected = Reversed(b.selected)
      <4>1. a.selected # b.selected
        BY <1>8, <3>4 DEF SelectedDiffer
      <4>2. ASSUME a.selected # Reversed(b.selected) PROVE FALSE
        <5>1. S = RowsDiffer(a.selected, b.selected)
          BY <1>8, <4>1, <4>2 DEF SelectedDiffer
        <5>2. \A i, f : <<"selected", i, f>> # <<"selected", "order">>
          BY DistinctLength
        <5> HIDE DEF S
        <5> QED BY <3>4, <5>1, <5>2 DEF RowsDiffer
      <4> QED BY <4>2
    <3>6. listed = Reversed(b.selected)
      BY <2>1
    <3> HIDE DEF p, listed
    <3> QED BY <1>3, <3>5, <3>6
  <2>2. CASE <<"selected", "order">> \notin t
    <3>1. S \subseteq t
      <4> HIDE DEF H, S, T
      <4> QED BY <1>1
    <3>2. RowsDiffer(a.selected, b.selected) \subseteq t
      <4>1. CASE a.selected = b.selected
        BY <4>1 DEF RowsDiffer
      <4>2. CASE a.selected # b.selected
        <5>1. a.selected # Reversed(b.selected)
          BY <1>8, <2>2, <3>1, <4>2 DEF SelectedDiffer
        <5>2. S = RowsDiffer(a.selected, b.selected)
          BY <1>8, <4>2, <5>1 DEF SelectedDiffer
        <5> HIDE DEF S
        <5> QED BY <3>1, <5>2
      <4> QED BY <4>1, <4>2
    <3> DEFINE put == RowsBack(t, b.selected, a.selected)
    <3>3. a.selected = put
      <4> HIDE DEF Row
      <4> QED BY <1>4, <1>8, <3>2, SelectedPutBack
    <3>4. listed = put
      BY <2>2 DEF RowsBack
    <3> HIDE DEF p, listed, put
    <3> QED BY <1>3, <3>3, <3>4
  <2> QED BY <2>1, <2>2
<1> QED
  <2> HIDE DEF p
  <2>1. Pack(p) = Pack(a)
    BY <1>6, <1>7, <1>9, SamePack
  <2> QED BY <2>1 DEF p

(* A logical row of the mutation table that is accepted for a canonical parent *)
(* names all that changed, whatever its author repacked: with the fields the   *)
(* row names put back, the child packs to its parent.                          *)
THEOREM RepackIsNamed == PlanCorpusSpec => []RepackNamesTheChange
<1>1. FramesOK => RepackNamesTheChange
  <2> SUFFICES ASSUME FramesOK, kind = "frame", row # None, row.kind = "logical-repack",
                      Pack(Unpack(parent)) = parent, LineageAccepted(row, parent, now)
               PROVE  Pack(PutBack(row.target, Unpack(now), Unpack(parent))) = parent
    BY DEF RepackNamesTheChange
  <2>1. now \in Seq(Nat) /\ parent \in Seq(Nat)
    BY DEF FramesOK
  <2>2. /\ Unpack(parent) # None /\ Unpack(now) # None
        /\ Covers(row.target, LogicalDiff(Unpack(parent), Unpack(now)))
    BY DEF LineageAccepted
  <2>3. Unpack(parent) \in PlanValues /\ Unpack(now) \in PlanValues
    BY <2>1, <2>2, UnpackedIsAValue
  <2> QED BY <2>2, <2>3, PutBackRestores
<1> QED BY <1>1, FramesAreTexts, PTL

-----------------------------------------------------------------------------
(***************************************************************************)
(* PlanSurface: the scans agree.                                           *)
(***************************************************************************)
(* A list of the members of Q in their order.                                  *)
Lists(e, Q) ==
  /\ e \in Seq(Nat) /\ \A k, l \in 1..Len(e) : k < l => e[k] < e[l]
  /\ \A i : i \in Q <=> \E k \in 1..Len(e) : e[k] = i

(* There is only one.                                                          *)
LEMMA ListsAlike ==
  ASSUME NEW e, NEW f, NEW Q, Lists(e, Q), Lists(f, Q)
  PROVE  e = f
<1> DEFINE m == Len(e)  n == Len(f)
           Alike(k) == (k <= m <=> k <= n) /\ (k <= m => e[k] = f[k])
           S == {k \in Nat : \A j \in 1..k : Alike(j)}
<1>1. e \in Seq(Nat) /\ f \in Seq(Nat) /\ m \in Nat /\ n \in Nat
  BY DEF Lists
<1>2. /\ \A k, l \in 1..m : k < l => e[k] < e[l]
      /\ \A k, l \in 1..n : k < l => f[k] < f[l]
      /\ \A k \in 1..m : e[k] \in Nat /\ \E l \in 1..n : f[l] = e[k]
      /\ \A k \in 1..n : f[k] \in Nat /\ \E l \in 1..m : e[l] = f[k]
  <2>1. \A k \in 1..m : e[k] \in Q
    BY DEF Lists
  <2>2. \A k \in 1..n : f[k] \in Q
    BY DEF Lists
  <2>3. \A i \in Q : (\E k \in 1..m : e[k] = i) /\ (\E k \in 1..n : f[k] = i)
    BY DEF Lists
  <2>4. (\A k \in 1..m : e[k] \in Nat) /\ (\A k \in 1..n : f[k] \in Nat)
    BY <1>1
  <2>5. /\ \A k, l \in 1..m : k < l => e[k] < e[l]
        /\ \A k, l \in 1..n : k < l => f[k] < f[l]
    BY DEF Lists
  <2> HIDE DEF m, n
  <2> QED BY <2>1, <2>2, <2>3, <2>4, <2>5
<1> HIDE DEF m, n
<1>3. 0 \in S
  OBVIOUS
<1>4. ASSUME NEW k \in S PROVE k + 1 \in S
  <2> DEFINE q == k + 1
  <2>1. k \in Nat /\ q \in Nat /\ \A j \in 1..k : Alike(j)
    OBVIOUS
  <2>2. ASSUME q <= m PROVE q <= n /\ f[q] <= e[q]
    <3>1. q \in 1..m
      BY <2>1, <2>2, <1>1
    <3>2. PICK l \in 1..n : f[l] = e[q]
      BY <1>2, <3>1
    <3>3. l >= q
      <4> SUFFICES ASSUME l < q PROVE FALSE
        BY <2>1, <1>1
      <4>1. l \in 1..k /\ l \in 1..m /\ l < q
        BY <2>1, <2>2, <1>1
      <4>2. e[l] = f[l] /\ e[l] < e[q] /\ e[l] \in Nat /\ e[q] \in Nat
        BY <2>1, <4>1, <3>1, <1>1, <1>2
      <4> QED BY <4>2, <3>2
    <3>4. q \in 1..n
      BY <3>3, <2>1, <1>1
    <3> QED BY <3>2, <3>3, <3>4, <1>2
  <2>3. ASSUME q <= n PROVE q <= m /\ e[q] <= f[q]
    <3>1. q \in 1..n
      BY <2>1, <2>3, <1>1
    <3>2. PICK l \in 1..m : e[l] = f[q]
      BY <1>2, <3>1
    <3>3. l >= q
      <4> SUFFICES ASSUME l < q PROVE FALSE
        BY <2>1, <1>1
      <4>1. l \in 1..k /\ l \in 1..n /\ l < q
        BY <2>1, <2>3, <1>1
      <4>2. e[l] = f[l] /\ f[l] < f[q] /\ f[l] \in Nat /\ f[q] \in Nat
        BY <2>1, <4>1, <3>1, <1>1, <1>2
      <4> QED BY <4>2, <3>2
    <3>4. q \in 1..m
      BY <3>3, <2>1, <1>1
    <3> QED BY <3>2, <3>3, <3>4, <1>2
  <2>4. Alike(q)
    <3>1. ASSUME q <= m PROVE e[q] = f[q]
      <4>1. q \in 1..m /\ q \in 1..n /\ f[q] <= e[q] /\ e[q] <= f[q]
        BY <2>1, <2>2, <2>3, <3>1, <1>1
      <4> QED BY <4>1, <1>2
    <3> QED BY <2>2, <2>3, <3>1
  <2> HIDE DEF Alike
  <2>5. \A j \in 1..q : j \in 1..k \/ j = q
    BY <2>1
  <2> QED BY <2>1, <2>4, <2>5
<1>5. S = Nat
  <2> HIDE DEF S
  <2>1. S \in SUBSET Nat
    BY DEF S
  <2> QED BY <1>3, <1>4, <2>1, NumberInduction
<1>6. \A k \in Nat : k >= 1 => Alike(k)
  <2>1. \A k \in Nat : k \in S
    BY <1>5
  <2> HIDE DEF Alike
  <2> QED BY <2>1
<1>7. m = n
  <2>1. CASE m < n
    <3>1. n \in Nat /\ n >= 1
      BY <1>1, <2>1
    <3> QED BY <1>6, <3>1, <2>1, <1>1
  <2>2. CASE n < m
    <3>1. m \in Nat /\ m >= 1
      BY <1>1, <2>2
    <3> QED BY <1>6, <3>1, <2>2, <1>1
  <2> QED BY <2>1, <2>2, <1>1
<1>8. \A k \in 1..m : e[k] = f[k]
  <2>1. \A k \in 1..m : k \in Nat /\ k >= 1 /\ k <= m
    BY <1>1
  <2> QED BY <1>6, <2>1
<1> QED BY <1>1, <1>7, <1>8 DEF m, n

(* A list taken of a list.                                                     *)
LEMMA ListOfList ==
  ASSUME NEW e, NEW g, NEW Q, NEW R, Lists(e, Q), Lists(g, R), R \subseteq 1..Len(e)
  PROVE  Lists([k \in 1..Len(g) |-> e[g[k]]], {e[i] : i \in R})
<1> DEFINE h == [k \in 1..Len(g) |-> e[g[k]]]  n == Len(g)
<1>1. e \in Seq(Nat) /\ g \in Seq(Nat) /\ n \in Nat
  BY DEF Lists
<1>2. \A k \in 1..n : g[k] \in 1..Len(e) /\ g[k] \in R /\ e[g[k]] \in Nat
  <2>1. \A k \in 1..n : g[k] \in R
    BY DEF Lists
  <2> QED BY <1>1, <2>1
<1>3. h \in Seq(Nat) /\ Len(h) = n /\ \A k \in 1..n : h[k] = e[g[k]]
  <2>1. h \in [1..n -> Nat]
    BY <1>2
  <2>2. h \in Seq(Nat)
    BY <2>1, <1>1
  <2>3. Len(h) = n
    BY <2>1, <2>2, <1>1
  <2> QED BY <2>2, <2>3
<1> HIDE DEF h, n
<1>4. ASSUME NEW k \in 1..n, NEW l \in 1..n, k < l PROVE h[k] < h[l]
  <2>1. g[k] < g[l]
    BY <1>4 DEF Lists, n
  <2> QED BY <2>1, <1>2, <1>3 DEF Lists
<1>5. ASSUME NEW i PROVE i \in {e[r] : r \in R} <=> \E k \in 1..n : h[k] = i
  <2>1. ASSUME NEW r \in R, i = e[r] PROVE \E k \in 1..n : h[k] = i
    <3>1. PICK k \in 1..n : g[k] = r
      BY DEF Lists, n
    <3> QED BY <3>1, <2>1, <1>3
  <2> QED BY <2>1, <1>2, <1>3
<1> QED BY <1>3, <1>4, <1>5 DEF Lists, n, h

(* InOrder lists what of a set is a place of the sequence.                     *)
LEMMA InOrderLists ==
  ASSUME NEW P, NEW S, NEW s \in Seq(S)
  PROVE  Lists(InOrder(P, s), P \cap DOMAIN s)
<1> DEFINE n == Len(s)  V == Seq(Nat)
           step == [p \in (1..n) \X V |-> IF p[1] \in P THEN Append(p[2], p[1]) ELSE p[2]]
<1>1. n \in Nat /\ << >> \in V /\ DOMAIN s = 1..n
  OBVIOUS
<1>2. \A i \in 1..n, v \in V : /\ step[<<i, v>>] \in V
                               /\ step[<<i, v>>] = IF i \in P THEN Append(v, i) ELSE v
  <2>1. ASSUME NEW i \in 1..n, NEW v \in V
        PROVE  /\ step[<<i, v>>] = (IF i \in P THEN Append(v, i) ELSE v)
               /\ Append(v, i) \in V
    <3>1. i \in Nat /\ <<i, v>> \in (1..n) \X V
      BY <1>1
    <3>2. Append(v, i) \in V
      BY <3>1
    <3> HIDE DEF V, n
    <3> QED BY <3>1, <3>2
  <2> QED BY <2>1
<1> HIDE DEF step
<1>3. PICK g : Solves(V, << >>, n, step, g)
  <2> HIDE DEF V, n
  <2> QED BY <1>1, <1>2, RecursionExists
<1>4. g \in [0..n -> V] /\ g[0] = << >> /\ \A i \in 1..n : g[i] = IF i \in P THEN Append(g[i - 1], i) ELSE g[i - 1]
  <2>1. \A i \in 1..n : i - 1 \in 0..n
    BY <1>1
  <2> HIDE DEF V, n
  <2> QED BY <1>2, <1>3, <2>1 DEF Solves
<1> DEFINE Good(j) == j = [i \in 0..n |-> IF i = 0 THEN << >>
                             ELSE IF i \in P THEN Append(j[i - 1], i) ELSE j[i - 1]]
<1>5. Good(g)
  <2>1. g = [i \in 0..n |-> g[i]]
    BY <1>4
  <2>2. \A i \in 0..n : g[i] = IF i = 0 THEN << >>
                               ELSE IF i \in P THEN Append(g[i - 1], i) ELSE g[i - 1]
    <3>1. \A i \in 0..n : i # 0 => i \in 1..n
      BY <1>1
    <3> HIDE DEF n, V
    <3> QED BY <1>4, <3>1
  <2>3. [i \in 0..n |-> g[i]] = [i \in 0..n |-> IF i = 0 THEN << >>
                               ELSE IF i \in P THEN Append(g[i - 1], i) ELSE g[i - 1]]
    <3> HIDE DEF n
    <3> QED BY <2>2
  <2> QED BY <2>1, <2>3
<1> DEFINE j == CHOOSE j : Good(j)
<1>6. Good(j)
  <2> HIDE DEF Good
  <2> QED BY <1>5
<1>7. InOrder(P, s) = j[n]
  BY DEF InOrder
<1> HIDE DEF j
<1>8. DOMAIN j = 0..n /\ j = [i \in 0..n |-> j[i]] /\ j[0] = << >>
      /\ \A i \in 1..n : j[i] = IF i \in P THEN Append(j[i - 1], i) ELSE j[i - 1]
  <2>1. DOMAIN j = 0..n /\ j = [i \in 0..n |-> j[i]] /\ j[0] = << >>
    BY <1>1, <1>6
  <2>2. ASSUME NEW i \in 1..n PROVE j[i] = IF i \in P THEN Append(j[i - 1], i) ELSE j[i - 1]
    <3>1. \A k \in 0..n : j[k] = IF k = 0 THEN << >>
                             ELSE IF k \in P THEN Append(j[k - 1], k) ELSE j[k - 1]
      BY <1>6
    <3>2. i \in 0..n /\ i # 0
      BY <1>1
    <3> QED BY <3>1, <3>2
  <2> QED BY <2>1, <2>2
<1> DEFINE T == {k \in Nat : k <= n => Lists(j[k], P \cap (1..k))}
<1>9. 0 \in T
  BY <1>8 DEF Lists
<1>10. ASSUME NEW k \in T PROVE k + 1 \in T
  <2> SUFFICES ASSUME k + 1 <= n PROVE Lists(j[k + 1], P \cap (1..(k + 1)))
    OBVIOUS
  <2> DEFINE a == j[k]  q == k + 1
  <2>1. k \in Nat /\ q \in 1..n /\ q - 1 = k /\ Lists(a, P \cap (1..k)) /\ 1..q = (1..k) \cup {q}
    BY <1>1
  <2>2. j[q] = IF q \in P THEN Append(a, q) ELSE a
    BY <1>8, <2>1
  <2>3. CASE q \notin P
    <3>1. P \cap (1..q) = P \cap (1..k)
      BY <2>1, <2>3
    <3> QED BY <2>1, <2>2, <2>3, <3>1
  <2>4. CASE q \in P
    <3> DEFINE b == Append(a, q)  m == Len(a)
    <3>1. a \in Seq(Nat) /\ q \in Nat /\ m \in Nat
      BY <2>1 DEF Lists
    <3>2. b \in Seq(Nat) /\ Len(b) = m + 1 /\ b[m + 1] = q /\ \A l \in 1..m : b[l] = a[l]
      BY <3>1
    <3>3. \A l \in 1..m : a[l] \in Nat /\ a[l] \in P /\ a[l] \in 1..k
      BY <2>1, <3>1 DEF Lists
    <3> HIDE DEF a, b, m, q
    <3>4. ASSUME NEW x \in 1..(m + 1), NEW y \in 1..(m + 1), x < y PROVE b[x] < b[y]
      <4>1. x \in 1..m
        BY <3>1, <3>4
      <4>2. CASE y = m + 1
        <5>1. a[x] \in 1..k
          BY <3>3, <4>1
        <5>2. a[x] < q
          BY <2>1, <5>1 DEF q
        <5> QED BY <3>2, <4>1, <4>2, <5>2
      <4>3. CASE y # m + 1
        <5>1. y \in 1..m
          BY <3>1, <4>3
        <5> QED BY <2>1, <3>2, <3>4, <4>1, <5>1 DEF Lists, m
      <4> QED BY <4>2, <4>3
    <3>5. ASSUME NEW i PROVE i \in P \cap (1..q) <=> \E l \in 1..(m + 1) : b[l] = i
      <4>1. i \in P \cap (1..q) <=> i \in P \cap (1..k) \/ i = q
        BY <2>1, <2>4
      <4>2. i \in P \cap (1..k) <=> \E l \in 1..m : a[l] = i
        BY <2>1 DEF Lists, m
      <4>3. \A l : l \in 1..(m + 1) <=> l \in 1..m \/ l = m + 1
        BY <3>1
      <4> QED BY <3>2, <4>1, <4>2, <4>3
    <3>6. Lists(b, P \cap (1..q))
      BY <3>2, <3>4, <3>5 DEF Lists
    <3>7. j[q] = b
      BY <2>2, <2>4 DEF b
    <3> QED BY <3>6, <3>7 DEF q
  <2> QED BY <2>3, <2>4
<1>11. T = Nat
  <2> HIDE DEF T
  <2>1. T \in SUBSET Nat
    BY DEF T
  <2> QED BY <1>9, <1>10, <2>1, NumberInduction
<1>12. Lists(j[n], P \cap (1..n))
  <2>1. n \in T
    BY <1>1, <1>11
  <2> HIDE DEF n
  <2> QED BY <2>1, <1>1
<1> QED BY <1>1, <1>7, <1>12

(* Where a text without an apostrophe may stand, and what a scan without       *)
(* comments makes of it.                                                       *)
Modes == {Code} \cup [kind : {"line", "block", "text", "raw"}, depth : Int]
Bare(m) == IF InComment(m) THEN Code ELSE m
Passed(m, s) == s # EOL /\ (InComment(m) \/ InComment(StripStep(m, s)))
Marks == {"character", "lifetime"}

(* One symbol: what is hidden changes nothing but comments.                    *)
LEMMA ModesAre ==
  ASSUME NEW m \in Modes
  PROVE  \/ m = Code
         \/ /\ m.kind \in {"line", "block", "text", "raw"} /\ m.depth \in Int
            /\ m = In(m.kind, m.depth) /\ m # Code
BY DEF Modes, Code, In
LEMMA InModes ==
  /\ Code \in Modes /\ Code.kind = "code"
  /\ \A k \in {"line", "block", "text", "raw"}, d \in Int :
       In(k, d) \in Modes /\ In(k, d).kind = k /\ In(k, d) # Code
BY DEF Modes, Code, In
LEMMA StepTells ==
  ASSUME NEW m \in Modes, NEW s, s \notin Marks
  PROVE  /\ StripStep(m, s) \in Modes /\ TokenStep(m, s) \in Modes
         /\ MaskStep(m, s) = StripStep(m, s)
         /\ Passed(m, s) => Bare(StripStep(m, s)) = Bare(m)
         /\ ~ Passed(m, s) => Bare(StripStep(m, s)) = TokenStep(Bare(m), s)
<1>0. s # "character" /\ s # "lifetime"
  BY DEF Marks
<1>1. EOL \notin {"//", "/*", "*/", Quote, RawQuote, EscapedQuote}
  BY DEF EOL, Quote, RawQuote, EscapedQuote
<1>2. Quote # RawQuote /\ Quote # EscapedQuote /\ RawQuote # EscapedQuote
      /\ \A q \in {Quote, RawQuote, EscapedQuote} : q # "//" /\ q # "/*"
  BY DEF Quote, RawQuote, EscapedQuote
<1>3. LiteralOpened(s) \in Modes /\ ~ InComment(LiteralOpened(s))
      /\ (LiteralOpened(s) = Code \/ s \in {Quote, RawQuote, EscapedQuote})
  <2>1. CASE s = RawQuote
    BY <2>1, InModes DEF LiteralOpened, InComment
  <2>2. CASE s # RawQuote /\ s \in {Quote, EscapedQuote}
    BY <2>2, InModes DEF LiteralOpened, InComment
  <2>3. CASE s \notin {Quote, EscapedQuote, RawQuote}
    BY <2>3, InModes DEF LiteralOpened, InComment
  <2> QED BY <2>1, <2>2, <2>3
<1>7. MaskStep(m, s) = StripStep(m, s)
  <2>1. m.kind # "character"
    BY ModesAre, InModes
  <2> QED BY <1>0, <2>1 DEF MaskStep, StripStep
<1>4. CASE m.kind \in {"line", "block"} /\ m # Code
  <2>0. InComment(m) /\ ~ InLiteral(m) /\ ~ InLiteral(Code)
    BY <1>4, InModes DEF InComment, InLiteral
  <2>1. InComment(m) /\ StripStep(m, s) = CommentStep(m, s) /\ Bare(m) = Code /\ ~ InLiteral(m) /\ ~ InLiteral(Code)
    BY <2>0 DEF StripStep, Bare
  <2>2. CommentStep(m, s) \in Modes /\ (CommentStep(m, s) = Code \/ InComment(CommentStep(m, s)))
    <3>1. m.depth \in Int /\ m.depth + 1 \in Int /\ m.depth - 1 \in Int
      BY <1>4, ModesAre
    <3> QED BY <1>4, <3>1, InModes DEF CommentStep, InComment
  <2>3. TokenStep(m, s) = LiteralOpened(s) /\ TokenStep(Code, s) = LiteralOpened(s)
    BY <1>0, <1>4, <2>1, InModes DEF TokenStep
  <2>4. Bare(StripStep(m, s)) = Code
    BY <2>1, <2>2, InModes DEF Bare, InComment
  <2>5. ~ Passed(m, s) => s = EOL
    BY <2>1 DEF Passed
  <2>6. s = EOL => LiteralOpened(s) = Code
    BY <1>1, <1>3
  <2> QED BY <1>3, <1>7, <2>1, <2>2, <2>3, <2>4, <2>5, <2>6
<1>5. CASE m.kind \in {"text", "raw"} /\ m # Code
  <2>1. ~ InComment(m) /\ InLiteral(m) /\ StripStep(m, s) = LiteralStep(m, s) /\ Bare(m) = m
    <3>1. ~ InComment(m) /\ InLiteral(m)
      BY <1>5 DEF InComment, InLiteral
    <3> QED BY <3>1 DEF StripStep, Bare
  <2>2. LiteralStep(m, s) \in {m, Code} /\ ~ InComment(LiteralStep(m, s))
    BY <2>1, InModes DEF LiteralStep, InComment
  <2>3. TokenStep(m, s) = LiteralStep(m, s)
    <3>1. m.kind # "character" /\ m.kind # "lifetime"
      BY <1>5
    <3> QED BY <2>1, <3>1 DEF TokenStep
  <2>4. ~ Passed(m, s) /\ Bare(StripStep(m, s)) = LiteralStep(m, s)
    BY <2>1, <2>2 DEF Passed, Bare
  <2> QED BY <1>7, <2>1, <2>2, <2>3, <2>4, InModes
<1>6. CASE m = Code
  <2>1. ~ InComment(m) /\ ~ InLiteral(m) /\ Bare(m) = m
    BY <1>6, InModes DEF InComment, InLiteral, Bare
  <2>2. StripStep(m, s) = StripStep(Code, s) /\ TokenStep(m, s) = LiteralOpened(s)
    BY <1>0, <1>6, <2>1, InModes DEF TokenStep
  <2>3. CASE s \in {"//", "/*"}
    <3>1. InComment(StripStep(m, s)) /\ StripStep(m, s) \in Modes
      BY <2>1, <2>3, InModes DEF StripStep, Opened, InComment
    <3>2. s # EOL
      BY <1>1, <2>3
    <3>3. Passed(m, s) /\ Bare(StripStep(m, s)) = Code
      BY <2>2, <3>1, <3>2 DEF Passed, Bare
    <3> QED BY <1>3, <1>6, <1>7, <2>1, <2>2, <3>1, <3>3
  <2>4. CASE s \notin {"//", "/*"}
    <3>1. StripStep(m, s) = LiteralOpened(s)
      BY <2>1, <2>4 DEF StripStep, Opened
    <3>2. ~ Passed(m, s) /\ Bare(StripStep(m, s)) = LiteralOpened(s)
      BY <1>3, <2>1, <2>2, <3>1 DEF Passed, Bare
    <3> QED BY <1>3, <1>7, <2>1, <2>2, <3>1, <3>2
  <2> QED BY <2>3, <2>4
<1> QED BY <1>4, <1>5, <1>6, <1>7, ModesAre

-----------------------------------------------------------------------------
(* The places of a text, each from the one before by the rule.                 *)
Follows(modes, text, rule) ==
  /\ modes \in Seq(Modes) /\ Len(modes) = Len(text) + 1 /\ modes[1] = Code
  /\ \A i \in 1..Len(text) : modes[i + 1] = rule[<<modes[i], text[i]>>]
RunsBy(g, text, rule) ==
  /\ g \in [0..Len(text) -> Seq(Modes) \ {<< >>}] /\ g[0] = <<Code>>
  /\ \A i \in 1..Len(text) : g[i] = Append(g[i - 1], rule[<<Last(g[i - 1]), text[i]>>])

LEMMA LastIsMode ==
  ASSUME NEW a \in Seq(Modes) \ {<< >>}
  PROVE  Last(a) \in Modes /\ Last(a) = a[Len(a)] /\ Len(a) \in Nat /\ Len(a) >= 1
BY DEF Last

LEMMA RunsFollow ==
  ASSUME NEW S, NEW text \in Seq(S), NEW rule \in [Modes \X S -> Modes], NEW g, RunsBy(g, text, rule)
  PROVE  Follows(g[Len(text)], text, rule)
<1> DEFINE n == Len(text)  V == Seq(Modes) \ {<< >>}
           Good(a, k) == /\ Len(a) = k + 1 /\ a[1] = Code
                         /\ \A i \in 1..k : a[i + 1] = rule[<<a[i], text[i]>>]
           T == {k \in Nat : k <= n => Good(g[k], k)}
<1>1. n \in Nat
  OBVIOUS
<1>2. \A k \in 0..n : g[k] \in V
  BY DEF RunsBy
<1>3. 0 \in T
  <2>1. g[0] = <<Code>> /\ Len(<<Code>>) = 1 /\ <<Code>>[1] = Code
    BY DEF RunsBy
  <2>2. Good(g[0], 0)
    BY <2>1
  <2> HIDE DEF Good
  <2> QED BY <2>2
<1>4. ASSUME NEW k \in T PROVE k + 1 \in T
  <2> SUFFICES ASSUME k + 1 <= n PROVE Good(g[k + 1], k + 1)
    OBVIOUS
  <2> DEFINE a == g[k]  x == rule[<<Last(a), text[k + 1]>>]  b == Append(a, x)
  <2>1. k \in Nat /\ k + 1 \in 1..n /\ k \in 0..n /\ (k + 1) - 1 = k /\ Good(a, k)
    <3>1. k \in Nat /\ k + 1 \in 1..n /\ k \in 0..n /\ (k + 1) - 1 = k /\ k <= n
      BY <1>1
    <3> HIDE DEF Good, n
    <3> QED BY <3>1
  <2>2. g[k + 1] = b
    BY <2>1 DEF RunsBy
  <2>3. a \in V /\ Last(a) \in Modes /\ Last(a) = a[Len(a)] /\ text[k + 1] \in S
    <3>1. a \in V /\ text[k + 1] \in S
      BY <1>2, <2>1
    <3> QED BY <3>1, LastIsMode
  <2>4. x \in Modes
    <3> HIDE DEF a
    <3> QED BY <2>3
  <2>5. Len(b) = k + 2 /\ b[k + 2] = x /\ \A i \in 1..(k + 1) : b[i] = a[i]
    <3>1. a \in Seq(Modes) /\ Len(a) = k + 1
      BY <2>1, <2>3
    <3> HIDE DEF a, x
    <3> QED BY <2>1, <2>4, <3>1
  <2>6. x = rule[<<a[k + 1], text[k + 1]>>]
    BY <2>1, <2>3
  <2> HIDE DEF a, b, x
  <2>7. ASSUME NEW i \in 1..(k + 1) PROVE b[i + 1] = rule[<<b[i], text[i]>>]
    <3>1. CASE i = k + 1
      <4>1. b[i + 1] = x /\ b[i] = a[k + 1]
        BY <2>1, <2>5, <3>1
      <4> QED BY <2>6, <4>1, <3>1
    <3>2. CASE i # k + 1
      <4>1. i \in 1..k /\ i + 1 \in 1..(k + 1)
        BY <2>1, <3>2
      <4>2. b[i + 1] = a[i + 1] /\ b[i] = a[i]
        BY <2>5, <4>1
      <4> QED BY <2>1, <4>1, <4>2
    <3> QED BY <3>1, <3>2
  <2>8. b[1] = Code /\ Len(b) = (k + 1) + 1
    <3>1. 1 \in 1..(k + 1)
      BY <2>1
    <3> QED BY <2>1, <2>5, <3>1
  <2> QED BY <2>2, <2>7, <2>8
<1>5. T = Nat
  <2> HIDE DEF T
  <2>1. T \in SUBSET Nat
    BY DEF T
  <2> QED BY <1>3, <1>4, <2>1, NumberInduction
<1>6. Good(g[n], n)
  <2>1. n \in T
    BY <1>1, <1>5
  <2> HIDE DEF n, Good
  <2> QED BY <2>1, <1>1
<1>7. g[n] \in Seq(Modes)
  <2>1. n \in 0..n
    BY <1>1
  <2> QED BY <2>1, <1>2
<1> QED BY <1>6, <1>7 DEF Follows

(* The recursion has this solution, and whatever follows it is the solution.   *)
Longer(text, rule) ==
  [p \in (1..Len(text)) \X (Seq(Modes) \ {<< >>}) |-> Append(p[2], rule[<<Last(p[2]), text[p[1]]>>])]
IsLonger(o, text, rule) ==
  \A i \in 1..Len(text), a \in Seq(Modes) \ {<< >>} :
    /\ o[<<i, a>>] \in Seq(Modes) \ {<< >>}
    /\ o[<<i, a>>] = Append(a, rule[<<Last(a), text[i]>>])
LEMMA LongerIs ==
  ASSUME NEW S, NEW text \in Seq(S), NEW rule \in [Modes \X S -> Modes]
  PROVE  IsLonger(Longer(text, rule), text, rule)
<1> SUFFICES ASSUME NEW i \in 1..Len(text), NEW a \in Seq(Modes) \ {<< >>}
             PROVE  /\ Longer(text, rule)[<<i, a>>] \in Seq(Modes) \ {<< >>}
                    /\ Longer(text, rule)[<<i, a>>] = Append(a, rule[<<Last(a), text[i]>>])
  BY DEF IsLonger
<1> DEFINE x == rule[<<Last(a), text[i]>>]
<1>1. x \in Modes
  <2>1. Last(a) \in Modes /\ text[i] \in S
    BY LastIsMode
  <2> QED BY <2>1
<1>2. Longer(text, rule)[<<i, a>>] = Append(a, x)
  <2> DEFINE V == Seq(Modes) \ {<< >>}  D == (1..Len(text)) \X V
  <2>1. <<i, a>> \in D
    OBVIOUS
  <2> HIDE DEF D
  <2>2. Longer(text, rule) = [p \in D |-> Append(p[2], rule[<<Last(p[2]), text[p[1]]>>])]
    BY DEF Longer, D
  <2> QED BY <2>1, <2>2
<1> HIDE DEF x
<1>3. Append(a, x) \in Seq(Modes) \ {<< >>}
  BY <1>1
<1> QED BY <1>2, <1>3 DEF x

LEMMA RunsExist ==
  ASSUME NEW S, NEW text \in Seq(S), NEW rule \in [Modes \X S -> Modes]
  PROVE  \E g : RunsBy(g, text, rule)
<1> DEFINE V == Seq(Modes) \ {<< >>}  n == Len(text)  o == Longer(text, rule)  z == <<Code>>
<1>1. n \in Nat /\ z \in V /\ \A i \in 1..n : i - 1 \in 0..n
  BY InModes
<1>2. \A i \in 1..n, a \in V : o[<<i, a>>] \in V /\ o[<<i, a>>] = Append(a, rule[<<Last(a), text[i]>>])
  <2>1. IsLonger(o, text, rule)
    BY LongerIs
  <2> HIDE DEF o
  <2> QED BY <2>1 DEF IsLonger
<1> HIDE DEF V, n, o, z
<1>3. PICK g : Solves(V, z, n, o, g)
  BY <1>1, <1>2, RecursionExists
<1>4. g \in [0..n -> V] /\ g[0] = z /\ \A i \in 1..n : g[i] = o[<<i, g[i - 1]>>]
  BY <1>3 DEF Solves
<1>5. \A i \in 1..n : g[i] = Append(g[i - 1], rule[<<Last(g[i - 1]), text[i]>>])
  BY <1>1, <1>2, <1>4
<1> QED BY <1>4, <1>5 DEF RunsBy, V, n, z

LEMMA RunsAre ==
  ASSUME NEW S, NEW text \in Seq(S), NEW rule \in [Modes \X S -> Modes], NEW j,
         DOMAIN j = 0..Len(text), j = [i \in 0..Len(text) |-> j[i]], j[0] = <<Code>>,
         \A i \in 1..Len(text) : j[i - 1] \in Seq(Modes) \ {<< >>} =>
            j[i] = Append(j[i - 1], rule[<<Last(j[i - 1]), text[i]>>])
  PROVE  RunsBy(j, text, rule)
<1> DEFINE V == Seq(Modes) \ {<< >>}  n == Len(text)  o == Longer(text, rule)  z == <<Code>>
<1>1. n \in Nat /\ z \in V /\ \A i \in 1..n : i - 1 \in 0..n
  BY InModes
<1>2. \A i \in 1..n, a \in V : o[<<i, a>>] \in V /\ o[<<i, a>>] = Append(a, rule[<<Last(a), text[i]>>])
  <2>1. IsLonger(o, text, rule)
    BY LongerIs
  <2> HIDE DEF o
  <2> QED BY <2>1 DEF IsLonger
<1>3. \A i \in 1..n : j[i - 1] \in V => j[i] = o[<<i, j[i - 1]>>]
  BY <1>2
<1>4. DOMAIN j = 0..n /\ j = [i \in 0..n |-> j[i]] /\ j[0] = z
  OBVIOUS
<1> HIDE DEF V, n, o, z
<1>5. Solves(V, z, n, o, j)
  BY <1>1, <1>2, <1>3, <1>4, Solution
<1>6. j \in [0..n -> V] /\ j[0] = z /\ \A i \in 1..n : j[i] = o[<<i, j[i - 1]>>]
  BY <1>5 DEF Solves
<1>7. \A i \in 1..n : j[i] = Append(j[i - 1], rule[<<Last(j[i - 1]), text[i]>>])
  BY <1>1, <1>2, <1>6
<1> QED BY <1>6, <1>7 DEF RunsBy, V, n, z

(* A text that has no apostrophe is not marked.                                *)
Bar(S) == Tick \notin S /\ S \cap Marks = {}
LEMMA NothingMarked ==
  ASSUME NEW S, Bar(S), NEW text \in Seq(S)
  PROVE  Marked(text) = text
<1>1. \A i \in DOMAIN text : ~ CharacterAt(text, i) /\ ~ LifetimeAt(text, i)
  <2>1. \A i \in DOMAIN text : text[i] \in S
    OBVIOUS
  <2> QED BY <2>1 DEF Bar, CharacterAt, LifetimeAt
<1>2. text = [i \in DOMAIN text |-> text[i]]
  OBVIOUS
<1> QED BY <1>1, <1>2 DEF Marked

(* Both scans with comments, and the one without.                              *)
Rule(S) == [p \in Modes \X S |-> StripStep(p[1], p[2])]
TokenRule(S) == [p \in Modes \X S |-> TokenStep(p[1], p[2])]
LEMMA RulesAre ==
  ASSUME NEW S, Bar(S)
  PROVE  /\ Rule(S) \in [Modes \X S -> Modes] /\ TokenRule(S) \in [Modes \X S -> Modes]
         /\ \A m \in Modes, s \in S : Rule(S)[<<m, s>>] = StripStep(m, s)
         /\ \A m \in Modes, s \in S : MaskStep(m, s) = StripStep(m, s)
         /\ \A m \in Modes, s \in S : TokenRule(S)[<<m, s>>] = TokenStep(m, s)
<1>1. \A s \in S : s \notin Marks
  BY DEF Bar
<1>2. \A m \in Modes, s \in S : /\ StripStep(m, s) \in Modes /\ TokenStep(m, s) \in Modes
                               /\ MaskStep(m, s) = StripStep(m, s)
  BY <1>1, StepTells
<1> QED BY <1>2 DEF Rule, TokenRule

LEMMA StripFollows ==
  ASSUME NEW S, Bar(S), NEW text \in Seq(S)
  PROVE  Follows(StripModes(text), text, Rule(S))
<1> DEFINE n == Len(text)  r == Rule(S)
           Good(g) == g = [i \in 0..n |-> IF i = 0 THEN <<Code>> ELSE StripThen(g[i - 1], text[i])]
<1>1. n \in Nat /\ r \in [Modes \X S -> Modes] /\ \A i \in 1..n : i - 1 \in 0..n /\ i \in 0..n /\ i # 0 /\ text[i] \in S
  <2>1. r \in [Modes \X S -> Modes]
    BY RulesAre
  <2> HIDE DEF r
  <2> QED BY <2>1
<1>2. ASSUME NEW a \in Seq(Modes) \ {<< >>}, NEW i \in 1..n
      PROVE  StripThen(a, text[i]) = Append(a, r[<<Last(a), text[i]>>])
  <2>1. Last(a) \in Modes /\ text[i] \in S
    BY <1>1, <1>2, LastIsMode
  <2>2. r[<<Last(a), text[i]>>] = StripStep(Last(a), text[i])
    BY <2>1, RulesAre
  <2> QED BY <2>2 DEF StripThen
<1> HIDE DEF r
<1>3. PICK g : RunsBy(g, text, r)
  BY <1>1, RunsExist
<1>4. g \in [0..n -> Seq(Modes) \ {<< >>}] /\ g[0] = <<Code>>
      /\ \A i \in 1..n : g[i] = Append(g[i - 1], r[<<Last(g[i - 1]), text[i]>>])
  BY <1>3 DEF RunsBy
<1>5. Good(g)
  <2>1. g = [i \in 0..n |-> g[i]]
    BY <1>4
  <2>2. \A i \in 0..n : g[i] = IF i = 0 THEN <<Code>> ELSE StripThen(g[i - 1], text[i])
    <3> SUFFICES ASSUME NEW i \in 0..n, i # 0 PROVE g[i] = StripThen(g[i - 1], text[i])
      BY <1>4
    <3>1. i \in 1..n /\ i - 1 \in 0..n
      BY <1>1
    <3>2. g[i - 1] \in Seq(Modes) \ {<< >>}
      BY <1>4, <3>1
    <3> QED BY <1>2, <1>4, <3>1, <3>2
  <2>3. [i \in 0..n |-> g[i]] = [i \in 0..n |-> IF i = 0 THEN <<Code>> ELSE StripThen(g[i - 1], text[i])]
    <3> HIDE DEF n
    <3> QED BY <2>2
  <2> QED BY <2>1, <2>3
<1> DEFINE j == CHOOSE j : Good(j)
<1>6. Good(j)
  <2> HIDE DEF Good
  <2> QED BY <1>5
<1>7. StripModes(text) = j[n]
  BY DEF StripModes
<1> HIDE DEF j
<1>8. RunsBy(j, text, r)
  <2>1. DOMAIN j = 0..n /\ j = [i \in 0..n |-> j[i]] /\ j[0] = <<Code>>
    BY <1>1, <1>6
  <2>2. ASSUME NEW i \in 1..n, j[i - 1] \in Seq(Modes) \ {<< >>}
        PROVE  j[i] = Append(j[i - 1], r[<<Last(j[i - 1]), text[i]>>])
    <3>1. \A k \in 0..n : j[k] = IF k = 0 THEN <<Code>> ELSE StripThen(j[k - 1], text[k])
      BY <1>6
    <3>2. j[i] = StripThen(j[i - 1], text[i])
      BY <1>1, <3>1
    <3> QED BY <1>2, <2>2, <3>2
  <2> QED BY <1>1, <2>1, <2>2, RunsAre
<1>9. Follows(j[n], text, r)
  BY <1>1, <1>8, RunsFollow
<1> QED BY <1>7, <1>9 DEF r

LEMMA MaskFollows ==
  ASSUME NEW S, Bar(S), NEW text \in Seq(S)
  PROVE  Follows(MaskModes(text), text, Rule(S))
<1> DEFINE n == Len(text)  r == Rule(S)  mk == Marked(text)
           Good(g) == g = [i \in 0..n |-> IF i = 0 THEN <<Code>> ELSE MaskThen(g[i - 1], mk[i])]
<1>1. n \in Nat /\ r \in [Modes \X S -> Modes] /\ \A i \in 1..n : i - 1 \in 0..n /\ i \in 0..n /\ i # 0 /\ text[i] \in S
  <2>1. r \in [Modes \X S -> Modes]
    BY RulesAre
  <2> HIDE DEF r
  <2> QED BY <2>1
<1>0. mk = text
  BY NothingMarked
<1> HIDE DEF mk
<1>2. ASSUME NEW a \in Seq(Modes) \ {<< >>}, NEW i \in 1..n
      PROVE  MaskThen(a, mk[i]) = Append(a, r[<<Last(a), text[i]>>])
  <2>1. Last(a) \in Modes /\ text[i] \in S
    BY <1>1, <1>2, LastIsMode
  <2>2. r[<<Last(a), text[i]>>] = StripStep(Last(a), text[i])
    BY <2>1, RulesAre
  <2>3. MaskStep(Last(a), text[i]) = StripStep(Last(a), text[i])
    <3> HIDE DEF r
    <3> QED BY <2>1, RulesAre, ZenonT(60)
  <2> QED BY <1>0, <2>2, <2>3 DEF MaskThen
<1> HIDE DEF r
<1>3. PICK g : RunsBy(g, text, r)
  BY <1>1, RunsExist
<1>4. g \in [0..n -> Seq(Modes) \ {<< >>}] /\ g[0] = <<Code>>
      /\ \A i \in 1..n : g[i] = Append(g[i - 1], r[<<Last(g[i - 1]), text[i]>>])
  BY <1>3 DEF RunsBy
<1>5. Good(g)
  <2>1. g = [i \in 0..n |-> g[i]]
    BY <1>4
  <2>2. \A i \in 0..n : g[i] = IF i = 0 THEN <<Code>> ELSE MaskThen(g[i - 1], mk[i])
    <3> SUFFICES ASSUME NEW i \in 0..n, i # 0 PROVE g[i] = MaskThen(g[i - 1], mk[i])
      BY <1>4
    <3>1. i \in 1..n /\ i - 1 \in 0..n
      BY <1>1
    <3>2. g[i - 1] \in Seq(Modes) \ {<< >>}
      BY <1>4, <3>1
    <3> QED BY <1>2, <1>4, <3>1, <3>2
  <2>3. [i \in 0..n |-> g[i]] = [i \in 0..n |-> IF i = 0 THEN <<Code>> ELSE MaskThen(g[i - 1], mk[i])]
    <3> HIDE DEF n
    <3> QED BY <2>2
  <2> QED BY <2>1, <2>3
<1> DEFINE j == CHOOSE j : Good(j)
<1>6. Good(j)
  <2> HIDE DEF Good
  <2> QED BY <1>5
<1>7. MaskModes(text) = j[n]
  BY DEF MaskModes, mk
<1> HIDE DEF j
<1>8. RunsBy(j, text, r)
  <2>1. DOMAIN j = 0..n /\ j = [i \in 0..n |-> j[i]] /\ j[0] = <<Code>>
    BY <1>1, <1>6
  <2>2. ASSUME NEW i \in 1..n, j[i - 1] \in Seq(Modes) \ {<< >>}
        PROVE  j[i] = Append(j[i - 1], r[<<Last(j[i - 1]), text[i]>>])
    <3>1. \A k \in 0..n : j[k] = IF k = 0 THEN <<Code>> ELSE MaskThen(j[k - 1], mk[k])
      BY <1>6
    <3>2. j[i] = MaskThen(j[i - 1], mk[i])
      BY <1>1, <3>1
    <3> QED BY <1>2, <2>2, <3>2
  <2> QED BY <1>1, <2>1, <2>2, RunsAre
<1>9. Follows(j[n], text, r)
  BY <1>1, <1>8, RunsFollow
<1> QED BY <1>7, <1>9 DEF r

LEMMA TokensFollow ==
  ASSUME NEW S, Bar(S), NEW text \in Seq(S)
  PROVE  Follows(TokenModes(text), text, TokenRule(S))
<1> DEFINE n == Len(text)  r == TokenRule(S)  mk == Marked(text)
           Good(g) == g = [i \in 0..n |-> IF i = 0 THEN <<Code>> ELSE TokenThen(g[i - 1], mk[i])]
<1>1. n \in Nat /\ r \in [Modes \X S -> Modes] /\ \A i \in 1..n : i - 1 \in 0..n /\ i \in 0..n /\ i # 0 /\ text[i] \in S
  <2>1. r \in [Modes \X S -> Modes]
    BY RulesAre
  <2> HIDE DEF r
  <2> QED BY <2>1
<1>0. mk = text
  BY NothingMarked
<1> HIDE DEF mk
<1>2. ASSUME NEW a \in Seq(Modes) \ {<< >>}, NEW i \in 1..n
      PROVE  TokenThen(a, mk[i]) = Append(a, r[<<Last(a), text[i]>>])
  <2>1. Last(a) \in Modes /\ text[i] \in S
    BY <1>1, <1>2, LastIsMode
  <2>2. r[<<Last(a), text[i]>>] = TokenStep(Last(a), text[i])
    BY <2>1, RulesAre
  <2> QED BY <1>0, <2>2 DEF TokenThen
<1> HIDE DEF r
<1>3. PICK g : RunsBy(g, text, r)
  BY <1>1, RunsExist
<1>4. g \in [0..n -> Seq(Modes) \ {<< >>}] /\ g[0] = <<Code>>
      /\ \A i \in 1..n : g[i] = Append(g[i - 1], r[<<Last(g[i - 1]), text[i]>>])
  BY <1>3 DEF RunsBy
<1>5. Good(g)
  <2>1. g = [i \in 0..n |-> g[i]]
    BY <1>4
  <2>2. \A i \in 0..n : g[i] = IF i = 0 THEN <<Code>> ELSE TokenThen(g[i - 1], mk[i])
    <3> SUFFICES ASSUME NEW i \in 0..n, i # 0 PROVE g[i] = TokenThen(g[i - 1], mk[i])
      BY <1>4
    <3>1. i \in 1..n /\ i - 1 \in 0..n
      BY <1>1
    <3>2. g[i - 1] \in Seq(Modes) \ {<< >>}
      BY <1>4, <3>1
    <3> QED BY <1>2, <1>4, <3>1, <3>2
  <2>3. [i \in 0..n |-> g[i]] = [i \in 0..n |-> IF i = 0 THEN <<Code>> ELSE TokenThen(g[i - 1], mk[i])]
    <3> HIDE DEF n
    <3> QED BY <2>2
  <2> QED BY <2>1, <2>3
<1> DEFINE j == CHOOSE j : Good(j)
<1>6. Good(j)
  <2> HIDE DEF Good
  <2> QED BY <1>5
<1>7. TokenModes(text) = j[n]
  BY DEF TokenModes, mk
<1> HIDE DEF j
<1>8. RunsBy(j, text, r)
  <2>1. DOMAIN j = 0..n /\ j = [i \in 0..n |-> j[i]] /\ j[0] = <<Code>>
    BY <1>1, <1>6
  <2>2. ASSUME NEW i \in 1..n, j[i - 1] \in Seq(Modes) \ {<< >>}
        PROVE  j[i] = Append(j[i - 1], r[<<Last(j[i - 1]), text[i]>>])
    <3>1. \A k \in 0..n : j[k] = IF k = 0 THEN <<Code>> ELSE TokenThen(j[k - 1], mk[k])
      BY <1>6
    <3>2. j[i] = TokenThen(j[i - 1], mk[i])
      BY <1>1, <3>1
    <3> QED BY <1>2, <2>2, <3>2
  <2> QED BY <1>1, <2>1, <2>2, RunsAre
<1>9. Follows(j[n], text, r)
  BY <1>1, <1>8, RunsFollow
<1> QED BY <1>7, <1>9 DEF r

(* There is one way to follow a rule.                                          *)
LEMMA FollowsOnce ==
  ASSUME NEW S, NEW text \in Seq(S), NEW rule, NEW a, NEW b,
         Follows(a, text, rule), Follows(b, text, rule)
  PROVE  a = b
<1> DEFINE n == Len(text)
           T == {k \in Nat : k <= n => a[k + 1] = b[k + 1]}
<1>1. /\ n \in Nat /\ a \in Seq(Modes) /\ b \in Seq(Modes) /\ Len(a) = n + 1 /\ Len(b) = n + 1
      /\ a[1] = b[1]
      /\ \A i \in 1..n : a[i + 1] = rule[<<a[i], text[i]>>] /\ b[i + 1] = rule[<<b[i], text[i]>>]
  BY DEF Follows
<1>2. 0 \in T
  BY <1>1
<1>3. ASSUME NEW k \in T PROVE k + 1 \in T
  <2> SUFFICES ASSUME k + 1 <= n PROVE a[(k + 1) + 1] = b[(k + 1) + 1]
    OBVIOUS
  <2>1. k + 1 \in 1..n /\ a[k + 1] = b[k + 1]
    BY <1>1
  <2> QED BY <1>1, <2>1
<1>4. T = Nat
  <2> HIDE DEF T
  <2>1. T \in SUBSET Nat
    BY DEF T
  <2> QED BY <1>2, <1>3, <2>1, NumberInduction
<1>5. ASSUME NEW i \in 1..(n + 1) PROVE a[i] = b[i]
  <2>1. i - 1 \in Nat /\ i - 1 <= n /\ (i - 1) + 1 = i
    BY <1>1
  <2>2. i - 1 \in T
    <3> HIDE DEF T
    <3> QED BY <1>4, <2>1
  <2> HIDE DEF n
  <2> QED BY <2>1, <2>2
<1> QED BY <1>1, <1>5

(* What At takes, by a list of the places.                                     *)
Takes(P, s, V) ==
  \E e : /\ Lists(e, P \cap DOMAIN s) /\ e = InOrder(P, s)
        /\ At(P, s, 0) \in Seq(V) /\ Len(At(P, s, 0)) = Len(e)
        /\ \A k \in 1..Len(e) : e[k] \in 1..Len(s) /\ e[k] \in P /\ At(P, s, 0)[k] = s[e[k]]
LEMMA AtIs ==
  ASSUME NEW S, NEW P, NEW s \in Seq(S)
  PROVE  Takes(P, s, S)
<1> DEFINE e == InOrder(P, s)  n == Len(e)  f == [k \in DOMAIN e |-> s[e[k] + 0]]
<1>1. Lists(e, P \cap DOMAIN s)
  BY InOrderLists
<1>2. At(P, s, 0) = f
  BY DEF At
<1> HIDE DEF e
<1>3. e \in Seq(Nat) /\ n \in Nat /\ DOMAIN e = 1..n
  BY <1>1 DEF Lists
<1>4. \A k \in 1..n : e[k] \in P \cap DOMAIN s
  BY <1>1 DEF Lists
<1>5. \A k \in 1..n : e[k] \in 1..Len(s) /\ e[k] \in P /\ s[e[k]] \in S /\ e[k] + 0 = e[k]
  BY <1>4
<1>6. f = [k \in 1..n |-> s[e[k]]]
  <2> HIDE DEF n
  <2> QED BY <1>3, <1>5
<1>7. f \in [1..n -> S]
  <2> HIDE DEF n
  <2> QED BY <1>5, <1>6
<1>8. f \in Seq(S) /\ Len(f) = n /\ \A k \in 1..n : f[k] = s[e[k]]
  <2> HIDE DEF n
  <2>1. \A k \in 1..n : f[k] = s[e[k]]
    BY <1>6
  <2> HIDE DEF f
  <2>2. f \in Seq(S)
    BY <1>3, <1>7
  <2> QED BY <1>3, <1>7, <2>1, <2>2
<1> HIDE DEF f
<1> QED BY <1>1, <1>2, <1>5, <1>8 DEF e, Takes

(* Where a list has no member between two of its own.                          *)
LEMMA ListsGap ==
  ASSUME NEW e, NEW Q, Lists(e, Q), NEW k \in 1..Len(e)
  PROVE  /\ k = 1 => \A i \in Q : i >= e[k]
         /\ k + 1 <= Len(e) => e[k] < e[k + 1] /\ \A i \in Q : i > e[k] => i >= e[k + 1]
<1>1. e \in Seq(Nat) /\ Len(e) \in Nat /\ \A l \in 1..Len(e) : e[l] \in Nat
  BY DEF Lists
<1> DEFINE n == Len(e)
<1>2. \A x, y \in 1..n : x < y => e[x] < e[y]
  BY DEF Lists
<1>3. \A i \in Q : \E l \in 1..n : e[l] = i
  BY DEF Lists
<1>4. n \in Nat /\ \A l \in 1..n : e[l] \in Nat
  BY <1>1
<1> HIDE DEF n
<1>5. k \in 1..n
  BY DEF n
<1>6. ASSUME k = 1, NEW i \in Q PROVE i >= e[k]
  <2>1. PICK l \in 1..n : e[l] = i
    BY <1>3
  <2>2. l = k \/ k < l
    BY <1>4, <1>6
  <2> QED BY <1>2, <1>4, <1>5, <2>1, <2>2
<1>7. ASSUME k + 1 <= n PROVE e[k] < e[k + 1]
  <2>1. k + 1 \in 1..n /\ k < k + 1
    BY <1>4, <1>5, <1>7
  <2> QED BY <1>2, <1>5, <2>1
<1>8. ASSUME k + 1 <= n, NEW i \in Q, i > e[k] PROVE i >= e[k + 1]
  <2>1. PICK l \in 1..n : e[l] = i
    BY <1>3
  <2>2. k + 1 \in 1..n
    BY <1>4, <1>5, <1>8
  <2>3. ~ (l < k) /\ l # k
    BY <1>2, <1>4, <1>5, <1>8, <2>1
  <2>4. l = k + 1 \/ k + 1 < l
    BY <1>4, <1>5, <2>3
  <2> QED BY <1>2, <1>4, <2>1, <2>2, <2>4
<1> QED BY <1>6, <1>7, <1>8 DEF n

-----------------------------------------------------------------------------
(* Places of the text that is kept: all that is not hidden.                    *)
Kept(text, modes) ==
  {i \in DOMAIN text : text[i] = EOL \/ ~(InComment(modes[i]) \/ InComment(modes[i + 1]))}

LEMMA KeptTells ==
  ASSUME NEW S, Bar(S), NEW text \in Seq(S), NEW M, Follows(M, text, Rule(S)), NEW i \in 1..Len(text)
  PROVE  /\ M[i] \in Modes /\ M[i + 1] = StripStep(M[i], text[i]) /\ M[i + 1] \in Modes
         /\ i \in Kept(text, M) => Bare(M[i + 1]) = TokenStep(Bare(M[i]), text[i])
         /\ i \in Kept(text, M) /\ text[i] # EOL => Bare(M[i]) = M[i] /\ Bare(M[i + 1]) = M[i + 1]
         /\ i \notin Kept(text, M) => Bare(M[i + 1]) = Bare(M[i]) /\ ~ (M[i] = Code /\ M[i + 1] = Code)
<1>0. \A s \in S : s \notin Marks
  BY DEF Bar
<1>1. M[i] \in Modes /\ M[i + 1] \in Modes /\ text[i] \in S
  <2>1. M \in Seq(Modes) /\ Len(M) = Len(text) + 1 /\ i \in 1..Len(M) /\ i + 1 \in 1..Len(M)
    BY DEF Follows
  <2> QED BY <2>1
<1>2. M[i + 1] = StripStep(M[i], text[i])
  <2>1. M[i + 1] = Rule(S)[<<M[i], text[i]>>]
    BY DEF Follows
  <2> QED BY <1>1, <2>1, RulesAre
<1>3. i \in Kept(text, M) <=> ~ Passed(M[i], text[i])
  <2>1. i \in DOMAIN text
    OBVIOUS
  <2> QED BY <1>2, <2>1 DEF Kept, Passed
<1>4. ~ InComment(Code)
  BY InModes DEF InComment
<1>5. i \in Kept(text, M) => Bare(M[i + 1]) = TokenStep(Bare(M[i]), text[i])
  BY <1>0, <1>1, <1>2, <1>3, StepTells
<1>6. i \notin Kept(text, M) => Bare(M[i + 1]) = Bare(M[i])
  BY <1>0, <1>1, <1>2, <1>3, StepTells
<1>7. i \notin Kept(text, M) => InComment(M[i]) \/ InComment(M[i + 1])
  BY <1>2, <1>3 DEF Passed
<1>8. i \in Kept(text, M) /\ text[i] # EOL => ~ InComment(M[i]) /\ ~ InComment(M[i + 1])
  BY <1>2, <1>3 DEF Passed
<1> QED BY <1>1, <1>2, <1>4, <1>5, <1>6, <1>7, <1>8 DEF Bare

(* Over what is hidden nothing changes but comments.                           *)
LEMMA HiddenKeeps ==
  ASSUME NEW S, Bar(S), NEW text \in Seq(S), NEW M, Follows(M, text, Rule(S)),
         NEW a \in 1..(Len(text) + 1), NEW b \in 1..(Len(text) + 1), a <= b,
         \A i \in Kept(text, M) : i >= a => i >= b
  PROVE  Bare(M[b]) = Bare(M[a])
<1> DEFINE n == Len(text)
           T == {d \in Nat : a + d <= b => Bare(M[a + d]) = Bare(M[a])}
<1>1. n \in Nat /\ a \in Nat /\ b \in Nat /\ a >= 1 /\ b <= n + 1
  OBVIOUS
<1>2. 0 \in T
  BY <1>1
<1>3. ASSUME NEW d \in T PROVE d + 1 \in T
  <2> SUFFICES ASSUME a + (d + 1) <= b PROVE Bare(M[a + (d + 1)]) = Bare(M[a])
    OBVIOUS
  <2> DEFINE i == a + d
  <2>1. d \in Nat /\ i \in 1..n /\ i + 1 = a + (d + 1) /\ a + d <= b /\ i >= a /\ ~ (i >= b)
    BY <1>1
  <2>2. Bare(M[i]) = Bare(M[a])
    BY <2>1
  <2> HIDE DEF i
  <2>3. i \notin Kept(text, M)
    BY <2>1
  <2>4. Bare(M[i + 1]) = Bare(M[i])
    BY <2>1, <2>3, KeptTells
  <2> QED BY <2>1, <2>2, <2>4
<1>4. T = Nat
  <2> HIDE DEF T
  <2>1. T \in SUBSET Nat
    BY DEF T
  <2> QED BY <1>2, <1>3, <2>1, NumberInduction
<1>5. b - a \in T /\ a + (b - a) = b
  <2>1. b - a \in Nat /\ a + (b - a) = b
    BY <1>1
  <2> HIDE DEF T
  <2> QED BY <1>4, <2>1
<1> QED BY <1>5

(* The scan of what is left stands where the one of all of it does.            *)
LEMMA ModesAgree ==
  ASSUME NEW S, Bar(S), NEW text \in Seq(S), NEW M, Follows(M, text, Rule(S)),
         NEW e, Lists(e, Kept(text, M)),
         NEW T \in Seq(S), Len(T) = Len(e), \A k \in 1..Len(e) : T[k] = text[e[k]],
         NEW C, Follows(C, T, TokenRule(S)),
         NEW k \in 1..Len(e)
  PROVE  C[k] = Bare(M[e[k]]) /\ C[k + 1] = Bare(M[e[k] + 1])
<1> DEFINE n == Len(e)
           U == {l \in Nat : l + 1 <= n => C[l + 1] = Bare(M[e[l + 1]])}
<1>1. n \in Nat /\ Len(text) \in Nat /\ \A l \in 1..n : e[l] \in 1..Len(text) /\ e[l] \in Kept(text, M)
  <2>1. n \in Nat
    BY DEF Lists
  <2>2. \A l \in 1..n : e[l] \in Kept(text, M)
    BY DEF Lists
  <2> QED BY <2>1, <2>2 DEF Kept
<1>2. Bare(M[1]) = Code /\ C[1] = Code
  BY InModes DEF Follows, Bare, InComment
<1>3. ASSUME NEW l \in 1..n, C[l] = Bare(M[e[l]]) PROVE C[l + 1] = Bare(M[e[l] + 1])
  <2>1. l \in 1..Len(T) /\ T[l] = text[e[l]] /\ T[l] \in S
    OBVIOUS
  <2>2. C[l + 1] = TokenRule(S)[<<C[l], T[l]>>]
    BY <2>1 DEF Follows
  <2>3. C[l] \in Modes
    <3>1. C \in Seq(Modes) /\ Len(C) = Len(T) + 1 /\ l \in 1..Len(C)
      BY <2>1 DEF Follows
    <3> QED BY <3>1
  <2>4. C[l + 1] = TokenStep(C[l], T[l])
    BY <2>1, <2>2, <2>3, RulesAre
  <2>5. Bare(M[e[l] + 1]) = TokenStep(Bare(M[e[l]]), text[e[l]])
    BY <1>1, KeptTells
  <2> QED BY <1>3, <2>1, <2>4, <2>5
<1>4. 0 \in U
  <2> SUFFICES ASSUME 1 <= n PROVE C[0 + 1] = Bare(M[e[0 + 1]])
    OBVIOUS
  <2>1. 1 \in 1..n /\ 0 + 1 = 1 /\ e[1] \in 1..Len(text)
    BY <1>1
  <2>2. \A i \in Kept(text, M) : i >= e[1]
    BY <2>1, ListsGap
  <2>3. Bare(M[e[1]]) = Bare(M[1])
    <3>1. e[1] \in 1..(Len(text) + 1) /\ 1 \in 1..(Len(text) + 1) /\ 1 <= e[1]
      BY <2>1, <1>1
    <3> QED BY <3>1, <2>2, HiddenKeeps
  <2> QED BY <1>2, <2>1, <2>3
<1>5. ASSUME NEW l \in U PROVE l + 1 \in U
  <2> SUFFICES ASSUME (l + 1) + 1 <= n PROVE C[(l + 1) + 1] = Bare(M[e[(l + 1) + 1]])
    OBVIOUS
  <2> DEFINE q == l + 1
  <2>1. q \in 1..n /\ q + 1 \in 1..n /\ q + 1 <= Len(e) /\ C[q] = Bare(M[e[q]])
    BY <1>1
  <2> HIDE DEF q
  <2>2. C[q + 1] = Bare(M[e[q] + 1])
    BY <1>3, <2>1
  <2>3. e[q] < e[q + 1] /\ \A i \in Kept(text, M) : i > e[q] => i >= e[q + 1]
    BY <2>1, ListsGap
  <2>4. e[q] \in 1..Len(text) /\ e[q + 1] \in 1..Len(text)
    BY <1>1, <2>1
  <2>5. Bare(M[e[q + 1]]) = Bare(M[e[q] + 1])
    <3> DEFINE x == e[q] + 1  y == e[q + 1]
    <3>1. x \in 1..(Len(text) + 1) /\ y \in 1..(Len(text) + 1) /\ x <= y
      <4> DEFINE u == e[q]  v == e[q + 1]  m == Len(text)
      <4>1. u \in 1..m /\ v \in 1..m /\ u < v /\ m \in Nat
        BY <1>1, <2>3, <2>4
      <4> HIDE DEF u, v, m
      <4>2. u + 1 \in 1..(m + 1) /\ v \in 1..(m + 1) /\ u + 1 <= v
        BY <4>1
      <4> QED BY <4>2 DEF u, v, m
    <3>2. \A i \in Kept(text, M) : i >= x => i >= y
      <4>1. \A i \in Kept(text, M) : i \in Nat
        BY DEF Kept
      <4> QED BY <2>3, <2>4, <4>1
    <3> HIDE DEF x, y
    <3>3. Bare(M[y]) = Bare(M[x])
      BY <3>1, <3>2, HiddenKeeps
    <3> QED BY <3>3 DEF x, y
  <2> QED BY <2>2, <2>5 DEF q
<1>6. U = Nat
  <2> HIDE DEF U
  <2>1. U \in SUBSET Nat
    BY DEF U
  <2> QED BY <1>4, <1>5, <2>1, NumberInduction
<1>7. C[k] = Bare(M[e[k]])
  <2>1. k - 1 \in Nat /\ (k - 1) + 1 = k /\ k <= n
    BY <1>1
  <2>2. k - 1 \in U
    <3> HIDE DEF U
    <3> QED BY <1>6, <2>1
  <2> HIDE DEF n
  <2> QED BY <2>1, <2>2
<1> QED BY <1>3, <1>7

(* What stands in code, before and after; and what a list has at the places.  *)
InCode(text, modes) ==
  {i \in DOMAIN text : ~ IsSpace(text[i]) /\ modes[i] = Code /\ modes[i + 1] = Code}
Picked(e, R) == {e[k] : k \in R}

(* The code of what is left is the code of the text.                          *)
LEMMA CodeIsListed ==
  ASSUME NEW S, Bar(S), NEW text \in Seq(S), NEW M, Follows(M, text, Rule(S)),
         NEW e, Lists(e, Kept(text, M)),
         NEW T \in Seq(S), Len(T) = Len(e), \A k \in 1..Len(e) : T[k] = text[e[k]],
         NEW C, Follows(C, T, TokenRule(S))
  PROVE  Picked(e, InCode(T, C)) = InCode(text, M)
<1> DEFINE Q == {i \in DOMAIN text : ~ IsSpace(text[i]) /\ M[i] = Code /\ M[i + 1] = Code}
           R == {k \in 1..Len(e) : ~ IsSpace(T[k]) /\ C[k] = Code /\ C[k + 1] = Code}
<1>1. ASSUME NEW k \in R PROVE e[k] \in Q
  <2>1. k \in 1..Len(e) /\ ~ IsSpace(T[k]) /\ C[k] = Code /\ C[k + 1] = Code
    OBVIOUS
  <2>2. e[k] \in Kept(text, M)
    BY <2>1 DEF Lists
  <2>3. e[k] \in 1..Len(text) /\ ~ IsSpace(text[e[k]]) /\ text[e[k]] # EOL /\ e[k] \in DOMAIN text
    BY <2>1, <2>2 DEF Kept, IsSpace
  <2>4. Bare(M[e[k]]) = M[e[k]] /\ Bare(M[e[k] + 1]) = M[e[k] + 1]
    BY <2>2, <2>3, KeptTells
  <2>5. C[k] = Bare(M[e[k]]) /\ C[k + 1] = Bare(M[e[k] + 1])
    BY <2>1, ModesAgree
  <2> QED BY <2>1, <2>3, <2>4, <2>5
<1>2. ASSUME NEW i \in Q PROVE \E k \in R : e[k] = i
  <2>1. i \in 1..Len(text) /\ ~ IsSpace(text[i]) /\ M[i] = Code /\ M[i + 1] = Code
    OBVIOUS
  <2>2. i \in Kept(text, M)
    BY <2>1, KeptTells
  <2>3. PICK k \in 1..Len(e) : e[k] = i
    BY <2>2 DEF Lists
  <2>4. C[k] = Bare(M[e[k]]) /\ C[k + 1] = Bare(M[e[k] + 1])
    BY ModesAgree
  <2>5. Bare(Code) = Code
    BY DEF Bare
  <2> QED BY <2>1, <2>3, <2>4, <2>5
<1> HIDE DEF Q, R
<1>3. {e[k] : k \in R} = Q
  BY <1>1, <1>2
<1>4. InCode(text, M) = Q /\ InCode(T, C) = R
  BY DEF InCode, Q, R
<1> QED BY <1>3, <1>4 DEF Picked

(* Where no comment is right behind a word, nothing is joined.                *)
After(i, j) == j > i + 1
LEMMA GapsAreApart ==
  ASSUME NEW S, Bar(S), NEW text \in Seq(S), NEW M, Follows(M, text, Rule(S)), WordsApart(text),
         NEW e, Lists(e, Kept(text, M)), NEW k \in 2..Len(e), After(e[k - 1], e[k])
  PROVE  ~ IsName(text[e[k - 1]])
<1> DEFINE a == e[k - 1]
<1>1. k - 1 \in 1..Len(e) /\ (k - 1) + 1 = k /\ (k - 1) + 1 <= Len(e) /\ Len(e) \in Nat
  BY DEF Lists
<1>2. a \in Kept(text, M) /\ e[k] \in Kept(text, M)
  BY <1>1 DEF Lists
<1>3. a \in 1..Len(text) /\ e[k] \in 1..Len(text) /\ a + 1 < e[k] /\ Len(text) \in Nat
  <2>1. \A i \in Kept(text, M) : i \in 1..Len(text)
    BY DEF Kept
  <2>2. a + 1 < e[k]
    BY <1>2, <2>1 DEF After
  <2> QED BY <1>2, <2>1, <2>2
<1>4. \A i \in Kept(text, M) : i > a => i >= e[k]
  BY <1>1, ListsGap
<1> HIDE DEF a
<1>5. a + 1 \in 1..Len(text) /\ a + 1 \notin Kept(text, M) /\ a \in 1..(Len(text) - 1)
  BY <1>3, <1>4
<1>6. CASE text[a] = EOL
  BY <1>6 DEF IsName, a
<1>7. CASE text[a] # EOL
  <2>1. ~ InComment(M[a + 1]) /\ text[a + 1] # EOL
    BY <1>2, <1>5, <1>7 DEF Kept
  <2>2. InComment(M[(a + 1) + 1])
    BY <1>5, <2>1 DEF Kept
  <2>3. M[a + 1] \in Modes /\ M[(a + 1) + 1] = StripStep(M[a + 1], text[a + 1])
    BY <1>5, KeptTells
  <2>4. text[a + 1] \in {"//", "/*"}
    <3> SUFFICES ASSUME text[a + 1] \notin {"//", "/*"} PROVE FALSE
      OBVIOUS
    <3> DEFINE m == M[a + 1]  s == text[a + 1]
    <3>1. ~ InComment(LiteralStep(m, s)) /\ ~ InComment(LiteralOpened(s))
      BY <2>1, InModes DEF LiteralStep, LiteralOpened, InComment
    <3>2. StripStep(m, s) = LiteralStep(m, s) \/ StripStep(m, s) = LiteralOpened(s)
      BY <2>1 DEF StripStep, Opened
    <3> QED BY <2>2, <2>3, <3>1, <3>2
  <2> QED BY <1>5, <2>4 DEF WordsApart, a
<1> QED BY <1>6, <1>7

Piece(text, i) == [value |-> text[i], at |-> i]
PiecesTo(text, e, k) == [l \in 1..k |-> Piece(text, e[l])]
LEMMA ApartAsTheyAre ==
  ASSUME NEW text, NEW e \in Seq(Nat),
         \A k \in 2..Len(e) : After(e[k - 1], e[k]) => ~ IsName(text[e[k - 1]])
  PROVE  Pieced(text, e, After) = PiecesTo(text, e, Len(e))
<1> DEFINE n == Len(e)
           By(g, k) == PiecedThen(g[k - 1], text[e[k]], e[k], k > 1 /\ After(e[k - 1], e[k]))
           Good(g) == g = [k \in 0..n |-> IF k = 0 THEN << >> ELSE By(g, k)]
           W == [k \in 0..n |-> PiecesTo(text, e, k)]
           j == CHOOSE j : Good(j)
           T == {k \in Nat : k <= n => j[k] = W[k]}
<1>1. n \in Nat
  OBVIOUS
<1>2. W[0] = << >> /\ \A k \in 0..n : W[k] = PiecesTo(text, e, k)
  BY <1>1 DEF PiecesTo
<1>3. ASSUME NEW k \in 1..n PROVE By(W, k) = W[k]
  <2> DEFINE w == W[k - 1]  x == Piece(text, e[k])
  <2>1. k - 1 \in 0..n /\ k \in 0..n /\ k - 1 \in Nat /\ k \in Nat
    BY <1>1
  <2>2. w = PiecesTo(text, e, k - 1) /\ W[k] = PiecesTo(text, e, k)
    BY <1>2, <2>1
  <2>3. w \in Seq({Piece(text, e[l]) : l \in 1..k}) /\ Len(w) = k - 1 /\ \A l \in 1..(k - 1) : w[l] = Piece(text, e[l])
    BY <2>1, <2>2 DEF PiecesTo
  <2> HIDE DEF W
  <2>4. ~ (k > 1 /\ After(e[k - 1], e[k]) /\ IsName(text[e[k]]) /\ IsName(Last(w).value))
    <3> SUFFICES ASSUME k > 1, After(e[k - 1], e[k]), IsName(Last(w).value) PROVE FALSE
      OBVIOUS
    <3>1. k \in 2..n /\ k - 1 \in 1..(k - 1)
      BY <2>1
    <3>2. Last(w) = Piece(text, e[k - 1])
      BY <2>3, <3>1 DEF Last
    <3>3. Last(w).value = text[e[k - 1]]
      BY <3>2 DEF Piece
    <3> QED BY <3>1, <3>3
  <2>5. By(W, k) = Append(w, x)
    BY <2>4 DEF PiecedThen, Piece
  <2>6. Append(w, x) = PiecesTo(text, e, k)
    <3>1. Len(Append(w, x)) = k /\ \A l \in 1..k : Append(w, x)[l] = Piece(text, e[l])
      <4>1. x \in {Piece(text, e[l]) : l \in 1..k}
        BY <2>1
      <4> HIDE DEF w, x
      <4>2. Len(Append(w, x)) = k /\ (\A l \in 1..(k - 1) : Append(w, x)[l] = w[l]) /\ Append(w, x)[k] = x
        BY <2>1, <2>3, <4>1
      <4>3. \A l \in 1..k : l \in 1..(k - 1) \/ l = k
        BY <2>1
      <4> QED BY <2>3, <4>2, <4>3 DEF x
    <3>2. Append(w, x) \in Seq({Piece(text, e[l]) : l \in 1..k})
      <4>1. x \in {Piece(text, e[l]) : l \in 1..k}
        BY <2>1
      <4> HIDE DEF w, x
      <4> QED BY <2>3, <4>1
    <3> HIDE DEF w, x
    <3> DEFINE y == Append(w, x)
    <3>3. y = [l \in 1..k |-> y[l]]
      <4> DEFINE Z == {Piece(text, e[l]) : l \in 1..k}
      <4>1. y \in Seq(Z) /\ Len(y) = k
        BY <3>1, <3>2
      <4> HIDE DEF y, Z
      <4> QED BY <2>1, <4>1
    <3> HIDE DEF y
    <3> QED BY <3>1, <3>3 DEF y, PiecesTo
  <2> QED BY <2>2, <2>5, <2>6
<1>4. Good(W)
  <2>1. \A k \in 0..n : W[k] = IF k = 0 THEN << >> ELSE By(W, k)
    <3> SUFFICES ASSUME NEW k \in 0..n, k # 0 PROVE W[k] = By(W, k)
      BY <1>2
    <3>1. k \in 1..n
      BY <1>1
    <3> HIDE DEF W, By, n
    <3> QED BY <1>3, <3>1
  <2>2. W = [k \in 0..n |-> W[k]]
    OBVIOUS
  <2> HIDE DEF W, By, n
  <2> QED BY <2>1, <2>2
<1>5. Good(j)
  <2> HIDE DEF Good
  <2> QED BY <1>4
<1>6. Pieced(text, e, After) = j[n]
  BY DEF Pieced
<1> HIDE DEF j
<1>7. \A k \in 0..n : j[k] = IF k = 0 THEN << >> ELSE By(j, k)
  BY <1>5
<1>8. 0 \in T
  BY <1>1, <1>2, <1>7
<1>9. ASSUME NEW k \in T PROVE k + 1 \in T
  <2> SUFFICES ASSUME k + 1 <= n PROVE j[k + 1] = W[k + 1]
    OBVIOUS
  <2>1. k \in Nat /\ k + 1 \in 1..n /\ k + 1 \in 0..n /\ k + 1 # 0 /\ (k + 1) - 1 = k /\ k <= n
    BY <1>1
  <2>2. j[k] = W[k]
    BY <2>1
  <2>3. j[k + 1] = By(j, k + 1)
    BY <1>7, <2>1
  <2>4. By(j, k + 1) = By(W, k + 1)
    <3>1. j[(k + 1) - 1] = W[(k + 1) - 1]
      BY <2>1, <2>2
    <3> HIDE DEF W
    <3> QED BY <3>1
  <2> HIDE DEF W, By
  <2> QED BY <1>3, <2>1, <2>3, <2>4
<1>10. T = Nat
  <2> HIDE DEF T
  <2>1. T \in SUBSET Nat
    BY DEF T
  <2> QED BY <1>8, <1>9, <2>1, NumberInduction
<1>11. j[n] = W[n]
  <2>1. n \in T
    BY <1>1, <1>10
  <2> HIDE DEF W, n
  <2> QED BY <1>1, <2>1
<1> QED BY <1>1, <1>2, <1>6, <1>11

(* So what is left of such a text are its kept symbols.                       *)
LEMMA LeftAsItWas ==
  ASSUME NEW S, Bar(S), NEW text \in Seq(S), WordsApart(text)
  PROVE  StripComments(text) = At(Kept(text, StripModes(text)), text, 0)
<1> DEFINE M == StripModes(text)  K == Kept(text, M)  e == InOrder(K, text)
           left == InOrder({i \in DOMAIN text : ~ Hidden(text, M, i)}, text)
<1>1. left = e
  <2>1. {i \in DOMAIN text : ~ Hidden(text, M, i)} = K
    BY DEF Hidden, Kept
  <2> QED BY <2>1
<1>2. StripComments(text) = Values(Pieced(text, left, After))
  BY DEF StripComments, Pieced, After
<1>3. Follows(M, text, Rule(S))
  BY StripFollows
<1>4. Lists(e, K)
  <2>1. K \cap DOMAIN text = K
    BY DEF Kept
  <2> HIDE DEF K
  <2> QED BY <2>1, InOrderLists
<1>5. e \in Seq(Nat) /\ DOMAIN e = 1..Len(e)
  <2> HIDE DEF e, K
  <2> QED BY <1>4 DEF Lists
<1>6. \A k \in 2..Len(e) : After(e[k - 1], e[k]) => ~ IsName(text[e[k - 1]])
  <2> HIDE DEF M, e
  <2> QED BY <1>3, <1>4, GapsAreApart
<1>7. Pieced(text, e, After) = PiecesTo(text, e, Len(e))
  <2> HIDE DEF e
  <2> QED BY <1>5, <1>6, ApartAsTheyAre
<1>8. Values(PiecesTo(text, e, Len(e))) = [k \in 1..Len(e) |-> text[e[k]]]
  <2> HIDE DEF e
  <2> QED BY DEF Values, PiecesTo, Piece
<1>9. At(K, text, 0) = [k \in 1..Len(e) |-> text[e[k]]]
  <2>1. At(K, text, 0) = [k \in DOMAIN e |-> text[e[k] + 0]]
    BY DEF At
  <2>2. \A k \in 1..Len(e) : e[k] + 0 = e[k]
    <3> HIDE DEF e
    <3> QED BY <1>5
  <2> HIDE DEF e
  <2> QED BY <1>5, <2>1, <2>2
<1> HIDE DEF left, e, K, M
<1> QED BY <1>1, <1>2, <1>7, <1>8, <1>9 DEF K, M

(* Two scans of one text tell one story of its code.                          *)
LEMMA ScansTellOne ==
  ASSUME NEW S, Bar(S), "literal" \notin S, "lifetime" \notin S, NEW text \in Seq(S), WordsApart(text)
  PROVE  BarLiterals(Tokens(text)) = Values(TokenSpans(text))
<1> DEFINE M == StripModes(text)  T == StripComments(text)  C == TokenModes(T)
           A == {k \in DOMAIN T : ~ IsSpace(T[k]) /\ C[k] = Code}
           at == InOrder(A, T)
           tok == [k \in DOMAIN at |-> TokenAt(T, C[at[k] + 1], at[k])]
           B == {i \in DOMAIN tok : tok[i] \notin {"literal", "lifetime"}}
           N == At(B, tok, 0)
           Q == {i \in DOMAIN text : ~ IsSpace(text[i]) /\ M[i] = Code /\ M[i + 1] = Code}
           f == InOrder(Q, text)
           R == {k \in 1..Len(T) : ~ IsSpace(T[k]) /\ C[k] = Code /\ C[k + 1] = Code}
<1>1. Follows(M, text, Rule(S)) /\ MaskModes(text) = M
  BY StripFollows, MaskFollows, FollowsOnce
<1>2. T = At(Kept(text, M), text, 0)
  BY LeftAsItWas
<1>3. Tokens(text) = tok /\ BarLiterals(tok) = N
  BY DEF Tokens, TokensOf, BarLiterals
<1>4. Values(TokenSpans(text)) = Values([k \in DOMAIN f |-> [value |-> text[f[k]], at |-> f[k]]])
  BY <1>1 DEF TokenSpans, Unmasked
<1> HIDE DEF M, T
<1>5. PICK e : /\ Lists(e, Kept(text, M)) /\ T \in Seq(S) /\ Len(T) = Len(e)
               /\ \A k \in 1..Len(e) : e[k] \in 1..Len(text) /\ T[k] = text[e[k]]
  <2>1. Kept(text, M) \cap DOMAIN text = Kept(text, M)
    BY DEF Kept
  <2> DEFINE K == Kept(text, M)
  <2>2. K \cap DOMAIN text = K /\ T = At(K, text, 0)
    BY <1>2, <2>1
  <2> HIDE DEF K
  <2>3. Takes(K, text, S)
    BY AtIs
  <2>4. \E e : /\ Lists(e, K) /\ T \in Seq(S) /\ Len(T) = Len(e)
              /\ \A k \in 1..Len(e) : e[k] \in 1..Len(text) /\ T[k] = text[e[k]]
    BY <2>2, <2>3 DEF Takes
  <2> QED BY <2>4 DEF K
<1>6. Follows(C, T, TokenRule(S))
  BY <1>5, TokensFollow
<1> HIDE DEF C
<1>7. Lists(at, A)
  <2>1. A \cap DOMAIN T = A
    OBVIOUS
  <2> HIDE DEF A
  <2> QED BY <1>5, <2>1, InOrderLists
<1>8. \A k \in 1..Len(at) : at[k] \in A /\ at[k] \in 1..Len(T)
  <2>1. \A k \in 1..Len(at) : at[k] \in A
    <3> HIDE DEF A, at
    <3> QED BY <1>7 DEF Lists
  <2>2. \A k \in A : k \in 1..Len(T)
    BY <1>5
  <2> HIDE DEF A, at
  <2> QED BY <2>1, <2>2
<1>9. at \in Seq(Nat) /\ Len(at) \in Nat /\ DOMAIN at = 1..Len(at)
  <2> HIDE DEF A, at
  <2> QED BY <1>7 DEF Lists
<1>10. \A k \in 1..Len(at) : tok[k] = IF C[at[k] + 1] = Code THEN T[at[k]] ELSE "literal"
  <2> SUFFICES ASSUME NEW k \in 1..Len(at)
               PROVE  tok[k] = IF C[at[k] + 1] = Code THEN T[at[k]] ELSE "literal"
    OBVIOUS
  <2> DEFINE m == C[at[k] + 1]
  <2>1. C \in Seq(Modes) /\ Len(C) = Len(T) + 1 /\ Len(T) \in Nat
    BY <1>5, <1>6 DEF Follows
  <2>2. at[k] + 1 \in 1..Len(C)
    <3> HIDE DEF A, at
    <3> QED BY <1>8, <2>1
  <2>3. m \in Modes
    BY <2>1, <2>2
  <2>4. tok[k] = TokenAt(T, m, at[k])
    <3> HIDE DEF A, at
    <3> QED BY <1>9
  <2> HIDE DEF A, at, m
  <2>5. m # Code => m.kind # "lifetime"
    BY <2>3, ModesAre
  <2>6. CASE m = Code
    <3>1. m.kind # "lifetime"
      BY <2>6, InModes
    <3> QED BY <2>4, <2>6, <3>1 DEF TokenAt, m
  <2>7. CASE m # Code
    BY <2>4, <2>5, <2>7 DEF TokenAt, m
  <2> QED BY <2>6, <2>7
<1>11. \A k \in 1..Len(T) : T[k] \in S /\ T[k] \notin {"literal", "lifetime"}
  BY <1>5
<1>12. tok \in Seq(S \cup {"literal"}) /\ Len(tok) = Len(at) /\ DOMAIN tok = 1..Len(at)
  <2>1. DOMAIN tok = 1..Len(at) /\ tok = [k \in 1..Len(at) |-> tok[k]]
    <3> HIDE DEF A, at
    <3> QED BY <1>9
  <2> HIDE DEF A, at, tok
  <2>2. \A k \in 1..Len(at) : tok[k] \in S \cup {"literal"}
    BY <1>8, <1>10, <1>11
  <2>3. tok \in [1..Len(at) -> S \cup {"literal"}]
    BY <2>1, <2>2
  <2>4. tok \in Seq(S \cup {"literal"})
    BY <2>3, <1>9
  <2> QED BY <2>1, <2>4, <1>9
<1>13. B = {k \in 1..Len(at) : C[at[k] + 1] = Code}
  <2> HIDE DEF A, at, tok
  <2> QED BY <1>8, <1>10, <1>11, <1>12
<1> HIDE DEF tok
<1>14. PICK b : /\ Lists(b, B) /\ Len(N) = Len(b) /\ N \in Seq(S \cup {"literal"})
                /\ \A k \in 1..Len(b) : b[k] \in 1..Len(tok) /\ b[k] \in B /\ N[k] = tok[b[k]]
  <2>1. B \cap DOMAIN tok = B
    OBVIOUS
  <2>2. N = At(B, tok, 0)
    OBVIOUS
  <2> HIDE DEF B, N
  <2> DEFINE W == S \cup {"literal"}
  <2>3. tok \in Seq(W)
    BY <1>12
  <2> HIDE DEF W
  <2>4. Takes(B, tok, W)
    BY <2>3, AtIs
  <2>5. \E b : /\ Lists(b, B) /\ Len(N) = Len(b) /\ N \in Seq(W)
              /\ \A k \in 1..Len(b) : b[k] \in 1..Len(tok) /\ b[k] \in B /\ N[k] = tok[b[k]]
    BY <2>1, <2>2, <2>4 DEF Takes
  <2> QED BY <2>5 DEF W
<1> HIDE DEF N
<1> DEFINE h == [k \in 1..Len(b) |-> at[b[k]]]
<1>15. Lists(h, {at[i] : i \in B})
  <2>1. B \subseteq 1..Len(at)
    BY <1>13
  <2>2. Lists(at, A) /\ Lists(b, B)
    BY <1>7, <1>14
  <2> HIDE DEF at, A, B, h
  <2>3. Lists([k \in 1..Len(b) |-> at[b[k]]], {at[i] : i \in B})
    BY ONLY <2>1, <2>2, ListOfList
  <2> QED BY <2>3 DEF h
<1>16. {at[i] : i \in B} = R
  <2>1. ASSUME NEW i \in B PROVE at[i] \in R
    <3>1. i \in 1..Len(at) /\ C[at[i] + 1] = Code
      BY <1>13
    <3>2. at[i] \in A /\ at[i] \in 1..Len(T)
      BY <1>8, <3>1
    <3> QED BY <3>1, <3>2
  <2>2. ASSUME NEW k \in R PROVE \E i \in B : at[i] = k
    <3>1. k \in A /\ C[k + 1] = Code
      BY <1>5
    <3>2. PICK i \in 1..Len(at) : at[i] = k
      <4> HIDE DEF A, at
      <4> QED BY <3>1, <1>7 DEF Lists
    <3> HIDE DEF A, at, R
    <3> QED BY <1>13, <3>1, <3>2
  <2> HIDE DEF at, B, R
  <2> QED BY <2>1, <2>2
<1> HIDE DEF B
<1>17. Len(h) = Len(b) /\ Len(b) \in Nat /\ \A k \in 1..Len(b) : h[k] = at[b[k]]
  <2>1. Len(b) \in Nat
    BY <1>14 DEF Lists
  <2>2. h \in Seq(Nat) /\ DOMAIN h = 1..Len(b)
    <3> HIDE DEF at
    <3> QED BY <1>15 DEF Lists
  <2> HIDE DEF at
  <2> QED BY <2>1, <2>2
<1> HIDE DEF h
<1> DEFINE g == [k \in 1..Len(h) |-> e[h[k]]]
<1>18. Lists(g, {e[k] : k \in R})
  <2>1. R \subseteq 1..Len(e) /\ Lists(h, R)
    BY <1>5, <1>15, <1>16
  <2>2. Lists(e, Kept(text, M))
    BY <1>5
  <2> HIDE DEF R, g
  <2>3. Lists([k \in 1..Len(h) |-> e[h[k]]], {e[i] : i \in R})
    BY ONLY <2>1, <2>2, ListOfList
  <2> QED BY <2>3 DEF g
<1>19. {e[k] : k \in R} = Q
  <2>1. R = InCode(T, C) /\ Q = InCode(text, M)
    <3>1. DOMAIN T = 1..Len(T)
      BY <1>5
    <3> QED BY <3>1 DEF InCode
  <2>2. Picked(e, InCode(T, C)) = InCode(text, M)
    <3>1. /\ Len(T) = Len(e) /\ T \in Seq(S) /\ \A k \in 1..Len(e) : T[k] = text[e[k]]
          /\ Follows(M, text, Rule(S)) /\ Follows(C, T, TokenRule(S)) /\ Lists(e, Kept(text, M))
      BY <1>1, <1>5, <1>6
    <3> HIDE DEF Q, R
    <3> QED BY <3>1, CodeIsListed
  <2> HIDE DEF Q, R
  <2> QED BY <2>1, <2>2 DEF Picked
<1>20. Lists(f, Q)
  <2>1. Q \cap DOMAIN text = Q
    OBVIOUS
  <2> HIDE DEF Q
  <2> QED BY <2>1, InOrderLists
<1> HIDE DEF Q, R
<1>21. g = f
  <2> HIDE DEF f, g
  <2> QED BY <1>18, <1>19, <1>20, ListsAlike
<1>22. Len(f) = Len(b) /\ \A k \in 1..Len(b) : f[k] = e[at[b[k]]]
  <2>1. Len(g) = Len(h) /\ \A k \in 1..Len(h) : g[k] = e[h[k]]
    <3>1. g \in Seq(Nat) /\ DOMAIN g = 1..Len(h) /\ Len(h) \in Nat
      BY <1>17, <1>18 DEF Lists
    <3> QED BY <3>1
  <2> HIDE DEF f, g, at
  <2> QED BY <1>17, <1>21, <2>1
<1>23. f \in Seq(Nat) /\ DOMAIN f = 1..Len(b)
  <2>1. f \in Seq(Nat)
    BY <1>20 DEF Lists
  <2> HIDE DEF f
  <2> QED BY <1>22, <2>1
<1>24. \A k \in 1..Len(b) : N[k] = text[f[k]]
  <2> SUFFICES ASSUME NEW k \in 1..Len(b) PROVE N[k] = text[f[k]]
    OBVIOUS
  <2> HIDE DEF f, at, A
  <2>1. N[k] = tok[b[k]] /\ b[k] \in B /\ b[k] \in 1..Len(at)
    BY <1>12, <1>14
  <2>2. C[at[b[k]] + 1] = Code
    BY <1>13, <2>1
  <2>3. tok[b[k]] = T[at[b[k]]]
    BY <1>10, <2>1, <2>2
  <2>4. T[at[b[k]]] = text[e[at[b[k]]]]
    BY <1>5, <1>8, <2>1
  <2> QED BY <1>22, <2>1, <2>3, <2>4
<1>25. Values([k \in DOMAIN f |-> [value |-> text[f[k]], at |-> f[k]]]) = [k \in 1..Len(b) |-> text[f[k]]]
  <2> HIDE DEF f
  <2> QED BY <1>23 DEF Values
<1>26. N = [k \in 1..Len(b) |-> text[f[k]]]
  <2>1. DOMAIN N = 1..Len(b) /\ N = [k \in DOMAIN N |-> N[k]]
    BY <1>14, <1>17
  <2> HIDE DEF f
  <2> QED BY <1>24, <2>1
<1> QED BY <1>3, <1>4, <1>25, <1>26

(* Sequences of sequences, one behind the other.                               *)
LEMMA FlattenIsSeq ==
  ASSUME NEW X, NEW seqs \in Seq(Seq(X))
  PROVE  FlattenSeq(seqs) \in Seq(X)
<1> DEFINE n == Len(seqs)  V == Seq(X)
           Good(f) == f = [i \in 1..n |-> IF i = 1 THEN seqs[i] ELSE f[i - 1] \o seqs[i]]
           step == [p \in (1..n) \X V |-> IF p[1] = 1 THEN seqs[p[1]] ELSE p[2] \o seqs[p[1]]]
<1>1. n \in Nat /\ << >> \in V /\ \A i \in 1..n : seqs[i] \in V
  OBVIOUS
<1>2. CASE n = 0
  <2>1. FlattenSeq(seqs) = seqs /\ seqs = << >>
    BY <1>2 DEF FlattenSeq
  <2> QED BY <1>1, <2>1
<1>3. CASE n # 0
  <2>1. \A a, b \in V : a \o b \in V
    OBVIOUS
  <2> HIDE DEF V, n
  <2>2. \A i \in 1..n, v \in V : /\ step[<<i, v>>] \in V
                                 /\ step[<<i, v>>] = IF i = 1 THEN seqs[i] ELSE v \o seqs[i]
    <3> SUFFICES ASSUME NEW i \in 1..n, NEW v \in V
                 PROVE  /\ step[<<i, v>>] \in V
                        /\ step[<<i, v>>] = IF i = 1 THEN seqs[i] ELSE v \o seqs[i]
      OBVIOUS
    <3>1. step[<<i, v>>] = IF i = 1 THEN seqs[i] ELSE v \o seqs[i]
      OBVIOUS
    <3> HIDE DEF step
    <3> QED BY <1>1, <2>1, <3>1
  <2> HIDE DEF step
  <2>3. PICK g : Solves(V, << >>, n, step, g)
    BY <1>1, <2>2, RecursionExists
  <2>4. g \in [0..n -> V] /\ \A i \in 1..n : g[i] = IF i = 1 THEN seqs[i] ELSE g[i - 1] \o seqs[i]
    <3>1. \A i \in 1..n : i - 1 \in 0..n
      BY <1>1
    <3> QED BY <2>2, <2>3, <3>1 DEF Solves
  <2> DEFINE f == [i \in 1..n |-> g[i]]
             flat == CHOOSE h : Good(h)
  <2>5. Good(f)
    <3>1. \A i \in 1..n : i # 1 => i - 1 \in 1..n
      BY <1>1
    <3>2. \A i \in 1..n : f[i] = IF i = 1 THEN seqs[i] ELSE f[i - 1] \o seqs[i]
      BY <2>4, <3>1
    <3> HIDE DEF f
    <3>3. f = [i \in 1..n |-> f[i]]
      BY DEF f
    <3> QED BY <3>2, <3>3
  <2>6. Good(flat)
    <3> HIDE DEF Good, f
    <3> QED BY <2>5
  <2>7. FlattenSeq(seqs) = flat[n]
    BY <1>3 DEF FlattenSeq, n
  <2> HIDE DEF flat
  <2>8. \A i \in 1..n : flat[i] = IF i = 1 THEN seqs[i] ELSE flat[i - 1] \o seqs[i]
    BY <2>6
  <2> DEFINE S == {k \in Nat : k + 1 <= n => flat[k + 1] \in V}
  <2>9. 0 \in S
    <3>1. 1 \in 1..n /\ 0 + 1 = 1 /\ 0 \in Nat
      BY <1>1, <1>3
    <3> QED BY <1>1, <2>8, <3>1
  <2>10. ASSUME NEW k \in S PROVE k + 1 \in S
    <3> SUFFICES ASSUME (k + 1) + 1 <= n PROVE flat[(k + 1) + 1] \in V
      OBVIOUS
    <3> DEFINE q == (k + 1) + 1
    <3>1. k \in Nat /\ k + 1 <= n /\ q \in 1..n /\ q # 1 /\ q - 1 = k + 1
      BY <1>1
    <3>2. flat[k + 1] \in V
      BY <3>1
    <3> HIDE DEF q
    <3>3. flat[q] = flat[k + 1] \o seqs[q] /\ seqs[q] \in V
      BY <1>1, <2>8, <3>1
    <3> QED BY <2>1, <3>2, <3>3 DEF q
  <2>11. S = Nat
    <3>1. S \in SUBSET Nat
      OBVIOUS
    <3> HIDE DEF S
    <3> QED BY <2>9, <2>10, <3>1, NumberInduction
  <2>12. n - 1 \in S /\ (n - 1) + 1 = n
    <3>1. n - 1 \in Nat /\ (n - 1) + 1 = n
      BY <1>1, <1>3
    <3> HIDE DEF S
    <3> QED BY <2>11, <3>1
  <2> QED BY <1>1, <2>7, <2>12 DEF V
<1> QED BY <1>2, <1>3

(* Lines of symbols, with their ends.                                          *)
LEMMA LinesAreText ==
  ASSUME NEW lines \in Seq(Seq(Symbols))
  PROVE  WithEnds(lines) \in Seq(Symbols \cup {EOL})
<1> DEFINE X == Symbols \cup {EOL}  L == [i \in DOMAIN lines |-> Append(lines[i], EOL)]
<1>2. \A line \in Seq(Symbols) : Append(line, EOL) \in Seq(X)
  <2> SUFFICES ASSUME NEW line \in Seq(Symbols) PROVE Append(line, EOL) \in Seq(X)
    OBVIOUS
  <2>1. line \in Seq(X) /\ EOL \in X
    <3>1. line \in [1..Len(line) -> Symbols] /\ Len(line) \in Nat
      OBVIOUS
    <3>2. line \in [1..Len(line) -> X]
      BY <3>1
    <3> QED BY <3>1, <3>2
  <2> HIDE DEF X
  <2> QED BY <2>1
<1>3. L \in Seq(Seq(X))
  <2>1. \A i \in 1..Len(lines) : lines[i] \in Seq(Symbols)
    OBVIOUS
  <2>2. DOMAIN lines = 1..Len(lines) /\ Len(lines) \in Nat
    OBVIOUS
  <2> HIDE DEF X
  <2>3. L \in [1..Len(lines) -> Seq(X)]
    BY <1>2, <2>1, <2>2
  <2> QED BY <2>2, <2>3
<1> HIDE DEF L
<1>4. FlattenSeq(L) \in Seq(X)
  <2> HIDE DEF X
  <2> QED BY <1>3, FlattenIsSeq
<1> QED BY <1>4 DEF L, WithEnds

-----------------------------------------------------------------------------
(* What is written stays lines of symbols.                                     *)
Lines == Seq(Seq(Symbols))
Written == "lib" \in DOMAIN crate /\ crate["lib"] \in Lines /\ authority \in Lines

LEMMA EditsAreSeqs ==
  ASSUME NEW X, NEW s \in Seq(X)
  PROVE  /\ \A i \in 0..Len(s), x \in X : PutIn(s, i, x) \in Seq(X)
         /\ \A i \in 1..Len(s) : TakeOut(s, i) \in Seq(X)
         /\ \A i \in 1..(Len(s) - 1) : Exchanged(s, i) \in Seq(X)
         /\ \A i \in 1..Len(s), x \in X : [s EXCEPT ![i] = x] \in Seq(X)
<1> DEFINE n == Len(s)
<1>1. n \in Nat /\ s \in [1..n -> X] /\ \A i \in 1..n : s[i] \in X
  OBVIOUS
<1>2. \A a, b \in Nat : a >= 1 /\ b <= n => SubSeq(s, a, b) \in Seq(X)
  OBVIOUS
<1>3. \A a, b \in Seq(X) : a \o b \in Seq(X)
  OBVIOUS
<1>4. ASSUME NEW i \in 0..n, NEW x \in X PROVE PutIn(s, i, x) \in Seq(X)
  <2>1. <<x>> \in Seq(X)
    OBVIOUS
  <2>2. i \in Nat /\ i + 1 \in Nat /\ i + 1 >= 1 /\ i <= n /\ 1 \in Nat /\ n <= n
    BY <1>1
  <2>3. SubSeq(s, 1, i) \in Seq(X) /\ SubSeq(s, i + 1, n) \in Seq(X)
    BY <1>1, <1>2, <2>2
  <2> QED BY <1>3, <2>1, <2>3 DEF PutIn
<1>5. ASSUME NEW i \in 1..n PROVE TakeOut(s, i) \in Seq(X)
  <2>1. i - 1 \in Nat /\ i + 1 \in Nat /\ i + 1 >= 1 /\ i - 1 <= n /\ 1 \in Nat /\ n <= n
    BY <1>1
  <2>2. SubSeq(s, 1, i - 1) \in Seq(X) /\ SubSeq(s, i + 1, n) \in Seq(X)
    BY <1>1, <1>2, <2>1
  <2> QED BY <1>3, <2>2 DEF TakeOut
<1>6. ASSUME NEW i \in 1..(n - 1) PROVE Exchanged(s, i) \in Seq(X)
  <2>1. i \in 1..n /\ i + 1 \in 1..n
    BY <1>1
  <2>2. s[i] \in X /\ s[i + 1] \in X
    BY <1>1, <2>1
  <2>3. Exchanged(s, i) \in [1..n -> X]
    <3> HIDE DEF n
    <3> QED BY <1>1, <2>1, <2>2 DEF Exchanged
  <2> QED BY <1>1, <2>3
<1>7. ASSUME NEW i \in 1..n, NEW x \in X PROVE [s EXCEPT ![i] = x] \in Seq(X)
  <2>1. [s EXCEPT ![i] = x] \in [1..n -> X]
    <3> HIDE DEF n
    <3> QED BY <1>1
  <2> QED BY <1>1, <2>1
<1> QED BY <1>4, <1>5, <1>6, <1>7

LEMMA WrittenFirst == SurfaceInit => Written
BY SurfaceAssumption DEF SurfaceAssumption, SurfaceInit, Written, Lines

LEMMA WrittenStays == Written /\ [SurfaceNext]_surfaceVars => Written'
<1> SUFFICES ASSUME Written, [SurfaceNext]_surfaceVars PROVE Written'
  OBVIOUS
<1> DEFINE lib == crate["lib"]  Line == Seq(Symbols)
<1>1. "lib" \in DOMAIN crate /\ lib \in Seq(Line) /\ authority \in Seq(Line)
  BY DEF Written, Lines
<1>2. Offered("lib") \subseteq Line /\ Offered("authority") \subseteq Line
  BY SurfaceAssumption DEF SurfaceAssumption, Offered
<1>3. DOMAIN lib = 1..Len(lib) /\ DOMAIN authority = 1..Len(authority)
  BY <1>1
<1> DEFINE Unwritten == crate' = crate /\ authority' = authority
<1>4. ASSUME Unwritten PROVE Written'
  BY <1>4, <1>1 DEF Written, Lines
<1>5. ASSUME NEW new \in Seq(Line), crate' = [crate EXCEPT !["lib"] = new], authority' = authority
      PROVE  Written'
  <2> HIDE DEF Line
  <2>1. crate'["lib"] = new /\ DOMAIN crate' = DOMAIN crate
    BY <1>1, <1>5
  <2> QED BY <1>1, <1>5, <2>1 DEF Written, Lines, Line
<1>6. ASSUME EditCrate PROVE Written'
  <2>1. PICK i \in 0..Len(lib), line \in Offered("lib") :
          crate' = [crate EXCEPT !["lib"] = PutIn(lib, i, line)] /\ authority' = authority
    BY <1>6 DEF EditCrate
  <2> HIDE DEF lib, Line
  <2>2. PutIn(lib, i, line) \in Seq(Line)
    BY <1>1, <1>2, EditsAreSeqs
  <2> QED BY <1>5, <2>1, <2>2
<1>7. ASSUME RewriteCrate PROVE Written'
  <2>1. authority' = authority
    BY <1>7 DEF RewriteCrate
  <2>2. ASSUME NEW i \in DOMAIN lib, crate' = [crate EXCEPT !["lib"] = TakeOut(lib, i)] PROVE Written'
    <3> HIDE DEF lib, Line
    <3>1. TakeOut(lib, i) \in Seq(Line)
      BY <1>1, <1>3, EditsAreSeqs
    <3> QED BY <1>5, <2>1, <2>2, <3>1
  <2>3. ASSUME NEW i \in 1..(Len(lib) - 1), crate' = [crate EXCEPT !["lib"] = Exchanged(lib, i)] PROVE Written'
    <3> HIDE DEF lib, Line
    <3>1. Exchanged(lib, i) \in Seq(Line)
      BY <1>1, EditsAreSeqs
    <3> QED BY <1>5, <2>1, <2>3, <3>1
  <2>4. ASSUME NEW i \in DOMAIN lib, NEW k \in DOMAIN lib[i],
               crate' = [crate EXCEPT !["lib"] = [lib EXCEPT ![i] = TakeOut(lib[i], k)]]
        PROVE  Written'
    <3>1. lib[i] \in Line /\ DOMAIN lib[i] = 1..Len(lib[i])
      BY <1>1, <1>3
    <3>2. TakeOut(lib[i], k) \in Line
      BY <3>1, EditsAreSeqs
    <3> HIDE DEF lib, Line
    <3>3. [lib EXCEPT ![i] = TakeOut(lib[i], k)] \in Seq(Line)
      BY <1>1, <1>3, <3>2, EditsAreSeqs
    <3> QED BY <1>5, <2>1, <2>4, <3>3
  <2> QED BY <1>7, <2>2, <2>3, <2>4 DEF RewriteCrate
<1>8. ASSUME EditOther PROVE Written'
  <2>1. authority' = authority
    BY <1>8 DEF EditOther
  <2>2. PICK f \in DOMAIN crate \ {"lib"} :
          crate' = crate \/ \E new : crate' = [crate EXCEPT ![f] = new]
    BY <1>8 DEF EditOther
  <2>3. DOMAIN crate' = DOMAIN crate /\ crate'["lib"] = crate["lib"]
    BY <1>1, <2>2
  <2> QED BY <1>1, <2>1, <2>3 DEF Written, Lines
<1>9. ASSUME AddFile PROVE Written'
  <2>1. authority' = authority /\ "lib" # "stray"
    BY <1>9 DEF AddFile
  <2>2. crate' = [f \in DOMAIN crate \cup {"stray"} |-> IF f = "stray" THEN << >> ELSE crate[f]]
    BY <1>9 DEF AddFile
  <2>3. "lib" \in DOMAIN crate' /\ crate'["lib"] = crate["lib"]
    BY <1>1, <2>1, <2>2
  <2> QED BY <1>1, <2>1, <2>3 DEF Written, Lines
<1>10. ASSUME EditManifest PROVE Written'
  BY <1>4, <1>10 DEF EditManifest
<1>11. ASSUME EditAuthority PROVE Written'
  <2>1. crate' = crate
    BY <1>11 DEF EditAuthority
  <2>2. \/ \E i \in 0..Len(authority), line \in Offered("authority") : authority' = PutIn(authority, i, line)
        \/ \E i \in DOMAIN authority : authority' = TakeOut(authority, i)
    BY <1>11 DEF EditAuthority
  <2>3. authority' \in Seq(Line)
    <3> HIDE DEF Line
    <3> QED BY <1>1, <1>2, <1>3, <2>2, EditsAreSeqs
  <2> QED BY <1>1, <2>1, <2>3 DEF Written, Lines
<1>12. ASSUME Judge \/ RenewAndJudge PROVE Written'
  BY <1>4, <1>12 DEF Judge, RenewAndJudge
<1>13. CASE UNCHANGED surfaceVars
  BY <1>4, <1>13 DEF surfaceVars
<1> QED BY <1>6, <1>7, <1>8, <1>9, <1>10, <1>11, <1>12, <1>13 DEF SurfaceNext

(* A source that has no apostrophe, where no comment begins right behind a     *)
(* sign or a word.                                                             *)
Plain(text) == Tick \notin Range(text) /\ Legible(text) /\ WordsApart(text)
PlainScansAgree ==
  \A lines \in {crate["lib"], authority} :
    Plain(WithEnds(lines)) =>
      BarLiterals(Tokens(WithEnds(lines))) = Values(TokenSpans(WithEnds(lines)))

(* Of any plain source, however long and however its comments and literals     *)
(* nest, the two scans of check-ordinary-wallet-plan-surface.py give the same  *)
(* tokens, at every step of an author. Of a source that is not plain they do   *)
(* not: static and a name with a comment between are one word to rust_tokens,  *)
(* a lifetime is one token to it, and to the text it goes over a quotation     *)
(* mark in a character literal is where a text begins.                         *)
THEOREM PlainScansAreOne == SurfaceSpec => []PlainScansAgree
<1>1. Written => PlainScansAgree
  <2> SUFFICES ASSUME Written, NEW lines \in {crate["lib"], authority}, Plain(WithEnds(lines))
               PROVE  BarLiterals(Tokens(WithEnds(lines))) = Values(TokenSpans(WithEnds(lines)))
    BY DEF PlainScansAgree
  <2>1. lines \in Seq(Seq(Symbols))
    BY DEF Written, Lines
  <2> DEFINE X == Symbols \cup {EOL}  S == X \ {Tick}  text == WithEnds(lines)
  <2>2. text \in Seq(X)
    BY <2>1, LinesAreText
  <2>3. "literal" \notin X /\ "lifetime" \notin X /\ "character" \notin X
    BY SurfaceAssumption DEF SurfaceAssumption, EOL
  <2>4. Bar(S) /\ "literal" \notin S /\ "lifetime" \notin S
    BY <2>3 DEF Bar, Marks
  <2> HIDE DEF X, text
  <2>5. text \in Seq(S) /\ WordsApart(text)
    <3>1. Tick \notin Range(text) /\ WordsApart(text)
      BY DEF Plain, text
    <3>2. \A i \in 1..Len(text) : text[i] \in X /\ text[i] # Tick
      BY <2>2, <3>1 DEF Range
    <3>3. text \in [1..Len(text) -> S] /\ Len(text) \in Nat
      BY <2>2, <3>2
    <3> QED BY <3>1, <3>3
  <2> HIDE DEF S
  <2>6. BarLiterals(Tokens(text)) = Values(TokenSpans(text))
    BY <2>4, <2>5, ScansTellOne
  <2> QED BY <2>6 DEF text
<1> QED BY <1>1, WrittenFirst, WrittenStays, PTL DEF SurfaceSpec

-----------------------------------------------------------------------------
(***************************************************************************)
(* FactsCorpus: clean recipes are read back.                               *)
(***************************************************************************)
(* The text J is in d from a place on.                                         *)
Placed(d, at, J) ==
  /\ at \in Nat /\ at + Len(J) <= Len(d) /\ \A k \in 1..Len(J) : d[at + k] = J[k]
LEMMA PlacedInTwo ==
  ASSUME NEW T, NEW d \in Seq(T), NEW J \in Seq(T), NEW K \in Seq(T), NEW at, Placed(d, at, J \o K)
  PROVE  Placed(d, at, J) /\ Placed(d, at + Len(J), K)
<1> DEFINE L == J \o K
           m == Len(J)
           n == Len(K)
<1>1. m \in Nat /\ n \in Nat /\ Len(d) \in Nat
  OBVIOUS
<1>2. Len(L) = m + n /\ \A i \in 1..(m + n) : L[i] = IF i <= m THEN J[i] ELSE K[i - m]
  BY ConcatProperties
<1>3. at \in Nat /\ at + Len(L) <= Len(d) /\ \A k \in 1..Len(L) : d[at + k] = L[k]
  BY DEF Placed
<1> HIDE DEF L, m, n
<1>4. at + m <= Len(d) /\ \A k \in 1..m : d[at + k] = J[k]
  <2>1. at + m <= Len(d)
    BY ONLY <1>1, <1>2, <1>3
  <2>2. ASSUME NEW k \in 1..m PROVE d[at + k] = J[k]
    <3>1. k \in 1..(m + n) /\ k <= m
      BY ONLY <1>1, k \in 1..m
    <3>2. L[k] = J[k]
      BY ONLY <1>2, <3>1
    <3>3. d[at + k] = L[k]
      BY ONLY <1>2, <1>3, <3>1
    <3> QED BY ONLY <3>2, <3>3
  <2> QED BY <2>1, <2>2
<1>5. at + m \in Nat /\ (at + m) + n <= Len(d)
  BY ONLY <1>1, <1>2, <1>3
<1>6. ASSUME NEW k \in 1..n PROVE d[(at + m) + k] = K[k]
  <2>1. m + k \in 1..(m + n) /\ ~ (m + k <= m) /\ (m + k) - m = k /\ at + (m + k) = (at + m) + k
    BY <1>1, <1>3
  <2> QED BY <1>2, <1>3, <2>1
<1> QED BY <1>3, <1>4, <1>5, <1>6 DEF Placed, m, n

(* The slice of d where J is placed is J.                                      *)
LEMMA PlacedIsSlice ==
  ASSUME NEW T, NEW d \in Seq(T), NEW J \in Seq(T), NEW at, Placed(d, at, J)
  PROVE  SubSeq(d, at + 1, at + Len(J)) = J
<1> DEFINE m == Len(J)
           x == at + 1
           y == at + m
           f == SubSeq(d, x, y)
<1>1. m \in Nat /\ Len(d) \in Nat
  OBVIOUS
<1>2. at \in Nat /\ at + m <= Len(d) /\ \A k \in 1..m : d[at + k] = J[k]
  BY DEF Placed
<1> HIDE DEF m
<1>3. x \in 1..(Len(d) + 1) /\ y \in (x - 1)..Len(d) /\ y - x + 1 = m
  BY <1>1, <1>2
<1>4. \A i \in 1..m : x + i - 1 = at + i
  BY <1>1, <1>2
<1> HIDE DEF x, y
<1>5. f \in Seq(T) /\ Len(f) = m /\ \A i \in 1..m : f[i] = d[x + i - 1]
  <2>1. \A i \in x..y : d[i] \in T
    BY <1>1, <1>2, <1>3
  <2>2. x \in Int /\ y \in Int
    BY <1>1, <1>3
  <2>3. Len(f) = IF x <= y THEN y - x + 1 ELSE 0
    BY <2>1, <2>2, SubSeqProperties
  <2>4. f \in Seq(T) /\ \A i \in 1..(y - x + 1) : f[i] = d[x + i - 1]
    BY <1>3, <2>1, <2>2, SubSeqProperties
  <2>5. Len(f) = m
    BY <1>1, <1>3, <2>2, <2>3
  <2> QED BY <1>3, <2>4, <2>5
<1> HIDE DEF f
<1>6. f = J
  <2>1. Len(f) = Len(J) /\ \A i \in 1..Len(f) : f[i] = J[i]
    BY <1>2, <1>4, <1>5 DEF m
  <2> QED BY <1>5, <2>1, SeqEqual
<1> QED BY <1>6 DEF f, x, y, m

(* Where the texts of s begin and end, when they are in d one after the other. *)
Offsets(d, at, s, off) ==
  /\ off \in [0..Len(s) -> Nat] /\ off[0] = at
  /\ \A i \in 1..Len(s) : off[i] = off[i - 1] + Len(s[i]) /\ Placed(d, off[i - 1], s[i])
LEMMA JoinedOffsets ==
  ASSUME NEW T, NEW d \in Seq(T), NEW s \in Seq(Seq(T)), NEW at, Placed(d, at, Joined(s))
  PROVE  \E off : Offsets(d, at, s, off) /\ off[Len(s)] = at + Len(Joined(s))
<1> DEFINE L == Len(s)
<1>1. L \in Nat /\ \A i \in 1..L : s[i] \in Seq(T)
  OBVIOUS
<1>2. PICK j \in [0..L -> Seq(T)] : Joins(s, j) /\ Joined(s) = j[L]
  BY JoinedIsLast
<1> HIDE DEF L
<1>3. \A i \in 0..L : j[i] \in Seq(T) /\ Len(j[i]) \in Nat
  BY <1>2
<1>4. \A i \in 1..L : i - 1 \in 0..L /\ i \in 0..L /\ j[i] = j[i - 1] \o s[i]
  <2>1. \A i \in 1..L : j[i] = j[i - 1] \o s[i]
    BY <1>2 DEF Joins, L
  <2>2. \A i \in 1..L : i - 1 \in 0..L /\ i \in 0..L
    BY ONLY <1>1
  <2> QED BY ONLY <2>1, <2>2
<1>5. \A i \in 1..L : Len(j[i]) = Len(j[i - 1]) + Len(s[i])
  <2> TAKE i \in 1..L
  <2>1. j[i - 1] \in Seq(T) /\ s[i] \in Seq(T) /\ j[i] = j[i - 1] \o s[i]
    BY <1>1, <1>3, <1>4
  <2> QED BY ONLY <2>1, ConcatProperties
<1> DEFINE S == {n \in Nat : n <= L => Placed(d, at, j[L - n])}
<1>6. S = Nat
  <2>1. 0 \in S
    BY <1>1, <1>2
  <2>2. ASSUME NEW n \in S PROVE n + 1 \in S
    <3> SUFFICES ASSUME n + 1 <= L PROVE Placed(d, at, j[L - (n + 1)])
      OBVIOUS
    <3>1. L - n \in 1..L /\ (L - n) - 1 = L - (n + 1) /\ L - (n + 1) \in 0..L
      BY <1>1
    <3>2. j[L - n] = j[L - (n + 1)] \o s[L - n]
      BY <1>4, <3>1
    <3>3. Placed(d, at, j[L - n])
      BY <1>1
    <3>4. j[L - (n + 1)] \in Seq(T) /\ s[L - n] \in Seq(T)
      BY <1>1, <1>3, <3>1
    <3> QED BY <3>2, <3>3, <3>4, PlacedInTwo
  <2> HIDE DEF S
  <2>3. S \in SUBSET Nat
    BY DEF S
  <2> QED BY <2>1, <2>2, <2>3, NumberInduction
<1>7. \A i \in 0..L : Placed(d, at, j[i])
  <2> TAKE i \in 0..L
  <2>1. L - i \in S /\ L - i <= L /\ L - (L - i) = i
    <3>1. L - i \in Nat /\ L - i <= L /\ L - (L - i) = i
      BY ONLY <1>1
    <3> HIDE DEF S
    <3> QED BY <1>6, <3>1
  <2> QED BY <2>1
<1> HIDE DEF S
<1> DEFINE off == [i \in 0..L |-> at + Len(j[i])]
<1>8. at \in Nat
  BY DEF Placed
<1>9. ASSUME NEW i \in 1..L PROVE off[i] = off[i - 1] + Len(s[i]) /\ Placed(d, off[i - 1], s[i])
  <2>1. Placed(d, at, j[i - 1] \o s[i])
    BY <1>4, <1>7
  <2>2. Placed(d, at + Len(j[i - 1]), s[i])
    BY <1>1, <1>3, <1>4, <2>1, PlacedInTwo
  <2>3. off[i - 1] = at + Len(j[i - 1]) /\ off[i] = at + Len(j[i])
    BY <1>4
  <2>4. Len(s[i]) \in Nat
    BY <1>1
  <2>5. Len(j[i - 1]) \in Nat /\ Len(j[i]) = Len(j[i - 1]) + Len(s[i])
    BY <1>3, <1>4, <1>5
  <2>6. at + Len(j[i]) = (at + Len(j[i - 1])) + Len(s[i])
    <3>1. Len(j[i]) \in Nat
      BY <1>3, <1>4
    <3> DEFINE x == Len(j[i - 1])
               y == Len(s[i])
               z == Len(j[i])
    <3>2. x \in Nat /\ y \in Nat /\ z \in Nat /\ z = x + y
      BY ONLY <2>4, <2>5, <3>1
    <3> HIDE DEF x, y, z
    <3>3. at + z = (at + x) + y
      BY ONLY <1>8, <3>2
    <3> QED BY ONLY <3>3 DEF x, y, z
  <2> HIDE DEF off
  <2> QED BY ONLY <2>2, <2>3, <2>6
<1>10. off \in [0..L -> Nat]
  BY <1>3, <1>8
<1>11. off[0] = at /\ off[L] = at + Len(Joined(s))
  <2>1. j[0] = << >> /\ Len(<< >>) = 0
    BY <1>2 DEF Joins
  <2>2. 0 \in 0..L /\ L \in 0..L
    BY ONLY <1>1
  <2>3. off[0] = at + Len(j[0]) /\ off[L] = at + Len(j[L])
    BY <2>2
  <2> HIDE DEF off
  <2> QED BY ONLY <1>2, <1>8, <2>1, <2>3
<1> HIDE DEF off
<1>12. Offsets(d, at, s, off)
  BY <1>9, <1>10, <1>11 DEF Offsets, L
<1> QED BY <1>11, <1>12 DEF L

(* A function made step by step is the one that is made so.                    *)
InStep(n, g, w) ==
  n \in Nat /\ g[0] = w[0] /\ \A i \in 1..n : g[i - 1] = w[i - 1] => g[i] = w[i]
LEMMA SameSteps ==
  ASSUME NEW n, NEW g, NEW w, InStep(n, g, w)
  PROVE  \A i \in 0..n : g[i] = w[i]
<1> USE DEF InStep
<1> DEFINE S == {i \in Nat : i <= n => g[i] = w[i]}
<1>1. 0 \in S
  OBVIOUS
<1>2. ASSUME NEW i \in S PROVE i + 1 \in S
  BY <1>2
<1>3. S = Nat
  <2> HIDE DEF S
  <2>1. S \in SUBSET Nat
    BY DEF S
  <2> QED BY <1>1, <1>2, <2>1, NumberInduction
<1> QED BY <1>3

-----------------------------------------------------------------------------
(* The texts of a candidate.                                                   *)
TextCells(x) == <<Len(x)>> \o x
TextsOf(s) == [i \in DOMAIN s |-> TextCells(s[i])]
LEMMA TextIsOne ==
  ASSUME NEW x \in Seq(Nat)
  PROVE  TextCells(x) \in Seq(Nat) /\ Len(TextCells(x)) = 1 + Len(x)
<1>1. <<Len(x)>> \in Seq(Nat) /\ Len(<<Len(x)>>) = 1
  OBVIOUS
<1> QED BY <1>1 DEF TextCells
LEMMA TextIsRead ==
  ASSUME NEW T, Nat \subseteq T, NEW d \in Seq(T), NEW at, NEW x \in Seq(Nat), Placed(d, at, TextCells(x))
  PROVE  ReadText(d, at) = [at |-> at + Len(TextCells(x)), value |-> x]
<1> DEFINE h == <<Len(x)>>
           n == Len(x)
<1>1. n \in Nat /\ h \in Seq(T) /\ Len(h) = 1 /\ h[1] = n /\ x \in Seq(T)
  OBVIOUS
<1> HIDE DEF h, n
<1>2. Placed(d, at, h \o x)
  BY DEF TextCells, h, n
<1>3. Placed(d, at, h) /\ Placed(d, at + 1, x)
  BY <1>1, <1>2, PlacedInTwo
<1>4. at \in Nat /\ d[at + 1] = n
  BY <1>1, <1>3 DEF Placed
<1>5. SubSeq(d, (at + 1) + 1, (at + 1) + Len(x)) = x
  BY <1>1, <1>3, PlacedIsSlice
<1>6. (at + 1) + 1 = at + 2 /\ (at + 1) + Len(x) = at + 1 + d[at + 1] /\ at + (1 + Len(x)) = at + 1 + d[at + 1]
  BY <1>1, <1>4 DEF n
<1>7. SubSeq(d, at + 2, at + 1 + d[at + 1]) = x
  BY <1>5, <1>6
<1> QED BY <1>6, <1>7, TextIsOne DEF ReadText

(* One item more of a sequence.                                                *)
LEMMA PrefixGrows ==
  ASSUME NEW V, NEW s \in Seq(V), NEW i \in 1..Len(s)
  PROVE  SubSeq(s, 1, i) = Append(SubSeq(s, 1, i - 1), s[i])
<1> DEFINE a == SubSeq(s, 1, i)
           b == SubSeq(s, 1, i - 1)
           c == Append(b, s[i])
<1>1. a \in Seq(V) /\ Len(a) = i /\ \A k \in 1..i : a[k] = s[k]
  OBVIOUS
<1>2. b \in Seq(V) /\ Len(b) = i - 1 /\ \A k \in 1..(i - 1) : b[k] = s[k]
  OBVIOUS
<1>3. s[i] \in V
  OBVIOUS
<1> HIDE DEF a, b
<1>4. c \in Seq(V) /\ Len(c) = i /\ c[i] = s[i] /\ \A k \in 1..(i - 1) : c[k] = b[k]
  BY <1>2, <1>3
<1> HIDE DEF c
<1>5. \A k \in 1..i : a[k] = c[k]
  BY <1>1, <1>2, <1>4
<1>6. a = c
  BY <1>1, <1>4, <1>5, SeqEqual
<1> QED BY <1>6 DEF a, b, c

(* So many items one after the other, if each is read and leads to the next.   *)
Grown(off, s) == [i \in 0..Len(s) |-> [at |-> off[i], list |-> SubSeq(s, 1, i)]]
IsGrown(g, off, s) ==
  /\ g[0] = [at |-> off[0], list |-> << >>] /\ g[Len(s)] = [at |-> off[Len(s)], list |-> s]
  /\ \A i \in 1..Len(s) : /\ g[i - 1].at = off[i - 1]
                          /\ g[i] = [at |-> off[i], list |-> Append(g[i - 1].list, s[i])]
LEMMA GrownIs ==
  ASSUME NEW V, NEW s \in Seq(V), NEW off
  PROVE  IsGrown(Grown(off, s), off, s)
<1> DEFINE n == Len(s)
<1>1. n \in Nat
  OBVIOUS
<1>2. SubSeq(s, 1, 0) = << >> /\ SubSeq(s, 1, n) = s
  OBVIOUS
<1>3. ASSUME NEW i \in 1..n PROVE SubSeq(s, 1, i) = Append(SubSeq(s, 1, i - 1), s[i])
  <2>1. s \in Seq(V) /\ i \in 1..Len(s)
    OBVIOUS
  <2> QED BY ONLY <2>1, PrefixGrows
<1> DEFINE g == Grown(off, s)
<1>4. \A i \in 0..n : g[i] = [at |-> off[i], list |-> SubSeq(s, 1, i)]
  BY DEF Grown
<1>5. \A i \in 1..n : i - 1 \in 0..n /\ i \in 0..n
  BY <1>1
<1>6. 0 \in 0..n /\ n \in 0..n
  BY <1>1
<1> HIDE DEF g, n
<1>7. g[0] = [at |-> off[0], list |-> << >>] /\ g[n] = [at |-> off[n], list |-> s]
  BY ONLY <1>2, <1>4, <1>6
<1>8. \A i \in 1..n : g[i - 1].at = off[i - 1] /\ g[i] = [at |-> off[i], list |-> Append(g[i - 1].list, s[i])]
  <2> TAKE i \in 1..n
  <2>1. g[i - 1] = [at |-> off[i - 1], list |-> SubSeq(s, 1, i - 1)]
    BY ONLY <1>4, <1>5
  <2>2. g[i] = [at |-> off[i], list |-> SubSeq(s, 1, i)]
    BY ONLY <1>4, <1>5
  <2> DEFINE a == SubSeq(s, 1, i)
             b == SubSeq(s, 1, i - 1)
             e == s[i]
  <2>3. a = Append(b, e)
    BY ONLY <1>3
  <2> HIDE DEF a, b, e
  <2>4. g[i - 1].at = off[i - 1] /\ g[i - 1].list = b
    BY ONLY <2>1 DEF b
  <2>5. g[i] = [at |-> off[i], list |-> Append(g[i - 1].list, e)]
    BY ONLY <2>2, <2>3, <2>4 DEF a
  <2> QED BY ONLY <2>4, <2>5 DEF e
<1> QED BY <1>7, <1>8 DEF IsGrown, g, n

(* Texts of numbers are texts of cells.                                        *)
LEMMA WiderTexts ==
  ASSUME NEW T, NEW W, W \subseteq T
  PROVE  /\ \A x \in Seq(W) : x \in Seq(T)
         /\ \A s \in Seq(Seq(W)) : s \in Seq(Seq(T))
<1>1. \A x \in Seq(W) : x \in Seq(T)
  OBVIOUS
<1> DEFINE X == Seq(W)
           Y == Seq(T)
<1>2. X \subseteq Y
  BY <1>1
<1> HIDE DEF X, Y
<1>3. \A s \in Seq(X) : s \in Seq(Y)
  BY <1>2
<1> QED BY <1>1, <1>3 DEF X, Y
LEMMA TextsAreTexts ==
  ASSUME NEW s \in Seq(Seq(Nat))
  PROVE  /\ TextsOf(s) \in Seq(Seq(Nat)) /\ Len(TextsOf(s)) = Len(s)
         /\ \A i \in 1..Len(s) : s[i] \in Seq(Nat) /\ TextsOf(s)[i] = TextCells(s[i])
         /\ Joined(TextsOf(s)) \in Seq(Nat)
<1> DEFINE Z == Seq(Nat)
           t == TextsOf(s)
           n == Len(s)
<1>1. n \in Nat /\ DOMAIN s = 1..n /\ \A i \in 1..n : s[i] \in Z
  OBVIOUS
<1>2. \A x \in Z : TextCells(x) \in Z
  BY TextIsOne
<1>3. DOMAIN t = 1..n /\ \A i \in 1..n : t[i] = TextCells(s[i])
  BY <1>1 DEF TextsOf
<1>4. t \in Seq(Z) /\ Len(t) = n
  <2> HIDE DEF Z, n
  <2>1. t \in [1..n -> Z]
    BY <1>1, <1>2 DEF TextsOf
  <2> HIDE DEF t
  <2> QED BY <1>1, <2>1
<1> HIDE DEF t
<1>5. Joined(t) \in Seq(Nat)
  <2>1. << >> \in Seq(Nat)
    OBVIOUS
  <2> QED BY <1>4, <2>1, JoinedOfAppend
<1> QED BY <1>1, <1>3, <1>4, <1>5 DEF t

(* The previous transactions of a candidate are read back.                     *)
LEMMA TextsAreRead ==
  ASSUME NEW T, Nat \subseteq T, NEW d \in Seq(T), NEW at, NEW s \in Seq(Seq(Nat)),
         Placed(d, at, Joined(TextsOf(s)))
  PROVE  Gathered(d, at, Len(s), ReadText) = [at |-> at + Len(Joined(TextsOf(s))), list |-> s]
<1> DEFINE n == Len(s)
           t == TextsOf(s)
           body(g) == [i \in 0..n |->
             IF i = 0 THEN [at |-> at, list |-> << >>]
             ELSE LET x == ReadText(d, g[i - 1].at)
                  IN [at |-> x.at, list |-> Append(g[i - 1].list, x.value)]]
<1>1. n \in Nat /\ t \in Seq(Seq(T)) /\ Len(t) = n /\ \A i \in 1..n : s[i] \in Seq(Nat) /\ t[i] = TextCells(s[i])
  BY TextsAreTexts, WiderTexts
<1>2. PICK off : Offsets(d, at, t, off) /\ off[Len(t)] = at + Len(Joined(t))
  BY <1>1, JoinedOffsets
<1> DEFINE w == Grown(off, s)
<1>3. /\ w[0] = [at |-> off[0], list |-> << >>] /\ w[n] = [at |-> off[n], list |-> s]
      /\ \A i \in 1..n : /\ w[i - 1].at = off[i - 1]
                         /\ w[i] = [at |-> off[i], list |-> Append(w[i - 1].list, s[i])]
  <2> DEFINE C == Seq(Nat)
  <2>1. s \in Seq(C)
    OBVIOUS
  <2> HIDE DEF C
  <2>2. IsGrown(Grown(off, s), off, s)
    BY ONLY <2>1, GrownIs
  <2> QED BY ONLY <2>2 DEF IsGrown
<1>0. w = [i \in 0..n |-> w[i]]
  BY DEF Grown
<1> HIDE DEF w, t
<1>4. ASSUME NEW i \in 1..n PROVE ReadText(d, off[i - 1]) = [at |-> off[i], value |-> s[i]]
  <2>1. off[i] = off[i - 1] + Len(TextCells(s[i])) /\ Placed(d, off[i - 1], TextCells(s[i]))
    BY <1>1, <1>2 DEF Offsets
  <2>2. s[i] \in Seq(Nat) /\ Nat \subseteq T /\ d \in Seq(T)
    BY <1>1
  <2> DEFINE x == s[i]
             o == off[i - 1]
  <2>3. x \in Seq(Nat) /\ Placed(d, o, TextCells(x))
    BY ONLY <2>1, <2>2
  <2> HIDE DEF x, o
  <2>4. ReadText(d, o) = [at |-> o + Len(TextCells(x)), value |-> x]
    BY ONLY <2>2, <2>3, TextIsRead
  <2> QED BY ONLY <2>1, <2>4 DEF x, o
<1> HIDE DEF n
<1>5. w[0] = [at |-> at, list |-> << >>]
  BY <1>2, <1>3 DEF Offsets
<1>6. ASSUME NEW g, \A i \in 0..n : g[i] = body(g)[i] PROVE g[n] = w[n]
  <2>1. g[0] = w[0]
    <3>1. 0 \in 0..n
      BY <1>1
    <3> QED BY <1>5, <1>6, <3>1
  <2>2. ASSUME NEW i \in 1..n, g[i - 1] = w[i - 1] PROVE g[i] = w[i]
    <3>1. i \in 0..n /\ i # 0
      BY <1>1
    <3>2. g[i] = LET x == ReadText(d, g[i - 1].at)
                 IN [at |-> x.at, list |-> Append(g[i - 1].list, x.value)]
      BY <1>6, <3>1
    <3>3. w[i - 1].at = off[i - 1] /\ w[i] = [at |-> off[i], list |-> Append(w[i - 1].list, s[i])]
      BY ONLY <1>3
    <3>4. ReadText(d, g[i - 1].at) = [at |-> off[i], value |-> s[i]]
      <4>1. g[i - 1].at = off[i - 1]
        BY ONLY <2>2, <3>3
      <4> QED BY ONLY <4>1, <1>4
    <3> DEFINE e == ReadText(d, g[i - 1].at)
    <3>5. g[i] = [at |-> e.at, list |-> Append(g[i - 1].list, e.value)]
      BY ONLY <3>2
    <3>6. e = [at |-> off[i], value |-> s[i]]
      BY ONLY <3>4
    <3> HIDE DEF e
    <3>7. e.at = off[i] /\ e.value = s[i]
      BY ONLY <3>6
    <3>8. g[i - 1].list = w[i - 1].list
      BY ONLY <2>2
    <3>9. g[i] = [at |-> off[i], list |-> Append(w[i - 1].list, s[i])]
      BY ONLY <3>5, <3>7, <3>8
    <3> QED BY ONLY <3>3, <3>9
  <2>3. n \in 0..n
    BY <1>1
  <2>4. \A i \in 0..n : g[i] = w[i]
    <3>1. \A i \in 1..n : g[i - 1] = w[i - 1] => g[i] = w[i]
      BY ONLY <2>2
    <3>2. n \in Nat
      BY ONLY <1>1
    <3>3. InStep(n, g, w)
      BY ONLY <2>1, <3>1, <3>2 DEF InStep
    <3> QED BY ONLY <3>3, SameSteps
  <2> QED BY <2>3, <2>4
<1>7. w = body(w)
  <2>1. ASSUME NEW i \in 0..n PROVE w[i] = body(w)[i]
    <3>1. CASE i = 0
      BY <1>5, <3>1
    <3>2. CASE i # 0
      <4>1. i \in 1..n
        BY <1>1, <3>2
      <4>2. w[i] = [at |-> off[i], list |-> Append(w[i - 1].list, s[i])] /\ w[i - 1].at = off[i - 1]
        BY <1>3, <4>1
      <4>3. ReadText(d, w[i - 1].at) = [at |-> off[i], value |-> s[i]]
        BY ONLY <1>4, <4>1, <4>2
      <4>4. body(w)[i] = LET x == ReadText(d, w[i - 1].at)
                         IN [at |-> x.at, list |-> Append(w[i - 1].list, x.value)]
        BY ONLY <3>2, <4>1
      <4> QED BY ONLY <4>2, <4>3, <4>4
    <3> QED BY <3>1, <3>2
  <2> QED BY <1>0, <2>1
<1>8. Gathered(d, at, n, ReadText) = (CHOOSE g : g = body(g))[n]
  BY SMTT(30) DEF Gathered
<1> DEFINE h == CHOOSE g : g = body(g)
<1>9. h = body(h)
  BY <1>7
<1>10. h[n] = w[n]
  <2> HIDE DEF h
  <2>1. \A i \in 0..n : h[i] = body(h)[i]
    BY <1>9
  <2> QED BY <1>6, <2>1, SMTT(30)
<1>11. Gathered(d, at, n, ReadText) = w[n]
  BY <1>8, <1>10
<1>12. w[n] = [at |-> at + Len(Joined(t)), list |-> s]
  BY <1>1, <1>2, <1>3
<1> QED BY <1>11, <1>12 DEF n, t

(* A candidate with its previous transactions is read back.                    *)
FactsCandidate == [transaction : Seq(Nat), previous : Seq(Seq(Nat))]
CandidateCells(c) ==
  <<Len(c.transaction), Len(c.previous)>> \o c.transaction \o Joined(TextsOf(c.previous))
LEMMA CandidateIsOne == ASSUME NEW c \in FactsCandidate PROVE CandidateCells(c) \in Seq(Nat)
<1> DEFINE h == <<Len(c.transaction), Len(c.previous)>>
           x == c.transaction
           y == Joined(TextsOf(c.previous))
<1>1. x \in Seq(Nat) /\ y \in Seq(Nat)
  BY TextsAreTexts DEF FactsCandidate
<1>2. h \in Seq(Nat)
  <2>1. Len(c.transaction) \in Nat /\ Len(c.previous) \in Nat
    BY DEF FactsCandidate
  <2> QED BY <2>1
<1> HIDE DEF h, x, y
<1>3. h \o x \o y \in Seq(Nat)
  BY ONLY <1>1, <1>2
<1> QED BY <1>3 DEF CandidateCells, h, x, y
LEMMA CandidateIsRead ==
  ASSUME NEW T, Nat \subseteq T, NEW d \in Seq(T), NEW at, NEW c \in FactsCandidate,
         Placed(d, at, CandidateCells(c))
  PROVE  ReadCandidate(d, at) = [at |-> at + Len(CandidateCells(c)), value |-> c]
<1> DEFINE m == Len(c.transaction)
           n == Len(c.previous)
           h == <<m, n>>
           x == c.transaction
           y == Joined(TextsOf(c.previous))
<1>1. x \in Seq(Nat) /\ y \in Seq(Nat) /\ c.previous \in Seq(Seq(Nat)) /\ m \in Nat /\ n \in Nat
  BY TextsAreTexts DEF FactsCandidate
<1>2. h \in Seq(Nat) /\ Len(h) = 2 /\ h[1] = m /\ h[2] = n
  BY <1>1
<1>3. CandidateCells(c) = h \o x \o y
  BY DEF CandidateCells
<1>4. Len(x) = m /\ Len(c.previous) = n /\ c = [transaction |-> x, previous |-> c.previous]
  BY DEF FactsCandidate
<1> HIDE DEF h, x, m, n
<1>5. h \in Seq(T) /\ x \in Seq(T) /\ y \in Seq(T)
  BY <1>1, <1>2, WiderTexts
<1> DEFINE l == Len(y)
<1>6. l \in Nat
  BY <1>1
<1> HIDE DEF l, y
<1>7. h \o x \in Seq(T) /\ Len(h \o x) = 2 + m
  <2>1. Len(h \o x) = Len(h) + Len(x) /\ h \o x \in Seq(T)
    BY ONLY <1>5, ConcatProperties
  <2> QED BY <1>2, <1>4, <2>1
<1>8. Len(CandidateCells(c)) = (2 + m) + l
  <2> DEFINE hx == h \o x
  <2>1. Len(hx \o y) = Len(hx) + Len(y)
    <3>1. hx \in Seq(T)
      BY <1>7
    <3> HIDE DEF hx
    <3> QED BY ONLY <1>5, <3>1, ConcatProperties
  <2> QED BY <1>3, <1>7, <2>1 DEF l
<1>9. Placed(d, at, h \o x) /\ Placed(d, at + (2 + m), y)
  BY <1>3, <1>5, <1>7, PlacedInTwo
<1>10. Placed(d, at, h) /\ Placed(d, at + 2, x)
  BY <1>2, <1>5, <1>9, PlacedInTwo
<1>11. at \in Nat /\ d[at + 1] = m /\ d[at + 2] = n
  BY <1>2, <1>10 DEF Placed
<1>12. SubSeq(d, at + 3, at + 2 + m) = x
  <2>1. SubSeq(d, (at + 2) + 1, (at + 2) + Len(x)) = x
    BY <1>5, <1>10, PlacedIsSlice
  <2>2. (at + 2) + 1 = at + 3 /\ (at + 2) + Len(x) = at + 2 + m
    BY <1>4, <1>11
  <2> QED BY <2>1, <2>2
<1>13. Gathered(d, at + 2 + m, n, ReadText) = [at |-> at + ((2 + m) + l), list |-> c.previous]
  <2>1. at + (2 + m) = at + 2 + m /\ (at + 2 + m) + l = at + ((2 + m) + l)
    BY <1>1, <1>6, <1>11
  <2>2. Placed(d, at + 2 + m, Joined(TextsOf(c.previous)))
    BY <1>9, <2>1 DEF y
  <2>3. Gathered(d, at + 2 + m, Len(c.previous), ReadText)
          = [at |-> (at + 2 + m) + Len(Joined(TextsOf(c.previous))), list |-> c.previous]
    BY <1>1, <2>2, TextsAreRead
  <2> QED BY <1>4, <2>1, <2>3 DEF l, y
<1>14. ReadCandidate(d, at) = [at |-> at + ((2 + m) + l), value |-> [transaction |-> x, previous |-> c.previous]]
  <2> DEFINE e == Gathered(d, at + 2 + m, n, ReadText)
  <2>1. ReadCandidate(d, at)
          = LET p == Gathered(d, at + 2 + d[at + 1], d[at + 2], ReadText)
            IN [at |-> p.at, value |-> [transaction |-> SubSeq(d, at + 3, at + 2 + d[at + 1]), previous |-> p.list]]
    BY ONLY DEF ReadCandidate
  <2>2. Gathered(d, at + 2 + d[at + 1], d[at + 2], ReadText) = e
    BY ONLY <1>11
  <2>3. SubSeq(d, at + 3, at + 2 + d[at + 1]) = x
    BY ONLY <1>11, <1>12
  <2>4. e = [at |-> at + ((2 + m) + l), list |-> c.previous]
    BY ONLY <1>13
  <2> HIDE DEF e
  <2>5. ReadCandidate(d, at) = [at |-> e.at, value |-> [transaction |-> x, previous |-> e.list]]
    BY ONLY <2>1, <2>2, <2>3
  <2> QED BY ONLY <2>4, <2>5
<1> QED BY <1>4, <1>8, <1>14

(* The candidates of a request are read back.                                  *)
CandidatesCells(s) == [i \in DOMAIN s |-> CandidateCells(s[i])]
LEMMA CandidatesAreTexts ==
  ASSUME NEW s \in Seq(FactsCandidate)
  PROVE  /\ CandidatesCells(s) \in Seq(Seq(Nat)) /\ Len(CandidatesCells(s)) = Len(s)
         /\ \A i \in 1..Len(s) : s[i] \in FactsCandidate /\ CandidatesCells(s)[i] = CandidateCells(s[i])
         /\ Joined(CandidatesCells(s)) \in Seq(Nat)
<1> DEFINE Z == Seq(Nat)
           C == FactsCandidate
           t == CandidatesCells(s)
           n == Len(s)
<1>1. n \in Nat /\ DOMAIN s = 1..n /\ \A i \in 1..n : s[i] \in C
  <2> HIDE DEF C
  <2>1. s \in Seq(C)
    BY DEF C
  <2> QED BY <2>1
<1>2. \A x \in C : CandidateCells(x) \in Z
  BY CandidateIsOne
<1> HIDE DEF C
<1>3. DOMAIN t = 1..n /\ \A i \in 1..n : t[i] = CandidateCells(s[i])
  BY <1>1 DEF CandidatesCells
<1>4. t \in Seq(Z) /\ Len(t) = n
  <2> HIDE DEF Z, n
  <2>1. t \in [1..n -> Z]
    BY <1>1, <1>2 DEF CandidatesCells
  <2> HIDE DEF t
  <2> QED BY <1>1, <2>1
<1> HIDE DEF t
<1>5. Joined(t) \in Seq(Nat)
  <2>1. << >> \in Seq(Nat)
    OBVIOUS
  <2> QED BY <1>4, <2>1, JoinedOfAppend
<1> QED BY <1>1, <1>3, <1>4, <1>5 DEF t, C
LEMMA CandidatesAreRead ==
  ASSUME NEW T, Nat \subseteq T, NEW d \in Seq(T), NEW at, NEW s \in Seq(FactsCandidate),
         Placed(d, at, Joined(CandidatesCells(s)))
  PROVE  Gathered(d, at, Len(s), ReadCandidate) = [at |-> at + Len(Joined(CandidatesCells(s))), list |-> s]
<1> DEFINE n == Len(s)
           t == CandidatesCells(s)
           body(g) == [i \in 0..n |->
             IF i = 0 THEN [at |-> at, list |-> << >>]
             ELSE LET x == ReadCandidate(d, g[i - 1].at)
                  IN [at |-> x.at, list |-> Append(g[i - 1].list, x.value)]]
<1>1. n \in Nat /\ t \in Seq(Seq(T)) /\ Len(t) = n
      /\ \A i \in 1..n : s[i] \in FactsCandidate /\ t[i] = CandidateCells(s[i])
  BY CandidatesAreTexts, WiderTexts
<1>2. PICK off : Offsets(d, at, t, off) /\ off[Len(t)] = at + Len(Joined(t))
  BY <1>1, JoinedOffsets
<1> DEFINE w == Grown(off, s)
<1>3. /\ w[0] = [at |-> off[0], list |-> << >>] /\ w[n] = [at |-> off[n], list |-> s]
      /\ \A i \in 1..n : /\ w[i - 1].at = off[i - 1]
                         /\ w[i] = [at |-> off[i], list |-> Append(w[i - 1].list, s[i])]
  <2> DEFINE C == FactsCandidate
  <2>1. s \in Seq(C)
    OBVIOUS
  <2> HIDE DEF C
  <2>2. IsGrown(Grown(off, s), off, s)
    BY ONLY <2>1, GrownIs
  <2> QED BY ONLY <2>2 DEF IsGrown
<1>0. w = [i \in 0..n |-> w[i]]
  BY DEF Grown
<1> HIDE DEF w, t
<1>4. ASSUME NEW i \in 1..n PROVE ReadCandidate(d, off[i - 1]) = [at |-> off[i], value |-> s[i]]
  <2>1. off[i] = off[i - 1] + Len(CandidateCells(s[i])) /\ Placed(d, off[i - 1], CandidateCells(s[i]))
    BY <1>1, <1>2 DEF Offsets
  <2>2. s[i] \in FactsCandidate /\ Nat \subseteq T /\ d \in Seq(T)
    BY <1>1
  <2> DEFINE x == s[i]
             o == off[i - 1]
  <2>3. x \in FactsCandidate /\ Placed(d, o, CandidateCells(x))
    BY ONLY <2>1, <2>2
  <2> HIDE DEF x, o
  <2>4. ReadCandidate(d, o) = [at |-> o + Len(CandidateCells(x)), value |-> x]
    BY ONLY <2>2, <2>3, CandidateIsRead
  <2> QED BY ONLY <2>1, <2>4 DEF x, o
<1> HIDE DEF n
<1>5. w[0] = [at |-> at, list |-> << >>]
  BY <1>2, <1>3 DEF Offsets
<1>6. ASSUME NEW g, \A i \in 0..n : g[i] = body(g)[i] PROVE g[n] = w[n]
  <2>1. g[0] = w[0]
    <3>1. 0 \in 0..n
      BY <1>1
    <3> QED BY <1>5, <1>6, <3>1
  <2>2. ASSUME NEW i \in 1..n, g[i - 1] = w[i - 1] PROVE g[i] = w[i]
    <3>1. i \in 0..n /\ i # 0
      BY <1>1
    <3>2. g[i] = LET x == ReadCandidate(d, g[i - 1].at)
                 IN [at |-> x.at, list |-> Append(g[i - 1].list, x.value)]
      BY <1>6, <3>1
    <3>3. w[i - 1].at = off[i - 1] /\ w[i] = [at |-> off[i], list |-> Append(w[i - 1].list, s[i])]
      BY ONLY <1>3
    <3>4. ReadCandidate(d, g[i - 1].at) = [at |-> off[i], value |-> s[i]]
      <4>1. g[i - 1].at = off[i - 1]
        BY ONLY <2>2, <3>3
      <4> QED BY ONLY <4>1, <1>4
    <3> DEFINE e == ReadCandidate(d, g[i - 1].at)
    <3>5. g[i] = [at |-> e.at, list |-> Append(g[i - 1].list, e.value)]
      BY ONLY <3>2
    <3>6. e = [at |-> off[i], value |-> s[i]]
      BY ONLY <3>4
    <3> HIDE DEF e
    <3>7. e.at = off[i] /\ e.value = s[i]
      BY ONLY <3>6
    <3>8. g[i - 1].list = w[i - 1].list
      BY ONLY <2>2
    <3>9. g[i] = [at |-> off[i], list |-> Append(w[i - 1].list, s[i])]
      BY ONLY <3>5, <3>7, <3>8
    <3> QED BY ONLY <3>3, <3>9
  <2>3. n \in 0..n
    BY <1>1
  <2>4. \A i \in 0..n : g[i] = w[i]
    <3>1. \A i \in 1..n : g[i - 1] = w[i - 1] => g[i] = w[i]
      BY ONLY <2>2
    <3>2. n \in Nat
      BY ONLY <1>1
    <3>3. InStep(n, g, w)
      BY ONLY <2>1, <3>1, <3>2 DEF InStep
    <3> QED BY ONLY <3>3, SameSteps
  <2> QED BY <2>3, <2>4
<1>7. w = body(w)
  <2>1. ASSUME NEW i \in 0..n PROVE w[i] = body(w)[i]
    <3>1. CASE i = 0
      BY <1>5, <3>1
    <3>2. CASE i # 0
      <4>1. i \in 1..n
        BY <1>1, <3>2
      <4>2. w[i] = [at |-> off[i], list |-> Append(w[i - 1].list, s[i])] /\ w[i - 1].at = off[i - 1]
        BY <1>3, <4>1
      <4>3. ReadCandidate(d, w[i - 1].at) = [at |-> off[i], value |-> s[i]]
        BY ONLY <1>4, <4>1, <4>2
      <4>4. body(w)[i] = LET x == ReadCandidate(d, w[i - 1].at)
                         IN [at |-> x.at, list |-> Append(w[i - 1].list, x.value)]
        BY ONLY <3>2, <4>1
      <4> QED BY ONLY <4>2, <4>3, <4>4
    <3> QED BY <3>1, <3>2
  <2> QED BY <1>0, <2>1
<1>8. Gathered(d, at, n, ReadCandidate) = (CHOOSE g : g = body(g))[n]
  BY SMTT(30) DEF Gathered
<1> DEFINE h == CHOOSE g : g = body(g)
<1>9. h = body(h)
  BY <1>7
<1>10. h[n] = w[n]
  <2> HIDE DEF h
  <2>1. \A i \in 0..n : h[i] = body(h)[i]
    BY <1>9
  <2> QED BY <1>6, <2>1, SMTT(30)
<1>11. Gathered(d, at, n, ReadCandidate) = w[n]
  BY <1>8, <1>10
<1>12. w[n] = [at |-> at + Len(Joined(t)), list |-> s]
  BY <1>1, <1>2, <1>3
<1> QED BY <1>11, <1>12 DEF n, t

(* All of a text is in it.                                                     *)
LEMMA AllIsPlaced == ASSUME NEW T, NEW d \in Seq(T) PROVE Placed(d, 0, d)
<1> DEFINE m == Len(d)
<1>1. m \in Nat
  OBVIOUS
<1> HIDE DEF m
<1>2. 0 \in Nat /\ 0 + m <= m /\ \A k \in 1..m : d[0 + k] = d[k]
  BY ONLY <1>1
<1> QED BY <1>2 DEF Placed, m

(* A request is read back.                                                     *)
RequestRecipe ==
  [kind : {"request"}, epoch : Nat, network : Nat, derivation : Nat,
   descriptor : Seq({"valid", "semantic"}), candidates : Seq(FactsCandidate)]
Prevs(s) == SumOf(Each(s, LAMBDA c : Len(c.previous)))
LEMMA RequestIsReadBack ==
  ASSUME NEW r \in RequestRecipe
  PROVE  EncodeRequest(r) \in Seq(Cell) /\ DecodeRequest(EncodeRequest(r)) = r
<1> DEFINE x == r.descriptor
           s == r.candidates
           m == Len(x)
           n == Len(s)
           p == Prevs(s)
           h == <<r.network, r.derivation, r.epoch, m, n, p>>
           y == Joined(CandidatesCells(s))
           d == EncodeRequest(r)
<1>1. x \in Seq({"valid", "semantic"}) /\ s \in Seq(FactsCandidate) /\ r.network \in Nat
      /\ r.derivation \in Nat /\ r.epoch \in Nat /\ r.kind = "request"
  BY DEF RequestRecipe
<1>2. r = [kind |-> "request", epoch |-> r.epoch, network |-> r.network, derivation |-> r.derivation,
           descriptor |-> x, candidates |-> s]
  BY DEF RequestRecipe
<1>3. m \in Nat /\ n \in Nat
  <2> DEFINE C == FactsCandidate
             D == {"valid", "semantic"}
  <2>1. x \in Seq(D) /\ s \in Seq(C)
    BY <1>1
  <2> HIDE DEF C, D, x, s
  <2> QED BY ONLY <2>1
<1>4. p \in Nat
  <2> DEFINE e == Each(s, LAMBDA c : Len(c.previous))
  <2>1. \A i \in DOMAIN s : Len(s[i].previous) \in Nat
    <3> DEFINE C == FactsCandidate
    <3>1. s \in Seq(C)
      BY <1>1
    <3> HIDE DEF C, s
    <3>2. \A i \in DOMAIN s : s[i] \in C
      BY ONLY <3>1
    <3>3. \A i \in DOMAIN s : s[i].previous \in Seq(Seq(Nat))
      BY <3>2 DEF C, FactsCandidate
    <3> QED BY <3>3
  <2>2. DOMAIN s = 1..n
    <3> DEFINE C == FactsCandidate
    <3>1. s \in Seq(C)
      BY <1>1
    <3> HIDE DEF C, s
    <3> QED BY ONLY <3>1
  <2>3. e \in Seq(Nat)
    <3>1. e = [i \in 1..n |-> Len(s[i].previous)]
      BY <2>2 DEF Each
    <3> HIDE DEF e, s, n
    <3> QED BY <1>3, <2>1, <2>2, <3>1
  <2> HIDE DEF e
  <2>4. SumOf(e) \in Nat
    BY <2>3, SumOfAppend
  <2> QED BY <2>4 DEF e, Prevs
<1>5. h \in Seq(Nat) /\ Len(h) = 6 /\ h[1] = r.network /\ h[2] = r.derivation /\ h[3] = r.epoch
      /\ h[4] = m /\ h[5] = n /\ h[6] = p
  <2> HIDE DEF m, n, p
  <2> QED BY <1>1, <1>3, <1>4
<1>6. y \in Seq(Nat)
  BY <1>1, CandidatesAreTexts
<1>7. d = h \o x \o y
  BY DEF EncodeRequest, Prevs, CandidatesCells, CandidateCells, TextsOf, TextCells, Each
<1> HIDE DEF h, x, s, m, n, p, y, d
<1>8. h \in Seq(Cell) /\ x \in Seq(Cell) /\ y \in Seq(Cell)
  <2>1. Nat \subseteq Cell /\ {"valid", "semantic"} \subseteq Cell
    BY DEF Cell
  <2>2. h \in Seq(Cell) /\ y \in Seq(Cell)
    BY <1>5, <1>6, <2>1, WiderTexts
  <2>3. x \in Seq(Cell)
    <3> DEFINE D == {"valid", "semantic"}
    <3>1. D \subseteq Cell /\ x \in Seq(D)
      BY <1>1, <2>1
    <3> HIDE DEF D
    <3> QED BY ONLY <3>1, WiderTexts
  <2> QED BY <2>2, <2>3
<1>9. h \o x \in Seq(Cell) /\ Len(h \o x) = 6 + m /\ d \in Seq(Cell)
  <2> DEFINE hx == h \o x
  <2>1. hx \in Seq(Cell) /\ Len(hx) = Len(h) + Len(x)
    BY ONLY <1>8, ConcatProperties
  <2>2. Len(hx) = 6 + m
    BY <1>5, <2>1 DEF m
  <2>3. d = hx \o y
    BY <1>7
  <2> HIDE DEF hx
  <2>4. d \in Seq(Cell)
    BY ONLY <1>8, <2>1, <2>3, ConcatProperties
  <2> QED BY <2>1, <2>2, <2>4 DEF hx
<1>10. Placed(d, 0, h \o x) /\ Placed(d, 6 + m, y)
  <2>1. Placed(d, 0, d)
    BY ONLY <1>9, AllIsPlaced
  <2> DEFINE hx == h \o x
  <2>2. hx \in Seq(Cell) /\ Len(hx) = 6 + m /\ Placed(d, 0, hx \o y)
    BY <1>7, <1>9, <2>1
  <2> HIDE DEF hx
  <2>3. Placed(d, 0, hx) /\ Placed(d, 0 + Len(hx), y)
    BY ONLY <1>8, <1>9, <2>2, PlacedInTwo
  <2>4. 0 + Len(hx) = 6 + m
    BY ONLY <1>3, <2>2
  <2> QED BY ONLY <2>3, <2>4 DEF hx
<1>11. Placed(d, 0, h) /\ Placed(d, 6, x)
  <2>1. Placed(d, 0, h) /\ Placed(d, 0 + Len(h), x)
    BY ONLY <1>8, <1>9, <1>10, PlacedInTwo
  <2>2. 0 + Len(h) = 6
    BY ONLY <1>5
  <2> QED BY ONLY <2>1, <2>2
<1>12. \A k \in 1..6 : d[k] = h[k]
  <2>1. \A k \in 1..6 : d[0 + k] = h[k]
    BY ONLY <1>5, <1>11 DEF Placed
  <2> QED BY ONLY <2>1
<1>13. d[1] = r.network /\ d[2] = r.derivation /\ d[3] = r.epoch /\ d[4] = m /\ d[5] = n /\ d[6] = p
  BY ONLY <1>5, <1>12
<1>14. SubSeq(d, 7, 6 + d[4]) = x
  <2>1. SubSeq(d, 6 + 1, 6 + Len(x)) = x
    BY ONLY <1>8, <1>9, <1>11, PlacedIsSlice
  <2>2. 6 + 1 = 7 /\ 6 + Len(x) = 6 + d[4]
    BY <1>13 DEF m
  <2> QED BY ONLY <2>1, <2>2
<1>15. Gathered(d, 6 + d[4], d[5], ReadCandidate).list = s
  <2>1. Placed(d, 6 + m, Joined(CandidatesCells(s))) /\ Nat \subseteq Cell /\ s \in Seq(FactsCandidate)
    BY <1>1, <1>10 DEF y, Cell, s
  <2>2. Gathered(d, 6 + m, Len(s), ReadCandidate) = [at |-> (6 + m) + Len(Joined(CandidatesCells(s))), list |-> s]
    BY ONLY <1>9, <2>1, CandidatesAreRead
  <2>3. Gathered(d, 6 + d[4], d[5], ReadCandidate) = Gathered(d, 6 + m, Len(s), ReadCandidate)
    BY ONLY <1>13 DEF n
  <2> QED BY ONLY <2>2, <2>3
<1>16. DecodeRequest(d) = [kind |-> "request", network |-> d[1], derivation |-> d[2], epoch |-> d[3],
                           descriptor |-> SubSeq(d, 7, 6 + d[4]), candidates |-> s]
  <2> DEFINE c == Gathered(d, 6 + d[4], d[5], ReadCandidate).list
  <2>1. DecodeRequest(d) = IF Prevs(c) # d[6] THEN None
          ELSE [kind |-> "request", network |-> d[1], derivation |-> d[2], epoch |-> d[3],
                descriptor |-> SubSeq(d, 7, 6 + d[4]), candidates |-> c]
    BY DEF DecodeRequest, Prevs
  <2>2. c = s
    BY ONLY <1>15
  <2>3. Prevs(c) = d[6]
    BY ONLY <1>13, <2>2 DEF p
  <2> HIDE DEF c
  <2> QED BY ONLY <2>1, <2>2, <2>3
<1>17. DecodeRequest(d) = r
  BY ONLY <1>2, <1>13, <1>14, <1>16
<1> QED BY <1>9, <1>17 DEF d

(* Texts of w cells each, one after the other, are found by counting.          *)
Evenly(T, d, s, at, w) ==
  /\ d \in Seq(T) /\ s \in Seq(Seq(T)) /\ w \in Nat
  /\ Placed(d, at, Joined(s)) /\ \A i \in 1..Len(s) : Len(s[i]) = w
LEMMA RowsAreRead ==
  ASSUME NEW T, NEW d, NEW s, NEW at, NEW w, Evenly(T, d, s, at, w)
  PROVE  /\ at \in Nat /\ Len(Joined(s)) = w * Len(s)
         /\ \A i \in 1..Len(s), k \in 1..w : d[(at + w * (i - 1)) + k] = s[i][k]
<1> DEFINE n == Len(s)
           J == Joined(s)
<1> USE DEF Evenly
<1>1. n \in Nat /\ at \in Nat
  BY DEF Placed
<1>2. PICK off : Offsets(d, at, s, off) /\ off[n] = at + Len(J)
  BY JoinedOffsets
<1>3. J \in Seq(T) /\ Len(J) \in Nat
  <2>1. J \in Seq(T)
    BY JoinedOfAppend, << >> \in Seq(T)
  <2> HIDE DEF J
  <2> QED BY <2>1
<1> HIDE DEF n, J
<1>4. /\ off \in [0..n -> Nat] /\ off[0] = at
      /\ \A i \in 1..n : off[i] = off[i - 1] + w /\ Placed(d, off[i - 1], s[i])
  BY <1>2 DEF Offsets, n
<1> DEFINE EvenAt(i) == off[i] = at + w * i
           S == {i \in Nat : i <= n => EvenAt(i)}
<1>5. 0 \in S
  BY <1>1, <1>4
<1>6. ASSUME NEW i \in S PROVE i + 1 \in S
  <2> SUFFICES ASSUME i + 1 <= n PROVE EvenAt(i + 1)
    <3> HIDE DEF EvenAt
    <3> QED OBVIOUS
  <2>1. i \in Nat /\ i + 1 \in 1..n /\ (i + 1) - 1 = i
    BY <1>1
  <2>2. off[i] = at + w * i
    BY <1>1, <2>1
  <2>3. off[i + 1] = off[i] + w
    BY <1>4, <2>1
  <2>4. w * (i + 1) = w * i + w /\ w * i \in Nat
    BY <2>1
  <2> DEFINE x == w * i
             y == w * (i + 1)
  <2> HIDE DEF x, y, EvenAt
  <2>5. off[i + 1] = at + y
    BY <1>1, <2>2, <2>3, <2>4 DEF x, y
  <2> QED BY <2>5 DEF EvenAt, y
<1>7. S = Nat
  <2> HIDE DEF S
  <2>1. S \in SUBSET Nat
    BY DEF S
  <2> QED BY <1>5, <1>6, <2>1, NumberInduction
<1>8. \A i \in 0..n : EvenAt(i)
  <2> HIDE DEF EvenAt
  <2> QED BY <1>1, <1>7
<1> HIDE DEF S
<1>9. Len(J) = w * n
  <2>1. off[n] = at + w * n
    BY <1>1, <1>8
  <2> DEFINE x == w * n
  <2>2. x \in Nat
    BY <1>1
  <2> HIDE DEF x
  <2> QED BY <1>1, <1>2, <1>3, <2>1, <2>2 DEF x
<1>10. ASSUME NEW i \in 1..n, NEW k \in 1..w PROVE d[(at + w * (i - 1)) + k] = s[i][k]
  <2>1. i - 1 \in 0..n
    BY <1>1
  <2>2. off[i - 1] = at + w * (i - 1)
    BY <1>8, <2>1
  <2>3. Placed(d, off[i - 1], s[i]) /\ Len(s[i]) = w
    BY <1>4 DEF n
  <2>4. d[off[i - 1] + k] = s[i][k]
    BY <2>3 DEF Placed
  <2> HIDE DEF EvenAt
  <2> QED BY ONLY <2>2, <2>4
<1> QED BY <1>1, <1>9, <1>10 DEF n, J

(* Cells of a transaction and of the outputs that name it.                     *)
FactsTransaction == [id : Nat, binding : Nat, inputs : Seq(Nat \X Nat)]
FactsOutput ==
  [id : Nat, index : Nat, binding : Nat, derivation : Nat, asset : Nat, value : Nat, known : BOOLEAN]
OutputCells(o) == <<o.index, o.derivation, o.asset, o.value>>
OutputsCells(s) == [i \in DOMAIN s |-> OutputCells(s[i])]
BlockCells(t, g) ==
  <<t.id, t.binding, Len(t.inputs), Len(g)>> \o Joined(t.inputs) \o Joined(OutputsCells(g))
LEMMA InputsAreTexts ==
  ASSUME NEW s \in Seq(Nat \X Nat)
  PROVE  /\ s \in Seq(Seq(Nat)) /\ Len(s) \in Nat /\ Joined(s) \in Seq(Nat)
         /\ \A i \in 1..Len(s) : Len(s[i]) = 2 /\ s[i] = <<s[i][1], s[i][2]>>
<1> DEFINE P == Nat \X Nat
           Z == Seq(Nat)
           n == Len(s)
<1>1. \A p \in P : p \in Z /\ Len(p) = 2 /\ p = <<p[1], p[2]>>
  <2> TAKE p \in P
  <2>1. PICK a \in Nat, b \in Nat : p = <<a, b>>
    OBVIOUS
  <2>2. <<a, b>> \in Seq(Nat) /\ Len(<<a, b>>) = 2
    OBVIOUS
  <2>3. p[1] = a /\ p[2] = b
    BY ONLY <2>1
  <2> QED BY ONLY <2>1, <2>2, <2>3
<1> HIDE DEF P, Z
<1>2. s \in Seq(P)
  BY DEF P
<1>3. n \in Nat /\ \A i \in 1..n : s[i] \in P
  BY ONLY <1>2
<1>4. s \in Seq(Z)
  BY ONLY <1>1, <1>2
<1> HIDE DEF n
<1>5. \A i \in 1..n : Len(s[i]) = 2 /\ s[i] = <<s[i][1], s[i][2]>>
  <2> TAKE i \in 1..n
  <2> DEFINE p == s[i]
  <2>1. p \in P
    BY <1>3
  <2> HIDE DEF p
  <2>2. Len(p) = 2 /\ p = <<p[1], p[2]>>
    BY <1>1, <2>1
  <2> QED BY ONLY <2>2 DEF p
<1>6. Joined(s) \in Seq(Nat)
  <2>1. << >> \in Seq(Nat)
    OBVIOUS
  <2> QED BY <1>4, <2>1, JoinedOfAppend DEF Z
<1> QED BY <1>3, <1>4, <1>5, <1>6 DEF n, Z
LEMMA OutputsAreTexts ==
  ASSUME NEW s \in Seq(FactsOutput)
  PROVE  /\ OutputsCells(s) \in Seq(Seq(Nat)) /\ Len(OutputsCells(s)) = Len(s) /\ Len(s) \in Nat
         /\ \A i \in 1..Len(s) : /\ s[i] \in FactsOutput /\ OutputsCells(s)[i] = OutputCells(s[i])
                                 /\ Len(OutputsCells(s)[i]) = 4
         /\ Joined(OutputsCells(s)) \in Seq(Nat)
<1> DEFINE Z == Seq(Nat)
           C == FactsOutput
           t == OutputsCells(s)
           n == Len(s)
<1>1. n \in Nat /\ DOMAIN s = 1..n /\ \A i \in 1..n : s[i] \in C
  <2> HIDE DEF C
  <2>1. s \in Seq(C)
    BY DEF C
  <2> QED BY <2>1
<1>2. \A x \in C : OutputCells(x) \in Z /\ Len(OutputCells(x)) = 4
  BY DEF OutputCells, FactsOutput
<1> HIDE DEF C
<1>3. DOMAIN t = 1..n /\ \A i \in 1..n : t[i] = OutputCells(s[i])
  BY <1>1 DEF OutputsCells
<1>4. t \in Seq(Z) /\ Len(t) = n
  <2> HIDE DEF Z, n
  <2>1. t \in [1..n -> Z]
    BY <1>1, <1>2 DEF OutputsCells
  <2> HIDE DEF t
  <2> QED BY <1>1, <2>1
<1> HIDE DEF t
<1>5. Joined(t) \in Seq(Nat)
  <2>1. << >> \in Seq(Nat)
    OBVIOUS
  <2> QED BY <1>4, <2>1, JoinedOfAppend
<1>6. \A i \in 1..n : Len(t[i]) = 4
  <2> TAKE i \in 1..n
  <2> DEFINE x == s[i]
  <2>1. x \in C /\ t[i] = OutputCells(x)
    BY ONLY <1>1, <1>3
  <2> HIDE DEF x
  <2>2. Len(OutputCells(x)) = 4
    BY ONLY <1>2, <2>1
  <2> QED BY ONLY <2>1, <2>2
<1> HIDE DEF n
<1>7. OutputsCells(s) \in Seq(Seq(Nat)) /\ Len(OutputsCells(s)) = Len(s) /\ Len(s) \in Nat
  BY ONLY <1>1, <1>4 DEF t, n, Z
<1>8. \A i \in 1..Len(s) : /\ s[i] \in FactsOutput /\ OutputsCells(s)[i] = OutputCells(s[i])
                            /\ Len(OutputsCells(s)[i]) = 4
  BY ONLY <1>1, <1>3, <1>6 DEF t, n, C
<1> QED BY ONLY <1>5, <1>7, <1>8 DEF t

(* What the reader of responses makes of so many inputs and outputs.           *)
ReadInputs(d, ins, n) == [k \in 1..n |-> <<d[ins + (2 * k) - 1], d[ins + (2 * k)]>>]
ReadOutputRow(d, at, c) ==
  [id |-> d[at + 1], index |-> d[c + 1], binding |-> d[at + 2],
   derivation |-> d[c + 2], asset |-> d[c + 3], value |-> d[c + 4], known |-> TRUE]
ReadOutputs(d, at, outs, m) == [k \in 1..m |-> ReadOutputRow(d, at, outs + (4 * (k - 1)))]
LEMMA InputsAreRead ==
  ASSUME NEW T, Nat \subseteq T, NEW d \in Seq(T), NEW at, NEW s \in Seq(Nat \X Nat),
         Placed(d, at, Joined(s))
  PROVE  Len(Joined(s)) = 2 * Len(s) /\ ReadInputs(d, at, Len(s)) = s
<1> DEFINE n == Len(s)
           f == ReadInputs(d, at, n)
<1>1. s \in Seq(Seq(T)) /\ n \in Nat /\ \A i \in 1..n : Len(s[i]) = 2 /\ s[i] = <<s[i][1], s[i][2]>>
  BY InputsAreTexts, WiderTexts
<1>2. at \in Nat /\ Len(Joined(s)) = 2 * n /\ \A i \in 1..n, k \in 1..2 : d[(at + 2 * (i - 1)) + k] = s[i][k]
  <2> DEFINE w == 2
  <2>1. Evenly(T, d, s, at, w)
    BY <1>1 DEF Evenly
  <2> HIDE DEF w, n
  <2>2. /\ at \in Nat /\ Len(Joined(s)) = w * Len(s)
        /\ \A i \in 1..Len(s), k \in 1..w : d[(at + w * (i - 1)) + k] = s[i][k]
    BY ONLY <2>1, RowsAreRead
  <2> QED BY ONLY <2>2 DEF w, n
<1>3. s = [i \in 1..n |-> s[i]]
  <2> DEFINE P == Nat \X Nat
  <2>1. s \in Seq(P)
    OBVIOUS
  <2> HIDE DEF P
  <2> QED BY <2>1
<1> HIDE DEF n
<1>4. ASSUME NEW i \in 1..n PROVE <<d[at + (2 * i) - 1], d[at + (2 * i)]>> = s[i]
  <2>1. (at + 2 * (i - 1)) + 1 = at + (2 * i) - 1 /\ (at + 2 * (i - 1)) + 2 = at + (2 * i)
    BY <1>1, <1>2
  <2>2. 1 \in 1..2 /\ 2 \in 1..2
    OBVIOUS
  <2>3. d[(at + 2 * (i - 1)) + 1] = s[i][1] /\ d[(at + 2 * (i - 1)) + 2] = s[i][2]
    BY ONLY <1>2, <2>2
  <2>4. s[i] = <<s[i][1], s[i][2]>>
    BY <1>1
  <2> QED BY ONLY <2>1, <2>3, <2>4
<1>5. f = [i \in 1..n |-> s[i]]
  BY <1>4 DEF ReadInputs
<1> QED BY <1>2, <1>3, <1>5 DEF n
LEMMA OutputsAreRead ==
  ASSUME NEW T, Nat \subseteq T, NEW d \in Seq(T), NEW at, NEW o, NEW s \in Seq(FactsOutput),
         Placed(d, o, Joined(OutputsCells(s))),
         \A k \in 1..Len(s) : s[k].id = d[at + 1] /\ s[k].binding = d[at + 2] /\ s[k].known = TRUE
  PROVE  Len(Joined(OutputsCells(s))) = 4 * Len(s) /\ ReadOutputs(d, at, o, Len(s)) = s
<1> DEFINE n == Len(s)
           q == OutputsCells(s)
           f == ReadOutputs(d, at, o, n)
<1>1. q \in Seq(Seq(T)) /\ Len(q) = n /\ n \in Nat
      /\ \A i \in 1..n : s[i] \in FactsOutput /\ q[i] = OutputCells(s[i]) /\ Len(q[i]) = 4
  BY OutputsAreTexts, WiderTexts
<1>2. Placed(d, o, Joined(q)) /\ \A i \in 1..n : s[i].id = d[at + 1] /\ s[i].binding = d[at + 2] /\ s[i].known = TRUE
  OBVIOUS
<1>3. s = [i \in 1..n |-> s[i]]
  <2> DEFINE P == FactsOutput
  <2>1. s \in Seq(P)
    OBVIOUS
  <2> HIDE DEF P
  <2> QED BY <2>1
<1> HIDE DEF n, q
<1>4. o \in Nat /\ Len(Joined(q)) = 4 * n /\ \A i \in 1..n, k \in 1..4 : d[(o + 4 * (i - 1)) + k] = q[i][k]
  <2>1. \A i \in 1..Len(q) : Len(q[i]) = 4
    BY ONLY <1>1
  <2> DEFINE w == 4
  <2>2. w \in Nat /\ d \in Seq(T) /\ Evenly(T, d, q, o, w)
    BY ONLY <1>1, <1>2, <2>1, d \in Seq(T) DEF Evenly
  <2> HIDE DEF w
  <2>3. /\ o \in Nat /\ Len(Joined(q)) = w * Len(q)
        /\ \A i \in 1..Len(q), k \in 1..w : d[(o + w * (i - 1)) + k] = q[i][k]
    <3>1. Evenly(T, d, q, o, w)
      BY ONLY <2>2
    <3> QED BY ONLY <3>1, RowsAreRead
  <2> QED BY ONLY <1>1, <2>3 DEF w
<1>5. ASSUME NEW i \in 1..n PROVE ReadOutputRow(d, at, o + (4 * (i - 1))) = s[i]
  <2> DEFINE c == o + (4 * (i - 1))
             x == s[i]
  <2>1. q[i] = <<x.index, x.derivation, x.asset, x.value>>
    BY <1>1 DEF OutputCells
  <2>2. \A k \in 1..4 : d[c + k] = q[i][k]
    BY ONLY <1>4
  <2> HIDE DEF c
  <2>3. d[c + 1] = q[i][1] /\ d[c + 2] = q[i][2] /\ d[c + 3] = q[i][3] /\ d[c + 4] = q[i][4]
    BY ONLY <2>2
  <2>4. x.id = d[at + 1] /\ x.binding = d[at + 2] /\ x.known = TRUE /\ x \in FactsOutput
    BY <1>1, <1>2
  <2> HIDE DEF x
  <2>5. d[c + 1] = x.index /\ d[c + 2] = x.derivation /\ d[c + 3] = x.asset /\ d[c + 4] = x.value
    BY ONLY <2>1, <2>3
  <2>6. x = [id |-> x.id, index |-> x.index, binding |-> x.binding, derivation |-> x.derivation,
             asset |-> x.asset, value |-> x.value, known |-> x.known]
    BY ONLY <2>4 DEF FactsOutput
  <2>7. ReadOutputRow(d, at, c) = x
    BY ONLY <2>4, <2>5, <2>6 DEF ReadOutputRow
  <2> QED BY ONLY <2>7 DEF c, x
<1>6. f = [i \in 1..n |-> s[i]]
  BY <1>5 DEF ReadOutputs
<1> QED BY <1>3, <1>4, <1>6 DEF n, q

(* A block is read back.                                                       *)
BlockAt(T, d, at, t, g) ==
  /\ Nat \subseteq T /\ d \in Seq(T) /\ t \in FactsTransaction /\ g \in Seq(FactsOutput)
  /\ Placed(d, at, BlockCells(t, g))
  /\ \A k \in 1..Len(g) : g[k].id = t.id /\ g[k].binding = t.binding /\ g[k].known = TRUE
LEMMA BlockIsRead ==
  ASSUME NEW T, NEW d, NEW at, NEW t, NEW g, BlockAt(T, d, at, t, g)
  PROVE  /\ BlockCells(t, g) \in Seq(Nat)
         /\ d[at + 1] = t.id /\ d[at + 2] = t.binding /\ d[at + 3] = Len(t.inputs) /\ d[at + 4] = Len(g)
         /\ at + Len(BlockCells(t, g)) = ((at + 4) + (2 * Len(t.inputs))) + (4 * Len(g))
         /\ ReadInputs(d, at + 4, Len(t.inputs)) = t.inputs
         /\ ReadOutputs(d, at, (at + 4) + (2 * Len(t.inputs)), Len(g)) = g
<1> DEFINE n == Len(t.inputs)
           m == Len(g)
           h == <<t.id, t.binding, n, m>>
           x == Joined(t.inputs)
           y == Joined(OutputsCells(g))
           b == BlockCells(t, g)
<1> USE DEF BlockAt
<1>1. x \in Seq(Nat) /\ y \in Seq(Nat) /\ n \in Nat /\ m \in Nat /\ t.id \in Nat /\ t.binding \in Nat
      /\ t.inputs \in Seq(Nat \X Nat)
  BY InputsAreTexts, OutputsAreTexts DEF FactsTransaction
<1>2. h \in Seq(Nat) /\ Len(h) = 4 /\ h[1] = t.id /\ h[2] = t.binding /\ h[3] = n /\ h[4] = m
  <2> HIDE DEF n, m
  <2> QED BY <1>1
<1>3. b = h \o x \o y
  BY DEF BlockCells
<1>4. at \in Nat /\ Placed(d, at, b)
  BY DEF Placed
<1>a. \A k \in 1..m : g[k].id = t.id /\ g[k].binding = t.binding /\ g[k].known = TRUE
  OBVIOUS
<1> HIDE DEF n, m, h, x, y, b
<1>5. h \in Seq(T) /\ x \in Seq(T) /\ y \in Seq(T)
  BY <1>1, <1>2, WiderTexts
<1> DEFINE i == Len(x)
           l == Len(y)
           hx == h \o x
<1>6. i \in Nat /\ l \in Nat
  BY <1>1
<1>7. hx \in Seq(Nat) /\ hx \in Seq(T) /\ Len(hx) = 4 + i
  <2>1. hx \in Seq(T) /\ Len(hx) = Len(h) + Len(x)
    BY ONLY <1>5, ConcatProperties
  <2>2. hx \in Seq(Nat)
    BY ONLY <1>1, <1>2, ConcatProperties
  <2> QED BY <1>2, <2>1, <2>2
<1> HIDE DEF i, l, hx
<1>8. b = hx \o y
  BY ONLY <1>3 DEF hx
<1>9. b \in Seq(Nat) /\ Len(b) = (4 + i) + l
  <2>1. b \in Seq(Nat) /\ Len(b) = Len(hx) + Len(y)
    BY ONLY <1>1, <1>7, <1>8, ConcatProperties
  <2> QED BY ONLY <1>7, <2>1 DEF l
<1>10. Placed(d, at, hx) /\ Placed(d, at + (4 + i), y)
  <2>1. Placed(d, at, hx \o y) /\ d \in Seq(T)
    BY <1>4, <1>8
  <2>2. Placed(d, at, hx) /\ Placed(d, at + Len(hx), y)
    BY ONLY <1>5, <1>7, <2>1, PlacedInTwo
  <2> QED BY ONLY <1>7, <2>2
<1>11. Placed(d, at, h) /\ Placed(d, at + 4, x)
  <2>1. Placed(d, at, h \o x) /\ d \in Seq(T)
    BY <1>10 DEF hx
  <2>2. Placed(d, at, h) /\ Placed(d, at + Len(h), x)
    BY ONLY <1>5, <2>1, PlacedInTwo
  <2> QED BY ONLY <1>2, <2>2
<1>12. d[at + 1] = t.id /\ d[at + 2] = t.binding /\ d[at + 3] = n /\ d[at + 4] = m
  <2>1. \A k \in 1..4 : d[at + k] = h[k]
    BY ONLY <1>2, <1>11 DEF Placed
  <2>2. d[at + 1] = h[1] /\ d[at + 2] = h[2] /\ d[at + 3] = h[3] /\ d[at + 4] = h[4]
    BY ONLY <2>1
  <2> QED BY ONLY <1>2, <2>2
<1>13. i = 2 * n /\ ReadInputs(d, at + 4, n) = t.inputs
  <2>1. Placed(d, at + 4, Joined(t.inputs)) /\ Nat \subseteq T /\ d \in Seq(T)
    BY <1>11 DEF x
  <2> DEFINE s == t.inputs
  <2> HIDE DEF s
  <2>2. s \in Seq(Nat \X Nat) /\ Placed(d, at + 4, Joined(s))
    BY ONLY <1>1, <2>1 DEF s
  <2>3. Len(Joined(s)) = 2 * Len(s) /\ ReadInputs(d, at + 4, Len(s)) = s
    BY ONLY <2>1, <2>2, InputsAreRead
  <2> QED BY ONLY <2>3 DEF s, n, i, x
<1>14. at + (4 + i) = (at + 4) + (2 * n)
  BY ONLY <1>1, <1>4, <1>13
<1>15. l = 4 * m /\ ReadOutputs(d, at, (at + 4) + (2 * n), m) = g
  <2> DEFINE o == (at + 4) + (2 * n)
  <2>1. Placed(d, o, Joined(OutputsCells(g))) /\ Nat \subseteq T /\ d \in Seq(T) /\ g \in Seq(FactsOutput)
    BY <1>10, <1>14 DEF y
  <2>2. \A k \in 1..Len(g) : g[k].id = d[at + 1] /\ g[k].binding = d[at + 2] /\ g[k].known = TRUE
    BY ONLY <1>12, <1>a DEF m
  <2> HIDE DEF o
  <2>3. Len(Joined(OutputsCells(g))) = 4 * Len(g) /\ ReadOutputs(d, at, o, Len(g)) = g
    BY ONLY <2>1, <2>2, OutputsAreRead
  <2> QED BY ONLY <2>3 DEF o, l, y, m
<1>16. at + Len(b) = ((at + 4) + (2 * n)) + (4 * m)
  BY ONLY <1>1, <1>4, <1>6, <1>9, <1>13, <1>15
<1> QED BY ONLY <1>9, <1>12, <1>13, <1>15, <1>16 DEF b, n, m

(* The groups of the encoder: where the outputs of each transaction end.       *)
ResponseRecipe ==
  [kind : {"response"}, epoch : Nat, transactions : Seq(FactsTransaction), outputs : Seq(FactsOutput)]
Taken(r, i, v) ==
  {n \in 0..(Len(r.outputs) - v) : \A k \in 1..n : r.outputs[v + k].id = r.transactions[i].id}
Longest(r, i, v) == CHOOSE n \in Taken(r, i, v) : \A m \in Taken(r, i, v) : m <= n
LEMMA LongestIs ==
  ASSUME NEW r, NEW i, Len(r.outputs) \in Nat, NEW v \in 0..Len(r.outputs)
  PROVE  /\ Longest(r, i, v) \in 0..(Len(r.outputs) - v)
         /\ \A k \in 1..Longest(r, i, v) : r.outputs[v + k].id = r.transactions[i].id
         /\ \A m \in Taken(r, i, v) : m <= Longest(r, i, v)
<1> DEFINE S == Taken(r, i, v)
           l == Len(r.outputs) - v
<1>1. l \in Nat
  OBVIOUS
<1>2. S \subseteq 0..l /\ 0 \in S
  BY <1>1 DEF Taken
<1>3. S \in SUBSET Int /\ IsFiniteSet(S) /\ S # {}
  <2>1. IsFiniteSet(0..l)
    BY <1>1, FS_Interval
  <2> HIDE DEF S, l
  <2>2. IsFiniteSet(S)
    BY <1>2, <2>1, FS_Subset
  <2> QED BY <1>1, <1>2, <2>2
<1>4. \E n \in S : \A m \in S : m <= n
  BY ONLY <1>3, HasGreatest
<1> HIDE DEF S
<1> DEFINE n == CHOOSE n \in S : \A m \in S : m <= n
<1>5. n \in S /\ \A m \in S : m <= n
  BY ONLY <1>4
<1> HIDE DEF n
<1>6. Longest(r, i, v) = n
  BY DEF Longest, n, S
<1>7. n \in 0..(Len(r.outputs) - v) /\ \A k \in 1..n : r.outputs[v + k].id = r.transactions[i].id
  BY <1>5 DEF S, Taken
<1> QED BY ONLY <1>5, <1>6, <1>7 DEF S

Groups(r, e) ==
  /\ e \in [0..Len(r.transactions) -> 0..Len(r.outputs)] /\ e[0] = 0
  /\ \A i \in 1..Len(r.transactions) : e[i] = e[i - 1] + Longest(r, i, e[i - 1])
LEMMA GroupEndsAre ==
  ASSUME NEW r, Len(r.outputs) \in Nat, Len(r.transactions) \in Nat
  PROVE  Groups(r, GroupEnds(r))
<1> DEFINE T == Len(r.transactions)
           V == 0..Len(r.outputs)
           step == [p \in (1..T) \X V |-> p[2] + Longest(r, p[1], p[2])]
<1>1. T \in Nat /\ 0 \in V
  OBVIOUS
<1>2. \A i \in 1..T, v \in V : step[<<i, v>>] \in V /\ step[<<i, v>>] = v + Longest(r, i, v)
  <2>1. ASSUME NEW i \in 1..T, NEW v \in V PROVE step[<<i, v>>] \in V /\ step[<<i, v>>] = v + Longest(r, i, v)
    <3>1. step[<<i, v>>] = v + Longest(r, i, v)
      OBVIOUS
    <3>2. Longest(r, i, v) \in 0..(Len(r.outputs) - v)
      BY LongestIs
    <3> DEFINE n == Longest(r, i, v)
               l == Len(r.outputs)
    <3>3. n \in 0..(l - v) /\ l \in Nat /\ v \in 0..l
      BY <3>2
    <3> HIDE DEF n, l, step
    <3>4. v + n \in 0..l
      BY ONLY <3>3
    <3> QED BY ONLY <3>1, <3>4 DEF n, l
  <2> QED BY <2>1
<1> HIDE DEF step
<1>3. PICK g : Solves(V, 0, T, step, g)
  <2> HIDE DEF V, T
  <2> QED BY <1>1, <1>2, RecursionExists
<1>4. g \in [0..T -> V] /\ g[0] = 0 /\ \A i \in 1..T : g[i] = g[i - 1] + Longest(r, i, g[i - 1])
  <2>1. \A i \in 1..T : i - 1 \in 0..T
    BY <1>1
  <2> HIDE DEF V, T
  <2> QED BY <1>2, <1>3, <2>1 DEF Solves
<1> DEFINE Ends(j) == j = [i \in 0..T |-> IF i = 0 THEN 0 ELSE
             LET from == j[i - 1]
                 taken == {n \in 0..(Len(r.outputs) - from) :
                             \A k \in 1..n : r.outputs[from + k].id = r.transactions[i].id}
             IN from + (CHOOSE n \in taken : \A m \in taken : m <= n)]
           Good(j) == j = [i \in 0..T |-> IF i = 0 THEN 0 ELSE j[i - 1] + Longest(r, i, j[i - 1])]
<1>5. \A j : Ends(j) <=> Good(j)
  <2>1. ASSUME NEW j PROVE Ends(j) <=> Good(j)
    BY DEF Longest, Taken
  <2> QED BY <2>1
<1>6. Good(g)
  <2>1. g = [i \in 0..T |-> g[i]]
    BY <1>4
  <2>2. \A i \in 0..T : g[i] = IF i = 0 THEN 0 ELSE g[i - 1] + Longest(r, i, g[i - 1])
    <3>1. \A i \in 0..T : i # 0 => i \in 1..T
      BY <1>1
    <3> HIDE DEF T, V
    <3> QED BY <1>4, <3>1
  <2>3. [i \in 0..T |-> g[i]] = [i \in 0..T |-> IF i = 0 THEN 0 ELSE g[i - 1] + Longest(r, i, g[i - 1])]
    <3> HIDE DEF T
    <3> QED BY <2>2
  <2> QED BY <2>1, <2>3
<1> DEFINE j == CHOOSE j : Ends(j)
<1>7. Good(j)
  <2> HIDE DEF Good, Ends
  <2> QED BY <1>5, <1>6
<1>8. GroupEnds(r) = j
  BY DEF GroupEnds
<1> HIDE DEF j
<1>9. Solves(V, 0, T, step, j)
  <2>1. DOMAIN j = 0..T /\ j = [i \in 0..T |-> j[i]] /\ j[0] = 0
    BY <1>1, <1>7
  <2>2. ASSUME NEW i \in 1..T, j[i - 1] \in V PROVE j[i] = step[<<i, j[i - 1]>>]
    <3>1. j[i] = j[i - 1] + Longest(r, i, j[i - 1])
      <4>1. \A n \in 0..T : j[n] = IF n = 0 THEN 0 ELSE j[n - 1] + Longest(r, n, j[n - 1])
        BY <1>7
      <4>2. i \in 0..T /\ i # 0
        BY <1>1
      <4> QED BY <4>1, <4>2
    <3> QED BY <1>2, <2>2, <3>1
  <2> HIDE DEF V, T
  <2> QED BY <1>1, <1>2, <2>1, <2>2, Solution
<1>10. j \in [0..T -> V] /\ j[0] = 0 /\ \A i \in 1..T : j[i] = j[i - 1] + Longest(r, i, j[i - 1])
  <2>1. \A i \in 1..T : i - 1 \in 0..T
    BY <1>1
  <2>2. j \in [0..T -> V] /\ j[0] = 0 /\ \A i \in 1..T : j[i] = step[<<i, j[i - 1]>>]
    <3> HIDE DEF V, T
    <3> QED BY <1>9 DEF Solves
  <2> HIDE DEF V, T
  <2> QED BY <1>2, <2>1, <2>2
<1> QED BY <1>8, <1>10 DEF Groups

(* A response the checker holds nothing against.                               *)
Clean(r) == r \in ResponseRecipe /\ FollowsTransactionOrder(r) /\ ResponseViolations(r) = {}
LEMMA ResponseIs ==
  ASSUME NEW r \in ResponseRecipe
  PROVE  /\ r.transactions \in Seq(FactsTransaction) /\ r.outputs \in Seq(FactsOutput) /\ r.epoch \in Nat
         /\ Len(r.transactions) \in Nat /\ DOMAIN r.transactions = 1..Len(r.transactions)
         /\ Len(r.outputs) \in Nat /\ DOMAIN r.outputs = 1..Len(r.outputs)
         /\ \A i \in 1..Len(r.transactions) : r.transactions[i] \in FactsTransaction
         /\ \A i \in 1..Len(r.outputs) : r.outputs[i] \in FactsOutput
<1> DEFINE A == FactsTransaction
           B == FactsOutput
           t == r.transactions
           o == r.outputs
<1>1. t \in Seq(A) /\ o \in Seq(B) /\ r.epoch \in Nat
  BY DEF ResponseRecipe
<1> HIDE DEF A, B, t, o
<1>2. /\ Len(t) \in Nat /\ DOMAIN t = 1..Len(t) /\ Len(o) \in Nat /\ DOMAIN o = 1..Len(o)
      /\ (\A i \in 1..Len(t) : t[i] \in A) /\ \A i \in 1..Len(o) : o[i] \in B
  BY ONLY <1>1
<1> QED BY ONLY <1>1, <1>2 DEF A, B, t, o
Rising(s) == \A i, j \in 1..Len(s) : i < j => s[i].id < s[j].id
LEMMA CleanRises ==
  ASSUME NEW r, Clean(r)
  PROVE  Rising(r.transactions)
<1> DEFINE t == r.transactions
           n == Len(t)
<1>1. n \in Nat /\ DOMAIN t = 1..n /\ \A i \in 1..n : t[i].id \in Nat
  BY ResponseIs DEF Clean, FactsTransaction
<1>2. ASSUME NEW i \in 1..n, i > 1 PROVE t[i - 1].id < t[i].id
  <2>1. TransactionViolations(t, i) \subseteq ResponseViolations(r)
    BY <1>1 DEF ResponseViolations
  <2>2. "transaction-order" \notin TransactionViolations(t, i)
    BY <2>1 DEF Clean
  <2>3. ~ (i > 1 /\ t[i - 1].id >= t[i].id)
    BY <2>2 DEF TransactionViolations
  <2>4. i - 1 \in 1..n
    BY <1>1, <1>2
  <2>5. t[i - 1].id \in Nat /\ t[i].id \in Nat
    BY <1>1, <2>4
  <2> HIDE DEF t, n
  <2> QED BY <1>2, <2>3, <2>5
<1> HIDE DEF t, n
<1> DEFINE S == {j \in Nat : j <= n => \A i \in 1..j : i < j => t[i].id < t[j].id}
<1>3. 0 \in S
  OBVIOUS
<1>4. ASSUME NEW j \in S PROVE j + 1 \in S
  <2> SUFFICES ASSUME j + 1 <= n, NEW i \in 1..(j + 1), i < j + 1 PROVE t[i].id < t[j + 1].id
    OBVIOUS
  <2>1. j \in Nat /\ i \in 1..j /\ j \in 1..n /\ i \in 1..n /\ j + 1 \in 1..n /\ j + 1 > 1 /\ (j + 1) - 1 = j
    BY <1>1
  <2>2. t[j].id < t[j + 1].id
    BY <1>2, <2>1
  <2>3. i < j => t[i].id < t[j].id
    BY <2>1
  <2> DEFINE x == t[i].id
             y == t[j].id
             z == t[j + 1].id
  <2>4. x \in Nat /\ y \in Nat /\ z \in Nat /\ y < z /\ (i < j => x < y) /\ (i = j => x = y)
    BY <1>1, <2>1, <2>2, <2>3
  <2> HIDE DEF x, y, z, S
  <2>5. x < z
    BY ONLY <2>1, <2>4
  <2> QED BY ONLY <2>5 DEF x, z
<1>5. S = Nat
  <2> HIDE DEF S
  <2>1. S \in SUBSET Nat
    BY DEF S
  <2> QED BY <1>3, <1>4, <2>1, NumberInduction
<1>6. \A i, j \in 1..n : i < j => t[i].id < t[j].id
  <2> TAKE i, j \in 1..n
  <2>1. j \in S /\ j <= n /\ (i < j => i \in 1..j)
    <3> HIDE DEF S
    <3> QED BY <1>1, <1>5
  <2> QED BY <2>1
<1> QED BY <1>6 DEF Rising, t, n
LEMMA PositionIs ==
  ASSUME NEW s, NEW x, Len(s) \in Nat, DOMAIN s = 1..Len(s), \A i \in 1..Len(s) : s[i].id \in Nat, Rising(s)
  PROVE  /\ PositionOf(s, x) \in 0..Len(s)
         /\ PositionOf(s, x) # 0 => s[PositionOf(s, x)].id = x
         /\ \A i \in 1..Len(s) : s[i].id = x => PositionOf(s, x) = i
<1> DEFINE n == Len(s)
           A == {i \in DOMAIN s : s[i].id = x}
           m == CHOOSE i \in A : \A j \in A : j <= i
<1>1. n \in Nat /\ A \subseteq 1..n
  OBVIOUS
<1>2. PositionOf(s, x) = IF A = {} THEN 0 ELSE m
  BY DEF PositionOf
<1>3. ASSUME NEW i \in A, NEW j \in A PROVE i = j
  <2>1. i \in 1..n /\ j \in 1..n /\ s[i].id = s[j].id /\ s[i].id \in Nat /\ s[j].id \in Nat
    OBVIOUS
  <2>2. ~ (i < j) /\ ~ (j < i)
    BY <2>1 DEF Rising
  <2> QED BY ONLY <2>1, <2>2
<1>4. CASE A = {}
  <2>1. \A i \in 1..n : s[i].id # x
    BY <1>4
  <2> HIDE DEF A, m
  <2> QED BY <1>1, <1>2, <1>4, <2>1
<1>5. CASE A # {}
  <2>1. PICK i \in A : TRUE
    BY <1>5
  <2>2. \A j \in A : j <= i
    <3> HIDE DEF A
    <3> QED BY <1>1, <1>3
  <2>3. m \in A
    <3> HIDE DEF A
    <3> QED BY <2>2
  <2> HIDE DEF m
  <2>4. m \in 1..n /\ s[m].id = x
    BY <1>1, <2>3
  <2>5. \A j \in 1..n : s[j].id = x => m = j
    <3>1. \A j \in 1..n : s[j].id = x => j \in A
      OBVIOUS
    <3> HIDE DEF A
    <3> QED BY <1>3, <2>3, <3>1
  <2> QED BY <1>1, <1>2, <1>5, <2>4, <2>5
<1> QED BY <1>4, <1>5
LEMMA CleanOutputs ==
  ASSUME NEW r, Clean(r), NEW k \in 1..Len(r.outputs)
  PROVE  LET o == r.outputs[k]
             p == PositionOf(r.transactions, o.id)
         IN p # 0 /\ o.binding = r.transactions[p].binding /\ o.known = TRUE
<1> DEFINE o == r.outputs[k]
           p == PositionOf(r.transactions, o.id)
<1>1. k \in DOMAIN r.outputs /\ o \in FactsOutput
  BY ResponseIs DEF Clean
<1>2. OutputViolations(r, k) \subseteq ResponseViolations(r)
  BY <1>1 DEF ResponseViolations
<1>3. /\ "output-public-fields-invalid" \notin OutputViolations(r, k)
      /\ "output-orphan" \notin OutputViolations(r, k)
      /\ "output-binding-mismatch" \notin OutputViolations(r, k)
  BY <1>2 DEF Clean
<1>4. o.known
  BY <1>3 DEF OutputViolations
<1>5. p # 0
  BY <1>3 DEF OutputViolations
<1>6. o.binding = r.transactions[p].binding
  BY <1>3, <1>5 DEF OutputViolations
<1>7. o.known \in BOOLEAN
  BY <1>1 DEF FactsOutput
<1> QED BY <1>4, <1>5, <1>6, <1>7

(* In a clean response the groups leave no output behind, and the outputs of a *)
(* group name its transaction and have its binding.                            *)
LEMMA GroupsRise ==
  ASSUME NEW r \in ResponseRecipe, NEW e, Groups(r, e), NEW i \in 1..Len(r.transactions)
  PROVE  /\ i - 1 \in 0..Len(r.transactions) /\ i \in 0..Len(r.transactions)
         /\ e[i - 1] \in 0..Len(r.outputs) /\ e[i] \in 0..Len(r.outputs) /\ e[i - 1] <= e[i]
         /\ \A k \in (e[i - 1] + 1)..e[i] : r.outputs[k].id = r.transactions[i].id
         /\ e[i] < Len(r.outputs) => r.outputs[e[i] + 1].id # r.transactions[i].id
<1> DEFINE T == Len(r.transactions)
           L == Len(r.outputs)
           v == e[i - 1]
           w == e[i]
           n == Longest(r, i, v)
<1>1. T \in Nat /\ L \in Nat
  BY ResponseIs
<1>2. i - 1 \in 0..T /\ i \in 0..T
  BY <1>1
<1>3. v \in 0..L /\ w \in 0..L /\ w = v + n
  BY <1>2 DEF Groups
<1>4. /\ n \in 0..(L - v) /\ (\A k \in 1..n : r.outputs[v + k].id = r.transactions[i].id)
      /\ \A m \in Taken(r, i, v) : m <= n
  BY <1>1, <1>3, LongestIs
<1> HIDE DEF T, L, v, w, n
<1>5. v <= w
  BY ONLY <1>1, <1>3, <1>4
<1>6. ASSUME NEW k \in (v + 1)..w PROVE r.outputs[k].id = r.transactions[i].id
  <2>1. k - v \in 1..n /\ v + (k - v) = k
    BY ONLY <1>1, <1>3, <1>4, <1>6
  <2> QED BY ONLY <1>4, <2>1
<1>7. ASSUME w < L PROVE r.outputs[w + 1].id # r.transactions[i].id
  <2> SUFFICES ASSUME r.outputs[w + 1].id = r.transactions[i].id PROVE FALSE
    OBVIOUS
  <2>1. n + 1 \in 0..(L - v) /\ v + (n + 1) = w + 1 /\ ~ (n + 1 <= n)
    BY ONLY <1>1, <1>3, <1>4, <1>7
  <2>2. \A k \in 1..(n + 1) : r.outputs[v + k].id = r.transactions[i].id
    <3> TAKE k \in 1..(n + 1)
    <3>1. k \in 1..n \/ k = n + 1
      BY ONLY <2>1, <1>3, <1>4
    <3>2. r.outputs[v + (n + 1)].id = r.transactions[i].id
      BY ONLY <2>1, r.outputs[w + 1].id = r.transactions[i].id
    <3> QED BY ONLY <1>4, <3>1, <3>2
  <2>3. n + 1 \in Taken(r, i, v)
    BY <2>1, <2>2 DEF Taken, L
  <2> QED BY ONLY <1>4, <2>1, <2>3
<1> QED BY <1>2, <1>3, <1>5, <1>6, <1>7 DEF T, L, v, w
LEMMA NoneIsLeft ==
  ASSUME NEW r, Clean(r), NEW e, Groups(r, e)
  PROVE  e[Len(r.transactions)] = Len(r.outputs)
<1> DEFINE T == Len(r.transactions)
           L == Len(r.outputs)
           p == [k \in 1..L |-> PositionOf(r.transactions, r.outputs[k].id)]
<1>1. T \in Nat /\ L \in Nat /\ r \in ResponseRecipe /\ DOMAIN r.outputs = 1..L
  BY ResponseIs DEF Clean
<1>2. \A k \in 1..L : /\ p[k] \in 1..T
                      /\ \A i \in 1..T : r.transactions[i].id = r.outputs[k].id => p[k] = i
                      /\ r.transactions[p[k]].id = r.outputs[k].id
  <2> TAKE k \in 1..L
  <2>1. DOMAIN r.transactions = 1..T /\ \A i \in 1..T : r.transactions[i].id \in Nat
    BY ResponseIs DEF Clean, FactsTransaction
  <2> DEFINE q == PositionOf(r.transactions, r.outputs[k].id)
             s == r.transactions
             x == r.outputs[k].id
  <2>2. /\ q \in 0..T /\ (q # 0 => s[q].id = x)
        /\ \A i \in 1..T : s[i].id = x => q = i
    <3>1. Rising(s)
      BY CleanRises
    <3> HIDE DEF s, x
    <3>2. Len(s) \in Nat /\ DOMAIN s = 1..Len(s) /\ \A i \in 1..Len(s) : s[i].id \in Nat
      BY <1>1, <2>1 DEF s
    <3>3. /\ PositionOf(s, x) \in 0..Len(s)
          /\ PositionOf(s, x) # 0 => s[PositionOf(s, x)].id = x
          /\ \A i \in 1..Len(s) : s[i].id = x => PositionOf(s, x) = i
      BY ONLY <3>1, <3>2, PositionIs
    <3> QED BY ONLY <3>3 DEF s, x, T
  <2>3. q # 0
    BY CleanOutputs
  <2>4. p[k] = q
    OBVIOUS
  <2> HIDE DEF q, p, T, L
  <2>5. q \in 1..T
    BY ONLY <1>1, <2>2, <2>3
  <2> QED BY ONLY <2>2, <2>3, <2>4, <2>5 DEF s, x
<1>3. \A k, l \in 1..L : k < l => p[k] <= p[l]
  <2> TAKE k, l \in 1..L
  <2>1. p[k] # 0 /\ p[l] # 0
    <3> HIDE DEF p, T, L
    <3>1. p[k] \in 1..T /\ p[l] \in 1..T
      BY ONLY <1>2
    <3> DEFINE x == p[k]
               y == p[l]
    <3> HIDE DEF x, y
    <3>2. x \in 1..T /\ y \in 1..T
      BY ONLY <3>1 DEF x, y
    <3>3. x # 0 /\ y # 0
      BY ONLY <1>1, <3>2
    <3> QED BY ONLY <3>3 DEF x, y
  <2>2. p[k] = PositionOf(r.transactions, r.outputs[k].id) /\ p[l] = PositionOf(r.transactions, r.outputs[l].id)
    OBVIOUS
  <2> HIDE DEF p
  <2> QED BY <1>1, <2>1, <2>2 DEF Clean, FollowsTransactionOrder
<1> HIDE DEF p, T, L
<1>4. \A i \in 1..T : /\ i - 1 \in 0..T /\ i \in 0..T /\ e[i - 1] \in 0..L /\ e[i] \in 0..L /\ e[i - 1] <= e[i]
                      /\ e[i] < L => r.outputs[e[i] + 1].id # r.transactions[i].id
  BY <1>1, GroupsRise DEF T, L
<1> DEFINE S == {i \in Nat : i <= T => \A k \in (e[i] + 1)..L : p[k] > i}
<1>5. 0 \in S
  <2>1. e[0] = 0
    BY DEF Groups
  <2>2. \A k \in (e[0] + 1)..L : p[k] > 0
    BY <1>1, <1>2, <2>1
  <2> QED BY <2>2
<1>6. ASSUME NEW i \in S PROVE i + 1 \in S
  <2> SUFFICES ASSUME i + 1 <= T, NEW k \in (e[i + 1] + 1)..L PROVE p[k] > i + 1
    OBVIOUS
  <2>1. i \in Nat /\ i <= T /\ i + 1 \in 1..T /\ (i + 1) - 1 = i
    BY <1>1
  <2> DEFINE a == e[i]
             b == e[i + 1]
  <2>2. a \in 0..L /\ b \in 0..L /\ a <= b /\ (b < L => r.outputs[b + 1].id # r.transactions[i + 1].id)
    BY <1>4, <2>1
  <2>3. \A l \in (a + 1)..L : p[l] > i
    BY <2>1
  <2>4. k \in (b + 1)..L
    OBVIOUS
  <2> HIDE DEF a, b, S
  <2>5. b + 1 \in 1..L /\ k \in 1..L /\ k \in (a + 1)..L /\ b + 1 \in (a + 1)..L /\ b < L /\ b + 1 <= k
    BY ONLY <1>1, <2>2, <2>4
  <2> DEFINE x == p[k]
             y == p[b + 1]
  <2>6. x \in 1..T /\ y \in 1..T /\ x > i /\ y > i
    BY ONLY <1>2, <2>3, <2>5
  <2>7. y # i + 1
    BY <1>2, <2>1, <2>2, <2>5
  <2>8. b + 1 < k => y <= x
    BY <1>3, <2>5
  <2>9. b + 1 = k => y = x
    OBVIOUS
  <2>10. b + 1 < k \/ b + 1 = k
    BY ONLY <1>1, <2>2, <2>4, <2>5
  <2> HIDE DEF x, y
  <2>11. x > i + 1
    BY ONLY <1>1, <2>1, <2>6, <2>7, <2>8, <2>9, <2>10
  <2> QED BY ONLY <2>11 DEF x
<1>7. S = Nat
  <2> HIDE DEF S
  <2>1. S \in SUBSET Nat
    BY DEF S
  <2> QED BY <1>5, <1>6, <2>1, NumberInduction
<1>8. T \in S
  <2> HIDE DEF S
  <2> QED BY <1>1, <1>7
<1>9. \A k \in (e[T] + 1)..L : p[k] > T
  BY <1>1, <1>8
<1>10. e[T] \in 0..L
  <2>1. T \in 0..T
    BY <1>1
  <2> QED BY <2>1 DEF Groups, T, L
<1>11. e[T] = L
  <2> DEFINE a == e[T]
  <2>0. a \in 0..L /\ \A k \in (a + 1)..L : p[k] > T
    BY <1>9, <1>10
  <2> HIDE DEF a, S
  <2> SUFFICES ASSUME a < L PROVE FALSE
    BY <1>1, <2>0 DEF a
  <2>1. a + 1 \in (a + 1)..L /\ a + 1 \in 1..L
    BY ONLY <1>1, <2>0, a < L
  <2>2. p[a + 1] > T /\ p[a + 1] \in 1..T
    BY ONLY <1>2, <2>0, <2>1
  <2> QED BY ONLY <1>1, <2>2
<1> QED BY <1>11 DEF T, L
GroupOf(r, e, i) == SubSeq(r.outputs, e[i - 1] + 1, e[i])
IsGroup(r, e, i, t, g) ==
  /\ t \in FactsTransaction /\ g \in Seq(FactsOutput)
  /\ \A k \in 1..Len(g) : g[k].id = t.id /\ g[k].binding = t.binding /\ g[k].known = TRUE
  /\ SubSeq(r.outputs, 1, e[i]) = SubSeq(r.outputs, 1, e[i - 1]) \o g
LEMMA GroupIsClean ==
  ASSUME NEW r, Clean(r), NEW e, Groups(r, e), NEW i \in 1..Len(r.transactions)
  PROVE  IsGroup(r, e, i, r.transactions[i], GroupOf(r, e, i))
<1> DEFINE T == Len(r.transactions)
           L == Len(r.outputs)
           t == r.transactions[i]
           v == e[i - 1]
           w == e[i]
           C == FactsOutput
           o == r.outputs
           g == SubSeq(o, v + 1, w)
<1>1. T \in Nat /\ L \in Nat /\ r \in ResponseRecipe /\ o \in Seq(C) /\ t \in FactsTransaction
      /\ DOMAIN r.transactions = 1..T
  BY ResponseIs DEF Clean
<1>2. /\ v \in 0..L /\ w \in 0..L /\ v <= w
      /\ \A k \in (v + 1)..w : o[k].id = t.id
  BY <1>1, GroupsRise
<1>3. \A k \in (v + 1)..w : o[k].binding = t.binding /\ o[k].known = TRUE
  <2> TAKE k \in (v + 1)..w
  <2>1. k \in 1..L /\ o[k].id = t.id
    <3> HIDE DEF L, v, w, t
    <3> QED BY <1>1, <1>2
  <2>2. \A j \in 1..T : r.transactions[j].id \in Nat
    BY ResponseIs DEF Clean, FactsTransaction
  <2> DEFINE s == r.transactions
             x == o[k].id
  <2>3. PositionOf(s, x) = i
    <3>1. Rising(s) /\ Len(s) \in Nat /\ DOMAIN s = 1..Len(s)
      BY <1>1, CleanRises
    <3>2. i \in 1..Len(s) /\ s[i].id = x
      BY <2>1
    <3> HIDE DEF s, x
    <3>3. \A j \in 1..Len(s) : s[j].id \in Nat
      BY <2>2 DEF s, T
    <3> QED BY ONLY <3>1, <3>2, <3>3, PositionIs
  <2>4. /\ o[k].binding = r.transactions[PositionOf(s, x)].binding /\ o[k].known = TRUE
    BY <2>1, CleanOutputs
  <2> QED BY ONLY <2>3, <2>4 DEF t
<1> DEFINE a == SubSeq(o, 1, w)
           b == SubSeq(o, 1, v)
           c == b \o g
<1> HIDE DEF C, T, L, t, v, w, o
<1>4. L = Len(o)
  BY DEF L, o
<1>5. g \in Seq(C) /\ Len(g) = w - v /\ \A k \in 1..(w - v) : g[k] = o[v + k]
  BY ONLY <1>1, <1>2, <1>4
<1>6. a \in Seq(C) /\ Len(a) = w /\ \A k \in 1..w : a[k] = o[k]
  BY ONLY <1>1, <1>2, <1>4
<1>7. b \in Seq(C) /\ Len(b) = v /\ \A k \in 1..v : b[k] = o[k]
  BY ONLY <1>1, <1>2, <1>4
<1> HIDE DEF a, b, g
<1>8. c \in Seq(C) /\ Len(c) = w /\ \A k \in 1..w : c[k] = IF k <= v THEN b[k] ELSE g[k - v]
  <2>1. c \in Seq(C) /\ Len(c) = Len(b) + Len(g)
        /\ \A k \in 1..(Len(b) + Len(g)) : c[k] = IF k <= Len(b) THEN b[k] ELSE g[k - Len(b)]
    BY ONLY <1>5, <1>7, ConcatProperties
  <2>2. Len(b) = v /\ Len(b) + Len(g) = w
    BY ONLY <1>1, <1>2, <1>5, <1>7
  <2> HIDE DEF c
  <2> QED BY ONLY <2>1, <2>2
<1> HIDE DEF c
<1>9. a = c
  <2>1. \A k \in 1..w : a[k] = c[k]
    <3> TAKE k \in 1..w
    <3>1. CASE k <= v
      BY <1>2, <1>6, <1>7, <1>8, <3>1
    <3>2. CASE ~ (k <= v)
      <4>1. k - v \in 1..(w - v) /\ v + (k - v) = k
        BY ONLY <1>2, <3>2, k \in 1..w, <1>1
      <4> QED BY ONLY <1>5, <1>6, <1>8, <3>2, <4>1
    <3> QED BY <3>1, <3>2
  <2> QED BY ONLY <1>6, <1>8, <2>1, SeqEqual
<1>10. \A k \in 1..Len(g) : g[k].id = t.id /\ g[k].binding = t.binding /\ g[k].known = TRUE
  <2> TAKE k \in 1..Len(g)
  <2>1. v + k \in (v + 1)..w /\ g[k] = o[v + k]
    BY ONLY <1>1, <1>2, <1>5
  <2> QED BY ONLY <1>2, <1>3, <2>1
<1>11. IsGroup(r, e, i, t, g)
  BY ONLY <1>1, <1>5, <1>9, <1>10 DEF a, b, c, v, w, o, C, IsGroup
<1> QED BY ONLY <1>11 DEF g, t, v, w, o, GroupOf

(* Reading one block after what has been read.                                 *)
ReadBlock(d, u) ==
  LET n == d[u.at + 3]
      m == d[u.at + 4]
      ins == u.at + 4
      outs == ins + (2 * n)
  IN [at |-> outs + (4 * m),
      transactions |-> Append(u.transactions,
        [id |-> d[u.at + 1], binding |-> d[u.at + 2], inputs |-> ReadInputs(d, ins, n)]),
      outputs |-> u.outputs \o ReadOutputs(d, u.at, outs, m)]
ReadFrom(d, n, g) ==
  [i \in 0..n |-> IF i = 0 THEN [at |-> 3, transactions |-> << >>, outputs |-> << >>]
                  ELSE ReadBlock(d, g[i - 1])]
ReadAll(d, n) == CHOOSE g : g = ReadFrom(d, n, g)
LEMMA DecodeIs ==
  ASSUME NEW d
  PROVE  DecodeResponse(d) = [kind |-> "response", epoch |-> d[3], transactions |-> ReadAll(d, d[1])[d[1]].transactions,
                              outputs |-> ReadAll(d, d[1])[d[1]].outputs]
BY DEF DecodeResponse, ReadAll, ReadFrom, ReadBlock, ReadInputs, ReadOutputs, ReadOutputRow

(* The blocks of a response.                                                   *)
Blocks(r, e) == [i \in DOMAIN r.transactions |-> BlockCells(r.transactions[i], GroupOf(r, e, i))]
LEMMA BlockIsOne ==
  ASSUME NEW t \in FactsTransaction, NEW g \in Seq(FactsOutput)
  PROVE  BlockCells(t, g) \in Seq(Nat)
<1> DEFINE n == Len(t.inputs)
           m == Len(g)
           h == <<t.id, t.binding, n, m>>
           x == Joined(t.inputs)
           y == Joined(OutputsCells(g))
<1>1. x \in Seq(Nat) /\ y \in Seq(Nat) /\ n \in Nat /\ m \in Nat /\ t.id \in Nat /\ t.binding \in Nat
  BY InputsAreTexts, OutputsAreTexts DEF FactsTransaction
<1>2. h \in Seq(Nat)
  <2> HIDE DEF n, m
  <2> QED BY <1>1
<1>3. BlockCells(t, g) = h \o x \o y
  BY DEF BlockCells
<1> HIDE DEF h, x, y
<1>4. h \o x \o y \in Seq(Nat)
  BY ONLY <1>1, <1>2
<1> QED BY ONLY <1>3, <1>4
LEMMA ResponseIsEncoded ==
  ASSUME NEW r, Clean(r), NEW e, e = GroupEnds(r)
  PROVE  /\ Groups(r, e) /\ Blocks(r, e) \in Seq(Seq(Nat)) /\ Len(Blocks(r, e)) = Len(r.transactions)
         /\ EncodeResponse(r) = <<Len(r.transactions), Len(r.outputs), r.epoch>> \o Joined(Blocks(r, e))
<1> DEFINE T == Len(r.transactions)
           L == Len(r.outputs)
           Z == Seq(Nat)
<1>1. T \in Nat /\ L \in Nat /\ DOMAIN r.transactions = 1..T
  BY ResponseIs DEF Clean
<1>2. Groups(r, e)
  BY <1>1, GroupEndsAre
<1>3. \A i \in 1..T : BlockCells(r.transactions[i], GroupOf(r, e, i)) \in Z
  <2> TAKE i \in 1..T
  <2>1. r.transactions[i] \in FactsTransaction /\ GroupOf(r, e, i) \in Seq(FactsOutput)
    BY <1>2, GroupIsClean DEF IsGroup
  <2> QED BY ONLY <2>1, BlockIsOne
<1>4. Blocks(r, e) \in Seq(Z) /\ Len(Blocks(r, e)) = T
  <2> DEFINE b == Blocks(r, e)
  <2> HIDE DEF T, Z
  <2>1. b \in [1..T -> Z]
    BY <1>1, <1>3 DEF Blocks
  <2> HIDE DEF b
  <2>2. b \in Seq(Z) /\ Len(b) = T
    BY ONLY <1>1, <2>1
  <2> QED BY <2>2 DEF b
<1>5. e[T] = L
  BY <1>2, NoneIsLeft
<1>6. EncodeResponse(r) = IF e[T] # L THEN None ELSE <<T, L, r.epoch>> \o Joined(Blocks(r, e))
  BY DEF EncodeResponse, Blocks, BlockCells, GroupOf, OutputsCells, OutputCells, Each
<1> QED BY ONLY <1>2, <1>4, <1>5, <1>6 DEF T, L, Z

(* One block more is read.                                                     *)
ReadSoFar(r, e, off) ==
  [i \in 0..Len(r.transactions) |->
    [at |-> off[i], transactions |-> SubSeq(r.transactions, 1, i), outputs |-> SubSeq(r.outputs, 1, e[i])]]
LEMMA BlockIsReadOn ==
  ASSUME NEW r, Clean(r), NEW e, Groups(r, e), NEW d \in Seq(Nat), NEW off,
         Offsets(d, 3, Blocks(r, e), off), Len(Blocks(r, e)) = Len(r.transactions),
         NEW i \in 1..Len(r.transactions)
  PROVE  ReadBlock(d, ReadSoFar(r, e, off)[i - 1]) = ReadSoFar(r, e, off)[i]
<1> DEFINE T == Len(r.transactions)
           t == r.transactions[i]
           g == GroupOf(r, e, i)
           n == Len(t.inputs)
           m == Len(g)
           at == off[i - 1]
           u == ReadSoFar(r, e, off)[i - 1]
           q == ReadSoFar(r, e, off)[i]
           b == BlockCells(t, g)
           x == SubSeq(r.transactions, 1, i - 1)
           y == SubSeq(r.outputs, 1, e[i - 1])
<1>1. T \in Nat /\ i \in 1..T /\ i - 1 \in 0..T /\ i \in 0..T /\ DOMAIN r.transactions = 1..T
  BY ResponseIs DEF Clean
<1>2. /\ t \in FactsTransaction /\ g \in Seq(FactsOutput)
      /\ \A k \in 1..Len(g) : g[k].id = t.id /\ g[k].binding = t.binding /\ g[k].known = TRUE
      /\ SubSeq(r.outputs, 1, e[i]) = y \o g
  <2>1. IsGroup(r, e, i, t, g)
    BY GroupIsClean
  <2> HIDE DEF t, g
  <2> QED BY ONLY <2>1 DEF IsGroup, y
<1>3. Blocks(r, e)[i] = b
  BY <1>1 DEF Blocks
<1>4. off[i] = at + Len(b) /\ Placed(d, at, b)
  <2>1. i \in 1..Len(Blocks(r, e))
    OBVIOUS
  <2> QED BY <1>3, <2>1 DEF Offsets
<1>5. /\ d[at + 1] = t.id /\ d[at + 2] = t.binding /\ d[at + 3] = n /\ d[at + 4] = m
      /\ at + Len(b) = ((at + 4) + (2 * n)) + (4 * m)
      /\ ReadInputs(d, at + 4, n) = t.inputs
      /\ ReadOutputs(d, at, (at + 4) + (2 * n), m) = g
  <2>1. Placed(d, at, b) /\ Nat \subseteq Nat /\ d \in Seq(Nat)
    BY <1>4
  <2> HIDE DEF at, t, g
  <2>2. BlockAt(Nat, d, at, t, g)
    BY ONLY <1>2, <2>1 DEF BlockAt, b
  <2>3. /\ d[at + 1] = t.id /\ d[at + 2] = t.binding /\ d[at + 3] = Len(t.inputs) /\ d[at + 4] = Len(g)
        /\ at + Len(BlockCells(t, g)) = ((at + 4) + (2 * Len(t.inputs))) + (4 * Len(g))
        /\ ReadInputs(d, at + 4, Len(t.inputs)) = t.inputs
        /\ ReadOutputs(d, at, (at + 4) + (2 * Len(t.inputs)), Len(g)) = g
    BY ONLY <2>2, BlockIsRead
  <2> QED BY ONLY <2>3
<1>6. u = [at |-> at, transactions |-> x, outputs |-> y]
  BY <1>1 DEF ReadSoFar
<1>7. q = [at |-> off[i], transactions |-> SubSeq(r.transactions, 1, i), outputs |-> SubSeq(r.outputs, 1, e[i])]
  BY <1>1 DEF ReadSoFar
<1>8. SubSeq(r.transactions, 1, i) = Append(x, t)
  <2> DEFINE V == FactsTransaction
             s == r.transactions
  <2>1. s \in Seq(V) /\ i \in 1..Len(s)
    BY <1>1, ResponseIs DEF Clean
  <2> HIDE DEF V, s
  <2>2. SubSeq(s, 1, i) = Append(SubSeq(s, 1, i - 1), s[i])
    BY ONLY <2>1, PrefixGrows
  <2> QED BY ONLY <2>2 DEF s
<1>9. t = [id |-> t.id, binding |-> t.binding, inputs |-> t.inputs]
  BY <1>2 DEF FactsTransaction
<1> HIDE DEF t, g, n, m, at, u, q, b, x, y
<1>10. u.at = at /\ u.transactions = x /\ u.outputs = y
  BY ONLY <1>6
<1>11. ReadBlock(d, u) =
        [at |-> (u.at + 4) + (2 * d[u.at + 3]) + (4 * d[u.at + 4]),
         transactions |-> Append(u.transactions,
           [id |-> d[u.at + 1], binding |-> d[u.at + 2], inputs |-> ReadInputs(d, u.at + 4, d[u.at + 3])]),
         outputs |-> u.outputs \o ReadOutputs(d, u.at, (u.at + 4) + (2 * d[u.at + 3]), d[u.at + 4])]
  BY DEF ReadBlock
<1>12. ReadBlock(d, u) =
        [at |-> (at + 4) + (2 * n) + (4 * m),
         transactions |-> Append(x, [id |-> t.id, binding |-> t.binding, inputs |-> t.inputs]),
         outputs |-> y \o g]
  BY ONLY <1>5, <1>10, <1>11
<1>13. ReadBlock(d, u) = q
  <2>1. q = [at |-> (at + 4) + (2 * n) + (4 * m), transactions |-> Append(x, t), outputs |-> y \o g]
    BY ONLY <1>2, <1>4, <1>5, <1>7, <1>8
  <2> QED BY ONLY <1>9, <1>12, <2>1
<1> QED BY ONLY <1>13 DEF u, q

(* A clean response is read back.                                              *)
LEMMA ReadAllIs ==
  ASSUME NEW r, Clean(r), NEW e, Groups(r, e), NEW d \in Seq(Nat), NEW off,
         Offsets(d, 3, Blocks(r, e), off), Len(Blocks(r, e)) = Len(r.transactions)
  PROVE  LET T == Len(r.transactions)
         IN ReadAll(d, T)[T] = ReadSoFar(r, e, off)[T]
<1> DEFINE T == Len(r.transactions)
           w == ReadSoFar(r, e, off)
<1>1. T \in Nat /\ DOMAIN w = 0..T /\ w = [i \in 0..T |-> w[i]]
  BY ResponseIs DEF Clean, ReadSoFar
<1>2. \A i \in 1..T : ReadBlock(d, w[i - 1]) = w[i]
  BY BlockIsReadOn
<1>3. w[0] = [at |-> 3, transactions |-> << >>, outputs |-> << >>]
  <2>1. w[0] = [at |-> off[0], transactions |-> SubSeq(r.transactions, 1, 0), outputs |-> SubSeq(r.outputs, 1, e[0])]
    <3>1. 0 \in 0..T
      BY <1>1
    <3> QED BY <3>1 DEF ReadSoFar
  <2>2. off[0] = 3 /\ e[0] = 0
    BY DEF Offsets, Groups
  <2>3. SubSeq(r.transactions, 1, 0) = << >> /\ SubSeq(r.outputs, 1, 0) = << >>
    <3> DEFINE A == FactsTransaction
               B == FactsOutput
               s == r.transactions
               o == r.outputs
    <3>1. s \in Seq(A) /\ o \in Seq(B)
      BY ResponseIs DEF Clean
    <3> HIDE DEF A, B, s, o
    <3>2. SubSeq(s, 1, 0) = << >> /\ SubSeq(o, 1, 0) = << >>
      BY ONLY <3>1
    <3> QED BY ONLY <3>2 DEF s, o
  <2> HIDE DEF w
  <2> QED BY ONLY <2>1, <2>2, <2>3
<1> HIDE DEF T, w
<1>4. ASSUME NEW g, g = ReadFrom(d, T, g) PROVE g[T] = w[T]
  <2>1. \A i \in 0..T : g[i] = IF i = 0 THEN [at |-> 3, transactions |-> << >>, outputs |-> << >>]
                               ELSE ReadBlock(d, g[i - 1])
    BY <1>4 DEF ReadFrom
  <2>2. g[0] = w[0]
    <3>1. 0 \in 0..T
      BY <1>1
    <3> QED BY ONLY <1>3, <2>1, <3>1
  <2>3. \A i \in 1..T : g[i - 1] = w[i - 1] => g[i] = w[i]
    <3> TAKE i \in 1..T
    <3>1. i \in 0..T /\ i # 0
      BY <1>1
    <3>2. g[i] = ReadBlock(d, g[i - 1])
      BY ONLY <2>1, <3>1
    <3> QED BY ONLY <1>2, <3>2
  <2>4. InStep(T, g, w)
    BY ONLY <1>1, <2>2, <2>3 DEF InStep
  <2>5. \A i \in 0..T : g[i] = w[i]
    BY ONLY <2>4, SameSteps
  <2>6. T \in 0..T
    BY <1>1
  <2> QED BY ONLY <2>5, <2>6
<1>5. w = ReadFrom(d, T, w)
  <2> DEFINE h(i) == IF i = 0 THEN [at |-> 3, transactions |-> << >>, outputs |-> << >>]
                     ELSE ReadBlock(d, w[i - 1])
  <2>1. ASSUME NEW i \in 0..T PROVE w[i] = h(i)
    <3>1. CASE i = 0
      BY <1>3, <3>1
    <3>2. CASE i # 0
      <4>1. i \in 1..T
        BY <1>1, <3>2
      <4> QED BY <1>2, <3>2, <4>1
    <3> QED BY <3>1, <3>2
  <2> HIDE DEF h
  <2>2. [i \in 0..T |-> w[i]] = [i \in 0..T |-> h(i)]
    BY ONLY <2>1
  <2>3. ReadFrom(d, T, w) = [i \in 0..T |-> h(i)]
    BY DEF ReadFrom, h
  <2> QED BY ONLY <1>1, <2>2, <2>3
<1> DEFINE g == ReadAll(d, T)
<1>6. g = ReadFrom(d, T, g)
  BY <1>5 DEF ReadAll
<1> HIDE DEF g
<1>7. g[T] = w[T]
  BY <1>4, <1>6
<1> QED BY <1>7 DEF g, T, w
LEMMA ResponseIsReadBack ==
  ASSUME NEW r, Clean(r)
  PROVE  EncodeResponse(r) \in Seq(Nat) /\ DecodeResponse(EncodeResponse(r)) = r
<1> DEFINE e == GroupEnds(r)
           T == Len(r.transactions)
           L == Len(r.outputs)
           h == <<T, L, r.epoch>>
           b == Blocks(r, e)
           y == Joined(b)
           d == EncodeResponse(r)
<1>1. T \in Nat /\ L \in Nat /\ r.epoch \in Nat
  BY ResponseIs DEF Clean
<1>2. Groups(r, e) /\ b \in Seq(Seq(Nat)) /\ Len(b) = T /\ d = h \o y
  BY ResponseIsEncoded
<1>3. h \in Seq(Nat) /\ Len(h) = 3 /\ h[1] = T /\ h[2] = L /\ h[3] = r.epoch
  <2> HIDE DEF T, L
  <2> QED BY <1>1
<1> HIDE DEF e, h, b, y, d
<1>4. y \in Seq(Nat)
  <2>1. << >> \in Seq(Nat)
    OBVIOUS
  <2> QED BY <1>2, <2>1, JoinedOfAppend DEF y
<1>5. d \in Seq(Nat)
  BY ONLY <1>2, <1>3, <1>4, ConcatProperties
<1>6. Placed(d, 0, h) /\ Placed(d, 3, y)
  <2>1. Placed(d, 0, h \o y)
    <3>1. Placed(d, 0, d)
      BY ONLY <1>5, AllIsPlaced
    <3> QED BY ONLY <1>2, <3>1
  <2>2. Placed(d, 0, h) /\ Placed(d, 0 + Len(h), y)
    BY ONLY <1>3, <1>4, <1>5, <2>1, PlacedInTwo
  <2>3. 0 + Len(h) = 3
    BY ONLY <1>3
  <2> QED BY ONLY <2>2, <2>3
<1>7. d[1] = T /\ d[3] = r.epoch
  <2>1. \A k \in 1..3 : d[0 + k] = h[k]
    BY ONLY <1>3, <1>6 DEF Placed
  <2>2. d[0 + 1] = h[1] /\ d[0 + 3] = h[3]
    BY ONLY <2>1
  <2> QED BY ONLY <1>3, <2>2
<1>8. PICK off : Offsets(d, 3, b, off)
  <2>1. Placed(d, 3, Joined(b))
    BY <1>6 DEF y
  <2> QED BY ONLY <1>2, <1>5, <2>1, JoinedOffsets
<1>9. ReadAll(d, T)[T] = ReadSoFar(r, e, off)[T]
  <2>1. Offsets(d, 3, Blocks(r, e), off) /\ Len(Blocks(r, e)) = Len(r.transactions)
    BY <1>2, <1>8 DEF b
  <2> QED BY <1>2, <1>5, <2>1, ReadAllIs
<1>10. ReadSoFar(r, e, off)[T].transactions = r.transactions /\ ReadSoFar(r, e, off)[T].outputs = r.outputs
  <2> DEFINE A == FactsTransaction
             B == FactsOutput
             s == r.transactions
             o == r.outputs
  <2>1. s \in Seq(A) /\ o \in Seq(B)
    BY ResponseIs DEF Clean
  <2>2. e[T] = L
    BY <1>2, NoneIsLeft
  <2>3. T \in 0..Len(r.transactions)
    BY <1>1
  <2>4. ReadSoFar(r, e, off)[T] = [at |-> off[T], transactions |-> SubSeq(s, 1, T), outputs |-> SubSeq(o, 1, e[T])]
    BY <2>3 DEF ReadSoFar
  <2>5. SubSeq(s, 1, Len(s)) = s /\ SubSeq(o, 1, Len(o)) = o
    <3> HIDE DEF A, B, s, o
    <3> QED BY ONLY <2>1
  <2>6. T = Len(s) /\ L = Len(o)
    OBVIOUS
  <2> HIDE DEF T, L, s, o
  <2>7. ReadSoFar(r, e, off)[T] = [at |-> off[T], transactions |-> s, outputs |-> o]
    BY ONLY <2>2, <2>4, <2>5, <2>6
  <2> QED BY ONLY <2>7 DEF s, o
<1>11. DecodeResponse(d) = [kind |-> "response", epoch |-> r.epoch, transactions |-> r.transactions, outputs |-> r.outputs]
  <2> DEFINE v == ReadAll(d, T)[T]
             s == r.transactions
             o == r.outputs
  <2>1. DecodeResponse(d) = [kind |-> "response", epoch |-> d[3], transactions |-> ReadAll(d, d[1])[d[1]].transactions,
                              outputs |-> ReadAll(d, d[1])[d[1]].outputs]
    BY ONLY DecodeIs
  <2>2. ReadAll(d, d[1])[d[1]] = v
    BY ONLY <1>7
  <2>3. v.transactions = s /\ v.outputs = o
    BY ONLY <1>9, <1>10
  <2> HIDE DEF v, s, o
  <2>4. DecodeResponse(d) = [kind |-> "response", epoch |-> r.epoch, transactions |-> s, outputs |-> o]
    BY ONLY <1>7, <2>1, <2>2, <2>3
  <2> QED BY ONLY <2>4 DEF s, o
<1>12. r = [kind |-> "response", epoch |-> r.epoch, transactions |-> r.transactions, outputs |-> r.outputs]
  BY DEF Clean, ResponseRecipe
<1> QED BY ONLY <1>5, <1>11, <1>12 DEF d

(* FactsCorpus: what the author writes is a recipe.                            *)
RecipeOK == recipe # None => recipe \in RequestRecipe \union ResponseRecipe
LEMMA RecipeInit == FactsInit => RecipeOK
<1> SUFFICES ASSUME FactsInit, recipe # None PROVE recipe \in RequestRecipe \union ResponseRecipe
  BY DEF RecipeOK
<1>1. CASE \E e \in 0..1 : recipe = [kind |-> "response", epoch |-> e, transactions |-> << >>, outputs |-> << >>]
  <2>1. PICK e \in 0..1 : recipe = [kind |-> "response", epoch |-> e, transactions |-> << >>, outputs |-> << >>]
    BY <1>1
  <2>2. << >> \in Seq(FactsTransaction) /\ << >> \in Seq(FactsOutput) /\ e \in Nat
    OBVIOUS
  <2> QED BY ONLY <2>1, <2>2 DEF ResponseRecipe
<1>2. CASE \E e \in 0..1, text \in {"valid", "semantic"} :
             recipe = [kind |-> "request", epoch |-> e, network |-> 1, derivation |-> 0,
                       descriptor |-> <<text>>, candidates |-> << >>]
  <2>1. PICK e \in 0..1, text \in {"valid", "semantic"} :
             recipe = [kind |-> "request", epoch |-> e, network |-> 1, derivation |-> 0,
                       descriptor |-> <<text>>, candidates |-> << >>]
    BY <1>2
  <2>2. <<text>> \in Seq({"valid", "semantic"}) /\ << >> \in Seq(FactsCandidate) /\ e \in Nat /\ 1 \in Nat /\ 0 \in Nat
    OBVIOUS
  <2> QED BY ONLY <2>1, <2>2 DEF RequestRecipe
<1> QED BY <1>1, <1>2 DEF FactsInit
LEMMA RecipeNext == RecipeOK /\ [FactsNext]_factsVars => RecipeOK'
<1> SUFFICES ASSUME RecipeOK, [FactsNext]_factsVars PROVE RecipeOK'
  OBVIOUS
<1> DEFINE C == FactsCandidate
           D == {"valid", "semantic"}
           A == FactsTransaction
           B == FactsOutput
<1>1. CASE AddCandidate
  <2>1. PICK t \in {<< >>, <<1>>, <<1, 2>>} :
          recipe' = [recipe EXCEPT !.candidates = Append(@, [transaction |-> t, previous |-> << >>])]
    BY <1>1 DEF AddCandidate
  <2>2. recipe \in RequestRecipe
    BY <1>1 DEF AddCandidate, RecipeOf, RecipeOK, ResponseRecipe
  <2> DEFINE c == [transaction |-> t, previous |-> << >>]
  <2>3. c \in C
    <3>1. t \in Seq(Nat) /\ << >> \in Seq(Seq(Nat))
      <4>1. << >> \in Seq(Nat) /\ <<1>> \in Seq(Nat) /\ <<1, 2>> \in Seq(Nat) /\ << >> \in Seq(Seq(Nat))
        OBVIOUS
      <4> QED BY ONLY <4>1, t \in {<< >>, <<1>>, <<1, 2>>}
    <3> QED BY ONLY <3>1 DEF FactsCandidate
  <2> HIDE DEF c, C
  <2>4. recipe.candidates \in Seq(C)
    BY <2>2 DEF RequestRecipe, C
  <2>5. Append(recipe.candidates, c) \in Seq(C)
    BY ONLY <2>3, <2>4
  <2>6. recipe' = [recipe EXCEPT !.candidates = Append(recipe.candidates, c)]
    BY <2>1 DEF c
  <2>7. recipe' \in RequestRecipe
    BY ONLY <2>2, <2>5, <2>6 DEF RequestRecipe, C
  <2> QED BY <2>7 DEF RecipeOK
<1>2. CASE AddPrevious
  <2>1. PICK i \in DOMAIN recipe.candidates, t \in {<<1>>, <<2, 1>>} :
          recipe' = [recipe EXCEPT !.candidates[i].previous = Append(@, t)]
    BY <1>2 DEF AddPrevious
  <2>2. recipe \in RequestRecipe
    BY <1>2 DEF AddPrevious, RecipeOf, RecipeOK, ResponseRecipe
  <2> DEFINE s == recipe.candidates
             c == s[i]
             p == Append(c.previous, t)
             n == [c EXCEPT !.previous = p]
  <2>3. s \in Seq(C) /\ c \in C
    <3>1. s \in Seq(C)
      BY <2>2 DEF RequestRecipe
    <3>2. i \in DOMAIN s
      OBVIOUS
    <3> HIDE DEF C, s
    <3> QED BY ONLY <3>1, <3>2
  <2>4. p \in Seq(Seq(Nat))
    <3>1. <<1>> \in Seq(Nat) /\ <<2, 1>> \in Seq(Nat)
      OBVIOUS
    <3>2. t \in Seq(Nat)
      BY ONLY <3>1, t \in {<<1>>, <<2, 1>>}
    <3>3. c.previous \in Seq(Seq(Nat))
      BY <2>3 DEF FactsCandidate
    <3> DEFINE Z == Seq(Nat)
               x == c.previous
    <3> HIDE DEF Z, x
    <3>4. Append(x, t) \in Seq(Z)
      BY ONLY <3>2, <3>3 DEF Z, x
    <3> QED BY ONLY <3>4 DEF Z, x
  <2> HIDE DEF p
  <2>5. n \in C
    BY <2>3, <2>4 DEF FactsCandidate
  <2>6. recipe' = [recipe EXCEPT !.candidates = [s EXCEPT ![i] = n]]
    BY <2>1 DEF p
  <2> HIDE DEF n, C, c
  <2>7. [s EXCEPT ![i] = n] \in Seq(C)
    <3>1. i \in DOMAIN s
      OBVIOUS
    <3> HIDE DEF s
    <3> QED BY ONLY <2>3, <2>5, <3>1
  <2>8. recipe' \in RequestRecipe
    BY ONLY <2>2, <2>6, <2>7 DEF RequestRecipe, C
  <2> QED BY <2>8 DEF RecipeOK
<1>3. CASE AddTransaction
  <2>1. PICK id \in TransactionIds \union {Zero}, b \in Bindings,
             ins \in {<< >>, <<<<1, 0>>>>, <<<<1, MaxInputIndex>>, <<1, MaxInputIndex>>>>} :
          recipe' = [recipe EXCEPT !.transactions = Append(@, [id |-> id, binding |-> b, inputs |-> ins])]
    BY <1>3 DEF AddTransaction
  <2>2. recipe \in ResponseRecipe
    BY <1>3 DEF AddTransaction, RecipeOf, RecipeOK, RequestRecipe
  <2> DEFINE c == [id |-> id, binding |-> b, inputs |-> ins]
             P == Nat \X Nat
  <2>3. c \in A
    <3>1. id \in Nat /\ b \in Nat /\ MaxInputIndex \in Nat
      BY FactsAssumption
    <3>2. ins \in Seq(Nat \X Nat)
      <4>1. <<1, 0>> \in P /\ <<1, MaxInputIndex>> \in P
        BY <3>1
      <4> DEFINE x == <<1, 0>>
                 y == <<1, MaxInputIndex>>
      <4> HIDE DEF P, x, y
      <4>2. << >> \in Seq(P) /\ <<x>> \in Seq(P) /\ <<y, y>> \in Seq(P)
        BY ONLY <4>1 DEF x, y
      <4>3. ins \in {<< >>, <<x>>, <<y, y>>}
        BY DEF x, y
      <4> QED BY ONLY <4>2, <4>3 DEF P
    <3> QED BY ONLY <3>1, <3>2 DEF FactsTransaction
  <2> HIDE DEF c, A
  <2>4. recipe.transactions \in Seq(A)
    BY <2>2 DEF ResponseRecipe, A
  <2>5. Append(recipe.transactions, c) \in Seq(A)
    BY ONLY <2>3, <2>4
  <2>6. recipe' = [recipe EXCEPT !.transactions = Append(recipe.transactions, c)]
    BY <2>1 DEF c
  <2>7. recipe' \in ResponseRecipe
    BY ONLY <2>2, <2>5, <2>6 DEF ResponseRecipe, A
  <2> QED BY <2>7 DEF RecipeOK
<1>4. CASE AddOutput
  <2>1. PICK id \in TransactionIds, index \in 0..1, b \in Bindings, value \in {MaxOutputValue, MaxOutputValue + 1} :
          recipe' = [recipe EXCEPT !.outputs = Append(@,
            [id |-> id, index |-> index, binding |-> b, derivation |-> 0, asset |-> 1,
             value |-> value, known |-> TRUE])]
    BY <1>4 DEF AddOutput
  <2>2. recipe \in ResponseRecipe
    BY <1>4 DEF AddOutput, RecipeOf, RecipeOK, RequestRecipe
  <2> DEFINE c == [id |-> id, index |-> index, binding |-> b, derivation |-> 0, asset |-> 1,
                   value |-> value, known |-> TRUE]
  <2>3. c \in B
    <3>1. id \in Nat /\ b \in Nat /\ MaxOutputValue \in Nat /\ index \in Nat
      BY FactsAssumption
    <3>2. value \in Nat
      BY <3>1
    <3> QED BY ONLY <3>1, <3>2 DEF FactsOutput
  <2> HIDE DEF c, B
  <2>4. recipe.outputs \in Seq(B)
    BY <2>2 DEF ResponseRecipe, B
  <2>5. Append(recipe.outputs, c) \in Seq(B)
    BY ONLY <2>3, <2>4
  <2>6. recipe' = [recipe EXCEPT !.outputs = Append(recipe.outputs, c)]
    BY <2>1 DEF c
  <2>7. recipe' \in ResponseRecipe
    BY ONLY <2>2, <2>5, <2>6 DEF ResponseRecipe, B
  <2> QED BY <2>7 DEF RecipeOK
<1>5. CASE UNCHANGED recipe
  BY <1>5 DEF RecipeOK
<1> QED BY <1>1, <1>2, <1>3, <1>4, <1>5 DEF FactsNext, factsVars, AddFrame, PointAtParent, EditCases

(* A token stands for no violation exactly if the call gives a frame.          *)
LEMMA TokensAre ==
  ASSUME NEW token \in DOMAIN RecipeProperties
  PROVE  RecipeProperties[token].code = 0 <=> RecipeProperties[token].found = {}
BY DEF RecipeProperties

(* A recipe the checker accepts under a token whose call gives a frame is written to a    *)
(* frame that the reader of its direction turns back into that very recipe, and every     *)
(* other token it is accepted under gives a frame as well: for every number of frames,    *)
(* candidates, inputs and outputs an author writes.                                       *)
THEOREM CleanRecipesAreReadBack == FactsSpec => []CleanRecipesRoundTrip
<1>1. RecipeOK => CleanRecipesRoundTrip
  <2> SUFFICES ASSUME RecipeOK, recipe # None, NEW token \in DOMAIN RecipeProperties, RecipeAccepted(recipe, token)
               PROVE  /\ RecipeProperties[token].code = 0 =>
                           LET frame == Encoded(recipe) IN
                           /\ frame # None /\ ApiAccepted(recipe, token, 0, frame)
                           /\ recipe = IF recipe.kind = "request" THEN DecodeRequest(frame) ELSE DecodeResponse(frame)
                      /\ \A other \in DOMAIN RecipeProperties : RecipeAccepted(recipe, other) =>
                           (RecipeProperties[token].code = 0 <=> RecipeProperties[other].code = 0)
    BY DEF CleanRecipesRoundTrip
  <2>1. recipe \in RequestRecipe \/ recipe \in ResponseRecipe
    BY DEF RecipeOK
  <2>2. ASSUME NEW other \in DOMAIN RecipeProperties, RecipeAccepted(recipe, other)
        PROVE  RecipeProperties[token].code = 0 <=> RecipeProperties[other].code = 0
    <3>1. RecipeProperties[token].found = RecipeProperties[other].found
      BY <2>2 DEF RecipeAccepted
    <3>2. /\ RecipeProperties[token].code = 0 <=> RecipeProperties[token].found = {}
          /\ RecipeProperties[other].code = 0 <=> RecipeProperties[other].found = {}
      BY ONLY TokensAre, token \in DOMAIN RecipeProperties, other \in DOMAIN RecipeProperties
    <3> QED BY ONLY <3>1, <3>2
  <2>3. ASSUME RecipeProperties[token].code = 0, NEW frame, frame = Encoded(recipe)
        PROVE  /\ frame # None /\ ApiAccepted(recipe, token, 0, frame)
               /\ recipe = IF recipe.kind = "request" THEN DecodeRequest(frame) ELSE DecodeResponse(frame)
    <3>1. ApiAccepted(recipe, token, 0, frame)
      BY <2>3 DEF ApiAccepted
    <3>2. CASE recipe \in RequestRecipe
      <4>1. recipe.kind = "request"
        BY <3>2 DEF RequestRecipe
      <4>2. frame = EncodeRequest(recipe)
        BY <2>3, <4>1 DEF Encoded
      <4>3. frame \in Seq(Cell) /\ DecodeRequest(frame) = recipe
        BY <3>2, <4>2, RequestIsReadBack
      <4>4. frame # None
        BY <4>3, FactsAssumption
      <4> QED BY <3>1, <4>1, <4>3, <4>4
    <3>3. CASE recipe \in ResponseRecipe
      <4>1. recipe.kind = "response" /\ recipe.kind # "request"
        BY <3>3 DEF ResponseRecipe
      <4>2. frame = EncodeResponse(recipe)
        BY <2>3, <4>1 DEF Encoded
      <4>3. RecipeProperties[token].found = {}
        BY <2>3, TokensAre
      <4>4. Clean(recipe)
        BY <3>3, <4>1, <4>3 DEF RecipeAccepted, Clean
      <4>5. frame \in Seq(Nat) /\ DecodeResponse(frame) = recipe
        BY <4>2, <4>4, ResponseIsReadBack
      <4>6. frame \in Seq(Cell)
        <5>1. Nat \subseteq Cell
          BY DEF Cell
        <5> QED BY <4>5, <5>1, WiderTexts
      <4>7. frame # None
        BY <4>6, FactsAssumption
      <4> QED BY <3>1, <4>1, <4>5, <4>7
    <3> QED BY <2>1, <3>2, <3>3
  <2> QED BY <2>2, <2>3
<1>2. FactsSpec => []RecipeOK
  BY RecipeInit, RecipeNext, PTL DEF FactsSpec
<1> QED BY <1>1, <1>2, PTL

-----------------------------------------------------------------------------
(***************************************************************************)
(* PlanCorpus: the three evaluators of a formula.                          *)
(***************************************************************************)
(* Folding the items s[1], .., s[m] by F from z.  All that evaluates a formula *)
(* folds, and what F keeps of pairs its folds keep.                            *)
FoldsBy(F, z, s, m, g) == g[0] = z /\ \A i \in 1..m : g[i] = F[<<g[i - 1], s[i]>>]
FoldStep(F, V, s, m) == [p \in (1..m) \X V |-> F[<<p[2], s[p[1]]>>]]

(* There is a fold, and it stays where F does.                                 *)
LEMMA FoldExists ==
  ASSUME NEW V, NEW z \in V, NEW W, NEW m \in Nat, NEW F \in [V \X W -> V], NEW s,
         \A i \in 1..m : s[i] \in W
  PROVE  \E g : g \in [0..m -> V] /\ FoldsBy(F, z, s, m, g)
<1> DEFINE step == FoldStep(F, V, s, m)
<1>1. \A i \in 1..m, v \in V : step[<<i, v>>] = F[<<v, s[i]>>] /\ step[<<i, v>>] \in V
  BY DEF FoldStep
<1> HIDE DEF step
<1>2. PICK g : Solves(V, z, m, step, g)
  BY <1>1, RecursionExists
<1>3. \A i \in 1..m : i - 1 \in 0..m
  OBVIOUS
<1>4. \A i \in 1..m : g[i] = F[<<g[i - 1], s[i]>>]
  BY <1>1, <1>2, <1>3 DEF Solves
<1> QED BY <1>2, <1>4 DEF Solves, FoldsBy

(* Whatever follows the recursion as long as it stays in V is the fold.        *)
LEMMA FoldIsIt ==
  ASSUME NEW V, NEW z \in V, NEW W, NEW m \in Nat, NEW F \in [V \X W -> V], NEW s,
         \A i \in 1..m : s[i] \in W,
         NEW j, DOMAIN j = 0..m, j = [i \in 0..m |-> j[i]], j[0] = z,
         \A i \in 1..m : j[i - 1] \in V => j[i] = F[<<j[i - 1], s[i]>>]
  PROVE  j \in [0..m -> V] /\ FoldsBy(F, z, s, m, j)
<1> DEFINE step == FoldStep(F, V, s, m)
<1>1. \A i \in 1..m, v \in V : step[<<i, v>>] = F[<<v, s[i]>>] /\ step[<<i, v>>] \in V
  BY DEF FoldStep
<1> HIDE DEF step
<1>2. \A i \in 1..m : j[i - 1] \in V => j[i] = step[<<i, j[i - 1]>>]
  BY <1>1
<1>3. Solves(V, z, m, step, j)
  BY <1>1, <1>2, Solution
<1>4. \A i \in 1..m : i - 1 \in 0..m
  OBVIOUS
<1> QED BY <1>1, <1>3, <1>4 DEF Solves, FoldsBy

(* Steps over two lists of items keep a relation.                              *)
StepsKeep(F, s, G, t, m, R) ==
  \A i \in 1..m : \A a, b : <<a, b>> \in R => <<F[<<a, s[i]>>], G[<<b, t[i]>>]>> \in R

(* Two folds over as many items stay related as the steps relate them.         *)
LEMMA FoldsRelate ==
  ASSUME NEW m \in Nat, NEW F, NEW y, NEW s, NEW f, FoldsBy(F, y, s, m, f),
         NEW G, NEW z, NEW t, NEW g, FoldsBy(G, z, t, m, g),
         NEW R, <<y, z>> \in R,
         StepsKeep(F, s, G, t, m, R)
  PROVE  <<f[m], g[m]>> \in R
<1> DEFINE S == {n \in Nat : n <= m => <<f[n], g[n]>> \in R}
<1>1. 0 \in S
  BY DEF FoldsBy
<1>2. ASSUME NEW n \in S PROVE n + 1 \in S
  <2> SUFFICES ASSUME n + 1 <= m PROVE <<f[n + 1], g[n + 1]>> \in R
    OBVIOUS
  <2>1. <<f[n], g[n]>> \in R /\ n + 1 \in 1..m /\ (n + 1) - 1 = n
    OBVIOUS
  <2>2. f[n + 1] = F[<<f[n], s[n + 1]>>] /\ g[n + 1] = G[<<g[n], t[n + 1]>>]
    BY <2>1 DEF FoldsBy
  <2> QED BY <2>1, <2>2 DEF StepsKeep
<1>3. S = Nat
  <2> HIDE DEF S
  <2>1. S \in SUBSET Nat
    BY DEF S
  <2> QED BY <1>1, <1>2, <2>1, NumberInduction
<1> QED BY <1>3

(* What the evaluators pass on, and their steps.                               *)
Value == Nat \cup {None}
MulF == [p \in Value \X Nat |-> IF p[1] = None THEN None ELSE CheckedWord(p[1] * p[2])]
FactsMulF ==
  [p \in Value \X Nat |->
     IF p[1] = None THEN None ELSE
     IF p[2] # 0 /\ (p[2] > MaxWord \/ p[1] > MaxWord \div p[2]) THEN None ELSE p[1] * p[2]]
ExactMulF == [p \in Nat \X Nat |-> p[1] * p[2]]
AddF ==
  [p \in Value \X Value |->
     IF p[1] = None \/ p[2] = None THEN None ELSE CheckedWord(p[1] + p[2])]
FactsAddF ==
  [p \in Value \X Value |->
     IF p[1] = None \/ p[2] = None THEN None ELSE
     IF p[1] > MaxWord - p[2] THEN None ELSE p[1] + p[2]]
ExactAddF == [p \in Nat \X Nat |-> p[1] + p[2]]

(* The steps stay where they are used.                                       *)
LEMMA StepsStay ==
  /\ MulF \in [Value \X Nat -> Value] /\ FactsMulF \in [Value \X Nat -> Value]
  /\ ExactMulF \in [Nat \X Nat -> Nat]
  /\ AddF \in [Value \X Value -> Value] /\ FactsAddF \in [Value \X Value -> Value]
  /\ ExactAddF \in [Nat \X Nat -> Nat]
<1>1. \A p \in Value \X Nat :
        /\ p[1] # None => p[1] * p[2] \in Nat /\ CheckedWord(p[1] * p[2]) \in Value
        /\ None \in Value
  BY DEF Value, CheckedWord
<1>2. \A p \in Value \X Value :
        p[1] # None /\ p[2] # None => p[1] + p[2] \in Nat /\ CheckedWord(p[1] + p[2]) \in Value
  BY DEF Value, CheckedWord
<1>3. MulF \in [Value \X Nat -> Value]
  BY <1>1 DEF MulF, Value
<1>4. FactsMulF \in [Value \X Nat -> Value]
  <2>1. \A p \in Value \X Nat : FactsMulF[p] \in Value
    BY <1>1 DEF FactsMulF, Value
  <2> QED BY <2>1 DEF FactsMulF
<1>5. AddF \in [Value \X Value -> Value]
  BY <1>2 DEF AddF, Value
<1>6. FactsAddF \in [Value \X Value -> Value]
  <2>1. \A p \in Value \X Value : FactsAddF[p] \in Value
    BY <1>2 DEF FactsAddF, Value
  <2> QED BY <2>1 DEF FactsAddF
<1>7. ExactMulF \in [Nat \X Nat -> Nat] /\ ExactAddF \in [Nat \X Nat -> Nat]
  BY DEF ExactMulF, ExactAddF
<1> QED BY <1>3, <1>4, <1>5, <1>6, <1>7

(* Each evaluator is a fold.                                                   *)
LEMMA ProductFolds ==
  ASSUME NEW s \in Seq(Nat)
  PROVE  \E g \in [0..Len(s) -> Value] : FoldsBy(MulF, 1, s, Len(s), g) /\ Product(s) = g[Len(s)]
<1> DEFINE L == Len(s)
           Good(p) ==
             p = [i \in 0..L |->
                    IF i = 0 THEN 1 ELSE IF p[i - 1] = None THEN None ELSE
                    IF p[i - 1] * s[i] > MaxWord THEN None ELSE p[i - 1] * s[i]]
           j == CHOOSE p : Good(p)
<1>1. L \in Nat /\ 1 \in Value /\ MulF \in [Value \X Nat -> Value] /\ \A i \in 1..L : s[i] \in Nat
  BY StepsStay DEF Value
<1>2. ASSUME NEW v \in Value, NEW w \in Nat
      PROVE  MulF[<<v, w>>] = IF v = None THEN None ELSE IF v * w > MaxWord THEN None ELSE v * w
  BY DEF MulF, CheckedWord
<1>3. Product(s) = j[L]
  BY DEF Product
<1>4. \E p : Good(p)
  <2> HIDE DEF L
  <2>1. PICK g : g \in [0..L -> Value] /\ FoldsBy(MulF, 1, s, L, g)
    BY <1>1, FoldExists
  <2>2. \A i \in 0..L : i # 0 => i \in 1..L /\ i - 1 \in 0..L
    BY <1>1
  <2>3. \A i \in 0..L : g[i] = IF i = 0 THEN 1 ELSE IF g[i - 1] = None THEN None ELSE
                    IF g[i - 1] * s[i] > MaxWord THEN None ELSE g[i - 1] * s[i]
    BY <1>1, <1>2, <2>1, <2>2 DEF FoldsBy
  <2> QED BY <2>1, <2>3
<1>5. Good(j)
  <2> HIDE DEF Good
  <2> QED BY <1>4
<1>6. j \in [0..L -> Value] /\ FoldsBy(MulF, 1, s, L, j)
  <2> HIDE DEF j, L
  <2>1. DOMAIN j = 0..L /\ j = [i \in 0..L |-> j[i]] /\ j[0] = 1
    BY <1>1, <1>5
  <2>2. ASSUME NEW i \in 1..L, j[i - 1] \in Value PROVE j[i] = MulF[<<j[i - 1], s[i]>>]
    <3>1. i \in 0..L /\ i # 0 /\ s[i] \in Nat
      BY <1>1
    <3> QED BY <1>2, <1>5, <2>2, <3>1
  <2> HIDE DEF Good
  <2> QED BY <1>1, <2>1, <2>2, FoldIsIt
<1> HIDE DEF j
<1> QED BY <1>3, <1>6

LEMMA FactsProductFolds ==
  ASSUME NEW s \in Seq(Nat)
  PROVE  \E g \in [0..Len(s) -> Value] :
           FoldsBy(FactsMulF, 1, s, Len(s), g) /\ FactsProduct(s) = g[Len(s)]
<1> DEFINE L == Len(s)
           t == s
           Good(p) == p = [i \in 0..L |-> IF i = 0 THEN 1 ELSE
               IF p[i - 1] = None THEN None ELSE
               IF s[i] # 0 /\ (s[i] > MaxWord \/ p[i - 1] > MaxWord \div s[i]) THEN None ELSE
               p[i - 1] * s[i]]
           j == CHOOSE p : Good(p)
<1>1. L \in Nat /\ 1 \in Value /\ FactsMulF \in [Value \X Nat -> Value]
          /\ \A i \in 1..L : t[i] = s[i] /\ t[i] \in Nat
  BY StepsStay DEF Value
<1>2. ASSUME NEW v \in Value, NEW w \in Nat
      PROVE  FactsMulF[<<v, w>>] = IF v = None THEN None ELSE
          IF w # 0 /\ (w > MaxWord \/ v > MaxWord \div w) THEN None ELSE v * w
  BY DEF FactsMulF
<1>3. FactsProduct(s) = j[L]
  BY DEF FactsProduct
<1>4. \E p : Good(p)
  <2> HIDE DEF L, t
  <2>1. PICK g : g \in [0..L -> Value] /\ FoldsBy(FactsMulF, 1, t, L, g)
    BY <1>1, FoldExists
  <2>2. \A i \in 0..L : i # 0 => i \in 1..L /\ i - 1 \in 0..L
    BY <1>1
  <2>3. ASSUME NEW i \in 0..L PROVE g[i] = IF i = 0 THEN 1 ELSE
            IF g[i - 1] = None THEN None ELSE
            IF s[i] # 0 /\ (s[i] > MaxWord \/ g[i - 1] > MaxWord \div s[i]) THEN None ELSE
            g[i - 1] * s[i]
    <3>1. CASE i = 0
      BY <2>1, <3>1 DEF FoldsBy
    <3>2. CASE i # 0
      <4>1. g[i] = FactsMulF[<<g[i - 1], t[i]>>] /\ g[i - 1] \in Value
        BY <2>1, <2>2, <3>2 DEF FoldsBy
      <4>2. t[i] \in Nat /\ t[i] = s[i]
        BY <1>1, <2>2, <3>2
      <4> QED BY <1>2, <3>2, <4>1, <4>2
    <3> QED BY <3>1, <3>2
  <2> QED BY <2>1, <2>3
<1>5. Good(j)
  <2> HIDE DEF Good
  <2> QED BY <1>4
<1>6. j \in [0..L -> Value] /\ FoldsBy(FactsMulF, 1, t, L, j)
  <2> HIDE DEF j, L, t
  <2>1. DOMAIN j = 0..L /\ j = [i \in 0..L |-> j[i]] /\ j[0] = 1
    BY <1>1, <1>5
  <2>2. ASSUME NEW i \in 1..L, j[i - 1] \in Value PROVE j[i] = FactsMulF[<<j[i - 1], t[i]>>]
    <3>1. i \in 0..L /\ i # 0 /\ t[i] \in Nat /\ t[i] = s[i]
      BY <1>1
    <3>2. j[i] = IF j[i - 1] = None THEN None ELSE
              IF s[i] # 0 /\ (s[i] > MaxWord \/ j[i - 1] > MaxWord \div s[i]) THEN None ELSE
              j[i - 1] * s[i]
      <4> HIDE DEF L
      <4> QED BY <1>5, <3>1
    <3> QED BY <1>2, <2>2, <3>1, <3>2
  <2> HIDE DEF Good
  <2> QED BY <1>1, <2>1, <2>2, FoldIsIt
<1> HIDE DEF j
<1> QED BY <1>3, <1>6

LEMMA ExactFolds ==
  ASSUME NEW s \in Seq(Nat)
  PROVE  \E g \in [0..Len(s) -> Nat] :
           FoldsBy(ExactMulF, 1, s, Len(s), g) /\ Exact(s) = g[Len(s)]
<1> DEFINE L == Len(s)
           t == s
           Good(p) == p = [i \in 0..L |-> IF i = 0 THEN 1 ELSE p[i - 1] * s[i]]
           j == CHOOSE p : Good(p)
<1>1. L \in Nat /\ 1 \in Nat /\ ExactMulF \in [Nat \X Nat -> Nat]
          /\ \A i \in 1..L : t[i] = s[i] /\ t[i] \in Nat
  BY StepsStay DEF Value
<1>2. ASSUME NEW v \in Nat, NEW w \in Nat
      PROVE  ExactMulF[<<v, w>>] = v * w
  BY DEF ExactMulF
<1>3. Exact(s) = j[L]
  BY DEF Exact
<1>4. \E p : Good(p)
  <2> HIDE DEF L, t
  <2>1. PICK g : g \in [0..L -> Nat] /\ FoldsBy(ExactMulF, 1, t, L, g)
    BY <1>1, FoldExists
  <2>2. \A i \in 0..L : i # 0 => i \in 1..L /\ i - 1 \in 0..L
    BY <1>1
  <2>3. ASSUME NEW i \in 0..L PROVE g[i] = IF i = 0 THEN 1 ELSE g[i - 1] * s[i]
    <3>1. CASE i = 0
      BY <2>1, <3>1 DEF FoldsBy
    <3>2. CASE i # 0
      <4>1. g[i] = ExactMulF[<<g[i - 1], t[i]>>] /\ g[i - 1] \in Nat
        BY <2>1, <2>2, <3>2 DEF FoldsBy
      <4>2. t[i] \in Nat /\ t[i] = s[i]
        BY <1>1, <2>2, <3>2
      <4> QED BY <1>2, <3>2, <4>1, <4>2
    <3> QED BY <3>1, <3>2
  <2> QED BY <2>1, <2>3
<1>5. Good(j)
  <2> HIDE DEF Good
  <2> QED BY <1>4
<1>6. j \in [0..L -> Nat] /\ FoldsBy(ExactMulF, 1, t, L, j)
  <2> HIDE DEF j, L, t
  <2>1. DOMAIN j = 0..L /\ j = [i \in 0..L |-> j[i]] /\ j[0] = 1
    BY <1>1, <1>5
  <2>2. ASSUME NEW i \in 1..L, j[i - 1] \in Nat PROVE j[i] = ExactMulF[<<j[i - 1], t[i]>>]
    <3>1. i \in 0..L /\ i # 0 /\ t[i] \in Nat /\ t[i] = s[i]
      BY <1>1
    <3>2. j[i] = j[i - 1] * s[i]
      <4> HIDE DEF L
      <4> QED BY <1>5, <3>1
    <3> QED BY <1>2, <2>2, <3>1, <3>2
  <2> HIDE DEF Good
  <2> QED BY <1>1, <2>1, <2>2, FoldIsIt
<1> HIDE DEF j
<1> QED BY <1>3, <1>6

LEMMA TreeProductFolds ==
  ASSUME NEW s \in Seq(Nat), s # << >>
  PROVE  \E g \in [0..(Len(s) - 1) -> Value] :
           FoldsBy(MulF, s[1], Tail(s), (Len(s) - 1), g) /\ TreeProduct(s) = g[(Len(s) - 1)]
<1> DEFINE L == (Len(s) - 1)
           t == Tail(s)
           Good(p) == p = [i \in 0..L |-> IF i = 0 THEN s[1] ELSE
               IF p[i - 1] = None THEN None ELSE CheckedWord(p[i - 1] * s[i + 1])]
           j == CHOOSE p : Good(p)
<1>1. L \in Nat /\ s[1] \in Value /\ MulF \in [Value \X Nat -> Value]
          /\ \A i \in 1..L : t[i] = s[i + 1] /\ t[i] \in Nat
  BY StepsStay DEF Value
<1>2. ASSUME NEW v \in Value, NEW w \in Nat
      PROVE  MulF[<<v, w>>] = IF v = None THEN None ELSE CheckedWord(v * w)
  BY DEF MulF
<1>3. TreeProduct(s) = j[L]
  BY DEF TreeProduct
<1>4. \E p : Good(p)
  <2> HIDE DEF L, t
  <2>1. PICK g : g \in [0..L -> Value] /\ FoldsBy(MulF, s[1], t, L, g)
    BY <1>1, FoldExists
  <2>2. \A i \in 0..L : i # 0 => i \in 1..L /\ i - 1 \in 0..L
    BY <1>1
  <2>3. ASSUME NEW i \in 0..L PROVE g[i] = IF i = 0 THEN s[1] ELSE
            IF g[i - 1] = None THEN None ELSE CheckedWord(g[i - 1] * s[i + 1])
    <3>1. CASE i = 0
      BY <2>1, <3>1 DEF FoldsBy
    <3>2. CASE i # 0
      <4>1. g[i] = MulF[<<g[i - 1], t[i]>>] /\ g[i - 1] \in Value
        BY <2>1, <2>2, <3>2 DEF FoldsBy
      <4>2. t[i] \in Nat /\ t[i] = s[i + 1]
        BY <1>1, <2>2, <3>2
      <4> QED BY <1>2, <3>2, <4>1, <4>2
    <3> QED BY <3>1, <3>2
  <2> QED BY <2>1, <2>3
<1>5. Good(j)
  <2> HIDE DEF Good
  <2> QED BY <1>4
<1>6. j \in [0..L -> Value] /\ FoldsBy(MulF, s[1], t, L, j)
  <2> HIDE DEF j, L, t
  <2>1. DOMAIN j = 0..L /\ j = [i \in 0..L |-> j[i]] /\ j[0] = s[1]
    BY <1>1, <1>5
  <2>2. ASSUME NEW i \in 1..L, j[i - 1] \in Value PROVE j[i] = MulF[<<j[i - 1], t[i]>>]
    <3>1. i \in 0..L /\ i # 0 /\ t[i] \in Nat /\ t[i] = s[i + 1]
      BY <1>1
    <3>2. j[i] = IF j[i - 1] = None THEN None ELSE CheckedWord(j[i - 1] * s[i + 1])
      <4> HIDE DEF L
      <4> QED BY <1>5, <3>1
    <3> QED BY <1>2, <2>2, <3>1, <3>2
  <2> HIDE DEF Good
  <2> QED BY <1>1, <2>1, <2>2, FoldIsIt
<1> HIDE DEF j
<1> QED BY <1>3, <1>6

(* What the terms of a formula are to each.                                  *)
LEMMA ValuesOfTerms ==
  ASSUME NEW s \in Seq(Seq(Nat)), NEW i \in DOMAIN s
  PROVE  /\ Product(s[i]) \in Value /\ FactsProduct(s[i]) \in Value
         /\ Exact(s[i]) \in Nat
         /\ s[i] # << >> => TreeProduct(s[i]) \in Value
<1>1. s[i] \in Seq(Nat)
  OBVIOUS
<1> DEFINE f == s[i]
           L == Len(f)
<1>2. L \in Nat /\ L \in 0..L /\ (f # << >> => L - 1 \in 0..(L - 1))
  BY <1>1
<1> HIDE DEF f
<1>3. Product(f) \in Value
  BY <1>1, <1>2, ProductFolds DEF f
<1>4. FactsProduct(f) \in Value
  BY <1>1, <1>2, FactsProductFolds DEF f
<1>5. Exact(f) \in Nat
  BY <1>1, <1>2, ExactFolds DEF f
<1>6. f # << >> => TreeProduct(f) \in Value
  BY <1>1, <1>2, TreeProductFolds DEF f
<1> QED BY <1>3, <1>4, <1>5, <1>6 DEF f

LEMMA EvaluateFolds ==
  ASSUME NEW s \in Seq(Seq(Nat))
  PROVE  \E g \in [0..Len(s) -> Value] :
           FoldsBy(AddF, 0, Each(s, Product), Len(s), g) /\ EvaluateFormula(s) = g[Len(s)]
<1> DEFINE L == Len(s)
           t == Each(s, Product)
           Good(p) == p = [i \in 0..L |-> IF i = 0 THEN 0 ELSE
               IF p[i - 1] = None \/ Product(s[i]) = None THEN None ELSE
               IF p[i - 1] + Product(s[i]) > MaxWord THEN None ELSE p[i - 1] + Product(s[i])]
           j == CHOOSE p : Good(p)
<1>1. L \in Nat /\ 0 \in Value /\ AddF \in [Value \X Value -> Value]
          /\ \A i \in 1..L : t[i] = Product(s[i]) /\ t[i] \in Value
  BY StepsStay, ValuesOfTerms DEF Value, Each
<1>2. ASSUME NEW v \in Value, NEW w \in Value
      PROVE  AddF[<<v, w>>] = IF v = None \/ w = None THEN None ELSE
          IF v + w > MaxWord THEN None ELSE v + w
  BY DEF AddF, CheckedWord
<1>3. EvaluateFormula(s) = j[L]
  BY DEF EvaluateFormula
<1>4. \E p : Good(p)
  <2> HIDE DEF L, t
  <2>1. PICK g : g \in [0..L -> Value] /\ FoldsBy(AddF, 0, t, L, g)
    BY <1>1, FoldExists
  <2>2. \A i \in 0..L : i # 0 => i \in 1..L /\ i - 1 \in 0..L
    BY <1>1
  <2>3. ASSUME NEW i \in 0..L PROVE g[i] = IF i = 0 THEN 0 ELSE
            IF g[i - 1] = None \/ Product(s[i]) = None THEN None ELSE
            IF g[i - 1] + Product(s[i]) > MaxWord THEN None ELSE g[i - 1] + Product(s[i])
    <3>1. CASE i = 0
      BY <2>1, <3>1 DEF FoldsBy
    <3>2. CASE i # 0
      <4>1. g[i] = AddF[<<g[i - 1], t[i]>>] /\ g[i - 1] \in Value
        BY <2>1, <2>2, <3>2 DEF FoldsBy
      <4>2. t[i] \in Value /\ t[i] = Product(s[i])
        BY <1>1, <2>2, <3>2
      <4> QED BY <1>2, <3>2, <4>1, <4>2
    <3> QED BY <3>1, <3>2
  <2> QED BY <2>1, <2>3
<1>5. Good(j)
  <2> HIDE DEF Good
  <2> QED BY <1>4
<1>6. j \in [0..L -> Value] /\ FoldsBy(AddF, 0, t, L, j)
  <2> HIDE DEF j, L, t
  <2>1. DOMAIN j = 0..L /\ j = [i \in 0..L |-> j[i]] /\ j[0] = 0
    BY <1>1, <1>5
  <2>2. ASSUME NEW i \in 1..L, j[i - 1] \in Value PROVE j[i] = AddF[<<j[i - 1], t[i]>>]
    <3>1. i \in 0..L /\ i # 0 /\ t[i] \in Value /\ t[i] = Product(s[i])
      BY <1>1
    <3>2. j[i] = IF j[i - 1] = None \/ Product(s[i]) = None THEN None ELSE
              IF j[i - 1] + Product(s[i]) > MaxWord THEN None ELSE j[i - 1] + Product(s[i])
      <4> HIDE DEF L
      <4> QED BY <1>5, <3>1
    <3> QED BY <1>2, <2>2, <3>1, <3>2
  <2> HIDE DEF Good
  <2> QED BY <1>1, <2>1, <2>2, FoldIsIt
<1> HIDE DEF j
<1> QED BY <1>3, <1>6

LEMMA FactsFolds ==
  ASSUME NEW s \in Seq(Seq(Nat))
  PROVE  \E g \in [0..Len(s) -> Value] :
           FoldsBy(FactsAddF, 0, Each(s, FactsProduct), Len(s), g) /\ FactsFormula(s) = g[Len(s)]
<1> DEFINE L == Len(s)
           t == Each(s, FactsProduct)
           Good(p) == p = [i \in 0..L |-> IF i = 0 THEN 0 ELSE
               IF p[i - 1] = None \/ FactsProduct(s[i]) = None THEN None ELSE
               IF p[i - 1] > MaxWord - FactsProduct(s[i]) THEN None ELSE
               p[i - 1] + FactsProduct(s[i])]
           j == CHOOSE p : Good(p)
<1>1. L \in Nat /\ 0 \in Value /\ FactsAddF \in [Value \X Value -> Value]
          /\ \A i \in 1..L : t[i] = FactsProduct(s[i]) /\ t[i] \in Value
  BY StepsStay, ValuesOfTerms DEF Value, Each
<1>2. ASSUME NEW v \in Value, NEW w \in Value
      PROVE  FactsAddF[<<v, w>>] = IF v = None \/ w = None THEN None ELSE
          IF v > MaxWord - w THEN None ELSE v + w
  BY DEF FactsAddF
<1>3. FactsFormula(s) = j[L]
  BY DEF FactsFormula
<1>4. \E p : Good(p)
  <2> HIDE DEF L, t
  <2>1. PICK g : g \in [0..L -> Value] /\ FoldsBy(FactsAddF, 0, t, L, g)
    BY <1>1, FoldExists
  <2>2. \A i \in 0..L : i # 0 => i \in 1..L /\ i - 1 \in 0..L
    BY <1>1
  <2>3. ASSUME NEW i \in 0..L PROVE g[i] = IF i = 0 THEN 0 ELSE
            IF g[i - 1] = None \/ FactsProduct(s[i]) = None THEN None ELSE
            IF g[i - 1] > MaxWord - FactsProduct(s[i]) THEN None ELSE g[i - 1] + FactsProduct(s[i])
    <3>1. CASE i = 0
      BY <2>1, <3>1 DEF FoldsBy
    <3>2. CASE i # 0
      <4>1. g[i] = FactsAddF[<<g[i - 1], t[i]>>] /\ g[i - 1] \in Value
        BY <2>1, <2>2, <3>2 DEF FoldsBy
      <4>2. t[i] \in Value /\ t[i] = FactsProduct(s[i])
        BY <1>1, <2>2, <3>2
      <4> QED BY <1>2, <3>2, <4>1, <4>2
    <3> QED BY <3>1, <3>2
  <2> QED BY <2>1, <2>3
<1>5. Good(j)
  <2> HIDE DEF Good
  <2> QED BY <1>4
<1>6. j \in [0..L -> Value] /\ FoldsBy(FactsAddF, 0, t, L, j)
  <2> HIDE DEF j, L, t
  <2>1. DOMAIN j = 0..L /\ j = [i \in 0..L |-> j[i]] /\ j[0] = 0
    BY <1>1, <1>5
  <2>2. ASSUME NEW i \in 1..L, j[i - 1] \in Value PROVE j[i] = FactsAddF[<<j[i - 1], t[i]>>]
    <3>1. i \in 0..L /\ i # 0 /\ t[i] \in Value /\ t[i] = FactsProduct(s[i])
      BY <1>1
    <3>2. j[i] = IF j[i - 1] = None \/ FactsProduct(s[i]) = None THEN None ELSE
              IF j[i - 1] > MaxWord - FactsProduct(s[i]) THEN None ELSE
              j[i - 1] + FactsProduct(s[i])
      <4> HIDE DEF L
      <4> QED BY <1>5, <3>1
    <3> QED BY <1>2, <2>2, <3>1, <3>2
  <2> HIDE DEF Good
  <2> QED BY <1>1, <2>1, <2>2, FoldIsIt
<1> HIDE DEF j
<1> QED BY <1>3, <1>6

LEMMA TreeFolds ==
  ASSUME NEW s \in Seq(Seq(Nat)), s # << >>, \A i \in DOMAIN s : s[i] # << >>
  PROVE  \E g \in [0..(Len(s) - 1) -> Value] :
           FoldsBy(AddF, TreeProduct(s[1]), Tail(Each(s, TreeProduct)), (Len(s) - 1), g)
               /\ TreeValue(s) = g[(Len(s) - 1)]
<1> DEFINE L == (Len(s) - 1)
           t == Tail(Each(s, TreeProduct))
           Good(p) == p = [i \in 0..L |-> IF i = 0 THEN TreeProduct(s[i + 1]) ELSE
               IF p[i - 1] = None \/ TreeProduct(s[i + 1]) = None THEN None ELSE
               CheckedWord(p[i - 1] + TreeProduct(s[i + 1]))]
           j == CHOOSE p : Good(p)
<1>1. L \in Nat /\ TreeProduct(s[1]) \in Value /\ AddF \in [Value \X Value -> Value]
          /\ \A i \in 1..L : t[i] = TreeProduct(s[i + 1]) /\ t[i] \in Value
  BY StepsStay, ValuesOfTerms DEF Value, Each
<1>2. ASSUME NEW v \in Value, NEW w \in Value
      PROVE  AddF[<<v, w>>] = IF v = None \/ w = None THEN None ELSE CheckedWord(v + w)
  BY DEF AddF
<1>3. TreeValue(s) = j[L]
  BY DEF TreeValue
<1>4. \E p : Good(p)
  <2> HIDE DEF L, t
  <2>1. PICK g : g \in [0..L -> Value] /\ FoldsBy(AddF, TreeProduct(s[1]), t, L, g)
    BY <1>1, FoldExists
  <2>2. \A i \in 0..L : i # 0 => i \in 1..L /\ i - 1 \in 0..L
    BY <1>1
  <2>3. ASSUME NEW i \in 0..L PROVE g[i] = IF i = 0 THEN TreeProduct(s[i + 1]) ELSE
            IF g[i - 1] = None \/ TreeProduct(s[i + 1]) = None THEN None ELSE
            CheckedWord(g[i - 1] + TreeProduct(s[i + 1]))
    <3>1. CASE i = 0
      BY <2>1, <3>1 DEF FoldsBy
    <3>2. CASE i # 0
      <4>1. g[i] = AddF[<<g[i - 1], t[i]>>] /\ g[i - 1] \in Value
        BY <2>1, <2>2, <3>2 DEF FoldsBy
      <4>2. t[i] \in Value /\ t[i] = TreeProduct(s[i + 1])
        BY <1>1, <2>2, <3>2
      <4> QED BY <1>2, <3>2, <4>1, <4>2
    <3> QED BY <3>1, <3>2
  <2> QED BY <2>1, <2>3
<1>5. Good(j)
  <2> HIDE DEF Good
  <2> QED BY <1>4
<1>6. j \in [0..L -> Value] /\ FoldsBy(AddF, TreeProduct(s[1]), t, L, j)
  <2> HIDE DEF j, L, t
  <2>1. DOMAIN j = 0..L /\ j = [i \in 0..L |-> j[i]] /\ j[0] = TreeProduct(s[1])
    BY <1>1, <1>5
  <2>2. ASSUME NEW i \in 1..L, j[i - 1] \in Value PROVE j[i] = AddF[<<j[i - 1], t[i]>>]
    <3>1. i \in 0..L /\ i # 0 /\ t[i] \in Value /\ t[i] = TreeProduct(s[i + 1])
      BY <1>1
    <3>2. j[i] = IF j[i - 1] = None \/ TreeProduct(s[i + 1]) = None THEN None ELSE
              CheckedWord(j[i - 1] + TreeProduct(s[i + 1]))
      <4> HIDE DEF L
      <4> QED BY <1>5, <3>1
    <3> QED BY <1>2, <2>2, <3>1, <3>2
  <2> HIDE DEF Good
  <2> QED BY <1>1, <2>1, <2>2, FoldIsIt
<1> HIDE DEF j
<1> QED BY <1>3, <1>6

(* A product overflows exactly if a factor is more than the other leaves room. *)
LEMMA DivisionBounds ==
  ASSUME NEW M \in Nat, NEW v \in Nat \ {0}, NEW p \in Nat
  PROVE  p > M \div v <=> p * v > M
<1> DEFINE d == M \div v
           r == M % v
<1>1. M = v * d + r /\ d \in Nat /\ r \in 0..(v - 1)
  OBVIOUS
<1> HIDE DEF d, r
<1>2. ASSUME p > d PROVE p * v > M
  <2>1. p * v >= (d + 1) * v
    BY <1>1, <1>2
  <2>2. (d + 1) * v = v * d + v
    BY <1>1
  <2> QED BY <1>1, <2>1, <2>2
<1>3. ASSUME p <= d PROVE p * v <= M
  <2>1. p * v <= d * v
    BY <1>1, <1>3
  <2>2. d * v = v * d
    BY <1>1
  <2> QED BY <1>1, <2>1, <2>2
<1>4. p * v \in Nat
  OBVIOUS
<1> QED BY <1>1, <1>2, <1>3, <1>4 DEF d

(* Of words, and of larger literals that meet no 0, the two multiply alike.    *)
LEMMA StepsMultiplyAlike ==
  ASSUME NEW a \in Value, NEW w \in Nat, w <= MaxWord \/ a # 0
  PROVE  FactsMulF[<<a, w>>] = MulF[<<a, w>>]
<1> USE PlanCorpusAssumption
<1>1. CASE a = None
  BY <1>1 DEF FactsMulF, MulF
<1>2. CASE a \in Nat /\ w = 0
  <2>1. a * w = 0 /\ a # None /\ MaxWord >= 0
    BY <1>2
  <2> QED BY <1>2, <2>1 DEF FactsMulF, MulF, CheckedWord, Value
<1>3. CASE a \in Nat /\ w # 0
  <2>1. a > MaxWord \div w <=> a * w > MaxWord
    BY <1>3, DivisionBounds
  <2>2. w > MaxWord => a * w > MaxWord
    <3> SUFFICES ASSUME w > MaxWord PROVE a * w > MaxWord
      OBVIOUS
    <3>1. a >= 1 /\ a * w >= w
      BY <1>3
    <3>2. a * w \in Nat
      BY <1>3
    <3> QED BY <3>1, <3>2
  <2> QED BY <1>3, <2>1, <2>2 DEF FactsMulF, MulF, CheckedWord, Value
<1> QED BY <1>1, <1>2, <1>3 DEF Value

(* So the products agree.                                                    *)
LEMMA FactsProductIsProduct ==
  ASSUME NEW s \in Seq(Nat),
         \/ \A k \in DOMAIN s : s[k] <= MaxWord
         \/ \A k \in DOMAIN s : s[k] # 0
  PROVE  FactsProduct(s) = Product(s)
<1> USE PlanCorpusAssumption
<1> DEFINE L == Len(s)
           R == {p \in Value \X Value :
                   p[1] = p[2] /\ (p[1] # 0 \/ \A k \in DOMAIN s : s[k] <= MaxWord)}
<1>1. L \in Nat /\ \A i \in 1..L : s[i] \in Nat /\ i \in DOMAIN s
  OBVIOUS
<1>2. PICK f \in [0..L -> Value] : FoldsBy(FactsMulF, 1, s, L, f) /\ FactsProduct(s) = f[L]
  BY FactsProductFolds
<1>3. PICK g \in [0..L -> Value] : FoldsBy(MulF, 1, s, L, g) /\ Product(s) = g[L]
  BY ProductFolds
<1>4. <<1, 1>> \in R
  BY DEF Value
<1>5. ASSUME NEW i \in 1..L, NEW a, NEW b, <<a, b>> \in R
      PROVE  <<FactsMulF[<<a, s[i]>>], MulF[<<b, s[i]>>]>> \in R
  <2>1. a = b /\ a \in Value /\ s[i] \in Nat /\ (s[i] <= MaxWord \/ a # 0)
    BY <1>1, <1>5
  <2>2. FactsMulF[<<a, s[i]>>] = MulF[<<a, s[i]>>] /\ MulF[<<a, s[i]>>] \in Value
    BY <2>1, StepsMultiplyAlike, StepsStay
  <2>3. MulF[<<a, s[i]>>] # 0 \/ \A k \in DOMAIN s : s[k] <= MaxWord
    <3> SUFFICES ASSUME \E k \in DOMAIN s : ~ (s[k] <= MaxWord) PROVE MulF[<<a, s[i]>>] # 0
      OBVIOUS
    <3>1. a # 0 /\ s[i] # 0
      BY <1>1, <1>5
    <3>2. a \in Nat => a * s[i] \in Nat /\ a * s[i] # 0
      BY <2>1, <3>1
    <3> QED BY <2>1, <3>2 DEF MulF, CheckedWord, Value
  <2> QED BY <2>1, <2>2, <2>3
<1>6. <<f[L], g[L]>> \in R
  <2>1. StepsKeep(FactsMulF, s, MulF, s, L, R)
    BY <1>5 DEF StepsKeep
  <2>2. L \in Nat /\ FoldsBy(FactsMulF, 1, s, L, f) /\ FoldsBy(MulF, 1, s, L, g)
    BY <1>1, <1>2, <1>3
  <2> HIDE DEF R, L
  <2> QED BY <1>4, <2>1, <2>2, FoldsRelate
<1> QED BY <1>2, <1>3, <1>6

(* A product that fits is the product.                                         *)
Fits == {p \in Value \X Nat : p[1] # None => p[1] = p[2] /\ p[1] <= MaxWord}
LEMMA ProductIsExact == ASSUME NEW s \in Seq(Nat) PROVE <<Product(s), Exact(s)>> \in Fits
<1> USE PlanCorpusAssumption
<1> DEFINE L == Len(s)
<1>1. L \in Nat /\ \A i \in 1..L : s[i] \in Nat
  OBVIOUS
<1>2. PICK f \in [0..L -> Value] : FoldsBy(MulF, 1, s, L, f) /\ Product(s) = f[L]
  BY ProductFolds
<1>3. PICK g \in [0..L -> Nat] : FoldsBy(ExactMulF, 1, s, L, g) /\ Exact(s) = g[L]
  BY ExactFolds
<1>4. <<1, 1>> \in Fits
  BY DEF Fits, Value
<1>5. ASSUME NEW i \in 1..L, NEW a, NEW b, <<a, b>> \in Fits
      PROVE  <<MulF[<<a, s[i]>>], ExactMulF[<<b, s[i]>>]>> \in Fits
  <2>1. a \in Value /\ b \in Nat /\ s[i] \in Nat
    BY <1>1, <1>5 DEF Fits
  <2>2. MulF[<<a, s[i]>>] \in Value /\ ExactMulF[<<b, s[i]>>] = b * s[i] /\ b * s[i] \in Nat
    BY <2>1, StepsStay DEF ExactMulF
  <2>3. MulF[<<a, s[i]>>] # None => a # None /\ MulF[<<a, s[i]>>] = a * s[i]
            /\ ~ (a * s[i] > MaxWord)
    BY <2>1 DEF MulF, CheckedWord
  <2>4. a # None => a = b
    BY <1>5 DEF Fits
  <2> QED BY <2>2, <2>3, <2>4 DEF Fits
<1>6. <<f[L], g[L]>> \in Fits
  <2>1. StepsKeep(MulF, s, ExactMulF, s, L, Fits)
    BY <1>5 DEF StepsKeep
  <2>2. L \in Nat /\ FoldsBy(MulF, 1, s, L, f) /\ FoldsBy(ExactMulF, 1, s, L, g)
    BY <1>1, <1>2, <1>3
  <2> HIDE DEF L
  <2> QED BY <1>4, <2>1, <2>2, FoldsRelate
<1> QED BY <1>2, <1>3, <1>6

(* The sums, with and without a test before the addition.                      *)
LEMMA FactsIsEvaluate ==
  ASSUME NEW s \in Seq(Seq(Nat)), Agreeable(s)
  PROVE  FactsFormula(s) = EvaluateFormula(s)
<1> USE PlanCorpusAssumption
<1> DEFINE L == Len(s)
           R == {p \in Value \X Value : p[1] = p[2]}
<1>1. L \in Nat
  OBVIOUS
<1>2. PICK f \in [0..L -> Value] :
        FoldsBy(FactsAddF, 0, Each(s, FactsProduct), L, f) /\ FactsFormula(s) = f[L]
  BY FactsFolds
<1>3. PICK g \in [0..L -> Value] :
        FoldsBy(AddF, 0, Each(s, Product), L, g) /\ EvaluateFormula(s) = g[L]
  BY EvaluateFolds
<1>4. <<0, 0>> \in R
  BY DEF Value
<1>5. ASSUME NEW i \in 1..L
      PROVE  /\ Each(s, FactsProduct)[i] = Product(s[i]) /\ Each(s, Product)[i] = Product(s[i])
             /\ Product(s[i]) \in Value
  <2>1. i \in DOMAIN s /\ s[i] \in Seq(Nat)
    OBVIOUS
  <2>2. \/ \A k \in DOMAIN s[i] : s[i][k] <= MaxWord
        \/ \A k \in DOMAIN s[i] : s[i][k] # 0
    BY <2>1 DEF Agreeable
  <2>3. FactsProduct(s[i]) = Product(s[i])
    BY <2>1, <2>2, FactsProductIsProduct
  <2>4. Product(s[i]) \in Value
    BY <2>1, ValuesOfTerms
  <2> QED BY <2>1, <2>3, <2>4 DEF Each
<1>6. ASSUME NEW a \in Value, NEW b \in Value PROVE FactsAddF[<<a, b>>] = AddF[<<a, b>>]
  BY DEF FactsAddF, AddF, CheckedWord, Value
<1>7. StepsKeep(FactsAddF, Each(s, FactsProduct), AddF, Each(s, Product), L, R)
  <2> SUFFICES ASSUME NEW i \in 1..L, NEW a \in Value
               PROVE  <<FactsAddF[<<a, Product(s[i])>>], AddF[<<a, Product(s[i])>>]>> \in R
    BY <1>5 DEF StepsKeep
  <2> QED BY <1>5, <1>6, StepsStay
<1>8. <<f[L], g[L]>> \in R
  <2> HIDE DEF L, R
  <2> QED BY <1>1, <1>2, <1>3, <1>4, <1>7, FoldsRelate
<1> QED BY <1>2, <1>3, <1>8

(* The sum of numbers is a fold too.                                         *)
LEMMA SumOfFolds ==
  ASSUME NEW t \in Seq(Nat)
  PROVE  \E g \in [0..Len(t) -> Nat] :
           FoldsBy(ExactAddF, 0, t, Len(t), g) /\ SumOf(t) = g[Len(t)]
<1> DEFINE L == Len(t)
<1>1. PICK g \in [0..L -> Nat] : Adds(t, g) /\ SumOf(t) = g[L]
  BY SumOfIsLast
<1>2. L \in Nat /\ \A i \in 1..L : i - 1 \in 0..L /\ t[i] \in Nat
  OBVIOUS
<1>3. \A i \in 1..L : g[i] = ExactAddF[<<g[i - 1], t[i]>>]
  <2> HIDE DEF L
  <2>1. \A i \in 1..L : g[i - 1] \in Nat
    BY <1>1, <1>2
  <2>2. \A a, b \in Nat : ExactAddF[<<a, b>>] = a + b
    BY DEF ExactAddF
  <2>3. \A i \in 1..Len(t) : g[i] = g[i - 1] + t[i]
    BY <1>1 DEF Adds
  <2> QED BY <1>2, <2>1, <2>2, <2>3 DEF L
<1>4. g[0] = 0
  BY <1>1 DEF Adds
<1> QED BY <1>1, <1>3, <1>4 DEF FoldsBy

(* A sum that fits is the sum of the products.                                 *)
LEMMA EvaluateIsExact ==
  ASSUME NEW s \in Seq(Seq(Nat))
  PROVE  <<EvaluateFormula(s), SumOf(Each(s, Exact))>> \in Fits
<1> USE PlanCorpusAssumption
<1> DEFINE L == Len(s)
           t == Each(s, Exact)
<1>1. L \in Nat
  OBVIOUS
<1>2. PICK f \in [0..L -> Value] :
        FoldsBy(AddF, 0, Each(s, Product), L, f) /\ EvaluateFormula(s) = f[L]
  BY EvaluateFolds
<1>3. t \in Seq(Nat) /\ Len(t) = L
  <2>1. \A i \in 1..L : Exact(s[i]) \in Nat
    BY ValuesOfTerms
  <2>2. t = [i \in 1..L |-> Exact(s[i])]
    BY DEF Each
  <2> HIDE DEF L, t
  <2> QED BY <1>1, <2>1, <2>2
<1>4. PICK g \in [0..L -> Nat] : FoldsBy(ExactAddF, 0, t, L, g) /\ SumOf(t) = g[L]
  <2> HIDE DEF t
  <2> QED BY <1>3, SumOfFolds
<1>5. <<0, 0>> \in Fits
  BY DEF Fits, Value
<1>6. ASSUME NEW i \in 1..L
      PROVE  /\ Each(s, Product)[i] = Product(s[i]) /\ t[i] = Exact(s[i])
             /\ <<Product(s[i]), Exact(s[i])>> \in Fits
  <2>1. i \in DOMAIN s /\ s[i] \in Seq(Nat)
    OBVIOUS
  <2> QED BY <2>1, ProductIsExact DEF Each
<1> HIDE DEF t
<1>7. ASSUME NEW a, NEW b, <<a, b>> \in Fits, NEW c, NEW d, <<c, d>> \in Fits
      PROVE  <<AddF[<<a, c>>], ExactAddF[<<b, d>>]>> \in Fits
  <2>1. a \in Value /\ b \in Nat /\ c \in Value /\ d \in Nat
    BY <1>7 DEF Fits
  <2>2. AddF[<<a, c>>] \in Value /\ ExactAddF[<<b, d>>] = b + d /\ b + d \in Nat
    BY <2>1, StepsStay DEF ExactAddF
  <2>3. AddF[<<a, c>>] # None =>
          a # None /\ c # None /\ AddF[<<a, c>>] = a + c /\ ~ (a + c > MaxWord)
    BY <2>1 DEF AddF, CheckedWord
  <2>4. (a # None => a = b /\ a \in Nat) /\ (c # None => c = d /\ c \in Nat)
    BY <1>7, <2>1 DEF Fits
  <2> QED BY <2>2, <2>3, <2>4 DEF Fits
<1>8. StepsKeep(AddF, Each(s, Product), ExactAddF, t, L, Fits)
  BY <1>6, <1>7 DEF StepsKeep
<1>9. <<f[L], g[L]>> \in Fits
  <2> HIDE DEF L
  <2> QED BY <1>1, <1>2, <1>4, <1>5, <1>8, FoldsRelate
<1> QED BY <1>2, <1>4, <1>9 DEF t

(* What follows the first item of a fold is a fold of the others.              *)
Shifted(g, n, h) == \A i \in 0..n : h[i] = g[i + 1]
LEMMA FoldOfTail ==
  ASSUME NEW S, NEW s \in Seq(S), s # << >>, NEW F, NEW z, NEW g, FoldsBy(F, z, s, Len(s), g),
         NEW h, Shifted(g, Len(s) - 1, h)
  PROVE  FoldsBy(F, F[<<z, s[1]>>], Tail(s), Len(s) - 1, h)
<1> DEFINE m == Len(s) - 1
<1>0. m \in Nat /\ Len(s) = m + 1
  OBVIOUS
<1>1. \A i \in 1..(m + 1) : g[i] = F[<<g[i - 1], s[i]>>]
  BY <1>0 DEF FoldsBy
<1>2. h[0] = F[<<z, s[1]>>]
  <2>1. 1 \in 1..(m + 1) /\ 1 - 1 = 0 /\ 0 \in 0..m /\ 0 + 1 = 1
    BY <1>0
  <2>2. g[0] = z
    BY DEF FoldsBy
  <2>3. h[0] = g[1]
    BY <2>1 DEF Shifted
  <2> QED BY <1>1, <2>1, <2>2, <2>3
<1>3. ASSUME NEW i \in 1..m PROVE h[i] = F[<<h[i - 1], Tail(s)[i]>>]
  <2>1. i + 1 \in 1..(m + 1) /\ (i + 1) - 1 = i /\ i \in 0..m /\ i - 1 \in 0..m /\ (i - 1) + 1 = i
    BY <1>0
  <2>2. Tail(s)[i] = s[i + 1]
    BY <1>0
  <2>3. h[i] = g[i + 1] /\ h[i - 1] = g[i]
    BY <2>1 DEF Shifted
  <2> QED BY <1>1, <2>1, <2>2, <2>3
<1> QED BY <1>2, <1>3 DEF FoldsBy

(* A tree has the value of the formula once it is capped, that is once a lone  *)
(* literal is tested like all others.                                          *)
Capped(v) == IF v = None THEN None ELSE CheckedWord(v)
Caps == {p \in Value \X Value : p[2] = Capped(p[1])}

(* Capping once is enough.                                                   *)
LEMMA CappedStays == \A v \in Value : Capped(v) \in Value /\ Capped(Capped(v)) = Capped(v)
BY DEF Capped, CheckedWord, Value

(* Tested or not, what is multiplied on gives the same, unless by a 0.       *)
LEMMA MultipliedIsCapped ==
  ASSUME NEW a \in Value, NEW w \in Nat, a = None \/ a <= MaxWord \/ w # 0
  PROVE  /\ MulF[<<Capped(a), w>>] = MulF[<<a, w>>]
         /\ Capped(MulF[<<a, w>>]) = MulF[<<a, w>>]
<1> USE PlanCorpusAssumption
<1>1. \A b \in Value : MulF[<<b, w>>] = IF b = None THEN None ELSE CheckedWord(b * w)
  BY DEF MulF
<1>2. CASE a = None
  BY <1>1, <1>2 DEF Capped
<1>3. CASE a \in Nat
  <2>1. a # None /\ a \in Value /\ a * w \in Nat
    BY <1>3
  <2>2. MulF[<<a, w>>] = CheckedWord(a * w)
    BY <1>1, <2>1
  <2>3. Capped(CheckedWord(a * w)) = CheckedWord(a * w)
    BY <2>1 DEF Capped, CheckedWord
  <2>4. CASE a <= MaxWord
    <3>1. Capped(a) = a
      BY <1>3, <2>1, <2>4 DEF Capped, CheckedWord
    <3> QED BY <2>2, <2>3, <3>1
  <2>5. CASE a > MaxWord
    <3>1. Capped(a) = None
      BY <1>3, <2>1, <2>5 DEF Capped, CheckedWord
    <3>2. w >= 1 /\ a * w >= a
      BY <1>3, <2>1, <2>5
    <3>3. CheckedWord(a * w) = None
      BY <1>3, <2>1, <2>5, <3>2 DEF CheckedWord
    <3>4. None \in Value
      BY DEF Value
    <3> QED BY <1>1, <2>2, <2>3, <3>1, <3>3, <3>4
  <2> QED BY <1>3, <2>4, <2>5
<1> QED BY <1>2, <1>3 DEF Value

(* And what is added.                                                        *)
LEMMA AddedIsCapped ==
  ASSUME NEW a \in Value, NEW c \in Value
  PROVE  /\ AddF[<<Capped(a), Capped(c)>>] = AddF[<<a, c>>]
         /\ Capped(AddF[<<a, c>>]) = AddF[<<a, c>>]
<1> USE PlanCorpusAssumption
<1>1. \A b, d \in Value :
        AddF[<<b, d>>] = IF b = None \/ d = None THEN None ELSE CheckedWord(b + d)
  BY DEF AddF
<1>2. CASE a = None \/ c = None
  BY <1>1, <1>2, CappedStays DEF Capped
<1>3. CASE a \in Nat /\ c \in Nat
  <2>1. a # None /\ c # None /\ a + c \in Nat
    BY <1>3
  <2>2. AddF[<<a, c>>] = CheckedWord(a + c)
    BY <1>1, <2>1
  <2>3. Capped(CheckedWord(a + c)) = CheckedWord(a + c)
    BY <2>1 DEF Capped, CheckedWord
  <2>4. CASE a <= MaxWord /\ c <= MaxWord
    <3>1. Capped(a) = a /\ Capped(c) = c
      BY <1>3, <2>1, <2>4 DEF Capped, CheckedWord
    <3> QED BY <2>2, <2>3, <3>1
  <2>5. CASE a > MaxWord \/ c > MaxWord
    <3>1. Capped(a) = None \/ Capped(c) = None
      BY <1>3, <2>1, <2>5 DEF Capped, CheckedWord
    <3>2. a + c > MaxWord
      BY <1>3, <2>5
    <3>3. CheckedWord(a + c) = None
      BY <3>2 DEF CheckedWord
    <3> QED BY <1>1, <2>2, <2>3, <3>1, <3>3, CappedStays
  <2> QED BY <1>3, <2>4, <2>5
<1> QED BY <1>2, <1>3 DEF Value

(* A product is that of the tree, and so is a sum of them.                   *)
LEMMA ProductIsTheTrees ==
  ASSUME NEW s \in Seq(Nat), s # << >>,
         \/ \A k \in DOMAIN s : s[k] <= MaxWord
         \/ \A k \in DOMAIN s : s[k] # 0
  PROVE  /\ Product(s) = Capped(TreeProduct(s)) /\ TreeProduct(s) \in Value
         /\ Len(s) > 1 \/ s[1] <= MaxWord => TreeProduct(s) = Capped(TreeProduct(s))
<1> USE PlanCorpusAssumption
<1> DEFINE L == Len(s)
           m == L - 1
           R == {p \in Caps : \/ p[1] = None \/ p[1] <= MaxWord
                              \/ \A k \in DOMAIN s : s[k] # 0}
<1>1. L \in Nat /\ m \in Nat /\ L = m + 1 /\ \A i \in 1..L : s[i] \in Nat /\ i \in DOMAIN s
  OBVIOUS
<1>2. PICK f \in [0..m -> Value] : FoldsBy(MulF, s[1], Tail(s), m, f) /\ TreeProduct(s) = f[m]
  BY TreeProductFolds
<1>3. PICK g \in [0..L -> Value] : FoldsBy(MulF, 1, s, L, g) /\ Product(s) = g[L]
  BY ProductFolds
<1> DEFINE h == [i \in 0..m |-> g[i + 1]]
           z == MulF[<<1, s[1]>>]
<1>4. FoldsBy(MulF, z, Tail(s), m, h) /\ h[m] = g[L]
  <2>1. FoldsBy(MulF, 1, s, Len(s), g)
    BY <1>3
  <2>2. m \in 0..m
    BY <1>1
  <2>3. FoldsBy(MulF, z, Tail(s), m, h)
    <3>1. Shifted(g, Len(s) - 1, h)
      BY DEF Shifted
    <3> HIDE DEF h
    <3> QED BY <2>1, <3>1, FoldOfTail
  <2>4. h[m] = g[L]
    BY <1>1, <2>2
  <2> QED BY <2>3, <2>4
<1>5. <<s[1], z>> \in R
  <2>1. s[1] \in Nat /\ s[1] \in Value /\ 1 \in Value /\ s[1] # None /\ 1 \in DOMAIN s
    BY <1>1 DEF Value
  <2>2. z = CheckedWord(s[1])
    BY <2>1 DEF MulF
  <2>3. Capped(s[1]) = CheckedWord(s[1])
    BY <2>1 DEF Capped
  <2>4. z \in Value
    BY <2>1, StepsStay
  <2> QED BY <2>1, <2>2, <2>3, <2>4 DEF Caps
<1>6. ASSUME NEW i \in 1..m PROVE Tail(s)[i] = s[i + 1] /\ i + 1 \in DOMAIN s /\ s[i + 1] \in Nat
  OBVIOUS
<1>7. ASSUME NEW a \in Value, NEW w \in Nat PROVE MulF[<<a, w>>] \in Value
  BY StepsStay
<1>8. StepsKeep(MulF, Tail(s), MulF, Tail(s), m, R)
  <2> SUFFICES ASSUME NEW i \in 1..m, NEW a, NEW b, <<a, b>> \in R
               PROVE  <<MulF[<<a, Tail(s)[i]>>], MulF[<<b, Tail(s)[i]>>]>> \in R
    BY DEF StepsKeep
  <2> DEFINE w == Tail(s)[i]
  <2>1. a \in Value /\ b = Capped(a) /\ w \in Nat /\ (a = None \/ a <= MaxWord \/ w # 0)
    BY <1>6 DEF Caps
  <2> HIDE DEF w
  <2>2. MulF[<<b, w>>] = MulF[<<a, w>>] /\ Capped(MulF[<<a, w>>]) = MulF[<<a, w>>]
    BY <2>1, MultipliedIsCapped
  <2>3. MulF[<<a, w>>] \in Value /\ MulF[<<b, w>>] \in Value
    BY <1>7, <2>1, <2>2
  <2>4. MulF[<<a, w>>] = None \/ MulF[<<a, w>>] <= MaxWord
    <3>1. a = None => MulF[<<a, w>>] = None
      BY <2>1 DEF MulF
    <3>2. a # None => a * w \in Nat /\ MulF[<<a, w>>] = CheckedWord(a * w)
      BY <2>1 DEF MulF, Value
    <3> QED BY <3>1, <3>2 DEF CheckedWord
  <2> QED BY <2>2, <2>3, <2>4 DEF Caps, w
<1>9. <<f[m], h[m]>> \in R
  <2> HIDE DEF m, R, h, z
  <2> QED BY <1>1, <1>2, <1>4, <1>5, <1>8, FoldsRelate
<1>10. Product(s) = Capped(TreeProduct(s)) /\ TreeProduct(s) \in Value
  BY <1>2, <1>3, <1>4, <1>9 DEF Caps
<1>11. CASE L > 1
  <2>1. m \in 1..m /\ m - 1 \in 0..m /\ Tail(s)[m] \in Nat
    BY <1>1, <1>6, <1>11
  <2>2. f[m] = MulF[<<f[m - 1], Tail(s)[m]>>] /\ f[m - 1] \in Value
    BY <1>2, <2>1 DEF FoldsBy
  <2>3. ASSUME NEW a \in Value, NEW w \in Nat PROVE Capped(MulF[<<a, w>>]) = MulF[<<a, w>>]
    <3>1. a # None => a * w \in Nat
      BY DEF Value
    <3>2. MulF[<<a, w>>] = IF a = None THEN None ELSE CheckedWord(a * w)
      BY DEF MulF
    <3> QED BY <3>1, <3>2 DEF Capped, CheckedWord
  <2> QED BY <1>2, <1>10, <2>1, <2>2, <2>3
<1>12. CASE L = 1 /\ s[1] <= MaxWord
  <2>1. f[m] = s[1]
    BY <1>2, <1>12 DEF FoldsBy
  <2>2. s[1] \in Nat
    BY <1>1
  <2> QED BY <1>2, <1>10, <1>12, <2>1, <2>2 DEF Capped, CheckedWord
<1> QED BY <1>1, <1>10, <1>11, <1>12

LEMMA EvaluateIsTheTrees ==
  ASSUME NEW s \in Seq(Seq(Nat)), s # << >>, \A i \in DOMAIN s : s[i] # << >>, Agreeable(s)
  PROVE  /\ EvaluateFormula(s) = Capped(TreeValue(s))
         /\ Len(s) > 1 \/ Len(s[1]) > 1 \/ s[1][1] <= MaxWord
             => TreeValue(s) = Capped(TreeValue(s))
<1> USE PlanCorpusAssumption
<1> DEFINE L == Len(s)
           m == L - 1
           P == Each(s, Product)
           T == Each(s, TreeProduct)
<1>1. L \in Nat /\ m \in Nat /\ L = m + 1 /\ \A i \in 1..L : i \in DOMAIN s /\ s[i] \in Seq(Nat)
  OBVIOUS
<1>2. ASSUME NEW i \in DOMAIN s
      PROVE  /\ Product(s[i]) = Capped(TreeProduct(s[i])) /\ TreeProduct(s[i]) \in Value
             /\ Len(s[i]) > 1 \/ s[i][1] <= MaxWord =>
                  TreeProduct(s[i]) = Capped(TreeProduct(s[i]))
             /\ Product(s[i]) \in Value
  <2>1. s[i] \in Seq(Nat) /\ s[i] # << >>
    OBVIOUS
  <2>2. \/ \A k \in DOMAIN s[i] : s[i][k] <= MaxWord
        \/ \A k \in DOMAIN s[i] : s[i][k] # 0
    BY DEF Agreeable
  <2>3. Product(s[i]) \in Value
    BY ValuesOfTerms
  <2> HIDE DEF Product, TreeProduct
  <2> QED BY <2>1, <2>2, <2>3, ProductIsTheTrees
<1>3. /\ P \in Seq(Value) /\ Len(P) = L /\ \A i \in 1..L : P[i] = Product(s[i])
      /\ T \in Seq(Value) /\ Len(T) = L /\ \A i \in 1..L : T[i] = TreeProduct(s[i])
  <2>1. P = [i \in 1..L |-> Product(s[i])] /\ T = [i \in 1..L |-> TreeProduct(s[i])]
    BY DEF Each
  <2>2. \A i \in 1..L : Product(s[i]) \in Value /\ TreeProduct(s[i]) \in Value
    BY <1>2
  <2> HIDE DEF L, P, T
  <2> QED BY <1>1, <2>1, <2>2
<1>4. PICK f \in [0..m -> Value] :
        FoldsBy(AddF, TreeProduct(s[1]), Tail(T), m, f) /\ TreeValue(s) = f[m]
  BY TreeFolds
<1>5. PICK g \in [0..L -> Value] : FoldsBy(AddF, 0, P, L, g) /\ EvaluateFormula(s) = g[L]
  BY EvaluateFolds
<1> HIDE DEF P, T
<1> DEFINE h == [i \in 0..m |-> g[i + 1]]
           z == AddF[<<0, P[1]>>]
<1>6. FoldsBy(AddF, z, Tail(P), m, h) /\ h[m] = g[L]
  <2>1. FoldsBy(AddF, 0, P, Len(P), g) /\ P \in Seq(Value) /\ P # << >> /\ Len(P) - 1 = m
    BY <1>1, <1>3, <1>5
  <2>2. m \in 0..m
    BY <1>1
  <2>3. Shifted(g, Len(P) - 1, h)
    BY <2>1 DEF Shifted
  <2>4. FoldsBy(AddF, z, Tail(P), m, h)
    <3> HIDE DEF h
    <3>1. FoldsBy(AddF, z, Tail(P), Len(P) - 1, h)
      BY <2>1, <2>3, FoldOfTail
    <3> QED BY <2>1, <3>1
  <2>5. h[m] = g[L]
    BY <1>1, <2>2
  <2> QED BY <2>4, <2>5
<1>7. <<TreeProduct(s[1]), z>> \in Caps
  <2>1. 1 \in DOMAIN s /\ P[1] = Capped(TreeProduct(s[1])) /\ TreeProduct(s[1]) \in Value
            /\ P[1] \in Value
    <3>1. 1 \in 1..L /\ 1 \in DOMAIN s
      BY <1>1
    <3>2. P[1] = Product(s[1])
      BY <1>3, <3>1
    <3> QED BY <1>2, <3>1, <3>2
  <2>2. ASSUME NEW v \in Value PROVE AddF[<<0, Capped(v)>>] = Capped(v) /\ Capped(v) \in Value
    <3>1. Capped(v) \in Value /\ Capped(Capped(v)) = Capped(v) /\ 0 \in Value /\ 0 # None
      BY CappedStays DEF Value
    <3>2. AddF[<<0, Capped(v)>>] =
            IF Capped(v) = None THEN None ELSE CheckedWord(0 + Capped(v))
      BY <3>1 DEF AddF
    <3>3. Capped(v) # None => 0 + Capped(v) = Capped(v)
      BY <3>1 DEF Value
    <3> QED BY <3>1, <3>2, <3>3 DEF Capped
  <2> QED BY <2>1, <2>2 DEF Caps
<1>8. ASSUME NEW i \in 1..m
      PROVE  /\ Tail(T)[i] = TreeProduct(s[i + 1]) /\ Tail(P)[i] = Capped(TreeProduct(s[i + 1]))
             /\ TreeProduct(s[i + 1]) \in Value
  <2>1. i + 1 \in 1..L /\ i + 1 \in DOMAIN s
    BY <1>1
  <2>2. Tail(T)[i] = T[i + 1] /\ Tail(P)[i] = P[i + 1]
    BY <1>1, <1>3
  <2> QED BY <1>2, <1>3, <2>1, <2>2
<1>9. StepsKeep(AddF, Tail(T), AddF, Tail(P), m, Caps)
  <2> SUFFICES ASSUME NEW i \in 1..m, NEW a, NEW b, <<a, b>> \in Caps
               PROVE  <<AddF[<<a, Tail(T)[i]>>], AddF[<<b, Tail(P)[i]>>]>> \in Caps
    BY DEF StepsKeep
  <2> DEFINE c == TreeProduct(s[i + 1])
  <2>1. a \in Value /\ b = Capped(a) /\ c \in Value /\ Tail(T)[i] = c /\ Tail(P)[i] = Capped(c)
    BY <1>8 DEF Caps
  <2> HIDE DEF c
  <2>2. AddF[<<b, Capped(c)>>] = AddF[<<a, c>>] /\ Capped(AddF[<<a, c>>]) = AddF[<<a, c>>]
    BY <2>1, AddedIsCapped
  <2>3. AddF[<<a, c>>] \in Value
    BY <2>1, StepsStay
  <2> QED BY <2>1, <2>2, <2>3 DEF Caps
<1>10. <<f[m], h[m]>> \in Caps
  <2> HIDE DEF m, h, z
  <2> QED BY <1>1, <1>4, <1>6, <1>7, <1>9, FoldsRelate
<1>11. EvaluateFormula(s) = Capped(TreeValue(s)) /\ TreeValue(s) \in Value
  BY <1>4, <1>5, <1>6, <1>10 DEF Caps
<1>12. CASE L > 1
  <2>1. m \in 1..m /\ m - 1 \in 0..m
    BY <1>1, <1>12
  <2>2. f[m] = AddF[<<f[m - 1], Tail(T)[m]>>] /\ f[m - 1] \in Value /\ Tail(T)[m] \in Value
    BY <1>4, <1>8, <2>1 DEF FoldsBy
  <2>3. Capped(f[m]) = f[m]
    <3> HIDE DEF m
    <3> QED BY <2>2, AddedIsCapped
  <2> QED BY <1>4, <1>11, <2>3
<1>13. CASE L = 1 /\ (Len(s[1]) > 1 \/ s[1][1] <= MaxWord)
  <2>1. f[m] = TreeProduct(s[1])
    BY <1>1, <1>4, <1>13 DEF FoldsBy
  <2>2. 1 \in DOMAIN s
    BY <1>1
  <2>3. TreeProduct(s[1]) = Capped(TreeProduct(s[1]))
    BY <1>2, <1>13, <2>2
  <2>4. TreeValue(s) = TreeProduct(s[1])
    BY <1>4, <2>1
  <2> QED BY <1>11, <2>3, <2>4
<1> QED BY <1>1, <1>11, <1>12, <1>13

(* A formula has a term, and every term has a literal.                         *)
FormulaOK ==
  kind = "formula" =>
    now \in Seq(Seq(Nat)) /\ now # << >> /\ \A i \in DOMAIN now : now[i] # << >>
LEMMA FormulaInit == PlanCorpusInit => FormulaOK
<1> SUFFICES ASSUME PlanCorpusInit, kind = "formula" PROVE FormulaOK
  BY DEF FormulaOK
<1>1. PICK x \in Words : now = <<<<x>>>>
  BY DEF PlanCorpusInit
<1>2. x \in Nat /\ <<x>> \in Seq(Nat) /\ <<x>> # << >>
  BY PlanCorpusAssumption
<1> HIDE DEF FormulaOK
<1> QED BY <1>1, <1>2 DEF FormulaOK
(* And no edit empties one.                                                  *)
LEMMA FormulaNext == FormulaOK /\ [PlanCorpusNext]_corpusVars => FormulaOK'
<1> SUFFICES ASSUME FormulaOK, [PlanCorpusNext]_corpusVars PROVE FormulaOK'
  OBVIOUS
<1>1. CASE kind = "formula"
  <2>1. now \in Seq(Seq(Nat)) /\ now # << >> /\ \A i \in DOMAIN now : now[i] # << >>
    BY <1>1 DEF FormulaOK
  <2>2. CASE EditFormula
    <3>1. PICK x \in Words : \/ now' = Append(now, <<x>>)
                             \/ now' = [now EXCEPT ![Len(now)] = Append(@, x)]
      BY <2>2 DEF EditFormula, Edit
    <3>2. x \in Nat /\ <<x>> \in Seq(Nat) /\ <<x>> # << >>
      BY PlanCorpusAssumption
    <3>3. CASE now' = Append(now, <<x>>)
      <4>1. /\ now' \in Seq(Seq(Nat)) /\ now' # << >> /\ Len(now') = Len(now) + 1
            /\ \A i \in 1..Len(now) : now'[i] = now[i]
            /\ now'[Len(now) + 1] = <<x>>
        <5> DEFINE t == <<x>>
        <5>1. t \in Seq(Nat) /\ now' = Append(now, t)
          BY <3>2, <3>3
        <5> DEFINE S == Seq(Nat)
        <5>2. now \in Seq(S) /\ t \in S
          BY <2>1, <5>1
        <5> HIDE DEF t, S
        <5>3. /\ now' \in Seq(S) /\ now' # << >> /\ Len(now') = Len(now) + 1
              /\ \A i \in 1..Len(now) : now'[i] = now[i]
              /\ now'[Len(now) + 1] = t
          BY <5>1, <5>2, AppendProperties
        <5> QED BY <5>3 DEF t, S
      <4>2. ASSUME NEW i \in DOMAIN now' PROVE now'[i] # << >>
        <5>1. Len(now) \in Nat /\ DOMAIN now = 1..Len(now) /\ DOMAIN now' = 1..(Len(now) + 1)
          BY <2>1, <4>1
        <5>2. i \in 1..Len(now) \/ i = Len(now) + 1
          BY <5>1
        <5> QED BY <2>1, <3>2, <4>1, <5>1, <5>2
      <4> QED BY <4>1, <4>2 DEF FormulaOK
    <3>4. CASE now' = [now EXCEPT ![Len(now)] = Append(@, x)]
      <4>1. Len(now) \in DOMAIN now /\ now[Len(now)] \in Seq(Nat)
        BY <2>1
      <4>2. Append(now[Len(now)], x) \in Seq(Nat) /\ Append(now[Len(now)], x) # << >>
        BY <3>2, <4>1, AppendProperties
      <4>3. /\ now' \in Seq(Seq(Nat)) /\ DOMAIN now' = DOMAIN now
            /\ \A i \in DOMAIN now :
                 now'[i] = IF i = Len(now) THEN Append(now[Len(now)], x) ELSE now[i]
        BY <2>1, <3>4, <4>1, <4>2
      <4>4. now' # << >>
        BY <4>1, <4>3
      <4> QED BY <2>1, <4>2, <4>3, <4>4 DEF FormulaOK
    <3> QED BY <3>1, <3>3, <3>4
  <2>3. CASE UNCHANGED corpusVars
    BY <2>1, <2>3 DEF corpusVars, FormulaOK
  <2> QED
    BY <1>1, <2>2, <2>3
    DEF PlanCorpusNext, ReplaceCell, AppendCell, Truncate, RepackFrame, EditObject, EditBatch,
        EditCall, EditTransaction, EditPrepare, RaiseBoundary
<1>2. CASE kind # "formula"
  <2>1. kind' = kind
    BY <1>2 DEF corpusVars, PlanCorpusNext, ReplaceCell, AppendCell, Truncate, RepackFrame,
       EditObject, EditBatch, EditCall, EditTransaction, EditPrepare, RaiseBoundary, EditFormula,
       Edit, Derive
  <2> QED BY <1>2, <2>1 DEF FormulaOK
<1> QED BY <1>1, <1>2

(* However long a formula, the plan checker, the facts checker and the tree of *)
(* a source object that evaluate it agree, and a value that is given is the    *)
(* exact one: of words, and of larger literals where no 0 hides them.          *)
THEOREM EvaluatorsAgree == PlanCorpusSpec => []FormulaeAgree
<1>1. FormulaOK => FormulaeAgree
  <2> SUFFICES ASSUME FormulaOK, kind = "formula" PROVE FormulaeAgree
    BY DEF FormulaeAgree
  <2>1. now \in Seq(Seq(Nat)) /\ now # << >> /\ \A i \in DOMAIN now : now[i] # << >>
    BY DEF FormulaOK
  <2>2. <<EvaluateFormula(now), SumOf(Each(now, Exact))>> \in Fits
    BY <2>1, EvaluateIsExact
  <2>3. CASE Agreeable(now)
    <3>1. EvaluateFormula(now) = FactsFormula(now)
      BY <2>1, <2>3, FactsIsEvaluate
    <3>2. now # <<<<now[1][1]>>>> => Len(now) > 1 \/ Len(now[1]) > 1
      <4>0. Len(now) \in Nat /\ 1 \in DOMAIN now /\ now[1] \in Seq(Nat) /\ Len(now[1]) \in Nat
        <5>1. Len(now) \in Nat /\ 1 \in DOMAIN now
          BY <2>1
        <5>2. now[1] \in Seq(Nat)
          BY <2>1, <5>1
        <5>3. Len(now[1]) \in Nat
          BY <5>2
        <5> QED BY <5>1, <5>2, <5>3
      <4> SUFFICES ASSUME Len(now) <= 1, Len(now[1]) <= 1 PROVE now = <<<<now[1][1]>>>>
        BY <4>0
      <4>1. now[1] # << >>
        BY <2>1, <4>0
      <4>2. Len(now) = 1 /\ Len(now[1]) = 1
        <5>1. Len(now) # 0
          BY <2>1, EmptySeq
        <5>2. Len(now[1]) # 0
          BY <4>0, <4>1, EmptySeq
        <5>3. ASSUME NEW n \in Nat, n # 0, n <= 1 PROVE n = 1
          BY <5>3
        <5>4. Len(now) = 1
          BY <4>0, <5>1, <5>3, Zenon
        <5>5. Len(now[1]) = 1
          BY <4>0, <5>2, <5>3, Zenon
        <5> QED BY <5>4, <5>5
      <4>3. now[1] = <<now[1][1]>>
        BY <4>0, <4>2
      <4>4. now = <<now[1]>>
        BY <2>1, <4>2
      <4> QED BY <4>3, <4>4
    <3>3. now # <<<<now[1][1]>>>> \/ now[1][1] <= MaxWord => EvaluateFormula(now) = TreeValue(now)
      BY <2>1, <2>3, <3>2, EvaluateIsTheTrees
    <3> QED BY <2>2, <3>1, <3>3 DEF FormulaeAgree, Fits
  <2>4. CASE ~Agreeable(now)
    BY <2>2, <2>4 DEF FormulaeAgree, Fits
  <2> QED BY <2>3, <2>4
<1>2. PlanCorpusSpec => []FormulaOK
  BY FormulaInit, FormulaNext, PTL DEF PlanCorpusSpec
<1> QED BY <1>1, <1>2, PTL
=============================================================================
